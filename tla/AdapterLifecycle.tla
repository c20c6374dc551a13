--------------------------- MODULE AdapterLifecycle ---------------------------
(***************************************************************************)
(* The life of one Adapter object and of the libcec instance behind        *)
(* self->adapter: Adapter_new, the methods of Adapter and Device that go   *)
(* through the pointer, list_devices, close(), the references to the       *)
(* object and Adapter_dealloc, with the threads of the client and the      *)
(* libcec threads that call back into the object.  A handler is Python     *)
(* code: on the libcec thread it may do what a client thread may do.       *)
(*                                                                         *)
(* For the pointer and the interpreter lock, a method is the sequence of   *)
(* its lock operations and of its uses of self->adapter:                   *)
(*   "unlock"  Py_BEGIN_ALLOW_THREADS        "lock"  Py_END_ALLOW_THREADS  *)
(*   "use"     load self->adapter and call libcec through it               *)
(* code[t] is what is left of the C function thread t is in; <<>> means    *)
(* that t runs Python code.                                                *)
(***************************************************************************)
EXTENDS Naturals, FiniteSets, Sequences, Functions

CONSTANTS
    UserThreads,  \* Python threads of the client
    CecThreads,   \* threads on which libcec calls back
    Registry,     \* self->callbacks, as the owner of a reference
    QuietClose,   \* do the client's threads close only while none of them is
                  \* in a call, call nothing but close() from then on, and
                  \* never close from a handler?
    ClosesFirst,  \* do they close before they drop their last reference?
    Failures,     \* may CECInitialise, the detection or Open fail?
    DeviceFields, \* fields of a Device that libcec is asked for; 5 in Device_new
    MaxListed,    \* bound on the Devices that list_devices creates
    None

Threads == UserThreads \cup CecThreads

ASSUME ConstantsAssumption ==
    /\ UserThreads \cap CecThreads = {}
    /\ IsFiniteSet(Threads)
    /\ {None, Registry} \cap Threads = {}
    /\ None # Registry
    /\ DeviceFields \in Nat \ {0}
    /\ MaxListed \in Nat
    /\ {QuietClose, ClosesFirst, Failures} \subseteq BOOLEAN

VARIABLES
    gil,      \* the thread that holds the interpreter lock, or None
    obj,      \* the Adapter object
    refs,     \* its reference count
    holds,    \* the references: <<owner, what it holds>>
    listed,   \* Devices that list_devices created
    adapter,  \* self->adapter
    lib,      \* the libcec instance
    code,     \* the rest of the C function each thread is in
    cec       \* where each libcec thread is

object == <<obj, refs, holds, listed>>
vars == <<gil, object, adapter, lib, code, cec>>

Kinds == {"adapter", "device"}

\* The methods and properties by their uses of self->adapter.
Call      == <<"unlock", "use", "lock">>
CallTwice == <<"unlock", "use", "use", "lock">>
Transmit  == <<"use">> \o Call                   \* with the default initiator
PersistRefused == <<"use">>                      \* cannot be persisted
PersistUnread  == <<"use", "use">>               \* no current configuration
PersistConfig  == PersistUnread \o Call

AdapterMethods    == {Call, Transmit, PersistRefused, PersistUnread, PersistConfig}
AdapterProperties == {Call, CallTwice}
DeviceMethods     == {Call, CallTwice}

\* Device_new asks for vendor, physical address, version, name and language,
\* and makes a string of each answer.
NewDevice ==
    LET field == Call \o <<"field">>
    IN  [i \in 1..(4 * DeviceFields) |-> field[1 + ((i - 1) % 4)]]

ListDevices == Call \o <<"list">>

\* Mutant of AdapterClose: without Py_BEGIN_ALLOW_THREADS.
AdapterCloseLocked == <<"close", "clear">>

AdapterClose == <<"unlock", "close", "clear", "lock">>

Initialise(named) ==
    <<"unlock", "initialise", "lock", "unlock", "video", "lock">>
    \o (IF named THEN <<>> ELSE <<"unlock", "detect", "lock">>)
    \o <<"unlock", "open", "lock", "created">>

At(t, op) == code[t] # <<>> /\ Head(code[t]) = op
Step(t) == code' = [code EXCEPT ![t] = Tail(@)]
Become(t, rest) == code' = [code EXCEPT ![t] = rest]

InPython(t) ==
    /\ code[t] = <<>>
    /\ t \in CecThreads => cec[t] = "handler"
Closing(t) == \E op \in {"close", "closing", "clear"} : At(t, op)

\* list_devices is creating a Device.
Listing(t) == "listed" \in Range(code[t])

-----------------------------------------------------------------------------
(* The interpreter lock.                                                    *)

TakeGil(t) ==
    /\ InPython(t)
    /\ gil = None
    /\ gil' = t
    /\ UNCHANGED <<object, adapter, lib, code, cec>>

DropGil(t) ==
    /\ InPython(t)
    /\ gil = t
    /\ gil' = None
    /\ UNCHANGED <<object, adapter, lib, code, cec>>

Unlock(u) ==
    /\ At(u, "unlock")
    /\ gil' = None
    /\ Step(u)
    /\ UNCHANGED <<object, adapter, lib, cec>>

Lock(u) ==
    /\ At(u, "lock")
    /\ gil = None
    /\ gil' = u
    /\ Step(u)
    /\ UNCHANGED <<object, adapter, lib, cec>>

-----------------------------------------------------------------------------
(* Adapter_new.  tp_alloc gives the object its first reference.             *)

AdapterNew(u, named) ==
    /\ InPython(u)
    /\ gil = u
    /\ obj = "none"
    /\ obj' = "building"
    /\ refs' = 1
    /\ Become(u, Initialise(named))
    /\ UNCHANGED <<gil, holds, listed, adapter, lib, cec>>

\* The instance exists and may call back before CECInitialise has returned.
InitialiseStarts(u) ==
    /\ At(u, "initialise")
    /\ lib = "none"
    /\ lib' = "up"
    /\ UNCHANGED <<gil, object, adapter, code, cec>>

InitialiseReturns(u) ==
    /\ At(u, "initialise")
    /\ lib = "up"
    /\ adapter' = "set"
    /\ Step(u)
    /\ UNCHANGED <<gil, object, lib, cec>>

\* Mutant of CreationFails: the object is freed and its instance left.
CreationFailsFrees(u) ==
    /\ Failures
    /\ \/ At(u, "initialise") /\ lib = "none"
       \/ At(u, "detect")
       \/ At(u, "open")
    /\ Become(u, <<"lock", "free">>)
    /\ UNCHANGED <<gil, object, adapter, lib, cec>>

\* CECInitialise returned NULL, no adapter was found, or Open failed.
CreationFails(u) ==
    /\ Failures
    /\ \/ At(u, "initialise") /\ lib = "none"
       \/ At(u, "detect")
       \/ At(u, "open")
    /\ Become(u, <<"lock", "dealloc">>)
    /\ UNCHANGED <<gil, object, adapter, lib, cec>>

\* InitVideoStandalone, DetectAdapters, Open.
CreationProceeds(u) ==
    /\ \E op \in {"video", "detect", "open"} : At(u, op)
    /\ Step(u)
    /\ UNCHANGED <<gil, object, adapter, lib, cec>>

Created(u) ==
    /\ At(u, "created")
    /\ obj' = "live"
    /\ holds' = {<<u, "adapter">>}
    /\ Step(u)
    /\ UNCHANGED <<gil, refs, listed, adapter, lib, cec>>

-----------------------------------------------------------------------------
(* Methods.                                                                 *)

\* A handler may call while a client thread waits in Close for it to end.
MayCall(t) ==
    /\ InPython(t)
    /\ gil = t
    /\ (QuietClose /\ t \in UserThreads) =>
          adapter = "set" /\ \A u \in UserThreads : ~Closing(u)

Has(t, k) == <<t, k>> \in holds

\* A Device that list_devices created is within reach for as long as the
\* client keeps the dictionary.
CallMethod(t) ==
    /\ MayCall(t)
    /\ \/ /\ Has(t, "adapter")
          /\ \E m \in AdapterMethods \cup AdapterProperties \cup {ListDevices} :
                Become(t, m)
       \/ /\ Has(t, "device") \/ listed > 0
          /\ \E m \in DeviceMethods : Become(t, m)
    /\ UNCHANGED <<gil, object, adapter, lib, cec>>

\* Mutant of DeviceNew: the Device borrows the adapter.
DeviceNewBorrows(t) ==
    /\ MayCall(t)
    /\ Has(t, "adapter") /\ ~Has(t, "device")
    /\ Become(t, NewDevice \o <<"device">>)
    /\ UNCHANGED <<gil, object, adapter, lib, cec>>

\* Device_new takes a reference to the adapter before it asks libcec.
DeviceNew(t) ==
    /\ MayCall(t)
    /\ Has(t, "adapter") /\ ~Has(t, "device")
    /\ refs' = refs + 1
    /\ Become(t, NewDevice \o <<"device">>)
    /\ UNCHANGED <<gil, obj, holds, listed, adapter, lib, cec>>

\* Mutants of DeviceFails: the reference is kept; it is given back twice.
DeviceFailsKeeps(t) ==
    /\ At(t, "field")
    /\ Become(t, <<>>)
    /\ UNCHANGED <<gil, object, adapter, lib, cec>>

DeviceFailsTwice(t) ==
    /\ At(t, "field")
    /\ refs' = refs - 2
    /\ Become(t, <<>>)
    /\ UNCHANGED <<gil, obj, holds, listed, adapter, lib, cec>>

\* A string cannot be made of the answer: the reference is given back.  When
\* list_devices asked for the Device, it gives up as well.
DeviceFails(t) ==
    /\ At(t, "field")
    /\ refs' = refs - 1
    /\ Become(t, <<>>)
    /\ UNCHANGED <<gil, obj, holds, listed, adapter, lib, cec>>

FieldBuilt(t) ==
    /\ At(t, "field")
    /\ Step(t)
    /\ UNCHANGED <<gil, object, adapter, lib, cec>>

DeviceCreated(t) ==
    /\ At(t, "device")
    /\ holds' = holds \cup {<<t, "device">>}
    /\ Step(t)
    /\ UNCHANGED <<gil, obj, refs, listed, adapter, lib, cec>>

\* list_devices: one more device is active.
ListNext(t) ==
    /\ At(t, "list")
    /\ listed + Cardinality({u \in Threads : Listing(u)}) < MaxListed
    /\ refs' = refs + 1
    /\ Become(t, NewDevice \o <<"listed", "list">>)
    /\ UNCHANGED <<gil, obj, holds, listed, adapter, lib, cec>>

\* PyDict_SetItem takes a reference to the Device; the one the constructor
\* returned is never given back, so the Device outlives the dictionary and
\* keeps its reference to the Adapter.
Listed(t) ==
    /\ At(t, "listed")
    /\ listed' = listed + 1
    /\ Step(t)
    /\ UNCHANGED <<gil, obj, refs, holds, adapter, lib, cec>>

ListReturns(t) ==
    /\ At(t, "list")
    /\ Step(t)
    /\ UNCHANGED <<gil, object, adapter, lib, cec>>

\* add_callback with a handler that refers to the Adapter, such as a method of
\* an object that has it.
AddCallback(t) ==
    /\ InPython(t)
    /\ gil = t
    /\ Has(t, "adapter") /\ ~Has(Registry, "adapter")
    /\ holds' = holds \cup {<<Registry, "adapter">>}
    /\ refs' = refs + 1
    /\ UNCHANGED <<gil, obj, listed, adapter, lib, code, cec>>

\* Mutant of RemoveCallback: without Py_DECREF.
RemoveCallbackKeeps(t) ==
    /\ InPython(t)
    /\ gil = t
    /\ Has(t, "adapter") /\ Has(Registry, "adapter")
    /\ holds' = holds \ {<<Registry, "adapter">>}
    /\ UNCHANGED <<gil, obj, refs, listed, adapter, lib, code, cec>>

RemoveCallback(t) ==
    /\ InPython(t)
    /\ gil = t
    /\ Has(t, "adapter") /\ Has(Registry, "adapter")
    /\ holds' = holds \ {<<Registry, "adapter">>}
    /\ refs' = refs - 1
    /\ UNCHANGED <<gil, obj, listed, adapter, lib, code, cec>>

\* The pointer is loaded where it is used, with or without the lock.
UseBegins(u) ==
    /\ At(u, "use")
    /\ Become(u, <<IF adapter = "set" THEN "using" ELSE "crashed">> \o Tail(code[u]))
    /\ UNCHANGED <<gil, object, adapter, lib, cec>>

UseReturns(u) ==
    /\ At(u, "using")
    /\ Step(u)
    /\ UNCHANGED <<gil, object, adapter, lib, cec>>

-----------------------------------------------------------------------------
(* adapter_close.  A closed adapter is left alone.                          *)

MayClose(t) ==
    /\ InPython(t)
    /\ gil = t
    /\ Has(t, "adapter")
    /\ QuietClose => t \in UserThreads /\ \A u \in UserThreads : InPython(u)

\* Mutant of Close: the pointer is not checked.
CloseUnchecked(t) ==
    /\ MayClose(t)
    /\ Become(t, AdapterClose)
    /\ UNCHANGED <<gil, object, adapter, lib, cec>>

Close(t) ==
    /\ MayClose(t)
    /\ adapter = "set"
    /\ Become(t, AdapterClose)
    /\ UNCHANGED <<gil, object, adapter, lib, cec>>

\* The check of the pointer and this load are on either side of the unlock.
CloseBegins(u) ==
    /\ At(u, "close")
    /\ Become(u, <<IF adapter = "set" THEN "closing" ELSE "crashed">> \o Tail(code[u]))
    /\ UNCHANGED <<gil, object, adapter, lib, cec>>

\* libcec has no thread in a callback when Close or CECDestroy returns.
Joined == \A c \in CecThreads : cec[c] = "native"

CloseReturns(u) ==
    /\ At(u, "closing")
    /\ Joined
    /\ lib' = "closed"
    /\ Step(u)
    /\ UNCHANGED <<gil, object, adapter, cec>>

\* self->adapter = NULL, before the lock is taken again.
CloseClears(u) ==
    /\ At(u, "clear")
    /\ adapter' = "null"
    /\ Step(u)
    /\ UNCHANGED <<gil, object, lib, cec>>

-----------------------------------------------------------------------------
(* References and Adapter_dealloc.                                          *)

\* A reference is copied, to another thread's variable or by device.adapter.
Share(t, u) ==
    /\ InPython(t)
    /\ gil = t
    /\ \E k \in Kinds : Has(t, k)
    /\ ~Has(u, "adapter")
    /\ holds' = holds \cup {<<u, "adapter">>}
    /\ refs' = refs + 1
    /\ UNCHANGED <<gil, obj, listed, adapter, lib, code, cec>>

\* The Adapter or a Device of it is dropped; Device_dealloc drops the Adapter.
Drop(t, k) ==
    /\ InPython(t)
    /\ gil = t
    /\ Has(t, k)
    /\ (ClosesFirst /\ t \in UserThreads /\ adapter = "set") =>
          \E h \in holds \ {<<t, k>>} : h[1] \in UserThreads
    /\ holds' = holds \ {<<t, k>>}
    /\ refs' = refs - 1
    /\ Become(t, IF refs = 1 THEN <<"dealloc">> ELSE <<>>)
    /\ UNCHANGED <<gil, obj, listed, adapter, lib, cec>>

\* Mutant of Dealloc: CECDestroy is not called.
DeallocLeaks(u) ==
    /\ At(u, "dealloc")
    /\ Become(u, <<"free">>)
    /\ UNCHANGED <<gil, object, adapter, lib, cec>>

\* CECDestroy is called with the lock held.
Dealloc(u) ==
    /\ At(u, "dealloc")
    /\ Become(u, IF adapter = "set" THEN <<"destroy", "free">> ELSE <<"free">>)
    /\ UNCHANGED <<gil, object, adapter, lib, cec>>

DestroyReturns(u) ==
    /\ At(u, "destroy")
    /\ Joined
    /\ lib' = "destroyed"
    /\ adapter' = "null"
    /\ Step(u)
    /\ UNCHANGED <<gil, object, cec>>

Free(u) ==
    /\ At(u, "free")
    /\ obj' = "freed"
    /\ refs' = 0
    /\ Step(u)
    /\ UNCHANGED <<gil, holds, listed, adapter, lib, cec>>

-----------------------------------------------------------------------------
(* libcec's threads: while the instance is up any of them may call back.    *)

CallbackStarts(c) ==
    /\ cec[c] = "native"
    /\ lib = "up"
    /\ cec' = [cec EXCEPT ![c] = "ensure"]
    /\ UNCHANGED <<gil, object, adapter, lib, code>>

\* trigger_event calls the handlers, with a reference for its frame to what
\* the handler refers to.  It takes none to the Adapter itself.
CallbackEnsures(c) ==
    /\ cec[c] = "ensure"
    /\ gil = None
    /\ gil' = c
    /\ cec' = [cec EXCEPT ![c] = "handler"]
    /\ IF Has(Registry, "adapter")
       THEN holds' = holds \cup {<<c, "adapter">>} /\ refs' = refs + 1
       ELSE UNCHANGED <<holds, refs>>
    /\ UNCHANGED <<obj, listed, adapter, lib, code>>

\* The handler's frame ends and drops what it refers to.
HandlerEnds(c) ==
    LET own == {h \in holds : h[1] = c}
    IN  /\ c \in CecThreads
        /\ InPython(c)
        /\ gil = c
        /\ holds' = holds \ own
        /\ refs' = refs - Cardinality(own)
        /\ Become(c, IF own # {} /\ refs' = 0 THEN <<"dealloc">> ELSE <<>>)
        /\ cec' = [cec EXCEPT ![c] = "release"]
        /\ UNCHANGED <<gil, obj, listed, adapter, lib>>

\* Mutant of CallbackReturns: without PyGILState_Release.
CallbackReturnsLocked(c) ==
    /\ cec[c] = "release"
    /\ code[c] = <<>>
    /\ cec' = [cec EXCEPT ![c] = "native"]
    /\ UNCHANGED <<gil, object, adapter, lib, code>>

CallbackReturns(c) ==
    /\ cec[c] = "release"
    /\ code[c] = <<>>
    /\ gil' = None
    /\ cec' = [cec EXCEPT ![c] = "native"]
    /\ UNCHANGED <<object, adapter, lib, code>>

-----------------------------------------------------------------------------
Init ==
    /\ gil = None
    /\ obj = "none"
    /\ refs = 0
    /\ holds = {}
    /\ listed = 0
    /\ adapter = "null"
    /\ lib = "none"
    /\ code = [t \in Threads |-> <<>>]
    /\ cec = [c \in CecThreads |-> "native"]

Creation(t) ==
    \/ InitialiseStarts(t) \/ InitialiseReturns(t) \/ CreationFails(t)
    \/ CreationProceeds(t) \/ Created(t)

Method(t) ==
    \/ UseBegins(t) \/ UseReturns(t)
    \/ DeviceFails(t) \/ FieldBuilt(t) \/ DeviceCreated(t)
    \/ ListNext(t) \/ Listed(t) \/ ListReturns(t)
    \/ CloseBegins(t) \/ CloseReturns(t) \/ CloseClears(t)

Destruction(t) == Dealloc(t) \/ DestroyReturns(t) \/ Free(t)

Client(t) ==
    \/ CallMethod(t) \/ DeviceNew(t) \/ Close(t)
    \/ AddCallback(t) \/ RemoveCallback(t)
    \/ \E u \in UserThreads : Share(t, u)
    \/ \E k \in Kinds : Drop(t, k)

CStep(t) == Unlock(t) \/ Lock(t) \/ Creation(t) \/ Method(t) \/ Destruction(t)

Callback(c) == CallbackEnsures(c) \/ HandlerEnds(c) \/ CallbackReturns(c)

Next ==
    \/ \E t \in Threads : TakeGil(t) \/ DropGil(t) \/ Client(t) \/ CStep(t)
    \/ \E u \in UserThreads, named \in BOOLEAN : AdapterNew(u, named)
    \/ \E c \in CecThreads : CallbackStarts(c) \/ Callback(c)

Spec == Init /\ [][Next]_vars

(* libcec's calls return; a call that ends the instance stops its threads   *)
(* and so finds them outside callbacks in the end.  The interpreter makes a *)
(* holder drop the lock on a switch interval and a waiting thread gets it   *)
(* in the end; handlers end.                                                *)
Fairness ==
    /\ \A t \in Threads : SF_vars(CStep(t))
    /\ \A u \in UserThreads : SF_vars(DropGil(u))
    /\ \A c \in CecThreads : SF_vars(TakeGil(c)) /\ SF_vars(Callback(c))

FairSpec == Spec /\ Fairness

-----------------------------------------------------------------------------
(* Properties.                                                              *)

Ops == {"unlock", "lock", "use", "using", "crashed", "close", "closing", "clear",
        "initialise", "video", "detect", "open", "created", "field", "device",
        "list", "listed",
        "dealloc", "destroy", "free"}

\* The types of the variables.
TypeOK ==
    /\ gil \in Threads \cup {None}
    /\ obj \in {"none", "building", "live", "freed"}
    /\ refs \in Nat
    /\ holds \subseteq (Threads \cup {Registry}) \X Kinds
    /\ listed \in 0..MaxListed
    /\ adapter \in {"null", "set"}
    /\ lib \in {"none", "up", "closed", "destroyed"}
    /\ code \in [Threads -> Seq(Ops)]
    /\ cec \in [CecThreads -> {"native", "ensure", "handler", "release"}]

\* libcec passes the Adapter as callbackParam without a reference: whenever a
\* callback runs, the object is there, being built or alive.
CallbacksOnLiveObject ==
    \A c \in CecThreads : cec[c] # "native" => obj \in {"building", "live"}

\* A thread that is inside libcec keeps the Adapter alive, itself or through
\* its Device: the instance it called is not destroyed under it.
CallsOnLiveInstance ==
    \A t \in Threads :
        (At(t, "using") \/ At(t, "closing")) =>
            obj = "live" /\ lib \in {"up", "closed"}

\* One reference for each name a thread has, for the registered handler and
\* for each Device, also one under way or leaked.
RefsMatchHolders ==
    obj = "live" =>
        refs = Cardinality(holds) + listed
               + Cardinality({t \in Threads :
                                Range(code[t]) \cap {"device", "listed"} # {}})

\* An Adapter that no thread refers to any more is freed, unless list_devices
\* has leaked a Device of it or a handler that refers to it was not removed
\* (Adapter is unknown to the cycle collector).
UnreachableIsPinned ==
    (/\ obj = "live"
     /\ \A t \in Threads : code[t] = <<>> /\ \A k \in Kinds : ~Has(t, k)) =>
        listed > 0 \/ Has(Registry, "adapter")

\* When the object is freed, also on the error paths of Adapter_new, its
\* instance is destroyed or at least closed: nothing is left that could call
\* back.  (After close() it is never destroyed: close() clears the pointer
\* that Adapter_dealloc gives to CECDestroy.)
InstanceEndsWithObject == obj = "freed" => lib # "up"

\* No method and no close() goes through a null self->adapter.
NoNullCall == \A t \in Threads : ~At(t, "crashed")

\* Between its lock operations a C function touches Python objects (which is also
\* what it is about to release) with the lock, and waits for the lock itself or
\* for the callbacks that Close waits for without it, whatever failed before and
\* whoever calls.  (CECDestroy waits with it: see NoGilDeadlock.)
Touches == {"unlock", "created", "field", "device", "list", "listed", "dealloc", "free"}
Waits == {"lock", "closing"}

LockAsNeeded ==
    \A t \in Threads :
        /\ (\E op \in Touches : At(t, op)) => gil = t
        /\ (\E op \in Waits : At(t, op)) => gil # t

\* Nobody destroys the instance while holding the lock that a callback of the
\* instance needs in order to return.
NoGilDeadlock ==
    \A t \in Threads, c \in CecThreads :
        At(t, "destroy") => cec[c] = "native"

\* Every C function called returns to Python.
CallsReturn == \A t \in Threads : code[t] # <<>> ~> code[t] = <<>>

\* Every callback returns to libcec, although the client may be building or
\* closing the Adapter at that moment and handlers call the Adapter.
CallbacksReturn == \A c \in CecThreads : cec[c] # "native" ~> cec[c] = "native"

=============================================================================
