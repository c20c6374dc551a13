---------------------------- MODULE EventDispatch ----------------------------
(***************************************************************************)
(* The callback registry of an Adapter and the dispatch of libcec events   *)
(* to it (adapter.cpp: trigger_event, the seven C callbacks, add_callback, *)
(* remove_callback).                                                       *)
(*                                                                         *)
(* Everything that touches self->callbacks runs under the interpreter      *)
(* lock.  The lock is not held for the whole of a dispatch, though: a      *)
(* handler is Python code, and the interpreter may hand the lock to        *)
(* another thread at any point inside it.  The dispatching thread keeps a  *)
(* std::list iterator across that gap.                                     *)
(*                                                                         *)
(* The list is represented by the set of its nodes.  push_back is the only *)
(* insertion in the source, so numbering the nodes in allocation order     *)
(* makes the order of the list the order of the numbers.  End (0) is the   *)
(* sentinel of the circular list that std::list is: the successor of the   *)
(* last node is End and the successor of End is the first node.            *)
(***************************************************************************)
EXTENDS Naturals, FiniteSets

CONSTANTS
    UserThreads,    \* Python threads of the client program
    CecThreads,     \* threads on which libcec delivers callbacks
    Handlers,       \* Python callable objects (identities)
    Callables,      \* what a client regards as one handler
    CallableOf,     \* the callable an object stands for: two bound-method
                    \* objects of one method are two Handlers, one callable
    Events,         \* the bits of EVENT_VALID
    Undispatched,   \* events whose C callback never calls trigger_event
    MaxEntries,     \* bound: add_callback calls in a behaviour
    Duplicates,     \* may the client add a handler that is registered?
    SelfRemoval,    \* may the client empty the entry of a running handler?
    None            \* no thread, no handler

Threads == UserThreads \cup CecThreads

ASSUME ConstantsAssumption ==
    /\ UserThreads \cap CecThreads = {}
    /\ None \notin Threads \cup Handlers
    /\ CallableOf \in [Handlers -> Callables]
    /\ Undispatched \subseteq Events
    /\ MaxEntries \in Nat
    /\ Duplicates \in BOOLEAN
    /\ SelfRemoval \in BOOLEAN

VARIABLES
    gil,        \* the thread that holds the interpreter lock, or None
    callbacks,  \* nodes in self->callbacks
    fresh,      \* the node the next push_back allocates
    event,      \* Callback.event of each node, as a set of bits
    cb,         \* Callback.cb of each node
    refs,       \* references to each handler that the registry owns
    pc,         \* where each thread is
    trig,       \* the event a libcec thread delivers
    itr,        \* the iterator of trigger_event
    called,     \* history: the nodes invoked in the current dispatch
    arg,        \* the arguments of remove_callback
    pos         \* the iterator of remove_callback

registry == <<callbacks, fresh, event, cb, refs>>
dispatch == <<trig, itr, called>>
removal  == <<arg, pos>>
vars == <<gil, registry, pc, dispatch, removal>>

End == 0
Node == 1..MaxEntries
NoArg == [cb |-> None, events |-> {}]

\* The node ++ reaches from n in the circular list with nodes S.
Succ(S, n) ==
    LET later == {m \in S : m > n}
    IN  IF later = {} THEN End
        ELSE CHOOSE m \in later : \A k \in later : m <= k

\* Mutant of Begin: a loop that starts at the second node.
BeginSecond(S) == Succ(S, Succ(S, End))

Begin(S) == Succ(S, End)

GoTo(t, label) == pc' = [pc EXCEPT ![t] = label]

\* A libcec thread inside PyObject_CallObject, whatever the handler does.
Running(c) == c \in CecThreads /\ pc[c] \in {"python", "scan"}

-----------------------------------------------------------------------------
(* The interpreter: a thread in Python code takes and gives up the lock at  *)
(* its own points, between any two bytecodes.                               *)

TakeGil(t) ==
    /\ pc[t] = "python"
    /\ gil = None
    /\ gil' = t
    /\ UNCHANGED <<registry, pc, dispatch, removal>>

DropGil(t) ==
    /\ pc[t] = "python"
    /\ gil = t
    /\ gil' = None
    /\ UNCHANGED <<registry, pc, dispatch, removal>>

-----------------------------------------------------------------------------
(* add_callback.  The refusals (a bit outside EVENT_VALID, an object that   *)
(* is not callable) change nothing.                                         *)

AddCallback(t, h, events) ==
    /\ pc[t] = "python"
    /\ gil = t
    /\ fresh <= MaxEntries
    /\ Duplicates \/ \A n \in callbacks : cb[n] # h
    /\ callbacks' = callbacks \cup {fresh}
    /\ fresh' = fresh + 1
    /\ event' = [event EXCEPT ![fresh] = events]
    /\ cb' = [cb EXCEPT ![fresh] = h]
    /\ refs' = [refs EXCEPT ![h] = @ + 1]
    /\ UNCHANGED <<gil, pc, dispatch, removal>>

-----------------------------------------------------------------------------
(* remove_callback: one step per iteration of its loop.  The whole loop     *)
(* holds the lock.                                                          *)

\* No libcec thread runs the handler of an entry the call would erase.
ErasesNoRunning(h, events) ==
    \A c \in CecThreads :
        (Running(c) /\ cb[itr[c]] = h) => ~(event[itr[c]] \subseteq events)

RemoveCallback(t, h, events) ==
    /\ pc[t] = "python"
    /\ gil = t
    /\ SelfRemoval \/ ErasesNoRunning(h, events)
    /\ arg' = [arg EXCEPT ![t] = [cb |-> h, events |-> events]]
    /\ pos' = [pos EXCEPT ![t] = Begin(callbacks)]
    /\ GoTo(t, "scan")
    /\ UNCHANGED <<gil, registry, dispatch>>

\* Another handler's entry.
ScanOther(t) ==
    /\ pc[t] = "scan"
    /\ pos[t] # End
    /\ cb[pos[t]] # arg[t].cb
    /\ pos' = [pos EXCEPT ![t] = Succ(callbacks, @)]
    /\ UNCHANGED <<gil, registry, pc, dispatch, arg>>

\* Mutant of ScanClear: the entry goes although it has events left.
ScanClearErases(t) ==
    LET n == pos[t]
    IN  /\ pc[t] = "scan"
        /\ n # End
        /\ cb[n] = arg[t].cb
        /\ event[n] \ arg[t].events # {}
        /\ callbacks' = callbacks \ {n}
        /\ refs' = [refs EXCEPT ![cb[n]] = @ - 1]
        /\ pos' = [pos EXCEPT ![t] = Succ(callbacks, n)]
        /\ UNCHANGED <<gil, fresh, event, cb, pc, dispatch, arg>>

\* The events are cleared and others remain.
ScanClear(t) ==
    LET n == pos[t]
        left == event[n] \ arg[t].events
    IN  /\ pc[t] = "scan"
        /\ n # End
        /\ cb[n] = arg[t].cb
        /\ left # {}
        /\ event' = [event EXCEPT ![n] = left]
        /\ pos' = [pos EXCEPT ![t] = Succ(callbacks, n)]
        /\ UNCHANGED <<gil, callbacks, fresh, cb, refs, pc, dispatch, arg>>

\* Mutant of ScanErase: the reference is not given back.
ScanEraseKeepsRef(t) ==
    LET n == pos[t]
        rest == callbacks \ {n}
    IN  /\ pc[t] = "scan"
        /\ n # End
        /\ cb[n] = arg[t].cb
        /\ event[n] \subseteq arg[t].events
        /\ callbacks' = rest
        /\ event' = [event EXCEPT ![n] = {}]
        /\ refs' = [refs EXCEPT ![cb[n]] = @ - 0]
        /\ pos' = [pos EXCEPT ![t] = Succ(rest, Succ(rest, n))]
        /\ UNCHANGED <<gil, fresh, cb, pc, dispatch, arg>>

\* Mutant of ScanErase: the reference is given back twice.
ScanEraseTwice(t) ==
    LET n == pos[t]
        rest == callbacks \ {n}
    IN  /\ pc[t] = "scan"
        /\ n # End
        /\ cb[n] = arg[t].cb
        /\ event[n] \subseteq arg[t].events
        /\ callbacks' = rest
        /\ event' = [event EXCEPT ![n] = {}]
        /\ refs' = [refs EXCEPT ![cb[n]] = @ - 2]
        /\ pos' = [pos EXCEPT ![t] = Succ(rest, Succ(rest, n))]
        /\ UNCHANGED <<gil, fresh, cb, pc, dispatch, arg>>

\* Mutant of ScanErase: the node stays in the list.
ScanEraseKeepsNode(t) ==
    LET n == pos[t]
        rest == callbacks \ {n}
    IN  /\ pc[t] = "scan"
        /\ n # End
        /\ cb[n] = arg[t].cb
        /\ event[n] \subseteq arg[t].events
        /\ callbacks' = callbacks
        /\ event' = [event EXCEPT ![n] = {}]
        /\ refs' = [refs EXCEPT ![cb[n]] = @ - 0]
        /\ pos' = [pos EXCEPT ![t] = Succ(rest, Succ(rest, n))]
        /\ UNCHANGED <<gil, fresh, cb, pc, dispatch, arg>>

\* No event is left: erase returns the next node and ++ steps over it; when
\* the erased node was the last, ++ moves from the sentinel to the first.
ScanErase(t) ==
    LET n == pos[t]
        rest == callbacks \ {n}
    IN  /\ pc[t] = "scan"
        /\ n # End
        /\ cb[n] = arg[t].cb
        /\ event[n] \subseteq arg[t].events
        /\ callbacks' = rest
        /\ event' = [event EXCEPT ![n] = {}]
        /\ refs' = [refs EXCEPT ![cb[n]] = @ - 1]
        /\ pos' = [pos EXCEPT ![t] = Succ(rest, Succ(rest, n))]
        /\ UNCHANGED <<gil, fresh, cb, pc, dispatch, arg>>

ScanDone(t) ==
    /\ pc[t] = "scan"
    /\ pos[t] = End
    /\ arg' = [arg EXCEPT ![t] = NoArg]
    /\ GoTo(t, "python")
    /\ UNCHANGED <<gil, registry, dispatch, pos>>

-----------------------------------------------------------------------------
(* The C callbacks and trigger_event.                                       *)

\* libcec calls log_cb, keypress_cb, ...; the callback asks for the lock.
Deliver(c, e) ==
    /\ pc[c] = "native"
    /\ trig' = [trig EXCEPT ![c] = e]
    /\ GoTo(c, "ensure")
    /\ UNCHANGED <<gil, registry, itr, called, removal>>

\* Mutant of Ensure: the callback does not ask for the lock.
EnsureUnlocked(c) ==
    /\ pc[c] = "ensure"
    /\ trig[c] \notin Undispatched
    /\ itr' = [itr EXCEPT ![c] = Begin(callbacks)]
    /\ called' = [called EXCEPT ![c] = {}]
    /\ GoTo(c, "loop")
    /\ UNCHANGED <<gil, registry, trig, removal>>

\* PyGILState_Ensure returns, the arguments are built and the loop starts.
Ensure(c) ==
    /\ pc[c] = "ensure"
    /\ gil = None
    /\ trig[c] \notin Undispatched
    /\ gil' = c
    /\ itr' = [itr EXCEPT ![c] = Begin(callbacks)]
    /\ called' = [called EXCEPT ![c] = {}]
    /\ GoTo(c, "loop")
    /\ UNCHANGED <<registry, trig, removal>>

\* The event is never passed on (config_cb), or its arguments cannot be
\* built (args == NULL): the callback gives the lock back.
EnsureNoDispatch(c) ==
    /\ pc[c] = "ensure"
    /\ gil = None
    /\ gil' = c
    /\ GoTo(c, "release")
    /\ UNCHANGED <<registry, dispatch, removal>>

\* Mutant of LoopSkip: ++itr is forgotten.
LoopSkipStays(c) ==
    /\ pc[c] = "loop"
    /\ itr[c] # End
    /\ trig[c] \notin event[itr[c]]
    /\ UNCHANGED vars

LoopSkip(c) ==
    /\ pc[c] = "loop"
    /\ itr[c] # End
    /\ trig[c] \notin event[itr[c]]
    /\ itr' = [itr EXCEPT ![c] = Succ(callbacks, @)]
    /\ UNCHANGED <<gil, registry, pc, trig, called, removal>>

\* Mutant of Invoke: the handler is called for any event.
InvokeUnmatched(c) ==
    /\ pc[c] = "loop"
    /\ itr[c] # End
    /\ called' = [called EXCEPT ![c] = @ \cup {itr[c]}]
    /\ GoTo(c, "python")
    /\ UNCHANGED <<gil, registry, trig, itr, removal>>

Invoke(c) ==
    /\ pc[c] = "loop"
    /\ itr[c] # End
    /\ trig[c] \in event[itr[c]]
    /\ called' = [called EXCEPT ![c] = @ \cup {itr[c]}]
    /\ GoTo(c, "python")
    /\ UNCHANGED <<gil, registry, trig, itr, removal>>

\* Mutant of HandlerReturns: ++itr is forgotten.
HandlerReturnsStays(c) ==
    /\ Running(c)
    /\ pc[c] = "python"
    /\ gil = c
    /\ GoTo(c, "loop")
    /\ UNCHANGED <<gil, registry, trig, itr, called, removal>>

\* The handler returned a value: ++itr.
HandlerReturns(c) ==
    /\ Running(c)
    /\ pc[c] = "python"
    /\ gil = c
    /\ itr[c] \in callbacks
    /\ itr' = [itr EXCEPT ![c] = Succ(callbacks, @)]
    /\ GoTo(c, "loop")
    /\ UNCHANGED <<gil, registry, trig, called, removal>>

\* ++itr reads the link of a freed node: the word may still be the old link,
\* may lead anywhere in the list, or may crash the process.
HandlerReturnsDangling(c) ==
    /\ Running(c)
    /\ pc[c] = "python"
    /\ gil = c
    /\ itr[c] \notin callbacks
    /\ \/ \E n \in callbacks \cup {End} : itr' = [itr EXCEPT ![c] = n]
          /\ GoTo(c, "loop")
       \/ UNCHANGED itr /\ GoTo(c, "crashed")
    /\ UNCHANGED <<gil, registry, trig, called, removal>>

\* The handler raised: trigger_event returns NULL, later entries are not called.
HandlerRaises(c) ==
    /\ Running(c)
    /\ pc[c] = "python"
    /\ gil = c
    /\ GoTo(c, "release")
    /\ UNCHANGED <<gil, registry, dispatch, removal>>

LoopEnd(c) ==
    /\ pc[c] = "loop"
    /\ itr[c] = End
    /\ GoTo(c, "release")
    /\ UNCHANGED <<gil, registry, dispatch, removal>>

\* PyGILState_Release, and the callback returns to libcec; its locals end.
Release(c) ==
    /\ pc[c] = "release"
    /\ gil' = None
    /\ trig' = [trig EXCEPT ![c] = None]
    /\ itr' = [itr EXCEPT ![c] = End]
    /\ called' = [called EXCEPT ![c] = {}]
    /\ GoTo(c, "native")
    /\ UNCHANGED <<registry, removal>>

-----------------------------------------------------------------------------
Init ==
    /\ gil = None
    /\ callbacks = {}
    /\ fresh = 1
    /\ event = [n \in Node |-> {}]
    /\ cb = [n \in Node |-> None]
    /\ refs = [h \in Handlers |-> 0]
    /\ pc = [t \in Threads |-> IF t \in CecThreads THEN "native" ELSE "python"]
    /\ trig = [c \in CecThreads |-> None]
    /\ itr = [c \in CecThreads |-> End]
    /\ called = [c \in CecThreads |-> {}]
    /\ arg = [t \in Threads |-> NoArg]
    /\ pos = [t \in Threads |-> End]

PythonStep(t) ==
    \/ TakeGil(t)
    \/ DropGil(t)
    \/ \E h \in Handlers, events \in SUBSET Events :
          AddCallback(t, h, events) \/ RemoveCallback(t, h, events)

ScanStep(t) == ScanOther(t) \/ ScanClear(t) \/ ScanErase(t) \/ ScanDone(t)

HandlerEnds(c) ==
    HandlerReturns(c) \/ HandlerReturnsDangling(c) \/ HandlerRaises(c)

LoopStep(c) == LoopSkip(c) \/ Invoke(c) \/ LoopEnd(c) \/ Release(c)

Next ==
    \/ \E t \in Threads : PythonStep(t) \/ ScanStep(t)
    \/ \E c \in CecThreads :
          \/ \E e \in Events : Deliver(c, e)
          \/ Ensure(c) \/ EnsureNoDispatch(c)
          \/ LoopStep(c) \/ HandlerEnds(c)

Spec == Init /\ [][Next]_vars

(* A running thread keeps running.  A thread that waits for the lock gets   *)
(* it in the end, because the interpreter makes the holder drop it on a     *)
(* switch interval; handlers return or raise in the end.                    *)
Fairness ==
    /\ \A t \in Threads : WF_vars(ScanStep(t)) /\ SF_vars(DropGil(t))
    /\ \A c \in CecThreads :
          /\ WF_vars(LoopStep(c))
          /\ SF_vars(Ensure(c) \/ EnsureNoDispatch(c))
          /\ SF_vars(TakeGil(c))
          /\ SF_vars(HandlerEnds(c))

FairSpec == Spec /\ Fairness

-----------------------------------------------------------------------------
(* Properties.                                                              *)

\* The types of the variables.
TypeOK ==
    /\ gil \in Threads \cup {None}
    /\ callbacks \subseteq Node
    /\ fresh \in 1..(MaxEntries + 1)
    /\ event \in [Node -> SUBSET Events]
    /\ cb \in [Node -> Handlers \cup {None}]
    /\ refs \in [Handlers -> Nat]
    /\ pc \in [Threads -> {"native", "ensure", "loop", "python", "scan",
                           "release", "crashed"}]
    /\ trig \in [CecThreads -> Events \cup {None}]
    /\ itr \in [CecThreads -> Node \cup {End}]
    /\ called \in [CecThreads -> SUBSET Node]
    /\ arg \in [Threads -> [cb : Handlers \cup {None}, events : SUBSET Events]]
    /\ pos \in [Threads -> Node \cup {End}]

\* Whoever walks or changes self->callbacks, or is about to give the lock
\* back, holds the interpreter lock: no two loops are ever interleaved.
LockHeldInLoops ==
    \A t \in Threads : pc[t] \in {"loop", "scan", "release"} => gil = t

\* The registry owns one reference per entry (Py_INCREF in add_callback,
\* Py_DECREF where remove_callback erases): no handler is freed while an
\* entry names it, and none is kept once its entries are gone.
RefsMatchEntries ==
    \A h \in Handlers : refs[h] = Cardinality({n \in callbacks : cb[n] = h})

\* When remove_callback returns, the callable it was given is registered for
\* none of the events it was given ("clear out the given events for this
\* callback").
RemovalTakesEffect ==
    \A t \in Threads :
        (pc[t] = "scan" /\ pos[t] = End) =>
            \A n \in callbacks :
                CallableOf[cb[n]] = CallableOf[arg[t].cb] =>
                    event[n] \cap arg[t].events = {}

\* The iterator trigger_event keeps across a handler names a node that is
\* still in the list, whatever was added or removed meanwhile.
IteratorsValid ==
    \A c \in CecThreads : itr[c] # End => itr[c] \in callbacks

\* When the loop of trigger_event reaches the end of the list, every handler
\* registered for the event at that time has been called, also one added during
\* the dispatch.  (A handler that raises ends the dispatch before.)
NoHandlerMissed ==
    \A c \in CecThreads :
        (pc[c] = "loop" /\ itr[c] = End) =>
            \A n \in callbacks : trig[c] \in event[n] => n \in called[c]

\* No entry is called twice for one event.
AtMostOnce ==
    [][\A c \in CecThreads :
          (pc[c] = "loop" /\ pc'[c] = "python") => itr[c] \notin called[c]]_vars

\* A libcec thread that asked for the lock returns to libcec: no dispatch
\* blocks it for ever, whatever the client's threads do meanwhile (unless the
\* step through a dangling iterator ends the program).
DeliveryReturns ==
    \A c \in CecThreads :
        pc[c] = "ensure" ~> pc[c] = "native" \/ \E d \in CecThreads : pc[d] = "crashed"

\* The loop of remove_callback ends, although ++ may take it from the
\* sentinel back to the first node.
RemovalReturns ==
    \A t \in Threads : pc[t] = "scan" ~> pc[t] = "python"

-----------------------------------------------------------------------------
(* The refinement.                                                          *)

\* The events of f's entries, less those that a remove_callback call in
\* progress clears: the removal counts from the moment the loop starts.
RegisteredEvents(f) ==
    (UNION {event[n] : n \in {m \in callbacks : CallableOf[cb[m]] = f}})
    \ (UNION {arg[t].events : t \in {u \in Threads :
                                       pc[u] = "scan" /\ CallableOf[arg[u].cb] = f}})

Registry == INSTANCE CallbackRegistry WITH
    Notifiers  <- CecThreads,
    Idle       <- None,
    registered <- [f \in Callables |-> RegisteredEvents(f)],
    additions  <- fresh - 1,
    notifying  <- [c \in CecThreads |->
                     IF Running(c) THEN <<CallableOf[cb[itr[c]]], trig[c]>> ELSE None]

\* The list, its iterators and the lock implement the registry in which adding
\* and removing are atomic and only registered callables are notified.
RefinesRegistry == Registry!Spec

=============================================================================
