# TLA+ specifications of python-cec

python-cec wraps libcec for Python. Its logic is small (three C++ files), but
it sits between two worlds of threads: Python threads, which run one at a time
under the interpreter lock (the GIL), and libcec's own threads, which call back
into Python whenever they like. The specifications model that boundary: who
holds the lock, what is read before the lock is given up and used after it,
which object is alive when a callback arrives.

## 1. The system

| Component | Source | State | Operations |
|---|---|---|---|
| Callback registry and event dispatch | `adapter.cpp` 40-302, 351-397 | `self->callbacks`, a `std::list` of (event mask, callable); the references it owns | `add_callback`, `remove_callback`, seven C callbacks, `trigger_event` |
| Adapter lifecycle | `adapter.cpp` 306-349, 714-850 | the object and its reference count, `self->adapter`, the libcec instance | `Adapter_new`, `list_devices`, `close`, `Adapter_dealloc` |
| Adapter methods and properties | `adapter.cpp` 399-681, `cec.h` | none of their own; they go through `self->adapter` | `transmit`, `is_active_source`, volume, `set_stream_path`, `persist_config`, ... |
| Device objects | `device.cpp` | a reference to the Adapter, an address, five strings | `Device_new`, `Device_dealloc`, properties, `is_on`, `transmit`, ... |
| Adapter discovery | `adapter.cpp` 687-712, 813-831, `cec.cpp` 105-168 | none | `get_adapters`, `list_adapters`, choice of the default adapter |
| Physical addresses | `cec.cpp` 79-88 | none | `parse_physical_addr`, the `%x.%x.%x.%x` formats |
| CEC commands | `adapter.cpp` 399-445, `device.cpp` 143-226 | none | validation and layout of a command |
| Module initialisation | `cec.cpp` 196-455 | types and constants | once, at import |

How they interact. A client thread calls a method with the GIL held; almost
every method releases it around the libcec call (`RETURN_BOOL`, or
`Py_BEGIN_ALLOW_THREADS` by hand). libcec gets the Adapter object itself as
`callbackParam`, without a reference. A C callback takes the GIL, builds an
argument tuple and lets `trigger_event` walk the list; each handler is Python
code, so the GIL may change hands in the middle of the walk, and the handler
may call any method, also `add_callback` and `remove_callback`. A Device holds
a reference to its Adapter and calls through the Adapter's pointer.

What is hard: the list changes while it is walked; `close()` clears a pointer
that other threads are about to load; the last reference may be dropped, or
creation may fail, while a callback is on its way; the GIL and libcec's
waiting for its own threads can wait for each other. `PROJECT.json` lists
these hazards line by line with the properties that cover them.

What makes each component correct:

* registry: a handler is called exactly when it is registered for the event;
  removal takes effect; the iterator of a walk is valid; references and
  entries agree; every walk ends and gives the lock back.
* lifecycle: callbacks find a live object, calls find a live instance, no null
  pointer is called, the instance does not outlive the object, nobody waits
  for ever.
* Device: keeps its Adapter alive, gives every reference back.
* discovery: what is returned is what was detected, in a buffer that fits.
* addresses: exactly the addresses 0.0.0.0 to f.f.f.f are accepted, and
  formatting and parsing are inverse.
* commands: what is transmitted is what was asked for, or an error.

## 2. The modules

| Module | What it is |
|---|---|
| `CallbackRegistry` | the abstract registry: callables, events, atomic `Add` and `Remove`, `Notify` only for what is registered |
| `EventDispatch` | the list, the iterators of `trigger_event` and `remove_callback`, the lock, the references; implements `CallbackRegistry` |
| `EventDispatchProofs` | theorems about the list, the dispatches and the removals of `EventDispatch` |
| `EventDispatchRefinement` | the proof that `EventDispatch` implements `CallbackRegistry` |
| `AdapterLifecycle` | object, references, `self->adapter`, instance, lock, client threads, libcec threads and the handlers they run |
| `AdapterLifecycleProofs` | theorems about it for every client: types, references, what is alive when it is used |
| `AdapterLifecycleClientProofs` | the interpreter lock is held where it is needed, for every client; no null pointer, for a quiet one |
| `AdapterRequests` | what the methods ask of libcec: checks, frames, addresses, requests of several libcec calls |
| `AdapterRequestsProofs` | theorems about what reaches libcec |
| `PhysicalAddress` | the parser and the formatter of physical addresses, as operators; used by `AdapterRequests` |
| `PhysicalAddressProofs` | three theorems about them |
| `Discovery` | `get_adapters`, `list_adapters`, the default adapter of `Adapter_new` |
| `DiscoveryProofs` | theorems about the lists that `get_adapters` makes |
| `MCEventDispatch`, `MCAdapterLifecycle`, `MCAdapterRequests`, `MCDiscovery` | instances for TLC |

### EventDispatch

`callbacks` is the set of the list's nodes. `push_back` is the only insertion,
so nodes numbered in allocation order are in list order; `Succ` is `++` on the
circular list (the sentinel `End` is followed by the first node, as in
`std::list` implementations, which matters because `remove_callback` may
increment `end()`). `event`, `cb` and `refs` are the node's mask, its callable
and the references the registry owns. `pc[t]` says where a thread is:
`"python"` (client code, or a handler, which is the same thing to the
interpreter), `"scan"` (the loop of `remove_callback`), and for a libcec
thread `"native"`, `"ensure"` (waiting in `PyGILState_Ensure`), `"loop"`
(`trigger_event`), `"release"`.

| Action | Code |
|---|---|
| `AddCallback` | `add_callback` |
| `RemoveCallback`, `ScanOther`, `ScanClear`, `ScanErase`, `ScanDone` | `remove_callback`: call, the three outcomes of an iteration, return |
| `Deliver`, `Ensure`, `EnsureNoDispatch`, `Release` | the C callbacks; `EnsureNoDispatch` is `config_cb`, whose `trigger_event` call is commented out, and the failure to build the arguments |
| `LoopSkip`, `Invoke`, `LoopEnd` | the loop of `trigger_event` |
| `HandlerReturns`, `HandlerReturnsDangling`, `HandlerRaises` | what follows `PyObject_CallObject` |
| `TakeGil`, `DropGil` | the interpreter, and every method that releases the lock |

`HandlerReturnsDangling` is undefined behaviour: `++itr` on a freed node. The
word read may still be the old link or anything else, so the model continues
anywhere in the list or crashes.

Two constants describe the client. `Duplicates`: may it add a handler that is
registered already? `SelfRemoval`: may it (in any thread) empty the entry of
a handler that is running at that moment? With both FALSE the registry is
correct; each one TRUE breaks it, and a run shows how. `CallableOf` maps
handler objects to what the client regards as one callable: two bound-method
objects made from one method are two `Handlers` and one callable.

Refinement: a callable is registered for the union of its entries' masks, less
what a `remove_callback` in progress clears; a libcec thread notifies while it
runs a handler. So `RemoveCallback` is the abstract `Remove`, the loop's steps
stutter, `Invoke` is `Notify`.

### AdapterLifecycle

A C function is reduced to its lock operations and its uses of
`self->adapter`, in order: `Call` is `<<"unlock", "use", "lock">>`. `code[t]`
is the rest of the function that thread `t` is in. `"use"` loads the pointer
at that moment, with or without the lock, and turns into `"using"` or
`"crashed"`. `refs` is the object's reference count, `holds` says whose the
references are: of a thread, for the Adapter or for a Device of it, or of the
registry. `lib` is the libcec instance.

A handler is Python code, so a libcec thread whose `cec[c]` is `"handler"` may
do all that a client thread may: call methods, create, share and drop Devices,
list devices, add and remove handlers, close. A handler that refers to the
Adapter is one reference of the registry (`<<Registry, "adapter">>`) and, while
it runs, one of its frame.

| Action | Code |
|---|---|
| `AdapterNew`, `InitialiseStarts` ... `Created` | `Adapter_new` |
| `CallMethod`, `UseBegins`, `UseReturns`, `Unlock`, `Lock` | any method or property, by its shape |
| `DeviceNew`, `FieldBuilt`, `DeviceFails`, `DeviceCreated` | `Device_new`: five questions to libcec, each answer made a string, which may fail |
| `ListNext`, `Listed`, `ListReturns` | `list_devices`, which calls `Device_new` for each active device and never gives back the reference it got |
| `AddCallback`, `RemoveCallback` | the registry's reference |
| `Close`, `CloseBegins`, `CloseReturns`, `CloseClears` | `close()` |
| `Share`, `Drop`, `HandlerEnds` | references of the client's names, `Device.adapter`, `Device_dealloc` |
| `Dealloc`, `DestroyReturns`, `Free` | `Adapter_dealloc` |
| `CallbackStarts`, `CallbackEnsures`, `CallbackReturns` | the C callbacks |

Constants describe the client again: `QuietClose` (its threads call `close()`
only while none of them is in a call, call nothing but `close()` from then on,
and never close from a handler), `ClosesFirst` (they close before they drop
their last reference; only `life_returns` asks for it), `Failures` (the adapter
may fail to initialise or to open).

Assumed of libcec, which is outside this repository: callbacks come only while
the instance is up; `Close` and `CECDestroy` return when no thread is in a
callback (`Joined`); its calls return. `CECInitialise` may call back before it
returns.

### AdapterRequests and PhysicalAddress

A request is a record of the arguments; `Steps` gives its steps, each a check
or one call of libcec, and `todo[t]` those that are left. `local[t]` is what
the method has read so far (the logical address, the parsed address, the
configuration), `out[t]` what it gave to libcec. `primary` and `config` are
libcec's; `Reallocate` and `Replug` change them at any time. `seen`, `owned`
and `disturbed` record what was true since the request began, so that the
properties can say "at some moment of the call".

The interpreter lock is left out: a method may hold it between two of its
libcec calls, but a call of another thread that released the lock before may
still take effect there, so every interleaving of libcec calls is possible.
`persist_config` is that of libcec 5, where `SetConfiguration` changes the
configuration in use. `set_av_input` and `set_audio_input` are `"input"`.

What can be wrong with an argument depends on how the method parses it, and so
do the kinds of requests. `Numbers` are those whose argument Python has already
made a byte, `Streams` those of `set_stream_path` with an int, which is parsed
as a long and may be negative. `Adapter.transmit` and `Device.transmit` check
the length of the parameters each by itself (`CheckCount`, `DeviceCheckCount`).

A physical address in text is the sequence of the numbers it starts with;
`ToInt` is what `%x` leaves of a number in an int of `IntModulus` values.

### Discovery

`Detect` and `DetectAgain` are the two detections of `get_adapters`;
`Detections` is what libcec may answer: -1, or the number of adapters with as
many of them written, in any order, as fit. `Copy` reads `count` entries,
whatever was written. `Choose` sets `dev` to point into the list's first node
and frees it with the list; from then on `Reuse` may happen, which stands for
anyone in the process allocating that memory. `during`, `throughout` and
`plugged` record what was plugged in since the call began.

## 3. The runs

| Run | Checks | Shows |
|---|---|---|
| `dispatch_core` | `TypeOK`, `LockHeldInLoops`, `RefsMatchEntries`, `RemovalTakesEffect`, `IteratorsValid`, `NoHandlerMissed`, `AtMostOnce`, `RefinesRegistry` | the registry is correct for a client that follows both rules |
| `dispatch_any` | `RefsMatchEntries`, `DeliveryReturns`, `RemovalReturns` | the reference counts survive any client; deliveries and removals end, unless the step through a dangling iterator ends the process |
| `life_any` | `TypeOK`, `CallbacksOnLiveObject`, `CallsOnLiveInstance`, `RefsMatchHolders`, `UnreachableIsPinned`, `InstanceEndsWithObject`, `LockAsNeeded` | object and instance are alive when used, the references add up, and the lock is held where Python objects are touched and given up where `close()` waits for callbacks, for any client, also when the Adapter or a Device cannot be created |
| `life_quiet` | `NoNullCall` | two threads that keep to `QuietClose` never go through a null pointer, although handlers may be calling the Adapter while it is being closed, and although creation may fail |
| `life_returns` | `CallsReturn`, `CallbacksReturn` | for such a client with one thread that also closes before it drops the Adapter, every call and callback returns |
| `requests` | `TypeOK`, `FrameAsAsked`, `NumbersInRange`, `InitiatorIsOurs`, `AddressAsWritten`, `OwnAddressShown`, `PersistKeepsConfig` | what reaches libcec is what was asked, in range; what was read before it was used was true during the call |
| `discovery` | `TypeOK`, `ListedWereAttached`, `AttachedAreListed`, `NoInstanceLeft` | no entry is read that was not written, none that stayed is missing, no instance is left |
| `remove_duplicate` | `RemovalTakesEffect` violated | finding 1 |
| `remove_bound_method` | `RemovalTakesEffect` violated | finding 2 |
| `self_removal` | `IteratorsValid` violated | finding 3 |
| `life_deadlock` | `NoGilDeadlock` violated | finding 4 |
| `default_adapter` | `DefaultIsOpened` violated | finding 5 |

Deadlock is checked where the system can always move. `dispatch_any`,
`self_removal`, `life_any`, `life_quiet` and `life_deadlock` switch it off: a
crashed process, and in the last three the GIL deadlock itself, are ends of the
system.

Bounds. In `dispatch_core` three entries are needed for an erased node with a
neighbour on both sides and for the wrap from the sentinel; two handlers so
that entries of the same and of different handlers alternate; two events so
that an entry can lose one and keep one; two libcec threads so that dispatches
overlap in each other's handlers; one client thread, as handlers are clients
too. `MaxEntries` bounds `add_callback` calls, not the length of the list.
`dispatch_any`, with its liveness, has one handler and two entries: two
adjacent entries of one handler are the case that a client without rules adds.
`life_any` has two client threads and a handler, as the races of `close`, use
and drop are pairwise; `MaxListed` is two, so that the second Device of a
listing can fail after the first; `DeviceFields` is one, as the five fields of
a Device repeat the same step. `life_quiet` lists one. `life_returns` has one
client thread: the handler is the other party of every wait. `requests` has two
threads (a third adds nothing to a property of one request and what disturbs
it), arguments at and one beyond each limit, below zero where a long is parsed,
frames with room for two parameters and lists of none, two and three, ints of
eight bits so that a group of three digits wraps, and two logical and physical
addresses so that each can change. `discovery` has one thread, since threads
share nothing but the adapters, a first buffer of two entries and four
adapters, so that the count can go from two to three to four, or back, between
the detections.

Fairness. The loops contain no waiting, so they get weak fairness. A thread
that waits for the lock gets strong fairness, because the interpreter makes the
holder drop the lock on a switch interval and a waiter that keeps asking gets
it; for the same reason `DropGil` is strongly fair. Handlers end
(`HandlerEnds`, `Callback`): without that no dispatch ends, whatever the
code does. In `AdapterLifecycle` the steps inside libcec are strongly fair:
its calls return, and a call that ends the instance stops the threads that
call back and so finds them idle in the end.

## 4. Findings

1. `remove_callback` erases with `itr = erase(itr)` and the loop's `++itr` then
   skips the next entry: of two adjacent entries of one handler the second
   stays (`adapter.cpp:389`).
2. `remove_callback` compares object identity, and a bound method is a new
   object at each evaluation: methods cannot be removed (`adapter.cpp:384`).
3. A callback removed while it runs frees the node under `trigger_event`'s
   iterator (`adapter.cpp:389`, `:75`).
4. `Adapter_dealloc` calls `CECDestroy` with the GIL held (`adapter.cpp:716`):
   with a callback waiting for the lock, neither returns. Calling `close()`
   first avoids it, at the price of never destroying the instance, since
   `close()` clears the pointer.
5. `Adapter()` without a device name keeps a pointer into the list that
   `get_adapters` returned and reads the name after the list is destroyed, to
   record it and, with the lock released, to open it (`adapter.cpp:817`).

Seen while modelling and not stated by a run: `close()` racing any other
call, or any call after `close()`, uses a null pointer; closed instances leak;
`list_devices` leaks keys and Devices, and so the Adapter (`adapter.cpp:326`);
a handler that closes the Adapter, or drops its last reference, waits for
itself; `persist_config` undoes a `set_physical_addr` that another thread makes
between its two calls (`adapter.cpp:620`); a group of nine hexadecimal digits
may be accepted as a physical address (`cec.cpp:81`); an initiator of 103 is
taken for none (`adapter.cpp:412`). The hazards list has them, and where a
property holds only without them, its definition and the hazard's note say so:
such a hazard names no property. Likewise `NoHandlerMissed` is about dispatches
that reach the end of the list; a handler that raises ends its dispatch, and the
handlers after it are not called (`adapter.cpp:100`).

## 5. The proofs

The proofs hold for any number of threads, handlers, events, entries and
adapters, any arguments, and any client that the hypotheses of the theorem
admit. Each module assumes only its constants' assumptions
(`ConstantsAssumption`, `NoneAssumption`, `IntModulusAssumption`), which say
what the constants are: sets of threads that are finite and disjoint, flags
that are Boolean, an int with room for five bits. TLC found each inductive
invariant to hold on the instances of section 3 before it was proved.

### The registry: `EventDispatchProofs`

* `TypeCorrect`, `LoopsHoldLock`, `ReferencesCounted`: for every client.
* `IteratorsStayValid`, `AllHandlersCalled`, `HandlersCalledOnce`: if
  `~SelfRemoval`.
* `RemovalIsEffective`: if `~Duplicates` and no two handlers are one callable
  (`OneObjectPerCallable`).

The argument goes in layers, each inductive relative to those before:

1. `Base`: types, the lock, the shape of the list and the reference counts
   together. The types are not inductive alone: that `Py_DECREF` leaves a
   natural number needs that the erased entry accounts for one reference.
2. `IteratorInv`: every iterator kept across a handler names a node. For it to
   be inductive, a `remove_callback` in progress must leave each running
   handler's entry at least one event; the client's rule gives that when the
   call starts, and clearing events of an entry that keeps one preserves it.
3. `DispatchInv`: entries called are behind the iterator, and matching entries
   behind it have been called. New entries are always ahead, as `push_back`
   numbers them highest.
4. `RemovalInv`: an entry of the handler being removed that still has one of
   the events is ahead of the iterator; since a handler has one entry, the
   node that `erase` and `++` skip is never one of these.

`SuccIsNext` gives what the layers need of the list: the next node is the least
greater one. All rest on the least-element property of the naturals.

### The registry implements its abstraction: `EventDispatchRefinement`

`ImplementsRegistry`: `Spec => RefinesRegistry` if `~Duplicates` and
`OneObjectPerCallable`; a client may remove handlers while they run. The run
`dispatch_core` checks it on a small instance, and without `SelfRemoval`. Step
by step:

| Step of `EventDispatch` | Step of `CallbackRegistry` | Lemma |
|---|---|---|
| `AddCallback` | `Add` | `AddIsAdd` |
| `RemoveCallback` | `Remove` | `RemoveIsRemove` |
| `ScanOther`, `ScanClear`, `ScanErase` | none: what is cleared does not count any more | `ScanIsNothing` |
| `ScanDone` | none: nothing to be removed is left, by `RemovalIsEffective` | `ScanEnds` |
| `Invoke` | `Notify` | `InvokeIsNotify` |
| `HandlerReturns`, `HandlerReturnsDangling`, `HandlerRaises` | `Return` | `EndIsReturn` |
| the others | none | `RestIsNothing` |

Two facts about reachable states carry it. The thread that has the lock and
runs no removal knows that none is in progress (from `LockHeldInLoops`), so the
event that `Invoke` finds in a node is registered. And `WalkInv`: while a loop
of `trigger_event` runs, its iterator is in the list or at its end, and no
iterator is ahead of the numbers given out, so a new node never is the one a
handler runs from. Without `RemovalIsEffective` the last step of the table
fails, which is what the run `remove_duplicate` shows from the other side.

### The Adapter's life: `AdapterLifecycleProofs`

For every client, also one that closes at any time, calls after `close()`,
drops its last reference from a handler, or whose adapter does not open:
`LifeTypes`, `CallbacksSafe`, `CallsSafe`, `RefsCounted`, `UnreachablePinned`,
`InstanceEnds`. All follow from one invariant, `LifeInv` (`LifeInvariant`):

* `ObjectInv` says what the threads have left to do in each state of the
  object. An object that is building has its creator for only user; a live one
  has as many references as names, Devices and Devices under way
  (`RefsMatchHolders` alone does not say that a thread with no reference is in
  no call); and with the last reference gone exactly one thread is in
  `Adapter_dealloc`. Without it `refs - 1` could leave the naturals, and two
  threads could free the object.
* `HandlerInv`, `DeviceInv`, `ListInv`: what only holds at a point of the code.
  A libcec thread has references only while it runs a handler; a thread builds
  one Device at a time; the bound on listed Devices counts the one under way.
* `InstanceInv` relates instance, pointer and object: no callback without an
  instance, no pointer without one, and an instance that is up has an object
  that will end it, a thread that is about to set the pointer included. That a
  libcec thread finds the object alive although it holds no reference follows
  from `Joined`, what is assumed of libcec, and from the order of `CECDestroy`
  and `free`.

Much of it speaks of `code[t]`, so the module first says what can be left of
each C function (`Creates`, `Calls`, `Closes`, `Ends`) and that executing one
operation leaves another of these.

### The lock, and a quiet client: `AdapterLifecycleClientProofs`

* `LockIsAsNeeded`: `LockAsNeeded` for every client, failures included. It is
  about the functions as much as about the threads, so the proof has two parts.
  `Locks` says when what is left of a function uses the lock well: every
  `"unlock"` has its `"lock"` one or two operations later (`Relocks`), a
  `"lock"` only comes where the lock was given up (`LocksOnce`), and an answer
  of libcec on which `Adapter_new` turns back is looked at with the lock again
  (`Checks`). `FunctionsLock` shows it for each C function and `LockGoesOn` for
  what is left of one.
  `LockInv` ties that to the threads: a thread is in the unlocked part of its
  function exactly when it does not have the lock. The exception that the
  property names, `CECDestroy` waiting with the lock held, is finding 4.
* `QuietCloseIsSafe`: `NoNullCall` if `QuietClose`, with or without failures.
  `LockInv` is needed where a thread has entered `close()` and not yet
  released the lock: it holds the lock, so no other thread begins a call then.
  `QuietInv` says that while a thread closes no other client
  thread is in a call, and that whoever is about to use the pointer finds it
  set. Handlers need no rule other than not to close: they are over when
  `Close` returns, before the pointer is cleared.

### Discovery: `DiscoveryProofs`

`DiscoveryTypes`, `NothingInvented`, `NothingMissed`, `NothingLeftBehind` from
`DiscInv`, which follows one call. `HistoryInv`: what stayed attached is
attached, what is attached was so during the call. `BufferInv` is the link that
the properties leave out: between the detections the count exceeds the first
buffer and, if nothing was plugged in, the second buffer fits all; when copying
starts the count is at most what libcec wrote. Without the latter `Copy` would
read entries that were not written. `FoundInv`: what was copied. That `n`
distinct adapters written out of `n` attached are all of them (`Arrangement`)
rests on the library's facts about injections of finite sets.

### Requests: `AdapterRequestsProofs`

`RequestsTypes`, `FramesComplete`, `NumbersFit`, `InitiatorsOurs`,
`AddressesAsWritten`, `OwnAddressIsShown`, and the action property
`PersistKeeps`, from `AskInv`. `RequestInv` says which steps can be left of a
request and that its histories contain the present; `KnownInv`, for each step
that is left, what the steps before it have established: that the addresses and
the length were checked, that `local` is a logical address of the call, the
parsed address, or the configuration as it still is; `SentInv` that what was
given to libcec agrees with the request. The properties only speak of `out`, so
they need `KnownInv` to be inductive. `TypeOK` says by method what may be kept
(`Kept`: a logical address, a physical one, a configuration, or nothing) and
what libcec may be given (`Given`: a frame only for `transmit` and the inputs,
an address only where one is set, and so on); `TypedInv` is that part of the
invariant, and `KeptIs` and `GivenIs` let each step look up its method.
`Elsewhere` is the argument for threads that do not move: the histories only
grow, and a configuration that a thread has read is the present one until
`disturbed`. Its assumptions include that a frame has room for two parameters
(`MaxData >= 2`), without which `set_av_input`, which checks nothing, would
lose one. `AddressesAsWritten` and `OwnAddressIsShown` use the theorems about
addresses.

### Addresses: `PhysicalAddressProofs`

For every text and every address, and for ints of any width of at least five
bits:

* `ParseFits`: the parser returns -1 or a 16-bit number, so the casts of its
  callers lose nothing.
* `ParseFormat`: an address that is shown and given back is the same address.
* `FormatParse`: a text of four groups that fit in an int is accepted only as
  the address that it is written as.

They rest on two lemmas, that the four digits of an address determine it
(`FormatDigits`) and that any four digits are those of some address
(`SumFits`, `FormatSum`).

### Only model-checked

* Liveness, which is beyond the proof system used: `DeliveryReturns`,
  `RemovalReturns`, `CallsReturn`, `CallbacksReturn`.
* The five violations of section 4, which are counterexamples. Two of the
  properties are not in any passing run: `DefaultIsOpened`, which the code does
  not have, and `NoGilDeadlock`, which it has only for a client that rules out
  every call of `CECDestroy` by closing first and creating without failures.

Every safety property and action property of the passing runs is proved, and so
is the refinement. The runs still check them: a change of the model that breaks
one shows there at once, with the steps that lead to it.

## 6. Not modelled, and the plan

Not modelled: the text and arguments of events; Python's own exceptions on
synchronous callbacks (libcec before version 4 may call back on the caller's
thread); the parsing of arguments by Python; strings that are only formatted
(names, vendors, versions, languages) and the references that leak with them
in `list_adapters` and in the error paths of `Device_new`; failing allocations
other than those of a Device's strings; the power states that `is_on` maps to
a truth value; module constants; the Python 2 branches and the libcec versions
before 5 where they differ.

Next, in this order:

1. Composition of `EventDispatch` with `AdapterLifecycle`: the entries of the
   list as the holders of the registry's references, and the end of the list
   with the Adapter, which may come in a handler while its list is walked.
2. The exact condition under which `set_physical_addr` accepts a text, wrapped
   groups included; `AddressAsWritten` is about groups that fit.
3. Pending exceptions of synchronous callbacks (libcec before version 4).
