----------------------- MODULE EventDispatchRefinement -----------------------
(***************************************************************************)
(* EventDispatch implements CallbackRegistry, for any number of threads,   *)
(* handlers, events and entries, if a client registers a handler once and  *)
(* as one object: the list, the iterators kept across handlers and the     *)
(* loop of remove_callback, one iteration at a time, look like a registry  *)
(* in which adding and removing are atomic.                                *)
(*                                                                         *)
(* Each action maps to a step of CallbackRegistry or to none:              *)
(*   AddCallback     Add                                                   *)
(*   RemoveCallback  Remove; the iterations that follow change nothing,    *)
(*                   because what they clear no longer counts              *)
(*   Invoke          Notify                                                *)
(*   the handler returns, raises, or its iterator dangles    Return        *)
(***************************************************************************)
EXTENDS EventDispatchProofs

\* An iterator of trigger_event never is ahead of the list, and while its loop
\* runs it is in the list or at its end, also after it has been left dangling.
WalkInv ==
    \A c \in CecThreads :
        /\ itr[c] < fresh
        /\ pc[c] = "loop" => itr[c] \in callbacks \cup {End}

\* At first no iterator is beyond the sentinel and no loop runs.
LEMMA WalkInit == Init => WalkInv
BY DEF Init, WalkInv, End

\* Only the thread that has the lock changes the list, so that a loop of
\* trigger_event never finds its node gone.
LEMMA WalkStep ==
    ASSUME Base, WalkInv, [Next]_vars
    PROVE  WalkInv'
<1> USE DEF Base, TypeOK, Threads, vars, registry, dispatch, removal, GoTo
<1>0. /\ fresh \in Nat /\ fresh > End /\ End \in Nat /\ callbacks \subseteq Nat
      /\ \A n \in callbacks : n < fresh
      /\ \A n \in Node \cup {End} : Succ(callbacks, n) \in callbacks \cup {End}
   <2>1. callbacks \subseteq Nat /\ End \in Nat   BY ListFacts
   <2>2. fresh \in Nat /\ fresh > 0   BY ConstantsAssumption
   <2> QED  BY <2>1, <2>2, ListFacts DEF Shape, End
<1>1. CASE UNCHANGED vars   BY <1>1 DEF WalkInv
<1>2. ASSUME NEW t \in Threads, TakeGil(t) \/ DropGil(t)   PROVE WalkInv'
   BY <1>2 DEF TakeGil, DropGil, WalkInv
<1>3. ASSUME NEW t \in Threads, NEW h \in Handlers, NEW events \in SUBSET Events,
             AddCallback(t, h, events)
      PROVE  WalkInv'
   <2>1. fresh' = fresh + 1 /\ callbacks' = callbacks \cup {fresh} /\ itr' = itr /\ pc' = pc
      BY <1>3 DEF AddCallback
   <2>2. \A c \in CecThreads : itr[c] \in Nat   BY <1>0, ListFacts
   <2>3. \A c \in CecThreads : itr'[c] < fresh'   BY <1>0, <2>1, <2>2 DEF WalkInv
   <2> QED  BY <2>1, <2>3 DEF WalkInv
<1>4. ASSUME NEW t \in Threads, NEW h \in Handlers, NEW events \in SUBSET Events,
             RemoveCallback(t, h, events)
      PROVE  WalkInv'
   BY <1>4 DEF RemoveCallback, WalkInv
<1>5. ASSUME NEW t \in Threads, ScanOther(t) \/ ScanClear(t)   PROVE WalkInv'
   BY <1>5 DEF ScanOther, ScanClear, WalkInv
<1>6. ASSUME NEW t \in Threads, ScanErase(t)   PROVE WalkInv'
   <2>1. \A c \in CecThreads : pc[c] # "loop"
      BY <1>6, ConstantsAssumption DEF ScanErase, LockHeldInLoops
   <2> QED  BY <1>6, <2>1 DEF ScanErase, WalkInv
<1>7. ASSUME NEW t \in Threads, ScanDone(t)   PROVE WalkInv'
   BY <1>7 DEF ScanDone, WalkInv
<1>8. ASSUME NEW c \in CecThreads, NEW e \in Events, Deliver(c, e)   PROVE WalkInv'
   BY <1>8 DEF Deliver, WalkInv
<1>9. ASSUME NEW c \in CecThreads, Ensure(c)   PROVE WalkInv'
   <2>1. Begin(callbacks) \in callbacks \cup {End} /\ Begin(callbacks) < fresh
      BY <1>0 DEF Begin
   <2> QED  BY <1>0, <1>9, <2>1 DEF Ensure, WalkInv
<1>10. ASSUME NEW c \in CecThreads, EnsureNoDispatch(c)   PROVE WalkInv'
   BY <1>10 DEF EnsureNoDispatch, WalkInv
<1>11. ASSUME NEW c \in CecThreads, LoopSkip(c) \/ HandlerReturns(c)   PROVE WalkInv'
   <2>1. /\ Succ(callbacks, itr[c]) \in callbacks \cup {End}
         /\ Succ(callbacks, itr[c]) < fresh
      BY <1>0
   <2> QED  BY <1>0, <1>11, <2>1 DEF LoopSkip, HandlerReturns, WalkInv
<1>12. ASSUME NEW c \in CecThreads, Invoke(c) \/ HandlerRaises(c) \/ LoopEnd(c)
       PROVE  WalkInv'
   BY <1>12 DEF Invoke, HandlerRaises, LoopEnd, WalkInv
<1>13. ASSUME NEW c \in CecThreads, HandlerReturnsDangling(c)   PROVE WalkInv'
   <2>1. \A n \in callbacks \cup {End} : n < fresh   BY <1>0
   <2> QED  BY <1>0, <1>13, <2>1 DEF HandlerReturnsDangling, WalkInv
<1>14. ASSUME NEW c \in CecThreads, Release(c)   PROVE WalkInv'
   BY <1>0, <1>14 DEF Release, WalkInv
<1> QED
   BY <1>1, <1>2, <1>3, <1>4, <1>5, <1>6, <1>7, <1>8, <1>9, <1>10, <1>11, <1>12, <1>13,
      <1>14 DEF Next, PythonStep, ScanStep, LoopStep, HandlerEnds

-----------------------------------------------------------------------------
(* The state of the registry.                                               *)

\* What the refinement mapping makes of a state: the events for which each callable
\* is registered, and whom each thread is notifying of what.
RegisteredNow == [f \in Callables |-> RegisteredEvents(f)]
NotifyingNow ==
    [c \in CecThreads |->
       IF Running(c) THEN <<CallableOf[cb[itr[c]]], trig[c]>> ELSE None]

\* e is one of the events of f's entries, and no removal that runs clears it.
Counts(f, e) ==
    /\ \E n \in callbacks : CallableOf[cb[n]] = f /\ e \in event[n]
    /\ ~ \E t \in Threads :
            pc[t] = "scan" /\ CallableOf[arg[t].cb] = f /\ e \in arg[t].events

\* ... which is what RegisteredEvents collects.
LEMMA RegisteredIs ==
    /\ \A f, e : e \in RegisteredEvents(f) <=> Counts(f, e)
    /\ (\A f, e : e \in RegisteredEvents(f) <=> Counts(f, e))'
<1>1. \A f, e : e \in RegisteredEvents(f) <=> Counts(f, e)
   <2> SUFFICES ASSUME NEW f, NEW e   PROVE (e \in RegisteredEvents(f) <=> Counts(f, e))
      OBVIOUS
   <2> DEFINE own == UNION {event[n] : n \in {m \in callbacks : CallableOf[cb[m]] = f}}
              going == UNION {arg[t].events : t \in {u \in Threads :
                                 pc[u] = "scan" /\ CallableOf[arg[u].cb] = f}}
   <2>1. (e \in own <=> \E n \in callbacks : CallableOf[cb[n]] = f /\ e \in event[n])
      OBVIOUS
   <2>2. (e \in going <=> \E t \in Threads : /\ pc[t] = "scan" /\ CallableOf[arg[t].cb] = f
                                             /\ e \in arg[t].events)
      OBVIOUS
   <2>3. (RegisteredEvents(f) = own \ going)   BY DEF RegisteredEvents
   <2> HIDE DEF own, going
   <2>4. (e \in RegisteredEvents(f) <=> e \in own /\ e \notin going)   BY <2>3
   <2> QED  BY <2>1, <2>2, <2>4 DEF Counts
<1>2. (\A f, e : e \in RegisteredEvents(f) <=> Counts(f, e))'
   <2> SUFFICES ASSUME NEW f, NEW e   PROVE (e \in RegisteredEvents(f) <=> Counts(f, e))'
      OBVIOUS
   <2> DEFINE own == UNION {event[n] : n \in {m \in callbacks : CallableOf[cb[m]] = f}}
              going == UNION {arg[t].events : t \in {u \in Threads :
                                 pc[u] = "scan" /\ CallableOf[arg[u].cb] = f}}
   <2>1. (e \in own <=> \E n \in callbacks : CallableOf[cb[n]] = f /\ e \in event[n])'
      OBVIOUS
   <2>2. (e \in going <=> \E t \in Threads : /\ pc[t] = "scan" /\ CallableOf[arg[t].cb] = f
                                             /\ e \in arg[t].events)'
      OBVIOUS
   <2>3. (RegisteredEvents(f) = own \ going)'   BY DEF RegisteredEvents
   <2> HIDE DEF own, going
   <2>4. (e \in RegisteredEvents(f) <=> e \in own /\ e \notin going)'   BY <2>3
   <2> QED  BY <2>1, <2>2, <2>4 DEF Counts
<1> QED  BY <1>1, <1>2

\* Nothing is registered or removed when nothing counts that did not, and the
\* reverse.
LEMMA NothingRegistered ==
    ASSUME \A f \in Callables : \A e : Counts(f, e)' <=> Counts(f, e)
    PROVE  RegisteredNow' = RegisteredNow
<1>1. ASSUME NEW f \in Callables   PROVE RegisteredEvents(f)' = RegisteredEvents(f)
   <2>1. \A e : e \in RegisteredEvents(f)' <=> e \in RegisteredEvents(f)   BY RegisteredIs
   <2> QED  BY <2>1
<1> QED  BY <1>1, Zenon DEF RegisteredNow

\* ... which is so when the entries and the removals under way stay as they are;
LEMMA NothingCounts ==
    ASSUME UNCHANGED <<callbacks, event, cb, arg>>,
           \A t \in Threads : pc[t] = "scan" <=> pc'[t] = "scan"
    PROVE  RegisteredNow' = RegisteredNow
<1>1. \A f \in Callables : \A e : Counts(f, e)' <=> Counts(f, e)   BY DEF Counts
<1> QED  BY <1>1, NothingRegistered

\* ... nobody is notified, or ceases to be, when the handlers that run stay the
\* same.
LEMMA NobodyNotified ==
    ASSUME \A c \in CecThreads :
              /\ Running(c)' <=> Running(c)
              /\ Running(c) => /\ itr'[c] = itr[c] /\ trig'[c] = trig[c]
                               /\ cb'[itr[c]] = cb[itr[c]]
    PROVE  NotifyingNow' = NotifyingNow
<1>1. ASSUME NEW c \in CecThreads
      PROVE  (IF Running(c) THEN <<CallableOf[cb[itr[c]]], trig[c]>> ELSE None)'
             = IF Running(c) THEN <<CallableOf[cb[itr[c]]], trig[c]>> ELSE None
   <2>1. CASE Running(c)   BY <2>1
   <2>2. CASE ~Running(c)   BY <2>2
   <2> QED  BY <2>1, <2>2
<1> QED  BY <1>1, Zenon DEF NotifyingNow

\* c alone begins or ends a handler.
LEMMA OneNotified ==
    ASSUME NEW c \in CecThreads, UNCHANGED cb,
           \A d \in CecThreads \ {c} :
              /\ Running(d)' <=> Running(d)
              /\ itr'[d] = itr[d] /\ trig'[d] = trig[d]
    PROVE  NotifyingNow' =
              [NotifyingNow EXCEPT ![c] =
                 (IF Running(c) THEN <<CallableOf[cb[itr[c]]], trig[c]>> ELSE None)']
<1> DEFINE new == (IF Running(c) THEN <<CallableOf[cb[itr[c]]], trig[c]>> ELSE None)'
           now == [d \in CecThreads |->
                     IF Running(d) THEN <<CallableOf[cb[itr[d]]], trig[d]>> ELSE None]
           next == [d \in CecThreads |->
                      (IF Running(d) THEN <<CallableOf[cb[itr[d]]], trig[d]>> ELSE None)']
<1>1. ASSUME NEW d \in CecThreads \ {c}
      PROVE  (IF Running(d) THEN <<CallableOf[cb[itr[d]]], trig[d]>> ELSE None)'
             = IF Running(d) THEN <<CallableOf[cb[itr[d]]], trig[d]>> ELSE None
   <2>1. CASE Running(d)   BY <2>1
   <2>2. CASE ~Running(d)   BY <2>2
   <2> QED  BY <2>1, <2>2
<1>2. \A d \in CecThreads \ {c} : next[d] = now[d]   BY <1>1, Zenon
<1>3. next[c] = new   OBVIOUS
<1> HIDE DEF new
<1>4. now = [d \in CecThreads |-> now[d]] /\ next = [d \in CecThreads |-> next[d]]
   OBVIOUS
<1> HIDE DEF now, next
<1>5. next = [now EXCEPT ![c] = new]   BY <1>2, <1>3, <1>4
<1> QED  BY <1>5 DEF NotifyingNow, now, next, new

-----------------------------------------------------------------------------
(* The actions, and the steps of the registry.                              *)

\* A step that the registry does not see.
LEMMA Stutter ==
    ASSUME RegisteredNow' = RegisteredNow, NotifyingNow' = NotifyingNow, fresh' = fresh
    PROVE  UNCHANGED Registry!vars
BY DEF Registry!vars, RegisteredNow, NotifyingNow

\* The thread that has the lock and runs no removal is alone with the list.
LEMMA NobodyScans ==
    ASSUME Base, NEW t \in Threads, gil = t, pc[t] # "scan"
    PROVE  \A u \in Threads : pc[u] # "scan"
BY DEF Base, LockHeldInLoops

\* add_callback: the handler's callable is registered for the events, too.
LEMMA AddIsAdd ==
    ASSUME Base, WalkInv, NEW t \in Threads, NEW h \in Handlers,
           NEW events \in SUBSET Events, AddCallback(t, h, events)
    PROVE  Registry!Next
<1> DEFINE f == CallableOf[h]
<1> USE DEF AddCallback, Base, TypeOK, dispatch, removal
<1>1. f \in Callables   BY ConstantsAssumption
<1>2. \A u \in Threads : pc[u] # "scan"   BY NobodyScans
<1>3. fresh \in Node /\ fresh \notin callbacks
   <2>1. fresh \in Node   BY ConstantsAssumption DEF Node
   <2>2. ~(fresh < fresh)   BY ConstantsAssumption
   <2> QED  BY <2>1, <2>2 DEF Shape
<1>4. /\ callbacks' = callbacks \cup {fresh} /\ pc' = pc
      /\ event'[fresh] = events /\ cb'[fresh] = h
      /\ \A n \in callbacks : event'[n] = event[n] /\ cb'[n] = cb[n]
   BY <1>3
<1>5. \A g, e : Counts(g, e)' <=> Counts(g, e) \/ (g = f /\ e \in events)
   BY <1>2, <1>4 DEF Counts
<1>6. RegisteredNow' = [RegisteredNow EXCEPT ![f] = @ \cup events]
   <2>1. RegisteredEvents(f)' = RegisteredEvents(f) \cup events
      <3>1. \A e : e \in RegisteredEvents(f)' <=> e \in RegisteredEvents(f) \/ e \in events
         BY <1>5, RegisteredIs
      <3> QED  BY <3>1
   <2>2. ASSUME NEW g \in Callables \ {f}   PROVE RegisteredEvents(g)' = RegisteredEvents(g)
      <3>1. \A e : e \in RegisteredEvents(g)' <=> e \in RegisteredEvents(g)
         BY <1>5, <2>2, RegisteredIs
      <3> QED  BY <3>1
   <2> HIDE DEF f
   <2> QED  BY <1>1, <2>1, <2>2 DEF RegisteredNow
<1>7. NotifyingNow' = NotifyingNow
   <2>1. \A c \in CecThreads : itr[c] # fresh
      <3>1. \A c \in CecThreads : itr[c] < fresh   BY DEF WalkInv
      <3>2. \A c \in CecThreads : ~(fresh < fresh)   BY ConstantsAssumption
      <3> QED  BY <3>1, <3>2
   <2>2. \A c \in CecThreads : cb'[itr[c]] = cb[itr[c]]   BY <2>1
   <2> QED  BY <2>2, NobodyNotified DEF Running
<1>8. (fresh - 1)' = (fresh - 1) + 1   BY ConstantsAssumption
<1>9. Registry!Add(f, events)
   BY <1>6, <1>7, <1>8, Zenon DEF Registry!Add, RegisteredNow, NotifyingNow
<1> QED  BY <1>1, <1>9, Zenon DEF Registry!Next

\* remove_callback, when its loop starts: from now on the events do not count.
LEMMA RemoveIsRemove ==
    ASSUME Base, NEW t \in Threads, NEW h \in Handlers, NEW events \in SUBSET Events,
           RemoveCallback(t, h, events)
    PROVE  Registry!Next
<1> DEFINE f == CallableOf[h]
<1> USE DEF RemoveCallback, Base, TypeOK, registry, dispatch, GoTo
<1>1. f \in Callables   BY ConstantsAssumption
<1>2. \A u \in Threads : pc[u] # "scan"   BY NobodyScans
<1>3. /\ UNCHANGED <<callbacks, event, cb, fresh, itr, trig>>
      /\ pc'[t] = "scan" /\ arg'[t].cb = h /\ arg'[t].events = events
      /\ \A u \in Threads \ {t} : pc'[u] = pc[u]
   OBVIOUS
<1>4. \A g, e : Counts(g, e)' <=> Counts(g, e) /\ ~(g = f /\ e \in events)
   BY <1>2, <1>3 DEF Counts
<1>5. RegisteredNow' = [RegisteredNow EXCEPT ![f] = @ \ events]
   <2>1. RegisteredEvents(f)' = RegisteredEvents(f) \ events
      <3>1. \A e : e \in RegisteredEvents(f)' <=> e \in RegisteredEvents(f) /\ e \notin events
         BY <1>4, RegisteredIs
      <3> QED  BY <3>1
   <2>2. ASSUME NEW g \in Callables \ {f}   PROVE RegisteredEvents(g)' = RegisteredEvents(g)
      <3>1. \A e : e \in RegisteredEvents(g)' <=> e \in RegisteredEvents(g)
         BY <1>4, <2>2, RegisteredIs
      <3> QED  BY <3>1
   <2> HIDE DEF f
   <2> QED  BY <1>1, <2>1, <2>2 DEF RegisteredNow
<1>6. NotifyingNow' = NotifyingNow
   <2>1. \A c \in CecThreads : Running(c)' <=> Running(c)   BY <1>3 DEF Running, Threads
   <2> QED  BY <1>3, <2>1, NobodyNotified
<1>7. Registry!Remove(f, events)
   BY <1>3, <1>5, <1>6, Zenon DEF Registry!Remove, RegisteredNow, NotifyingNow
<1> QED  BY <1>1, <1>7, Zenon DEF Registry!Next

\* The iterations of its loop: what they clear does not count any more.
LEMMA ScanIsNothing ==
    ASSUME Base, NEW t \in Threads, ScanOther(t) \/ ScanClear(t) \/ ScanErase(t)
    PROVE  UNCHANGED Registry!vars
<1> USE DEF Base, TypeOK, registry, dispatch
<1>1. /\ pc' = pc /\ arg' = arg /\ cb' = cb /\ fresh' = fresh /\ itr' = itr /\ trig' = trig
      /\ pc[t] = "scan"
   BY DEF ScanOther, ScanClear, ScanErase
<1>2. NotifyingNow' = NotifyingNow   BY <1>1, NobodyNotified DEF Running
<1>3. CASE ScanOther(t)
   <2>1. RegisteredNow' = RegisteredNow   BY <1>1, <1>3, NothingCounts DEF ScanOther
   <2> QED  BY <1>1, <1>2, <2>1, Stutter
<1>4. CASE ScanClear(t) \/ ScanErase(t)
   <2> DEFINE n == pos[t]
   <2>1. n \in callbacks /\ cb[n] = arg[t].cb
      BY <1>1, <1>4 DEF ScanClear, ScanErase, Shape
   <2>2. /\ \A m \in callbacks \ {n} : m \in callbacks' /\ event'[m] = event[m]
         /\ callbacks' \subseteq callbacks
         /\ n \in callbacks' => event'[n] \subseteq event[n]
      BY <1>4, <2>1 DEF ScanClear, ScanErase
   <2>3. \A e \in event[n] \ arg[t].events : n \in callbacks' /\ e \in event'[n]
      BY <1>4, <2>1 DEF ScanClear, ScanErase
   <2> HIDE DEF n
   <2>4. \A g, e : Counts(g, e)' <=> Counts(g, e)
      <3> SUFFICES ASSUME NEW g, NEW e   PROVE Counts(g, e)' <=> Counts(g, e)
         OBVIOUS
      <3>1. CASE \E u \in Threads :
                    pc[u] = "scan" /\ CallableOf[arg[u].cb] = g /\ e \in arg[u].events
         BY <1>1, <3>1 DEF Counts
      <3>2. CASE ~ \E u \in Threads :
                    pc[u] = "scan" /\ CallableOf[arg[u].cb] = g /\ e \in arg[u].events
         <4>1. CallableOf[cb[n]] = g => e \notin arg[t].events   BY <1>1, <2>1, <3>2
         <4>2. (\E m \in callbacks' : CallableOf[cb'[m]] = g /\ e \in event'[m])
               <=> \E m \in callbacks : CallableOf[cb[m]] = g /\ e \in event[m]
            BY <1>1, <2>1, <2>2, <2>3, <4>1
         <4> QED  BY <1>1, <3>2, <4>2 DEF Counts
      <3> QED  BY <3>1, <3>2
   <2>5. RegisteredNow' = RegisteredNow   BY <2>4, NothingRegistered
   <2> QED  BY <1>1, <1>2, <2>5, Stutter
<1> QED  BY <1>3, <1>4

\* The end of its loop: nothing that was to be removed is left, so that nothing
\* counts again.
LEMMA ScanEnds ==
    ASSUME Base, RemovalTakesEffect, NEW t \in Threads, ScanDone(t)
    PROVE  UNCHANGED Registry!vars
<1> USE DEF ScanDone, Base, TypeOK, registry, dispatch, GoTo
<1>1. /\ UNCHANGED <<callbacks, event, cb, fresh, itr, trig>>
      /\ pc[t] = "scan" /\ pc'[t] = "python" /\ pos[t] = End
      /\ \A u \in Threads \ {t} : pc'[u] = pc[u] /\ arg'[u] = arg[u]
   OBVIOUS
<1>2. \A n \in callbacks : CallableOf[cb[n]] = CallableOf[arg[t].cb] =>
                              event[n] \cap arg[t].events = {}
   BY <1>1 DEF RemovalTakesEffect
<1>3. \A g, e : Counts(g, e)' <=> Counts(g, e)   BY <1>1, <1>2 DEF Counts
<1>4. RegisteredNow' = RegisteredNow   BY <1>3, NothingRegistered
<1>5. NotifyingNow' = NotifyingNow
   <2>1. \A c \in CecThreads : Running(c)' <=> Running(c)   BY <1>1 DEF Running, Threads
   <2> QED  BY <1>1, <2>1, NobodyNotified
<1> QED  BY <1>1, <1>4, <1>5, Stutter

\* Taking and dropping the lock, and the parts of a dispatch around its handlers.
LEMMA RestIsNothing ==
    ASSUME Base,
           \/ \E t \in Threads : TakeGil(t) \/ DropGil(t)
           \/ \E c \in CecThreads :
                 \/ \E e \in Events : Deliver(c, e)
                 \/ Ensure(c) \/ EnsureNoDispatch(c)
                 \/ LoopSkip(c) \/ LoopEnd(c) \/ Release(c)
    PROVE  UNCHANGED Registry!vars
<1> USE DEF Base, TypeOK, registry, dispatch, removal, GoTo
<1>1. CASE \E t \in Threads : TakeGil(t) \/ DropGil(t)
   <2>1. UNCHANGED <<callbacks, event, cb, arg, fresh, itr, trig, pc>>
      BY <1>1 DEF TakeGil, DropGil
   <2>2. RegisteredNow' = RegisteredNow   BY <2>1, NothingCounts
   <2>3. NotifyingNow' = NotifyingNow   BY <2>1, NobodyNotified DEF Running
   <2> QED  BY <2>1, <2>2, <2>3, Stutter
<1>2. ASSUME NEW c \in CecThreads,
             \/ \E e \in Events : Deliver(c, e)
             \/ Ensure(c) \/ EnsureNoDispatch(c)
             \/ LoopSkip(c) \/ LoopEnd(c) \/ Release(c)
      PROVE  UNCHANGED Registry!vars
   <2>1. /\ UNCHANGED <<callbacks, event, cb, arg, fresh>>
         /\ \A d \in CecThreads \ {c} : itr'[d] = itr[d] /\ trig'[d] = trig[d]
      BY <1>2 DEF Deliver, Ensure, EnsureNoDispatch, LoopSkip, LoopEnd, Release
   <2>2. /\ \A u \in Threads \ {c} : pc'[u] = pc[u]
         /\ pc[c] \notin {"python", "scan"} /\ pc'[c] \notin {"python", "scan"}
      <3>1. c \in Threads   BY DEF Threads
      <3>2. CASE \E e \in Events : Deliver(c, e)   BY <3>1, <3>2 DEF Deliver
      <3>3. CASE Ensure(c) \/ EnsureNoDispatch(c)
         BY <3>1, <3>3 DEF Ensure, EnsureNoDispatch
      <3>4. CASE LoopSkip(c) \/ LoopEnd(c)   BY <3>1, <3>4 DEF LoopSkip, LoopEnd
      <3>5. CASE Release(c)   BY <3>1, <3>5 DEF Release
      <3> QED  BY <1>2, <3>2, <3>3, <3>4, <3>5
   <2>3. RegisteredNow' = RegisteredNow
      <3>1. \A t \in Threads : pc[t] = "scan" <=> pc'[t] = "scan"   BY <2>2
      <3> QED  BY <2>1, <3>1, NothingCounts
   <2>4. NotifyingNow' = NotifyingNow
      <3>1. \A d \in CecThreads \ {c} : Running(d)' <=> Running(d)
         BY <2>2 DEF Running, Threads
      <3>2. ~Running(c) /\ ~Running(c)'   BY <2>2 DEF Running
      <3> QED  BY <2>1, <3>1, <3>2, NobodyNotified
   <2> QED  BY <2>1, <2>3, <2>4, Stutter
<1> QED  BY <1>1, <1>2

\* trigger_event calls a handler: it is registered for the event at that moment,
\* because no removal can be under way.
LEMMA InvokeIsNotify ==
    ASSUME Base, WalkInv, NEW c \in CecThreads, Invoke(c)
    PROVE  Registry!Next
<1> USE DEF Invoke, Base, TypeOK, registry, removal, GoTo
<1>0. c \in Threads   BY DEF Threads
<1>1. itr[c] \in callbacks /\ cb[itr[c]] \in Handlers
      /\ trig[c] \in event[itr[c]]
   BY DEF WalkInv, Shape
<1>2. PICK f \in Callables, e \in Events : f = CallableOf[cb[itr[c]]] /\ e = trig[c]
   <2>1. CallableOf[cb[itr[c]]] \in Callables   BY <1>1, ConstantsAssumption
   <2>2. event[itr[c]] \in SUBSET Events   BY <1>1
   <2> QED  BY <1>1, <2>1, <2>2
<1>3. \A u \in Threads : pc[u] # "scan"
   <2>1. gil = c /\ pc[c] # "scan"   BY <1>0 DEF LockHeldInLoops
   <2> QED  BY <1>0, <2>1, NobodyScans
<1>4. e \in RegisteredEvents(f)
   <2>1. Counts(f, e)   BY <1>1, <1>2, <1>3 DEF Counts
   <2> QED  BY <2>1, RegisteredIs
<1>5. /\ UNCHANGED <<callbacks, event, cb, arg, fresh, itr, trig>>
      /\ pc[c] = "loop" /\ pc'[c] = "python"
      /\ \A u \in Threads \ {c} : pc'[u] = pc[u]
   BY <1>0
<1>6. RegisteredNow' = RegisteredNow
   <2>1. \A t \in Threads : pc[t] = "scan" <=> pc'[t] = "scan"   BY <1>5
   <2> QED  BY <1>5, <2>1, NothingCounts
<1>7. NotifyingNow' = [NotifyingNow EXCEPT ![c] = <<f, e>>] /\ NotifyingNow[c] = None
   <2>1. \A d \in CecThreads \ {c} : Running(d)' <=> Running(d)
      BY <1>5 DEF Running, Threads
   <2>2. NotifyingNow' =
            [NotifyingNow EXCEPT ![c] =
               (IF Running(c) THEN <<CallableOf[cb[itr[c]]], trig[c]>> ELSE None)']
      BY <1>5, <2>1, OneNotified
   <2>3. Running(c)' /\ ~Running(c)   BY <1>5 DEF Running
   <2>4. (IF Running(c) THEN <<CallableOf[cb[itr[c]]], trig[c]>> ELSE None)' = <<f, e>>
      BY <1>2, <1>5, <2>3
   <2>5. NotifyingNow[c] = None   BY <2>3 DEF NotifyingNow
   <2> QED  BY <2>2, <2>4, <2>5, Zenon
<1>8. RegisteredNow[f] = RegisteredEvents(f)   BY <1>2 DEF RegisteredNow
<1>9. Registry!Notify(c, f, e)
   <2>1. e \in RegisteredNow[f]   BY <1>4, <1>8
   <2>2. fresh' = fresh   BY <1>5
   <2> QED
      BY <1>6, <1>7, <2>1, <2>2, Zenon DEF Registry!Notify, RegisteredNow, NotifyingNow
<1> QED  BY <1>9, Zenon DEF Registry!Next

\* A handler ends, in whatever way.
LEMMA EndIsReturn ==
    ASSUME Base, NEW c \in CecThreads, HandlerEnds(c)
    PROVE  Registry!Next
<1> USE DEF Base, TypeOK, registry, removal, dispatch, GoTo
<1>0. c \in Threads   BY DEF Threads
<1>1. /\ UNCHANGED <<callbacks, event, cb, arg, fresh, trig>>
      /\ \A d \in CecThreads \ {c} : itr'[d] = itr[d]
   BY DEF HandlerEnds, HandlerReturns, HandlerReturnsDangling, HandlerRaises
<1>2. /\ pc[c] = "python" /\ pc'[c] \in {"loop", "release", "crashed"}
      /\ \A u \in Threads \ {c} : pc'[u] = pc[u]
   BY <1>0 DEF HandlerEnds, HandlerReturns, HandlerReturnsDangling, HandlerRaises
<1>3. RegisteredNow' = RegisteredNow
   <2>1. \A t \in Threads : pc[t] = "scan" <=> pc'[t] = "scan"   BY <1>2
   <2> QED  BY <1>1, <2>1, NothingCounts
<1>4. NotifyingNow' = [NotifyingNow EXCEPT ![c] = None]
   <2>1. \A d \in CecThreads \ {c} : Running(d)' <=> Running(d)
      BY <1>2 DEF Running, Threads
   <2>2. NotifyingNow' =
            [NotifyingNow EXCEPT ![c] =
               (IF Running(c) THEN <<CallableOf[cb[itr[c]]], trig[c]>> ELSE None)']
      BY <1>1, <2>1, OneNotified
   <2>3. ~Running(c)'   BY <1>2 DEF Running
   <2> QED  BY <2>2, <2>3
<1>5. Registry!Return(c)
   BY <1>1, <1>3, <1>4, Zenon DEF Registry!Return, RegisteredNow, NotifyingNow
<1> QED  BY <1>5, Zenon DEF Registry!Next

\* The registry begins empty.
LEMMA BeginsEmpty == Init => Registry!Init
<1> SUFFICES ASSUME Init   PROVE Registry!Init
   OBVIOUS
<1>1. \A f \in Callables : RegisteredEvents(f) = {}
   <2>1. \A f, e : ~Counts(f, e)   BY DEF Init, Counts
   <2>2. \A f, e : e \notin RegisteredEvents(f)   BY <2>1, RegisteredIs
   <2> QED  BY <2>2
<1>2. \A c \in CecThreads : ~Running(c)   BY DEF Init, Running, Threads
<1>3. fresh - 1 = 0   BY DEF Init
<1> QED  BY <1>1, <1>2, <1>3 DEF Registry!Init

\* A client that registers a handler once and as one object sees a registry in
\* which add_callback and remove_callback are atomic, and in which trigger_event
\* only calls what is registered for the event at that moment: also a client that
\* removes a handler while it runs.
THEOREM ImplementsRegistry ==
    ASSUME ~Duplicates, OneObjectPerCallable
    PROVE  Spec => RefinesRegistry
<1>1. Init => WalkInv   BY WalkInit
<1>2. Base /\ WalkInv /\ [Next]_vars => WalkInv'   BY WalkStep
<1>3. Spec => []WalkInv   BY <1>1, <1>2, BaseInvariant, PTL DEF Spec
<1>4. Base /\ WalkInv /\ RemovalTakesEffect /\ [Next]_vars
      => [Registry!Next]_(Registry!vars)
   <2> SUFFICES ASSUME Base, WalkInv, RemovalTakesEffect, [Next]_vars
                PROVE  Registry!Next \/ UNCHANGED Registry!vars
      OBVIOUS
   <2>1. CASE UNCHANGED vars
      <3>1. UNCHANGED <<callbacks, event, cb, arg, fresh, itr, trig, pc>>
         BY <2>1 DEF vars, registry, dispatch, removal
      <3>2. RegisteredNow' = RegisteredNow   BY <3>1, NothingCounts
      <3>3. NotifyingNow' = NotifyingNow   BY <3>1, NobodyNotified DEF Running
      <3> QED  BY <3>1, <3>2, <3>3, Stutter
   <2>2. ASSUME NEW t \in Threads, PythonStep(t)
         PROVE  Registry!Next \/ UNCHANGED Registry!vars
      BY <2>2, AddIsAdd, RemoveIsRemove, RestIsNothing DEF PythonStep
   <2>3. ASSUME NEW t \in Threads, ScanStep(t)
         PROVE  Registry!Next \/ UNCHANGED Registry!vars
      BY <2>3, ScanIsNothing, ScanEnds DEF ScanStep
   <2>4. ASSUME NEW c \in CecThreads,
                \/ \E e \in Events : Deliver(c, e)
                \/ Ensure(c) \/ EnsureNoDispatch(c) \/ LoopStep(c) \/ HandlerEnds(c)
         PROVE  Registry!Next \/ UNCHANGED Registry!vars
      BY <2>4, RestIsNothing, InvokeIsNotify, EndIsReturn DEF LoopStep
   <2> QED  BY <2>1, <2>2, <2>3, <2>4 DEF Next
<1>5. Spec => []RemovalTakesEffect   BY RemovalIsEffective
<1>6. Spec => [][Registry!Next]_(Registry!vars)
   BY <1>3, <1>4, <1>5, BaseInvariant, PTL DEF Spec
<1> QED  BY <1>6, BeginsEmpty, PTL DEF RefinesRegistry, Registry!Spec, Spec

=============================================================================
