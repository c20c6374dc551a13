------------------------- MODULE EventDispatchProofs -------------------------
(***************************************************************************)
(* Theorems about EventDispatch, for any number of threads, handlers,      *)
(* events and entries.                                                     *)
(***************************************************************************)
EXTENDS EventDispatch, FiniteSetTheorems, WellFoundedInduction, TLAPS

-----------------------------------------------------------------------------
(* The circular list.                                                       *)

\* A nonempty set of naturals has a least element.
LEMMA LeastElement ==
    ASSUME NEW T, T \subseteq Nat, T # {}
    PROVE  \E m \in T : \A k \in T : m <= k
<1>1. PICK m \in T : \A k \in T : ~ (<<k, m>> \in OpToRel(<, Nat))
  BY NatLessThanWellFounded, WFMin, Zenon
<1>2. \A k \in T : ~ (k < m)
  BY <1>1 DEF OpToRel
<1> QED
  BY <1>2

\* ++ goes to the next node of the list, and to the sentinel after the last.
LEMMA SuccIsNext ==
    ASSUME NEW S, S \subseteq Node, NEW n \in Nat
    PROVE  /\ Succ(S, n) \in S \cup {End}
           /\ Succ(S, n) = End => \A m \in S : m <= n
           /\ Succ(S, n) # End =>
                /\ n < Succ(S, n)
                /\ \A m \in S : n < m => Succ(S, n) <= m
<1> DEFINE later == {m \in S : m > n}
<1>1. S \subseteq Nat /\ End \notin S
  BY ConstantsAssumption DEF Node, End
<1>2. CASE later = {}
  BY <1>1, <1>2 DEF Succ, End
<1>3. CASE later # {}
  <2>1. \E m \in later : \A k \in later : m <= k
    BY <1>1, <1>3, LeastElement
  <2>2. Succ(S, n) = CHOOSE m \in later : \A k \in later : m <= k
    BY <1>3 DEF Succ
  <2>3. Succ(S, n) \in later /\ \A k \in later : Succ(S, n) <= k
    BY <2>1, <2>2
  <2> QED
    BY <1>1, <2>3 DEF End
<1> QED
  BY <1>2, <1>3

-----------------------------------------------------------------------------
(* Types, the lock and the reference counts.                                *)

\* What the loops rely on: nodes are numbered in the order of the list, and
\* remove_callback's iterator names a node of it or the sentinel.
Shape ==
    /\ \A n \in callbacks : n < fresh /\ cb[n] \in Handlers
    /\ \A t \in Threads :
          pc[t] = "scan" => arg[t].cb \in Handlers /\ pos[t] \in callbacks \cup {End}

Base == TypeOK /\ LockHeldInLoops /\ Shape /\ RefsMatchEntries

\* The list is empty at first.
LEMMA BaseInit == Init => Base
<1> SUFFICES ASSUME Init PROVE Base
  OBVIOUS
<1>1. TypeOK
  BY ConstantsAssumption DEF Init, TypeOK, Threads, Node, End, NoArg
<1>2. LockHeldInLoops /\ Shape
  BY DEF Init, LockHeldInLoops, Shape
<1>3. RefsMatchEntries
  BY FS_EmptySet DEF Init, RefsMatchEntries
<1> QED
  BY <1>1, <1>2, <1>3 DEF Base

\* The nodes of the list are numbers, and so are the successors.
LEMMA ListFacts ==
    ASSUME TypeOK
    PROVE  /\ Node \subseteq Nat /\ End \in Nat /\ End \notin Node
           /\ \A n \in Node \cup {End} : Succ(callbacks, n) \in callbacks \cup {End}
           /\ \A m \in Node, n \in Node \cup {End} :
                 Succ(callbacks \ {m}, n) \in (callbacks \ {m}) \cup {End}
<1>1. Node \subseteq Nat /\ End \in Nat /\ End \notin Node
  BY ConstantsAssumption DEF Node, End
<1>2. callbacks \subseteq Node
  BY DEF TypeOK
<1>3. ASSUME NEW n \in Node \cup {End}
      PROVE  Succ(callbacks, n) \in callbacks \cup {End}
  BY <1>1, <1>2, SuccIsNext
<1>4. ASSUME NEW m \in Node, NEW n \in Node \cup {End}
      PROVE  Succ(callbacks \ {m}, n) \in (callbacks \ {m}) \cup {End}
  <2>1. callbacks \ {m} \subseteq Node
    BY <1>2
  <2> QED
    BY <1>1, <2>1, SuccIsNext
<1> QED
  BY <1>1, <1>3, <1>4

\* The list is finite.
LEMMA EntriesFinite ==
    ASSUME TypeOK
    PROVE  \A S \in SUBSET callbacks : IsFiniteSet(S)
<1>1. IsFiniteSet(Node)
  BY FS_Interval, ConstantsAssumption DEF Node
<1>2. \A S \in SUBSET callbacks : S \in SUBSET Node
  BY DEF TypeOK
<1> QED
  BY <1>1, <1>2, FS_Subset

\* Every action keeps the types.  The reference count of an erased entry's
\* handler stays a natural number because the entry itself accounts for one.
LEMMA TypeStep ==
    ASSUME Base, [Next]_vars
    PROVE  TypeOK'
<1> USE DEF Base, vars, registry, dispatch, removal, GoTo
<1>1. CASE UNCHANGED vars
  BY <1>1 DEF TypeOK
<1>2. ASSUME NEW t \in Threads, TakeGil(t)
      PROVE  TypeOK'
  BY <1>2 DEF TakeGil, TypeOK, Threads
<1>3. ASSUME NEW t \in Threads, DropGil(t)
      PROVE  TypeOK'
  BY <1>3 DEF DropGil, TypeOK, Threads
<1>4. ASSUME NEW t \in Threads, NEW h \in Handlers, NEW events \in SUBSET Events,
                 AddCallback(t, h, events)
      PROVE  TypeOK'
  <2>1. fresh \in Node
    BY <1>4, ConstantsAssumption DEF AddCallback, TypeOK, Node
  <2>2. fresh + 1 \in 1..(MaxEntries + 1)
    BY <2>1, ConstantsAssumption DEF Node
  <2> QED
    BY <1>4, <2>1, <2>2 DEF AddCallback, TypeOK
<1>5. ASSUME NEW t \in Threads, NEW h \in Handlers, NEW events \in SUBSET Events,
                 RemoveCallback(t, h, events)
      PROVE  TypeOK'
  BY <1>5, ListFacts DEF RemoveCallback, TypeOK, Begin
<1>6. ASSUME NEW t \in Threads, ScanOther(t)
      PROVE  TypeOK'
  BY <1>6, ListFacts DEF ScanOther, TypeOK
<1>7. ASSUME NEW t \in Threads, ScanClear(t)
      PROVE  TypeOK'
  BY <1>7, ListFacts DEF ScanClear, TypeOK
<1>8. ASSUME NEW t \in Threads, ScanErase(t)
      PROVE  TypeOK'
  <2>1. cb[pos[t]] \in Handlers /\ pos[t] \in callbacks
    BY <1>8 DEF ScanErase, Shape
  <2>2. refs[cb[pos[t]]] \in Nat /\ refs[cb[pos[t]]] # 0
    <3> DEFINE own == {n \in callbacks : cb[n] = cb[pos[t]]}
    <3>1. IsFiniteSet(own)
      BY EntriesFinite
    <3>2. Cardinality(own) # 0
      BY <2>1, <3>1, FS_EmptySet
    <3> QED
      BY <2>1, <3>2 DEF TypeOK, RefsMatchEntries
  <2>3. Succ(callbacks \ {pos[t]}, Succ(callbacks \ {pos[t]}, pos[t])) \in Node \cup {End}
    BY <2>1, ListFacts DEF TypeOK
  <2>4. refs' \in [Handlers -> Nat]
    <3>1. refs[cb[pos[t]]] - 1 \in Nat
      BY <2>2
    <3> QED
      BY <1>8, <2>1, <3>1 DEF ScanErase, TypeOK
  <2>5. pos' \in [Threads -> Node \cup {End}]
    BY <1>8, <2>3 DEF ScanErase, TypeOK
  <2> QED
    BY <1>8, <2>1, <2>4, <2>5 DEF ScanErase, TypeOK
<1>9. ASSUME NEW t \in Threads, ScanDone(t)
      PROVE  TypeOK'
  BY <1>9, ConstantsAssumption DEF ScanDone, TypeOK, NoArg
<1>10. ASSUME NEW c \in CecThreads, NEW e \in Events, Deliver(c, e)
      PROVE  TypeOK'
  BY <1>10 DEF Deliver, TypeOK, Threads
<1>11. ASSUME NEW c \in CecThreads, Ensure(c)
      PROVE  TypeOK'
  BY <1>11, ListFacts DEF Ensure, TypeOK, Begin, Threads
<1>12. ASSUME NEW c \in CecThreads, EnsureNoDispatch(c)
      PROVE  TypeOK'
  BY <1>12 DEF EnsureNoDispatch, TypeOK, Threads
<1>13. ASSUME NEW c \in CecThreads, LoopSkip(c)
      PROVE  TypeOK'
  BY <1>13, ListFacts DEF LoopSkip, TypeOK
<1>14. ASSUME NEW c \in CecThreads, Invoke(c)
      PROVE  TypeOK'
  BY <1>14 DEF Invoke, TypeOK, Threads
<1>15. ASSUME NEW c \in CecThreads, LoopEnd(c)
      PROVE  TypeOK'
  BY <1>15 DEF LoopEnd, TypeOK, Threads
<1>16. ASSUME NEW c \in CecThreads, Release(c)
      PROVE  TypeOK'
  BY <1>16 DEF Release, TypeOK, Threads
<1>17. ASSUME NEW c \in CecThreads, HandlerReturns(c)
      PROVE  TypeOK'
  BY <1>17, ListFacts DEF HandlerReturns, TypeOK, Threads
<1>18. ASSUME NEW c \in CecThreads, HandlerReturnsDangling(c)
      PROVE  TypeOK'
  BY <1>18 DEF HandlerReturnsDangling, TypeOK, Threads
<1>19. ASSUME NEW c \in CecThreads, HandlerRaises(c)
      PROVE  TypeOK'
  BY <1>19 DEF HandlerRaises, TypeOK, Threads
<1> QED
  BY <1>1, <1>2, <1>3, <1>4, <1>5, <1>6, <1>7, <1>8, <1>9, <1>10, <1>11, <1>12, <1>13, <1>14, <1>15, <1>16, <1>17, <1>18, <1>19
     DEF Next, PythonStep, ScanStep, LoopStep, HandlerEnds

\* A thread enters a loop only as the lock's holder, and whoever gives the
\* lock up is in no loop.
LEMMA LockStep ==
    ASSUME Base, [Next]_vars
    PROVE  LockHeldInLoops'
<1> USE DEF Base, TypeOK, Threads, vars, registry, dispatch, removal, GoTo
<1>1. CASE UNCHANGED vars
  BY <1>1 DEF LockHeldInLoops
<1>2. ASSUME NEW t \in Threads, TakeGil(t)
      PROVE  LockHeldInLoops'
  BY <1>2, ConstantsAssumption DEF TakeGil, LockHeldInLoops
<1>3. ASSUME NEW t \in Threads, DropGil(t)
      PROVE  LockHeldInLoops'
  BY <1>3 DEF DropGil, LockHeldInLoops, Running
<1>4. ASSUME NEW t \in Threads, NEW h \in Handlers, NEW events \in SUBSET Events,
                 AddCallback(t, h, events)
      PROVE  LockHeldInLoops'
  BY <1>4 DEF AddCallback, LockHeldInLoops, Running
<1>5. ASSUME NEW t \in Threads, NEW h \in Handlers, NEW events \in SUBSET Events,
                 RemoveCallback(t, h, events)
      PROVE  LockHeldInLoops'
  BY <1>5 DEF RemoveCallback, LockHeldInLoops, Running
<1>6. ASSUME NEW t \in Threads, ScanOther(t)
      PROVE  LockHeldInLoops'
  BY <1>6 DEF ScanOther, LockHeldInLoops, Running
<1>7. ASSUME NEW t \in Threads, ScanClear(t)
      PROVE  LockHeldInLoops'
  BY <1>7 DEF ScanClear, LockHeldInLoops, Running
<1>8. ASSUME NEW t \in Threads, ScanErase(t)
      PROVE  LockHeldInLoops'
  BY <1>8 DEF ScanErase, LockHeldInLoops, Running
<1>9. ASSUME NEW t \in Threads, ScanDone(t)
      PROVE  LockHeldInLoops'
  BY <1>9 DEF ScanDone, LockHeldInLoops, Running
<1>10. ASSUME NEW c \in CecThreads, NEW e \in Events, Deliver(c, e)
      PROVE  LockHeldInLoops'
  BY <1>10 DEF Deliver, LockHeldInLoops, Running
<1>11. ASSUME NEW c \in CecThreads, Ensure(c)
      PROVE  LockHeldInLoops'
  BY <1>11, ConstantsAssumption DEF Ensure, LockHeldInLoops
<1>12. ASSUME NEW c \in CecThreads, EnsureNoDispatch(c)
      PROVE  LockHeldInLoops'
  BY <1>12, ConstantsAssumption DEF EnsureNoDispatch, LockHeldInLoops
<1>13. ASSUME NEW c \in CecThreads, LoopSkip(c)
      PROVE  LockHeldInLoops'
  BY <1>13 DEF LoopSkip, LockHeldInLoops, Running
<1>14. ASSUME NEW c \in CecThreads, Invoke(c)
      PROVE  LockHeldInLoops'
  BY <1>14 DEF Invoke, LockHeldInLoops, Running
<1>15. ASSUME NEW c \in CecThreads, LoopEnd(c)
      PROVE  LockHeldInLoops'
  BY <1>15 DEF LoopEnd, LockHeldInLoops, Running
<1>16. ASSUME NEW c \in CecThreads, Release(c)
      PROVE  LockHeldInLoops'
  BY <1>16 DEF Release, LockHeldInLoops, Running
<1>17. ASSUME NEW c \in CecThreads, HandlerReturns(c)
      PROVE  LockHeldInLoops'
  BY <1>17 DEF HandlerReturns, LockHeldInLoops, Running
<1>18. ASSUME NEW c \in CecThreads, HandlerReturnsDangling(c)
      PROVE  LockHeldInLoops'
  BY <1>18 DEF HandlerReturnsDangling, LockHeldInLoops, Running
<1>19. ASSUME NEW c \in CecThreads, HandlerRaises(c)
      PROVE  LockHeldInLoops'
  BY <1>19 DEF HandlerRaises, LockHeldInLoops, Running
<1> QED
  BY <1>1, <1>2, <1>3, <1>4, <1>5, <1>6, <1>7, <1>8, <1>9, <1>10, <1>11, <1>12, <1>13, <1>14, <1>15, <1>16, <1>17, <1>18, <1>19
     DEF Next, PythonStep, ScanStep, LoopStep, HandlerEnds

\* Only the lock's holder changes the list or an iterator of remove_callback.
LEMMA ShapeStep ==
    ASSUME Base, [Next]_vars
    PROVE  Shape'
<1> USE DEF Base, TypeOK, vars, registry, dispatch, removal, GoTo
<1>1. CASE UNCHANGED vars
  BY <1>1 DEF Shape
<1>2. ASSUME NEW t \in Threads, TakeGil(t)
      PROVE  Shape'
  BY <1>2 DEF TakeGil, Shape
<1>3. ASSUME NEW t \in Threads, DropGil(t)
      PROVE  Shape'
  BY <1>3 DEF DropGil, Shape
<1>4. ASSUME NEW t \in Threads, NEW h \in Handlers, NEW events \in SUBSET Events,
                 AddCallback(t, h, events)
      PROVE  Shape'
  <2>1. fresh \in Node /\ \A n \in callbacks : n \in Nat
    BY <1>4, ConstantsAssumption DEF AddCallback, Node
  <2>2. \A n \in callbacks : n < fresh /\ cb[n] \in Handlers
    BY DEF Shape
  <2>3. \A n \in callbacks' : n < fresh' /\ cb'[n] \in Handlers
    BY <1>4, <2>1, <2>2 DEF AddCallback
  <2> QED
    BY <1>4, <2>3 DEF AddCallback, Shape
<1>5. ASSUME NEW t \in Threads, NEW h \in Handlers, NEW events \in SUBSET Events,
                 RemoveCallback(t, h, events)
      PROVE  Shape'
  BY <1>5, ListFacts DEF RemoveCallback, Shape, Begin
<1>6. ASSUME NEW t \in Threads, ScanOther(t)
      PROVE  Shape'
  BY <1>6, ListFacts DEF ScanOther, Shape
<1>7. ASSUME NEW t \in Threads, ScanClear(t)
      PROVE  Shape'
  BY <1>7, ListFacts DEF ScanClear, Shape
<1>8. ASSUME NEW t \in Threads, ScanErase(t)
      PROVE  Shape'
  <2>1. pos[t] \in callbacks
    BY <1>8 DEF ScanErase, Shape
  <2>2. Succ(callbacks \ {pos[t]}, Succ(callbacks \ {pos[t]}, pos[t]))
            \in (callbacks \ {pos[t]}) \cup {End}
    BY <2>1, ListFacts
  <2>3. \A u \in Threads : pc[u] = "scan" => u = t
    BY <1>8 DEF ScanErase, LockHeldInLoops
  <2> QED
    BY <1>8, <2>1, <2>2, <2>3 DEF ScanErase, Shape
<1>9. ASSUME NEW t \in Threads, ScanDone(t)
      PROVE  Shape'
  BY <1>9 DEF ScanDone, Shape
<1>10. ASSUME NEW c \in CecThreads, NEW e \in Events, Deliver(c, e)
      PROVE  Shape'
  BY <1>10 DEF Deliver, Shape
<1>11. ASSUME NEW c \in CecThreads, Ensure(c)
      PROVE  Shape'
  BY <1>11 DEF Ensure, Shape
<1>12. ASSUME NEW c \in CecThreads, EnsureNoDispatch(c)
      PROVE  Shape'
  BY <1>12 DEF EnsureNoDispatch, Shape
<1>13. ASSUME NEW c \in CecThreads, LoopSkip(c)
      PROVE  Shape'
  BY <1>13 DEF LoopSkip, Shape
<1>14. ASSUME NEW c \in CecThreads, Invoke(c)
      PROVE  Shape'
  BY <1>14 DEF Invoke, Shape
<1>15. ASSUME NEW c \in CecThreads, LoopEnd(c)
      PROVE  Shape'
  BY <1>15 DEF LoopEnd, Shape
<1>16. ASSUME NEW c \in CecThreads, Release(c)
      PROVE  Shape'
  BY <1>16 DEF Release, Shape
<1>17. ASSUME NEW c \in CecThreads, HandlerReturns(c)
      PROVE  Shape'
  BY <1>17 DEF HandlerReturns, Shape
<1>18. ASSUME NEW c \in CecThreads, HandlerReturnsDangling(c)
      PROVE  Shape'
  BY <1>18 DEF HandlerReturnsDangling, Shape
<1>19. ASSUME NEW c \in CecThreads, HandlerRaises(c)
      PROVE  Shape'
  BY <1>19 DEF HandlerRaises, Shape
<1> QED
  BY <1>1, <1>2, <1>3, <1>4, <1>5, <1>6, <1>7, <1>8, <1>9, <1>10, <1>11, <1>12, <1>13, <1>14, <1>15, <1>16, <1>17, <1>18, <1>19
     DEF Next, PythonStep, ScanStep, LoopStep, HandlerEnds

\* push_back comes with one Py_INCREF and erase with one Py_DECREF.
LEMMA RefsStep ==
    ASSUME Base, [Next]_vars
    PROVE  RefsMatchEntries'
<1> DEFINE Own(h) == {n \in callbacks : cb[n] = h}
<1> USE DEF Base, TypeOK, vars, registry, dispatch, removal, GoTo
<1>0. \A h \in Handlers : IsFiniteSet(Own(h)) /\ refs[h] = Cardinality(Own(h))
  BY EntriesFinite DEF RefsMatchEntries
<1>1. CASE UNCHANGED vars
  BY <1>1 DEF RefsMatchEntries
<1>2. ASSUME NEW t \in Threads, TakeGil(t)
      PROVE  RefsMatchEntries'
  BY <1>2 DEF TakeGil, RefsMatchEntries
<1>3. ASSUME NEW t \in Threads, DropGil(t)
      PROVE  RefsMatchEntries'
  BY <1>3 DEF DropGil, RefsMatchEntries
<1>4. ASSUME NEW t \in Threads, NEW h \in Handlers, NEW events \in SUBSET Events,
                 AddCallback(t, h, events)
      PROVE  RefsMatchEntries'
  <2>1. fresh \in Node /\ fresh \notin callbacks
    BY <1>4, ConstantsAssumption DEF AddCallback, Node, Shape
  <2>2. Own(h)' = Own(h) \cup {fresh}
    BY <1>4, <2>1 DEF AddCallback
  <2>3. \A g \in Handlers \ {h} : Own(g)' = Own(g)
    BY <1>4, <2>1 DEF AddCallback
  <2>4. Cardinality(Own(h) \cup {fresh}) = Cardinality(Own(h)) + 1
    BY <1>0, <2>1, FS_AddElement
  <2>5. refs'[h] = Cardinality(Own(h)')
    BY <1>4, <1>0, <2>2, <2>4 DEF AddCallback
  <2>6. \A g \in Handlers \ {h} : refs'[g] = Cardinality(Own(g)')
    BY <1>4, <1>0, <2>3 DEF AddCallback
  <2> QED
    BY <2>5, <2>6 DEF RefsMatchEntries
<1>5. ASSUME NEW t \in Threads, NEW h \in Handlers, NEW events \in SUBSET Events,
                 RemoveCallback(t, h, events)
      PROVE  RefsMatchEntries'
  BY <1>5 DEF RemoveCallback, RefsMatchEntries
<1>6. ASSUME NEW t \in Threads, ScanOther(t)
      PROVE  RefsMatchEntries'
  BY <1>6 DEF ScanOther, RefsMatchEntries
<1>7. ASSUME NEW t \in Threads, ScanClear(t)
      PROVE  RefsMatchEntries'
  BY <1>7 DEF ScanClear, RefsMatchEntries
<1>8. ASSUME NEW t \in Threads, ScanErase(t)
      PROVE  RefsMatchEntries'
  <2>1. PICK n \in callbacks, h \in Handlers : n = pos[t] /\ h = cb[n]
    BY <1>8 DEF ScanErase, Shape
  <2>2. Own(h)' = Own(h) \ {n}
    BY <1>8, <2>1 DEF ScanErase
  <2>3. \A g \in Handlers \ {h} : Own(g)' = Own(g)
    BY <1>8, <2>1 DEF ScanErase
  <2>4. Cardinality(Own(h) \ {n}) = Cardinality(Own(h)) - 1
    BY <1>0, <2>1, FS_RemoveElement
  <2>5. refs'[h] = Cardinality(Own(h)')
    BY <1>8, <1>0, <2>1, <2>2, <2>4 DEF ScanErase
  <2>6. \A g \in Handlers \ {h} : refs'[g] = Cardinality(Own(g)')
    BY <1>8, <1>0, <2>1, <2>3 DEF ScanErase
  <2> QED
    BY <2>5, <2>6 DEF RefsMatchEntries
<1>9. ASSUME NEW t \in Threads, ScanDone(t)
      PROVE  RefsMatchEntries'
  BY <1>9 DEF ScanDone, RefsMatchEntries
<1>10. ASSUME NEW c \in CecThreads, NEW e \in Events, Deliver(c, e)
      PROVE  RefsMatchEntries'
  BY <1>10 DEF Deliver, RefsMatchEntries
<1>11. ASSUME NEW c \in CecThreads, Ensure(c)
      PROVE  RefsMatchEntries'
  BY <1>11 DEF Ensure, RefsMatchEntries
<1>12. ASSUME NEW c \in CecThreads, EnsureNoDispatch(c)
      PROVE  RefsMatchEntries'
  BY <1>12 DEF EnsureNoDispatch, RefsMatchEntries
<1>13. ASSUME NEW c \in CecThreads, LoopSkip(c)
      PROVE  RefsMatchEntries'
  BY <1>13 DEF LoopSkip, RefsMatchEntries
<1>14. ASSUME NEW c \in CecThreads, Invoke(c)
      PROVE  RefsMatchEntries'
  BY <1>14 DEF Invoke, RefsMatchEntries
<1>15. ASSUME NEW c \in CecThreads, LoopEnd(c)
      PROVE  RefsMatchEntries'
  BY <1>15 DEF LoopEnd, RefsMatchEntries
<1>16. ASSUME NEW c \in CecThreads, Release(c)
      PROVE  RefsMatchEntries'
  BY <1>16 DEF Release, RefsMatchEntries
<1>17. ASSUME NEW c \in CecThreads, HandlerReturns(c)
      PROVE  RefsMatchEntries'
  BY <1>17 DEF HandlerReturns, RefsMatchEntries
<1>18. ASSUME NEW c \in CecThreads, HandlerReturnsDangling(c)
      PROVE  RefsMatchEntries'
  BY <1>18 DEF HandlerReturnsDangling, RefsMatchEntries
<1>19. ASSUME NEW c \in CecThreads, HandlerRaises(c)
      PROVE  RefsMatchEntries'
  BY <1>19 DEF HandlerRaises, RefsMatchEntries
<1> QED
  BY <1>1, <1>2, <1>3, <1>4, <1>5, <1>6, <1>7, <1>8, <1>9, <1>10, <1>11, <1>12, <1>13, <1>14, <1>15, <1>16, <1>17, <1>18, <1>19
     DEF Next, PythonStep, ScanStep, LoopStep, HandlerEnds

\* The first layer holds in every behaviour.
LEMMA BaseInvariant == Spec => []Base
<1>1. Init => Base
  BY BaseInit
<1>2. Base /\ [Next]_vars => Base'
  BY TypeStep, LockStep, ShapeStep, RefsStep DEF Base
<1> QED
  BY <1>1, <1>2, PTL DEF Spec

\* The variables always have their types.
THEOREM TypeCorrect == Spec => []TypeOK
<1>1. Base => TypeOK
  BY DEF Base
<1> QED
  BY <1>1, BaseInvariant, PTL

\* The loops of trigger_event and remove_callback never run without the lock.
THEOREM LoopsHoldLock == Spec => []LockHeldInLoops
<1>1. Base => LockHeldInLoops
  BY DEF Base
<1> QED
  BY <1>1, BaseInvariant, PTL

\* The registry's references to a handler are as many as its entries,
\* whatever is added, removed and run.
THEOREM ReferencesCounted == Spec => []RefsMatchEntries
<1>1. Base => RefsMatchEntries
  BY DEF Base
<1> QED
  BY <1>1, BaseInvariant, PTL

-----------------------------------------------------------------------------
(* The iterator of trigger_event across a handler.                          *)

\* While a client leaves the entries of running handlers in place: a thread
\* outside trigger_event has no iterator, one inside a handler has one, and a
\* remove_callback in progress leaves every entry under such an iterator an
\* event.
IteratorInv ==
    /\ IteratorsValid
    /\ \A t \in Threads : pc[t] # "crashed"
    /\ \A c \in CecThreads :
          /\ pc[c] \in {"native", "ensure"} => itr[c] = End
          /\ Running(c) => itr[c] # End
    /\ \A t \in Threads, c \in CecThreads :
          (pc[t] = "scan" /\ Running(c) /\ cb[itr[c]] = arg[t].cb) =>
              ~(event[itr[c]] \subseteq arg[t].events)

\* No handler runs at first.
LEMMA IteratorInit == Init => IteratorInv
BY DEF Init, IteratorInv, IteratorsValid, Running, Threads

\* A step of a client that leaves running handlers alone keeps their iterators
\* valid.
LEMMA IteratorStep ==
    ASSUME ~SelfRemoval, Base, IteratorInv, [Next]_vars
    PROVE  IteratorInv'
<1> USE DEF Base, TypeOK, Threads, vars, registry, dispatch, removal, GoTo, Running
<1>1. CASE UNCHANGED vars
  BY <1>1 DEF IteratorInv, IteratorsValid
<1>2. ASSUME NEW t \in Threads, TakeGil(t)
      PROVE  IteratorInv'
  BY <1>2 DEF TakeGil, IteratorInv, IteratorsValid
<1>3. ASSUME NEW t \in Threads, DropGil(t)
      PROVE  IteratorInv'
  BY <1>3 DEF DropGil, IteratorInv, IteratorsValid
<1>4. ASSUME NEW t \in Threads, NEW h \in Handlers, NEW events \in SUBSET Events,
                 AddCallback(t, h, events)
      PROVE  IteratorInv'
  <2>1. fresh \notin callbacks
    BY <1>4, ListFacts DEF Shape
  <2>2. \A c \in CecThreads : Running(c) => itr[c] \in callbacks
    BY DEF IteratorInv, IteratorsValid
  <2> QED
    BY <1>4, <2>1, <2>2 DEF AddCallback, IteratorInv, IteratorsValid
<1>5. ASSUME NEW t \in Threads, NEW h \in Handlers, NEW events \in SUBSET Events,
                 RemoveCallback(t, h, events)
      PROVE  IteratorInv'
  BY <1>5 DEF RemoveCallback, ErasesNoRunning, IteratorInv, IteratorsValid
<1>6. ASSUME NEW t \in Threads, ScanOther(t)
      PROVE  IteratorInv'
  BY <1>6 DEF ScanOther, IteratorInv, IteratorsValid
<1>7. ASSUME NEW t \in Threads, ScanClear(t)
      PROVE  IteratorInv'
  <2>1. \A u \in Threads : pc[u] = "scan" => u = t
    BY <1>7 DEF ScanClear, LockHeldInLoops
  <2>2. pos[t] \in Node
    BY <1>7 DEF ScanClear
  <2>3. ASSUME NEW c \in CecThreads, Running(c), cb[itr[c]] = arg[t].cb
        PROVE  ~(event'[itr[c]] \subseteq arg[t].events)
    <3>1. CASE itr[c] = pos[t]
      BY <1>7, <2>2, <3>1 DEF ScanClear
    <3>2. CASE itr[c] # pos[t]
      BY <1>7, <2>2, <2>3, <3>2 DEF ScanClear, IteratorInv
    <3> QED
      BY <3>1, <3>2
  <2>4. \A c \in CecThreads : Running(c) <=> Running(c)'
    BY <1>7 DEF ScanClear
  <2> QED
    BY <1>7, <2>1, <2>3, <2>4 DEF ScanClear, IteratorInv, IteratorsValid
<1>8. ASSUME NEW t \in Threads, ScanErase(t)
      PROVE  IteratorInv'
  <2>1. gil = t /\ \A u \in Threads : pc[u] = "scan" => u = t
    BY <1>8 DEF ScanErase, LockHeldInLoops
  <2>2. pos[t] \in Node
    BY <1>8 DEF ScanErase
  <2>3. \A c \in CecThreads : Running(c) => itr[c] # pos[t]
    BY <1>8 DEF ScanErase, IteratorInv
  <2>4. \A c \in CecThreads : ~Running(c) => itr[c] = End
    BY <1>8, <2>1 DEF ScanErase, IteratorInv, LockHeldInLoops
  <2>5. IteratorsValid'
    BY <1>8, <2>3, <2>4 DEF ScanErase, IteratorInv, IteratorsValid
  <2>6. \A c \in CecThreads : Running(c) => event'[itr[c]] = event[itr[c]]
    BY <1>8, <2>2, <2>3 DEF ScanErase
  <2> QED
    BY <1>8, <2>1, <2>5, <2>6 DEF ScanErase, IteratorInv
<1>9. ASSUME NEW t \in Threads, ScanDone(t)
      PROVE  IteratorInv'
  BY <1>9 DEF ScanDone, IteratorInv, IteratorsValid
<1>10. ASSUME NEW c \in CecThreads, NEW e \in Events, Deliver(c, e)
      PROVE  IteratorInv'
  BY <1>10 DEF Deliver, IteratorInv, IteratorsValid
<1>11. ASSUME NEW c \in CecThreads, Ensure(c)
      PROVE  IteratorInv'
  BY <1>11, ListFacts DEF Ensure, Begin, IteratorInv, IteratorsValid
<1>12. ASSUME NEW c \in CecThreads, EnsureNoDispatch(c)
      PROVE  IteratorInv'
  BY <1>12 DEF EnsureNoDispatch, IteratorInv, IteratorsValid
<1>13. ASSUME NEW c \in CecThreads, LoopSkip(c)
      PROVE  IteratorInv'
  BY <1>13, ListFacts DEF LoopSkip, IteratorInv, IteratorsValid
<1>14. ASSUME NEW c \in CecThreads, Invoke(c)
      PROVE  IteratorInv'
  <2>1. \A u \in Threads : pc[u] # "scan"
    BY <1>14 DEF Invoke, LockHeldInLoops
  <2>2. \A u \in Threads : pc'[u] # "scan" /\ pc'[u] # "crashed"
    BY <1>14, <2>1 DEF Invoke, IteratorInv
  <2>3. IteratorsValid'
    BY <1>14 DEF Invoke, IteratorInv, IteratorsValid
  <2>4. \A d \in CecThreads :
          /\ pc'[d] \in {"native", "ensure"} => itr'[d] = End
          /\ Running(d)' => itr'[d] # End
    BY <1>14 DEF Invoke, IteratorInv
  <2> QED
    BY <2>2, <2>3, <2>4 DEF IteratorInv
<1>15. ASSUME NEW c \in CecThreads, LoopEnd(c)
      PROVE  IteratorInv'
  BY <1>15 DEF LoopEnd, IteratorInv, IteratorsValid
<1>16. ASSUME NEW c \in CecThreads, Release(c)
      PROVE  IteratorInv'
  BY <1>16 DEF Release, IteratorInv, IteratorsValid
<1>17. ASSUME NEW c \in CecThreads, HandlerReturns(c)
      PROVE  IteratorInv'
  BY <1>17, ListFacts DEF HandlerReturns, IteratorInv, IteratorsValid
<1>18. ASSUME NEW c \in CecThreads, HandlerReturnsDangling(c)
      PROVE  IteratorInv'
  BY <1>18 DEF HandlerReturnsDangling, IteratorInv, IteratorsValid
<1>19. ASSUME NEW c \in CecThreads, HandlerRaises(c)
      PROVE  IteratorInv'
  BY <1>19 DEF HandlerRaises, IteratorInv, IteratorsValid
<1> QED
  BY <1>1, <1>2, <1>3, <1>4, <1>5, <1>6, <1>7, <1>8, <1>9, <1>10, <1>11, <1>12, <1>13, <1>14, <1>15, <1>16, <1>17, <1>18, <1>19
     DEF Next, PythonStep, ScanStep, LoopStep, HandlerEnds

\* The second layer.
LEMMA IteratorInvariant == ASSUME ~SelfRemoval PROVE Spec => [](Base /\ IteratorInv)
<1>1. Init => Base /\ IteratorInv
  BY BaseInit, IteratorInit
<1>2. Base /\ IteratorInv /\ [Next]_vars => Base' /\ IteratorInv'
  BY TypeStep, LockStep, ShapeStep, RefsStep, IteratorStep DEF Base
<1> QED
  BY <1>1, <1>2, PTL DEF Spec

\* If no client empties the entry of a handler that is running, the iterator
\* that trigger_event keeps across a handler is always valid: adding handlers
\* and removing others during a dispatch is safe.
THEOREM IteratorsStayValid == ASSUME ~SelfRemoval PROVE Spec => []IteratorsValid
<1>1. IteratorInv => IteratorsValid
  BY DEF IteratorInv
<1> QED
  BY <1>1, IteratorInvariant, PTL

-----------------------------------------------------------------------------
(* The course of a dispatch.                                                *)

\* What the order of the nodes says about the iterator's next position.
LEMMA NextFacts ==
    ASSUME TypeOK
    PROVE  \A n \in Node \cup {End} :
              /\ Succ(callbacks, n) = End => \A m \in callbacks : m <= n
              /\ Succ(callbacks, n) # End =>
                    /\ n < Succ(callbacks, n)
                    /\ \A m \in callbacks : n < m => Succ(callbacks, n) <= m
<1>1. Node \cup {End} \subseteq Nat /\ callbacks \subseteq Node
  BY ListFacts DEF TypeOK
<1> QED
  BY <1>1, SuccIsNext

\* The order of the numbers of nodes.
LEMMA NatOrder == \A i, j \in Nat : (i <= j => i < j \/ i = j) /\ (i < j => ~(j <= i))
  OBVIOUS

\* Node n is behind the iterator of c: ++ has passed it, or, while c runs a
\* handler, it is the node of that handler.
Behind(c, n) ==
    \/ itr[c] = End
    \/ n < itr[c]
    \/ Running(c) /\ n = itr[c]

\* The entries called are behind the iterator, and those behind it that match
\* the event have been called.
InOrder(c) ==
    (pc[c] = "loop" \/ Running(c)) =>
        /\ Running(c) => itr[c] # End
        /\ \A n \in called[c] : Behind(c, n)
        /\ \A n \in callbacks :
              (Behind(c, n) /\ trig[c] \in event[n]) => n \in called[c]

DispatchInv == \A c \in CecThreads : InOrder(c)

\* No dispatch has begun at first.
LEMMA DispatchInit == Init => DispatchInv
BY DEF Init, DispatchInv, InOrder, Running, Threads

\* Whatever a step adds is ahead of every dispatch, and a dispatch passes an entry
\* only after it called it or found that it does not match.
LEMMA DispatchStep ==
    ASSUME ~SelfRemoval, Base, IteratorInv, DispatchInv, [Next]_vars
    PROVE  DispatchInv'
<1> USE DEF Base, TypeOK, Threads, vars, registry, dispatch, removal, GoTo, Running
<1>0. Node \subseteq Nat /\ End \in Nat /\ End \notin Node
  BY ListFacts
<1>1. CASE UNCHANGED vars
  BY <1>1 DEF DispatchInv, InOrder, Behind
<1>2. ASSUME NEW t \in Threads, TakeGil(t)
      PROVE  DispatchInv'
  BY <1>2 DEF TakeGil, DispatchInv, InOrder, Behind
<1>3. ASSUME NEW t \in Threads, DropGil(t)
      PROVE  DispatchInv'
  BY <1>3 DEF DropGil, DispatchInv, InOrder, Behind
<1>4. ASSUME NEW t \in Threads, NEW h \in Handlers, NEW events \in SUBSET Events,
                 AddCallback(t, h, events)
      PROVE  DispatchInv'
  <2>1. /\ fresh \in Node /\ fresh \notin callbacks
        /\ \A c \in CecThreads : itr[c] # End => itr[c] < fresh
    BY <1>4, <1>0, ConstantsAssumption DEF AddCallback, Node, Shape, IteratorInv, IteratorsValid
  <2>2. ASSUME NEW c \in CecThreads, pc[c] = "loop" \/ Running(c)
        PROVE  /\ gil # c \/ Running(c)
               /\ Running(c) => itr[c] # End
               /\ itr[c] # End => ~Behind(c, fresh)
               /\ \A n \in called[c] : Behind(c, n)
               /\ \A n \in callbacks :
                     (Behind(c, n) /\ trig[c] \in event[n]) => n \in called[c]
    <3>1. gil # c \/ Running(c)
      BY <1>4, <2>2 DEF AddCallback
    <3>2. itr[c] # End => ~Behind(c, fresh)
      <4>1. itr[c] \in Nat /\ fresh \in Nat
        BY <1>0, <2>1
      <4>2. itr[c] # End => itr[c] < fresh
        BY <2>1
      <4> QED
        BY <4>1, <4>2 DEF Behind
    <3> QED
      BY <2>2, <3>1, <3>2 DEF DispatchInv, InOrder
  <2>3. \A c \in CecThreads : pc[c] # "loop"
    BY <1>4 DEF AddCallback, LockHeldInLoops
  <2>4. \A c \in CecThreads, n \in Node : Behind(c, n)' <=> Behind(c, n)
    BY <1>4 DEF AddCallback, Behind
  <2>5. ASSUME NEW c \in CecThreads
        PROVE  InOrder(c)'
    BY <1>4, <2>1, <2>2, <2>3, <2>4 DEF AddCallback, InOrder
  <2> QED
    BY <2>5 DEF DispatchInv
<1>5. ASSUME NEW t \in Threads, NEW h \in Handlers, NEW events \in SUBSET Events,
                 RemoveCallback(t, h, events)
      PROVE  DispatchInv'
  BY <1>5 DEF RemoveCallback, DispatchInv, InOrder, Behind
<1>6. ASSUME NEW t \in Threads, ScanOther(t)
      PROVE  DispatchInv'
  BY <1>6 DEF ScanOther, DispatchInv, InOrder, Behind
<1>7. ASSUME NEW t \in Threads, ScanClear(t)
      PROVE  DispatchInv'
  BY <1>7 DEF ScanClear, DispatchInv, InOrder, Behind
<1>8. ASSUME NEW t \in Threads, ScanErase(t)
      PROVE  DispatchInv'
  BY <1>8 DEF ScanErase, DispatchInv, InOrder, Behind
<1>9. ASSUME NEW t \in Threads, ScanDone(t)
      PROVE  DispatchInv'
  BY <1>9 DEF ScanDone, DispatchInv, InOrder, Behind
<1>10. ASSUME NEW c \in CecThreads, NEW e \in Events, Deliver(c, e)
      PROVE  DispatchInv'
  BY <1>10 DEF Deliver, DispatchInv, InOrder, Behind
<1>11. ASSUME NEW c \in CecThreads, Ensure(c)
      PROVE  DispatchInv'
  <2>1. \A d \in CecThreads \ {c} : InOrder(d)'
    BY <1>11 DEF Ensure, DispatchInv, InOrder, Behind
  <2> DEFINE first == Succ(callbacks, End)
  <2>2. \A n \in callbacks : first # End /\ first <= n
    BY <1>0, ListFacts, NextFacts DEF End
  <2>3. itr'[c] = first /\ called'[c] = {} /\ pc'[c] = "loop" /\ callbacks' = callbacks
    BY <1>11 DEF Ensure, Begin
  <2>4. first \in Nat
    BY <1>0, ListFacts
  <2>5. InOrder(c)'
    BY <1>0, <2>2, <2>3, <2>4 DEF InOrder, Behind
  <2> QED
    BY <2>1, <2>5 DEF DispatchInv
<1>12. ASSUME NEW c \in CecThreads, EnsureNoDispatch(c)
      PROVE  DispatchInv'
  BY <1>12 DEF EnsureNoDispatch, DispatchInv, InOrder, Behind
<1>13. ASSUME NEW c \in CecThreads, LoopSkip(c)
      PROVE  DispatchInv'
  <2>1. \A d \in CecThreads \ {c} : InOrder(d)'
    BY <1>13 DEF LoopSkip, DispatchInv, InOrder, Behind
  <2> DEFINE next == Succ(callbacks, itr[c])
  <2>2. /\ next \in Nat /\ itr[c] \in Nat
        /\ next = End => \A m \in callbacks : m <= itr[c]
        /\ next # End => /\ itr[c] < next
                         /\ \A m \in callbacks : itr[c] < m => next <= m
    BY <1>0, ListFacts, NextFacts
  <2>3. /\ InOrder(c) /\ pc[c] = "loop" /\ itr[c] # End /\ trig[c] \notin event[itr[c]]
        /\ called[c] \subseteq Nat /\ callbacks \subseteq Nat
    BY <1>13, <1>0 DEF LoopSkip, DispatchInv
  <2>4. /\ itr'[c] = next /\ pc'[c] = "loop"
        /\ UNCHANGED <<callbacks, called, trig, event>>
    BY <1>13 DEF LoopSkip
  <2>5. InOrder(c)'
    <3>1. \A n \in called[c] : n < itr[c]
      BY <2>3 DEF InOrder, Behind
    <3>2. \A n \in called[c] : next = End \/ n < next
      BY <2>2, <2>3, <3>1
    <3>3. \A n \in callbacks : (next = End \/ n < next) => n <= itr[c]
      BY <2>2, <2>3
    <3>4. ASSUME NEW n \in callbacks, next = End \/ n < next, trig[c] \in event[n]
          PROVE  n \in called[c]
      <4>1. n # itr[c]
        BY <2>3, <3>4
      <4>2. n <= itr[c]
        BY <3>3, <3>4
      <4>3. n \in Nat /\ itr[c] \in Nat
        BY <2>2, <2>3, <3>4
      <4>4. n < itr[c]
        BY <4>1, <4>2, <4>3, NatOrder, Zenon
      <4> QED
        BY <2>3, <3>4, <4>4 DEF InOrder, Behind
    <3> QED
      BY <2>4, <3>2, <3>4 DEF InOrder, Behind
  <2> QED
    BY <2>1, <2>5 DEF DispatchInv
<1>14. ASSUME NEW c \in CecThreads, Invoke(c)
      PROVE  DispatchInv'
  BY <1>14, <1>0 DEF Invoke, DispatchInv, InOrder, Behind
<1>15. ASSUME NEW c \in CecThreads, LoopEnd(c)
      PROVE  DispatchInv'
  BY <1>15 DEF LoopEnd, DispatchInv, InOrder, Behind
<1>16. ASSUME NEW c \in CecThreads, Release(c)
      PROVE  DispatchInv'
  BY <1>16 DEF Release, DispatchInv, InOrder, Behind
<1>17. ASSUME NEW c \in CecThreads, HandlerReturns(c)
      PROVE  DispatchInv'
  <2>1. \A d \in CecThreads \ {c} : InOrder(d)'
    BY <1>17 DEF HandlerReturns, DispatchInv, InOrder, Behind
  <2> DEFINE next == Succ(callbacks, itr[c])
  <2>2. /\ next \in Nat /\ itr[c] \in Nat
        /\ next = End => \A m \in callbacks : m <= itr[c]
        /\ next # End => /\ itr[c] < next
                         /\ \A m \in callbacks : itr[c] < m => next <= m
    BY <1>0, ListFacts, NextFacts
  <2>3. /\ InOrder(c) /\ Running(c)
        /\ called[c] \subseteq Nat /\ callbacks \subseteq Nat
    BY <1>17, <1>0 DEF HandlerReturns, DispatchInv
  <2>4. /\ itr'[c] = next /\ pc'[c] = "loop"
        /\ UNCHANGED <<callbacks, called, trig, event>>
    BY <1>17 DEF HandlerReturns
  <2>5. InOrder(c)'
    <3>1. itr[c] # End /\ \A n \in called[c] : n <= itr[c]
      BY <2>2, <2>3 DEF InOrder, Behind
    <3>2. \A n \in called[c] : next = End \/ n < next
      BY <2>2, <2>3, <3>1
    <3>3. \A n \in callbacks : (next = End \/ n < next) => n <= itr[c]
      BY <2>2, <2>3
    <3>4. ASSUME NEW n \in callbacks, next = End \/ n < next, trig[c] \in event[n]
          PROVE  n \in called[c]
      <4>1. n <= itr[c]
        BY <3>3, <3>4
      <4>2. n \in Nat /\ itr[c] \in Nat
        BY <2>2, <2>3, <3>4
      <4>3. n < itr[c] \/ n = itr[c]
        BY <4>1, <4>2, NatOrder, Zenon
      <4> QED
        BY <2>3, <3>4, <4>3 DEF InOrder, Behind
    <3> QED
      BY <2>4, <3>2, <3>4 DEF InOrder, Behind
  <2> QED
    BY <2>1, <2>5 DEF DispatchInv
<1>18. ASSUME NEW c \in CecThreads, HandlerReturnsDangling(c)
      PROVE  DispatchInv'
  BY <1>18 DEF HandlerReturnsDangling, IteratorInv, IteratorsValid
<1>19. ASSUME NEW c \in CecThreads, HandlerRaises(c)
      PROVE  DispatchInv'
  BY <1>19 DEF HandlerRaises, DispatchInv, InOrder, Behind
<1> QED
  BY <1>1, <1>2, <1>3, <1>4, <1>5, <1>6, <1>7, <1>8, <1>9, <1>10, <1>11, <1>12, <1>13, <1>14, <1>15, <1>16, <1>17, <1>18, <1>19
     DEF Next, PythonStep, ScanStep, LoopStep, HandlerEnds

\* The third layer.
LEMMA DispatchInvariant ==
    ASSUME ~SelfRemoval
    PROVE  Spec => [](Base /\ IteratorInv /\ DispatchInv)
<1>1. Init => Base /\ IteratorInv /\ DispatchInv
  BY BaseInit, IteratorInit, DispatchInit
<1>2. Base /\ IteratorInv /\ DispatchInv /\ [Next]_vars
      => Base' /\ IteratorInv' /\ DispatchInv'
  BY TypeStep, LockStep, ShapeStep, RefsStep, IteratorStep, DispatchStep DEF Base
<1> QED
  BY <1>1, <1>2, PTL DEF Spec

\* No dispatch that runs to its end misses a handler, whichever entries other
\* threads and the handlers themselves added or removed meanwhile.
THEOREM AllHandlersCalled == ASSUME ~SelfRemoval PROVE Spec => []NoHandlerMissed
<1>1. DispatchInv => NoHandlerMissed
  BY DEF DispatchInv, InOrder, NoHandlerMissed, Behind
<1> QED
  BY <1>1, DispatchInvariant, PTL

\* No dispatch calls an entry twice.
THEOREM HandlersCalledOnce == ASSUME ~SelfRemoval PROVE Spec => AtMostOnce
<1>1. Base /\ DispatchInv => \A c \in CecThreads : pc[c] = "loop" => itr[c] \notin called[c]
  BY ListFacts DEF Base, TypeOK, DispatchInv, InOrder, Behind, Running
<1>2. Base /\ DispatchInv /\ [Next]_vars =>
        [\A c \in CecThreads :
            (pc[c] = "loop" /\ pc'[c] = "python") => itr[c] \notin called[c]]_vars
  BY <1>1
<1> QED
  BY <1>2, DispatchInvariant, PTL DEF AtMostOnce, Spec

-----------------------------------------------------------------------------
(* Removal.                                                                 *)

\* Every handler is one callable and is registered once.
OneObjectPerCallable ==
    \A g, h \in Handlers : CallableOf[g] = CallableOf[h] => g = h

\* A handler has one entry; while remove_callback runs, an entry of its
\* handler that still has one of its events lies ahead of its iterator.
RemovalInv ==
    /\ \A m, n \in callbacks : cb[m] = cb[n] => m = n
    /\ \A t \in Threads : pc[t] = "scan" =>
          \A n \in callbacks :
              (cb[n] = arg[t].cb /\ event[n] \cap arg[t].events # {}) =>
                  pos[t] # End /\ pos[t] <= n

\* No removal has begun at first.
LEMMA RemovalInit == Init => RemovalInv
BY DEF Init, RemovalInv

\* remove_callback passes an entry of its handler only without its events.
LEMMA RemovalStep ==
    ASSUME ~Duplicates, Base, RemovalInv, [Next]_vars
    PROVE  RemovalInv'
<1> USE DEF Base, TypeOK, Threads, vars, registry, dispatch, removal, GoTo
<1>0. callbacks \subseteq Nat /\ End \in Nat /\ End \notin callbacks
  BY ListFacts
<1>1. CASE UNCHANGED vars
  BY <1>1 DEF RemovalInv
<1>2. ASSUME NEW t \in Threads, TakeGil(t)
      PROVE  RemovalInv'
  BY <1>2 DEF TakeGil, RemovalInv
<1>3. ASSUME NEW t \in Threads, DropGil(t)
      PROVE  RemovalInv'
  BY <1>3 DEF DropGil, RemovalInv
<1>4. ASSUME NEW t \in Threads, NEW h \in Handlers, NEW events \in SUBSET Events,
                 AddCallback(t, h, events)
      PROVE  RemovalInv'
  <2>1. \A u \in Threads : pc[u] # "scan"
    BY <1>4 DEF AddCallback, LockHeldInLoops
  <2>2. fresh \in Node /\ fresh \notin callbacks
    BY <1>4, ConstantsAssumption DEF AddCallback, Node, Shape
  <2>3. \A m \in callbacks : cb'[m] = cb[m] /\ cb[m] # h
    BY <1>4, <2>2 DEF AddCallback
  <2>4. cb'[fresh] = h /\ callbacks' = callbacks \cup {fresh}
    BY <1>4, <2>2 DEF AddCallback
  <2>5. \A m, n \in callbacks' : cb'[m] = cb'[n] => m = n
    BY <2>3, <2>4 DEF RemovalInv
  <2> QED
    BY <1>4, <2>1, <2>5 DEF AddCallback, RemovalInv
<1>5. ASSUME NEW t \in Threads, NEW h \in Handlers, NEW events \in SUBSET Events,
                 RemoveCallback(t, h, events)
      PROVE  RemovalInv'
  <2>1. \A u \in Threads : pc[u] = "scan" => u = t
    BY <1>5 DEF RemoveCallback, LockHeldInLoops
  <2>2. \A n \in callbacks : Begin(callbacks) # End /\ Begin(callbacks) <= n
    BY <1>0, ListFacts, NextFacts DEF Begin, End
  <2>3. pos'[t] = Begin(callbacks)
    BY <1>5 DEF RemoveCallback
  <2> QED
    BY <1>5, <2>1, <2>2, <2>3 DEF RemoveCallback, RemovalInv
<1>6. ASSUME NEW t \in Threads, ScanOther(t)
      PROVE  RemovalInv'
  <2>1. gil = t /\ \A u \in Threads : pc[u] = "scan" => u = t
    BY <1>6 DEF ScanOther, LockHeldInLoops
  <2>2. pos[t] \in callbacks
    BY <1>6 DEF ScanOther, Shape
  <2>3. ASSUME NEW n \in callbacks, cb[n] = arg[t].cb, event[n] \cap arg[t].events # {}
        PROVE  pos'[t] # End /\ pos'[t] <= n
    <3>1. pos[t] < n
      <4>1. pos[t] <= n /\ pos[t] # n
        BY <1>6, <2>3 DEF ScanOther, RemovalInv
      <4>2. pos[t] \in Nat /\ n \in Nat
        BY <1>0, <2>2
      <4> QED
        BY <4>1, <4>2, NatOrder, Zenon
    <3>2. pos'[t] = Succ(callbacks, pos[t])
      BY <1>6 DEF ScanOther
    <3>3. Succ(callbacks, pos[t]) # End
      <4>1. ~(n <= pos[t])
        BY <1>0, <2>2, <3>1, NatOrder, Zenon
      <4> QED
        BY <2>2, <4>1, NextFacts
    <3> QED
      BY <2>2, <3>1, <3>2, <3>3, NextFacts
  <2> QED
    BY <1>6, <2>1, <2>3 DEF ScanOther, RemovalInv
<1>7. ASSUME NEW t \in Threads, ScanClear(t)
      PROVE  RemovalInv'
  <2>1. gil = t /\ \A u \in Threads : pc[u] = "scan" => u = t
    BY <1>7 DEF ScanClear, LockHeldInLoops
  <2>2. pos[t] \in callbacks
    BY <1>7 DEF ScanClear, Shape
  <2>3. \A n \in callbacks : cb[n] = arg[t].cb => n = pos[t]
    BY <1>7, <2>2 DEF ScanClear, RemovalInv
  <2>4. event'[pos[t]] \cap arg[t].events = {}
    BY <1>7, <2>2 DEF ScanClear
  <2> QED
    BY <1>7, <2>1, <2>3, <2>4 DEF ScanClear, RemovalInv
<1>8. ASSUME NEW t \in Threads, ScanErase(t)
      PROVE  RemovalInv'
  <2>1. gil = t /\ \A u \in Threads : pc[u] = "scan" => u = t
    BY <1>8 DEF ScanErase, LockHeldInLoops
  <2>2. pos[t] \in callbacks
    BY <1>8 DEF ScanErase, Shape
  <2>3. \A n \in callbacks \ {pos[t]} : cb[n] # arg[t].cb
    BY <1>8, <2>2 DEF ScanErase, RemovalInv
  <2> QED
    BY <1>8, <2>1, <2>3 DEF ScanErase, RemovalInv
<1>9. ASSUME NEW t \in Threads, ScanDone(t)
      PROVE  RemovalInv'
  BY <1>9 DEF ScanDone, RemovalInv
<1>10. ASSUME NEW c \in CecThreads, NEW e \in Events, Deliver(c, e)
      PROVE  RemovalInv'
  BY <1>10 DEF Deliver, RemovalInv
<1>11. ASSUME NEW c \in CecThreads, Ensure(c)
      PROVE  RemovalInv'
  BY <1>11 DEF Ensure, RemovalInv
<1>12. ASSUME NEW c \in CecThreads, EnsureNoDispatch(c)
      PROVE  RemovalInv'
  BY <1>12 DEF EnsureNoDispatch, RemovalInv
<1>13. ASSUME NEW c \in CecThreads, LoopSkip(c)
      PROVE  RemovalInv'
  BY <1>13 DEF LoopSkip, RemovalInv
<1>14. ASSUME NEW c \in CecThreads, Invoke(c)
      PROVE  RemovalInv'
  BY <1>14 DEF Invoke, RemovalInv
<1>15. ASSUME NEW c \in CecThreads, LoopEnd(c)
      PROVE  RemovalInv'
  BY <1>15 DEF LoopEnd, RemovalInv
<1>16. ASSUME NEW c \in CecThreads, Release(c)
      PROVE  RemovalInv'
  BY <1>16 DEF Release, RemovalInv
<1>17. ASSUME NEW c \in CecThreads, HandlerReturns(c)
      PROVE  RemovalInv'
  BY <1>17 DEF HandlerReturns, RemovalInv
<1>18. ASSUME NEW c \in CecThreads, HandlerReturnsDangling(c)
      PROVE  RemovalInv'
  BY <1>18 DEF HandlerReturnsDangling, RemovalInv
<1>19. ASSUME NEW c \in CecThreads, HandlerRaises(c)
      PROVE  RemovalInv'
  BY <1>19 DEF HandlerRaises, RemovalInv
<1> QED
  BY <1>1, <1>2, <1>3, <1>4, <1>5, <1>6, <1>7, <1>8, <1>9, <1>10, <1>11, <1>12, <1>13, <1>14, <1>15, <1>16, <1>17, <1>18, <1>19
     DEF Next, PythonStep, ScanStep, LoopStep, HandlerEnds

\* The fourth layer.
LEMMA RemovalInvariant == ASSUME ~Duplicates PROVE Spec => [](Base /\ RemovalInv)
<1>1. Init => Base /\ RemovalInv
  BY BaseInit, RemovalInit
<1>2. Base /\ RemovalInv /\ [Next]_vars => Base' /\ RemovalInv'
  BY TypeStep, LockStep, ShapeStep, RefsStep, RemovalStep DEF Base
<1> QED
  BY <1>1, <1>2, PTL DEF Spec

\* For a client that registers a handler once and never names one callable by
\* two objects, remove_callback leaves no event that it was given behind,
\* although erase and ++ together step over the node after the erased one.
THEOREM RemovalIsEffective ==
    ASSUME ~Duplicates, OneObjectPerCallable
    PROVE  Spec => []RemovalTakesEffect
<1>1. Base /\ RemovalInv => RemovalTakesEffect
  BY DEF Base, Shape, RemovalInv, RemovalTakesEffect, OneObjectPerCallable
<1> QED
  BY <1>1, RemovalInvariant, PTL

=============================================================================
