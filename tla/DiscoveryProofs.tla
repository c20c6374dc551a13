--------------------------- MODULE DiscoveryProofs ---------------------------
(***************************************************************************)
(* Proofs about Discovery: for any number of threads and of adapters, and  *)
(* any size of the first buffer, however adapters are plugged in and out,  *)
(* get_adapters lists only adapters that were there, lists the ones that   *)
(* stayed, and no instance of libcec is left behind.                       *)
(*                                                                         *)
(* The invariant follows one call: what libcec has written against what it *)
(* counted (BufferInv), what was copied (FoundInv), and both against the   *)
(* adapters that came and went during the call (HistoryInv).               *)
(***************************************************************************)
EXTENDS Discovery, FiniteSetTheorems, SequenceTheorems, TLAPS

Places ==
    {"python", "initialise", "detect", "again", "copy", "destroy", "listed", "choose",
     "record", "open", "created", "dealloc", "failed"}

Devices == Names \cup {Garbage, None}

\* The types of the variables, with the domains of the functions.
Shapes ==
    /\ attached \subseteq Names
    /\ pc \in [Threads -> Places]
    /\ kind \in [Threads -> Kinds]
    /\ instance \in [Threads -> BOOLEAN]
    /\ buffer \in [Threads -> Seq(Names)]
    /\ count \in [Threads -> -1..Cardinality(Names)]
    /\ found \in [Threads -> Seq(Names)]
    /\ dev \in [Threads -> Devices]
    /\ freed \in [Threads -> BOOLEAN]
    /\ recorded \in [Threads -> Devices]
    /\ opened \in [Threads -> Devices]
    /\ during \in [Threads -> SUBSET Names]
    /\ throughout \in [Threads -> SUBSET Names]
    /\ plugged \in [Threads -> BOOLEAN]

\* What a call knows of the adapters.
HistoryInv(t) ==
    /\ throughout[t] \subseteq attached
    /\ Active(t) => attached \subseteq during[t]
    /\ ~Active(t) => /\ buffer[t] = <<>> /\ found[t] = <<>> /\ throughout[t] = {}
                     /\ during[t] = {} /\ ~plugged[t]
    /\ pc[t] \in {"python", "initialise", "listed", "failed"} => ~instance[t]

\* The buffer against the count: the first detection found more than fits, or
\* the buffer holds as many as were counted, and the ones that stayed.
BufferInv(t) ==
    /\ Range(buffer[t]) \subseteq during[t]
    /\ pc[t] = "again" => /\ count[t] > InitialCount
                          /\ ~plugged[t] => Cardinality(attached) <= count[t]
    /\ pc[t] = "copy" => /\ count[t] <= Len(buffer[t])
                         /\ (count[t] >= 0 /\ ~plugged[t]) =>
                               /\ Len(buffer[t]) = count[t]
                               /\ throughout[t] \subseteq Range(buffer[t])

\* The list that was copied.
FoundInv(t) ==
    /\ Range(found[t]) \subseteq during[t]
    /\ (/\ pc[t] \in {"destroy", "choose", "listed"}
        /\ count[t] >= 0 /\ ~plugged[t]) => throughout[t] \subseteq Range(found[t])

DiscInv ==
    /\ Shapes
    /\ \A t \in Threads : HistoryInv(t) /\ BufferInv(t) /\ FoundInv(t)


-----------------------------------------------------------------------------
(* What DetectAdapters writes and returns.                                  *)

\* The smaller of two numbers.
LEMMA MinOfTwo ==
    ASSUME NEW a \in Int, NEW b \in Int
    PROVE  Min({a, b}) = IF a <= b THEN a ELSE b
<1>1. CASE a <= b
   <2>1. Min({a, b}) \in {a, b} /\ \A y \in {a, b} : Min({a, b}) <= y
      <3>1. \E x \in {a, b} : \A y \in {a, b} : x <= y   BY <1>1
      <3> QED  BY <3>1, Zenon DEF Min
   <2> QED  BY <1>1, <2>1
<1>2. CASE ~(a <= b)
   <2>1. Min({a, b}) \in {a, b} /\ \A y \in {a, b} : Min({a, b}) <= y
      <3>1. \E x \in {a, b} : \A y \in {a, b} : x <= y   BY <1>2
      <3> QED  BY <3>1, Zenon DEF Min
   <2> QED  BY <1>2, <2>1
<1> QED  BY <1>1, <1>2

\* There are finitely many adapters, attached or not.
LEMMA FiniteAttached ==
    ASSUME NEW S \in SUBSET Names
    PROVE  /\ IsFiniteSet(S)
           /\ Cardinality(S) \in Nat
           /\ Cardinality(S) <= Cardinality(Names)
           /\ Cardinality(Names) \in Nat
<1>1. IsFiniteSet(Names)   BY ConstantsAssumption
<1>2. IsFiniteSet(S) /\ Cardinality(S) <= Cardinality(Names)   BY <1>1, FS_Subset
<1> QED  BY <1>1, <1>2, FS_CardinalityType

\* A sequence of the attached adapters, each once, has all of them.
LEMMA Arrangement ==
    ASSUME NEW S \in SUBSET Names, NEW s \in SetToSeqs(S)
    PROVE  /\ s \in Seq(S)
           /\ Len(s) = Cardinality(S)
           /\ Range(s) = S
<1> DEFINE n == Cardinality(S)
<1>1. IsFiniteSet(S) /\ n \in Nat   BY FiniteAttached
<1>2. /\ s \in [1..n -> S]
      /\ \A i, j \in 1..n : i # j => s[i] # s[j]
   BY Zenon DEF SetToSeqs
<1>3. s \in Seq(S) /\ Len(s) = n /\ DOMAIN s = 1..n   BY <1>1, <1>2
<1>4. s \in Injection(1..n, S)
   <2>1. IsInjective(s)   BY <1>2, <1>3, Zenon DEF IsInjective
   <2> QED  BY <1>2, <2>1, Zenon DEF Injection
<1>5. IsFiniteSet(1..n) /\ Cardinality(1..n) = n
   <2>1. 0 \in Int /\ 1 \in Int /\ n \in Int   BY <1>1
   <2>2. /\ IsFiniteSet(1..n)
         /\ Cardinality(1..n) = IF 1 > n THEN 0 ELSE n - 1 + 1
      BY <2>1, FS_Interval
   <2> HIDE DEF n
   <2> QED  BY <1>1, <2>2
<1>6. s \in Surjection(1..n, S)   BY <1>1, <1>4, <1>5, FS_Injection
<1>7. \A x \in S : \E i \in 1..n : s[i] = x   BY <1>6, Zenon DEF Surjection
<1>8. Range(s) = S   BY <1>2, <1>3, <1>7, Zenon DEF Range
<1> QED  BY <1>3, <1>8

\* What a detection says: how many there are, or -1; and as many of them as fit
\* are in the buffer.
LEMMA DetectionFacts ==
    ASSUME attached \subseteq Names, NEW size \in Nat, NEW d \in Detections(size)
    PROVE  /\ d.count \in -1..Cardinality(Names)
           /\ d.written \in Seq(Names)
           /\ Range(d.written) \subseteq attached
           /\ d.count # -1 => /\ d.count = Cardinality(attached)
                              /\ Len(d.written) = IF size <= d.count THEN size ELSE d.count
                              /\ d.count <= size => Range(d.written) = attached
<1> DEFINE n == Cardinality(attached)
           m == Cardinality(Names)
<1>1. n \in Nat /\ m \in Nat /\ n <= m   BY FiniteAttached
<1>2. CASE d = [count |-> -1, written |-> <<>>]
   <2>1. d.count = -1 /\ d.written = <<>>   BY <1>2
   <2>2. Range(d.written) = {}   BY <2>1 DEF Range
   <2> HIDE DEF m, n
   <2>3. d.count \in -1..m   BY <1>1, <2>1
   <2>4. d.written \in Seq(Names)   BY <2>1
   <2> QED  BY <2>1, <2>2, <2>3, <2>4 DEF m
<1>3. ASSUME NEW s \in SetToSeqs(attached),
             d = [count |-> n, written |-> SubSeq(s, 1, Min({size, n}))]
      PROVE  /\ d.count \in -1..m
             /\ d.written \in Seq(Names)
             /\ Range(d.written) \subseteq attached
             /\ d.count # -1 => /\ d.count = n
                                /\ Len(d.written) = IF size <= d.count THEN size ELSE d.count
                                /\ d.count <= size => Range(d.written) = attached
   <2>1. s \in Seq(attached) /\ Len(s) = n /\ Range(s) = attached   BY Arrangement
   <2> DEFINE k == IF size <= n THEN size ELSE n
   <2>2. Min({size, n}) = k   BY <1>1, MinOfTwo
   <2>3. d.count = n /\ d.written = SubSeq(s, 1, k)   BY <1>3, <2>2
   <2> HIDE DEF n, m
   <2>4. k \in 0..n   BY <1>1
   <2>5. d.count \in -1..m   BY <1>1, <2>3
   <2>6. /\ d.written \in Seq(attached)
         /\ Len(d.written) = k
         /\ \A i \in 1..k : d.written[i] = s[i]
      <3> HIDE DEF k
      <3> QED  BY <1>1, <2>1, <2>3, <2>4
   <2>7. d.written \in Seq(Names) /\ Range(d.written) \subseteq attached
      <3>1. \A i \in 1..k : d.written[i] \in attached   BY <2>6
      <3>2. DOMAIN d.written = 1..k   BY <2>6
      <3> QED  BY <2>6, <3>1, <3>2 DEF Range
   <2>8. ASSUME d.count <= size   PROVE Range(d.written) = attached
      <3>1. k = n   BY <1>1, <2>3, <2>8
      <3>2. DOMAIN d.written = 1..n /\ DOMAIN s = 1..n   BY <2>1, <2>6, <3>1
      <3>3. \A i \in 1..n : d.written[i] = s[i]   BY <2>6, <3>1
      <3> QED  BY <2>1, <3>2, <3>3, Zenon DEF Range
   <2> QED  BY <2>3, <2>5, <2>6, <2>7, <2>8
<1>4. \/ d = [count |-> -1, written |-> <<>>]
      \/ \E s \in SetToSeqs(attached) :
            d = [count |-> n, written |-> SubSeq(s, 1, Min({size, n}))]
   BY Zenon DEF Detections
<1> QED  BY <1>2, <1>3, <1>4


-----------------------------------------------------------------------------
(* Every step keeps the invariant.                                          *)

CallInv(t) == HistoryInv(t) /\ BufferInv(t) /\ FoundInv(t)

\* What the call of another thread goes by stays as it is.
Untouched(u) ==
    /\ pc'[u] = pc[u] /\ instance'[u] = instance[u]
    /\ buffer'[u] = buffer[u] /\ count'[u] = count[u] /\ found'[u] = found[u]
    /\ during'[u] = during[u] /\ throughout'[u] = throughout[u]
    /\ plugged'[u] = plugged[u]

\* ... and so its part of the invariant holds again.
LEMMA Elsewhere ==
    ASSUME NEW u, CallInv(u), Untouched(u), attached' = attached
    PROVE  CallInv(u)'
BY DEF CallInv, Untouched, HistoryInv, BufferInv, FoundInv, Active

\* The steps of one call, and of the threads that reuse memory.
LEMMA CallStep ==
    ASSUME DiscInv, NEW t \in Threads,
           \/ \E k \in Kinds : Begin(t, k)
           \/ Call(t) \/ Reuse(t) \/ Forget(t)
    PROVE  DiscInv'
<1> USE DEF Shapes, Places, Devices
<1>0. Shapes /\ CallInv(t) /\ \A u \in Threads : CallInv(u)   BY DEF DiscInv, CallInv
<1>f. InitialCount \in Nat \ {0}   BY ConstantsAssumption
<1>n. Cardinality(Names) \in Nat /\ Cardinality(attached) \in Nat
   <2>1. attached \in SUBSET Names   BY <1>0
   <2> QED  BY <2>1, FiniteAttached
<1>g. ASSUME Shapes', CallInv(t)', attached' = attached,
             \A u \in Threads \ {t} : Untouched(u)
      PROVE  DiscInv'
   <2>1. \A u \in Threads \ {t} : CallInv(u)'   BY <1>0, <1>g, Elsewhere
   <2> QED  BY <1>g, <2>1 DEF DiscInv, CallInv
<1>1. ASSUME NEW k \in Kinds, Begin(t, k)   PROVE DiscInv'
   <2> USE <1>1 DEF Begin, GoTo, memory, device
   <2>1. Shapes'   BY <1>0
   <2>2. CallInv(t)'
      <3>1. Range(<<>>) = {}   BY DEF Range
      <3> QED  BY <1>0, <3>1 DEF CallInv, HistoryInv, BufferInv, FoundInv, Active
   <2>3. \A u \in Threads \ {t} : Untouched(u)   BY <1>0 DEF Untouched
   <2> QED  BY <1>g, <2>1, <2>2, <2>3
<1>2. CASE Initialise(t)
   <2> USE <1>2 DEF Initialise, GoTo, memory, history
   <2>1. Shapes'   BY <1>0
   <2>2. CallInv(t)'
      BY <1>0 DEF CallInv, HistoryInv, BufferInv, FoundInv, Active
   <2>3. \A u \in Threads \ {t} : Untouched(u)   BY <1>0 DEF Untouched
   <2> QED  BY <1>g, <2>1, <2>2, <2>3
<1>3. CASE InitialiseFails(t)
   <2> USE <1>3 DEF InitialiseFails, GoTo, memory, device, history
   <2>1. Shapes'   BY <1>0
   <2>2. CallInv(t)'
      BY <1>0 DEF CallInv, HistoryInv, BufferInv, FoundInv, Active
   <2>3. \A u \in Threads \ {t} : Untouched(u)   BY <1>0 DEF Untouched
   <2> QED  BY <1>g, <2>1, <2>2, <2>3
<1>4. CASE Detect(t)
   <2> USE <1>4 DEF Detect, GoTo, device, history
   <2>1. PICK d \in Detections(InitialCount) :
            /\ buffer' = [buffer EXCEPT ![t] = d.written]
            /\ count' = [count EXCEPT ![t] = d.count]
            /\ pc' = [pc EXCEPT ![t] = IF d.count > InitialCount THEN "again" ELSE "copy"]
      OBVIOUS
   <2>2. /\ d.count \in -1..Cardinality(Names)
         /\ d.written \in Seq(Names)
         /\ Range(d.written) \subseteq attached
         /\ d.count # -1 => /\ d.count = Cardinality(attached)
                            /\ Len(d.written) =
                                 IF InitialCount <= d.count THEN InitialCount ELSE d.count
                            /\ d.count <= InitialCount => Range(d.written) = attached
      BY <1>0, <1>f, DetectionFacts
   <2>3. Shapes'   BY <1>0, <2>1, <2>2
   <2>4. HistoryInv(t)'   BY <1>0, <2>1 DEF CallInv, HistoryInv, Active
   <2>5. BufferInv(t)'
      <3>1. Range(buffer'[t]) \subseteq during'[t]
         BY <1>0, <2>1, <2>2 DEF CallInv, HistoryInv, Active
      <3>2. CASE d.count > InitialCount
         BY <1>0, <1>f, <1>n, <2>1, <2>2, <3>1, <3>2 DEF BufferInv
      <3>3. CASE ~(d.count > InitialCount)
         <4>1. pc'[t] = "copy" /\ count'[t] = d.count /\ buffer'[t] = d.written
            BY <1>0, <2>1, <3>3
         <4>2. d.count <= Len(d.written)   BY <1>f, <1>n, <2>2, <3>3
         <4>3. d.count >= 0 => Len(d.written) = d.count /\ Range(d.written) = attached
            BY <1>f, <1>n, <2>2, <3>3
         <4>4. throughout'[t] \subseteq attached   BY <1>0 DEF CallInv, HistoryInv
         <4> QED  BY <3>1, <4>1, <4>2, <4>3, <4>4 DEF BufferInv
      <3> QED  BY <3>2, <3>3
   <2>6. FoundInv(t)'   BY <1>0, <2>1 DEF CallInv, FoundInv
   <2>7. \A u \in Threads \ {t} : Untouched(u)   BY <1>0, <2>1 DEF Untouched
   <2> QED  BY <1>g, <2>3, <2>4, <2>5, <2>6, <2>7 DEF CallInv
<1>5. CASE DetectAgain(t)
   <2> USE <1>5 DEF DetectAgain, GoTo, device, history
   <2> DEFINE size == count[t]
   <2>1. size \in Nat /\ size > InitialCount
      BY <1>0, <1>f, <1>n DEF CallInv, BufferInv
   <2>2. PICK d \in Detections(size) :
            /\ buffer' = [buffer EXCEPT ![t] = d.written]
            /\ count' = [count EXCEPT ![t] = Min({d.count, size})]
      OBVIOUS
   <2>3. /\ d.count \in -1..Cardinality(Names)
         /\ d.written \in Seq(Names)
         /\ Range(d.written) \subseteq attached
         /\ d.count # -1 => /\ d.count = Cardinality(attached)
                            /\ Len(d.written) = IF size <= d.count THEN size ELSE d.count
                            /\ d.count <= size => Range(d.written) = attached
      BY <1>0, <2>1, DetectionFacts
   <2>4. Min({d.count, size}) = IF d.count <= size THEN d.count ELSE size
      BY <1>n, <2>1, <2>3, MinOfTwo
   <2>5. Shapes'   BY <1>0, <1>n, <2>1, <2>2, <2>3, <2>4
   <2>6. HistoryInv(t)'   BY <1>0, <2>2 DEF CallInv, HistoryInv, Active
   <2>7. BufferInv(t)'
      <3>1. Range(buffer'[t]) \subseteq during'[t]
         BY <1>0, <2>2, <2>3 DEF CallInv, HistoryInv, Active
      <3>2. /\ pc'[t] = "copy" /\ buffer'[t] = d.written
            /\ count'[t] = IF d.count <= size THEN d.count ELSE size
         BY <1>0, <2>2, <2>4
      <3>3. count'[t] <= Len(d.written)   BY <1>n, <2>1, <2>3, <3>2
      <3>4. ASSUME count'[t] >= 0, ~plugged'[t]
            PROVE  Len(d.written) = count'[t] /\ Range(d.written) = attached
         <4>1. Cardinality(attached) <= size   BY <1>0, <3>4 DEF CallInv, BufferInv
         <4> QED  BY <1>n, <2>1, <2>3, <3>2, <3>4, <4>1
      <3>5. throughout'[t] \subseteq attached   BY <1>0 DEF CallInv, HistoryInv
      <3> QED  BY <3>1, <3>2, <3>3, <3>4, <3>5 DEF BufferInv
   <2>8. FoundInv(t)'   BY <1>0, <2>2 DEF CallInv, FoundInv
   <2>9. \A u \in Threads \ {t} : Untouched(u)   BY <1>0, <2>2 DEF Untouched
   <2> QED  BY <1>g, <2>5, <2>6, <2>7, <2>8, <2>9 DEF CallInv
<1>6. CASE Copy(t)
   <2> USE <1>6 DEF Copy, GoTo, device, history
   <2> DEFINE n == count[t]
              s == [i \in 1..n |-> IF i <= Len(buffer[t]) THEN buffer[t][i] ELSE Garbage]
   <2>1. n \in Int /\ buffer[t] \in Seq(Names) /\ Len(buffer[t]) \in Nat /\ n <= Len(buffer[t])
      BY <1>0, <1>n DEF CallInv, BufferInv
   <2>2. s = [i \in 1..n |-> buffer[t][i]]   BY <2>1
   <2>3. s \in Seq(Names) /\ Range(s) \subseteq Range(buffer[t])
      <3>1. \A i \in 1..n : i \in 1..Len(buffer[t])   BY <2>1
      <3>2. \A i \in 1..n : buffer[t][i] \in Names /\ buffer[t][i] \in Range(buffer[t])
         BY <2>1, <3>1 DEF Range
      <3>3. CASE n \in Nat
         <4>1. s \in [1..n -> Names]   BY <2>2, <3>2
         <4> HIDE DEF s, n
         <4> QED  BY <2>2, <3>2, <3>3, <4>1 DEF Range
      <3>4. CASE n \notin Nat
         <4>1. 1..n = {}   BY <2>1, <3>4
         <4>2. s = <<>>   BY <4>1
         <4> HIDE DEF s
         <4>3. Range(<<>>) = {} /\ <<>> \in Seq(Names)   BY DEF Range
         <4> QED  BY <4>2, <4>3
      <3> QED  BY <3>3, <3>4
   <2>4. n = Len(buffer[t]) => Range(s) = Range(buffer[t])
      <3>1. DOMAIN s = 1..n /\ \A i \in 1..n : s[i] = buffer[t][i]   BY <2>2
      <3>2. DOMAIN buffer[t] = 1..Len(buffer[t])   BY <2>1
      <3> HIDE DEF s, n
      <3> QED  BY <3>1, <3>2, Zenon DEF Range
   <2>5. found' = [found EXCEPT ![t] = s]   OBVIOUS
   <2> HIDE DEF s
   <2>6. Shapes'   BY <1>0, <2>3, <2>5
   <2>7. HistoryInv(t)'   BY <1>0 DEF CallInv, HistoryInv, Active
   <2>8. BufferInv(t)'   BY <1>0 DEF CallInv, BufferInv
   <2>9. FoundInv(t)'
      <3>1. found'[t] = s   BY <1>0, <2>5
      <3>2. Range(s) \subseteq during'[t]   BY <1>0, <2>3 DEF CallInv, BufferInv
      <3>3. (count'[t] >= 0 /\ ~plugged'[t]) => throughout'[t] \subseteq Range(s)
         BY <1>0, <2>4 DEF CallInv, BufferInv
      <3> QED  BY <3>1, <3>2, <3>3 DEF FoundInv
   <2>10. \A u \in Threads \ {t} : Untouched(u)   BY <1>0, <2>5 DEF Untouched
   <2> QED  BY <1>g, <2>6, <2>7, <2>8, <2>9, <2>10 DEF CallInv
<1>7. CASE Return(t)
   <2> USE <1>7 DEF Return, GoTo, memory, device, history
   <2>1. Shapes'   BY <1>0
   <2>2. CallInv(t)'
      BY <1>0 DEF CallInv, HistoryInv, BufferInv, FoundInv, Active
   <2>3. \A u \in Threads \ {t} : Untouched(u)   BY <1>0 DEF Untouched
   <2> QED  BY <1>g, <2>1, <2>2, <2>3
<1>8. CASE NoDefault(t)
   <2> USE <1>8 DEF NoDefault, GoTo, memory, device, history
   <2>1. Shapes'   BY <1>0
   <2>2. CallInv(t)'
      BY <1>0 DEF CallInv, HistoryInv, BufferInv, FoundInv, Active
   <2>3. \A u \in Threads \ {t} : Untouched(u)   BY <1>0 DEF Untouched
   <2> QED  BY <1>g, <2>1, <2>2, <2>3
<1>9. CASE Choose(t)
   <2> USE <1>9 DEF Choose, GoTo, memory, history
   <2>1. Shapes'
      <3>1. Head(found[t]) \in Names   BY <1>0
      <3> QED  BY <1>0, <3>1
   <2>2. CallInv(t)'
      BY <1>0 DEF CallInv, HistoryInv, BufferInv, FoundInv, Active
   <2>3. \A u \in Threads \ {t} : Untouched(u)   BY <1>0 DEF Untouched
   <2> QED  BY <1>g, <2>1, <2>2, <2>3
<1>10. CASE Record(t)
   <2> USE <1>10 DEF Record, GoTo, memory, history
   <2>1. Shapes'   BY <1>0
   <2>2. CallInv(t)'
      BY <1>0 DEF CallInv, HistoryInv, BufferInv, FoundInv, Active
   <2>3. \A u \in Threads \ {t} : Untouched(u)   BY <1>0 DEF Untouched
   <2> QED  BY <1>g, <2>1, <2>2, <2>3
<1>11. CASE Open(t)
   <2> USE <1>11 DEF Open, GoTo, memory, history
   <2>1. Shapes'   BY <1>0
   <2>2. CallInv(t)'
      BY <1>0 DEF CallInv, HistoryInv, BufferInv, FoundInv, Active
   <2>3. \A u \in Threads \ {t} : Untouched(u)   BY <1>0 DEF Untouched
   <2> QED  BY <1>g, <2>1, <2>2, <2>3
<1>12. CASE Dealloc(t)
   <2> USE <1>12 DEF Dealloc, GoTo, memory, device, history
   <2>1. Shapes'   BY <1>0
   <2>2. CallInv(t)'
      BY <1>0 DEF CallInv, HistoryInv, BufferInv, FoundInv, Active
   <2>3. \A u \in Threads \ {t} : Untouched(u)   BY <1>0 DEF Untouched
   <2> QED  BY <1>g, <2>1, <2>2, <2>3
<1>13. CASE Reuse(t)
   <2> USE <1>13 DEF Reuse, memory, history
   <2>1. Shapes'   BY <1>0
   <2>2. \A u \in Threads : Untouched(u)   BY DEF Untouched
   <2>3. CallInv(t)'   BY <1>0, <2>2, Elsewhere
   <2> QED  BY <1>g, <2>1, <2>2, <2>3
<1>14. CASE Forget(t)
   <2> USE <1>14 DEF Forget, GoTo
   <2>1. Shapes'   BY <1>0, <1>n
   <2>2. CallInv(t)'
      <3>1. Range(<<>>) = {}   BY DEF Range
      <3> QED  BY <1>0, <3>1 DEF CallInv, HistoryInv, BufferInv, FoundInv, Active
   <2>3. \A u \in Threads \ {t} : Untouched(u)   BY <1>0 DEF Untouched
   <2> QED  BY <1>g, <2>1, <2>2, <2>3
<1> QED
   BY <1>1, <1>2, <1>3, <1>4, <1>5, <1>6, <1>7, <1>8, <1>9, <1>10, <1>11, <1>12, <1>13,
      <1>14 DEF Call

\* An adapter is plugged in: nobody who is in a call knows any more that
\* everything fits, and the adapter counts as seen.
LEMMA PlugStep ==
    ASSUME DiscInv, NEW n \in Names, Plug(n)
    PROVE  DiscInv'
<1> USE DEF Plug, memory, device
<1>0. Shapes /\ \A u \in Threads : CallInv(u)   BY DEF DiscInv, CallInv
<1>1. Shapes'
   <2>1. attached' \subseteq Names   BY <1>0 DEF Shapes
   <2>2. during' \in [Threads -> SUBSET Names]
      <3>1. \A u \in Threads : (IF Active(u) THEN during[u] \cup {n} ELSE {}) \in SUBSET Names
         BY <1>0 DEF Shapes
      <3> QED  BY <3>1
   <2>3. plugged' \in [Threads -> BOOLEAN]   BY DEF Active
   <2> QED  BY <1>0, <2>1, <2>2, <2>3 DEF Shapes
<1>2. ASSUME NEW u \in Threads   PROVE CallInv(u)'
   <2>1. during'[u] = IF Active(u) THEN during[u] \cup {n} ELSE {}   BY <1>0
   <2>2. plugged'[u] = Active(u)   BY <1>0
   <2>3. Active(u)' = Active(u)   BY DEF Active
   <2>4. CallInv(u)   BY <1>0
   <2>5. Range(<<>>) = {}   BY DEF Range
   <2>6. HistoryInv(u)'   BY <2>1, <2>2, <2>3, <2>4 DEF CallInv, HistoryInv
   <2>7. BufferInv(u)'
      BY <2>1, <2>2, <2>4, <2>5 DEF CallInv, HistoryInv, BufferInv, Active
   <2>8. FoundInv(u)'
      BY <2>1, <2>2, <2>4, <2>5 DEF CallInv, HistoryInv, FoundInv, Active
   <2> QED  BY <2>6, <2>7, <2>8 DEF CallInv
<1> QED  BY <1>1, <1>2 DEF DiscInv, CallInv

\* An adapter is unplugged: it no longer counts as one that stayed.
LEMMA UnplugStep ==
    ASSUME DiscInv, NEW n \in Names, Unplug(n)
    PROVE  DiscInv'
<1> USE DEF Unplug, memory, device
<1>0. Shapes /\ \A u \in Threads : CallInv(u)   BY DEF DiscInv, CallInv
<1>1. Shapes'
   <2>1. attached' \subseteq Names   BY <1>0 DEF Shapes
   <2>2. throughout' \in [Threads -> SUBSET Names]
      <3>1. \A u \in Threads : throughout[u] \ {n} \in SUBSET Names   BY <1>0 DEF Shapes
      <3> QED  BY <3>1
   <2> QED  BY <1>0, <2>1, <2>2 DEF Shapes
<1>2. /\ Cardinality(attached) \in Nat /\ Cardinality(attached') \in Nat
      /\ Cardinality(attached') <= Cardinality(attached)
   <2>1. attached \in SUBSET Names /\ attached' \in SUBSET attached   BY <1>0 DEF Shapes
   <2>2. attached' \in SUBSET Names   BY <2>1
   <2>3. IsFiniteSet(attached)   BY <2>1, FiniteAttached
   <2>4. Cardinality(attached') <= Cardinality(attached)   BY <2>1, <2>3, FS_Subset
   <2> QED  BY <2>1, <2>2, <2>4, FiniteAttached
<1>3. ASSUME NEW u \in Threads   PROVE CallInv(u)'
   <2>1. throughout'[u] = throughout[u] \ {n}   BY <1>0
   <2>2. CallInv(u)   BY <1>0
   <2>3. HistoryInv(u)'   BY <2>1, <2>2 DEF CallInv, HistoryInv, Active
   <2>4. BufferInv(u)'
      <3>1. count[u] \in Int /\ InitialCount \in Int
         BY <1>0, ConstantsAssumption DEF Shapes
      <3> QED  BY <1>2, <2>1, <2>2, <3>1 DEF CallInv, BufferInv
   <2>5. FoundInv(u)'   BY <2>1, <2>2 DEF CallInv, FoundInv
   <2> QED  BY <2>3, <2>4, <2>5 DEF CallInv
<1> QED  BY <1>1, <1>3 DEF DiscInv, CallInv

\* The program starts in DiscInv.
LEMMA DiscInit == Init => DiscInv
<1> SUFFICES ASSUME Init   PROVE DiscInv
   OBVIOUS
<1>1. Cardinality(Names) \in Nat   BY FiniteAttached
<1>2. Shapes   BY <1>1 DEF Init, Shapes, Places, Devices, Kinds
<1>3. Range(<<>>) = {}   BY DEF Range
<1>4. \A t \in Threads : HistoryInv(t) /\ BufferInv(t) /\ FoundInv(t)
   BY <1>3 DEF Init, HistoryInv, BufferInv, FoundInv, Active
<1> QED  BY <1>2, <1>4 DEF DiscInv

-----------------------------------------------------------------------------
(* Theorems.                                                                *)

\* DiscInv always holds, for any number of threads that call list_adapters and
\* Adapter() and of adapters that come and go.
THEOREM DiscoveryInvariant == Spec => []DiscInv
<1>1. DiscInv /\ [Next]_vars => DiscInv'
   <2> SUFFICES ASSUME DiscInv, [Next]_vars   PROVE DiscInv'
      OBVIOUS
   <2>1. CASE Next
      <3>1. ASSUME NEW t \in Threads,
                   (\E k \in Kinds : Begin(t, k)) \/ Call(t) \/ Reuse(t) \/ Forget(t)
            PROVE  DiscInv'
         BY <3>1, CallStep
      <3>2. ASSUME NEW n \in Names, Plug(n) \/ Unplug(n)   PROVE DiscInv'
         BY <3>2, PlugStep, UnplugStep
      <3> QED  BY <2>1, <3>1, <3>2 DEF Next
   <2>2. CASE UNCHANGED vars
      BY <2>2 DEF vars, memory, device, history, DiscInv, Shapes, HistoryInv, BufferInv,
                  FoundInv, Active
   <2> QED  BY <2>1, <2>2
<1> QED  BY <1>1, DiscInit, PTL DEF Spec

\* The variables have their types; in particular get_adapters reads no entry of
\* dev_list that libcec has not written, whatever the second detection returns.
THEOREM DiscoveryTypes == Spec => []TypeOK
<1>1. DiscInv => TypeOK
   <2> SUFFICES ASSUME DiscInv   PROVE TypeOK
      OBVIOUS
   <2>1. ASSUME NEW t \in Threads   PROVE throughout[t] \subseteq during[t]
      BY DEF DiscInv, HistoryInv, Active
   <2> QED  BY <2>1 DEF DiscInv, Shapes, TypeOK, Places, Devices
<1> QED  BY <1>1, DiscoveryInvariant, PTL

\* Every adapter that get_adapters returns was plugged in at some moment of the
\* call, for any size of the first buffer.
THEOREM NothingInvented == Spec => []ListedWereAttached
<1>1. DiscInv => ListedWereAttached   BY DEF DiscInv, FoundInv, ListedWereAttached
<1> QED  BY <1>1, DiscoveryInvariant, PTL

\* An adapter that stays plugged in is returned, if libcec does not fail and no
\* other adapter comes: the second call of DetectAdapters then has room for all.
THEOREM NothingMissed == Spec => []AttachedAreListed
<1>1. DiscInv => AttachedAreListed   BY DEF DiscInv, FoundInv, AttachedAreListed
<1> QED  BY <1>1, DiscoveryInvariant, PTL

\* list_adapters and an Adapter() that fails destroy the instance of libcec that
\* they made, on every way out.
THEOREM NothingLeftBehind == Spec => []NoInstanceLeft
<1>1. DiscInv => NoInstanceLeft   BY DEF DiscInv, HistoryInv, NoInstanceLeft
<1> QED  BY <1>1, DiscoveryInvariant, PTL

=============================================================================
