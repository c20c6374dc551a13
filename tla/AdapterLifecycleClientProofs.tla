-------------------- MODULE AdapterLifecycleClientProofs --------------------
(***************************************************************************)
(* Theorems about AdapterLifecycle that need to know who has the           *)
(* interpreter lock: that it is held where it is needed and only there,    *)
(* for any client, and that a client that calls nothing while and after it *)
(* closes the Adapter never goes through the null pointer.                 *)
(***************************************************************************)
EXTENDS AdapterLifecycleProofs

-----------------------------------------------------------------------------
(* The interpreter lock, for any client.                                    *)

\* Every Py_BEGIN_ALLOW_THREADS in s has its Py_END_ALLOW_THREADS, with one or
\* two operations between them.
Relocks(s) ==
    \A i \in 1..Len(s) : s[i] = "unlock" =>
        /\ i + 2 <= Len(s)
        /\ s[i + 1] # "unlock"
        /\ \/ s[i + 2] = "lock"
           \/ s[i + 2] # "unlock" /\ i + 3 <= Len(s) /\ s[i + 3] = "lock"

\* The lock is not taken by who has it: since Py_END_ALLOW_THREADS, or since a
\* field of a Device is made into a string.
LocksOnce(s) ==
    \A i, j \in 1..Len(s) :
        i < j /\ s[i] \in {"lock", "field"} /\ s[j] = "lock" =>
            \E k \in (i + 1)..(j - 1) : s[k] = "unlock"

\* Adapter_new checks an answer of libcec when it has the lock again.
Checks(s) ==
    \A i \in 1..Len(s) : s[i] \in {"initialise", "detect", "open"} =>
        i + 1 <= Len(s) /\ s[i + 1] = "lock"

Locks(s) == Relocks(s) /\ LocksOnce(s) /\ Checks(s)

\* The next operation of s on the lock is to take it.
Unlocked(s) ==
    \E i \in 1..Len(s) : s[i] = "lock" /\ \A j \in 1..(i - 1) : s[j] # "unlock"

\* A thread in a C function holds the lock, or has it released and will take it
\* again; a thread of libcec holds it from the handler until it is done.
LockInv ==
    /\ \A t \in Threads :
          /\ Locks(code[t])
          /\ code[t] # <<>> => (Unlocked(code[t]) <=> gil # t)
    /\ \A c \in CecThreads : cec[c] = "release" => gil = c

\* The lock from one operation to the next.
LEMMA LockGoesOn ==
    ASSUME NEW s \in Seq(Ops), s # <<>>, Locks(s)
    PROVE  /\ Locks(Tail(s))
           /\ Head(s) = "unlock" => ~Unlocked(s) /\ Unlocked(Tail(s))
           /\ Head(s) = "lock" => Unlocked(s)
           /\ Head(s) \in {"lock", "field"} => ~Unlocked(Tail(s))
           /\ Head(s) \notin {"lock", "unlock"} => (Unlocked(s) <=> Unlocked(Tail(s)))
           /\ Head(s) \in {"initialise", "detect", "open"} => Unlocked(s)
<1> DEFINE r == Tail(s)
<1>0. Relocks(s) /\ LocksOnce(s) /\ Checks(s)
  BY DEF Locks
<1>1. /\ Len(s) \in Nat \ {0} /\ Head(s) = s[1]
      /\ Len(r) = Len(s) - 1
      /\ \A i \in 1..(Len(s) - 1) : r[i] = s[i + 1]
  BY Parts
<1> HIDE DEF r
<1>2. Relocks(r)
  <2> SUFFICES ASSUME NEW i \in 1..Len(r), r[i] = "unlock"
               PROVE  /\ i + 2 <= Len(r)
                      /\ r[i + 1] # "unlock"
                      /\ \/ r[i + 2] = "lock"
                         \/ r[i + 2] # "unlock" /\ i + 3 <= Len(r) /\ r[i + 3] = "lock"
    BY DEF Relocks
  <2>1. i + 1 \in 1..Len(s) /\ s[i + 1] = "unlock"
    BY <1>1
  <2>2. /\ (i + 1) + 2 <= Len(s)
        /\ s[(i + 1) + 1] # "unlock"
        /\ \/ s[(i + 1) + 2] = "lock"
           \/ /\ s[(i + 1) + 2] # "unlock" /\ (i + 1) + 3 <= Len(s)
              /\ s[(i + 1) + 3] = "lock"
    BY <1>0, <2>1 DEF Relocks
  <2>3. i + 2 <= Len(r) /\ r[i + 1] = s[(i + 1) + 1] /\ r[i + 2] = s[(i + 1) + 2]
    BY <1>1, <2>2
  <2>4. (i + 1) + 3 <= Len(s) => i + 3 <= Len(r) /\ r[i + 3] = s[(i + 1) + 3]
    BY <1>1
  <2> QED
    BY <2>2, <2>3, <2>4
<1>3. LocksOnce(r)
  <2> SUFFICES ASSUME NEW i \in 1..Len(r), NEW j \in 1..Len(r),
                      i < j, r[i] \in {"lock", "field"}, r[j] = "lock"
               PROVE  \E k \in (i + 1)..(j - 1) : r[k] = "unlock"
    BY DEF LocksOnce
  <2>1. /\ i + 1 \in 1..Len(s) /\ j + 1 \in 1..Len(s) /\ i + 1 < j + 1
        /\ s[i + 1] \in {"lock", "field"} /\ s[j + 1] = "lock"
    BY <1>1
  <2>2. PICK k \in ((i + 1) + 1)..((j + 1) - 1) : s[k] = "unlock"
    BY <1>0, <2>1 DEF LocksOnce
  <2>3. k - 1 \in (i + 1)..(j - 1) /\ r[k - 1] = "unlock"
    BY <1>1, <2>1, <2>2
  <2> QED
    BY <2>3
<1>4. Checks(r)
  BY <1>0, <1>1 DEF Checks
<1>5. ASSUME Head(s) = "unlock" PROVE ~Unlocked(s) /\ Unlocked(r)
  <2>1. ~Unlocked(s)
    BY <1>1, <1>5 DEF Unlocked
  <2>2. /\ 1 + 2 <= Len(s) /\ s[1 + 1] # "unlock"
        /\ \/ s[1 + 2] = "lock"
           \/ s[1 + 2] # "unlock" /\ 1 + 3 <= Len(s) /\ s[1 + 3] = "lock"
    BY <1>0, <1>1, <1>5 DEF Relocks
  <2>3. CASE s[1 + 2] = "lock"
    <3>1. 2 \in 1..Len(r) /\ r[2] = "lock" /\ \A j \in 1..(2 - 1) : r[j] # "unlock"
      BY <1>1, <2>2, <2>3
    <3> QED
      BY <2>1, <3>1 DEF Unlocked
  <2>4. CASE s[1 + 2] # "lock"
    <3>1. 3 \in 1..Len(r) /\ r[3] = "lock" /\ r[1] # "unlock" /\ r[2] # "unlock"
      BY <1>1, <2>2, <2>4
    <3>2. \A j \in 1..(3 - 1) : r[j] # "unlock"
      BY <3>1
    <3> QED
      BY <2>1, <3>1, <3>2 DEF Unlocked
  <2> QED
    BY <2>3, <2>4
<1>6. ASSUME Head(s) \in {"lock", "field"}, Unlocked(r) PROVE FALSE
  <2>1. PICK j \in 1..Len(r) : r[j] = "lock" /\ \A k \in 1..(j - 1) : r[k] # "unlock"
    BY <1>6 DEF Unlocked
  <2>2. 1 \in 1..Len(s) /\ j + 1 \in 1..Len(s) /\ 1 < j + 1 /\ s[j + 1] = "lock"
    BY <1>1, <2>1
  <2>3. PICK k \in (1 + 1)..((j + 1) - 1) : s[k] = "unlock"
    BY <1>0, <1>1, <1>6, <2>2 DEF LocksOnce
  <2>4. k - 1 \in 1..(j - 1) /\ r[k - 1] = "unlock"
    BY <1>1, <2>2, <2>3
  <2> QED
    BY <2>1, <2>4
<1>7. ASSUME Head(s) \notin {"lock", "unlock"}, Unlocked(s) PROVE Unlocked(r)
  <2>1. PICK i \in 1..Len(s) : s[i] = "lock" /\ \A j \in 1..(i - 1) : s[j] # "unlock"
    BY <1>7 DEF Unlocked
  <2>2. i # 1 /\ i - 1 \in 1..Len(r) /\ r[i - 1] = "lock"
    BY <1>1, <1>7, <2>1
  <2>3. \A j \in 1..((i - 1) - 1) : r[j] # "unlock"
    BY <1>1, <2>1, <2>2
  <2> QED
    BY <2>2, <2>3 DEF Unlocked
<1>8. ASSUME Head(s) \notin {"lock", "unlock"}, Unlocked(r) PROVE Unlocked(s)
  <2>1. PICK i \in 1..Len(r) : r[i] = "lock" /\ \A j \in 1..(i - 1) : r[j] # "unlock"
    BY <1>8 DEF Unlocked
  <2>2. i + 1 \in 1..Len(s) /\ s[i + 1] = "lock"
    BY <1>1, <2>1
  <2>3. ASSUME NEW j \in 1..((i + 1) - 1) PROVE s[j] # "unlock"
    <3>1. CASE j = 1
      BY <1>1, <1>8, <3>1
    <3>2. CASE j # 1
      <4>1. j - 1 \in 1..(i - 1) /\ r[j - 1] = s[j]
        BY <1>1, <2>1, <3>2
      <4> QED
        BY <2>1, <4>1
    <3> QED
      BY <3>1, <3>2
  <2> QED
    BY <2>2, <2>3 DEF Unlocked
<1>9. Head(s) = "lock" => Unlocked(s)
  <2>1. 1 \in 1..Len(s) /\ \A j \in 1..(1 - 1) : s[j] # "unlock"
    BY <1>1
  <2> QED
    BY <1>1, <2>1 DEF Unlocked
<1>10. ASSUME Head(s) \in {"initialise", "detect", "open"} PROVE Unlocked(s)
  <2>1. 2 \in 1..Len(s) /\ s[2] = "lock"
    BY <1>0, <1>1, <1>10 DEF Checks
  <2>2. \A j \in 1..(2 - 1) : s[j] # "unlock"
    BY <1>1, <1>10
  <2> QED
    BY <2>1, <2>2 DEF Unlocked
<1> QED
  BY <1>2, <1>3, <1>4, <1>5, <1>6, <1>7, <1>8, <1>9, <1>10 DEF r, Locks

\* Entering libcec does not touch the lock.
LEMMA LockReplaced ==
    ASSUME NEW s \in Seq(Ops), s # <<>>, Locks(s), Head(s) \in {"use", "close"},
           NEW x \in {"using", "closing", "crashed"}
    PROVE  LET r == <<x>> \o Tail(s)
           IN  Locks(r) /\ (Unlocked(s) <=> Unlocked(r))
<1> DEFINE r == <<x>> \o Tail(s)
<1>0. Relocks(s) /\ LocksOnce(s) /\ Checks(s) /\ x \in Ops
  BY DEF Locks, Ops
<1>1. /\ Len(s) \in Nat \ {0} /\ Head(s) = s[1] /\ Len(r) = Len(s)
      /\ r[1] = x /\ \A i \in 2..Len(s) : r[i] = s[i]
  BY <1>0, Parts, ReplaceHead
<1> HIDE DEF r
<1>2. \A i \in 1..Len(s) :
        \A y \in {"unlock", "lock", "field", "initialise", "detect", "open"} :
            r[i] = y <=> s[i] = y
  BY <1>1
<1>3. Relocks(r)
  <2> SUFFICES ASSUME NEW i \in 1..Len(r), r[i] = "unlock"
               PROVE  /\ i + 2 <= Len(r)
                      /\ r[i + 1] # "unlock"
                      /\ \/ r[i + 2] = "lock"
                         \/ r[i + 2] # "unlock" /\ i + 3 <= Len(r) /\ r[i + 3] = "lock"
    BY DEF Relocks
  <2>1. s[i] = "unlock" /\ i \in 1..Len(s)
    BY <1>1, <1>2
  <2>2. /\ i + 2 <= Len(s)
        /\ s[i + 1] # "unlock"
        /\ \/ s[i + 2] = "lock"
           \/ s[i + 2] # "unlock" /\ i + 3 <= Len(s) /\ s[i + 3] = "lock"
    BY <1>0, <2>1 DEF Relocks
  <2>3. i + 1 \in 2..Len(s) /\ i + 2 \in 2..Len(s) /\ (i + 3 <= Len(s) => i + 3 \in 2..Len(s))
    BY <1>1, <2>2
  <2> QED
    BY <1>1, <2>2, <2>3
<1>4. LocksOnce(r)
  <2> SUFFICES ASSUME NEW i \in 1..Len(r), NEW j \in 1..Len(r),
                      i < j, r[i] \in {"lock", "field"}, r[j] = "lock"
               PROVE  \E k \in (i + 1)..(j - 1) : r[k] = "unlock"
    BY DEF LocksOnce
  <2>1. PICK k \in (i + 1)..(j - 1) : s[k] = "unlock"
    BY <1>0, <1>1, <1>2 DEF LocksOnce
  <2>2. k \in 1..Len(s)
    BY <1>1, <2>1
  <2> QED
    BY <1>2, <2>1, <2>2
<1>5. Checks(r)
  <2> SUFFICES ASSUME NEW i \in 1..Len(r), r[i] \in {"initialise", "detect", "open"}
               PROVE  i + 1 <= Len(r) /\ r[i + 1] = "lock"
    BY DEF Checks
  <2>1. i + 1 <= Len(s) /\ s[i + 1] = "lock"
    BY <1>0, <1>1, <1>2 DEF Checks
  <2> QED
    BY <1>1, <1>2, <2>1
<1>6. Unlocked(s) <=> Unlocked(r)
  BY <1>1, <1>2 DEF Unlocked
<1> QED
  BY <1>3, <1>4, <1>5, <1>6 DEF r, Locks

\* LocksOnce, where every "lock" has its "unlock" two or three places before.
LEMMA PairsLockOnce ==
    ASSUME NEW s, Len(s) \in Nat,
           \A j \in 1..Len(s) : s[j] = "lock" =>
              \/ j > 2 /\ s[j - 2] = "unlock" /\ s[j - 1] \notin {"lock", "field"}
              \/ /\ j > 3 /\ s[j - 3] = "unlock"
                 /\ {s[j - 2], s[j - 1]} \cap {"lock", "field"} = {}
    PROVE  LocksOnce(s)
<1> SUFFICES ASSUME NEW i \in 1..Len(s), NEW j \in 1..Len(s),
                    i < j, s[i] \in {"lock", "field"}, s[j] = "lock"
             PROVE  \E k \in (i + 1)..(j - 1) : s[k] = "unlock"
  BY DEF LocksOnce
<1>1. CASE j > 2 /\ s[j - 2] = "unlock" /\ s[j - 1] \notin {"lock", "field"}
  <2>1. i # j - 2 /\ i # j - 1
    BY <1>1
  <2>2. j - 2 \in (i + 1)..(j - 1)
    BY <2>1
  <2> QED
    BY <1>1, <2>2
<1>2. CASE /\ j > 3 /\ s[j - 3] = "unlock"
           /\ {s[j - 2], s[j - 1]} \cap {"lock", "field"} = {}
  <2>1. i # j - 3 /\ i # j - 2 /\ i # j - 1
    BY <1>2
  <2>2. j - 3 \in (i + 1)..(j - 1)
    BY <2>1
  <2> QED
    BY <1>2, <2>2
<1> QED
  BY <1>1, <1>2

\* The methods, Device_new, list_devices, close() and Adapter_new begin with the
\* lock, and take it again whenever they have released it.
LEMMA FunctionsLock ==
    /\ \A m \in AdapterMethods \cup AdapterProperties \cup DeviceMethods
                  \cup {ListDevices, AdapterClose} : Locks(m) /\ ~Unlocked(m)
    /\ \A named \in BOOLEAN : Locks(Initialise(named)) /\ ~Unlocked(Initialise(named))
    /\ \A last \in {<<"device">>, <<"listed", "list">>} :
          Locks(NewDevice \o last) /\ ~Unlocked(NewDevice \o last)
    /\ \A s \in {<<>>, <<"dealloc">>, <<"free">>, <<"destroy", "free">>} :
          Locks(s) /\ ~Unlocked(s)
    /\ Locks(<<"lock", "dealloc">>) /\ Unlocked(<<"lock", "dealloc">>)
<1>1. \A m \in {Call, CallTwice, Transmit, PersistRefused, PersistUnread, PersistConfig,
                ListDevices, AdapterClose} : Locks(m) /\ ~Unlocked(m)
  <2>1. /\ Relocks(Call) /\ Relocks(CallTwice) /\ Relocks(Transmit) /\ Relocks(PersistRefused)
        /\ Relocks(PersistUnread) /\ Relocks(PersistConfig) /\ Relocks(ListDevices)
        /\ Relocks(AdapterClose)
    BY DEF Relocks, Call, CallTwice, Transmit, PersistRefused, PersistUnread, PersistConfig,
           ListDevices, AdapterClose
  <2>2. /\ LocksOnce(Call) /\ LocksOnce(CallTwice) /\ LocksOnce(Transmit)
        /\ LocksOnce(PersistRefused) /\ LocksOnce(PersistUnread) /\ LocksOnce(PersistConfig)
        /\ LocksOnce(ListDevices) /\ LocksOnce(AdapterClose)
    <3>1. LocksOnce(Call)
      BY PairsLockOnce DEF Call
    <3>2. LocksOnce(CallTwice)
      BY PairsLockOnce DEF CallTwice
    <3>3. LocksOnce(Transmit)
      <4>1. /\ Len(Transmit) = 4
            /\ Transmit[1] = "use" /\ Transmit[2] = "unlock" /\ Transmit[3] = "use"
            /\ Transmit[4] = "lock"
        BY DEF Transmit, Call
      <4> QED
        BY <4>1, PairsLockOnce
    <3>4. LocksOnce(PersistRefused) /\ LocksOnce(PersistUnread)
      BY PairsLockOnce DEF PersistRefused, PersistUnread
    <3>5. LocksOnce(PersistConfig)
      <4>1. /\ Len(PersistConfig) = 5
            /\ PersistConfig[1] = "use" /\ PersistConfig[2] = "use" /\ PersistConfig[3] = "unlock"
            /\ PersistConfig[4] = "use" /\ PersistConfig[5] = "lock"
        BY DEF PersistConfig, PersistUnread, Call
      <4> QED
        BY <4>1, PairsLockOnce
    <3>6. LocksOnce(ListDevices)
      <4>1. /\ Len(ListDevices) = 4
            /\ ListDevices[1] = "unlock" /\ ListDevices[2] = "use" /\ ListDevices[3] = "lock"
            /\ ListDevices[4] = "list"
        BY DEF ListDevices, Call
      <4> QED
        BY <4>1, PairsLockOnce
    <3>7. LocksOnce(AdapterClose)
      BY PairsLockOnce DEF AdapterClose
    <3> QED
      BY <3>1, <3>2, <3>3, <3>4, <3>5, <3>6, <3>7
  <2>3. /\ Checks(Call) /\ Checks(CallTwice) /\ Checks(Transmit) /\ Checks(PersistRefused)
        /\ Checks(PersistUnread) /\ Checks(PersistConfig) /\ Checks(ListDevices)
        /\ Checks(AdapterClose)
    BY DEF Checks, Call, CallTwice, Transmit, PersistRefused, PersistUnread, PersistConfig,
           ListDevices, AdapterClose
  <2>4. /\ ~Unlocked(Call) /\ ~Unlocked(CallTwice) /\ ~Unlocked(Transmit)
        /\ ~Unlocked(PersistRefused) /\ ~Unlocked(PersistUnread) /\ ~Unlocked(PersistConfig)
        /\ ~Unlocked(ListDevices) /\ ~Unlocked(AdapterClose)
    <3>1. /\ ~Unlocked(Call) /\ ~Unlocked(CallTwice) /\ ~Unlocked(ListDevices)
          /\ ~Unlocked(AdapterClose)
      BY DEF Unlocked, Call, CallTwice, ListDevices, AdapterClose
    <3>2. ~Unlocked(PersistRefused) /\ ~Unlocked(PersistUnread)
      BY DEF Unlocked, PersistRefused, PersistUnread
    <3>3. ~Unlocked(Transmit)
      BY DEF Unlocked, Transmit, Call
    <3>4. ~Unlocked(PersistConfig)
      BY DEF Unlocked, PersistConfig, PersistUnread, Call
    <3> QED
      BY <3>1, <3>2, <3>3, <3>4
  <2> QED
    BY <2>1, <2>2, <2>3, <2>4 DEF Locks
<1>2. \A m \in AdapterMethods \cup AdapterProperties \cup DeviceMethods
                 \cup {ListDevices, AdapterClose} : Locks(m) /\ ~Unlocked(m)
  BY <1>1 DEF AdapterMethods, AdapterProperties, DeviceMethods
<1>3. ASSUME NEW named \in BOOLEAN
      PROVE  Locks(Initialise(named)) /\ ~Unlocked(Initialise(named))
  <2>1. CASE named
    <3> DEFINE s == Initialise(named)
    <3>1. /\ Len(s) = 10
          /\ s[1] = "unlock" /\ s[2] = "initialise" /\ s[3] = "lock"
          /\ s[4] = "unlock" /\ s[5] = "video" /\ s[6] = "lock"
          /\ s[7] = "unlock" /\ s[8] = "open" /\ s[9] = "lock"
          /\ s[10] = "created"
      BY <2>1 DEF Initialise
    <3> HIDE DEF s
    <3>2. Relocks(s) /\ Checks(s) /\ ~Unlocked(s)
      BY <3>1 DEF Relocks, Checks, Unlocked
    <3>3. LocksOnce(s)
      BY <3>1, PairsLockOnce
    <3> QED
      BY <3>2, <3>3 DEF s, Locks
  <2>2. CASE ~named
    <3> DEFINE s == Initialise(named)
    <3>1. /\ Len(s) = 13
          /\ s[1] = "unlock" /\ s[2] = "initialise" /\ s[3] = "lock"
          /\ s[4] = "unlock" /\ s[5] = "video" /\ s[6] = "lock"
          /\ s[7] = "unlock" /\ s[8] = "detect" /\ s[9] = "lock"
          /\ s[10] = "unlock" /\ s[11] = "open" /\ s[12] = "lock"
          /\ s[13] = "created"
      BY <2>2 DEF Initialise
    <3> HIDE DEF s
    <3>2. Relocks(s) /\ Checks(s) /\ ~Unlocked(s)
      BY <3>1 DEF Relocks, Checks, Unlocked
    <3>3. LocksOnce(s)
      BY <3>1, PairsLockOnce
    <3> QED
      BY <3>2, <3>3 DEF s, Locks
  <2> QED
    BY <2>1, <2>2
<1> DEFINE n == Len(NewDevice)
<1>4. n \in Nat \ {0} /\ NewDevice \in Seq({"unlock", "use", "lock", "field"})
  BY QuestionsShape
<1>5. /\ \A i \in 1..n : NewDevice[i] = "unlock" =>
            i + 2 <= n /\ NewDevice[i + 1] = "use" /\ NewDevice[i + 2] = "lock"
      /\ \A i \in 1..n : NewDevice[i] = "lock" =>
            i > 2 /\ NewDevice[i - 1] = "use" /\ NewDevice[i - 2] = "unlock"
  <2> DEFINE field == <<"unlock", "use", "lock", "field">>
  <2>1. n = 4 * DeviceFields /\ DeviceFields \in Nat
    BY QuestionsShape, ConstantsAssumption
  <2>2. \A j \in 1..n : NewDevice[j] = field[1 + ((j - 1) % 4)]
    BY <2>1 DEF NewDevice, Call
  <2> HIDE DEF n
  <2>3. \A k \in 0..3 : (field[1 + k] = "unlock" => k = 0) /\ (field[1 + k] = "lock" => k = 2)
    OBVIOUS
  <2>4. ASSUME NEW i \in 1..n, NewDevice[i] = "unlock"
        PROVE  i + 2 <= n /\ NewDevice[i + 1] = "use" /\ NewDevice[i + 2] = "lock"
    <3>1. (i - 1) % 4 \in 0..3
      OBVIOUS
    <3>2. (i - 1) % 4 = 0
      BY <2>2, <2>3, <2>4, <3>1
    <3>3. i + 2 <= n /\ ((i + 1) - 1) % 4 = 1 /\ ((i + 2) - 1) % 4 = 2
      BY <2>1, <3>2
    <3>4. /\ NewDevice[i + 1] = field[1 + (((i + 1) - 1) % 4)]
          /\ NewDevice[i + 2] = field[1 + (((i + 2) - 1) % 4)]
      BY <1>4, <2>2, <3>3
    <3> QED
      BY <3>3, <3>4
  <2>5. ASSUME NEW i \in 1..n, NewDevice[i] = "lock"
        PROVE  i > 2 /\ NewDevice[i - 1] = "use" /\ NewDevice[i - 2] = "unlock"
    <3>1. (i - 1) % 4 \in 0..3
      OBVIOUS
    <3>2. (i - 1) % 4 = 2
      BY <2>2, <2>3, <2>5, <3>1
    <3>3. i > 2 /\ ((i - 1) - 1) % 4 = 1 /\ ((i - 2) - 1) % 4 = 0
      BY <3>2
    <3>4. /\ NewDevice[i - 1] = field[1 + (((i - 1) - 1) % 4)]
          /\ NewDevice[i - 2] = field[1 + (((i - 2) - 1) % 4)]
      BY <1>4, <2>2, <3>3
    <3> QED
      BY <3>3, <3>4
  <2> QED
    BY <2>4, <2>5
<1> HIDE DEF n
<1>6. ASSUME NEW last \in {<<"device">>, <<"listed", "list">>}
      PROVE  Locks(NewDevice \o last) /\ ~Unlocked(NewDevice \o last)
  <2> DEFINE s == NewDevice \o last
  <2>1. /\ last \in Seq(Ops) /\ Len(last) \in Nat
        /\ \A i \in 1..Len(last) : last[i] \in {"device", "listed", "list"}
    <3>1. CASE last = <<"device">>
      BY <3>1 DEF Ops
    <3>2. CASE last = <<"listed", "list">>
      BY <3>2 DEF Ops
    <3> QED
      BY <3>1, <3>2
  <2>2. NewDevice \in Seq(Ops)
    BY <1>4 DEF Ops
  <2>3. /\ Len(s) = n + Len(last)
        /\ \A i \in 1..n : s[i] = NewDevice[i]
        /\ \A i \in (n + 1)..Len(s) : s[i] = last[i - n]
    BY <1>4, <2>1, <2>2 DEF n
  <2> HIDE DEF s
  <2>4. \A i \in 1..Len(s) : i \in 1..n \/ s[i] \in {"device", "listed", "list"}
    <3> TAKE i \in 1..Len(s)
    <3>1. CASE i \in 1..n
      BY <3>1
    <3>2. CASE i \notin 1..n
      <4>1. i \in (n + 1)..Len(s) /\ i - n \in 1..Len(last)
        BY <1>4, <2>1, <2>3, <3>2
      <4> QED
        BY <2>1, <2>3, <4>1
    <3> QED
      BY <3>1, <3>2
  <2>5. \A i \in 1..n : s[i] \in {"unlock", "use", "lock", "field"}
    BY <1>4, <2>3 DEF n
  <2>6. Relocks(s)
    <3>1. \A i \in 1..n : s[i] = "unlock" =>
              i + 2 <= Len(s) /\ s[i + 1] = "use" /\ s[i + 2] = "lock"
      BY <1>4, <1>5, <2>1, <2>3
    <3> QED
      BY <2>4, <3>1 DEF Relocks
  <2>7. LocksOnce(s)
    <3>1. \A j \in 1..n : s[j] = "lock" =>
              j > 2 /\ s[j - 2] = "unlock" /\ s[j - 1] \notin {"lock", "field"}
      BY <1>4, <1>5, <2>1, <2>3
    <3>2. \A j \in 1..Len(s) : s[j] = "lock" =>
              j > 2 /\ s[j - 2] = "unlock" /\ s[j - 1] \notin {"lock", "field"}
      BY <2>4, <3>1
    <3> QED
      BY <1>4, <2>1, <2>3, <3>2, PairsLockOnce
  <2>8. Checks(s)
    BY <2>4, <2>5 DEF Checks
  <2>9. ~Unlocked(s)
    <3>1. 1 \in 1..n /\ s[1] = "unlock"
      BY <1>4, <2>3, QuestionsShape
    <3> QED
      BY <3>1 DEF Unlocked
  <2> QED
    BY <2>6, <2>7, <2>8, <2>9 DEF s, Locks
<1>7. \A s \in {<<>>, <<"dealloc">>, <<"free">>, <<"destroy", "free">>} :
         Locks(s) /\ ~Unlocked(s)
  <2>1. /\ Locks(<<>>) /\ Locks(<<"dealloc">>) /\ Locks(<<"free">>)
        /\ Locks(<<"destroy", "free">>)
    BY DEF Locks, Relocks, LocksOnce, Checks
  <2>2. /\ ~Unlocked(<<>>) /\ ~Unlocked(<<"dealloc">>) /\ ~Unlocked(<<"free">>)
        /\ ~Unlocked(<<"destroy", "free">>)
    BY DEF Unlocked
  <2> QED
    BY <2>1, <2>2
<1>8. Locks(<<"lock", "dealloc">>) /\ Unlocked(<<"lock", "dealloc">>)
  <2>1. 1 \in 1..Len(<<"lock", "dealloc">>) /\ <<"lock", "dealloc">>[1] = "lock"
    OBVIOUS
  <2>2. Unlocked(<<"lock", "dealloc">>)
    BY <2>1 DEF Unlocked
  <2>3. Locks(<<"lock", "dealloc">>)
    BY DEF Locks, Relocks, LocksOnce, Checks
  <2> QED
    BY <2>2, <2>3
<1> QED
  BY <1>2, <1>3, <1>6, <1>7, <1>8

\* A step of one thread that leaves the lock where it is.
LEMMA LockFrame ==
    ASSUME TypeOK, LockInv, NEW t \in Threads, NEW s,
           code' = [code EXCEPT ![t] = s], gil' = gil,
           \A c \in CecThreads : cec'[c] = "release" => cec[c] = "release" \/ gil = c,
           Locks(s),
           \/ s = <<>>
           \/ gil = t /\ ~Unlocked(s)
           \/ code[t] # <<>> /\ (Unlocked(code[t]) <=> Unlocked(s))
    PROVE  LockInv'
<1>1. \A u \in Threads : code'[u] = IF u = t THEN s ELSE code[u]
  BY DEF TypeOK
<1>2. ASSUME NEW u \in Threads
      PROVE  Locks(code'[u]) /\ (code'[u] # <<>> => (Unlocked(code'[u]) <=> gil' # u))
  <2>1. CASE u = t
    BY <1>1, <2>1 DEF LockInv
  <2>2. CASE u # t
    BY <1>1, <2>2 DEF LockInv
  <2> QED
    BY <2>1, <2>2
<1> QED
  BY <1>2 DEF LockInv

\* Every action keeps LockInv.
LEMMA LockStep ==
    ASSUME LifeInv, LockInv, [Next]_vars
    PROVE  LockInv'
<1> USE DEF vars, object
<1>0. /\ TypeOK /\ ObjectInv /\ None \notin Threads
      /\ CecThreads \subseteq Threads
  BY ConstantsAssumption DEF LifeInv, Threads
<1>1. CASE UNCHANGED vars
  BY <1>1 DEF LockInv
<1>2. ASSUME NEW t \in Threads,
             AddCallback(t) \/ RemoveCallback(t) \/ InitialiseStarts(t)
      PROVE  LockInv'
  BY <1>2 DEF LockInv, AddCallback, RemoveCallback, InitialiseStarts
<1>3. ASSUME NEW t \in Threads, NEW u \in UserThreads, Share(t, u)
      PROVE  LockInv'
  BY <1>3 DEF LockInv, Share
<1>4. ASSUME NEW t \in Threads, TakeGil(t)
      PROVE  LockInv'
  BY <1>0, <1>4 DEF LockInv, TakeGil, InPython
<1>5. ASSUME NEW t \in Threads, DropGil(t)
      PROVE  LockInv'
  <2>1. code[t] = <<>> /\ (t \in CecThreads => cec[t] # "release") /\ gil = t
    BY <1>5 DEF DropGil, InPython
  <2> QED
    BY <1>0, <1>5, <2>1 DEF LockInv, DropGil
<1>6. ASSUME NEW t \in Threads, Unlock(t)
      PROVE  LockInv'
  <2>1. code[t] # <<>> /\ Head(code[t]) = "unlock" /\ code[t] \in Seq(Ops) /\ Locks(code[t])
    BY <1>0, <1>6 DEF Unlock, At, TypeOK, LockInv
  <2>2. ~Unlocked(code[t]) /\ Locks(Tail(code[t])) /\ Unlocked(Tail(code[t]))
    BY <2>1, LockGoesOn
  <2>3. gil = t
    BY <2>1, <2>2 DEF LockInv
  <2>4. t \in CecThreads => cec[t] # "release"
    <3>1. code[t] \notin Ends
      BY <2>1, EndGoesOn
    <3> QED
      BY <2>1, <3>1 DEF LifeInv, HandlerInv
  <2>5. \A u \in Threads : code'[u] = IF u = t THEN Tail(code[t]) ELSE code[u]
    BY <1>0, <1>6 DEF Unlock, Step, TypeOK
  <2>6. gil' = None /\ cec' = cec
    BY <1>6 DEF Unlock
  <2> QED
    BY <1>0, <2>2, <2>3, <2>4, <2>5, <2>6 DEF LockInv
<1>7. ASSUME NEW t \in Threads, Lock(t)
      PROVE  LockInv'
  <2>1. code[t] # <<>> /\ Head(code[t]) = "lock" /\ code[t] \in Seq(Ops) /\ Locks(code[t])
    BY <1>0, <1>7 DEF Lock, At, TypeOK, LockInv
  <2>2. Locks(Tail(code[t])) /\ ~Unlocked(Tail(code[t]))
    BY <2>1, LockGoesOn
  <2>3. \A u \in Threads : code'[u] = IF u = t THEN Tail(code[t]) ELSE code[u]
    BY <1>0, <1>7 DEF Lock, Step, TypeOK
  <2>4. gil = None /\ gil' = t /\ cec' = cec
    BY <1>7 DEF Lock
  <2> QED
    BY <1>0, <2>2, <2>3, <2>4 DEF LockInv
<1>8. ASSUME NEW t \in Threads, CallMethod(t) \/ DeviceNew(t) \/ Close(t)
      PROVE  LockInv'
  <2>1. PICK m \in AdapterMethods \cup AdapterProperties \cup DeviceMethods
                     \cup {ListDevices, AdapterClose, NewDevice \o <<"device">>} :
          code' = [code EXCEPT ![t] = m]
    BY <1>8 DEF CallMethod, DeviceNew, Close, Become
  <2>2. Locks(m) /\ ~Unlocked(m)
    BY FunctionsLock
  <2>3. gil = t /\ gil' = gil /\ cec' = cec
    BY <1>8 DEF CallMethod, DeviceNew, Close, MayCall, MayClose
  <2> QED
    BY <1>0, <2>1, <2>2, <2>3, LockFrame
<1>9. ASSUME NEW t \in Threads,
             InitialiseReturns(t) \/ CreationProceeds(t) \/ Created(t)
               \/ UseReturns(t) \/ FieldBuilt(t) \/ DeviceCreated(t)
               \/ Listed(t) \/ ListReturns(t) \/ CloseReturns(t) \/ CloseClears(t)
               \/ DestroyReturns(t) \/ Free(t)
      PROVE  LockInv'
  <2>1. code' = [code EXCEPT ![t] = Tail(code[t])] /\ gil' = gil /\ cec' = cec
    BY <1>9 DEF InitialiseReturns, CreationProceeds, Created, UseReturns, FieldBuilt,
                DeviceCreated, Listed, ListReturns, CloseReturns, CloseClears,
                DestroyReturns, Free, Step
  <2>2. code[t] # <<>> /\ Head(code[t]) \notin {"lock", "unlock"}
    BY <1>9 DEF InitialiseReturns, CreationProceeds, Created, UseReturns, FieldBuilt,
                DeviceCreated, Listed, ListReturns, CloseReturns, CloseClears,
                DestroyReturns, Free, At
  <2>3. Locks(Tail(code[t])) /\ (Unlocked(code[t]) <=> Unlocked(Tail(code[t])))
    BY <1>0, <2>2, LockGoesOn DEF TypeOK, LockInv
  <2> QED
    BY <1>0, <2>1, <2>2, <2>3, LockFrame
<1>10. ASSUME NEW t \in Threads, UseBegins(t) \/ CloseBegins(t)
       PROVE  LockInv'
  <2>1. PICK x \in {"using", "closing", "crashed"} :
          code' = [code EXCEPT ![t] = <<x>> \o Tail(code[t])]
    BY <1>10 DEF UseBegins, CloseBegins, Become
  <2>2. /\ code[t] # <<>> /\ code[t] \in Seq(Ops) /\ Locks(code[t])
        /\ Head(code[t]) \in {"use", "close"}
    BY <1>0, <1>10 DEF UseBegins, CloseBegins, At, TypeOK, LockInv
  <2> DEFINE s == <<x>> \o Tail(code[t])
  <2>3. Locks(s) /\ (Unlocked(code[t]) <=> Unlocked(s))
    BY <2>2, LockReplaced
  <2>4. code' = [code EXCEPT ![t] = s] /\ gil' = gil /\ cec' = cec
    BY <1>10, <2>1 DEF UseBegins, CloseBegins
  <2> HIDE DEF s
  <2> QED
    BY <1>0, <2>2, <2>3, <2>4, LockFrame
<1>11. ASSUME NEW t \in Threads, DeviceFails(t)
       PROVE  LockInv'
  <2>1. code' = [code EXCEPT ![t] = <<>>] /\ gil' = gil /\ cec' = cec
    BY <1>11 DEF DeviceFails, Become
  <2> QED
    BY <1>0, <2>1, LockFrame, FunctionsLock
<1>12. ASSUME NEW t \in Threads, ListNext(t)
       PROVE  LockInv'
  <2> DEFINE s == NewDevice \o <<"listed", "list">>
  <2>1. code' = [code EXCEPT ![t] = s] /\ gil' = gil /\ cec' = cec
    BY <1>12 DEF ListNext, Become
  <2>2. Locks(s) /\ ~Unlocked(s)
    BY FunctionsLock
  <2>3. code[t] # <<>> /\ Head(code[t]) = "list" /\ code[t] \in Seq(Ops)
    BY <1>0, <1>12 DEF ListNext, At, TypeOK
  <2>4. Calls(code[t])
    BY <1>0, <2>3, WhoRuns DEF Working
  <2>5. Len(code[t]) = 1 /\ code[t][1] = "list"
    <3>1. code[t][1] = "list" /\ 1 \in 1..Len(code[t])
      BY <2>3, Parts
    <3>2. \A i \in 1..Len(code[t]) : code[t][i] = "list" => i = Len(code[t])
      BY <2>4 DEF Calls
    <3> QED
      BY <3>1, <3>2
  <2>6. ~Unlocked(code[t])
    BY <2>5 DEF Unlocked
  <2>7. gil = t
    BY <2>3, <2>6 DEF LockInv
  <2> HIDE DEF s
  <2> QED
    BY <1>0, <2>1, <2>2, <2>7, LockFrame
<1>13. ASSUME NEW t \in Threads, CreationFails(t)
       PROVE  LockInv'
  <2>1. /\ code' = [code EXCEPT ![t] = <<"lock", "dealloc">>] /\ gil' = gil /\ cec' = cec
        /\ code[t] # <<>> /\ Head(code[t]) \in {"initialise", "detect", "open"}
    BY <1>13 DEF CreationFails, Become, At
  <2>2. Locks(<<"lock", "dealloc">>) /\ Unlocked(<<"lock", "dealloc">>)
    BY FunctionsLock
  <2>3. Unlocked(code[t])
    BY <1>0, <2>1, LockGoesOn DEF TypeOK, LockInv
  <2> QED
    BY <1>0, <2>1, <2>2, <2>3, LockFrame
<1>14. ASSUME NEW t \in Threads, Dealloc(t)
       PROVE  LockInv'
  <2>1. PICK s \in {<<"destroy", "free">>, <<"free">>} : code' = [code EXCEPT ![t] = s]
    BY <1>14 DEF Dealloc, Become
  <2>2. Locks(s) /\ ~Unlocked(s)
    BY FunctionsLock
  <2>3. code[t] # <<>> /\ Head(code[t]) = "dealloc" /\ gil' = gil /\ cec' = cec
    BY <1>14 DEF Dealloc, At
  <2>4. code[t] \in Ends
    BY <1>0, <2>3, WhoRuns
  <2>5. code[t] = <<"dealloc">>
    BY <2>3, <2>4 DEF Ends
  <2>6. ~Unlocked(code[t])
    BY <2>5 DEF Unlocked
  <2>7. gil = t
    BY <2>3, <2>6 DEF LockInv
  <2> QED
    BY <1>0, <2>1, <2>2, <2>3, <2>7, LockFrame
<1>15. ASSUME NEW t \in Threads, NEW k \in Kinds, Drop(t, k)
       PROVE  LockInv'
  <2>1. PICK s \in {<<>>, <<"dealloc">>} : code' = [code EXCEPT ![t] = s]
    BY <1>15 DEF Drop, Become
  <2>2. Locks(s) /\ ~Unlocked(s) /\ gil = t /\ gil' = gil /\ cec' = cec
    BY <1>15, FunctionsLock DEF Drop
  <2> QED
    BY <1>0, <2>1, <2>2, LockFrame
<1>16. ASSUME NEW u \in UserThreads, NEW named \in BOOLEAN, AdapterNew(u, named)
       PROVE  LockInv'
  <2>1. /\ u \in Threads /\ gil = u /\ gil' = gil /\ cec' = cec
        /\ code' = [code EXCEPT ![u] = Initialise(named)]
    BY <1>16 DEF AdapterNew, Become, Threads
  <2>2. Locks(Initialise(named)) /\ ~Unlocked(Initialise(named))
    BY FunctionsLock
  <2> QED
    BY <1>0, <2>1, <2>2, LockFrame
<1>17. ASSUME NEW c \in CecThreads, CallbackStarts(c)
       PROVE  LockInv'
  <2>1. /\ \A d \in CecThreads : cec'[d] = "release" => cec[d] = "release"
        /\ code' = code /\ gil' = gil
    BY <1>0, <1>17 DEF CallbackStarts, TypeOK
  <2> QED
    BY <2>1 DEF LockInv
<1>18. ASSUME NEW c \in CecThreads, CallbackEnsures(c)
       PROVE  LockInv'
  <2>1. /\ \A d \in CecThreads : cec'[d] = "release" => cec[d] = "release"
        /\ code' = code /\ gil = None /\ gil' = c
    BY <1>0, <1>18 DEF CallbackEnsures, TypeOK
  <2>2. code[c] = <<>>
    BY <1>18 DEF CallbackEnsures, LifeInv, HandlerInv
  <2> QED
    BY <1>0, <2>1, <2>2 DEF LockInv
<1>19. ASSUME NEW c \in CecThreads, CallbackReturns(c)
       PROVE  LockInv'
  <2>1. /\ \A d \in CecThreads : cec'[d] = "release" => cec[d] = "release" /\ d # c
        /\ code' = code /\ code[c] = <<>> /\ gil' = None
    BY <1>0, <1>19 DEF CallbackReturns, TypeOK
  <2>2. gil = c
    BY <1>19 DEF CallbackReturns, LockInv
  <2> QED
    BY <1>0, <2>1, <2>2 DEF LockInv
<1>20. ASSUME NEW c \in CecThreads, HandlerEnds(c)
       PROVE  LockInv'
  <2>1. PICK s \in {<<>>, <<"dealloc">>} : code' = [code EXCEPT ![c] = s]
    BY <1>20 DEF HandlerEnds, Become
  <2>2. /\ Locks(s) /\ ~Unlocked(s) /\ gil = c /\ gil' = gil
        /\ \A d \in CecThreads : cec'[d] = "release" => cec[d] = "release" \/ gil = d
    BY <1>0, <1>20, FunctionsLock DEF HandlerEnds, TypeOK
  <2> QED
    BY <1>0, <2>1, <2>2, LockFrame
<1> QED
  BY <1>1, <1>2, <1>3, <1>4, <1>5, <1>6, <1>7, <1>8, <1>9, <1>10, <1>11, <1>12, <1>13,
     <1>14, <1>15, <1>16, <1>17, <1>18, <1>19, <1>20
  DEF Next, Client, CStep, Creation, Method, Destruction, Callback

\* LockInv of Spec.
LEMMA LockInvariant == Spec => []LockInv
<1>1. Init => LockInv
  BY FunctionsLock DEF Init, LockInv
<1>2. LifeInv /\ LockInv /\ [Next]_vars => LockInv'
  BY LockStep
<1> QED
  BY <1>1, <1>2, LifeInvariant, PTL DEF Spec

\* What is to be done with the lock is done by a thread that has it, and what is
\* to be done without it by one that does not.
LEMMA LockAt ==
    ASSUME LifeInv, LockInv, NEW t \in Threads, code[t] # <<>>
    PROVE  /\ Head(code[t]) \in Touches => gil = t
           /\ Head(code[t]) \in Waits => gil # t
<1>0. /\ TypeOK /\ ObjectInv /\ code[t] \in Seq(Ops) /\ Locks(code[t])
      /\ Unlocked(code[t]) <=> gil # t
  BY DEF LifeInv, TypeOK, LockInv
<1>1. /\ Len(code[t]) \in Nat \ {0} /\ Head(code[t]) = code[t][1]
      /\ 1 \in 1..Len(code[t])
  BY <1>0, Parts
<1>2. CASE Head(code[t]) = "unlock" \/ Head(code[t]) = "lock"
  BY <1>0, <1>2, LockGoesOn DEF Touches, Waits
<1>3. CASE Head(code[t]) = "closing"
  <2>1. code[t] = <<"closing", "clear", "lock">>
    BY <1>0, <1>3, WhoRuns DEF Closes
  <2>2. 3 \in 1..Len(code[t]) /\ code[t][3] = "lock"
        /\ \A j \in 1..(3 - 1) : code[t][j] # "unlock"
    BY <2>1
  <2>3. Unlocked(code[t])
    BY <2>2 DEF Unlocked
  <2> QED
    BY <1>0, <1>3, <2>3 DEF Touches
<1>4. CASE Head(code[t]) = "field"
  <2>1. ~Unlocked(Tail(code[t])) /\ (Unlocked(code[t]) <=> Unlocked(Tail(code[t])))
    BY <1>0, <1>4, LockGoesOn
  <2> QED
    BY <1>0, <1>4, <2>1 DEF Waits
<1>5. CASE Head(code[t]) \in {"device", "list", "listed"}
  <2>1. Calls(code[t])
    BY <1>0, <1>5, WhoRuns DEF Working
  <2>2. \A i \in 1..Len(code[t]) :
          /\ code[t][i] \in {"device", "list"} => i = Len(code[t])
          /\ code[t][i] = "listed" => i = Len(code[t]) - 1 /\ code[t][Len(code[t])] = "list"
    BY <2>1 DEF Calls
  <2>3. \A i \in 1..Len(code[t]) : code[t][i] # "lock"
    BY <1>1, <1>5, <2>2
  <2>4. ~Unlocked(code[t])
    BY <2>3 DEF Unlocked
  <2> QED
    BY <1>0, <1>5, <2>4 DEF Waits
<1>6. CASE Head(code[t]) = "created"
  <2>1. Creates(code[t])
    BY <1>0, <1>6, WhoRuns
  <2>2. \A i \in 1..Len(code[t]) : code[t][i] = "created" => i = Len(code[t])
    BY <2>1 DEF Creates
  <2>3. \A i \in 1..Len(code[t]) : code[t][i] # "lock"
    BY <1>1, <1>6, <2>2
  <2>4. ~Unlocked(code[t])
    BY <2>3 DEF Unlocked
  <2> QED
    BY <1>0, <1>6, <2>4 DEF Waits
<1>7. CASE Head(code[t]) \in {"dealloc", "free"}
  <2>1. code[t] = <<"dealloc">> \/ code[t] = <<"free">>
    BY <1>0, <1>7, WhoRuns DEF Ends
  <2>2. ~Unlocked(code[t])
    BY <2>1, FunctionsLock
  <2> QED
    BY <1>0, <1>7, <2>2 DEF Waits
<1> QED
  BY <1>2, <1>3, <1>4, <1>5, <1>6, <1>7 DEF Touches, Waits

\* Every C function has the interpreter lock where it touches Python objects and
\* where it is about to release it, and does not have it where it takes it or
\* waits for callbacks in Close: whatever fails, with any number of threads,
\* clients and callbacks.
THEOREM LockIsAsNeeded == Spec => []LockAsNeeded
<1>1. LifeInv /\ LockInv => LockAsNeeded
  BY LockAt DEF LockAsNeeded, At
<1> QED
  BY <1>1, LifeInvariant, LockInvariant, PTL

-----------------------------------------------------------------------------
(* Clients that close while nothing else runs, and call nothing after it.   *)

\* What is left of the function calls libcec; closes the Adapter.
Uses(s) == Range(s) \cap {"use", "list"} # {}
ClosesAdapter(s) == Range(s) \cap {"close", "closing", "clear"} # {}

\* While a thread closes, the client's other threads are in no call that uses
\* the pointer; whoever is to use it finds it.
QuietInv ==
    /\ \A t \in Threads : ClosesAdapter(code[t]) =>
          /\ t \in UserThreads
          /\ \A u \in UserThreads \ {t} : ~Uses(code[u]) /\ ~ClosesAdapter(code[u])
    /\ \A t \in UserThreads :
          Uses(code[t]) \/ "close" \in Range(code[t]) => adapter = "set"
    /\ NoNullCall

\* What the functions that a thread may begin do.
LEMMA FunctionUses ==
    /\ \A m \in AdapterMethods \cup AdapterProperties \cup DeviceMethods \cup {ListDevices} :
          ~ClosesAdapter(m)
    /\ ~Uses(AdapterClose)
    /\ ~ClosesAdapter(NewDevice \o <<"device">>)
    /\ ~ClosesAdapter(NewDevice \o <<"listed", "list">>)
    /\ \A s : Creates(s) => ~Uses(s) /\ ~ClosesAdapter(s) /\ "close" \notin Range(s)
    /\ \A s \in Ends \cup {<<>>} : ~Uses(s) /\ ~ClosesAdapter(s) /\ "close" \notin Range(s)
<1>1. ASSUME NEW s, Calls(s) PROVE ~ClosesAdapter(s)
  <2>1. s \in Seq(CallOps)
    BY <1>1 DEF Calls
  <2>2. \A x \in Range(s) : x \in CallOps
    BY <2>1, RangeIs
  <2> QED
    BY <2>2 DEF ClosesAdapter, CallOps
<1>2. ~Uses(AdapterClose)
  BY DEF Uses, AdapterClose, Range
<1>3. ASSUME NEW s, Creates(s)
      PROVE  ~Uses(s) /\ ~ClosesAdapter(s) /\ "close" \notin Range(s)
  <2>1. s \in Seq(CreateOps)
    BY <1>3 DEF Creates
  <2>2. \A x \in Range(s) : x \in CreateOps
    BY <2>1, RangeIs
  <2> QED
    BY <2>2 DEF Uses, ClosesAdapter, CreateOps
<1>4. ASSUME NEW s \in Ends \cup {<<>>}
      PROVE  ~Uses(s) /\ ~ClosesAdapter(s) /\ "close" \notin Range(s)
  <2>1. /\ Range(<<"lock", "dealloc">>) = {"lock", "dealloc"}
        /\ Range(<<"dealloc">>) = {"dealloc"} /\ Range(<<"free">>) = {"free"}
        /\ Range(<<"destroy", "free">>) = {"destroy", "free"} /\ Range(<<>>) = {}
    BY DEF Range
  <2>2. \A x \in Range(s) : x \in {"lock", "dealloc", "free", "destroy"}
    BY <2>1 DEF Ends
  <2> QED
    BY <2>2 DEF Uses, ClosesAdapter
<1> QED
  BY <1>1, <1>2, <1>3, <1>4, MethodsAreCalls, DeviceIsCall

\* A step of one thread after which it has nothing more to do with the pointer
\* than before.
LEMMA QuietFrame ==
    ASSUME TypeOK, QuietInv, NEW t \in Threads, NEW s,
           code' = [code EXCEPT ![t] = s], adapter' = adapter,
           ClosesAdapter(s) => ClosesAdapter(code[t]),
           Uses(s) => Uses(code[t]),
           "close" \in Range(s) => "close" \in Range(code[t]),
           s # <<>> => Head(s) # "crashed"
    PROVE  QuietInv'
<1>1. \A u \in Threads : code'[u] = IF u = t THEN s ELSE code[u]
  BY DEF TypeOK
<1>2. UserThreads \subseteq Threads
  BY DEF Threads
<1>3. \A u \in Threads : /\ ClosesAdapter(code'[u]) => ClosesAdapter(code[u])
                         /\ Uses(code'[u]) => Uses(code[u])
                         /\ "close" \in Range(code'[u]) => "close" \in Range(code[u])
  BY <1>1
<1>4. ASSUME NEW u \in Threads, ClosesAdapter(code'[u])
      PROVE  /\ u \in UserThreads
             /\ \A v \in UserThreads \ {u} : ~Uses(code'[v]) /\ ~ClosesAdapter(code'[v])
  BY <1>2, <1>3, <1>4 DEF QuietInv
<1>5. \A u \in UserThreads : Uses(code'[u]) \/ "close" \in Range(code'[u]) => adapter' = "set"
  BY <1>2, <1>3 DEF QuietInv
<1>6. NoNullCall'
  BY <1>1 DEF QuietInv, NoNullCall, At
<1> QED
  BY <1>4, <1>5, <1>6 DEF QuietInv

\* Whoever is about to go through the pointer finds it set: a thread of libcec
\* because its callback runs on an instance that nobody has closed yet.
LEMMA PointerIsSet ==
    ASSUME LifeInv, QuietInv, NEW t \in Threads, At(t, "use") \/ At(t, "close")
    PROVE  adapter = "set"
<1>1. /\ TypeOK /\ ObjectInv /\ code[t] # <<>> /\ code[t] \in Seq(Ops)
      /\ Head(code[t]) \in {"use", "close"}
  BY DEF LifeInv, TypeOK, At
<1>2. Head(code[t]) \in Range(code[t])
  BY <1>1, RangeParts
<1>3. CASE t \in UserThreads
  BY <1>1, <1>2, <1>3 DEF QuietInv, Uses
<1>4. CASE t \notin UserThreads
  <2>1. t \in CecThreads
    BY <1>4 DEF Threads
  <2>2. code[t] \notin Ends
    BY <1>1, EndGoesOn
  <2>3. cec[t] = "handler"
    BY <1>1, <2>1, <2>2 DEF LifeInv, HandlerInv
  <2>4. lib = "up"
    BY <2>1, <2>3 DEF LifeInv, InstanceInv, Joined
  <2>5. Working(t)
    BY <1>1, WhoRuns
  <2>6. \A u \in Threads : ~At(u, "initialise")
    <3>1. obj = "live"
      BY <2>5 DEF Working
    <3>2. \A u \in Threads : code[u] # <<>> /\ Head(code[u]) = "initialise" => obj = "building"
      BY <1>1, WhoRuns DEF Building
    <3> QED
      BY <3>1, <3>2 DEF At
  <2> QED
    BY <2>4, <2>6 DEF LifeInv, InstanceInv
<1> QED
  BY <1>3, <1>4

\* A client thread that may call finds nobody closing: who is at the start of
\* adapter_close has the interpreter lock.
LEMMA NobodyCloses ==
    ASSUME QuietClose, LifeInv, LockInv, QuietInv, NEW t \in UserThreads, MayCall(t)
    PROVE  adapter = "set" /\ \A u \in Threads : ~ClosesAdapter(code[u])
<1>1. /\ adapter = "set" /\ gil = t /\ code[t] = <<>>
      /\ \A u \in UserThreads : ~Closing(u)
  BY DEF MayCall, InPython
<1>2. ASSUME NEW u \in Threads, ClosesAdapter(code[u]) PROVE FALSE
  <2>1. u \in UserThreads
    BY <1>2 DEF QuietInv
  <2>2. code[u] # <<>> /\ ~Creates(code[u]) /\ code[u] \notin Ends
    BY <1>2, FunctionUses
  <2>3. ~Calls(code[u])
    <3>1. ASSUME Calls(code[u]) PROVE \A x \in Range(code[u]) : x \in CallOps
      BY <3>1, RangeIs DEF Calls
    <3> QED
      BY <1>2, <3>1 DEF ClosesAdapter, CallOps
  <2>4. code[u] \in Closes
    BY <2>2, <2>3, WhoRuns DEF LifeInv, Building, Working, Ending
  <2>5. Head(code[u]) \in {"unlock", "lock", "close", "closing", "clear", "crashed"}
    BY <2>4, CloseGoesOn
  <2>6. Head(code[u]) \notin {"close", "closing", "clear"}
    BY <1>1, <2>1, <2>2 DEF Closing, At
  <2>7. Head(code[u]) # "crashed"
    BY <2>2 DEF QuietInv, NoNullCall, At
  <2>8. ASSUME Head(code[u]) = "lock" PROVE FALSE
    <3>1. code[u] = <<"lock">>
      BY <2>4, <2>8 DEF Closes
    <3>2. Range(<<"lock">>) = {"lock"}
      BY DEF Range
    <3> QED
      BY <1>2, <3>1, <3>2 DEF ClosesAdapter
  <2>9. ASSUME Head(code[u]) = "unlock" PROVE FALSE
    <3>1. code[u] = AdapterClose
      BY <2>4, <2>9 DEF Closes, AdapterClose
    <3>2. gil = u
      BY <2>2, <3>1, FunctionsLock DEF LockInv
    <3> QED
      BY <1>1, <2>2, <3>2
  <2> QED
    BY <2>5, <2>6, <2>7, <2>8, <2>9
<1> QED
  BY <1>1, <1>2

\* Every action of such a client keeps QuietInv.
LEMMA QuietStep ==
    ASSUME QuietClose, LifeInv, LockInv, QuietInv, [Next]_vars
    PROVE  QuietInv'
<1> USE DEF vars, object
<1>0. /\ TypeOK /\ ObjectInv /\ UserThreads \subseteq Threads
      /\ UserThreads \cap CecThreads = {}
  BY ConstantsAssumption DEF LifeInv, Threads
<1>1. ASSUME code' = code, adapter' = adapter PROVE QuietInv'
  BY <1>1 DEF QuietInv, NoNullCall, At
<1>2. CASE UNCHANGED vars
  BY <1>1, <1>2
<1>3. ASSUME NEW t \in Threads,
             TakeGil(t) \/ DropGil(t) \/ AddCallback(t) \/ RemoveCallback(t)
               \/ InitialiseStarts(t)
      PROVE  QuietInv'
  BY <1>1, <1>3 DEF TakeGil, DropGil, AddCallback, RemoveCallback, InitialiseStarts
<1>4. ASSUME NEW t \in Threads, NEW u \in UserThreads, Share(t, u)
      PROVE  QuietInv'
  BY <1>1, <1>4 DEF Share
<1>5. ASSUME NEW c \in CecThreads, CallbackStarts(c) \/ CallbackEnsures(c) \/ CallbackReturns(c)
      PROVE  QuietInv'
  BY <1>1, <1>5 DEF CallbackStarts, CallbackEnsures, CallbackReturns
<1>6. ASSUME NEW t \in Threads, CallMethod(t) \/ DeviceNew(t)
      PROVE  QuietInv'
  <2>1. PICK m \in AdapterMethods \cup AdapterProperties \cup DeviceMethods
                     \cup {ListDevices, NewDevice \o <<"device">>} :
          code' = [code EXCEPT ![t] = m]
    BY <1>6 DEF CallMethod, DeviceNew, Become
  <2>2. Head(m) \in {"unlock", "use"} /\ ~ClosesAdapter(m) /\ "close" \notin Range(m)
    <3>1. Head(m) \in {"unlock", "use"}
      BY MethodsAreCalls, DeviceIsCall
    <3>2. ~ClosesAdapter(m)
      BY FunctionUses
    <3> QED
      BY <3>1, <3>2 DEF ClosesAdapter
  <2>3. \A u \in Threads : code'[u] = IF u = t THEN m ELSE code[u]
    BY <1>0, <2>1 DEF TypeOK
  <2>4. adapter' = adapter /\ MayCall(t)
    BY <1>6 DEF CallMethod, DeviceNew
  <2>5. NoNullCall'
    BY <2>2, <2>3 DEF QuietInv, NoNullCall, At
  <2>6. CASE t \in UserThreads
    <3>1. adapter = "set" /\ \A u \in Threads : ~ClosesAdapter(code[u])
      BY <2>4, <2>6, NobodyCloses
    <3>2. \A u \in Threads : ~ClosesAdapter(code'[u])
      BY <2>2, <2>3, <3>1
    <3> QED
      BY <2>4, <2>5, <3>1, <3>2 DEF QuietInv
  <2>7. CASE t \notin UserThreads
    <3>1. \A u \in UserThreads : code'[u] = code[u]
      BY <1>0, <2>3, <2>7
    <3>2. \A u \in Threads : ClosesAdapter(code'[u]) => ClosesAdapter(code[u])
      BY <2>2, <2>3
    <3> QED
      BY <1>0, <2>4, <2>5, <3>1, <3>2 DEF QuietInv
  <2> QED
    BY <2>6, <2>7
<1>7. ASSUME NEW t \in Threads, Close(t)
      PROVE  QuietInv'
  <2>1. /\ t \in UserThreads /\ adapter = "set" /\ adapter' = "set"
        /\ \A u \in UserThreads : code[u] = <<>>
        /\ code' = [code EXCEPT ![t] = AdapterClose]
    BY <1>7 DEF Close, MayClose, InPython, Become
  <2>2. \A u \in Threads : code'[u] = IF u = t THEN AdapterClose ELSE code[u]
    BY <1>0, <2>1 DEF TypeOK
  <2>3. \A u \in UserThreads \ {t} : ~Uses(code'[u]) /\ ~ClosesAdapter(code'[u])
    BY <1>0, <2>1, <2>2, FunctionUses
  <2>4. \A u \in Threads \ {t} : ~ClosesAdapter(code'[u])
    BY <2>1, <2>2, FunctionUses DEF QuietInv
  <2>5. NoNullCall'
    BY <2>2, CloseGoesOn DEF QuietInv, NoNullCall, At
  <2> QED
    BY <2>1, <2>3, <2>4, <2>5 DEF QuietInv
<1>8. ASSUME NEW t \in Threads,
             Unlock(t) \/ Lock(t) \/ CreationProceeds(t) \/ Created(t)
               \/ UseReturns(t) \/ FieldBuilt(t) \/ DeviceCreated(t)
               \/ Listed(t) \/ ListReturns(t) \/ CloseReturns(t) \/ Free(t)
      PROVE  QuietInv'
  <2>1. code' = [code EXCEPT ![t] = Tail(code[t])] /\ adapter' = adapter
    BY <1>8 DEF Unlock, Lock, CreationProceeds, Created, UseReturns, FieldBuilt,
                DeviceCreated, Listed, ListReturns, CloseReturns, Free, Step
  <2>2. /\ code[t] # <<>> /\ code[t] \in Seq(Ops)
        /\ Head(code[t]) \notin {"use", "crashed", "close", "dealloc"}
    BY <1>0, <1>8 DEF Unlock, Lock, CreationProceeds, Created, UseReturns, FieldBuilt,
                DeviceCreated, Listed, ListReturns, CloseReturns, Free, At, TypeOK
  <2>3. \A x : x \in Range(Tail(code[t])) => x \in Range(code[t])
    BY <2>2, RangeParts
  <2>4. Tail(code[t]) # <<>> => Head(Tail(code[t])) # "crashed"
    BY <2>2, NextHead
  <2>5. /\ ClosesAdapter(Tail(code[t])) => ClosesAdapter(code[t])
        /\ Uses(Tail(code[t])) => Uses(code[t])
    BY <2>3 DEF ClosesAdapter, Uses
  <2> QED
    BY <1>0, <2>1, <2>3, <2>4, <2>5, QuietFrame
<1>9. ASSUME NEW t \in Threads, InitialiseReturns(t)
      PROVE  QuietInv'
  <2>1. code[t] # <<>> /\ Head(code[t]) = "initialise"
    BY <1>9 DEF InitialiseReturns, At
  <2>2. Creates(Tail(code[t])) /\ (Tail(code[t]) # <<>> => Head(Tail(code[t])) # "crashed")
    BY <1>0, <2>1, WhoRuns, CreationGoesOn, NextHead
  <2>3. /\ \A u \in Threads : code'[u] = IF u = t THEN Tail(code[t]) ELSE code[u]
        /\ adapter' = "set"
    BY <1>0, <1>9 DEF InitialiseReturns, Step, TypeOK
  <2>4. \A u \in Threads : /\ ClosesAdapter(code'[u]) => ClosesAdapter(code[u])
                           /\ Uses(code'[u]) => Uses(code[u])
    BY <2>2, <2>3, FunctionUses
  <2>5. NoNullCall'
    BY <2>2, <2>3 DEF QuietInv, NoNullCall, At
  <2> QED
    BY <1>0, <2>3, <2>4, <2>5 DEF QuietInv
<1>10. ASSUME NEW t \in Threads, UseBegins(t) \/ CloseBegins(t)
       PROVE  QuietInv'
  <2>1. /\ At(t, "use") \/ At(t, "close")
        /\ code[t] # <<>> /\ code[t] \in Seq(Ops)
        /\ Head(code[t]) \in {"use", "close"}
    BY <1>0, <1>10 DEF UseBegins, CloseBegins, At, TypeOK
  <2>2. adapter = "set"
    BY <2>1, PointerIsSet
  <2>3. PICK x \in {"using", "closing"} :
          /\ code' = [code EXCEPT ![t] = <<x>> \o Tail(code[t])]
          /\ x = "closing" => Head(code[t]) = "close"
    BY <1>10, <2>2 DEF UseBegins, CloseBegins, Become, At
  <2> DEFINE s == <<x>> \o Tail(code[t])
  <2>4. s \in Seq(Ops) /\ s # <<>> /\ Head(s) = x /\ Tail(s) = Tail(code[t])
    <3>1. x \in Ops
      BY DEF Ops
    <3> QED
      BY <2>1, <3>1, ReplaceHead
  <2>5. code' = [code EXCEPT ![t] = s] /\ adapter' = adapter
    BY <1>10, <2>3 DEF UseBegins, CloseBegins
  <2> HIDE DEF s
  <2>6. \A y : y \in Range(s) <=> y = x \/ y \in Range(Tail(code[t]))
    BY <2>4, RangeParts
  <2>7. \A y : y \in Range(code[t]) <=> y = Head(code[t]) \/ y \in Range(Tail(code[t]))
    BY <2>1, RangeParts
  <2>8. /\ ClosesAdapter(s) => ClosesAdapter(code[t])
        /\ Uses(s) => Uses(code[t])
        /\ "close" \in Range(s) => "close" \in Range(code[t])
    BY <2>3, <2>6, <2>7 DEF ClosesAdapter, Uses
  <2> QED
    BY <1>0, <2>4, <2>5, <2>8, QuietFrame
<1>11. ASSUME NEW t \in Threads, DeviceFails(t) \/ CreationFails(t) \/ Dealloc(t)
       PROVE  QuietInv'
  <2>1. PICK s \in {<<>>, <<"lock", "dealloc">>, <<"destroy", "free">>, <<"free">>} :
          code' = [code EXCEPT ![t] = s]
    BY <1>11 DEF DeviceFails, CreationFails, Dealloc, Become
  <2>2. s \in Ends \cup {<<>>}
    BY DEF Ends
  <2>3. adapter' = adapter
    BY <1>11 DEF DeviceFails, CreationFails, Dealloc
  <2>4. s # <<>> => Head(s) # "crashed"
    BY <2>2, EndGoesOn
  <2> QED
    BY <1>0, <2>1, <2>2, <2>3, <2>4, FunctionUses, QuietFrame
<1>12. ASSUME NEW t \in Threads, ListNext(t)
       PROVE  QuietInv'
  <2> DEFINE s == NewDevice \o <<"listed", "list">>
  <2>1. code' = [code EXCEPT ![t] = s] /\ adapter' = adapter
    BY <1>12 DEF ListNext, Become
  <2>2. s # <<>> /\ Head(s) = "unlock" /\ ~ClosesAdapter(s)
    BY DeviceIsCall, FunctionUses
  <2>3. Uses(code[t])
    <3>1. code[t] # <<>> /\ Head(code[t]) = "list" /\ code[t] \in Seq(Ops)
      BY <1>0, <1>12 DEF ListNext, At, TypeOK
    <3>2. "list" \in Range(code[t])
      BY <3>1, RangeParts
    <3> QED
      BY <3>2 DEF Uses
  <2> HIDE DEF s
  <2>4. "close" \notin Range(s)
    BY <2>2 DEF ClosesAdapter
  <2> QED
    BY <1>0, <2>1, <2>2, <2>3, <2>4, QuietFrame
<1>13. ASSUME NEW t \in Threads, CloseClears(t)
       PROVE  QuietInv'
  <2>1. code[t] # <<>> /\ Head(code[t]) = "clear" /\ code[t] \in Seq(Ops)
    BY <1>0, <1>13 DEF CloseClears, At, TypeOK
  <2>2. code[t] = <<"clear", "lock">>
    BY <1>0, <2>1, WhoRuns DEF Closes
  <2>3. Tail(code[t]) = <<"lock">> /\ Range(<<"lock">>) = {"lock"}
    BY <2>2 DEF Range
  <2>4. ClosesAdapter(code[t])
    <3>1. "clear" \in Range(code[t])
      BY <2>1, RangeParts
    <3> QED
      BY <3>1 DEF ClosesAdapter
  <2>5. /\ t \in UserThreads
        /\ \A u \in UserThreads \ {t} : ~Uses(code[u]) /\ ~ClosesAdapter(code[u])
    BY <2>4 DEF QuietInv
  <2>6. \A u \in Threads : code'[u] = IF u = t THEN <<"lock">> ELSE code[u]
    BY <1>0, <1>13, <2>3 DEF CloseClears, Step, TypeOK
  <2>7. \A u \in UserThreads : ~Uses(code'[u]) /\ ~ClosesAdapter(code'[u])
    BY <1>0, <2>3, <2>5, <2>6 DEF Uses, ClosesAdapter
  <2>8. \A u \in Threads : ~ClosesAdapter(code'[u])
    <3>1. \A u \in Threads \ UserThreads : ~ClosesAdapter(code[u])
      BY DEF QuietInv
    <3>2. \A u \in Threads \ UserThreads : code'[u] = code[u]
      BY <2>5, <2>6
    <3> QED
      BY <2>7, <3>1, <3>2
  <2>9. \A u \in UserThreads : "close" \notin Range(code'[u])
    BY <2>7 DEF ClosesAdapter
  <2>10. NoNullCall'
    <3>1. Head(<<"lock">>) = "lock"
      OBVIOUS
    <3> QED
      BY <2>6, <3>1 DEF QuietInv, NoNullCall, At
  <2> QED
    BY <2>7, <2>8, <2>9, <2>10 DEF QuietInv
<1>14. ASSUME NEW t \in Threads, DestroyReturns(t)
       PROVE  QuietInv'
  <2>1. code[t] # <<>> /\ Head(code[t]) = "destroy"
    BY <1>14 DEF DestroyReturns, At
  <2>2. code[t] \in Ends /\ Alone(t)
    BY <1>0, <2>1, WhoRuns DEF Building, Ending
  <2>3. Tail(code[t]) \in Ends /\ Head(Tail(code[t])) # "crashed"
    BY <2>1, <2>2, EndGoesOn
  <2>4. \A u \in Threads : code'[u] = IF u = t THEN Tail(code[t]) ELSE <<>>
    BY <1>0, <1>14, <2>2 DEF DestroyReturns, Step, TypeOK, Alone
  <2>5. \A u \in Threads : code'[u] \in Ends \cup {<<>>}
    BY <2>3, <2>4
  <2>6. NoNullCall'
    BY <2>3, <2>4 DEF NoNullCall, At
  <2> QED
    BY <1>0, <2>5, <2>6, FunctionUses DEF QuietInv
<1>15. ASSUME NEW t \in Threads, NEW k \in Kinds, Drop(t, k)
       PROVE  QuietInv'
  <2>1. PICK s \in {<<>>, <<"dealloc">>} : code' = [code EXCEPT ![t] = s]
    BY <1>15 DEF Drop, Become
  <2>2. s \in Ends \cup {<<>>} /\ adapter' = adapter
    BY <1>15 DEF Ends, Drop
  <2>3. s # <<>> => Head(s) # "crashed"
    BY <2>2, EndGoesOn
  <2> QED
    BY <1>0, <2>1, <2>2, <2>3, FunctionUses, QuietFrame
<1>16. ASSUME NEW u \in UserThreads, NEW named \in BOOLEAN, AdapterNew(u, named)
       PROVE  QuietInv'
  <2> DEFINE s == Initialise(named)
  <2>1. u \in Threads /\ code' = [code EXCEPT ![u] = s] /\ adapter' = adapter
    BY <1>0, <1>16 DEF AdapterNew, Become
  <2>2. Creates(s) /\ Head(s) # "crashed"
    BY CreationBegins, CreationGoesOn DEF CreateOps
  <2> HIDE DEF s
  <2> QED
    BY <1>0, <2>1, <2>2, FunctionUses, QuietFrame
<1>17. ASSUME NEW c \in CecThreads, HandlerEnds(c)
       PROVE  QuietInv'
  <2>1. PICK s \in {<<>>, <<"dealloc">>} : code' = [code EXCEPT ![c] = s]
    BY <1>17 DEF HandlerEnds, Become
  <2>2. s \in Ends \cup {<<>>} /\ adapter' = adapter /\ c \in Threads
    BY <1>17 DEF Ends, HandlerEnds, Threads
  <2>3. s # <<>> => Head(s) # "crashed"
    BY <2>2, EndGoesOn
  <2> QED
    BY <1>0, <2>1, <2>2, <2>3, FunctionUses, QuietFrame
<1> QED
  BY <1>2, <1>3, <1>4, <1>5, <1>6, <1>7, <1>8, <1>9, <1>10, <1>11, <1>12, <1>13,
     <1>14, <1>15, <1>16, <1>17
  DEF Next, Client, CStep, Creation, Method, Destruction, Callback

\* A client that closes only while none of its threads is in a call, and calls
\* nothing afterwards, never goes through the null pointer that close() leaves:
\* no method checks it.
THEOREM QuietCloseIsSafe ==
    ASSUME QuietClose
    PROVE  Spec => []NoNullCall
<1>1. Init => QuietInv
  <2> SUFFICES ASSUME Init PROVE QuietInv
    OBVIOUS
  <2>1. (\A t \in Threads : code[t] = <<>>) /\ UserThreads \subseteq Threads
    BY DEF Init, Threads
  <2>2. NoNullCall
    BY <2>1 DEF NoNullCall, At
  <2> QED
    BY <2>1, <2>2, FunctionUses DEF QuietInv
<1>2. LifeInv /\ LockInv /\ QuietInv /\ [Next]_vars => QuietInv'
  BY QuietStep
<1>3. QuietInv => NoNullCall
  BY DEF QuietInv
<1> QED
  BY <1>1, <1>2, <1>3, LifeInvariant, LockInvariant, PTL DEF Spec
=============================================================================
