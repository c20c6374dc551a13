----------------------- MODULE AdapterLifecycleProofs -----------------------
(***************************************************************************)
(* Theorems about AdapterLifecycle, for any number of threads, Devices and *)
(* fields of a Device.                                                     *)
(***************************************************************************)
EXTENDS AdapterLifecycle, FiniteSetTheorems, SequenceTheorems, TLAPS

-----------------------------------------------------------------------------
(* What a thread may have left of a C function.                             *)

CallOps == {"unlock", "lock", "use", "using", "crashed",
            "field", "device", "list", "listed"}

\* A Device is being built for s, and for list_devices.
Makes(s) == Range(s) \cap {"device", "listed"} # {}
Lists(s) == "listed" \in Range(s)

\* What is left of a method, Device_new or list_devices.
Calls(s) ==
    /\ s \in Seq(CallOps)
    /\ \A i \in 1..Len(s) :
          /\ s[i] \in {"device", "list"} => i = Len(s)
          /\ s[i] = "listed" => i = Len(s) - 1 /\ s[Len(s)] = "list"
          /\ s[i] = "field" => Makes(s)
          /\ s[i] \in {"using", "crashed"} => i = 1

\* ... of adapter_close.
Closes == {<<"unlock", "close", "clear", "lock">>, <<"close", "clear", "lock">>,
           <<"closing", "clear", "lock">>, <<"crashed", "clear", "lock">>,
           <<"clear", "lock">>, <<"lock">>}

\* ... of Adapter_dealloc, after Adapter_new failed or at the last reference.
Ends == {<<"lock", "dealloc">>, <<"dealloc">>, <<"destroy", "free">>, <<"free">>}

CreateOps == {"unlock", "lock", "initialise", "video", "detect", "open", "created"}

\* ... of Adapter_new.
Creates(s) ==
    /\ s \in Seq(CreateOps)
    /\ \A i \in 1..Len(s) : s[i] = "created" => i = Len(s)

-----------------------------------------------------------------------------
(* Sequences.                                                               *)

\* The parts of a sequence that is not empty.
LEMMA Parts ==
    ASSUME NEW S, NEW s \in Seq(S), s # <<>>
    PROVE  /\ Len(s) \in Nat \ {0} /\ Head(s) = s[1] /\ Head(s) \in S
           /\ Tail(s) \in Seq(S) /\ Len(Tail(s)) = Len(s) - 1
           /\ \A i \in 1..(Len(s) - 1) : Tail(s)[i] = s[i + 1]
  OBVIOUS

\* The members of a sequence are those at its positions.
LEMMA RangeIs ==
    ASSUME NEW S, NEW s \in Seq(S), NEW x
    PROVE  x \in Range(s) <=> \E i \in 1..Len(s) : s[i] = x
  BY DEF Range

\* ... that is, the first and those of the rest.
LEMMA RangeParts ==
    ASSUME NEW S, NEW s \in Seq(S), s # <<>>, NEW x
    PROVE  x \in Range(s) <=> x = Head(s) \/ x \in Range(Tail(s))
<1>0. Tail(s) \in Seq(S)
  BY Parts
<1>1. ASSUME x \in Range(s) PROVE x = Head(s) \/ x \in Range(Tail(s))
  <2>1. PICK i \in 1..Len(s) : s[i] = x
    BY <1>1, RangeIs
  <2>2. CASE i = 1
    BY <2>1, <2>2, Parts
  <2>3. CASE i # 1
    <3>1. i - 1 \in 1..Len(Tail(s)) /\ Tail(s)[i - 1] = x
      BY <2>1, <2>3, Parts
    <3> QED
      BY <3>1, <1>0, RangeIs
  <2> QED
    BY <2>2, <2>3
<1>2. ASSUME x = Head(s) PROVE x \in Range(s)
  BY <1>2, Parts, RangeIs
<1>3. ASSUME x \in Range(Tail(s)) PROVE x \in Range(s)
  <2>1. PICK i \in 1..Len(Tail(s)) : Tail(s)[i] = x
    BY <1>0, <1>3, RangeIs
  <2>2. i + 1 \in 1..Len(s) /\ s[i + 1] = x
    BY <2>1, Parts
  <2> QED
    BY <2>2, RangeIs
<1> QED
  BY <1>1, <1>2, <1>3

\* Replacing the first element.
LEMMA ReplaceHead ==
    ASSUME NEW S, NEW s \in Seq(S), s # <<>>, NEW x \in S
    PROVE  /\ <<x>> \o Tail(s) \in Seq(S)
           /\ <<x>> \o Tail(s) # <<>>
           /\ Len(<<x>> \o Tail(s)) = Len(s)
           /\ Head(<<x>> \o Tail(s)) = x /\ Tail(<<x>> \o Tail(s)) = Tail(s)
           /\ (<<x>> \o Tail(s))[1] = x
           /\ \A i \in 2..Len(s) : (<<x>> \o Tail(s))[i] = s[i]
  OBVIOUS

-----------------------------------------------------------------------------
(* How the jobs begin and go on.                                            *)

\* One step of a method, of Device_new or of list_devices leaves another; the
\* Device under way ends where it is handed over.
LEMMA CallGoesOn ==
    ASSUME NEW s, Calls(s), s # <<>>
    PROVE  /\ s \in Seq(CallOps) /\ Head(s) \in CallOps
           /\ Calls(Tail(s))
           /\ Head(s) \notin {"device", "listed"} => (Makes(Tail(s)) <=> Makes(s))
           /\ Head(s) # "listed" => (Lists(Tail(s)) <=> Lists(s))
           /\ Head(s) \in {"device", "listed"} => Makes(s) /\ ~Makes(Tail(s))
           /\ Head(s) = "listed" => Lists(s) /\ ~Lists(Tail(s))
           /\ Head(s) = "field" => Makes(s)
           /\ Head(s) = "list" => ~Makes(s) /\ ~Lists(s)
           /\ Tail(s) # <<>> => Head(Tail(s)) \in CallOps \ {"using", "crashed"}
<1> DEFINE r == Tail(s)
<1>1. s \in Seq(CallOps)
  BY DEF Calls
<1>2. /\ Len(s) \in Nat \ {0} /\ Head(s) = s[1] /\ Head(s) \in CallOps
      /\ r \in Seq(CallOps) /\ Len(r) = Len(s) - 1
      /\ \A i \in 1..(Len(s) - 1) : r[i] = s[i + 1]
  BY <1>1, Parts
<1>3. \A x : x \in Range(s) <=> x = Head(s) \/ x \in Range(r)
  BY <1>1, RangeParts
<1>4. /\ \A x : x \in Range(s) <=> \E i \in 1..Len(s) : s[i] = x
      /\ \A x : x \in Range(r) <=> \E i \in 1..Len(r) : r[i] = x
  BY <1>1, <1>2, RangeIs
<1> HIDE DEF r
<1>5. \A i \in 1..Len(s) :
        /\ s[i] \in {"device", "list"} => i = Len(s)
        /\ s[i] = "listed" => i = Len(s) - 1 /\ s[Len(s)] = "list"
        /\ s[i] = "field" => Makes(s)
        /\ s[i] \in {"using", "crashed"} => i = 1
  BY DEF Calls
<1>6. \A i \in 1..Len(r) : i + 1 \in 1..Len(s) /\ r[i] = s[i + 1]
  BY <1>2
<1>7. Head(s) \in {"device", "list"} => \A x : x \notin Range(r)
  BY <1>2, <1>4, <1>5
<1>8. Head(s) = "listed" => Len(s) = 2 /\ s[2] = "list"
  BY <1>2, <1>5
<1>9. Head(s) = "listed" => Len(r) = 1 /\ r[1] = "list"
  BY <1>2, <1>8
<1>10. Head(s) = "listed" => \A x : x \in Range(r) <=> x = "list"
  BY <1>4, <1>9
<1>11. /\ Head(s) \notin {"device", "listed"} => (Makes(r) <=> Makes(s))
       /\ Head(s) # "listed" => (Lists(r) <=> Lists(s))
       /\ Head(s) \in {"device", "listed"} => Makes(s) /\ ~Makes(r)
       /\ Head(s) = "listed" => Lists(s) /\ ~Lists(r)
       /\ Head(s) = "list" => ~Makes(s) /\ ~Lists(s)
  BY <1>3, <1>7, <1>10 DEF Makes, Lists
<1>12. Head(s) = "field" => Makes(s)
  BY <1>2, <1>5
<1>13. Calls(r)
  <2>1. ASSUME NEW i \in 1..Len(r)
        PROVE  /\ r[i] \in {"device", "list"} => i = Len(r)
               /\ r[i] = "listed" => i = Len(r) - 1 /\ r[Len(r)] = "list"
               /\ r[i] = "field" => Makes(r)
               /\ r[i] \notin {"using", "crashed"}
    <3>1. r[i] \in {"device", "list"} => i = Len(r)
      BY <1>2, <1>5, <1>6
    <3>2. r[i] = "listed" => i = Len(r) - 1 /\ r[Len(r)] = "list"
      BY <1>2, <1>5, <1>6
    <3>3. r[i] = "field" => Makes(r)
      <4>1. r[i] = "field" => Makes(s) /\ "field" \in Range(r)
        BY <1>4, <1>5, <1>6
      <4> QED
        BY <4>1, <1>7, <1>10, <1>11
    <3>4. r[i] \notin {"using", "crashed"}
      BY <1>2, <1>5, <1>6
    <3> QED
      BY <3>1, <3>2, <3>3, <3>4
  <2> QED
    BY <2>1, <1>2 DEF Calls
<1>14. r # <<>> => Head(r) \in CallOps \ {"using", "crashed"}
  <2>1. r # <<>> => Head(r) = r[1] /\ r[1] \in CallOps /\ 1 \in 1..Len(r)
    BY <1>2, Parts
  <2>2. 1 \in 1..Len(r) => 2 \in 1..Len(s) /\ r[1] = s[2]
    BY <1>2
  <2> QED
    BY <1>5, <2>1, <2>2
<1> QED
  BY <1>1, <1>2, <1>11, <1>12, <1>13, <1>14 DEF r

\* The call of libcec begins.
LEMMA UseGoesOn ==
    ASSUME NEW s, Calls(s), s # <<>>, Head(s) = "use", NEW x \in {"using", "crashed"}
    PROVE  LET r == <<x>> \o Tail(s)
           IN  /\ Calls(r) /\ r # <<>> /\ Head(r) = x
               /\ Makes(r) <=> Makes(s)
               /\ Lists(r) <=> Lists(s)
               /\ "device" \in Range(r) => "device" \in Range(s)
<1> DEFINE r == <<x>> \o Tail(s)
<1>1. s \in Seq(CallOps) /\ x \in CallOps
  BY DEF Calls, CallOps
<1>2. /\ r \in Seq(CallOps) /\ r # <<>> /\ Len(r) = Len(s)
      /\ Head(r) = x /\ Tail(r) = Tail(s)
      /\ r[1] = x /\ \A i \in 2..Len(s) : r[i] = s[i]
  BY <1>1, ReplaceHead
<1>3. Len(s) \in Nat \ {0} /\ s[1] = "use"
  BY <1>1, Parts
<1>4. \A y : y \in Range(s) <=> y = "use" \/ y \in Range(Tail(s))
  BY <1>1, RangeParts
<1>5. \A y : y \in Range(r) <=> y = x \/ y \in Range(Tail(s))
  BY <1>2, RangeParts
<1> HIDE DEF r
<1>6. (Makes(r) <=> Makes(s)) /\ (Lists(r) <=> Lists(s))
  BY <1>4, <1>5 DEF Makes, Lists
<1>7. Calls(r)
  <2>1. \A i \in 1..Len(s) :
          /\ s[i] \in {"device", "list"} => i = Len(s)
          /\ s[i] = "listed" => i = Len(s) - 1 /\ s[Len(s)] = "list"
          /\ s[i] = "field" => Makes(s)
          /\ s[i] \in {"using", "crashed"} => i = 1
    BY DEF Calls
  <2>2. \A i \in 1..Len(r) : i \in 1..Len(s) /\ (r[i] = s[i] \/ (i = 1 /\ r[i] = x))
    BY <1>2, <1>3
  <2>3. \A i \in 1..Len(r) :
          /\ r[i] \in {"device", "list"} => i = Len(r)
          /\ r[i] = "listed" => i = Len(r) - 1 /\ r[Len(r)] = "list"
          /\ r[i] = "field" => Makes(r)
          /\ r[i] \in {"using", "crashed"} => i = 1
    BY <1>2, <1>3, <1>6, <2>1, <2>2
  <2> QED
    BY <1>2, <2>3 DEF Calls
<1> QED
  BY <1>2, <1>4, <1>5, <1>6, <1>7 DEF r

\* What the methods and properties begin with.
LEMMA MethodsAreCalls ==
    ASSUME NEW m \in AdapterMethods \cup AdapterProperties \cup DeviceMethods
                         \cup {ListDevices}
    PROVE  /\ Calls(m) /\ m # <<>> /\ ~Makes(m) /\ ~Lists(m)
           /\ Head(m) \in {"unlock", "use"}
<1> USE DEF CallOps, Range
<1>1. \A s \in {Call, CallTwice, Transmit, PersistRefused, PersistUnread,
                 PersistConfig, ListDevices} :
         Calls(s) /\ s # <<>> /\ ~Makes(s) /\ ~Lists(s) /\ Head(s) \in {"unlock", "use"}
  <2>1. Calls(Call) /\ Call # <<>> /\ ~Makes(Call) /\ ~Lists(Call)
    BY DEF Calls, Makes, Lists, Call
  <2>2. Calls(CallTwice) /\ CallTwice # <<>> /\ ~Makes(CallTwice) /\ ~Lists(CallTwice)
    BY DEF Calls, Makes, Lists, CallTwice
  <2>3. Calls(Transmit) /\ Transmit # <<>> /\ ~Makes(Transmit) /\ ~Lists(Transmit)
    BY DEF Calls, Makes, Lists, Transmit, Call
  <2>4. /\ Calls(PersistRefused) /\ PersistRefused # <<>>
        /\ ~Makes(PersistRefused) /\ ~Lists(PersistRefused)
    BY DEF Calls, Makes, Lists, PersistRefused
  <2>5. /\ Calls(PersistUnread) /\ PersistUnread # <<>>
        /\ ~Makes(PersistUnread) /\ ~Lists(PersistUnread)
    BY DEF Calls, Makes, Lists, PersistUnread
  <2>6. /\ Calls(PersistConfig) /\ PersistConfig # <<>>
        /\ ~Makes(PersistConfig) /\ ~Lists(PersistConfig)
    BY DEF Calls, Makes, Lists, PersistConfig, PersistUnread, Call
  <2>7. Calls(ListDevices) /\ ListDevices # <<>> /\ ~Makes(ListDevices) /\ ~Lists(ListDevices)
    BY DEF Calls, Makes, Lists, ListDevices, Call
  <2>8. \A s \in {Call, CallTwice, Transmit, PersistRefused, PersistUnread,
                   PersistConfig, ListDevices} : Head(s) \in {"unlock", "use"}
    BY DEF Call, CallTwice, Transmit, PersistRefused, PersistUnread, PersistConfig,
           ListDevices
  <2> QED
    BY <2>1, <2>2, <2>3, <2>4, <2>5, <2>6, <2>7, <2>8
<1> QED
  BY <1>1 DEF AdapterMethods, AdapterProperties, DeviceMethods

\* The questions that Device_new asks before it has a Device.
LEMMA QuestionsShape ==
    /\ NewDevice \in Seq({"unlock", "use", "lock", "field"})
    /\ Len(NewDevice) = 4 * DeviceFields /\ Len(NewDevice) \in Nat \ {0}
    /\ NewDevice[1] = "unlock"
<1>1. 4 * DeviceFields \in Nat \ {0}
  BY ConstantsAssumption
<1> DEFINE n == 4 * DeviceFields
<1> HIDE DEF n
<1>2. \A i \in 1..n : 1 + ((i - 1) % 4) \in 1..4
  BY <1>1 DEF n
<1>3. NewDevice = [i \in 1..n |->
                    <<"unlock", "use", "lock", "field">>[1 + ((i - 1) % 4)]]
  BY DEF NewDevice, Call, n
<1>4. \A j \in 1..4 : <<"unlock", "use", "lock", "field">>[j]
                          \in {"unlock", "use", "lock", "field"}
  OBVIOUS
<1>5. /\ NewDevice \in Seq({"unlock", "use", "lock", "field"})
      /\ Len(NewDevice) = n
  BY <1>1, <1>2, <1>3, <1>4 DEF n
<1>6. NewDevice[1] = "unlock"
  <2>1. 1 \in 1..n /\ 1 + ((1 - 1) % 4) = 1
    BY <1>1 DEF n
  <2>2. NewDevice[1] = <<"unlock", "use", "lock", "field">>[1 + ((1 - 1) % 4)]
    BY <1>3, <2>1
  <2> QED
    BY <2>1, <2>2
<1> QED
  BY <1>1, <1>5, <1>6 DEF n

\* Device_new, for the client and for list_devices.
LEMMA DeviceIsCall ==
    /\ LET s == NewDevice \o <<"device">>
       IN  Calls(s) /\ s # <<>> /\ Head(s) = "unlock" /\ Makes(s) /\ ~Lists(s)
    /\ LET s == NewDevice \o <<"listed", "list">>
       IN  /\ Calls(s) /\ s # <<>> /\ Head(s) = "unlock" /\ Makes(s) /\ Lists(s)
           /\ "device" \notin Range(s)
<1> DEFINE Q == {"unlock", "use", "lock", "field"}
           n == Len(NewDevice)
           s == NewDevice \o <<"device">>
           r == NewDevice \o <<"listed", "list">>
<1>1. NewDevice \in Seq(Q) /\ n \in Nat \ {0}
  BY QuestionsShape
<1>2. \A i \in 1..n : NewDevice[i] \in Q
  BY <1>1
<1> HIDE DEF n
<1>3. /\ s \in Seq(CallOps) /\ Len(s) = n + 1 /\ s[n + 1] = "device"
      /\ \A i \in 1..n : s[i] = NewDevice[i]
  BY <1>1 DEF CallOps, n
<1>4. /\ r \in Seq(CallOps) /\ Len(r) = n + 2 /\ r[n + 1] = "listed" /\ r[n + 2] = "list"
      /\ \A i \in 1..n : r[i] = NewDevice[i]
  BY <1>1 DEF CallOps, n
<1> HIDE DEF s, r
<1>5. /\ \A x : x \in Range(s) <=> \E i \in 1..Len(s) : s[i] = x
      /\ \A x : x \in Range(r) <=> \E i \in 1..Len(r) : r[i] = x
  BY <1>3, <1>4, RangeIs
<1>6. \A i \in 1..Len(s) : (i = n + 1 /\ s[i] = "device") \/ (i \in 1..n /\ s[i] \in Q)
  BY <1>1, <1>2, <1>3
<1>0. \A i \in 1..Len(r) : i = n + 1 \/ i = n + 2 \/ i \in 1..n
  BY <1>1, <1>4
<1>7. \A i \in 1..Len(r) : \/ i = n + 1 /\ r[i] = "listed"
                           \/ i = n + 2 /\ r[i] = "list"
                           \/ i \in 1..n /\ r[i] \in Q
  <2> TAKE i \in 1..Len(r)
  <2>1. CASE i = n + 1
    BY <2>1, <1>1, <1>4
  <2>2. CASE i = n + 2
    BY <2>2, <1>1, <1>4
  <2>3. CASE i \in 1..n
    BY <2>3, <1>2, <1>4
  <2> QED
    BY <1>0, <2>1, <2>2, <2>3
<1>8. Makes(s) /\ ~Lists(s)
  BY <1>1, <1>3, <1>5, <1>6 DEF Makes, Lists
<1>9. Makes(r) /\ Lists(r) /\ "device" \notin Range(r)
  BY <1>1, <1>4, <1>5, <1>7 DEF Makes, Lists
<1>12. NewDevice[1] = "unlock" /\ 1 \in 1..n
  BY QuestionsShape DEF n
<1>13. s # <<>> /\ Head(s) = "unlock" /\ r # <<>> /\ Head(r) = "unlock"
  BY <1>1, <1>3, <1>4, <1>12
<1>10. Calls(s) /\ s # <<>>
  BY <1>1, <1>3, <1>6, <1>8 DEF Calls
<1>11. Calls(r) /\ r # <<>>
  BY <1>1, <1>4, <1>7, <1>9 DEF Calls
<1> QED
  BY <1>8, <1>9, <1>10, <1>11, <1>13 DEF s, r

\* adapter_close with its first operation replaced.
LEMMA ClosePrefix ==
    ASSUME NEW x \in Ops
    PROVE  <<x>> \o <<"clear", "lock">> = <<x, "clear", "lock">>
<1> DEFINE s == <<x>> \o <<"clear", "lock">>
           r == <<x, "clear", "lock">>
<1>1. s \in Seq(Ops) /\ Len(s) = 3 /\ s[1] = x /\ s[2] = "clear" /\ s[3] = "lock"
  BY DEF Ops
<1>2. r \in Seq(Ops) /\ Len(r) = 3 /\ r[1] = x /\ r[2] = "clear" /\ r[3] = "lock"
  BY DEF Ops
<1> HIDE DEF s, r
<1>3. \A i \in 1..Len(s) : s[i] = r[i]
  BY <1>1, <1>2
<1>4. s = r
  BY <1>1, <1>2, <1>3, SeqEqual
<1> QED
  BY <1>4 DEF s, r

\* The steps of adapter_close.
LEMMA CloseGoesOn ==
    /\ AdapterClose \in Closes /\ AdapterClose # <<>> /\ Head(AdapterClose) = "unlock"
    /\ \A s \in Closes :
          /\ s \in Seq(Ops) /\ s # <<>> /\ ~Makes(s) /\ ~Lists(s)
          /\ "device" \notin Range(s)
          /\ Head(s) \in {"unlock", "lock", "close", "closing", "clear", "crashed"}
          /\ Head(s) \in {"unlock", "closing", "clear"} => Tail(s) \in Closes
          /\ Head(s) = "lock" => Tail(s) = <<>>
          /\ Head(s) = "unlock" => Head(Tail(s)) = "close"
          /\ Head(s) = "clear" => Head(Tail(s)) = "lock"
          /\ Head(s) = "closing" => Head(Tail(s)) = "clear"
          /\ Head(s) = "close" => /\ <<"closing">> \o Tail(s) \in Closes
                                  /\ <<"crashed">> \o Tail(s) \in Closes
<1> DEFINE P(s) ==
             /\ s \in Seq(Ops) /\ s # <<>> /\ ~Makes(s) /\ ~Lists(s)
             /\ "device" \notin Range(s)
             /\ Head(s) \in {"unlock", "lock", "close", "closing", "clear", "crashed"}
             /\ Head(s) \in {"unlock", "closing", "clear"} => Tail(s) \in Closes
             /\ Head(s) = "lock" => Tail(s) = <<>>
             /\ Head(s) = "unlock" => Head(Tail(s)) = "close"
             /\ Head(s) = "clear" => Head(Tail(s)) = "lock"
             /\ Head(s) = "closing" => Head(Tail(s)) = "clear"
             /\ Head(s) = "close" => /\ <<"closing">> \o Tail(s) \in Closes
                                     /\ <<"crashed">> \o Tail(s) \in Closes
<1> USE DEF Closes, Ops, Makes, Lists, Range
<1>1. AdapterClose \in Closes /\ AdapterClose # <<>> /\ Head(AdapterClose) = "unlock"
  BY DEF AdapterClose
<1>2. P(<<"unlock", "close", "clear", "lock">>)
  OBVIOUS
<1>3. P(<<"close", "clear", "lock">>)
  <2> DEFINE s == <<"close", "clear", "lock">>
  <2>1. /\ <<"closing">> \o Tail(s) = <<"closing", "clear", "lock">>
        /\ <<"crashed">> \o Tail(s) = <<"crashed", "clear", "lock">>
    <3>1. Tail(s) = <<"clear", "lock">>
      OBVIOUS
    <3>2. /\ <<"closing">> \o <<"clear", "lock">> = <<"closing", "clear", "lock">>
          /\ <<"crashed">> \o <<"clear", "lock">> = <<"crashed", "clear", "lock">>
      BY ClosePrefix
    <3> QED
      BY ONLY <3>1, <3>2
  <2>2. s \in Seq(Ops) /\ s # <<>> /\ Head(s) = "close"
    OBVIOUS
  <2>3. ~Makes(s) /\ ~Lists(s) /\ "device" \notin Range(s)
    OBVIOUS
  <2> QED
    BY ONLY <2>1, <2>2, <2>3 DEF P, Closes
<1>4. P(<<"closing", "clear", "lock">>)
  OBVIOUS
<1>5. P(<<"crashed", "clear", "lock">>)
  OBVIOUS
<1>6. P(<<"clear", "lock">>)
  OBVIOUS
<1>7. P(<<"lock">>)
  OBVIOUS
<1>8. \A s \in Closes : P(s)
  <2> HIDE DEF P
  <2> QED
    BY <1>2, <1>3, <1>4, <1>5, <1>6, <1>7
<1> QED
  BY ONLY <1>1, <1>8 DEF P

\* The steps of Adapter_dealloc.
LEMMA EndGoesOn ==
    \A s \in Ends :
       /\ s \in Seq(Ops) /\ s # <<>> /\ ~Makes(s) /\ ~Lists(s)
       /\ "device" \notin Range(s)
       /\ Head(s) \in {"lock", "dealloc", "destroy", "free"}
       /\ Head(s) \in {"lock", "destroy"} => Tail(s) \in Ends
       /\ Head(s) = "lock" => Head(Tail(s)) = "dealloc"
       /\ Head(s) = "destroy" => Head(Tail(s)) = "free"
       /\ Head(s) = "free" => Tail(s) = <<>>
<1> DEFINE P(s) ==
             /\ s \in Seq(Ops) /\ s # <<>> /\ ~Makes(s) /\ ~Lists(s)
             /\ "device" \notin Range(s)
             /\ Head(s) \in {"lock", "dealloc", "destroy", "free"}
             /\ Head(s) \in {"lock", "destroy"} => Tail(s) \in Ends
             /\ Head(s) = "lock" => Head(Tail(s)) = "dealloc"
             /\ Head(s) = "destroy" => Head(Tail(s)) = "free"
             /\ Head(s) = "free" => Tail(s) = <<>>
<1> USE DEF Ends, Ops, Makes, Lists, Range
<1>1. P(<<"lock", "dealloc">>)
  OBVIOUS
<1>2. P(<<"dealloc">>)
  OBVIOUS
<1>3. P(<<"destroy", "free">>)
  OBVIOUS
<1>4. P(<<"free">>)
  OBVIOUS
<1>5. \A s \in Ends : P(s)
  <2> HIDE DEF P
  <2> QED
    BY <1>1, <1>2, <1>3, <1>4
<1> QED
  BY ONLY <1>5 DEF P

\* The steps of Adapter_new.
LEMMA CreationGoesOn ==
    ASSUME NEW s, Creates(s)
    PROVE  /\ s \in Seq(Ops) /\ ~Makes(s) /\ ~Lists(s) /\ "device" \notin Range(s)
           /\ s # <<>> => /\ Head(s) \in CreateOps
                          /\ Creates(Tail(s))
                          /\ Head(s) = "created" => Tail(s) = <<>>
<1>1. s \in Seq(CreateOps)
  BY DEF Creates
<1>2. CreateOps \subseteq Ops /\ {"device", "listed"} \cap CreateOps = {}
  BY DEF CreateOps, Ops
<1>3. \A i \in 1..Len(s) : s[i] \in CreateOps
  BY <1>1
<1>4. s \in Seq(Ops)
  BY <1>1, <1>2, <1>3
<1>5. \A x : x \in Range(s) => x \in CreateOps
  BY <1>1, <1>3, RangeIs
<1>6. ~Makes(s) /\ ~Lists(s) /\ "device" \notin Range(s)
  BY <1>2, <1>5 DEF Makes, Lists
<1>7. ASSUME s # <<>>
      PROVE  /\ Head(s) \in CreateOps
             /\ Creates(Tail(s))
             /\ Head(s) = "created" => Tail(s) = <<>>
  <2> DEFINE r == Tail(s)
  <2>1. /\ Len(s) \in Nat \ {0} /\ Head(s) = s[1] /\ Head(s) \in CreateOps
        /\ r \in Seq(CreateOps) /\ Len(r) = Len(s) - 1
        /\ \A i \in 1..(Len(s) - 1) : r[i] = s[i + 1]
    BY <1>1, <1>7, Parts
  <2> HIDE DEF r
  <2>2. \A i \in 1..Len(s) : s[i] = "created" => i = Len(s)
    BY DEF Creates
  <2>3. \A i \in 1..Len(r) : r[i] = "created" => i = Len(r)
    BY <2>1, <2>2
  <2>4. Head(s) = "created" => Len(r) = 0
    BY <2>1, <2>2
  <2>5. Head(s) = "created" => r = <<>>
    BY <2>1, <2>4
  <2> QED
    BY <2>1, <2>3, <2>5 DEF Creates, r
<1> QED
  BY <1>4, <1>6, <1>7

\* Adapter_new begins with code that creates the instance.
LEMMA CreationBegins ==
    ASSUME NEW named \in BOOLEAN
    PROVE  Creates(Initialise(named)) /\ Initialise(named) # <<>>
<1>1. CASE named
  BY <1>1 DEF Initialise, Creates, CreateOps
<1>2. CASE ~named
  BY <1>2 DEF Initialise, Creates, CreateOps
<1> QED
  BY <1>1, <1>2

-----------------------------------------------------------------------------
(* The inductive invariant.                                                 *)

Makers == {t \in Threads : Makes(code[t])}
Listers == {t \in Threads : Listing(t)}

\* Something that t can reach keeps the Adapter.
Held(t) == (\E k \in Kinds : Has(t, k)) \/ listed > 0

Unshared == holds = {} /\ listed = 0

\* Who runs C code, and how many references there are, in each state of the
\* object.
ObjectInv ==
    /\ obj \in {"none", "freed"} =>
          Unshared /\ refs = 0 /\ \A t \in Threads : code[t] = <<>>
    /\ obj = "building" =>
          /\ Unshared /\ refs = 1
          /\ \E u \in UserThreads :
                /\ Creates(code[u]) \/ code[u] \in Ends
                /\ \A t \in Threads \ {u} : code[t] = <<>>
    /\ obj = "live" =>
          /\ refs = Cardinality(holds) + listed + Cardinality(Makers)
          /\ \A t \in Threads :
                \/ code[t] = <<>>
                \/ (Calls(code[t]) \/ code[t] \in Closes) /\ Held(t)
                \/ code[t] \in Ends /\ refs = 0
          /\ refs = 0 => \E t \in Threads : code[t] \in Ends
          /\ \A t, u \in Threads : code[t] \in Ends /\ code[u] \in Ends => t = u

\* A libcec thread has references, and runs C code of the module, only in a
\* handler; after it at most the deallocation that it caused.
HandlerInv ==
    \A c \in CecThreads : cec[c] # "handler" =>
        /\ \A k \in Kinds : ~Has(c, k)
        /\ code[c] = <<>> \/ (cec[c] = "release" /\ code[c] \in Ends)

\* The Device under way is the thread's only one; what is registered refers to
\* the Adapter itself.
DeviceInv ==
    /\ \A t \in Threads : "device" \in Range(code[t]) => ~Has(t, "device")
    /\ ~Has(Registry, "device")

ListInv == listed + Cardinality(Listers) <= MaxListed

\* The instance and the pointer to it.
InstanceInv ==
    /\ lib # "up" => Joined
    /\ adapter = "set" => lib \in {"up", "closed"}
    /\ lib = "up" =>
          /\ obj \in {"building", "live"}
          /\ adapter = "set" \/ \E u \in Threads : At(u, "initialise")
    /\ \A t \in Threads :
          /\ At(t, "using") \/ At(t, "closing") => lib \in {"up", "closed"}
          /\ At(t, "clear") => lib = "closed"
          /\ At(t, "free") => lib # "up"

LifeInv == TypeOK /\ ObjectInv /\ HandlerInv /\ DeviceInv /\ ListInv /\ InstanceInv

-----------------------------------------------------------------------------
(* Counting, and what the invariant says of a thread in a C function.       *)

\* There are finitely many holders of references.
LEMMA FiniteHolders ==
    IsFiniteSet(Threads) /\ IsFiniteSet((Threads \cup {Registry}) \X Kinds)
<1>1. IsFiniteSet(Threads)
  BY ConstantsAssumption
<1>2. IsFiniteSet(Kinds)
  <2>1. Kinds = {} \cup {"adapter"} \cup {"device"}
    BY DEF Kinds
  <2> QED
    BY <2>1, FS_EmptySet, FS_AddElement
<1> QED
  BY <1>1, <1>2, FS_AddElement, FS_Product

\* What is counted is finite.
LEMMA Counts ==
    ASSUME TypeOK
    PROVE  /\ IsFiniteSet(holds) /\ Cardinality(holds) \in Nat
           /\ Cardinality(holds) = 0 <=> holds = {}
           /\ IsFiniteSet(Makers) /\ Cardinality(Makers) \in Nat
           /\ Cardinality(Makers) = 0 <=> Makers = {}
           /\ IsFiniteSet(Listers) /\ Cardinality(Listers) \in Nat
<1>4. IsFiniteSet(holds)
  BY FiniteHolders, FS_Subset DEF TypeOK
<1>5. IsFiniteSet(Makers) /\ IsFiniteSet(Listers)
  BY FiniteHolders, FS_Subset DEF Makers, Listers
<1> QED
  BY <1>4, <1>5, FS_CardinalityType, FS_EmptySet

\* The Devices under way when the code of one thread changes.
LEMMA MakersChange ==
    ASSUME TypeOK, NEW t \in Threads, NEW s, code' = [code EXCEPT ![t] = s]
    PROVE  /\ (Makes(s) <=> Makes(code[t])) => Cardinality(Makers') = Cardinality(Makers)
           /\ Makes(s) /\ ~Makes(code[t]) => Cardinality(Makers') = Cardinality(Makers) + 1
           /\ ~Makes(s) /\ Makes(code[t]) => Cardinality(Makers') = Cardinality(Makers) - 1
<1>1. code \in [Threads -> Seq(Ops)]
  BY DEF TypeOK
<1>2. IsFiniteSet(Makers)
  BY Counts
<1>3. t \in Makers <=> Makes(code[t])
  BY DEF Makers
<1>4. Makers' = {u \in Threads : Makes(code'[u])}
  BY DEF Makers
<1>5. \A u \in Threads : code'[u] = IF u = t THEN s ELSE code[u]
  BY <1>1
<1>6. Makers' = IF Makes(s) THEN Makers \cup {t} ELSE Makers \ {t}
  <2>1. \A u : u \in Makers' <=> u \in Threads /\ IF u = t THEN Makes(s) ELSE Makes(code[u])
    BY <1>4, <1>5
  <2> QED
    BY <2>1 DEF Makers
<1>7. Makes(s) /\ Makes(code[t]) => Makers' = Makers
  BY <1>3, <1>6
<1>8. ~Makes(s) /\ ~Makes(code[t]) => Makers' = Makers
  BY <1>3, <1>6
<1>9. Makes(s) /\ ~Makes(code[t]) => Cardinality(Makers') = Cardinality(Makers) + 1
  BY <1>2, <1>3, <1>6, FS_AddElement
<1>10. ~Makes(s) /\ Makes(code[t]) => Cardinality(Makers') = Cardinality(Makers) - 1
  BY <1>2, <1>3, <1>6, FS_RemoveElement
<1> QED
  BY <1>7, <1>8, <1>9, <1>10

\* Adapter_dealloc is not taken for a method or for close().
LEMMA EndIsNoCall == \A s \in Ends : ~Calls(s) /\ s \notin Closes /\ ~Creates(s)
<1>1. \A s \in Ends : s \notin Closes
  BY EndGoesOn, CloseGoesOn
<1>2. \A s \in Ends : "dealloc" \in Range(s) \/ "free" \in Range(s)
  <2>1. "dealloc" \in Range(<<"lock", "dealloc">>) /\ "dealloc" \in Range(<<"dealloc">>)
    BY DEF Range
  <2>2. "free" \in Range(<<"destroy", "free">>) /\ "free" \in Range(<<"free">>)
    BY DEF Range
  <2> QED
    BY <2>1, <2>2 DEF Ends
<1>3. \A s : s \in Seq(CallOps) => "dealloc" \notin Range(s) /\ "free" \notin Range(s)
  BY RangeIs DEF CallOps
<1>4. \A s : s \in Seq(CreateOps) => "dealloc" \notin Range(s) /\ "free" \notin Range(s)
  BY RangeIs DEF CreateOps
<1> QED
  BY <1>1, <1>2, <1>3, <1>4 DEF Calls, Creates

Alone(t) == \A u \in Threads \ {t} : code[u] = <<>>

Building(t) ==
    /\ obj = "building" /\ refs = 1 /\ Unshared
    /\ t \in UserThreads /\ Alone(t)
    /\ Creates(code[t]) \/ code[t] \in Ends

Working(t) ==
    /\ obj = "live" /\ refs # 0 /\ Held(t)
    /\ Calls(code[t]) \/ code[t] \in Closes

Ending(t) ==
    /\ obj = "live" /\ refs = 0 /\ Unshared /\ Alone(t)
    /\ code[t] \in Ends

\* Who can reach the Adapter keeps it alive.
LEMMA ReachedIsLive ==
    ASSUME TypeOK, ObjectInv, holds # {} \/ listed > 0
    PROVE  /\ obj = "live" /\ refs \in Nat \ {0}
           /\ refs = Cardinality(holds) + listed + Cardinality(Makers)
           /\ \A t \in Threads : code[t] \notin Ends
<1>1. listed \in Nat /\ obj \in {"none", "building", "live", "freed"}
  BY ConstantsAssumption DEF TypeOK
<1>2. obj = "live"
  BY <1>1 DEF ObjectInv, Unshared
<1>3. refs = Cardinality(holds) + listed + Cardinality(Makers)
  BY <1>2 DEF ObjectInv
<1>4. refs \in Nat \ {0}
  BY <1>1, <1>3, Counts
<1>5. \A t \in Threads : code[t] \notin Ends
  BY <1>2, <1>4, EndIsNoCall, EndGoesOn DEF ObjectInv
<1> QED
  BY <1>2, <1>3, <1>4, <1>5

\* The jobs, and the operations that belong to one job only.
LEMMA WhoRuns ==
    ASSUME TypeOK, ObjectInv, NEW t \in Threads, code[t] # <<>>
    PROVE  /\ Building(t) \/ Working(t) \/ Ending(t)
           /\ Head(code[t]) \in {"use", "using", "crashed", "field", "device", "list", "listed"}
              => Working(t) /\ (code[t] \in Closes => Head(code[t]) = "crashed")
           /\ Head(code[t]) \in {"close", "closing", "clear"}
              => Working(t) /\ code[t] \in Closes
           /\ Head(code[t]) \in {"initialise", "video", "detect", "open", "created"}
              => Building(t) /\ Creates(code[t])
           /\ Head(code[t]) \in {"dealloc", "destroy", "free"}
              => code[t] \in Ends /\ (Building(t) \/ Ending(t))
<1>1. obj \in {"none", "building", "live", "freed"}
  BY DEF TypeOK
<1>2. obj # "none" /\ obj # "freed"
  BY DEF ObjectInv
<1>3. ASSUME obj = "building" PROVE Building(t)
  BY <1>3 DEF ObjectInv, Building, Alone
<1>4. ASSUME obj = "live" /\ code[t] \notin Ends PROVE Working(t)
  <2>1. Held(t) /\ (Calls(code[t]) \/ code[t] \in Closes)
    BY <1>4 DEF ObjectInv
  <2>2. holds # {} \/ listed > 0
    BY <2>1 DEF Held, Has
  <2> QED
    BY <1>4, <2>1, <2>2, ReachedIsLive DEF Working
<1>5. ASSUME obj = "live" /\ code[t] \in Ends PROVE Ending(t)
  <2>1. ~(holds # {} \/ listed > 0)
    BY <1>5, ReachedIsLive
  <2>2. Unshared
    BY <2>1, ConstantsAssumption DEF Unshared, TypeOK
  <2>3. refs = 0
    BY <1>5, EndIsNoCall, EndGoesOn DEF ObjectInv
  <2>4. \A u \in Threads : ~Held(u)
    BY <2>1 DEF Held, Has
  <2>5. Alone(t)
    BY <1>5, <2>4 DEF ObjectInv, Alone
  <2> QED
    BY <1>5, <2>2, <2>3, <2>5 DEF Ending
<1>6. Building(t) \/ Working(t) \/ Ending(t)
  BY <1>1, <1>2, <1>3, <1>4, <1>5
<1>7. Creates(code[t]) => Head(code[t]) \in CreateOps
  BY CreationGoesOn
<1>8. Calls(code[t]) => Head(code[t]) \in CallOps
  BY CallGoesOn
<1>9. /\ code[t] \in Closes => Head(code[t]) \in {"unlock", "lock", "close", "closing",
                                                 "clear", "crashed"}
      /\ code[t] \in Ends => Head(code[t]) \in {"lock", "dealloc", "destroy", "free"}
  BY CloseGoesOn, EndGoesOn
<1>10. Building(t) => Creates(code[t]) \/ code[t] \in Ends
  BY DEF Building
<1>11. Working(t) => Calls(code[t]) \/ code[t] \in Closes
  BY DEF Working
<1>12. Ending(t) => code[t] \in Ends
  BY DEF Ending
<1> QED
  BY <1>6, <1>7, <1>8, <1>9, <1>10, <1>11, <1>12 DEF CreateOps, CallOps

-----------------------------------------------------------------------------
(* Steps of ObjectInv.                                                      *)

\* A step of a thread that runs Python code or works with a live object.
LEMMA WorkStep ==
    ASSUME TypeOK, ObjectInv, NEW t \in Threads, NEW s,
           obj = "live", obj' = "live", refs # 0,
           code' = [code EXCEPT ![t] = s],
           refs' = Cardinality(holds') + listed' + Cardinality(Makers'),
           \A u \in Threads \ {t} : Held(u) => Held(u)',
           \/ s = <<>> /\ refs' # 0
           \/ (Calls(s) \/ s \in Closes) /\ Held(t)' /\ refs' # 0
           \/ s \in Ends /\ refs' = 0
    PROVE  ObjectInv'
<1>1. \A u \in Threads : code'[u] = IF u = t THEN s ELSE code[u]
  BY DEF TypeOK
<1>2. \A u \in Threads : code[u] = <<>> \/ ((Calls(code[u]) \/ code[u] \in Closes) /\ Held(u))
  BY DEF ObjectInv
<1>3. \A u \in Threads : code[u] \notin Ends
  BY <1>2, EndIsNoCall, EndGoesOn
<1>4. ASSUME NEW u \in Threads
      PROVE  \/ code'[u] = <<>>
             \/ (Calls(code'[u]) \/ code'[u] \in Closes) /\ Held(u)'
             \/ code'[u] \in Ends /\ refs' = 0
  <2>1. CASE u = t
    BY <1>1, <2>1
  <2>2. CASE u # t
    BY <1>1, <1>2, <2>2
  <2> QED
    BY <2>1, <2>2
<1>5. refs' = 0 => \E u \in Threads : code'[u] \in Ends
  BY <1>1
<1>6. \A u, v \in Threads : code'[u] \in Ends /\ code'[v] \in Ends => u = v
  BY <1>1, <1>3
<1> QED
  BY <1>4, <1>5, <1>6 DEF ObjectInv

\* ... that changes no reference and begins or ends no Device.
LEMMA CallStep ==
    ASSUME TypeOK, ObjectInv, NEW t \in Threads, NEW s, Held(t),
           code' = [code EXCEPT ![t] = s],
           UNCHANGED <<obj, refs, holds, listed>>,
           s = <<>> \/ Calls(s) \/ s \in Closes,
           Makes(s) <=> Makes(code[t])
    PROVE  ObjectInv'
<1>1. /\ obj = "live" /\ refs # 0
      /\ refs = Cardinality(holds) + listed + Cardinality(Makers)
  BY ReachedIsLive DEF Held, Has
<1>2. Cardinality(Makers') = Cardinality(Makers)
  BY MakersChange
<1>3. \A u \in Threads : Held(u) => Held(u)'
  BY DEF Held, Has
<1> QED
  BY <1>1, <1>2, <1>3, WorkStep

\* A step of Adapter_new, or of Adapter_dealloc.
LEMMA AloneStep ==
    ASSUME TypeOK, ObjectInv, NEW t \in Threads, NEW s,
           code' = [code EXCEPT ![t] = s],
           UNCHANGED <<obj, refs, holds, listed>>,
           \/ Building(t) /\ (Creates(s) \/ s \in Ends)
           \/ Ending(t) /\ s \in Ends
    PROVE  ObjectInv'
<1>1. \A u \in Threads : code'[u] = IF u = t THEN s ELSE code[u]
  BY DEF TypeOK
<1>2. CASE Building(t) /\ (Creates(s) \/ s \in Ends)
  BY <1>1, <1>2 DEF Building, Alone, Unshared, ObjectInv
<1>3. CASE Ending(t) /\ s \in Ends
  <2>1. \A u \in Threads \ {t} : code'[u] = <<>>
    BY <1>1, <1>3 DEF Ending, Alone
  <2>2. refs = Cardinality(holds) + listed + Cardinality(Makers)
    BY <1>3 DEF Ending, ObjectInv
  <2>3. ~Makes(s) /\ ~Makes(code[t])
    BY <1>3, EndGoesOn DEF Ending
  <2>4. Cardinality(Makers') = Cardinality(Makers)
    BY <2>3, MakersChange
  <2>5. code'[t] \in Ends /\ \A u \in Threads : code'[u] \in Ends => u = t
    BY <1>1, <1>3, <2>1, EndGoesOn
  <2> QED
    BY <1>3, <2>1, <2>2, <2>4, <2>5 DEF Ending, ObjectInv
<1> QED
  BY <1>2, <1>3

\* References come from Python code or from the start of a Device.
LEMMA InPythonFacts ==
    ASSUME TypeOK, NEW t \in Threads, InPython(t)
    PROVE  /\ code[t] = <<>> /\ ~Makes(code[t]) /\ ~Lists(code[t])
           /\ code = [code EXCEPT ![t] = <<>>]
<1>1. code[t] = <<>>
  BY DEF InPython
<1>2. Range(<<>>) = {}
  BY DEF Range
<1> QED
  BY <1>1, <1>2 DEF TypeOK, Makes, Lists

\* A step to the next operation that changes no reference.
LEMMA NextOperation ==
    ASSUME TypeOK, ObjectInv, NEW t \in Threads, code[t] # <<>>,
           Head(code[t]) \in {"unlock", "lock", "using", "field", "list", "closing", "clear",
                              "initialise", "video", "detect", "open", "destroy"},
           Step(t), UNCHANGED <<obj, refs, holds, listed>>
    PROVE  ObjectInv'
<1> DEFINE s == Tail(code[t])
<1>1. code' = [code EXCEPT ![t] = s]
  BY DEF Step
<1>2. Building(t) \/ Working(t) \/ Ending(t)
  BY WhoRuns
<1>3. CASE Building(t)
  <2>1. Creates(code[t]) => Creates(s)
    BY CreationGoesOn
  <2>2. code[t] \in Ends => s \in Ends
    BY EndGoesOn
  <2> QED
    BY <1>1, <1>3, <2>1, <2>2, AloneStep DEF Building
<1>4. CASE Ending(t)
  <2>1. s \in Ends
    BY <1>4, EndGoesOn DEF Ending
  <2> QED
    BY <1>1, <1>4, <2>1, AloneStep
<1>5. CASE Working(t)
  <2>1. Calls(code[t]) => Calls(s) /\ (Makes(s) <=> Makes(code[t]))
    BY CallGoesOn
  <2>2. code[t] \in Closes => (s = <<>> \/ s \in Closes) /\ ~Makes(s) /\ ~Makes(code[t])
    <3>1. code[t] \in Closes => s = <<>> \/ s \in Closes
      BY CloseGoesOn
    <3>2. ~Makes(<<>>)
      BY DEF Makes, Range
    <3> QED
      BY <3>1, <3>2, CloseGoesOn
  <2> QED
    BY <1>1, <1>5, <2>1, <2>2, CallStep DEF Working
<1> QED
  BY <1>2, <1>3, <1>4, <1>5

\* What is known of the object survives a step that leaves its references, and
\* what the threads have left to do, alone.
LEMMA ObjectFrame ==
    ASSUME ObjectInv, UNCHANGED <<obj, refs, holds, listed, code>>
    PROVE  ObjectInv'
BY DEF ObjectInv, Unshared, Makers, Held, Has

\* A name for the Adapter comes or goes; code[t] may begin a Device.
LEMMA OneReference ==
    ASSUME TypeOK, NEW h, h \in (Threads \cup {Registry}) \X Kinds
    PROVE  /\ h \notin holds => Cardinality(holds \cup {h}) = Cardinality(holds) + 1
           /\ h \in holds => Cardinality(holds \ {h}) = Cardinality(holds) - 1
BY Counts, FS_AddElement, FS_RemoveElement

\* Every action keeps the invariant of the object.
LEMMA ObjectStep ==
    ASSUME LifeInv, [Next]_vars
    PROVE  ObjectInv'
<1> USE DEF LifeInv, vars, object
<1>1. CASE UNCHANGED vars
  BY <1>1, ObjectFrame
<1>2. ASSUME NEW t \in Threads, TakeGil(t) \/ DropGil(t)
      PROVE  ObjectInv'
  BY <1>2, ObjectFrame DEF TakeGil, DropGil
<1>3. ASSUME NEW t \in Threads, Unlock(t) \/ Lock(t)
      PROVE  ObjectInv'
  BY <1>3, NextOperation DEF Unlock, Lock, At
<1>4. ASSUME NEW t \in Threads, InitialiseStarts(t)
      PROVE  ObjectInv'
  BY <1>4, ObjectFrame DEF InitialiseStarts
<1>5. ASSUME NEW t \in Threads, InitialiseReturns(t) \/ CreationProceeds(t)
      PROVE  ObjectInv'
  BY <1>5, NextOperation DEF InitialiseReturns, CreationProceeds, At
<1>6. ASSUME NEW t \in Threads, CreationFails(t)
      PROVE  ObjectInv'
  <2>1. code[t] # <<>> /\ Head(code[t]) \in {"initialise", "detect", "open"}
    BY <1>6 DEF CreationFails, At
  <2>2. Building(t)
    BY <2>1, WhoRuns
  <2>3. code' = [code EXCEPT ![t] = <<"lock", "dealloc">>] /\ <<"lock", "dealloc">> \in Ends
    BY <1>6 DEF CreationFails, Become, Ends
  <2> QED
    BY <1>6, <2>2, <2>3, AloneStep DEF CreationFails
<1>7. ASSUME NEW t \in Threads, Created(t)
      PROVE  ObjectInv'
  <2>1. code[t] # <<>> /\ Head(code[t]) = "created"
    BY <1>7 DEF Created, At
  <2>2. Building(t) /\ Creates(code[t])
    BY <2>1, WhoRuns
  <2>3. \A u \in Threads : code'[u] = <<>>
    BY <1>7, <2>1, <2>2, CreationGoesOn DEF Created, Step, TypeOK, Building, Alone
  <2>4. Makers' = {}
    BY <2>3 DEF Makers, Makes, Range
  <2>5. /\ Cardinality(holds') = 1 /\ Cardinality(Makers') = 0
        /\ obj' = "live" /\ listed' = 0 /\ refs' = 1
    BY <1>7, <2>2, <2>4, FS_Singleton, FS_EmptySet DEF Created, Building, Unshared
  <2> QED
    BY <2>3, <2>5, EndGoesOn DEF ObjectInv
<1>8. ASSUME NEW t \in Threads, CallMethod(t)
      PROVE  ObjectInv'
  <2>1. PICK m \in AdapterMethods \cup AdapterProperties \cup DeviceMethods \cup {ListDevices} :
          code' = [code EXCEPT ![t] = m]
    BY <1>8 DEF CallMethod, Become
  <2>2. Held(t)
    BY <1>8 DEF CallMethod, Held, Kinds
  <2>3. ~Makes(code[t])
    BY <1>8, InPythonFacts DEF CallMethod, MayCall
  <2> QED
    BY <1>8, <2>1, <2>2, <2>3, MethodsAreCalls, CallStep DEF CallMethod
<1>9. ASSUME NEW t \in Threads, DeviceNew(t)
      PROVE  ObjectInv'
  <2> DEFINE s == NewDevice \o <<"device">>
  <2>1. code' = [code EXCEPT ![t] = s] /\ Calls(s) /\ Makes(s)
    BY <1>9, DeviceIsCall DEF DeviceNew, Become
  <2>2. Has(t, "adapter") /\ Held(t)
    BY <1>9 DEF DeviceNew, Held, Kinds
  <2>3. /\ obj = "live" /\ refs \in Nat \ {0}
        /\ refs = Cardinality(holds) + listed + Cardinality(Makers)
    BY <2>2, ReachedIsLive DEF Has
  <2>4. Cardinality(Makers') = Cardinality(Makers) + 1
    BY <1>9, <2>1, MakersChange, InPythonFacts DEF DeviceNew, MayCall
  <2>5. \A u \in Threads : Held(u) => Held(u)'
    BY <1>9 DEF DeviceNew, Held, Has
  <2>6. /\ refs' = Cardinality(holds') + listed' + Cardinality(Makers')
        /\ refs' # 0 /\ obj' = "live"
    BY <1>9, <2>3, <2>4, Counts, ConstantsAssumption DEF DeviceNew, TypeOK
  <2> HIDE DEF s
  <2> QED
    BY <2>1, <2>2, <2>3, <2>5, <2>6, WorkStep
<1>10. ASSUME NEW t \in Threads, Close(t)
      PROVE  ObjectInv'
  <2>1. Held(t)
    BY <1>10 DEF Close, MayClose, Held, Kinds
  <2>2. code' = [code EXCEPT ![t] = AdapterClose]
    BY <1>10 DEF Close, Become
  <2>3. AdapterClose \in Closes /\ ~Makes(AdapterClose) /\ ~Makes(code[t])
    BY <1>10, CloseGoesOn, InPythonFacts DEF Close, MayClose
  <2> QED
    BY <1>10, <2>1, <2>2, <2>3, CallStep DEF Close
<1>11. ASSUME NEW t \in Threads, AddCallback(t)
      PROVE  ObjectInv'
  <2>1. code' = [code EXCEPT ![t] = <<>>]
    BY <1>11, InPythonFacts DEF AddCallback
  <2>2. /\ obj = "live" /\ refs \in Nat \ {0}
        /\ refs = Cardinality(holds) + listed + Cardinality(Makers)
    BY <1>11, ReachedIsLive DEF AddCallback, Has
  <2>3. Cardinality(holds') = Cardinality(holds) + 1
    BY <1>11, OneReference DEF AddCallback, Has, Kinds
  <2>4. /\ refs' = Cardinality(holds') + listed' + Cardinality(Makers')
        /\ refs' # 0 /\ obj' = "live"
    BY <1>11, <2>2, <2>3, Counts, ConstantsAssumption DEF AddCallback, TypeOK, Makers
  <2>5. \A u \in Threads : Held(u) => Held(u)'
    BY <1>11 DEF AddCallback, Held, Has
  <2> QED
    BY <2>1, <2>2, <2>4, <2>5, WorkStep
<1>12. ASSUME NEW t \in Threads, RemoveCallback(t)
      PROVE  ObjectInv'
  <2>1. code' = [code EXCEPT ![t] = <<>>]
    BY <1>12, InPythonFacts DEF RemoveCallback
  <2>2. /\ obj = "live" /\ refs \in Nat \ {0}
        /\ refs = Cardinality(holds) + listed + Cardinality(Makers)
    BY <1>12, ReachedIsLive DEF RemoveCallback, Has
  <2>3. Cardinality(holds') = Cardinality(holds) - 1
    BY <1>12, OneReference DEF RemoveCallback, Has, Kinds
  <2>4. <<t, "adapter">> \in holds' /\ t # Registry
    BY <1>12, ConstantsAssumption DEF RemoveCallback, Has
  <2>5. holds' # {} /\ holds' \subseteq holds
    BY <1>12, <2>4 DEF RemoveCallback
  <2>6. Cardinality(holds') \in Nat \ {0}
    BY <2>5, Counts, FS_Subset, FS_EmptySet, FS_CardinalityType
  <2>7. /\ refs' = Cardinality(holds') + listed' + Cardinality(Makers')
        /\ refs' # 0 /\ obj' = "live"
    <3>1. Makers' = Makers /\ listed' = listed /\ refs' = refs - 1 /\ obj' = obj
      BY <1>12 DEF RemoveCallback, Makers
    <3>2. listed \in Nat /\ Cardinality(holds) \in Nat /\ Cardinality(Makers) \in Nat
      BY Counts, ConstantsAssumption DEF TypeOK
    <3>3. refs' = (Cardinality(holds) - 1) + listed + Cardinality(Makers)
      BY <2>2, <3>1, <3>2
    <3>4. refs' = Cardinality(holds') + listed' + Cardinality(Makers')
      BY <2>3, <3>1, <3>3
    <3>5. refs' # 0
      <4>1. Cardinality(holds) - 1 # 0
        BY <2>3, <2>6
      <4> DEFINE n == Cardinality(holds)
                 m == Cardinality(Makers)
      <4>2. n \in Nat /\ m \in Nat /\ listed \in Nat /\ n # 0 /\ n - 1 # 0
        BY <1>12, <3>2, <4>1, Counts DEF RemoveCallback, Has
      <4> HIDE DEF n, m
      <4>3. (n - 1) + listed + m # 0
        BY <4>2
      <4> QED
        BY <3>3, <4>3 DEF n, m
    <3> QED
      BY <2>2, <3>1, <3>4, <3>5
  <2>8. \A u \in Threads : Held(u) => Held(u)'
    BY <1>12, ConstantsAssumption DEF RemoveCallback, Held, Has
  <2> QED
    BY <2>1, <2>2, <2>7, <2>8, WorkStep
<1>13. ASSUME NEW t \in Threads, NEW u \in UserThreads, Share(t, u)
      PROVE  ObjectInv'
  <2>1. code' = [code EXCEPT ![t] = <<>>]
    BY <1>13, InPythonFacts DEF Share
  <2>2. /\ obj = "live" /\ refs \in Nat \ {0}
        /\ refs = Cardinality(holds) + listed + Cardinality(Makers)
    BY <1>13, ReachedIsLive DEF Share, Has
  <2>3. Cardinality(holds') = Cardinality(holds) + 1
    BY <1>13, OneReference DEF Share, Has, Kinds, Threads
  <2>4. /\ refs' = Cardinality(holds') + listed' + Cardinality(Makers')
        /\ refs' # 0 /\ obj' = "live"
    BY <1>13, <2>2, <2>3, Counts, ConstantsAssumption DEF Share, TypeOK, Makers
  <2>5. \A v \in Threads : Held(v) => Held(v)'
    BY <1>13 DEF Share, Held, Has
  <2> QED
    BY <2>1, <2>2, <2>4, <2>5, WorkStep
<1>14. ASSUME NEW t \in Threads, NEW k \in Kinds, Drop(t, k)
      PROVE  ObjectInv'
  <2> DEFINE s == IF refs = 1 THEN <<"dealloc">> ELSE <<>>
  <2>1. code' = [code EXCEPT ![t] = s] /\ ~Makes(code[t]) /\ ~Makes(s)
    <3>1. <<"dealloc">> \in Ends
      BY DEF Ends
    <3>2. ~Makes(<<"dealloc">>) /\ ~Makes(<<>>)
      BY <3>1, EndGoesOn DEF Makes, Range
    <3> QED
      BY <1>14, <3>2, InPythonFacts DEF Drop, Become
  <2>2. /\ obj = "live" /\ refs \in Nat \ {0}
        /\ refs = Cardinality(holds) + listed + Cardinality(Makers)
    BY <1>14, ReachedIsLive DEF Drop, Has
  <2>3. Cardinality(holds') = Cardinality(holds) - 1
    BY <1>14, OneReference DEF Drop, Has
  <2>4. Cardinality(Makers') = Cardinality(Makers)
    BY <2>1, MakersChange
  <2>5. /\ refs' = Cardinality(holds') + listed' + Cardinality(Makers')
        /\ refs' = refs - 1 /\ obj' = "live"
    BY <1>14, <2>2, <2>3, <2>4, Counts, ConstantsAssumption DEF Drop, TypeOK
  <2>6. \A v \in Threads \ {t} : Held(v) => Held(v)'
    BY <1>14 DEF Drop, Held, Has
  <2>7. \/ s = <<>> /\ refs' # 0
        \/ s \in Ends /\ refs' = 0
    <3>1. <<"dealloc">> \in Ends
      BY DEF Ends
    <3>2. refs = 1 <=> refs' = 0
      BY <2>2, <2>5
    <3>3. CASE refs = 1
      BY <3>1, <3>2, <3>3, Zenon
    <3>4. CASE refs # 1
      BY <3>2, <3>4
    <3> QED
      BY <3>3, <3>4
  <2> HIDE DEF s
  <2> QED
    BY <2>1, <2>2, <2>5, <2>6, <2>7, WorkStep
<1>15. ASSUME NEW t \in Threads, UseBegins(t)
       PROVE  ObjectInv'
  <2>1. PICK x \in {"using", "crashed"} :
          code' = [code EXCEPT ![t] = <<x>> \o Tail(code[t])]
    BY <1>15 DEF UseBegins, Become
  <2>2. code[t] # <<>> /\ Head(code[t]) = "use"
    BY <1>15 DEF UseBegins, At
  <2>3. Held(t) /\ Calls(code[t])
    BY <2>2, WhoRuns DEF Working
  <2> DEFINE s == <<x>> \o Tail(code[t])
  <2>4. Calls(s) /\ (Makes(s) <=> Makes(code[t]))
    BY <2>2, <2>3, UseGoesOn
  <2> HIDE DEF s
  <2>5. code' = [code EXCEPT ![t] = s]
    BY <2>1 DEF s
  <2> QED
    BY <1>15, <2>3, <2>4, <2>5, CallStep DEF UseBegins
<1>16. ASSUME NEW t \in Threads,
              UseReturns(t) \/ FieldBuilt(t) \/ ListReturns(t)
                \/ CloseReturns(t) \/ CloseClears(t) \/ DestroyReturns(t)
       PROVE  ObjectInv'
  BY <1>16, NextOperation
     DEF UseReturns, FieldBuilt, ListReturns, CloseReturns, CloseClears, DestroyReturns, At
<1>17. ASSUME NEW t \in Threads, DeviceFails(t)
       PROVE  ObjectInv'
  <2>1. code[t] # <<>> /\ Head(code[t]) = "field"
    BY <1>17 DEF DeviceFails, At
  <2>2. Working(t) /\ Makes(code[t])
    BY <2>1, WhoRuns, CallGoesOn DEF Working
  <2>3. holds # {} \/ listed > 0
    BY <2>2 DEF Working, Held, Has
  <2>4. /\ obj = "live" /\ refs \in Nat \ {0}
        /\ refs = Cardinality(holds) + listed + Cardinality(Makers)
    BY <2>3, ReachedIsLive
  <2>5. code' = [code EXCEPT ![t] = <<>>] /\ ~Makes(<<>>)
    BY <1>17 DEF DeviceFails, Become, Makes, Range
  <2>6. Cardinality(Makers') = Cardinality(Makers) - 1
    BY <2>2, <2>5, MakersChange
  <2>7. /\ refs' = Cardinality(holds') + listed' + Cardinality(Makers')
        /\ refs' = refs - 1 /\ obj' = "live"
    BY <1>17, <2>4, <2>6, Counts, ConstantsAssumption DEF DeviceFails, TypeOK
  <2>8. Cardinality(holds') + listed' # 0 /\ Cardinality(Makers') \in Nat
    <3>1. Cardinality(Makers) # 0
      BY <2>2, Counts DEF Makers
    <3> QED
      BY <1>17, <2>3, <2>6, <3>1, Counts, ConstantsAssumption DEF DeviceFails, TypeOK
  <2>9. refs' # 0
    BY <1>17, <2>7, <2>8, Counts, ConstantsAssumption DEF DeviceFails, TypeOK
  <2>10. \A v \in Threads : Held(v) => Held(v)'
    BY <1>17 DEF DeviceFails, Held, Has
  <2> QED
    BY <2>4, <2>5, <2>7, <2>9, <2>10, WorkStep
<1>18. ASSUME NEW t \in Threads, DeviceCreated(t)
       PROVE  ObjectInv'
  <2> DEFINE s == Tail(code[t])
  <2>1. code[t] # <<>> /\ Head(code[t]) = "device"
    BY <1>18 DEF DeviceCreated, At
  <2>2. Working(t) /\ Calls(code[t])
    BY <2>1, WhoRuns DEF Working
  <2>3. Calls(s) /\ Makes(code[t]) /\ ~Makes(s)
    BY <2>1, <2>2, CallGoesOn
  <2>4. ~Has(t, "device")
    <3>1. "device" \in Range(code[t])
      BY <2>1, RangeParts DEF TypeOK
    <3> QED
      BY <3>1 DEF DeviceInv
  <2>5. holds # {} \/ listed > 0
    BY <2>2 DEF Working, Held, Has
  <2>6. /\ obj = "live" /\ refs \in Nat \ {0}
        /\ refs = Cardinality(holds) + listed + Cardinality(Makers)
    BY <2>5, ReachedIsLive
  <2>7. code' = [code EXCEPT ![t] = s]
    BY <1>18 DEF DeviceCreated, Step
  <2> HIDE DEF s
  <2>8. Cardinality(Makers') = Cardinality(Makers) - 1
    BY <2>3, <2>7, MakersChange
  <2>9. Cardinality(holds') = Cardinality(holds) + 1
    BY <1>18, <2>4, OneReference DEF DeviceCreated, Has, Kinds
  <2>10. /\ refs' = Cardinality(holds') + listed' + Cardinality(Makers')
         /\ refs' # 0 /\ obj' = "live"
    BY <1>18, <2>6, <2>8, <2>9, Counts, ConstantsAssumption DEF DeviceCreated, TypeOK
  <2>11. Held(t)' /\ \A v \in Threads : Held(v) => Held(v)'
    BY <1>18 DEF DeviceCreated, Held, Has, Kinds
  <2> QED
    BY <2>3, <2>6, <2>7, <2>10, <2>11, WorkStep
<1>19. ASSUME NEW t \in Threads, ListNext(t)
       PROVE  ObjectInv'
  <2> DEFINE s == NewDevice \o <<"listed", "list">>
  <2>1. code[t] # <<>> /\ Head(code[t]) = "list"
    BY <1>19 DEF ListNext, At
  <2>2. Working(t) /\ ~Makes(code[t])
    BY <2>1, WhoRuns, CallGoesOn DEF Working
  <2>3. code' = [code EXCEPT ![t] = s] /\ Calls(s) /\ Makes(s)
    BY <1>19, DeviceIsCall DEF ListNext, Become
  <2>4. holds # {} \/ listed > 0
    BY <2>2 DEF Working, Held, Has
  <2>5. /\ obj = "live" /\ refs \in Nat \ {0}
        /\ refs = Cardinality(holds) + listed + Cardinality(Makers)
    BY <2>4, ReachedIsLive
  <2> HIDE DEF s
  <2>6. Cardinality(Makers') = Cardinality(Makers) + 1
    BY <2>2, <2>3, MakersChange
  <2>7. /\ refs' = Cardinality(holds') + listed' + Cardinality(Makers')
        /\ refs' # 0 /\ obj' = "live"
    BY <1>19, <2>5, <2>6, Counts, ConstantsAssumption DEF ListNext, TypeOK
  <2>8. Held(t)' /\ \A v \in Threads : Held(v) => Held(v)'
    BY <1>19, <2>2 DEF ListNext, Held, Has, Working
  <2> QED
    BY <2>3, <2>5, <2>7, <2>8, WorkStep
<1>20. ASSUME NEW t \in Threads, Listed(t)
       PROVE  ObjectInv'
  <2> DEFINE s == Tail(code[t])
  <2>1. code[t] # <<>> /\ Head(code[t]) = "listed"
    BY <1>20 DEF Listed, At
  <2>2. Working(t) /\ Calls(code[t])
    BY <2>1, WhoRuns DEF Working
  <2>3. Calls(s) /\ Makes(code[t]) /\ ~Makes(s)
    BY <2>1, <2>2, CallGoesOn
  <2>4. holds # {} \/ listed > 0
    BY <2>2 DEF Working, Held, Has
  <2>5. /\ obj = "live" /\ refs \in Nat \ {0}
        /\ refs = Cardinality(holds) + listed + Cardinality(Makers)
    BY <2>4, ReachedIsLive
  <2>6. code' = [code EXCEPT ![t] = s]
    BY <1>20 DEF Listed, Step
  <2> HIDE DEF s
  <2>7. Cardinality(Makers') = Cardinality(Makers) - 1
    BY <2>3, <2>6, MakersChange
  <2>8. /\ refs' = Cardinality(holds') + listed' + Cardinality(Makers')
        /\ refs' # 0 /\ obj' = "live"
    BY <1>20, <2>5, <2>7, Counts, ConstantsAssumption DEF Listed, TypeOK
  <2>9. Held(t)' /\ \A v \in Threads : Held(v) => Held(v)'
    BY <1>20, ConstantsAssumption DEF Listed, Held, Has, TypeOK
  <2> QED
    BY <2>3, <2>5, <2>6, <2>8, <2>9, WorkStep
<1>21. ASSUME NEW t \in Threads, CloseBegins(t)
       PROVE  ObjectInv'
  <2>1. PICK x \in {"closing", "crashed"} :
          code' = [code EXCEPT ![t] = <<x>> \o Tail(code[t])]
    BY <1>21 DEF CloseBegins, Become
  <2>2. code[t] # <<>> /\ Head(code[t]) = "close"
    BY <1>21 DEF CloseBegins, At
  <2>3. Held(t) /\ code[t] \in Closes
    BY <2>2, WhoRuns DEF Working
  <2> DEFINE s == <<x>> \o Tail(code[t])
  <2>4. s \in Closes /\ ~Makes(s) /\ ~Makes(code[t])
    BY <2>2, <2>3, CloseGoesOn
  <2> HIDE DEF s
  <2>5. code' = [code EXCEPT ![t] = s]
    BY <2>1 DEF s
  <2> QED
    BY <1>21, <2>3, <2>4, <2>5, CallStep DEF CloseBegins
<1>22. ASSUME NEW t \in Threads, Dealloc(t)
       PROVE  ObjectInv'
  <2>1. PICK s \in {<<"destroy", "free">>, <<"free">>} : code' = [code EXCEPT ![t] = s]
    BY <1>22 DEF Dealloc, Become
  <2>2. s \in Ends
    BY DEF Ends
  <2>3. Building(t) \/ Ending(t)
    BY <1>22, WhoRuns DEF Dealloc, At
  <2> QED
    BY <1>22, <2>1, <2>2, <2>3, AloneStep DEF Dealloc
<1>23. ASSUME NEW t \in Threads, Free(t)
       PROVE  ObjectInv'
  <2>1. code[t] # <<>> /\ Head(code[t]) = "free"
    BY <1>23 DEF Free, At
  <2>2. code[t] \in Ends /\ Alone(t) /\ Unshared
    BY <2>1, WhoRuns DEF Building, Ending
  <2>3. \A u \in Threads : code'[u] = <<>>
    BY <1>23, <2>1, <2>2, EndGoesOn DEF Free, Step, TypeOK, Alone
  <2> QED
    BY <1>23, <2>2, <2>3 DEF Free, ObjectInv, Unshared
<1>24. ASSUME NEW u \in UserThreads, NEW named \in BOOLEAN, AdapterNew(u, named)
       PROVE  ObjectInv'
  <2>1. Unshared /\ \A t \in Threads : code[t] = <<>>
    BY <1>24 DEF AdapterNew, ObjectInv
  <2>2. u \in Threads
    BY DEF Threads
  <2> DEFINE s == Initialise(named)
  <2>3. Creates(s)
    BY CreationBegins
  <2>4. code' = [code EXCEPT ![u] = s] /\ obj' = "building" /\ refs' = 1
    BY <1>24 DEF AdapterNew, Become
  <2> HIDE DEF s
  <2>5. Creates(code'[u]) /\ \A t \in Threads \ {u} : code'[t] = <<>>
    BY <2>1, <2>2, <2>3, <2>4 DEF TypeOK
  <2>6. Unshared'
    BY <1>24, <2>1 DEF AdapterNew, Unshared
  <2> QED
    BY <2>4, <2>5, <2>6 DEF ObjectInv
<1>25. ASSUME NEW c \in CecThreads, CallbackStarts(c) \/ CallbackReturns(c)
       PROVE  ObjectInv'
  BY <1>25, ObjectFrame DEF CallbackStarts, CallbackReturns
<1>26. ASSUME NEW c \in CecThreads, CallbackEnsures(c)
       PROVE  ObjectInv'
  <2>1. CASE ~Has(Registry, "adapter")
    BY <1>26, <2>1, ObjectFrame DEF CallbackEnsures
  <2>2. CASE Has(Registry, "adapter")
    <3>1. c \in Threads /\ cec[c] = "ensure"
      BY <1>26 DEF CallbackEnsures, Threads
    <3>2. ~Has(c, "adapter") /\ code[c] = <<>>
      BY <3>1 DEF HandlerInv, Kinds
    <3>3. code' = [code EXCEPT ![c] = <<>>]
      BY <1>26, <3>2 DEF CallbackEnsures, TypeOK
    <3>4. /\ obj = "live" /\ refs \in Nat \ {0}
          /\ refs = Cardinality(holds) + listed + Cardinality(Makers)
      BY <2>2, ReachedIsLive DEF Has
    <3>5. Cardinality(holds') = Cardinality(holds) + 1
      BY <1>26, <2>2, <3>1, <3>2, OneReference DEF CallbackEnsures, Has, Kinds
    <3>6. /\ refs' = Cardinality(holds') + listed' + Cardinality(Makers')
          /\ refs' # 0 /\ obj' = "live"
      BY <1>26, <2>2, <3>4, <3>5, Counts, ConstantsAssumption
         DEF CallbackEnsures, TypeOK, Makers
    <3>7. \A v \in Threads : Held(v) => Held(v)'
      BY <1>26, <2>2 DEF CallbackEnsures, Held, Has
    <3> QED
      BY <3>1, <3>3, <3>4, <3>6, <3>7, WorkStep
  <2> QED
    BY <2>1, <2>2
<1>27. ASSUME NEW c \in CecThreads, HandlerEnds(c)
       PROVE  ObjectInv'
  <2> DEFINE own == {h \in holds : h[1] = c}
             s == IF own # {} /\ refs' = 0 THEN <<"dealloc">> ELSE <<>>
  <2>1. /\ InPython(c) /\ c \in Threads
        /\ holds' = holds \ own /\ refs' = refs - Cardinality(own)
        /\ code' = [code EXCEPT ![c] = s]
        /\ obj' = obj /\ listed' = listed
    BY <1>27 DEF HandlerEnds, Become, Threads
  <2>2. code[c] = <<>> /\ ~Makes(code[c])
    BY <2>1, InPythonFacts
  <2>3. CASE own = {}
    <3>1. code' = code
      BY <2>1, <2>2, <2>3 DEF TypeOK
    <3>2. holds' = holds /\ refs' = refs
      <4>1. Cardinality(own) = 0 /\ holds \ own = holds
        BY <2>3, FS_EmptySet
      <4> HIDE DEF own
      <4> QED
        BY <2>1, <4>1 DEF TypeOK
    <3> QED
      BY <2>1, <3>1, <3>2, ObjectFrame
  <2>4. CASE own # {}
    <3>1. ~Makes(s)
      <4>1. <<"dealloc">> \in Ends
        BY DEF Ends
      <4>2. ~Makes(<<"dealloc">>) /\ ~Makes(<<>>)
        BY <4>1, EndGoesOn DEF Makes, Range
      <4> QED
        BY <4>2
    <3>2. /\ obj = "live" /\ refs \in Nat \ {0}
          /\ refs = Cardinality(holds) + listed + Cardinality(Makers)
      BY <2>4, ReachedIsLive
    <3>3. /\ IsFiniteSet(own) /\ Cardinality(own) \in Nat
          /\ Cardinality(holds') = Cardinality(holds) - Cardinality(own)
          /\ Cardinality(holds') \in Nat
      <4>1. own \subseteq holds /\ holds \cap own = own /\ IsFiniteSet(holds)
        BY Counts
      <4> HIDE DEF own
      <4>2. IsFiniteSet(own) /\ Cardinality(own) \in Nat
        BY <4>1, FS_Subset, FS_CardinalityType
      <4>3. Cardinality(holds \ own) = Cardinality(holds) - Cardinality(holds \cap own)
        BY <4>1, <4>2, FS_Difference
      <4>4. IsFiniteSet(holds \ own) /\ Cardinality(holds \ own) \in Nat
        BY <4>1, FS_Difference, FS_CardinalityType
      <4> QED
        BY <2>1, <4>1, <4>2, <4>3, <4>4
    <3> HIDE DEF s
    <3>4. Cardinality(Makers') = Cardinality(Makers)
      BY <2>1, <2>2, <3>1, MakersChange
    <3>5. /\ refs' = Cardinality(holds') + listed' + Cardinality(Makers')
          /\ obj' = "live"
      <4> HIDE DEF own
      <4> QED
        BY <2>1, <3>2, <3>3, <3>4, Counts, ConstantsAssumption DEF TypeOK
    <3>6. \A v \in Threads \ {c} : Held(v) => Held(v)'
      BY <2>1 DEF Held, Has
    <3>7. \/ s = <<>> /\ refs' # 0
          \/ s \in Ends /\ refs' = 0
      <4>1. <<"dealloc">> \in Ends
        BY DEF Ends
      <4>2. CASE refs' = 0
        BY <2>4, <4>1, <4>2, Zenon DEF s
      <4>3. CASE refs' # 0
        BY <4>3 DEF s
      <4> QED
        BY <4>2, <4>3
    <3> QED
      BY <2>1, <3>2, <3>5, <3>6, <3>7, WorkStep
  <2> QED
    BY <2>3, <2>4
<1> QED
  BY <1>1, <1>2, <1>3, <1>4, <1>5, <1>6, <1>7, <1>8, <1>9, <1>10, <1>11, <1>12, <1>13,
     <1>14, <1>15, <1>16, <1>17, <1>18, <1>19, <1>20, <1>21, <1>22, <1>23, <1>24, <1>25,
     <1>26, <1>27
  DEF Next, Client, CStep, Creation, Method, Destruction, Callback

-----------------------------------------------------------------------------
(* Steps of the other parts of LifeInv.                                     *)

\* Every action keeps the types.  What is left of a C function is a sequence
\* of operations because ObjectInv says which.
LEMMA TypeStep ==
    ASSUME LifeInv, [Next]_vars, ObjectInv'
    PROVE  TypeOK'
<1> USE DEF LifeInv, vars, object
<1> DEFINE P == /\ gil \in Threads \cup {None}
                /\ obj \in {"none", "building", "live", "freed"}
                /\ holds \subseteq (Threads \cup {Registry}) \X Kinds
                /\ listed \in 0..MaxListed
                /\ adapter \in {"null", "set"}
                /\ lib \in {"none", "up", "closed", "destroyed"}
                /\ code = [t \in Threads |-> code[t]]
                /\ cec \in [CecThreads -> {"native", "ensure", "handler", "release"}]
<1>0. P
  BY DEF TypeOK
<1>1. ASSUME UNCHANGED vars
      PROVE  P'
  <2>1. UNCHANGED <<gil, obj, holds, listed, adapter, lib, code, cec>>
    BY <1>1
  <2> QED
    BY <1>0, <2>1
<1>2. ASSUME NEW t \in Threads, TakeGil(t) \/ DropGil(t) \/ Unlock(t) \/ Lock(t)
      PROVE  P'
  BY <1>0, <1>2 DEF TakeGil, DropGil, Unlock, Lock, Step
<1>3. ASSUME NEW t \in Threads,
             InitialiseStarts(t) \/ InitialiseReturns(t) \/ CreationFails(t)
               \/ CreationProceeds(t)
      PROVE  P'
  BY <1>0, <1>3 DEF InitialiseStarts, InitialiseReturns, CreationFails, CreationProceeds,
                    Step, Become
<1>4. ASSUME NEW t \in Threads, Created(t)
      PROVE  P'
  <2>1. holds' = {<<t, "adapter">>} /\ \E s : code' = [code EXCEPT ![t] = s]
    BY <1>4 DEF Created, Step
  <2>2. holds' \subseteq (Threads \cup {Registry}) \X Kinds
    BY <2>1 DEF Kinds
  <2> QED
    BY <1>0, <1>4, <2>1, <2>2 DEF Created
<1>5. ASSUME NEW t \in Threads, CallMethod(t) \/ DeviceNew(t) \/ Close(t)
      PROVE  P'
  <2> DEFINE Q == \E s : code' = [code EXCEPT ![t] = s]
  <2>1. Q /\ UNCHANGED <<gil, obj, holds, listed, adapter, lib, cec>>
    BY <1>5 DEF CallMethod, DeviceNew, Close, Become
  <2> QED
    BY <1>0, <2>1
<1>6. ASSUME NEW t \in Threads, AddCallback(t) \/ RemoveCallback(t)
      PROVE  P'
  BY <1>0, <1>6 DEF AddCallback, RemoveCallback, Kinds
<1>7. ASSUME NEW t \in Threads, NEW u \in UserThreads, Share(t, u)
      PROVE  P'
  BY <1>0, <1>7 DEF Share, Kinds, Threads
<1>8. ASSUME NEW t \in Threads, NEW k \in Kinds, Drop(t, k)
      PROVE  P'
  <2>1. /\ \E s : code' = [code EXCEPT ![t] = s]
        /\ holds' \subseteq holds /\ UNCHANGED <<gil, obj, listed, adapter, lib, cec>>
    BY <1>8 DEF Drop, Become
  <2> QED
    BY <1>0, <2>1
<1>9. ASSUME NEW t \in Threads,
             UseBegins(t) \/ UseReturns(t) \/ DeviceFails(t) \/ FieldBuilt(t)
               \/ ListNext(t) \/ ListReturns(t) \/ CloseBegins(t) \/ CloseReturns(t)
               \/ CloseClears(t) \/ Dealloc(t) \/ DestroyReturns(t) \/ Free(t)
      PROVE  P'
  <2>1. /\ \E s : code' = [code EXCEPT ![t] = s]
        /\ obj' \in {obj, "freed"} /\ adapter' \in {adapter, "null"}
        /\ lib' \in {lib, "closed", "destroyed"}
        /\ UNCHANGED <<gil, holds, listed, cec>>
    BY <1>9 DEF UseBegins, UseReturns, DeviceFails, FieldBuilt, ListNext, ListReturns,
                CloseBegins, CloseReturns, CloseClears, Dealloc, DestroyReturns, Free,
                Step, Become
  <2> QED
    BY <1>0, <2>1
<1>10. ASSUME NEW t \in Threads, DeviceCreated(t)
       PROVE  P'
  <2>1. /\ holds' = holds \cup {<<t, "device">>}
        /\ \E s : code' = [code EXCEPT ![t] = s]
    BY <1>10 DEF DeviceCreated, Step
  <2>2. holds' \subseteq (Threads \cup {Registry}) \X Kinds
    BY <1>0, <2>1 DEF Kinds
  <2> QED
    BY <1>0, <1>10, <2>1, <2>2 DEF DeviceCreated
<1>11. ASSUME NEW t \in Threads, Listed(t)
       PROVE  P'
  <2>1. t \in Listers
    <3>1. code[t] # <<>> /\ Head(code[t]) = "listed" /\ code[t] \in Seq(Ops)
      BY <1>11 DEF Listed, At, TypeOK
    <3> QED
      BY <3>1, RangeParts DEF Listers, Listing
  <2>2. Cardinality(Listers) \in Nat \ {0}
    BY <2>1, Counts, FS_EmptySet
  <2>3. listed + 1 \in 0..MaxListed
    BY <1>0, <2>2, ConstantsAssumption DEF ListInv
  <2> QED
    BY <1>0, <1>11, <2>3 DEF Listed, Step
<1>12. ASSUME NEW u \in UserThreads, NEW named \in BOOLEAN, AdapterNew(u, named)
       PROVE  P'
  <2>1. \E s : code' = [code EXCEPT ![u] = s]
    BY <1>12 DEF AdapterNew, Become
  <2> QED
    BY <1>0, <1>12, <2>1 DEF AdapterNew
<1>13. ASSUME NEW c \in CecThreads,
              CallbackStarts(c) \/ CallbackEnsures(c) \/ CallbackReturns(c)
       PROVE  P'
  BY <1>0, <1>13 DEF CallbackStarts, CallbackEnsures, CallbackReturns, Threads, Kinds
<1>14. ASSUME NEW c \in CecThreads, HandlerEnds(c)
       PROVE  P'
  <2>1. /\ \E s : code' = [code EXCEPT ![c] = s]
        /\ holds' \subseteq holds /\ cec' = [cec EXCEPT ![c] = "release"]
        /\ UNCHANGED <<gil, obj, listed, adapter, lib>>
    BY <1>14 DEF HandlerEnds, Become
  <2> QED
    BY <1>0, <2>1
<1>15. P'
  <2> HIDE DEF P
  <2> QED
    BY <1>1, <1>2, <1>3, <1>4, <1>5, <1>6, <1>7, <1>8, <1>9, <1>10, <1>11, <1>12, <1>13,
       <1>14
    DEF Next, Client, CStep, Creation, Method, Destruction, Callback
<1>16. refs' \in Nat
  <2>1. obj' # "live" => refs' \in {0, 1}
    BY <1>15 DEF ObjectInv
  <2>2. ASSUME obj' = "live" PROVE refs' \in Nat
    <3>1. refs' = Cardinality(holds') + listed' + Cardinality(Makers')
      BY <2>2 DEF ObjectInv
    <3>4. Cardinality(holds') \in Nat
      BY <1>15, FiniteHolders, FS_Subset, FS_CardinalityType
    <3>5. Cardinality(Makers') \in Nat
      BY FiniteHolders, FS_Subset, FS_CardinalityType DEF Makers
    <3> QED
      BY <1>15, <3>1, <3>4, <3>5, ConstantsAssumption
  <2> QED
    BY <2>1, <2>2
<1>17. \A t \in Threads : code'[t] \in Seq(Ops)
  <2>1. \A s : /\ Calls(s) => s \in Seq(Ops)
               /\ s \in Closes \cup Ends => s \in Seq(Ops)
               /\ Creates(s) => s \in Seq(Ops)
               /\ s = <<>> => s \in Seq(Ops)
    <3>1. CallOps \subseteq Ops
      BY DEF CallOps, Ops
    <3>2. \A s : s \in Seq(CallOps) => s \in Seq(Ops)
      BY <3>1
    <3>3. \A s : Calls(s) => s \in Seq(Ops)
      BY <3>2 DEF Calls
    <3>4. \A s : s \in Closes \cup Ends => s \in Seq(Ops)
      BY CloseGoesOn, EndGoesOn
    <3>5. \A s : Creates(s) => s \in Seq(Ops)
      BY CreationGoesOn
    <3>6. <<>> \in Seq(Ops)
      OBVIOUS
    <3> QED
      BY <3>3, <3>4, <3>5, <3>6
  <2>2. obj' \in {"none", "building", "live", "freed"}
    BY <1>15
  <2> QED
    BY <2>1, <2>2 DEF ObjectInv
<1> QED
  BY <1>15, <1>16, <1>17 DEF TypeOK

\* The thread t changes its own references and code only.
LEMMA HandlerFrame ==
    ASSUME HandlerInv, NEW t \in Threads,
           \A c \in CecThreads \ {t} :
              /\ cec'[c] = cec[c] /\ code'[c] = code[c]
              /\ \A k \in Kinds : <<c, k>> \in holds' => <<c, k>> \in holds,
           t \in CecThreads =>
              \/ cec'[t] = "handler"
              \/ /\ \A k \in Kinds : <<t, k>> \notin holds'
                 /\ code'[t] = <<>> \/ (cec'[t] = "release" /\ code'[t] \in Ends)
    PROVE  HandlerInv'
<1>1. ASSUME NEW c \in CecThreads, cec'[c] # "handler"
      PROVE  /\ \A k \in Kinds : ~Has(c, k)'
             /\ code'[c] = <<>> \/ (cec'[c] = "release" /\ code'[c] \in Ends)
  <2>1. CASE c = t
    BY <1>1, <2>1 DEF Has
  <2>2. CASE c # t
    BY <1>1, <2>2 DEF HandlerInv, Has
  <2> QED
    BY <2>1, <2>2
<1> QED
  BY <1>1 DEF HandlerInv

\* Every action keeps HandlerInv.
LEMMA HandlerStep ==
    ASSUME LifeInv, [Next]_vars
    PROVE  HandlerInv'
<1> USE DEF LifeInv, vars, object
<1>0. Registry \notin Threads /\ UserThreads \cap CecThreads = {} /\ CecThreads \subseteq Threads
  BY ConstantsAssumption DEF Threads
<1>1. CASE UNCHANGED vars
  BY <1>1 DEF HandlerInv, Has
\* Python code.
<1>2. ASSUME NEW t \in Threads,
             TakeGil(t) \/ DropGil(t) \/ Client(t)
      PROVE  HandlerInv'
  <2>1. InPython(t)
    BY <1>2 DEF TakeGil, DropGil, Client, CallMethod, MayCall, DeviceNew, Close, MayClose,
                AddCallback, RemoveCallback, Share, Drop
  <2>2. cec' = cec /\ (code' = code \/ \E s : code' = [code EXCEPT ![t] = s])
    BY <1>2 DEF TakeGil, DropGil, Client, CallMethod, DeviceNew, Close,
                AddCallback, RemoveCallback, Share, Drop, Become
  <2>3. \A c \in CecThreads \ {t}, k \in Kinds : <<c, k>> \in holds' => <<c, k>> \in holds
    BY <1>0, <1>2 DEF TakeGil, DropGil, Client, CallMethod, DeviceNew, Close,
                      AddCallback, RemoveCallback, Share, Drop
  <2>4. \A c \in CecThreads \ {t} : code'[c] = code[c]
    BY <1>0, <2>2 DEF TypeOK
  <2> QED
    BY <2>1, <2>2, <2>3, <2>4, HandlerFrame DEF InPython
\* C code.
<1>3. ASSUME NEW t \in Threads, CStep(t)
      PROVE  HandlerInv'
  <2>1. code[t] # <<>>
    BY <1>3 DEF CStep, Unlock, Lock, Creation, InitialiseStarts, InitialiseReturns,
                CreationFails, CreationProceeds, Created, Method, UseBegins, UseReturns,
                DeviceFails, FieldBuilt, DeviceCreated, ListNext, Listed, ListReturns,
                CloseBegins, CloseReturns, CloseClears, Destruction, Dealloc,
                DestroyReturns, Free, At
  <2>2. cec' = cec /\ (code' = code \/ \E s : code' = [code EXCEPT ![t] = s])
    BY <1>3 DEF CStep, Unlock, Lock, Creation, InitialiseStarts, InitialiseReturns,
                CreationFails, CreationProceeds, Created, Method, UseBegins, UseReturns,
                DeviceFails, FieldBuilt, DeviceCreated, ListNext, Listed, ListReturns,
                CloseBegins, CloseReturns, CloseClears, Destruction, Dealloc,
                DestroyReturns, Free, Step, Become
  <2>3. \A c \in CecThreads \ {t} : cec'[c] = cec[c] /\ code'[c] = code[c]
    BY <1>0, <2>2 DEF TypeOK
  <2>4. \/ holds' = holds
        \/ Created(t)
        \/ DeviceCreated(t)
    BY <1>3 DEF CStep, Unlock, Lock, Creation, InitialiseStarts, InitialiseReturns,
                CreationFails, CreationProceeds, Method, UseBegins, UseReturns,
                DeviceFails, FieldBuilt, ListNext, Listed, ListReturns,
                CloseBegins, CloseReturns, CloseClears, Destruction, Dealloc,
                DestroyReturns, Free
  <2>5. \A c \in CecThreads \ {t}, k \in Kinds : <<c, k>> \in holds' => <<c, k>> \in holds
    BY <2>4 DEF Created, DeviceCreated
  <2>6. CASE t \in CecThreads /\ cec[t] # "handler"
    <3>1. /\ cec[t] = "release" /\ code[t] \in Ends
          /\ \A k \in Kinds : <<t, k>> \notin holds
      BY <2>1, <2>6 DEF HandlerInv, Has
    <3>2. Head(code[t]) \in {"lock", "dealloc", "destroy", "free"}
      BY <3>1, EndGoesOn
    <3>3. Lock(t) \/ Dealloc(t) \/ DestroyReturns(t) \/ Free(t)
      BY <1>3, <3>2
         DEF CStep, Unlock, Creation, InitialiseStarts, InitialiseReturns,
             CreationFails, CreationProceeds, Created, Method, UseBegins, UseReturns,
             DeviceFails, FieldBuilt, DeviceCreated, ListNext, Listed, ListReturns,
             CloseBegins, CloseReturns, CloseClears, Destruction, At
    <3>4. holds' = holds
      BY <3>3 DEF Lock, Dealloc, DestroyReturns, Free
    <3>5. code'[t] = <<>> \/ code'[t] \in Ends
      <4>1. CASE Dealloc(t)
        <5>1. code'[t] \in {<<"destroy", "free">>, <<"free">>}
          BY <4>1 DEF Dealloc, Become, TypeOK
        <5> QED
          BY <5>1 DEF Ends
      <4>2. CASE Lock(t) \/ DestroyReturns(t) \/ Free(t)
        <5>1. code'[t] = Tail(code[t]) /\ Head(code[t]) # "dealloc"
          BY <4>2 DEF Lock, DestroyReturns, Free, Step, At, TypeOK
        <5> QED
          BY <5>1, <3>1, EndGoesOn
      <4> QED
        BY <3>3, <4>1, <4>2
    <3> QED
      BY <2>2, <2>3, <2>5, <3>1, <3>4, <3>5, HandlerFrame
  <2>7. CASE t \in CecThreads /\ cec[t] = "handler"
    BY <2>2, <2>3, <2>5, <2>7, HandlerFrame
  <2>8. CASE t \notin CecThreads
    BY <2>3, <2>5, <2>8, HandlerFrame
  <2> QED
    BY <2>6, <2>7, <2>8
<1>4. ASSUME NEW u \in UserThreads, NEW named \in BOOLEAN, AdapterNew(u, named)
      PROVE  HandlerInv'
  <2>1. u \in Threads /\ u \notin CecThreads
    BY <1>0 DEF Threads
  <2>2. /\ cec' = cec /\ holds' = holds
        /\ \A c \in CecThreads : code'[c] = code[c]
    BY <1>0, <1>4, <2>1 DEF AdapterNew, Become, TypeOK
  <2> QED
    BY <2>1, <2>2, HandlerFrame
\* Callbacks.
<1>5. ASSUME NEW c \in CecThreads, CallbackStarts(c) \/ CallbackReturns(c)
      PROVE  HandlerInv'
  <2>1. /\ code' = code /\ holds' = holds /\ code[c] = <<>>
        /\ cec[c] # "handler"
        /\ \A d \in CecThreads \ {c} : cec'[d] = cec[d]
    BY <1>5 DEF CallbackStarts, CallbackReturns, HandlerInv, TypeOK
  <2>2. \A k \in Kinds : <<c, k>> \notin holds'
    BY <2>1 DEF HandlerInv, Has
  <2> QED
    BY <1>0, <2>1, <2>2, HandlerFrame
<1>6. ASSUME NEW c \in CecThreads, CallbackEnsures(c)
      PROVE  HandlerInv'
  <2>1. cec'[c] = "handler" /\ \A d \in CecThreads \ {c} : cec'[d] = cec[d]
    BY <1>6 DEF CallbackEnsures, TypeOK
  <2>2. code' = code /\ holds' \in {holds, holds \cup {<<c, "adapter">>}}
    BY <1>6 DEF CallbackEnsures
  <2> QED
    BY <1>0, <2>1, <2>2, HandlerFrame
<1>7. ASSUME NEW c \in CecThreads, HandlerEnds(c)
      PROVE  HandlerInv'
  <2>1. cec'[c] = "release" /\ \A d \in CecThreads \ {c} : cec'[d] = cec[d]
    BY <1>7 DEF HandlerEnds, TypeOK
  <2>2. PICK s \in {<<>>, <<"dealloc">>} : code' = [code EXCEPT ![c] = s]
    BY <1>7 DEF HandlerEnds, Become
  <2>3. s = <<>> \/ s \in Ends
    BY DEF Ends
  <2>4. code'[c] = s /\ \A d \in CecThreads \ {c} : code'[d] = code[d]
    BY <1>0, <2>2 DEF TypeOK
  <2>5. holds' \subseteq holds /\ \A k \in Kinds : <<c, k>> \notin holds'
    BY <1>7 DEF HandlerEnds
  <2> QED
    BY <1>0, <2>1, <2>3, <2>4, <2>5, HandlerFrame
<1> QED
  BY <1>1, <1>2, <1>3, <1>4, <1>5, <1>6, <1>7 DEF Next, Callback

\* Nothing is left of a function that returned, or of one that is about to
\* free the object, that creates a Device.
LEMMA NoDeviceIn ==
    /\ \A x : x \notin Range(<<>>)
    /\ \A s \in {<<>>, <<"dealloc">>, <<"free">>, <<"destroy", "free">>,
                 <<"lock", "dealloc">>} :
          "device" \notin Range(s) /\ ~Lists(s) /\ ~Makes(s)
<1>1. \A x : x \notin Range(<<>>)
  BY DEF Range
<1>2. \A s \in Ends : "device" \notin Range(s) /\ ~Lists(s) /\ ~Makes(s)
  BY EndGoesOn
<1>3. \A s \in {<<"dealloc">>, <<"free">>, <<"destroy", "free">>, <<"lock", "dealloc">>} :
         s \in Ends
  BY DEF Ends
<1> QED
  BY <1>1, <1>2, <1>3 DEF Lists, Makes

\* How much is left of the functions in C code: a step leaves the rest, or a
\* function that creates no Device; only Created and DeviceCreated give a name
\* to something.
LEMMA CStepRest ==
    ASSUME LifeInv, NEW t \in Threads, CStep(t)
    PROVE  /\ code[t] # <<>>
           /\ \/ code' = code
              \/ \E s : /\ code' = [code EXCEPT ![t] = s]
                        /\ "device" \in Range(s) => "device" \in Range(code[t])
                        /\ Lists(s) => Lists(code[t]) \/ ListNext(t)
           /\ holds' = holds \/ Created(t) \/ DeviceCreated(t)
           /\ ListNext(t) \/ Listed(t) \/ listed' = listed
<1> USE DEF LifeInv, vars, object
<1>1. code[t] # <<>> /\ code[t] \in Seq(Ops)
  BY DEF CStep, Unlock, Lock, Creation, InitialiseStarts, InitialiseReturns,
         CreationFails, CreationProceeds, Created, Method, UseBegins, UseReturns,
         DeviceFails, FieldBuilt, DeviceCreated, ListNext, Listed, ListReturns,
         CloseBegins, CloseReturns, CloseClears, Destruction, Dealloc,
         DestroyReturns, Free, At, TypeOK
<1>2. /\ holds' = holds \/ Created(t) \/ DeviceCreated(t)
      /\ ListNext(t) \/ Listed(t) \/ listed' = listed
  <2>1. holds' = holds \/ Created(t) \/ DeviceCreated(t)
    BY DEF CStep, Unlock, Lock, Creation, InitialiseStarts, InitialiseReturns,
           CreationFails, CreationProceeds, Method, UseBegins, UseReturns,
           DeviceFails, FieldBuilt, ListNext, Listed, ListReturns,
           CloseBegins, CloseReturns, CloseClears, Destruction, Dealloc,
           DestroyReturns, Free
  <2>2. ListNext(t) \/ Listed(t) \/ listed' = listed
    BY DEF CStep, Unlock, Lock, Creation, InitialiseStarts, InitialiseReturns,
           CreationFails, CreationProceeds, Created, Method, UseBegins, UseReturns,
           DeviceFails, FieldBuilt, DeviceCreated, ListReturns,
           CloseBegins, CloseReturns, CloseClears, Destruction, Dealloc,
           DestroyReturns, Free
  <2> QED
    BY <2>1, <2>2
<1>3. CASE Step(t)
  <2>1. code' = [code EXCEPT ![t] = Tail(code[t])]
    BY <1>3 DEF Step
  <2>2. \A x : x \in Range(Tail(code[t])) => x \in Range(code[t])
    BY <1>1, RangeParts
  <2> QED
    BY <1>1, <1>2, <2>1, <2>2 DEF Lists
<1>4. CASE InitialiseStarts(t)
  BY <1>1, <1>2, <1>4 DEF InitialiseStarts
<1>5. CASE CreationFails(t) \/ DeviceFails(t) \/ Dealloc(t)
  <2>1. PICK s \in {<<>>, <<"free">>, <<"destroy", "free">>, <<"lock", "dealloc">>} :
          code' = [code EXCEPT ![t] = s]
    BY <1>5 DEF CreationFails, DeviceFails, Dealloc, Become
  <2>2. "device" \notin Range(s) /\ ~Lists(s)
    BY NoDeviceIn
  <2> QED
    BY <1>1, <1>2, <2>1, <2>2
<1>6. CASE UseBegins(t)
  <2>1. PICK x \in {"using", "crashed"} :
          code' = [code EXCEPT ![t] = <<x>> \o Tail(code[t])]
    BY <1>6 DEF UseBegins, Become
  <2>2. Head(code[t]) = "use"
    BY <1>6 DEF UseBegins, At
  <2>3. Calls(code[t])
    BY <1>1, <2>2, WhoRuns DEF Working
  <2> DEFINE s == <<x>> \o Tail(code[t])
  <2>4. ("device" \in Range(s) => "device" \in Range(code[t])) /\ (Lists(s) <=> Lists(code[t]))
    BY <1>1, <2>2, <2>3, UseGoesOn
  <2>5. code' = [code EXCEPT ![t] = s]
    BY <2>1
  <2> HIDE DEF s
  <2> QED
    BY <1>1, <1>2, <2>4, <2>5
<1>7. CASE CloseBegins(t)
  <2>1. PICK x \in {"closing", "crashed"} :
          code' = [code EXCEPT ![t] = <<x>> \o Tail(code[t])]
    BY <1>7 DEF CloseBegins, Become
  <2>2. Head(code[t]) = "close"
    BY <1>7 DEF CloseBegins, At
  <2>3. code[t] \in Closes
    BY <1>1, <2>2, WhoRuns
  <2> DEFINE s == <<x>> \o Tail(code[t])
  <2>4. "device" \notin Range(s) /\ ~Lists(s)
    BY <2>2, <2>3, CloseGoesOn
  <2>5. code' = [code EXCEPT ![t] = s]
    BY <2>1
  <2> HIDE DEF s
  <2> QED
    BY <1>1, <1>2, <2>4, <2>5
<1>8. CASE ListNext(t)
  <2>1. code' = [code EXCEPT ![t] = NewDevice \o <<"listed", "list">>]
    BY <1>8 DEF ListNext, Become
  <2> QED
    BY <1>1, <1>2, <1>8, <2>1, DeviceIsCall
<1> QED
  BY <1>3, <1>4, <1>5, <1>6, <1>7, <1>8
  DEF CStep, Unlock, Lock, Creation, InitialiseReturns, CreationProceeds, Created, Method,
      UseReturns, FieldBuilt, DeviceCreated, Listed, ListReturns, CloseReturns, CloseClears,
      Destruction, DestroyReturns, Free

\* Every action keeps DeviceInv.
LEMMA DeviceStep ==
    ASSUME LifeInv, [Next]_vars
    PROVE  DeviceInv'
<1> USE DEF LifeInv, vars, object
<1> DEFINE D(t) == "device" \in Range(code[t])
<1>0. /\ \A t \in Threads : D(t) => <<t, "device">> \notin holds
      /\ <<Registry, "device">> \notin holds /\ Registry \notin Threads
  BY ConstantsAssumption DEF DeviceInv, Has
<1>1. ASSUME code' = code,
             \A t \in Threads \cup {Registry} : <<t, "device">> \in holds' => <<t, "device">> \in holds
      PROVE  DeviceInv'
  BY <1>0, <1>1 DEF DeviceInv, Has
<1>2. ASSUME NEW t \in Threads, NEW s, code' = [code EXCEPT ![t] = s],
             "device" \in Range(s) => <<t, "device">> \notin holds,
             \A u \in Threads \cup {Registry} : <<u, "device">> \in holds' => <<u, "device">> \in holds
      PROVE  DeviceInv'
  <2>1. \A u \in Threads : code'[u] = IF u = t THEN s ELSE code[u]
    BY <1>2 DEF TypeOK
  <2> QED
    BY <1>0, <1>2, <2>1 DEF DeviceInv, Has
<1>3. CASE UNCHANGED vars
  BY <1>1, <1>3
<1>4. ASSUME NEW t \in Threads, TakeGil(t) \/ DropGil(t) \/ AddCallback(t) \/ RemoveCallback(t)
      PROVE  DeviceInv'
  BY <1>1, <1>4 DEF TakeGil, DropGil, AddCallback, RemoveCallback
<1>5. ASSUME NEW t \in Threads, NEW u \in UserThreads, Share(t, u)
      PROVE  DeviceInv'
  BY <1>1, <1>5 DEF Share
<1>6. ASSUME NEW t \in Threads, CallMethod(t) \/ Close(t)
      PROVE  DeviceInv'
  <2>1. PICK m \in AdapterMethods \cup AdapterProperties \cup DeviceMethods
                     \cup {ListDevices, AdapterClose} :
          code' = [code EXCEPT ![t] = m]
    BY <1>6 DEF CallMethod, Close, Become
  <2>2. "device" \notin Range(m)
    BY MethodsAreCalls, CloseGoesOn DEF Makes
  <2> QED
    BY <1>2, <1>6, <2>1, <2>2 DEF CallMethod, Close
<1>7. ASSUME NEW t \in Threads, DeviceNew(t)
      PROVE  DeviceInv'
  <2>1. /\ code' = [code EXCEPT ![t] = NewDevice \o <<"device">>]
        /\ <<t, "device">> \notin holds /\ holds' = holds
    BY <1>7 DEF DeviceNew, Become, Has
  <2> QED
    BY <1>2, <2>1
<1>8. ASSUME NEW t \in Threads, NEW k \in Kinds, Drop(t, k)
      PROVE  DeviceInv'
  <2>1. PICK s \in {<<>>, <<"dealloc">>} : code' = [code EXCEPT ![t] = s]
    BY <1>8 DEF Drop, Become
  <2>2. "device" \notin Range(s)
    BY NoDeviceIn
  <2> QED
    BY <1>2, <1>8, <2>1, <2>2 DEF Drop
<1>9. ASSUME NEW t \in Threads, CStep(t)
      PROVE  DeviceInv'
  <2>1. CASE DeviceCreated(t)
    <3>1. code[t] # <<>> /\ Head(code[t]) = "device"
      BY <2>1 DEF DeviceCreated, At
    <3>2. Calls(code[t])
      BY <3>1, WhoRuns DEF Working
    <3>3. "device" \notin Range(Tail(code[t]))
      BY <3>1, <3>2, CallGoesOn DEF Makes
    <3>4. \A u \in Threads : code'[u] = IF u = t THEN Tail(code[t]) ELSE code[u]
      BY <2>1 DEF DeviceCreated, Step, TypeOK
    <3>5. holds' = holds \cup {<<t, "device">>} /\ t # Registry
      BY <1>0, <2>1 DEF DeviceCreated
    <3> QED
      BY <1>0, <3>3, <3>4, <3>5 DEF DeviceInv, Has
  <2>2. CASE ~DeviceCreated(t)
    <3>1. \A u \in Threads \cup {Registry} : <<u, "device">> \in holds' => <<u, "device">> \in holds
      BY <1>9, <2>2, CStepRest DEF Created
    <3>2. CASE code' = code
      BY <1>1, <3>1, <3>2
    <3>3. CASE code' # code
      <4>1. PICK s : /\ code' = [code EXCEPT ![t] = s]
                     /\ "device" \in Range(s) => "device" \in Range(code[t])
        BY <1>9, <3>3, CStepRest
      <4> QED
        BY <1>0, <1>2, <3>1, <4>1
    <3> QED
      BY <3>2, <3>3
  <2> QED
    BY <2>1, <2>2
<1>10. ASSUME NEW u \in UserThreads, NEW named \in BOOLEAN, AdapterNew(u, named)
       PROVE  DeviceInv'
  <2>1. u \in Threads /\ code' = [code EXCEPT ![u] = Initialise(named)] /\ holds' = holds
    BY <1>10 DEF AdapterNew, Become, Threads
  <2>2. "device" \notin Range(Initialise(named))
    BY CreationBegins, CreationGoesOn
  <2> QED
    BY <1>2, <2>1, <2>2
<1>11. ASSUME NEW c \in CecThreads,
              CallbackStarts(c) \/ CallbackReturns(c) \/ CallbackEnsures(c)
       PROVE  DeviceInv'
  BY <1>1, <1>11 DEF CallbackStarts, CallbackReturns, CallbackEnsures
<1>12. ASSUME NEW c \in CecThreads, HandlerEnds(c)
       PROVE  DeviceInv'
  <2>1. PICK s \in {<<>>, <<"dealloc">>} : code' = [code EXCEPT ![c] = s]
    BY <1>12 DEF HandlerEnds, Become
  <2>2. "device" \notin Range(s) /\ c \in Threads /\ holds' \subseteq holds
    BY <1>12, NoDeviceIn DEF HandlerEnds, Threads
  <2> QED
    BY <1>2, <2>1, <2>2
<1> QED
  BY <1>3, <1>4, <1>5, <1>6, <1>7, <1>8, <1>9, <1>10, <1>11, <1>12
  DEF Next, Client, Callback

\* The Devices under way for list_devices when the code of one thread changes.
LEMMA ListersChange ==
    ASSUME TypeOK, NEW t \in Threads, NEW s, code' = [code EXCEPT ![t] = s]
    PROVE  /\ Cardinality(Listers') \in Nat
           /\ (Lists(s) => Lists(code[t])) => Cardinality(Listers') <= Cardinality(Listers)
           /\ Cardinality(Listers') <= Cardinality(Listers) + 1
           /\ ~Lists(s) /\ Lists(code[t]) => Cardinality(Listers') = Cardinality(Listers) - 1
<1>1. IsFiniteSet(Listers) /\ Cardinality(Listers) \in Nat
  BY Counts
<1>2. \A u \in Threads : u \in Listers <=> Lists(code[u])
  BY DEF Listers, Listing, Lists
<1>3. \A u \in Threads : u \in Listers' <=> IF u = t THEN Lists(s) ELSE Lists(code[u])
  BY DEF Listers, Listing, Lists, TypeOK
<1>4. Listers \subseteq Threads /\ Listers' \subseteq Threads
  BY DEF Listers
<1>5. Listers' \subseteq Listers \cup {t}
  BY <1>2, <1>3, <1>4
<1>6. IsFiniteSet(Listers \cup {t}) /\ Cardinality(Listers \cup {t}) <= Cardinality(Listers) + 1
  BY <1>1, FS_AddElement
<1>7. Cardinality(Listers') \in Nat /\ Cardinality(Listers') <= Cardinality(Listers \cup {t})
  BY <1>5, <1>6, FS_Subset, FS_CardinalityType
<1>8. Cardinality(Listers') <= Cardinality(Listers) + 1
  BY <1>1, <1>6, <1>7, FS_CardinalityType
<1>9. ASSUME Lists(s) => Lists(code[t])
      PROVE  Cardinality(Listers') <= Cardinality(Listers)
  <2>1. Listers' \subseteq Listers
    BY <1>2, <1>3, <1>4, <1>9
  <2> QED
    BY <1>1, <2>1, FS_Subset
<1>10. ASSUME ~Lists(s), Lists(code[t])
       PROVE  Cardinality(Listers') = Cardinality(Listers) - 1
  <2>1. Listers' = Listers \ {t} /\ t \in Listers
    BY <1>2, <1>3, <1>4, <1>10
  <2> QED
    BY <1>1, <2>1, FS_RemoveElement
<1> QED
  BY <1>7, <1>8, <1>9, <1>10

\* Every action keeps ListInv.
LEMMA ListStep ==
    ASSUME LifeInv, [Next]_vars
    PROVE  ListInv'
<1> USE DEF LifeInv, vars, object
<1>0. /\ listed \in Nat /\ MaxListed \in Nat /\ Cardinality(Listers) \in Nat
      /\ listed + Cardinality(Listers) <= MaxListed
  BY Counts, ConstantsAssumption DEF TypeOK, ListInv
<1>1. ASSUME code' = code, listed' = listed
      PROVE  ListInv'
  BY <1>1 DEF ListInv, Listers, Listing
<1>2. ASSUME NEW t \in Threads, NEW s, code' = [code EXCEPT ![t] = s],
             Lists(s) => Lists(code[t]), listed' = listed
      PROVE  ListInv'
  <2>1. Cardinality(Listers') \in Nat /\ Cardinality(Listers') <= Cardinality(Listers)
    BY <1>2, ListersChange
  <2> QED
    BY <1>0, <1>2, <2>1 DEF ListInv
<1>3. CASE UNCHANGED vars
  BY <1>1, <1>3
<1>4. ASSUME NEW t \in Threads, TakeGil(t) \/ DropGil(t) \/ AddCallback(t) \/ RemoveCallback(t)
      PROVE  ListInv'
  BY <1>1, <1>4 DEF TakeGil, DropGil, AddCallback, RemoveCallback
<1>5. ASSUME NEW t \in Threads, NEW u \in UserThreads, Share(t, u)
      PROVE  ListInv'
  BY <1>1, <1>5 DEF Share
<1>6. ASSUME NEW t \in Threads, CallMethod(t) \/ Close(t)
      PROVE  ListInv'
  <2>1. PICK m \in AdapterMethods \cup AdapterProperties \cup DeviceMethods
                     \cup {ListDevices, AdapterClose} :
          code' = [code EXCEPT ![t] = m]
    BY <1>6 DEF CallMethod, Close, Become
  <2>2. ~Lists(m)
    BY MethodsAreCalls, CloseGoesOn
  <2> QED
    BY <1>2, <1>6, <2>1, <2>2 DEF CallMethod, Close
<1>7. ASSUME NEW t \in Threads, DeviceNew(t)
      PROVE  ListInv'
  <2>1. code' = [code EXCEPT ![t] = NewDevice \o <<"device">>] /\ listed' = listed
    BY <1>7 DEF DeviceNew, Become
  <2> QED
    BY <1>2, <2>1, DeviceIsCall
<1>8. ASSUME NEW t \in Threads, NEW k \in Kinds, Drop(t, k)
      PROVE  ListInv'
  <2>1. PICK s \in {<<>>, <<"dealloc">>} : code' = [code EXCEPT ![t] = s]
    BY <1>8 DEF Drop, Become
  <2> QED
    BY <1>2, <1>8, <2>1, NoDeviceIn DEF Drop
<1>9. ASSUME NEW t \in Threads, CStep(t)
      PROVE  ListInv'
  <2>1. CASE ListNext(t)
    <3>1. PICK s : code' = [code EXCEPT ![t] = s]
      BY <2>1 DEF ListNext, Become
    <3>2. Cardinality(Listers') \in Nat /\ Cardinality(Listers') <= Cardinality(Listers) + 1
      BY <3>1, ListersChange
    <3>3. listed' = listed /\ listed + Cardinality(Listers) < MaxListed
      BY <2>1 DEF ListNext, Listers
    <3> QED
      BY <1>0, <3>2, <3>3 DEF ListInv
  <2>2. CASE Listed(t)
    <3>1. code[t] # <<>> /\ Head(code[t]) = "listed"
      BY <2>2 DEF Listed, At
    <3>2. Calls(code[t])
      BY <3>1, WhoRuns DEF Working
    <3>3. Lists(code[t]) /\ ~Lists(Tail(code[t]))
      BY <3>1, <3>2, CallGoesOn
    <3>4. code' = [code EXCEPT ![t] = Tail(code[t])] /\ listed' = listed + 1
      BY <2>2 DEF Listed, Step
    <3>5. Cardinality(Listers') \in Nat /\ Cardinality(Listers') = Cardinality(Listers) - 1
      BY <3>3, <3>4, ListersChange
    <3> QED
      BY <1>0, <3>4, <3>5 DEF ListInv
  <2>3. CASE ~ListNext(t) /\ ~Listed(t)
    <3>1. listed' = listed
      BY <1>9, <2>3, CStepRest
    <3>2. CASE code' = code
      BY <1>1, <3>1, <3>2
    <3>3. CASE code' # code
      <4>1. PICK s : code' = [code EXCEPT ![t] = s] /\ (Lists(s) => Lists(code[t]))
        BY <1>9, <2>3, <3>3, CStepRest
      <4> QED
        BY <1>2, <3>1, <4>1
    <3> QED
      BY <3>2, <3>3
  <2> QED
    BY <2>1, <2>2, <2>3
<1>10. ASSUME NEW u \in UserThreads, NEW named \in BOOLEAN, AdapterNew(u, named)
       PROVE  ListInv'
  <2>1. u \in Threads /\ code' = [code EXCEPT ![u] = Initialise(named)] /\ listed' = listed
    BY <1>10 DEF AdapterNew, Become, Threads
  <2>2. ~Lists(Initialise(named))
    BY CreationBegins, CreationGoesOn
  <2> QED
    BY <1>2, <2>1, <2>2
<1>11. ASSUME NEW c \in CecThreads,
              CallbackStarts(c) \/ CallbackReturns(c) \/ CallbackEnsures(c)
       PROVE  ListInv'
  BY <1>1, <1>11 DEF CallbackStarts, CallbackReturns, CallbackEnsures
<1>12. ASSUME NEW c \in CecThreads, HandlerEnds(c)
       PROVE  ListInv'
  <2>1. PICK s \in {<<>>, <<"dealloc">>} : code' = [code EXCEPT ![c] = s]
    BY <1>12 DEF HandlerEnds, Become
  <2>2. ~Lists(s) /\ c \in Threads /\ listed' = listed
    BY <1>12, NoDeviceIn DEF HandlerEnds, Threads
  <2> QED
    BY <1>2, <2>1, <2>2
<1> QED
  BY <1>3, <1>4, <1>5, <1>6, <1>7, <1>8, <1>9, <1>10, <1>11, <1>12
  DEF Next, Client, Callback

\* What follows an operation that Step leaves behind: libcec is entered, the
\* pointer is cleared and the object is freed only after what must come before.
LEMMA NextHead ==
    ASSUME LifeInv, NEW t \in Threads, code[t] # <<>>,
           Head(code[t]) \notin {"use", "crashed", "close", "dealloc"},
           Tail(code[t]) # <<>>
    PROVE  LET op == Head(Tail(code[t]))
           IN  /\ op \notin {"using", "crashed", "closing", "destroy"}
               /\ op = "clear" => Head(code[t]) = "closing"
               /\ op = "free" => Head(code[t]) = "destroy"
<1> USE DEF LifeInv
<1> DEFINE op == Head(Tail(code[t]))
<1>1. Calls(code[t]) => op \in CallOps \ {"using", "crashed"}
  BY CallGoesOn
<1>2. Creates(code[t]) => op \in CreateOps
  BY CreationGoesOn
<1>3. code[t] \in Closes => /\ op \in {"close", "lock", "clear"}
                            /\ op = "clear" => Head(code[t]) = "closing"
  BY CloseGoesOn
<1>4. code[t] \in Ends => /\ op \in {"dealloc", "free"}
                          /\ op = "free" => Head(code[t]) = "destroy"
  BY EndGoesOn
<1>5. Calls(code[t]) \/ Creates(code[t]) \/ code[t] \in Closes \/ code[t] \in Ends
  BY WhoRuns DEF Building, Working, Ending
<1> HIDE DEF op
<1>6. /\ op \notin {"using", "crashed", "closing", "destroy"}
      /\ op = "clear" => Head(code[t]) = "closing"
      /\ op = "free" => Head(code[t]) = "destroy"
  BY <1>1, <1>2, <1>3, <1>4, <1>5 DEF CallOps, CreateOps
<1> QED
  BY <1>6 DEF op

\* A step that changes neither the instance nor the pointer nor the callbacks,
\* and enters nothing that depends on them.
LEMMA InstanceFrame ==
    ASSUME TypeOK, InstanceInv, NEW t \in Threads, NEW s,
           code' = [code EXCEPT ![t] = s], UNCHANGED <<adapter, lib, cec>>,
           obj' = obj \/ obj' \in {"building", "live"},
           ~At(t, "initialise") \/ adapter = "set" \/ lib # "up",
           s # <<>> =>
              /\ Head(s) \in {"using", "closing"} => lib \in {"up", "closed"}
              /\ Head(s) = "clear" => lib = "closed"
              /\ Head(s) = "free" => lib # "up"
    PROVE  InstanceInv'
<1>1. \A u \in Threads : code'[u] = IF u = t THEN s ELSE code[u]
  BY DEF TypeOK
<1>2. lib' # "up" => Joined'
  BY DEF InstanceInv, Joined
<1>3. adapter' = "set" => lib' \in {"up", "closed"}
  BY DEF InstanceInv
<1>4. ASSUME lib' = "up"
      PROVE  /\ obj' \in {"building", "live"}
             /\ adapter' = "set" \/ \E u \in Threads : At(u, "initialise")'
  <2>1. obj' \in {"building", "live"}
    BY <1>4 DEF InstanceInv
  <2>2. ASSUME adapter # "set" PROVE \E u \in Threads : At(u, "initialise")'
    <3>1. PICK u \in Threads : At(u, "initialise")
      BY <1>4, <2>2 DEF InstanceInv
    <3>2. u # t
      BY <1>4, <2>2, <3>1
    <3> QED
      BY <1>1, <3>1, <3>2 DEF At
  <2> QED
    BY <2>1, <2>2
<1>5. ASSUME NEW u \in Threads
      PROVE  /\ At(u, "using")' \/ At(u, "closing")' => lib' \in {"up", "closed"}
             /\ At(u, "clear")' => lib' = "closed"
             /\ At(u, "free")' => lib' # "up"
  <2>1. CASE u = t
    BY <1>1, <2>1 DEF At
  <2>2. CASE u # t
    BY <1>1, <2>2 DEF At, InstanceInv
  <2> QED
    BY <2>1, <2>2
<1> QED
  BY <1>2, <1>3, <1>4, <1>5 DEF InstanceInv

\* ... and leaves the C code of every thread.
LEMMA InstanceSame ==
    ASSUME InstanceInv, code' = code, UNCHANGED <<adapter, lib>>, obj' = obj,
           lib # "up" => Joined'
    PROVE  InstanceInv'
BY DEF InstanceInv, Joined, At

\* Every action keeps InstanceInv.
LEMMA InstanceStep ==
    ASSUME LifeInv, [Next]_vars
    PROVE  InstanceInv'
<1> USE DEF LifeInv, vars, object
<1>1. CASE UNCHANGED vars
  BY <1>1, InstanceSame DEF InstanceInv, Joined
<1>2. ASSUME NEW t \in Threads, TakeGil(t) \/ DropGil(t) \/ AddCallback(t) \/ RemoveCallback(t)
      PROVE  InstanceInv'
  BY <1>2, InstanceSame DEF TakeGil, DropGil, AddCallback, RemoveCallback, InstanceInv, Joined
<1>3. ASSUME NEW t \in Threads, NEW u \in UserThreads, Share(t, u)
      PROVE  InstanceInv'
  BY <1>3, InstanceSame DEF Share, InstanceInv, Joined
<1>4. ASSUME NEW t \in Threads, CallMethod(t) \/ DeviceNew(t) \/ Close(t)
      PROVE  InstanceInv'
  <2>1. PICK m \in AdapterMethods \cup AdapterProperties \cup DeviceMethods
                     \cup {ListDevices, AdapterClose, NewDevice \o <<"device">>} :
          code' = [code EXCEPT ![t] = m]
    BY <1>4 DEF CallMethod, DeviceNew, Close, Become
  <2>2. Head(m) \in {"unlock", "use"}
    BY MethodsAreCalls, CloseGoesOn, DeviceIsCall
  <2>3. ~At(t, "initialise")
    BY <1>4 DEF CallMethod, DeviceNew, Close, MayCall, MayClose, InPython, At
  <2> QED
    BY <1>4, <2>1, <2>2, <2>3, InstanceFrame DEF CallMethod, DeviceNew, Close
<1>5. ASSUME NEW t \in Threads, NEW k \in Kinds, Drop(t, k)
      PROVE  InstanceInv'
  <2>1. PICK s \in {<<>>, <<"dealloc">>} : code' = [code EXCEPT ![t] = s]
    BY <1>5 DEF Drop, Become
  <2>2. s # <<>> => Head(s) = "dealloc"
    OBVIOUS
  <2>3. ~At(t, "initialise")
    BY <1>5 DEF Drop, InPython, At
  <2> QED
    BY <1>5, <2>1, <2>2, <2>3, InstanceFrame DEF Drop
<1>6. ASSUME NEW t \in Threads,
             Unlock(t) \/ Lock(t) \/ CreationProceeds(t) \/ Created(t)
               \/ UseReturns(t) \/ FieldBuilt(t) \/ DeviceCreated(t)
               \/ Listed(t) \/ ListReturns(t)
      PROVE  InstanceInv'
  <2>1. code' = [code EXCEPT ![t] = Tail(code[t])]
    BY <1>6 DEF Unlock, Lock, CreationProceeds, Created, UseReturns, FieldBuilt,
                DeviceCreated, Listed, ListReturns, Step
  <2>2. /\ code[t] # <<>>
        /\ Head(code[t]) \in {"unlock", "lock", "video", "detect", "open", "created",
                              "using", "field", "device", "listed", "list"}
    BY <1>6 DEF Unlock, Lock, CreationProceeds, Created, UseReturns, FieldBuilt,
                DeviceCreated, Listed, ListReturns, At
  <2>3. Tail(code[t]) # <<>> =>
           Head(Tail(code[t])) \notin {"using", "closing", "clear", "free"}
    BY <2>2, NextHead
  <2>4. UNCHANGED <<adapter, lib, cec>> /\ (obj' = obj \/ obj' = "live")
    BY <1>6 DEF Unlock, Lock, CreationProceeds, Created, UseReturns, FieldBuilt,
                DeviceCreated, Listed, ListReturns
  <2>5. ~At(t, "initialise")
    BY <2>2 DEF At
  <2> QED
    BY <2>1, <2>3, <2>4, <2>5, InstanceFrame
<1>7. ASSUME NEW t \in Threads, InitialiseStarts(t)
      PROVE  InstanceInv'
  <2>1. Building(t) /\ code[t] # <<>> /\ Head(code[t]) = "initialise"
    BY <1>7, WhoRuns DEF InitialiseStarts, At
  <2>2. \A u \in Threads : u = t \/ code[u] = <<>>
    BY <2>1 DEF Building, Alone
  <2>3. /\ lib' = "up" /\ adapter' = adapter /\ cec' = cec /\ code' = code
        /\ obj' = "building"
    BY <1>7, <2>1 DEF InitialiseStarts, Building
  <2>4. At(t, "initialise")'
    BY <2>1, <2>3 DEF At
  <2>5. \A u \in Threads : ~At(u, "clear")' /\ ~At(u, "free")'
    BY <2>1, <2>2, <2>3 DEF At
  <2> QED
    BY <2>3, <2>4, <2>5 DEF InstanceInv
<1>8. ASSUME NEW t \in Threads, InitialiseReturns(t)
      PROVE  InstanceInv'
  <2>1. Building(t) /\ code[t] # <<>> /\ Head(code[t]) = "initialise"
    BY <1>8, WhoRuns DEF InitialiseReturns, At
  <2>2. Tail(code[t]) # <<>> =>
           Head(Tail(code[t])) \notin {"using", "closing", "clear", "free"}
    BY <2>1, NextHead
  <2>3. /\ \A u \in Threads \ {t} : code'[u] = <<>>
        /\ code'[t] = Tail(code[t])
    BY <1>8, <2>1 DEF InitialiseReturns, Step, Building, Alone, TypeOK
  <2>4. /\ lib' = "up" /\ adapter' = "set" /\ cec' = cec /\ obj' = "building"
    BY <1>8, <2>1 DEF InitialiseReturns, Building
  <2>5. \A u \in Threads : ~At(u, "clear")' /\ ~At(u, "free")'
    BY <2>2, <2>3 DEF At
  <2> QED
    BY <2>4, <2>5 DEF InstanceInv
<1>9. ASSUME NEW t \in Threads, CreationFails(t)
      PROVE  InstanceInv'
  <2>1. code' = [code EXCEPT ![t] = <<"lock", "dealloc">>]
    BY <1>9 DEF CreationFails, Become
  <2>2. ~At(t, "initialise") \/ lib # "up"
    BY <1>9 DEF CreationFails, At
  <2>3. Head(<<"lock", "dealloc">>) = "lock"
    OBVIOUS
  <2>4. UNCHANGED <<obj, adapter, lib, cec>>
    BY <1>9 DEF CreationFails
  <2> QED
    BY <2>1, <2>2, <2>3, <2>4, InstanceFrame
<1>10. ASSUME NEW t \in Threads, UseBegins(t) \/ CloseBegins(t)
       PROVE  InstanceInv'
  <2>1. PICK x \in {"using", "closing", "crashed"} :
          /\ code' = [code EXCEPT ![t] = <<x>> \o Tail(code[t])]
          /\ x # "crashed" => adapter = "set"
    BY <1>10 DEF UseBegins, CloseBegins, Become
  <2>2. code[t] # <<>> /\ Head(code[t]) \in {"use", "close"} /\ code[t] \in Seq(Ops)
    BY <1>10 DEF UseBegins, CloseBegins, At, TypeOK
  <2> DEFINE s == <<x>> \o Tail(code[t])
  <2>3. Head(s) = x
    <3>1. x \in Ops
      BY DEF Ops
    <3> QED
      BY <2>2, <3>1, ReplaceHead
  <2>4. x # "crashed" => lib \in {"up", "closed"}
    BY <2>1 DEF InstanceInv
  <2>5. code' = [code EXCEPT ![t] = s] /\ ~At(t, "initialise")
    BY <2>1, <2>2 DEF At
  <2> HIDE DEF s
  <2> QED
    BY <1>10, <2>3, <2>4, <2>5, InstanceFrame DEF UseBegins, CloseBegins
<1>11. ASSUME NEW t \in Threads, DeviceFails(t)
       PROVE  InstanceInv'
  <2>1. code' = [code EXCEPT ![t] = <<>>] /\ ~At(t, "initialise")
    BY <1>11 DEF DeviceFails, Become, At
  <2> QED
    BY <1>11, <2>1, InstanceFrame DEF DeviceFails
<1>12. ASSUME NEW t \in Threads, ListNext(t)
       PROVE  InstanceInv'
  <2>1. code' = [code EXCEPT ![t] = NewDevice \o <<"listed", "list">>] /\ ~At(t, "initialise")
    BY <1>12 DEF ListNext, Become, At
  <2> QED
    BY <1>12, <2>1, DeviceIsCall, InstanceFrame DEF ListNext
<1>13. ASSUME NEW t \in Threads, CloseReturns(t)
       PROVE  InstanceInv'
  <2>1. code[t] # <<>> /\ Head(code[t]) = "closing"
    BY <1>13 DEF CloseReturns, At
  <2>2. code[t] \in Closes /\ Working(t)
    BY <2>1, WhoRuns
  <2>3. Tail(code[t]) # <<>> /\ Head(Tail(code[t])) = "clear"
    BY <2>1, <2>2, CloseGoesOn
  <2>4. \A u \in Threads : code'[u] = IF u = t THEN Tail(code[t]) ELSE code[u]
    BY <1>13 DEF CloseReturns, Step, TypeOK
  <2>5. lib' = "closed" /\ adapter' = adapter /\ cec' = cec /\ Joined'
    BY <1>13 DEF CloseReturns, Joined
  <2> QED
    BY <2>5 DEF InstanceInv
<1>14. ASSUME NEW t \in Threads, CloseClears(t)
       PROVE  InstanceInv'
  <2>1. code[t] # <<>> /\ Head(code[t]) = "clear" /\ lib = "closed"
    BY <1>14 DEF CloseClears, At, InstanceInv
  <2>2. Tail(code[t]) # <<>> =>
           Head(Tail(code[t])) \notin {"using", "closing", "clear", "free"}
    BY <2>1, NextHead
  <2>3. \A u \in Threads : code'[u] = IF u = t THEN Tail(code[t]) ELSE code[u]
    BY <1>14 DEF CloseClears, Step, TypeOK
  <2>4. lib' = "closed" /\ adapter' = "null" /\ cec' = cec /\ Joined'
    BY <1>14, <2>1 DEF CloseClears, Joined, InstanceInv
  <2> QED
    BY <2>4 DEF InstanceInv
<1>15. ASSUME NEW t \in Threads, Dealloc(t)
       PROVE  InstanceInv'
  <2>1. /\ code' = [code EXCEPT ![t] = IF adapter = "set" THEN <<"destroy", "free">>
                                                          ELSE <<"free">>]
        /\ code[t] # <<>> /\ Head(code[t]) = "dealloc"
    BY <1>15 DEF Dealloc, Become, At
  <2>2. Alone(t)
    BY <2>1, WhoRuns DEF Building, Ending
  <2>3. adapter # "set" => lib # "up"
    BY <2>1, <2>2 DEF InstanceInv, At, Alone
  <2>4. ~At(t, "initialise")
    BY <2>1 DEF At
  <2>7. UNCHANGED <<obj, adapter, lib, cec>>
    BY <1>15 DEF Dealloc
  <2>5. CASE adapter = "set"
    <3>1. code' = [code EXCEPT ![t] = <<"destroy", "free">>]
      BY <2>1, <2>5
    <3>2. Head(<<"destroy", "free">>) = "destroy"
      OBVIOUS
    <3> QED
      BY <2>4, <2>7, <3>1, <3>2, InstanceFrame
  <2>6. CASE adapter # "set"
    <3>1. code' = [code EXCEPT ![t] = <<"free">>]
      BY <2>1, <2>6
    <3>2. Head(<<"free">>) = "free"
      OBVIOUS
    <3> QED
      BY <2>3, <2>4, <2>6, <2>7, <3>1, <3>2, InstanceFrame
  <2> QED
    BY <2>5, <2>6
<1>16. ASSUME NEW t \in Threads, DestroyReturns(t)
       PROVE  InstanceInv'
  <2>1. code[t] # <<>> /\ Head(code[t]) = "destroy"
    BY <1>16 DEF DestroyReturns, At
  <2>2. Alone(t)
    BY <2>1, WhoRuns DEF Building, Ending
  <2>3. Tail(code[t]) # <<>> => Head(Tail(code[t])) \notin {"using", "closing", "clear"}
    BY <2>1, NextHead
  <2>4. /\ \A u \in Threads \ {t} : code'[u] = <<>>
        /\ code'[t] = Tail(code[t])
    BY <1>16, <2>2 DEF DestroyReturns, Step, Alone, TypeOK
  <2>5. \A u \in Threads : ~At(u, "using")' /\ ~At(u, "closing")' /\ ~At(u, "clear")'
    BY <2>3, <2>4 DEF At
  <2>6. lib' = "destroyed" /\ adapter' = "null" /\ Joined'
    BY <1>16 DEF DestroyReturns, Joined
  <2> QED
    BY <2>5, <2>6 DEF InstanceInv
<1>17. ASSUME NEW t \in Threads, Free(t)
       PROVE  InstanceInv'
  <2>1. code[t] # <<>> /\ Head(code[t]) = "free" /\ lib # "up"
    BY <1>17 DEF Free, At, InstanceInv
  <2>2. code[t] \in Ends /\ Alone(t)
    BY <2>1, WhoRuns DEF Building, Ending
  <2>3. \A u \in Threads : code'[u] = <<>>
    BY <1>17, <2>1, <2>2, EndGoesOn DEF Free, Step, Alone, TypeOK
  <2>4. UNCHANGED <<adapter, lib, cec>>
    BY <1>17 DEF Free
  <2> QED
    BY <2>1, <2>3, <2>4 DEF InstanceInv, Joined, At
<1>18. ASSUME NEW u \in UserThreads, NEW named \in BOOLEAN, AdapterNew(u, named)
       PROVE  InstanceInv'
  <2> DEFINE s == Initialise(named)
  <2>1. /\ u \in Threads /\ code' = [code EXCEPT ![u] = s]
        /\ code[u] = <<>>
    BY <1>18 DEF AdapterNew, Become, InPython, Threads
  <2>2. Head(s) \in CreateOps
    BY CreationBegins, CreationGoesOn
  <2> HIDE DEF s
  <2> QED
    BY <1>18, <2>1, <2>2, InstanceFrame DEF AdapterNew, CreateOps, At
<1>19. ASSUME NEW c \in CecThreads,
              CallbackStarts(c) \/ CallbackReturns(c) \/ CallbackEnsures(c) \/ HandlerEnds(c)
       PROVE  InstanceInv'
  <2>1. lib = "up"
    <3>1. CallbackStarts(c) => lib = "up"
      BY DEF CallbackStarts
    <3>2. ~CallbackStarts(c) => cec[c] # "native"
      BY <1>19 DEF CallbackReturns, CallbackEnsures, HandlerEnds, InPython
    <3> QED
      BY <3>1, <3>2 DEF InstanceInv, Joined
  <2>2. UNCHANGED <<adapter, lib, obj>>
    BY <1>19 DEF CallbackStarts, CallbackReturns, CallbackEnsures, HandlerEnds
  <2>3. CASE ~HandlerEnds(c)
    BY <1>19, <2>1, <2>2, <2>3, InstanceSame
       DEF CallbackStarts, CallbackReturns, CallbackEnsures
  <2>4. CASE HandlerEnds(c)
    <3>1. PICK s \in {<<>>, <<"dealloc">>} : code' = [code EXCEPT ![c] = s]
      BY <2>4 DEF HandlerEnds, Become
    <3>2. c \in Threads /\ code[c] = <<>>
      BY <2>4 DEF HandlerEnds, InPython, Threads
    <3>3. \A u \in Threads : code'[u] = IF u = c THEN s ELSE code[u]
      BY <3>1 DEF TypeOK
    <3>4. s # <<>> => Head(s) = "dealloc"
      OBVIOUS
    <3>5. \A u \in Threads : /\ At(u, "initialise") => At(u, "initialise")'
                             /\ ~At(u, "free")' \/ At(u, "free")
                             /\ ~At(u, "clear")' \/ At(u, "clear")
      BY <3>2, <3>3, <3>4 DEF At
    <3> QED
      BY <2>1, <2>2, <3>5 DEF InstanceInv
  <2> QED
    BY <2>3, <2>4
<1> QED
  BY <1>1, <1>2, <1>3, <1>4, <1>5, <1>6, <1>7, <1>8, <1>9, <1>10, <1>11, <1>12, <1>13,
     <1>14, <1>15, <1>16, <1>17, <1>18, <1>19
  DEF Next, Client, CStep, Creation, Method, Destruction, Callback

-----------------------------------------------------------------------------
(* What holds for every client.                                             *)

\* The program starts in LifeInv.
LEMMA LifeInit == Init => LifeInv
<1> SUFFICES ASSUME Init PROVE LifeInv
  OBVIOUS
<1> USE DEF Init
<1>1. \A t \in Threads : code[t] = <<>>
  OBVIOUS
<1>2. \A t \in Threads : ~Makes(code[t]) /\ "device" \notin Range(code[t])
  BY <1>1, NoDeviceIn
<1>3. Listers = {} /\ Cardinality(Listers) = 0
  <2>1. Listers = {}
    BY <1>1, NoDeviceIn DEF Listers, Listing
  <2> QED
    BY <2>1, FS_EmptySet
<1>4. TypeOK
  <2>1. <<>> \in Seq(Ops)
    OBVIOUS
  <2> QED
    BY <2>1, ConstantsAssumption DEF TypeOK
<1>5. ObjectInv
  BY <1>1 DEF ObjectInv, Unshared
<1>6. HandlerInv /\ DeviceInv
  BY <1>1, <1>2 DEF HandlerInv, DeviceInv, Has, Threads
<1>7. ListInv
  BY <1>3, ConstantsAssumption DEF ListInv
<1>8. InstanceInv
  BY <1>1 DEF InstanceInv, Joined, At
<1> QED
  BY <1>4, <1>5, <1>6, <1>7, <1>8 DEF LifeInv

\* LifeInv is an invariant: whatever the client's threads do with the Adapter,
\* in whatever order, and whenever libcec calls back.
THEOREM LifeInvariant == Spec => []LifeInv
<1>1. LifeInv /\ [Next]_vars => LifeInv'
  <2> SUFFICES ASSUME LifeInv, [Next]_vars PROVE LifeInv'
    OBVIOUS
  <2>1. ObjectInv'
    BY ObjectStep
  <2> QED
    BY <2>1, TypeStep, HandlerStep, DeviceStep, ListStep, InstanceStep DEF LifeInv
<1> QED
  BY LifeInit, <1>1, PTL DEF Spec

\* The variables keep their types: the reference count never runs below zero
\* (Py_DECREF in Device_new, Device_dealloc and remove_callback).
THEOREM LifeTypes == Spec => []TypeOK
<1>1. LifeInv => TypeOK
  BY DEF LifeInv
<1> QED
  BY <1>1, LifeInvariant, PTL

\* A callback of libcec finds the Adapter that was given to CECInitialise as
\* callbackParam, although libcec holds no reference to it.
THEOREM CallbacksSafe == Spec => []CallbacksOnLiveObject
<1>1. LifeInv => CallbacksOnLiveObject
  BY DEF LifeInv, InstanceInv, Joined, CallbacksOnLiveObject
<1> QED
  BY <1>1, LifeInvariant, PTL

\* A call of libcec runs on an instance that is not destroyed before it
\* returns, also when another thread drops the last name for the Adapter.
THEOREM CallsSafe == Spec => []CallsOnLiveInstance
<1>1. LifeInv => CallsOnLiveInstance
  <2> SUFFICES ASSUME LifeInv, NEW t \in Threads, At(t, "using") \/ At(t, "closing")
               PROVE  obj = "live" /\ lib \in {"up", "closed"}
    BY DEF CallsOnLiveInstance
  <2>1. Working(t)
    BY WhoRuns DEF LifeInv, At
  <2> QED
    BY <2>1 DEF Working, LifeInv, InstanceInv
<1> QED
  BY <1>1, LifeInvariant, PTL

\* Device_new, list_devices, add_callback and remove_callback count what refers
\* to the Adapter, on their error paths too.
THEOREM RefsCounted == Spec => []RefsMatchHolders
<1>1. LifeInv => RefsMatchHolders
  BY DEF LifeInv, ObjectInv, RefsMatchHolders, Makers, Makes
<1> QED
  BY <1>1, LifeInvariant, PTL

\* Only a leaked Device or a registered handler keeps an Adapter that no thread
\* can reach.
THEOREM UnreachablePinned == Spec => []UnreachableIsPinned
<1>1. LifeInv => UnreachableIsPinned
  <2> SUFFICES ASSUME LifeInv, obj = "live",
                      \A t \in Threads : code[t] = <<>> /\ \A k \in Kinds : ~Has(t, k)
               PROVE  listed > 0 \/ Has(Registry, "adapter")
    BY DEF UnreachableIsPinned
  <2>1. \A t \in Threads : code[t] \notin Ends /\ ~Makes(code[t])
    BY EndGoesOn, NoDeviceIn
  <2>2. refs # 0 /\ refs = Cardinality(holds) + listed + Cardinality(Makers)
    BY <2>1 DEF LifeInv, ObjectInv
  <2>3. Makers = {}
    BY <2>1 DEF Makers
  <2>4. listed = 0 => holds # {}
    BY <2>2, <2>3, FS_EmptySet
  <2>5. ASSUME NEW h \in holds PROVE h = <<Registry, "adapter">>
    <3>1. PICK t \in Threads \cup {Registry}, k \in Kinds : h = <<t, k>>
      BY DEF LifeInv, TypeOK
    <3>2. t \notin Threads
      BY <3>1 DEF Has
    <3>3. k # "device"
      BY <3>1, <3>2 DEF LifeInv, DeviceInv, Has
    <3> QED
      BY <3>1, <3>2, <3>3 DEF Kinds
  <2>6. listed \in Nat
    BY ConstantsAssumption DEF LifeInv, TypeOK
  <2> QED
    BY <2>4, <2>5, <2>6 DEF Has
<1> QED
  BY <1>1, LifeInvariant, PTL

\* Adapter_new's error paths and Adapter_dealloc leave no instance that could
\* call back into freed memory.
THEOREM InstanceEnds == Spec => []InstanceEndsWithObject
<1>1. LifeInv => InstanceEndsWithObject
  BY DEF LifeInv, InstanceInv, InstanceEndsWithObject
<1> QED
  BY <1>1, LifeInvariant, PTL
=============================================================================
