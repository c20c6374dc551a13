------------------------ MODULE AdapterRequestsProofs ------------------------
(***************************************************************************)
(* Proofs about AdapterRequests: what the methods of any number of threads *)
(* ask of libcec, for any addresses, data and texts, while libcec changes  *)
(* its own.                                                                *)
(*                                                                         *)
(* The invariant says, for a request that is at a given step, what the     *)
(* steps before it have established (KnownInv), and, when something has    *)
(* been given to libcec, what it is (SentInv); TypedInv has the types of both. *)
(***************************************************************************)
EXTENDS AdapterRequests, PhysicalAddressProofs, FiniteSetTheorems

\* What may be left of a request.
Lefts(r) ==
    CASE r.op = "transmit" ->
            IF r.initiator = Default
            THEN {<<"addresses", "primary", "count", "send">>,
                  <<"primary", "count", "send">>, <<"count", "send">>, <<"send">>, <<>>}
            ELSE {<<"addresses", "count", "send">>, <<"count", "send">>, <<"send">>, <<>>}
      [] r.op = "device_transmit" ->
            {<<"device_count", "primary", "send">>, <<"primary", "send">>, <<"send">>, <<>>}
      [] r.op = "input"              -> {<<"primary", "send">>, <<"send">>, <<>>}
      [] r.op = "set_physical_addr"  -> {<<"parse", "address">>, <<"address">>, <<>>}
      [] r.op = "set_stream_path_to" -> {<<"parse", "path">>, <<"path">>, <<>>}
      [] r.op = "physical_address"   -> {<<"primary", "physical">>, <<"physical">>, <<>>}
      [] r.op = "persist_config"     ->
            {<<"can", "get", "set">>, <<"get", "set">>, <<"set">>, <<>>}
      [] r.op = "set_port"           -> {<<"port">>, <<>>}
      [] r.op = "set_stream_path"    -> {<<"stream">>, <<>>}
      [] OTHER                       -> {<<"number">>, <<>>}

\* The functions, and the addresses of libcec.
Shapes ==
    /\ primary \in Primaries
    /\ config \in Configs
    /\ req \in [Threads -> Requests \cup {None}]
    /\ todo = [t \in Threads |-> todo[t]]
    /\ local = [t \in Threads |-> local[t]]
    /\ out = [t \in Threads |-> out[t]]
    /\ seen \in [Threads -> SUBSET Primaries]
    /\ owned \in [Threads -> SUBSET Addresses]
    /\ disturbed \in [Threads -> BOOLEAN]

\* A thread without a request, and what every request has seen.
RequestInv(t) ==
    /\ Idle(t) => /\ todo[t] = <<>> /\ local[t] = None /\ out[t] = None
                  /\ seen[t] = {} /\ owned[t] = {} /\ ~disturbed[t]
    /\ ~Idle(t) => /\ todo[t] \in Lefts(req[t])
                   /\ primary \in seen[t] /\ config.address \in owned[t]

\* What the steps that were taken have established, for the steps that are left.
KnownInv(t) ==
    /\ (IsFrame(req[t]) /\ todo[t] # <<>> /\ ~At(t, "addresses")) =>
          /\ req[t].destination \in Digits
          /\ req[t].initiator \in Digits \cup {Default}
    /\ (/\ IsFrame(req[t]) /\ req[t].initiator = Default
        /\ todo[t] \in {<<"count", "send">>, <<"send">>}) => local[t] \in seen[t]
    /\ (IsFrame(req[t]) /\ todo[t] \in {<<"primary", "send">>, <<"send">>}) =>
          Len(req[t].params) <= MaxData
    /\ todo[t] \in {<<"address">>, <<"path">>} =>
          /\ local[t] = parse_physical_addr(req[t].text)
          /\ local[t] \in Addresses
    /\ todo[t] = <<"physical">> => local[t] \in seen[t]
    /\ todo[t] = <<"set">> => /\ local[t] \in Configs
                              /\ ~disturbed[t] => local[t] = config

\* A frame that has been given to libcec.
FrameSent(t) ==
    /\ out[t].destination = req[t].destination /\ req[t].destination \in Digits
    /\ out[t].opcode = req[t].opcode
    /\ out[t].params = req[t].params
    /\ IF req[t].initiator = Default
       THEN out[t].initiator \in seen[t]
       ELSE out[t].initiator = req[t].initiator /\ req[t].initiator \in Digits

\* What has been given to libcec, or was its answer.
SentInv(t) ==
    (~Idle(t) /\ out[t] # None) =>
        /\ todo[t] = <<>>
        /\ IsFrame(req[t]) => FrameSent(t)
        /\ TakesText(req[t]) =>
              out[t] = parse_physical_addr(req[t].text) /\ out[t] \in Addresses
        /\ TakesNumber(req[t]) => out[t] = req[t].number /\ out[t] \in Digits
        /\ req[t].op = "set_active_source" => out[t] <= 5
        /\ req[t].op = "set_port" => /\ out[t] = <<req[t].device, req[t].port>>
                                     /\ out[t] \in Digits \X Digits
        /\ (req[t].op = "physical_address" /\ \A p, q \in seen[t] : p = q) =>
              \E a \in owned[t] : out[t] = Format(a)

\* The types of what is kept between the steps and of what has been given.
TypedInv(t) ==
    ~Idle(t) => /\ local[t] = None \/ local[t] \in Kept(req[t])
                /\ out[t] = None \/ out[t] \in Given(req[t])

AskInv ==
    /\ Shapes
    /\ \A t \in Threads : RequestInv(t) /\ KnownInv(t) /\ SentInv(t) /\ TypedInv(t)


-----------------------------------------------------------------------------
(* The requests and their steps.                                            *)

Operations ==
    {"transmit", "device_transmit", "input", "is_active_source", "set_active_source",
     "set_stream_path", "set_port", "set_physical_addr", "set_stream_path_to",
     "physical_address", "persist_config"}

\* One step, or two, before others.
LEMMA Joined ==
    ASSUME NEW a, NEW b, NEW c, NEW d
    PROVE  /\ <<a>> \o <<>> = <<a>>
           /\ <<a>> \o <<b>> = <<a, b>>
           /\ <<a>> \o <<b, c>> = <<a, b, c>>
           /\ <<a, b>> \o <<c, d>> = <<a, b, c, d>>
<1> DEFINE S == {a, b, c, d}
<1>1. <<a>> \o <<>> = <<a>>   OBVIOUS
<1>2. <<a>> \o <<b>> = <<a, b>>
   <2>1. <<a>> \o <<b>> \in Seq(S) /\ <<a, b>> \in Seq(S)   OBVIOUS
   <2>2. Len(<<a>> \o <<b>>) = 2 /\ Len(<<a, b>>) = 2   OBVIOUS
   <2>3. \A i \in 1..2 : (<<a>> \o <<b>>)[i] = <<a, b>>[i]   OBVIOUS
   <2> QED  BY <2>1, <2>2, <2>3, SeqEqual
<1>3. <<a>> \o <<b, c>> = <<a, b, c>>
   <2>1. <<a>> \o <<b, c>> \in Seq(S) /\ <<a, b, c>> \in Seq(S)   OBVIOUS
   <2>2. Len(<<a>> \o <<b, c>>) = 3 /\ Len(<<a, b, c>>) = 3   OBVIOUS
   <2>3. \A i \in 1..3 : (<<a>> \o <<b, c>>)[i] = <<a, b, c>>[i]   OBVIOUS
   <2> QED  BY <2>1, <2>2, <2>3, SeqEqual
<1>4. <<a, b>> \o <<c, d>> = <<a, b, c, d>>
   <2>1. <<a, b>> \o <<c, d>> \in Seq(S) /\ <<a, b, c, d>> \in Seq(S)   OBVIOUS
   <2>2. Len(<<a, b>> \o <<c, d>>) = 4 /\ Len(<<a, b, c, d>>) = 4   OBVIOUS
   <2>3. \A i \in 1..4 : (<<a, b>> \o <<c, d>>)[i] = <<a, b, c, d>>[i]   OBVIOUS
   <2> QED  BY <2>1, <2>2, <2>3, SeqEqual
<1> QED  BY <1>1, <1>2, <1>3, <1>4

\* What a request has, by its operation.
LEMMA RequestFacts ==
    ASSUME NEW r \in Requests
    PROVE  /\ r # None /\ r.op \in Operations
           /\ IsFrame(r) => /\ r.destination \in Destinations /\ r.initiator \in Initiators
                            /\ r.params \in Seq(0..255) /\ r.opcode \in 0..255
           /\ r.op \in {"device_transmit", "input"} =>
                 r.destination \in Digits /\ r.initiator = Default
           /\ r.op = "input" => Len(r.params) = 2
           /\ r.op = "set_port" => r.device \in Destinations /\ r.port \in {1, 16}
           /\ TakesText(r) => r.text \in Seq(Int)
           /\ TakesNumber(r) => r.number \in {-1, 5, 6, 15, 16}
           /\ r.op \in {"is_active_source", "set_active_source"} => r.number >= 0
<1>1. r # None   BY NoneAssumption
<1>2. CASE r \in [op : {"transmit"}, destination : Destinations, initiator : Initiators,
                  opcode : {130}, params : Data]
   BY <1>1, <1>2, ConstantsAssumption DEF Operations, IsFrame, TakesText, TakesNumber
<1>3. CASE r \in [op : {"device_transmit"}, destination : Destinations \cap Digits,
                  initiator : {Default}, opcode : {130}, params : Data]
   BY <1>1, <1>3, ConstantsAssumption DEF Operations, IsFrame, TakesText, TakesNumber
<1>4. CASE r \in [op : {"input"}, destination : Destinations \cap Digits,
                  initiator : {Default}, opcode : {68},
                  params : {<<105, 1>>, <<106, 1>>}]
   <2>1. \A p \in {<<105, 1>>, <<106, 1>>} : p \in Seq(0..255) /\ Len(p) = 2
      <3>1. <<105, 1>> \in Seq(0..255) /\ Len(<<105, 1>>) = 2   OBVIOUS
      <3>2. <<106, 1>> \in Seq(0..255) /\ Len(<<106, 1>>) = 2   OBVIOUS
      <3> QED  BY <3>1, <3>2
   <2>2. r.params \in {<<105, 1>>, <<106, 1>>}   BY <1>4
   <2>3. r.params \in Seq(0..255) /\ Len(r.params) = 2   BY <2>1, <2>2
   <2> QED  BY <1>1, <1>4, <2>3, ConstantsAssumption DEF Operations, IsFrame, TakesText, TakesNumber
<1>5. CASE r \in Numbers   BY <1>1, <1>5 DEF Numbers, Operations, IsFrame, TakesText, TakesNumber
<1>6. CASE r \in Ports   BY <1>1, <1>6 DEF Ports, Operations, IsFrame, TakesText, TakesNumber
<1>7. CASE r \in [op : {"set_physical_addr", "set_stream_path_to"}, text : Texts]
   BY <1>1, <1>7, ConstantsAssumption DEF Operations, IsFrame, TakesText, TakesNumber
<1>8. CASE r \in [op : {"physical_address", "persist_config"}]
   BY <1>1, <1>8 DEF Operations, IsFrame, TakesText, TakesNumber
<1>9. CASE r \in Streams
   BY <1>1, <1>9 DEF Streams, Operations, IsFrame, TakesText, TakesNumber
<1> QED  BY <1>2, <1>3, <1>4, <1>5, <1>6, <1>7, <1>8, <1>9, Zenon DEF Requests, Frames

\* A request begins with all its steps, and they end in <<>>.
LEMMA BeginsWhole ==
    ASSUME NEW r \in Requests
    PROVE  /\ Steps(r) \in Lefts(r) /\ <<>> \in Lefts(r) /\ Steps(r) # <<>>
           /\ r.op = "transmit" => Head(Steps(r)) = "addresses"
           /\ r.op = "device_transmit" => Steps(r) = <<"device_count", "primary", "send">>
           /\ r.op = "input" => Steps(r) = <<"primary", "send">>
           /\ ~IsFrame(r) => Steps(r) \in {<<"parse", "address">>, <<"parse", "path">>,
                 <<"primary", "physical">>, <<"can", "get", "set">>,
                 <<"port">>, <<"number">>, <<"stream">>}
<1>1. r # None /\ r.op \in Operations   BY RequestFacts
<1>2. CASE r.op = "transmit" /\ r.initiator = Default
   <2>1. Steps(r) = <<"addresses">> \o <<"primary">> \o <<"count", "send">>
      BY <1>2 DEF Steps, TransmitSteps
   <2>2. <<"addresses">> \o <<"primary">> = <<"addresses", "primary">>   BY Joined
   <2>3. <<"addresses", "primary">> \o <<"count", "send">>
            = <<"addresses", "primary", "count", "send">>   BY Joined
   <2>4. Steps(r) = <<"addresses", "primary", "count", "send">>   BY <2>1, <2>2, <2>3
   <2> QED  BY <1>1, <1>2, <2>4 DEF Lefts, IsFrame
<1>3. CASE r.op = "transmit" /\ r.initiator # Default
   <2>1. Steps(r) = <<"addresses">> \o <<>> \o <<"count", "send">>   BY <1>3 DEF Steps, TransmitSteps
   <2>2. <<"addresses">> \o <<>> = <<"addresses">>   BY Joined
   <2>3. <<"addresses">> \o <<"count", "send">> = <<"addresses", "count", "send">>   BY Joined
   <2>4. Steps(r) = <<"addresses", "count", "send">>   BY <2>1, <2>2, <2>3
   <2> QED  BY <1>1, <1>3, <2>4 DEF Lefts, IsFrame
<1>4. CASE r.op # "transmit"
   <2> USE <1>1, <1>4 DEF Lefts, Steps, IsFrame, DeviceTransmitSteps, InputSteps, NumberSteps,
                         StreamSteps, PathSteps, SetPhysicalAddrSteps, SetPortSteps,
                         PhysicalAddressSteps, PersistConfigSteps
   <2>1. CASE r.op = "device_transmit"   BY <2>1
   <2>2. CASE r.op = "input"   BY <2>2
   <2>3. CASE r.op = "set_physical_addr"   BY <2>3
   <2>4. CASE r.op = "set_stream_path_to"   BY <2>4
   <2>5. CASE r.op = "physical_address"   BY <2>5
   <2>6. CASE r.op = "persist_config"   BY <2>6
   <2>7. CASE r.op = "set_port"   BY <2>7
   <2>8. CASE r.op \in {"is_active_source", "set_active_source"}   BY <2>8
   <2>9. CASE r.op = "set_stream_path"   BY <2>9
   <2> QED
      BY <2>1, <2>2, <2>3, <2>4, <2>5, <2>6, <2>7, <2>8, <2>9 DEF Operations
<1> QED  BY <1>2, <1>3, <1>4

\* Where a request is that is at a given step.
LEMMA WhereIs ==
    ASSUME NEW r \in Requests, NEW left \in Lefts(r), left # <<>>
    PROVE  /\ Tail(left) \in Lefts(r)
           /\ Head(left) = "addresses" =>
                 r.op = "transmit" /\ Tail(left) \in {<<"primary", "count", "send">>,
                                                      <<"count", "send">>}
                 /\ (Tail(left) = <<"count", "send">> => r.initiator # Default)
           /\ Head(left) = "primary" =>
                 \/ IsFrame(r) /\ Tail(left) = <<"count", "send">>
                 \/ IsFrame(r) /\ Tail(left) = <<"send">> /\ left = <<"primary", "send">>
                 \/ r.op = "physical_address" /\ Tail(left) = <<"physical">>
           /\ Head(left) = "count" => r.op = "transmit" /\ left = <<"count", "send">>
           /\ Head(left) = "device_count" =>
                 r.op = "device_transmit" /\ Tail(left) = <<"primary", "send">>
           /\ Head(left) = "send" => IsFrame(r) /\ left = <<"send">>
           /\ Head(left) = "parse" =>
                 /\ TakesText(r)
                 /\ Tail(left) \in {<<"address">>, <<"path">>}
           /\ Head(left) = "address" => r.op = "set_physical_addr" /\ left = <<"address">>
           /\ Head(left) = "path" => r.op = "set_stream_path_to" /\ left = <<"path">>
           /\ Head(left) = "physical" => r.op = "physical_address" /\ left = <<"physical">>
           /\ Head(left) = "can" => r.op = "persist_config" /\ Tail(left) = <<"get", "set">>
           /\ Head(left) = "get" => r.op = "persist_config" /\ Tail(left) = <<"set">>
           /\ Head(left) = "set" => r.op = "persist_config" /\ left = <<"set">>
           /\ Head(left) = "port" => r.op = "set_port" /\ left = <<"port">>
           /\ Head(left) = "number" =>
                 r.op \in {"is_active_source", "set_active_source"} /\ left = <<"number">>
           /\ Head(left) = "stream" => r.op = "set_stream_path" /\ left = <<"stream">>
<1>1. r # None /\ r.op \in Operations   BY RequestFacts
<1> USE <1>1 DEF IsFrame, TakesText
<1>2. CASE r.op = "transmit" /\ r.initiator = Default
   <2> USE <1>2
   <2>0. Lefts(r) =
            {<<"addresses", "primary", "count", "send">>, <<"primary", "count", "send">>,
             <<"count", "send">>, <<"send">>, <<>>}
      BY DEF Lefts
   <2>1. CASE left = <<"addresses", "primary", "count", "send">>
      <3>1. Head(left) = "addresses" /\ Tail(left) = <<"primary", "count", "send">>   BY <2>1
      <3> QED  BY <2>0, <2>1, <3>1
   <2>2. CASE left = <<"primary", "count", "send">>
      <3>1. Head(left) = "primary" /\ Tail(left) = <<"count", "send">>   BY <2>2
      <3> QED  BY <2>0, <2>2, <3>1
   <2>3. CASE left = <<"count", "send">>
      <3>1. Head(left) = "count" /\ Tail(left) = <<"send">>   BY <2>3
      <3> QED  BY <2>0, <2>3, <3>1
   <2>4. CASE left = <<"send">>
      <3>1. Head(left) = "send" /\ Tail(left) = <<>>   BY <2>4
      <3> QED  BY <2>0, <2>4, <3>1
   <2> QED  BY <2>0, <2>1, <2>2, <2>3, <2>4
<1>3. CASE r.op = "transmit" /\ r.initiator # Default
   <2> USE <1>3
   <2>0. Lefts(r) =
            {<<"addresses", "count", "send">>, <<"count", "send">>, <<"send">>, <<>>}
      BY DEF Lefts
   <2>1. CASE left = <<"addresses", "count", "send">>
      <3>1. Head(left) = "addresses" /\ Tail(left) = <<"count", "send">>   BY <2>1
      <3> QED  BY <2>0, <2>1, <3>1
   <2>2. CASE left = <<"count", "send">>
      <3>1. Head(left) = "count" /\ Tail(left) = <<"send">>   BY <2>2
      <3> QED  BY <2>0, <2>2, <3>1
   <2>3. CASE left = <<"send">>
      <3>1. Head(left) = "send" /\ Tail(left) = <<>>   BY <2>3
      <3> QED  BY <2>0, <2>3, <3>1
   <2> QED  BY <2>0, <2>1, <2>2, <2>3
<1>4. CASE r.op = "device_transmit"
   <2> USE <1>4
   <2>0. Lefts(r) =
            {<<"device_count", "primary", "send">>, <<"primary", "send">>, <<"send">>, <<>>}
      BY DEF Lefts
   <2>1. CASE left = <<"device_count", "primary", "send">>
      <3>1. Head(left) = "device_count" /\ Tail(left) = <<"primary", "send">>   BY <2>1
      <3> QED  BY <2>0, <2>1, <3>1
   <2>2. CASE left = <<"primary", "send">>
      <3>1. Head(left) = "primary" /\ Tail(left) = <<"send">>   BY <2>2
      <3> QED  BY <2>0, <2>2, <3>1
   <2>3. CASE left = <<"send">>
      <3>1. Head(left) = "send" /\ Tail(left) = <<>>   BY <2>3
      <3> QED  BY <2>0, <2>3, <3>1
   <2> QED  BY <2>0, <2>1, <2>2, <2>3
<1>5. CASE r.op = "input"
   <2> USE <1>5
   <2>0. Lefts(r) =
            {<<"primary", "send">>, <<"send">>, <<>>}
      BY DEF Lefts
   <2>1. CASE left = <<"primary", "send">>
      <3>1. Head(left) = "primary" /\ Tail(left) = <<"send">>   BY <2>1
      <3> QED  BY <2>0, <2>1, <3>1
   <2>2. CASE left = <<"send">>
      <3>1. Head(left) = "send" /\ Tail(left) = <<>>   BY <2>2
      <3> QED  BY <2>0, <2>2, <3>1
   <2> QED  BY <2>0, <2>1, <2>2
<1>6. CASE r.op = "set_physical_addr"
   <2> USE <1>6
   <2>0. Lefts(r) =
            {<<"parse", "address">>, <<"address">>, <<>>}
      BY DEF Lefts
   <2>1. CASE left = <<"parse", "address">>
      <3>1. Head(left) = "parse" /\ Tail(left) = <<"address">>   BY <2>1
      <3> QED  BY <2>0, <2>1, <3>1
   <2>2. CASE left = <<"address">>
      <3>1. Head(left) = "address" /\ Tail(left) = <<>>   BY <2>2
      <3> QED  BY <2>0, <2>2, <3>1
   <2> QED  BY <2>0, <2>1, <2>2
<1>7. CASE r.op = "set_stream_path_to"
   <2> USE <1>7
   <2>0. Lefts(r) =
            {<<"parse", "path">>, <<"path">>, <<>>}
      BY DEF Lefts
   <2>1. CASE left = <<"parse", "path">>
      <3>1. Head(left) = "parse" /\ Tail(left) = <<"path">>   BY <2>1
      <3> QED  BY <2>0, <2>1, <3>1
   <2>2. CASE left = <<"path">>
      <3>1. Head(left) = "path" /\ Tail(left) = <<>>   BY <2>2
      <3> QED  BY <2>0, <2>2, <3>1
   <2> QED  BY <2>0, <2>1, <2>2
<1>8. CASE r.op = "physical_address"
   <2> USE <1>8
   <2>0. Lefts(r) =
            {<<"primary", "physical">>, <<"physical">>, <<>>}
      BY DEF Lefts
   <2>1. CASE left = <<"primary", "physical">>
      <3>1. Head(left) = "primary" /\ Tail(left) = <<"physical">>   BY <2>1
      <3> QED  BY <2>0, <2>1, <3>1
   <2>2. CASE left = <<"physical">>
      <3>1. Head(left) = "physical" /\ Tail(left) = <<>>   BY <2>2
      <3> QED  BY <2>0, <2>2, <3>1
   <2> QED  BY <2>0, <2>1, <2>2
<1>9. CASE r.op = "persist_config"
   <2> USE <1>9
   <2>0. Lefts(r) =
            {<<"can", "get", "set">>, <<"get", "set">>, <<"set">>, <<>>}
      BY DEF Lefts
   <2>1. CASE left = <<"can", "get", "set">>
      <3>1. Head(left) = "can" /\ Tail(left) = <<"get", "set">>   BY <2>1
      <3> QED  BY <2>0, <2>1, <3>1
   <2>2. CASE left = <<"get", "set">>
      <3>1. Head(left) = "get" /\ Tail(left) = <<"set">>   BY <2>2
      <3> QED  BY <2>0, <2>2, <3>1
   <2>3. CASE left = <<"set">>
      <3>1. Head(left) = "set" /\ Tail(left) = <<>>   BY <2>3
      <3> QED  BY <2>0, <2>3, <3>1
   <2> QED  BY <2>0, <2>1, <2>2, <2>3
<1>10. CASE r.op = "set_port"
   <2> USE <1>10
   <2>0. Lefts(r) =
            {<<"port">>, <<>>}
      BY DEF Lefts
   <2>1. CASE left = <<"port">>
      <3>1. Head(left) = "port" /\ Tail(left) = <<>>   BY <2>1
      <3> QED  BY <2>0, <2>1, <3>1
   <2> QED  BY <2>0, <2>1
<1>11. CASE r.op \in {"is_active_source", "set_active_source"}
   <2> USE <1>11
   <2>0. Lefts(r) =
            {<<"number">>, <<>>}
      BY DEF Lefts
   <2>1. CASE left = <<"number">>
      <3>1. Head(left) = "number" /\ Tail(left) = <<>>   BY <2>1
      <3> QED  BY <2>0, <2>1, <3>1
   <2> QED  BY <2>0, <2>1
<1>12. CASE r.op = "set_stream_path"
   <2> USE <1>12
   <2>0. Lefts(r) =
            {<<"stream">>, <<>>}
      BY DEF Lefts
   <2>1. CASE left = <<"stream">>
      <3>1. Head(left) = "stream" /\ Tail(left) = <<>>   BY <2>1
      <3> QED  BY <2>0, <2>1, <3>1
   <2> QED  BY <2>0, <2>1
<1> QED
   BY <1>2, <1>3, <1>4, <1>5, <1>6, <1>7, <1>8, <1>9, <1>10, <1>11, <1>12 DEF Operations

\* What is left of a request is made of steps.
LEMMA LeftsAreSteps ==
    ASSUME NEW r \in Requests, NEW left \in Lefts(r)
    PROVE  left \in Seq(StepNames)
<1>1. r.op \in Operations   BY RequestFacts
<1>2. <<>> \in Seq(StepNames)   OBVIOUS
<1>3. <<"addresses", "primary", "count", "send">> \in Seq(StepNames)   BY DEF StepNames
<1>4. <<"primary", "count", "send">> \in Seq(StepNames)   BY DEF StepNames
<1>5. <<"addresses", "count", "send">> \in Seq(StepNames)   BY DEF StepNames
<1>6. <<"device_count", "primary", "send">> \in Seq(StepNames)   BY DEF StepNames
<1>7. <<"can", "get", "set">> \in Seq(StepNames)   BY DEF StepNames
<1>8. <<"count", "send">> \in Seq(StepNames)   BY DEF StepNames
<1>9. <<"primary", "send">> \in Seq(StepNames)   BY DEF StepNames
<1>10. <<"parse", "address">> \in Seq(StepNames)   BY DEF StepNames
<1>11. <<"parse", "path">> \in Seq(StepNames)   BY DEF StepNames
<1>12. <<"primary", "physical">> \in Seq(StepNames)   BY DEF StepNames
<1>13. <<"get", "set">> \in Seq(StepNames)   BY DEF StepNames
<1>14. <<"send">> \in Seq(StepNames)   BY DEF StepNames
<1>15. <<"address">> \in Seq(StepNames)   BY DEF StepNames
<1>16. <<"path">> \in Seq(StepNames)   BY DEF StepNames
<1>17. <<"physical">> \in Seq(StepNames)   BY DEF StepNames
<1>18. <<"set">> \in Seq(StepNames)   BY DEF StepNames
<1>19. <<"port">> \in Seq(StepNames)   BY DEF StepNames
<1>20. <<"stream">> \in Seq(StepNames)   BY DEF StepNames
<1>21. <<"number">> \in Seq(StepNames)   BY DEF StepNames
<1>22. CASE r.op = "transmit"
   BY <1>1, <1>2, <1>3, <1>4, <1>5, <1>8, <1>14, <1>22 DEF Lefts
<1>23. CASE r.op = "device_transmit"
   BY <1>1, <1>2, <1>6, <1>9, <1>14, <1>23 DEF Lefts
<1>24. CASE r.op = "input"
   BY <1>1, <1>2, <1>9, <1>14, <1>24 DEF Lefts
<1>25. CASE r.op \in {"set_physical_addr", "set_stream_path_to"}
   BY <1>1, <1>2, <1>10, <1>11, <1>15, <1>16, <1>25 DEF Lefts
<1>26. CASE r.op = "physical_address"
   BY <1>1, <1>2, <1>12, <1>17, <1>26 DEF Lefts
<1>27. CASE r.op = "persist_config"
   BY <1>1, <1>2, <1>7, <1>13, <1>18, <1>27 DEF Lefts
<1>28. CASE r.op \in {"set_port", "set_stream_path"}
   BY <1>1, <1>2, <1>19, <1>20, <1>28 DEF Lefts
<1>29. CASE r.op \in {"is_active_source", "set_active_source"}
   BY <1>1, <1>2, <1>21, <1>29 DEF Lefts
<1> QED
   BY <1>1, <1>22, <1>23, <1>24, <1>25, <1>26, <1>27, <1>28, <1>29 DEF Operations

\* What a method keeps and gives, by its kind.
LEMMA KeptIs ==
    ASSUME NEW r
    PROVE  /\ IsFrame(r) \/ r.op = "physical_address" => Kept(r) = Digits
           /\ TakesText(r) => Kept(r) = Addresses
           /\ r.op = "persist_config" => Kept(r) = Configs
BY DEF Kept, IsFrame, TakesText

LEMMA GivenIs ==
    ASSUME NEW r
    PROVE  /\ IsFrame(r) =>
                 Given(r) = [initiator : 0..255, destination : 0..255, opcode : 0..255,
                             params : Seq(0..255)]
           /\ TakesText(r) => Given(r) = Addresses
           /\ TakesNumber(r) => Given(r) = Int
           /\ r.op = "set_port" => Given(r) = (0..255) \X (0..255)
           /\ r.op = "physical_address" => Given(r) = [1..4 -> Digits]
BY DEF Given, IsFrame, TakesText, TakesNumber

\* A text of four groups, as a function.
LEMMA FourOf ==
    ASSUME NEW s \in Seq(Digits), Len(s) = 4
    PROVE  s \in [1..4 -> Digits]
OBVIOUS

\* The sequences that have one step.
LEMMA LastSteps ==
    \A last \in {"send", "address", "path", "physical", "set", "port", "number", "stream"} :
        Tail(<<last>>) = <<>> /\ Head(<<last>>) = last
OBVIOUS


-----------------------------------------------------------------------------
(* What every step keeps.                                                   *)

ThreadInv(t) == RequestInv(t) /\ KnownInv(t) /\ SentInv(t) /\ TypedInv(t)

\* What a step of another thread, or of libcec, does to the request of u: libcec
\* may change, and then u has seen more and its configuration is disturbed.
Untouched(u) ==
    /\ req'[u] = req[u] /\ todo'[u] = todo[u] /\ local'[u] = local[u] /\ out'[u] = out[u]
    /\ Idle(u) => seen'[u] = {} /\ owned'[u] = {} /\ ~disturbed'[u]
    /\ ~Idle(u) => /\ seen[u] \subseteq seen'[u] /\ primary' \in seen'[u]
                   /\ owned[u] \subseteq owned'[u] /\ config'.address \in owned'[u]
    /\ (~Idle(u) /\ ~disturbed'[u]) => ~disturbed[u] /\ config' = config

\* The invariant of a thread outlives the steps of the others.
LEMMA Elsewhere ==
    ASSUME NEW u, ThreadInv(u), Untouched(u)
    PROVE  ThreadInv(u)'
<1> USE DEF ThreadInv, Untouched, Idle
<1>1. RequestInv(u)'   BY DEF RequestInv
<1>2. KnownInv(u)'
   <2>1. CASE Idle(u)
      <3>1. todo'[u] = <<>> /\ req'[u] = None   BY <2>1 DEF RequestInv
      <3>2. <<>> \notin {<<"address">>, <<"path">>, <<"physical">>, <<"set">>}
         OBVIOUS
      <3> QED  BY <3>1, <3>2 DEF KnownInv, IsFrame
   <2>2. CASE ~Idle(u)   BY <2>2 DEF KnownInv, At, IsFrame
   <2> QED  BY <2>1, <2>2
<1>3. SentInv(u)'   BY DEF SentInv, FrameSent, IsFrame, TakesText, TakesNumber
<1>4. TypedInv(u)'   BY DEF TypedInv
<1> QED  BY <1>1, <1>2, <1>3, <1>4

\* Nothing is left to know when nothing is left to do.
LEMMA NothingLeft ==
    ASSUME NEW t, todo'[t] = <<>>
    PROVE  KnownInv(t)'
<1>1. <<>> \notin {<<"address">>, <<"path">>} /\ <<>> # <<"physical">> /\ <<>> # <<"set">>
      /\ <<>> \notin {<<"count", "send">>, <<"send">>, <<"primary", "send">>}
   OBVIOUS
<1> QED  BY <1>1 DEF KnownInv, At

\* A thread that has a step to take.
LEMMA Under ==
    ASSUME AskInv, NEW t \in Threads, todo[t] # <<>>
    PROVE  /\ ~Idle(t) /\ req[t] \in Requests /\ todo[t] \in Lefts(req[t])
           /\ out[t] = None /\ (local[t] = None \/ local[t] \in Kept(req[t]))
           /\ ThreadInv(t)
<1>1. RequestInv(t) /\ KnownInv(t) /\ SentInv(t) /\ TypedInv(t)   BY DEF AskInv
<1>2. ~Idle(t) /\ todo[t] \in Lefts(req[t])   BY <1>1 DEF RequestInv
<1>3. req[t] \in Requests   BY <1>2 DEF AskInv, Shapes, Idle
<1>4. out[t] = None   BY <1>1, <1>2 DEF SentInv
<1> QED  BY <1>1, <1>2, <1>3, <1>4 DEF ThreadInv, TypedInv

\* A step of t that leaves libcec as it is.
LEMMA QuietStep ==
    ASSUME AskInv, NEW t \in Threads, todo[t] # <<>>,
           NEW left \in Lefts(req[t]), NEW x, NEW y,
           x = None \/ x \in Kept(req[t]), y = None \/ y \in Given(req[t]),
           todo' = [todo EXCEPT ![t] = left],
           local' = [local EXCEPT ![t] = x], out' = [out EXCEPT ![t] = y],
           UNCHANGED <<libcec, req, history>>, KnownInv(t)', SentInv(t)'
    PROVE  AskInv'
<1> USE DEF libcec, history
<1>1. Shapes /\ \A u \in Threads : ThreadInv(u)   BY DEF AskInv, ThreadInv
<1>2. Shapes'   BY <1>1 DEF Shapes
<1>3. RequestInv(t)'
   <2>1. ~Idle(t)   BY Under
   <2> QED  BY <1>1, <2>1 DEF ThreadInv, RequestInv, Idle, Shapes
<1>4. TypedInv(t)'   BY <1>1 DEF TypedInv, Shapes
<1>5. ASSUME NEW u \in Threads \ {t}   PROVE ThreadInv(u)'
   <2>1. Untouched(u)
      BY <1>1 DEF Shapes, Untouched, ThreadInv, RequestInv, Idle
   <2> QED  BY <1>1, <2>1, Elsewhere
<1> QED  BY <1>2, <1>3, <1>4, <1>5 DEF AskInv, ThreadInv

\* A method that leaves, whatever its other steps are.
LEMMA LeaveStep ==
    ASSUME AskInv, NEW t \in Threads, todo[t] # <<>>, Leave(t),
           UNCHANGED <<libcec, req, local, out, history>>
    PROVE  AskInv'
<1>1. /\ ~Idle(t) /\ req[t] \in Requests /\ out[t] = None
      /\ local[t] = None \/ local[t] \in Kept(req[t])
   BY Under
<1>2. <<>> \in Lefts(req[t])   BY <1>1, BeginsWhole
<1>3. /\ todo' = [todo EXCEPT ![t] = <<>>]
      /\ local' = [local EXCEPT ![t] = local[t]]
      /\ out' = [out EXCEPT ![t] = out[t]]
   BY DEF Leave, AskInv, Shapes
<1>4. todo'[t] = <<>>   BY <1>3 DEF AskInv, Shapes
<1>5. KnownInv(t)'   BY <1>4, NothingLeft
<1>6. SentInv(t)'   BY <1>1 DEF SentInv
<1> QED  BY <1>1, <1>2, <1>3, <1>5, <1>6, QuietStep

\* The last step of t, which gives libcec another configuration.
LEMMA ConfigureStep ==
    ASSUME AskInv, NEW t \in Threads, todo[t] # <<>>, NEW c \in Configs, Configure(t, c),
           NEW y, y = None \/ y \in Given(req[t]),
           todo' = [todo EXCEPT ![t] = <<>>], out' = [out EXCEPT ![t] = y],
           UNCHANGED <<req, local>>, SentInv(t)'
    PROVE  AskInv'
<1> USE DEF Configure
<1>1. Shapes /\ \A u \in Threads : ThreadInv(u)   BY DEF AskInv, ThreadInv
<1>2. c.address \in Addresses   BY DEF Configs
<1>3. Shapes'
   <2>1. owned' \in [Threads -> SUBSET Addresses]
      <3>1. \A u \in Threads : (IF Idle(u) THEN {} ELSE owned[u] \cup {c.address})
                                  \in SUBSET Addresses
         BY <1>1, <1>2 DEF Shapes
      <3> QED  BY <3>1
   <2>2. disturbed' \in [Threads -> BOOLEAN]   OBVIOUS
   <2> QED  BY <1>1, <2>1, <2>2 DEF Shapes
<1>4. ~Idle(t) /\ req[t] \in Requests   BY Under
<1>5. todo'[t] = <<>>   BY <1>1 DEF Shapes
<1>6. RequestInv(t)'
   <2>1. <<>> \in Lefts(req[t])   BY <1>4, BeginsWhole
   <2>2. config'.address \in owned'[t]   BY <1>4
   <2>3. primary' \in seen'[t]   BY <1>1, <1>4 DEF ThreadInv, RequestInv
   <2> QED  BY <1>4, <1>5, <2>1, <2>2, <2>3 DEF RequestInv, Idle
<1>7. KnownInv(t)'   BY <1>5, NothingLeft
<1>8. TypedInv(t)'   BY <1>1, <1>4 DEF ThreadInv, TypedInv, Shapes
<1>9. ASSUME NEW u \in Threads \ {t}   PROVE ThreadInv(u)'
   <2>1. req'[u] = req[u] /\ todo'[u] = todo[u] /\ local'[u] = local[u] /\ out'[u] = out[u]
      BY <1>1 DEF Shapes
   <2>2. Idle(u) => seen'[u] = {} /\ owned'[u] = {} /\ ~disturbed'[u]
      BY <1>1 DEF ThreadInv, RequestInv
   <2>3. ~Idle(u) => /\ seen[u] \subseteq seen'[u] /\ primary' \in seen'[u]
                     /\ owned[u] \subseteq owned'[u] /\ config'.address \in owned'[u]
      BY <1>1 DEF ThreadInv, RequestInv
   <2>4. (~Idle(u) /\ ~disturbed'[u]) => ~disturbed[u] /\ config' = config
      OBVIOUS
   <2>5. Untouched(u)   BY <2>1, <2>2, <2>3, <2>4 DEF Untouched
   <2> QED  BY <1>1, <2>5, Elsewhere
<1> QED  BY <1>3, <1>6, <1>7, <1>8, <1>9 DEF AskInv, ThreadInv


-----------------------------------------------------------------------------
(* The steps of the methods.                                                *)

\* A step of t that leaves libcec as it is, and gives it nothing.
LEMMA StepOn ==
    ASSUME AskInv, NEW t \in Threads, todo[t] # <<>>, Step(t), NEW x,
           x = None \/ x \in Kept(req[t]),
           local' = [local EXCEPT ![t] = x], UNCHANGED <<libcec, req, out, history>>,
           KnownInv(t)'
    PROVE  AskInv'
<1>1. ~Idle(t) /\ req[t] \in Requests /\ todo[t] \in Lefts(req[t]) /\ out[t] = None
   BY Under
<1>2. Tail(todo[t]) \in Lefts(req[t])   BY <1>1, WhereIs
<1>3. /\ todo' = [todo EXCEPT ![t] = Tail(todo[t])]
      /\ out' = [out EXCEPT ![t] = out[t]]
   BY DEF Step, AskInv, Shapes
<1>4. SentInv(t)'   BY <1>1 DEF SentInv
<1> QED  BY <1>1, <1>2, <1>3, <1>4, QuietStep

\* The last step of t, in which libcec is given y or answers y.
LEMMA LastStep ==
    ASSUME AskInv, NEW t \in Threads, NEW last, todo[t] = <<last>>, Step(t),
           NEW y, y \in Given(req[t]),
           out' = [out EXCEPT ![t] = y], UNCHANGED <<libcec, req, local, history>>,
           SentInv(t)'
    PROVE  AskInv'
<1>0. todo[t] # <<>> /\ Tail(todo[t]) = <<>>   OBVIOUS
<1>1. req[t] \in Requests /\ (local[t] = None \/ local[t] \in Kept(req[t]))
   BY <1>0, Under
<1>2. <<>> \in Lefts(req[t])   BY <1>1, BeginsWhole
<1>3. /\ todo' = [todo EXCEPT ![t] = <<>>]
      /\ local' = [local EXCEPT ![t] = local[t]]
   BY <1>0 DEF Step, AskInv, Shapes
<1>4. todo'[t] = <<>>   BY <1>3 DEF AskInv, Shapes
<1>5. KnownInv(t)'   BY <1>4, NothingLeft
<1> QED  BY <1>0, <1>1, <1>2, <1>3, <1>5, QuietStep

\* What the sequences that are left after a step are not.
LEMMA Different ==
    /\ <<"primary", "count", "send">> \notin
          {<<"count", "send">>, <<"send">>, <<"primary", "send">>, <<"address">>,
           <<"path">>, <<"physical">>, <<"set">>, <<>>}
    /\ <<"count", "send">> \notin
          {<<"send">>, <<"primary", "send">>, <<"address">>, <<"path">>, <<"physical">>,
           <<"set">>, <<>>}
    /\ <<"primary", "send">> \notin
          {<<"count", "send">>, <<"send">>, <<"address">>, <<"path">>, <<"physical">>,
           <<"set">>, <<>>}
    /\ <<"get", "set">> \notin
          {<<"count", "send">>, <<"send">>, <<"primary", "send">>, <<"address">>,
           <<"path">>, <<"physical">>, <<"set">>, <<>>}
    /\ <<"send">> \notin {<<"count", "send">>, <<"primary", "send">>, <<"address">>,
                          <<"path">>, <<"physical">>, <<"set">>, <<>>}
    /\ <<"physical">> \notin
          {<<"count", "send">>, <<"send">>, <<"primary", "send">>, <<"address">>,
           <<"path">>, <<"set">>, <<>>}
    /\ <<"set">> \notin
          {<<"count", "send">>, <<"send">>, <<"primary", "send">>, <<"address">>,
           <<"path">>, <<"physical">>, <<>>}
    /\ \A last \in {<<"address">>, <<"path">>} :
          last \notin {<<"count", "send">>, <<"send">>, <<"primary", "send">>,
                       <<"physical">>, <<"set">>, <<>>}
<1> DEFINE S == {"primary", "count", "send", "address", "path", "physical", "set", "get"}
<1>1. \A a, b \in S : <<a>> # <<>> /\ (a # b => <<a>> # <<b>>)   OBVIOUS
<1>2. \A a, b, c, d \in S : <<a, b>> # <<c>> /\ (a # c => <<a, b>> # <<c, d>>)
   OBVIOUS
<1>3. \A a, b \in S : <<a, b>> # <<>>   OBVIOUS
<1>4. \A a, b, c, d, e \in S : /\ <<a, b, c>> # <<d, e>> /\ <<a, b, c>> # <<d>>
                              /\ <<a, b, c>> # <<>>
   OBVIOUS
<1> QED  BY <1>1, <1>2, <1>3, <1>4

\* transmit lets no address above 15 through.
LEMMA AddressesStep ==
    ASSUME AskInv, NEW t \in Threads, CheckAddresses(t)
    PROVE  AskInv'
<1>0. todo[t] # <<>> /\ Head(todo[t]) = "addresses"   BY DEF CheckAddresses, At
<1>1. /\ ~Idle(t) /\ req[t] \in Requests /\ todo[t] \in Lefts(req[t])
      /\ local[t] = None \/ local[t] \in Kept(req[t])
   BY <1>0, Under
<1>2. CASE \/ req[t].destination > 15
           \/ req[t].initiator # Default /\ req[t].initiator > 15
   BY <1>0, <1>2, LeaveStep DEF CheckAddresses
<1>3. CASE ~ (\/ req[t].destination > 15
              \/ req[t].initiator # Default /\ req[t].initiator > 15)
   <2>1. Step(t) /\ UNCHANGED <<libcec, req, local, out, history>>
      BY <1>3 DEF CheckAddresses
   <2>2. /\ req[t].op = "transmit"
         /\ Tail(todo[t]) \in {<<"primary", "count", "send">>, <<"count", "send">>}
         /\ Tail(todo[t]) = <<"count", "send">> => req[t].initiator # Default
      BY <1>0, <1>1, WhereIs
   <2>3. req[t].destination \in Digits /\ req[t].initiator \in Digits \cup {Default}
      <3>1. req[t].destination \in 0..255 /\ req[t].initiator \in 0..255
         BY <1>1, <2>2, RequestFacts, ConstantsAssumption DEF IsFrame
      <3> QED  BY <1>3, <3>1 DEF Digits
   <2>4. todo'[t] = Tail(todo[t]) /\ req' = req   BY <2>1 DEF Step, AskInv, Shapes
   <2>5. KnownInv(t)'   BY <2>2, <2>3, <2>4, Different DEF KnownInv, At
   <2>6. local' = [local EXCEPT ![t] = local[t]]   BY <2>1 DEF AskInv, Shapes
   <2> QED  BY <1>0, <1>1, <2>1, <2>5, <2>6, StepOn
<1> QED  BY <1>2, <1>3

\* What is read is an address that the adapter has now.
LEMMA PrimaryStep ==
    ASSUME AskInv, NEW t \in Threads, ReadPrimary(t)
    PROVE  AskInv'
<1>0. todo[t] # <<>> /\ Head(todo[t]) = "primary"   BY DEF ReadPrimary, At
<1>1. /\ ~Idle(t) /\ req[t] \in Requests /\ todo[t] \in Lefts(req[t])
      /\ ThreadInv(t)
   BY <1>0, Under
<1>2. \/ IsFrame(req[t]) /\ Tail(todo[t]) = <<"count", "send">>
      \/ IsFrame(req[t]) /\ Tail(todo[t]) = <<"send">> /\ todo[t] = <<"primary", "send">>
      \/ req[t].op = "physical_address" /\ Tail(todo[t]) = <<"physical">>
   BY <1>0, <1>1, WhereIs
<1>3. /\ todo'[t] = Tail(todo[t]) /\ req' = req /\ local'[t] = primary
      /\ seen' = seen
   BY DEF ReadPrimary, Step, AskInv, Shapes, history
<1>4. primary \in seen'[t]   BY <1>1, <1>3 DEF ThreadInv, RequestInv
<1>5. KnownInv(t)'
   <2>1. CASE /\ IsFrame(req[t])
              /\ \/ Tail(todo[t]) = <<"count", "send">>
                 \/ Tail(todo[t]) = <<"send">> /\ todo[t] = <<"primary", "send">>
      <3>1. /\ req[t].destination \in Digits
            /\ req[t].initiator \in Digits \cup {Default}
         BY <1>0, <1>1, <2>1 DEF ThreadInv, KnownInv, At
      <3>2. Tail(todo[t]) = <<"send">> => Len(req[t].params) <= MaxData
         BY <1>1, <2>1, Different DEF ThreadInv, KnownInv
      <3> QED  BY <1>3, <1>4, <2>1, <3>1, <3>2, Different DEF KnownInv, At
   <2>2. CASE req[t].op = "physical_address" /\ Tail(todo[t]) = <<"physical">>
      BY <1>3, <1>4, <2>2, Different DEF KnownInv, IsFrame
   <2> QED  BY <1>2, <2>1, <2>2
<1>6. primary \in Kept(req[t])
   <2>1. primary \in Digits   BY ConstantsAssumption DEF AskInv, Shapes
   <2> QED  BY <1>2, <2>1, KeptIs
<1> QED  BY <1>0, <1>5, <1>6, StepOn DEF ReadPrimary

\* A frame that is too long goes no further, in Adapter.transmit ...
LEMMA CountStep ==
    ASSUME AskInv, NEW t \in Threads, CheckCount(t)
    PROVE  AskInv'
<1>0. todo[t] # <<>> /\ Head(todo[t]) = "count"   BY DEF CheckCount, At
<1>1. /\ ~Idle(t) /\ req[t] \in Requests /\ todo[t] \in Lefts(req[t])
      /\ local[t] = None \/ local[t] \in Kept(req[t])
      /\ ThreadInv(t)
   BY <1>0, Under
<1>2. CASE Len(req[t].params) > MaxData   BY <1>0, <1>2, LeaveStep DEF CheckCount
<1>3. CASE ~(Len(req[t].params) > MaxData)
   <2>1. Step(t) /\ UNCHANGED <<libcec, req, local, out, history>>
      BY <1>3 DEF CheckCount
   <2>2. todo'[t] = Tail(todo[t]) /\ req' = req /\ local' = local /\ seen' = seen
      BY <2>1 DEF Step, AskInv, Shapes, history
   <2>3. req[t].op = "transmit" /\ todo[t] = <<"count", "send">>   BY <1>0, <1>1, WhereIs
   <2>4. IsFrame(req[t]) /\ req[t].params \in Seq(0..255)
      BY <1>1, <2>3, RequestFacts DEF IsFrame
   <2>5. Len(req[t].params) <= MaxData   BY <1>3, <2>4, ConstantsAssumption
   <2>6. req[t].destination \in Digits /\ req[t].initiator \in Digits \cup {Default}
      BY <1>0, <1>1, <2>4 DEF ThreadInv, KnownInv, At
   <2>7. KnownInv(t)'
      <3>1. Tail(todo[t]) = <<"send">>   BY <2>3
      <3>2. req[t].initiator = Default => local[t] \in seen[t]
         BY <1>1, <2>3, <2>4 DEF ThreadInv, KnownInv
      <3> QED  BY <2>2, <2>5, <2>6, <3>1, <3>2, Different DEF KnownInv, At
   <2>8. local' = [local EXCEPT ![t] = local[t]]   BY <2>1 DEF AskInv, Shapes
   <2> QED  BY <1>0, <1>1, <2>1, <2>7, <2>8, StepOn
<1> QED  BY <1>2, <1>3

\* ... and in Device.transmit.
LEMMA DeviceCountStep ==
    ASSUME AskInv, NEW t \in Threads, DeviceCheckCount(t)
    PROVE  AskInv'
<1>0. todo[t] # <<>> /\ Head(todo[t]) = "device_count"   BY DEF DeviceCheckCount, At
<1>1. /\ ~Idle(t) /\ req[t] \in Requests /\ todo[t] \in Lefts(req[t])
      /\ local[t] = None \/ local[t] \in Kept(req[t])
      /\ ThreadInv(t)
   BY <1>0, Under
<1>2. CASE Len(req[t].params) > MaxData   BY <1>0, <1>2, LeaveStep DEF DeviceCheckCount
<1>3. CASE ~(Len(req[t].params) > MaxData)
   <2>1. Step(t) /\ UNCHANGED <<libcec, req, local, out, history>>
      BY <1>3 DEF DeviceCheckCount
   <2>2. todo'[t] = Tail(todo[t]) /\ req' = req /\ local' = local /\ seen' = seen
      BY <2>1 DEF Step, AskInv, Shapes, history
   <2>3. req[t].op = "device_transmit" /\ Tail(todo[t]) = <<"primary", "send">>
      BY <1>0, <1>1, WhereIs
   <2>4. IsFrame(req[t]) /\ req[t].params \in Seq(0..255)
      BY <1>1, <2>3, RequestFacts DEF IsFrame
   <2>5. Len(req[t].params) <= MaxData   BY <1>3, <2>4, ConstantsAssumption
   <2>6. req[t].destination \in Digits /\ req[t].initiator \in Digits \cup {Default}
      BY <1>1, <2>3, RequestFacts
   <2>7. KnownInv(t)'   BY <2>2, <2>3, <2>5, <2>6, Different DEF KnownInv, At
   <2>8. local' = [local EXCEPT ![t] = local[t]]   BY <2>1 DEF AskInv, Shapes
   <2> QED  BY <1>0, <1>1, <2>1, <2>7, <2>8, StepOn
<1> QED  BY <1>2, <1>3

\* The frame that goes out is the one that was asked for, with nothing dropped.
LEMMA SendStep ==
    ASSUME AskInv, NEW t \in Threads, Send(t)
    PROVE  AskInv'
<1> DEFINE asked == req[t].initiator
           y == Frame(req[t], IF asked = Default THEN local[t] ELSE asked)
<1>0. todo[t] # <<>> /\ Head(todo[t]) = "send"   BY DEF Send, At
<1>1. /\ ~Idle(t) /\ req[t] \in Requests /\ todo[t] \in Lefts(req[t])
      /\ ThreadInv(t)
   BY <1>0, Under
<1>2. IsFrame(req[t]) /\ todo[t] = <<"send">>   BY <1>0, <1>1, WhereIs
<1>3. /\ out' = [out EXCEPT ![t] = y] /\ Step(t)
      /\ UNCHANGED <<libcec, req, local, history>>
   BY DEF Send
<1>4. out'[t] = y /\ todo'[t] = <<>> /\ req' = req /\ seen' = seen
   <2>1. Tail(todo[t]) = <<>>   BY <1>2
   <2> QED  BY <1>3, <2>1 DEF Step, AskInv, Shapes, history
<1>5. /\ req[t].destination \in Digits
      /\ asked \in Digits \cup {Default}
      /\ asked = Default => local[t] \in seen[t]
      /\ Len(req[t].params) <= MaxData
   <2>1. ~At(t, "addresses")   BY <1>0 DEF At
   <2> QED  BY <1>0, <1>1, <1>2, <2>1 DEF ThreadInv, KnownInv
<1>6. Pushed(req[t].params) = req[t].params
   <2>1. req[t].params \in Seq(0..255)   BY <1>1, <1>2, RequestFacts
   <2>2. Len(req[t].params) \in Nat /\ MaxData \in Nat   BY <2>1, ConstantsAssumption
   <2>3. Pushed(req[t].params) = SubSeq(req[t].params, 1, Len(req[t].params))
      BY <1>5, <2>2 DEF Pushed
   <2> QED  BY <2>1, <2>3, SubSeqFull
<1>7. SentInv(t)'
   <2>1. FrameSent(t)'   BY <1>4, <1>5, <1>6 DEF FrameSent, Frame
   <2>2. /\ ~TakesText(req[t]) /\ ~TakesNumber(req[t])
         /\ req[t].op \notin {"physical_address", "set_active_source", "set_port"}
      BY <1>2 DEF IsFrame, TakesText, TakesNumber
   <2> QED  BY <1>4, <2>1, <2>2 DEF SentInv
<1>8. y \in Given(req[t])
   <2>1. /\ req[t].opcode \in 0..255 /\ req[t].params \in Seq(0..255)
         /\ req[t].destination \in 0..255
      <3>1. req[t].opcode \in 0..255 /\ req[t].params \in Seq(0..255)
         BY <1>1, <1>2, RequestFacts
      <3>2. req[t].destination \in Digits   BY <1>5
      <3> QED  BY <3>1, <3>2 DEF Digits
   <2> DEFINE from == IF asked = Default THEN local[t] ELSE asked
   <2>2. from \in 0..255
      <3>1. seen[t] \subseteq Digits   BY ConstantsAssumption DEF AskInv, Shapes
      <3>2. from \in Digits   BY <1>5, <3>1
      <3> HIDE DEF from
      <3> QED  BY <3>2 DEF Digits
   <2> HIDE DEF from
   <2>3. y \in [initiator : 0..255, destination : 0..255, opcode : 0..255,
                params : Seq(0..255)]
      BY <1>6, <2>1, <2>2 DEF Frame, from
   <2> HIDE DEF y
   <2> QED  BY <1>2, <2>3, GivenIs
<1> HIDE DEF y
<1> QED  BY <1>2, <1>3, <1>7, <1>8, LastStep

\* A number in range, which libcec is given.
LEMMA NumberGiven ==
    ASSUME AskInv, NEW t \in Threads, NEW last, todo[t] = <<last>>, TakesNumber(req[t]),
           req[t].number \in Digits, req[t].op = "set_active_source" => req[t].number <= 5,
           Step(t), out' = [out EXCEPT ![t] = req[t].number],
           UNCHANGED <<libcec, req, local, history>>
    PROVE  AskInv'
<1>1. todo'[t] = <<>> /\ req' = req /\ out'[t] = req[t].number
   <2>1. Tail(todo[t]) = <<>>   OBVIOUS
   <2> QED  BY <2>1 DEF Step, AskInv, Shapes
<1>2. SentInv(t)'   BY <1>1 DEF SentInv, IsFrame, TakesText, TakesNumber
<1>3. req[t].number \in Given(req[t])
   <2>1. req[t].number \in Int   BY DEF Digits
   <2> QED  BY <2>1, GivenIs
<1> QED  BY <1>2, <1>3, LastStep

\* is_active_source, set_active_source and set_stream_path give it a number or
\* none.
LEMMA NumberStep ==
    ASSUME AskInv, NEW t \in Threads, PassNumber(t) \/ SetStream(t)
    PROVE  AskInv'
<1>0. todo[t] # <<>> /\ Head(todo[t]) \in {"number", "stream"}
   BY DEF PassNumber, SetStream, At
<1>1. /\ ~Idle(t) /\ req[t] \in Requests /\ todo[t] \in Lefts(req[t])
   BY <1>0, Under
<1>2. /\ TakesNumber(req[t]) => req[t].number \in {-1, 5, 6, 15, 16}
      /\ req[t].op \in {"is_active_source", "set_active_source"} => req[t].number >= 0
   BY <1>1, RequestFacts
<1>3. ASSUME PassNumber(t)   PROVE AskInv'
   <2>1. /\ req[t].op \in {"is_active_source", "set_active_source"}
         /\ todo[t] = <<"number">>
      BY <1>1, <1>3, WhereIs DEF PassNumber, At
   <2>2. TakesNumber(req[t])   BY <2>1 DEF TakesNumber
   <2>3. CASE req[t].number > Limit[req[t].op]
      BY <1>0, <1>3, <2>3, LeaveStep DEF PassNumber
   <2>4. CASE ~(req[t].number > Limit[req[t].op])
      <3>1. /\ req[t].number \in Digits
            /\ req[t].op = "set_active_source" => req[t].number <= 5
         BY <1>2, <2>1, <2>2, <2>4 DEF Limit, Digits
      <3>2. /\ Step(t) /\ out' = [out EXCEPT ![t] = req[t].number]
            /\ UNCHANGED <<libcec, req, local, history>>
         BY <1>3, <2>4 DEF PassNumber
      <3> QED  BY <2>1, <2>2, <3>1, <3>2, NumberGiven
   <2> QED  BY <2>3, <2>4
<1>4. ASSUME SetStream(t)   PROVE AskInv'
   <2>1. req[t].op = "set_stream_path" /\ todo[t] = <<"stream">>
      BY <1>1, <1>4, WhereIs DEF SetStream, At
   <2>2. TakesNumber(req[t])   BY <2>1 DEF TakesNumber
   <2>3. CASE req[t].number < 0 \/ req[t].number > 15
      BY <1>0, <1>4, <2>3, LeaveStep DEF SetStream
   <2>4. CASE ~(req[t].number < 0 \/ req[t].number > 15)
      <3>1. req[t].number \in Digits   BY <1>2, <2>2, <2>4 DEF Digits
      <3>2. /\ Step(t) /\ out' = [out EXCEPT ![t] = req[t].number]
            /\ UNCHANGED <<libcec, req, local, history>>
         BY <1>4, <2>4 DEF SetStream
      <3> QED  BY <2>1, <2>2, <3>1, <3>2, NumberGiven
   <2> QED  BY <2>3, <2>4
<1> QED  BY <1>3, <1>4

\* set_port gives libcec a configuration with another port.
LEMMA PortStep ==
    ASSUME AskInv, NEW t \in Threads, SetPort(t) \/ RefusePort(t)
    PROVE  AskInv'
<1>0. todo[t] # <<>> /\ Head(todo[t]) = "port"   BY DEF SetPort, RefusePort, At
<1>1. /\ ~Idle(t) /\ req[t] \in Requests /\ todo[t] \in Lefts(req[t])
   BY <1>0, Under
<1>2. req[t].op = "set_port" /\ todo[t] = <<"port">>   BY <1>0, <1>1, WhereIs
<1>3. CASE RefusePort(t)   BY <1>0, <1>3, LeaveStep DEF RefusePort
<1>4. CASE SetPort(t)
   <2>1. PICK a \in OwnAddresses : Configure(t, [address |-> a, port |-> req[t].port])
      BY <1>4 DEF SetPort
   <2>2. [address |-> a, port |-> req[t].port] \in Configs
      <3>1. a \in Addresses   BY ConstantsAssumption
      <3>2. req[t].port \in {1, 16} /\ req[t].port <= 15
         BY <1>1, <1>2, <1>4, RequestFacts DEF SetPort
      <3>3. req[t].port \in Digits   BY <3>2 DEF Digits
      <3> QED  BY <3>1, <3>3 DEF Configs
   <2>3. /\ out' = [out EXCEPT ![t] = <<req[t].device, req[t].port>>]
         /\ Step(t) /\ UNCHANGED <<req, local>>
      BY <1>4 DEF SetPort
   <2>4. todo' = [todo EXCEPT ![t] = <<>>] /\ todo'[t] = <<>>
      <3>1. Tail(todo[t]) = <<>>   BY <1>2
      <3> QED  BY <2>3, <3>1 DEF Step, AskInv, Shapes
   <2>5. req[t].device \in Digits /\ req[t].port \in Digits
      <3>1. req[t].device \in 0..255 /\ req[t].port \in {1, 16}
         BY <1>1, <1>2, RequestFacts, ConstantsAssumption
      <3>2. req[t].device <= 15 /\ req[t].port <= 15   BY <1>4 DEF SetPort
      <3> QED  BY <3>1, <3>2 DEF Digits
   <2> DEFINE y == <<req[t].device, req[t].port>>
   <2>6. y \in Digits \X Digits /\ y \in (0..255) \X (0..255)   BY <2>5 DEF Digits
   <2>7. out'[t] = y /\ req' = req   BY <2>3 DEF AskInv, Shapes
   <2>8. SentInv(t)'
      BY <1>2, <2>4, <2>6, <2>7 DEF SentInv, IsFrame, TakesText, TakesNumber
   <2>9. y \in Given(req[t])   BY <1>2, <2>6, GivenIs
   <2> HIDE DEF y
   <2> QED  BY <1>0, <2>1, <2>2, <2>3, <2>4, <2>8, <2>9, ConfigureStep DEF y
<1> QED  BY <1>3, <1>4

\* What set_physical_addr and set_stream_path go on with is an address.
LEMMA ParseStep ==
    ASSUME AskInv, NEW t \in Threads, ParseText(t)
    PROVE  AskInv'
<1> DEFINE address == parse_physical_addr(req[t].text)
<1>0. todo[t] # <<>> /\ Head(todo[t]) = "parse"   BY DEF ParseText, At
<1>1. /\ ~Idle(t) /\ req[t] \in Requests /\ todo[t] \in Lefts(req[t])
   BY <1>0, Under
<1>2. /\ TakesText(req[t])
      /\ Tail(todo[t]) \in {<<"address">>, <<"path">>}
   BY <1>0, <1>1, WhereIs
<1>3. address \in Addresses \cup {-1}   BY <1>1, <1>2, RequestFacts, ParseFits
<1>4. CASE address < 0   BY <1>0, <1>4, LeaveStep DEF ParseText
<1>5. CASE ~(address < 0)
   <2>1. /\ Step(t) /\ local' = [local EXCEPT ![t] = address]
         /\ UNCHANGED <<libcec, req, out, history>>
      BY <1>5 DEF ParseText
   <2>2. address \in Addresses   BY <1>3, <1>5
   <2>3. todo'[t] = Tail(todo[t]) /\ local'[t] = address /\ req' = req
      BY <2>1 DEF Step, AskInv, Shapes
   <2>4. KnownInv(t)'
      <3> HIDE DEF address
      <3>1. ~IsFrame(req[t])   BY <1>2 DEF IsFrame, TakesText
      <3>2. local'[t] = parse_physical_addr(req'[t].text)   BY <2>3 DEF address
      <3> QED  BY <1>2, <2>2, <2>3, <3>1, <3>2, Different DEF KnownInv
   <2>5. address \in Kept(req[t])   BY <1>2, <2>2, KeptIs
   <2> QED  BY <1>0, <2>1, <2>4, <2>5, StepOn
<1> QED  BY <1>4, <1>5

\* set_physical_addr and set_stream_path give libcec that address.
LEMMA AddressGiven ==
    ASSUME AskInv, NEW t \in Threads, SetPhysicalAddress(t) \/ SetStreamPath(t)
    PROVE  AskInv'
<1>0. todo[t] # <<>> /\ Head(todo[t]) \in {"address", "path"}
   BY DEF SetPhysicalAddress, SetStreamPath, At
<1>1. /\ ~Idle(t) /\ req[t] \in Requests /\ todo[t] \in Lefts(req[t])
      /\ ThreadInv(t)
   BY <1>0, Under
<1>2. /\ TakesText(req[t])
      /\ todo[t] \in {<<"address">>, <<"path">>}
      /\ Tail(todo[t]) = <<>>
   <2>1. Head(todo[t]) = "address" =>
            req[t].op = "set_physical_addr" /\ todo[t] = <<"address">>
      BY <1>0, <1>1, WhereIs
   <2>2. Head(todo[t]) = "path" =>
            req[t].op = "set_stream_path_to" /\ todo[t] = <<"path">>
      BY <1>0, <1>1, WhereIs
   <2>3. Tail(<<"address">>) = <<>> /\ Tail(<<"path">>) = <<>>   OBVIOUS
   <2> QED  BY <1>0, <2>1, <2>2, <2>3 DEF TakesText
<1>3. local[t] = parse_physical_addr(req[t].text) /\ local[t] \in Addresses
   BY <1>1, <1>2 DEF ThreadInv, KnownInv
<1>4. /\ out' = [out EXCEPT ![t] = local[t]] /\ Step(t)
      /\ UNCHANGED <<req, local>>
   BY DEF SetPhysicalAddress, SetStreamPath
<1>5. /\ todo' = [todo EXCEPT ![t] = <<>>] /\ todo'[t] = <<>> /\ out'[t] = local[t]
   BY <1>2, <1>4 DEF Step, AskInv, Shapes
<1>6. SentInv(t)'   BY <1>2, <1>3, <1>4, <1>5 DEF SentInv, IsFrame, TakesText, TakesNumber
<1>7. local[t] \in Given(req[t])   BY <1>2, <1>3, GivenIs
<1>8. CASE SetPhysicalAddress(t)
   <2>1. Configure(t, [config EXCEPT !.address = local[t]])
      BY <1>8 DEF SetPhysicalAddress
   <2>2. [config EXCEPT !.address = local[t]] \in Configs
      BY <1>3 DEF AskInv, Shapes, Configs
   <2> QED  BY <1>0, <1>4, <1>5, <1>6, <1>7, <2>1, <2>2, ConfigureStep
<1>9. CASE SetStreamPath(t)
   <2>1. UNCHANGED <<libcec, history>>   BY <1>9 DEF SetStreamPath
   <2>2. PICK last \in {"address", "path"} : todo[t] = <<last>>   BY <1>2
   <2> QED  BY <1>4, <1>6, <1>7, <2>1, <2>2, LastStep
<1> QED  BY <1>8, <1>9

\* If the adapter has had one logical address only, what libcec is asked about is
\* the adapter itself.
LEMMA PhysicalStep ==
    ASSUME AskInv, NEW t \in Threads, ReadPhysical(t)
    PROVE  AskInv'
<1> DEFINE y == Format(IF local[t] = primary THEN config.address ELSE PeerAddress)
<1>0. todo[t] # <<>> /\ Head(todo[t]) = "physical"   BY DEF ReadPhysical, At
<1>1. /\ ~Idle(t) /\ req[t] \in Requests /\ todo[t] \in Lefts(req[t])
      /\ ThreadInv(t)
   BY <1>0, Under
<1>2. req[t].op = "physical_address" /\ todo[t] = <<"physical">>
   BY <1>0, <1>1, WhereIs
<1>3. local[t] \in seen[t] /\ primary \in seen[t] /\ config.address \in owned[t]
   BY <1>1, <1>2 DEF ThreadInv, KnownInv, RequestInv
<1>4. /\ out' = [out EXCEPT ![t] = y] /\ Step(t)
      /\ UNCHANGED <<libcec, req, local, history>>
   BY DEF ReadPhysical
<1>5. out'[t] = y /\ todo'[t] = <<>>
   <2>1. Tail(todo[t]) = <<>>   BY <1>2
   <2> QED  BY <1>4, <2>1 DEF Step, AskInv, Shapes
<1>6. (\A p, q \in seen[t] : p = q) => \E a \in owned[t] : y = Format(a)   BY <1>3
<1>7. SentInv(t)'
   <2> HIDE DEF y
   <2>1. req' = req /\ seen' = seen /\ owned' = owned   BY <1>4 DEF history
   <2> QED  BY <1>2, <1>5, <1>6, <2>1 DEF SentInv, IsFrame, TakesText, TakesNumber
<1>8. y \in Given(req[t])
   <2>1. (IF local[t] = primary THEN config.address ELSE PeerAddress) \in Addresses
      BY ConstantsAssumption DEF AskInv, Shapes, Configs
   <2>2. y \in [1..4 -> Digits]   BY <2>1, FormatDigits, FourOf
   <2> HIDE DEF y
   <2> QED  BY <1>2, <2>2, GivenIs
<1> HIDE DEF y
<1> QED  BY <1>2, <1>4, <1>7, <1>8, LastStep

\* persist_config, up to the configuration that it is going to give back.
LEMMA PersistBegins ==
    ASSUME AskInv, NEW t \in Threads, CanSave(t) \/ GetConfiguration(t)
    PROVE  AskInv'
<1>0. todo[t] # <<>> /\ Head(todo[t]) \in {"can", "get"}
   BY DEF CanSave, GetConfiguration, At
<1>1. /\ ~Idle(t) /\ req[t] \in Requests /\ todo[t] \in Lefts(req[t])
      /\ local[t] = None \/ local[t] \in Kept(req[t])
   BY <1>0, Under
<1>2. CASE Leave(t) /\ UNCHANGED local
   BY <1>0, <1>2, LeaveStep DEF CanSave, GetConfiguration
<1>3. CASE CanSave(t) /\ Step(t)
   <2>1. UNCHANGED <<libcec, req, local, out, history>>   BY <1>3 DEF CanSave
   <2>2. req[t].op = "persist_config" /\ Tail(todo[t]) = <<"get", "set">>
      BY <1>1, <1>3, WhereIs DEF CanSave, At
   <2>3. todo'[t] = Tail(todo[t]) /\ req' = req /\ local' = [local EXCEPT ![t] = local[t]]
      BY <1>3, <2>1 DEF Step, AskInv, Shapes
   <2>4. KnownInv(t)'   BY <2>2, <2>3, Different DEF KnownInv, IsFrame
   <2> QED  BY <1>0, <1>1, <1>3, <2>1, <2>3, <2>4, StepOn
<1>4. CASE GetConfiguration(t) /\ local' = [local EXCEPT ![t] = config] /\ Step(t)
   <2>1. UNCHANGED <<libcec, req, out, history>>   BY <1>4 DEF GetConfiguration
   <2>2. req[t].op = "persist_config" /\ Tail(todo[t]) = <<"set">>
      BY <1>1, <1>4, WhereIs DEF GetConfiguration, At
   <2>3. todo'[t] = Tail(todo[t]) /\ req' = req /\ local'[t] = config
      BY <1>4, <2>1 DEF Step, AskInv, Shapes
   <2>4. config' = config /\ config \in Configs   BY <2>1 DEF libcec, AskInv, Shapes
   <2>5. KnownInv(t)'   BY <2>2, <2>3, <2>4, Different DEF KnownInv, IsFrame
   <2>6. config \in Kept(req[t])   BY <2>2, <2>4, KeptIs
   <2> QED  BY <1>0, <1>4, <2>1, <2>5, <2>6, StepOn
<1> QED  BY <1>2, <1>3, <1>4 DEF CanSave, GetConfiguration

\* persist_config gives it back.
LEMMA PersistEnds ==
    ASSUME AskInv, NEW t \in Threads, SetConfiguration(t)
    PROVE  AskInv'
<1>0. todo[t] # <<>> /\ Head(todo[t]) = "set"   BY DEF SetConfiguration, At
<1>1. /\ ~Idle(t) /\ req[t] \in Requests /\ todo[t] \in Lefts(req[t])
      /\ ThreadInv(t) /\ out[t] = None
   BY <1>0, Under
<1>2. todo[t] = <<"set">>   BY <1>0, <1>1, WhereIs
<1>3. local[t] \in Configs   BY <1>1, <1>2 DEF ThreadInv, KnownInv
<1>4. /\ Configure(t, local[t]) /\ Step(t) /\ UNCHANGED <<req, local, out>>
   BY DEF SetConfiguration
<1>5. /\ todo' = [todo EXCEPT ![t] = <<>>]
      /\ out' = [out EXCEPT ![t] = out[t]]
   <2>1. Tail(todo[t]) = <<>>   BY <1>2
   <2> QED  BY <1>4, <2>1 DEF Step, AskInv, Shapes
<1>6. SentInv(t)'   BY <1>1, <1>4 DEF SentInv
<1> QED  BY <1>0, <1>1, <1>3, <1>4, <1>5, <1>6, ConfigureStep


-----------------------------------------------------------------------------
(* Requests begin and end, and libcec does something on its own.            *)

\* A request begins with nothing known.
LEMMA AskStep ==
    ASSUME AskInv, NEW t \in Threads, NEW r \in Requests, Ask(t, r)
    PROVE  AskInv'
<1> USE DEF Ask, libcec
<1>1. Shapes /\ \A u \in Threads : ThreadInv(u)   BY DEF AskInv, ThreadInv
<1>2. r # None   BY RequestFacts
<1>3. Shapes'
   <2>1. {primary} \in SUBSET Primaries /\ {config.address} \in SUBSET Addresses
      BY <1>1 DEF Shapes, Configs
   <2> QED  BY <1>1, <2>1 DEF Shapes
<1>4. /\ req'[t] = r /\ todo'[t] = Steps(r) /\ seen'[t] = {primary}
      /\ owned'[t] = {config.address} /\ out'[t] = None
      /\ local'[t] = None
   BY <1>1 DEF Shapes, ThreadInv, RequestInv
<1>5. RequestInv(t)'   BY <1>2, <1>4, BeginsWhole DEF RequestInv, Idle
<1>6. KnownInv(t)'
   <2>1. CASE r.op = "transmit"
      <3>1. Steps(r) # <<>> /\ Head(Steps(r)) = "addresses"   BY <2>1, BeginsWhole
      <3>2. \A s \in {<<"count", "send">>, <<"send">>, <<"primary", "send">>, <<"address">>,
                      <<"path">>, <<"physical">>, <<"set">>} : Head(s) # "addresses"
         BY LastSteps
      <3> QED  BY <1>4, <2>1, <3>1, <3>2 DEF KnownInv, At
   <2>2. CASE r.op = "device_transmit"
      <3>1. Steps(r) = <<"device_count", "primary", "send">>   BY <2>2, BeginsWhole
      <3>2. Head(Steps(r)) # "addresses"   BY <3>1
      <3>3. r.destination \in Digits /\ r.initiator = Default   BY <2>2, RequestFacts
      <3>4. Steps(r) \notin {<<"count", "send">>, <<"send">>, <<"primary", "send">>,
                             <<"address">>, <<"path">>, <<"physical">>, <<"set">>}
         BY <3>1
      <3> QED  BY <1>4, <3>3, <3>4 DEF KnownInv
   <2>3. CASE r.op = "input"
      <3>1. Steps(r) = <<"primary", "send">>   BY <2>3, BeginsWhole
      <3>2. /\ r.destination \in Digits /\ r.initiator = Default
            /\ Len(r.params) <= MaxData
         <4>1. Len(r.params) = 2   BY <2>3, RequestFacts
         <4> QED  BY <2>3, <4>1, RequestFacts, ConstantsAssumption
      <3> QED  BY <1>4, <3>1, <3>2, Different DEF KnownInv
   <2>4. CASE ~IsFrame(r)
      <3>1. Steps(r) \in {<<"parse", "address">>, <<"parse", "path">>,
                 <<"primary", "physical">>, <<"can", "get", "set">>,
                 <<"port">>, <<"number">>, <<"stream">>}
         BY <2>4, BeginsWhole
      <3>2. Steps(r) \notin {<<"address">>, <<"path">>, <<"physical">>, <<"set">>}
         BY <3>1
      <3> QED  BY <1>4, <2>4, <3>2 DEF KnownInv
   <2> QED  BY <1>2, <2>1, <2>2, <2>3, <2>4 DEF IsFrame
<1>7. SentInv(t)'   BY <1>4 DEF SentInv
<1>8. TypedInv(t)'   BY <1>4 DEF TypedInv
<1>9. ASSUME NEW u \in Threads \ {t}   PROVE ThreadInv(u)'
   <2>1. Untouched(u)   BY <1>1 DEF Shapes, Untouched, ThreadInv, RequestInv, Idle
   <2> QED  BY <1>1, <2>1, Elsewhere
<1> QED  BY <1>3, <1>5, <1>6, <1>7, <1>8, <1>9 DEF AskInv, ThreadInv

\* ... and ends with everything forgotten.
LEMMA AnswerStep ==
    ASSUME AskInv, NEW t \in Threads, Answer(t)
    PROVE  AskInv'
<1> USE DEF Answer, libcec
<1>1. Shapes /\ \A u \in Threads : ThreadInv(u)   BY DEF AskInv, ThreadInv
<1>2. Shapes'   BY <1>1 DEF Shapes
<1>3. todo'[t] = <<>> /\ req'[t] = None   BY <1>1 DEF Shapes, Done
<1>4. RequestInv(t)' /\ SentInv(t)' /\ TypedInv(t)'
   BY <1>1, <1>3 DEF Shapes, RequestInv, SentInv, TypedInv, Idle
<1>5. KnownInv(t)'   BY <1>3, NothingLeft
<1>6. ASSUME NEW u \in Threads \ {t}   PROVE ThreadInv(u)'
   <2>1. Untouched(u)   BY <1>1 DEF Shapes, Untouched, ThreadInv, RequestInv, Idle
   <2> QED  BY <1>1, <2>1, Elsewhere
<1> QED  BY <1>2, <1>4, <1>5, <1>6 DEF AskInv, ThreadInv

\* The bus gives the adapter another logical address.
LEMMA ReallocateStep ==
    ASSUME AskInv, Reallocate
    PROVE  AskInv'
<1> USE DEF Reallocate
<1>1. Shapes /\ \A u \in Threads : ThreadInv(u)   BY DEF AskInv, ThreadInv
<1>2. Shapes'
   <2>1. primary' \in Primaries   OBVIOUS
   <2>2. seen' \in [Threads -> SUBSET Primaries]
      <3>1. \A u \in Threads : (IF Idle(u) THEN {} ELSE seen[u] \cup {primary'})
                                  \in SUBSET Primaries
         BY <1>1, <2>1 DEF Shapes
      <3> QED  BY <3>1
   <2> QED  BY <1>1, <2>1, <2>2 DEF Shapes
<1>3. ASSUME NEW u \in Threads   PROVE ThreadInv(u)'
   <2>1. Untouched(u)   BY <1>1 DEF Untouched, ThreadInv, RequestInv
   <2> QED  BY <1>1, <2>1, Elsewhere
<1> QED  BY <1>2, <1>3 DEF AskInv, ThreadInv

\* The adapter is put on another port of the television.
LEMMA ReplugStep ==
    ASSUME AskInv, Replug
    PROVE  AskInv'
<1>1. Shapes /\ \A u \in Threads : ThreadInv(u)   BY DEF AskInv, ThreadInv
<1>2. PICK a \in OwnAddresses : Configure(None, [config EXCEPT !.address = a])
   BY DEF Replug
<1> DEFINE c == [config EXCEPT !.address = a]
<1>3. c \in Configs /\ c.address \in Addresses
   BY <1>1, ConstantsAssumption DEF Shapes, Configs
<1>4. UNCHANGED <<primary, seen, req, todo, local, out>>   BY <1>2 DEF Replug, Configure
<1>5. /\ config' = c
      /\ owned' = [u \in Threads |-> IF Idle(u) THEN {} ELSE owned[u] \cup {c.address}]
      /\ disturbed' = [u \in Threads |-> disturbed[u] \/ (u # None /\ ~Idle(u) /\ c # config)]
   BY <1>2 DEF Configure
<1> HIDE DEF c
<1>6. Shapes'
   <2>1. owned' \in [Threads -> SUBSET Addresses]
      <3>1. \A u \in Threads : (IF Idle(u) THEN {} ELSE owned[u] \cup {c.address})
                                  \in SUBSET Addresses
         BY <1>1, <1>3 DEF Shapes
      <3> QED  BY <1>5, <3>1
   <2>2. disturbed' \in [Threads -> BOOLEAN]   BY <1>5
   <2> QED  BY <1>1, <1>3, <1>4, <1>5, <2>1, <2>2 DEF Shapes
<1>7. ASSUME NEW u \in Threads   PROVE ThreadInv(u)'
   <2>1. req'[u] = req[u] /\ todo'[u] = todo[u] /\ local'[u] = local[u] /\ out'[u] = out[u]
      BY <1>4
   <2>2. Idle(u) => seen'[u] = {} /\ owned'[u] = {} /\ ~disturbed'[u]
      BY <1>1, <1>4, <1>5 DEF ThreadInv, RequestInv
   <2>3. ~Idle(u) => /\ seen[u] \subseteq seen'[u] /\ primary' \in seen'[u]
                     /\ owned[u] \subseteq owned'[u] /\ config'.address \in owned'[u]
      BY <1>1, <1>4, <1>5 DEF ThreadInv, RequestInv
   <2>4. (~Idle(u) /\ ~disturbed'[u]) => ~disturbed[u] /\ config' = config
      <3>1. u # None   BY ConstantsAssumption
      <3> QED  BY <1>5, <3>1
   <2>5. Untouched(u)   BY <2>1, <2>2, <2>3, <2>4 DEF Untouched
   <2> QED  BY <1>1, <2>5, Elsewhere
<1> QED  BY <1>6, <1>7 DEF AskInv, ThreadInv

\* The program starts in AskInv.
LEMMA AskInit == Init => AskInv
<1> SUFFICES ASSUME Init   PROVE AskInv
   OBVIOUS
<1>1. Shapes
   <2>1. config \in Configs
      <3>1. config \in [address : OwnAddresses, port : {1}]   BY DEF Init
      <3>2. 1 \in Digits   BY DEF Digits
      <3> QED  BY <3>1, <3>2, ConstantsAssumption DEF Configs
   <2> QED  BY <2>1 DEF Init, Shapes
<1>2. ASSUME NEW t \in Threads   PROVE ThreadInv(t)
   <2>1. <<>> \notin {<<"address">>, <<"path">>} /\ <<>> # <<"physical">> /\ <<>> # <<"set">>
         /\ <<>> \notin {<<"count", "send">>, <<"send">>, <<"primary", "send">>}
      OBVIOUS
   <2>2. RequestInv(t) /\ SentInv(t) /\ TypedInv(t)
      BY DEF Init, RequestInv, SentInv, TypedInv, Idle
   <2>3. todo[t] = <<>>   BY DEF Init
   <2>4. KnownInv(t)   BY <2>1, <2>3 DEF KnownInv
   <2> QED  BY <2>2, <2>4 DEF ThreadInv
<1> QED  BY <1>1, <1>2 DEF AskInv, ThreadInv

\* Every step keeps the invariant.
LEMMA AnyStep == AskInv /\ [Next]_vars => AskInv'
<1> SUFFICES ASSUME AskInv, [Next]_vars   PROVE AskInv'
   OBVIOUS
<1>1. ASSUME NEW t \in Threads, NEW r \in Requests, Ask(t, r)   PROVE AskInv'
   BY <1>1, AskStep
<1>2. ASSUME NEW t \in Threads, FrameStep(t)   PROVE AskInv'
   BY <1>2, AddressesStep, PrimaryStep, CountStep, DeviceCountStep, SendStep DEF FrameStep
<1>3. ASSUME NEW t \in Threads, AddressStep(t)   PROVE AskInv'
   BY <1>3, NumberStep, PortStep, ParseStep, AddressGiven, PhysicalStep DEF AddressStep
<1>4. ASSUME NEW t \in Threads, PersistStep(t)   PROVE AskInv'
   BY <1>4, PersistBegins, PersistEnds DEF PersistStep
<1>5. ASSUME NEW t \in Threads, Answer(t)   PROVE AskInv'
   BY <1>5, AnswerStep
<1>6. CASE Reallocate \/ Replug   BY <1>6, ReallocateStep, ReplugStep
<1>7. CASE UNCHANGED vars
   BY <1>7 DEF vars, libcec, history, AskInv, Shapes, RequestInv, KnownInv, SentInv, TypedInv,
               FrameSent, Idle, At, IsFrame
<1> QED  BY <1>1, <1>2, <1>3, <1>4, <1>5, <1>6, <1>7 DEF Next

-----------------------------------------------------------------------------
(* Theorems.                                                                *)

\* AskInv always holds: whatever the methods of Adapter and Device are called
\* with, on any number of threads, whatever libcec does in between.
THEOREM RequestsInvariant == Spec => []AskInv
BY AskInit, AnyStep, PTL DEF Spec

\* The variables have their types: what a method keeps between its steps, and what
\* it gives to libcec, is the frame, the address, the number or the configuration
\* that the method is about, of the width the code casts it to.
THEOREM RequestsTypes == Spec => []TypeOK
<1>1. AskInv => TypeOK
   <2> SUFFICES ASSUME AskInv   PROVE TypeOK
      OBVIOUS
   <2>1. ASSUME NEW t \in Threads
         PROVE  /\ todo[t] \in Seq(StepNames)
                /\ local[t] # None => ~Idle(t) /\ local[t] \in Kept(req[t])
                /\ out[t] # None => ~Idle(t) /\ out[t] \in Given(req[t])
                /\ Idle(t) => todo[t] = <<>> /\ seen[t] = {} /\ owned[t] = {} /\ ~disturbed[t]
      <3>1. RequestInv(t) /\ TypedInv(t)   BY DEF AskInv
      <3>2. todo[t] \in Seq(StepNames)
         <4>1. <<>> \in Seq(StepNames)   OBVIOUS
         <4>2. CASE Idle(t)   BY <3>1, <4>1, <4>2 DEF RequestInv
         <4>3. CASE ~Idle(t)
            <5>1. req[t] \in Requests   BY <4>3 DEF AskInv, Shapes, Idle
            <5> QED  BY <3>1, <4>3, <5>1, LeftsAreSteps DEF RequestInv
         <4> QED  BY <4>2, <4>3
      <3> QED  BY <3>1, <3>2 DEF RequestInv, TypedInv
   <2> QED  BY <2>1 DEF AskInv, Shapes, TypeOK
<1> QED  BY <1>1, RequestsInvariant, PTL

\* The logical addresses, the device type and the port that libcec is given are
\* those that the client asked for, and in range.
THEOREM NumbersFit == Spec => []NumbersInRange
<1>1. AskInv => NumbersInRange   BY DEF AskInv, SentInv, NumbersInRange
<1> QED  BY <1>1, RequestsInvariant, PTL

\* Adapter.transmit, Device.transmit, set_av_input and set_audio_input send the
\* frame they were asked for, to a logical address, with every parameter.
THEOREM FramesComplete == Spec => []FrameAsAsked
<1>1. AskInv => FrameAsAsked
   <2> SUFFICES ASSUME AskInv, NEW t \in Threads, IsFrame(req[t]), out[t] # None
                PROVE  FrameSent(t)
      BY DEF FrameAsAsked, FrameSent
   <2> QED  BY DEF AskInv, SentInv, Idle, IsFrame
<1> QED  BY <1>1, RequestsInvariant, PTL

\* No frame goes out in the name of a logical address that the client did not
\* give and the adapter never had during the call.
THEOREM InitiatorsOurs == Spec => []InitiatorIsOurs
<1>1. AskInv => InitiatorIsOurs
   <2> SUFFICES ASSUME AskInv, NEW t \in Threads, IsFrame(req[t]), out[t] # None
                PROVE  /\ out[t].initiator \in Digits
                       /\ IF req[t].initiator = Default
                          THEN out[t].initiator \in seen[t]
                          ELSE out[t].initiator = req[t].initiator
      BY DEF InitiatorIsOurs
   <2>1. FrameSent(t)   BY DEF AskInv, SentInv, Idle, IsFrame
   <2>2. seen[t] \subseteq Digits   BY ConstantsAssumption DEF AskInv, Shapes
   <2> QED  BY <2>1, <2>2 DEF FrameSent
<1> QED  BY <1>1, RequestsInvariant, PTL

\* The first four groups of a text decide what it means.
LEMMA FourGroups ==
    ASSUME NEW text \in Seq(Int), parse_physical_addr(text) # -1
    PROVE  /\ Len(text) >= 4
           /\ parse_physical_addr(SubSeq(text, 1, 4)) = parse_physical_addr(text)
<1> DEFINE four == SubSeq(text, 1, 4)
<1>1. Len(text) \in Nat /\ Len(text) >= 4   BY DEF parse_physical_addr
<1>2. Len(four) = 4 /\ \A i \in 1..4 : four[i] = text[i]   BY <1>1
<1> HIDE DEF four
<1>3. [i \in 1..4 |-> ToInt(four[i])] = [i \in 1..4 |-> ToInt(text[i])]   BY <1>2
<1>4. parse_physical_addr(four) = parse_physical_addr(text)
   <2> DEFINE g == [i \in 1..4 |-> ToInt(four[i])]
              h == [i \in 1..4 |-> ToInt(text[i])]
   <2>1. g = h   BY <1>3
   <2>2. parse_physical_addr(four) =
            IF Len(four) >= 4 /\ \A i \in 1..4 : g[i] \in Digits
            THEN g[1] * 4096 + g[2] * 256 + g[3] * 16 + g[4] ELSE -1
      BY DEF parse_physical_addr
   <2>3. parse_physical_addr(text) =
            IF Len(text) >= 4 /\ \A i \in 1..4 : h[i] \in Digits
            THEN h[1] * 4096 + h[2] * 256 + h[3] * 16 + h[4] ELSE -1
      BY DEF parse_physical_addr
   <2> HIDE DEF g, h
   <2> QED  BY <1>1, <1>2, <2>1, <2>2, <2>3
<1> QED  BY <1>1, <1>4 DEF four

\* set_physical_addr and set_stream_path give libcec the address that the client
\* wrote, if every group of the text fits in an int.
THEOREM AddressesAsWritten == Spec => []AddressAsWritten
<1>1. AskInv => AddressAsWritten
   <2> SUFFICES ASSUME AskInv, NEW t \in Threads, ~Idle(t), out[t] # None,
                       TakesText(req[t]),
                       \A i \in 1..4 : /\ req[t].text[i] >= 0
                                       /\ 2 * req[t].text[i] < IntModulus
                PROVE  Format(out[t]) = SubSeq(req[t].text, 1, 4)
      BY DEF AddressAsWritten
   <2> DEFINE text == req[t].text
              four == SubSeq(text, 1, 4)
   <2>1. out[t] = parse_physical_addr(text) /\ out[t] \in Addresses
      BY DEF AskInv, SentInv
   <2>2. text \in Seq(Int)
      <3>1. req[t] \in Requests   BY DEF AskInv, Shapes, Idle
      <3> QED  BY <3>1, RequestFacts
   <2>3. parse_physical_addr(text) # -1   BY <2>1 DEF Addresses
   <2>4. Len(text) >= 4 /\ parse_physical_addr(four) = parse_physical_addr(text)
      BY <2>2, <2>3, FourGroups
   <2>5. \A i \in 1..4 : text[i] >= 0 /\ 2 * text[i] < IntModulus   OBVIOUS
   <2> HIDE DEF text
   <2>6. Len(four) = 4 /\ \A i \in 1..4 : four[i] = text[i] /\ text[i] \in Nat
      BY <2>2, <2>4, <2>5
   <2>7. four \in Seq(Nat)
      <3>1. four \in Seq(Int)   BY <2>2, <2>4
      <3> HIDE DEF four
      <3>2. four = [i \in 1..4 |-> four[i]]   BY <2>6, <3>1
      <3>3. \A i \in 1..4 : four[i] \in Nat   BY <2>6
      <3>4. four \in [1..4 -> Nat]   BY <3>2, <3>3
      <3>5. ASSUME NEW n \in Nat, four \in [1..n -> Nat]   PROVE four \in Seq(Nat)
         BY <3>5
      <3> QED  BY <3>4, <3>5
   <2> HIDE DEF four
   <2>8. Format(parse_physical_addr(four)) = four
      BY <2>3, <2>4, <2>5, <2>6, <2>7, FormatParse
   <2> QED  BY <2>1, <2>4, <2>8 DEF four, text
<1> QED  BY <1>1, RequestsInvariant, PTL

\* physical_address shows an address that the adapter had during the call, in a
\* form that set_physical_addr reads back as the same, if the adapter keeps its
\* logical address.
THEOREM OwnAddressIsShown == Spec => []OwnAddressShown
<1>1. AskInv => OwnAddressShown
   <2> SUFFICES ASSUME AskInv, NEW t \in Threads, ~Idle(t), out[t] # None,
                       req[t].op = "physical_address", Cardinality(seen[t]) = 1
                PROVE  parse_physical_addr(out[t]) \in owned[t]
      BY DEF OwnAddressShown
   <2>1. \A p, q \in seen[t] : p = q
      <3>1. IsFiniteSet(seen[t])
         <4>1. 0 \in Int /\ 15 \in Int   OBVIOUS
         <4>2. IsFiniteSet(Digits)   BY <4>1, FS_Interval DEF Digits
         <4>3. seen[t] \in SUBSET Digits   BY ConstantsAssumption DEF AskInv, Shapes
         <4> QED  BY <4>2, <4>3, FS_Subset
      <3>2. \E x : seen[t] = {x}   BY <3>1, FS_Singleton
      <3> QED  BY <3>2
   <2>2. PICK a \in owned[t] : out[t] = Format(a)   BY <2>1 DEF AskInv, SentInv
   <2>3. a \in Addresses   BY DEF AskInv, Shapes
   <2> QED  BY <2>2, <2>3, ParseFormat
<1> QED  BY <1>1, RequestsInvariant, PTL

\* persist_config gives libcec the configuration that it has already, if nobody
\* else changed it between GetCurrentConfiguration and SetConfiguration.
THEOREM PersistKeeps == Spec => PersistKeepsConfig
<1> DEFINE Quiet ==
        \A t \in Threads :
            (At(t, "set") /\ todo'[t] = <<>> /\ ~disturbed[t]) => config' = config
<1>1. AskInv /\ [Next]_vars => [Quiet]_vars
   <2> SUFFICES ASSUME AskInv, Next, NEW t \in Threads,
                       At(t, "set"), todo'[t] = <<>>, ~disturbed[t]
                PROVE  config' = config
      OBVIOUS
   <2>1. todo[t] # <<>> /\ Head(todo[t]) = "set"   BY DEF At
   <2>2. ~Idle(t) /\ ThreadInv(t) /\ req[t] \in Requests /\ todo[t] \in Lefts(req[t])
      BY <2>1, Under
   <2>3. todo[t] = <<"set">>   BY <2>1, <2>2, WhereIs
   <2>4. local[t] = config   BY <2>2, <2>3 DEF ThreadInv, KnownInv
   <2>5. todo = [u \in Threads |-> todo[u]]   BY DEF AskInv, Shapes
   <2>6. CASE Reallocate \/ Replug
      BY <2>1, <2>6 DEF Reallocate, Replug
   <2>7. ASSUME NEW u \in Threads, NEW r \in Requests, Ask(u, r)   PROVE config' = config
      BY <2>7 DEF Ask, libcec
   <2>8. ASSUME NEW u \in Threads, Answer(u)   PROVE config' = config
      BY <2>8 DEF Answer, libcec
   <2>9. ASSUME NEW u \in Threads, FrameStep(u)   PROVE config' = config
      BY <2>9 DEF FrameStep, CheckAddresses, ReadPrimary, CheckCount, DeviceCheckCount,
                  Send, libcec
   <2>10. ASSUME NEW u \in Threads, SetPort(u) \/ SetPhysicalAddress(u)
          PROVE  config' = config
      <3>1. At(u, "port") \/ At(u, "address")
         BY <2>10 DEF SetPort, SetPhysicalAddress
      <3>2. u # t   BY <2>1, <3>1 DEF At
      <3>3. todo'[t] = todo[t]
         BY <2>5, <2>10, <3>2 DEF SetPort, SetPhysicalAddress, Step
      <3> QED  BY <2>1, <3>3
   <2>11. ASSUME NEW u \in Threads,
                 PassNumber(u) \/ SetStream(u) \/ RefusePort(u) \/ ParseText(u) \/ SetStreamPath(u)
                 \/ ReadPhysical(u)
          PROVE  config' = config
      BY <2>11 DEF PassNumber, SetStream, RefusePort, ParseText, SetStreamPath, ReadPhysical,
                   libcec
   <2>12. ASSUME NEW u \in Threads, CanSave(u) \/ GetConfiguration(u)
          PROVE  config' = config
      BY <2>12 DEF CanSave, GetConfiguration, libcec
   <2>13. ASSUME NEW u \in Threads, SetConfiguration(u)   PROVE config' = config
      <3>1. CASE u = t   BY <2>4, <2>13, <3>1 DEF SetConfiguration, Configure
      <3>2. CASE u # t
         <4>1. todo'[t] = todo[t]   BY <2>5, <2>13, <3>2 DEF SetConfiguration, Step
         <4> QED  BY <2>1, <4>1
      <3> QED  BY <3>1, <3>2
   <2> QED
      BY <2>6, <2>7, <2>8, <2>9, <2>10, <2>11, <2>12, <2>13 DEF Next, AddressStep, PersistStep
<1>2. Spec => [][Quiet]_vars   BY <1>1, RequestsInvariant, PTL DEF Spec
<1> QED  BY <1>2 DEF PersistKeepsConfig

=============================================================================
