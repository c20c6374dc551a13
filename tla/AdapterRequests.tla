--------------------------- MODULE AdapterRequests ---------------------------
(***************************************************************************)
(* What the methods of Adapter and Device ask of libcec: the checks of the *)
(* arguments, the CEC frame that is built, the addresses that are          *)
(* converted, and the methods that call libcec more than once, while other *)
(* threads do the same and libcec itself changes address.                  *)
(*                                                                         *)
(* A request is the sequence of its steps; todo[t] is what is left of the  *)
(* request of thread t.  Each call of libcec is one step.  The interpreter *)
(* lock is left out: whether or not a method holds it, the libcec call of  *)
(* another thread that released it may take effect between any two steps.  *)
(***************************************************************************)
EXTENDS PhysicalAddress, FiniteSets

CONSTANTS
    Threads,
    Primaries,        \* logical addresses that libcec may get for the adapter
    OwnAddresses,     \* physical addresses that it may find for the adapter
    PeerAddress,      \* physical address of the other devices
    Destinations,     \* arguments: logical addresses
    Initiators,       \* arguments: initiators of transmit
    Default,          \* 'g', the value of an initiator that is not given
    Data,             \* arguments: parameters of a frame
    MaxData,          \* CEC_MAX_DATA_PACKET_SIZE, 64 in libcec
    Texts,            \* arguments: physical addresses
    None

ASSUME ConstantsAssumption ==
    /\ Primaries \subseteq Digits /\ Primaries # {}
    /\ OwnAddresses \subseteq Addresses /\ OwnAddresses # {}
    /\ PeerAddress \in Addresses
    /\ Default \in Initiators \ Digits
    /\ Destinations \cup Initiators \subseteq 0..255
    /\ Data \subseteq Seq(0..255)
    /\ MaxData \in Nat /\ MaxData >= 2   \* set_av_input and set_audio_input send two
    /\ Texts \subseteq Seq(Int)
    /\ None \notin Threads

VARIABLES
    primary,   \* GetLogicalAddresses().primary
    config,    \* libcec's configuration: the physical address and the port
    req,       \* the request of each thread
    todo,      \* its steps that are left
    local,     \* what the thread has read
    out,       \* what it has given to libcec, and the answer
    seen,      \* primary addresses since the request began
    owned,     \* physical addresses of the adapter since then
    disturbed  \* has anyone else changed the configuration since then?

libcec == <<primary, config>>
history == <<seen, owned, disturbed>>
vars == <<libcec, req, todo, local, out, history>>

-----------------------------------------------------------------------------
(* The requests and their steps.                                            *)

Frames ==
    [op : {"transmit"}, destination : Destinations, initiator : Initiators,
     opcode : {130}, params : Data]
    \cup
    [op : {"device_transmit"}, destination : Destinations \cap Digits,
     initiator : {Default}, opcode : {130}, params : Data]
    \cup
    \* set_av_input and set_audio_input: USER_CONTROL_PRESSED, the key, the input
    [op : {"input"}, destination : Destinations \cap Digits,
     initiator : {Default}, opcode : {68}, params : {<<105, 1>>, <<106, 1>>}]

\* An argument of format "b" is an unsigned char ...
Numbers ==
    [op : {"is_active_source", "set_active_source"}, number : {5, 6, 15, 16}]

\* ... and an int that is given to set_stream_path is a long.
Streams == [op : {"set_stream_path"}, number : {-1, 15, 16}]

Ports == [op : {"set_port"}, device : Destinations, port : {1, 16}]

Requests ==
    Frames \cup Numbers \cup Streams \cup Ports
    \cup [op : {"set_physical_addr", "set_stream_path_to"}, text : Texts]
    \cup [op : {"physical_address", "persist_config"}]

ASSUME NoneAssumption == None \notin Requests

TransmitSteps(r) ==
    <<"addresses">> \o (IF r.initiator = Default THEN <<"primary">> ELSE <<>>)
    \o <<"count", "send">>
DeviceTransmitSteps  == <<"device_count", "primary", "send">>
InputSteps           == <<"primary", "send">>
NumberSteps          == <<"number">>
StreamSteps          == <<"stream">>
PathSteps            == <<"parse", "path">>
SetPhysicalAddrSteps == <<"parse", "address">>
SetPortSteps         == <<"port">>
PhysicalAddressSteps == <<"primary", "physical">>
PersistConfigSteps   == <<"can", "get", "set">>

Steps(r) ==
    CASE r.op = "transmit"           -> TransmitSteps(r)
      [] r.op = "device_transmit"    -> DeviceTransmitSteps
      [] r.op = "input"              -> InputSteps
      [] r.op = "set_stream_path"    -> StreamSteps
      [] r.op = "set_stream_path_to" -> PathSteps
      [] r.op = "set_physical_addr"  -> SetPhysicalAddrSteps
      [] r.op = "set_port"           -> SetPortSteps
      [] r.op = "physical_address"   -> PhysicalAddressSteps
      [] r.op = "persist_config"     -> PersistConfigSteps
      [] OTHER                       -> NumberSteps

\* The largest number each method takes.
Limit == [is_active_source |-> 15, set_active_source |-> 5]

IsFrame(r) == r # None /\ r.op \in {"transmit", "device_transmit", "input"}
Idle(t) == req[t] = None
Done(t) == ~Idle(t) /\ todo[t] = <<>>
At(t, step) == todo[t] # <<>> /\ Head(todo[t]) = step
Step(t) == todo' = [todo EXCEPT ![t] = Tail(@)]
\* The method raises, or returns, whatever its other steps are.
Leave(t) == todo' = [todo EXCEPT ![t] = <<>>]

Ask(t, r) ==
    /\ Idle(t)
    /\ req' = [req EXCEPT ![t] = r]
    /\ todo' = [todo EXCEPT ![t] = Steps(r)]
    /\ seen' = [seen EXCEPT ![t] = {primary}]
    /\ owned' = [owned EXCEPT ![t] = {config.address}]
    /\ UNCHANGED <<libcec, local, out, disturbed>>

Answer(t) ==
    /\ Done(t)
    /\ req' = [req EXCEPT ![t] = None]
    /\ local' = [local EXCEPT ![t] = None]
    /\ out' = [out EXCEPT ![t] = None]
    /\ seen' = [seen EXCEPT ![t] = {}]
    /\ owned' = [owned EXCEPT ![t] = {}]
    /\ disturbed' = [disturbed EXCEPT ![t] = FALSE]
    /\ UNCHANGED <<libcec, todo>>

\* t, or libcec itself, gives libcec another configuration.
Configure(t, c) ==
    /\ config' = c
    /\ owned' = [u \in Threads |->
                   IF Idle(u) THEN {} ELSE owned[u] \cup {c.address}]
    /\ disturbed' = [u \in Threads |->
                       disturbed[u] \/ (u # t /\ ~Idle(u) /\ c # config)]
    /\ UNCHANGED <<primary, seen>>

-----------------------------------------------------------------------------
(* Frames: Adapter.transmit, Device.transmit, set_av_input, set_audio_input. *)

CheckAddresses(t) ==
    /\ At(t, "addresses")
    /\ IF \/ req[t].destination > 15
          \/ req[t].initiator # Default /\ req[t].initiator > 15
       THEN Leave(t)
       ELSE Step(t)
    /\ UNCHANGED <<libcec, req, local, out, history>>

ReadPrimary(t) ==
    /\ At(t, "primary")
    /\ local' = [local EXCEPT ![t] = primary]
    /\ Step(t)
    /\ UNCHANGED <<libcec, req, out, history>>

\* Mutant of CheckCount: one parameter too many is let through.
CheckCountLate(t) ==
    /\ At(t, "count")
    /\ IF Len(req[t].params) > MaxData + 1 THEN Leave(t) ELSE Step(t)
    /\ UNCHANGED <<libcec, req, local, out, history>>

CheckCount(t) ==
    /\ At(t, "count")
    /\ IF Len(req[t].params) > MaxData THEN Leave(t) ELSE Step(t)
    /\ UNCHANGED <<libcec, req, local, out, history>>

\* The limit of Device.transmit, checked before anything else.
DeviceCheckCount(t) ==
    /\ At(t, "device_count")
    /\ IF Len(req[t].params) > MaxData THEN Leave(t) ELSE Step(t)
    /\ UNCHANGED <<libcec, req, local, out, history>>

\* cec_command::PushBack, for each parameter in turn: a full frame stays as it is.
Pushed(params) ==
    SubSeq(params, 1, IF Len(params) < MaxData THEN Len(params) ELSE MaxData)

Frame(r, initiator) ==
    [initiator |-> initiator, destination |-> r.destination,
     opcode |-> r.opcode, params |-> Pushed(r.params)]

\* Mutant of Send: the value of an initiator that was not given goes out.
SendGiven(t) ==
    /\ At(t, "send")
    /\ out' = [out EXCEPT ![t] = Frame(req[t], req[t].initiator)]
    /\ Step(t)
    /\ UNCHANGED <<libcec, req, local, history>>

Send(t) ==
    LET asked == req[t].initiator
    IN  /\ At(t, "send")
        /\ out' = [out EXCEPT ![t] =
                     Frame(req[t], IF asked = Default THEN local[t] ELSE asked)]
        /\ Step(t)
        /\ UNCHANGED <<libcec, req, local, history>>

-----------------------------------------------------------------------------
(* Numbers and addresses.                                                   *)

\* is_active_source, set_active_source: one call of libcec, if the number is in
\* range.
PassNumber(t) ==
    /\ At(t, "number")
    /\ IF req[t].number > Limit[req[t].op]
       THEN Leave(t) /\ UNCHANGED out
       ELSE Step(t) /\ out' = [out EXCEPT ![t] = req[t].number]
    /\ UNCHANGED <<libcec, req, local, history>>

\* Mutant of SetStream: only the upper bound is checked.
SetStreamBelow(t) ==
    /\ At(t, "stream")
    /\ IF req[t].number > 15
       THEN Leave(t) /\ UNCHANGED out
       ELSE Step(t) /\ out' = [out EXCEPT ![t] = req[t].number]
    /\ UNCHANGED <<libcec, req, local, history>>

\* set_stream_path with an int.
SetStream(t) ==
    /\ At(t, "stream")
    /\ IF req[t].number < 0 \/ req[t].number > 15
       THEN Leave(t) /\ UNCHANGED out
       ELSE Step(t) /\ out' = [out EXCEPT ![t] = req[t].number]
    /\ UNCHANGED <<libcec, req, local, history>>

\* Mutant of SetPort: only the logical address is checked.
SetPortUnchecked(t) ==
    /\ At(t, "port")
    /\ req[t].device <= 15
    /\ out' = [out EXCEPT ![t] = <<req[t].device, req[t].port>>]
    /\ \E a \in OwnAddresses : Configure(t, [address |-> a, port |-> req[t].port])
    /\ Step(t)
    /\ UNCHANGED <<req, local>>

\* set_port: libcec takes the address from the device it is told of.
SetPort(t) ==
    /\ At(t, "port")
    /\ req[t].device <= 15 /\ req[t].port <= 15
    /\ out' = [out EXCEPT ![t] = <<req[t].device, req[t].port>>]
    /\ \E a \in OwnAddresses : Configure(t, [address |-> a, port |-> req[t].port])
    /\ Step(t)
    /\ UNCHANGED <<req, local>>

RefusePort(t) ==
    /\ At(t, "port")
    /\ req[t].device > 15 \/ req[t].port > 15
    /\ Leave(t)
    /\ UNCHANGED <<libcec, req, local, out, history>>

ParseText(t) ==
    LET address == parse_physical_addr(req[t].text)
    IN  /\ At(t, "parse")
        /\ IF address < 0
           THEN Leave(t) /\ UNCHANGED local
           ELSE Step(t) /\ local' = [local EXCEPT ![t] = address]
        /\ UNCHANGED <<libcec, req, out, history>>

SetPhysicalAddress(t) ==
    /\ At(t, "address")
    /\ out' = [out EXCEPT ![t] = local[t]]
    /\ Configure(t, [config EXCEPT !.address = local[t]])
    /\ Step(t)
    /\ UNCHANGED <<req, local>>

\* set_stream_path with a text.
SetStreamPath(t) ==
    /\ At(t, "path")
    /\ out' = [out EXCEPT ![t] = local[t]]
    /\ Step(t)
    /\ UNCHANGED <<libcec, req, local, history>>

\* Mutant of ReadPhysical: of logical address 0.
ReadPhysicalFirst(t) ==
    /\ At(t, "physical")
    /\ out' = [out EXCEPT ![t] =
                 Format(IF primary = 0 THEN config.address ELSE PeerAddress)]
    /\ Step(t)
    /\ UNCHANGED <<libcec, req, local, history>>

\* GetDevicePhysicalAddress of the address that was the adapter's own.
ReadPhysical(t) ==
    /\ At(t, "physical")
    /\ out' = [out EXCEPT ![t] =
                 Format(IF local[t] = primary THEN config.address ELSE PeerAddress)]
    /\ Step(t)
    /\ UNCHANGED <<libcec, req, local, history>>

-----------------------------------------------------------------------------
(* persist_config, with libcec 5: SetConfiguration.                         *)

CanSave(t) ==
    /\ At(t, "can")
    /\ Step(t) \/ Leave(t)
    /\ UNCHANGED <<libcec, req, local, out, history>>

\* Mutant of GetConfiguration: its failure is not noticed, and the
\* configuration is one that was never filled in.
GetConfigurationUnchecked(t) ==
    /\ At(t, "get")
    /\ \E c \in {config, [address |-> 0, port |-> 0]} :
          local' = [local EXCEPT ![t] = c]
    /\ Step(t)
    /\ UNCHANGED <<libcec, req, out, history>>

GetConfiguration(t) ==
    /\ At(t, "get")
    /\ \/ local' = [local EXCEPT ![t] = config] /\ Step(t)
       \/ UNCHANGED local /\ Leave(t)
    /\ UNCHANGED <<libcec, req, out, history>>

SetConfiguration(t) ==
    /\ At(t, "set")
    /\ Configure(t, local[t])
    /\ Step(t)
    /\ UNCHANGED <<req, local, out>>

-----------------------------------------------------------------------------
(* libcec on its own: the bus gives the adapter another address.            *)

Reallocate ==
    /\ primary' \in Primaries \ {primary}
    /\ seen' = [t \in Threads |-> IF Idle(t) THEN {} ELSE seen[t] \cup {primary'}]
    /\ UNCHANGED <<config, req, todo, local, out, owned, disturbed>>

Replug ==
    /\ \E a \in OwnAddresses : Configure(None, [config EXCEPT !.address = a])
    /\ UNCHANGED <<req, todo, local, out>>

Init ==
    /\ primary \in Primaries
    /\ config \in [address : OwnAddresses, port : {1}]
    /\ req = [t \in Threads |-> None]
    /\ todo = [t \in Threads |-> <<>>]
    /\ local = [t \in Threads |-> None]
    /\ out = [t \in Threads |-> None]
    /\ seen = [t \in Threads |-> {}]
    /\ owned = [t \in Threads |-> {}]
    /\ disturbed = [t \in Threads |-> FALSE]

FrameStep(t) ==
    \/ CheckAddresses(t) \/ ReadPrimary(t) \/ CheckCount(t) \/ DeviceCheckCount(t)
    \/ Send(t)

AddressStep(t) ==
    \/ PassNumber(t) \/ SetStream(t) \/ SetPort(t) \/ RefusePort(t)
    \/ ParseText(t) \/ SetPhysicalAddress(t) \/ SetStreamPath(t) \/ ReadPhysical(t)

PersistStep(t) == CanSave(t) \/ GetConfiguration(t) \/ SetConfiguration(t)

Next ==
    \/ \E t \in Threads :
          \/ \E r \in Requests : Ask(t, r)
          \/ FrameStep(t) \/ AddressStep(t) \/ PersistStep(t) \/ Answer(t)
    \/ Reallocate \/ Replug

Spec == Init /\ [][Next]_vars

-----------------------------------------------------------------------------
(* Properties.                                                              *)

StepNames ==
    {"addresses", "primary", "count", "device_count", "send", "number", "stream", "port",
     "parse", "address", "path", "physical", "can", "get", "set"}

Configs == [address : Addresses, port : Digits]

TakesText(r) == r.op \in {"set_physical_addr", "set_stream_path_to"}
TakesNumber(r) == r.op \in {"is_active_source", "set_active_source", "set_stream_path"}

\* What a method keeps between its steps: a logical address, a physical address
\* or a configuration.
Kept(r) ==
    CASE IsFrame(r) \/ r.op = "physical_address" -> Digits
      [] TakesText(r)                            -> Addresses
      [] r.op = "persist_config"                 -> Configs
      [] OTHER                                   -> {}

\* What it gives to libcec, or makes of the answer, in the types of C: a frame of
\* bytes, a uint16_t, two unsigned chars, a number; and a text of four groups.
Given(r) ==
    CASE IsFrame(r) -> [initiator : 0..255, destination : 0..255, opcode : 0..255,
                        params : Seq(0..255)]
      [] TakesText(r)                -> Addresses
      [] TakesNumber(r)              -> Int
      [] r.op = "set_port"           -> (0..255) \X (0..255)
      [] r.op = "physical_address"   -> [1..4 -> Digits]
      [] OTHER                       -> {}

\* The types of the variables.  What a thread has kept, and what it has given to
\* libcec, is of the type that its method needs.
TypeOK ==
    /\ primary \in Primaries
    /\ config \in Configs
    /\ \A t \in Threads :
          /\ req[t] \in Requests \cup {None}
          /\ todo[t] \in Seq(StepNames)
          /\ local[t] # None => ~Idle(t) /\ local[t] \in Kept(req[t])
          /\ out[t] # None => ~Idle(t) /\ out[t] \in Given(req[t])
          /\ seen[t] \subseteq Primaries
          /\ owned[t] \subseteq Addresses
          /\ disturbed[t] \in BOOLEAN
          /\ Idle(t) => todo[t] = <<>> /\ seen[t] = {} /\ owned[t] = {} /\ ~disturbed[t]

\* A frame goes out with the destination, the opcode and all the parameters
\* that the client gave: PushBack, which drops what does not fit, never drops.
FrameAsAsked ==
    \A t \in Threads :
        (IsFrame(req[t]) /\ out[t] # None) =>
            /\ out[t].destination = req[t].destination
            /\ out[t].destination \in Digits
            /\ out[t].opcode = req[t].opcode
            /\ out[t].params = req[t].params

\* The numbers that libcec is given are the client's, and the casts to
\* cec_logical_address, cec_device_type and uint8_t find them in range: a logical
\* address or a port is 0..15, a device type 0..5, also where the client gave a
\* negative number.
NumbersInRange ==
    \A t \in Threads :
        (~Idle(t) /\ out[t] # None) =>
            /\ TakesNumber(req[t]) => out[t] = req[t].number /\ out[t] \in Digits
            /\ req[t].op = "set_active_source" => out[t] <= 5
            /\ req[t].op = "set_port" => /\ out[t] = <<req[t].device, req[t].port>>
                                         /\ out[t] \in Digits \X Digits

\* The initiator of a frame is a logical address: the one the client gave, or
\* one that the adapter had at some moment of the call.
InitiatorIsOurs ==
    \A t \in Threads :
        (IsFrame(req[t]) /\ out[t] # None) =>
            /\ out[t].initiator \in Digits
            /\ IF req[t].initiator = Default
               THEN out[t].initiator \in seen[t]
               ELSE out[t].initiator = req[t].initiator

\* The physical address that libcec is given is the one the client wrote, if
\* the groups of the text fit in an int.
AddressAsWritten ==
    \A t \in Threads :
        LET text == req[t].text
        IN  (/\ ~Idle(t) /\ TakesText(req[t]) /\ out[t] # None
             /\ \A i \in 1..4 : text[i] >= 0 /\ 2 * text[i] < IntModulus) =>
                Format(out[t]) = SubSeq(text, 1, 4)

\* physical_address shows an address that the adapter had at some moment of the
\* call, in a form that set_physical_addr takes, unless the logical address
\* changed between the two questions to libcec.
OwnAddressShown ==
    \A t \in Threads :
        (/\ ~Idle(t) /\ req[t].op = "physical_address" /\ out[t] # None
         /\ Cardinality(seen[t]) = 1) =>
            parse_physical_addr(out[t]) \in owned[t]

\* persist_config leaves the configuration in use as it is, unless somebody
\* else changed it during the call: then that change is undone.
PersistKeepsConfig ==
    [][\A t \in Threads :
          (At(t, "set") /\ todo'[t] = <<>> /\ ~disturbed[t]) => config' = config]_vars

=============================================================================
