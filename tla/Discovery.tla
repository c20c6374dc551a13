------------------------------ MODULE Discovery ------------------------------
(***************************************************************************)
(* Finding adapters: get_adapters, which asks libcec twice when its first  *)
(* buffer is too small, list_adapters, and Adapter_new with and without a  *)
(* device name, on several threads, while adapters are plugged in and out. *)
(* Each thread has an instance of libcec of its own; the interpreter lock, *)
(* which get_adapters releases, orders nothing that they share.            *)
(***************************************************************************)
EXTENDS Integers, FiniteSets, FiniteSetsExt, Sequences, SequencesExt

CONSTANTS
    Threads,
    Names,         \* the adapters, by the name of their port
    InitialCount,  \* entries of the first buffer; 10 in get_adapters
    Garbage,       \* what is in memory that was never written, or was reused
    None

ASSUME ConstantsAssumption ==
    /\ IsFiniteSet(Names) /\ Names # {}
    /\ {Garbage, None} \cap Names = {} /\ Garbage # None
    /\ InitialCount \in Nat \ {0}

VARIABLES
    attached,   \* the adapters that are plugged in
    pc,         \* where each thread is
    kind,       \* "list" for list_adapters, "default" or "named" for Adapter_new
    instance,   \* has the thread an instance of libcec?
    buffer,     \* dev_list, as far as libcec has written it
    count,      \* what the last detection returned
    found,      \* the std::list
    dev,        \* what the pointer dev points to
    freed,      \* has the list node that dev points into been freed?
    recorded,   \* self->dev
    opened,     \* the name given to Open
    during,     \* adapters that were attached at some moment of the call
    throughout, \* adapters that were attached at every moment of the call
    plugged     \* was any plugged in during the call?

memory == <<buffer, count, found>>
device == <<dev, freed, recorded, opened>>
history == <<during, throughout, plugged>>
vars == <<attached, pc, kind, instance, memory, device, history>>

Kinds == {"list", "default", "named"}
Active(t) == pc[t] # "python"
GoTo(t, place) == pc' = [pc EXCEPT ![t] = place]

\* What DetectAdapters returns and writes: the adapters in some order, as many
\* as fit, and how many there are; or -1.
Detections(size) ==
    {[count |-> -1, written |-> <<>>]}
    \cup {[count |-> Cardinality(attached),
           written |-> SubSeq(s, 1, Min({size, Cardinality(attached)}))] :
             s \in SetToSeqs(attached)}

-----------------------------------------------------------------------------
(* The calls begin: list_adapters and Adapter_new.                          *)

Begin(t, k) ==
    /\ pc[t] = "python"
    /\ GoTo(t, "initialise")
    /\ kind' = [kind EXCEPT ![t] = k]
    /\ during' = [during EXCEPT ![t] = attached]
    /\ throughout' = [throughout EXCEPT ![t] = attached]
    /\ UNCHANGED <<attached, instance, memory, device, plugged>>

Initialise(t) ==
    /\ pc[t] = "initialise"
    /\ instance' = [instance EXCEPT ![t] = TRUE]
    /\ IF kind[t] = "named"
       THEN GoTo(t, "record") /\ \E n \in Names : dev' = [dev EXCEPT ![t] = n]
       ELSE GoTo(t, "detect") /\ UNCHANGED dev
    /\ UNCHANGED <<attached, kind, memory, freed, recorded, opened, history>>

InitialiseFails(t) ==
    /\ pc[t] = "initialise"
    /\ GoTo(t, "failed")
    /\ UNCHANGED <<attached, kind, instance, memory, device, history>>

-----------------------------------------------------------------------------
(* get_adapters.                                                            *)

\* Mutant of Detect: the first answer is taken whatever it is.
DetectOnce(t) ==
    /\ pc[t] = "detect"
    /\ \E d \in Detections(InitialCount) :
          /\ buffer' = [buffer EXCEPT ![t] = d.written]
          /\ count' = [count EXCEPT ![t] = d.count]
    /\ GoTo(t, "copy")
    /\ UNCHANGED <<attached, kind, instance, found, device, history>>

Detect(t) ==
    /\ pc[t] = "detect"
    /\ \E d \in Detections(InitialCount) :
          /\ buffer' = [buffer EXCEPT ![t] = d.written]
          /\ count' = [count EXCEPT ![t] = d.count]
          /\ GoTo(t, IF d.count > InitialCount THEN "again" ELSE "copy")
    /\ UNCHANGED <<attached, kind, instance, found, device, history>>

\* Mutant of DetectAgain: without std::min.
DetectAgainUnbounded(t) ==
    /\ pc[t] = "again"
    /\ \E d \in Detections(count[t]) :
          /\ buffer' = [buffer EXCEPT ![t] = d.written]
          /\ count' = [count EXCEPT ![t] = d.count]
    /\ GoTo(t, "copy")
    /\ UNCHANGED <<attached, kind, instance, found, device, history>>

\* realloc to what the first detection counted; the second may count more.
DetectAgain(t) ==
    /\ pc[t] = "again"
    /\ \E d \in Detections(count[t]) :
          /\ buffer' = [buffer EXCEPT ![t] = d.written]
          /\ count' = [count EXCEPT ![t] = Min({d.count, count[t]})]
    /\ GoTo(t, "copy")
    /\ UNCHANGED <<attached, kind, instance, found, device, history>>

\* Mutant of Copy: the last entry is left out.
CopyFewer(t) ==
    /\ pc[t] = "copy"
    /\ found' = [found EXCEPT ![t] =
                   [i \in 1..(count[t] - 1) |->
                      IF i <= Len(buffer[t]) THEN buffer[t][i] ELSE Garbage]]
    /\ GoTo(t, IF kind[t] = "list" THEN "destroy" ELSE "choose")
    /\ UNCHANGED <<attached, kind, instance, buffer, count, device, history>>

\* push_back of dev_list[0] to dev_list[count - 1], whatever libcec has written.
Copy(t) ==
    /\ pc[t] = "copy"
    /\ found' = [found EXCEPT ![t] =
                   [i \in 1..count[t] |->
                      IF i <= Len(buffer[t]) THEN buffer[t][i] ELSE Garbage]]
    /\ GoTo(t, IF kind[t] = "list" THEN "destroy" ELSE "choose")
    /\ UNCHANGED <<attached, kind, instance, buffer, count, device, history>>

\* list_adapters: CECDestroy, and the names are put into a Python list.
Return(t) ==
    /\ pc[t] = "destroy"
    /\ instance' = [instance EXCEPT ![t] = FALSE]
    /\ GoTo(t, "listed")
    /\ UNCHANGED <<attached, kind, memory, device, history>>

-----------------------------------------------------------------------------
(* Adapter_new.                                                             *)

\* Mutant of NoDefault: the object is not deallocated.
NoDefaultLeaks(t) ==
    /\ pc[t] = "choose"
    /\ found[t] = <<>>
    /\ GoTo(t, "failed")
    /\ UNCHANGED <<attached, kind, instance, memory, device, history>>

NoDefault(t) ==
    /\ pc[t] = "choose"
    /\ found[t] = <<>>
    /\ GoTo(t, "dealloc")
    /\ UNCHANGED <<attached, kind, instance, memory, device, history>>

\* dev points into the first node of the list, and the list ends with the
\* block it is declared in.
Choose(t) ==
    /\ pc[t] = "choose"
    /\ found[t] # <<>>
    /\ dev' = [dev EXCEPT ![t] = Head(found[t])]
    /\ freed' = [freed EXCEPT ![t] = TRUE]
    /\ GoTo(t, "record")
    /\ UNCHANGED <<attached, kind, instance, memory, recorded, opened, history>>

\* Another thread of the process, or libcec, gets the memory of that node.
Reuse(t) ==
    /\ freed[t]
    /\ dev' = [dev EXCEPT ![t] = Garbage]
    /\ UNCHANGED <<attached, pc, kind, instance, memory, freed, recorded, opened, history>>

\* strncpy(self->dev, dev, ...).
Record(t) ==
    /\ pc[t] = "record"
    /\ recorded' = [recorded EXCEPT ![t] = dev[t]]
    /\ GoTo(t, "open")
    /\ UNCHANGED <<attached, kind, instance, memory, dev, freed, opened, history>>

\* Open(dev), with the lock released.
Open(t) ==
    /\ pc[t] = "open"
    /\ opened' = [opened EXCEPT ![t] = dev[t]]
    /\ \E success \in BOOLEAN : GoTo(t, IF success THEN "created" ELSE "dealloc")
    /\ UNCHANGED <<attached, kind, instance, memory, dev, freed, recorded, history>>

\* Adapter_dealloc: on failure, or when the client is done with the Adapter.
Dealloc(t) ==
    /\ pc[t] \in {"dealloc", "created"}
    /\ instance' = [instance EXCEPT ![t] = FALSE]
    /\ GoTo(t, "failed")
    /\ UNCHANGED <<attached, kind, memory, device, history>>

\* The client takes the result, or the exception.
Forget(t) ==
    /\ pc[t] \in {"listed", "failed"}
    /\ GoTo(t, "python")
    /\ buffer' = [buffer EXCEPT ![t] = <<>>]
    /\ count' = [count EXCEPT ![t] = 0]
    /\ found' = [found EXCEPT ![t] = <<>>]
    /\ dev' = [dev EXCEPT ![t] = None]
    /\ freed' = [freed EXCEPT ![t] = FALSE]
    /\ recorded' = [recorded EXCEPT ![t] = None]
    /\ opened' = [opened EXCEPT ![t] = None]
    /\ during' = [during EXCEPT ![t] = {}]
    /\ throughout' = [throughout EXCEPT ![t] = {}]
    /\ plugged' = [plugged EXCEPT ![t] = FALSE]
    /\ UNCHANGED <<attached, kind, instance>>

-----------------------------------------------------------------------------
(* Hot plugging.                                                            *)

Plug(n) ==
    /\ n \notin attached
    /\ attached' = attached \cup {n}
    /\ during' = [t \in Threads |-> IF Active(t) THEN during[t] \cup {n} ELSE {}]
    /\ plugged' = [t \in Threads |-> Active(t)]
    /\ UNCHANGED <<pc, kind, instance, memory, device, throughout>>

Unplug(n) ==
    /\ n \in attached
    /\ attached' = attached \ {n}
    /\ throughout' = [t \in Threads |-> throughout[t] \ {n}]
    /\ UNCHANGED <<pc, kind, instance, memory, device, during, plugged>>

-----------------------------------------------------------------------------
Init ==
    /\ attached \in SUBSET Names
    /\ pc = [t \in Threads |-> "python"]
    /\ kind = [t \in Threads |-> "list"]
    /\ instance = [t \in Threads |-> FALSE]
    /\ buffer = [t \in Threads |-> <<>>]
    /\ count = [t \in Threads |-> 0]
    /\ found = [t \in Threads |-> <<>>]
    /\ dev = [t \in Threads |-> None]
    /\ freed = [t \in Threads |-> FALSE]
    /\ recorded = [t \in Threads |-> None]
    /\ opened = [t \in Threads |-> None]
    /\ during = [t \in Threads |-> {}]
    /\ throughout = [t \in Threads |-> {}]
    /\ plugged = [t \in Threads |-> FALSE]

Call(t) ==
    \/ Initialise(t) \/ InitialiseFails(t)
    \/ Detect(t) \/ DetectAgain(t) \/ Copy(t) \/ Return(t)
    \/ NoDefault(t) \/ Choose(t) \/ Record(t) \/ Open(t) \/ Dealloc(t)

Next ==
    \/ \E t \in Threads :
          (\E k \in Kinds : Begin(t, k)) \/ Call(t) \/ Reuse(t) \/ Forget(t)
    \/ \E n \in Names : Plug(n) \/ Unplug(n)

Spec == Init /\ [][Next]_vars

-----------------------------------------------------------------------------
(* Properties.                                                              *)

\* The types of the variables; no entry is copied that libcec has not written.
TypeOK ==
    /\ attached \subseteq Names
    /\ \A t \in Threads :
          /\ pc[t] \in {"python", "initialise", "detect", "again", "copy", "destroy",
                        "listed", "choose", "record", "open", "created", "dealloc",
                        "failed"}
          /\ kind[t] \in Kinds
          /\ {instance[t], freed[t], plugged[t]} \subseteq BOOLEAN
          /\ buffer[t] \in Seq(Names) /\ found[t] \in Seq(Names)
          /\ count[t] \in -1..Cardinality(Names)
          /\ {dev[t], recorded[t], opened[t]} \subseteq Names \cup {Garbage, None}
          /\ throughout[t] \subseteq during[t] /\ during[t] \subseteq Names

\* Every name that get_adapters returns is that of an adapter that was plugged
\* in at some moment of the call, however the number of adapters changed
\* between the two detections.
ListedWereAttached ==
    \A t \in Threads : Range(found[t]) \subseteq during[t]

\* An adapter that was there all the time is listed, unless libcec failed or
\* another one was plugged in during the call (which may take its place in the
\* second buffer).
AttachedAreListed ==
    \A t \in Threads :
        (pc[t] \in {"destroy", "choose", "listed"} /\ count[t] >= 0 /\ ~plugged[t]) =>
            throughout[t] \subseteq Range(found[t])

\* list_adapters and a failed Adapter() leave no instance of libcec behind.
NoInstanceLeft ==
    \A t \in Threads : pc[t] \in {"python", "listed", "failed"} => ~instance[t]

\* Adapter() without a device name ("use default adapter") opens an adapter
\* that was found, and its "device" is the one that was opened.
DefaultIsOpened ==
    \A t \in Threads :
        (pc[t] = "created" /\ kind[t] = "default") =>
            opened[t] \in Range(found[t]) /\ recorded[t] = opened[t]

=============================================================================
