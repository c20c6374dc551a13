--------------------------- MODULE CallbackRegistry ---------------------------
(***************************************************************************)
(* What an Adapter promises about its callbacks, without lists, iterators  *)
(* or locks: a callable is registered for a set of events, adding and      *)
(* removing take effect at once, and a callable is only ever called for an *)
(* event it is registered for at that moment.                              *)
(***************************************************************************)
EXTENDS Naturals

CONSTANTS
    Callables,  \* what a client can register
    Events,     \* what it can register for
    Notifiers,  \* threads that notify
    Idle        \* a notifier that calls nobody

VARIABLES
    registered,  \* the events each callable is registered for
    additions,   \* how many additions there have been
    notifying    \* the callable each notifier is calling, and the event

vars == <<registered, additions, notifying>>

Init ==
    /\ registered = [f \in Callables |-> {}]
    /\ additions = 0
    /\ notifying = [c \in Notifiers |-> Idle]

Add(f, events) ==
    /\ registered' = [registered EXCEPT ![f] = @ \cup events]
    /\ additions' = additions + 1
    /\ UNCHANGED notifying

Remove(f, events) ==
    /\ registered' = [registered EXCEPT ![f] = @ \ events]
    /\ UNCHANGED <<additions, notifying>>

Notify(c, f, e) ==
    /\ notifying[c] = Idle
    /\ e \in registered[f]
    /\ notifying' = [notifying EXCEPT ![c] = <<f, e>>]
    /\ UNCHANGED <<registered, additions>>

Return(c) ==
    /\ notifying' = [notifying EXCEPT ![c] = Idle]
    /\ UNCHANGED <<registered, additions>>

Next ==
    \/ \E f \in Callables, events \in SUBSET Events :
          Add(f, events) \/ Remove(f, events)
    \/ \E c \in Notifiers :
          \/ \E f \in Callables, e \in Events : Notify(c, f, e)
          \/ Return(c)

Spec == Init /\ [][Next]_vars
=============================================================================
