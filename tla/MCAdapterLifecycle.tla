-------------------------- MODULE MCAdapterLifecycle --------------------------
(* Instances of AdapterLifecycle for TLC.                                   *)
EXTENDS AdapterLifecycle, TLC

CONSTANTS u1, u2, c1, c2

=============================================================================
