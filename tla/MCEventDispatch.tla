-------------------------- MODULE MCEventDispatch --------------------------
(* Instances of EventDispatch for TLC.                                      *)
EXTENDS EventDispatch, TLC

CONSTANTS u1, u2, c1, c2, h1, h2, f1, f2, eLog, eKey, eConfig

\* A function object is its own callable.
PlainFunctions == (h1 :> f1) @@ (h2 :> f2)

\* A single one.
OneFunction == h1 :> f1

\* Two objects that evaluating obj.method twice made.
BoundMethods == (h1 :> f1) @@ (h2 :> f1)

=============================================================================
