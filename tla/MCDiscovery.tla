------------------------------ MODULE MCDiscovery ------------------------------
(* Instances of Discovery for TLC.                                          *)
EXTENDS Discovery, TLC

CONSTANTS t1, a1, a2, a3, a4

\* Adapters are interchangeable.
Symmetric == Permutations({a1, a2, a3, a4})

=============================================================================
