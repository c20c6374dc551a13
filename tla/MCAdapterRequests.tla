--------------------------- MODULE MCAdapterRequests ---------------------------
(* Instances of AdapterRequests for TLC.                                    *)
EXTENDS AdapterRequests

CONSTANTS t1, t2

\* A frame with room for two parameters gets none, two and three.
ThreeLengths == {<<>>, <<32, 0>>, <<32, 0, 1>>}

\* 2.0.0.0 and 1.0.0.0, what follows a fourth group, too few groups, a group
\* above F, a negative one, and one that wraps in an int of 8 bits to 1.
SomeTexts ==
    {<<2, 0, 0, 0>>, <<1, 0, 0, 0, 7>>, <<1, 0, 0>>, <<1, 16, 0, 0>>,
     <<1, -1, 0, 0>>, <<257, 0, 0, 0>>}

Addresses1000And3200 == {4096, 12800}

=============================================================================
