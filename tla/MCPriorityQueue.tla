-------------------------- MODULE MCPriorityQueue --------------------------
(* Constants of PriorityQueue for TLC. *)
EXTENDS PriorityQueue, TLC

CONSTANTS s1, s2, a1, a2, r1, r2

TwoSync == {s1, s2}
OneSync == {s1}
FourActions == {s1, s2, a1, a2}
ThreeActions == {s1, a1, a2}
TwoReceivers == {r1, r2}

Interchangeable ==
    Permutations({s1, s2}) \cup Permutations({a1, a2}) \cup Permutations({r1, r2})
=============================================================================
