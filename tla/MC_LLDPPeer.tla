---------------------------- MODULE MC_LLDPPeer ----------------------------
(* Small instance of LLDPPeer for TLC: two local ports, two peer chassis, *)
(* one peer port id, two values of the other fields, a 3-tick clock.      *)
EXTENDS LLDPPeer, TLC

CONSTANTS c1, c2, i1, x1, x2

MCChassisIds == {c1, c2}
MCPortIds == {i1}
MCInfos == {x1, x2}
MCInfos1 == {x1}

MCSymmetry == Permutations(MCChassisIds) \cup Permutations(MCInfos)
=============================================================================
