---------------------------- MODULE MC_LLDPSnmp ----------------------------
(* Small instance of LLDPSnmp for TLC: one local port, two peer chassis    *)
(* and two peers' remaining data taken from the SNMP unit test: the        *)
(* capability masks 0xF00F and bits 3, 5, 8, 14, full and half duplex.    *)
EXTENDS LLDPSnmp, TLC

CONSTANTS c1, c2, i1

MCChassisIds == {c1, c2}
MCPortIds == {i1}

\* PNAL_ETH_MAU_COPPER_100BaseTX_HALF_DUPLEX (15) and _FULL_DUPLEX (16).
MCLinkFull == [supported |-> TRUE, enabled |-> TRUE, caps |-> 61455, mau |-> 16]
MCLinkHalf == [supported |-> TRUE, enabled |-> FALSE,
               caps |-> 2^5 + 2^3 + 2^14 + 2^8, mau |-> 15]

MCInfos ==
    {[addr |-> [subtype |-> 1, value |-> <<192, 168, 1, 101>>], ls |-> MCLinkFull],
     [addr |-> [subtype |-> 6, value |-> <<2, 0, 0, 0, 0, 1>>], ls |-> MCLinkHalf]}
MCLocalAddr == [subtype |-> 1, value |-> <<192, 168, 1, 100>>]
MCLocalLinkStatus == [p \in Ports |-> MCLinkHalf]

MCSymmetry == Permutations(MCChassisIds)
=============================================================================
