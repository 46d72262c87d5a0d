-------------------------- MODULE LLDPPeerAbstract --------------------------
(***************************************************************************)
(* What the LLDP peer store promises its readers (pf_lldp.h): every       *)
(* reception of a well-formed LLDPDU is one atomic step on the port's     *)
(* record, stamped with the tick only if the information changed; every   *)
(* pf_lldp_get_peer_* getter reads a whole record; a link-down            *)
(* invalidates it.  Buffers, locks and the stages of pf_lldp_recv are not *)
(* visible here; LLDPPeer implements this specification under the mapping *)
(* of each record to its Stable view.                                      *)
(***************************************************************************)
EXTENDS LLDPPeerData

VARIABLES now, peer, ar, rd, alarmSignal

avars == <<now, peer, ar, rd, alarmSignal>>

\* The reader-visible outputs of a step that reads nothing and alarms
\* nothing.
Silent == rd' = NoRead /\ alarmSignal' = {}

AInit ==
    /\ now = 0
    /\ peer \in [Ports -> [content : Content, ts : {0}, valid : {FALSE}]]
    /\ ar = FALSE
    /\ rd = NoRead
    /\ alarmSignal = {}

\* pf_lldp_recv handles a well-formed LLDPDU with content c on port p.
Receive(p, c) ==
    /\ peer' = IF Changed(peer[p], c)
               THEN [peer EXCEPT ![p] = [content |-> c, ts |-> now, valid |-> TRUE]]
               ELSE peer
    /\ alarmSignal' = IF ar /\ IdentityReplaced(peer[p], c) THEN {p} ELSE {}
    /\ rd' = NoRead
    /\ UNCHANGED <<now, ar>>

\* A pf_lldp_get_peer_* getter g on port p.
Read(p, g) ==
    /\ rd'.getter = g
    /\ rd' = ReadOf(p, g, peer[p])
    /\ alarmSignal' = {}
    /\ UNCHANGED <<now, peer, ar>>

\* A step of some context that leaves every record alone: a frame that is
\* not LLDP or is malformed, a buffer release, taking a lock.
Internal ==
    /\ Silent
    /\ UNCHANGED <<now, peer, ar>>

ATick ==
    /\ now' = (now + 1) % TsWrap
    /\ Silent
    /\ UNCHANGED <<peer, ar>>

AArChange ==
    /\ ar' = ~ar
    /\ Silent
    /\ UNCHANGED <<now, peer>>

ALinkDown(p) ==
    /\ peer[p].valid
    /\ peer' = [peer EXCEPT ![p].valid = FALSE]
    /\ Silent
    /\ UNCHANGED <<now, ar>>

ANext ==
    \/ \E p \in Ports, c \in Content : Receive(p, c)
    \/ \E p \in Ports, g \in Getters : Read(p, g)
    \/ \E p \in Ports : ALinkDown(p)
    \/ Internal
    \/ ATick
    \/ AArChange

ASpec == AInit /\ [][ANext]_avars

=============================================================================
