---------------------------- MODULE LLDPPeerData ----------------------------
(***************************************************************************)
(* The data of the LLDP peer store (src/src/common/pf_lldp.h), shared by    *)
(* the detailed model LLDPPeer and its abstraction LLDPPeerAbstract: the   *)
(* ports, the peer record, what each pf_lldp_get_peer_* getter returns of   *)
(* it, and the comparisons pf_lldp_recv makes against it.                  *)
(***************************************************************************)
EXTENDS Integers, LLDPPortIterator

CONSTANTS
    ChassisIds,  \* peer chassis identifiers a frame may carry
    PortIds,     \* peer port identifiers a frame may carry
    Infos,       \* values of the remaining peer fields, taken together
    TsWrap,      \* the timestamp is a uint32_t: it counts modulo 2^32
    NoData       \* the output of a getter that returned -1

ASSUME TsWrapAssumption == TsWrap \in Nat \ {0}
ASSUME DataAssumption ==
    /\ ChassisIds # {} /\ PortIds # {} /\ Infos # {}
    /\ NoData \notin ChassisIds \cup PortIds \cup Nat

TsVals == 0..(TsWrap - 1)

\* What a well-formed LLDPDU tells about the peer.
Content == [chassis : ChassisIds, portId : PortIds, info : Infos]

\* A peer record.  While valid is FALSE the content is unspecified.
PeerRec == [content : Content, ts : TsVals, valid : BOOLEAN]

\* Frames offered to pf_lldp_recv: a well-formed LLDPDU with its content,
\* an LLDPDU with a malformed TLV, or a frame with no LLDP TLV sequence.
Frames == {[kind |-> "lldp", data |-> c] : c \in Content}
          \cup {[kind |-> k, data |-> NoData] : k \in {"malformed", "other"}}
NullFrame == [kind |-> "none", data |-> NoData]

\* The getters of peer data and what each one returns of a record.
InfoGetters == {"port_description", "management_address",
                "management_port_index", "station_name",
                "signal_delays", "link_status"}
Getters == {"timestamp", "chassis_id", "port_id"} \cup InfoGetters
Field(r, g) ==
    CASE g = "timestamp"  -> r.ts
      [] g = "chassis_id" -> r.content.chassis
      [] g = "port_id"    -> r.content.portId
      [] g \in InfoGetters -> <<g, r.content.info>>
ValuesOf(g) ==
    CASE g = "timestamp"  -> TsVals
      [] g = "chassis_id" -> ChassisIds
      [] g = "port_id"    -> PortIds
      [] g \in InfoGetters -> {g} \X Infos

NoRead == [port |-> 0, getter |-> "none", status |-> 0, value |-> NoData]
Reads == (UNION {[port : Ports, getter : {g}, status : {0}, value : ValuesOf(g)]
                 : g \in Getters})
         \cup [port : Ports, getter : Getters, status : {-1}, value : {NoData}]

\* The result of a peer getter on record r: 0 and the field while the
\* record is valid, -1 with the output left unspecified otherwise.
ReadOf(p, g, r) ==
    IF r.valid
    THEN [port |-> p, getter |-> g, status |-> 0, value |-> Field(r, g)]
    ELSE [port |-> p, getter |-> g, status |-> -1, value |-> NoData]

-----------------------------------------------------------------------------
(* Comparisons of pf_lldp_recv *)

\* Mutant: the comparison forgets the valid flag.
ChangedIgnoringValid(r, c) == r.content # c

\* The decoded content differs from the record, or the record is invalid:
\* only then is the record replaced and its timestamp set.
Changed(r, c) == ~r.valid \/ r.content # c

\* Mutant: any identity difference counts, known peer or not.
IdentityReplacedIgnoringValid(r, c) ==
    <<r.content.chassis, r.content.portId>> # <<c.chassis, c.portId>>

\* The decoded frame replaces the identity of a peer that was known.
IdentityReplaced(r, c) ==
    /\ r.valid
    /\ <<r.content.chassis, r.content.portId>> # <<c.chassis, c.portId>>

Identity(r) == <<r.content.chassis, r.content.portId>>

=============================================================================
