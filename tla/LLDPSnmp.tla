------------------------------ MODULE LLDPSnmp ------------------------------
(***************************************************************************)
(* The SNMP helpers of pf_snmp over the LLDP store, as their unit test     *)
(* (src/unnamed/part_000) calls them, composed with the peer store of     *)
(* LLDPPeer.  pf_snmp_get_management_address and pf_snmp_get_link_status *)
(* read local configuration through pf_lldp_get_management_address and    *)
(* pf_lldp_get_link_status; the peer variants read the port's record       *)
(* through pf_lldp_get_peer_management_address and                         *)
(* pf_lldp_get_peer_link_status, return their -1 unchanged, and otherwise  *)
(* shape the value with the operators of SnmpFormat.  Each helper is one   *)
(* step of the management context, interleaved with every step of the     *)
(* receive context and of the environment.                                 *)
(***************************************************************************)
EXTENDS LLDPPeer, SnmpFormat

CONSTANTS
    LocalAddr,        \* pf_lldp_get_management_address: the local interface
    LocalLinkStatus   \* pf_lldp_get_link_status: the link status per port

\* pf_lldp_management_address_t: a subtype and at most 31 address bytes.
Addresses == [subtype : Bytes, value : {s \in Seq(Bytes) : Len(s) <= 31}]

\* pf_lldp_link_status_t: autonegotiation supported and enabled, the 16-bit
\* advertised capability mask and the operational MAU type.
LinkStatuses == [supported : BOOLEAN, enabled : BOOLEAN,
                 caps : Masks, mau : Masks]

\* The fields behind Infos that the SNMP helpers read: the peer's
\* management address and link status.
ASSUME SnmpAssumption ==
    /\ Infos \subseteq [addr : Addresses, ls : LinkStatuses]
    /\ LocalAddr \in Addresses
    /\ LocalLinkStatus \in [Ports -> LinkStatuses]

VARIABLE snmp   \* the result of the SNMP helper called in this step

svars == <<vars, snmp>>

\* Steps that call no SNMP helper.
NoSnmp == [call |-> "none", peer |-> FALSE, port |-> 0, error |-> 0,
          out |-> NoData]

\* pf_snmp_management_address_t: the subtype passes through, the address
\* becomes an OCTET STRING with its length in front.
SnmpAddress(a) ==
    [subtype |-> a.subtype,
     value |-> OctetString(a.value).value, len |-> OctetString(a.value).len]

\* pf_snmp_link_status_t: two TruthValues, the capability mask as BITS and
\* the MAU type unchanged.
SnmpLinkStatus(ls) ==
    [auto_neg_supported |-> TruthValue(ls.supported),
     auto_neg_enabled |-> TruthValue(ls.enabled),
     auto_neg_advertised_cap |-> EncodeBits(ls.caps),
     oper_mau_type |-> ls.mau]

SnmpInit == Init /\ snmp = NoSnmp

\* pf_snmp_get_management_address: the local address, always available.
pf_snmp_get_management_address ==
    /\ snmp' = [call |-> "management_address", peer |-> FALSE, port |-> 0,
                error |-> 0, out |-> SnmpAddress(LocalAddr)]
    /\ NoOutput
    /\ UNCHANGED <<now, peer, lock, rx, ar>>

\* pf_snmp_get_link_status: the local link status of port p.
pf_snmp_get_link_status(p) ==
    /\ snmp' = [call |-> "link_status", peer |-> FALSE, port |-> p,
                error |-> 0, out |-> SnmpLinkStatus(LocalLinkStatus[p])]
    /\ NoOutput
    /\ UNCHANGED <<now, peer, lock, rx, ar>>

\* A peer helper: the peer getter g of port p under the port lock; its -1
\* is returned as is, without formatting; on 0 the value is shaped.
SnmpPeerGet(p, g) ==
    /\ PeerGet(p, g)
    /\ snmp' = IF rd'.status = 0
               THEN [call |-> g, peer |-> TRUE, port |-> p, error |-> 0,
                     out |-> IF g = "management_address"
                             THEN SnmpAddress(rd'.value[2].addr)
                             ELSE SnmpLinkStatus(rd'.value[2].ls)]
               ELSE [call |-> g, peer |-> TRUE, port |-> p, error |-> -1,
                     out |-> NoData]

pf_snmp_get_peer_management_address(p) ==
    SnmpPeerGet(p, "management_address")
pf_snmp_get_peer_link_status(p) == SnmpPeerGet(p, "link_status")

\* Every other step of the store leaves no SNMP result.
PeerStoreStep == Next /\ snmp' = NoSnmp

SnmpNext ==
    \/ PeerStoreStep
    \/ pf_snmp_get_management_address
    \/ \E p \in Ports :
          \/ pf_snmp_get_link_status(p)
          \/ pf_snmp_get_peer_management_address(p)
          \/ pf_snmp_get_peer_link_status(p)

SnmpSpec == SnmpInit /\ [][SnmpNext]_svars

-----------------------------------------------------------------------------
(* Properties *)

\* The RFC reading of an SNMP management address and link status.
IsAddressOf(o, a) ==
    /\ o.subtype = a.subtype
    /\ IsOctetStringOf([value |-> o.value, len |-> o.len], a.value)
IsLinkStatusOf(o, ls) ==
    /\ IsTruthValueOf(o.auto_neg_supported, ls.supported)
    /\ IsTruthValueOf(o.auto_neg_enabled, ls.enabled)
    /\ IsBitsOf(o.auto_neg_advertised_cap, ls.caps)
    /\ o.oper_mau_type = ls.mau

\* What an SNMP helper returned, read back by the RFCs, is the data it was
\* asked for: the local configuration, or the port's complete peer record
\* as the management context sees it (never a record half-way through
\* pf_lldp_recv's copy); a peer helper fails with -1 exactly when the record
\* is invalid (pf_snmp_get_peer_management_address and
\* pf_snmp_get_peer_link_status, part_000 lines 84-86 and 167-169).
SnmpStep ==
    LET s == snmp'
        r == Stable(s.port)
    IN /\ ~s.peer /\ s.call = "management_address"
             => IsAddressOf(s.out, LocalAddr)
       /\ ~s.peer /\ s.call = "link_status"
             => IsLinkStatusOf(s.out, LocalLinkStatus[s.port])
       /\ s.peer => /\ s.error = 0 <=> r.valid
                    /\ s.error = 0 /\ s.call = "management_address"
                          => IsAddressOf(s.out, r.content.info.addr)
                    /\ s.error = 0 /\ s.call = "link_status"
                          => IsLinkStatusOf(s.out, r.content.info.ls)
\* SnmpStep holds in every step.
SnmpReadsEncodeStore == [][SnmpStep]_svars

=============================================================================
