--------------------------- MODULE LLDPSnmpProofs ---------------------------
(***************************************************************************)
(* Proofs about the SNMP helpers composed with the peer store (LLDPSnmp): *)
(* the store's inductive invariant IInv survives the helpers' steps, and  *)
(* every value a helper returns is, read back by the RFCs, the local      *)
(* configuration or the port's complete peer record.                       *)
(***************************************************************************)
EXTENDS LLDPSnmp, LLDPPeerProofs, SnmpFormatProofs, TLAPS

\* TruthValue maps a boolean to its RFC 2579 code.
LEMMA TruthValueCorrect ==
    ASSUME NEW b \in BOOLEAN
    PROVE  IsTruthValueOf(TruthValue(b), b)
BY DEF IsTruthValueOf, TruthValue

\* The address pf_snmp returns is the RFC reading of the one it was given.
LEMMA AddressCorrect ==
    ASSUME NEW a \in Addresses
    PROVE  IsAddressOf(SnmpAddress(a), a)
<1>1. a.value \in Seq(Bytes)
  BY DEF Addresses
<1>2. IsOctetStringOf(OctetString(a.value), a.value)
  BY <1>1, OctetStringCorrect
<1>3. [value |-> SnmpAddress(a).value, len |-> SnmpAddress(a).len]
          = OctetString(a.value)
  BY DEF SnmpAddress, OctetString
<1>. QED BY <1>2, <1>3 DEF IsAddressOf, SnmpAddress

\* The link status pf_snmp returns is the RFC reading of the one it was
\* given.
LEMMA LinkStatusCorrect ==
    ASSUME NEW ls \in LinkStatuses
    PROVE  IsLinkStatusOf(SnmpLinkStatus(ls), ls)
<1>1. IsBitsOf(EncodeBits(ls.caps), ls.caps)
  BY BitsEncodingCorrect DEF LinkStatuses
<1>2. /\ IsTruthValueOf(TruthValue(ls.supported), ls.supported)
      /\ IsTruthValueOf(TruthValue(ls.enabled), ls.enabled)
  BY TruthValueCorrect DEF LinkStatuses
<1>. QED BY <1>1, <1>2 DEF IsLinkStatusOf, SnmpLinkStatus

\* The SNMP helpers leave the store's inductive invariant intact: the peer
\* ones are peer getters, the local ones touch no store state.
LEMMA SnmpNextIInv == IInv /\ [SnmpNext]_svars => IInv'
<1>. SUFFICES ASSUME IInv, [SnmpNext]_svars PROVE IInv'
  OBVIOUS
<1>1. CASE PeerStoreStep
  BY <1>1, NextIInv DEF PeerStoreStep
<1>2. CASE pf_snmp_get_management_address
  BY <1>2 DEF pf_snmp_get_management_address, NoOutput, IInv, TypeOK,
              BufferOwnership, FreesInv, LockInv, CommitInv
<1>3. ASSUME NEW p \in Ports, pf_snmp_get_link_status(p)
      PROVE  IInv'
  BY <1>3 DEF pf_snmp_get_link_status, NoOutput, IInv, TypeOK,
              BufferOwnership, FreesInv, LockInv, CommitInv
<1>4. ASSUME NEW p \in Ports, NEW g \in {"management_address", "link_status"},
             SnmpPeerGet(p, g)
      PROVE  IInv'
  BY <1>4, GetterStep DEF SnmpPeerGet, Getters, InfoGetters
<1>5. CASE UNCHANGED svars
  BY <1>5, NextIInv DEF svars
<1>. QED BY <1>1, <1>2, <1>3, <1>4, <1>5
         DEF SnmpNext, pf_snmp_get_peer_management_address,
             pf_snmp_get_peer_link_status

\* IInv holds in every state of the composed system.
THEOREM SnmpInvariance == SnmpSpec => []IInv
BY InitIInv, SnmpNextIInv, PTL DEF SnmpSpec, SnmpInit

\* The SNMP helpers' contract (pf_snmp_get_management_address,
\* pf_snmp_get_link_status, pf_snmp_get_peer_management_address,
\* pf_snmp_get_peer_link_status): what they return is the RFC encoding of
\* the local configuration or of the port's complete peer record, and a
\* peer helper fails with -1 exactly when the record is invalid.
THEOREM SnmpReadsEncodeStoreHolds == SnmpSpec => SnmpReadsEncodeStore
<1>1. IInv /\ [SnmpNext]_svars => [SnmpStep]_svars
  <2>. SUFFICES ASSUME IInv, SnmpNext PROVE SnmpStep
    OBVIOUS
  <2>1. CASE PeerStoreStep
    BY <2>1 DEF PeerStoreStep, NoSnmp, SnmpStep
  <2>2. CASE pf_snmp_get_management_address
    BY <2>2, AddressCorrect, SnmpAssumption
    DEF pf_snmp_get_management_address, SnmpStep
  <2>3. ASSUME NEW p \in Ports, pf_snmp_get_link_status(p)
        PROVE  SnmpStep
    <3>1. LocalLinkStatus[p] \in LinkStatuses
      BY SnmpAssumption
    <3>. QED BY <2>3, <3>1, LinkStatusCorrect
             DEF pf_snmp_get_link_status, SnmpStep
  <2>4. ASSUME NEW p \in Ports,
               NEW g \in {"management_address", "link_status"},
               SnmpPeerGet(p, g)
        PROVE  SnmpStep
    <3>1. Stable(p) = peer[p]
      BY <2>4 DEF SnmpPeerGet, PeerGet, IInv, LockInv, Stable
    <3>2. peer[p] \in PeerRec
      BY DEF IInv, TypeOK
    <3>3. rd' = ReadOf(p, g, peer[p])
      BY <2>4 DEF SnmpPeerGet, PeerGet
    <3>4. CASE peer[p].valid
      <4>. DEFINE info == peer[p].content.info
      <4>1. rd'.status = 0 /\ rd'.value[2] = info
        BY <3>3, <3>4 DEF ReadOf, Field, InfoGetters
      <4>2. info.addr \in Addresses /\ info.ls \in LinkStatuses
        BY <3>2, SnmpAssumption DEF PeerRec, Content
      <4>3. snmp' = [call |-> g, peer |-> TRUE, port |-> p, error |-> 0,
                     out |-> IF g = "management_address"
                             THEN SnmpAddress(info.addr)
                             ELSE SnmpLinkStatus(info.ls)]
        BY <2>4, <4>1 DEF SnmpPeerGet
      <4>4. /\ IsAddressOf(SnmpAddress(info.addr), info.addr)
            /\ IsLinkStatusOf(SnmpLinkStatus(info.ls), info.ls)
        BY <4>2, AddressCorrect, LinkStatusCorrect
      <4>. QED BY <3>1, <3>4, <4>3, <4>4 DEF SnmpStep
    <3>5. CASE ~peer[p].valid
      <4>1. rd'.status = -1
        BY <3>3, <3>5 DEF ReadOf
      <4>2. snmp' = [call |-> g, peer |-> TRUE, port |-> p, error |-> -1,
                     out |-> NoData]
        BY <2>4, <4>1 DEF SnmpPeerGet
      <4>. QED BY <3>1, <3>5, <4>2 DEF SnmpStep
    <3>. QED BY <3>4, <3>5
  <2>. QED BY <2>1, <2>2, <2>3, <2>4
           DEF SnmpNext, pf_snmp_get_peer_management_address,
               pf_snmp_get_peer_link_status
<1>. QED BY <1>1, SnmpInvariance, PTL DEF SnmpSpec, SnmpReadsEncodeStore

=============================================================================
