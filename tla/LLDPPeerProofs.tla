--------------------------- MODULE LLDPPeerProofs ---------------------------
(***************************************************************************)
(* Proofs about the LLDP peer store (LLDPPeer), for every number of ports, *)
(* every set of identifiers and every width of the tick counter.  The      *)
(* argument rests on IInv (LLDPPeer): the stage of the receive context     *)
(* determines which lock is held, how often the buffer in hand has been   *)
(* released and how far pf_lldp_recv has copied the frame into the record.*)
(***************************************************************************)
EXTENDS LLDPPeer, TLAPS

\* Every getter's value lies in the value set of that getter.
LEMMA FieldType ==
    ASSUME NEW r \in PeerRec, NEW g \in Getters
    PROVE  Field(r, g) \in ValuesOf(g)
BY DEF Field, ValuesOf, Getters, InfoGetters, PeerRec, Content

\* A successful or failed read of a getter is a member of Reads.
LEMMA ReadType ==
    ASSUME NEW p \in Ports, NEW g \in Getters, NEW r \in PeerRec
    PROVE  /\ [port |-> p, getter |-> g, status |-> 0, value |-> Field(r, g)]
                 \in Reads
           /\ [port |-> p, getter |-> g, status |-> -1, value |-> NoData]
                 \in Reads
<1>1. Field(r, g) \in ValuesOf(g)
  BY FieldType
<1>2. [port |-> p, getter |-> g, status |-> 0, value |-> Field(r, g)]
        \in [port : Ports, getter : {g}, status : {0}, value : ValuesOf(g)]
  BY <1>1
<1>. QED BY <1>2 DEF Reads

\* The placeholder record of an idle receive context is a record.
LEMMA NullRecType == NullRec \in PeerRec
<1>1. \E c \in Content : TRUE
  <2>. PICK x \in ChassisIds, y \in PortIds, z \in Infos : TRUE
    BY DataAssumption
  <2>. [chassis |-> x, portId |-> y, info |-> z] \in Content
    BY DEF Content
  <2>. QED OBVIOUS
<1>2. (CHOOSE c \in Content : TRUE) \in Content
  BY <1>1
<1>. QED BY <1>2, TsWrapAssumption DEF NullRec, PeerRec, TsVals

\* The idle receive context has the type of the receive context.
LEMMA IdleRxType ==
    IdleRx \in RxState
BY NullRecType, NumPortsAssumption DEF IdleRx, RxState, RxStages, Ports

\* A getter step: only rd changes, and the lock of its port is free.
LEMMA GetterStep ==
    ASSUME IInv, NEW p \in Ports, NEW g \in Getters, PeerGet(p, g)
    PROVE  IInv'
<1>1. rd' \in Reads
  BY ReadType DEF PeerGet, ReadOf, IInv, TypeOK
<1>. QED BY <1>1 DEF PeerGet, IInv, TypeOK, BufferOwnership, FreesInv,
                    LockInv, CommitInv, Changed

\* IInv holds in every initial state.
LEMMA InitIInv == Init => IInv
<1>. SUFFICES ASSUME Init PROVE IInv
  OBVIOUS
<1>1. TypeOK
  <2>1. 0 \in TsVals
    BY TsWrapAssumption DEF TsVals
  <2>2. [content : Content, ts : {0}, valid : {FALSE}] \subseteq PeerRec
    BY <2>1 DEF PeerRec
  <2>3. peer \in [Ports -> PeerRec]
    BY <2>2 DEF Init
  <2>4. lock \in [Ports -> BOOLEAN]
    BY DEF Init
  <2>. QED BY <2>1, <2>3, <2>4, IdleRxType DEF Init, TypeOK
<1>2. BufferOwnership /\ FreesInv /\ LockInv /\ CommitInv
  BY DEF Init, IdleRx, BufferOwnership, FreesInv, LockInv, CommitInv
<1>. QED BY <1>1, <1>2 DEF IInv

\* Every step of the store preserves IInv.
LEMMA NextIInv == IInv /\ [Next]_vars => IInv'
<1>. SUFFICES ASSUME IInv, [Next]_vars PROVE IInv'
  OBVIOUS
<1>. USE DEF NoOutput
<1>1. ASSUME NEW p \in Ports, NEW f \in Frames, FrameArrives(p, f)
      PROVE  IInv'
  <2>1. rx' \in RxState
    BY <1>1, NullRecType DEF FrameArrives, RxState, RxStages
  <2>2. TypeOK'
    BY <1>1, <2>1 DEF FrameArrives, IInv, TypeOK
  <2>3. (BufferOwnership /\ FreesInv /\ LockInv /\ CommitInv)'
    BY <1>1 DEF FrameArrives, IInv, TypeOK, BufferOwnership, FreesInv,
                LockInv, CommitInv
  <2>. QED BY <2>2, <2>3 DEF IInv
<1>2. CASE pf_lldp_recv
  <2>. DEFINE rt == IF rx.frame.kind = "other" THEN 0 ELSE 1
              fr == IF rx.frame.kind = "other" THEN rx.frees ELSE rx.frees + 1
  <2>1. rx \in RxState /\ rx.frees = 0
    BY <1>2 DEF pf_lldp_recv, IInv, TypeOK, FreesInv
  <2>2. rx' = [rx EXCEPT !.stage = "returned", !.ret = rt, !.frees = fr]
    BY <1>2 DEF pf_lldp_recv
  <2>3. rt \in {0, 1} /\ fr \in 0..2 /\ "returned" \in RxStages
    BY <2>1 DEF RxStages
  <2>4. rx' \in RxState
    BY <2>1, <2>2, <2>3 DEF RxState
  <2>5. TypeOK'
    BY <1>2, <2>4 DEF pf_lldp_recv, IInv, TypeOK
  <2>6. (BufferOwnership /\ FreesInv /\ LockInv /\ CommitInv)'
    BY <1>2, <2>1 DEF pf_lldp_recv, IInv, TypeOK, BufferOwnership, FreesInv,
                      LockInv, CommitInv
  <2>. QED BY <2>5, <2>6 DEF IInv
<1>3. CASE CommitIdentity
  <2>. DEFINE p == rx.port
              c == rx.frame.data
  <2>1. /\ rx \in RxState
        /\ rx.frame \in Frames /\ rx.frame.kind = "lldp"
        /\ p \in Ports /\ rx.prev \in PeerRec /\ peer[p] \in PeerRec
    BY <1>3 DEF CommitIdentity, NullFrame, IInv, TypeOK, RxState
  <2>2. c \in Content
    BY <2>1 DEF Frames
  <2>3. rx' \in RxState
    <3>1. rx' = [rx EXCEPT !.stage = "commit", !.prev = peer[p]]
      BY <1>3 DEF CommitIdentity
    <3>. QED BY <2>1, <3>1 DEF RxStages, RxState
  <2>4. peer' \in [Ports -> PeerRec]
    BY <1>3, <2>1, <2>2 DEF CommitIdentity, IInv, TypeOK, PeerRec, Content
  <2>5. TypeOK'
    BY <1>3, <2>3, <2>4 DEF CommitIdentity, IInv, TypeOK
  <2>6. (BufferOwnership /\ FreesInv /\ LockInv)'
    BY <1>3 DEF CommitIdentity, IInv, TypeOK, BufferOwnership, FreesInv,
                LockInv
  <2>7. CommitInv'
    BY <1>3, <2>1, <2>2 DEF CommitIdentity, IInv, TypeOK, CommitInv,
                              PeerRec, Content
  <2>. QED BY <2>5, <2>6, <2>7 DEF IInv
<1>4. CASE CommitRest
  <2>. DEFINE p == rx.port
              c == rx.frame.data
  <2>1. /\ rx \in RxState /\ rx.frees = 0
        /\ rx.frame \in Frames /\ rx.frame.kind = "lldp"
        /\ p \in Ports /\ rx.prev \in PeerRec
    BY <1>4 DEF CommitRest, NullFrame, IInv, TypeOK, CommitInv, FreesInv,
                RxState
  <2>2. c \in Content
    BY <2>1 DEF Frames
  <2>3. rx' \in RxState
    <3>1. rx' = [rx EXCEPT !.stage = "returned", !.ret = 1, !.frees = rx.frees + 1]
      BY <1>4 DEF CommitRest
    <3>2. rx.frees + 1 \in 0..2 /\ "returned" \in RxStages
      BY <2>1 DEF RxStages
    <3>. QED BY <2>1, <3>1, <3>2 DEF RxState
  <2>4. peer' \in [Ports -> PeerRec]
    BY <1>4, <2>1, <2>2 DEF CommitRest, IInv, TypeOK, PeerRec, TsVals
  <2>5. alarmSignal' \subseteq Ports
    BY <1>4, <2>1 DEF CommitRest
  <2>6. TypeOK'
    BY <1>4, <2>3, <2>4, <2>5 DEF CommitRest, IInv, TypeOK
  <2>7. (BufferOwnership /\ FreesInv /\ LockInv /\ CommitInv)'
    BY <1>4, <2>1 DEF CommitRest, IInv, TypeOK, BufferOwnership, FreesInv,
                      LockInv, CommitInv
  <2>. QED BY <2>6, <2>7 DEF IInv
<1>5. CASE CallerRelease
  <2>1. rx \in RxState /\ rx.stage = "returned" /\ rx.frees = rx.ret
    BY <1>5 DEF CallerRelease, IInv, TypeOK, BufferOwnership
  <2>2. (IF rx.ret = 0 THEN rx.frees + 1 ELSE rx.frees) = 1
    BY <2>1 DEF RxState
  <2>3. rx' = IdleRx
    BY <1>5, <2>2 DEF CallerRelease, IdleRx
  <2>4. TypeOK'
    BY <1>5, <2>3, IdleRxType DEF CallerRelease, IInv, TypeOK
  <2>5. (BufferOwnership /\ FreesInv /\ LockInv /\ CommitInv)'
    BY <1>5, <2>1, <2>3 DEF CallerRelease, IdleRx, IInv, BufferOwnership,
                            FreesInv, LockInv, CommitInv
  <2>. QED BY <2>4, <2>5 DEF IInv
<1>6. ASSUME NEW p \in Ports,
             \/ pf_lldp_get_peer_timestamp(p)
             \/ pf_lldp_get_peer_chassis_id(p)
             \/ pf_lldp_get_peer_port_id(p)
             \/ pf_lldp_get_peer_port_description(p)
             \/ pf_lldp_get_peer_management_address(p)
             \/ pf_lldp_get_peer_management_port_index(p)
             \/ pf_lldp_get_peer_station_name(p)
             \/ pf_lldp_get_peer_signal_delays(p)
             \/ pf_lldp_get_peer_link_status(p)
      PROVE  IInv'
  <2>. \E g \in Getters : PeerGet(p, g)
    BY <1>6 DEF pf_lldp_get_peer_timestamp, pf_lldp_get_peer_chassis_id,
       pf_lldp_get_peer_port_id, pf_lldp_get_peer_port_description,
       pf_lldp_get_peer_management_address,
       pf_lldp_get_peer_management_port_index,
       pf_lldp_get_peer_station_name, pf_lldp_get_peer_signal_delays,
       pf_lldp_get_peer_link_status, Getters, InfoGetters
  <2>. QED BY GetterStep
<1>7. ASSUME NEW p \in Ports, LinkDown(p)
      PROVE  IInv'
  <2>1. rx.stage = "commit" => rx.port # p
    BY <1>7 DEF LinkDown, IInv, LockInv
  <2>2. TypeOK'
    BY <1>7 DEF LinkDown, IInv, TypeOK, PeerRec
  <2>3. (BufferOwnership /\ FreesInv /\ LockInv)'
    BY <1>7 DEF LinkDown, IInv, BufferOwnership, FreesInv, LockInv
  <2>4. CommitInv'
    <3>1. rx.stage = "commit" => peer'[rx.port] = peer[rx.port]
      BY <1>7, <2>1 DEF LinkDown, IInv, TypeOK, RxState
    <3>. QED BY <1>7, <3>1 DEF LinkDown, CommitInv, IInv
  <2>. QED BY <2>2, <2>3, <2>4 DEF IInv
<1>8. CASE Tick
  BY <1>8, TsWrapAssumption
  DEF Tick, IInv, TypeOK, TsVals, BufferOwnership, FreesInv, LockInv,
      CommitInv
<1>9. CASE ArChange
  BY <1>9 DEF ArChange, IInv, TypeOK, BufferOwnership, FreesInv, LockInv,
              CommitInv
<1>10. CASE UNCHANGED vars
  BY <1>10 DEF vars, IInv, TypeOK, BufferOwnership, FreesInv, LockInv,
               CommitInv, Changed
<1>. QED BY <1>1, <1>2, <1>3, <1>4, <1>5, <1>6, <1>7, <1>8, <1>9, <1>10
         DEF Next

\* IInv holds initially and is preserved by every step.
THEOREM Invariance == Spec => []IInv
BY InitIInv, NextIInv, PTL DEF Spec

\* Type correctness: every reachable state has the declared types.
THEOREM TypeCorrect == Spec => []TypeOK
BY Invariance, PTL DEF IInv

\* pf_lldp_recv's buffer contract: a buffer is released exactly once, by
\* pf_lldp_recv when it returns 1 and by its caller when it returns 0.
THEOREM BufferOwnershipHolds == Spec => []BufferOwnership
BY Invariance, PTL DEF IInv

\* The peer getters' contract: a getter returns 0 exactly when the record
\* is valid, and then a field of a complete record, because a getter needs
\* the port lock that pf_lldp_recv holds throughout its copy.
THEOREM ReadsMatchStoreHolds == Spec => ReadsMatchStore
<1>1. IInv /\ [Next]_vars => [ReadMatches]_vars
  <2>. SUFFICES ASSUME IInv, Next, rd' # NoRead PROVE ReadMatches
    BY DEF ReadMatches
  <2>1. PICK p \in Ports, g \in Getters : PeerGet(p, g)
    <3>. ~\/ \E q \in Ports, f \in Frames : FrameArrives(q, f)
          \/ pf_lldp_recv \/ CommitIdentity \/ CommitRest \/ CallerRelease
          \/ \E q \in Ports : LinkDown(q)
          \/ Tick \/ ArChange
      BY DEF FrameArrives, pf_lldp_recv, CommitIdentity, CommitRest,
             CallerRelease, LinkDown, Tick, ArChange, NoOutput
    <3>. QED
      BY DEF Next, pf_lldp_get_peer_timestamp, pf_lldp_get_peer_chassis_id,
         pf_lldp_get_peer_port_id, pf_lldp_get_peer_port_description,
         pf_lldp_get_peer_management_address,
         pf_lldp_get_peer_management_port_index,
         pf_lldp_get_peer_station_name, pf_lldp_get_peer_signal_delays,
         pf_lldp_get_peer_link_status, Getters, InfoGetters
  <2>2. Stable(p) = peer[p]
    BY <2>1 DEF PeerGet, IInv, LockInv, Stable
  <2>3. rd'.port = p /\ rd'.getter = g
    BY <2>1 DEF PeerGet, ReadOf
  <2>. QED BY <2>1, <2>2, <2>3 DEF PeerGet, ReadOf, ReadMatches
<1>. QED BY <1>1, Invariance, PTL DEF Spec, ReadsMatchStore

\* A step that leaves every port's visible record alone satisfies StampStep.
LEMMA StableStep ==
    (\A q \in Ports : Stable(q)' = Stable(q)) => StampStep
BY DEF StampStep

\* pf_lldp_get_peer_timestamp's contract: new information is stamped with
\* the tick of its reception, identical information keeps its timestamp.
THEOREM TimestampMarksChangeHolds == Spec => TimestampMarksChange
<1>1. IInv /\ [Next]_vars => [StampStep]_vars
  <2>. SUFFICES ASSUME IInv, [Next]_vars PROVE StampStep
    BY DEF StampStep
  <2>. USE DEF NoOutput
  <2>1. CASE \E q \in Ports, f \in Frames : FrameArrives(q, f)
    BY <2>1, StableStep DEF FrameArrives, Stable, IInv, TypeOK
  <2>2. CASE pf_lldp_recv
    BY <2>2, StableStep DEF pf_lldp_recv, Stable
  <2>3. CASE CommitIdentity
    <3>1. \A q \in Ports : Stable(q)' = Stable(q)
      <4>. SUFFICES ASSUME NEW q \in Ports PROVE Stable(q)' = Stable(q)
        OBVIOUS
      <4>1. ~lock[rx.port] /\ rx.stage = "dispatch"
        BY <2>3 DEF CommitIdentity
      <4>2. CASE q = rx.port
        BY <2>3, <4>1, <4>2 DEF CommitIdentity, Stable
      <4>3. CASE q # rx.port
        BY <2>3, <4>1, <4>3 DEF CommitIdentity, Stable, IInv, TypeOK
      <4>. QED BY <4>2, <4>3
    <3>. QED BY <3>1, StableStep
  <2>4. CASE CommitRest
    <3>0. PICK p \in Ports : p = rx.port
      BY DEF IInv, TypeOK, RxState
    <3>. DEFINE c == rx.frame.data
    <3>1. rx.stage = "commit" /\ p \in Ports
      BY <2>4, <3>0 DEF CommitRest
    <3>2. \A q \in Ports \ {p} : Stable(q)' = Stable(q)
      BY <2>4, <3>0, <3>1 DEF CommitRest, Stable, IInv, TypeOK
    <3>3. Stable(p) = rx.prev /\ Stable(p)' = peer'[p]
      BY <2>4, <3>0, <3>1 DEF CommitRest, Stable
    <3>4. CASE Changed(rx.prev, c)
      <4>1. peer'[p] = [content |-> c, ts |-> now, valid |-> TRUE]
        BY <2>4, <3>0, <3>1, <3>4 DEF CommitRest, IInv, TypeOK
      <4>2. Stable(p)'.ts = now /\ Stable(p)'.content = c /\ Stable(p)'.valid
        BY <3>3, <4>1
      <4>3. ~(Stable(p).valid /\ Stable(p).content = c)
        BY <3>3, <3>4 DEF Changed
      <4>. SUFFICES ASSUME NEW q \in Ports
                    PROVE  LET s == Stable(q)
                               t == Stable(q)'
                           IN /\ t.valid /\ (~s.valid \/ t.content # s.content) => t.ts = now
                              /\ s.valid /\ t.valid /\ t.content = s.content => t.ts = s.ts
        BY DEF StampStep
      <4>4. CASE q = p
        BY <4>2, <4>3, <4>4
      <4>5. CASE q # p
        <5>1. Stable(q)' = Stable(q)
          BY <3>2, <4>5
        <5>. QED BY <5>1
      <4>. QED BY <4>4, <4>5
    <3>5. CASE ~Changed(rx.prev, c)
      <4>1. peer'[p] = rx.prev
        BY <2>4, <3>0, <3>1, <3>5 DEF CommitRest, IInv, CommitInv
      <4>2. ASSUME NEW q \in Ports PROVE Stable(q)' = Stable(q)
        <5>1. CASE q = p
          BY <3>3, <4>1, <5>1
        <5>2. CASE q # p
          BY <3>2, <5>2
        <5>. QED BY <5>1, <5>2
      <4>. QED BY <4>2, StableStep
    <3>. QED BY <3>4, <3>5
  <2>5. CASE CallerRelease
    BY <2>5, StableStep DEF CallerRelease, IdleRx, Stable
  <2>6. CASE \E q \in Ports, g \in Getters : PeerGet(q, g)
    BY <2>6, StableStep DEF PeerGet, Stable
  <2>7. ASSUME NEW q \in Ports, LinkDown(q) PROVE StampStep
    <3>1. \A r \in Ports \ {q} : Stable(r)' = Stable(r)
      BY <2>7 DEF LinkDown, Stable, IInv, TypeOK
    <3>2. ~Stable(q)'.valid
      <4>1. ~(rx.stage = "commit" /\ rx.port = q)
        BY <2>7 DEF LinkDown, IInv, LockInv
      <4>. QED BY <2>7, <4>1 DEF LinkDown, Stable, IInv, TypeOK
    <3>. QED BY <3>1, <3>2 DEF StampStep
  <2>8. CASE Tick \/ ArChange
    BY <2>8, StableStep DEF Tick, ArChange, Stable
  <2>9. CASE UNCHANGED vars
    BY <2>9, StableStep DEF vars, Stable
  <2>. QED
    <3>. Next => \/ \E q \in Ports, f \in Frames : FrameArrives(q, f)
                 \/ pf_lldp_recv \/ CommitIdentity \/ CommitRest
                 \/ CallerRelease
                 \/ \E q \in Ports, g \in Getters : PeerGet(q, g)
                 \/ \E q \in Ports : LinkDown(q)
                 \/ Tick \/ ArChange
      BY DEF Next, pf_lldp_get_peer_timestamp, pf_lldp_get_peer_chassis_id,
         pf_lldp_get_peer_port_id, pf_lldp_get_peer_port_description,
         pf_lldp_get_peer_management_address,
         pf_lldp_get_peer_management_port_index,
         pf_lldp_get_peer_station_name, pf_lldp_get_peer_signal_delays,
         pf_lldp_get_peer_link_status, Getters, InfoGetters
    <3>. QED BY <2>1, <2>2, <2>3, <2>4, <2>5, <2>6, <2>7, <2>8, <2>9
<1>. QED BY <1>1, Invariance, PTL DEF Spec, TimestampMarksChange

\* Every step other than the second half of a commit and a link-down leaves
\* every port's visible record alone and signals no alarm.
LEMMA QuietStep ==
    ASSUME IInv, Next, ~CommitRest, ~\E q \in Ports : LinkDown(q)
    PROVE  /\ \A q \in Ports : Stable(q)' = Stable(q)
           /\ alarmSignal' = {}
<1>. USE DEF NoOutput
<1>1. CASE \E q \in Ports, f \in Frames : FrameArrives(q, f)
  BY <1>1 DEF FrameArrives, Stable, IInv, TypeOK
<1>2. CASE pf_lldp_recv
  BY <1>2 DEF pf_lldp_recv, Stable
<1>3. CASE CommitIdentity
  <2>1. ASSUME NEW q \in Ports PROVE Stable(q)' = Stable(q)
    <3>1. CASE q = rx.port
      BY <1>3, <3>1 DEF CommitIdentity, Stable
    <3>2. CASE q # rx.port
      BY <1>3, <3>2 DEF CommitIdentity, Stable, IInv, TypeOK
    <3>. QED BY <3>1, <3>2
  <2>. QED BY <1>3, <2>1 DEF CommitIdentity
<1>4. CASE CallerRelease
  BY <1>4 DEF CallerRelease, IdleRx, Stable
<1>5. CASE \E q \in Ports, g \in Getters : PeerGet(q, g)
  BY <1>5 DEF PeerGet, Stable
<1>6. CASE Tick \/ ArChange
  BY <1>6 DEF Tick, ArChange, Stable
<1>. QED
  BY <1>1, <1>2, <1>3, <1>4, <1>5, <1>6
  DEF Next, pf_lldp_get_peer_timestamp, pf_lldp_get_peer_chassis_id,
      pf_lldp_get_peer_port_id, pf_lldp_get_peer_port_description,
      pf_lldp_get_peer_management_address,
      pf_lldp_get_peer_management_port_index,
      pf_lldp_get_peer_station_name, pf_lldp_get_peer_signal_delays,
      pf_lldp_get_peer_link_status, Getters, InfoGetters

\* pf_lldp_recv stores what it received: once it has handled a well-formed
\* LLDPDU, the port's record is valid and holds that frame's content, also
\* when the content equals a record that a link-down invalidated.
THEOREM ReceivedFrameIsStoredHolds == Spec => ReceivedFrameIsStored
<1>1. IInv /\ [Next]_vars => [StoreStep]_vars
  <2>. SUFFICES ASSUME IInv, [Next]_vars,
                       rx'.stage = "returned", rx'.frame.kind = "lldp",
                       rx.stage # "returned"
                PROVE  Stable(rx.port)'.valid
                       /\ Stable(rx.port)'.content = rx.frame.data
    BY DEF StoreStep
  <2>1. rx \in RxState
    BY DEF IInv, TypeOK
  <2>2. CommitRest
    <3>1. ~\E q \in Ports, f \in Frames : FrameArrives(q, f)
      BY DEF FrameArrives
    <3>4. ~CommitIdentity
      BY <2>1 DEF CommitIdentity, RxState
    <3>5. ~CallerRelease
      <4>1. IdleRx \in RxState
        BY IdleRxType
      <4>. QED BY <4>1 DEF CallerRelease, IdleRx, RxState
    <3>2. ~pf_lldp_recv
      BY <2>1 DEF pf_lldp_recv, RxState
    <3>3. ~\/ \E q \in Ports : LinkDown(q)
           \/ \E q \in Ports, g \in Getters : PeerGet(q, g)
           \/ Tick \/ ArChange \/ UNCHANGED vars
      BY DEF LinkDown, PeerGet, Tick, ArChange, vars
    <3>. QED
      BY <3>1, <3>2, <3>3, <3>4, <3>5
      DEF Next, pf_lldp_get_peer_timestamp, pf_lldp_get_peer_chassis_id,
          pf_lldp_get_peer_port_id, pf_lldp_get_peer_port_description,
          pf_lldp_get_peer_management_address,
          pf_lldp_get_peer_management_port_index,
          pf_lldp_get_peer_station_name, pf_lldp_get_peer_signal_delays,
          pf_lldp_get_peer_link_status, Getters, InfoGetters
  <2>3. PICK p \in Ports : p = rx.port
    BY <2>1 DEF RxState
  <2>. DEFINE c == rx.frame.data
  <2>4. Stable(rx.port)' = peer'[p]
    BY <2>2, <2>3 DEF CommitRest, Stable
  <2>5. CASE Changed(rx.prev, c)
    <3>1. peer'[p] = [content |-> c, ts |-> now, valid |-> TRUE]
      BY <2>2, <2>3, <2>5 DEF CommitRest, IInv, TypeOK
    <3>. QED BY <2>4, <3>1
  <2>6. CASE ~Changed(rx.prev, c)
    <3>1. peer'[p] = rx.prev
      BY <2>2, <2>3, <2>6 DEF CommitRest, IInv, CommitInv
    <3>. QED BY <2>4, <2>6, <3>1 DEF Changed
  <2>. QED BY <2>5, <2>6
<1>. QED BY <1>1, Invariance, PTL DEF Spec, ReceivedFrameIsStored

\* pf_lldp_recv's alarm: a port is signalled exactly when a known peer's
\* identity is replaced on it while a connection is established.
THEOREM AlarmOnPeerReplacedHolds == Spec => AlarmOnPeerReplaced
<1>1. IInv /\ [Next]_vars => [AlarmStep]_vars
  <2>. SUFFICES ASSUME IInv, [Next]_vars PROVE [AlarmStep]_vars
    OBVIOUS
  <2>1. CASE UNCHANGED vars
    BY <2>1
  <2>2. CASE CommitRest
    <3>0. PICK p \in Ports : p = rx.port
      BY DEF IInv, TypeOK, RxState
    <3>. DEFINE c == rx.frame.data
    <3>1. rx.stage = "commit"
      BY <2>2 DEF CommitRest
    <3>2. alarmSignal' = IF ar /\ IdentityReplaced(rx.prev, c) THEN {p} ELSE {}
      BY <2>2, <3>0 DEF CommitRest
    <3>3. Stable(p) = rx.prev /\ Stable(p)' = peer'[p]
      BY <2>2, <3>0, <3>1 DEF CommitRest, Stable
    <3>. SUFFICES ASSUME NEW q \in Ports
                  PROVE  q \in alarmSignal' <=>
                            /\ ar
                            /\ Stable(q).valid /\ Stable(q)'.valid
                            /\ Identity(Stable(q)') # Identity(Stable(q))
      BY DEF AlarmStep
    <3>4. CASE q # p
      <4>1. Stable(q)' = Stable(q)
        BY <2>2, <3>0, <3>1, <3>4 DEF CommitRest, Stable, IInv, TypeOK
      <4>. QED BY <3>2, <3>4, <4>1
    <3>5. CASE q = p /\ Changed(rx.prev, c)
      <4>1. peer'[p] = [content |-> c, ts |-> now, valid |-> TRUE]
        BY <2>2, <3>0, <3>5 DEF CommitRest, IInv, TypeOK
      <4>. QED BY <3>2, <3>3, <3>5, <4>1 DEF IdentityReplaced, Identity
    <3>6. CASE q = p /\ ~Changed(rx.prev, c)
      <4>1. peer'[p] = rx.prev
        BY <2>2, <3>0, <3>1, <3>6 DEF CommitRest, IInv, CommitInv
      <4>2. ~IdentityReplaced(rx.prev, c)
        BY <3>6 DEF Changed, IdentityReplaced
      <4>. QED BY <3>2, <3>3, <3>6, <4>1, <4>2
    <3>. QED BY <3>4, <3>5, <3>6
  <2>3. ASSUME NEW q \in Ports, LinkDown(q) PROVE AlarmStep
    <3>1. \A r \in Ports \ {q} : Stable(r)' = Stable(r)
      BY <2>3 DEF LinkDown, Stable, IInv, TypeOK
    <3>2. ~Stable(q)'.valid
      <4>1. ~(rx.stage = "commit" /\ rx.port = q)
        BY <2>3 DEF LinkDown, IInv, LockInv
      <4>. QED BY <2>3, <4>1 DEF LinkDown, Stable, IInv, TypeOK
    <3>3. alarmSignal' = {}
      BY <2>3 DEF LinkDown, NoOutput
    <3>. QED BY <3>1, <3>2, <3>3 DEF AlarmStep
  <2>4. CASE Next /\ ~CommitRest /\ ~\E q \in Ports : LinkDown(q)
    <3>1. /\ \A q \in Ports : Stable(q)' = Stable(q)
          /\ alarmSignal' = {}
      BY <2>4, QuietStep
    <3>. QED BY <3>1 DEF AlarmStep
  <2>. QED BY <2>1, <2>2, <2>3, <2>4
<1>. QED BY <1>1, Invariance, PTL DEF Spec, AlarmOnPeerReplaced


\* LLDPPeerAbstract's data operators, instantiated, are those of LLDPPeer.
LEMMA AbsData ==
    /\ Abs!Ports = Ports /\ Abs!Content = Content /\ Abs!NoRead = NoRead
    /\ Abs!Getters = Getters
    /\ \A p, g, r : Abs!ReadOf(p, g, r) = ReadOf(p, g, r)
    /\ \A r, c : Abs!Changed(r, c) = Changed(r, c)
    /\ \A r, c : Abs!IdentityReplaced(r, c) = IdentityReplaced(r, c)
BY DEF Abs!Ports, Ports, Abs!Content, Content, Abs!NoRead, NoRead,
       Abs!Getters, Getters, Abs!InfoGetters, InfoGetters,
       Abs!ReadOf, ReadOf, Abs!Field, Field, Abs!Changed, Changed,
       Abs!IdentityReplaced, IdentityReplaced

\* When no port's visible record changes, the abstract records do not.
LEMMA AbsPeerUnchanged ==
    ASSUME \A q \in Ports : Stable(q)' = Stable(q)
    PROVE  AbsPeer' = AbsPeer
BY DEF AbsPeer

\* The initial store is the initial abstract store.
LEMMA InitRefines == Init => Abs!AInit
<1>. SUFFICES ASSUME Init PROVE Abs!AInit
  OBVIOUS
<1>1. AbsPeer = peer
  BY DEF Init, IdleRx, AbsPeer, Stable
<1>. QED BY <1>1, AbsData DEF Init, Abs!AInit

\* Every step of the store, from a state of IInv, is a step of the atomic
\* store or leaves its variables alone.
LEMMA NextRefines == IInv /\ [Next]_vars => [Abs!ANext]_Abs!avars
<1>. SUFFICES ASSUME IInv, [Next]_vars PROVE [Abs!ANext]_Abs!avars
  OBVIOUS
<1>. USE DEF NoOutput
<1>1. CASE UNCHANGED vars
  BY <1>1 DEF vars, Abs!avars, AbsPeer, Stable
<1>2. CASE \/ \E q \in Ports, f \in Frames : FrameArrives(q, f)
           \/ pf_lldp_recv \/ CommitIdentity \/ CallerRelease
  <2>a. rx \in RxState /\ IdleRx \in RxState
    BY IdleRxType DEF IInv, TypeOK
  <2>b. rx.stage # "commit" /\ rx'.stage # rx.stage
    <3>1. CASE \E q \in Ports, f \in Frames : FrameArrives(q, f)
      BY <3>1 DEF FrameArrives
    <3>2. CASE pf_lldp_recv
      BY <2>a, <3>2 DEF pf_lldp_recv, RxState
    <3>3. CASE CommitIdentity
      BY <2>a, <3>3 DEF CommitIdentity, RxState
    <3>4. CASE CallerRelease
      <4>1. rx'.stage = "idle"
        BY <2>a, <3>4 DEF CallerRelease, IdleRx, RxState
      <4>. QED BY <3>4, <4>1 DEF CallerRelease
    <3>. QED BY <1>2, <3>1, <3>2, <3>3, <3>4
  <2>1. Next /\ ~CommitRest /\ ~\E q \in Ports : LinkDown(q)
    BY <1>2, <2>b DEF Next, CommitRest, LinkDown
  <2>2. AbsPeer' = AbsPeer /\ alarmSignal' = {}
    BY <2>1, QuietStep, AbsPeerUnchanged
  <2>3. rd' = NoRead /\ UNCHANGED <<now, ar>>
    BY <1>2 DEF FrameArrives, pf_lldp_recv, CommitIdentity, CallerRelease
  <2>. QED BY <2>2, <2>3, AbsData DEF Abs!ANext, Abs!Internal, Abs!Silent
<1>3. ASSUME NEW p \in Ports, NEW g \in Getters, PeerGet(p, g)
      PROVE  Abs!ANext
  <2>1. AbsPeer[p] = peer[p]
    BY <1>3 DEF PeerGet, IInv, LockInv, AbsPeer, Stable
  <2>2. AbsPeer' = AbsPeer
    BY <1>3, AbsPeerUnchanged DEF PeerGet, Stable
  <2>3. Abs!Read(p, g)
    <3>1. rd'.getter = g
      BY <1>3 DEF PeerGet, ReadOf
    <3>. QED BY <1>3, <2>1, <2>2, <3>1, AbsData DEF PeerGet, Abs!Read
  <2>. QED BY <2>3, AbsData DEF Abs!ANext
<1>4. CASE CommitRest
  <2>0. PICK p \in Ports : p = rx.port
    BY DEF IInv, TypeOK, RxState
  <2>. DEFINE c == rx.frame.data
  <2>1. rx.stage = "commit" /\ rx'.stage = "returned" /\ rx'.port = p
    BY <1>4, <2>0 DEF CommitRest
  <2>2. c \in Content
    BY <2>1 DEF IInv, CommitInv, TypeOK, RxState, Frames, NullFrame
  <2>3. AbsPeer[p] = rx.prev /\ AbsPeer' = peer'
    <3>1. AbsPeer[p] = rx.prev
      BY <2>0, <2>1 DEF AbsPeer, Stable
    <3>2. peer' \in [Ports -> PeerRec]
      BY <1>4, <2>0, <2>2 DEF CommitRest, IInv, TypeOK, PeerRec, TsVals
    <3>3. AbsPeer' = [q \in Ports |-> peer'[q]]
      BY <2>1 DEF AbsPeer, Stable
    <3>. QED BY <3>1, <3>2, <3>3
  <2>4. \A q \in Ports \ {p} : AbsPeer[q] = peer[q]
    BY <2>0, <2>1 DEF AbsPeer, Stable
  <2>5. AbsPeer' = IF Changed(AbsPeer[p], c)
                   THEN [AbsPeer EXCEPT ![p] = [content |-> c, ts |-> now,
                                                valid |-> TRUE]]
                   ELSE AbsPeer
    <3>1. CASE Changed(rx.prev, c)
      <4>1. peer' = [peer EXCEPT ![p] = [content |-> c, ts |-> now,
                                         valid |-> TRUE]]
        BY <1>4, <2>0, <3>1 DEF CommitRest
      <4>. QED BY <2>3, <2>4, <3>1, <4>1 DEF AbsPeer, IInv, TypeOK
    <3>2. CASE ~Changed(rx.prev, c)
      <4>1. peer' = peer /\ peer[p] = rx.prev
        BY <1>4, <2>0, <2>1, <3>2 DEF CommitRest, IInv, CommitInv
      <4>. QED BY <2>3, <2>4, <3>2, <4>1 DEF AbsPeer, IInv, TypeOK
    <3>. QED BY <3>1, <3>2
  <2>6. Abs!Receive(p, c)
    BY <1>4, <2>0, <2>3, <2>5, AbsData DEF CommitRest, Abs!Receive
  <2>. QED BY <2>2, <2>6, AbsData DEF Abs!ANext
<1>5. ASSUME NEW q \in Ports, LinkDown(q) PROVE Abs!ANext
  <2>1. ~(rx.stage = "commit" /\ rx.port = q)
    BY <1>5 DEF LinkDown, IInv, LockInv
  <2>2. AbsPeer[q] = peer[q]
    BY <2>1 DEF AbsPeer, Stable
  <2>3. AbsPeer' = [AbsPeer EXCEPT ![q].valid = FALSE]
    BY <1>5, <2>1 DEF LinkDown, AbsPeer, Stable, IInv, TypeOK
  <2>4. Abs!ALinkDown(q)
    BY <1>5, <2>2, <2>3, AbsData DEF LinkDown, Abs!ALinkDown, Abs!Silent
  <2>. QED BY <2>4, AbsData DEF Abs!ANext
<1>6. CASE Tick \/ ArChange
  <2>1. AbsPeer' = AbsPeer
    BY <1>6, AbsPeerUnchanged DEF Tick, ArChange, Stable
  <2>. QED BY <1>6, <2>1, AbsData DEF Tick, ArChange, Abs!ANext, Abs!ATick,
                              Abs!AArChange, Abs!Silent
<1>. QED
  BY <1>1, <1>2, <1>3, <1>4, <1>5, <1>6
  DEF Next, pf_lldp_get_peer_timestamp, pf_lldp_get_peer_chassis_id,
      pf_lldp_get_peer_port_id, pf_lldp_get_peer_port_description,
      pf_lldp_get_peer_management_address,
      pf_lldp_get_peer_management_port_index,
      pf_lldp_get_peer_station_name, pf_lldp_get_peer_signal_delays,
      pf_lldp_get_peer_link_status, Getters, InfoGetters

\* pf_lldp_recv with its lock and its two-step copy, the dispatcher's
\* buffer handling and the getters implement the atomic peer store
\* LLDPPeerAbstract under the mapping of each record to its Stable view.
THEOREM Refinement == Spec => RefinesAbstract
BY InitRefines, NextRefines, Invariance, PTL DEF Spec, RefinesAbstract, Abs!ASpec

=============================================================================
