------------------------------ MODULE LLDPPeer ------------------------------
(***************************************************************************)
(* Peer State Store and Frame Parser of the p-net LLDP component           *)
(* (src/src/common/pf_lldp.h).                                             *)
(*                                                                         *)
(* One record per local port holds what was last learned about the peer   *)
(* on that port.  Three contexts touch it:                                 *)
(*   - the receive context: a frame arrives, the Ethernet dispatcher       *)
(*     offers it to pf_lldp_recv, which either declines it (returns 0,     *)
(*     the caller keeps the buffer) or takes it (returns 1, frees it) and *)
(*     for a well-formed LLDPDU copies the decoded fields into the record *)
(*     under the port's lock, in two steps (identity first, then the rest *)
(*     with timestamp and valid flag);                                     *)
(*   - the management context: the pf_lldp_get_peer_* getters, each one   *)
(*     an atomic read under the same lock;                                 *)
(*   - the environment: the 10 ms tick, the connection (AR) state and the  *)
(*     link-down trigger that invalidates a record.                        *)
(* The decoded data is abstracted to a chassis id, a port id and one      *)
(* value standing for every other field (description, management address *)
(* and interface index, station name, signal delays, link status).        *)
(***************************************************************************)
EXTENDS LLDPPeerData

RxStages == {"idle", "dispatch", "commit", "returned"}

\* The receive context: its stage, the port and frame in hand, the record
\* before the commit, pf_lldp_recv's return value and the buffer releases.
RxState == [stage : RxStages, port : Ports, frame : Frames \cup {NullFrame},
            prev : PeerRec, ret : {0, 1}, frees : 0..2]

VARIABLES
    now,          \* current time in 10 ms ticks, modulo TsWrap
    peer,         \* peer[p]: the peer record of local port p
    lock,         \* lock[p]: the receive context holds port p's lock
    rx,           \* the receive context: frame, buffer and pf_lldp_recv state
    ar,           \* an application relation (connection) is established
    rd,           \* the result of the getter called in this step, or NoRead
    alarmSignal   \* ports signalled to the alarm collaborator in this step

vars == <<now, peer, lock, rx, ar, rd, alarmSignal>>

TypeOK ==
    /\ now \in TsVals
    /\ peer \in [Ports -> PeerRec]
    /\ lock \in [Ports -> BOOLEAN]
    /\ rx \in RxState
    /\ ar \in BOOLEAN
    /\ rd \in Reads \cup {NoRead}
    /\ alarmSignal \subseteq Ports

-----------------------------------------------------------------------------
(* Helpers *)

\* Steps that call no getter and signal no alarm.
NoOutput == rd' = NoRead /\ alarmSignal' = {}

NullRec == [content |-> CHOOSE c \in Content : TRUE, ts |-> 0, valid |-> FALSE]

\* The receive context with no frame in hand; frees counts the releases of
\* the last buffer (1: released once).
IdleRx == [stage |-> "idle", port |-> 1, frame |-> NullFrame,
           prev |-> NullRec, ret |-> 0, frees |-> 1]

-----------------------------------------------------------------------------
(* Initial state: pf_lldp_init leaves every peer record invalid. *)

Init ==
    /\ now = 0
    /\ peer \in [Ports -> [content : Content, ts : {0}, valid : {FALSE}]]
    /\ lock = [p \in Ports |-> FALSE]
    /\ rx = IdleRx
    /\ ar = FALSE
    /\ rd = NoRead
    /\ alarmSignal = {}

-----------------------------------------------------------------------------
(* Receive context *)

\* A frame arrives on port p; the dispatcher owns its buffer.
FrameArrives(p, f) ==
    /\ rx.stage = "idle"
    /\ rx' = [stage |-> "dispatch", port |-> p, frame |-> f,
              prev |-> NullRec, ret |-> 0, frees |-> 0]
    /\ NoOutput
    /\ UNCHANGED <<now, peer, lock, ar>>

\* Mutant: a malformed frame is freed but reported as not handled.
RecvMalformedReturnsZero ==
    /\ rx.stage = "dispatch"
    /\ rx.frame.kind \in {"other", "malformed"}
    /\ rx' = [rx EXCEPT !.stage = "returned", !.ret = 0,
                        !.frees = IF rx.frame.kind = "other" THEN @ ELSE @ + 1]
    /\ NoOutput
    /\ UNCHANGED <<now, peer, lock, ar>>

\* pf_lldp_recv, first part: no LLDP TLV sequence -> return 0, buffer stays
\* with the caller; a malformed TLV -> free the buffer, return 1, touch
\* nothing; a well-formed LLDPDU -> continue with the commit.
pf_lldp_recv ==
    /\ rx.stage = "dispatch"
    /\ rx.frame.kind \in {"other", "malformed"}
    /\ rx' = [rx EXCEPT !.stage = "returned",
                        !.ret = IF rx.frame.kind = "other" THEN 0 ELSE 1,
                        !.frees = IF rx.frame.kind = "other" THEN @ ELSE @ + 1]
    /\ NoOutput
    /\ UNCHANGED <<now, peer, lock, ar>>

\* Mutant: the copy starts without taking the port lock.
CommitIdentityNoLock ==
    LET p == rx.port
        c == rx.frame.data
    IN /\ rx.stage = "dispatch"
       /\ rx.frame.kind = "lldp"
       /\ peer' = IF Changed(peer[p], c)
                  THEN [peer EXCEPT ![p].content.chassis = c.chassis,
                                    ![p].content.portId = c.portId]
                  ELSE peer
       /\ rx' = [rx EXCEPT !.stage = "commit", !.prev = peer[p]]
       /\ NoOutput
       /\ UNCHANGED <<now, ar, lock>>

\* pf_lldp_recv, commit part 1: take the port lock, compare the decoded
\* content with the record and, if it changed, start the copy (identity).
CommitIdentity ==
    LET p == rx.port
        c == rx.frame.data
    IN /\ rx.stage = "dispatch"
       /\ rx.frame.kind = "lldp"
       /\ ~lock[p]
       /\ lock' = [lock EXCEPT ![p] = TRUE]
       /\ peer' = IF Changed(peer[p], c)
                  THEN [peer EXCEPT ![p].content.chassis = c.chassis,
                                    ![p].content.portId = c.portId]
                  ELSE peer
       /\ rx' = [rx EXCEPT !.stage = "commit", !.prev = peer[p]]
       /\ NoOutput
       /\ UNCHANGED <<now, ar>>

\* Mutant: the record is re-stamped on every reception.
CommitRestAlwaysStamp ==
    LET p == rx.port
        c == rx.frame.data
    IN /\ rx.stage = "commit"
       /\ peer' = [peer EXCEPT ![p] = [content |-> c, ts |-> now, valid |-> TRUE]]
       /\ alarmSignal' = IF ar /\ IdentityReplaced(rx.prev, c) THEN {p} ELSE {}
       /\ lock' = [lock EXCEPT ![p] = FALSE]
       /\ rx' = [rx EXCEPT !.stage = "returned", !.ret = 1, !.frees = @ + 1]
       /\ rd' = NoRead
       /\ UNCHANGED <<now, ar>>

\* Mutant: the port lock is not released after the copy.
CommitRestKeepsLock ==
    LET p == rx.port
        c == rx.frame.data
    IN /\ rx.stage = "commit"
       /\ peer' = IF Changed(rx.prev, c)
                  THEN [peer EXCEPT ![p] = [content |-> c, ts |-> now,
                                            valid |-> TRUE]]
                  ELSE peer
       /\ alarmSignal' = IF ar /\ IdentityReplaced(rx.prev, c) THEN {p} ELSE {}
       /\ rx' = [rx EXCEPT !.stage = "returned", !.ret = 1, !.frees = @ + 1]
       /\ rd' = NoRead
       /\ UNCHANGED <<now, ar, lock>>

\* pf_lldp_recv, commit part 2: copy the remaining fields, stamp the record
\* with the current tick and mark it valid (only if it changed), signal an
\* alarm if a known peer was replaced while a connection is established,
\* release the lock, free the buffer and return 1.
CommitRest ==
    LET p == rx.port
        c == rx.frame.data
    IN /\ rx.stage = "commit"
       /\ peer' = IF Changed(rx.prev, c)
                  THEN [peer EXCEPT ![p] = [content |-> c, ts |-> now,
                                            valid |-> TRUE]]
                  ELSE peer
       /\ alarmSignal' = IF ar /\ IdentityReplaced(rx.prev, c) THEN {p} ELSE {}
       /\ lock' = [lock EXCEPT ![p] = FALSE]
       /\ rx' = [rx EXCEPT !.stage = "returned", !.ret = 1, !.frees = @ + 1]
       /\ rd' = NoRead
       /\ UNCHANGED <<now, ar>>

\* The dispatcher after pf_lldp_recv returned: on 0 it still owns the
\* buffer and releases it; on 1 the buffer is no longer its own.
CallerRelease ==
    /\ rx.stage = "returned"
    /\ rx' = [IdleRx EXCEPT !.frees = IF rx.ret = 0 THEN rx.frees + 1
                                                    ELSE rx.frees]
    /\ NoOutput
    /\ UNCHANGED <<now, peer, lock, ar>>

-----------------------------------------------------------------------------
(* Management context: peer getters return -1 while the record is invalid *)

\* Mutant: a getter that does not take the port lock.
PeerGetUnlocked(p, g) ==
    /\ rd' = ReadOf(p, g, peer[p])
    /\ alarmSignal' = {}
    /\ UNCHANGED <<now, peer, lock, rx, ar>>

\* Mutant: a getter that returns 0 without filling in its output when
\* no peer data was received.
PeerGetNoStatus(p, g) ==
    /\ ~lock[p]
    /\ rd' = IF peer[p].valid
             THEN [port |-> p, getter |-> g, status |-> 0,
                   value |-> Field(peer[p], g)]
             ELSE [port |-> p, getter |-> g, status |-> 0, value |-> NoData]
    /\ alarmSignal' = {}
    /\ UNCHANGED <<now, peer, lock, rx, ar>>

\* A peer getter: under port p's lock, 0 and the field of a valid record,
\* -1 (output unspecified) while the record is invalid.
PeerGet(p, g) ==
    /\ ~lock[p]
    /\ rd' = ReadOf(p, g, peer[p])
    /\ alarmSignal' = {}
    /\ UNCHANGED <<now, peer, lock, rx, ar>>

pf_lldp_get_peer_timestamp(p) == PeerGet(p, "timestamp")
pf_lldp_get_peer_chassis_id(p) == PeerGet(p, "chassis_id")
pf_lldp_get_peer_port_id(p) == PeerGet(p, "port_id")
pf_lldp_get_peer_port_description(p) == PeerGet(p, "port_description")
pf_lldp_get_peer_management_address(p) == PeerGet(p, "management_address")
pf_lldp_get_peer_management_port_index(p) ==
    PeerGet(p, "management_port_index")
pf_lldp_get_peer_station_name(p) == PeerGet(p, "station_name")
pf_lldp_get_peer_signal_delays(p) == PeerGet(p, "signal_delays")
pf_lldp_get_peer_link_status(p) == PeerGet(p, "link_status")

-----------------------------------------------------------------------------
(* Environment *)

\* The 10 ms tick; the uint32_t counter wraps.
Tick ==
    /\ now' = (now + 1) % TsWrap
    /\ NoOutput
    /\ UNCHANGED <<peer, lock, rx, ar>>

\* The connection state machine establishes or releases an AR.
ArChange ==
    /\ ar' = ~ar
    /\ NoOutput
    /\ UNCHANGED <<now, peer, lock, rx>>

\* Link down / reinitialisation of port p invalidates its record.
LinkDown(p) ==
    /\ ~lock[p]
    /\ peer[p].valid
    /\ peer' = [peer EXCEPT ![p].valid = FALSE]
    /\ NoOutput
    /\ UNCHANGED <<now, lock, rx, ar>>

-----------------------------------------------------------------------------

Next ==
    \/ \E p \in Ports, f \in Frames : FrameArrives(p, f)
    \/ pf_lldp_recv
    \/ CommitIdentity
    \/ CommitRest
    \/ CallerRelease
    \/ \E p \in Ports :
          \/ pf_lldp_get_peer_timestamp(p)
          \/ pf_lldp_get_peer_chassis_id(p)
          \/ pf_lldp_get_peer_port_id(p)
          \/ pf_lldp_get_peer_port_description(p)
          \/ pf_lldp_get_peer_management_address(p)
          \/ pf_lldp_get_peer_management_port_index(p)
          \/ pf_lldp_get_peer_station_name(p)
          \/ pf_lldp_get_peer_signal_delays(p)
          \/ pf_lldp_get_peer_link_status(p)
          \/ LinkDown(p)
    \/ Tick
    \/ ArChange

Spec == Init /\ [][Next]_vars

-----------------------------------------------------------------------------
(* Properties *)

\* The record of port p as the management context can see it: during a
\* commit the port is locked and the record before the frame still counts.
Stable(p) == IF rx.stage = "commit" /\ rx.port = p THEN rx.prev ELSE peer[p]


\* Buffer ownership of pf_lldp_recv (pf_lldp.h: "0 If the frame was NOT
\* handled", "1 If the frame was handled and the buffer freed"): a return
\* of 1 means the buffer was freed, a return of 0 that it was not, and
\* once the dispatcher is done every buffer was released exactly once.
BufferOwnership ==
    /\ rx.frees <= 1
    /\ rx.stage = "returned" => rx.frees = rx.ret
    /\ rx.stage = "idle" => rx.frees = 1

\* Once pf_lldp_recv has handled a well-formed LLDPDU, the port's record
\* is valid and holds exactly what that frame carried, also when the same
\* information arrives again after a link-down invalidated the record.
StoreStep ==
    rx'.stage = "returned" /\ rx'.frame.kind = "lldp" /\ rx.stage # "returned"
        => /\ Stable(rx.port)'.valid
           /\ Stable(rx.port)'.content = rx.frame.data
\* StoreStep holds in every step.
ReceivedFrameIsStored == [][StoreStep]_vars

\* A peer getter returns 0 exactly when the record is valid, and then the
\* value of a complete record: never the unspecified content of an invalid
\* record, never a record half-way through pf_lldp_recv's copy.
ReadMatches ==
    rd' # NoRead =>
        LET r == Stable(rd'.port)
        IN /\ rd'.status = 0 <=> r.valid
           /\ rd'.status = 0 => rd'.value = Field(r, rd'.getter)
\* ReadMatches holds in every step.
ReadsMatchStore == [][ReadMatches]_vars

\* pf_lldp_get_peer_timestamp's contract: new information is stamped with
\* the tick at which it was received; re-receiving identical information
\* leaves the timestamp as it was.
StampStep ==
    \A p \in Ports :
        LET s == Stable(p)
            t == Stable(p)'
        IN /\ t.valid /\ (~s.valid \/ t.content # s.content) => t.ts = now
           /\ s.valid /\ t.valid /\ t.content = s.content => t.ts = s.ts
\* StampStep holds in every step.
TimestampMarksChange == [][StampStep]_vars

\* pf_lldp_recv triggers an alarm on port p exactly when a known peer's
\* identity (chassis id, port id) is replaced while a connection exists.
AlarmStep ==
    \A p \in Ports :
        p \in alarmSignal' <=>
            /\ ar
            /\ Stable(p).valid /\ Stable(p)'.valid
            /\ Identity(Stable(p)') # Identity(Stable(p))
\* AlarmStep holds in every step.
AlarmOnPeerReplaced == [][AlarmStep]_vars

-----------------------------------------------------------------------------
(* Refinement of LLDPPeerAbstract *)

\* The records as LLDPPeerAbstract sees them.
AbsPeer == [p \in Ports |-> Stable(p)]

Abs == INSTANCE LLDPPeerAbstract WITH peer <- AbsPeer

\* The detailed store implements the atomic one: the two-step copy of
\* pf_lldp_recv under the port lock, the early returns and the buffer
\* handling are, seen through the Stable records, a single Receive or
\* nothing at all, and every getter reads a whole record.
RefinesAbstract == Abs!ASpec

-----------------------------------------------------------------------------
(* Inductive invariant behind the proofs (LLDPPeerProofs) *)

\* While pf_lldp_recv is in the middle of a commit on port p: the frame is
\* a well-formed LLDPDU, and the record differs from the one it had before
\* the frame only by the identity already copied, and only if it changed.
CommitInv ==
    rx.stage = "commit" =>
        LET p == rx.port
            c == rx.frame.data
        IN /\ rx.frame.kind = "lldp"
           /\ peer[p].ts = rx.prev.ts
           /\ peer[p].valid = rx.prev.valid
           /\ peer[p].content.info = rx.prev.content.info
           /\ Changed(rx.prev, c) => /\ peer[p].content.chassis = c.chassis
                                     /\ peer[p].content.portId = c.portId
           /\ ~Changed(rx.prev, c) => peer[p] = rx.prev

\* A port lock is held exactly while pf_lldp_recv commits on that port.
LockInv ==
    \A q \in Ports : lock[q] <=> (rx.stage = "commit" /\ rx.port = q)

\* The buffer in hand has not been released before pf_lldp_recv returns.
FreesInv == rx.stage \in {"dispatch", "commit"} => rx.frees = 0

\* The inductive strengthening of TypeOK, BufferOwnership and the step
\* properties: the receive context's stage determines the locks, the
\* releases of the buffer and how far the record has been copied.
IInv == TypeOK /\ BufferOwnership /\ FreesInv /\ LockInv /\ CommitInv

\* The spec's "monotonic freshness timestamp": a valid record's timestamp
\* never moves back.  The uint32_t tick counter wraps, so it does.
TimestampMonotonic ==
    [][\A p \in Ports :
         Stable(p).valid /\ Stable(p)'.valid => Stable(p)'.ts >= Stable(p).ts]_vars

=============================================================================
