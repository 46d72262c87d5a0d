------------------------------- MODULE LLDPTx -------------------------------
(***************************************************************************)
(* The LLDP Transmission Scheduler of src/src/common/pf_lldp.h:            *)
(* pf_lldp_init, pf_lldp_send and pf_lldp_tx_restart, with the timeout     *)
(* that re-sends periodically.  Two contexts run this code:                *)
(*   "app"   the caller of pf_lldp_init and pf_lldp_tx_restart (start-up,  *)
(*           a name or address change);                                    *)
(*   "sched" the stack's scheduler, which fires the LLDP timeout and runs  *)
(*           its callback: pf_lldp_send, then re-arm the timeout.           *)
(* pf_lldp_tx_restart removes the timeout under the stored handle, sends   *)
(* if asked, and arms a new one.  pf_lldp_send walks the ports with the    *)
(* port iterator and builds and hands over one frame per port; a build     *)
(* that would overflow the frame sends nothing for that port (spec 4.2,    *)
(* 7).  When Serialized is TRUE the two contexts never overlap (one stack  *)
(* thread); when FALSE they interleave freely (spec 5).                    *)
(***************************************************************************)
EXTENDS LLDPPortIterator, FiniteSets

CONSTANTS
    Oversized,    \* ports whose local configuration does not fit a frame
    MaxTimerIds,  \* size of the scheduler's timeout table
    Serialized    \* TRUE when the app and the scheduler share one thread

ASSUME TxAssumption ==
    /\ Oversized \subseteq Ports
    /\ MaxTimerIds \in Nat \ {0}
    /\ Serialized \in BOOLEAN

Contexts == {"app", "sched"}
Other(c) == CHOOSE d \in Contexts : d # c

\* Handles of scheduler timeouts; 0 is the "no timeout" handle.
TimerIds == 1..MaxTimerIds

\* Where a context is: before pf_lldp_init ("uninit", app only), between
\* calls, inside the pf_lldp_send loop, or about to arm the timeout.
Pcs == {"uninit", "idle", "send", "arm"}

VARIABLES
    pc,       \* [Contexts -> Pcs]
    it,       \* the pf_lldp_send loop's port iterator, per context
    rearm,    \* whether the pf_lldp_send under way is followed by an arm
    round,    \* ports the current pf_lldp_send of a context has sent on
    pending,  \* timeouts of LLDP queued in the scheduler
    handle,   \* the stored timeout handle (net->lldp_timeout), 0 if none
    txEvt     \* the ports a frame was handed to the transport for, this step

vars == <<pc, it, rearm, round, pending, handle, txEvt>>

TypeOK ==
    /\ pc \in [Contexts -> Pcs]
    /\ pc["sched"] # "uninit"
    /\ it \in [Contexts -> Iterators]
    /\ rearm \in [Contexts -> BOOLEAN]
    /\ round \in [Contexts -> SUBSET Ports]
    /\ pending \subseteq TimerIds
    /\ handle \in 0..MaxTimerIds
    /\ txEvt \subseteq Ports

Init ==
    /\ pc = [c \in Contexts |-> IF c = "app" THEN "uninit" ELSE "idle"]
    /\ it = [c \in Contexts |-> InitIter]
    /\ rearm = [c \in Contexts |-> TRUE]
    /\ round = [c \in Contexts |-> {}]
    /\ pending = {}
    /\ handle = 0
    /\ txEvt = {}

\* A call may start in context c: on one thread, only while the other
\* context is between calls.
MayStart(c) == Serialized => pc[Other(c)] \in {"idle", "uninit"}

\* Context c enters pf_lldp_send with a fresh port iterator, to arm the
\* timeout after it or not.
BeginSend(c, arm) ==
    /\ it' = [it EXCEPT ![c] = InitIter]
    /\ rearm' = [rearm EXCEPT ![c] = arm]
    /\ round' = [round EXCEPT ![c] = {}]

\* Mutant: the restart forgets to remove the queued timeout.
RestartNoRemove(send) ==
    /\ pending' = pending
    /\ handle' = 0
    /\ pc' = [pc EXCEPT !["app"] = IF send THEN "send" ELSE "arm"]
    /\ BeginSend("app", TRUE)
    /\ txEvt' = {}

\* pf_lldp_tx_restart(send), called by the app: remove the timeout under
\* the stored handle (a handle whose timeout already fired removes
\* nothing), clear the handle, then send if asked and arm.
Restart(send) ==
    /\ pending' = pending \ {handle}
    /\ handle' = 0
    /\ pc' = [pc EXCEPT !["app"] = IF send THEN "send" ELSE "arm"]
    /\ BeginSend("app", TRUE)
    /\ txEvt' = {}

\* pf_lldp_init: initialise LLDP and send the first frames; it restarts
\* the transmission with send = TRUE.
pf_lldp_init ==
    /\ pc["app"] = "uninit"
    /\ MayStart("app")
    /\ Restart(TRUE)

pf_lldp_tx_restart(send) ==
    /\ pc["app"] = "idle"
    /\ MayStart("app")
    /\ Restart(send)

\* pf_lldp_send called directly by the app: one send round on every
\* port, the timer left alone.
pf_lldp_send ==
    /\ pc["app"] = "idle"
    /\ MayStart("app")
    /\ pc' = [pc EXCEPT !["app"] = "send"]
    /\ BeginSend("app", FALSE)
    /\ txEvt' = {}
    /\ UNCHANGED <<pending, handle>>

\* Mutant: the timeout callback re-arms without sending.
ExpireNoSend(t) ==
    /\ pc["sched"] = "idle"
    /\ t \in pending
    /\ MayStart("sched")
    /\ pending' = pending \ {t}
    /\ pc' = [pc EXCEPT !["sched"] = "arm"]
    /\ BeginSend("sched", TRUE)
    /\ txEvt' = {}
    /\ UNCHANGED handle

\* The scheduler fires LLDP timeout t: it leaves the queue and the
\* callback starts pf_lldp_send.  The stored handle still names t.
Expire(t) ==
    /\ pc["sched"] = "idle"
    /\ t \in pending
    /\ MayStart("sched")
    /\ pending' = pending \ {t}
    /\ pc' = [pc EXCEPT !["sched"] = "send"]
    /\ BeginSend("sched", TRUE)
    /\ txEvt' = {}
    /\ UNCHANGED handle

\* One turn of the pf_lldp_send loop: pf_lldp_get_next_port gives port p
\* (not the 0 sentinel), its frame is built and handed to the transport.
SendFrame(c) ==
    LET p == NextPort(it[c]) IN
    /\ pc[c] = "send"
    /\ p # 0
    /\ p \notin Oversized
    /\ it' = [it EXCEPT ![c] = Advance(@)]
    /\ round' = [round EXCEPT ![c] = @ \cup {p}]
    /\ txEvt' = {p}
    /\ UNCHANGED <<pc, rearm, pending, handle>>

\* The frame of port p would overflow: the build fails, nothing is sent
\* on p, and the loop goes on with the next port.
BuildFails(c) ==
    LET p == NextPort(it[c]) IN
    /\ pc[c] = "send"
    /\ p # 0
    /\ p \in Oversized
    /\ it' = [it EXCEPT ![c] = Advance(@)]
    /\ txEvt' = {}
    /\ UNCHANGED <<pc, rearm, round, pending, handle>>

\* Mutant: every pf_lldp_send is followed by an arm, a direct call too.
SendDoneAlwaysArm(c) ==
    /\ pc[c] = "send"
    /\ NextPort(it[c]) = 0
    /\ pc' = [pc EXCEPT ![c] = "arm"]
    /\ txEvt' = {}
    /\ UNCHANGED <<it, rearm, round, pending, handle>>

\* pf_lldp_get_next_port answered 0: pf_lldp_send returns, to the arm of
\* a restart or of the timeout callback, or to its direct caller.
SendDone(c) ==
    /\ pc[c] = "send"
    /\ NextPort(it[c]) = 0
    /\ pc' = [pc EXCEPT ![c] = IF rearm[c] THEN "arm" ELSE "idle"]
    /\ txEvt' = {}
    /\ UNCHANGED <<it, rearm, round, pending, handle>>

\* Mutant: the handle pf_scheduler_add returns is not stored.
ArmNoHandle(c) ==
    /\ pc[c] = "arm"
    /\ \E t \in TimerIds \ pending : pending' = pending \cup {t}
    /\ pc' = [pc EXCEPT ![c] = "idle"]
    /\ txEvt' = {}
    /\ UNCHANGED <<it, rearm, round, handle>>

\* pf_scheduler_add of the LLDP timeout: a free entry of the timeout
\* table is queued and its handle stored.
Arm(c) ==
    /\ pc[c] = "arm"
    /\ \E t \in TimerIds \ pending :
          /\ pending' = pending \cup {t}
          /\ handle' = t
    /\ pc' = [pc EXCEPT ![c] = "idle"]
    /\ txEvt' = {}
    /\ UNCHANGED <<it, rearm, round>>

\* The steps of a call already under way in context c.
Continue(c) == SendFrame(c) \/ BuildFails(c) \/ SendDone(c) \/ Arm(c)

Next ==
    \/ pf_lldp_init
    \/ \E send \in BOOLEAN : pf_lldp_tx_restart(send)
    \/ pf_lldp_send
    \/ \E t \in TimerIds : Expire(t)
    \/ \E c \in Contexts : Continue(c)

\* A due timeout is fired by the scheduler's periodic tick, and a call
\* under way runs to its end (nothing in it blocks).  The app's calls
\* are its own choice and get no fairness.
Fairness ==
    /\ WF_vars(\E t \in TimerIds : Expire(t))
    /\ \A c \in Contexts : WF_vars(Continue(c))

Spec == Init /\ [][Next]_vars /\ Fairness

-----------------------------------------------------------------------------
(***************************************************************************)
(* Properties                                                              *)
(***************************************************************************)

Initialised == pc["app"] # "uninit"

\* Context c is inside a call that will arm the timeout when it returns.
WillArm(c) == pc[c] = "arm" \/ (pc[c] = "send" /\ rearm[c])
Busy == {c \in Contexts : WillArm(c)}

\* From pf_lldp_init on there is exactly one LLDP timer chain: one timeout
\* queued, or one call (a restart or the timeout's callback) under way
\* that will arm it; and a queued timeout is the one under the stored
\* handle, so that pf_lldp_tx_restart can remove it.  Two chains would
\* double the transmission rate for good; none would stop it.
TimerChain ==
    /\ Cardinality(pending) + Cardinality(Busy) = IF Initialised THEN 1 ELSE 0
    /\ pending \subseteq {handle}

\* Each pf_lldp_send sends at most one frame per port, and when the
\* iterator answers 0 it has sent on every port whose frame can be built:
\* a failed build or the end sentinel must neither stop the round early
\* nor add a port.
SendRoundStep ==
    \A c \in Contexts :
       /\ (pc[c] = "send" /\ pc'[c] # "send") => round[c] = Ports \ Oversized
       /\ (pc[c] = "send" /\ it'[c] # it[c]) => txEvt' \cap round[c] = {}

SendRoundComplete == [][SendRoundStep]_vars

\* Once initialised, every port whose frame can be built is advertised
\* again and again by the periodic timeout, unless the app calls
\* pf_lldp_tx_restart(FALSE) forever (each call postpones the timeout).
EveryPortAdvertised ==
    \A p \in Ports \ Oversized :
       (<>Initialised /\ <>[][~pf_lldp_tx_restart(FALSE)]_vars)
          => []<>(p \in txEvt)

-----------------------------------------------------------------------------
(***************************************************************************)
(* The inductive invariant of the proofs (LLDPTxProofs).                   *)
(***************************************************************************)

\* A context is inside a call.
Active(c) == pc[c] \in {"send", "arm"}

\* Before pf_lldp_init no timeout exists and the scheduler runs no LLDP
\* callback.
PreInit == ~Initialised => pending = {} /\ ~Active("sched")

\* The timer chain after pf_lldp_init: either the timeout under the handle
\* is queued and no call will arm, or nothing is queued and exactly one
\* context will arm.
ChainInv ==
    Initialised =>
       \/ pending = {handle} /\ ~WillArm("app") /\ ~WillArm("sched")
       \/ pending = {} /\ WillArm("app") # WillArm("sched")

\* The ports a pf_lldp_send under way has sent on are exactly the
\* buildable ones its iterator has passed.
RoundInv ==
    \A c \in Contexts :
       pc[c] = "send" => round[c] = {q \in Ports \ Oversized : q < it[c]}

\* TxInv: the strengthening of TimerChain and SendRoundComplete that every
\* step of Next preserves, when the two contexts share one thread.
TxInv ==
    /\ TypeOK
    /\ PreInit
    /\ Serialized => ~(Active("app") /\ Active("sched"))
    /\ Serialized => ChainInv
    /\ RoundInv

-----------------------------------------------------------------------------
(***************************************************************************)
(* Refinement of LLDPTxAbstract.  The token of the abstract chain is a     *)
(* queued timeout or a context that will arm; a call is under way while   *)
(* a context is inside one; the ports still to send are the buildable     *)
(* ones the pf_lldp_send under way has not sent on.                        *)
(***************************************************************************)
Todo(c) == IF pc[c] = "send" THEN (Ports \ Oversized) \ round[c] ELSE {}

Abs == INSTANCE LLDPTxAbstract
         WITH Buildable <- Ports \ Oversized,
              started <- Initialised,
              queued <- pending # {},
              arming <- WillArm("app") \/ WillArm("sched"),
              busy <- Active("app") \/ Active("sched"),
              todo <- Todo("app") \cup Todo("sched")

\* On one thread the scheduler implements the one-token timer chain: every
\* pf_lldp_init, pf_lldp_tx_restart, timeout and step of a send loop or an
\* arm is a step of LLDPTxAbstract, so a restart or a fired timeout never
\* leaves a second timeout queued, and a send round returns only when it
\* has sent once on every buildable port.
RefinesAbstract == Abs!ASpec

=============================================================================
