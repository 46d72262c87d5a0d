--------------------------- MODULE LLDPTxAbstract ---------------------------
(***************************************************************************)
(* What the LLDP Transmission Scheduler promises (pf_lldp.h, spec 4.2):    *)
(* after pf_lldp_init there is one timer chain, a token that is either a   *)
(* timeout queued in the scheduler or a call under way that will arm the   *)
(* next one; a restart takes the token from the queue, the timeout takes   *)
(* it when it fires, and arming puts it back.  A call sends on each port   *)
(* of its round at most once and returns only when none is left.  Ports,  *)
(* iterators, handles and the two contexts are not visible here; LLDPTx   *)
(* implements this specification on one thread.                           *)
(***************************************************************************)
CONSTANT Buildable   \* the ports whose LLDP frame can be built

VARIABLES
    started,  \* pf_lldp_init has run
    queued,   \* an LLDP timeout is queued in the scheduler
    arming,   \* the call under way will arm the timeout when it returns
    busy,     \* a call (a send round or an arm) is under way
    todo,     \* the ports the call under way has still to send on
    txEvt     \* the ports a frame was handed to the transport for, this step

avars == <<started, queued, arming, busy, todo, txEvt>>

AInit ==
    /\ started = FALSE
    /\ queued = FALSE
    /\ arming = FALSE
    /\ busy = FALSE
    /\ todo = {}
    /\ txEvt = {}

\* A call starts: a send round over `round` ports, to arm after it or not.
Call(round, arm) ==
    /\ busy' = TRUE
    /\ todo' = round
    /\ arming' = arm
    /\ txEvt' = {}

\* pf_lldp_init and pf_lldp_tx_restart(send): the queued timeout, if any,
\* is taken out of the queue by the call that will arm the next one.
ARestart(send) ==
    /\ ~busy
    /\ queued' = FALSE
    /\ started' = TRUE
    /\ Call(IF send THEN Buildable ELSE {}, TRUE)

\* pf_lldp_send called by the app: the chain is left alone.
ASend ==
    /\ started
    /\ ~busy
    /\ Call(Buildable, FALSE)
    /\ UNCHANGED <<started, queued>>

\* The queued timeout fires and its callback takes the token.
AFire ==
    /\ queued
    /\ ~busy
    /\ queued' = FALSE
    /\ Call(Buildable, TRUE)
    /\ UNCHANGED started

\* The call under way sends a frame on port p of its round.
ATransmit(p) ==
    /\ busy
    /\ p \in todo
    /\ todo' = todo \ {p}
    /\ txEvt' = {p}
    /\ UNCHANGED <<started, queued, arming, busy>>

\* A step of the call under way that sends nothing and keeps its round.
AQuiet ==
    /\ busy
    /\ txEvt' = {}
    /\ UNCHANGED <<started, queued, arming, busy, todo>>

\* The call returns once its round is done, arming the timeout if it
\* holds the token.
AReturn ==
    /\ busy
    /\ todo = {}
    /\ busy' = FALSE
    /\ arming' = FALSE
    /\ queued' = (queued \/ arming)
    /\ txEvt' = {}
    /\ UNCHANGED <<started, todo>>

ACall == (\E p \in Buildable : ATransmit(p)) \/ AQuiet \/ AReturn

ANext ==
    \/ \E send \in BOOLEAN : ARestart(send)
    \/ ASend
    \/ AFire
    \/ ACall

\* The safety part: the steps the chain may take.
ASafety == AInit /\ [][ANext]_avars

\* The queued timeout is fired, and a call under way keeps stepping.
ASpec == ASafety /\ WF_avars(AFire) /\ WF_avars(ACall)

=============================================================================
