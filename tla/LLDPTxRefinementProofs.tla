----------------------- MODULE LLDPTxRefinementProofs -----------------------
(***************************************************************************)
(* On one thread the LLDP Transmission Scheduler (LLDPTx) implements the   *)
(* one-token timer chain of LLDPTxAbstract, for every number of ports,     *)
(* every set of unbuildable ports and every size of the timeout table.     *)
(* Each step of LLDPTx is shown to be a step of the abstract chain from    *)
(* the inductive invariant TxInv of LLDPTxProofs: the two contexts are     *)
(* never both inside a call (so at most one Todo is non-empty), ChainInv   *)
(* says which of the queue and the arming call holds the token, and        *)
(* RoundInv says which ports the send loop has still to visit.             *)
(***************************************************************************)
EXTENDS LLDPTxProofs

\* A context not inside pf_lldp_send has no port left to send on.
LEMMA TodoIdle ==
    ASSUME NEW c, pc[c] # "send"
    PROVE  Todo(c) = {}
BY DEF Todo

\* On one thread, a context inside a call is the only one: the other one
\* is not inside a call and has no port left to send on.
LEMMA OtherQuiet ==
    ASSUME TxInv, Serialized, NEW c \in Contexts, Active(c)
    PROVE  /\ ~Active(Other(c))
           /\ ~WillArm(Other(c))
           /\ Todo(Other(c)) = {}
BY ContextsFacts DEF TxInv, Active, WillArm, Todo

\* The initial state of the scheduler is the initial state of the chain.
LEMMA InitRefines == Init => Abs!AInit
BY ContextsFacts DEF Init, Abs!AInit, Initialised, WillArm, Active, Todo

\* pf_lldp_init and pf_lldp_tx_restart(send) are the restart of the chain:
\* the queue is emptied and the app takes the token.
LEMMA RestartRefines ==
    ASSUME TxInv, Serialized, NEW send \in BOOLEAN,
           pc["app"] \in {"uninit", "idle"}, MayStart("app"), Restart(send)
    PROVE  Abs!ARestart(send)
<1>. USE ContextsFacts
<1>1. /\ pc' = [pc EXCEPT !["app"] = IF send THEN "send" ELSE "arm"]
      /\ rearm' = [rearm EXCEPT !["app"] = TRUE]
      /\ round' = [round EXCEPT !["app"] = {}]
      /\ pending' = pending \ {handle}
      /\ txEvt' = {}
  BY DEF Restart, BeginSend
<1>2. pc["sched"] = "idle" /\ ~Active("app") /\ ~Active("sched")
  BY DEF MayStart, TxInv, TypeOK, Pcs, Active
<1>3. pending \subseteq {handle}
  BY <1>2 DEF TxInv, PreInit, ChainInv, WillArm
<1>4. /\ Active("app")' /\ WillArm("app")' /\ ~WillArm("sched")'
      /\ Initialised'
  BY <1>1, <1>2 DEF TxInv, TypeOK, Active, WillArm, Initialised
<1>5. Todo("app")' \cup Todo("sched")' = IF send THEN Ports \ Oversized ELSE {}
  BY <1>1, <1>2 DEF TxInv, TypeOK, Todo
<1>. QED BY <1>1, <1>2, <1>3, <1>4, <1>5 DEF Abs!ARestart, Abs!Call

\* pf_lldp_send called by the app is a call that leaves the chain alone.
LEMMA DirectSendRefines ==
    ASSUME TxInv, Serialized, pf_lldp_send
    PROVE  Abs!ASend
<1>. USE ContextsFacts
<1>1. /\ pc' = [pc EXCEPT !["app"] = "send"]
      /\ rearm' = [rearm EXCEPT !["app"] = FALSE]
      /\ round' = [round EXCEPT !["app"] = {}]
      /\ UNCHANGED <<pending, handle>>
      /\ txEvt' = {}
  BY DEF pf_lldp_send, BeginSend
<1>2. pc["app"] = "idle" /\ pc["sched"] = "idle"
  BY DEF pf_lldp_send, MayStart, TxInv, TypeOK, Pcs
<1>3. /\ Initialised /\ Initialised'
      /\ ~Active("app") /\ ~Active("sched") /\ Active("app")'
      /\ ~WillArm("app")' /\ ~WillArm("sched")'
  BY <1>1, <1>2 DEF TxInv, TypeOK, Active, WillArm, Initialised
<1>4. Todo("app")' \cup Todo("sched")' = Ports \ Oversized
  BY <1>1, <1>2 DEF TxInv, TypeOK, Todo
<1>. QED BY <1>1, <1>3, <1>4 DEF Abs!ASend, Abs!Call

\* The timeout firing is the queue handing the token to the callback.
LEMMA ExpireRefines ==
    ASSUME TxInv, Serialized, NEW t \in TimerIds, Expire(t)
    PROVE  Abs!AFire
<1>. USE ContextsFacts
<1>1. /\ pc' = [pc EXCEPT !["sched"] = "send"]
      /\ rearm' = [rearm EXCEPT !["sched"] = TRUE]
      /\ round' = [round EXCEPT !["sched"] = {}]
      /\ pending' = pending \ {t}
      /\ txEvt' = {}
      /\ t \in pending
  BY DEF Expire, BeginSend
<1>2. pc["sched"] = "idle" /\ pc["app"] \in {"idle", "uninit"}
  BY DEF Expire, MayStart
<1>3. Initialised
  BY <1>1, <1>2 DEF TxInv, PreInit
<1>4. pending = {t}
  BY <1>1, <1>2, <1>3 DEF TxInv, ChainInv, WillArm
<1>5. /\ ~Active("app") /\ ~Active("sched") /\ Active("sched")'
      /\ WillArm("sched")' /\ Initialised' = Initialised
  BY <1>1, <1>2 DEF TxInv, TypeOK, Active, WillArm, Initialised
<1>6. Todo("app")' \cup Todo("sched")' = Ports \ Oversized
  BY <1>1, <1>2 DEF TxInv, TypeOK, Todo
<1>. QED BY <1>1, <1>4, <1>5, <1>6 DEF Abs!AFire, Abs!Call

\* One turn of the send loop that hands port p = it[c] to the transport is
\* the transmission of a port still to send: RoundInv says p is not yet in
\* the round.
LEMMA SendFrameRefines ==
    ASSUME TxInv, Serialized, NEW c \in Contexts, SendFrame(c)
    PROVE  Abs!ATransmit(it[c])
<1>. USE ContextsFacts
<1>1. /\ pc[c] = "send" /\ NextPort(it[c]) # 0 /\ NextPort(it[c]) \notin Oversized
      /\ it[c] \in Iterators
  BY DEF SendFrame, TxInv, TypeOK
<1>2. it[c] \in Ports /\ NextPort(it[c]) = it[c]
  BY <1>1, IterStep
<1>3. /\ round' = [round EXCEPT ![c] = @ \cup {it[c]}]
      /\ txEvt' = {it[c]}
      /\ UNCHANGED <<pc, rearm, pending, handle>>
  BY <1>2 DEF SendFrame
<1>4. round[c] = {q \in Ports \ Oversized : q < it[c]}
  BY <1>1 DEF TxInv, RoundInv
<1>5. /\ it[c] \in Todo(c)
      /\ Todo(c)' = Todo(c) \ {it[c]}
  <2>1. it[c] \in Ports \ Oversized /\ it[c] \notin round[c]
    BY <1>1, <1>2, <1>4 DEF Ports
  <2>2. round'[c] = round[c] \cup {it[c]} /\ pc'[c] = "send"
    BY <1>1, <1>3 DEF TxInv, TypeOK
  <2>. QED BY <1>1, <2>1, <2>2 DEF Todo
<1>6. /\ Active(c) /\ pc'[Other(c)] = pc[Other(c)]
  BY <1>1, <1>3 DEF Active
<1>7. /\ Todo(Other(c)) = {} /\ Todo(Other(c))' = {}
  BY <1>1, <1>3, <1>6, OtherQuiet DEF Todo, Active
<1>8. Todo("app")' \cup Todo("sched")' = (Todo("app") \cup Todo("sched")) \ {it[c]}
      /\ it[c] \in Todo("app") \cup Todo("sched")
  BY <1>5, <1>7 DEF Other
<1>9. /\ UNCHANGED <<Active("app"), Active("sched")>>
      /\ UNCHANGED <<WillArm("app"), WillArm("sched"), Initialised>>
  BY <1>3 DEF Active, WillArm, Initialised
<1>. QED BY <1>3, <1>6, <1>8, <1>9 DEF Abs!ATransmit

\* A build that would overflow sends nothing and keeps the round: a quiet
\* step of the call.
LEMMA BuildFailsRefines ==
    ASSUME TxInv, Serialized, NEW c \in Contexts, BuildFails(c)
    PROVE  Abs!AQuiet
<1>. USE ContextsFacts
<1>1. /\ pc[c] = "send" /\ txEvt' = {}
      /\ UNCHANGED <<pc, rearm, round, pending, handle>>
  BY DEF BuildFails
<1>2. Active(c)
  BY <1>1 DEF Active
<1>3. /\ UNCHANGED <<Active("app"), Active("sched")>>
      /\ UNCHANGED <<WillArm("app"), WillArm("sched"), Initialised>>
      /\ UNCHANGED <<Todo("app"), Todo("sched")>>
  BY <1>1 DEF Active, WillArm, Initialised, Todo
<1>. QED BY <1>1, <1>2, <1>3 DEF Abs!AQuiet, Active

\* pf_lldp_send returning has visited every port, so nothing is left to
\* send: after a restart or a timeout it goes on to arm (a quiet step, the
\* token stays with the call), after a direct call it returns (the chain
\* is left as it was).
LEMMA SendDoneRefines ==
    ASSUME TxInv, Serialized, NEW c \in Contexts, SendDone(c)
    PROVE  IF rearm[c] THEN Abs!AQuiet ELSE Abs!AReturn
<1>. USE ContextsFacts
<1>1. /\ pc[c] = "send" /\ NextPort(it[c]) = 0
      /\ pc' = [pc EXCEPT ![c] = IF rearm[c] THEN "arm" ELSE "idle"]
      /\ txEvt' = {}
      /\ UNCHANGED <<it, rearm, round, pending, handle>>
  BY DEF SendDone
<1>2. Todo(c) = {}
  <2>1. round[c] = {q \in Ports \ Oversized : q < it[c]}
    BY <1>1 DEF TxInv, RoundInv
  <2>2. round[c] = Ports \ Oversized
    BY <1>1, <2>1, RoundEnds DEF TxInv, TypeOK
  <2>. QED BY <1>1, <2>2 DEF Todo
<1>3. /\ Active(c)
      /\ ~Active(Other(c)) /\ ~WillArm(Other(c)) /\ Todo(Other(c)) = {}
      /\ pc'[Other(c)] = pc[Other(c)]
  BY <1>1, OtherQuiet DEF Active, TxInv, TypeOK
<1>4. /\ Todo(c)' = {}
      /\ Todo(Other(c))' = {}
      /\ ~Active(Other(c))' /\ ~WillArm(Other(c))'
  BY <1>1, <1>3 DEF Todo, Active, WillArm, TxInv, TypeOK
<1>5. UNCHANGED Initialised
  BY <1>1 DEF Initialised, TxInv, TypeOK
<1>6. Todo("app") \cup Todo("sched") = {}
      /\ Todo("app")' \cup Todo("sched")' = {}
  BY <1>2, <1>3, <1>4 DEF Other
<1>7. CASE rearm[c]
  <2>1. Active(c)' /\ WillArm(c) /\ WillArm(c)'
    BY <1>1, <1>7 DEF Active, WillArm, TxInv, TypeOK
  <2>2. /\ UNCHANGED (Active("app") \/ Active("sched"))
        /\ UNCHANGED (WillArm("app") \/ WillArm("sched"))
    BY <1>3, <1>4, <2>1 DEF Other
  <2>. QED BY <1>1, <1>3, <1>5, <1>6, <1>7, <2>2 DEF Abs!AQuiet
<1>8. CASE ~rearm[c]
  <2>1. ~Active(c)' /\ ~WillArm(c) /\ ~WillArm(c)'
    BY <1>1, <1>8 DEF Active, WillArm, TxInv, TypeOK
  <2>2. /\ ~(Active("app") \/ Active("sched"))'
        /\ ~(WillArm("app") \/ WillArm("sched"))
        /\ ~(WillArm("app") \/ WillArm("sched"))'
    BY <1>3, <1>4, <2>1 DEF Other
  <2>. QED BY <1>1, <1>3, <1>5, <1>6, <1>8, <2>2 DEF Abs!AReturn
<1>. QED BY <1>7, <1>8

\* pf_scheduler_add at the end of a restart or of the timeout callback is
\* the call returning the token to the queue.
LEMMA ArmRefines ==
    ASSUME TxInv, Serialized, NEW c \in Contexts, Arm(c)
    PROVE  Abs!AReturn
<1>. USE ContextsFacts
<1>1. /\ pc[c] = "arm" /\ pc' = [pc EXCEPT ![c] = "idle"]
      /\ pending' # {}
      /\ txEvt' = {}
      /\ UNCHANGED <<it, rearm, round>>
  BY DEF Arm
<1>2. /\ Active(c) /\ WillArm(c) /\ ~Active(c)' /\ ~WillArm(c)'
      /\ Todo(c) = {} /\ Todo(c)' = {}
  BY <1>1 DEF Active, WillArm, Todo, TxInv, TypeOK
<1>3. /\ ~Active(Other(c)) /\ ~WillArm(Other(c)) /\ Todo(Other(c)) = {}
      /\ pc'[Other(c)] = pc[Other(c)]
  BY <1>1, <1>2, OtherQuiet DEF TxInv, TypeOK
<1>4. /\ ~Active(Other(c))' /\ ~WillArm(Other(c))' /\ Todo(Other(c))' = {}
  BY <1>1, <1>3 DEF Todo, Active, WillArm
<1>5. UNCHANGED Initialised
  BY <1>1 DEF Initialised, TxInv, TypeOK
<1>6. /\ (Active("app") \/ Active("sched"))
      /\ ~(Active("app") \/ Active("sched"))'
      /\ (WillArm("app") \/ WillArm("sched"))
      /\ ~(WillArm("app") \/ WillArm("sched"))'
      /\ Todo("app") \cup Todo("sched") = {}
      /\ Todo("app")' \cup Todo("sched")' = {}
  BY <1>2, <1>3, <1>4 DEF Other
<1>. QED BY <1>1, <1>5, <1>6 DEF Abs!AReturn

\* On one thread the scheduler implements the abstract timer chain: from
\* its initial state, every pf_lldp_init, pf_lldp_tx_restart, direct
\* pf_lldp_send, timeout and step of a send loop or of an arm is a step of
\* LLDPTxAbstract or leaves its variables alone.  This is the safety part
\* of RefinesAbstract; its fairness part is checked by TLC.
THEOREM TxRefinement ==
    ASSUME Serialized
    PROVE  Spec => Abs!ASafety
<1>1. Init => Abs!AInit
  BY InitRefines
<1>2. TxInv /\ [Next]_vars => [Abs!ANext]_Abs!avars
  <2>. SUFFICES ASSUME TxInv, [Next]_vars PROVE [Abs!ANext]_Abs!avars
    OBVIOUS
  <2>1. CASE pf_lldp_init
    BY <2>1, RestartRefines DEF pf_lldp_init, Abs!ANext
  <2>2. ASSUME NEW send \in BOOLEAN, pf_lldp_tx_restart(send)
        PROVE  [Abs!ANext]_Abs!avars
    BY <2>2, RestartRefines DEF pf_lldp_tx_restart, Abs!ANext
  <2>3. CASE pf_lldp_send
    BY <2>3, DirectSendRefines DEF Abs!ANext
  <2>4. ASSUME NEW t \in TimerIds, Expire(t)
        PROVE  [Abs!ANext]_Abs!avars
    BY <2>4, ExpireRefines DEF Abs!ANext
  <2>5. ASSUME NEW c \in Contexts, SendFrame(c)
        PROVE  [Abs!ANext]_Abs!avars
    <3>1. it[c] \in Ports \ Oversized
      <4>1. it[c] \in Iterators /\ NextPort(it[c]) # 0 /\ NextPort(it[c]) \notin Oversized
        BY <2>5 DEF SendFrame, TxInv, TypeOK
      <4>. QED BY <4>1, IterStep
    <3>. QED BY <2>5, <3>1, SendFrameRefines DEF Abs!ANext, Abs!ACall
  <2>6. ASSUME NEW c \in Contexts, BuildFails(c)
        PROVE  [Abs!ANext]_Abs!avars
    BY <2>6, BuildFailsRefines DEF Abs!ANext, Abs!ACall
  <2>7. ASSUME NEW c \in Contexts, SendDone(c)
        PROVE  [Abs!ANext]_Abs!avars
    BY <2>7, SendDoneRefines DEF Abs!ANext, Abs!ACall
  <2>8. ASSUME NEW c \in Contexts, Arm(c)
        PROVE  [Abs!ANext]_Abs!avars
    BY <2>8, ArmRefines DEF Abs!ANext, Abs!ACall
  <2>9. CASE UNCHANGED vars
    BY <2>9 DEF vars, Abs!avars, Initialised, WillArm, Active, Todo
  <2>. QED BY <2>1, <2>2, <2>3, <2>4, <2>5, <2>6, <2>7, <2>8, <2>9
              DEF Next, Continue
<1>. QED BY <1>1, <1>2, TxInvariance, PTL DEF Spec, Abs!ASafety

=============================================================================
