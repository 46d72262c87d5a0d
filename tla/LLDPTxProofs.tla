---------------------------- MODULE LLDPTxProofs ----------------------------
(***************************************************************************)
(* Proofs about the LLDP Transmission Scheduler (LLDPTx), for every number *)
(* of ports, every set of ports whose frame overflows and every size of    *)
(* the timeout table.  The argument rests on TxInv (LLDPTx): on one thread *)
(* at most one context is inside a call, the timer chain is in one of the  *)
(* cases of ChainInv, and a send loop under way has sent exactly on the    *)
(* buildable ports its iterator has passed (RoundInv).                     *)
(***************************************************************************)
EXTENDS LLDPTx, FiniteSets, FiniteSetTheorems, TLAPS

\* The two contexts are distinct, and Other names the other one.
LEMMA ContextsFacts ==
    /\ Contexts = {"app", "sched"}
    /\ "app" # "sched"
    /\ Other("app") = "sched"
    /\ Other("sched") = "app"
BY DEF Contexts, Other

\* A fresh iterator has passed no port.
LEMMA FreshRound ==
    {q \in Ports \ Oversized : q < InitIter} = {}
BY DEF Ports, InitIter

\* The step of a loop over port p = it: the buildable ports passed grow by
\* p exactly when p is buildable.
LEMMA RoundGrows ==
    ASSUME NEW i \in Ports
    PROVE  /\ i \notin Oversized =>
                 {q \in Ports \ Oversized : q < i + 1}
                   = {q \in Ports \ Oversized : q < i} \cup {i}
           /\ i \in Oversized =>
                 {q \in Ports \ Oversized : q < i + 1}
                   = {q \in Ports \ Oversized : q < i}
BY DEF Ports

\* An iterator that answers the 0 sentinel has passed every port.
LEMMA RoundEnds ==
    ASSUME NEW i \in Iterators, NextPort(i) = 0
    PROVE  {q \in Ports \ Oversized : q < i} = Ports \ Oversized
BY NumPortsAssumption DEF Iterators, NextPort, Ports

\* A port the iterator hands out is a port, and advancing stays in range.
LEMMA IterStep ==
    ASSUME NEW i \in Iterators, NextPort(i) # 0
    PROVE  /\ NextPort(i) = i
           /\ i \in Ports
           /\ Advance(i) = i + 1
           /\ Advance(i) \in Iterators
BY NumPortsAssumption DEF Iterators, NextPort, Advance, Ports

\* The initial state satisfies the inductive invariant.
LEMMA InitTxInv == Init => TxInv
BY NumPortsAssumption, TxAssumption, ContextsFacts, FreshRound
   DEF Init, TxInv, TypeOK, PreInit, ChainInv, RoundInv, Active, WillArm, Initialised,
       Pcs, Iterators, InitIter, Ports

\* pf_lldp_init and pf_lldp_tx_restart: the queued timeout is removed and
\* the app becomes the one context that will arm.
LEMMA RestartStep ==
    ASSUME TxInv, NEW send \in BOOLEAN, pc["app"] \in {"uninit", "idle"},
           MayStart("app"), Restart(send)
    PROVE  TxInv'
<1>. USE TxAssumption, NumPortsAssumption, ContextsFacts
<1>1. /\ pc' = [pc EXCEPT !["app"] = IF send THEN "send" ELSE "arm"]
      /\ it' = [it EXCEPT !["app"] = InitIter]
      /\ rearm' = [rearm EXCEPT !["app"] = TRUE]
      /\ round' = [round EXCEPT !["app"] = {}]
      /\ pending' = pending \ {handle}
      /\ handle' = 0
      /\ txEvt' = {}
  BY DEF Restart, BeginSend
<1>2. TypeOK'
  BY <1>1, NumPortsAssumption DEF TxInv, TypeOK, Pcs, Iterators, InitIter
<1>3. (Serialized => ~(Active("app") /\ Active("sched")))'
  BY <1>1 DEF TxInv, TypeOK, MayStart, Active
<1>4. (Serialized => ChainInv)'
  <2>. SUFFICES ASSUME Serialized PROVE ChainInv'
    OBVIOUS
  <2>1. ~WillArm("app") /\ ~Active("sched")
    BY DEF MayStart, WillArm, Active
  <2>2. pending = {} \/ pending = {handle}
    BY <2>1 DEF TxInv, PreInit, ChainInv, WillArm
  <2>3. pending' = {}
    BY <2>2, <1>1
  <2>4. WillArm("app")' /\ ~WillArm("sched")'
    BY <1>1, <2>1 DEF TxInv, TypeOK, WillArm, Active
  <2>5. Initialised'
    BY <1>1 DEF TxInv, TypeOK, Initialised
  <2>. QED BY <2>3, <2>4, <2>5 DEF ChainInv
<1>5. RoundInv'
  BY <1>1, FreshRound DEF TxInv, TypeOK, RoundInv
<1>6. PreInit'
  BY <1>1 DEF TxInv, TypeOK, PreInit, Initialised
<1>. QED BY <1>2, <1>3, <1>4, <1>5, <1>6 DEF TxInv

\* pf_lldp_send called directly: the app sends without arming.
LEMMA DirectSendStep ==
    ASSUME TxInv, pf_lldp_send
    PROVE  TxInv'
<1>. USE TxAssumption, NumPortsAssumption, ContextsFacts
<1>1. /\ pc' = [pc EXCEPT !["app"] = "send"]
      /\ it' = [it EXCEPT !["app"] = InitIter]
      /\ rearm' = [rearm EXCEPT !["app"] = FALSE]
      /\ round' = [round EXCEPT !["app"] = {}]
      /\ UNCHANGED <<pending, handle>>
      /\ txEvt' = {}
      /\ pc["app"] = "idle"
      /\ MayStart("app")
  BY DEF pf_lldp_send, BeginSend
<1>2. TypeOK'
  BY <1>1, NumPortsAssumption DEF TxInv, TypeOK, Pcs, Iterators, InitIter
<1>3. (Serialized => ~(Active("app") /\ Active("sched")))'
  BY <1>1 DEF TxInv, TypeOK, MayStart, Active
<1>4. (Serialized => ChainInv)'
  <2>. SUFFICES ASSUME Serialized PROVE ChainInv'
    OBVIOUS
  <2>1. ~WillArm("app") /\ ~WillArm("sched") /\ Initialised
    BY <1>1 DEF MayStart, WillArm, Initialised
  <2>2. pending = {handle}
    BY <2>1 DEF TxInv, ChainInv, WillArm
  <2>3. ~WillArm("app")' /\ ~WillArm("sched")' /\ Initialised'
    BY <1>1, <2>1 DEF TxInv, TypeOK, WillArm, Initialised
  <2>. QED BY <2>2, <2>3, <1>1 DEF ChainInv
<1>5. RoundInv'
  BY <1>1, FreshRound DEF TxInv, TypeOK, RoundInv
<1>6. PreInit'
  BY <1>1 DEF TxInv, TypeOK, PreInit, Initialised
<1>. QED BY <1>2, <1>3, <1>4, <1>5, <1>6 DEF TxInv

\* The scheduler fires the queued timeout: its callback becomes the one
\* context that will arm.
LEMMA ExpireStep ==
    ASSUME TxInv, NEW t \in TimerIds, Expire(t)
    PROVE  TxInv'
<1>. USE TxAssumption, NumPortsAssumption, ContextsFacts
<1>1. /\ pc' = [pc EXCEPT !["sched"] = "send"]
      /\ it' = [it EXCEPT !["sched"] = InitIter]
      /\ rearm' = [rearm EXCEPT !["sched"] = TRUE]
      /\ round' = [round EXCEPT !["sched"] = {}]
      /\ pending' = pending \ {t}
      /\ UNCHANGED handle
      /\ txEvt' = {}
      /\ pc["sched"] = "idle"
      /\ t \in pending
      /\ MayStart("sched")
  BY DEF Expire, BeginSend
<1>2. TypeOK'
  BY <1>1, NumPortsAssumption DEF TxInv, TypeOK, Pcs, Iterators, InitIter
<1>3. (Serialized => ~(Active("app") /\ Active("sched")))'
  BY <1>1 DEF TxInv, TypeOK, MayStart, Active
<1>4. (Serialized => ChainInv)'
  <2>. SUFFICES ASSUME Serialized PROVE ChainInv'
    OBVIOUS
  <2>1. Initialised
    BY <1>1 DEF TxInv, PreInit
  <2>2. ~WillArm("app") /\ ~WillArm("sched")
    BY <1>1 DEF MayStart, WillArm
  <2>3. pending = {handle} /\ t = handle
    BY <1>1, <2>1, <2>2 DEF TxInv, ChainInv
  <2>4. pending' = {}
    BY <1>1, <2>3
  <2>5. ~WillArm("app")' /\ WillArm("sched")' /\ Initialised'
    BY <1>1, <2>1, <2>2 DEF TxInv, TypeOK, WillArm, Initialised
  <2>. QED BY <2>4, <2>5 DEF ChainInv
<1>5. RoundInv'
  BY <1>1, FreshRound DEF TxInv, TypeOK, RoundInv
<1>6. PreInit'
  <2>1. Initialised
    BY <1>1 DEF TxInv, PreInit
  <2>. QED BY <1>1, <2>1 DEF TxInv, TypeOK, PreInit, Initialised
<1>. QED BY <1>2, <1>3, <1>4, <1>5, <1>6 DEF TxInv

\* One turn of a send loop that hands a frame to the transport.
LEMMA SendFrameStep ==
    ASSUME TxInv, NEW c \in Contexts, SendFrame(c)
    PROVE  TxInv'
<1>. USE TxAssumption, NumPortsAssumption, ContextsFacts
<1>1. /\ pc[c] = "send"
      /\ it[c] \in Iterators
      /\ NextPort(it[c]) # 0
      /\ it[c] \notin Oversized
  <2>1. pc[c] = "send" /\ NextPort(it[c]) # 0 /\ NextPort(it[c]) \notin Oversized
    BY DEF SendFrame
  <2>2. it[c] \in Iterators
    BY DEF TxInv, TypeOK
  <2>. QED BY <2>1, <2>2, IterStep
<1>2. /\ it[c] \in Ports
      /\ it' = [it EXCEPT ![c] = it[c] + 1]
      /\ it[c] + 1 \in Iterators
      /\ round' = [round EXCEPT ![c] = round[c] \cup {it[c]}]
      /\ txEvt' = {it[c]}
      /\ UNCHANGED <<pc, rearm, pending, handle>>
  BY <1>1, IterStep DEF SendFrame, TxInv, TypeOK
<1>3. TypeOK'
  BY <1>2 DEF TxInv, TypeOK
<1>4. (Serialized => ~(Active("app") /\ Active("sched")))'
  BY <1>2 DEF TxInv, Active
<1>5. (Serialized => ChainInv)'
  BY <1>2 DEF TxInv, ChainInv, WillArm, Active, Initialised
<1>7. PreInit'
  BY <1>2 DEF TxInv, PreInit, Active, Initialised
<1>6. RoundInv'
  <2>1. round'[c] = {q \in Ports \ Oversized : q < it'[c]}
    <3>1. round[c] = {q \in Ports \ Oversized : q < it[c]}
      BY <1>1 DEF TxInv, RoundInv
    <3>2. {q \in Ports \ Oversized : q < it[c] + 1}
            = {q \in Ports \ Oversized : q < it[c]} \cup {it[c]}
      BY <1>1, <1>2, RoundGrows
    <3>. QED BY <1>2, <3>1, <3>2 DEF TxInv, TypeOK
  <2>2. ASSUME NEW d \in Contexts, d # c
        PROVE  round'[d] = round[d] /\ it'[d] = it[d] /\ pc'[d] = pc[d]
    BY <1>2, <2>2 DEF TxInv, TypeOK
  <2>. QED BY <2>1, <2>2 DEF TxInv, RoundInv
<1>. QED BY <1>3, <1>4, <1>5, <1>6, <1>7 DEF TxInv

\* One turn of a send loop over a port whose frame overflows.
LEMMA BuildFailsStep ==
    ASSUME TxInv, NEW c \in Contexts, BuildFails(c)
    PROVE  TxInv'
<1>. USE TxAssumption, NumPortsAssumption, ContextsFacts
<1>1. /\ pc[c] = "send"
      /\ it[c] \in Iterators
      /\ NextPort(it[c]) # 0
      /\ it[c] \in Oversized
  <2>1. pc[c] = "send" /\ NextPort(it[c]) # 0 /\ NextPort(it[c]) \in Oversized
    BY DEF BuildFails
  <2>2. it[c] \in Iterators
    BY DEF TxInv, TypeOK
  <2>. QED BY <2>1, <2>2, IterStep
<1>2. /\ it[c] \in Ports
      /\ it' = [it EXCEPT ![c] = it[c] + 1]
      /\ it[c] + 1 \in Iterators
      /\ txEvt' = {}
      /\ UNCHANGED <<pc, rearm, round, pending, handle>>
  BY <1>1, IterStep DEF BuildFails, TxInv, TypeOK
<1>3. TypeOK'
  BY <1>2 DEF TxInv, TypeOK
<1>4. (Serialized => ~(Active("app") /\ Active("sched")))'
  BY <1>2 DEF TxInv, Active
<1>5. (Serialized => ChainInv)'
  BY <1>2 DEF TxInv, ChainInv, WillArm, Active, Initialised
<1>7. PreInit'
  BY <1>2 DEF TxInv, PreInit, Active, Initialised
<1>6. RoundInv'
  <2>1. round'[c] = {q \in Ports \ Oversized : q < it'[c]}
    <3>1. round[c] = {q \in Ports \ Oversized : q < it[c]}
      BY <1>1 DEF TxInv, RoundInv
    <3>2. {q \in Ports \ Oversized : q < it[c] + 1}
            = {q \in Ports \ Oversized : q < it[c]}
      BY <1>1, <1>2, RoundGrows
    <3>. QED BY <1>2, <3>1, <3>2 DEF TxInv, TypeOK
  <2>2. ASSUME NEW d \in Contexts, d # c
        PROVE  round'[d] = round[d] /\ it'[d] = it[d] /\ pc'[d] = pc[d]
    BY <1>2, <2>2 DEF TxInv, TypeOK
  <2>. QED BY <2>1, <2>2 DEF TxInv, RoundInv
<1>. QED BY <1>3, <1>4, <1>5, <1>6, <1>7 DEF TxInv

\* The iterator answers 0: the loop returns to an arm or to its caller.
LEMMA SendDoneStep ==
    ASSUME TxInv, NEW c \in Contexts, SendDone(c)
    PROVE  TxInv'
<1>. USE TxAssumption, NumPortsAssumption, ContextsFacts
<1>1. /\ pc[c] = "send"
      /\ pc' = [pc EXCEPT ![c] = IF rearm[c] THEN "arm" ELSE "idle"]
      /\ txEvt' = {}
      /\ UNCHANGED <<it, rearm, round, pending, handle>>
  BY DEF SendDone
<1>2. /\ WillArm(c)' = WillArm(c)
      /\ Active(c)' => Active(c)
      /\ \A d \in Contexts : d # c => pc'[d] = pc[d]
  BY <1>1 DEF TxInv, TypeOK, WillArm, Active
<1>3. Initialised
  BY <1>1 DEF TxInv, PreInit, Initialised, Active
<1>4. TypeOK'
  BY <1>1 DEF TxInv, TypeOK, Pcs
<1>5. (Serialized => ~(Active("app") /\ Active("sched")))'
  BY <1>2 DEF TxInv, Active
<1>6. (Serialized => ChainInv)'
  <2>. SUFFICES ASSUME Serialized PROVE ChainInv'
    OBVIOUS
  <2>1. WillArm("app")' = WillArm("app") /\ WillArm("sched")' = WillArm("sched")
    BY <1>1, <1>2 DEF WillArm
  <2>2. Initialised'
    BY <1>1, <1>3 DEF TxInv, TypeOK, Initialised
  <2>. QED BY <1>1, <1>3, <2>1, <2>2 DEF TxInv, ChainInv
<1>7. RoundInv'
  BY <1>1 DEF TxInv, TypeOK, RoundInv
<1>8. PreInit'
  BY <1>1, <1>3 DEF TxInv, TypeOK, PreInit, Initialised
<1>. QED BY <1>4, <1>5, <1>6, <1>7, <1>8 DEF TxInv

\* The timeout is armed: it is queued under the stored handle and no
\* context will arm any more.
LEMMA ArmStep ==
    ASSUME TxInv, NEW c \in Contexts, Arm(c)
    PROVE  TxInv'
<1>. USE TxAssumption, NumPortsAssumption, ContextsFacts
<1>1. PICK t \in TimerIds \ pending :
         /\ pending' = pending \cup {t}
         /\ handle' = t
  BY DEF Arm
<1>2. /\ pc[c] = "arm"
      /\ pc' = [pc EXCEPT ![c] = "idle"]
      /\ txEvt' = {}
      /\ UNCHANGED <<it, rearm, round>>
  BY DEF Arm
<1>3. TypeOK'
  BY <1>1, <1>2 DEF TxInv, TypeOK, Pcs, TimerIds
<1>4. (Serialized => ~(Active("app") /\ Active("sched")))'
  BY <1>2 DEF TxInv, TypeOK, Active
<1>5. (Serialized => ChainInv)'
  <2>. SUFFICES ASSUME Serialized PROVE ChainInv'
    OBVIOUS
  <2>1. Initialised /\ WillArm(c)
    BY <1>2 DEF TxInv, PreInit, Initialised, Active, WillArm
  <2>2. pending = {} /\ ~WillArm(Other(c))
    BY <2>1 DEF TxInv, ChainInv, WillArm, Contexts
  <2>3. pending' = {handle'}
    BY <1>1, <2>2
  <2>4. ~WillArm("app")' /\ ~WillArm("sched")' /\ Initialised'
    <3>1. ~WillArm(c)'
      BY <1>2 DEF TxInv, TypeOK, WillArm
    <3>2. pc'[Other(c)] = pc[Other(c)] /\ rearm'[Other(c)] = rearm[Other(c)]
      BY <1>2 DEF TxInv, TypeOK, Contexts
    <3>3. ~WillArm(Other(c))'
      BY <2>2, <3>2 DEF WillArm
    <3>4. Initialised'
      BY <1>2, <2>1 DEF TxInv, TypeOK, Initialised
    <3>. QED BY <3>1, <3>3, <3>4 DEF Contexts
  <2>. QED BY <2>3, <2>4 DEF ChainInv
<1>6. RoundInv'
  BY <1>2 DEF TxInv, TypeOK, RoundInv
<1>7. PreInit'
  <2>1. Initialised
    BY <1>2 DEF TxInv, PreInit, Initialised, Active
  <2>. QED BY <1>2, <2>1 DEF TxInv, TypeOK, PreInit, Initialised
<1>. QED BY <1>3, <1>4, <1>5, <1>6, <1>7 DEF TxInv

\* TxInv holds in every reachable state, on one thread or on two.
THEOREM TxInvariance == Spec => []TxInv
<1>1. Init => TxInv
  BY InitTxInv
<1>2. TxInv /\ [Next]_vars => TxInv'
  <2>. SUFFICES ASSUME TxInv, [Next]_vars PROVE TxInv'
    OBVIOUS
  <2>1. CASE pf_lldp_init
    BY <2>1, RestartStep DEF pf_lldp_init
  <2>2. CASE \E send \in BOOLEAN : pf_lldp_tx_restart(send)
    BY <2>2, RestartStep DEF pf_lldp_tx_restart
  <2>3. CASE pf_lldp_send
    BY <2>3, DirectSendStep
  <2>4. CASE \E t \in TimerIds : Expire(t)
    BY <2>4, ExpireStep
  <2>5. CASE \E c \in Contexts : Continue(c)
    BY <2>5, SendFrameStep, BuildFailsStep, SendDoneStep, ArmStep DEF Continue
  <2>6. CASE UNCHANGED vars
    BY <2>6 DEF vars, TxInv, TypeOK, PreInit, ChainInv, RoundInv, WillArm,
              Active, Initialised
  <2>. QED BY <2>1, <2>2, <2>3, <2>4, <2>5, <2>6 DEF Next
<1>. QED BY <1>1, <1>2, PTL DEF Spec

\* The scheduler's variables keep their types: in particular the stored
\* handle is 0 or a handle of the timeout table, and a send loop's
\* iterator never passes N + 1.
THEOREM TxTypeCorrect == Spec => []TypeOK
BY TxInvariance, PTL DEF TxInv

\* Which contexts will arm, as a set.
LEMMA BusyCases ==
    /\ ~WillArm("app") /\ ~WillArm("sched") => Busy = {}
    /\ WillArm("app") /\ ~WillArm("sched") => Busy = {"app"}
    /\ ~WillArm("app") /\ WillArm("sched") => Busy = {"sched"}
BY ContextsFacts DEF Busy

\* On one thread, from pf_lldp_init on exactly one LLDP timer chain
\* exists and a queued timeout is the one under the stored handle: the
\* restart and the timeout callback never duplicate or lose the
\* periodic transmission.
THEOREM TimerChainHolds ==
    ASSUME Serialized
    PROVE  Spec => []TimerChain
<1>1. TxInv => TimerChain
  <2>. SUFFICES ASSUME TxInv PROVE TimerChain
    OBVIOUS
  <2>1. CASE ~Initialised
    <3>1. pending = {} /\ ~WillArm("app") /\ ~WillArm("sched")
      BY <2>1 DEF TxInv, PreInit, Initialised, Active, WillArm
    <3>2. Busy = {}
      BY <3>1, BusyCases
    <3>. QED BY <2>1, <3>1, <3>2, FS_EmptySet DEF TimerChain
  <2>2. CASE Initialised /\ pending = {handle}
                         /\ ~WillArm("app") /\ ~WillArm("sched")
    <3>1. Busy = {}
      BY <2>2, BusyCases
    <3>. QED BY <2>2, <3>1, FS_EmptySet, FS_Singleton DEF TimerChain
  <2>3. CASE Initialised /\ pending = {}
                         /\ WillArm("app") # WillArm("sched")
    <3>1. Busy = {"app"} \/ Busy = {"sched"}
      <4>1. (WillArm("app") /\ ~WillArm("sched"))
              \/ (~WillArm("app") /\ WillArm("sched"))
        BY <2>3 DEF WillArm
      <4>. QED BY <4>1, BusyCases
    <3>2. Cardinality(Busy) = 1
      BY <3>1, FS_Singleton
    <3>. QED BY <2>3, <3>2, FS_EmptySet DEF TimerChain
  <2>. QED BY <2>1, <2>2, <2>3 DEF TxInv, ChainInv
<1>. QED BY <1>1, TxInvariance, PTL

\* A step of a context other than c, or a start of a call (which needs c
\* between calls), leaves the program counter and iterator of a context
\* inside pf_lldp_send alone.
LEMMA SendUntouched ==
    ASSUME TxInv, [Next]_vars, NEW c \in Contexts, pc[c] = "send",
           ~SendFrame(c), ~BuildFails(c), ~SendDone(c)
    PROVE  pc'[c] = pc[c] /\ it'[c] = it[c]
<1>. USE ContextsFacts
<1>1. pc \in [Contexts -> Pcs] /\ it \in [Contexts -> Iterators]
      /\ rearm \in [Contexts -> BOOLEAN] /\ round \in [Contexts -> SUBSET Ports]
  BY DEF TxInv, TypeOK
<1>2. CASE pf_lldp_init \/ \E send \in BOOLEAN : pf_lldp_tx_restart(send)
              \/ pf_lldp_send
  <2>1. c = "sched"
    BY <1>2 DEF pf_lldp_init, pf_lldp_tx_restart, pf_lldp_send
  <2>2. /\ pc' = [pc EXCEPT !["app"] = pc'["app"]]
        /\ it' = [it EXCEPT !["app"] = InitIter]
    BY <1>2 DEF pf_lldp_init, pf_lldp_tx_restart, pf_lldp_send, Restart,
                BeginSend
  <2>. QED BY <1>1, <2>1, <2>2
<1>3. CASE \E t \in TimerIds : Expire(t)
  <2>1. c = "app"
    BY <1>3 DEF Expire
  <2>2. /\ pc' = [pc EXCEPT !["sched"] = "send"]
        /\ it' = [it EXCEPT !["sched"] = InitIter]
    BY <1>3 DEF Expire, BeginSend
  <2>. QED BY <1>1, <2>1, <2>2
<1>4. CASE \E d \in Contexts : Continue(d)
  <2>1. PICK d \in Contexts : Continue(d)
    BY <1>4
  <2>2. CASE d = c
    BY <2>1, <2>2 DEF Continue, Arm
  <2>3. CASE d # c
    <3>1. CASE SendFrame(d) \/ BuildFails(d)
      <4>1. pc' = pc /\ it' = [it EXCEPT ![d] = Advance(it[d])]
        BY <3>1 DEF SendFrame, BuildFails
      <4>. QED BY <1>1, <2>3, <4>1
    <3>2. CASE SendDone(d) \/ Arm(d)
      <4>1. pc' = [pc EXCEPT ![d] = pc'[d]] /\ it' = it
        BY <3>2 DEF SendDone, Arm
      <4>. QED BY <1>1, <2>3, <4>1
    <3>. QED BY <2>1, <3>1, <3>2 DEF Continue
  <2>. QED BY <2>2, <2>3
<1>5. CASE UNCHANGED vars
  BY <1>5 DEF vars
<1>. QED BY <1>2, <1>3, <1>4, <1>5 DEF Next

\* The step property of each context inside pf_lldp_send.
LEMMA RoundStepHolds ==
    ASSUME TxInv, [Next]_vars, NEW c \in Contexts, pc[c] = "send"
    PROVE  /\ pc'[c] # "send" => round[c] = Ports \ Oversized
           /\ it'[c] # it[c] => txEvt' \cap round[c] = {}
<1>. USE ContextsFacts
<1>1. round[c] = {q \in Ports \ Oversized : q < it[c]} /\ it[c] \in Iterators
  BY DEF TxInv, RoundInv, TypeOK
<1>2. CASE SendDone(c)
  <2>1. NextPort(it[c]) = 0 /\ it' = it
    BY <1>2 DEF SendDone
  <2>. QED BY <1>1, <2>1, RoundEnds
<1>3. CASE SendFrame(c)
  <2>1. NextPort(it[c]) # 0 /\ txEvt' = {NextPort(it[c])} /\ pc' = pc
    BY <1>3 DEF SendFrame
  <2>2. NextPort(it[c]) = it[c] /\ it[c] \in Ports
    BY <1>1, <2>1, IterStep
  <2>3. it[c] \notin round[c]
    BY <1>1, <2>2 DEF Ports
  <2>. QED BY <2>1, <2>2, <2>3
<1>4. CASE BuildFails(c)
  BY <1>4 DEF BuildFails
<1>5. CASE ~SendDone(c) /\ ~SendFrame(c) /\ ~BuildFails(c)
  BY <1>5, SendUntouched
<1>. QED BY <1>2, <1>3, <1>4, <1>5

\* Every pf_lldp_send, on one thread or on two, sends at most one frame
\* per port and returns only after sending on every port whose frame can
\* be built: neither a failed build nor the iterator's 0 sentinel cuts a
\* round short or adds a port.
THEOREM SendRoundCompleteHolds == Spec => SendRoundComplete
<1>1. TxInv /\ [Next]_vars => [SendRoundStep]_vars
  BY RoundStepHolds DEF SendRoundStep
<1>. QED BY <1>1, TxInvariance, PTL DEF Spec, SendRoundComplete

=============================================================================
