# Verification of the p-net LLDP component

This directory models the LLDP component of p-net (`src/src/common/pf_lldp.h`,
with the SNMP value-shaping test in `src/unnamed/part_000`) in TLA+. It checks the
models with TLC and proves their main safety properties with TLAPS. The header
holds the contracts of the component: the doc comments of each entry point and the
types of their outputs. The implementation of `pf_lldp_recv` (pf_lldp.c) is not
part of `src/`. The header's contract of `pf_lldp_recv` (store the information,
trigger alarms, return 0 or 1 and free the buffer on 1, `pf_lldp.h:414-425`) gives
`CommitRest` and the early returns. The port lock and the copy of the identity before
the rest (`CommitIdentity`) come from `spec.md` §4.3 and §5 and are marked
`spec_modelled` in `PROJECT.json`, as is the alarm test `IdentityReplaced`.

## 1. Inventory

### Components and how they interact

| Component | Entry points | State | Modelled in |
|---|---|---|---|
| Peer State Store | `pf_lldp_get_peer_*` (9 getters, l.66-390) | one record per port: content, `timestamp_10ms`, `valid` | `LLDPPeerData`, `LLDPPeer`, `LLDPPeerAbstract` |
| Frame Parser | `pf_lldp_recv` (l.414-425) | writes the record; return value 0/1 decides who frees the buffer; signals alarms | `LLDPPeer` (TLV walk abstracted) |
| Port Enumerator | `pf_lldp_get_port_list`, `pf_lldp_init_port_iterator`, `pf_lldp_get_next_port` (l.32-64) | iterator position | `LLDPPortIterator` |
| Transmission Scheduler | `pf_lldp_init`, `pf_lldp_send`, `pf_lldp_tx_restart` (l.392-412) | periodic timeout, its stored handle, the send loop | `LLDPTx` |
| Value Formatter | pf_snmp helpers tested in `part_000` | none (pure shaping over the store) | `SnmpFormat`, `LLDPSnmp` |
| Local getters | `pf_lldp_get_management_address`, `pf_lldp_get_link_status`, ... | immutable configuration | the two above in `LLDPSnmp`; the rest not modelled |
| TLV Codec / Frame Builder | internal to `pf_lldp_send` / `pf_lldp_recv` | none (transient frames) | abstracted (decoded content, `Oversized`) |
| Alias Name Generator | `pf_lldp_generate_alias_name` (l.429-433) | none (pure function) | not modelled |

Three execution contexts interact through the per-port peer records:
- **Receive context.** The Ethernet dispatcher hands a frame to `pf_lldp_recv`. The call
  declines the frame (returns 0, the caller keeps and frees the buffer) or takes it
  (returns 1 after freeing it). For a well-formed LLDPDU it compares the decoded
  content with the record. It copies the content under the port's lock. It sets the
  timestamp only when something changed. It signals the alarm collaborator when a
  known peer is replaced while an application relation (AR) is established.
- **Management context.** The getters each read one field under the same lock. They
  return -1 while the record is invalid.
- **Environment.**
  - The 10 ms tick counter (a `uint32_t`).
  - The AR state machine.
  - Link-down, which invalidates a record.
  - The stack scheduler, which fires the LLDP timeout; its callback runs
    `pf_lldp_send` and re-arms the timeout. The app calls `pf_lldp_init` and
    `pf_lldp_tx_restart`, which also send and re-arm.
- **Management helpers (pf_snmp).** They call the local and peer getters and
  shape the result for SNMP.

### Hard behaviours
- A getter racing the two-step copy of `pf_lldp_recv`.
- The buffer-ownership contract carried by the return value.
- The "identical info keeps its timestamp" rule, including re-reception after a link-down.
- The wrap of the `uint32_t` timestamp.
- An alarm that depends on the AR state and the previous record at the commit.
- `tx_restart` racing a timeout that has already fired.
- The 0 sentinel of the port iterator, and a failed build in the middle of a send round.
- Periodic sending going on for ever.
- The per-byte bit reversal of BITS, which the symmetric mask 0xF00F cannot tell from a nibble swap.

## 2. Modules

1. `LLDPPeerData`: the constants, the peer record, the getters' results and the
   comparisons of `pf_lldp_recv`. It extends `LLDPPortIterator` for the ports.
2. `LLDPPeer`: the store, `pf_lldp_recv`, the getters and the environment.
   `MC_LLDPPeer` instantiates it. `LLDPPeerProofs` holds its theorems.
3. `LLDPPeerAbstract`: what the store promises. Each reception is one atomic step on
   the record. `LLDPPeer` refines it through the mapping
   `peer <- AbsPeer = [p \in Ports |-> Stable(p)]`.
4. `LLDPPortIterator`: the ports and the iterator with its 0 sentinel.
5. `LLDPTx`: init, send, `tx_restart` and the timeout, in one thread or two.
   `MC_LLDPTx` instantiates it. `LLDPTxProofs` holds its theorems.
   `LLDPTxAbstract` states what it promises on one thread: a single timer-chain
   token and send rounds that visit each buildable port once.
   `LLDPTxRefinementProofs` proves that `LLDPTx` implements it.
6. `SnmpFormat`: TruthValue, the BITS byte reversal and the OCTET STRING management
   address, with reference decoders taken from the RFCs. `SnmpFormatProofs` proves
   that the encoders meet them for every input.
7. `LLDPSnmp`: the composition of the pf_snmp helpers with `LLDPPeer`.
   `MC_LLDPSnmp` instantiates it. `LLDPSnmpProofs` holds its theorems.

`LLDPTx` is not composed with `LLDPPeer`: the two share only the port set and
touch no common variable, so their product would add interleavings and no new
question.

## 3. LLDPPeer: correspondence with the code

State:
- `peer[p]`: the record of port p, with `content` (chassis id, port id and `info`), `ts`
  and `valid`. `info` stands for every other field: description, management address
  and interface index, station name, signal delays, link status.
- `lock[p]`: the port lock.
- `now`: the tick, modulo `TsWrap`.
- `ar`: whether an AR is established.
- `rx`: the receive context. It holds the stage, the port, the frame, the record before
  the commit, the return value and the number of times the buffer was released.
- `rd` and `alarmSignal`: the outputs of the current step (a getter result, the ports
  alarmed).

Actions:
- `FrameArrives(p, f)`: the dispatcher receives a frame.
- `pf_lldp_recv`: the two early returns. A frame with no LLDP sequence returns 0. A
  malformed TLV frees the buffer and returns 1 without touching the record.
- `CommitIdentity`, `CommitRest`: the well-formed path. The lock is held between the two
  steps, and the identity is copied before the rest.
- `CallerRelease`: the dispatcher frees the buffer if and only if the return value is 0.
- `pf_lldp_get_peer_*`: one action per getter, all through `PeerGet`.
- `Tick`, `ArChange`, `LinkDown(p)`: the environment.

`LLDPPeerAbstract` has the same records, `now`, `ar`, `rd` and `alarmSignal`. It has no
lock and no receive context. Its steps are:
- `Receive(p, c)`: the whole of a well-formed reception.
- `Read(p, g)`: a getter. Its first conjunct, `rd'.getter = g`, follows from the second; it makes TLC rule out the other getters before it compares values of different kinds.
- `ALinkDown(p)`, `ATick`, `AArChange`: the environment.
- `Internal`: a step that changes no record, such as a declined or malformed frame, a
  buffer release, or taking the lock.

The `Stable(p)` view maps the two are related by is the record before the frame while a
commit holds the lock, and `peer[p]` otherwise.

Every definition's source lines are in the `map` of `PROJECT.json`.

## 3a. LLDPPortIterator and LLDPTx: correspondence with the code

`LLDPPortIterator`:
- `Ports` is `pf_lldp_get_port_list`: `1..NumPorts`.
- An iterator value is the port the next `pf_lldp_get_next_port` call returns,
  `NumPorts + 1` once exhausted. `InitIter` is `pf_lldp_init_port_iterator`.
- `NextPort(it)` is the answer, with 0 at the end. `Advance(it)` is the iterator after the call.

`LLDPTx` has two contexts: `"app"` (caller of `pf_lldp_init`, `pf_lldp_send` and
`pf_lldp_tx_restart`) and `"sched"` (the scheduler running the timeout callback).
State:
- `pc[c]`: where context c is (`uninit`, `idle`, inside the send loop, about to arm).
- `it[c]`, `round[c]`: the send loop's iterator, and the ports it has sent on.
- `rearm[c]`: whether the call under way arms the timeout when the loop ends.
- `pending`: the LLDP timeouts queued in the scheduler.
- `handle`: the stored timeout handle.
- `txEvt`: the ports handed a frame in this step.

Actions:
- `pf_lldp_init` and `pf_lldp_tx_restart(send)`, both through `Restart`: remove the
  timeout under the handle (nothing if it already fired), clear the handle, send if
  asked, then arm.
- `pf_lldp_send`: a direct call, which does not arm.
- `Expire(t)`: the scheduler fires timeout t, and the callback begins `pf_lldp_send`.
- `SendFrame(c)`, `BuildFails(c)`, `SendDone(c)`: one turn of the send loop. The frame
  is built and sent, or its build overflows (ports in `Oversized`) and nothing is sent.
  On the 0 sentinel the loop returns.
- `Arm(c)`: queue a free timeout and store its handle.

`Serialized` chooses the threading. When TRUE (`MayStart`), a call starts only
while the other context is between calls, as when both run on the stack's own
thread. When FALSE, the contexts interleave freely, as `spec.md` §5 allows.

`LLDPTxAbstract` is what the scheduler promises. Its state:
- `started`: `pf_lldp_init` has run.
- `queued`: a timeout is queued.
- `arming`: the call under way will arm the timeout.
- `busy`: a call is under way.
- `todo`: the ports the call has still to send on.
- `txEvt`: the ports handed a frame in this step.

The chain is a token, held by the queue or by the arming call:
- `ARestart` takes the token from the queue.
- `AFire` takes it when the timeout fires.
- `AReturn` puts it back (arming is part of returning).
- `ASend` is a direct call that does not touch it.
- `ATransmit(p)` sends once on a port of `todo`.
- `AQuiet` is a call step that sends nothing and keeps `todo`.

`LLDPTx` maps onto it (`Abs` in `LLDPTx`):
- `queued <- pending # {}`;
- `arming` and `busy` are `WillArm` and `Active` of either context;
- `todo` is the union of `Todo(c)`, the buildable ports outside `round[c]` of a
  context inside `pf_lldp_send`.

The mapping makes a second queued timeout visible. The next `AFire` or `ARestart`
must leave `queued` FALSE, but a second entry keeps `pending` non-empty.

## 3b. SnmpFormat and LLDPSnmp: correspondence with the code

The pf_snmp code is not in `src/`. Its behaviour is the unit test `part_000`:
- `TruthValue`: l.106-107 and 121-122.
- `ReverseByte` and `EncodeBits`: the BITS octets, l.108-109 and 123-124.
- `OctetString`: the length-prefixed address, l.51-57.

Each has a reference decoder written from the RFC (`IsTruthValueOf`, `IsBitsOf`,
`IsOctetStringOf`), not from the code.

`LLDPSnmp` adds the variable `snmp`, the result of the helper called in the step:
- `pf_snmp_get_management_address` and `pf_snmp_get_link_status(p)` read the local
  constants `LocalAddr` and `LocalLinkStatus`. These are `pf_lldp_get_management_address`
  and `pf_lldp_get_link_status`.
- `pf_snmp_get_peer_management_address(p)` and `pf_snmp_get_peer_link_status(p)` call
  the peer getter (`PeerGet`, under the port lock). They return its -1 unformatted
  (l.84-86, 167-169) and otherwise shape the value.
- Every step of `LLDPPeer` leaves no SNMP result.

`Infos` is instantiated with records carrying the management address and link
status the helpers read (`SnmpAssumption`).

## 4. Runs

| Run | Constants | Checks | Shows |
|---|---|---|---|
| `peer_one_port` (`MC_LLDPPeer.cfg`) | 1 port, chassis {c1,c2}, port id {i1}, info {x1,x2}, `TsWrap`=3 | `TypeOK`, `BufferOwnership`, `IInv`, `ReceivedFrameIsStored`, `ReadsMatchStore`, `TimestampMarksChange`, `AlarmOnPeerReplaced`, `RefinesAbstract` | all interleavings of reception, getters, link-down, ticks (with wrap) and AR changes on one record; 21 042 distinct states |
| `peer_two_ports` (`MC_LLDPPeer_ports.cfg`) | 2 ports, info {x1}, `TsWrap`=2 | the same, without `IInv` (`RefinesAbstract` included) | a commit on one port never disturbs the other port's reads, stamps or alarms; about 102 000 distinct states |
| `peer_timestamp_wrap` (`MC_LLDPPeer_wrap.cfg`) | as `peer_one_port` | `TimestampMonotonic` (expected violation) | the timestamp is not monotonic as `spec.md` says: it wraps |
| `tx_one_thread` (`MC_LLDPTx.cfg`) | 4 ports, port 2 unbuildable, 3 timeout entries, `Serialized` | `TypeOK`, `TimerChain`, `TxInv`, `SendRoundComplete`, `EveryPortAdvertised`, `RefinesAbstract` | exactly one timer chain after init, complete send rounds, every buildable port advertised infinitely often under the scheduler's fairness, and the steps and fairness of `LLDPTxAbstract`; 117 distinct states |
| `tx_restart_race` (`MC_LLDPTx_race.cfg`) | 2 ports, not `Serialized` | `TimerChain` (expected violation) | a restart between a timeout firing and its re-arm leaves two timer chains |
| `snmp_store` (`MC_LLDPSnmp.cfg`) | 1 port, chassis {c1,c2}, two peers' data from the unit test, `TsWrap`=2 | `SnmpReadsEncodeStore` | the helpers interleaved with the store return the RFC encoding of the local data or of the complete peer record, and -1 exactly for an invalid record; 15 184 distinct states |

Why the bounds are enough:
- Two chassis ids make a replaced identity (the alarm) possible.
- Two info values make a change that keeps the identity possible.
- `TsWrap` = 3 lets a change fall on a later tick, on the same tick, and after the wrap.
- One port id suffices because the comparisons treat chassis id and port id alike.
- The two-port run drops the second info value to stay within minutes; the cross-port
  question does not need it.
- The symmetry over chassis ids and info values is sound: no definition names a
  particular one.

More bounds:
- Four ports with port 2 unbuildable put a failed build between successful ones, and
  give the send loop a first and a last port. Three timeout entries leave room for a
  second chain in the race run.
- The SNMP instance uses the unit test's two masks. 0xF00F is symmetric under a nibble
  swap; the mask with bits 3, 5, 8 and 14 is not. It also uses two addresses of
  different lengths and subtypes.

Fairness (`LLDPTx` only; the store's properties are all safety properties):
- `WF_vars(\E t : Expire(t))`: the scheduler fires a due timeout. Its periodic tick
  does this whatever the app does.
- `WF_vars(Continue(c))` for each context: a call under way runs to its end. Nothing
  in the send loop or the arm blocks (`spec.md` §5).
- The app's calls get no fairness. `EveryPortAdvertised` is stated for the behaviours
  where the app stops calling `pf_lldp_tx_restart(FALSE)`. Each such call postpones
  the timeout, so calling it for ever rightly starves the ports.

Every property of a passing run has a mutant in `PROJECT.json`: a plausible bug in the
mapped code, which TLC must detect. The mutants are:
- a malformed frame reported as not handled;
- a getter that ignores the lock;
- a getter that returns 0 with no data;
- re-stamping on every reception;
- an alarm for an unknown peer;
- a comparison that ignores `valid`;
- a lock never released;
- a commit that does not take the lock (breaks `RefinesAbstract`);
- an iterator reading past port N (`TypeOK` of `LLDPTx`);
- an iterator stopping before port N (`SendRoundComplete`);
- a restart that does not remove the queued timeout (`TimerChain`);
- an arm that does not store the handle (`TxInv`);
- a timeout callback that re-arms without sending (`EveryPortAdvertised`);
- a `pf_lldp_send` that arms even when called directly (`RefinesAbstract` of `LLDPTx`);
- a BITS encoding that swaps nibbles, and an OCTET STRING length that omits the
  length octet (`SnmpReadsEncodeStore`).

## 5. Findings

`spec.md` §2 calls the peer timestamp a "monotonic freshness timestamp". The code
(`pf_lldp.h:75-88`) stores a `uint32_t` count of 10 ms ticks since startup, which wraps
after about 497 days. `peer_timestamp_wrap` shows a change received after the wrap
getting a smaller stamp than the record it replaces. Consumers that compare stamps must
use modular arithmetic.

`pf_lldp_tx_restart` (`pf_lldp.h:407-412`) restarts the timer by removing the timeout
under the stored handle and arming a new one. `spec.md` §6 has the external periodic
scheduler call both "restart timer" and "timer elapsed", so the scheduler's own calls
are serialized. Neither the header nor the spec says whether the application may also
call `pf_lldp_tx_restart` from another context. §5 asks for serialization only of the
peer records and the transmit counter. `tx_restart_race` shows what happens if it may:
1. the timeout fires and its callback starts sending;
2. the app calls `pf_lldp_tx_restart`, which finds nothing to remove and arms;
3. the callback re-arms as well.

Two periodic timers then run for good, doubling the transmission rate. With the
contexts serialized, `TimerChainHolds` proves that this cannot happen. The code is
thus correct if `tx_restart` is only ever called on the scheduler's thread, as §6
suggests but does not require.

## 6. Proofs

### `LLDPPeerProofs`

The proofs hold for every number of ports, every set of identifiers and every tick width.
They assume only `NumPortsAssumption`, `TsWrapAssumption` and `DataAssumption`: the sets
are nonempty, and `NoData` is not a datum.

- `Invariance`: `Spec => []IInv`.
  - `IInv = TypeOK /\ BufferOwnership /\ FreesInv /\ LockInv /\ CommitInv`.
  - `TypeOK` and `BufferOwnership` alone are not inductive. A step from a commit must
    know that the buffer is not yet freed (`FreesInv`). It must know which lock is held
    (`LockInv`). It must know that the record differs from `rx.prev` only by the identity
    already copied (`CommitInv`).
  - `IInv` is checked by TLC in `peer_one_port`.
  - The step proof has one case per action and one step per conjunct the action can disturb.
- `TypeCorrect`, `BufferOwnershipHolds`: corollaries of `Invariance`.
- `ReadsMatchStoreHolds`: a getter step happens with the port's lock free, so by
  `LockInv` the record read is `Stable(p)`.
- `TimestampMarksChangeHolds`:
  - A step that leaves every `Stable(q)` unchanged satisfies the step property
    (lemma `StableStep`).
  - A getter, `Tick`, `ArChange`, `FrameArrives`, `pf_lldp_recv`, `CommitIdentity` and
    `CallerRelease` are such steps.
  - `CommitRest` either changes the record with the current tick, or, by `CommitInv`,
    leaves it equal to the record before the frame.
  - `LinkDown` only invalidates.

- `ReceivedFrameIsStoredHolds`: the only step that completes a well-formed reception is
  `CommitRest`. It either writes the frame's content with `valid` set, or, when nothing
  changed, leaves the record as it was before the frame (by `CommitInv`). That record was
  valid and equal to the frame.
- `AlarmOnPeerReplacedHolds`: lemma `QuietStep` shows that every step other than
  `CommitRest` and `LinkDown` leaves every `Stable(q)` unchanged and signals nothing.
  `LinkDown` only invalidates. `CommitRest` signals its port exactly when
  `IdentityReplaced` holds of the record before the frame. That is the identity change of
  `Stable(p)` when the record was valid.

- `Refinement`: `Spec => RefinesAbstract`.
  - The initial records are the abstract initial records.
  - `FrameArrives`, `pf_lldp_recv`, `CommitIdentity` and `CallerRelease` map to `Internal`
    (lemma `QuietStep`).
  - A getter maps to `Read`, because the record it reads is `Stable(p)` by `LockInv`.
  - `CommitRest` maps to `Receive(p, c)` applied to `Stable(p) = rx.prev`. `CommitInv`
    makes the unchanged case equal.
  - `LinkDown` maps to `ALinkDown`. The rest map to their abstract counterparts.
  - Lemma `AbsData` identifies the instantiated data operators with those of
    `LLDPPeerData`.

### `LLDPTxProofs`

The proofs hold for every number of ports, timeout table size and set of unbuildable
ports. They assume `NumPortsAssumption` and `TxAssumption`.
- `TxInvariance`: `Spec => []TxInv`.
  - `TxInv = TypeOK /\ PreInit /\ (Serialized => mutual exclusion) /\ (Serialized => ChainInv) /\ RoundInv`.
  - `TimerChain` alone is not inductive. An `Expire` or a restart must know that the
    other context is not in a call (mutual exclusion). A `SendDone` must know whether
    its context will arm and that the other will not (`ChainInv`). Before init nothing
    may be queued (`PreInit`).
  - `SendRoundComplete` needs `RoundInv`: the ports sent on are exactly the buildable
    ports below the iterator.
  - There is one lemma per action (`RestartStep`, `ExpireStep`, `SendFrameStep`, ...),
    and iterator lemmas (`IterStep`, `RoundGrows`, `RoundEnds`).
- `TimerChainHolds`: under `Serialized`, `Spec => []TimerChain`, from `ChainInv`
  (lemma `BusyCases`).
- `SendRoundCompleteHolds`: `Spec => SendRoundComplete`, in one thread or two, from
  `RoundInv`.
- `TxTypeCorrect`: `Spec => []TypeOK`, a corollary of `TxInvariance`.

### `LLDPTxRefinementProofs`

- `TxRefinement`: under `Serialized`, `Spec => Abs!ASafety`. This is the safety part
  of `RefinesAbstract`: the initial state and the steps of `LLDPTxAbstract`.
  - Each step is proved from `TxInv` and mapped by a lemma of its own:
    - `pf_lldp_init` and `pf_lldp_tx_restart` map to `ARestart`;
    - `pf_lldp_send` maps to `ASend`;
    - `Expire` maps to `AFire`;
    - `SendFrame` maps to `ATransmit(it[c])`;
    - `BuildFails` maps to `AQuiet`;
    - `SendDone` maps to `AQuiet` when it goes on to arm, and to `AReturn` otherwise;
    - `Arm` maps to `AReturn`.
  - Mutual exclusion in `TxInv` gives lemma `OtherQuiet`: the other context holds
    nothing and has no `Todo`.
  - `ChainInv` makes `pending` empty after a restart and `{t}` before an `Expire`. So
    the abstract `queued` becomes FALSE.
  - `RoundInv` puts the iterator's port outside `round[c]`, so it is in `todo`. It
    also makes `todo` empty when the loop ends.

### `SnmpFormatProofs`

- `BitsEncodingCorrect`: for every mask in `0..65535`, `IsBitsOf(EncodeBits(m), m)`. It
  rests on these lemmas:
  - `ReverseByteBits`: bit `7 - n` of a reversed byte is bit n of the byte;
  - `ByteSplit` and `ByteSplitBits`: the low and high bytes hold bits 0-7 and 8-15;
  - `Pow2`.
  Each bit position is a case of its own, so the arithmetic stays linear for the SMT
  solver.
- `BitsEncodingInjective`: distinct masks have distinct BITS values, so a manager
  recovers the mask. It rests on these lemmas:
  - `ReverseByteInvolution`: reversing a byte twice gives it back. The byte is the sum
    of its bits (`ByteBits`), and `ReverseByteBits` moves each bit.
  - `MaskSplit`: a mask is its high byte times 256 plus its low byte.
- `OctetStringCorrect`: for every byte sequence, `IsOctetStringOf(OctetString(a), a)`.

### `LLDPSnmpProofs`

- `SnmpInvariance`: the store's `IInv` holds in the composed system. Its step lemma
  `NextIInv` covers the store's steps, `GetterStep` covers the peer helpers, and the
  local helpers change no store state.
- `SnmpReadsEncodeStoreHolds`: `SnmpSpec => SnmpReadsEncodeStore`. A peer helper runs
  with the port lock free, so by `LockInv` it reads `Stable(p)`. Its -1 is returned
  exactly for an invalid record. A valid record's data is shaped by operators that
  meet the RFC decoders (`AddressCorrect`, `LinkStatusCorrect`, built on the two
  theorems above).

### What stays with TLC

- `EveryPortAdvertised`, a liveness property under fairness. TLAPS does not handle
  `ENABLED` and fairness here.
- The fairness part of `RefinesAbstract` of `LLDPTx`: `WF(AFire)` and `WF(ACall)` of
  the abstract chain, for the same reason.
- `TimerChain` without `Serialized`, which fails.
- `TimestampMonotonic`, which fails.

Every other property of a passing run is proved for all constants. For
`RefinesAbstract` of `LLDPTx`, only its safety part is proved.

## 7. Not modelled

- **TLV codec and frame builder.** Byte-level encoding, whose implementation is not in
  `src/`. The store sees only the decoded content. The transmitter sees only whether a
  port's frame can be built (`Oversized`).
- **Alias name generator.** `pf_lldp_generate_alias_name` is a pure string function.
  Its separator, order and truncation policy are left open by the header and by
  `spec.md` §9, and its body is not in `src/`. A model would be a guess, and a length
  property over a guessed format would hold by construction.
- **The other local getters** (port config, chassis id, port id, port description,
  management port index, signal delays). They read immutable configuration and have
  no consumer in the models.
- **The scheduler itself.** Its tick and its timeout table are abstracted to the set
  `pending` of queued LLDP timeouts. Exhaustion of the table is not modelled: in one
  thread at most one LLDP timeout is queued.
