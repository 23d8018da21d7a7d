# TLA+ models of the data-clock engine and the pub/sub layer

This directory holds TLA+ specifications of the concurrent parts of
`src/node/consensus/data/consensus_frames.go` (the data-clock consensus
engine: frame proving and frame sync) and of `src/node/p2p/blossomsub.go`
(the BlossomSub pub/sub layer: direct channels and subscriptions). It also
holds the TLC models that check them and the TLAPS proofs about all four
modelled components.

## The system

The data-clock engine has three parts that interact.

* **Proving pipeline** (`prove`, lines 58-213). Producers append token
  requests to `stagedTransactions` under `stagedTransactionsMx`. `prove(prev)`:
  1. short-circuits if `lastProven >= prev` (line 61), reading `lastProven`
     without any lock;
  2. takes the mutex and materializes the application;
  3. applies the staged transitions, resets the buffer and unlocks
     (line 113);
  4. outside the lock, runs the expensive output/commit/VDF steps;
  5. sets `lastProven` (line 205).
* **Sync engine** (`collect`, lines 25-56, and `sync`, lines 271-373).
  `collect` repeatedly asks the peer registry for ahead peers and calls
  `sync` on each. `sync`:
  1. opens a direct channel (through BlossomSub);
  2. pulls frames one by one;
  3. checks number, timestamp, prover key and VDF;
  4. inserts them into the time reel;
  5. on its deferred exit, demotes a misbehaving peer to the uncooperative
     map.
* **Peer registry** (`GetAheadPeers`, lines 215-269, plus the peer map that
  the peer-info handler fills). It selects the cooperative peers that are
  ahead, in weighted random order.

BlossomSub provides:

* `GetDirectChannel` (lines 883-943), used by `sync`. It is a gRPC client
  over a libp2p stream, and connects to the peer first if needed. When it did
  connect, closing the channel closes the whole peer connection (the
  `extraCloseConn` of lines 872-881).
* `Subscribe` (lines 598-652). It joins a bitmask, subscribes to each of its
  bits, and starts one reader goroutine per bit, which filters messages by
  bitmask and calls the handler.

## Modules

| Module | Models | Runs |
|---|---|---|
| `DataClockProve` | `prove` and the staging producers | `MCDataClockProve` |
| `DataClockProveProofs` | TLAPS proofs about `DataClockProve` | (tlapm) |
| `DataClockSync` | `collect`, `sync`, `GetAheadPeers`, the demotion | `MCDataClockSync` |
| `PeerRegistry` | the abstract peer registry of spec section 4.1 | (refined by `DataClockSync`) |
| `DataClockSyncProofs` | TLAPS proofs about `DataClockSync` | (tlapm) |
| `DirectChannel` | `GetDirectChannel`'s dialer and `extraCloseConn.Close` | `MCDirectChannel` |
| `DirectChannelProofs` | TLAPS proofs about `DirectChannel` | (tlapm) |
| `Subscription` | `Subscribe` and its reader goroutines | `MCSubscription` |
| `SubscriptionProofs` | TLAPS proofs about `Subscription` | (tlapm) |

### DataClockProve

Each element of `Threads` is a goroutine in `prove`.

**State:**
* `pc[t]` is its position: `check`, `lock`, `materialize`, `apply`,
  `release`, `crypto`, or `idle` between calls.
* `mx` is the holder of the staging mutex.
* `staged` is the buffer, as a set of transaction numbers.
* `taken[t]` is what t's `ApplyTransitions` consumed.
* `frames[n]` counts the frames numbered n that prove returned.
* `included` and `discarded` hold the transactions of successful and failed
  rounds.

**Actions:**
* `Check` is line 61.
* `Lock` is line 64.
* `Materialize` is lines 66-92; its failure unlocks and leaves the buffer.
* `Apply` is lines 94-111; its failure resets the buffer and unlocks.
* `Release` is lines 112-113.
* `Crypto` is lines 115-212. Every failure there loses the consumed
  transactions. Success returns frame prev+1 and sets `lastProven`.
* `Stage` (a producer) and `Call` (a caller passing a frame it has) are the
  environment. Their code is not in `src/`, so they are modelled from the
  spec.

Cryptography is abstracted to success or failure.

### DataClockSync

**State:**
* `latest` is the frame collect holds, or `Nil`.
* `cands` and `cur` are the candidate list of the current pass and the
  current candidate.
* `coop` is the `cooperative` flag of the running `sync`.
* `reel` is the sequence of frames inserted into the time reel.
* `peerMap` and `uncoop` form the registry; `hwm` is `latestFrameReceived`.
* `offenders` holds the peers that did violate the protocol. It is ghost
  state for the property.

**Actions:**
* `Query` and `Iter` are collect's outer and inner loops.
* `Dial` is the channel open.
* `Request` is one turn of sync's loop, with every answer `Answers` lists.
  `Faults` chooses which kinds of bad answer peers may give.
* `SyncReturn` is sync's deferred exit, with the demotion
  `MarkUncooperative`.
* The peer-info handler (`UpsertPeer`), frame announcements
  (`ReceiveFrame`) and engine stop (`Stop`) are the environment.

Frames are records `[num, ts, prover, valid]`. The weighted shuffle is
abstracted to any order, since every order has positive probability.

### PeerRegistry and the refinement

`PeerRegistry` states what the registry promises, with the peer info
abstracted away. A peer is cooperative (it has an entry in the peer map, so
`GetAheadPeers` may return it), uncooperative (demoted), or unknown.
* `Upsert(p)` admits or re-admits p.
* `MarkUncooperative(p)` moves a cooperative p to the uncooperative set.

`DataClockSync` defines `Registry == INSTANCE PeerRegistry WITH
cooperative <- Cooperative, uncooperative <- uncoop`, where `Cooperative` is
the set of peers whose `peerMap` entry is not `Absent`. `ImplementsRegistry`
(that is, `Registry!Spec`) is checked by `sync_safety` and proved by
`RegistryRefinement`. `UpsertPeer` maps to `Upsert`. The deferred demotion
of `sync` (lines 286-297) maps to `MarkUncooperative` when it fires and to a
stutter when `cooperative` is still set. Every other step leaves both maps
alone. A demotion that kept the peer's entry in the map (the mutant
`MarkUncooperativeKeepEntry`) is no registry step, and TLC finds it.

### DirectChannel

Each element of `Callers` is one run of the context dialer. `sync` opens one
per session, and gRPC reruns the dialer after a transport failure.

**State:**
* `connected` is the host's connection to the peer.
* `dialed` records that a dialer opened it.
* `owns[c]` records that c's stream is an `extraCloseConn`.
* `alive[c]` records that c's stream works.
* `stranded` is a history variable. It records that the live dialer-opened
  connection was left behind by a run whose stream open failed. It is
  cleared when that connection closes.

**Actions:**
* `Check` is the connectedness switch, lines 907-911.
* `Connect` is `h.Connect` with its error return, lines 912-914. It is a
  no-op if a connection appeared meanwhile.
* `Stream` is lines 916-933: `gostream.Dial` with `WithNoDial`, its error
  return at 924-925 (or the panic recovered at 888-893), and the wrap in an
  `extraCloseConn` whose extra close is `ClosePeer` (932). It fails without
  a live connection, and may fail on a live one when `StreamFails`.
* `Close` is lines 877-881. For an owning stream, `ClosePeer` resets every
  stream (`Teardown`, line 932).
* `PeerConnect` and `PeerDrop` are the rest of the node and the peer.

### Subscription

`Calls` are `Subscribe` calls. `BitsOf` gives Join's bits per bitmask.
Messages are the numbers `1..MaxPublish` in publishing order, and `msgs[i]`
is message i's bitmask. `b.ctx` is the `context.Background()` of both
constructors (lines 116/147 and 183/301) and nothing cancels it, so
`sub.Next(b.ctx)` only ever returns a message. A reader never leaves its
loop, and the error path at 637-642 is never taken.

**Actions:**
* `Join` is lines 602-607.
* `SubscribeBit` is lines 610-622. It returns early on error, leaving the
  earlier bits subscribed.
* `StartReaders` is lines 624-652.
* `Reader` is one turn of the goroutine at lines 634-648, with the filter
  at 643.
* `Publish`, the overlay's delivery of a message to the subscriptions of
  every bit of its bitmask, is the environment.

## Runs

Passing runs:

| Run | Checks | Shows |
|---|---|---|
| `prove_serial` | `TxConservation`, `ShortCircuitHolds`, `LastProvenMonotone` | one prover goroutine and a concurrent producer: no transaction lost or duplicated, no non-genesis height proved twice, `lastProven` monotone |
| `sync_safety` | `TypeOK`, `ReelConsecutive`, `NoDemotionWithoutViolation`, `ImplementsRegistry` | with every kind of bad answer, upserts and stop: the reel is consecutive with monotone timestamps, and only misbehaving peers are demoted |
| `sync_terminates` | `CollectTerminates` | without nil responses and without stop, collect returns (under weak fairness of the collect goroutine) |
| `direct_release` | `LeakOnlyByStreamFailure` | with two concurrent dialer runs, peer connects and drops, and stream opens that may fail on a live connection: a dialer-opened connection that outlives every run was always stranded by a failed stream open, so `Close` releases every other one (`direct_dial_leak` shows that the stranding happens) |
| `sub_delivery` | `ReadersOnEveryBit`, `DeliveredToHandler` | two calls on bitmasks sharing a bit, with failing joins and bit subscriptions, and messages published while the calls subscribe: a call that returned nil reads every bit of its bitmask, and every message on its bitmask delivered to its subscriptions reaches its handler |

Violation runs. Each is a disagreement with the spec or a comment, recorded
as a finding in `PROJECT.json`:

| Run | Violates | What happens |
|---|---|---|
| `prove_genesis_repeat` | `ProveIdempotent` | `prove(genesis)` twice gives two frame 1s, because `lastProven != 0` is part of the short-circuit |
| `prove_race` | `ShortCircuitHolds` | two concurrent `prove(prev)` both pass the unlocked check at line 61 and both produce a frame |
| `sync_badvdf_panic` | `NoNilDereference` | a frame failing VDF verification makes `sync` return nil; `collect` stores it in `latest` and dereferences it |
| `sync_nil_livelock` | `CollectTerminates` | a peer answering `nil` is never demoted and is selected forever |
| `sync_nonprover_inserted` | `ReelOnlyProverFrames` | a frame signed by a key outside the prover trie only clears `cooperative` (line 356); it is verified, inserted into the reel, and pulling from the peer goes on |
| `direct_dial_leak` | `ConnectionReleased` | the dialer connects, the stream open fails, and the connection is left open |

Two more behaviours were observed while modelling but have no run; they
are listed as hazards in `PROJECT.json`:
* Once the engine is stopping, `sync` returns at once without demoting, and
  `collect` never reads the engine state (line 31). So with an ahead peer it
  loops forever.
* Closing a channel whose dialer connected closes the peer connection
  (line 932). That resets every other channel to the same peer.

Every property of a passing run has a mutant in `PROJECT.json`. The mutant
is a plausible bug in the mapped code that TLC shows breaks the property:

| Mutant | What it changes |
|---|---|
| `ApplyUnlockEarly` | unlock before the reset |
| `ShortCircuitStrict` | `>` instead of `>=` |
| `ShortCircuitSameOnly` | `=` instead of `>=` |
| `InOrderNoTs` | no timestamp check |
| `OnVerifyFailureDemotes` | verification failure demotes the peer |
| `ReachedMaxNever` | no `maxFrame` stop, so the frame number leaves its range |
| `MarkUncooperativeNever` | the demotion is dropped |
| `MarkUncooperativeKeepEntry` | the demotion leaves the peer in the peer map |
| `CloseNoExtra` | the extra close is dropped |
| `StartReadersShared` | without `sub := sub` (line 632, Go before 1.22) every reader reads the last subscription |
| `ReaderNegated` | the filter's test is negated |

### Bounds

* **Proving:** 1-2 goroutines, 2 frame heights, 0-2 transactions, 3-4
  calls. This is enough for every interleaving of two rounds with a producer
  (lock contention, a failure path, and a second call for a proven height).
* **Sync:** 2 peers, frame heights up to 3 and 2 environment events. These
  give:
  * two candidates in a pass;
  * a multi-frame pull that stops at `maxFrame`;
  * a peer upserted or demoted mid-pass;
  * the high-water mark moving.
* **Direct channels:** two dialer runs and three outside events. That is
  enough for every order of check, connect, open and close of two channels
  around a drop and a reconnect.
* **Subscriptions:** two bitmasks sharing one bit, and three publishes.
  That is enough for a message that arrives on a first bit before the second
  is subscribed, a message on the shared bit for the other bitmask, and a
  call that fails after subscribing a bit.

Counters are capped by the named constants `MaxCalls`, `MaxTx`, `MaxEvents`
and `MaxPublish`. The runs set `CHECK_DEADLOCK FALSE` because every model
ends when its callers and producers are done.

### Fairness

`sub_delivery` assumes weak fairness of each Subscribe call in progress
(`SubscribeBit(k) \/ StartReaders(k)`) and of each reader goroutine
(`Reader(s)`). A call runs on to its return, and a reader with a message
waiting is runnable; the Go scheduler eventually runs every runnable
goroutine. Nothing obliges anyone to call `Subscribe` or to publish.

`sync_terminates` and `sync_nil_livelock` use
`WF_vars(Collector)`. `collect` runs on its own goroutine and never blocks
indefinitely: each request has `syncTimeout`, which the model represents as
the transport-error answer. So once it is enabled it keeps being able to
step. No fairness is assumed for peers or the environment.

## Proofs

### `DataClockProveProofs`

For every set of goroutines and every bound (assumption `ConstAssumption`:
`Threads` nonempty, `None` not a thread, bounds natural):

* `TypeCorrect`: `Spec => []TypeOK`. It rests on the lemma `TypeStep`, which
  has one step per action.
* `StagingConservation`: `Spec => []TxConservation`. `TxConservation` is not
  inductive: a step of `Release` or `Apply` could break it from a state where
  the mutex is held by someone else, or where `taken` differs from `staged`.
  The inductive invariant `IInv` (in `DataClockProve`, TLC-checked on two
  goroutines) adds two facts:
  * `LockHeld`: the mutex is held by t exactly when t is between `Lock` and
    `Release`. So no producer or other goroutine changes `staged` meanwhile.
  * `TakenIsStaged`: a goroutine about to reset the buffer took exactly the
    staged set.

  The proof shows `Init => IInv` and `IInv /\ [Next]_vars => IInv'` (one
  step per action). It restates the union over in-flight sets through the
  lemmas `FlightSplit`, `OthersUnchanged`, `FlightKept`, `BelowNext` and
  `NoOtherLocked`, and concludes with PTL.

The proof of `StagingConservation` holds for any number of goroutines, so no
run with two prover goroutines is kept: `prove_serial` checks the property
on a small instance and the theorem covers the concurrent case.

`prove` is not called anywhere under `src/`, and spec section 5 lets
several goroutines call it. With two callers the unlocked read of
`lastProven` at line 61 lets both pass the short-circuit for the same `prev`,
and `prove_race` shows the frame produced twice and `lastProven` moving
backwards. So the next two theorems carry the hypothesis
`Threads = {t0}` (a single caller goroutine, the `prove_serial` setting),
stated in the theorem and not as an assumption on the constants:

* `SerialShortCircuit`: `Spec => []ShortCircuitHolds`.
* `SerialLastProvenMonotone`: `Spec => [][lastProven' >= lastProven]_vars`
  (the action property `LastProvenMonotone`).

  Both rest on `SerialInv` (TLC-checked with one goroutine, `MaxFrame` 3).
  It adds two facts to `TypeOK` and the property:
  * every produced frame above 1 is at most `lastProven + 1`;
  * a goroutine past the short-circuit holds a `prev` above `lastProven`,
    or `lastProven` is still 0.

  The lemma `SerialStep` shows that every step keeps `SerialInv` and does
  not lower `lastProven`. Both theorems follow from it.

### `DataClockSyncProofs`

For every set of peers, every bound and every set of faults (assumptions
`ConstAssumption`, and `SentinelAssumption`: `Absent` is no peer info and
`Nil` no frame):

* `TypeCorrect`: `Spec => []TypeOK`. Frame numbers stay in
  `0..MaxFrame+1` because a session stops at the candidate's `maxFrame`.
* `ReelAlwaysConsecutive`: `Spec => []ReelConsecutive`. The reel grows
  1, 2, 3, ... with timestamps that never decrease. The property alone is
  not inductive, because `Request` appends `latest`'s successor. The
  inductive invariant `ReelInv` adds these facts:
  * `latest`, when set, is `Held`, the reel's last frame (genesis for an
    empty reel), and its timestamp is at most its number;
  * while a session dials or requests, `latest` is set and below the
    candidate's `maxFrame`.

  The lemmas `AppendConsecutive` (appending the successor keeps the reel
  consecutive), `SyncReturnReel`, `RequestReel` (one step per branch of the
  loop) and `ReelStep` (one per action) carry the step.
* `DemotionsJustified`: `Spec => []NoDemotionWithoutViolation`. The property
  (every uncooperative peer is an offender) is not inductive: the deferred
  demotion fires whenever `cooperative` is down, so the proof needs to know
  why it is down. The inductive invariant `IInv` adds:
  * `RegistryTyped`: the peer map is a map of peers, and the current and
    candidate peers are peers;
  * `Demotion`: a session starts with `coop` up (`pc = "dial" => coop`),
    and while a session requests with `coop` down its peer is an offender.

  `DemotionStep` has one step per action, and under `Request` one per
  branch of the loop (stop, bad answers, out of order, verify failure,
  `maxFrame` reached, continue). The lemma `SyncReturnDemotion` covers every
  return of `sync` at once.
* `RegistryRefinement`: `Spec => ImplementsRegistry`. Initial states map to
  registry initial states. `RegistryStep` shows every step is an `Upsert`
  (lemma `UpsertRefines`), a `MarkUncooperative` or a stutter (lemma
  `MarkRefines`), from `RegistryTyped` alone.

### `DirectChannelProofs`

For every set of dialer runs, every bound on outside connects and drops, and
both values of `StreamFails`:

* `TypeCorrect`: `Spec => []TypeOK`.
* `LeakOnlyByStreamFailureHolds`: `Spec => []LeakOnlyByStreamFailure`.
  Suppose a dialer-opened connection is still live when every run is idle or
  done. Then a run that found the peer unconnected returned on a failed
  stream open (lines 924-925) while that connection was live. So the
  promise of lines 904-906 is broken only there; `direct_dial_leak` shows
  that it is broken there. The inductive invariant `LeakInv` (TLC-checked
  with 3 callers, and checked to be inductive with 2) says:
  * a dialer-opened connection is live, and so is a stranded one;
  * a run about to connect found the peer unconnected;
  * an open channel owns the connection exactly when its run found the peer
    unconnected;
  * a live dialer-opened connection is stranded or has an `Owner`, a run
    that found the peer unconnected and has not closed its channel yet.

  `CallerStep` (with a case for each outcome of `Stream`) and `EnvStep`
  carry the step.

### `SubscriptionProofs`

For every set of calls, bitmasks and bits, every split of bitmasks into
possibly shared bits, and failing or not failing joins and subscriptions:

* `TypeCorrect`: `Spec => []TypeOK`. `TypeOK` includes the fact that readers
  run only on subscriptions that exist, and that the next bit index is at
  least 1.
* `ReadersOnEveryBitHolds`: `Spec => []ReadersOnEveryBit`. A call that
  returned nil has a reader on every bit of its bitmask. The property is not
  inductive, because `StartReaders` relies on what the subscribe loop did.
  The inductive invariant `SubInv` (TLC-checked on the `sub_delivery`
  instance) adds:
  * a call that has not joined is at the first bit;
  * a call in its loop has subscribed to every bit before `idx[k]`, and
    `idx[k]` is at most one past the last bit.

  `CallStep` has one case per step of a call; `OtherStep` covers publishes
  and reader turns.

Only model-checked, with the reason:
* all liveness (`CollectTerminates`, `DeliveredToHandler`). It needs ENABLED and fairness, which
  TLAPS cannot reason about here.
* `ShortCircuitHolds` and `LastProvenMonotone` with several goroutines.
  They are false there, as `prove_race` shows; the proofs cover one
  goroutine.
* `ConnectionReleased` itself. It is false when the stream open can fail,
  as `direct_dial_leak` shows; the proof states what holds instead.
* The properties of the other violation runs (`ProveIdempotent`,
  `NoNilDereference`, `ReelOnlyProverFrames`). TLC refutes
  them, so there is nothing to prove.

## Not modelled

* Weighted sampling. It is not in this repository; only its result, an order
  of candidates, matters.
* The frame and inclusion provers. They are cryptographic libraries, and
  appear only as success or failure.
* `StartDirectChannelListener`, `NewBlossomSub`, `initDHT`,
  `resourceManager`, `withDefaults`, `toBlossomSubParams` and
  `getNetworkNamespace`. These are one-shot construction and configuration
  that panic on error.
* The peer score store. It consists of mutex-guarded map operations.
* The unlocked reads of the two map lengths at line 223 of
  `GetAheadPeers`. They race the writers but only feed a debug log line.
* `Unsubscribe` and the validators. Their effect lies in the library.
* `EngineConfig`. It is plain data.

## Plan for later work

1. **ResourceLimits:** the limit arithmetic of `resourceManager` with
   `uint`/`int` wrap, and `withDefaults`' watermark defaults, as operators
   checked against a reference.
2. **Reconnect:** `Reconnect`'s unprotect/connect/protect sequence in
   `DirectChannel`.
