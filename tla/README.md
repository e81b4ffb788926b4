# TLA+ verification of the ethconnect Kafka bridge

This directory holds TLA+ models of the Kafka->Ethereum bridge of
`src/internal/kldkafka/kafkabridge.go` and of the server supervisor `startServer` of
`src/unnamed/part_000`. It also holds the TLC configurations that model-check them
and the TLAPS proofs about them.

## 1. Inventory

### Components

| Component | Code | State it keeps | Operations |
|---|---|---|---|
| C3 in-flight tracker | `kafkabridge.go` `addInflightMsg`, `setInFlightComplete`, `ctxByOffset` | `inFlight map[reqOffset]*msgContext`; per context `complete`; mutex and condition variable `inFlightCond` | admit a message (dedup, insert, parse the headers); complete a context, remove the completed prefix of its partition, mark the offset |
| C4 consumer loop | `ConsumerMessagesLoop` | the message in hand | receive, lock, wait while full, admit, unlock, dispatch (drop the duplicate / `OnMessage` / error `Reply`) |
| C5 producer loops | `ProducerSuccessLoop`, `ProducerErrorLoop` | none | on success: complete the context and `Broadcast`; on error: `panic` |
| C2 message context | `msgContext.Reply`, `SendErrorReply*`, `Headers`, `Unmarshal`, `String`, `Encode` | `replyBytes`, `key`, reply headers | build the reply and enqueue it on `producer.Input()` with the reqOffset as metadata |
| Configuration | `ValidateConf`, `CobraInit`; `part_000` `readServerConfig`, `init` | `KafkaBridgeConf` | default `maxInFlight` (0 becomes 10), `maxTXWaitTime` (minimum 10), check the RPC URL |
| C7 supervisor | `part_000` `startServer` | `anyRoutineFinished` channel | start one goroutine per bridge; return when any of them finishes |
| C1 Kafka client | `kafkacommon.go` and sarama (not in `src/`) | consumer position, marks, committed offsets; producer queue | deliver in offset order per partition, redeliver from the committed offset after a rebalance, `MarkOffset`, commit, acknowledge or fail each reply |
| C6 processor | `msgprocessor.go` (not in `src/`) | its worker goroutines | `OnMessage`: parse, send the transaction, poll for the receipt, call `Reply` once |

### How they interact

The consumer loop C4 reads the consumer stream of C1. It takes `inFlightCond.L` and
waits on the condition while `len(inFlight) >= MaxInFlight`. It then calls C3's
`addInflightMsg` and releases the lock. After that it drops a duplicate, hands a
parsed context to C6, or sends the generic error reply itself.

C6 and the error path call `Reply` (C2). `Reply` enqueues the reply on the producer of
C1, with the reqOffset as metadata. The producer reports each reply on its success
channel or its error channel.

C5's success loop takes the lock, looks the context up by reqOffset, and calls
`setInFlightComplete`. That call marks the highest offset of the partition's completed
prefix on the consumer. The loop then broadcasts on `inFlightCond`. C5's error loop
panics, and the container restarts the process.

### What is hard

- **Interleaving.** Three goroutines and the processor's workers share the map under
  one mutex. The consumer loop sleeps on a condition variable that is broadcast on
  every acknowledgement, including acknowledgements that remove nothing.
- **Out-of-order completion.** Replies are acknowledged in any order. The offset may
  only move over a contiguous completed prefix.
- **Redelivery.** After a rebalance Kafka redelivers from the committed offset.
  Messages still in the map must be recognised as duplicates.
- **Crash and restart.** A producer error panics the process. In-memory contexts, and
  marks that were not yet committed, are lost.
- **Configuration edge.** `maxInFlight` may be zero or negative.
- **Supervision.** `startServer` validates and launches bridges in one loop, then
  waits for exactly one send on an unbuffered channel. A late validation error, an
  empty config, or a failing `Start` each end the process differently from what the
  spec says.

### Properties that make it correct

- C3/C4: the map never exceeds `MaxInFlight` (P1). No offset is marked past a message
  whose reply the broker has not acknowledged (P3/I4). A context gets one reply, and is
  completed only by that reply (P4/P5). No context leaks from the map.
- C5: every message is eventually committed, and the consumer loop is never left
  waiting.
- End to end: the spec claims that within one run no request is replied to twice.
- C7: the first bridge to finish ends the process. Config and connect errors are
  surfaced with exit code 1.

## 2. Modules

### `KafkaBridge.tla` (C2-C5 with the interfaces of C1 and C6)

State:

- `inFlight` is the domain of `k.inFlight`.
- `complete` is the set of contexts in the map whose `complete` flag is set.
- `processing` is the set of contexts handed to `OnMessage` that have not replied yet.
- `pending` is the set of replies in the producer that are not yet acknowledged.
- `cpc`, `cmsg` and `cres` are the consumer loop's position, the message it holds,
  and what `addInflightMsg` returned for that message.
- `fetch`, `marked` and `committed` belong to the Kafka consumer: the stream position,
  sarama's mark (the next offset to read), and the offset committed to the broker.

Ghost variables:

- `published` is the set of replies acknowledged by the broker.
- `ctxReplies` counts the replies sent by the current context of each reqOffset.
- `runReplies` counts the replies sent for each reqOffset in this run.
- `crashes` and `rebalances` count those events.

A message is the pair `<<partition, offset>>`, which stands for the reqOffset string
`topic:partition:offset`. The one topic is left implicit. The message payload is
reduced to whether its headers parse (the set `Unparsable`).

Actions, with the code each one stands for (the `map` in `PROJECT.json` gives the
lines):

- `ConsumerReceive(p)` is one iteration of `ConsumerMessagesLoop` up to `Unlock`. It
  takes the message, locks, and then either waits (`cpc = "wait"`) or runs
  `addInflightMsg`.
- `ConsumerWoken` is the consumer loop after `Broadcast`: it re-acquires the lock and
  re-checks the `for` condition.
- `ConsumerDispatch` is the code after `Unlock`. It has three disjuncts: drop a
  duplicate, call `processor.OnMessage`, or call `Reply` with `NewErrorReply`.
- `ProcessorReply(c)` is the processor's single `Reply`. It is modelled from the spec.
- `ProducerSuccessLoop(c)` runs `setInFlightComplete` under the lock and then
  `Broadcast`. `ReadyToAck` is the sorted scan of lines 206-224, written as a set: the
  contexts of the partition with every lower context complete. `HighestOffset` is the
  last element of the sorted `readyToAck`.
- `ProducerErrorLoop(c)` is the panic followed by the container restart. Memory is
  cleared. `marked` falls back to `committed`, and the stream restarts there.
- `CommitMarks` and `Rebalance` are sarama's periodic offset commit and a rebalance,
  both modelled from the spec. `MarkOffset` keeps the highest mark, as sarama does.

The lock is not a variable. Each section of code that holds the lock is one atomic
action. The waits, which release the lock, are separate states of `cpc`.

`KafkaBridgeProofs.tla` holds the theorems and lemmas. `MC_KafkaBridge.tla` gives the
constants small values for TLC.

### `TrackerAbstract.tla` (what C1 and C3 promise the broker)

This is the abstract specification. Its state is `published`, `marked` and `committed`;
the goroutines, the map and the processor are hidden. It has three steps:

- `Publish(c)`: a reply is acknowledged, and the mark of its partition may move
  forward, but only over offsets whose replies are all published (`Releasable`).
- `Commit`: the marks become the committed offsets.
- `Restart`: the marks fall back to the committed offsets.

`KafkaBridge` instantiates it as `TA` with the identity mapping on these three
variables; `TrackerRefinement == TA!Spec`. Each `ProducerSuccessLoop` step is a
`Publish`, `CommitMarks` and `Rebalance` are `Commit`, `ProducerErrorLoop` is
`Restart`, and every other step is a stutter of the abstract state.

### `Supervisor.tla` (C7)

State:

- `spc` is `startServer`'s position: `read`, `kafka` (first range loop), `webhooks`
  (second range loop), `wait` (the receive) or `exited`.
- `todo` is the set of keys the current range loop has not visited yet. Go map order
  is random, so the loop picks any of them.
- `br` is each bridge's goroutine: `idle`, `starting`, `serving`, `finished` (blocked
  on its send) or `sent`.
- `conf` and `invalid` are what the config file names, and which of those bridges fail
  `ValidateConf`. They are inputs: `ReadConfig` chooses them.
- `nullConf` is the set of Kafka entries whose value is `null` in the file. It is
  also an input. `json.Unmarshal` turns such an entry into a nil `*KafkaBridgeConf`.
  A null webhooks entry is not modelled, because `WebhooksBridge.SetConf` is outside
  this repository.
- `failed` is the set of bridges whose `Start` returned an error.
- `result` is how the process ended.

Actions:

- `ReadConfig` is `readServerConfig` with its error returns and the `PrintYAML` branch.
- `KafkaLoop` and `WebhooksLoop` are the two range loops. One iteration is `Launch(b)`:
  `SetConf` (a nil-pointer panic for a null entry), then `ValidateConf`, then the
  `go func`, or `return err`. The three outcomes are exclusive disjuncts.
- `KafkaStart(b)` is `KafkaBridge.Start`: `connect` or the broker connection fails (the
  goroutine logs the error), or the bridge serves. `WebhookStart(b)` is the same for
  a webhooks bridge, modelled from the spec.
- `BridgeStop(b)` is a serving bridge's `Start` returning, for instance because the
  consumer stream closed.
- `BridgePanic(b)` is `ProducerErrorLoop`'s panic, which ends the whole process.
- `Receive(b)` is the rendezvous on the unbuffered `anyRoutineFinished` channel. The
  first finished goroutine's send is received, and `startServer` returns nil.

Inside a bridge, `serving` is what `KafkaBridge` models. The two modules are not
composed into one state space: the only interaction is that a bridge's panic or its
stream ending ends the process, and `KafkaBridge`'s `ProducerErrorLoop` already
models the resulting restart.

## 3. Runs

| Run | cfg | Expect | Checks |
|---|---|---|---|
| bridge_safety | `MC_KafkaBridge.cfg` | pass | TypeOK, CapacityBound, NoPrematureCommit, ContextReplyOnce, NoLeakedContext, AckFindsContext, NoLostWakeup |
| bridge_liveness | `MC_KafkaBridge_live.cfg` | pass | AllCommitted under `FairSpec` |
| tracker_refinement | `MC_KafkaBridge_refine.cfg` | pass | TrackerRefinement: `KafkaBridge` implements `TrackerAbstract` |
| redelivery_after_completion | `MC_KafkaBridge_redelivery.cfg` | violation | AtMostOnceReplyPerRun |
| negative_maxinflight | `MC_KafkaBridge_negconf.cfg` | violation | AllCommitted with maxInFlight = -1 |
| supervisor | `MC_Supervisor.cfg` | pass | TypeOK, ReturnsOnFirstFinish under `FairSpec` |
| supervisor_config_error | `MC_Supervisor_ConfigErrorBeforeStartup.cfg` | violation | ConfigErrorBeforeStartup |
| supervisor_null_config | `MC_Supervisor_ConfigErrorNotPanic.cfg` | violation | ConfigErrorNotPanic |
| supervisor_empty_config | `MC_Supervisor_WaitHasSender.cfg` | violation | WaitHasSender |
| supervisor_connect_error | `MC_Supervisor_ConnectErrorSurfaced.cfg` | violation | ConnectErrorSurfaced |

`AckFindsContext` says that every reply in the producer belongs to a context that is
still in the map. Without it, `ProducerSuccessLoop` would find no context at line 390
and panic (spec 4.5).

`NoLostWakeup` says the consumer loop sleeps on `inFlightCond` only while the map is
full. This is the safety half of the classic lost-wake-up bug; the eventual wake-up
is part of `AllCommitted`.

`ConfigErrorNotPanic` states spec section 7 for the supervisor: a missing bridge
config is a ConfigError, so the process panics only from a serving Kafka bridge's
`ProducerErrorLoop`. The code breaks it (finding 4).

That committed offsets never move backwards is not a separate property. `committed`
only ever takes the value of `marked`, and both live in the Kafka-client part of the
model, which is built from the spec. The code's side of it, that the bridge marks
only over published offsets, is the `Releasable` guard of `TrackerRefinement`.

**Bounds.** Two partitions with three messages each (two for liveness), one of them
unparsable, MaxInFlight 2 (1 for liveness), one panic and one rebalance. These are
enough for the cases that matter:

- the map fills, and a broadcast arrives that removes nothing;
- completions are out of order within a partition, and interleave across partitions;
- a redelivery arrives while the message is in the map, and another after it left;
- a restart happens with marks not yet committed;
- the parse-error path is taken.

Every action, and every disjunct of `ConsumerDispatch`, fires in `bridge_safety`. That
run has 1,056,092 distinct states and takes about 30 s.
`tracker_refinement` uses the same instance.

The supervisor runs take up to two Kafka bridges and one webhooks bridge. `ReadConfig`
chooses any subset of them as configured, any subset as invalid, and any subset of
the Kafka entries as null. This covers:

- the empty config;
- a valid bridge launched before an invalid one, in either map order;
- a start failure, a serving bridge that never stops, a panic;
- two bridges finished at once, of which only one send is received;
- a null entry visited first, or after a valid bridge was launched.

The passing run has 961 distinct states.

**Deadlock** is not checked (`CHECK_DEADLOCK FALSE`). When every message of the log has
been consumed, the real bridge blocks on an empty partition, so the model really can
stop. A consumer left waiting forever is caught by `AllCommitted` instead.

**Fairness** (`FairSpec`): weak fairness for the consumer loop, the processor's
replies, the success loop and the commit ticker.

- The Go scheduler runs every runnable goroutine.
- The spec obliges the processor to reply to every context.
- The broker acknowledges replies that were sent.
- sarama commits its marks periodically.

Panics and rebalances get no fairness. They are never forced. In `Supervisor`, `FairSpec` gives
weak fairness to `startServer`'s steps, to each launched goroutine's `Start`, and to
the receive. A serving bridge's stop and its panic get none: a bridge may serve
forever.

**Mutants.** Every property of a passing run is broken by a plausible fault in the
code, and TLC finds it:

- `setInFlightCompleteKeepFlags` breaks TypeOK.
- `if` instead of `for` around `Wait` breaks CapacityBound.
- A prefix scan with no `break` breaks NoPrematureCommit.
- Dropping the duplicate check breaks ContextReplyOnce.
- Dropping the error reply for an unparsable message breaks NoLeakedContext.
- Dropping the `Broadcast` breaks AllCommitted.
- A `ReadyToAck` walk that is off by one breaks AckFindsContext. It releases a
  context once every earlier one is complete, whether or not the context itself is
  complete. Its reply, still pending, then finds no context in the map.
- Dropping the `Broadcast` also breaks NoLostWakeup, within a few hundred states.
- A `MarkOffset` that overwrites the mark instead of keeping the highest breaks
  TrackerRefinement. After a rebalance redelivers, a later acknowledgement marks
  below the current mark, so the bridge relies on sarama keeping the highest mark.
- A launch loop that records the validation error but does not return breaks the
  Supervisor's TypeOK.
- A receive that waits until every launched bridge has finished breaks
  ReturnsOnFirstFinish.

### Findings

1. **Replies are not at-most-once within a run**
   (`redelivery_after_completion`). The duplicate check of `addInflightMsg` only
   looks at the map. A context leaves the map as soon as its offset is marked. After a
   rebalance, a redelivered message that is consumed after its first context completed
   is admitted as new, processed again (its transaction is sent twice), and replied to
   twice. The trace takes nine states: admit 0, rebalance, reply, ack, receive 0 again,
   reply again. Spec section 4.3 says I5 makes outbound replies at-most-once within a
   process run. That holds only while the context is in the map.
2. **A negative maxInFlight stops the bridge** (`negative_maxinflight`).
   `ValidateConf` replaces only 0 with 10. With -1 the consumer loop waits forever on
   the first message.
3. **A config error is not surfaced before startup** (`supervisor_config_error`).
   `startServer` validates each bridge in the same loop that launches the earlier ones.
   It also validates the webhooks bridges only after every Kafka bridge has started.
   An invalid later entry returns its error after the goroutines of earlier bridges
   were launched and have begun to start. Spec section 7 says a ConfigError is surfaced before startup.
4. **A null bridge entry panics** (`supervisor_null_config`). A config file with
   `kafka: {b: null}` unmarshals to a nil `*KafkaBridgeConf`. `SetConf`
   (`part_000` line 144, `kafkabridge.go` line 62) dereferences it before
   `ValidateConf` runs, so `startServer` panics with a nil-pointer error (exit 2).
   Bridges launched earlier die with it. The trace takes three states. Spec section 7
   says a missing config is a ConfigError surfaced before startup, with exit code 1.
5. **A config naming no bridge hangs** (`supervisor_empty_config`). `json.Unmarshal`
   ignores unknown keys, so a file whose keys do not match gives empty maps. Both loops
   then do nothing, and `main` blocks on `<-anyRoutineFinished` with no goroutine left
   to send. The Go runtime aborts with "all goroutines are asleep - deadlock!" (exit 2).
   It is not the ConfigError with exit code 1 that the spec lists.
6. **A connect error exits 0** (`supervisor_connect_error`). When `KafkaBridge.Start`
   fails (`connect` at line 420, or the broker connection), the goroutine only logs
   the error (`part_000` line 151) and then sends as usual. `startServer` returns nil.
   Spec section 7 says a ConnectError is surfaced at startup with exit code 1.

## 4. Proofs (`KafkaBridgeProofs.tla`, `SupervisorProofs.tla`)

- `TypeCorrect`: `Spec => []TypeOK`, for every value of the constants allowed by
  `ConstantsAssumption`. It rests on the lemma `HighestOffsetSpec`: the offset that is
  marked is one of the offsets of `readyToAck` and bounds all of them. That lemma in
  turn rests on `MaxExists`: a bounded non-empty set of naturals has a greatest
  element. `MaxExists` is proved from the well-foundedness of `<` on `Nat`
  (`WFMin`, `NatLessThanWellFounded`), so it needs no induction over data.
- `CapacityCorrect`: `ASSUME ConfMaxInFlight \in Nat PROVE Spec => []CapacityBound`.
  CapacityBound is not inductive on its own, because it needs the map to be finite.
  The proof therefore uses `CapInv == TypeOK /\ IsFiniteSet(inFlight) /\ CapacityBound`.
  Every action except admission keeps the map or shrinks it (`FS_Subset`). Admission
  happens only when `Cardinality(inFlight) < MaxInFlight` (`FS_AddElement`). The
  hypothesis on the configured value is needed: with a negative value the bound fails
  in the initial state.
- `CommitOrderCorrect`: `Spec => []NoPrematureCommit`, for every value of the
  constants. `NoPrematureCommit` is not inductive as it stands. When
  `setInFlightComplete` marks the highest ready offset, the proof must know that every
  lower offset of the partition was already released. It must also know that this
  offset cannot be held by the consumer loop and missing from the map. The
  strengthening `IInv` (in `KafkaBridge.tla`) adds:
  - `CommitBelowMark`: `committed <= marked`, so a restart falls back to published
    offsets;
  - `CompletePublished`: `complete \subseteq published`;
  - `StreamCovered` and `MapCovered`: every offset below the stream position, and every
    offset below a context in the map, is in the map, published, or the message the
    waiting consumer loop holds (`Covered`);
  - `HeldBelowHandled` and `HeldAboveMap`: a held message that was never handled has
    everything below it handled, and lies above the map's contexts of its partition;
  - `DispatchHandled`: the message being dispatched is in the map or published.

  TLC checked `IInv` on the bridge_safety instance (1,056,092 states) before the
  proof. The step proof has one lemma per action (`ReceiveIInv`, `WokenIInv`,
  `DispatchIInv`, `SuccessIInv`, `ErrorIInv`, `CommitIInv`). The central one rests on
  `ReadyBelowPublished`. Every offset up to a released reqOffset is one of three
  things:
  - in the map, and then complete by readyToAck's contiguity;
  - already published;
  - the held message, which `HeldAboveMap` places above the map, a contradiction.

- `ReplyOnceCorrect`, `NoLeakCorrect` and `AckFindsContextCorrect`: `Spec => []P` for
  `ContextReplyOnce`, `NoLeakedContext` and `AckFindsContext`. All three follow from
  one inductive lifecycle invariant `LInv` (in `KafkaBridge.tla`). Every context in
  the map is in exactly one stage:
  - `processing` (handed to `OnMessage`);
  - `pending` (its reply is in the producer);
  - `complete`;
  - or it is the message the consumer loop has just admitted and is about to dispatch
    (`Fresh`).

  `ctxReplies` of a context is 1 exactly when it is pending or complete. None of the
  three properties is inductive alone. For example, the dispatch step keeps
  `NoLeakedContext` only because the admitted message is in no stage yet. The step
  proof has one lemma per action that moves a context between stages (`AdmitLInv`,
  `DispatchLInv`, `ProcessorLInv`, `SuccessLInv`). A crash or a rebalance either
  empties the map or leaves it alone.
- `TrackerRefines`: `Spec => TrackerRefinement`. `KafkaBridge` implements
  `TrackerAbstract`, for every value of the constants. The proof follows the standard
  refinement layout:
  - `Init` maps to `TA!Init`;
  - under `IInv` in both states, every step is a `TA!Next` step or leaves
    `<<published, marked, committed>>` unchanged;
  - `[]IInv` comes from `CommitOrderCorrect`'s lemmas.

  The one hard step is `SuccessRefines`. A `ProducerSuccessLoop` step is a
  `TA!Publish` whose witness is the new mark. That mark is at least the old one,
  because `MarkOffset` keeps the highest, and at most `LogEnd`, by
  `HighestOffsetSpec`. It is `Releasable` because `NoPrematureCommit` holds in the
  next state.
- `SupervisorTypeCorrect` (`SupervisorProofs.tla`): `Spec => []TypeOK` for the
  supervisor, for all disjoint sets of bridge names. In particular, `startServer` has
  returned exactly when the process has a result. TypeOK is not inductive, because a
  start failure adds the bridge to `failed` and TypeOK requires `failed` to be a
  subset of `conf`. The strengthening `SInv` adds:
  - both loops only visit configured keys (`todo \subseteq conf`);
  - only configured bridges leave `idle`;
  - nothing has started before `ReadConfig`;
  - at most one send is ever received, and only when the process exits.

  TLC checked `SInv` on the `supervisor` instance before the proof.
- `NoLostWakeupCorrect`: `Spec => []NoLostWakeup`. The invariant is inductive as it
  stands:
  - the consumer enters `wait` only from the for loop's check, which found the map
    full and leaves it unchanged (`WaitOrAdmitWakeup`);
  - the only steps that shrink the map move it out of `wait`: `ProducerSuccessLoop`
    broadcasts, and a restart sets it to `recv`.
- Operator lemmas used across these proofs:
  - `MaxExists` and `HighestOffsetSpec` for `HighestOffset`;
  - `ReadyToAckSpec`: `readyToAck` releases only complete contexts of the map, all
    of the acknowledged context's partition. `TypeStep`, `SuccessIInv` and
    `SuccessLInv` cite it.

These stay with TLC:

- **Liveness** (`AllCommitted`, `ReturnsOnFirstFinish`). Fairness and `ENABLED` are
  out of TLAPS's reach.
- **The violation runs.** These show that a property fails on a small instance, and
  TLC's trace is the evidence.
- **The eventual wake-up of the consumer loop.** `NoLostWakeupCorrect` proves only
  that it never sleeps beside a free slot. That a completion eventually comes needs
  fairness, and is part of `AllCommitted`.

## 5. Plan

Done:

1. `KafkaBridge`: tracker, consumer loop, producer loops, restart and rebalance, with
   its runs, mutants and findings.
2. The typing, capacity, commit-ordering and lifecycle theorems (`TypeCorrect`,
   `CapacityCorrect`, `CommitOrderCorrect`, `ReplyOnceCorrect`, `NoLeakCorrect`,
   `AckFindsContextCorrect`).
3. `TrackerAbstract` and the refinement `TrackerRefines`. The refinement also covers
   the action property that a mark never moves over an unpublished offset (the
   `Releasable` guard of `Publish`).
4. `Supervisor` (C7), with four findings and the proof `SupervisorTypeCorrect`.
5. The proof `NoLostWakeupCorrect`.

Still to do, in order:

6. `MsgProcessor.tla` from the spec (receipt polling with `maxTXWaitTime`,
   minimum 10 s, as a bounded timer). It would refine the abstract processor used
   here, in which every context is replied to exactly once, including on timeout and
   RPC errors.
7. A variant of the consumer that commits asynchronously, so that a crash loses the
   marks made after the last commit. This bounds how many duplicate replies a restart
   can produce.
8. The data race on `msgContext`. `String()` at line 156 reads `replyType` and
   `replyTime` while the processor's `Reply` writes them. Today it only garbles a log
   line; as undefined behaviour, a torn string read could also crash the process.

Not modelled: CLI flags, logging, YAML/JSON parsing (reduced to "fails", "prints" or
"names these bridges" in `ReadConfig`), the inside of the webhooks bridge, and the
JSON wire format. They are I/O and formatting, with no concurrent state that a property
could distinguish.
