# A verification of protoutil

TLA+ models of the parts of `jafaircl/protoutil` where steps of several actors
interleave, with TLC configurations that check them on small instances and TLAPS
proofs for every value of the constants. Paths below are relative to `src/packages/`.

1. [The system](#1-the-system) · 2. [Plan](#2-plan) · 3. [Modules and code](#3-modules-and-code) ·
4. [Runs, bounds, fairness](#4-runs-bounds-fairness) · 5. [Proofs](#5-proofs) ·
6. [What the models found](#6-what-the-models-found) · 7. [Not modelled](#7-not-modelled)

## 1. The system

protoutil is a TypeScript monorepo of libraries around protobuf. Two packages keep
state that several actors share; the others are pure, sequential functions.

### 1.1 `pubsub`: CloudEvents over Kafka, RabbitMQ and NATS

| component | state it keeps | operations | talks to |
|---|---|---|---|
| publisher, router (`publisher.ts`, `router.ts`) | routing table | `publish`, `dispatch`: event to disposition | a transport, by calls |
| transports (`kafka/`, `rabbitmq/`, `nats/transport.ts`) | consumers, channels, in-flight sets, startup promises | `publish`, `subscribe`, settlement of each delivery, `close` | broker, handler (callback), scheduler (calls) |
| Kafka scheduler (`kafka/scheduler.ts`) | `#records`, a heap, one timer, recovery offsets; durable truth in a compacted topic | `publishLater`, `retryLater`, `start` with replay, timer, `#deliverBatch`, `close` | schedules, history and target topics |
| RabbitMQ scheduler (`rabbitmq/scheduler.ts`) | `#scheduled`, one timer each; durable truth: unacknowledged messages of a queue | the same | schedule queue, exchange |
| NATS scheduler (`nats/scheduler.ts`) | in-flight set; durable truth: a KV bucket and a stream of wake-ups | the same, with recovery from the bucket | KV, JetStream |
| NATS connection pool (`nats/connection.ts`) | a map of reference-counted startup promises | `acquire`, `release` | NATS; transports and schedulers |
| memory transport, interceptors, options, CloudEvent conversion | lists for tests, nothing else | | |

An application calls `publish`. With `notBefore` the transport hands the event to its
scheduler (`publishLater`), else to the broker. The broker hands it to a subscriber
transport, which calls the handler through the router and *settles* the delivery by the
handler's disposition: acknowledge, send again now, send again later (`retryLater`), or
dead-letter. A scheduler makes a schedule durable, waits, publishes the event to its
target topic, and removes the schedule.

What is hard here is that every step is an `await` between a memory and a broker that
disagree for a while:

- **interleaving**: a schedule may be replaced, or retried by the subscriber that just
  received it, while its delivery is between two awaits;
- **failure**: a send that timed out is not cancelled and may still be applied; a batch
  fails half way; the process ends between publish and removal;
- **delivery**: brokers redeliver (rebalance, lost channel, `ack_wait`), return at the old
  place, deduplicate, compact;
- **waiting**: timers that nobody arms, replays that never end, slots and prefetch windows
  that fill up.

What makes the component correct: nothing is delivered early; what a caller was told is
persisted is delivered or replaced; a schedule ends only by its delivery; nothing waits
for ever; a message leaves a subscription only settled as its handler asked; attempts are
limited; a shared connection is closed by the last owner, and only by it.

### 1.2 `repo`: repositories over SQLite, PostgreSQL, MySQL and MongoDB

| component | state it keeps | operations | talks to |
|---|---|---|---|
| repository (`repository.ts`) | none of its own: the rows of a table | `get`, `list`, `count`, `create`, `update`, `delete` and the batch forms | an engine, by awaited calls |
| engines (`sqlite/`, `postgres/`, `mysql/`, `mongodb/engine.ts`) | a connection or a pool; the nesting depth of a transaction | find, insert, update, delete, their batch forms, `transaction` | a database |
| filters, masks, serialization | | query to condition, mask to columns, message to row | |

A repository operation is a sequence of engine calls: find, compute, write, and on MySQL
read back. `update` reads a row, merges the masked fields, computes an etag of the merged
message and writes the masked columns and the etag, unconditionally; `create` looks for a
duplicate, then inserts. A batch runs in a transaction, its own or the caller's.

What is hard here:

- **interleaving**: other callers' statements come between the statements of one;
- **isolation**: what a statement reads, and which rows wait for which transaction,
  differs between the four databases; the SQLite engine runs `BEGIN` on the one connection
  all callers share;
- **partial failure**: a statement of a batch fails, a nested transaction rolls back to its
  savepoint, an error is reported after the write;
- **stale state**: pages are offsets into a table that changes.

What makes it correct: a rejected call leaves nothing behind and an acknowledged one stays;
the stored etag is that of the stored row; an update with a mask leaves the other fields
alone; pages cover the list; no two callers wait for each other for ever.

### 1.3 The rest

`core` has the field masks that `repo` uses (union, intersection, application), which are
modelled, and durations and timestamps. `aip` (filter language, page tokens, order by,
field behaviour, etag), `aipql` (expressions to query text), `angular`, `protoc-gen-sql`,
`conformance-runner`: pure functions, user interface, generated text, test infrastructure.

`PROJECT.json` lists every component and every hazard with its line.

## 2. Plan

Done, in this order:

1. `DelayedDelivery`, the promise of the `PubSubScheduler` interface, and `KafkaScheduler`
   against it; proofs of its invariants and of the refinement.
2. `RabbitMqScheduler` and `NatsScheduler` against the same promise; proofs of the invariants
   and of the refinement for both.
3. `NatsConnectionPool`; proofs of its invariants.
4. `Settlement`, the three transports' settlement in one module, composed with a scheduler
   that is taken by its promise; proofs of its invariants and of the refinement.
5. `FieldMasks`: union, intersection and application against a definition on sets of paths;
   proofs that they meet it, for masks of any length.
6. `Repository` on top of it: single and batch operations of several callers on four
   engines, at the granularity of statements, with nested transactions and pages; proofs of
   its invariants and of its action property, for all four engines.

## 3. Modules and code

Common conventions. A schedule a client asked for is named by its index in `writes`, so a
replacement is a larger index with the same id. History variables (`writes`, `accepted`,
`delivered`, `answers`, `reported`) record what callers and subscribers saw; no action
reads them except to name what a retry is for. One action stands for the code between two
awaits. `late` holds requests whose caller saw an error but that may still be applied.
`used` counts what a behaviour has spent of each bound. Operators with a suffix
(`Due_Stale`, `AfterFailure_Dropped`) are plausible faults used to confirm that a property
notices them; the specification never uses them.

**`DelayedDelivery`** (`pubsub/src/types.ts`): a request is made, stored, delivered no
earlier than its `notBefore`, and retired only once delivered or replaced.

**`KafkaScheduler`** (`pubsub/src/kafka/scheduler.ts`, `producer.ts`).

| code | model |
|---|---|
| schedules, history, target topics | `log`, `history`, `delivered` |
| consumer group | `assigned`, `position`; `Assign`, `Revoke` (external) |
| `#records` and its heap, `#timer`, `#recoveryOffsets` | `records`, `armed`, `replaying` with `replayTo` |
| a suspended `#deliverDueBatch` | an element of `batches`: jobs, those still `todo`, and the send under way |
| `publishLater`, `retryLater`, `#writeSchedule` | `PublishLater`, `RetryLater`, `WriteSchedule` |
| `start` and replay; `eachMessage` with `#schedule`, `#cancelSchedule` | `Start`; `Consume` with `Apply`, `LeftToReplay`, `TimerAfterReplay` |
| timer callback, `popDue`, `#ownsPartition` | `Fire` with `Due`, `PopDue`, `Owned` |
| the three sends of `#deliverBatch`; its catch block | `Send` with `AfterAck`, `Progress`; `SendFails`, `Requeue` |
| `close`; end of the process | `Close`, `Crash` |

**`RabbitMqScheduler`** (`pubsub/src/rabbitmq/scheduler.ts`).

| code | model |
|---|---|
| schedule queue, a channel's unacknowledged messages | `queue` in order of arrival less `acked`, `held` |
| `#scheduled`, timers | `scheduled`, `timers` (a timer may outlive its record: `own`) |
| a suspended `#deliver` | an element of `deliveries` |
| `#handleMessage` with `#arm` and the acknowledgement of the replaced message | `Consume` with `Superseded`, `Arm`, `Disarm`, `Ack` |
| `#deliver` up to, and after, its await; its catch block | `Fire`, `Publishes`, `Confirm`; `PublishFails`, `Rearm` |
| `close` or end of the process; a channel closed for a bad ack | `Stop`; status `doomed`, then `ChannelError` to `broken` |

What a `#deliver` that outlives `close()` does is nothing that matters: it finds no
channel, and its catch block sets a timer that finds `#scheduled` empty; `Stop` drops it.

**`NatsScheduler`** (`pubsub/src/nats/scheduler.ts`).

| code | model |
|---|---|
| KV bucket, wake-ups in the stream | `kv`, `wakeups` (delay, holder, handed out before) |
| message ids JetStream remembers | `recent`; `Forget` (external) |
| `bucket.put`, then the wake-up | `Put`, `SendWakeup` |
| `#recoverFromKV`: the keys, then `bucket.get` and the publish of each | `recovering`; `Start`, `RecoverReads`, `RecoverSends`; `RecoverFails` |
| `#runLoop`, `#handleMessage` at each await, its catch block | `Receive`, `Check`, `CheckFails`, `Publish`, `Delete`, `DeliveryFails` |
| the calls a `#runLoop` waits for, and a limit it has reached | `Loop`, `AtLimit` |
| `close`, which returns messages while their calls go on | `Close`, `Closed` |

`CheckFails` is an error of `bucket.get` in `#handleMessage`, which no `try` surrounds
(`nats/scheduler.ts:368`): the call ends and its wake-up stays handed out with nobody at
work on it, until `AckWait` takes it back. `AckWait` needs no bound then; while a call is
at work it takes one of `MaxExpiries`. At the concurrency limit `#runLoop` awaits
`Promise.race`, and the rejected call ends it too: the worker is `stalled`, takes no more
wake-ups, and does not wait for its calls when it is closed. By default Node.js ends the
process on such a rejection, which is `Crash`. `RecoverFails` is the error of `keys()` or
`get()` that makes `start()` reject, after which clients cannot get past `start()`.

**`NatsConnectionPool`** (`pubsub/src/nats/connection.ts` and the owners in
`nats/scheduler.ts`, `nats/transport.ts`): `entry`, `refs` are the map at one key;
`startup`, `key`, `using` are an owner's `#startup`, `#sharedConnectionKey`, `#jetstream`;
`Start`/`Acquired`/`AcquireFails` are `acquireSharedNatsConnection` on both sides of its
await, `Close`/`Release`/`Released` are `close()` at its awaits; `Connects`, `ConnectFails`,
`ManagerReady` and `ManagerFails` are the outcomes of the two awaits of
`createSharedConnection`. `Sequential` says whether
the application awaits one call of an owner before the next.

**`Settlement`** (`*/transport.ts`, `router.ts`, `transport-utils.ts`).

| code | model |
|---|---|
| every copy of an event that was sent | `log`; a copy is named by its index |
| the topic, what of it is not acknowledged | `topic` in order of arrival, `pending` |
| concurrent deliveries | `slots` |
| transport, `maxAttempts`, dead letter topic | `config`, fixed per behaviour |
| `#consumeMessage` and `#settleDelivery` at each await | `Take`, `Handled`, `Sent`, `Acknowledged` |
| an error on the way: Kafka's callback rejects and the message comes again, the others report it and acknowledge | `Fails` with `AfterFailure`, `Reports` |
| the branching on the disposition; `retryLimitReached` | `Destination`; `Exhausted` |
| the attempt header, the message id of JetStream | `NextAttempt`; `Twins`, `dropped` |
| the scheduler | `scheduled`; `Due`, `DueAgain`, `Retire` |

`dispatch` is the choice of any disposition; `reject` and `dead_letter` are settled alike and
are one (`refuse`). The scheduler is taken by its promise: a schedule displaces the one of
the same event (`Displaced`), is published once or again, and ends after it was published.
`Promise` maps this part of the state to `DelayedDelivery`, with all instants 0: the clock
and who may deliver when are the schedulers' business, which their own refinements settle.
So a delayed retry is followed from disposition to redelivery *as long as the scheduler keeps its
promise*. The schedulers do while no id is reused and nothing is retried; a retry that
races the removal of its own schedule can be lost on Kafka and NATS (section 6), and that
loss is outside of `Settlement`.

**`FieldMasks`** (`core/src/wkt/fieldmask.ts`, which `repo` uses): pure operators
on a resource with a scalar, a nested message and a list. A path is the sequence of its
segments. `NormalizePaths`, `MergeFieldMasks`, `IntersectFieldMasks`, `FieldMaskHasPath`,
`ApplyFieldMask` are the functions of the same names; `SortPaths` is the sort by its result,
`IntersectRound` a round of the loop of `intersectPaths`. `Covered` and `Projection` say
what they should compute.

**`Repository`** (`repo/src/repository.ts` and the four engines).

| code | model |
|---|---|
| rows, uncommitted changes included | `table`; a row carries the calls that wrote it as history |
| an operation between two awaits | `call`: its `pc` names the statement to come, `read` what it found |
| an open `transaction()` and its savepoints | `tx`: a stack that remembers the rows as they were, to undo them |
| MySQL's and MongoDB's consistent reads | `snap`; what a statement reads is `View` |
| connection pool | `leased`: the callers with a transaction (`Begin`, `Leased`), and those whose single statement waits for a row lock (`Queues`, `Released`); any other statement needs a free connection at its instant (`Connected`) |
| the configuration and what callers ask for | `workload`, fixed per behaviour |
| what callers were told | `outcome`: `ok`, `rejected`, `undone` with its transaction, `unseen` (an error after the write), `guest` (done inside another caller's SQLite transaction); with the rows a call wrote and those it was told of (`Told`) |
| find, then checks and computations | `Call`, `Find` with `MergeForUpdate`, `Etag`, `Serialized`, `Columns` |
| the write and what the operation makes of its result; the read-back on MySQL, of all but the deletes | `Write` with `Hits`, `Blocked`, `Conflict`, `Refused`, `Enough`; `ReadBack` with `ReadsBack` |
| an error of the driver; the end of a deadlock, a circle of waiting transactions of any length | `StatementFails` |
| `list` by page tokens | `Page`, `ListReturns` |
| `transaction()` of a batch or a caller | `BeginBatch`, `BeginFails`, `Transaction`, `Commit`, `Release`, `Rollback` |

`Serialized` leaves out what `serializeMessage` leaves out: a field with its default value,
unless the configuration has a serializer for it (`hooks`).

The model takes for granted:

- Callers hand the transaction they were given to every call in its callback, and a callback
  lets the error of a call end it. A callback that catches the error and returns is left
  out: it would commit what a `replaceMany` or `deleteMany` had done before the repository
  counted too few rows, and on PostgreSQL, where a failed statement aborts the transaction,
  its `COMMIT` would roll back and say nothing.
- The identifier is a primary key, what is created has one, and the items of `batchUpdate`
  are found by it; queries are not strings. So `batchGet` and `batchUpdate` never need the
  further `findOne` per item (`repository.ts:626`, `:792`), and `Find` is one query.
- Masks are valid (`ValidMasks`: the wildcard is alone, paths name fields) and a page has at
  least one row.
- A statement is atomic, checksums are injective, MySQL counts matched rows. MongoDB's
  `replaceMany` is a bulk write and a find; the find sees the transaction's own snapshot and
  is merged into the write.

`RepositoryAssumption` and `InputAssumption` say what of this is about the constants.

`MCKafkaScheduler`, `MCRabbitMqScheduler`, `MCNatsScheduler`, `MCRepository` give the
configurations their partitioner, workloads, first tables and symmetry sets. Symmetry is
used only in runs without liveness. `MCRepository` also gives `SampleMasks` and
`SampleMessages`, over which `FieldMasks` states its laws for TLC (`MaskAlgebra`,
`ApplyIsProjection` of `Repository`); they are evaluated in one state before the first call.

## 4. Runs, bounds, fairness

| run | question | holds |
|---|---|---|
| `kafka_restart` | one worker, two ids, a crash or close, a failed send that may land late | type, no loss, tombstones follow deliveries, no stranded record, replay respects tombstones, `KeepsPromise` (so nothing early), `EventuallyDelivered` |
| `kafka_rebalance` | two workers, a rebalance, compaction, an id scheduled twice, a failure | `AtLeastOncePerId`; the other invariants are proved for this case too |
| `rabbit_scheduler` | two workers, two ids that may be reused, prefetch 2, a failed publish, a stop | type, `AtLeastOncePerId`, `AcksAreEarned` always; nothing withheld, no double ack, `KeepsPromise`, `EventuallyDelivered` while ids are unique |
| `nats_restart` | one worker, two ids, a failed request or rejected check, a crash or close at any await | `StoredHasWakeup`, `KeepsPromise` (so nothing lost or early), `EventuallyDelivered` |
| `nats_reuse` | two workers, one id twice, `ack_wait` expiring, deduplication | type, `AtLeastOncePerId`, `StoredHasWakeup` |
| `nats_pool` | three owners, three connections, overlapping owners | used connections are open, none leaks, one is shared, failed ones are forgotten |
| `settlement` | three transports, limit 2, with and without dead letters, a failure, a schedule published twice, a redelivery | type, `CompletedOrReported`, `NoEventIsLost`, `AttemptsWithinLimit`, `DeadLetterDeserved`, `EventuallySettled` |
| `repository` | two callers, two ids, four engines, four workloads (below) | type, `RejectedLeavesNothing`, `AcknowledgedSurvives`, `EtagsDescribeRows`, `MaskedWritesKeepTheRest`, `PagesCoverTheList`, `NobodyWaitsForever`; the laws of masks |
| `kafka_lost_retry`, `kafka_second_worker`, `rabbit_far_future`, `settlement_uncounted` | see section 6 | refuted |

**Why small bounds are enough.** Schedules of different ids meet only in a batch, a
prefetch window or an in-flight set, so two ids and windows of one or two fill them; one id
written two or three times gives a schedule, its replacement and a retry. One failure with
a late arrival, one stop, one expiry put each kind of event at every place of a behaviour,
and a second of the same kind mostly repeats the first after a recovery. The clock runs to
the delivery instant and on while a backed-off retry is waiting. What more of
everything could change is what the proofs are for.

`settlement` runs with a limit, on which most branches depend; with no limit (0) as well it
would not end in its time, and the theorems hold for both. `Overtaken`, the exception of
`NoEventIsLost`, takes three retries, so in this run the property holds without it.
`KeepsPromise` of `Settlement` holds with the same bounds but is left to its proof.

`nats_restart` has `Concurrency = 3` and two wake-ups handed out at most, so the worker stays
below its limit: at the limit a rejected check ends the loop, and `EventuallyDelivered`
fails (section 6). `nats_reuse` has a limit of one, which every call reaches, so its safety
properties are checked with stalled workers too. `RetryDelay` is 0 in the one and 1 in the
other.

`repository` chooses one of four workloads. (1) Every operation, two calls, two
transactions, a failing statement, a pool of two: every statement of one operation comes
between any two of another, inside a transaction, nested in one or outside. (2) Updates
that clear a field of a table without serializers. (3) Three calls on a pool of one
connection: callers wait for it while others hold it in a transaction or wait for a row with
it. (4) Four calls, two transactions that delete the same two rows in either order: they
wait for each other until `StatementFails` ends the circle. (3) is where an error
path that keeps its connection would show, (4) where a deadlock that nobody ends would.

**What a pairing of bounds leaves out.** `AtLeastOnce` is false once an id is reused (see
section 6), so the restart runs of Kafka and NATS forbid reuse, their reuse runs check the
weaker `AtLeastOncePerId`, and `rabbit_scheduler` has properties with the premise `IdsUnique`. `MaxDelay` is 2 where the real limit of `setTimeout` is 2^31 - 1 ms;
only `rabbit_far_future` exceeds it.

**Fairness.** `FairSpec` adds one weak fairness condition on `Progresses`: some of what
goes on without a caller (the clock, the restart of what is down, reading, timers, answers
of the broker, calls under way) goes on, nothing says which. No fairness is put on
callers, failures, rebalances or late arrivals. The code justifies it: an event loop with
work runs, a connected broker answers, a supervisor restarts what ended. Behaviours are
finite up to stuttering because every bound is, so this condition is enough for `[]<>`
properties. `EventuallyDelivered` says that accepted schedules are delivered once
failures stop, not when. `Repository` needs no fairness: `NobodyWaitsForever` says that
something can go on whenever anything is under way, and calls are finite.

Deadlock checking is off everywhere: when its bounds are spent a model rightly stops.

## 5. Proofs

`KafkaSchedulerProofs`, `KafkaDeliveryProofs` and `KafkaReplayProofs` hold theorems about `KafkaScheduler` for any sets of ids, workers and
partitions, any partitioner and any bounds, from the two assumptions `SetsAssumption` and
`NumbersAssumption` on the constants.

*The inductive invariant.* `NeverEarly` alone is not inductive: a send, or a late arrival,
appends what was prepared in an earlier step. `IInv` says what each stage knows:

- `LogInv`: an entry of the topic names a write of its id and is in its id's partition;
- `RecordsInv`: a record in a worker's memory names a write of its id and is due no
  earlier than the write asked (the back-off of a failed batch only moves it later);
- `BatchInv`: a job in a batch is past its instant; in step `history` its event is
  delivered, in step `tombstone` it is also in the history; jobs no longer to do have had
  their send;
- `LateInv`: a message on the wire knows what its stage knew;
- `TypeOK` and `NeverEarly`.

`Invariance` has one lemma per action (`SendKeeps`, `RequeueKeeps`, ...). A step only adds
writes, deliveries and history and never turns the clock back (`Stable`), so what was known
stays known.

*From it*:

| theorem | states |
|---|---|
| `TypeCorrect`, `NoEarlyDelivery` | `[]TypeOK`, `[]NeverEarly` |
| `TombstonesAreEarned` | `[]TombstonesFollowDelivery`: the only appends are messages of known writes, and a tombstone's stage knows its delivery and its history record |
| `NoIdIsForgotten` | `[]AtLeastOncePerId`: the last entry of an id is a live write or an earned tombstone, and neither an append nor a compaction removes the last entry |
| `NoScheduleIsLost` | `[]AtLeastOnce` when each id is scheduled once (no reuse, no retries) |
| `NoRecordIsStranded` | `[]NoStrandedRecord`, action by action |
| `ImplementsPromise` | `KeepsPromise` when each id is scheduled once. `SeenInv`: what a worker's memory, a batch or the wire is about has a last entry in the topic, so it is active or delivered. An append of a schedule is a `Request` or a `Store`, of an event a `Deliver`, of a tombstone a `Retire`, each or a stutter if it repeats; a compaction stutters |
| `ReplayIsRespected` | `[]ReplayRespectsTombstones` while no partition is revoked. `ReplayInv`: a partition has one reader; what is not to be replayed has been read to the offset of the start; what would supersede a record in memory is not read yet or came after the start; no timer or batch before the end of the replay; a write is in the topic once |

`SettlementProofs` proves `Settlement` for any sets of events, subscribers and transports
and any bounds, from `SettlementAssumption`. `AttemptsWithinLimit` alone is not inductive,
since a failed send may be applied steps later, and `CompletedOrReported` is not, since a
message is acknowledged a step after what earns it. `IInv` says what each stage knows:

- `CopiesInv`: a copy has an attempt within the limit and not above its number, and comes
  from a client or from an earlier copy of the same event, whose attempt is one less; on
  Kafka the count may start again at 1 (`Lineage`);
- `LateInv`, `SlotsInv`: a send, under way or late, is one its disposition asks for; a
  delivery about to be acknowledged is settled or explained;
- `SettledInv`: so is what was acknowledged; `DeadInv`: a dead letter was refused or spent
  its attempts;
- `ScheduledInv`, `ReplacedInv`, `DroppedInv`: a schedule was sent to the scheduler, one that
  is gone unpublished has a later one of its event, a dropped copy has a twin on the topic.

| theorem | states |
|---|---|
| `TypeCorrect`, `AttemptsAreLimited`, `DeadLettersAreDeserved` | `[]TypeOK`, `[]AttemptsWithinLimit`, `[]DeadLetterDeserved` |
| `NothingIsLostSilently` | `[]CompletedOrReported`, about one copy |
| `EventsAreNotLost` | `[]NoEventIsLost`, about an event over all its copies. Suppose no copy waits and none was the last. Then each has a successor: the one its settlement sent, the one that replaced it, or the twin of a dropped one. If none was dropped, the greatest copy has a greater one. If one was, none was replaced (`Overtaken`), and the copy on the topic with the greatest attempt has a successor with a greater one, itself or its twin on the topic |
| `SchedulesAsPromised` | `KeepsPromise`: a send is a `Request`, and a `Store` too if it is for the scheduler, `Due` a `Deliver`, `Retire` a `Retire`, the rest stutters |

`NatsConnectionPoolProofs` proves the pool for any finite set of owners and any bounds, from
`Assumption` and `Sequential`: each owner awaits one call before the next, without which the
properties are false (section 6). The point of its `IInv` is a count: the reference count
of a connection is the number of owners that wait for it or hold it
(`refs[g] = Cardinality(Holders(g))`), and the map points to the connection that has
holders. So the owner that brings the count to zero is the last, and what it closes nobody
uses. From it: `NobodyIsCutOff` (`UsedIsOpen`), `NothingIsLeaked`, `ConnectionIsShared`,
`FailureIsForgotten`.

`RabbitMqSchedulerProofs` proves `RabbitMqScheduler` for any sets of ids and workers and any
bounds, from `SetsAssumption` and `NumbersAssumption`, and that it implements
`DelayedDelivery`. Some of its `IInv` holds always: a message is held by one channel at
most (`HeldInv`), a confirmed publish has its event delivered (`ConfirmInv`), a publish that
is late has not arrived another way (`QueueInv`), what `#scheduled` keeps under an id is a
message of that id which the channel holds (`KeptInv`). The rest has a premise. While ids are unique a held message has one timer or one delivery, never both
(`OrderInv`): without that premise a replacement meets a delivery under way and `AtLeastOnce`
is false. While every delay also fits in a timer (`DelaysFit`, the assumption that
`rabbit_far_future` drops), a timer is set for the message's instant or later
(`PunctualInv`). From it: `TypeCorrect`, `NoIdIsForgotten`, `AcknowledgementsAreEarned`
without a premise; `NoScheduleIsLost`, `NothingIsWithheld`, `ChannelStaysOpen`,
`NoEarlyDelivery` while ids are unique; and `ImplementsPromise`, whose lemma
`StepKeepsPromise` maps `Publishes` and `Confirm` to `Deliver` and `Retire`, a late publish
to `Store` or `Deliver`, and all that happens inside a worker to a stutter.

`NatsSchedulerProofs` does the same for `NatsScheduler`, from its own `SetsAssumption` and
`NumbersAssumption`. Without a premise its `IInv` says that a key holds a schedule of its
id (`KeyInv`); that a put whose caller saw an error is not also counted as accepted, and
that an accepted one has a value under its key or an event of its id delivered
(`ClientInv`); that JetStream remembers only what it has (`RecentInv`); that what is being
published, or may be published late, was due, and what deletes a key has its id delivered
(`StageInv`). `StoredHasWakeup` is a part of it: the worker sleeps until a wake-up
comes, so a key without one would never be looked at. `OnceInv` has the premise `Once`, no
id reused and no retries: a call that goes on to publish has its schedule still in the
bucket, or delivered. Without it the delete of one schedule takes the next one of the same
id away (section 6). From it: `TypeCorrect`, `NoEarlyDelivery`, `NoScheduleSleeps`,
`NoIdIsForgotten` without a premise, `NoScheduleIsLost` and
`ImplementsPromise` under `Once`. In its `StepKeepsPromise` a `Put` is a `Request`, a
late put a `Store`, a publish a `Deliver` (a stutter if the event was there), a delete a
`Retire`, and the rest stutters.

`RepositoryProofs` proves `Repository` for any finite sets of callers and identifiers, any
workloads (requests, serializers, size of the pool, bounds) and first tables, on each engine, from
`RepositoryAssumption` and `InputAssumption`. None of its properties is inductive by itself,
since a rollback brings old row versions back and a write uses what an earlier statement
read. Its `IInv` follows the versions of a row through the places that keep one: the table,
the savepoints, the snapshots and what calls have read.

- `TypeInv`, `NumberInv`, `CallInv`: types; each call has a number of its own; what the stage
  of a call says about it and the transaction of its caller.
- `LockInv`: on SQLite one transaction at a time; elsewhere a row is touched by one open
  transaction at most. So a rollback restores nothing that another caller wrote.
- `HistInv`, `WrittenInv`, `SavedInv`, `LevelInv`: a call that failed or was undone wrote no
  version that is left anywhere; one that wrote and is not over is in its caller's innermost
  savepoint; a savepoint remembers the rows its calls wrote, from before they did.
- `SurviveInv`: a write that was not undone is in the table and in every version that a
  rollback could restore over it, unless that rollback undoes the call too.
- `ToldInv`: a call that may still be told of its rows, and has not failed, wrote each of them,
  unless it is MySQL's `batchUpdate`.
- `VersionInv`, `EtagInv`: the calls that wrote a version tell it from all others, so a
  write that finds the version its call has read finds the same contents, and the etag
  computed from them is right; each version has its own etag unless it is `loose`.
- `LeaseInv`: every open transaction of an engine with a pool has a connection, and otherwise
  only a write that waits for a row has one.
- `ReadInv`, `PageInv`: what a `batchUpdate` has read, and that the pages so far are the
  beginning of the list.

The lemmas before the actions describe the few things a step can do: nothing to the rows
(`Quiet...`), open or close a level of a transaction, write, restore. From `IInv`:

| theorem | states |
|---|---|
| `TypesAreKept` | `[]TypeOK` |
| `NothingIsLeft` | `[]RejectedLeavesNothing` |
| `DoneIsDone` | `[]AcknowledgedSurvives`: what was written stays, and but for MySQL's `batchUpdate` it is all the caller was told of |
| `EtagsAreOfTheirRows` | `[]EtagsDescribeRows` |
| `PagesAreTheList` | `[]PagesCoverTheList` |
| `SomebodyCanGoOn` | `[]NobodyWaitsForever`. Were everybody stuck, the pool would be full of callers that wait for rows of open transactions, and a smallest set of callers that wait only for each other is a circle, which `StatementFails` ends |
| `MaskedWritesKeep` | the action property `MaskedWritesKeepTheRest`. The columns of an update suffice to store its merged message, and the merge changes only fields the mask leads into |
| `ApplyProjects` | `ProjectionHolds`: `applyFieldMask` copies what the mask covers and nothing else, for every message and every mask that leads into the list once at most |
| `MasksAreSets` | `AlgebraHolds`: union and intersection of two masks cover the union and the intersection of what the masks cover, and are in normal form |
| `ApplyingProjects`, `MasksAreAnAlgebra` | `[]ApplyIsProjection`, `[]MaskAlgebra`: the same about whatever samples a run is given, so what TLC evaluates is what is proved |

`MaskedWritesKeep`, `ApplyProjects` and `MasksAreSets` are about masks of any length. The library's induction theorems cannot be used
here, so the proofs take the least number of paths for which the claim fails
(`LeastNumber`, `CopyTyped`). `MasksAreSets` goes by the order of the paths: each has a
place, and what is below a path is the stretch of places after it (`PathOrder`). The sort is
a permutation (`SortFacts`, by counting), so `normalizePaths`, which compares each path with
the last one taken, keeps a path above every other (`NormalizeFacts`); and while
`intersectPaths` walks through both masks, its result is in order and covers what both cover
below the places it has reached (`Walked`).

*Only model-checked*: liveness, which is outside of TLAPS here: `EventuallyDelivered` of the
three schedulers and `EventuallySettled`. Every other property of a passing run is proved,
some under a premise: `ReplayRespectsTombstones` while no partition is revoked (beyond
that it is false, section 6), the refinements of the schedulers and `AtLeastOnce` while ids
are used once, what is said above of RabbitMQ while ids are unique.

## 6. What the models found

Four runs end in a counterexample to something the repository says of itself.

- **`kafka_lost_retry`**. A subscriber that receives an event and asks for a delayed retry
  before the scheduler has appended the event's tombstone loses the retry: the tombstone
  carries only the id (`kafka/scheduler.ts:515`).
- **`kafka_second_worker`**. `start()` waits for the end of every partition although a
  member of the group reads only its own (`kafka/scheduler.ts:340`); a second worker on a
  topic of one partition never returns from it.
- **`rabbit_far_future`**. A schedule more than 2^31 - 1 ms ahead is published at once
  (`rabbitmq/scheduler.ts:298`).
- **`settlement_uncounted`**. Kafka's immediate retry drops the attempt number
  (`kafka/transport.ts:331`), so `maxAttempts` never ends it.

The models also show, when the bounds allow it, what the passing runs exclude or weaken:

- RabbitMQ: replacing a schedule while it is being published acknowledges its message
  twice, which closes the channel, and the replacement is forgotten in `#scheduled`
  (`rabbitmq/scheduler.ts:315`). `HeldIsScheduled` and `ChannelSurvives` fail without their
  premise `IdsUnique`; the behaviours of `rabbit_scheduler` include these.
- Kafka: a worker that loses a partition and gets it back reads it again from the beginning
  with its timer running, so it may deliver a finished schedule again before it reads its
  tombstone (`#markRecovered` returns early once recovery is over, `kafka/scheduler.ts:361`).
  `ReplayRespectsTombstones` fails with `MaxRevokes = 1`; the promise allows the repetition.
- NATS: a schedule put between the publish and the delete of the previous one is deleted
  with it (`nats/scheduler.ts:395`); `AtLeastOnce` fails with `ReuseIds` or `AllowRetries`.
- Pool: when `jetstreamManager()` rejects (`nats/connection.ts:83`), the connection that
  `connect()` has opened stays open and nobody has a reference to close it: `ManagerFails`
  leaves it `orphaned`. `NothingLeaks` holds of every other connection and fails if
  `orphaned` is counted as live.
- Pool: with `Sequential = FALSE`, two overlapping `close()` calls of one owner release
  twice and close the connection of the others; `UsedIsOpen` fails.
- RabbitMQ and NATS transports acknowledge a message whose retry or dead letter could not
  be sent (`rabbitmq/transport.ts:221`, `nats/transport.ts:214`). The event is reported in
  `deliveryFailed` and gone. `CompletedOrReported` says exactly this; without its last
  disjunct it fails on these two transports and holds on Kafka.
- NATS: an old attempt may overtake its successor. Attempt 2, an immediate retry, was
  consumed and attempt 3 is scheduled; attempt 1, whose acknowledgement was lost, comes
  again and its handler asks for a delayed retry. That schedule, attempt 2, replaces
  attempt 3 in the bucket (`nats/scheduler.ts:284`), and when it is due JetStream drops it
  as a duplicate, since its message id `topic:id:2` (`nats/scheduler.ts:463`) is that of the
  immediate retry (`nats/transport.ts:294`). The event is gone and nothing is reported.
  `NoEventIsLost` exempts exactly this (`Overtaken`) and fails without it, with
  `MaxRetries = 3` and `Limits = {0}`.
- NATS: an error of `bucket.get` in `#handleMessage` reaches nobody
  (`nats/scheduler.ts:368`). The wake-up comes again after `ack_wait`, so nothing is lost
  (`StoredHasWakeup`). But at the concurrency limit the error also ends `#runLoop` through
  `Promise.race` (line 339), and a process that has a handler for unhandled rejections goes
  on without a loop, until somebody closes and starts the scheduler. `EventuallyDelivered`
  fails in `nats_restart` with `Concurrency = 2`: with two calls under way one check is
  rejected, and what comes back after `ack_wait` is never taken. With the default of Node.js
  the process ends instead, and is started again.
- Etags: `EtagsDescribeRows` has three exceptions, the rows that are `loose`. An `update`
  whose mask names a field of a nested message (`s.x`) writes no column of it but does write
  the etag of the merged message. An `update` that empties a message field which has no
  serializer (the Timestamps of the repository's own tests, `repo/src/test-cases.ts:1731`)
  leaves the column as it was, since `serializeMessage` skips the field
  (`serialization.ts:142`), and writes the etag of the emptied message; the caller reads the
  old value back. And of two updates that interleave, each writes its columns and an etag
  that describes neither the row before nor after. (A batch writes whole rows, so it loses
  the other's columns instead.)
- MySQL: `replaceMany` does not look at the number of rows it has updated, but counts what a
  `SELECT` by key finds in the transaction's snapshot (`mysql/engine.ts:375`). A `batchUpdate`
  one of whose rows another caller deleted after the snapshot passes the count in
  `repository.ts:818` and is acknowledged, without that row. On the other engines it is
  rejected. `AcknowledgedSurvives` is about what was written there, and everywhere else
  about what the caller was told as well; it fails without this exception.
- Updates: a zero scalar named in a mask is not written, and a list is appended to what is
  there, also by the default mask. On SQL a query that matches several rows updates all of
  them. MySQL reads the row back by the query, so an update that changes what the query asks
  for reports "not found" after it has written (`mysql/engine.ts:258`, `unseen`).
- SQLite: a call of another caller, made while a transaction is open, is part of it. It is
  acknowledged, and undone when the transaction rolls back (`sqlite/engine.ts:350`);
  `AcknowledgedSurvives` leaves such calls (`guest`) out. A second transaction fails at `BEGIN`.
- Masks: two paths through one list keep only what the last one names, `l.*` makes empty
  elements, and after `l` a path `l.*.x` changes the message it copies from;
  `ApplyIsProjection` has the premise `PlainLists`.
- `batchGet` whose queries are not by identifier may report rows that are there as missing.

## 7. Not modelled

- The content of events, headers and topics; interceptors, except that one may fail around
  the handler; the creation of topics, queues, streams and consumers.
- Which thrown error becomes which disposition (`disposition.ts`): `Settlement` lets the
  handler answer anything.
- Records that predate the revision header (NATS), parse failures of scheduler records.
- `repo`: filter texts, read masks, `count` and total sizes, required and immutable fields,
  the order of batch results, batches above the parameter limit (several statements), the
  encoding of page tokens, errors of `COMMIT`, retries of MongoDB transactions.
- `core`: inverse masks, maps, durations and timestamps. The rest of `aip`, `aipql`,
  `angular`, `protoc-gen-sql`, `conformance-runner`: pure, sequential or generated,
  as noted in `PROJECT.json`.
