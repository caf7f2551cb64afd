---------------------------- MODULE KafkaScheduler ----------------------------
(***************************************************************************)
(* The durable Kafka scheduler: src/kafka/scheduler.ts of @protoutil/      *)
(* pubsub, with the part of kafka/producer.ts it publishes through.        *)
(*                                                                         *)
(* Every worker of one scheduler consumer group keeps its timers in memory *)
(* and its truth in the compacted schedules topic, keyed by CloudEvent id. *)
(* A worker replays that topic, arms a timer for the earliest record, and  *)
(* delivers what is due with three sends: the event to its target topic, a *)
(* history record, a tombstone that ends the schedule.                     *)
(*                                                                         *)
(* The broker is external: partitions are logs read from the beginning by  *)
(* whoever is assigned them (the consumer neither commits nor stores       *)
(* offsets), a send that failed for its caller may still be appended later *)
(* (the promise that loses Promise.race is not cancelled), and compaction  *)
(* leaves holes in the offsets.                                            *)
(***************************************************************************)
EXTENDS Integers, Sequences, FiniteSets

CONSTANTS
  Ids,                  \* CloudEvent ids
  Workers,              \* scheduler instances sharing the consumer group
  Partitions,           \* partitions of the schedules topic
  PartitionOf,          \* the partitioner: [Ids -> Partitions]
  None,                 \* no worker, no id
  NotBefores,           \* the delivery instants clients ask for
  DeliveryConcurrency,  \* options.deliveryConcurrency: records per timer wake
  RetryDelay,           \* options.deliveryRetryDelayMs
  ReuseIds,             \* may a client publish later an id it scheduled before?
  AllowRetries,         \* may a subscriber ask for a delayed retry?
  MaxNow, MaxWrites, MaxFailures, MaxStops, MaxRevokes, MaxCompactions  \* bounds

ASSUME SetsAssumption ==
  /\ None \notin Ids \cup Workers
  /\ PartitionOf \in [Ids -> Partitions]
  /\ NotBefores \subseteq Nat
  /\ ReuseIds \in BOOLEAN /\ AllowRetries \in BOOLEAN

ASSUME NumbersAssumption ==
  /\ DeliveryConcurrency \in Nat \ {0}
  /\ RetryDelay \in Nat
  /\ MaxNow \in Nat /\ MaxWrites \in Nat /\ MaxFailures \in Nat
  /\ MaxStops \in Nat /\ MaxRevokes \in Nat /\ MaxCompactions \in Nat

VARIABLES
  now,        \* Date.now()
  writes,     \* every record a client asked to persist: <<[id, notBefore], ...>>
  accepted,   \* the writes whose publishLater or retryLater resolved
  log,        \* the schedules topic, a sequence of entries per partition
  delivered,  \* the writes whose event is in its target topic
  history,    \* the writes with a record in the history topic
  late,       \* messages whose send failed but that may still be appended
  assigned,   \* the consumer's assignment(): the partitions of each worker
  position,   \* the next offset the worker assigned a partition reads
  status,     \* "down", "recovering" (start() is waiting) or "running"
  replayTo,   \* the last offset of each partition when the worker started
  replaying,  \* the keys of #recoveryOffsets: partitions not yet replayed
  records,    \* #records: the active schedule per id
  armed,      \* is #timer set?
  batches,    \* the #deliverDueBatch calls that are suspended in an await
  used        \* how much of each bound is spent

clientVars == <<writes, accepted>>
topicVars  == <<log, delivered, history, late>>
groupVars  == <<assigned, position>>
workerVars == <<status, replayTo, replaying, records, armed>>
vars == <<now, clientVars, topicVars, groupVars, workerVars, batches, used>>

-------------------------------------------------------------------------------
(* Data.  A write is named by its index in writes; 0 stands for no write, so *)
(* an entry of version 0 is a tombstone and a record of version 0 is absent. *)

Write     == [id : Ids, notBefore : Nat]
Entry     == [id : Ids \cup {None}, ver : Nat]
Compacted == [id |-> None, ver |-> 0]
Record    == [ver : Nat, due : Nat]
NoRecord  == [ver |-> 0, due |-> 0]
Job       == [id : Ids, ver : Nat, due : Nat]
Sends     == {"target", "history", "tombstone"}
Message   == [kind : Sends \cup {"schedule"}, id : Ids, ver : Nat]
Batch     == [worker : Workers \cup {None}, step : Sends \cup {"failed"},
              jobs : SUBSET Job, todo : SUBSET Job]
Spent     == [failures : Nat, stops : Nat, revokes : Nat, compactions : Nat]

-------------------------------------------------------------------------------
(* The broker (external).                                                    *)

\* The broker appends one message to the topic its kind names.
Land(kind, id, ver) ==
  /\ delivered' = IF kind = "target" THEN delivered \cup {ver} ELSE delivered
  /\ history' = IF kind = "history" THEN history \cup {ver} ELSE history
  /\ log' = IF kind \in {"schedule", "tombstone"}
              THEN [log EXCEPT ![PartitionOf[id]] =
                     Append(@, [id |-> id, ver |-> IF kind = "schedule" THEN ver ELSE 0])]
              ELSE log

\* A message whose sender saw an error or a timeout is appended after all.
LandLate ==
  \E m \in late :
    /\ Land(m.kind, m.id, m.ver)
    /\ late' = late \ {m}
    /\ UNCHANGED <<now, clientVars, groupVars, workerVars, batches, used>>

\* Compaction drops an entry that a later one with the same key supersedes.
Compact(p) ==
  /\ used.compactions < MaxCompactions
  /\ \E i, j \in DOMAIN log[p] :
       /\ i < j
       /\ log[p][i] # Compacted
       /\ log[p][i].id = log[p][j].id
       /\ log' = [log EXCEPT ![p][i] = Compacted]
  /\ used' = [used EXCEPT !.compactions = @ + 1]
  /\ UNCHANGED <<now, clientVars, delivered, history, late, groupVars, workerVars, batches>>

\* The group gives a partition to a member, which reads it from the beginning.
Assign(p) ==
  \E w \in Workers :
    /\ status[w] # "down"
    /\ \A u \in Workers : p \notin assigned[u]
    /\ assigned' = [assigned EXCEPT ![w] = @ \cup {p}]
    /\ position' = [position EXCEPT ![p] = 1]
    /\ UNCHANGED <<now, clientVars, topicVars, workerVars, batches, used>>

\* A rebalance takes a partition away; the scheduler installs no handler for it.
Revoke(p) ==
  /\ used.revokes < MaxRevokes
  /\ \E w \in Workers :
       /\ p \in assigned[w]
       /\ assigned' = [assigned EXCEPT ![w] = @ \ {p}]
  /\ used' = [used EXCEPT !.revokes = @ + 1]
  /\ UNCHANGED <<now, clientVars, topicVars, position, workerVars, batches>>

\* The clock stops at MaxNow unless a record backed off to a later instant.
Tick ==
  /\ now < MaxNow \/ \E w \in Workers, id \in Ids : records[w][id].due > now
  /\ now' = now + 1
  /\ UNCHANGED <<clientVars, topicVars, groupVars, workerVars, batches, used>>

-------------------------------------------------------------------------------
(* Clients: KafkaScheduler.publishLater and retryLater.                      *)

\* #writeSchedule: one send, keyed by the CloudEvent id. The caller sees it
\* succeed, or sees an error while the message may still be on its way.
WriteSchedule(id, notBefore) ==
  LET v == Len(writes) + 1 IN
  /\ \E w \in Workers : status[w] = "running"    \* both calls await start()
  /\ Len(writes) < MaxWrites
  /\ writes' = Append(writes, [id |-> id, notBefore |-> notBefore])
  /\ \/ /\ Land("schedule", id, v)
        /\ accepted' = accepted \cup {v}
        /\ UNCHANGED <<late, used>>
     \/ /\ used.failures < MaxFailures
        /\ late' = late \cup {[kind |-> "schedule", id |-> id, ver |-> v]}
        /\ used' = [used EXCEPT !.failures = @ + 1]
        /\ UNCHANGED <<accepted, log, delivered, history>>
  /\ UNCHANGED <<now, groupVars, workerVars, batches>>

PublishLater ==
  \E id \in Ids, notBefore \in NotBefores :
    /\ ReuseIds \/ \A v \in DOMAIN writes : writes[v].id # id
    /\ WriteSchedule(id, notBefore)

\* A subscriber that was delivered an event asks for it again after a delay.
RetryLater ==
  \E v \in delivered, notBefore \in NotBefores :
    /\ AllowRetries
    /\ notBefore >= now
    /\ WriteSchedule(writes[v].id, notBefore)

-------------------------------------------------------------------------------
(* Workers.                                                                  *)

\* #armNextTimer: a timer is set exactly when the heap has an active record.
ArmNextTimer(recs) == \E id \in Ids : recs[id].ver # 0

\* start(): capture the log-end offsets, then consume until they are replayed.
Start(w) ==
  /\ status[w] = "down"
  /\ LET behind == {p \in Partitions : log[p] # <<>>} IN
       /\ replayTo' = [replayTo EXCEPT ![w] = [p \in Partitions |-> Len(log[p])]]
       /\ replaying' = [replaying EXCEPT ![w] = behind]
       /\ status' = [status EXCEPT ![w] = IF behind = {} THEN "running" ELSE "recovering"]
  /\ UNCHANGED <<now, clientVars, topicVars, groupVars, records, armed, batches, used>>

\* #markRecovered: what is left to replay once offset o of p has been read.
LeftToReplay_StopsEarly(w, p, o) ==    \* faulty: one record too soon
  IF o + 1 < replayTo[w][p] THEN replaying[w] ELSE replaying[w] \ {p}
LeftToReplay(w, p, o) ==
  IF o < replayTo[w][p] THEN replaying[w] ELSE replaying[w] \ {p}

\* #schedule and #cancelSchedule: the effect of one entry on #records.
Apply(recs, e) ==
  [recs EXCEPT ![e.id] = IF e.ver = 0 THEN NoRecord
                         ELSE [ver |-> e.ver, due |-> writes[e.ver].notBefore]]

\* Timers are armed outside recovery, and once at its end (#finishRecovery).
TimerAfterReplay_LiveOnly(w, left, recs) ==    \* faulty: not at its end
  IF status[w] = "running" THEN ArmNextTimer(recs) ELSE armed[w]
TimerAfterReplay(w, left, recs) ==
  IF left = {} THEN ArmNextTimer(recs) ELSE armed[w]

\* eachMessage: the consumer hands over the next entry of a partition.
Consume(w, p) ==
  /\ p \in assigned[w]
  /\ \E o \in position[p] .. Len(log[p]) :
       /\ log[p][o] # Compacted
       /\ \A k \in position[p] .. o - 1 : log[p][k] = Compacted
       /\ position' = [position EXCEPT ![p] = o + 1]
       /\ LET left == LeftToReplay(w, p, o)
              recs == Apply(records[w], log[p][o])
          IN /\ records' = [records EXCEPT ![w] = recs]
             /\ replaying' = [replaying EXCEPT ![w] = left]
             /\ status' = [status EXCEPT ![w] = IF left = {} THEN "running" ELSE @]
             /\ armed' = [armed EXCEPT ![w] = TimerAfterReplay(w, left, recs)]
  /\ UNCHANGED <<now, clientVars, topicVars, assigned, replayTo, batches, used>>

\* ScheduleQueue.popDue takes the earliest due records, at most the limit.
Due_AnyTime(w) == {id \in Ids : records[w][id].ver # 0}    \* faulty: ignores the clock
Due_Stale(w) == {id \in Ids : records[w][id].due <= now}    \* faulty: ignores #records
Due(w) == {id \in Ids : records[w][id].ver # 0 /\ records[w][id].due <= now}
PopDue(w) ==
  {D \in SUBSET Due(w) :
     /\ D # {}
     /\ Cardinality(D) <= DeliveryConcurrency
     /\ Cardinality(D) = DeliveryConcurrency \/ D = Due(w)
     /\ \A i \in D, j \in Due(w) \ D : records[w][i].due <= records[w][j].due}

\* The records of D in partitions that the worker is assigned right now.
Owned(w, D) ==
  {[id |-> id, ver |-> records[w][id].ver, due |-> records[w][id].due] :
     id \in {i \in D : PartitionOf[i] \in assigned[w]}}

\* The timer fires: popDue, then #deliverDueBatch up to its first await.
Fire(w) ==
  /\ armed[w]
  /\ \E D \in PopDue(w) :
       LET rest  == [id \in Ids |-> IF id \in D THEN NoRecord ELSE records[w][id]]
           owned == Owned(w, D)
       IN /\ records' = [records EXCEPT ![w] = rest]
          /\ armed' = [armed EXCEPT ![w] = owned = {} /\ ArmNextTimer(rest)]
          /\ batches' = IF owned = {} THEN batches
                        ELSE batches \cup {[worker |-> w, step |-> "target",
                                            jobs |-> owned, todo |-> owned]}
  /\ UNCHANGED <<now, clientVars, topicVars, groupVars, status, replayTo, replaying, used>>

\* #deliverBatch sends events, then history records, then tombstones.
AfterAck_NoHistory(step) == "tombstone"    \* faulty
AfterAck(step) == IF step = "target" THEN "history" ELSE "tombstone"

\* The batch after the broker has appended the message for job j. The last
\* append is the acknowledgement that #deliverBatch awaits.
Progress(b, j) ==
  IF b.todo # {j} THEN {[b EXCEPT !.todo = @ \ {j}]}
  ELSE IF b.step = "tombstone" THEN {}
  ELSE {[b EXCEPT !.step = AfterAck(@), !.todo = b.jobs]}

Send(b) ==
  /\ b.step \in Sends
  /\ \E j \in b.todo :
       /\ Land(b.step, j.id, j.ver)
       /\ batches' = (batches \ {b}) \cup Progress(b, j)
       /\ armed' = IF Progress(b, j) = {} /\ b.worker # None
                     THEN [armed EXCEPT ![b.worker] = ArmNextTimer(records[b.worker])]
                     ELSE armed
  /\ UNCHANGED <<now, clientVars, late, groupVars, status, replayTo, replaying, records, used>>

\* A send is rejected or times out; what is not appended yet may come late.
Undelivered(b) == {[kind |-> b.step, id |-> j.id, ver |-> j.ver] : j \in b.todo}
AfterFailure_Swallowed(b) ==    \* faulty: carries on as if the send had succeeded
  {[b EXCEPT !.step = "tombstone", !.todo = b.jobs]}
AfterFailure_Dropped(b) == {}    \* faulty: no catch block
AfterFailure(b) ==
  IF b.worker = None THEN {} ELSE {[b EXCEPT !.step = "failed", !.todo = b.jobs]}
SendFails(b) ==
  /\ b.step \in Sends
  /\ used.failures < MaxFailures
  /\ late' = late \cup Undelivered(b)
  /\ batches' = (batches \ {b}) \cup AfterFailure(b)
  /\ used' = [used EXCEPT !.failures = @ + 1]
  /\ UNCHANGED <<now, clientVars, log, delivered, history, groupVars, workerVars>>

\* The catch block re-enters one record of the batch, whatever #records now
\* holds for its id, then awaits an interceptor; after the last it re-arms.
BackOff(t) == t + RetryDelay
Requeue(b) ==
  /\ b.step = "failed"
  /\ \E j \in b.todo :
       /\ records' = [records EXCEPT ![b.worker][j.id] = [ver |-> j.ver, due |-> BackOff(now)]]
       /\ \/ /\ b.todo # {j}
             /\ batches' = (batches \ {b}) \cup {[b EXCEPT !.todo = @ \ {j}]}
             /\ UNCHANGED armed
          \/ /\ b.todo = {j}
             /\ batches' = batches \ {b}
             /\ armed' = [armed EXCEPT ![b.worker] = TRUE]
  /\ UNCHANGED <<now, clientVars, topicVars, groupVars, status, replayTo, replaying, used>>

\* A worker leaves: it loses its memory and its partitions, not its messages.
Leave(w) ==
  /\ status[w] # "down"
  /\ used.stops < MaxStops
  /\ status' = [status EXCEPT ![w] = "down"]
  /\ records' = [records EXCEPT ![w] = [id \in Ids |-> NoRecord]]
  /\ armed' = [armed EXCEPT ![w] = FALSE]
  /\ replaying' = [replaying EXCEPT ![w] = {}]
  /\ assigned' = [assigned EXCEPT ![w] = {}]
  /\ used' = [used EXCEPT !.stops = @ + 1]
  /\ UNCHANGED <<now, clientVars, log, delivered, history, position, replayTo>>

\* close() clears the timer and disconnects; a suspended batch goes on alone.
Close(w) ==
  /\ Leave(w)
  /\ batches' = {[b EXCEPT !.worker = IF @ = w THEN None ELSE @] :
                    b \in {c \in batches : c.worker # w \/ c.step # "failed"}}
  /\ UNCHANGED late

\* The process dies; messages it was sending may already be on the wire.
Crash(w) ==
  /\ Leave(w)
  /\ batches' = {b \in batches : b.worker # w}
  /\ late' = late \cup UNION {Undelivered(b) : b \in {c \in batches : c.worker = w /\ c.step \in Sends}}

-------------------------------------------------------------------------------
(* The specification.                                                        *)

Init ==
  /\ now = 0
  /\ writes = <<>> /\ accepted = {}
  /\ log = [p \in Partitions |-> <<>>]
  /\ delivered = {} /\ history = {} /\ late = {}
  /\ assigned = [w \in Workers |-> {}]
  /\ position = [p \in Partitions |-> 1]
  /\ status = [w \in Workers |-> "down"]
  /\ replayTo = [w \in Workers |-> [p \in Partitions |-> 0]]
  /\ replaying = [w \in Workers |-> {}]
  /\ records = [w \in Workers |-> [id \in Ids |-> NoRecord]]
  /\ armed = [w \in Workers |-> FALSE]
  /\ batches = {}
  /\ used = [failures |-> 0, stops |-> 0, revokes |-> 0, compactions |-> 0]

Next ==
  \/ PublishLater \/ RetryLater
  \/ \E w \in Workers : Start(w) \/ Fire(w) \/ Close(w) \/ Crash(w)
  \/ \E w \in Workers, p \in Partitions : Consume(w, p)
  \/ \E b \in batches : Send(b) \/ SendFails(b) \/ Requeue(b)
  \/ LandLate
  \/ \E p \in Partitions : Compact(p) \/ Assign(p) \/ Revoke(p)
  \/ Tick

Spec == Init /\ [][Next]_vars

\* What the scheduler and its environment keep doing on their own: the clock
\* advances, stopped workers are restarted, the group assigns partitions, the
\* event loop runs what is ready and a send is answered. Publishing, failures,
\* stops, rebalances and late messages are not among them.
Progresses ==
  \/ Tick
  \/ \E p \in Partitions : Assign(p)
  \/ \E w \in Workers : Start(w) \/ Fire(w)
  \/ \E w \in Workers, p \in Partitions : Consume(w, p)
  \/ \E b \in batches : Send(b) \/ Requeue(b)

\* Some of it always goes on; nothing says which.
FairSpec == Spec /\ WF_vars(Progresses)

-------------------------------------------------------------------------------
(* Properties.                                                               *)

TypeOK ==
  /\ now \in Nat
  /\ writes \in Seq(Write)
  /\ accepted \subseteq DOMAIN writes
  /\ log \in [Partitions -> Seq(Entry)]
  /\ delivered \subseteq DOMAIN writes /\ history \subseteq DOMAIN writes
  /\ late \subseteq Message
  /\ assigned \in [Workers -> SUBSET Partitions]
  /\ position \in [Partitions -> Nat \ {0}]
  /\ status \in [Workers -> {"down", "recovering", "running"}]
  /\ replayTo \in [Workers -> [Partitions -> Nat]]
  /\ replaying \in [Workers -> SUBSET Partitions]
  /\ records \in [Workers -> [Ids -> Record]]
  /\ armed \in [Workers -> BOOLEAN]
  /\ batches \subseteq Batch
  /\ used \in Spent

\* No event reaches its target topic before the notBefore it was scheduled
\* with, through replacements, replays, backed-off retries and late sends.
NeverEarly == \A v \in delivered : writes[v].notBefore <= now

\* Live(v): v is the last word of the schedules topic on its id.
Live(v) ==
  LET topic == log[PartitionOf[writes[v].id]] IN
  \E o \in DOMAIN topic :
    /\ topic[o] = [id |-> writes[v].id, ver |-> v]
    /\ \A k \in DOMAIN topic : k > o => topic[k].id # writes[v].id

Replaced(v) == \E u \in DOMAIN writes : u > v /\ writes[u].id = writes[v].id

\* A schedule whose caller was told it is persisted is delivered, or is still
\* the active record of the topic, or a later request took its place. No
\* crash, lost answer, replay or tombstone makes it disappear.
AtLeastOnce == \A v \in accepted : v \in delivered \/ Live(v) \/ Replaced(v)

\* The weaker promise that survives the reuse of an id: for an id somebody
\* scheduled, some event was delivered or some record is active.
AtLeastOncePerId ==
  \A v \in accepted : \E u \in DOMAIN writes :
     writes[u].id = writes[v].id /\ (u \in delivered \/ Live(u))

\* A tombstone in the topic is the end of a delivery: an event of its id was
\* published, and recorded in the history topic, before it was appended.
TombstonesFollowDelivery ==
  \A p \in Partitions : \A o \in DOMAIN log[p] :
    log[p][o] # Compacted /\ log[p][o].ver = 0 =>
      \E v \in delivered \cap history : writes[v].id = log[p][o].id

\* A running worker that holds a record has a timer set, or a batch under way
\* whose end sets it: no record waits for a wake-up that never comes.
NoStrandedRecord ==
  \A w \in Workers :
    status[w] = "running" /\ (\E id \in Ids : records[w][id].ver # 0) =>
      armed[w] \/ \E b \in batches : b.worker = w

\* A worker never takes up a schedule whose tombstone, or replacement, was in
\* the topic already when the worker started.
ReplayRespectsTombstones ==
  \A b \in batches : b.worker # None =>
    \A j \in b.jobs :
      LET topic == log[PartitionOf[j.id]] IN
      \A i, k \in DOMAIN topic :
        (topic[i] = [id |-> j.id, ver |-> j.ver] /\ i < k /\ topic[k].id = j.id)
          => k > replayTo[b.worker][PartitionOf[j.id]]

\* Again and again, everything accepted so far has been delivered: whatever
\* crashed, failed or was closed, no accepted schedule waits forever.
EventuallyDelivered == []<>(accepted \subseteq delivered)

\* start() of every worker eventually returns.
StartCompletes == \A w \in Workers : status[w] = "recovering" ~> status[w] # "recovering"

\* The scheduler implements the promise of PubSubScheduler.
Stored == {v \in DOMAIN writes : Live(v)}
Promise == INSTANCE DelayedDelivery WITH requests <- writes, stored <- Stored
KeepsPromise == Promise!Spec
=============================================================================
