-------------------------- MODULE RabbitMqScheduler --------------------------
(***************************************************************************)
(* The durable RabbitMQ scheduler: src/rabbitmq/scheduler.ts of            *)
(* @protoutil/pubsub.                                                      *)
(*                                                                         *)
(* A schedule is one message of a durable queue. A worker consumes it,     *)
(* keeps it unacknowledged under its CloudEvent id in #scheduled with a    *)
(* timer of its own, publishes the event when the timer fires, and         *)
(* acknowledges the message once the broker has confirmed the publish.     *)
(*                                                                         *)
(* The broker is external: it hands the first ready message to a channel   *)
(* below its prefetch limit, makes what a closed channel held ready again  *)
(* at its old place, may apply a publish whose sender saw a timeout, and   *)
(* closes a channel that acknowledges a message it does not hold.          *)
(***************************************************************************)
EXTENDS Integers, Sequences, FiniteSets

CONSTANTS
  Ids,           \* CloudEvent ids
  Workers,       \* schedulers that consume one schedule queue
  NotBefores,    \* the delivery instants clients ask for
  Prefetch,      \* channel.prefetch(128)
  RetryDelay,    \* DEFAULT_SCHEDULER_RETRY_DELAY_MS
  MaxDelay,      \* the longest delay setTimeout keeps, 2^31 - 1 ms
  MaxNow, MaxWrites, MaxFailures, MaxStops  \* bounds

ASSUME SetsAssumption == NotBefores \subseteq Nat

ASSUME NumbersAssumption ==
  /\ Prefetch \in Nat \ {0} /\ MaxDelay \in Nat \ {0}
  /\ RetryDelay \in Nat
  /\ MaxNow \in Nat /\ MaxWrites \in Nat /\ MaxFailures \in Nat /\ MaxStops \in Nat

VARIABLES
  now,         \* Date.now()
  writes,      \* every schedule a client asked for: <<[id, notBefore], ...>>
  accepted,    \* the writes whose publishLater or retryLater resolved
  queue,       \* what the schedule queue took, in the order it came
  acked,       \* the messages of it that were acknowledged, and are gone
  delivered,   \* the writes whose event reached the exchange
  late,        \* publishes that failed for their caller and may still arrive
  status,      \* "down", "running", "doomed" (a bad ack was sent) or "broken"
  held,        \* the unacknowledged messages of each worker's channel
  scheduled,   \* #scheduled: the message kept under each id, 0 for none
  timers,      \* the timers that are set, each for the message it was set for
  deliveries,  \* the #deliver calls that are suspended in an await
  used         \* how much of each bound is spent

clientVars == <<writes, accepted>>
brokerVars == <<queue, acked, delivered, late>>
vars == <<now, clientVars, brokerVars, status, held, scheduled, timers, deliveries, used>>

-------------------------------------------------------------------------------
(* Data.  A message of the schedule queue is named by its index in writes.   *)

Write    == [id : Ids, notBefore : Nat]
Publish  == [kind : {"schedule", "target"}, ver : Nat]
\* own tells the timer a ScheduledMessage refers to from one it has overwritten.
Timer    == [worker : Workers, ver : Nat, at : Nat, own : BOOLEAN]
\* timer is the message whose timer woke the call, ver the one it delivers.
Delivery == [worker : Workers, timer : Nat, ver : Nat,
             step : {"publishing", "confirming", "failed"}]
Spent    == [failures : Nat, stops : Nat]

IdOf(v) == writes[v].id
Up(w) == status[w] \in {"running", "doomed"}
Queued == {queue[i] : i \in DOMAIN queue} \ acked
Ready == {v \in Queued : \A w \in Workers : v \notin held[w]}

-------------------------------------------------------------------------------
(* Clients: publishLater and retryLater, which need no consumer to be up.    *)

\* publishToScheduleQueue: the caller sees the confirm, or an error or a
\* timeout while the message may still be on its way.
WriteSchedule(id, notBefore) ==
  LET v == Len(writes) + 1 IN
  /\ Len(writes) < MaxWrites
  /\ writes' = Append(writes, [id |-> id, notBefore |-> notBefore])
  /\ \/ /\ queue' = Append(queue, v)
        /\ accepted' = accepted \cup {v}
        /\ UNCHANGED <<late, used>>
     \/ /\ used.failures < MaxFailures
        /\ late' = late \cup {[kind |-> "schedule", ver |-> v]}
        /\ used' = [used EXCEPT !.failures = @ + 1]
        /\ UNCHANGED <<accepted, queue>>
  /\ UNCHANGED <<now, acked, delivered, status, held, scheduled, timers, deliveries>>

PublishLater ==
  \E id \in Ids, notBefore \in NotBefores : WriteSchedule(id, notBefore)

\* A subscriber that was delivered an event asks for it again after a delay.
RetryLater ==
  \E v \in delivered, notBefore \in NotBefores :
    /\ notBefore >= now
    /\ WriteSchedule(IdOf(v), notBefore)

-------------------------------------------------------------------------------
(* The broker and the clock (external).                                      *)

Tick ==
  /\ now < MaxNow \/ \E t \in timers : t.at > now
  /\ now' = now + 1
  /\ UNCHANGED <<clientVars, brokerVars, status, held, scheduled, timers, deliveries, used>>

LandLate ==
  \E m \in late :
    /\ late' = late \ {m}
    /\ IF m.kind = "schedule"
         THEN queue' = Append(queue, m.ver) /\ UNCHANGED delivered
         ELSE delivered' = delivered \cup {m.ver} /\ UNCHANGED queue
    /\ UNCHANGED <<now, clientVars, acked, status, held, scheduled, timers, deliveries, used>>

\* ackMessage(v) on a channel that holds the messages of holding: the message
\* leaves the queue; an unknown one dooms the channel; a closed one ignores it.
\* v = 0 stands for no acknowledgement.
Ack(w, v, holding) ==
  /\ held' = [held EXCEPT ![w] = holding \ {v}]
  /\ acked' = acked \cup (holding \cap {v})
  /\ status' = [status EXCEPT ![w] =
       IF @ = "running" /\ v # 0 /\ v \notin holding THEN "doomed" ELSE @]

\* The broker closes the channel; nothing in the scheduler opens another.
ChannelError(w) ==
  /\ status[w] = "doomed"
  /\ status' = [status EXCEPT ![w] = "broken"]
  /\ held' = [held EXCEPT ![w] = {}]
  /\ UNCHANGED <<now, clientVars, brokerVars, scheduled, timers, deliveries, used>>

-------------------------------------------------------------------------------
(* Workers.                                                                  *)

Start(w) ==
  /\ status[w] = "down"
  /\ status' = [status EXCEPT ![w] = "running"]
  /\ UNCHANGED <<now, clientVars, brokerVars, held, scheduled, timers, deliveries, used>>

\* setTimeout: a delay that does not fit in 31 bits becomes 1 ms.
SetTimeout_Zero(delay) == 0    \* faulty: as if notBefore were not looked at
SetTimeout(delay) == IF delay > MaxDelay THEN 1 ELSE IF delay < 0 THEN 0 ELSE delay

\* #arm: set a timer for message v and make it the one that v refers to.
Arm(w, v, notBefore, set) ==
  {[t EXCEPT !.own = @ /\ (t.worker # w \/ t.ver # v)] : t \in set} \cup
  {[worker |-> w, ver |-> v, at |-> now + SetTimeout(notBefore - now), own |-> TRUE]}

\* clearTimeout(scheduled.timer) of message v.
Disarm(w, v, set) == {t \in set : ~(t.worker = w /\ t.ver = v /\ t.own)}

\* The message that v takes the place of, 0 for none.
Superseded_Itself(w, v) == v    \* faulty: the one just read
Superseded(w, v) == scheduled[w][IdOf(v)]

\* #handleMessage: the new message takes the place of the one kept under its
\* id, which is acknowledged, and a timer is set for it.
Consume(w) ==
  /\ Up(w)
  /\ Cardinality(held[w]) < Prefetch
  /\ \E i \in DOMAIN queue :
       /\ queue[i] \in Ready
       /\ \A j \in 1 .. i - 1 : queue[j] \notin Ready
       /\ LET v == queue[i]
              existing == Superseded(w, v)
          IN /\ Ack(w, existing, held[w] \cup {v})
             /\ scheduled' = [scheduled EXCEPT ![w][IdOf(v)] = v]
             /\ timers' = Arm(w, v, writes[v].notBefore, Disarm(w, existing, timers))
  /\ UNCHANGED <<now, clientVars, queue, delivered, late, deliveries, used>>

\* A timer fires: #deliver(id) takes whatever is kept under the id by now, and
\* runs up to its await of publishImmediate.
Fire(w) ==
  /\ \E t \in timers :
       /\ t.worker = w /\ t.at <= now
       /\ LET v == scheduled[w][IdOf(t.ver)] IN
            /\ timers' = Disarm(w, v, timers \ {t})
            /\ deliveries' = IF v = 0 THEN deliveries
                             ELSE deliveries \cup {[worker |-> w, timer |-> t.ver, ver |-> v,
                                                    step |-> "publishing"]}
  /\ UNCHANGED <<now, clientVars, brokerVars, status, held, scheduled, used>>

\* The exchange takes the event; the confirm is still to come.
Publishes(d) ==
  /\ d.step = "publishing"
  /\ delivered' = delivered \cup {d.ver}
  /\ deliveries' = (deliveries \ {d}) \cup {[d EXCEPT !.step = "confirming"]}
  /\ UNCHANGED <<now, clientVars, queue, acked, late, status, held, scheduled, timers, used>>

\* publishImmediate resolves: the message is acknowledged, and what is kept
\* under its id by now is forgotten.
Confirm(d) ==
  /\ d.step = "confirming"
  /\ Ack(d.worker, d.ver, held[d.worker])
  /\ scheduled' = [scheduled EXCEPT ![d.worker][IdOf(d.ver)] = 0]
  /\ deliveries' = deliveries \ {d}
  /\ UNCHANGED <<now, clientVars, queue, delivered, late, timers, used>>

\* publishImmediate rejects, by an error or by its timeout.
Unpublished(d) ==
  IF d.step = "publishing" THEN {[kind |-> "target", ver |-> d.ver]} ELSE {}
AfterFailure_Swallowed(d) ==    \* faulty: carries on as if it had resolved
  {[d EXCEPT !.step = "confirming"]}
AfterFailure_Dropped(d) == {}   \* faulty: no catch block
AfterFailure(d) == {[d EXCEPT !.step = "failed"]}
PublishFails(d) ==
  /\ d.step \in {"publishing", "confirming"}
  /\ used.failures < MaxFailures
  /\ late' = late \cup Unpublished(d)
  /\ deliveries' = (deliveries \ {d}) \cup AfterFailure(d)
  /\ used' = [used EXCEPT !.failures = @ + 1]
  /\ UNCHANGED <<now, clientVars, queue, acked, delivered, status, held, scheduled, timers>>

\* The catch block, after its interceptors: the record is armed again.
Rearm(d) ==
  /\ d.step = "failed"
  /\ timers' = Arm(d.worker, d.ver, now + RetryDelay, timers)
  /\ deliveries' = deliveries \ {d}
  /\ UNCHANGED <<now, clientVars, brokerVars, status, held, scheduled, used>>

\* close(), or the end of the process: what was in memory is gone, what the
\* channel held is ready again, what was being published may still arrive.
TimersLeft_All(w) == timers    \* faulty: close() does not clear them
TimersLeft(w) == {t \in timers : t.worker # w}
Stop(w) ==
  /\ status[w] # "down"
  /\ used.stops < MaxStops
  /\ status' = [status EXCEPT ![w] = "down"]
  /\ held' = [held EXCEPT ![w] = {}]
  /\ scheduled' = [scheduled EXCEPT ![w] = [id \in Ids |-> 0]]
  /\ timers' = TimersLeft(w)
  /\ deliveries' = {d \in deliveries : d.worker # w}
  /\ late' = late \cup UNION {Unpublished(d) : d \in deliveries \ deliveries'}
  /\ used' = [used EXCEPT !.stops = @ + 1]
  /\ UNCHANGED <<now, clientVars, queue, acked, delivered>>

-------------------------------------------------------------------------------
(* The specification.                                                        *)

Init ==
  /\ now = 0
  /\ writes = <<>> /\ accepted = {}
  /\ queue = <<>> /\ acked = {} /\ delivered = {} /\ late = {}
  /\ status = [w \in Workers |-> "down"]
  /\ held = [w \in Workers |-> {}]
  /\ scheduled = [w \in Workers |-> [id \in Ids |-> 0]]
  /\ timers = {} /\ deliveries = {}
  /\ used = [failures |-> 0, stops |-> 0]

Next ==
  \/ PublishLater \/ RetryLater
  \/ \E w \in Workers : Start(w) \/ Consume(w) \/ Fire(w) \/ Stop(w) \/ ChannelError(w)
  \/ \E d \in deliveries : Publishes(d) \/ Confirm(d) \/ PublishFails(d) \/ Rearm(d)
  \/ LandLate
  \/ Tick

Spec == Init /\ [][Next]_vars

\* What goes on without a caller: the clock, the restart of what is down, the
\* consumer, the timers, and the answers of the broker.
Progresses ==
  \/ Tick
  \/ \E w \in Workers : Start(w) \/ Consume(w) \/ Fire(w) \/ ChannelError(w)
  \/ \E d \in deliveries : Publishes(d) \/ Confirm(d) \/ Rearm(d)

FairSpec == Spec /\ WF_vars(Progresses)

-------------------------------------------------------------------------------
(* Properties.                                                               *)

\* Only a scheduler that is up has timers and deliveries.
TypeOK ==
  LET open == {w \in Workers : status[w] # "down"} IN
  /\ now \in Nat
  /\ writes \in Seq(Write)
  /\ accepted \subseteq DOMAIN writes
  /\ queue \in Seq(DOMAIN writes) /\ acked \subseteq DOMAIN writes
  /\ delivered \subseteq DOMAIN writes
  /\ late \subseteq [kind : {"schedule", "target"}, ver : DOMAIN writes]
  /\ status \in [Workers -> {"down", "running", "doomed", "broken"}]
  /\ held \in [Workers -> SUBSET DOMAIN writes]
  /\ scheduled \in [Workers -> [Ids -> Nat]]
  /\ timers \subseteq Timer
  /\ deliveries \subseteq Delivery
  /\ \A t \in timers \cup deliveries : t.worker \in open /\ t.ver \in DOMAIN writes
  /\ used \in Spent

\* No event is published before the notBefore it was scheduled with.
NeverEarly == \A v \in delivered : writes[v].notBefore <= now

\* No id was scheduled a second time so far, by a client or by a retry.
IdsUnique == \A u, v \in DOMAIN writes : IdOf(u) = IdOf(v) => u = v

\* A schedule whose caller was told it is persisted has been delivered, or its
\* message is still in the queue, or a later request took its place.
AtLeastOnce ==
  \A v \in accepted :
    \/ v \in delivered
    \/ v \in Queued
    \/ \E u \in DOMAIN writes : u > v /\ IdOf(u) = IdOf(v)

\* The weaker promise that survives the reuse of an id: for an id somebody
\* scheduled, some event was delivered or some message is in the queue.
AtLeastOncePerId ==
  \A v \in accepted : \E u \in DOMAIN writes :
     IdOf(u) = IdOf(v) /\ (u \in delivered \/ u \in Queued)

\* A message leaves the queue only when its event has been delivered, or when
\* another schedule for the same id stays.
AcksAreEarned ==
  [][\A v \in Queued \ Queued' :
       v \in delivered \/ \E u \in Queued' : IdOf(u) = IdOf(v)]_vars

\* A message that a worker keeps unacknowledged is the one it has under its id,
\* and its timer is set or it is being delivered: no message is withheld from
\* the other workers by one that has forgotten it.
HeldIsScheduled ==
  IdsUnique => \A w \in Workers : Up(w) =>
    \A v \in held[w] :
      /\ scheduled[w][IdOf(v)] = v
      /\ \/ \E t \in timers : t.worker = w /\ t.ver = v
         \/ \E d \in deliveries : d.worker = w /\ d.ver = v

\* No message is acknowledged twice on a channel: the channel, the only source
\* of schedules a worker ever has, stays open.
ChannelSurvives == IdsUnique => \A w \in Workers : status[w] \notin {"doomed", "broken"}

\* Again and again, everything accepted so far has been delivered.
EventuallyDelivered == []<>(IdsUnique => accepted \subseteq delivered)

\* The scheduler implements the promise of PubSubScheduler.
Promise == INSTANCE DelayedDelivery WITH requests <- writes, stored <- Queued
KeepsPromise == Promise!Init /\ [][IdsUnique' => [Promise!Next]_(Promise!vars)]_vars
=============================================================================
