------------------------------ MODULE Settlement ------------------------------
(***************************************************************************)
(* How the broker transports of @protoutil/pubsub settle what they         *)
(* consume: src/kafka/transport.ts, src/rabbitmq/transport.ts and          *)
(* src/nats/transport.ts, with the disposition of src/router.ts.           *)
(*                                                                         *)
(* A subscriber takes a message, calls the handler, sends the event where  *)
(* the disposition wants it (its topic again, the scheduler, the dead      *)
(* letter topic) and acknowledges the message. The three transports differ *)
(* in two places: what an error on the way does, and the attempt number of *)
(* an immediate retry. One behaviour runs one configuration.               *)
(*                                                                         *)
(* The brokers are external. A message in hand may be given out again (a   *)
(* rebalance, a lost channel, ack_wait); a send whose caller saw an error  *)
(* may still arrive; JetStream may drop a message id it has seen. The      *)
(* schedulers are taken by their promise, DelayedDelivery: at the end of   *)
(* this module their part of the state is mapped to it.                    *)
(***************************************************************************)
EXTENDS Integers, Sequences, SequencesExt, FiniteSets

CONSTANTS
  Events,       \* CloudEvents clients publish
  Slots,        \* the deliveries that are handled at a time, over all subscribers
  Transports,   \* of "kafka", "rabbitmq" and "nats"
  Limits,       \* the maxAttempts subscribers may ask for, 0 for none
  MaxRetries, MaxFailures, MaxRedeliveries  \* bounds

ASSUME SettlementAssumption ==
  /\ Transports \subseteq {"kafka", "rabbitmq", "nats"}
  /\ Limits \subseteq Nat

VARIABLES
  config,     \* [transport, limit, deadLetters]: SubscribeRequest.maxAttempts, deadLetterTopic
  log,        \* every copy of an event that was sent to its topic or the scheduler
  topic,      \* the copies that arrived on the topic, in this order
  pending,    \* those of them that are not acknowledged
  scheduled,  \* the copies that are active schedules
  dropped,    \* the copies JetStream dropped as duplicates
  dead,       \* the copies whose event was sent to the dead letter topic
  late,       \* sends that failed for their caller and may still arrive
  slots,      \* what each slot does with the copy it took
  answers,    \* history: the dispositions handlers gave, <<copy, disposition>>
  reported,   \* history: the copies that were reported in deliveryFailed
  used        \* how much of each bound is spent

brokerVars == <<log, topic, pending, scheduled, dropped, dead, late>>
vars == <<config, brokerVars, slots, answers, reported, used>>

-------------------------------------------------------------------------------
(* Data.  A copy is named by its index in log.                               *)

Retries  == {"retry", "retry_later"}
Refusals == {"refuse"}   \* reject and dead_letter, which are settled alike
Dispositions == {"ack"} \cup Retries \cup Refusals

\* attempt is the x-attempt header; sends counts how often the event really was
\* sent; from is the copy whose settlement sent this one, 0 for a client; later
\* that it was sent to the scheduler; parses that cloudEventFromBytes accepts it.
Copy == [event : Events, parses : BOOLEAN, later : BOOLEAN,
         attempt : Nat, sends : Nat, from : Nat]
Send == [to : {"topic", "schedule", "dead"}, copy : Copy]
Task == [msg : Nat, step : {"handling", "sending", "acking"},
         to : {"topic", "schedule", "dead", "none"}]
Idle == [msg |-> 0, step |-> "idle", to |-> "none"]

Kafka == config.transport = "kafka"
Nats  == config.transport = "nats"
InHand(m) == {s \in Slots : slots[s].msg = m}

Arrived   == ToSet(topic)
Published == {n \in Arrived \cup dropped : log[n].later}   \* by the scheduler
Waiting   == pending \cup (scheduled \ Published)
Replaced  == DOMAIN log \ (scheduled \cup Arrived \cup dropped)

\* JetStream may drop the message id topic:id:attempt when it has seen it.
Twins(n, copies) ==
  {k \in DOMAIN copies \ {n} : /\ copies[k].event = copies[n].event
                               /\ copies[k].attempt = copies[n].attempt}
OnTopic(n, copies) ==
  \/ topic' = Append(topic, n) /\ pending' = pending \cup {n} /\ UNCHANGED dropped
  \/ /\ Nats /\ Twins(n, copies) \cap Arrived # {}
     /\ dropped' = dropped \cup {n} /\ UNCHANGED <<topic, pending>>

\* A send arrives. A schedule takes the place of the one of the same event.
Displaced(event) == {n \in scheduled : log[n].event = event}
Arrives(send) ==
  \/ /\ send.to = "dead"
     /\ dead' = dead \cup {send.copy.from}
     /\ UNCHANGED <<log, topic, pending, scheduled, dropped>>
  \/ /\ send.to = "topic"
     /\ log' = Append(log, send.copy)
     /\ OnTopic(Len(log'), log')
     /\ UNCHANGED <<scheduled, dead>>
  \/ /\ send.to = "schedule"
     /\ log' = Append(log, send.copy)
     /\ scheduled' = (scheduled \ Displaced(send.copy.event)) \cup {Len(log')}
     /\ UNCHANGED <<topic, pending, dropped, dead>>

-------------------------------------------------------------------------------
(* Publishers and the broker.                                                *)

\* publish(), with notBefore or without, or bytes that another program wrote.
Publish ==
  \E e \in Events, to \in {"topic", "schedule"}, parses \in BOOLEAN :
    /\ to = "schedule" => parses
    /\ \A n \in DOMAIN log : log[n].event # e
    /\ Arrives([to |-> to, copy |-> [event |-> e, parses |-> parses, later |-> to = "schedule",
                                     attempt |-> 1, sends |-> 1, from |-> 0]])
    /\ UNCHANGED <<config, late, slots, answers, reported, used>>

LandLate ==
  \E send \in late :
    /\ late' = late \ {send}
    /\ Arrives(send)
    /\ UNCHANGED <<config, slots, answers, reported, used>>

\* The scheduler publishes what is due, again when it could not remove it, and
\* removes it.
Due ==
  \E n \in scheduled \ Published :
    /\ OnTopic(n, log)
    /\ UNCHANGED <<config, log, scheduled, dead, late, slots, answers, reported, used>>

DueAgain ==
  \E n \in scheduled \cap Published :
    /\ used.failures < MaxFailures
    /\ used' = [used EXCEPT !.failures = @ + 1]
    /\ Arrives([to |-> "topic", copy |-> [log[n] EXCEPT !.later = FALSE]])
    /\ UNCHANGED <<config, late, slots, answers, reported>>

Retire ==
  \E n \in scheduled \cap Published :
    /\ scheduled' = scheduled \ {n}
    /\ UNCHANGED <<config, log, topic, pending, dropped, dead, late, slots, answers, reported, used>>

-------------------------------------------------------------------------------
(* Subscribers.                                                              *)

\* A free slot is given a message: on Kafka the first of the partition, and
\* only while no other is in hand. Bytes that do not parse are acknowledged.
FirstStep_Routed(m) == "handling"   \* faulty: bytes that do not parse are routed
FirstStep(m) == IF log[m].parses THEN "handling" ELSE "acking"
Place(m) == CHOOSE i \in DOMAIN topic : topic[i] = m
Take(s) ==
  /\ slots[s] = Idle
  /\ \E m \in pending :
       /\ Kafka => \A n \in pending : Place(m) <= Place(n)
       /\ LET again == InHand(m) # {} \/ (Kafka /\ \E r \in Slots : slots[r] # Idle) IN
            /\ again => used.redeliveries < MaxRedeliveries
            /\ used' = IF again THEN [used EXCEPT !.redeliveries = @ + 1] ELSE used
       /\ slots' = [slots EXCEPT ![s] = [msg |-> m, to |-> "none", step |-> FirstStep(m)]]
  /\ UNCHANGED <<config, brokerVars, answers, reported>>

\* retryLimitReached(attempt, maxAttempts)
Exhausted_OneLate(m) == config.limit > 0 /\ log[m].attempt > config.limit   \* faulty
Exhausted_OneEarly(m) == config.limit > 0 /\ log[m].attempt + 1 >= config.limit   \* faulty
Exhausted(m) == config.limit > 0 /\ log[m].attempt >= config.limit

\* Where the event has to be before its message may be acknowledged.
Destination(m, disposition) ==
  CASE disposition \in Refusals \/ (disposition \in Retries /\ Exhausted(m)) ->
         IF config.deadLetters THEN "dead" ELSE "none"
    [] disposition = "retry" /\ ~Exhausted(m) -> "topic"
    [] disposition = "retry_later" /\ ~Exhausted(m) -> "schedule"
    [] disposition = "ack" -> "none"

\* The handler answers and #settleDelivery begins.
Handled(s) ==
  LET m == slots[s].msg IN
  /\ slots[s].step = "handling"
  /\ \E d \in Dispositions :
       /\ d \in Retries => used.retries < MaxRetries
       /\ used' = [used EXCEPT !.retries = @ + IF d \in Retries THEN 1 ELSE 0]
       /\ answers' = answers \cup {<<m, d>>}
       /\ LET to == Destination(m, d) IN
            slots' = [slots EXCEPT ![s] =
              [msg |-> m, to |-> to, step |-> IF to = "none" THEN "acking" ELSE "sending"]]
  /\ UNCHANGED <<config, brokerVars, reported>>

\* What a settlement sends. Kafka's immediate retry carries no attempt header.
NextAttempt_Kept(m, to) == log[m].attempt   \* faulty: the same message id again
NextAttempt(m, to) == IF Kafka /\ to = "topic" THEN 1 ELSE log[m].attempt + 1
Outgoing(task) ==
  [to |-> task.to,
   copy |-> [log[task.msg] EXCEPT !.attempt = NextAttempt(task.msg, task.to),
                                  !.sends = @ + 1, !.from = task.msg,
                                  !.later = task.to = "schedule"]]
InFlight(task) == IF task.step = "sending" THEN {Outgoing(task)} ELSE {}

Sent(s) ==
  /\ slots[s].step = "sending"
  /\ Arrives(Outgoing(slots[s]))
  /\ slots' = [slots EXCEPT ![s].step = "acking"]
  /\ UNCHANGED <<config, late, answers, reported, used>>

\* An error on the way, of a send or of an interceptor around the handler. The
\* Kafka callback rejects and its message comes again; the others report the
\* failure and acknowledge the message.
AfterFailure(s) ==
  IF Kafka THEN Idle ELSE [slots[s] EXCEPT !.step = "acking", !.to = "none"]
Reports_Silent(s) == {}   \* faulty: acknowledged without deliveryFailed
Reports(s) == IF Kafka THEN {} ELSE {slots[s].msg}
Fails(s) ==
  /\ slots[s].step \in {"handling", "sending"}
  /\ used.failures < MaxFailures
  /\ late' = late \cup InFlight(slots[s])
  /\ slots' = [slots EXCEPT ![s] = AfterFailure(s)]
  /\ reported' = reported \cup Reports(s)
  /\ used' = [used EXCEPT !.failures = @ + 1]
  /\ UNCHANGED <<config, log, topic, pending, scheduled, dropped, dead, answers>>

\* commitDelivery, ackMessage, safeAck; the slot is free for the next message.
Freed_Never(s) == slots[s]   \* faulty: the delivery stays in inFlight
Freed(s) == Idle
Acknowledged(s) ==
  /\ slots[s].step = "acking"
  /\ pending' = pending \ {slots[s].msg}
  /\ slots' = [slots EXCEPT ![s] = Freed(s)]
  /\ UNCHANGED <<config, log, topic, scheduled, dropped, dead, late, answers, reported, used>>

\* The acknowledgement does not reach the broker, the message comes again.
AckLost(s) ==
  /\ slots[s].step = "acking"
  /\ used.failures < MaxFailures
  /\ slots' = [slots EXCEPT ![s] = Idle]
  /\ used' = [used EXCEPT !.failures = @ + 1]
  /\ UNCHANGED <<config, brokerVars, answers, reported>>

\* The subscriber is closed or its process ends.
Stop(s) ==
  /\ slots[s] # Idle
  /\ used.failures < MaxFailures
  /\ late' = late \cup InFlight(slots[s])
  /\ slots' = [slots EXCEPT ![s] = Idle]
  /\ used' = [used EXCEPT !.failures = @ + 1]
  /\ UNCHANGED <<config, log, topic, pending, scheduled, dropped, dead, answers, reported>>

-------------------------------------------------------------------------------
(* The specification.                                                        *)

Init ==
  /\ config \in [transport : Transports, limit : Limits, deadLetters : BOOLEAN]
  /\ log = <<>> /\ topic = <<>> /\ pending = {} /\ scheduled = {} /\ dropped = {}
  /\ dead = {} /\ late = {}
  /\ slots = [s \in Slots |-> Idle]
  /\ answers = {} /\ reported = {}
  /\ used = [retries |-> 0, failures |-> 0, redeliveries |-> 0]

Next ==
  \/ Publish \/ LandLate \/ Due \/ DueAgain \/ Retire
  \/ \E s \in Slots :
       \/ Take(s) \/ Handled(s) \/ Sent(s) \/ Fails(s)
       \/ Acknowledged(s) \/ AckLost(s) \/ Stop(s)

Spec == Init /\ [][Next]_vars

\* What goes on by itself once a subscriber is up and its handlers return.
Progresses == Due \/ Retire \/ \E s \in Slots : Take(s) \/ Handled(s) \/ Sent(s) \/ Acknowledged(s)

FairSpec == Spec /\ WF_vars(Progresses)

-------------------------------------------------------------------------------
(* Properties.                                                               *)

\* A slot works on a copy that reached the topic; nothing unreadable is ever
\* given to a handler.
TypeOK ==
  /\ config \in [transport : Transports, limit : Limits, deadLetters : BOOLEAN]
  /\ log \in Seq(Copy)
  /\ topic \in Seq(DOMAIN log) /\ pending \subseteq Arrived /\ Arrived \cap dropped = {}
  /\ scheduled \cup dropped \cup dead \cup reported \subseteq DOMAIN log
  /\ late \subseteq Send
  /\ slots \in [Slots -> Task \cup {Idle}]
  /\ \A s \in Slots : slots[s] # Idle => slots[s].msg \in Arrived
  /\ answers \subseteq {m \in DOMAIN log : log[m].parses} \X Dispositions

\* What one of the dispositions a handler gave for a copy asks for has happened.
Finished(m) ==
  \/ m \in dead
  \/ \E d \in Dispositions : <<m, d>> \in answers /\ Destination(m, d) = "none"
CarriedOut(m) == Finished(m) \/ \E n \in DOMAIN log : log[n].from = m
Explained(m) == ~log[m].parses \/ (m \in reported /\ ~Kafka)

\* A message that has left the broker was settled as its handler asked: acked,
\* refused, dead-lettered or sent again. The exceptions are bytes that do not
\* parse, a duplicate that JetStream dropped while its twin arrived, a schedule
\* that a later one of its event replaced and, on RabbitMQ and NATS only, a
\* failure reported in deliveryFailed.
CompletedOrReported ==
  \A m \in DOMAIN log \ Waiting :
    \/ CarriedOut(m)
    \/ Explained(m)
    \/ m \in dropped /\ Twins(m, log) \cap Arrived # {}
    \/ m \in Replaced /\ \E n \in DOMAIN log :
         n > m /\ log[n].later /\ log[n].event = log[m].event

\* From copy to copy the event itself is not lost: one of them waits at the
\* broker, or one was the last, acked, refused, dead-lettered or explained. The
\* exception is an event of which a schedule was replaced and a publish dropped:
\* the schedule that replaced it may be the older attempt, which JetStream has seen.
Overtaken(e) ==
  \E m \in Replaced, n \in dropped : log[m].event = e /\ log[n].event = e
NoEventIsLost ==
  \A n \in DOMAIN log :
    \/ Overtaken(log[n].event)
    \/ \E m \in DOMAIN log :
         log[m].event = log[n].event /\ (m \in Waiting \/ Finished(m) \/ Explained(m))

\* No copy carries an attempt number above maxAttempts, however settlements
\* overlap with redeliveries.
AttemptsWithinLimit ==
  config.limit > 0 => \A n \in DOMAIN log : log[n].attempt <= config.limit

\* An event is on the dead letter topic only because a handler refused it, or
\* asked for a retry when the event had been sent maxAttempts times.
DeadLetterDeserved ==
  \A m \in dead :
    \/ \E d \in Refusals : <<m, d>> \in answers
    \/ /\ config.limit > 0 /\ log[m].sends >= config.limit
       /\ \E d \in Retries : <<m, d>> \in answers

\* Once the failures are over every message is settled, and every slot is used
\* again for those that follow.
EventuallySettled == []<>(pending = {} /\ scheduled = {})

\* maxAttempts bounds how often an event is sent to its handler by retries.
RetriesBounded ==
  config.limit > 0 => \A n \in DOMAIN log : log[n].sends <= config.limit

-------------------------------------------------------------------------------
(* The promise of the scheduler that the transports rely on.                 *)

\* Every copy is a request for its event; one that is sent to the topic directly
\* is never stored. The transports and what is left over by their failures do to
\* the schedules what the promise allows, and nothing else.
Requests == [n \in DOMAIN log |-> [id |-> log[n].event, notBefore |-> 0]]
Promise == INSTANCE DelayedDelivery WITH
  Ids <- Events, NotBefores <- {0},
  now <- 0, requests <- Requests, stored <- scheduled, delivered <- Published
KeepsPromise == Promise!Spec
=============================================================================
