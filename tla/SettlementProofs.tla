--------------------------- MODULE SettlementProofs ---------------------------
(***************************************************************************)
(* Theorems about Settlement, for every set of events, slots and           *)
(* transports, every limit and every value of the bounds.                  *)
(***************************************************************************)
EXTENDS Settlement, SequenceTheorems, WellFoundedInduction, TLAPS

(***************************************************************************)
(* The inductive invariant. What a step of a settlement relies on was      *)
(* established by the step before it, and a failure, a late arrival or a   *)
(* redelivery may come in between: every send on its way is one the        *)
(* disposition earned, and a message about to be acknowledged is settled.  *)
(***************************************************************************)
\* m may be on the dead letter topic.
Deserved(m) ==
  \/ \E d \in Refusals : <<m, d>> \in answers
  \/ /\ config.limit > 0 /\ log[m].sends >= config.limit
     /\ \E d \in Retries : <<m, d>> \in answers

\* m may be acknowledged.
Settled(m) == CarriedOut(m) \/ Explained(m)

\* Where a copy comes from: a client, or the settlement of an earlier copy.
Lineage(c) ==
  /\ c.from = 0 => c.attempt = 1
  /\ c.from # 0 =>
       /\ c.from \in DOMAIN log
       /\ c.event = log[c.from].event
       /\ c.attempt \in {1, log[c.from].attempt + 1}
       /\ Nats => c.attempt = log[c.from].attempt + 1

GoodCopy(c) ==
  /\ c.attempt <= c.sends
  /\ config.limit > 0 => c.attempt <= config.limit
  /\ Lineage(c)

GoodSend(send) ==
  /\ send \in Send
  /\ send.to # "dead" => GoodCopy(send.copy) /\ (send.copy.later <=> send.to = "schedule")
  /\ send.to = "dead" => send.copy.from \in DOMAIN log /\ Deserved(send.copy.from)

GoodTask(t) ==
  /\ t \in Task
  /\ t.msg \in Arrived
  /\ t.step \in {"handling", "sending"} => log[t.msg].parses
  /\ t.step = "sending" => GoodSend(Outgoing(t))
  /\ t.step = "acking" => Settled(t.msg)

CopiesInv ==
  \A n \in DOMAIN log : GoodCopy(log[n]) /\ log[n].from < n /\ log[n].attempt <= n
LateInv == \A send \in late : GoodSend(send)
SlotsInv == \A s \in Slots, t \in Task : slots[s] = t => GoodTask(t)
DroppedInv ==
  /\ dropped # {} => Nats
  /\ \A m \in dropped : Twins(m, log) \cap Arrived # {}
ScheduledInv == \A n \in scheduled : log[n].later
ReplacedInv ==
  \A m \in Replaced : \E n \in DOMAIN log :
    n > m /\ log[n].later /\ log[n].event = log[m].event
SettledInv == \A m \in Arrived \ pending : Settled(m)
DeadInv == \A m \in dead : Deserved(m)

IInv ==
  /\ TypeOK /\ CopiesInv /\ LateInv /\ SlotsInv
  /\ DroppedInv /\ ScheduledInv /\ ReplacedInv /\ SettledInv /\ DeadInv

-------------------------------------------------------------------------------
(* What was once known stays known: nothing is taken back.                   *)

Stable ==
  /\ config' = config
  /\ DOMAIN log \subseteq DOMAIN log'
  /\ \A n \in DOMAIN log : log'[n] = log[n]
  /\ answers \subseteq answers' /\ dead \subseteq dead' /\ reported \subseteq reported'
  /\ Arrived \subseteq Arrived'

LEMMA DeservedStays ==
  ASSUME Stable, NEW m \in DOMAIN log, Deserved(m)
  PROVE  Deserved(m)'
BY DEF Stable, Deserved

LEMMA SettledStays ==
  ASSUME Stable, NEW m \in DOMAIN log, Settled(m)
  PROVE  Settled(m)'
<1>1. \A d \in Dispositions : (Destination(m, d) = "none") => (Destination(m, d) = "none")'
  BY DEF Stable, Destination, Exhausted
<1>2. Finished(m) => Finished(m)'
  BY <1>1 DEF Finished, Stable
<1>3. CarriedOut(m) => CarriedOut(m)'
  BY <1>2 DEF CarriedOut, Stable
<1>4. Explained(m) => Explained(m)'
  BY DEF Explained, Stable, Kafka
<1> QED BY <1>3, <1>4 DEF Settled

LEMMA GoodCopyStays ==
  ASSUME Stable, NEW c, GoodCopy(c)
  PROVE  GoodCopy(c)'
<1>1. Lineage(c) => Lineage(c)'
  BY DEF Stable, Lineage, Nats
<1> QED BY <1>1 DEF Stable, GoodCopy

LEMMA GoodSendStays ==
  ASSUME Stable, NEW send, GoodSend(send)
  PROVE  GoodSend(send)'
<1>1. send.to # "dead" => GoodCopy(send.copy)' /\ (send.copy.later <=> send.to = "schedule")
  BY GoodCopyStays DEF GoodSend
<1>2. send.to = "dead" => send.copy.from \in DOMAIN log' /\ Deserved(send.copy.from)'
  BY DeservedStays DEF GoodSend, Stable
<1> QED BY <1>1, <1>2 DEF GoodSend

LEMMA ArrivedAreCopies ==
  ASSUME topic \in Seq(DOMAIN log)
  PROVE  Arrived \subseteq DOMAIN log
BY DEF Arrived, ToSet

LEMMA GoodTaskStays ==
  ASSUME TypeOK, Stable, NEW t, GoodTask(t)
  PROVE  GoodTask(t)'
<1>1. t.msg \in DOMAIN log
  BY ArrivedAreCopies DEF GoodTask, TypeOK
<1>2. t.msg \in Arrived' /\ log'[t.msg] = log[t.msg]
  BY <1>1 DEF Stable, GoodTask
<1>3. Outgoing(t)' = Outgoing(t)
  BY <1>2 DEF Stable, Outgoing, NextAttempt, Kafka
<1>4. t.step = "sending" => GoodSend(Outgoing(t))'
  <2> SUFFICES ASSUME t.step = "sending" PROVE GoodSend(Outgoing(t))'
    OBVIOUS
  <2> DEFINE o == Outgoing(t)
  <2>1. GoodSend(o)
    BY DEF GoodTask
  <2>2. o' = o
    BY <1>3
  <2> HIDE DEF o
  <2>3. \A x : GoodSend(x) => GoodSend(x)'
    BY GoodSendStays
  <2>4. GoodSend(o)'
    BY <2>1, <2>2, <2>3 DEF GoodSend
  <2> QED BY <2>4 DEF o
<1>5. t.step = "acking" => Settled(t.msg)'
  BY <1>1, SettledStays DEF GoodTask
<1> QED BY <1>2, <1>4, <1>5 DEF GoodTask

-------------------------------------------------------------------------------
(* What a settlement sends.                                                  *)

LEMMA OutgoingIs ==
  ASSUME NEW t, log[t.msg] \in Copy
  PROVE  LET c == log[t.msg] IN
         /\ Outgoing(t).to = t.to
         /\ Outgoing(t).copy = [event |-> c.event, parses |-> c.parses, later |-> t.to = "schedule",
                               attempt |-> NextAttempt(t.msg, t.to),
                               sends |-> c.sends + 1, from |-> t.msg]
<1> DEFINE c == log[t.msg]
           a == NextAttempt(t.msg, t.to)
<1>1. c = [event |-> c.event, parses |-> c.parses, later |-> c.later, attempt |-> c.attempt,
           sends |-> c.sends, from |-> c.from]
  BY DEF Copy
<1> HIDE DEF a
<1>2. [c EXCEPT !.attempt = a] = [event |-> c.event, parses |-> c.parses, later |-> c.later,
                                 attempt |-> a, sends |-> c.sends, from |-> c.from]
  BY <1>1
<1> QED BY <1>1, <1>2 DEF Outgoing, a

LEMMA OutgoingIsSend ==
  ASSUME TypeOK, CopiesInv, SettlementAssumption, NEW t \in Task, t.msg \in DOMAIN log,
         t.to # "none",
         t.to # "dead" => ~Exhausted(t.msg)
  PROVE  /\ Outgoing(t) \in Send
         /\ Outgoing(t).to = t.to /\ Outgoing(t).copy.from = t.msg
         /\ t.to # "dead" =>
              GoodCopy(Outgoing(t).copy) /\ (Outgoing(t).copy.later <=> t.to = "schedule")
<1> DEFINE c == log[t.msg]
           o == Outgoing(t)
<1>1. c \in Copy /\ GoodCopy(c) /\ t.msg \in Nat /\ t.msg # 0
  BY DEF TypeOK, CopiesInv
<1>2. /\ o.to = t.to
      /\ o.copy = [event |-> c.event, parses |-> c.parses, later |-> t.to = "schedule",
                   attempt |-> NextAttempt(t.msg, t.to), sends |-> c.sends + 1, from |-> t.msg]
  BY <1>1, OutgoingIs
<1>3. o = [to |-> o.to, copy |-> o.copy]
  BY DEF Outgoing
<1>4. config.limit \in Nat
  BY DEF TypeOK, SettlementAssumption
<1>5. /\ NextAttempt(t.msg, t.to) \in {1, c.attempt + 1}
      /\ Nats => NextAttempt(t.msg, t.to) = c.attempt + 1
  BY DEF NextAttempt, Kafka, Nats
<1>6. o \in Send
  <2>1. o.copy \in Copy
    BY <1>1, <1>2, <1>5 DEF Copy
  <2> QED BY <1>2, <1>3, <2>1 DEF Send, Task
<1>7. ASSUME t.to # "dead" PROVE GoodCopy(o.copy)
  <2>1. /\ o.copy.attempt = NextAttempt(t.msg, t.to) /\ o.copy.sends = c.sends + 1
        /\ o.copy.from = t.msg /\ o.copy.event = c.event
    BY <1>2
  <2>2. o.copy.attempt <= o.copy.sends
    BY <1>1, <1>5, <2>1 DEF GoodCopy, Copy
  <2>3. config.limit > 0 => o.copy.attempt <= config.limit
    BY <1>1, <1>4, <1>5, <1>7, <2>1 DEF Exhausted, Copy
  <2>4. Lineage(o.copy)
    BY <1>1, <1>5, <2>1 DEF Lineage
  <2> QED BY <2>2, <2>3, <2>4 DEF GoodCopy
<1>8. o.copy.later <=> t.to = "schedule"
  <2> DEFINE b == t.to = "schedule"
  <2>1. o.copy = [event |-> c.event, parses |-> c.parses, later |-> b,
                 attempt |-> NextAttempt(t.msg, t.to), sends |-> c.sends + 1, from |-> t.msg]
    BY <1>2
  <2> HIDE DEF b, o, c
  <2>2. o.copy.later = b
    BY <2>1
  <2> QED BY <2>2 DEF b
<1> QED BY <1>2, <1>6, <1>7, <1>8

-------------------------------------------------------------------------------
(* What an arrival changes at the broker.                                    *)

\* The part of the invariant that is about the broker's own state, and how far
\* it has moved: what arrives waits.
BrokerInv ==
  /\ log \in Seq(Copy)
  /\ topic \in Seq(DOMAIN log) /\ pending \subseteq Arrived /\ Arrived \cap dropped = {}
  /\ scheduled \cup dropped \cup dead \subseteq DOMAIN log
  /\ CopiesInv /\ DroppedInv /\ ScheduledInv /\ ReplacedInv /\ DeadInv

Moved == Arrived' \ pending' \subseteq Arrived \ pending

LEMMA AppendFacts ==
  ASSUME log \in Seq(Copy), NEW c \in Copy, log' = Append(log, c)
  PROVE  /\ log' \in Seq(Copy)
         /\ Len(log') = Len(log) + 1
         /\ DOMAIN log' = DOMAIN log \cup {Len(log')}
         /\ Len(log') \notin DOMAIN log
         /\ log'[Len(log')] = c
         /\ \A n \in DOMAIN log : log'[n] = log[n]
<1> DEFINE n == Len(log)
<1>1. n \in Nat /\ DOMAIN log = 1 .. n
  OBVIOUS
<1>2. log' \in Seq(Copy) /\ Len(log') = n + 1 /\ DOMAIN log' = 1 .. n + 1
  OBVIOUS
<1>3. DOMAIN log' = DOMAIN log \cup {n + 1} /\ n + 1 \notin DOMAIN log
  BY <1>1, <1>2
<1>4. log'[n + 1] = c /\ \A k \in DOMAIN log : log'[k] = log[k]
  BY <1>1
<1> QED BY <1>2, <1>3, <1>4

LEMMA SeqOfMore ==
  ASSUME NEW S, NEW T, S \subseteq T, NEW s \in Seq(S)
  PROVE  s \in Seq(T)
<1>1. Len(s) \in Nat /\ s \in [1 .. Len(s) -> S]
  OBVIOUS
<1>2. s \in [1 .. Len(s) -> T]
  BY <1>1
<1> QED BY <1>1, <1>2

LEMMA TopicFacts ==
  ASSUME NEW S, topic \in Seq(S), NEW n \in S, topic' = Append(topic, n)
  PROVE  topic' \in Seq(S) /\ Arrived' = Arrived \cup {n}
<1>1. /\ topic' \in Seq(S) /\ Len(topic) \in Nat /\ Len(topic') = Len(topic) + 1
      /\ \A i \in 1 .. Len(topic) : topic'[i] = topic[i]
      /\ topic'[Len(topic')] = n
  OBVIOUS
<1>2. DOMAIN topic = 1 .. Len(topic) /\ DOMAIN topic' = 1 .. Len(topic) + 1
  BY <1>1
<1>3. Arrived \subseteq Arrived'
  BY <1>1, <1>2 DEF Arrived, ToSet
<1>4. n \in Arrived'
  BY <1>1, <1>2 DEF Arrived, ToSet
<1>5. Arrived' \subseteq Arrived \cup {n}
  <2> SUFFICES ASSUME NEW i \in 1 .. Len(topic) + 1 PROVE topic'[i] \in Arrived \cup {n}
    BY <1>2 DEF Arrived, ToSet
  <2>1. i \in 1 .. Len(topic) \/ i = Len(topic')
    BY <1>1
  <2> QED BY <1>1, <1>2, <2>1 DEF Arrived, ToSet
<1> QED BY <1>1, <1>3, <1>4, <1>5

\* What is sent to the topic waits there, or JetStream drops it beside a twin.
LEMMA OnTopicKeeps ==
  ASSUME NEW copies, NEW n \in DOMAIN copies, UNCHANGED config,
         topic \in Seq(DOMAIN copies), pending \subseteq Arrived, Arrived \cap dropped = {},
         dropped \subseteq DOMAIN copies, dropped # {} => Nats,
         \A m \in dropped : Twins(m, copies) \cap Arrived # {},
         n \notin Arrived \cup dropped,
         OnTopic(n, copies)
  PROVE  /\ topic' \in Seq(DOMAIN copies) /\ pending' \subseteq Arrived' /\ Arrived' \cap dropped' = {}
         /\ dropped' \subseteq DOMAIN copies /\ (dropped' # {} => Nats')
         /\ \A m \in dropped' : Twins(m, copies) \cap Arrived' # {}
         /\ Arrived \subseteq Arrived'
         /\ Arrived' \cup dropped' = Arrived \cup dropped \cup {n}
         /\ Arrived' \ pending' \subseteq Arrived \ pending
<1>1. CASE topic' = Append(topic, n) /\ pending' = pending \cup {n} /\ UNCHANGED dropped
  <2>1. topic' \in Seq(DOMAIN copies) /\ Arrived' = Arrived \cup {n}
    BY <1>1, TopicFacts
  <2>2. \A m \in dropped' : Twins(m, copies) \cap Arrived' # {}
    <3> TAKE m \in dropped'
    <3>1. Twins(m, copies) \cap Arrived # {}
      BY <1>1
    <3> QED BY <2>1, <3>1
  <2> QED BY <1>1, <2>1, <2>2 DEF Nats
<1>2. CASE /\ Nats /\ Twins(n, copies) \cap Arrived # {}
           /\ dropped' = dropped \cup {n} /\ UNCHANGED <<topic, pending>>
  <2>1. Arrived' = Arrived
    BY <1>2 DEF Arrived
  <2> QED BY <1>2, <2>1 DEF Nats
<1> QED BY <1>1, <1>2 DEF OnTopic

LEMMA OnTopicAdds ==
  ASSUME NEW S, topic \in Seq(S), NEW n \in S, NEW copies, OnTopic(n, copies)
  PROVE  Arrived' \cup dropped' = Arrived \cup dropped \cup {n}
<1>1. CASE topic' = Append(topic, n) /\ UNCHANGED dropped
  BY <1>1, TopicFacts
<1>2. CASE dropped' = dropped \cup {n} /\ UNCHANGED topic
  BY <1>2 DEF Arrived
<1> QED BY <1>1, <1>2 DEF OnTopic

\* What a copy more in the log leaves true.
LEMMA LogGrows ==
  ASSUME BrokerInv, NEW c \in Copy, GoodCopy(c), log' = Append(log, c),
         UNCHANGED <<config, dead>>, answers \subseteq answers', reported \subseteq reported',
         Arrived \subseteq Arrived'
  PROVE  Stable /\ CopiesInv' /\ DeadInv'
<1> DEFINE n == Len(log')
<1>1. /\ log' \in Seq(Copy) /\ n \in Nat /\ n # 0 /\ DOMAIN log = 1 .. n - 1
      /\ DOMAIN log' = DOMAIN log \cup {n} /\ n \notin DOMAIN log
      /\ log'[n] = c
      /\ \A k \in DOMAIN log : log'[k] = log[k]
  BY AppendFacts DEF BrokerInv
<1> HIDE DEF n
<1>2. Stable
  BY <1>1 DEF Stable
<1>3. \A k \in DOMAIN log : GoodCopy(log[k])' /\ log'[k].from < k /\ log'[k].attempt <= k
  <2> TAKE k \in DOMAIN log
  <2>1. PICK d : d = log[k]
    OBVIOUS
  <2>2. GoodCopy(d)' /\ d.from < k /\ d.attempt <= k
    BY <1>2, <2>1, GoodCopyStays DEF BrokerInv, CopiesInv
  <2>3. log'[k] = d
    BY <1>1, <2>1
  <2> QED BY <2>2, <2>3 DEF GoodCopy, Lineage
<1>4. GoodCopy(c)'
  BY <1>2, GoodCopyStays
<1>5. c.from < n /\ c.attempt <= n
  <2>1. CASE c.from = 0
    BY <1>1, <2>1 DEF GoodCopy, Lineage
  <2>2. CASE c.from # 0
    <3>1. c.from \in DOMAIN log /\ c.attempt \in {1, log[c.from].attempt + 1}
      BY <2>2 DEF GoodCopy, Lineage
    <3>2. log[c.from] \in Copy /\ log[c.from].attempt <= c.from
      BY <3>1 DEF BrokerInv, CopiesInv
    <3>3. log[c.from].attempt \in Nat
      BY <3>2 DEF Copy
    <3> QED BY <1>1, <3>1, <3>2, <3>3
  <2> QED BY <2>1, <2>2
<1>6. CopiesInv'
  BY <1>1, <1>3, <1>4, <1>5 DEF CopiesInv, GoodCopy, Lineage
<1>7. DeadInv'
  BY <1>2, DeservedStays DEF BrokerInv, DeadInv
<1> QED BY <1>2, <1>6, <1>7

LEMMA ArrivesKeeps ==
  ASSUME BrokerInv, NEW send, GoodSend(send), Arrives(send), UNCHANGED config,
         answers \subseteq answers', reported \subseteq reported'
  PROVE  /\ BrokerInv' /\ Moved /\ Stable
         /\ send.to = "dead" => send.copy.from \in dead'
         /\ send.to # "dead" => \E n \in DOMAIN log' : log'[n].from = send.copy.from
<1>1. CASE send.to = "dead"
  <2>1. dead' = dead \cup {send.copy.from} /\ UNCHANGED <<log, topic, pending, scheduled, dropped>>
    BY <1>1 DEF Arrives
  <2>2. send.copy.from \in DOMAIN log /\ Deserved(send.copy.from)
    BY <1>1 DEF GoodSend
  <2>3. Arrived' = Arrived
    BY <2>1 DEF Arrived
  <2>4. Stable
    BY <2>1, <2>3 DEF Stable
  <2>5. CopiesInv'
    <3> SUFFICES ASSUME NEW k \in DOMAIN log PROVE (GoodCopy(log[k]) /\ log[k].from < k /\ log[k].attempt <= k)'
      BY <2>1 DEF CopiesInv
    <3>1. GoodCopy(log[k]) /\ log[k].from < k /\ log[k].attempt <= k
      BY DEF BrokerInv, CopiesInv
    <3> QED BY <2>1, <3>1 DEF GoodCopy, Lineage, Nats
  <2>6. DroppedInv' /\ ScheduledInv' /\ ReplacedInv'
    BY <2>1, <2>3 DEF BrokerInv, DroppedInv, ScheduledInv, ReplacedInv, Replaced, Twins, Nats
  <2>7. DeadInv'
    BY <2>1, <2>2, <2>4, DeservedStays DEF BrokerInv, DeadInv
  <2>8. BrokerInv' /\ Moved
    BY <2>1, <2>2, <2>3, <2>5, <2>6, <2>7 DEF BrokerInv, Moved
  <2> QED BY <1>1, <2>1, <2>4, <2>8
<1>2. CASE send.to # "dead"
  <2> DEFINE n == Len(log')
             c == send.copy
  <2>1. log' = Append(log, c) /\ UNCHANGED dead
    BY <1>2 DEF Arrives
  <2>2. c \in Copy /\ GoodCopy(c) /\ (c.later <=> send.to = "schedule")
    BY <1>2 DEF GoodSend, Send
  <2>3. /\ log' \in Seq(Copy) /\ n \in Nat /\ DOMAIN log = 1 .. n - 1
        /\ DOMAIN log' = DOMAIN log \cup {n} /\ n \notin DOMAIN log
        /\ log'[n] = c
        /\ \A k \in DOMAIN log : log'[k] = log[k]
    BY <2>1, <2>2, AppendFacts DEF BrokerInv
  <2>4. Arrived \subseteq DOMAIN log /\ topic \in Seq(DOMAIN log')
    <3>1. topic \in Seq(DOMAIN log) /\ DOMAIN log \subseteq DOMAIN log'
      BY <2>3 DEF BrokerInv
    <3> QED BY <3>1, ArrivedAreCopies, SeqOfMore
  <2>5. \A m \in dropped : Twins(m, log') \cap Arrived # {}
    <3> TAKE m \in dropped
    <3>1. PICK t \in Twins(m, log) : t \in Arrived
      BY DEF BrokerInv, DroppedInv
    <3>2. t \in Twins(m, log')
      BY <2>3, <3>1 DEF Twins, BrokerInv
    <3> QED BY <3>1, <3>2
  <2>6. \A m \in Replaced : \E k \in DOMAIN log' :
          k > m /\ log'[k].later /\ log'[k].event = log'[m].event
    <3> TAKE m \in Replaced
    <3>1. PICK k \in DOMAIN log : k > m /\ log[k].later /\ log[k].event = log[m].event
      BY DEF BrokerInv, ReplacedInv
    <3>2. m \in DOMAIN log
      BY DEF Replaced
    <3> QED BY <2>3, <3>1, <3>2
  <2>7. CASE /\ send.to = "schedule"
             /\ scheduled' = (scheduled \ Displaced(c.event)) \cup {n}
             /\ UNCHANGED <<topic, pending, dropped>>
    <3> HIDE DEF n, c
    <3>1. Arrived' = Arrived
      BY <2>7 DEF Arrived
    <3>2. Stable /\ CopiesInv' /\ DeadInv'
      BY <2>1, <2>2, <3>1, LogGrows
    <3>3. DroppedInv'
      BY <2>5, <2>7, <3>1 DEF BrokerInv, DroppedInv, Nats
    <3>4. ScheduledInv'
      BY <2>2, <2>3, <2>7 DEF BrokerInv, ScheduledInv
    <3>5. ReplacedInv'
      <4> SUFFICES ASSUME NEW m \in Replaced'
                   PROVE  \E k \in DOMAIN log' : k > m /\ log'[k].later /\ log'[k].event = log'[m].event
        BY DEF ReplacedInv
      <4>1. m \in DOMAIN log /\ (m \in Replaced \/ m \in Displaced(c.event))
        BY <2>3, <2>7, <3>1 DEF Replaced
      <4>2. CASE m \in Replaced
        BY <2>6, <4>2
      <4>3. CASE m \in Displaced(c.event)
        <5>1. n > m /\ log'[n].later /\ log'[n].event = log'[m].event /\ n \in DOMAIN log'
          BY <2>2, <2>3, <2>7, <4>1, <4>3 DEF Displaced
        <5> QED BY <5>1
      <4> QED BY <4>1, <4>2, <4>3
    <3>6. BrokerInv' /\ Moved
      <4>1. topic' \in Seq(DOMAIN log') /\ pending' \subseteq Arrived' /\ Arrived' \cap dropped' = {}
        BY <2>4, <2>7, <3>1 DEF BrokerInv
      <4>2. scheduled' \cup dropped' \cup dead' \subseteq DOMAIN log'
        BY <2>1, <2>3, <2>7 DEF BrokerInv
      <4> QED BY <2>3, <2>7, <3>1, <3>2, <3>3, <3>4, <3>5, <4>1, <4>2 DEF BrokerInv, Moved
    <3> QED BY <1>2, <2>3, <3>2, <3>6 DEF c
  <2>8. CASE send.to = "topic" /\ OnTopic(n, log') /\ UNCHANGED scheduled
    <3> HIDE DEF n, c
    <3>1. /\ topic' \in Seq(DOMAIN log') /\ pending' \subseteq Arrived' /\ Arrived' \cap dropped' = {}
          /\ dropped' \subseteq DOMAIN log' /\ (dropped' # {} => Nats')
          /\ \A m \in dropped' : Twins(m, log') \cap Arrived' # {}
          /\ Arrived \subseteq Arrived'
          /\ Arrived' \cup dropped' = Arrived \cup dropped \cup {n}
          /\ Arrived' \ pending' \subseteq Arrived \ pending
      <4>1. /\ n \in DOMAIN log' /\ n \notin Arrived \cup dropped /\ dropped \subseteq DOMAIN log'
            /\ pending \subseteq Arrived /\ Arrived \cap dropped = {} /\ (dropped # {} => Nats)
        BY <2>3, <2>4 DEF BrokerInv, DroppedInv
      <4> QED BY <2>4, <2>5, <2>8, <4>1, OnTopicKeeps
    <3>2. Stable /\ CopiesInv' /\ DeadInv'
      BY <2>1, <2>2, <3>1, LogGrows
    <3>3. DroppedInv'
      BY <3>1 DEF DroppedInv
    <3>4. ScheduledInv'
      BY <2>3, <2>8 DEF BrokerInv, ScheduledInv
    <3>5. Replaced' = Replaced
      BY <2>3, <2>8, <3>1 DEF Replaced, BrokerInv
    <3>6. ReplacedInv'
      BY <2>6, <3>5 DEF ReplacedInv
    <3>7. scheduled' \cup dropped' \cup dead' \subseteq DOMAIN log'
      BY <2>1, <2>3, <2>8, <3>1 DEF BrokerInv
    <3>8. BrokerInv' /\ Moved
      BY <2>3, <3>1, <3>2, <3>3, <3>4, <3>6, <3>7 DEF BrokerInv, Moved
    <3> QED BY <1>2, <2>3, <3>2, <3>8 DEF c
  <2>9. send.to \in {"topic", "schedule"}
    BY <1>2 DEF GoodSend, Send
  <2> QED BY <1>2, <2>7, <2>8, <2>9 DEF Arrives
<1> QED BY <1>1, <1>2

-------------------------------------------------------------------------------
(* The invariant of the next state, from what a step has to show.            *)

LEMMA BrokerOf ==
  ASSUME IInv
  PROVE  BrokerInv
BY DEF IInv, TypeOK, BrokerInv

LEMMA BrokerStays ==
  ASSUME IInv, Stable, UNCHANGED <<log, topic, scheduled, dropped, dead>>, pending' \subseteq pending
  PROVE  BrokerInv'
<1>1. Arrived' = Arrived
  BY DEF Arrived
<1>2. CopiesInv'
  <2> SUFFICES ASSUME NEW k \in DOMAIN log PROVE (GoodCopy(log[k]) /\ log[k].from < k /\ log[k].attempt <= k)'
    BY DEF CopiesInv
  <2>1. GoodCopy(log[k]) /\ log[k].from < k /\ log[k].attempt <= k
    BY DEF IInv, CopiesInv
  <2> QED BY <2>1 DEF Stable, GoodCopy, Lineage, Nats
<1>3. DroppedInv' /\ ScheduledInv' /\ ReplacedInv'
  BY <1>1 DEF IInv, Stable, DroppedInv, ScheduledInv, ReplacedInv, Replaced, Twins, Nats
<1>4. DeadInv'
  BY DeservedStays DEF IInv, TypeOK, DeadInv
<1> QED BY <1>1, <1>2, <1>3, <1>4 DEF IInv, TypeOK, BrokerInv

LEMMA Together ==
  ASSUME IInv, Stable, BrokerInv',
         \A m \in Arrived' \ pending' : m \in Arrived /\ (m \notin pending \/ Settled(m)),
         slots' \in [Slots -> Task \cup {Idle}],
         \A s \in Slots, t \in Task : slots'[s] = t => slots[s] = t \/ GoodTask(t)',
         \A send \in late' : send \in late \/ GoodSend(send),
         \A a \in answers' : a \in answers
           \/ a \in {m \in DOMAIN log : log[m].parses} \X Dispositions,
         reported' \subseteq DOMAIN log
  PROVE  IInv'
<1>1. SlotsInv'
  <2> SUFFICES ASSUME NEW s \in Slots, NEW t \in Task, slots'[s] = t
               PROVE  GoodTask(t)'
    BY DEF SlotsInv
  <2>1. CASE slots[s] = t
    BY <2>1, GoodTaskStays DEF IInv, SlotsInv
  <2> QED BY <2>1
<1>2. LateInv'
  BY GoodSendStays DEF IInv, LateInv
<1>3. SettledInv'
  <2> SUFFICES ASSUME NEW m \in Arrived' \ pending'
               PROVE  Settled(m)'
    BY DEF SettledInv
  <2>1. m \in DOMAIN log /\ Settled(m)
    BY ArrivedAreCopies DEF IInv, TypeOK, SettledInv
  <2> QED BY <2>1, SettledStays
<1>4. TypeOK'
  <2>1. config' \in [transport : Transports, limit : Limits, deadLetters : BOOLEAN]
    BY DEF IInv, TypeOK, Stable
  <2>2. late' \subseteq Send
    BY <1>2 DEF LateInv, GoodSend
  <2>3. \A s \in Slots : slots'[s] # Idle =>
          slots'[s].msg \in Arrived'
    <3> SUFFICES ASSUME NEW s \in Slots, slots'[s] # Idle
                 PROVE  slots'[s].msg \in Arrived'
      OBVIOUS
    <3>1. PICK t \in Task : slots'[s] = t
      OBVIOUS
    <3>2. GoodTask(t)'
      BY <1>1, <3>1 DEF SlotsInv
    <3> QED BY <3>1, <3>2 DEF GoodTask
  <2>4. answers' \subseteq {m \in DOMAIN log' : log'[m].parses} \X Dispositions
    <3> SUFFICES ASSUME NEW a \in answers'
                 PROVE  a \in {m \in DOMAIN log' : log'[m].parses} \X Dispositions
      OBVIOUS
    <3>1. a \in {m \in DOMAIN log : log[m].parses} \X Dispositions
      BY DEF IInv, TypeOK
    <3>2. {m \in DOMAIN log : log[m].parses} \subseteq {m \in DOMAIN log' : log'[m].parses}
      BY DEF Stable
    <3> QED BY <3>1, <3>2
  <2>5. reported' \subseteq DOMAIN log'
    BY DEF Stable
  <2> QED BY <2>1, <2>2, <2>3, <2>4, <2>5 DEF TypeOK, BrokerInv
<1> QED BY <1>1, <1>2, <1>3, <1>4 DEF IInv, BrokerInv

-------------------------------------------------------------------------------
(* One lemma for each action.                                                *)

LEMMA SlotType ==
  ASSUME TypeOK, NEW s \in Slots, slots[s].step # "idle"
  PROVE  slots[s] \in Task
BY DEF TypeOK, Idle

LEMMA ArrivalKeeps ==
  ASSUME IInv, NEW send, GoodSend(send), Arrives(send),
         UNCHANGED <<config, answers, reported, slots>>, late' \subseteq late
  PROVE  IInv'
<1>1. BrokerInv
  BY BrokerOf
<1>2. BrokerInv' /\ Moved /\ Stable
  BY <1>1, ArrivesKeeps
<1> QED BY <1>2, Together DEF IInv, TypeOK, Moved

\* What a client publishes, and what the scheduler publishes again, is well-formed.
LEMMA PublishSends ==
  ASSUME IInv, SettlementAssumption, Publish
  PROVE  \E send : GoodSend(send) /\ Arrives(send)
<1>1. PICK e \in Events, to \in {"topic", "schedule"}, parses \in BOOLEAN :
        Arrives([to |-> to, copy |-> [event |-> e, parses |-> parses, later |-> to = "schedule",
                                      attempt |-> 1, sends |-> 1, from |-> 0]])
  BY DEF Publish
<1> DEFINE c == [event |-> e, parses |-> parses, later |-> to = "schedule",
                 attempt |-> 1, sends |-> 1, from |-> 0]
           send == [to |-> to, copy |-> c]
<1>2. config.limit \in Nat
  BY DEF IInv, TypeOK, SettlementAssumption
<1>3. c \in Copy
  BY DEF Copy
<1>4. send \in Send /\ send.to # "dead"
  BY <1>3 DEF Send
<1>5. GoodCopy(c)
  BY <1>2 DEF GoodCopy, Lineage
<1>6. c.later <=> to = "schedule"
  <2>1. c.later = (to = "schedule")
    BY Zenon
  <2> QED BY <2>1
<1> HIDE DEF c
<1>7. GoodSend(send)
  BY <1>4, <1>5, <1>6 DEF GoodSend
<1> QED BY <1>1, <1>7 DEF c

LEMMA PublishKeeps ==
  ASSUME IInv, SettlementAssumption, Publish
  PROVE  IInv'
<1>1. UNCHANGED <<config, late, slots, answers, reported>>
  BY DEF Publish
<1> QED BY <1>1, PublishSends, ArrivalKeeps

LEMMA LandLateKeeps ==
  ASSUME IInv, LandLate
  PROVE  IInv'
<1>1. PICK send \in late : /\ late' = late \ {send}
                           /\ Arrives(send)
                           /\ UNCHANGED <<config, slots, answers, reported, used>>
  BY DEF LandLate
<1>2. GoodSend(send)
  BY DEF IInv, LateInv
<1> QED BY <1>1, <1>2, ArrivalKeeps

LEMMA DueKeeps ==
  ASSUME IInv, Due
  PROVE  IInv'
<1>1. PICK n \in scheduled \ Published :
        /\ OnTopic(n, log)
        /\ UNCHANGED <<config, log, scheduled, dead, late, slots, answers, reported, used>>
  BY DEF Due
<1>2. /\ n \in DOMAIN log /\ n \notin Arrived \cup dropped
      /\ topic \in Seq(DOMAIN log) /\ pending \subseteq Arrived /\ Arrived \cap dropped = {}
      /\ dropped \subseteq DOMAIN log /\ (dropped # {} => Nats)
      /\ \A m \in dropped : Twins(m, log) \cap Arrived # {}
  BY DEF IInv, TypeOK, DroppedInv, ScheduledInv, Published
<1>3. /\ topic' \in Seq(DOMAIN log) /\ pending' \subseteq Arrived' /\ Arrived' \cap dropped' = {}
      /\ dropped' \subseteq DOMAIN log /\ (dropped' # {} => Nats')
      /\ \A m \in dropped' : Twins(m, log) \cap Arrived' # {}
      /\ Arrived \subseteq Arrived'
      /\ Arrived' \cup dropped' = Arrived \cup dropped \cup {n}
      /\ Arrived' \ pending' \subseteq Arrived \ pending
  BY <1>1, <1>2, OnTopicKeeps
<1>4. Stable
  BY <1>1, <1>3 DEF Stable
<1>5. CopiesInv' /\ DeadInv'
  BY <1>1 DEF IInv, CopiesInv, DeadInv, GoodCopy, Lineage, Nats, Deserved
<1>6. DroppedInv' /\ ScheduledInv'
  BY <1>1, <1>3 DEF IInv, DroppedInv, ScheduledInv, Twins
<1>7. ReplacedInv'
  <2>1. Replaced' \subseteq Replaced
    BY <1>1, <1>3 DEF Replaced
  <2> QED BY <1>1, <2>1 DEF IInv, ReplacedInv
<1>8. BrokerInv'
  BY <1>1, <1>3, <1>5, <1>6, <1>7 DEF IInv, TypeOK, BrokerInv
<1> QED BY <1>1, <1>3, <1>4, <1>8, Together DEF IInv, TypeOK

LEMMA DueAgainSends ==
  ASSUME IInv, DueAgain
  PROVE  \E send : GoodSend(send) /\ Arrives(send)
<1>1. PICK n \in scheduled \cap Published :
        Arrives([to |-> "topic", copy |-> [log[n] EXCEPT !.later = FALSE]])
  BY DEF DueAgain
<1> DEFINE c == [log[n] EXCEPT !.later = FALSE]
           send == [to |-> "topic", copy |-> c]
<1>2. log[n] \in Copy /\ GoodCopy(log[n])
  BY DEF IInv, TypeOK, CopiesInv
<1>3. /\ c \in Copy /\ c.later = FALSE /\ c.event = log[n].event /\ c.attempt = log[n].attempt
      /\ c.sends = log[n].sends /\ c.from = log[n].from
  BY <1>2 DEF Copy
<1> HIDE DEF c
<1>4. GoodCopy(c)
  BY <1>2, <1>3 DEF GoodCopy, Lineage
<1>5. GoodSend(send)
  BY <1>3, <1>4 DEF GoodSend, Send
<1> QED BY <1>1, <1>5 DEF c

LEMMA DueAgainKeeps ==
  ASSUME IInv, DueAgain
  PROVE  IInv'
<1>1. UNCHANGED <<config, late, slots, answers, reported>>
  BY DEF DueAgain
<1> QED BY <1>1, DueAgainSends, ArrivalKeeps

LEMMA RetireKeeps ==
  ASSUME IInv, Retire
  PROVE  IInv'
<1>1. PICK n \in scheduled \cap Published :
        /\ scheduled' = scheduled \ {n}
        /\ UNCHANGED <<config, log, topic, pending, dropped, dead, late, slots, answers, reported, used>>
  BY DEF Retire
<1>2. Arrived' = Arrived /\ Replaced' = Replaced
  BY <1>1 DEF Arrived, Replaced, Published
<1>3. Stable
  BY <1>1, <1>2 DEF Stable
<1>4. CopiesInv' /\ DeadInv'
  BY <1>1 DEF IInv, CopiesInv, DeadInv, GoodCopy, Lineage, Nats, Deserved
<1>5. DroppedInv' /\ ScheduledInv' /\ ReplacedInv'
  BY <1>1, <1>2 DEF IInv, DroppedInv, ScheduledInv, ReplacedInv, Twins, Nats
<1>6. BrokerInv'
  BY <1>1, <1>2, <1>4, <1>5 DEF IInv, TypeOK, BrokerInv
<1> QED BY <1>1, <1>2, <1>3, <1>6, Together DEF IInv, TypeOK

LEMMA TakeKeeps ==
  ASSUME IInv, NEW s \in Slots, Take(s)
  PROVE  IInv'
<1>1. PICK m \in pending :
        slots' = [slots EXCEPT ![s] = [msg |-> m, to |-> "none", step |-> FirstStep(m)]]
  BY DEF Take
<1>2. UNCHANGED <<config, brokerVars, answers, reported>>
  BY DEF Take
<1>3. Stable
  BY <1>2 DEF Stable, Arrived, brokerVars
<1>4. BrokerInv'
  BY <1>2, <1>3, BrokerStays DEF brokerVars
<1> DEFINE t0 == [msg |-> m, to |-> "none", step |-> FirstStep(m)]
<1>5. m \in Arrived /\ m \in DOMAIN log /\ m \in Nat
  BY ArrivedAreCopies DEF IInv, TypeOK
<1>6. t0 \in Task /\ GoodTask(t0)
  BY <1>5 DEF GoodTask, Task, FirstStep, Settled, Explained
<1>7. slots' \in [Slots -> Task \cup {Idle}]
  BY <1>1, <1>6 DEF IInv, TypeOK
<1>8. \A r \in Slots, t \in Task : slots'[r] = t => slots[r] = t \/ GoodTask(t)'
  <2> SUFFICES ASSUME NEW r \in Slots, NEW t \in Task, slots'[r] = t, slots[r] # t
               PROVE  GoodTask(t)'
    OBVIOUS
  <2>1. t = t0
    BY <1>1 DEF IInv, TypeOK
  <2> QED BY <1>3, <1>6, <2>1, GoodTaskStays DEF IInv
<1>9. Arrived' = Arrived
  BY <1>2 DEF Arrived, brokerVars
<1> QED BY <1>2, <1>3, <1>4, <1>7, <1>8, <1>9, Together DEF IInv, TypeOK, brokerVars

\* Where the disposition sends an event, and what that says of its attempts.
LEMMA DestinationIs ==
  ASSUME NEW m, NEW d \in Dispositions
  PROVE  /\ Destination(m, d) \in {"topic", "schedule", "dead", "none"}
         /\ Destination(m, d) = "dead" => d \in Refusals \/ (d \in Retries /\ Exhausted(m))
         /\ Destination(m, d) \in {"topic", "schedule"} => ~Exhausted(m)
<1>1. CASE d \in Refusals \/ (d \in Retries /\ Exhausted(m))
  <2>1. Destination(m, d) = IF config.deadLetters THEN "dead" ELSE "none"
    BY <1>1 DEF Destination, Retries, Refusals
  <2> QED BY <1>1, <2>1
<1>2. CASE d \in Retries /\ ~Exhausted(m)
  <2>1. Destination(m, d) = IF d = "retry" THEN "topic" ELSE "schedule"
    BY <1>2 DEF Destination, Retries, Refusals
  <2> QED BY <1>2, <2>1
<1>3. CASE d = "ack"
  <2>1. Destination(m, d) = "none"
    BY <1>3 DEF Destination, Retries, Refusals
  <2> QED BY <2>1
<1> QED BY <1>1, <1>2, <1>3 DEF Dispositions

LEMMA HandledKeeps ==
  ASSUME IInv, SettlementAssumption, NEW s \in Slots, Handled(s)
  PROVE  IInv'
<1>1. PICK m : m = slots[s].msg
  OBVIOUS
<1>2. PICK d \in Dispositions :
        /\ answers' = answers \cup {<<m, d>>}
        /\ slots' = [slots EXCEPT ![s] =
             [msg |-> m, to |-> Destination(m, d),
              step |-> IF Destination(m, d) = "none" THEN "acking" ELSE "sending"]]
  BY <1>1 DEF Handled
<1>3. PICK to : to = Destination(m, d)
  OBVIOUS
<1> DEFINE t0 == [msg |-> m, to |-> to, step |-> IF to = "none" THEN "acking" ELSE "sending"]
<1>4. slots[s].step = "handling" /\ UNCHANGED <<config, brokerVars, reported>>
  BY DEF Handled
<1>5. Stable /\ Arrived' = Arrived
  BY <1>2, <1>4 DEF Stable, Arrived, brokerVars
<1>6. BrokerInv'
  BY <1>4, <1>5, BrokerStays DEF brokerVars
<1>7. slots[s] \in Task /\ GoodTask(slots[s])
  BY <1>4, SlotType DEF IInv, SlotsInv
<1>8. m \in Arrived /\ m \in DOMAIN log /\ m \in Nat /\ log[m].parses
  BY <1>1, <1>4, <1>7, ArrivedAreCopies DEF GoodTask, Task, IInv, TypeOK
<1>9. /\ to \in {"topic", "schedule", "dead", "none"}
      /\ to = "dead" => d \in Refusals \/ (d \in Retries /\ Exhausted(m))
      /\ to \in {"topic", "schedule"} => ~Exhausted(m)
  BY <1>3, DestinationIs
<1>10. t0 \in Task
  BY <1>8, <1>9 DEF Task
<1>11. ASSUME to = "none" PROVE Settled(m)'
  <2>1. Destination(m, d)' = Destination(m, d)
    BY <1>4 DEF Destination, Exhausted, brokerVars
  <2>2. <<m, d>> \in answers'
    BY <1>2
  <2>3. Finished(m)'
    BY <1>3, <1>11, <2>1, <2>2 DEF Finished
  <2> QED BY <2>3 DEF Settled, CarriedOut
<1>12. ASSUME to = "dead" PROVE Deserved(m)'
  <2>1. <<m, d>> \in answers'
    BY <1>2
  <2>2. CASE d \in Refusals
    BY <2>1, <2>2 DEF Deserved
  <2>3. CASE d \in Retries /\ Exhausted(m)
    <3>1. log[m] \in Copy /\ log[m].attempt <= log[m].sends /\ config.limit \in Nat
      <4>1. log \in Seq(Copy) /\ m \in DOMAIN log
        BY <1>8 DEF IInv, TypeOK
      <4>2. log[m].attempt <= log[m].sends
        BY <4>1 DEF IInv, CopiesInv, GoodCopy
      <4>3. config.limit \in Nat
        BY DEF IInv, TypeOK, SettlementAssumption
      <4> QED BY <4>1, <4>2, <4>3
    <3>2. config.limit > 0 /\ log[m].sends >= config.limit
      BY <2>3, <3>1 DEF Exhausted, Copy
    <3>3. UNCHANGED <<config, log>>
      BY <1>4 DEF brokerVars
    <3> QED BY <2>1, <2>3, <3>2, <3>3 DEF Deserved
  <2> QED BY <1>9, <1>12, <2>2, <2>3
<1>13. t0.msg = m /\ t0.to = to
  OBVIOUS
<1>14. ASSUME to # "none" PROVE GoodSend(Outgoing(t0))'
  <2> DEFINE o == Outgoing(t0)
  <2> HIDE DEF t0
  <2>1. /\ o.to = to /\ o.copy.from = m /\ o \in Send
        /\ to # "dead" => GoodCopy(o.copy) /\ (o.copy.later <=> to = "schedule")
    BY <1>8, <1>9, <1>10, <1>13, <1>14, OutgoingIsSend DEF IInv
  <2>2. o' = o
    BY <1>4 DEF Outgoing, NextAttempt, Kafka, brokerVars, t0
  <2>3. PICK x : x = o
    OBVIOUS
  <2>4. x.to # "dead" => GoodCopy(x.copy)' /\ (x.copy.later <=> x.to = "schedule")
    BY <1>5, <2>1, <2>3, GoodCopyStays
  <2>5. x.to = "dead" => x.copy.from \in DOMAIN log' /\ Deserved(x.copy.from)'
    <3> SUFFICES ASSUME x.to = "dead"
                 PROVE  x.copy.from \in DOMAIN log' /\ Deserved(x.copy.from)'
      OBVIOUS
    <3>1. x.copy.from = m /\ Deserved(m)'
      BY <1>12, <2>1, <2>3
    <3>2. m \in DOMAIN log'
      BY <1>4, <1>8 DEF brokerVars
    <3> QED BY <3>1, <3>2 DEF Deserved
  <2>6. GoodSend(x)'
    BY <2>1, <2>3, <2>4, <2>5 DEF GoodSend
  <2> QED BY <2>2, <2>3, <2>6 DEF GoodSend
<1>15. GoodTask(t0)'
  <2>1. /\ t0.step = "sending" => to # "none"
        /\ t0.step = "acking" => to = "none"
    OBVIOUS
  <2> HIDE DEF t0
  <2>2. t0.msg \in Arrived' /\ log'[t0.msg].parses
    BY <1>4, <1>5, <1>8, <1>13 DEF brokerVars
  <2>3. t0.step = "sending" => GoodSend(Outgoing(t0))'
    BY <1>14, <2>1
  <2>4. t0.step = "acking" => Settled(t0.msg)'
    BY <1>11, <1>13, <2>1 DEF Settled, CarriedOut, Finished, Explained
  <2> QED BY <1>10, <2>2, <2>3, <2>4 DEF GoodTask
<1>16. slots' = [slots EXCEPT ![s] = t0]
  BY <1>2, <1>3
<1> HIDE DEF t0
<1>17. slots' \in [Slots -> Task \cup {Idle}]
  BY <1>10, <1>16 DEF IInv, TypeOK
<1>18. \A r \in Slots, t \in Task : slots'[r] = t => slots[r] = t \/ GoodTask(t)'
  <2> SUFFICES ASSUME NEW r \in Slots, NEW t \in Task, slots'[r] = t, slots[r] # t
               PROVE  GoodTask(t)'
    OBVIOUS
  <2>1. t = t0
    BY <1>16 DEF IInv, TypeOK
  <2>2. t0' = t0
    BY DEF t0
  <2> QED BY <1>15, <2>1, <2>2 DEF GoodTask, GoodSend
<1>19. \A a \in answers' : a \in answers
         \/ a \in {k \in DOMAIN log : log[k].parses} \X Dispositions
  BY <1>2, <1>8
<1> QED BY <1>4, <1>5, <1>6, <1>17, <1>18, <1>19, Together DEF IInv, TypeOK, brokerVars

LEMMA SentKeeps ==
  ASSUME IInv, NEW s \in Slots, Sent(s)
  PROVE  IInv'
<1>1. PICK t \in Task : t = slots[s]
  BY SlotType DEF Sent, IInv
<1>2. PICK x : x = Outgoing(t)
  OBVIOUS
<1>3. /\ t.step = "sending"
      /\ Arrives(x)
      /\ slots' = [slots EXCEPT ![s] = [t EXCEPT !.step = "acking"]]
      /\ UNCHANGED <<config, late, answers, reported, used>>
  BY <1>1, <1>2 DEF Sent
<1>4. GoodTask(t) /\ GoodSend(x)
  BY <1>1, <1>2, <1>3 DEF IInv, SlotsInv, GoodTask
<1>5. BrokerInv
  BY BrokerOf
<1>6. /\ BrokerInv' /\ Moved /\ Stable
      /\ x.to = "dead" => x.copy.from \in dead'
      /\ x.to # "dead" => \E n \in DOMAIN log' : log'[n].from = x.copy.from
  BY <1>3, <1>4, <1>5, ArrivesKeeps
<1>7. x.copy.from = t.msg
  <2>1. log[t.msg] \in Copy
    BY <1>4, ArrivedAreCopies DEF GoodTask, IInv, TypeOK
  <2>2. x.copy.from = Outgoing(t).copy.from
    BY <1>2
  <2>3. Outgoing(t).copy.from = t.msg
    <3> DEFINE c == log[t.msg]
    <3>1. Outgoing(t).copy = [event |-> c.event, parses |-> c.parses, later |-> t.to = "schedule",
                              attempt |-> NextAttempt(t.msg, t.to),
                              sends |-> c.sends + 1, from |-> t.msg]
      BY <2>1, OutgoingIs
    <3> QED BY <3>1
  <2> QED BY <2>2, <2>3
<1>8. Settled(t.msg)'
  <2>1. PICK m : m = t.msg
    OBVIOUS
  <2>2. m \in dead' \/ \E n \in DOMAIN log' : log'[n].from = m
    BY <1>6, <1>7, <2>1
  <2>3. CarriedOut(m)'
    BY <2>2 DEF CarriedOut, Finished
  <2> QED BY <2>1, <2>3 DEF Settled
<1> DEFINE t0 == [t EXCEPT !.step = "acking"]
<1>9. t0 \in Task /\ t0.step = "acking" /\ t0.msg = t.msg
  BY DEF Task
<1>10. slots' = [slots EXCEPT ![s] = t0]
  BY <1>3
<1> HIDE DEF t0
<1>11. t0' = t0
  BY DEF t0
<1>12. t0.msg \in Arrived'
  BY <1>4, <1>6, <1>9 DEF GoodTask, Stable
<1>13. \A r \in Slots, u \in Task : slots'[r] = u => slots[r] = u \/ GoodTask(u)'
  <2> SUFFICES ASSUME NEW r \in Slots, NEW u \in Task, slots'[r] = u, slots[r] # u
               PROVE  GoodTask(u)'
    OBVIOUS
  <2>1. u = t0
    BY <1>10 DEF IInv, TypeOK
  <2>2. u.step = "acking" /\ u.msg \in Arrived'
    BY <1>9, <1>12, <2>1
  <2>3. u.msg = t.msg
    BY <1>9, <2>1
  <2>4. Settled(u.msg)'
    BY <1>8, <2>3
  <2> QED BY <2>2, <2>4 DEF GoodTask
<1>14. slots' \in [Slots -> Task \cup {Idle}]
  BY <1>9, <1>10 DEF IInv, TypeOK
<1> QED BY <1>3, <1>6, <1>13, <1>14, Together DEF IInv, TypeOK, Moved

\* A failure, an acknowledgement and a stop leave the copies at the broker alone:
\* a send may be left behind, and messages that are settled may leave the topic.
LEMMA QuietKeeps ==
  ASSUME IInv, UNCHANGED <<config, log, topic, scheduled, dropped, dead, answers>>,
         pending' \subseteq pending,
         \A m \in pending \ pending' : Settled(m),
         reported \subseteq reported', reported' \subseteq DOMAIN log,
         \A send \in late' : send \in late \/ GoodSend(send),
         slots' \in [Slots -> Task \cup {Idle}],
         \A s \in Slots, t \in Task : slots'[s] = t => slots[s] = t \/ GoodTask(t)'
  PROVE  IInv'
<1>1. Stable /\ Arrived' = Arrived
  BY DEF Stable, Arrived
<1>2. BrokerInv'
  BY <1>1, BrokerStays
<1> QED BY <1>1, <1>2, Together DEF IInv, TypeOK

LEMMA LateIsGood ==
  ASSUME IInv, NEW s \in Slots, slots[s].step # "idle",
         late' = late \cup InFlight(slots[s])
  PROVE  \A send \in late' : send \in late \/ GoodSend(send)
<1>1. PICK t \in Task : t = slots[s]
  BY SlotType DEF IInv
<1>2. \A send \in InFlight(t) : GoodSend(send)
  BY <1>1 DEF InFlight, IInv, SlotsInv, GoodTask
<1> QED BY <1>1, <1>2

LEMMA EmptiedSlot ==
  ASSUME IInv, NEW s \in Slots, slots' = [slots EXCEPT ![s] = Idle]
  PROVE  /\ slots' \in [Slots -> Task \cup {Idle}]
         /\ \A r \in Slots, t \in Task : slots'[r] = t => slots[r] = t \/ GoodTask(t)'
<1>1. \A t \in Task : t # Idle
  BY DEF Task, Idle
<1> QED BY <1>1 DEF IInv, TypeOK

LEMMA FailsKeeps ==
  ASSUME IInv, NEW s \in Slots, Fails(s)
  PROVE  IInv'
<1>1. PICK t \in Task : t = slots[s]
  BY SlotType DEF Fails, IInv
<1>2. GoodTask(t) /\ t.msg \in DOMAIN log
  BY <1>1, ArrivedAreCopies DEF IInv, TypeOK, SlotsInv, GoodTask
<1>3. UNCHANGED <<config, log, topic, pending, scheduled, dropped, dead, answers>>
  BY DEF Fails
<1>4. \A send \in late' : send \in late \/ GoodSend(send)
  BY LateIsGood DEF Fails
<1>5. reported \subseteq reported' /\ reported' \subseteq DOMAIN log
  BY <1>1, <1>2 DEF Fails, Reports, IInv, TypeOK
<1>6. /\ slots' \in [Slots -> Task \cup {Idle}]
      /\ \A r \in Slots, u \in Task : slots'[r] = u => slots[r] = u \/ GoodTask(u)'
  <2>1. CASE Kafka
    <3>1. slots' = [slots EXCEPT ![s] = Idle]
      BY <2>1 DEF Fails, AfterFailure
    <3> QED BY <3>1, EmptiedSlot
  <2>2. CASE ~Kafka
    <3> DEFINE t0 == [t EXCEPT !.step = "acking", !.to = "none"]
    <3>1. slots' = [slots EXCEPT ![s] = t0]
      BY <1>1, <2>2 DEF Fails, AfterFailure
    <3>2. t0 \in Task /\ t0.step = "acking" /\ t0.msg = t.msg
      BY DEF Task
    <3> HIDE DEF t0
    <3>3. t.msg \in reported' /\ ~Kafka'
      BY <1>1, <1>3, <2>2 DEF Fails, Reports, Kafka
    <3>4. \A u \in Task : u = t0 => GoodTask(u)'
      <4> SUFFICES ASSUME NEW u \in Task, u = t0 PROVE GoodTask(u)'
        OBVIOUS
      <4>1. u.step = "acking" /\ u.msg = t.msg
        BY <3>2
      <4>2. Settled(u.msg)'
        BY <3>3, <4>1 DEF Settled, Explained
      <4>3. u.msg \in Arrived'
        BY <1>2, <1>3, <4>1 DEF GoodTask, Arrived
      <4> QED BY <4>1, <4>2, <4>3 DEF GoodTask
    <3> QED BY <3>1, <3>2, <3>4 DEF IInv, TypeOK
  <2> QED BY <2>1, <2>2
<1> QED BY <1>3, <1>4, <1>5, <1>6, QuietKeeps

LEMMA AcknowledgedKeeps ==
  ASSUME IInv, NEW s \in Slots, Acknowledged(s)
  PROVE  IInv'
<1>1. PICK t \in Task : t = slots[s]
  BY SlotType DEF Acknowledged, IInv
<1>2. t.step = "acking" /\ GoodTask(t)
  BY <1>1 DEF Acknowledged, IInv, SlotsInv
<1>3. pending' = pending \ {t.msg} /\ Settled(t.msg)
  BY <1>1, <1>2 DEF Acknowledged, GoodTask
<1>4. UNCHANGED <<config, log, topic, scheduled, dropped, dead, late, answers, reported>>
  BY DEF Acknowledged
<1>5. /\ slots' \in [Slots -> Task \cup {Idle}]
      /\ \A r \in Slots, u \in Task : slots'[r] = u => slots[r] = u \/ GoodTask(u)'
  BY EmptiedSlot DEF Acknowledged, Freed
<1>6. \A m \in pending \ pending' : Settled(m)
  BY <1>3
<1> QED BY <1>3, <1>4, <1>5, <1>6, QuietKeeps DEF IInv, TypeOK

LEMMA AckLostKeeps ==
  ASSUME IInv, NEW s \in Slots, AckLost(s)
  PROVE  IInv'
<1>1. UNCHANGED <<config, brokerVars, answers, reported>>
  BY DEF AckLost
<1>2. /\ slots' \in [Slots -> Task \cup {Idle}]
      /\ \A r \in Slots, u \in Task : slots'[r] = u => slots[r] = u \/ GoodTask(u)'
  BY EmptiedSlot DEF AckLost
<1> QED BY <1>1, <1>2, QuietKeeps DEF IInv, TypeOK, brokerVars

LEMMA StopKeeps ==
  ASSUME IInv, NEW s \in Slots, Stop(s)
  PROVE  IInv'
<1>1. UNCHANGED <<config, log, topic, pending, scheduled, dropped, dead, answers, reported>>
  BY DEF Stop
<1>2. slots[s].step # "idle"
  <2>1. slots[s] \in Task
    BY DEF Stop, IInv, TypeOK
  <2> QED BY <2>1 DEF Task
<1>3. \A send \in late' : send \in late \/ GoodSend(send)
  BY <1>2, LateIsGood DEF Stop
<1>4. /\ slots' \in [Slots -> Task \cup {Idle}]
      /\ \A r \in Slots, u \in Task : slots'[r] = u => slots[r] = u \/ GoodTask(u)'
  BY EmptiedSlot DEF Stop
<1> QED BY <1>1, <1>3, <1>4, QuietKeeps DEF IInv, TypeOK

LEMMA StutterKeeps ==
  ASSUME IInv, UNCHANGED vars
  PROVE  IInv'
<1>1. UNCHANGED <<config, brokerVars, slots, answers, reported>>
  BY DEF vars
<1> QED BY <1>1, QuietKeeps DEF IInv, TypeOK, brokerVars

-------------------------------------------------------------------------------
(* The theorems.                                                             *)

LEMMA InitHolds ==
  ASSUME SettlementAssumption, Init
  PROVE  IInv
<1>1. config \in [transport : Transports, limit : Limits, deadLetters : BOOLEAN]
  BY DEF Init
<1>2. log = <<>> /\ log \in Seq(Copy) /\ DOMAIN log = {}
  BY DEF Init
<1>3. \A s \in Slots : slots[s] = Idle
  BY DEF Init
<1>4. \A t \in Task : t # Idle
  BY DEF Task, Idle
<1>5. Arrived = {} /\ topic \in Seq(DOMAIN log)
  BY DEF Init, Arrived, ToSet
<1>6. TypeOK
  BY <1>1, <1>2, <1>3, <1>5 DEF Init, TypeOK
<1>8. CopiesInv /\ LateInv /\ DroppedInv /\ ScheduledInv /\ ReplacedInv /\ SettledInv /\ DeadInv
  BY <1>2, <1>5 DEF Init, CopiesInv, LateInv, DroppedInv, ScheduledInv, ReplacedInv, Replaced,
                    SettledInv, DeadInv
<1>7. SlotsInv
  BY <1>3, <1>4 DEF SlotsInv
<1> QED BY <1>6, <1>7, <1>8 DEF IInv

LEMMA NextKeeps ==
  ASSUME SettlementAssumption, IInv, [Next]_vars
  PROVE  IInv'
<1>1. CASE Publish
  BY <1>1, PublishKeeps
<1>2. CASE LandLate
  BY <1>2, LandLateKeeps
<1>3. CASE Due
  BY <1>3, DueKeeps
<1>4. ASSUME NEW s \in Slots, Take(s) PROVE IInv'
  BY <1>4, TakeKeeps
<1>5. ASSUME NEW s \in Slots, Handled(s) PROVE IInv'
  BY <1>5, HandledKeeps
<1>6. ASSUME NEW s \in Slots, Sent(s) PROVE IInv'
  BY <1>6, SentKeeps
<1>7. ASSUME NEW s \in Slots, Fails(s) PROVE IInv'
  BY <1>7, FailsKeeps
<1>8. ASSUME NEW s \in Slots, Acknowledged(s) PROVE IInv'
  BY <1>8, AcknowledgedKeeps
<1>9. ASSUME NEW s \in Slots, AckLost(s) PROVE IInv'
  BY <1>9, AckLostKeeps
<1>10. ASSUME NEW s \in Slots, Stop(s) PROVE IInv'
  BY <1>10, StopKeeps
<1>11. CASE UNCHANGED vars
  BY <1>11, StutterKeeps
<1>12. CASE DueAgain
  BY <1>12, DueAgainKeeps
<1>13. CASE Retire
  BY <1>13, RetireKeeps
<1> QED BY <1>1, <1>2, <1>3, <1>4, <1>5, <1>6, <1>7, <1>8, <1>9, <1>10, <1>11, <1>12, <1>13 DEF Next

(* The inductive invariant holds of every behaviour of a transport: a send  *)
(* that is on its way, or was left behind by a failure, is one its handler's *)
(* disposition earned, and a message about to be acknowledged is settled.    *)
THEOREM Invariance == Spec => []IInv
<1>1. Init => IInv
  BY InitHolds, SettlementAssumption
<1>2. IInv /\ [Next]_vars => IInv'
  BY NextKeeps, SettlementAssumption
<1> QED BY <1>1, <1>2, PTL DEF Spec

(* The state of a transport keeps its type: no handler is given bytes that   *)
(* cloudEventFromBytes rejects, and a slot works only on a copy that reached *)
(* the topic, whatever redeliveries, failures and late sends do.             *)
THEOREM TypeCorrect == Spec => []TypeOK
<1>1. IInv => TypeOK
  BY DEF IInv
<1> QED BY <1>1, Invariance, PTL

(* No copy of an event carries an attempt number above maxAttempts, however  *)
(* many subscribers settle deliveries of the same message at once.           *)
THEOREM AttemptsAreLimited == Spec => []AttemptsWithinLimit
<1>1. IInv => AttemptsWithinLimit
  BY DEF IInv, CopiesInv, GoodCopy, AttemptsWithinLimit
<1> QED BY <1>1, Invariance, PTL

(* The dead letter topic has an event only when a handler refused it, or     *)
(* asked to retry one that had been sent maxAttempts times; a late send of a *)
(* settlement that failed is no exception.                                   *)
THEOREM DeadLettersAreDeserved == Spec => []DeadLetterDeserved
<1>1. IInv => DeadLetterDeserved
  BY DEF IInv, DeadInv, Deserved, DeadLetterDeserved
<1> QED BY <1>1, Invariance, PTL

(* commitDelivery, ackMessage and safeAck acknowledge no message whose       *)
(* disposition was not carried out, unless it cannot be read or its failure  *)
(* was reported in deliveryFailed; a copy JetStream drops keeps a twin.      *)
THEOREM NothingIsLostSilently == Spec => []CompletedOrReported
<1>1. IInv => CompletedOrReported
  <2> SUFFICES ASSUME IInv, NEW m \in DOMAIN log \ Waiting
               PROVE  \/ CarriedOut(m) \/ Explained(m)
                      \/ m \in dropped /\ Twins(m, log) \cap Arrived # {}
                      \/ m \in Replaced /\ \E n \in DOMAIN log :
                           n > m /\ log[n].later /\ log[n].event = log[m].event
    BY DEF CompletedOrReported
  <2>1. CASE m \in dropped
    BY <2>1 DEF IInv, DroppedInv
  <2>2. CASE m \in Arrived
    BY <2>2 DEF IInv, SettledInv, Settled, Waiting
  <2>3. CASE m \in Replaced
    BY <2>3 DEF IInv, ReplacedInv
  <2>4. m \notin scheduled \ Published
    BY DEF Waiting
  <2> QED BY <2>1, <2>2, <2>3, <2>4 DEF Replaced, Published
<1> QED BY <1>1, Invariance, PTL

-------------------------------------------------------------------------------
(* From copy to copy: why the last of an event is accounted for.             *)

LEMMA GreatestNumber ==
  ASSUME NEW b \in Nat, NEW S \in SUBSET (0 .. b), S # {}
  PROVE  \E m \in S : \A k \in S : k <= m
<1> DEFINE R == {p \in Nat \X Nat : p[1] < p[2]}
           T == {k \in Nat : b - k \in S}
<1>1. IsWellFoundedOn(R, Nat)
  BY NatLessThanWellFounded DEF OpToRel
<1>2. \A y, x \in Nat : <<y, x>> \notin R => x <= y
  OBVIOUS
<1>3. T \subseteq Nat /\ T # {}
  <2>1. PICK m \in S : TRUE
    OBVIOUS
  <2>2. b - m \in Nat /\ b - (b - m) = m
    OBVIOUS
  <2> QED BY <2>2
<1> HIDE DEF R
<1>4. PICK x \in T : \A y \in T : <<y, x>> \notin R
  <2> HIDE DEF T
  <2> QED BY <1>1, <1>3, WFMin
<1>5. \A k \in S : b - k \in T
  OBVIOUS
<1>6. \A k \in S : k <= b - x
  <2> TAKE k \in S
  <2>1. b - k \in T /\ b - k \in Nat /\ x \in Nat
    BY <1>4, <1>5
  <2>2. x <= b - k
    <3> HIDE DEF T
    <3> QED BY <1>2, <1>4, <2>1
  <2> QED BY <2>1, <2>2
<1> QED BY <1>4, <1>6

LEMMA CopyType ==
  ASSUME log \in Seq(Copy), NEW n \in DOMAIN log
  PROVE  log[n].event \in Events /\ log[n].attempt \in Nat
<1>1. log[n] \in Copy
  OBVIOUS
<1> QED BY <1>1 DEF Copy

\* A copy that neither waits nor was the last one has a successor of its event.
LEMMA Succeeded ==
  ASSUME IInv, NEW m \in DOMAIN log, m \notin Waiting, ~Finished(m), ~Explained(m)
  PROVE  /\ m \in Arrived \cup dropped \cup Replaced
         /\ m \in Arrived => \E n \in DOMAIN log : log[n].from = m
<1>1. m \in Arrived \cup dropped \cup Replaced
  BY DEF Waiting, Replaced, Published
<1>2. m \in Arrived => CarriedOut(m)
  BY DEF IInv, SettledInv, Settled, Waiting
<1> QED BY <1>1, <1>2 DEF CarriedOut

(* An event that was published does not vanish between its copies: there is  *)
(* always one that waits on the topic or in the scheduler, or one that its   *)
(* handler acked, refused or had dead-lettered, that cannot be read or whose *)
(* failure was reported in deliveryFailed. The one exception is an event of  *)
(* which nats/scheduler.ts replaced a schedule by that of an earlier attempt *)
(* and JetStream then dropped a copy.                                        *)
THEOREM EventsAreNotLost == Spec => []NoEventIsLost
<1>1. IInv => NoEventIsLost
  <2> SUFFICES ASSUME IInv PROVE NoEventIsLost
    OBVIOUS
  <2>1. Len(log) \in Nat /\ DOMAIN log = 1 .. Len(log) /\ log \in Seq(Copy)
    BY DEF IInv, TypeOK
  <2> SUFFICES ASSUME NEW e \in Events, ~Overtaken(e),
                      \A m \in DOMAIN log : log[m].event = e =>
                        m \notin Waiting /\ ~Finished(m) /\ ~Explained(m)
               PROVE  \A n \in DOMAIN log : log[n].event # e
    <3>1. \A n \in DOMAIN log : log[n].event \in Events
      BY <2>1, CopyType
    <3> QED BY <3>1 DEF NoEventIsLost
  <2> SUFFICES ASSUME NEW n0 \in DOMAIN log, log[n0].event = e PROVE FALSE
    OBVIOUS
  <2> DEFINE Of == {m \in DOMAIN log : log[m].event = e}
  <2>2. \A m \in Of : /\ m \in Arrived \cup dropped \cup Replaced
                      /\ m \in Arrived => \E n \in DOMAIN log : log[n].from = m
    BY Succeeded
  <2>3. \A n \in DOMAIN log : log[n].from \in Of =>
          /\ n \in Of /\ n > log[n].from
          /\ Nats => log[n].attempt = log[log[n].from].attempt + 1
    BY <2>1 DEF IInv, CopiesInv, GoodCopy, Lineage
  <2>4. CASE \A m \in Of : m \notin dropped
    <3>1. PICK m \in Of : \A k \in Of : k <= m
      <4>1. Of \in SUBSET (0 .. Len(log)) /\ Of # {}
        BY <2>1
      <4> HIDE DEF Of
      <4> QED BY <2>1, <4>1, GreatestNumber
    <3>2. CASE m \in Arrived
      BY <2>1, <2>2, <2>3, <3>1, <3>2
    <3>3. CASE m \in Replaced
      BY <2>1, <3>1, <3>3 DEF IInv, ReplacedInv
    <3> QED BY <2>2, <2>4, <3>2, <3>3
  <2>5. ASSUME NEW d \in Of, d \in dropped PROVE FALSE
    <3> DEFINE On == {m \in Of : m \in Arrived}
               Attempts == {log[m].attempt : m \in On}
    <3>1. Nats /\ \A m \in Of : m \notin Replaced
      BY <2>5 DEF IInv, DroppedInv, Overtaken, Replaced
    <3>2. \A m \in Of : m \in dropped => \E k \in On : log[k].attempt = log[m].attempt
      BY DEF IInv, DroppedInv, Twins
    <3>3. Attempts \in SUBSET (0 .. Len(log)) /\ Attempts # {}
      <4>1. \A m \in DOMAIN log : log[m].attempt \in Nat /\ log[m].attempt <= m
        BY <2>1, CopyType DEF IInv, CopiesInv
      <4>2. \A m \in On : log[m].attempt \in 0 .. Len(log)
        BY <2>1, <4>1
      <4>3. On # {}
        BY <2>5, <3>2
      <4> HIDE DEF On
      <4> QED BY <4>2, <4>3
    <3>4. PICK m \in On : \A k \in On : log[k].attempt <= log[m].attempt
      <4> HIDE DEF On
      <4>1. PICK a \in Attempts : \A b \in Attempts : b <= a
        <5> HIDE DEF Attempts
        <5> QED BY <2>1, <3>3, GreatestNumber
      <4> QED BY <4>1
    <3>5. PICK n \in DOMAIN log : log[n].from = m
      BY <2>2, <3>4
    <3>6. n \in Of /\ log[n].attempt = log[m].attempt + 1
      BY <2>3, <3>1, <3>4, <3>5
    <3>7. PICK k \in On : log[k].attempt = log[n].attempt
      BY <2>2, <3>1, <3>2, <3>6
    <3>8. log[m].attempt \in Nat
      BY <2>1, CopyType
    <3> QED BY <3>4, <3>6, <3>7, <3>8
  <2> QED BY <2>4, <2>5
<1> QED BY <1>1, Invariance, PTL

-------------------------------------------------------------------------------
(* The schedules of the transports follow the promise of PubSubScheduler.    *)

RequestOf(c) == [id |-> c.event, notBefore |-> 0]

LEMMA SameRequests ==
  ASSUME log' = log
  PROVE  Requests' = Requests
BY DEF Requests

LEMMA FunctionIsSeq ==
  ASSUME NEW S, NEW n \in Nat, NEW f \in [1 .. n -> S]
  PROVE  f \in Seq(S) /\ Len(f) = n
<1>1. f \in Seq(S)
  BY SeqDef
<1> QED BY <1>1

LEMMA RequestFacts ==
  ASSUME log \in Seq(Copy)
  PROVE  /\ Requests \in Seq([id : Events, notBefore : {0}])
         /\ Len(Requests) = Len(log) /\ DOMAIN Requests = DOMAIN log
         /\ \A n \in DOMAIN log : Requests[n] = RequestOf(log[n])
<1>1. Len(log) \in Nat /\ DOMAIN log = 1 .. Len(log)
  OBVIOUS
<1>2. \A n \in DOMAIN log : RequestOf(log[n]) \in [id : Events, notBefore : {0}]
  BY CopyType DEF RequestOf
<1>3. Requests \in [1 .. Len(log) -> [id : Events, notBefore : {0}]]
  BY <1>1, <1>2 DEF Requests, RequestOf
<1>4. Requests \in Seq([id : Events, notBefore : {0}]) /\ Len(Requests) = Len(log)
  BY <1>1, <1>3, FunctionIsSeq
<1> QED BY <1>1, <1>3, <1>4 DEF Requests, RequestOf

LEMMA RequestsLength ==
  ASSUME log' \in Seq(Copy)
  PROVE  Len(Requests') = Len(log')
<1>1. Len(log') \in Nat /\ DOMAIN log' = 1 .. Len(log')
  OBVIOUS
<1>2. Requests' \in [1 .. Len(log') -> {Requests'[n] : n \in DOMAIN log'}]
  BY <1>1 DEF Requests
<1> QED BY <1>1, <1>2, FunctionIsSeq

LEMMA RequestsGrow ==
  ASSUME log \in Seq(Copy), NEW c \in Copy, log' = Append(log, c)
  PROVE  Requests' = Append(Requests, RequestOf(c))
<1> DEFINE R == [id : Events, notBefore : {0}]
           longer == Append(Requests, RequestOf(c))
<1>1. PICK n \in Nat : n = Len(log)
  OBVIOUS
<1>2. /\ log' \in Seq(Copy) /\ Len(log') = n + 1 /\ DOMAIN log = 1 .. n /\ DOMAIN log' = 1 .. n + 1
      /\ log'[n + 1] = c /\ \A v \in 1 .. n : log'[v] = log[v]
  BY <1>1, AppendFacts
<1>3. /\ Requests \in Seq(R) /\ Len(Requests) = n
      /\ \A v \in 1 .. n : Requests[v] = RequestOf(log[v])
  BY <1>1, <1>2, RequestFacts
<1>4. /\ Requests' \in Seq(R) /\ Len(Requests') = n + 1
      /\ \A v \in 1 .. n + 1 : Requests'[v] = RequestOf(log'[v])
  <2>1. \A v \in DOMAIN log' : RequestOf(log'[v]) \in R
    <3>1. \A v \in DOMAIN log' : log'[v] \in Copy
      BY <1>2
    <3> QED BY <3>1 DEF RequestOf, Copy
  <2>2. Requests' = [v \in 1 .. n + 1 |-> RequestOf(log'[v])]
    BY <1>2 DEF Requests, RequestOf
  <2> HIDE DEF R
  <2>3. Requests' \in [1 .. n + 1 -> R] /\ n + 1 \in Nat
    BY <1>2, <2>1, <2>2
  <2>4. Requests' \in Seq(R) /\ Len(Requests') = n + 1
    BY <2>3, FunctionIsSeq
  <2> QED BY <2>2, <2>4
<1>5. RequestOf(c) \in R
  BY DEF RequestOf, Copy
<1> HIDE DEF R
<1>6. /\ longer \in Seq(R) /\ Len(longer) = n + 1
      /\ longer[n + 1] = RequestOf(c) /\ \A v \in 1 .. n : longer[v] = Requests[v]
  BY <1>3, <1>5
<1> HIDE DEF longer
<1>7. ASSUME NEW v \in 1 .. n + 1 PROVE longer[v] = Requests'[v]
  <2>1. CASE v = n + 1
    BY <1>2, <1>4, <1>6, <2>1
  <2>2. CASE v # n + 1
    <3>1. v \in 1 .. n
      BY <2>2
    <3> QED BY <1>2, <1>3, <1>4, <1>6, <3>1
  <2> QED BY <2>1, <2>2
<1>8. longer = Requests'
  BY <1>4, <1>6, <1>7, SeqEqual
<1> QED BY <1>8 DEF longer

\* A copy that is sent is a request: what is sent to the scheduler takes the place
\* of the schedule of its event, what is sent to the topic leaves the schedules be.
LEMMA ArrivalRequests ==
  ASSUME BrokerInv, NEW send, GoodSend(send), Arrives(send)
  PROVE  [Promise!Next]_(Promise!vars)
<1>1. CASE send.to = "dead"
  <2>1. UNCHANGED <<log, topic, scheduled, dropped>>
    BY <1>1 DEF Arrives
  <2>2. Requests' = Requests /\ Published' = Published
    BY <2>1 DEF Requests, Published, Arrived
  <2> QED BY <2>1, <2>2 DEF Promise!vars
<1>2. CASE send.to # "dead"
  <2> DEFINE n == Len(log')
             c == send.copy
             r == RequestOf(c)
  <2>1. log' = Append(log, c) /\ send.to \in {"topic", "schedule"}
    BY <1>2 DEF Arrives, GoodSend, Send
  <2>2. c \in Copy /\ c.event \in Events /\ (c.later <=> send.to = "schedule")
    BY <1>2 DEF GoodSend, Send, Copy
  <2>3. /\ n \in Nat /\ DOMAIN log' = DOMAIN log \cup {n} /\ n \notin DOMAIN log
        /\ log'[n] = c /\ log \in Seq(Copy) /\ log' \in Seq(Copy)
        /\ \A k \in DOMAIN log : log'[k] = log[k]
    BY <2>1, <2>2, AppendFacts DEF BrokerInv
  <2>4. Requests' = Append(Requests, r)
    BY <2>1, <2>2, <2>3, RequestsGrow
  <2>5. /\ Len(Requests') = n
        /\ \A k \in DOMAIN log' : Requests'[k].id = log'[k].event
    <3>1. Len(Requests') = n
      BY <2>3, RequestsLength
    <3>2. \A k \in DOMAIN log' : Requests'[k].id = log'[k].event
      BY DEF Requests
    <3> QED BY <3>1, <3>2
  <2>6. /\ Arrived \cup dropped \subseteq DOMAIN log /\ scheduled \subseteq DOMAIN log
        /\ topic \in Seq(DOMAIN log')
    <3>1. topic \in Seq(DOMAIN log) /\ DOMAIN log \subseteq DOMAIN log'
      BY <2>3 DEF BrokerInv
    <3> QED BY <3>1, ArrivedAreCopies, SeqOfMore DEF BrokerInv
  <2> HIDE DEF n, c
  <2>7. CASE send.to = "topic"
    <3>1. OnTopic(n, log') /\ UNCHANGED scheduled
      BY <2>7 DEF Arrives, n
    <3>2. \A k \in Arrived' \cup dropped' : k \in Arrived \cup dropped \cup {n}
      BY <2>3, <2>6, <3>1, OnTopicAdds
    <3>3. Arrived \cup dropped \subseteq Arrived' \cup dropped'
      BY <2>3, <2>6, <3>1, OnTopicAdds
    <3>4. Published' = Published
      BY <2>2, <2>3, <2>6, <2>7, <3>2, <3>3 DEF Published
    <3>5. Promise!Request(c.event, 0)
      BY <2>4, <3>1, <3>4 DEF Promise!Request, RequestOf
    <3> QED BY <2>2, <3>5 DEF Promise!Next
  <2>8. CASE send.to = "schedule"
    <3>1. /\ scheduled' = (scheduled \ Displaced(c.event)) \cup {n}
          /\ UNCHANGED <<topic, dropped>>
      BY <2>8 DEF Arrives, n, c
    <3>2. Published' = Published
      BY <2>3, <2>6, <3>1 DEF Published, Arrived
    <3>3. scheduled' = Promise!Replace(scheduled, Requests', n)
      BY <2>3, <2>5, <2>6, <3>1 DEF Promise!Replace, Displaced
    <3>4. Promise!Request(c.event, 0)
      BY <2>4, <2>5, <3>2, <3>3 DEF Promise!Request, RequestOf
    <3> QED BY <2>2, <3>4 DEF Promise!Next
  <2> QED BY <2>1, <2>7, <2>8
<1> QED BY <1>1, <1>2

LEMMA DueDelivers ==
  ASSUME IInv, Due
  PROVE  [Promise!Next]_(Promise!vars)
<1>1. PICK n \in scheduled \ Published : OnTopic(n, log) /\ UNCHANGED <<log, scheduled>>
  BY DEF Due
<1>2. n \in DOMAIN log /\ log[n].later /\ log \in Seq(Copy) /\ topic \in Seq(DOMAIN log)
  BY DEF IInv, TypeOK, ScheduledInv
<1>3. Arrived' \cup dropped' = Arrived \cup dropped \cup {n}
  BY <1>1, <1>2, OnTopicAdds
<1>4. Published' = Published \cup {n}
  BY <1>1, <1>2, <1>3 DEF Published
<1>5. n \in DOMAIN Requests /\ Requests[n].notBefore = 0 /\ Requests' = Requests
  BY <1>1, <1>2 DEF Requests
<1>6. Promise!Deliver(n)
  BY <1>1, <1>4, <1>5 DEF Promise!Deliver
<1> QED BY <1>5, <1>6 DEF Promise!Next

LEMMA RetireRetires ==
  ASSUME IInv, Retire
  PROVE  [Promise!Next]_(Promise!vars)
<1>1. PICK n \in scheduled \cap Published :
        scheduled' = scheduled \ {n} /\ UNCHANGED <<log, topic, dropped>>
  BY DEF Retire
<1>2. n \in DOMAIN Requests /\ Requests' = Requests /\ Published' = Published
  BY <1>1 DEF IInv, TypeOK, Requests, Published, Arrived
<1>3. Promise!Retire(n)
  BY <1>1, <1>2 DEF Promise!Retire
<1> QED BY <1>2, <1>3 DEF Promise!Next

LEMMA SentSends ==
  ASSUME IInv, NEW s \in Slots, Sent(s)
  PROVE  \E send : GoodSend(send) /\ Arrives(send)
<1>1. PICK t \in Task : t = slots[s]
  BY SlotType DEF Sent, IInv
<1> QED BY <1>1 DEF Sent, IInv, SlotsInv, GoodTask

LEMMA StepKeepsPromise ==
  ASSUME IInv, SettlementAssumption, [Next]_vars
  PROVE  [Promise!Next]_(Promise!vars)
<1>1. BrokerInv
  BY BrokerOf
<1>2. CASE Publish
  BY <1>1, <1>2, PublishSends, ArrivalRequests
<1>3. CASE LandLate
  BY <1>1, <1>3, ArrivalRequests DEF LandLate, IInv, LateInv
<1>4. CASE Due
  BY <1>4, DueDelivers
<1>5. CASE DueAgain
  BY <1>1, <1>5, DueAgainSends, ArrivalRequests
<1>6. CASE Retire
  BY <1>6, RetireRetires
<1>7. ASSUME NEW s \in Slots, Sent(s) PROVE [Promise!Next]_(Promise!vars)
  BY <1>1, <1>7, SentSends, ArrivalRequests
<1>8. CASE UNCHANGED <<log, topic, scheduled, dropped>>
  <2>1. Requests' = Requests /\ Published' = Published
    BY <1>8 DEF Requests, Published, Arrived
  <2> QED BY <1>8, <2>1 DEF Promise!vars
<1>9. ASSUME NEW s \in Slots,
             Take(s) \/ Handled(s) \/ Fails(s) \/ Acknowledged(s) \/ AckLost(s) \/ Stop(s)
      PROVE  UNCHANGED <<log, topic, scheduled, dropped>>
  BY <1>9 DEF Take, Handled, Fails, Acknowledged, AckLost, Stop, brokerVars
<1>10. CASE UNCHANGED vars
  BY <1>8, <1>10 DEF vars, brokerVars
<1> QED BY <1>2, <1>3, <1>4, <1>5, <1>6, <1>7, <1>8, <1>9, <1>10 DEF Next

(* What the transports and their failures do to the schedules is what        *)
(* PubSubScheduler promises and no more: a schedule ends only when it was    *)
(* published or when another of its event takes its place, although its      *)
(* publish may be dropped by JetStream or repeated by the scheduler. The     *)
(* transports can be composed with any of the three schedulers for as long   *)
(* as that scheduler keeps this promise.                                     *)
THEOREM SchedulesAsPromised == Spec => KeepsPromise
<1>1. Init => Promise!Init
  <2> SUFFICES ASSUME Init PROVE Promise!Init
    OBVIOUS
  <2>1. log = <<>> /\ log \in Seq(Copy) /\ DOMAIN log = {} /\ scheduled = {} /\ Arrived = {} /\ dropped = {}
    BY DEF Init, Arrived, ToSet
  <2>2. Requests = <<>>
    <3>1. Requests \in Seq([id : Events, notBefore : {0}]) /\ Len(Requests) = 0
      BY <2>1, RequestFacts
    <3> QED BY <3>1, EmptySeq
  <2> QED BY <2>1, <2>2 DEF Promise!Init, Published
<1>2. IInv /\ [Next]_vars => [Promise!Next]_(Promise!vars)
  BY StepKeepsPromise, SettlementAssumption
<1> QED BY <1>1, <1>2, Invariance, PTL DEF Spec, KeepsPromise, Promise!Spec
=============================================================================
