-------------------------- MODULE KafkaDeliveryProofs --------------------------
(***************************************************************************)
(* Theorems about what the schedules topic of KafkaScheduler remembers:    *)
(* its tombstones follow deliveries, the last entry of an id is never      *)
(* lost, no accepted schedule is, and it keeps the promise of the          *)
(* PubSubScheduler interface.                                              *)
(***************************************************************************)
EXTENDS KafkaSchedulerProofs

-------------------------------------------------------------------------------
(* A step appends one message of a known write, compacts, or leaves the      *)
(* topics alone. A write is accepted only by the step that appends it.       *)

Appends(m) ==
  /\ m \in Message /\ GoodMessage(m)' /\ Land(m.kind, m.id, m.ver)
  /\ \/ accepted' = accepted
     \/ m.kind = "schedule" /\ accepted' = accepted \cup {m.ver}

LEMMA WriteSteps ==
  ASSUME IInv, NEW id \in Ids, NEW notBefore \in Nat, WriteSchedule(id, notBefore)
  PROVE  /\ Stable
         /\ \/ \E m \in Message : Appends(m)
            \/ UNCHANGED <<log, delivered, history, accepted>>
<1>0. PICK v : v = Len(writes) + 1
  OBVIOUS
<1> DEFINE x == [id |-> id, notBefore |-> notBefore]
           m == [kind |-> "schedule", id |-> id, ver |-> v]
<1>1. x \in Write /\ writes \in Seq(Write) /\ writes' = Append(writes, x)
  BY DEF IInv, TypeOK, WriteSchedule, Write
<1>2. /\ DOMAIN writes' = DOMAIN writes \cup {v}
      /\ writes'[v] = x
      /\ \A u \in DOMAIN writes : writes'[u] = writes[u]
      /\ v \in Nat \ {0}
  BY <1>0, <1>1, WritesGrow
<1>3. Stable
  BY <1>2 DEF WriteSchedule, Land, Stable, IInv, TypeOK
<1>4. GoodMessage(m)' /\ m \in Message
  BY <1>2 DEF GoodMessage, IsWrite, Ready, Message
<1>5. \/ Land("schedule", id, v) /\ accepted' = accepted \cup {v}
      \/ UNCHANGED <<log, delivered, history, accepted>>
  BY <1>0 DEF WriteSchedule
<1> QED BY <1>3, <1>4, <1>5 DEF Appends

LEMMA LandingSteps ==
  ASSUME IInv, NEW m \in Message, GoodMessage(m), Land(m.kind, m.id, m.ver),
         UNCHANGED <<now, writes, accepted>>
  PROVE  Stable /\ Appends(m)
<1>1. Stable
  BY DEF Stable, Land, IInv, TypeOK
<1>2. GoodMessage(m)'
  BY <1>1, StableMessages DEF IInv
<1> QED BY <1>1, <1>2 DEF Appends

LEMMA TopicSteps ==
  ASSUME IInv, SetsAssumption, [Next]_vars
  PROVE  /\ Stable
         /\ \/ \E m \in Message : Appends(m)
            \/ \E p \in Partitions : Compact(p)
            \/ UNCHANGED <<log, delivered, history, accepted>>
<1>1. CASE PublishLater
  BY <1>1, WriteSteps DEF PublishLater, SetsAssumption
<1>2. CASE RetryLater
  <2>1. PICK v \in delivered, notBefore \in NotBefores : WriteSchedule(writes[v].id, notBefore)
    BY <1>2 DEF RetryLater
  <2>2. writes[v].id \in Ids
    BY WriteTypes DEF IInv, TypeOK
  <2> QED BY <2>1, <2>2, WriteSteps DEF SetsAssumption
<1>3. CASE \E w \in Workers : Start(w) \/ Fire(w) \/ Close(w) \/ Crash(w)
  <2>1. UNCHANGED <<now, writes, log, delivered, history, accepted>>
    BY <1>3 DEF Start, Fire, Close, Crash, Leave, clientVars, topicVars
  <2> QED BY <2>1 DEF Stable, IInv, TypeOK
<1>4. CASE \E w \in Workers, p \in Partitions : Consume(w, p)
  <2>1. UNCHANGED <<now, writes, log, delivered, history, accepted>>
    BY <1>4 DEF Consume, clientVars, topicVars
  <2> QED BY <2>1 DEF Stable, IInv, TypeOK
<1>5. CASE \E b \in batches : Send(b)
  <2>1. PICK b \in batches : Send(b)
    BY <1>5
  <2>2. PICK j \in b.todo : Land(b.step, j.id, j.ver)
    BY <2>1 DEF Send
  <2>3. GoodBatch(b) /\ b.step \in Sends /\ b \in Batch
    BY <2>1 DEF IInv, BatchInv, TypeOK, Send
  <2>4. j \in b.jobs /\ j.id \in Ids /\ j.ver \in Nat
    BY <2>2, <2>3 DEF GoodBatch, Batch, Job
  <2> DEFINE m == [kind |-> b.step, id |-> j.id, ver |-> j.ver]
  <2>5. m \in Message /\ GoodMessage(m)
    BY <2>3, <2>4 DEF Message, GoodMessage, GoodBatch, GoodJob, Sends
  <2>6. UNCHANGED <<now, writes, accepted>>
    BY <2>1 DEF Send, clientVars
  <2>7. Stable /\ Appends(m)
    BY <2>2, <2>5, <2>6, LandingSteps
  <2> QED BY <2>5, <2>7
<1>6. CASE \E b \in batches : SendFails(b) \/ Requeue(b)
  <2>1. UNCHANGED <<now, writes, log, delivered, history, accepted>>
    BY <1>6 DEF SendFails, Requeue, clientVars, topicVars
  <2> QED BY <2>1 DEF Stable, IInv, TypeOK
<1>7. CASE LandLate
  <2>1. PICK m \in late : Land(m.kind, m.id, m.ver)
    BY <1>7 DEF LandLate
  <2>2. m \in Message /\ GoodMessage(m)
    BY DEF IInv, TypeOK, LateInv
  <2>3. UNCHANGED <<now, writes, accepted>>
    BY <1>7 DEF LandLate, clientVars
  <2> QED BY <2>1, <2>2, <2>3, LandingSteps
<1>8. CASE \E p \in Partitions : Compact(p)
  <2>1. UNCHANGED <<now, writes, delivered, history>>
    BY <1>8 DEF Compact, clientVars
  <2> QED BY <1>8, <2>1 DEF Stable, IInv, TypeOK
<1>9. CASE \E p \in Partitions : Assign(p) \/ Revoke(p)
  <2>1. UNCHANGED <<now, writes, log, delivered, history, accepted>>
    BY <1>9 DEF Assign, Revoke, clientVars, topicVars
  <2> QED BY <2>1 DEF Stable, IInv, TypeOK
<1>10. CASE Tick
  BY <1>10 DEF Tick, clientVars, topicVars, Stable, IInv, TypeOK
<1>11. CASE UNCHANGED vars
  BY <1>11 DEF vars, clientVars, topicVars, Stable, IInv, TypeOK
<1> QED BY <1>1, <1>2, <1>3, <1>4, <1>5, <1>6, <1>7, <1>8, <1>9, <1>10, <1>11 DEF Next

(* What an append and a compaction do to one partition of the topic.         *)

LEMMA AppendSteps ==
  ASSUME TypeOK, SetsAssumption, NEW m \in Message, Land(m.kind, m.id, m.ver),
         NEW p \in Partitions
  PROVE  \/ log'[p] = log[p]
         \/ /\ p = PartitionOf[m.id] /\ m.kind \in {"schedule", "tombstone"}
            /\ log'[p] = Append(log[p], [id |-> m.id,
                           ver |-> IF m.kind = "schedule" THEN m.ver ELSE 0])
<1> DEFINE e == [id |-> m.id, ver |-> IF m.kind = "schedule" THEN m.ver ELSE 0]
           q == PartitionOf[m.id]
<1>1. \/ m.kind \in {"schedule", "tombstone"} /\ log' = [log EXCEPT ![q] = Append(log[q], e)]
      \/ log' = log
  BY DEF Land
<1>2. DOMAIN log = Partitions
  BY DEF TypeOK
<1> HIDE DEF e
<1>3. \/ log'[p] = log[p]
      \/ p = q /\ m.kind \in {"schedule", "tombstone"} /\ log'[p] = Append(log[p], e)
  BY <1>1, <1>2
<1> QED BY <1>3 DEF e

LEMMA CompactSteps ==
  ASSUME TypeOK, NEW q \in Partitions, Compact(q), NEW p \in Partitions
  PROVE  \/ log'[p] = log[p]
         \/ \E i, j \in DOMAIN log[p] :
              /\ i < j /\ log[p][i].id = log[p][j].id
              /\ log'[p] = [log[p] EXCEPT ![i] = Compacted]
<1>1. PICK i, j \in DOMAIN log[q] :
        /\ i < j /\ log[q][i].id = log[q][j].id
        /\ log' = [log EXCEPT ![q][i] = Compacted]
  BY DEF Compact
<1>2. DOMAIN log = Partitions
  BY DEF TypeOK
<1>3. \/ log'[p] = log[p]
      \/ p = q /\ log'[p] = [log[p] EXCEPT ![i] = Compacted]
  BY <1>1, <1>2
<1> QED BY <1>1, <1>3

-------------------------------------------------------------------------------
(* Tombstones.                                                               *)

\* e, if it is a tombstone, bears witness of a delivery of its id.
Witnesses(ws, done, e) ==
  e # Compacted /\ e.ver = 0 => \E v \in done : ws[v].id = e.id

LEMMA TombstonesKeep ==
  ASSUME IInv, IInv', SetsAssumption, TombstonesFollowDelivery, [Next]_vars
  PROVE  TombstonesFollowDelivery'
<1> DEFINE done == delivered \cap history
<1>1. Stable
  BY TopicSteps
<1>2. \A e : Witnesses(writes, done, e) => Witnesses(writes', done', e)
  <2>1. done \subseteq done' /\ done \subseteq DOMAIN writes
    BY <1>1 DEF Stable, IInv, TypeOK
  <2> QED BY <1>1, <2>1 DEF Witnesses, Stable
<1>3. \A p \in Partitions : \A o \in DOMAIN log[p] : Witnesses(writes', done', log[p][o])
  BY <1>2 DEF TombstonesFollowDelivery, Witnesses
<1> SUFFICES ASSUME NEW p \in Partitions, NEW o \in DOMAIN log'[p]
             PROVE  Witnesses(writes', done', log'[p][o])
  BY DEF TombstonesFollowDelivery, Witnesses
<1> HIDE DEF done
<1>4. log[p] \in Seq(Entry)
  BY DEF IInv, TypeOK
<1>5. CASE \E m \in Message : Appends(m)
  <2>1. PICK m \in Message : Appends(m)
    BY <1>5
  <2> DEFINE e == [id |-> m.id, ver |-> IF m.kind = "schedule" THEN m.ver ELSE 0]
  <2>2. CASE log'[p] = log[p]
    BY <1>3, <2>2
  <2>3. CASE m.kind \in {"schedule", "tombstone"} /\ log'[p] = Append(log[p], e)
    <3>1. Witnesses(writes', done', e)
      <4>1. IsWrite(writes', m.ver, m.id) /\ Ready(m.kind, m.ver)'
        BY <2>1 DEF Appends, GoodMessage
      <4>2. m.ver \in Nat \ {0}
        BY <4>1 DEF IsWrite, IInv, TypeOK
      <4> QED BY <2>3, <4>1, <4>2 DEF Witnesses, IsWrite, Ready, done
    <3> HIDE DEF e
    <3>2. CASE o \in DOMAIN log[p]
      <4>1. log'[p][o] = log[p][o]
        BY <1>4, <2>3, <3>2
      <4> QED BY <1>3, <3>2, <4>1
    <3>3. CASE o \notin DOMAIN log[p]
      <4>1. log'[p][o] = e
        BY <1>4, <2>3, <3>3
      <4> QED BY <3>1, <4>1
    <3> QED BY <3>2, <3>3
  <2> QED BY <2>1, <2>2, <2>3, AppendSteps DEF Appends, IInv
<1>6. CASE \E q \in Partitions : Compact(q)
  <2>1. CASE log'[p] = log[p]
    BY <1>3, <2>1
  <2>2. CASE \E i \in DOMAIN log[p] : log'[p] = [log[p] EXCEPT ![i] = Compacted]
    <3>1. PICK i \in DOMAIN log[p] : log'[p] = [log[p] EXCEPT ![i] = Compacted]
      BY <2>2
    <3>2. o \in DOMAIN log[p] /\ (log'[p][o] = log[p][o] \/ log'[p][o] = Compacted)
      BY <1>4, <3>1
    <3> QED BY <1>3, <3>2 DEF Witnesses
  <2> QED BY <1>6, <2>1, <2>2, CompactSteps DEF IInv
<1>7. CASE UNCHANGED <<log, delivered, history, accepted>>
  BY <1>3, <1>7
<1> QED BY <1>5, <1>6, <1>7, TopicSteps

(* A tombstone is appended only after an event of its id was published and   *)
(* recorded: what #deliverBatch's three sends, their failures, crashes       *)
(* between them and late messages leave in the topics.                       *)
THEOREM TombstonesAreEarned == Spec => []TombstonesFollowDelivery
<1>1. Init => TombstonesFollowDelivery
  BY DEF Init, TombstonesFollowDelivery
<1>2. IInv /\ IInv' /\ TombstonesFollowDelivery /\ [Next]_vars => TombstonesFollowDelivery'
  BY TombstonesKeep, SetsAssumption
<1> QED BY <1>1, <1>2, Invariance, PTL DEF Spec

-------------------------------------------------------------------------------
(* No accepted schedule is lost. The argument is that the topic always has a *)
(* last entry for the id of an accepted write: an append makes the new entry *)
(* the last one of its id, and compaction keeps the last one. That entry is  *)
(* a tombstone, and then a delivery has taken place, or an active record.    *)

Last(topic, id) ==
  \E o \in DOMAIN topic :
    topic[o].id = id /\ \A k \in DOMAIN topic : k > o => topic[k].id # id

AcceptedInTopic ==
  \A v \in accepted : Last(log[PartitionOf[writes[v].id]], writes[v].id)

LEMMA LastAppend ==
  ASSUME NEW topic \in Seq(Entry), NEW e \in Entry, NEW id,
         Last(topic, id) \/ e.id = id
  PROVE  Last(Append(topic, e), id)
<1> DEFINE n == Len(topic)
           more == Append(topic, e)
<1>1. /\ n \in Nat /\ DOMAIN topic = 1 .. n /\ DOMAIN more = 1 .. n + 1
      /\ more[n + 1] = e /\ \A k \in 1 .. n : more[k] = topic[k]
  OBVIOUS
<1> HIDE DEF n, more
<1>2. CASE e.id = id
  <2>1. n + 1 \in DOMAIN more /\ \A k \in DOMAIN more : ~ (k > n + 1)
    BY <1>1
  <2> QED BY <1>1, <1>2, <2>1 DEF Last, more
<1>3. CASE Last(topic, id) /\ e.id # id
  <2>1. PICK o \in DOMAIN topic :
          topic[o].id = id /\ \A k \in DOMAIN topic : k > o => topic[k].id # id
    BY <1>3 DEF Last
  <2>2. o \in DOMAIN more /\ more[o].id = id
    BY <1>1, <2>1
  <2>3. \A k \in DOMAIN more : k > o => more[k].id # id
    BY <1>1, <1>3, <2>1
  <2> QED BY <2>2, <2>3 DEF Last, more
<1> QED BY <1>2, <1>3

LEMMA LastCompact ==
  ASSUME NEW topic \in Seq(Entry), NEW i \in DOMAIN topic, NEW j \in DOMAIN topic,
         i < j, topic[i].id = topic[j].id, NEW id, id # None, Last(topic, id)
  PROVE  Last([topic EXCEPT ![i] = Compacted], id)
<1>1. PICK o \in DOMAIN topic :
        topic[o].id = id /\ \A k \in DOMAIN topic : k > o => topic[k].id # id
  BY DEF Last
<1> DEFINE less == [topic EXCEPT ![i] = Compacted]
<1>2. DOMAIN less = DOMAIN topic /\ DOMAIN topic \subseteq Nat
  OBVIOUS
<1>3. o # i
  BY <1>1, <1>2
<1>4. \A k \in DOMAIN less : less[k] = IF k = i THEN Compacted ELSE topic[k]
  OBVIOUS
<1>5. Compacted.id = None
  BY DEF Compacted
<1> HIDE DEF less
<1> QED BY <1>1, <1>2, <1>3, <1>4, <1>5 DEF Last, less

LEMMA AcceptedInTopicKeeps ==
  ASSUME IInv, IInv', SetsAssumption, AcceptedInTopic, [Next]_vars
  PROVE  AcceptedInTopic'
<1> SUFFICES ASSUME NEW v \in accepted'
             PROVE  Last(log'[PartitionOf[writes'[v].id]], writes'[v].id)
  BY DEF AcceptedInTopic
<1>1. Stable
  BY TopicSteps
<1>2. v \in accepted => writes'[v] = writes[v]
  BY <1>1 DEF Stable, IInv, TypeOK
<1> DEFINE id == writes'[v].id
           q == PartitionOf[id]
<1>3. v \in DOMAIN writes' /\ id \in Ids /\ id # None /\ q \in Partitions
  <2>1. v \in DOMAIN writes' /\ writes'[v] \in Write
    BY DEF IInv, TypeOK
  <2> QED BY <2>1 DEF Write, SetsAssumption
<1>4. v \in accepted => Last(log[q], id)
  BY <1>2 DEF AcceptedInTopic
<1>5. log[q] \in Seq(Entry)
  BY <1>3 DEF IInv, TypeOK
<1> HIDE DEF id, q
<1>6. CASE \E m \in Message : Appends(m)
  <2>1. PICK m \in Message : Appends(m)
    BY <1>6
  <2> DEFINE e == [id |-> m.id, ver |-> IF m.kind = "schedule" THEN m.ver ELSE 0]
  <2>2. e \in Entry /\ m.id \in Ids
    BY DEF Entry, Message
  <2>3. CASE v \in accepted
    <3>1. CASE log'[q] = log[q]
      BY <1>4, <2>3, <3>1 DEF id, q
    <3>2. CASE log'[q] = Append(log[q], e)
      BY <1>4, <1>5, <2>2, <2>3, <3>2, LastAppend DEF id, q
    <3> QED BY <1>3, <2>1, <3>1, <3>2, AppendSteps DEF Appends, IInv
  <2>4. CASE v \notin accepted
    <3>1. m.kind = "schedule" /\ v = m.ver
      BY <2>1, <2>4 DEF Appends
    <3>2. id = m.id /\ q = PartitionOf[m.id]
      BY <2>1, <3>1 DEF Appends, GoodMessage, IsWrite, id, q
    <3>3. log' = [log EXCEPT ![q] = Append(log[q], e)]
      BY <2>1, <3>1, <3>2 DEF Appends, Land
    <3>4. log'[q] = Append(log[q], e)
      BY <1>3, <3>3 DEF IInv, TypeOK
    <3>5. e.id = id
      BY <3>2
    <3> HIDE DEF e
    <3>6. Last(log'[q], id)
      BY <1>5, <2>2, <3>4, <3>5, LastAppend
    <3> QED BY <3>6 DEF id, q
  <2> QED BY <2>3, <2>4
<1>7. CASE \E p \in Partitions : Compact(p)
  <2>1. v \in accepted
    BY <1>7 DEF Compact, clientVars
  <2>2. CASE log'[q] = log[q]
    BY <1>4, <2>1, <2>2 DEF id, q
  <2>3. CASE \E i, j \in DOMAIN log[q] :
          /\ i < j /\ log[q][i].id = log[q][j].id
          /\ log'[q] = [log[q] EXCEPT ![i] = Compacted]
    BY <1>3, <1>4, <1>5, <2>1, <2>3, LastCompact DEF id, q
  <2> QED BY <1>3, <1>7, <2>2, <2>3, CompactSteps DEF IInv
<1>8. CASE UNCHANGED <<log, delivered, history, accepted>>
  BY <1>4, <1>8 DEF id, q
<1> QED BY <1>6, <1>7, <1>8, TopicSteps

LEMMA LastIsLive ==
  ASSUME IInv, SetsAssumption, TombstonesFollowDelivery, NEW v \in DOMAIN writes,
         Last(log[PartitionOf[writes[v].id]], writes[v].id)
  PROVE  \E u \in DOMAIN writes : writes[u].id = writes[v].id /\ (u \in delivered \/ Live(u))
<1> DEFINE id == writes[v].id
           q == PartitionOf[id]
<1>1. id \in Ids /\ id # None /\ q \in Partitions
  <2>1. id \in Ids
    BY WriteTypes DEF IInv, TypeOK
  <2> QED BY <2>1 DEF SetsAssumption
<1>2. PICK o \in DOMAIN log[q] :
        log[q][o].id = id /\ \A k \in DOMAIN log[q] : k > o => log[q][k].id # id
  BY DEF Last
<1>3. log[q][o] \in Entry /\ log[q][o] # Compacted
  <2>1. log[q] \in Seq(Entry)
    BY <1>1 DEF IInv, TypeOK
  <2> QED BY <1>1, <1>2, <2>1 DEF Compacted
<1>4. CASE log[q][o].ver = 0
  BY <1>1, <1>2, <1>3, <1>4 DEF TombstonesFollowDelivery, IInv, TypeOK
<1>5. CASE log[q][o].ver # 0
  <2> DEFINE u == log[q][o].ver
  <2>1. IsWrite(writes, u, id)
    BY <1>1, <1>2, <1>3, <1>5 DEF IInv, LogInv, GoodEntry
  <2>2. log[q][o] = [id |-> id, ver |-> u]
    BY <1>2, <1>3 DEF Entry
  <2>3. Live(u)
    BY <1>2, <2>1, <2>2 DEF Live, IsWrite
  <2> QED BY <2>1, <2>3 DEF IsWrite
<1> QED BY <1>4, <1>5

LEMMA TopicInvariant ==
  Spec => [](IInv /\ TombstonesFollowDelivery /\ AcceptedInTopic)
<1>1. Init => AcceptedInTopic
  BY DEF Init, AcceptedInTopic
<1>2. IInv /\ IInv' /\ AcceptedInTopic /\ [Next]_vars => AcceptedInTopic'
  BY AcceptedInTopicKeeps, SetsAssumption
<1> QED BY <1>1, <1>2, Invariance, TombstonesAreEarned, PTL DEF Spec

(* For an id whose publishLater or retryLater resolved, an event has been    *)
(* published or the topic holds an active record: over any number of         *)
(* replacements, retries, crashes, rebalances and compactions.               *)
THEOREM NoIdIsForgotten == Spec => []AtLeastOncePerId
<1>1. IInv /\ TombstonesFollowDelivery /\ AcceptedInTopic => AtLeastOncePerId
  BY LastIsLive, SetsAssumption DEF AtLeastOncePerId, AcceptedInTopic, IInv, TypeOK
<1> QED BY <1>1, TopicInvariant, PTL

-------------------------------------------------------------------------------
(* When no id is scheduled twice, the event delivered or the active record   *)
(* of the theorem above is the accepted schedule itself.                     *)

UniqueIds == \A u, v \in DOMAIN writes : writes[u].id = writes[v].id => u = v

LEMMA UniqueIdsKeep ==
  ASSUME IInv, SetsAssumption, ~ReuseIds, ~AllowRetries, UniqueIds, [Next]_vars
  PROVE  UniqueIds'
<1>1. CASE PublishLater
  <2>1. PICK id \in Ids, notBefore \in NotBefores :
          /\ \A v \in DOMAIN writes : writes[v].id # id
          /\ WriteSchedule(id, notBefore)
    BY <1>1 DEF PublishLater
  <2> DEFINE x == [id |-> id, notBefore |-> notBefore]
  <2>2. x \in Write /\ writes \in Seq(Write) /\ writes' = Append(writes, x)
    BY <2>1 DEF IInv, TypeOK, WriteSchedule, Write, SetsAssumption
  <2>3. /\ DOMAIN writes' = DOMAIN writes \cup {Len(writes) + 1}
        /\ writes'[Len(writes) + 1] = x
        /\ \A v \in DOMAIN writes : writes'[v] = writes[v]
    BY <2>2, WritesGrow
  <2> QED BY <2>1, <2>3 DEF UniqueIds
<1>2. CASE UNCHANGED writes
  BY <1>2 DEF UniqueIds
<1>3. PublishLater \/ UNCHANGED writes
  BY DEF Next, RetryLater, Start, Fire, Close, Crash, Leave, Consume, Send, SendFails,
         Requeue, LandLate, Compact, Assign, Revoke, Tick, vars, clientVars
<1> QED BY <1>1, <1>2, <1>3

(* When clients use a fresh id for every publishLater and no subscriber asks *)
(* for a delayed retry, every schedule whose caller was told it is persisted *)
(* is delivered or still the active record of its id, whatever crashes,      *)
(* failed sends, replays, rebalances and compactions happen.                 *)
THEOREM NoScheduleIsLost ==
  ASSUME ~ReuseIds, ~AllowRetries
  PROVE  Spec => []AtLeastOnce
<1>1. Init => UniqueIds
  BY DEF Init, UniqueIds
<1>2. IInv /\ UniqueIds /\ [Next]_vars => UniqueIds'
  BY UniqueIdsKeep, SetsAssumption
<1>3. IInv /\ TombstonesFollowDelivery /\ AcceptedInTopic /\ UniqueIds => AtLeastOnce
  <2> SUFFICES ASSUME IInv, TombstonesFollowDelivery, AcceptedInTopic, UniqueIds,
                      NEW v \in accepted
               PROVE  v \in delivered \/ Live(v)
    BY DEF AtLeastOnce
  <2>1. PICK u \in DOMAIN writes :
          writes[u].id = writes[v].id /\ (u \in delivered \/ Live(u))
    BY LastIsLive, SetsAssumption DEF AcceptedInTopic, IInv, TypeOK
  <2>2. u = v
    BY <2>1 DEF UniqueIds, IInv, TypeOK
  <2> QED BY <2>1, <2>2
<1> QED BY <1>1, <1>2, <1>3, TopicInvariant, PTL DEF Spec

-------------------------------------------------------------------------------
(* Timers. A worker that is down has no record, timer, batch or partition;   *)
(* one that is running has nothing left to replay, so that each of its steps *)
(* leaves a timer or a batch behind if it leaves a record.                   *)

Waiting(w) == \E id \in Ids : records[w][id].ver # 0
Busy(w) == \E b \in batches : b.worker = w

TimerOK(w) ==
  /\ status[w] = "down" => ~Waiting(w) /\ ~armed[w] /\ ~Busy(w) /\ assigned[w] = {}
  /\ status[w] = "running" => replaying[w] = {} /\ (Waiting(w) => armed[w] \/ Busy(w))

TimerInv == \A w \in Workers : TimerOK(w)

\* A step of worker w moves the timer, and the batches, of no other worker.
Others(w) ==
  \A u \in Workers \ {w} :
    /\ status'[u] = status[u] /\ replaying'[u] = replaying[u]
    /\ records'[u] = records[u] /\ armed'[u] = armed[u] /\ assigned'[u] = assigned[u]
    /\ (\E b \in batches' : b.worker = u) <=> (\E b \in batches : b.worker = u)

LEMMA OthersKeep ==
  ASSUME TimerInv, NEW w, Others(w), w \in Workers => TimerOK(w)'
  PROVE  TimerInv'
<1> SUFFICES ASSUME NEW u \in Workers, u # w PROVE TimerOK(u)'
  BY DEF TimerInv
<1>1. TimerOK(u)
  BY DEF TimerInv
<1> QED BY <1>1 DEF Others, TimerOK, Waiting, Busy

LEMMA TimerStart ==
  ASSUME IInv, TimerInv, NEW w \in Workers, Start(w)
  PROVE  TimerInv'
<1>1. Others(w)
  BY DEF Start, Others, IInv, TypeOK, groupVars
<1>2. TimerOK(w)'
  <2>1. ~Waiting(w) /\ ~armed[w] /\ ~Busy(w) /\ assigned[w] = {}
    BY DEF Start, TimerInv, TimerOK
  <2>2. ~Waiting(w)' /\ ~armed'[w] /\ ~Busy(w)' /\ assigned'[w] = {}
    BY <2>1 DEF Start, Waiting, Busy, groupVars
  <2>3. status'[w] = "running" => replaying'[w] = {}
    BY DEF Start, IInv, TypeOK
  <2> QED BY <2>2, <2>3 DEF TimerOK
<1> QED BY <1>1, <1>2, OthersKeep

LEMMA TimerConsume ==
  ASSUME IInv, TimerInv, NEW w \in Workers, NEW p \in Partitions, Consume(w, p)
  PROVE  TimerInv'
<1>0. PICK o \in position[p] .. Len(log[p]) :
        /\ records' = [records EXCEPT ![w] = Apply(records[w], log[p][o])]
        /\ replaying' = [replaying EXCEPT ![w] = LeftToReplay(w, p, o)]
        /\ status' = [status EXCEPT ![w] =
             IF LeftToReplay(w, p, o) = {} THEN "running" ELSE @]
        /\ armed' = [armed EXCEPT ![w] =
             TimerAfterReplay(w, LeftToReplay(w, p, o), Apply(records[w], log[p][o]))]
        /\ UNCHANGED <<batches, assigned>>
  BY DEF Consume
<1> DEFINE left == LeftToReplay(w, p, o)
           recs == Apply(records[w], log[p][o])
<1>1. /\ records' = [records EXCEPT ![w] = recs]
      /\ replaying' = [replaying EXCEPT ![w] = left]
      /\ left \subseteq replaying[w]
      /\ status' = [status EXCEPT ![w] = IF left = {} THEN "running" ELSE @]
      /\ armed' = [armed EXCEPT ![w] = TimerAfterReplay(w, left, recs)]
      /\ UNCHANGED <<batches, assigned>>
  BY <1>0 DEF LeftToReplay
<1> HIDE DEF left, recs
<1>2. Others(w)
  BY <1>1 DEF Others, IInv, TypeOK
<1>3. /\ records'[w] = recs /\ replaying'[w] = left
      /\ status'[w] = IF left = {} THEN "running" ELSE status[w]
  BY <1>1 DEF IInv, TypeOK
<1>4. status[w] = "running" => left = {}
  BY <1>1 DEF TimerInv, TimerOK
<1>5. status[w] # "down"
  BY DEF TimerInv, TimerOK, Consume
<1>6. TimerOK(w)'
  <2>1. status'[w] # "down"
    BY <1>3, <1>5
  <2>2. CASE left = {}
    <3>1. armed'[w] = TimerAfterReplay(w, left, recs)
      BY <1>1 DEF IInv, TypeOK
    <3>2. armed'[w] = ArmNextTimer(recs)
      BY <2>2, <3>1 DEF TimerAfterReplay
    <3>3. armed'[w] = Waiting(w)'
      BY <1>3, <3>2 DEF Waiting, ArmNextTimer
    <3> QED BY <1>3, <2>1, <2>2, <3>3 DEF TimerOK
  <2>3. CASE left # {}
    BY <1>3, <1>4, <2>1, <2>3 DEF TimerOK
  <2> QED BY <2>2, <2>3
<1> QED BY <1>2, <1>6, OthersKeep

LEMMA TimerFire ==
  ASSUME IInv, TimerInv, NEW w \in Workers, Fire(w)
  PROVE  TimerInv'
<1>1. PICK owned, rest :
        /\ records' = [records EXCEPT ![w] = rest]
        /\ armed' = [armed EXCEPT ![w] = owned = {} /\ ArmNextTimer(rest)]
        /\ batches' = IF owned = {} THEN batches
                       ELSE batches \cup {[worker |-> w, step |-> "target",
                                           jobs |-> owned, todo |-> owned]}
        /\ UNCHANGED <<status, replaying, assigned>> /\ armed[w]
  BY DEF Fire, groupVars
<1>2. Others(w)
  BY <1>1 DEF Others, IInv, TypeOK
<1>3. TimerOK(w)'
  <2>1. status'[w] # "down"
    BY <1>1 DEF TimerInv, TimerOK
  <2>2. status'[w] = "running" => replaying'[w] = {}
    BY <1>1 DEF TimerInv, TimerOK
  <2>3. CASE owned = {}
    <3>1. armed'[w] = (owned = {} /\ ArmNextTimer(rest))
      BY <1>1 DEF IInv, TypeOK
    <3>2. ArmNextTimer(rest) => armed'[w]
      BY <2>3, <3>1, Zenon
    <3>3. records'[w] = rest
      BY <1>1 DEF IInv, TypeOK
    <3> QED BY <2>1, <2>2, <3>2, <3>3 DEF TimerOK, Waiting, ArmNextTimer
  <2>4. CASE owned # {}
    <3> DEFINE new == [worker |-> w, step |-> "target", jobs |-> owned, todo |-> owned]
    <3>0. new \in batches' /\ new.worker = w
      BY <1>1, <2>4
    <3>1. Busy(w)'
      BY <3>0 DEF Busy
    <3> QED BY <2>1, <2>2, <3>1 DEF TimerOK
  <2> QED BY <2>3, <2>4
<1> QED BY <1>2, <1>3, OthersKeep

\* b is replaced by batches of the same worker: none, or one that goes on.
Continues(b, next) ==
  /\ batches' = (batches \ {b}) \cup next
  /\ \A c \in next : c.worker = b.worker

LEMMA TimerBatch ==
  ASSUME IInv, TimerInv, NEW b \in batches, NEW next, Continues(b, next),
         UNCHANGED <<status, replaying, assigned>>,
         \A u \in Workers \ {b.worker} : records'[u] = records[u] /\ armed'[u] = armed[u],
         b.worker \in Workers /\ next = {} => (Waiting(b.worker)' => armed'[b.worker])
  PROVE  TimerInv'
<1> DEFINE w == b.worker
<1>1. Others(w)
  BY DEF Others, Continues
<1>2. ASSUME w \in Workers PROVE TimerOK(w)'
  <2>1. status'[w] # "down"
    BY <1>2 DEF TimerInv, TimerOK, Busy
  <2>2. status'[w] = "running" => replaying'[w] = {}
    BY <1>2 DEF TimerInv, TimerOK
  <2>3. CASE next = {}
    BY <1>2, <2>1, <2>2, <2>3 DEF TimerOK
  <2>4. CASE next # {}
    <3>1. Busy(w)'
      BY <2>4 DEF Busy, Continues
    <3> QED BY <2>1, <2>2, <3>1 DEF TimerOK
  <2> QED BY <2>3, <2>4
<1> QED BY <1>1, <1>2, OthersKeep

LEMMA TimerSend ==
  ASSUME IInv, TimerInv, NEW b \in batches, Send(b)
  PROVE  TimerInv'
<1>1. PICK j \in b.todo :
        /\ Land(b.step, j.id, j.ver)
        /\ batches' = (batches \ {b}) \cup Progress(b, j)
        /\ armed' = IF Progress(b, j) = {} /\ b.worker # None
                      THEN [armed EXCEPT ![b.worker] = ArmNextTimer(records[b.worker])]
                      ELSE armed
  BY DEF Send
<1>2. b \in Batch
  BY DEF IInv, TypeOK
<1>3. Continues(b, Progress(b, j))
  BY <1>1, <1>2 DEF Continues, Progress, Batch
<1>4. UNCHANGED <<status, replaying, assigned, records>>
  BY DEF Send, groupVars
<1>5. \A u \in Workers \ {b.worker} : armed'[u] = armed[u]
  BY <1>1 DEF IInv, TypeOK
<1>6. ASSUME b.worker \in Workers, Progress(b, j) = {}
      PROVE  armed'[b.worker] = ArmNextTimer(records[b.worker])
  <2>1. b.worker # None \/ b.worker = None
    OBVIOUS
  <2> QED BY <1>1, <1>6, SetsAssumption DEF IInv, TypeOK, SetsAssumption
<1>7. b.worker \in Workers /\ Progress(b, j) = {} => (Waiting(b.worker)' => armed'[b.worker])
  BY <1>4, <1>6 DEF Waiting, ArmNextTimer
<1> QED BY <1>3, <1>4, <1>5, <1>7, TimerBatch

LEMMA TimerSendFails ==
  ASSUME IInv, TimerInv, SetsAssumption, NEW b \in batches, SendFails(b)
  PROVE  TimerInv'
<1>1. Continues(b, AfterFailure(b))
  BY DEF SendFails, Continues, AfterFailure, IInv, TypeOK, Batch
<1>2. UNCHANGED <<status, replaying, assigned, records, armed>>
  BY DEF SendFails, groupVars, workerVars
<1>3. b.worker \in Workers => AfterFailure(b) # {}
  BY DEF AfterFailure, SetsAssumption
<1> QED BY <1>1, <1>2, <1>3, TimerBatch

LEMMA TimerRequeue ==
  ASSUME IInv, TimerInv, NEW b \in batches, Requeue(b)
  PROVE  TimerInv'
<1>1. PICK j \in b.todo :
        /\ records' = [records EXCEPT ![b.worker][j.id] = [ver |-> j.ver, due |-> BackOff(now)]]
        /\ \/ /\ batches' = (batches \ {b}) \cup {[b EXCEPT !.todo = @ \ {j}]}
              /\ UNCHANGED armed
           \/ /\ batches' = batches \ {b}
              /\ armed' = [armed EXCEPT ![b.worker] = TRUE]
  BY DEF Requeue
<1>2. UNCHANGED <<status, replaying, assigned>>
  BY DEF Requeue, groupVars
<1>3. \A u \in Workers \ {b.worker} : records'[u] = records[u] /\ armed'[u] = armed[u]
  BY <1>1 DEF IInv, TypeOK
<1>4. CASE batches' = (batches \ {b}) \cup {[b EXCEPT !.todo = @ \ {j}]}
  <2>1. [b EXCEPT !.todo = @ \ {j}].worker = b.worker
    BY DEF IInv, TypeOK, Batch
  <2>2. Continues(b, {[b EXCEPT !.todo = @ \ {j}]})
    BY <1>4, <2>1 DEF Continues
  <2> QED BY <1>2, <1>3, <2>2, TimerBatch
<1>5. CASE batches' = batches \ {b} /\ armed' = [armed EXCEPT ![b.worker] = TRUE]
  <2>1. Continues(b, {})
    BY <1>5 DEF Continues
  <2>2. b.worker \in Workers => armed'[b.worker]
    BY <1>5 DEF IInv, TypeOK
  <2> QED BY <1>2, <1>3, <2>1, <2>2, TimerBatch
<1> QED BY <1>1, <1>4, <1>5

LEMMA TimerLeave ==
  ASSUME IInv, TimerInv, NEW w \in Workers, Leave(w),
         ~Busy(w)',
         \A u \in Workers \ {w} :
           (\E b \in batches' : b.worker = u) <=> (\E b \in batches : b.worker = u)
  PROVE  TimerInv'
<1>1. Others(w)
  BY DEF Leave, Others, IInv, TypeOK
<1>2. TimerOK(w)'
  <2>1. /\ status'[w] = "down" /\ records'[w] = [id \in Ids |-> NoRecord]
        /\ armed'[w] = FALSE /\ assigned'[w] = {}
    BY DEF Leave, IInv, TypeOK
  <2> QED BY <2>1 DEF TimerOK, Waiting, NoRecord
<1> QED BY <1>1, <1>2, OthersKeep

LEMMA TimerClose ==
  ASSUME IInv, TimerInv, SetsAssumption, NEW w \in Workers, Close(w)
  PROVE  TimerInv'
<1> DEFINE after(b) == [b EXCEPT !.worker = IF @ = w THEN None ELSE @]
<1>1. batches' = {after(b) : b \in {c \in batches : c.worker # w \/ c.step # "failed"}}
  BY DEF Close
<1>2. \A b \in batches : after(b).worker = IF b.worker = w THEN None ELSE b.worker
  BY DEF IInv, TypeOK, Batch
<1> HIDE DEF after
<1>3. ~Busy(w)'
  BY <1>1, <1>2 DEF Busy, SetsAssumption
<1>4. \A u \in Workers \ {w} :
        (\E b \in batches' : b.worker = u) <=> (\E b \in batches : b.worker = u)
  BY <1>1, <1>2 DEF SetsAssumption
<1> QED BY <1>3, <1>4, TimerLeave DEF Close

LEMMA TimerCrash ==
  ASSUME IInv, TimerInv, NEW w \in Workers, Crash(w)
  PROVE  TimerInv'
<1>1. batches' = {b \in batches : b.worker # w}
  BY DEF Crash
<1>2. ~Busy(w)'
  BY <1>1 DEF Busy
<1> QED BY <1>1, <1>2, TimerLeave DEF Crash

LEMMA TimerGroup ==
  ASSUME IInv, TimerInv, NEW p \in Partitions, Assign(p) \/ Revoke(p)
  PROVE  TimerInv'
<1>1. UNCHANGED <<status, replaying, records, armed, batches>>
  BY DEF Assign, Revoke, workerVars
<1>2. \A w \in Workers : status[w] = "down" /\ assigned[w] = {} => assigned'[w] = {}
  BY DEF Assign, Revoke, IInv, TypeOK
<1> QED BY <1>1, <1>2 DEF TimerInv, TimerOK, Waiting, Busy

LEMMA TimerKeeps ==
  ASSUME IInv, SetsAssumption, TimerInv, [Next]_vars
  PROVE  TimerInv'
<1>1. CASE \E w \in Workers : Start(w) \/ Fire(w) \/ Close(w) \/ Crash(w)
  BY <1>1, TimerStart, TimerFire, TimerClose, TimerCrash
<1>2. CASE \E w \in Workers, p \in Partitions : Consume(w, p)
  BY <1>2, TimerConsume
<1>3. CASE \E b \in batches : Send(b) \/ SendFails(b) \/ Requeue(b)
  BY <1>3, TimerSend, TimerSendFails, TimerRequeue
<1>4. CASE \E p \in Partitions : Assign(p) \/ Revoke(p)
  BY <1>4, TimerGroup
<1>5. CASE UNCHANGED <<status, replaying, records, armed, batches, assigned>>
  BY <1>5 DEF TimerInv, TimerOK, Waiting, Busy
<1>6. CASE PublishLater \/ RetryLater \/ LandLate \/ Tick \/ UNCHANGED vars
  BY <1>5, <1>6 DEF PublishLater, RetryLater, WriteSchedule, LandLate, Tick, vars,
                    groupVars, workerVars
<1>7. CASE \E p \in Partitions : Compact(p)
  BY <1>5, <1>7 DEF Compact, groupVars, workerVars
<1> QED BY <1>1, <1>2, <1>3, <1>4, <1>6, <1>7 DEF Next

(* A running worker that holds a record has a timer, or a batch whose end    *)
(* sets one: #armNextTimer is called on every path on which it must be, in   *)
(* #finishRecovery, eachMessage, and #deliverDueBatch with its catch block.  *)
THEOREM NoRecordIsStranded == Spec => []NoStrandedRecord
<1>1. Init => TimerInv
  BY DEF Init, TimerInv, TimerOK, Waiting, Busy, NoRecord
<1>2. IInv /\ TimerInv /\ [Next]_vars => TimerInv'
  BY TimerKeeps, SetsAssumption
<1>3. TimerInv => NoStrandedRecord
  BY DEF TimerInv, TimerOK, Waiting, Busy, NoStrandedRecord
<1> QED BY <1>1, <1>2, <1>3, Invariance, PTL DEF Spec

-------------------------------------------------------------------------------
(* The refinement: KafkaScheduler implements DelayedDelivery, the promise of *)
(* the PubSubScheduler interface, while ids are scheduled once.              *)

(***************************************************************************)
(* What a worker knows of an id it has read in the topic. Nothing in its   *)
(* memory, in a batch or on the wire is about an id that the topic has     *)
(* forgotten: the topic has a last entry for it.                           *)
(***************************************************************************)
Seen(id) == Last(log[PartitionOf[id]], id)

EntriesSeen ==
  \A p \in Partitions : \A o \in DOMAIN log[p] :
    log[p][o] # Compacted => Last(log[p], log[p][o].id)
RecordsSeen == \A w \in Workers, id \in Ids : records[w][id].ver # 0 => Seen(id)
BatchesSeen == \A b \in batches : \A j \in b.jobs : Seen(j.id)
LateSeen == \A m \in late : m.kind # "schedule" => Seen(m.id)

SeenInv == EntriesSeen /\ RecordsSeen /\ BatchesSeen /\ LateSeen

LEMMA LastKeeps ==
  ASSUME IInv, SetsAssumption, [Next]_vars, NEW p \in Partitions, NEW id \in Ids, Last(log[p], id)
  PROVE  Last(log[p], id)'
<1>1. log[p] \in Seq(Entry) /\ id # None
  BY DEF IInv, TypeOK, SetsAssumption
<1>2. CASE \E m \in Message : Appends(m)
  <2>1. PICK m \in Message : Appends(m)
    BY <1>2
  <2> DEFINE e == [id |-> m.id, ver |-> IF m.kind = "schedule" THEN m.ver ELSE 0]
  <2>2. e \in Entry
    BY DEF Entry, Message
  <2>3. log'[p] = log[p] \/ log'[p] = Append(log[p], e)
    BY <2>1, AppendSteps DEF Appends, IInv
  <2> HIDE DEF e
  <2> QED BY <1>1, <2>2, <2>3, LastAppend
<1>3. CASE \E q \in Partitions : Compact(q)
  <2>1. \/ log'[p] = log[p]
        \/ \E i, j \in DOMAIN log[p] :
             /\ i < j /\ log[p][i].id = log[p][j].id
             /\ log'[p] = [log[p] EXCEPT ![i] = Compacted]
    BY <1>3, CompactSteps DEF IInv
  <2> QED BY <1>1, <2>1, LastCompact
<1> QED BY <1>2, <1>3, TopicSteps

LEMMA SeenKeeps ==
  ASSUME IInv, SetsAssumption, [Next]_vars, NEW id \in Ids, Seen(id)
  PROVE  Seen(id)'
BY LastKeeps DEF Seen, SetsAssumption

LEMMA EntriesKeep ==
  ASSUME IInv, SetsAssumption, EntriesSeen, [Next]_vars
  PROVE  EntriesSeen'
<1> SUFFICES ASSUME NEW p \in Partitions, NEW o \in DOMAIN log'[p], log'[p][o] # Compacted
             PROVE  Last(log'[p], log'[p][o].id)
  BY DEF EntriesSeen
<1>1. log[p] \in Seq(Entry)
  BY DEF IInv, TypeOK
<1>2. ASSUME o \in DOMAIN log[p], log'[p][o] = log[p][o]
      PROVE  Last(log'[p], log'[p][o].id)
  <2>1. log[p][o].id \in Ids /\ Last(log[p], log[p][o].id)
    BY <1>2 DEF EntriesSeen, IInv, LogInv, GoodEntry
  <2> QED BY <1>2, <2>1, LastKeeps
<1>3. CASE \E m \in Message : Appends(m)
  <2>1. PICK m \in Message : Appends(m)
    BY <1>3
  <2> DEFINE e == [id |-> m.id, ver |-> IF m.kind = "schedule" THEN m.ver ELSE 0]
  <2>2. e \in Entry
    BY DEF Entry, Message
  <2>3. log'[p] = log[p] \/ log'[p] = Append(log[p], e)
    BY <2>1, AppendSteps DEF Appends, IInv
  <2> HIDE DEF e
  <2>4. CASE o \in DOMAIN log[p]
    <3>1. log'[p][o] = log[p][o]
      BY <1>1, <2>3, <2>4
    <3> QED BY <1>2, <2>4, <3>1
  <2>5. CASE o \notin DOMAIN log[p]
    <3>1. log'[p] = Append(log[p], e) /\ log'[p][o] = e
      BY <1>1, <2>3, <2>5
    <3> QED BY <1>1, <2>2, <3>1, LastAppend
  <2> QED BY <2>4, <2>5
<1>4. CASE \E q \in Partitions : Compact(q)
  <2>1. \/ log'[p] = log[p]
        \/ \E i \in DOMAIN log[p] : log'[p] = [log[p] EXCEPT ![i] = Compacted]
    BY <1>4, CompactSteps DEF IInv
  <2>2. o \in DOMAIN log[p] /\ log'[p][o] = log[p][o]
    BY <1>1, <2>1
  <2> QED BY <1>2, <2>2
<1>5. CASE log' = log
  BY <1>2, <1>5
<1> QED BY <1>3, <1>4, <1>5, TopicSteps

\* Where a step gets what it puts into memory, a batch or on the wire.
LEMMA RecordsCome ==
  ASSUME IInv, SetsAssumption, SeenInv, [Next]_vars,
         NEW w \in Workers, NEW id \in Ids, records'[w][id].ver # 0
  PROVE  Seen(id)
<1>1. CASE records'[w][id] = records[w][id]
  BY <1>1 DEF SeenInv, RecordsSeen
<1>2. ASSUME NEW u \in Workers, NEW p \in Partitions, Consume(u, p)
      PROVE  Seen(id)
  <2>1. PICK o \in position[p] .. Len(log[p]) :
          log[p][o] # Compacted /\ records' = [records EXCEPT ![u] = Apply(records[u], log[p][o])]
    BY <1>2 DEF Consume
  <2>2. o \in DOMAIN log[p]
    BY <2>1 DEF IInv, TypeOK
  <2>3. log[p][o].id \in Ids /\ PartitionOf[log[p][o].id] = p /\ Last(log[p], log[p][o].id)
    BY <2>1, <2>2 DEF SeenInv, EntriesSeen, IInv, LogInv, GoodEntry
  <2>4. records'[w][id] = records[w][id] \/ id = log[p][o].id
    BY <2>1 DEF Apply, IInv, TypeOK
  <2> QED BY <1>1, <2>3, <2>4 DEF Seen
<1>3. ASSUME NEW u \in Workers, Fire(u)
      PROVE  Seen(id)
  <2>1. PICK D \in PopDue(u) : records' = [records EXCEPT ![u] =
          [i \in Ids |-> IF i \in D THEN NoRecord ELSE records[u][i]]]
    BY <1>3 DEF Fire
  <2>2. records'[w][id] = records[w][id]
    BY <2>1 DEF IInv, TypeOK, NoRecord
  <2> QED BY <1>1, <2>2
<1>4. ASSUME NEW b \in batches, Requeue(b)
      PROVE  Seen(id)
  <2>1. PICK j \in b.todo :
          records' = [records EXCEPT ![b.worker][j.id] = [ver |-> j.ver, due |-> BackOff(now)]]
    BY <1>4 DEF Requeue
  <2>2. Seen(j.id)
    BY DEF SeenInv, BatchesSeen, IInv, BatchInv, GoodBatch
  <2>3. records'[w][id] = records[w][id] \/ id = j.id
    BY <2>1 DEF IInv, TypeOK
  <2> QED BY <1>1, <2>2, <2>3
<1>5. ASSUME NEW u \in Workers, Leave(u)
      PROVE  Seen(id)
  <2>1. records'[w][id] = records[w][id] \/ records'[w][id] = NoRecord
    BY <1>5 DEF Leave, IInv, TypeOK
  <2> QED BY <1>1, <2>1 DEF NoRecord
<1>6. CASE UNCHANGED records
  BY <1>1, <1>6
<1>7. \/ \E u \in Workers, p \in Partitions : Consume(u, p)
      \/ \E u \in Workers : Fire(u) \/ Leave(u)
      \/ \E b \in batches : Requeue(b)
      \/ UNCHANGED records
  BY DEF Next, PublishLater, RetryLater, WriteSchedule, Start, Close, Crash, Send, SendFails,
         LandLate, Compact, Assign, Revoke, Tick, vars, workerVars
<1> QED BY <1>2, <1>3, <1>4, <1>5, <1>6, <1>7

LEMMA JobsCome ==
  ASSUME IInv, SetsAssumption, SeenInv, [Next]_vars, NEW b \in batches', NEW j \in b.jobs
  PROVE  j.id \in Ids /\ Seen(j.id)
<1>1. ASSUME NEW c \in batches, b.jobs = c.jobs
      PROVE  j.id \in Ids /\ Seen(j.id)
  BY <1>1 DEF SeenInv, BatchesSeen, IInv, TypeOK, Batch, Job
<1>2. ASSUME NEW w \in Workers, Fire(w)
      PROVE  j.id \in Ids /\ Seen(j.id)
  <2>1. PICK D \in PopDue(w) : b \in batches \/ b.jobs = Owned(w, D)
    BY <1>2 DEF Fire
  <2>2. CASE b.jobs = Owned(w, D)
    <3>1. j.id \in D
      BY <2>2 DEF Owned
    <3>2. j.id \in Ids /\ records[w][j.id].ver # 0
      BY <3>1 DEF PopDue, Due
    <3> QED BY <3>2 DEF SeenInv, RecordsSeen
  <2> QED BY <1>1, <2>1, <2>2
<1>3. ASSUME NEW c \in batches, Send(c) \/ SendFails(c) \/ Requeue(c)
      PROVE  \E d \in batches : b.jobs = d.jobs
  <2>1. c \in Batch
    BY DEF IInv, TypeOK
  <2>2. CASE Send(c)
    <3>1. PICK x \in c.todo : batches' = (batches \ {c}) \cup Progress(c, x)
      BY <2>2 DEF Send
    <3>2. b \in batches \/ b \in Progress(c, x)
      BY <3>1
    <3>3. b \in Progress(c, x) => b.jobs = c.jobs
      BY <2>1 DEF Progress, Batch
    <3> QED BY <3>2, <3>3
  <2>3. CASE SendFails(c)
    <3>1. b \in batches \/ b \in AfterFailure(c)
      BY <2>3 DEF SendFails
    <3>2. b \in AfterFailure(c) => b.jobs = c.jobs
      BY <2>1 DEF AfterFailure, Batch
    <3> QED BY <3>1, <3>2
  <2>4. CASE Requeue(c)
    <3>1. PICK x \in c.todo : b \in batches \/ b = [c EXCEPT !.todo = @ \ {x}]
      BY <2>4 DEF Requeue
    <3> QED BY <2>1, <3>1 DEF Batch
  <2> QED BY <1>3, <2>2, <2>3, <2>4
<1>4. ASSUME NEW w \in Workers, Close(w) \/ Crash(w)
      PROVE  \E d \in batches : b.jobs = d.jobs
  BY <1>4 DEF Close, Crash, IInv, TypeOK, Batch
<1>5. CASE UNCHANGED batches
  BY <1>1, <1>5
<1>6. \/ \E w \in Workers : Fire(w) \/ Close(w) \/ Crash(w)
      \/ \E c \in batches : Send(c) \/ SendFails(c) \/ Requeue(c)
      \/ UNCHANGED batches
  BY DEF Next, PublishLater, RetryLater, WriteSchedule, Start, Consume, LandLate, Compact,
         Assign, Revoke, Tick, vars
<1> QED BY <1>1, <1>2, <1>3, <1>4, <1>5, <1>6

LEMMA LateComes ==
  ASSUME IInv, SetsAssumption, SeenInv, [Next]_vars, NEW m \in late', m.kind # "schedule"
  PROVE  m.id \in Ids /\ Seen(m.id)
<1>1. CASE m \in late
  BY <1>1 DEF SeenInv, LateSeen, IInv, TypeOK, Message
<1>2. ASSUME NEW b \in batches, m \in Undelivered(b)
      PROVE  m.id \in Ids /\ Seen(m.id)
  <2>1. PICK j \in b.todo : m.id = j.id
    BY <1>2 DEF Undelivered
  <2>2. j \in b.jobs /\ j.id \in Ids
    BY <2>1 DEF IInv, BatchInv, GoodBatch, TypeOK, Batch, Job
  <2> QED BY <2>1, <2>2 DEF SeenInv, BatchesSeen
<1>3. ASSUME NEW w \in Workers, Crash(w), m \notin late
      PROVE  \E b \in batches : m \in Undelivered(b)
  BY <1>3 DEF Crash
<1>4. ASSUME NEW b \in batches, SendFails(b), m \notin late
      PROVE  m \in Undelivered(b)
  BY <1>4 DEF SendFails
<1>5. ASSUME NEW id, NEW notBefore, WriteSchedule(id, notBefore)
      PROVE  m \in late
  BY <1>5 DEF WriteSchedule
<1>6. \/ m \in late
      \/ \E b \in batches : SendFails(b)
      \/ \E w \in Workers : Crash(w)
      \/ \E id, notBefore : WriteSchedule(id, notBefore)
  BY DEF Next, PublishLater, RetryLater, Start, Consume, Fire, Close, Send, Requeue, LandLate,
         Compact, Assign, Revoke, Tick, vars, topicVars
<1> QED BY <1>1, <1>2, <1>3, <1>4, <1>5, <1>6

LEMMA SeenInvKeeps ==
  ASSUME IInv, SetsAssumption, SeenInv, [Next]_vars
  PROVE  SeenInv'
<1>1. EntriesSeen'
  BY EntriesKeep DEF SeenInv
<1>2. RecordsSeen'
  BY RecordsCome, SeenKeeps DEF RecordsSeen
<1>3. BatchesSeen'
  BY JobsCome, SeenKeeps DEF BatchesSeen
<1>4. LateSeen'
  BY LateComes, SeenKeeps DEF LateSeen
<1> QED BY <1>1, <1>2, <1>3, <1>4 DEF SeenInv

-------------------------------------------------------------------------------
(* What an append and a compaction do to the active records.                 *)

\* The last entry of the topic for id is a record of write v.
Newest(topic, id, v) ==
  \E o \in DOMAIN topic :
    topic[o] = [id |-> id, ver |-> v] /\ \A k \in DOMAIN topic : k > o => topic[k].id # id

LEMMA LiveIsNewest ==
  ASSUME NEW v
  PROVE  /\ Live(v) <=> Newest(log[PartitionOf[writes[v].id]], writes[v].id, v)
         /\ Live(v)' <=> Newest(log'[PartitionOf[writes'[v].id]], writes'[v].id, v)
BY DEF Live, Newest

LEMMA NewestAppend ==
  ASSUME NEW topic \in Seq(Entry), NEW e \in Entry, NEW id, NEW v
  PROVE  Newest(Append(topic, e), id, v)
           <=> IF e.id = id THEN e.ver = v ELSE Newest(topic, id, v)
<1> DEFINE n == Len(topic)
           more == Append(topic, e)
<1>1. /\ n \in Nat /\ DOMAIN topic = 1 .. n /\ DOMAIN more = 1 .. n + 1
      /\ more[n + 1] = e /\ \A k \in 1 .. n : more[k] = topic[k]
  OBVIOUS
<1>2. e = [id |-> e.id, ver |-> e.ver]
  BY DEF Entry
<1> HIDE DEF n, more
<1>3. CASE e.id = id
  <2>1. ASSUME e.ver = v PROVE Newest(more, id, v)
    <3>1. n + 1 \in DOMAIN more /\ \A k \in DOMAIN more : ~ (k > n + 1)
      BY <1>1
    <3>2. more[n + 1] = [id |-> id, ver |-> v]
      BY <1>1, <1>2, <1>3, <2>1
    <3> QED BY <3>1, <3>2 DEF Newest
  <2>2. ASSUME Newest(more, id, v) PROVE e.ver = v
    <3>1. PICK o \in DOMAIN more :
            /\ more[o] = [id |-> id, ver |-> v]
            /\ \A k \in DOMAIN more : k > o => more[k].id # id
      BY <2>2 DEF Newest
    <3>2. o = n + 1
      BY <1>1, <1>3, <3>1
    <3> QED BY <1>1, <3>1, <3>2
  <2> QED BY <1>3, <2>1, <2>2 DEF more
<1>4. CASE e.id # id
  <2>1. ASSUME Newest(topic, id, v) PROVE Newest(more, id, v)
    <3>1. PICK o \in DOMAIN topic :
            /\ topic[o] = [id |-> id, ver |-> v]
            /\ \A k \in DOMAIN topic : k > o => topic[k].id # id
      BY <2>1 DEF Newest
    <3>2. o \in DOMAIN more /\ more[o] = [id |-> id, ver |-> v]
      BY <1>1, <3>1
    <3>3. \A k \in DOMAIN more : k > o => more[k].id # id
      BY <1>1, <1>4, <3>1
    <3> QED BY <3>2, <3>3 DEF Newest
  <2>2. ASSUME Newest(more, id, v) PROVE Newest(topic, id, v)
    <3>1. PICK o \in DOMAIN more :
            /\ more[o] = [id |-> id, ver |-> v]
            /\ \A k \in DOMAIN more : k > o => more[k].id # id
      BY <2>2 DEF Newest
    <3>2. o \in DOMAIN topic /\ topic[o] = [id |-> id, ver |-> v]
      BY <1>1, <1>4, <3>1
    <3>3. \A k \in DOMAIN topic : k > o => topic[k].id # id
      BY <1>1, <3>1
    <3> QED BY <3>2, <3>3 DEF Newest
  <2> QED BY <1>4, <2>1, <2>2 DEF more
<1> QED BY <1>3, <1>4

LEMMA NewestCompact ==
  ASSUME NEW topic \in Seq(Entry), NEW i \in DOMAIN topic, NEW j \in DOMAIN topic,
         i < j, topic[i].id = topic[j].id, NEW id, id # None, NEW v
  PROVE  Newest([topic EXCEPT ![i] = Compacted], id, v) <=> Newest(topic, id, v)
<1> DEFINE less == [topic EXCEPT ![i] = Compacted]
<1>1. DOMAIN less = DOMAIN topic /\ DOMAIN topic \subseteq Nat
  OBVIOUS
<1>2. \A k \in DOMAIN less : less[k] = IF k = i THEN Compacted ELSE topic[k]
  OBVIOUS
<1>3. Compacted.id = None
  BY DEF Compacted
<1> HIDE DEF less
<1>4. ASSUME Newest(topic, id, v) PROVE Newest(less, id, v)
  <2>1. PICK o \in DOMAIN topic :
          /\ topic[o] = [id |-> id, ver |-> v]
          /\ \A k \in DOMAIN topic : k > o => topic[k].id # id
    BY <1>4 DEF Newest
  <2>2. o # i
    BY <1>1, <2>1
  <2> QED BY <1>1, <1>2, <1>3, <2>1, <2>2 DEF Newest
<1>5. ASSUME Newest(less, id, v) PROVE Newest(topic, id, v)
  <2>1. PICK o \in DOMAIN less :
          /\ less[o] = [id |-> id, ver |-> v]
          /\ \A k \in DOMAIN less : k > o => less[k].id # id
    BY <1>5 DEF Newest
  <2>2. o # i
    BY <1>2, <1>3, <2>1
  <2>3. ASSUME i > o, topic[i].id = id PROVE FALSE
    <3>1. j \in DOMAIN less /\ j > o /\ j # i
      BY <1>1, <2>1, <2>3
    <3>2. less[j].id = id
      BY <1>2, <2>3, <3>1
    <3> QED BY <2>1, <3>1, <3>2
  <2>4. \A k \in DOMAIN topic : k > o => topic[k].id # id
    BY <1>1, <1>2, <2>1, <2>3
  <2> QED BY <1>1, <1>2, <2>1, <2>2, <2>4 DEF Newest
<1> QED BY <1>4, <1>5 DEF less

\* The entry that the broker appends for m is the last one of its id.
LEMMA LiveAfterAppend ==
  ASSUME TypeOK, SetsAssumption, NEW m \in Message, m.kind \in {"schedule", "tombstone"},
         Land(m.kind, m.id, m.ver), NEW v, writes'[v].id \in Ids
  PROVE  Live(v)' <=> IF writes'[v].id = m.id
                        THEN v = (IF m.kind = "schedule" THEN m.ver ELSE 0)
                        ELSE Newest(log[PartitionOf[writes'[v].id]], writes'[v].id, v)
<1> DEFINE e == [id |-> m.id, ver |-> IF m.kind = "schedule" THEN m.ver ELSE 0]
<1>1. PICK id : id = writes'[v].id
  OBVIOUS
<1>2. PICK p : p = PartitionOf[id]
  OBVIOUS
<1>3. e \in Entry /\ p \in Partitions /\ PartitionOf[m.id] \in Partitions
  BY <1>1, <1>2 DEF Entry, Message, SetsAssumption
<1>4. log[p] \in Seq(Entry)
  BY <1>3 DEF TypeOK
<1>5. log' = [log EXCEPT ![PartitionOf[m.id]] = Append(log[PartitionOf[m.id]], e)]
  BY DEF Land
<1>6. e.id = m.id /\ e.ver = IF m.kind = "schedule" THEN m.ver ELSE 0
  OBVIOUS
<1> HIDE DEF e
<1>7. log'[p] = IF p = PartitionOf[m.id] THEN Append(log[p], e) ELSE log[p]
  BY <1>3, <1>5 DEF TypeOK
<1>8. CASE id = m.id
  <2>1. Newest(log'[p], id, v) <=> v = e.ver
    BY <1>2, <1>3, <1>4, <1>6, <1>7, <1>8, NewestAppend
  <2> QED BY <1>1, <1>2, <1>6, <1>8, <2>1, LiveIsNewest
<1>9. CASE id # m.id
  <2>1. Newest(log'[p], id, v) <=> Newest(log[p], id, v)
    BY <1>2, <1>3, <1>4, <1>6, <1>7, <1>9, NewestAppend
  <2> QED BY <1>1, <1>2, <1>9, <2>1, LiveIsNewest
<1> QED BY <1>8, <1>9

-------------------------------------------------------------------------------
(* The steps of the promise.                                                 *)

\* What the topic has seen of an id that is scheduled once is still there, or
\* has been delivered.
LEMMA SeenIsKept ==
  ASSUME IInv, SetsAssumption, TombstonesFollowDelivery, UniqueIds,
         NEW v \in DOMAIN writes, Seen(writes[v].id)
  PROVE  v \in delivered \/ Live(v)
<1>1. PICK u \in DOMAIN writes : writes[u].id = writes[v].id /\ (u \in delivered \/ Live(u))
  BY LastIsLive DEF Seen
<1> QED BY <1>1 DEF UniqueIds

\* A record that is appended becomes the active one of its id.
LEMMA AppendReplaces ==
  ASSUME IInv, SetsAssumption, NEW id \in Ids, NEW v \in DOMAIN writes', writes'[v].id = id,
         Land("schedule", id, v), writes' \in Seq(Write),
         DOMAIN writes \subseteq DOMAIN writes', DOMAIN writes' \subseteq DOMAIN writes \cup {v},
         \A u \in DOMAIN writes : writes'[u] = writes[u]
  PROVE  Stored' = Promise!Replace(Stored, writes', v)
<1> DEFINE m == [kind |-> "schedule", id |-> id, ver |-> v]
<1>1. m \in Message /\ m.kind = "schedule" /\ m.id = id /\ m.ver = v
  BY DEF Message
<1>2. \A u \in DOMAIN writes' : writes'[u].id \in Ids
  <2>1. \A u \in DOMAIN writes' : writes'[u] \in Write
    OBVIOUS
  <2> QED BY <2>1 DEF Write
<1>3. ASSUME NEW u \in DOMAIN writes'
      PROVE  Live(u)' <=> IF writes'[u].id = id THEN u = v
                            ELSE Newest(log[PartitionOf[writes'[u].id]], writes'[u].id, u)
  <2> HIDE DEF m
  <2>1. Land(m.kind, m.id, m.ver)
    BY <1>1
  <2> QED BY <1>1, <1>2, <2>1, LiveAfterAppend DEF IInv
<1>4. ASSUME NEW u \in DOMAIN writes', writes'[u].id # id
      PROVE  u \in DOMAIN writes /\ (Live(u)' <=> Live(u))
  <2>1. u \in DOMAIN writes /\ writes'[u] = writes[u]
    BY <1>4
  <2> QED BY <1>3, <1>4, <2>1, LiveIsNewest
<1>5. Live(v)' /\ \A u \in DOMAIN writes' : writes'[u].id = id => (Live(u)' <=> u = v)
  BY <1>3
<1>6. Stored' = {u \in DOMAIN writes' : Live(u)'}
  BY DEF Stored
<1>7. Stored = {u \in DOMAIN writes : Live(u)}
  BY DEF Stored
<1> QED BY <1>4, <1>5, <1>6, <1>7 DEF Promise!Replace

LEMMA WriteKeepsPromise ==
  ASSUME IInv, SetsAssumption, NEW id \in Ids, NEW notBefore \in NotBefores,
         WriteSchedule(id, notBefore)
  PROVE  Promise!Request(id, notBefore)
<1>0. PICK v : v = Len(writes) + 1
  OBVIOUS
<1> DEFINE x == [id |-> id, notBefore |-> notBefore]
<1>1. x \in Write /\ writes \in Seq(Write) /\ writes' = Append(writes, x)
  BY DEF IInv, TypeOK, WriteSchedule, Write, SetsAssumption
<1>2. /\ writes' \in Seq(Write)
      /\ DOMAIN writes' = DOMAIN writes \cup {v}
      /\ writes'[v] = x
      /\ \A u \in DOMAIN writes : writes'[u] = writes[u]
      /\ v \notin DOMAIN writes /\ v = Len(writes')
  BY <1>0, <1>1, WritesGrow
<1>3. UNCHANGED <<now, delivered>>
  BY DEF WriteSchedule, Land
<1>4. CASE Land("schedule", id, v)
  <2>1. Stored' = Promise!Replace(Stored, writes', v)
    <3>1. writes'[v].id = id
      BY <1>2
    <3>2. DOMAIN writes' = DOMAIN writes \cup {v}
      BY <1>2
    <3>3. /\ v \in DOMAIN writes' /\ DOMAIN writes \subseteq DOMAIN writes'
          /\ DOMAIN writes' \subseteq DOMAIN writes \cup {v}
      BY <3>2, Zenon
    <3> QED BY <1>2, <1>4, <3>1, <3>3, AppendReplaces
  <2> QED BY <1>1, <1>2, <1>3, <2>1 DEF Promise!Request
<1>5. CASE log' = log
  <2>1. \A u \in DOMAIN writes : Live(u)' <=> Live(u)
    BY <1>2, <1>5, LiveIsNewest
  <2>2. ~ Live(v)'
    <3> SUFFICES ASSUME Live(v)' PROVE FALSE
      OBVIOUS
    <3>1. PICK o \in DOMAIN log[PartitionOf[id]] :
            log[PartitionOf[id]][o] = [id |-> id, ver |-> v]
      <4>1. Newest(log'[PartitionOf[writes'[v].id]], writes'[v].id, v)
        BY LiveIsNewest
      <4>2. writes'[v].id = id
        BY <1>2
      <4> QED BY <1>5, <4>1, <4>2 DEF Newest
    <3>2. v # 0 /\ id # None
      BY <1>0 DEF IInv, TypeOK, SetsAssumption
    <3>3. IsWrite(writes, v, id)
      BY <3>1, <3>2 DEF IInv, LogInv, GoodEntry, Compacted, SetsAssumption
    <3> QED BY <1>2, <3>3 DEF IsWrite
  <2>3. Stored' = Stored
    BY <1>2, <2>1, <2>2 DEF Stored
  <2> QED BY <1>1, <1>3, <2>3 DEF Promise!Request
<1> QED BY <1>0, <1>4, <1>5 DEF WriteSchedule

\* The broker appends a message of a known write, which is a step of the promise.
LEMMA LandKeepsPromise ==
  ASSUME IInv, SetsAssumption, TombstonesFollowDelivery, UniqueIds,
         NEW m \in Message, GoodMessage(m), Land(m.kind, m.id, m.ver),
         m.kind # "schedule" => Seen(m.id),
         UNCHANGED <<now, writes>>
  PROVE  [Promise!Next]_(Promise!vars)
<1>1. m.ver \in DOMAIN writes /\ writes[m.ver].id = m.id /\ m.id \in Ids
  BY DEF GoodMessage, IsWrite, Message
<1>2. m.kind # "schedule" => m.ver \in delivered \/ Live(m.ver)
  BY <1>1, SeenIsKept
<1>3. log' = log => Stored' = Stored
  BY DEF Stored, Live
<1>4. CASE m.kind = "schedule"
  <2>1. Stored' = Promise!Replace(Stored, writes, m.ver)
    <3>1. writes' = writes /\ writes \in Seq(Write)
      BY DEF IInv, TypeOK
    <3>2. Stored' = Promise!Replace(Stored, writes', m.ver)
      BY <1>1, <1>4, <3>1, AppendReplaces
    <3> QED BY <3>1, <3>2
  <2>2. UNCHANGED <<now, writes, delivered>>
    BY <1>4 DEF Land
  <2>3. Promise!Store(m.ver)
    BY <2>1, <2>2 DEF Promise!Store
  <2> QED BY <1>1, <2>3 DEF Promise!Next
<1>5. CASE m.kind = "target"
  <2>1. delivered' = delivered \cup {m.ver} /\ Stored' = Stored
    BY <1>3, <1>5 DEF Land
  <2>2. writes[m.ver].notBefore <= now
    BY <1>5 DEF GoodMessage, Ready
  <2>3. CASE m.ver \in delivered
    <3>1. UNCHANGED <<now, writes, delivered, Stored>>
      BY <2>1, <2>3
    <3> QED BY <3>1 DEF Promise!vars
  <2>4. CASE Live(m.ver)
    <3>1. m.ver \in Stored
      BY <1>1, <2>4 DEF Stored
    <3>2. Promise!Deliver(m.ver)
      BY <2>1, <2>2, <3>1 DEF Promise!Deliver
    <3> QED BY <1>1, <3>2 DEF Promise!Next
  <2> QED BY <1>2, <1>5, <2>3, <2>4
<1>6. CASE m.kind = "history"
  <2>1. UNCHANGED <<now, writes, delivered, Stored>>
    BY <1>3, <1>6 DEF Land
  <2> QED BY <2>1 DEF Promise!vars
<1>7. CASE m.kind = "tombstone"
  <2>1. m.ver \in delivered /\ UNCHANGED <<now, writes, delivered>>
    BY <1>7 DEF Land, GoodMessage, Ready
  <2>2. ASSUME NEW u \in DOMAIN writes
        PROVE  Live(u)' <=> u # m.ver /\ Live(u)
    <3>1. writes'[u] = writes[u] /\ writes[u].id \in Ids /\ u # 0
      BY WriteTypes DEF IInv
    <3>2. Live(u)' <=> IF writes[u].id = m.id THEN u = 0
                         ELSE Newest(log[PartitionOf[writes[u].id]], writes[u].id, u)
      BY <1>7, <3>1, LiveAfterAppend DEF IInv
    <3>3. writes[u].id = m.id <=> u = m.ver
      BY <1>1 DEF UniqueIds
    <3> QED BY <3>1, <3>2, <3>3, LiveIsNewest
  <2>3. Stored' = Stored \ {m.ver}
    BY <2>1, <2>2 DEF Stored
  <2>4. CASE m.ver \in Stored
    <3>1. Promise!Retire(m.ver)
      BY <2>1, <2>3, <2>4 DEF Promise!Retire
    <3> QED BY <1>1, <3>1 DEF Promise!Next
  <2>5. CASE m.ver \notin Stored
    <3>1. Stored' = Stored
      BY <2>3, <2>5
    <3> QED BY <2>1, <3>1 DEF Promise!vars
  <2> QED BY <2>4, <2>5
<1> QED BY <1>4, <1>5, <1>6, <1>7 DEF Message, Sends

\* Compaction drops no active record and revives none.
LEMMA CompactKeepsPromise ==
  ASSUME IInv, SetsAssumption, NEW q \in Partitions, Compact(q)
  PROVE  UNCHANGED Promise!vars
<1>1. UNCHANGED <<now, writes, delivered>>
  BY DEF Compact, clientVars
<1>2. ASSUME NEW v \in DOMAIN writes
      PROVE  Live(v)' <=> Live(v)
  <2>1. PICK id : id = writes[v].id
    OBVIOUS
  <2>2. PICK p : p = PartitionOf[id]
    OBVIOUS
  <2>3. id \in Ids /\ id # None /\ p \in Partitions
    BY <2>1, <2>2, WriteTypes DEF IInv, SetsAssumption
  <2>4. log[p] \in Seq(Entry)
    BY <2>3 DEF IInv, TypeOK
  <2>5. \/ log'[p] = log[p]
        \/ \E i, j \in DOMAIN log[p] :
             /\ i < j /\ log[p][i].id = log[p][j].id
             /\ log'[p] = [log[p] EXCEPT ![i] = Compacted]
    BY <2>3, CompactSteps DEF IInv
  <2>6. Newest(log'[p], id, v) <=> Newest(log[p], id, v)
    <3>1. CASE log'[p] = log[p]
      BY <3>1
    <3>2. ASSUME NEW i \in DOMAIN log[p], NEW j \in DOMAIN log[p],
                 i < j, log[p][i].id = log[p][j].id,
                 log'[p] = [log[p] EXCEPT ![i] = Compacted]
          PROVE  Newest(log'[p], id, v) <=> Newest(log[p], id, v)
      BY <2>3, <2>4, <3>2, NewestCompact
    <3> QED BY <2>5, <3>1, <3>2
  <2> QED BY <1>1, <2>1, <2>2, <2>6, LiveIsNewest
<1>3. Stored' = Stored
  BY <1>1, <1>2 DEF Stored
<1> QED BY <1>1, <1>3 DEF Promise!vars

LEMMA StepKeepsPromise ==
  ASSUME IInv, SetsAssumption, TombstonesFollowDelivery, UniqueIds, SeenInv, ~AllowRetries,
         [Next]_vars
  PROVE  [Promise!Next]_(Promise!vars)
<1>1. CASE PublishLater
  <2>1. PICK id \in Ids, notBefore \in NotBefores : WriteSchedule(id, notBefore)
    BY <1>1 DEF PublishLater
  <2>2. Promise!Request(id, notBefore)
    BY <2>1, WriteKeepsPromise
  <2> QED BY <2>2 DEF Promise!Next
<1>2. ASSUME NEW b \in batches, Send(b) PROVE [Promise!Next]_(Promise!vars)
  <2>1. PICK j \in b.todo : Land(b.step, j.id, j.ver)
    BY <1>2 DEF Send
  <2>2. GoodBatch(b) /\ b.step \in Sends /\ b \in Batch /\ UNCHANGED <<now, writes>>
    BY <1>2 DEF IInv, BatchInv, TypeOK, Send, clientVars
  <2>3. j \in b.jobs /\ j.id \in Ids /\ j.ver \in Nat /\ Seen(j.id)
    BY <2>1, <2>2 DEF GoodBatch, Batch, Job, SeenInv, BatchesSeen
  <2> DEFINE m == [kind |-> b.step, id |-> j.id, ver |-> j.ver]
  <2>4. m \in Message /\ GoodMessage(m)
    BY <2>2, <2>3 DEF Message, GoodMessage, GoodBatch, GoodJob, Sends
  <2> QED BY <2>1, <2>2, <2>3, <2>4, LandKeepsPromise
<1>3. CASE LandLate
  <2>1. PICK m \in late : Land(m.kind, m.id, m.ver)
    BY <1>3 DEF LandLate
  <2>2. m \in Message /\ GoodMessage(m) /\ (m.kind # "schedule" => Seen(m.id))
    BY DEF IInv, TypeOK, LateInv, SeenInv, LateSeen
  <2>3. UNCHANGED <<now, writes>>
    BY <1>3 DEF LandLate, clientVars
  <2> QED BY <2>1, <2>2, <2>3, LandKeepsPromise
<1>4. CASE \E p \in Partitions : Compact(p)
  BY <1>4, CompactKeepsPromise
<1>5. CASE Tick
  <2>1. now' = now + 1 /\ UNCHANGED <<writes, log, delivered>>
    BY <1>5 DEF Tick, clientVars, topicVars
  <2>2. Promise!Tick
    BY <2>1 DEF Promise!Tick, Stored, Live
  <2> QED BY <2>2 DEF Promise!Next
<1>6. CASE UNCHANGED <<now, writes, log, delivered>>
  BY <1>6 DEF Promise!vars, Stored, Live
<1>7. CASE \/ \E w \in Workers : Start(w) \/ Fire(w) \/ Close(w) \/ Crash(w)
           \/ \E w \in Workers, p \in Partitions : Consume(w, p)
           \/ \E b \in batches : SendFails(b) \/ Requeue(b)
           \/ \E p \in Partitions : Assign(p) \/ Revoke(p)
           \/ UNCHANGED vars
  BY <1>6, <1>7 DEF Start, Fire, Close, Crash, Leave, Consume, SendFails, Requeue, Assign,
     Revoke, vars, clientVars, topicVars
<1> QED BY <1>1, <1>2, <1>3, <1>4, <1>5, <1>7 DEF Next, RetryLater

(* When ids are scheduled once and never retried, the scheduler implements   *)
(* the promise of PubSubScheduler, through every rebalance, replay, crash,   *)
(* compaction and late or repeated send.                                     *)
THEOREM ImplementsPromise ==
  ASSUME ~ReuseIds, ~AllowRetries
  PROVE  Spec => KeepsPromise
<1>1. Init => Promise!Init
  BY DEF Init, Promise!Init, Stored
<1>2. Init => UniqueIds /\ SeenInv
  <2> SUFFICES ASSUME Init PROVE UniqueIds /\ SeenInv
    OBVIOUS
  <2>1. UniqueIds
    BY DEF Init, UniqueIds
  <2>2. EntriesSeen /\ RecordsSeen /\ BatchesSeen /\ LateSeen
    BY DEF Init, EntriesSeen, RecordsSeen, BatchesSeen, LateSeen, NoRecord
  <2> QED BY <2>1, <2>2 DEF SeenInv
<1>3. IInv /\ UniqueIds /\ SeenInv /\ [Next]_vars => (UniqueIds /\ SeenInv)'
  BY UniqueIdsKeep, SeenInvKeeps, SetsAssumption
<1>4. /\ IInv /\ TombstonesFollowDelivery /\ UniqueIds /\ SeenInv /\ [Next]_vars
      => [Promise!Next]_(Promise!vars)
  BY StepKeepsPromise, SetsAssumption
<1> QED BY <1>1, <1>2, <1>3, <1>4, TopicInvariant, PTL DEF Spec, KeepsPromise, Promise!Spec
=============================================================================
