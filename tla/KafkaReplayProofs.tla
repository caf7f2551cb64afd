--------------------------- MODULE KafkaReplayProofs ---------------------------
(***************************************************************************)
(* Theorems about what a worker of KafkaScheduler takes up after a start:  *)
(* nothing that the schedules topic had ended, or replaced, before it.     *)
(* They have the premise that no partition is taken from a worker: one     *)
(* that gets a partition back reads it again from the beginning, timer     *)
(* running, and may deliver what it has read the tombstone of before.      *)
(***************************************************************************)
EXTENDS KafkaDeliveryProofs

-------------------------------------------------------------------------------
(* Entry k of the topic comes after the record of ver and is about its id.   *)

Supersedes(topic, k, id, ver) ==
  /\ k \in DOMAIN topic /\ topic[k].id = id
  /\ \E i \in DOMAIN topic : i < k /\ topic[i] = [id |-> id, ver |-> ver]

\* All of them come after what the worker found when it started.
Respects(w, id, ver) ==
  \A k : Supersedes(log[PartitionOf[id]], k, id, ver) => k > replayTo[w][PartitionOf[id]]

\* A write is at one place of the topic; none that is still to come is there.
OncePerWrite ==
  /\ \A p \in Partitions : \A i, k \in DOMAIN log[p] :
       log[p][i].ver # 0 /\ log[p][i].ver = log[p][k].ver => i = k
  /\ \A m \in late : m.kind = "schedule" =>
       \A p \in Partitions : \A i \in DOMAIN log[p] : log[p][i].ver # m.ver

\* A partition has one reader, which reads what is there.
Readers ==
  /\ \A u, w \in Workers : u # w => assigned[u] \cap assigned[w] = {}
  /\ \A w \in Workers : \A p \in assigned[w] : position[p] <= Len(log[p]) + 1
  /\ \A w \in Workers, p \in Partitions : status[w] # "down" => replayTo[w][p] <= Len(log[p])

\* What is no longer to be replayed has been read to where the worker started.
Replayed ==
  \A w \in Workers, p \in Partitions :
    status[w] # "down" /\ p \notin replaying[w] =>
      \/ replayTo[w][p] = 0
      \/ p \in assigned[w] /\ position[p] > replayTo[w][p]

\* start() sets no timer and delivers nothing before the end of the replay.
QuietReplay == \A w \in Workers : status[w] = "recovering" => ~armed[w] /\ ~Busy(w)

\* A record in memory: what supersedes it is not read yet, or came after the start.
ReadSoFar(w, id, ver) ==
  /\ PartitionOf[id] \in assigned[w]
  /\ \A k : Supersedes(log[PartitionOf[id]], k, id, ver) =>
       k >= position[PartitionOf[id]] \/ k > replayTo[w][PartitionOf[id]]
RecordsRead ==
  \A w \in Workers, id \in Ids :
    records[w][id].ver # 0 => ReadSoFar(w, id, records[w][id].ver)

JobsRead ==
  \A b \in batches : b.worker # None =>
    \A j \in b.jobs : PartitionOf[j.id] \in assigned[b.worker] /\ Respects(b.worker, j.id, j.ver)

ReplayInv ==
  OncePerWrite /\ Readers /\ Replayed /\ QuietReplay /\ RecordsRead /\ JobsRead

-------------------------------------------------------------------------------
LEMMA TopicGrows ==
  ASSUME IInv, SetsAssumption, [Next]_vars, NEW p \in Partitions
  PROVE  /\ Len(log[p]) \in Nat /\ DOMAIN log[p] = 1 .. Len(log[p])
         /\ Len(log'[p]) \in Nat /\ DOMAIN log'[p] = 1 .. Len(log'[p])
         /\ Len(log[p]) <= Len(log'[p])
         /\ \A i \in DOMAIN log[p] : log'[p][i] = log[p][i] \/ log'[p][i] = Compacted
<1>1. log[p] \in Seq(Entry)
  BY DEF IInv, TypeOK
<1>2. CASE \E m \in Message : Appends(m)
  <2>1. PICK m \in Message : Appends(m)
    BY <1>2
  <2> DEFINE e == [id |-> m.id, ver |-> IF m.kind = "schedule" THEN m.ver ELSE 0]
  <2>2. e \in Entry
    BY DEF Entry, Message
  <2>3. log'[p] = log[p] \/ log'[p] = Append(log[p], e)
    BY <2>1, AppendSteps DEF Appends, IInv
  <2> HIDE DEF e
  <2> QED BY <1>1, <2>2, <2>3
<1>3. CASE \E q \in Partitions : Compact(q)
  <2>1. log'[p] = log[p] \/ \E i \in DOMAIN log[p] : log'[p] = [log[p] EXCEPT ![i] = Compacted]
    BY <1>3, CompactSteps DEF IInv
  <2>2. CASE log'[p] = log[p]
    BY <1>1, <2>2
  <2>3. ASSUME NEW i \in DOMAIN log[p], log'[p] = [log[p] EXCEPT ![i] = Compacted]
        PROVE  /\ Len(log'[p]) = Len(log[p]) /\ DOMAIN log'[p] = DOMAIN log[p]
               /\ \A k \in DOMAIN log[p] : log'[p][k] = log[p][k] \/ log'[p][k] = Compacted
    <3>1. Compacted \in Entry
      BY DEF Compacted, Entry
    <3> QED BY <1>1, <2>3, <3>1
  <2>4. Len(log[p]) \in Nat /\ DOMAIN log[p] = 1 .. Len(log[p])
    BY <1>1
  <2>5. CASE \E i \in DOMAIN log[p] : log'[p] = [log[p] EXCEPT ![i] = Compacted]
    <3>1. /\ Len(log'[p]) = Len(log[p]) /\ DOMAIN log'[p] = DOMAIN log[p]
          /\ \A k \in DOMAIN log[p] : log'[p][k] = log[p][k] \/ log'[p][k] = Compacted
      BY <2>3, <2>5
    <3> QED BY <2>4, <3>1
  <2> QED BY <2>1, <2>2, <2>4, <2>5
<1>4. CASE log' = log
  BY <1>1, <1>4
<1> QED BY <1>2, <1>3, <1>4, TopicSteps

\* What supersedes a record after a step did so before, or is new.
LEMMA SupersededBefore ==
  ASSUME IInv, SetsAssumption, [Next]_vars, NEW id \in Ids, NEW ver, NEW k,
         Supersedes(log'[PartitionOf[id]], k, id, ver)
  PROVE  Supersedes(log[PartitionOf[id]], k, id, ver) \/ k > Len(log[PartitionOf[id]])
<1>1. PICK p \in Partitions : p = PartitionOf[id]
  BY DEF SetsAssumption
<1>2. id # None /\ Compacted.id = None
  BY DEF SetsAssumption, Compacted
<1>3. PICK i \in DOMAIN log'[p] : i < k /\ log'[p][i] = [id |-> id, ver |-> ver]
  BY <1>1 DEF Supersedes
<1>4. k \in DOMAIN log'[p] /\ log'[p][k].id = id
  BY <1>1 DEF Supersedes
<1>5. CASE k <= Len(log[p])
  <2>1. k \in DOMAIN log[p] /\ i \in DOMAIN log[p]
    BY <1>3, <1>4, <1>5, TopicGrows
  <2>2. log'[p][k] = log[p][k] /\ log'[p][i] = log[p][i]
    BY <1>2, <1>3, <1>4, <2>1, TopicGrows
  <2> QED BY <1>1, <1>3, <1>4, <2>1, <2>2 DEF Supersedes
<1>6. CASE k > Len(log[p])
  BY <1>1, <1>6
<1> QED BY <1>4, <1>5, <1>6, TopicGrows

LEMMA ReadersKeep ==
  ASSUME IInv, SetsAssumption, TimerInv, Readers, [Next]_vars
  PROVE  Readers'
<1>1. \A p \in Partitions : Len(log[p]) \in Nat /\ Len(log'[p]) \in Nat /\ Len(log[p]) <= Len(log'[p])
  BY TopicGrows
<1>2. ASSUME NEW w \in Workers, NEW p \in Partitions, Consume(w, p)
      PROVE  Readers'
  <2>1. PICK o \in position[p] .. Len(log[p]) : position' = [position EXCEPT ![p] = o + 1]
    BY <1>2 DEF Consume
  <2>2. UNCHANGED <<log, assigned, replayTo>> /\ \A u \in Workers : status'[u] = "down" <=> status[u] = "down"
    BY <1>2 DEF Consume, topicVars, IInv, TypeOK, TimerInv, TimerOK
  <2>3. position'[p] <= Len(log[p]) + 1 /\ \A q \in Partitions \ {p} : position'[q] = position[q]
    BY <1>1, <2>1 DEF IInv, TypeOK
  <2> QED BY <2>2, <2>3 DEF Readers, IInv, TypeOK
<1>3. ASSUME NEW p \in Partitions, Assign(p)
      PROVE  Readers'
  <2>1. PICK w \in Workers :
          /\ \A u \in Workers : p \notin assigned[u]
          /\ assigned' = [assigned EXCEPT ![w] = @ \cup {p}]
          /\ position' = [position EXCEPT ![p] = 1]
    BY <1>3 DEF Assign
  <2>2. UNCHANGED <<log, replayTo, status>>
    BY <1>3 DEF Assign, topicVars, workerVars
  <2>3. \A u \in Workers : assigned'[u] = IF u = w THEN assigned[u] \cup {p} ELSE assigned[u]
    BY <2>1 DEF IInv, TypeOK
  <2>4. \A q \in Partitions : position'[q] = IF q = p THEN 1 ELSE position[q]
    BY <2>1 DEF IInv, TypeOK
  <2> QED BY <1>1, <2>1, <2>2, <2>3, <2>4 DEF Readers, IInv, TypeOK
<1>4. ASSUME NEW w \in Workers, Start(w)
      PROVE  Readers'
  <2>1. /\ replayTo' = [replayTo EXCEPT ![w] = [p \in Partitions |-> Len(log[p])]]
        /\ UNCHANGED <<log, assigned, position>> /\ \A u \in Workers \ {w} : status'[u] = status[u]
    BY <1>4 DEF Start, topicVars, groupVars, IInv, TypeOK
  <2>2. \A u \in Workers, p \in Partitions :
          replayTo'[u][p] = IF u = w THEN Len(log[p]) ELSE replayTo[u][p]
    BY <2>1 DEF IInv, TypeOK
  <2> QED BY <1>1, <2>1, <2>2 DEF Readers, IInv, TypeOK
<1>5. ASSUME NEW w \in Workers, Leave(w)
      PROVE  Readers'
  <2>1. /\ \A u \in Workers : assigned'[u] \subseteq assigned[u]
        /\ \A u \in Workers : status'[u] = "down" \/ status'[u] = status[u]
        /\ UNCHANGED <<log, position, replayTo>>
    BY <1>5 DEF Leave, IInv, TypeOK
  <2> QED BY <2>1 DEF Readers
<1>6. ASSUME NEW p \in Partitions, Revoke(p)
      PROVE  Readers'
  <2>1. (\A u \in Workers : assigned'[u] \subseteq assigned[u]) /\ UNCHANGED <<log, position, replayTo, status>>
    BY <1>6 DEF Revoke, topicVars, workerVars, IInv, TypeOK
  <2> QED BY <2>1 DEF Readers
<1>7. CASE UNCHANGED <<assigned, position, status, replayTo>>
  <2>1. \A w \in Workers : \A p \in assigned[w] : p \in Partitions /\ position[p] \in Nat
    BY DEF IInv, TypeOK
  <2>2. \A w \in Workers : \A p \in Partitions : replayTo[w][p] \in Nat
    BY DEF IInv, TypeOK
  <2> QED BY <1>1, <1>7, <2>1, <2>2 DEF Readers
<1>8. \/ \E w \in Workers, p \in Partitions : Consume(w, p)
      \/ \E p \in Partitions : Assign(p) \/ Revoke(p)
      \/ \E w \in Workers : Start(w) \/ Leave(w)
      \/ UNCHANGED <<assigned, position, status, replayTo>>
  BY DEF Next, PublishLater, RetryLater, WriteSchedule, Fire, Close, Crash, Send, SendFails,
         Requeue, LandLate, Compact, Tick, vars, groupVars, workerVars
<1> QED BY <1>2, <1>3, <1>4, <1>5, <1>6, <1>7, <1>8

LEMMA ReplayedKeeps ==
  ASSUME IInv, SetsAssumption, MaxRevokes = 0, TimerInv, Readers, Replayed, [Next]_vars
  PROVE  Replayed'
<1>1. ASSUME NEW w \in Workers, NEW p \in Partitions, Consume(w, p)
      PROVE  Replayed'
  <2>1. PICK o \in position[p] .. Len(log[p]) :
          /\ position' = [position EXCEPT ![p] = o + 1]
          /\ replaying' = [replaying EXCEPT ![w] = LeftToReplay(w, p, o)]
          /\ p \in assigned[w] /\ UNCHANGED <<assigned, replayTo>>
    BY <1>1 DEF Consume
  <2>2. status[w] # "down" /\ \A u \in Workers \ {w} : status'[u] = status[u]
    BY <1>1 DEF Consume, TimerInv, TimerOK, IInv, TypeOK
  <2>3. position'[p] = o + 1 /\ \A q \in Partitions \ {p} : position'[q] = position[q]
    BY <2>1 DEF IInv, TypeOK
  <2>4. /\ replaying'[w] = LeftToReplay(w, p, o)
        /\ \A u \in Workers \ {w} : replaying'[u] = replaying[u] /\ p \notin assigned[u]
    BY <2>1 DEF Readers, IInv, TypeOK
  <2>5. replayTo[w][p] \in Nat /\ o \in Nat
    BY <2>1 DEF IInv, TypeOK
  <2> SUFFICES ASSUME NEW u \in Workers, NEW q \in Partitions,
                      status'[u] # "down", q \notin replaying'[u], replayTo'[u][q] # 0
               PROVE  q \in assigned'[u] /\ position'[q] > replayTo'[u][q]
    BY DEF Replayed
  <2>6. CASE u # w
    <3>1. q \in assigned[u] /\ position[q] > replayTo[u][q] /\ q # p
      BY <2>1, <2>2, <2>4, <2>6 DEF Replayed
    <3> QED BY <2>1, <2>3, <3>1
  <2>7. CASE u = w /\ q # p
    <3>1. q \notin replaying[w]
      BY <2>4, <2>7 DEF LeftToReplay
    <3>2. q \in assigned[w] /\ position[q] > replayTo[w][q]
      BY <2>1, <2>2, <2>7, <3>1 DEF Replayed
    <3> QED BY <2>1, <2>3, <2>7, <3>2
  <2>8. CASE u = w /\ q = p
    <3>1. CASE o < replayTo[w][p]
      <4>1. p \notin replaying[w]
        BY <2>4, <2>8, <3>1 DEF LeftToReplay
      <4>2. position[p] > replayTo[w][p] /\ position[p] <= o
        BY <2>1, <2>2, <2>8, <4>1 DEF Replayed, IInv, TypeOK
      <4> QED BY <2>5, <3>1, <4>2 DEF IInv, TypeOK
    <3>2. CASE ~ (o < replayTo[w][p])
      BY <2>1, <2>3, <2>5, <2>8, <3>2
    <3> QED BY <3>1, <3>2
  <2> QED BY <2>6, <2>7, <2>8
<1>2. ASSUME NEW p \in Partitions, Assign(p)
      PROVE  Replayed'
  <2>1. PICK w \in Workers :
          /\ \A u \in Workers : p \notin assigned[u]
          /\ assigned' = [assigned EXCEPT ![w] = @ \cup {p}]
          /\ position' = [position EXCEPT ![p] = 1]
    BY <1>2 DEF Assign
  <2>2. UNCHANGED <<replayTo, status, replaying>>
    BY <1>2 DEF Assign, workerVars
  <2>3. \A u \in Workers : assigned[u] \subseteq assigned'[u]
    BY <2>1 DEF IInv, TypeOK
  <2>4. \A q \in Partitions \ {p} : position'[q] = position[q]
    BY <2>1 DEF IInv, TypeOK
  <2> QED BY <2>1, <2>2, <2>3, <2>4 DEF Replayed
<1>3. ASSUME NEW w \in Workers, Start(w)
      PROVE  Replayed'
  <2>1. /\ replayTo' = [replayTo EXCEPT ![w] = [p \in Partitions |-> Len(log[p])]]
        /\ replaying' = [replaying EXCEPT ![w] = {p \in Partitions : log[p] # <<>>}]
        /\ UNCHANGED <<assigned, position>> /\ \A u \in Workers \ {w} : status'[u] = status[u]
    BY <1>3 DEF Start, groupVars, IInv, TypeOK
  <2>2. \A u \in Workers \ {w} : replayTo'[u] = replayTo[u] /\ replaying'[u] = replaying[u]
    BY <2>1 DEF IInv, TypeOK
  <2>3. \A p \in Partitions : p \notin replaying'[w] => replayTo'[w][p] = 0
    <3> SUFFICES ASSUME NEW p \in Partitions, p \notin replaying'[w] PROVE replayTo'[w][p] = 0
      OBVIOUS
    <3>1. log[p] = <<>> /\ Len(<<>>) = 0
      BY <2>1 DEF IInv, TypeOK
    <3> QED BY <2>1, <3>1 DEF IInv, TypeOK
  <2> QED BY <2>1, <2>2, <2>3 DEF Replayed
<1>4. ASSUME NEW w \in Workers, Leave(w)
      PROVE  Replayed'
  <2>1. /\ status'[w] = "down" /\ UNCHANGED <<position, replayTo>>
        /\ \A u \in Workers \ {w} : /\ status'[u] = status[u] /\ assigned'[u] = assigned[u]
                                    /\ replaying'[u] = replaying[u]
    BY <1>4 DEF Leave, IInv, TypeOK
  <2> QED BY <2>1 DEF Replayed
<1>5. CASE UNCHANGED <<assigned, position, status, replayTo, replaying>>
  BY <1>5 DEF Replayed
<1>6. \A p \in Partitions : ~ Revoke(p)
  BY DEF Revoke, IInv, TypeOK, Spent
<1>7. \/ \E w \in Workers, p \in Partitions : Consume(w, p)
      \/ \E p \in Partitions : Assign(p) \/ Revoke(p)
      \/ \E w \in Workers : Start(w) \/ Leave(w)
      \/ UNCHANGED <<assigned, position, status, replayTo, replaying>>
  BY DEF Next, PublishLater, RetryLater, WriteSchedule, Fire, Close, Crash, Send, SendFails,
         Requeue, LandLate, Compact, Tick, vars, groupVars, workerVars
<1> QED BY <1>1, <1>2, <1>3, <1>4, <1>5, <1>6, <1>7

\* A batch goes on, with the same jobs, for the same worker.
LEMMA BatchContinues ==
  ASSUME IInv, SetsAssumption, NEW b \in batches, Send(b) \/ SendFails(b) \/ Requeue(b)
  PROVE  \E next :
           /\ Continues(b, next) /\ \A c \in next : c.jobs = b.jobs
           /\ UNCHANGED <<status, replayTo, assigned, position>>
           /\ \A u \in Workers \ {b.worker} : armed'[u] = armed[u] /\ records'[u] = records[u]
<1>0. b \in Batch
  BY DEF IInv, TypeOK
<1>1. CASE Send(b)
  <2>1. PICK j \in b.todo : batches' = (batches \ {b}) \cup Progress(b, j)
    BY <1>1 DEF Send
  <2>2. \A c \in Progress(b, j) : c.worker = b.worker /\ c.jobs = b.jobs
    BY <1>0 DEF Progress, Batch
  <2>3. /\ UNCHANGED <<status, replayTo, assigned, position, records>>
        /\ \A u \in Workers \ {b.worker} : armed'[u] = armed[u]
    BY <1>1 DEF Send, groupVars, IInv, TypeOK
  <2> QED BY <2>1, <2>2, <2>3 DEF Continues
<1>2. CASE SendFails(b)
  <2>1. \A c \in AfterFailure(b) : c.worker = b.worker /\ c.jobs = b.jobs
    BY <1>0 DEF AfterFailure, Batch
  <2> QED BY <1>2, <2>1 DEF SendFails, Continues, groupVars, workerVars
<1>3. CASE Requeue(b)
  <2>1. PICK j \in b.todo :
          /\ records' = [records EXCEPT ![b.worker][j.id] = [ver |-> j.ver, due |-> BackOff(now)]]
          /\ \/ /\ batches' = (batches \ {b}) \cup {[b EXCEPT !.todo = @ \ {j}]}
                /\ UNCHANGED armed
             \/ /\ batches' = (batches \ {b}) \cup {}
                /\ armed' = [armed EXCEPT ![b.worker] = TRUE]
    BY <1>3 DEF Requeue
  <2>2. /\ UNCHANGED <<status, replayTo, assigned, position>>
        /\ \A u \in Workers \ {b.worker} : armed'[u] = armed[u] /\ records'[u] = records[u]
    BY <1>3, <2>1 DEF Requeue, groupVars, IInv, TypeOK
  <2> DEFINE c == [b EXCEPT !.todo = @ \ {j}]
  <2>3. c.worker = b.worker /\ c.jobs = b.jobs
    BY <1>0 DEF Batch
  <2> HIDE DEF c
  <2>4. Continues(b, {c}) \/ Continues(b, {})
    BY <2>1, <2>3 DEF Continues, c
  <2> QED BY <2>2, <2>3, <2>4
<1> QED BY <1>1, <1>2, <1>3

\* A worker that recovers has no timer and no batch, and a step gives it none.
LEMMA QuietReplayKeeps ==
  ASSUME IInv, SetsAssumption, TimerInv, QuietReplay, [Next]_vars
  PROVE  QuietReplay'
<1> SUFFICES ASSUME NEW w \in Workers, status'[w] = "recovering"
             PROVE  ~armed'[w] /\ ~Busy(w)'
  BY DEF QuietReplay
<1>1. ASSUME status[w] = "recovering" PROVE ~armed[w] /\ ~Busy(w) /\ \A b \in batches : b.worker # w
  BY <1>1 DEF QuietReplay, Busy
<1>2. ASSUME NEW u \in Workers, Start(u)
      PROVE  ~armed'[w] /\ ~Busy(w)'
  <2>1. UNCHANGED <<armed, batches>> /\ (u = w \/ status[w] = "recovering")
    BY <1>2 DEF Start, IInv, TypeOK
  <2>2. ~armed[w] /\ ~Busy(w)
    BY <1>1, <1>2, <2>1 DEF Start, TimerInv, TimerOK
  <2> QED BY <2>1, <2>2 DEF Busy
<1>3. ASSUME NEW u \in Workers, NEW p \in Partitions, Consume(u, p)
      PROVE  ~armed'[w] /\ ~Busy(w)'
  <2>1. PICK left, recs :
          /\ status' = [status EXCEPT ![u] = IF left = {} THEN "running" ELSE @]
          /\ armed' = [armed EXCEPT ![u] = TimerAfterReplay(u, left, recs)]
          /\ UNCHANGED batches
    BY <1>3 DEF Consume
  <2>2. status[w] = "recovering" /\ armed'[w] = armed[w]
    BY <2>1 DEF TimerAfterReplay, IInv, TypeOK
  <2> QED BY <1>1, <2>1, <2>2 DEF Busy
<1>4. ASSUME NEW u \in Workers, Fire(u)
      PROVE  ~armed'[w] /\ ~Busy(w)'
  <2>1. PICK owned, x :
          /\ armed[u] /\ armed' = [armed EXCEPT ![u] = x] /\ UNCHANGED status
          /\ batches' = IF owned = {} THEN batches
                        ELSE batches \cup {[worker |-> u, step |-> "target", jobs |-> owned, todo |-> owned]}
    BY <1>4 DEF Fire
  <2>2. ~armed[w] /\ ~Busy(w) /\ w # u
    BY <1>1, <2>1
  <2>3. armed'[w] = armed[w] /\ \A b \in batches' : b \in batches \/ b.worker = u
    BY <2>1, <2>2 DEF IInv, TypeOK
  <2> QED BY <2>2, <2>3 DEF Busy
<1>5. ASSUME NEW c \in batches, NEW next, Continues(c, next), UNCHANGED status,
             \A u \in Workers \ {c.worker} : armed'[u] = armed[u]
      PROVE  ~armed'[w] /\ ~Busy(w)'
  BY <1>1, <1>5 DEF Continues, Busy
<1>6. ASSUME NEW c \in batches, Send(c) \/ SendFails(c) \/ Requeue(c)
      PROVE  \E next : Continues(c, next) /\ UNCHANGED status /\ \A u \in Workers \ {c.worker} : armed'[u] = armed[u]
  BY <1>6, BatchContinues
<1>7. ASSUME NEW u \in Workers, Close(u) \/ Crash(u)
      PROVE  ~armed'[w] /\ ~Busy(w)'
  <2>1. u # w /\ status[w] = "recovering" /\ armed'[w] = armed[w]
    BY <1>7 DEF Close, Crash, Leave, IInv, TypeOK
  <2>2. \A b \in batches' : b.worker = w => \E c \in batches : c.worker = w
    BY <1>7, <2>1 DEF Close, Crash, SetsAssumption, IInv, TypeOK, Batch
  <2> QED BY <1>1, <2>1, <2>2 DEF Busy
<1>8. CASE UNCHANGED <<status, armed, batches>>
  BY <1>1, <1>8 DEF Busy
<1>9. \/ \E u \in Workers : Start(u) \/ Fire(u) \/ Close(u) \/ Crash(u)
      \/ \E u \in Workers, p \in Partitions : Consume(u, p)
      \/ \E c \in batches : Send(c) \/ SendFails(c) \/ Requeue(c)
      \/ UNCHANGED <<status, armed, batches>>
  BY DEF Next, PublishLater, RetryLater, WriteSchedule, LandLate, Compact, Assign, Revoke,
         Tick, vars, workerVars
<1> QED BY <1>2, <1>3, <1>4, <1>5, <1>6, <1>7, <1>8, <1>9

-------------------------------------------------------------------------------
(* A write is appended once: its caller's send lands, or it is late.         *)

LEMMA EntryVersions ==
  ASSUME IInv, NEW p \in Partitions, NEW i \in DOMAIN log[p], log[p][i].ver # 0
  PROVE  log[p][i].ver \in DOMAIN writes
BY DEF IInv, LogInv, GoodEntry, IsWrite, Compacted

LEMMA AppendsOnce ==
  ASSUME IInv, SetsAssumption, NEW m \in Message, Land(m.kind, m.id, m.ver), OncePerWrite,
         m.kind = "schedule" => \A p \in Partitions : \A i \in DOMAIN log[p] : log[p][i].ver # m.ver
  PROVE  /\ \A p \in Partitions : \A i, k \in DOMAIN log'[p] :
              log'[p][i].ver # 0 /\ log'[p][i].ver = log'[p][k].ver => i = k
         /\ \A p \in Partitions : \A i \in DOMAIN log'[p] :
              \/ log'[p][i].ver = 0
              \/ m.kind = "schedule" /\ log'[p][i].ver = m.ver
              \/ i \in DOMAIN log[p] /\ log'[p][i].ver = log[p][i].ver
<1> DEFINE e == [id |-> m.id, ver |-> IF m.kind = "schedule" THEN m.ver ELSE 0]
<1> SUFFICES ASSUME NEW p \in Partitions
             PROVE  /\ \A i, k \in DOMAIN log'[p] :
                         log'[p][i].ver # 0 /\ log'[p][i].ver = log'[p][k].ver => i = k
                    /\ \A i \in DOMAIN log'[p] :
                         \/ log'[p][i].ver = 0
                         \/ m.kind = "schedule" /\ log'[p][i].ver = m.ver
                         \/ i \in DOMAIN log[p] /\ log'[p][i].ver = log[p][i].ver
  OBVIOUS
<1>1. log[p] \in Seq(Entry) /\ e \in Entry
  BY DEF IInv, TypeOK, Entry, Message
<1>2. e.ver = 0 \/ (m.kind = "schedule" /\ e.ver = m.ver)
  <2>1. CASE m.kind = "schedule"
    BY <2>1
  <2>2. CASE m.kind # "schedule"
    BY <2>2
  <2> QED BY <2>1, <2>2
<1>3. log'[p] = log[p] \/ log'[p] = Append(log[p], e)
  BY AppendSteps DEF IInv
<1>4. \A i, k \in DOMAIN log[p] : log[p][i].ver # 0 /\ log[p][i].ver = log[p][k].ver => i = k
  BY DEF OncePerWrite
<1> HIDE DEF e
<1>5. CASE log'[p] = log[p]
  BY <1>4, <1>5
<1>6. CASE log'[p] = Append(log[p], e)
  <2> DEFINE n == Len(log[p])
  <2>1. /\ n \in Nat /\ DOMAIN log[p] = 1 .. n /\ DOMAIN log'[p] = 1 .. n + 1
        /\ log'[p][n + 1] = e /\ \A k \in 1 .. n : log'[p][k] = log[p][k]
    BY <1>1, <1>6
  <2>2. e.ver = 0 \/ \A k \in 1 .. n : log[p][k].ver # e.ver
    BY <1>2, <2>1
  <2> HIDE DEF n
  <2>3. ASSUME NEW i \in DOMAIN log'[p], NEW k \in DOMAIN log'[p],
               log'[p][i].ver # 0, log'[p][i].ver = log'[p][k].ver
        PROVE  i = k
    <3>1. CASE i = n + 1 \/ k = n + 1
      BY <2>1, <2>2, <2>3, <3>1
    <3>2. CASE i \in 1 .. n /\ k \in 1 .. n
      BY <1>4, <2>1, <2>3, <3>2
    <3> QED BY <2>1, <3>1, <3>2
  <2>4. ASSUME NEW i \in DOMAIN log'[p]
        PROVE  \/ log'[p][i].ver = 0
               \/ m.kind = "schedule" /\ log'[p][i].ver = m.ver
               \/ i \in DOMAIN log[p] /\ log'[p][i].ver = log[p][i].ver
    BY <1>2, <2>1
  <2> QED BY <2>3, <2>4
<1> QED BY <1>3, <1>5, <1>6

LEMMA OncePerWriteKeeps ==
  ASSUME IInv, SetsAssumption, OncePerWrite, [Next]_vars
  PROVE  OncePerWrite'
<1>1. ASSUME NEW id \in Ids, NEW notBefore \in Nat, WriteSchedule(id, notBefore)
      PROVE  OncePerWrite'
  <2>1. PICK v : v = Len(writes) + 1 /\ v \in Nat /\ v \notin DOMAIN writes
    BY DEF IInv, TypeOK
  <2> DEFINE m == [kind |-> "schedule", id |-> id, ver |-> v]
  <2>2. m \in Message /\ m.kind = "schedule" /\ m.id = id /\ m.ver = v
    BY <2>1 DEF Message
  <2> HIDE DEF m
  <2>3. v # 0
    BY <2>1 DEF IInv, TypeOK
  <2>4. \A p \in Partitions : \A i \in DOMAIN log[p] : log[p][i].ver # v
    BY <2>1, <2>3, EntryVersions
  <2>5. \A x \in late : x.ver \in DOMAIN writes
    BY DEF IInv, LateInv, GoodMessage, IsWrite
  <2>6. CASE Land("schedule", id, v) /\ late' = late
    <3>1. /\ \A p \in Partitions : \A i, k \in DOMAIN log'[p] :
               log'[p][i].ver # 0 /\ log'[p][i].ver = log'[p][k].ver => i = k
          /\ \A p \in Partitions : \A i \in DOMAIN log'[p] :
               \/ log'[p][i].ver = 0
               \/ log'[p][i].ver = v
               \/ i \in DOMAIN log[p] /\ log'[p][i].ver = log[p][i].ver
      BY <2>2, <2>4, <2>6, AppendsOnce
    <3>2. 0 \notin DOMAIN writes
      BY DEF IInv, TypeOK
    <3> QED BY <2>1, <2>5, <2>6, <3>1, <3>2 DEF OncePerWrite
  <2>7. CASE log' = log /\ late' = late \cup {m}
    BY <2>2, <2>4, <2>7 DEF OncePerWrite
  <2> QED BY <1>1, <2>1, <2>6, <2>7 DEF WriteSchedule, m
<1>2. ASSUME NEW b \in batches, Send(b)
      PROVE  OncePerWrite'
  <2>1. PICK j \in b.todo : Land(b.step, j.id, j.ver)
    BY <1>2 DEF Send
  <2>2. GoodBatch(b) /\ b.step \in Sends /\ b \in Batch /\ late' = late
    BY <1>2 DEF IInv, BatchInv, TypeOK, Send
  <2> DEFINE m == [kind |-> b.step, id |-> j.id, ver |-> j.ver]
  <2>3. m \in Message /\ m.kind # "schedule" /\ m.kind = b.step /\ m.id = j.id /\ m.ver = j.ver
    BY <2>1, <2>2 DEF Message, GoodBatch, Batch, Job, Sends
  <2> HIDE DEF m
  <2>4. \A x \in late : x.ver # 0
    BY DEF IInv, LateInv, GoodMessage, IsWrite, TypeOK
  <2> QED BY <2>1, <2>2, <2>3, <2>4, AppendsOnce DEF OncePerWrite
<1>3. CASE LandLate
  <2>1. PICK m \in late : Land(m.kind, m.id, m.ver) /\ late' = late \ {m}
    BY <1>3 DEF LandLate
  <2>2. \A x \in late : x \in Message /\ x.ver \in DOMAIN writes /\ writes[x.ver].id = x.id /\ x.ver # 0
    BY DEF IInv, TypeOK, LateInv, GoodMessage, IsWrite
  <2>3. \A x \in late' : x.kind = "schedule" /\ m.kind = "schedule" => x.ver # m.ver
    BY <2>1, <2>2 DEF Message
  <2>4. m.kind = "schedule" => \A p \in Partitions : \A i \in DOMAIN log[p] : log[p][i].ver # m.ver
    BY DEF OncePerWrite
  <2>5. /\ \A p \in Partitions : \A i, k \in DOMAIN log'[p] :
             log'[p][i].ver # 0 /\ log'[p][i].ver = log'[p][k].ver => i = k
        /\ \A p \in Partitions : \A i \in DOMAIN log'[p] :
             \/ log'[p][i].ver = 0
             \/ m.kind = "schedule" /\ log'[p][i].ver = m.ver
             \/ i \in DOMAIN log[p] /\ log'[p][i].ver = log[p][i].ver
    BY <2>1, <2>2, <2>4, AppendsOnce
  <2> QED BY <2>1, <2>2, <2>3, <2>5 DEF OncePerWrite
<1>4. ASSUME NEW q \in Partitions, Compact(q)
      PROVE  OncePerWrite'
  <2>1. late' = late
    BY <1>4 DEF Compact
  <2>2. ASSUME NEW p \in Partitions
        PROVE  /\ DOMAIN log'[p] = DOMAIN log[p]
               /\ \A i \in DOMAIN log[p] : log'[p][i] = log[p][i] \/ log'[p][i] = Compacted
    <3>1. log'[p] = log[p] \/ \E i \in DOMAIN log[p] : log'[p] = [log[p] EXCEPT ![i] = Compacted]
      BY <1>4, CompactSteps DEF IInv
    <3>2. log[p] \in Seq(Entry)
      BY DEF IInv, TypeOK
    <3> QED BY <3>1, <3>2
  <2>3. Compacted.ver = 0 /\ \A x \in late : x.ver # 0
    BY DEF Compacted, IInv, LateInv, GoodMessage, IsWrite, TypeOK
  <2> QED BY <2>1, <2>2, <2>3 DEF OncePerWrite
<1>5. ASSUME log' = log, \A m \in late' : m \in late \/ m.kind # "schedule"
      PROVE  OncePerWrite'
  BY <1>5 DEF OncePerWrite
<1>6. ASSUME NEW b \in batches, SendFails(b)
      PROVE  OncePerWrite'
  <2>1. log' = log /\ late' = late \cup Undelivered(b) /\ b.step # "schedule"
    BY <1>6 DEF SendFails, Sends
  <2> QED BY <1>5, <2>1 DEF Undelivered
<1>7. ASSUME NEW w \in Workers, Crash(w)
      PROVE  OncePerWrite'
  <2>1. /\ log' = log
        /\ late' = late \cup UNION {Undelivered(b) : b \in {c \in batches : c.worker = w /\ c.step \in Sends}}
    BY <1>7 DEF Crash, Leave
  <2>2. \A b \in batches : b.step \in Sends => \A m \in Undelivered(b) : m.kind # "schedule"
    BY DEF Undelivered, Sends
  <2> QED BY <1>5, <2>1, <2>2
<1>8. CASE UNCHANGED <<log, late>>
  BY <1>5, <1>8
<1>9. CASE PublishLater
  BY <1>1, <1>9 DEF PublishLater, SetsAssumption
<1>10. CASE RetryLater
  <2>1. PICK v \in delivered, notBefore \in NotBefores : WriteSchedule(writes[v].id, notBefore)
    BY <1>10 DEF RetryLater
  <2>2. writes[v].id \in Ids
    BY WriteTypes DEF IInv, TypeOK
  <2> QED BY <1>1, <2>1, <2>2 DEF SetsAssumption
<1>11. CASE \/ \E w \in Workers : Start(w) \/ Fire(w) \/ Close(w)
            \/ \E w \in Workers, p \in Partitions : Consume(w, p)
            \/ \E b \in batches : Requeue(b)
            \/ \E p \in Partitions : Assign(p) \/ Revoke(p)
            \/ Tick \/ UNCHANGED vars
  BY <1>8, <1>11 DEF Start, Fire, Close, Leave, Consume, Requeue, Assign, Revoke, Tick, vars, topicVars
<1> QED BY <1>2, <1>3, <1>4, <1>6, <1>7, <1>9, <1>10, <1>11 DEF Next

-------------------------------------------------------------------------------
(* Records and batches.                                                      *)

LEMMA ReadStays ==
  ASSUME IInv, SetsAssumption, Readers, [Next]_vars, NEW w \in Workers, NEW id \in Ids, NEW ver,
         status[w] # "down", ReadSoFar(w, id, ver), replayTo'[w] = replayTo[w],
         PartitionOf[id] \in assigned'[w],
         position'[PartitionOf[id]] \in {1, position[PartitionOf[id]]}
  PROVE  ReadSoFar(w, id, ver)'
<1>1. PICK p \in Partitions : p = PartitionOf[id]
  BY DEF SetsAssumption
<1>2. /\ Len(log[p]) \in Nat /\ DOMAIN log[p] = 1 .. Len(log[p])
      /\ Len(log'[p]) \in Nat /\ DOMAIN log'[p] = 1 .. Len(log'[p])
  BY TopicGrows
<1>3. replayTo[w][p] \in Nat /\ replayTo[w][p] <= Len(log[p]) /\ position[p] \in Nat
  BY DEF Readers, IInv, TypeOK
<1>4. ASSUME NEW k, Supersedes(log'[p], k, id, ver)
      PROVE  k >= position'[p] \/ k > replayTo'[w][p]
  <2>1. k \in Nat /\ k >= 1
    BY <1>2, <1>4 DEF Supersedes
  <2>2. CASE k > Len(log[p])
    BY <1>3, <2>1, <2>2, <1>2
  <2>3. CASE Supersedes(log[p], k, id, ver)
    <3>1. k >= position[p] \/ k > replayTo[w][p]
      BY <1>1, <2>3 DEF ReadSoFar
    <3>2. position'[p] = 1 \/ position'[p] = position[p]
      BY <1>1
    <3> QED BY <2>1, <3>1, <3>2
  <2> QED BY <1>1, <1>4, <2>2, <2>3, SupersededBefore
<1> QED BY <1>1, <1>4 DEF ReadSoFar

\* What consume has read: the record of the entry, and nothing of the others.
LEMMA ConsumeReads ==
  ASSUME IInv, SetsAssumption, OncePerWrite, Readers, RecordsRead,
         NEW u \in Workers, NEW q \in Partitions, Consume(u, q)
  PROVE  RecordsRead'
<1> SUFFICES ASSUME NEW w \in Workers, NEW id \in Ids, records'[w][id].ver # 0
             PROVE  ReadSoFar(w, id, records[w][id].ver)'
  BY DEF RecordsRead
<1>1. PICK o \in position[q] .. Len(log[q]) :
        /\ log[q][o] # Compacted
        /\ \A k \in position[q] .. o - 1 : log[q][k] = Compacted
        /\ position' = [position EXCEPT ![q] = o + 1]
        /\ records' = [records EXCEPT ![u] = Apply(records[u], log[q][o])]
        /\ q \in assigned[u] /\ UNCHANGED <<log, assigned, replayTo>>
  BY DEF Consume, topicVars
<1>2. PICK p \in Partitions : p = PartitionOf[id]
  BY DEF SetsAssumption
<1>3. /\ Len(log[q]) \in Nat /\ DOMAIN log[q] = 1 .. Len(log[q]) /\ o \in DOMAIN log[q]
      /\ position[q] \in Nat /\ o \in Nat
  BY <1>1 DEF IInv, TypeOK
<1>4. position'[q] = o + 1 /\ (p # q => position'[p] = position[p])
  BY <1>1 DEF IInv, TypeOK
<1>5. PICK e : e = log[q][o]
  OBVIOUS
<1>6. e.id \in Ids /\ PartitionOf[e.id] = q
  BY <1>1, <1>3, <1>5 DEF IInv, LogInv, GoodEntry
<1>7. CASE w = u /\ id = e.id
  <2>1. records'[w][id].ver = e.ver /\ p = q
    BY <1>1, <1>2, <1>5, <1>6, <1>7 DEF Apply, NoRecord, IInv, TypeOK
  <2>2. ASSUME NEW k, Supersedes(log[p], k, id, e.ver)
        PROVE  k >= position'[p]
    <3>1. PICK i \in DOMAIN log[q] : i < k /\ log[q][i] = [id |-> id, ver |-> e.ver]
      BY <2>1, <2>2 DEF Supersedes
    <3>2. i = o
      BY <1>3, <1>5, <2>1, <3>1 DEF OncePerWrite
    <3>3. k \in Nat
      BY <1>3, <2>1, <2>2 DEF Supersedes
    <3> QED BY <1>3, <1>4, <2>1, <3>1, <3>2, <3>3
  <2> QED BY <1>1, <1>2, <1>7, <2>1, <2>2 DEF ReadSoFar
<1>8. CASE ~ (w = u /\ id = e.id)
  <2>1. records'[w][id] = records[w][id]
    BY <1>1, <1>5, <1>8 DEF Apply, IInv, TypeOK
  <2>2. PICK ver : ver = records[w][id].ver
    OBVIOUS
  <2>3. ReadSoFar(w, id, ver)
    BY <2>1, <2>2 DEF RecordsRead
  <2>4. CASE p # q
    BY <1>1, <1>2, <1>4, <2>1, <2>2, <2>3, <2>4 DEF ReadSoFar
  <2>5. CASE p = q
    <3>1. w = u /\ id # e.id
      BY <1>1, <1>2, <1>8, <2>3, <2>5 DEF ReadSoFar, Readers
    <3>2. ASSUME NEW k, Supersedes(log[p], k, id, ver)
          PROVE  k >= position'[p] \/ k > replayTo[w][p]
      <4>1. k \in DOMAIN log[q] /\ log[q][k].id = id
        BY <2>5, <3>2 DEF Supersedes
      <4>2. k >= position[p] \/ k > replayTo[w][p]
        BY <1>2, <2>3, <3>2 DEF ReadSoFar
      <4>3. id # None /\ Compacted.id = None
        BY DEF SetsAssumption, Compacted
      <4>4. ~ (k \in position[q] .. o - 1) /\ k # o
        BY <1>1, <1>5, <3>1, <4>1, <4>3
      <4> QED BY <1>3, <1>4, <2>5, <4>1, <4>2, <4>4
    <3> QED BY <1>1, <1>2, <2>1, <2>2, <2>3, <3>2 DEF ReadSoFar
  <2> QED BY <2>4, <2>5
<1> QED BY <1>7, <1>8

LEMMA RespectsIsRead ==
  ASSUME NEW w, NEW id, NEW ver, PartitionOf[id] \in assigned[w], Respects(w, id, ver)
  PROVE  ReadSoFar(w, id, ver)
BY DEF Respects, ReadSoFar

LEMMA RecordsReadKeeps ==
  ASSUME IInv, SetsAssumption, MaxRevokes = 0, TimerInv, ReplayInv, [Next]_vars
  PROVE  RecordsRead'
<1>0. OncePerWrite /\ Readers /\ RecordsRead /\ JobsRead
  BY DEF ReplayInv
<1>1. CASE \E u \in Workers, q \in Partitions : Consume(u, q)
  BY <1>0, <1>1, ConsumeReads
<1> SUFFICES ASSUME NEW w \in Workers, NEW id \in Ids, records'[w][id].ver # 0,
                    ~ \E u \in Workers, q \in Partitions : Consume(u, q)
             PROVE  ReadSoFar(w, id, records[w][id].ver)'
  BY <1>1 DEF RecordsRead
<1>2. ASSUME NEW ver, ReadSoFar(w, id, ver), status[w] # "down", replayTo'[w] = replayTo[w],
             assigned[w] \subseteq assigned'[w],
             position'[PartitionOf[id]] \in {1, position[PartitionOf[id]]}
      PROVE  ReadSoFar(w, id, ver)'
  <2>1. PartitionOf[id] \in assigned'[w]
    BY <1>2 DEF ReadSoFar
  <2> QED BY <1>0, <1>2, <2>1, ReadStays
<1>3. ASSUME records'[w][id] = records[w][id], replayTo'[w] = replayTo[w],
             assigned[w] \subseteq assigned'[w],
             position'[PartitionOf[id]] \in {1, position[PartitionOf[id]]}
      PROVE  ReadSoFar(w, id, records[w][id].ver)'
  <2>1. PICK ver : ver = records[w][id].ver
    OBVIOUS
  <2>2. ReadSoFar(w, id, ver) /\ status[w] # "down"
    BY <1>0, <1>3, <2>1 DEF RecordsRead, TimerInv, TimerOK, Waiting
  <2>3. ReadSoFar(w, id, ver)'
    BY <1>2, <1>3, <2>2
  <2> QED BY <1>3, <2>1, <2>3 DEF ReadSoFar
<1>4. ASSUME NEW u \in Workers, Start(u)
      PROVE  ReadSoFar(w, id, records[w][id].ver)'
  <2>1. UNCHANGED <<records, assigned, position>> /\ status[u] = "down"
    BY <1>4 DEF Start, groupVars
  <2>2. w # u
    BY <2>1 DEF TimerInv, TimerOK, Waiting
  <2>3. replayTo'[w] = replayTo[w]
    BY <1>4, <2>2 DEF Start, IInv, TypeOK
  <2> QED BY <1>3, <2>1, <2>3
<1>5. ASSUME NEW u \in Workers, Fire(u)
      PROVE  ReadSoFar(w, id, records[w][id].ver)'
  <2>1. UNCHANGED <<replayTo, assigned, position>>
    BY <1>5 DEF Fire, groupVars
  <2>2. PICK D \in PopDue(u) : records' = [records EXCEPT ![u] =
          [i \in Ids |-> IF i \in D THEN NoRecord ELSE records[u][i]]]
    BY <1>5 DEF Fire
  <2>3. records'[w][id] = records[w][id]
    BY <2>2 DEF IInv, TypeOK, NoRecord
  <2> QED BY <1>3, <2>1, <2>3
<1>6. ASSUME NEW b \in batches, Requeue(b)
      PROVE  ReadSoFar(w, id, records[w][id].ver)'
  <2>1. UNCHANGED <<replayTo, assigned, position>>
    BY <1>6 DEF Requeue, groupVars
  <2>2. PICK j \in b.todo :
          records' = [records EXCEPT ![b.worker][j.id] = [ver |-> j.ver, due |-> BackOff(now)]]
    BY <1>6 DEF Requeue
  <2>3. CASE records'[w][id] = records[w][id]
    BY <1>3, <2>1, <2>3
  <2>4. CASE records'[w][id] # records[w][id]
    <3>1. w = b.worker /\ id = j.id /\ records'[w][id].ver = j.ver
      BY <2>2, <2>4 DEF IInv, TypeOK
    <3>2. j \in b.jobs /\ b.worker # None
      BY <3>1, SetsAssumption DEF SetsAssumption, IInv, BatchInv, GoodBatch
    <3>3. ReadSoFar(w, id, j.ver)
      BY <1>0, <3>1, <3>2, RespectsIsRead DEF JobsRead
    <3>4. status[w] # "down"
      BY <3>1 DEF TimerInv, TimerOK, Busy
    <3>5. ReadSoFar(w, id, j.ver)'
      BY <1>2, <2>1, <3>3, <3>4
    <3> QED BY <3>1, <3>5 DEF ReadSoFar
  <2> QED BY <2>3, <2>4
<1>7. ASSUME NEW u \in Workers, Leave(u)
      PROVE  ReadSoFar(w, id, records[w][id].ver)'
  <2>1. w # u
    BY <1>7 DEF Leave, NoRecord, IInv, TypeOK
  <2>2. records'[w][id] = records[w][id] /\ assigned'[w] = assigned[w] /\ UNCHANGED <<position, replayTo>>
    BY <1>7, <2>1 DEF Leave, IInv, TypeOK
  <2> QED BY <1>3, <2>2
<1>8. ASSUME NEW q \in Partitions, Assign(q)
      PROVE  ReadSoFar(w, id, records[w][id].ver)'
  <2>1. UNCHANGED <<records, replayTo>> /\ assigned[w] \subseteq assigned'[w]
    BY <1>8 DEF Assign, workerVars, IInv, TypeOK
  <2>2. position'[PartitionOf[id]] \in {1, position[PartitionOf[id]]}
    BY <1>8 DEF Assign, SetsAssumption, IInv, TypeOK
  <2> QED BY <1>3, <2>1, <2>2
<1>9. CASE UNCHANGED <<records, replayTo, assigned, position>>
  BY <1>3, <1>9
<1>10. \A q \in Partitions : ~ Revoke(q)
  BY DEF Revoke, IInv, TypeOK, Spent
<1>11. \/ \E u \in Workers : Start(u) \/ Fire(u) \/ Leave(u)
       \/ \E b \in batches : Requeue(b)
       \/ \E q \in Partitions : Assign(q) \/ Revoke(q)
       \/ UNCHANGED <<records, replayTo, assigned, position>>
  BY DEF Next, PublishLater, RetryLater, WriteSchedule, Close, Crash, Send, SendFails,
         LandLate, Compact, Tick, vars, groupVars, workerVars
<1> QED BY <1>4, <1>5, <1>6, <1>7, <1>8, <1>9, <1>10, <1>11

\* A timer fires only in a worker that has replayed its partitions.
LEMMA FireRespects ==
  ASSUME IInv, SetsAssumption, TimerInv, ReplayInv, NEW w \in Workers, armed[w],
         NEW id \in Ids, NEW ver, ReadSoFar(w, id, ver)
  PROVE  Respects(w, id, ver)
<1>1. PICK p \in Partitions : p = PartitionOf[id]
  BY DEF SetsAssumption
<1>2. status[w] = "running" /\ replaying[w] = {}
  BY DEF TimerInv, TimerOK, ReplayInv, QuietReplay, IInv, TypeOK
<1>3. replayTo[w][p] = 0 \/ position[p] > replayTo[w][p]
  BY <1>2 DEF ReplayInv, Replayed
<1>4. replayTo[w][p] \in Nat /\ position[p] \in Nat
  BY DEF IInv, TypeOK
<1> SUFFICES ASSUME NEW k, Supersedes(log[p], k, id, ver) PROVE k > replayTo[w][p]
  BY <1>1 DEF Respects
<1>5. k \in Nat \ {0}
  <2>1. log[p] \in Seq(Entry) /\ k \in DOMAIN log[p]
    BY DEF IInv, TypeOK, Supersedes
  <2> QED BY <2>1
<1>6. k >= position[p] \/ k > replayTo[w][p]
  BY <1>1 DEF ReadSoFar
<1> QED BY <1>3, <1>4, <1>5, <1>6

LEMMA RespectStays ==
  ASSUME IInv, SetsAssumption, Readers, [Next]_vars, NEW w \in Workers, NEW id \in Ids, NEW ver,
         status[w] # "down", Respects(w, id, ver), replayTo'[w] = replayTo[w]
  PROVE  Respects(w, id, ver)'
<1>1. PICK p \in Partitions : p = PartitionOf[id]
  BY DEF SetsAssumption
<1>2. Len(log[p]) \in Nat /\ Len(log'[p]) \in Nat /\ DOMAIN log'[p] = 1 .. Len(log'[p])
  BY TopicGrows
<1>3. replayTo[w][p] \in Nat /\ replayTo[w][p] <= Len(log[p])
  BY DEF Readers, IInv, TypeOK
<1>4. ASSUME NEW k, Supersedes(log'[p], k, id, ver)
      PROVE  k > replayTo'[w][p]
  <2>1. k \in Nat
    BY <1>2, <1>4 DEF Supersedes
  <2>2. Supersedes(log[p], k, id, ver) \/ k > Len(log[p])
    BY <1>1, <1>4, SupersededBefore
  <2>3. Supersedes(log[p], k, id, ver) => k > replayTo[w][p]
    BY <1>1 DEF Respects
  <2> QED BY <1>2, <1>3, <2>1, <2>2, <2>3
<1> QED BY <1>1, <1>4 DEF Respects

LEMMA JobsReadKeeps ==
  ASSUME IInv, SetsAssumption, MaxRevokes = 0, TimerInv, ReplayInv, [Next]_vars
  PROVE  JobsRead'
<1> SUFFICES ASSUME NEW b \in batches', b.worker # None, NEW j \in b.jobs
             PROVE  PartitionOf[j.id] \in assigned'[b.worker] /\ Respects(b.worker, j.id, j.ver)'
  BY DEF JobsRead
<1>0. Readers /\ RecordsRead /\ JobsRead
  BY DEF ReplayInv
<1>1. ASSUME NEW w \in Workers, NEW id \in Ids, NEW ver, status[w] # "down",
             PartitionOf[id] \in assigned[w], Respects(w, id, ver),
             replayTo'[w] = replayTo[w], assigned[w] \subseteq assigned'[w]
      PROVE  PartitionOf[id] \in assigned'[w] /\ Respects(w, id, ver)'
  BY <1>0, <1>1, RespectStays
<1>2. ASSUME NEW c \in batches, b.worker = c.worker, b.jobs = c.jobs,
             replayTo'[b.worker] = replayTo[b.worker],
             assigned[b.worker] \subseteq assigned'[b.worker]
      PROVE  PartitionOf[j.id] \in assigned'[b.worker] /\ Respects(b.worker, j.id, j.ver)'
  <2>1. b.worker \in Workers /\ j.id \in Ids
    BY <1>2 DEF IInv, TypeOK, Batch, Job
  <2>2. status[b.worker] # "down"
    BY <1>2, <2>1 DEF TimerInv, TimerOK, Busy
  <2>3. PartitionOf[j.id] \in assigned[b.worker] /\ Respects(b.worker, j.id, j.ver)
    BY <1>0, <1>2 DEF JobsRead
  <2> QED BY <1>1, <1>2, <2>1, <2>2, <2>3
<1>3. ASSUME NEW w \in Workers, Fire(w)
      PROVE  PartitionOf[j.id] \in assigned'[b.worker] /\ Respects(b.worker, j.id, j.ver)'
  <2>1. UNCHANGED <<replayTo, assigned>> /\ armed[w]
    BY <1>3 DEF Fire, groupVars
  <2>2. PICK D \in PopDue(w) : \/ b \in batches
                               \/ b.worker = w /\ b.jobs = Owned(w, D)
    BY <1>3 DEF Fire
  <2>3. CASE b.worker = w /\ b.jobs = Owned(w, D)
    <3>1. j.id \in D /\ j.ver = records[w][j.id].ver
      BY <2>3 DEF Owned
    <3>2. j.id \in Ids /\ j.ver # 0
      BY <3>1 DEF PopDue, Due
    <3>3. ReadSoFar(w, j.id, j.ver)
      BY <1>0, <3>1, <3>2 DEF RecordsRead
    <3>4. Respects(w, j.id, j.ver) /\ PartitionOf[j.id] \in assigned[w]
      BY <2>1, <3>2, <3>3, FireRespects DEF ReadSoFar
    <3>5. status[w] # "down"
      BY <2>1 DEF TimerInv, TimerOK
    <3> QED BY <1>1, <2>1, <2>3, <3>2, <3>4, <3>5
  <2> QED BY <1>2, <2>1, <2>2, <2>3
<1>4. ASSUME NEW c \in batches, Send(c) \/ SendFails(c) \/ Requeue(c)
      PROVE  PartitionOf[j.id] \in assigned'[b.worker] /\ Respects(b.worker, j.id, j.ver)'
  <2>1. PICK next :
          /\ Continues(c, next) /\ \A x \in next : x.jobs = c.jobs
          /\ UNCHANGED <<replayTo, assigned>>
    BY <1>4, BatchContinues
  <2>2. \E d \in batches : b.worker = d.worker /\ b.jobs = d.jobs
    BY <2>1 DEF Continues
  <2> QED BY <1>2, <2>1, <2>2
<1>5. ASSUME NEW w \in Workers, Close(w) \/ Crash(w)
      PROVE  PartitionOf[j.id] \in assigned'[b.worker] /\ Respects(b.worker, j.id, j.ver)'
  <2>1. PICK d \in batches : b.worker = d.worker /\ b.jobs = d.jobs /\ d.worker # w
    BY <1>5 DEF Close, Crash, IInv, TypeOK, Batch
  <2>2. UNCHANGED replayTo /\ assigned' = [assigned EXCEPT ![w] = {}]
    BY <1>5 DEF Close, Crash, Leave
  <2>3. assigned[b.worker] \subseteq assigned'[b.worker]
    BY <2>1, <2>2 DEF IInv, TypeOK, Batch
  <2> QED BY <1>2, <2>1, <2>2, <2>3
<1>6. ASSUME NEW w \in Workers, Start(w)
      PROVE  PartitionOf[j.id] \in assigned'[b.worker] /\ Respects(b.worker, j.id, j.ver)'
  <2>1. UNCHANGED <<batches, assigned>> /\ status[w] = "down"
    BY <1>6 DEF Start, groupVars
  <2>2. b.worker # w
    BY <2>1 DEF TimerInv, TimerOK, Busy
  <2>3. replayTo'[b.worker] = replayTo[b.worker]
    BY <1>6, <2>2 DEF Start, IInv, TypeOK
  <2> QED BY <1>2, <2>1, <2>3
<1>7. ASSUME NEW p \in Partitions, Assign(p)
      PROVE  PartitionOf[j.id] \in assigned'[b.worker] /\ Respects(b.worker, j.id, j.ver)'
  <2>1. UNCHANGED <<batches, replayTo>>
    BY <1>7 DEF Assign, workerVars
  <2>2. assigned[b.worker] \subseteq assigned'[b.worker]
    BY <1>7 DEF Assign, IInv, TypeOK
  <2> QED BY <1>2, <2>1, <2>2
<1>8. CASE UNCHANGED <<batches, replayTo, assigned>>
  BY <1>2, <1>8
<1>9. \A p \in Partitions : ~ Revoke(p)
  BY DEF Revoke, IInv, TypeOK, Spent
<1>10. CASE \E w \in Workers, p \in Partitions : Consume(w, p)
  BY <1>8, <1>10 DEF Consume
<1>11. \/ \E w \in Workers : Start(w) \/ Fire(w) \/ Close(w) \/ Crash(w)
       \/ \E w \in Workers, p \in Partitions : Consume(w, p)
       \/ \E c \in batches : Send(c) \/ SendFails(c) \/ Requeue(c)
       \/ \E p \in Partitions : Assign(p) \/ Revoke(p)
       \/ UNCHANGED <<batches, replayTo, assigned>>
  BY DEF Next, PublishLater, RetryLater, WriteSchedule, LandLate, Compact, Tick, vars,
         groupVars, workerVars
<1> QED BY <1>3, <1>4, <1>5, <1>6, <1>7, <1>8, <1>9, <1>10, <1>11

-------------------------------------------------------------------------------
(* A worker never takes up a schedule whose tombstone or replacement was in  *)
(* the topic when it started: the replay of start() ends, and sets the first *)
(* timer, only behind the last offset it found, and a record in memory is    *)
(* overwritten by whatever follows it there. This holds while no partition   *)
(* is revoked.                                                               *)
THEOREM ReplayIsRespected ==
  ASSUME MaxRevokes = 0
  PROVE  Spec => []ReplayRespectsTombstones
<1>1. Init => TimerInv /\ ReplayInv
  <2> SUFFICES ASSUME Init PROVE TimerInv /\ ReplayInv
    OBVIOUS
  <2>1. TimerInv
    BY DEF Init, TimerInv, TimerOK, Waiting, Busy, NoRecord
  <2>2. OncePerWrite /\ Readers
    BY DEF Init, OncePerWrite, Readers
  <2>3. Replayed /\ QuietReplay /\ RecordsRead /\ JobsRead
    BY DEF Init, Replayed, QuietReplay, RecordsRead, JobsRead, NoRecord
  <2> QED BY <2>1, <2>2, <2>3 DEF ReplayInv
<1>2. IInv /\ TimerInv /\ ReplayInv /\ [Next]_vars => (TimerInv /\ ReplayInv)'
  <2> SUFFICES ASSUME IInv, TimerInv, ReplayInv, [Next]_vars PROVE (TimerInv /\ ReplayInv)'
    OBVIOUS
  <2>1. TimerInv' /\ RecordsRead' /\ JobsRead'
    BY TimerKeeps, RecordsReadKeeps, JobsReadKeeps, SetsAssumption
  <2>2. OncePerWrite' /\ Readers' /\ Replayed' /\ QuietReplay'
    BY OncePerWriteKeeps, ReadersKeep, ReplayedKeeps, QuietReplayKeeps, SetsAssumption DEF ReplayInv
  <2> QED BY <2>1, <2>2 DEF ReplayInv
<1>3. ReplayInv => ReplayRespectsTombstones
  BY DEF ReplayInv, JobsRead, Respects, Supersedes, ReplayRespectsTombstones
<1> QED BY <1>1, <1>2, <1>3, Invariance, PTL DEF Spec
=============================================================================
