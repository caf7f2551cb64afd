------------------------- MODULE KafkaSchedulerProofs -------------------------
(***************************************************************************)
(* Theorems about KafkaScheduler, for every set of ids, workers and        *)
(* partitions and every value of the bounds.                               *)
(***************************************************************************)
EXTENDS KafkaScheduler, TLAPS

(***************************************************************************)
(* The inductive invariant. Every copy of a write, in the topic, in a      *)
(* worker's memory, in a batch or on the wire, names a write that was made *)
(* for its id, and carries the knowledge its stage of delivery depends on. *)
(***************************************************************************)
\* v is a write, made for id, in the sequence ws of writes.
IsWrite(ws, v, id) == v \in DOMAIN ws /\ ws[v].id = id

\* What an entry of partition p says.
GoodEntry(ws, p, e) ==
  e # Compacted =>
    /\ e.id \in Ids
    /\ PartitionOf[e.id] = p
    /\ e.ver # 0 => IsWrite(ws, e.ver, e.id)

LogInv ==
  \A p \in Partitions : \A o \in DOMAIN log[p] : GoodEntry(writes, p, log[p][o])

GoodRecord(ws, id, r) ==
  r.ver # 0 => IsWrite(ws, r.ver, id) /\ ws[r.ver].notBefore <= r.due

RecordsInv == \A w \in Workers, id \in Ids : GoodRecord(writes, id, records[w][id])

\* What a sender knows of a write before it sends a message of that kind.
Ready(kind, v) ==
  /\ kind # "schedule" => writes[v].notBefore <= now
  /\ kind \in {"history", "tombstone"} => v \in delivered
  /\ kind = "tombstone" => v \in history

GoodMessage(m) == IsWrite(writes, m.ver, m.id) /\ Ready(m.kind, m.ver)

LateInv == \A m \in late : GoodMessage(m)

\* Of the jobs of a batch, those no longer to do have had their send landed.
GoodJob(b, j) ==
  /\ IsWrite(writes, j.ver, j.id)
  /\ writes[j.ver].notBefore <= now
  /\ b.step # "failed" => Ready(b.step, j.ver)
  /\ j \notin b.todo =>
       /\ b.step = "target" => j.ver \in delivered
       /\ b.step = "history" => j.ver \in history

GoodBatch(b) ==
  /\ b.todo \subseteq b.jobs
  /\ b.step = "failed" => b.worker # None
  /\ \A j \in b.jobs : GoodJob(b, j)

BatchInv == \A b \in batches : GoodBatch(b)

IInv == TypeOK /\ LogInv /\ RecordsInv /\ LateInv /\ BatchInv /\ NeverEarly

-------------------------------------------------------------------------------
(* What a client write changes: nothing about the writes made before it.     *)

LEMMA WritesGrow ==
  ASSUME writes \in Seq(Write), NEW x \in Write, writes' = Append(writes, x)
  PROVE  /\ writes' \in Seq(Write)
         /\ DOMAIN writes' = DOMAIN writes \cup {Len(writes) + 1}
         /\ writes'[Len(writes) + 1] = x
         /\ \A v \in DOMAIN writes : writes'[v] = writes[v]
         /\ Len(writes) + 1 \in Nat \ {0}
<1> DEFINE n == Len(writes)
<1>1. n \in Nat /\ DOMAIN writes = 1 .. n
  OBVIOUS
<1>2. DOMAIN writes' = 1 .. n + 1
  OBVIOUS
<1>3. DOMAIN writes' = DOMAIN writes \cup {n + 1}
  BY <1>1, <1>2
<1> QED
  BY <1>1, <1>3

LEMMA WriteTypes ==
  ASSUME TypeOK, NEW v \in DOMAIN writes
  PROVE  v \in Nat \ {0} /\ writes[v].id \in Ids /\ writes[v].notBefore \in Nat
<1>1. writes[v] \in Write /\ v \in Nat \ {0}
  BY DEF TypeOK
<1> QED BY <1>1 DEF Write

(* What an action spends of its bound.                                       *)

LEMMA Spends ==
  ASSUME used \in Spent
  PROVE  /\ [used EXCEPT !.failures = @ + 1] \in Spent
         /\ [used EXCEPT !.stops = @ + 1] \in Spent
         /\ [used EXCEPT !.revokes = @ + 1] \in Spent
         /\ [used EXCEPT !.compactions = @ + 1] \in Spent
<1>1. /\ used.failures \in Nat /\ used.stops \in Nat
      /\ used.revokes \in Nat /\ used.compactions \in Nat
  BY DEF Spent
<1> QED BY <1>1 DEF Spent

(* What the broker changes when it appends a message of a known write.       *)

LEMMA LandTypes ==
  ASSUME TypeOK, SetsAssumption, NEW kind, NEW id \in Ids, NEW ver \in Nat,
         Land(kind, id, ver)
  PROVE  log' \in [Partitions -> Seq(Entry)]
<1> DEFINE e == [id |-> id, ver |-> IF kind = "schedule" THEN ver ELSE 0]
           q == PartitionOf[id]
<1>1. e \in Entry
  BY DEF Entry
<1>2. q \in Partitions
  BY DEF SetsAssumption
<1>3. log[q] \in Seq(Entry)
  BY <1>2 DEF TypeOK
<1>4. Append(log[q], e) \in Seq(Entry)
  BY <1>1, <1>3
<1>5. log' = [log EXCEPT ![q] = Append(log[q], e)] \/ log' = log
  BY DEF Land
<1> QED
  BY <1>4, <1>5 DEF TypeOK

LEMMA LandLog ==
  ASSUME TypeOK, SetsAssumption, NEW kind, NEW id \in Ids, NEW ver \in Nat,
         Land(kind, id, ver), NEW ws,
         \A p \in Partitions : \A o \in DOMAIN log[p] : GoodEntry(ws, p, log[p][o]),
         kind = "schedule" => IsWrite(ws, ver, id)
  PROVE  \A p \in Partitions : \A o \in DOMAIN log'[p] : GoodEntry(ws, p, log'[p][o])
<1> DEFINE q == PartitionOf[id]
           e == [id |-> id, ver |-> IF kind = "schedule" THEN ver ELSE 0]
<1>0. GoodEntry(ws, q, e)
  BY DEF GoodEntry
<1> SUFFICES ASSUME NEW p \in Partitions, NEW o \in DOMAIN log'[p]
             PROVE  GoodEntry(ws, p, log'[p][o])
  OBVIOUS
<1> HIDE DEF e
<1>1. CASE log'[p] = log[p]
  BY <1>1
<1>2. CASE p = q /\ log'[p] = Append(log[p], e)
  <2>1. log[p] \in Seq(Entry)
    BY DEF TypeOK
  <2>2. CASE o \in DOMAIN log[p]
    <3>1. log'[p][o] = log[p][o]
      BY <1>2, <2>1, <2>2
    <3> QED BY <2>2, <3>1
  <2>3. CASE o \notin DOMAIN log[p]
    <3>1. log'[p][o] = e
      BY <1>2, <2>1, <2>3
    <3> QED BY <3>1, <1>2, <1>0
  <2> QED BY <2>2, <2>3
<1>3. (log'[p] = log[p]) \/ (p = q /\ log'[p] = Append(log[p], e))
  <2>1. log' = [log EXCEPT ![q] = Append(log[q], e)] \/ log' = log
    BY DEF Land, e
  <2> QED BY <2>1 DEF TypeOK
<1> QED BY <1>1, <1>2, <1>3

-------------------------------------------------------------------------------
LEMMA InitIInv == ASSUME SetsAssumption, Init PROVE IInv
<1>1. TypeOK
  <2>1. <<>> \in Seq(Write) /\ <<>> \in Seq(Entry) /\ DOMAIN <<>> = {}
    OBVIOUS
  <2>2. NoRecord \in Record
    BY DEF NoRecord, Record
  <2> QED BY <2>1, <2>2 DEF Init, TypeOK, Spent
<1>2. LogInv
  BY DEF LogInv, Init
<1>3. RecordsInv
  BY DEF RecordsInv, GoodRecord, NoRecord, Init
<1>4. LateInv /\ BatchInv /\ NeverEarly
  BY DEF LateInv, BatchInv, NeverEarly, Init
<1> QED BY <1>1, <1>2, <1>3, <1>4 DEF IInv

-------------------------------------------------------------------------------
(* Every step keeps what is known: writes keep their meaning, the clock and  *)
(* the target and history topics only grow.                                  *)
Stable ==
  /\ now' \in Nat /\ now <= now'
  /\ delivered \subseteq delivered' /\ history \subseteq history'
  /\ \A v \in DOMAIN writes : v \in DOMAIN writes' /\ writes'[v] = writes[v]

LEMMA StableWrites ==
  ASSUME Stable
  PROVE  /\ \A v, id : IsWrite(writes, v, id) => IsWrite(writes', v, id)
         /\ \A p, e : GoodEntry(writes, p, e) => GoodEntry(writes', p, e)
         /\ \A id, r : GoodRecord(writes, id, r) => GoodRecord(writes', id, r)
<1>1. \A v, id : IsWrite(writes, v, id) => IsWrite(writes', v, id)
  BY DEF Stable, IsWrite
<1>2. \A p, e : GoodEntry(writes, p, e) => GoodEntry(writes', p, e)
  BY <1>1 DEF GoodEntry
<1>3. \A id, r : GoodRecord(writes, id, r) => GoodRecord(writes', id, r)
  BY <1>1 DEF GoodRecord, IsWrite, Stable
<1> QED BY <1>1, <1>2, <1>3

LEMMA StableReady ==
  ASSUME TypeOK, Stable
  PROVE  \A v \in DOMAIN writes :
           /\ writes[v].notBefore <= now => writes'[v].notBefore <= now'
           /\ \A kind : Ready(kind, v) => Ready(kind, v)'
<1> SUFFICES ASSUME NEW v \in DOMAIN writes
             PROVE  /\ writes[v].notBefore <= now => writes'[v].notBefore <= now'
                    /\ \A kind : Ready(kind, v) => Ready(kind, v)'
  OBVIOUS
<1>1. writes[v].notBefore \in Nat /\ now \in Nat
  BY WriteTypes DEF TypeOK
<1>2. writes[v].notBefore <= now => writes'[v].notBefore <= now'
  BY <1>1 DEF Stable
<1>3. \A kind : Ready(kind, v) => Ready(kind, v)'
  BY <1>2 DEF Ready, Stable
<1> QED BY <1>2, <1>3

LEMMA StableMessages ==
  ASSUME TypeOK, Stable
  PROVE  \A m : GoodMessage(m) => GoodMessage(m)'
BY StableWrites, StableReady DEF GoodMessage, IsWrite

LEMMA StableBatches ==
  ASSUME TypeOK, Stable
  PROVE  \A b : GoodBatch(b) => GoodBatch(b)'
<1>1. \A b, j : GoodJob(b, j) => GoodJob(b, j)'
  <2> SUFFICES ASSUME NEW b, NEW j, GoodJob(b, j) PROVE GoodJob(b, j)'
    OBVIOUS
  <2>1. j.ver \in DOMAIN writes
    BY DEF GoodJob, IsWrite
  <2>2. IsWrite(writes', j.ver, j.id)
    BY StableWrites DEF GoodJob
  <2> QED BY <2>1, <2>2, StableReady DEF GoodJob, Stable
<1> QED BY <1>1 DEF GoodBatch

LEMMA StableNeverEarly ==
  ASSUME TypeOK, Stable, NeverEarly,
         \A v \in delivered' : v \in delivered \/ writes'[v].notBefore <= now'
  PROVE  NeverEarly'
BY StableReady DEF NeverEarly, TypeOK

-------------------------------------------------------------------------------
(* The steps, one lemma each.                                                *)

LEMMA WriteKeeps ==
  ASSUME IInv, SetsAssumption, NEW id \in Ids, NEW notBefore \in Nat,
         WriteSchedule(id, notBefore)
  PROVE  IInv'
<1>0. PICK v : v = Len(writes) + 1
  OBVIOUS
<1> DEFINE x == [id |-> id, notBefore |-> notBefore]
           m == [kind |-> "schedule", id |-> id, ver |-> v]
<1>1. x \in Write /\ writes \in Seq(Write) /\ writes' = Append(writes, x)
  BY DEF IInv, TypeOK, WriteSchedule, Write
<1>2. /\ writes' \in Seq(Write)
      /\ DOMAIN writes' = DOMAIN writes \cup {v}
      /\ writes'[v] = x
      /\ \A u \in DOMAIN writes : writes'[u] = writes[u]
      /\ v \in Nat \ {0}
  BY <1>0, <1>1, WritesGrow
<1>3. delivered' = delivered /\ history' = history /\ now' = now
  BY DEF WriteSchedule, Land
<1>4. Stable
  BY <1>2, <1>3 DEF Stable, IInv, TypeOK
<1>5. IsWrite(writes', v, id)
  BY <1>2 DEF IsWrite
<1>6. Land("schedule", id, v) \/ log' = log
  BY <1>0 DEF WriteSchedule
<1>7. log' \in [Partitions -> Seq(Entry)]
  BY <1>2, <1>6, LandTypes DEF IInv, TypeOK
<1>8. late' = late \/ late' = late \cup {m}
  BY <1>0 DEF WriteSchedule
<1>9. TypeOK'
  <2>1. m \in Message
    BY <1>2 DEF Message
  <2>2. accepted' \subseteq DOMAIN writes'
    BY <1>0, <1>2 DEF WriteSchedule, IInv, TypeOK
  <2>3. used' \in Spent
    BY Spends DEF WriteSchedule, IInv, TypeOK
  <2> QED BY <1>2, <1>3, <1>7, <1>8, <2>1, <2>2, <2>3
          DEF WriteSchedule, IInv, TypeOK, groupVars, workerVars
<1>10. LogInv'
  <2>1. \A p \in Partitions : \A o \in DOMAIN log[p] : GoodEntry(writes', p, log[p][o])
    BY <1>4, StableWrites DEF IInv, LogInv
  <2> QED BY <2>1, <1>2, <1>5, <1>6, LandLog DEF IInv, LogInv
<1>11. RecordsInv'
  BY <1>4, StableWrites DEF IInv, RecordsInv, WriteSchedule, workerVars
<1>12. LateInv'
  <2>1. GoodMessage(m)'
    BY <1>5 DEF GoodMessage, Ready
  <2> QED BY <1>4, <1>8, <2>1, StableMessages DEF IInv, LateInv
<1>13. BatchInv'
  BY <1>4, StableBatches DEF IInv, BatchInv, WriteSchedule
<1>14. NeverEarly'
  BY <1>3, <1>4, StableNeverEarly DEF IInv
<1> QED BY <1>9, <1>10, <1>11, <1>12, <1>13, <1>14 DEF IInv

(* A message of a known write is appended, by its sender or late.            *)
LEMMA LandKeeps ==
  ASSUME IInv, SetsAssumption, NEW kind \in Sends \cup {"schedule"}, NEW id \in Ids,
         NEW ver \in Nat, IsWrite(writes, ver, id), Ready(kind, ver),
         Land(kind, id, ver), UNCHANGED <<now, writes>>
  PROVE  /\ Stable
         /\ log' \in [Partitions -> Seq(Entry)]
         /\ delivered' \subseteq DOMAIN writes' /\ history' \subseteq DOMAIN writes'
         /\ LogInv' /\ NeverEarly'
<1>1. Stable
  BY DEF Stable, Land, IInv, TypeOK
<1>2. log' \in [Partitions -> Seq(Entry)]
  BY LandTypes DEF IInv
<1>3. delivered' \subseteq DOMAIN writes' /\ history' \subseteq DOMAIN writes'
  BY DEF Land, IInv, TypeOK, IsWrite
<1>4. LogInv'
  BY LandLog DEF IInv, LogInv
<1>5. \A v \in delivered' : v \in delivered \/ writes'[v].notBefore <= now'
  BY DEF Land, Ready
<1>6. NeverEarly'
  BY <1>1, <1>5, StableNeverEarly DEF IInv
<1> QED BY <1>1, <1>2, <1>3, <1>4, <1>6

LEMMA LandLateKeeps == ASSUME IInv, SetsAssumption, LandLate PROVE IInv'
<1>1. PICK m \in late : Land(m.kind, m.id, m.ver) /\ late' = late \ {m}
  BY DEF LandLate
<1>2. m.kind \in Sends \cup {"schedule"} /\ m.id \in Ids /\ m.ver \in Nat
  BY <1>1 DEF IInv, TypeOK, Message
<1>3. IsWrite(writes, m.ver, m.id) /\ Ready(m.kind, m.ver)
  BY DEF IInv, LateInv, GoodMessage
<1>4. /\ UNCHANGED <<now, writes, accepted, assigned, position, status, replayTo>>
      /\ UNCHANGED <<replaying, records, armed, batches, used>>
  BY DEF LandLate, clientVars, groupVars, workerVars
<1>5. /\ Stable
      /\ log' \in [Partitions -> Seq(Entry)]
      /\ delivered' \subseteq DOMAIN writes' /\ history' \subseteq DOMAIN writes'
      /\ LogInv' /\ NeverEarly'
  BY <1>1, <1>2, <1>3, <1>4, LandKeeps
<1>6. TypeOK'
  BY <1>1, <1>4, <1>5 DEF IInv, TypeOK
<1>7. RecordsInv'
  BY <1>4 DEF IInv, RecordsInv
<1>8. LateInv'
  BY <1>1, <1>5, StableMessages DEF IInv, LateInv
<1>9. BatchInv'
  BY <1>4, <1>5, StableBatches DEF IInv, BatchInv
<1> QED BY <1>5, <1>6, <1>7, <1>8, <1>9 DEF IInv

LEMMA ProgressKeeps ==
  ASSUME TypeOK, Stable, NEW b \in batches, GoodBatch(b), b.step \in Sends,
         NEW j \in b.todo, Land(b.step, j.id, j.ver), NEW c \in Progress(b, j)
  PROVE  c \in Batch /\ c.worker = b.worker /\ GoodBatch(c)'
<1>1. /\ b = [worker |-> b.worker, step |-> b.step, jobs |-> b.jobs, todo |-> b.todo]
      /\ b.worker \in Workers \cup {None} /\ b.jobs \subseteq Job /\ b.todo \subseteq Job
  BY DEF TypeOK, Batch
<1>2. \A i \in b.jobs : GoodJob(b, i)'
  BY StableBatches DEF GoodBatch
<1>3. /\ b.step = "target" => j.ver \in delivered'
      /\ b.step = "history" => j.ver \in history'
  BY DEF Land
<1>4. b.todo \subseteq b.jobs /\ j \in b.jobs
  BY DEF GoodBatch
<1>5. CASE b.todo # {j}
  <2>1. c = [worker |-> b.worker, step |-> b.step, jobs |-> b.jobs, todo |-> b.todo \ {j}]
    BY <1>1, <1>5 DEF Progress
  <2>2. \A i \in c.jobs : GoodJob(c, i)'
    BY <1>2, <1>3, <2>1 DEF GoodJob
  <2> QED BY <1>1, <1>4, <2>1, <2>2 DEF GoodBatch, Batch, Sends
<1>6. CASE b.todo = {j} /\ b.step # "tombstone"
  <2>1. c = [worker |-> b.worker, step |-> AfterAck(b.step), jobs |-> b.jobs, todo |-> b.jobs]
    BY <1>1, <1>6 DEF Progress
  <2>2. \A i \in b.jobs :
          /\ b.step = "target" => i.ver \in delivered'
          /\ b.step = "history" => i.ver \in history'
    BY <1>2, <1>3, <1>6 DEF GoodJob
  <2>3. \A i \in c.jobs : GoodJob(c, i)'
    <3> SUFFICES ASSUME NEW i \in b.jobs PROVE GoodJob(c, i)'
      BY <2>1
    <3>1. GoodJob(b, i)'
      BY <1>2
    <3>2. CASE b.step = "target"
      <4>1. c.step = "history" /\ i \in c.todo
        BY <2>1, <3>2 DEF AfterAck
      <4>2. Ready("history", i.ver)'
        BY <2>2, <3>1, <3>2 DEF GoodJob, Ready
      <4> QED BY <3>1, <4>1, <4>2 DEF GoodJob
    <3>3. CASE b.step = "history"
      <4>1. c.step = "tombstone" /\ i \in c.todo
        BY <2>1, <3>3 DEF AfterAck
      <4>2. Ready("tombstone", i.ver)'
        BY <2>2, <3>1, <3>3 DEF GoodJob, Ready
      <4> QED BY <3>1, <4>1, <4>2 DEF GoodJob
    <3> QED BY <1>6, <3>2, <3>3 DEF Sends
  <2> QED BY <1>1, <1>4, <1>6, <2>1, <2>3 DEF GoodBatch, Batch, Sends, AfterAck
<1> QED BY <1>5, <1>6 DEF Progress

LEMMA SendKeeps ==
  ASSUME IInv, SetsAssumption, NEW b \in batches, Send(b)
  PROVE  IInv'
<1>1. PICK j \in b.todo :
        /\ Land(b.step, j.id, j.ver)
        /\ batches' = (batches \ {b}) \cup Progress(b, j)
        /\ armed' = IF Progress(b, j) = {} /\ b.worker # None
                      THEN [armed EXCEPT ![b.worker] = ArmNextTimer(records[b.worker])]
                      ELSE armed
  BY DEF Send
<1>2. b.step \in Sends /\ GoodBatch(b) /\ b \in Batch
  BY DEF Send, IInv, BatchInv, TypeOK
<1>3. j \in b.jobs /\ j.id \in Ids /\ j.ver \in Nat
  BY <1>2 DEF GoodBatch, Batch, Job
<1>4. IsWrite(writes, j.ver, j.id) /\ Ready(b.step, j.ver)
  BY <1>2, <1>3 DEF GoodBatch, GoodJob, Sends
<1>5. UNCHANGED <<now, writes, accepted, late, assigned, position, status, replayTo,
                  replaying, records, used>>
  BY DEF Send, clientVars, groupVars
<1>6. /\ Stable
      /\ log' \in [Partitions -> Seq(Entry)]
      /\ delivered' \subseteq DOMAIN writes' /\ history' \subseteq DOMAIN writes'
      /\ LogInv' /\ NeverEarly'
  BY <1>1, <1>2, <1>3, <1>4, <1>5, LandKeeps
<1>7. \A c \in Progress(b, j) : c \in Batch /\ GoodBatch(c)'
  BY <1>1, <1>2, <1>6, ProgressKeeps DEF IInv
<1>8. TypeOK'
  <2>1. armed' \in [Workers -> BOOLEAN]
    BY <1>1 DEF IInv, TypeOK, ArmNextTimer
  <2>2. batches' \subseteq Batch
    BY <1>1, <1>7 DEF IInv, TypeOK
  <2> QED BY <1>5, <1>6, <2>1, <2>2 DEF IInv, TypeOK
<1>9. RecordsInv'
  BY <1>5 DEF IInv, RecordsInv
<1>10. LateInv'
  BY <1>5, <1>6, StableMessages DEF IInv, LateInv
<1>11. BatchInv'
  BY <1>1, <1>6, <1>7, StableBatches DEF IInv, BatchInv
<1> QED BY <1>6, <1>8, <1>9, <1>10, <1>11 DEF IInv

(* Steps that leave the clients, the topics and the clock alone.             *)
LEMMA QuietKeeps ==
  ASSUME IInv, TypeOK', RecordsInv', BatchInv',
         UNCHANGED <<now, writes, log, delivered, history>>,
         \A m \in late' : m \in late \/ GoodMessage(m)
  PROVE  IInv'
<1>1. Stable
  BY DEF IInv, TypeOK, Stable
<1>2. LogInv'
  BY DEF IInv, LogInv
<1>3. LateInv'
  BY <1>1, StableMessages DEF IInv, LateInv
<1>4. NeverEarly'
  BY DEF IInv, NeverEarly
<1> QED BY <1>2, <1>3, <1>4 DEF IInv

LEMMA QuietBatches ==
  ASSUME TypeOK, UNCHANGED <<now, writes, delivered, history>>
  PROVE  \A b : GoodBatch(b) => GoodBatch(b)'
<1>1. Stable
  BY DEF TypeOK, Stable
<1> QED BY <1>1, StableBatches

LEMMA StartKeeps ==
  ASSUME IInv, NEW w \in Workers, Start(w)
  PROVE  IInv'
<1>1. /\ UNCHANGED <<now, writes, accepted, log, delivered, history, late, assigned>>
      /\ UNCHANGED <<position, records, armed, batches, used>>
  BY DEF Start, clientVars, topicVars, groupVars
<1>2. TypeOK'
  <2>1. \A p \in Partitions : Len(log[p]) \in Nat
    BY DEF IInv, TypeOK
  <2>2. replayTo' \in [Workers -> [Partitions -> Nat]]
    BY <2>1 DEF Start, IInv, TypeOK
  <2>3. replaying' \in [Workers -> SUBSET Partitions]
    BY DEF Start, IInv, TypeOK
  <2>4. status' \in [Workers -> {"down", "recovering", "running"}]
    BY DEF Start, IInv, TypeOK
  <2> QED BY <1>1, <2>2, <2>3, <2>4 DEF IInv, TypeOK
<1>3. RecordsInv'
  BY <1>1 DEF IInv, RecordsInv
<1>4. BatchInv'
  BY <1>1, QuietBatches DEF IInv, BatchInv
<1> QED BY <1>1, <1>2, <1>3, <1>4, QuietKeeps

LEMMA ApplyGood ==
  ASSUME TypeOK, NEW p \in Partitions, NEW e \in Entry, e # Compacted,
         GoodEntry(writes, p, e), NEW recs \in [Ids -> Record],
         \A id \in Ids : GoodRecord(writes, id, recs[id])
  PROVE  /\ Apply(recs, e) \in [Ids -> Record]
         /\ \A id \in Ids : GoodRecord(writes, id, Apply(recs, e)[id])
<1> DEFINE r == IF e.ver = 0 THEN NoRecord
                ELSE [ver |-> e.ver, due |-> writes[e.ver].notBefore]
<1>1. e.id \in Ids
  BY DEF GoodEntry
<1>2. r \in Record /\ GoodRecord(writes, e.id, r)
  <2>1. CASE e.ver = 0
    BY <2>1 DEF NoRecord, Record, GoodRecord
  <2>2. CASE e.ver # 0
    <3>1. IsWrite(writes, e.ver, e.id)
      BY <2>2 DEF GoodEntry
    <3>2. writes[e.ver].notBefore \in Nat /\ e.ver \in Nat
      BY <3>1, WriteTypes DEF IsWrite
    <3> QED BY <2>2, <3>1, <3>2 DEF Record, GoodRecord
  <2> QED BY <2>1, <2>2
<1>3. Apply(recs, e) = [recs EXCEPT ![e.id] = r]
  BY DEF Apply
<1> HIDE DEF r
<1> QED BY <1>1, <1>2, <1>3

LEMMA ConsumeKeeps ==
  ASSUME IInv, SetsAssumption, NEW w \in Workers, NEW p \in Partitions, Consume(w, p)
  PROVE  IInv'
<1>1. PICK o \in position[p] .. Len(log[p]) :
        /\ log[p][o] # Compacted
        /\ position' = [position EXCEPT ![p] = o + 1]
        /\ records' = [records EXCEPT ![w] = Apply(records[w], log[p][o])]
        /\ replaying' = [replaying EXCEPT ![w] = LeftToReplay(w, p, o)]
        /\ status' = [status EXCEPT ![w] =
             IF LeftToReplay(w, p, o) = {} THEN "running" ELSE @]
        /\ armed' = [armed EXCEPT ![w] =
             TimerAfterReplay(w, LeftToReplay(w, p, o), Apply(records[w], log[p][o]))]
  BY DEF Consume
<1>2. /\ UNCHANGED <<now, writes, accepted, log, delivered, history, late, assigned>>
      /\ UNCHANGED <<replayTo, batches, used>>
  BY DEF Consume, clientVars, topicVars
<1>3. o \in DOMAIN log[p] /\ o \in Nat \ {0} /\ log[p][o] \in Entry
  <2>1. log[p] \in Seq(Entry) /\ position[p] \in Nat \ {0} /\ Len(log[p]) \in Nat
    BY DEF IInv, TypeOK
  <2>2. o \in 1 .. Len(log[p])
    BY <2>1
  <2> QED BY <2>1, <2>2
<1>4. /\ Apply(records[w], log[p][o]) \in [Ids -> Record]
      /\ \A id \in Ids : GoodRecord(writes, id, Apply(records[w], log[p][o])[id])
  <2>1. records[w] \in [Ids -> Record]
    BY DEF IInv, TypeOK
  <2>2. \A id \in Ids : GoodRecord(writes, id, records[w][id])
    BY DEF IInv, RecordsInv
  <2>3. GoodEntry(writes, p, log[p][o])
    BY <1>3 DEF IInv, LogInv
  <2> QED BY <1>1, <1>3, <2>1, <2>2, <2>3, ApplyGood DEF IInv
<1>5. TypeOK'
  <2>1. position' \in [Partitions -> Nat \ {0}]
    BY <1>1, <1>3 DEF IInv, TypeOK
  <2>2. records' \in [Workers -> [Ids -> Record]]
    BY <1>1, <1>4 DEF IInv, TypeOK
  <2>3. replaying' \in [Workers -> SUBSET Partitions]
    BY <1>1 DEF IInv, TypeOK, LeftToReplay
  <2>4. status' \in [Workers -> {"down", "recovering", "running"}]
    BY <1>1 DEF IInv, TypeOK
  <2>5. armed' \in [Workers -> BOOLEAN]
    BY <1>1 DEF IInv, TypeOK, TimerAfterReplay, ArmNextTimer
  <2> QED BY <1>2, <2>1, <2>2, <2>3, <2>4, <2>5 DEF IInv, TypeOK
<1>6. RecordsInv'
  <2>1. \A u \in Workers : records'[u] = IF u = w THEN Apply(records[w], log[p][o])
                                                 ELSE records[u]
    BY <1>1 DEF IInv, TypeOK
  <2> QED BY <1>2, <1>4, <2>1 DEF IInv, RecordsInv
<1>7. BatchInv'
  BY <1>2, QuietBatches DEF IInv, BatchInv
<1> QED BY <1>2, <1>5, <1>6, <1>7, QuietKeeps

LEMMA FireKeeps ==
  ASSUME IInv, NEW w \in Workers, Fire(w)
  PROVE  IInv'
<1>1. PICK D \in PopDue(w) :
        /\ records' = [records EXCEPT ![w] =
                         [id \in Ids |-> IF id \in D THEN NoRecord ELSE records[w][id]]]
        /\ armed' = [armed EXCEPT ![w] =
             Owned(w, D) = {} /\ ArmNextTimer([id \in Ids |->
               IF id \in D THEN NoRecord ELSE records[w][id]])]
        /\ batches' = IF Owned(w, D) = {} THEN batches
                       ELSE batches \cup {[worker |-> w, step |-> "target",
                                           jobs |-> Owned(w, D), todo |-> Owned(w, D)]}
  BY DEF Fire
<1> DEFINE rest == [id \in Ids |-> IF id \in D THEN NoRecord ELSE records[w][id]]
           new  == [worker |-> w, step |-> "target", jobs |-> Owned(w, D), todo |-> Owned(w, D)]
<1>2. /\ UNCHANGED <<now, writes, accepted, log, delivered, history, late, assigned>>
      /\ UNCHANGED <<position, status, replayTo, replaying, used>>
  BY DEF Fire, clientVars, topicVars, groupVars
<1>3. D \subseteq Due(w)
  BY DEF PopDue
<1>4. /\ records[w] \in [Ids -> Record] /\ NoRecord \in Record
      /\ \A id \in Ids : records[w][id].ver \in Nat /\ records[w][id].due \in Nat
  BY DEF IInv, TypeOK, Record, NoRecord
<1>5. \A j \in Owned(w, D) :
        /\ j \in Job /\ IsWrite(writes, j.ver, j.id) /\ writes[j.ver].notBefore <= now
  <2> SUFFICES ASSUME NEW j \in Owned(w, D)
               PROVE  /\ j \in Job /\ IsWrite(writes, j.ver, j.id)
                      /\ writes[j.ver].notBefore <= now
    OBVIOUS
  <2>1. PICK id \in D : j = [id |-> id, ver |-> records[w][id].ver, due |-> records[w][id].due]
    BY DEF Owned
  <2>2. id \in Ids /\ records[w][id].ver # 0 /\ records[w][id].due <= now
    BY <1>3 DEF Due
  <2>3. IsWrite(writes, j.ver, id) /\ writes[j.ver].notBefore <= records[w][id].due
    BY <2>1, <2>2 DEF IInv, RecordsInv, GoodRecord
  <2>4. writes[j.ver].notBefore \in Nat /\ now \in Nat
    BY <2>3, WriteTypes DEF IInv, TypeOK, IsWrite
  <2>5. writes[j.ver].notBefore <= now
    BY <1>4, <2>2, <2>3, <2>4
  <2> QED BY <1>4, <2>1, <2>2, <2>3, <2>5 DEF Job
<1>6. new \in Batch /\ GoodBatch(new)
  BY <1>5 DEF Batch, Sends, GoodBatch, GoodJob, Ready
<1>7. rest \in [Ids -> Record] /\ \A id \in Ids : GoodRecord(writes, id, rest[id])
  BY <1>4 DEF GoodRecord, NoRecord, IInv, RecordsInv
<1>8. batches' \subseteq batches \cup {new}
  BY <1>1
<1>9. \A u \in Workers : records'[u] = IF u = w THEN rest ELSE records[u]
  BY <1>1 DEF IInv, TypeOK
<1> HIDE DEF new, rest
<1>10. TypeOK'
  <2>1. records' \in [Workers -> [Ids -> Record]]
    BY <1>1, <1>7 DEF IInv, TypeOK, rest
  <2>2. armed' \in [Workers -> BOOLEAN]
    BY <1>1 DEF IInv, TypeOK, ArmNextTimer
  <2>3. batches' \subseteq Batch
    BY <1>6, <1>8 DEF IInv, TypeOK
  <2> QED BY <1>2, <2>1, <2>2, <2>3 DEF IInv, TypeOK
<1>11. RecordsInv'
  BY <1>2, <1>7, <1>9 DEF IInv, RecordsInv
<1>12. BatchInv'
  BY <1>2, <1>6, <1>8, QuietBatches DEF IInv, BatchInv
<1> QED BY <1>2, <1>10, <1>11, <1>12, QuietKeeps

LEMMA UndeliveredGood ==
  ASSUME TypeOK, NEW b \in batches, GoodBatch(b), b.step \in Sends
  PROVE  \A m \in Undelivered(b) : m \in Message /\ GoodMessage(m)
<1> SUFFICES ASSUME NEW m \in Undelivered(b) PROVE m \in Message /\ GoodMessage(m)
  OBVIOUS
<1>1. PICK j \in b.todo : m = [kind |-> b.step, id |-> j.id, ver |-> j.ver]
  BY DEF Undelivered
<1>2. j \in b.jobs /\ j \in Job
  BY <1>1 DEF GoodBatch, TypeOK, Batch
<1>3. IsWrite(writes, j.ver, j.id) /\ Ready(b.step, j.ver)
  BY <1>2 DEF GoodBatch, GoodJob, Sends
<1> QED BY <1>1, <1>2, <1>3 DEF Message, GoodMessage, Job

LEMMA SendFailsKeeps ==
  ASSUME IInv, NEW b \in batches, SendFails(b)
  PROVE  IInv'
<1>1. /\ UNCHANGED <<now, writes, accepted, log, delivered, history, assigned, position>>
      /\ UNCHANGED <<status, replayTo, replaying, records, armed>>
  BY DEF SendFails, clientVars, groupVars, workerVars
<1>2. b \in Batch /\ GoodBatch(b) /\ b.step \in Sends
  BY DEF IInv, TypeOK, BatchInv, SendFails
<1>3. \A m \in late' : m \in late \/ (m \in Message /\ GoodMessage(m))
  BY <1>2, UndeliveredGood DEF IInv, SendFails
<1>4. \A c \in AfterFailure(b) : c \in Batch /\ GoodBatch(c)
  <2> SUFFICES ASSUME NEW c \in AfterFailure(b) PROVE c \in Batch /\ GoodBatch(c)
    OBVIOUS
  <2>1. b.worker # None /\ c = [worker |-> b.worker, step |-> "failed",
                               jobs |-> b.jobs, todo |-> b.jobs]
    BY <1>2 DEF AfterFailure, Batch
  <2>2. \A j \in b.jobs : IsWrite(writes, j.ver, j.id) /\ writes[j.ver].notBefore <= now
    BY <1>2 DEF GoodBatch, GoodJob
  <2>3. c \in Batch
    BY <1>2, <2>1 DEF Batch
  <2>4. GoodBatch(c)
    BY <2>1, <2>2 DEF GoodBatch, GoodJob
  <2> QED BY <2>3, <2>4
<1>5. TypeOK'
  <2>1. used' \in Spent
    BY Spends DEF SendFails, IInv, TypeOK
  <2>2. late' \subseteq Message
    BY <1>3 DEF IInv, TypeOK
  <2>3. batches' \subseteq Batch
    BY <1>4 DEF SendFails, IInv, TypeOK
  <2> QED BY <1>1, <2>1, <2>2, <2>3 DEF IInv, TypeOK
<1>6. RecordsInv'
  BY <1>1 DEF IInv, RecordsInv
<1>7. BatchInv'
  BY <1>1, <1>4, QuietBatches DEF IInv, BatchInv, SendFails
<1> QED BY <1>1, <1>3, <1>5, <1>6, <1>7, QuietKeeps

LEMMA RequeueKeeps ==
  ASSUME IInv, NumbersAssumption, NEW b \in batches, Requeue(b)
  PROVE  IInv'
<1>1. PICK j \in b.todo :
        /\ records' = [records EXCEPT ![b.worker][j.id] = [ver |-> j.ver, due |-> BackOff(now)]]
        /\ \/ /\ batches' = (batches \ {b}) \cup {[b EXCEPT !.todo = @ \ {j}]}
              /\ UNCHANGED armed
           \/ /\ batches' = batches \ {b}
              /\ armed' = [armed EXCEPT ![b.worker] = TRUE]
  BY DEF Requeue
<1>2. b \in Batch /\ GoodBatch(b) /\ b.step = "failed"
  BY DEF IInv, TypeOK, BatchInv, Requeue
<1>3. /\ UNCHANGED <<now, writes, accepted, log, delivered, history, late, assigned>>
      /\ UNCHANGED <<position, status, replayTo, replaying, used>>
  BY DEF Requeue, clientVars, topicVars, groupVars
<1>4. b.worker \in Workers /\ j \in b.jobs /\ j.id \in Ids /\ j.ver \in Nat
  BY <1>1, <1>2 DEF GoodBatch, Batch, Job
<1> DEFINE r == [ver |-> j.ver, due |-> BackOff(now)]
           c == [b EXCEPT !.todo = @ \ {j}]
<1>5. r \in Record /\ GoodRecord(writes, j.id, r)
  <2>1. IsWrite(writes, j.ver, j.id) /\ writes[j.ver].notBefore <= now
    BY <1>2, <1>4 DEF GoodBatch, GoodJob
  <2>2. now \in Nat /\ writes[j.ver].notBefore \in Nat
    BY <2>1, WriteTypes DEF IInv, TypeOK, IsWrite
  <2>3. BackOff(now) \in Nat /\ now <= BackOff(now)
    BY <2>2 DEF BackOff, NumbersAssumption
  <2>4. writes[j.ver].notBefore <= BackOff(now)
    BY <2>1, <2>2, <2>3
  <2> QED BY <1>4, <2>1, <2>3, <2>4 DEF Record, GoodRecord
<1>6. c \in Batch /\ GoodBatch(c)
  <2>1. c = [worker |-> b.worker, step |-> "failed", jobs |-> b.jobs, todo |-> b.todo \ {j}]
    BY <1>2 DEF Batch
  <2>2. c \in Batch
    BY <1>2, <2>1 DEF Batch
  <2>3. GoodBatch(c)
    BY <1>2, <2>1 DEF GoodBatch, GoodJob
  <2> QED BY <2>2, <2>3
<1>7. batches' \subseteq batches \cup {c}
  BY <1>1
<1>8. \A u \in Workers, id \in Ids :
        records'[u][id] = IF u = b.worker /\ id = j.id THEN r ELSE records[u][id]
  BY <1>1, <1>4 DEF IInv, TypeOK
<1>9. records' \in [Workers -> [Ids -> Record]]
  BY <1>1, <1>4, <1>5 DEF IInv, TypeOK
<1> HIDE DEF r, c
<1>10. TypeOK'
  <2>1. armed' \in [Workers -> BOOLEAN]
    BY <1>1 DEF IInv, TypeOK
  <2> QED BY <1>3, <1>6, <1>7, <1>9, <2>1 DEF IInv, TypeOK
<1>11. RecordsInv'
  BY <1>3, <1>5, <1>8 DEF IInv, RecordsInv
<1>12. BatchInv'
  BY <1>3, <1>6, <1>7, QuietBatches DEF IInv, BatchInv
<1> QED BY <1>3, <1>10, <1>11, <1>12, QuietKeeps

(* What both ways of leaving have in common.                                 *)
LEMMA LeaveKeeps ==
  ASSUME IInv, NEW w \in Workers, Leave(w),
         \A b \in batches' : b \in Batch /\ GoodBatch(b),
         \A m \in late' : m \in late \/ (m \in Message /\ GoodMessage(m))
  PROVE  IInv'
<1>1. /\ UNCHANGED <<now, writes, accepted, log, delivered, history, position, replayTo>>
  BY DEF Leave, clientVars
<1>2. TypeOK'
  <2>1. used' \in Spent
    BY Spends DEF Leave, IInv, TypeOK
  <2>2. records' \in [Workers -> [Ids -> Record]]
    BY DEF Leave, IInv, TypeOK, NoRecord, Record
  <2>3. late' \subseteq Message /\ batches' \subseteq Batch
    BY DEF IInv, TypeOK
  <2> QED BY <1>1, <2>1, <2>2, <2>3 DEF Leave, IInv, TypeOK
<1>3. RecordsInv'
  <2>1. \A u \in Workers : \/ records'[u] = records[u]
                          \/ records'[u] = [id \in Ids |-> NoRecord]
    BY DEF Leave, IInv, TypeOK
  <2> QED BY <1>1, <2>1 DEF IInv, RecordsInv, GoodRecord, NoRecord
<1>4. BatchInv'
  BY <1>1, QuietBatches DEF IInv, BatchInv
<1> QED BY <1>1, <1>2, <1>3, <1>4, QuietKeeps

LEMMA CloseKeeps ==
  ASSUME IInv, NEW w \in Workers, Close(w)
  PROVE  IInv'
<1>1. Leave(w) /\ late' = late
  BY DEF Close
<1>2. \A c \in batches' : c \in Batch /\ GoodBatch(c)
  <2> SUFFICES ASSUME NEW c \in batches' PROVE c \in Batch /\ GoodBatch(c)
    OBVIOUS
  <2>1. PICK b \in batches :
          /\ b.worker # w \/ b.step # "failed"
          /\ c = [b EXCEPT !.worker = IF @ = w THEN None ELSE @]
    BY DEF Close
  <2>2. b \in Batch /\ GoodBatch(b)
    BY DEF IInv, TypeOK, BatchInv
  <2>3. c = [worker |-> IF b.worker = w THEN None ELSE b.worker, step |-> b.step,
             jobs |-> b.jobs, todo |-> b.todo]
    BY <2>1, <2>2 DEF Batch
  <2>4. c \in Batch
    BY <2>2, <2>3 DEF Batch
  <2>5. GoodBatch(c)
    BY <2>1, <2>2, <2>3 DEF GoodBatch, GoodJob
  <2> QED BY <2>4, <2>5
<1> QED BY <1>1, <1>2, LeaveKeeps

LEMMA CrashKeeps ==
  ASSUME IInv, NEW w \in Workers, Crash(w)
  PROVE  IInv'
<1>1. Leave(w)
  BY DEF Crash
<1>2. \A b \in batches' : b \in Batch /\ GoodBatch(b)
  BY DEF Crash, IInv, TypeOK, BatchInv
<1>3. \A m \in late' : m \in late \/ (m \in Message /\ GoodMessage(m))
  <2>1. \A b \in batches : b.step \in Sends =>
          \A m \in Undelivered(b) : m \in Message /\ GoodMessage(m)
    BY UndeliveredGood DEF IInv, BatchInv
  <2> QED BY <2>1 DEF Crash
<1> QED BY <1>1, <1>2, <1>3, LeaveKeeps

LEMMA CompactKeeps ==
  ASSUME IInv, NEW p \in Partitions, Compact(p)
  PROVE  IInv'
<1>1. PICK i \in DOMAIN log[p] : log' = [log EXCEPT ![p][i] = Compacted]
  BY DEF Compact
<1>2. /\ UNCHANGED <<now, writes, accepted, delivered, history, late, assigned, position>>
      /\ UNCHANGED <<status, replayTo, replaying, records, armed, batches>>
  BY DEF Compact, clientVars, groupVars, workerVars
<1>3. Stable
  BY <1>2 DEF Stable, IInv, TypeOK
<1>4. log' = [log EXCEPT ![p] = [log[p] EXCEPT ![i] = Compacted]]
  BY <1>1
<1>5. [log[p] EXCEPT ![i] = Compacted] \in Seq(Entry)
  <2>1. log[p] \in Seq(Entry) /\ Compacted \in Entry
    BY DEF IInv, TypeOK, Compacted, Entry
  <2> QED BY <2>1
<1>6. TypeOK'
  <2>1. log' \in [Partitions -> Seq(Entry)]
    BY <1>4, <1>5 DEF IInv, TypeOK
  <2>2. used' \in Spent
    BY Spends DEF Compact, IInv, TypeOK
  <2> QED BY <1>2, <2>1, <2>2 DEF IInv, TypeOK
<1>7. LogInv'
  <2>1. \A q \in Partitions : /\ DOMAIN log'[q] = DOMAIN log[q]
                             /\ \A o \in DOMAIN log[q] :
                                  log'[q][o] = log[q][o] \/ log'[q][o] = Compacted
    BY <1>4 DEF IInv, TypeOK
  <2> QED BY <1>2, <2>1 DEF IInv, LogInv, GoodEntry
<1>8. RecordsInv' /\ LateInv' /\ NeverEarly'
  BY <1>2, <1>3, StableMessages DEF IInv, RecordsInv, LateInv, NeverEarly
<1>9. BatchInv'
  BY <1>2, <1>3, StableBatches DEF IInv, BatchInv
<1> QED BY <1>6, <1>7, <1>8, <1>9 DEF IInv

LEMMA GroupKeeps ==
  ASSUME IInv, NEW p \in Partitions, Assign(p) \/ Revoke(p)
  PROVE  IInv'
<1>1. /\ UNCHANGED <<now, writes, accepted, log, delivered, history, late>>
      /\ UNCHANGED <<status, replayTo, replaying, records, armed, batches>>
  BY DEF Assign, Revoke, clientVars, topicVars, workerVars
<1>2. TypeOK'
  <2>1. assigned' \in [Workers -> SUBSET Partitions]
    <3>1. PICK w \in Workers : \/ assigned' = [assigned EXCEPT ![w] = assigned[w] \cup {p}]
                             \/ assigned' = [assigned EXCEPT ![w] = assigned[w] \ {p}]
      BY DEF Assign, Revoke
    <3>2. assigned[w] \cup {p} \in SUBSET Partitions /\ assigned[w] \ {p} \in SUBSET Partitions
      BY DEF IInv, TypeOK
    <3> QED BY <3>1, <3>2 DEF IInv, TypeOK
  <2>2. position' \in [Partitions -> Nat \ {0}]
    <3>1. position' = position \/ position' = [position EXCEPT ![p] = 1]
      BY DEF Assign, Revoke
    <3>2. position \in [Partitions -> Nat \ {0}] /\ 1 \in Nat \ {0}
      BY DEF IInv, TypeOK
    <3> QED BY <3>1, <3>2
  <2>3. used' \in Spent
    BY Spends DEF Assign, Revoke, IInv, TypeOK
  <2> QED BY <1>1, <2>1, <2>2, <2>3 DEF IInv, TypeOK
<1>3. RecordsInv'
  BY <1>1 DEF IInv, RecordsInv
<1>4. BatchInv'
  BY <1>1, QuietBatches DEF IInv, BatchInv
<1> QED BY <1>1, <1>2, <1>3, <1>4, QuietKeeps

LEMMA TickKeeps == ASSUME IInv, Tick PROVE IInv'
<1>1. now' = now + 1 /\ now \in Nat
  BY DEF Tick, IInv, TypeOK
<1>2. /\ UNCHANGED <<writes, accepted, log, delivered, history, late, assigned, position>>
      /\ UNCHANGED <<status, replayTo, replaying, records, armed, batches, used>>
  BY DEF Tick, clientVars, topicVars, groupVars, workerVars
<1>3. Stable
  BY <1>1, <1>2 DEF Stable, IInv, TypeOK
<1>4. TypeOK'
  BY <1>1, <1>2 DEF IInv, TypeOK
<1>5. LogInv' /\ RecordsInv' /\ LateInv'
  BY <1>2, <1>3, StableMessages DEF IInv, LogInv, RecordsInv, LateInv
<1>6. BatchInv' /\ NeverEarly'
  BY <1>2, <1>3, StableBatches, StableNeverEarly DEF IInv, BatchInv
<1> QED BY <1>4, <1>5, <1>6 DEF IInv

LEMMA StutterKeeps == ASSUME IInv, UNCHANGED vars PROVE IInv'
<1>1. /\ UNCHANGED <<now, writes, accepted, log, delivered, history, late, assigned, position>>
      /\ UNCHANGED <<status, replayTo, replaying, records, armed, batches, used>>
  BY DEF vars, clientVars, topicVars, groupVars, workerVars
<1>2. TypeOK'
  BY <1>1 DEF IInv, TypeOK
<1>3. RecordsInv'
  BY <1>1 DEF IInv, RecordsInv
<1>4. BatchInv'
  BY <1>1, QuietBatches DEF IInv, BatchInv
<1> QED BY <1>1, <1>2, <1>3, <1>4, QuietKeeps

LEMMA NextKeeps ==
  ASSUME IInv, SetsAssumption, NumbersAssumption, [Next]_vars
  PROVE  IInv'
<1>1. CASE PublishLater
  BY <1>1, WriteKeeps DEF PublishLater, SetsAssumption
<1>2. CASE RetryLater
  <2>1. PICK v \in delivered, notBefore \in NotBefores : WriteSchedule(writes[v].id, notBefore)
    BY <1>2 DEF RetryLater
  <2>2. writes[v].id \in Ids
    BY WriteTypes DEF IInv, TypeOK
  <2> QED BY <2>1, <2>2, WriteKeeps DEF SetsAssumption
<1>3. CASE \E w \in Workers : Start(w) \/ Fire(w) \/ Close(w) \/ Crash(w)
  BY <1>3, StartKeeps, FireKeeps, CloseKeeps, CrashKeeps
<1>4. CASE \E w \in Workers, p \in Partitions : Consume(w, p)
  BY <1>4, ConsumeKeeps
<1>5. CASE \E b \in batches : Send(b) \/ SendFails(b) \/ Requeue(b)
  BY <1>5, SendKeeps, SendFailsKeeps, RequeueKeeps
<1>6. CASE LandLate
  BY <1>6, LandLateKeeps
<1>7. CASE \E p \in Partitions : Compact(p) \/ Assign(p) \/ Revoke(p)
  BY <1>7, CompactKeeps, GroupKeeps
<1>8. CASE Tick
  BY <1>8, TickKeeps
<1>9. CASE UNCHANGED vars
  BY <1>9, StutterKeeps
<1> QED BY <1>1, <1>2, <1>3, <1>4, <1>5, <1>6, <1>7, <1>8, <1>9 DEF Next

-------------------------------------------------------------------------------
(* The invariant holds of every behaviour of the scheduler.                  *)
THEOREM Invariance == Spec => []IInv
<1>1. Init => IInv
  BY InitIInv, SetsAssumption
<1>2. IInv /\ [Next]_vars => IInv'
  BY NextKeeps, SetsAssumption, NumbersAssumption
<1> QED BY <1>1, <1>2, PTL DEF Spec

(* The state of clients, broker and workers keeps its type: in particular    *)
(* every version in the delivered and history topics names a write, although *)
(* it reaches them through the log, #records, a batch and the network.       *)
THEOREM TypeCorrect == Spec => []TypeOK
<1>1. IInv => TypeOK
  BY DEF IInv
<1> QED BY <1>1, Invariance, PTL

(* No event is published to its target topic before the notBefore it was     *)
(* scheduled with, whatever #schedule, #deliverDueBatch's catch block,       *)
(* replays, rebalances and late sends do to its record.                      *)
THEOREM NoEarlyDelivery == Spec => []NeverEarly
<1>1. IInv => NeverEarly
  BY DEF IInv
<1> QED BY <1>1, Invariance, PTL
=============================================================================
