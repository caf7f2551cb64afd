----------------------- MODULE RabbitMqSchedulerProofs -----------------------
(***************************************************************************)
(* Theorems about RabbitMqScheduler, for every set of ids and workers and  *)
(* every value of the bounds.                                              *)
(***************************************************************************)
EXTENDS RabbitMqScheduler, TLAPS

(***************************************************************************)
(* The inductive invariant. The first parts hold whatever ids are used;    *)
(* Orderly holds as long as no id is scheduled twice, and Punctual if      *)
(* moreover setTimeout can hold the delays.                                *)
(***************************************************************************)
Arrived == {queue[i] : i \in DOMAIN queue}

\* A publish that is late has not arrived by another way.
QueueInv ==
  /\ acked \subseteq Arrived
  /\ \A m \in late : m.kind = "schedule" => m.ver \notin Arrived

\* One channel at most holds a message, and it is still in the queue.
HeldInv ==
  \A w \in Workers :
    /\ held[w] \subseteq Queued
    /\ \A u \in Workers \ {w} : held[w] \cap held[u] = {}
    /\ ~Up(w) => held[w] = {}

\* What #scheduled keeps under an id is a message of it, and the channel holds it.
KeptInv ==
  \A w \in Workers, id \in Ids :
    /\ status[w] = "down" => scheduled[w][id] = 0
    /\ scheduled[w][id] # 0 =>
         /\ scheduled[w][id] \in DOMAIN writes /\ IdOf(scheduled[w][id]) = id
         /\ Up(w) => scheduled[w][id] \in held[w]

ConfirmInv == \A d \in deliveries : d.step = "confirming" => d.ver \in delivered

Same(x, y) == x.worker = y.worker /\ x.ver = y.ver

\* One timer or one #deliver at most is about a message, and the channel holds it.
Orderly ==
  /\ \A w \in Workers : status[w] \in {"down", "running"}
  /\ \A w \in Workers : \A v \in held[w] :
       /\ scheduled[w][IdOf(v)] = v
       /\ \E x \in timers \cup deliveries : x.worker = w /\ x.ver = v
  /\ \A x \in timers \cup deliveries : x.ver \in held[x.worker]
  /\ \A t, u \in timers : Same(t, u) => t = u
  /\ \A d, e \in deliveries : Same(d, e) => d = e
  /\ \A t \in timers, d \in deliveries : ~Same(t, d)
OrderInv == IdsUnique => Orderly

\* The delays that clients ask for fit in a timer.
DelaysFit == \A n \in NotBefores : n <= MaxDelay

\* What is delivered, about to be, or on the wire is due, and was in the queue.
Punctual ==
  /\ \A v \in DOMAIN writes : writes[v].notBefore \in NotBefores
  /\ \A t \in timers : writes[t.ver].notBefore <= t.at
  /\ \A d \in deliveries : writes[d.ver].notBefore <= now
  /\ \A m \in late : m.kind = "target" =>
       writes[m.ver].notBefore <= now /\ m.ver \in Queued \cup delivered
  /\ NeverEarly
PunctualInv == DelaysFit /\ IdsUnique => Punctual

IInv ==
  /\ TypeOK /\ QueueInv /\ HeldInv /\ KeptInv /\ ConfirmInv /\ AtLeastOncePerId
  /\ OrderInv /\ PunctualInv

-------------------------------------------------------------------------------
(* Writes and the queue grow.                                                *)

LEMMA WritesGrow ==
  ASSUME writes \in Seq(Write), NEW x \in Write, writes' = Append(writes, x)
  PROVE  /\ writes' \in Seq(Write)
         /\ DOMAIN writes' = DOMAIN writes \cup {Len(writes) + 1}
         /\ writes'[Len(writes) + 1] = x
         /\ \A v \in DOMAIN writes : writes'[v] = writes[v]
         /\ Len(writes) + 1 \in Nat \ {0}
         /\ Len(writes) + 1 \notin DOMAIN writes
<1> DEFINE n == Len(writes)
<1>1. n \in Nat /\ DOMAIN writes = 1 .. n
  OBVIOUS
<1>2. DOMAIN writes' = 1 .. n + 1
  OBVIOUS
<1>3. DOMAIN writes' = DOMAIN writes \cup {n + 1}
  BY <1>1, <1>2
<1> QED
  BY <1>1, <1>3

LEMMA WriteTypes ==
  ASSUME TypeOK, NEW v \in DOMAIN writes
  PROVE  v \in Nat \ {0} /\ IdOf(v) \in Ids /\ writes[v].notBefore \in Nat
<1>1. writes[v] \in Write /\ v \in Nat \ {0}
  BY DEF TypeOK
<1> QED BY <1>1 DEF Write, IdOf

LEMMA QueueGrows ==
  ASSUME NEW S, queue \in Seq(S), NEW v \in S, queue' = Append(queue, v)
  PROVE  queue' \in Seq(S) /\ Arrived' = Arrived \cup {v}
<1> DEFINE n == Len(queue)
<1>1. n \in Nat /\ DOMAIN queue = 1 .. n
  OBVIOUS
<1>2. /\ queue' \in Seq(S) /\ DOMAIN queue' = 1 .. n + 1
      /\ queue'[n + 1] = v /\ \A i \in 1 .. n : queue'[i] = queue[i]
  OBVIOUS
<1>3. \A i \in 1 .. n + 1 : i \in 1 .. n \/ i = n + 1
  BY <1>1
<1>4. n + 1 \in 1 .. n + 1 /\ \A i \in 1 .. n : i \in 1 .. n + 1
  BY <1>1
<1> HIDE DEF n
<1>5. ASSUME NEW u \in Arrived PROVE u \in Arrived'
  <2>1. PICK i \in 1 .. n : u = queue[i]
    BY <1>1, <1>5 DEF Arrived
  <2> QED BY <2>1, <1>2, <1>4 DEF Arrived
<1>6. ASSUME NEW u \in Arrived' PROVE u \in Arrived \cup {v}
  <2>1. PICK i \in 1 .. n + 1 : u = queue'[i]
    BY <1>2, <1>6 DEF Arrived
  <2> QED BY <2>1, <1>1, <1>2, <1>3 DEF Arrived
<1> QED BY <1>2, <1>4, <1>5, <1>6 DEF Arrived

LEMMA QueueTypes ==
  ASSUME TypeOK
  PROVE  /\ Arrived \subseteq DOMAIN writes
         /\ Queued = Arrived \ acked
         /\ \A w \in Workers : held[w] \subseteq DOMAIN writes
BY DEF TypeOK, Arrived, Queued

\* As long as ids are unique, they were.
LEMMA UniqueBefore ==
  ASSUME TypeOK, IdsUnique',
         writes' = writes \/ \E x \in Write : writes' = Append(writes, x)
  PROVE  IdsUnique
<1>1. CASE writes' = writes
  BY <1>1 DEF IdsUnique, IdOf
<1>2. CASE \E x \in Write : writes' = Append(writes, x)
  <2>1. PICK x \in Write : writes' = Append(writes, x)
    BY <1>2
  <2>2. /\ DOMAIN writes \subseteq DOMAIN writes'
        /\ \A v \in DOMAIN writes : writes'[v] = writes[v]
    BY <2>1, WritesGrow DEF TypeOK
  <2> QED BY <2>2 DEF IdsUnique, IdOf
<1> QED BY <1>1, <1>2

LEMMA Spends ==
  ASSUME used \in Spent
  PROVE  /\ [used EXCEPT !.failures = @ + 1] \in Spent
         /\ [used EXCEPT !.stops = @ + 1] \in Spent
<1>1. used.failures \in Nat /\ used.stops \in Nat
  BY DEF Spent
<1> QED BY <1>1 DEF Spent

-------------------------------------------------------------------------------
(* Timers and acknowledgements.                                              *)

LEMMA SetTimeoutTypes ==
  ASSUME NEW delay \in Int, NumbersAssumption
  PROVE  SetTimeout(delay) \in Nat /\ (delay <= MaxDelay => delay <= SetTimeout(delay))
BY DEF SetTimeout, NumbersAssumption

\* Arm adds one timer, and renames at most those of the same message.
LEMMA ArmAdds ==
  ASSUME now \in Nat, NumbersAssumption, NEW w \in Workers, NEW v \in Nat, NEW n \in Nat,
         NEW set, set \subseteq Timer
  PROVE  \E new \in Timer :
           /\ new.worker = w /\ new.ver = v
           /\ n - now <= MaxDelay => n <= new.at
           /\ now <= new.at
           /\ Arm(w, v, n, set) \subseteq Timer
           /\ \A t \in Arm(w, v, n, set) : t = new \/ \E s \in set : Same(s, t)
           /\ (\A s \in set : ~(s.worker = w /\ s.ver = v)) =>
                Arm(w, v, n, set) = set \cup {new}
<1> DEFINE at == now + SetTimeout(n - now)
           new == [worker |-> w, ver |-> v, at |-> at, own |-> TRUE]
           Renamed(t) == [t EXCEPT !.own = t.own /\ (t.worker # w \/ t.ver # v)]
<1>1. at \in Nat /\ now <= at /\ (n - now <= MaxDelay => n <= at)
  <2>1. n - now \in Int
    OBVIOUS
  <2>2. SetTimeout(n - now) \in Nat /\ (n - now <= MaxDelay => n - now <= SetTimeout(n - now))
    BY <2>1, SetTimeoutTypes
  <2> QED BY <2>2
<1>2. Arm(w, v, n, set) = {Renamed(t) : t \in set} \cup {new}
  BY DEF Arm
<1> HIDE DEF at
<1>3. new \in Timer /\ new.worker = w /\ new.ver = v /\ new.at = at
  BY <1>1 DEF Timer
<1>4. ASSUME NEW t \in set
      PROVE  /\ Renamed(t) \in Timer /\ Same(t, Renamed(t))
             /\ ~(t.worker = w /\ t.ver = v) => Renamed(t) = t
  <2>1. t \in Timer
    BY <1>4
  <2> QED BY <2>1 DEF Timer, Same
<1> HIDE DEF new, Renamed
<1>5. Arm(w, v, n, set) \subseteq Timer
  BY <1>2, <1>3, <1>4
<1>6. \A t \in Arm(w, v, n, set) : t = new \/ \E s \in set : Same(s, t)
  BY <1>2, <1>4
<1>7. (\A s \in set : ~(s.worker = w /\ s.ver = v)) => Arm(w, v, n, set) = set \cup {new}
  BY <1>2, <1>4
<1> QED BY <1>1, <1>3, <1>5, <1>6, <1>7

LEMMA AckChanges ==
  ASSUME TypeOK, NEW w \in Workers, NEW v, NEW holding \in SUBSET DOMAIN writes,
         Ack(w, v, holding)
  PROVE  /\ held' \in [Workers -> SUBSET DOMAIN writes]
         /\ held'[w] = holding \ {v}
         /\ \A u \in Workers \ {w} : held'[u] = held[u] /\ status'[u] = status[u]
         /\ acked' = acked \cup (holding \cap {v}) /\ acked' \subseteq DOMAIN writes
         /\ status' \in [Workers -> {"down", "running", "doomed", "broken"}]
         /\ \/ status'[w] = status[w]
            \/ status[w] = "running" /\ status'[w] = "doomed" /\ v # 0 /\ v \notin holding
         /\ \A u \in Workers : (status'[u] = "down" <=> status[u] = "down") /\ (Up(u)' <=> Up(u))
<1>1. /\ held \in [Workers -> SUBSET DOMAIN writes]
      /\ status \in [Workers -> {"down", "running", "doomed", "broken"}]
      /\ acked \subseteq DOMAIN writes
  BY DEF TypeOK
<1>2. /\ held' = [held EXCEPT ![w] = holding \ {v}]
      /\ acked' = acked \cup (holding \cap {v})
      /\ status' = [status EXCEPT ![w] =
           IF status[w] = "running" /\ v # 0 /\ v \notin holding THEN "doomed" ELSE status[w]]
  BY DEF Ack
<1>3. holding \ {v} \in SUBSET DOMAIN writes
  OBVIOUS
<1>4. /\ held' \in [Workers -> SUBSET DOMAIN writes]
      /\ held'[w] = holding \ {v}
      /\ \A u \in Workers \ {w} : held'[u] = held[u]
  BY <1>1, <1>2, <1>3
<1>5. acked' \subseteq DOMAIN writes
  BY <1>1, <1>2
<1>6. /\ status' \in [Workers -> {"down", "running", "doomed", "broken"}]
      /\ \/ status'[w] = status[w]
         \/ status[w] = "running" /\ status'[w] = "doomed" /\ v # 0 /\ v \notin holding
      /\ \A u \in Workers \ {w} : status'[u] = status[u]
  BY <1>1, <1>2
<1>7. \A u \in Workers : (status'[u] = "down" <=> status[u] = "down") /\ (Up(u)' <=> Up(u))
  BY <1>6 DEF Up
<1> QED BY <1>2, <1>4, <1>5, <1>6, <1>7

\* An acknowledgement on the one channel that holds the message.
LEMMA AckKeepsHeld ==
  ASSUME TypeOK, HeldInv, NEW w \in Workers, NEW v, NEW holding \in SUBSET Queued,
         Ack(w, v, holding), queue' = queue,
         \A u \in Workers \ {w} : holding \cap held[u] = {},
         ~Up(w) => holding = {}
  PROVE  HeldInv' /\ Queued' = Queued \ (holding \cap {v})
<1>1. holding \in SUBSET DOMAIN writes
  BY QueueTypes
<1>2. /\ held'[w] = holding \ {v}
      /\ \A u \in Workers \ {w} : held'[u] = held[u]
      /\ acked' = acked \cup (holding \cap {v})
      /\ \A u \in Workers : Up(u)' <=> Up(u)
  BY <1>1, AckChanges
<1>3. Queued' = Queued \ (holding \cap {v})
  BY <1>2 DEF Queued
<1>4. ASSUME NEW u \in Workers PROVE held'[u] \subseteq Queued'
  <2>1. CASE u = w
    BY <2>1, <1>2, <1>3
  <2>2. CASE u # w
    BY <2>2, <1>2, <1>3 DEF HeldInv
  <2> QED BY <2>1, <2>2
<1>5. ASSUME NEW u \in Workers, NEW x \in Workers \ {u} PROVE held'[u] \cap held'[x] = {}
  <2>1. CASE u = w
    BY <2>1, <1>2
  <2>2. CASE x = w
    BY <2>2, <1>2
  <2>3. CASE u # w /\ x # w
    BY <2>3, <1>2 DEF HeldInv
  <2> QED BY <2>1, <2>2, <2>3
<1>6. ASSUME NEW u \in Workers, ~Up(u)' PROVE held'[u] = {}
  <2>1. CASE u = w
    BY <2>1, <1>2, <1>6
  <2>2. CASE u # w
    BY <2>2, <1>2, <1>6 DEF HeldInv
  <2> QED BY <2>1, <2>2
<1> QED BY <1>3, <1>4, <1>5, <1>6 DEF HeldInv

-------------------------------------------------------------------------------
(* What a step that leaves the writes, the queue or the workers alone keeps.  *)

LEMMA SameWrites ==
  ASSUME writes' = writes
  PROVE  /\ IdsUnique' <=> IdsUnique
         /\ \A v : IdOf(v)' = IdOf(v)
BY DEF IdsUnique, IdOf

LEMMA QueueKeeps ==
  ASSUME QueueInv, queue' = queue, acked' \subseteq Arrived,
         \A m \in late' : m.kind = "schedule" => m \in late
  PROVE  QueueInv'
BY DEF QueueInv, Arrived

LEMMA HeldKeeps ==
  ASSUME HeldInv, held' = held, Queued \subseteq Queued',
         \A w \in Workers : Up(w)' <=> Up(w)
  PROVE  HeldInv'
BY DEF HeldInv

LEMMA KeptKeeps ==
  ASSUME KeptInv, writes' = writes, held' = held, status' = status, scheduled' = scheduled
  PROVE  KeptInv'
BY SameWrites DEF KeptInv, Up, IdOf

LEMMA ForgetsNothing ==
  ASSUME AtLeastOncePerId, writes' = writes, accepted' = accepted,
         delivered \subseteq delivered', Queued \subseteq Queued'
  PROVE  AtLeastOncePerId'
BY SameWrites DEF AtLeastOncePerId, IdOf

-------------------------------------------------------------------------------
(* Clients.                                                                  *)

LEMMA WriteKeeps ==
  ASSUME IInv, SetsAssumption, NEW id \in Ids, NEW notBefore \in NotBefores,
         WriteSchedule(id, notBefore)
  PROVE  IInv'
<1> DEFINE x == [id |-> id, notBefore |-> notBefore]
           v == Len(writes) + 1
           m == [kind |-> "schedule", ver |-> v]
<1>1. x \in Write /\ writes' = Append(writes, x) /\ x.id = id /\ x.notBefore = notBefore
  BY DEF WriteSchedule, Write, SetsAssumption
<1>2. /\ writes' \in Seq(Write)
      /\ DOMAIN writes' = DOMAIN writes \cup {v}
      /\ writes'[v] = x
      /\ \A u \in DOMAIN writes : writes'[u] = writes[u] /\ IdOf(u)' = IdOf(u)
      /\ v \in Nat \ {0} /\ v \notin DOMAIN writes
  BY <1>1, WritesGrow DEF IInv, TypeOK, IdOf
<1>3. UNCHANGED <<now, acked, delivered, status, held, scheduled, timers, deliveries>>
  BY DEF WriteSchedule
<1>4. \/ /\ queue' = Append(queue, v) /\ accepted' = accepted \cup {v}
         /\ late' = late /\ used' = used
      \/ /\ late' = late \cup {m} /\ used' = [used EXCEPT !.failures = @ + 1]
         /\ accepted' = accepted /\ queue' = queue
  BY DEF WriteSchedule
<1> HIDE DEF x, v
<1>5. /\ queue' \in Seq(DOMAIN writes')
      /\ \/ Arrived' = Arrived \cup {v} /\ accepted' = accepted \cup {v} /\ late' = late
         \/ Arrived' = Arrived /\ accepted' = accepted /\ late' = late \cup {m}
  <2>1. queue \in Seq(DOMAIN writes')
    BY <1>2 DEF IInv, TypeOK
  <2>2. CASE queue' = Append(queue, v) /\ accepted' = accepted \cup {v} /\ late' = late
    <3>1. v \in DOMAIN writes'
      BY <1>2
    <3> QED BY <2>1, <2>2, <3>1, QueueGrows
  <2>3. CASE queue' = queue /\ accepted' = accepted /\ late' = late \cup {m}
    BY <2>1, <2>3 DEF Arrived
  <2> QED BY <1>4, <2>2, <2>3
<1>6. TypeOK'
  <2>1. used' \in Spent
    BY <1>4, Spends DEF IInv, TypeOK
  <2>2. late' \subseteq [kind : {"schedule", "target"}, ver : DOMAIN writes']
    BY <1>2, <1>5 DEF IInv, TypeOK
  <2>3. accepted' \subseteq DOMAIN writes'
    BY <1>2, <1>5 DEF IInv, TypeOK
  <2>4. held' \in [Workers -> SUBSET DOMAIN writes']
    BY <1>2, <1>3 DEF IInv, TypeOK
  <2>5. \A t \in timers' \cup deliveries' :
          t.worker \in {w \in Workers : status'[w] # "down"} /\ t.ver \in DOMAIN writes'
    BY <1>2, <1>3 DEF IInv, TypeOK
  <2>6. /\ now' \in Nat /\ acked' \subseteq DOMAIN writes' /\ delivered' \subseteq DOMAIN writes'
        /\ status' \in [Workers -> {"down", "running", "doomed", "broken"}]
        /\ scheduled' \in [Workers -> [Ids -> Nat]]
        /\ timers' \subseteq Timer /\ deliveries' \subseteq Delivery
    BY <1>2, <1>3 DEF IInv, TypeOK
  <2> QED BY <1>2, <1>5, <2>1, <2>2, <2>3, <2>4, <2>5, <2>6 DEF TypeOK
<1>7. Arrived \subseteq DOMAIN writes /\ Queued = Arrived \ acked /\ Queued' = Arrived' \ acked
  BY <1>3, QueueTypes DEF IInv, Queued, Arrived
<1>8. QueueInv'
  <2>1. \A n \in late : n.ver \in DOMAIN writes
    BY DEF IInv, TypeOK
  <2>2. m.ver = v
    OBVIOUS
  <2>3. acked' \subseteq Arrived'
    BY <1>3, <1>5 DEF IInv, QueueInv
  <2>4. ASSUME NEW n \in late', n.kind = "schedule" PROVE n.ver \notin Arrived'
    BY <1>2, <1>5, <1>7, <2>1, <2>2, <2>4 DEF IInv, QueueInv
  <2> QED BY <2>3, <2>4 DEF QueueInv
<1>9. Queued \subseteq Queued'
  BY <1>5, <1>7
<1>10. HeldInv'
  BY <1>3, <1>9, HeldKeeps DEF IInv, Up
<1>11. KeptInv'
  <2>1. \A w \in Workers : held[w] \subseteq DOMAIN writes
    BY DEF IInv, TypeOK
  <2> QED BY <1>2, <1>3, <2>1 DEF IInv, KeptInv, Up
<1>12. ConfirmInv'
  BY <1>3 DEF IInv, ConfirmInv
<1>13. AtLeastOncePerId'
  <2> SUFFICES ASSUME NEW u \in accepted'
               PROVE  \E y \in DOMAIN writes' :
                        IdOf(y)' = IdOf(u)' /\ (y \in delivered' \/ y \in Queued')
    BY DEF AtLeastOncePerId
  <2>1. CASE u \in accepted
    <3>1. u \in DOMAIN writes
      BY <2>1 DEF IInv, TypeOK
    <3>2. PICK y \in DOMAIN writes : IdOf(y) = IdOf(u) /\ (y \in delivered \/ y \in Queued)
      BY <2>1 DEF IInv, AtLeastOncePerId
    <3> QED BY <1>2, <1>3, <1>9, <3>1, <3>2
  <2>2. CASE u = v /\ Arrived' = Arrived \cup {v}
    <3>1. v \notin acked
      BY <1>2 DEF IInv, TypeOK
    <3> QED BY <1>2, <1>7, <2>2, <3>1
  <2> QED BY <1>5, <2>1, <2>2
<1>14. OrderInv'
  <2> SUFFICES ASSUME IdsUnique' PROVE Orderly'
    BY DEF OrderInv
  <2>1. Orderly
    BY <1>1, UniqueBefore DEF IInv, OrderInv
  <2>2. \A w \in Workers : \A u \in held[w] : IdOf(u)' = IdOf(u)
    BY <1>2 DEF IInv, TypeOK
  <2> QED BY <1>3, <2>1, <2>2 DEF Orderly
<1>15. PunctualInv'
  <2> SUFFICES ASSUME DelaysFit, IdsUnique' PROVE Punctual'
    BY DEF PunctualInv, DelaysFit
  <2>1. Punctual
    BY <1>1, UniqueBefore DEF IInv, PunctualInv
  <2>2. \A u \in DOMAIN writes' : writes'[u].notBefore \in NotBefores
    BY <1>1, <1>2, <2>1 DEF Punctual
  <2>3. \A t \in timers' : writes'[t.ver].notBefore <= t.at
    BY <1>2, <1>3, <2>1 DEF Punctual, IInv, TypeOK
  <2>4. \A d \in deliveries' : writes'[d.ver].notBefore <= now'
    BY <1>2, <1>3, <2>1 DEF Punctual, IInv, TypeOK
  <2>5. \A n \in late' : n.kind = "target" =>
          writes'[n.ver].notBefore <= now' /\ n.ver \in Queued' \cup delivered'
    <3>1. \A n \in late : writes'[n.ver] = writes[n.ver]
      BY <1>2 DEF IInv, TypeOK
    <3>2. late' = late \/ late' = late \cup {m}
      BY <1>5
    <3>3. m.kind # "target"
      OBVIOUS
    <3> HIDE DEF m
    <3> QED BY <1>3, <1>9, <2>1, <3>1, <3>2, <3>3 DEF Punctual
  <2>6. NeverEarly'
    BY <1>2, <1>3, <2>1 DEF Punctual, NeverEarly, IInv, TypeOK
  <2> QED BY <2>2, <2>3, <2>4, <2>5, <2>6 DEF Punctual
<1> QED BY <1>6, <1>8, <1>10, <1>11, <1>12, <1>13, <1>14, <1>15 DEF IInv

-------------------------------------------------------------------------------
(* The clock, the broker, and workers that start and stop.                   *)

LEMMA TickKeeps ==
  ASSUME IInv, Tick
  PROVE  IInv'
<1>1. /\ now' = now + 1 /\ now \in Nat
      /\ UNCHANGED <<writes, accepted, queue, acked, delivered, late, status, held, scheduled,
                     timers, deliveries, used>>
  BY DEF Tick, clientVars, brokerVars, IInv, TypeOK
<1>2. TypeOK'
  BY <1>1 DEF IInv, TypeOK
<1>3. QueueInv' /\ HeldInv' /\ KeptInv' /\ ConfirmInv' /\ AtLeastOncePerId' /\ OrderInv'
  <2>1. Queued' = Queued /\ QueueInv'
    BY <1>1 DEF IInv, Queued, QueueInv, Arrived
  <2>2. HeldInv' /\ KeptInv' /\ ConfirmInv'
    BY <1>1, <2>1, KeptKeeps DEF IInv, HeldInv, Up, ConfirmInv
  <2>3. AtLeastOncePerId'
    BY <1>1, <2>1, ForgetsNothing DEF IInv
  <2>4. OrderInv'
    BY <1>1, SameWrites DEF IInv, OrderInv, Orderly
  <2> QED BY <2>1, <2>2, <2>3, <2>4
<1>4. PunctualInv'
  <2> SUFFICES ASSUME DelaysFit, IdsUnique PROVE Punctual'
    BY <1>1, SameWrites DEF PunctualInv, DelaysFit
  <2>1. Punctual
    BY DEF IInv, PunctualInv
  <2>2. \A u \in DOMAIN writes : writes[u].notBefore <= now => writes[u].notBefore <= now'
    BY <1>1, WriteTypes DEF IInv
  <2>3. Queued' = Queued
    BY <1>1 DEF Queued
  <2>4. /\ \A d \in deliveries : d.ver \in DOMAIN writes
        /\ \A m \in late : m.ver \in DOMAIN writes
        /\ delivered \subseteq DOMAIN writes
    BY DEF IInv, TypeOK
  <2> QED BY <1>1, <2>1, <2>2, <2>3, <2>4 DEF Punctual, NeverEarly
<1> QED BY <1>2, <1>3, <1>4 DEF IInv

LEMMA LandKeeps ==
  ASSUME IInv, LandLate
  PROVE  IInv'
<1>1. PICK m \in late :
        /\ late' = late \ {m}
        /\ \/ m.kind = "schedule" /\ queue' = Append(queue, m.ver) /\ delivered' = delivered
           \/ m.kind # "schedule" /\ delivered' = delivered \cup {m.ver} /\ queue' = queue
        /\ UNCHANGED <<now, writes, accepted, acked, status, held, scheduled, timers,
                       deliveries, used>>
  BY DEF LandLate, clientVars
<1>2. /\ m.ver \in DOMAIN writes /\ m.kind \in {"schedule", "target"}
      /\ \A n \in late : n.kind = m.kind /\ n.ver = m.ver => n = m
  BY DEF IInv, TypeOK
<1>3. /\ queue' \in Seq(DOMAIN writes)
      /\ Arrived' = Arrived \/ (Arrived' = Arrived \cup {m.ver} /\ m.kind = "schedule")
  <2>1. queue \in Seq(DOMAIN writes)
    BY DEF IInv, TypeOK
  <2>2. CASE queue' = Append(queue, m.ver) /\ m.kind = "schedule"
    BY <1>2, <2>1, <2>2, QueueGrows
  <2>3. CASE queue' = queue
    BY <2>1, <2>3 DEF Arrived
  <2> QED BY <1>1, <2>2, <2>3
<1>4. TypeOK'
  BY <1>1, <1>2, <1>3 DEF IInv, TypeOK
<1>5. QueueInv'
  BY <1>1, <1>2, <1>3 DEF IInv, QueueInv
<1>6. Queued \subseteq Queued' /\ delivered \subseteq delivered'
  <2>1. Queued = Arrived \ acked /\ Queued' = Arrived' \ acked'
    BY DEF Queued, Arrived
  <2> QED BY <1>1, <1>3, <2>1
<1>7. HeldInv' /\ KeptInv' /\ ConfirmInv'
  BY <1>1, <1>6, HeldKeeps, KeptKeeps DEF IInv, Up, ConfirmInv
<1>8. AtLeastOncePerId'
  BY <1>1, <1>6, ForgetsNothing DEF IInv
<1>9. OrderInv'
  BY <1>1, SameWrites DEF IInv, OrderInv, Orderly
<1>10. PunctualInv'
  <2> SUFFICES ASSUME DelaysFit, IdsUnique PROVE Punctual'
    BY <1>1, SameWrites DEF PunctualInv, DelaysFit
  <2>1. Punctual
    BY DEF IInv, PunctualInv
  <2>2. NeverEarly'
    BY <1>1, <1>2, <2>1 DEF Punctual, NeverEarly
  <2> QED BY <1>1, <1>6, <2>1, <2>2 DEF Punctual
<1> QED BY <1>4, <1>5, <1>7, <1>8, <1>9, <1>10 DEF IInv

LEMMA StartKeeps ==
  ASSUME IInv, NEW w \in Workers, Start(w)
  PROVE  IInv'
<1>1. /\ status[w] = "down" /\ status' = [status EXCEPT ![w] = "running"]
      /\ UNCHANGED <<now, writes, accepted, queue, acked, delivered, late, held, scheduled,
                     timers, deliveries, used>>
  BY DEF Start, clientVars, brokerVars
<1>2. /\ status' \in [Workers -> {"down", "running", "doomed", "broken"}]
      /\ status'[w] = "running" /\ \A u \in Workers \ {w} : status'[u] = status[u]
  BY <1>1 DEF IInv, TypeOK
<1>3. TypeOK'
  BY <1>1, <1>2 DEF IInv, TypeOK
<1>4. Queued' = Queued /\ QueueInv'
  BY <1>1 DEF IInv, Queued, QueueInv, Arrived
<1>5. HeldInv'
  <2>1. \A u \in Workers : ~Up(u)' => ~Up(u)
    BY <1>2 DEF Up
  <2> QED BY <1>1, <1>4, <2>1 DEF IInv, HeldInv
<1>6. KeptInv'
  <2>1. \A id \in Ids : scheduled[w][id] = 0
    BY <1>1 DEF IInv, KeptInv
  <2> QED BY <1>1, <1>2, <2>1, SameWrites DEF IInv, KeptInv, Up
<1>7. ConfirmInv'
  BY <1>1 DEF IInv, ConfirmInv
<1>8. AtLeastOncePerId'
  BY <1>1, <1>4, ForgetsNothing DEF IInv
<1>9. OrderInv'
  BY <1>1, <1>2, SameWrites DEF IInv, OrderInv, Orderly
<1>10. PunctualInv'
  BY <1>1, <1>4, SameWrites DEF IInv, PunctualInv, Punctual, DelaysFit, NeverEarly
<1> QED BY <1>3, <1>4, <1>5, <1>6, <1>7, <1>8, <1>9, <1>10 DEF IInv

LEMMA ChannelErrorKeeps ==
  ASSUME IInv, NEW w \in Workers, ChannelError(w)
  PROVE  IInv'
<1>1. /\ status[w] = "doomed" /\ status' = [status EXCEPT ![w] = "broken"]
      /\ held' = [held EXCEPT ![w] = {}]
      /\ UNCHANGED <<now, writes, accepted, queue, acked, delivered, late, scheduled,
                     timers, deliveries, used>>
  BY DEF ChannelError, clientVars, brokerVars
<1>2. /\ status' \in [Workers -> {"down", "running", "doomed", "broken"}]
      /\ status'[w] = "broken" /\ \A u \in Workers \ {w} : status'[u] = status[u]
      /\ held' \in [Workers -> SUBSET DOMAIN writes]
      /\ held'[w] = {} /\ \A u \in Workers \ {w} : held'[u] = held[u]
  BY <1>1 DEF IInv, TypeOK
<1>3. TypeOK'
  BY <1>1, <1>2 DEF IInv, TypeOK
<1>4. Queued' = Queued /\ QueueInv'
  BY <1>1 DEF IInv, Queued, QueueInv, Arrived
<1>5. HeldInv'
  BY <1>2, <1>4 DEF IInv, HeldInv, Up
<1>6. KeptInv'
  BY <1>1, <1>2, SameWrites DEF IInv, KeptInv, Up
<1>7. ConfirmInv'
  BY <1>1 DEF IInv, ConfirmInv
<1>8. AtLeastOncePerId'
  BY <1>1, <1>4, ForgetsNothing DEF IInv
<1>9. ~IdsUnique
  BY <1>1 DEF IInv, OrderInv, Orderly
<1>10. OrderInv' /\ PunctualInv'
  BY <1>1, <1>9, SameWrites DEF OrderInv, PunctualInv
<1> QED BY <1>3, <1>4, <1>5, <1>6, <1>7, <1>8, <1>10 DEF IInv

LEMMA StopKeeps ==
  ASSUME IInv, NEW w \in Workers, Stop(w)
  PROVE  IInv'
<1> DEFINE stopped == UNION {Unpublished(d) : d \in deliveries \ deliveries'}
<1>1. /\ status' = [status EXCEPT ![w] = "down"]
      /\ held' = [held EXCEPT ![w] = {}]
      /\ scheduled' = [scheduled EXCEPT ![w] = [id \in Ids |-> 0]]
      /\ timers' = {t \in timers : t.worker # w}
      /\ deliveries' = {d \in deliveries : d.worker # w}
      /\ late' = late \cup stopped
      /\ used' = [used EXCEPT !.stops = @ + 1]
      /\ UNCHANGED <<now, writes, accepted, queue, acked, delivered>>
  BY DEF Stop, clientVars, TimersLeft
<1>2. /\ status' \in [Workers -> {"down", "running", "doomed", "broken"}]
      /\ status'[w] = "down" /\ \A u \in Workers \ {w} : status'[u] = status[u]
      /\ held' \in [Workers -> SUBSET DOMAIN writes]
      /\ held'[w] = {} /\ \A u \in Workers \ {w} : held'[u] = held[u]
  BY <1>1 DEF IInv, TypeOK
<1>3. /\ scheduled' \in [Workers -> [Ids -> Nat]]
      /\ \A id \in Ids : scheduled'[w][id] = 0
      /\ \A u \in Workers \ {w} : scheduled'[u] = scheduled[u]
  <2>1. [id \in Ids |-> 0] \in [Ids -> Nat]
    OBVIOUS
  <2> QED BY <1>1, <2>1 DEF IInv, TypeOK
<1>4. \A m \in stopped : m.kind = "target" /\ \E d \in deliveries :
          m = [kind |-> "target", ver |-> d.ver]
  BY DEF Unpublished
<1> HIDE DEF stopped
<1>5. TypeOK'
  <2>1. used' \in Spent
    BY <1>1, Spends DEF IInv, TypeOK
  <2>2. late' \subseteq [kind : {"schedule", "target"}, ver : DOMAIN writes']
    <3>1. ASSUME NEW m \in stopped
          PROVE  m \in [kind : {"schedule", "target"}, ver : DOMAIN writes]
      <4>1. PICK d \in deliveries : m = [kind |-> "target", ver |-> d.ver]
        BY <1>4
      <4>2. d.ver \in DOMAIN writes
        BY DEF IInv, TypeOK
      <4> QED BY <4>1, <4>2
    <3> QED BY <1>1, <3>1 DEF IInv, TypeOK
  <2>3. \A t \in timers' \cup deliveries' :
          t.worker \in {u \in Workers : status'[u] # "down"} /\ t.ver \in DOMAIN writes'
    BY <1>1, <1>2 DEF IInv, TypeOK
  <2> QED BY <1>1, <1>2, <1>3, <2>1, <2>2, <2>3 DEF IInv, TypeOK
<1>6. Queued' = Queued /\ QueueInv'
  <2>1. \A m \in late' : m.kind = "schedule" => m \in late
    BY <1>1, <1>4
  <2> QED BY <1>1, <2>1, QueueKeeps DEF IInv, Queued, QueueInv
<1>7. HeldInv'
  BY <1>2, <1>6 DEF IInv, HeldInv, Up
<1>8. KeptInv'
  BY <1>1, <1>2, <1>3, SameWrites DEF IInv, KeptInv, Up
<1>9. ConfirmInv'
  BY <1>1 DEF IInv, ConfirmInv
<1>10. AtLeastOncePerId'
  BY <1>1, <1>6, ForgetsNothing DEF IInv
<1>11. OrderInv'
  <2> SUFFICES ASSUME IdsUnique PROVE Orderly'
    BY <1>1, SameWrites DEF OrderInv
  <2>1. Orderly
    BY DEF IInv, OrderInv
  <2>2. /\ \A u \in Workers : status'[u] \in {"down", "running"}
        /\ \A x \in timers' \cup deliveries' : x.ver \in held'[x.worker]
    BY <1>1, <1>2, <2>1 DEF Orderly, IInv, TypeOK
  <2>3. ASSUME NEW u \in Workers, NEW v \in held'[u]
        PROVE  /\ scheduled'[u][IdOf(v)'] = v
               /\ \E x \in timers' \cup deliveries' : x.worker = u /\ x.ver = v
    <3>1. u # w /\ v \in held[u]
      BY <1>2, <2>3
    <3>2. PICK x \in timers \cup deliveries : x.worker = u /\ x.ver = v
      BY <2>1, <3>1 DEF Orderly
    <3>3. scheduled'[u][IdOf(v)'] = v
      BY <1>1, <1>3, <2>1, <3>1, SameWrites DEF Orderly
    <3>4. x \in timers' \cup deliveries'
      BY <1>1, <3>1, <3>2
    <3> QED BY <3>2, <3>3, <3>4
  <2>4. timers' \subseteq timers /\ deliveries' \subseteq deliveries
    BY <1>1
  <2> QED BY <2>1, <2>2, <2>3, <2>4 DEF Orderly
<1>12. PunctualInv'
  <2> SUFFICES ASSUME DelaysFit, IdsUnique PROVE Punctual'
    BY <1>1, SameWrites DEF PunctualInv, DelaysFit
  <2>1. Punctual /\ Orderly
    BY DEF IInv, PunctualInv, OrderInv
  <2>2. timers' \subseteq timers /\ deliveries' \subseteq deliveries
    BY <1>1
  <2>3. ASSUME NEW m \in late', m.kind = "target"
        PROVE  writes'[m.ver].notBefore <= now' /\ m.ver \in Queued' \cup delivered'
    <3>1. CASE m \in late
      BY <1>1, <1>6, <2>1, <2>3, <3>1 DEF Punctual
    <3>2. CASE m \in stopped
      <4>1. PICK d \in deliveries : m = [kind |-> "target", ver |-> d.ver]
        BY <1>4, <3>2
      <4>2. d.worker \in Workers /\ d.ver \in held[d.worker]
        BY <2>1 DEF Orderly, IInv, TypeOK
      <4>3. d.ver \in Queued
        BY <4>2 DEF IInv, HeldInv
      <4> QED BY <1>1, <1>6, <2>1, <4>1, <4>3 DEF Punctual
    <3> QED BY <1>1, <3>1, <3>2
  <2> QED BY <1>1, <2>1, <2>2, <2>3 DEF Punctual, NeverEarly
<1> QED BY <1>5, <1>6, <1>7, <1>8, <1>9, <1>10, <1>11, <1>12 DEF IInv

-------------------------------------------------------------------------------
(* Deliveries.                                                               *)

LEMMA FireKeeps ==
  ASSUME IInv, NEW w \in Workers, Fire(w)
  PROVE  IInv'
<1>1. PICK t \in timers :
        /\ t.worker = w /\ t.at <= now
        /\ timers' = Disarm(w, scheduled[w][IdOf(t.ver)], timers \ {t})
        /\ deliveries' =
             IF scheduled[w][IdOf(t.ver)] = 0 THEN deliveries
             ELSE deliveries \cup {[worker |-> w, timer |-> t.ver,
                                    ver |-> scheduled[w][IdOf(t.ver)], step |-> "publishing"]}
        /\ UNCHANGED <<now, writes, accepted, queue, acked, delivered, late, status, held,
                       scheduled, used>>
  BY DEF Fire, clientVars, brokerVars
<1> DEFINE v == scheduled[w][IdOf(t.ver)]
           d == [worker |-> w, timer |-> t.ver, ver |-> v, step |-> "publishing"]
<1>2. /\ t.ver \in DOMAIN writes /\ t.ver \in Nat /\ IdOf(t.ver) \in Ids /\ v \in Nat
      /\ status[w] # "down"
  <2>1. t.ver \in DOMAIN writes /\ status[w] # "down"
    BY <1>1 DEF IInv, TypeOK
  <2>2. t.ver \in Nat /\ IdOf(t.ver) \in Ids
    BY <2>1, WriteTypes DEF IInv
  <2> QED BY <2>1, <2>2 DEF IInv, TypeOK
<1>3. timers' \subseteq timers \ {t} /\ timers' = Disarm(w, v, timers \ {t})
  BY <1>1 DEF Disarm
<1>4. deliveries' = IF v = 0 THEN deliveries ELSE deliveries \cup {d}
  BY <1>1
<1>5. d.worker = w /\ d.ver = v /\ d.step = "publishing" /\ d \in Delivery
  BY <1>2 DEF Delivery
<1> HIDE DEF d, v
<1>6. TypeOK'
  <2>1. timers' \subseteq Timer /\ deliveries' \subseteq Delivery
    BY <1>3, <1>4, <1>5 DEF IInv, TypeOK
  <2>2. v # 0 => v \in DOMAIN writes
    BY <1>2 DEF v, IInv, KeptInv
  <2>3. ASSUME NEW x \in timers' \cup deliveries'
        PROVE  x.worker \in {u \in Workers : status'[u] # "down"} /\ x.ver \in DOMAIN writes'
    <3>1. x \in timers \cup deliveries \/ (x = d /\ v # 0)
      BY <1>3, <1>4
    <3> QED BY <1>1, <1>2, <1>5, <2>2, <3>1 DEF IInv, TypeOK
  <2> QED BY <1>1, <2>1, <2>3 DEF IInv, TypeOK
<1>7. Queued' = Queued /\ QueueInv'
  BY <1>1 DEF IInv, Queued, QueueInv, Arrived
<1>8. HeldInv' /\ KeptInv'
  BY <1>1, <1>7, HeldKeeps, KeptKeeps DEF IInv, Up
<1>9. ConfirmInv'
  BY <1>1, <1>4, <1>5 DEF IInv, ConfirmInv
<1>10. AtLeastOncePerId'
  BY <1>1, <1>7, ForgetsNothing DEF IInv
<1>11. ASSUME IdsUnique, Orderly
       PROVE  /\ v = t.ver /\ v # 0
              /\ timers' = timers \ {t} /\ deliveries' = deliveries \cup {d}
  <2>1. t.ver \in held[w]
    BY <1>1, <1>11 DEF Orderly
  <2>2. v = t.ver /\ v # 0
    <3>1. v = t.ver
      BY <1>11, <2>1 DEF Orderly, v
    <3>2. t.ver # 0
      BY <1>2, WriteTypes DEF IInv
    <3> QED BY <3>1, <3>2
  <2>3. \A u \in timers \ {t} : ~(u.worker = w /\ u.ver = v)
    BY <1>1, <1>11, <2>2 DEF Orderly, Same
  <2>4. timers' = timers \ {t}
    BY <1>3, <2>3 DEF Disarm
  <2> QED BY <1>4, <2>2, <2>4
<1>12. OrderInv'
  <2> SUFFICES ASSUME IdsUnique PROVE Orderly'
    BY <1>1, SameWrites DEF OrderInv
  <2>1. Orderly
    BY DEF IInv, OrderInv
  <2>2. Same(t, d) /\ timers' = timers \ {t} /\ deliveries' = deliveries \cup {d}
    BY <1>1, <1>5, <1>11, <2>1 DEF Same
  <2>3. ASSUME NEW u \in Workers, NEW y \in held'[u]
        PROVE  /\ scheduled'[u][IdOf(y)'] = y
               /\ \E x \in timers' \cup deliveries' : x.worker = u /\ x.ver = y
    <3>1. scheduled'[u][IdOf(y)'] = y
      BY <1>1, <2>1, <2>3, SameWrites DEF Orderly
    <3>2. PICK x \in timers \cup deliveries : x.worker = u /\ x.ver = y
      BY <1>1, <2>1, <2>3 DEF Orderly
    <3>3. CASE x = t
      <4>1. d.worker = u /\ d.ver = y /\ d \in timers' \cup deliveries'
        BY <2>2, <3>2, <3>3 DEF Same
      <4> QED BY <3>1, <4>1
    <3>4. CASE x # t
      BY <2>2, <3>1, <3>2, <3>4
    <3> QED BY <3>3, <3>4
  <2>4. ASSUME NEW x \in timers' \cup deliveries' PROVE x.ver \in held'[x.worker]
    BY <1>1, <2>1, <2>2, <2>4 DEF Orderly, Same
  <2>5. \A x, y \in timers' : Same(x, y) => x = y
    BY <2>1, <2>2 DEF Orderly
  <2>6. \A x \in timers : x # t => ~Same(x, d)
    BY <2>1, <2>2 DEF Orderly, Same
  <2>7. \A x \in deliveries : ~Same(x, d) /\ ~Same(d, x)
    BY <2>1, <2>2 DEF Orderly, Same
  <2>8. \A x, y \in deliveries' : Same(x, y) => x = y
    BY <2>1, <2>2, <2>7 DEF Orderly
  <2>9. \A x \in timers', y \in deliveries' : ~Same(x, y)
    BY <2>1, <2>2, <2>6 DEF Orderly
  <2>10. \A u \in Workers : status'[u] \in {"down", "running"}
    BY <1>1, <2>1 DEF Orderly
  <2> QED BY <2>3, <2>4, <2>5, <2>8, <2>9, <2>10 DEF Orderly
<1>13. PunctualInv'
  <2> SUFFICES ASSUME DelaysFit, IdsUnique PROVE Punctual'
    BY <1>1, SameWrites DEF PunctualInv, DelaysFit
  <2>1. Punctual /\ Orderly
    BY DEF IInv, PunctualInv, OrderInv
  <2>2. writes[d.ver].notBefore <= now
    <3>1. d.ver = t.ver /\ writes[t.ver].notBefore <= t.at
      BY <1>5, <1>11, <2>1 DEF Punctual
    <3>2. t.at \in Nat /\ now \in Nat /\ writes[t.ver].notBefore \in Nat
      BY <1>2, WriteTypes DEF IInv, TypeOK, Timer
    <3> QED BY <1>1, <3>1, <3>2
  <2> QED BY <1>1, <1>3, <1>4, <1>7, <2>1, <2>2 DEF Punctual, NeverEarly
<1> QED BY <1>6, <1>7, <1>8, <1>9, <1>10, <1>12, <1>13 DEF IInv

\* A delivery goes on: nobody else takes over its message.
LEMMA OrderlyGoesOn ==
  ASSUME Orderly, NEW d \in deliveries, NEW e, Same(d, e),
         deliveries' = (deliveries \ {d}) \cup {e},
         UNCHANGED <<writes, timers, status, held, scheduled>>
  PROVE  Orderly'
<1>1. /\ \A w \in Workers : status'[w] \in {"down", "running"}
      /\ \A x \in timers' \cup deliveries' : x.ver \in held'[x.worker]
      /\ \A t, u \in timers' : Same(t, u) => t = u
  BY DEF Orderly, Same
<1>2. \A x \in deliveries : x # d => ~Same(x, e) /\ ~Same(e, x)
  BY DEF Orderly, Same
<1>3. \A x, y \in deliveries' : Same(x, y) => x = y
  BY <1>2 DEF Orderly
<1>4. \A t \in timers', x \in deliveries' : ~Same(t, x)
  BY DEF Orderly, Same
<1>5. ASSUME NEW w \in Workers, NEW v \in held'[w]
      PROVE  /\ scheduled'[w][IdOf(v)'] = v
             /\ \E x \in timers' \cup deliveries' : x.worker = w /\ x.ver = v
  <2>1. scheduled'[w][IdOf(v)'] = v
    BY <1>5, SameWrites DEF Orderly
  <2>2. PICK x \in timers \cup deliveries : x.worker = w /\ x.ver = v
    BY <1>5 DEF Orderly
  <2>3. CASE x = d
    BY <2>1, <2>2, <2>3 DEF Same
  <2>4. CASE x # d
    BY <2>1, <2>2, <2>4
  <2> QED BY <2>3, <2>4
<1> QED BY <1>1, <1>3, <1>4, <1>5 DEF Orderly

LEMMA DeliveryTypes ==
  ASSUME TypeOK, NEW d \in deliveries
  PROVE  /\ d.worker \in Workers /\ status[d.worker] # "down"
         /\ d.ver \in DOMAIN writes /\ d.ver \in Nat \ {0} /\ IdOf(d.ver) \in Ids
         /\ d \in Delivery
<1>1. d.worker \in Workers /\ status[d.worker] # "down" /\ d.ver \in DOMAIN writes
      /\ d \in Delivery
  BY DEF TypeOK
<1> QED BY <1>1, WriteTypes

\* The same delivery at its next step.
LEMMA StepTypes ==
  ASSUME NEW d \in Delivery, NEW step \in {"publishing", "confirming", "failed"}
  PROVE  /\ [d EXCEPT !.step = step] \in Delivery
         /\ [d EXCEPT !.step = step].step = step
         /\ [d EXCEPT !.step = step].ver = d.ver
         /\ [d EXCEPT !.step = step].worker = d.worker
BY DEF Delivery

LEMMA PublishesKeeps ==
  ASSUME IInv, NEW d \in deliveries, Publishes(d)
  PROVE  IInv'
<1> DEFINE e == [d EXCEPT !.step = "confirming"]
<1>1. /\ delivered' = delivered \cup {d.ver}
      /\ deliveries' = (deliveries \ {d}) \cup {e}
      /\ UNCHANGED <<now, writes, accepted, queue, acked, late, status, held, scheduled,
                     timers, used>>
  BY DEF Publishes, clientVars
<1>2. /\ d.ver \in DOMAIN writes /\ d.worker \in Workers /\ status[d.worker] # "down"
      /\ e \in Delivery /\ e.ver = d.ver /\ e.worker = d.worker /\ Same(d, e)
  BY DeliveryTypes, StepTypes DEF IInv, Same
<1> HIDE DEF e
<1>3. TypeOK'
  BY <1>1, <1>2 DEF IInv, TypeOK
<1>4. Queued' = Queued /\ QueueInv'
  BY <1>1 DEF IInv, Queued, QueueInv, Arrived
<1>5. HeldInv' /\ KeptInv'
  BY <1>1, <1>4, HeldKeeps, KeptKeeps DEF IInv, Up
<1>6. ConfirmInv'
  BY <1>1, <1>2 DEF IInv, ConfirmInv
<1>7. AtLeastOncePerId'
  BY <1>1, <1>4, ForgetsNothing DEF IInv
<1>8. OrderInv'
  BY <1>1, <1>2, OrderlyGoesOn, SameWrites DEF IInv, OrderInv
<1>9. PunctualInv'
  <2> SUFFICES ASSUME DelaysFit, IdsUnique PROVE Punctual'
    BY <1>1, SameWrites DEF PunctualInv, DelaysFit
  <2>1. Punctual
    BY DEF IInv, PunctualInv
  <2>2. NeverEarly'
    BY <1>1, <2>1 DEF Punctual, NeverEarly
  <2> QED BY <1>1, <1>2, <1>4, <2>1, <2>2 DEF Punctual
<1> QED BY <1>3, <1>4, <1>5, <1>6, <1>7, <1>8, <1>9 DEF IInv

LEMMA PublishFailsKeeps ==
  ASSUME IInv, NEW d \in deliveries, PublishFails(d)
  PROVE  IInv'
<1> DEFINE e == [d EXCEPT !.step = "failed"]
           m == [kind |-> "target", ver |-> d.ver]
<1>1. /\ late' = late \/ late' = late \cup {m}
      /\ deliveries' = (deliveries \ {d}) \cup {e}
      /\ used' = [used EXCEPT !.failures = @ + 1]
      /\ UNCHANGED <<now, writes, accepted, queue, acked, delivered, status, held, scheduled,
                     timers>>
  BY DEF PublishFails, Unpublished, AfterFailure, clientVars
<1>2. /\ d.ver \in DOMAIN writes /\ d.worker \in Workers /\ status[d.worker] # "down"
      /\ e \in Delivery /\ e.ver = d.ver /\ e.worker = d.worker /\ e.step = "failed"
      /\ Same(d, e)
  BY DeliveryTypes, StepTypes DEF IInv, Same
<1>3. /\ m \in [kind : {"schedule", "target"}, ver : DOMAIN writes]
      /\ m.kind = "target" /\ m.ver = d.ver
  BY <1>2
<1> HIDE DEF e, m
<1>4. TypeOK'
  <2>1. used' \in Spent
    BY <1>1, Spends DEF IInv, TypeOK
  <2>2. late' \subseteq [kind : {"schedule", "target"}, ver : DOMAIN writes']
    BY <1>1, <1>3 DEF IInv, TypeOK
  <2> QED BY <1>1, <1>2, <2>1, <2>2 DEF IInv, TypeOK
<1>5. Queued' = Queued /\ QueueInv'
  BY <1>1, <1>3 DEF IInv, Queued, QueueInv, Arrived
<1>6. HeldInv' /\ KeptInv'
  BY <1>1, <1>5, HeldKeeps, KeptKeeps DEF IInv, Up
<1>7. ConfirmInv'
  BY <1>1, <1>2 DEF IInv, ConfirmInv
<1>8. AtLeastOncePerId'
  BY <1>1, <1>5, ForgetsNothing DEF IInv
<1>9. OrderInv'
  BY <1>1, <1>2, OrderlyGoesOn, SameWrites DEF IInv, OrderInv
<1>10. PunctualInv'
  <2> SUFFICES ASSUME DelaysFit, IdsUnique PROVE Punctual'
    BY <1>1, SameWrites DEF PunctualInv, DelaysFit
  <2>1. Punctual /\ Orderly
    BY DEF IInv, PunctualInv, OrderInv
  <2>2. writes[d.ver].notBefore <= now /\ d.ver \in Queued
    BY <1>2, <2>1 DEF Punctual, Orderly, IInv, HeldInv
  <2>3. ASSUME NEW n \in late', n.kind = "target"
        PROVE  writes'[n.ver].notBefore <= now' /\ n.ver \in Queued' \cup delivered'
    BY <1>1, <1>3, <1>5, <2>1, <2>2, <2>3 DEF Punctual
  <2> QED BY <1>1, <1>2, <2>1, <2>2, <2>3 DEF Punctual, NeverEarly
<1> QED BY <1>4, <1>5, <1>6, <1>7, <1>8, <1>9, <1>10 DEF IInv

LEMMA RearmKeeps ==
  ASSUME IInv, NumbersAssumption, NEW d \in deliveries, Rearm(d)
  PROVE  IInv'
<1> DEFINE w == d.worker
           n == now + RetryDelay
<1>1. /\ timers' = Arm(w, d.ver, n, timers)
      /\ deliveries' = deliveries \ {d}
      /\ UNCHANGED <<now, writes, accepted, queue, acked, delivered, late, status, held,
                     scheduled, used>>
  BY DEF Rearm, clientVars, brokerVars
<1>2. /\ d.ver \in DOMAIN writes /\ d.ver \in Nat /\ w \in Workers /\ status[w] # "down"
      /\ n \in Nat /\ now \in Nat /\ timers \subseteq Timer
  BY DeliveryTypes DEF IInv, TypeOK, NumbersAssumption
<1> HIDE DEF n
<1>3. PICK new \in Timer :
        /\ new.worker = w /\ new.ver = d.ver /\ now <= new.at
        /\ timers' \subseteq Timer
        /\ \A t \in timers' : t = new \/ \E s \in timers : Same(s, t)
        /\ (\A s \in timers : ~(s.worker = w /\ s.ver = d.ver)) => timers' = timers \cup {new}
  <2>1. \E new \in Timer :
        /\ new.worker = w /\ new.ver = d.ver
        /\ n - now <= MaxDelay => n <= new.at
        /\ now <= new.at
        /\ Arm(w, d.ver, n, timers) \subseteq Timer
        /\ \A t \in Arm(w, d.ver, n, timers) : t = new \/ \E s \in timers : Same(s, t)
        /\ (\A s \in timers : ~(s.worker = w /\ s.ver = d.ver)) =>
             Arm(w, d.ver, n, timers) = timers \cup {new}
    <3> HIDE DEF w
    <3> QED BY <1>2, NumbersAssumption, ArmAdds
  <2> QED BY <1>1, <2>1
<1>4. TypeOK'
  <2>1. ASSUME NEW t \in timers'
        PROVE  t.worker \in {u \in Workers : status'[u] # "down"} /\ t.ver \in DOMAIN writes'
    BY <1>1, <1>2, <1>3, <2>1 DEF IInv, TypeOK, Same
  <2> QED BY <1>1, <1>3, <2>1 DEF IInv, TypeOK
<1>5. Queued' = Queued /\ QueueInv'
  BY <1>1 DEF IInv, Queued, QueueInv, Arrived
<1>6. HeldInv' /\ KeptInv'
  BY <1>1, <1>5, HeldKeeps, KeptKeeps DEF IInv, Up
<1>7. ConfirmInv'
  BY <1>1 DEF IInv, ConfirmInv
<1>8. AtLeastOncePerId'
  BY <1>1, <1>5, ForgetsNothing DEF IInv
<1>9. ASSUME Orderly PROVE timers' = timers \cup {new}
  BY <1>3, <1>9 DEF Orderly, Same
<1>10. OrderInv'
  <2> SUFFICES ASSUME IdsUnique PROVE Orderly'
    BY <1>1, SameWrites DEF OrderInv
  <2>1. Orderly /\ timers' = timers \cup {new} /\ Same(d, new)
    BY <1>3, <1>9 DEF IInv, OrderInv, Same
  <2>2. /\ \A u \in Workers : status'[u] \in {"down", "running"}
        /\ \A x \in timers' \cup deliveries' : x.ver \in held'[x.worker]
    BY <1>1, <2>1 DEF Orderly, Same
  <2>3. \A t \in timers : ~Same(t, new) /\ ~Same(new, t)
    BY <2>1 DEF Orderly, Same
  <2>4. \A t, u \in timers' : Same(t, u) => t = u
    BY <2>1, <2>3 DEF Orderly
  <2>5. \A x \in deliveries' : ~Same(new, x)
    BY <1>1, <2>1 DEF Orderly, Same
  <2>6. \A t \in timers', x \in deliveries' : ~Same(t, x)
    BY <1>1, <2>1, <2>5 DEF Orderly
  <2>7. ASSUME NEW u \in Workers, NEW y \in held'[u]
        PROVE  /\ scheduled'[u][IdOf(y)'] = y
               /\ \E x \in timers' \cup deliveries' : x.worker = u /\ x.ver = y
    <3>1. scheduled'[u][IdOf(y)'] = y
      BY <1>1, <2>1, <2>7, SameWrites DEF Orderly
    <3>2. PICK x \in timers \cup deliveries : x.worker = u /\ x.ver = y
      BY <1>1, <2>1, <2>7 DEF Orderly
    <3>3. CASE x = d
      BY <2>1, <3>1, <3>2, <3>3 DEF Same
    <3>4. CASE x # d
      BY <1>1, <2>1, <3>1, <3>2, <3>4
    <3> QED BY <3>3, <3>4
  <2>8. \A x, y \in deliveries' : Same(x, y) => x = y
    BY <1>1, <2>1 DEF Orderly
  <2> QED BY <2>2, <2>4, <2>6, <2>7, <2>8 DEF Orderly
<1>11. PunctualInv'
  <2> SUFFICES ASSUME DelaysFit, IdsUnique PROVE Punctual'
    BY <1>1, SameWrites DEF PunctualInv, DelaysFit
  <2>1. Punctual /\ timers' = timers \cup {new}
    BY <1>9 DEF IInv, PunctualInv, OrderInv
  <2>2. writes[new.ver].notBefore <= new.at
    <3>1. writes[d.ver].notBefore <= now /\ writes[d.ver].notBefore \in Nat
      BY <1>2, <2>1, WriteTypes DEF Punctual, IInv
    <3>2. new.at \in Nat
      BY DEF Timer
    <3> QED BY <1>2, <1>3, <3>1, <3>2
  <2> QED BY <1>1, <1>5, <2>1, <2>2 DEF Punctual, NeverEarly
<1> QED BY <1>4, <1>5, <1>6, <1>7, <1>8, <1>10, <1>11 DEF IInv

LEMMA ConfirmKeeps ==
  ASSUME IInv, NEW d \in deliveries, Confirm(d)
  PROVE  IInv'
<1> DEFINE w == d.worker
           v == d.ver
           id == IdOf(d.ver)
<1>1. /\ d.step = "confirming" /\ Ack(w, v, held[w])
      /\ scheduled' = [scheduled EXCEPT ![w][id] = 0]
      /\ deliveries' = deliveries \ {d}
      /\ UNCHANGED <<now, writes, accepted, queue, delivered, late, timers, used>>
  BY DEF Confirm, clientVars
<1>2. /\ w \in Workers /\ status[w] # "down" /\ v \in DOMAIN writes /\ id \in Ids
      /\ v \in Nat \ {0} /\ v \in delivered
  BY <1>1, DeliveryTypes DEF IInv, ConfirmInv
<1> HIDE DEF w, v, id
<1>3. /\ held[w] \in SUBSET Queued /\ held[w] \in SUBSET DOMAIN writes
      /\ \A u \in Workers \ {w} : held[w] \cap held[u] = {}
      /\ ~Up(w) => held[w] = {}
  BY <1>2, QueueTypes DEF IInv, HeldInv
<1>4. HeldInv' /\ Queued' = Queued \ (held[w] \cap {v})
  <2>1. TypeOK /\ HeldInv /\ queue' = queue
    BY <1>1 DEF IInv
  <2> QED BY <1>1, <1>2, <1>3, <2>1, AckKeepsHeld
<1>5. /\ held' \in [Workers -> SUBSET DOMAIN writes]
      /\ held'[w] = held[w] \ {v}
      /\ \A u \in Workers \ {w} : held'[u] = held[u] /\ status'[u] = status[u]
      /\ acked' = acked \cup (held[w] \cap {v}) /\ acked' \subseteq DOMAIN writes
      /\ status' \in [Workers -> {"down", "running", "doomed", "broken"}]
      /\ \/ status'[w] = status[w]
         \/ status[w] = "running" /\ status'[w] = "doomed" /\ v # 0 /\ v \notin held[w]
      /\ \A u \in Workers : (status'[u] = "down" <=> status[u] = "down") /\ (Up(u)' <=> Up(u))
  BY <1>1, <1>2, <1>3, AckChanges DEF IInv
<1>6. /\ scheduled' \in [Workers -> [Ids -> Nat]]
      /\ \A u \in Workers, i \in Ids :
           scheduled'[u][i] = IF u = w /\ i = id THEN 0 ELSE scheduled[u][i]
  BY <1>1, <1>2 DEF IInv, TypeOK
<1>7. TypeOK'
  <2>1. \A t \in timers' \cup deliveries' :
          t.worker \in {u \in Workers : status'[u] # "down"} /\ t.ver \in DOMAIN writes'
    BY <1>1, <1>5 DEF IInv, TypeOK
  <2> QED BY <1>1, <1>5, <1>6, <2>1 DEF IInv, TypeOK
<1>8. QueueInv'
  <2>1. held[w] \subseteq Arrived
    BY <1>3 DEF Queued, Arrived
  <2> QED BY <1>1, <1>5, <2>1, QueueKeeps DEF IInv, QueueInv
<1>9. KeptInv'
  <2>1. ASSUME NEW u \in Workers, NEW i \in Ids, scheduled'[u][i] # 0
        PROVE  /\ scheduled'[u][i] \in DOMAIN writes' /\ IdOf(scheduled'[u][i]) = i
               /\ status'[u] # "down"
               /\ Up(u)' => scheduled'[u][i] \in held'[u]
    <3>1. scheduled'[u][i] = scheduled[u][i] /\ ~(u = w /\ i = id)
      BY <1>6, <2>1
    <3>2. /\ scheduled[u][i] \in DOMAIN writes /\ IdOf(scheduled[u][i]) = i
          /\ status[u] # "down" /\ (Up(u) => scheduled[u][i] \in held[u])
      BY <2>1, <3>1 DEF IInv, KeptInv
    <3>3. u = w => scheduled[u][i] # v
      BY <3>1, <3>2 DEF id, v
    <3> QED BY <1>1, <1>5, <3>1, <3>2, <3>3
  <2> QED BY <1>1, <2>1 DEF KeptInv, IdOf
<1>10. ConfirmInv'
  BY <1>1 DEF IInv, ConfirmInv
<1>11. AtLeastOncePerId'
  <2>1. ASSUME NEW u \in DOMAIN writes, u \in delivered \/ u \in Queued
        PROVE  u \in delivered' \/ u \in Queued'
    BY <1>1, <1>2, <1>4, <2>1
  <2> QED BY <1>1, <2>1, SameWrites DEF IInv, AtLeastOncePerId
<1>12. OrderInv'
  <2> SUFFICES ASSUME IdsUnique PROVE Orderly'
    BY <1>1, SameWrites DEF OrderInv
  <2>1. Orderly
    BY DEF IInv, OrderInv
  <2>2. v \in held[w] /\ status'[w] = status[w]
    BY <1>5, <2>1 DEF Orderly, v, w
  <2>3. \A u \in Workers : status'[u] \in {"down", "running"}
    BY <1>5, <2>1, <2>2 DEF Orderly
  <2>4. ASSUME NEW x \in timers' \cup deliveries' PROVE x.ver \in held'[x.worker]
    <3>1. x \in timers \cup deliveries /\ x # d
      BY <1>1, <2>1, <2>4 DEF Orderly, Same
    <3>2. ~(x.worker = w /\ x.ver = v)
      BY <2>1, <3>1 DEF Orderly, Same, w, v
    <3>3. x.worker \in Workers /\ x.ver \in held[x.worker]
      BY <2>1, <3>1 DEF Orderly, IInv, TypeOK
    <3> QED BY <1>5, <3>2, <3>3
  <2>5. ASSUME NEW u \in Workers, NEW y \in held'[u]
        PROVE  /\ scheduled'[u][IdOf(y)'] = y
               /\ \E x \in timers' \cup deliveries' : x.worker = u /\ x.ver = y
    <3>1. y \in held[u] /\ ~(u = w /\ y = v) /\ y \in DOMAIN writes
      BY <1>1, <1>5, <2>5 DEF IInv, TypeOK
    <3>2. scheduled'[u][IdOf(y)'] = y
      <4>1. IdOf(y) \in Ids /\ scheduled[u][IdOf(y)] = y
        BY <2>1, <3>1, WriteTypes DEF Orderly, IInv
      <4>2. u = w => IdOf(y) # id
        BY <1>2, <3>1 DEF IdsUnique, id, v
      <4> QED BY <1>1, <1>6, <4>1, <4>2, SameWrites
    <3>3. PICK x \in timers \cup deliveries : x.worker = u /\ x.ver = y
      BY <2>1, <3>1 DEF Orderly
    <3>4. x # d
      BY <3>1, <3>3 DEF w, v
    <3> QED BY <1>1, <3>2, <3>3, <3>4
  <2> QED BY <1>1, <2>1, <2>3, <2>4, <2>5 DEF Orderly
<1>13. PunctualInv'
  <2> SUFFICES ASSUME DelaysFit, IdsUnique PROVE Punctual'
    BY <1>1, SameWrites DEF PunctualInv, DelaysFit
  <2>1. Punctual
    BY DEF IInv, PunctualInv
  <2>2. Queued \cup delivered \subseteq Queued' \cup delivered'
    BY <1>1, <1>2, <1>4
  <2> QED BY <1>1, <2>1, <2>2 DEF Punctual, NeverEarly
<1> QED BY <1>4, <1>7, <1>8, <1>9, <1>10, <1>11, <1>12, <1>13 DEF IInv

-------------------------------------------------------------------------------
(* The consumer.                                                             *)

\* What a consumed message does: it is held and scheduled in place of old.
LEMMA ConsumeChanges ==
  ASSUME IInv, NEW w \in Workers, Consume(w)
  PROVE  \E v \in Nat, old \in Nat :
           /\ v \in Queued /\ v \in DOMAIN writes
           /\ \A u \in Workers : v \notin held[u]
           /\ old # 0 => old \in held[w] /\ IdOf(old) = IdOf(v) /\ old # v
           /\ Ack(w, old, held[w] \cup {v})
           /\ scheduled' = [scheduled EXCEPT ![w][IdOf(v)] = v]
           /\ timers' = Arm(w, v, writes[v].notBefore, Disarm(w, old, timers))
           /\ HeldInv' /\ Queued' = Queued \ {old}
<1>1. PICK i \in DOMAIN queue :
        /\ queue[i] \in Ready
        /\ Ack(w, scheduled[w][IdOf(queue[i])], held[w] \cup {queue[i]})
        /\ scheduled' = [scheduled EXCEPT ![w][IdOf(queue[i])] = queue[i]]
        /\ timers' = Arm(w, queue[i], writes[queue[i]].notBefore,
                         Disarm(w, scheduled[w][IdOf(queue[i])], timers))
  BY DEF Consume, Superseded
<1> DEFINE v == queue[i]
           old == scheduled[w][IdOf(v)]
           holding == held[w] \cup {v}
<1>2. /\ Ack(w, old, holding)
      /\ scheduled' = [scheduled EXCEPT ![w][IdOf(v)] = v]
      /\ timers' = Arm(w, v, writes[v].notBefore, Disarm(w, old, timers))
      /\ Up(w) /\ queue' = queue
  BY <1>1 DEF Consume
<1>3. /\ v \in Queued /\ v \in DOMAIN writes /\ v \in Nat /\ old \in Nat /\ IdOf(v) \in Ids
      /\ \A u \in Workers : v \notin held[u]
  <2>1. v \in Queued /\ (\A u \in Workers : v \notin held[u]) /\ v \in DOMAIN writes
    BY <1>1, QueueTypes DEF Ready, IInv
  <2>2. IdOf(v) \in Ids /\ v \in Nat
    BY <2>1, WriteTypes DEF IInv
  <2> QED BY <2>1, <2>2 DEF IInv, TypeOK
<1>4. old # 0 => old \in held[w] /\ IdOf(old) = IdOf(v) /\ old # v
  BY <1>2, <1>3 DEF IInv, KeptInv
<1> HIDE DEF v, old
<1>5. /\ holding \in SUBSET Queued
      /\ \A u \in Workers \ {w} : holding \cap held[u] = {}
  BY <1>3 DEF IInv, HeldInv
<1>6. HeldInv' /\ Queued' = Queued \ (holding \cap {old})
  BY <1>2, <1>5, AckKeepsHeld DEF IInv
<1>7. Queued' = Queued \ {old}
  <2>1. 0 \notin Queued
    BY QueueTypes, WriteTypes DEF IInv
  <2> QED BY <1>4, <1>6, <2>1
<1> QED BY <1>2, <1>3, <1>4, <1>6, <1>7

LEMMA ConsumeKeeps ==
  ASSUME IInv, NumbersAssumption, NEW w \in Workers, Consume(w)
  PROVE  IInv'
<1>1. PICK v \in Nat, old \in Nat :
        /\ v \in Queued /\ v \in DOMAIN writes
        /\ \A u \in Workers : v \notin held[u]
        /\ old # 0 => old \in held[w] /\ IdOf(old) = IdOf(v) /\ old # v
        /\ Ack(w, old, held[w] \cup {v})
        /\ scheduled' = [scheduled EXCEPT ![w][IdOf(v)] = v]
        /\ timers' = Arm(w, v, writes[v].notBefore, Disarm(w, old, timers))
        /\ HeldInv' /\ Queued' = Queued \ {old}
  BY ConsumeChanges
<1> DEFINE id == IdOf(v)
           n == writes[v].notBefore
           kept == Disarm(w, old, timers)
           holding == held[w] \cup {v}
<1>2. /\ Ack(w, old, holding)
      /\ scheduled' = [scheduled EXCEPT ![w][id] = v]
      /\ timers' = Arm(w, v, n, kept)
      /\ Up(w)
      /\ UNCHANGED <<now, writes, accepted, queue, delivered, late, deliveries, used>>
  BY <1>1 DEF Consume, clientVars
<1>3. /\ v \in Queued /\ \A u \in Workers : v \notin held[u]
      /\ v \in DOMAIN writes /\ v \in Nat \ {0} /\ id \in Ids /\ n \in Nat
      /\ now \in Nat /\ old \in Nat
  <2>1. v \in DOMAIN writes
    BY <1>1
  <2>2. v \in Nat \ {0} /\ id \in Ids /\ n \in Nat
    BY <2>1, WriteTypes DEF IInv
  <2> QED BY <1>1, <2>1, <2>2 DEF IInv, TypeOK
<1>4. kept \subseteq timers /\ kept \subseteq Timer
  BY DEF Disarm, IInv, TypeOK
<1>5. old # 0 => old \in held[w] /\ old \in DOMAIN writes /\ IdOf(old) = id /\ old # v
  BY <1>1, QueueTypes DEF IInv
<1> HIDE DEF id, n, kept
<1>6. PICK new \in Timer :
        /\ new.worker = w /\ new.ver = v
        /\ n - now <= MaxDelay => n <= new.at
        /\ timers' \subseteq Timer
        /\ \A t \in timers' : t = new \/ \E s \in kept : Same(s, t)
        /\ (\A s \in kept : ~(s.worker = w /\ s.ver = v)) => timers' = kept \cup {new}
  <2>1. \E new \in Timer :
        /\ new.worker = w /\ new.ver = v
        /\ n - now <= MaxDelay => n <= new.at
        /\ now <= new.at
        /\ Arm(w, v, n, kept) \subseteq Timer
        /\ \A t \in Arm(w, v, n, kept) : t = new \/ \E s \in kept : Same(s, t)
        /\ (\A s \in kept : ~(s.worker = w /\ s.ver = v)) =>
             Arm(w, v, n, kept) = kept \cup {new}
    <3>1. PICK m \in Nat : m = n
      BY <1>3
    <3> QED BY <1>3, <1>4, <3>1, NumbersAssumption, ArmAdds
  <2> QED BY <1>2, <2>1
<1>7. /\ holding \in SUBSET Queued /\ holding \in SUBSET DOMAIN writes
      /\ \A u \in Workers \ {w} : holding \cap held[u] = {}
      /\ 0 \notin Queued /\ 0 \notin holding
  <2>1. 0 \notin DOMAIN writes
    BY WriteTypes DEF IInv
  <2> QED BY <1>3, <2>1, QueueTypes DEF IInv, HeldInv
<1>8. HeldInv' /\ Queued' = Queued \ {old}
  BY <1>1
<1>9. /\ held' \in [Workers -> SUBSET DOMAIN writes]
      /\ held'[w] = holding \ {old}
      /\ \A u \in Workers \ {w} : held'[u] = held[u] /\ status'[u] = status[u]
      /\ acked' = acked \cup (holding \cap {old}) /\ acked' \subseteq DOMAIN writes
      /\ status' \in [Workers -> {"down", "running", "doomed", "broken"}]
      /\ status'[w] = status[w]
      /\ \A u \in Workers : (status'[u] = "down" <=> status[u] = "down") /\ (Up(u)' <=> Up(u))
  BY <1>2, <1>5, <1>7, AckChanges DEF IInv
<1>10. /\ scheduled' \in [Workers -> [Ids -> Nat]]
       /\ \A u \in Workers, j \in Ids :
            scheduled'[u][j] = IF u = w /\ j = id THEN v ELSE scheduled[u][j]
  BY <1>2, <1>3 DEF IInv, TypeOK
<1>11. TypeOK'
  <2>1. status[w] # "down"
    BY <1>2 DEF Up
  <2>2. ASSUME NEW t \in timers' \cup deliveries'
        PROVE  t.worker \in {u \in Workers : status'[u] # "down"} /\ t.ver \in DOMAIN writes'
    <3>1. CASE t \in deliveries
      BY <1>2, <1>9, <3>1 DEF IInv, TypeOK
    <3>2. CASE t = new
      BY <1>2, <1>3, <1>6, <1>9, <2>1, <3>2
    <3>3. CASE \E s \in kept : Same(s, t)
      <4>1. PICK s \in timers : Same(s, t)
        BY <1>4, <3>3
      <4>2. s.worker \in Workers /\ status[s.worker] # "down" /\ s.ver \in DOMAIN writes
        BY DEF IInv, TypeOK
      <4> QED BY <1>2, <1>9, <4>1, <4>2 DEF Same
    <3> QED BY <1>2, <1>6, <2>2, <3>1, <3>2, <3>3
  <2> QED BY <1>2, <1>6, <1>9, <1>10, <2>2 DEF IInv, TypeOK
<1>12. QueueInv'
  <2>1. holding \subseteq Arrived
    BY <1>7 DEF Queued, Arrived
  <2> QED BY <1>2, <1>9, <2>1, QueueKeeps DEF IInv, QueueInv
<1>13. KeptInv'
  <2>1. ASSUME NEW u \in Workers, NEW j \in Ids, scheduled'[u][j] # 0
        PROVE  /\ scheduled'[u][j] \in DOMAIN writes' /\ IdOf(scheduled'[u][j]) = j
               /\ status'[u] # "down"
               /\ Up(u)' => scheduled'[u][j] \in held'[u]
    <3>1. CASE u = w /\ j = id
      <4>1. v \in holding /\ v # old
        BY <1>3, <1>5
      <4> QED BY <1>2, <1>3, <1>9, <1>10, <3>1, <4>1 DEF Up, id
    <3>2. CASE ~(u = w /\ j = id)
      <4>1. scheduled'[u][j] = scheduled[u][j]
        BY <1>10, <3>2
      <4>2. /\ scheduled[u][j] \in DOMAIN writes /\ IdOf(scheduled[u][j]) = j
            /\ status[u] # "down" /\ (Up(u) => scheduled[u][j] \in held[u])
        BY <2>1, <4>1 DEF IInv, KeptInv
      <4>3. u = w => scheduled[u][j] # old
        BY <1>5, <2>1, <3>2, <4>1, <4>2
      <4> QED BY <1>2, <1>9, <4>1, <4>2, <4>3
    <3> QED BY <3>1, <3>2
  <2> QED BY <1>2, <2>1 DEF KeptInv, IdOf
<1>14. ConfirmInv'
  BY <1>2 DEF IInv, ConfirmInv
<1>15. AtLeastOncePerId'
  <2> SUFFICES ASSUME NEW u \in accepted
               PROVE  \E y \in DOMAIN writes : IdOf(y) = IdOf(u) /\ (y \in delivered \/ y \in Queued')
    BY <1>2, SameWrites DEF AtLeastOncePerId
  <2>1. PICK y \in DOMAIN writes : IdOf(y) = IdOf(u) /\ (y \in delivered \/ y \in Queued)
    BY DEF IInv, AtLeastOncePerId
  <2>2. CASE y = old
    <3>1. y \in Nat \ {0}
      BY <2>1, WriteTypes DEF IInv
    <3>2. IdOf(v) = IdOf(y) /\ v # old
      BY <1>5, <2>2, <3>1 DEF id
    <3> QED BY <1>3, <1>8, <2>1, <3>2
  <2>3. CASE y # old
    BY <1>8, <2>1, <2>3
  <2> QED BY <2>2, <2>3
<1>16. ASSUME IdsUnique, Orderly
       PROVE  old = 0 /\ kept = timers /\ timers' = timers \cup {new}
              /\ \A x \in timers \cup deliveries : ~(x.worker = w /\ x.ver = v)
  <2>1. old = 0
    BY <1>3, <1>5, <1>16 DEF IdsUnique, id
  <2>2. \A x \in timers \cup deliveries : ~(x.worker = w /\ x.ver = v)
    BY <1>3, <1>16 DEF Orderly
  <2>3. kept = timers
    <3>1. \A t \in timers : t.ver # 0
      BY WriteTypes DEF IInv, TypeOK
    <3> QED BY <2>1, <3>1 DEF kept, Disarm
  <2> QED BY <1>6, <2>1, <2>2, <2>3
<1>17. OrderInv'
  <2> SUFFICES ASSUME IdsUnique PROVE Orderly'
    BY <1>2, SameWrites DEF OrderInv
  <2>1. Orderly
    BY DEF IInv, OrderInv
  <2>2. /\ timers' = timers \cup {new} /\ old = 0 /\ held'[w] = held[w] \cup {v}
        /\ \A x \in timers \cup deliveries : ~Same(x, new) /\ ~Same(new, x)
    BY <1>3, <1>6, <1>7, <1>9, <1>16, <2>1 DEF Same
  <2>3. \A u \in Workers : status'[u] \in {"down", "running"}
    BY <1>9, <2>1 DEF Orderly
  <2>4. ASSUME NEW x \in timers' \cup deliveries' PROVE x.ver \in held'[x.worker]
    <3>1. CASE x = new
      BY <1>6, <2>2, <3>1
    <3>2. CASE x \in timers \cup deliveries
      <4>1. x.worker \in Workers /\ x.ver \in held[x.worker]
        BY <2>1, <3>2 DEF Orderly, IInv, TypeOK
      <4> QED BY <1>9, <2>2, <4>1
    <3> QED BY <1>2, <2>2, <2>4, <3>1, <3>2
  <2>5. \A t, u \in timers' : Same(t, u) => t = u
    BY <2>1, <2>2 DEF Orderly
  <2>6. \A t \in timers', x \in deliveries' : ~Same(t, x)
    BY <1>2, <2>1, <2>2 DEF Orderly
  <2>7. \A x, y \in deliveries' : Same(x, y) => x = y
    BY <1>2, <2>1 DEF Orderly
  <2>8. ASSUME NEW u \in Workers, NEW y \in held'[u]
        PROVE  /\ scheduled'[u][IdOf(y)'] = y
               /\ \E x \in timers' \cup deliveries' : x.worker = u /\ x.ver = y
    <3>1. CASE u = w /\ y = v
      BY <1>2, <1>3, <1>6, <1>10, <2>2, <3>1, SameWrites DEF id
    <3>2. CASE ~(u = w /\ y = v)
      <4>1. y \in held[u] /\ y \in DOMAIN writes /\ y # v
        BY <1>3, <1>9, <2>2, <2>8, <3>2, QueueTypes DEF IInv
      <4>2. IdOf(y) \in Ids /\ IdOf(y) # id /\ scheduled[u][IdOf(y)] = y
        BY <1>3, <2>1, <4>1, WriteTypes DEF Orderly, IdsUnique, IInv, id
      <4>3. scheduled'[u][IdOf(y)'] = y
        BY <1>2, <1>10, <4>2, SameWrites
      <4>4. \E x \in timers \cup deliveries : x.worker = u /\ x.ver = y
        BY <2>1, <4>1 DEF Orderly
      <4> QED BY <1>2, <2>2, <4>3, <4>4
    <3> QED BY <3>1, <3>2
  <2> QED BY <2>3, <2>4, <2>5, <2>6, <2>7, <2>8 DEF Orderly
<1>18. PunctualInv'
  <2> SUFFICES ASSUME DelaysFit, IdsUnique PROVE Punctual'
    BY <1>2, SameWrites DEF PunctualInv, DelaysFit
  <2>1. Punctual /\ timers' = timers \cup {new} /\ Queued' = Queued
    BY <1>7, <1>8, <1>16 DEF IInv, PunctualInv, OrderInv
  <2>2. writes[new.ver].notBefore <= new.at
    <3>1. n <= MaxDelay
      BY <1>3, <2>1 DEF Punctual, DelaysFit, n
    <3>2. n - now <= MaxDelay
      BY <1>3, <3>1, NumbersAssumption
    <3> QED BY <1>6, <3>2 DEF n
  <2> QED BY <1>2, <2>1, <2>2 DEF Punctual, NeverEarly
<1> QED BY <1>8, <1>11, <1>12, <1>13, <1>14, <1>15, <1>17, <1>18 DEF IInv

-------------------------------------------------------------------------------
(* The invariant holds in every reachable state.                             *)

LEMMA InitHolds ==
  ASSUME Init
  PROVE  IInv
<1>1. writes = <<>> /\ writes \in Seq(Write) /\ DOMAIN writes = {}
  BY DEF Init
<1>2. queue = <<>> /\ queue \in Seq(DOMAIN writes) /\ Arrived = {}
  BY DEF Init, Arrived
<1>3. TypeOK
  BY <1>1, <1>2 DEF Init, TypeOK, Spent
<1>4. QueueInv /\ HeldInv /\ KeptInv /\ ConfirmInv /\ AtLeastOncePerId
  BY <1>2 DEF Init, QueueInv, HeldInv, KeptInv, ConfirmInv, AtLeastOncePerId, Up
<1>5. OrderInv
  BY DEF Init, OrderInv, Orderly
<1>6. PunctualInv
  BY <1>1 DEF Init, PunctualInv, Punctual, NeverEarly
<1> QED BY <1>3, <1>4, <1>5, <1>6 DEF IInv

LEMMA NextKeeps ==
  ASSUME IInv, [Next]_vars
  PROVE  IInv'
<1>1. CASE PublishLater \/ RetryLater
  <2>1. PICK id \in Ids, n \in NotBefores : WriteSchedule(id, n)
    <3>1. \A v \in delivered : IdOf(v) \in Ids
      BY WriteTypes DEF IInv, TypeOK
    <3> QED BY <1>1, <3>1 DEF PublishLater, RetryLater
  <2> QED BY <2>1, SetsAssumption, WriteKeeps
<1>2. CASE \E w \in Workers : Start(w) \/ Consume(w) \/ Fire(w) \/ Stop(w) \/ ChannelError(w)
  BY <1>2, NumbersAssumption, StartKeeps, ConsumeKeeps, FireKeeps, StopKeeps, ChannelErrorKeeps
<1>3. CASE \E d \in deliveries : Publishes(d) \/ Confirm(d) \/ PublishFails(d) \/ Rearm(d)
  BY <1>3, NumbersAssumption, PublishesKeeps, ConfirmKeeps, PublishFailsKeeps, RearmKeeps
<1>4. CASE LandLate \/ Tick
  BY <1>4, LandKeeps, TickKeeps
<1>5. CASE UNCHANGED vars
  <2>1. UNCHANGED <<now, writes, accepted, queue, acked, delivered, late, status, held,
                    scheduled, timers, deliveries, used>>
    BY <1>5 DEF vars, clientVars, brokerVars
  <2>2. /\ Queued' = Queued /\ Arrived' = Arrived
        /\ \A w : Up(w)' <=> Up(w)
    BY <2>1 DEF Queued, Arrived, Up
  <2>3. TypeOK' /\ QueueInv' /\ HeldInv' /\ KeptInv' /\ ConfirmInv' /\ AtLeastOncePerId'
    BY <2>1, <2>2, SameWrites DEF IInv, TypeOK, QueueInv, HeldInv, KeptInv, ConfirmInv,
       AtLeastOncePerId
  <2>4. OrderInv' /\ PunctualInv'
    BY <2>1, <2>2, SameWrites
    DEF IInv, OrderInv, Orderly, PunctualInv, Punctual, DelaysFit, NeverEarly
  <2> QED BY <2>3, <2>4 DEF IInv
<1> QED BY <1>1, <1>2, <1>3, <1>4, <1>5 DEF Next

\* The inductive invariant holds in every reachable state.
THEOREM Invariance == Spec => []IInv
<1>1. Init => IInv
  BY InitHolds
<1>2. IInv /\ [Next]_vars => IInv'
  BY NextKeeps
<1> QED BY <1>1, <1>2, PTL DEF Spec

\* Type correctness: the scheduler's memory, its channel and the queue.
THEOREM TypeCorrect == Spec => []TypeOK
<1>1. IInv => TypeOK
  BY DEF IInv
<1> QED BY <1>1, Invariance, PTL

\* For an id somebody scheduled, some event was delivered or some message is in
\* the queue, even when ids are scheduled again, or retried, at any moment.
THEOREM NoIdIsForgotten == Spec => []AtLeastOncePerId
<1>1. IInv => AtLeastOncePerId
  BY DEF IInv
<1> QED BY <1>1, Invariance, PTL

\* When each id is scheduled once, a schedule whose caller was told it is persisted
\* has been delivered, or its message is still in the queue.
THEOREM NoScheduleIsLost == Spec => [](IdsUnique => AtLeastOnce)
<1>1. IInv => (IdsUnique => AtLeastOnce)
  <2> SUFFICES ASSUME IInv, IdsUnique, NEW v \in accepted
               PROVE  v \in delivered \/ v \in Queued
    BY DEF AtLeastOnce
  <2>1. PICK u \in DOMAIN writes : IdOf(u) = IdOf(v) /\ (u \in delivered \/ u \in Queued)
    BY DEF IInv, AtLeastOncePerId
  <2> QED BY <2>1 DEF IdsUnique, IInv, TypeOK
<1> QED BY <1>1, Invariance, PTL

\* When each id is scheduled once, what a channel holds is scheduled: no message
\* is kept from the other workers by one that has forgotten it.
THEOREM NothingIsWithheld == Spec => []HeldIsScheduled
<1>1. IInv => HeldIsScheduled
  <2> SUFFICES ASSUME IInv, IdsUnique, NEW w \in Workers, NEW v \in held[w]
               PROVE  /\ scheduled[w][IdOf(v)] = v
                      /\ \/ \E t \in timers : t.worker = w /\ t.ver = v
                         \/ \E d \in deliveries : d.worker = w /\ d.ver = v
    BY DEF HeldIsScheduled
  <2>1. Orderly
    BY DEF IInv, OrderInv
  <2> QED BY <2>1 DEF Orderly
<1> QED BY <1>1, Invariance, PTL

\* When each id is scheduled once, no message is acknowledged twice: the broker
\* never closes the channel of a worker.
THEOREM ChannelStaysOpen == Spec => []ChannelSurvives
<1>1. IInv => ChannelSurvives
  BY DEF IInv, OrderInv, Orderly, ChannelSurvives
<1> QED BY <1>1, Invariance, PTL

\* When each id is scheduled once, and setTimeout can hold the delays, no event
\* is published before its notBefore.
THEOREM NoEarlyDelivery == DelaysFit => (Spec => [](IdsUnique => NeverEarly))
<1> SUFFICES ASSUME DelaysFit PROVE Spec => [](IdsUnique => NeverEarly)
  OBVIOUS
<1>1. IInv => (IdsUnique => NeverEarly)
  BY DEF IInv, PunctualInv, Punctual
<1> QED BY <1>1, Invariance, PTL

-------------------------------------------------------------------------------
(* How the queue changes.                                                    *)

LEMMA WriteQueues ==
  ASSUME IInv, NEW id, NEW n, WriteSchedule(id, n)
  PROVE  /\ writes' = Append(writes, [id |-> id, notBefore |-> n])
         /\ Queued' = Queued \/ Queued' = Queued \cup {Len(writes) + 1}
         /\ now' = now /\ delivered' = delivered
<1> DEFINE v == Len(writes) + 1
<1>1. /\ writes' = Append(writes, [id |-> id, notBefore |-> n])
      /\ now' = now /\ delivered' = delivered /\ acked' = acked
      /\ queue' = queue \/ queue' = Append(queue, v)
  BY DEF WriteSchedule
<1>2. v \in Nat /\ v \notin DOMAIN writes /\ v \notin acked
  <2>1. Len(writes) \in Nat /\ DOMAIN writes = 1 .. Len(writes)
    BY DEF IInv, TypeOK
  <2>2. v \in Nat /\ v \notin DOMAIN writes
    BY <2>1
  <2> QED BY <2>2 DEF IInv, TypeOK
<1> HIDE DEF v
<1>3. Arrived' = Arrived \/ Arrived' = Arrived \cup {v}
  <2>1. queue \in Seq(DOMAIN writes \cup {v})
    BY DEF IInv, TypeOK
  <2>2. CASE queue' = Append(queue, v)
    BY <2>1, <2>2, QueueGrows
  <2>3. CASE queue' = queue
    BY <2>3 DEF Arrived
  <2> QED BY <1>1, <2>2, <2>3
<1>4. Queued = Arrived \ acked /\ Queued' = Arrived' \ acked'
  BY DEF Queued, Arrived
<1>5. Queued' = Queued \/ Queued' = Queued \cup {v}
  BY <1>1, <1>2, <1>3, <1>4
<1> QED BY <1>1, <1>5 DEF v

LEMMA LandQueues ==
  ASSUME IInv, LandLate
  PROVE  /\ now' = now /\ writes' = writes
         /\ \/ /\ delivered' = delivered
               /\ \E v \in DOMAIN writes : Queued' = Queued \cup {v}
            \/ /\ Queued' = Queued
               /\ \E m \in late : m.kind = "target" /\ delivered' = delivered \cup {m.ver}
<1>1. PICK m \in late :
        /\ \/ m.kind = "schedule" /\ queue' = Append(queue, m.ver) /\ delivered' = delivered
           \/ m.kind # "schedule" /\ delivered' = delivered \cup {m.ver} /\ queue' = queue
        /\ UNCHANGED <<now, writes, acked>>
  BY DEF LandLate, clientVars
<1>2. m.ver \in DOMAIN writes /\ m.kind \in {"schedule", "target"}
  BY DEF IInv, TypeOK
<1>3. CASE m.kind = "schedule"
  <2>1. queue \in Seq(DOMAIN writes) /\ queue' = Append(queue, m.ver)
    BY <1>1, <1>3 DEF IInv, TypeOK
  <2>2. Arrived' = Arrived \cup {m.ver}
    BY <1>2, <2>1, QueueGrows
  <2>3. m.ver \notin acked
    BY <1>3 DEF IInv, QueueInv
  <2>4. Queued' = Queued \cup {m.ver}
    <3>1. Queued = Arrived \ acked /\ Queued' = Arrived' \ acked'
      BY DEF Queued, Arrived
    <3> QED BY <1>1, <2>2, <2>3, <3>1
  <2> QED BY <1>1, <1>2, <1>3, <2>4
<1>4. CASE m.kind = "target"
  <2>1. Queued' = Queued
    BY <1>1, <1>4 DEF Queued
  <2> QED BY <1>1, <1>2, <1>4, <2>1
<1> QED BY <1>2, <1>3, <1>4

LEMMA ConfirmQueues ==
  ASSUME IInv, NEW d \in deliveries, Confirm(d)
  PROVE  /\ UNCHANGED <<now, writes, delivered>>
         /\ d.ver \in delivered /\ d.ver \in DOMAIN writes
         /\ Queued' = Queued \/ Queued' = Queued \ {d.ver}
<1>1. /\ d.step = "confirming" /\ queue' = queue
      /\ acked' = acked \cup (held[d.worker] \cap {d.ver})
      /\ UNCHANGED <<now, writes, delivered>>
  BY DEF Confirm, Ack, clientVars
<1>2. d.ver \in delivered /\ d.ver \in DOMAIN writes
  BY <1>1, DeliveryTypes DEF IInv, ConfirmInv
<1>3. Queued' = Queued \/ Queued' = Queued \ {d.ver}
  BY <1>1 DEF Queued
<1> QED BY <1>1, <1>2, <1>3

LEMMA ConsumeQueues ==
  ASSUME IInv, NEW w \in Workers, Consume(w)
  PROVE  /\ UNCHANGED <<now, writes, delivered>>
         /\ Queued' \subseteq Queued
         /\ \A u \in Queued \ Queued' : \E v \in Queued' : IdOf(u) = IdOf(v)
         /\ IdsUnique => Queued' = Queued
<1>1. PICK v \in Nat, old \in Nat :
        /\ v \in Queued /\ v \in DOMAIN writes
        /\ \A u \in Workers : v \notin held[u]
        /\ old # 0 => old \in held[w] /\ IdOf(old) = IdOf(v) /\ old # v
        /\ Ack(w, old, held[w] \cup {v})
        /\ scheduled' = [scheduled EXCEPT ![w][IdOf(v)] = v]
        /\ timers' = Arm(w, v, writes[v].notBefore, Disarm(w, old, timers))
        /\ HeldInv' /\ Queued' = Queued \ {old}
  BY ConsumeChanges
<1>2. 0 \notin Queued /\ held[w] \subseteq DOMAIN writes
  BY QueueTypes, WriteTypes DEF IInv
<1>3. UNCHANGED <<now, writes, delivered>>
  BY DEF Consume, clientVars
<1>4. IdsUnique => old = 0
  BY <1>1, <1>2 DEF IdsUnique
<1> QED BY <1>1, <1>2, <1>3, <1>4

\* A step that is none of these leaves the queue alone.
LEMMA RestQueues ==
  ASSUME \/ \E w \in Workers : Start(w) \/ Fire(w) \/ Stop(w) \/ ChannelError(w)
         \/ \E d \in deliveries : PublishFails(d) \/ Rearm(d)
         \/ UNCHANGED vars
  PROVE  UNCHANGED <<now, writes, delivered, Queued>>
<1>1. UNCHANGED <<now, writes, delivered, queue, acked>>
  BY DEF Start, Fire, Stop, ChannelError, PublishFails, Rearm, vars, clientVars, brokerVars
<1> QED BY <1>1 DEF Queued

\* A message leaves the queue only when its event has been delivered, or when
\* another schedule for the same id stays, even when ids are reused.
THEOREM AcknowledgementsAreEarned == Spec => AcksAreEarned
<1> DEFINE Earned == \A v \in Queued \ Queued' :
                       v \in delivered \/ \E u \in Queued' : IdOf(u) = IdOf(v)
<1>1. ASSUME IInv, [Next]_vars PROVE Earned
  <2>1. CASE PublishLater \/ RetryLater
    <3>1. PICK id, n : WriteSchedule(id, n)
      BY <2>1 DEF PublishLater, RetryLater
    <3> QED BY <1>1, <3>1, WriteQueues
  <2>2. CASE LandLate
    BY <1>1, <2>2, LandQueues
  <2>3. CASE Tick
    BY <2>3 DEF Tick, brokerVars, Queued
  <2>4. ASSUME NEW w \in Workers, Consume(w) PROVE Earned
    BY <1>1, <2>4, ConsumeQueues
  <2>5. ASSUME NEW d \in deliveries, Publishes(d) PROVE Earned
    BY <2>5 DEF Publishes, Queued
  <2>6. ASSUME NEW d \in deliveries, Confirm(d) PROVE Earned
    BY <1>1, <2>6, ConfirmQueues
  <2>7. CASE \/ \E w \in Workers : Start(w) \/ Fire(w) \/ Stop(w) \/ ChannelError(w)
             \/ \E d \in deliveries : PublishFails(d) \/ Rearm(d)
             \/ UNCHANGED vars
    BY <2>7, RestQueues
  <2> QED BY <1>1, <2>1, <2>2, <2>3, <2>4, <2>5, <2>6, <2>7 DEF Next
<1>2. IInv /\ [Next]_vars => [Earned]_vars
  BY <1>1
<1> QED BY <1>2, Invariance, PTL DEF Spec, AcksAreEarned

-------------------------------------------------------------------------------
(* The scheduler implements the promise of PubSubScheduler.                  *)

\* Under unique ids, storing a request replaces no other.
LEMMA ReplacesNothing ==
  ASSUME NEW ws, NEW v, NEW S, v \in DOMAIN ws, S \subseteq DOMAIN ws,
         \A x, y \in DOMAIN ws : ws[x].id = ws[y].id => x = y
  PROVE  Promise!Replace(S, ws, v) = S \cup {v}
BY DEF Promise!Replace

LEMMA StepKeepsPromise ==
  ASSUME IInv, DelaysFit, IdsUnique', [Next]_vars
  PROVE  [Promise!Next]_(Promise!vars)
<1>1. CASE PublishLater \/ RetryLater
  <2>1. PICK id \in Ids, n \in NotBefores : WriteSchedule(id, n)
    <3>1. \A v \in delivered : IdOf(v) \in Ids
      BY WriteTypes DEF IInv, TypeOK
    <3> QED BY <1>1, <3>1 DEF PublishLater, RetryLater
  <2> DEFINE x == [id |-> id, notBefore |-> n]
             v == Len(writes) + 1
  <2>2. /\ writes' = Append(writes, x) /\ now' = now /\ delivered' = delivered
        /\ Queued' = Queued \/ Queued' = Queued \cup {v}
    BY <2>1, WriteQueues
  <2>3. /\ x \in Write
        /\ DOMAIN writes' = DOMAIN writes \cup {v} /\ Len(writes') = v
    <3>1. x \in Write
      BY SetsAssumption DEF Write
    <3>2. Len(writes') = v
      BY <2>2 DEF IInv, TypeOK
    <3> QED BY <2>2, <3>1, <3>2, WritesGrow DEF IInv, TypeOK
  <2>4. Queued' = Queued \/ Queued' = Promise!Replace(Queued, writes', Len(writes'))
    <3>1. Queued \subseteq DOMAIN writes'
      BY <2>3, QueueTypes DEF IInv
    <3>2. \A a, b \in DOMAIN writes' : writes'[a].id = writes'[b].id => a = b
      BY DEF IdsUnique, IdOf
    <3>3. Promise!Replace(Queued, writes', v) = Queued \cup {v}
      BY <2>3, <3>1, <3>2, ReplacesNothing
    <3> QED BY <2>2, <2>3, <3>3
  <2>5. Promise!Request(id, n)
    BY <2>2, <2>4 DEF Promise!Request
  <2> QED BY <2>1, <2>5 DEF Promise!Next
<1>2. CASE writes' = writes
  <2>1. IdsUnique /\ Orderly /\ Punctual
    BY <1>2, SameWrites DEF IInv, OrderInv, PunctualInv
  <2>2. \A a, b \in DOMAIN writes : writes[a].id = writes[b].id => a = b
    BY <2>1 DEF IdsUnique, IdOf
  <2>3. CASE LandLate
    <3>1. CASE \E v \in DOMAIN writes : Queued' = Queued \cup {v} /\ delivered' = delivered
      <4>1. PICK v \in DOMAIN writes : Queued' = Queued \cup {v} /\ delivered' = delivered
        BY <3>1
      <4>2. Promise!Replace(Queued, writes, v) = Queued \cup {v}
        BY <2>2, QueueTypes, ReplacesNothing DEF IInv
      <4>3. Promise!Store(v)
        BY <1>2, <2>3, <4>1, <4>2, LandQueues DEF Promise!Store
      <4> QED BY <4>3 DEF Promise!Next
    <3>2. CASE \E m \in late : m.kind = "target" /\ delivered' = delivered \cup {m.ver}
                               /\ Queued' = Queued
      <4>1. PICK m \in late : m.kind = "target" /\ delivered' = delivered \cup {m.ver}
                              /\ Queued' = Queued
        BY <3>2
      <4>2. m.ver \in DOMAIN writes /\ now' = now
        BY <2>3, LandQueues DEF IInv, TypeOK
      <4>3. CASE m.ver \in Queued
        <5>1. Promise!Deliver(m.ver)
          BY <1>2, <2>1, <4>1, <4>2, <4>3 DEF Promise!Deliver, Punctual
        <5> QED BY <4>2, <5>1 DEF Promise!Next
      <4>4. CASE m.ver \notin Queued
        BY <1>2, <2>1, <4>1, <4>2, <4>4 DEF Punctual, Promise!vars
      <4> QED BY <4>3, <4>4
    <3> QED BY <2>3, <3>1, <3>2, LandQueues
  <2>4. CASE Tick
    BY <2>4 DEF Tick, clientVars, brokerVars, Queued, Promise!Next, Promise!Tick
  <2>5. ASSUME NEW w \in Workers, Consume(w) PROVE UNCHANGED Promise!vars
    BY <1>2, <2>1, <2>5, ConsumeQueues DEF Promise!vars
  <2>6. ASSUME NEW d \in deliveries, Publishes(d) PROVE Promise!Next
    <3>1. d.ver \in Queued /\ d.ver \in DOMAIN writes
      BY <2>1, DeliveryTypes DEF Orderly, IInv, HeldInv
    <3>2. Promise!Deliver(d.ver)
      BY <1>2, <2>1, <2>6, <3>1 DEF Publishes, clientVars, Queued, Punctual, Promise!Deliver
    <3> QED BY <3>1, <3>2 DEF Promise!Next
  <2>7. ASSUME NEW d \in deliveries, Confirm(d) PROVE [Promise!Next]_(Promise!vars)
    <3>1. CASE d.ver \in Queued /\ Queued' = Queued \ {d.ver}
      <4>1. Promise!Retire(d.ver)
        BY <2>7, <3>1, ConfirmQueues DEF Promise!Retire
      <4> QED BY <2>7, <4>1, ConfirmQueues DEF Promise!Next
    <3>2. CASE Queued' = Queued
      BY <2>7, <3>2, ConfirmQueues DEF Promise!vars
    <3> QED BY <2>7, <3>1, <3>2, ConfirmQueues
  <2>8. CASE \/ \E w \in Workers : Start(w) \/ Fire(w) \/ Stop(w) \/ ChannelError(w)
             \/ \E d \in deliveries : PublishFails(d) \/ Rearm(d)
             \/ UNCHANGED vars
    BY <2>8, RestQueues DEF Promise!vars
  <2> QED BY <1>1, <2>3, <2>4, <2>5, <2>6, <2>7, <2>8 DEF Next
<1>3. writes' = writes \/ PublishLater \/ RetryLater
  BY RestQueues, LandQueues, ConsumeQueues, ConfirmQueues
  DEF Next, Tick, Publishes, clientVars
<1> QED BY <1>1, <1>2, <1>3

\* When setTimeout can hold the delays, the scheduler implements the promise of
\* PubSubScheduler as long as each id is scheduled once: what is stored is
\* delivered no earlier than asked, and stays stored until it is delivered.
THEOREM ImplementsPromise == DelaysFit => (Spec => KeepsPromise)
<1> SUFFICES ASSUME DelaysFit PROVE Spec => KeepsPromise
  OBVIOUS
<1>1. Init => Promise!Init
  BY DEF Init, Promise!Init, Queued
<1>2. IInv /\ [Next]_vars => (IdsUnique' => [Promise!Next]_(Promise!vars))
  BY StepKeepsPromise
<1> QED BY <1>1, <1>2, Invariance, PTL DEF Spec, KeepsPromise

=============================================================================
