------------------------- MODULE NatsSchedulerProofs -------------------------
(***************************************************************************)
(* Theorems about NatsScheduler, for every set of ids and workers and      *)
(* every value of the bounds.                                              *)
(***************************************************************************)
EXTENDS NatsScheduler, SequenceTheorems, TLAPS

(***************************************************************************)
(* The inductive invariant: what each stage of a schedule knows. The last  *)
(* part has the premise that ids are scheduled once and never retried.     *)
(***************************************************************************)

\* The event of v, or of another schedule of its id, is in the target subject.
Out(v) == \E u \in delivered : IdOf(u) = IdOf(v)

\* What a request is about is still in the bucket, or is delivered.
Covered(v) == kv[IdOf(v)] = v \/ v \in delivered

KeyInv == \A id \in Ids : kv[id] # 0 => IdOf(kv[id]) = id

\* A put that is late has an error for its caller; one that is not is in the
\* bucket, unless another one or a delivery has taken its place.
ClientInv ==
  /\ \A r \in late : r.kind = "put" => r.ver \notin calls \cup accepted
  /\ \A v \in calls \cup accepted : kv[IdOf(v)] # 0 \/ Out(v)

\* The target stream remembers events that it has.
RecentInv == \A p \in recent : \E u \in delivered : p = MsgId(u)

\* What is published was due, and what deletes a key has published.
StageInv ==
  /\ \A t \in tasks :
       /\ t.step # "checking" => writes[t.ver].notBefore <= now
       /\ t.step = "deleting" => Out(t.ver)
  /\ \A r \in late :
       /\ r.kind = "target" => writes[r.ver].notBefore <= now
       /\ r.kind = "delete" => Out(r.ver)

Once == ~ReuseIds /\ ~AllowRetries
IdsUnique == \A u, v \in DOMAIN writes : IdOf(u) = IdOf(v) => u = v
OnceInv == Once =>
  /\ IdsUnique
  /\ \A t \in tasks : t.step # "checking" => Covered(t.ver)
  /\ \A r \in late : r.kind = "target" => Covered(r.ver)

IInv ==
  /\ TypeOK /\ KeyInv /\ ClientInv /\ RecentInv /\ StageInv /\ OnceInv
  /\ StoredHasWakeup /\ NeverEarly

-------------------------------------------------------------------------------
(* Writes, requests and wake-ups.                                            *)

LEMMA WritesGrow ==
  ASSUME writes \in Seq(Write), NEW x \in Write, writes' = Append(writes, x)
  PROVE  /\ writes' \in Seq(Write)
         /\ DOMAIN writes' = DOMAIN writes \cup {Len(writes) + 1}
         /\ writes'[Len(writes) + 1] = x
         /\ \A v \in DOMAIN writes : writes'[v] = writes[v]
         /\ Len(writes) + 1 \in Nat \ {0}
         /\ Len(writes) + 1 \notin DOMAIN writes
<1> DEFINE n == Len(writes)
<1>1. n \in Nat /\ DOMAIN writes = 1 .. n
  OBVIOUS
<1>2. DOMAIN writes' = 1 .. n + 1
  OBVIOUS
<1>3. DOMAIN writes' = DOMAIN writes \cup {n + 1}
  BY <1>1, <1>2
<1> QED
  BY <1>1, <1>3

LEMMA WriteTypes ==
  ASSUME TypeOK, NEW v \in DOMAIN writes
  PROVE  /\ v \in Nat \ {0} /\ IdOf(v) \in Ids
         /\ writes[v].notBefore \in Nat /\ writes[v].attempt \in Nat
         /\ MsgId(v) \in Ids \X Nat
<1>1. writes[v] \in Write /\ v \in Nat \ {0}
  BY DEF TypeOK
<1> QED BY <1>1 DEF Write, IdOf, MsgId

LEMMA SameWrites ==
  ASSUME writes' = writes
  PROVE  /\ IdsUnique' <=> IdsUnique
         /\ \A v : IdOf(v)' = IdOf(v) /\ MsgId(v)' = MsgId(v)
BY DEF IdsUnique, IdOf, MsgId

LEMMA Spends ==
  ASSUME used \in Spent
  PROVE  /\ [used EXCEPT !.failures = @ + 1] \in Spent
         /\ [used EXCEPT !.stops = @ + 1] \in Spent
         /\ [used EXCEPT !.expiries = @ + 1] \in Spent
         /\ [used EXCEPT !.starts = @ + 1] \in Spent
         /\ used.starts \in Nat /\ used.expiries \in Nat
<1>1. /\ used.failures \in Nat /\ used.stops \in Nat
      /\ used.expiries \in Nat /\ used.starts \in Nat
  BY DEF Spent
<1> QED BY <1>1 DEF Spent

\* A request that fails may still be applied.
LEMMA FailTypes ==
  ASSUME TypeOK, NEW kind \in {"put", "wakeup", "target", "delete"},
         NEW v \in DOMAIN writes, NEW copy \in Copy, Fails(kind, v, copy)
  PROVE  /\ used' \in Spent
         /\ late' \subseteq Request /\ late \subseteq late'
         /\ \A r \in late' : r \in late \/ (r.kind = kind /\ r.ver = v)
<1>1. v \in Nat /\ [kind |-> kind, ver |-> v, copy |-> copy] \in Request
  BY WriteTypes DEF Request
<1> QED BY <1>1, Spends DEF Fails, TypeOK

LEMMA CopyTypes ==
  ASSUME TypeOK
  PROVE  /\ Callers \in Copy
         /\ \A w \in Workers : <<w, used.starts>> \in Copy
<1>1. used.starts \in Nat
  BY Spends DEF TypeOK
<1> QED BY <1>1 DEF Copy, Callers

LEMMA FreshTypes ==
  ASSUME NEW v \in Nat, NEW copy \in Copy
  PROVE  Fresh(v, copy) \in Wakeup /\ Fresh(v, copy).ver = v
BY DEF Fresh, Wakeup

\* No schedule loses its wake-up because it is returned.
LEMMA Returns ==
  ASSUME wakeups \subseteq Wakeup, NEW S \in SUBSET wakeups, NEW t \in Nat
  PROVE  /\ Return(S, t) \subseteq Wakeup
         /\ \A m \in Return(S, t) : \E n \in wakeups : n.ver = m.ver
         /\ \A m \in wakeups : \E n \in Return(S, t) : n.ver = m.ver
<1> DEFINE Back(m) == [m EXCEPT !.to = None, !.at = t]
<1>1. Return(S, t) = (wakeups \ S) \cup {Back(m) : m \in S}
  BY DEF Return
<1>2. ASSUME NEW m \in S
      PROVE  Back(m) \in Wakeup /\ Back(m).ver = m.ver
  <2>1. m \in Wakeup
    OBVIOUS
  <2> QED BY <2>1 DEF Wakeup
<1> HIDE DEF Back
<1>3. ASSUME NEW m \in wakeups PROVE \E n \in Return(S, t) : n.ver = m.ver
  <2>1. CASE m \in S
    BY <1>1, <1>2, <2>1
  <2>2. CASE m \notin S
    BY <1>1, <2>2
  <2> QED BY <2>1, <2>2
<1> QED BY <1>1, <1>2, <1>3

-------------------------------------------------------------------------------
(* What a step that adds nothing to a part of the invariant keeps.           *)

\* No step forgets a delivery.
LEMMA OutStays ==
  ASSUME writes' = writes, delivered \subseteq delivered', NEW v, Out(v)
  PROVE  Out(v)'
BY SameWrites DEF Out, IdOf

LEMMA KeyKeeps ==
  ASSUME KeyInv, writes' = writes, kv' = kv
  PROVE  KeyInv'
BY DEF KeyInv, IdOf

LEMMA ClientKeeps ==
  ASSUME ClientInv, writes' = writes, kv' = kv, delivered \subseteq delivered',
         calls' \cup accepted' \subseteq calls \cup accepted,
         \A r \in late' : r.kind = "put" => r \in late
  PROVE  ClientInv'
BY OutStays, SameWrites DEF ClientInv

LEMMA RecentKeeps ==
  ASSUME RecentInv, writes' = writes, delivered \subseteq delivered', recent' \subseteq recent
  PROVE  RecentInv'
BY SameWrites DEF RecentInv

\* No call reaches a later stage, and what is late was late or what a call was
\* waiting for.
StagesKept ==
  /\ \A t \in tasks' : t.step = "checking" \/ \E s \in tasks : s.ver = t.ver /\ s.step = t.step
  /\ \A r \in late' : r.kind \in {"target", "delete"} =>
       \/ r \in late
       \/ \E s \in tasks : s.ver = r.ver /\ s.step =
            IF r.kind = "target" THEN "publishing" ELSE "deleting"

LEMMA StageKeeps ==
  ASSUME StageInv, writes' = writes, now' = now, delivered \subseteq delivered', StagesKept
  PROVE  StageInv'
<1>1. ASSUME NEW t \in tasks', t.step # "checking"
      PROVE  writes'[t.ver].notBefore <= now' /\ (t.step = "deleting" => Out(t.ver)')
  <2>1. PICK s \in tasks : s.ver = t.ver /\ s.step = t.step
    BY <1>1 DEF StagesKept
  <2> QED BY <1>1, <2>1, OutStays DEF StageInv
<1>2. ASSUME NEW r \in late'
      PROVE  /\ r.kind = "target" => writes'[r.ver].notBefore <= now'
             /\ r.kind = "delete" => Out(r.ver)'
  <2>1. CASE r \in late
    BY <2>1, OutStays DEF StageInv
  <2>2. CASE r.kind = "target" /\ \E s \in tasks : s.ver = r.ver /\ s.step = "publishing"
    BY <2>2 DEF StageInv
  <2>3. CASE r.kind = "delete" /\ \E s \in tasks : s.ver = r.ver /\ s.step = "deleting"
    BY <2>3, OutStays DEF StageInv
  <2> QED BY <2>1, <2>2, <2>3 DEF StagesKept
<1> QED BY <1>1, <1>2 DEF StageInv

LEMMA OnceKeeps ==
  ASSUME OnceInv, writes' = writes, delivered \subseteq delivered', kv' = kv, StagesKept
  PROVE  OnceInv'
<1> SUFFICES ASSUME Once
             PROVE  /\ IdsUnique'
                    /\ \A t \in tasks' : t.step # "checking" => Covered(t.ver)'
                    /\ \A r \in late' : r.kind = "target" => Covered(r.ver)'
  BY DEF OnceInv, Once
<1>1. \A v : Covered(v) => Covered(v)'
  BY SameWrites DEF Covered
<1> QED BY <1>1, SameWrites DEF OnceInv, StagesKept

LEMMA StoredKeeps ==
  ASSUME StoredHasWakeup, writes' = writes, accepted' = accepted, kv' = kv,
         \A m \in wakeups : \E n \in wakeups' : n.ver = m.ver
  PROVE  StoredHasWakeup'
BY SameWrites DEF StoredHasWakeup

LEMMA EarlyKeeps ==
  ASSUME NeverEarly, writes' = writes, now' = now, delivered' = delivered
  PROVE  NeverEarly'
BY DEF NeverEarly

-------------------------------------------------------------------------------
(* Clients.                                                                  *)

LEMMA PutKeeps ==
  ASSUME IInv, NEW id \in Ids, NEW notBefore \in Nat, NEW attempt \in Nat,
         Put(id, notBefore, attempt),
         Once => \A u \in DOMAIN writes : IdOf(u) # id
  PROVE  IInv'
<1> DEFINE x == [id |-> id, notBefore |-> notBefore, attempt |-> attempt]
<1>1. x \in Write /\ x.id = id /\ writes' = Append(writes, x)
  BY DEF Put, Write
<1>0. PICK v \in Nat : v = Len(writes) + 1
  BY DEF IInv, TypeOK
<1>2. /\ writes' \in Seq(Write)
      /\ DOMAIN writes' = DOMAIN writes \cup {v}
      /\ writes'[v] = x
      /\ \A u \in DOMAIN writes : writes'[u] = writes[u]
      /\ v \in Nat \ {0} /\ v \notin DOMAIN writes
  BY <1>0, <1>1, WritesGrow DEF IInv, TypeOK
<1>3. IdOf(v)' = id /\ \A u \in DOMAIN writes : IdOf(u)' = IdOf(u) /\ MsgId(u)' = MsgId(u)
  BY <1>1, <1>2 DEF IdOf, MsgId
<1>4. UNCHANGED <<now, accepted, wakeups, delivered, recent, status, recovering, tasks>>
  BY DEF Put
<1>5. \/ /\ kv' = [kv EXCEPT ![id] = v] /\ calls' = calls \cup {v}
         /\ late' = late /\ used' = used
      \/ Fails("put", v, Callers) /\ kv' = kv /\ calls' = calls
  BY <1>0 DEF Put
<1> HIDE DEF x
<1>6. /\ used' \in Spent /\ late' \subseteq Request
      /\ \A r \in late' : r \in late \/ (r.kind = "put" /\ r.ver = v /\ calls' = calls)
  <2>1. [kind |-> "put", ver |-> v, copy |-> Callers] \in Request
    BY <1>2, CopyTypes DEF Request, IInv
  <2>2. late \subseteq Request /\ used \in Spent
    BY DEF IInv, TypeOK
  <2>3. CASE Fails("put", v, Callers) /\ calls' = calls
    <3>1. /\ used' = [used EXCEPT !.failures = @ + 1]
          /\ late' = late \cup {[kind |-> "put", ver |-> v, copy |-> Callers]}
      BY <2>3 DEF Fails
    <3> QED BY <2>1, <2>2, <2>3, <3>1, Spends
  <2> QED BY <1>5, <2>2, <2>3
<1>7. /\ kv' \in [Ids -> {0} \cup DOMAIN writes']
      /\ \A i \in Ids : kv'[i] = kv[i] \/ (i = id /\ kv'[i] = v)
      /\ calls' = calls \/ (calls' = calls \cup {v} /\ kv'[id] = v)
  BY <1>2, <1>5 DEF IInv, TypeOK
<1>8. /\ calls \subseteq DOMAIN writes /\ accepted \subseteq DOMAIN writes
      /\ delivered \subseteq DOMAIN writes
      /\ \A m \in wakeups \cup tasks \cup late : m.ver \in DOMAIN writes
      /\ \A i \in Ids : kv[i] # 0 => kv[i] \in DOMAIN writes
      /\ \A u \in DOMAIN writes : IdOf(u) \in Ids
  BY WriteTypes DEF IInv, TypeOK
<1>9. \A u \in DOMAIN writes : Out(u) => Out(u)'
  BY <1>3, <1>4, <1>8 DEF Out
<1>10. TypeOK'
  <2>1. \A m \in wakeups' \cup tasks' \cup late' : m.ver \in DOMAIN writes'
    BY <1>2, <1>4, <1>6, <1>8
  <2>2. calls' \subseteq DOMAIN writes' /\ accepted' \subseteq DOMAIN writes'
        /\ delivered' \subseteq DOMAIN writes'
    BY <1>2, <1>4, <1>7, <1>8
  <2>3. \A w \in Workers : recovering'[w].sending \subseteq DOMAIN writes'
    BY <1>2, <1>4 DEF IInv, TypeOK
  <2> QED BY <1>2, <1>4, <1>6, <1>7, <2>1, <2>2, <2>3 DEF IInv, TypeOK
<1>11. KeyInv'
  <2> SUFFICES ASSUME NEW i \in Ids, kv'[i] # 0 PROVE writes'[kv'[i]].id = i
    BY DEF KeyInv, IdOf
  <2>1. CASE kv'[i] = kv[i]
    <3>1. kv[i] \in DOMAIN writes /\ writes[kv[i]].id = i
      BY <1>8, <2>1 DEF IInv, KeyInv, IdOf
    <3> QED BY <1>2, <2>1, <3>1
  <2>2. CASE i = id /\ kv'[i] = v
    BY <1>1, <1>2, <2>2
  <2> QED BY <1>7, <2>1, <2>2
<1>12. ClientInv'
  <2>1. ASSUME NEW r \in late', r.kind = "put" PROVE r.ver \notin calls' \cup accepted'
    BY <1>2, <1>4, <1>6, <1>7, <1>8, <2>1 DEF IInv, ClientInv
  <2>2. ASSUME NEW u \in calls' \cup accepted' PROVE kv'[IdOf(u)'] # 0 \/ Out(u)'
    <3>1. CASE u \in calls \cup accepted
      <4>1. u \in DOMAIN writes /\ IdOf(u)' = IdOf(u) /\ IdOf(u) \in Ids
        BY <1>3, <1>8, <3>1
      <4>2. kv[IdOf(u)] # 0 \/ Out(u)
        BY <3>1 DEF IInv, ClientInv
      <4> QED BY <1>2, <1>7, <1>9, <4>1, <4>2
    <3>2. CASE u = v /\ kv'[id] = v
      BY <1>2, <1>3, <3>2
    <3> QED BY <1>4, <1>7, <2>2, <3>1, <3>2
  <2> QED BY <2>1, <2>2 DEF ClientInv
<1>13. RecentInv'
  BY <1>3, <1>4, <1>8 DEF IInv, RecentInv
<1>14. StageInv'
  <2>1. ASSUME NEW t \in tasks
        PROVE  /\ t.step # "checking" => writes'[t.ver].notBefore <= now
               /\ t.step = "deleting" => Out(t.ver)'
    BY <1>2, <1>8, <1>9 DEF IInv, StageInv
  <2>2. ASSUME NEW r \in late
        PROVE  /\ r.kind = "target" => writes'[r.ver].notBefore <= now
               /\ r.kind = "delete" => Out(r.ver)'
    BY <1>2, <1>8, <1>9 DEF IInv, StageInv
  <2> QED BY <1>4, <1>6, <2>1, <2>2 DEF StageInv
<1>16. OnceInv'
  <2> SUFFICES ASSUME Once
               PROVE  /\ IdsUnique'
                      /\ \A t \in tasks' : t.step # "checking" => Covered(t.ver)'
                      /\ \A r \in late' : r.kind = "target" => Covered(r.ver)'
    BY DEF OnceInv, Once
  <2>1. /\ IdsUnique
        /\ \A t \in tasks : t.step # "checking" => Covered(t.ver)
        /\ \A r \in late : r.kind = "target" => Covered(r.ver)
    BY DEF IInv, OnceInv
  <2>2. IdsUnique'
    <3> SUFFICES ASSUME NEW a \in DOMAIN writes', NEW b \in DOMAIN writes', IdOf(a)' = IdOf(b)'
                 PROVE  a = b
      BY DEF IdsUnique
    <3>1. CASE a \in DOMAIN writes /\ b \in DOMAIN writes
      BY <1>3, <2>1, <3>1 DEF IdsUnique
    <3>2. CASE a = v \/ b = v
      BY <1>2, <1>3, <3>2
    <3> QED BY <1>2, <3>1, <3>2
  <2>3. ASSUME NEW u \in DOMAIN writes, Covered(u) PROVE Covered(u)'
    <3>1. IdOf(u) \in Ids /\ IdOf(u) # id /\ IdOf(u)' = IdOf(u)
      BY <1>3, <1>8
    <3>2. kv'[IdOf(u)] = kv[IdOf(u)]
      BY <1>7, <3>1
    <3> QED BY <1>4, <2>3, <3>1, <3>2 DEF Covered
  <2> QED BY <1>4, <1>6, <1>8, <2>1, <2>2, <2>3
<1>17. StoredHasWakeup'
  <2> SUFFICES ASSUME NEW u \in accepted, kv'[IdOf(u)'] = u
               PROVE  \E m \in wakeups : m.ver = u
    BY <1>4 DEF StoredHasWakeup
  <2>1. IdOf(u)' = IdOf(u) /\ IdOf(u) \in Ids /\ u # v
    BY <1>2, <1>3, <1>8
  <2>2. kv[IdOf(u)] = u
    BY <1>7, <2>1
  <2> QED BY <2>2 DEF IInv, StoredHasWakeup
<1>18. NeverEarly'
  BY <1>2, <1>4, <1>8 DEF IInv, NeverEarly
<1> QED BY <1>10, <1>11, <1>12, <1>13, <1>14, <1>16, <1>17, <1>18 DEF IInv

LEMMA SendKeeps ==
  ASSUME IInv, NEW v \in calls, SendWakeup(v)
  PROVE  IInv'
<1>1. /\ calls' = calls \ {v}
      /\ \/ /\ wakeups' = wakeups \cup {Fresh(v, Callers)} /\ accepted' = accepted \cup {v}
            /\ late' = late /\ used' = used
         \/ Fails("wakeup", v, Callers) /\ wakeups' = wakeups /\ accepted' = accepted
      /\ UNCHANGED <<now, writes, kv, delivered, recent, status, recovering, tasks>>
  BY DEF SendWakeup
<1>2. v \in DOMAIN writes /\ v \in Nat /\ Callers \in Copy
  BY WriteTypes, CopyTypes DEF IInv, TypeOK
<1>3. Fresh(v, Callers) \in Wakeup /\ Fresh(v, Callers).ver = v
  BY <1>2, FreshTypes
<1>4. /\ used' \in Spent /\ late' \subseteq Request
      /\ \A r \in late' : r \in late \/ (r.kind = "wakeup" /\ r.ver = v)
  BY <1>1, <1>2, FailTypes DEF IInv, TypeOK
<1>5. /\ wakeups \subseteq wakeups' /\ wakeups' \subseteq wakeups \cup {Fresh(v, Callers)}
      /\ accepted' = accepted \/ (accepted' = accepted \cup {v} /\ Fresh(v, Callers) \in wakeups')
  BY <1>1
<1>6. TypeOK'
  <2>1. \A m \in wakeups' \cup tasks' \cup late' : m.ver \in DOMAIN writes'
    BY <1>1, <1>2, <1>3, <1>4, <1>5 DEF IInv, TypeOK
  <2>2. wakeups' \subseteq Wakeup /\ calls' \subseteq DOMAIN writes'
        /\ accepted' \subseteq DOMAIN writes'
    BY <1>1, <1>2, <1>3, <1>5 DEF IInv, TypeOK
  <2> QED BY <1>1, <1>4, <2>1, <2>2 DEF IInv, TypeOK
<1>7. StagesKept
  BY <1>1, <1>4 DEF StagesKept
<1>8. calls' \cup accepted' \subseteq calls \cup accepted
  BY <1>1
<1>9. KeyInv' /\ ClientInv' /\ RecentInv' /\ StageInv' /\ OnceInv' /\ NeverEarly'
  BY <1>1, <1>4, <1>7, <1>8, KeyKeeps, ClientKeeps, RecentKeeps, StageKeeps, OnceKeeps, EarlyKeeps
  DEF IInv
<1>10. StoredHasWakeup'
  BY <1>1, <1>3, <1>5, SameWrites DEF IInv, StoredHasWakeup
<1> QED BY <1>6, <1>9, <1>10 DEF IInv

-------------------------------------------------------------------------------
(* The clock and the broker.                                                 *)

LEMMA TickKeeps ==
  ASSUME IInv, Tick
  PROVE  IInv'
<1>1. /\ now' = now + 1 /\ now \in Nat /\ now' \in Nat
      /\ UNCHANGED <<writes, calls, accepted, kv, wakeups, delivered, recent, late, status,
                     recovering, tasks, used>>
  BY DEF Tick, clientVars, brokerVars, IInv, TypeOK
<1>2. \A v \in DOMAIN writes : writes[v].notBefore <= now => writes'[v].notBefore <= now'
  BY <1>1, WriteTypes DEF IInv
<1>3. TypeOK'
  BY <1>1 DEF IInv, TypeOK
<1>4. StagesKept
  BY <1>1 DEF StagesKept
<1>5. KeyInv' /\ ClientInv' /\ RecentInv' /\ OnceInv' /\ StoredHasWakeup'
  BY <1>1, <1>4, KeyKeeps, ClientKeeps, RecentKeeps, OnceKeeps, StoredKeeps DEF IInv
<1>6. StageInv' /\ NeverEarly'
  <2>1. \A v : Out(v) => Out(v)'
    BY <1>1, OutStays
  <2>2. /\ \A m \in tasks \cup late : m.ver \in DOMAIN writes
        /\ delivered \subseteq DOMAIN writes
    BY DEF IInv, TypeOK
  <2>3. StageInv'
    BY <1>1, <1>2, <2>1, <2>2 DEF IInv, StageInv
  <2>4. NeverEarly'
    BY <1>1, <1>2, <2>2 DEF IInv, NeverEarly
  <2> QED BY <2>3, <2>4
<1> QED BY <1>3, <1>5, <1>6 DEF IInv

LEMMA ForgetKeeps ==
  ASSUME IInv, Forget
  PROVE  IInv'
<1>1. /\ recent' = {}
      /\ UNCHANGED <<now, writes, calls, accepted, kv, wakeups, delivered, late, status,
                     recovering, tasks, used>>
  BY DEF Forget, clientVars
<1>2. TypeOK'
  BY <1>1 DEF IInv, TypeOK
<1>3. StagesKept
  BY <1>1 DEF StagesKept
<1>4. KeyInv' /\ ClientInv' /\ RecentInv' /\ OnceInv' /\ StoredHasWakeup'
  BY <1>1, <1>3, KeyKeeps, ClientKeeps, RecentKeeps, OnceKeeps, StoredKeeps DEF IInv
<1>5. StageInv' /\ NeverEarly'
  BY <1>1, <1>3, StageKeeps, EarlyKeeps DEF IInv
<1> QED BY <1>2, <1>4, <1>5 DEF IInv

LEMMA AckWaitKeeps ==
  ASSUME IInv, NEW m \in wakeups, AckWait(m)
  PROVE  IInv'
<1>1. /\ wakeups' = Return({m}, 0)
      /\ used' = used \/ used' = [used EXCEPT !.expiries = @ + 1]
      /\ UNCHANGED <<now, writes, calls, accepted, kv, delivered, recent, late, status,
                     recovering, tasks>>
  BY DEF AckWait, clientVars
<1>2. /\ wakeups' \subseteq Wakeup
      /\ \A n \in wakeups' : \E k \in wakeups : k.ver = n.ver
      /\ \A n \in wakeups : \E k \in wakeups' : k.ver = n.ver
  <2>1. {m} \in SUBSET wakeups /\ wakeups \subseteq Wakeup
    BY DEF IInv, TypeOK
  <2>2. /\ Return({m}, 0) \subseteq Wakeup
        /\ \A n \in Return({m}, 0) : \E k \in wakeups : k.ver = n.ver
        /\ \A n \in wakeups : \E k \in Return({m}, 0) : k.ver = n.ver
    BY <2>1, Returns
  <2> QED BY <1>1, <2>2
<1>3. TypeOK'
  <2>1. \A n \in wakeups' : n.ver \in DOMAIN writes
    BY <1>2 DEF IInv, TypeOK
  <2>2. used' \in Spent
    BY <1>1, Spends DEF IInv, TypeOK
  <2> QED BY <1>1, <1>2, <2>1, <2>2 DEF IInv, TypeOK
<1>4. StagesKept
  BY <1>1 DEF StagesKept
<1>5. KeyInv' /\ ClientInv' /\ RecentInv' /\ StageInv' /\ OnceInv' /\ NeverEarly'
  BY <1>1, <1>4, KeyKeeps, ClientKeeps, RecentKeeps, StageKeeps, OnceKeeps, EarlyKeeps DEF IInv
<1>6. StoredHasWakeup'
  BY <1>1, <1>2, StoredKeeps DEF IInv
<1> QED BY <1>3, <1>5, <1>6 DEF IInv

\* The target subject takes the event of v, or has that of another schedule
\* with its message id.
LEMMA Stores ==
  ASSUME TypeOK, RecentInv, NeverEarly, NEW v \in DOMAIN writes, StoreTarget(v),
         writes' = writes, now' = now, writes[v].notBefore <= now
  PROVE  /\ delivered \subseteq delivered' /\ delivered' \subseteq delivered \cup {v}
         /\ delivered' \subseteq DOMAIN writes
         /\ recent' \subseteq Ids \X Nat
         /\ RecentInv' /\ NeverEarly' /\ Out(v)'
         /\ IdsUnique => v \in delivered'
<1>1. /\ recent' = recent \cup {MsgId(v)}
      /\ \/ MsgId(v) \in recent /\ delivered' = delivered
         \/ delivered' = delivered \cup {v}
  BY DEF StoreTarget
<1>2. delivered \subseteq DOMAIN writes /\ recent \subseteq Ids \X Nat /\ MsgId(v) \in Ids \X Nat
  BY WriteTypes DEF TypeOK
<1>3. PICK u \in delivered' : MsgId(u) = MsgId(v) /\ (v \in delivered' \/ u \in delivered)
  BY <1>1 DEF RecentInv
<1>4. IdOf(u) = IdOf(v) /\ u \in DOMAIN writes
  BY <1>1, <1>2, <1>3 DEF MsgId
<1>5. RecentInv'
  <2> SUFFICES ASSUME NEW p \in recent' PROVE \E y \in delivered' : p = MsgId(y)
    BY SameWrites DEF RecentInv
  <2>1. CASE p \in recent
    BY <1>1, <2>1 DEF RecentInv
  <2>2. CASE p = MsgId(v)
    BY <1>3, <2>2
  <2> QED BY <1>1, <2>1, <2>2
<1>6. NeverEarly'
  BY <1>1 DEF NeverEarly
<1>7. Out(v)'
  BY <1>3, <1>4, SameWrites DEF Out
<1>8. IdsUnique => v \in delivered'
  BY <1>3, <1>4 DEF IdsUnique
<1> QED BY <1>1, <1>2, <1>5, <1>6, <1>7, <1>8

\* A key is deleted once an event of its id is out.
LEMMA DeletesKey ==
  ASSUME TypeOK, KeyInv, ClientInv, StoredHasWakeup, OnceInv, StagesKept,
         NEW v \in DOMAIN writes, Out(v), DeleteKey(v),
         UNCHANGED <<writes, calls, accepted, delivered>>, late' \subseteq late,
         \A m \in wakeups : m \in wakeups' \/ m.ver = v
  PROVE  /\ kv' \in [Ids -> {0} \cup DOMAIN writes]
         /\ KeyInv' /\ ClientInv' /\ StoredHasWakeup' /\ OnceInv'
<1>1. /\ kv' \in [Ids -> {0} \cup DOMAIN writes]
      /\ IdOf(v) \in Ids /\ kv'[IdOf(v)] = 0
      /\ \A id \in Ids : id # IdOf(v) => kv'[id] = kv[id]
  BY WriteTypes DEF DeleteKey, TypeOK
<1>2. \A u \in DOMAIN writes : u # 0 /\ IdOf(u) \in Ids
  BY WriteTypes
<1>3. calls \subseteq DOMAIN writes /\ accepted \subseteq DOMAIN writes
      /\ delivered \subseteq DOMAIN writes
      /\ \A m \in tasks \cup late : m.ver \in DOMAIN writes
  BY DEF TypeOK
<1>4. KeyInv'
  <2> SUFFICES ASSUME NEW id \in Ids, kv'[id] # 0 PROVE writes'[kv'[id]].id = id
    BY DEF KeyInv, IdOf
  <2>1. kv'[id] = kv[id]
    BY <1>1
  <2> QED BY <2>1 DEF KeyInv, IdOf
<1>5. ClientInv'
  <2>1. \A r \in late' : r.kind = "put" => r.ver \notin calls' \cup accepted'
    BY DEF ClientInv
  <2>2. ASSUME NEW u \in calls \cup accepted PROVE kv'[IdOf(u)] # 0 \/ Out(u)'
    <3>1. CASE IdOf(u) = IdOf(v)
      <4>1. Out(u)
        BY <3>1 DEF Out
      <4> QED BY <4>1, OutStays
    <3>2. CASE IdOf(u) # IdOf(v)
      <4>1. kv'[IdOf(u)] = kv[IdOf(u)]
        BY <1>1, <1>2, <1>3, <3>2
      <4> QED BY <4>1, OutStays DEF ClientInv
    <3> QED BY <3>1, <3>2
  <2> QED BY <2>1, <2>2, SameWrites DEF ClientInv
<1>6. StoredHasWakeup'
  <2> SUFFICES ASSUME NEW u \in accepted, kv'[IdOf(u)] = u
               PROVE  \E m \in wakeups' : m.ver = u
    BY SameWrites DEF StoredHasWakeup
  <2>1. IdOf(u) # IdOf(v) /\ kv[IdOf(u)] = u
    BY <1>1, <1>2, <1>3
  <2>2. PICK m \in wakeups : m.ver = u
    BY <2>1 DEF StoredHasWakeup
  <2> QED BY <2>1, <2>2
<1>7. OnceInv'
  <2> SUFFICES ASSUME Once
               PROVE  /\ IdsUnique'
                      /\ \A t \in tasks' : t.step # "checking" => Covered(t.ver)'
                      /\ \A r \in late' : r.kind = "target" => Covered(r.ver)'
    BY DEF OnceInv, Once
  <2>1. /\ IdsUnique
        /\ \A t \in tasks : t.step # "checking" => Covered(t.ver)
        /\ \A r \in late : r.kind = "target" => Covered(r.ver)
    BY DEF OnceInv
  <2>2. v \in delivered
    BY <1>3, <2>1 DEF Out, IdsUnique
  <2>3. ASSUME NEW u \in DOMAIN writes, Covered(u) PROVE Covered(u)'
    <3>1. CASE IdOf(u) = IdOf(v)
      BY <2>1, <2>2, <3>1 DEF Covered, IdsUnique
    <3>2. CASE IdOf(u) # IdOf(v)
      BY <1>1, <1>2, <2>3, <3>2, SameWrites DEF Covered
    <3> QED BY <3>1, <3>2
  <2>4. \A t \in tasks' : t.step # "checking" => Covered(t.ver)'
    BY <1>3, <2>1, <2>3 DEF StagesKept
  <2>5. \A r \in late' : r.kind = "target" => Covered(r.ver)'
    BY <1>3, <2>1, <2>3
  <2> QED BY <2>1, <2>4, <2>5, SameWrites
<1> QED BY <1>1, <1>4, <1>5, <1>6, <1>7

LEMMA LandKeeps ==
  ASSUME IInv, LandLate
  PROVE  IInv'
<1>1. PICK r \in late :
        /\ late' = late \ {r}
        /\ \/ /\ r.kind = "put" /\ kv' = [kv EXCEPT ![IdOf(r.ver)] = r.ver]
              /\ UNCHANGED <<wakeups, delivered, recent>>
           \/ /\ r.kind = "wakeup" /\ wakeups' = wakeups \cup {Fresh(r.ver, r.copy)}
              /\ UNCHANGED <<kv, delivered, recent>>
           \/ /\ r.kind = "target" /\ StoreTarget(r.ver)
              /\ UNCHANGED <<kv, wakeups>>
           \/ /\ r.kind = "delete" /\ DeleteKey(r.ver)
              /\ UNCHANGED <<wakeups, delivered, recent>>
        /\ UNCHANGED <<now, writes, calls, accepted, status, recovering, tasks, used>>
  BY DEF LandLate, clientVars
<1>2. r.ver \in DOMAIN writes /\ r.ver \in Nat /\ r.copy \in Copy
  BY WriteTypes DEF IInv, TypeOK, Request
<1>3. StagesKept /\ late' \subseteq late
  BY <1>1 DEF StagesKept
<1>4. StageInv' /\ delivered \subseteq delivered'
  <2>1. delivered \subseteq delivered'
    BY <1>1 DEF StoreTarget
  <2> QED BY <1>1, <1>3, <2>1, StageKeeps DEF IInv
<1>5. CASE r.kind = "put"
  <2>1. /\ kv' = [kv EXCEPT ![IdOf(r.ver)] = r.ver]
        /\ UNCHANGED <<now, writes, calls, accepted, wakeups, delivered, recent, status,
                       recovering, tasks, used>>
    BY <1>1, <1>5
  <2>2. /\ kv' \in [Ids -> {0} \cup DOMAIN writes]
        /\ IdOf(r.ver) \in Ids /\ kv'[IdOf(r.ver)] = r.ver /\ r.ver # 0
        /\ \A id \in Ids : id # IdOf(r.ver) => kv'[id] = kv[id]
    BY <1>2, <2>1, WriteTypes DEF IInv, TypeOK
  <2>3. TypeOK' /\ RecentInv' /\ NeverEarly'
    BY <1>3, <2>1, <2>2, RecentKeeps, EarlyKeeps DEF IInv, TypeOK
  <2>4. KeyInv'
    <3> SUFFICES ASSUME NEW id \in Ids, kv'[id] # 0 PROVE writes'[kv'[id]].id = id
      BY DEF KeyInv, IdOf
    <3>1. CASE id = IdOf(r.ver)
      BY <2>1, <2>2, <3>1 DEF IdOf
    <3>2. CASE id # IdOf(r.ver)
      BY <2>1, <2>2, <3>2 DEF IInv, KeyInv, IdOf
    <3> QED BY <3>1, <3>2
  <2>5. \A u \in calls \cup accepted : u \in DOMAIN writes /\ IdOf(u) \in Ids /\ u # r.ver
    <3>1. calls \cup accepted \subseteq DOMAIN writes
      BY DEF IInv, TypeOK
    <3> QED BY <1>5, <3>1, WriteTypes DEF IInv, ClientInv
  <2>6. ClientInv'
    <3>1. \A q \in late' : q.kind = "put" => q.ver \notin calls' \cup accepted'
      BY <1>3, <2>1 DEF IInv, ClientInv
    <3>2. ASSUME NEW u \in calls \cup accepted PROVE kv'[IdOf(u)] # 0 \/ Out(u)'
      <4>1. kv[IdOf(u)] # 0 => kv'[IdOf(u)] # 0
        BY <2>2, <2>5
      <4>2. Out(u) => Out(u)'
        BY <2>1, OutStays
      <4> QED BY <4>1, <4>2 DEF IInv, ClientInv
    <3> QED BY <2>1, <3>1, <3>2, SameWrites DEF ClientInv
  <2>7. StoredHasWakeup'
    <3> SUFFICES ASSUME NEW u \in accepted, kv'[IdOf(u)] = u
                 PROVE  \E m \in wakeups : m.ver = u
      BY <2>1, SameWrites DEF StoredHasWakeup
    <3>1. kv[IdOf(u)] = u
      BY <2>2, <2>5
    <3> QED BY <3>1 DEF IInv, StoredHasWakeup
  <2>8. OnceInv'
    <3> SUFFICES ASSUME Once
                 PROVE  /\ IdsUnique'
                        /\ \A t \in tasks : t.step # "checking" => Covered(t.ver)'
                        /\ \A q \in late : q.kind = "target" => Covered(q.ver)'
      BY <1>3, <2>1 DEF OnceInv, Once
    <3>1. /\ IdsUnique
          /\ \A t \in tasks : t.step # "checking" => Covered(t.ver)
          /\ \A q \in late : q.kind = "target" => Covered(q.ver)
      BY DEF IInv, OnceInv
    <3>2. \A m \in tasks \cup late : m.ver \in DOMAIN writes
      BY DEF IInv, TypeOK
    <3>3. ASSUME NEW u \in DOMAIN writes, Covered(u) PROVE Covered(u)'
      <4>1. IdOf(u) = IdOf(r.ver) => u = r.ver
        BY <1>2, <3>1 DEF IdsUnique
      <4>2. IdOf(u) \in Ids
        BY WriteTypes DEF IInv
      <4>3. kv[IdOf(u)] = u => kv'[IdOf(u)] = u
        BY <2>2, <4>1, <4>2
      <4> QED BY <2>1, <3>3, <4>3, SameWrites DEF Covered
    <3> QED BY <2>1, <3>1, <3>2, <3>3, SameWrites
  <2> QED BY <1>4, <2>3, <2>4, <2>6, <2>7, <2>8 DEF IInv
<1>6. CASE r.kind = "wakeup"
  <2>1. /\ wakeups' = wakeups \cup {Fresh(r.ver, r.copy)}
        /\ UNCHANGED <<now, writes, calls, accepted, kv, delivered, recent, status,
                       recovering, tasks, used>>
    BY <1>1, <1>6
  <2>2. Fresh(r.ver, r.copy) \in Wakeup /\ Fresh(r.ver, r.copy).ver = r.ver
    BY <1>2, FreshTypes
  <2>3. TypeOK'
    <3>1. wakeups' \subseteq Wakeup /\ \A m \in wakeups' : m.ver \in DOMAIN writes
      BY <1>2, <2>1, <2>2 DEF IInv, TypeOK
    <3> QED BY <1>3, <2>1, <3>1 DEF IInv, TypeOK
  <2>4. KeyInv' /\ ClientInv' /\ RecentInv' /\ OnceInv' /\ NeverEarly' /\ StoredHasWakeup'
    BY <1>3, <2>1, KeyKeeps, ClientKeeps, RecentKeeps, OnceKeeps, EarlyKeeps, StoredKeeps DEF IInv
  <2> QED BY <1>4, <2>3, <2>4 DEF IInv
<1>7. CASE r.kind = "target"
  <2>1. /\ StoreTarget(r.ver)
        /\ UNCHANGED <<now, writes, calls, accepted, kv, wakeups, status, recovering, tasks, used>>
    BY <1>1, <1>7
  <2>2. writes[r.ver].notBefore <= now
    BY <1>7 DEF IInv, StageInv
  <2>3. /\ delivered' \subseteq DOMAIN writes /\ recent' \subseteq Ids \X Nat
        /\ RecentInv' /\ NeverEarly'
    BY <1>2, <2>1, <2>2, Stores DEF IInv
  <2>4. TypeOK'
    BY <1>3, <2>1, <2>3 DEF IInv, TypeOK
  <2>5. KeyInv' /\ ClientInv' /\ OnceInv' /\ StoredHasWakeup'
    BY <1>3, <1>4, <2>1, KeyKeeps, ClientKeeps, OnceKeeps, StoredKeeps DEF IInv
  <2> QED BY <1>4, <2>3, <2>4, <2>5 DEF IInv
<1>8. CASE r.kind = "delete"
  <2>1. /\ DeleteKey(r.ver)
        /\ UNCHANGED <<now, writes, calls, accepted, wakeups, delivered, recent, status,
                       recovering, tasks, used>>
    BY <1>1, <1>8
  <2>2. Out(r.ver)
    BY <1>8 DEF IInv, StageInv
  <2>3. /\ kv' \in [Ids -> {0} \cup DOMAIN writes]
        /\ KeyInv' /\ ClientInv' /\ StoredHasWakeup' /\ OnceInv'
    BY <1>2, <1>3, <2>1, <2>2, DeletesKey DEF IInv
  <2>4. TypeOK' /\ RecentInv' /\ NeverEarly'
    BY <1>3, <2>1, <2>3, RecentKeeps, EarlyKeeps DEF IInv, TypeOK
  <2> QED BY <1>4, <2>3, <2>4 DEF IInv
<1> QED BY <1>1, <1>5, <1>6, <1>7, <1>8

-------------------------------------------------------------------------------
(* Workers that start, and the consumer.                                     *)

\* What a worker is said to recover, and what remains of it when it stops.
LEMMA RecoveryTypes ==
  ASSUME TypeOK, NEW w \in Workers, NEW r \in Recovery, r.sending \subseteq DOMAIN writes,
         recovering' = [recovering EXCEPT ![w] = r], writes' = writes
  PROVE  /\ recovering' \in [Workers -> Recovery]
         /\ \A v \in Workers : recovering'[v].sending \subseteq DOMAIN writes'
BY DEF TypeOK

LEMMA RecoveryFields ==
  ASSUME TypeOK, NEW w \in Workers
  PROVE  /\ recovering[w].start \in Nat /\ recovering[w].keys \in SUBSET Ids
         /\ recovering[w].sending \in SUBSET Nat /\ recovering[w].sending \subseteq DOMAIN writes
         /\ \A keys \in SUBSET Ids, sending \in SUBSET Nat, failed \in BOOLEAN :
              LET r == [start |-> recovering[w].start, keys |-> keys, sending |-> sending,
                        failed |-> failed]
              IN  r \in Recovery /\ r.sending = sending
         /\ recovering[w] = [start |-> recovering[w].start, keys |-> recovering[w].keys,
                             sending |-> recovering[w].sending, failed |-> recovering[w].failed]
         /\ recovering[w].failed \in BOOLEAN
         /\ CopyOf(w) \in Copy
<1>1. recovering[w] \in Recovery /\ recovering[w].sending \subseteq DOMAIN writes
  BY DEF TypeOK
<1> QED BY <1>1 DEF Recovery, CopyOf, Copy

LEMMA StartKeeps ==
  ASSUME IInv, NEW w \in Workers, Start(w)
  PROVE  IInv'
<1> DEFINE r == [start |-> used.starts + 1, keys |-> {id \in Ids : kv[id] # 0},
                 sending |-> {}, failed |-> FALSE]
<1>1. /\ status' = [status EXCEPT ![w] = "running"]
      /\ recovering' = [recovering EXCEPT ![w] = r]
      /\ used' = [used EXCEPT !.starts = @ + 1]
      /\ UNCHANGED <<now, writes, calls, accepted, kv, wakeups, delivered, recent, late, tasks>>
  BY DEF Start, clientVars, brokerVars
<1>2. r \in Recovery /\ r.sending \subseteq DOMAIN writes
  BY Spends DEF IInv, TypeOK, Recovery
<1> HIDE DEF r
<1>3. TypeOK'
  <2>1. /\ recovering' \in [Workers -> Recovery]
        /\ \A v \in Workers : recovering'[v].sending \subseteq DOMAIN writes'
    BY <1>1, <1>2, RecoveryTypes DEF IInv
  <2> QED BY <1>1, <2>1, Spends DEF IInv, TypeOK
<1>4. StagesKept
  BY <1>1 DEF StagesKept
<1>5. KeyInv' /\ ClientInv' /\ RecentInv' /\ StageInv' /\ OnceInv' /\ NeverEarly'
  BY <1>1, <1>4, KeyKeeps, ClientKeeps, RecentKeeps, StageKeeps, OnceKeeps, EarlyKeeps DEF IInv
<1>6. StoredHasWakeup'
  BY <1>1, StoredKeeps DEF IInv
<1> QED BY <1>3, <1>5, <1>6 DEF IInv

\* A worker looks at a key, or fails to.
LEMMA RecoverReadsKeeps ==
  ASSUME IInv, NEW w \in Workers, RecoverReads(w) \/ RecoverFails(w)
  PROVE  IInv'
<1>1. /\ used' = used \/ used' = [used EXCEPT !.failures = @ + 1]
      /\ UNCHANGED <<now, writes, calls, accepted, kv, wakeups, delivered, recent, late,
                     status, tasks>>
  BY DEF RecoverReads, RecoverFails, clientVars, brokerVars
<1>2. /\ recovering' \in [Workers -> Recovery]
      /\ \A v \in Workers : recovering'[v].sending \subseteq DOMAIN writes'
  <2>1. CASE RecoverReads(w)
    <3>1. PICK id \in recovering[w].keys :
            recovering' = [recovering EXCEPT ![w].keys = @ \ {id}, ![w].sending = Recovered(id)]
      BY <2>1 DEF RecoverReads
    <3> DEFINE r == [recovering[w] EXCEPT !.keys = @ \ {id}, !.sending = Recovered(id)]
    <3>2. id \in Ids /\ Recovered(id) \subseteq DOMAIN writes /\ Recovered(id) \subseteq Nat
      <4>1. id \in Ids /\ kv[id] \in {0} \cup DOMAIN writes
        BY <3>1, RecoveryFields DEF IInv, TypeOK
      <4> QED BY <4>1, WriteTypes DEF IInv, Recovered
    <3>3. recovering' = [recovering EXCEPT ![w] = r] /\ recovering[w] \in Recovery
      BY <3>1 DEF IInv, TypeOK
    <3>4. r \in Recovery /\ r.sending \subseteq DOMAIN writes
      BY <3>2, <3>3 DEF Recovery
    <3> HIDE DEF r
    <3> QED BY <1>1, <3>3, <3>4, RecoveryTypes DEF IInv
  <2>2. CASE RecoverFails(w)
    <3> DEFINE r == [recovering[w] EXCEPT !.keys = {}, !.failed = TRUE]
    <3>1. recovering' = [recovering EXCEPT ![w] = r] /\ recovering[w] \in Recovery
      BY <2>2 DEF RecoverFails, IInv, TypeOK
    <3>2. r \in Recovery /\ r.sending \subseteq DOMAIN writes
      BY <3>1, RecoveryFields DEF IInv, Recovery
    <3> HIDE DEF r
    <3> QED BY <1>1, <3>1, <3>2, RecoveryTypes DEF IInv
  <2> QED BY <2>1, <2>2
<1>3. TypeOK'
  BY <1>1, <1>2, Spends DEF IInv, TypeOK
<1>4. StagesKept
  BY <1>1 DEF StagesKept
<1>5. KeyInv' /\ ClientInv' /\ RecentInv' /\ StageInv' /\ OnceInv' /\ NeverEarly'
  BY <1>1, <1>4, KeyKeeps, ClientKeeps, RecentKeeps, StageKeeps, OnceKeeps, EarlyKeeps DEF IInv
<1>6. StoredHasWakeup'
  BY <1>1, StoredKeeps DEF IInv
<1> QED BY <1>3, <1>5, <1>6 DEF IInv

LEMMA RecoverSendsKeeps ==
  ASSUME IInv, NEW w \in Workers, RecoverSends(w)
  PROVE  IInv'
<1>0. PICK v \in recovering[w].sending :
        /\ \/ wakeups' = wakeups \cup {Fresh(v, CopyOf(w))} /\ UNCHANGED <<late, used>>
           \/ Fails("wakeup", v, CopyOf(w)) /\ UNCHANGED wakeups
        /\ recovering' = [recovering EXCEPT ![w].sending = {}]
        /\ UNCHANGED <<now, writes, calls, accepted, kv, delivered, recent, status, tasks>>
  BY DEF RecoverSends, clientVars
<1>1. PICK copy \in Copy : copy = CopyOf(w)
  BY RecoveryFields DEF IInv
<1>2. v \in Nat /\ v \in DOMAIN writes
  BY RecoveryFields DEF IInv
<1>3. Fresh(v, copy) \in Wakeup /\ Fresh(v, copy).ver = v
  BY <1>2, FreshTypes
<1>4. /\ used' \in Spent /\ late' \subseteq Request
      /\ \A r \in late' : r \in late \/ (r.kind = "wakeup" /\ r.ver \in DOMAIN writes)
  <2>1. CASE UNCHANGED <<late, used>>
    BY <2>1 DEF IInv, TypeOK
  <2>2. CASE Fails("wakeup", v, copy)
    BY <1>2, <2>2, FailTypes DEF IInv
  <2> QED BY <1>0, <1>1, <2>1, <2>2
<1>5. wakeups \subseteq wakeups' /\ wakeups' \subseteq wakeups \cup {Fresh(v, copy)}
  BY <1>0, <1>1
<1>6. TypeOK'
  <2>1. wakeups' \subseteq Wakeup
        /\ \A m \in wakeups' \cup tasks' \cup late' : m.ver \in DOMAIN writes
    BY <1>0, <1>2, <1>3, <1>4, <1>5 DEF IInv, TypeOK
  <2> DEFINE r == [recovering[w] EXCEPT !.sending = {}]
  <2>2. recovering' = [recovering EXCEPT ![w] = r] /\ recovering[w] \in Recovery
    BY <1>0 DEF IInv, TypeOK
  <2>3. r \in Recovery /\ r.sending \subseteq DOMAIN writes
    BY <2>2 DEF Recovery
  <2> HIDE DEF r
  <2>4. /\ recovering' \in [Workers -> Recovery]
        /\ \A u \in Workers : recovering'[u].sending \subseteq DOMAIN writes'
    BY <1>0, <2>2, <2>3, RecoveryTypes DEF IInv
  <2> QED BY <1>0, <1>4, <2>1, <2>4 DEF IInv, TypeOK
<1>7. StagesKept
  BY <1>0, <1>4 DEF StagesKept
<1>8. KeyInv' /\ ClientInv' /\ RecentInv' /\ StageInv' /\ OnceInv' /\ NeverEarly'
  BY <1>0, <1>4, <1>7, KeyKeeps, ClientKeeps, RecentKeeps, StageKeeps, OnceKeeps, EarlyKeeps
  DEF IInv
<1>9. StoredHasWakeup'
  BY <1>0, <1>5, StoredKeeps DEF IInv
<1> QED BY <1>6, <1>8, <1>9 DEF IInv

LEMMA ReceiveKeeps ==
  ASSUME IInv, NEW w \in Workers, Receive(w)
  PROVE  IInv'
<1>1. PICK m \in wakeups :
        /\ wakeups' = (wakeups \ {m}) \cup {[m EXCEPT !.to = w, !.seen = TRUE, !.at = 0]}
        /\ tasks' = tasks \cup {[worker |-> w, ver |-> m.ver, copy |-> m.copy,
                                 loop |-> recovering[w].start, round |-> used.expiries,
                                 step |-> "checking", settled |-> FALSE]}
        /\ UNCHANGED <<now, writes, calls, accepted, kv, delivered, recent, late, status,
                       recovering, used>>
  BY DEF Receive, clientVars
<1> DEFINE n == [m EXCEPT !.to = w, !.seen = TRUE, !.at = 0]
           t == [worker |-> w, ver |-> m.ver, copy |-> m.copy, loop |-> recovering[w].start,
                 round |-> used.expiries, step |-> "checking", settled |-> FALSE]
<1>2. /\ m \in Wakeup /\ m.ver \in DOMAIN writes
      /\ used.expiries \in Nat /\ recovering[w].start \in Nat
  BY Spends, RecoveryFields DEF IInv, TypeOK
<1>3. /\ n \in Wakeup /\ n.ver = m.ver
      /\ t \in Task /\ t.ver = m.ver /\ t.step = "checking"
  BY <1>2 DEF Wakeup, Task
<1>4. wakeups' = (wakeups \ {m}) \cup {n} /\ tasks' = tasks \cup {t}
  BY <1>1
<1> HIDE DEF n, t
<1>5. TypeOK'
  <2>1. /\ wakeups' \subseteq Wakeup /\ tasks' \subseteq Task
        /\ \A x \in wakeups' \cup tasks' \cup late' : x.ver \in DOMAIN writes
    BY <1>1, <1>2, <1>3, <1>4 DEF IInv, TypeOK
  <2> QED BY <1>1, <2>1 DEF IInv, TypeOK
<1>6. StagesKept
  BY <1>1, <1>3, <1>4 DEF StagesKept
<1>7. KeyInv' /\ ClientInv' /\ RecentInv' /\ StageInv' /\ OnceInv' /\ NeverEarly'
  BY <1>1, <1>6, KeyKeeps, ClientKeeps, RecentKeeps, StageKeeps, OnceKeeps, EarlyKeeps DEF IInv
<1>8. StoredHasWakeup'
  BY <1>1, <1>3, <1>4, StoredKeeps DEF IInv
<1> QED BY <1>5, <1>7, <1>8 DEF IInv

-------------------------------------------------------------------------------
(* Calls of #handleMessage.                                                  *)

LEMMA TaskTypes ==
  ASSUME TypeOK, NEW t \in tasks
  PROVE  /\ t \in Task /\ t.ver \in DOMAIN writes /\ t.ver \in Nat
         /\ Of(t) \in SUBSET wakeups /\ \A m \in Of(t) : m.ver = t.ver
         /\ \A step \in {"checking", "publishing", "deleting"} :
              /\ [t EXCEPT !.step = step] \in Task
              /\ [t EXCEPT !.step = step].ver = t.ver
              /\ [t EXCEPT !.step = step].step = step
<1>1. t \in Task /\ t.ver \in DOMAIN writes /\ t.ver \in Nat
  BY WriteTypes DEF TypeOK
<1>2. Of(t) \in SUBSET wakeups /\ \A m \in Of(t) : m.ver = t.ver
  BY DEF Of
<1> QED BY <1>1, <1>2 DEF Task

\* A wake-up is returned and its call ends.
LEMMA GivesBack ==
  ASSUME TypeOK, StoredHasWakeup, NEW t \in tasks, NEW at \in Nat,
         wakeups' = Return(Of(t), at), tasks' = tasks \ {t},
         UNCHANGED <<writes, accepted, kv>>
  PROVE  /\ wakeups' \subseteq Wakeup
         /\ \A m \in wakeups' \cup tasks' : m.ver \in DOMAIN writes
         /\ StoredHasWakeup'
<1>1. Of(t) \in SUBSET wakeups /\ wakeups \subseteq Wakeup
  BY TaskTypes DEF TypeOK
<1>2. /\ wakeups' \subseteq Wakeup
      /\ \A m \in wakeups' : \E n \in wakeups : n.ver = m.ver
      /\ \A m \in wakeups : \E n \in wakeups' : n.ver = m.ver
  <2>1. /\ Return(Of(t), at) \subseteq Wakeup
        /\ \A m \in Return(Of(t), at) : \E n \in wakeups : n.ver = m.ver
        /\ \A m \in wakeups : \E n \in Return(Of(t), at) : n.ver = m.ver
    BY <1>1, Returns
  <2> QED BY <2>1
<1>3. \A m \in wakeups' \cup tasks' : m.ver \in DOMAIN writes
  BY <1>2 DEF TypeOK
<1>4. StoredHasWakeup'
  BY <1>2, StoredKeeps
<1> QED BY <1>2, <1>3, <1>4

LEMMA CheckKeeps ==
  ASSUME IInv, NEW t \in tasks, Check(t)
  PROVE  IInv'
<1>1. /\ \/ /\ Stale(t.ver) /\ wakeups' = wakeups \ Of(t) /\ tasks' = tasks \ {t}
         \/ /\ wakeups' = Return(Of(t), writes[t.ver].notBefore) /\ tasks' = tasks \ {t}
         \/ /\ ~Stale(t.ver) /\ Delay(t.ver) <= 0 /\ wakeups' = wakeups
            /\ tasks' = (tasks \ {t}) \cup {[t EXCEPT !.step = "publishing"]}
      /\ UNCHANGED <<now, writes, calls, accepted, kv, delivered, recent, late, status,
                     recovering, used>>
  BY DEF Check, clientVars
<1>2. /\ t.ver \in DOMAIN writes /\ writes[t.ver].notBefore \in Nat /\ now \in Nat
  BY TaskTypes, WriteTypes DEF IInv, TypeOK
<1>3. KeyInv' /\ ClientInv' /\ RecentInv' /\ NeverEarly'
  BY <1>1, KeyKeeps, ClientKeeps, RecentKeeps, EarlyKeeps DEF IInv
<1>4. CASE Stale(t.ver) /\ wakeups' = wakeups \ Of(t) /\ tasks' = tasks \ {t}
  <2>1. TypeOK'
    BY <1>1, <1>4 DEF IInv, TypeOK
  <2>2. StagesKept
    BY <1>1, <1>4 DEF StagesKept
  <2>3. StageInv' /\ OnceInv'
    BY <1>1, <2>2, StageKeeps, OnceKeeps DEF IInv
  <2>4. StoredHasWakeup'
    <3> SUFFICES ASSUME NEW u \in accepted, kv[IdOf(u)] = u PROVE \E m \in wakeups' : m.ver = u
      BY <1>1, SameWrites DEF StoredHasWakeup
    <3>1. PICK m \in wakeups : m.ver = u
      BY DEF IInv, StoredHasWakeup
    <3>2. u # t.ver
      BY <1>4 DEF Stale
    <3> QED BY <1>4, <3>1, <3>2 DEF Of
  <2> QED BY <1>3, <2>1, <2>3, <2>4 DEF IInv
<1>5. CASE wakeups' = Return(Of(t), writes[t.ver].notBefore) /\ tasks' = tasks \ {t}
  <2>1. /\ wakeups' \subseteq Wakeup
        /\ \A m \in wakeups' \cup tasks' : m.ver \in DOMAIN writes
        /\ StoredHasWakeup'
    <3>1. PICK at \in Nat : at = writes[t.ver].notBefore
      BY <1>2
    <3> QED BY <1>1, <1>5, <3>1, GivesBack DEF IInv
  <2>2. TypeOK'
    BY <1>1, <1>5, <2>1 DEF IInv, TypeOK
  <2>3. StagesKept
    BY <1>1, <1>5 DEF StagesKept
  <2>4. StageInv' /\ OnceInv'
    BY <1>1, <2>3, StageKeeps, OnceKeeps DEF IInv
  <2> QED BY <1>3, <2>1, <2>2, <2>4 DEF IInv
<1>6. CASE /\ ~Stale(t.ver) /\ Delay(t.ver) <= 0 /\ wakeups' = wakeups
           /\ tasks' = (tasks \ {t}) \cup {[t EXCEPT !.step = "publishing"]}
  <2> DEFINE next == [t EXCEPT !.step = "publishing"]
  <2>1. next \in Task /\ next.ver = t.ver /\ next.step = "publishing" /\ tasks' = (tasks \ {t}) \cup {next}
    BY <1>6, TaskTypes DEF IInv
  <2> HIDE DEF next
  <2>3. TypeOK'
    <3>1. tasks' \subseteq Task /\ \A m \in wakeups' \cup tasks' \cup late' : m.ver \in DOMAIN writes
      BY <1>1, <1>2, <1>6, <2>1 DEF IInv, TypeOK
    <3> QED BY <1>1, <1>6, <3>1 DEF IInv, TypeOK
  <2>4. writes[t.ver].notBefore <= now /\ kv[IdOf(t.ver)] = t.ver
    <3>1. writes[t.ver].notBefore - now <= 0
      BY <1>6 DEF Delay
    <3> QED BY <1>2, <1>6, <3>1 DEF Stale
  <2>5. StageInv'
    <3>1. \A v : Out(v) => Out(v)'
      BY <1>1, OutStays
    <3> QED BY <1>1, <2>1, <2>4, <3>1 DEF IInv, StageInv
  <2>6. OnceInv'
    <3>1. \A v : Covered(v)' <=> Covered(v)
      BY <1>1, SameWrites DEF Covered
    <3>2. Covered(t.ver)
      BY <2>4 DEF Covered
    <3>3. Once' <=> Once
      BY DEF Once
    <3> QED BY <1>1, <2>1, <3>1, <3>2, <3>3, SameWrites DEF IInv, OnceInv
  <2>7. StoredHasWakeup'
    BY <1>1, <1>6, StoredKeeps DEF IInv
  <2> QED BY <1>3, <2>3, <2>5, <2>6, <2>7 DEF IInv
<1> QED BY <1>1, <1>4, <1>5, <1>6

LEMMA CheckFailsKeeps ==
  ASSUME IInv, NEW t \in tasks, CheckFails(t)
  PROVE  IInv'
<1>1. /\ tasks' = tasks \ {t}
      /\ status' = [status EXCEPT ![t.worker] = AfterRejection(t)]
      /\ used' = [used EXCEPT !.failures = @ + 1]
      /\ UNCHANGED <<now, writes, calls, accepted, kv, wakeups, delivered, recent, late, recovering>>
  BY DEF CheckFails, clientVars, brokerVars
<1>2. TypeOK'
  <2>1. t.worker \in Workers
    BY TaskTypes DEF IInv, Task
  <2>2. AfterRejection(t) \in {"down", "running", "closing", "stalled"}
    BY <2>1 DEF AfterRejection, IInv, TypeOK
  <2>3. status' \in [Workers -> {"down", "running", "closing", "stalled"}]
    BY <1>1, <2>2 DEF IInv, TypeOK
  <2> QED BY <1>1, <2>3, Spends DEF IInv, TypeOK
<1>3. StagesKept
  BY <1>1 DEF StagesKept
<1>4. KeyInv' /\ ClientInv' /\ RecentInv' /\ StageInv' /\ OnceInv' /\ NeverEarly'
  BY <1>1, <1>3, KeyKeeps, ClientKeeps, RecentKeeps, StageKeeps, OnceKeeps, EarlyKeeps DEF IInv
<1>5. StoredHasWakeup'
  BY <1>1, StoredKeeps DEF IInv
<1> QED BY <1>2, <1>4, <1>5 DEF IInv

LEMMA PublishKeeps ==
  ASSUME IInv, NEW t \in tasks, Publish(t)
  PROVE  IInv'
<1> DEFINE next == [t EXCEPT !.step = "deleting"]
<1>1. /\ t.step = "publishing" /\ StoreTarget(t.ver)
      /\ tasks' = (tasks \ {t}) \cup {[t EXCEPT !.step = "deleting"]}
      /\ UNCHANGED <<now, writes, calls, accepted, kv, wakeups, late, status, recovering, used>>
  BY DEF Publish, clientVars
<1>3. /\ t.ver \in DOMAIN writes
      /\ next \in Task /\ next.ver = t.ver /\ next.step = "deleting"
      /\ tasks' = (tasks \ {t}) \cup {next}
  BY <1>1, TaskTypes DEF IInv
<1> HIDE DEF next
<1>4. writes[t.ver].notBefore <= now
  BY <1>1 DEF IInv, StageInv
<1>5. /\ delivered \subseteq delivered' /\ delivered' \subseteq DOMAIN writes
      /\ recent' \subseteq Ids \X Nat
      /\ RecentInv' /\ NeverEarly' /\ Out(t.ver)'
  BY <1>1, <1>3, <1>4, Stores DEF IInv
<1>6. TypeOK'
  <2>1. tasks' \subseteq Task /\ \A m \in wakeups' \cup tasks' \cup late' : m.ver \in DOMAIN writes
    BY <1>1, <1>3 DEF IInv, TypeOK
  <2> QED BY <1>1, <1>5, <2>1 DEF IInv, TypeOK
<1>7. KeyInv' /\ ClientInv' /\ StoredHasWakeup'
  BY <1>1, <1>5, KeyKeeps, ClientKeeps, StoredKeeps DEF IInv
<1>8. StageInv'
  <2>1. \A v : Out(v) => Out(v)'
    BY <1>1, <1>5, OutStays
  <2> QED BY <1>1, <1>3, <1>4, <1>5, <2>1 DEF IInv, StageInv
<1>9. OnceInv'
  <2>1. \A v : Covered(v) => Covered(v)'
    BY <1>1, <1>5, SameWrites DEF Covered
  <2>2. Once => Covered(t.ver)
    BY <1>1 DEF IInv, OnceInv
  <2>3. Once' <=> Once
    BY DEF Once
  <2> QED BY <1>1, <1>3, <2>1, <2>2, <2>3, SameWrites DEF IInv, OnceInv
<1> QED BY <1>5, <1>6, <1>7, <1>8, <1>9 DEF IInv

LEMMA DeleteKeeps ==
  ASSUME IInv, NEW t \in tasks, Delete(t)
  PROVE  IInv'
<1>1. /\ t.step = "deleting" /\ DeleteKey(t.ver)
      /\ wakeups' = wakeups \ Of(t) /\ tasks' = tasks \ {t}
      /\ UNCHANGED <<now, writes, calls, accepted, delivered, recent, late, status, recovering, used>>
  BY DEF Delete, clientVars
<1>2. /\ t.ver \in DOMAIN writes /\ Out(t.ver) /\ \A m \in Of(t) : m.ver = t.ver
  BY <1>1, TaskTypes DEF IInv, StageInv
<1>3. StagesKept
  BY <1>1 DEF StagesKept
<1>4. \A m \in wakeups : m \in wakeups' \/ m.ver = t.ver
  BY <1>1, <1>2
<1>5. /\ kv' \in [Ids -> {0} \cup DOMAIN writes]
      /\ KeyInv' /\ ClientInv' /\ StoredHasWakeup' /\ OnceInv'
  BY <1>1, <1>2, <1>3, <1>4, DeletesKey DEF IInv
<1>6. TypeOK'
  BY <1>1, <1>5 DEF IInv, TypeOK
<1>7. RecentInv' /\ StageInv' /\ NeverEarly'
  BY <1>1, <1>3, RecentKeeps, StageKeeps, EarlyKeeps DEF IInv
<1> QED BY <1>5, <1>6, <1>7 DEF IInv

LEMMA DeliveryFailsKeeps ==
  ASSUME IInv, NumbersAssumption, NEW t \in tasks, DeliveryFails(t)
  PROVE  IInv'
<1>1. /\ \/ t.step = "publishing" /\ Fails("target", t.ver, Callers)
         \/ t.step = "deleting" /\ Fails("delete", t.ver, Callers)
      /\ wakeups' = Return(Of(t), now + RetryDelay)
      /\ tasks' = tasks \ {t}
      /\ UNCHANGED <<now, writes, calls, accepted, kv, delivered, recent, status, recovering>>
  BY DEF DeliveryFails, AfterFailure, Resumed, clientVars
<1>2. t.ver \in DOMAIN writes /\ Callers \in Copy
  BY TaskTypes, CopyTypes DEF IInv
<1>3. /\ used' \in Spent /\ late' \subseteq Request
      /\ \A r \in late' : r \in late \/ (r.ver = t.ver /\
           \/ r.kind = "target" /\ t.step = "publishing"
           \/ r.kind = "delete" /\ t.step = "deleting")
  <2>1. CASE t.step = "publishing" /\ Fails("target", t.ver, Callers)
    BY <1>2, <2>1, FailTypes DEF IInv
  <2>2. CASE t.step = "deleting" /\ Fails("delete", t.ver, Callers)
    BY <1>2, <2>2, FailTypes DEF IInv
  <2> QED BY <1>1, <2>1, <2>2
<1>4. /\ wakeups' \subseteq Wakeup
      /\ \A m \in wakeups' \cup tasks' : m.ver \in DOMAIN writes
      /\ StoredHasWakeup'
  <2>1. PICK at \in Nat : at = now + RetryDelay
    BY NumbersAssumption DEF IInv, TypeOK
  <2> QED BY <1>1, <2>1, GivesBack DEF IInv
<1>5. TypeOK'
  <2>1. \A r \in late' : r.ver \in DOMAIN writes
    BY <1>2, <1>3 DEF IInv, TypeOK
  <2> QED BY <1>1, <1>3, <1>4, <2>1 DEF IInv, TypeOK
<1>6. StagesKept
  BY <1>1, <1>3 DEF StagesKept
<1>7. \A r \in late' : r.kind = "put" => r \in late
  BY <1>3
<1>8. KeyInv' /\ ClientInv' /\ RecentInv' /\ StageInv' /\ OnceInv' /\ NeverEarly'
  BY <1>1, <1>6, <1>7, KeyKeeps, ClientKeeps, RecentKeeps, StageKeeps, OnceKeeps, EarlyKeeps
  DEF IInv
<1> QED BY <1>4, <1>5, <1>8 DEF IInv

-------------------------------------------------------------------------------
(* Workers that stop.                                                        *)

\* What a worker that stops had on the wire, and that it recovers no more.
LEMMA StopTypes ==
  ASSUME IInv, NEW w \in Workers, NoRecovery(w), writes' = writes
  PROVE  /\ recovering' \in [Workers -> Recovery]
         /\ \A v \in Workers : recovering'[v].sending \subseteq DOMAIN writes'
         /\ \A r \in OnTheWire(w) : r \in Request /\ r.kind = "wakeup" /\ r.ver \in DOMAIN writes
<1> DEFINE r == [recovering[w] EXCEPT !.keys = {}, !.sending = {}, !.failed = FALSE]
<1>1. recovering' = [recovering EXCEPT ![w] = r] /\ recovering[w] \in Recovery
  BY DEF NoRecovery, IInv, TypeOK
<1>2. r \in Recovery /\ r.sending \subseteq DOMAIN writes
  BY <1>1 DEF Recovery
<1> HIDE DEF r
<1>3. ASSUME NEW q \in OnTheWire(w)
      PROVE  q \in Request /\ q.kind = "wakeup" /\ q.ver \in DOMAIN writes
  <2>1. PICK copy \in Copy : copy = CopyOf(w)
    BY RecoveryFields DEF IInv
  <2>2. PICK v \in recovering[w].sending : q = [kind |-> "wakeup", ver |-> v, copy |-> copy]
    BY <2>1 DEF OnTheWire
  <2>3. v \in Nat /\ v \in DOMAIN writes
    BY RecoveryFields DEF IInv
  <2> QED BY <2>2, <2>3 DEF Request
<1>4. /\ recovering' \in [Workers -> Recovery]
      /\ \A v \in Workers : recovering'[v].sending \subseteq DOMAIN writes'
  BY <1>1, <1>2, RecoveryTypes DEF IInv
<1> QED BY <1>3, <1>4

LEMMA CloseKeeps ==
  ASSUME IInv, NEW w \in Workers, Close(w)
  PROVE  IInv'
<1> DEFINE Settled(t) == [t EXCEPT !.settled = t.settled \/ t.worker = w]
<1>1. /\ status' = [status EXCEPT ![w] = IF @ = "running" THEN "closing" ELSE "down"]
      /\ NoRecovery(w)
      /\ late' = late \cup OnTheWire(w)
      /\ wakeups' = Return(InFlight(w), 0)
      /\ used' = [used EXCEPT !.stops = @ + 1]
      /\ tasks' = {Settled(t) : t \in tasks}
      /\ UNCHANGED <<now, writes, calls, accepted, kv, delivered, recent>>
  BY DEF Close, clientVars
<1>2. ASSUME NEW t \in tasks
      PROVE  Settled(t) \in Task /\ Settled(t).ver = t.ver /\ Settled(t).step = t.step
  <2>1. t \in Task
    BY TaskTypes DEF IInv
  <2> QED BY <2>1 DEF Task
<1> HIDE DEF Settled
<1>3. /\ wakeups' \subseteq Wakeup
      /\ \A m \in wakeups' : \E n \in wakeups : n.ver = m.ver
      /\ \A m \in wakeups : \E n \in wakeups' : n.ver = m.ver
  <2>1. InFlight(w) \in SUBSET wakeups /\ wakeups \subseteq Wakeup
    BY DEF InFlight, IInv, TypeOK
  <2>2. /\ Return(InFlight(w), 0) \subseteq Wakeup
        /\ \A m \in Return(InFlight(w), 0) : \E n \in wakeups : n.ver = m.ver
        /\ \A m \in wakeups : \E n \in Return(InFlight(w), 0) : n.ver = m.ver
    BY <2>1, Returns
  <2> QED BY <1>1, <2>2
<1>4. tasks' \subseteq Task /\ \A t \in tasks' : t.ver \in DOMAIN writes
  BY <1>1, <1>2 DEF IInv, TypeOK
<1>5. TypeOK'
  <2>1. /\ status' \in [Workers -> {"down", "running", "closing", "stalled"}]
        /\ used' \in Spent
    BY <1>1, Spends DEF IInv, TypeOK
  <2>2. /\ recovering' \in [Workers -> Recovery]
        /\ \A v \in Workers : recovering'[v].sending \subseteq DOMAIN writes'
        /\ late' \subseteq Request /\ \A r \in late' : r.ver \in DOMAIN writes
    BY <1>1, StopTypes DEF IInv, TypeOK
  <2>3. \A m \in wakeups' : m.ver \in DOMAIN writes
    BY <1>3 DEF IInv, TypeOK
  <2> QED BY <1>1, <1>3, <1>4, <2>1, <2>2, <2>3 DEF IInv, TypeOK
<1>6. \A r \in late' : r \in late \/ r.kind = "wakeup"
  BY <1>1, StopTypes
<1>7. StagesKept
  BY <1>1, <1>2, <1>6 DEF StagesKept
<1>8. KeyInv' /\ ClientInv' /\ RecentInv' /\ StageInv' /\ OnceInv' /\ NeverEarly'
  BY <1>1, <1>6, <1>7, KeyKeeps, ClientKeeps, RecentKeeps, StageKeeps, OnceKeeps, EarlyKeeps
  DEF IInv
<1>9. StoredHasWakeup'
  BY <1>1, <1>3, StoredKeeps DEF IInv
<1> QED BY <1>5, <1>8, <1>9 DEF IInv

LEMMA ClosedKeeps ==
  ASSUME IInv, NEW w \in Workers, Closed(w)
  PROVE  IInv'
<1>1. /\ status' = [status EXCEPT ![w] = "down"]
      /\ UNCHANGED <<now, writes, calls, accepted, kv, wakeups, delivered, recent, late,
                     recovering, tasks, used>>
  BY DEF Closed, clientVars, brokerVars
<1>2. TypeOK'
  BY <1>1 DEF IInv, TypeOK
<1>3. StagesKept
  BY <1>1 DEF StagesKept
<1>4. KeyInv' /\ ClientInv' /\ RecentInv' /\ StageInv' /\ OnceInv' /\ NeverEarly'
  BY <1>1, <1>3, KeyKeeps, ClientKeeps, RecentKeeps, StageKeeps, OnceKeeps, EarlyKeeps DEF IInv
<1>5. StoredHasWakeup'
  BY <1>1, StoredKeeps DEF IInv
<1> QED BY <1>2, <1>4, <1>5 DEF IInv

LEMMA CrashKeeps ==
  ASSUME IInv, NEW w \in Workers, Crash(w)
  PROVE  IInv'
<1>1. /\ status' = [status EXCEPT ![w] = "down"]
      /\ NoRecovery(w)
      /\ tasks' = {t \in tasks : t.worker # w}
      /\ used' = [used EXCEPT !.stops = @ + 1]
      /\ UNCHANGED <<now, writes, calls, accepted, kv, wakeups, delivered, recent>>
  BY DEF Crash, clientVars
<1>2. \A r \in late' : r \in late \cup OnTheWire(w) \/ \E t \in tasks :
        \/ r = [kind |-> "target", ver |-> t.ver, copy |-> Callers] /\ t.step = "publishing"
        \/ r = [kind |-> "delete", ver |-> t.ver, copy |-> Callers] /\ t.step = "deleting"
  BY DEF Crash
<1>3. ASSUME NEW r \in late'
      PROVE  /\ r \in Request /\ r.ver \in DOMAIN writes
             /\ r \in late \/ r.kind = "wakeup" \/ \E t \in tasks : r.ver = t.ver /\
                  \/ r.kind = "target" /\ t.step = "publishing"
                  \/ r.kind = "delete" /\ t.step = "deleting"
  <2>1. CASE r \in late
    BY <2>1 DEF IInv, TypeOK
  <2>3. CASE r \in OnTheWire(w)
    BY <1>1, <2>3, StopTypes
  <2>2. CASE r \notin late \cup OnTheWire(w)
    <3>1. PICK t \in tasks :
            \/ r = [kind |-> "target", ver |-> t.ver, copy |-> Callers] /\ t.step = "publishing"
            \/ r = [kind |-> "delete", ver |-> t.ver, copy |-> Callers] /\ t.step = "deleting"
      BY <1>2, <2>2
    <3>2. t.ver \in DOMAIN writes /\ t.ver \in Nat /\ Callers \in Copy
      BY TaskTypes, CopyTypes DEF IInv
    <3> QED BY <3>1, <3>2 DEF Request
  <2> QED BY <2>1, <2>2, <2>3
<1>5. TypeOK'
  <2>1. /\ status' \in [Workers -> {"down", "running", "closing", "stalled"}]
        /\ used' \in Spent
        /\ recovering' \in [Workers -> Recovery]
        /\ \A v \in Workers : recovering'[v].sending \subseteq DOMAIN writes'
    BY <1>1, Spends, StopTypes DEF IInv, TypeOK
  <2>2. late' \subseteq Request
    BY <1>3
  <2>3. \A m \in wakeups' \cup tasks' \cup late' : m.ver \in DOMAIN writes
    BY <1>1, <1>3 DEF IInv, TypeOK
  <2> QED BY <1>1, <2>1, <2>2, <2>3 DEF IInv, TypeOK
<1>6. StagesKept
  BY <1>1, <1>3 DEF StagesKept
<1>7. \A r \in late' : r.kind = "put" => r \in late
  BY <1>3
<1>8. KeyInv' /\ ClientInv' /\ RecentInv' /\ StageInv' /\ OnceInv' /\ NeverEarly'
  BY <1>1, <1>6, <1>7, KeyKeeps, ClientKeeps, RecentKeeps, StageKeeps, OnceKeeps, EarlyKeeps
  DEF IInv
<1>9. StoredHasWakeup'
  BY <1>1, StoredKeeps DEF IInv
<1> QED BY <1>5, <1>8, <1>9 DEF IInv

-------------------------------------------------------------------------------
(* The invariant holds in every reachable state.                             *)

LEMMA InitHolds ==
  ASSUME Init
  PROVE  IInv
<1>1. writes = <<>> /\ writes \in Seq(Write) /\ DOMAIN writes = {}
  BY DEF Init
<1>2. TypeOK
  <2>1. /\ kv \in [Ids -> {0} \cup DOMAIN writes]
        /\ status \in [Workers -> {"down", "running", "closing", "stalled"}]
        /\ recovering \in [Workers -> Recovery]
        /\ \A w \in Workers : recovering[w].sending = {}
    BY DEF Init, Recovery
  <2> QED BY <1>1, <2>1 DEF Init, TypeOK, Spent
<1>3. KeyInv /\ ClientInv /\ RecentInv /\ StageInv
  BY DEF Init, KeyInv, ClientInv, RecentInv, StageInv
<1>4. OnceInv
  BY <1>1 DEF Init, OnceInv, IdsUnique
<1>5. StoredHasWakeup /\ NeverEarly
  BY DEF Init, StoredHasWakeup, NeverEarly
<1> QED BY <1>2, <1>3, <1>4, <1>5 DEF IInv

\* Every schedule a client asks for is put; its id is new if ids are used once.
LEMMA ClientsPut ==
  ASSUME TypeOK, SetsAssumption, PublishLater \/ RetryLater
  PROVE  \E id \in Ids, n \in NotBefores, attempt \in Nat :
           /\ Put(id, n, attempt)
           /\ Once => \A u \in DOMAIN writes : IdOf(u) # id
<1>1. CASE PublishLater
  <2>1. PICK id \in Ids, n \in NotBefores :
          /\ ReuseIds \/ \A v \in DOMAIN writes : IdOf(v) # id
          /\ Put(id, n, 1)
    BY <1>1 DEF PublishLater
  <2>2. Once => \A u \in DOMAIN writes : IdOf(u) # id
    BY <2>1 DEF Once
  <2> QED BY <2>1, <2>2
<1>2. CASE RetryLater
  <2>1. PICK v \in delivered, n \in NotBefores :
          AllowRetries /\ Put(IdOf(v), n, writes[v].attempt + 1)
    BY <1>2 DEF RetryLater
  <2>2. IdOf(v) \in Ids /\ writes[v].attempt + 1 \in Nat
    BY WriteTypes DEF TypeOK
  <2> QED BY <2>1, <2>2 DEF Once
<1> QED BY <1>1, <1>2

LEMMA NextKeeps ==
  ASSUME IInv, [Next]_vars
  PROVE  IInv'
<1>1. CASE PublishLater \/ RetryLater
  <2>1. PICK id \in Ids, n \in NotBefores, attempt \in Nat :
          /\ Put(id, n, attempt)
          /\ Once => \A u \in DOMAIN writes : IdOf(u) # id
    BY <1>1, SetsAssumption, ClientsPut DEF IInv
  <2> QED BY <2>1, SetsAssumption, PutKeeps
<1>2. CASE \E v \in calls : SendWakeup(v)
  BY <1>2, SendKeeps
<1>3. CASE \E w \in Workers :
        \/ Start(w) \/ RecoverReads(w) \/ RecoverFails(w) \/ RecoverSends(w)
        \/ Receive(w) \/ Close(w) \/ Closed(w) \/ Crash(w)
  BY <1>3, StartKeeps, RecoverReadsKeeps, RecoverSendsKeeps, ReceiveKeeps, CloseKeeps,
     ClosedKeeps, CrashKeeps
<1>4. CASE \E t \in tasks : Check(t) \/ CheckFails(t) \/ Publish(t) \/ Delete(t) \/ DeliveryFails(t)
  BY <1>4, NumbersAssumption, CheckKeeps, CheckFailsKeeps, PublishKeeps, DeleteKeeps, DeliveryFailsKeeps
<1>5. CASE LandLate \/ Forget \/ Tick \/ \E m \in wakeups : AckWait(m)
  BY <1>5, LandKeeps, ForgetKeeps, AckWaitKeeps, TickKeeps
<1>6. CASE UNCHANGED vars
  <2>1. UNCHANGED <<now, writes, calls, accepted, kv, wakeups, delivered, recent, late, status,
                    recovering, tasks, used>>
    BY <1>6 DEF vars, clientVars, brokerVars
  <2>2. TypeOK' /\ StagesKept
    BY <2>1 DEF IInv, TypeOK, StagesKept
  <2>3. KeyInv' /\ ClientInv' /\ RecentInv' /\ StageInv' /\ OnceInv' /\ NeverEarly'
    BY <2>1, <2>2, KeyKeeps, ClientKeeps, RecentKeeps, StageKeeps, OnceKeeps, EarlyKeeps DEF IInv
  <2>4. StoredHasWakeup'
    BY <2>1, StoredKeeps DEF IInv
  <2> QED BY <2>2, <2>3, <2>4 DEF IInv
<1> QED BY <1>1, <1>2, <1>3, <1>4, <1>5, <1>6 DEF Next

\* The inductive invariant holds in every reachable state.
THEOREM Invariance == Spec => []IInv
<1>1. Init => IInv
  BY InitHolds
<1>2. IInv /\ [Next]_vars => IInv'
  BY NextKeeps
<1> QED BY <1>1, <1>2, PTL DEF Spec

\* Type correctness: the bucket, the wake-ups, and the calls under way.
THEOREM TypeCorrect == Spec => []TypeOK
<1>1. IInv => TypeOK
  BY DEF IInv
<1> QED BY <1>1, Invariance, PTL

\* No event is published before the notBefore it was scheduled with, even when
\* ids are scheduled again, or retried, at any moment.
THEOREM NoEarlyDelivery == Spec => []NeverEarly
<1>1. IInv => NeverEarly
  BY DEF IInv
<1> QED BY <1>1, Invariance, PTL

\* An accepted schedule that the bucket holds has a wake-up: none sleeps there
\* until a worker is restarted.
THEOREM NoScheduleSleeps == Spec => []StoredHasWakeup
<1>1. IInv => StoredHasWakeup
  BY DEF IInv
<1> QED BY <1>1, Invariance, PTL

\* For an id somebody scheduled, some event was delivered or some schedule is in
\* the bucket, even when ids are scheduled again, or retried.
THEOREM NoIdIsForgotten == Spec => []AtLeastOncePerId
<1>1. IInv => AtLeastOncePerId
  BY DEF IInv, ClientInv, Out, AtLeastOncePerId
<1> QED BY <1>1, Invariance, PTL

\* When ids are scheduled once and never retried, an accepted schedule has been
\* delivered or is in the bucket.
THEOREM NoScheduleIsLost == Once => (Spec => []AtLeastOnce)
<1> SUFFICES ASSUME Once PROVE Spec => []AtLeastOnce
  OBVIOUS
<1>1. IInv => AtLeastOnce
  <2> SUFFICES ASSUME IInv, NEW v \in accepted PROVE v \in delivered \/ kv[IdOf(v)] = v
    BY DEF AtLeastOnce
  <2>1. IdsUnique /\ v \in DOMAIN writes /\ IdOf(v) \in Ids
    BY WriteTypes DEF IInv, OnceInv, TypeOK
  <2>2. CASE kv[IdOf(v)] # 0
    <3>1. kv[IdOf(v)] \in DOMAIN writes /\ IdOf(kv[IdOf(v)]) = IdOf(v)
      BY <2>1, <2>2 DEF IInv, TypeOK, KeyInv
    <3> QED BY <2>1, <3>1 DEF IdsUnique
  <2>3. CASE Out(v)
    BY <2>1, <2>3 DEF Out, IdsUnique, IInv, TypeOK
  <2> QED BY <2>2, <2>3 DEF IInv, ClientInv
<1> QED BY <1>1, Invariance, PTL

-------------------------------------------------------------------------------
(* The scheduler implements the promise of PubSubScheduler.                  *)

LEMMA SameRequests ==
  ASSUME writes' = writes
  PROVE  Requests' = Requests
BY DEF Requests, IdOf

LEMMA RequestFacts ==
  ASSUME TypeOK
  PROVE  /\ Requests \in Seq([id : Ids, notBefore : Nat])
         /\ Len(Requests) = Len(writes) /\ DOMAIN Requests = DOMAIN writes
         /\ \A v \in DOMAIN writes :
              Requests[v].id = IdOf(v) /\ Requests[v].notBefore = writes[v].notBefore
<1>1. Len(writes) \in Nat /\ DOMAIN writes = 1 .. Len(writes)
  BY DEF TypeOK
<1>2. \A v \in DOMAIN writes : [id |-> IdOf(v), notBefore |-> writes[v].notBefore]
                                 \in [id : Ids, notBefore : Nat]
  BY WriteTypes
<1>3. Requests \in [1 .. Len(writes) -> [id : Ids, notBefore : Nat]]
  BY <1>1, <1>2 DEF Requests
<1>4. Requests \in Seq([id : Ids, notBefore : Nat])
  <2> DEFINE R == [id : Ids, notBefore : Nat]
  <2>1. PICK n \in Nat : Requests \in [1 .. n -> R]
    BY <1>1, <1>3
  <2> HIDE DEF R
  <2>2. Requests \in Seq(R)
    BY <2>1, SeqDef
  <2> QED BY <2>2 DEF R
<1>5. Len(Requests) = Len(writes)
  BY <1>1, <1>3, <1>4
<1> QED BY <1>1, <1>3, <1>4, <1>5 DEF Requests

LEMMA RequestsGrow ==
  ASSUME TypeOK, NEW x \in Write, writes' = Append(writes, x)
  PROVE  Requests' = Append(Requests, [id |-> x.id, notBefore |-> x.notBefore])
<1> DEFINE R == [id : Ids, notBefore : Nat]
           y == [id |-> x.id, notBefore |-> x.notBefore]
           longer == Append(Requests, y)
<1>1. PICK n \in Nat : n = Len(writes)
  BY DEF TypeOK
<1>2. /\ DOMAIN writes = 1 .. n /\ DOMAIN writes' = 1 .. n + 1
      /\ writes'[n + 1] = x /\ \A v \in 1 .. n : writes'[v] = writes[v] /\ writes[v] \in Write
  BY <1>1 DEF TypeOK
<1>3. y \in R /\ \A v \in 1 .. n + 1 : [id |-> writes'[v].id, notBefore |-> writes'[v].notBefore] \in R
  <2>1. \A z \in Write : [id |-> z.id, notBefore |-> z.notBefore] \in R
    BY DEF Write
  <2>2. \A v \in 1 .. n + 1 : writes'[v] \in Write
    <3>1. \A v \in 1 .. n + 1 : v \in 1 .. n \/ v = n + 1
      OBVIOUS
    <3> QED BY <1>2, <3>1
  <2> QED BY <2>1, <2>2
<1>4. /\ Requests \in Seq(R) /\ Len(Requests) = n
      /\ \A v \in 1 .. n : Requests[v] = [id |-> writes[v].id, notBefore |-> writes[v].notBefore]
  BY <1>1, <1>2, RequestFacts DEF Requests, IdOf
<1>5. Requests' = [v \in 1 .. n + 1 |-> [id |-> writes'[v].id, notBefore |-> writes'[v].notBefore]]
  BY <1>2 DEF Requests, IdOf
<1>6. Requests' \in Seq(R) /\ Len(Requests') = n + 1
  <2> DEFINE Entry(v) == [id |-> writes'[v].id, notBefore |-> writes'[v].notBefore]
  <2>0. Requests' = [v \in 1 .. n + 1 |-> Entry(v)] /\ \A v \in 1 .. n + 1 : Entry(v) \in R
    BY <1>3, <1>5
  <2> HIDE DEF Entry, R
  <2>1. Requests' \in [1 .. n + 1 -> R] /\ n + 1 \in Nat
    BY <2>0
  <2>2. Requests' \in Seq(R)
    BY <2>1, SeqDef
  <2> QED BY <2>1, <2>2
<1> HIDE DEF R
<1>7. /\ longer \in Seq(R) /\ Len(longer) = n + 1
      /\ longer[n + 1] = y /\ \A v \in 1 .. n : longer[v] = Requests[v]
  <2> HIDE DEF y
  <2> QED BY <1>3, <1>4
<1>8. ASSUME NEW v \in 1 .. n + 1 PROVE longer[v] = Requests'[v]
  <2> HIDE DEF longer
  <2>1. CASE v = n + 1
    BY <1>2, <1>5, <1>7, <2>1
  <2>2. CASE v # n + 1
    <3>1. v \in 1 .. n
      BY <2>2
    <3> QED BY <1>2, <1>4, <1>5, <1>7, <3>1
  <2> QED BY <2>1, <2>2
<1>9. longer = Requests'
  <2> HIDE DEF longer
  <2> QED BY <1>6, <1>7, <1>8, SeqEqual
<1> QED BY <1>9

\* Putting v in the bucket makes it the one active schedule of its id.
LEMMA PutReplaces ==
  ASSUME TypeOK, writes' = writes, NEW v \in DOMAIN writes,
         kv' = [kv EXCEPT ![IdOf(v)] = v]
  PROVE  Stored' = Promise!Replace(Stored, Requests, v)
<1>1. /\ IdOf(v) \in Ids /\ kv'[IdOf(v)] = v
      /\ \A id \in Ids : id # IdOf(v) => kv'[id] = kv[id]
      /\ \A u \in DOMAIN writes : IdOf(u) \in Ids /\ Requests[u].id = IdOf(u)
  BY WriteTypes, RequestFacts DEF TypeOK
<1>2. Stored' = {u \in DOMAIN writes : kv'[IdOf(u)] = u}
  BY SameWrites DEF Stored
<1>3. Promise!Replace(Stored, Requests, v)
        = {u \in Stored : Requests[u].id # Requests[v].id} \cup {v}
  BY DEF Promise!Replace
<1>4. ASSUME NEW u \in DOMAIN writes
      PROVE  kv'[IdOf(u)] = u <=> u = v \/ (kv[IdOf(u)] = u /\ IdOf(u) # IdOf(v))
  BY <1>1
<1> QED BY <1>1, <1>2, <1>3, <1>4 DEF Stored

LEMMA PutRequests ==
  ASSUME TypeOK, NEW id \in Ids, NEW n \in Nat, NEW attempt \in Nat, Put(id, n, attempt)
  PROVE  Promise!Request(id, n)
<1> DEFINE x == [id |-> id, notBefore |-> n, attempt |-> attempt]
<1>1. x \in Write /\ x.id = id /\ x.notBefore = n
  BY DEF Write
<1>2. PICK v \in Nat : v = Len(writes) + 1
  BY DEF TypeOK
<1>3. /\ writes' = Append(writes, x) /\ now' = now /\ delivered' = delivered
      /\ kv' = [kv EXCEPT ![id] = v] \/ kv' = kv
  BY <1>2 DEF Put
<1> HIDE DEF x
<1>4. /\ DOMAIN writes' = DOMAIN writes \cup {v} /\ Len(writes') = v
      /\ writes'[v] = x /\ v \notin DOMAIN writes
      /\ \A u \in DOMAIN writes : writes'[u] = writes[u]
  <2>1. Len(writes') = v
    BY <1>1, <1>2, <1>3 DEF TypeOK
  <2> QED BY <1>1, <1>2, <1>3, <2>1, WritesGrow DEF TypeOK
<1>5. /\ Requests' = Append(Requests, [id |-> id, notBefore |-> n])
      /\ Len(Requests') = v
  <2>1. Requests' = Append(Requests, [id |-> id, notBefore |-> n])
    BY <1>1, <1>3, RequestsGrow
  <2>2. Requests \in Seq([id : Ids, notBefore : Nat]) /\ Len(Requests) = Len(writes)
    BY RequestFacts
  <2>3. [id |-> id, notBefore |-> n] \in [id : Ids, notBefore : Nat]
    OBVIOUS
  <2> QED BY <1>2, <2>1, <2>2, <2>3
<1>6. /\ \A u \in DOMAIN writes : IdOf(u)' = IdOf(u) /\ IdOf(u) \in Ids /\ kv[IdOf(u)] # v
      /\ writes'[v].id = id
      /\ \A u \in DOMAIN writes' : Requests'[u].id = writes'[u].id
      /\ kv[id] # v
  <2>1. \A i \in Ids : kv[i] # v
    BY <1>2, <1>4 DEF TypeOK
  <2> QED BY <1>1, <1>4, <2>1, WriteTypes DEF IdOf, Requests
<1>7. Stored' = {u \in DOMAIN writes' : kv'[writes'[u].id] = u}
  BY DEF Stored, IdOf
<1>8. CASE kv' = kv
  <2>1. Stored' = Stored
    BY <1>4, <1>6, <1>7, <1>8 DEF Stored, IdOf
  <2> QED BY <1>3, <1>5, <2>1 DEF Promise!Request
<1>9. CASE kv' = [kv EXCEPT ![id] = v]
  <2>1. kv'[id] = v /\ \A i \in Ids : i # id => kv'[i] = kv[i]
    BY <1>9 DEF TypeOK
  <2>2. Promise!Replace(Stored, Requests', v)
          = {u \in Stored : Requests'[u].id # Requests'[v].id} \cup {v}
    BY DEF Promise!Replace
  <2>3. Stored' = Promise!Replace(Stored, Requests', v)
    BY <1>4, <1>6, <1>7, <2>1, <2>2 DEF Stored, IdOf
  <2> QED BY <1>3, <1>5, <2>3 DEF Promise!Request
<1> QED BY <1>3, <1>8, <1>9

\* When ids are used once, deleting a key retires the schedule it held.
LEMMA DeleteRetires ==
  ASSUME IInv, Once, NEW v \in DOMAIN writes, Out(v), DeleteKey(v),
         UNCHANGED <<now, writes, delivered>>
  PROVE  [Promise!Next]_(Promise!vars)
<1>1. /\ IdOf(v) \in Ids /\ kv'[IdOf(v)] = 0
      /\ \A id \in Ids : id # IdOf(v) => kv'[id] = kv[id]
      /\ \A u \in DOMAIN writes : IdOf(u) \in Ids /\ u # 0
      /\ \A u \in DOMAIN writes : IdOf(u) = IdOf(v) => u = v
  BY WriteTypes DEF DeleteKey, IInv, TypeOK, OnceInv, IdsUnique
<1>2. v \in delivered
  BY <1>1 DEF Out, IInv, TypeOK
<1>3. Stored' = {u \in DOMAIN writes : kv'[IdOf(u)] = u} /\ Requests' = Requests
  BY SameWrites, SameRequests DEF Stored
<1>4. Stored' = Stored \ {v}
  BY <1>1, <1>3 DEF Stored
<1>5. CASE v \in Stored
  <2>1. Promise!Retire(v)
    BY <1>2, <1>3, <1>4, <1>5 DEF Promise!Retire
  <2>2. v \in DOMAIN Requests
    BY RequestFacts DEF IInv
  <2> QED BY <2>1, <2>2 DEF Promise!Next
<1>6. CASE v \notin Stored
  BY <1>3, <1>4, <1>6 DEF Promise!vars
<1> QED BY <1>5, <1>6

\* When ids are used once, what is published is still stored, or delivered before.
LEMMA StoreDelivers ==
  ASSUME IInv, Once, NEW v \in DOMAIN writes, StoreTarget(v), Covered(v),
         writes[v].notBefore <= now, UNCHANGED <<now, writes, kv>>
  PROVE  [Promise!Next]_(Promise!vars)
<1>1. IdsUnique
  BY DEF IInv, OnceInv
<1>2. delivered' = delivered \cup {v}
  BY <1>1, Stores DEF IInv
<1>3. Stored' = Stored /\ Requests' = Requests
  BY SameWrites, SameRequests DEF Stored
<1>4. CASE v \in delivered
  BY <1>2, <1>3, <1>4 DEF Promise!vars
<1>5. CASE kv[IdOf(v)] = v
  <2>1. /\ v \in DOMAIN Requests /\ Requests[v].notBefore <= now
    BY RequestFacts DEF IInv
  <2>2. v \in Stored
    BY <1>5 DEF Stored
  <2>3. Promise!Deliver(v)
    BY <1>2, <1>3, <2>1, <2>2 DEF Promise!Deliver
  <2> QED BY <2>1, <2>3 DEF Promise!Next
<1> QED BY <1>4, <1>5 DEF Covered

\* A step that is none of the others changes nothing that was promised.
LEMMA RestKeepsPromise ==
  ASSUME \/ \E v \in calls : SendWakeup(v)
         \/ \E w \in Workers :
              \/ Start(w) \/ RecoverReads(w) \/ RecoverFails(w) \/ RecoverSends(w)
              \/ Receive(w) \/ Close(w) \/ Closed(w) \/ Crash(w)
         \/ \E t \in tasks : Check(t) \/ CheckFails(t) \/ DeliveryFails(t)
         \/ \E m \in wakeups : AckWait(m)
         \/ Forget \/ UNCHANGED vars
  PROVE  UNCHANGED Promise!vars
<1>1. UNCHANGED <<now, writes, kv, delivered>>
  BY DEF SendWakeup, Start, RecoverReads, RecoverFails, RecoverSends, Receive, Close, Closed, Crash, Check, CheckFails,
     DeliveryFails, Forget, AckWait, vars, clientVars, brokerVars
<1>2. Stored' = Stored /\ Requests' = Requests
  BY <1>1, SameWrites, SameRequests DEF Stored
<1> QED BY <1>1, <1>2 DEF Promise!vars

LEMMA StepKeepsPromise ==
  ASSUME IInv, Once, [Next]_vars
  PROVE  [Promise!Next]_(Promise!vars)
<1>1. CASE PublishLater \/ RetryLater
  <2>1. PICK id \in Ids, n \in NotBefores, attempt \in Nat : Put(id, n, attempt)
    BY <1>1, SetsAssumption, ClientsPut DEF IInv
  <2>2. Promise!Request(id, n)
    BY <2>1, SetsAssumption, PutRequests DEF IInv
  <2> QED BY <2>2 DEF Promise!Next
<1>2. CASE Tick
  <2>1. now' = now + 1 /\ UNCHANGED <<writes, kv, delivered>>
    BY <1>2 DEF Tick, clientVars, brokerVars
  <2>2. Stored' = Stored /\ Requests' = Requests
    BY <2>1, SameWrites, SameRequests DEF Stored
  <2> QED BY <2>1, <2>2 DEF Promise!Next, Promise!Tick
<1>3. CASE LandLate
  <2>1. PICK r \in late :
          /\ \/ /\ r.kind = "put" /\ kv' = [kv EXCEPT ![IdOf(r.ver)] = r.ver]
                /\ UNCHANGED delivered
             \/ r.kind = "wakeup" /\ UNCHANGED <<kv, delivered>>
             \/ r.kind = "target" /\ StoreTarget(r.ver) /\ UNCHANGED kv
             \/ r.kind = "delete" /\ DeleteKey(r.ver) /\ UNCHANGED delivered
          /\ UNCHANGED <<now, writes>>
    BY <1>3 DEF LandLate, clientVars
  <2>2. r.ver \in DOMAIN writes /\ r.ver \in DOMAIN Requests /\ Requests' = Requests
    BY <2>1, RequestFacts, SameRequests DEF IInv, TypeOK
  <2>3. CASE r.kind = "put"
    <3>1. Promise!Store(r.ver)
      BY <2>1, <2>2, <2>3, PutReplaces DEF IInv, Promise!Store
    <3> QED BY <2>2, <3>1 DEF Promise!Next
  <2>4. CASE r.kind = "wakeup"
    BY <2>1, <2>2, <2>4, SameWrites DEF Promise!vars, Stored
  <2>5. CASE r.kind = "target"
    <3>1. Covered(r.ver) /\ writes[r.ver].notBefore <= now
      BY <2>5 DEF IInv, OnceInv, StageInv
    <3> QED BY <2>1, <2>2, <2>5, <3>1, StoreDelivers
  <2>6. CASE r.kind = "delete"
    <3>1. Out(r.ver)
      BY <2>6 DEF IInv, StageInv
    <3> QED BY <2>1, <2>2, <2>6, <3>1, DeleteRetires
  <2> QED BY <2>1, <2>3, <2>4, <2>5, <2>6
<1>4. ASSUME NEW t \in tasks, Publish(t) PROVE [Promise!Next]_(Promise!vars)
  <2>1. t.step = "publishing" /\ StoreTarget(t.ver) /\ UNCHANGED <<now, writes, kv>>
    BY <1>4 DEF Publish, clientVars
  <2>2. t.ver \in DOMAIN writes /\ Covered(t.ver) /\ writes[t.ver].notBefore <= now
    BY <2>1, TaskTypes DEF IInv, OnceInv, StageInv
  <2> QED BY <2>1, <2>2, StoreDelivers
<1>5. ASSUME NEW t \in tasks, Delete(t) PROVE [Promise!Next]_(Promise!vars)
  <2>1. t.step = "deleting" /\ DeleteKey(t.ver) /\ UNCHANGED <<now, writes, delivered>>
    BY <1>5 DEF Delete, clientVars
  <2>2. t.ver \in DOMAIN writes /\ Out(t.ver)
    BY <2>1, TaskTypes DEF IInv, StageInv
  <2> QED BY <2>1, <2>2, DeleteRetires
<1>6. CASE \/ \E v \in calls : SendWakeup(v)
           \/ \E w \in Workers :
                \/ Start(w) \/ RecoverReads(w) \/ RecoverFails(w) \/ RecoverSends(w)
                \/ Receive(w) \/ Close(w) \/ Closed(w) \/ Crash(w)
           \/ \E t \in tasks : Check(t) \/ CheckFails(t) \/ DeliveryFails(t)
           \/ \E m \in wakeups : AckWait(m)
           \/ Forget \/ UNCHANGED vars
  BY <1>6, RestKeepsPromise
<1> QED BY <1>1, <1>2, <1>3, <1>4, <1>5, <1>6 DEF Next

\* When ids are scheduled once and never retried, the scheduler implements the
\* promise of PubSubScheduler, whatever the broker repeats, delays or loses.
THEOREM ImplementsPromise == Once => (Spec => KeepsPromise)
<1> SUFFICES ASSUME Once PROVE Spec => KeepsPromise
  OBVIOUS
<1>1. Init => Promise!Init
  <2> SUFFICES ASSUME Init PROVE Promise!Init
    OBVIOUS
  <2>1. now = 0 /\ delivered = {} /\ writes = <<>> /\ DOMAIN writes = {}
    BY DEF Init
  <2>2. Stored = {}
    BY <2>1 DEF Stored
  <2>3. Requests = <<>>
    <3>1. TypeOK
      BY InitHolds DEF IInv
    <3>2. Requests \in Seq([id : Ids, notBefore : Nat]) /\ Len(Requests) = 0
      BY <2>1, <3>1, RequestFacts
    <3> QED BY <3>2, EmptySeq
  <2> QED BY <2>1, <2>2, <2>3 DEF Promise!Init
<1>2. IInv /\ [Next]_vars => [Promise!Next]_(Promise!vars)
  BY StepKeepsPromise
<1> QED BY <1>1, <1>2, Invariance, PTL DEF Spec, KeepsPromise, Promise!Spec
=============================================================================
