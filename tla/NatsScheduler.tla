---------------------------- MODULE NatsScheduler ----------------------------
(***************************************************************************)
(* The durable NATS scheduler: src/nats/scheduler.ts of @protoutil/pubsub. *)
(*                                                                         *)
(* The active schedule of a CloudEvent id is the value of that key in a KV *)
(* bucket. A wake-up message in a JetStream stream carries the revision of *)
(* the value it was sent for; the workers share one durable consumer of    *)
(* that stream. A worker drops a wake-up whose revision is not the current *)
(* one, returns one that is not due with a delayed nak, and otherwise      *)
(* publishes the event, deletes the key and acknowledges the wake-up.      *)
(*                                                                         *)
(* The broker is external: a request that failed for its caller may still  *)
(* be applied later, a wake-up that is neither acknowledged nor returned   *)
(* in time (ack_wait) is handed out again, an acknowledgement is final     *)
(* whoever sends it, at most MaxAckPending wake-ups are handed out or      *)
(* returned, and a publish whose message id was seen lately is answered    *)
(* but not stored.                                                         *)
(***************************************************************************)
EXTENDS Integers, Sequences, FiniteSets

CONSTANTS
  Ids,            \* CloudEvent ids
  Workers,        \* schedulers that share the durable consumer
  None,           \* no worker
  NotBefores,     \* the delivery instants clients ask for
  Concurrency,    \* DEFAULT_SCHEDULER_CONCURRENCY, 64
  MaxAckPending,  \* DEFAULT_MAX_ACK_PENDING, 256
  RetryDelay,     \* options.deliveryRetryDelayMs
  ReuseIds,       \* may a client publish later an id it scheduled before?
  AllowRetries,   \* may a subscriber ask for a delayed retry?
  MaxNow, MaxWrites, MaxFailures, MaxStops, MaxExpiries  \* bounds

ASSUME SetsAssumption ==
  /\ None \notin Workers
  /\ NotBefores \subseteq Nat
  /\ ReuseIds \in BOOLEAN /\ AllowRetries \in BOOLEAN

ASSUME NumbersAssumption ==
  /\ Concurrency \in Nat \ {0} /\ MaxAckPending \in Nat \ {0}
  /\ RetryDelay \in Nat
  /\ MaxNow \in Nat /\ MaxWrites \in Nat /\ MaxFailures \in Nat
  /\ MaxStops \in Nat /\ MaxExpiries \in Nat

VARIABLES
  now,         \* Date.now()
  writes,      \* every schedule a client asked for: <<[id, notBefore, attempt], ...>>
  calls,       \* the writes whose call has put its state and now sends its wake-up
  accepted,    \* the writes whose publishLater or retryLater resolved
  kv,          \* the KV bucket: the write that is the value of each key, 0 for none
  wakeups,     \* the wake-up messages that the consumer still has to acknowledge
  delivered,   \* the writes whose event is in its target subject
  recent,      \* the message ids the target stream remembers
  late,        \* requests that failed for their caller and may still be applied
  status,      \* "down", "running", "closing", or "stalled": #runLoop has rejected
  recovering,  \* start() and #recoverFromKV of each worker
  tasks,       \* the #handleMessage calls that are suspended in an await
  used         \* how much of each bound is spent

clientVars == <<writes, calls, accepted>>
brokerVars == <<kv, wakeups, delivered, recent, late>>
vars == <<now, clientVars, brokerVars, status, recovering, tasks, used>>

-------------------------------------------------------------------------------
(* Data.  A write is named by its index, which also stands for the revision  *)
(* its put got. Several wake-ups may exist for one write: copy tells the one *)
(* its caller sent from those that workers sent after a start.               *)

Copy   == (Workers \cup {None}) \X Nat
Callers == <<None, 0>>
Write  == [id : Ids, notBefore : Nat, attempt : Nat]
Wakeup == [ver : Nat, copy : Copy,
           at : Nat,                     \* not handed out before
           to : Workers \cup {None},     \* the worker it is handed out to
           seen : BOOLEAN]               \* was it handed out before?
Task   == [worker : Workers, ver : Nat, copy : Copy,
           loop : Nat,                   \* the start whose #runLoop waits for it
           round : Nat,                  \* tells a redelivery from the first
           step : {"checking", "publishing", "deleting"},
           settled : BOOLEAN]            \* close() has returned its message
Request == [kind : {"put", "wakeup", "target", "delete"}, ver : Nat, copy : Copy]
Recovery == [start : Nat,                \* which start of a worker it is
             keys : SUBSET Ids,          \* what bucket.keys() has still to yield
             sending : SUBSET Nat,       \* the wake-up it is about to publish
             failed : BOOLEAN]           \* start() has rejected
Spent  == [failures : Nat, stops : Nat, expiries : Nat, starts : Nat]

IdOf(v) == writes[v].id
Fresh(v, copy) == [ver |-> v, copy |-> copy, at |-> 0, to |-> None, seen |-> FALSE]

\* The message id of publishImmediate, and what storing a target event does.
MsgId(v) == <<IdOf(v), writes[v].attempt>>
StoreTarget(v) ==
  /\ delivered' = IF MsgId(v) \in recent THEN delivered ELSE delivered \cup {v}
  /\ recent' = recent \cup {MsgId(v)}

\* A request that fails for its caller, and may be applied later on.
Fails(kind, v, copy) ==
  /\ used.failures < MaxFailures
  /\ used' = [used EXCEPT !.failures = @ + 1]
  /\ late' = late \cup {[kind |-> kind, ver |-> v, copy |-> copy]}

\* A worker that nobody has closed, and one whose start() has resolved.
Up(w) == status[w] \in {"running", "stalled"}
Started(w) == recovering[w].keys = {} /\ recovering[w].sending = {} /\ ~recovering[w].failed

-------------------------------------------------------------------------------
(* Clients: publishLater and retryLater, a put and then a wake-up.           *)

\* bucket.put; its error is the caller's.
Put(id, notBefore, attempt) ==
  LET v == Len(writes) + 1 IN
  /\ \E w \in Workers : Up(w) /\ Started(w)
  /\ Len(writes) < MaxWrites
  /\ writes' = Append(writes, [id |-> id, notBefore |-> notBefore, attempt |-> attempt])
  /\ \/ /\ kv' = [kv EXCEPT ![id] = v]
        /\ calls' = calls \cup {v}
        /\ UNCHANGED <<late, used>>
     \/ /\ Fails("put", v, Callers)
        /\ UNCHANGED <<kv, calls>>
  /\ UNCHANGED <<now, accepted, wakeups, delivered, recent, status, recovering, tasks>>

PublishLater ==
  \E id \in Ids, notBefore \in NotBefores :
    /\ ReuseIds \/ \A v \in DOMAIN writes : IdOf(v) # id
    /\ Put(id, notBefore, 1)

\* A subscriber that was delivered an event asks for it again after a delay.
RetryLater ==
  \E v \in delivered, notBefore \in NotBefores :
    /\ AllowRetries
    /\ notBefore >= now
    /\ Put(IdOf(v), notBefore, writes[v].attempt + 1)

\* jetstream.publish of the wake-up ends the call, well or with its error.
SendWakeup(v) ==
  /\ v \in calls
  /\ calls' = calls \ {v}
  /\ \/ /\ wakeups' = wakeups \cup {Fresh(v, Callers)}
        /\ accepted' = accepted \cup {v}
        /\ UNCHANGED <<late, used>>
     \/ /\ Fails("wakeup", v, Callers)
        /\ UNCHANGED <<wakeups, accepted>>
  /\ UNCHANGED <<now, writes, kv, delivered, recent, status, recovering, tasks>>

-------------------------------------------------------------------------------
(* The broker and the clock (external).                                      *)

Tick ==
  /\ now < MaxNow \/ \E m \in wakeups : m.at > now
  /\ now' = now + 1
  /\ UNCHANGED <<clientVars, brokerVars, status, recovering, tasks, used>>

\* bucket.delete(id), of whatever the key holds by now.
DeleteKey(v) == kv' = [kv EXCEPT ![IdOf(v)] = 0]

LandLate ==
  \E r \in late :
    /\ late' = late \ {r}
    /\ \/ /\ r.kind = "put"
          /\ kv' = [kv EXCEPT ![IdOf(r.ver)] = r.ver]
          /\ UNCHANGED <<wakeups, delivered, recent>>
       \/ /\ r.kind = "wakeup"
          /\ wakeups' = wakeups \cup {Fresh(r.ver, r.copy)}
          /\ UNCHANGED <<kv, delivered, recent>>
       \/ /\ r.kind = "target"
          /\ StoreTarget(r.ver)
          /\ UNCHANGED <<kv, wakeups>>
       \/ /\ r.kind = "delete"
          /\ DeleteKey(r.ver)
          /\ UNCHANGED <<wakeups, delivered, recent>>
    /\ UNCHANGED <<now, clientVars, status, recovering, tasks, used>>

\* The duplicate window of the target stream passes.
Forget ==
  /\ recent # {}
  /\ recent' = {}
  /\ UNCHANGED <<now, clientVars, kv, wakeups, delivered, late, status, recovering, tasks, used>>

\* The wake-ups S return to the consumer, to be handed out at instant t.
Return(S, t) ==
  (wakeups \ S) \cup {[m EXCEPT !.to = None, !.at = t] : m \in S}

\* The wake-up that an ack or a nak of call t settles: a message object answers
\* the broker once only.
Of(t) == {m \in wakeups : ~t.settled /\ m.ver = t.ver /\ m.copy = t.copy}

\* A call of its worker that may still answer for the wake-up m.
AtWork(m) ==
  \E t \in tasks : ~t.settled /\ t.worker = m.to /\ t.ver = m.ver /\ t.copy = m.copy

\* ack_wait passes, while the worker is still at it or after it gave up silently.
AckWait(m) ==
  /\ m.to # None
  /\ wakeups' = Return({m}, 0)
  /\ \/ ~AtWork(m) /\ UNCHANGED used
     \/ /\ AtWork(m)
        /\ used.expiries < MaxExpiries
        /\ used' = [used EXCEPT !.expiries = @ + 1]
  /\ UNCHANGED <<now, clientVars, kv, delivered, recent, late, status, recovering, tasks>>

-------------------------------------------------------------------------------
(* Workers.                                                                  *)

\* start(): the loop runs, and bucket.keys() has listed the keys.
Start(w) ==
  /\ status[w] = "down"
  /\ status' = [status EXCEPT ![w] = "running"]
  /\ recovering' = [recovering EXCEPT ![w] =
       [start |-> used.starts + 1, keys |-> {id \in Ids : kv[id] # 0},
        sending |-> {}, failed |-> FALSE]]
  /\ used' = [used EXCEPT !.starts = @ + 1]
  /\ UNCHANGED <<now, clientVars, brokerVars, tasks>>

\* #recoverFromKV looks at a key: what it holds by now is sent a wake-up.
Recovered_Unchecked(id) == {kv[id]}    \* faulty: sends one for a deleted key too
Recovered(id) == IF kv[id] = 0 THEN {} ELSE {kv[id]}
RecoverReads(w) ==
  /\ Up(w)
  /\ recovering[w].sending = {}
  /\ \E id \in recovering[w].keys :
       recovering' = [recovering EXCEPT ![w].keys = @ \ {id}, ![w].sending = Recovered(id)]
  /\ UNCHANGED <<now, clientVars, brokerVars, status, tasks, used>>

\* bucket.keys() or bucket.get() rejects, and with it start(): the loop runs on,
\* and no client gets past the rejected start() until the worker is closed.
RecoverFails(w) ==
  /\ Up(w) /\ recovering[w].keys # {} /\ recovering[w].sending = {}
  /\ used.failures < MaxFailures
  /\ used' = [used EXCEPT !.failures = @ + 1]
  /\ recovering' = [recovering EXCEPT ![w].keys = {}, ![w].failed = TRUE]
  /\ UNCHANGED <<now, clientVars, brokerVars, status, tasks>>

\* The publish of the wake-up ends; its error is ignored.
CopyOf(w) == <<w, recovering[w].start>>
RecoverSends(w) ==
  /\ Up(w)
  /\ \E v \in recovering[w].sending :
       \/ /\ wakeups' = wakeups \cup {Fresh(v, CopyOf(w))}
          /\ UNCHANGED <<late, used>>
       \/ /\ Fails("wakeup", v, CopyOf(w))
          /\ UNCHANGED wakeups
  /\ recovering' = [recovering EXCEPT ![w].sending = {}]
  /\ UNCHANGED <<now, clientVars, kv, delivered, recent, status, tasks>>

\* The calls that the present #runLoop of a worker waits for.
Loop(w) == {t \in tasks : t.worker = w /\ t.loop = recovering[w].start}
AtLimit(w) == Cardinality(Loop(w)) >= Concurrency

\* #runLoop: the consumer hands over a wake-up.
Receive(w) ==
  /\ status[w] = "running"
  /\ ~AtLimit(w)
  /\ \E m \in wakeups :
       /\ m.to = None /\ m.at <= now
       /\ m.seen \/ Cardinality({n \in wakeups : n.seen}) < MaxAckPending
       /\ wakeups' = (wakeups \ {m}) \cup {[m EXCEPT !.to = w, !.seen = TRUE, !.at = 0]}
       /\ tasks' = tasks \cup {[worker |-> w, ver |-> m.ver, copy |-> m.copy,
                                loop |-> recovering[w].start, round |-> used.expiries,
                                step |-> "checking", settled |-> FALSE]}
  /\ UNCHANGED <<now, clientVars, kv, delivered, recent, late, status, recovering, used>>

\* #handleMessage when bucket.get has answered: a stale wake-up is dropped, an
\* early one returned until it is due, a due one published.
Stale_Early(v) == kv[IdOf(v)] # v \/ writes[v].notBefore > now  \* faulty: drops what is early
Stale(v) == kv[IdOf(v)] # v
Delay_Ignored(v) == 0    \* faulty
Delay(v) == writes[v].notBefore - now
Check(t) ==
  /\ t.step = "checking"
  /\ \/ /\ Stale(t.ver)
        /\ wakeups' = wakeups \ Of(t)
        /\ tasks' = tasks \ {t}
     \/ /\ ~Stale(t.ver) /\ Delay(t.ver) > 0
        /\ wakeups' = Return(Of(t), writes[t.ver].notBefore)
        /\ tasks' = tasks \ {t}
     \/ /\ ~Stale(t.ver) /\ Delay(t.ver) <= 0
        /\ tasks' = (tasks \ {t}) \cup {[t EXCEPT !.step = "publishing"]}
        /\ UNCHANGED wakeups
  /\ UNCHANGED <<now, clientVars, kv, delivered, recent, late, status, recovering, used>>

\* bucket.get rejects outside of the try block: the call ends without an answer
\* for its wake-up, which stays handed out until ack_wait. At the limit #runLoop
\* waits for the first of its calls to end (Promise.race), and rejects with it:
\* the worker takes no more wake-ups, and close() has nothing left to wait for.
AfterRejection(t) ==
  IF t \in Loop(t.worker) /\ AtLimit(t.worker)
  THEN [running |-> "stalled", closing |-> "down", stalled |-> "stalled", down |-> "down"]
       [status[t.worker]]
  ELSE status[t.worker]
CheckFails(t) ==
  /\ t.step = "checking"
  /\ used.failures < MaxFailures
  /\ used' = [used EXCEPT !.failures = @ + 1]
  /\ tasks' = tasks \ {t}
  /\ status' = [status EXCEPT ![t.worker] = AfterRejection(t)]
  /\ UNCHANGED <<now, clientVars, brokerVars, recovering>>

\* publishImmediate resolves.
Publish(t) ==
  /\ t.step = "publishing"
  /\ StoreTarget(t.ver)
  /\ tasks' = (tasks \ {t}) \cup {[t EXCEPT !.step = "deleting"]}
  /\ UNCHANGED <<now, clientVars, kv, wakeups, late, status, recovering, used>>

\* bucket.delete resolves, and the wake-up is acknowledged.
Delete(t) ==
  /\ t.step = "deleting"
  /\ DeleteKey(t.ver)
  /\ wakeups' = wakeups \ Of(t)
  /\ tasks' = tasks \ {t}
  /\ UNCHANGED <<now, clientVars, delivered, recent, late, status, recovering, used>>

\* publishImmediate or bucket.delete rejects: the wake-up is returned.
AfterFailure_Acked(t) == wakeups \ Of(t)    \* faulty: an ack in the catch block
AfterFailure(t) == Return(Of(t), now + RetryDelay)
Resumed_Swallowed(t) == {[t EXCEPT !.step = "deleting"]}    \* faulty: as if it had resolved
Resumed(t) == {}
DeliveryFails(t) ==
  /\ \/ t.step = "publishing" /\ Fails("target", t.ver, Callers)
     \/ t.step = "deleting" /\ Fails("delete", t.ver, Callers)
  /\ wakeups' = AfterFailure(t)
  /\ tasks' = (tasks \ {t}) \cup Resumed(t)
  /\ UNCHANGED <<now, clientVars, kv, delivered, recent, status, recovering>>

\* What a worker that stops had on the wire may still be applied.
OnTheWire(w) == {[kind |-> "wakeup", ver |-> v, copy |-> CopyOf(w)] : v \in recovering[w].sending}
NoRecovery(w) ==
  recovering' = [recovering EXCEPT ![w].keys = {}, ![w].sending = {}, ![w].failed = FALSE]

\* #inFlight: the wake-ups a worker has a call for that may still answer.
InFlight(w) == {m \in wakeups : m.to = w /\ AtWork(m)}

\* close(): what is in flight is returned at once and yet runs to its end. A
\* #runLoop that has rejected is not waited for, nor are its calls.
Close(w) ==
  /\ Up(w)
  /\ used.stops < MaxStops
  /\ status' = [status EXCEPT ![w] = IF @ = "running" THEN "closing" ELSE "down"]
  /\ NoRecovery(w)
  /\ late' = late \cup OnTheWire(w)
  /\ wakeups' = Return(InFlight(w), 0)
  /\ used' = [used EXCEPT !.stops = @ + 1]
  /\ tasks' = {[t EXCEPT !.settled = @ \/ t.worker = w] : t \in tasks}
  /\ UNCHANGED <<now, clientVars, kv, delivered, recent>>

\* #runLoop has waited for its calls.
Closed(w) ==
  /\ status[w] = "closing"
  /\ Loop(w) = {}
  /\ status' = [status EXCEPT ![w] = "down"]
  /\ UNCHANGED <<now, clientVars, brokerVars, recovering, tasks, used>>

\* The process ends; what it was handed comes again after ack_wait.
Crash(w) ==
  /\ status[w] # "down" \/ \E t \in tasks : t.worker = w
  /\ used.stops < MaxStops
  /\ status' = [status EXCEPT ![w] = "down"]
  /\ NoRecovery(w)
  /\ tasks' = {t \in tasks : t.worker # w}
  /\ late' = late \cup OnTheWire(w) \cup
       {[kind |-> "target", ver |-> t.ver, copy |-> Callers] : t \in {u \in tasks \ tasks' : u.step = "publishing"}}
       \cup
       {[kind |-> "delete", ver |-> t.ver, copy |-> Callers] : t \in {u \in tasks \ tasks' : u.step = "deleting"}}
  /\ used' = [used EXCEPT !.stops = @ + 1]
  /\ UNCHANGED <<now, clientVars, kv, wakeups, delivered, recent>>

-------------------------------------------------------------------------------
(* The specification.                                                        *)

Init ==
  /\ now = 0
  /\ writes = <<>> /\ calls = {} /\ accepted = {}
  /\ kv = [id \in Ids |-> 0]
  /\ wakeups = {} /\ delivered = {} /\ recent = {} /\ late = {}
  /\ status = [w \in Workers |-> "down"]
  /\ recovering = [w \in Workers |-> [start |-> 0, keys |-> {}, sending |-> {}, failed |-> FALSE]]
  /\ tasks = {}
  /\ used = [failures |-> 0, stops |-> 0, expiries |-> 0, starts |-> 0]

Next ==
  \/ PublishLater \/ RetryLater
  \/ \E v \in calls : SendWakeup(v)
  \/ \E w \in Workers :
       \/ Start(w) \/ RecoverReads(w) \/ RecoverFails(w) \/ RecoverSends(w)
       \/ Receive(w) \/ Close(w) \/ Closed(w) \/ Crash(w)
  \/ \E t \in tasks : Check(t) \/ CheckFails(t) \/ Publish(t) \/ Delete(t) \/ DeliveryFails(t)
  \/ \E m \in wakeups : AckWait(m)
  \/ LandLate \/ Forget \/ Tick

Spec == Init /\ [][Next]_vars

\* What goes on without a caller: the clock, the restart of what is down, the
\* consumer loop, the calls under way and the answers of the broker.
Progresses ==
  \/ Tick
  \/ \E v \in calls : SendWakeup(v)
  \/ \E w \in Workers :
       Start(w) \/ RecoverReads(w) \/ RecoverSends(w) \/ Receive(w) \/ Closed(w)
  \/ \E t \in tasks : Check(t) \/ Publish(t) \/ Delete(t)
  \/ \E m \in wakeups : ~AtWork(m) /\ AckWait(m)

FairSpec == Spec /\ WF_vars(Progresses)

-------------------------------------------------------------------------------
(* Properties.                                                               *)

TypeOK ==
  /\ now \in Nat
  /\ writes \in Seq(Write)
  /\ calls \subseteq DOMAIN writes /\ accepted \subseteq DOMAIN writes
  /\ kv \in [Ids -> {0} \cup DOMAIN writes]
  /\ wakeups \subseteq Wakeup
  /\ delivered \subseteq DOMAIN writes
  /\ recent \subseteq Ids \X Nat
  /\ late \subseteq Request
  /\ status \in [Workers -> {"down", "running", "closing", "stalled"}]
  /\ recovering \in [Workers -> Recovery]
  /\ \A w \in Workers : recovering[w].sending \subseteq DOMAIN writes
  /\ tasks \subseteq Task
  /\ \A m \in wakeups \cup tasks \cup late : m.ver \in DOMAIN writes
  /\ used \in Spent

\* No event is published before the notBefore it was scheduled with.
NeverEarly == \A v \in delivered : writes[v].notBefore <= now

\* The latest schedule that was accepted for an id is delivered, or is what
\* the bucket holds for the id.
AtLeastOnce ==
  \A v \in accepted :
    \/ v \in delivered
    \/ kv[IdOf(v)] = v
    \/ \E u \in DOMAIN writes : u > v /\ IdOf(u) = IdOf(v)

\* The weaker promise that survives the reuse of an id: for an id somebody
\* scheduled, some event was delivered or some schedule is in the bucket.
AtLeastOncePerId ==
  \A v \in accepted :
    \/ kv[IdOf(v)] # 0
    \/ \E u \in delivered : IdOf(u) = IdOf(v)

\* An accepted schedule that is the value of its key has a wake-up that the
\* consumer still has to acknowledge: without one it would sleep in the bucket
\* until some worker is restarted.
StoredHasWakeup ==
  \A v \in accepted : kv[IdOf(v)] = v => \E m \in wakeups : m.ver = v

\* Again and again, everything accepted so far has been delivered.
EventuallyDelivered == []<>(accepted \subseteq delivered)

\* The scheduler implements the promise of PubSubScheduler.
Requests == [v \in DOMAIN writes |-> [id |-> IdOf(v), notBefore |-> writes[v].notBefore]]
Stored == {v \in DOMAIN writes : kv[IdOf(v)] = v}
Promise == INSTANCE DelayedDelivery WITH requests <- Requests, stored <- Stored
KeepsPromise == Promise!Spec
=============================================================================
