--------------------------- MODULE DelayedDelivery ---------------------------
(***************************************************************************)
(* What every scheduler of @protoutil/pubsub promises, whatever broker it  *)
(* is built on: the PubSubScheduler interface of src/types.ts.             *)
(*                                                                         *)
(* A request is a call of publishLater or retryLater. It names the         *)
(* CloudEvent id it schedules and the instant before which the event must  *)
(* not be delivered. A request is STORED while the backing broker holds it *)
(* durably as the active schedule of its id. The promise has two halves:   *)
(*   - a stored request is delivered no earlier than its notBefore;        *)
(*   - a stored request stops being stored only when it has been delivered *)
(*     or when a later request for the same id takes its place.            *)
(***************************************************************************)
EXTENDS Integers, Sequences

CONSTANTS
  Ids,         \* CloudEvent ids
  NotBefores   \* the instants requests may name, a subset of Nat

VARIABLES
  now,         \* the clock of the schedulers
  requests,    \* every request made so far: <<[id, notBefore], ...>>
  stored,      \* the requests (indices of requests) that are active schedules
  delivered    \* the requests whose event reached the target topic

vars == <<now, requests, stored, delivered>>

Init ==
  /\ now = 0
  /\ requests = <<>>
  /\ stored = {}
  /\ delivered = {}

\* Storing v makes it the one active schedule of its id.
Replace(active, reqs, v) == {u \in active : reqs[u].id # reqs[v].id} \cup {v}

\* The caller makes a request; the broker stores it at once, or not yet.
Request(id, notBefore) ==
  /\ requests' = Append(requests, [id |-> id, notBefore |-> notBefore])
  /\ \/ stored' = Replace(stored, requests', Len(requests'))
     \/ UNCHANGED stored
  /\ UNCHANGED <<now, delivered>>

\* A request that the caller was told nothing about is stored later.
Store(v) ==
  /\ UNCHANGED <<now, requests, delivered>>
  /\ stored' = Replace(stored, requests, v)

Deliver(v) ==
  /\ delivered' = delivered \cup {v}
  /\ requests[v].notBefore <= now
  /\ v \in stored
  /\ UNCHANGED <<now, requests, stored>>

\* The active schedule is removed: only once its event has been delivered.
Retire(v) ==
  /\ UNCHANGED <<now, requests, delivered>>
  /\ v \in delivered
  /\ v \in stored
  /\ stored' = stored \ {v}

Tick ==
  /\ now' = now + 1
  /\ UNCHANGED <<requests, stored, delivered>>

Next ==
  \/ \E id \in Ids, notBefore \in NotBefores : Request(id, notBefore)
  \/ \E v \in DOMAIN requests : Store(v) \/ Deliver(v) \/ Retire(v)
  \/ Tick

Spec == Init /\ [][Next]_vars
=============================================================================
