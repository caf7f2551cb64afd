-------------------------- MODULE NatsConnectionPool --------------------------
(***************************************************************************)
(* The pool of NATS connections, src/nats/connection.ts of @protoutil/     *)
(* pubsub, and the owners that share it: the transports of nats/           *)
(* transport.ts and the schedulers of nats/scheduler.ts, in what their     *)
(* startup and close() do with it.                                         *)
(*                                                                         *)
(* One server and configuration, so one key of sharedConnections. An entry *)
(* of the map is named by its generation: 0 stands for no entry. The       *)
(* connection itself is external: connect() opens the socket or fails, and *)
(* then jetstreamManager() succeeds or fails.                              *)
(***************************************************************************)
EXTENDS Integers, FiniteSets

CONSTANTS
  Owners,      \* transports and schedulers
  Sequential,  \* does each caller await one call of an owner before the next?
  MaxOpens, MaxCloses  \* bounds: connections opened, overlapping close() calls

ASSUME Assumption ==
  /\ IsFiniteSet(Owners)
  /\ Sequential \in BOOLEAN /\ MaxOpens \in Nat /\ MaxCloses \in Nat

Generations == 1 .. MaxOpens

VARIABLES
  entry,      \* sharedConnections.get(key)
  opened,     \* the generations created so far
  refs,       \* entry.refs of each generation
  conn,       \* "none", "connecting", "connected", "open", "failed", "orphaned" or "closed"
  startup,    \* #startup of each owner: "none", "pending", "ready" or "failed"
  acquiring,  \* the acquireSharedNatsConnection calls of an owner on a generation
  key,        \* is #sharedConnectionKey of an owner set?
  using,      \* the generation an owner took its #jetstream from
  closing,    \* the close() calls that await what the owner must close first
  releasing   \* the close() calls in releaseSharedNatsConnection, and what they close

poolVars  == <<entry, opened, refs>>
ownerVars == <<startup, acquiring, key, using, closing, releasing>>
vars == <<poolVars, conn, ownerVars>>

\* Its startup promise is pending, or has rejected; its socket can still be closed.
Starting == {"connecting", "connected"}
Rejected == {"failed", "orphaned"}
Live == {"connected", "open"}

\* The calls of owner o that are suspended.
Idle(o) ==
  /\ \A g \in Generations : acquiring[o][g] = 0
  /\ closing[o] = 0
  /\ \A g \in {0} \cup Generations : releasing[o][g] = 0
MayCall(o) == Sequential => Idle(o)

-------------------------------------------------------------------------------
(* The connection (external).                                                *)

Connection(g, from, to) ==
  /\ conn[g] = from
  /\ conn' = [conn EXCEPT ![g] = to]
  /\ UNCHANGED <<poolVars, ownerVars>>

Connects(g)     == Connection(g, "connecting", "connected")
ConnectFails(g) == Connection(g, "connecting", "failed")

\* createSharedConnection awaits jetstreamManager() on the open connection: if
\* that rejects, the only reference to the connection is lost with it.
ManagerReady(g) == Connection(g, "connected", "open")
ManagerFails(g) == Connection(g, "connected", "orphaned")

-------------------------------------------------------------------------------
(* Owners.                                                                   *)

\* sharedConnections.get(key), or the generation to create.
Found_Nothing == opened + 1    \* faulty: no look into the map
Found == IF entry = 0 THEN opened + 1 ELSE entry

\* start(): the first call makes the startup promise, and enters acquire...,
\* which finds the entry or creates it, and counts itself before it awaits.
Start(o) ==
  /\ MayCall(o)
  /\ startup[o] = "none"
  /\ LET g == Found IN
       /\ g \in Generations
       /\ entry' = g
       /\ opened' = IF g > opened THEN g ELSE opened
       /\ conn' = IF g > opened THEN [conn EXCEPT ![g] = "connecting"] ELSE conn
       /\ refs' = [refs EXCEPT ![g] = @ + 1]
       /\ acquiring' = [acquiring EXCEPT ![o][g] = @ + 1]
  /\ startup' = [startup EXCEPT ![o] = "pending"]
  /\ UNCHANGED <<key, using, closing, releasing>>

\* The startup of the entry has resolved: the owner keeps its key and clients.
Acquired(o, g) ==
  /\ acquiring[o][g] > 0
  /\ conn[g] \in {"open", "closed"}
  /\ acquiring' = [acquiring EXCEPT ![o][g] = @ - 1]
  /\ key' = [key EXCEPT ![o] = TRUE]
  /\ using' = [using EXCEPT ![o] = g]
  /\ startup' = [startup EXCEPT ![o] = IF @ = "pending" THEN "ready" ELSE @]
  /\ UNCHANGED <<poolVars, conn, closing, releasing>>

\* The startup of the entry has rejected: acquire... takes its count back, and
\* the owner keeps the rejected promise until it is closed.
EntryAfterError_Kept(g) == entry    \* faulty: a failed entry stays in the map
EntryAfterError(g) == IF refs[g] = 1 /\ entry = g THEN 0 ELSE entry
AcquireFails(o, g) ==
  /\ acquiring[o][g] > 0
  /\ conn[g] \in Rejected
  /\ acquiring' = [acquiring EXCEPT ![o][g] = @ - 1]
  /\ refs' = [refs EXCEPT ![g] = @ - 1]
  /\ entry' = EntryAfterError(g)
  /\ startup' = [startup EXCEPT ![o] = IF @ = "pending" THEN "failed" ELSE @]
  /\ UNCHANGED <<opened, conn, key, using, closing, releasing>>

\* close() closes subscriptions or the scheduler, and awaits that.
Close(o) ==
  /\ MayCall(o)
  /\ closing[o] < MaxCloses
  /\ closing' = [closing EXCEPT ![o] = @ + 1]
  /\ UNCHANGED <<poolVars, conn, startup, acquiring, key, using, releasing>>

\* ... then drops its clients and, if it has a key, releases what is in the map
\* under it; the last reference removes the entry and closes its connection.
LastOut_Always(g) == TRUE    \* faulty: closes whoever else refers to it
LastOut_OneTooMany(g) == refs[g] < 1    \* faulty: compares the count of before
LastOut(g) == refs[g] <= 1
Release(o) ==
  /\ closing[o] > 0
  /\ closing' = [closing EXCEPT ![o] = @ - 1]
  /\ using' = [using EXCEPT ![o] = 0]
  /\ LET counted == key[o] /\ entry # 0
         last    == counted /\ LastOut(entry)
         target  == IF last THEN entry ELSE 0
     IN /\ refs' = IF counted THEN [refs EXCEPT ![entry] = @ - 1] ELSE refs
        /\ entry' = IF last THEN 0 ELSE entry
        /\ releasing' = [releasing EXCEPT ![o][target] = @ + 1]
  /\ UNCHANGED <<opened, conn, startup, acquiring, key>>

\* ... and forgets the key and the startup promise when that has returned.
Released(o, g) ==
  /\ releasing[o][g] > 0
  /\ releasing' = [releasing EXCEPT ![o][g] = @ - 1]
  /\ IF g = 0 THEN UNCHANGED conn
     ELSE /\ conn[g] \notin Starting
          /\ conn' = [conn EXCEPT ![g] = IF @ = "open" THEN "closed" ELSE @]
  /\ key' = [key EXCEPT ![o] = FALSE]
  /\ startup' = [startup EXCEPT ![o] = "none"]
  /\ UNCHANGED <<poolVars, acquiring, using, closing>>

-------------------------------------------------------------------------------
(* The specification.                                                        *)

Init ==
  /\ entry = 0 /\ opened = 0
  /\ refs = [g \in Generations |-> 0]
  /\ conn = [g \in Generations |-> "none"]
  /\ startup = [o \in Owners |-> "none"]
  /\ acquiring = [o \in Owners |-> [g \in Generations |-> 0]]
  /\ key = [o \in Owners |-> FALSE]
  /\ using = [o \in Owners |-> 0]
  /\ closing = [o \in Owners |-> 0]
  /\ releasing = [o \in Owners |-> [g \in {0} \cup Generations |-> 0]]

Next ==
  \/ \E g \in Generations : Connects(g) \/ ConnectFails(g) \/ ManagerReady(g) \/ ManagerFails(g)
  \/ \E o \in Owners : Start(o) \/ Close(o) \/ Release(o) \/ Released(o, 0)
  \/ \E o \in Owners, g \in Generations : Acquired(o, g) \/ AcquireFails(o, g) \/ Released(o, g)

Spec == Init /\ [][Next]_vars

-------------------------------------------------------------------------------
(* Properties.                                                               *)

TypeOK ==
  /\ entry \in {0} \cup Generations
  /\ opened \in {0} \cup Generations
  /\ refs \in [Generations -> Nat]
  /\ conn \in [Generations -> {"none", "closed"} \cup Starting \cup Rejected \cup Live]
  /\ startup \in [Owners -> {"none", "pending", "ready", "failed"}]
  /\ acquiring \in [Owners -> [Generations -> Nat]]
  /\ key \in [Owners -> BOOLEAN]
  /\ using \in [Owners -> {0} \cup Generations]
  /\ closing \in [Owners -> Nat]
  /\ releasing \in [Owners -> [{0} \cup Generations -> Nat]]

\* No owner is left with a connection that another owner's close() has closed.
UsedIsOpen == \A o \in Owners : using[o] # 0 => conn[using[o]] = "open"

\* A connection that is open is used by an owner, or a call under way will use
\* or close it: none is left open behind the back of the pool, but the one
\* whose jetstreamManager() failed ("orphaned"), which nobody can close.
NothingLeaks ==
  \A g \in Generations : conn[g] \in Live =>
    \E o \in Owners :
      using[o] = g \/ acquiring[o][g] > 0 \/ closing[o] > 0 \/ releasing[o][g] > 0

\* Owners of one configuration share one connection: a second one is opened
\* only while the first is being closed.
OneConnection ==
  \A g, h \in Generations :
    conn[g] \in Starting \cup Live /\ conn[h] \in Starting \cup Live /\ g # h =>
      \E o \in Owners : releasing[o][g] > 0 \/ releasing[o][h] > 0

\* The map does not keep an entry whose startup failed, before the socket was
\* open or after it, once the calls that waited for it have seen the error: the
\* next owner to start tries again.
FailedIsForgotten ==
  \A g \in Generations : entry = g /\ conn[g] \in Rejected =>
    \E o \in Owners : acquiring[o][g] > 0
=============================================================================
