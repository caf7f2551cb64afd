------------------------------ MODULE Repository ------------------------------
(***************************************************************************)
(* The repository of @protoutil/repo, src/repository.ts, on one of its     *)
(* four engines: src/sqlite/engine.ts, src/postgres/engine.ts,             *)
(* src/mysql/engine.ts and src/mongodb/engine.ts.                          *)
(*                                                                         *)
(* Callers share one repository and one engine. An operation is a few      *)
(* database statements with an await before each, and the statements of    *)
(* other callers come in between. A batch runs in a transaction of its own *)
(* unless the caller's engine.transaction() callback passes it one.        *)
(*                                                                         *)
(* The databases are external, and modelled as far as the engines rely on  *)
(* them: a statement is atomic; the identifier is a primary key; a row     *)
(* that a transaction wrote is locked and its old version is what others   *)
(* see; MySQL and MongoDB transactions read from a snapshot. SQLite has    *)
(* one connection for everybody, so none of this applies to it. Checksums  *)
(* are injective: an etag is the message it was computed of.               *)
(***************************************************************************)
EXTENDS FieldMasks

CONSTANTS
  Callers,
  Ids,       \* the identifiers of the resources, numbers for their order
  Engines,   \* of "sqlite", "postgres", "mysql" and "mongodb"
  Workloads, \* what is run: a set of Workload
  Tables,    \* the rows there are at first: a set of functions [Ids -> Row]
  MaxCalls   \* bound of all the workloads

ASSUME RepositoryAssumption ==
  /\ IsFiniteSet(Callers)
  /\ IsFiniteSet(Ids) /\ Ids \subseteq Nat
  /\ Engines \subseteq {"sqlite", "postgres", "mysql", "mongodb"}
  /\ MaxCalls \in Nat

VARIABLES
  engine,
  workload, \* the configuration, what callers ask for, and the bounds
  table,    \* the rows as the database has them, uncommitted changes included
  tx,       \* the open transaction of each caller: its savepoints, outermost first
  snap,     \* the snapshot its transaction reads from, None before the first read
  call,     \* the operation each caller is in
  outcome,  \* history: how each call ended, the rows it wrote and those it is told of
  leased,   \* the callers that hold a connection of the pool
  used      \* how much of each bound is spent

vars == <<engine, workload, table, tx, snap, call, outcome, leased, used>>

-------------------------------------------------------------------------------
(* Data.                                                                     *)

\* hist, a history variable that rollbacks undo with the row: the calls that
\* wrote it. loose: the last of them wrote less than the message it computed, or
\* over another version of the row than it had read.
Calls == 1 .. MaxCalls
Row == [live : BOOLEAN, msg : Resource, etag : Resource, loose : BOOLEAN, hist : Seq(Calls)]
SomeRows(f) == DOMAIN f \subseteq Ids /\ f \in [DOMAIN f -> Row]
Over(new, old) ==
  [i \in DOMAIN new \cup DOMAIN old |-> IF i \in DOMAIN new THEN new[i] ELSE old[i]]

Issued == Cardinality({k \in Calls : outcome[k].status # "none"})
Idle == [pc |-> "idle"]

Batches == {"batchCreate", "batchUpdate", "batchDelete", "batchGet"}
Creates == {"create", "batchCreate"}
Reads   == {"get", "batchGet"}
Singles == {"get", "create", "update", "delete"}
Pooled  == engine \in {"postgres", "mysql"}

\* A query is a partial resource: by identifier, or by a value of n. What is
\* created has an identifier, and batchUpdate finds what it has read by it.
RequestItem == [query : [id : Ids \cup {None}, n : Nat], msg : Resource, mask : ValidMasks]
Request ==
  {r \in [op : Batches \cup Singles \cup {"list"}, items : Seq(RequestItem),
          validateOnly : BOOLEAN, size : Nat \ {0}] :
     /\ r.op \in Singles => Len(r.items) = 1
     /\ r.op \in Creates \cup {"batchUpdate"} => \A k \in DOMAIN r.items : r.items[k].query.id # None}

Matches(query, i, row) ==
  row.live /\ IF query.id # None THEN i = query.id ELSE row.msg.n = query.n
Found(items, view) ==
  {i \in Ids : \E k \in DOMAIN items : Matches(items[k].query, i, view[i])}

\* hooks: the fields that the column configuration has a serializer for.
Workload == [pool : Nat \ {0}, hooks : SUBSET {"n", "s", "l"}, requests : SUBSET Request,
             calls : 0 .. MaxCalls, transactions : Nat, failures : Nat]

ASSUME InputAssumption ==
  /\ Workloads \subseteq Workload
  /\ Tables \subseteq [Ids -> {row \in Row : row.hist = <<>> /\ row.etag = row.msg}]
  /\ None \notin Ids \cup Part \cup Seq(Ids) \cup [Ids -> Row]

-------------------------------------------------------------------------------
(* Transactions.                                                             *)

Others(c) == Callers \ {c}
Touched(c) == UNION {DOMAIN tx[c][k].undo : k \in DOMAIN tx[c]}
\* The row before the transaction of c touched it.
Before(c, i) ==
  LET k == CHOOSE k \in DOMAIN tx[c] :
             i \in DOMAIN tx[c][k].undo /\ \A j \in 1 .. k - 1 : i \notin DOMAIN tx[c][j].undo
  IN tx[c][k].undo[i]

Committed(c) ==
  [i \in Ids |-> IF \E d \in Others(c) : i \in Touched(d)
                   THEN Before(CHOOSE d \in Others(c) : i \in Touched(d), i)
                   ELSE table[i]]
\* What a statement of c reads.
View(c) ==
  IF engine = "sqlite" THEN table
  ELSE IF snap[c] = None THEN Committed(c)
  ELSE [i \in Ids |-> IF i \in Touched(c) THEN table[i] ELSE snap[c][i]]
SnapshotOf(c) ==
  IF tx[c] # <<>> /\ snap[c] = None /\ engine \in {"mysql", "mongodb"} THEN View(c) ELSE snap[c]

\* Whose transaction a write of c becomes part of.
Owners(c) == {d \in Callers : tx[d] # <<>> /\ (engine = "sqlite" \/ d = c)}

\* The innermost savepoint of o remembers the rows that are about to be written.
Remember(o, new, calls) ==
  [tx EXCEPT ![o][Len(tx[o])] =
     [undo  |-> [i \in DOMAIN @.undo \cup DOMAIN new |->
                   IF i \in DOMAIN @.undo THEN @.undo[i] ELSE table[i]],
      calls |-> @.calls \cup calls]]

Ended(calls, status) ==
  [k \in Calls |-> IF k \in calls THEN [outcome[k] EXCEPT !.status = status] ELSE outcome[k]]

-------------------------------------------------------------------------------
(* How a call ends.                                                          *)

\* An error: what the caller has open is rolled back before the call rejects. (A
\* callback lets the error of a call end it: one that catches it and returns
\* would commit what the failed call had written.)
Fail(c) ==
  IF tx[c] = <<>>
    THEN /\ call' = [call EXCEPT ![c] = Idle]
         /\ outcome' = Ended({call[c].no}, "rejected")
    ELSE call' = [call EXCEPT ![c].pc = "failing"] /\ UNCHANGED outcome

\* A call that returns without a write.
Return(c) ==
  IF call[c].own
    THEN call' = [call EXCEPT ![c].pc = "commit"] /\ UNCHANGED outcome
    ELSE /\ call' = [call EXCEPT ![c] = Idle]
         /\ outcome' = Ended({call[c].no}, "ok")

\* A write that returns inside a transaction awaits its end: of the caller's
\* own, or, on SQLite, of one that happens to be open on the connection.
WriteStatus(c) ==
  IF Owners(c) = {} THEN "ok" ELSE IF c \in Owners(c) THEN "tentative" ELSE "guest"

-------------------------------------------------------------------------------
(* What an operation computes.                                               *)

\* outputOnlyMask: every leaf that is not OUTPUT_ONLY.
WildcardUpdateMask ==
  << <<"n">>, <<"s", "x">>, <<"s", "y">>, <<"l", "*", "x">>, <<"l", "*", "y">> >>

\* merge(): zero scalars and unset messages are skipped, lists are appended.
Given(old, new) == IF new # 0 THEN new ELSE old
MergeParts(old, new) ==
  IF new = None THEN old
  ELSE IF old = None THEN new
  ELSE [x |-> Given(old.x, new.x), y |-> Given(old.y, new.y)]
Merge(old, new) ==
  [n |-> Given(old.n, new.n), s |-> MergeParts(old.s, new.s), l |-> old.l \o new.l]

\* mergeForUpdate, with clearMissingMessageFields.
MergeForUpdate(existing, patch, mask) ==
  LET effective == IF mask = Wildcard THEN WildcardUpdateMask ELSE mask
      merged    == Merge(existing, ApplyFieldMask(patch, effective))
  IN IF <<"s">> \in ToSet(effective) /\ patch.s = None THEN [merged EXCEPT !.s = None] ELSE merged

\* setEtag comes after the merge.
Etag_BeforeMerge(existing, merged) == existing   \* faulty
Etag(existing, merged) == merged

\* serializeMessage always calls the serializer of a field; a field that has none
\* is left out when it has the default value. maskToColumns knows whole fields only.
Serialized(msg) == workload.hooks \cup {f \in DOMAIN Nothing : msg[f] # Nothing[f]}
Columns_All(msg, mask) == Serialized(msg)   \* faulty: the full row
Columns(msg, mask) ==
  IF mask = Wildcard THEN Serialized(msg)
  ELSE Serialized(msg) \cap {p[1] : p \in {q \in ToSet(mask) : Len(q) = 1}}
\* The patch empties the message field, and yet its column is not written.
Skipped(item, columns) ==
  <<"s">> \in ToSet(item.mask) /\ item.msg.s = None /\ "s" \notin columns
WithColumns(old, columns, new) == [f \in DOMAIN old |-> IF f \in columns THEN new[f] ELSE old[f]]

Stored(i, msg, etag, loose, k) ==
  [live |-> TRUE, msg |-> msg, etag |-> etag, loose |-> loose, hist |-> Append(table[i].hist, k)]
Gone(i, k) ==
  [live |-> FALSE, msg |-> Nothing, etag |-> Nothing, loose |-> FALSE,
   hist |-> Append(table[i].hist, k)]

\* The rows a write statement of c matches, and those whose locks it needs.
Hits(c) == Found(call[c].items, IF engine = "mongodb" THEN View(c) ELSE table)
Wanted(c) ==
  LET items == call[c].items IN
  IF call[c].op \in Creates THEN {items[k].query.id : k \in DOMAIN items}
  ELSE Hits(c) \cup Found(items, Committed(c))
         \cup (IF call[c].op = "update" /\ items[1].mask = Wildcard THEN DOMAIN call[c].read ELSE {})
Locked(c, i) == engine # "sqlite" /\ \E d \in Others(c) : i \in Touched(d)

\* MongoDB refuses to write, in a transaction, what others wrote since the snapshot.
Conflict(c) ==
  /\ engine = "mongodb" /\ tx[c] # <<>>
  /\ \E i \in Wanted(c) : Locked(c, i) \/ table[i].hist # View(c)[i].hist
Blocked(c) == ~Conflict(c) /\ \E i \in Wanted(c) : Locked(c, i)
WaitsFor(c, d) ==
  call[c].pc = "write" /\ Blocked(c) /\ d # c /\ Touched(d) \cap Wanted(c) # {}
\* In a circle of transactions, each waiting for the next.
Deadlocked(c) ==
  \E circle \in SUBSET Callers :
    /\ c \in circle
    /\ \E next \in [circle -> circle] :
         circle = {next[d] : d \in circle} /\ \A d \in circle : WaitsFor(d, next[d])

\* insertOne, insertMany.
Inserted(c) ==
  LET items == call[c].items
      At(i) == CHOOSE k \in DOMAIN items : items[k].query.id = i
  IN [i \in Wanted(c) |-> Stored(i, items[At(i)].msg, items[At(i)].msg, FALSE, call[c].no)]
DuplicateKey(c) ==
  LET items == call[c].items IN
  /\ call[c].op \in Creates
  /\ \/ \E i \in Wanted(c) : table[i].live
     \/ Cardinality(Wanted(c)) < Len(items)

\* updateOne writes every row the filter matches now, MongoDB the first one. A
\* full row carries the identifier that was read, so it may rename a row.
Updated(c, rows) ==
  LET item == call[c].items[1]
      id   == CHOOSE i \in DOMAIN call[c].read : TRUE
      read == call[c].read[id]
      msg  == MergeForUpdate(read.msg, item.msg, item.mask)
      Contents(i) == WithColumns(table[i].msg, Columns(msg, item.mask), msg)
      New(i) == Stored(i, Contents(i), Etag(read.msg, msg),
                       \/ i # id \/ table[i].hist # read.hist
                       \/ \E p \in ToSet(item.mask) : Len(p) > 1
                       \/ Skipped(item, Columns(msg, item.mask)),
                       call[c].no)
      Renamed == Stored(id, Contents(CHOOSE i \in rows : TRUE), Etag(read.msg, msg), TRUE, call[c].no)
  IN IF item.mask = Wildcard /\ rows \notin {{}, {id}}
       THEN [i \in rows \cup {id} |-> IF i = id THEN Renamed ELSE Gone(i, call[c].no)]
       ELSE [i \in rows |-> New(i)]
IdentifierTaken(c, rows) ==
  /\ call[c].op = "update" /\ call[c].items[1].mask = Wildcard
  /\ rows \notin {{}} \cup {{i} : i \in DOMAIN call[c].read}
  /\ Cardinality(rows) > 1 \/ \E i \in DOMAIN call[c].read : table[i].live

\* replaceMany writes the columns that any of the rows has, MongoDB the document.
Replaced(c) ==
  LET items == call[c].items
      At(i) == items[CHOOSE k \in DOMAIN items : items[k].query.id = i]
      New(i) == MergeForUpdate(call[c].read[i].msg, At(i).msg, At(i).mask)
      columns == IF engine = "mongodb" THEN DOMAIN Nothing
                 ELSE UNION {Serialized(New(i)) : i \in DOMAIN call[c].read}
  IN [i \in Hits(c) |->
        Stored(i, WithColumns(table[i].msg, columns, New(i)), Etag(call[c].read[i].msg, New(i)),
               table[i].hist # call[c].read[i].hist \/ Skipped(At(i), columns), call[c].no)]

\* deleteOne, deleteMany.
Deleted(c, rows) == [i \in rows |-> Gone(i, call[c].no)]

\* What the statement may do, by the rows it picks.
RowSets(c) ==
  IF engine = "mongodb" /\ call[c].op \in {"update", "delete"} /\ Hits(c) # {}
    THEN {{i} : i \in Hits(c)} ELSE {Hits(c)}
Effect(c, rows) ==
  CASE call[c].op \in Creates -> Inserted(c)
    [] call[c].op = "update" -> Updated(c, rows)
    [] call[c].op = "batchUpdate" -> Replaced(c)
    [] call[c].op \in {"delete", "batchDelete"} -> Deleted(c, rows)
Refused(c, rows) == Conflict(c) \/ DuplicateKey(c) \/ IdentifierTaken(c, rows)

\* The operation counts what the statement wrote; delete() does not look, and
\* MySQL's replaceMany ignores affectedRows, since it counts what it reads back.
Enough(c, new) ==
  CASE call[c].op \in Creates \cup {"delete"} -> TRUE
    [] call[c].op = "update" -> DOMAIN new # {}
    [] call[c].op \in {"batchUpdate", "batchDelete"} ->
         \/ engine = "mysql" /\ call[c].op = "batchUpdate"
         \/ Cardinality(DOMAIN new) >= Len(call[c].items)
\* The rows that a call which does not reject tells its caller it has written.
Told(c) ==
  IF call[c].op \in Creates \cup {"batchUpdate"}
    THEN {call[c].items[k].query.id : k \in DOMAIN call[c].items}
    ELSE {}

-------------------------------------------------------------------------------
(* Operations.                                                               *)

\* A statement needs a connection of the pool: that of the transaction, or the
\* one it keeps while it waits for a row that another transaction has locked.
FreeConnection == Cardinality(leased) < workload.pool
Connected(c) == ~Pooled \/ c \in leased \/ FreeConnection

\* What is left of the pool when a statement of c ends.
Released(c) == IF tx[c] = <<>> THEN leased \ {c} ELSE leased

FirstPage == [offset |-> 0, got |-> <<>>, all |-> None, stable |-> TRUE]

\* A caller calls an operation; in its transaction() callback it passes the
\* transaction on.
Call(c) ==
  /\ call[c] = Idle /\ Issued < workload.calls
  /\ \E r \in workload.requests :
       LET own == r.op \in Batches /\ tx[c] = <<>> IN
       /\ call' = [call EXCEPT ![c] =
            [pc |-> IF r.op = "list" THEN "page" ELSE IF own THEN "begin" ELSE "find",
             no |-> Issued + 1, own |-> own, read |-> IF r.op = "list" THEN FirstPage ELSE <<>>,
             op |-> r.op, items |-> r.items, validateOnly |-> r.validateOnly, size |-> r.size]]
       /\ outcome' = [outcome EXCEPT ![Issued + 1].status = "running"]
  /\ UNCHANGED <<engine, workload, table, tx, snap, leased, used>>

\* The query before the write, which is all there is of a get: a new resource
\* must not exist, the others must. (Batches look for a resource that a string
\* names, or no identifier, by one more query each: left out with such requests.)
Missing(c, found) == Cardinality(found) < Len(call[c].items)
Find(c) ==
  LET view  == View(c)
      found == Found(call[c].items, view)
  IN
  /\ call[c].pc = "find" /\ Connected(c)
  /\ snap' = [snap EXCEPT ![c] = SnapshotOf(c)]
  /\ IF call[c].op \in Creates
       THEN IF found # {} THEN Fail(c)
            ELSE IF call[c].validateOnly THEN Return(c)
            ELSE call' = [call EXCEPT ![c].pc = "write"] /\ UNCHANGED outcome
       ELSE IF Missing(c, found) THEN Fail(c)
            ELSE IF call[c].validateOnly \/ call[c].op \in Reads THEN Return(c)
            ELSE /\ UNCHANGED outcome
                 /\ \E rows \in IF call[c].op \in Batches THEN {found} ELSE {{i} : i \in found} :
                      call' = [call EXCEPT ![c].pc = "write", ![c].read = [i \in rows |-> view[i]]]
  /\ UNCHANGED <<engine, workload, table, tx, leased, used>>

\* The write, and what the operation makes of its result. MySQL has no RETURNING:
\* all but the deletes read the rows back.
AfterWrite(c, new) ==
  IF ~Enough(c, new) THEN (IF tx[c] = <<>> THEN "reject" ELSE "failing")
  ELSE IF engine = "mysql" /\ call[c].op \in Creates \cup {"update", "batchUpdate"}
    THEN "readback"
  ELSE IF call[c].own THEN "commit" ELSE "return"
Write(c) ==
  /\ call[c].pc = "write" /\ Connected(c) /\ ~Blocked(c)
  /\ leased' = Released(c)
  /\ UNCHANGED <<engine, workload, snap, used>>
  /\ \E rows \in RowSets(c) :
       IF Refused(c, rows) THEN Fail(c) /\ UNCHANGED <<table, tx>>
       ELSE LET new  == Effect(c, rows)
                next == AfterWrite(c, new)
                no   == call[c].no
            IN /\ table' = Over(new, table)
               /\ tx' = IF Owners(c) = {} \/ next = "reject" THEN tx
                        ELSE Remember(CHOOSE o \in Owners(c) : TRUE, new, {no})
               /\ call' = [call EXCEPT ![c] =
                    IF next \in {"return", "reject"} THEN Idle ELSE [@ EXCEPT !.pc = next]]
               /\ outcome' = [outcome EXCEPT ![no] =
                    [status |-> CASE next = "return" -> WriteStatus(c)
                                  [] next = "reject" -> "rejected"
                                  [] OTHER -> "running",
                     wrote |-> DOMAIN new,
                     told |-> IF next \in {"reject", "failing"} THEN {} ELSE Told(c)]]

\* A statement outside of a transaction waits for a row lock, on its connection.
Queues(c) ==
  /\ call[c].pc = "write" /\ tx[c] = <<>> /\ Pooled
  /\ c \notin leased /\ FreeConnection /\ Blocked(c)
  /\ leased' = leased \cup {c}
  /\ UNCHANGED <<engine, workload, table, tx, snap, call, outcome, used>>

\* MySQL: the inserted row is looked up by its values, the updated one by the
\* filter, which the update may have made false. The error comes after the write.
\* What batchCreate finds is not counted; batchUpdate counts the rows that its
\* transaction sees, those of its snapshot that others have deleted included.
ReadsBack(c) ==
  LET items == call[c].items
      view  == View(c)
  IN CASE call[c].op = "create" ->
            LET i == items[1].query.id IN view[i].live /\ view[i].msg = items[1].msg
       [] call[c].op = "batchCreate" -> TRUE
       [] call[c].op \in {"update", "batchUpdate"} ->
            Cardinality(Found(items, view)) >= Len(items)
AfterError(c) ==
  IF tx[c] = <<>>
    THEN /\ call' = [call EXCEPT ![c] = Idle]
         /\ outcome' = Ended({call[c].no}, "unseen")
    ELSE call' = [call EXCEPT ![c].pc = "failing"] /\ UNCHANGED outcome
ReadBack(c) ==
  /\ call[c].pc = "readback" /\ Connected(c)
  /\ snap' = [snap EXCEPT ![c] = SnapshotOf(c)]
  /\ IF ReadsBack(c)
       THEN IF call[c].own
              THEN call' = [call EXCEPT ![c].pc = "commit"] /\ UNCHANGED outcome
              ELSE /\ call' = [call EXCEPT ![c] = Idle]
                   /\ outcome' = Ended({call[c].no}, WriteStatus(c))
       ELSE AfterError(c)
  /\ UNCHANGED <<engine, workload, table, tx, leased, used>>

\* A statement fails: the driver reports an error, or the database ended a deadlock.
StatementFails(c) ==
  /\ call[c].pc \in {"find", "write", "readback", "page"} /\ Connected(c)
  /\ \/ Deadlocked(c) /\ UNCHANGED used
     \/ used.failures < workload.failures /\ used' = [used EXCEPT !.failures = @ + 1]
  /\ IF call[c].pc = "readback" THEN AfterError(c) ELSE Fail(c)
  /\ leased' = Released(c)
  /\ UNCHANGED <<engine, workload, table, tx, snap>>

\* A caller that follows the page tokens of list(), ordered by the identifier:
\* one row more than the page is read to see whether another page follows.
NextOffset_PastLookahead(offset, size) == offset + size + 1   \* faulty
NextOffset(offset, size) == offset + size
Listed(view) ==
  LET live == {i \in Ids : view[i].live} IN
  CHOOSE list \in [1 .. Cardinality(live) -> live] :
    \A j, k \in DOMAIN list : j < k => list[j] < list[k]
Page(c) ==
  LET size == call[c].size
      seen == call[c].read
      all  == Listed(View(c))
      last == seen.offset + size
      rows == SubSeq(all, seen.offset + 1, IF last < Len(all) THEN last + 1 ELSE Len(all))
      more == Len(rows) > size
  IN
  /\ call[c].pc = "page" /\ Connected(c)
  /\ snap' = [snap EXCEPT ![c] = SnapshotOf(c)]
  /\ call' = [call EXCEPT
       ![c].pc = IF more THEN "page" ELSE "listed",
       ![c].read = [offset |-> NextOffset(seen.offset, size), all |-> all,
                    stable |-> seen.stable /\ seen.all \in {None, all},
                    got |-> seen.got \o IF more THEN SubSeq(rows, 1, size) ELSE rows]]
  /\ UNCHANGED <<engine, workload, table, tx, outcome, leased, used>>

ListReturns(c) ==
  /\ call[c].pc = "listed"
  /\ Return(c)
  /\ UNCHANGED <<engine, workload, table, tx, snap, leased, used>>

-------------------------------------------------------------------------------
(* engine.transaction(): of a batch, or of a caller's own callback.          *)

Savepoint == [undo |-> <<>>, calls |-> {}]

\* BEGIN. SQLite throws it when a transaction is open on the connection.
Begin(c) ==
  /\ tx[c] = <<>>
  /\ engine = "sqlite" => \A d \in Callers : tx[d] = <<>>
  /\ Pooled => FreeConnection
  /\ tx' = [tx EXCEPT ![c] = <<Savepoint>>]
  /\ leased' = IF Pooled THEN leased \cup {c} ELSE leased
  /\ UNCHANGED <<engine, workload, table, snap>>

BeginBatch(c) ==
  /\ call[c].pc = "begin"
  /\ Begin(c)
  /\ call' = [call EXCEPT ![c].pc = "find"]
  /\ UNCHANGED <<outcome, used>>

BeginFails(c) ==
  /\ call[c].pc = "begin"
  /\ engine = "sqlite" /\ \E d \in Callers : tx[d] # <<>>
  /\ Fail(c)
  /\ UNCHANGED <<engine, workload, table, tx, snap, leased, used>>

\* The caller's own transaction, and a nested one of it. MongoDB has no nesting.
Transaction(c) ==
  /\ call[c] = Idle /\ used.transactions < workload.transactions
  /\ \/ Begin(c)
     \/ /\ tx[c] # <<>> /\ engine # "mongodb"
        /\ tx' = [tx EXCEPT ![c] = Append(@, Savepoint)]
        /\ UNCHANGED <<engine, workload, table, snap, leased>>
  /\ used' = [used EXCEPT !.transactions = @ + 1]
  /\ UNCHANGED <<call, outcome>>

\* release() or endSession(), in a finally block.
Leased_OnSuccess(c, done) == IF done THEN leased \ {c} ELSE leased   \* faulty: no finally
Leased(c, done) == leased \ {c}

\* The callback returns: COMMIT, and what it contains is acknowledged.
Commit(c) ==
  /\ Len(tx[c]) = 1
  /\ call[c].pc \in {"idle", "commit"}
  /\ outcome' = Ended(tx[c][1].calls \cup (IF call[c] = Idle THEN {} ELSE {call[c].no}), "ok")
  /\ call' = [call EXCEPT ![c] = Idle]
  /\ tx' = [tx EXCEPT ![c] = <<>>]
  /\ snap' = [snap EXCEPT ![c] = None]
  /\ leased' = Leased(c, TRUE)
  /\ UNCHANGED <<engine, workload, table, used>>

\* The callback of a nested transaction returns: RELEASE SAVEPOINT.
Release(c) ==
  /\ Len(tx[c]) > 1 /\ call[c] = Idle
  /\ LET outer == Front(tx[c]) IN
       tx' = [tx EXCEPT ![c] = [outer EXCEPT ![Len(outer)] =
                [undo |-> Over(@.undo, Last(tx[c]).undo), calls |-> @.calls \cup Last(tx[c]).calls]]]
  /\ UNCHANGED <<engine, workload, table, snap, call, outcome, leased, used>>

\* The callback throws, with the error of a call or one of its own: ROLLBACK, or
\* ROLLBACK TO SAVEPOINT, after which the outer callback may go on.
Restored_Never(c) == table   \* faulty: the error path commits
Restored_Whole(c) == Over([i \in Touched(c) |-> Before(c, i)], table)   \* faulty: ROLLBACK of all
Restored(c) == Over(Last(tx[c]).undo, table)
Rollback(c) ==
  LET failing == IF call[c] = Idle THEN {} ELSE {call[c].no} IN
  /\ tx[c] # <<>> /\ call[c].pc \in {"idle", "failing"}
  /\ table' = Restored(c)
  /\ outcome' = [k \in Calls |-> IF k \in failing THEN [outcome[k] EXCEPT !.status = "rejected"]
                                 ELSE Ended(Last(tx[c]).calls, "undone")[k]]
  /\ call' = [call EXCEPT ![c] = Idle]
  /\ tx' = [tx EXCEPT ![c] = Front(@)]
  /\ IF Len(tx[c]) = 1
       THEN snap' = [snap EXCEPT ![c] = None] /\ leased' = Leased(c, FALSE)
       ELSE UNCHANGED <<snap, leased>>
  /\ UNCHANGED <<engine, workload, used>>

-------------------------------------------------------------------------------
(* The specification.                                                        *)

Init ==
  /\ engine \in Engines
  /\ workload \in Workloads
  /\ table \in Tables
  /\ tx = [c \in Callers |-> <<>>]
  /\ snap = [c \in Callers |-> None]
  /\ call = [c \in Callers |-> Idle]
  /\ outcome = [k \in Calls |-> [status |-> "none", wrote |-> {}, told |-> {}]]
  /\ leased = {}
  /\ used = [transactions |-> 0, failures |-> 0]

Next == \E c \in Callers :
  \/ Call(c) \/ Find(c) \/ Write(c) \/ Queues(c) \/ ReadBack(c) \/ StatementFails(c)
  \/ Page(c) \/ ListReturns(c)
  \/ BeginBatch(c) \/ BeginFails(c) \/ Transaction(c)
  \/ Commit(c) \/ Release(c) \/ Rollback(c)

Spec == Init /\ [][Next]_vars

-------------------------------------------------------------------------------
(* Properties.                                                               *)

Statuses == {"none", "running", "tentative", "guest", "ok", "rejected", "unseen", "undone"}

Progress == [offset : Nat, got : Seq(Ids), all : {None} \cup Seq(Ids), stable : BOOLEAN]
Stages == {"begin", "find", "write", "readback", "page", "listed", "commit", "failing"}

\* Rows and undone rows are rows. Only a caller with an open transaction has a
\* snapshot, a batch to commit or something to roll back; it has a connection of
\* the pool, and so may a caller whose write waits for a lock.
TypeOK ==
  /\ engine \in Engines /\ workload \in Workloads
  /\ table \in [Ids -> Row]
  /\ snap \in [Callers -> {None} \cup [Ids -> Row]]
  /\ outcome \in [Calls -> [status : Statuses, wrote : SUBSET Ids, told : SUBSET Ids]]
  /\ used \in [transactions : 0 .. workload.transactions, failures : 0 .. workload.failures]
  /\ \A c \in Callers : \A k \in DOMAIN tx[c] :
       SomeRows(tx[c][k].undo) /\ tx[c][k].calls \subseteq Calls
  /\ \A c \in Callers : call[c] # Idle =>
       /\ call[c].pc \in Stages /\ call[c].no \in Calls /\ call[c].items \in Seq(RequestItem)
       /\ IF call[c].op = "list" THEN call[c].read \in Progress ELSE SomeRows(call[c].read)
  /\ \A c \in Callers : tx[c] = <<>> => snap[c] = None /\ call[c].pc \notin {"commit", "failing"}
  /\ leased \subseteq Callers /\ (~Pooled => leased = {})
  /\ \A c \in Callers : Pooled /\ tx[c] # <<>> => c \in leased
  /\ \A c \in leased : tx[c] # <<>> \/ call[c].pc = "write"

\* A call that was rejected, or whose transaction was rolled back, has left
\* nothing in the table. (Not so a MySQL call whose read-back fails: "unseen".)
RejectedLeavesNothing ==
  \A i \in Ids : \A k \in ToSet(table[i].hist) :
    outcome[k].status \notin {"none", "rejected", "undone"}

\* What a call was told is done stays done: its writes are in the table, or
\* under later ones, whatever other transactions roll back, and none of the rows
\* it was told of is missing. Two exceptions: a SQLite call that was caught in the
\* transaction of another caller is told too early ("guest"), and MySQL's
\* batchUpdate is told of a row that another caller deleted meanwhile.
AcknowledgedSurvives ==
  \A k \in Calls : outcome[k].status = "ok" =>
    \A i \in outcome[k].wrote \cup (IF engine = "mysql" THEN {} ELSE outcome[k].told) :
      k \in ToSet(table[i].hist)

\* The etag of a row is that of its contents, unless the row changed between
\* the read and the write of an update, a path of its mask is no column, or it
\* empties a field that is left out of the row when it is empty.
EtagsDescribeRows ==
  \A i \in Ids : table[i].live /\ ~table[i].loose => table[i].etag = table[i].msg

\* An update with a mask, from its read to its write, leaves alone what others
\* write in fields outside of the mask. A batch replaces whole rows, so only
\* MongoDB, which refuses it when the row has changed, keeps this for batches.
Outside(mask) == {"n", "s", "l"} \ {p[1] : p \in ToSet(mask)}
MaskedWritesKeepTheRest ==
  [][\A c \in Callers :
       /\ call[c].pc = "write" /\ call'[c] # call[c]
       /\ call[c].op \in {"update"} \cup (IF engine = "mongodb" THEN {"batchUpdate"} ELSE {})
       => \A k \in DOMAIN call[c].items :
            LET item == call[c].items[k] IN
            item.mask # Wildcard =>
              \A i \in Ids : Matches(item.query, i, table[i]) =>
                \A f \in Outside(item.mask) : table'[i].msg[f] = table[i].msg[f]]_vars

\* The pages of a listing during which nothing changed are the rows, each once
\* and in order.
PagesCoverTheList ==
  \A c \in Callers : call[c].pc = "listed" /\ call[c].read.stable =>
    call[c].read.got = call[c].read.all

\* Calls do not wait for each other for ever: as long as something is under way,
\* some statement can be executed, or a callback is about to end. As nothing goes
\* on for ever (a call is a few statements), every call ends.
Waits(c) ==
  \/ call[c].pc = "begin" /\ Pooled /\ ~FreeConnection
  \/ call[c].pc \in {"find", "write", "readback", "page"} /\ ~Connected(c)
  \/ call[c].pc = "write" /\ Blocked(c) /\ ~Deadlocked(c)
Busy(c) == call[c] # Idle \/ tx[c] # <<>>
NobodyWaitsForever ==
  (\E c \in Callers : Busy(c)) => \E c \in Callers : Busy(c) /\ ~Waits(c)

\* mergeFieldMasks and intersectFieldMasks are union and intersection of what the
\* masks cover. What masks mean does not depend on the state: one state is enough.
MaskAlgebra == Issued = 0 => AlgebraOfSamples

\* applyFieldMask keeps what the mask covers and nothing else, for masks that
\* name a list by one path at most.
ApplyIsProjection == Issued = 0 => ProjectionOfSamples
=============================================================================
