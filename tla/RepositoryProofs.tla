--------------------------- MODULE RepositoryProofs ---------------------------
(***************************************************************************)
(* Proofs about Repository, for any sets of callers and identifiers, any   *)
(* workloads and any first tables, on each of the engines.                 *)
(***************************************************************************)
EXTENDS Repository, FiniteSetTheorems, SequenceTheorems, WellFoundedInduction, TLAPS

-------------------------------------------------------------------------------
(* The inductive invariant.                                                  *)

Rows       == UNION {[S -> Row] : S \in SUBSET Ids}
Savepoints == [undo : Rows, calls : SUBSET Calls]
Operations == Batches \cup Singles \cup {"list"}
Running ==
  [pc : Stages, no : Calls, own : BOOLEAN, read : Rows \cup Progress, op : Operations,
   items : Seq(RequestItem), validateOnly : BOOLEAN, size : Nat \ {0}]

TypeInv ==
  /\ engine \in Engines /\ workload \in Workloads
  /\ table \in [Ids -> Row]
  /\ tx \in [Callers -> Seq(Savepoints)]
  /\ snap \in [Callers -> {None} \cup [Ids -> Row]]
  /\ call \in [Callers -> {Idle} \cup Running]
  /\ \A c \in Callers : call[c] # Idle =>
       call[c].read \in IF call[c].op = "list" THEN Progress ELSE Rows
  /\ outcome \in [Calls -> [status : Statuses, wrote : SUBSET Ids, told : SUBSET Ids]]
  /\ used \in [transactions : 0 .. workload.transactions, failures : 0 .. workload.failures]
  /\ \A c \in Callers : tx[c] = <<>> => snap[c] = None

\* Call numbers are given out in order, and each caller is in a call of its own.
NumberInv ==
  /\ \E m \in 0 .. MaxCalls : \A k \in Calls : outcome[k].status # "none" <=> k <= m
  /\ \A k \in Calls : outcome[k].status = "none" => outcome[k].wrote = {}
  /\ \A c \in Callers : call[c] # Idle => outcome[call[c].no].status = "running"
  /\ \A c, d \in Callers :
       c # d /\ call[c] # Idle /\ call[d] # Idle => call[c].no # call[d].no

\* What the stage of a call says about it and the transaction of its caller.
CallOf(c) ==
  /\ call[c].pc = "begin" <=> call[c].op \in Batches /\ tx[c] = <<>>
  /\ call[c].pc \in {"commit", "failing"} => tx[c] # <<>>
  /\ call[c].pc = "commit" => call[c].own
  /\ call[c].own => call[c].op \in Batches
  /\ call[c].pc \in {"page", "listed"} => call[c].op = "list"
  /\ call[c].op = "list" => call[c].pc \in {"page", "listed", "failing"}
  /\ call[c].pc = "readback" =>
       engine = "mysql" /\ call[c].op \in Creates \cup {"update", "batchUpdate"}
  /\ call[c].pc = "write" => call[c].op \notin Reads
  /\ call[c].pc = "write" /\ call[c].op = "update" => \E i \in Ids : DOMAIN call[c].read = {i}
  /\ call[c].op \in Singles => Len(call[c].items) = 1
  /\ call[c].op \in Creates \cup {"batchUpdate"} =>
       \A k \in DOMAIN call[c].items : call[c].items[k].query.id \in Ids
CallInv == \A c \in Callers : call[c] # Idle => CallOf(c)

\* One transaction at a time on SQLite; elsewhere a row is locked by one at most.
LockInv ==
  \A c, d \in Callers : c # d =>
    IF engine = "sqlite" THEN tx[c] = <<>> \/ tx[d] = <<>> ELSE Touched(c) \cap Touched(d) = {}

\* The calls that wrote a row. Versions of a row are what the table has and what
\* savepoints remember.
By(row) == ToSet(row.hist)

Unseen(k) ==
  /\ \A i \in Ids : k \notin By(table[i])
  /\ \A d \in Callers : \A l \in DOMAIN tx[d] : \A i \in DOMAIN tx[d][l].undo :
       k \notin By(tx[d][l].undo[i])

HistInv ==
  \A k \in Calls : outcome[k].status \in {"none", "rejected", "undone"} => Unseen(k)

\* A call that wrote something and is not over has it in its innermost savepoint.
WrittenInv ==
  \A c \in Callers : call[c] # Idle =>
    \/ Unseen(call[c].no)
    \/ /\ call[c].pc \in {"readback", "commit", "failing"}
       /\ tx[c] # <<>> => call[c].no \in tx[c][Len(tx[c])].calls

\* Calls in a savepoint are not over or told no more than that their transaction
\* is to end; those that are not over are of the caller whose savepoint it is.
SavedInv ==
  /\ \A d \in Callers : \A l \in DOMAIN tx[d] : \A k \in tx[d][l].calls :
       outcome[k].status \in {"running", "tentative", "guest"}
  /\ \A c, d \in Callers : \A l \in DOMAIN tx[d] :
       call[c] # Idle /\ call[c].no \in tx[d][l].calls =>
         d = c /\ l = Len(tx[c]) /\ call[c].pc \in {"readback", "commit", "failing"}
  /\ \A d, e \in Callers : \A l \in DOMAIN tx[d], j \in DOMAIN tx[e] :
       \A k \in tx[d][l].calls : k \in tx[e][j].calls => d = e /\ l = j

\* A savepoint remembers the rows that its calls wrote, from before they did:
\* only savepoints inside of it have their writes.
LevelInv ==
  \A c \in Callers : \A j \in DOMAIN tx[c] : \A k \in tx[c][j].calls :
    /\ \A i \in Ids : k \in By(table[i]) => i \in DOMAIN tx[c][j].undo
    /\ \A d \in Callers : \A l \in DOMAIN tx[d] : \A i \in DOMAIN tx[d][l].undo :
         k \in By(tx[d][l].undo[i]) => d = c /\ l > j /\ i \in DOMAIN tx[c][j].undo

\* The writes of a call that was not undone are in the table, and stay there
\* whatever is rolled back, unless it is the call that is.
SurviveInv ==
  \A k \in Calls : outcome[k].status \in {"ok", "running", "tentative", "guest"} =>
    \A i \in outcome[k].wrote :
      /\ k \in By(table[i])
      /\ \A d \in Callers : \A l \in DOMAIN tx[d] :
           i \in DOMAIN tx[d][l].undo =>
             \/ k \in By(tx[d][l].undo[i])
             \/ \E j \in DOMAIN tx[d] : j >= l /\ k \in tx[d][j].calls

\* All that is known of a row: in the table, in savepoints, in snapshots, by calls.
Versions(i) ==
  {v \in Row :
     \/ v = table[i]
     \/ \E d \in Callers :
          \/ \E l \in DOMAIN tx[d] : i \in DOMAIN tx[d][l].undo /\ v = tx[d][l].undo[i]
          \/ snap[d] # None /\ v = snap[d][i]
          \/ /\ call[d] # Idle /\ call[d].op # "list"
             /\ i \in DOMAIN call[d].read /\ v = call[d].read[i]}

\* Who wrote a version, and in which order, tells versions apart; no version is of
\* a call that has still to write.
Fresh(k) == \A i \in Ids : \A v \in Versions(i) : k \notin By(v)
VersionInv ==
  /\ \A i \in Ids : \A v, w \in Versions(i) : v.hist = w.hist => v = w
  /\ \A k \in Calls : outcome[k].status = "none" => Fresh(k)
  /\ \A c \in Callers :
       call[c] # Idle /\ call[c].pc \notin {"readback", "commit", "failing"} => Fresh(call[c].no)

EtagInv ==
  \A i \in Ids : \A v \in Versions(i) : v.live /\ ~v.loose => v.etag = v.msg

\* What batchUpdate has read are its items, each of another row, and on MongoDB
\* the rows are those of the snapshot.
ReadOf(c) ==
  /\ call[c].op = "batchUpdate" =>
       /\ \A k \in DOMAIN call[c].items : call[c].items[k].query.id \in DOMAIN call[c].read
       /\ \A j, k \in DOMAIN call[c].items :
            call[c].items[j].query.id = call[c].items[k].query.id => j = k
  /\ engine = "mongodb" /\ tx[c] # <<>> /\ call[c].op \notin Creates =>
       snap[c] # None /\ \A i \in DOMAIN call[c].read : call[c].read[i] = View(c)[i]
ReadInv == \A c \in Callers : call[c].pc = "write" => ReadOf(c)

\* The pages so far are the beginning of the list.
PageOf(c) ==
  LET seen == call[c].read IN
  seen.stable =>
    /\ call[c].pc = "page" =>
         \/ seen.all = None /\ seen.offset = 0 /\ seen.got = <<>>
         \/ /\ seen.all # None /\ seen.offset <= Len(seen.all)
            /\ seen.got = SubSeq(seen.all, 1, seen.offset)
    /\ call[c].pc = "listed" => seen.got = seen.all
PageInv == \A c \in Callers : call[c].pc \in {"page", "listed"} => PageOf(c)

\* Who has a connection: every transaction, and some writes outside of one.
LeaseInv ==
  /\ leased \subseteq Callers /\ (~ Pooled => leased = {})
  /\ \A c \in Callers : Pooled /\ tx[c] # <<>> => c \in leased
  /\ \A c \in leased : tx[c] # <<>> \/ call[c].pc = "write"

\* What a call tells its caller it has written is what it wrote.
ToldInv == engine # "mysql" => \A k \in Calls : outcome[k].told \subseteq outcome[k].wrote

IInv == /\ TypeInv /\ NumberInv /\ CallInv /\ LockInv
        /\ HistInv /\ WrittenInv /\ SavedInv /\ LevelInv /\ SurviveInv
        /\ VersionInv /\ EtagInv /\ ReadInv /\ PageInv /\ LeaseInv /\ ToldInv

-------------------------------------------------------------------------------
(* Numbers and sequences.                                                    *)

LEMMA LeastNumber ==
  ASSUME NEW S \in SUBSET Nat, S # {}
  PROVE  \E m \in S : \A k \in S : m <= k
<1> DEFINE R == {ss \in Nat \X Nat : ss[1] < ss[2]}
<1>1. IsWellFoundedOn(R, Nat)
  BY NatLessThanWellFounded DEF OpToRel
<1>2. \A y, x \in Nat : <<y, x>> \notin R => x <= y
  OBVIOUS
<1> HIDE DEF R
<1>3. PICK x \in S : \A y \in S : <<y, x>> \notin R
  BY <1>1, WFMin
<1> QED
  BY <1>2, <1>3

LEMMA SetOfAppend ==
  ASSUME NEW S, NEW s \in Seq(S), NEW k \in S
  PROVE  Append(s, k) \in Seq(S) /\ ToSet(Append(s, k)) = ToSet(s) \cup {k}
<1>1. /\ Append(s, k) \in Seq(S) /\ Len(Append(s, k)) = Len(s) + 1
      /\ \A i \in 1 .. Len(s) : Append(s, k)[i] = s[i]
      /\ Append(s, k)[Len(s) + 1] = k
  BY AppendProperties
<1>2. Len(s) \in Nat /\ DOMAIN s = 1 .. Len(s) /\ DOMAIN Append(s, k) = 1 .. Len(s) + 1
  BY <1>1, LenProperties
<1>3. ToSet(Append(s, k)) = {Append(s, k)[i] : i \in 1 .. Len(s) + 1}
  BY <1>2 DEF ToSet
<1>4. ToSet(s) = {s[i] : i \in 1 .. Len(s)}
  BY <1>2 DEF ToSet
<1>5. ASSUME NEW x \in ToSet(Append(s, k)) PROVE x \in ToSet(s) \cup {k}
  <2>1. PICK i \in 1 .. Len(s) + 1 : x = Append(s, k)[i] BY <1>3, <1>5
  <2>2. i \in 1 .. Len(s) \/ i = Len(s) + 1 BY <1>2
  <2> QED BY <2>1, <2>2, <1>1, <1>4
<1>6. ASSUME NEW x \in ToSet(s) PROVE x \in ToSet(Append(s, k))
  <2>1. PICK i \in 1 .. Len(s) : x = s[i] BY <1>4, <1>6
  <2>2. i \in 1 .. Len(s) + 1 BY <1>2
  <2> QED BY <2>1, <2>2, <1>1, <1>3
<1>7. k \in ToSet(Append(s, k)) BY <1>1, <1>2, <1>3
<1> QED BY <1>1, <1>5, <1>6, <1>7

LEMMA FrontAndLast ==
  ASSUME NEW S, NEW s \in Seq(S), s # <<>>
  PROVE  /\ Len(s) \in Nat \ {0} /\ Last(s) = s[Len(s)] /\ Last(s) \in S
         /\ Front(s) \in Seq(S) /\ Len(Front(s)) = Len(s) - 1
         /\ DOMAIN s = 1 .. Len(s) /\ DOMAIN Front(s) = 1 .. Len(s) - 1
         /\ \A i \in 1 .. Len(s) - 1 : Front(s)[i] = s[i]
<1> DEFINE t == SubSeq(s, 1, Len(s) - 1)
<1>1. Len(s) \in Nat \ {0} /\ \A i \in 1 .. Len(s) : s[i] \in S
  BY EmptySeq, ElementOfSeq
<1>2. /\ t \in Seq(S)
      /\ Len(t) = IF 1 <= Len(s) - 1 THEN Len(s) - 1 - 1 + 1 ELSE 0
      /\ \A i \in 1 .. Len(s) - 1 - 1 + 1 : t[i] = s[1 + i - 1]
  <2>1. 1 \in Int /\ Len(s) - 1 \in Int /\ \A i \in 1 .. Len(s) - 1 : s[i] \in S
    BY <1>1
  <2> QED BY <2>1, SubSeqProperties
<1>3. Front(s) = t
  BY DEF Front
<1> HIDE DEF t
<1>4. /\ Front(s) \in Seq(S) /\ Len(Front(s)) = Len(s) - 1
      /\ \A i \in 1 .. Len(s) - 1 : Front(s)[i] = s[i]
  BY <1>1, <1>2, <1>3
<1>5. Last(s) = s[Len(s)] /\ Last(s) \in S
  BY <1>1 DEF Last
<1>6. DOMAIN s = 1 .. Len(s) /\ DOMAIN Front(s) = 1 .. Len(s) - 1
  BY <1>4, LenProperties
<1> QED BY <1>1, <1>4, <1>5, <1>6

-------------------------------------------------------------------------------
(* Masks and messages.                                                       *)

\* f[k] is the copy that applyFieldMask has made after the first k paths.
IsCopy(f, source, mask, n) ==
  f = [k \in 0 .. n |->
        IF k = 0 THEN Nothing
        ELSE ApplyPath(f[k - 1], source, mask[k], \E j \in 1 .. k - 1 : mask[j] = <<"l">>)]

LEMMA CopyExists ==
  ASSUME NEW source, NEW mask, NEW n \in Nat
  PROVE  \E f : IsCopy(f, source, mask, n)
<1> DEFINE S == {m \in Nat : ~ \E f : IsCopy(f, source, mask, m)}
<1>1. SUFFICES ASSUME S # {} PROVE FALSE
  OBVIOUS
<1>2. PICK m \in S : \A k \in S : m <= k
  <2>1. S \in SUBSET Nat OBVIOUS
  <2> QED BY <1>1, <2>1, LeastNumber
<1>3. m # 0
  <2>1. IsCopy([k \in 0 .. 0 |-> Nothing], source, mask, 0)
    BY DEF IsCopy
  <2> QED BY <2>1
<1>4. PICK g : IsCopy(g, source, mask, m - 1)
  BY <1>2, <1>3
<1> DEFINE Next_(h, k) == ApplyPath(h, source, mask[k], \E j \in 1 .. k - 1 : mask[j] = <<"l">>)
<1> DEFINE f == [k \in 0 .. m |-> IF k = m THEN Next_(g[m - 1], m) ELSE g[k]]
<1>5. g = [k \in 0 .. m - 1 |-> IF k = 0 THEN Nothing ELSE Next_(g[k - 1], k)]
  BY <1>4 DEF IsCopy
<1> HIDE DEF Next_
<1>6. f = [k \in 0 .. m |-> IF k = 0 THEN Nothing ELSE Next_(f[k - 1], k)]
  BY <1>3, <1>5
<1>7. IsCopy(f, source, mask, m)
  BY <1>6 DEF IsCopy, Next_
<1> QED BY <1>7

LEMMA ApplyPathTyped ==
  ASSUME NEW target \in Resource, NEW source \in Resource, NEW path \in ValidPaths,
         NEW shared \in BOOLEAN
  PROVE  /\ ApplyPath(target, source, path, shared) \in Resource
         /\ \A f \in {"n", "s", "l"} :
              f # path[1] => ApplyPath(target, source, path, shared)[f] = target[f]
<1> DEFINE r == ApplyPath(target, source, path, shared)
           Rest(p) == [target EXCEPT !.s = CopyInto(SubMessage(target), source.s, p)]
<1>1. CASE path = <<"n">>
  BY <1>1 DEF ApplyPath, Resource
<1>2. CASE path = <<"s">>
  BY <1>2 DEF ApplyPath, Resource
<1>3. CASE path = <<"l">>
  <2>1. r = [target EXCEPT !.l = source.l]
    BY <1>3 DEF ApplyPath
  <2>2. path[1] = "l" BY <1>3
  <2> QED BY <2>1, <2>2 DEF Resource
<1>4. ASSUME NEW f \in {"x", "y"}, path = <<"s", f>>
      PROVE  r \in Resource /\ \A g \in {"n", "s", "l"} : g # path[1] => r[g] = target[g]
  <2>1. /\ Len(path) = 2 /\ path[1] = "s" /\ Tail(path) = <<f>> /\ Head(<<f>>) = f
        /\ <<f>> # <<>> /\ path \notin {<<"n">>, <<"s">>, <<"l">>}
    BY <1>4
  <2>2. r = IF source.s = None THEN target ELSE Rest(<<f>>)
    <3>1. Tail(path) = <<f>> BY <2>1
    <3>2. Len(path) > 1 /\ path[1] = "s" /\ path # <<"n">> /\ path # <<"s">> /\ path # <<"l">>
      BY <2>1
    <3>3. r = IF source.s = None THEN target ELSE Rest(Tail(path))
      BY <3>2, Zenon DEF ApplyPath
    <3> QED BY <3>1, <3>3
  <2>3. CASE source.s = None
    BY <2>2, <2>3
  <2>4. CASE source.s # None
    <3>1. CopyInto(SubMessage(target), source.s, <<f>>) = [SubMessage(target) EXCEPT ![f] = source.s[f]]
      BY <2>1 DEF CopyInto
    <3>2. source.s \in Part /\ SubMessage(target) \in Part
      BY <2>4 DEF Resource, Part, SubMessage, NoPart
    <3>3. [SubMessage(target) EXCEPT ![f] = source.s[f]] \in Part
      BY <3>2 DEF Part
    <3>4. r = [target EXCEPT !.s = [SubMessage(target) EXCEPT ![f] = source.s[f]]]
      BY <2>2, <2>4, <3>1
    <3> QED BY <3>3, <3>4, <2>1 DEF Resource
  <2> QED BY <2>3, <2>4
<1>5. ASSUME path = <<"l", "*">> \/ \E f \in {"x", "y"} : path = <<"l", "*", f>>
      PROVE  r \in Resource /\ \A g \in {"n", "s", "l"} : g # path[1] => r[g] = target[g]
  <2>1. Len(path) > 1 /\ path[1] = "l" /\ path \notin {<<"n">>, <<"s">>, <<"l">>}
    BY <1>5
  <2>2. r = [target EXCEPT !.l = Elements(source, path, shared)]
    BY <2>1 DEF ApplyPath
  <2>3. SubSeq(path, 3, Len(path)) = <<>> \/ \E f \in {"x", "y"} : SubSeq(path, 3, Len(path)) = <<f>>
    <3>1. CASE path = <<"l", "*">>
      <4>1. SubSeq(<<"l", "*">>, 3, 2) = <<>> BY SubSeqEmpty
      <4> QED BY <3>1, <4>1
    <3>2. ASSUME NEW f \in {"x", "y"}, path = <<"l", "*", f>>
          PROVE  SubSeq(path, 3, Len(path)) = <<f>>
      <4> DEFINE t == SubSeq(path, 3, 3)
      <4>1. \A i \in 3 .. 3 : path[i] \in {"x", "y"}
        <5>1. path[3] = f BY <3>2
        <5>2. \A i \in 3 .. 3 : i = 3 OBVIOUS
        <5> QED BY <5>1, <5>2
      <4>2. /\ t \in Seq({"x", "y"}) /\ Len(t) = IF 3 <= 3 THEN 3 - 3 + 1 ELSE 0
            /\ \A i \in 1 .. 3 - 3 + 1 : t[i] = path[3 + i - 1]
        BY <4>1, SubSeqProperties
      <4> HIDE DEF t
      <4>3. t \in Seq({"x", "y"}) /\ Len(t) = 1 /\ t[1] = f BY <3>2, <4>2
      <4>4. t = <<f>> BY <4>3
      <4> QED BY <3>2, <4>4 DEF t
    <3> QED BY <1>5, <3>1, <3>2
  <2>4. \A k \in DOMAIN source.l : source.l[k] \in Part
    BY ElementOfSeq, LenProperties DEF Resource
  <2>5. \A k \in DOMAIN source.l :
          CopyInto(NoPart, IF shared THEN NoPart ELSE source.l[k], SubSeq(path, 3, Len(path))) \in Part
    <3> TAKE k \in DOMAIN source.l
    <3>1. PICK p : p = (IF shared THEN NoPart ELSE source.l[k]) OBVIOUS
    <3>2. p \in Part /\ NoPart \in Part BY <2>4, <3>1 DEF Part, NoPart
    <3>3. CASE SubSeq(path, 3, Len(path)) = <<>>
      BY <3>2, <3>3 DEF CopyInto
    <3>4. ASSUME NEW f \in {"x", "y"}, SubSeq(path, 3, Len(path)) = <<f>>
          PROVE  CopyInto(NoPart, p, SubSeq(path, 3, Len(path))) \in Part
      <4>1. CopyInto(NoPart, p, <<f>>) = [NoPart EXCEPT ![f] = p[f]] BY DEF CopyInto
      <4>2. [NoPart EXCEPT ![f] = p[f]] \in Part BY <3>2 DEF Part
      <4> QED BY <3>4, <4>1, <4>2
    <3> QED BY <2>3, <3>1, <3>3, <3>4
  <2>6. Elements(source, path, shared) \in Seq(Part)
    BY <2>5, LenProperties DEF Elements, Resource
  <2> QED BY <2>1, <2>2, <2>6 DEF Resource
<1> QED BY <1>1, <1>2, <1>3, <1>4, <1>5 DEF ValidPaths

\* Fields that no path of the mask leads into stay as they are.
LEMMA CopyTyped ==
  ASSUME NEW source \in Resource, NEW mask \in Seq(ValidPaths),
         NEW f, IsCopy(f, source, mask, Len(mask)), NEW k \in 0 .. Len(mask)
  PROVE  /\ f[k] \in Resource
         /\ \A g \in {"n", "s", "l"} :
              (\A j \in 1 .. Len(mask) : mask[j][1] # g) => f[k][g] = Nothing[g]
<1> DEFINE Good(m) == /\ f[m] \in Resource
                      /\ \A g \in {"n", "s", "l"} :
                           (\A j \in 1 .. Len(mask) : mask[j][1] # g) => f[m][g] = Nothing[g]
           S == {m \in 0 .. Len(mask) : ~ Good(m)}
<1>0. Len(mask) \in Nat /\ \A j \in 1 .. Len(mask) : mask[j] \in ValidPaths
  BY LenProperties, ElementOfSeq
<1>1. SUFFICES ASSUME S # {} PROVE FALSE
  OBVIOUS
<1>2. PICK m \in S : \A i \in S : m <= i
  <2>1. S \in SUBSET Nat BY <1>0
  <2> QED BY <1>1, <2>1, LeastNumber
<1>3. m # 0
  <2>1. f[0] = Nothing BY <1>0 DEF IsCopy
  <2>2. Nothing \in Resource BY DEF Nothing, Resource
  <2> QED BY <1>2, <2>1, <2>2
<1>4. m - 1 \in 0 .. Len(mask) /\ m \in 1 .. Len(mask) /\ Good(m - 1)
  BY <1>0, <1>2, <1>3
<1>5. PICK shared \in BOOLEAN : shared = \E j \in 1 .. m - 1 : mask[j] = <<"l">>
  OBVIOUS
<1>6. f[m] = ApplyPath(f[m - 1], source, mask[m], shared)
  BY <1>0, <1>3, <1>4, <1>5 DEF IsCopy
<1>7. /\ f[m] \in Resource
      /\ \A g \in {"n", "s", "l"} : g # mask[m][1] => f[m][g] = f[m - 1][g]
  <2>1. f[m - 1] \in Resource /\ mask[m] \in ValidPaths
    BY <1>0, <1>4
  <2>2. /\ ApplyPath(f[m - 1], source, mask[m], shared) \in Resource
        /\ \A g \in {"n", "s", "l"} :
             g # mask[m][1] => ApplyPath(f[m - 1], source, mask[m], shared)[g] = f[m - 1][g]
    <3> HIDE DEF Good, S
    <3>1. source \in Resource OBVIOUS
    <3>2. f[m - 1] \in Resource BY <2>1
    <3>3. mask[m] \in ValidPaths BY <2>1
    <3>4. shared \in BOOLEAN BY <1>5
    <3> QED BY <3>1, <3>2, <3>3, <3>4, ApplyPathTyped, Zenon
  <2> QED BY <2>2, <1>6, Zenon
<1>8. Good(m)
  BY <1>4, <1>7
<1> QED BY <1>2, <1>8

LEMMA ApplyFieldMaskTyped ==
  ASSUME NEW source \in Resource, NEW mask \in Seq(ValidPaths)
  PROVE  /\ ApplyFieldMask(source, mask) \in Resource
         /\ \A g \in {"n", "s", "l"} :
              (\A j \in 1 .. Len(mask) : mask[j][1] # g) => ApplyFieldMask(source, mask)[g] = Nothing[g]
<1>0. Len(mask) \in Nat
  BY LenProperties
<1>1. mask # Wildcard
  <2>1. SUFFICES ASSUME mask = Wildcard PROVE FALSE OBVIOUS
  <2>2. mask[1] \in ValidPaths /\ mask[1] = <<"*">> BY <2>1, ElementOfSeq DEF Wildcard
  <2> QED BY <2>2 DEF ValidPaths
<1> DEFINE copy == CHOOSE f : IsCopy(f, source, mask, Len(mask))
<1>2. IsCopy(copy, source, mask, Len(mask))
  BY <1>0, CopyExists
<1>3. ApplyFieldMask(source, mask) = copy[Len(mask)]
  BY <1>1 DEF ApplyFieldMask, IsCopy
<1> HIDE DEF copy
<1>4. Len(mask) \in 0 .. Len(mask)
  BY <1>0
<1> QED BY <1>2, <1>3, <1>4, CopyTyped

Names1(mask) == {p[1] : p \in ToSet(mask)}   \* the fields that a mask leads into

LEMMA MergeTyped ==
  ASSUME NEW old \in Resource, NEW new \in Resource
  PROVE  /\ Merge(old, new) \in Resource
         /\ \A g \in {"n", "s", "l"} : Merge(old, new)[g] = Nothing[g] => old[g] = Nothing[g]
         /\ \A g \in {"n", "s", "l"} : new[g] = Nothing[g] => Merge(old, new)[g] = old[g]
<1>1. Given(old.n, new.n) \in Nat /\ (Given(old.n, new.n) = 0 => old.n = 0)
  BY DEF Given, Resource
<1>2. /\ MergeParts(old.s, new.s) \in Part \cup {None}
      /\ MergeParts(old.s, new.s) = None => old.s = None
  <2>1. CASE old.s = None \/ new.s = None
    BY <2>1 DEF MergeParts, Resource
  <2>2. CASE old.s # None /\ new.s # None
    <3>1. MergeParts(old.s, new.s) \in Part
      BY <2>2 DEF MergeParts, Given, Resource, Part
    <3>2. None \notin Part
      BY InputAssumption
    <3> QED BY <3>1, <3>2
  <2> QED BY <2>1, <2>2
<1>3. /\ old.l \o new.l \in Seq(Part) /\ (new.l = <<>> => old.l \o new.l = old.l)
      /\ old.l \o new.l = <<>> => old.l = <<>>
  <2>1. old.l \in Seq(Part) /\ new.l \in Seq(Part)
    BY DEF Resource
  <2>2. old.l \o new.l \in Seq(Part) /\ Len(old.l \o new.l) = Len(old.l) + Len(new.l)
    BY <2>1, ConcatProperties
  <2>3. Len(old.l) \in Nat /\ Len(new.l) \in Nat
    BY <2>1, LenProperties
  <2>4. old.l \o new.l = <<>> => old.l = <<>>
    BY <2>1, <2>2, <2>3, EmptySeq
  <2> QED BY <2>1, <2>2, <2>4, ConcatEmptySeq
<1>4. /\ Merge(old, new).n = Given(old.n, new.n)
      /\ Merge(old, new).s = MergeParts(old.s, new.s)
      /\ Merge(old, new).l = old.l \o new.l
      /\ Merge(old, new) \in Resource
  BY <1>1, <1>2, <1>3 DEF Merge, Resource
<1>5. new.n = 0 => Given(old.n, new.n) = old.n
  BY DEF Given
<1>6. new.s = None => MergeParts(old.s, new.s) = old.s
  BY DEF MergeParts
<1>7. Nothing.n = 0 /\ Nothing.s = None /\ Nothing.l = <<>>
  BY DEF Nothing
<1> DEFINE M == Merge(old, new)
<1>8. \A g \in {"n", "s", "l"} : M[g] = Nothing[g] => old[g] = Nothing[g]
  <2> HIDE DEF M
  <2>1. M.n = Nothing.n => old.n = Nothing.n BY <1>1, <1>4, <1>7 DEF M
  <2>2. M.s = Nothing.s => old.s = Nothing.s BY <1>2, <1>4, <1>7 DEF M
  <2>3. M.l = Nothing.l => old.l = Nothing.l BY <1>3, <1>4, <1>7 DEF M
  <2> QED BY <2>1, <2>2, <2>3
<1>9. \A g \in {"n", "s", "l"} : new[g] = Nothing[g] => M[g] = old[g]
  <2> HIDE DEF M
  <2>1. new.n = Nothing.n => M.n = old.n BY <1>4, <1>5, <1>7 DEF M
  <2>2. new.s = Nothing.s => M.s = old.s BY <1>4, <1>6, <1>7 DEF M
  <2>3. new.l = Nothing.l => M.l = old.l BY <1>3, <1>4, <1>7 DEF M
  <2> QED BY <2>1, <2>2, <2>3
<1> QED BY <1>4, <1>8, <1>9

LEMMA MergeForUpdateTyped ==
  ASSUME NEW old \in Resource, NEW patch \in Resource, NEW mask \in ValidMasks
  PROVE  /\ MergeForUpdate(old, patch, mask) \in Resource
         /\ \A g \in {"n", "s", "l"} :
              MergeForUpdate(old, patch, mask)[g] = Nothing[g] =>
                old[g] = Nothing[g] \/ (g = "s" /\ <<"s">> \in ToSet(mask) /\ patch.s = None)
         /\ mask # Wildcard =>
              \A g \in {"n", "s", "l"} \ Names1(mask) : MergeForUpdate(old, patch, mask)[g] = old[g]
<1> DEFINE effective == IF mask = Wildcard THEN WildcardUpdateMask ELSE mask
           new    == ApplyFieldMask(patch, effective)
           merged == Merge(old, new)
<1>1. effective \in Seq(ValidPaths)
  <2>1. {<<"n">>, <<"s", "x">>, <<"s", "y">>, <<"l", "*", "x">>, <<"l", "*", "y">>} \subseteq ValidPaths
    BY DEF ValidPaths
  <2>2. WildcardUpdateMask \in Seq(ValidPaths)
    BY <2>1 DEF WildcardUpdateMask
  <2> QED BY <2>2 DEF ValidMasks
<1> HIDE DEF effective
<1>2. /\ new \in Resource
      /\ \A g \in {"n", "s", "l"} :
           (\A j \in 1 .. Len(effective) : effective[j][1] # g) => new[g] = Nothing[g]
  BY <1>1, ApplyFieldMaskTyped
<1>3. /\ merged \in Resource
      /\ \A g \in {"n", "s", "l"} : merged[g] = Nothing[g] => old[g] = Nothing[g]
      /\ \A g \in {"n", "s", "l"} : new[g] = Nothing[g] => merged[g] = old[g]
  BY <1>2, MergeTyped
<1> HIDE DEF new, merged
<1>4. MergeForUpdate(old, patch, mask) =
        IF <<"s">> \in ToSet(effective) /\ patch.s = None THEN [merged EXCEPT !.s = None] ELSE merged
  BY DEF MergeForUpdate, effective, new, merged
<1>5. [merged EXCEPT !.s = None] \in Resource /\ [merged EXCEPT !.s = None].n = merged.n
      /\ \A g \in {"n", "l"} : [merged EXCEPT !.s = None][g] = merged[g]
  BY <1>3 DEF Resource
<1>6. ASSUME mask # Wildcard, NEW g \in {"n", "s", "l"} \ Names1(mask)
      PROVE  MergeForUpdate(old, patch, mask)[g] = old[g]
  <2>1. effective = mask BY <1>6 DEF effective
  <2>2. DOMAIN mask = 1 .. Len(mask) BY <1>1, <2>1, LenProperties
  <2>3. \A j \in 1 .. Len(mask) : mask[j] \in ToSet(mask) BY <2>2 DEF ToSet
  <2>4. \A j \in 1 .. Len(mask) : mask[j][1] # g BY <1>6, <2>3 DEF Names1
  <2>5. merged[g] = old[g] BY <1>2, <1>3, <2>1, <2>4
  <2>6. CASE <<"s">> \in ToSet(mask)
    <3>1. <<"s">>[1] \in Names1(mask) BY <2>6 DEF Names1
    <3>2. g \in {"n", "l"} BY <1>6, <3>1
    <3> QED BY <1>4, <1>5, <2>5, <3>2
  <2>7. CASE <<"s">> \notin ToSet(mask)
    BY <1>4, <2>1, <2>5, <2>7
  <2> QED BY <2>6, <2>7
<1>7. <<"s">> \in ToSet(effective) => <<"s">> \in ToSet(mask)
  <2>1. CASE mask = Wildcard
    <3>1. effective = << <<"n">>, <<"s", "x">>, <<"s", "y">>, <<"l", "*", "x">>, <<"l", "*", "y">> >>
      BY <2>1 DEF effective, WildcardUpdateMask
    <3>2. \A j \in 1 .. 5 : effective[j] # <<"s">>
      BY <3>1
    <3>3. ToSet(effective) = {effective[j] : j \in 1 .. 5}
      BY <3>1 DEF ToSet
    <3> QED BY <3>2, <3>3
  <2>2. CASE mask # Wildcard
    BY <2>2 DEF effective
  <2> QED BY <2>1, <2>2
<1>8. ASSUME NEW g \in {"n", "s", "l"}, MergeForUpdate(old, patch, mask)[g] = Nothing[g]
      PROVE  old[g] = Nothing[g] \/ (g = "s" /\ <<"s">> \in ToSet(mask) /\ patch.s = None)
  <2>1. CASE <<"s">> \in ToSet(effective) /\ patch.s = None
    <3>1. CASE g = "s"
      BY <1>7, <2>1, <3>1
    <3>2. CASE g # "s"
      BY <1>3, <1>4, <1>5, <1>8, <2>1, <3>2
    <3> QED BY <3>1, <3>2
  <2>2. CASE ~ (<<"s">> \in ToSet(effective) /\ patch.s = None)
    BY <1>3, <1>4, <1>8, <2>2
  <2> QED BY <2>1, <2>2
<1> QED BY <1>3, <1>4, <1>5, <1>6, <1>8

-------------------------------------------------------------------------------
(* What applyFieldMask copies.                                               *)

\* The part of a message with only some of its scalars.
PartOf(part, names) == [g \in {"x", "y"} |-> IF g \in names THEN part[g] ELSE 0]

\* What the paths of a mask say to keep of the message s, and of the elements of l.
KeptOfS(mask, k) ==
  {g \in {"x", "y"} : \E j \in 1 .. k : mask[j] = <<"s">> \/ mask[j] = <<"s", g>>}
KeptOfL(mask, k) ==
  {g \in {"x", "y"} : \E j \in 1 .. k : mask[j] = <<"l">> \/ mask[j] = <<"l", "*", g>>}
Into(mask, k, name) == \E j \in 1 .. k : mask[j][1] = name

LEMMA PathsAre ==
  ASSUME NEW path \in ValidPaths
  PROVE  \/ path = <<"n">> /\ path[1] = "n"
         \/ path = <<"s">> /\ path[1] = "s"
         \/ path = <<"l">> /\ path[1] = "l"
         \/ path = <<"l", "*">> /\ path[1] = "l"
         \/ \E g \in {"x", "y"} : path = <<"s", g>> /\ path[1] = "s"
         \/ \E g \in {"x", "y"} : path = <<"l", "*", g>> /\ path[1] = "l"
BY DEF ValidPaths

LEMMA CopyIntoKept ==
  ASSUME NEW part, NEW names, NEW g \in {"x", "y"}
  PROVE  CopyInto(PartOf(part, names), part, <<g>>) = PartOf(part, names \cup {g})
<1>1. Head(<<g>>) = g /\ <<g>> # <<>>
  OBVIOUS
<1>2. CopyInto(PartOf(part, names), part, <<g>>) = [PartOf(part, names) EXCEPT ![g] = part[g]]
  BY <1>1 DEF CopyInto
<1> QED BY <1>2 DEF PartOf

\* What a path "l.*.x" makes of a list.
Remade(source, g) == [k \in DOMAIN source.l |-> CopyInto(NoPart, source.l[k], <<g>>)]

\* applyPath, path by path.
LEMMA ApplyPathIs ==
  ASSUME NEW target \in Resource, NEW source \in Resource, NEW path \in ValidPaths,
         NEW shared \in BOOLEAN
  PROVE  /\ path = <<"n">> =>
              ApplyPath(target, source, path, shared) = [target EXCEPT !.n = source.n]
         /\ path = <<"s">> =>
              ApplyPath(target, source, path, shared) = [target EXCEPT !.s = source.s]
         /\ path = <<"l">> =>
              ApplyPath(target, source, path, shared) = [target EXCEPT !.l = source.l]
         /\ \A g \in {"x", "y"} : path = <<"s", g>> =>
              ApplyPath(target, source, path, shared) =
                IF source.s = None THEN target
                ELSE [target EXCEPT !.s = CopyInto(SubMessage(target), source.s, <<g>>)]
         /\ \A g \in {"x", "y"} : path = <<"l", "*", g>> /\ ~shared =>
              ApplyPath(target, source, path, shared) = [target EXCEPT !.l = Remade(source, g)]
<1> DEFINE r == ApplyPath(target, source, path, shared)
<1>1. path = <<"n">> => r = [target EXCEPT !.n = source.n]
  BY DEF ApplyPath
<1>2. path = <<"s">> => r = [target EXCEPT !.s = source.s]
  BY DEF ApplyPath
<1>3. path = <<"l">> => r = [target EXCEPT !.l = source.l]
  BY DEF ApplyPath
<1>4. ASSUME NEW g \in {"x", "y"}, path = <<"s", g>>
      PROVE  r = IF source.s = None THEN target
                 ELSE [target EXCEPT !.s = CopyInto(SubMessage(target), source.s, <<g>>)]
  <2>1. /\ Len(path) > 1 /\ path[1] = "s" /\ path # <<"n">> /\ path # <<"s">> /\ path # <<"l">>
        /\ Tail(path) = <<g>>
    BY <1>4
  <2>2. r = IF source.s = None THEN target
            ELSE [target EXCEPT !.s = CopyInto(SubMessage(target), source.s, Tail(path))]
    BY <2>1, Zenon DEF ApplyPath
  <2> QED BY <2>1, <2>2
<1>5. ASSUME NEW g \in {"x", "y"}, path = <<"l", "*", g>>, ~shared
      PROVE  r = [target EXCEPT !.l = Remade(source, g)]
  <2>1. /\ Len(path) = 3 /\ Len(path) > 1 /\ path[1] = "l"
        /\ path # <<"n">> /\ path # <<"s">> /\ path # <<"l">>
    BY <1>5
  <2>2. r = [target EXCEPT !.l = Elements(source, path, shared)]
    BY <2>1 DEF ApplyPath
  <2>3. SubSeq(path, 3, Len(path)) = <<g>>
    <3> DEFINE t == SubSeq(path, 3, 3)
    <3>1. \A i \in 3 .. 3 : path[i] \in {"x", "y"}
      <4>1. path[3] = g BY <1>5
      <4>2. \A i \in 3 .. 3 : i = 3 OBVIOUS
      <4> QED BY <4>1, <4>2
    <3>2. /\ t \in Seq({"x", "y"}) /\ Len(t) = IF 3 <= 3 THEN 3 - 3 + 1 ELSE 0
          /\ \A i \in 1 .. 3 - 3 + 1 : t[i] = path[3 + i - 1]
      BY <3>1, SubSeqProperties
    <3> HIDE DEF t
    <3>3. t \in Seq({"x", "y"}) /\ Len(t) = 1 /\ t[1] = g BY <1>5, <3>2
    <3>4. t = <<g>> BY <3>3
    <3> QED BY <2>1, <3>4 DEF t
  <2>4. ASSUME NEW k \in DOMAIN source.l
        PROVE  CopyInto(NoPart, IF shared THEN NoPart ELSE source.l[k], SubSeq(path, 3, Len(path)))
                 = CopyInto(NoPart, source.l[k], <<g>>)
    BY <1>5, <2>1, <2>3
  <2> QED BY <2>2, <2>4 DEF Elements, Remade
<1> QED BY <1>1, <1>2, <1>3, <1>4, <1>5

\* One path more: what it adds to what is kept.
LEMMA OnePathMore ==
  ASSUME NEW mask \in Seq(ValidPaths), NEW m \in 1 .. Len(mask)
  PROVE  /\ \A name : Into(mask, m, name) <=> Into(mask, m - 1, name) \/ mask[m][1] = name
         /\ KeptOfS(mask, m) = KeptOfS(mask, m - 1) \cup
              {g \in {"x", "y"} : mask[m] = <<"s">> \/ mask[m] = <<"s", g>>}
         /\ KeptOfL(mask, m) = KeptOfL(mask, m - 1) \cup
              {g \in {"x", "y"} : mask[m] = <<"l">> \/ mask[m] = <<"l", "*", g>>}
<1>1. Len(mask) \in Nat
  BY LenProperties
<1>2. 1 .. m = (1 .. m - 1) \cup {m}
  BY <1>1
<1>3. \A name : Into(mask, m, name) <=> Into(mask, m - 1, name) \/ mask[m][1] = name
  BY <1>2, Zenon DEF Into
<1>4. KeptOfS(mask, m) = KeptOfS(mask, m - 1) \cup
        {g \in {"x", "y"} : mask[m] = <<"s">> \/ mask[m] = <<"s", g>>}
  BY <1>2, Zenon DEF KeptOfS
<1>5. KeptOfL(mask, m) = KeptOfL(mask, m - 1) \cup
        {g \in {"x", "y"} : mask[m] = <<"l">> \/ mask[m] = <<"l", "*", g>>}
  BY <1>2, Zenon DEF KeptOfL
<1> QED BY <1>3, <1>4, <1>5

\* The copy after k paths has the scalar n if one of them names it, the message s if
\* one leads into it and the source has it, and of it what they name.
CopyNS(copy, source, mask, k) ==
  /\ copy.n = IF Into(mask, k, "n") THEN source.n ELSE 0
  /\ copy.s = IF Into(mask, k, "s") /\ source.s # None
                THEN PartOf(source.s, KeptOfS(mask, k)) ELSE None

LEMMA CopyKeepsNS ==
  ASSUME NEW source \in Resource, NEW mask \in Seq(ValidPaths),
         NEW before \in Resource, NEW m \in 1 .. Len(mask), NEW shared \in BOOLEAN,
         CopyNS(before, source, mask, m - 1), None \notin Part
  PROVE  CopyNS(ApplyPath(before, source, mask[m], shared), source, mask, m)
<1> DEFINE r == ApplyPath(before, source, mask[m], shared)
<1>1. mask[m] \in ValidPaths
  BY ElementOfSeq, LenProperties
<1>2. r \in Resource /\ \A f \in {"n", "s", "l"} : f # mask[m][1] => r[f] = before[f]
  BY <1>1, ApplyPathTyped
<1>3. /\ mask[m] = <<"n">> => r = [before EXCEPT !.n = source.n]
      /\ mask[m] = <<"s">> => r = [before EXCEPT !.s = source.s]
      /\ \A g \in {"x", "y"} : mask[m] = <<"s", g>> =>
           r = IF source.s = None THEN before
               ELSE [before EXCEPT !.s = CopyInto(SubMessage(before), source.s, <<g>>)]
  <2> HIDE DEF r
  <2>1. source \in Resource OBVIOUS
  <2>2. before \in Resource OBVIOUS
  <2>3. shared \in BOOLEAN OBVIOUS
  <2>4. r = ApplyPath(before, source, mask[m], shared) BY DEF r
  <2>5. mask[m] = <<"n">> => r = [before EXCEPT !.n = source.n]
    <3>1. mask[m] = <<"n">> => ApplyPath(before, source, mask[m], shared) = [before EXCEPT !.n = source.n]
      BY <1>1, <2>1, <2>2, <2>3, ApplyPathIs
    <3> QED BY <2>4, <3>1
  <2>6. mask[m] = <<"s">> => r = [before EXCEPT !.s = source.s]
    <3>1. mask[m] = <<"s">> => ApplyPath(before, source, mask[m], shared) = [before EXCEPT !.s = source.s]
      BY <1>1, <2>1, <2>2, <2>3, ApplyPathIs
    <3> QED BY <2>4, <3>1
  <2>7. ASSUME NEW g \in {"x", "y"}, mask[m] = <<"s", g>>
        PROVE  r = IF source.s = None THEN before
                   ELSE [before EXCEPT !.s = CopyInto(SubMessage(before), source.s, <<g>>)]
    <3>1. ApplyPath(before, source, mask[m], shared) =
            IF source.s = None THEN before
            ELSE [before EXCEPT !.s = CopyInto(SubMessage(before), source.s, <<g>>)]
      BY <1>1, <2>1, <2>2, <2>3, <2>7, ApplyPathIs
    <3> QED BY <2>4, <3>1
  <2> QED BY <2>5, <2>6, <2>7
<1> HIDE DEF r
<1>4. r.n = IF Into(mask, m, "n") THEN source.n ELSE 0
  <2>1. CASE mask[m][1] = "n"
    <3>1. mask[m] = <<"n">> BY <1>1, <2>1, PathsAre
    <3>2. r.n = source.n BY <1>3, <3>1 DEF Resource
    <3> QED BY <2>1, <3>2, OnePathMore
  <2>2. CASE mask[m][1] # "n"
    <3>1. r.n = before.n BY <1>2, <2>2
    <3> QED BY <2>2, <3>1, OnePathMore DEF CopyNS
  <2> QED BY <2>1, <2>2
<1>5. r.s = IF Into(mask, m, "s") /\ source.s # None THEN PartOf(source.s, KeptOfS(mask, m)) ELSE None
  <2> DEFINE K == KeptOfS(mask, m - 1)
  <2>0. KeptOfS(mask, m) = K \cup {g \in {"x", "y"} : mask[m] = <<"s">> \/ mask[m] = <<"s", g>>}
    BY OnePathMore
  <2>1. CASE mask[m][1] # "s"
    <3>1. r.s = before.s BY <1>2, <2>1
    <3>2. KeptOfS(mask, m) = K
      <4>1. mask[m] # <<"s">> /\ \A g \in {"x", "y"} : mask[m] # <<"s", g>> BY <2>1
      <4> QED BY <2>0, <4>1
    <3> QED BY <2>1, <3>1, <3>2, OnePathMore DEF CopyNS
  <2>2. CASE mask[m][1] = "s" /\ source.s = None
    <3>1. mask[m] = <<"s">> \/ \E g \in {"x", "y"} : mask[m] = <<"s", g>> BY <1>1, <2>2, PathsAre
    <3>2. before.s = None BY <2>2 DEF CopyNS
    <3>3. r.s = None BY <1>3, <2>2, <3>1, <3>2 DEF Resource
    <3> QED BY <2>2, <3>3
  <2>3. CASE mask[m] = <<"s">> /\ source.s # None
    <3>1. mask[m][1] = "s" BY <2>3
    <3>2. r.s = source.s BY <1>3, <2>3 DEF Resource
    <3>3. KeptOfS(mask, m) = {"x", "y"} BY <2>0, <2>3 DEF KeptOfS
    <3>4. source.s \in Part BY <2>3 DEF Resource
    <3>5. PartOf(source.s, {"x", "y"}) = source.s BY <3>4 DEF PartOf, Part
    <3> QED BY <2>3, <3>1, <3>2, <3>3, <3>5, OnePathMore
  <2>4. ASSUME NEW g \in {"x", "y"}, mask[m] = <<"s", g>>, source.s # None
        PROVE  r.s = IF Into(mask, m, "s") /\ source.s # None THEN PartOf(source.s, KeptOfS(mask, m)) ELSE None
    <3>1. mask[m][1] = "s" /\ mask[m] # <<"s">> /\ \A h \in {"x", "y"} : mask[m] = <<"s", h>> => h = g
      BY <2>4
    <3>2. KeptOfS(mask, m) = K \cup {g} BY <2>0, <2>4, <3>1
    <3>3. r.s = CopyInto(SubMessage(before), source.s, <<g>>)
      BY <1>3, <2>4 DEF Resource
    <3>4. source.s \in Part BY <2>4 DEF Resource
    <3>5. SubMessage(before) = PartOf(source.s, K)
      <4>1. CASE Into(mask, m - 1, "s")
        <5>1. before.s = PartOf(source.s, K) BY <2>4, <4>1 DEF CopyNS
        <5>2. PartOf(source.s, K) \in Part BY <3>4 DEF PartOf, Part
        <5> QED BY <5>1, <5>2 DEF SubMessage
      <4>2. CASE ~ Into(mask, m - 1, "s")
        <5>1. before.s = None BY <4>2 DEF CopyNS
        <5>2. K = {}
          <6>1. \A j \in 1 .. m - 1 : mask[j][1] # "s" BY <4>2 DEF Into
          <6>2. \A j \in 1 .. m - 1 : mask[j] # <<"s">> /\ \A h \in {"x", "y"} : mask[j] # <<"s", h>>
            BY <6>1
          <6> QED BY <6>2 DEF KeptOfS
        <5>3. PartOf(source.s, {}) = NoPart BY DEF PartOf, NoPart
        <5> QED BY <5>1, <5>2, <5>3 DEF SubMessage
      <4> QED BY <4>1, <4>2
    <3>6. CopyInto(PartOf(source.s, K), source.s, <<g>>) = PartOf(source.s, K \cup {g})
      BY CopyIntoKept
    <3> QED BY <2>4, <3>1, <3>2, <3>3, <3>5, <3>6, OnePathMore
  <2> QED BY <1>1, <2>1, <2>2, <2>3, <2>4, PathsAre
<1> QED BY <1>4, <1>5 DEF CopyNS, r

\* The list, once a path leads into it, has of each element what the path names.
CopyL(copy, source, mask, k) ==
  copy.l = IF Into(mask, k, "l")
             THEN [i \in DOMAIN source.l |-> PartOf(source.l[i], KeptOfL(mask, k))] ELSE <<>>

LEMMA OneIntoList ==
  ASSUME NEW mask \in Seq(ValidPaths), PlainLists(mask),
         NEW i \in 1 .. Len(mask), NEW j \in 1 .. Len(mask), mask[i][1] = "l", mask[j][1] = "l"
  PROVE  i = j
<1> DEFINE L == {k \in DOMAIN mask : mask[k][1] = "l"}
<1>1. Len(mask) \in Nat /\ DOMAIN mask = 1 .. Len(mask)
  BY LenProperties
<1>2. IsFiniteSet(L) /\ Cardinality(L) <= 1
  <2>1. IsFiniteSet(1 .. Len(mask)) BY <1>1, FS_Interval
  <2>2. L \subseteq 1 .. Len(mask) BY <1>1
  <2>3. IsFiniteSet(L) BY <2>1, <2>2, FS_Subset
  <2> QED BY <2>3 DEF PlainLists
<1>3. i \in L /\ j \in L
  BY <1>1
<1> HIDE DEF L
<1>4. SUFFICES ASSUME i # j PROVE FALSE
  OBVIOUS
<1>5. {i, j} \subseteq L
  BY <1>3
<1>6. IsFiniteSet({i, j}) /\ Cardinality({i, j}) = 2
  <2>1. IsFiniteSet({i}) /\ Cardinality({i}) = 1 BY FS_Singleton
  <2>2. {i, j} = {i} \cup {j} /\ j \notin {i} BY <1>4
  <2>3. IsFiniteSet({i} \cup {j}) /\ Cardinality({i} \cup {j}) = 1 + 1
    <3>1. /\ IsFiniteSet({i} \cup {j})
          /\ Cardinality({i} \cup {j}) = IF j \in {i} THEN Cardinality({i}) ELSE Cardinality({i}) + 1
      BY <2>1, FS_AddElement
    <3> QED BY <2>1, <2>2, <3>1
  <2> QED
    <3>1. 1 + 1 = 2 OBVIOUS
    <3> QED BY <2>2, <2>3, <3>1, Zenon
<1>7. Cardinality({i, j}) <= Cardinality(L)
  BY <1>2, <1>5, FS_Subset
<1>8. Cardinality(L) \in Nat
  BY <1>2, FS_CardinalityType
<1> QED BY <1>2, <1>6, <1>7, <1>8

LEMMA CopyKeepsL ==
  ASSUME NEW source \in Resource, NEW mask \in Seq(ValidPaths), PlainLists(mask),
         NEW before \in Resource, NEW m \in 1 .. Len(mask), NEW shared \in BOOLEAN,
         shared => \E j \in 1 .. m - 1 : mask[j] = <<"l">>,
         CopyL(before, source, mask, m - 1)
  PROVE  CopyL(ApplyPath(before, source, mask[m], shared), source, mask, m)
<1> DEFINE r == ApplyPath(before, source, mask[m], shared)
           K == KeptOfL(mask, m - 1)
<1>0. Len(mask) \in Nat /\ DOMAIN mask = 1 .. Len(mask)
  BY LenProperties
<1>1. mask[m] \in ValidPaths
  BY ElementOfSeq, LenProperties
<1>2. r \in Resource /\ \A f \in {"n", "s", "l"} : f # mask[m][1] => r[f] = before[f]
  <2>1. source \in Resource OBVIOUS
  <2>2. before \in Resource OBVIOUS
  <2>3. shared \in BOOLEAN OBVIOUS
  <2> QED BY <1>1, <2>1, <2>2, <2>3, ApplyPathTyped, Zenon
<1>3. KeptOfL(mask, m) = K \cup {g \in {"x", "y"} : mask[m] = <<"l">> \/ mask[m] = <<"l", "*", g>>}
  BY OnePathMore
<1>4. CASE mask[m][1] # "l"
  <2>1. r.l = before.l BY <1>2, <1>4
  <2>2. mask[m] # <<"l">> /\ \A g \in {"x", "y"} : mask[m] # <<"l", "*", g>> BY <1>4
  <2>3. KeptOfL(mask, m) = K BY <1>3, <2>2
  <2> QED BY <1>4, <2>1, <2>3, OnePathMore DEF CopyL
<1>5. CASE mask[m][1] = "l"
  <2>1. \A j \in 1 .. m - 1 : mask[j][1] # "l"
    <3>1. SUFFICES ASSUME NEW j \in 1 .. m - 1, mask[j][1] = "l" PROVE FALSE OBVIOUS
    <3>2. j \in 1 .. Len(mask) /\ j # m BY <1>0
    <3> QED BY <1>5, <3>1, <3>2, OneIntoList
  <2>2. \A j \in 1 .. m - 1 : mask[j] # <<"l">> /\ \A g \in {"x", "y"} : mask[j] # <<"l", "*", g>>
    BY <2>1
  <2>3. K = {} /\ ~shared BY <2>2 DEF KeptOfL
  <2>4. Into(mask, m, "l") BY <1>0, <1>5 DEF Into
  <2>5. before \in Resource /\ source \in Resource /\ shared \in BOOLEAN OBVIOUS
  <2>6. ASSUME NEW i \in DOMAIN source.l PROVE source.l[i] \in Part
    BY ElementOfSeq, LenProperties DEF Resource
  <2>7. CASE mask[m] = <<"l">>
    <3>1. r = [before EXCEPT !.l = source.l] BY <2>7 DEF ApplyPath
    <3>2. r.l = source.l BY <3>1 DEF Resource
    <3>3. KeptOfL(mask, m) = {"x", "y"} BY <1>3, <2>3, <2>7
    <3>4. ASSUME NEW i \in DOMAIN source.l PROVE PartOf(source.l[i], {"x", "y"}) = source.l[i]
      BY <2>6 DEF PartOf, Part
    <3>5. source.l = [i \in DOMAIN source.l |-> source.l[i]]
      BY LenProperties DEF Resource
    <3>6. source.l = [i \in DOMAIN source.l |-> PartOf(source.l[i], {"x", "y"})]
      BY <3>4, <3>5
    <3> QED BY <2>4, <3>2, <3>3, <3>6 DEF CopyL
  <2>8. ASSUME NEW g \in {"x", "y"}, mask[m] = <<"l", "*", g>>
        PROVE  CopyL(r, source, mask, m)
    <3>1. r = [before EXCEPT !.l = Remade(source, g)]
      BY <1>1, <2>3, <2>5, <2>8, ApplyPathIs
    <3>2. r.l = Remade(source, g) BY <3>1 DEF Resource
    <3>3. mask[m] # <<"l">> /\ \A h \in {"x", "y"} : mask[m] = <<"l", "*", h>> => h = g BY <2>8
    <3>4. KeptOfL(mask, m) = {g} BY <1>3, <2>3, <2>8, <3>3
    <3>5. ASSUME NEW i \in DOMAIN source.l
          PROVE  CopyInto(NoPart, source.l[i], <<g>>) = PartOf(source.l[i], {g})
      <4>1. PartOf(source.l[i], {}) = NoPart BY DEF PartOf, NoPart
      <4>2. CopyInto(PartOf(source.l[i], {}), source.l[i], <<g>>) = PartOf(source.l[i], {} \cup {g})
        BY CopyIntoKept
      <4>3. {} \cup {g} = {g} OBVIOUS
      <4> QED BY <4>1, <4>2, <4>3
    <3> QED BY <2>4, <3>2, <3>4, <3>5 DEF CopyL, Remade
  <2>9. mask[m] # <<"l", "*">>
    BY <1>0 DEF PlainLists, ToSet
  <2> QED BY <1>1, <1>5, <2>7, <2>8, <2>9, PathsAre
<1> QED BY <1>4, <1>5

LEMMA PrefixIs ==
  ASSUME NEW S, NEW p \in Seq(S), NEW q \in Seq(S)
  PROVE  IsPrefix(p, q) <=> Len(p) <= Len(q) /\ \A i \in 1 .. Len(p) : p[i] = q[i]
<1>0. /\ Len(p) \in Nat /\ Len(q) \in Nat
      /\ \A i \in 1 .. Len(p) : p[i] \in S
      /\ \A i \in 1 .. Len(q) : q[i] \in S
  BY LenProperties, ElementOfSeq
<1>1. SUFFICES ASSUME Len(p) <= Len(q)
               PROVE  SubSeq(p, 1, Len(p)) = SubSeq(q, 1, Len(p)) <=> \A i \in 1 .. Len(p) : p[i] = q[i]
  BY DEF IsPrefix
<1> DEFINE s == SubSeq(p, 1, Len(p))
           t == SubSeq(q, 1, Len(p))
<1>2. s \in Seq(S) /\ Len(s) = Len(p) /\ \A i \in 1 .. Len(p) : s[i] = p[i]
  <2>1. /\ s \in Seq(S)
        /\ Len(s) = IF 1 <= Len(p) THEN Len(p) - 1 + 1 ELSE 0
        /\ \A i \in 1 .. Len(p) - 1 + 1 : s[i] = p[1 + i - 1]
    BY <1>0, SubSeqProperties
  <2> HIDE DEF s
  <2> QED BY <1>0, <2>1
<1>3. t \in Seq(S) /\ Len(t) = Len(p) /\ \A i \in 1 .. Len(p) : t[i] = q[i]
  <2>0. \A i \in 1 .. Len(p) : q[i] \in S BY <1>0, <1>1
  <2>1. /\ t \in Seq(S)
        /\ Len(t) = IF 1 <= Len(p) THEN Len(p) - 1 + 1 ELSE 0
        /\ \A i \in 1 .. Len(p) - 1 + 1 : t[i] = q[1 + i - 1]
    BY <1>0, <2>0, SubSeqProperties
  <2> HIDE DEF t
  <2> QED BY <1>0, <2>1
<1> HIDE DEF s, t
<1>4. s = t <=> \A i \in 1 .. Len(p) : s[i] = t[i]
  <2>1. DOMAIN s = 1 .. Len(p) /\ DOMAIN t = 1 .. Len(p) BY <1>2, <1>3, LenProperties
  <2>2. ASSUME \A i \in 1 .. Len(p) : s[i] = t[i] PROVE s = t
    BY <1>2, <1>3, <2>2, SeqEqual
  <2> QED BY <2>2
<1>5. s = t <=> \A i \in 1 .. Len(p) : p[i] = q[i]
  BY <1>2, <1>3, <1>4
<1> QED BY <1>5 DEF s, t

\* A copy of all the paths is the projection.
LEMMA CoveredParts ==
  ASSUME NEW mask \in Seq(ValidPaths), NEW g \in {"x", "y"}
  PROVE  /\ Covers(mask, Append(<<"s">>, g)) <=> g \in KeptOfS(mask, Len(mask))
         /\ Covers(mask, Append(<<"l", "*">>, g)) /\ PlainLists(mask) <=>
              g \in KeptOfL(mask, Len(mask)) /\ PlainLists(mask)
<1>0. DOMAIN mask = 1 .. Len(mask) /\ ToSet(mask) = {mask[j] : j \in 1 .. Len(mask)}
      /\ \A j \in 1 .. Len(mask) : mask[j] \in ValidPaths
  BY LenProperties, ElementOfSeq DEF ToSet
<1> DEFINE Segments == {"n", "s", "l", "*", "x", "y"}
<1>1. Append(<<"s">>, g) = <<"s", g>> /\ Append(<<"l", "*">>, g) = <<"l", "*", g>>
  <2> DEFINE a == Append(<<"s">>, g)
             b == Append(<<"l", "*">>, g)
  <2>1. <<"s">> \in Seq(Segments) /\ <<"l", "*">> \in Seq(Segments) /\ g \in Segments
    OBVIOUS
  <2>2. a \in Seq(Segments) /\ Len(a) = 2 /\ a[1] = "s" /\ a[2] = g
    BY <2>1, AppendProperties
  <2>3. b \in Seq(Segments) /\ Len(b) = 3 /\ b[1] = "l" /\ b[2] = "*" /\ b[3] = g
    BY <2>1, AppendProperties
  <2> HIDE DEF a, b
  <2>4. a = <<"s", g>> /\ b = <<"l", "*", g>>
    BY <2>2, <2>3
  <2> QED BY <2>4 DEF a, b
<1>2. ASSUME NEW p \in ValidPaths
      PROVE  /\ IsPrefix(p, <<"s", g>>) <=> p = <<"s">> \/ p = <<"s", g>>
             /\ IsPrefix(p, <<"l", "*", g>>) <=> p = <<"l">> \/ p = <<"l", "*">> \/ p = <<"l", "*", g>>
  <2> DEFINE sg == <<"s", g>>
             lg == <<"l", "*", g>>
  <2>1. p \in Seq(Segments) /\ sg \in Seq(Segments) /\ lg \in Seq(Segments)
    <3>1. /\ <<"n">> \in Seq(Segments) /\ <<"s">> \in Seq(Segments) /\ <<"l">> \in Seq(Segments)
          /\ <<"l", "*">> \in Seq(Segments)
          /\ \A h \in {"x", "y"} : <<"s", h>> \in Seq(Segments) /\ <<"l", "*", h>> \in Seq(Segments)
      OBVIOUS
    <3> HIDE DEF Segments
    <3> QED BY <3>1, PathsAre, Zenon
  <2>2. /\ IsPrefix(p, sg) <=> Len(p) <= Len(sg) /\ \A i \in 1 .. Len(p) : p[i] = sg[i]
        /\ IsPrefix(p, lg) <=> Len(p) <= Len(lg) /\ \A i \in 1 .. Len(p) : p[i] = lg[i]
    <3> HIDE DEF sg, lg, Segments
    <3> QED BY <2>1, PrefixIs
  <2>3. Len(sg) = 2 /\ sg[1] = "s" /\ sg[2] = g /\ Len(lg) = 3 /\ lg[1] = "l" /\ lg[2] = "*" /\ lg[3] = g
    OBVIOUS
  <2>4. \/ Len(p) = 1 /\ p = <<p[1]>>
        \/ Len(p) = 2 /\ p = <<p[1], p[2]>>
        \/ Len(p) = 3 /\ p = <<p[1], p[2], p[3]>>
    BY DEF ValidPaths
  <2> HIDE DEF sg, lg, Segments
  <2>5. 1 .. 1 = {1} /\ 1 .. 2 = {1, 2} /\ 1 .. 3 = {1, 2, 3}
    OBVIOUS
  <2>6. Len(p) = 1 => /\ IsPrefix(p, sg) <=> p[1] = "s"
                      /\ IsPrefix(p, lg) <=> p[1] = "l"
    BY <2>2, <2>3, <2>5
  <2>7. Len(p) = 2 => /\ IsPrefix(p, sg) <=> p[1] = "s" /\ p[2] = g
                      /\ IsPrefix(p, lg) <=> p[1] = "l" /\ p[2] = "*"
    BY <2>2, <2>3, <2>5
  <2>8. Len(p) = 3 => /\ ~ IsPrefix(p, sg)
                      /\ IsPrefix(p, lg) <=> p[1] = "l" /\ p[2] = "*" /\ p[3] = g
    BY <2>2, <2>3, <2>5
  <2>9. /\ IsPrefix(p, sg) <=> p = <<"s">> \/ p = sg
        /\ IsPrefix(p, lg) <=> p = <<"l">> \/ p = <<"l", "*">> \/ p = lg
    BY <2>4, <2>6, <2>7, <2>8 DEF sg, lg
  <2> QED BY <2>9 DEF sg, lg
<1>3. Covers(mask, <<"s", g>>) <=> g \in KeptOfS(mask, Len(mask))
  BY <1>0, <1>2 DEF Covers, KeptOfS
<1>4. PlainLists(mask) => (Covers(mask, <<"l", "*", g>>) <=> g \in KeptOfL(mask, Len(mask)))
  BY <1>0, <1>2 DEF Covers, KeptOfL, PlainLists
<1> QED BY <1>1, <1>3, <1>4

\* applyFieldMask (src/wkt/fieldmask.ts) keeps of any message what the mask covers and
\* nothing else, for any mask that leads into the list by one path at most.
THEOREM ApplyProjects ==
  ASSUME NEW msg \in Resource, NEW mask \in Seq(ValidPaths)
  PROVE  ProjectionHolds(msg, mask)
<1> SUFFICES ASSUME PlainLists(mask) PROVE ApplyFieldMask(msg, mask) = Projection(msg, mask)
  BY DEF ProjectionHolds
<1> DEFINE n == Len(mask)
           copy == CHOOSE f : IsCopy(f, msg, mask, n)
<1>0. n \in Nat /\ DOMAIN mask = 1 .. n /\ \A j \in 1 .. n : mask[j] \in ValidPaths
  BY LenProperties, ElementOfSeq
<1>1. mask # Wildcard
  <2>1. SUFFICES ASSUME mask = Wildcard PROVE FALSE OBVIOUS
  <2>2. mask[1] \in ValidPaths /\ mask[1] = <<"*">> BY <2>1, ElementOfSeq DEF Wildcard
  <2> QED BY <2>2 DEF ValidPaths
<1>2. IsCopy(copy, msg, mask, n)
  BY <1>0, CopyExists
<1>3. ApplyFieldMask(msg, mask) = copy[n]
  BY <1>1 DEF ApplyFieldMask, IsCopy
<1> HIDE DEF copy, n
<1>4. \A k \in 0 .. n : copy[k] \in Resource
  BY <1>2, CopyTyped DEF n
<1> DEFINE Good(k) == CopyNS(copy[k], msg, mask, k) /\ CopyL(copy[k], msg, mask, k)
           S == {k \in 0 .. n : ~ Good(k)}
<1>5. S = {}
  <2>1. SUFFICES ASSUME S # {} PROVE FALSE
    OBVIOUS
  <2>2. PICK m \in S : \A i \in S : m <= i
    <3>1. S \in SUBSET Nat BY <1>0
    <3> QED BY <2>1, <3>1, LeastNumber
  <2>3. m # 0
    <3>1. copy[0] = Nothing BY <1>0, <1>2 DEF IsCopy
    <3>2. 1 .. 0 = {} OBVIOUS
    <3>3. \A name : ~ Into(mask, 0, name) BY <3>2 DEF Into
    <3>4. Good(0) BY <3>1, <3>3 DEF CopyNS, CopyL, Nothing
    <3> QED BY <2>2, <3>4
  <2>4. m \in 1 .. n /\ m - 1 \in 0 .. n /\ Good(m - 1)
    BY <1>0, <2>2, <2>3
  <2>5. PICK shared \in BOOLEAN : shared = \E j \in 1 .. m - 1 : mask[j] = <<"l">>
    OBVIOUS
  <2>6. copy[m] = ApplyPath(copy[m - 1], msg, mask[m], shared)
    BY <1>0, <1>2, <2>3, <2>4, <2>5 DEF IsCopy
  <2>7. PICK before \in Resource : before = copy[m - 1]
    BY <1>4, <2>4
  <2>8. CopyNS(before, msg, mask, m - 1) /\ CopyL(before, msg, mask, m - 1)
    BY <2>4, <2>7
  <2>9. m \in 1 .. Len(mask) BY <2>4 DEF n
  <2> HIDE DEF Good, S
  <2>10. shared => \E j \in 1 .. m - 1 : mask[j] = <<"l">>
    BY <2>5
  <2>11. CopyNS(ApplyPath(before, msg, mask[m], shared), msg, mask, m)
    BY <2>8, <2>9, CopyKeepsNS, InputAssumption
  <2>12. CopyL(ApplyPath(before, msg, mask[m], shared), msg, mask, m)
    BY <2>8, <2>9, <2>10, CopyKeepsL
  <2>13. Good(m)
    BY <2>6, <2>7, <2>11, <2>12 DEF Good
  <2> QED BY <2>2, <2>13 DEF S
<1>6. CopyNS(copy[n], msg, mask, n) /\ CopyL(copy[n], msg, mask, n) /\ copy[n] \in Resource
  BY <1>0, <1>4, <1>5
<1>7. \A name : Into(mask, n, name) <=> name \in {p[1] : p \in ToSet(mask)}
  <2>1. ToSet(mask) = {mask[j] : j \in 1 .. n} BY <1>0 DEF ToSet
  <2> QED BY <2>1 DEF Into
<1>8. \A part : PartOf(part, KeptOfS(mask, n)) =
        [g \in {"x", "y"} |-> IF Covers(mask, Append(<<"s">>, g)) THEN part[g] ELSE 0]
  <2>1. \A g \in {"x", "y"} : Covers(mask, Append(<<"s">>, g)) <=> g \in KeptOfS(mask, n)
    BY CoveredParts DEF n
  <2> QED BY <2>1, Zenon DEF PartOf
<1>9. \A part : PartOf(part, KeptOfL(mask, n)) =
        [g \in {"x", "y"} |-> IF Covers(mask, Append(<<"l", "*">>, g)) THEN part[g] ELSE 0]
  <2>1. \A g \in {"x", "y"} : Covers(mask, Append(<<"l", "*">>, g)) <=> g \in KeptOfL(mask, n)
    BY CoveredParts DEF n
  <2> QED BY <2>1, Zenon DEF PartOf
<1> DEFINE pr == Projection(msg, mask)
<1>10. /\ pr = [n |-> pr.n, s |-> pr.s, l |-> pr.l]
       /\ pr.n = IF "n" \in {p[1] : p \in ToSet(mask)} THEN msg.n ELSE 0
       /\ pr.s = IF "s" \in {p[1] : p \in ToSet(mask)} /\ msg.s # None
                   THEN [g \in {"x", "y"} |-> IF Covers(mask, Append(<<"s">>, g)) THEN msg.s[g] ELSE 0]
                   ELSE None
       /\ pr.l = IF "l" \in {p[1] : p \in ToSet(mask)}
                   THEN [i \in DOMAIN msg.l |->
                          [g \in {"x", "y"} |->
                             IF Covers(mask, Append(<<"l", "*">>, g)) THEN msg.l[i][g] ELSE 0]]
                   ELSE <<>>
  BY DEF Projection
<1> HIDE DEF pr
<1>11. copy[n].n = pr.n
  BY <1>6, <1>7, <1>10 DEF CopyNS
<1>12. copy[n].s = pr.s
  BY <1>6, <1>7, <1>8, <1>10 DEF CopyNS
<1>13. copy[n].l = pr.l
  BY <1>6, <1>7, <1>9, <1>10 DEF CopyL
<1>14. copy[n] = [n |-> copy[n].n, s |-> copy[n].s, l |-> copy[n].l]
  BY <1>6 DEF Resource
<1> QED BY <1>3, <1>10, <1>11, <1>12, <1>13, <1>14 DEF pr

-------------------------------------------------------------------------------
(* The order of paths.                                                        *)

\* The valid paths in their order: the place of each, and of the last one below it.
Rank(p) ==
  CASE p = <<"l">> -> 1 [] p = <<"l", "*">> -> 2 [] p = <<"l", "*", "x">> -> 3
    [] p = <<"l", "*", "y">> -> 4 [] p = <<"n">> -> 5
    [] p = <<"s">> -> 6 [] p = <<"s", "x">> -> 7 [] p = <<"s", "y">> -> 8
LastBelow(p) ==
  CASE p = <<"l">> -> 4 [] p = <<"l", "*">> -> 4 [] p = <<"s">> -> 8
    [] OTHER -> Rank(p)

Segments == {"*", "l", "n", "s", "x", "y"}

LEMMA Codes ==
  /\ Code("*") = 1 /\ Code("l") = 2 /\ Code("n") = 3
  /\ Code("s") = 4 /\ Code("x") = 5 /\ Code("y") = 6
<1>1. DOMAIN Names = 1 .. 6
  BY DEF Names
<1>2. ASSUME NEW k \in 1 .. 6, NEW j \in 1 .. 6, Names[k] = Names[j] PROVE k = j
  BY <1>2 DEF Names
<1>3. Names[1] = "*" /\ Names[2] = "l" /\ Names[3] = "n" /\ Names[4] = "s" /\ Names[5] = "x" /\ Names[6] = "y"
  BY DEF Names
<1>4. ASSUME NEW k \in 1 .. 6 PROVE Code(Names[k]) = k
  BY <1>1, <1>2 DEF Code
<1> QED BY <1>3, <1>4

LEMMA LessIs ==
  ASSUME NEW p \in Seq(Segments), NEW q \in Seq(Segments)
  PROVE  LessPath(p, q) <=>
           \/ Len(p) <= Len(q) /\ p # q /\ \A i \in 1 .. Len(p) : p[i] = q[i]
           \/ \E k \in 1 .. Len(p) : /\ k <= Len(q)
                                     /\ \A i \in 1 .. k - 1 : p[i] = q[i]
                                     /\ Code(p[k]) < Code(q[k])
<1>0. /\ Len(p) \in Nat /\ Len(q) \in Nat /\ DOMAIN p = 1 .. Len(p) /\ DOMAIN q = 1 .. Len(q)
      /\ \A i \in 1 .. Len(p) : p[i] \in Segments
      /\ \A i \in 1 .. Len(q) : q[i] \in Segments
  BY LenProperties, ElementOfSeq
<1>1. IsStrictPrefix(p, q) <=> Len(p) <= Len(q) /\ p # q /\ \A i \in 1 .. Len(p) : p[i] = q[i]
  BY PrefixIs DEF IsStrictPrefix
<1>2. ASSUME NEW k \in 1 .. Len(p), k <= Len(q)
      PROVE  SubSeq(p, 1, k - 1) = SubSeq(q, 1, k - 1) <=> \A i \in 1 .. k - 1 : p[i] = q[i]
  <2> DEFINE s == SubSeq(p, 1, k - 1)
             t == SubSeq(q, 1, k - 1)
  <2>1. s \in Seq(Segments) /\ Len(s) = k - 1 /\ \A i \in 1 .. k - 1 : s[i] = p[i]
    <3>0. 1 \in Int /\ k - 1 \in Int /\ \A i \in 1 .. k - 1 : p[i] \in Segments BY <1>0
    <3>1. /\ s \in Seq(Segments)
          /\ Len(s) = IF 1 <= k - 1 THEN k - 1 - 1 + 1 ELSE 0
          /\ \A i \in 1 .. k - 1 - 1 + 1 : s[i] = p[1 + i - 1]
      BY <3>0, SubSeqProperties
    <3> HIDE DEF s
    <3> QED BY <1>0, <3>1
  <2>2. t \in Seq(Segments) /\ Len(t) = k - 1 /\ \A i \in 1 .. k - 1 : t[i] = q[i]
    <3>0. 1 \in Int /\ k - 1 \in Int /\ \A i \in 1 .. k - 1 : q[i] \in Segments BY <1>0, <1>2
    <3>1. /\ t \in Seq(Segments)
          /\ Len(t) = IF 1 <= k - 1 THEN k - 1 - 1 + 1 ELSE 0
          /\ \A i \in 1 .. k - 1 - 1 + 1 : t[i] = q[1 + i - 1]
      BY <3>0, SubSeqProperties
    <3> HIDE DEF t
    <3> QED BY <1>0, <3>1
  <2> HIDE DEF s, t
  <2>3. ASSUME \A i \in 1 .. k - 1 : s[i] = t[i] PROVE s = t
    BY <2>1, <2>2, <2>3, SeqEqual
  <2>4. s = t <=> \A i \in 1 .. k - 1 : p[i] = q[i]
    BY <2>1, <2>2, <2>3
  <2> QED BY <2>4 DEF s, t
<1>3. DOMAIN p \cap DOMAIN q = {k \in 1 .. Len(p) : k <= Len(q)}
  BY <1>0
<1> QED BY <1>1, <1>2, <1>3 DEF LessPath

LEMMA Shapes ==
  ASSUME NEW p \in ValidPaths
  PROVE  /\ p \in Seq(Segments)
         /\ \/ p = <<"l">> /\ Len(p) = 1 /\ p[1] = "l" /\ Rank(p) = 1 /\ LastBelow(p) = 4
            \/ p = <<"l", "*">> /\ Len(p) = 2 /\ p[1] = "l" /\ p[2] = "*" /\ Rank(p) = 2 /\ LastBelow(p) = 4
            \/ /\ p = <<"l", "*", "x">> /\ Len(p) = 3 /\ p[1] = "l" /\ p[2] = "*" /\ p[3] = "x"
               /\ Rank(p) = 3 /\ LastBelow(p) = 3
            \/ /\ p = <<"l", "*", "y">> /\ Len(p) = 3 /\ p[1] = "l" /\ p[2] = "*" /\ p[3] = "y"
               /\ Rank(p) = 4 /\ LastBelow(p) = 4
            \/ p = <<"n">> /\ Len(p) = 1 /\ p[1] = "n" /\ Rank(p) = 5 /\ LastBelow(p) = 5
            \/ p = <<"s">> /\ Len(p) = 1 /\ p[1] = "s" /\ Rank(p) = 6 /\ LastBelow(p) = 8
            \/ p = <<"s", "x">> /\ Len(p) = 2 /\ p[1] = "s" /\ p[2] = "x" /\ Rank(p) = 7 /\ LastBelow(p) = 7
            \/ p = <<"s", "y">> /\ Len(p) = 2 /\ p[1] = "s" /\ p[2] = "y" /\ Rank(p) = 8 /\ LastBelow(p) = 8
<1>1. CASE p = <<"l">>
  BY <1>1 DEF Rank, LastBelow, Segments
<1>2. CASE p = <<"l", "*">>
  BY <1>2 DEF Rank, LastBelow, Segments
<1>3. CASE p = <<"l", "*", "x">>
  BY <1>3 DEF Rank, LastBelow, Segments
<1>4. CASE p = <<"l", "*", "y">>
  BY <1>4 DEF Rank, LastBelow, Segments
<1>5. CASE p = <<"n">>
  BY <1>5 DEF Rank, LastBelow, Segments
<1>6. CASE p = <<"s">>
  BY <1>6 DEF Rank, LastBelow, Segments
<1>7. CASE p = <<"s", "x">>
  BY <1>7 DEF Rank, LastBelow, Segments
<1>8. CASE p = <<"s", "y">>
  BY <1>8 DEF Rank, LastBelow, Segments
<1> QED BY <1>1, <1>2, <1>3, <1>4, <1>5, <1>6, <1>7, <1>8 DEF ValidPaths

LEMMA UpToThree ==
  ASSUME NEW p \in Seq(Segments), NEW q \in Seq(Segments), Len(p) \in 1 .. 3, Len(q) \in 1 .. 3
  PROVE  /\ IsPrefix(p, q) <=>
              /\ Len(p) <= Len(q) /\ p[1] = q[1]
              /\ Len(p) >= 2 => p[2] = q[2]
              /\ Len(p) >= 3 => p[3] = q[3]
         /\ LessPath(p, q) <=>
              \/ IsPrefix(p, q) /\ p # q
              \/ Code(p[1]) < Code(q[1])
              \/ Len(p) >= 2 /\ Len(q) >= 2 /\ p[1] = q[1] /\ Code(p[2]) < Code(q[2])
              \/ /\ Len(p) >= 3 /\ Len(q) >= 3 /\ p[1] = q[1] /\ p[2] = q[2]
                 /\ Code(p[3]) < Code(q[3])
<1>1. 1 .. 0 = {} /\ 1 .. 1 = {1} /\ 1 .. 2 = {1, 2} /\ 1 .. 3 = {1, 2, 3}
  OBVIOUS
<1>2. IsPrefix(p, q) <=> Len(p) <= Len(q) /\ \A i \in 1 .. Len(p) : p[i] = q[i]
  BY PrefixIs
<1>3. IsPrefix(p, q) <=> /\ Len(p) <= Len(q) /\ p[1] = q[1]
                         /\ Len(p) >= 2 => p[2] = q[2]
                         /\ Len(p) >= 3 => p[3] = q[3]
  BY <1>1, <1>2
<1> DEFINE D(k) == \A i \in 1 .. k - 1 : p[i] = q[i]
<1>4. LessPath(p, q) <=> \/ IsPrefix(p, q) /\ p # q
                         \/ \E k \in 1 .. Len(p) : k <= Len(q) /\ D(k) /\ Code(p[k]) < Code(q[k])
  BY <1>2, LessIs
<1>5. /\ D(1)
      /\ D(2) <=> p[1] = q[1]
      /\ D(3) <=> p[1] = q[1] /\ p[2] = q[2]
  BY <1>1
<1> HIDE DEF D
<1>6. (\E k \in 1 .. Len(p) : k <= Len(q) /\ D(k) /\ Code(p[k]) < Code(q[k])) <=>
        \/ Code(p[1]) < Code(q[1])
        \/ Len(p) >= 2 /\ Len(q) >= 2 /\ D(2) /\ Code(p[2]) < Code(q[2])
        \/ Len(p) >= 3 /\ Len(q) >= 3 /\ D(3) /\ Code(p[3]) < Code(q[3])
  BY <1>1, <1>5
<1> QED BY <1>3, <1>4, <1>5, <1>6

\* The order of paths is that of their places, and what is below a path comes right
\* after it.
LEMMA PathOrder ==
  ASSUME NEW p \in ValidPaths, NEW q \in ValidPaths
  PROVE  /\ Rank(p) \in 1 .. 8 /\ LastBelow(p) \in 1 .. 8 /\ Rank(p) <= LastBelow(p)
         /\ Rank(p) = Rank(q) => p = q
         /\ LessPath(p, q) <=> Rank(p) < Rank(q)
         /\ IsPrefix(p, q) <=> Rank(p) <= Rank(q) /\ Rank(q) <= LastBelow(p)
         /\ IsPrefix(p, q) => LastBelow(q) <= LastBelow(p)
<1> DEFINE Shape(r) ==
      \/ r = <<"l">> /\ Len(r) = 1 /\ r[1] = "l" /\ Rank(r) = 1 /\ LastBelow(r) = 4
      \/ r = <<"l", "*">> /\ Len(r) = 2 /\ r[1] = "l" /\ r[2] = "*" /\ Rank(r) = 2 /\ LastBelow(r) = 4
      \/ /\ r = <<"l", "*", "x">> /\ Len(r) = 3 /\ r[1] = "l" /\ r[2] = "*" /\ r[3] = "x"
         /\ Rank(r) = 3 /\ LastBelow(r) = 3
      \/ /\ r = <<"l", "*", "y">> /\ Len(r) = 3 /\ r[1] = "l" /\ r[2] = "*" /\ r[3] = "y"
         /\ Rank(r) = 4 /\ LastBelow(r) = 4
      \/ r = <<"n">> /\ Len(r) = 1 /\ r[1] = "n" /\ Rank(r) = 5 /\ LastBelow(r) = 5
      \/ r = <<"s">> /\ Len(r) = 1 /\ r[1] = "s" /\ Rank(r) = 6 /\ LastBelow(r) = 8
      \/ r = <<"s", "x">> /\ Len(r) = 2 /\ r[1] = "s" /\ r[2] = "x" /\ Rank(r) = 7 /\ LastBelow(r) = 7
      \/ r = <<"s", "y">> /\ Len(r) = 2 /\ r[1] = "s" /\ r[2] = "y" /\ Rank(r) = 8 /\ LastBelow(r) = 8
<1>1. p \in Seq(Segments) /\ q \in Seq(Segments) /\ Shape(p) /\ Shape(q)
  BY Shapes
<1>2. Len(p) \in 1 .. 3 /\ Len(q) \in 1 .. 3
  BY <1>1
<1>3. /\ IsPrefix(p, q) <=>
           /\ Len(p) <= Len(q) /\ p[1] = q[1]
           /\ Len(p) >= 2 => p[2] = q[2]
           /\ Len(p) >= 3 => p[3] = q[3]
      /\ LessPath(p, q) <=>
           \/ IsPrefix(p, q) /\ p # q
           \/ Code(p[1]) < Code(q[1])
           \/ Len(p) >= 2 /\ Len(q) >= 2 /\ p[1] = q[1] /\ Code(p[2]) < Code(q[2])
           \/ /\ Len(p) >= 3 /\ Len(q) >= 3 /\ p[1] = q[1] /\ p[2] = q[2]
              /\ Code(p[3]) < Code(q[3])
  BY <1>1, <1>2, UpToThree
<1>4. Rank(p) \in 1 .. 8 /\ LastBelow(p) \in 1 .. 8 /\ Rank(p) <= LastBelow(p)
  BY <1>1
<1>5. Rank(p) = Rank(q) => p = q
  BY <1>1
<1>6. IsPrefix(p, q) <=> Rank(p) <= Rank(q) /\ Rank(q) <= LastBelow(p)
  BY <1>1, <1>3
<1>7. LessPath(p, q) <=> Rank(p) < Rank(q)
  BY <1>1, <1>3, <1>5, <1>6, Codes
<1>8. IsPrefix(p, q) => LastBelow(q) <= LastBelow(p)
  BY <1>1, <1>6
<1> QED BY <1>4, <1>5, <1>6, <1>7, <1>8

\* In the place of a path are those that go before it, and itself.
LEMMA PlaceFacts ==
  ASSUME NEW s \in Seq(ValidPaths), NEW k \in 1 .. Len(s), NEW l \in 1 .. Len(s)
  PROVE  /\ Place(s, k) \in 1 .. Len(s)
         /\ Rank(s[k]) < Rank(s[l]) => Place(s, k) < Place(s, l)
         /\ k # l => Place(s, k) # Place(s, l)
<1> DEFINE n == Len(s)
           B(i) == {j \in 1 .. n : Rank(s[j]) < Rank(s[i]) \/ (s[j] = s[i] /\ j <= i)}
<1>0. n \in Nat /\ DOMAIN s = 1 .. n /\ \A i \in 1 .. n : s[i] \in ValidPaths
  BY LenProperties, ElementOfSeq
<1>1. ASSUME NEW i \in 1 .. n
      PROVE  /\ Place(s, i) = Cardinality(B(i)) /\ IsFiniteSet(B(i)) /\ i \in B(i)
             /\ Place(s, i) \in 1 .. n
  <2>1. \A j \in 1 .. n : LessPath(s[j], s[i]) <=> Rank(s[j]) < Rank(s[i])
    BY <1>0, PathOrder
  <2>2. {j \in 1 .. n : LessPath(s[j], s[i]) \/ (s[j] = s[i] /\ j <= i)} = B(i)
    BY <2>1
  <2>3. Place(s, i) = Cardinality(B(i))
    BY <1>0, <2>2 DEF Place
  <2>4. i \in B(i)
    BY <1>0
  <2>5. IsFiniteSet(1 .. n) /\ Cardinality(1 .. n) = n
    <3>1. 1 \in Int /\ n \in Int BY <1>0
    <3>2. IsFiniteSet(1 .. n) /\ Cardinality(1 .. n) = IF 1 > n THEN 0 ELSE n - 1 + 1
      BY <3>1, FS_Interval
    <3> HIDE DEF n
    <3> QED BY <1>0, <3>2
  <2>6. B(i) \subseteq 1 .. n OBVIOUS
  <2> HIDE DEF B, n
  <2>7. IsFiniteSet(B(i)) /\ Cardinality(B(i)) <= n
    BY <2>5, <2>6, FS_Subset
  <2>8. IsFiniteSet({i}) /\ Cardinality({i}) = 1 /\ {i} \subseteq B(i)
    BY <2>4, FS_Singleton
  <2>9. 1 <= Cardinality(B(i)) /\ Cardinality(B(i)) \in Nat
    <3>1. Cardinality({i}) <= Cardinality(B(i)) BY <2>7, <2>8, FS_Subset
    <3> QED BY <2>7, <2>8, <3>1, FS_CardinalityType
  <2> QED BY <1>0, <2>3, <2>4, <2>7, <2>9
<1>2. ASSUME NEW i \in 1 .. n, NEW j \in 1 .. n, B(i) \subseteq B(j), j \notin B(i)
      PROVE  Place(s, i) < Place(s, j)
  <2>1. IsFiniteSet(B(j)) /\ IsFiniteSet(B(i)) /\ j \in B(j) /\ Place(s, i) = Cardinality(B(i)) /\ Place(s, j) = Cardinality(B(j))
        /\ Place(s, i) \in 1 .. n /\ Place(s, j) \in 1 .. n
    BY <1>1
  <2> HIDE DEF B, n
  <2>2. Cardinality(B(i)) <= Cardinality(B(j)) /\ (Cardinality(B(j)) = Cardinality(B(i)) => B(j) = B(i))
    BY <1>2, <2>1, FS_Subset
  <2>3. B(i) # B(j) BY <1>2, <2>1
  <2> QED BY <1>0, <2>1, <2>2, <2>3
<1>3. ASSUME NEW i \in 1 .. n, NEW j \in 1 .. n, Rank(s[i]) < Rank(s[j]) \/ (s[i] = s[j] /\ i < j)
      PROVE  Place(s, i) < Place(s, j)
  <2>0. \A m \in 1 .. n : Rank(s[m]) \in 1 .. 8
    BY <1>0, PathOrder
  <2>1. ASSUME NEW m \in B(i) PROVE m \in B(j)
    <3>1. m \in 1 .. n /\ (Rank(s[m]) < Rank(s[i]) \/ (s[m] = s[i] /\ m <= i)) OBVIOUS
    <3>2. Rank(s[m]) \in 1 .. 8 /\ Rank(s[i]) \in 1 .. 8 /\ Rank(s[j]) \in 1 .. 8 BY <2>0, <3>1
    <3>3. CASE Rank(s[i]) < Rank(s[j])
      <4>1. Rank(s[m]) < Rank(s[j]) BY <3>1, <3>2, <3>3
      <4> QED BY <3>1, <4>1
    <3>4. CASE s[i] = s[j] /\ i < j
      <4>1. Rank(s[m]) < Rank(s[j]) \/ (s[m] = s[j] /\ m <= j) BY <1>0, <3>1, <3>4
      <4> QED BY <3>1, <4>1
    <3> QED BY <1>3, <3>3, <3>4
  <2>2. j \notin B(i)
    BY <1>0, <1>3, <2>0
  <2>3. B(i) \subseteq B(j)
    BY <2>1
  <2> QED BY <1>2, <2>2, <2>3
<1>4. k # l => Place(s, k) # Place(s, l)
  <2>1. \/ Rank(s[k]) < Rank(s[l]) \/ Rank(s[l]) < Rank(s[k]) \/ s[k] = s[l]
    <3>1. s[k] \in ValidPaths /\ s[l] \in ValidPaths BY <1>0
    <3>2. Rank(s[k]) \in 1 .. 8 /\ Rank(s[l]) \in 1 .. 8 /\ (Rank(s[k]) = Rank(s[l]) => s[k] = s[l])
      BY <3>1, PathOrder
    <3> QED BY <3>2
  <2>2. k # l => Place(s, k) < Place(s, l) \/ Place(s, l) < Place(s, k)
    BY <1>0, <1>3, <2>1
  <2>3. Place(s, k) \in 1 .. n /\ Place(s, l) \in 1 .. n
    BY <1>1
  <2> QED BY <1>0, <2>2, <2>3
<1> QED BY <1>1, <1>3, <1>4

\* SortPaths has the same paths, in order.
LEMMA SortFacts ==
  ASSUME NEW s \in Seq(ValidPaths)
  PROVE  /\ SortPaths(s) \in Seq(ValidPaths) /\ Len(SortPaths(s)) = Len(s)
         /\ \A i \in 1 .. Len(s) : \E k \in 1 .. Len(s) : SortPaths(s)[i] = s[k]
         /\ \A k \in 1 .. Len(s) : \E i \in 1 .. Len(s) : SortPaths(s)[i] = s[k]
         /\ \A i, j \in 1 .. Len(s) : i <= j => Rank(SortPaths(s)[i]) <= Rank(SortPaths(s)[j])
<1> DEFINE n == Len(s)
           At(i) == CHOOSE k \in 1 .. n : Place(s, k) = i
           place == [k \in 1 .. n |-> Place(s, k)]
<1>0. n \in Nat /\ DOMAIN s = 1 .. n /\ \A i \in 1 .. n : s[i] \in ValidPaths
  BY LenProperties, ElementOfSeq
<1>1. \A k, l \in 1 .. n :
        /\ Place(s, k) \in 1 .. n
        /\ Rank(s[k]) < Rank(s[l]) => Place(s, k) < Place(s, l)
        /\ k # l => Place(s, k) # Place(s, l)
  BY PlaceFacts
<1>2. \A i \in 1 .. n : \E k \in 1 .. n : Place(s, k) = i
  <2>1. SUFFICES ASSUME NEW i \in 1 .. n, \A k \in 1 .. n : Place(s, k) # i PROVE FALSE
    OBVIOUS
  <2> DEFINE T == (1 .. n) \ {i}
  <2>2. IsFiniteSet(1 .. n) /\ Cardinality(1 .. n) = n
    <3>1. 1 \in Int /\ n \in Int BY <1>0
    <3>2. IsFiniteSet(1 .. n) /\ Cardinality(1 .. n) = IF 1 > n THEN 0 ELSE n - 1 + 1
      BY <3>1, FS_Interval
    <3> HIDE DEF n
    <3> QED BY <1>0, <3>2
  <2>3. place \in [1 .. n -> T] /\ \A k, l \in 1 .. n : place[k] = place[l] => k = l
    BY <1>1, <2>1
  <2> HIDE DEF place, n
  <2>4. T \subseteq 1 .. n /\ T # 1 .. n OBVIOUS
  <2>5. IsFiniteSet(T) /\ Cardinality(T) <= Cardinality(1 .. n) /\ Cardinality(T) # Cardinality(1 .. n)
    <3> HIDE DEF T
    <3> QED BY <2>2, <2>4, FS_Subset
  <2>6. Cardinality(T) < Cardinality(1 .. n)
    <3> HIDE DEF T
    <3>1. Cardinality(T) \in Nat BY <2>5, FS_CardinalityType
    <3> QED BY <1>0, <2>2, <2>5, <3>1
  <2> HIDE DEF T
  <2>7. PICK S : S = 1 .. n
    OBVIOUS
  <2>8. \E x, y \in S : x # y /\ place[x] = place[y]
    <3>1. IsFiniteSet(S) /\ IsFiniteSet(T) /\ Cardinality(T) < Cardinality(S) /\ place \in [S -> T]
      BY <2>2, <2>3, <2>5, <2>6, <2>7
    <3> HIDE <2>7
    <3> QED BY <3>1, FS_PigeonHole
  <2> QED BY <2>3, <2>7, <2>8
<1>3. \A i \in 1 .. n : At(i) \in 1 .. n /\ Place(s, At(i)) = i
  BY <1>2
<1>4. SortPaths(s) = [i \in 1 .. n |-> s[At(i)]]
  BY <1>0 DEF SortPaths
<1> HIDE DEF At
<1>5. SortPaths(s) \in Seq(ValidPaths) /\ Len(SortPaths(s)) = n
  BY <1>0, <1>3, <1>4
<1>6. \A k \in 1 .. n : At(Place(s, k)) = k
  BY <1>1, <1>3
<1>7. ASSUME NEW i \in 1 .. n, NEW j \in 1 .. n, i <= j
      PROVE  Rank(SortPaths(s)[i]) <= Rank(SortPaths(s)[j])
  <2>1. SortPaths(s)[i] = s[At(i)] /\ SortPaths(s)[j] = s[At(j)] /\ At(i) \in 1 .. n /\ At(j) \in 1 .. n
    BY <1>3, <1>4
  <2>2. Rank(s[At(i)]) \in 1 .. 8 /\ Rank(s[At(j)]) \in 1 .. 8
    BY <1>0, <2>1, PathOrder
  <2>3. Rank(s[At(j)]) < Rank(s[At(i)]) => j < i
    BY <1>1, <1>3, <2>1
  <2> QED BY <1>0, <1>7, <2>1, <2>2, <2>3
<1> QED BY <1>1, <1>3, <1>4, <1>5, <1>6, <1>7

-------------------------------------------------------------------------------
(* Normal form, union and intersection of masks.                              *)

\* out[k] is what normalizePaths has taken of the first k paths.
IsTaken(out, sorted, n) ==
  out = [k \in 0 .. n |->
          IF k = 0 THEN <<>>
          ELSE IF out[k - 1] # <<>> /\ HasPathPrefix(sorted[k], Last(out[k - 1])) THEN out[k - 1]
          ELSE Append(out[k - 1], sorted[k])]

LEMMA TakenExists ==
  ASSUME NEW sorted, NEW n \in Nat
  PROVE  \E out : IsTaken(out, sorted, n)
<1> DEFINE S == {m \in Nat : ~ \E out : IsTaken(out, sorted, m)}
<1>1. SUFFICES ASSUME S # {} PROVE FALSE
  OBVIOUS
<1>2. PICK m \in S : \A k \in S : m <= k
  <2>1. S \in SUBSET Nat OBVIOUS
  <2> QED BY <1>1, <2>1, LeastNumber
<1>3. m # 0
  <2>1. IsTaken([k \in 0 .. 0 |-> <<>>], sorted, 0)
    BY DEF IsTaken
  <2> QED BY <2>1
<1>4. PICK g : IsTaken(g, sorted, m - 1)
  BY <1>2, <1>3
<1> DEFINE Next_(h, k) ==
      IF h # <<>> /\ HasPathPrefix(sorted[k], Last(h)) THEN h ELSE Append(h, sorted[k])
           out == [k \in 0 .. m |-> IF k = m THEN Next_(g[m - 1], m) ELSE g[k]]
<1>5. g = [k \in 0 .. m - 1 |-> IF k = 0 THEN <<>> ELSE Next_(g[k - 1], k)]
  BY <1>4 DEF IsTaken
<1> HIDE DEF Next_
<1>6. out = [k \in 0 .. m |-> IF k = 0 THEN <<>> ELSE Next_(out[k - 1], k)]
  BY <1>3, <1>5
<1>7. IsTaken(out, sorted, m)
  BY <1>6 DEF IsTaken, Next_
<1> QED BY <1>7

\* What is taken of a part of the paths: no path is below another, they are in order,
\* and they cover that part.
Taken(out, sorted, k) ==
  /\ out \in Seq(ValidPaths)
  /\ Normal(out)
  /\ \A i \in 1 .. Len(out) : \E j \in 1 .. k : out[i] = sorted[j]
  /\ \A j \in 1 .. k : \E i \in 1 .. Len(out) : IsPrefix(out[i], sorted[j])

LEMMA NormalIs ==
  ASSUME NEW s \in Seq(ValidPaths)
  PROVE  Normal(s) <=>
           \A i, j \in 1 .. Len(s) : i < j => Rank(s[i]) < Rank(s[j]) /\ LastBelow(s[i]) < Rank(s[j])
<1>0. Len(s) \in Nat /\ DOMAIN s = 1 .. Len(s) /\ \A i \in 1 .. Len(s) : s[i] \in ValidPaths
  BY LenProperties, ElementOfSeq
<1>1. ASSUME NEW i \in 1 .. Len(s), NEW j \in 1 .. Len(s)
      PROVE  LessPath(s[i], s[j]) /\ ~IsPrefix(s[i], s[j]) <=>
               Rank(s[i]) < Rank(s[j]) /\ LastBelow(s[i]) < Rank(s[j])
  <2>1. PICK p \in ValidPaths, q \in ValidPaths : p = s[i] /\ q = s[j]
    BY <1>0
  <2>2. /\ Rank(p) \in 1 .. 8 /\ LastBelow(p) \in 1 .. 8 /\ Rank(q) \in 1 .. 8
        /\ LessPath(p, q) <=> Rank(p) < Rank(q)
        /\ IsPrefix(p, q) <=> Rank(p) <= Rank(q) /\ Rank(q) <= LastBelow(p)
    BY PathOrder
  <2>3. LessPath(p, q) /\ ~IsPrefix(p, q) <=> Rank(p) < Rank(q) /\ LastBelow(p) < Rank(q)
    BY <2>2
  <2> QED BY <2>1, <2>3
<1> QED BY <1>0, <1>1 DEF Normal

LEMMA TakesOneMore ==
  ASSUME NEW sorted \in Seq(ValidPaths), NEW m \in 1 .. Len(sorted),
         \A i, j \in 1 .. Len(sorted) : i <= j => Rank(sorted[i]) <= Rank(sorted[j]),
         NEW before, Taken(before, sorted, m - 1)
  PROVE  Taken(IF before # <<>> /\ HasPathPrefix(sorted[m], Last(before)) THEN before
               ELSE Append(before, sorted[m]), sorted, m)
<1>0. /\ Len(sorted) \in Nat /\ \A i \in 1 .. Len(sorted) : sorted[i] \in ValidPaths
      /\ before \in Seq(ValidPaths) /\ Len(before) \in Nat
      /\ \A i \in 1 .. Len(before) : before[i] \in ValidPaths
  BY LenProperties, ElementOfSeq DEF Taken
<1>1. 1 .. m = (1 .. m - 1) \cup {m} /\ m - 1 \in Nat /\ \A j \in 1 .. m - 1 : j \in 1 .. Len(sorted) /\ j <= m
  BY <1>0
<1>2. before # <<>> => Len(before) \in 1 .. Len(before) /\ Last(before) = before[Len(before)]
  BY <1>0, EmptySeq DEF Last
<1>3. CASE before # <<>> /\ HasPathPrefix(sorted[m], Last(before))
  <2>1. IsPrefix(before[Len(before)], sorted[m]) BY <1>2, <1>3 DEF HasPathPrefix
  <2>2. \A j \in 1 .. m : \E i \in 1 .. Len(before) : IsPrefix(before[i], sorted[j])
    BY <1>1, <1>2, <1>3, <2>1 DEF Taken
  <2> QED BY <1>1, <1>3, <2>2 DEF Taken
<1>4. CASE ~(before # <<>> /\ HasPathPrefix(sorted[m], Last(before)))
  <2> DEFINE out == Append(before, sorted[m])
             v   == sorted[m]
             n   == Len(before)
  <2>1. /\ out \in Seq(ValidPaths) /\ Len(out) = n + 1 /\ out[n + 1] = v
        /\ \A i \in 1 .. n : out[i] = before[i]
    BY <1>0, AppendProperties
  <2>2. 1 .. n + 1 = (1 .. n) \cup {n + 1} BY <1>0
  <2>3. v \in ValidPaths /\ Rank(v) \in 1 .. 8 BY <1>0, PathOrder
  <2> HIDE DEF out, v
  <2>4. \A i \in 1 .. n : Rank(before[i]) \in 1 .. 8 /\ LastBelow(before[i]) \in 1 .. 8
    BY <1>0, PathOrder
  <2>5. ASSUME NEW i \in 1 .. n PROVE Rank(before[i]) <= Rank(v)
    <3>1. PICK j \in 1 .. m - 1 : before[i] = sorted[j] BY DEF Taken
    <3>2. j \in 1 .. Len(sorted) /\ m \in 1 .. Len(sorted) /\ j <= m BY <1>1
    <3> QED BY <3>1, <3>2 DEF v
  <2>6. ASSUME n # 0 PROVE LastBelow(before[n]) < Rank(v)
    <3>1. before # <<>> /\ n \in 1 .. n BY <1>0, <2>6
    <3>2. ~IsPrefix(before[n], v) BY <1>2, <1>4, <3>1 DEF HasPathPrefix, v
    <3>3. PICK p \in ValidPaths : p = before[n] BY <1>0, <3>1
    <3>4. IsPrefix(p, v) <=> Rank(p) <= Rank(v) /\ Rank(v) <= LastBelow(p) BY <2>3, PathOrder
    <3> QED BY <2>3, <2>4, <2>5, <3>1, <3>2, <3>3, <3>4
  <2>7. ASSUME NEW i \in 1 .. n PROVE Rank(before[i]) < Rank(v) /\ LastBelow(before[i]) < Rank(v)
    <3>1. n # 0 /\ n \in 1 .. n BY <1>0
    <3>2. i < n => Rank(before[i]) < Rank(before[n]) /\ LastBelow(before[i]) < Rank(before[n])
      BY <1>0, <3>1, NormalIs DEF Taken
    <3>3. Rank(before[n]) <= LastBelow(before[n]) BY <1>0, <3>1, PathOrder
    <3>4. /\ Rank(before[i]) \in 1 .. 8 /\ LastBelow(before[i]) \in 1 .. 8
          /\ Rank(before[n]) \in 1 .. 8 /\ LastBelow(before[n]) \in 1 .. 8 /\ Rank(v) \in 1 .. 8
      BY <2>3, <2>4, <3>1
    <3>5. Rank(before[n]) < Rank(v) /\ LastBelow(before[n]) < Rank(v)
      BY <2>6, <3>1, <3>3, <3>4
    <3>6. i = n \/ i < n BY <1>0
    <3>7. CASE i = n
      BY <3>5, <3>7
    <3>8. CASE i < n
      <4>1. Rank(before[i]) < Rank(before[n]) /\ LastBelow(before[i]) < Rank(before[n]) BY <3>2, <3>8
      <4>2. \A a, b, c \in 1 .. 8 : a < b /\ b < c => a < c OBVIOUS
      <4> QED BY <3>4, <3>5, <4>1, <4>2, Zenon
    <3> QED BY <3>6, <3>7, <3>8
  <2>8. ASSUME NEW i \in 1 .. n + 1, NEW j \in 1 .. n + 1, i < j
        PROVE  Rank(out[i]) < Rank(out[j]) /\ LastBelow(out[i]) < Rank(out[j])
    <3>1. i \in 1 .. n BY <1>0, <2>8
    <3>2. CASE j \in 1 .. n
      <4>1. Rank(before[i]) < Rank(before[j]) /\ LastBelow(before[i]) < Rank(before[j])
        BY <1>0, <2>8, <3>1, <3>2, NormalIs DEF Taken
      <4> QED BY <2>1, <3>1, <3>2, <4>1
    <3>3. CASE j = n + 1
      BY <2>1, <2>7, <3>1, <3>3
    <3> QED BY <2>2, <3>2, <3>3
  <2>9. Normal(out)
    BY <2>1, <2>8, NormalIs
  <2>10. \A i \in 1 .. n + 1 : \E j \in 1 .. m : out[i] = sorted[j]
    <3>1. \A i \in 1 .. n : \E j \in 1 .. m - 1 : before[i] = sorted[j] BY DEF Taken
    <3> QED BY <1>1, <2>1, <2>2, <3>1 DEF v
  <2>11. \A j \in 1 .. m : \E i \in 1 .. n + 1 : IsPrefix(out[i], sorted[j])
    <3>1. IsPrefix(v, v) BY <2>3, PathOrder
    <3>2. \A j \in 1 .. m - 1 : \E i \in 1 .. n : IsPrefix(before[i], sorted[j]) BY DEF Taken
    <3>3. n + 1 \in 1 .. n + 1 BY <1>0
    <3> QED BY <1>1, <2>1, <2>2, <3>1, <3>2, <3>3 DEF v
  <2>12. Taken(out, sorted, m)
    BY <2>1, <2>9, <2>10, <2>11 DEF Taken
  <2> QED BY <1>4, <2>12 DEF out
<1> QED BY <1>3, <1>4

\* normalizePaths: no path below another, in order, and covering the same.
LEMMA NormalizeFacts ==
  ASSUME NEW s \in Seq(ValidPaths)
  PROVE  /\ NormalizePaths(s) \in Seq(ValidPaths)
         /\ Normal(NormalizePaths(s))
         /\ \A i \in 1 .. Len(NormalizePaths(s)) : \E k \in 1 .. Len(s) : NormalizePaths(s)[i] = s[k]
         /\ \A k \in 1 .. Len(s) : \E i \in 1 .. Len(NormalizePaths(s)) : IsPrefix(NormalizePaths(s)[i], s[k])
<1> DEFINE sorted == SortPaths(s)
           n == Len(s)
           out == CHOOSE f : IsTaken(f, sorted, n)
<1>0. /\ sorted \in Seq(ValidPaths) /\ Len(sorted) = n /\ n \in Nat
      /\ \A i \in 1 .. n : \E k \in 1 .. n : sorted[i] = s[k]
      /\ \A k \in 1 .. n : \E i \in 1 .. n : sorted[i] = s[k]
      /\ \A i, j \in 1 .. n : i <= j => Rank(sorted[i]) <= Rank(sorted[j])
  BY SortFacts, LenProperties
<1>1. IsTaken(out, sorted, n)
  BY <1>0, TakenExists
<1>2. NormalizePaths(s) = out[n]
  BY <1>0 DEF NormalizePaths, IsTaken
<1> HIDE DEF out, sorted, n
<1> DEFINE S == {k \in 0 .. n : ~ Taken(out[k], sorted, k)}
<1>3. S = {}
  <2>1. SUFFICES ASSUME S # {} PROVE FALSE
    OBVIOUS
  <2>2. PICK m \in S : \A i \in S : m <= i
    <3>1. S \in SUBSET Nat BY <1>0
    <3> QED BY <2>1, <3>1, LeastNumber
  <2>3. m # 0
    <3>1. out[0] = <<>> BY <1>0, <1>1 DEF IsTaken
    <3>2. Len(<<>>) = 0 /\ 1 .. 0 = {} /\ <<>> \in Seq(ValidPaths) OBVIOUS
    <3>3. Normal(<<>>) BY <3>2, NormalIs
    <3>4. Taken(out[0], sorted, 0) BY <3>1, <3>2, <3>3 DEF Taken
    <3> QED BY <2>2, <3>4
  <2>4. m \in 1 .. n /\ m - 1 \in 0 .. n /\ Taken(out[m - 1], sorted, m - 1)
    BY <1>0, <2>2, <2>3
  <2>5. out[m] = IF out[m - 1] # <<>> /\ HasPathPrefix(sorted[m], Last(out[m - 1])) THEN out[m - 1]
                 ELSE Append(out[m - 1], sorted[m])
    BY <1>0, <1>1, <2>3, <2>4 DEF IsTaken
  <2> HIDE DEF S
  <2>6. Taken(out[m], sorted, m)
    <3>1. PICK before : before = out[m - 1] OBVIOUS
    <3>2. Taken(before, sorted, m - 1) BY <2>4, <3>1
    <3>3. m \in 1 .. Len(sorted) BY <1>0, <2>4
    <3>4. \A i, j \in 1 .. Len(sorted) : i <= j => Rank(sorted[i]) <= Rank(sorted[j]) BY <1>0
    <3>5. Taken(IF before # <<>> /\ HasPathPrefix(sorted[m], Last(before)) THEN before
                ELSE Append(before, sorted[m]), sorted, m)
      BY <1>0, <3>2, <3>3, <3>4, TakesOneMore
    <3> QED BY <2>5, <3>1, <3>5
  <2> QED BY <2>2, <2>6 DEF S
<1>4. Taken(out[n], sorted, n)
  <2>1. n \in 0 .. n BY <1>0
  <2> QED BY <1>3, <2>1, Zenon
<1>5. /\ out[n] \in Seq(ValidPaths) /\ Normal(out[n])
      /\ \A i \in 1 .. Len(out[n]) : \E k \in 1 .. n : out[n][i] = s[k]
      /\ \A k \in 1 .. n : \E i \in 1 .. Len(out[n]) : IsPrefix(out[n][i], s[k])
  <2>1. \A i \in 1 .. Len(out[n]) : \E k \in 1 .. n : out[n][i] = s[k]
    <3> TAKE i \in 1 .. Len(out[n])
    <3>1. PICK j \in 1 .. n : out[n][i] = sorted[j] BY <1>4 DEF Taken
    <3>2. \E k \in 1 .. n : sorted[j] = s[k] BY <1>0
    <3> QED BY <3>1, <3>2
  <2>2. \A k \in 1 .. n : \E i \in 1 .. Len(out[n]) : IsPrefix(out[n][i], s[k])
    <3> TAKE k \in 1 .. n
    <3>1. PICK j \in 1 .. n : sorted[j] = s[k] BY <1>0
    <3> QED BY <1>4, <3>1 DEF Taken
  <2> QED BY <1>4, <2>1, <2>2 DEF Taken
<1> QED BY <1>2, <1>5 DEF n

LEMMA CoversIs ==
  ASSUME NEW s \in Seq(ValidPaths), NEW q
  PROVE  Covers(s, q) <=> \E k \in 1 .. Len(s) : IsPrefix(s[k], q)
<1>1. DOMAIN s = 1 .. Len(s)
  BY LenProperties
<1> QED BY <1>1 DEF Covers, ToSet

LEMMA PrefixTransitive ==
  ASSUME NEW p \in ValidPaths, NEW q \in ValidPaths, NEW r \in ValidPaths,
         IsPrefix(p, q), IsPrefix(q, r)
  PROVE  IsPrefix(p, r)
<1>1. /\ Rank(p) \in 1 .. 8 /\ Rank(q) \in 1 .. 8 /\ Rank(r) \in 1 .. 8
      /\ LastBelow(p) \in 1 .. 8 /\ LastBelow(q) \in 1 .. 8
  BY PathOrder
<1>2. Rank(p) <= Rank(q) /\ LastBelow(q) <= LastBelow(p)
  BY PathOrder
<1>3. Rank(q) <= Rank(r) /\ Rank(r) <= LastBelow(q)
  BY PathOrder
<1>4. Rank(p) <= Rank(r) /\ Rank(r) <= LastBelow(p)
  BY <1>1, <1>2, <1>3
<1> QED BY <1>4, PathOrder

LEMMA NormalizeCovers ==
  ASSUME NEW s \in Seq(ValidPaths), NEW q \in ValidPaths
  PROVE  Covers(NormalizePaths(s), q) <=> Covers(s, q)
<1> DEFINE t == NormalizePaths(s)
<1>1. /\ t \in Seq(ValidPaths)
      /\ \A i \in 1 .. Len(t) : \E k \in 1 .. Len(s) : t[i] = s[k]
      /\ \A k \in 1 .. Len(s) : \E i \in 1 .. Len(t) : IsPrefix(t[i], s[k])
  BY NormalizeFacts
<1> HIDE DEF t
<1>2. ASSUME NEW i \in 1 .. Len(t), IsPrefix(t[i], q)
      PROVE  \E k \in 1 .. Len(s) : IsPrefix(s[k], q)
  BY <1>1, <1>2
<1>3. ASSUME NEW k \in 1 .. Len(s), IsPrefix(s[k], q)
      PROVE  \E i \in 1 .. Len(t) : IsPrefix(t[i], q)
  <2>1. PICK i \in 1 .. Len(t) : IsPrefix(t[i], s[k]) BY <1>1
  <2>2. t[i] \in ValidPaths /\ s[k] \in ValidPaths BY <1>1, ElementOfSeq
  <2> QED BY <1>3, <2>1, <2>2, PrefixTransitive
<1>4. /\ Covers(t, q) <=> \E i \in 1 .. Len(t) : IsPrefix(t[i], q)
      /\ Covers(s, q) <=> \E k \in 1 .. Len(s) : IsPrefix(s[k], q)
  BY <1>1, CoversIs
<1> QED BY <1>2, <1>3, <1>4 DEF t

-------------------------------------------------------------------------------
(* The walk of intersectPaths through both masks.                            *)

Start == [i1 |-> 1, i2 |-> 1, result |-> <<>>]

\* after[k] is the state of the loop after k rounds.
IsWalk(after, s, t, n) ==
  after = [k \in 0 .. n |-> IF k = 0 THEN Start ELSE IntersectRound(after[k - 1], s, t)]

LEMMA WalkExists ==
  ASSUME NEW s, NEW t, NEW n \in Nat
  PROVE  \E after : IsWalk(after, s, t, n)
<1> DEFINE S == {m \in Nat : ~ \E after : IsWalk(after, s, t, m)}
<1>1. SUFFICES ASSUME S # {} PROVE FALSE
  OBVIOUS
<1>2. PICK m \in S : \A k \in S : m <= k
  <2>1. S \in SUBSET Nat OBVIOUS
  <2> QED BY <1>1, <2>1, LeastNumber
<1>3. m # 0
  <2>1. IsWalk([k \in 0 .. 0 |-> Start], s, t, 0)
    BY DEF IsWalk
  <2> QED BY <2>1
<1>4. PICK g : IsWalk(g, s, t, m - 1)
  BY <1>2, <1>3
<1> DEFINE after == [k \in 0 .. m |-> IF k = m THEN IntersectRound(g[m - 1], s, t) ELSE g[k]]
<1>5. g = [k \in 0 .. m - 1 |-> IF k = 0 THEN Start ELSE IntersectRound(g[k - 1], s, t)]
  BY <1>4 DEF IsWalk
<1>6. after = [k \in 0 .. m |-> IF k = 0 THEN Start ELSE IntersectRound(after[k - 1], s, t)]
  BY <1>3, <1>5
<1>7. IsWalk(after, s, t, m)
  BY <1>6 DEF IsWalk
<1> QED BY <1>7

\* The path q is covered by the i-th path of s or a later one.
CoveredFrom(s, i, q) == \E a \in i .. Len(s) : IsPrefix(s[a], q)

\* What both masks cover is in the result, or covered by what is left of both.
Walked(w, s, t) ==
  /\ w \in [i1 : 1 .. Len(s) + 1, i2 : 1 .. Len(t) + 1, result : Seq(ValidPaths)]
  /\ \A q \in ValidPaths :
       Covers(w.result, q) \/ (CoveredFrom(s, w.i1, q) /\ CoveredFrom(t, w.i2, q)) <=>
         CoveredFrom(s, 1, q) /\ CoveredFrom(t, 1, q)

LEMMA CoveredFromNext ==
  ASSUME NEW s, Len(s) \in Nat, NEW i \in 1 .. Len(s), NEW q
  PROVE  CoveredFrom(s, i, q) <=> IsPrefix(s[i], q) \/ CoveredFrom(s, i + 1, q)
<1>1. i .. Len(s) = {i} \cup ((i + 1) .. Len(s))
  OBVIOUS
<1> QED BY <1>1 DEF CoveredFrom

LEMMA CoversAppend ==
  ASSUME NEW s \in Seq(ValidPaths), NEW p \in ValidPaths, NEW q
  PROVE  Covers(Append(s, p), q) <=> Covers(s, q) \/ IsPrefix(p, q)
<1>1. Append(s, p) \in Seq(ValidPaths) /\ ToSet(Append(s, p)) = ToSet(s) \cup {p}
  BY SetOfAppend
<1> QED BY <1>1 DEF Covers

\* A path that is before another one, and not above it, is not above those after it.
LEMMA PastIt ==
  ASSUME NEW s \in Seq(ValidPaths), Normal(s), NEW i \in 1 .. Len(s), NEW p \in ValidPaths,
         NEW q \in ValidPaths, LessPath(p, s[i]), ~IsPrefix(p, s[i]), IsPrefix(p, q)
  PROVE  ~CoveredFrom(s, i, q)
<1>0. Len(s) \in Nat /\ \A a \in 1 .. Len(s) : s[a] \in ValidPaths
  BY LenProperties, ElementOfSeq
<1>1. SUFFICES ASSUME NEW a \in i .. Len(s), IsPrefix(s[a], q) PROVE FALSE
  BY DEF CoveredFrom
<1>2. a \in 1 .. Len(s) /\ (a = i \/ i < a)
  BY <1>0
<1>3. PICK u \in ValidPaths, v \in ValidPaths : u = s[i] /\ v = s[a]
  BY <1>0, <1>2
<1>4. /\ Rank(p) \in 1 .. 8 /\ Rank(q) \in 1 .. 8 /\ Rank(u) \in 1 .. 8 /\ Rank(v) \in 1 .. 8
      /\ LastBelow(p) \in 1 .. 8
  BY PathOrder
<1>5. Rank(p) < Rank(u) /\ ~(Rank(p) <= Rank(u) /\ Rank(u) <= LastBelow(p))
  <2>1. LessPath(p, u) /\ ~IsPrefix(p, u) BY <1>3
  <2> QED BY <2>1, PathOrder
<1>6. Rank(q) <= LastBelow(p)
  BY PathOrder
<1>7. Rank(v) <= Rank(q)
  <2>1. IsPrefix(v, q) BY <1>1, <1>3
  <2> QED BY <2>1, PathOrder
<1>8. Rank(u) <= Rank(v)
  <2>1. i < a => Rank(s[i]) < Rank(s[a]) BY <1>2, NormalIs
  <2> QED BY <1>2, <1>3, <1>4, <2>1
<1> QED BY <1>4, <1>5, <1>6, <1>7, <1>8

LEMMA RoundWalks ==
  ASSUME NEW s \in Seq(ValidPaths), Normal(s), NEW t \in Seq(ValidPaths), Normal(t),
         NEW w, Walked(w, s, t)
  PROVE  /\ Walked(IntersectRound(w, s, t), s, t)
         /\ w.i1 <= Len(s) /\ w.i2 <= Len(t) =>
              IntersectRound(w, s, t).i1 + IntersectRound(w, s, t).i2 = w.i1 + w.i2 + 1
         /\ w.i1 > Len(s) \/ w.i2 > Len(t) => IntersectRound(w, s, t) = w
<1> DEFINE r  == IntersectRound(w, s, t)
           s1 == s[w.i1]
           s2 == t[w.i2]
           Both(i, j, q) == CoveredFrom(s, i, q) /\ CoveredFrom(t, j, q)
<1>0. /\ Len(s) \in Nat /\ \A a \in 1 .. Len(s) : s[a] \in ValidPaths
      /\ Len(t) \in Nat /\ \A a \in 1 .. Len(t) : t[a] \in ValidPaths
  BY LenProperties, ElementOfSeq
<1>1. /\ w \in [i1 : 1 .. Len(s) + 1, i2 : 1 .. Len(t) + 1, result : Seq(ValidPaths)]
      /\ \A q \in ValidPaths : Covers(w.result, q) \/ Both(w.i1, w.i2, q) <=> Both(1, 1, q)
  BY DEF Walked
<1>2. CASE w.i1 > Len(s) \/ w.i2 > Len(t)
  <2>1. r = w BY <1>2 DEF IntersectRound
  <2>2. ~(w.i1 <= Len(s) /\ w.i2 <= Len(t)) BY <1>0, <1>1, <1>2
  <2> QED BY <2>1, <2>2
<1>3. CASE w.i1 <= Len(s) /\ w.i2 <= Len(t)
  <2>0. ~(w.i1 > Len(s) \/ w.i2 > Len(t)) /\ w.i1 \in 1 .. Len(s) /\ w.i2 \in 1 .. Len(t)
    BY <1>0, <1>1, <1>3
  <2>1. s1 \in ValidPaths /\ s2 \in ValidPaths BY <1>0, <2>0
  <2>2. /\ \A q : CoveredFrom(s, w.i1, q) <=> IsPrefix(s1, q) \/ CoveredFrom(s, w.i1 + 1, q)
        /\ \A q : CoveredFrom(t, w.i2, q) <=> IsPrefix(s2, q) \/ CoveredFrom(t, w.i2 + 1, q)
    BY <1>0, <2>0, CoveredFromNext
  <2>3. r = IF IsPrefix(s2, s1) THEN [w EXCEPT !.i1 = @ + 1, !.result = Append(@, s1)]
            ELSE IF IsPrefix(s1, s2) THEN [w EXCEPT !.i2 = @ + 1, !.result = Append(@, s2)]
            ELSE IF LessPath(s1, s2) THEN [w EXCEPT !.i1 = @ + 1]
            ELSE [w EXCEPT !.i2 = @ + 1]
    BY <2>0 DEF IntersectRound, HasPathPrefix
  <2>4. /\ Append(w.result, s1) \in Seq(ValidPaths) /\ Append(w.result, s2) \in Seq(ValidPaths)
        /\ \A q : Covers(Append(w.result, s1), q) <=> Covers(w.result, q) \/ IsPrefix(s1, q)
        /\ \A q : Covers(Append(w.result, s2), q) <=> Covers(w.result, q) \/ IsPrefix(s2, q)
    <3>1. w.result \in Seq(ValidPaths) BY <1>1
    <3> HIDE DEF s1, s2
    <3> QED BY <2>1, <3>1, CoversAppend, AppendProperties
  <2>10. /\ w.i1 \in 1 .. Len(s) + 1 /\ w.i1 + 1 \in 1 .. Len(s) + 1
         /\ w.i2 \in 1 .. Len(t) + 1 /\ w.i2 + 1 \in 1 .. Len(t) + 1 /\ w.result \in Seq(ValidPaths)
         /\ w = [i1 |-> w.i1, i2 |-> w.i2, result |-> w.result]
    BY <1>0, <1>1, <2>0
  <2>5. r.i1 + r.i2 = w.i1 + w.i2 + 1
    BY <1>0, <1>1, <2>3
  <2> HIDE DEF r, s1, s2, Both
  <2>6. CASE IsPrefix(s2, s1)
    <3>1. r = [w EXCEPT !.i1 = @ + 1, !.result = Append(@, s1)] BY <2>3, <2>6
    <3>2. r.i1 = w.i1 + 1 /\ r.i2 = w.i2 /\ r.result = Append(w.result, s1)
          /\ r \in [i1 : 1 .. Len(s) + 1, i2 : 1 .. Len(t) + 1, result : Seq(ValidPaths)]
      <4>1. r = [i1 |-> w.i1 + 1, i2 |-> w.i2, result |-> Append(w.result, s1)] BY <2>10, <3>1
      <4> QED BY <2>4, <2>10, <4>1
    <3>3. ASSUME NEW q \in ValidPaths
          PROVE  Covers(r.result, q) \/ Both(r.i1, r.i2, q) <=> Both(1, 1, q)
      <4>1. IsPrefix(s1, q) => IsPrefix(s2, q) BY <2>1, <2>6, PrefixTransitive
      <4>2. Covers(r.result, q) <=> Covers(w.result, q) \/ IsPrefix(s1, q) BY <2>4, <3>2
      <4>3. Both(w.i1, w.i2, q) <=> IsPrefix(s1, q) \/ Both(w.i1 + 1, w.i2, q)
        BY <2>2, <4>1 DEF Both
      <4> QED BY <1>1, <3>2, <4>2, <4>3
    <3> QED BY <2>5, <1>3, <2>0, <3>2, <3>3 DEF Walked, Both, r
  <2>7. CASE ~IsPrefix(s2, s1) /\ IsPrefix(s1, s2)
    <3>1. r = [w EXCEPT !.i2 = @ + 1, !.result = Append(@, s2)] BY <2>3, <2>7
    <3>2. r.i1 = w.i1 /\ r.i2 = w.i2 + 1 /\ r.result = Append(w.result, s2)
          /\ r \in [i1 : 1 .. Len(s) + 1, i2 : 1 .. Len(t) + 1, result : Seq(ValidPaths)]
      <4>1. r = [i1 |-> w.i1, i2 |-> w.i2 + 1, result |-> Append(w.result, s2)] BY <2>10, <3>1
      <4> QED BY <2>4, <2>10, <4>1
    <3>3. ASSUME NEW q \in ValidPaths
          PROVE  Covers(r.result, q) \/ Both(r.i1, r.i2, q) <=> Both(1, 1, q)
      <4>1. IsPrefix(s2, q) => IsPrefix(s1, q) BY <2>1, <2>7, PrefixTransitive
      <4>2. Covers(r.result, q) <=> Covers(w.result, q) \/ IsPrefix(s2, q) BY <2>4, <3>2
      <4>3. Both(w.i1, w.i2, q) <=> IsPrefix(s2, q) \/ Both(w.i1, w.i2 + 1, q)
        BY <2>2, <4>1 DEF Both
      <4> QED BY <1>1, <3>2, <4>2, <4>3
    <3> QED BY <2>5, <1>3, <2>0, <3>2, <3>3 DEF Walked, Both, r
  <2>8. CASE ~IsPrefix(s2, s1) /\ ~IsPrefix(s1, s2) /\ LessPath(s1, s2)
    <3>1. r = [w EXCEPT !.i1 = @ + 1] BY <2>3, <2>8
    <3>2. r.i1 = w.i1 + 1 /\ r.i2 = w.i2 /\ r.result = w.result
          /\ r \in [i1 : 1 .. Len(s) + 1, i2 : 1 .. Len(t) + 1, result : Seq(ValidPaths)]
      <4>1. r = [i1 |-> w.i1 + 1, i2 |-> w.i2, result |-> w.result] BY <2>10, <3>1
      <4> QED BY <2>4, <2>10, <4>1
    <3>3. ASSUME NEW q \in ValidPaths
          PROVE  Covers(r.result, q) \/ Both(r.i1, r.i2, q) <=> Both(1, 1, q)
      <4>1. IsPrefix(s1, q) => ~CoveredFrom(t, w.i2, q) BY <2>0, <2>1, <2>8, PastIt DEF s2
      <4>2. Both(w.i1, w.i2, q) <=> Both(w.i1 + 1, w.i2, q) BY <2>2, <4>1 DEF Both
      <4> QED BY <1>1, <3>2, <4>2
    <3> QED BY <2>5, <1>3, <2>0, <3>2, <3>3 DEF Walked, Both, r
  <2>9. CASE ~IsPrefix(s2, s1) /\ ~IsPrefix(s1, s2) /\ ~LessPath(s1, s2)
    <3>1. r = [w EXCEPT !.i2 = @ + 1] BY <2>3, <2>9
    <3>2. r.i1 = w.i1 /\ r.i2 = w.i2 + 1 /\ r.result = w.result
          /\ r \in [i1 : 1 .. Len(s) + 1, i2 : 1 .. Len(t) + 1, result : Seq(ValidPaths)]
      <4>1. r = [i1 |-> w.i1, i2 |-> w.i2 + 1, result |-> w.result] BY <2>10, <3>1
      <4> QED BY <2>4, <2>10, <4>1
    <3>3. LessPath(s2, s1)
      <4>1. /\ Rank(s1) \in 1 .. 8 /\ Rank(s2) \in 1 .. 8
            /\ LessPath(s1, s2) <=> Rank(s1) < Rank(s2)
            /\ LessPath(s2, s1) <=> Rank(s2) < Rank(s1)
            /\ Rank(s1) <= LastBelow(s1)
            /\ IsPrefix(s1, s2) <=> Rank(s1) <= Rank(s2) /\ Rank(s2) <= LastBelow(s1)
        BY <2>1, PathOrder
      <4> QED BY <2>9, <4>1
    <3>4. ASSUME NEW q \in ValidPaths
          PROVE  Covers(r.result, q) \/ Both(r.i1, r.i2, q) <=> Both(1, 1, q)
      <4>1. IsPrefix(s2, q) => ~CoveredFrom(s, w.i1, q) BY <2>0, <2>1, <2>9, <3>3, PastIt DEF s1
      <4>2. Both(w.i1, w.i2, q) <=> Both(w.i1, w.i2 + 1, q) BY <2>2, <4>1 DEF Both
      <4> QED BY <1>1, <3>2, <4>2
    <3> QED BY <2>5, <1>3, <2>0, <3>2, <3>4 DEF Walked, Both, r
  <2> QED BY <2>6, <2>7, <2>8, <2>9
<1> QED BY <1>0, <1>1, <1>2, <1>3

\* intersectPaths has what both masks cover.
LEMMA IntersectCovers ==
  ASSUME NEW m1 \in Seq(ValidPaths), NEW m2 \in Seq(ValidPaths)
  PROVE  /\ IntersectPaths(m1, m2) \in Seq(ValidPaths)
         /\ \A q \in ValidPaths :
              Covers(IntersectPaths(m1, m2), q) <=> Covers(m1, q) /\ Covers(m2, q)
<1> DEFINE s == NormalizePaths(m2)
           t == NormalizePaths(m1)
           n == Len(s) + Len(t)
           after == CHOOSE f : IsWalk(f, s, t, n)
<1>0. /\ s \in Seq(ValidPaths) /\ Normal(s) /\ t \in Seq(ValidPaths) /\ Normal(t)
      /\ \A q \in ValidPaths : (Covers(s, q) <=> Covers(m2, q)) /\ (Covers(t, q) <=> Covers(m1, q))
  BY NormalizeFacts, NormalizeCovers
<1>1. IntersectPaths(m1, m2) = after[n].result
  BY DEF IntersectPaths, IsWalk, Start
<1> HIDE DEF s, t
<1>2. Len(s) \in Nat /\ Len(t) \in Nat /\ n \in Nat
  BY <1>0, LenProperties
<1>3. IsWalk(after, s, t, n)
  <2> HIDE DEF n
  <2> QED BY <1>2, WalkExists
<1> HIDE DEF after
<1> DEFINE Good(k) ==
      /\ Walked(after[k], s, t)
      /\ after[k].i1 > Len(s) \/ after[k].i2 > Len(t) \/ after[k].i1 + after[k].i2 = k + 2
           S == {k \in 0 .. n : ~ Good(k)}
<1>4. S = {}
  <2>1. SUFFICES ASSUME S # {} PROVE FALSE
    OBVIOUS
  <2>2. PICK m \in S : \A k \in S : m <= k
    <3>1. S \in SUBSET Nat BY <1>2
    <3> HIDE DEF S
    <3> QED BY <2>1, <3>1, LeastNumber
  <2>3. m # 0
    <3>1. after[0] = Start BY <1>2, <1>3 DEF IsWalk
    <3>2. <<>> \in Seq(ValidPaths) /\ Len(<<>>) = 0 /\ 1 .. 0 = {} OBVIOUS
    <3>3. \A q \in ValidPaths : ~ Covers(<<>>, q) BY <3>2, CoversIs
    <3>4. Start \in [i1 : 1 .. Len(s) + 1, i2 : 1 .. Len(t) + 1, result : Seq(ValidPaths)]
      BY <1>2, <3>2 DEF Start
    <3>5. Start.i1 = 1 /\ Start.i2 = 1 /\ Start.result = <<>> BY DEF Start
    <3>6. Walked(Start, s, t) BY <3>3, <3>4, <3>5 DEF Walked
    <3>7. Good(0) BY <3>1, <3>5, <3>6
    <3> QED BY <2>2, <3>7
  <2>4. m \in 1 .. n /\ m - 1 \in 0 .. n /\ Good(m - 1)
    BY <1>2, <2>2, <2>3
  <2>5. PICK w : w = after[m - 1]
    OBVIOUS
  <2>6. after[m] = IntersectRound(w, s, t)
    BY <1>2, <1>3, <2>3, <2>4, <2>5 DEF IsWalk
  <2>7. /\ Walked(w, s, t)
        /\ w.i1 > Len(s) \/ w.i2 > Len(t) \/ w.i1 + w.i2 = (m - 1) + 2
    BY <2>4, <2>5
  <2>8. /\ Walked(after[m], s, t)
        /\ w.i1 <= Len(s) /\ w.i2 <= Len(t) => after[m].i1 + after[m].i2 = w.i1 + w.i2 + 1
        /\ w.i1 > Len(s) \/ w.i2 > Len(t) => after[m] = w
    BY <1>0, <2>6, <2>7, RoundWalks
  <2>9. w.i1 \in 1 .. Len(s) + 1 /\ w.i2 \in 1 .. Len(t) + 1
    BY <2>7 DEF Walked
  <2>10. after[m].i1 > Len(s) \/ after[m].i2 > Len(t) \/ after[m].i1 + after[m].i2 = m + 2
    <3>1. CASE w.i1 > Len(s) \/ w.i2 > Len(t)
      <4>1. after[m] = w BY <2>8, <3>1
      <4> QED BY <3>1, <4>1
    <3>2. CASE w.i1 <= Len(s) /\ w.i2 <= Len(t)
      <4>1. after[m].i1 + after[m].i2 = w.i1 + w.i2 + 1 BY <2>8, <3>2
      <4>2. w.i1 + w.i2 = (m - 1) + 2 BY <1>2, <2>7, <2>9, <3>2
      <4> QED BY <1>2, <2>4, <4>1, <4>2
    <3> QED BY <1>2, <2>9, <3>1, <3>2
  <2>11. Good(m)
    BY <2>8, <2>10
  <2> QED BY <2>2, <2>11
<1>5. Good(n)
  <2>1. n \in 0 .. n BY <1>2
  <2> HIDE DEF Good, n
  <2> QED BY <1>4, <2>1, Zenon
<1>6. PICK w : w = after[n]
  OBVIOUS
<1>7. /\ w.result \in Seq(ValidPaths)
      /\ w.i1 \in 1 .. Len(s) + 1 /\ w.i2 \in 1 .. Len(t) + 1
      /\ w.i1 > Len(s) \/ w.i2 > Len(t)
  <2>1. /\ w.result \in Seq(ValidPaths)
        /\ w.i1 \in 1 .. Len(s) + 1 /\ w.i2 \in 1 .. Len(t) + 1
        /\ w.i1 > Len(s) \/ w.i2 > Len(t) \/ w.i1 + w.i2 = Len(s) + Len(t) + 2
    BY <1>5, <1>6 DEF Walked
  <2> QED BY <1>2, <2>1
<1>8. ASSUME NEW q \in ValidPaths
      PROVE  Covers(w.result, q) <=> Covers(m1, q) /\ Covers(m2, q)
  <2>1. ~(CoveredFrom(s, w.i1, q) /\ CoveredFrom(t, w.i2, q))
    BY <1>2, <1>7 DEF CoveredFrom
  <2>2. Covers(w.result, q) <=> CoveredFrom(s, 1, q) /\ CoveredFrom(t, 1, q)
    BY <1>5, <1>6, <2>1 DEF Walked
  <2>3. (Covers(s, q) <=> CoveredFrom(s, 1, q)) /\ (Covers(t, q) <=> CoveredFrom(t, 1, q))
    BY <1>0, CoversIs DEF CoveredFrom
  <2> QED BY <1>0, <2>2, <2>3
<1> QED BY <1>1, <1>6, <1>7, <1>8

LEMMA CoversConcat ==
  ASSUME NEW m1 \in Seq(ValidPaths), NEW m2 \in Seq(ValidPaths), NEW q
  PROVE  /\ m1 \o m2 \in Seq(ValidPaths)
         /\ Covers(m1 \o m2, q) <=> Covers(m1, q) \/ Covers(m2, q)
<1>0. /\ Len(m1) \in Nat /\ Len(m2) \in Nat
      /\ m1 \o m2 \in Seq(ValidPaths) /\ Len(m1 \o m2) = Len(m1) + Len(m2)
      /\ \A i \in 1 .. Len(m1) + Len(m2) :
           (m1 \o m2)[i] = IF i <= Len(m1) THEN m1[i] ELSE m2[i - Len(m1)]
  BY ConcatProperties, LenProperties
<1>1. /\ Covers(m1 \o m2, q) <=> \E k \in 1 .. Len(m1) + Len(m2) : IsPrefix((m1 \o m2)[k], q)
      /\ Covers(m1, q) <=> \E k \in 1 .. Len(m1) : IsPrefix(m1[k], q)
      /\ Covers(m2, q) <=> \E k \in 1 .. Len(m2) : IsPrefix(m2[k], q)
  BY <1>0, CoversIs
<1>2. ASSUME NEW k \in 1 .. Len(m1) + Len(m2), IsPrefix((m1 \o m2)[k], q)
      PROVE  Covers(m1, q) \/ Covers(m2, q)
  <2>1. CASE k <= Len(m1)
    BY <1>0, <1>1, <1>2, <2>1
  <2>2. CASE ~(k <= Len(m1))
    <3>1. k - Len(m1) \in 1 .. Len(m2) BY <1>0, <2>2
    <3> QED BY <1>0, <1>1, <1>2, <2>2, <3>1
  <2> QED BY <2>1, <2>2
<1>3. ASSUME NEW k \in 1 .. Len(m1), IsPrefix(m1[k], q) PROVE Covers(m1 \o m2, q)
  <2>1. k \in 1 .. Len(m1) + Len(m2) /\ k <= Len(m1) BY <1>0
  <2> QED BY <1>0, <1>1, <1>3, <2>1
<1>4. ASSUME NEW k \in 1 .. Len(m2), IsPrefix(m2[k], q) PROVE Covers(m1 \o m2, q)
  <2>1. k + Len(m1) \in 1 .. Len(m1) + Len(m2) /\ ~(k + Len(m1) <= Len(m1)) /\ k + Len(m1) - Len(m1) = k
    BY <1>0
  <2> QED BY <1>0, <1>1, <1>4, <2>1
<1> QED BY <1>0, <1>1, <1>2, <1>3, <1>4

\* mergeFieldMasks and intersectFieldMasks (src/wkt/fieldmask.ts) are the union and the
\* intersection of what two masks cover, in normal form, for masks of any length.
THEOREM MasksAreSets ==
  ASSUME NEW m1 \in Seq(ValidPaths), NEW m2 \in Seq(ValidPaths)
  PROVE  AlgebraHolds(m1, m2)
<1> DEFINE union == MergeFieldMasks(m1, m2)
           both  == IntersectFieldMasks(m1, m2)
<1>1. /\ union \in Seq(ValidPaths) /\ Normal(union)
      /\ \A q \in ValidPaths : Covers(union, q) <=> Covers(m1, q) \/ Covers(m2, q)
  <2>1. m1 \o m2 \in Seq(ValidPaths) /\ \A q : Covers(m1 \o m2, q) <=> Covers(m1, q) \/ Covers(m2, q)
    BY CoversConcat
  <2>2. union = NormalizePaths(m1 \o m2) BY DEF MergeFieldMasks
  <2> HIDE DEF union
  <2> QED BY <2>1, <2>2, NormalizeFacts, NormalizeCovers
<1>2. /\ Normal(both)
      /\ \A q \in ValidPaths : Covers(both, q) <=> Covers(m1, q) /\ Covers(m2, q)
  <2>1. /\ IntersectPaths(m1, m2) \in Seq(ValidPaths)
        /\ \A q \in ValidPaths : Covers(IntersectPaths(m1, m2), q) <=> Covers(m1, q) /\ Covers(m2, q)
    BY IntersectCovers
  <2>2. both = NormalizePaths(IntersectPaths(m1, m2)) BY DEF IntersectFieldMasks
  <2> HIDE DEF both
  <2> QED BY <2>1, <2>2, NormalizeFacts, NormalizeCovers
<1> HIDE DEF union, both
<1>3. Leaves \subseteq ValidPaths
  BY DEF Leaves, ValidPaths
<1>4. /\ Covered(union) = Covered(m1) \cup Covered(m2)
      /\ Covered(both) = Covered(m1) \cap Covered(m2)
  BY <1>1, <1>2, <1>3 DEF Covered
<1>5. ASSUME NEW m \in Seq(ValidPaths), NEW p \in ToSet(m)
      PROVE  p \in ValidPaths /\ Covers(m, p)
  <2>1. DOMAIN m = 1 .. Len(m) BY LenProperties
  <2>2. PICK k \in 1 .. Len(m) : p = m[k] BY <2>1 DEF ToSet
  <2>3. p \in ValidPaths BY <2>2, ElementOfSeq
  <2>4. IsPrefix(p, p)
    <3>1. Rank(p) \in 1 .. 8 /\ Rank(p) <= LastBelow(p) BY <2>3, PathOrder
    <3>2. Rank(p) <= Rank(p) BY <3>1
    <3> QED BY <2>3, <3>1, <3>2, PathOrder
  <2> QED BY <2>3, <2>4 DEF Covers
<1>6. ASSUME NEW p \in ToSet(m1) \cup ToSet(m2) PROVE FieldMaskHasPath(union, p)
  <2>1. p \in ValidPaths /\ (Covers(m1, p) \/ Covers(m2, p)) BY <1>5
  <2>2. Covers(union, p) BY <1>1, <2>1
  <2> QED BY <2>2 DEF Covers, FieldMaskHasPath, HasPathPrefix
<1> QED BY <1>1, <1>2, <1>4, <1>6 DEF AlgebraHolds, union, both

-------------------------------------------------------------------------------
(* Rows, transactions, calls.                                                *)

LEMMA RowsAre ==
  ASSUME NEW f
  PROVE  f \in Rows <=> DOMAIN f \subseteq Ids /\ f \in [DOMAIN f -> Row]
BY DEF Rows

LEMMA NoRows == <<>> \in Rows /\ DOMAIN <<>> = {} /\ Savepoint \in Savepoints
<1>1. DOMAIN <<>> = {} /\ <<>> = [i \in {} |-> <<>>]
  OBVIOUS
<1>2. <<>> \in Rows
  BY <1>1, RowsAre
<1> QED BY <1>1, <1>2 DEF Savepoint, Savepoints

LEMMA CallFacts ==
  ASSUME TypeInv, NEW c \in Callers
  PROVE  /\ call[c] = Idle <=> call[c].pc = "idle"
         /\ call[c] # Idle => call[c] \in Running
BY DEF TypeInv, Idle, Running, Stages

LEMMA TxFacts ==
  ASSUME TypeInv, NEW c \in Callers
  PROVE  /\ tx[c] \in Seq(Savepoints) /\ Len(tx[c]) \in Nat /\ DOMAIN tx[c] = 1 .. Len(tx[c])
         /\ tx[c] = <<>> <=> Len(tx[c]) = 0
         /\ \A l \in DOMAIN tx[c] :
              /\ tx[c][l] \in Savepoints /\ tx[c][l].undo \in Rows /\ tx[c][l].calls \subseteq Calls
              /\ DOMAIN tx[c][l].undo \subseteq Ids
              /\ \A i \in DOMAIN tx[c][l].undo : tx[c][l].undo[i] \in Row
<1>1. tx[c] \in Seq(Savepoints)
  BY DEF TypeInv
<1>2. /\ Len(tx[c]) \in Nat /\ DOMAIN tx[c] = 1 .. Len(tx[c])
      /\ \A l \in DOMAIN tx[c] : tx[c][l] \in Savepoints
  BY <1>1, LenProperties, ElementOfSeq
<1>3. tx[c] = <<>> <=> Len(tx[c]) = 0
  BY <1>1, EmptySeq
<1>4. ASSUME NEW l \in DOMAIN tx[c]
      PROVE  /\ tx[c][l] \in Savepoints /\ tx[c][l].undo \in Rows /\ tx[c][l].calls \subseteq Calls
             /\ DOMAIN tx[c][l].undo \subseteq Ids
             /\ \A i \in DOMAIN tx[c][l].undo : tx[c][l].undo[i] \in Row
  <2>1. tx[c][l].undo \in Rows /\ tx[c][l].calls \subseteq Calls
    BY <1>2 DEF Savepoints
  <2> QED BY <1>2, <2>1, RowsAre
<1> QED BY <1>1, <1>2, <1>3, <1>4

LEMMA TouchedFacts ==
  ASSUME TypeInv, NEW c \in Callers
  PROVE  /\ Touched(c) \subseteq Ids
         /\ \A i : i \in Touched(c) <=> \E l \in DOMAIN tx[c] : i \in DOMAIN tx[c][l].undo
         /\ tx[c] = <<>> => Touched(c) = {}
<1>1. \A i : i \in Touched(c) <=> \E l \in DOMAIN tx[c] : i \in DOMAIN tx[c][l].undo
  BY DEF Touched
<1>2. tx[c] = <<>> => DOMAIN tx[c] = {}
  BY TxFacts
<1> QED BY <1>1, <1>2, TxFacts

LEMMA BeforeFacts ==
  ASSUME TypeInv, NEW c \in Callers, NEW i \in Touched(c)
  PROVE  \E l \in DOMAIN tx[c] : i \in DOMAIN tx[c][l].undo /\ Before(c, i) = tx[c][l].undo[i]
<1> DEFINE S == {l \in DOMAIN tx[c] : i \in DOMAIN tx[c][l].undo}
<1>1. S \in SUBSET Nat /\ S # {}
  BY TxFacts, TouchedFacts
<1>2. PICK l \in S : \A k \in S : l <= k
  BY <1>1, LeastNumber
<1>3. \A j \in 1 .. l - 1 : i \notin DOMAIN tx[c][j].undo
  BY <1>1, <1>2, TxFacts
<1> DEFINE P(k) == i \in DOMAIN tx[c][k].undo /\ \A j \in 1 .. k - 1 : i \notin DOMAIN tx[c][j].undo
<1>4. \E k \in DOMAIN tx[c] : P(k)
  BY <1>2, <1>3
<1>5. PICK k \in DOMAIN tx[c] : P(k) /\ k = (CHOOSE m \in DOMAIN tx[c] : P(m))
  BY <1>4
<1>6. Before(c, i) = tx[c][k].undo[i]
  BY <1>5 DEF Before
<1> QED BY <1>5, <1>6

-------------------------------------------------------------------------------
(* What a write makes of the rows.                                           *)

LEMMA StoredIs ==
  ASSUME TypeInv, NEW i \in Ids, NEW msg \in Resource, NEW etag \in Resource,
         NEW loose \in BOOLEAN, NEW k \in Calls
  PROVE  LET r == Stored(i, msg, etag, loose, k) IN
         /\ r \in Row /\ By(r) = By(table[i]) \cup {k}
         /\ r.msg = msg /\ r.etag = etag /\ r.loose = loose
<1>1. table[i] \in Row /\ table[i].hist \in Seq(Calls)
  BY DEF TypeInv, Row
<1>2. Append(table[i].hist, k) \in Seq(Calls)
      /\ ToSet(Append(table[i].hist, k)) = ToSet(table[i].hist) \cup {k}
  BY <1>1, SetOfAppend
<1> QED BY <1>1, <1>2 DEF Stored, Row, By

LEMMA GoneIs ==
  ASSUME TypeInv, NEW i \in Ids, NEW k \in Calls
  PROVE  /\ Gone(i, k) \in Row /\ By(Gone(i, k)) = By(table[i]) \cup {k}
         /\ ~ Gone(i, k).live /\ Gone(i, k).msg = Gone(i, k).etag
<1>1. table[i] \in Row /\ table[i].hist \in Seq(Calls)
  BY DEF TypeInv, Row
<1>2. Append(table[i].hist, k) \in Seq(Calls)
      /\ ToSet(Append(table[i].hist, k)) = ToSet(table[i].hist) \cup {k}
  BY <1>1, SetOfAppend
<1>3. Nothing \in Resource
  BY DEF Nothing, Resource
<1> QED BY <1>1, <1>2, <1>3 DEF Gone, Row, By

LEMMA WithColumnsTyped ==
  ASSUME NEW old \in Resource, NEW columns, NEW new \in Resource
  PROVE  /\ WithColumns(old, columns, new) \in Resource
         /\ \A f \in {"n", "s", "l"} :
              WithColumns(old, columns, new)[f] = IF f \in columns THEN new[f] ELSE old[f]
<1>1. DOMAIN old = {"n", "s", "l"}
  BY DEF Resource
<1> QED BY <1>1 DEF WithColumns, Resource

LEMMA SameResource ==
  ASSUME NEW a \in Resource, NEW b \in Resource, \A f \in {"n", "s", "l"} : a[f] = b[f]
  PROVE  a = b
BY DEF Resource

\* A field that is left out of the row, being empty, was empty unless it is cleared.
LEMMA LeftOut ==
  ASSUME NEW old \in Resource, NEW patch \in Resource, NEW mask \in ValidMasks,
         NEW f \in {"n", "s", "l"}, f \notin Serialized(MergeForUpdate(old, patch, mask))
  PROVE  \/ MergeForUpdate(old, patch, mask)[f] = old[f]
         \/ f = "s" /\ <<"s">> \in ToSet(mask) /\ patch.s = None
<1> DEFINE msg == MergeForUpdate(old, patch, mask)
<1>1. msg[f] = Nothing[f] => old[f] = Nothing[f] \/ (f = "s" /\ <<"s">> \in ToSet(mask) /\ patch.s = None)
  BY MergeForUpdateTyped
<1> HIDE DEF msg
<1>2. f \in DOMAIN Nothing
  BY DEF Nothing
<1>3. msg[f] = Nothing[f]
  BY <1>2 DEF Serialized, msg
<1> QED BY <1>1, <1>3 DEF msg

\* When a mask names whole fields, its columns hold all that the merge changes.
LEMMA ColumnsSuffice ==
  ASSUME NEW old \in Resource, NEW patch \in Resource, NEW mask \in ValidMasks,
         \A p \in ToSet(mask) : ~ (Len(p) > 1),
         \/ <<"s">> \notin ToSet(mask) \/ patch.s # None
         \/ "s" \in Columns(MergeForUpdate(old, patch, mask), mask)
  PROVE  LET msg == MergeForUpdate(old, patch, mask)
         IN  WithColumns(old, Columns(msg, mask), msg) = msg
<1> DEFINE msg == MergeForUpdate(old, patch, mask)
<1>1. /\ msg \in Resource
      /\ mask # Wildcard => \A g \in {"n", "s", "l"} \ Names1(mask) : msg[g] = old[g]
  BY MergeForUpdateTyped
<1>2a. \/ <<"s">> \notin ToSet(mask) \/ patch.s # None \/ "s" \in Columns(msg, mask)
  OBVIOUS
<1>2b. \A f \in {"n", "s", "l"} : f \notin Serialized(msg) =>
        msg[f] = old[f] \/ (f = "s" /\ <<"s">> \in ToSet(mask) /\ patch.s = None)
  BY LeftOut
<1> HIDE DEF msg
<1>2. ASSUME NEW f \in {"n", "s", "l"} \ Columns(msg, mask)
      PROVE  msg[f] = old[f]
  <2>1. f \notin Serialized(msg) => msg[f] = old[f]
    BY <1>2a, <1>2b, <1>2
  <2>2. CASE mask = Wildcard
    BY <1>2, <2>1, <2>2 DEF Columns
  <2>3. CASE mask # Wildcard /\ f \in Serialized(msg)
    <3>1. mask \in Seq(ValidPaths) BY <2>3 DEF ValidMasks
    <3>2. \A p \in ToSet(mask) : p \in ValidPaths BY <3>1, ElementOfSeq, LenProperties DEF ToSet
    <3>3. \A p \in ToSet(mask) : Len(p) = 1
      <4> TAKE p \in ToSet(mask)
      <4>1. ~ (Len(p) > 1) OBVIOUS
      <4>2. p \in {<<"n">>, <<"s">>, <<"l">>} BY <3>2, <4>1 DEF ValidPaths
      <4> QED BY <4>2
    <3>4. Columns(msg, mask) = Serialized(msg) \cap Names1(mask)
      BY <2>3, <3>3 DEF Columns, Names1
    <3> QED BY <1>1, <1>2, <2>3, <3>4
  <2> QED BY <2>1, <2>2, <2>3
<1>3. /\ WithColumns(old, Columns(msg, mask), msg) \in Resource
      /\ \A f \in {"n", "s", "l"} : WithColumns(old, Columns(msg, mask), msg)[f] = msg[f]
  BY <1>1, <1>2, WithColumnsTyped
<1>4. WithColumns(old, Columns(msg, mask), msg) = msg
  BY <1>1, <1>3, SameResource
<1> QED BY <1>4 DEF msg

LEMMA CallingFacts ==
  ASSUME IInv, NEW c \in Callers, call[c].pc # "idle"
  PROVE  /\ call[c] # Idle /\ call[c] \in Running
         /\ call[c].no \in Calls /\ call[c].op \in Operations
         /\ call[c].items \in Seq(RequestItem) /\ DOMAIN call[c].items = 1 .. Len(call[c].items)
         /\ Len(call[c].items) \in Nat
         /\ \A k \in DOMAIN call[c].items :
              /\ call[c].items[k].msg \in Resource /\ call[c].items[k].mask \in ValidMasks
              /\ call[c].items[k].query.id \in Ids \cup {None}
<1>1. call[c] # Idle /\ call[c] \in Running
  BY CallFacts DEF IInv
<1>2. call[c].items \in Seq(RequestItem) /\ call[c].no \in Calls /\ call[c].op \in Operations
  BY <1>1 DEF Running
<1>3. /\ DOMAIN call[c].items = 1 .. Len(call[c].items) /\ Len(call[c].items) \in Nat
      /\ \A k \in DOMAIN call[c].items : call[c].items[k] \in RequestItem
  BY <1>2, LenProperties, ElementOfSeq
<1> QED BY <1>1, <1>2, <1>3 DEF RequestItem

LEMMA ReadFacts ==
  ASSUME IInv, NEW c \in Callers, call[c].pc # "idle", call[c].op # "list"
  PROVE  /\ call[c].read \in Rows /\ DOMAIN call[c].read \subseteq Ids
         /\ \A i \in DOMAIN call[c].read :
              /\ call[c].read[i] \in Row
              /\ table[i].hist = call[c].read[i].hist => table[i] = call[c].read[i]
<1>1. call[c] # Idle /\ call[c].read \in Rows
  BY CallingFacts DEF IInv, TypeInv
<1>2. DOMAIN call[c].read \subseteq Ids /\ \A i \in DOMAIN call[c].read : call[c].read[i] \in Row
  BY <1>1, RowsAre
<1>3. \A i \in DOMAIN call[c].read : call[c].read[i] \in Versions(i) /\ table[i] \in Versions(i)
  BY <1>1, <1>2 DEF Versions, IInv, TypeInv
<1> QED BY <1>1, <1>2, <1>3 DEF IInv, VersionInv

LEMMA WriteOps ==
  ASSUME IInv, NEW c \in Callers, call[c].pc = "write"
  PROVE  /\ call[c].op \in Creates \cup {"update", "delete", "batchUpdate", "batchDelete"}
         /\ call[c].op = "update" =>
              Len(call[c].items) = 1 /\ \E i \in Ids : DOMAIN call[c].read = {i}
<1>1. call[c] # Idle /\ call[c].op \in Operations
  BY CallingFacts
<1> QED BY <1>1 DEF IInv, CallInv, CallOf, Operations, Batches, Singles, Reads, Creates

\* What the write of a call does to rows: they are free, and get a version of this call.
Writes(c, new) ==
  /\ new \in Rows
  /\ \A i \in DOMAIN new :
       /\ By(new[i]) = By(table[i]) \cup {call[c].no}
       /\ new[i].live /\ ~ new[i].loose => new[i].etag = new[i].msg
       /\ ~ Locked(c, i)

LEMMA HitsFacts ==
  ASSUME IInv, NEW c \in Callers, call[c].pc = "write"
  PROVE  /\ Hits(c) \subseteq Ids
         /\ call[c].op \notin Creates => Hits(c) \subseteq Wanted(c)
         /\ ~ Blocked(c) /\ ~ Conflict(c) => \A i \in Wanted(c) : ~ Locked(c, i)
<1>1. Hits(c) \subseteq Ids
  BY DEF Hits, Found
<1>2. call[c].op \notin Creates => Hits(c) \subseteq Wanted(c)
  BY DEF Wanted
<1>3. ~ Blocked(c) /\ ~ Conflict(c) => \A i \in Wanted(c) : ~ Locked(c, i)
  BY DEF Blocked
<1> QED BY <1>1, <1>2, <1>3

LEMMA InsertedWrites ==
  ASSUME IInv, NEW c \in Callers, call[c].pc = "write", call[c].op \in Creates,
         \A i \in Wanted(c) : ~ Locked(c, i)
  PROVE  Writes(c, Inserted(c))
<1> DEFINE items == call[c].items
           At(i) == CHOOSE k \in DOMAIN items : items[k].query.id = i
<1>1. /\ call[c] # Idle /\ call[c].no \in Calls
      /\ \A k \in DOMAIN items : items[k].msg \in Resource
  BY CallingFacts
<1>2. Wanted(c) = {items[k].query.id : k \in DOMAIN items}
  BY DEF Wanted
<1>3. Wanted(c) \subseteq Ids
  BY <1>1, <1>2 DEF IInv, CallInv, CallOf
<1>4. \A i \in Wanted(c) : At(i) \in DOMAIN items
  BY <1>2
<1>5. Inserted(c) = [i \in Wanted(c) |-> Stored(i, items[At(i)].msg, items[At(i)].msg, FALSE, call[c].no)]
  BY DEF Inserted
<1>6. \A i \in Wanted(c) : items[At(i)].msg \in Resource
  BY <1>1, <1>4
<1> HIDE DEF At
<1>7. ASSUME NEW i \in Wanted(c)
      PROVE  LET r == Stored(i, items[At(i)].msg, items[At(i)].msg, FALSE, call[c].no) IN
             r \in Row /\ By(r) = By(table[i]) \cup {call[c].no} /\ r.etag = r.msg
  <2>1. TypeInv BY DEF IInv
  <2>2. i \in Ids BY <1>3
  <2>3. items[At(i)].msg \in Resource BY <1>6
  <2>4. call[c].no \in Calls BY <1>1
  <2> DEFINE msg == items[At(i)].msg
             loose == FALSE
  <2>5. msg \in Resource /\ loose \in BOOLEAN BY <2>3
  <2> HIDE DEF msg, loose
  <2>6. LET r == Stored(i, msg, msg, loose, call[c].no) IN
        r \in Row /\ By(r) = By(table[i]) \cup {call[c].no} /\ r.etag = r.msg
    BY <2>1, <2>2, <2>4, <2>5, StoredIs
  <2> QED BY <2>6 DEF msg, loose
<1>8. Inserted(c) \in Rows /\ DOMAIN Inserted(c) = Wanted(c)
  BY <1>3, <1>5, <1>7, RowsAre
<1> QED BY <1>5, <1>7, <1>8 DEF Writes

LEMMA DeletedWrites ==
  ASSUME IInv, NEW c \in Callers, call[c].pc = "write", NEW rows \in SUBSET Ids,
         \A i \in rows : ~ Locked(c, i)
  PROVE  Writes(c, Deleted(c, rows))
<1>1. TypeInv /\ call[c].no \in Calls
  BY CallingFacts DEF IInv
<1>2. \A i \in rows : /\ Gone(i, call[c].no) \in Row /\ ~ Gone(i, call[c].no).live
                      /\ By(Gone(i, call[c].no)) = By(table[i]) \cup {call[c].no}
  BY <1>1, GoneIs
<1>3. Deleted(c, rows) = [i \in rows |-> Gone(i, call[c].no)]
  BY DEF Deleted
<1>4. Deleted(c, rows) \in Rows
  BY <1>2, <1>3, RowsAre
<1> QED BY <1>2, <1>3, <1>4 DEF Writes

LEMMA UpdatedWrites ==
  ASSUME IInv, NEW c \in Callers, call[c].pc = "write", call[c].op = "update",
         NEW rows \in SUBSET Hits(c), \A i \in Wanted(c) : ~ Locked(c, i)
  PROVE  Writes(c, Updated(c, rows))
<1> DEFINE item == call[c].items[1]
           id   == CHOOSE i \in DOMAIN call[c].read : TRUE
           read == call[c].read[id]
           msg  == MergeForUpdate(read.msg, item.msg, item.mask)
           Contents(i) == WithColumns(table[i].msg, Columns(msg, item.mask), msg)
           Raced(i) == \/ i # id \/ table[i].hist # read.hist
                       \/ \E p \in ToSet(item.mask) : Len(p) > 1
                       \/ Skipped(item, Columns(msg, item.mask))
           no == call[c].no
           New(i) == Stored(i, Contents(i), Etag(read.msg, msg), Raced(i), no)
           first == CHOOSE i \in rows : TRUE
           Renamed == Stored(id, Contents(first), Etag(read.msg, msg), TRUE, no)
<1>1. Updated(c, rows) = IF item.mask = Wildcard /\ rows \notin {{}, {id}}
                           THEN [i \in rows \cup {id} |-> IF i = id THEN Renamed ELSE Gone(i, no)]
                           ELSE [i \in rows |-> New(i)]
  BY DEF Updated
<1>2. /\ TypeInv /\ no \in Calls /\ item.msg \in Resource /\ item.mask \in ValidMasks
  <2>1. 1 \in DOMAIN call[c].items
    BY WriteOps, CallingFacts
  <2> QED BY <2>1, CallingFacts DEF IInv
<1>3. /\ DOMAIN call[c].read = {id} /\ id \in Ids /\ read \in Row
      /\ table[id].hist = read.hist => table[id] = read
  <2>1. PICK i \in Ids : DOMAIN call[c].read = {i}
    BY WriteOps
  <2>2. id = i
    BY <2>1
  <2> HIDE DEF id
  <2>3. id \in Ids /\ DOMAIN call[c].read = {id}
    BY <2>1, <2>2
  <2> QED BY <2>3, ReadFacts
<1> HIDE DEF id
<1>4. read.msg \in Resource
  BY <1>3 DEF Row
<1> HIDE DEF read, item
<1>5. msg \in Resource
  BY <1>2, <1>4, MergeForUpdateTyped
<1>6. Etag(read.msg, msg) = msg
  BY DEF Etag
<1>7. /\ \A p \in ToSet(item.mask) : ~ (Len(p) > 1)
      /\ ~ Skipped(item, Columns(msg, item.mask))
      => WithColumns(read.msg, Columns(msg, item.mask), msg) = msg
  BY <1>2, <1>4, ColumnsSuffice DEF Skipped
<1> HIDE DEF msg
<1>8. rows \subseteq Ids /\ \A i \in rows : ~ Locked(c, i)
  BY WriteOps, HitsFacts DEF Creates
<1>9. \A i \in Ids : Contents(i) \in Resource
  <2> TAKE i \in Ids
  <2>1. table[i].msg \in Resource
    BY <1>2 DEF TypeInv, Row
  <2> QED BY <2>1, <1>5, WithColumnsTyped
<1>10. \A i \in Ids : ~ Raced(i) => Contents(i) = msg
  BY <1>3, <1>7
<1> HIDE DEF Contents
<1>11. ASSUME NEW i \in Ids
       PROVE  /\ New(i) \in Row /\ By(New(i)) = By(table[i]) \cup {no}
              /\ ~ New(i).loose => New(i).etag = New(i).msg
  <2> DEFINE loose == Raced(i)
             m == Contents(i)
             e == Etag(read.msg, msg)
  <2>1. loose \in BOOLEAN /\ m \in Resource /\ e \in Resource
    BY <1>5, <1>6, <1>9
  <2>2. ~ loose => m = e
    BY <1>6, <1>10
  <2> HIDE DEF loose, m, e
  <2>3. LET r == Stored(i, m, e, loose, no) IN
        r \in Row /\ By(r) = By(table[i]) \cup {no} /\ r.msg = m /\ r.etag = e /\ r.loose = loose
    BY <1>2, <2>1, StoredIs
  <2>4. New(i) = Stored(i, m, e, loose, no)
    BY DEF m, e, loose
  <2> HIDE DEF New
  <2> QED BY <2>2, <2>3, <2>4
<1>12. CASE item.mask = Wildcard /\ rows \notin {{}, {id}}
  <2>1. first \in rows /\ first \in Ids
    BY <1>8, <1>12
  <2> HIDE DEF first
  <2> DEFINE loose == TRUE
             m == Contents(first)
             e == Etag(read.msg, msg)
  <2>2. loose \in BOOLEAN /\ m \in Resource /\ e \in Resource
    BY <1>5, <1>6, <1>9, <2>1
  <2>3. Renamed = Stored(id, m, e, loose, no)
    OBVIOUS
  <2>4. loose
    OBVIOUS
  <2> HIDE DEF loose, m, e, Renamed
  <2>5. LET r == Stored(id, m, e, loose, no) IN
        r \in Row /\ By(r) = By(table[id]) \cup {no} /\ r.loose = loose
    BY <1>2, <1>3, <2>2, StoredIs
  <2>6. Renamed \in Row /\ By(Renamed) = By(table[id]) \cup {no} /\ Renamed.loose
    BY <2>3, <2>4, <2>5
  <2>7. \A i \in rows : /\ Gone(i, no) \in Row /\ By(Gone(i, no)) = By(table[i]) \cup {no}
                        /\ ~ Gone(i, no).live
    BY <1>2, <1>8, GoneIs
  <2>8. ~ Locked(c, id)
    <3>1. id \in Wanted(c)
      BY <1>3, <1>12 DEF Wanted, Creates, item
    <3> QED BY <3>1
  <2>9. Updated(c, rows) = [i \in rows \cup {id} |-> IF i = id THEN Renamed ELSE Gone(i, no)]
    BY <1>1, <1>12
  <2>10. Updated(c, rows) \in Rows
    BY <1>3, <1>8, <2>6, <2>7, <2>9, RowsAre
  <2> QED BY <1>8, <2>6, <2>7, <2>8, <2>9, <2>10 DEF Writes
<1>13. CASE ~ (item.mask = Wildcard /\ rows \notin {{}, {id}})
  <2> HIDE DEF New
  <2>1. Updated(c, rows) = [i \in rows |-> New(i)]
    BY <1>1, <1>13
  <2>2. Updated(c, rows) \in Rows
    BY <1>8, <1>11, <2>1, RowsAre
  <2> QED BY <1>8, <1>11, <2>1, <2>2 DEF Writes
<1> QED BY <1>12, <1>13

LEMMA ReplacedWrites ==
  ASSUME IInv, NEW c \in Callers, call[c].pc = "write", call[c].op = "batchUpdate",
         \A i \in Wanted(c) : ~ Locked(c, i)
  PROVE  Writes(c, Replaced(c))
<1> DEFINE items == call[c].items
           At(i) == items[CHOOSE k \in DOMAIN items : items[k].query.id = i]
           old(i) == call[c].read[i]
           New(i) == MergeForUpdate(old(i).msg, At(i).msg, At(i).mask)
           columns == IF engine = "mongodb" THEN DOMAIN Nothing
                      ELSE UNION {Serialized(New(i)) : i \in DOMAIN call[c].read}
           no == call[c].no
           Row_(i) == Stored(i, WithColumns(table[i].msg, columns, New(i)), Etag(old(i).msg, New(i)),
                             table[i].hist # old(i).hist \/ Skipped(At(i), columns), no)
<1>1. Replaced(c) = [i \in Hits(c) |-> Row_(i)]
  BY DEF Replaced
<1>2. /\ call[c] # Idle /\ TypeInv /\ no \in Calls
      /\ \A k \in DOMAIN items : items[k].msg \in Resource /\ items[k].mask \in ValidMasks
  BY CallingFacts DEF IInv
<1>3. /\ Hits(c) \subseteq Ids /\ \A i \in Hits(c) : ~ Locked(c, i)
      /\ \A i \in Hits(c) : \E k \in DOMAIN items : items[k].query.id = i
  <2>1. \A k \in DOMAIN items : items[k].query.id \in Ids
    BY <1>2 DEF IInv, CallInv, CallOf
  <2>2. None \notin Ids
    BY InputAssumption
  <2>3. \A i \in Hits(c) : \E k \in DOMAIN items : items[k].query.id = i
    BY <2>1, <2>2 DEF Hits, Found, Matches
  <2> QED BY <2>3, HitsFacts DEF Creates
<1>4. ASSUME NEW i \in Hits(c)
      PROVE  /\ Row_(i) \in Row /\ By(Row_(i)) = By(table[i]) \cup {no}
             /\ ~ Row_(i).loose => Row_(i).etag = Row_(i).msg
  <2>1. At(i).msg \in Resource /\ At(i).mask \in ValidMasks
    BY <1>2, <1>3
  <2>2. i \in DOMAIN call[c].read /\ i \in Ids
    BY <1>2, <1>3 DEF IInv, ReadInv, ReadOf
  <2>3. old(i) \in Row /\ (table[i].hist = old(i).hist => table[i] = old(i))
    BY <2>2, ReadFacts
  <2> HIDE DEF old
  <2>4. old(i).msg \in Resource /\ table[i].msg \in Resource
    BY <1>2, <2>2, <2>3 DEF TypeInv, Row
  <2> HIDE DEF At
  <2>5. /\ New(i) \in Resource
        /\ \A f \in {"n", "s", "l"} : f \notin Serialized(New(i)) =>
             \/ New(i)[f] = old(i).msg[f]
             \/ f = "s" /\ <<"s">> \in ToSet(At(i).mask) /\ At(i).msg.s = None
    BY <2>1, <2>4, MergeForUpdateTyped, LeftOut
  <2>6. ASSUME NEW f \in {"n", "s", "l"}, f \notin columns, ~ Skipped(At(i), columns)
        PROVE  New(i)[f] = old(i).msg[f]
    <3>1. engine # "mongodb"
      BY <2>6 DEF Nothing
    <3>2. f \notin Serialized(New(i))
      BY <2>2, <2>6, <3>1
    <3> HIDE DEF New, columns
    <3> QED BY <2>5, <2>6, <3>2 DEF Skipped
  <2> DEFINE m == WithColumns(table[i].msg, columns, New(i))
             e == Etag(old(i).msg, New(i))
             loose == table[i].hist # old(i).hist \/ Skipped(At(i), columns)
  <2>7. e = New(i)
    BY DEF Etag
  <2>8. Row_(i) = Stored(i, m, e, loose, no)
    OBVIOUS
  <2> HIDE DEF New, columns, Row_
  <2>9. /\ m \in Resource
        /\ \A f \in {"n", "s", "l"} : m[f] = IF f \in columns THEN New(i)[f] ELSE table[i].msg[f]
    BY <2>4, <2>5, WithColumnsTyped
  <2>10. ASSUME ~ loose PROVE m = e
    <3>1. table[i] = old(i)
      BY <2>3, <2>10
    <3>2. ~ Skipped(At(i), columns) BY <2>10
    <3>3. ASSUME NEW f \in {"n", "s", "l"} PROVE m[f] = New(i)[f]
      <4> HIDE DEF m
      <4>1. CASE f \in columns BY <2>9, <4>1
      <4>2. CASE f \notin columns
        <5>1. New(i)[f] = old(i).msg[f] BY <2>6, <3>2, <4>2
        <5>2. m[f] = table[i].msg[f] BY <2>9, <4>2
        <5> QED BY <3>1, <5>1, <5>2
      <4> QED BY <4>1, <4>2
    <3>4. m = New(i)
      <4> HIDE DEF m
      <4> QED BY <2>5, <2>9, <3>3, SameResource
    <3> QED BY <2>7, <3>4
  <2>11. loose \in BOOLEAN /\ e \in Resource
    BY <2>5, <2>7
  <2> HIDE DEF m, e, loose
  <2>12. LET r == Stored(i, m, e, loose, no) IN
         r \in Row /\ By(r) = By(table[i]) \cup {no} /\ r.msg = m /\ r.etag = e /\ r.loose = loose
    BY <1>2, <2>2, <2>9, <2>11, StoredIs
  <2> QED BY <2>8, <2>10, <2>12
<1> HIDE DEF Row_
<1>5. Replaced(c) \in Rows
  BY <1>1, <1>3, <1>4, RowsAre
<1> QED BY <1>1, <1>3, <1>4, <1>5 DEF Writes

\* Whatever a write statement of c does, it is a write in this sense.
LEMMA EffectWrites ==
  ASSUME IInv, NEW c \in Callers, call[c].pc = "write", ~ Blocked(c), NEW rows \in RowSets(c),
         ~ Refused(c, rows)
  PROVE  /\ Writes(c, Effect(c, rows))
         /\ call[c].op = "batchDelete" => DOMAIN Effect(c, rows) = rows
<1>1. rows \in SUBSET Hits(c)
  BY DEF RowSets
<1>2. \A i \in Wanted(c) : ~ Locked(c, i)
  BY HitsFacts DEF Refused
<1>3. CASE call[c].op \in Creates
  <2>1. Effect(c, rows) = Inserted(c) /\ call[c].op # "batchDelete"
    BY <1>3 DEF Effect, Creates
  <2> QED BY <1>2, <1>3, <2>1, InsertedWrites
<1>4. CASE call[c].op = "update"
  <2>1. Effect(c, rows) = Updated(c, rows)
    BY <1>4 DEF Effect, Creates
  <2> QED BY <1>1, <1>2, <1>4, <2>1, UpdatedWrites
<1>5. CASE call[c].op = "batchUpdate"
  <2>1. Effect(c, rows) = Replaced(c)
    BY <1>5 DEF Effect, Creates
  <2> QED BY <1>2, <1>5, <2>1, ReplacedWrites
<1>6. CASE call[c].op \in {"delete", "batchDelete"}
  <2>1. Effect(c, rows) = Deleted(c, rows)
    BY <1>6 DEF Effect, Creates
  <2>2. rows \in SUBSET Ids /\ \A i \in rows : ~ Locked(c, i)
    BY <1>1, <1>2, <1>6, HitsFacts DEF Creates
  <2> QED BY <2>1, <2>2, DeletedWrites DEF Deleted
<1> QED BY <1>3, <1>4, <1>5, <1>6, WriteOps

-------------------------------------------------------------------------------
(* Versions, and what a statement reads.                                     *)

LEMMA VersionFacts ==
  ASSUME TypeInv, NEW i \in Ids
  PROVE  /\ Versions(i) \subseteq Row
         /\ table[i] \in Versions(i)
         /\ \A d \in Callers : \A l \in DOMAIN tx[d] :
              i \in DOMAIN tx[d][l].undo => tx[d][l].undo[i] \in Versions(i)
         /\ \A d \in Callers : snap[d] # None => snap[d][i] \in Versions(i)
         /\ \A d \in Callers : call[d] # Idle /\ call[d].op # "list" /\ i \in DOMAIN call[d].read =>
              call[d].read[i] \in Versions(i)
<1>1. table[i] \in Versions(i)
  BY DEF Versions, TypeInv
<1>2. ASSUME NEW d \in Callers, NEW l \in DOMAIN tx[d], i \in DOMAIN tx[d][l].undo
      PROVE  tx[d][l].undo[i] \in Versions(i)
  <2>1. tx[d][l].undo[i] \in Row
    BY <1>2, TxFacts
  <2> QED BY <1>2, <2>1 DEF Versions
<1>3. ASSUME NEW d \in Callers, snap[d] # None
      PROVE  snap[d][i] \in Versions(i)
  <2>1. snap[d] \in [Ids -> Row]
    BY <1>3 DEF TypeInv
  <2> QED BY <1>3, <2>1 DEF Versions
<1>4. ASSUME NEW d \in Callers, call[d] # Idle, call[d].op # "list", i \in DOMAIN call[d].read
      PROVE  call[d].read[i] \in Versions(i)
  <2>1. call[d].read \in Rows
    BY <1>4 DEF TypeInv
  <2>2. call[d].read[i] \in Row
    BY <1>4, <2>1, RowsAre
  <2> QED BY <1>4, <2>2 DEF Versions
<1>5. Versions(i) \subseteq Row
  BY DEF Versions
<1> QED BY <1>1, <1>2, <1>3, <1>4, <1>5

LEMMA ViewFacts ==
  ASSUME TypeInv, NEW c \in Callers
  PROVE  /\ View(c) \in [Ids -> Row] /\ \A i \in Ids : View(c)[i] \in Versions(i)
         /\ SnapshotOf(c) \in {None} \cup [Ids -> Row]
         /\ SnapshotOf(c) # None => \A i \in Ids : SnapshotOf(c)[i] \in Versions(i)
         /\ tx[c] = <<>> => SnapshotOf(c) = None
<1>1. ASSUME NEW i \in Ids
      PROVE  (IF \E d \in Others(c) : i \in Touched(d)
                THEN Before(CHOOSE d \in Others(c) : i \in Touched(d), i)
                ELSE table[i]) \in Versions(i)
  <2>1. CASE \E d \in Others(c) : i \in Touched(d)
    <3> DEFINE e == CHOOSE d \in Others(c) : i \in Touched(d)
    <3>1. e \in Callers /\ i \in Touched(e)
      BY <2>1 DEF Others
    <3> HIDE DEF e
    <3>2. PICK l \in DOMAIN tx[e] : i \in DOMAIN tx[e][l].undo /\ Before(e, i) = tx[e][l].undo[i]
      BY <3>1, BeforeFacts
    <3>3. Before(e, i) \in Versions(i)
      BY <3>1, <3>2, VersionFacts
    <3> QED BY <2>1, <3>3 DEF e
  <2>2. CASE ~ \E d \in Others(c) : i \in Touched(d)
    BY <2>2, VersionFacts
  <2> QED BY <2>1, <2>2
<1>2. \A i \in Ids : Committed(c)[i] \in Versions(i)
  BY <1>1 DEF Committed
<1>3. DOMAIN table = Ids /\ Committed(c) = [i \in Ids |-> Committed(c)[i]]
  BY DEF Committed, TypeInv
<1>4. \A i \in Ids : table[i] \in Versions(i) /\ (snap[c] # None => snap[c][i] \in Versions(i))
  BY VersionFacts
<1>5. View(c) = [i \in Ids |-> View(c)[i]] /\ \A i \in Ids : View(c)[i] \in Versions(i)
  <2>1. CASE engine = "sqlite"
    BY <1>4, <2>1 DEF View, TypeInv
  <2>2. CASE engine # "sqlite" /\ snap[c] = None
    BY <1>2, <1>3, <2>2 DEF View
  <2>3. CASE engine # "sqlite" /\ snap[c] # None
    BY <1>4, <2>3 DEF View
  <2> QED BY <2>1, <2>2, <2>3
<1>6. View(c) \in [Ids -> Row] /\ \A i \in Ids : View(c)[i] \in Versions(i)
  BY <1>5, VersionFacts
<1>7. SnapshotOf(c) \in {View(c), snap[c]} /\ (tx[c] = <<>> => SnapshotOf(c) = snap[c])
  BY DEF SnapshotOf
<1>8. snap[c] \in {None} \cup [Ids -> Row] /\ (tx[c] = <<>> => snap[c] = None)
  BY DEF TypeInv
<1> QED BY <1>4, <1>6, <1>7, <1>8

-------------------------------------------------------------------------------
(* What a step does to the calls: it starts the call of c, goes on with it or *)
(* ends it.                                                                   *)

Late == {"readback", "commit", "failing"}

OthersCalls(c) ==
  /\ call' \in [Callers -> {Idle} \cup Running]
  /\ \A d \in Callers : d # c => call'[d] = call[d]

Starts(c) ==
  /\ OthersCalls(c)
  /\ call[c] = Idle /\ call'[c] \in Running /\ call'[c] # Idle
  /\ call'[c].pc \in {"page", "begin", "find"}
  /\ outcome[call'[c].no].status = "none" /\ outcome'[call'[c].no].status = "running"
  /\ \A k \in Calls : outcome'[k].wrote = outcome[k].wrote /\ outcome'[k].told = outcome[k].told
  /\ \A k \in Calls : k # call'[c].no => outcome'[k] = outcome[k]

Stays(c) ==
  /\ OthersCalls(c)
  /\ call[c] # Idle /\ call'[c] \in Running /\ call'[c] # Idle
  /\ call'[c].no = call[c].no /\ call'[c].op = call[c].op /\ call'[c].own = call[c].own
  /\ call'[c].items = call[c].items /\ call'[c].size = call[c].size

Goes(c) == Stays(c) /\ outcome' = outcome
GoesTo(c, pc) == Goes(c) /\ call'[c].pc = pc /\ call'[c].read = call[c].read

Ends(c, status) ==
  /\ OthersCalls(c) /\ call[c] # Idle /\ call'[c] = Idle
  /\ outcome'[call[c].no].status = status
  /\ \A k \in Calls : outcome'[k].wrote = outcome[k].wrote /\ outcome'[k].told = outcome[k].told
  /\ \A k \in Calls : k # call[c].no => outcome'[k] = outcome[k]

LEMMA EndedIs ==
  ASSUME TypeInv, NEW S, NEW status \in Statuses
  PROVE  /\ Ended(S, status) \in [Calls -> [status : Statuses, wrote : SUBSET Ids, told : SUBSET Ids]]
         /\ \A k \in Calls :
              /\ Ended(S, status)[k].wrote = outcome[k].wrote
              /\ Ended(S, status)[k].told = outcome[k].told
              /\ k \in S => Ended(S, status)[k].status = status
              /\ k \notin S => Ended(S, status)[k] = outcome[k]
<1>1. outcome \in [Calls -> [status : Statuses, wrote : SUBSET Ids, told : SUBSET Ids]]
  BY DEF TypeInv
<1> QED BY <1>1 DEF Ended

LEMMA StaysIf ==
  ASSUME IInv, NEW c \in Callers, call[c] # Idle, NEW pc \in Stages,
         call' = [call EXCEPT ![c].pc = pc]
  PROVE  Stays(c) /\ call'[c].pc = pc /\ call'[c].read = call[c].read
<1>1. call[c] \in Running /\ call \in [Callers -> {Idle} \cup Running]
  BY CallFacts DEF IInv, TypeInv
<1>2. /\ call' \in [Callers -> {Idle} \cup Running]
      /\ \A d \in Callers : d # c => call'[d] = call[d]
      /\ call'[c] = [call[c] EXCEPT !.pc = pc] /\ call'[c] \in Running
  BY <1>1 DEF Running
<1>3. call'[c].pc = pc /\ call'[c] # Idle
  BY <1>1, <1>2 DEF Running, Idle, Stages
<1>4. /\ call'[c].no = call[c].no /\ call'[c].op = call[c].op /\ call'[c].own = call[c].own
      /\ call'[c].items = call[c].items /\ call'[c].size = call[c].size
      /\ call'[c].read = call[c].read
  BY <1>1, <1>2 DEF Running
<1> QED BY <1>2, <1>3, <1>4 DEF Stays, OthersCalls

LEMMA GoesIf ==
  ASSUME IInv, NEW c \in Callers, call[c] # Idle, NEW pc \in Stages, outcome' = outcome,
         call' = [call EXCEPT ![c].pc = pc]
  PROVE  GoesTo(c, pc)
BY StaysIf DEF GoesTo, Goes

LEMMA EndsIf ==
  ASSUME IInv, NEW c \in Callers, call[c] # Idle, NEW status \in Statuses,
         call' = [call EXCEPT ![c] = Idle], outcome' = Ended({call[c].no}, status)
  PROVE  Ends(c, status) /\ outcome' \in [Calls -> [status : Statuses, wrote : SUBSET Ids, told : SUBSET Ids]]
<1>1. TypeInv /\ call \in [Callers -> {Idle} \cup Running] /\ call[c].no \in Calls
  BY CallFacts DEF IInv, TypeInv, Running
<1>2. OthersCalls(c) /\ call'[c] = Idle
  BY <1>1 DEF OthersCalls
<1>3. /\ outcome' \in [Calls -> [status : Statuses, wrote : SUBSET Ids, told : SUBSET Ids]]
      /\ \A k \in Calls :
           /\ outcome'[k].wrote = outcome[k].wrote /\ outcome'[k].told = outcome[k].told
           /\ k \in {call[c].no} => outcome'[k].status = status
           /\ k \notin {call[c].no} => outcome'[k] = outcome[k]
  BY <1>1, EndedIs
<1> QED BY <1>1, <1>2, <1>3 DEF Ends

\* How calls fail and return.
LEMMA FailDoes ==
  ASSUME IInv, NEW c \in Callers, call[c].pc # "idle", Fail(c)
  PROVE  /\ outcome' \in [Calls -> [status : Statuses, wrote : SUBSET Ids, told : SUBSET Ids]]
         /\ IF tx[c] = <<>> THEN Ends(c, "rejected") ELSE GoesTo(c, "failing")
<1>1. call[c] # Idle /\ TypeInv
  BY CallingFacts DEF IInv
<1>2. CASE tx[c] = <<>>
  BY <1>1, <1>2, EndsIf DEF Fail, Statuses
<1>3. CASE tx[c] # <<>>
  BY <1>1, <1>3, GoesIf DEF Fail, Stages, TypeInv
<1> QED BY <1>2, <1>3

LEMMA ReturnDoes ==
  ASSUME IInv, NEW c \in Callers, call[c].pc # "idle", Return(c)
  PROVE  /\ outcome' \in [Calls -> [status : Statuses, wrote : SUBSET Ids, told : SUBSET Ids]]
         /\ IF call[c].own THEN GoesTo(c, "commit") ELSE Ends(c, "ok")
<1>1. call[c] # Idle /\ TypeInv
  BY CallingFacts DEF IInv
<1>2. CASE ~ call[c].own
  BY <1>1, <1>2, EndsIf DEF Return, Statuses
<1>3. CASE call[c].own
  BY <1>1, <1>3, GoesIf DEF Return, Stages, TypeInv
<1> QED BY <1>2, <1>3

LEMMA AfterErrorDoes ==
  ASSUME IInv, NEW c \in Callers, call[c].pc # "idle", AfterError(c)
  PROVE  /\ outcome' \in [Calls -> [status : Statuses, wrote : SUBSET Ids, told : SUBSET Ids]]
         /\ IF tx[c] = <<>> THEN Ends(c, "unseen") ELSE GoesTo(c, "failing")
<1>1. call[c] # Idle /\ TypeInv
  BY CallingFacts DEF IInv
<1>2. CASE tx[c] = <<>>
  BY <1>1, <1>2, EndsIf DEF AfterError, Statuses
<1>3. CASE tx[c] # <<>>
  BY <1>1, <1>3, GoesIf DEF AfterError, Stages, TypeInv
<1> QED BY <1>2, <1>3

LEMMA IssuedIs ==
  ASSUME IInv
  PROVE  Issued \in 0 .. MaxCalls /\ \A k \in Calls : outcome[k].status # "none" <=> k <= Issued
<1>1. PICK m \in 0 .. MaxCalls : \A k \in Calls : outcome[k].status # "none" <=> k <= m
  BY DEF IInv, NumberInv
<1>2. {k \in Calls : outcome[k].status # "none"} = 1 .. m
  BY <1>1, RepositoryAssumption DEF Calls
<1>3. Cardinality(1 .. m) = m
  BY FS_Interval
<1>4. Issued = m
  BY <1>2, <1>3 DEF Issued
<1> QED BY <1>1, <1>4

LEMMA CallDoes ==
  ASSUME IInv, NEW c \in Callers, Call(c)
  PROVE  /\ Starts(c) /\ call'[c].no = Issued + 1
         /\ outcome' \in [Calls -> [status : Statuses, wrote : SUBSET Ids, told : SUBSET Ids]]
         /\ call'[c].read \in IF call'[c].op = "list" THEN Progress ELSE Rows
         /\ call'[c].op # "list" => DOMAIN call'[c].read = {}
         /\ CallOf(c)' /\ (call'[c].pc = "page" => PageOf(c)')
<1>1. PICK r \in workload.requests :
        LET own == r.op \in Batches /\ tx[c] = <<>> IN
        /\ call' = [call EXCEPT ![c] =
             [pc |-> IF r.op = "list" THEN "page" ELSE IF own THEN "begin" ELSE "find",
              no |-> Issued + 1, own |-> own, read |-> IF r.op = "list" THEN FirstPage ELSE <<>>,
              op |-> r.op, items |-> r.items, validateOnly |-> r.validateOnly, size |-> r.size]]
        /\ outcome' = [outcome EXCEPT ![Issued + 1].status = "running"]
  BY DEF Call
<1> DEFINE own == r.op \in Batches /\ tx[c] = <<>>
           pc == IF r.op = "list" THEN "page" ELSE IF own THEN "begin" ELSE "find"
           read == IF r.op = "list" THEN FirstPage ELSE <<>>
           no == Issued + 1
           new == [pc |-> pc, no |-> no, own |-> own, read |-> read, op |-> r.op,
                   items |-> r.items, validateOnly |-> r.validateOnly, size |-> r.size]
<1>2. call' = [call EXCEPT ![c] = new] /\ outcome' = [outcome EXCEPT ![no].status = "running"]
  BY <1>1
<1>3. r \in Request /\ workload.calls <= MaxCalls /\ workload.calls \in Nat
  BY InputAssumption, RepositoryAssumption DEF IInv, TypeInv, Workload
<1>4. /\ r.op \in Operations /\ r.items \in Seq(RequestItem) /\ r.validateOnly \in BOOLEAN
      /\ r.size \in Nat \ {0}
      /\ r.op \in Singles => Len(r.items) = 1
      /\ r.op \in Creates \cup {"batchUpdate"} => \A k \in DOMAIN r.items : r.items[k].query.id # None
  BY <1>3 DEF Request, Operations
<1>5. no \in Calls /\ outcome[no].status = "none" /\ call[c] = Idle
  <2>1. Issued < workload.calls /\ call[c] = Idle
    BY DEF Call
  <2> QED BY <1>3, <2>1, IssuedIs, RepositoryAssumption DEF Calls
<1>6. FirstPage \in Progress /\ <<>> \in Rows
  BY NoRows, EmptySeq DEF FirstPage, Progress
<1>7. pc \in Stages /\ own \in BOOLEAN /\ read \in Rows \cup Progress
      /\ read \in IF r.op = "list" THEN Progress ELSE Rows
  BY <1>6 DEF Stages
<1>8. /\ pc \in {"page", "begin", "find"} /\ (pc = "begin" <=> r.op \in Batches /\ tx[c] = <<>>)
      /\ pc = "page" <=> r.op = "list"
      /\ own => r.op \in Batches
      /\ r.op = "list" => read = FirstPage
      /\ r.op # "list" => read = <<>>
  BY DEF Batches
<1>9. \A k \in DOMAIN r.items : r.items[k].query.id \in Ids \cup {None}
  <2> TAKE k \in DOMAIN r.items
  <2>1. r.items[k] \in RequestItem
    BY <1>4, ElementOfSeq, LenProperties
  <2> QED BY <2>1 DEF RequestItem
<1> HIDE DEF pc, own, read, no
<1>10. new \in Running
  BY <1>4, <1>5, <1>7 DEF Running
<1>11. call \in [Callers -> {Idle} \cup Running]
       /\ outcome \in [Calls -> [status : Statuses, wrote : SUBSET Ids, told : SUBSET Ids]]
  BY DEF IInv, TypeInv
<1>12. /\ call' \in [Callers -> {Idle} \cup Running] /\ call'[c] = new
       /\ \A d \in Callers : d # c => call'[d] = call[d]
  BY <1>2, <1>10, <1>11
<1>13. /\ outcome' \in [Calls -> [status : Statuses, wrote : SUBSET Ids, told : SUBSET Ids]]
       /\ outcome'[no].status = "running"
       /\ \A k \in Calls : outcome'[k].wrote = outcome[k].wrote /\ outcome'[k].told = outcome[k].told
       /\ \A k \in Calls : k # no => outcome'[k] = outcome[k]
  BY <1>2, <1>5, <1>11 DEF Statuses
<1>14. /\ call'[c].pc = pc /\ call'[c].no = no /\ call'[c].own = own /\ call'[c].read = read
       /\ call'[c].op = r.op /\ call'[c].items = r.items /\ call'[c] \in Running
  BY <1>10, <1>12
<1>15. call'[c] # Idle
  BY <1>8, <1>14 DEF Idle
<1>16. Starts(c)
  BY <1>5, <1>8, <1>12, <1>13, <1>14, <1>15 DEF Starts, OthersCalls
<1>17. UNCHANGED <<engine, workload, tx>>
  BY DEF Call
<1>18. CallOf(c)'
  BY <1>4, <1>8, <1>9, <1>14, <1>17 DEF CallOf
<1>19. call'[c].pc = "page" => PageOf(c)'
  BY <1>8, <1>14 DEF PageOf, FirstPage
<1>20. call'[c].op # "list" => DOMAIN call'[c].read = {}
  BY <1>8, <1>14
<1>21. call'[c].read \in IF call'[c].op = "list" THEN Progress ELSE Rows
  BY <1>7, <1>14
<1>22. call'[c].no = Issued + 1
  BY <1>14 DEF no
<1> QED BY <1>13, <1>16, <1>18, <1>19, <1>20, <1>21, <1>22

\* As many rows as items, each asked for by its identifier: no item asks twice.
LEMMA EachItemIsFound ==
  ASSUME NEW items \in Seq(RequestItem), NEW found,
         found \subseteq {items[k].query.id : k \in DOMAIN items},
         ~ (Cardinality(found) < Len(items))
  PROVE  /\ \A k \in DOMAIN items : items[k].query.id \in found
         /\ \A j, k \in DOMAIN items : items[j].query.id = items[k].query.id => j = k
<1> DEFINE n == Len(items)
           f == [k \in 1 .. n |-> items[k].query.id]
           T == {items[k].query.id : k \in 1 .. n}
<1>1. n \in Nat /\ DOMAIN items = 1 .. n
  BY LenProperties
<1>2. IsFiniteSet(1 .. n) /\ Cardinality(1 .. n) = n
  BY <1>1, FS_Interval
<1>3. f \in Surjection(1 .. n, T)
  BY DEF Surjection
<1>4. /\ IsFiniteSet(T) /\ Cardinality(T) <= n
      /\ Cardinality(T) = n <=> f \in Injection(1 .. n, T)
  BY <1>2, <1>3, FS_Surjection
<1>5. found \in SUBSET T
  BY <1>1
<1>6. /\ IsFiniteSet(found) /\ Cardinality(found) <= Cardinality(T)
      /\ Cardinality(T) = Cardinality(found) => T = found
  <2> HIDE DEF T
  <2> QED BY <1>4, <1>5, FS_Subset
<1>7. Cardinality(found) \in Nat /\ Cardinality(T) \in Nat
  BY <1>4, <1>6, FS_CardinalityType
<1>8. Cardinality(T) = n /\ Cardinality(T) = Cardinality(found)
  <2> HIDE DEF T
  <2> QED BY <1>1, <1>4, <1>6, <1>7
<1>9. T = found /\ f \in Injection(1 .. n, T)
  BY <1>4, <1>6, <1>8
<1>10. \A j, k \in 1 .. n : f[j] = f[k] => j = k
  <2> HIDE DEF f, T
  <2> QED BY <1>9 DEF Injection, IsInjective
<1> QED BY <1>1, <1>9, <1>10

\* A call that has written nothing fails or returns.
Settles(c) ==
  /\ call[c].pc \notin Late \cup {"begin"}
  /\ outcome' \in [Calls -> [status : Statuses, wrote : SUBSET Ids, told : SUBSET Ids]]
  /\ \/ tx[c] = <<>> /\ Ends(c, "rejected")
     \/ tx[c] # <<>> /\ GoesTo(c, "failing")
     \/ call[c].own /\ tx[c] # <<>> /\ GoesTo(c, "commit")
     \/ Ends(c, "ok")

LEMMA SettlesIf ==
  ASSUME IInv, NEW c \in Callers, call[c].pc \in {"find", "write", "page", "listed"},
         Fail(c) \/ Return(c)
  PROVE  Settles(c)
<1>1. call[c] # Idle /\ call[c].pc # "idle" /\ call[c].pc \notin Late \cup {"begin"}
  BY CallFacts DEF IInv, Late
<1>2. call[c].own => tx[c] # <<>>
  BY <1>1 DEF IInv, CallInv, CallOf, Late
<1>3. CASE Fail(c)
  BY <1>1, <1>3, FailDoes DEF Settles
<1>4. CASE Return(c)
  BY <1>1, <1>2, <1>4, ReturnDoes DEF Settles
<1> QED BY <1>3, <1>4

\* What a call has read when it goes on to write.
GoesToWrite(c) ==
  /\ Goes(c) /\ call[c].pc = "find" /\ call'[c].pc = "write"
  /\ call[c].op \notin Reads
  /\ call'[c].read \in Rows
  /\ \/ call[c].op \in Creates /\ call'[c].read = call[c].read
     \/ \A i \in DOMAIN call'[c].read : call'[c].read[i] = View(c)[i]
  /\ call[c].op = "update" => \E i \in Ids : DOMAIN call'[c].read = {i}
  /\ call[c].op = "batchUpdate" =>
       /\ \A k \in DOMAIN call[c].items : call[c].items[k].query.id \in DOMAIN call'[c].read
       /\ \A j, k \in DOMAIN call[c].items :
            call[c].items[j].query.id = call[c].items[k].query.id => j = k

LEMMA FindDoes ==
  ASSUME IInv, NEW c \in Callers, Find(c)
  PROVE  /\ call[c].pc = "find"
         /\ snap' = [snap EXCEPT ![c] = SnapshotOf(c)]
         /\ Settles(c) \/ GoesToWrite(c)
<1> DEFINE view  == View(c)
           found == Found(call[c].items, view)
           items == call[c].items
<1>1. call[c].pc = "find" /\ snap' = [snap EXCEPT ![c] = SnapshotOf(c)]
  BY DEF Find
<1>2. /\ TypeInv /\ call[c].pc # "idle" /\ call[c] # Idle /\ call[c] \in Running
      /\ call \in [Callers -> {Idle} \cup Running]
  BY <1>1, CallingFacts DEF IInv, TypeInv
<1>3. call[c].op # "list" /\ call[c].read \in Rows /\ CallOf(c)
  <2>1. CallOf(c) BY <1>2 DEF IInv, CallInv
  <2>2. call[c].op # "list" BY <1>1, <2>1 DEF CallOf
  <2> QED BY <1>2, <2>1, <2>2, ReadFacts
<1>4. CASE Fail(c) \/ Return(c)
  BY <1>1, <1>4, SettlesIf
<1>5. CASE /\ call[c].op \in Creates
           /\ call' = [call EXCEPT ![c].pc = "write"] /\ UNCHANGED outcome
  <2>1. GoesTo(c, "write")
    <3>1. "write" \in Stages /\ outcome' = outcome BY <1>5 DEF Stages
    <3> QED BY <1>2, <1>5, <3>1, GoesIf
  <2> QED BY <1>1, <1>3, <1>5, <2>1 DEF GoesToWrite, GoesTo, Creates, Reads
<1>6. ASSUME call[c].op \notin Creates, ~ Missing(c, found), call[c].op \notin Reads,
             UNCHANGED outcome,
             NEW rows \in IF call[c].op \in Batches THEN {found} ELSE {{i} : i \in found},
             call' = [call EXCEPT ![c].pc = "write", ![c].read = [i \in rows |-> view[i]]]
      PROVE  GoesToWrite(c)
  <2> DEFINE read == [i \in rows |-> view[i]]
  <2>1. found \subseteq Ids
    BY DEF Found
  <2>2. view \in [Ids -> Row]
    BY <1>2, ViewFacts
  <2> HIDE DEF found, view
  <2>3. rows \subseteq Ids
    BY <1>6, <2>1
  <2>4. read \in Rows /\ DOMAIN read = rows /\ \A i \in rows : read[i] = view[i]
    BY <2>2, <2>3, RowsAre
  <2> HIDE DEF read
  <2>5. call' = [call EXCEPT ![c] = [call[c] EXCEPT !.pc = "write", !.read = read]]
    BY <1>2, <1>6 DEF read
  <2>6. [call[c] EXCEPT !.pc = "write", !.read = read] \in Running
    BY <1>2, <2>4 DEF Running, Stages
  <2>7. /\ call' \in [Callers -> {Idle} \cup Running]
        /\ \A d \in Callers : d # c => call'[d] = call[d]
        /\ call'[c] = [call[c] EXCEPT !.pc = "write", !.read = read] /\ call'[c] \in Running
    BY <1>2, <2>5, <2>6
  <2>8. /\ call'[c].pc = "write" /\ call'[c].read = read
        /\ call'[c].no = call[c].no /\ call'[c].op = call[c].op /\ call'[c].own = call[c].own
        /\ call'[c].items = call[c].items /\ call'[c].size = call[c].size
    BY <1>2, <2>7 DEF Running
  <2>9. Goes(c)
    <3>1. call'[c] # Idle BY <2>8 DEF Idle
    <3>2. OthersCalls(c) BY <2>7 DEF OthersCalls
    <3>3. outcome' = outcome BY <1>6
    <3> QED BY <1>2, <2>7, <2>8, <3>1, <3>2, <3>3 DEF Goes, Stays
  <2>10. call[c].op = "update" => \E i \in Ids : rows = {i}
    BY <1>6, <2>1 DEF Batches
  <2>11. ASSUME call[c].op = "batchUpdate"
         PROVE  /\ \A k \in DOMAIN items : items[k].query.id \in rows
                /\ \A j, k \in DOMAIN items : items[j].query.id = items[k].query.id => j = k
    <3>1. rows = found
      BY <1>6, <2>11 DEF Batches
    <3>2. \A k \in DOMAIN items : items[k].query.id # None
      <4>1. \A k \in DOMAIN items : items[k].query.id \in Ids BY <1>3, <2>11 DEF CallOf
      <4> QED BY <4>1, InputAssumption
    <3>3. found \subseteq {items[k].query.id : k \in DOMAIN items}
      BY <3>2 DEF found, Found, Matches
    <3>4. ~ (Cardinality(found) < Len(items))
      BY <1>6 DEF Missing
    <3>5. items \in Seq(RequestItem)
      BY <1>2, CallingFacts
    <3> HIDE DEF items
    <3> QED BY <3>1, <3>3, <3>4, <3>5, EachItemIsFound
  <2> QED BY <1>1, <1>6, <2>4, <2>8, <2>9, <2>10, <2>11 DEF GoesToWrite, view
<1>7. \/ Fail(c) \/ Return(c)
      \/ call[c].op \in Creates /\ call' = [call EXCEPT ![c].pc = "write"] /\ UNCHANGED outcome
      \/ /\ call[c].op \notin Creates /\ ~ Missing(c, found) /\ call[c].op \notin Reads
         /\ UNCHANGED outcome
         /\ \E rows \in IF call[c].op \in Batches THEN {found} ELSE {{i} : i \in found} :
              call' = [call EXCEPT ![c].pc = "write", ![c].read = [i \in rows |-> view[i]]]
  <2> HIDE DEF Fail, Return
  <2> QED BY Zenon DEF Find
<1> QED BY <1>1, <1>4, <1>5, <1>6, <1>7

\* The numbers of a finite set can be put in order.
LEMMA OrderExists ==
  ASSUME NEW S \in SUBSET Nat, IsFiniteSet(S)
  PROVE  \E s \in [1 .. Cardinality(S) -> S] : \A j, k \in DOMAIN s : j < k => s[j] < s[k]
<1> DEFINE Ordered(T) ==
             \E s \in [1 .. Cardinality(T) -> T] : \A j, k \in DOMAIN s : j < k => s[j] < s[k]
           Bad == {n \in Nat : \E T \in SUBSET Nat :
                     IsFiniteSet(T) /\ Cardinality(T) = n /\ ~ Ordered(T)}
<1>1. SUFFICES ASSUME ~ Ordered(S) PROVE FALSE
  OBVIOUS
<1>2. Bad # {} /\ Bad \in SUBSET Nat
  <2>1. Cardinality(S) \in Nat BY FS_CardinalityType
  <2> HIDE DEF Ordered
  <2> QED BY <1>1, <2>1
<1>3. PICK n \in Bad : \A m \in Bad : n <= m
  <2> HIDE DEF Bad
  <2> QED BY <1>2, LeastNumber
<1>4. PICK T \in SUBSET Nat : IsFiniteSet(T) /\ Cardinality(T) = n /\ ~ Ordered(T)
  BY <1>3
<1>5. T # {}
  <2>1. Ordered({})
    <3>1. Cardinality({}) = 0 BY FS_EmptySet
    <3>2. 1 .. 0 = {} OBVIOUS
    <3>3. [i \in {} |-> i] \in [{} -> {}] OBVIOUS
    <3> QED BY <3>1, <3>2, <3>3
  <2> HIDE DEF Ordered
  <2> QED BY <1>4, <2>1
<1>6. PICK m \in T : \A k \in T : m <= k
  BY <1>5, LeastNumber
<1> DEFINE U == T \ {m}
<1>7. IsFiniteSet(U) /\ Cardinality(U) = n - 1 /\ n \in Nat \ {0} /\ U \in SUBSET Nat
  <2>1. IsFiniteSet(U) /\ Cardinality(U) = n - 1
    BY <1>4, <1>6, FS_RemoveElement
  <2>2. Cardinality(U) \in Nat /\ n \in Nat
    BY <1>4, <2>1, FS_CardinalityType
  <2> QED BY <2>1, <2>2
<1>8. Ordered(U)
  <2> HIDE DEF Ordered, U
  <2>1. ~ Ordered(U) => n - 1 \in Bad
    BY <1>7
  <2>2. n - 1 \notin Bad
    <3> HIDE DEF Bad
    <3> QED BY <1>2, <1>3, <1>7
  <2> QED BY <2>1, <2>2
<1>9. PICK s \in [1 .. n - 1 -> U] : \A j, k \in 1 .. n - 1 : j < k => s[j] < s[k]
  BY <1>7, <1>8
<1> DEFINE t == [k \in 1 .. n |-> IF k = 1 THEN m ELSE s[k - 1]]
<1>10. t \in [1 .. n -> T]
  <2>1. \A k \in 1 .. n : k = 1 \/ k - 1 \in 1 .. n - 1
    BY <1>7
  <2> QED BY <1>6, <1>9, <2>1
<1>11. ASSUME NEW j \in 1 .. n, NEW k \in 1 .. n, j < k
       PROVE  t[j] < t[k]
  <2>1. k - 1 \in 1 .. n - 1 /\ t[k] = s[k - 1] /\ s[k - 1] \in U
    BY <1>7, <1>9, <1>11
  <2>2. CASE j = 1
    <3>1. m \in Nat /\ s[k - 1] \in Nat /\ m <= s[k - 1] /\ m # s[k - 1]
      BY <1>6, <1>7, <2>1
    <3> QED BY <2>1, <2>2, <3>1
  <2>3. CASE j # 1
    <3>1. j - 1 \in 1 .. n - 1 /\ t[j] = s[j - 1] /\ j - 1 < k - 1
      BY <1>7, <1>11, <2>3
    <3> QED BY <1>9, <2>1, <3>1
  <2> QED BY <2>2, <2>3
<1>12. Ordered(T)
  <2>1. DOMAIN t = 1 .. n OBVIOUS
  <2> HIDE DEF t
  <2> QED BY <1>4, <1>10, <1>11, <2>1
<1> QED BY <1>4, <1>12

LEMMA ListedIs ==
  ASSUME NEW view
  PROVE  Listed(view) \in Seq(Ids)
<1> DEFINE live == {i \in Ids : view[i].live}
<1>1. live \in SUBSET Nat /\ live \subseteq Ids /\ IsFiniteSet(live)
  BY RepositoryAssumption, FS_Subset
<1>2. Listed(view) = CHOOSE s \in [1 .. Cardinality(live) -> live] :
                       \A j, k \in DOMAIN s : j < k => s[j] < s[k]
  BY DEF Listed
<1> HIDE DEF live
<1>3. \E s \in [1 .. Cardinality(live) -> live] : \A j, k \in DOMAIN s : j < k => s[j] < s[k]
  BY <1>1, OrderExists
<1>4. Listed(view) \in [1 .. Cardinality(live) -> live] /\ Cardinality(live) \in Nat
  BY <1>1, <1>2, <1>3, FS_CardinalityType
<1>5. Listed(view) \in [1 .. Cardinality(live) -> Ids]
  BY <1>1, <1>4
<1> QED BY <1>4, <1>5, SeqDef

LEMMA ReadBackDoes ==
  ASSUME IInv, NEW c \in Callers, ReadBack(c)
  PROVE  /\ call[c].pc = "readback" /\ snap' = [snap EXCEPT ![c] = SnapshotOf(c)]
         /\ outcome' \in [Calls -> [status : Statuses, wrote : SUBSET Ids, told : SUBSET Ids]]
         /\ \/ tx[c] = <<>> /\ \E status \in {"ok", "unseen"} : Ends(c, status)
            \/ tx[c] # <<>> /\ (Ends(c, "tentative") \/ GoesTo(c, "failing"))
            \/ tx[c] # <<>> /\ call[c].own /\ GoesTo(c, "commit")
<1>1. call[c].pc = "readback" /\ snap' = [snap EXCEPT ![c] = SnapshotOf(c)]
  BY DEF ReadBack
<1>2. call[c] # Idle /\ call[c].pc # "idle" /\ TypeInv
  BY <1>1, CallFacts DEF IInv
<1>3. engine = "mysql"
  BY <1>1, <1>2 DEF IInv, CallInv, CallOf
<1>4. WriteStatus(c) = IF tx[c] = <<>> THEN "ok" ELSE "tentative"
  <2>1. Owners(c) = IF tx[c] = <<>> THEN {} ELSE {c}
    BY <1>3 DEF Owners
  <2> QED BY <2>1 DEF WriteStatus
<1>5. CASE AfterError(c)
  BY <1>1, <1>2, <1>5, AfterErrorDoes
<1>6. CASE call' = [call EXCEPT ![c] = Idle] /\ outcome' = Ended({call[c].no}, WriteStatus(c))
  <2>1. WriteStatus(c) \in Statuses
    BY <1>4 DEF Statuses
  <2>2. Ends(c, WriteStatus(c)) /\ outcome' \in [Calls -> [status : Statuses, wrote : SUBSET Ids, told : SUBSET Ids]]
    BY <1>2, <1>6, <2>1, EndsIf
  <2> QED BY <1>1, <1>4, <2>2
<1>7. CASE call[c].own /\ call' = [call EXCEPT ![c].pc = "commit"] /\ UNCHANGED outcome
  <2>1. tx[c] # <<>> BY <1>1, <1>2, <1>7 DEF IInv, CallInv, CallOf
  <2>2. GoesTo(c, "commit") BY <1>2, <1>7, GoesIf DEF Stages
  <2>3. outcome' \in [Calls -> [status : Statuses, wrote : SUBSET Ids, told : SUBSET Ids]]
    BY <1>2, <1>7 DEF TypeInv
  <2> QED BY <1>1, <1>7, <2>1, <2>2, <2>3
<1> QED BY <1>5, <1>6, <1>7 DEF ReadBack

LEMMA StatementFailsDoes ==
  ASSUME IInv, NEW c \in Callers, StatementFails(c)
  PROVE  /\ outcome' \in [Calls -> [status : Statuses, wrote : SUBSET Ids, told : SUBSET Ids]]
         /\ used' \in [transactions : 0 .. workload.transactions, failures : 0 .. workload.failures]
         /\ \/ Settles(c)
            \/ call[c].pc = "readback" /\ tx[c] = <<>> /\ Ends(c, "unseen")
            \/ call[c].pc = "readback" /\ tx[c] # <<>> /\ GoesTo(c, "failing")
<1>1. used' \in [transactions : 0 .. workload.transactions, failures : 0 .. workload.failures]
  <2>1. used \in [transactions : 0 .. workload.transactions, failures : 0 .. workload.failures]
    BY DEF IInv, TypeInv
  <2>2. used' = used \/ (used.failures < workload.failures /\ used' = [used EXCEPT !.failures = @ + 1])
    BY DEF StatementFails
  <2>3. workload.failures \in Nat
    BY InputAssumption DEF IInv, TypeInv, Workload
  <2> QED BY <2>1, <2>2, <2>3
<1>2. call[c].pc \in {"find", "write", "readback", "page"}
  BY DEF StatementFails
<1>3. call[c].pc # "idle"
  BY <1>2
<1>4. CASE call[c].pc = "readback"
  <2>1. AfterError(c) BY <1>4 DEF StatementFails
  <2> QED BY <1>1, <1>3, <1>4, <2>1, AfterErrorDoes
<1>5. CASE call[c].pc # "readback"
  <2>1. Fail(c) BY <1>5 DEF StatementFails
  <2>2. Settles(c) BY <1>2, <1>5, <2>1, SettlesIf
  <2> QED BY <1>1, <2>2 DEF Settles
<1> QED BY <1>4, <1>5

LEMMA PageDoes ==
  ASSUME IInv, NEW c \in Callers, Page(c)
  PROVE  /\ call[c].pc = "page" /\ snap' = [snap EXCEPT ![c] = SnapshotOf(c)]
         /\ Goes(c) /\ call[c].op = "list" /\ call'[c].read \in Progress
         /\ call'[c].pc \in {"page", "listed"} /\ PageOf(c)'
<1> DEFINE size == call[c].size
           seen == call[c].read
           all  == Listed(View(c))
           off  == seen.offset
           last == off + size
           high == IF last < Len(all) THEN last + 1 ELSE Len(all)
           rows == SubSeq(all, off + 1, high)
           more == Len(rows) > size
           pc   == IF more THEN "page" ELSE "listed"
           got  == seen.got \o IF more THEN SubSeq(rows, 1, size) ELSE rows
           stable == seen.stable /\ seen.all \in {None, all}
           read == [offset |-> NextOffset(off, size), all |-> all, stable |-> stable, got |-> got]
<1>1. /\ call[c].pc = "page" /\ snap' = [snap EXCEPT ![c] = SnapshotOf(c)]
      /\ outcome' = outcome
      /\ call' = [call EXCEPT ![c].pc = pc, ![c].read = read]
  BY DEF Page
<1>2. /\ call[c] # Idle /\ call[c].pc # "idle" /\ call[c] \in Running
      /\ call \in [Callers -> {Idle} \cup Running]
  BY <1>1, CallFacts DEF IInv, TypeInv
<1>3. call[c].op = "list" /\ PageOf(c)
  BY <1>1, <1>2 DEF IInv, CallInv, CallOf, PageInv
<1>4. seen \in Progress
  BY <1>2, <1>3 DEF IInv, TypeInv
<1>5. /\ off \in Nat /\ size \in Nat \ {0} /\ seen.got \in Seq(Ids)
      /\ seen.all \in {None} \cup Seq(Ids) /\ seen.stable \in BOOLEAN
  BY <1>2, <1>4 DEF Progress, Running
<1>6. all \in Seq(Ids) /\ all # None /\ Len(all) \in Nat /\ \A i \in 1 .. Len(all) : all[i] \in Ids
  BY ListedIs, InputAssumption, LenProperties, ElementOfSeq
<1>7. seen.stable =>
        \/ seen.all = None /\ off = 0 /\ seen.got = <<>>
        \/ seen.all # None /\ off <= Len(seen.all) /\ seen.got = SubSeq(seen.all, 1, off)
  BY <1>1, <1>3 DEF PageOf
<1> HIDE DEF all, size, seen, off
<1>8. high \in Nat /\ last \in Nat /\ \A i \in off + 1 .. high : all[i] \in Ids
  BY <1>5, <1>6
<1>9. rows \in Seq(Ids) /\ Len(rows) = IF off + 1 <= high THEN high - off ELSE 0
  <2>1. off + 1 \in Int /\ high \in Int /\ \A i \in off + 1 .. high : all[i] \in Ids
    BY <1>5, <1>8
  <2> HIDE DEF high
  <2>2. /\ rows \in Seq(Ids)
        /\ Len(rows) = IF off + 1 <= high THEN high - (off + 1) + 1 ELSE 0
    BY <2>1, SubSeqProperties
  <2> QED BY <1>5, <2>1, <2>2
<1>10. more => SubSeq(rows, 1, size) \in Seq(Ids)
  <2>1. ASSUME more PROVE \A i \in 1 .. size : rows[i] \in Ids
    <3> HIDE DEF rows
    <3>1. Len(rows) \in Nat /\ \A i \in 1 .. Len(rows) : rows[i] \in Ids
      BY <1>9, LenProperties, ElementOfSeq
    <3> QED BY <1>5, <2>1, <3>1
  <2>2. 1 \in Int /\ size \in Int
    BY <1>5
  <2> HIDE DEF rows
  <2> QED BY <2>1, <2>2, SubSeqProperties
<1>11. got \in Seq(Ids)
  <2>1. (IF more THEN SubSeq(rows, 1, size) ELSE rows) \in Seq(Ids)
    BY <1>9, <1>10
  <2> QED BY <1>5, <2>1, ConcatProperties
<1>12. more <=> last < Len(all)
  BY <1>5, <1>6, <1>8, <1>9
<1>13. NextOffset(off, size) = last
  BY DEF NextOffset
<1>14. ASSUME stable
       PROVE  IF more THEN last <= Len(all) /\ got = SubSeq(all, 1, last) ELSE got = all
  <2>1. off <= Len(all) /\ seen.got = SubSeq(all, 1, off)
    <3>1. CASE seen.all = None /\ off = 0 /\ seen.got = <<>>
      <4>1. SubSeq(all, 1, 0) = <<>> BY SubSeqEmpty
      <4> QED BY <1>6, <3>1, <4>1
    <3>2. CASE seen.all # None /\ off <= Len(seen.all) /\ seen.got = SubSeq(seen.all, 1, off)
      BY <1>14, <3>2
    <3> QED BY <1>7, <1>14, <3>1, <3>2
  <2>2. CASE more
    <3>1. last < Len(all) /\ high = last + 1
      BY <1>12, <2>2
    <3>2. SubSeq(rows, 1, size) = SubSeq(all, off + 1, last)
      <4>1. /\ off + 1 \in 1 .. Len(all) /\ last + 1 \in 1 .. Len(all)
            /\ 1 \in 1 .. (last + 1) - (off + 1) + 1 /\ size \in 1 .. (last + 1) - (off + 1) + 1
        BY <1>5, <1>6, <3>1
      <4>2. SubSeq(SubSeq(all, off + 1, last + 1), 1, size) =
              SubSeq(all, (off + 1) + 1 - 1, (off + 1) + size - 1)
        <5> DEFINE i == off + 1
                   j == last + 1
        <5>1. i \in 1 .. Len(all) /\ j \in 1 .. Len(all) /\ 1 \in 1 .. j - i + 1 /\ size \in 1 .. j - i + 1
          BY <4>1
        <5> HIDE DEF i, j
        <5>2. SubSeq(SubSeq(all, i, j), 1, size) = SubSeq(all, i + 1 - 1, i + size - 1)
          BY <1>6, <5>1, SubSeqOfSubSeq
        <5> QED BY <5>2 DEF i, j
      <4>3. (off + 1) + 1 - 1 = off + 1 /\ (off + 1) + size - 1 = last
        BY <1>5
      <4> QED BY <3>1, <4>2, <4>3
    <3>3. SubSeq(all, 1, off) \o SubSeq(all, off + 1, last) = SubSeq(all, 1, last)
      <4>1. /\ 1 \in 1 .. Len(all) + 1 /\ off \in 1 - 1 .. Len(all)
            /\ last \in off .. Len(all)
        BY <1>5, <1>6, <2>1, <3>1
      <4> HIDE DEF last
      <4> QED BY <1>6, <4>1, ConcatAdjacentSubSeq
    <3>4. got = seen.got \o SubSeq(rows, 1, size)
      BY <2>2
    <3>5. last <= Len(all)
      BY <1>6, <1>8, <3>1
    <3> HIDE DEF got, rows, last, more
    <3> QED BY <2>1, <2>2, <3>2, <3>3, <3>4, <3>5
  <2>3. CASE ~ more
    <3>1. high = Len(all)
      BY <1>12, <2>3
    <3>2. got = seen.got \o SubSeq(all, off + 1, Len(all))
      BY <2>3, <3>1
    <3>3. SubSeq(all, 1, off) \o SubSeq(all, off + 1, Len(all)) = SubSeq(all, 1, Len(all))
      <4>1. /\ 1 \in 1 .. Len(all) + 1 /\ off \in 1 - 1 .. Len(all)
            /\ Len(all) \in off .. Len(all)
        BY <1>5, <1>6, <2>1
      <4> QED BY <1>6, <4>1, ConcatAdjacentSubSeq
    <3>4. SubSeq(all, 1, Len(all)) = all
      BY <1>6, SubSeqFull
    <3> HIDE DEF got, rows, more
    <3> QED BY <2>1, <2>3, <3>2, <3>3, <3>4
  <2> QED BY <2>2, <2>3
<1>15. stable \in BOOLEAN /\ read \in Progress
  <2>1. stable \in BOOLEAN BY <1>5
  <2> HIDE DEF stable, got
  <2> QED BY <1>6, <1>8, <1>11, <1>13, <2>1 DEF Progress
<1>16. /\ read.stable = stable /\ read.all = all /\ read.offset = last /\ read.got = got
       /\ pc \in Stages /\ pc \in {"page", "listed"} /\ (pc = "page" <=> more)
  BY <1>13 DEF Stages
<1> HIDE DEF read, pc
<1>17. call' = [call EXCEPT ![c] = [call[c] EXCEPT !.pc = pc, !.read = read]]
  BY <1>1, <1>2
<1>18. [call[c] EXCEPT !.pc = pc, !.read = read] \in Running
  BY <1>2, <1>15, <1>16 DEF Running
<1>19. /\ call' \in [Callers -> {Idle} \cup Running]
       /\ \A d \in Callers : d # c => call'[d] = call[d]
       /\ call'[c] = [call[c] EXCEPT !.pc = pc, !.read = read] /\ call'[c] \in Running
  BY <1>2, <1>17, <1>18
<1>20. /\ call'[c].pc = pc /\ call'[c].read = read
       /\ call'[c].no = call[c].no /\ call'[c].op = call[c].op /\ call'[c].own = call[c].own
       /\ call'[c].items = call[c].items /\ call'[c].size = call[c].size
  BY <1>2, <1>19, Zenon DEF Running, size
<1>21. call'[c] # Idle
  BY <1>16, <1>20 DEF Idle
<1>22. Goes(c)
  BY <1>1, <1>2, <1>19, <1>20, <1>21, Zenon DEF Goes, Stays, OthersCalls
<1>23. PageOf(c)'
  <2> HIDE DEF more, last, got, stable
  <2> QED BY <1>6, <1>14, <1>16, <1>20 DEF PageOf
<1> QED BY <1>1, <1>3, <1>15, <1>16, <1>20, <1>22, <1>23

-------------------------------------------------------------------------------
(* Steps that neither write nor open or end a transaction.                   *)

Quiet(c) ==
  /\ UNCHANGED <<engine, workload, table, tx>>
  /\ outcome' \in [Calls -> [status : Statuses, wrote : SUBSET Ids, told : SUBSET Ids]]
  /\ \/ Starts(c)
     \/ Goes(c) /\ (call[c].pc \in Late => call'[c].pc \in Late)
     \/ call[c].pc \notin Late /\ \E status \in {"ok", "rejected"} : Ends(c, status)
     \/ call[c].pc = "readback" /\ tx[c] = <<>> /\ \E status \in {"ok", "unseen"} : Ends(c, status)
     \/ call[c].pc = "readback" /\ tx[c] # <<>> /\ Ends(c, "tentative")

LEMMA SettlesQuietly ==
  ASSUME NEW c, Settles(c), UNCHANGED <<engine, workload, table, tx>>
  PROVE  Quiet(c)
BY DEF Settles, Quiet, GoesTo, Late

LEMMA QuietSteps ==
  ASSUME IInv, NEW c \in Callers,
         \/ Call(c) \/ Find(c) \/ ReadBack(c) \/ StatementFails(c) \/ Page(c) \/ ListReturns(c)
         \/ BeginFails(c) \/ (Write(c) /\ Fail(c) /\ UNCHANGED <<table, tx>>)
  PROVE  Quiet(c)
<1>1. outcome \in [Calls -> [status : Statuses, wrote : SUBSET Ids, told : SUBSET Ids]]
  BY DEF IInv, TypeInv
<1>2. CASE Call(c)
  <2>1. UNCHANGED <<engine, workload, table, tx>> BY <1>2 DEF Call
  <2> QED BY <1>2, <2>1, CallDoes DEF Quiet
<1>3. CASE Find(c)
  <2>1. UNCHANGED <<engine, workload, table, tx>> BY <1>3 DEF Find
  <2>2. CASE Settles(c) BY <2>1, <2>2, SettlesQuietly
  <2>3. CASE GoesToWrite(c)
    BY <1>1, <2>1, <2>3 DEF GoesToWrite, Goes, Stays, Quiet, Late
  <2> QED BY <1>3, <2>1, <2>2, <2>3, FindDoes
<1>4. CASE ReadBack(c)
  <2>1. UNCHANGED <<engine, workload, table, tx>> BY <1>4 DEF ReadBack
  <2> QED BY <1>4, <2>1, ReadBackDoes DEF Quiet, GoesTo, Late
<1>5. CASE StatementFails(c)
  <2>1. UNCHANGED <<engine, workload, table, tx>> BY <1>5 DEF StatementFails
  <2> QED BY <1>5, <2>1, StatementFailsDoes, SettlesQuietly DEF Quiet, GoesTo, Late
<1>6. CASE Page(c)
  <2>1. UNCHANGED <<engine, workload, table, tx>> BY <1>6 DEF Page
  <2> QED BY <1>1, <1>6, <2>1, PageDoes DEF Quiet, Goes, Stays, Late
<1>7. CASE ListReturns(c)
  <2>1. UNCHANGED <<engine, workload, table, tx>> /\ Return(c) /\ call[c].pc = "listed"
    BY <1>7 DEF ListReturns
  <2> QED BY <2>1, SettlesIf, SettlesQuietly
<1>8. CASE BeginFails(c)
  <2>1. UNCHANGED <<engine, workload, table, tx>> /\ Fail(c) /\ call[c].pc = "begin"
    BY <1>8 DEF BeginFails
  <2>2. call[c].pc # "idle" /\ call[c].pc \notin Late BY <2>1 DEF Late
  <2> QED BY <2>1, <2>2, FailDoes DEF Quiet, GoesTo, Late
<1>9. CASE Write(c) /\ Fail(c) /\ UNCHANGED <<table, tx>>
  <2>1. UNCHANGED <<engine, workload, table, tx>> /\ Fail(c) /\ call[c].pc = "write"
    BY <1>9 DEF Write
  <2> QED BY <2>1, SettlesIf, SettlesQuietly
<1> QED BY <1>2, <1>3, <1>4, <1>5, <1>6, <1>7, <1>8, <1>9

CoreInv == LockInv /\ HistInv /\ WrittenInv /\ SavedInv /\ LevelInv /\ SurviveInv

LEMMA QuietCore ==
  ASSUME IInv, NEW c \in Callers, Quiet(c)
  PROVE  CoreInv'
<1>0. TypeInv /\ engine' = engine /\ workload' = workload /\ table' = table /\ tx' = tx
  BY DEF IInv, Quiet
<1> DEFINE n == IF call[c] # Idle THEN call[c].no ELSE call'[c].no
<1>1. OthersCalls(c)
  BY DEF Quiet, Starts, Goes, Stays, Ends
<1>2. n \in Calls
  BY <1>1, CallFacts DEF Quiet, Starts, Goes, Stays, Ends, OthersCalls, Running, IInv
<1>3. \A k \in Calls : k # n => outcome'[k] = outcome[k]
  BY DEF Quiet, Starts, Goes, Stays, Ends
<1>4. \A k \in Calls : outcome'[k].wrote = outcome[k].wrote
  BY DEF Quiet, Starts, Goes, Stays, Ends
<1>5. \A d \in Callers : d # c /\ call[d] # Idle => call[d].no \in Calls /\ call[d].no # n
  <2> TAKE d \in Callers
  <2>1. ASSUME d # c, call[d] # Idle PROVE call[d].no \in Calls /\ call[d].no # n
    <3>1. call[d].no \in Calls /\ outcome[call[d].no].status = "running"
      BY <2>1, CallFacts DEF IInv, NumberInv, Running
    <3>2. CASE call[c] # Idle
      BY <2>1, <3>1, <3>2 DEF IInv, NumberInv
    <3>3. CASE call[c] = Idle
      BY <3>1, <3>3 DEF Quiet, Starts, Goes, Stays, Ends
    <3> QED BY <3>2, <3>3
  <2> QED BY <2>1
<1>6. \A k \in Calls : Unseen(k) <=> Unseen(k)'
  BY <1>0 DEF Unseen
<1>7. call[c] # Idle => outcome[n].status = "running"
  BY DEF IInv, NumberInv
<1> HIDE DEF n
<1>8. LockInv'
  <2>1. \A d \in Callers : Touched(d)' = Touched(d)
    BY <1>0 DEF Touched
  <2> QED BY <1>0, <2>1 DEF IInv, LockInv
<1>9. LevelInv'
  BY <1>0 DEF IInv, LevelInv
<1>10. HistInv'
  <2>1. SUFFICES ASSUME NEW k \in Calls, outcome'[k].status \in {"none", "rejected", "undone"}
                 PROVE  Unseen(k)
    BY <1>6 DEF HistInv
  <2>2. CASE k # n
    BY <1>3, <2>1, <2>2 DEF IInv, HistInv
  <2>3. CASE k = n /\ Starts(c)
    BY <1>2, <2>1, <2>3 DEF Starts, n
  <2>4. CASE k = n /\ Goes(c)
    BY <1>7, <2>1, <2>4 DEF Goes, Stays
  <2>5. ASSUME k = n, NEW status, Ends(c, status), call[c].pc \notin Late
        PROVE  Unseen(k)
    BY <2>5 DEF IInv, WrittenInv, Ends, n, Late
  <2>6. ASSUME k = n, NEW status \in {"ok", "unseen", "tentative"}, Ends(c, status)
        PROVE  FALSE
    BY <2>1, <2>6 DEF Ends, n
  <2> QED BY <2>2, <2>3, <2>4, <2>5, <2>6 DEF Quiet
<1>11. WrittenInv'
  <2>1. SUFFICES ASSUME NEW d \in Callers, call'[d] # Idle
                 PROVE  \/ Unseen(call'[d].no)
                        \/ /\ call'[d].pc \in Late
                           /\ tx[d] # <<>> => call'[d].no \in tx[d][Len(tx[d])].calls
    <3>1. \A d \in Callers : call'[d] # Idle => call'[d].no \in Calls
      BY <1>1 DEF OthersCalls, Running
    <3> QED BY <1>0, <1>6, <3>1 DEF WrittenInv, Late
  <2>2. CASE d # c
    BY <1>1, <2>1, <2>2 DEF IInv, WrittenInv, OthersCalls, Late
  <2>3. CASE d = c /\ Starts(c)
    BY <2>3, <1>2 DEF IInv, HistInv, Starts, n
  <2>4. CASE d = c /\ Goes(c) /\ (call[c].pc \in Late => call'[c].pc \in Late)
    BY <2>4 DEF IInv, WrittenInv, Goes, Stays, Late
  <2> QED BY <2>1, <2>2, <2>3, <2>4 DEF Quiet, Ends
<1>12. SavedInv'
  <2>1. ASSUME NEW d \in Callers, NEW l \in DOMAIN tx[d], NEW k \in tx[d][l].calls
        PROVE  outcome'[k].status \in {"running", "tentative", "guest"}
    <3>1. outcome[k].status \in {"running", "tentative", "guest"} /\ k \in Calls
      BY TxFacts, <1>0 DEF IInv, SavedInv
    <3>2. CASE k # n
      BY <1>3, <3>1, <3>2
    <3>3. CASE k = n /\ Starts(c)
      BY <3>3 DEF Starts, n
    <3>4. CASE k = n /\ Goes(c)
      BY <3>1, <3>4 DEF Goes, Stays
    <3>5. ASSUME k = n, call[c] # Idle
          PROVE  d = c /\ tx[c] # <<>> /\ call[c].pc \in Late
      <4>1. d = c /\ call[c].pc \in Late
        BY <3>5 DEF IInv, SavedInv, n, Late
      <4>2. tx[c] # <<>>
        <5>1. Len(tx[c]) \in Nat /\ l \in 1 .. Len(tx[c]) BY <1>0, <4>1, TxFacts
        <5>2. Len(tx[c]) # 0 BY <5>1
        <5> QED BY <1>0, <5>2, TxFacts
      <4> QED BY <4>1, <4>2
    <3>6. CASE k = n /\ Ends(c, "tentative")
      BY <3>6 DEF Ends, n
    <3> QED BY <3>2, <3>3, <3>4, <3>5, <3>6 DEF Quiet, Ends
  <2>2. ASSUME NEW d \in Callers, NEW e \in Callers, NEW l \in DOMAIN tx[d],
               call'[e] # Idle, call'[e].no \in tx[d][l].calls
        PROVE  d = e /\ l = Len(tx[e]) /\ call'[e].pc \in Late
    <3>1. CASE e # c
      BY <1>1, <2>2, <3>1 DEF IInv, SavedInv, OthersCalls, Late
    <3>2. CASE e = c /\ Starts(c)
      <4>1. outcome[call'[c].no].status = "none" BY <3>2 DEF Starts
      <4>2. outcome[call'[c].no].status \in {"running", "tentative", "guest"}
        BY <2>2, <3>2 DEF IInv, SavedInv
      <4> QED BY <4>1, <4>2
    <3>3. CASE e = c /\ Goes(c) /\ (call[c].pc \in Late => call'[c].pc \in Late)
      BY <2>2, <3>3 DEF IInv, SavedInv, Goes, Stays, Late
    <3> QED BY <2>2, <3>1, <3>2, <3>3 DEF Quiet, Ends
  <2>3. \A d, e \in Callers : \A l \in DOMAIN tx[d], j \in DOMAIN tx[e] :
          \A k \in tx[d][l].calls : k \in tx[e][j].calls => d = e /\ l = j
    BY DEF IInv, SavedInv
  <2>4. \A d \in Callers : \A l \in DOMAIN tx[d] : \A k \in tx[d][l].calls :
          outcome'[k].status \in {"running", "tentative", "guest"}
    BY <2>1
  <2>5. \A e, d \in Callers : \A l \in DOMAIN tx[d] :
          call'[e] # Idle /\ call'[e].no \in tx[d][l].calls =>
            d = e /\ l = Len(tx[e]) /\ call'[e].pc \in Late
    BY <2>2
  <2> QED BY <1>0, <2>3, <2>4, <2>5 DEF SavedInv, Late
<1>13. SurviveInv'
  <2>1. SUFFICES ASSUME NEW k \in Calls, NEW i \in outcome[k].wrote,
                        outcome'[k].status \in {"ok", "running", "tentative", "guest"}
                 PROVE  outcome[k].status \in {"ok", "running", "tentative", "guest"}
    BY <1>0, <1>4 DEF IInv, SurviveInv
  <2>2. CASE k # n
    BY <1>3, <2>1, <2>2
  <2>3. CASE k = n /\ call[c] # Idle
    BY <1>7, <2>3
  <2>4. CASE k = n /\ Starts(c)
    BY <2>1, <2>4 DEF IInv, NumberInv, Starts, n
  <2> QED BY <2>2, <2>3, <2>4 DEF Quiet, Goes, Stays, Ends
<1> QED BY <1>8, <1>9, <1>10, <1>11, <1>12, <1>13 DEF CoreInv

-------------------------------------------------------------------------------
(* BEGIN and SAVEPOINT.                                                      *)

Begins(c) ==
  /\ UNCHANGED <<engine, workload, table, outcome>>
  /\ tx' = [tx EXCEPT ![c] = Append(tx[c], Savepoint)]
  /\ engine = "sqlite" => \A d \in Callers : d # c => tx[d] = <<>>
  /\ OthersCalls(c)
  /\ call[c].pc \in {"idle", "begin"}
  /\ \/ call'[c] = Idle
     \/ Goes(c)

LEMMA BeginSteps ==
  ASSUME IInv, NEW c \in Callers, BeginBatch(c) \/ Transaction(c)
  PROVE  Begins(c)
<1>1. call \in [Callers -> {Idle} \cup Running] /\ tx[c] \in Seq(Savepoints)
  BY DEF IInv, TypeInv
<1>2. ASSUME Begin(c)
      PROVE  /\ tx' = [tx EXCEPT ![c] = Append(tx[c], Savepoint)]
             /\ engine = "sqlite" => \A d \in Callers : d # c => tx[d] = <<>>
             /\ UNCHANGED <<engine, workload, table>>
  <2>1. Append(<<>>, Savepoint) = <<Savepoint>>
    OBVIOUS
  <2> QED BY <1>2, <2>1 DEF Begin
<1>3. CASE BeginBatch(c)
  <2>1. GoesTo(c, "find")
    <3>1. call[c] # Idle BY <1>3, CallFacts DEF BeginBatch, IInv
    <3>2. "find" \in Stages /\ call' = [call EXCEPT ![c].pc = "find"] /\ outcome' = outcome
      BY <1>3 DEF BeginBatch, Stages
    <3> QED BY <3>1, <3>2, GoesIf
  <2> QED BY <1>2, <1>3, <2>1 DEF BeginBatch, Begins, GoesTo, Goes, Stays
<1>4. CASE Transaction(c)
  <2>1. call[c] = Idle /\ call[c].pc = "idle" /\ call' = call /\ outcome' = outcome
    BY <1>4 DEF Transaction, Idle
  <2>2. OthersCalls(c) /\ call'[c] = Idle
    BY <1>1, <2>1 DEF OthersCalls
  <2>3. CASE Begin(c)
    BY <1>2, <2>1, <2>2, <2>3 DEF Begins
  <2>4. CASE /\ tx[c] # <<>> /\ engine # "mongodb"
             /\ tx' = [tx EXCEPT ![c] = Append(@, Savepoint)]
             /\ UNCHANGED <<engine, workload, table, snap, leased>>
    <3>1. engine = "sqlite" => \A d \in Callers : d # c => tx[d] = <<>>
      BY <2>4 DEF IInv, LockInv
    <3> QED BY <2>1, <2>2, <2>4, <3>1 DEF Begins
  <2> QED BY <1>4, <2>3, <2>4 DEF Transaction
<1> QED BY <1>3, <1>4

LEMMA BeginTx ==
  ASSUME IInv, NEW c \in Callers, Begins(c)
  PROVE  /\ tx' \in [Callers -> Seq(Savepoints)]
         /\ \A d \in Callers : d # c => tx'[d] = tx[d]
         /\ Len(tx'[c]) = Len(tx[c]) + 1 /\ tx'[c] # <<>>
         /\ DOMAIN tx'[c] = 1 .. Len(tx[c]) + 1
         /\ DOMAIN tx[c] = 1 .. Len(tx[c]) /\ Len(tx[c]) \in Nat
         /\ \A l \in DOMAIN tx'[c] :
              \/ l \in DOMAIN tx[c] /\ tx'[c][l] = tx[c][l]
              \/ l = Len(tx[c]) + 1 /\ tx'[c][l].undo = <<>> /\ tx'[c][l].calls = {}
         /\ \A d \in Callers : \A l \in DOMAIN tx'[d] : \A k \in tx'[d][l].calls :
              l \in DOMAIN tx[d] /\ k \in tx[d][l].calls
         /\ \A d \in Callers : \A l \in DOMAIN tx'[d] : \A i \in DOMAIN tx'[d][l].undo :
              l \in DOMAIN tx[d] /\ tx'[d][l] = tx[d][l]
         /\ \A d \in Callers : \A l \in DOMAIN tx[d] : l \in DOMAIN tx'[d] /\ tx'[d][l] = tx[d][l]
<1>1. tx \in [Callers -> Seq(Savepoints)] /\ TypeInv
  BY DEF IInv, TypeInv
<1>2. tx[c] \in Seq(Savepoints) /\ Savepoint \in Savepoints /\ Len(tx[c]) \in Nat
  BY <1>1, NoRows, LenProperties
<1>3. /\ Append(tx[c], Savepoint) \in Seq(Savepoints)
      /\ Len(Append(tx[c], Savepoint)) = Len(tx[c]) + 1
      /\ \A l \in 1 .. Len(tx[c]) : Append(tx[c], Savepoint)[l] = tx[c][l]
      /\ Append(tx[c], Savepoint)[Len(tx[c]) + 1] = Savepoint
  BY <1>2, AppendProperties
<1>4. /\ tx' \in [Callers -> Seq(Savepoints)] /\ tx'[c] = Append(tx[c], Savepoint)
      /\ \A d \in Callers : d # c => tx'[d] = tx[d]
  BY <1>1, <1>3 DEF Begins
<1>5. DOMAIN tx'[c] = 1 .. Len(tx[c]) + 1 /\ DOMAIN tx[c] = 1 .. Len(tx[c])
  BY <1>2, <1>3, <1>4, LenProperties
<1>6. tx'[c] # <<>>
  BY <1>2, <1>3, <1>4, EmptySeq
<1>7. \A l \in DOMAIN tx'[c] :
        \/ l \in DOMAIN tx[c] /\ tx'[c][l] = tx[c][l]
        \/ l = Len(tx[c]) + 1 /\ tx'[c][l].undo = <<>> /\ tx'[c][l].calls = {}
  BY <1>2, <1>3, <1>4, <1>5 DEF Savepoint
<1>8. \A l \in DOMAIN tx[c] : l \in DOMAIN tx'[c] /\ tx'[c][l] = tx[c][l]
  BY <1>2, <1>3, <1>4, <1>5
<1>9. DOMAIN <<>> = {} /\ ~ \E x : x \in {}
  OBVIOUS
<1>10. \A l \in DOMAIN tx'[c] :
         /\ \A k \in tx'[c][l].calls : l \in DOMAIN tx[c] /\ tx'[c][l] = tx[c][l]
         /\ \A i \in DOMAIN tx'[c][l].undo : l \in DOMAIN tx[c] /\ tx'[c][l] = tx[c][l]
  BY <1>7, <1>9
<1> QED BY <1>2, <1>3, <1>4, <1>5, <1>6, <1>7, <1>8, <1>10

LEMMA BeginCore ==
  ASSUME IInv, NEW c \in Callers, Begins(c)
  PROVE  CoreInv'
<1>0. /\ TypeInv /\ engine' = engine /\ workload' = workload /\ table' = table /\ outcome' = outcome
      /\ OthersCalls(c)
  BY DEF IInv, Begins
<1>1. /\ \A d \in Callers : d # c => tx'[d] = tx[d]
      /\ \A d \in Callers : \A l \in DOMAIN tx'[d] : \A k \in tx'[d][l].calls :
           l \in DOMAIN tx[d] /\ k \in tx[d][l].calls
      /\ \A d \in Callers : \A l \in DOMAIN tx'[d] : \A i \in DOMAIN tx'[d][l].undo :
           l \in DOMAIN tx[d] /\ tx'[d][l] = tx[d][l]
      /\ \A d \in Callers : \A l \in DOMAIN tx[d] : l \in DOMAIN tx'[d] /\ tx'[d][l] = tx[d][l]
  BY BeginTx
<1>2. \A d \in Callers : Touched(d)' = Touched(d)
  <2> TAKE d \in Callers
  <2>1. Touched(d)' = UNION {DOMAIN tx'[d][k].undo : k \in DOMAIN tx'[d]}
    BY DEF Touched
  <2>2. Touched(d) = UNION {DOMAIN tx[d][k].undo : k \in DOMAIN tx[d]}
    BY DEF Touched
  <2> QED BY <1>1, <2>1, <2>2
<1>3. \A k \in Calls : Unseen(k) <=> Unseen(k)'
  <2> TAKE k \in Calls
  <2>1. Unseen(k) => Unseen(k)'
    BY <1>0, <1>1 DEF Unseen
  <2>2. Unseen(k)' => Unseen(k)
    BY <1>0, <1>1 DEF Unseen
  <2> QED BY <2>1, <2>2
<1>4. LockInv'
  <2>1. ASSUME NEW d \in Callers, NEW e \in Callers, d # e, engine = "sqlite"
        PROVE  tx'[d] = <<>> \/ tx'[e] = <<>>
    BY <1>1, <2>1 DEF Begins
  <2> QED BY <1>0, <1>2, <2>1 DEF IInv, LockInv
<1>5. HistInv'
  BY <1>0, <1>3 DEF IInv, HistInv
<1>6. /\ call[c].pc \notin Late
      /\ call'[c] = Idle \/ Goes(c)
  BY DEF Begins, Late
<1>7. WrittenInv'
  <2>1. SUFFICES ASSUME NEW d \in Callers, call'[d] # Idle
                 PROVE  \/ Unseen(call'[d].no)
                        \/ /\ call'[d].pc \in Late
                           /\ tx'[d] # <<>> => call'[d].no \in tx'[d][Len(tx'[d])].calls
    <3>1. \A d \in Callers : call'[d] # Idle => call'[d].no \in Calls
      BY <1>0 DEF OthersCalls, Running
    <3> QED BY <1>0, <1>3, <3>1 DEF WrittenInv, Late
  <2>2. CASE d # c
    BY <1>0, <1>1, <2>1, <2>2 DEF IInv, WrittenInv, OthersCalls, Late
  <2>3. CASE d = c
    BY <1>6, <2>1, <2>3 DEF IInv, WrittenInv, Goes, Stays, Late
  <2> QED BY <2>2, <2>3
<1>8. SavedInv'
  <2>1. \A d \in Callers : \A l \in DOMAIN tx'[d] : \A k \in tx'[d][l].calls :
          outcome'[k].status \in {"running", "tentative", "guest"}
    BY <1>0, <1>1 DEF IInv, SavedInv
  <2>2. ASSUME NEW d \in Callers, NEW e \in Callers, NEW l \in DOMAIN tx'[d],
               call'[e] # Idle, call'[e].no \in tx'[d][l].calls
        PROVE  d = e /\ l = Len(tx'[e]) /\ call'[e].pc \in Late
    <3>1. l \in DOMAIN tx[d] /\ call'[e].no \in tx[d][l].calls
      BY <1>1, <2>2
    <3>2. CASE e # c
      BY <1>0, <1>1, <2>2, <3>1, <3>2 DEF IInv, SavedInv, OthersCalls, Late
    <3>3. CASE e = c
      BY <1>6, <2>2, <3>1, <3>3 DEF IInv, SavedInv, Goes, Stays, Late
    <3> QED BY <3>2, <3>3
  <2>3. \A d, e \in Callers : \A l \in DOMAIN tx'[d], j \in DOMAIN tx'[e] :
          \A k \in tx'[d][l].calls : k \in tx'[e][j].calls => d = e /\ l = j
    BY <1>1 DEF IInv, SavedInv
  <2>4. \A e, d \in Callers : \A l \in DOMAIN tx'[d] :
          call'[e] # Idle /\ call'[e].no \in tx'[d][l].calls =>
            d = e /\ l = Len(tx'[e]) /\ call'[e].pc \in Late
    BY <2>2
  <2> QED BY <2>1, <2>3, <2>4 DEF SavedInv, Late
<1>9. LevelInv'
  <2>1. ASSUME NEW e \in Callers, NEW j \in DOMAIN tx'[e], NEW k \in tx'[e][j].calls
        PROVE  /\ \A i \in Ids : k \in By(table[i]) => i \in DOMAIN tx'[e][j].undo
               /\ \A d \in Callers : \A l \in DOMAIN tx'[d] : \A i \in DOMAIN tx'[d][l].undo :
                    k \in By(tx'[d][l].undo[i]) => d = e /\ l > j /\ i \in DOMAIN tx'[e][j].undo
    <3>1. j \in DOMAIN tx[e] /\ k \in tx[e][j].calls /\ tx'[e][j] = tx[e][j]
      BY <1>1, <2>1
    <3>2. \A i \in Ids : k \in By(table[i]) => i \in DOMAIN tx[e][j].undo
      BY <3>1 DEF IInv, LevelInv
    <3>3. \A d \in Callers : \A l \in DOMAIN tx[d] : \A i \in DOMAIN tx[d][l].undo :
            k \in By(tx[d][l].undo[i]) => d = e /\ l > j /\ i \in DOMAIN tx[e][j].undo
      BY <3>1 DEF IInv, LevelInv
    <3> QED BY <1>1, <3>1, <3>2, <3>3
  <2>2. table' = table BY <1>0
  <2> QED BY <2>1, <2>2, Zenon DEF LevelInv, By
<1>10. SurviveInv'
  <2>1. ASSUME NEW k \in Calls, outcome[k].status \in {"ok", "running", "tentative", "guest"},
               NEW i \in outcome[k].wrote
        PROVE  /\ k \in By(table[i])
               /\ \A d \in Callers : \A l \in DOMAIN tx'[d] :
                    i \in DOMAIN tx'[d][l].undo =>
                      \/ k \in By(tx'[d][l].undo[i])
                      \/ \E j \in DOMAIN tx'[d] : j >= l /\ k \in tx'[d][j].calls
    <3>1. /\ k \in By(table[i])
          /\ \A d \in Callers : \A l \in DOMAIN tx[d] :
               i \in DOMAIN tx[d][l].undo =>
                 \/ k \in By(tx[d][l].undo[i])
                 \/ \E j \in DOMAIN tx[d] : j >= l /\ k \in tx[d][j].calls
      BY <2>1 DEF IInv, SurviveInv
    <3> QED BY <1>1, <3>1
  <2> QED BY <1>0, <2>1, Zenon DEF SurviveInv, By
<1> QED BY <1>4, <1>5, <1>7, <1>8, <1>9, <1>10 DEF CoreInv

-------------------------------------------------------------------------------
(* COMMIT.                                                                   *)

Acknowledged(c) == tx[c][1].calls \cup (IF call[c] = Idle THEN {} ELSE {call[c].no})

LEMMA CommitDoes ==
  ASSUME IInv, NEW c \in Callers, Commit(c)
  PROVE  /\ UNCHANGED <<engine, workload, table>> /\ OthersCalls(c) /\ call'[c] = Idle
         /\ outcome' \in [Calls -> [status : Statuses, wrote : SUBSET Ids, told : SUBSET Ids]]
         /\ \A k \in Calls :
              /\ outcome'[k].wrote = outcome[k].wrote /\ outcome'[k].told = outcome[k].told
              /\ k \in Acknowledged(c) => outcome'[k].status = "ok"
              /\ k \notin Acknowledged(c) => outcome'[k] = outcome[k]
         /\ 1 \in DOMAIN tx[c] /\ Len(tx[c]) = 1 /\ DOMAIN tx[c] = {1} /\ tx[c] # <<>>
         /\ tx' \in [Callers -> Seq(Savepoints)] /\ tx'[c] = <<>> /\ DOMAIN tx'[c] = {}
         /\ \A d \in Callers : d # c => tx'[d] = tx[d]
         /\ Acknowledged(c) \subseteq Calls
<1>1. /\ TypeInv /\ tx \in [Callers -> Seq(Savepoints)]
      /\ call \in [Callers -> {Idle} \cup Running]
  BY DEF IInv, TypeInv
<1>2. /\ UNCHANGED <<engine, workload, table>> /\ outcome' = Ended(Acknowledged(c), "ok")
      /\ call' = [call EXCEPT ![c] = Idle] /\ tx' = [tx EXCEPT ![c] = <<>>] /\ Len(tx[c]) = 1
  BY DEF Commit, Acknowledged
<1>3. OthersCalls(c) /\ call'[c] = Idle
  BY <1>1, <1>2 DEF OthersCalls
<1>4. /\ outcome' \in [Calls -> [status : Statuses, wrote : SUBSET Ids, told : SUBSET Ids]]
      /\ \A k \in Calls :
           /\ outcome'[k].wrote = outcome[k].wrote /\ outcome'[k].told = outcome[k].told
           /\ k \in Acknowledged(c) => outcome'[k].status = "ok"
           /\ k \notin Acknowledged(c) => outcome'[k] = outcome[k]
  <2>1. "ok" \in Statuses BY DEF Statuses
  <2> QED BY <1>1, <1>2, <2>1, EndedIs
<1>5. DOMAIN tx[c] = {1} /\ tx[c] # <<>>
  <2>1. DOMAIN tx[c] = 1 .. 1 BY <1>1, <1>2, TxFacts
  <2>2. DOMAIN <<>> = {} /\ 1 \in 1 .. 1 OBVIOUS
  <2>3. tx[c] # <<>> BY <2>1, <2>2
  <2> QED BY <2>1, <2>3
<1>6. /\ tx' \in [Callers -> Seq(Savepoints)] /\ tx'[c] = <<>> /\ DOMAIN tx'[c] = {}
      /\ \A d \in Callers : d # c => tx'[d] = tx[d]
  <2>1. <<>> \in Seq(Savepoints) /\ DOMAIN <<>> = {} BY EmptySeq
  <2> QED BY <1>1, <1>2, <2>1
<1>7. Acknowledged(c) \subseteq Calls
  <2>1. call[c] # Idle => call[c].no \in Calls BY <1>1 DEF Running
  <2>2. tx[c][1].calls \subseteq Calls BY <1>1, <1>5, TxFacts
  <2> QED BY <2>1, <2>2 DEF Acknowledged
<1> QED BY <1>2, <1>3, <1>4, <1>5, <1>6, <1>7

LEMMA AcknowledgedAre ==
  ASSUME IInv, NEW c \in Callers, 1 \in DOMAIN tx[c], NEW k \in Acknowledged(c)
  PROVE  /\ outcome[k].status \in {"running", "tentative", "guest"}
         /\ \A d \in Callers : \A l \in DOMAIN tx[d] : k \in tx[d][l].calls => d = c
         /\ \A d \in Callers : call[d] # Idle /\ call[d].no = k => d = c
<1>1. CASE k \in tx[c][1].calls
  BY <1>1 DEF IInv, SavedInv
<1>2. CASE call[c] # Idle /\ k = call[c].no
  BY <1>2 DEF IInv, SavedInv, NumberInv
<1> QED BY <1>1, <1>2 DEF Acknowledged

LEMMA CommitCore ==
  ASSUME IInv, NEW c \in Callers, Commit(c)
  PROVE  CoreInv'
<1>0. TypeInv
  BY DEF IInv
<1>1. /\ engine' = engine /\ workload' = workload /\ table' = table /\ OthersCalls(c) /\ call'[c] = Idle
      /\ \A k \in Calls :
           /\ outcome'[k].wrote = outcome[k].wrote
           /\ k \in Acknowledged(c) => outcome'[k].status = "ok"
           /\ k \notin Acknowledged(c) => outcome'[k] = outcome[k]
      /\ 1 \in DOMAIN tx[c] /\ DOMAIN tx[c] = {1}
      /\ tx'[c] = <<>> /\ DOMAIN tx'[c] = {}
      /\ \A d \in Callers : d # c => tx'[d] = tx[d]
  BY CommitDoes
<1>2. \A d \in Callers : \A l \in DOMAIN tx'[d] : d # c /\ tx'[d] = tx[d] /\ l \in DOMAIN tx[d]
  BY <1>1
<1>3. \A k \in Acknowledged(c) :
        /\ outcome[k].status \in {"running", "tentative", "guest"}
        /\ \A d \in Callers : \A l \in DOMAIN tx[d] : k \in tx[d][l].calls => d = c
        /\ \A d \in Callers : call[d] # Idle /\ call[d].no = k => d = c
  BY <1>1, AcknowledgedAre
<1>4. \A k \in Calls : Unseen(k) => Unseen(k)'
  BY <1>1, <1>2 DEF Unseen
<1>5. LockInv'
  <2>1. \A d \in Callers : d # c => Touched(d)' = Touched(d)
    BY <1>1 DEF Touched
  <2>2. Touched(c)' = {}
    BY <1>1 DEF Touched
  <2> QED BY <1>1, <2>1, <2>2 DEF IInv, LockInv
<1>6. HistInv'
  <2>1. SUFFICES ASSUME NEW k \in Calls, outcome'[k].status \in {"none", "rejected", "undone"}
                 PROVE  Unseen(k)
    BY <1>4 DEF HistInv
  <2>2. k \notin Acknowledged(c)
    BY <1>1, <2>1
  <2> QED BY <1>1, <2>1, <2>2 DEF IInv, HistInv
<1>7. WrittenInv'
  <2>1. SUFFICES ASSUME NEW d \in Callers, call'[d] # Idle
                 PROVE  \/ Unseen(call'[d].no)
                        \/ /\ call'[d].pc \in Late
                           /\ tx'[d] # <<>> => call'[d].no \in tx'[d][Len(tx'[d])].calls
    <3>1. \A d \in Callers : call'[d] # Idle => call'[d].no \in Calls
      BY <1>1 DEF OthersCalls, Running
    <3> QED BY <1>4, <3>1 DEF WrittenInv, Late
  <2>2. d # c BY <1>1, <2>1
  <2> QED BY <1>1, <2>1, <2>2 DEF IInv, WrittenInv, OthersCalls, Late
<1>8. SavedInv'
  <2>1. ASSUME NEW d \in Callers, NEW l \in DOMAIN tx'[d], NEW k \in tx'[d][l].calls
        PROVE  outcome'[k].status \in {"running", "tentative", "guest"}
    <3>1. d # c /\ l \in DOMAIN tx[d] /\ k \in tx[d][l].calls
      BY <1>2, <2>1
    <3>2. k \in Calls /\ outcome[k].status \in {"running", "tentative", "guest"}
      BY <1>0, <3>1, TxFacts DEF IInv, SavedInv
    <3>3. k \notin Acknowledged(c)
      BY <1>3, <3>1
    <3> QED BY <1>1, <3>2, <3>3
  <2>2. ASSUME NEW d \in Callers, NEW e \in Callers, NEW l \in DOMAIN tx'[d],
               call'[e] # Idle, call'[e].no \in tx'[d][l].calls
        PROVE  d = e /\ l = Len(tx'[e]) /\ call'[e].pc \in Late
    <3>1. e # c /\ call'[e] = call[e] /\ tx'[e] = tx[e]
      BY <1>1, <2>2 DEF OthersCalls
    <3>2. d # c /\ tx'[d] = tx[d]
      BY <1>2, <2>2
    <3> QED BY <2>2, <3>1, <3>2 DEF IInv, SavedInv, Late
  <2>3. \A d, e \in Callers : \A l \in DOMAIN tx'[d], j \in DOMAIN tx'[e] :
          \A k \in tx'[d][l].calls : k \in tx'[e][j].calls => d = e /\ l = j
    BY <1>2 DEF IInv, SavedInv
  <2>4. \A e, d \in Callers : \A l \in DOMAIN tx'[d] :
          call'[e] # Idle /\ call'[e].no \in tx'[d][l].calls =>
            d = e /\ l = Len(tx'[e]) /\ call'[e].pc \in Late
    BY <2>2
  <2> QED BY <2>1, <2>3, <2>4 DEF SavedInv, Late
<1>9. LevelInv'
  <2>1. ASSUME NEW e \in Callers, NEW j \in DOMAIN tx'[e], NEW k \in tx'[e][j].calls
        PROVE  /\ \A i \in Ids : k \in By(table[i]) => i \in DOMAIN tx'[e][j].undo
               /\ \A d \in Callers : \A l \in DOMAIN tx'[d] : \A i \in DOMAIN tx'[d][l].undo :
                    k \in By(tx'[d][l].undo[i]) => d = e /\ l > j /\ i \in DOMAIN tx'[e][j].undo
    <3>1. j \in DOMAIN tx[e] /\ k \in tx[e][j].calls /\ tx'[e] = tx[e]
      BY <1>2, <2>1
    <3>2. \A i \in Ids : k \in By(table[i]) => i \in DOMAIN tx[e][j].undo
      BY <3>1 DEF IInv, LevelInv
    <3>3. \A d \in Callers : \A l \in DOMAIN tx[d] : \A i \in DOMAIN tx[d][l].undo :
            k \in By(tx[d][l].undo[i]) => d = e /\ l > j /\ i \in DOMAIN tx[e][j].undo
      BY <3>1 DEF IInv, LevelInv
    <3> QED BY <1>2, <3>1, <3>2, <3>3
  <2>2. table' = table BY <1>1
  <2> QED BY <2>1, <2>2, Zenon DEF LevelInv, By
<1>10. SurviveInv'
  <2>1. ASSUME NEW k \in Calls, outcome'[k].status \in {"ok", "running", "tentative", "guest"},
               NEW i \in outcome'[k].wrote
        PROVE  /\ k \in By(table[i])
               /\ \A d \in Callers : \A l \in DOMAIN tx'[d] :
                    i \in DOMAIN tx'[d][l].undo =>
                      \/ k \in By(tx'[d][l].undo[i])
                      \/ \E j \in DOMAIN tx'[d] : j >= l /\ k \in tx'[d][j].calls
    <3>1. outcome[k].status \in {"ok", "running", "tentative", "guest"} /\ i \in outcome[k].wrote
      <4>1. CASE k \in Acknowledged(c) BY <1>1, <1>3, <2>1, <4>1
      <4>2. CASE k \notin Acknowledged(c) BY <1>1, <2>1, <4>2
      <4> QED BY <4>1, <4>2
    <3>2. /\ k \in By(table[i])
          /\ \A d \in Callers : \A l \in DOMAIN tx[d] :
               i \in DOMAIN tx[d][l].undo =>
                 \/ k \in By(tx[d][l].undo[i])
                 \/ \E j \in DOMAIN tx[d] : j >= l /\ k \in tx[d][j].calls
      BY <3>1 DEF IInv, SurviveInv
    <3> QED BY <1>2, <3>2
  <2>2. table' = table BY <1>1
  <2> QED BY <2>1, <2>2, Zenon DEF SurviveInv, By
<1> QED BY <1>5, <1>6, <1>7, <1>8, <1>9, <1>10 DEF CoreInv

-------------------------------------------------------------------------------
(* RELEASE SAVEPOINT.                                                        *)

LEMMA ReleaseDoes ==
  ASSUME IInv, NEW c \in Callers, Release(c)
  PROVE  /\ UNCHANGED <<engine, workload, table, call, outcome>> /\ call[c] = Idle
         /\ tx' \in [Callers -> Seq(Savepoints)]
         /\ \A d \in Callers : d # c => tx'[d] = tx[d]
         /\ \E m \in Nat \ {0} :
              /\ Len(tx[c]) = m + 1 /\ Len(tx'[c]) = m
              /\ DOMAIN tx[c] = 1 .. m + 1 /\ DOMAIN tx'[c] = 1 .. m
              /\ \A l \in 1 .. m : l # m => tx'[c][l] = tx[c][l]
              /\ tx'[c][m].calls = tx[c][m].calls \cup tx[c][m + 1].calls
              /\ DOMAIN tx'[c][m].undo = DOMAIN tx[c][m].undo \cup DOMAIN tx[c][m + 1].undo
              /\ \A i \in DOMAIN tx'[c][m].undo :
                   tx'[c][m].undo[i] = IF i \in DOMAIN tx[c][m].undo THEN tx[c][m].undo[i]
                                       ELSE tx[c][m + 1].undo[i]
<1>1. /\ TypeInv /\ tx \in [Callers -> Seq(Savepoints)] /\ tx[c] \in Seq(Savepoints)
  BY DEF IInv, TypeInv
<1> DEFINE n == Len(tx[c])
           m == n - 1
           outer == Front(tx[c])
           inner == Last(tx[c])
           merged == [undo |-> Over(outer[m].undo, inner.undo), calls |-> outer[m].calls \cup inner.calls]
<1>2. Len(tx[c]) > 1 /\ call[c] = Idle /\ UNCHANGED <<engine, workload, table, call, outcome>>
  BY DEF Release
<1>3. tx[c] # <<>>
  BY <1>1, <1>2, EmptySeq
<1>4. /\ n \in Nat \ {0} /\ inner = tx[c][n] /\ inner \in Savepoints
      /\ outer \in Seq(Savepoints) /\ Len(outer) = m
      /\ DOMAIN tx[c] = 1 .. n /\ DOMAIN outer = 1 .. m
      /\ \A i \in 1 .. m : outer[i] = tx[c][i]
  BY <1>1, <1>3, FrontAndLast
<1>5. m \in Nat \ {0} /\ m \in 1 .. m /\ n = m + 1
  BY <1>2, <1>4
<1>6. tx' = [tx EXCEPT ![c] = [outer EXCEPT ![m] = merged]]
  <2>1. Len(outer) = m BY <1>4
  <2> QED BY <2>1 DEF Release
<1> HIDE DEF outer, inner, n
<1>7. /\ outer[m] \in Savepoints /\ outer[m] = tx[c][m]
      /\ outer[m].undo \in Rows /\ inner.undo \in Rows
      /\ outer[m].calls \subseteq Calls /\ inner.calls \subseteq Calls
  <2>1. outer[m] = tx[c][m] BY <1>4, <1>5
  <2>2. outer[m] \in Savepoints BY <1>4, <1>5, ElementOfSeq
  <2> QED BY <1>4, <2>1, <2>2 DEF Savepoints
<1> DEFINE both == Over(outer[m].undo, inner.undo)
<1>8. /\ DOMAIN both = DOMAIN outer[m].undo \cup DOMAIN inner.undo
      /\ \A i \in DOMAIN both : both[i] = IF i \in DOMAIN outer[m].undo THEN outer[m].undo[i] ELSE inner.undo[i]
  BY DEF Over
<1>9. both \in Rows
  <2>1. both = [i \in DOMAIN both |-> both[i]] BY DEF Over
  <2>2. /\ DOMAIN outer[m].undo \subseteq Ids /\ DOMAIN inner.undo \subseteq Ids
        /\ \A i \in DOMAIN outer[m].undo : outer[m].undo[i] \in Row
        /\ \A i \in DOMAIN inner.undo : inner.undo[i] \in Row
    BY <1>7, RowsAre
  <2> HIDE DEF both
  <2> QED BY <1>8, <2>1, <2>2, RowsAre
<1>10. merged.undo = both /\ merged.calls = outer[m].calls \cup inner.calls /\ merged \in Savepoints
  BY <1>7, <1>9 DEF Savepoints
<1> HIDE DEF merged, both
<1> DEFINE new == [outer EXCEPT ![m] = merged]
<1>11. /\ new \in Seq(Savepoints) /\ Len(new) = m
       /\ new[m] = merged /\ \A l \in 1 .. m : l # m => new[l] = outer[l]
  <2>1. m \in 1 .. Len(outer) BY <1>4, <1>5
  <2> HIDE DEF m
  <2>2. new \in Seq(Savepoints) /\ Len(new) = Len(outer)
    BY <1>4, <1>10, <2>1, ExceptSeq
  <2> QED BY <1>4, <1>5, <2>2
<1>12. DOMAIN new = 1 .. m
  BY <1>4
<1> HIDE DEF new
<1>13. tx' = [tx EXCEPT ![c] = new]
  BY <1>6 DEF new
<1>14. /\ tx' \in [Callers -> Seq(Savepoints)] /\ tx'[c] = new
       /\ \A d \in Callers : d # c => tx'[d] = tx[d]
  BY <1>1, <1>11, <1>13
<1>15. tx'[c][m].calls = tx[c][m].calls \cup tx[c][m + 1].calls
  BY <1>4, <1>5, <1>7, <1>10, <1>11, <1>14
<1>16. /\ DOMAIN tx'[c][m].undo = DOMAIN tx[c][m].undo \cup DOMAIN tx[c][m + 1].undo
       /\ \A i \in DOMAIN tx'[c][m].undo :
            tx'[c][m].undo[i] = IF i \in DOMAIN tx[c][m].undo THEN tx[c][m].undo[i]
                                ELSE tx[c][m + 1].undo[i]
  BY <1>4, <1>5, <1>7, <1>8, <1>10, <1>11, <1>14
<1>17. \A l \in 1 .. m : l # m => tx'[c][l] = tx[c][l]
  BY <1>4, <1>11, <1>14
<1>18. Len(tx[c]) = m + 1 /\ Len(tx'[c]) = m /\ DOMAIN tx[c] = 1 .. m + 1 /\ DOMAIN tx'[c] = 1 .. m
  BY <1>4, <1>5, <1>11, <1>12, <1>14 DEF n
<1>19. m \in Nat \ {0}
  BY <1>5
<1> HIDE DEF m
<1> QED BY <1>2, <1>14, <1>15, <1>16, <1>17, <1>18, <1>19

LEMMA ReleaseCore ==
  ASSUME IInv, NEW c \in Callers, Release(c)
  PROVE  CoreInv'
<1>0. /\ TypeInv /\ engine' = engine /\ workload' = workload /\ table' = table /\ outcome' = outcome /\ call' = call
      /\ call[c] = Idle
      /\ \A d \in Callers : d # c => tx'[d] = tx[d]
  BY ReleaseDoes DEF IInv
<1>1. PICK m \in Nat \ {0} :
        /\ Len(tx[c]) = m + 1 /\ Len(tx'[c]) = m
        /\ DOMAIN tx[c] = 1 .. m + 1 /\ DOMAIN tx'[c] = 1 .. m
        /\ \A l \in 1 .. m : l # m => tx'[c][l] = tx[c][l]
        /\ tx'[c][m].calls = tx[c][m].calls \cup tx[c][m + 1].calls
        /\ DOMAIN tx'[c][m].undo = DOMAIN tx[c][m].undo \cup DOMAIN tx[c][m + 1].undo
        /\ \A i \in DOMAIN tx'[c][m].undo :
             tx'[c][m].undo[i] = IF i \in DOMAIN tx[c][m].undo THEN tx[c][m].undo[i]
                                 ELSE tx[c][m + 1].undo[i]
  BY ReleaseDoes
<1>2. /\ m \in DOMAIN tx[c] /\ m + 1 \in DOMAIN tx[c] /\ m \in DOMAIN tx'[c] /\ m + 1 > m
      /\ \A l \in DOMAIN tx'[c] : l \in DOMAIN tx[c] /\ l <= m /\ l \in Nat
      /\ \A l \in DOMAIN tx[c] : l = m + 1 \/ l \in DOMAIN tx'[c]
  BY <1>1
<1> DEFINE From(d, l, o) == l = o \/ (d = c /\ l = m /\ o = m + 1)
\* Where an undone row and a call of a savepoint come from.
<1>3. ASSUME NEW d \in Callers, NEW l \in DOMAIN tx'[d], NEW i \in DOMAIN tx'[d][l].undo
      PROVE  \E o \in DOMAIN tx[d] :
               /\ i \in DOMAIN tx[d][o].undo /\ tx'[d][l].undo[i] = tx[d][o].undo[i]
               /\ From(d, l, o)
  <2>1. CASE d # c
    BY <1>0, <1>3, <2>1
  <2>2. CASE d = c /\ l # m
    BY <1>1, <1>2, <1>3, <2>2
  <2>3. CASE d = c /\ l = m /\ i \in DOMAIN tx[c][m].undo
    BY <1>1, <1>2, <1>3, <2>3
  <2>4. CASE d = c /\ l = m /\ i \notin DOMAIN tx[c][m].undo
    BY <1>1, <1>2, <1>3, <2>4
  <2> QED BY <2>1, <2>2, <2>3, <2>4
<1>4. ASSUME NEW d \in Callers, NEW l \in DOMAIN tx'[d], NEW k \in tx'[d][l].calls
      PROVE  \E o \in DOMAIN tx[d] : k \in tx[d][o].calls /\ From(d, l, o)
  <2>1. CASE d # c
    BY <1>0, <1>4, <2>1
  <2>2. CASE d = c /\ l # m
    BY <1>1, <1>2, <1>4, <2>2
  <2>3. CASE d = c /\ l = m
    BY <1>1, <1>2, <1>4, <2>3
  <2> QED BY <2>1, <2>2, <2>3
<1>5. ASSUME NEW d \in Callers, NEW o \in DOMAIN tx[d]
      PROVE  \E l \in DOMAIN tx'[d] :
               /\ From(d, l, o) /\ tx[d][o].calls \subseteq tx'[d][l].calls
               /\ DOMAIN tx[d][o].undo \subseteq DOMAIN tx'[d][l].undo
  <2>1. CASE d # c
    BY <1>0, <1>5, <2>1
  <2>2. CASE d = c /\ o \in 1 .. m /\ o # m
    BY <1>1, <1>2, <1>5, <2>2
  <2>3. CASE d = c /\ o \in {m, m + 1}
    BY <1>1, <1>2, <1>5, <2>3
  <2> QED BY <1>1, <1>2, <1>5, <2>1, <2>2, <2>3
\* A savepoint has one from each of those that it is made of.
<1>6. \A d \in Callers : \A l, j \in DOMAIN tx'[d], o \in DOMAIN tx[d] :
        From(d, l, o) /\ From(d, j, o) => l = j
  <2> TAKE d \in Callers
  <2>1. CASE d = c BY <1>1, <1>2, <2>1
  <2>2. CASE d # c BY <2>2
  <2> QED BY <2>1, <2>2
<1>7. \A d \in Callers : Touched(d)' = Touched(d)
  <2> TAKE d \in Callers
  <2>1. Touched(d)' = UNION {DOMAIN tx'[d][l].undo : l \in DOMAIN tx'[d]}
    BY DEF Touched
  <2>2. Touched(d) = UNION {DOMAIN tx[d][l].undo : l \in DOMAIN tx[d]}
    BY DEF Touched
  <2> HIDE DEF From
  <2> QED BY <1>3, <1>5, <2>1, <2>2
<1>8. \A k \in Calls : Unseen(k) => Unseen(k)'
  <2> SUFFICES ASSUME NEW k \in Calls, Unseen(k) PROVE Unseen(k)'
    OBVIOUS
  <2>1. \A i \in Ids : k \notin By(table[i])
    BY DEF Unseen
  <2>2. ASSUME NEW d \in Callers, NEW l \in DOMAIN tx'[d], NEW i \in DOMAIN tx'[d][l].undo
        PROVE  k \notin By(tx'[d][l].undo[i])
    BY <1>3 DEF Unseen
  <2>3. table' = table BY <1>0
  <2> QED BY <2>1, <2>2, <2>3, Zenon DEF Unseen, By
<1>9. LockInv'
  <2>1. ASSUME NEW d \in Callers, NEW e \in Callers, d # e, engine = "sqlite"
        PROVE  tx'[d] = <<>> \/ tx'[e] = <<>>
    <3>1. tx[c] # <<>>
      <4>1. DOMAIN <<>> = {} OBVIOUS
      <4> QED BY <1>2, <4>1
    <3>2. \A f \in Callers : f # c => tx[f] = <<>>
      BY <2>1, <3>1 DEF IInv, LockInv
    <3> QED BY <1>0, <2>1, <3>2
  <2> QED BY <1>0, <1>7, <2>1 DEF IInv, LockInv
<1>10. HistInv'
  BY <1>0, <1>8 DEF IInv, HistInv
<1>11. WrittenInv'
  <2>1. SUFFICES ASSUME NEW d \in Callers, call[d] # Idle
                 PROVE  \/ Unseen(call[d].no)
                        \/ /\ call[d].pc \in Late
                           /\ tx'[d] # <<>> => call[d].no \in tx'[d][Len(tx'[d])].calls
    <3>1. \A d \in Callers : call[d] # Idle => call[d].no \in Calls
      BY <1>0, CallFacts DEF Running
    <3> QED BY <1>0, <1>8, <3>1 DEF WrittenInv, Late
  <2>2. d # c BY <1>0, <2>1
  <2> QED BY <1>0, <2>1, <2>2 DEF IInv, WrittenInv, Late
<1> HIDE DEF From
<1>12. SavedInv'
  <2>1. \A d \in Callers : \A l \in DOMAIN tx'[d] : \A k \in tx'[d][l].calls :
          outcome'[k].status \in {"running", "tentative", "guest"}
    BY <1>0, <1>4 DEF IInv, SavedInv
  <2>2. ASSUME NEW d \in Callers, NEW e \in Callers, NEW l \in DOMAIN tx'[d],
               call[e] # Idle, call[e].no \in tx'[d][l].calls
        PROVE  d = e /\ l = Len(tx'[e]) /\ call[e].pc \in Late
    <3>1. PICK o \in DOMAIN tx[d] : call[e].no \in tx[d][o].calls /\ From(d, l, o)
      BY <1>4, <2>2
    <3>2. d = e /\ o = Len(tx[e]) /\ call[e].pc \in Late
      BY <2>2, <3>1 DEF IInv, SavedInv, Late
    <3>3. e # c /\ tx'[e] = tx[e]
      BY <1>0, <2>2
    <3> QED BY <3>1, <3>2, <3>3 DEF From
  <2>3. ASSUME NEW d \in Callers, NEW e \in Callers, NEW l \in DOMAIN tx'[d], NEW j \in DOMAIN tx'[e],
               NEW k \in tx'[d][l].calls, k \in tx'[e][j].calls
        PROVE  d = e /\ l = j
    <3>1. PICK o \in DOMAIN tx[d] : k \in tx[d][o].calls /\ From(d, l, o)
      BY <1>4
    <3>2. PICK p \in DOMAIN tx[e] : k \in tx[e][p].calls /\ From(e, j, p)
      BY <1>4, <2>3
    <3>3. d = e /\ o = p
      BY <3>1, <3>2 DEF IInv, SavedInv
    <3> QED BY <1>6, <3>1, <3>2, <3>3
  <2>4. \A e, d \in Callers : \A l \in DOMAIN tx'[d] :
          call'[e] # Idle /\ call'[e].no \in tx'[d][l].calls =>
            d = e /\ l = Len(tx'[e]) /\ call'[e].pc \in Late
    BY <1>0, <2>2
  <2> QED BY <2>1, <2>3, <2>4 DEF SavedInv, Late
<1>13. LevelInv'
  <2>1. ASSUME NEW e \in Callers, NEW j \in DOMAIN tx'[e], NEW k \in tx'[e][j].calls
        PROVE  /\ \A i \in Ids : k \in By(table[i]) => i \in DOMAIN tx'[e][j].undo
               /\ \A d \in Callers : \A l \in DOMAIN tx'[d] : \A i \in DOMAIN tx'[d][l].undo :
                    k \in By(tx'[d][l].undo[i]) => d = e /\ l > j /\ i \in DOMAIN tx'[e][j].undo
    <3>1. PICK p \in DOMAIN tx[e] : k \in tx[e][p].calls /\ From(e, j, p)
      BY <1>4, <2>1
    <3>2. DOMAIN tx[e][p].undo \subseteq DOMAIN tx'[e][j].undo
      BY <1>5, <1>6, <3>1
    <3>3. \A i \in Ids : k \in By(table[i]) => i \in DOMAIN tx[e][p].undo
      BY <3>1 DEF IInv, LevelInv
    <3>4. \A d \in Callers : \A l \in DOMAIN tx[d] : \A i \in DOMAIN tx[d][l].undo :
            k \in By(tx[d][l].undo[i]) => d = e /\ l > p /\ i \in DOMAIN tx[e][p].undo
      BY <3>1 DEF IInv, LevelInv
    <3>5. ASSUME NEW d \in Callers, NEW l \in DOMAIN tx'[d], NEW i \in DOMAIN tx'[d][l].undo,
                 k \in By(tx'[d][l].undo[i])
          PROVE  d = e /\ l > j /\ i \in DOMAIN tx'[e][j].undo
      <4>1. PICK o \in DOMAIN tx[d] :
              /\ i \in DOMAIN tx[d][o].undo /\ tx'[d][l].undo[i] = tx[d][o].undo[i]
              /\ From(d, l, o)
        BY <1>3
      <4>2. d = e /\ o > p /\ i \in DOMAIN tx[e][p].undo
        BY <3>4, <3>5, <4>1
      <4>3. CASE e # c
        BY <3>1, <3>2, <4>1, <4>2, <4>3 DEF From
      <4>4. CASE e = c /\ ~ (l = m /\ o = m + 1)
        <5>1. l = o /\ l <= m /\ l \in Nat
          BY <1>2, <4>1, <4>2, <4>4 DEF From
        <5>2. j = p
          BY <1>1, <3>1, <4>2, <5>1 DEF From
        <5> QED BY <3>2, <4>2, <5>1, <5>2
      <4>5. CASE e = c /\ l = m /\ o = m + 1
        <5>1. CASE p = m
          <6>1. i \in DOMAIN tx[c][m].undo
            BY <4>2, <4>5, <5>1
          <6>2. tx'[c][m].undo[i] = tx[c][m].undo[i]
            BY <1>1, <3>5, <4>2, <4>5, <6>1
          <6>3. k \in By(tx[c][m].undo[i])
            BY <3>5, <4>2, <4>5, <6>2
          <6>4. m > p
            BY <1>2, <3>4, <4>2, <4>5, <6>1, <6>3
          <6> QED BY <5>1, <6>4
        <5>2. CASE p # m
          <6>1. j = p /\ j \in 1 .. m /\ p # m
            BY <1>1, <1>2, <2>1, <3>1, <4>2, <4>5, <5>2 DEF From
          <6> QED BY <3>2, <4>2, <4>5, <6>1
        <5> QED BY <5>1, <5>2
      <4> QED BY <4>2, <4>3, <4>4, <4>5
    <3> QED BY <3>2, <3>3, <3>5
  <2>2. table' = table BY <1>0
  <2> QED BY <2>1, <2>2, Zenon DEF LevelInv, By
<1>14. SurviveInv'
  <2>1. ASSUME NEW k \in Calls, outcome[k].status \in {"ok", "running", "tentative", "guest"},
               NEW i \in outcome[k].wrote
        PROVE  /\ k \in By(table[i])
               /\ \A d \in Callers : \A l \in DOMAIN tx'[d] :
                    i \in DOMAIN tx'[d][l].undo =>
                      \/ k \in By(tx'[d][l].undo[i])
                      \/ \E j \in DOMAIN tx'[d] : j >= l /\ k \in tx'[d][j].calls
    <3>1. /\ k \in By(table[i])
          /\ \A d \in Callers : \A l \in DOMAIN tx[d] :
               i \in DOMAIN tx[d][l].undo =>
                 \/ k \in By(tx[d][l].undo[i])
                 \/ \E j \in DOMAIN tx[d] : j >= l /\ k \in tx[d][j].calls
      BY <2>1 DEF IInv, SurviveInv
    <3>2. ASSUME NEW d \in Callers, NEW l \in DOMAIN tx'[d], i \in DOMAIN tx'[d][l].undo
          PROVE  \/ k \in By(tx'[d][l].undo[i])
                 \/ \E j \in DOMAIN tx'[d] : j >= l /\ k \in tx'[d][j].calls
      <4>1. PICK o \in DOMAIN tx[d] :
              /\ i \in DOMAIN tx[d][o].undo /\ tx'[d][l].undo[i] = tx[d][o].undo[i]
              /\ From(d, l, o)
        BY <1>3, <3>2
      <4>2. CASE k \in By(tx[d][o].undo[i])
        BY <4>1, <4>2
      <4>3. ASSUME NEW j \in DOMAIN tx[d], j >= o, k \in tx[d][j].calls
            PROVE  \E q \in DOMAIN tx'[d] : q >= l /\ k \in tx'[d][q].calls
        <5>1. PICK q \in DOMAIN tx'[d] : From(d, q, j) /\ tx[d][j].calls \subseteq tx'[d][q].calls
          BY <1>5
        <5>2. q >= l
          <6>1. CASE d # c BY <4>1, <4>3, <5>1, <6>1 DEF From
          <6>2. CASE d = c BY <1>1, <1>2, <3>2, <4>1, <4>3, <5>1, <6>2 DEF From
          <6> QED BY <6>1, <6>2
        <5> QED BY <4>3, <5>1, <5>2
      <4> QED BY <3>1, <4>1, <4>2, <4>3
    <3> QED BY <3>1, <3>2
  <2>2. table' = table BY <1>0
  <2> QED BY <1>0, <2>1, <2>2, Zenon DEF SurviveInv, By
<1> QED BY <1>9, <1>10, <1>11, <1>12, <1>13, <1>14 DEF CoreInv

-------------------------------------------------------------------------------
(* ROLLBACK.                                                                 *)

LEMMA RollbackDoes ==
  ASSUME IInv, NEW c \in Callers, Rollback(c)
  PROVE  LET n == Len(tx[c])
             undo == tx[c][n].undo
             own == IF call[c] = Idle THEN {} ELSE {call[c].no}
         IN
         /\ engine' = engine /\ workload' = workload /\ OthersCalls(c) /\ call'[c] = Idle
         /\ call[c] # Idle => call[c].pc = "failing"
         /\ n \in Nat \ {0} /\ n \in DOMAIN tx[c] /\ tx[c] # <<>>
         /\ undo \in Rows /\ own \subseteq Calls
         /\ table' \in [Ids -> Row]
         /\ \A i \in Ids : table'[i] = IF i \in DOMAIN undo THEN undo[i] ELSE table[i]
         /\ tx' \in [Callers -> Seq(Savepoints)] /\ tx'[c] = Front(tx[c]) /\ Len(tx'[c]) = n - 1
         /\ \A d \in Callers : d # c => tx'[d] = tx[d]
         /\ \A d \in Callers : \A l \in DOMAIN tx'[d] :
              l \in DOMAIN tx[d] /\ tx'[d][l] = tx[d][l] /\ (d = c => l < n)
         /\ \A d \in Callers : \A l \in DOMAIN tx[d] : (d = c /\ l = n) \/ l \in DOMAIN tx'[d]
         /\ outcome' \in [Calls -> [status : Statuses, wrote : SUBSET Ids, told : SUBSET Ids]]
         /\ \A k \in Calls :
              /\ outcome'[k].wrote = outcome[k].wrote /\ outcome'[k].told = outcome[k].told
              /\ k \in own => outcome'[k].status = "rejected"
              /\ k \notin own /\ k \in tx[c][n].calls => outcome'[k].status = "undone"
              /\ k \notin own /\ k \notin tx[c][n].calls => outcome'[k] = outcome[k]
<1> DEFINE n == Len(tx[c])
           undo == tx[c][n].undo
           own == IF call[c] = Idle THEN {} ELSE {call[c].no}
<1>1. /\ TypeInv /\ tx \in [Callers -> Seq(Savepoints)] /\ table \in [Ids -> Row]
      /\ call \in [Callers -> {Idle} \cup Running] /\ tx[c] \in Seq(Savepoints)
  BY DEF IInv, TypeInv
<1>2. /\ engine' = engine /\ workload' = workload /\ tx[c] # <<>> /\ call[c].pc \in {"idle", "failing"}
      /\ table' = Over(Last(tx[c]).undo, table)
      /\ outcome' = [k \in Calls |-> IF k \in own THEN [outcome[k] EXCEPT !.status = "rejected"]
                                     ELSE Ended(Last(tx[c]).calls, "undone")[k]]
      /\ call' = [call EXCEPT ![c] = Idle]
      /\ tx' = [tx EXCEPT ![c] = Front(tx[c])]
  BY DEF Rollback, Restored
<1>3. /\ n \in Nat \ {0} /\ Last(tx[c]) = tx[c][n] /\ Last(tx[c]) \in Savepoints
      /\ Front(tx[c]) \in Seq(Savepoints) /\ Len(Front(tx[c])) = n - 1
      /\ DOMAIN tx[c] = 1 .. n /\ DOMAIN Front(tx[c]) = 1 .. n - 1
      /\ \A i \in 1 .. n - 1 : Front(tx[c])[i] = tx[c][i]
  BY <1>1, <1>2, FrontAndLast
<1> HIDE DEF n
<1>4. n \in DOMAIN tx[c]
  BY <1>3
<1>5. undo \in Rows
  BY <1>3 DEF Savepoints
<1>6. own \subseteq Calls /\ (call[c] # Idle => call[c].pc = "failing")
  BY <1>1, <1>2, CallFacts DEF Running
<1> HIDE DEF undo, own
<1>7. OthersCalls(c) /\ call'[c] = Idle
  BY <1>1, <1>2 DEF OthersCalls
<1>8. DOMAIN undo \subseteq Ids /\ \A i \in DOMAIN undo : undo[i] \in Row
  BY <1>5, RowsAre
<1>9. table' = [i \in Ids |-> IF i \in DOMAIN undo THEN undo[i] ELSE table[i]]
  <2>1. DOMAIN table = Ids /\ DOMAIN undo \cup Ids = Ids
    BY <1>1, <1>8
  <2>2. table' = [i \in DOMAIN undo \cup DOMAIN table |-> IF i \in DOMAIN undo THEN undo[i] ELSE table[i]]
    BY <1>2, <1>3 DEF Over, undo
  <2> QED BY <2>1, <2>2
<1>10. /\ table' \in [Ids -> Row]
       /\ \A i \in Ids : table'[i] = IF i \in DOMAIN undo THEN undo[i] ELSE table[i]
  BY <1>1, <1>8, <1>9
<1>11. /\ tx' \in [Callers -> Seq(Savepoints)] /\ tx'[c] = Front(tx[c])
       /\ \A d \in Callers : d # c => tx'[d] = tx[d]
  BY <1>1, <1>2, <1>3
<1>12. \A d \in Callers : \A l \in DOMAIN tx'[d] :
         l \in DOMAIN tx[d] /\ tx'[d][l] = tx[d][l] /\ (d = c => l < n)
  <2> TAKE d \in Callers
  <2>1. CASE d = c BY <1>3, <1>11, <2>1
  <2>2. CASE d # c BY <1>11, <2>2
  <2> QED BY <2>1, <2>2
<1>13. \A d \in Callers : \A l \in DOMAIN tx[d] : (d = c /\ l = n) \/ l \in DOMAIN tx'[d]
  <2> TAKE d \in Callers
  <2>1. CASE d = c BY <1>3, <1>11, <2>1
  <2>2. CASE d # c BY <1>11, <2>2
  <2> QED BY <2>1, <2>2
<1>14. /\ outcome' \in [Calls -> [status : Statuses, wrote : SUBSET Ids, told : SUBSET Ids]]
       /\ \A k \in Calls :
            /\ outcome'[k].wrote = outcome[k].wrote /\ outcome'[k].told = outcome[k].told
            /\ k \in own => outcome'[k].status = "rejected"
            /\ k \notin own /\ k \in tx[c][n].calls => outcome'[k].status = "undone"
            /\ k \notin own /\ k \notin tx[c][n].calls => outcome'[k] = outcome[k]
  <2> DEFINE ended == Ended(tx[c][n].calls, "undone")
  <2>1. "undone" \in Statuses /\ "rejected" \in Statuses
    BY DEF Statuses
  <2>2. /\ ended \in [Calls -> [status : Statuses, wrote : SUBSET Ids, told : SUBSET Ids]]
        /\ \A k \in Calls :
             /\ ended[k].wrote = outcome[k].wrote /\ ended[k].told = outcome[k].told
             /\ k \in tx[c][n].calls => ended[k].status = "undone"
             /\ k \notin tx[c][n].calls => ended[k] = outcome[k]
    BY <1>1, <2>1, EndedIs
  <2>3. outcome' = [k \in Calls |-> IF k \in own THEN [outcome[k] EXCEPT !.status = "rejected"]
                                    ELSE ended[k]]
    BY <1>2, <1>3
  <2>4. outcome \in [Calls -> [status : Statuses, wrote : SUBSET Ids, told : SUBSET Ids]]
    BY <1>1 DEF TypeInv
  <2> HIDE DEF ended
  <2> QED BY <2>1, <2>2, <2>3, <2>4
<1>15. Len(tx'[c]) = n - 1
  BY <1>3, <1>11
<1> QED BY <1>2, <1>3, <1>4, <1>5, <1>6, <1>7, <1>10, <1>11, <1>12, <1>13, <1>14, <1>15 DEF n, undo, own

LEMMA RollbackCore ==
  ASSUME IInv, NEW c \in Callers, Rollback(c)
  PROVE  CoreInv'
<1> DEFINE n == Len(tx[c])
           undo == tx[c][n].undo
           own == IF call[c] = Idle THEN {} ELSE {call[c].no}
<1>1. /\ TypeInv /\ engine' = engine /\ workload' = workload /\ OthersCalls(c) /\ call'[c] = Idle
      /\ n \in Nat \ {0} /\ n \in DOMAIN tx[c] /\ tx[c] # <<>>
      /\ \A i \in Ids : table'[i] = IF i \in DOMAIN undo THEN undo[i] ELSE table[i]
      /\ \A d \in Callers : d # c => tx'[d] = tx[d]
      /\ own \subseteq Calls
  BY RollbackDoes DEF IInv
<1>2. /\ \A d \in Callers : \A l \in DOMAIN tx'[d] :
           l \in DOMAIN tx[d] /\ tx'[d][l] = tx[d][l] /\ (d = c => l < n)
      /\ \A d \in Callers : \A l \in DOMAIN tx[d] : (d = c /\ l = n) \/ l \in DOMAIN tx'[d]
  BY RollbackDoes
<1>3. \A k \in Calls :
        /\ outcome'[k].wrote = outcome[k].wrote
        /\ k \in own => outcome'[k].status = "rejected"
        /\ k \notin own /\ k \in tx[c][n].calls => outcome'[k].status = "undone"
        /\ k \notin own /\ k \notin tx[c][n].calls => outcome'[k] = outcome[k]
  BY RollbackDoes
<1>4. call[c] # Idle => own = {call[c].no} /\ call[c].pc = "failing"
  BY RollbackDoes
<1>5. call[c] = Idle => own = {}
  OBVIOUS
<1> HIDE DEF n, own
<1>6. \A k \in Calls : Unseen(k) => Unseen(k)'
  <2> SUFFICES ASSUME NEW k \in Calls, Unseen(k) PROVE Unseen(k)'
    OBVIOUS
  <2>1. \A i \in Ids : k \notin By(table'[i])
    BY <1>1 DEF Unseen
  <2>2. ASSUME NEW d \in Callers, NEW l \in DOMAIN tx'[d], NEW i \in DOMAIN tx'[d][l].undo
        PROVE  k \notin By(tx'[d][l].undo[i])
    BY <1>2 DEF Unseen
  <2> QED BY <2>1, <2>2, Zenon DEF Unseen, By
<1>7. ASSUME NEW k \in tx[c][n].calls
      PROVE  Unseen(k)'
  <2>1. /\ \A i \in Ids : k \in By(table[i]) => i \in DOMAIN undo
        /\ \A d \in Callers : \A l \in DOMAIN tx[d] : \A i \in DOMAIN tx[d][l].undo :
             k \in By(tx[d][l].undo[i]) => d = c /\ l > n /\ i \in DOMAIN undo
    BY <1>1 DEF IInv, LevelInv
  <2>2. ~ (n > n)
    BY <1>1
  <2>3. \A i \in Ids : k \notin By(table'[i])
    BY <1>1, <2>1, <2>2
  <2>4. \A d \in Callers : \A l \in DOMAIN tx'[d] : \A i \in DOMAIN tx'[d][l].undo :
          k \notin By(tx'[d][l].undo[i])
    <3> SUFFICES ASSUME NEW d \in Callers, NEW l \in DOMAIN tx'[d], NEW i \in DOMAIN tx'[d][l].undo,
                        k \in By(tx[d][l].undo[i])
                 PROVE  FALSE
      BY <1>2
    <3>1. l \in DOMAIN tx[d] /\ i \in DOMAIN tx[d][l].undo /\ (d = c => l < n)
      BY <1>2
    <3>2. d = c /\ l > n
      BY <2>1, <3>1
    <3>3. l \in Nat
      BY <1>1, <3>1, TxFacts
    <3> QED BY <1>1, <3>1, <3>2, <3>3
  <2> QED BY <2>3, <2>4, Zenon DEF Unseen, By
<1>8. ASSUME NEW k \in own
      PROVE  Unseen(k)'
  <2>1. call[c] # Idle /\ k = call[c].no /\ k \in Calls
    BY <1>1, <1>4, <1>5
  <2>2. Unseen(k) \/ k \in tx[c][n].calls
    BY <1>1, <2>1 DEF IInv, WrittenInv, n
  <2> QED BY <1>6, <1>7, <2>1, <2>2
<1>9. LockInv'
  <2>1. \A d \in Callers : Touched(d)' \subseteq Touched(d)
    <3> TAKE d \in Callers
    <3>1. Touched(d)' = UNION {DOMAIN tx'[d][l].undo : l \in DOMAIN tx'[d]}
      BY DEF Touched
    <3>2. Touched(d) = UNION {DOMAIN tx[d][l].undo : l \in DOMAIN tx[d]}
      BY DEF Touched
    <3> QED BY <1>2, <3>1, <3>2
  <2>2. ASSUME NEW d \in Callers, NEW e \in Callers, d # e, engine = "sqlite"
        PROVE  tx'[d] = <<>> \/ tx'[e] = <<>>
    <3>1. \A f \in Callers : f # c => tx[f] = <<>>
      BY <1>1, <2>2 DEF IInv, LockInv
    <3> QED BY <1>1, <2>2, <3>1
  <2> QED BY <1>1, <2>1, <2>2 DEF IInv, LockInv
<1>10. HistInv'
  <2>1. SUFFICES ASSUME NEW k \in Calls, outcome'[k].status \in {"none", "rejected", "undone"}
                 PROVE  Unseen(k)'
    BY DEF HistInv
  <2>2. CASE k \in own \/ k \in tx[c][n].calls
    BY <1>7, <1>8, <2>2
  <2>3. CASE k \notin own /\ k \notin tx[c][n].calls
    <3>1. Unseen(k) BY <1>3, <2>1, <2>3 DEF IInv, HistInv
    <3> QED BY <1>6, <3>1
  <2> QED BY <2>2, <2>3
<1>11. WrittenInv'
  <2>1. SUFFICES ASSUME NEW d \in Callers, call'[d] # Idle
                 PROVE  \/ Unseen(call'[d].no)
                        \/ /\ call'[d].pc \in Late
                           /\ tx'[d] # <<>> => call'[d].no \in tx'[d][Len(tx'[d])].calls
    <3>1. \A d \in Callers : call'[d] # Idle => call'[d].no \in Calls
      BY <1>1 DEF OthersCalls, Running
    <3> QED BY <1>6, <3>1 DEF WrittenInv, Late
  <2>2. d # c BY <1>1, <2>1
  <2> QED BY <1>1, <2>1, <2>2 DEF IInv, WrittenInv, OthersCalls, Late
<1>12. \A d \in Callers : \A l \in DOMAIN tx'[d] : \A k \in tx'[d][l].calls :
         k \in Calls /\ k \notin own /\ k \notin tx[c][n].calls /\ k \in tx[d][l].calls
  <2> SUFFICES ASSUME NEW d \in Callers, NEW l \in DOMAIN tx'[d], NEW k \in tx'[d][l].calls
               PROVE  k \in Calls /\ k \notin own /\ k \notin tx[c][n].calls /\ k \in tx[d][l].calls
    OBVIOUS
  <2>1. l \in DOMAIN tx[d] /\ k \in tx[d][l].calls /\ (d = c => l < n)
    BY <1>2
  <2>2. k \in Calls
    BY <1>1, <2>1, TxFacts
  <2>3. ~ (d = c /\ l = n)
    BY <1>1, <2>1
  <2>4. k \notin tx[c][n].calls
    BY <1>1, <2>1, <2>3 DEF IInv, SavedInv
  <2>5. k \notin own
    BY <1>4, <1>5, <2>1, <2>3 DEF IInv, SavedInv, n
  <2> QED BY <2>1, <2>2, <2>4, <2>5
<1>13. SavedInv'
  <2>1. \A d \in Callers : \A l \in DOMAIN tx'[d] : \A k \in tx'[d][l].calls :
          outcome'[k].status \in {"running", "tentative", "guest"}
    BY <1>2, <1>3, <1>12 DEF IInv, SavedInv
  <2>2. ASSUME NEW d \in Callers, NEW e \in Callers, NEW l \in DOMAIN tx'[d],
               call'[e] # Idle, call'[e].no \in tx'[d][l].calls
        PROVE  d = e /\ l = Len(tx'[e]) /\ call'[e].pc \in Late
    <3>1. e # c /\ call'[e] = call[e] /\ tx'[e] = tx[e]
      BY <1>1, <2>2 DEF OthersCalls
    <3>2. l \in DOMAIN tx[d] /\ call[e].no \in tx[d][l].calls
      BY <1>2, <2>2, <3>1
    <3> QED BY <2>2, <3>1, <3>2 DEF IInv, SavedInv, Late
  <2>3. \A d, e \in Callers : \A l \in DOMAIN tx'[d], j \in DOMAIN tx'[e] :
          \A k \in tx'[d][l].calls : k \in tx'[e][j].calls => d = e /\ l = j
    BY <1>2 DEF IInv, SavedInv
  <2>4. \A e, d \in Callers : \A l \in DOMAIN tx'[d] :
          call'[e] # Idle /\ call'[e].no \in tx'[d][l].calls =>
            d = e /\ l = Len(tx'[e]) /\ call'[e].pc \in Late
    BY <2>2
  <2> QED BY <2>1, <2>3, <2>4 DEF SavedInv, Late
<1>14. LevelInv'
  <2>1. ASSUME NEW e \in Callers, NEW j \in DOMAIN tx'[e], NEW k \in tx'[e][j].calls
        PROVE  /\ \A i \in Ids : k \in By(table'[i]) => i \in DOMAIN tx'[e][j].undo
               /\ \A d \in Callers : \A l \in DOMAIN tx'[d] : \A i \in DOMAIN tx'[d][l].undo :
                    k \in By(tx'[d][l].undo[i]) => d = e /\ l > j /\ i \in DOMAIN tx'[e][j].undo
    <3>1. j \in DOMAIN tx[e] /\ k \in tx[e][j].calls /\ tx'[e][j] = tx[e][j]
      BY <1>2, <2>1
    <3>2. \A i \in Ids : k \in By(table[i]) => i \in DOMAIN tx[e][j].undo
      BY <3>1 DEF IInv, LevelInv
    <3>3. \A d \in Callers : \A l \in DOMAIN tx[d] : \A i \in DOMAIN tx[d][l].undo :
            k \in By(tx[d][l].undo[i]) => d = e /\ l > j /\ i \in DOMAIN tx[e][j].undo
      BY <3>1 DEF IInv, LevelInv
    <3>4. \A i \in Ids : k \in By(table'[i]) => i \in DOMAIN tx[e][j].undo
      BY <1>1, <3>2, <3>3
    <3> QED BY <1>2, <3>1, <3>3, <3>4
  <2> QED BY <2>1, Zenon DEF LevelInv, By
<1>15. SurviveInv'
  <2>1. ASSUME NEW k \in Calls, outcome'[k].status \in {"ok", "running", "tentative", "guest"},
               NEW i \in outcome'[k].wrote
        PROVE  /\ k \in By(table'[i])
               /\ \A d \in Callers : \A l \in DOMAIN tx'[d] :
                    i \in DOMAIN tx'[d][l].undo =>
                      \/ k \in By(tx'[d][l].undo[i])
                      \/ \E j \in DOMAIN tx'[d] : j >= l /\ k \in tx'[d][j].calls
    <3>1. k \notin own /\ k \notin tx[c][n].calls /\ outcome'[k] = outcome[k]
      BY <1>3, <2>1
    <3>2. /\ k \in By(table[i])
          /\ \A d \in Callers : \A l \in DOMAIN tx[d] :
               i \in DOMAIN tx[d][l].undo =>
                 \/ k \in By(tx[d][l].undo[i])
                 \/ \E j \in DOMAIN tx[d] : j >= l /\ k \in tx[d][j].calls
      BY <2>1, <3>1 DEF IInv, SurviveInv
    <3>3. i \in Ids
      BY <1>1, <2>1, <3>1 DEF TypeInv
    <3>4. k \in By(table'[i])
      <4>1. CASE i \notin DOMAIN undo
        BY <1>1, <3>2, <3>3, <4>1
      <4>2. CASE i \in DOMAIN undo
        <5>1. \A j \in DOMAIN tx[c] : j >= n => j = n
          <6>1. DOMAIN tx[c] = 1 .. n BY <1>1, TxFacts DEF n
          <6> QED BY <1>1, <6>1
        <5>2. k \in By(undo[i])
          BY <1>1, <3>1, <3>2, <4>2, <5>1
        <5> QED BY <1>1, <3>3, <4>2, <5>2
      <4> QED BY <4>1, <4>2
    <3>5. ASSUME NEW d \in Callers, NEW l \in DOMAIN tx'[d], i \in DOMAIN tx'[d][l].undo
          PROVE  \/ k \in By(tx'[d][l].undo[i])
                 \/ \E j \in DOMAIN tx'[d] : j >= l /\ k \in tx'[d][j].calls
      <4>1. l \in DOMAIN tx[d] /\ tx'[d][l] = tx[d][l]
        BY <1>2
      <4>2. CASE k \in By(tx[d][l].undo[i])
        BY <4>1, <4>2
      <4>3. ASSUME NEW j \in DOMAIN tx[d], j >= l, k \in tx[d][j].calls
            PROVE  \E q \in DOMAIN tx'[d] : q >= l /\ k \in tx'[d][q].calls
        <5>1. j \in DOMAIN tx'[d]
          BY <1>2, <3>1, <4>3
        <5>2. tx'[d][j] = tx[d][j]
          BY <1>2, <5>1
        <5> QED BY <4>3, <5>1, <5>2
      <4> QED BY <3>2, <3>5, <4>1, <4>2, <4>3
    <3> QED BY <3>4, <3>5
  <2> QED BY <2>1, Zenon DEF SurviveInv, By
<1> QED BY <1>9, <1>10, <1>11, <1>13, <1>14, <1>15 DEF CoreInv

-------------------------------------------------------------------------------
(* A write.                                                                  *)

LEMMA RememberIs ==
  ASSUME TypeInv, NEW o \in Callers, tx[o] # <<>>, NEW new \in Rows, NEW no \in Calls,
         tx' = Remember(o, new, {no})
  PROVE  LET n == Len(tx[o]) IN
         /\ tx' \in [Callers -> Seq(Savepoints)] /\ tx'[o] # <<>>
         /\ n \in Nat \ {0} /\ n \in DOMAIN tx[o] /\ DOMAIN tx[o] = 1 .. n
         /\ \A d \in Callers : d # o => tx'[d] = tx[d]
         /\ Len(tx'[o]) = n /\ DOMAIN tx'[o] = DOMAIN tx[o]
         /\ \A l \in DOMAIN tx[o] : l # n => tx'[o][l] = tx[o][l]
         /\ tx'[o][n].calls = tx[o][n].calls \cup {no}
         /\ DOMAIN tx'[o][n].undo = DOMAIN tx[o][n].undo \cup DOMAIN new
         /\ \A i \in DOMAIN tx'[o][n].undo :
              tx'[o][n].undo[i] = IF i \in DOMAIN tx[o][n].undo THEN tx[o][n].undo[i] ELSE table[i]
<1> DEFINE n == Len(tx[o])
           old == tx[o][n].undo
           undo == [i \in DOMAIN old \cup DOMAIN new |-> IF i \in DOMAIN old THEN old[i] ELSE table[i]]
           sp == [undo |-> undo, calls |-> tx[o][n].calls \cup {no}]
           t == [tx[o] EXCEPT ![n] = sp]
<1>1. /\ tx \in [Callers -> Seq(Savepoints)] /\ tx[o] \in Seq(Savepoints) /\ table \in [Ids -> Row]
  BY DEF TypeInv
<1>2. n \in Nat \ {0} /\ n \in DOMAIN tx[o] /\ DOMAIN tx[o] = 1 .. n
  <2>1. Len(tx[o]) \in Nat /\ DOMAIN tx[o] = 1 .. Len(tx[o])
    BY TxFacts
  <2>2. Len(tx[o]) # 0
    BY TxFacts
  <2> QED BY <2>1, <2>2
<1>3. tx' = [tx EXCEPT ![o] = t]
  BY DEF Remember
<1>4. tx[o][n].undo \in Rows /\ tx[o][n].calls \subseteq Calls
  BY <1>2, TxFacts
<1>5. undo \in Rows
  <2>1. /\ DOMAIN old \subseteq Ids /\ DOMAIN new \subseteq Ids
        /\ \A i \in DOMAIN old : old[i] \in Row
    BY <1>4, RowsAre
  <2> HIDE DEF old
  <2>2. DOMAIN undo \subseteq Ids /\ undo \in [DOMAIN undo -> Row]
    BY <1>1, <2>1
  <2> HIDE DEF undo
  <2> QED BY <2>2, RowsAre
<1>6. /\ DOMAIN undo = DOMAIN old \cup DOMAIN new
      /\ \A i \in DOMAIN undo : undo[i] = IF i \in DOMAIN old THEN old[i] ELSE table[i]
  OBVIOUS
<1> HIDE DEF undo
<1>7. sp \in Savepoints /\ sp.undo = undo /\ sp.calls = tx[o][n].calls \cup {no}
  BY <1>4, <1>5 DEF Savepoints
<1> HIDE DEF sp
<1>8. /\ t \in Seq(Savepoints) /\ Len(t) = n /\ t[n] = sp
      /\ \A l \in 1 .. n : l # n => t[l] = tx[o][l]
  <2>1. n \in 1 .. Len(tx[o]) BY <1>2
  <2>2. Len(t) = n /\ t \in Seq(Savepoints)
        /\ \A j \in 1 .. Len(tx[o]) : t[j] = IF j = n THEN sp ELSE tx[o][j]
    <3> HIDE DEF n
    <3>1. t \in Seq(Savepoints) /\ Len(t) = Len(tx[o])
          /\ \A j \in 1 .. Len(tx[o]) : t[j] = IF j = n THEN sp ELSE tx[o][j]
      BY <1>1, <1>7, <2>1, ExceptSeq
    <3> QED BY <3>1 DEF n
  <2> QED BY <2>1, <2>2
<1>9. DOMAIN t = 1 .. n
  BY <1>2
<1> HIDE DEF t
<1>10. /\ tx' \in [Callers -> Seq(Savepoints)] /\ tx'[o] = t
       /\ \A d \in Callers : d # o => tx'[d] = tx[d]
  BY <1>1, <1>3, <1>8
<1>11. tx'[o] # <<>>
  BY <1>2, <1>8, <1>10, EmptySeq
<1>12. /\ tx'[o][n].calls = tx[o][n].calls \cup {no}
       /\ tx'[o][n].undo = undo
  BY <1>7, <1>8, <1>10
<1>13. \A l \in DOMAIN tx[o] : l # n => tx'[o][l] = tx[o][l]
  BY <1>2, <1>8, <1>10
<1>14. Len(tx'[o]) = n /\ DOMAIN tx'[o] = DOMAIN tx[o]
  BY <1>2, <1>8, <1>9, <1>10
<1> QED BY <1>2, <1>6, <1>10, <1>11, <1>12, <1>13, <1>14

LEMMA AfterWriteIs ==
  ASSUME IInv, NEW c \in Callers, call[c].pc = "write", NEW new
  PROVE  LET next == AfterWrite(c, new) IN
         /\ next \in {"reject", "failing", "commit", "readback", "return"}
         /\ next = "reject" => tx[c] = <<>> /\ (Writes(c, new) => DOMAIN new = {})
         /\ next \in {"failing", "commit"} => tx[c] # <<>>
         /\ next = "commit" => call[c].own
         /\ next = "readback" => engine = "mysql" /\ call[c].op \in Creates \cup {"update", "batchUpdate"}
<1>1. call[c] # Idle /\ call[c].op \in Operations
  BY CallingFacts
<1>2. /\ call[c].op \in Batches => tx[c] # <<>>
      /\ call[c].own => call[c].op \in Batches
      /\ call[c].op \in Creates \cup {"update", "delete", "batchUpdate", "batchDelete"}
  BY <1>1, WriteOps DEF IInv, CallInv, CallOf
<1>3. AfterWrite(c, new) = "reject" => tx[c] = <<>> /\ ~ Enough(c, new)
  BY DEF AfterWrite
<1>4. AfterWrite(c, new) = "reject" => DOMAIN new = {}
  BY <1>2, <1>3 DEF Enough, Batches, Creates
<1> QED BY <1>2, <1>3, <1>4 DEF AfterWrite

\* A write that was not refused: new are the rows it writes.
Wrote(c, new) ==
  /\ engine' = engine /\ workload' = workload /\ Writes(c, new)
  /\ call[c].pc = "write" /\ call[c].no \in Calls
  /\ table' \in [Ids -> Row]
  /\ \A i \in Ids : table'[i] = IF i \in DOMAIN new THEN new[i] ELSE table[i]
  /\ outcome' \in [Calls -> [status : Statuses, wrote : SUBSET Ids, told : SUBSET Ids]]
  /\ \A k \in Calls : k # call[c].no => outcome'[k] = outcome[k]
  /\ outcome'[call[c].no].wrote = DOMAIN new
  /\ engine # "mysql" => outcome'[call[c].no].told \subseteq DOMAIN new
  /\ OthersCalls(c)
  /\ \/ call'[c] = Idle
     \/ /\ Stays(c) /\ call'[c].pc \in Late /\ outcome'[call[c].no].status = "running"
        /\ call'[c].read = call[c].read
        /\ call'[c].pc \in {"failing", "commit"} => tx[c] # <<>>
        /\ call'[c].pc = "commit" => call[c].own
        /\ call'[c].pc = "readback" => engine = "mysql" /\ call[c].op \in Creates \cup {"update", "batchUpdate"}
  /\ \/ tx' = tx /\ Owners(c) = {} /\ outcome'[call[c].no].status \in {"ok", "running"}
     \/ tx' = tx /\ DOMAIN new = {} /\ outcome'[call[c].no].status = "rejected" /\ call'[c] = Idle
     \/ /\ \E o \in Owners(c) : tx' = Remember(o, new, {call[c].no})
        /\ outcome'[call[c].no].status \in {"running", "tentative", "guest"}

\* A call that finds it wrote enough has written each row it was given to write.
LEMMA ToldIsWritten ==
  ASSUME IInv, NEW c \in Callers, call[c].pc = "write", NEW rows \in RowSets(c),
         Enough(c, Effect(c, rows)), engine # "mysql"
  PROVE  Told(c) \subseteq DOMAIN Effect(c, rows)
<1> DEFINE items == call[c].items
           ids   == {items[k].query.id : k \in DOMAIN items}
<1>1. /\ items \in Seq(RequestItem) /\ CallOf(c)
      /\ \A k \in DOMAIN items : items[k].query.id \in Ids \cup {None}
  BY CallingFacts DEF IInv, CallInv
<1>2. CASE call[c].op \in Creates
  <2>1. Effect(c, rows) = Inserted(c)
    BY <1>2 DEF Effect, Creates
  <2>3. Wanted(c) = ids
    BY <1>2 DEF Wanted
  <2>2. DOMAIN Inserted(c) = Wanted(c)
    BY DEF Inserted
  <2>4. Told(c) = ids
    BY <1>2 DEF Told
  <2> HIDE DEF items, ids
  <2> QED BY <2>1, <2>2, <2>3, <2>4
<1>3. CASE call[c].op = "batchUpdate"
  <2>1. Effect(c, rows) = Replaced(c)
    BY <1>3 DEF Effect, Creates
  <2>2. DOMAIN Replaced(c) = Hits(c)
    BY DEF Replaced
  <2>3. None \notin Ids
    BY InputAssumption
  <2>4. Hits(c) \subseteq ids
    BY <1>1, <1>3, <2>3 DEF CallOf, Hits, Found, Matches
  <2>5. Cardinality(Hits(c)) >= Len(items)
    BY <1>3, <2>1, <2>2 DEF Enough, Creates
  <2>6. Hits(c) \subseteq Ids /\ Len(items) \in Nat
    BY <1>1, LenProperties DEF Hits, Found
  <2>7. ~ (Cardinality(Hits(c)) < Len(items))
    <3>1. IsFiniteSet(Ids) /\ IsFiniteSet(Hits(c)) /\ Cardinality(Hits(c)) \in Nat
      BY <2>6, RepositoryAssumption, FS_Subset, FS_CardinalityType
    <3> QED BY <2>5, <2>6, <3>1
  <2> HIDE DEF items
  <2>8. \A k \in DOMAIN items : items[k].query.id \in Hits(c)
    BY <1>1, <2>4, <2>7, EachItemIsFound
  <2> QED BY <2>1, <2>2, <2>8 DEF Told, items
<1>4. CASE call[c].op \notin Creates \cup {"batchUpdate"}
  BY <1>4 DEF Told
<1> QED BY <1>2, <1>3, <1>4

LEMMA WriteDoes ==
  ASSUME IInv, NEW c \in Callers, Write(c)
  PROVE  \/ Fail(c) /\ UNCHANGED <<table, tx>>
         \/ \E new \in Rows : Wrote(c, new)
<1> DEFINE no == call[c].no
<1>1. call[c].pc = "write" /\ ~ Blocked(c) /\ engine' = engine /\ workload' = workload
  BY DEF Write
<1>2. /\ call[c] # Idle /\ call[c].pc # "idle" /\ no \in Calls /\ TypeInv
      /\ call \in [Callers -> {Idle} \cup Running]
      /\ outcome \in [Calls -> [status : Statuses, wrote : SUBSET Ids, told : SUBSET Ids]]
      /\ table \in [Ids -> Row]
  BY <1>1, CallingFacts DEF IInv, TypeInv
<1>3. PICK rows \in RowSets(c) :
        IF Refused(c, rows) THEN Fail(c) /\ UNCHANGED <<table, tx>>
        ELSE LET new  == Effect(c, rows)
                 next == AfterWrite(c, new)
             IN /\ table' = Over(new, table)
                /\ tx' = IF Owners(c) = {} \/ next = "reject" THEN tx
                         ELSE Remember(CHOOSE o \in Owners(c) : TRUE, new, {no})
                /\ call' = [call EXCEPT ![c] =
                     IF next \in {"return", "reject"} THEN Idle ELSE [@ EXCEPT !.pc = next]]
                /\ outcome' = [outcome EXCEPT ![no] =
                     [status |-> CASE next = "return" -> WriteStatus(c)
                                   [] next = "reject" -> "rejected"
                                   [] OTHER -> "running",
                      wrote |-> DOMAIN new,
                      told |-> IF next \in {"reject", "failing"} THEN {} ELSE Told(c)]]
  BY DEF Write
<1>4. SUFFICES ASSUME ~ Refused(c, rows)
               PROVE  \E new \in Rows : Wrote(c, new)
  BY <1>3
<1> DEFINE new  == Effect(c, rows)
           next == AfterWrite(c, new)
           status == CASE next = "return" -> WriteStatus(c)
                       [] next = "reject" -> "rejected"
                       [] OTHER -> "running"
           told == IF next \in {"reject", "failing"} THEN {} ELSE Told(c)
           o == CHOOSE o \in Owners(c) : TRUE
<1>5. /\ table' = Over(new, table)
      /\ tx' = IF Owners(c) = {} \/ next = "reject" THEN tx ELSE Remember(o, new, {no})
      /\ call' = [call EXCEPT ![c] =
           IF next \in {"return", "reject"} THEN Idle ELSE [@ EXCEPT !.pc = next]]
      /\ outcome' = [outcome EXCEPT ![no] = [status |-> status, wrote |-> DOMAIN new, told |-> told]]
  BY <1>3, <1>4
<1>6. Writes(c, new) /\ new \in Rows
  <2>1. Writes(c, new) BY <1>1, <1>4, EffectWrites
  <2> QED BY <2>1 DEF Writes
<1>15. told \subseteq Ids /\ (engine # "mysql" => told \subseteq DOMAIN new)
  <2>1. Told(c) \subseteq Ids
    BY <1>2 DEF Told, IInv, CallInv, CallOf
  <2>2. next \notin {"reject", "failing"} => Enough(c, new)
    BY DEF AfterWrite
  <2>3. engine # "mysql" /\ next \notin {"reject", "failing"} => Told(c) \subseteq DOMAIN new
    BY <1>1, <2>2, ToldIsWritten
  <2> HIDE DEF new, next
  <2> QED BY <2>1, <2>3
<1> HIDE DEF new, told
<1>7. /\ next \in {"reject", "failing", "commit", "readback", "return"}
      /\ next = "reject" => tx[c] = <<>> /\ DOMAIN new = {}
      /\ next \in {"failing", "commit"} => tx[c] # <<>>
      /\ next = "commit" => call[c].own
      /\ next = "readback" => engine = "mysql" /\ call[c].op \in Creates \cup {"update", "batchUpdate"}
  BY <1>1, <1>6, AfterWriteIs
<1>8. WriteStatus(c) = IF Owners(c) = {} THEN "ok" ELSE IF c \in Owners(c) THEN "tentative" ELSE "guest"
  BY DEF WriteStatus
<1> HIDE DEF next
<1>9. /\ next = "return" => status = WriteStatus(c)
      /\ next = "reject" => status = "rejected"
      /\ next \in {"failing", "commit", "readback"} => status = "running"
      /\ status \in Statuses
  <2>1. WriteStatus(c) \in Statuses BY <1>8 DEF Statuses
  <2> QED BY <1>7, <2>1 DEF Statuses
<1> HIDE DEF status
<1>10. DOMAIN new \subseteq Ids /\ \A i \in DOMAIN new : new[i] \in Row
  BY <1>6, RowsAre
<1>11. /\ table' \in [Ids -> Row]
       /\ \A i \in Ids : table'[i] = IF i \in DOMAIN new THEN new[i] ELSE table[i]
  <2>1. DOMAIN new \cup DOMAIN table = Ids
    BY <1>2, <1>10
  <2>2. table' = [i \in Ids |-> IF i \in DOMAIN new THEN new[i] ELSE table[i]]
    BY <1>5, <2>1 DEF Over
  <2> QED BY <1>2, <1>10, <2>2
<1>12. /\ outcome' \in [Calls -> [status : Statuses, wrote : SUBSET Ids, told : SUBSET Ids]]
       /\ \A k \in Calls : k # no => outcome'[k] = outcome[k]
       /\ outcome'[no].wrote = DOMAIN new /\ outcome'[no].status = status
       /\ outcome'[no].told = told
  BY <1>2, <1>5, <1>9, <1>10, <1>15
<1>13. CASE next \in {"return", "reject"}
  <2>1. call' = [call EXCEPT ![c] = Idle]
    BY <1>5, <1>13
  <2>2. OthersCalls(c) /\ call'[c] = Idle
    BY <1>2, <2>1 DEF OthersCalls
  <2>3. \/ tx' = tx /\ Owners(c) = {} /\ status = "ok"
        \/ tx' = tx /\ DOMAIN new = {} /\ status = "rejected"
        \/ /\ \E p \in Owners(c) : tx' = Remember(p, new, {no})
           /\ status \in {"tentative", "guest"}
    <3>1. CASE next = "reject"
      BY <1>5, <1>7, <1>9, <3>1
    <3>2. CASE next = "return" /\ Owners(c) = {}
      BY <1>5, <1>8, <1>9, <3>2
    <3>3. CASE next = "return" /\ Owners(c) # {}
      <4>1. o \in Owners(c) BY <3>3
      <4>2. tx' = Remember(o, new, {no}) BY <1>5, <3>3
      <4>3. status \in {"tentative", "guest"} BY <1>8, <1>9, <3>3
      <4> HIDE DEF o
      <4> QED BY <4>1, <4>2, <4>3
    <3> QED BY <1>13, <3>1, <3>2, <3>3
  <2> QED BY <1>1, <1>2, <1>6, <1>11, <1>12, <1>15, <2>2, <2>3 DEF Wrote
<1>14. CASE next \in {"failing", "commit", "readback"}
  <2>1. call' = [call EXCEPT ![c].pc = next] /\ next \in Stages /\ next \in Late
    BY <1>5, <1>14 DEF Stages, Late
  <2>2. Stays(c) /\ call'[c].pc = next /\ call'[c].read = call[c].read
    BY <1>2, <2>1, StaysIf
  <2>3. OthersCalls(c) BY <2>2 DEF Stays
  <2>4. \/ tx' = tx /\ Owners(c) = {}
        \/ \E p \in Owners(c) : tx' = Remember(p, new, {no})
    <3>1. CASE Owners(c) = {}
      BY <1>5, <3>1
    <3>2. CASE Owners(c) # {}
      <4>1. o \in Owners(c) BY <3>2
      <4>2. tx' = Remember(o, new, {no}) BY <1>5, <1>14, <3>2
      <4> HIDE DEF o
      <4> QED BY <4>1, <4>2
    <3> QED BY <3>1, <3>2
  <2>5. status = "running" BY <1>9, <1>14
  <2> QED BY <1>1, <1>2, <1>6, <1>7, <1>11, <1>12, <1>15, <2>1, <2>2, <2>3, <2>4, <2>5 DEF Wrote
<1> QED BY <1>7, <1>13, <1>14


\* The savepoint that remembers what the write of c overwrites.
Adds(c, d, l) == d \in Owners(c) /\ l = Len(tx[d]) /\ call[c].no \in tx'[d][l].calls

LEMMA OneOwner ==
  ASSUME IInv, NEW c \in Callers
  PROVE  /\ \A d \in Owners(c) : d \in Callers /\ tx[d] # <<>>
         /\ \A d, e \in Owners(c) : d = e
         /\ tx[c] # <<>> => c \in Owners(c)
         /\ engine = "sqlite" => \A d \in Callers : tx[d] # <<>> => d \in Owners(c)
         /\ engine # "sqlite" => \A d \in Owners(c) : d = c
  BY DEF IInv, LockInv, Owners

LEMMA NotLocked ==
  ASSUME IInv, NEW c \in Callers, NEW i, ~ Locked(c, i), NEW d \in Callers, i \in Touched(d)
  PROVE  d \in Owners(c)
<1>1. tx[d] # <<>>
  BY TouchedFacts DEF IInv
<1> QED BY <1>1 DEF Locked, Others, Owners

LEMMA WroteTx ==
  ASSUME IInv, NEW c \in Callers, NEW new \in Rows, Wrote(c, new)
  PROVE  /\ tx' \in [Callers -> Seq(Savepoints)]
         /\ \A d \in Callers : /\ DOMAIN tx'[d] = DOMAIN tx[d] /\ Len(tx'[d]) = Len(tx[d])
                               /\ tx'[d] = <<>> <=> tx[d] = <<>>
         /\ \A d \in Callers : \A l \in DOMAIN tx[d] :
              /\ tx[d][l].calls \subseteq tx'[d][l].calls
              /\ DOMAIN tx[d][l].undo \subseteq DOMAIN tx'[d][l].undo
              /\ \A i \in DOMAIN tx[d][l].undo : tx'[d][l].undo[i] = tx[d][l].undo[i]
         /\ \A d \in Callers : \A l \in DOMAIN tx[d] : \A i \in DOMAIN tx'[d][l].undo :
              \/ i \in DOMAIN tx[d][l].undo
              \/ /\ Adds(c, d, l) /\ i \in DOMAIN new /\ i \notin DOMAIN tx[d][l].undo
                 /\ tx'[d][l].undo[i] = table[i]
         /\ \A d \in Callers : \A l \in DOMAIN tx[d] : \A k \in tx'[d][l].calls :
              k \in tx[d][l].calls \/ (k = call[c].no /\ Adds(c, d, l))
         /\ \A d \in Callers : \A l \in DOMAIN tx[d] :
              call[c].no \notin tx[d][l].calls /\ Adds(c, d, l) => DOMAIN new \subseteq DOMAIN tx'[d][l].undo
         /\ \/ Owners(c) = {} /\ tx' = tx /\ outcome'[call[c].no].status \in {"ok", "running"}
            \/ /\ tx' = tx /\ DOMAIN new = {} /\ outcome'[call[c].no].status = "rejected"
               /\ call'[c] = Idle
            \/ /\ \E o \in Owners(c) : Len(tx[o]) \in DOMAIN tx[o] /\ Adds(c, o, Len(tx[o]))
               /\ outcome'[call[c].no].status \in {"running", "tentative", "guest"}
<1>0. TypeInv /\ call[c].no \in Calls
  BY DEF IInv, Wrote
<1>1. CASE tx' = tx
  <2>1. tx' \in [Callers -> Seq(Savepoints)] BY <1>0, <1>1 DEF TypeInv
  <2>2. \/ Owners(c) = {} /\ tx' = tx /\ outcome'[call[c].no].status \in {"ok", "running"}
        \/ /\ tx' = tx /\ DOMAIN new = {} /\ outcome'[call[c].no].status = "rejected"
           /\ call'[c] = Idle
        \/ /\ \E o \in Owners(c) : tx' = Remember(o, new, {call[c].no})
           /\ outcome'[call[c].no].status \in {"running", "tentative", "guest"}
    BY DEF Wrote
  <2>3. ASSUME NEW o \in Owners(c), tx' = Remember(o, new, {call[c].no})
        PROVE  Len(tx[o]) \in DOMAIN tx[o] /\ Adds(c, o, Len(tx[o]))
    <3>1. o \in Callers /\ tx[o] # <<>> BY OneOwner
    <3> DEFINE n == Len(tx[o])
    <3>2. /\ tx' \in [Callers -> Seq(Savepoints)] /\ tx'[o] # <<>>
          /\ n \in Nat \ {0} /\ n \in DOMAIN tx[o] /\ DOMAIN tx[o] = 1 .. n
          /\ \A d \in Callers : d # o => tx'[d] = tx[d]
          /\ Len(tx'[o]) = n /\ DOMAIN tx'[o] = DOMAIN tx[o]
          /\ \A l \in DOMAIN tx[o] : l # n => tx'[o][l] = tx[o][l]
          /\ tx'[o][n].calls = tx[o][n].calls \cup {call[c].no}
          /\ DOMAIN tx'[o][n].undo = DOMAIN tx[o][n].undo \cup DOMAIN new
          /\ \A i \in DOMAIN tx'[o][n].undo :
               tx'[o][n].undo[i] = IF i \in DOMAIN tx[o][n].undo THEN tx[o][n].undo[i] ELSE table[i]
      BY <1>0, <2>3, <3>1, RememberIs
    <3> QED BY <3>2 DEF Adds
  <2>4. \A d \in Callers : \A l \in DOMAIN tx[d] :
          call[c].no \notin tx[d][l].calls => ~ Adds(c, d, l)
    BY <1>1 DEF Adds
  <2> QED BY <1>1, <2>1, <2>2, <2>3, <2>4
<1>2. CASE tx' # tx
  <2>1. PICK o \in Owners(c) : tx' = Remember(o, new, {call[c].no})
    BY <1>2 DEF Wrote
  <2>2. o \in Callers /\ tx[o] # <<>> BY OneOwner
  <2> DEFINE n == Len(tx[o])
  <2>3. /\ tx' \in [Callers -> Seq(Savepoints)] /\ tx'[o] # <<>>
        /\ n \in Nat \ {0} /\ n \in DOMAIN tx[o] /\ DOMAIN tx[o] = 1 .. n
        /\ \A d \in Callers : d # o => tx'[d] = tx[d]
        /\ Len(tx'[o]) = n /\ DOMAIN tx'[o] = DOMAIN tx[o]
        /\ \A l \in DOMAIN tx[o] : l # n => tx'[o][l] = tx[o][l]
        /\ tx'[o][n].calls = tx[o][n].calls \cup {call[c].no}
        /\ DOMAIN tx'[o][n].undo = DOMAIN tx[o][n].undo \cup DOMAIN new
        /\ \A i \in DOMAIN tx'[o][n].undo :
             tx'[o][n].undo[i] = IF i \in DOMAIN tx[o][n].undo THEN tx[o][n].undo[i] ELSE table[i]
    BY <1>0, <2>1, <2>2, RememberIs
  <2>4. Adds(c, o, n) BY <2>3 DEF Adds
  <2> HIDE DEF n
  <2>5. \A d \in Callers : \A l \in DOMAIN tx[d] : (d # o \/ l # n) => tx'[d][l] = tx[d][l]
    BY <2>3
  <2>6. \A d \in Callers : \A l \in DOMAIN tx[d] :
              /\ tx[d][l].calls \subseteq tx'[d][l].calls
              /\ DOMAIN tx[d][l].undo \subseteq DOMAIN tx'[d][l].undo
              /\ \A i \in DOMAIN tx[d][l].undo : tx'[d][l].undo[i] = tx[d][l].undo[i]
    BY <2>3, <2>5
  <2>7. \A d \in Callers : \A l \in DOMAIN tx[d] : \A i \in DOMAIN tx'[d][l].undo :
              \/ i \in DOMAIN tx[d][l].undo
              \/ /\ Adds(c, d, l) /\ i \in DOMAIN new /\ i \notin DOMAIN tx[d][l].undo
                 /\ tx'[d][l].undo[i] = table[i]
    BY <2>3, <2>4, <2>5
  <2>8. \A d \in Callers : \A l \in DOMAIN tx[d] : \A k \in tx'[d][l].calls :
              k \in tx[d][l].calls \/ (k = call[c].no /\ Adds(c, d, l))
    BY <2>3, <2>4, <2>5
  <2>9. \A d \in Callers : \A l \in DOMAIN tx[d] :
              call[c].no \notin tx[d][l].calls /\ Adds(c, d, l) => DOMAIN new \subseteq DOMAIN tx'[d][l].undo
    BY <2>3, <2>5 DEF Adds
  <2>10. outcome'[call[c].no].status \in {"running", "tentative", "guest"}
    BY <1>2 DEF Wrote
  <2>11. \A d \in Callers : /\ DOMAIN tx'[d] = DOMAIN tx[d] /\ Len(tx'[d]) = Len(tx[d])
                            /\ tx'[d] = <<>> <=> tx[d] = <<>>
    BY <2>2, <2>3 DEF n
  <2>12. \E q \in Owners(c) : Len(tx[q]) \in DOMAIN tx[q] /\ Adds(c, q, Len(tx[q]))
    BY <2>3, <2>4 DEF n
  <2> QED BY <2>3, <2>6, <2>7, <2>8, <2>9, <2>10, <2>11, <2>12, Zenon
<1> QED BY <1>1, <1>2

\* The call that writes has written nothing before.
LEMMA WriterFacts ==
  ASSUME IInv, NEW c \in Callers, call[c].pc = "write"
  PROVE  /\ call[c] # Idle /\ call[c].no \in Calls /\ Unseen(call[c].no)
         /\ outcome[call[c].no].status = "running"
         /\ \A d \in Callers : \A l \in DOMAIN tx[d] : call[c].no \notin tx[d][l].calls
         /\ \A d \in Callers : d # c /\ call[d] # Idle => call[d].no # call[c].no
<1>1. call[c] # Idle /\ call[c].no \in Calls
  BY CallingFacts
<1>2. Unseen(call[c].no)
  BY <1>1 DEF IInv, WrittenInv
<1>3. \A d \in Callers : \A l \in DOMAIN tx[d] : call[c].no \notin tx[d][l].calls
  BY <1>1 DEF IInv, SavedInv
<1> QED BY <1>1, <1>2, <1>3 DEF IInv, NumberInv

LEMMA WriteCore ==
  ASSUME IInv, NEW c \in Callers, NEW new \in Rows, Wrote(c, new)
  PROVE  CoreInv'
<1> DEFINE no == call[c].no
<1>1. /\ \A d \in Callers : /\ DOMAIN tx'[d] = DOMAIN tx[d] /\ Len(tx'[d]) = Len(tx[d])
                            /\ tx'[d] = <<>> <=> tx[d] = <<>>
      /\ \A d \in Callers : \A l \in DOMAIN tx[d] :
           /\ tx[d][l].calls \subseteq tx'[d][l].calls
           /\ DOMAIN tx[d][l].undo \subseteq DOMAIN tx'[d][l].undo
           /\ \A i \in DOMAIN tx[d][l].undo : tx'[d][l].undo[i] = tx[d][l].undo[i]
  BY WroteTx
<1>2. \A d \in Callers : \A l \in DOMAIN tx[d] : \A i \in DOMAIN tx'[d][l].undo :
              \/ i \in DOMAIN tx[d][l].undo
              \/ /\ Adds(c, d, l) /\ i \in DOMAIN new /\ i \notin DOMAIN tx[d][l].undo
                 /\ tx'[d][l].undo[i] = table[i]
  BY WroteTx
<1>3. \A d \in Callers : \A l \in DOMAIN tx[d] : \A k \in tx'[d][l].calls :
        k \in tx[d][l].calls \/ (k = no /\ Adds(c, d, l))
  BY WroteTx
<1>4. /\ call[c] # Idle /\ no \in Calls /\ Unseen(no) /\ outcome[no].status = "running"
      /\ \A d \in Callers : \A l \in DOMAIN tx[d] : no \notin tx[d][l].calls
      /\ \A d \in Callers : d # c /\ call[d] # Idle => call[d].no # no
  BY WriterFacts DEF Wrote
<1>5. \A d \in Callers : \A l \in DOMAIN tx[d] : Adds(c, d, l) => DOMAIN new \subseteq DOMAIN tx'[d][l].undo
  BY <1>4, WroteTx
<1>6. \/ Owners(c) = {} /\ tx' = tx /\ outcome'[no].status \in {"ok", "running"}
      \/ /\ tx' = tx /\ DOMAIN new = {} /\ outcome'[no].status = "rejected"
         /\ call'[c] = Idle
      \/ /\ \E o \in Owners(c) : Len(tx[o]) \in DOMAIN tx[o] /\ Adds(c, o, Len(tx[o]))
         /\ outcome'[no].status \in {"running", "tentative", "guest"}
  BY WroteTx
<1>7. /\ \A d \in Owners(c) : d \in Callers /\ tx[d] # <<>>
      /\ \A d, e \in Owners(c) : d = e
      /\ tx[c] # <<>> => c \in Owners(c)
      /\ engine = "sqlite" => \A d \in Callers : tx[d] # <<>> => d \in Owners(c)
      /\ engine # "sqlite" => \A d \in Owners(c) : d = c
  BY OneOwner
<1>8. /\ engine' = engine /\ workload' = workload /\ DOMAIN new \subseteq Ids
      /\ \A k \in Calls : k # no => outcome'[k] = outcome[k]
      /\ outcome'[no].wrote = DOMAIN new
      /\ \A d \in Callers : d # c => call'[d] = call[d]
      /\ \/ call'[c] = Idle
         \/ /\ call'[c].no = no /\ call'[c].pc \in Late /\ outcome'[no].status = "running"
            /\ call'[c].pc \in {"failing", "commit"} => tx[c] # <<>>
            /\ call'[c].pc = "readback" => engine = "mysql"
  BY RowsAre DEF Wrote, Stays, OthersCalls
<1>9. /\ \A i \in DOMAIN new : By(table'[i]) = By(table[i]) \cup {no}
      /\ \A i \in Ids : i \notin DOMAIN new => table'[i] = table[i]
  BY <1>8 DEF Wrote, Writes
<1>10. \A i \in DOMAIN new : \A d \in Callers : i \in Touched(d) => d \in Owners(c)
  BY NotLocked DEF Wrote, Writes
<1>11. \A d \in Callers : \A i : i \in Touched(d) <=> \E l \in DOMAIN tx[d] : i \in DOMAIN tx[d][l].undo
  BY TouchedFacts DEF IInv
<1>12. \A d \in Callers : Len(tx[d]) \in Nat /\ DOMAIN tx[d] = 1 .. Len(tx[d]) /\ (tx[d] = <<>> <=> Len(tx[d]) = 0)
  BY TxFacts DEF IInv
<1>13. \A d \in Callers : \A l \in DOMAIN tx[d] : Adds(c, d, l) => d \in Owners(c) /\ l = Len(tx[d]) /\ no \in tx'[d][l].calls
  BY DEF Adds
<1> HIDE DEF no
<1>14. \A d \in Callers : \A i : i \in Touched(d)' => i \in Touched(d) \/ (i \in DOMAIN new /\ d \in Owners(c))
  <2> SUFFICES ASSUME NEW d \in Callers, NEW i, i \in Touched(d)'
               PROVE  i \in Touched(d) \/ (i \in DOMAIN new /\ d \in Owners(c))
    OBVIOUS
  <2>1. PICK l \in DOMAIN tx'[d] : i \in DOMAIN tx'[d][l].undo
    BY DEF Touched
  <2> QED BY <2>1, <1>1, <1>2, <1>11, <1>13
<1>15. LockInv'
  <2>1. SUFFICES ASSUME NEW d \in Callers, NEW e \in Callers, d # e
                 PROVE  IF engine = "sqlite" THEN tx'[d] = <<>> \/ tx'[e] = <<>>
                        ELSE Touched(d)' \cap Touched(e)' = {}
    BY <1>8 DEF LockInv
  <2>2. CASE engine = "sqlite"
    BY <1>1, <2>1, <2>2 DEF IInv, LockInv
  <2>3. CASE engine # "sqlite"
    <3>1. Touched(d) \cap Touched(e) = {}
      BY <2>1, <2>3 DEF IInv, LockInv
    <3> QED BY <2>1, <2>3, <3>1, <1>7, <1>10, <1>14
  <2> QED BY <2>2, <2>3
<1>16. \A k \in Calls : k # no /\ Unseen(k) => Unseen(k)'
  <2> SUFFICES ASSUME NEW k \in Calls, k # no, Unseen(k) PROVE Unseen(k)'
    OBVIOUS
  <2>1. \A i \in Ids : k \notin By(table[i])
    BY DEF Unseen
  <2>2. \A i \in Ids : k \notin By(table'[i])
    BY <2>1, <1>9
  <2>3. ASSUME NEW d \in Callers, NEW l \in DOMAIN tx'[d], NEW i \in DOMAIN tx'[d][l].undo
        PROVE  k \notin By(tx'[d][l].undo[i])
    <3>1. l \in DOMAIN tx[d] BY <1>1, <2>3
    <3>2. CASE i \in DOMAIN tx[d][l].undo
      <4>1. tx'[d][l].undo[i] = tx[d][l].undo[i] BY <1>1, <3>1, <3>2
      <4>2. k \notin By(tx[d][l].undo[i]) BY <3>1, <3>2 DEF Unseen
      <4> QED BY <4>1, <4>2
    <3>3. CASE i \notin DOMAIN tx[d][l].undo
      <4>1. i \in Ids /\ tx'[d][l].undo[i] = table[i] BY <1>2, <1>8, <2>3, <3>1, <3>3
      <4> QED BY <2>1, <4>1
    <3> QED BY <3>2, <3>3
  <2> QED BY <2>2, <2>3, Zenon DEF Unseen, By
<1>17. HistInv'
  <2>1. SUFFICES ASSUME NEW k \in Calls, outcome'[k].status \in {"none", "rejected", "undone"}
                 PROVE  Unseen(k)'
    BY DEF HistInv
  <2>2. CASE k # no
    BY <2>1, <2>2, <1>8, <1>16 DEF IInv, HistInv
  <2>3. CASE k = no
    <3>1. tx' = tx /\ DOMAIN new = {}
      BY <1>6, <2>1, <2>3
    <3>2. \A i \in Ids : k \notin By(table'[i])
      BY <1>4, <1>9, <2>3, <3>1 DEF Unseen
    <3>3. \A d \in Callers : \A l \in DOMAIN tx'[d] : \A i \in DOMAIN tx'[d][l].undo :
            k \notin By(tx'[d][l].undo[i])
      BY <1>4, <2>3, <3>1 DEF Unseen
    <3> QED BY <3>2, <3>3, Zenon DEF Unseen, By
  <2> QED BY <2>2, <2>3
<1>18. WrittenInv'
  <2>1. SUFFICES ASSUME NEW d \in Callers, call'[d] # Idle
                 PROVE  \/ Unseen(call[d].no)'
                        \/ /\ call'[d].pc \in Late
                           /\ tx'[d] # <<>> => call'[d].no \in tx'[d][Len(tx'[d])].calls
    BY DEF WrittenInv, Late
  <2>2. CASE d # c
    <3>1. call'[d] = call[d] /\ call[d].no # no
      BY <1>4, <1>8, <2>1, <2>2
    <3>2. call[d].no \in Calls
      BY <2>1, <3>1, CallFacts DEF Running, IInv
    <3>3. CASE Unseen(call[d].no)
      <4>1. PICK k \in Calls : k = call[d].no BY <3>2
      <4>2. Unseen(k)' BY <1>16, <3>1, <3>3, <4>1
      <4>3. call'[d].no = k BY <3>1, <4>1
      <4>4. Unseen(call[d].no)' BY <4>2, <4>3, Zenon DEF Unseen
      <4> QED BY <4>4
    <3>4. CASE call[d].pc \in Late /\ (tx[d] # <<>> => call[d].no \in tx[d][Len(tx[d])].calls)
      <4>1. tx[d] # <<>> => Len(tx[d]) \in DOMAIN tx[d]
        BY <1>12
      <4> QED BY <1>1, <3>1, <3>4, <4>1
    <3> QED BY <2>1, <3>1, <3>3, <3>4 DEF IInv, WrittenInv, Late
  <2>3. CASE d = c
    <3>1. call'[c].no = no /\ call'[c].pc \in Late
      BY <1>8, <2>1, <2>3
    <3>2. ASSUME tx'[c] # <<>> PROVE no \in tx'[c][Len(tx'[c])].calls
      <4>1. c \in Owners(c) BY <1>1, <1>7, <3>2
      <4>2. PICK o \in Owners(c) : Len(tx[o]) \in DOMAIN tx[o] /\ Adds(c, o, Len(tx[o]))
        BY <1>6, <2>1, <2>3, <4>1
      <4>3. o = c /\ o \in Callers BY <1>7, <4>1, <4>2
      <4> QED BY <1>1, <1>13, <4>2, <4>3
    <3> QED BY <2>3, <3>1, <3>2
  <2> QED BY <2>2, <2>3
<1>19. SavedInv'
  <2>1. ASSUME NEW d \in Callers, NEW l \in DOMAIN tx'[d], NEW k \in tx'[d][l].calls
        PROVE  outcome'[k].status \in {"running", "tentative", "guest"}
    <3>1. l \in DOMAIN tx[d] BY <1>1, <2>1
    <3>2. CASE k \in tx[d][l].calls
      <4>1. k # no /\ k \in Calls
        <5>1. tx[d][l].calls \subseteq Calls BY <3>1, TxFacts DEF IInv
        <5> QED BY <1>4, <3>1, <3>2, <5>1
      <4>2. outcome[k].status \in {"running", "tentative", "guest"}
        BY <3>1, <3>2 DEF IInv, SavedInv
      <4> QED BY <1>8, <4>1, <4>2
    <3>3. CASE k \notin tx[d][l].calls
      <4>1. k = no /\ no \in tx'[d][l].calls /\ no \notin tx[d][l].calls
        BY <1>3, <2>1, <3>1, <3>3
      <4>2. tx' # tx BY <4>1
      <4> QED BY <1>6, <4>1, <4>2
    <3> QED BY <3>2, <3>3
  <2>2. ASSUME NEW e \in Callers, NEW d \in Callers, NEW l \in DOMAIN tx'[d],
               call'[e] # Idle, call'[e].no \in tx'[d][l].calls
        PROVE  d = e /\ l = Len(tx'[e]) /\ call'[e].pc \in Late
    <3>1. l \in DOMAIN tx[d] BY <1>1, <2>2
    <3>2. CASE e # c
      <4>1. call'[e] = call[e] /\ call[e].no # no
        BY <1>4, <1>8, <2>2, <3>2
      <4>2. call[e].no \in tx[d][l].calls
        BY <1>3, <2>2, <3>1, <4>1
      <4>3. d = e /\ l = Len(tx[e]) /\ call[e].pc \in Late
        BY <2>2, <3>1, <4>1, <4>2 DEF IInv, SavedInv, Late
      <4> QED BY <1>1, <4>1, <4>3
    <3>3. CASE e = c
      <4>1. /\ call'[c].no = no /\ call'[c].pc \in Late
            /\ call'[c].pc \in {"failing", "commit"} => tx[c] # <<>>
            /\ call'[c].pc = "readback" => engine = "mysql"
        BY <1>8, <2>2, <3>3
      <4>2. Adds(c, d, l)
        BY <1>3, <1>4, <2>2, <3>1, <3>3, <4>1
      <4>3. d \in Owners(c) /\ l = Len(tx[d])
        BY <1>13, <3>1, <4>2
      <4>4. d = c
        BY <1>7, <4>1, <4>3 DEF Late
      <4> QED BY <1>1, <3>3, <4>1, <4>3, <4>4
    <3> QED BY <3>2, <3>3
  <2>3. ASSUME NEW d \in Callers, NEW e \in Callers, NEW l \in DOMAIN tx'[d], NEW j \in DOMAIN tx'[e],
               NEW k \in tx'[d][l].calls, k \in tx'[e][j].calls
        PROVE  d = e /\ l = j
    <3>1. l \in DOMAIN tx[d] /\ j \in DOMAIN tx[e] BY <1>1, <2>3
    <3>2. CASE k = no
      <4>1. Adds(c, d, l) /\ Adds(c, e, j)
        BY <1>3, <1>4, <2>3, <3>1, <3>2
      <4> QED BY <1>7, <1>13, <3>1, <4>1
    <3>3. CASE k # no
      <4>1. k \in tx[d][l].calls /\ k \in tx[e][j].calls
        BY <1>3, <2>3, <3>1, <3>3
      <4> QED BY <3>1, <4>1 DEF IInv, SavedInv
    <3> QED BY <3>2, <3>3
  <2> QED BY <2>1, <2>2, <2>3, Zenon DEF SavedInv, Late
<1>20. LevelInv'
  <2>1. ASSUME NEW e \in Callers, NEW j \in DOMAIN tx'[e], NEW k \in tx'[e][j].calls
        PROVE  /\ \A i \in Ids : k \in By(table'[i]) => i \in DOMAIN tx'[e][j].undo
               /\ \A d \in Callers : \A l \in DOMAIN tx'[d] : \A i \in DOMAIN tx'[d][l].undo :
                    k \in By(tx'[d][l].undo[i]) => d = e /\ l > j /\ i \in DOMAIN tx'[e][j].undo
    <3>1. j \in DOMAIN tx[e] BY <1>1, <2>1
    <3>2. CASE k = no
      <4>1. Adds(c, e, j) /\ DOMAIN new \subseteq DOMAIN tx'[e][j].undo
        BY <1>3, <1>4, <1>5, <2>1, <3>1, <3>2
      <4>2. \A i \in Ids : no \in By(table'[i]) => i \in DOMAIN new
        BY <1>4, <1>9 DEF Unseen
      <4>3. ASSUME NEW d \in Callers, NEW l \in DOMAIN tx'[d], NEW i \in DOMAIN tx'[d][l].undo
            PROVE  no \notin By(tx'[d][l].undo[i])
        <5>1. l \in DOMAIN tx[d] BY <1>1, <4>3
        <5>2. CASE i \in DOMAIN tx[d][l].undo
          <6>1. tx'[d][l].undo[i] = tx[d][l].undo[i] BY <1>1, <5>1, <5>2
          <6>2. no \notin By(tx[d][l].undo[i]) BY <1>4, <5>1, <5>2 DEF Unseen
          <6> QED BY <6>1, <6>2
        <5>3. CASE i \notin DOMAIN tx[d][l].undo
          <6>1. i \in Ids /\ tx'[d][l].undo[i] = table[i] BY <1>2, <1>8, <4>3, <5>1, <5>3
          <6>2. no \notin By(table[i]) BY <1>4, <6>1 DEF Unseen
          <6> QED BY <6>1, <6>2
        <5> QED BY <5>2, <5>3
      <4> QED BY <3>2, <4>1, <4>2, <4>3
    <3>3. CASE k # no
      <4>1. k \in tx[e][j].calls
        BY <1>3, <2>1, <3>1, <3>3
      <4>2. /\ \A i \in Ids : k \in By(table[i]) => i \in DOMAIN tx[e][j].undo
            /\ \A d \in Callers : \A l \in DOMAIN tx[d] : \A i \in DOMAIN tx[d][l].undo :
                 k \in By(tx[d][l].undo[i]) => d = e /\ l > j /\ i \in DOMAIN tx[e][j].undo
        BY <3>1, <4>1 DEF IInv, LevelInv
      <4>3. DOMAIN tx[e][j].undo \subseteq DOMAIN tx'[e][j].undo
        BY <1>1, <3>1
      <4>4. \A i \in Ids : k \in By(table'[i]) => i \in DOMAIN tx[e][j].undo
        BY <1>9, <3>3, <4>2
      <4>5. ASSUME NEW d \in Callers, NEW l \in DOMAIN tx'[d], NEW i \in DOMAIN tx'[d][l].undo,
                   k \in By(tx'[d][l].undo[i])
            PROVE  d = e /\ l > j /\ i \in DOMAIN tx'[e][j].undo
        <5>1. l \in DOMAIN tx[d] BY <1>1, <4>5
        <5>2. CASE i \in DOMAIN tx[d][l].undo
          <6>1. tx'[d][l].undo[i] = tx[d][l].undo[i] BY <1>1, <5>1, <5>2
          <6>2. d = e /\ l > j /\ i \in DOMAIN tx[e][j].undo BY <4>2, <4>5, <5>1, <5>2, <6>1
          <6> QED BY <4>3, <6>2
        <5>3. CASE i \notin DOMAIN tx[d][l].undo
          <6>1. /\ i \in DOMAIN new /\ i \in Ids /\ tx'[d][l].undo[i] = table[i]
                /\ Adds(c, d, l)
            BY <1>2, <1>8, <4>5, <5>1, <5>3
          <6>2. i \in DOMAIN tx[e][j].undo BY <4>2, <4>5, <6>1
          <6>3. e \in Owners(c) BY <1>10, <1>11, <3>1, <6>1, <6>2
          <6>4. d = e /\ l = Len(tx[d]) BY <1>7, <1>13, <5>1, <6>1, <6>3
          <6>5. l # j BY <5>3, <6>2, <6>4
          <6>6. l > j BY <1>12, <3>1, <6>4, <6>5
          <6> QED BY <4>3, <6>2, <6>4, <6>6
        <5> QED BY <5>2, <5>3
      <4> QED BY <4>3, <4>4, <4>5
    <3> QED BY <3>2, <3>3
  <2> QED BY <2>1, Zenon DEF LevelInv, By
<1>21. SurviveInv'
  <2>1. ASSUME NEW k \in Calls, outcome'[k].status \in {"ok", "running", "tentative", "guest"},
               NEW i \in outcome'[k].wrote
        PROVE  /\ k \in By(table'[i])
               /\ \A d \in Callers : \A l \in DOMAIN tx'[d] :
                    i \in DOMAIN tx'[d][l].undo =>
                      \/ k \in By(tx'[d][l].undo[i])
                      \/ \E j \in DOMAIN tx'[d] : j >= l /\ k \in tx'[d][j].calls
    <3>1. CASE k = no
      <4>1. i \in DOMAIN new /\ k \in By(table'[i])
        BY <1>8, <1>9, <2>1, <3>1
      <4>2. ASSUME NEW d \in Callers, NEW l \in DOMAIN tx'[d], i \in DOMAIN tx'[d][l].undo
            PROVE  \E j \in DOMAIN tx'[d] : j >= l /\ k \in tx'[d][j].calls
        <5>1. l \in DOMAIN tx[d] BY <1>1, <4>2
        <5>2. d \in Owners(c)
          BY <1>2, <1>10, <1>11, <1>13, <4>1, <4>2, <5>1
        <5>3. PICK o \in Owners(c) : Len(tx[o]) \in DOMAIN tx[o] /\ Adds(c, o, Len(tx[o]))
          BY <1>6, <2>1, <3>1, <5>2
        <5>4. o = d BY <1>7, <5>2, <5>3
        <5>5. Len(tx[d]) \in DOMAIN tx'[d] /\ Len(tx[d]) >= l /\ k \in tx'[d][Len(tx[d])].calls
          BY <1>1, <1>12, <1>13, <3>1, <4>2, <5>1, <5>3, <5>4
        <5> QED BY <5>5
      <4> QED BY <4>1, <4>2
    <3>2. CASE k # no
      <4>1. i \in outcome[k].wrote /\ i \in Ids /\ outcome[k].status \in {"ok", "running", "tentative", "guest"}
        <5>1. outcome[k] = outcome'[k] /\ outcome[k].wrote \subseteq Ids
          BY <1>8, <3>2 DEF IInv, TypeInv
        <5> QED BY <2>1, <5>1
      <4>2. /\ k \in By(table[i])
            /\ \A d \in Callers : \A l \in DOMAIN tx[d] :
                 i \in DOMAIN tx[d][l].undo =>
                   \/ k \in By(tx[d][l].undo[i])
                   \/ \E j \in DOMAIN tx[d] : j >= l /\ k \in tx[d][j].calls
        BY <4>1 DEF IInv, SurviveInv
      <4>3. k \in By(table'[i])
        BY <1>9, <4>1, <4>2
      <4>4. ASSUME NEW d \in Callers, NEW l \in DOMAIN tx'[d], i \in DOMAIN tx'[d][l].undo
            PROVE  \/ k \in By(tx'[d][l].undo[i])
                   \/ \E j \in DOMAIN tx'[d] : j >= l /\ k \in tx'[d][j].calls
        <5>1. l \in DOMAIN tx[d] BY <1>1, <4>4
        <5>2. CASE i \in DOMAIN tx[d][l].undo
          <6>1. tx'[d][l].undo[i] = tx[d][l].undo[i] BY <1>1, <5>1, <5>2
          <6>2. \/ k \in By(tx[d][l].undo[i])
                \/ \E j \in DOMAIN tx[d] : j >= l /\ k \in tx[d][j].calls
            BY <4>2, <5>1, <5>2
          <6> QED BY <1>1, <6>1, <6>2
        <5>3. CASE i \notin DOMAIN tx[d][l].undo
          <6>1. tx'[d][l].undo[i] = table[i] BY <1>2, <4>4, <5>1, <5>3
          <6> QED BY <4>2, <6>1
        <5> QED BY <5>2, <5>3
      <4> QED BY <4>3, <4>4
    <3> QED BY <3>1, <3>2
  <2> QED BY <2>1, Zenon DEF SurviveInv, By
<1> QED BY <1>15, <1>17, <1>18, <1>19, <1>20, <1>21 DEF CoreInv

-------------------------------------------------------------------------------
(* The other parts of the invariant, of steps in general.                    *)

\* What the call of c has read after a step.
NewRead(c) ==
  IF call'[c].op = "list" THEN call'[c].read \in Progress
  ELSE /\ call'[c].read \in Rows
       /\ \A i \in DOMAIN call'[c].read : call'[c].read[i] \in Versions(i)

LEMMA TypeStep ==
  ASSUME IInv, NEW c \in Callers, engine' = engine /\ workload' = workload, table' \in [Ids -> Row],
         tx' \in [Callers -> Seq(Savepoints)], OthersCalls(c), call'[c] # Idle => NewRead(c),
         outcome' \in [Calls -> [status : Statuses, wrote : SUBSET Ids, told : SUBSET Ids]],
         used' \in [transactions : 0 .. workload.transactions, failures : 0 .. workload.failures],
         snap' \in [Callers -> {None} \cup [Ids -> Row]],
         \A d \in Callers : tx'[d] = <<>> => snap'[d] = None
  PROVE  TypeInv'
<1>1. \A d \in Callers : call'[d] # Idle =>
        call'[d].read \in IF call'[d].op = "list" THEN Progress ELSE Rows
  BY DEF IInv, TypeInv, OthersCalls, NewRead
<1>2. engine' \in Engines /\ workload' \in Workloads /\ call' \in [Callers -> {Idle} \cup Running]
  BY DEF IInv, TypeInv, OthersCalls
<1>3. used' \in [transactions : 0 .. workload'.transactions, failures : 0 .. workload'.failures]
  OBVIOUS
<1> QED BY <1>1, <1>2, <1>3, Zenon DEF TypeInv

LEMMA NumberStep ==
  ASSUME IInv, NEW c \in Callers, OthersCalls(c),
         \A k \in Calls : outcome'[k].status = "none" <=> outcome[k].status = "none",
         \A k \in Calls : outcome'[k].status = "none" => outcome'[k].wrote = outcome[k].wrote,
         \A d \in Callers : d # c /\ call[d] # Idle => outcome'[call[d].no].status = "running",
         call'[c] # Idle => /\ call[c] # Idle /\ call'[c].no = call[c].no
                            /\ outcome'[call[c].no].status = "running"
  PROVE  NumberInv'
<1>1. \E m \in 0 .. MaxCalls : \A k \in Calls : outcome'[k].status # "none" <=> k <= m
  BY DEF IInv, NumberInv
<1>2. \A k \in Calls : outcome'[k].status = "none" => outcome'[k].wrote = {}
  BY DEF IInv, NumberInv
<1>3. \A d \in Callers : call'[d] # Idle => /\ call[d] # Idle /\ call'[d].no = call[d].no
                                             /\ outcome'[call'[d].no].status = "running"
  BY DEF OthersCalls
<1>4. \A d, e \in Callers :
        d # e /\ call'[d] # Idle /\ call'[e] # Idle => call'[d].no # call'[e].no
  BY <1>3 DEF IInv, NumberInv
<1> QED BY <1>1, <1>2, <1>3, <1>4 DEF NumberInv

LEMMA CallStep ==
  ASSUME IInv, NEW c \in Callers, OthersCalls(c), engine' = engine,
         \A d \in Callers : d # c => (tx'[d] = <<>> <=> tx[d] = <<>>),
         call'[c] # Idle => CallOf(c)'
  PROVE  CallInv'
<1>1. ASSUME NEW d \in Callers, d # c, call'[d] # Idle PROVE CallOf(d)'
  <2>1. call'[d] = call[d] /\ CallOf(d)
    BY <1>1 DEF OthersCalls, IInv, CallInv
  <2> QED BY <1>1, <2>1 DEF CallOf
<1> QED BY <1>1 DEF CallInv

LEMMA ReadStep ==
  ASSUME IInv, NEW c \in Callers, OthersCalls(c), engine' = engine,
         \A d \in Callers : d # c => snap'[d] = snap[d],
         \A d \in Callers : d # c => (tx'[d] = <<>> <=> tx[d] = <<>>),
         engine = "mongodb" => \A d \in Callers : d # c =>
           Touched(d)' = Touched(d) /\ \A i \in Touched(d) : table'[i] = table[i],
         call'[c].pc = "write" => ReadOf(c)'
  PROVE  ReadInv'
<1>1. ASSUME NEW d \in Callers, d # c, call'[d].pc = "write" PROVE ReadOf(d)'
  <2>1. call'[d] = call[d] /\ ReadOf(d)
    BY <1>1 DEF OthersCalls, IInv, ReadInv
  <2>2. ASSUME engine = "mongodb", tx[d] # <<>>, call[d].op \notin Creates
        PROVE  View(d)' = View(d)
    <3>1. snap[d] # None /\ snap'[d] = snap[d]
      BY <1>1, <2>1, <2>2 DEF ReadOf
    <3>2. View(d) = [i \in Ids |-> IF i \in Touched(d) THEN table[i] ELSE snap[d][i]]
      BY <2>2, <3>1 DEF View
    <3>3. View(d)' = [i \in Ids |-> IF i \in Touched(d)' THEN table'[i] ELSE snap'[d][i]]
      BY <2>2, <3>1 DEF View
    <3> QED BY <1>1, <2>2, <3>1, <3>2, <3>3
  <2> QED BY <1>1, <2>1, <2>2 DEF ReadOf
<1> QED BY <1>1 DEF ReadInv

LEMMA PageStep ==
  ASSUME IInv, NEW c \in Callers, OthersCalls(c), call'[c].pc \in {"page", "listed"} => PageOf(c)'
  PROVE  PageInv'
<1>1. ASSUME NEW d \in Callers, d # c, call'[d].pc \in {"page", "listed"} PROVE PageOf(d)'
  <2>1. call'[d] = call[d] /\ PageOf(d)
    BY <1>1 DEF OthersCalls, IInv, PageInv
  <2> QED BY <2>1 DEF PageOf
<1> QED BY <1>1 DEF PageInv

LEMMA OldVersions ==
  ASSUME NEW i \in Ids, NEW V, table'[i] \in V,
         \A d \in Callers : \A l \in DOMAIN tx'[d] :
           i \in DOMAIN tx'[d][l].undo => tx'[d][l].undo[i] \in V,
         \A d \in Callers : snap'[d] # None => snap'[d][i] \in V,
         \A d \in Callers : call'[d] # Idle /\ call'[d].op # "list" /\ i \in DOMAIN call'[d].read =>
           call'[d].read[i] \in V
  PROVE  Versions(i)' \subseteq V
  BY DEF Versions

\* Where no new version appears and no call is begun anew.
LEMMA VersionsKept ==
  ASSUME IInv, NEW c \in Callers, OthersCalls(c), \A i \in Ids : Versions(i)' \subseteq Versions(i),
         \A k \in Calls : outcome'[k].status = "none" => outcome[k].status = "none",
         call'[c] # Idle /\ call'[c].pc \notin Late =>
           \/ call[c] # Idle /\ call'[c].no = call[c].no /\ call[c].pc \notin Late
           \/ call'[c].no \in Calls /\ outcome[call'[c].no].status = "none"
  PROVE  VersionInv' /\ EtagInv'
<1>1. \A i \in Ids : \A v, w \in Versions(i)' : v.hist = w.hist => v = w
  BY DEF IInv, VersionInv
<1>2. \A k : Fresh(k) => Fresh(k)'
  <2> SUFFICES ASSUME NEW k, Fresh(k) PROVE Fresh(k)'
    OBVIOUS
  <2>1. \A i \in Ids : \A v \in Versions(i)' : k \notin By(v)
    BY DEF Fresh
  <2> QED BY <2>1 DEF Fresh, By
<1>3. \A k \in Calls : outcome'[k].status = "none" => Fresh(k)'
  BY <1>2 DEF IInv, VersionInv
<1>4. ASSUME NEW d \in Callers, call'[d] # Idle, call'[d].pc \notin Late
      PROVE  \E k : k = call'[d].no /\ Fresh(k)'
  <2>1. Fresh(call'[d].no)
    <3>1. CASE d # c
      BY <1>4, <3>1 DEF OthersCalls, IInv, VersionInv, Late
    <3>2. CASE d = c
      BY <1>4, <3>2 DEF IInv, VersionInv, Late
    <3> QED BY <3>1, <3>2
  <2> QED BY <1>2, <2>1
<1>5. \A d \in Callers : call'[d] # Idle /\ call'[d].pc \notin Late => Fresh(call[d].no)'
  BY <1>4, Zenon DEF Fresh
<1>6. \A i \in Ids : \A v \in Versions(i)' : v.live /\ ~v.loose => v.etag = v.msg
  BY DEF IInv, EtagInv
<1> QED BY <1>1, <1>3, <1>5, <1>6, Zenon DEF VersionInv, EtagInv, Late

-------------------------------------------------------------------------------
(* The other parts of the invariant, of the quiet steps.                     *)

Rest(c) ==
  /\ call'[c] # Idle => NewRead(c) /\ CallOf(c)'
  /\ call'[c].pc = "write" => ReadOf(c)'
  /\ call'[c].pc \in {"page", "listed"} => PageOf(c)'
  /\ call'[c] # Idle /\ call'[c].pc \notin Late =>
       \/ call[c] # Idle /\ call'[c].no = call[c].no /\ call[c].pc \notin Late
       \/ call'[c].no \in Calls /\ outcome[call'[c].no].status = "none"
NewSnap(c) == snap' = snap \/ snap' = [snap EXCEPT ![c] = SnapshotOf(c)]

LEMMA ReadIsKnown ==
  ASSUME IInv, NEW c \in Callers, call[c] # Idle, call'[c].read = call[c].read,
         call'[c].op = call[c].op
  PROVE  NewRead(c)
<1>1. call[c].read \in IF call[c].op = "list" THEN Progress ELSE Rows
  BY DEF IInv, TypeInv
<1>2. ASSUME call[c].op # "list"
      PROVE  \A i \in DOMAIN call[c].read : call[c].read[i] \in Versions(i)
  <2> TAKE i \in DOMAIN call[c].read
  <2>1. i \in Ids BY <1>1, <1>2, RowsAre
  <2> QED BY <1>2, <2>1, VersionFacts DEF IInv
<1> QED BY <1>1, <1>2 DEF NewRead

LEMMA IdleRest ==
  ASSUME NEW c, call'[c] = Idle
  PROVE  Rest(c)
<1>1. call'[c].pc = "idle"
  BY DEF Idle
<1> QED BY <1>1 DEF Rest

LEMMA LateRest ==
  ASSUME IInv, NEW c \in Callers, UNCHANGED <<engine, workload, table, tx>>, tx[c] # <<>>,
         NEW pc \in {"failing", "commit"}, GoesTo(c, pc), pc = "commit" => call[c].own
  PROVE  Rest(c)
<1>1. /\ call[c] # Idle /\ call'[c].pc = pc /\ call'[c].read = call[c].read
      /\ call'[c].op = call[c].op /\ call'[c].own = call[c].own
      /\ call'[c].items = call[c].items
  BY DEF GoesTo, Goes, Stays
<1>2. NewRead(c)
  BY <1>1, ReadIsKnown
<1>3. CallOf(c)
  BY <1>1 DEF IInv, CallInv
<1>4. CallOf(c)'
  <2>1. "list" \notin Batches BY DEF Batches
  <2> QED BY <1>1, <1>3, <2>1 DEF CallOf
<1> QED BY <1>1, <1>2, <1>4 DEF Rest, Late

LEMMA SettlesRest ==
  ASSUME IInv, NEW c \in Callers, UNCHANGED <<engine, workload, table, tx>>, Settles(c)
  PROVE  Rest(c)
  BY IdleRest, LateRest DEF Settles, Ends

LEMMA QuietNumbers ==
  ASSUME IInv, NEW c \in Callers, Quiet(c), Starts(c) => call'[c].no = Issued + 1
  PROVE  NumberInv'
<1>1. ASSUME Starts(c) PROVE NumberInv'
  <2> DEFINE no == call'[c].no
             m == Issued
  <2>1. /\ m \in 0 .. MaxCalls /\ (\A k \in Calls : outcome[k].status # "none" <=> k <= m)
        /\ no = m + 1 /\ no \in Calls /\ call'[c] # Idle /\ call[c] = Idle
        /\ outcome'[no].status = "running"
        /\ outcome[no].status = "none"
        /\ \A k \in Calls : k # no => outcome'[k] = outcome[k]
        /\ \A k \in Calls : outcome'[k].wrote = outcome[k].wrote
        /\ \A d \in Callers : d # c => call'[d] = call[d]
    BY <1>1, IssuedIs DEF Starts, OthersCalls, Running
  <2>2. \A d \in Callers : call[d] # Idle => call[d].no \in Calls
    BY CallFacts DEF IInv, Running
  <2> HIDE DEF no, m
  <2>3. m + 1 \in 0 .. MaxCalls
    BY <2>1 DEF Calls
  <2>4. \A k \in Calls : outcome'[k].status # "none" <=> k <= m + 1
    BY <2>1, <2>3 DEF Calls
  <2>5. \A k \in Calls : outcome'[k].status = "none" => outcome'[k].wrote = {}
    BY <2>1 DEF IInv, NumberInv
  <2>6. \A d \in Callers : d # c /\ call'[d] # Idle =>
          outcome'[call'[d].no].status = "running" /\ call'[d].no # no
    <3> SUFFICES ASSUME NEW d \in Callers, d # c, call'[d] # Idle
                 PROVE  outcome'[call'[d].no].status = "running" /\ call'[d].no # no
      OBVIOUS
    <3>1. call'[d] = call[d] BY <2>1
    <3>2. outcome[call[d].no].status = "running" /\ call[d].no \in Calls
      BY <2>2, <3>1 DEF IInv, NumberInv
    <3>3. call[d].no # no BY <2>1, <3>2
    <3> QED BY <2>1, <3>1, <3>2, <3>3
  <2>7. \A d \in Callers : call'[d] # Idle => outcome'[call'[d].no].status = "running"
    BY <2>1, <2>6 DEF no
  <2>8. \A d, e \in Callers :
          d # e /\ call'[d] # Idle /\ call'[e] # Idle => call'[d].no # call'[e].no
    <3> SUFFICES ASSUME NEW d \in Callers, NEW e \in Callers, d # e, call'[d] # Idle, call'[e] # Idle
                 PROVE  call'[d].no # call'[e].no
      OBVIOUS
    <3>1. CASE d # c /\ e # c
      <4>1. call'[d] = call[d] /\ call'[e] = call[e] BY <2>1, <3>1
      <4> QED BY <4>1 DEF IInv, NumberInv
    <3>2. CASE d = c \/ e = c
      BY <2>6, <3>2 DEF no
    <3> QED BY <3>1, <3>2
  <2> QED BY <2>3, <2>4, <2>5, <2>7, <2>8 DEF NumberInv
<1>2. ASSUME Goes(c) PROVE NumberInv'
  BY <1>2, NumberStep DEF Goes, Stays, IInv, NumberInv
<1>3. ASSUME NEW status \in {"ok", "rejected", "unseen", "tentative"}, Ends(c, status)
      PROVE  NumberInv'
  <2>1. outcome[call[c].no].status = "running" /\ call[c].no \in Calls
    BY <1>3, CallFacts DEF Ends, IInv, NumberInv, Running
  <2>2. \A d \in Callers : call[d] # Idle => call[d].no \in Calls
    BY CallFacts DEF IInv, Running
  <2>3. /\ OthersCalls(c) /\ call'[c] = Idle
        /\ \A k \in Calls : outcome'[k].status = "none" <=> outcome[k].status = "none"
        /\ \A k \in Calls : outcome'[k].wrote = outcome[k].wrote
    BY <1>3, <2>1 DEF Ends
  <2>4. \A d \in Callers : d # c /\ call[d] # Idle => outcome'[call[d].no].status = "running"
    BY <1>3, <2>2 DEF Ends, IInv, NumberInv
  <2> QED BY <2>3, <2>4, NumberStep
<1> QED BY <1>1, <1>2, <1>3 DEF Quiet

LEMMA CallRest ==
  ASSUME IInv, NEW c \in Callers, Call(c)
  PROVE  Rest(c)
<1>1. /\ Starts(c)
      /\ call'[c].read \in IF call'[c].op = "list" THEN Progress ELSE Rows
      /\ call'[c].op # "list" => DOMAIN call'[c].read = {}
      /\ CallOf(c)' /\ (call'[c].pc = "page" => PageOf(c)')
  BY CallDoes
<1>2. NewRead(c)
  BY <1>1 DEF NewRead
<1>3. /\ call'[c].pc \notin {"write", "listed"}
      /\ call'[c].no \in Calls /\ outcome[call'[c].no].status = "none"
  BY <1>1 DEF Starts, Running
<1> QED BY <1>1, <1>2, <1>3 DEF Rest

LEMMA PageRest ==
  ASSUME IInv, NEW c \in Callers, Page(c)
  PROVE  Rest(c)
<1>1. /\ call[c].pc = "page" /\ Goes(c) /\ call[c].op = "list" /\ call'[c].read \in Progress
      /\ call'[c].pc \in {"page", "listed"} /\ PageOf(c)'
  BY PageDoes
<1>2. /\ call[c] # Idle /\ call'[c].no = call[c].no /\ call'[c].op = "list"
      /\ call'[c].own = call[c].own /\ call'[c].items = call[c].items
  BY <1>1 DEF Goes, Stays
<1>3. NewRead(c)
  BY <1>1, <1>2 DEF NewRead
<1>4. CallOf(c)
  BY <1>2 DEF IInv, CallInv
<1>5. CallOf(c)'
  <2>1. "list" \notin Batches \cup Singles BY DEF Batches, Singles
  <2> QED BY <1>1, <1>2, <1>4, <2>1 DEF CallOf
<1> QED BY <1>1, <1>2, <1>3, <1>5 DEF Rest, Late

\* On MongoDB what a write has read in a transaction is what the snapshot says.
LEMMA FindRest ==
  ASSUME IInv, NEW c \in Callers, Find(c)
  PROVE  Rest(c)
<1>1. /\ call[c].pc = "find" /\ UNCHANGED <<engine, workload, table, tx>>
      /\ snap' = [snap EXCEPT ![c] = SnapshotOf(c)]
      /\ Settles(c) \/ GoesToWrite(c)
  BY FindDoes DEF Find
<1>2. ASSUME GoesToWrite(c) PROVE Rest(c)
  <2>1. /\ call[c] # Idle /\ call'[c].no = call[c].no /\ call'[c].op = call[c].op
        /\ call'[c].own = call[c].own /\ call'[c].items = call[c].items
        /\ call'[c].pc = "write" /\ call[c].op \notin Reads /\ call'[c].read \in Rows
        /\ \/ call[c].op \in Creates /\ call'[c].read = call[c].read
           \/ \A i \in DOMAIN call'[c].read : call'[c].read[i] = View(c)[i]
        /\ call[c].op = "update" => \E i \in Ids : DOMAIN call'[c].read = {i}
        /\ call[c].op = "batchUpdate" =>
             /\ \A k \in DOMAIN call[c].items : call[c].items[k].query.id \in DOMAIN call'[c].read
             /\ \A j, k \in DOMAIN call[c].items :
                  call[c].items[j].query.id = call[c].items[k].query.id => j = k
    BY <1>2 DEF GoesToWrite, Goes, Stays
  <2>2. CallOf(c)
    BY <2>1 DEF IInv, CallInv
  <2>3. call[c].op # "list"
    BY <1>1, <2>2 DEF CallOf
  <2>4. NewRead(c)
    <3>1. CASE call'[c].read = call[c].read
      BY <2>1, <3>1, ReadIsKnown
    <3>2. CASE \A i \in DOMAIN call'[c].read : call'[c].read[i] = View(c)[i]
      BY <2>1, <2>3, <3>2, ViewFacts, RowsAre DEF NewRead, IInv
    <3> QED BY <2>1, <3>1, <3>2
  <2>5. CallOf(c)'
    BY <1>1, <2>1, <2>2, <2>3 DEF CallOf
  <2>6. ASSUME engine = "mongodb", tx[c] # <<>>, call[c].op \notin Creates
        PROVE  /\ snap'[c] # None
               /\ \A i \in DOMAIN call'[c].read : call'[c].read[i] = View(c)'[i]
    <3>0. snap'[c] = SnapshotOf(c) /\ View(c) \in [Ids -> Row] /\ None \notin [Ids -> Row]
      <4>1. View(c) \in [Ids -> Row] BY ViewFacts DEF IInv
      <4>2. None \notin [Ids -> Row]
        BY InputAssumption
      <4> QED BY <1>1, <4>1, <4>2 DEF IInv, TypeInv
    <3>1. SnapshotOf(c) = IF snap[c] = None THEN View(c) ELSE snap[c]
      BY <2>6 DEF SnapshotOf
    <3>2. snap'[c] # None
      BY <3>0, <3>1
    <3>3. View(c)' = [i \in Ids |-> IF i \in Touched(c) THEN table[i] ELSE snap'[c][i]]
      <4>1. Touched(c)' = Touched(c) BY <1>1 DEF Touched
      <4> QED BY <1>1, <2>6, <3>2, <4>1 DEF View
    <3>4. \A i \in Ids : View(c)'[i] = View(c)[i]
      <4>1. CASE snap[c] # None
        <5>1. View(c) = [i \in Ids |-> IF i \in Touched(c) THEN table[i] ELSE snap[c][i]]
          BY <2>6, <4>1 DEF View
        <5> QED BY <3>0, <3>1, <3>3, <4>1, <5>1
      <4>2. CASE snap[c] = None
        <5>1. View(c) = Committed(c)
          BY <2>6, <4>2 DEF View
        <5>2. \A i \in Touched(c) : \A d \in Others(c) : i \notin Touched(d)
          BY <2>6 DEF IInv, LockInv, Others
        <5>3. \A i \in Ids : i \in Touched(c) => Committed(c)[i] = table[i]
          BY <5>2 DEF Committed
        <5> QED BY <3>0, <3>1, <3>3, <4>2, <5>1, <5>3
      <4> QED BY <4>1, <4>2
    <3>5. DOMAIN call'[c].read \subseteq Ids
      BY <2>1, RowsAre
    <3> QED BY <2>1, <2>6, <3>2, <3>4, <3>5
  <2>7. ReadOf(c)'
    BY <1>1, <2>1, <2>6 DEF ReadOf
  <2> QED BY <1>1, <2>1, <2>4, <2>5, <2>7 DEF Rest, Late
<1> QED BY <1>1, <1>2, SettlesRest

LEMMA QuietRest ==
  ASSUME IInv, NEW c \in Callers,
         \/ Call(c) \/ Find(c) \/ ReadBack(c) \/ StatementFails(c) \/ Page(c) \/ ListReturns(c)
         \/ BeginFails(c) \/ (Write(c) /\ Fail(c) /\ UNCHANGED <<table, tx>>)
  PROVE  /\ Rest(c) /\ NewSnap(c)
         /\ Starts(c) => call'[c].no = Issued + 1
         /\ used' \in [transactions : 0 .. workload.transactions, failures : 0 .. workload.failures]
<1>0. used \in [transactions : 0 .. workload.transactions, failures : 0 .. workload.failures]
  BY DEF IInv, TypeInv
<1>1. CASE Call(c)
  BY <1>0, <1>1, CallRest, CallDoes DEF Call, NewSnap
<1>2. CASE Find(c)
  <2>1. ~ Starts(c) BY <1>2, CallFacts DEF Find, Starts, IInv
  <2> QED BY <1>0, <1>2, <2>1, FindRest DEF Find, NewSnap
<1>3. CASE ReadBack(c)
  <2>1. /\ call[c].pc = "readback" /\ snap' = [snap EXCEPT ![c] = SnapshotOf(c)]
        /\ UNCHANGED <<engine, workload, table, tx, used>>
        /\ \/ call'[c] = Idle
           \/ tx[c] # <<>> /\ GoesTo(c, "failing")
           \/ tx[c] # <<>> /\ call[c].own /\ GoesTo(c, "commit")
    BY <1>3, ReadBackDoes DEF ReadBack, Ends
  <2>2. Rest(c) BY <2>1, IdleRest, LateRest
  <2>3. ~ Starts(c) BY <2>1, CallFacts DEF Starts, IInv
  <2> QED BY <1>0, <2>1, <2>2, <2>3 DEF NewSnap
<1>4. CASE StatementFails(c)
  <2>1. /\ call[c].pc # "idle" /\ UNCHANGED <<engine, workload, table, tx, snap>>
        /\ used' \in [transactions : 0 .. workload.transactions, failures : 0 .. workload.failures]
        /\ \/ Settles(c)
           \/ call'[c] = Idle
           \/ tx[c] # <<>> /\ GoesTo(c, "failing")
    <3>1. call[c].pc # "idle" /\ UNCHANGED <<engine, workload, table, tx, snap>>
      BY <1>4 DEF StatementFails
    <3> QED BY <1>4, <3>1, StatementFailsDoes DEF Ends
  <2>2. Rest(c) BY <2>1, IdleRest, LateRest, SettlesRest
  <2>3. ~ Starts(c) BY <2>1, CallFacts DEF Starts, IInv
  <2> QED BY <2>1, <2>2, <2>3 DEF NewSnap
<1>5. CASE Page(c)
  <2>1. ~ Starts(c) BY <1>5, CallFacts DEF Page, Starts, IInv
  <2> QED BY <1>0, <1>5, <2>1, PageRest DEF Page, NewSnap
<1>6. CASE ListReturns(c) \/ (Write(c) /\ Fail(c) /\ UNCHANGED <<table, tx>>)
  <2>1. /\ call[c].pc \in {"write", "listed"} /\ (Fail(c) \/ Return(c))
        /\ UNCHANGED <<engine, workload, table, tx, snap, used>>
    BY <1>6 DEF ListReturns, Write
  <2>2. Rest(c) BY <2>1, SettlesIf, SettlesRest
  <2>3. ~ Starts(c) BY <2>1, CallFacts DEF Starts, IInv
  <2> QED BY <1>0, <2>1, <2>2, <2>3 DEF NewSnap
<1>7. CASE BeginFails(c)
  <2>1. /\ call[c].pc = "begin" /\ Fail(c) /\ UNCHANGED <<engine, workload, table, tx, snap, used>>
    BY <1>7 DEF BeginFails
  <2>2. tx[c] = <<>>
    <3>1. call[c] # Idle BY <2>1, CallFacts DEF IInv
    <3> QED BY <2>1, <3>1 DEF IInv, CallInv, CallOf
  <2>3. call'[c] = Idle
    <3>1. call \in [Callers -> {Idle} \cup Running] BY DEF IInv, TypeInv
    <3> QED BY <2>1, <2>2, <3>1 DEF Fail
  <2>4. ~ Starts(c) BY <2>1, CallFacts DEF Starts, IInv
  <2> QED BY <1>0, <2>1, <2>3, <2>4, IdleRest DEF NewSnap
<1> QED BY <1>1, <1>2, <1>3, <1>4, <1>5, <1>6, <1>7

OtherInv == TypeInv /\ NumberInv /\ CallInv /\ VersionInv /\ EtagInv /\ ReadInv /\ PageInv

LEMMA QuietOther ==
  ASSUME IInv, NEW c \in Callers, Quiet(c), Rest(c), NewSnap(c),
         Starts(c) => call'[c].no = Issued + 1,
         used' \in [transactions : 0 .. workload.transactions, failures : 0 .. workload.failures]
  PROVE  OtherInv'
<1>1. /\ engine' = engine /\ workload' = workload /\ table' = table /\ tx' = tx /\ OthersCalls(c)
      /\ outcome' \in [Calls -> [status : Statuses, wrote : SUBSET Ids, told : SUBSET Ids]]
      /\ call'[c] # Idle => NewRead(c) /\ CallOf(c)'
      /\ call'[c].pc = "write" => ReadOf(c)'
      /\ call'[c].pc \in {"page", "listed"} => PageOf(c)'
  BY DEF Quiet, Starts, Goes, Stays, Ends, Rest
<1>2. /\ snap' \in [Callers -> {None} \cup [Ids -> Row]]
      /\ \A d \in Callers : d # c => snap'[d] = snap[d]
      /\ snap'[c] = snap[c] \/ snap'[c] = SnapshotOf(c)
      /\ \A d \in Callers : tx[d] = <<>> => snap'[d] = None
  <2>1. /\ snap \in [Callers -> {None} \cup [Ids -> Row]]
        /\ \A d \in Callers : tx[d] = <<>> => snap[d] = None
        /\ SnapshotOf(c) \in {None} \cup [Ids -> Row]
        /\ tx[c] = <<>> => SnapshotOf(c) = None
    BY ViewFacts DEF IInv, TypeInv
  <2> QED BY <2>1 DEF NewSnap
<1>3. TypeInv'
  <2>1. table' \in [Ids -> Row] /\ tx' \in [Callers -> Seq(Savepoints)]
    BY <1>1 DEF IInv, TypeInv
  <2> QED BY <1>1, <1>2, <2>1, TypeStep
<1>4. NumberInv'
  BY QuietNumbers
<1>5. CallInv'
  BY <1>1, CallStep
<1>6. ReadInv'
  <2>1. \A d \in Callers : Touched(d)' = Touched(d)
    BY <1>1 DEF Touched
  <2> QED BY <1>1, <1>2, <2>1, ReadStep
<1>7. PageInv'
  BY <1>1, PageStep
<1>8. ASSUME NEW i \in Ids PROVE Versions(i)' \subseteq Versions(i)
  <2> DEFINE V == Versions(i)
  <2>1. /\ table[i] \in V
        /\ \A d \in Callers : \A l \in DOMAIN tx[d] :
              i \in DOMAIN tx[d][l].undo => tx[d][l].undo[i] \in V
        /\ \A d \in Callers : snap[d] # None => snap[d][i] \in V
        /\ \A d \in Callers : call[d] # Idle /\ call[d].op # "list" /\ i \in DOMAIN call[d].read =>
              call[d].read[i] \in V
        /\ SnapshotOf(c) # None => SnapshotOf(c)[i] \in V
    BY VersionFacts, ViewFacts DEF IInv
  <2>2. call'[c] # Idle /\ call'[c].op # "list" /\ i \in DOMAIN call'[c].read => call'[c].read[i] \in V
    BY <1>1 DEF NewRead
  <2> HIDE DEF V
  <2>3. table'[i] \in V BY <1>1, <2>1
  <2>4. \A d \in Callers : \A l \in DOMAIN tx'[d] :
              i \in DOMAIN tx'[d][l].undo => tx'[d][l].undo[i] \in V
    BY <1>1, <2>1
  <2>5. \A d \in Callers : snap'[d] # None => snap'[d][i] \in V
    BY <1>2, <2>1
  <2>6. \A d \in Callers : call'[d] # Idle /\ call'[d].op # "list" /\ i \in DOMAIN call'[d].read =>
              call'[d].read[i] \in V
    BY <1>1, <2>1, <2>2 DEF OthersCalls
  <2>7. Versions(i)' \subseteq V
    BY <2>3, <2>4, <2>5, <2>6, OldVersions
  <2> QED BY <2>7 DEF V
<1>9. \A k \in Calls : outcome'[k].status = "none" => outcome[k].status = "none"
  <2>1. CASE Starts(c) BY <2>1 DEF Starts
  <2>2. CASE Goes(c) BY <2>2 DEF Goes
  <2>3. ASSUME NEW status \in {"ok", "rejected", "unseen", "tentative"}, Ends(c, status)
        PROVE  \A k \in Calls : outcome'[k].status = "none" => outcome[k].status = "none"
    BY <2>3 DEF Ends
  <2> QED BY <2>1, <2>2, <2>3 DEF Quiet
<1>10. VersionInv' /\ EtagInv'
  <2>1. call'[c] # Idle /\ call'[c].pc \notin Late =>
           \/ call[c] # Idle /\ call'[c].no = call[c].no /\ call[c].pc \notin Late
           \/ call'[c].no \in Calls /\ outcome[call'[c].no].status = "none"
    BY DEF Rest
  <2> QED BY <1>1, <1>8, <1>9, <2>1, VersionsKept
<1> QED BY <1>3, <1>4, <1>5, <1>6, <1>7, <1>10 DEF OtherInv

LEMMA QuietKeeps ==
  ASSUME IInv, NEW c \in Callers,
         \/ Call(c) \/ Find(c) \/ ReadBack(c) \/ StatementFails(c) \/ Page(c) \/ ListReturns(c)
         \/ BeginFails(c) \/ (Write(c) /\ Fail(c) /\ UNCHANGED <<table, tx>>)
  PROVE  CoreInv' /\ OtherInv'
<1>1. Quiet(c)
  BY QuietSteps
<1>2. /\ Rest(c) /\ NewSnap(c)
      /\ Starts(c) => call'[c].no = Issued + 1
      /\ used' \in [transactions : 0 .. workload.transactions, failures : 0 .. workload.failures]
  BY QuietRest
<1>3. CoreInv' BY <1>1, QuietCore
<1>4. OtherInv' BY <1>1, <1>2, QuietOther
<1> QED BY <1>3, <1>4

-------------------------------------------------------------------------------
(* The other parts of the invariant, of the steps that open or end savepoints. *)

LEMMA OtherKept ==
  ASSUME IInv, NEW c \in Callers, engine' = engine /\ workload' = workload, table' \in [Ids -> Row],
         tx' \in [Callers -> Seq(Savepoints)], OthersCalls(c), Rest(c),
         outcome' \in [Calls -> [status : Statuses, wrote : SUBSET Ids, told : SUBSET Ids]],
         used' \in [transactions : 0 .. workload.transactions, failures : 0 .. workload.failures],
         snap' = snap \/ snap' = [snap EXCEPT ![c] = None],
         tx'[c] = <<>> => snap'[c] = None,
         \A d \in Callers : d # c => tx'[d] = tx[d],
         \A d \in Callers : d # c => \A i \in Touched(d) : engine = "mongodb" => table'[i] = table[i],
         \A i \in Ids : table'[i] \in Versions(i),
         \A d \in Callers : \A l \in DOMAIN tx'[d] : \A i \in DOMAIN tx'[d][l].undo :
           tx'[d][l].undo[i] \in Versions(i),
         \A k \in Calls : outcome'[k].status = "none" <=> outcome[k].status = "none",
         \A k \in Calls : outcome'[k].wrote = outcome[k].wrote,
         \A d \in Callers : d # c /\ call[d] # Idle => outcome'[call[d].no].status = "running",
         call'[c] # Idle => /\ call[c] # Idle /\ call'[c].no = call[c].no
                            /\ outcome'[call[c].no].status = "running"
  PROVE  OtherInv'
<1>1. /\ snap' \in [Callers -> {None} \cup [Ids -> Row]]
      /\ \A d \in Callers : d # c => snap'[d] = snap[d]
      /\ snap'[c] = snap[c] \/ snap'[c] = None
      /\ \A d \in Callers : tx'[d] = <<>> => snap'[d] = None
  <2>1. /\ snap \in [Callers -> {None} \cup [Ids -> Row]]
        /\ \A d \in Callers : tx[d] = <<>> => snap[d] = None
    BY DEF IInv, TypeInv
  <2> QED BY <2>1
<1>2. TypeInv'
  BY <1>1, TypeStep DEF Rest
<1>3. NumberInv'
  BY NumberStep
<1>4. CallInv'
  BY CallStep DEF Rest
<1>5. ReadInv'
  <2>1. \A d \in Callers : d # c => Touched(d)' = Touched(d)
    BY DEF Touched
  <2> QED BY <1>1, <2>1, ReadStep DEF Rest
<1>6. PageInv'
  BY PageStep DEF Rest
<1>7. ASSUME NEW i \in Ids PROVE Versions(i)' \subseteq Versions(i)
  <2> DEFINE V == Versions(i)
  <2>1. /\ \A d \in Callers : snap[d] # None => snap[d][i] \in V
        /\ \A d \in Callers : call[d] # Idle /\ call[d].op # "list" /\ i \in DOMAIN call[d].read =>
              call[d].read[i] \in V
    BY VersionFacts DEF IInv
  <2>2. call'[c] # Idle /\ call'[c].op # "list" /\ i \in DOMAIN call'[c].read => call'[c].read[i] \in V
    BY DEF NewRead, Rest
  <2>3. table'[i] \in V OBVIOUS
  <2>4. \A d \in Callers : \A l \in DOMAIN tx'[d] :
              i \in DOMAIN tx'[d][l].undo => tx'[d][l].undo[i] \in V
    OBVIOUS
  <2> HIDE DEF V
  <2>5. \A d \in Callers : snap'[d] # None => snap'[d][i] \in V
    BY <1>1, <2>1
  <2>6. \A d \in Callers : call'[d] # Idle /\ call'[d].op # "list" /\ i \in DOMAIN call'[d].read =>
              call'[d].read[i] \in V
    BY <2>1, <2>2 DEF OthersCalls
  <2>7. Versions(i)' \subseteq V
    BY <2>3, <2>4, <2>5, <2>6, OldVersions
  <2> QED BY <2>7 DEF V
<1>8. VersionInv' /\ EtagInv'
  <2>1. call'[c] # Idle /\ call'[c].pc \notin Late =>
           \/ call[c] # Idle /\ call'[c].no = call[c].no /\ call[c].pc \notin Late
           \/ call'[c].no \in Calls /\ outcome[call'[c].no].status = "none"
    BY DEF Rest
  <2> QED BY <1>7, <2>1, VersionsKept
<1> QED BY <1>2, <1>3, <1>4, <1>5, <1>6, <1>8 DEF OtherInv

LEMMA BeginKeeps ==
  ASSUME IInv, NEW c \in Callers, BeginBatch(c) \/ Transaction(c)
  PROVE  CoreInv' /\ OtherInv'
<1>1. Begins(c)
  BY BeginSteps
<1>2. /\ tx' \in [Callers -> Seq(Savepoints)]
      /\ \A d \in Callers : d # c => tx'[d] = tx[d]
      /\ tx'[c] # <<>>
      /\ \A d \in Callers : \A l \in DOMAIN tx'[d] : \A i \in DOMAIN tx'[d][l].undo :
              l \in DOMAIN tx[d] /\ tx'[d][l] = tx[d][l]
  BY <1>1, BeginTx
<1>3. /\ engine' = engine /\ workload' = workload /\ table' = table /\ outcome' = outcome /\ OthersCalls(c)
  BY <1>1 DEF Begins
<1>4. snap' = snap
  BY DEF BeginBatch, Transaction, Begin
<1>5. used' \in [transactions : 0 .. workload.transactions, failures : 0 .. workload.failures]
  <2>1. used \in [transactions : 0 .. workload.transactions, failures : 0 .. workload.failures]
        /\ workload.transactions \in Nat
    BY InputAssumption DEF IInv, TypeInv, Workload
  <2>2. CASE BeginBatch(c) BY <2>1, <2>2 DEF BeginBatch
  <2>3. CASE Transaction(c) BY <2>1, <2>3 DEF Transaction
  <2> QED BY <2>2, <2>3
<1>7. /\ call'[c] = Idle \/ GoesTo(c, "find")
      /\ Rest(c)
  <2>1. CASE Transaction(c)
    <3>1. call'[c] = Idle BY <2>1 DEF Transaction
    <3> QED BY <3>1, IdleRest
  <2>2. CASE BeginBatch(c)
    <3>1. call[c] # Idle /\ call[c].pc = "begin"
      BY <2>2, CallFacts DEF BeginBatch, IInv
    <3>2. GoesTo(c, "find")
      BY <1>3, <2>2, <3>1, GoesIf DEF BeginBatch, Stages
    <3>3. /\ call'[c].pc = "find" /\ call'[c].read = call[c].read /\ call'[c].no = call[c].no
          /\ call'[c].op = call[c].op /\ call'[c].own = call[c].own /\ call'[c].items = call[c].items
      BY <3>2 DEF GoesTo, Goes, Stays
    <3>4. NewRead(c) BY <3>1, <3>3, ReadIsKnown
    <3>5. CallOf(c) BY <3>1 DEF IInv, CallInv
    <3>6. CallOf(c)'
      <4>1. call[c].op # "list" BY <3>1, <3>5 DEF CallOf
      <4> QED BY <1>2, <3>1, <3>3, <3>5, <4>1 DEF CallOf
    <3> QED BY <3>1, <3>2, <3>3, <3>4, <3>6 DEF Rest, Late
  <2> QED BY <2>1, <2>2
<1>8. call'[c] # Idle => /\ call[c] # Idle /\ call'[c].no = call[c].no
                         /\ outcome'[call[c].no].status = "running"
  BY <1>3, <1>7 DEF GoesTo, Goes, Stays, IInv, NumberInv
<1>9. \A i \in Ids : table'[i] \in Versions(i)
  BY <1>3, VersionFacts DEF IInv
<1>10. \A d \in Callers : \A l \in DOMAIN tx'[d] : \A i \in DOMAIN tx'[d][l].undo :
         tx'[d][l].undo[i] \in Versions(i)
  <2> TAKE d \in Callers
  <2> TAKE l \in DOMAIN tx'[d]
  <2> TAKE i \in DOMAIN tx'[d][l].undo
  <2>1. l \in DOMAIN tx[d] /\ tx'[d][l] = tx[d][l] /\ i \in DOMAIN tx[d][l].undo
    BY <1>2
  <2>2. i \in Ids
    BY <2>1, TxFacts DEF IInv
  <2> QED BY <2>1, <2>2, VersionFacts DEF IInv
<1>11. /\ table' \in [Ids -> Row]
       /\ outcome' \in [Calls -> [status : Statuses, wrote : SUBSET Ids, told : SUBSET Ids]]
       /\ \A d \in Callers : d # c /\ call[d] # Idle => outcome'[call[d].no].status = "running"
  BY <1>3 DEF IInv, TypeInv, NumberInv
<1>12. OtherInv'
  BY <1>2, <1>3, <1>4, <1>5, <1>7, <1>8, <1>9, <1>10, <1>11, OtherKept
<1> QED BY <1>1, <1>12, BeginCore

LEMMA CommitKeeps ==
  ASSUME IInv, NEW c \in Callers, Commit(c)
  PROVE  CoreInv' /\ OtherInv'
<1>1. /\ UNCHANGED <<engine, workload, table>> /\ OthersCalls(c) /\ call'[c] = Idle
      /\ outcome' \in [Calls -> [status : Statuses, wrote : SUBSET Ids, told : SUBSET Ids]]
      /\ \A k \in Calls :
              /\ outcome'[k].wrote = outcome[k].wrote
              /\ k \in Acknowledged(c) => outcome'[k].status = "ok"
              /\ k \notin Acknowledged(c) => outcome'[k] = outcome[k]
      /\ 1 \in DOMAIN tx[c] /\ tx[c] # <<>>
      /\ tx' \in [Callers -> Seq(Savepoints)] /\ tx'[c] = <<>> /\ DOMAIN tx'[c] = {}
      /\ \A d \in Callers : d # c => tx'[d] = tx[d]
  BY CommitDoes
<1>2. \A k \in Acknowledged(c) :
         /\ outcome[k].status \in {"running", "tentative", "guest"}
         /\ \A d \in Callers : call[d] # Idle /\ call[d].no = k => d = c
  BY <1>1, AcknowledgedAre
<1>3. snap' = [snap EXCEPT ![c] = None] /\ used' = used
  BY DEF Commit
<1>5. snap'[c] = None
  BY <1>3 DEF IInv, TypeInv
<1>6. Rest(c)
  BY <1>1, IdleRest
<1>7. \A i \in Ids : table'[i] \in Versions(i)
  BY <1>1, VersionFacts DEF IInv
<1>8. \A d \in Callers : \A l \in DOMAIN tx'[d] : \A i \in DOMAIN tx'[d][l].undo :
         tx'[d][l].undo[i] \in Versions(i)
  <2> TAKE d \in Callers
  <2> TAKE l \in DOMAIN tx'[d]
  <2> TAKE i \in DOMAIN tx'[d][l].undo
  <2>1. l \in DOMAIN tx[d] /\ tx'[d][l] = tx[d][l] /\ i \in DOMAIN tx[d][l].undo
    BY <1>1
  <2>2. i \in Ids
    BY <2>1, TxFacts DEF IInv
  <2> QED BY <2>1, <2>2, VersionFacts DEF IInv
<1>9. \A k \in Calls : outcome'[k].status = "none" <=> outcome[k].status = "none"
  BY <1>1, <1>2
<1>10. \A d \in Callers : d # c /\ call[d] # Idle => outcome'[call[d].no].status = "running"
  <2> SUFFICES ASSUME NEW d \in Callers, d # c, call[d] # Idle
               PROVE  outcome'[call[d].no].status = "running"
    OBVIOUS
  <2>1. call[d].no \in Calls /\ outcome[call[d].no].status = "running"
    BY CallFacts DEF IInv, NumberInv, Running
  <2>2. call[d].no \notin Acknowledged(c) BY <1>2
  <2> QED BY <1>1, <2>1, <2>2
<1>11. /\ table' \in [Ids -> Row] /\ engine' = engine /\ workload' = workload
       /\ used' \in [transactions : 0 .. workload.transactions, failures : 0 .. workload.failures]
  BY <1>1, <1>3 DEF IInv, TypeInv
<1>12. \A d \in Callers : d # c => \A i \in Touched(d) : engine = "mongodb" => table'[i] = table[i]
  BY <1>1
<1>13. OtherInv'
  BY <1>1, <1>3, <1>5, <1>6, <1>7, <1>8, <1>9, <1>10, <1>11, <1>12, OtherKept
<1> QED BY <1>13, CommitCore

LEMMA ReleaseKeeps ==
  ASSUME IInv, NEW c \in Callers, Release(c)
  PROVE  CoreInv' /\ OtherInv'
<1>1. /\ UNCHANGED <<engine, workload, table, call, outcome>> /\ call[c] = Idle
      /\ tx' \in [Callers -> Seq(Savepoints)]
      /\ \A d \in Callers : d # c => tx'[d] = tx[d]
  BY ReleaseDoes
<1>2. PICK m \in Nat \ {0} :
              /\ Len(tx[c]) = m + 1 /\ Len(tx'[c]) = m
              /\ DOMAIN tx[c] = 1 .. m + 1 /\ DOMAIN tx'[c] = 1 .. m
              /\ \A l \in 1 .. m : l # m => tx'[c][l] = tx[c][l]
              /\ tx'[c][m].calls = tx[c][m].calls \cup tx[c][m + 1].calls
              /\ DOMAIN tx'[c][m].undo = DOMAIN tx[c][m].undo \cup DOMAIN tx[c][m + 1].undo
              /\ \A i \in DOMAIN tx'[c][m].undo :
                   tx'[c][m].undo[i] = IF i \in DOMAIN tx[c][m].undo THEN tx[c][m].undo[i]
                                       ELSE tx[c][m + 1].undo[i]
  BY ReleaseDoes
<1>3. snap' = snap /\ used' = used
  BY DEF Release
<1>4. tx[c] # <<>> /\ tx'[c] # <<>>
  <2>1. DOMAIN <<>> = {} OBVIOUS
  <2> QED BY <1>2, <2>1
<1>6. OthersCalls(c) /\ call'[c] = Idle
  BY <1>1 DEF OthersCalls, IInv, TypeInv
<1>7. Rest(c)
  BY <1>6, IdleRest
<1>8. \A i \in Ids : table'[i] \in Versions(i)
  BY <1>1, VersionFacts DEF IInv
<1>9. \A d \in Callers : \A l \in DOMAIN tx'[d] : \A i \in DOMAIN tx'[d][l].undo :
         tx'[d][l].undo[i] \in Versions(i)
  <2> TAKE d \in Callers
  <2> TAKE l \in DOMAIN tx'[d]
  <2> TAKE i \in DOMAIN tx'[d][l].undo
  <2>1. PICK o \in DOMAIN tx[d] : i \in DOMAIN tx[d][o].undo /\ tx'[d][l].undo[i] = tx[d][o].undo[i]
    <3>1. CASE d # c BY <1>1, <3>1
    <3>2. CASE d = c /\ l # m BY <1>2, <3>2
    <3>3. CASE d = c /\ l = m BY <1>2, <3>3
    <3> QED BY <3>1, <3>2, <3>3
  <2>2. i \in Ids
    BY <2>1, TxFacts DEF IInv
  <2> QED BY <2>1, <2>2, VersionFacts DEF IInv
<1>10. /\ table' \in [Ids -> Row] /\ engine' = engine /\ workload' = workload
       /\ used' \in [transactions : 0 .. workload.transactions, failures : 0 .. workload.failures]
       /\ outcome' \in [Calls -> [status : Statuses, wrote : SUBSET Ids, told : SUBSET Ids]]
       /\ \A d \in Callers : d # c /\ call[d] # Idle => outcome'[call[d].no].status = "running"
       /\ \A d \in Callers : d # c => \A i \in Touched(d) : engine = "mongodb" => table'[i] = table[i]
  BY <1>1, <1>3 DEF IInv, TypeInv, NumberInv
<1>11. OtherInv'
  BY <1>1, <1>3, <1>4, <1>6, <1>7, <1>8, <1>9, <1>10, OtherKept
<1> QED BY <1>11, ReleaseCore

LEMMA RollbackKeeps ==
  ASSUME IInv, NEW c \in Callers, Rollback(c)
  PROVE  CoreInv' /\ OtherInv'
<1> DEFINE n == Len(tx[c])
           undo == tx[c][n].undo
           own == IF call[c] = Idle THEN {} ELSE {call[c].no}
<1>1. /\ engine' = engine /\ workload' = workload /\ OthersCalls(c) /\ call'[c] = Idle
      /\ call[c] # Idle => call[c].pc = "failing"
      /\ n \in Nat \ {0} /\ n \in DOMAIN tx[c] /\ tx[c] # <<>>
      /\ undo \in Rows /\ own \subseteq Calls
      /\ table' \in [Ids -> Row]
      /\ \A i \in Ids : table'[i] = IF i \in DOMAIN undo THEN undo[i] ELSE table[i]
      /\ tx' \in [Callers -> Seq(Savepoints)] /\ tx'[c] = Front(tx[c]) /\ Len(tx'[c]) = n - 1
      /\ \A d \in Callers : d # c => tx'[d] = tx[d]
      /\ \A d \in Callers : \A l \in DOMAIN tx'[d] :
           l \in DOMAIN tx[d] /\ tx'[d][l] = tx[d][l] /\ (d = c => l < n)
      /\ \A d \in Callers : \A l \in DOMAIN tx[d] : (d = c /\ l = n) \/ l \in DOMAIN tx'[d]
      /\ outcome' \in [Calls -> [status : Statuses, wrote : SUBSET Ids, told : SUBSET Ids]]
      /\ \A k \in Calls :
           /\ outcome'[k].wrote = outcome[k].wrote
           /\ k \in own => outcome'[k].status = "rejected"
           /\ k \notin own /\ k \in tx[c][n].calls => outcome'[k].status = "undone"
           /\ k \notin own /\ k \notin tx[c][n].calls => outcome'[k] = outcome[k]
  BY RollbackDoes
<1>2. /\ \A k \in tx[c][n].calls : outcome[k].status \in {"running", "tentative", "guest"}
      /\ \A d \in Callers : call[d] # Idle /\ call[d].no \in tx[c][n].calls => d = c
      /\ \A d \in Callers : call[d] # Idle => outcome[call[d].no].status = "running"
      /\ \A d \in Callers : d # c /\ call[d] # Idle /\ call[c] # Idle => call[d].no # call[c].no
  BY <1>1 DEF IInv, SavedInv, NumberInv
<1>3. \A d \in Callers : call[d] # Idle => call[d].no \in Calls
  BY CallFacts DEF IInv, Running
<1>4. /\ IF n = 1 THEN snap' = [snap EXCEPT ![c] = None] ELSE snap' = snap
      /\ used' = used
  BY DEF Rollback
<1>5. tx'[c] = <<>> <=> n = 1
  <2>1. tx'[c] \in Seq(Savepoints) BY <1>1
  <2>2. tx'[c] = <<>> <=> Len(tx'[c]) = 0 BY <2>1, EmptySeq
  <2> QED BY <1>1, <2>2
<1>6. undo \in Rows /\ DOMAIN undo \subseteq Touched(c) /\ DOMAIN undo \subseteq Ids
  BY <1>1, TouchedFacts, RowsAre DEF IInv
<1>7. \A i \in Ids : table'[i] \in Versions(i)
  BY <1>1, VersionFacts DEF IInv
<1>8. \A k \in own : outcome[k].status = "running"
  BY <1>2
<1>9. \A k \in Calls : outcome'[k].status = "none" <=> outcome[k].status = "none"
  <2> SUFFICES ASSUME NEW k \in Calls PROVE outcome'[k].status = "none" <=> outcome[k].status = "none"
    OBVIOUS
  <2>1. CASE k \in own BY <1>1, <1>8, <2>1
  <2>2. CASE k \notin own /\ k \in tx[c][n].calls BY <1>1, <1>2, <2>2
  <2>3. CASE k \notin own /\ k \notin tx[c][n].calls BY <1>1, <2>3
  <2> QED BY <2>1, <2>2, <2>3
<1>10. \A d \in Callers : d # c /\ call[d] # Idle => outcome'[call[d].no].status = "running"
  <2> SUFFICES ASSUME NEW d \in Callers, d # c, call[d] # Idle
               PROVE  outcome'[call[d].no].status = "running"
    OBVIOUS
  <2>1. call[d].no \notin own /\ call[d].no \notin tx[c][n].calls /\ call[d].no \in Calls
    BY <1>2, <1>3
  <2> QED BY <1>1, <1>2, <2>1
<1>11. /\ used' \in [transactions : 0 .. workload.transactions, failures : 0 .. workload.failures]
       /\ Rest(c)
  BY <1>1, <1>4, IdleRest DEF IInv, TypeInv
<1>12. \A d \in Callers : d # c => \A i \in Touched(d) : engine = "mongodb" => table'[i] = table[i]
  <2> SUFFICES ASSUME NEW d \in Callers, d # c, NEW i \in Touched(d), engine = "mongodb"
               PROVE  table'[i] = table[i]
    OBVIOUS
  <2>1. i \notin Touched(c) BY DEF IInv, LockInv
  <2>2. i \in Ids BY TouchedFacts DEF IInv
  <2> QED BY <1>1, <1>6, <2>1, <2>2
<1>13. \A d \in Callers : \A l \in DOMAIN tx'[d] : \A i \in DOMAIN tx'[d][l].undo :
         tx'[d][l].undo[i] \in Versions(i)
  <2> TAKE d \in Callers
  <2> TAKE l \in DOMAIN tx'[d]
  <2> TAKE i \in DOMAIN tx'[d][l].undo
  <2>1. l \in DOMAIN tx[d] /\ tx'[d][l] = tx[d][l] /\ i \in DOMAIN tx[d][l].undo
    BY <1>1
  <2>2. i \in Ids
    BY <2>1, TxFacts DEF IInv
  <2> QED BY <2>1, <2>2, VersionFacts DEF IInv
<1>14. /\ snap' = snap \/ snap' = [snap EXCEPT ![c] = None]
       /\ tx'[c] = <<>> => snap'[c] = None
  <2> HIDE DEF n, undo, own
  <2>1. CASE n = 1 BY <1>4, <2>1 DEF IInv, TypeInv
  <2>2. CASE n # 1 BY <1>4, <1>5, <2>2
  <2> QED BY <2>1, <2>2
<1>15. OtherInv'
  <2> HIDE DEF n, undo, own
  <2>1. /\ engine' = engine /\ workload' = workload /\ OthersCalls(c) /\ call'[c] = Idle
        /\ table' \in [Ids -> Row] /\ tx' \in [Callers -> Seq(Savepoints)]
        /\ \A d \in Callers : d # c => tx'[d] = tx[d]
        /\ outcome' \in [Calls -> [status : Statuses, wrote : SUBSET Ids, told : SUBSET Ids]]
        /\ \A k \in Calls : outcome'[k].wrote = outcome[k].wrote
    BY <1>1
  <2> QED BY <2>1, <1>7, <1>9, <1>10, <1>11, <1>12, <1>13, <1>14, OtherKept
<1> QED BY <1>15, RollbackCore

-------------------------------------------------------------------------------
(* The other parts of the invariant, of a write.                             *)

LEMMA WriteOther ==
  ASSUME IInv, NEW c \in Callers, NEW new \in Rows, Wrote(c, new), UNCHANGED <<snap, used>>
  PROVE  OtherInv'
<1> DEFINE no == call[c].no
<1>1. /\ tx' \in [Callers -> Seq(Savepoints)]
      /\ \A d \in Callers : /\ DOMAIN tx'[d] = DOMAIN tx[d]
                            /\ tx'[d] = <<>> <=> tx[d] = <<>>
      /\ \A d \in Callers : \A l \in DOMAIN tx[d] :
           /\ DOMAIN tx[d][l].undo \subseteq DOMAIN tx'[d][l].undo
           /\ \A i \in DOMAIN tx[d][l].undo : tx'[d][l].undo[i] = tx[d][l].undo[i]
      /\ \A d \in Callers : \A l \in DOMAIN tx[d] : \A i \in DOMAIN tx'[d][l].undo :
              \/ i \in DOMAIN tx[d][l].undo
              \/ d \in Owners(c) /\ i \in DOMAIN new /\ tx'[d][l].undo[i] = table[i]
      /\ outcome'[no].status \in {"ok", "running", "rejected", "tentative", "guest"}
  BY WroteTx DEF Adds
<1>2. /\ call[c] # Idle /\ no \in Calls /\ outcome[no].status = "running"
      /\ \A d \in Callers : d # c /\ call[d] # Idle => call[d].no # no
  BY WriterFacts DEF Wrote
<1>3. /\ engine' = engine /\ workload' = workload /\ table' \in [Ids -> Row] /\ call[c].pc = "write"
      /\ \A i \in Ids : table'[i] = IF i \in DOMAIN new THEN new[i] ELSE table[i]
      /\ outcome' \in [Calls -> [status : Statuses, wrote : SUBSET Ids, told : SUBSET Ids]]
      /\ \A k \in Calls : k # no => outcome'[k] = outcome[k]
      /\ OthersCalls(c)
      /\ \/ call'[c] = Idle
         \/ /\ Stays(c) /\ call'[c].pc \in Late /\ outcome'[no].status = "running"
            /\ call'[c].read = call[c].read
            /\ call'[c].pc \in {"failing", "commit"} => tx[c] # <<>>
            /\ call'[c].pc = "commit" => call[c].own
            /\ call'[c].pc = "readback" => engine = "mysql" /\ call[c].op \in Creates \cup {"update", "batchUpdate"}
  BY DEF Wrote
<1>4. \A i \in DOMAIN new :
        /\ i \in Ids /\ By(new[i]) = By(table[i]) \cup {no}
        /\ new[i].live /\ ~ new[i].loose => new[i].etag = new[i].msg
        /\ \A d \in Callers : i \in Touched(d) => d \in Owners(c)
  BY NotLocked, RowsAre DEF Wrote, Writes
<1> HIDE DEF no
<1>5. \A d \in Callers : call[d] # Idle => call[d].no \in Calls
  BY CallFacts DEF IInv, Running
<1>6. CallOf(c)
  BY <1>2 DEF IInv, CallInv
<1>7. call'[c] # Idle => NewRead(c) /\ CallOf(c)' /\ call'[c].pc \in Late
  <2> SUFFICES ASSUME call'[c] # Idle PROVE NewRead(c) /\ CallOf(c)' /\ call'[c].pc \in Late
    OBVIOUS
  <2>1. /\ call'[c].op = call[c].op /\ call'[c].read = call[c].read /\ call'[c].pc \in Late
        /\ call'[c].own = call[c].own /\ call'[c].items = call[c].items
    BY <1>3 DEF Stays
  <2>2. NewRead(c) BY <1>2, <2>1, ReadIsKnown
  <2>3. CallOf(c)'
    BY <1>1, <1>3, <1>6, <2>1 DEF CallOf, Late
  <2> QED BY <2>1, <2>2, <2>3
<1>8. TypeInv'
  <2>1. /\ snap' \in [Callers -> {None} \cup [Ids -> Row]]
        /\ \A d \in Callers : tx'[d] = <<>> => snap'[d] = None
        /\ used' \in [transactions : 0 .. workload.transactions, failures : 0 .. workload.failures]
    BY <1>1 DEF IInv, TypeInv
  <2> QED BY <1>1, <1>3, <1>7, <2>1, TypeStep
<1>9. NumberInv'
  <2>1. \A k \in Calls : outcome'[k].status = "none" <=> outcome[k].status = "none"
    BY <1>1, <1>2, <1>3
  <2>2. \A k \in Calls : outcome'[k].status = "none" => outcome'[k].wrote = outcome[k].wrote
    BY <1>1, <1>2, <1>3
  <2>3. \A d \in Callers : d # c /\ call[d] # Idle => outcome'[call[d].no].status = "running"
    BY <1>2, <1>3, <1>5 DEF IInv, NumberInv
  <2>4. call'[c] # Idle => /\ call[c] # Idle /\ call'[c].no = call[c].no
                           /\ outcome'[call[c].no].status = "running"
    BY <1>2, <1>3 DEF no, Stays
  <2> QED BY <1>3, <2>1, <2>2, <2>3, <2>4, NumberStep
<1>10. CallInv'
  BY <1>1, <1>3, <1>7, CallStep
<1>11. call'[c].pc \notin {"write", "page", "listed"}
  BY <1>7 DEF Late, Idle
<1>12. ReadInv'
  <2>1. ASSUME engine = "mongodb", NEW d \in Callers, d # c
        PROVE  Touched(d)' = Touched(d) /\ \A i \in Touched(d) : table'[i] = table[i]
    <3>1. d \notin Owners(c) BY <2>1, OneOwner
    <3>2. \A l \in DOMAIN tx[d] : DOMAIN tx'[d][l].undo = DOMAIN tx[d][l].undo
      BY <1>1, <3>1
    <3>3. DOMAIN tx'[d] = DOMAIN tx[d] BY <1>1
    <3>4. Touched(d)' = Touched(d) BY <3>2, <3>3 DEF Touched
    <3>5. \A i \in Touched(d) : i \in Ids /\ i \notin DOMAIN new
      BY <1>4, <3>1, TouchedFacts DEF IInv
    <3> QED BY <1>3, <3>4, <3>5
  <2> QED BY <1>1, <1>3, <1>11, <2>1, ReadStep
<1>13. PageInv'
  BY <1>3, <1>11, PageStep
<1>14. ASSUME NEW i \in Ids
       PROVE  /\ Versions(i)' \subseteq Versions(i) \cup {table'[i]}
              /\ i \notin DOMAIN new => Versions(i)' \subseteq Versions(i)
  <2> DEFINE V == Versions(i)
  <2>1. /\ table[i] \in V
        /\ \A d \in Callers : \A l \in DOMAIN tx[d] :
              i \in DOMAIN tx[d][l].undo => tx[d][l].undo[i] \in V
        /\ \A d \in Callers : snap[d] # None => snap[d][i] \in V
        /\ \A d \in Callers : call[d] # Idle /\ call[d].op # "list" /\ i \in DOMAIN call[d].read =>
              call[d].read[i] \in V
    BY VersionFacts DEF IInv
  <2>2. call'[c] # Idle /\ call'[c].op # "list" /\ i \in DOMAIN call'[c].read => call'[c].read[i] \in V
    BY <1>7 DEF NewRead
  <2> HIDE DEF V
  <2>3. ASSUME NEW d \in Callers, NEW l \in DOMAIN tx'[d], i \in DOMAIN tx'[d][l].undo
        PROVE  tx'[d][l].undo[i] \in V
    <3>1. l \in DOMAIN tx[d] BY <1>1
    <3>2. CASE i \in DOMAIN tx[d][l].undo BY <1>1, <2>1, <3>1, <3>2
    <3>3. CASE i \notin DOMAIN tx[d][l].undo
      <4>1. tx'[d][l].undo[i] = table[i] BY <1>1, <2>3, <3>1, <3>3
      <4> QED BY <2>1, <4>1
    <3> QED BY <3>2, <3>3
  <2>4. \A d \in Callers : snap'[d] # None => snap'[d][i] \in V
    BY <2>1
  <2>5. \A d \in Callers : call'[d] # Idle /\ call'[d].op # "list" /\ i \in DOMAIN call'[d].read =>
              call'[d].read[i] \in V
    BY <1>3, <2>1, <2>2 DEF OthersCalls
  <2>6. Versions(i)' \subseteq V \cup {table'[i]}
    BY <2>3, <2>4, <2>5, OldVersions
  <2>7. i \notin DOMAIN new => table'[i] \in V
    BY <1>3, <2>1
  <2> QED BY <2>6, <2>7 DEF V
<1>15. Fresh(no)
  BY <1>2, <1>3 DEF IInv, VersionInv, no
<1>16. \A i \in DOMAIN new : By(table'[i]) = By(table[i]) \cup {no}
  BY <1>3, <1>4
<1>17. \A i \in Ids : table[i] \in Versions(i)
  BY VersionFacts DEF IInv
<1>18. \A i \in Ids : \A v, w \in Versions(i)' : v.hist = w.hist => v = w
  <2> SUFFICES ASSUME NEW i \in Ids, NEW v \in Versions(i)', NEW w \in Versions(i)', v.hist = w.hist
               PROVE  v = w
    OBVIOUS
  <2>1. By(v) = By(w) BY DEF By
  <2>2. CASE i \in DOMAIN new
    <3>1. no \in By(table'[i]) BY <1>16, <2>2
    <3>2. \A u \in Versions(i) : no \notin By(u) BY <1>15 DEF Fresh
    <3>3. v \in Versions(i) \/ v = table'[i] BY <1>14
    <3>4. w \in Versions(i) \/ w = table'[i] BY <1>14
    <3>5. v \in Versions(i) /\ w \in Versions(i) => v = w BY DEF IInv, VersionInv
    <3> QED BY <2>1, <3>1, <3>2, <3>3, <3>4, <3>5
  <2>3. CASE i \notin DOMAIN new
    BY <1>14, <2>3 DEF IInv, VersionInv
  <2> QED BY <2>2, <2>3
<1>19. \A k : k # no /\ Fresh(k) => Fresh(k)'
  <2> SUFFICES ASSUME NEW k, k # no, Fresh(k) PROVE Fresh(k)'
    OBVIOUS
  <2>1. ASSUME NEW i \in Ids, NEW v \in Versions(i)' PROVE k \notin By(v)
    <3>1. CASE v \in Versions(i) BY <3>1 DEF Fresh
    <3>2. CASE v \notin Versions(i)
      <4>1. v = table'[i] /\ i \in DOMAIN new BY <1>14, <3>2
      <4>2. k \notin By(table[i]) BY <1>17 DEF Fresh
      <4> QED BY <1>16, <4>1, <4>2
    <3> QED BY <3>1, <3>2
  <2> QED BY <2>1 DEF Fresh, By
<1>20. \A k \in Calls : outcome'[k].status = "none" => Fresh(k)'
  <2> SUFFICES ASSUME NEW k \in Calls, outcome'[k].status = "none" PROVE Fresh(k)'
    OBVIOUS
  <2>1. k # no BY <1>1
  <2>2. Fresh(k) BY <1>3, <2>1 DEF IInv, VersionInv
  <2> QED BY <1>19, <2>1, <2>2
<1>21. ASSUME NEW d \in Callers, call'[d] # Idle, call'[d].pc \notin Late
       PROVE  \E k : k = call'[d].no /\ Fresh(k)'
  <2>1. d # c BY <1>7, <1>21
  <2>2. call'[d] = call[d] /\ call[d].no # no BY <1>2, <1>3, <1>21, <2>1 DEF OthersCalls
  <2>3. Fresh(call[d].no) BY <1>21, <2>2 DEF IInv, VersionInv, Late
  <2> QED BY <1>19, <2>2, <2>3
<1>22. \A d \in Callers : call'[d] # Idle /\ call'[d].pc \notin Late => Fresh(call[d].no)'
  BY <1>21, Zenon DEF Fresh
<1>23. EtagInv'
  <2>1. ASSUME NEW i \in Ids, NEW v \in Versions(i)', v.live, ~ v.loose PROVE v.etag = v.msg
    <3>1. CASE v \in Versions(i) BY <2>1, <3>1 DEF IInv, EtagInv
    <3>2. CASE v \notin Versions(i)
      <4>1. v = table'[i] /\ i \in DOMAIN new BY <1>14, <3>2
      <4>2. v = new[i] BY <1>3, <4>1
      <4> QED BY <1>4, <2>1, <4>1, <4>2
    <3> QED BY <3>1, <3>2
  <2> QED BY <2>1 DEF EtagInv
<1>24. VersionInv'
  BY <1>18, <1>20, <1>22, Zenon DEF VersionInv, Late
<1> QED BY <1>8, <1>9, <1>10, <1>12, <1>13, <1>23, <1>24 DEF OtherInv

LEMMA WriteKeeps ==
  ASSUME IInv, NEW c \in Callers, Write(c)
  PROVE  CoreInv' /\ OtherInv'
<1>1. CASE Fail(c) /\ UNCHANGED <<table, tx>>
  BY <1>1, QuietKeeps
<1>2. ASSUME NEW new \in Rows, Wrote(c, new) PROVE CoreInv' /\ OtherInv'
  <2>1. UNCHANGED <<snap, used>> BY DEF Write
  <2> QED BY <1>2, <2>1, WriteCore, WriteOther
<1> QED BY <1>1, <1>2, WriteDoes

-------------------------------------------------------------------------------
(* The connections, and what callers are told.                               *)

\* A step of c concerns the connection of c only.
LEMMA LeaseStep ==
  ASSUME IInv, NEW c \in Callers, engine' = engine, OthersCalls(c),
         \A d \in Callers : d # c => (tx'[d] = <<>> <=> tx[d] = <<>>),
         leased' \subseteq leased \cup {c}, leased \subseteq leased' \cup {c},
         c \in leased' => Pooled /\ (tx'[c] # <<>> \/ call'[c].pc = "write"),
         Pooled /\ tx'[c] # <<>> => c \in leased'
  PROVE  LeaseInv'
<1>1. Pooled' = Pooled
  BY DEF Pooled
<1>2. \A d \in Callers : d # c => (d \in leased' <=> d \in leased) /\ call'[d] = call[d]
  BY DEF OthersCalls
<1> QED BY <1>1, <1>2 DEF IInv, LeaseInv

\* Steps in which a statement of c ends, or that are none.
LEMMA LeaseKept ==
  ASSUME IInv, NEW c \in Callers, engine' = engine, OthersCalls(c),
         \A d \in Callers : tx'[d] = <<>> <=> tx[d] = <<>>,
         leased' = Released(c) \/ (leased' = leased /\ call[c].pc # "write")
  PROVE  LeaseInv'
<1>1. tx[c] = <<>> => c \notin leased'
  BY DEF IInv, LeaseInv, Released
<1>2. tx[c] # <<>> => leased' = leased
  BY DEF Released
<1>3. leased' \subseteq leased \cup {c} /\ leased \subseteq leased' \cup {c}
  BY DEF Released
<1>4. c \in leased' => Pooled
  BY <1>1, <1>2 DEF IInv, LeaseInv
<1>5. Pooled /\ tx[c] # <<>> => c \in leased'
  BY <1>2 DEF IInv, LeaseInv
<1> QED BY <1>1, <1>3, <1>4, <1>5, LeaseStep

LEMMA LeasesOfQuiet ==
  ASSUME IInv, NEW c \in Callers,
         \/ Call(c) \/ Find(c) \/ ReadBack(c) \/ StatementFails(c) \/ Page(c) \/ ListReturns(c)
         \/ BeginFails(c) \/ (Write(c) /\ Fail(c) /\ UNCHANGED <<table, tx>>)
  PROVE  LeaseInv'
<1>1. UNCHANGED <<engine, tx>> /\ OthersCalls(c)
  BY QuietSteps DEF Quiet, Starts, Goes, Stays, Ends
<1>2. leased' = Released(c) \/ (leased' = leased /\ call[c].pc # "write")
  <2>1. CASE Call(c) BY <2>1 DEF Call, Idle
  <2>2. CASE Find(c) BY <2>2 DEF Find
  <2>3. CASE ReadBack(c) BY <2>3 DEF ReadBack
  <2>4. CASE StatementFails(c) \/ Write(c) BY <2>4 DEF StatementFails, Write
  <2>5. CASE Page(c) BY <2>5 DEF Page
  <2>6. CASE ListReturns(c) \/ BeginFails(c) BY <2>6 DEF ListReturns, BeginFails
  <2> QED BY <2>1, <2>2, <2>3, <2>4, <2>5, <2>6
<1> QED BY <1>1, <1>2, LeaseKept

LEMMA LeasesOfWrites ==
  ASSUME IInv, NEW c \in Callers, Write(c)
  PROVE  LeaseInv'
<1>1. CASE Fail(c) /\ UNCHANGED <<table, tx>>
  BY <1>1, LeasesOfQuiet
<1>2. ASSUME NEW new \in Rows, Wrote(c, new) PROVE LeaseInv'
  <2>1. \A d \in Callers : tx'[d] = <<>> <=> tx[d] = <<>>
    BY <1>2, WroteTx
  <2>2. engine' = engine /\ OthersCalls(c) BY <1>2 DEF Wrote
  <2>3. leased' = Released(c) BY DEF Write
  <2> QED BY <2>1, <2>2, <2>3, LeaseKept
<1> QED BY <1>1, <1>2, WriteDoes

LEMMA LeasesOfTransactions ==
  ASSUME IInv, NEW c \in Callers,
         BeginBatch(c) \/ Transaction(c) \/ Commit(c) \/ Release(c) \/ Rollback(c)
  PROVE  LeaseInv'
<1>1. LeaseInv
  BY DEF IInv
<1>2. CASE BeginBatch(c) \/ Transaction(c)
  <2>1. Begins(c)
    BY <1>2, BeginSteps
  <2>2. tx'[c] # <<>> /\ \A d \in Callers : d # c => tx'[d] = tx[d]
    BY <2>1, BeginTx
  <2>3. engine' = engine /\ OthersCalls(c)
    BY <2>1 DEF Begins
  <2>4. \/ leased' = IF Pooled THEN leased \cup {c} ELSE leased
        \/ leased' = leased /\ tx[c] # <<>>
    BY <1>2 DEF BeginBatch, Transaction, Begin
  <2>5. /\ leased' \subseteq leased \cup {c} /\ leased \subseteq leased' \cup {c}
        /\ c \in leased' => Pooled
        /\ Pooled => c \in leased'
    BY <1>1, <2>4 DEF LeaseInv
  <2> QED BY <2>2, <2>3, <2>5, LeaseStep
<1>3. CASE Commit(c)
  <2>1. /\ engine' = engine /\ OthersCalls(c) /\ tx'[c] = <<>>
        /\ \A d \in Callers : d # c => tx'[d] = tx[d]
    BY <1>3, CommitDoes
  <2>2. leased' = leased \ {c}
    BY <1>3 DEF Commit, Leased
  <2> QED BY <2>1, <2>2, LeaseStep
<1>4. CASE Release(c)
  <2>1. /\ engine' = engine /\ call' = call /\ leased' = leased /\ tx[c] # <<>> /\ tx'[c] # <<>>
        /\ \A d \in Callers : d # c => tx'[d] = tx[d]
    <3>1. Len(tx[c]) # 0 /\ Len(tx'[c]) # 0
      BY <1>4, ReleaseDoes
    <3>2. engine' = engine /\ call' = call /\ \A d \in Callers : d # c => tx'[d] = tx[d]
      BY <1>4, ReleaseDoes
    <3>3. Len(<<>>) = 0
      OBVIOUS
    <3>4. leased' = leased BY <1>4 DEF Release
    <3> QED BY <3>1, <3>2, <3>3, <3>4
  <2>2. OthersCalls(c)
    BY <2>1 DEF OthersCalls, IInv, TypeInv
  <2>3. c \in leased => Pooled
    BY <1>1 DEF LeaseInv
  <2>4. Pooled => c \in leased
    BY <1>1, <2>1 DEF LeaseInv
  <2> QED BY <2>1, <2>2, <2>3, <2>4, LeaseStep
<1>5. CASE Rollback(c)
  <2>1. /\ engine' = engine /\ OthersCalls(c) /\ tx[c] # <<>>
        /\ tx'[c] = Front(tx[c]) /\ Len(tx'[c]) = Len(tx[c]) - 1 /\ Len(tx[c]) \in Nat \ {0}
        /\ tx' \in [Callers -> Seq(Savepoints)]
        /\ \A d \in Callers : d # c => tx'[d] = tx[d]
    BY <1>5, RollbackDoes
  <2>2. tx'[c] = <<>> <=> Len(tx[c]) = 1
    <3>1. tx'[c] \in Seq(Savepoints) BY <2>1
    <3>2. tx'[c] = <<>> <=> Len(tx'[c]) = 0 BY <3>1, EmptySeq
    <3> QED BY <2>1, <3>2
  <2>3. leased' = IF Len(tx[c]) = 1 THEN leased \ {c} ELSE leased
    BY <1>5 DEF Rollback, Leased
  <2>4. /\ leased' \subseteq leased \cup {c} /\ leased \subseteq leased' \cup {c}
        /\ c \in leased' => Pooled /\ tx'[c] # <<>>
        /\ Pooled /\ tx'[c] # <<>> => c \in leased'
    BY <1>1, <2>1, <2>2, <2>3 DEF LeaseInv
  <2> QED BY <2>1, <2>4, LeaseStep
<1> QED BY <1>2, <1>3, <1>4, <1>5

LEMMA ToldStep ==
  ASSUME IInv, engine' = engine,
         \A k \in Calls : \/ outcome'[k].wrote = outcome[k].wrote /\ outcome'[k].told = outcome[k].told
                          \/ engine # "mysql" => outcome'[k].told \subseteq outcome'[k].wrote
  PROVE  ToldInv'
  BY DEF IInv, ToldInv

LEMMA ToldOfQuiet ==
  ASSUME IInv, NEW c \in Callers, Quiet(c)
  PROVE  ToldInv'
<1>1. engine' = engine BY DEF Quiet
<1>2. \A k \in Calls : outcome'[k].wrote = outcome[k].wrote /\ outcome'[k].told = outcome[k].told
  BY DEF Quiet, Starts, Goes, Ends
<1> QED BY <1>1, <1>2, ToldStep

LEMMA ToldOfWrites ==
  ASSUME IInv, NEW c \in Callers, Write(c)
  PROVE  ToldInv'
<1>1. CASE Fail(c) /\ UNCHANGED <<table, tx>>
  BY <1>1, QuietSteps, ToldOfQuiet
<1>2. ASSUME NEW new \in Rows, Wrote(c, new) PROVE ToldInv'
  <2>1. /\ engine' = engine /\ outcome'[call[c].no].wrote = DOMAIN new
        /\ engine # "mysql" => outcome'[call[c].no].told \subseteq DOMAIN new
        /\ \A k \in Calls : k # call[c].no => outcome'[k] = outcome[k]
    BY <1>2 DEF Wrote
  <2> QED BY <2>1, ToldStep
<1> QED BY <1>1, <1>2, WriteDoes

LEMMA ToldOfTransactions ==
  ASSUME IInv, NEW c \in Callers,
         BeginBatch(c) \/ Transaction(c) \/ Commit(c) \/ Release(c) \/ Rollback(c)
  PROVE  ToldInv'
<1>1. engine' = engine
  BY DEF BeginBatch, Transaction, Begin, Commit, Release, Rollback
<1>2. \A k \in Calls : outcome'[k].wrote = outcome[k].wrote /\ outcome'[k].told = outcome[k].told
  <2>1. CASE BeginBatch(c) \/ Transaction(c)
    BY <2>1, BeginSteps DEF Begins
  <2>2. CASE Commit(c)
    BY <2>2, CommitDoes
  <2>3. CASE Release(c)
    BY <2>3 DEF Release
  <2>4. CASE Rollback(c)
    BY <2>4, RollbackDoes
  <2> QED BY <2>1, <2>2, <2>3, <2>4
<1> QED BY <1>1, <1>2, ToldStep

-------------------------------------------------------------------------------
(* The invariant holds.                                                      *)

LEMMA InitiallyIInv == Init => IInv
<1> SUFFICES ASSUME Init PROVE IInv
  OBVIOUS
<1>1. /\ engine \in Engines /\ workload \in Workloads /\ table \in [Ids -> Row]
      /\ \A i \in Ids : table[i].hist = <<>> /\ table[i].etag = table[i].msg
      /\ tx \in [Callers -> {<<>>}] /\ snap \in [Callers -> {None}] /\ call \in [Callers -> {Idle}]
      /\ \A k \in Calls : outcome[k].status = "none" /\ outcome[k].wrote = {} /\ outcome[k].told = {}
      /\ outcome \in [Calls -> [status : Statuses, wrote : SUBSET Ids, told : SUBSET Ids]]
      /\ leased = {}
  BY InputAssumption DEF Init, Statuses
<1>2. /\ \A c \in Callers : tx[c] = <<>> /\ DOMAIN tx[c] = {} /\ snap[c] = None
      /\ \A c \in Callers : call[c] = Idle /\ call[c].pc = "idle"
  BY <1>1 DEF Idle
<1>3. TypeInv
  <2>1. tx \in [Callers -> Seq(Savepoints)]
    <3>1. <<>> \in Seq(Savepoints) OBVIOUS
    <3> QED BY <1>1, <3>1
  <2>2. used \in [transactions : 0 .. workload.transactions, failures : 0 .. workload.failures]
    BY <1>1, InputAssumption DEF Init, Workload
  <2> QED BY <1>1, <1>2, <2>1, <2>2 DEF TypeInv
<1>4. NumberInv
  <2>1. 0 \in 0 .. MaxCalls /\ \A k \in Calls : outcome[k].status # "none" <=> k <= 0
    BY <1>1, RepositoryAssumption DEF Calls
  <2> QED BY <1>1, <1>2, <2>1 DEF NumberInv
<1>5. CallInv /\ ReadInv /\ PageInv /\ WrittenInv
  BY <1>2 DEF CallInv, ReadInv, PageInv, WrittenInv
<1>6. \A i \in Ids : By(table[i]) = {}
  BY <1>1 DEF By, ToSet
<1>7. LockInv
  BY <1>2 DEF LockInv, Touched
<1>8. HistInv /\ SavedInv /\ LevelInv /\ SurviveInv
  BY <1>1, <1>2, <1>6 DEF HistInv, Unseen, SavedInv, LevelInv, SurviveInv
<1>9. \A i \in Ids : \A v \in Versions(i) : v = table[i]
  BY <1>2 DEF Versions
<1>10. VersionInv /\ EtagInv
  BY <1>1, <1>2, <1>6, <1>9 DEF VersionInv, EtagInv, Fresh
<1>11. LeaseInv /\ ToldInv
  BY <1>1, <1>2 DEF LeaseInv, ToldInv
<1> QED BY <1>3, <1>4, <1>5, <1>7, <1>8, <1>10, <1>11 DEF IInv

\* Steps after which the other parts of the invariant are about the same state.
LEMMA SameKeeps ==
  ASSUME IInv, UNCHANGED <<engine, workload, table, tx, snap, call, outcome, used>>
  PROVE  CoreInv' /\ OtherInv' /\ ToldInv'
<1>1. /\ engine' = engine /\ workload' = workload /\ table' = table /\ tx' = tx
      /\ snap' = snap /\ call' = call /\ outcome' = outcome /\ used' = used
  OBVIOUS
<1>2. \A i : Versions(i)' = Versions(i)
  BY <1>1 DEF Versions
<1>3. \A c : Touched(c)' = Touched(c)
  BY <1>1 DEF Touched
<1>4. \A c : View(c)' = View(c)
  <2>1. \A c, i : Before(c, i)' = Before(c, i)
    BY <1>1, Zenon DEF Before
  <2>2. \A c : Committed(c)' = Committed(c)
    BY <1>1, <1>3, <2>1, Zenon DEF Committed
  <2> QED BY <1>1, <1>3, <2>2, Zenon DEF View
<1>5. TypeInv' /\ NumberInv' /\ CallInv'
  <2>1. TypeInv' BY <1>1 DEF IInv, TypeInv
  <2>2. NumberInv' BY <1>1 DEF IInv, NumberInv
  <2>3. CallInv' BY <1>1 DEF IInv, CallInv, CallOf
  <2> QED BY <2>1, <2>2, <2>3
<1>10. LockInv' /\ PageInv' /\ ToldInv'
  BY <1>1, <1>3 DEF IInv, LockInv, PageInv, PageOf, ToldInv
<1>6. ReadInv'
  BY <1>1, <1>4 DEF IInv, ReadInv, ReadOf
<1>7. \A k : Unseen(k)' = Unseen(k)
  BY <1>1 DEF Unseen
<1>8. HistInv' /\ WrittenInv' /\ SavedInv' /\ LevelInv' /\ SurviveInv'
  BY <1>1, <1>7 DEF IInv, HistInv, WrittenInv, SavedInv, LevelInv, SurviveInv, Unseen
<1>9. VersionInv' /\ EtagInv'
  BY <1>1, <1>2 DEF IInv, VersionInv, EtagInv, Fresh
<1> QED BY <1>5, <1>6, <1>8, <1>9, <1>10 DEF CoreInv, OtherInv

LEMMA QueuesKeeps ==
  ASSUME IInv, NEW c \in Callers, Queues(c)
  PROVE  CoreInv' /\ OtherInv' /\ LeaseInv' /\ ToldInv'
<1>1. UNCHANGED <<engine, workload, table, tx, snap, call, outcome, used>>
  BY DEF Queues
<1>2. Pooled /\ tx[c] = <<>> /\ call[c].pc = "write" /\ leased' = leased \cup {c}
  BY DEF Queues
<1>3. OthersCalls(c)
  BY <1>1 DEF OthersCalls, IInv, TypeInv
<1>4. LeaseInv'
  BY <1>1, <1>2, <1>3, LeaseStep
<1> QED BY <1>1, <1>4, SameKeeps

LEMMA StepKeepsIInv == IInv /\ [Next]_vars => IInv'
<1> SUFFICES ASSUME IInv, [Next]_vars PROVE IInv'
  OBVIOUS
<1>1. SUFFICES CoreInv' /\ OtherInv' /\ LeaseInv' /\ ToldInv'
  BY DEF IInv, CoreInv, OtherInv
<1>2. CASE Next
  <2>1. PICK c \in Callers :
          \/ Call(c) \/ Find(c) \/ Write(c) \/ Queues(c) \/ ReadBack(c) \/ StatementFails(c)
          \/ Page(c) \/ ListReturns(c)
          \/ BeginBatch(c) \/ BeginFails(c) \/ Transaction(c)
          \/ Commit(c) \/ Release(c) \/ Rollback(c)
    BY <1>2 DEF Next
  <2>2. CASE Write(c)
    BY <2>2, WriteKeeps, LeasesOfWrites, ToldOfWrites
  <2>3. CASE BeginBatch(c) \/ Transaction(c)
    BY <2>3, BeginKeeps, LeasesOfTransactions, ToldOfTransactions
  <2>4. CASE Commit(c)
    BY <2>4, CommitKeeps, LeasesOfTransactions, ToldOfTransactions
  <2>5. CASE Release(c)
    BY <2>5, ReleaseKeeps, LeasesOfTransactions, ToldOfTransactions
  <2>6. CASE Rollback(c)
    BY <2>6, RollbackKeeps, LeasesOfTransactions, ToldOfTransactions
  <2>7. CASE \/ Call(c) \/ Find(c) \/ ReadBack(c) \/ StatementFails(c) \/ Page(c) \/ ListReturns(c)
             \/ BeginFails(c)
    BY <2>7, QuietSteps, QuietKeeps, LeasesOfQuiet, ToldOfQuiet
  <2>8. CASE Queues(c)
    BY <2>8, QueuesKeeps
  <2> QED BY <2>1, <2>2, <2>3, <2>4, <2>5, <2>6, <2>7, <2>8
<1>3. CASE UNCHANGED vars
  <2>1. /\ UNCHANGED <<engine, workload, table, tx, snap, call, outcome, used>>
        /\ engine' = engine /\ tx' = tx /\ call' = call /\ leased' = leased
    BY <1>3 DEF vars
  <2>2. LeaseInv'
    BY <2>1 DEF IInv, LeaseInv, Pooled
  <2> QED BY <2>1, <2>2, SameKeeps
<1> QED BY <1>2, <1>3

\* In every reachable state of every configuration the inductive invariant holds:
\* who wrote each row version, which savepoint undoes it, who holds its lock and
\* what its caller has been told fit together.
THEOREM Invariance == Spec => []IInv
<1>1. Init => IInv
  BY InitiallyIInv
<1>2. IInv /\ [Next]_vars => IInv'
  BY StepKeepsIInv
<1> QED BY <1>1, <1>2, PTL DEF Spec

\* Only a caller with an open transaction has a snapshot, a batch to commit or
\* something to roll back. Every open transaction has a connection of the pool, and
\* nobody else has one but writes that wait for a row.
THEOREM TypesAreKept == Spec => []TypeOK
<1>1. IInv => TypeOK
  <2> SUFFICES ASSUME IInv PROVE TypeOK
    OBVIOUS
  <2>1. TypeInv BY DEF IInv
  <2>2. \A c \in Callers : \A k \in DOMAIN tx[c] :
          SomeRows(tx[c][k].undo) /\ tx[c][k].calls \subseteq Calls
    BY <2>1, TxFacts, RowsAre DEF SomeRows
  <2>3. ASSUME NEW c \in Callers, call[c] # Idle
        PROVE  /\ call[c].pc \in Stages /\ call[c].no \in Calls /\ call[c].items \in Seq(RequestItem)
               /\ IF call[c].op = "list" THEN call[c].read \in Progress ELSE SomeRows(call[c].read)
    <3>1. call[c] \in Running BY <2>1, <2>3, CallFacts
    <3>2. call[c].read \in IF call[c].op = "list" THEN Progress ELSE Rows
      BY <2>1, <2>3 DEF TypeInv
    <3> QED BY <3>1, <3>2, RowsAre DEF Running, SomeRows
  <2>4. ASSUME NEW c \in Callers, tx[c] = <<>>
        PROVE  snap[c] = None /\ call[c].pc \notin {"commit", "failing"}
    <3>1. CASE call[c] = Idle BY <2>1, <2>4, <3>1 DEF TypeInv, Idle
    <3>2. CASE call[c] # Idle BY <2>1, <2>4, <3>2 DEF TypeInv, IInv, CallInv, CallOf
    <3> QED BY <3>1, <3>2
  <2>5. LeaseInv BY DEF IInv
  <2> QED BY <2>1, <2>2, <2>3, <2>4, <2>5 DEF TypeOK, TypeInv, LeaseInv
<1> QED BY <1>1, Invariance, PTL

\* A call that was told it failed, or that was in a transaction that was rolled
\* back, has left no row version in the table.
THEOREM NothingIsLeft == Spec => []RejectedLeavesNothing
<1>1. IInv => RejectedLeavesNothing
  <2> SUFFICES ASSUME IInv, NEW i \in Ids, NEW k \in ToSet(table[i].hist)
               PROVE  outcome[k].status \notin {"none", "rejected", "undone"}
    BY DEF RejectedLeavesNothing
  <2>1. k \in Calls
    <3>1. table[i].hist \in Seq(Calls) BY DEF IInv, TypeInv, Row
    <3> QED BY <3>1, ElementOfSeq, LenProperties DEF ToSet
  <2> QED BY <2>1 DEF IInv, HistInv, Unseen, By
<1> QED BY <1>1, Invariance, PTL

\* What a call that was told "done" wrote is in the table, or was overwritten
\* there, whatever the transactions of other callers roll back later, and it wrote
\* all that it was told of, but for batchUpdate on MySQL.
THEOREM DoneIsDone == Spec => []AcknowledgedSurvives
<1>1. IInv => AcknowledgedSurvives
  BY DEF IInv, SurviveInv, ToldInv, AcknowledgedSurvives, By
<1> QED BY <1>1, Invariance, PTL

\* The etag of a live row is that of its contents, in transactions and after
\* rollbacks too, unless the write that left it there met another version of the
\* row than it had read, had a path into a message column in its mask, or emptied
\* a message that has no serializer.
THEOREM EtagsAreOfTheirRows == Spec => []EtagsDescribeRows
<1>1. IInv => EtagsDescribeRows
  BY VersionFacts DEF IInv, EtagInv, EtagsDescribeRows
<1> QED BY <1>1, Invariance, PTL

\* Whoever follows the page tokens of a listing that nothing changes meanwhile
\* gets each row once and in order, for every page size and any number of rows.
THEOREM PagesAreTheList == Spec => []PagesCoverTheList
<1>1. IInv => PagesCoverTheList
  <2> SUFFICES ASSUME IInv, NEW c \in Callers, call[c].pc = "listed", call[c].read.stable
               PROVE  call[c].read.got = call[c].read.all
    BY DEF PagesCoverTheList
  <2> QED BY DEF IInv, PageInv, PageOf
<1> QED BY <1>1, Invariance, PTL

-------------------------------------------------------------------------------
(* Nobody waits for ever.                                                    *)

\* Where everybody in a finite set waits for somebody in it, some wait in a circle.
LEMMA CircleExists ==
  ASSUME IsFiniteSet(Callers), NEW T \in SUBSET Callers, T # {},
         \A d \in T : \E e \in T : WaitsFor(d, e)
  PROVE  \E d \in T : Deadlocked(d)
<1> DEFINE succ == [d \in T |-> CHOOSE e \in T : WaitsFor(d, e)]
           Closed(S) == S # {} /\ \A d \in S : succ[d] \in S
           N == {Cardinality(S) : S \in {S \in SUBSET T : Closed(S)}}
<1>1. \A d \in T : succ[d] \in T /\ WaitsFor(d, succ[d])
  OBVIOUS
<1> HIDE DEF succ
<1>2. IsFiniteSet(T) /\ \A S \in SUBSET T : IsFiniteSet(S) /\ Cardinality(S) \in Nat
  BY FS_Subset, FS_CardinalityType
<1>3. PICK S \in SUBSET T : Closed(S) /\ \A R \in SUBSET T : Closed(R) => Cardinality(S) <= Cardinality(R)
  <2>1. N \in SUBSET Nat BY <1>2
  <2>2. N # {}
    <3>1. T \in {S \in SUBSET T : Closed(S)} BY <1>1
    <3> QED BY <3>1
  <2>3. PICK m \in N : \A k \in N : m <= k
    <3> HIDE DEF N
    <3> QED BY <2>1, <2>2, LeastNumber
  <2>4. PICK S \in SUBSET T : Closed(S) /\ m = Cardinality(S)
    BY <2>3
  <2>5. \A R \in SUBSET T : Closed(R) => Cardinality(R) \in N
    OBVIOUS
  <2> QED BY <2>3, <2>4, <2>5
<1> DEFINE R == {succ[d] : d \in S}
<1>4. R \subseteq S /\ Closed(R)
  BY <1>3
<1>5. R = S
  <2>1. Cardinality(R) <= Cardinality(S) /\ (Cardinality(S) = Cardinality(R) => S = R)
    BY <1>2, <1>4, FS_Subset
  <2>2. Cardinality(S) <= Cardinality(R)
    BY <1>3, <1>4
  <2>3. Cardinality(S) \in Nat /\ Cardinality(R) \in Nat
    BY <1>2, <1>4
  <2> HIDE DEF R
  <2> QED BY <2>1, <2>2, <2>3
<1>6. PICK c \in S : c \in T
  BY <1>3
<1>7. Deadlocked(c)
  <2> DEFINE next == [d \in S |-> succ[d]]
  <2>1. next \in [S -> S] BY <1>3
  <2>2. S = {next[d] : d \in S} BY <1>5
  <2>3. \A d \in S : WaitsFor(d, next[d]) BY <1>1
  <2>4. S \in SUBSET Callers /\ c \in S OBVIOUS
  <2> HIDE DEF next
  <2> QED BY <2>1, <2>2, <2>3, <2>4 DEF Deadlocked
<1> QED BY <1>6, <1>7

\* A call that waits for a row waits for an open transaction.
LEMMA BlockedFacts ==
  ASSUME IInv, NEW c \in Callers, call[c].pc = "write", Blocked(c)
  PROVE  \E d \in Callers : tx[d] # <<>> /\ WaitsFor(c, d)
<1>1. PICK i \in Wanted(c) : Locked(c, i)
  BY DEF Blocked
<1>2. PICK d \in Others(c) : i \in Touched(d)
  BY <1>1 DEF Locked
<1>3. d \in Callers /\ d # c
  BY DEF Others
<1>4. tx[d] # <<>>
  BY <1>2, <1>3, TouchedFacts DEF IInv
<1>5. Touched(d) \cap Wanted(c) # {}
  BY <1>1, <1>2
<1> QED BY <1>3, <1>4, <1>5 DEF WaitsFor

\* Whatever the callers are doing, one of them can go on: the connections of a
\* pool are those of transactions and of writes that wait for one, and of
\* transactions that wait for each other's rows some are a circle, which the
\* database breaks.
THEOREM SomebodyCanGoOn == Spec => []NobodyWaitsForever
<1>1. IInv => NobodyWaitsForever
  <2> SUFFICES ASSUME IInv, NEW b \in Callers, Busy(b), \A c \in Callers : Busy(c) => Waits(c)
               PROVE  FALSE
    BY DEF NobodyWaitsForever
  <2> DEFINE T == {c \in Callers : tx[c] # <<>>}
  <2>1. IsFiniteSet(Callers) /\ IsFiniteSet(T) /\ LeaseInv
    BY RepositoryAssumption, FS_Subset DEF IInv
  <2>2. ASSUME NEW c \in Callers, call[c].pc = "write", Connected(c) PROVE T # {}
    <3>1. Waits(c)
      BY <2>2 DEF Busy, Idle
    <3>2. Blocked(c)
      BY <2>2, <3>1 DEF Waits
    <3> QED BY <2>2, <3>2, BlockedFacts
  <2>3. T # {}
    <3>1. CASE Pooled /\ ~ FreeConnection
      <4>1. leased # {}
        <5>1. workload.pool \in Nat \ {0}
          BY InputAssumption DEF IInv, TypeInv, Workload
        <5>2. Cardinality({}) = 0 BY FS_EmptySet
        <5> QED BY <3>1, <5>1, <5>2 DEF FreeConnection
      <4>2. PICK c \in leased : c \in Callers /\ (tx[c] # <<>> \/ call[c].pc = "write")
        BY <2>1, <4>1 DEF LeaseInv
      <4> QED BY <2>2, <4>2 DEF Connected
    <3>2. CASE ~ (Pooled /\ ~ FreeConnection)
      <4>1. Waits(b) OBVIOUS
      <4>2. \A c \in Callers : Connected(c)
        BY <3>2 DEF Connected
      <4>3. call[b].pc = "write"
        BY <3>2, <4>1, <4>2 DEF Waits
      <4> QED BY <2>2, <4>2, <4>3
    <3> QED BY <3>1, <3>2
  <2>4. ASSUME NEW c \in T PROVE call[c].pc = "write" /\ Blocked(c) /\ ~ Deadlocked(c)
    <3>1. Waits(c) /\ tx[c] # <<>> BY DEF Busy
    <3>2. Connected(c) BY <2>1, <3>1 DEF Connected, LeaseInv
    <3>3. call[c].pc # "begin"
      <4>1. CASE call[c] = Idle BY <4>1 DEF Idle
      <4>2. CASE call[c] # Idle BY <3>1, <4>2 DEF IInv, CallInv, CallOf
      <4> QED BY <4>1, <4>2
    <3> QED BY <3>1, <3>2, <3>3 DEF Waits
  <2>5. \A c \in T : \E d \in T : WaitsFor(c, d)
    BY <2>4, BlockedFacts
  <2>6. \E c \in T : Deadlocked(c)
    <3>1. T \in SUBSET Callers OBVIOUS
    <3> HIDE DEF T
    <3> QED BY <2>1, <2>3, <2>5, <3>1, CircleExists
  <2> QED BY <2>4, <2>6
<1> QED BY <1>1, Invariance, PTL

-------------------------------------------------------------------------------
(* Masked writes.                                                            *)

LEMMA UpdatedOutside ==
  ASSUME IInv, NEW c \in Callers, call[c].pc = "write", call[c].op = "update",
         NEW rows \in SUBSET Hits(c), call[c].items[1].mask # Wildcard
  PROVE  \A i \in DOMAIN Updated(c, rows) : \A f \in Outside(call[c].items[1].mask) :
           i \in Ids /\ Updated(c, rows)[i].msg[f] = table[i].msg[f]
<1> DEFINE item == call[c].items[1]
           mask == item.mask
           id   == CHOOSE i \in DOMAIN call[c].read : TRUE
           read == call[c].read[id]
           msg  == MergeForUpdate(read.msg, item.msg, mask)
           columns == Columns(msg, mask)
           Contents(i) == WithColumns(table[i].msg, columns, msg)
           Raced(i) == \/ i # id \/ table[i].hist # read.hist
                       \/ \E p \in ToSet(mask) : Len(p) > 1
                       \/ Skipped(item, columns)
           New(i) == Stored(i, Contents(i), Etag(read.msg, msg), Raced(i), call[c].no)
<1>1. Updated(c, rows) = [i \in rows |-> New(i)]
  BY DEF Updated
<1>2. rows \subseteq Ids
  BY HitsFacts DEF Creates
<1>3. columns \subseteq {p[1] : p \in ToSet(mask)}
  BY DEF Columns
<1> HIDE DEF columns, msg
<1>4. ASSUME NEW i \in rows, NEW f \in Outside(mask)
      PROVE  New(i).msg[f] = table[i].msg[f]
  <2>1. New(i).msg = Contents(i)
    BY DEF Stored
  <2>2. f \in {"n", "s", "l"} /\ f \notin columns
    BY <1>3, <1>4 DEF Outside
  <2>3. table[i].msg \in Resource
    BY <1>2, <1>4 DEF IInv, TypeInv, Row
  <2>4. f \in DOMAIN table[i].msg
    BY <2>2, <2>3 DEF Resource
  <2>5. Contents(i)[f] = table[i].msg[f]
    BY <2>2, <2>4 DEF WithColumns
  <2> QED BY <2>1, <2>5
<1> HIDE DEF New
<1> QED BY <1>1, <1>2, <1>4

\* On MongoDB the batch is refused unless the rows are as it has read them.
LEMMA ReplacedOutside ==
  ASSUME IInv, NEW c \in Callers, call[c].pc = "write", call[c].op = "batchUpdate",
         engine = "mongodb", ~ Conflict(c),
         NEW k \in DOMAIN call[c].items, call[c].items[k].mask # Wildcard,
         NEW i \in Hits(c), call[c].items[k].query.id = i, NEW f \in Outside(call[c].items[k].mask)
  PROVE  Replaced(c)[i].msg[f] = table[i].msg[f]
<1> DEFINE items == call[c].items
           At(j) == items[CHOOSE l \in DOMAIN items : items[l].query.id = j]
           old(j) == call[c].read[j]
           New(j) == MergeForUpdate(old(j).msg, At(j).msg, At(j).mask)
           columns == DOMAIN Nothing
           Row_(j) == Stored(j, WithColumns(table[j].msg, columns, New(j)), Etag(old(j).msg, New(j)),
                             table[j].hist # old(j).hist \/ Skipped(At(j), columns), call[c].no)
<1>1. Replaced(c)[i] = Row_(i)
  BY DEF Replaced
<1>2. /\ call[c] # Idle /\ items[k].msg \in Resource /\ items[k].mask \in ValidMasks
      /\ i \in Wanted(c) /\ i \in Ids
  BY CallingFacts, HitsFacts DEF Creates
<1>3. ReadOf(c) /\ CallOf(c)
  BY <1>2 DEF IInv, ReadInv, CallInv
<1>4. At(i) = items[k]
  <2>1. \A l \in DOMAIN items : items[l].query.id = i => l = k
    BY <1>3 DEF ReadOf
  <2> QED BY <2>1
<1>5. i \in DOMAIN call[c].read
  BY <1>3 DEF ReadOf
<1>6. table[i] = old(i) /\ old(i) \in Row
  <2>1. tx[c] # <<>> /\ call[c].op \notin Creates
    BY <1>3 DEF CallOf, Batches, Creates
  <2>2. old(i) = View(c)[i]
    BY <1>3, <1>5, <2>1 DEF ReadOf
  <2>3. table[i].hist = View(c)[i].hist
    BY <1>2, <2>1 DEF Conflict
  <2>4. call[c].pc # "idle" /\ call[c].op # "list" OBVIOUS
  <2> QED BY <1>5, <2>2, <2>3, <2>4, ReadFacts
<1> HIDE DEF At, old
<1>7. f \in {"n", "s", "l"} \ Names1(items[k].mask)
  BY DEF Outside, Names1
<1>8. old(i).msg \in Resource
  BY <1>6 DEF Row
<1>9. New(i)[f] = old(i).msg[f] /\ New(i) \in Resource
  <2>1. New(i) = MergeForUpdate(old(i).msg, items[k].msg, items[k].mask)
    BY <1>4
  <2> DEFINE o == old(i).msg
             p == items[k].msg
             m == items[k].mask
  <2>2. /\ o \in Resource /\ p \in Resource /\ m \in ValidMasks /\ m # Wildcard
        /\ f \in {"n", "s", "l"} \ Names1(m) /\ New(i) = MergeForUpdate(o, p, m)
    BY <1>2, <1>7, <1>8, <2>1
  <2> HIDE DEF New, o, p, m
  <2>3. MergeForUpdate(o, p, m) \in Resource /\ MergeForUpdate(o, p, m)[f] = o[f]
    BY <2>2, MergeForUpdateTyped
  <2> QED BY <2>2, <2>3 DEF o
<1> HIDE DEF New
<1>10. Row_(i).msg = WithColumns(table[i].msg, columns, New(i))
  BY DEF Stored
<1>11. WithColumns(table[i].msg, columns, New(i))[f] = table[i].msg[f]
  <2>1. table[i].msg \in Resource BY <1>6, <1>8
  <2>2. WithColumns(table[i].msg, columns, New(i))[f] = IF f \in columns THEN New(i)[f] ELSE table[i].msg[f]
    <3> HIDE DEF columns
    <3> QED BY <1>7, <1>9, <2>1, WithColumnsTyped
  <2> QED BY <1>6, <1>9, <2>2
<1> QED BY <1>1, <1>10, <1>11

\* From its read to its write an update with a mask, and on MongoDB a batch of them,
\* overwrites nothing that other callers have written meanwhile outside of the mask,
\* on every engine and for every interleaving.
THEOREM MaskedWritesKeep == Spec => MaskedWritesKeepTheRest
<1> DEFINE Masked(c) == call[c].op \in {"update"} \cup (IF engine = "mongodb" THEN {"batchUpdate"} ELSE {})
           Kept(c) ==
             \A k \in DOMAIN call[c].items :
               LET item == call[c].items[k] IN
               item.mask # Wildcard =>
                 \A i \in Ids : Matches(item.query, i, table[i]) =>
                   \A f \in Outside(item.mask) : table'[i].msg[f] = table[i].msg[f]
           A == \A c \in Callers :
                  call[c].pc = "write" /\ call'[c] # call[c] /\ Masked(c) => Kept(c)
<1>1. IInv /\ [Next]_vars => A
  <2> SUFFICES ASSUME IInv, Next, NEW c \in Callers, call[c].pc = "write", call'[c] # call[c], Masked(c)
               PROVE  Kept(c)
    BY DEF vars
  <2>1. PICK d \in Callers :
          \/ Call(d) \/ Find(d) \/ Write(d) \/ Queues(d) \/ ReadBack(d) \/ StatementFails(d)
          \/ Page(d) \/ ListReturns(d)
          \/ BeginBatch(d) \/ BeginFails(d) \/ Transaction(d)
          \/ Commit(d) \/ Release(d) \/ Rollback(d)
    BY DEF Next
  <2>2. CASE table' = table
    BY <2>2
  <2>3. CASE ~ (table' = table)
    <3>1. Write(d) \/ Rollback(d)
      BY <2>1, <2>3 DEF Call, Find, Queues, ReadBack, StatementFails, Page, ListReturns, BeginBatch,
                        BeginFails, Transaction, Begin, Commit, Release
    <3>2. d = c
      <4>1. CASE Write(d)
        <5>1. OthersCalls(d)
          <6>1. ASSUME NEW new \in Rows, Wrote(d, new) PROVE OthersCalls(d)
            BY <6>1 DEF Wrote
          <6> QED BY <2>3, <4>1, <6>1, WriteDoes
        <5> QED BY <5>1 DEF OthersCalls
      <4>2. CASE Rollback(d)
        <5>1. OthersCalls(d) BY <4>2, RollbackDoes
        <5> QED BY <5>1 DEF OthersCalls
      <4> QED BY <3>1, <4>1, <4>2
    <3>3. Write(c)
      BY <3>1, <3>2 DEF Rollback
    <3>4. PICK rows \in RowSets(c) : ~ Refused(c, rows) /\ table' = Over(Effect(c, rows), table)
      BY <2>3, <3>3 DEF Write
    <3>5. rows \in SUBSET Hits(c) /\ ~ Conflict(c)
      BY <3>4 DEF RowSets, Refused
    <3>6. table \in [Ids -> Row] BY DEF IInv, TypeInv
    <3>7. CASE call[c].op = "update"
      <4>1. Effect(c, rows) = Updated(c, rows) BY <3>7 DEF Effect, Creates
      <4>2. \A k \in DOMAIN call[c].items : k = 1
        BY <3>7, WriteOps, CallingFacts
      <4>3. call[c].items[1].mask # Wildcard =>
              \A i \in DOMAIN Updated(c, rows) : \A f \in Outside(call[c].items[1].mask) :
                Updated(c, rows)[i].msg[f] = table[i].msg[f]
        BY <3>5, <3>7, UpdatedOutside
      <4>4. \A i \in Ids : table'[i] = IF i \in DOMAIN Updated(c, rows) THEN Updated(c, rows)[i] ELSE table[i]
        BY <3>4, <3>6, <4>1 DEF Over
      <4> QED BY <4>2, <4>3, <4>4
    <3>8. CASE call[c].op = "batchUpdate" /\ engine = "mongodb"
      <4>1. Effect(c, rows) = Replaced(c) BY <3>8 DEF Effect, Creates
      <4>2. DOMAIN Replaced(c) = Hits(c) BY DEF Replaced
      <4>3. \A i \in Ids : table'[i] = IF i \in Hits(c) THEN Replaced(c)[i] ELSE table[i]
        BY <3>4, <3>6, <4>1, <4>2 DEF Over
      <4>4. ASSUME NEW k \in DOMAIN call[c].items, call[c].items[k].mask # Wildcard,
                   NEW i \in Ids, Matches(call[c].items[k].query, i, table[i]),
                   NEW f \in Outside(call[c].items[k].mask)
            PROVE  table'[i].msg[f] = table[i].msg[f]
        <5>1. call[c].items[k].query.id = i
          <6>1. call[c] # Idle BY CallingFacts
          <6>2. call[c].items[k].query.id \in Ids
            BY <3>8, <6>1 DEF IInv, CallInv, CallOf
          <6>3. None \notin Ids BY InputAssumption
          <6> QED BY <4>4, <6>2, <6>3 DEF Matches
        <5>2. CASE i \in Hits(c)
          <6>1. Replaced(c)[i].msg[f] = table[i].msg[f]
            <7>1. call[c].op = "batchUpdate" /\ engine = "mongodb" /\ ~ Conflict(c)
              BY <3>5, <3>8
            <7> HIDE DEF Kept, Masked
            <7> QED BY <4>4, <5>1, <5>2, <7>1, ReplacedOutside, Zenon
          <6> QED BY <4>3, <5>2, <6>1
        <5>3. CASE i \notin Hits(c)
          BY <4>3, <5>3
        <5> QED BY <5>2, <5>3
      <4> QED BY <4>4
    <3> QED BY <3>7, <3>8
  <2> QED BY <2>2, <2>3
<1>2. [A]_vars <=> [\A c \in Callers :
       /\ call[c].pc = "write" /\ call'[c] # call[c]
       /\ call[c].op \in {"update"} \cup (IF engine = "mongodb" THEN {"batchUpdate"} ELSE {})
       => \A k \in DOMAIN call[c].items :
            LET item == call[c].items[k] IN
            item.mask # Wildcard =>
              \A i \in Ids : Matches(item.query, i, table[i]) =>
                \A f \in Outside(item.mask) : table'[i].msg[f] = table[i].msg[f]]_vars
  OBVIOUS
<1> QED BY <1>1, <1>2, Invariance, PTL DEF Spec, MaskedWritesKeepTheRest

-------------------------------------------------------------------------------
(* The runs check the mask operators on the samples of TLC; they hold for    *)
(* whatever masks and messages are taken for samples.                        *)

\* mergeFieldMasks and intersectFieldMasks are the union and the intersection of
\* what the masks cover.
THEOREM MasksAreAnAlgebra == Spec => []MaskAlgebra
<1>1. MaskAlgebra
  BY MasksAreSets, SampleAssumption DEF MaskAlgebra, AlgebraOfSamples
<1> QED BY <1>1, PTL

\* applyFieldMask keeps of a message what the mask covers and nothing else.
THEOREM ApplyingProjects == Spec => []ApplyIsProjection
<1>1. ApplyIsProjection
  BY ApplyProjects, SampleAssumption DEF ApplyIsProjection, ProjectionOfSamples
<1> QED BY <1>1, PTL
=============================================================================
