----------------------------- MODULE MCRepository -----------------------------
(* Instances of Repository for TLC.                                          *)
EXTENDS Repository, TLC

\* Callers are interchangeable: sound for the safety properties.
CallerSymmetry == Permutations(Callers)

P(a, b) == [x |-> a, y |-> b]
M(n, s) == [n |-> n, s |-> s, l |-> <<>>]
ById(i) == [id |-> i, n |-> 0]
ByN(n)  == [id |-> None, n |-> n]
Item(query, msg, mask) == [query |-> query, msg |-> msg, mask |-> mask]
Ask(op, items) == [op |-> op, items |-> items, validateOnly |-> FALSE, size |-> 1]

N  == << <<"n">> >>
S  == << <<"s">> >>
SX == << <<"s", "x">> >>

\* Every operation, two calls at a time.
AllRequests == {
  Ask("create", <<Item(ById(2), M(1, None), <<>>)>>),
  Ask("update", <<Item(ById(1), M(2, P(1, 1)), N)>>),
  Ask("update", <<Item(ById(1), M(0, P(2, 0)), SX)>>),
  Ask("update", <<Item(ByN(1), M(2, None), S)>>),
  Ask("update", <<Item(ByN(1), M(2, None), Wildcard)>>),
  [Ask("update", <<Item(ById(1), M(2, None), N)>>) EXCEPT !.validateOnly = TRUE],
  Ask("delete", <<Item(ById(1), Nothing, <<>>)>>),
  Ask("batchCreate", <<Item(ById(1), M(1, None), <<>>), Item(ById(2), M(2, None), <<>>)>>),
  Ask("batchUpdate", <<Item(ById(1), M(0, P(2, 2)), S), Item(ById(2), M(1, None), N)>>),
  Ask("batchDelete", <<Item(ById(1), Nothing, <<>>), Item(ByN(1), Nothing, <<>>)>>),
  Ask("get", <<Item(ByN(1), Nothing, <<>>)>>),
  Ask("batchGet", <<Item(ById(1), Nothing, <<>>), Item(ById(2), Nothing, <<>>)>>),
  Ask("list", <<>>) }

\* Updates that clear a field, for a configuration without serializers.
ClearingRequests == {
  Ask("update", <<Item(ById(1), M(2, None), S)>>),
  Ask("update", <<Item(ById(1), M(2, None), Wildcard)>>),
  Ask("batchUpdate", <<Item(ById(1), M(2, None), S), Item(ById(2), M(1, P(0, 0)), S)>>) }

\* One connection for everybody.
PoolRequests == {
  Ask("update", <<Item(ById(1), M(2, P(1, 1)), N)>>),
  Ask("batchDelete", <<Item(ById(1), Nothing, <<>>), Item(ByN(1), Nothing, <<>>)>>),
  Ask("get", <<Item(ByN(1), Nothing, <<>>)>>) }

\* Two transactions that delete the same rows, in either order.
CrossedRequests == {Ask("delete", <<Item(ById(i), Nothing, <<>>)>>) : i \in 1 .. 2}

MCWorkloads == {
  [requests |-> AllRequests, calls |-> 2, pool |-> 2, transactions |-> 2, failures |-> 1,
   hooks |-> {"s", "l"}],
  [requests |-> ClearingRequests, calls |-> 2, pool |-> 2, transactions |-> 1, failures |-> 0,
   hooks |-> {}],
  [requests |-> PoolRequests, calls |-> 3, pool |-> 1, transactions |-> 2, failures |-> 0,
   hooks |-> {"s", "l"}],
  [requests |-> CrossedRequests, calls |-> 4, pool |-> 2, transactions |-> 2, failures |-> 0,
   hooks |-> {"s", "l"}] }

Live(msg) == [live |-> TRUE, msg |-> msg, etag |-> msg, loose |-> FALSE, hist |-> <<>>]
Absent    == [live |-> FALSE, msg |-> Nothing, etag |-> Nothing, loose |-> FALSE, hist |-> <<>>]

MCTables == {
  [i \in Ids |-> Live(M(1, P(1, 0)))],
  [i \in Ids |-> IF i = 1 THEN Live(M(1, P(1, 0))) ELSE Absent],
  [i \in Ids |-> Absent] }

-------------------------------------------------------------------------------
(* The masks and messages over which the mask operators are checked.         *)

Paths == ValidPaths \ { <<"s", "y">>, <<"l", "*", "y">> }
MCMasks == {<<>>} \cup {<<p>> : p \in Paths} \cup {<<p, q>> : p, q \in Paths}
MCMessages == [n : {0, 1}, s : {None, NoPart, P(1, 2)}, l : {<<>>, <<P(1, 2), P(3, 0)>>}]
=============================================================================
