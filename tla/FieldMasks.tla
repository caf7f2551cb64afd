------------------------------ MODULE FieldMasks ------------------------------
(***************************************************************************)
(* Field masks, src/wkt/fieldmask.ts of @protoutil/core, on a resource     *)
(* with a scalar n, a message s and a list of messages l, the messages     *)
(* having two scalars x and y:                                             *)
(*                                                                         *)
(*   message Resource { int32 n; Part s; repeated Part l; }                *)
(*                                                                         *)
(* A path is the sequence of its segments, a mask the sequence of its      *)
(* paths: "l.*.x" is <<"l", "*", "x">>. Zero is the default of a scalar.   *)
(***************************************************************************)
EXTENDS Integers, Sequences, SequencesExt, FiniteSets

CONSTANTS
  None,                       \* a message field that is not set
  SampleMasks, SampleMessages \* over which TLC checks what masks mean

Part     == [x : Nat, y : Nat]
Resource == [n : Nat, s : Part \cup {None}, l : Seq(Part)]

NoPart  == [x |-> 0, y |-> 0]
Nothing == [n |-> 0, s |-> None, l |-> <<>>]

-------------------------------------------------------------------------------
(* Paths.                                                                    *)

\* The names by their character codes: every letter is above the dot, and the
\* wildcard below it.
Names == <<"*", "l", "n", "s", "x", "y">>
Code(name) == CHOOSE k \in DOMAIN Names : Names[k] = name

LessPath(p, q) ==
  \/ IsStrictPrefix(p, q)
  \/ \E k \in DOMAIN p \cap DOMAIN q :
       /\ SubSeq(p, 1, k - 1) = SubSeq(q, 1, k - 1)
       /\ Code(p[k]) < Code(q[k])

Wildcard == << <<"*">> >>
\* assertValidFieldMask: the wildcard is alone, and stands for the elements of a list.
ValidPaths == { <<"n">>, <<"s">>, <<"s", "x">>, <<"s", "y">>,
                <<"l">>, <<"l", "*">>, <<"l", "*", "x">>, <<"l", "*", "y">> }
ValidMasks == {Wildcard} \cup Seq(ValidPaths)

HasPathPrefix_Exact(path, prefix) == path = prefix   \* faulty: "s" does not cover "s.x"
HasPathPrefix(path, prefix) == IsPrefix(prefix, path)

\* paths.sort: where the k-th path goes, after those that are less and the equal
\* ones before it. (SortSeq by its result, since the provers have no definition of it.)
Place(paths, k) ==
  Cardinality({j \in DOMAIN paths :
    LessPath(paths[j], paths[k]) \/ (paths[j] = paths[k] /\ j <= k)})
SortPaths(paths) ==
  [i \in DOMAIN paths |-> paths[CHOOSE k \in DOMAIN paths : Place(paths, k) = i]]

\* Every path, in order, unless it is below the last one taken.
NormalizePaths(paths) ==
  LET sorted == SortPaths(paths)
      out[k \in 0 .. Len(sorted)] ==
        IF k = 0 THEN <<>>
        ELSE IF out[k - 1] # <<>> /\ HasPathPrefix(sorted[k], Last(out[k - 1])) THEN out[k - 1]
        ELSE Append(out[k - 1], sorted[k])
  IN out[Len(sorted)]

MergeFieldMasks(m1, m2) == NormalizePaths(m1 \o m2)

\* One round of the loop of intersectPaths, which walks both masks in order.
IntersectRound(w, ss1, ss2) ==
  LET s1 == ss1[w.i1]
      s2 == ss2[w.i2]
  IN IF w.i1 > Len(ss1) \/ w.i2 > Len(ss2) THEN w
     ELSE IF HasPathPrefix(s1, s2) THEN [w EXCEPT !.i1 = @ + 1, !.result = Append(@, s1)]
     ELSE IF HasPathPrefix(s2, s1) THEN [w EXCEPT !.i2 = @ + 1, !.result = Append(@, s2)]
     ELSE IF LessPath(s1, s2) THEN [w EXCEPT !.i1 = @ + 1]
     ELSE [w EXCEPT !.i2 = @ + 1]

IntersectPaths(out, inPaths) ==
  LET ss1 == NormalizePaths(inPaths)
      ss2 == NormalizePaths(out)
      after[k \in 0 .. Len(ss1) + Len(ss2)] ==
        IF k = 0 THEN [i1 |-> 1, i2 |-> 1, result |-> <<>>]
        ELSE IntersectRound(after[k - 1], ss1, ss2)
  IN after[Len(ss1) + Len(ss2)].result

IntersectFieldMasks(m1, m2) == NormalizePaths(IntersectPaths(m1, m2))

FieldMaskHasPath(mask, path) ==
  \E p \in ToSet(mask) : p = <<"*">> \/ HasPathPrefix(path, p)

-------------------------------------------------------------------------------
(* applyFieldMask(schema, source, mask, { strict: false }).                  *)

\* applyPath below a message field: no segment left, or the name of a scalar.
CopyInto(part, source, segments) ==
  IF segments = <<>> THEN part ELSE [part EXCEPT ![Head(segments)] = source[Head(segments)]]

\* A path through a list makes its elements anew. When an earlier path "l" made
\* target and source one array, what it reads are the new elements.
Elements(source, path, shared) ==
  [k \in DOMAIN source.l |->
     CopyInto(NoPart, IF shared THEN NoPart ELSE source.l[k], SubSeq(path, 3, Len(path)))]

\* A message field that the source has set is created in the target.
SubMessage_Fresh(target) == NoPart   \* faulty: forgets what an earlier path copied
SubMessage(target) == IF target.s = None THEN NoPart ELSE target.s

ApplyPath(target, source, path, shared) ==
  CASE path = <<"n">> -> [target EXCEPT !.n = source.n]
    [] path = <<"s">> -> [target EXCEPT !.s = source.s]
    [] path = <<"l">> -> [target EXCEPT !.l = source.l]
    [] Len(path) > 1 /\ path[1] = "s" ->
         IF source.s = None THEN target
         ELSE [target EXCEPT !.s = CopyInto(SubMessage(target), source.s, Tail(path))]
    [] Len(path) > 1 /\ path[1] = "l" -> [target EXCEPT !.l = Elements(source, path, shared)]

ApplyFieldMask(source, mask) ==
  LET copy[k \in 0 .. Len(mask)] ==   \* after the first k paths
        IF k = 0 THEN Nothing
        ELSE ApplyPath(copy[k - 1], source, mask[k], \E j \in 1 .. k - 1 : mask[j] = <<"l">>)
  IN IF mask = Wildcard THEN source ELSE copy[Len(mask)]

-------------------------------------------------------------------------------
(* What masks mean: the leaves of the message tree they cover.               *)

Leaves ==
  {<<"n">>, <<"s", "x">>, <<"s", "y">>, <<"l", "*", "x">>, <<"l", "*", "y">>}

Covers(mask, path) == \E p \in ToSet(mask) : IsPrefix(p, path)
Covered(mask) == {leaf \in Leaves : Covers(mask, leaf)}

\* No path is below another one, and they are in order.
Normal(mask) ==
  \A i, j \in DOMAIN mask : i < j => LessPath(mask[i], mask[j]) /\ ~IsPrefix(mask[i], mask[j])

\* The union and the intersection of masks are those of what they cover, in
\* normal form, and every path that one of them has the union has too.
AlgebraHolds(m1, m2) ==
  LET union == MergeFieldMasks(m1, m2)
      both  == IntersectFieldMasks(m1, m2)
  IN /\ Covered(union) = Covered(m1) \cup Covered(m2)
     /\ Covered(both) = Covered(m1) \cap Covered(m2)
     /\ Normal(union) /\ Normal(both)
     /\ \A p \in ToSet(m1) \cup ToSet(m2) : FieldMaskHasPath(union, p)

\* The message with only the masked fields; "s.x" keeps s set.
Projection(msg, mask) ==
  LET Of(part, path) == [f \in {"x", "y"} |-> IF Covers(mask, Append(path, f)) THEN part[f] ELSE 0]
      Names1 == {p[1] : p \in ToSet(mask)}
  IN [n |-> IF "n" \in Names1 THEN msg.n ELSE 0,
      s |-> IF "s" \in Names1 /\ msg.s # None THEN Of(msg.s, <<"s">>) ELSE None,
      l |-> IF "l" \in Names1 THEN [k \in DOMAIN msg.l |-> Of(msg.l[k], <<"l", "*">>)] ELSE <<>>]

\* The mask leads into the list by one path at most, and not by "l.*", whose
\* elements come out empty.
PlainLists(mask) ==
  /\ Cardinality({k \in DOMAIN mask : mask[k][1] = "l"}) <= 1
  /\ <<"l", "*">> \notin ToSet(mask)

\* applyFieldMask keeps what the mask covers and nothing else.
ProjectionHolds(msg, mask) ==
  PlainLists(mask) => ApplyFieldMask(msg, mask) = Projection(msg, mask)

\* The same over samples, for TLC.
ASSUME SampleAssumption ==
  SampleMasks \subseteq Seq(ValidPaths) /\ SampleMessages \subseteq Resource

AlgebraOfSamples == \A m1, m2 \in SampleMasks : AlgebraHolds(m1, m2)
ProjectionOfSamples == \A msg \in SampleMessages, mask \in SampleMasks : ProjectionHolds(msg, mask)
=============================================================================
