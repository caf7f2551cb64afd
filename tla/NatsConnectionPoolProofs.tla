------------------------ MODULE NatsConnectionPoolProofs ------------------------
(***************************************************************************)
(* Theorems about NatsConnectionPool, for any number of owners and         *)
(* connections, when the calls of one owner do not overlap: with           *)
(* overlapping close() calls they are false.                               *)
(***************************************************************************)
EXTENDS NatsConnectionPool, FiniteSetTheorems, TLAPS

(***************************************************************************)
(* The inductive invariant. The count of an entry is the number of owners  *)
(* that hold it, because an owner whose calls do not overlap counts itself *)
(* once and takes that count back once.                                    *)
(***************************************************************************)
Holders(g) == {o \in Owners : acquiring[o][g] > 0 \/ using[o] = g}

\* An owner is in one call at a time, and what it has is what that call left.
OwnerInv(o) ==
  /\ \A g \in Generations : acquiring[o][g] > 0 =>
       /\ acquiring[o][g] = 1 /\ \A h \in Generations \ {g} : acquiring[o][h] = 0
       /\ startup[o] = "pending" /\ ~key[o] /\ using[o] = 0 /\ closing[o] = 0
       /\ \A h \in {0} \cup Generations : releasing[o][h] = 0
  /\ closing[o] > 0 =>
       closing[o] = 1 /\ \A h \in {0} \cup Generations : releasing[o][h] = 0
  /\ \A h \in {0} \cup Generations : releasing[o][h] > 0 =>
       /\ releasing[o][h] = 1 /\ using[o] = 0
       /\ \A i \in ({0} \cup Generations) \ {h} : releasing[o][i] = 0
  /\ using[o] # 0 => key[o] /\ startup[o] = "ready"
  /\ key[o] => using[o] # 0 \/ \E h \in {0} \cup Generations : releasing[o][h] > 0
  /\ startup[o] = "none" => using[o] = 0 /\ ~key[o]

CountsInv == \A g \in Generations : refs[g] = Cardinality(Holders(g))

EntryInv ==
  /\ entry <= opened
  /\ \A g \in Generations : Holders(g) # {} <=> entry = g

ConnInv ==
  \A g \in Generations :
    /\ conn[g] = "none" <=> g > opened
    /\ conn[g] \in Starting \cup Live =>
         entry = g \/ \E o \in Owners : releasing[o][g] > 0
    /\ \A o \in Owners : releasing[o][g] > 0 => entry # g /\ g <= opened
    /\ \A o \in Owners : using[o] = g => conn[g] = "open"
    /\ entry = g => conn[g] # "closed"

IInv == TypeOK /\ (\A o \in Owners : OwnerInv(o)) /\ CountsInv /\ EntryInv /\ ConnInv

USE DEF Starting, Rejected, Live

-------------------------------------------------------------------------------
(* Counting holders.                                                         *)

LEMMA HoldersFinite ==
  ASSUME NEW g
  PROVE  IsFiniteSet(Holders(g)) /\ Cardinality(Holders(g)) \in Nat
<1>1. Holders(g) \subseteq Owners
  BY DEF Holders
<1> QED BY <1>1, Assumption, FS_Subset, FS_CardinalityType

LEMMA NoHolder ==
  ASSUME NEW g
  PROVE  Cardinality(Holders(g)) = 0 <=> Holders(g) = {}
BY HoldersFinite, FS_EmptySet

LEMMA OneMore ==
  ASSUME NEW g, NEW o, o \notin Holders(g), Holders(g)' = Holders(g) \cup {o}
  PROVE  Cardinality(Holders(g))' = Cardinality(Holders(g)) + 1
<1>1. PICK H : H = Holders(g)
  OBVIOUS
<1>2. Cardinality(H \cup {o}) = Cardinality(H) + 1
  BY <1>1, HoldersFinite, FS_AddElement
<1> QED BY <1>1, <1>2

LEMMA OneLess ==
  ASSUME NEW g, NEW o, o \in Holders(g), Holders(g)' = Holders(g) \ {o}
  PROVE  Cardinality(Holders(g))' = Cardinality(Holders(g)) - 1
<1>1. PICK H : H = Holders(g)
  OBVIOUS
<1>2. Cardinality(H \ {o}) = Cardinality(H) - 1
  BY <1>1, HoldersFinite, FS_RemoveElement
<1> QED BY <1>1, <1>2

-------------------------------------------------------------------------------
(* One lemma for each action.                                                *)

LEMMA ConnectionKeeps ==
  ASSUME IInv, NEW g \in Generations, NEW c \in {"connected", "open", "failed", "orphaned"},
         NEW d \in Starting, Connection(g, d, c)
  PROVE  IInv'
<1>1. conn[g] = d /\ conn' = [conn EXCEPT ![g] = c]
  BY DEF Connection
<1>2. UNCHANGED <<poolVars, ownerVars>>
  BY DEF Connection
<1> USE <1>2 DEF poolVars, ownerVars
<1>3. TypeOK'
  BY <1>1 DEF IInv, TypeOK
<1>4. \A o \in Owners : OwnerInv(o)'
  BY DEF IInv, OwnerInv
<1>5. \A h : Holders(h)' = Holders(h)
  BY DEF Holders
<1>6. CountsInv' /\ EntryInv'
  BY <1>5 DEF IInv, CountsInv, EntryInv
<1>7. \A h \in Generations : conn'[h] = IF h = g THEN c ELSE conn[h]
  BY <1>1 DEF IInv, TypeOK
<1>8. ConnInv'
  BY <1>1, <1>7 DEF IInv, ConnInv
<1> QED BY <1>3, <1>4, <1>6, <1>8 DEF IInv

LEMMA StartKeeps ==
  ASSUME IInv, Sequential, NEW o \in Owners, Start(o)
  PROVE  IInv'
<1>1. PICK g \in Generations :
        /\ g = Found /\ entry' = g
        /\ opened' = IF g > opened THEN g ELSE opened
        /\ conn' = IF g > opened THEN [conn EXCEPT ![g] = "connecting"] ELSE conn
        /\ refs' = [refs EXCEPT ![g] = @ + 1]
        /\ acquiring' = [acquiring EXCEPT ![o][g] = @ + 1]
  BY DEF Start
<1>2. /\ startup[o] = "none" /\ startup' = [startup EXCEPT ![o] = "pending"]
      /\ UNCHANGED <<key, using, closing, releasing>>
  BY DEF Start
<1>3. /\ \A h \in Generations : acquiring[o][h] = 0
      /\ closing[o] = 0 /\ \A h \in {0} \cup Generations : releasing[o][h] = 0
      /\ using[o] = 0 /\ ~key[o]
  BY <1>2 DEF Start, MayCall, Idle, IInv, OwnerInv
<1>4. \A p \in Owners, h \in Generations :
        acquiring'[p][h] = IF p = o /\ h = g THEN 1 ELSE acquiring[p][h]
  BY <1>1, <1>3 DEF IInv, TypeOK
<1>5. \A p \in Owners : startup'[p] = IF p = o THEN "pending" ELSE startup[p]
  BY <1>2 DEF IInv, TypeOK
<1>6. TypeOK'
  <2>1. opened' \in {0} \cup Generations /\ entry' \in {0} \cup Generations
    BY <1>1 DEF IInv, TypeOK
  <2>2. conn' \in [Generations -> {"none", "closed"} \cup Starting \cup Rejected \cup Live]
    BY <1>1 DEF IInv, TypeOK
  <2>3. refs' \in [Generations -> Nat]
    BY <1>1 DEF IInv, TypeOK
  <2>4. acquiring' \in [Owners -> [Generations -> Nat]]
    BY <1>1 DEF IInv, TypeOK
  <2>5. startup' \in [Owners -> {"none", "pending", "ready", "failed"}]
    BY <1>2 DEF IInv, TypeOK
  <2> QED BY <1>2, <2>1, <2>2, <2>3, <2>4, <2>5 DEF IInv, TypeOK
<1>7. \A p \in Owners : OwnerInv(p)'
  <2> TAKE p \in Owners
  <2>1. CASE p = o
    BY <1>2, <1>3, <1>4, <1>5, <2>1 DEF OwnerInv
  <2>2. CASE p # o
    BY <1>2, <1>4, <1>5, <2>2 DEF IInv, OwnerInv
  <2> QED BY <2>1, <2>2
<1>8. /\ o \notin Holders(g) /\ Holders(g)' = Holders(g) \cup {o}
      /\ \A h \in Generations \ {g} : Holders(h)' = Holders(h)
  <2>1. o \notin Holders(g)
    BY <1>3 DEF Holders, Generations
  <2>2. Holders(g)' = Holders(g) \cup {o}
    BY <1>2, <1>4 DEF Holders
  <2>3. \A h \in Generations \ {g} : Holders(h)' = Holders(h)
    BY <1>2, <1>4 DEF Holders
  <2> QED BY <2>1, <2>2, <2>3
<1>9. CountsInv'
  <2>1. refs'[g] = Cardinality(Holders(g))'
    BY <1>1, <1>8, OneMore DEF IInv, TypeOK, CountsInv
  <2>2. \A h \in Generations \ {g} : refs'[h] = Cardinality(Holders(h))'
    BY <1>1, <1>8 DEF IInv, TypeOK, CountsInv
  <2> QED BY <2>1, <2>2 DEF CountsInv
<1>10. entry \in {0, g} /\ (entry = 0 => g = opened + 1) /\ (entry = g => g <= opened)
  <2>1. opened \in Nat /\ entry \in Nat /\ entry <= opened
    BY DEF IInv, TypeOK, EntryInv, Generations
  <2>2. 0 \notin Generations
    BY DEF Generations
  <2> QED BY <1>1, <2>1, <2>2 DEF Found
<1>11. EntryInv'
  <2>1. entry' <= opened'
    BY <1>1, <1>10 DEF IInv, TypeOK, Generations
  <2>2. \A h \in Generations : Holders(h)' # {} <=> entry' = h
    <3> TAKE h \in Generations
    <3>1. h # 0
      BY DEF Generations
    <3>2. CASE h = g
      BY <1>1, <1>8, <3>2
    <3>3. CASE h # g
      BY <1>1, <1>8, <1>10, <3>1, <3>3 DEF IInv, EntryInv
    <3> QED BY <3>2, <3>3
  <2> QED BY <2>1, <2>2 DEF EntryInv
<1>12. ConnInv'
  <2>1. opened \in Nat /\ g \in Nat /\ g > 0 /\ Generations \subseteq Nat \ {0}
    BY DEF IInv, TypeOK, Generations
  <2>2. CASE entry = g
    <3>1. UNCHANGED <<conn, opened, entry>>
      BY <1>1, <1>10, <2>1, <2>2
    <3> QED BY <1>2, <3>1 DEF IInv, ConnInv
  <2>3. CASE entry = 0
    <3>1. /\ opened' = opened + 1 /\ g = opened + 1 /\ entry' = g
          /\ \A h \in Generations : conn'[h] = IF h = g THEN "connecting" ELSE conn[h]
      BY <1>1, <1>10, <2>1, <2>3 DEF IInv, TypeOK
    <3>2. \A p \in Owners : using[p] \notin Generations
      <4> TAKE p \in Owners
      <4>1. using[p] \in Generations => p \in Holders(using[p])
        BY DEF Holders
      <4> QED BY <2>1, <2>3, <4>1 DEF IInv, EntryInv
    <3> SUFFICES ASSUME NEW h \in Generations
                 PROVE  /\ conn'[h] = "none" <=> h > opened'
                        /\ conn'[h] \in Starting \cup Live =>
                             entry' = h \/ \E p \in Owners : releasing'[p][h] > 0
                        /\ \A p \in Owners : releasing'[p][h] > 0 => entry' # h /\ h <= opened'
                        /\ \A p \in Owners : using'[p] = h => conn'[h] = "open"
                        /\ entry' = h => conn'[h] # "closed"
      BY DEF ConnInv
    <3>3. CASE h = g
      BY <1>2, <2>1, <3>1, <3>2, <3>3 DEF IInv, ConnInv
    <3>4. CASE h # g
      <4>1. h # 0 /\ h \in Nat /\ conn'[h] = conn[h] /\ UNCHANGED <<releasing, using>>
        BY <1>2, <2>1, <3>1, <3>4
      <4>2. conn[h] = "none" <=> h > opened'
        BY <2>1, <3>1, <3>4, <4>1 DEF IInv, ConnInv
      <4>3. \A p \in Owners : releasing[p][h] > 0 => h <= opened'
        BY <2>1, <3>1, <4>1 DEF IInv, ConnInv
      <4> QED BY <2>3, <3>1, <3>2, <3>4, <4>1, <4>2, <4>3 DEF IInv, ConnInv
    <3> QED BY <3>3, <3>4
  <2> QED BY <1>10, <2>2, <2>3
<1> QED BY <1>6, <1>7, <1>9, <1>11, <1>12 DEF IInv

LEMMA AcquiredKeeps ==
  ASSUME IInv, NEW o \in Owners, NEW g \in Generations, Acquired(o, g)
  PROVE  IInv'
<1>1. /\ acquiring[o][g] > 0 /\ conn[g] \in {"open", "closed"}
      /\ acquiring' = [acquiring EXCEPT ![o][g] = @ - 1]
      /\ key' = [key EXCEPT ![o] = TRUE]
      /\ using' = [using EXCEPT ![o] = g]
      /\ startup' = [startup EXCEPT ![o] = IF @ = "pending" THEN "ready" ELSE @]
      /\ UNCHANGED <<poolVars, conn, closing, releasing>>
  BY DEF Acquired
<1>2. /\ acquiring[o][g] = 1 /\ \A h \in Generations \ {g} : acquiring[o][h] = 0
      /\ startup[o] = "pending" /\ using[o] = 0 /\ closing[o] = 0
      /\ \A h \in {0} \cup Generations : releasing[o][h] = 0
  BY <1>1 DEF IInv, OwnerInv
<1>3. g # 0
  BY DEF Generations
<1>4. /\ \A p \in Owners \ {o} :
           /\ acquiring'[p] = acquiring[p] /\ key'[p] = key[p]
           /\ using'[p] = using[p] /\ startup'[p] = startup[p]
      /\ \A h \in Generations : acquiring'[o][h] = 0
      /\ key'[o] /\ using'[o] = g /\ startup'[o] = "ready"
  BY <1>1, <1>2 DEF IInv, TypeOK
<1>5. TypeOK'
  <2>1. acquiring' \in [Owners -> [Generations -> Nat]]
    BY <1>1, <1>2 DEF IInv, TypeOK
  <2> QED BY <1>1, <1>2, <2>1 DEF IInv, TypeOK, poolVars
<1>6. \A p \in Owners : OwnerInv(p)'
  <2> TAKE p \in Owners
  <2>1. CASE p = o
    <3>1. /\ key'[o] /\ using'[o] = g /\ startup'[o] = "ready" /\ closing'[o] = 0
          /\ \A h \in Generations : acquiring'[o][h] = 0
          /\ \A h \in {0} \cup Generations : releasing'[o][h] = 0
      BY <1>1, <1>2, <1>4
    <3> QED BY <1>3, <2>1, <3>1 DEF OwnerInv
  <2>2. CASE p # o
    BY <1>1, <1>4, <2>2 DEF IInv, OwnerInv
  <2> QED BY <2>1, <2>2
<1>7. \A h \in Generations : Holders(h)' = Holders(h)
  <2> TAKE h \in Generations
  <2>1. o \in Holders(h)' <=> o \in Holders(h)
    <3>1. acquiring'[o][h] = 0 /\ using'[o] = g /\ using[o] # h
      BY <1>2, <1>4 DEF Generations
    <3>2. h = g => acquiring[o][h] > 0
      BY <1>1
    <3>3. h # g => acquiring[o][h] = 0
      BY <1>2
    <3> QED BY <3>1, <3>2, <3>3 DEF Holders
  <2>2. \A p \in Owners \ {o} : p \in Holders(h)' <=> p \in Holders(h)
    BY <1>4 DEF Holders
  <2> QED BY <2>1, <2>2 DEF Holders
<1>8. CountsInv' /\ EntryInv'
  BY <1>1, <1>7 DEF IInv, CountsInv, EntryInv, poolVars
<1>9. entry = g /\ conn[g] = "open"
  <2>1. o \in Holders(g)
    BY <1>1 DEF Holders
  <2>2. entry = g
    BY <2>1 DEF IInv, EntryInv
  <2> QED BY <1>1, <2>2 DEF IInv, ConnInv
<1>10. ConnInv'
  <2>1. \A p \in Owners, h \in Generations : using'[p] = h => using[p] = h \/ h = entry
    BY <1>4, <1>9
  <2> QED BY <1>1, <1>9, <2>1 DEF IInv, ConnInv, poolVars
<1> QED BY <1>5, <1>6, <1>8, <1>10 DEF IInv

LEMMA AcquireFailsKeeps ==
  ASSUME IInv, NEW o \in Owners, NEW g \in Generations, AcquireFails(o, g)
  PROVE  IInv'
<1>1. /\ acquiring[o][g] > 0 /\ conn[g] \in Rejected
      /\ acquiring' = [acquiring EXCEPT ![o][g] = @ - 1]
      /\ refs' = [refs EXCEPT ![g] = @ - 1]
      /\ entry' = EntryAfterError(g)
      /\ startup' = [startup EXCEPT ![o] = IF @ = "pending" THEN "failed" ELSE @]
      /\ UNCHANGED <<opened, conn, key, using, closing, releasing>>
  BY DEF AcquireFails
<1>2. /\ acquiring[o][g] = 1 /\ \A h \in Generations \ {g} : acquiring[o][h] = 0
      /\ startup[o] = "pending" /\ using[o] = 0 /\ closing[o] = 0 /\ ~key[o]
      /\ \A h \in {0} \cup Generations : releasing[o][h] = 0
  BY <1>1 DEF IInv, OwnerInv
<1>3. 0 \notin Generations
  BY DEF Generations
<1>4. \A p \in Owners :
        /\ \A h \in Generations : acquiring'[p][h] = IF p = o THEN 0 ELSE acquiring[p][h]
        /\ startup'[p] = IF p = o THEN "failed" ELSE startup[p]
  BY <1>1, <1>2 DEF IInv, TypeOK
<1>5. o \in Holders(g) /\ Holders(g)' = Holders(g) \ {o}
      /\ \A h \in Generations \ {g} : Holders(h)' = Holders(h)
  <2>1. o \in Holders(g)
    BY <1>1 DEF Holders
  <2>2. Holders(g)' = Holders(g) \ {o}
    BY <1>1, <1>2, <1>3, <1>4 DEF Holders
  <2>3. \A h \in Generations \ {g} : Holders(h)' = Holders(h)
    BY <1>1, <1>2, <1>3, <1>4 DEF Holders
  <2> QED BY <2>1, <2>2, <2>3
<1>6. entry = g /\ refs[g] = Cardinality(Holders(g)) /\ Cardinality(Holders(g)) \in Nat \ {0}
  BY <1>5, HoldersFinite, NoHolder DEF IInv, EntryInv, CountsInv
<1>7. entry' = IF refs[g] = 1 THEN 0 ELSE g
  BY <1>1, <1>6 DEF EntryAfterError
<1>8. Cardinality(Holders(g))' = Cardinality(Holders(g)) - 1
  BY <1>5, OneLess
<1>9. TypeOK'
  <2>1. acquiring' \in [Owners -> [Generations -> Nat]]
    BY <1>1, <1>2 DEF IInv, TypeOK
  <2>2. refs' \in [Generations -> Nat]
    BY <1>1, <1>6 DEF IInv, TypeOK
  <2>3. startup' \in [Owners -> {"none", "pending", "ready", "failed"}]
    BY <1>1 DEF IInv, TypeOK
  <2> QED BY <1>1, <1>7, <2>1, <2>2, <2>3 DEF IInv, TypeOK
<1>10. \A p \in Owners : OwnerInv(p)'
  <2> TAKE p \in Owners
  <2>1. CASE p = o
    BY <1>1, <1>2, <1>4, <2>1 DEF OwnerInv
  <2>2. CASE p # o
    BY <1>1, <1>4, <2>2 DEF IInv, OwnerInv
  <2> QED BY <2>1, <2>2
<1>11. CountsInv'
  <2>1. refs'[g] = Cardinality(Holders(g))'
    BY <1>1, <1>6, <1>8 DEF IInv, TypeOK
  <2>2. \A h \in Generations \ {g} : refs'[h] = Cardinality(Holders(h))'
    BY <1>1, <1>5 DEF IInv, TypeOK, CountsInv
  <2> QED BY <2>1, <2>2 DEF CountsInv
<1>12. Holders(g)' # {} <=> refs[g] # 1
  <2>1. Cardinality(Holders(g))' = 0 <=> Holders(g)' = {}
    <3>1. PICK H : H = Holders(g)
      OBVIOUS
    <3>2. IsFiniteSet(H \ {o})
      BY <3>1, HoldersFinite, FS_RemoveElement
    <3>3. Cardinality(H \ {o}) = 0 <=> H \ {o} = {}
      BY <3>2, FS_EmptySet
    <3> QED BY <1>5, <3>1, <3>3
  <2> QED BY <1>6, <1>8, <2>1
<1>13. EntryInv'
  <2>1. entry' <= opened'
    BY <1>1, <1>6, <1>7 DEF IInv, EntryInv, TypeOK, Generations
  <2>2. \A h \in Generations : Holders(h)' # {} <=> entry' = h
    <3> TAKE h \in Generations
    <3>1. CASE h = g
      BY <1>3, <1>7, <1>12, <3>1
    <3>2. CASE h # g
      BY <1>3, <1>5, <1>6, <1>7, <3>2 DEF IInv, EntryInv
    <3> QED BY <3>1, <3>2
  <2> QED BY <2>1, <2>2 DEF EntryInv
<1>14. ConnInv'
  BY <1>1, <1>3, <1>6, <1>7 DEF IInv, ConnInv
<1> QED BY <1>9, <1>10, <1>11, <1>13, <1>14 DEF IInv

LEMMA CloseKeeps ==
  ASSUME IInv, Sequential, NEW o \in Owners, Close(o)
  PROVE  IInv'
<1>1. /\ closing' = [closing EXCEPT ![o] = @ + 1]
      /\ UNCHANGED <<poolVars, conn, startup, acquiring, key, using, releasing>>
  BY DEF Close
<1>2. /\ closing[o] = 0 /\ \A g \in Generations : acquiring[o][g] = 0
      /\ \A h \in {0} \cup Generations : releasing[o][h] = 0
  BY DEF Close, MayCall, Idle
<1>3. \A p \in Owners : closing'[p] = IF p = o THEN 1 ELSE closing[p]
  BY <1>1, <1>2 DEF IInv, TypeOK
<1>4. TypeOK'
  <2>1. closing' \in [Owners -> Nat]
    BY <1>1, <1>2 DEF IInv, TypeOK
  <2> QED BY <1>1, <2>1 DEF IInv, TypeOK, poolVars
<1>5. \A p \in Owners : OwnerInv(p)'
  <2> TAKE p \in Owners
  <2>1. CASE p = o
    <3>1. \A g \in Generations : ~(acquiring[o][g] > 0)
      BY <1>2
    <3> QED BY <1>1, <1>2, <1>3, <2>1, <3>1 DEF IInv, OwnerInv
  <2>2. CASE p # o
    BY <1>1, <1>3, <2>2 DEF IInv, OwnerInv
  <2> QED BY <2>1, <2>2
<1>6. \A h : Holders(h)' = Holders(h)
  BY <1>1 DEF Holders
<1>7. CountsInv' /\ EntryInv' /\ ConnInv'
  BY <1>1, <1>6 DEF IInv, CountsInv, EntryInv, ConnInv, poolVars
<1> QED BY <1>4, <1>5, <1>7 DEF IInv

LEMMA ReleaseKeeps ==
  ASSUME IInv, NEW o \in Owners, Release(o)
  PROVE  IInv'
<1>1. PICK counted \in BOOLEAN, last \in BOOLEAN, target \in {0} \cup Generations :
        /\ counted <=> key[o] /\ entry # 0
        /\ last <=> counted /\ refs[entry] <= 1
        /\ target = IF last THEN entry ELSE 0
        /\ refs' = IF counted THEN [refs EXCEPT ![entry] = @ - 1] ELSE refs
        /\ entry' = IF last THEN 0 ELSE entry
        /\ releasing' = [releasing EXCEPT ![o][target] = @ + 1]
  <2>1. entry \in {0} \cup Generations
    BY DEF IInv, TypeOK
  <2> QED BY <2>1 DEF Release, LastOut
<1>2. /\ closing[o] > 0
      /\ closing' = [closing EXCEPT ![o] = @ - 1]
      /\ using' = [using EXCEPT ![o] = 0]
      /\ UNCHANGED <<opened, conn, startup, acquiring, key>>
  BY DEF Release
<1>3. 0 \notin Generations
  BY DEF Generations
<1>4. /\ closing[o] = 1 /\ \A h \in {0} \cup Generations : releasing[o][h] = 0
      /\ \A g \in Generations : acquiring[o][g] = 0
  <2>1. closing[o] = 1 /\ \A h \in {0} \cup Generations : releasing[o][h] = 0
    BY <1>2 DEF IInv, OwnerInv
  <2>2. \A g \in Generations : ~(acquiring[o][g] > 0)
    BY <2>1 DEF IInv, OwnerInv
  <2> QED BY <2>1, <2>2 DEF IInv, TypeOK
\* An owner with a key is a holder of the entry, so it takes back its own count.
<1>5. /\ counted <=> using[o] # 0
      /\ counted => using[o] = entry /\ entry \in Generations
      /\ key[o] <=> using[o] # 0
  <2>1. key[o] <=> using[o] # 0
    <3>1. key[o] => using[o] # 0
      <4>1. \A h \in {0} \cup Generations : ~(releasing[o][h] > 0)
        BY <1>4
      <4> QED BY <4>1 DEF IInv, OwnerInv
    <3>2. using[o] # 0 => key[o]
      BY DEF IInv, OwnerInv
    <3> QED BY <3>1, <3>2
  <2>2. using[o] # 0 => using[o] = entry /\ entry \in Generations
    <3>1. using[o] # 0 => using[o] \in Generations /\ o \in Holders(using[o])
      BY DEF IInv, TypeOK, Holders
    <3> QED BY <3>1 DEF IInv, EntryInv
  <2> QED BY <1>1, <1>3, <2>1, <2>2
<1>6. \A p \in Owners :
        /\ closing'[p] = IF p = o THEN 0 ELSE closing[p]
        /\ using'[p] = IF p = o THEN 0 ELSE using[p]
        /\ \A h \in {0} \cup Generations :
             releasing'[p][h] = IF p = o /\ h = target THEN 1 ELSE releasing[p][h]
  <2>1. \A p \in Owners : closing'[p] = (IF p = o THEN 0 ELSE closing[p])
    BY <1>2, <1>4 DEF IInv, TypeOK
  <2>2. \A p \in Owners : using'[p] = IF p = o THEN 0 ELSE using[p]
    BY <1>2 DEF IInv, TypeOK
  <2>3. \A p \in Owners : \A h \in {0} \cup Generations :
          releasing'[p][h] = IF p = o /\ h = target THEN 1 ELSE releasing[p][h]
    BY <1>1, <1>4 DEF IInv, TypeOK
  <2> QED BY <2>1, <2>2, <2>3
<1>7. \A p \in Owners : OwnerInv(p)'
  <2> TAKE p \in Owners
  <2>1. CASE p = o
    <3>1. /\ closing'[o] = 0 /\ using'[o] = 0
          /\ \A g \in Generations : acquiring'[o][g] = 0
          /\ \A h \in {0} \cup Generations : releasing'[o][h] = IF h = target THEN 1 ELSE 0
      BY <1>2, <1>4, <1>6
    <3>2. startup'[o] = "none" => ~key'[o]
      BY <1>2 DEF IInv, OwnerInv
    <3> QED BY <2>1, <3>1, <3>2 DEF OwnerInv
  <2>2. CASE p # o
    BY <1>2, <1>6, <2>2 DEF IInv, OwnerInv
  <2> QED BY <2>1, <2>2
<1>8. ASSUME NEW g \in Generations
      PROVE  Holders(g)' = IF counted /\ g = entry THEN Holders(g) \ {o} ELSE Holders(g)
  <2>1. \A p \in Owners \ {o} : p \in Holders(g)' <=> p \in Holders(g)
    BY <1>2, <1>6 DEF Holders
  <2>2. o \notin Holders(g)'
    <3>1. acquiring'[o][g] = 0 /\ using'[o] = 0 /\ g # 0
      BY <1>2, <1>3, <1>4, <1>6
    <3> QED BY <3>1 DEF Holders
  <2>3. o \in Holders(g) <=> counted /\ g = entry
    <3>1. acquiring[o][g] = 0 /\ g # 0
      BY <1>3, <1>4
    <3>2. o \in Holders(g) <=> using[o] = g
      BY <3>1 DEF Holders
    <3> QED BY <1>3, <1>5, <3>1, <3>2
  <2> QED BY <2>1, <2>2, <2>3 DEF Holders
<1>9. ASSUME counted
      PROVE  /\ entry \in Generations /\ refs[entry] = Cardinality(Holders(entry))
             /\ refs[entry] \in Nat \ {0}
             /\ Cardinality(Holders(entry)) - 1 = Cardinality(Holders(entry) \ {o})
             /\ Holders(entry) \ {o} # {} <=> refs[entry] > 1
  <2>1. entry \in Generations /\ o \in Holders(entry)
    BY <1>3, <1>5, <1>9 DEF Holders
  <2>2. /\ refs[entry] = Cardinality(Holders(entry))
        /\ Cardinality(Holders(entry)) \in Nat \ {0}
    BY <2>1, HoldersFinite, NoHolder DEF IInv, CountsInv
  <2>3. PICK H : H = Holders(entry)
    OBVIOUS
  <2>4. IsFiniteSet(H \ {o}) /\ Cardinality(H \ {o}) = Cardinality(H) - 1
    BY <2>1, <2>3, HoldersFinite, FS_RemoveElement
  <2>5. Cardinality(H \ {o}) = 0 <=> H \ {o} = {}
    BY <2>4, FS_EmptySet
  <2>6. Cardinality(H \ {o}) \in Nat
    BY <2>4, FS_CardinalityType
  <2> QED BY <2>1, <2>2, <2>3, <2>4, <2>5, <2>6
<1>10. CountsInv'
  <2> SUFFICES ASSUME NEW g \in Generations PROVE refs'[g] = Cardinality(Holders(g))'
    BY DEF CountsInv
  <2>1. CASE counted /\ g = entry
    <3>1. refs'[g] = refs[entry] - 1
      BY <1>1, <1>9, <2>1 DEF IInv, TypeOK
    <3>2. Holders(g)' = Holders(entry) \ {o}
      BY <1>8, <2>1
    <3> QED BY <1>9, <2>1, <3>1, <3>2
  <2>2. CASE ~(counted /\ g = entry)
    <3>1. refs'[g] = refs[g]
      BY <1>1, <2>2 DEF IInv, TypeOK
    <3>2. Holders(g)' = Holders(g)
      BY <1>8, <2>2
    <3> QED BY <3>1, <3>2 DEF IInv, CountsInv
  <2> QED BY <2>1, <2>2
<1>11. EntryInv'
  <2>1. entry' <= opened'
    <3>1. opened \in Nat
      BY DEF IInv, TypeOK, Generations
    <3> QED BY <1>1, <1>2, <3>1 DEF IInv, EntryInv
  <2>2. ASSUME NEW g \in Generations PROVE Holders(g)' # {} <=> entry' = g
    <3>1. CASE counted /\ g = entry
      <4>1. Holders(g)' = Holders(entry) \ {o}
        BY <1>8, <3>1
      <4>2. last <=> ~(refs[entry] > 1)
        BY <1>1, <1>9, <3>1
      <4> QED BY <1>1, <1>3, <1>9, <3>1, <4>1, <4>2
    <3>2. CASE counted /\ g # entry
      BY <1>1, <1>3, <1>8, <3>2 DEF IInv, EntryInv
    <3>3. CASE ~counted
      BY <1>1, <1>8, <3>3 DEF IInv, EntryInv
    <3> QED BY <3>1, <3>2, <3>3
  <2> QED BY <2>1, <2>2 DEF EntryInv
<1>12. ConnInv'
  <2> SUFFICES ASSUME NEW g \in Generations
               PROVE  /\ conn'[g] = "none" <=> g > opened'
                      /\ conn'[g] \in Starting \cup Live =>
                           entry' = g \/ \E p \in Owners : releasing'[p][g] > 0
                      /\ \A p \in Owners : releasing'[p][g] > 0 => entry' # g /\ g <= opened'
                      /\ \A p \in Owners : using'[p] = g => conn'[g] = "open"
                      /\ entry' = g => conn'[g] # "closed"
    BY DEF ConnInv
  <2>1. entry = g /\ entry' # g => releasing'[o][g] > 0
    <3>1. entry = g /\ entry' # g => target = g
      BY <1>1
    <3> QED BY <1>6, <3>1
  <2>2. \A p \in Owners : releasing[p][g] > 0 => releasing'[p][g] > 0
    <3>1. releasing[o][g] = 0 /\ ~(0 > 0)
      BY <1>4
    <3> QED BY <1>6, <3>1
  <2>3. conn'[g] \in Starting \cup Live =>
          entry' = g \/ \E p \in Owners : releasing'[p][g] > 0
    BY <1>2, <2>1, <2>2 DEF IInv, ConnInv
  <2>4. \A p \in Owners : releasing'[p][g] > 0 => entry' # g /\ g <= opened'
    <3> SUFFICES ASSUME NEW p \in Owners, releasing'[p][g] > 0 PROVE entry' # g /\ g <= opened'
      OBVIOUS
    <3>1. CASE p = o /\ g = target
      BY <1>1, <1>2, <1>3, <3>1 DEF IInv, EntryInv
    <3>2. CASE ~(p = o /\ g = target)
      <4>1. releasing[p][g] > 0
        BY <1>6, <3>2
      <4> QED BY <1>1, <1>2, <1>3, <4>1 DEF IInv, ConnInv
    <3> QED BY <3>1, <3>2
  <2>5. \A p \in Owners : using'[p] = g => conn'[g] = "open"
    BY <1>2, <1>3, <1>6 DEF IInv, ConnInv
  <2>6. entry' = g => entry = g
    BY <1>1, <1>3
  <2> QED BY <1>2, <2>3, <2>4, <2>5, <2>6 DEF IInv, ConnInv
<1>13. TypeOK'
  <2>1. refs' \in [Generations -> Nat]
    <3>1. CASE counted
      <4>1. refs[entry] - 1 \in Nat
        BY <1>9, <3>1
      <4> QED BY <1>1, <3>1, <4>1 DEF IInv, TypeOK
    <3>2. CASE ~counted
      BY <1>1, <3>2 DEF IInv, TypeOK
    <3> QED BY <3>1, <3>2
  <2>2. closing' \in [Owners -> Nat]
    BY <1>2, <1>4 DEF IInv, TypeOK
  <2>3. using' \in [Owners -> {0} \cup Generations]
    BY <1>2 DEF IInv, TypeOK
  <2>4. releasing' \in [Owners -> [{0} \cup Generations -> Nat]]
    <3>1. releasing[o] \in [{0} \cup Generations -> Nat]
      BY DEF IInv, TypeOK
    <3>2. [releasing[o] EXCEPT ![target] = @ + 1] \in [{0} \cup Generations -> Nat]
      BY <3>1
    <3> QED BY <1>1, <3>2 DEF IInv, TypeOK
  <2>5. entry' \in {0} \cup Generations
    BY <1>1 DEF IInv, TypeOK
  <2> QED BY <1>2, <2>1, <2>2, <2>3, <2>4, <2>5 DEF IInv, TypeOK
<1> QED BY <1>7, <1>10, <1>11, <1>12, <1>13 DEF IInv

LEMMA ReleasedKeeps ==
  ASSUME IInv, NEW o \in Owners, NEW g \in {0} \cup Generations, Released(o, g)
  PROVE  IInv'
<1>1. /\ releasing[o][g] > 0
      /\ releasing' = [releasing EXCEPT ![o][g] = @ - 1]
      /\ key' = [key EXCEPT ![o] = FALSE]
      /\ startup' = [startup EXCEPT ![o] = "none"]
      /\ UNCHANGED <<poolVars, acquiring, using, closing>>
  BY DEF Released
<1>2. /\ releasing[o][g] = 1 /\ using[o] = 0 /\ closing[o] = 0
      /\ \A h \in ({0} \cup Generations) \ {g} : releasing[o][h] = 0
      /\ \A h \in Generations : acquiring[o][h] = 0
  <2>1. /\ releasing[o][g] = 1 /\ using[o] = 0
        /\ \A h \in ({0} \cup Generations) \ {g} : releasing[o][h] = 0
    BY <1>1 DEF IInv, OwnerInv
  <2>2. ~(closing[o] > 0) /\ \A h \in Generations : ~(acquiring[o][h] > 0)
    BY <1>1, <2>1 DEF IInv, OwnerInv
  <2> QED BY <2>1, <2>2 DEF IInv, TypeOK
<1>3. /\ \A p \in Owners \ {o} :
           releasing'[p] = releasing[p] /\ key'[p] = key[p] /\ startup'[p] = startup[p]
      /\ \A h \in {0} \cup Generations : releasing'[o][h] = 0
      /\ ~key'[o] /\ startup'[o] = "none"
  BY <1>1, <1>2 DEF IInv, TypeOK
<1>4. \A h \in Generations :
        conn'[h] = IF h = g /\ conn[h] = "open" THEN "closed" ELSE conn[h]
  <2>1. CASE g = 0
    BY <2>1 DEF Released, Generations
  <2>2. CASE g # 0
    <3>1. conn' = [conn EXCEPT ![g] = IF @ = "open" THEN "closed" ELSE @]
      BY <2>2 DEF Released
    <3> QED BY <3>1 DEF IInv, TypeOK
  <2> QED BY <2>1, <2>2
<1>5. TypeOK'
  <2>1. releasing' \in [Owners -> [{0} \cup Generations -> Nat]]
    <3>1. releasing[o] \in [{0} \cup Generations -> Nat]
      BY DEF IInv, TypeOK
    <3>2. [releasing[o] EXCEPT ![g] = @ - 1] \in [{0} \cup Generations -> Nat]
      BY <1>2, <3>1
    <3> QED BY <1>1, <3>2 DEF IInv, TypeOK
  <2>2. conn' \in [Generations -> {"none", "closed"} \cup Starting \cup Rejected \cup Live]
    BY DEF Released, IInv, TypeOK
  <2>3. startup' \in [Owners -> {"none", "pending", "ready", "failed"}]
    BY <1>1 DEF IInv, TypeOK
  <2>4. key' \in [Owners -> BOOLEAN]
    BY <1>1 DEF IInv, TypeOK
  <2> QED BY <1>1, <2>1, <2>2, <2>3, <2>4 DEF IInv, TypeOK, poolVars
<1>6. \A p \in Owners : OwnerInv(p)'
  <2> TAKE p \in Owners
  <2>1. CASE p = o
    <3>1. /\ ~key'[o] /\ using'[o] = 0 /\ startup'[o] = "none" /\ closing'[o] = 0
          /\ \A h \in Generations : acquiring'[o][h] = 0
          /\ \A h \in {0} \cup Generations : releasing'[o][h] = 0
      BY <1>1, <1>2, <1>3
    <3> QED BY <2>1, <3>1 DEF OwnerInv
  <2>2. CASE p # o
    BY <1>1, <1>3, <2>2 DEF IInv, OwnerInv
  <2> QED BY <2>1, <2>2
<1>7. \A h : Holders(h)' = Holders(h)
  BY <1>1 DEF Holders
<1>8. CountsInv' /\ EntryInv'
  BY <1>1, <1>7 DEF IInv, CountsInv, EntryInv, poolVars
<1>9. ConnInv'
  <2> SUFFICES ASSUME NEW h \in Generations
               PROVE  /\ conn'[h] = "none" <=> h > opened'
                      /\ conn'[h] \in Starting \cup Live =>
                           entry' = h \/ \E p \in Owners : releasing'[p][h] > 0
                      /\ \A p \in Owners : releasing'[p][h] > 0 => entry' # h /\ h <= opened'
                      /\ \A p \in Owners : using'[p] = h => conn'[h] = "open"
                      /\ entry' = h => conn'[h] # "closed"
    BY DEF ConnInv
  <2>1. UNCHANGED <<entry, opened, using>>
    BY <1>1 DEF poolVars
  <2>2. h = g => entry # h /\ \A p \in Owners : using[p] # h
    <3>1. h = g => entry # h
      BY <1>1 DEF IInv, ConnInv
    <3>2. \A p \in Owners : using[p] = h => p \in Holders(h)
      BY DEF Holders
    <3> QED BY <3>1, <3>2 DEF IInv, EntryInv
  <2>3. h # g => \A p \in Owners : releasing'[p][h] = releasing[p][h]
    <3>1. h # g => releasing'[o][h] = releasing[o][h]
      BY <1>2, <1>3
    <3> QED BY <1>3, <3>1
  <2>4. conn'[h] \in Starting \cup Live =>
          entry' = h \/ \E p \in Owners : releasing'[p][h] > 0
    <3>1. CASE h = g
      <4>1. conn[h] \notin Starting
        BY <3>1 DEF Released, Generations
      <4> QED BY <1>4, <3>1, <4>1
    <3>2. CASE h # g
      BY <1>4, <2>1, <2>3, <3>2 DEF IInv, ConnInv
    <3> QED BY <3>1, <3>2
  <2>5. \A p \in Owners : releasing'[p][h] > 0 => releasing[p][h] > 0
    <3>1. releasing'[o][h] = 0
      BY <1>3
    <3> QED BY <1>3, <3>1
  <2> QED BY <1>4, <2>1, <2>2, <2>4, <2>5 DEF IInv, ConnInv
<1> QED BY <1>5, <1>6, <1>8, <1>9 DEF IInv

-------------------------------------------------------------------------------
(* The theorems.                                                             *)

LEMMA InitHolds ==
  ASSUME Init
  PROVE  IInv
<1>1. TypeOK
  BY Assumption DEF Init, TypeOK
<1>2. \A o \in Owners : OwnerInv(o)
  BY DEF Init, OwnerInv, Generations
<1>3. \A g \in Generations : Holders(g) = {}
  BY DEF Init, Holders, Generations
<1>4. CountsInv /\ EntryInv
  <2>1. Cardinality({}) = 0
    BY FS_EmptySet
  <2>2. CountsInv
    BY <1>3, <2>1 DEF Init, CountsInv
  <2>3. EntryInv
    BY <1>3 DEF Init, EntryInv, Generations
  <2> QED BY <2>2, <2>3
<1>5. ConnInv
  BY DEF Init, ConnInv, Generations
<1> QED BY <1>1, <1>2, <1>4, <1>5 DEF IInv

LEMMA NextKeeps ==
  ASSUME IInv, Sequential, [Next]_vars
  PROVE  IInv'
<1>1. ASSUME NEW g \in Generations,
              Connects(g) \/ ConnectFails(g) \/ ManagerReady(g) \/ ManagerFails(g)
       PROVE  IInv'
  BY <1>1, ConnectionKeeps DEF Connects, ConnectFails, ManagerReady, ManagerFails
<1>2. ASSUME NEW o \in Owners, Start(o) PROVE IInv'
  BY <1>2, StartKeeps
<1>3. ASSUME NEW o \in Owners, Close(o) PROVE IInv'
  BY <1>3, CloseKeeps
<1>4. ASSUME NEW o \in Owners, Release(o) PROVE IInv'
  BY <1>4, ReleaseKeeps
<1>5. ASSUME NEW o \in Owners, NEW g \in {0} \cup Generations, Released(o, g) PROVE IInv'
  BY <1>5, ReleasedKeeps
<1>6. ASSUME NEW o \in Owners, NEW g \in Generations, Acquired(o, g) PROVE IInv'
  BY <1>6, AcquiredKeeps
<1>7. ASSUME NEW o \in Owners, NEW g \in Generations, AcquireFails(o, g) PROVE IInv'
  BY <1>7, AcquireFailsKeeps
<1>8. CASE UNCHANGED vars
  <2>1. \A h : Holders(h)' = Holders(h)
    BY <1>8 DEF vars, ownerVars, Holders
  <2>2. TypeOK'
    BY <1>8 DEF IInv, TypeOK, vars, poolVars, ownerVars
  <2>3. \A o \in Owners : OwnerInv(o)'
    BY <1>8 DEF IInv, OwnerInv, vars, ownerVars
  <2>4. CountsInv' /\ EntryInv' /\ ConnInv'
    BY <1>8, <2>1 DEF IInv, CountsInv, EntryInv, ConnInv, vars, poolVars, ownerVars
  <2> QED BY <2>2, <2>3, <2>4 DEF IInv
<1> QED BY <1>1, <1>2, <1>3, <1>4, <1>5, <1>6, <1>7, <1>8 DEF Next

(* As long as the calls of one owner do not overlap, the count of the shared *)
(* entry is the number of owners that hold it, and only its last holder      *)
(* takes it out of the map.                                                  *)
THEOREM Invariance == Sequential => (Spec => []IInv)
<1> SUFFICES ASSUME Sequential PROVE Spec => []IInv
  OBVIOUS
<1>1. Init => IInv
  BY InitHolds
<1>2. IInv /\ [Next]_vars => IInv'
  BY NextKeeps
<1> QED BY <1>1, <1>2, PTL DEF Spec

(* No owner is cut off by the close() of another one.                        *)
THEOREM NobodyIsCutOff == Sequential => (Spec => []UsedIsOpen)
<1> SUFFICES ASSUME Sequential PROVE Spec => []UsedIsOpen
  OBVIOUS
<1>1. IInv => UsedIsOpen
  BY DEF IInv, TypeOK, ConnInv, UsedIsOpen
<1> QED BY <1>1, Invariance, PTL

(* releaseSharedNatsConnection leaves no connection open that nobody uses    *)
(* and nobody is about to use or close.                                      *)
THEOREM NothingIsLeaked == Sequential => (Spec => []NothingLeaks)
<1> SUFFICES ASSUME Sequential PROVE Spec => []NothingLeaks
  OBVIOUS
<1>1. IInv => NothingLeaks
  <2> SUFFICES ASSUME IInv, NEW g \in Generations, conn[g] \in Live
               PROVE  \E o \in Owners :
                        using[o] = g \/ acquiring[o][g] > 0 \/ closing[o] > 0 \/ releasing[o][g] > 0
    BY DEF NothingLeaks
  <2>1. entry = g \/ \E o \in Owners : releasing[o][g] > 0
    BY DEF IInv, ConnInv
  <2>2. entry = g => \E o \in Owners : o \in Holders(g)
    BY DEF IInv, EntryInv, Holders
  <2> QED BY <2>1, <2>2 DEF Holders
<1> QED BY <1>1, Invariance, PTL

(* Owners of one configuration share one connection: another one is opened   *)
(* only while the last is being closed.                                      *)
THEOREM ConnectionIsShared == Sequential => (Spec => []OneConnection)
<1> SUFFICES ASSUME Sequential PROVE Spec => []OneConnection
  OBVIOUS
<1>1. IInv => OneConnection
  BY DEF IInv, ConnInv, OneConnection
<1> QED BY <1>1, Invariance, PTL

(* An entry whose startup rejected is removed by the last call that waited   *)
(* for it, so later owners do not inherit the rejected promise.              *)
THEOREM FailureIsForgotten == Sequential => (Spec => []FailedIsForgotten)
<1> SUFFICES ASSUME Sequential PROVE Spec => []FailedIsForgotten
  OBVIOUS
<1>1. IInv => FailedIsForgotten
  <2> SUFFICES ASSUME IInv, NEW g \in Generations, entry = g, conn[g] \in Rejected
               PROVE  \E o \in Owners : acquiring[o][g] > 0
    BY DEF FailedIsForgotten
  <2>1. PICK o \in Owners : o \in Holders(g)
    BY DEF IInv, EntryInv, Holders
  <2>2. using[o] # g
    BY DEF IInv, ConnInv
  <2> QED BY <2>1, <2>2 DEF Holders
<1> QED BY <1>1, Invariance, PTL
=============================================================================
