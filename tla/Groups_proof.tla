----------------------------- MODULE Groups_proof -----------------------------
(***************************************************************************)
(* Proofs about Groups, for every set of assets, groups and members.       *)
(***************************************************************************)
EXTENDS Groups, FiniteSetTheorems, TLAPS

Rows == Elements \X Elements
AssetsHere(rows) == \A p \in rows : Here(p[1]) /\ Here(p[2])

\* The rows of grp_values are rows of the table when their ids are assets.
LEMMA RowsTyped ==
    ASSUME NEW rows \in {{<<g, e>>} : g \in Nat, e \in Nat} \cup
                        {GrpValues(gs, e) : gs \in SUBSET Nat, e \in Nat},
           AssetsHere(rows)
    PROVE  rows \subseteq Rows
BY DEF GrpValues, AssetsHere, Here, Rows

\* Every insert adds rows whose assets are there, or nothing.
LEMMA InsertAdds ==
    ASSUME Insert
    PROVE  \/ UNCHANGED <<asset, member, freed>>
           \/ \E rows \in SUBSET Rows : Add(rows) /\ AssetsHere(rows)
<1>1. CASE \E g, e : InsertRefused(g, e)
  BY <1>1 DEF InsertRefused
<1>2. CASE \E gs, e : InsertManyRefused(gs, e)
  BY <1>2 DEF InsertManyRefused
<1>3. ASSUME NEW g \in Nat, NEW e \in Nat, NEW o, InsertOne(g, e, o)
      PROVE  \E rows \in SUBSET Rows : Add(rows) /\ AssetsHere(rows)
  <2>1. PICK rows \in {{}, {<<g, e>>}} : Add(rows) /\ \A q \in rows : ReferencesOk(q)
    BY <1>3 DEF InsertOne
  <2>2. AssetsHere(rows)
    BY <2>1 DEF AssetsHere, ReferencesOk
  <2>3. rows \subseteq Rows
    BY <2>1, <2>2, RowsTyped
  <2> QED
    BY <2>1, <2>2, <2>3
<1>4. ASSUME NEW gs \in SUBSET Nat, NEW e \in Nat, NEW o, InsertMany(gs, e, o)
      PROVE  \E rows \in SUBSET Rows : Add(rows) /\ AssetsHere(rows)
  <2>1. PICK rows \in {{}, AllOrNone(GrpValues(gs, e))} : Add(rows)
    BY <1>4 DEF InsertMany
  <2>2. rows = {} \/ rows = GrpValues(gs, e)
    BY <2>1 DEF AllOrNone
  <2>3. AssetsHere(rows)
    BY <2>1 DEF AssetsHere, AllOrNone, ReferencesOk
  <2>4. rows \subseteq Rows
    BY <2>2, <2>3, RowsTyped
  <2> QED
    BY <2>1, <2>3, <2>4
<1> QED
  BY <1>1, <1>2, <1>3, <1>4, GroupAssumption DEF Insert, GroupAssumption

\* A delete only removes rows, and a role it frees has none left.
LEMMA RemoveRemoves ==
    ASSUME TypeOK, Remove
    PROVE  /\ UNCHANGED asset
           /\ member' \subseteq member
           /\ freed' \in [Elements -> SUBSET {"group", "element"}]
           /\ \A e \in Elements : \A role \in freed'[e] :
                 role \in freed[e] \/ ~Names(role, e, member')
<1>1. ASSUME NEW e \in Elements, NEW o, DeleteGroupLinks(e, o)
      PROVE  /\ UNCHANGED asset /\ member' \subseteq member
             /\ \/ UNCHANGED freed
                \/ /\ freed' = [freed EXCEPT ![e] = @ \cup {"group"}]
                   /\ ~Names("group", e, member')
  BY <1>1 DEF DeleteGroupLinks, Delete, Freed, RowsOfGroup, Names, Took, Reported
<1>2. ASSUME NEW e \in Elements, NEW o, DeleteFromGroups(e, o)
      PROVE  /\ UNCHANGED asset /\ member' \subseteq member
             /\ \/ UNCHANGED freed
                \/ /\ freed' = [freed EXCEPT ![e] = @ \cup {"element"}]
                   /\ ~Names("element", e, member')
  BY <1>2 DEF DeleteFromGroups, Delete, Freed, RowsOfElement, Names, Took, Reported
<1>3. ASSUME NEW e \in Elements, NEW g \in Elements, NEW o, DeleteFromGroup(g, e, o)
      PROVE  UNCHANGED <<asset, freed>> /\ member' \subseteq member
  BY <1>3 DEF DeleteFromGroup, Delete
<1>4. /\ UNCHANGED asset /\ member' \subseteq member
      /\ \/ UNCHANGED freed
         \/ \E e \in Elements, role \in {"group", "element"} :
               /\ freed' = [freed EXCEPT ![e] = @ \cup {role}]
               /\ ~Names(role, e, member')
  BY <1>1, <1>2, <1>3 DEF Remove
<1>5. freed \in [Elements -> SUBSET {"group", "element"}]
  BY DEF TypeOK
<1> QED
  BY <1>4, <1>5

\* Every step answers yes or no.
LEMMA ReplyTyped == ASSUME Next PROVE reply'.ok \in BOOLEAN
<1>1. ASSUME NEW g, NEW e, InsertRefused(g, e) PROVE reply'.ok \in BOOLEAN
  BY <1>1 DEF InsertRefused, Reply
<1>2. ASSUME NEW g, NEW e, NEW o, InsertOne(g, e, o) PROVE reply'.ok \in BOOLEAN
  <2>1. \E want, rows : \/ reply' = Reply("one", TRUE, "none", want, rows)
                        \/ reply' = Reply("one", FALSE, "internal", want, rows)
    BY <1>2, Zenon DEF InsertOne
  <2>2. PICK want, rows : \/ reply' = Reply("one", TRUE, "none", want, rows)
                          \/ reply' = Reply("one", FALSE, "internal", want, rows)
    BY <2>1, Zenon
  <2>3. CASE reply' = Reply("one", TRUE, "none", want, rows)
    BY <2>3 DEF Reply
  <2>4. CASE reply' = Reply("one", FALSE, "internal", want, rows)
    BY <2>4 DEF Reply
  <2> QED
    BY <2>2, <2>3, <2>4
<1>3. ASSUME NEW gs, NEW e, InsertManyRefused(gs, e) PROVE reply'.ok \in BOOLEAN
  BY <1>3, Zenon DEF InsertManyRefused, Reply
<1>4. ASSUME NEW gs, NEW e, NEW o, InsertMany(gs, e, o) PROVE reply'.ok \in BOOLEAN
  BY <1>4, Zenon DEF InsertMany, Reply
<1>5. ASSUME NEW op, NEW rows, NEW o, Delete(op, rows, o) PROVE reply'.ok \in BOOLEAN
  BY <1>5 DEF Delete, Reply
<1>6. ASSUME Asset PROVE reply'.ok \in BOOLEAN
  <2>1. reply' = Reply("asset", TRUE, "none", {}, 0)
    BY <1>6, Zenon DEF Asset, AssetInserted, AssetDeleted, AssetReply
  <2> QED
    BY <2>1 DEF Reply
<1>7. ASSUME Insert PROVE reply'.ok \in BOOLEAN
  BY <1>7, <1>1, <1>2, <1>3, <1>4 DEF Insert
<1>8. ASSUME Remove PROVE reply'.ok \in BOOLEAN
  BY <1>8, <1>5 DEF Remove, DeleteGroupLinks, DeleteFromGroups, DeleteFromGroup
<1> QED
  BY <1>6, <1>7, <1>8 DEF Next

--------------------------------------------------------------------------------
(* Type correctness, and that a freed role has no rows *)

FreedRolesAreEmpty == \A e \in Elements : \A role \in freed[e] : ~Names(role, e, member)
IInv == TypeOK /\ FreedRolesAreEmpty

LEMMA InitIInv == Init => IInv
BY DEF Init, IInv, TypeOK, FreedRolesAreEmpty, Reply

LEMMA NextIInv == IInv /\ [Next]_vars => IInv'
<1> SUFFICES ASSUME TypeOK, FreedRolesAreEmpty, [Next]_vars PROVE IInv'
  BY DEF IInv
<1>1. ASSUME Insert PROVE IInv'
  <2>1. reply'.ok \in BOOLEAN
    BY <1>1, ReplyTyped DEF Next
  <2>2. CASE UNCHANGED <<asset, member, freed>>
    BY <2>1, <2>2 DEF IInv, TypeOK, FreedRolesAreEmpty, Here, Names
  <2>3. ASSUME NEW rows \in SUBSET Rows, Add(rows), AssetsHere(rows) PROVE IInv'
    <3>1. /\ asset' = asset /\ member' = member \cup rows
          /\ freed' = [e \in Elements |-> {role \in freed[e] : ~Names(role, e, rows)}]
      BY <2>3 DEF Add
    <3>2. freed' \in [Elements -> SUBSET {"group", "element"}]
      BY <3>1 DEF TypeOK
    <3>3. TypeOK'
      BY <2>1, <2>3, <3>1, <3>2 DEF TypeOK, Rows, AssetsHere, Here
    <3>4. FreedRolesAreEmpty'
      BY <3>1 DEF FreedRolesAreEmpty, Names
    <3> QED
      BY <3>3, <3>4 DEF IInv
  <2> QED
    BY <1>1, <2>2, <2>3, InsertAdds
<1>2. ASSUME Remove PROVE IInv'
  <2>1. reply'.ok \in BOOLEAN
    BY <1>2, ReplyTyped DEF Next
  <2>2. /\ UNCHANGED asset /\ member' \subseteq member
        /\ freed' \in [Elements -> SUBSET {"group", "element"}]
        /\ \A e \in Elements : \A role \in freed'[e] :
              role \in freed[e] \/ ~Names(role, e, member')
    BY <1>2, RemoveRemoves
  <2>3. TypeOK'
    BY <2>1, <2>2 DEF TypeOK, Here
  <2>4. FreedRolesAreEmpty'
    BY <2>2 DEF FreedRolesAreEmpty, Names
  <2> QED
    BY <2>3, <2>4 DEF IInv
<1>3. ASSUME NEW e \in Elements, AssetInserted(e) PROVE IInv'
  <2>1. reply'.ok \in BOOLEAN
    BY <1>3, ReplyTyped DEF Next, Asset
  <2>2. TypeOK'
    BY <1>3, <2>1 DEF AssetInserted, TypeOK, Here
  <2> QED
    BY <1>3, <2>2 DEF AssetInserted, IInv, FreedRolesAreEmpty, Names
<1>4. ASSUME NEW e \in Elements, AssetDeleted(e) PROVE IInv'
  <2>1. reply'.ok \in BOOLEAN
    BY <1>4, ReplyTyped DEF Next, Asset
  <2>2. TypeOK'
    BY <1>4, <2>1 DEF AssetDeleted, TypeOK, Here, Kept
  <2> QED
    BY <1>4, <2>2 DEF AssetDeleted, IInv, FreedRolesAreEmpty, Names
<1>5. CASE UNCHANGED vars
  BY <1>5 DEF vars, IInv, TypeOK, FreedRolesAreEmpty, Here, Names
<1> QED
  BY <1>1, <1>2, <1>3, <1>4, <1>5 DEF Next, Asset

\* The tables and answers keep their types, and no membership ever names an asset
\* that is not there.
THEOREM TypeCorrect == Spec => []TypeOK
<1>1. IInv => TypeOK
  BY DEF IInv
<1> QED
  BY InitIInv, NextIInv, <1>1, PTL DEF Spec

\* After both clearing deletes have succeeded for an asset no membership keeps it,
\* whatever happened between and after them, until it is put into a row again.
THEOREM BothClearedFrees == Spec => []BothRolesClearedFrees
<1>1. IInv => BothRolesClearedFrees
  <2> SUFFICES ASSUME FreedRolesAreEmpty,
                      NEW e \in Elements, freed[e] = {"group", "element"}
               PROVE  ~Kept(e)
    BY DEF IInv, BothRolesClearedFrees
  <2>1. ~Names("group", e, member) /\ ~Names("element", e, member)
    BY DEF FreedRolesAreEmpty
  <2> QED
    BY <2>1 DEF Names, Kept
<1> QED
  BY InitIInv, NextIInv, <1>1, PTL DEF Spec

--------------------------------------------------------------------------------
(* The answers of the inserts *)

LEMMA ReplyFields ==
    \A op, ok, err, want, rows :
        /\ Reply(op, ok, err, want, rows).op = op
        /\ Reply(op, ok, err, want, rows).ok = ok
        /\ Reply(op, ok, err, want, rows).want = want
        /\ Reply(op, ok, err, want, rows).rows = rows
BY DEF Reply

\* No delete and no change of an asset answers in the name of an insert.
LEMMA OnlyInsertsAnswerAsInserts ==
    ASSUME Remove \/ Asset
    PROVE  reply'.op \notin {"one", "many"}
<1>1. ASSUME NEW op \in {"group", "element", "pair"}, NEW rows, NEW o, Delete(op, rows, o)
      PROVE  reply'.op \notin {"one", "many"}
  BY <1>1, ReplyFields DEF Delete
<1>2. ASSUME Remove PROVE reply'.op \notin {"one", "many"}
  BY <1>1, <1>2 DEF Remove, DeleteGroupLinks, DeleteFromGroups, DeleteFromGroup
<1>3. ASSUME Asset PROVE reply'.op \notin {"one", "many"}
  <2>1. reply' = Reply("asset", TRUE, "none", {}, 0)
    BY <1>3, Zenon DEF Asset, AssetInserted, AssetDeleted, AssetReply
  <2> QED
    BY <2>1 DEF Reply
<1> QED
  BY <1>2, <1>3

\* What the two inserts change and answer, with their answers taken apart.
LEMMA OneAnswers ==
    ASSUME NEW g, NEW e, NEW o, InsertOne(g, e, o)
    PROVE  /\ reply'.op = "one" /\ reply'.want = {<<g, e>>}
           /\ member' = member \/ member' = member \cup {<<g, e>>}
           /\ reply'.ok => <<g, e>> \in member'
<1> DEFINE p == <<g, e>>
           new == IF InTable(p) THEN {} ELSE {p}
           runs == Took(o) /\ \A q \in new : ReferencesOk(q)
<1>1. member' = member \cup (IF runs THEN new ELSE {})
  BY Zenon DEF InsertOne, Add
<1>2. \/ runs /\ reply' = Reply("one", TRUE, "none", {p}, Cardinality(new))
      \/ reply' = Reply("one", FALSE, "internal", {p}, 0)
  BY Zenon DEF InsertOne
<1>3. new = {} \/ new = {p}
  OBVIOUS
<1>4. InTable(p) => p \in member
  BY DEF InTable
<1>5. runs => p \in member'
  BY <1>1, <1>4
<1>6. member' = member \/ member' = member \cup {p}
  BY <1>1, <1>3
<1> HIDE DEF new, runs
<1>7. CASE runs /\ reply' = Reply("one", TRUE, "none", {p}, Cardinality(new))
  <2>1. reply'.op = "one" /\ reply'.want = {p}
    BY <1>7, ReplyFields
  <2> QED
    BY <1>5, <1>6, <1>7, <2>1, Zenon
<1>8. CASE reply' = Reply("one", FALSE, "internal", {p}, 0)
  <2>1. reply'.op = "one" /\ reply'.want = {p} /\ ~reply'.ok
    BY <1>8 DEF Reply
  <2> QED
    BY <1>6, <2>1, Zenon
<1> QED
  BY <1>2, <1>7, <1>8

LEMMA ManyAnswers ==
    ASSUME NEW gs, NEW e, NEW o, InsertMany(gs, e, o)
    PROVE  /\ reply'.op = "many" /\ reply'.want = GrpValues(gs, e)
           /\ \/ member' = member /\ ~reply'.ok
              \/ /\ member' = member \cup reply'.want
                 /\ AllOrNone(reply'.want) = reply'.want /\ reply'.want # {}
                 /\ reply'.ok => reply'.rows = Cardinality(reply'.want)
<1> DEFINE want == GrpValues(gs, e)
           new == IF Took(o) THEN AllOrNone(want) ELSE {}
           ok == new # {} /\ Reported(o) /\ AllAdded(new, gs)
           err == IF ok THEN "none" ELSE "internal"
           rows == IF Reported(o) THEN Cardinality(new) ELSE 0
<1>1. member' = member \cup new /\ reply' = Reply("many", ok, err, want, rows)
  BY Zenon DEF InsertMany, Add
<1>2. new = {} \/ (new = want /\ AllOrNone(want) = want /\ want # {})
  BY DEF AllOrNone
<1>3. ok => new # {} /\ rows = Cardinality(new)
  OBVIOUS
<1> HIDE DEF want, new, ok, err, rows
<1>4. reply'.op = "many" /\ reply'.want = want /\ reply'.rows = rows
  BY <1>1, ReplyFields
<1>5. reply'.ok = ok
  BY <1>1, ReplyFields
<1>6. reply'.ok => new # {} /\ rows = Cardinality(new)
  BY <1>3, <1>5, Zenon
<1>7. CASE new = {}
  <2>1. member' = member
    BY <1>1, <1>7
  <2>2. ~reply'.ok
    BY <1>6, <1>7, Zenon
  <2> QED
    BY <1>4, <2>1, <2>2 DEF want
<1>8. CASE new # {}
  <2>1. new = want /\ AllOrNone(want) = want /\ want # {}
    BY <1>2, <1>8, Zenon
  <2>2. /\ member' = member \cup reply'.want
        /\ AllOrNone(reply'.want) = reply'.want /\ reply'.want # {}
    BY <1>1, <1>4, <2>1, Zenon
  <2>3. reply'.ok => reply'.rows = Cardinality(reply'.want)
    BY <1>4, <1>6, <2>1, Zenon
  <2> QED
    BY <1>4, <2>2, <2>3, Zenon DEF want
<1> QED
  BY <1>7, <1>8

LEMMA RefusedAnswers ==
    /\ \A g, e : InsertRefused(g, e) =>
          reply'.op = "one" /\ ~reply'.ok /\ member' = member
    /\ \A gs, e : InsertManyRefused(gs, e) =>
          /\ reply'.op = "many" /\ member' = member /\ reply'.rows = 0
          /\ reply'.want = GrpValues(gs, e) /\ (reply'.ok => gs = {})
<1>1. ASSUME NEW g, NEW e, InsertRefused(g, e)
      PROVE  reply'.op = "one" /\ ~reply'.ok /\ member' = member
  BY <1>1 DEF InsertRefused, Reply
<1>2. ASSUME NEW gs, NEW e, InsertManyRefused(gs, e)
      PROVE  /\ reply'.op = "many" /\ member' = member /\ reply'.rows = 0
             /\ reply'.want = GrpValues(gs, e) /\ (reply'.ok => gs = {})
  <2>1. member' = member
    BY <1>2 DEF InsertManyRefused
  <2>2. CASE e # 0
    <3>1. gs = {} /\ reply' = Reply("many", TRUE, "none", GrpValues(gs, e), 0)
      BY <1>2, <2>2, Zenon DEF InsertManyRefused
    <3> QED
      BY <2>1, <3>1 DEF Reply
  <2>3. CASE e = 0
    <3>1. reply' = Reply("many", FALSE, "badparam", GrpValues(gs, e), 0)
      BY <1>2, <2>3, Zenon DEF InsertManyRefused
    <3> QED
      BY <2>1, <3>1 DEF Reply
  <2> QED
    BY <2>2, <2>3
<1> QED
  BY <1>1, <1>2, Zenon

AnswerTrue ==
    /\ reply'.ok => reply'.want \subseteq member'
    /\ member' = member \/ member' = member \cup reply'.want

\* An insert that reports success has left every membership it was asked for, and
\* none leaves a part of them, for any number of groups and members.
THEOREM InsertAnswersTrue == Spec => InsertAnswerTrue
<1>1. ASSUME NEW g, NEW e, InsertRefused(g, e) PROVE AnswerTrue
  <2>1. ~reply'.ok /\ member' = member
    BY <1>1, RefusedAnswers, Zenon
  <2> QED
    BY <2>1, Zenon DEF AnswerTrue
<1>2. ASSUME NEW g, NEW e, NEW o, InsertOne(g, e, o) PROVE AnswerTrue
  BY <1>2, OneAnswers DEF AnswerTrue
<1>3. ASSUME NEW gs, NEW e, InsertManyRefused(gs, e) PROVE AnswerTrue
  <2>1. reply'.want = GrpValues(gs, e) /\ (reply'.ok => gs = {}) /\ member' = member
    BY <1>3, RefusedAnswers, Zenon
  <2>2. gs = {} => GrpValues(gs, e) = {}
    BY DEF GrpValues
  <2> QED
    BY <2>1, <2>2 DEF AnswerTrue
<1>4. ASSUME NEW gs, NEW e, NEW o, InsertMany(gs, e, o) PROVE AnswerTrue
  BY <1>4, ManyAnswers DEF AnswerTrue
<1>5. ASSUME Insert PROVE AnswerTrue
  BY <1>1, <1>2, <1>3, <1>4, <1>5, Zenon DEF Insert
<1>6. [Next]_vars => [reply'.op \in {"one", "many"} => AnswerTrue]_vars
  BY <1>5, OnlyInsertsAnswerAsInserts, Zenon DEF Next
<1>7. [reply'.op \in {"one", "many"} => AnswerTrue]_vars
      => [reply'.op \in {"one", "many"} =>
          /\ reply'.ok => reply'.want \subseteq member'
          /\ member' = member \/ member' = member \cup reply'.want]_vars
  BY Zenon DEF AnswerTrue
<1> QED
  BY <1>6, <1>7, PTL DEF Spec, InsertAnswerTrue

\* Success of the insert into several groups means that no membership was there
\* before and that the count it answers is the growth of the table.
THEOREM SuccessExclusive == Spec => SuccessIsExclusive
<1> DEFINE Exclusive == /\ reply'.want \cap member = {}
                       /\ Cardinality(member') = Cardinality(member) + reply'.rows
           Claim == reply'.op = "many" /\ reply'.ok => Exclusive
<1>1. IsFiniteSet(Rows)
  BY GroupAssumption, FS_Product DEF GroupAssumption, Rows
<1>2. TypeOK => IsFiniteSet(member) /\ Cardinality(member) \in Nat
  BY <1>1, FS_Subset, FS_CardinalityType DEF TypeOK, Rows
<1>3. ASSUME TypeOK, NEW gs, NEW e, NEW o, InsertMany(gs, e, o), reply'.ok
      PROVE  Exclusive
  <2> DEFINE want == GrpValues(gs, e)
  <2>1. /\ reply'.want = want /\ reply'.rows = Cardinality(want)
        /\ AllOrNone(want) = want /\ want # {} /\ member' = member \cup want
    BY <1>3, ManyAnswers, Zenon
  <2>2. want \cap member = {} /\ \A p \in want : ReferencesOk(p)
    BY <2>1 DEF AllOrNone
  <2>3. want \subseteq Rows
    BY <2>2 DEF Rows, ReferencesOk, Here, GrpValues
  <2>4. IsFiniteSet(want) /\ Cardinality(want) \in Nat
    BY <1>1, <2>3, FS_Subset, FS_CardinalityType
  <2>5. Cardinality(member \cup want)
        = Cardinality(member) + Cardinality(want) - Cardinality(member \cap want)
    BY <1>2, <1>3, <2>4, FS_Union
  <2>6. Cardinality(member \cap want) = 0
    <3>1. member \cap want = {}
      BY <2>2
    <3> QED
      BY <3>1, FS_EmptySet, Zenon
  <2>7. Cardinality(member \cup want) = Cardinality(member) + Cardinality(want)
    <3> HIDE DEF want
    <3> QED
      BY <1>2, <1>3, <2>4, <2>5, <2>6
  <2> QED
    BY <2>1, <2>2, <2>7, Zenon
<1>4. ASSUME TypeOK, NEW gs, NEW e, InsertManyRefused(gs, e), reply'.ok
      PROVE  Exclusive
  <2>1. /\ reply'.want = GrpValues(gs, e) /\ gs = {} /\ member' = member /\ reply'.rows = 0
    BY <1>4, RefusedAnswers, Zenon
  <2>2. reply'.want = {}
    BY <2>1 DEF GrpValues
  <2> QED
    BY <1>2, <1>4, <2>1, <2>2
<1>5. ASSUME NEW g, NEW e, InsertRefused(g, e) \/ \E o \in Outcomes : InsertOne(g, e, o)
      PROVE  reply'.op = "one"
  BY <1>5, OneAnswers, RefusedAnswers, Zenon
<1>6. ASSUME TypeOK, Insert PROVE Claim
  BY <1>3, <1>4, <1>5, <1>6 DEF Insert
<1>7. IInv /\ [Next]_vars => [Claim]_vars
  BY <1>6, OnlyInsertsAnswerAsInserts, Zenon DEF Next, IInv
<1> QED
  BY InitIInv, NextIInv, <1>7, PTL DEF Spec, SuccessIsExclusive

--------------------------------------------------------------------------------
(* The list of an asset's groups and the maximum count *)

\* A set of numbers that something bounds has a largest one, which Max chooses.
LEMMA MaxOf ==
    ASSUME NEW S \in SUBSET Nat, S # {}, NEW b \in Nat, \A x \in S : x <= b
    PROVE  Max(S) \in S /\ \A x \in S : x <= Max(S)
<1> DEFINE T == {n \in Nat : \A x \in S : x <= n}
<1>1. PICK m \in T : \A n \in T : ~(<<n, m>> \in OpToRel(<, Nat))
  <2>1. T \in SUBSET Nat /\ T # {}
    OBVIOUS
  <2> QED
    BY <2>1, WFMin, NatLessThanWellFounded, Zenon
<1>2. \A n \in T : ~(n < m)
  <2> SUFFICES ASSUME NEW n \in T, n < m PROVE FALSE
    OBVIOUS
  <2>1. <<n, m>> \in OpToRel(<, Nat)
    BY Zenon DEF OpToRel
  <2> QED
    BY <1>1, <2>1
<1>3. m \in S
  <2> SUFFICES ASSUME m \notin S PROVE FALSE
    OBVIOUS
  <2>1. \A x \in S : x < m
    OBVIOUS
  <2>2. m - 1 \in T /\ m - 1 < m
    <3> PICK x \in S : x \in Nat
      OBVIOUS
    <3>1. m \in Nat /\ m # 0 /\ x < m
      BY <2>1
    <3>2. m - 1 \in Nat /\ m - 1 < m /\ \A y \in Nat : y < m => y <= m - 1
      BY <3>1
    <3> QED
      BY <2>1, <3>2
  <2> QED
    BY <1>2, <2>2
<1>4. \A x \in S : m >= x
  OBVIOUS
<1>5. Max(S) \in S /\ \A x \in S : Max(S) >= x
  BY <1>3, <1>4, Zenon DEF Max
<1> QED
  BY <1>5

LEMMA MembersFinite == ASSUME TypeOK PROVE IsFiniteSet(member)
<1>1. IsFiniteSet(Rows)
  BY GroupAssumption, FS_Product DEF GroupAssumption, Rows
<1> QED
  BY <1>1, FS_Subset DEF TypeOK, Rows

\* The join with the asset table loses no row: every group of a member is there.
LEMMA GroupsAreRows ==
    ASSUME TypeOK, NEW e \in Elements
    PROVE  Cardinality(ElementGroups(e)) = Cardinality(RowsOfElement(e))
<1> DEFINE G == ElementGroups(e)
           R == RowsOfElement(e)
           f == [g \in G |-> <<g, e>>]
<1>1. f \in [G -> R]
  BY DEF ElementGroups, RowsOfElement
<1>2. \A g, h \in G : f[g] = f[h] => g = h
  OBVIOUS
<1>3. ASSUME NEW p \in R PROVE \E g \in G : f[g] = p
  <2>1. PICK g \in Elements, d \in Elements : p = <<g, d>>
    BY DEF RowsOfElement, TypeOK
  <2>2. d = e /\ <<g, e>> \in member /\ Here(g)
    BY <2>1 DEF RowsOfElement, TypeOK
  <2>3. g \in G
    BY <2>2 DEF ElementGroups
  <2> QED
    BY <2>1, <2>2, <2>3
<1>4. IsFiniteSet(R)
  BY MembersFinite, FS_Subset DEF RowsOfElement
<1> HIDE DEF f, G, R
<1>5. f \in Injection(G, R) /\ f \in Surjection(G, R)
  BY <1>1, <1>2, <1>3 DEF Injection, IsInjective, Surjection
<1>6. Cardinality(G) = Cardinality(R)
  BY <1>4, <1>5, FS_Injection
<1> QED
  BY <1>6 DEF G, R

\* What select_asset_element_groups lists and what max_number_of_asset_groups counts
\* agree: the maximum is the most groups any asset is shown in.
THEOREM GroupQueriesCorrect == Spec => []GroupQueriesAgree
<1>1. ASSUME TypeOK PROVE GroupQueriesAgree
  <2> DEFINE count(e) == Cardinality(RowsOfElement(e))
             N == {0} \cup {count(e) : e \in Elements}
  <2>1. \A e : /\ count(e) \in Nat /\ Cardinality(member) \in Nat
               /\ count(e) <= Cardinality(member)
    <3>1. \A e : RowsOfElement(e) \subseteq member
      BY DEF RowsOfElement
    <3> QED
      BY <1>1, <3>1, MembersFinite, FS_Subset, FS_CardinalityType
  <2>2. MaxNumberOfAssetGroups = Max(N)
    BY DEF MaxNumberOfAssetGroups
  <2> HIDE DEF count
  <2>3. Max(N) \in N /\ \A x \in N : x <= Max(N)
    <3>1. N \in SUBSET Nat /\ N # {} /\ \A x \in N : x <= Cardinality(member)
      BY <2>1
    <3> HIDE DEF N
    <3> QED
      BY <2>1, <3>1, MaxOf
  <2>4. \A e \in Elements : Cardinality(ElementGroups(e)) = count(e)
    BY <1>1, GroupsAreRows DEF count
  <2>5. \A e \in Elements : Cardinality(ElementGroups(e)) <= Max(N)
    BY <2>3, <2>4
  <2>6. Max(N) > 0 => \E e \in Elements : Cardinality(ElementGroups(e)) = Max(N)
    BY <2>3, <2>4
  <2> QED
    BY <2>2, <2>5, <2>6 DEF GroupQueriesAgree
<1>2. IInv => GroupQueriesAgree
  BY <1>1 DEF IInv
<1> QED
  BY InitIInv, NextIInv, <1>2, PTL DEF Spec
================================================================================
