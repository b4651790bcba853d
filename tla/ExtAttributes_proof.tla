-------------------------- MODULE ExtAttributes_proof --------------------------
(***************************************************************************)
(* Proofs about ExtAttributes, for every set of assets, keytags and values.*)
(***************************************************************************)
EXTENDS ExtAttributes, TLAPS

LEMMA ReplyFields ==
    \A op, ok, err, elem, list, ro, n :
        /\ Reply(op, ok, err, elem, list, ro, n).op = op
        /\ Reply(op, ok, err, elem, list, ro, n).ok = ok
        /\ Reply(op, ok, err, elem, list, ro, n).err = err
        /\ Reply(op, ok, err, elem, list, ro, n).elem = elem
        /\ Reply(op, ok, err, elem, list, ro, n).list = list
        /\ Reply(op, ok, err, elem, list, ro, n).ro = ro
        /\ Reply(op, ok, err, elem, list, ro, n).n = n
BY DEF Reply

AnyList == Lists \cup {NoList}

LEMMA OneAttributeIsList ==
    ASSUME NEW k \in Keytags, NEW v \in Values
    PROVE  [x \in {k} |-> v] \in AnyList
<1>1. {k} \in (SUBSET Keytags) \ {{}}
  OBVIOUS
<1>2. [x \in {k} |-> v] \in [{k} -> Values]
  OBVIOUS
<1> QED
  BY <1>1, <1>2 DEF Lists, AnyList

\* Every step answers yes or no, about a list of attributes.
ReplyTyped == reply'.ok \in BOOLEAN /\ reply'.list \in AnyList

LEMMA AnyReplyTyped ==
    ASSUME NEW op, NEW ok \in BOOLEAN, NEW err, NEW elem, NEW list \in AnyList,
           NEW ro, NEW n, reply' = Reply(op, ok, err, elem, list, ro, n)
    PROVE  ReplyTyped
<1>1. reply'.ok = ok
  BY Zenon DEF Reply
<1>2. reply'.list = list
  BY ReplyFields
<1> QED
  BY <1>1, <1>2, Zenon DEF ReplyTyped

LEMMA NextReplyTyped == ASSUME Next PROVE ReplyTyped
<1>1. ASSUME NEW e, NEW k \in Keytags, NEW v \in Values, NEW ro, InsertRefused(e, k, v, ro)
      PROVE  ReplyTyped
  <2>1. reply' = Reply("insert", FALSE, "badinput", e, [x \in {k} |-> v], ro, 0)
    BY <1>1, Zenon DEF InsertRefused
  <2> QED
    BY <2>1, OneAttributeIsList, AnyReplyTyped
<1>2. ASSUME NEW e, NEW k \in Keytags, NEW v \in Values, NEW ro, NEW o, InsertOne(e, k, v, ro, o)
      PROVE  ReplyTyped
  <2>1. PICK ok \in BOOLEAN : \E err, n : reply' = Reply("insert", ok, err, e, [x \in {k} |-> v], ro, n)
    <3>1. CountOk(Affected(e, k, v, ro), ro) \in BOOLEAN
      BY DEF CountOk
    <3> QED
      BY <1>2, <3>1, Zenon DEF InsertOne
  <2> QED
    BY <2>1, OneAttributeIsList, AnyReplyTyped
<1>3. ASSUME NEW e, NEW list \in AnyList, NEW ro, NEW o, InsertMany(e, list, ro, o)
      PROVE  ReplyTyped
  <2>1. PICK ok \in BOOLEAN : \E err : reply' = Reply("batch", ok, err, e, list, ro, 0)
    BY <1>3, Zenon DEF InsertMany
  <2> QED
    BY <2>1, AnyReplyTyped
<1>4. ASSUME NEW e, NEW k, NEW o, DeleteTag(e, k, o) PROVE ReplyTyped
  <2>1. PICK ok \in BOOLEAN : \E err : reply' = Reply("delete", ok, err, e, NoList, FALSE, 0)
    BY <1>4, Zenon DEF DeleteTag, Reported
  <2> QED
    BY <2>1, AnyReplyTyped DEF AnyList
<1>5. ASSUME NEW e, NEW ro, NEW o, DeleteWithRo(e, ro, o) PROVE ReplyTyped
  <2>1. PICK ok \in BOOLEAN : \E err : reply' = Reply("deletero", ok, err, e, NoList, ro, 0)
    BY <1>5, Zenon DEF DeleteWithRo, Reported
  <2> QED
    BY <2>1, AnyReplyTyped DEF AnyList
<1>6. ASSUME NEW e, NEW k \in Keytags, NEW v \in Values, NEW o, UniqueKeytag(e, k, v, o)
      PROVE  ReplyTyped
  <2>1. PICK ok \in BOOLEAN : \E err, n :
           reply' = Reply("unique", ok, err, e, [x \in {k} |-> v], FALSE, n)
    BY <1>6, Zenon DEF UniqueKeytag
  <2> QED
    BY <2>1, OneAttributeIsList, AnyReplyTyped
<1>7. ASSUME NEW e, AssetInserted(e) \/ AssetDeleted(e) PROVE ReplyTyped
  <2>1. reply' = Reply("asset", TRUE, "none", e, NoList, FALSE, 0)
    BY <1>7, Zenon DEF AssetInserted, AssetDeleted
  <2> QED
    BY <2>1, AnyReplyTyped DEF AnyList
<1> QED
  BY <1>1, <1>2, <1>3, <1>4, <1>5, <1>6, <1>7
     DEF Next, Insert, Batch, Delete, Query, Asset, AnyList

--------------------------------------------------------------------------------
(* What a step may do to the table *)

AttrType == [Elements -> [Keytags -> Attribute \cup {Absent}]]

\* A row that a step writes in place belongs to an asset that is there and is
\* read-only unless it is new.
RowsOk ==
    /\ attr' \in AttrType
    /\ \A e \in Elements, k \in Keytags :
          \/ attr'[e][k] \in {Absent, attr[e][k]}
          \/ Here(e) /\ (attr[e][k] # Absent => attr'[e][k].ro)

LEMMA StepRows == ASSUME TypeOK, Next PROVE RowsOk
<1> USE DEF AttrType
<1>0. attr \in AttrType
  BY DEF TypeOK
<1>1. CASE UNCHANGED attr
  BY <1>0, <1>1 DEF RowsOk
<1>2. ASSUME NEW e, NEW k \in Keytags, NEW v \in Values, NEW ro \in BOOLEAN, NEW o,
             InsertOne(e, k, v, ro, o), ~UNCHANGED attr
      PROVE  RowsOk
  <2>1. /\ Here(e) /\ attr' = [attr EXCEPT ![e][k] = RowAfter(e, k, v, ro)]
    BY <1>2, Zenon DEF InsertOne, ReferenceOk
  <2>2. e \in Elements
    BY <2>1 DEF Here
  <2> DEFINE new == [value |-> v, ro |-> ro]
  <2>3. new \in Attribute /\ new.ro = ro
    BY DEF Attribute
  <2>4. \/ RowAfter(e, k, v, ro) = attr[e][k]
        \/ RowAfter(e, k, v, ro) = new /\ (attr[e][k] # Absent => ro)
    BY <2>2, Zenon DEF RowAfter, Has
  <2> HIDE DEF new
  <2> QED
    BY <1>0, <2>1, <2>2, <2>3, <2>4 DEF RowsOk
<1>3. ASSUME NEW e, NEW list \in AnyList, NEW ro \in BOOLEAN, NEW o,
             InsertMany(e, list, ro, o), ~UNCHANGED attr
      PROVE  RowsOk
  <2>1. /\ Here(e) /\ attr' = [attr EXCEPT ![e] = BatchAfter(e, list, ro)] /\ list # NoList
    BY <1>3, Zenon DEF InsertMany, ReferenceOk
  <2>2. e \in Elements
    BY <2>1 DEF Here
  <2>3. \A k \in DOMAIN list : list[k] \in Values
    BY <2>1 DEF AnyList, Lists
  <2>4. ASSUME NEW k \in Keytags
        PROVE  \/ BatchAfter(e, list, ro)[k] = attr[e][k]
               \/ attr[e][k] = Absent /\ BatchAfter(e, list, ro)[k] \in Attribute
    BY <2>2, <2>3 DEF BatchAfter, Has, Attribute
  <2>5. BatchAfter(e, list, ro) \in [Keytags -> Attribute \cup {Absent}]
    <3>1. BatchAfter(e, list, ro) = [k \in Keytags |-> BatchAfter(e, list, ro)[k]]
      BY DEF BatchAfter
    <3>2. \A k \in Keytags : attr[e][k] \in Attribute \cup {Absent}
      BY <1>0, <2>2
    <3> QED
      BY <2>4, <3>1, <3>2
  <2> QED
    BY <1>0, <2>1, <2>2, <2>4, <2>5 DEF RowsOk
<1>4. ASSUME NEW e, NEW k \in Keytags, NEW o, DeleteTag(e, k, o), ~UNCHANGED attr
      PROVE  RowsOk
  <2>1. e \in Elements /\ attr' = [attr EXCEPT ![e][k] = Absent]
    BY <1>4, Zenon DEF DeleteTag, Has
  <2> QED
    BY <1>0, <2>1 DEF RowsOk
<1>5. ASSUME NEW e, NEW ro, NEW o, DeleteWithRo(e, ro, o), ~UNCHANGED attr
      PROVE  RowsOk
  <2>1. /\ e \in Elements
        /\ attr' = [attr EXCEPT ![e] = [k \in Keytags |->
                      IF FlagMatches(e, k, ro) THEN Absent ELSE attr[e][k]]]
    BY <1>5, Zenon DEF DeleteWithRo
  <2> QED
    BY <1>0, <2>1 DEF RowsOk
<1>6. CASE Insert
  BY <1>1, <1>2, <1>6 DEF Insert, InsertRefused
<1>7. CASE Batch
  BY <1>1, <1>3, <1>7 DEF Batch, AnyList
<1>8. CASE Delete
  BY <1>1, <1>4, <1>5, <1>8 DEF Delete
<1>9. CASE Query \/ Asset
  BY <1>1, <1>9 DEF Query, UniqueKeytag, Asset, AssetInserted, AssetDeleted
<1> QED
  BY <1>6, <1>7, <1>8, <1>9 DEF Next

\* Only an asset without attributes goes.
LEMMA StepAssets ==
    ASSUME TypeOK, Next
    PROVE  /\ asset' \in [Elements -> {"unborn", "here", "gone"}]
           /\ \/ UNCHANGED asset
              \/ /\ UNCHANGED attr
                 /\ \A e \in Elements : asset[e] = "here" /\ asset'[e] # "here" =>
                       \A k \in Keytags : ~Has(e, k)
<1>1. CASE Asset
  <2>1. PICK e \in Elements : AssetInserted(e) \/ AssetDeleted(e)
    BY <1>1 DEF Asset
  <2>2. CASE AssetInserted(e)
    BY <2>2 DEF AssetInserted, TypeOK
  <2>3. CASE AssetDeleted(e)
    BY <2>3 DEF AssetDeleted, TypeOK
  <2> QED
    BY <2>1, <2>2, <2>3
<1>2. CASE ~Asset
  <2>1. UNCHANGED asset
    <3>1. Insert => UNCHANGED asset
      <4>1. \A e, k, v, ro : InsertRefused(e, k, v, ro) => UNCHANGED asset
        BY DEF InsertRefused
      <4>2. ASSUME NEW e, NEW k, NEW v, NEW ro, NEW o, InsertOne(e, k, v, ro, o)
            PROVE  UNCHANGED asset
        BY <4>2, Zenon DEF InsertOne
      <4> QED
        BY <4>1, <4>2, Zenon DEF Insert
    <3>2. Batch => UNCHANGED asset
      BY Zenon DEF Batch, InsertMany
    <3>3. Delete => UNCHANGED asset
      BY Zenon DEF Delete, DeleteTag, DeleteWithRo
    <3>4. Query => UNCHANGED asset
      BY Zenon DEF Query, UniqueKeytag
    <3> QED
      BY <1>2, <3>1, <3>2, <3>3, <3>4, Zenon DEF Next
  <2> QED
    BY <2>1 DEF TypeOK
<1> QED
  BY <1>1, <1>2

--------------------------------------------------------------------------------
(* The type invariant, and what may change in place *)

LEMMA InitTypeOK == Init => TypeOK
<1> SUFFICES ASSUME Init PROVE TypeOK
  OBVIOUS
<1>1. reply.ok \in BOOLEAN /\ reply.list \in Lists \cup {NoList}
  BY DEF Init, Reply
<1> QED
  BY <1>1 DEF Init, TypeOK, Has

LEMMA NextTypeOK == TypeOK /\ [Next]_vars => TypeOK'
<1>1. ASSUME TypeOK, Next PROVE TypeOK'
  <2>1. reply'.ok \in BOOLEAN /\ reply'.list \in Lists \cup {NoList}
    BY <1>1, NextReplyTyped DEF ReplyTyped, AnyList
  <2>2. attr' \in AttrType /\ asset' \in [Elements -> {"unborn", "here", "gone"}]
    BY <1>1, StepRows, StepAssets DEF RowsOk
  <2>3. ASSUME NEW e \in Elements, NEW k \in Keytags, Has(e, k)' PROVE Here(e)'
    <3>1. CASE UNCHANGED asset
      <4>1. attr'[e][k] # Absent
        BY <2>3 DEF Has
      <4>2. Here(e) \/ attr[e][k] # Absent
        BY <1>1, <4>1, StepRows DEF RowsOk
      <4> QED
        BY <1>1, <3>1, <4>2 DEF TypeOK, Has, Here
    <3>2. CASE ~UNCHANGED asset
      <4>1. /\ UNCHANGED attr
            /\ asset[e] = "here" /\ asset'[e] # "here" => ~Has(e, k)
        BY <1>1, <3>2, StepAssets
      <4> QED
        BY <1>1, <2>3, <4>1 DEF TypeOK, Has, Here
    <3> QED
      BY <3>1, <3>2
  <2> QED
    BY <2>1, <2>2, <2>3 DEF TypeOK, AttrType
<1>2. TypeOK /\ UNCHANGED vars => TypeOK'
  BY DEF vars, TypeOK, Has, Here
<1> QED
  BY <1>1, <1>2

\* The tables and answers keep their types, and no attribute outlives its asset.
THEOREM TypeCorrect == Spec => []TypeOK
BY InitTypeOK, NextTypeOK, PTL DEF Spec

\* No sequence of inserts, lost answers and deletes makes a read-only attribute
\* read-write in place, and no user's insert overwrites a value.
THEOREM InPlaceReadOnly == Spec => InPlaceChangeIsReadOnly
<1> DEFINE InPlace ==
      \A e \in Elements, k \in Keytags :
          Has(e, k) /\ attr'[e][k] \notin {Absent, attr[e][k]} => attr'[e][k].ro
<1>1. TypeOK /\ Next => InPlace
  BY StepRows DEF RowsOk, Has
<1>2. TypeOK /\ [Next]_vars => [InPlace]_vars
  BY <1>1
<1> QED
  BY InitTypeOK, NextTypeOK, <1>2, PTL DEF Spec, InPlaceChangeIsReadOnly

--------------------------------------------------------------------------------
(* The answers *)

\* Which action has answered can be told from the answer.
LEMMA Answers ==
    ASSUME Next
    PROVE  /\ reply'.op = "insert" => Insert
           /\ reply'.op = "unique" => Query
<1>1. ASSUME NEW op, NEW ok, NEW err, NEW elem, NEW list, NEW ro, NEW n,
             reply' = Reply(op, ok, err, elem, list, ro, n)
      PROVE  reply'.op = op
  BY <1>1 DEF Reply
<1>2. ASSUME NEW e, NEW list, NEW ro, NEW o, InsertMany(e, list, ro, o)
      PROVE  reply'.op = "batch"
  <2>1. \E ok, err : reply' = Reply("batch", ok, err, e, list, ro, 0)
    BY <1>2, Zenon DEF InsertMany
  <2> QED
    BY <2>1, <1>1
<1>3. ASSUME NEW e, NEW k, NEW o, DeleteTag(e, k, o) PROVE reply'.op = "delete"
  <2>1. \E ok, err : reply' = Reply("delete", ok, err, e, NoList, FALSE, 0)
    BY <1>3, Zenon DEF DeleteTag
  <2> QED
    BY <2>1, <1>1
<1>4. ASSUME NEW e, NEW ro, NEW o, DeleteWithRo(e, ro, o) PROVE reply'.op = "deletero"
  <2>1. \E ok, err : reply' = Reply("deletero", ok, err, e, NoList, ro, 0)
    BY <1>4, Zenon DEF DeleteWithRo
  <2> QED
    BY <2>1, <1>1
<1>5. ASSUME NEW e, AssetInserted(e) \/ AssetDeleted(e) PROVE reply'.op = "asset"
  <2>1. reply' = Reply("asset", TRUE, "none", e, NoList, FALSE, 0)
    BY <1>5, Zenon DEF AssetInserted, AssetDeleted
  <2> QED
    BY <2>1, <1>1
<1>6. ASSUME NEW e, NEW k, NEW v, NEW ro,
             InsertRefused(e, k, v, ro) \/ \E o \in Outcomes : InsertOne(e, k, v, ro, o)
      PROVE  reply'.op = "insert"
  <2>1. \E ok, err, list, n : reply' = Reply("insert", ok, err, e, list, ro, n)
    BY <1>6, Zenon DEF InsertRefused, InsertOne
  <2> QED
    BY <2>1, <1>1
<1>7. ASSUME NEW e, NEW k, NEW v, NEW o, UniqueKeytag(e, k, v, o) PROVE reply'.op = "unique"
  <2>1. \E ok, err, list, n : reply' = Reply("unique", ok, err, e, list, FALSE, n)
    BY <1>7, Zenon DEF UniqueKeytag
  <2> QED
    BY <2>1, <1>1
<1>8. /\ Insert => reply'.op = "insert"
      /\ Batch => reply'.op = "batch"
      /\ Delete => reply'.op \in {"delete", "deletero"}
      /\ Query => reply'.op = "unique"
      /\ Asset => reply'.op = "asset"
  BY <1>2, <1>3, <1>4, <1>5, <1>6, <1>7, Zenon DEF Insert, Batch, Delete, Query, Asset
<1> QED
  BY <1>8 DEF Next

\* "Not unique" is never a false alarm, however many assets hold the pair and
\* whichever of them the database looks at.
THEOREM OneMeansAnother == Spec => []OneMeansHeldByAnother
<1>1. Init => OneMeansHeldByAnother
  BY DEF Init, Reply, OneMeansHeldByAnother
<1>2. ASSUME NEW e, NEW k, NEW v, NEW o, UniqueKeytag(e, k, v, o), reply'.n = 1
      PROVE  OneMeansHeldByAnother'
  <2>1. PICK n \in UniqueAnswers(e, k, v, o) : \E ok, err :
           reply' = Reply("unique", ok, err, e, [x \in {k} |-> v], FALSE, n)
    BY <1>2, Zenon DEF UniqueKeytag
  <2>2. reply'.n = n /\ reply'.elem = e /\ reply'.list = [x \in {k} |-> v]
    BY <2>1 DEF Reply
  <2>3. PICK h \in Holders(k, v) : h # e
    <3>1. n = 1
      BY <1>2, <2>2
    <3>2. PICK h \in Holders(k, v) : n = OwnerCheck(e, h)
      BY <2>1, <3>1 DEF UniqueAnswers
    <3> QED
      BY <3>1, <3>2 DEF OwnerCheck
  <2>4. h \in Holders(k, v)'
    BY <1>2, <2>3 DEF UniqueKeytag, Holders, Has
  <2>5. k \in DOMAIN reply'.list /\ reply'.list[k] = v
    BY <2>2
  <2> QED
    BY <2>2, <2>3, <2>4, <2>5 DEF OneMeansHeldByAnother
<1>3. ASSUME OneMeansHeldByAnother, Next PROVE OneMeansHeldByAnother'
  <2>1. CASE reply'.op = "unique" /\ reply'.n = 1
    BY <1>2, <1>3, <2>1, Answers DEF Query
  <2>2. CASE ~(reply'.op = "unique" /\ reply'.n = 1)
    BY <2>2 DEF OneMeansHeldByAnother
  <2> QED
    BY <2>1, <2>2
<1>4. OneMeansHeldByAnother /\ UNCHANGED vars => OneMeansHeldByAnother'
  BY DEF vars, OneMeansHeldByAnother, Holders, Has
<1> QED
  BY <1>1, <1>3, <1>4, PTL DEF Spec

\* A single insert's success means that exactly the attribute asked for is there,
\* and its refusal that nothing was written.
THEOREM SingleInsertTrue == Spec => SingleInsertAnswer
<1> DEFINE True == /\ reply'.ok => \A k \in DOMAIN reply'.list :
                        attr'[reply'.elem][k] = [value |-> reply'.list[k], ro |-> reply'.ro]
                   /\ reply'.err = "badinput" => attr' = attr
<1>1. ASSUME NEW e, NEW k, NEW v, NEW ro, InsertRefused(e, k, v, ro) PROVE True
  <2>1. reply' = Reply("insert", FALSE, "badinput", e, [x \in {k} |-> v], ro, 0)
    BY <1>1, Zenon DEF InsertRefused
  <2>2. ~reply'.ok
    BY <2>1 DEF Reply
  <2> QED
    BY <1>1, <2>2, Zenon DEF InsertRefused
<1>2. ASSUME TypeOK, NEW e, NEW k \in Keytags, NEW v, NEW ro \in BOOLEAN, NEW o,
             InsertOne(e, k, v, ro, o)
      PROVE  True
  <2> DEFINE one == [x \in {k} |-> v]
             n == Affected(e, k, v, ro)
             ok == CountOk(n, ro)
             new == [value |-> v, ro |-> ro]
  <2>1. \/ reply' = Reply("insert", FALSE, "internal", e, one, ro, 0)
        \/ /\ Here(e) /\ attr' = [attr EXCEPT ![e][k] = RowAfter(e, k, v, ro)]
           /\ reply' = Reply("insert", ok, IF ok THEN "none" ELSE "badinput", e, one, ro, n)
    BY <1>2, Zenon DEF InsertOne, ReferenceOk
  <2>2. CASE reply' = Reply("insert", FALSE, "internal", e, one, ro, 0)
    <3>1. ~reply'.ok /\ reply'.err = "internal"
      BY <2>2 DEF Reply
    <3> QED
      BY <3>1
  <2>3. CASE /\ Here(e) /\ attr' = [attr EXCEPT ![e][k] = RowAfter(e, k, v, ro)]
             /\ ok
             /\ reply' = Reply("insert", TRUE, "none", e, one, ro, n)
    <3>1. reply'.err = "none" /\ reply'.elem = e /\ reply'.list = one
      BY <2>3 DEF Reply
    <3>2. reply'.ro = ro
      BY <2>3, Zenon DEF Reply
    <3>3. RowAfter(e, k, v, ro) = new
      BY <2>3 DEF CountOk, Affected, RowAfter
    <3>4. attr'[e][k] = new
      BY <1>2, <2>3, <3>3 DEF TypeOK, Here
    <3>5. ASSUME NEW x \in DOMAIN reply'.list
          PROVE  attr'[reply'.elem][x] = [value |-> reply'.list[x], ro |-> reply'.ro]
      <4>1. x = k /\ reply'.list[x] = v
        BY <3>1
      <4> QED
        BY <3>1, <3>2, <3>4, <4>1, Zenon
    <3> QED
      BY <3>1, <3>5
  <2>4. CASE /\ Here(e) /\ attr' = [attr EXCEPT ![e][k] = RowAfter(e, k, v, ro)]
             /\ ~ok
             /\ reply' = Reply("insert", FALSE, "badinput", e, one, ro, n)
    <3>1. ~reply'.ok
      BY <2>4 DEF Reply
    <3>2. RowAfter(e, k, v, ro) = attr[e][k]
      BY <2>4 DEF CountOk, Affected, RowAfter
    <3>3. attr' = attr
      BY <1>2, <2>4, <3>2 DEF TypeOK, Here
    <3> QED
      BY <3>1, <3>3
  <2>5. ok \in BOOLEAN
    BY DEF CountOk
  <2> HIDE DEF ok, one, n
  <2> QED
    BY <2>1, <2>2, <2>3, <2>4, <2>5, Zenon
<1>3. TypeOK /\ Next => (reply'.op = "insert" => True)
  BY <1>1, <1>2, Answers, Zenon DEF Insert
<1>4. TypeOK /\ [Next]_vars => [reply'.op = "insert" => True]_vars
  BY <1>3, Zenon
<1> QED
  BY InitTypeOK, NextTypeOK, <1>4, PTL DEF Spec, SingleInsertAnswer
================================================================================
