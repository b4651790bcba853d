-------------------------- MODULE AssetDatabase_proof --------------------------
(***************************************************************************)
(* Proofs about AssetDatabase: the whole implements each of its parts, and *)
(* an asset whose rows were cleared can be deleted.                        *)
(***************************************************************************)
EXTENDS AssetDatabase, TLAPS

AP == INSTANCE ExtAttributes_proof WITH reply <- attrReply

aAll == <<asset, attr, attrReply>>
lAll == <<asset, link, call, linkReply>>
gAll == <<asset, member, freed, groupReply>>
mAll == <<asset, device, spent, relation, told, monitorReply>>

LEMMA OneTable == Devices \cup (Elements \ Devices) = Elements
BY DatabaseAssumption DEF DatabaseAssumption

--------------------------------------------------------------------------------
(* The calls of a part are steps of it that leave the assets alone *)

LEMMA AttributeCalls ==
    ASSUME \/ AttributeWrite
           \/ \E e \in Elements, ro \in BOOLEAN, o \in Outcomes : A!DeleteWithRo(e, ro, o)
    PROVE  A!Next /\ asset' = asset
<1>1. CASE A!Insert
  <2>1. PICK e \in Elements \cup {0}, k \in Keytags, v \in Values, ro \in BOOLEAN :
              A!InsertRefused(e, k, v, ro) \/ \E o \in Outcomes : A!InsertOne(e, k, v, ro, o)
    BY <1>1 DEF A!Insert
  <2>2. CASE A!InsertRefused(e, k, v, ro)
    BY <1>1, <2>2 DEF A!Next, A!InsertRefused
  <2>3. ASSUME NEW o \in Outcomes, A!InsertOne(e, k, v, ro, o) PROVE asset' = asset
    BY <2>3, Zenon DEF A!InsertOne
  <2> QED
    BY <1>1, <2>1, <2>2, <2>3 DEF A!Next
<1>2. CASE A!Batch
  BY <1>2 DEF A!Next, A!Batch, A!InsertMany
<1>3. CASE A!Query
  BY <1>3 DEF A!Next, A!Query, A!UniqueKeytag
<1>4. CASE \E e \in Elements, ro \in BOOLEAN, o \in Outcomes : A!DeleteWithRo(e, ro, o)
  <2>1. A!Delete
    BY <1>4 DEF A!Delete
  <2>2. asset' = asset
    BY <1>4 DEF A!DeleteWithRo
  <2> QED
    BY <2>1, <2>2 DEF A!Next
<1>5. CASE \E e \in Elements \cup {0}, k \in Keytags, o \in Outcomes : A!DeleteTag(e, k, o)
  <2>1. A!Delete
    BY <1>5 DEF A!Delete
  <2>2. asset' = asset
    BY <1>5, Zenon DEF A!DeleteTag
  <2> QED
    BY <2>1, <2>2 DEF A!Next
<1> QED
  BY <1>1, <1>2, <1>3, <1>4, <1>5 DEF AttributeWrite

LEMMA LinkCalls ==
    ASSUME \E c \in Clients :
              \/ LinkWrite(c)
              \/ \E e \in Elements, o \in Outcomes : L!DeleteLinksTo(c, e, o)
    PROVE  L!Next /\ asset' = asset
<1> PICK c \in Clients :
              \/ LinkWrite(c)
              \/ \E e \in Elements, o \in Outcomes : L!DeleteLinksTo(c, e, o)
  OBVIOUS
<1>1. CASE L!Single(c)
  BY <1>1 DEF L!Next, L!Single, L!InsertLink
<1>2. CASE L!Start(c)
  BY <1>2 DEF L!Next, L!Start, L!StartByIds, L!StartByNames
<1>3. CASE L!Continue(c)
  BY <1>3 DEF L!Next, L!Continue, L!ResolveSrc, L!ResolveDest, L!BatchStep
<1>4. CASE L!Crash(c)
  BY <1>4 DEF L!Next, L!Crash
<1>5. CASE \E e \in Elements, o \in Outcomes : L!DeleteLinksTo(c, e, o)
  <2>1. L!Delete(c)
    BY <1>5, OneTable DEF L!Delete, L!Ids
  <2>2. asset' = asset
    BY <1>5 DEF L!DeleteLinksTo
  <2> QED
    BY <2>1, <2>2 DEF L!Next
<1>6. CASE \E s, d \in Elements \cup {0}, o \in Outcomes : L!DeleteLink(c, s, d, o)
  <2>1. L!Delete(c)
    BY <1>6, OneTable DEF L!Delete, L!Ids
  <2>2. asset' = asset
    BY <1>6 DEF L!DeleteLink
  <2> QED
    BY <2>1, <2>2 DEF L!Next
<1> QED
  BY <1>1, <1>2, <1>3, <1>4, <1>5, <1>6 DEF LinkWrite

LEMMA GroupCalls == ASSUME G!Insert \/ G!Remove PROVE G!Next /\ asset' = asset
<1>1. CASE G!Insert
  BY <1>1 DEF G!Next, G!Insert, G!InsertRefused, G!InsertOne, G!InsertManyRefused,
              G!InsertMany, G!Add
<1>2. CASE G!Remove
  BY <1>2 DEF G!Next, G!Remove, G!DeleteGroupLinks, G!DeleteFromGroups,
              G!DeleteFromGroup, G!Delete
<1> QED
  BY <1>1, <1>2

LEMMA MonitorCalls ==
    ASSUME \/ M!Insert \/ M!Query
           \/ \E e \in Elements, o \in Outcomes : M!DeleteRelation(e, o)
    PROVE  M!Next /\ asset' = asset
<1>1. CASE M!Insert
  BY <1>1 DEF M!Next, M!Insert, M!InsertDevice, M!InsertRelation
<1>2. CASE M!Query
  BY <1>2 DEF M!Next, M!Query, M!Convert
<1>3. CASE \E e \in Elements, o \in Outcomes : M!DeleteRelation(e, o)
  <2>1. M!Remove
    BY <1>3 DEF M!Remove
  <2>2. asset' = asset
    BY <1>3 DEF M!DeleteRelation
  <2> QED
    BY <2>1, <2>2 DEF M!Next
<1> QED
  BY <1>1, <1>2, <1>3

\* A step of the whole is a call of one part, beside which the others stand still,
\* or an asset that all of them see appear or disappear.
PartStep ==
    \/ A!Next /\ UNCHANGED <<asset, lVars, gVars, mVars>>
    \/ L!Next /\ UNCHANGED <<asset, aVars, gVars, mVars>>
    \/ G!Next /\ UNCHANGED <<asset, aVars, lVars, mVars>>
    \/ M!Next /\ UNCHANGED <<asset, aVars, lVars, gVars>>
    \/ A!Next /\ L!Next /\ G!Next /\ M!Next

LEMMA NextIsPartStep == ASSUME Next PROVE PartStep
<1>1. CASE Write
  <2>1. CASE AttributeWrite /\ UNCHANGED <<lVars, gVars, mVars>>
    BY <2>1, AttributeCalls DEF PartStep
  <2>2. CASE (\E c \in Clients : LinkWrite(c)) /\ UNCHANGED <<aVars, gVars, mVars>>
    BY <2>2, LinkCalls DEF PartStep
  <2>3. CASE (G!Insert \/ G!Remove) /\ UNCHANGED <<aVars, lVars, mVars>>
    BY <2>3, GroupCalls DEF PartStep
  <2>4. CASE (M!Insert \/ M!Query) /\ UNCHANGED <<aVars, lVars, gVars>>
    BY <2>4, MonitorCalls DEF PartStep
  <2> QED
    BY <1>1, <2>1, <2>2, <2>3, <2>4 DEF Write
<1>2. ASSUME NEW kind \in Kinds, NEW e \in Elements, NEW o \in Outcomes, Clear(kind, e, o)
      PROVE  PartStep
  <2>1. CASE \E ro \in BOOLEAN : A!DeleteWithRo(e, ro, o) /\ UNCHANGED <<lVars, gVars, mVars>>
    BY <2>1, AttributeCalls DEF PartStep
  <2>2. CASE (\E c \in Clients : L!DeleteLinksTo(c, e, o)) /\ UNCHANGED <<aVars, gVars, mVars>>
    BY <2>2, LinkCalls DEF PartStep
  <2>3. CASE M!DeleteRelation(e, o) /\ UNCHANGED <<aVars, lVars, gVars>>
    BY <2>3, MonitorCalls DEF PartStep
  <2> QED
    BY <1>2, <2>1, <2>2, <2>3 DEF Clear, ClearStep
<1>3. ASSUME NEW e \in Elements, AssetInserted(e) PROVE PartStep
  <2>1. A!Next
    BY <1>3 DEF AssetInserted, A!Next, A!Asset
  <2>2. L!Next
    BY <1>3, OneTable DEF AssetInserted, L!Next, L!Asset, L!Ids
  <2>3. G!Next
    BY <1>3 DEF AssetInserted, G!Next, G!Asset
  <2>4. M!Next
    BY <1>3 DEF AssetInserted, M!Next, M!Asset
  <2> QED
    BY <2>1, <2>2, <2>3, <2>4 DEF PartStep
<1>4. ASSUME NEW e \in Elements, AssetDeleted(e) PROVE PartStep
  <2>1. A!Next
    BY <1>4 DEF AssetDeleted, A!Next, A!Asset
  <2>2. L!Next
    BY <1>4, OneTable DEF AssetDeleted, L!Next, L!Asset, L!Ids
  <2>3. G!Next
    BY <1>4 DEF AssetDeleted, G!Next, G!Asset
  <2>4. M!Next
    BY <1>4 DEF AssetDeleted, M!Next, M!Asset
  <2> QED
    BY <2>1, <2>2, <2>3, <2>4 DEF PartStep
<1> QED
  BY <1>1, <1>2, <1>3, <1>4 DEF Next

LEMMA StepOfEach ==
    [Next]_vars => [A!Next]_aAll /\ [L!Next]_lAll /\ [G!Next]_gAll /\ [M!Next]_mAll
<1>1. Next => PartStep
  BY NextIsPartStep
<1> QED
  BY <1>1 DEF PartStep, vars, aVars, lVars, gVars, mVars, aAll, lAll, gAll, mAll

\* Everything that was checked and proved of one table's module holds of it in the
\* database as a whole: the calls of the others never do to it what no call of its
\* own could.
THEOREM WholeImplementsParts == Spec => ImplementsParts
<1>1. Init => A!Init /\ L!Init /\ G!Init /\ M!Init
  BY DEF Init
<1> QED
  BY <1>1, StepOfEach, PTL DEF Spec, ImplementsParts, A!Spec, L!Spec, G!Spec, M!Spec,
                     A!vars, L!vars, G!vars, M!vars, aAll, lAll, gAll, mAll

LEMMA SameAttributes == A!Next <=> AP!Next
BY DEF A!Lists, AP!Lists, A!NoList, AP!NoList, A!Reply, AP!Reply, A!Here, AP!Here,
       A!ReferenceOk, AP!ReferenceOk, A!Has, AP!Has, A!Took, AP!Took, A!Reported,
       AP!Reported, A!Accepted, AP!Accepted, A!RowAfter, AP!RowAfter, A!Affected,
       AP!Affected, A!CountOk, AP!CountOk, A!InsertRefused, AP!InsertRefused,
       A!InsertOne, AP!InsertOne, A!BatchAfter, AP!BatchAfter, A!InsertMany,
       AP!InsertMany, A!DeleteTag, AP!DeleteTag, A!FlagMatches, AP!FlagMatches,
       A!DeleteWithRo, AP!DeleteWithRo, A!Holders, AP!Holders, A!OwnerCheck,
       AP!OwnerCheck, A!UniqueAnswers, AP!UniqueAnswers, A!UniqueKeytag, AP!UniqueKeytag, A!AssetInserted,
       AP!AssetInserted, A!AssetDeleted, AP!AssetDeleted, A!Insert, AP!Insert, A!Batch,
       AP!Batch, A!Delete, AP!Delete, A!Query, AP!Query, A!Asset, AP!Asset, A!Next,
       AP!Next

LEMMA AttributesTyped ==
    A!TypeOK /\ [Next]_vars => A!TypeOK'
<1> SUFFICES ASSUME A!TypeOK, [Next]_vars PROVE A!TypeOK'
  OBVIOUS
<1>1. [AP!Next]_aAll
  BY StepOfEach, SameAttributes
<1>2. AP!AttributeAssumption
  BY DatabaseAssumption DEF DatabaseAssumption, A!AttributeAssumption,
     AP!AttributeAssumption, A!Attribute, AP!Attribute
<1>3. A!TypeOK <=> AP!TypeOK
  BY DEF A!TypeOK, AP!TypeOK, A!Attribute, AP!Attribute, A!Lists, AP!Lists,
     A!NoList, AP!NoList, A!Has, AP!Has, A!Here, AP!Here
<1>4. (A!TypeOK)' <=> (AP!TypeOK)'
  BY DEF A!TypeOK, AP!TypeOK, A!Attribute, AP!Attribute, A!Lists, AP!Lists,
     A!NoList, AP!NoList, A!Has, AP!Has, A!Here, AP!Here
<1> QED
  BY <1>1, <1>2, <1>3, <1>4, AP!NextTypeOK DEF AP!NextTypeOK, AP!vars, aAll

--------------------------------------------------------------------------------
(* A kind of rows that was cleared stays empty until a row is added *)

ClearedOk ==
    /\ cleared \in [Watched -> SUBSET Kinds]
    /\ \A e \in Watched : \A kind \in cleared[e] : RowsFor(kind, e) = {}

\* The tables RowsFor reads stand still, or lose rows.
LEMMA SameRows ==
    ASSUME UNCHANGED <<attr, link, relation>>, NEW kind, NEW e
    PROVE  RowsFor(kind, e)' = RowsFor(kind, e)
BY DEF RowsFor, A!Has

LEMMA ClearAttributes ==
    ASSUME A!TypeOK, NEW d \in Elements, NEW ro \in BOOLEAN, NEW o \in Outcomes,
           A!DeleteWithRo(d, ro, o)
    PROVE  /\ \A e \in Elements, k \in Keytags :
                 attr'[e][k] # Absent => attr'[e][k] = attr[e][k]
           /\ A!Reported(o) =>
                 \A k \in Keytags : attr'[d][k] # Absent => attr'[d][k].ro # ro
<1>1. CASE ~A!Took(o)
  <2>1. attr' = attr /\ ~A!Reported(o)
    BY <1>1 DEF A!DeleteWithRo, A!Took, A!Reported
  <2> QED
    BY <2>1
<1>2. CASE A!Took(o)
  <2>1. attr' = [attr EXCEPT ![d] = [k \in Keytags |->
                   IF A!FlagMatches(d, k, ro) THEN Absent ELSE attr[d][k]]]
    BY <1>2 DEF A!DeleteWithRo
  <2>2. attr \in [Elements -> [Keytags -> A!Attribute \cup {Absent}]]
    BY DEF A!TypeOK
  <2>3. \A e \in Elements, k \in Keytags :
           attr'[e][k] = IF e = d /\ A!FlagMatches(d, k, ro) THEN Absent ELSE attr[e][k]
    BY <2>1, <2>2
  <2>4. \A k \in Keytags : attr[d][k] # Absent /\ attr[d][k].ro = ro => A!FlagMatches(d, k, ro)
    BY Zenon DEF A!FlagMatches, A!Has
  <2> QED
    BY <2>3, <2>4, Zenon
<1> QED
  BY <1>1, <1>2

LEMMA ClearRemoves ==
    ASSUME A!TypeOK, NEW kind \in Kinds, NEW d \in Elements, NEW o \in Outcomes,
           ClearStep(kind, d, o)
    PROVE  /\ \A k \in Kinds, e \in Elements : RowsFor(k, e)' \subseteq RowsFor(k, e)
           /\ A!Reported(o) => RowsFor(kind, d)' = {}
<1> DEFINE Fewer(k) == \A e \in Elements : RowsFor(k, e)' \subseteq RowsFor(k, e)
<1>1. ASSUME NEW ro \in BOOLEAN, kind = IF ro THEN "read-only" ELSE "read-write",
             A!DeleteWithRo(d, ro, o), UNCHANGED <<lVars, gVars, mVars>>
      PROVE  (\A k \in Kinds : Fewer(k)) /\ (A!Reported(o) => RowsFor(kind, d)' = {})
  <2>1. /\ \A e \in Elements, k \in Keytags :
              attr'[e][k] # Absent => attr'[e][k] = attr[e][k]
        /\ A!Reported(o) => \A k \in Keytags : attr'[d][k] # Absent => attr'[d][k].ro # ro
    BY <1>1, ClearAttributes
  <2>2. Fewer("read-only")
    BY <2>1, Zenon DEF RowsFor, A!Has
  <2>3. Fewer("read-write")
    BY <2>1, Zenon DEF RowsFor, A!Has
  <2>4. Fewer("links to") /\ Fewer("monitor")
    BY <1>1 DEF RowsFor, lVars, mVars
  <2>5. ASSUME A!Reported(o) PROVE RowsFor(kind, d)' = {}
    <3>1. CASE ro = TRUE
      <4>1. kind = "read-only" /\ \A k \in Keytags : attr'[d][k] # Absent => ~attr'[d][k].ro
        BY <1>1, <2>1, <2>5, <3>1
      <4> QED
        BY <4>1, Zenon DEF RowsFor, A!Has
    <3>2. CASE ro = FALSE
      <4>1. kind = "read-write" /\ \A k \in Keytags : attr'[d][k] # Absent => attr'[d][k].ro # FALSE
        BY <1>1, <2>1, <2>5, <3>2
      <4>2. ASSUME NEW k \in Keytags, attr'[d][k] # Absent PROVE attr'[d][k].ro
        <5>1. attr'[d][k] = attr[d][k] /\ attr[d][k] \in A!Attribute
          BY <2>1, <4>2 DEF A!TypeOK
        <5>2. attr'[d][k].ro \in BOOLEAN
          BY <5>1, Zenon DEF A!Attribute
        <5> QED
          BY <4>1, <4>2, <5>2, Zenon
      <4>3. RowsFor("read-write", d)' = {k \in Keytags : A!Has(d, k)' /\ ~attr'[d][k].ro}
        BY DEF RowsFor
      <4> QED
        BY <4>1, <4>2, <4>3, Zenon DEF A!Has
    <3> QED
      BY <3>1, <3>2
  <2> QED
    BY <2>2, <2>3, <2>4, <2>5 DEF Kinds
<1>2. ASSUME NEW c \in Clients, kind = "links to", L!DeleteLinksTo(c, d, o),
             UNCHANGED <<aVars, gVars, mVars>>
      PROVE  (\A k \in Kinds : Fewer(k)) /\ (A!Reported(o) => RowsFor(kind, d)' = {})
  <2> DEFINE left == DOMAIN link \ {r \in DOMAIN link : r.dest = d}
  <2>0. link' = IF L!Took(o) THEN [r \in left |-> link[r]] ELSE link
    BY <1>2 DEF L!DeleteLinksTo, L!Without, L!Rows, L!BagToSet, BagToSet
  <2>1. BagToSet(link') \subseteq BagToSet(link)
    <3>1. CASE L!Took(o)
      <4>1. DOMAIN link' = left
        BY <2>0, <3>1
      <4> QED
        BY <4>1 DEF BagToSet
    <3>2. CASE ~L!Took(o)
      BY <2>0, <3>2
    <3> QED
      BY <3>1, <3>2
  <2>2. A!Reported(o) => \A r \in BagToSet(link') : r.dest # d
    <3>1. A!Reported(o) => DOMAIN link' = left
      BY <2>0 DEF A!Reported, L!Took
    <3> QED
      BY <3>1 DEF BagToSet
  <2>3. Fewer("links to") /\ (A!Reported(o) => RowsFor("links to", d)' = {})
    BY <2>1, <2>2 DEF RowsFor
  <2>4. Fewer("read-only") /\ Fewer("read-write") /\ Fewer("monitor")
    BY <1>2 DEF RowsFor, aVars, mVars, A!Has
  <2> QED
    BY <1>2, <2>3, <2>4 DEF Kinds
<1>3. ASSUME kind = "monitor", M!DeleteRelation(d, o), UNCHANGED <<aVars, lVars, gVars>>
      PROVE  (\A k \in Kinds : Fewer(k)) /\ (A!Reported(o) => RowsFor(kind, d)' = {})
  <2>1. Fewer("monitor") /\ (A!Reported(o) => RowsFor("monitor", d)' = {})
    BY <1>3 DEF RowsFor, M!DeleteRelation, M!RowsOfAsset, M!Took, A!Reported
  <2>2. Fewer("read-only") /\ Fewer("read-write") /\ Fewer("links to")
    BY <1>3 DEF RowsFor, aVars, lVars, A!Has
  <2> QED
    BY <1>3, <2>1, <2>2 DEF Kinds
<1> QED
  BY <1>1, <1>2, <1>3 DEF ClearStep

LEMMA NextCleared == ASSUME A!TypeOK, ClearedOk, [Next]_vars PROVE ClearedOk'
<1>1. CASE UNCHANGED cleared /\ UNCHANGED <<attr, link, relation>>
  BY <1>1, SameRows DEF ClearedOk
<1>2. CASE StillCleared
  <2>1. cleared' = [e \in Watched |-> {k \in cleared[e] : ~RowsAdded(k, e)}]
    BY <1>2 DEF StillCleared
  <2>2. \A e \in Watched : \A k \in cleared'[e] : k \in cleared[e] /\ ~RowsAdded(k, e)
    BY <2>1
  <2>3. cleared' \in [Watched -> SUBSET Kinds]
    BY <2>1 DEF ClearedOk
  <2>4. \A e \in Watched : \A k \in cleared'[e] : RowsFor(k, e)' = {}
    BY <2>2 DEF ClearedOk, RowsAdded
  <2> QED
    BY <2>3, <2>4 DEF ClearedOk
<1>3. ASSUME NEW kind \in Kinds, NEW d \in Elements, NEW o \in Outcomes, Clear(kind, d, o)
      PROVE  ClearedOk'
  <2>1. /\ \A k \in Kinds, e \in Elements : RowsFor(k, e)' \subseteq RowsFor(k, e)
        /\ A!Reported(o) => RowsFor(kind, d)' = {}
    BY <1>3, ClearRemoves DEF Clear
  <2>2. cleared' = IF d \in Watched /\ A!Reported(o)
                   THEN [cleared EXCEPT ![d] = @ \cup {kind}] ELSE cleared
    BY <1>3 DEF Clear
  <2>3. cleared' \in [Watched -> SUBSET Kinds]
    BY <2>2 DEF ClearedOk
  <2>4. ASSUME NEW e \in Watched, NEW k \in cleared'[e] PROVE RowsFor(k, e)' = {}
    <3>1. k \in Kinds /\ e \in Elements
      BY <2>3, DatabaseAssumption DEF DatabaseAssumption
    <3>2. k \in cleared[e] \/ (k = kind /\ e = d /\ A!Reported(o))
      BY <2>2 DEF ClearedOk
    <3> QED
      BY <2>1, <3>1, <3>2 DEF ClearedOk
  <2> QED
    BY <2>3, <2>4 DEF ClearedOk
<1>4. ASSUME NEW e \in Elements, AssetInserted(e) \/ AssetDeleted(e) PROVE ClearedOk'
  BY <1>1, <1>4 DEF AssetInserted, AssetDeleted, A!AssetInserted, A!AssetDeleted,
     L!AssetInserted, L!AssetDeleted, M!AssetInserted, M!AssetDeleted
<1> QED
  BY <1>1, <1>2, <1>3, <1>4 DEF Next, Write, vars, aVars, lVars, mVars

--------------------------------------------------------------------------------
(* So does a role that was freed *)

FreedOk ==
    /\ freed \in [Elements -> SUBSET {"group", "element"}]
    /\ \A e \in Elements : /\ "group" \in freed[e] => \A p \in member : p[1] # e
                           /\ "element" \in freed[e] => \A p \in member : p[2] # e

LEMMA AddKeepsFreed == ASSUME FreedOk, NEW rows, G!Add(rows) PROVE FreedOk'
<1>1. /\ member' = member \cup rows
      /\ freed' = [e \in Elements |-> {role \in freed[e] : ~G!Names(role, e, rows)}]
  BY DEF G!Add
<1>2. freed' \in [Elements -> SUBSET {"group", "element"}]
  BY <1>1 DEF FreedOk
<1>3. \A e \in Elements : \A role \in freed'[e] : role \in freed[e] /\ ~G!Names(role, e, rows)
  BY <1>1
<1> QED
  BY <1>1, <1>2, <1>3 DEF FreedOk, G!Names

LEMMA NextFreed == ASSUME FreedOk, [Next]_vars PROVE FreedOk'
<1>1. CASE UNCHANGED <<member, freed>>
  BY <1>1 DEF FreedOk
<1>2. CASE G!Insert
  BY <1>1, <1>2, AddKeepsFreed DEF G!Insert, G!InsertRefused, G!InsertOne,
     G!InsertManyRefused, G!InsertMany
<1>3. CASE G!Remove
  <2> PICK e \in Elements, o \in Outcomes :
        \/ G!DeleteGroupLinks(e, o)
        \/ G!DeleteFromGroups(e, o)
        \/ \E g \in Elements : G!DeleteFromGroup(g, e, o)
    BY <1>3 DEF G!Remove
  <2>1. CASE G!DeleteGroupLinks(e, o)
    BY <2>1 DEF FreedOk, G!DeleteGroupLinks, G!Delete, G!Freed, G!RowsOfGroup, G!Took, G!Reported
  <2>2. CASE G!DeleteFromGroups(e, o)
    BY <2>2 DEF FreedOk, G!DeleteFromGroups, G!Delete, G!Freed, G!RowsOfElement, G!Took, G!Reported
  <2>3. CASE \E g \in Elements : G!DeleteFromGroup(g, e, o)
    BY <2>3 DEF FreedOk, G!DeleteFromGroup, G!Delete
  <2> QED
    BY <2>1, <2>2, <2>3
<1>4. ASSUME NEW e \in Elements, AssetInserted(e) \/ AssetDeleted(e) PROVE FreedOk'
  BY <1>1, <1>4 DEF AssetInserted, AssetDeleted, G!AssetInserted, G!AssetDeleted
<1>5. ASSUME NEW kind, NEW e, NEW o, Clear(kind, e, o) PROVE FreedOk'
  BY <1>1, <1>5 DEF Clear, ClearStep, gVars
<1> QED
  BY <1>1, <1>2, <1>3, <1>4, <1>5 DEF Next, Write, vars, gVars

ClearInv == A!TypeOK /\ ClearedOk /\ FreedOk

LEMMA InitClearInv == Init => ClearInv
<1>1. A!Init => A!TypeOK
  BY DEF A!Init, A!TypeOK, A!Reply, A!Has, A!Here
<1> QED
  BY <1>1 DEF Init, ClearInv, ClearedOk, FreedOk, G!Init

\* An asset whose rows every delete has reported cleared can be deleted, unless a
\* row was added since or it is the source of a link, whatever all clients do.
THEOREM WholeClearedFree == Spec => []ClearedMeansFree
<1>1. ClearInv /\ [Next]_vars => ClearInv'
  BY AttributesTyped, NextCleared, NextFreed DEF ClearInv
<1>2. ClearInv => ClearedMeansFree
  <2> SUFFICES ASSUME ClearInv, NEW e \in Watched, cleared[e] = Kinds,
                      freed[e] = {"group", "element"},
                      ~\E r \in BagToSet(link) : r.src = e
               PROVE  Free(e)
    BY DEF ClearedMeansFree
  <2>1. e \in Elements
    BY DatabaseAssumption DEF DatabaseAssumption
  <2>2. \A kind \in Kinds : RowsFor(kind, e) = {}
    BY DEF ClearInv, ClearedOk
  <2>3. RowsFor("read-only", e) = {} /\ RowsFor("read-write", e) = {}
    BY <2>2 DEF Kinds
  <2>4. \A k \in Keytags : ~A!Has(e, k)
    BY <2>3, Zenon DEF RowsFor
  <2>5. ~L!Linked(e)
    <3>1. RowsFor("links to", e) = {}
      BY <2>2 DEF Kinds
    <3>2. \A r \in BagToSet(link) : r.dest # e
      BY <3>1 DEF RowsFor
    <3> QED
      BY <3>2 DEF L!Linked, L!Rows, L!BagToSet, BagToSet
  <2>6. ~G!Kept(e)
    BY <2>1 DEF ClearInv, FreedOk, G!Kept
  <2>7. ~M!Kept(e)
    BY <2>2 DEF Kinds, RowsFor, M!Kept
  <2> QED
    BY <2>4, <2>5, <2>6, <2>7 DEF Free
<1> QED
  BY InitClearInv, <1>1, <1>2, PTL DEF Spec

--------------------------------------------------------------------------------
(* The ids of discovered devices *)

DevicesOk ==
    /\ device \in [DeviceNames -> M!Device \cup {Absent}]
    /\ told \in [DeviceNames -> SUBSET Nat]
    /\ spent \in Nat
    /\ \A n \in M!Known : device[n].id \in 1 .. spent
    /\ \A n, m \in M!Known : device[n].id = device[m].id => n = m
    /\ \A n \in DeviceNames : \A x \in told[n] : n \in M!Known /\ x = device[n].id

LEMMA InsertKeepsIds ==
    ASSUME DevicesOk, NEW n \in DeviceNames, NEW t \in DeviceTypes, NEW o \in Outcomes,
           M!InsertDevice(n, t, o)
    PROVE  DevicesOk'
<1> DEFINE id == IF n \in M!Known THEN device[n].id ELSE spent + 1
           new == [id |-> id, type |-> t]
<1> USE DatabaseAssumption DEF DatabaseAssumption
<1>1. /\ spent < MaxDevice /\ spent' = IF M!Took(o) THEN spent + 1 ELSE spent
      /\ told' = IF M!Reported(o) THEN [told EXCEPT ![n] = @ \cup {id}] ELSE told
      /\ device' = IF M!Took(o) /\ n \notin M!Known THEN [device EXCEPT ![n] = new]
                   ELSE device
      /\ M!Reported(o) => M!Took(o)
  BY DEF M!InsertDevice, M!IdOfRow, M!Took, M!Reported
<1>2. id \in Nat /\ (id \in 1 .. spent \/ id = spent + 1)
  BY DEF DevicesOk
<1>3. CASE M!Took(o) /\ n \notin M!Known
  <2>1. id = spent + 1 /\ id \in 1 .. MaxDevice
    BY <1>1, <1>3 DEF DevicesOk
  <2>2. new \in M!Device
    BY <2>1 DEF M!Device
  <2>3. /\ device' \in [DeviceNames -> M!Device \cup {Absent}] /\ device'[n] = new
        /\ \A m \in DeviceNames \ {n} : device'[m] = device[m]
    BY <1>1, <1>3, <2>2 DEF DevicesOk
  <2>4. M!Known' = M!Known \cup {n}
    BY <2>2, <2>3 DEF M!Known
  <2>5. device'[n].id = spent + 1
    BY <2>1, <2>3
  <2>6. spent' = spent + 1 /\ told[n] = {}
    BY <1>1, <1>3 DEF DevicesOk
  <2>7. \A m \in M!Known' : /\ m = n => device'[m].id = spent + 1
                            /\ m # n => device'[m].id = device[m].id /\ device[m].id \in 1 .. spent
    BY <2>3, <2>4, <2>5 DEF DevicesOk, M!Known
  <2>8. told' \in [DeviceNames -> SUBSET Nat] /\ told'[n] \subseteq {spent + 1}
        /\ \A m \in DeviceNames \ {n} : told'[m] = told[m]
    BY <1>1, <1>2, <2>1, <2>6 DEF DevicesOk
  <2>9. \A m \in M!Known' : device'[m].id \in 1 .. spent'
    BY <2>6, <2>7 DEF DevicesOk
  <2>10. \A m, k \in M!Known' : device'[m].id = device'[k].id => m = k
    BY <2>4, <2>7 DEF DevicesOk
  <2>11. \A m \in DeviceNames : \A x \in told'[m] : m \in M!Known' /\ x = device'[m].id
    BY <2>3, <2>4, <2>5, <2>8 DEF DevicesOk
  <2> QED
    BY <2>3, <2>6, <2>8, <2>9, <2>10, <2>11 DEF DevicesOk
<1>4. CASE ~(M!Took(o) /\ n \notin M!Known)
  <2>1. device' = device /\ M!Known' = M!Known /\ spent' \in {spent, spent + 1}
    BY <1>1, <1>4 DEF M!Known
  <2>2. M!Reported(o) => n \in M!Known /\ id = device[n].id
    BY <1>1, <1>4
  <2>3. /\ told' \in [DeviceNames -> SUBSET Nat]
        /\ \A m \in DeviceNames : \A x \in told'[m] :
              x \in told[m] \/ (m = n /\ M!Reported(o) /\ x = id)
    BY <1>1, <1>2 DEF DevicesOk
  <2>4. \A m \in M!Known' : device'[m].id \in 1 .. spent'
    BY <2>1 DEF DevicesOk
  <2> HIDE DEF id
  <2>5. \A m \in DeviceNames : \A x \in told'[m] : m \in M!Known' /\ x = device'[m].id
    BY <2>1, <2>2, <2>3 DEF DevicesOk
  <2> QED
    BY <2>1, <2>3, <2>4, <2>5 DEF DevicesOk
<1> QED
  BY <1>3, <1>4

LEMMA NextDevices == ASSUME DevicesOk, [M!Next]_mAll PROVE DevicesOk'
<1>1. CASE UNCHANGED <<device, spent, told>>
  BY <1>1 DEF DevicesOk, M!Known
<1>2. CASE M!Insert
  BY <1>1, <1>2, InsertKeepsIds DEF M!Insert, M!InsertRelation
<1>3. CASE M!Remove \/ M!Query \/ M!Asset
  BY <1>1, <1>3 DEF M!Remove, M!Query, M!Asset, M!DeleteRelation, M!Convert,
     M!AssetInserted, M!AssetDeleted
<1> QED
  BY <1>1, <1>2, <1>3 DEF M!Next, mAll

\* Every caller that ever inserts a device is told the same id for it, and no other
\* device has that id.
THEOREM WholeOneId == Spec => []OneIdPerDevice
<1>1. Init => DevicesOk
  BY DEF Init, M!Init, DevicesOk, M!Known
<1>2. DevicesOk /\ [Next]_vars => DevicesOk'
  BY StepOfEach, NextDevices
<1>3. DevicesOk => OneIdPerDevice
  BY DEF DevicesOk, OneIdPerDevice, M!OneIdPerDevice
<1> QED
  BY <1>1, <1>2, <1>3, PTL DEF Spec

--------------------------------------------------------------------------------
(* What is proved of links and of groups by themselves, carried over: the two   *)
(* instances of a module have the same definitions under different names        *)

LP == INSTANCE AssetLinks_proof WITH Others <- Elements \ Devices, reply <- linkReply
GP == INSTANCE Groups_proof WITH reply <- groupReply

LEMMA SameGroups == (G!Next <=> GP!Next) /\ (G!Init <=> GP!Init) /\ (G!TypeOK <=> GP!TypeOK)
<1>1. G!Init <=> GP!Init
  BY DEF G!Init, GP!Init, G!Reply, GP!Reply
<1>2. G!TypeOK <=> GP!TypeOK
  BY DEF G!TypeOK, GP!TypeOK, G!Here, GP!Here
<1>3. \A g, e : G!InsertRefused(g, e) <=> GP!InsertRefused(g, e)
  BY DEF G!InsertRefused, GP!InsertRefused, G!Reply, GP!Reply
<1>10. /\ \A S : G!Cardinality(S) = GP!Cardinality(S)
       /\ \A rows : G!Add(rows) <=> GP!Add(rows)
       /\ \A p : G!ReferencesOk(p) <=> GP!ReferencesOk(p)
  BY Zenon DEF G!Cardinality, GP!Cardinality, G!Add, GP!Add, G!Names, GP!Names,
     G!ReferencesOk, GP!ReferencesOk, G!Here, GP!Here
<1>11. /\ \A want : G!AllOrNone(want) = GP!AllOrNone(want)
       /\ \A gs, e : G!GrpValues(gs, e) = GP!GrpValues(gs, e)
  BY Zenon DEF G!AllOrNone, GP!AllOrNone, G!GrpValues, GP!GrpValues, G!ReferencesOk,
     GP!ReferencesOk, G!Here, GP!Here
<1>4. \A g, e : \A o \in Outcomes : G!InsertOne(g, e, o) <=> GP!InsertOne(g, e, o)
  BY <1>10 DEF G!InsertOne, GP!InsertOne, G!Reply, GP!Reply, G!InTable, GP!InTable,
     G!Took, GP!Took, G!Reported, GP!Reported
<1>5. \A gs, e : G!InsertManyRefused(gs, e) <=> GP!InsertManyRefused(gs, e)
  BY Zenon DEF G!InsertManyRefused, GP!InsertManyRefused, G!Reply, GP!Reply,
     G!GrpValues, GP!GrpValues
<1>6. \A gs, e : \A o \in Outcomes : G!InsertMany(gs, e, o) <=> GP!InsertMany(gs, e, o)
  BY <1>10, <1>11 DEF G!InsertMany, GP!InsertMany, G!Reply, GP!Reply, G!AllAdded,
     GP!AllAdded, G!Took, GP!Took, G!Reported, GP!Reported
<1>7. G!Remove <=> GP!Remove
  BY Zenon DEF G!Cardinality, GP!Cardinality, G!Remove, GP!Remove, G!Delete,
     GP!Delete, G!Freed, GP!Freed, G!Reply, GP!Reply, G!RowsOfElement, GP!RowsOfElement,
     G!RowsOfGroup, GP!RowsOfGroup, G!DeleteGroupLinks, GP!DeleteGroupLinks,
     G!DeleteFromGroups, GP!DeleteFromGroups, G!DeleteFromGroup, GP!DeleteFromGroup,
     G!Took, GP!Took, G!Reported, GP!Reported
<1>8. G!Asset <=> GP!Asset
  BY Zenon DEF G!Asset, GP!Asset, G!AssetReply, GP!AssetReply, G!Reply, GP!Reply,
     G!AssetInserted, GP!AssetInserted, G!Kept, GP!Kept, G!AssetDeleted,
     GP!AssetDeleted, G!Here, GP!Here
<1>9. G!Insert <=> GP!Insert
  BY <1>3, <1>4, <1>5, <1>6, Zenon DEF G!Insert, GP!Insert
<1> QED
  BY <1>1, <1>2, <1>7, <1>8, <1>9 DEF G!Next, GP!Next

LEMMA SameLinks == (L!Next <=> LP!Next) /\ (L!Init <=> LP!Init) /\ (L!TypeOK <=> LP!TypeOK)
<1>1. L!Init <=> LP!Init
  BY Zenon DEF L!Init, LP!Init, L!Ids, LP!Ids, L!Idle, LP!Idle, L!Call, LP!Call,
     L!Reply, LP!Reply, L!EmptyBag, LP!EmptyBag, L!SetToBag, LP!SetToBag
<1>2. L!TypeOK <=> LP!TypeOK
  BY Zenon DEF L!TypeOK, LP!TypeOK, L!Ids, LP!Ids, L!Rows, LP!Rows, L!BagToSet,
     LP!BagToSet, L!IsABag, LP!IsABag
<1>3. L!Room <=> LP!Room
  BY Zenon DEF L!Room, LP!Room, L!BagCardinality, LP!BagCardinality
<1>4. \A l, o : L!LinkStatement(l, o) <=> LP!LinkStatement(l, o)
  BY Zenon DEF L!LinkStatement, LP!LinkStatement, L!Accepted, LP!Accepted, L!Inserts,
     LP!Inserts, L!InDeviceView, LP!InDeviceView, L!Here, LP!Here, L!Ids, LP!Ids,
     L!AlreadyThere, LP!AlreadyThere, L!SameLink, LP!SameLink, L!Rows, LP!Rows,
     L!BagToSet, LP!BagToSet, L!Took, LP!Took, L!(+), LP!(+), L!SetToBag, LP!SetToBag
<1>5. \A l, o : L!StatementOk(l, o) <=> LP!StatementOk(l, o)
  BY Zenon DEF L!StatementOk, LP!StatementOk, L!Accepted, LP!Accepted, L!Reported,
     LP!Reported
<1>6. \A n, o : L!NameToAssetId(n, o) = LP!NameToAssetId(n, o)
  BY Zenon DEF L!NameToAssetId, LP!NameToAssetId, L!Bearers, LP!Bearers, L!Reported,
     LP!Reported, L!Here, LP!Here, L!Ids, LP!Ids
<1>7. \A c, l, o : L!InsertLink(c, l, o) <=> LP!InsertLink(c, l, o)
  BY <1>3, <1>4, <1>5, Zenon DEF L!InsertLink, LP!InsertLink, L!Reply, LP!Reply
<1>8. \A c, list : L!StartByIds(c, list) <=> LP!StartByIds(c, list)
  BY <1>3, Zenon DEF L!StartByIds, LP!StartByIds, L!Reply, LP!Reply, L!Call, LP!Call
<1>9. \A c, list : L!StartByNames(c, list) <=> LP!StartByNames(c, list)
  BY <1>3, Zenon DEF L!StartByNames, LP!StartByNames, L!Call, LP!Call
<1>10. \A c, o : L!ResolveSrc(c, o) <=> LP!ResolveSrc(c, o)
  BY <1>6 DEF L!ResolveSrc, LP!ResolveSrc, L!Call, LP!Call, L!ToId, LP!ToId
<1>11. \A c, o : L!ResolveDest(c, o) <=> LP!ResolveDest(c, o)
  BY <1>6 DEF L!ResolveDest, LP!ResolveDest, L!Call, LP!Call, L!ToId, LP!ToId
<1>12. \A c, o : L!BatchStep(c, o) <=> LP!BatchStep(c, o)
  BY <1>4, <1>5 DEF L!BatchStep, LP!BatchStep, L!Call, LP!Call, L!Idle, LP!Idle,
     L!Narrow, LP!Narrow, L!Reply, LP!Reply
<1>13. \A c : L!Crash(c) <=> LP!Crash(c)
  BY Zenon DEF L!Crash, LP!Crash, L!Idle, LP!Idle, L!Call, LP!Call
<1>14. \A c : L!Delete(c) <=> LP!Delete(c)
  BY Zenon DEF L!Delete, LP!Delete, L!BothEnds, LP!BothEnds, L!DeleteLink,
     LP!DeleteLink, L!DeleteLinksTo, LP!DeleteLinksTo, L!Without, LP!Without, L!Rows, LP!Rows, L!BagToSet, LP!BagToSet,
     L!Took, LP!Took, L!Reported, LP!Reported, L!Reply, LP!Reply, L!Ends, LP!Ends,
     L!Ids, LP!Ids
<1>15. L!Asset <=> LP!Asset
  BY Zenon DEF L!Asset, LP!Asset, L!AssetInserted, LP!AssetInserted, L!AssetDeleted,
     LP!AssetDeleted, L!Bearers, LP!Bearers, L!Here, LP!Here, L!Ids, LP!Ids, L!Linked,
     LP!Linked, L!Rows, LP!Rows, L!BagToSet, LP!BagToSet
<1>16. \A c \in Clients : (L!Single(c) <=> LP!Single(c)) /\ (L!Start(c) <=> LP!Start(c))
                          /\ (L!Continue(c) <=> LP!Continue(c))
  BY <1>7, <1>8, <1>9, <1>10, <1>11, <1>12, Zenon DEF L!Single, LP!Single, L!Start,
     LP!Start, L!Continue, LP!Continue
<1> QED
  BY <1>1, <1>2, <1>13, <1>14, <1>15, <1>16, Zenon DEF L!Next, LP!Next

\* The types of those two parts, from their own proofs.
LEMMA LinksTyped == L!Spec => []L!TypeOK
<1>1. LP!LinkAssumption
  BY DatabaseAssumption DEF DatabaseAssumption, L!LinkAssumption, LP!LinkAssumption,
     L!Request, LP!Request, L!Ids, LP!Ids
<1>2. LP!Spec => []LP!TypeOK
  BY <1>1, LP!TypeCorrect
<1> QED
  BY <1>2, SameLinks, PTL DEF L!Spec, LP!Spec, L!vars, LP!vars

LEMMA GroupsTyped == G!Spec => []G!TypeOK
<1>1. GP!GroupAssumption
  BY DatabaseAssumption, Zenon DEF DatabaseAssumption, G!GroupAssumption,
     GP!GroupAssumption, G!IsFiniteSet, GP!IsFiniteSet
<1>2. GP!Spec => []GP!TypeOK
  BY <1>1, GP!TypeCorrect
<1> QED
  BY <1>2, SameGroups, PTL DEF G!Spec, GP!Spec, G!vars, GP!vars

--------------------------------------------------------------------------------
(* The types of the whole *)

MonitorOk == DevicesOk /\ M!TypeOK

LEMMA NextMonitor == ASSUME MonitorOk, [M!Next]_mAll PROVE MonitorOk'
<1> USE DatabaseAssumption DEF DatabaseAssumption
<1>0. DevicesOk' /\ DevicesOk
  BY NextDevices DEF MonitorOk
<1>9. \A op, id : \A ok \in BOOLEAN : M!Reply(op, ok, id).ok \in BOOLEAN
  BY DEF M!Reply
<1>1. M!DeviceIds' \subseteq 1 .. spent'
  <2>1. \A n \in M!Known' : device'[n].id \in 1 .. spent'
    BY <1>0 DEF DevicesOk
  <2> QED
    BY <2>1, Zenon DEF M!DeviceIds, M!Known
<1>2. CASE UNCHANGED mAll
  BY <1>0, <1>2 DEF MonitorOk, M!TypeOK, M!DeviceIds, M!Known, M!Here, mAll
<1>3. ASSUME NEW n \in DeviceNames, NEW t \in DeviceTypes, NEW o \in Outcomes,
             M!InsertDevice(n, t, o)
      PROVE  M!TypeOK'
  <2>1. /\ spent < MaxDevice /\ spent' \in {spent, spent + 1}
        /\ asset' = asset /\ relation' = relation /\ monitorReply'.ok \in BOOLEAN
    <3>1. monitorReply'.ok \in BOOLEAN
      BY <1>3, <1>9, Zenon DEF M!InsertDevice
    <3>2. /\ spent < MaxDevice /\ spent' \in {spent, spent + 1}
          /\ asset' = asset /\ relation' = relation
      BY <1>3 DEF M!InsertDevice
    <3> QED
      BY <3>1, <3>2
  <2>2. \A m \in M!Known : m \in M!Known' /\ device'[m] = device[m]
    <3>1. \/ device' = device
          \/ n \notin M!Known /\ \E r : device' = [device EXCEPT ![n] = r]
      BY <1>3, Zenon DEF M!InsertDevice
    <3> QED
      BY <3>1 DEF MonitorOk, M!TypeOK, M!Known
  <2>3. M!DeviceIds \subseteq M!DeviceIds'
    BY <2>2, Zenon DEF M!DeviceIds
  <2>4. spent' \in 0 .. MaxDevice
    BY <2>1 DEF MonitorOk, M!TypeOK
  <2>5. \A p \in relation' : p[1] \in M!DeviceIds' /\ M!Here(p[2])'
    BY <2>1, <2>3 DEF MonitorOk, M!TypeOK, M!Here
  <2>6. device' \in [DeviceNames -> M!Device \cup {Absent}]
    BY <1>0 DEF DevicesOk
  <2> QED
    BY <1>1, <2>1, <2>4, <2>5, <2>6 DEF MonitorOk, M!TypeOK
<1>4. ASSUME UNCHANGED <<device, spent>>, monitorReply'.ok \in BOOLEAN,
             asset' \in [Elements -> {"unborn", "here", "gone"}],
             \A p \in relation' :
                p[1] \in M!DeviceIds /\ p[2] \in Elements /\ asset'[p[2]] = "here"
      PROVE  M!TypeOK'
  <2>1. M!DeviceIds' = M!DeviceIds
    BY <1>4 DEF M!DeviceIds, M!Known
  <2> QED
    BY <1>4, <1>1, <2>1 DEF MonitorOk, M!TypeOK, M!Here
<1>5. ASSUME NEW m \in 0 .. MaxDevice, NEW e \in Elements \cup {0}, NEW o \in Outcomes,
             M!InsertRelation(m, e, o)
      PROVE  M!TypeOK'
  <2>1. /\ UNCHANGED <<asset, device, spent>> /\ monitorReply'.ok \in BOOLEAN
        /\ \A p \in relation' : p \in relation \/ (p = <<m, e>> /\ M!ReferencesOk(m, e))
    <3>1. monitorReply'.ok \in BOOLEAN
      BY <1>5, <1>9 DEF M!InsertRelation, M!Reported
    <3>2. UNCHANGED <<asset, device, spent>>
      BY <1>5 DEF M!InsertRelation
    <3>3. \A p \in relation' : p \in relation \/ (p = <<m, e>> /\ M!ReferencesOk(m, e))
      BY <1>5 DEF M!InsertRelation
    <3> QED
      BY <3>1, <3>2, <3>3
  <2>2. \A p \in relation' : p[1] \in M!DeviceIds /\ M!Here(p[2])
    BY <2>1 DEF M!ReferencesOk, MonitorOk, M!TypeOK
  <2> QED
    BY <1>4, <2>1, <2>2 DEF MonitorOk, M!TypeOK, M!Here
<1>6. CASE M!Remove
  <2>1. /\ UNCHANGED <<asset, device, spent>> /\ monitorReply'.ok \in BOOLEAN
        /\ relation' \subseteq relation
    BY <1>6, <1>9 DEF M!Remove, M!DeleteRelation, M!Reported
  <2> QED
    BY <1>0, <1>4, <2>1 DEF MonitorOk, M!TypeOK, M!Here
<1>7. CASE M!Query
  <2>1. UNCHANGED <<asset, device, spent, relation>> /\ monitorReply'.ok \in BOOLEAN
    BY <1>7, <1>9 DEF M!Query, M!Convert
  <2> QED
    BY <1>0, <1>4, <2>1 DEF MonitorOk, M!TypeOK, M!Here
<1>8. CASE M!Asset
  <2> PICK e \in Elements : M!AssetInserted(e) \/ M!AssetDeleted(e)
    BY <1>8 DEF M!Asset
  <2>1. UNCHANGED <<device, spent, relation>> /\ monitorReply'.ok \in BOOLEAN
    BY <1>9 DEF M!AssetInserted, M!AssetDeleted
  <2>2. asset \in [Elements -> {"unborn", "here", "gone"}]
    BY DEF MonitorOk, M!TypeOK
  <2>3. asset' \in [Elements -> {"unborn", "here", "gone"}]
    BY <2>2 DEF M!AssetInserted, M!AssetDeleted
  <2>4. \A p \in relation : asset'[p[2]] = "here"
    BY <2>2 DEF M!AssetInserted, M!AssetDeleted, M!Kept, MonitorOk, M!TypeOK, M!Here
  <2> QED
    BY <1>0, <1>4, <2>1, <2>3, <2>4 DEF MonitorOk, M!TypeOK, M!Here
<1> QED
  BY <1>0, <1>2, <1>3, <1>5, <1>6, <1>7, <1>8 DEF MonitorOk, M!Next, M!Insert

\* The types of all the tables together: the keys of every table name assets that
\* are there, and a kind is cleared only if it is one of the four.
THEOREM TypeCorrect == Spec => []TypeOK
<1>1. Init => ClearInv /\ MonitorOk
  <2>1. Init => DevicesOk
    BY DEF Init, M!Init, DevicesOk, M!Known
  <2>2. M!Init => M!TypeOK
    BY DatabaseAssumption DEF DatabaseAssumption, M!Init, M!TypeOK, M!Reply,
       M!DeviceIds, M!Known
  <2> QED
    BY <2>1, <2>2, InitClearInv DEF Init, MonitorOk
<1>2. ClearInv /\ MonitorOk /\ [Next]_vars => (ClearInv /\ MonitorOk)'
  BY AttributesTyped, NextCleared, NextFreed, StepOfEach, NextMonitor DEF ClearInv
<1>3. ClearInv /\ MonitorOk /\ L!TypeOK /\ G!TypeOK => TypeOK
  BY DEF ClearInv, ClearedOk, MonitorOk, TypeOK
<1>4. Spec => L!Spec /\ G!Spec
  BY WholeImplementsParts, PTL DEF ImplementsParts
<1> QED
  BY <1>1, <1>2, <1>3, <1>4, LinksTyped, GroupsTyped, PTL DEF Spec
================================================================================
