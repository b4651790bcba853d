-------------------------- MODULE AssetElement_proof ---------------------------
(***************************************************************************)
(* Proofs about AssetElement, for every set of clients, names, parents and *)
(* rand () values and every bound on the number of rows.                   *)
(***************************************************************************)
EXTENDS AssetElement, TLAPS

\* The base that fills the unused field of an idle call is one of the bases.
LEMMA SomeBase == (CHOOSE b \in Bases : TRUE) \in Bases
BY ElementAssumption DEF ElementAssumption

\* Names and rows built from typed parts are typed.
LEMMA NameTypes ==
    /\ \A b \in Bases : PlainName(b) \in Name
    /\ \A b \in Bases, k \in Nat : NumberedName(b, k) \in Name
    /\ \A b \in Bases, r \in RandValues : TempName(b, r) \in Name
    /\ ExactNames \subseteq Name
<1> USE ElementAssumption DEF ElementAssumption
<1>1. \A b \in Bases : PlainName(b) \in Name
  BY DEF PlainName, Name
<1>2. \A b \in Bases, k \in Nat : NumberedName(b, k) \in Name
  BY DEF NumberedName, Name
<1>3. \A b \in Bases, r \in RandValues : TempName(b, r) \in Name
  BY DEF TempName, Name
<1>4. ExactNames \subseteq Name
  BY <1>1, <1>2 DEF ExactNames
<1> QED
  BY <1>1, <1>2, <1>3, <1>4

\* The fields an UPDATE changes may be changed in any row.
LEMMA RowUpdateTypes ==
    ASSUME NEW row \in Row
    PROVE  /\ \A n \in Name : [row EXCEPT !.name = n] \in Row
           /\ \A s \in Statuses : [row EXCEPT !.status = s] \in Row
           /\ \A p \in Parents, s \in Statuses :
                 [row EXCEPT !.parent = p, !.status = s] \in Row
BY ElementAssumption DEF ElementAssumption, Row

\* A reply built from typed parts is typed.
LEMMA ReplyTypes ==
    ASSUME NEW op \in Ops, NEW ok \in BOOLEAN,
           NEW err \in {"none", "badinput", "internal", "notunique", "thrown"},
           NEW rows \in Nat, NEW id \in Nat
    PROVE  Reply(op, ok, err, rows, id) \in Replies
BY DEF Reply, Replies

\* A row that an insert adds keeps the table, the counter typed, and NewId is
\* an identifier.
LEMMA AddRowTypes ==
    ASSUME TypeOK,
           NEW n \in Name, NEW t \in ElementTypes, NEW p \in Parents,
           NEW s \in Statuses, AddRow(n, t, p, s)
    PROVE  /\ NewId \in Ids
           /\ element' \in [Ids -> Row \cup {Absent}]
           /\ lastId' \in 0 .. MaxId
           /\ element' = [element EXCEPT ![NewId] =
                            [name |-> n, type |-> t, parent |-> p, status |-> s]]
<1>1. [name |-> n, type |-> t, parent |-> p, status |-> s] \in Row
  BY ElementAssumption DEF ElementAssumption, Row
<1>2. NewId \in Ids /\ lastId' \in 0 .. MaxId
  BY ElementAssumption DEF ElementAssumption, TypeOK, AddRow, NewId, Ids
<1> QED
  BY <1>1, <1>2 DEF TypeOK, AddRow

--------------------------------------------------------------------------------
(* Type correctness *)

LEMMA TypeInit == Init => TypeOK
<1> SUFFICES ASSUME Init PROVE TypeOK
  OBVIOUS
<1>1. PlainName(CHOOSE b \in Bases : TRUE) \in Name
  BY SomeBase, NameTypes
<1>2. reply \in Replies
  BY DEF Init, Reply, Replies, Ops
<1>3. element \in [Ids -> Row \cup {Absent}]
  BY DEF Init
<1>4. lastId \in 0 .. MaxId
  BY ElementAssumption DEF ElementAssumption, Init
<1>5. call \in [Clients -> [at : {"idle", "inserted"}, base : Bases, id : 0 .. MaxId]]
  BY SomeBase, <1>4 DEF Init, Idle
<1>6. asked \in [Ids -> [state : {"none", "pending", "ok", "failed"}, name : Name]]
  BY <1>1 DEF Init, NotAsked
<1> QED
  BY <1>2, <1>3, <1>4, <1>5, <1>6 DEF TypeOK

\* One step per action; the reply, the table and the calls are the parts an
\* action can disturb.
LEMMA TypeStep == TypeOK /\ [Next]_vars => TypeOK'
<1> SUFFICES ASSUME TypeOK, [Next]_vars PROVE TypeOK'
  OBVIOUS
<1> USE ElementAssumption DEF ElementAssumption
<1> DEFINE CallType == [at : {"idle", "inserted"}, base : Bases, id : 0 .. MaxId]
           AskedType == [state : {"none", "pending", "ok", "failed"}, name : Name]
<1>0. Idle \in CallType
  BY SomeBase DEF Idle
<1>1. ASSUME NEW c \in Clients, NEW n, NEW t, NEW p, InsertRefused(c, n, t, p)
      PROVE  TypeOK'
  BY <1>1 DEF InsertRefused, TypeOK, Reply, Replies, Ops
<1>2. ASSUME NEW c \in Clients, NEW n \in ExactNames, NEW t, NEW p \in Parents,
             NEW s \in Statuses, NEW o \in Outcomes, InsertExact(c, n, t, p, s, o)
      PROVE  TypeOK'
  <2>1. n \in Name /\ t \in ElementTypes
    BY <1>2, NameTypes DEF InsertExact, InputOk
  <2>2. CASE AddRow(n, t, p, s)
    <3>1. /\ NewId \in Ids
          /\ element' \in [Ids -> Row \cup {Absent}]
          /\ lastId' \in 0 .. MaxId
      BY <2>1, <2>2, AddRowTypes
    <3>2. asked' \in [Ids -> AskedType]
      <4>1. \/ asked' = asked
            \/ \E st \in {"ok", "failed"} :
                  asked' = [asked EXCEPT ![NewId] = [state |-> st, name |-> n]]
        BY <1>2 DEF InsertExact, InsertThrows, Told
      <4> QED
        BY <2>1, <3>1, <4>1 DEF TypeOK
    <3>3. reply' \in Replies
      <4>1. \E ok \in BOOLEAN, err \in {"none", "badinput", "internal"},
               rows \in {0, 1}, id \in {0, NewId} :
               reply' = Reply("insert", ok, err, rows, id)
        BY <1>2, Zenon DEF InsertExact, InsertThrows, InsertedSomething
      <4> QED
        BY <3>1, <4>1, ReplyTypes DEF Ids, Ops
    <3> QED
      BY <1>2, <3>1, <3>2, <3>3 DEF InsertExact, TypeOK
  <2>3. CASE UNCHANGED <<element, lastId, asked>>
    <3>1. reply' \in Replies
      <4>1. \E ok \in BOOLEAN, err \in {"none", "badinput", "internal"},
               rows \in {0, 1}, id \in {0, NewId} :
               reply' = Reply("insert", ok, err, rows, id)
        BY <1>2, Zenon DEF InsertExact, InsertThrows, InsertedSomething
      <4>2. NewId \in Nat
        BY DEF TypeOK, NewId
      <4> QED
        BY <4>1, <4>2, ReplyTypes DEF Ops
    <3> QED
      BY <1>2, <2>3, <3>1 DEF InsertExact, TypeOK
  <2> QED
    BY <1>2, <2>2, <2>3 DEF InsertExact, InsertThrows
<1>3. ASSUME NEW c \in Clients, NEW b \in Bases, NEW t, NEW p \in Parents,
             NEW s \in Statuses, NEW r \in RandValues, NEW o \in Outcomes,
             InsertTemp(c, b, t, p, s, r, o)
      PROVE  TypeOK'
  <2>1. /\ TempName(b, r) \in Name
        /\ t \in ElementTypes
        /\ AddRow(TempName(b, r), t, p, s)
    BY <1>3, NameTypes DEF InsertTemp, InputOk
  <2>2. /\ NewId \in Ids
        /\ element' \in [Ids -> Row \cup {Absent}]
        /\ lastId' \in 0 .. MaxId
    BY <2>1, AddRowTypes
  <2>3. NumberedName(b, NewId) \in Name
    BY <2>2, NameTypes DEF Ids
  <2>4. asked' \in [Ids -> AskedType]
    BY <1>3, <2>2, <2>3 DEF InsertTemp, TypeOK
  <2>5. call' \in [Clients -> CallType]
    <3>1. NewId \in 0 .. MaxId
      BY <2>2 DEF Ids
    <3>2. [at |-> "inserted", base |-> b, id |-> NewId] \in CallType
      BY <3>1
    <3> QED
      BY <1>3, <3>2 DEF InsertTemp, TypeOK, LastInsertId
  <2>6. reply' \in Replies
    <3>1. reply' = reply \/ reply' = Reply("insert", FALSE, "internal", 0, 0)
      <4>1. CASE Reported(o)
        BY <1>3, <4>1 DEF InsertTemp
      <4>2. CASE ~Reported(o)
        BY <1>3, <4>2 DEF InsertTemp
      <4> QED
        BY <4>1, <4>2
    <3>2. Reply("insert", FALSE, "internal", 0, 0) \in Replies
      BY DEF Reply, Replies, Ops
    <3> QED
      BY <3>1, <3>2 DEF TypeOK
  <2> QED
    BY <2>2, <2>4, <2>5, <2>6 DEF TypeOK
<1>4. ASSUME NEW c \in Clients, NEW b, NEW t, NEW p, NEW r, NEW o,
             InsertTempThrows(c, b, t, p, r, o)
      PROVE  TypeOK'
  BY <1>4 DEF InsertTempThrows, InsertThrows, TypeOK, Reply, Replies, Ops
<1>5. ASSUME NEW c \in Clients, NEW o \in Outcomes, RenameInserted(c, o)
      PROVE  TypeOK'
  <2> DEFINE i == call[c].id
             n == NumberedName(call[c].base, i)
  <2>1. i \in 0 .. MaxId /\ call[c].base \in Bases /\ n \in Name
    BY NameTypes DEF TypeOK
  <2>2. element' \in [Ids -> Row \cup {Absent}]
    <3> HIDE DEF n
    <3>1. CASE IsLive(i) /\ element' = [element EXCEPT ![i].name = n]
      BY <2>1, <3>1 DEF TypeOK, IsLive, Row
    <3>2. CASE element' = element
      BY <3>2 DEF TypeOK
    <3> QED
      BY <1>5, <3>1, <3>2 DEF RenameInserted, RenameTarget, n
  <2>3. reply' \in Replies
    BY <1>5, <2>1 DEF RenameInserted, RenameTarget, Reported, InsertedSomething,
                      Reply, Replies, Ops
  <2>4. asked' \in [Ids -> AskedType]
    BY <1>5, <2>1 DEF RenameInserted, TypeOK, Told
  <2>5. call' \in [Clients -> CallType]
    BY <1>0, <1>5 DEF RenameInserted, TypeOK, AfterRename
  <2> QED
    BY <1>5, <2>2, <2>3, <2>4, <2>5 DEF RenameInserted, TypeOK
<1>6. ASSUME NEW c \in Clients, Crash(c)
      PROVE  TypeOK'
  BY <1>0, <1>6 DEF Crash, TypeOK
<1>7. ASSUME NEW c \in Clients, NEW i \in Ids, NEW p \in Parents, NEW s \in Statuses,
             NEW o \in Outcomes, UpdateElement(c, i, p, s, o)
      PROVE  TypeOK'
  <2>1. element' \in [Ids -> Row \cup {Absent}]
    <3>1. CASE IsLive(i) /\ element' = [element EXCEPT ![i] =
                                 [element[i] EXCEPT !.parent = p, !.status = s]]
      BY <3>1, RowUpdateTypes DEF TypeOK, IsLive
    <3>2. CASE element' = element
      BY <3>2 DEF TypeOK
    <3> QED
      BY <1>7, <3>1, <3>2 DEF UpdateElement
  <2>2. reply' \in Replies
    BY <1>7 DEF UpdateElement, Reported, Reply, Replies, Ops, Ids
  <2> QED
    BY <1>7, <2>1, <2>2 DEF UpdateElement, TypeOK
<1>8. ASSUME NEW c \in Clients, NEW n, NEW s \in Statuses, NEW o \in Outcomes,
             UpdateStatusByName(c, n, s, o)
      PROVE  TypeOK'
  <2>1. element' \in [Ids -> Row \cup {Absent}]
    <3>1. \A i \in Live : [element[i] EXCEPT !.status = s] \in Row
      BY RowUpdateTypes DEF TypeOK, Live
    <3>2. \/ element' = element
          \/ \E hit \in SUBSET Live : element' =
                [i \in Ids |-> IF Took(o) /\ i \in hit
                              THEN [element[i] EXCEPT !.status = s] ELSE element[i]]
      <4> DEFINE hit == {i \in Live : element[i].name = n /\ element[i].status # s}
      <4>1. hit \in SUBSET Live
        OBVIOUS
      <4> QED
        BY <1>8, <4>1, Zenon DEF UpdateStatusByName
    <3> QED
      BY <3>1, <3>2 DEF TypeOK, Live
  <2>2. reply' \in Replies
    <3>1. \E ok \in BOOLEAN, err \in {"none", "badinput", "notunique", "thrown"} :
             reply' = Reply("status", ok, err, 0, 0)
      BY <1>8, Zenon DEF UpdateStatusByName
    <3> QED
      BY <3>1, ReplyTypes DEF Ops
  <2> QED
    BY <1>8, <2>1, <2>2 DEF UpdateStatusByName, TypeOK
<1>9. ASSUME NEW c \in Clients, NEW i \in Ids, NEW o \in Outcomes, DeleteElement(c, i, o)
      PROVE  TypeOK'
  <2>1. element' \in [Ids -> Row \cup {Absent}]
    BY <1>9 DEF DeleteElement, TypeOK
  <2>2. reply' \in Replies
    BY <1>9 DEF DeleteElement, Reported, Reply, Replies, Ops, Ids
  <2> QED
    BY <1>9, <2>1, <2>2 DEF DeleteElement, TypeOK
<1>10. CASE UNCHANGED vars
  BY <1>10 DEF vars, TypeOK
<1> QED
  BY <1>1, <1>2, <1>3, <1>4, <1>5, <1>6, <1>7, <1>8, <1>9, <1>10
  DEF Next, Insert, Rename, Change, Delete

\* The table, the counter, the calls and the replies keep their types whatever
\* the clients do.
THEOREM TypeCorrect == Spec => []TypeOK
BY TypeInit, TypeStep, PTL DEF Spec

--------------------------------------------------------------------------------
(* Every row carries the name its insert was asked for *)

\* RowNamedAsAsked is not inductive: that the UPDATE of an insert renames the
\* row of that insert needs CallsOwnTheirRows.
IInv == TypeOK /\ RowNamedAsAsked /\ CallsOwnTheirRows

LEMMA NameKinds ==
    /\ \A n \in ExactNames : OkName(n)
    /\ \A b, r : ~OkName(TempName(b, r)) /\ TempName(b, r).base = b
    /\ \A b, k : OkName(NumberedName(b, k)) /\ NumberedName(b, k).base = b
BY DEF ExactNames, OkName, PlainName, NumberedName, TempName

LEMMA IInvInit == Init => IInv
<1> SUFFICES ASSUME Init PROVE IInv
  OBVIOUS
<1>1. TypeOK
  BY TypeInit
<1>2. Live = {}
  BY DEF Init, Live
<1>3. RowNamedAsAsked
  BY <1>2 DEF RowNamedAsAsked
<1>4. CallsOwnTheirRows
  BY <1>2 DEF CallsOwnTheirRows, NamesUnique, HistoryFits, OwnsItsRow, Init,
                Ids, Live, IsLive, NotAsked, PlainName
<1> QED
  BY <1>1, <1>3, <1>4 DEF IInv

\* A step that starts and ends no insert, and leaves the names of the rows it
\* does not delete.
LEMMA NamesKept ==
    ASSUME IInv, UNCHANGED <<lastId, call, asked>>,
           \A i \in Ids : element'[i] # Absent =>
              element[i] # Absent /\ element'[i].name = element[i].name
    PROVE  RowNamedAsAsked' /\ CallsOwnTheirRows'
<1>1. RowNamedAsAsked'
  BY DEF IInv, RowNamedAsAsked, Live
<1>2. CallsOwnTheirRows'
  <2>1. \A i \in Ids : IsLive(i)' => IsLive(i)
    BY DEF IsLive
  <2>2. NamesUnique'
    BY DEF IInv, CallsOwnTheirRows, NamesUnique, Live
  <2>3. ASSUME NEW i \in Ids PROVE HistoryFits(i)'
    BY <2>1 DEF IInv, CallsOwnTheirRows, HistoryFits
  <2>4. ASSUME NEW c \in Clients PROVE OwnsItsRow(c)'
    BY <2>1 DEF IInv, CallsOwnTheirRows, OwnsItsRow, IsLive
  <2> QED
    BY <2>2, <2>3, <2>4 DEF CallsOwnTheirRows
<1> QED
  BY <1>1, <1>2

\* A client that is not inside a call owns no id.
LEMMA IdleOwnsNothing ==
    ASSUME IInv, NEW c \in Clients, call[c].at = "idle"
    PROVE  call[c] = Idle /\ call[c].id = 0
BY DEF IInv, CallsOwnTheirRows, OwnsItsRow, Idle

\* An insert whose one statement gives the row its final name.
LEMMA ExactStep ==
    ASSUME IInv, TypeOK', NEW n \in ExactNames, NEW t \in ElementTypes,
           NEW p \in Parents, NEW s \in Statuses, NEW st \in {"ok", "failed"},
           AddRow(n, t, p, s), ~NameTaken(n, 0), UNCHANGED call,
           asked' = [asked EXCEPT ![NewId] = [state |-> st, name |-> n]]
    PROVE  RowNamedAsAsked' /\ CallsOwnTheirRows'
<1>0. n \in Name /\ n.kind # "temp"
  BY NameTypes, NameKinds DEF OkName
<1>1. /\ NewId \in Ids
      /\ element' = [element EXCEPT ![NewId] =
                       [name |-> n, type |-> t, parent |-> p, status |-> s]]
  BY <1>0, AddRowTypes DEF IInv
<1>2. element[NewId] = Absent /\ lastId' = NewId /\ lastId' = lastId + 1 /\ lastId \in Nat
  BY <1>1 DEF IInv, TypeOK, CallsOwnTheirRows, HistoryFits, AddRow, NewId, IsLive
<1>3. /\ asked'[NewId].state = st /\ asked'[NewId].name = n
      /\ \A i \in Ids \ {NewId} : asked'[i] = asked[i]
  BY <1>1 DEF IInv, TypeOK
<1>4. /\ element'[NewId] # Absent /\ element'[NewId].name = n
      /\ \A i \in Ids \ {NewId} : element'[i] = element[i]
  BY <1>1, ElementAssumption, <1>0 DEF IInv, TypeOK, ElementAssumption, Row
<1>5. RowNamedAsAsked'
  BY <1>1, <1>3, <1>4 DEF IInv, RowNamedAsAsked, Live
<1>6. CallsOwnTheirRows'
  <2>1. NamesUnique'
    BY <1>1, <1>2, <1>4 DEF IInv, CallsOwnTheirRows, NamesUnique, Live, NameTaken, Ids
  <2>2. ASSUME NEW i \in Ids
        PROVE  HistoryFits(i)'
    <3>1. CASE i = NewId
      BY <3>1, <1>0, <1>2, <1>3 DEF HistoryFits, Ids
    <3>2. CASE i # NewId
      BY <3>2, <1>2, <1>3, <1>4 DEF IInv, CallsOwnTheirRows, HistoryFits, IsLive, Ids, NewId
    <3> QED
      BY <3>1, <3>2
  <2>4. ASSUME NEW c \in Clients, call'[c] = Idle
        PROVE  OwnsItsRow(c)'
    BY <2>4 DEF OwnsItsRow
  <2>3. ASSUME NEW c \in Clients, call'[c] # Idle
        PROVE  OwnsItsRow(c)'
    <3>1. call[c].id \in 1 .. lastId /\ call[c].id \in Ids \ {NewId}
      BY <2>3 DEF IInv, CallsOwnTheirRows, OwnsItsRow, TypeOK, Ids, NewId
    <3> QED
      BY <2>3, <3>1, <1>2, <1>3, <1>4 DEF IInv, CallsOwnTheirRows, OwnsItsRow, IsLive
  <2> QED
    BY <2>1, <2>2, <2>3, <2>4 DEF CallsOwnTheirRows
<1> QED
  BY <1>5, <1>6

\* The first of the two statements of an insert, whether or not its answer
\* reaches the caller.
LEMMA TempStep ==
    ASSUME IInv, TypeOK', NEW c \in Clients, NEW b \in Bases, NEW t, NEW p \in Parents,
           NEW s \in Statuses, NEW r \in RandValues, NEW o \in Outcomes,
           InsertTemp(c, b, t, p, s, r, o)
    PROVE  RowNamedAsAsked' /\ CallsOwnTheirRows'
<1> DEFINE n == TempName(b, r)
           final == NumberedName(b, NewId)
           st == IF Reported(o) THEN "pending" ELSE "failed"
<1>0. n \in Name /\ n.kind = "temp" /\ n.base = b /\ final.kind # "temp" /\ final.base = b
  BY NameTypes DEF TempName, NumberedName
<1>1. /\ t \in ElementTypes /\ AddRow(n, t, p, s) /\ ~NameTaken(n, 0)
      /\ asked' = [asked EXCEPT ![NewId] = [state |-> st, name |-> final]]
  BY DEF InsertTemp, InputOk
<1> HIDE DEF n, final
<1>2. /\ NewId \in Ids
      /\ element' = [element EXCEPT ![NewId] =
                       [name |-> n, type |-> t, parent |-> p, status |-> s]]
  BY <1>0, <1>1, AddRowTypes DEF IInv
<1>3. element[NewId] = Absent /\ lastId' = NewId /\ lastId' = lastId + 1 /\ lastId \in Nat
  BY <1>1, <1>2 DEF IInv, TypeOK, CallsOwnTheirRows, HistoryFits, AddRow, NewId, IsLive
<1>4. /\ asked'[NewId].state = st /\ asked'[NewId].name = final
      /\ \A i \in Ids \ {NewId} : asked'[i] = asked[i]
  BY <1>1, <1>2 DEF IInv, TypeOK
<1>5. /\ element'[NewId] # Absent /\ element'[NewId].name = n
      /\ \A i \in Ids \ {NewId} : element'[i] = element[i]
  BY <1>0, <1>1, <1>2, ElementAssumption DEF IInv, TypeOK, ElementAssumption, Row
<1>6. /\ call[c] = Idle
      /\ \A d \in Clients \ {c} : call'[d] = call[d]
      /\ IF Reported(o)
         THEN call'[c] = [at |-> "inserted", base |-> b, id |-> NewId]
         ELSE call'[c] = Idle
  BY IdleOwnsNothing DEF InsertTemp, LastInsertId, IInv, TypeOK
<1>7. \A d \in Clients : call[d].id # NewId
  <2> SUFFICES ASSUME NEW d \in Clients PROVE call[d].id # NewId
    OBVIOUS
  <2>1. call[d].id = 0 \/ call[d].id \in 1 .. lastId
    <3>1. Idle.id = 0
      BY DEF Idle
    <3>2. OwnsItsRow(d)
      BY DEF IInv, CallsOwnTheirRows
    <3> QED
      BY <3>1, <3>2 DEF OwnsItsRow
  <2> QED
    BY <2>1, <1>3
<1>8. RowNamedAsAsked'
  BY <1>0, <1>2, <1>4, <1>5 DEF IInv, RowNamedAsAsked, Live
<1>9. CallsOwnTheirRows'
  <2>1. NamesUnique'
    BY <1>1, <1>2, <1>3, <1>5 DEF IInv, CallsOwnTheirRows, NamesUnique, Live, NameTaken, Ids
  <2>2. ASSUME NEW i \in Ids
        PROVE  HistoryFits(i)'
    <3>1. CASE i = NewId
      BY <3>1, <1>0, <1>3, <1>4, <1>6 DEF HistoryFits, Ids
    <3>2. CASE i # NewId
      <4>1. asked[i].state = "pending" =>
               \E d \in Clients \ {c} : call[d].at = "inserted" /\ call[d].id = i
        BY <3>2, <1>6 DEF IInv, CallsOwnTheirRows, HistoryFits, Idle
      <4> QED
        BY <3>2, <4>1, <1>3, <1>4, <1>5, <1>6
        DEF IInv, CallsOwnTheirRows, HistoryFits, IsLive, Ids, NewId
    <3> QED
      BY <3>1, <3>2
  <2>4. ASSUME NEW d \in Clients, call'[d] = Idle
        PROVE  OwnsItsRow(d)'
    BY <2>4 DEF OwnsItsRow
  <2>3. ASSUME NEW d \in Clients, call'[d] # Idle
        PROVE  OwnsItsRow(d)'
    <3>1. CASE d = c
      <4>1. Reported(o) /\ call'[c] = [at |-> "inserted", base |-> b, id |-> NewId]
        BY <3>1, <2>3, <1>6
      <4> QED
        BY <3>1, <4>1, <1>0, <1>2, <1>3, <1>4, <1>5, <1>6, <1>7
        DEF OwnsItsRow, OkName, Ids, final
    <3>2. CASE d # c
      <4>1. call[d] = call'[d] /\ call[d].id \in 1 .. lastId /\ call[d].id \in Ids \ {NewId}
        BY <2>3, <3>2, <1>6 DEF IInv, CallsOwnTheirRows, OwnsItsRow, TypeOK, Ids, NewId
      <4>2. \A e \in Clients \ {d} : call'[e].id # call[d].id
        BY <4>1, <2>3, <1>6 DEF IInv, CallsOwnTheirRows, OwnsItsRow, Idle
      <4> QED
        BY <2>3, <4>1, <4>2, <1>3, <1>4, <1>5 DEF IInv, CallsOwnTheirRows, OwnsItsRow, IsLive
    <3> QED
      BY <3>1, <3>2
  <2> QED
    BY <2>1, <2>2, <2>3, <2>4 DEF CallsOwnTheirRows
<1> QED
  BY <1>8, <1>9

\* A call ends, by its second statement or by a crash: its row, if it is still
\* there, has its final name or keeps the temporary one.
LEMMA EndStep ==
    ASSUME IInv, NEW c \in Clients, call[c].at = "inserted",
           NEW k \in Nat, k = call[c].id, NEW st \in {"ok", "failed"},
           asked' = [asked EXCEPT ![k].state = st],
           call' = [call EXCEPT ![c] = Idle], UNCHANGED lastId,
           \/ element' = element /\ (st = "failed" \/ ~IsLive(k))
           \/ LET n == NumberedName(call[c].base, k) IN
              /\ IsLive(k) /\ ~NameTaken(n, k)
              /\ element' = [element EXCEPT ![k].name = n]
    PROVE  RowNamedAsAsked' /\ CallsOwnTheirRows'
<1> DEFINE n == NumberedName(call[c].base, k)
<1>1. /\ k \in Ids /\ k \in 1 .. lastId
      /\ asked[k].state = "pending" /\ asked[k].name = n
      /\ IsLive(k) => ~OkName(element[k].name)
      /\ \A d \in Clients \ {c} : call[d].id # k
  BY DEF IInv, CallsOwnTheirRows, OwnsItsRow, Idle, TypeOK, Ids
<1>2. n.kind # "temp" /\ n.base = call[c].base
  BY DEF NumberedName
<1> HIDE DEF n
<1>3. /\ asked'[k].state = st /\ asked'[k].name = n
      /\ \A i \in Ids : asked'[i].name = asked[i].name
      /\ \A i \in Ids \ {k} : asked'[i] = asked[i]
  BY <1>1 DEF IInv, TypeOK
<1>4. /\ call'[c] = Idle
      /\ \A d \in Clients \ {c} : call'[d] = call[d]
  BY DEF IInv, TypeOK
<1>5. /\ \A i \in Ids \ {k} : element'[i] = element[i]
      /\ \/ element'[k] = element[k] /\ (st = "failed" \/ ~IsLive(k))
         \/ /\ IsLive(k) /\ ~NameTaken(n, k)
            /\ element'[k] = [element[k] EXCEPT !.name = n]
  BY <1>1 DEF IInv, TypeOK, n
<1>6. /\ IsLive(k)' <=> IsLive(k)
      /\ IsLive(k) => \/ element'[k].name = element[k].name /\ st = "failed"
                      \/ element'[k].name = n /\ ~NameTaken(n, k)
  <2>1. IsLive(k) => [element[k] EXCEPT !.name = n] \in Row
                     /\ [element[k] EXCEPT !.name = n].name = n
    <3>1. n \in Name
      BY <1>1 DEF IInv, TypeOK
    <3> QED
      BY <3>1 DEF IInv, TypeOK, IsLive, Row
  <2> QED
    BY <1>1, <1>5, <2>1, ElementAssumption DEF IsLive, ElementAssumption
<1>7. RowNamedAsAsked'
  <2>1. ASSUME NEW i \in Ids, element'[i] # Absent
        PROVE  \/ /\ asked'[i].state \in {"ok", "failed"}
                  /\ element'[i].name = asked'[i].name
               \/ /\ asked'[i].state \in {"pending", "failed"}
                  /\ element'[i].name.kind = "temp"
                  /\ element'[i].name.base = asked'[i].name.base
    <3>1. CASE i = k
      BY <2>1, <3>1, <1>1, <1>3, <1>6 DEF IInv, RowNamedAsAsked, Live, IsLive
    <3>2. CASE i # k
      BY <2>1, <3>2, <1>3, <1>5 DEF IInv, RowNamedAsAsked, Live
    <3> QED
      BY <3>1, <3>2
  <2> QED
    BY <2>1 DEF RowNamedAsAsked, Live
<1>8. CallsOwnTheirRows'
  <2>1. NamesUnique'
    BY <1>1, <1>5, <1>6 DEF IInv, CallsOwnTheirRows, NamesUnique, Live, IsLive, NameTaken
  <2>2. ASSUME NEW i \in Ids
        PROVE  HistoryFits(i)'
    <3>1. CASE i = k
      BY <3>1, <1>1, <1>2, <1>3 DEF IInv, TypeOK, HistoryFits, Ids
    <3>2. CASE i # k
      BY <3>2, <1>3, <1>4, <1>5 DEF IInv, CallsOwnTheirRows, HistoryFits, IsLive
    <3> QED
      BY <3>1, <3>2
  <2>4. ASSUME NEW d \in Clients, call'[d] = Idle
        PROVE  OwnsItsRow(d)'
    BY <2>4 DEF OwnsItsRow
  <2>3. ASSUME NEW d \in Clients, call'[d] # Idle
        PROVE  OwnsItsRow(d)'
    <3>1. d # c /\ call'[d] = call[d] /\ call[d].id # k
          /\ call[d].id \in 1 .. lastId /\ call[d].id \in Ids
      BY <2>3, <1>1, <1>4 DEF IInv, CallsOwnTheirRows, OwnsItsRow, TypeOK, Ids
    <3>2. \A e \in Clients \ {d} : call'[e].id # call[d].id
      BY <3>1, <2>3, <1>4 DEF IInv, CallsOwnTheirRows, OwnsItsRow, Idle
    <3> QED
      BY <2>3, <3>1, <3>2, <1>3, <1>5 DEF IInv, CallsOwnTheirRows, OwnsItsRow, IsLive
  <2> QED
    BY <2>1, <2>2, <2>3, <2>4 DEF CallsOwnTheirRows
<1> QED
  BY <1>7, <1>8

LEMMA IInvStep == IInv /\ [Next]_vars => IInv'
<1> SUFFICES ASSUME IInv, [Next]_vars PROVE IInv'
  OBVIOUS
<1> DEFINE Names2 == RowNamedAsAsked' /\ CallsOwnTheirRows'
<1>0. TypeOK'
  BY TypeStep DEF IInv
<1>1. ASSUME NEW c \in Clients, NEW n, NEW t, NEW p, InsertRefused(c, n, t, p)
      PROVE  Names2
  BY <1>1, NamesKept DEF InsertRefused
<1>2. ASSUME NEW c \in Clients, NEW n \in ExactNames, NEW t, NEW p \in Parents,
             NEW s \in Statuses, NEW o \in Outcomes, InsertExact(c, n, t, p, s, o)
      PROVE  Names2
  <2>1. CASE UNCHANGED <<element, lastId, asked>>
    BY <1>2, <2>1, NamesKept DEF InsertExact
  <2>2. CASE ~UNCHANGED <<element, lastId, asked>>
    <3>1. /\ t \in ElementTypes
          /\ ~NameTaken(n, 0) /\ AddRow(n, t, p, s) /\ UNCHANGED call
      BY <1>2, <2>2 DEF InsertExact, InputOk, InsertThrows
    <3>2. \E st \in {"ok", "failed"} :
             asked' = [asked EXCEPT ![NewId] = [state |-> st, name |-> n]]
      BY <1>2, <2>2 DEF InsertExact, InsertThrows, Told
    <3> QED
      BY <1>0, <3>1, <3>2, ExactStep
  <2> QED
    BY <2>1, <2>2
<1>3. ASSUME NEW c \in Clients, NEW b \in Bases, NEW t, NEW p \in Parents,
             NEW s \in Statuses, NEW r \in RandValues, NEW o \in Outcomes,
             InsertTemp(c, b, t, p, s, r, o)
      PROVE  Names2
  BY <1>0, <1>3, TempStep
<1>4. ASSUME NEW c \in Clients, NEW b, NEW t, NEW p, NEW r, NEW o,
             InsertTempThrows(c, b, t, p, r, o)
      PROVE  Names2
  BY <1>4, NamesKept DEF InsertTempThrows, InsertThrows
<1>5. ASSUME NEW c \in Clients, NEW o \in Outcomes, RenameInserted(c, o)
      PROVE  Names2
  <2> DEFINE i == call[c].id
             n == NumberedName(call[c].base, i)
             clash == IsLive(i) /\ NameTaken(n, i)
             ok == Reported(o) /\ ~clash /\ InsertedSomething(1)
  <2>1. /\ call[c].at = "inserted" /\ UNCHANGED lastId /\ i \in Nat
        /\ call' = [call EXCEPT ![c] = Idle]
    BY <1>5 DEF RenameInserted, AfterRename, IInv, TypeOK
  <2>2. asked' = [asked EXCEPT ![i].state = Told(ok)] /\ Told(ok) \in {"ok", "failed"}
    BY <1>5 DEF RenameInserted, RenameTarget, Told
  <2>3. /\ Told(ok) = "failed" \/ (Took(o) /\ ~clash)
        /\ element' = IF IsLive(i) /\ ~clash /\ Took(o)
                      THEN [element EXCEPT ![i].name = n] ELSE element
    BY <1>5 DEF RenameInserted, RenameTarget, Told, Took, Reported
  <2>4. \/ element' = element /\ (Told(ok) = "failed" \/ ~IsLive(i))
        \/ /\ IsLive(i) /\ ~NameTaken(n, i)
           /\ element' = [element EXCEPT ![i].name = n]
    BY <2>3
  <2> HIDE DEF ok
  <2> QED
    BY <2>1, <2>2, <2>4, EndStep
<1>6. ASSUME NEW c \in Clients, Crash(c)
      PROVE  Names2
  <2>1. call[c].id \in Nat
    BY DEF IInv, TypeOK
  <2> QED
    BY <1>6, <2>1, EndStep DEF Crash
<1>7. ASSUME NEW c \in Clients, NEW i \in Ids, NEW p \in Parents, NEW s \in Statuses,
             NEW o \in Outcomes, UpdateElement(c, i, p, s, o)
      PROVE  Names2
  <2>1. \A j \in Ids : element'[j] # Absent =>
           element[j] # Absent /\ element'[j].name = element[j].name
    <3>1. CASE element' = element
      BY <3>1
    <3>2. CASE IsLive(i) /\ element' = [element EXCEPT ![i] =
                                 [element[i] EXCEPT !.parent = p, !.status = s]]
      <4>1. [element[i] EXCEPT !.parent = p, !.status = s].name = element[i].name
        BY <3>2 DEF IInv, TypeOK, IsLive, Row
      <4> QED
        BY <3>2, <4>1 DEF IInv, TypeOK, IsLive
    <3> QED
      BY <1>7, <3>1, <3>2 DEF UpdateElement
  <2> QED
    BY <1>7, <2>1, NamesKept DEF UpdateElement
<1>8. ASSUME NEW c \in Clients, NEW n, NEW s \in Statuses, NEW o \in Outcomes,
             UpdateStatusByName(c, n, s, o)
      PROVE  Names2
  <2>1. ASSUME NEW j \in Ids, element'[j] # Absent
        PROVE  element[j] # Absent /\ element'[j].name = element[j].name
    <3>1. \/ element'[j] = element[j]
          \/ j \in Live /\ element'[j] = [element[j] EXCEPT !.status = s]
      BY <1>8 DEF UpdateStatusByName
    <3>2. j \in Live => [element[j] EXCEPT !.status = s].name = element[j].name
      BY DEF IInv, TypeOK, Live, Row
    <3> QED
      BY <2>1, <3>1, <3>2 DEF Live
  <2> QED
    BY <1>8, <2>1, NamesKept DEF UpdateStatusByName
<1>9. ASSUME NEW c \in Clients, NEW i \in Ids, NEW o \in Outcomes, DeleteElement(c, i, o)
      PROVE  Names2
  <2>1. \/ element' = element
        \/ element' = [element EXCEPT ![i] = Absent]
    BY <1>9 DEF DeleteElement
  <2>2. \A j \in Ids : element'[j] # Absent => element'[j] = element[j]
    BY <2>1 DEF IInv, TypeOK
  <2> QED
    BY <1>9, <2>2, NamesKept DEF DeleteElement
<1>10. ASSUME UNCHANGED vars PROVE Names2
  BY <1>10, NamesKept DEF vars
<1>11. Names2
  <2> HIDE DEF Names2
  <2>1. ASSUME NEW c \in Clients, Insert(c) PROVE Names2
    BY <2>1, <1>1, <1>2, <1>3, <1>4 DEF Insert
  <2>2. ASSUME NEW c \in Clients, Rename(c) \/ Crash(c) PROVE Names2
    BY <2>2, <1>5, <1>6 DEF Rename
  <2>3. ASSUME NEW c \in Clients, Change(c) \/ Delete(c) PROVE Names2
    BY <2>3, <1>7, <1>8, <1>9 DEF Change, Delete
  <2> QED
    BY <2>1, <2>2, <2>3, <1>10 DEF Next
<1> QED
  BY <1>0, <1>11 DEF IInv

LEMMA IInvHolds == Spec => []IInv
BY IInvInit, IInvStep, PTL DEF Spec

\* Every row of the table carries the name its own insert was asked for, or the
\* temporary name of the same base while that insert has not succeeded.
THEOREM RowsNamedAsAsked == Spec => []RowNamedAsAsked
BY IInvHolds, PTL DEF IInv

\* Names stay unique, and every client inside insert_into_asset_element alone
\* owns the row it is about to rename.
THEOREM CallsOwnRows == Spec => []CallsOwnTheirRows
BY IInvHolds, PTL DEF IInv

\* A row under a temporary name belongs to exactly one unfinished insert, or to
\* one that has failed.
THEOREM TempRowsOwned == Spec => []TempRowHasOneOwner
<1>1. IInv => TempRowHasOneOwner
  <2> SUFFICES ASSUME IInv, NEW i \in Live, element[i].name.kind = "temp",
                      asked[i].state # "failed"
               PROVE  \E c \in Clients : /\ call[c].at = "inserted" /\ call[c].id = i
                                         /\ \A d \in Clients \ {c} : call[d].id # i
    BY DEF TempRowHasOneOwner
  <2>1. i \in Ids /\ HistoryFits(i) /\ IsLive(i)
    BY DEF IInv, CallsOwnTheirRows, Live, IsLive
  <2>2. asked[i].state = "pending"
    BY <2>1 DEF IInv, RowNamedAsAsked, HistoryFits
  <2>3. PICK c \in Clients : call[c].at = "inserted" /\ call[c].id = i
    BY <2>1, <2>2 DEF HistoryFits
  <2>4. OwnsItsRow(c) /\ call[c] # Idle
    BY <2>3 DEF IInv, CallsOwnTheirRows, Idle
  <2> QED
    BY <2>3, <2>4 DEF OwnsItsRow
<1> QED
  BY <1>1, IInvHolds, PTL

--------------------------------------------------------------------------------
(* An insert that reported an error has published nothing *)

FailedIsTemp == \A i \in Live : asked[i].state = "failed" => element[i].name.kind = "temp"

\* A step that fails no row that it leaves under its final name.
LEMMA FailedKept ==
    ASSUME FailedIsTemp,
           \A i \in Ids : element'[i] # Absent /\ asked'[i].state = "failed" =>
              \/ element'[i].name.kind = "temp"
              \/ /\ element[i] # Absent /\ asked[i].state = "failed"
                 /\ element'[i].name = element[i].name
    PROVE  FailedIsTemp'
BY DEF FailedIsTemp, Live

\* Only a call's own two statements and its crash touch what its caller was told.
LEMMA OthersKeepNames ==
    ASSUME IInv,
           \/ \E c \in Clients : Change(c) \/ Delete(c)
           \/ UNCHANGED <<element, asked>>
    PROVE  /\ asked' = asked
           /\ \A i \in Ids : element'[i] # Absent =>
                 element[i] # Absent /\ element'[i].name = element[i].name
<1>1. ASSUME NEW c \in Clients, NEW k \in Ids, NEW p \in Parents, NEW s \in Statuses,
             NEW o \in Outcomes, UpdateElement(c, k, p, s, o), NEW i \in Ids,
             element'[i] # Absent
      PROVE  asked' = asked /\ element[i] # Absent /\ element'[i].name = element[i].name
  <2>1. \/ element' = element
        \/ IsLive(k) /\ element' = [element EXCEPT ![k] =
                                      [element[k] EXCEPT !.parent = p, !.status = s]]
    BY <1>1 DEF UpdateElement
  <2>2. IsLive(k) => [element[k] EXCEPT !.parent = p, !.status = s].name = element[k].name
    BY DEF IInv, TypeOK, IsLive, Row
  <2> QED
    BY <1>1, <2>1, <2>2 DEF IInv, TypeOK, IsLive, UpdateElement
<1>2. ASSUME NEW c \in Clients, NEW n, NEW s \in Statuses, NEW o \in Outcomes,
             UpdateStatusByName(c, n, s, o), NEW i \in Ids, element'[i] # Absent
      PROVE  asked' = asked /\ element[i] # Absent /\ element'[i].name = element[i].name
  <2>1. \/ element'[i] = element[i]
        \/ i \in Live /\ element'[i] = [element[i] EXCEPT !.status = s]
    BY <1>2 DEF UpdateStatusByName
  <2>2. i \in Live => [element[i] EXCEPT !.status = s].name = element[i].name
    BY DEF IInv, TypeOK, Live, Row
  <2> QED
    BY <1>2, <2>1, <2>2 DEF Live, UpdateStatusByName
<1>3. ASSUME NEW c \in Clients, NEW k \in Ids, NEW o \in Outcomes, DeleteElement(c, k, o),
             NEW i \in Ids, element'[i] # Absent
      PROVE  asked' = asked /\ element[i] # Absent /\ element'[i].name = element[i].name
  BY <1>3 DEF DeleteElement, IInv, TypeOK
<1>4. ASSUME NEW c \in Clients, Change(c)
      PROVE  asked' = asked
  <2>1. ASSUME NEW k \in Ids, NEW p \in Parents, NEW s \in Statuses, NEW o \in Outcomes,
               UpdateElement(c, k, p, s, o)
        PROVE  asked' = asked
    BY <2>1, Zenon DEF UpdateElement
  <2>2. ASSUME NEW n, NEW s \in Statuses, NEW o \in Outcomes, UpdateStatusByName(c, n, s, o)
        PROVE  asked' = asked
    BY <2>2, Zenon DEF UpdateStatusByName
  <2> QED
    BY <1>4, <2>1, <2>2, Zenon DEF Change
<1>5. ASSUME NEW c \in Clients, Delete(c)
      PROVE  asked' = asked
  BY <1>5, Zenon DEF Delete, DeleteElement
<1> QED
  BY <1>1, <1>2, <1>3, <1>4, <1>5, Zenon DEF Change, Delete

LEMMA EndedIsTemp ==
    ASSUME IInv, FailedIsTemp, NEW c \in Clients, call[c].at = "inserted",
           NEW k, k = call[c].id, NEW st,
           asked' = [asked EXCEPT ![k].state = st],
           \/ element' = element
           \/ st = "ok" /\ \A i \in Ids \ {k} : element'[i] = element[i]
    PROVE  FailedIsTemp'
<1>1. k \in Ids /\ (IsLive(k) => element[k].name.kind = "temp")
  BY DEF IInv, CallsOwnTheirRows, OwnsItsRow, Idle, TypeOK, Ids, OkName
<1>2. asked'[k].state = st /\ \A i \in Ids \ {k} : asked'[i] = asked[i]
  BY <1>1 DEF IInv, TypeOK
<1> QED
  BY <1>1, <1>2, FailedKept DEF IsLive

LEMMA FailedStep ==
    ASSUME "lost" \notin Outcomes, IInv, TypeOK', FailedIsTemp, [Next]_vars
    PROVE  FailedIsTemp'
<1>0. \A o \in Outcomes : Took(o) <=> Reported(o)
  BY ElementAssumption DEF ElementAssumption, Took, Reported
<1>1. ASSUME UNCHANGED <<element, asked>> PROVE FailedIsTemp'
  BY <1>1, FailedKept
<1>2. ASSUME NEW c \in Clients, NEW n \in ExactNames, NEW t, NEW p \in Parents,
             NEW s \in Statuses, NEW o \in Outcomes, InsertExact(c, n, t, p, s, o)
      PROVE  FailedIsTemp'
  <2>1. CASE UNCHANGED <<element, asked>>
    BY <1>1, <2>1
  <2>2. CASE ~UNCHANGED <<element, asked>>
    <3>1. /\ Took(o) /\ t \in ElementTypes /\ AddRow(n, t, p, s)
          /\ asked' = [asked EXCEPT ![NewId] =
                         [state |-> Told(Reported(o) /\ InsertedSomething(1)), name |-> n]]
      BY <1>2, <2>2 DEF InsertExact, InputOk, InsertThrows
    <3>2. NewId \in Ids /\ \A i \in Ids \ {NewId} : element'[i] = element[i]
      BY <3>1, AddRowTypes, NameTypes DEF IInv, TypeOK
    <3>3. Told(Reported(o) /\ InsertedSomething(1)) = "ok"
      BY <1>0, <3>1 DEF Told, InsertedSomething
    <3>4. asked'[NewId].state = "ok" /\ \A i \in Ids \ {NewId} : asked'[i] = asked[i]
      BY <3>1, <3>2, <3>3 DEF IInv, TypeOK
    <3> QED
      BY <3>2, <3>4, FailedKept
  <2> QED
    BY <2>1, <2>2
<1>3. ASSUME NEW c \in Clients, NEW b \in Bases, NEW t, NEW p \in Parents,
             NEW s \in Statuses, NEW r \in RandValues, NEW o \in Outcomes,
             InsertTemp(c, b, t, p, s, r, o)
      PROVE  FailedIsTemp'
  <2>1. t \in ElementTypes /\ AddRow(TempName(b, r), t, p, s) /\ TempName(b, r) \in Name
    BY <1>3, NameTypes DEF InsertTemp, InputOk
  <2>2. /\ NewId \in Ids /\ element'[NewId].name = TempName(b, r)
        /\ \A i \in Ids \ {NewId} : element'[i] = element[i]
    BY <2>1, AddRowTypes DEF IInv, TypeOK
  <2>3. \A i \in Ids \ {NewId} : asked'[i] = asked[i]
    BY <1>3 DEF InsertTemp, IInv, TypeOK
  <2>4. TempName(b, r).kind = "temp"
    BY DEF TempName
  <2> QED
    BY <2>2, <2>3, <2>4, FailedKept
<1>4. ASSUME NEW c \in Clients, NEW o \in Outcomes, RenameInserted(c, o)
      PROVE  FailedIsTemp'
  <2> DEFINE k == call[c].id
             n == NumberedName(call[c].base, k)
             clash == IsLive(k) /\ NameTaken(n, k)
             ok == Reported(o) /\ ~clash /\ InsertedSomething(1)
  <2>1. /\ call[c].at = "inserted" /\ asked' = [asked EXCEPT ![k].state = Told(ok)]
        /\ element' = IF IsLive(k) /\ ~clash /\ Took(o)
                      THEN [element EXCEPT ![k].name = n] ELSE element
    BY <1>4 DEF RenameInserted, RenameTarget
  <2>2. Took(o) /\ ~clash => Told(ok) = "ok"
    BY <1>0 DEF Told, InsertedSomething
  <2> HIDE DEF ok, clash, n
  <2>3. \/ element' = element
        \/ Told(ok) = "ok" /\ \A i \in Ids \ {k} : element'[i] = element[i]
    BY <2>1, <2>2 DEF IInv, TypeOK
  <2> QED
    BY <2>1, <2>3, EndedIsTemp
<1>5. ASSUME NEW c \in Clients, Crash(c) PROVE FailedIsTemp'
  BY <1>5, EndedIsTemp DEF Crash
<1>6. ASSUME NEW c \in Clients, Change(c) \/ Delete(c) PROVE FailedIsTemp'
  BY <1>6, OthersKeepNames, FailedKept
<1>7. ASSUME NEW c \in Clients, Insert(c) PROVE FailedIsTemp'
  BY <1>1, <1>2, <1>3, <1>7 DEF Insert, InsertRefused, InsertTempThrows, InsertThrows
<1> QED
  BY <1>1, <1>4, <1>5, <1>6, <1>7 DEF Next, Rename, vars

\* While no answer is lost with the connection, a row whose insert reported an
\* error, or whose client died, is never seen under a final name.
THEOREM ErrorsUnpublished == Spec => []ErrorMeansUnpublished
<1>1. CASE "lost" \notin Outcomes
  <2>1. Init => FailedIsTemp
    BY DEF Init, FailedIsTemp, Live
  <2>2. IInv /\ IInv' /\ FailedIsTemp /\ [Next]_vars => FailedIsTemp'
    BY <1>1, FailedStep DEF IInv
  <2>3. FailedIsTemp => ErrorMeansUnpublished
    BY DEF FailedIsTemp, ErrorMeansUnpublished
  <2> QED
    BY <2>1, <2>2, <2>3, IInvHolds, PTL DEF Spec
<1>2. CASE "lost" \in Outcomes
  <2>1. ErrorMeansUnpublished
    BY <1>2 DEF ErrorMeansUnpublished
  <2> QED
    BY <2>1, PTL
<1> QED
  BY <1>1, <1>2

--------------------------------------------------------------------------------
(* AssetElement implements AssetRegistry: a step of the table either is one     *)
(* step of the registry or is invisible in it                                   *)

Gone == {i \in 1 .. lastId : ~IsLive(i)}

\* A step that changes no final name and spends no identifier is invisible.
LEMMA Invisible ==
    ASSUME \A i \in Ids : FinalName(i)' = FinalName(i), Gone' = Gone
    PROVE  UNCHANGED Registry!rvars
BY DEF Registry!rvars, Gone

\* A step that leaves the names and the presence of all rows is invisible.
LEMMA NamesSame ==
    ASSUME UNCHANGED lastId,
           \A i \in Ids : /\ (element'[i] # Absent) <=> (element[i] # Absent)
                          /\ element[i] # Absent => element'[i].name = element[i].name
    PROVE  UNCHANGED Registry!rvars
<1>1. \A i \in Ids : FinalName(i)' = FinalName(i)
  BY DEF FinalName, IsLive
<1>2. Gone' = Gone
  BY DEF Gone, IsLive
<1> QED
  BY <1>1, <1>2, Invisible

\* A step that gives one identifier its final name publishes it.
LEMMA Publishes ==
    ASSUME NEW k \in Ids, NEW n \in Name,
           FinalName(k) = Absent, k \notin Gone, FinalName(k)' = n,
           \A j \in Ids \ {k} : FinalName(j)' = FinalName(j) /\ FinalName(j) # n,
           Gone' = Gone
    PROVE  Registry!RegistryNext
<1>1. n # Absent
  BY ElementAssumption DEF ElementAssumption
<1> DEFINE pub == [i \in Ids |-> FinalName(i)]
<1>2. pub[k] = Absent /\ pub'[k] = n
  OBVIOUS
<1>3. \A j \in {i \in Ids : pub[i] # Absent} : pub[j] # pub'[k]
  BY <1>1, <1>2
<1>4. pub' = [pub EXCEPT ![k] = pub'[k]]
  OBVIOUS
<1>5. Registry!Publish(k)
  BY <1>2, <1>3, <1>4 DEF Registry!Publish, Registry!Published, Gone
<1> QED
  BY <1>5 DEF Registry!RegistryNext

\* The row an insert adds is the only one it changes, its identifier was never
\* spent and is not spent by it.
LEMMA AddedRow ==
    ASSUME IInv, IInv', NEW n \in Name, NEW t \in ElementTypes, NEW p \in Parents,
           NEW s \in Statuses, AddRow(n, t, p, s)
    PROVE  /\ NewId \in Ids /\ NewId \notin Gone /\ FinalName(NewId) = Absent
           /\ element'[NewId] # Absent /\ element'[NewId].name = n
           /\ \A i \in Ids \ {NewId} : FinalName(i)' = FinalName(i)
           /\ Gone' = Gone
<1>1. /\ NewId \in Ids
      /\ element' = [element EXCEPT ![NewId] =
                       [name |-> n, type |-> t, parent |-> p, status |-> s]]
  BY AddRowTypes DEF IInv
<1>2. NewId = lastId + 1 /\ lastId' = lastId + 1 /\ lastId \in Nat
  BY DEF AddRow, NewId, IInv, TypeOK
<1>3. element[NewId] = Absent
  BY <1>1, <1>2 DEF IInv, CallsOwnTheirRows, HistoryFits, IsLive
<1>4. element'[NewId] # Absent /\ element'[NewId].name = n
  <2>1. [name |-> n, type |-> t, parent |-> p, status |-> s] \in Row
    BY ElementAssumption DEF ElementAssumption, Row
  <2> QED
    BY <1>1, <2>1, ElementAssumption DEF ElementAssumption, IInv, TypeOK
<1>5. \A i \in Ids \ {NewId} : element'[i] = element[i]
  BY <1>1 DEF IInv, TypeOK
<1>6. NewId \notin Gone /\ FinalName(NewId) = Absent
  BY <1>2, <1>3 DEF Gone, FinalName, IsLive
<1>7. \A i \in Ids \ {NewId} : FinalName(i)' = FinalName(i)
  BY <1>5 DEF FinalName, IsLive
<1>8. Gone' = Gone
  <2>1. 1 .. lastId' = (1 .. lastId) \cup {NewId}
    BY <1>2
  <2>2. \A i \in 1 .. lastId : element'[i] = element[i] /\ i \in Ids
    <3>1. \A i \in 1 .. lastId : i \in Ids /\ i # NewId
      BY <1>2, ElementAssumption DEF ElementAssumption, Ids, IInv, TypeOK
    <3> QED
      BY <3>1, <1>5
  <2> QED
    BY <1>1, <1>4, <2>1, <2>2 DEF Gone, IsLive
<1> QED
  BY <1>1, <1>4, <1>6, <1>7, <1>8

LEMMA RefinementInit == Init => Registry!RegistryInit
<1> SUFFICES ASSUME Init PROVE Registry!RegistryInit
  OBVIOUS
<1>1. \A i \in Ids : FinalName(i) = Absent
  BY DEF Init, FinalName, IsLive
<1>2. Gone = {}
  BY DEF Init, Gone
<1> QED
  BY <1>1, <1>2 DEF Registry!RegistryInit, Gone

LEMMA RefinementStep ==
    IInv /\ IInv' /\ [Next]_vars => [Registry!RegistryNext]_(Registry!rvars)
<1> SUFFICES ASSUME IInv, IInv', [Next]_vars
             PROVE  Registry!RegistryNext \/ UNCHANGED Registry!rvars
  OBVIOUS
<1> DEFINE Mapped == Registry!RegistryNext \/ UNCHANGED Registry!rvars
<1>1. ASSUME UNCHANGED <<element, lastId>>
      PROVE  Mapped
  BY <1>1, NamesSame
<1>2. ASSUME NEW c \in Clients, NEW n \in ExactNames, NEW t, NEW p \in Parents,
             NEW s \in Statuses, NEW o \in Outcomes, InsertExact(c, n, t, p, s, o)
      PROVE  Mapped
  <2>1. CASE UNCHANGED <<element, lastId, asked>>
    BY <2>1, <1>1
  <2>2. CASE ~UNCHANGED <<element, lastId, asked>>
    <3>1. t \in ElementTypes /\ ~NameTaken(n, 0) /\ AddRow(n, t, p, s)
      BY <1>2, <2>2 DEF InsertExact, InputOk, InsertThrows
    <3>2. n \in Name /\ OkName(n)
      BY NameTypes, NameKinds
    <3>3. \A j \in Ids \ {NewId} : FinalName(j) # n
      BY <3>1, <3>2, ElementAssumption
      DEF ElementAssumption, NameTaken, FinalName, Live, IsLive, Ids
    <3>4. /\ NewId \in Ids /\ NewId \notin Gone /\ FinalName(NewId) = Absent
          /\ element'[NewId] # Absent /\ element'[NewId].name = n
          /\ \A i \in Ids \ {NewId} : FinalName(i)' = FinalName(i)
          /\ Gone' = Gone
      BY <3>1, <3>2, AddedRow
    <3>5. ASSUME NEW k \in Ids, k = NewId PROVE FinalName(k)' = n
      BY <3>2, <3>4, <3>5 DEF FinalName, IsLive
    <3>6. PICK k \in Ids : k = NewId
      BY <3>4
    <3> QED
      BY <3>2, <3>3, <3>4, <3>5, <3>6, Publishes
  <2> QED
    BY <2>1, <2>2
<1>3. ASSUME NEW c \in Clients, NEW b \in Bases, NEW t, NEW p \in Parents,
             NEW s \in Statuses, NEW r \in RandValues, NEW o \in Outcomes,
             InsertTemp(c, b, t, p, s, r, o)
      PROVE  Mapped
  <2> DEFINE n == TempName(b, r)
  <2>1. n \in Name /\ ~OkName(n) /\ t \in ElementTypes /\ AddRow(n, t, p, s)
    BY <1>3, NameTypes, NameKinds DEF InsertTemp, InputOk
  <2> HIDE DEF n
  <2>2. /\ NewId \in Ids /\ FinalName(NewId) = Absent
        /\ element'[NewId] # Absent /\ element'[NewId].name = n
        /\ \A i \in Ids \ {NewId} : FinalName(i)' = FinalName(i)
        /\ Gone' = Gone
    BY <2>1, AddedRow
  <2>3. ASSUME NEW k \in Ids PROVE FinalName(k)' = FinalName(k)
    <3>1. CASE k = NewId
      BY <3>1, <2>1, <2>2 DEF FinalName
    <3> QED
      BY <3>1, <2>2
  <2> QED
    BY <2>2, <2>3, Invisible
<1>4. ASSUME NEW c \in Clients, NEW o \in Outcomes, RenameInserted(c, o)
      PROVE  Mapped
  <2>1. call[c].at = "inserted" /\ UNCHANGED lastId /\ OwnsItsRow(c) /\ call[c] # Idle
    BY <1>4 DEF RenameInserted, IInv, CallsOwnTheirRows, Idle
  <2>2. PICK k \in Ids : k = call[c].id
    BY <2>1, ElementAssumption DEF ElementAssumption, OwnsItsRow, IInv, TypeOK, Ids
  <2>3. PICK n \in Name : n = NumberedName(call[c].base, k)
    BY <2>2, NameTypes DEF IInv, TypeOK, Ids
  <2>4. OkName(n)
    BY <2>3, NameKinds
  <2>5. \/ element' = element
        \/ /\ IsLive(k) /\ ~NameTaken(n, k)
           /\ element' = [element EXCEPT ![k].name = n]
    BY <1>4, <2>2, <2>3 DEF RenameInserted, RenameTarget
  <2>6. CASE element' = element
    BY <2>1, <2>6, <1>1
  <2>7. CASE /\ IsLive(k) /\ ~NameTaken(n, k)
             /\ element' = [element EXCEPT ![k].name = n]
    <3>1. ~OkName(element[k].name)
      BY <2>1, <2>2, <2>7 DEF OwnsItsRow
    <3>2. element'[k] # Absent /\ element'[k].name = n
      BY <2>7, RowUpdateTypes, ElementAssumption
      DEF ElementAssumption, IInv, TypeOK, IsLive, Row
    <3>3. \A j \in Ids \ {k} : element'[j] = element[j]
      BY <2>7 DEF IInv, TypeOK
    <3>4. FinalName(k) = Absent /\ FinalName(k)' = n
      BY <2>4, <3>1, <3>2 DEF FinalName, IsLive
    <3>5. \A j \in Ids \ {k} : FinalName(j)' = FinalName(j) /\ FinalName(j) # n
      BY <2>7, <3>3, ElementAssumption
      DEF ElementAssumption, NameTaken, FinalName, Live, IsLive
    <3>6. k \notin Gone /\ Gone' = Gone
      BY <2>1, <2>7, <3>2, <3>3, ElementAssumption
      DEF ElementAssumption, Gone, IsLive, IInv, TypeOK, Ids
    <3> QED
      BY <3>4, <3>5, <3>6, Publishes
  <2> QED
    BY <2>5, <2>6, <2>7
<1>5. ASSUME NEW c \in Clients, NEW i \in Ids, NEW p \in Parents, NEW s \in Statuses,
             NEW o \in Outcomes, UpdateElement(c, i, p, s, o)
      PROVE  Mapped
  <2>1. CASE element' = element
    BY <1>5, <2>1, <1>1 DEF UpdateElement
  <2>2. CASE IsLive(i) /\ element' = [element EXCEPT ![i] =
                               [element[i] EXCEPT !.parent = p, !.status = s]]
    <3>1. /\ [element[i] EXCEPT !.parent = p, !.status = s] \in Row
          /\ [element[i] EXCEPT !.parent = p, !.status = s].name = element[i].name
      BY <2>2, RowUpdateTypes DEF IInv, TypeOK, IsLive, Row
    <3>2. \A j \in Ids : /\ (element'[j] # Absent) <=> (element[j] # Absent)
                         /\ element[j] # Absent => element'[j].name = element[j].name
      BY <2>2, <3>1, ElementAssumption DEF ElementAssumption, IInv, TypeOK, IsLive
    <3> QED
      BY <1>5, <3>2, NamesSame DEF UpdateElement
  <2> QED
    BY <1>5, <2>1, <2>2 DEF UpdateElement
<1>6. ASSUME NEW c \in Clients, NEW n, NEW s \in Statuses, NEW o \in Outcomes,
             UpdateStatusByName(c, n, s, o)
      PROVE  Mapped
  <2>1. ASSUME NEW j \in Ids
        PROVE  /\ (element'[j] # Absent) <=> (element[j] # Absent)
               /\ element[j] # Absent => element'[j].name = element[j].name
    <3>1. \/ element'[j] = element[j]
          \/ j \in Live /\ element'[j] = [element[j] EXCEPT !.status = s]
      BY <1>6 DEF UpdateStatusByName
    <3>2. j \in Live => /\ [element[j] EXCEPT !.status = s] \in Row
                        /\ [element[j] EXCEPT !.status = s].name = element[j].name
      BY RowUpdateTypes DEF IInv, TypeOK, Live, Row
    <3> QED
      BY <3>1, <3>2, ElementAssumption DEF ElementAssumption, Live
  <2> QED
    BY <1>6, <2>1, NamesSame DEF UpdateStatusByName
<1>7. ASSUME NEW c \in Clients, NEW i \in Ids, NEW o \in Outcomes, DeleteElement(c, i, o)
      PROVE  Mapped
  <2>1. CASE element' = element
    BY <1>7, <2>1, <1>1 DEF DeleteElement
  <2>2. CASE element[i] # Absent /\ element' = [element EXCEPT ![i] = Absent]
    <3>1. i \in 1 .. lastId /\ UNCHANGED lastId
      BY <1>7, <2>2 DEF DeleteElement, IInv, CallsOwnTheirRows, HistoryFits, IsLive, Ids
    <3>2. element'[i] = Absent /\ \A j \in Ids \ {i} : element'[j] = element[j]
      BY <2>2 DEF IInv, TypeOK
    <3>3. i \notin Gone /\ Gone' = Gone \cup {i}
      BY <2>2, <3>1, <3>2, ElementAssumption
      DEF ElementAssumption, Gone, IsLive, IInv, TypeOK, Ids
    <3>4. FinalName(i)' = Absent /\ \A j \in Ids \ {i} : FinalName(j)' = FinalName(j)
      BY <3>2 DEF FinalName, IsLive
    <3>5. [j \in Ids |-> FinalName(j)]' = [[j \in Ids |-> FinalName(j)] EXCEPT ![i] = Absent]
      BY <3>4
    <3>6. Registry!Retire(i)
      BY <3>3, <3>5 DEF Registry!Retire, Gone
    <3> QED
      BY <3>6 DEF Registry!RegistryNext
  <2>3. CASE element[i] = Absent /\ element' = [element EXCEPT ![i] = Absent]
    <3>1. element' = element
      BY <2>3 DEF IInv, TypeOK
    <3> QED
      BY <2>1, <3>1
  <2> QED
    BY <1>7, <2>1, <2>2, <2>3 DEF DeleteElement
<1> HIDE DEF Mapped
<1>8. ASSUME NEW c \in Clients, Insert(c) PROVE Mapped
  BY <1>8, <1>1, <1>2, <1>3 DEF Insert, InsertRefused, InsertTempThrows, InsertThrows
<1>9. ASSUME NEW c \in Clients, Rename(c) \/ Crash(c) PROVE Mapped
  BY <1>9, <1>1, <1>4 DEF Rename, Crash
<1>10. ASSUME NEW c \in Clients, Change(c) \/ Delete(c) PROVE Mapped
  BY <1>10, <1>5, <1>6, <1>7 DEF Change, Delete
<1>11. ASSUME UNCHANGED vars PROVE Mapped
  BY <1>11, <1>1 DEF vars
<1>12. Mapped
  BY <1>8, <1>9, <1>10, <1>11 DEF Next
<1> QED
  BY <1>12 DEF Mapped

\* insert_into_asset_element in two statements, with every interleaving, lost
\* answer and crash, looks to readers of final names like a registry that
\* publishes each name at once.
THEOREM RegistryImplemented == Spec => ImplementsRegistry
<1>1. Spec => []IInv
  BY IInvHolds
<1> QED
  BY <1>1, RefinementInit, RefinementStep, PTL
  DEF Spec, ImplementsRegistry, Registry!RegistrySpec
================================================================================
