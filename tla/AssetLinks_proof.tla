--------------------------- MODULE AssetLinks_proof ----------------------------
(***************************************************************************)
(* Proofs about AssetLinks, for every number of clients and assets and all *)
(* lists of links.                                                         *)
(***************************************************************************)
EXTENDS AssetLinks, TLAPS

(* The rows of the table *)

RowsInv ==
    /\ IsABag(link)
    /\ \A r \in Rows : r.type \in OkTypes /\ {r.src, r.dest} \subseteq Ids
    /\ LinksJoinDevices
    /\ LabelledLinksUnique

\* One more row of a bag.
LEMMA OneMore ==
    ASSUME NEW b, IsABag(b), NEW l
    PROVE  /\ IsABag(b (+) SetToBag({l}))
           /\ BagToSet(b (+) SetToBag({l})) = BagToSet(b) \cup {l}
           /\ Copies(l, b (+) SetToBag({l})) = Copies(l, b) + 1
           /\ \A r : r # l => Copies(r, b (+) SetToBag({l})) = Copies(r, b)
BY DEF IsABag, BagToSet, SetToBag, (+), Copies

LEMMA InsertKeepsRows ==
    ASSUME RowsInv, UNCHANGED asset, NEW l, NEW o, LinkStatement(l, o)
    PROVE  RowsInv'
<1>1. CASE UNCHANGED link
  BY <1>1 DEF RowsInv, LinksJoinDevices, LabelledLinksUnique, Rows, Here
<1>2. CASE link' = link (+) SetToBag({l}) /\ Accepted(l) /\ Inserts(l)
  <2>1. /\ IsABag(link') /\ Rows' = Rows \cup {l}
        /\ Copies(l, link') = Copies(l, link) + 1
        /\ \A r : r # l => Copies(r, link') = Copies(r, link)
    BY <1>2, OneMore DEF RowsInv, Rows
  <2>2. /\ l.type \in OkTypes
        /\ \A e \in {l.src, l.dest} : Here(e) /\ e \in Devices /\ e \in Ids
    BY <1>2 DEF Accepted, Inserts, InDeviceView, Here
  <2>3. LinksJoinDevices'
    BY <2>1, <2>2 DEF RowsInv, LinksJoinDevices, Here
  <2>4. ASSUME l.out # Null, l.in # Null, NEW r \in Rows, r.out # Null, r.in # Null
        PROVE  Sockets(r) # Sockets(l)
    BY <1>2, <2>4 DEF Inserts, AlreadyThere, SameLink, Sockets
  <2>5. l.out # Null /\ l.in # Null => Copies(l, link') = 1
    BY <2>1, <2>4 DEF Copies, Rows
  <2>6. LabelledLinksUnique'
    BY <2>1, <2>4, <2>5 DEF RowsInv, LabelledLinksUnique, Sockets
  <2> QED
    BY <2>1, <2>2, <2>3, <2>6 DEF RowsInv
<1> QED
  BY <1>1, <1>2 DEF LinkStatement

LEMMA DeleteKeepsRows ==
    ASSUME RowsInv, UNCHANGED asset, NEW rows, link' = Without(rows)
    PROVE  RowsInv'
<1>1. /\ Rows' = Rows \ rows /\ IsABag(link')
      /\ \A r \in Rows' : Copies(r, link') = Copies(r, link)
  BY DEF RowsInv, Without, Rows, BagToSet, IsABag, Copies
<1>2. LinksJoinDevices' /\ LabelledLinksUnique'
  BY <1>1 DEF RowsInv, LinksJoinDevices, LabelledLinksUnique, Here
<1> QED
  BY <1>1, <1>2 DEF RowsInv

LEMMA AssetKeepsRows == ASSUME RowsInv, Asset PROVE RowsInv'
<1> SUFFICES ASSUME NEW e \in Ids, AssetInserted(e) \/ AssetDeleted(e) PROVE RowsInv'
  BY DEF Asset
<1>1. /\ UNCHANGED link /\ \A d : Here(d) /\ d # e => Here(d)'
      /\ Here(e)' \/ ~Linked(e)
  <2>1. CASE AssetInserted(e)
    <3>1. UNCHANGED link /\ asset' = [asset EXCEPT ![e] = "here"]
      BY <2>1 DEF AssetInserted
    <3>2. \A d : Here(d) => Here(d)'
      BY <3>1 DEF Here
    <3>3. Linked(e) => Here(e)
      BY DEF Linked, RowsInv, LinksJoinDevices
    <3> QED
      BY <3>1, <3>2, <3>3
  <2>2. CASE AssetDeleted(e)
    BY <2>2 DEF AssetDeleted, Here
  <2> QED
    BY <2>1, <2>2
<1>2. LinksJoinDevices'
  BY <1>1 DEF RowsInv, LinksJoinDevices, Linked, Rows
<1> QED
  BY <1>1, <1>2 DEF RowsInv, LabelledLinksUnique, Rows

LEMMA NextRows == RowsInv /\ [Next]_vars => RowsInv'
<1> SUFFICES ASSUME RowsInv, [Next]_vars PROVE RowsInv'
  OBVIOUS
<1>1. ASSUME NEW c \in Clients, Single(c) PROVE RowsInv'
  BY <1>1, InsertKeepsRows DEF Single, InsertLink
<1>2. ASSUME UNCHANGED <<asset, link>> PROVE RowsInv'
  BY <1>2 DEF RowsInv, LinksJoinDevices, LabelledLinksUnique, Rows, Here
<1>3. ASSUME NEW c \in Clients, NEW o, BatchStep(c, o) PROVE RowsInv'
  <2>1. \E l : LinkStatement(l, o)
    BY <1>3, Zenon DEF BatchStep
  <2>2. UNCHANGED asset
    BY <1>3, Zenon DEF BatchStep
  <2> QED
    BY <2>1, <2>2, InsertKeepsRows
<1>4. ASSUME NEW c \in Clients, Continue(c) PROVE RowsInv'
  BY <1>2, <1>3, <1>4 DEF Continue, ResolveSrc, ResolveDest
<1>5. ASSUME NEW c \in Clients, Start(c) \/ Crash(c) PROVE RowsInv'
  BY <1>2, <1>5 DEF Start, StartByIds, StartByNames, Crash
<1>6. ASSUME NEW c \in Clients, Delete(c) PROVE RowsInv'
  <2>1. UNCHANGED asset /\ (UNCHANGED link \/ \E rows : link' = Without(rows))
    BY <1>6 DEF Delete, DeleteLink, DeleteLinksTo
  <2> QED
    BY <1>2, <2>1, DeleteKeepsRows
<1>7. CASE UNCHANGED vars
  BY <1>2, <1>7 DEF vars
<1> QED
  BY <1>1, <1>4, <1>5, <1>6, <1>7, AssetKeepsRows DEF Next

LEMMA InitRows == Init => RowsInv
BY DEF Init, RowsInv, LinksJoinDevices, LabelledLinksUnique, Rows,
       EmptyBag, SetToBag, BagToSet, IsABag

\* Both ends of every link are devices that are there, in every interleaving of
\* batches, deletes and lost answers.
THEOREM LinksJoinDevicesAlways == Spec => []LinksJoinDevices
<1>1. RowsInv => LinksJoinDevices
  BY DEF RowsInv
<1> QED
  BY InitRows, NextRows, <1>1, PTL DEF Spec

\* One outlet and one inlet of two devices are joined at most once.
THEOREM LabelledUnique == Spec => []LabelledLinksUnique
<1>1. RowsInv => LabelledLinksUnique
  BY DEF RowsInv
<1> QED
  BY InitRows, NextRows, <1>1, PTL DEF Spec

--------------------------------------------------------------------------------
(* The calls *)

CallRecord == [at : {"idle", "src", "dest", "insert"}, asked : Seq(Request),
               list : Seq(Request), i : Nat, good : Nat]

\* The lookup of the source (destination) of link k is behind the batch.
SrcDone(now, k) == now.at = "insert" \/ k < now.i \/ (k = now.i /\ now.at = "dest")
DestDone(now, k) == now.at = "insert" \/ k < now.i

\* What a lookup leaves: no id, or that of an asset inserted under the name.
EndOk(x, n) == x \in Ids => NameOf[x] = n

EndsOk(now, k) ==
    /\ IF SrcDone(now, k) THEN EndOk(now.list[k].src, now.asked[k].src)
                          ELSE now.list[k].src = now.asked[k].src
    /\ IF DestDone(now, k) THEN EndOk(now.list[k].dest, now.asked[k].dest)
                           ELSE now.list[k].dest = now.asked[k].dest

CallOk(now) ==
    /\ now.good <= now.i /\ now.i <= Len(now.list)
    /\ now.at # "idle" => 1 <= now.i
    /\ now.at \in {"src", "dest"} => now.asked # <<>>
    /\ now.asked # <<>> =>
          /\ Len(now.asked) = Len(now.list)
          /\ \A k \in 1 .. Len(now.list) : EndsOk(now, k)

CallInv == /\ asset \in [Ids -> {"unborn", "here", "gone"}]
           /\ call \in [Clients -> CallRecord]
           /\ \A c \in Clients : CallOk(call[c])

LEMMA CallTyped ==
    ASSUME NEW at \in {"idle", "src", "dest", "insert"}, NEW asked \in Seq(Request),
           NEW list \in Seq(Request), NEW i \in Nat, NEW good \in Nat
    PROVE  /\ Call(at, asked, list, i, good) \in CallRecord
           /\ Call(at, asked, list, i, good).at = at
           /\ Call(at, asked, list, i, good).asked = asked
           /\ Call(at, asked, list, i, good).list = list
           /\ Call(at, asked, list, i, good).i = i
           /\ Call(at, asked, list, i, good).good = good
BY DEF Call, CallRecord

LEMMA IdleOk == Idle \in CallRecord /\ CallOk(Idle)
<1>1. <<>> \in Seq(Request) /\ Len(<<>>) = 0
  OBVIOUS
<1>2. Idle \in CallRecord
  BY <1>1, CallTyped DEF Idle
<1>3. Idle.at = "idle" /\ Idle.i = 0 /\ Idle.good = 0 /\ Idle.asked = <<>> /\ Idle.list = <<>>
  BY DEF Idle, Call
<1> QED
  BY <1>1, <1>2, <1>3 DEF CallOk

\* A name that was looked up, whatever came of it.
LEMMA LookupOk ==
    ASSUME NEW n \in Nat, NEW o
    PROVE  ToId(NameToAssetId(n, o)) \in Nat /\ EndOk(ToId(NameToAssetId(n, o)), n)
<1> USE LinkAssumption DEF LinkAssumption
<1> DEFINE x == NameToAssetId(n, o)
<1>1. CASE x = 0
  <2>1. 0 % IdSpan = 0 /\ 0 \notin Ids
    OBVIOUS
  <2> QED
    BY <1>1, <2>1 DEF ToId, EndOk
<1>2. CASE x = -2
  <2>1. (-2) % IdSpan = IdSpan - 2 /\ IdSpan - 2 \notin Ids
    OBVIOUS
  <2> QED
    BY <1>2, <2>1 DEF ToId, EndOk
<1>3. CASE x = -1
  <2>1. (-1) % IdSpan = IdSpan - 1 /\ IdSpan - 1 \notin Ids
    OBVIOUS
  <2> QED
    BY <1>3, <2>1 DEF ToId, EndOk
<1>4. CASE x \in Bearers(n)
  <2>1. x \in Ids /\ NameOf[x] = n
    BY <1>4 DEF Bearers
  <2>2. x \in Nat /\ x < IdSpan
    BY <2>1
  <2>3. x % IdSpan = x
    BY <2>2
  <2> QED
    BY <2>1, <2>2, <2>3 DEF ToId, EndOk
<1> QED
  BY <1>1, <1>2, <1>3, <1>4 DEF NameToAssetId

\* A call that begins.
LEMMA StartOk ==
    ASSUME NEW list \in Seq(Request), list # <<>>
    PROVE  /\ Call("insert", <<>>, list, 1, 0) \in CallRecord
           /\ CallOk(Call("insert", <<>>, list, 1, 0))
           /\ Call("src", list, list, 1, 0) \in CallRecord
           /\ CallOk(Call("src", list, list, 1, 0))
<1>1. <<>> \in Seq(Request) /\ Len(list) \in Nat /\ 1 <= Len(list)
  OBVIOUS
<1>2. CallOk(Call("insert", <<>>, list, 1, 0)) /\ Call("insert", <<>>, list, 1, 0) \in CallRecord
  <2> DEFINE now == Call("insert", <<>>, list, 1, 0)
  <2>1. /\ now \in CallRecord /\ now.at = "insert" /\ now.asked = <<>>
        /\ now.list = list /\ now.i = 1 /\ now.good = 0
    BY <1>1 DEF Call, CallRecord
  <2> QED
    BY <1>1, <2>1 DEF CallOk
<1>3. CallOk(Call("src", list, list, 1, 0)) /\ Call("src", list, list, 1, 0) \in CallRecord
  <2>0. PICK now : now = Call("src", list, list, 1, 0)
    OBVIOUS
  <2>1. /\ now \in CallRecord /\ now.at = "src" /\ now.asked = list
        /\ now.list = list /\ now.i = 1 /\ now.good = 0
    BY <1>1, <2>0 DEF Call, CallRecord
  <2>2. \A k \in 1 .. Len(list) : ~SrcDone(now, k) /\ ~DestDone(now, k)
    BY <2>1 DEF SrcDone, DestDone
  <2>3. \A k \in 1 .. Len(list) : EndsOk(now, k)
    BY <2>1, <2>2 DEF EndsOk
  <2> QED
    BY <1>1, <2>0, <2>1, <2>3 DEF CallOk
<1> QED
  BY <1>2, <1>3

LEMMA CallOkByNames ==
    ASSUME NEW now, NEW n, now.good = 0, now.i \in 1 .. n, n \in Nat,
           now.asked # <<>>, Len(now.asked) = n, Len(now.list) = n,
           \A k \in 1 .. n : EndsOk(now, k)
    PROVE  CallOk(now)
BY DEF CallOk

LEMMA RequestUpdate ==
    ASSUME NEW l \in Request, NEW x \in Nat
    PROVE  /\ [l EXCEPT !.src = x] \in Request /\ [l EXCEPT !.src = x].src = x
           /\ [l EXCEPT !.src = x].dest = l.dest
           /\ [l EXCEPT !.dest = x] \in Request /\ [l EXCEPT !.dest = x].dest = x
           /\ [l EXCEPT !.dest = x].src = l.src
           /\ l.src \in Nat /\ l.dest \in Nat
BY DEF Request

\* What the two lookups make of a link.
LEMMA FoundOk ==
    ASSUME NEW l \in Request, NEW o
    PROVE  /\ LET found == [l EXCEPT !.src = ToId(NameToAssetId(l.src, o))] IN
              found \in Request /\ found.dest = l.dest /\ EndOk(found.src, l.src)
           /\ LET found == [l EXCEPT !.dest = ToId(NameToAssetId(l.dest, o))] IN
              found \in Request /\ found.src = l.src /\ EndOk(found.dest, l.dest)
<1>1. l.src \in Nat /\ l.dest \in Nat
  BY DEF Request
<1>2. /\ ToId(NameToAssetId(l.src, o)) \in Nat /\ EndOk(ToId(NameToAssetId(l.src, o)), l.src)
      /\ ToId(NameToAssetId(l.dest, o)) \in Nat /\ EndOk(ToId(NameToAssetId(l.dest, o)), l.dest)
  BY <1>1, LookupOk
<1> QED
  BY <1>2, RequestUpdate

\* The lookup of a source, and that of a destination.
LEMMA SrcFoundOk ==
    ASSUME NEW now \in CallRecord, CallOk(now), now.at = "src",
           NEW l, l = now.list[now.i],
           NEW found \in Request, found.dest = l.dest, EndOk(found.src, l.src),
           NEW next, next = Call("dest", now.asked, [now.list EXCEPT ![now.i] = found], now.i, 0)
    PROVE  next \in CallRecord /\ CallOk(next)
<1> DEFINE i == now.i  list == now.list  asked == now.asked
<1>1. /\ list \in Seq(Request) /\ asked \in Seq(Request) /\ asked # <<>>
      /\ i \in 1 .. Len(list) /\ Len(asked) = Len(list)
  BY DEF CallRecord, CallOk
<1>4. /\ [list EXCEPT ![i] = found] \in Seq(Request)
      /\ Len([list EXCEPT ![i] = found]) = Len(list)
  BY <1>1
<1>5. /\ next \in CallRecord /\ next.at = "dest" /\ next.asked = asked
      /\ next.list = [list EXCEPT ![i] = found] /\ next.i = i /\ next.good = 0
  BY <1>1, <1>4 DEF Call, CallRecord
<1>6. ASSUME NEW k \in 1 .. Len(list)
      PROVE  EndsOk(next, k)
  <2>1. EndsOk(now, k)
    BY <1>1 DEF CallOk
  <2>2. CASE k = i
    <3>1. next.list[k] = found /\ l = list[k]
      BY <1>1, <1>5, <2>2
    <3>2. l.src = asked[k].src /\ l.dest = asked[k].dest
      BY <1>1, <2>1, <2>2, <3>1 DEF EndsOk, SrcDone, DestDone
    <3>3. SrcDone(next, k) /\ ~DestDone(next, k)
      BY <1>1, <1>5, <2>2 DEF SrcDone, DestDone
    <3> QED
      BY <1>5, <3>1, <3>2, <3>3 DEF EndsOk
  <2>3. CASE k # i
    BY <1>1, <1>5, <2>1, <2>3 DEF EndsOk, SrcDone, DestDone
  <2> QED
    BY <2>2, <2>3
<1> HIDE DEF i, list, asked
<1>7. Len(next.list) = Len(list) /\ Len(next.asked) = Len(list) /\ next.i \in 1 .. Len(list)
  BY <1>1, <1>4, <1>5
<1>8. next.good = 0 /\ next.asked # <<>> /\ Len(list) \in Nat
  BY <1>1, <1>5
<1>9. CallOk(next)
  BY <1>6, <1>7, <1>8, CallOkByNames
<1> QED
  BY <1>5, <1>9

LEMMA DestFoundOk ==
    ASSUME NEW now \in CallRecord, CallOk(now), now.at = "dest",
           NEW l, l = now.list[now.i],
           NEW found \in Request, found.src = l.src, EndOk(found.dest, l.dest),
           NEW list, list = [now.list EXCEPT ![now.i] = found],
           NEW next,
           next = IF now.i = Len(now.list) THEN Call("insert", now.asked, list, 1, 0)
                  ELSE Call("src", now.asked, list, now.i + 1, 0)
    PROVE  next \in CallRecord /\ CallOk(next)
<1> DEFINE i == now.i  old == now.list  asked == now.asked
<1>1. /\ old \in Seq(Request) /\ asked \in Seq(Request) /\ asked # <<>>
      /\ i \in 1 .. Len(old) /\ Len(asked) = Len(old) /\ Len(old) \in Nat
  BY DEF CallRecord, CallOk
<1>4. list \in Seq(Request) /\ Len(list) = Len(old)
  BY <1>1
<1>5. ASSUME NEW k \in 1 .. Len(old)
      PROVE  /\ k <= i => EndOk(list[k].src, asked[k].src) /\ EndOk(list[k].dest, asked[k].dest)
             /\ k > i => list[k].src = asked[k].src /\ list[k].dest = asked[k].dest
  <2>1. EndsOk(now, k)
    BY <1>1 DEF CallOk
  <2>2. CASE k = i
    BY <1>1, <2>1, <2>2 DEF EndsOk, SrcDone, DestDone
  <2>3. CASE k # i
    BY <1>1, <2>1, <2>3 DEF EndsOk, SrcDone, DestDone
  <2> QED
    BY <2>2, <2>3
<1>6. CASE i = Len(old)
  <2>1. /\ next \in CallRecord /\ next.at = "insert" /\ next.asked = asked
        /\ next.list = list /\ next.i = 1 /\ next.good = 0
    BY <1>1, <1>4, <1>6 DEF Call, CallRecord
  <2>2. \A k \in 1 .. Len(old) : SrcDone(next, k) /\ DestDone(next, k)
    BY <2>1 DEF SrcDone, DestDone
  <2>3. \A k \in 1 .. Len(old) : EndsOk(next, k)
    BY <1>1, <1>5, <1>6, <2>1, <2>2 DEF EndsOk
  <2>4. Len(next.list) = Len(old) /\ Len(next.asked) = Len(old) /\ 1 <= Len(old)
    BY <1>1, <1>4, <2>1
  <2>5. /\ next.i \in 1 .. Len(old) /\ Len(old) \in Nat /\ next.good = 0
        /\ next.asked # <<>> /\ next \in CallRecord
    BY <1>1, <2>1, <2>4
  <2> HIDE DEF old
  <2> QED
    BY <2>3, <2>4, <2>5, CallOkByNames
<1>7. CASE i # Len(old)
  <2>1. /\ next \in CallRecord /\ next.at = "src" /\ next.asked = asked
        /\ next.list = list /\ next.i = i + 1 /\ next.good = 0
    BY <1>1, <1>4, <1>7 DEF Call, CallRecord
  <2>2. \A k \in 1 .. Len(old) : (SrcDone(next, k) <=> k <= i) /\ (DestDone(next, k) <=> k <= i)
    BY <1>1, <2>1 DEF SrcDone, DestDone
  <2>3. ASSUME NEW k \in 1 .. Len(old) PROVE EndsOk(next, k)
    <3>1. k <= i \/ k > i
      BY <1>1
    <3> QED
      BY <1>5, <2>1, <2>2, <3>1 DEF EndsOk
  <2>4. Len(next.list) = Len(old) /\ Len(next.asked) = Len(old) /\ i + 1 <= Len(old)
    BY <1>1, <1>4, <1>7, <2>1
  <2>5. /\ next.i \in 1 .. Len(old) /\ Len(old) \in Nat /\ next.good = 0
        /\ next.asked # <<>> /\ next \in CallRecord
    BY <1>1, <2>1, <2>4
  <2> HIDE DEF old
  <2> QED
    BY <2>3, <2>4, <2>5, CallOkByNames
<1> QED
  BY <1>6, <1>7

\* An insert of a batch that is not its last.
LEMMA InsertedOk ==
    ASSUME NEW now \in CallRecord, CallOk(now), now.at = "insert", now.i < Len(now.list),
           NEW good \in {now.good, now.good + 1},
           NEW next, next = Call("insert", now.asked, now.list, now.i + 1, good)
    PROVE  next \in CallRecord /\ CallOk(next)
<1>1. /\ now.list \in Seq(Request) /\ now.asked \in Seq(Request) /\ now.i \in Nat
      /\ now.good \in Nat /\ good \in Nat /\ now.i + 1 \in Nat
  BY DEF CallRecord
<1>2. /\ next \in CallRecord /\ next.at = "insert" /\ next.asked = now.asked
      /\ next.list = now.list /\ next.i = now.i + 1 /\ next.good = good
  BY <1>1 DEF Call, CallRecord
<1>3. \A k : SrcDone(now, k) /\ DestDone(now, k) /\ SrcDone(next, k) /\ DestDone(next, k)
  BY <1>2 DEF SrcDone, DestDone
<1>4. /\ next.good <= next.i /\ next.i <= Len(next.list) /\ 1 <= next.i
      /\ next.at \notin {"src", "dest"}
  BY <1>1, <1>2 DEF CallOk
<1>5. next.asked # <<>> =>
          /\ Len(next.asked) = Len(next.list)
          /\ \A k \in 1 .. Len(next.list) : EndsOk(next, k)
  BY <1>2, <1>3 DEF CallOk, EndsOk
<1> QED
  BY <1>2, <1>4, <1>5 DEF CallOk

LEMMA InitCalls == Init => CallInv
BY IdleOk DEF Init, CallInv

LEMMA NextCalls == CallInv /\ [Next]_vars => CallInv'
<1> SUFFICES ASSUME CallInv, [Next]_vars PROVE CallInv'
  OBVIOUS
<1>1. ASSUME UNCHANGED <<asset, call>> PROVE CallInv'
  BY <1>1 DEF CallInv
<1>2. ASSUME UNCHANGED asset, NEW c \in Clients, NEW next \in CallRecord, CallOk(next),
             call' = [call EXCEPT ![c] = next]
      PROVE  CallInv'
  BY <1>2 DEF CallInv
<1>3. ASSUME NEW c \in Clients, Start(c) PROVE CallInv'
  <2>1. ASSUME NEW list \in ById, StartByIds(c, list) PROVE CallInv'
    BY <1>1, <1>2, <2>1, StartOk, LinkAssumption DEF StartByIds, LinkAssumption
  <2>2. ASSUME NEW list \in ByName, StartByNames(c, list) PROVE CallInv'
    BY <1>2, <2>2, StartOk, LinkAssumption DEF StartByNames, LinkAssumption
  <2> QED
    BY <1>3, <2>1, <2>2 DEF Start
<1>4. ASSUME NEW c \in Clients, NEW o, ResolveSrc(c, o) PROVE CallInv'
  <2> DEFINE now == call[c]
             l == now.list[now.i]
             found == [l EXCEPT !.src = ToId(NameToAssetId(l.src, o))]
             next == Call("dest", now.asked, [now.list EXCEPT ![now.i] = found], now.i, 0)
  <2>1. now.at = "src" /\ UNCHANGED asset /\ call' = [call EXCEPT ![c] = next]
    BY <1>4, Zenon DEF ResolveSrc
  <2>2. now \in CallRecord /\ CallOk(now)
    BY DEF CallInv
  <2>3. l \in Request
    BY <2>1, <2>2 DEF CallRecord, CallOk
  <2>4. found \in Request /\ found.dest = l.dest /\ EndOk(found.src, l.src)
    BY <2>3, FoundOk, Zenon
  <2> HIDE DEF found
  <2>5. next \in CallRecord /\ CallOk(next)
    BY <2>1, <2>2, <2>4, SrcFoundOk
  <2> QED
    BY <1>2, <2>1, <2>5
<1>5. ASSUME NEW c \in Clients, NEW o, ResolveDest(c, o) PROVE CallInv'
  <2> DEFINE now == call[c]
             l == now.list[now.i]
             found == [l EXCEPT !.dest = ToId(NameToAssetId(l.dest, o))]
             list == [now.list EXCEPT ![now.i] = found]
             next == IF now.i = Len(now.list) THEN Call("insert", now.asked, list, 1, 0)
                     ELSE Call("src", now.asked, list, now.i + 1, 0)
  <2>1. now.at = "dest" /\ UNCHANGED asset /\ call' = [call EXCEPT ![c] = next]
    BY <1>5, Zenon DEF ResolveDest
  <2>2. now \in CallRecord /\ CallOk(now)
    BY DEF CallInv
  <2>3. l \in Request
    BY <2>1, <2>2 DEF CallRecord, CallOk
  <2>4. found \in Request /\ found.src = l.src /\ EndOk(found.dest, l.dest)
    BY <2>3, FoundOk, Zenon
  <2> HIDE DEF found
  <2>5. next \in CallRecord /\ CallOk(next)
    BY <2>1, <2>2, <2>4, DestFoundOk
  <2> QED
    BY <1>2, <2>1, <2>5
<1>6. ASSUME NEW c \in Clients, NEW o, BatchStep(c, o) PROVE CallInv'
  <2> DEFINE now == call[c]
  <2>1. /\ UNCHANGED asset /\ now.at = "insert"
        /\ \/ call' = [call EXCEPT ![c] = Idle]
           \/ /\ now.i < Len(now.list)
              /\ \E good \in {now.good + 1, now.good + 0} :
                    call' = [call EXCEPT ![c] =
                               Call("insert", now.asked, now.list, now.i + 1, good)]
    BY <1>6, Zenon DEF BatchStep
  <2>2. now \in CallRecord /\ CallOk(now) /\ now.good + 0 = now.good
    BY DEF CallInv, CallRecord
  <2> QED
    BY <1>2, <2>1, <2>2, InsertedOk, IdleOk
<1>7. ASSUME NEW c \in Clients, Crash(c) PROVE CallInv'
  BY <1>2, <1>7, IdleOk DEF Crash
<1>8. ASSUME NEW c \in Clients, Single(c) \/ Delete(c) PROVE CallInv'
  BY <1>1, <1>8 DEF Single, InsertLink, Delete, DeleteLink, DeleteLinksTo
<1>9. ASSUME Asset PROVE CallInv'
  BY <1>9 DEF Asset, AssetInserted, AssetDeleted, CallInv
<1>10. CASE UNCHANGED vars
  BY <1>1, <1>10 DEF vars
<1> QED
  BY <1>3, <1>4, <1>5, <1>6, <1>7, <1>8, <1>9, <1>10 DEF Next, Continue

--------------------------------------------------------------------------------
(* Types, and what the batches by names insert *)

ReplyOk == reply.ok \in BOOLEAN

LEMMA NextReply == ReplyOk /\ [Next]_vars => ReplyOk'
<1> USE DEF ReplyOk
<1>1. ASSUME NEW op, NEW ok \in BOOLEAN, NEW list, reply' = Reply(op, ok, list)
      PROVE  reply'.ok \in BOOLEAN
  BY <1>1, Zenon DEF Reply
<1>2. ASSUME UNCHANGED reply PROVE reply.ok \in BOOLEAN => reply'.ok \in BOOLEAN
  BY <1>2
<1>3. \A l, o : StatementOk(l, o) \in BOOLEAN
  BY DEF StatementOk, Accepted, Reported
<1>4. ASSUME NEW c, Single(c) PROVE reply'.ok \in BOOLEAN
  <2>1. \E l, o : reply' = Reply("link", StatementOk(l, o), <<>>)
    BY <1>4 DEF Single, InsertLink
  <2> QED
    BY <1>1, <1>3, <2>1, Zenon
<1>5. ASSUME NEW c, Start(c) \/ Crash(c) PROVE UNCHANGED reply \/ reply'.ok \in BOOLEAN
  <2>1. UNCHANGED reply \/ \E list : reply' = Reply("links", TRUE, list)
    BY <1>5, Zenon DEF Start, StartByIds, StartByNames, Crash
  <2> QED
    BY <1>1, <2>1, Zenon
<1>6. ASSUME NEW c, NEW o, BatchStep(c, o) PROVE UNCHANGED reply \/ reply'.ok \in BOOLEAN
  <2>1. UNCHANGED reply \/ \E all \in BOOLEAN : \E list : reply' = Reply("links", all, list)
    BY <1>6, Zenon DEF BatchStep
  <2> QED
    BY <1>1, <2>1, Zenon
<1>7. ASSUME NEW c, Continue(c) PROVE UNCHANGED reply \/ reply'.ok \in BOOLEAN
  BY <1>6, <1>7, Zenon DEF Continue, ResolveSrc, ResolveDest
<1>8. ASSUME NEW c, Delete(c) PROVE reply'.ok \in BOOLEAN
  <2>1. ASSUME NEW src, NEW dest, NEW o, DeleteLink(c, src, dest, o) PROVE reply'.ok \in BOOLEAN
    <3>1. \E ok \in BOOLEAN : \E list : reply' = Reply("delete", ok, list)
      BY <2>1, Zenon DEF DeleteLink, Reported
    <3> QED
      BY <1>1, <3>1, Zenon
  <2>2. ASSUME NEW dest, NEW o, DeleteLinksTo(c, dest, o) PROVE reply'.ok \in BOOLEAN
    <3>1. \E ok \in BOOLEAN : reply' = Reply("deleteto", ok, <<>>)
      BY <2>2, Zenon DEF DeleteLinksTo, Reported
    <3> QED
      BY <1>1, <3>1, Zenon
  <2> QED
    BY <1>8, <2>1, <2>2, Zenon DEF Delete
<1>9. Asset => UNCHANGED reply
  BY Zenon DEF Asset, AssetInserted, AssetDeleted
<1>10. UNCHANGED vars => UNCHANGED reply
  BY DEF vars
<1> QED
  BY <1>2, <1>4, <1>5, <1>7, <1>8, <1>9, <1>10, Zenon DEF Next

\* The tables, the calls and the answers keep their types.
THEOREM TypeCorrect == Spec => []TypeOK
<1>1. Init => ReplyOk
  BY DEF Init, Reply, ReplyOk
<1>2. RowsInv /\ CallInv /\ ReplyOk => TypeOK
  BY DEF RowsInv, CallInv, CallOk, CallRecord, ReplyOk, TypeOK
<1> QED
  BY InitRows, NextRows, InitCalls, NextCalls, NextReply, <1>1, <1>2, PTL DEF Spec

\* A batch by names only ever joins assets that bear the names it was given, for
\* every number of clients that delete and insert assets between its statements.
THEOREM NamedEnds == Spec => NamedLinkEnds
<1> DEFINE Named(c) ==
      call[c].asked # <<>> /\ link' # link /\ call'[c] # call[c] =>
          LET named == call[c].asked[call[c].i] IN
          \E r \in BagToSet(link') :
             /\ r.src \in Bearers(named.src) /\ r.dest \in Bearers(named.dest)
             /\ Copies(r, link') = Copies(r, link) + 1
<1>1. ASSUME RowsInv, CallInv, NEW c \in Clients, NEW o, BatchStep(c, o) PROVE Named(c)
  <2> DEFINE now == call[c]
             i == now.i
             l == Narrow(now.list[i])
  <2> SUFFICES ASSUME now.asked # <<>>, link' # link
               PROVE  \E r \in BagToSet(link') :
                         /\ r.src \in Bearers(now.asked[i].src)
                         /\ r.dest \in Bearers(now.asked[i].dest)
                         /\ Copies(r, link') = Copies(r, link) + 1
    OBVIOUS
  <2>1. now.at = "insert" /\ LinkStatement(l, o)
    BY <1>1, Zenon DEF BatchStep
  <2>2. link' = link (+) SetToBag({l}) /\ Inserts(l)
    BY <2>1, Zenon DEF LinkStatement
  <2>3. /\ now \in CallRecord /\ CallOk(now)
    BY <1>1 DEF CallInv
  <2>4. i \in 1 .. Len(now.list) /\ now.list[i] \in Request /\ EndsOk(now, i)
    BY <2>1, <2>3 DEF CallOk, CallRecord
  <2>5. l.src = now.list[i].src /\ l.dest = now.list[i].dest
    BY <2>4 DEF Narrow, Request
  <2>6. EndOk(now.list[i].src, now.asked[i].src) /\ EndOk(now.list[i].dest, now.asked[i].dest)
    BY <2>1, <2>4 DEF EndsOk, SrcDone, DestDone
  <2>7. Here(l.src) /\ Here(l.dest)
    BY <2>2 DEF Inserts, InDeviceView
  <2>8. l.src \in Bearers(now.asked[i].src) /\ l.dest \in Bearers(now.asked[i].dest)
    BY <2>5, <2>6, <2>7 DEF EndOk, Bearers, Here
  <2>9. l \in BagToSet(link') /\ Copies(l, link') = Copies(l, link) + 1
    BY <1>1, <2>2, OneMore DEF RowsInv
  <2> QED
    BY <2>8, <2>9
<1>2. ASSUME RowsInv, CallInv, NEW c \in Clients, NEW d \in Clients, NEW o, BatchStep(d, o)
      PROVE  Named(c)
  <2>1. CASE c = d
    BY <1>1, <1>2, <2>1
  <2>2. CASE c # d
    <3>1. \E next : call' = [call EXCEPT ![d] = next]
      BY <1>2, Zenon DEF BatchStep
    <3>2. call'[c] = call[c]
      BY <1>2, <2>2, <3>1 DEF CallInv
    <3> QED
      BY <3>2
  <2> QED
    BY <2>1, <2>2
<1>3. ASSUME UNCHANGED link \/ UNCHANGED call, NEW c PROVE Named(c)
  BY <1>3
<1>4. ASSUME RowsInv, CallInv, Next, NEW c \in Clients PROVE Named(c)
  <2>1. CASE Asset
    BY <1>3, <2>1 DEF Asset, AssetInserted, AssetDeleted
  <2>2. ASSUME NEW d \in Clients, Single(d) \/ Start(d) \/ Delete(d) \/ Crash(d)
        PROVE  UNCHANGED link \/ UNCHANGED call
    BY <2>2 DEF Single, InsertLink, Start, StartByIds, StartByNames,
                Delete, DeleteLink, DeleteLinksTo, Crash
  <2>3. ASSUME NEW d \in Clients, NEW o, ResolveSrc(d, o) \/ ResolveDest(d, o)
        PROVE  UNCHANGED link
    BY <2>3, Zenon DEF ResolveSrc, ResolveDest
  <2> QED
    BY <1>2, <1>3, <1>4, <2>1, <2>2, <2>3, Zenon DEF Next, Continue
<1>5. RowsInv /\ CallInv /\ [Next]_vars => [\A c \in Clients : Named(c)]_vars
  BY <1>4, Zenon
<1> QED
  BY InitRows, NextRows, InitCalls, NextCalls, <1>5, PTL DEF Spec, NamedLinkEnds

--------------------------------------------------------------------------------
(* AssetLinks implements Cabling: one row more is at most one wire more, a      *)
(* delete takes the wires between two devices or all to one                     *)

Wires == {r \in Rows : r.out # Null /\ r.in # Null}
Present == {e \in Ids : asset[e] = "here"}
Retired == {e \in Ids : asset[e] = "gone"}
SeenStep == Cables!CablingNext \/ UNCHANGED <<Present, Retired, Wires>>

LEMMA NothingSeen == ASSUME UNCHANGED <<asset, link>> PROVE SeenStep
BY DEF SeenStep, Present, Retired, Wires, Rows

LEMMA InsertSeen ==
    ASSUME RowsInv, UNCHANGED asset, NEW l, NEW o, LinkStatement(l, o) PROVE SeenStep
<1>1. CASE UNCHANGED link
  BY <1>1, NothingSeen
<1>2. CASE link' = link (+) SetToBag({l}) /\ Accepted(l) /\ Inserts(l)
  <2>1. Rows' = Rows \cup {l} /\ UNCHANGED <<Present, Retired>>
    BY <1>2, OneMore DEF RowsInv, Rows, Present, Retired
  <2>2. CASE ~(l.out # Null /\ l.in # Null)
    BY <2>1, <2>2 DEF SeenStep, Wires
  <2>3. CASE l.out # Null /\ l.in # Null
    <3>1. Wires' = Wires \cup {l}
      BY <2>1, <2>3 DEF Wires
    <3>2. {l.src, l.dest} \subseteq Present \cap Devices
      BY <1>2 DEF Inserts, InDeviceView, Here, Present
    <3>3. \A v \in Wires : Cables!Sockets(v) # Cables!Sockets(l)
      BY <1>2, <2>3 DEF Inserts, AlreadyThere, SameLink, Cables!Sockets, Wires
    <3>4. l \in Wires' \ Wires
      BY <3>1, <3>3
    <3>5. Cables!PlugIn(l)
      BY <2>1, <3>1, <3>2, <3>3 DEF Cables!PlugIn, Wires, Present, Retired
    <3> QED
      BY <3>4, <3>5 DEF SeenStep, Cables!CablingNext, Wires
  <2> QED
    BY <2>2, <2>3
<1> QED
  BY <1>1, <1>2 DEF LinkStatement

LEMMA DeleteSeen ==
    ASSUME RowsInv, NEW c \in Clients, Delete(c) PROVE SeenStep
<1>1. UNCHANGED asset
  BY DEF Delete, DeleteLink, DeleteLinksTo
<1>2. CASE UNCHANGED link
  BY <1>1, <1>2, NothingSeen
<1>3. ASSUME NEW d, NEW sources, link' = Without({r \in Rows : r.src \in sources /\ r.dest = d})
      PROVE  Wires' = Wires \ {w \in Wires : w.src \in sources /\ w.dest = d}
  <2>1. Rows' = Rows \ {r \in Rows : r.src \in sources /\ r.dest = d}
    BY <1>3 DEF Without, Rows, BagToSet
  <2> QED
    BY <2>1 DEF Wires
<1>4. ASSUME NEW d \in Ids \cup {0}, NEW sources \in {Ids} \cup {{s} : s \in Ids},
             link' = Without({r \in Rows : r.src \in sources /\ r.dest = d})
      PROVE  SeenStep
  <2>1. CASE d \in Ids
    <3>1. Cables!Unplug(sources, d)
      BY <1>1, <1>3, <1>4 DEF Cables!Unplug, Cables!Between, Wires
    <3> QED
      BY <2>1, <3>1 DEF SeenStep, Cables!CablingNext
  <2>2. CASE d \notin Ids
    <3>1. {w \in Wires : w.src \in sources /\ w.dest = d} = {}
      BY <2>2 DEF RowsInv, Wires
    <3>2. Wires' = Wires \ {w \in Wires : w.src \in sources /\ w.dest = d}
      BY <1>3, <1>4
    <3>3. Wires' = Wires
      BY <3>1, <3>2
    <3> QED
      BY <1>1, <3>3 DEF SeenStep, Present, Retired
  <2> QED
    BY <2>1, <2>2
<1>5. PICK d \in Ids \cup {0}, o \in Outcomes :
         DeleteLinksTo(c, d, o) \/ \E s \in Ids \cup {0} : DeleteLink(c, s, d, o)
  BY DEF Delete
<1>6. CASE DeleteLinksTo(c, d, o)
  <2>1. {r \in Rows : r.dest = d} = {r \in Rows : r.src \in Ids /\ r.dest = d}
    BY DEF RowsInv
  <2>2. UNCHANGED link \/ link' = Without({r \in Rows : r.dest = d})
    BY <1>6 DEF DeleteLinksTo
  <2> QED
    BY <1>2, <1>4, <2>1, <2>2
<1>7. ASSUME NEW s \in Ids \cup {0}, DeleteLink(c, s, d, o) PROVE SeenStep
  <2>1. BothEnds(s, d) = {r \in Rows : r.src \in {s} /\ r.dest = d}
    BY DEF BothEnds
  <2>2. UNCHANGED link \/ (s # 0 /\ link' = Without(BothEnds(s, d)))
    BY <1>7 DEF DeleteLink
  <2> QED
    BY <1>2, <1>4, <2>1, <2>2
<1> QED
  BY <1>5, <1>6, <1>7

LEMMA AssetSeen == ASSUME TypeOK, RowsInv, Asset PROVE SeenStep
<1> PICK e \in Ids : AssetInserted(e) \/ AssetDeleted(e)
  BY DEF Asset
<1>1. asset \in [Ids -> {"unborn", "here", "gone"}] /\ Wires' = Wires
  BY DEF TypeOK, AssetInserted, AssetDeleted, Wires, Rows
<1>2. CASE AssetInserted(e)
  <2>1. /\ e \notin Present \cup Retired
        /\ Present' = Present \cup {e} /\ Retired' = Retired
    BY <1>1, <1>2 DEF AssetInserted, Present, Retired
  <2>2. Cables!Appear(e)
    BY <1>1, <2>1 DEF Cables!Appear, Present, Retired, Wires
  <2> QED
    BY <2>2 DEF SeenStep, Cables!CablingNext
<1>3. CASE AssetDeleted(e)
  <2>1. /\ e \in Present /\ \A w \in Wires : e \notin {w.src, w.dest}
        /\ Present' = Present \ {e} /\ Retired' = Retired \cup {e}
    BY <1>1, <1>3 DEF AssetDeleted, Linked, Here, Present, Retired, Wires
  <2>2. Cables!Retire(e)
    BY <1>1, <2>1 DEF Cables!Retire, Present, Retired, Wires
  <2> QED
    BY <2>2 DEF SeenStep, Cables!CablingNext
<1> QED
  BY <1>2, <1>3

LEMMA StepSeen == ASSUME TypeOK, RowsInv, [Next]_vars PROVE SeenStep
<1>1. ASSUME NEW c \in Clients, Single(c) PROVE SeenStep
  BY <1>1, InsertSeen DEF Single, InsertLink
<1>2. ASSUME NEW c \in Clients, NEW o, BatchStep(c, o) PROVE SeenStep
  <2>1. UNCHANGED asset /\ \E l : LinkStatement(l, o)
    BY <1>2, Zenon DEF BatchStep
  <2> QED
    BY <2>1, InsertSeen
<1>3. ASSUME NEW c \in Clients, Continue(c) PROVE SeenStep
  BY <1>2, <1>3, NothingSeen DEF Continue, ResolveSrc, ResolveDest
<1>4. ASSUME NEW c \in Clients, Start(c) \/ Crash(c) PROVE SeenStep
  BY <1>4, NothingSeen DEF Start, StartByIds, StartByNames, Crash
<1>5. CASE UNCHANGED vars
  BY <1>5, NothingSeen DEF vars
<1> QED
  BY <1>1, <1>3, <1>4, <1>5, DeleteSeen, AssetSeen DEF Next

\* Single inserts, batches that stop half-way, retries under another type, late
\* lookups, lost answers and deletes look to a reader of the cabling like wires
\* plugged in one at a time and taken out pair by pair.
THEOREM CablingImplemented == Spec => ImplementsCabling
<1>1. Init => Cables!CablingInit
  BY DEF Init, Cables!CablingInit, Rows, EmptyBag, SetToBag, BagToSet
<1>2. TypeOK /\ RowsInv /\ [Next]_vars => [Cables!CablingNext]_(Cables!cvars)
  BY StepSeen DEF SeenStep, Cables!cvars, Present, Retired, Wires
<1> QED
  BY <1>1, <1>2, InitRows, NextRows, TypeCorrect, PTL
     DEF Spec, ImplementsCabling, Cables!CablingSpec
================================================================================
