--------------------------- MODULE Containers_proof ----------------------------
(***************************************************************************)
(* Proofs about Containers, for every set of assets, links and clients:    *)
(* the rows that the queries' joins rely on are there, the view of parents *)
(* shows what is above an asset, and the queries agree with each other and *)
(* with that.                                                              *)
(*                                                                         *)
(* The chain of parents and the sums are recursive functions.  The library *)
(* has induction only for operators, so what is needed of it is derived    *)
(* here from well-founded orders (WFMin): least numbers, induction over a  *)
(* set of numbers, and the uniqueness of a fold over a finite set.         *)
(***************************************************************************)
EXTENDS Containers, FiniteSetTheorems, TLAPS

\* The part of TypeOK about the tables and the part about the calls.
Tables ==
    /\ asset \in [Ids -> Row \cup {Absent}]
    /\ lastId \in Ids \cup {0} /\ \A i \in Live : i <= lastId
    /\ link \subseteq Links /\ tagged \subseteq Live
    /\ \A i \in Live : ParentOk(asset[i].parent)
    /\ \A l \in link : {l.src, l.dest} \subseteq Live
Calls == /\ DOMAIN call = Clients
         /\ \A c \in Clients : call[c].at \in {"idle", "upses", "filter"}

LEMMA IdsAreNumbers == Ids \subseteq Nat \ {0} /\ 0 \notin Ids
<1>1. Ids = 1 .. Cardinality(Ids) /\ IsFiniteSet(Ids)
  BY ContainerAssumption DEF ContainerAssumption
<1>2. Cardinality(Ids) \in Nat
  BY <1>1, FS_CardinalityType
<1> QED
  BY <1>1, <1>2

\* Writing one row keeps the others.
LEMMA PutRow ==
    ASSUME Tables, NEW i \in Ids, NEW row \in Row, ParentOk(row.parent),
           asset' = [asset EXCEPT ![i] = row],
           lastId' \in Ids, i <= lastId', lastId <= lastId',
           link' = link, tagged' = tagged
    PROVE  Tables'
<1>1. row # Absent /\ asset'[i] = row
  BY ContainerAssumption DEF ContainerAssumption, Tables
<1>2. \A j \in Ids \ {i} : asset'[j] = asset[j]
  BY DEF Tables
<1>3. Live' = Live \cup {i}
  BY <1>1, <1>2 DEF Live
<1>4. asset' \in [Ids -> Row \cup {Absent}]
  BY DEF Tables
<1>5. \A j \in Live' : j <= lastId'
  BY <1>3, IdsAreNumbers DEF Tables, Live
<1>6. \A j \in Live' : ParentOk(asset[j].parent)'
  BY <1>1, <1>2, <1>3 DEF Tables, ParentOk, Live
<1>7. \A l \in link' : {l.src, l.dest} \subseteq Live'
  BY <1>3 DEF Tables
<1> QED
  BY <1>3, <1>4, <1>5, <1>6, <1>7 DEF Tables

LEMMA InsertKeeps ==
    ASSUME Tables, NEW p \in Ids \cup {0}, NEW s \in Statuses, InsertAsset(p, s)
    PROVE  Tables'
<1>1. lastId + 1 \in Ids /\ ParentOk(p)
      /\ asset' = [asset EXCEPT ![lastId + 1] = [parent |-> p, status |-> s]]
      /\ lastId' = lastId + 1 /\ link' = link /\ tagged' = tagged
  BY DEF InsertAsset
<1>2. [parent |-> p, status |-> s] \in Row /\ [parent |-> p, status |-> s].parent = p
  BY DEF Row
<1>3. lastId \in Nat
  BY IdsAreNumbers DEF Tables
<1>4. PICK i \in Ids, row \in Row :
         i = lastId + 1 /\ row = [parent |-> p, status |-> s] /\ row.parent = p
  BY <1>1, <1>2
<1>5. /\ ParentOk(row.parent) /\ asset' = [asset EXCEPT ![i] = row]
      /\ lastId' \in Ids /\ i <= lastId' /\ lastId <= lastId'
  BY <1>1, <1>3, <1>4
<1> QED
  BY <1>1, <1>5, PutRow

LEMMA UpdateKeeps ==
    ASSUME Tables, NEW i \in Ids, NEW p \in Ids \cup {0}, NEW s \in Statuses,
           UpdateAsset(i, p, s)
    PROVE  Tables'
<1>1. i \in Live /\ ParentOk(p)
      /\ asset' = [asset EXCEPT ![i] = [parent |-> p, status |-> s]]
      /\ lastId' = lastId /\ link' = link /\ tagged' = tagged
  BY DEF UpdateAsset
<1>2. [parent |-> p, status |-> s] \in Row /\ [parent |-> p, status |-> s].parent = p
  BY DEF Row
<1>3. lastId \in Nat /\ i <= lastId /\ i \in Nat \ {0} /\ lastId \in Ids
  BY <1>1, IdsAreNumbers DEF Tables
<1>4. PICK row \in Row : row = [parent |-> p, status |-> s] /\ row.parent = p
  BY <1>2
<1>5. /\ ParentOk(row.parent) /\ asset' = [asset EXCEPT ![i] = row]
      /\ lastId' \in Ids /\ i <= lastId' /\ lastId <= lastId'
  BY <1>1, <1>3, <1>4
<1> QED
  BY <1>1, <1>5, PutRow

\* Nothing that stays names the row that goes, except the row itself.
LEMMA DeleteKeeps == ASSUME Tables, NEW i \in Ids, DeleteAsset(i) PROVE Tables'
<1>1. /\ i \in Live /\ asset' = [asset EXCEPT ![i] = Absent]
      /\ lastId' = lastId /\ link' = link /\ tagged' = tagged
      /\ \A j \in Live : j # i => asset[j].parent # i
      /\ \A l \in link : i \notin {l.src, l.dest}
      /\ i \notin tagged
  BY DEF DeleteAsset, Kept, ChildKeeps, LinkKeeps
<1>2. /\ asset' \in [Ids -> Row \cup {Absent}] /\ asset'[i] = Absent
      /\ \A j \in Ids \ {i} : asset'[j] = asset[j]
  BY <1>1 DEF Tables
<1>3. Live' = Live \ {i}
  BY <1>2 DEF Live
<1>4. \A j \in Live' : ParentOk(asset[j].parent)'
  BY <1>1, <1>2, <1>3 DEF Tables, ParentOk, Live
<1> QED
  BY <1>1, <1>2, <1>3, <1>4 DEF Tables

LEMMA LinkAndTagKeep ==
    ASSUME Tables, (\E l \in Links : ChangeLink(l)) \/ (\E i \in Ids : ChangeTag(i))
    PROVE  Tables'
<1>1. ASSUME NEW l \in Links, ChangeLink(l) PROVE Tables'
  <2>1. /\ {l.src, l.dest} \subseteq Live /\ link' \in {link \ {l}, link \cup {l}}
        /\ UNCHANGED <<asset, lastId, tagged>>
    BY <1>1 DEF ChangeLink
  <2> QED
    BY <2>1 DEF Tables, Live, ParentOk
<1>2. ASSUME NEW i \in Ids, ChangeTag(i) PROVE Tables'
  <2>1. /\ i \in Live /\ tagged' \in {tagged \ {i}, tagged \cup {i}}
        /\ UNCHANGED <<asset, lastId, link>>
    BY <1>2 DEF ChangeTag
  <2> QED
    BY <2>1 DEF Tables, Live, ParentOk
<1> QED
  BY <1>1, <1>2

LEMMA NextTables == ASSUME Tables, [Next]_vars PROVE Tables'
<1>1. CASE UNCHANGED tables
  BY <1>1 DEF tables, Tables, Live, ParentOk
<1>2. CASE Write
  BY <1>2, InsertKeeps, UpdateKeeps, DeleteKeeps, LinkAndTagKeep DEF Write
<1>3. ASSUME NEW c \in Clients, Read(c) PROVE Tables'
  BY <1>1, <1>3 DEF Read, LookUp, SelectUpses, SelectByName
<1> QED
  BY <1>1, <1>2, <1>3 DEF Next, vars, tables

LEMMA NextCallsOk ==
    ASSUME Calls, [Next]_vars
    PROVE  Calls'
<1>1. CASE UNCHANGED call
  BY <1>1 DEF Calls
<1>2. ASSUME NEW c \in Clients, Read(c) PROVE Calls'
  <2>1. ASSUME NEW op \in {"upses", "filter"}, NEW n, NEW o, LookUp(c, op, n, o)
        PROVE  Calls'
    <3> DEFINE id == Lookup(n, o)
               holder == IF Holders(n) = {} THEN -1 ELSE CHOOSE i \in Holders(n) : TRUE
    <3>1. UNCHANGED call \/
          call' = [call EXCEPT ![c] = [at |-> op, name |-> n, id |-> id, holder |-> holder]]
      BY <2>1, Zenon DEF LookUp
    <3> HIDE DEF id, holder
    <3>2. PICK new : new = [at |-> op, name |-> n, id |-> id, holder |-> holder]
      OBVIOUS
    <3>3. new.at \in {"idle", "upses", "filter"}
      BY <3>2
    <3>4. CASE call' = [call EXCEPT ![c] = new]
      BY <1>2, <3>3, <3>4 DEF Calls
    <3> QED
      BY <1>1, <3>1, <3>2, <3>4, Zenon
  <2>2. ASSUME call' = [call EXCEPT ![c] = Idle] PROVE Calls'
    <3>1. Idle.at \in {"idle", "upses", "filter"}
      BY DEF Idle
    <3> QED
      BY <1>2, <2>2, <3>1 DEF Calls
  <2> QED
    BY <1>2, <2>1, <2>2, Zenon DEF Read, SelectUpses, SelectByName
<1>3. CASE Write
  BY <1>1, <1>3 DEF Write
<1> QED
  BY <1>1, <1>2, <1>3 DEF Next, vars

--------------------------------------------------------------------------------
(* Least numbers, induction over them, and the chain of parents *)

LEMMA LeastNat ==
    ASSUME NEW T \in SUBSET Nat, T # {}
    PROVE  \E x \in T : \A y \in T : x <= y
<1>1. PICK x \in T : \A y \in T : ~(<<y, x>> \in OpToRel(<, Nat))
  BY WFMin, NatLessThanWellFounded, Zenon
<1>2. ASSUME NEW y \in T, y < x PROVE FALSE
  <2>1. <<y, x>> \in OpToRel(<, Nat)
    BY <1>2, Zenon DEF OpToRel
  <2> QED
    BY <1>1, <2>1
<1>3. \A y \in T : x <= y
  BY <1>2
<1> QED
  BY <1>3

LEMMA SetInduction ==
    ASSUME NEW S, 0 \in S, \A n \in Nat : n \in S => n + 1 \in S
    PROVE  Nat \subseteq S
<1> SUFFICES ASSUME Nat \ S # {} PROVE FALSE
  OBVIOUS
<1>1. PICK x \in Nat \ S : \A y \in Nat \ S : x <= y
  BY LeastNat
<1> QED
  BY <1>1

\* The recursion in IdParent defines what it says: each column is the parent of the
\* asset in the column before it, or 0.
Up(x) == IF x \in Live THEN asset[x].parent ELSE 0

LEMMA ChainIs ==
    ASSUME NEW i
    PROVE  /\ DOMAIN IdParent(i) = 1 .. Levels
           /\ \A n \in 1 .. Levels :
                 IdParent(i)[n] = Up(IF n = 1 THEN i ELSE IdParent(i)[n - 1])
<1> DEFINE Chain(g, k) == \A n \in 1 .. k : g[n] = Up(IF n = 1 THEN i ELSE g[n - 1])
           S == {k \in Nat : \E g : Chain(g, k)}
<1>1. Nat \subseteq S
  <2>1. 0 \in S
    OBVIOUS
  <2>2. ASSUME NEW k \in Nat, k \in S PROVE k + 1 \in S
    <3>1. PICK g : Chain(g, k)
      BY <2>2
    <3> DEFINE h == [n \in 1 .. k + 1 |->
                        IF n = k + 1 THEN Up(IF k = 0 THEN i ELSE g[k]) ELSE g[n]]
    <3>2. Chain(h, k + 1)
      BY <3>1
    <3> HIDE DEF h
    <3> QED
      BY <3>2
  <2> QED
    BY <2>1, <2>2, SetInduction
<1>2. Levels \in Nat /\ \E g : Chain(g, Levels)
  BY <1>1, ContainerAssumption DEF ContainerAssumption
<1> PICK g : Chain(g, Levels)
  BY <1>2
<1> DEFINE up == [n \in 1 .. Levels |-> g[n]]
<1>3. up = [n \in 1 .. Levels |->
              LET below == IF n = 1 THEN i ELSE up[n - 1] IN
              IF below \in Live THEN asset[below].parent ELSE 0]
  BY <1>2 DEF Up
<1>4. IdParent(i) = [n \in 1 .. Levels |->
              LET below == IF n = 1 THEN i ELSE IdParent(i)[n - 1] IN
              IF below \in Live THEN asset[below].parent ELSE 0]
  BY <1>3, Zenon DEF IdParent
<1> QED
  BY <1>4 DEF Up

LEMMA ChainSteps ==
    ASSUME Tables, NEW i \in Live
    PROVE  /\ Levels \in Nat \ {0} /\ 0 \notin Live
           /\ \A n \in 1 .. Levels : IdParent(i)[n] \in Live \cup {0}
           /\ IdParent(i)[1] = asset[i].parent
           /\ \A n \in 1 .. Levels : n + 1 \in 1 .. Levels =>
                 IdParent(i)[n + 1] = IF IdParent(i)[n] = 0 THEN 0
                                      ELSE asset[IdParent(i)[n]].parent
<1>1. Levels \in Nat \ {0}
  BY ContainerAssumption DEF ContainerAssumption
<1>2. 0 \notin Live
  BY IdsAreNumbers DEF Live
<1>3. \A x : Up(x) \in Live \cup {0}
  BY DEF Up, Tables, ParentOk
<1>4. ASSUME NEW n \in 1 .. Levels PROVE IdParent(i)[n] \in Live \cup {0}
  BY <1>3, ChainIs
<1>5. IdParent(i)[1] = asset[i].parent
  <2>1. IdParent(i)[1] = Up(i)
    BY <1>1, ChainIs
  <2> QED
    BY <2>1 DEF Up
<1>6. ASSUME NEW n \in 1 .. Levels, n + 1 \in 1 .. Levels
      PROVE  IdParent(i)[n + 1] = IF IdParent(i)[n] = 0 THEN 0
                                  ELSE asset[IdParent(i)[n]].parent
  <2>1. IdParent(i)[n + 1] = Up(IF n + 1 = 1 THEN i ELSE IdParent(i)[(n + 1) - 1])
    BY <1>6, ChainIs
  <2>2. IdParent(i)[n + 1] = Up(IdParent(i)[n])
    BY <2>1, <1>1
  <2> QED
    BY <2>2, <1>2, <1>4 DEF Up
<1> QED
  BY <1>1, <1>2, <1>4, <1>5, <1>6

\* Above an asset that is in nothing the view shows nothing more.
LEMMA ChainEnds ==
    ASSUME Tables, NEW i \in Live, NEW m \in 1 .. Levels, NEW n \in 1 .. Levels,
           m <= n, IdParent(i)[m] = 0
    PROVE  IdParent(i)[n] = 0
<1> DEFINE S == {k \in Nat : m + k \in 1 .. Levels => IdParent(i)[m + k] = 0}
<1>1. 0 \in S
  OBVIOUS
<1>2. ASSUME NEW k \in Nat, k \in S PROVE k + 1 \in S
  <2>1. CASE m + (k + 1) \in 1 .. Levels
    <3>1. m + k \in 1 .. Levels /\ m + (k + 1) = (m + k) + 1
      BY <2>1, ChainSteps
    <3>2. IdParent(i)[(m + k) + 1] = 0
      BY <1>2, <2>1, <3>1, ChainSteps
    <3> QED
      BY <3>1, <3>2
  <2> QED
    BY <2>1
<1>3. Nat \subseteq S
  BY <1>1, <1>2, SetInduction
<1>4. n - m \in Nat /\ m + (n - m) = n
  OBVIOUS
<1> QED
  BY <1>3, <1>4

--------------------------------------------------------------------------------
(* What is above an asset, and what of it the view shows *)

Closed(S) == \A j \in S : {asset[j].parent} \ {0} \subseteq S
Shown(i) == {IdParent(i)[n] : n \in 1 .. Levels} \ {0}

LEMMA BelowIs ==
    ASSUME NEW i, NEW c
    PROVE  Below(i, c) <=>
              \A S \in SUBSET Live :
                 (asset[i].parent # 0 => asset[i].parent \in S) /\ Closed(S) => c \in S
BY DEF Below, Closed

LEMMA InContainerIsShown == ASSUME NEW c, NEW i PROVE InContainer(c, i) <=> c \in Shown(i)
BY DEF InContainer, Shown

\* Every set that holds the parent of an asset and is closed under parents holds
\* all of the chain.
LEMMA ShownInClosed ==
    ASSUME Tables, NEW i \in Live, NEW S \in SUBSET Live, Closed(S),
           asset[i].parent # 0 => asset[i].parent \in S
    PROVE  Shown(i) \subseteq S
<1> DEFINE T == {k \in Nat : k + 1 \in 1 .. Levels => IdParent(i)[k + 1] \in S \cup {0}}
<1>1. 0 \in T
  BY ChainSteps
<1>2. ASSUME NEW k \in Nat, k \in T PROVE k + 1 \in T
  <2>1. CASE (k + 1) + 1 \in 1 .. Levels
    <3>1. k + 1 \in 1 .. Levels
      BY <2>1, ChainSteps
    <3>2. CASE IdParent(i)[k + 1] = 0
      BY <2>1, <3>1, <3>2, ChainSteps
    <3>3. CASE IdParent(i)[k + 1] # 0
      <4>1. IdParent(i)[k + 1] \in S
        BY <1>2, <3>1, <3>3
      <4>2. IdParent(i)[(k + 1) + 1] = asset[IdParent(i)[k + 1]].parent
        BY <2>1, <3>1, <3>3, ChainSteps
      <4> QED
        BY <4>1, <4>2 DEF Closed
    <3> QED
      BY <3>2, <3>3
  <2> QED
    BY <2>1
<1>3. Nat \subseteq T
  BY <1>1, <1>2, SetInduction
<1>4. ASSUME NEW n \in 1 .. Levels PROVE IdParent(i)[n] \in S \cup {0}
  <2>1. n - 1 \in Nat /\ (n - 1) + 1 = n
    OBVIOUS
  <2> QED
    BY <1>3, <2>1
<1> QED
  BY <1>4 DEF Shown

LEMMA ShownIsAbove ==
    ASSUME Tables, NEW i \in Live
    PROVE  Shown(i) \subseteq Above(i)
<1>1. ASSUME NEW c \in Shown(i) PROVE c \in Above(i)
  <2>1. c \in Live
    BY ChainSteps DEF Shown
  <2>2. Below(i, c)
    BY ShownInClosed, BelowIs
  <2> QED
    BY <2>1, <2>2 DEF Above
<1> QED
  BY <1>1

\* What is above an asset is in every closed set with its parent.
LEMMA AboveInClosed ==
    ASSUME NEW i, NEW S \in SUBSET Live, Closed(S),
           asset[i].parent # 0 => asset[i].parent \in S
    PROVE  Above(i) \subseteq S
BY BelowIs DEF Above

LEMMA FiniteLive == IsFiniteSet(Live) /\ \A i : IsFiniteSet(Above(i))
<1>1. IsFiniteSet(Ids) /\ Live \subseteq Ids
  BY ContainerAssumption DEF ContainerAssumption, Live
<1>2. IsFiniteSet(Live)
  BY <1>1, FS_Subset
<1>3. \A i : Above(i) \subseteq Live
  BY DEF Above
<1> QED
  BY <1>2, <1>3, FS_Subset

\* Three ways a chain of Levels parents can go: it ends at an asset that is in
\* nothing, it comes back to where it was, or it shows Levels different assets.
LEMMA ShownIsAllAbove ==
    ASSUME Tables, NEW i \in Live, Cardinality(Above(i)) <= Levels
    PROVE  Shown(i) = Above(i)
<1> DEFINE up(n) == IdParent(i)[n]
<1>1. Levels \in Nat \ {0} /\ 0 \notin Live /\ \A n \in 1 .. Levels : up(n) \in Live \cup {0}
  BY ChainSteps
<1>2. \A n \in 1 .. Levels : n + 1 \in 1 .. Levels /\ up(n) # 0 => up(n + 1) = asset[up(n)].parent
  BY ChainSteps
<1>3. up(1) = asset[i].parent
  BY ChainSteps
<1>4. CASE \E n \in 1 .. Levels : up(n) = 0
  <2>1. PICK n \in 1 .. Levels : up(n) = 0
    BY <1>4
  <2>2. ASSUME NEW m \in 1 .. Levels, up(m) # 0
        PROVE  m + 1 \in 1 .. Levels
    BY <2>1, <2>2, <1>1, ChainEnds
  <2>3. Closed(Shown(i))
    BY <1>2, <2>2 DEF Closed, Shown
  <2>4. Shown(i) \subseteq Live /\ (asset[i].parent # 0 => asset[i].parent \in Shown(i))
    BY <1>1, <1>3 DEF Shown
  <2> QED
    BY <2>3, <2>4, AboveInClosed, ShownIsAbove
<1>5. CASE \E m, n \in 1 .. Levels : m < n /\ up(m) = up(n)
  <2>1. PICK m \in 1 .. Levels, n \in 1 .. Levels : m < n /\ up(m) = up(n)
    BY <1>5
  <2> DEFINE S == {up(k) : k \in 1 .. n - 1} \ {0}
  <2>2. Closed(S)
    <3>1. ASSUME NEW k \in 1 .. n - 1, up(k) # 0
          PROVE  asset[up(k)].parent \in S \cup {0}
      <4>1. k \in 1 .. Levels /\ k + 1 \in 1 .. Levels
        BY <1>1
      <4>2. asset[up(k)].parent = up(k + 1)
        BY <1>2, <3>1, <4>1
      <4>3. CASE k = n - 1
        BY <2>1, <4>2, <4>3
      <4>4. CASE k # n - 1
        <5>1. k + 1 \in 1 .. n - 1
          BY <4>4
        <5> QED
          BY <4>2, <5>1
      <4> QED
        BY <4>3, <4>4
    <3> QED
      BY <3>1 DEF Closed
  <2>3. S \subseteq Shown(i) /\ S \subseteq Live
    BY <1>1 DEF Shown
  <2>4. asset[i].parent # 0 => asset[i].parent \in S
    BY <1>3, <2>1
  <2> QED
    BY <2>2, <2>3, <2>4, AboveInClosed, ShownIsAbove
<1>6. CASE /\ \A n \in 1 .. Levels : up(n) # 0
           /\ \A m, n \in 1 .. Levels : m < n => up(m) # up(n)
  <2> DEFINE f == [n \in 1 .. Levels |-> up(n)]
  <2>1. \A n \in 1 .. Levels : up(n) \in Above(i)
    BY <1>6, ShownIsAbove DEF Shown
  <2>2. f \in Injection(1 .. Levels, Above(i))
    <3>1. f \in [1 .. Levels -> Above(i)]
      BY <2>1
    <3>2. \A m, n \in 1 .. Levels : f[m] = f[n] => m = n
      BY <1>6, <1>1
    <3> HIDE DEF f
    <3> QED
      BY <3>1, <3>2 DEF Injection, IsInjective
  <2>3. /\ Cardinality(1 .. Levels) <= Cardinality(Above(i))
        /\ Cardinality(1 .. Levels) = Cardinality(Above(i)) => f \in Surjection(1 .. Levels, Above(i))
    BY <2>2, FiniteLive, FS_Injection
  <2>4. Cardinality(1 .. Levels) = Levels
    BY <1>1, FS_Interval
  <2>5. Cardinality(Above(i)) \in Nat
    BY FiniteLive, FS_CardinalityType
  <2>6. f \in Surjection(1 .. Levels, Above(i))
    BY <1>1, <2>3, <2>4, <2>5
  <2>7. \A c \in Above(i) : \E n \in 1 .. Levels : f[n] = c
    BY <2>6 DEF Surjection
  <2> QED
    BY <1>6, <2>7, ShownIsAbove DEF Shown
<1> QED
  BY <1>1, <1>4, <1>5, <1>6

\* InContainer answers for every container what Below says of it.
LEMMA TablesMeanWhatIsBelow == ASSUME Tables PROVE ContainerHoldsWhatIsBelow
<1>1. ASSUME NEW c \in Live, NEW i \in Live, InContainer(c, i) PROVE Below(i, c)
  BY <1>1, InContainerIsShown, ShownIsAbove DEF Above
<1>2. ASSUME NEW c \in Live, NEW i \in Live, Below(i, c), Cardinality(Above(i)) <= Levels
      PROVE  InContainer(c, i)
  BY <1>2, InContainerIsShown, ShownIsAllAbove DEF Above
<1> QED
  BY <1>1, <1>2 DEF ContainerHoldsWhatIsBelow

--------------------------------------------------------------------------------
(* Roots, and what is found from them *)

\* A column of the chain is above every column before it.
LEMMA LaterIsAbove ==
    ASSUME Tables, NEW i \in Live, NEW m \in 1 .. Levels, NEW n \in 1 .. Levels,
           m < n, IdParent(i)[n] # 0
    PROVE  Below(IdParent(i)[m], IdParent(i)[n])
<1> DEFINE up(k) == IdParent(i)[k]
<1>0. Levels \in Nat
  BY ChainSteps
<1>1. up(m) \in Live /\ up(m + 1) = asset[up(m)].parent /\ m + 1 \in 1 .. Levels
  BY ChainSteps, ChainEnds
<1>2. ASSUME NEW S \in SUBSET Live, Closed(S), asset[up(m)].parent # 0 => asset[up(m)].parent \in S
      PROVE  up(n) \in S
  <2> DEFINE T == {k \in Nat : (m + 1) + k \in 1 .. n => up((m + 1) + k) \in S}
  <2>1. 0 \in T
    <3>1. up(m + 1) # 0
      BY <1>1, ChainEnds
    <3> QED
      BY <1>1, <1>2, <3>1
  <2>2. ASSUME NEW k \in Nat, k \in T PROVE k + 1 \in T
    <3>1. CASE (m + 1) + (k + 1) \in 1 .. n
      <4>1. /\ (m + 1) + k \in 1 .. n /\ (m + 1) + k \in 1 .. Levels
            /\ ((m + 1) + k) + 1 \in 1 .. Levels /\ (m + 1) + (k + 1) = ((m + 1) + k) + 1
        BY <1>0, <3>1
      <4>2. up((m + 1) + k) \in S /\ up(((m + 1) + k) + 1) # 0
        BY <2>2, <3>1, <4>1, ChainEnds
      <4>3. up(((m + 1) + k) + 1) = asset[up((m + 1) + k)].parent
        BY <4>1, <4>2, ChainSteps
      <4> QED
        BY <1>2, <4>1, <4>2, <4>3 DEF Closed
    <3> QED
      BY <3>1
  <2>3. Nat \subseteq T
    BY <2>1, <2>2, SetInduction
  <2>4. n - (m + 1) \in Nat /\ (m + 1) + (n - (m + 1)) = n
    OBVIOUS
  <2> QED
    BY <2>3, <2>4
<1> QED
  BY <1>2, BelowIs

Roots == AssetsWithoutContainer([types |-> {}, subtypes |-> {}])

LEMMA RootsAre == Roots = {x \in Live : asset[x].parent = 0}
BY DEF Roots, AssetsWithoutContainer, InLists

LEMMA DcIs == ASSUME NEW c PROVE ElementsByDc(c) = {i \in Live : i = c \/ c \in Shown(i)}
BY InContainerIsShown DEF ElementsByDc

\* The view shows nothing above a root.
LEMMA NothingAboveRoot ==
    ASSUME Tables, NEW r \in Live, asset[r].parent = 0
    PROVE  Shown(r) = {}
<1>1. 1 \in 1 .. Levels /\ IdParent(r)[1] = 0
  BY ChainSteps
<1>2. \A n \in 1 .. Levels : IdParent(r)[n] = 0
  BY <1>1, ChainEnds
<1> QED
  BY <1>2 DEF Shown

\* The chain of an asset that is neither too deep nor below a circle ends at the
\* one root it is under.
LEMMA OneRootShown ==
    ASSUME Tables, NEW i \in Live, asset[i].parent # 0,
           Cardinality(Above(i)) <= Levels, \A c \in Above(i) : ~Below(c, c)
    PROVE  \E r \in Live : \A x \in Live : asset[x].parent = 0 /\ x \in Shown(i) <=> x = r
<1> DEFINE up(n) == IdParent(i)[n]
<1>1. Levels \in Nat \ {0} /\ 0 \notin Live /\ \A n \in 1 .. Levels : up(n) \in Live \cup {0}
  BY ChainSteps
<1>2. \A n \in 1 .. Levels : n + 1 \in 1 .. Levels /\ up(n) # 0 => up(n + 1) = asset[up(n)].parent
  BY ChainSteps
<1>3. \A n, m \in 1 .. Levels : m <= n /\ up(m) = 0 => up(n) = 0
  BY ChainEnds
<1>4. up(1) # 0
  BY ChainSteps
<1>5. ASSUME NEW n \in 1 .. Levels, up(n) # 0, asset[up(n)].parent = 0,
             NEW m \in 1 .. Levels, up(m) # 0, asset[up(m)].parent = 0
      PROVE  up(m) = up(n)
  <2>1. CASE m < n
    <3>1. m + 1 \in 1 .. Levels /\ m + 1 <= n
      BY <1>1, <2>1
    <3> QED
      BY <1>2, <1>3, <1>5, <3>1
  <2>2. CASE n < m
    <3>1. n + 1 \in 1 .. Levels /\ n + 1 <= m
      BY <1>1, <2>2
    <3> QED
      BY <1>2, <1>3, <1>5, <3>1
  <2> QED
    BY <2>1, <2>2
<1>6. ASSUME NEW n \in 1 .. Levels, up(n) # 0, asset[up(n)].parent = 0
      PROVE  \A x \in Live : asset[x].parent = 0 /\ x \in Shown(i) <=> x = up(n)
  <2>1. up(n) \in Shown(i) /\ up(n) \in Live
    BY <1>1, <1>6 DEF Shown
  <2>2. ASSUME NEW x \in Live, asset[x].parent = 0, x \in Shown(i) PROVE x = up(n)
    <3>1. PICK m \in 1 .. Levels : x = up(m) /\ up(m) # 0
      BY <2>2 DEF Shown
    <3> QED
      BY <1>5, <1>6, <2>2, <3>1
  <2> QED
    BY <1>6, <2>1, <2>2
<1>7. CASE \E n \in 1 .. Levels : up(n) = 0
  <2> DEFINE Z == {n \in 1 .. Levels : up(n) = 0}
  <2>1. PICK n \in Z : \A m \in Z : n <= m
    <3>1. Z \in SUBSET Nat /\ Z # {}
      BY <1>7
    <3> QED
      BY <3>1, LeastNat
  <2>2. n - 1 \in 1 .. Levels /\ n - 1 < n /\ (n - 1) + 1 = n
    BY <1>1, <1>4, <2>1
  <2>3. up(n - 1) # 0
    BY <2>1, <2>2
  <2>4. asset[up(n - 1)].parent = 0
    BY <1>2, <2>1, <2>2, <2>3
  <2> QED
    BY <1>1, <1>6, <2>2, <2>3, <2>4
<1>8. CASE \A n \in 1 .. Levels : up(n) # 0
  <2> DEFINE p == asset[up(Levels)].parent
  <2>1. Levels \in 1 .. Levels /\ up(Levels) \in Live /\ up(Levels) \in Above(i)
    BY <1>1, <1>8, ShownIsAbove DEF Shown
  <2>2. CASE p = 0
    BY <1>1, <1>6, <2>1, <2>2
  <2>3. CASE p # 0
    <3>1. p \in Above(i)
      <4>1. p \in Live
        BY <2>1, <2>3 DEF Tables, ParentOk
      <4>2. ASSUME NEW S \in SUBSET Live, Closed(S), asset[i].parent # 0 => asset[i].parent \in S
            PROVE  p \in S
        <5>1. up(Levels) \in S
          BY <2>1, <4>2, BelowIs DEF Above
        <5> QED
          BY <2>3, <4>2, <5>1 DEF Closed
      <4> QED
        BY <4>1, <4>2, BelowIs DEF Above
    <3>2. PICK m \in 1 .. Levels : p = up(m)
      BY <3>1, ShownIsAllAbove DEF Shown
    <3>3. Below(p, up(Levels)) \/ p = up(Levels)
      BY <1>1, <1>8, <2>1, <3>2, LaterIsAbove
    <3>4. ASSUME NEW S \in SUBSET Live, Closed(S), asset[p].parent # 0 => asset[p].parent \in S
          PROVE  p \in S
      <4>1. CASE up(Levels) \in S
        BY <2>3, <3>4, <4>1 DEF Closed
      <4>2. CASE p = up(Levels)
        BY <2>3, <3>4, <4>2
      <4> QED
        BY <3>3, <3>4, <4>1, <4>2, BelowIs
    <3>5. Below(p, p)
      BY <3>4, BelowIs
    <3> QED
      BY <3>1, <3>5
  <2> QED
    BY <2>2, <2>3
<1> QED
  BY <1>7, <1>8

LEMMA TablesListUnderOneRoot == ASSUME Tables PROVE ListedUnderOneRoot
<1> SUFFICES ASSUME NEW i \in Live, Cardinality(Above(i)) <= Levels,
                    \A c \in Above(i) : ~Below(c, c)
             PROVE  \E r \in Live : {x \in Roots : i \in ElementsByDc(x)} = {r}
  BY DEF ListedUnderOneRoot, Roots
<1>1. {x \in Roots : i \in ElementsByDc(x)} =
         {x \in Live : asset[x].parent = 0 /\ (i = x \/ x \in Shown(i))}
  BY RootsAre, DcIs
<1>2. CASE asset[i].parent = 0
  BY <1>1, <1>2, NothingAboveRoot
<1>3. CASE asset[i].parent # 0
  <2>1. PICK r \in Live : \A x \in Live : asset[x].parent = 0 /\ x \in Shown(i) <=> x = r
    BY <1>3, OneRootShown
  <2>2. \A x \in Live : asset[x].parent = 0 => i # x
    BY <1>3
  <2>3. {x \in Roots : i \in ElementsByDc(x)} = {r}
    BY <1>1, <2>1, <2>2
  <2> QED
    BY <2>3
<1> QED
  BY <1>2, <1>3

LEMMA TablesShowLinksFromRoots == ASSUME Tables PROVE PowerLinksSeenFromRoots
<1> SUFFICES ASSUME NEW r \in Roots, NEW l \in PowerLinks,
                    asset[l.src].status = "active", asset[l.dest].status = "active"
             PROVE  <<l.src, l.dest>> \in LinksByContainer(r, "active", "done") <=>
                       {l.src, l.dest} \cap (ElementsByDc(r) \ {r}) # {}
  BY DEF PowerLinksSeenFromRoots, Roots
<1>1. {l.src, l.dest} \subseteq Live /\ r \in Live /\ Shown(r) = {}
  BY RootsAre, NothingAboveRoot DEF Tables, PowerLinks
<1>2. ElementsByDc(r) \ {r} = {i \in Live : r \in Shown(i)}
  BY <1>1, DcIs
<1>3. <<l.src, l.dest>> \in LinksByContainer(r, "active", "done") <=>
         r \in Shown(l.src) \/ r \in Shown(l.dest)
  <2> DEFINE listed == {k \in PowerLinks : /\ asset[k.src].status = "active"
                                           /\ asset[k.dest].status = "active"
                                           /\ InContainer(r, k.src) \/ InContainer(r, k.dest)}
  <2>1. LinksByContainer(r, "active", "done") = {<<k.src, k.dest>> : k \in listed}
    BY DEF LinksByContainer
  <2>2. <<l.src, l.dest>> \in {<<k.src, k.dest>> : k \in listed} <=>
           InContainer(r, l.src) \/ InContainer(r, l.dest)
    OBVIOUS
  <2> QED
    BY <2>1, <2>2, InContainerIsShown
<1> QED
  BY <1>1, <1>2, <1>3

--------------------------------------------------------------------------------
(* The inductive invariant *)

\* A name that can be looked up leads to one row.
UniqueNames == \A i, j \in Live : Given[i].name = Given[j].name => i = j

\* A client between its two statements has the id of the row that bore the name, or
\* 0 for the empty name, which no row bears.
CallsNamed ==
    \A c \in Clients : call[c].at # "idle" =>
        /\ call[c].name = "" => call[c].id = 0 /\ call[c].holder = -1
        /\ call[c].name # "" => call[c].id = call[c].holder /\ call[c].holder \in Ids

IInv == Tables /\ Calls /\ UniqueNames /\ IsFiniteSet(link) /\ CallsNamed

LEMMA NextNames == ASSUME Tables, UniqueNames, [Next]_vars PROVE UniqueNames'
<1>1. CASE UNCHANGED asset
  BY <1>1 DEF UniqueNames, Live
<1>2. ASSUME NEW p \in Ids \cup {0}, NEW s \in Statuses, InsertAsset(p, s) PROVE UniqueNames'
  <2>1. /\ asset' = [asset EXCEPT ![lastId + 1] = [parent |-> p, status |-> s]]
        /\ \A j \in Live : Given[j].name # Given[lastId + 1].name
    BY <1>2 DEF InsertAsset
  <2>2. Live' \subseteq Live \cup {lastId + 1}
    BY <2>1 DEF Live, Tables
  <2> QED
    BY <2>1, <2>2 DEF UniqueNames
<1>3. ASSUME NEW i \in Ids, NEW p \in Ids \cup {0}, NEW s \in Statuses, UpdateAsset(i, p, s)
      PROVE  UniqueNames'
  <2>1. i \in Live /\ asset' = [asset EXCEPT ![i] = [parent |-> p, status |-> s]]
    BY <1>3 DEF UpdateAsset
  <2>2. Live' \subseteq Live
    BY <2>1 DEF Live, Tables
  <2> QED
    BY <2>2 DEF UniqueNames
<1>4. ASSUME NEW i \in Ids, DeleteAsset(i) PROVE UniqueNames'
  <2>1. asset' = [asset EXCEPT ![i] = Absent]
    BY <1>4 DEF DeleteAsset
  <2>2. Live' \subseteq Live
    BY <2>1 DEF Live, Tables
  <2> QED
    BY <2>2 DEF UniqueNames
<1>5. CASE Write
  BY <1>1, <1>2, <1>3, <1>4, <1>5 DEF Write, ChangeTag, ChangeLink
<1>6. ASSUME NEW c \in Clients, Read(c) PROVE UniqueNames'
  BY <1>1, <1>6 DEF Read, LookUp, SelectUpses, SelectByName, tables
<1> QED
  BY <1>1, <1>5, <1>6 DEF Next, vars

LEMMA NextFinite == ASSUME IsFiniteSet(link), [Next]_vars PROVE IsFiniteSet(link)'
<1>1. CASE UNCHANGED link
  BY <1>1
<1>2. ASSUME NEW l \in Links, ChangeLink(l) PROVE IsFiniteSet(link)'
  BY <1>2, FS_AddElement, FS_RemoveElement DEF ChangeLink
<1>3. CASE Write
  BY <1>1, <1>2, <1>3 DEF Write, InsertAsset, UpdateAsset, DeleteAsset, ChangeTag
<1>4. ASSUME NEW c \in Clients, Read(c) PROVE IsFiniteSet(link)'
  BY <1>1, <1>4 DEF Read, LookUp, SelectUpses, SelectByName, tables
<1> QED
  BY <1>1, <1>3, <1>4 DEF Next, vars

Holder(n) == IF Holders(n) = {} THEN -1 ELSE CHOOSE i \in Holders(n) : TRUE

LEMMA LookupIs ==
    ASSUME NEW n, NEW o
    PROVE  \/ Lookup(n, o) = -1
           \/ n = "" /\ Lookup(n, o) = 0 /\ Holder(n) = -1
           \/ n # "" /\ Lookup(n, o) = Holder(n) /\ Holder(n) \in Ids
<1>1. CASE n = ""
  <2>1. \A i \in Live : Given[i].name # n
    BY <1>1, ContainerAssumption DEF ContainerAssumption, Names, Live
  <2> QED
    BY <1>1, <2>1 DEF Lookup, Holder, Holders
<1>2. CASE n # "" /\ Holders(n) # {} /\ o # "thrown"
  <2>1. Holder(n) \in Holders(n) /\ Lookup(n, o) = Holder(n)
    <3>1. PICK i : i \in Holders(n)
      BY <1>2
    <3>2. (CHOOSE j \in Holders(n) : TRUE) \in Holders(n)
      BY <3>1, Zenon
    <3> QED
      BY <1>2, <3>2 DEF Lookup, Holder
  <2>2. Holders(n) \subseteq Ids
    BY DEF Holders, Live
  <2> QED
    BY <1>2, <2>1, <2>2
<1>3. CASE n # "" /\ (Holders(n) = {} \/ o = "thrown")
  BY <1>3 DEF Lookup
<1> QED
  BY <1>1, <1>2, <1>3

LEMMA NextCallsNamed == ASSUME Calls, CallsNamed, [Next]_vars PROVE CallsNamed'
<1>1. CASE UNCHANGED call
  BY <1>1 DEF CallsNamed
<1>2. ASSUME NEW c \in Clients, NEW new, call' = [call EXCEPT ![c] = new],
             new.at # "idle" =>
                /\ new.name = "" => new.id = 0 /\ new.holder = -1
                /\ new.name # "" => new.id = new.holder /\ new.holder \in Ids
      PROVE  CallsNamed'
  <2>1. call'[c] = new /\ \A d \in Clients \ {c} : call'[d] = call[d]
    BY <1>2 DEF Calls
  <2> QED
    BY <1>2, <2>1 DEF CallsNamed
<1>3. ASSUME NEW c \in Clients, NEW op, NEW n, NEW o, LookUp(c, op, n, o)
      PROVE  CallsNamed'
  <2> DEFINE id == Lookup(n, o)
  <2>1. \/ UNCHANGED call
        \/ /\ ~(id < 0)
           /\ call' = [call EXCEPT ![c] = [at |-> op, name |-> n, id |-> id, holder |-> Holder(n)]]
    BY <1>3, Zenon DEF LookUp, Holder
  <2>2. \/ id = -1
        \/ n = "" /\ id = 0 /\ Holder(n) = -1
        \/ n # "" /\ id = Holder(n) /\ Holder(n) \in Ids
    BY LookupIs
  <2> HIDE DEF id
  <2>3. PICK new : new = [at |-> op, name |-> n, id |-> id, holder |-> Holder(n)]
    OBVIOUS
  <2>4. /\ new.name = n /\ new.id = id /\ new.holder = Holder(n)
        /\ id = -1 => id < 0
    BY <2>3
  <2>5. CASE id = -1
    BY <1>1, <2>1, <2>4, <2>5
  <2>6. CASE id # -1
    <3>1. new.at # "idle" =>
             /\ new.name = "" => new.id = 0 /\ new.holder = -1
             /\ new.name # "" => new.id = new.holder /\ new.holder \in Ids
      BY <2>2, <2>4, <2>6
    <3> QED
      BY <1>1, <1>2, <2>1, <2>3, <3>1
  <2> QED
    BY <2>5, <2>6
<1>4. ASSUME NEW c \in Clients, call' = [call EXCEPT ![c] = Idle] PROVE CallsNamed'
  BY <1>2, <1>4 DEF Idle
<1>5. ASSUME NEW c \in Clients, Read(c) PROVE CallsNamed'
  BY <1>3, <1>4, <1>5, Zenon DEF Read, SelectUpses, SelectByName
<1> QED
  BY <1>1, <1>5 DEF Next, Write, vars

LEMMA InitIInv == Init => IInv
<1> SUFFICES ASSUME Init PROVE IInv
  OBVIOUS
<1>1. Live = {} /\ asset \in [Ids -> Row \cup {Absent}]
  BY DEF Init, Live
<1>2. Idle.at = "idle"
  BY DEF Idle
<1>3. Calls /\ CallsNamed
  BY <1>2 DEF Init, Calls, CallsNamed
<1>4. lastId = 0 /\ link = {} /\ tagged = {}
  BY DEF Init
<1>5. Tables
  BY <1>1, <1>4 DEF Tables
<1>6. UniqueNames /\ IsFiniteSet(link)
  BY <1>1, <1>4, FS_EmptySet DEF UniqueNames
<1> QED
  BY <1>3, <1>5, <1>6 DEF IInv

LEMMA NextIInv == IInv /\ [Next]_vars => IInv'
BY NextTables, NextCallsOk, NextNames, NextFinite, NextCallsNamed DEF IInv

--------------------------------------------------------------------------------
(* The queries about one asset, and the lists *)

LEMMA OneHolder ==
    ASSUME UniqueNames, NEW i \in Live
    PROVE  Holders(Given[i].name) = {i}
BY DEF UniqueNames, Holders

LEMMA StatusesAre ==
    ASSUME Tables, NEW i \in Live
    PROVE  asset[i].status \in Statuses /\ asset[i].parent \in Ids \cup {0}
BY DEF Tables, Live, Row

LEMMA TablesAgreeOnDetails == ASSUME IInv PROVE DetailsAgree
<1> USE DEF IInv
<1>1. ASSUME NEW i \in Live
      PROVE  LET r == WebElement(i) IN
             /\ WebByName(r.name) = WebById(i) /\ r \in ElementsAll
             /\ StatusFromDb(r.name) = r.status /\ NameToIdCheckType(r.name, r.type) = i
             /\ r.parent = IdParent(i)[1]
             /\ i \in ShortElements(r.type, r.subtype) \cap ElementsByType(r.type, r.status)
             /\ DeviceLinksTo(i, PowerChain) = PowerSources(i)
  <2> DEFINE r == WebElement(i)
  <2>1. /\ r.name = Given[i].name /\ r.type = Type(i) /\ r.subtype = Subtype(i)
        /\ r.status = asset[i].status /\ r.parent = asset[i].parent
    BY DEF WebElement
  <2>2. Holders(r.name) = {i}
    BY <2>1, OneHolder
  <2>3. WebByName(r.name) = WebById(i) /\ r \in ElementsAll
    BY <2>2 DEF WebByName, WebById, ElementsAll
  <2> HIDE DEF r
  <2>4. StatusFromDb(r.name) = r.status
    BY <2>1, <2>2 DEF StatusFromDb
  <2>5. NameToIdCheckType(r.name, r.type) = i
    <3>1. {j \in Holders(r.name) : Type(j) = r.type} = {i}
      BY <2>1, <2>2
    <3> QED
      BY <3>1 DEF NameToIdCheckType
  <2>6. r.parent = IdParent(i)[1]
    BY <2>1, ChainSteps
  <2>7. i \in ShortElements(r.type, r.subtype) \cap ElementsByType(r.type, r.status)
    BY <2>1 DEF ShortElements, ElementsByType
  <2>8. DeviceLinksTo(i, PowerChain) = PowerSources(i)
    BY DEF DeviceLinksTo, PowerSources, PowerLinks
  <2> QED
    BY <2>3, <2>4, <2>5, <2>6, <2>7, <2>8 DEF r
<1>2. ASSUME NEW n \in Names, Holders(n) = {} PROVE StatusFromDb(n) \notin Statuses
  BY <1>2, ContainerAssumption DEF StatusFromDb, ContainerAssumption
<1>3. ASSUME NEW t
      PROVE  /\ ShortElements(t, "") = UNION {ShortElements(t, Subtype(i)) : i \in Live}
             /\ ShortElements(t, "") = UNION {ElementsByType(t, st) : st \in Statuses}
  <2>1. ShortElements(t, "") = {i \in Live : Type(i) = t}
    BY DEF ShortElements
  <2>2. \A s : ShortElements(t, s) \subseteq {i \in Live : Type(i) = t}
    BY DEF ShortElements
  <2>3. \A i \in Live : Type(i) = t => i \in ShortElements(t, Subtype(i))
    BY DEF ShortElements
  <2>4. \A st : ElementsByType(t, st) \subseteq {i \in Live : Type(i) = t}
    BY DEF ElementsByType
  <2>5. \A i \in Live : Type(i) = t => \E st \in Statuses : i \in ElementsByType(t, st)
    BY StatusesAre DEF ElementsByType
  <2> QED
    BY <2>1, <2>2, <2>3, <2>4, <2>5
<1> QED
  BY <1>1, <1>2, <1>3 DEF DetailsAgree

--------------------------------------------------------------------------------
(* The queries over the whole tree *)

\* What the fold of a sum computes over the subsets of S.
Sums(f, S, h) ==
    f = [s \in SUBSET S |-> IF s = {} THEN 0 ELSE
            h[CHOOSE x \in s : TRUE] + f[s \ {CHOOSE x \in s : TRUE}]]

\* There is only one such function.
LEMMA SumIs ==
    ASSUME NEW S, IsFiniteSet(S), NEW f, NEW g, NEW h, Sums(f, S, h), Sums(g, S, h)
    PROVE  f = g
<1> DEFINE Differ == {s \in SUBSET S : f[s] # g[s]}
<1>1. ASSUME Differ # {} PROVE FALSE
  <2>1. IsWellFoundedOn(StrictSubsetOrdering(S), SUBSET S)
    BY FS_FiniteSubsetsOfFinite, FS_StrictSubsetOrderingWellFounded
  <2>2. Differ \subseteq SUBSET S
    OBVIOUS
  <2>3. PICK s \in Differ : \A t \in Differ : ~(<<t, s>> \in StrictSubsetOrdering(S))
    BY <1>1, <2>1, <2>2, WFMin
  <2>4. s # {}
    BY <2>3 DEF Sums
  <2> DEFINE x == CHOOSE y \in s : TRUE
  <2>5. x \in s /\ s \ {x} \in SUBSET S /\ s \ {x} # s
    BY <2>4
  <2>6. f[s] = h[x] + f[s \ {x}] /\ g[s] = h[x] + g[s \ {x}]
    BY <2>3, <2>4 DEF Sums
  <2> HIDE DEF x
  <2>7. <<s \ {x}, s>> \in StrictSubsetOrdering(S)
    BY <2>2, <2>5 DEF StrictSubsetOrdering
  <2>8. f[s \ {x}] = g[s \ {x}]
    BY <2>3, <2>5, <2>7
  <2> QED
    BY <2>3, <2>6, <2>8
<1>2. \A s \in SUBSET S : f[s] = g[s]
  BY <1>1
<1> QED
  BY <1>2 DEF Sums

Part(E, end, x) == {e \in E : end[e] = x}

\* The sizes of what each member of S has of a finite set E sum up to the size of E.
LEMMA SumOfParts ==
    ASSUME NEW S, NEW E, IsFiniteSet(E), NEW end, \A e \in E : end[e] \in S,
           NEW h, \A x \in S : h[x] = Cardinality(Part(E, end, x))
    PROVE  \E g : Sums(g, S, h) /\ g[S] = Cardinality(E)
<1> DEFINE of(s) == {e \in E : end[e] \in s}
           g == [s \in SUBSET S |-> Cardinality(of(s))]
<1>1. ASSUME NEW s \in SUBSET S, NEW x \in s
      PROVE  Cardinality(of(s)) = h[x] + Cardinality(of(s \ {x}))
  <2> DEFINE A == Part(E, end, x)
             B == of(s \ {x})
  <2>1. IsFiniteSet(A) /\ IsFiniteSet(B)
    <3>1. A \subseteq E /\ B \subseteq E
      BY DEF Part
    <3> QED
      BY <3>1, FS_Subset
  <2>2. of(s) = A \cup B /\ A \cap B = {}
    BY DEF Part
  <2>3. h[x] = Cardinality(A)
    OBVIOUS
  <2> HIDE DEF A, B, of
  <2>4. Cardinality(A) \in Nat /\ Cardinality(B) \in Nat /\ Cardinality({}) = 0
    BY <2>1, FS_CardinalityType, FS_EmptySet
  <2>5. Cardinality(A \cup B) = Cardinality(A) + Cardinality(B) - Cardinality(A \cap B)
    BY <2>1, FS_Union
  <2>6. Cardinality(of(s)) = Cardinality(A) + Cardinality(B)
    <3>1. Cardinality(A \cap B) = 0 /\ Cardinality(of(s)) = Cardinality(A \cup B)
      BY <2>2, <2>4
    <3> QED
      BY <2>4, <2>5, <3>1
  <2> QED
    BY <2>3, <2>6, Zenon DEF B
<1>2. Cardinality(of({})) = 0
  <2>1. of({}) = {}
    OBVIOUS
  <2> QED
    BY <2>1, FS_EmptySet
<1>3. of(S) = E
  OBVIOUS
<1> HIDE DEF of
<1>4. ASSUME NEW s \in SUBSET S
      PROVE  g[s] = IF s = {} THEN 0 ELSE
               h[CHOOSE x \in s : TRUE] + g[s \ {CHOOSE x \in s : TRUE}]
  <2>1. CASE s = {}
    BY <2>1, <1>2
  <2>2. CASE s # {}
    <3> DEFINE x == CHOOSE y \in s : TRUE
    <3>1. x \in s
      BY <2>2
    <3> HIDE DEF x
    <3>2. g[s] = h[x] + g[s \ {x}]
      BY <3>1, <1>1
    <3> QED
      BY <2>2, <3>2 DEF x
  <2> QED
    BY <2>1, <2>2
<1>5. Sums(g, S, h)
  BY <1>4 DEF Sums
<1>6. g[S] = Cardinality(E)
  BY <1>3
<1> QED
  BY <1>5, <1>6, Zenon

LEMMA LinksHaveEnds ==
    ASSUME Tables, IsFiniteSet(link)
    PROVE  /\ IsFiniteSet(PowerLinks) /\ IsFiniteSet(Live)
           /\ \A l \in PowerLinks : l.src \in Live /\ l.dest \in Live
BY FS_Subset, FiniteLive DEF PowerLinks, Tables

LEMMA CountedBySource ==
    ASSUME Tables, IsFiniteSet(link)
    PROVE  MapThenSumSet(CountOfLinkSrc, Live) = Cardinality(PowerLinks)
<1> DEFINE end == [l \in PowerLinks |-> l.src]
           h == [x \in Live |-> CountOfLinkSrc(x)]
           Folding(f) == f = [s \in SUBSET Live |-> IF s = {} THEN 0 ELSE
                     CountOfLinkSrc(CHOOSE x \in s : TRUE) + f[s \ {CHOOSE x \in s : TRUE}]]
           sum == CHOOSE f : Folding(f)
<1>0. IsFiniteSet(PowerLinks) /\ IsFiniteSet(Live)
  BY LinksHaveEnds
<1>1. MapThenSumSet(CountOfLinkSrc, Live) = sum[Live]
  BY Zenon DEF MapThenSumSet, MapThenFoldSet
<1>2. /\ \A l \in PowerLinks : end[l] \in Live
      /\ \A x \in Live : h[x] = Cardinality(Part(PowerLinks, end, x))
  <2>1. \A x : {l \in PowerLinks : l.src = x} = Part(PowerLinks, end, x)
    BY DEF Part
  <2> QED
    BY <2>1, LinksHaveEnds DEF CountOfLinkSrc
<1>3. \A f : Folding(f) <=> Sums(f, Live, h)
  BY DEF Sums
<1> HIDE DEF end, h, Folding
<1>4. PICK g : Sums(g, Live, h) /\ g[Live] = Cardinality(PowerLinks)
  BY <1>0, <1>2, SumOfParts
<1>5. Sums(sum, Live, h)
  BY <1>3, <1>4, Zenon
<1> HIDE DEF sum
<1>6. sum = g
  BY <1>4, <1>5, <1>0, SumIs
<1> QED
  BY <1>1, <1>4, <1>6

LEMMA CountedByDestination ==
    ASSUME Tables, IsFiniteSet(link)
    PROVE  MapThenSumSet(LAMBDA i : Cardinality(PowerSources(i)), Live) = Cardinality(PowerLinks)
<1> DEFINE end == [l \in PowerLinks |-> l.dest]
           h == [x \in Live |-> Cardinality(PowerSources(x))]
           Folding(f) == f = [s \in SUBSET Live |-> IF s = {} THEN 0 ELSE
                     Cardinality(PowerSources(CHOOSE x \in s : TRUE)) + f[s \ {CHOOSE x \in s : TRUE}]]
           sum == CHOOSE f : Folding(f)
<1>0. IsFiniteSet(PowerLinks) /\ IsFiniteSet(Live)
  BY LinksHaveEnds
<1>1. MapThenSumSet(LAMBDA i : Cardinality(PowerSources(i)), Live) = sum[Live]
  BY Zenon DEF MapThenSumSet, MapThenFoldSet
<1>2. /\ \A l \in PowerLinks : end[l] \in Live
      /\ \A x \in Live : h[x] = Cardinality(Part(PowerLinks, end, x))
  <2>1. \A x : {l \in PowerLinks : l.dest = x} = Part(PowerLinks, end, x)
    BY DEF Part
  <2> QED
    BY <2>1, LinksHaveEnds DEF PowerSources
<1>3. \A f : Folding(f) <=> Sums(f, Live, h)
  BY DEF Sums
<1> HIDE DEF end, h, Folding
<1>4. PICK g : Sums(g, Live, h) /\ g[Live] = Cardinality(PowerLinks)
  BY <1>0, <1>2, SumOfParts
<1>5. Sums(sum, Live, h)
  BY <1>3, <1>4, Zenon
<1> HIDE DEF sum
<1>6. sum = g
  BY <1>4, <1>5, <1>0, SumIs
<1> QED
  BY <1>1, <1>4, <1>6

\* A set of numbers that something bounds has a largest one, which Max chooses.
LEMMA MaxOf ==
    ASSUME NEW S \in SUBSET Nat, S # {}, NEW b \in Nat, \A x \in S : x <= b
    PROVE  Max(S) \in S /\ \A x \in S : x <= Max(S)
<1> DEFINE T == {n \in Nat : \A x \in S : x <= n}
<1>1. PICK m \in T : \A n \in T : m <= n
  <2>1. T \in SUBSET Nat /\ T # {}
    OBVIOUS
  <2> QED
    BY <2>1, LeastNat
<1>2. m \in S
  <2> SUFFICES ASSUME m \notin S PROVE FALSE
    OBVIOUS
  <2>1. m - 1 \in T
    <3>1. \A x \in S : x <= m - 1 /\ m - 1 \in Nat
      BY <1>1
    <3> QED
      BY <3>1
  <2> QED
    BY <1>1, <2>1
<1>3. \A x \in S : m >= x
  BY <1>1
<1>4. Max(S) \in S /\ \A x \in S : Max(S) >= x
  BY <1>2, <1>3, Zenon DEF Max
<1> QED
  BY <1>4

LEMMA MaxBoundsSources ==
    ASSUME Tables, IsFiniteSet(link), NEW i \in Live
    PROVE  Cardinality(PowerSources(i)) <= MaxNumberOfPowerLinks
<1> DEFINE into(x) == {l \in link : l.dest = x}
           N == {0} \cup {Cardinality(into(x)) : x \in Live}
<1>1. \A x : IsFiniteSet(into(x)) /\ Cardinality(into(x)) <= Cardinality(link)
  BY FS_Subset
<1>2. PowerSources(i) \subseteq into(i)
  BY DEF PowerSources, PowerLinks
<1>3. MaxNumberOfPowerLinks = Max(N)
  BY DEF MaxNumberOfPowerLinks
<1> HIDE DEF into
<1>4. Cardinality(link) \in Nat /\ \A x : Cardinality(into(x)) \in Nat
  BY <1>1, FS_CardinalityType
<1>5. Cardinality(PowerSources(i)) <= Cardinality(into(i)) /\ IsFiniteSet(PowerSources(i))
  BY <1>1, <1>2, FS_Subset
<1>6. Max(N) \in N /\ \A x \in N : x <= Max(N)
  <2>1. N \in SUBSET Nat /\ N # {} /\ \A x \in N : x <= Cardinality(link)
    BY <1>1, <1>4
  <2> HIDE DEF N
  <2> QED
    BY <1>4, <2>1, MaxOf
<1>7. Cardinality(PowerSources(i)) \in Nat /\ Max(N) \in Nat
  BY <1>4, <1>5, <1>6, FS_CardinalityType
<1>8. Cardinality(into(i)) <= Max(N)
  BY <1>6
<1> QED
  BY <1>3, <1>4, <1>5, <1>7, <1>8

\* The text of select_assets_all_container parses whatever parts it has, and selects
\* what holds for all of them.
LEMMA TextParses == ASSUME NEW f PROVE Parses(f)
<1>1. /\ Asked(f)[1] <=> f.subtypes # {}
      /\ Asked(f)[2] <=> f.types # {}
      /\ Asked(f)[3] <=> f.status # ""
      /\ Asked(f)[4] <=> f.without # ""
  BY DEF Asked
<1>2. /\ ~AndBefore(f)[1]
      /\ AndBefore(f)[2] <=> f.subtypes # {}
      /\ AndBefore(f)[3] <=> f.subtypes # {} \/ f.types # {}
      /\ AndBefore(f)[4] <=> f.subtypes # {} \/ f.types # {} \/ f.status # ""
  BY DEF AndBefore
<1>3. WhereIsWritten(f) <=> Asked(f)[1] \/ Asked(f)[2] \/ Asked(f)[3] \/ Asked(f)[4]
  BY <1>1 DEF WhereIsWritten
<1>4. ASSUME NEW n \in 1 .. 4
      PROVE  AndBefore(f)[n] <=> \E m \in 1 .. n - 1 : Asked(f)[m]
  <2>1. n = 1 \/ n = 2 \/ n = 3 \/ n = 4
    OBVIOUS
  <2>2. CASE n = 1
    <3>1. ~ \E m : m \in 1 .. n - 1
      BY <2>2
    <3> QED
      BY <1>2, <2>2, <3>1
  <2>3. CASE n = 2
    <3>1. 1 .. n - 1 = {1}
      BY <2>3
    <3>2. (\E m \in 1 .. n - 1 : Asked(f)[m]) <=> f.subtypes # {}
      BY <1>1, <3>1, Zenon
    <3>3. AndBefore(f)[n] <=> f.subtypes # {}
      BY <1>2, <2>3
    <3> QED
      BY <3>2, <3>3, Zenon
  <2>4. CASE n = 3
    <3>1. \A m : m \in 1 .. n - 1 <=> m = 1 \/ m = 2
      BY <2>4
    <3> QED
      BY <1>1, <1>2, <2>4, <3>1
  <2>5. CASE n = 4
    <3>1. \A m : m \in 1 .. n - 1 <=> m = 1 \/ m = 2 \/ m = 3
      BY <2>5
    <3> QED
      BY <1>1, <1>2, <2>5, <3>1
  <2> QED
    BY <2>1, <2>2, <2>3, <2>4, <2>5
<1> QED
  BY <1>3, <1>4 DEF Parses

LEMMA AllContainerIs ==
    ASSUME NEW f
    PROVE  AssetsAllContainer(f) =
              {i \in Live : /\ InLists(i, f)
                            /\ f.status = "" \/ asset[i].status = f.status
                            /\ f.without = "location" => asset[i].parent = 0
                            /\ LacksOther(i, f.without)}
<1>1. /\ Asked(f)[1] <=> f.subtypes # {}
      /\ Asked(f)[2] <=> f.types # {}
      /\ Asked(f)[3] <=> f.status # ""
      /\ Asked(f)[4] <=> f.without # ""
  BY DEF Asked
<1>2. ASSUME NEW i
      PROVE  /\ Holds(i, f)[1] <=> Subtype(i) \in f.subtypes
             /\ Holds(i, f)[2] <=> Type(i) \in f.types
             /\ Holds(i, f)[3] <=> asset[i].status = f.status
             /\ Holds(i, f)[4] <=> /\ f.without = "location" => asset[i].parent = 0
                                   /\ LacksOther(i, f.without)
  BY DEF Holds
<1>3. \A i : f.without = "" => LacksOther(i, f.without)
  BY DEF LacksOther
<1>4. ASSUME NEW i
      PROVE  (\A n \in 1 .. 4 : Asked(f)[n] => Holds(i, f)[n]) <=>
                /\ InLists(i, f)
                /\ f.status = "" \/ asset[i].status = f.status
                /\ f.without = "location" => asset[i].parent = 0
                /\ LacksOther(i, f.without)
  <2>1. (\A n \in 1 .. 4 : Asked(f)[n] => Holds(i, f)[n]) <=>
           /\ Asked(f)[1] => Holds(i, f)[1]
           /\ Asked(f)[2] => Holds(i, f)[2]
           /\ Asked(f)[3] => Holds(i, f)[3]
           /\ Asked(f)[4] => Holds(i, f)[4]
    <3>1. \A n : n \in 1 .. 4 <=> n = 1 \/ n = 2 \/ n = 3 \/ n = 4
      OBVIOUS
    <3> QED
      BY <3>1
  <2> QED
    BY <1>1, <1>2, <1>3, <2>1 DEF InLists
<1>5. AssetsAllContainer(f) = {i \in Live : \A n \in 1 .. 4 : Asked(f)[n] => Holds(i, f)[n]}
  BY TextParses DEF AssetsAllContainer
<1> QED
  BY <1>4, <1>5

\* The lists of one filter in the texts of different queries.
LEMMA FilterQueriesAgree ==
    ASSUME Tables, NEW f \in Filters
    PROVE  /\ AssetsWithoutContainer(f) =
                 AssetsAllContainer([f EXCEPT !.without = "location", !.status = ""])
           /\ \A c \in Live : AssetsByContainer(c, f) \cup (AssetsAllContainer(f) \cap {c})
                                = AssetsAllContainer(f) \cap ElementsByDc(c)
           /\ \A i \in AssetsAllContainer([f EXCEPT !.without = "powerchain"]) :
                 PowerSources(i) = {}
<1> DEFINE g == [f EXCEPT !.without = "location", !.status = ""]
           p == [f EXCEPT !.without = "powerchain"]
<1>1. DOMAIN f = {"types", "subtypes", "without", "status"}
  BY ContainerAssumption DEF ContainerAssumption
<1>2. /\ g.types = f.types /\ g.subtypes = f.subtypes
      /\ g.without = "location" /\ g.status = ""
      /\ p.without = "powerchain"
  BY <1>1
<1> HIDE DEF g, p
<1>3. AssetsWithoutContainer(f) = AssetsAllContainer(g)
  <2>1. \A i : LacksOther(i, "location")
    BY DEF LacksOther
  <2> QED
    BY <1>2, <2>1, AllContainerIs DEF AssetsWithoutContainer, InLists
<1>4. \A i \in Live : IdParent(i)[1] = asset[i].parent
  BY ChainSteps
<1>5. \A c \in Live : AssetsByContainer(c, f) = {i \in AssetsAllContainer(f) : InContainer(c, i)}
  BY <1>4, AllContainerIs DEF AssetsByContainer
<1>6. \A c \in Live : AssetsByContainer(c, f) \cup (AssetsAllContainer(f) \cap {c})
                        = AssetsAllContainer(f) \cap ElementsByDc(c)
  <2>1. AssetsAllContainer(f) \subseteq Live
    BY AllContainerIs
  <2> QED
    BY <1>5, <2>1 DEF ElementsByDc
<1>7. \A i \in AssetsAllContainer(p) : PowerSources(i) = {}
  BY <1>2, AllContainerIs DEF LacksOther, Fed, PowerSources
<1> QED
  BY <1>3, <1>6, <1>7 DEF g, p

LEMMA StatusQueriesAgree ==
    ASSUME NEW c \in Live, NEW st \in Statuses
    PROVE  AssetsInContainer(c, st) = AssetsByContainer(c, [Everything EXCEPT !.status = st])
<1> DEFINE f == [Everything EXCEPT !.status = st]
<1>1. f.types = {} /\ f.subtypes = {} /\ f.without = "" /\ f.status = st
  BY DEF Everything
<1>2. st # ""
  BY ContainerAssumption DEF ContainerAssumption
<1> HIDE DEF f
<1>3. AssetsByContainer(c, f) = AssetsInContainer(c, st)
  BY <1>1, <1>2 DEF AssetsByContainer, AssetsInContainer, InLists, LacksOther
<1> QED
  BY <1>3 DEF f

\* A filter by names selects what the lists of each name's type or subtype select.
LEMMA NamesAgree ==
    ASSUME NEW ns, KnownNames(ns)
    PROVE  AssetsByFilter(ns) = IF ns = {} THEN AssetsAllContainer(Everything)
                                ELSE UNION {AssetsAllContainer(Named(n)) : n \in ns}
<1>1. AssetsByFilter(ns) = {i \in Live : ByTypeOrSubtype(i, ns)}
  BY DEF AssetsByFilter
<1>2. /\ Everything.types = {} /\ Everything.subtypes = {}
      /\ Everything.without = "" /\ Everything.status = ""
  BY DEF Everything
<1>3. \A i : LacksOther(i, "")
  BY DEF LacksOther
<1>4. CASE ns = {}
  <2>1. AssetsAllContainer(Everything) = Live
    BY <1>2, <1>3, AllContainerIs DEF InLists
  <2> QED
    BY <1>1, <1>4, <2>1 DEF ByTypeOrSubtype
<1>5. CASE ns # {}
  <2>1. ASSUME NEW n
        PROVE  AssetsAllContainer(Named(n)) =
                  {i \in Live : IF n \in SubtypeNames THEN Subtype(i) = n ELSE Type(i) = n}
    <3> DEFINE f == Named(n)
    <3>1. /\ f.types = IF n \in SubtypeNames THEN {} ELSE {n}
          /\ f.subtypes = IF n \in SubtypeNames THEN {n} ELSE {}
          /\ f.without = "" /\ f.status = ""
      BY DEF Named, Everything
    <3> HIDE DEF f
    <3>2. AssetsAllContainer(f) =
             {i \in Live : IF n \in SubtypeNames THEN Subtype(i) = n ELSE Type(i) = n}
      BY <1>3, <3>1, AllContainerIs DEF InLists
    <3> QED
      BY <3>2 DEF f
  <2>2. \A i : ByTypeOrSubtype(i, ns) <=>
            \E n \in ns : IF n \in SubtypeNames THEN Subtype(i) = n ELSE Type(i) = n
    BY <1>5 DEF ByTypeOrSubtype, KnownNames
  <2> QED
    BY <1>1, <1>5, <2>1, <2>2
<1> QED
  BY <1>4, <1>5

LEMMA ActiveDevicesAre ==
    ActivePowerDevices = Cardinality(AssetsAllContainer(
        [Everything EXCEPT !.subtypes = PowerKinds, !.status = "active"]))
<1> DEFINE f == [Everything EXCEPT !.subtypes = PowerKinds, !.status = "active"]
<1>1. PowerKinds # {}
  BY ContainerAssumption DEF ContainerAssumption
<1>2. f.types = {} /\ f.subtypes = PowerKinds /\ f.without = "" /\ f.status = "active"
  BY DEF Everything
<1> HIDE DEF f
<1>3. PowerDevices("active") = AssetsAllContainer(f)
  BY <1>1, <1>2, AllContainerIs DEF PowerDevices, InLists, LacksOther
<1> QED
  BY <1>3 DEF ActivePowerDevices, f

LEMMA TablesAgreeOnQueries == ASSUME Tables, IsFiniteSet(link) PROVE QueriesAgree
<1>1. MapThenSumSet(CountOfLinkSrc, Live) =
         MapThenSumSet(LAMBDA i : Cardinality(PowerSources(i)), Live)
  BY CountedBySource, CountedByDestination, Zenon
<1>2. \A i \in Live : Cardinality(PowerSources(i)) <= MaxNumberOfPowerLinks
  BY MaxBoundsSources
<1> QED
  BY <1>1, <1>2, FilterQueriesAgree, StatusQueriesAgree, NamesAgree, ActiveDevicesAre, Zenon
  DEF QueriesAgree

--------------------------------------------------------------------------------
(* What the two-statement calls answer *)

\* Only the second statement ends a call, and it ends one call.
LEMMA EndsOneCall ==
    ASSUME Calls, [Next]_vars, NEW c \in Clients, call[c].at # "idle", call'[c].at = "idle"
    PROVE  \E o \in Outcomes : SelectUpses(c, o) \/ \E ns \in NameFilters : SelectByName(c, ns, o)
<1>1. call'[c] # call[c]
  OBVIOUS
<1>2. PICK d \in Clients : Read(d)
  BY <1>1 DEF Next, Write, vars
<1>3. ASSUME NEW new, call' = [call EXCEPT ![d] = new] PROVE c = d
  BY <1>1, <1>3 DEF Calls
<1>4. ASSUME NEW op, NEW n, NEW o, LookUp(d, op, n, o) PROVE c = d
  <2>1. \/ UNCHANGED call
        \/ call' = [call EXCEPT ![d] =
              [at |-> op, name |-> n, id |-> Lookup(n, o), holder |-> Holder(n)]]
    BY <1>4, Zenon DEF LookUp, Holder
  <2> QED
    BY <1>1, <1>3, <2>1, Zenon
<1>5. ~ \E op \in {"upses", "filter"}, n \in Names \cup {""}, o \in Outcomes : LookUp(d, op, n, o)
  <2> SUFFICES ASSUME NEW op, NEW n, NEW o, LookUp(d, op, n, o) PROVE FALSE
    OBVIOUS
  <2>1. call[d].at = "idle"
    BY Zenon DEF LookUp
  <2>2. c = d
    BY <1>4
  <2> QED
    BY <2>1, <2>2
<1>6. PICK o \in Outcomes : SelectUpses(d, o) \/ \E ns \in NameFilters : SelectByName(d, ns, o)
  BY <1>2, <1>5, Zenon DEF Read
<1>7. c = d
  BY <1>3, <1>6, Zenon DEF SelectUpses, SelectByName
<1> QED
  BY <1>6, <1>7, Zenon

LEMMA UpsesAnswerNamed ==
    ASSUME Tables, CallsNamed, NEW c \in Clients, NEW o, SelectUpses(c, o), reply'.ok
    PROVE  LET h == call[c].holder IN
           /\ call[c].name # "" => h # -1 /\ \A i \in reply'.list : Below(i, h)
           /\ h \in Live =>
                \A i \in Live :
                    /\ Below(i, h) /\ Cardinality(Above(i)) <= Levels
                    /\ Subtype(i) = Ups /\ Type(i) = Device /\ asset[i].status = "active"
                    => i \in reply'.list
<1> DEFINE h == call[c].holder
           id == call[c].id
<1>1. reply'.list = AssetsByContainer(id, UpsFilter)
  BY DEF SelectUpses, Reply
<1>2. /\ call[c].name = "" => h = -1
      /\ call[c].name # "" => id = h /\ h \in Ids
  BY DEF SelectUpses, CallsNamed
<1>3. -1 \notin Ids /\ Live \subseteq Ids
  BY IdsAreNumbers DEF Live
<1>4. ASSUME NEW i \in AssetsByContainer(id, UpsFilter) PROVE Below(i, id)
  BY InContainerIsShown, ShownIsAbove DEF AssetsByContainer, Above
<1>5. ASSUME h \in Live, NEW i \in Live, Below(i, h), Cardinality(Above(i)) <= Levels,
             Subtype(i) = Ups, Type(i) = Device, asset[i].status = "active"
      PROVE  i \in AssetsByContainer(id, UpsFilter)
  <2>1. id = h
    BY <1>2, <1>3, <1>5
  <2>2. InContainer(h, i)
    BY <1>5, InContainerIsShown, ShownIsAllAbove DEF Above
  <2>3. /\ UpsFilter.types = {Device} /\ UpsFilter.subtypes = {Ups}
        /\ UpsFilter.without = "" /\ UpsFilter.status = "active"
    BY DEF UpsFilter
  <2> QED
    BY <1>5, <2>1, <2>2, <2>3 DEF AssetsByContainer, InLists, LacksOther
<1> QED
  BY <1>1, <1>2, <1>3, <1>4, <1>5

LEMMA FilterAnswersNamed ==
    ASSUME Tables, CallsNamed, NEW c \in Clients, NEW ns, NEW o, SelectByName(c, ns, o), reply'.ok
    PROVE  /\ reply'.op = "filter"
           /\ call[c].name # "" =>
                call[c].holder # -1 /\ \A i \in reply'.list : Below(i, call[c].holder)
<1> DEFINE h == call[c].holder
           id == call[c].id
<1>1. /\ reply'.op = "filter"
      /\ reply'.list = {i \in Live : (InContainer(id, i) \/ id = 0) /\ ByTypeOrSubtype(i, ns)}
  BY DEF SelectByName, Reply
<1>2. call[c].name # "" => id = h /\ h \in Ids
  BY DEF SelectByName, CallsNamed
<1>3. -1 \notin Ids /\ 0 \notin Ids
  BY IdsAreNumbers
<1>4. ASSUME NEW i \in Live, InContainer(id, i) PROVE Below(i, id)
  BY <1>4, InContainerIsShown, ShownIsAbove DEF Above
<1> QED
  BY <1>1, <1>2, <1>3, <1>4

LEMMA StepAnswersNamed ==
    ASSUME IInv, [Next]_vars, NEW c \in Clients,
           call[c].at # "idle", call'[c].at = "idle", reply'.ok
    PROVE  LET h == call[c].holder IN
           /\ call[c].name # "" => h # -1 /\ \A i \in reply'.list : Below(i, h)
           /\ reply'.op = "upses" /\ h \in Live =>
                \A i \in Live :
                    /\ Below(i, h) /\ Cardinality(Above(i)) <= Levels
                    /\ Subtype(i) = Ups /\ Type(i) = Device /\ asset[i].status = "active"
                    => i \in reply'.list
<1>1. PICK o \in Outcomes : SelectUpses(c, o) \/ \E ns \in NameFilters : SelectByName(c, ns, o)
  BY EndsOneCall DEF IInv
<1>2. CASE SelectUpses(c, o)
  BY <1>2, UpsesAnswerNamed, Zenon DEF IInv
<1>3. ASSUME NEW ns \in NameFilters, SelectByName(c, ns, o)
      PROVE  /\ reply'.op # "upses"
             /\ call[c].name # "" =>
                  call[c].holder # -1 /\ \A i \in reply'.list : Below(i, call[c].holder)
  BY <1>3, FilterAnswersNamed DEF IInv
<1> QED
  BY <1>1, <1>2, <1>3, Zenon

--------------------------------------------------------------------------------
(* The theorems *)

LEMMA Invariant == Spec => []IInv
BY InitIInv, NextIInv, PTL DEF Spec

\* The joins of the queries find what they join: parents, ends of links and owners
\* of attributes are rows that are there, whatever is inserted, moved and deleted.
THEOREM TypeCorrect == Spec => []TypeOK
<1>1. IInv => TypeOK
  BY DEF IInv, Tables, Calls, TypeOK
<1> QED
  BY <1>1, Invariant, PTL

\* The ten columns of v_bios_asset_element_super_parent show what is above an asset
\* and nothing else, although assets can be put into each other in a circle; only
\* an asset with more above it than the view has columns misses some.
THEOREM ContainersCorrect == Spec => []ContainerHoldsWhatIsBelow
<1>1. IInv => ContainerHoldsWhatIsBelow
  BY TablesMeanWhatIsBelow DEF IInv
<1> QED
  BY <1>1, Invariant, PTL

\* Asking for the assets without container and then for each of them as a datacenter
\* shows an asset exactly once, however deep the tree, unless the asset is too deep
\* for the view or below a circle.
THEOREM OneRootEach == Spec => []ListedUnderOneRoot
<1>1. IInv => ListedUnderOneRoot
  BY TablesListUnderOneRoot DEF IInv
<1> QED
  BY <1>1, Invariant, PTL

\* select_links_by_container, asked of every root, shows every power link between
\* active devices that has an end below a root.
THEOREM LinksSeen == Spec => []PowerLinksSeenFromRoots
<1>1. IInv => PowerLinksSeenFromRoots
  BY TablesShowLinksFromRoots DEF IInv
<1> QED
  BY <1>1, Invariant, PTL

\* The queries that take a name, an id or a list show the same rows.
THEOREM DetailsCorrect == Spec => []DetailsAgree
<1>1. IInv => DetailsAgree
  BY TablesAgreeOnDetails
<1> QED
  BY <1>1, Invariant, PTL

\* The queries that build the same conditions in different texts select the same
\* assets, and the power links are as many from either end.
THEOREM QueriesCorrect == Spec => []QueriesAgree
<1>1. IInv => QueriesAgree
  BY TablesAgreeOnQueries DEF IInv
<1> QED
  BY <1>1, Invariant, PTL

\* get_dc_upses and select_assets_by_container_name_filter answer about the asset
\* whose name was looked up, whatever other clients write between the statements.
THEOREM NamedAnswered == Spec => AnswersAboutTheNamed
<1>1. IInv /\ [Next]_vars =>
        [\A c \in Clients : call[c].at # "idle" /\ call'[c].at = "idle" /\ reply'.ok =>
          LET h == call[c].holder IN
          /\ call[c].name # "" =>
                h # -1 /\ \A i \in reply'.list : Below(i, h)
          /\ reply'.op = "upses" /\ h \in Live =>
                \A i \in Live :
                    /\ Below(i, h) /\ Cardinality(Above(i)) <= Levels
                    /\ Subtype(i) = Ups /\ Type(i) = Device /\ asset[i].status = "active"
                    => i \in reply'.list]_vars
  BY StepAnswersNamed, Zenon
<1> QED
  BY <1>1, Invariant, PTL DEF Spec, AnswersAboutTheNamed
================================================================================
