------------------------------ MODULE Containers -------------------------------
(***************************************************************************)
(* The tree of locations and the queries over it: which assets are in a    *)
(* container, which are in none, which power links a container has.  A     *)
(* query is one SELECT, so it is an operator of the tables, evaluated in   *)
(* any state other clients can leave them in; the calls that first look a  *)
(* name up and then select are actions, with other clients' writes between *)
(* their two statements.                                                   *)
(*                                                                         *)
(* A query answers with the set of ids it selects (rows and their columns  *)
(* are left out), or with Error.  That a single statement throws because   *)
(* the connection failed is left out: its caller is told so.               *)
(*                                                                         *)
(* External: the views (v_bios_asset_element_super_parent holds the chain  *)
(* of the first Levels parents of each asset) and the foreign keys.        *)
(***************************************************************************)
EXTENDS Integers, FiniteSets, FiniteSetsExt

CONSTANTS
    Clients,    \* callers of the two-statement calls
    Given,      \* per row to be inserted: its name, type and subtype (one
                \* choice for each id, to bound the model)
    Statuses,   \* values of the status column
    Links,      \* the links that may be inserted
    Taggable,   \* the assets that may be given the attribute of the filters
    Levels,     \* parents the view shows of each asset (10 in the code)
    PowerChain, \* INPUT_POWER_CHAIN, the type whose name is "power chain"
    Device,     \* persist::asset_type::DEVICE
    Ups,        \* persist::asset_subtype::UPS
    PowerKinds, \* the subtypes epdu, sts, ups, pdu and genset
    TypeNames, SubtypeNames,    \* the names of types and of subtypes
    Filters,    \* the filters the properties compare queries with
    NameFilters,\* the sets of names callers filter by
    Outcomes,   \* what may happen to a statement, as in AssetElement
    Absent      \* stands for "no such row"

Ids == DOMAIN Given
Names == {Given[i].name : i \in Ids}
Row == [parent : Ids \cup {0}, status : Statuses]

\* The code takes "" for no name and for any status, "unknown" for no row, and
\* never asks for devices of no kind.
ASSUME ContainerAssumption ==
    /\ IsFiniteSet(Ids) /\ Ids = 1 .. Cardinality(Ids)
    /\ "" \notin Names /\ {"", "unknown"} \cap Statuses = {} /\ PowerKinds # {}
    /\ \A f \in Filters : DOMAIN f = {"types", "subtypes", "without", "status"}
    /\ Levels \in Nat \ {0}
    /\ \A l \in Links : {l.src, l.dest} \subseteq Ids
    /\ Absent \notin Row
    /\ Outcomes \subseteq {"done", "thrown"}

VARIABLES
    asset,      \* t_bios_asset_element, by id
    lastId,     \* its auto_increment counter
    link,       \* t_bios_asset_link
    tagged,     \* the assets with the extended attribute the filters ask for
    call,       \* per client: where it is inside a two-statement call
    reply       \* what the last of these calls answered

tables == <<asset, lastId, link, tagged>>
vars == <<asset, lastId, link, tagged, call, reply>>

Idle == [at |-> "idle", name |-> "", id |-> 0, holder |-> 0]
Reply(op, ok, list) == [op |-> op, ok |-> ok, list |-> list]

Init ==
    /\ asset = [i \in Ids |-> Absent]
    /\ lastId = 0
    /\ link = {}
    /\ tagged = {}
    /\ call = [c \in Clients |-> Idle]
    /\ reply = Reply("none", TRUE, {})

Live == {i \in Ids : asset[i] # Absent}
Type(i) == Given[i].type
Subtype(i) == Given[i].subtype

--------------------------------------------------------------------------------
(* The queries, each one SELECT *)

\* Column id_parent<n> of v_bios_asset_element_super_parent, 0 for NULL.
IdParent(i) ==
    LET up[n \in 1 .. Levels] ==
            LET below == IF n = 1 THEN i ELSE up[n - 1] IN
            IF below \in Live THEN asset[below].parent ELSE 0
    IN up

\* ":containerid in (v.id_parent1, ..., v.id_parent10)" (variants: the last
\* column is forgotten; the first one is).
InAllButLast(c, i) == c # 0 /\ \E n \in 1 .. Levels - 1 : IdParent(i)[n] = c
InAllButFirst(c, i) == c # 0 /\ \E n \in 2 .. Levels : IdParent(i)[n] = c
InContainer(c, i) == c # 0 /\ \E n \in 1 .. Levels : IdParent(i)[n] = c

\* A list left empty does not restrict.
InLists(i, f) ==
    /\ f.types = {} \/ Type(i) \in f.types
    /\ f.subtypes = {} \/ Subtype(i) \in f.subtypes

PowerLinks == {l \in link : l.type = PowerChain}
Fed(i) == \E l \in PowerLinks : l.dest = i

\* The answer of a query whose text cannot be built or parsed.
Error == {-1}

\* "without" a power source, or the extended attribute.
LacksOther(i, without) ==
    /\ without = "powerchain" => ~Fed(i)
    /\ without \notin {"", "location", "powerchain"} => i \notin tagged

\* select_assets_by_container: every clause that is given is added with its AND.
AssetsByContainer(c, f) ==
    {i \in Live : /\ InContainer(c, i)
                  /\ InLists(i, f)
                  /\ f.status = "" \/ asset[i].status = f.status
                  /\ f.without = "location" => IdParent(i)[1] = 0
                  /\ LacksOther(i, f.without)}

\* Its overload with a status, which is always compared.
AssetsInContainer(c, status) == {i \in Live : InContainer(c, i) /\ asset[i].status = status}

\* select_assets_all_container: the WHERE clause is glued together of four parts,
\* each of which may be missing: subtypes, types, status, "without".
Asked(f) == <<f.subtypes # {}, f.types # {}, f.status # "", f.without # "">>
Holds(i, f) == <<Subtype(i) \in f.subtypes, Type(i) \in f.types, asset[i].status = f.status,
                 (f.without = "location" => asset[i].parent = 0) /\ LacksOther(i, f.without)>>

\* Whether there is a WHERE, and an AND before each part that is there (variant:
\* the condition of the last AND forgets the status).
WhereIsWritten(f) == f.subtypes # {} \/ f.types # {} \/ f.status # "" \/ f.without # ""
AndForgotten(f) == <<FALSE, f.subtypes # {}, f.subtypes # {} \/ f.types # {},
                     f.subtypes # {} \/ f.types # {}>>
AndBefore(f) == <<FALSE, f.subtypes # {}, f.subtypes # {} \/ f.types # {},
                  f.subtypes # {} \/ f.types # {} \/ f.status # "">>

\* MySQL parses the text if it has a WHERE just when it has a condition, and an AND
\* just between two conditions.
Parses(f) ==
    /\ WhereIsWritten(f) <=> \E n \in 1 .. 4 : Asked(f)[n]
    /\ \A n \in 1 .. 4 : Asked(f)[n] => (AndBefore(f)[n] <=> \E m \in 1 .. n - 1 : Asked(f)[m])

AssetsAllContainer(f) ==
    IF Parses(f) THEN {i \in Live : \A n \in 1 .. 4 : Asked(f)[n] => Holds(i, f)[n]}
    ELSE Error

\* select_assets_without_container.
AssetsWithoutContainer(f) == {i \in Live : asset[i].parent = 0 /\ InLists(i, f)}

\* select_asset_element_by_dc: the datacenter itself, too.
ElementsByDc(c) == {i \in Live : i = c \/ InContainer(c, i)}

\* select_assets_by_container_filter: each name is a subtype's or else a type's, a
\* name that is neither throws, and what they select is joined by OR.
KnownNames(ns) == ns \subseteq SubtypeNames \cup TypeNames
ByTypeOrSubtype(i, ns) ==
    \/ ns = {}
    \/ Subtype(i) \in ns \cap SubtypeNames
    \/ Type(i) \in (ns \ SubtypeNames) \cap TypeNames

\* select_assets_by_filter.
AssetsByFilter(ns) == IF KnownNames(ns) THEN {i \in Live : ByTypeOrSubtype(i, ns)} ELSE Error

\* select_links_by_container: the pairs of ids a power link joins (variant: links
\* into the container only).  A second statement lists the inactive devices for the
\* log; if it throws, no link is returned.
LinksInto(c, status, o) ==
    {<<l.src, l.dest>> : l \in {k \in PowerLinks : /\ asset[k.src].status = status
                                                  /\ asset[k.dest].status = status
                                                  /\ InContainer(c, k.dest)}}
LinksByContainer(c, status, o) ==
    IF o # "done" THEN Error
    ELSE {<<l.src, l.dest>> : l \in {k \in PowerLinks :
             /\ asset[k.src].status = status
             /\ asset[k.dest].status = status
             /\ InContainer(c, k.src) \/ InContainer(c, k.dest)}}

\* select_v_web_asset_power_link_src_byId and count_of_link_src.
PowerSources(i) == {l \in PowerLinks : l.dest = i}
CountOfLinkSrc(i) == Cardinality({l \in PowerLinks : l.src = i})

\* max_number_of_power_links: it counts the links of all types.
MaxNumberOfPowerLinks ==
    Max({0} \cup {Cardinality({l \in link : l.dest = i}) : i \in Live})

\* list_power_devices_with_status and get_active_power_devices.
PowerDevices(status) ==
    {i \in Live : Subtype(i) \in PowerKinds /\ asset[i].status = status}
ActivePowerDevices == Cardinality(PowerDevices("active"))

--------------------------------------------------------------------------------
(* The queries about one asset, and the plain lists *)

Holders(n) == {i \in Live : Given[i].name = n}

\* A row of v_web_element, which joins an asset with its parent.
WebElement(i) ==
    LET p == asset[i].parent IN
    [id |-> i, name |-> Given[i].name, type |-> Type(i), subtype |-> Subtype(i),
     status |-> asset[i].status, parent |-> p,
     parentName |-> IF p = 0 THEN "" ELSE Given[p].name,
     parentType |-> IF p = 0 THEN "" ELSE Type(p)]

\* select_asset_element_web_byId; _byName and select_asset_element_basic_cb.
WebById(i) == {WebElement(x) : x \in Live \cap {i}}
WebByName(n) == {WebElement(x) : x \in Holders(n)}

\* name_to_asset_id_check_type, -1 when there is none.
NameToIdCheckType(n, t) ==
    LET found == {i \in Holders(n) : Type(i) = t} IN
    IF found = {} THEN -1 ELSE CHOOSE i \in found : TRUE

\* get_status_from_db.
StatusFromDb(n) ==
    IF Holders(n) = {} THEN "unknown" ELSE asset[CHOOSE i \in Holders(n) : TRUE].status

\* select_short_elements: no subtype is any subtype (variant: is the subtype 0).
SubtypeTaken(t, s) == {i \in Live : Type(i) = t /\ Subtype(i) = s}
ShortElements(t, s) == {i \in Live : Type(i) = t /\ (s = "" \/ Subtype(i) = s)}

\* select_asset_elements_by_type.
ElementsByType(t, status) == {i \in Live : Type(i) = t /\ asset[i].status = status}

\* select_assets_cb and select_asset_element_all.
ElementsAll == {WebElement(i) : i \in Live}

\* select_asset_device_links_to.
DeviceLinksTo(i, t) == {l \in link : l.dest = i /\ l.type = t}

--------------------------------------------------------------------------------
(* What other clients do to the tables *)

ParentOk(p) == p = 0 \/ p \in Live

\* insert_into_asset_element; the number of rows and Given bound it.
InsertAsset(p, s) ==
    LET i == lastId + 1 IN
    /\ i \in Ids /\ ParentOk(p)
    /\ \A j \in Live : Given[j].name # Given[i].name
    /\ asset' = [asset EXCEPT ![i] = [parent |-> p, status |-> s]]
    /\ lastId' = i
    /\ UNCHANGED <<link, tagged>>

\* update_asset_element: any parent that is there, so an asset may be put into
\* itself or into something inside it.
UpdateAsset(i, p, s) ==
    /\ i \in Live /\ ParentOk(p)
    /\ asset' = [asset EXCEPT ![i] = [parent |-> p, status |-> s]]
    /\ UNCHANGED <<lastId, link, tagged>>

\* The rows whose foreign keys keep asset i (variant: links do not).
ChildKeeps(i) == \E j \in Live : j # i /\ asset[j].parent = i
LinkKeeps(i) == \E l \in link : i \in {l.src, l.dest}
LinksForgotten(i) == ChildKeeps(i) \/ i \in tagged
Kept(i) == ChildKeeps(i) \/ LinkKeeps(i) \/ i \in tagged

\* delete_asset_element.
DeleteAsset(i) ==
    /\ i \in Live /\ ~Kept(i)
    /\ asset' = [asset EXCEPT ![i] = Absent]
    /\ UNCHANGED <<lastId, link, tagged>>

\* insert_into_asset_link and delete_asset_link.
ChangeLink(l) ==
    /\ {l.src, l.dest} \subseteq Live
    /\ \A e \in {l.src, l.dest} : Type(e) = Device
    /\ link' = IF l \in link THEN link \ {l} ELSE link \cup {l}
    /\ UNCHANGED <<asset, lastId, tagged>>

\* insert_into_asset_ext_attribute and delete_asset_ext_attribute.
ChangeTag(i) ==
    /\ i \in Live \cap Taggable
    /\ tagged' = IF i \in tagged THEN tagged \ {i} ELSE tagged \cup {i}
    /\ UNCHANGED <<asset, lastId, link>>

--------------------------------------------------------------------------------
(* get_dc_upses and select_assets_by_container_name_filter *)

\* The id the first statement finds; -1 when no row has the name or the
\* statement throws, and 0, with no statement, for the empty name (variant: a
\* name nobody bears is taken for the empty one).
MissIsEmpty(n, o) == IF n = "" \/ o = "thrown" \/ Holders(n) = {} THEN 0
                     ELSE CHOOSE i \in Holders(n) : TRUE
Lookup(n, o) == IF n = "" THEN 0
                ELSE IF o = "thrown" \/ Holders(n) = {} THEN -1
                ELSE CHOOSE i \in Holders(n) : TRUE

\* holder is for the properties: who bore the name when it was looked up.
LookUp(c, op, n, o) ==
    LET id == Lookup(n, o)
        holder == IF Holders(n) = {} THEN -1 ELSE CHOOSE i \in Holders(n) : TRUE
    IN
    /\ call[c].at = "idle"
    /\ UNCHANGED tables
    /\ IF id < 0
       THEN reply' = Reply(op, FALSE, {}) /\ UNCHANGED call
       ELSE /\ call' = [call EXCEPT ![c] =
                          [at |-> op, name |-> n, id |-> id, holder |-> holder]]
            /\ UNCHANGED reply

UpsFilter == [types |-> {Device}, subtypes |-> {Ups}, without |-> "", status |-> "active"]

\* get_dc_upses: the active UPSes; the empty name finds nothing.
SelectUpses(c, o) ==
    /\ call[c].at = "upses"
    /\ reply' = IF o = "done"
                THEN Reply("upses", TRUE, AssetsByContainer(call[c].id, UpsFilter))
                ELSE Reply("upses", FALSE, {})
    /\ call' = [call EXCEPT ![c] = Idle]
    /\ UNCHANGED tables

\* select_assets_by_container_name_filter: the empty name lists everything, an
\* unknown name in the filter fails the call after its lookup.
SelectByName(c, ns, o) ==
    LET id == call[c].id IN
    /\ call[c].at = "filter"
    /\ reply' = IF o = "done" /\ KnownNames(ns)
                THEN Reply("filter", TRUE,
                           {i \in Live : (InContainer(id, i) \/ id = 0) /\ ByTypeOrSubtype(i, ns)})
                ELSE Reply("filter", FALSE, {})
    /\ call' = [call EXCEPT ![c] = Idle]
    /\ UNCHANGED tables

--------------------------------------------------------------------------------
Write ==
    /\ \/ \E p \in Ids \cup {0}, s \in Statuses :
             InsertAsset(p, s) \/ \E i \in Ids : UpdateAsset(i, p, s)
       \/ \E i \in Ids : DeleteAsset(i) \/ ChangeTag(i)
       \/ \E l \in Links : ChangeLink(l)
    /\ UNCHANGED <<call, reply>>

Read(c) ==
    \E o \in Outcomes :
        \/ \E op \in {"upses", "filter"}, n \in Names \cup {""} : LookUp(c, op, n, o)
        \/ SelectUpses(c, o)
        \/ \E ns \in NameFilters : SelectByName(c, ns, o)

Next == Write \/ \E c \in Clients : Read(c)

Spec == Init /\ [][Next]_vars

--------------------------------------------------------------------------------
(* Properties *)

\* Types of the tables and the calls; parents, ends of links and owners of
\* attributes are rows that are there, which the queries' joins rely on.
TypeOK ==
    /\ asset \in [Ids -> Row \cup {Absent}]
    /\ lastId \in Ids \cup {0} /\ \A i \in Live : i <= lastId
    /\ link \subseteq Links /\ tagged \subseteq Live
    /\ \A i \in Live : ParentOk(asset[i].parent)
    /\ \A l \in link : {l.src, l.dest} \subseteq Live
    /\ \A c \in Clients : call[c].at \in {"idle", "upses", "filter"}

\* Reference for "asset i is somewhere below c": every set of assets that holds
\* the parent of i and the parents of its members holds c.
Below(i, c) ==
    \A S \in SUBSET Live :
        /\ {asset[i].parent} \ {0} \subseteq S
        /\ \A j \in S : {asset[j].parent} \ {0} \subseteq S
        => c \in S
Above(i) == {c \in Live : Below(i, c)}

\* What the chain of parent columns shows is what is really below a container,
\* also when updates have put assets into each other in a circle; an asset is
\* missing only if more than Levels others are above it.
ContainerHoldsWhatIsBelow ==
    \A c, i \in Live :
        /\ InContainer(c, i) => Below(i, c)
        /\ Below(i, c) /\ Cardinality(Above(i)) <= Levels => InContainer(c, i)

\* Reading the top of the tree and then each datacenter shows every asset once:
\* whatever deletes and moves preceded, an asset that is neither in or below a
\* circle nor too deep is listed under exactly one asset without container.
ListedUnderOneRoot ==
    \A i \in Live :
        Cardinality(Above(i)) <= Levels /\ (\A c \in Above(i) : ~Below(c, c)) =>
        \E r \in Live : {x \in AssetsWithoutContainer([types |-> {}, subtypes |-> {}]) :
                            i \in ElementsByDc(x)} = {r}

\* The queries that build the same conditions in different texts agree, whatever
\* parts of the condition are given: with and without container, by names and by
\* lists of types and subtypes, what one container holds of all, the assets without a
\* power source, the power devices, and the power links counted from either end,
\* whose maximum bounds them.
Everything == [types |-> {}, subtypes |-> {}, without |-> "", status |-> ""]
Named(n) == IF n \in SubtypeNames THEN [Everything EXCEPT !.subtypes = {n}]
            ELSE [Everything EXCEPT !.types = {n}]
QueriesAgree ==
    /\ \A f \in Filters :
          /\ AssetsWithoutContainer(f) =
                AssetsAllContainer([f EXCEPT !.without = "location", !.status = ""])
          /\ \A c \in Live : AssetsByContainer(c, f) \cup (AssetsAllContainer(f) \cap {c})
                               = AssetsAllContainer(f) \cap ElementsByDc(c)
          /\ \A i \in AssetsAllContainer([f EXCEPT !.without = "powerchain"]) :
                PowerSources(i) = {}
    /\ \A c \in Live, st \in Statuses :
          AssetsInContainer(c, st) = AssetsByContainer(c, [Everything EXCEPT !.status = st])
    /\ \A ns \in NameFilters : KnownNames(ns) => AssetsByFilter(ns) =
          IF ns = {} THEN AssetsAllContainer(Everything)
          ELSE UNION {AssetsAllContainer(Named(n)) : n \in ns}
    /\ ActivePowerDevices = Cardinality(AssetsAllContainer(
          [Everything EXCEPT !.subtypes = PowerKinds, !.status = "active"]))
    /\ MapThenSumSet(CountOfLinkSrc, Live) =
          MapThenSumSet(LAMBDA i : Cardinality(PowerSources(i)), Live)
    /\ \A i \in Live : Cardinality(PowerSources(i)) <= MaxNumberOfPowerLinks

\* What is shown of one asset is what the lists show: a name leads to one row, the
\* row its id leads to, in every query that takes a name; the parent in it is the
\* first of the chain; the lists by type, subtype and status are parts of the list of
\* all; and the links to a device are its power sources and no others.
DetailsAgree ==
    /\ \A i \in Live :
          LET r == WebElement(i) IN
          /\ WebByName(r.name) = WebById(i) /\ r \in ElementsAll
          /\ StatusFromDb(r.name) = r.status /\ NameToIdCheckType(r.name, r.type) = i
          /\ r.parent = IdParent(i)[1]
          /\ i \in ShortElements(r.type, r.subtype) \cap ElementsByType(r.type, r.status)
          /\ DeviceLinksTo(i, PowerChain) = PowerSources(i)
    /\ \A n \in Names : Holders(n) = {} => StatusFromDb(n) \notin Statuses
    /\ \A t \in UNION {f.types : f \in Filters} :
          /\ ShortElements(t, "") = UNION {ShortElements(t, Subtype(i)) : i \in Live}
          /\ ShortElements(t, "") = UNION {ElementsByType(t, st) : st \in Statuses}

\* No power link between active devices is lost when links are collected root
\* by root: the two ends of one with an end in some container are listed for every
\* root above that end, and what is listed for a root has an end below it.
PowerLinksSeenFromRoots ==
    \A r \in AssetsWithoutContainer([types |-> {}, subtypes |-> {}]), l \in PowerLinks :
        asset[l.src].status = "active" /\ asset[l.dest].status = "active" =>
            ( <<l.src, l.dest>> \in LinksByContainer(r, "active", "done") <=>
              {l.src, l.dest} \cap (ElementsByDc(r) \ {r}) # {} )

\* A call that looks a name up answers about the asset that bore the name at
\* that moment or about nothing, although it may since have been deleted and its
\* name given to another: no asset outside it is listed, a name nobody bears is an
\* error, and all its active UPSes that are not too deep are in.
AnswersAboutTheNamed ==
    [][\A c \in Clients : call[c].at # "idle" /\ call'[c].at = "idle" /\ reply'.ok =>
          LET h == call[c].holder IN
          /\ call[c].name # "" =>
                h # -1 /\ \A i \in reply'.list : Below(i, h)
          /\ reply'.op = "upses" /\ h \in Live =>
                \A i \in Live :
                    /\ Below(i, h) /\ Cardinality(Above(i)) <= Levels
                    /\ Subtype(i) = Ups /\ Type(i) = Device /\ asset[i].status = "active"
                    => i \in reply'.list]_vars
================================================================================
