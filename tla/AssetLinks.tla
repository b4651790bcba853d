------------------------------ MODULE AssetLinks -------------------------------
(***************************************************************************)
(* The links between devices (t_bios_asset_link): the insert of one link,  *)
(* the two batch inserts, and the two deletes.  A batch is a loop of single*)
(* inserts, each committed by itself, that goes on after a failure; the    *)
(* batch by names first looks every name up, one query each, on another    *)
(* connection.  Other clients run between all of these statements.         *)
(*                                                                         *)
(* Names are numbers, 0 for the empty one.  Those of the assets that are   *)
(* there are unique and final (see AssetRegistry), but the name of a       *)
(* deleted asset may be given to another one.                              *)
(*                                                                         *)
(* External: the view v_bios_asset_device, the foreign keys on both ends,  *)
(* and that a comparison with NULL is not true.                            *)
(***************************************************************************)
EXTENDS Integers, Sequences, Bags

CONSTANTS
    Clients,    \* callers of the library
    Devices,    \* ids of assets of type device
    Others,     \* ids of assets of other types
    NameOf,     \* per id: the name it is inserted under
    Outlets,    \* the outlets and inlets callers name
    ById,       \* the lists of links callers pass by ids
    ByName,     \* the lists of links callers pass by names
    OkTypes,    \* the link types persist::is_ok_link_type accepts
    Null,       \* an outlet or inlet that is not given
    IdSpan,     \* how many values link_t::src and dest have (2^32 in the code)
    TypeSpan,   \* how many the link_type_id argument has (2^8 in the code)
    MaxLinks,   \* bound: no insert starts once the table holds this many rows
    Outcomes    \* what may happen to a statement, as in AssetElement

Ids == Devices \cup Others

\* A link_t as callers fill it, ids or names at its ends.
Request == [src : Nat, dest : Nat, type : Nat,
            out : Outlets \cup {Null}, in : Outlets \cup {Null}]

ASSUME LinkAssumption ==
    /\ IdSpan \in Nat /\ IdSpan > 3 /\ TypeSpan \in Nat \ {0} /\ MaxLinks \in Nat
    /\ Ids \subseteq 1 .. IdSpan - 3     \* what -1 and -2 become is no id
    /\ Devices \cap Others = {}
    /\ NameOf \in [Ids -> Nat \ {0}]
    /\ ById \cup ByName \subseteq Seq(Request)
    /\ OkTypes \subseteq 1 .. TypeSpan - 1
    /\ Outcomes \subseteq {"done", "lost", "thrown"}

VARIABLES
    asset,      \* per id: not inserted yet, in t_bios_asset_element, deleted
    link,       \* t_bios_asset_link, as a bag of rows
    call,       \* per client: where it is inside a batch
    reply       \* what the last call that returned answered

vars == <<asset, link, call, reply>>

\* Where a batch is: the names it was asked for, what the lookups have made of
\* them, the link it is at, and how many inserts succeeded.
Call(at, asked, list, i, good) ==
    [at |-> at, asked |-> asked, list |-> list, i |-> i, good |-> good]
Idle == Call("idle", <<>>, <<>>, 0, 0)
Reply(op, ok, list) == [op |-> op, ok |-> ok, list |-> list]

Init ==
    /\ asset = [e \in Ids |-> "unborn"]
    /\ link = EmptyBag
    /\ call = [c \in Clients |-> Idle]
    /\ reply = Reply("none", TRUE, <<>>)

Here(e) == e \in Ids /\ asset[e] = "here"
Took(o) == o \in {"done", "lost"}
Reported(o) == o = "done"
Rows == BagToSet(link)
Room == BagCardinality(link) < MaxLinks

--------------------------------------------------------------------------------
(* insert_into_asset_link *)

\* The checks before the statement (variant: the type is not checked).
AcceptedAnyType(l) == l.src # 0 /\ l.dest # 0
Accepted(l) == l.src # 0 /\ l.dest # 0 /\ l.type \in OkTypes

\* The ends the view v_bios_asset_device joins (variant: any asset).
AnyAsset(e) == Here(e)
InDeviceView(e) == Here(e) /\ e \in Devices

\* The NOT EXISTS clause: it does not look at the type, and a link without
\* outlet or inlet never finds itself (variant: it looks at the type).
SameLinkAndType(l, r) == r = l /\ l.out # Null /\ l.in # Null
SameLink(l, r) ==
    /\ r.src = l.src /\ r.dest = l.dest
    /\ r.out = l.out /\ l.out # Null
    /\ r.in = l.in /\ l.in # Null
AlreadyThere(l) == \E r \in Rows : SameLink(l, r)

\* The statement selects nothing to insert when an end is no device or the link
\* is already there; that is not looked at.
Inserts(l) == InDeviceView(l.src) /\ InDeviceView(l.dest) /\ ~AlreadyThere(l)

\* One link, the argument conversion of its type included.
Narrow(l) == [l EXCEPT !.type = @ % TypeSpan]

LinkStatement(l, o) ==
    IF Accepted(l) /\ Inserts(l) /\ Took(o)
    THEN link' = link (+) SetToBag({l})
    ELSE UNCHANGED link
StatementOk(l, o) == Accepted(l) /\ Reported(o)

InsertLink(c, l, o) ==
    /\ call[c].at = "idle" /\ Room
    /\ l.type < TypeSpan        \* this function takes an uint8_t
    /\ LinkStatement(l, o)
    /\ reply' = Reply("link", StatementOk(l, o), <<>>)
    /\ UNCHANGED <<asset, call>>

--------------------------------------------------------------------------------
(* insert_into_asset_links, insert_into_new_asset_links *)

StartByIds(c, list) ==
    /\ call[c].at = "idle" /\ Room
    /\ UNCHANGED <<asset, link>>
    /\ IF list = <<>>
       THEN reply' = Reply("links", TRUE, list) /\ UNCHANGED call
       ELSE /\ call' = [call EXCEPT ![c] = Call("insert", <<>>, list, 1, 0)]
            /\ UNCHANGED reply

\* (An empty list of names goes the way of the empty list above.)
StartByNames(c, list) ==
    /\ call[c].at = "idle" /\ Room /\ list # <<>>
    /\ call' = [call EXCEPT ![c] = Call("src", list, list, 1, 0)]
    /\ UNCHANGED <<asset, link, reply>>

\* name_to_asset_id, and what is left of its int64_t result in the uint32_t of
\* link_t (variant: an 8-bit field, as that of the type).
Bearers(n) == {e \in Ids : Here(e) /\ NameOf[e] = n}
NameToAssetId(n, o) ==
    IF n = 0 THEN 0 ELSE IF ~Reported(o) THEN -2
    ELSE IF Bearers(n) = {} THEN -1 ELSE CHOOSE e \in Bearers(n) : TRUE
NarrowId(x) == x % TypeSpan
ToId(x) == x % IdSpan

ResolveSrc(c, o) ==
    LET now == call[c]
        l == now.list[now.i]
        found == [l EXCEPT !.src = ToId(NameToAssetId(l.src, o))]
    IN
    /\ now.at = "src"
    /\ call' = [call EXCEPT ![c] =
                  Call("dest", now.asked, [now.list EXCEPT ![now.i] = found], now.i, 0)]
    /\ UNCHANGED <<asset, link, reply>>

ResolveDest(c, o) ==
    LET now == call[c]
        l == now.list[now.i]
        found == [l EXCEPT !.dest = ToId(NameToAssetId(l.dest, o))]
        last == now.i = Len(now.list)
    IN
    /\ now.at = "dest"
    /\ call' = [call EXCEPT ![c] =
                  Call(IF last THEN "insert" ELSE "src", now.asked,
                       [now.list EXCEPT ![now.i] = found],
                       IF last THEN 1 ELSE now.i + 1, 0)]
    /\ UNCHANGED <<asset, link, reply>>

\* The loop goes on after a link that failed; the batch succeeds if all did.
BatchStep(c, o) ==
    LET now == call[c]
        l == Narrow(now.list[now.i])
        ok == StatementOk(l, o)
        good == now.good + (IF ok THEN 1 ELSE 0)
    IN
    /\ now.at = "insert"
    /\ LinkStatement(l, o)
    /\ UNCHANGED asset
    /\ IF now.i < Len(now.list)
       THEN /\ call' = [call EXCEPT ![c] =
                          Call("insert", now.asked, now.list, now.i + 1, good)]
            /\ UNCHANGED reply
       ELSE /\ call' = [call EXCEPT ![c] = Idle]
            /\ reply' = LET all == good = Len(now.list) IN
                        Reply("links", all, IF all THEN now.list ELSE <<>>)

\* The client dies inside a batch: what was inserted stays.
Crash(c) ==
    /\ call[c].at # "idle"
    /\ call' = [call EXCEPT ![c] = Idle]
    /\ UNCHANGED <<asset, link, reply>>

--------------------------------------------------------------------------------
(* delete_asset_link, delete_asset_links_to, and the assets themselves *)

Ends(src, dest) == [src |-> src, dest |-> dest, type |-> 0, out |-> Null, in |-> Null]
Without(rows) == [r \in Rows \ rows |-> link[r]]

\* The WHERE clause (variant: one end is enough).
EitherEnd(src, dest) == {r \in Rows : r.src = src \/ r.dest = dest}
BothEnds(src, dest) == {r \in Rows : r.src = src /\ r.dest = dest}

\* The check of the destination tests the source a second time.
DeleteLink(c, src, dest, o) ==
    LET ok == src # 0 /\ Reported(o) IN
    /\ call[c].at = "idle"
    /\ link' = IF src # 0 /\ Took(o)
               THEN Without(BothEnds(src, dest)) ELSE link
    /\ reply' = Reply("delete", ok, IF ok THEN <<Ends(src, dest)>> ELSE <<>>)
    /\ UNCHANGED <<asset, call>>

DeleteLinksTo(c, dest, o) ==
    /\ call[c].at = "idle"
    /\ link' = IF Took(o) THEN Without({r \in Rows : r.dest = dest}) ELSE link
    /\ reply' = Reply("deleteto", Reported(o), <<>>)
    /\ UNCHANGED <<asset, call>>

AssetInserted(e) ==
    /\ asset[e] = "unborn" /\ Bearers(NameOf[e]) = {}
    /\ asset' = [asset EXCEPT ![e] = "here"]
    /\ UNCHANGED <<link, call, reply>>

\* The foreign keys keep an asset that a link names (variant: only those of the
\* source do).
LinkedFrom(e) == \E r \in Rows : r.src = e
Linked(e) == \E r \in Rows : e \in {r.src, r.dest}

AssetDeleted(e) ==
    /\ Here(e) /\ ~Linked(e)
    /\ asset' = [asset EXCEPT ![e] = "gone"]
    /\ UNCHANGED <<link, call, reply>>

Single(c) == \E o \in Outcomes, list \in ById : \E k \in DOMAIN list : InsertLink(c, list[k], o)
Start(c) == \/ \E list \in ById : StartByIds(c, list)
            \/ \E list \in ByName : StartByNames(c, list)
Continue(c) == \E o \in Outcomes :
                  ResolveSrc(c, o) \/ ResolveDest(c, o) \/ BatchStep(c, o)
Delete(c) == \E o \in Outcomes, dest \in Ids \cup {0} :
                \/ DeleteLinksTo(c, dest, o)
                \/ \E src \in Ids \cup {0} : DeleteLink(c, src, dest, o)
Asset == \E e \in Ids : AssetInserted(e) \/ AssetDeleted(e)

Next == Asset \/ \E c \in Clients : Single(c) \/ Start(c) \/ Continue(c) \/ Delete(c) \/ Crash(c)

Spec == Init /\ [][Next]_vars

--------------------------------------------------------------------------------
(* Properties *)

\* Types of the tables, the calls and the reply.
TypeOK ==
    /\ asset \in [Ids -> {"unborn", "here", "gone"}]
    /\ IsABag(link) /\ \A r \in Rows : r.type \in OkTypes /\ {r.src, r.dest} \subseteq Ids
    /\ \A c \in Clients : /\ call[c].at \in {"idle", "src", "dest", "insert"}
                          /\ call[c].good <= call[c].i /\ call[c].i <= Len(call[c].list)
    /\ reply.ok \in BOOLEAN

\* How many equal rows the table holds.
Copies(r, rows) == IF r \in BagToSet(rows) THEN rows[r] ELSE 0

\* However many clients insert, retry after lost answers and insert again under
\* another type, one outlet and one inlet of two devices are joined once.
Sockets(r) == <<r.src, r.out, r.dest, r.in>>
LabelledLinksUnique ==
    \A r, s \in {x \in Rows : x.out # Null /\ x.in # Null} :
        Sockets(r) = Sockets(s) => r = s /\ Copies(r, link) = 1

\* Both ends of a link are devices that are there, although a batch holds ids it
\* looked up before other clients deleted assets.
LinksJoinDevices == \A r \in Rows : \A e \in {r.src, r.dest} : Here(e) /\ e \in Devices

\* A batch by names links only the assets that bear the names when their link is
\* inserted, although each was looked up statements earlier and may since have been
\* deleted and its name given to another, and although a failed lookup leaves a
\* number in the unsigned id.
NamedLinkEnds ==
    [][\A c \in Clients : call[c].asked # <<>> /\ link' # link /\ call'[c] # call[c] =>
          LET named == call[c].asked[call[c].i] IN
          \E r \in BagToSet(link') :
             /\ r.src \in Bearers(named.src) /\ r.dest \in Bearers(named.dest)
             /\ Copies(r, link') = Copies(r, link) + 1]_vars

\* Of the table, a reader of the cabling sees the links that name an outlet and an
\* inlet.
Cables == INSTANCE Cabling WITH
    Assets <- Ids,
    present <- {e \in Ids : asset[e] = "here"},
    retired <- {e \in Ids : asset[e] = "gone"},
    wires <- {r \in Rows : r.out # Null /\ r.in # Null}

\* The inserts and deletes of all clients, their batches that stop half-way, lookups
\* that are out of date and answers that are lost look like wires that are plugged
\* in one at a time, into free sockets of devices that are there, and taken out pair
\* by pair (Cabling).
ImplementsCabling == Cables!CablingSpec

\* "returns error if input params are unacceptable": a delete accepts only two
\* devices that are specified.
DeleteChecksBothEnds ==
    reply.op = "delete" /\ reply.ok => reply.list[1].src # 0 /\ reply.list[1].dest # 0
================================================================================
