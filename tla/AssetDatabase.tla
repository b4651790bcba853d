----------------------------- MODULE AssetDatabase ----------------------------
(***************************************************************************)
(* The database as one: the tables of attributes, links, groups and        *)
(* discovered devices around the one table of assets.  A call changes one  *)
(* of the tables; an asset appears for all of them at once, and it can be  *)
(* deleted only if none of them has a row that names it.                   *)
(*                                                                         *)
(* Before callers delete an asset they clear its rows with the deletes the *)
(* library has for that, each a call of its own, with other clients' calls *)
(* in between.                                                             *)
(***************************************************************************)
EXTENDS Integers, Sequences, Bags, FiniteSets

CONSTANTS
    Elements, Devices, Outcomes, Absent,        \* shared
    Keytags, OkKeytags, Values, OkValues,       \* of ExtAttributes
    Clients, NameOf, Outlets, ById, ByName, OkTypes,     \* of AssetLinks
    Null, IdSpan, TypeSpan, MaxLinks,
    GroupIds, MemberIds,                        \* of Groups
    DeviceNames, DeviceTypes, MaxDevice,        \* of Discovered
    Watched     \* the assets whose clearing the properties follow

VARIABLES
    asset,                          \* shared
    attr, attrReply,                \* of ExtAttributes
    link, call, linkReply,          \* of AssetLinks
    member, freed, groupReply,      \* of Groups
    device, spent, relation, told, monitorReply,    \* of Discovered
    cleared     \* for the properties: per watched asset, what a delete reported
                \* cleared and no new row has used since

A == INSTANCE ExtAttributes WITH reply <- attrReply
L == INSTANCE AssetLinks WITH Others <- Elements \ Devices, reply <- linkReply
G == INSTANCE Groups WITH reply <- groupReply
M == INSTANCE Discovered WITH reply <- monitorReply

\* What the parts assume, and that the assets are the same for all of them.
ASSUME DatabaseAssumption ==
    /\ A!AttributeAssumption /\ L!LinkAssumption /\ G!GroupAssumption
    /\ Devices \subseteq Elements /\ Watched \subseteq Elements
    /\ Absent \notin M!Device /\ MaxDevice \in Nat

aVars == <<attr, attrReply>>
lVars == <<link, call, linkReply>>
gVars == <<member, freed, groupReply>>
mVars == <<device, spent, relation, told, monitorReply>>
vars == <<asset, aVars, lVars, gVars, mVars, cleared>>

Kinds == {"read-only", "read-write", "links to", "monitor"}

\* The rows of an asset that each of the deletes is for.
RowsFor(kind, e) ==
    CASE kind = "read-only"  -> {k \in Keytags : A!Has(e, k) /\ attr[e][k].ro}
      [] kind = "read-write" -> {k \in Keytags : A!Has(e, k) /\ ~attr[e][k].ro}
      [] kind = "links to"   -> {r \in BagToSet(link) : r.dest = e}
      [] kind = "monitor"    -> {p \in relation : p[2] = e}

Init == A!Init /\ L!Init /\ G!Init /\ M!Init /\ cleared = [e \in Watched |-> {}]

--------------------------------------------------------------------------------
\* A row that was not there before ends that its kind is cleared.
RowsAdded(kind, e) == ~(RowsFor(kind, e)' \subseteq RowsFor(kind, e))
StillCleared == cleared' = [e \in Watched |-> {k \in cleared[e] : ~RowsAdded(k, e)}]

AttributeWrite ==
    \/ A!Insert \/ A!Batch \/ A!Query
    \/ \E e \in Elements \cup {0}, k \in Keytags, o \in Outcomes : A!DeleteTag(e, k, o)
LinkWrite(c) ==
    \/ L!Single(c) \/ L!Start(c) \/ L!Continue(c) \/ L!Crash(c)
    \/ \E s, d \in Elements \cup {0}, o \in Outcomes : L!DeleteLink(c, s, d, o)

Write ==
    /\ \/ AttributeWrite /\ UNCHANGED <<lVars, gVars, mVars>>
       \/ (\E c \in Clients : LinkWrite(c)) /\ UNCHANGED <<aVars, gVars, mVars>>
       \/ (G!Insert \/ G!Remove) /\ UNCHANGED <<aVars, lVars, mVars>>
       \/ (M!Insert \/ M!Query) /\ UNCHANGED <<aVars, lVars, gVars>>
    /\ StillCleared

\* One of the deletes of the rows of an asset.
ClearStep(kind, e, o) ==
    \/ kind = "read-only" /\ A!DeleteWithRo(e, TRUE, o) /\ UNCHANGED <<lVars, gVars, mVars>>
    \/ kind = "read-write" /\ A!DeleteWithRo(e, FALSE, o) /\ UNCHANGED <<lVars, gVars, mVars>>
    \/ /\ kind = "links to" /\ \E c \in Clients : L!DeleteLinksTo(c, e, o)
       /\ UNCHANGED <<aVars, gVars, mVars>>
    \/ kind = "monitor" /\ M!DeleteRelation(e, o) /\ UNCHANGED <<aVars, lVars, gVars>>

Clear(kind, e, o) ==
    /\ ClearStep(kind, e, o)
    /\ cleared' = IF e \in Watched /\ A!Reported(o)
                  THEN [cleared EXCEPT ![e] = @ \cup {kind}] ELSE cleared

\* Every table sees an asset appear and disappear in the same step.
AssetInserted(e) ==
    /\ A!AssetInserted(e) /\ L!AssetInserted(e) /\ G!AssetInserted(e) /\ M!AssetInserted(e)
    /\ UNCHANGED cleared
AssetDeleted(e) ==
    /\ A!AssetDeleted(e) /\ L!AssetDeleted(e) /\ G!AssetDeleted(e) /\ M!AssetDeleted(e)
    /\ UNCHANGED cleared

Next ==
    \/ Write
    \/ \E kind \in Kinds, e \in Elements, o \in Outcomes : Clear(kind, e, o)
    \/ \E e \in Elements : AssetInserted(e) \/ AssetDeleted(e)

Spec == Init /\ [][Next]_vars

--------------------------------------------------------------------------------
(* Properties *)

\* Types of the whole, which is those of its parts.
TypeOK ==
    /\ A!TypeOK /\ L!TypeOK /\ G!TypeOK /\ M!TypeOK
    /\ cleared \in [Watched -> SUBSET Kinds]

\* The whole implements each of its parts: what is checked and proved of a part by
\* itself holds of it when all the others run beside it.
ImplementsParts == A!Spec /\ L!Spec /\ G!Spec /\ M!Spec

\* The guard of AssetDeleted: no table has a row that names the asset.
Free(e) == /\ \A k \in Keytags : ~A!Has(e, k)
           /\ ~L!Linked(e) /\ ~G!Kept(e) /\ ~M!Kept(e)

\* Of the discovered devices, see Discovered.
OneIdPerDevice == M!OneIdPerDevice

\* Once every delete for the rows of an asset has reported success, in any order and
\* with any other calls in between, the foreign keys let the asset go, unless somebody
\* has given it a row again or it is the source of a link: for the links from an
\* asset there is no such delete.
ClearedMeansFree ==
    \A e \in Watched :
        cleared[e] = Kinds /\ freed[e] = {"group", "element"} /\ A!Here(e) =>
            Free(e) \/ \E r \in BagToSet(link) : r.src = e
================================================================================
