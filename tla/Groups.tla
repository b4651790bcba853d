-------------------------------- MODULE Groups ---------------------------------
(***************************************************************************)
(* The memberships of assets in groups (t_bios_asset_group_relation): the  *)
(* insert of one membership, the insert of an asset into several groups,   *)
(* the three deletes, and the queries that list and count the groups of an *)
(* asset.  A group is itself an asset.  Each call is one SQL statement that*)
(* commits by itself, so calls of different clients interleave whole; a    *)
(* caller whose answer is lost does not know whether its statement ran and *)
(* may call again.                                                         *)
(*                                                                         *)
(* External, as the statements rely on it: the unique key (id_asset_group, *)
(* id_asset_element), the foreign keys of both columns, and that a         *)
(* multi-row INSERT that fails inserts nothing.                            *)
(***************************************************************************)
EXTENDS Naturals, FiniteSets, FiniteSetsExt

CONSTANTS
    Elements,   \* asset ids that are ever used
    GroupIds,   \* those callers use as groups
    MemberIds,  \* those callers put into groups; an id may be both
    Outcomes    \* what may happen to a statement, as in AssetElement

ASSUME GroupAssumption ==
    /\ Elements \subseteq Nat \ {0} /\ IsFiniteSet(Elements)
    /\ GroupIds \subseteq Elements /\ MemberIds \subseteq Elements
    /\ Outcomes \subseteq {"done", "lost", "thrown"}

VARIABLES
    asset,      \* per id: not inserted yet, in t_bios_asset_element, deleted
    member,     \* t_bios_asset_group_relation, a set of <<group, element>>
    freed,      \* for the properties: the roles ("group", "element") of each
                \* asset a delete reported cleared and no new row has used since
    reply       \* what the last call was asked and what it answered

vars == <<asset, member, freed, reply>>

\* want: the memberships an insert was asked for; rows: ret.affected_rows.
Reply(op, ok, err, want, rows) ==
    [op |-> op, ok |-> ok, err |-> err, want |-> want, rows |-> rows]

Init ==
    /\ asset = [e \in Elements |-> "unborn"]
    /\ member = {}
    /\ freed = [e \in Elements |-> {}]
    /\ reply = Reply("none", TRUE, "none", {}, 0)

Here(e) == e \in Elements /\ asset[e] = "here"
Took(o) == o \in {"done", "lost"}
Reported(o) == o = "done"

\* The foreign keys of a row (variant: that of the group is missing).
ElementHere(p) == Here(p[2])
ReferencesOk(p) == Here(p[1]) /\ Here(p[2])

\* What a statement that adds rows does to the table.
Names(role, e, rows) == \E p \in rows : e = IF role = "group" THEN p[1] ELSE p[2]
Add(rows) ==
    /\ member' = member \cup rows
    /\ freed' = [e \in Elements |-> {role \in freed[e] : ~Names(role, e, rows)}]
    /\ UNCHANGED asset

--------------------------------------------------------------------------------
(* insert_asset_element_into_asset_group *)

\* The NOT EXISTS clause (variant: it looks for any group of the element).
InAnyGroup(p) == \E q \in member : q[2] = p[2]
InTable(p) == p \in member

InsertRefused(g, e) ==
    /\ e = 0 \/ g = 0
    /\ reply' = Reply("one", FALSE, "badinput", {<<g, e>>}, 0)
    /\ UNCHANGED <<asset, member, freed>>

\* A row that is there is no error: nothing is inserted and the call succeeds.
InsertOne(g, e, o) ==
    LET p == <<g, e>>
        new == IF InTable(p) THEN {} ELSE {p}
        runs == Took(o) /\ \A q \in new : ReferencesOk(q)
    IN
    /\ e # 0 /\ g # 0
    /\ Add(IF runs THEN new ELSE {})
    /\ reply' = IF runs /\ Reported(o)
                THEN Reply("one", TRUE, "none", {p}, Cardinality(new))
                ELSE Reply("one", FALSE, "internal", {p}, 0)

--------------------------------------------------------------------------------
(* insert_element_into_groups *)

\* The row values of grp_values.
GrpValues(gs, e) == {<<g, e>> : g \in gs}

\* The rows a statement that did not throw has added: one that is there already,
\* or names a missing asset, makes the whole statement throw (variants: an INSERT
\* IGNORE, which skips such rows; one that overwrites the rows that are there).
SkipBadRows(want) == {p \in want \ member : ReferencesOk(p)}
Overwrite(want) == IF \A p \in want : ReferencesOk(p) THEN want ELSE {}
AllOrNone(want) ==
    IF want \cap member = {} /\ \A p \in want : ReferencesOk(p) THEN want ELSE {}

\* Only as many rows as there are groups are success.
AllAdded(rows, gs) == Cardinality(rows) = Cardinality(gs)

InsertManyRefused(gs, e) ==
    LET ok == e # 0 IN
    /\ e = 0 \/ gs = {}
    /\ reply' = Reply("many", ok, IF ok THEN "none" ELSE "badparam", GrpValues(gs, e), 0)
    /\ UNCHANGED <<asset, member, freed>>

InsertMany(gs, e, o) ==
    LET want == GrpValues(gs, e)
        new == IF Took(o) THEN AllOrNone(want) ELSE {}
        ok == new # {} /\ Reported(o) /\ AllAdded(new, gs)
    IN
    /\ e # 0 /\ gs # {}
    /\ Add(new)
    /\ reply' = Reply("many", ok, IF ok THEN "none" ELSE "internal", want,
                      IF Reported(o) THEN Cardinality(new) ELSE 0)

--------------------------------------------------------------------------------
(* The deletes; they do not look at their arguments *)

Delete(op, rows, o) ==
    /\ member' = IF Took(o) THEN member \ rows ELSE member
    /\ reply' = IF Reported(o)
                THEN Reply(op, TRUE, "none", {}, Cardinality(rows))
                ELSE Reply(op, FALSE, "internal", {}, 0)
    /\ UNCHANGED asset

Freed(role, e, o) ==
    freed' = IF Reported(o) THEN [freed EXCEPT ![e] = @ \cup {role}] ELSE freed

\* delete_asset_group_links (variant: the memberships the id has itself).
RowsOfElement(e) == {p \in member : p[2] = e}
RowsOfGroup(g) == {p \in member : p[1] = g}
DeleteGroupLinks(g, o) == Delete("group", RowsOfGroup(g), o) /\ Freed("group", g, o)

\* delete_asset_element_from_asset_groups.
DeleteFromGroups(e, o) == Delete("element", RowsOfElement(e), o) /\ Freed("element", e, o)

\* delete_asset_element_from_asset_group: more than one row would be an error,
\* which the unique key keeps from happening.
DeleteFromGroup(g, e, o) == Delete("pair", member \cap {<<g, e>>}, o) /\ UNCHANGED freed

--------------------------------------------------------------------------------
(* The assets, and the queries *)

AssetReply == reply' = Reply("asset", TRUE, "none", {}, 0)

AssetInserted(e) ==
    /\ asset[e] = "unborn"
    /\ asset' = [asset EXCEPT ![e] = "here"]
    /\ AssetReply
    /\ UNCHANGED <<member, freed>>

\* The foreign keys keep an asset that is a group with members or a member.
Kept(e) == \E p \in member : e \in {p[1], p[2]}
AssetDeleted(e) ==
    /\ Here(e) /\ ~Kept(e)
    /\ asset' = [asset EXCEPT ![e] = "gone"]
    /\ AssetReply
    /\ UNCHANGED <<member, freed>>

\* select_asset_element_groups: the groups of e, joined with their rows in the
\* asset table.
ElementGroups(e) == {g \in Elements : <<g, e>> \in member /\ Here(g)}

\* max_number_of_asset_groups (variant: grouped by group), 0 for an empty table.
MaxOfGroups == Max({0} \cup {Cardinality(RowsOfGroup(g)) : g \in Elements})
MaxNumberOfAssetGroups ==
    Max({0} \cup {Cardinality(RowsOfElement(e)) : e \in Elements})

--------------------------------------------------------------------------------
Insert ==
    \E e \in MemberIds \cup {0} :
        \/ \E g \in GroupIds \cup {0} :
              InsertRefused(g, e) \/ \E o \in Outcomes : InsertOne(g, e, o)
        \/ \E gs \in SUBSET (GroupIds \cup {0}) :
              InsertManyRefused(gs, e) \/ \E o \in Outcomes : InsertMany(gs, e, o)
Remove ==
    \E e \in Elements, o \in Outcomes :
        \/ DeleteGroupLinks(e, o)
        \/ DeleteFromGroups(e, o)
        \/ \E g \in Elements : DeleteFromGroup(g, e, o)
Asset == \E e \in Elements : AssetInserted(e) \/ AssetDeleted(e)

Next == Insert \/ Remove \/ Asset

Spec == Init /\ [][Next]_vars

--------------------------------------------------------------------------------
(* Properties *)

\* Types of the tables and the reply; both columns name assets that are there.
TypeOK ==
    /\ asset \in [Elements -> {"unborn", "here", "gone"}]
    /\ member \subseteq Elements \X Elements
    /\ \A p \in member : Here(p[1]) /\ Here(p[2])
    /\ freed \in [Elements -> SUBSET {"group", "element"}]
    /\ reply.ok \in BOOLEAN

\* Whatever is called again after a lost answer, races with other inserts of the
\* same memberships, or names assets that are gone: an insert that reports success
\* has left every membership it was asked for, and none leaves a part of them.
InsertAnswerTrue ==
    [][reply'.op \in {"one", "many"} =>
          /\ reply'.ok => reply'.want \subseteq member'
          /\ member' = member \/ member' = member \cup reply'.want]_vars

\* The insert into several groups is no retry: it reports success only if it has
\* itself added every row, so when two clients put one asset into overlapping
\* groups, or one client tries twice, both are told they succeeded only if the
\* rows of the first were deleted in between.
SuccessIsExclusive ==
    [][reply'.op = "many" /\ reply'.ok =>
          /\ reply'.want \cap member = {}
          /\ Cardinality(member') = Cardinality(member) + reply'.rows]_vars

\* Before an asset is deleted its callers clear it as a group and as a member.
\* Once both have reported success, in either order and whatever other clients did
\* in between, it can be deleted, unless somebody has put it into a row again.
BothRolesClearedFrees ==
    \A e \in Elements : freed[e] = {"group", "element"} => ~Kept(e)

\* The list of an asset's groups and the maximum count agree: no asset is shown
\* more groups than the maximum says, some asset has that many, and the join
\* with the asset table loses no membership.
GroupQueriesAgree ==
    /\ \A e \in Elements : Cardinality(ElementGroups(e)) <= MaxNumberOfAssetGroups
    /\ MaxNumberOfAssetGroups > 0 =>
          \E e \in Elements : Cardinality(ElementGroups(e)) = MaxNumberOfAssetGroups
================================================================================
