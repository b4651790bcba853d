----------------------------- MODULE ExtAttributes -----------------------------
(***************************************************************************)
(* The extended attributes of assets (t_bios_asset_ext_attributes): the    *)
(* single and the multi-value insert, the two deletes and the uniqueness   *)
(* query.  Each call is one SQL statement that commits by itself, so calls *)
(* of different clients interleave whole.                                  *)
(*                                                                         *)
(* External, as the statements rely on it: the unique key (keytag,         *)
(* id_asset_element), the foreign key on id_asset_element, and the counts  *)
(* MySQL reports for INSERT ... ON DUPLICATE KEY UPDATE.                   *)
(***************************************************************************)
EXTENDS Integers

CONSTANTS
    Elements,   \* asset ids that are ever used
    Keytags,    \* attribute names callers pass
    OkKeytags,  \* those persist::is_ok_keytag accepts
    Values,     \* attribute values callers pass
    OkValues,   \* those persist::is_ok_value accepts
    Outcomes,   \* what may happen to a statement, as in AssetElement
    Absent      \* stands for "no such row"

Attribute == [value : Values, ro : BOOLEAN]

ASSUME AttributeAssumption ==
    /\ Elements \subseteq Nat \ {0}
    /\ OkKeytags \subseteq Keytags
    /\ OkValues \subseteq Values
    /\ Absent \notin Attribute
    /\ Outcomes \subseteq {"done", "lost", "thrown"}

VARIABLES
    asset,      \* per id: not inserted yet, in t_bios_asset_element, deleted
    attr,       \* attr[e][k]: the row of attribute k of asset e
    reply       \* what the last call was asked and what it answered

vars == <<asset, attr, reply>>

\* The non-empty attribute lists (zhash_t) a caller can pass.
Lists == UNION {[tags -> Values] : tags \in (SUBSET Keytags) \ {{}}}
NoList == [k \in {} |-> Absent]

Reply(op, ok, err, elem, list, ro, n) ==
    [op |-> op, ok |-> ok, err |-> err, elem |-> elem, list |-> list, ro |-> ro, n |-> n]

Init ==
    /\ asset = [e \in Elements |-> "unborn"]
    /\ attr = [e \in Elements |-> [k \in Keytags |-> Absent]]
    /\ reply = Reply("none", TRUE, "none", 0, NoList, FALSE, 0)

Here(e) == e \in Elements /\ asset[e] = "here"

\* The foreign key of the attribute's asset (variant: there is none).
AnyAsset(e) == e \in Elements
ReferenceOk(e) == Here(e)
Has(e, k) == e \in Elements /\ attr[e][k] # Absent
Took(o) == o \in {"done", "lost"}
Reported(o) == o = "done"

--------------------------------------------------------------------------------
(* insert_into_asset_ext_attribute *)

Accepted(e, k, v) == e # 0 /\ v \in OkValues /\ k \in OkKeytags

\* The row a single insert leaves behind: read-write inserts only where there is
\* no row (WHERE NOT EXISTS), read-only ones overwrite the value and set the flag
\* (variants: read-write overwrites too; the flag of an existing row is kept).
AlwaysOverwrite(e, k, v, ro) == [value |-> v, ro |-> ro]
FlagKept(e, k, v, ro) ==
    IF Has(e, k) /\ ro THEN [value |-> v, ro |-> attr[e][k].ro]
    ELSE [value |-> v, ro |-> ro]
RowAfter(e, k, v, ro) ==
    IF Has(e, k) /\ ~ro THEN attr[e][k] ELSE [value |-> v, ro |-> ro]

\* The affected rows MySQL reports: 1 for a new row, 2 for a changed one.
Affected(e, k, v, ro) ==
    IF ~Has(e, k) THEN 1 ELSE IF RowAfter(e, k, v, ro) = attr[e][k] THEN 0 ELSE 2

\* Which counts are success (variant: no row is success for everybody).
ZeroIsSuccess(n, ro) == n \in {0, 1} \/ (n = 2 /\ ro)
CountOk(n, ro) == n = 1 \/ (n \in {0, 2} /\ ro)

InsertRefused(e, k, v, ro) ==
    /\ ~Accepted(e, k, v)
    /\ reply' = Reply("insert", FALSE, "badinput", e, [x \in {k} |-> v], ro, 0)
    /\ UNCHANGED <<asset, attr>>

InsertOne(e, k, v, ro, o) ==
    LET one == [x \in {k} |-> v]
        n == Affected(e, k, v, ro)
        ok == CountOk(n, ro)
    IN
    /\ Accepted(e, k, v)
    /\ UNCHANGED asset
    /\ \/ /\ ReferenceOk(e) /\ Took(o)
          /\ attr' = [attr EXCEPT ![e][k] = RowAfter(e, k, v, ro)]
          /\ reply' = IF Reported(o)
                      THEN Reply("insert", ok, IF ok THEN "none" ELSE "badinput",
                                 e, one, ro, n)
                      ELSE Reply("insert", FALSE, "internal", e, one, ro, 0)
       \/ /\ ~ReferenceOk(e) \/ ~Took(o)
          /\ reply' = Reply("insert", FALSE, "internal", e, one, ro, 0)
          /\ UNCHANGED attr

--------------------------------------------------------------------------------
(* insert_into_asset_ext_attributes *)

\* Only the list itself is looked at; names, values and the id go into the
\* statement as they are, and its ON DUPLICATE KEY branch changes no column of a
\* row that is there (variant: it overwrites the row).
BatchOverwrites(e, list, ro) ==
    [k \in Keytags |-> IF k \in DOMAIN list THEN [value |-> list[k], ro |-> ro]
                       ELSE attr[e][k]]
BatchAfter(e, list, ro) ==
    [k \in Keytags |-> IF k \in DOMAIN list /\ ~Has(e, k)
                       THEN [value |-> list[k], ro |-> ro] ELSE attr[e][k]]

InsertMany(e, list, ro, o) ==
    /\ UNCHANGED asset
    /\ IF ReferenceOk(e) /\ Took(o) /\ list # NoList
       THEN attr' = [attr EXCEPT ![e] = BatchAfter(e, list, ro)]
       ELSE UNCHANGED attr
    /\ reply' = IF list = NoList
                THEN Reply("batch", FALSE, "badinput", e, list, ro, 0)
                ELSE IF ReferenceOk(e) /\ Reported(o)
                THEN Reply("batch", TRUE, "none", e, list, ro, 0)
                ELSE Reply("batch", FALSE, "internal", e, list, ro, 0)

--------------------------------------------------------------------------------
(* Deletes, the uniqueness query, and the assets themselves *)

DeleteTag(e, k, o) ==
    LET bad == k \notin OkKeytags \/ e = 0
        ok == ~bad /\ Reported(o)
    IN
    /\ attr' = IF ~bad /\ Took(o) /\ Has(e, k)
               THEN [attr EXCEPT ![e][k] = Absent] ELSE attr
    /\ reply' = Reply("delete", ok, IF bad THEN "badinput" ELSE IF ok THEN "none"
                      ELSE "internal", e, NoList, FALSE, 0)
    /\ UNCHANGED asset

\* The rows delete_asset_ext_attributes_with_ro removes.
FlagMatches(e, k, ro) == Has(e, k) /\ attr[e][k].ro = ro

DeleteWithRo(e, ro, o) ==
    /\ attr' = IF e \in Elements /\ Took(o)
               THEN [attr EXCEPT ![e] = [k \in Keytags |->
                       IF FlagMatches(e, k, ro) THEN Absent ELSE attr[e][k]]]
               ELSE attr
    /\ reply' = Reply("deletero", Reported(o), IF Reported(o) THEN "none" ELSE "internal",
                      e, NoList, ro, 0)
    /\ UNCHANGED asset

\* unique_keytag looks at one row of those that hold the pair, whichever the
\* database returns first, and compares its owner with the asset (variant:
\* compared the wrong way round); it answers -1 when the query throws.
Holders(k, v) == {e \in Elements : Has(e, k) /\ attr[e][k].value = v}
OwnerIsOther(e, h) == IF h = e THEN 1 ELSE 0
OwnerCheck(e, h) == IF h = e THEN 0 ELSE 1

UniqueAnswers(e, k, v, o) ==
    IF ~Reported(o) THEN {-1}
    ELSE IF Holders(k, v) = {} THEN {0}
    ELSE {OwnerCheck(e, h) : h \in Holders(k, v)}

UniqueKeytag(e, k, v, o) ==
    /\ \E n \in UniqueAnswers(e, k, v, o) :
          reply' = Reply("unique", n # -1, IF n # -1 THEN "none" ELSE "internal",
                         e, [x \in {k} |-> v], FALSE, n)
    /\ UNCHANGED <<asset, attr>>

AssetInserted(e) ==
    /\ asset[e] = "unborn"
    /\ asset' = [asset EXCEPT ![e] = "here"]
    /\ reply' = Reply("asset", TRUE, "none", e, NoList, FALSE, 0)
    /\ UNCHANGED attr

\* The foreign key lets an asset go only without attributes.
AssetDeleted(e) ==
    /\ Here(e) /\ \A k \in Keytags : ~Has(e, k)
    /\ asset' = [asset EXCEPT ![e] = "gone"]
    /\ reply' = Reply("asset", TRUE, "none", e, NoList, FALSE, 0)
    /\ UNCHANGED attr

Insert ==
    \E e \in Elements \cup {0}, k \in Keytags, v \in Values, ro \in BOOLEAN :
        InsertRefused(e, k, v, ro) \/ \E o \in Outcomes : InsertOne(e, k, v, ro, o)
Batch ==
    \E e \in Elements \cup {0}, list \in Lists \cup {NoList}, ro \in BOOLEAN, o \in Outcomes :
        InsertMany(e, list, ro, o)
Delete ==
    \E e \in Elements \cup {0}, o \in Outcomes :
        \/ \E k \in Keytags : DeleteTag(e, k, o)
        \/ \E ro \in BOOLEAN : DeleteWithRo(e, ro, o)
Query ==
    \E e \in Elements \cup {0}, k \in Keytags, v \in Values, o \in Outcomes :
        UniqueKeytag(e, k, v, o)
Asset == \E e \in Elements : AssetInserted(e) \/ AssetDeleted(e)

Next == Insert \/ Batch \/ Delete \/ Query \/ Asset

Spec == Init /\ [][Next]_vars

--------------------------------------------------------------------------------
(* Properties *)

\* Types of the tables and the reply; only assets that are there have attributes.
TypeOK ==
    /\ asset \in [Elements -> {"unborn", "here", "gone"}]
    /\ attr \in [Elements -> [Keytags -> Attribute \cup {Absent}]]
    /\ reply.ok \in BOOLEAN /\ reply.list \in Lists \cup {NoList}
    /\ \A e \in Elements, k \in Keytags : Has(e, k) => Here(e)

\* Whatever inserts of both kinds follow each other, an attribute that is there
\* changes in place only into a read-only one, so a user's insert never
\* overwrites a value, and no read-only attribute turns read-write.
InPlaceChangeIsReadOnly ==
    [][\A e \in Elements, k \in Keytags :
          Has(e, k) /\ attr'[e][k] \notin {Absent, attr[e][k]} => attr'[e][k].ro]_vars

\* The count MySQL returns is read right in all the cases it can be: a single
\* insert that reports success has left exactly the attribute it was asked for,
\* and one refused with BADINPUT has written nothing.
SingleInsertAnswer ==
    [][reply'.op = "insert" =>
          /\ reply'.ok => \A k \in DOMAIN reply'.list :
                attr'[reply'.elem][k] = [value |-> reply'.list[k], ro |-> reply'.ro]
          /\ reply'.err = "badinput" => attr' = attr]_vars

\* When unique_keytag says the pair is not unique, another asset does hold it.
OneMeansHeldByAnother ==
    reply.op = "unique" /\ reply.n = 1 =>
        \E k \in DOMAIN reply.list : Holders(k, reply.list[k]) \ {reply.elem} # {}

\* "check if the pair (key, value) is unique": the answer 0 means that no asset
\* but the one asked about holds the pair.
ZeroMeansUnique ==
    reply.op = "unique" /\ reply.n = 0 =>
        \A k \in DOMAIN reply.list : Holders(k, reply.list[k]) \subseteq {reply.elem}
================================================================================
