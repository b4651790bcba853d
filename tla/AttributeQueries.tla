--------------------------- MODULE AttributeQueries ---------------------------
(***************************************************************************)
(* The queries over the extended attributes: from internal names and ids   *)
(* to external names (the attribute "name") and back, and the lists and    *)
(* counts by keytag.  A query is one SELECT, so it is an operator of the   *)
(* tables in any state their writers can leave them in.                    *)
(*                                                                         *)
(* The internal name of an asset is modelled by its id.  A query that      *)
(* takes one row of several may answer with any of them, so it is the set  *)
(* of its possible answers; the empty set is the answer "not found".       *)
(***************************************************************************)
EXTENDS ExtAttributes, FiniteSets

CONSTANT NameTag    \* the keytag of the external name

ASSUME NameTagAssumption == NameTag \in Keytags

\* id_to_name_ext_name: its WHERE clause asks for the keytag of the joined row, so
\* the LEFT JOIN drops the assets without external name (variant: it keeps them,
\* with no external name).
LeftJoined(e) ==
    {<<x, IF Has(x, NameTag) THEN attr[x][NameTag].value ELSE Absent>> :
        x \in {y \in Elements : y = e /\ Here(y)}}
IdToNameExtName(e) ==
    {<<x, attr[x][NameTag].value>> : x \in {y \in Elements : y = e /\ Here(y) /\ Has(y, NameTag)}}

\* name_to_extname.
NameToExtname(n) ==
    {attr[x][NameTag].value : x \in {y \in Elements : y = n /\ Here(y) /\ Has(y, NameTag)}}

\* extname_to_asset_id and extname_to_asset_name (variant: the keytag is forgotten).
AnyTagIs(v) == {e \in Elements : \E k \in Keytags : Has(e, k) /\ attr[e][k].value = v}
ExtnameToAsset(v) == {e \in Elements : Here(e) /\ Has(e, NameTag) /\ attr[e][NameTag].value = v}

\* count_keytag.
CountKeytag(k, v) == Cardinality({e \in Elements : Has(e, k) /\ attr[e][k].value = v})

\* select_asset_ext_attribute_by_keytag: no ids mean all assets (variant: none).
InListOnly(k, ids) == {e \in ids : Has(e, k)}
AttributeByKeytag(k, ids) == {e \in Elements : Has(e, k) /\ (ids = {} \/ e \in ids)}

\* select_ext_attributes and select_ext_attributes_cb.
SelectExtAttributes(e) == [k \in {t \in Keytags : Has(e, t)} |-> attr[e][k]]

--------------------------------------------------------------------------------
(* Properties *)

\* The lookups of names are inverse to each other: an external name leads only to
\* assets whose internal name and id lead back to it, and whoever has an external
\* name can be found by it and is listed when the keytag "name" is asked for without
\* ids, also after renames, deletes and lost answers.
NameLookupsAgree ==
    \A e \in Elements, v \in Values :
        /\ e \in ExtnameToAsset(v) <=> v \in NameToExtname(e)
        /\ IdToNameExtName(e) = {e} \X NameToExtname(e)
        /\ NameToExtname(e) = {SelectExtAttributes(e)[k].value :
                                  k \in {NameTag} \cap DOMAIN SelectExtAttributes(e)}
        /\ e \in AttributeByKeytag(NameTag, {}) <=> IdToNameExtName(e) # {}
        /\ Cardinality(ExtnameToAsset(v)) = CountKeytag(NameTag, v)
================================================================================
