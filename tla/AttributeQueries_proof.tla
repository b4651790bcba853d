------------------------- MODULE AttributeQueries_proof ------------------------
(***************************************************************************)
(* Proofs about AttributeQueries, for every table the writers of           *)
(* ExtAttributes can leave.                                                *)
(***************************************************************************)
EXTENDS AttributeQueries, ExtAttributes_proof

--------------------------------------------------------------------------------
(* What the queries answer, in any typed state *)

LEMMA NamesFollow == TypeOK => NameLookupsAgree
<1> SUFFICES ASSUME TypeOK, NEW e \in Elements, NEW v \in Values
             PROVE  /\ e \in ExtnameToAsset(v) <=> v \in NameToExtname(e)
                    /\ IdToNameExtName(e) = {e} \X NameToExtname(e)
                    /\ NameToExtname(e) =
                          {SelectExtAttributes(e)[k].value :
                              k \in {NameTag} \cap DOMAIN SelectExtAttributes(e)}
                    /\ e \in AttributeByKeytag(NameTag, {}) <=> IdToNameExtName(e) # {}
                    /\ Cardinality(ExtnameToAsset(v)) = CountKeytag(NameTag, v)
  BY Zenon DEF NameLookupsAgree
<1>1. \A x \in Elements : Has(x, NameTag) => Here(x)
  BY NameTagAssumption DEF NameTagAssumption, TypeOK
<1>2. NameToExtname(e) = IF Has(e, NameTag) THEN {attr[e][NameTag].value} ELSE {}
  BY <1>1 DEF NameToExtname
<1>3. e \in ExtnameToAsset(v) <=> v \in NameToExtname(e)
  BY <1>1, <1>2 DEF ExtnameToAsset
<1>4. IdToNameExtName(e) = IF Has(e, NameTag) THEN {<<e, attr[e][NameTag].value>>} ELSE {}
  BY <1>1 DEF IdToNameExtName
<1>5. NameToExtname(e) = {SelectExtAttributes(e)[k].value :
                             k \in {NameTag} \cap DOMAIN SelectExtAttributes(e)}
  <2>1. NameTag \in DOMAIN SelectExtAttributes(e) <=> Has(e, NameTag)
    BY NameTagAssumption DEF NameTagAssumption, SelectExtAttributes
  <2>2. Has(e, NameTag) => SelectExtAttributes(e)[NameTag] = attr[e][NameTag]
    BY NameTagAssumption DEF NameTagAssumption, SelectExtAttributes
  <2> QED
    BY <1>2, <2>1, <2>2
<1>6. Cardinality(ExtnameToAsset(v)) = CountKeytag(NameTag, v)
  <2>1. ExtnameToAsset(v) = {x \in Elements : Has(x, NameTag) /\ attr[x][NameTag].value = v}
    BY <1>1 DEF ExtnameToAsset
  <2> QED
    BY <2>1 DEF CountKeytag
<1>7. e \in AttributeByKeytag(NameTag, {}) <=> IdToNameExtName(e) # {}
  <2>1. e \in AttributeByKeytag(NameTag, {}) <=> Has(e, NameTag)
    BY Zenon DEF AttributeByKeytag
  <2> QED
    BY <1>4, <2>1
<1>8. IdToNameExtName(e) = {e} \X NameToExtname(e)
  BY <1>2, <1>4
<1> QED
  BY <1>3, <1>5, <1>6, <1>7, <1>8

\* Every lookup from an external name leads to the assets that lead back to it, and
\* id, name and attributes of an asset tell one external name.
THEOREM NamesAgree == Spec => []NameLookupsAgree
BY NamesFollow, TypeCorrect, PTL
================================================================================
