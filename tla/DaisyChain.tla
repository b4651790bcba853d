------------------------------ MODULE DaisyChain ------------------------------
(***************************************************************************)
(* select_daisy_chain over the extended attributes: the assets that share  *)
(* an address with a given one and have a position in a daisy chain.       *)
(*                                                                         *)
(* External: the conversion of a column to int, which throws for a text    *)
(* that is no number.                                                      *)
(***************************************************************************)
EXTENDS ExtAttributes

CONSTANTS
    IpTags,     \* the keytags that match ip.%
    DaisyTag,   \* the keytag of the position
    Numbers     \* the values that are numbers

\* The addresses of an asset, the assets any attribute of which is one of them
\* (no keytag is asked for), and those of them with a position.
Addresses(e) == {attr[e][k].value : k \in {t \in IpTags : Has(e, t)}}
Sharing(e) == {x \in Elements : \E k \in Keytags : Has(x, k) /\ attr[x][k].value \in Addresses(e)}
ChainRows(e) == {x \in Sharing(e) : Has(x, DaisyTag)}
Position(x) == attr[x][DaisyTag].value

\* The possible answers: of two rows with one position emplace keeps the first,
\* in no particular order; none if a position is no number, which is an error.
SelectDaisyChain(e) ==
    LET rows == IF Here(e) THEN ChainRows(e) ELSE {}
        positions == {Position(x) : x \in rows}
    IN
    IF positions \subseteq Numbers
    THEN {chain \in [positions -> rows] : \A p \in positions : Position(chain[p]) = p}
    ELSE {}

\* "get daisy-chain of which asset_id is part based on daisy_chain ext properties,
\* or empty map if not part of a daisy-chain": an asset without the property
\* daisy_chain gets an empty map.
OutsideMeansEmpty ==
    \A e \in Elements : Here(e) /\ ~Has(e, DaisyTag) =>
        \A chain \in SelectDaisyChain(e) : DOMAIN chain = {}
================================================================================
