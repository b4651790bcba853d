----------------------------- MODULE MCAssetLinks ------------------------------
(***************************************************************************)
(* TLC instance of AssetLinks: devices 1 and 2, and an asset 3 that is no *)
(* device and takes the name of device 1 when that is gone; 16 numbers for*)
(* ids (so a lookup that fails leaves 15 or 14) and 4 for types (so type 6*)
(* arrives as type 2).                                                    *)
(***************************************************************************)
EXTENDS AssetLinks, TLC

ClientSymmetry == Permutations(Clients)

\* A link request.
Link(s, d, t, o, i) == [src |-> s, dest |-> d, type |-> t, out |-> o, in |-> i]

\* By ids: the same two sockets under two types; a link without outlet, one
\* without source and one of a type that is refused.
\* By names: a type accepted once it is narrowed, and a name nobody bears.
ListsById ==
    {<<>>, <<Link(1, 2, 1, "A", "B"), Link(1, 2, 2, "A", "B")>>,
     <<Link(1, 2, 1, Null, "B"), Link(0, 2, 1, "A", "B"), Link(1, 2, 4, "A", "B")>>}
ListsByName ==
    {<<Link(1, 2, 6, "A", "B")>>, <<Link(2, 1, 1, "A", "B")>>, <<Link(3, 2, 1, "A", "B")>>}
SharedNames == [e \in Ids |-> IF e = 3 THEN 1 ELSE e]
================================================================================
