--------------------------- MODULE MCAssetDatabase ----------------------------
(***************************************************************************)
(* TLC instance of AssetDatabase: two devices, of which 2 is watched and   *)
(* may be a member of group 1 and of itself, a group then; one attribute,  *)
(* one link each way, one discovered device.  What the calls answered, and *)
(* the history of the roles of an asset that is not watched, decide        *)
(* nothing, so states that differ in them alone are explored once.         *)
(***************************************************************************)
EXTENDS AssetDatabase

OwnNames == [e \in Elements |-> e]
Link(s, d) == [src |-> s, dest |-> d, type |-> 1, out |-> "A", in |-> "B"]
ListsById == {<<Link(1, 2)>>, <<Link(2, 1)>>}
Tables == <<asset, attr, link, call, member, [e \in Watched |-> freed[e]], device,
            spent, relation, told, cleared>>
================================================================================
