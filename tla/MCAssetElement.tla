---------------------------- MODULE MCAssetElement -----------------------------
(* TLC instance of AssetElement: clients are interchangeable. *)
EXTENDS AssetElement, TLC

ClientSymmetry == Permutations(Clients)
================================================================================
