----------------------------- MODULE AssetRegistry -----------------------------
(***************************************************************************)
(* What the asset table promises to everyone who reads asset names out of  *)
(* it: an identifier is published under one name, no two published assets  *)
(* share a name, a published name never changes, and an identifier that    *)
(* was retired (or was spent on an insert that never published it) does    *)
(* not come back.  How a name is composed, and in how many SQL statements, *)
(* is not visible here; AssetElement refines this module.                  *)
(***************************************************************************)
CONSTANTS
    Ids,        \* identifiers the table can hand out
    Names,      \* names an asset can be published under
    Unnamed     \* stands for "no published asset here", not a name

VARIABLES
    published,  \* published[i]: the name identifier i is published under
    gone        \* identifiers that can not be published any more

rvars == <<published, gone>>

\* The identifiers that are published now.
Published == {i \in Ids : published[i] # Unnamed}

RegistryInit ==
    /\ published = [i \in Ids |-> Unnamed]
    /\ gone = {}

\* An identifier gets its name, once, all at once, and no other changes.
Publish(i) ==
    /\ published[i] = Unnamed
    /\ i \notin gone
    /\ published'[i] \in Names
    /\ \A j \in Published : published[j] # published'[i]
    /\ published' = [published EXCEPT ![i] = published'[i]]
    /\ UNCHANGED gone

\* A published asset disappears, or an identifier is spent without ever
\* having been published.
Retire(i) ==
    /\ i \notin gone
    /\ published' = [published EXCEPT ![i] = Unnamed]
    /\ gone' = gone \cup {i}

RegistryNext ==
    \E i \in Ids : Retire(i) \/ Publish(i)

RegistrySpec == RegistryInit /\ [][RegistryNext]_rvars
================================================================================
