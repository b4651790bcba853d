----------------------------- MODULE MCContainers ------------------------------
(***************************************************************************)
(* TLC instances of Containers.                                            *)
(***************************************************************************)
EXTENDS Containers

Asset(n, t, s) == [name |-> n, type |-> t, subtype |-> s]

\* Four assets, so that a chain is deeper than a view of two parents; the name
\* of the datacenter is given again when the first one is deleted.
TreeGiven == <<Asset("dc", "datacenter", "none"), Asset("rack", "rack", "none"),
               Asset("ups", "device", "ups"), Asset("dc", "datacenter", "none")>>

\* What the clauses of the queries tell apart.
SmallGiven == <<Asset("dc", "datacenter", "none"), Asset("ups", "device", "ups"),
                Asset("srv", "device", "server")>>

SmallLinks == {[src |-> 2, dest |-> 3, type |-> 1], [src |-> 3, dest |-> 2, type |-> 1],
               [src |-> 2, dest |-> 3, type |-> 2]}

\* Every combination of the parts of a condition, given and left out.
SmallFilters == [types : {{}, {"device", "datacenter"}}, subtypes : {{}, {"ups", "none"}},
                 without : {"", "location", "powerchain", "keytag"}, status : {"", "active"}]
SmallNames == {{}, {"device"}, {"ups", "datacenter"}, {"server", "no such kind"}}
TreeNames == {{}, {"datacenter", "ups"}, {"no such kind"}}
================================================================================
