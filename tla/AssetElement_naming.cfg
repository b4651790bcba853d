SPECIFICATION Spec
CONSTANTS
    Clients = {c1, c2}
    Bases = {"ups"}
    MaxId = 3
    RandValues = {7, 8}
    ElementTypes = {"device"}
    Datacenter = "datacenter"
    NoType = "none"
    Parents = {0}
    Statuses = {"active"}
    Exact = {1, 3}
    Outcomes = {"done", "lost", "thrown"}
    Absent = Absent
SYMMETRY ClientSymmetry
INVARIANTS TypeOK RowNamedAsAsked TempRowHasOneOwner CallsOwnTheirRows
PROPERTIES ImplementsRegistry
