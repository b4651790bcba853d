SPECIFICATION Spec
CONSTANTS
    Clients = {c1}
    Devices = {1, 2}
    Others = {3}
    NameOf <- SharedNames
    Outlets = {"A", "B"}
    ById <- ListsById
    ByName <- ListsByName
    OkTypes = {1, 2}
    Null = Null
    IdSpan = 16
    TypeSpan = 4
    MaxLinks = 2
    Outcomes = {"done"}
INVARIANTS DeleteChecksBothEnds
