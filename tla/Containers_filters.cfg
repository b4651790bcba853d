SPECIFICATION Spec
CONSTANTS
    Clients = {}
    Given <- SmallGiven
    Statuses = {"active", "nonactive"}
    Links <- SmallLinks
    Taggable = {1, 3}
    Levels = 2
    PowerChain = 1
    Device = "device"
    Ups = "ups"
    PowerKinds = {"ups", "epdu"}
    TypeNames = {"datacenter", "rack", "device"}
    SubtypeNames = {"ups", "epdu", "server"}
    Filters <- SmallFilters
    NameFilters <- SmallNames
    Outcomes = {"done"}
    Absent = Absent
INVARIANTS TypeOK QueriesAgree DetailsAgree PowerLinksSeenFromRoots
CHECK_DEADLOCK FALSE
