SPECIFICATION FairSpec
CONSTANTS
    Clients = {c1, c2}
    Bases = {"ups"}
    MaxId = 2
    RandValues = {7}
    ElementTypes = {"datacenter", "device"}
    Datacenter = "datacenter"
    NoType = "none"
    Parents = {0, 1}
    Statuses = {"active", "bogus"}
    Exact = {1, 2}
    Outcomes = {"done", "thrown"}
    Absent = Absent
INVARIANTS ErrorMeansUnpublished
PROPERTIES InsertReturns
