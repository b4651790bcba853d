SPECIFICATION Spec
CONSTANTS
    Elements = {1, 2}
    Devices = {1, 2}
    Outcomes = {"done", "lost"}
    Absent = Absent
    Keytags = {"name"}
    OkKeytags = {"name"}
    Values = {"v"}
    OkValues = {"v"}
    Clients = {c1}
    NameOf <- OwnNames
    Outlets = {"A", "B"}
    ById <- ListsById
    ByName = {}
    OkTypes = {1}
    Null = Null
    IdSpan = 16
    TypeSpan = 4
    MaxLinks = 1
    GroupIds = {1, 2}
    MemberIds = {2}
    DeviceNames = {"ups"}
    DeviceTypes = {1}
    MaxDevice = 2
    Watched = {2}
VIEW Tables
INVARIANTS TypeOK OneIdPerDevice ClearedMeansFree
