SPECIFICATION Spec
CONSTANTS
    Clients = {c1}
    Given <- TreeGiven
    Statuses = {"active", "nonactive"}
    Links = {}
    Taggable = {}
    Levels = 2
    PowerChain = 1
    Device = "device"
    Ups = "ups"
    PowerKinds = {"ups", "epdu"}
    TypeNames = {"datacenter", "rack", "device"}
    SubtypeNames = {"ups", "epdu", "server"}
    Filters = {}
    NameFilters <- TreeNames
    Outcomes = {"done", "thrown"}
    Absent = Absent
INVARIANTS ContainerHoldsWhatIsBelow ListedUnderOneRoot
PROPERTIES AnswersAboutTheNamed
