SPECIFICATION Spec
CONSTANTS
    Elements = {1, 2}
    Keytags = {"name", "bad key"}
    OkKeytags = {"name"}
    Values = {"v", "w"}
    OkValues = {"v"}
    Outcomes = {"done", "lost", "thrown"}
    Absent = Absent
    NameTag = "name"
INVARIANTS TypeOK OneMeansHeldByAnother NameLookupsAgree
PROPERTIES InPlaceChangeIsReadOnly SingleInsertAnswer
