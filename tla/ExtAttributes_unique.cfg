SPECIFICATION Spec
CONSTANTS
    Elements = {1, 2}
    Keytags = {"uuid"}
    OkKeytags = {"uuid"}
    Values = {"v", "w"}
    OkValues = {"v", "w"}
    Outcomes = {"done", "lost", "thrown"}
    Absent = Absent
INVARIANTS ZeroMeansUnique
