SPECIFICATION Spec
CONSTANTS
    Elements = {1, 2}
    Keytags = {"ip.1", "daisy_chain"}
    OkKeytags = {"ip.1", "daisy_chain"}
    Values = {"10.0.0.1", "1"}
    OkValues = {"10.0.0.1", "1"}
    Outcomes = {"done"}
    Absent = Absent
    IpTags = {"ip.1"}
    DaisyTag = "daisy_chain"
    Numbers = {"1"}
INVARIANTS OutsideMeansEmpty
