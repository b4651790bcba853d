SPECIFICATION Spec
CONSTANTS
    Elements = {1, 2, 3}
    GroupIds = {1, 2}
    MemberIds = {2, 3}
    Outcomes = {"done", "lost", "thrown"}
INVARIANTS TypeOK BothRolesClearedFrees GroupQueriesAgree
PROPERTIES InsertAnswerTrue SuccessIsExclusive
