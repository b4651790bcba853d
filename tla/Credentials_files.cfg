SPECIFICATION Spec
CONSTANTS
    Environments <- AnyEnvironment
    Lines <- AnyLines
    MaxVersion = 3
INVARIANTS TypeOK WellFormedFileWins FileCredentialsAreFresh
