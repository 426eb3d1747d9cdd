SPECIFICATION MCSpec
CONSTANTS
    List <- MCList
    ByTag = {"a", "b", "c"}
    Absent = {"x"}
    MaxDeps = 2
    Contents <- MCContents
    Malformed = {"bad"}
    EtagOf <- MCEtags
    Referenced = TRUE
    MaxErrors = 1
    MaxChanges = 2
    None = None
    MaxFaults = 2
INVARIANTS StartsAfterDependencies OutcomeIsRight  
  
CHECK_DEADLOCK FALSE
