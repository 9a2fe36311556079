SPECIFICATION Spec
CONSTANTS
    Files = 2
    Malformed = {}
    Results = {"passed", "failed"}
    MayFail = FALSE
    MaxCrashes = 0
INVARIANT
    RunMatchesJobs
CHECK_DEADLOCK FALSE
