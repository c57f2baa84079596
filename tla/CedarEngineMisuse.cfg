SPECIFICATION FairSpec
CONSTANTS
    Threads = {t1, t2}
    PM = PM
    NoOne = NoOne
    Engines = {"de"}
    Calls = {"unbalanced", "setref", "enable_ve", "disable_ve", "reset_ve"}
    RefArgs <- SomeRefArgs
    MaxRef = 2
    ClkMayFail = TRUE
INVARIANTS RpmFollowsStatus
PROPERTIES ReqReturns
