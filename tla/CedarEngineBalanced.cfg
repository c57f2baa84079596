SPECIFICATION Spec
CONSTANTS
    Threads = {t1, t2, t3}
    PM = PM
    NoOne = NoOne
    Engines = {"de"}
    Calls = {"abort"}
    RefArgs = {}
    MaxRef = 3
    ClkMayFail = FALSE
INVARIANTS HolderClocked IdleUnclocked
PROPERTY ImplementsService
