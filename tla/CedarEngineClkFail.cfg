SPECIFICATION Spec
CONSTANTS
    Threads = {t1, t2}
    PM = PM
    NoOne = NoOne
    Engines = {"de"}
    Calls = {"abort"}
    RefArgs = {}
    MaxRef = 3
    ClkMayFail = TRUE
INVARIANTS RefCountExact OffMeansOff
