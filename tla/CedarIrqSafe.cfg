SPECIFICATION Spec
CONSTANTS
    Clients = {c1, c2}
    NoOne = NoOne
    IsrOrder <- JpegAndDecoder
    Timeouts = TRUE
    MaxOrphans = 1
SYMMETRY ClientSymmetry
INVARIANTS NoMissedWake OneIsExplained ZeroIsExplained
PROPERTIES OneAnswerPerStart
