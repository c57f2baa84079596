SPECIFICATION Spec
CONSTANTS
  Drivers = {"v1", "v2", "v3"}
  Masters = {m1, m2}
  MaxProbes = 3
  WordBits = 13
  PtShift = 7
  HighShift = 4
  Formats <- V1AndV2
  NPte = 4
  PgSizes = {1, 2, 4, 8}
  Curve <- BoardCurve
  Floors = {48}
  Hystereses = {0, 3}
  Temps = {40, 57, 59, 60, 66, 67, 69, 70, 90}
  FanStart = 45
  FanKeep = 30
  MaxBoots = 4
INVARIANTS
  MasterTranslated BypassFollows  HeldExact
  WordsRoundTrip LoopCools 
\* Probes and boots are bounded, and a board with a wrong signature stays off.
CHECK_DEADLOCK FALSE
SYMMETRY McSymmetry
