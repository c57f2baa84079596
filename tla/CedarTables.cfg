SPECIFICATION Spec
CONSTANTS
  Files = {f1, f2}
  Threads = {t1, t2}
  Channels = {1, 2}
  NSlots = 2
  IdMax = 1
  Params <- McParams
  Freqs = {500}
  MaxCalls = 3
  BootRate = 300
  End1 = 56
  End2 = 62
  End3 = 125
  EndMax = 1990
  Wrap = 4294
  Callers = {t1, t2}
  Keys = {1, 2}
  NInfos = 2
  Lengths = {1, 2}
  Addrs = {a1, a2, a3}
  PageSize = 3
  MaxLives = 3
  MaxFiles = 2
INVARIANTS
  RateExplained EntryExplained 
  ShowReadsOwnText  IndexExplained
  CrashExplained InitExact
\* The calls are bounded.
CHECK_DEADLOCK FALSE
SYMMETRY McSymmetry
