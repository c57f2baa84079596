SPECIFICATION Spec
CONSTANTS
  a1 = a1
  a2 = a2
  b1 = b1
  A = A
  B = B
  Threads <- MCThreads
  Process <- MCProcess
  Processes <- MCProcesses
  Filps = {f1, f2}
  Fds = {n3, n4}
  Bufs = {x, y}
  Disciplined = {A}
  MaxList = 3
\* All processes may exit.
CHECK_DEADLOCK FALSE
SYMMETRY Sym
INVARIANTS HoldsExact ViewExact
