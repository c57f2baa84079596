SPECIFICATION Spec
CONSTANTS
  Clients = {a, b}
  NPde = 3
  NPte = 2
  PgSizes = {1, 2, 4}
  Bases <- BasesOf
  MaxLen <- LenOf
  Tables = {t1, t2, t3}
  Hardware <- AllDrivers
SYMMETRY Sym
INVARIANTS TablesShared TableExact DmaGoesHome UnmapInvalidates FreedTableUncached
