SPECIFICATION Spec
CONSTANTS
  Proc = {p1, p2}
  Statuses <- MCStatuses
  Mode = {"m1", "m2"}
  MaxDumps = 2
SYMMETRY Symmetry
INVARIANTS TypeOK BlockOfLastCrash ClearedIsNone ReportsTheText
PROPERTY ClearStays
