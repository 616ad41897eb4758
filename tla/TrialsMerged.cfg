\* A trial of one module runs when a keyed start of another is answered.
SPECIFICATION Spec
CONSTANTS
  Procs = {p1}
  Modules = {m1, m2}
  TrialDays = 1
  MaxClock = 1
  EntRows <- NoRowsOfKey
  Requests <- Starts
  NoRow = NoRow
  Never = Never
  Clean = Clean
  None = None
SYMMETRY Symmetric
PROPERTY LedgerMerged
