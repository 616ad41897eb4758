\* Two first starts of one trial, no resets.
SPECIFICATION Spec
CONSTANTS
  Procs = {p1, p2}
  Modules = {m1}
  TrialDays = 1
  MaxClock = 1
  EntRows <- NoRowsOfKey
  Requests <- Keyless
  NoRow = NoRow
  Never = Never
  Clean = Clean
  None = None
SYMMETRY Symmetric
INVARIANT StartedOnce
