\* An activation commits between the two halves of DeleteKey.
SPECIFICATION Spec
CONSTANTS
  Procs = {p1, p2}
  Tokens = {t1, t2}
  Fingerprints = {f1}
  SlotLimits = {2}
  Requests <- DeleteTraffic
  Free = Free
  Clean = Clean
  None = None
SYMMETRY Symmetric
INVARIANT DeletedKeyHasNoDevices
