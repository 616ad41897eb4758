\* Another device enters between the two counts of a release.
SPECIFICATION Spec
CONSTANTS
  Procs = {p1, p2}
  Tokens = {t1, t2}
  Fingerprints = {f1}
  SlotLimits = {2}
  Requests <- DeviceTraffic
  Free = Free
  Clean = Clean
  None = None
SYMMETRY Symmetric
PROPERTY NotReleasedMeansNoSlot
