\* Every request, two at a time, under the scheduling of FairSpec.
SPECIFICATION FairSpec
CONSTANTS
  Procs = {p1, p2}
  Tokens = {t1, t2}
  Fingerprints = {f1}
  SlotLimits = {2}
  Requests <- AllRequests
  Free = Free
  Clean = Clean
  None = None
PROPERTIES EveryRequestAnswered
