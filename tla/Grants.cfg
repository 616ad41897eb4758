\* Every request on one key of two modules, two at a time.
SPECIFICATION FairSpec
CONSTANTS
  m1 = m1
  m2 = m2
  Procs = {p1, p2}
  Modules = {m1, m2}
  MaxClock = 1
  MaxTime = 2
  Requests <- AllRequests
  NoRow = NoRow
  Never = Never
  Bad = Bad
  Clean = Clean
  None = None
INVARIANTS IInv KindMatchesExpiry OrphansCameLate RingsContainDeleteKey
PROPERTIES CreatedWhole ExtensionLostOnlyToOverlap EveryRequestAnswered
