\* Two devices, one slot, and two things that fail, are given up or move.
SPECIFICATION TightSpec
CONSTANTS
  Targets = {d1, d2}
  Max = 1
  Window = 2
  MaxTrouble = 2
  SlotLimits = {1, 2}
  Stray = Stray
  None = None
INVARIANTS IInv BeliefHolds
PROPERTIES InvalidOnlyIfBad PickIsEnough ImplementsQuota AnsweredInTheEnd
