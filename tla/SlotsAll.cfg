\* Every request of the service, two at a time.
SPECIFICATION Spec
CONSTANTS
  Procs = {p1, p2}
  Tokens = {t1, t2, t3}
  Fingerprints = {f1, f2}
  SlotLimits = {1, 2}
  Requests <- AllRequests
  Free = Free
  Clean = Clean
  None = None
SYMMETRY Symmetric
INVARIANTS IInv NoDoubleInsert DeadlockNeedsDeleteKey
PROPERTIES SlotLostOnlyByName RefusalLeavesNoTrace ImplementsLedger
