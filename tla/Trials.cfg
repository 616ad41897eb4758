\* Every request on the ledger of one installation, two at a time.
SPECIFICATION FairSpec
CONSTANTS
  Procs = {p1, p2}
  Modules = {m1}
  TrialDays = 1
  MaxClock = 1
  EntRows <- Rows
  Requests <- AllRequests
  NoRow = NoRow
  Never = Never
  Clean = Clean
  None = None
INVARIANTS IInv CertShowsCommittedTrials NoRingOfWaits
PROPERTIES ImplementsBook EveryRequestAnswered
