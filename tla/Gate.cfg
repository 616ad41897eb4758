\* Every request on the registry of two tenants, two at a time.
SPECIFICATION Spec
CONSTANTS
  t1 = t1
  t2 = t2
  Procs = {p1, p2}
  Tenants = {t1, t2}
  Minted = {k1}
  MaxApps = 2
  Requests <- AllRequests
  Platform = Platform
  Null = Null
  NoRow = NoRow
  None = None
SYMMETRY Symmetric
INVARIANTS IInv OneRowPerTenant SeesOwnTenant AbsentMeansDeleted BarredStayOut
PROPERTIES StepsKeepToTheirTenant
