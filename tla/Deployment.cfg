\* A rotation on a server and two modules of one process, with every failure.
SPECIFICATION Spec
CONSTANTS
  a = a
  b = b
  seedA = seedA
  seedB = seedB
  s1 = s1
  m1 = m1
  m2 = m2
  Kids = {a, b}
  Seeds = {seedA, seedB}
  Malformed = Malformed
  Empty = Empty
  Nil = Nil
  None = None
  Servers = {s1}
  Consumers = {m1, m2}
  Clients = {c1, c2}
  Injected <- Injections
  Configs <- AllConfigs
  SeedOf <- TrueSeeds
SYMMETRY Symmetric
INVARIANTS IInv FleetAccepts CallsAreServed NothingLeftOpen SharedStayOpen ClosedInReverse OneModule
