CONSTANTS
  r1 = r1  r2 = r2  r3 = r3
  h1 = h1  h2 = h2
  alice = alice  bob = bob
  f1 = f1  c1 = c1  c2 = c2
  None = None
  Runs = {r1, r2, r3}
  Hosts = {h1, h2}
  HostOf <- TwoHosts
  Names = {alice}
  NameOf <- SameName
  Files = {f1}
  Contents = {c1}
  Sums <- AllSums
  Cksum <- NoCollision
  Crashes = FALSE
  Kills = FALSE
  DbFaults = FALSE
  FirstStart = FALSE
  Overlap = "per_host"
SPECIFICATION Spec
INVARIANTS TypeOK FileMapsCoverRows MeInfoIntact IdReachesClient
PROPERTIES GaveUpIsGone ImplementsStore
CHECK_DEADLOCK FALSE
