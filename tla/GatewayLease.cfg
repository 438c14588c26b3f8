SPECIFICATION Spec
CONSTANTS
  local = local
  remote = remote
  r1 = r1
  r2 = r2
  r3 = r3
  d1 = d1
  d2 = d2
  d3 = d3
  Instance = {local, remote}
  Remote = {remote}
  NoInstance = none
  Request = {r1, r2, r3}
  Id = {d1, d2, d3}
  IdOf <- SharedId
  MaxLimit = 2
  LeasesExpire = TRUE
  MaxVanish = 1
INVARIANTS
  IInv
  HoldersAreCounted
  FallbackStaysLocal
PROPERTIES
  GrantsWithinLimit
  PoolPromise
SYMMETRY SameIdSymmetry
CHECK_DEADLOCK FALSE
