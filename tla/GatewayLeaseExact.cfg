SPECIFICATION FairSpec
CONSTANTS
  local = local
  remote = remote
  r1 = r1
  r2 = r2
  r3 = r3
  d1 = d1
  d2 = d2
  d3 = d3
  Instance = {local, remote}
  Remote = {remote}
  NoInstance = none
  Request = {r1, r2, r3}
  Id = {d1, d2, d3}
  IdOf <- OwnIds
  MaxLimit = 2
  LeasesExpire = FALSE
  MaxVanish = 0
INVARIANT
  NoSlotIsLost
PROPERTY
  SlotsDrain
CHECK_DEADLOCK FALSE
