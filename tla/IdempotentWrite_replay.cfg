\* A replay of a failed claim.
SPECIFICATION CalmSpec
CONSTANTS
  r1 = r1
  r2 = r2
  r3 = r3
  r4 = r4
  ka = ka
  kb = kb
  Requests = {r1, r2}
  Keys = {ka}
  KeyOf <- Twice
  NoReq = NoReq
CHECK_DEADLOCK FALSE
INVARIANTS ReplayReturnsOriginal
