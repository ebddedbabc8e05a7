\* Every request is served once, so the system stops when all are.
SPECIFICATION Spec
CONSTANTS
  r1 = r1
  r2 = r2
  r3 = r3
  r4 = r4
  ka = ka
  kb = kb
  Requests = {r1, r2, r3, r4}
  Keys = {ka, kb}
  KeyOf <- Retries
  NoReq = NoReq
CHECK_DEADLOCK FALSE
INVARIANTS KeyIsHeldAlone AcceptedOnce FirstAnswerIsTrue
PROPERTY ImplementsContract
SYMMETRY TrySymmetry
