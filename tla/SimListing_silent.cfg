\* The global listing of three providers: a Tele2 page is skipped unreported.
SPECIFICATION Spec
CONSTANTS
  c1 = c1
  c2 = c2
  any = any
  s1 = s1
  s2 = s2
  Owner = {c1, c2}
  Status = {any, s1, s2}
  Sources <- GlobalSources
  Order <- ListingOrder
  PageCap <- Caps
  Limits = {2, 4}
  MaxSims = 3
CHECK_DEADLOCK FALSE
INVARIANT NeverSilentlyIncomplete
