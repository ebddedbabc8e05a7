\* The four endpoints, three sources each, every limit from one SIM to more than
\* the sources; any source may fail, lose its credentials or its upserts.
SPECIFICATION FairSpec
CONSTANTS
  c1 = c1
  c2 = c2
  any = any
  s1 = s1
  s2 = s2
  Owner = {c1, c2}
  Status = {any, s1, s2}
  Sources <- AllSources
  Order <- ListingOrder
  PageCap <- Caps
  Limits = {2, 4}
  MaxSims = 3
INVARIANT WithinLimit
INVARIANT CoveredOrTold
INVARIANT ShownIsRouted
PROPERTY NothingTwice
PROPERTY WalkEnds
CHECK_DEADLOCK FALSE
