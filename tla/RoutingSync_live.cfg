\* One key, two rows, two attempts at once: no orphan is left, every job resolves.
SPECIFICATION FairSpec
CONSTANTS
  k1 = k1
  k2 = k2
  j1 = j1
  j2 = j2
  s1 = s1
  s2 = s2
  s3 = s3
  Keys = {k1}
  Jobs = {j1, j2}
  KeyOf <- OneKeyOf
  Requests = {r1}
  Sims = {s1}
  Listing <- EmptyPage
  StaleCutoff = 0
  JobTimeout = 1
  MaxTries = 1
  MaxJobs = 2
  NoJob = NoJob
  NoKey = NoKey
PROPERTIES NoOrphanLeft InFlightResolves
