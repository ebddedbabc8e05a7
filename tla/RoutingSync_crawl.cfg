\* One key, one row, four pages: crawl, crash, resume, redeliver, heal.
SPECIFICATION Spec
CONSTANTS
  k1 = k1
  k2 = k2
  j1 = j1
  j2 = j2
  s1 = s1
  s2 = s2
  s3 = s3
  Keys = {k1}
  Jobs = {j1}
  KeyOf <- OneJobOf
  Requests = {r1}
  Sims = {s1, s2, s3}
  Listing <- OneListing
  StaleCutoff = 1
  JobTimeout = 1
  MaxTries = 3
  MaxJobs = 2
  NoJob = NoJob
  NoKey = NoKey
INVARIANTS DoneCovers CursorSound AttemptSound QueuedHasRow
PROPERTIES CursorOnlyAdvances DeliveriesRunOut ImplementsContract
