\* An account of two pages, one detail each.
SPECIFICATION CrawlSpec
CONSTANTS
  worker = worker
  other = other
  third = third
  Crawler = Crawler
  Procs = {worker}
  Calls = {Crawler, other, third}
  ProcOf <- OneProcess
  Interval = 2
  Step = 1
  MaxDelay = 2
  Second = 2
  MaxPages = 2
  MaxDetails = 1
INVARIANTS FirstRunCoversYear
