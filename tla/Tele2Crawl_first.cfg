\* Two ticks a second, a request every two of them, one detail a page; two more
\* callers compete for the lock, and two refusals reach the longest delay.
SPECIFICATION FairCrawlSpec
CONSTANTS
  worker = worker
  other = other
  third = third
  Crawler = Crawler
  Procs = {worker}
  Calls = {Crawler, other, third}
  ProcOf <- OneProcess
  Interval = 2
  Step = 1
  MaxDelay = 2
  Second = 2
  MaxPages = 3
  MaxDetails = 1
PROPERTIES PacedStarts RefusalIsServed CallsEnd CrawlEnds
