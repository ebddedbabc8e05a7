\* Two requests at once out of all kinds, over two accounts.
SPECIFICATION FairSpec
CONSTANTS
  r1 = r1
  r2 = r2
  c1 = c1
  c2 = c2
  p1 = p1
  p2 = p2
  s1 = s1
  s2 = s2
  s3 = s3
  f1 = f1
  f2 = f2
  Req = {r1, r2}
  Companies = {c1, c2}
  Iccids = {s1, s2, s3}
  ProviderOrder <- Order
  Accounts <- AccountsOf
  Holds <- HoldsOf
  Prefixes = {f1, f2}
  PrefixOf <- SixDigits
  Seeded <- NoSeeds
  Asks <- AsksOf
  Ttl = 1
  MaxEntries = 1
  DetailLimit = 1
  StatsPage = 1
  StatsPages = 2
  None = None
INVARIANTS RoutedIsFound BatchAccounted WholeOrTold CacheBounded
PROPERTIES HeldIsResolved RequestsEnd
