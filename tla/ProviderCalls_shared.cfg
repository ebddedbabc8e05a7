\* Two Moabits calls over one slot, one Kite call.
SPECIFICATION FairSpec
CONSTANTS
  c1 = c1
  c2 = c2
  s1 = s1
  Call = {c1, c2}
  OpsOf <- OpsOfCalls
  Sims = {s1}
  One = s1
  Chunks <- OnePage
  Slots = 1
  V2Enabled = TRUE
  V2Slots = 1
  Attempts = 2
  Life = 1
  Margin = 0
  Grace = 1
  ListTtl = 1
  V2Ttl = 1
  MaxTokens = 2
INVARIANTS WrittenOnce AnsweredBySome
PROPERTIES TokenOnlyAdvances RenewedWhenStale CallsEnd
