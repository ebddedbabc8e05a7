SPECIFICATION TSpec
CHECK_DEADLOCK FALSE
CONSTANTS
  Req = {1, 2, 3}
  Users = {"adm", "adm2", "boss", "mem", "u"}
  Companies = {"c1", "c2", "c3"}
  Tokens = {"t", "n", "m"}
  Emails = {"adm@x", "adm2@x", "boss@x", "mem@x", "new@x", "NEW@x"}
  Names = {"acme", "zeta", "Nova", "NOVA"}
  None = None
  Normal <- MCNormal
  Folded <- MCFolded
  Seed <- MCSeed
  Asks <- MCAsks
  Providers = {"MOABITS", "KITE"}
  Moabits = "MOABITS"
  Fields = {"x_api_key", "base_url"}
  Values = {1, 2}
  Codes = {"x", "y"}
  SeedCreds <- MCSeedCreds
  SeedMappings <- MCSeedMappings
  SeedSources <- MCSeedSources
INVARIANTS EmailsDistinct OneTokenPerSession StoredWasTested
PROPERTIES OnlyNamedFields LinkedWasOffered
