\* Three callers for a threshold of three, a window longer than the open period.
SPECIFICATION FairSpec
CONSTANTS
  Calls = {c1, c2, c3}
  Threshold = 3
  Window = 3
  OpenDuration = 2
PROPERTIES OpensOnEvidence HealsWithProvider
