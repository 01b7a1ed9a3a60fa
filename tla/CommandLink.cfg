SPECIFICATION Spec
CONSTANTS
  c1 = c1
  c2 = c2
  bad = bad
  None = None
  Configs <- MCConfigs
  Rejected <- MCRejected
  Rows <- MCRowsDiffer
  Retries = 2
  FrameMod = 6
  MaxReloads = 1
  MaxResets = 1
  MaxRestarts = 0
INVARIANT TypeOK
INVARIANT AckMeansRunning
PROPERTY AckFrameUsesConfig
PROPERTY GapsExact
