SPECIFICATION FairSpec
CONSTANTS
  c1 = c1
  c2 = c2
  bad = bad
  None = None
  Configs <- MCConfigs
  Rejected <- MCRejected
  Rows <- MCRowsDiffer
  Retries = 2
  FrameMod = 4
  MaxReloads = 1
  MaxResets = 0
  MaxRestarts = 0
PROPERTY CommandResolved
