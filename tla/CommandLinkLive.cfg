SPECIFICATION FairSpec
CONSTANTS
  c1 = c1
  c2 = c2
  bad = bad
  None = None
  Configs <- MCFewConfigs
  Rejected <- MCRejected
  Rows <- MCFewRows
  Retries = 2
  FrameMod = 4
  MaxReloads = 1
  MaxResets = 1
  MaxRestarts = 1
PROPERTY CommandResolved
