SPECIFICATION Spec
CONSTANTS
  Jobs = {j1}
  MaxQvm = 2
  MaxCmds = 3
  MaxFaults = 1
INVARIANT NoStrayQvm
INVARIANT FilesOfKilledGuest
INVARIANT OwnGroupByOverlap
PROPERTY TableConverges
