SPECIFICATION Spec
CONSTANTS
  Jobs = {j1}
  MaxQvm = 2
  MaxCmds = 3
  MaxFaults = 0
INVARIANT KilledBeforeFiles
