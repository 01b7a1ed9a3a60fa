SPECIFICATION Spec
CONSTANTS
  Configs <- MCConfigs
  Defaults <- MCDefaults
  Devices = {"d1", "d2"}
  Watch = TRUE
  MaxTries = 2
  MaxWrites = 3
  MaxSignals = 1
INVARIANT HardwareFollows
INVARIANT StaleOnlyAfterFailure
PROPERTY SighupHonoured
PROPERTY ChangeNoticed
CHECK_DEADLOCK FALSE
