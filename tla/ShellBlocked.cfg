SPECIFICATION FairSpec
CONSTANTS
  Guests = {g1}
  None = None
  NSlots = 1
  MaxOpens = 1
  MaxWrites = 1
  MaxHangs = 1
  MaxFailures = 0
CHECK_DEADLOCK FALSE
PROPERTY NeverBlocked
