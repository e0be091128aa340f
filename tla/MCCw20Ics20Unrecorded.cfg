SPECIFICATION Spec
CONSTANTS
  Channels = {1, 2}
  Faulty = {2}
  Natives = {"coin"}
  Tokens = {"token"}
  Amounts = {1}
  Supply = 3
  GasLimits = {1}
  Admins = {"gov"}
  None = None
  NotListed = NotListed
  Unrecorded = TRUE
  MaxU64 = 1
  MaxU128 = 9
  MaxPackets = 2
INVARIANT Covered
CHECK_DEADLOCK FALSE
