SPECIFICATION FairSpec
CONSTANTS
  Channels = {1, 2}
  Faulty = {2}
  Natives = {"coin"}
  Tokens = {"token"}
  Amounts = {1}
  Supply = 3
  GasLimits = {1}
  Admins = {"gov"}
  None = None
  NotListed = NotListed
  Unrecorded = FALSE
  MaxU64 = 1
  MaxU128 = 9
  MaxPackets = 2
INVARIANTS TypeOK EscrowAccounted Covered NoneRefused
PROPERTIES Settles ImplementsTransfers
CHECK_DEADLOCK FALSE
