SPECIFICATION Spec
CONSTANTS
  DecimalOne = 10
  PrecisionFactor = 3
  Addr = {1, 2, 3}
  GroupAdmin = 1
  MemberLists <- MCUnequal
  RemoveLists <- MCThird
  Thresholds <- MCThresholds
  Periods = {1}
  Executors <- MCAnyone
  Deposits <- MCRefunded
  Latest = {0, 2}
  Spends = {0}
  Purse = 1
  Treasury = 1
  None = None
  MaxU64 = 9
  MaxProposals = 1
  MaxFunded = 0
  MaxHeight = 2
INVARIANTS TypeOK VotesDecide UnanimousYesPasses NobodyLockedOut
PROPERTIES ImplementsLifecycle VerdictsAreSure
CHECK_DEADLOCK FALSE
