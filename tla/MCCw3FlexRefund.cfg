SPECIFICATION FairSpec
CONSTANTS
  DecimalOne = 10
  PrecisionFactor = 3
  Addr = {1, 2, 3}
  GroupAdmin = 1
  MemberLists <- MCOneList
  RemoveLists <- MCNobody
  Thresholds <- MCThresholds
  Periods = {1}
  Executors <- MCAnyone
  Deposits <- MCRefunded
  Latest = {}
  Spends = {0}
  Purse = 1
  Treasury = 1
  None = None
  MaxU64 = 9
  MaxProposals = 1
  MaxFunded = 0
  MaxHeight = 2
PROPERTY DepositsComeBack
CHECK_DEADLOCK FALSE
