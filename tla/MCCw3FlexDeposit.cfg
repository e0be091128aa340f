SPECIFICATION FairSpec
CONSTANTS
  DecimalOne = 10
  PrecisionFactor = 3
  Addr = {1, 2, 3}
  GroupAdmin = 1
  MemberLists <- MCOneList
  RemoveLists <- MCAll
  Thresholds <- MCQuorum
  Periods = {0, 1}
  Executors <- MCExecutors
  Deposits <- MCDeposits
  Latest = {}
  Spends = {0, 2}
  Purse = 1
  Treasury = 1
  None = None
  MaxU64 = 9
  MaxProposals = 2
  MaxFunded = 4
  MaxHeight = 1
INVARIANT DepositsAccounted
PROPERTY EveryProposalSettles
CHECK_DEADLOCK FALSE
