SPECIFICATION FairSpec
CONSTANTS
  DecimalOne = 10
  PrecisionFactor = 3
  Addr = {"a", "b", "c"}
  VoterLists <- MCVoterLists
  Thresholds <- MCThresholds
  Periods = {1}
  Latest = {0, 2}
  None = None
  MaxProposals = 2
  MaxHeight = 2
INVARIANTS TypeOK VotesDecide UnanimousYesPasses NobodyLockedOut
PROPERTIES VerdictsAreSure ImplementsLifecycle EveryProposalSettles
CHECK_DEADLOCK FALSE
