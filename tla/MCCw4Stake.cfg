SPECIFICATION Spec
CONSTANTS
  Addr = {1, 2}
  Subscribers = {"s"}
  Admins = {1, None}
  Denoms = {"native", "cw20"}
  TokensPerWeights = {0, 1, 2}
  MinBonds = {0, 2}
  Periods = {1, 2}
  Purse <- MCPurse
  None = None
  MaxU64 = 2
  MaxHeight = 2
INVARIANTS TypeOK StakeAndClaimsBacked FrozenWhileUnbonding MembersFollowStake
PROPERTY ImplementsElectorate
CHECK_DEADLOCK FALSE
