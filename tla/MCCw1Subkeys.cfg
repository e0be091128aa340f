SPECIFICATION Spec
CONSTANTS
  Addr = {1, 2}
  AdminLists = {{1}, {1, 2}}
  Denoms = {"x", "y"}
  Payments <- MCPayments
  Grants <- MCGrants
  PermissionSets <- MCPermissions
  Expirations = {1}
  Never = Never
  None = None
  MaxMsgs = 2
  MaxGranted = 2
  MaxHeight = 1
INVARIANTS TypeOK SpentWithinGrants QueriesTellTheTruth
PROPERTY FrozenForever
CHECK_DEADLOCK FALSE
