SPECIFICATION Spec
CONSTANTS
  Addr = {1, 2, 3}
  Amounts = {1, 2}
  Supplies <- MCSupplies
  Minters <- MCMinters
  Expirations = {1}
  NoCap = NoCap
  Never = Never
  None = None
  MaxU128 = 2
  MaxHeight = 1
  MaxIssued = 2
INVARIANTS TypeOK SupplyIsSum SidesAgree SpendingWithinGrants
CHECK_DEADLOCK FALSE
