SPECIFICATION Spec
CONSTANTS
  Addr = {1, 2, 3}
  Subscribers = {"s"}
  MemberLists <- MCLists
  RemoveLists <- MCRemoves
  Admins = {1, None}
  None = None
  MaxU64 = 4
  MaxHeight = 2
INVARIANTS TypeOK TotalIsSum SubscribersInSync
PROPERTIES PagesSurviveEdits ImplementsElectorate
CHECK_DEADLOCK FALSE
