SPECIFICATION FairSpec
CONSTANTS
  NIL = NIL
  o1 = o1
  o2 = o2
  o3 = o3
  o4 = o4
  Id <- MCId3
  Price = {1, 2, 3}
  MaxShares = 2
INVARIANTS TypeOK LevelsAgreeWithOrders TreesServe DrawnIdsAreLive
PROPERTIES ImplementsMatchingEngine CallsEnd
