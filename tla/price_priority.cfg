SPECIFICATION Spec
CONSTANTS
  NIL = NIL
  o1 = o1
  o2 = o2
  o3 = o3
  o4 = o4
  Id <- MCId4
  Price = {1, 2, 3, 4}
  MaxShares = 1
SYMMETRY Interchangeable
PROPERTY PricePriority
