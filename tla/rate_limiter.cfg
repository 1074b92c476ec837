SPECIFICATION LimiterFairSpec
CONSTANTS
  Caller = {c1, c2}
  Address = {ip1}
  Global = global
  MaxOrders = 2
  IpMax = 2
  GlobalMax = 3
  MaxUnseen = 2
INVARIANTS LimiterTypeOK OvershootIsBounded ExpiryIsComing
PROPERTY CountersReset
