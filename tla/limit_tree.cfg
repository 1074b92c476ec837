SPECIFICATION Spec
CONSTANTS
  NIL = NIL
  Price = {1, 2, 3, 4, 5, 6, 7}
CONSTRAINT TrustedHistory
INVARIANTS TypeOK SearchTree BookEdgeIsBest SnapshotIsTopN
PROPERTY InsertionBalances
