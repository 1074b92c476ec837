SPECIFICATION Spec
CONSTANTS
  NIL = NIL
  Price = {1, 2, 3, 4, 5}
INVARIANT SnapshotIsTopN
