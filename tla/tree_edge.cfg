SPECIFICATION Spec
CONSTANTS
  NIL = NIL
  Price = {1, 2, 3, 4, 5, 6, 7, 8}
CONSTRAINT ExecutedOnly
INVARIANT BookEdgeIsBest
