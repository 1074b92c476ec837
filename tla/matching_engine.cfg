SPECIFICATION FairSpec
CONSTANTS
  NIL = NIL
  Id = {o1, o2, o3, o4}
  Price = {1, 2, 3}
  MaxShares = 2
INVARIANTS TypeOK Uncrossed QueuesAreLines TradesWorsen
PROPERTIES NobodyJumpsTheQueue PartialFillEndsTheCall CallsEnd
