CONSTANTS
  Workers = {w1, w2}
  Copies = {b1, b2, b3, b4, b5, b6}
  MaxLost = 1
SPECIFICATION FairSpecTap
INVARIANTS OneOwner
PROPERTIES RequestEnds
