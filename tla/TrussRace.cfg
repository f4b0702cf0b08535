SPECIFICATION Spec
CONSTANTS
  Node <- MCNode
  NumEdges = 11
  Ends <- MCEnds
  Thread = {t1, t2}
SYMMETRY MCSymmetry
INVARIANT
  Exact
