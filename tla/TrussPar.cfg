SPECIFICATION FairSpec
CONSTANTS
  Node <- MCNodePendant
  NumEdges = 12
  Ends <- MCEndsPendant
  Thread = {t1, t2}
INVARIANTS NeverBelow QuietAtEnd
PROPERTIES ExactAlone Termination
