SPECIFICATION Spec
CONSTANTS
  Node <- MCNode
  Tracked = {4}
  Degree = 2
  Core <- MCCore
  Compo <- MCCompo
  MaxLayer = 3
  Strays = TRUE
INVARIANTS ViewInComponent NoneSeenTwice LayerKeepsLinks
