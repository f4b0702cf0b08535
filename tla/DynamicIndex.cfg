SPECIFICATION SpecAdd
CONSTANTS
  Vertex <- MCVertex
  Degree = 3
  QueueLen = 3
  Cal_Dist <- MCDist
  Inputs <- MCInputs
  NoVertex = NoVertex
INVARIANTS LayersFit HomeIsNeighbours TagsCommon
PROPERTY FullViewsKept
