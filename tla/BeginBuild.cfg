SPECIFICATION LoadedSpec
CONSTANTS
  N = 10
  MACHINE_WORDSZ = 2
  PACKSZ = 3
  DegreeRange = 65536
  Files <- MCFiles
  Graphs <- MCGraphs
INVARIANTS BucketsInPlace Exact CoreOfFile NearAsInGraph
PROPERTY Peels
