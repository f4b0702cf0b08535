SPECIFICATION Spec
CONSTANTS
  t1 = t1
  t2 = t2
  t3 = t3
  NoThread = NoThread
  NoNode = NoNode
  Last = 5
  Node <- MCNode
  Degree = 2
  QueueLen = 3
  Dist <- MCDist
  Entry <- MCEntrySplit
  Start <- MCLocked
  Passes <- MCUpperLayer
  Thread <- MCThreads
INVARIANTS ServesHierarchy LockedKept
PROPERTIES NoneLoses
