SPECIFICATION ATCSpec
CONSTANTS
  Vertex <- MCVertex
  Inputs <- MCInputs
  Queries <- MCQueries
  Epsilon <- MCEpsilon
INVARIANTS AnswerScored SupportCounts TrussKept EnoughLeft StopsInTime QueryKept
