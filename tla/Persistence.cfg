SPECIFICATION IndexSpec
CONSTANTS
  N = 5
  Inputs <- MCInputs
  Thread = {t1, t2}
  NoLayer = None
  Foreign <- MCForeign
  Leftover <- MCLeftover
  Attr <- MCAttr
  Far = 4
  Chosen <- MCChosen
  Degree = 2
  Width = 4
  NoFile = NoFile
INVARIANTS TypeOK Nested NumberedByFirst RoundTrip EntryInComponent
SYMMETRY Threads
