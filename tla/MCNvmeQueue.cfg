SPECIFICATION Spec
CONSTANTS
  Buf = {b1, b2, b3}
  Size = 3
  Slots = 3
  d1 = d1
  d2 = d2
  Data <- MCData
  Contents <- MCContents
  SplitSegs = 2
  MaxQueueDepth = 2
  CallbackDestroys = FALSE
SYMMETRY Symmetry
INVARIANTS
  TypeOK
  BuffersOwnedOnce
  CountersAgree
  ExhaustionIsTemporary
  ReturnMeansDone
PROPERTY ImplementsBlockIO
