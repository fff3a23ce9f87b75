SPECIFICATION FairSpec
CONSTANTS
  Buf = {b1, b2, b3}
  Size = 3
  Slots = 3
  d1 = d1
  d2 = d2
  Data <- MCOneDatum
  Contents <- MCLengths
  SplitSegs = 2
  MaxQueueDepth = 2
  CallbackDestroys = FALSE
PROPERTY CallsReturn
