SPECIFICATION Spec
CONSTANTS
  Client = {c1, c2}
  Trid = {n1, n2}
  Pci = {}
  MayStop = FALSE
CHECK_DEADLOCK FALSE
INVARIANT AlwaysTheSpecifiedTrid
