SPECIFICATION FairSpec
CONSTANTS
  Client = {c1, c2}
  Trid = {p1, p2, n1}
  Pci = {p1, p2}
  MayStop = TRUE
CHECK_DEADLOCK FALSE
INVARIANTS
  TypeOK
  ContextIsLive
  AnswerIsRight
PROPERTIES
  QueuedAnswered
  DestructorReturns
