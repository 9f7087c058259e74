SPECIFICATION Spec
CONSTANTS
  t1 = t1
  t2 = t2
  A = A
  B = B
  NULL = NULL
  Broadcast = Broadcast
  Tcbs = {t1, t2}
  Ids = {A, B}
  MayDelete = {}
  ProbeId <- MCOwnIds
  Sizes = {120, 200}
  MaxProbes = 2
  BufferSize = 512
  LocalSize = 128
  LengthSize = 4
  AnnounceIters = 2
  ItersRange = 4
  UseTraceAssert = TRUE
  MayFail = {}
  MaxMessages = 1
PROPERTIES AcceptedIsProcessed
