SPECIFICATION Spec
CONSTANTS
  t1 = t1
  t2 = t2
  A = A
  B = B
  NULL = NULL
  Broadcast = Broadcast
  Tcbs = {t1, t2}
  Ids = {A, B}
  MayDelete = {t2}
  ProbeId <- MCOwnIds
  Sizes = {120}
  MaxProbes = 2
  BufferSize = 130
  LocalSize = 128
  LengthSize = 4
  AnnounceIters = 0
  ItersRange = 2
  UseTraceAssert = TRUE
  MayFail = {"control_buffer", "read", "report", "announce", "write", "process"}
  MaxMessages = 2
INVARIANTS TypeOK
PROPERTIES DeliveryHolds AcceptedIsProcessed EndToEnd ReportedAgain AnnouncedAgain
