SPECIFICATION Spec
CONSTANTS
  t1 = t1
  t2 = t2
  t3 = t3
  t4 = t4
  io = io
  NULL = NULL
  Tcbs = {t1, t2, t3}
  IoTcb = io
  Names = {"A", "ModalityProbeIo", "ModalityPro"}
  AppNames = {"A"}
  EmptyName = ""
  IoName = "ModalityProbeIo"
  StoredName <- MCStoredName
  Crc <- MCCrc
  MaxProbes = 2
  MaxExcluded = 2
  TaskProbeSize = 1
  StorageSize = 3
  IncludeIoTask = TRUE
  ControlPlaneBuffer = TRUE
  UseTraceAssert = FALSE
  DeleteTasks = FALSE
  MayFail = {}
  MaxRecords = 6
SYMMETRY MCSymmetry
INVARIANTS NoNullDereference
CHECK_DEADLOCK FALSE
