SPECIFICATION Spec
CONSTANTS
  t1 = t1
  t2 = t2
  t3 = t3
  t4 = t4
  io = io
  NULL = NULL
  Tcbs = {t1, t2}
  IoTcb = io
  Names = {"A", "ModalityProbeIo", "ModalityPro"}
  AppNames = {"A"}
  EmptyName = ""
  IoName = "ModalityProbeIo"
  StoredName <- MCStoredName
  Crc <- MCCrc
  MaxProbes = 3
  MaxExcluded = 2
  TaskProbeSize = 1
  StorageSize = 3
  IncludeIoTask = TRUE
  ControlPlaneBuffer = TRUE
  UseTraceAssert = TRUE
  DeleteTasks = TRUE
  MayFail = {}
  MaxRecords = 3
SYMMETRY MCSymmetry
INVARIANTS TracedIsRegistered
