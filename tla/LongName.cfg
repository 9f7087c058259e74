SPECIFICATION Spec
CONSTANTS
  t1 = t1
  t2 = t2
  t3 = t3
  t4 = t4
  io = io
  NULL = NULL
  Tcbs = {t1, t2}
  IoTcb = io
  Names = {"TelemetryUplink", "TelemetryUp", "ModalityProbeIo", "ModalityPro"}
  AppNames = {"TelemetryUplink"}
  EmptyName = ""
  IoName = "ModalityProbeIo"
  StoredName <- MCStoredName
  Crc <- MCCrc
  MaxProbes = 3
  MaxExcluded = 2
  TaskProbeSize = 1
  StorageSize = 3
  IncludeIoTask = TRUE
  ControlPlaneBuffer = TRUE
  UseTraceAssert = TRUE
  DeleteTasks = FALSE
  MayFail = {}
  MaxRecords = 3
SYMMETRY MCSymmetry
INVARIANTS ExcludedNotTraced
