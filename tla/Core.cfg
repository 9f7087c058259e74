SPECIFICATION Spec
CONSTANTS
  t1 = t1
  t2 = t2
  t3 = t3
  t4 = t4
  io = io
  NULL = NULL
  Tcbs = {t1, t2, t3, t4}
  IoTcb = io
  Names = {"A", "", "ModalityProbeIo", "ModalityPro"}
  AppNames = {"A", ""}
  EmptyName = ""
  IoName = "ModalityProbeIo"
  StoredName <- MCStoredName
  Crc <- MCCrc
  MaxProbes = 3
  MaxExcluded = 2
  TaskProbeSize = 1
  StorageSize = 4
  IncludeIoTask = TRUE
  ControlPlaneBuffer = TRUE
  UseTraceAssert = TRUE
  DeleteTasks = FALSE
  MayFail = {}
  MaxRecords = 4
SYMMETRY MCSymmetry
INVARIANTS CausalComplete IoTaskUntraced ExcludedNotTraced TracedIsRegistered
PROPERTIES RecordsOnlyOwn
