SPECIFICATION Spec
CONSTANTS
  t1 = t1
  t2 = t2
  t3 = t3
  t4 = t4
  io = io
  NULL = NULL
  Tcbs = {t1, t2}
  IoTcb = io
  Names = {"A", "ModalityProbeIo", "ModalityPro"}
  AppNames = {"A"}
  EmptyName = ""
  IoName = "ModalityProbeIo"
  StoredName <- MCStoredName
  Crc <- MCCrc
  MaxProbes = 2
  MaxExcluded = 2
  TaskProbeSize = 2
  StorageSize = 7
  IncludeIoTask = TRUE
  ControlPlaneBuffer = TRUE
  UseTraceAssert = FALSE
  DeleteTasks = TRUE
  MayFail = {"merge_snapshot", "produce_snapshot"}
  MaxRecords = 4
SYMMETRY MCSymmetry
INVARIANTS TypeOK Attribution CausalSound StorageDisjoint TaggedHasSlot
PROPERTIES RecordsAtOwnTcb NothingForgotten
CHECK_DEADLOCK FALSE
