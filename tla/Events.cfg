SPECIFICATION Spec
CONSTANTS
  NULL = NULL
  t1 = t1
  t2 = t2
  idle = idle
  Workers = {t1, t2}
  Idle = idle
  Traced = {t1, t2}
SYMMETRY MCSymmetry
INVARIANTS TypeOK DecodedByManifest LogTellsFill RefusalExplained
