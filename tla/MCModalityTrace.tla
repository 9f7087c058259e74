----------------------------- MODULE MCModalityTrace -----------------------------
(* Small instances of ModalityTrace for TLC.                                   *)
EXTENDS ModalityTrace, TLC

CONSTANTS t1, t2, t3, t4, io

\* The names of the runs with their real CRC-16/IBM-3740; the kernel keeps the
\* first configMAX_TASK_NAME_LEN - 1 = 11 characters.
MCCrc ==
  [n \in Names |-> CASE n = "A"               -> 47381
                     [] n = "B"               -> 35190
                     [] n = ""                -> 65535
                     [] n = "ModalityProbeIo" -> 33344
                     [] n = "ModalityPro"     -> 30440
                     [] n = "TelemetryUplink" -> 26322
                     [] n = "TelemetryUp"     -> 8740]

MCStoredName ==
  [n \in Names |-> CASE n = "ModalityProbeIo" -> "ModalityPro"
                     [] n = "TelemetryUplink" -> "TelemetryUp"
                     [] OTHER                 -> n]

MCSymmetry == Permutations(Tcbs)
================================================================================
