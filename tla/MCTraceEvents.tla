------------------------------ MODULE MCTraceEvents ------------------------------
(* Small instances of TraceEvents for TLC.                                     *)
EXTENDS TraceEvents, TLC

CONSTANTS t1, t2, idle

MCSymmetry == Permutations(Workers)
================================================================================
