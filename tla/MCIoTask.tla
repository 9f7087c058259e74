-------------------------------- MODULE MCIoTask ---------------------------------
(* Small instances of IoTask for TLC.                                          *)
EXTENDS IoTask, TLC

CONSTANTS t1, t2, A, B

\* Two tasks with ids of their own.
MCOwnIds == [t \in Tcbs |-> IF t = t1 THEN A ELSE B]
================================================================================
