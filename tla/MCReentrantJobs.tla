------------------------- MODULE MCReentrantJobs -------------------------
(* A small instance of ReentrantJobs for TLC.                             *)
EXTENDS ReentrantJobs

CONSTANTS t1, t2, t3, t4

\* The first job makes the last call.
LastByFirst == [t \in Tasks |-> IF t = t4 THEN t1 ELSE NoTask]
===========================================================================
