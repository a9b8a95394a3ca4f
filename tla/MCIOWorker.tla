----------------------------- MODULE MCIOWorker -----------------------------
(* Small instances of IOWorker for TLC: connections of one type that is      *)
(* picked, and functions that different threads schedule.                  *)
EXTENDS IOWorker, TLC

CONSTANTS c1, c2, t1, f1, f2

MCTypeOf == [c \in Conns |-> t1]
MCOwnerOf == [f \in Functions |-> IF f = f1 THEN c1 ELSE c2]
=============================================================================
