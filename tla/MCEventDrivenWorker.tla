------------------------ MODULE MCEventDrivenWorker ------------------------
(***************************************************************************)
(* EventDrivenWorker for TLC: two workers in the process, a call of the    *)
(* gateway and up to two nested calls.                                     *)
(***************************************************************************)
EXTENDS EventDrivenWorker

CONSTANT MaxExternal    \* calls of the gateway

MCExternalCalls == {<<0, n>> : n \in 1..MaxExternal}
=============================================================================
