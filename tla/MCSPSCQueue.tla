---------------------------- MODULE MCSPSCQueue -----------------------------
(* Small instances of SPSCQueue for TLC.                                   *)
EXTENDS SPSCQueue, TLC
=============================================================================
