---------------------------- MODULE MCDispatcher ----------------------------
(* Small instances of Dispatcher for TLC.                                  *)
EXTENDS Dispatcher, TLC

Symmetry == Permutations(External) \cup Permutations(Calls \ External)
=============================================================================
