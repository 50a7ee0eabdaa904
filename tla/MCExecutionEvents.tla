--------------------------- MODULE MCExecutionEvents ---------------------------
(* One order of two units, five observations of it and two mishaps: an event  *)
(* is lost and another doubled, a cancel overtakes a fill, a sync fails and   *)
(* the process dies over the retry.                                           *)
EXTENDS ExecutionEvents, TLC

MCQty == [o \in Orders |-> 2]
Symmetry == Permutations(Captures)
================================================================================
