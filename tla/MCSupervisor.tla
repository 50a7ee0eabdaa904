------------------------------ MODULE MCSupervisor ------------------------------
(* Backoffs of one, two, four, four... ticks in a window of nine; a killed    *)
(* supervisor may leave its collector behind while others come and go.        *)
EXTENDS Supervisor, TLC
Alike == Permutations(Collectors)
================================================================================
