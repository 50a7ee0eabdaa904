---------------------------- MODULE MCLiveCollector ----------------------------
(* Up to three markets of nine ticks: discovery begins six ticks before the   *)
(* boundary, the overlap two. Two calls, recorders or reports go wrong, and   *)
(* that is as much as leaves discovery the time it needs.                     *)
EXTENDS LiveCollector

ASSUME InTime == DiscoveryInTime
================================================================================
