---------------------------- MODULE MCTradesSync ----------------------------
(* A small instance of TradesSync: pages of two fills, two of them within    *)
(* the offset limit, so that four fills of one range do not fit behind each  *)
(* other.                                                                    *)
EXTENDS TradesSync

MCWindows == {[lo |-> 0, hi |-> 3]}

\* BOUND: a run that was cut short and a time window are not in the same
\* behavior.
OneTrouble == run.window # None => cuts = 0
=============================================================================
