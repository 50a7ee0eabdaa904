--------------------------- MODULE MCIntentLedger ---------------------------
(* The ledger with a few handles and intents, for TLC.                     *)
EXTENDS IntentLedger, TLC

\* Ids, contents and handles are only compared for equality.
Symmetry == Permutations(Handles) \cup Permutations(Ids) \cup Permutations(Contents)
=============================================================================
