--------------------------- MODULE MCBookRecorder ---------------------------
(* One market with a queue of one batch.                                    *)
EXTENDS BookRecorder
=============================================================================
