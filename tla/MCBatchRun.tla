------------------------------ MODULE MCBatchRun ------------------------------
(***************************************************************************)
(* BatchRun for TLC: the batches of a small packet.                        *)
(***************************************************************************)
EXTENDS BatchRun

CONSTANTS b1, b2, b3

ThreeBatches == {b1, b2, b3}
==============================================================================
