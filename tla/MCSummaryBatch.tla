---------------------------- MODULE MCSummaryBatch ----------------------------
(* Instances of SummaryBatch for TLC.                                       *)
EXTENDS SummaryBatch, TLC

WorkerSymmetry == Permutations(Workers)
=============================================================================
