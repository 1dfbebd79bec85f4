------------------------- MODULE MCBatchedScheduler -------------------------
(* Small instances of BatchedScheduler for TLC.  The batches are visited in *)
(* index order, so the workers are not interchangeable: no symmetry.        *)
EXTENDS BatchedScheduler
=============================================================================
