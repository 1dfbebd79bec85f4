------------------------ MODULE MCSequentialScheduler ------------------------
(* A small instance of SequentialScheduler for TLC.                         *)
EXTENDS SequentialScheduler
=============================================================================
