--------------------------- MODULE MCSegmentFiles ---------------------------
(* A small instance of SegmentFiles for TLC. *)
EXTENDS SegmentFiles

(* Segments of different lengths: with the two starts they share names.     *)
SomeLengths == [a \in Absolute |-> IF a = 1 THEN 1 ELSE 2]
=============================================================================
