------------------------------- MODULE Feeds -------------------------------
(***************************************************************************)
(* What the merger of one stream sees of its download: the operators of    *)
(* StreamFeed, on records, so that a module with two streams can use them. *)
(***************************************************************************)
EXTENDS Naturals

CONSTANT Segments  \* the number of segments of a stream

ASSUME FeedAssumption == Segments \in Nat

FeedSegment == 0 .. Segments - 1

(* phase: "counting" the segments, "running", "ended" or "failed".         *)
(* outcome: what was reported of a segment, "none" if nothing yet.         *)
(* merged: how many segments the merger has got so far.                    *)
Feed == [phase : {"counting", "running", "ended", "failed"},
         outcome : [FeedSegment -> {"none", "ok", "lost"}],
         merged : 0 .. Segments]

NewFeed == [phase |-> "counting",
            outcome |-> [s \in FeedSegment |-> "none"],
            merged |-> 0]

(* run cannot learn the number of segments, or can.                        *)
Counting(f) == f.phase = "counting"
Failed(f) == [f EXCEPT !.phase = "failed"]
Started(f) == [f EXCEPT !.phase = "running"]

(* The outcomes may come in any order, each of them once.                  *)
MayReport(f, s) == f.phase = "running" /\ f.outcome[s] = "none"
Reported(f, s, r) == [f EXCEPT !.outcome = [@ EXCEPT ![s] = r]]

(* run returns when everything is reported; the merger may still be behind. *)
MayEnd(f) == f.phase = "running" /\ \A s \in FeedSegment : f.outcome[s] # "none"
Ended(f) == [f EXCEPT !.phase = "ended"]

(* The merger gets the segments in order.                                  *)
MayMerge(f) == f.merged \in FeedSegment /\ f.outcome[f.merged] # "none"
Merged(f) == [f EXCEPT !.merged = @ + 1]
=============================================================================
