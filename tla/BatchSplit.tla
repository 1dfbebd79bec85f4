----------------------------- MODULE BatchSplit -----------------------------
(***************************************************************************)
(* The loops of makeBatchedScheduler (download/segments/work_queue.go),    *)
(* one iteration per step.                                                 *)
(***************************************************************************)
EXTENDS Batches, Sequences

CONSTANTS
  SegmentCounts,  \* the numbers of segments to split
  ThreadCounts    \* the numbers of workers to split them among

ASSUME SegmentCountsAssumption == SegmentCounts \subseteq Nat
ASSUME ThreadCountsAssumption == ThreadCounts \subseteq Nat \ {0}

VARIABLES
  segments, threads,  \* the arguments
  batches,            \* the batches made so far: their start and end
  lastSeg,            \* the end of the last full batch
  stage                  \* "split" (first loop), "fill" (second), "done"

splitVars == <<segments, threads, batches, lastSeg, stage>>

SplitTypeOK ==
  /\ segments \in SegmentCounts
  /\ threads \in ThreadCounts
  /\ batches \in Seq([start : Int, end : Int])
  /\ Len(batches) <= threads
  /\ lastSeg \in -1 .. segments - 1
  /\ stage \in {"split", "fill", "done"}

SplitInit ==
  /\ segments \in SegmentCounts
  /\ threads \in ThreadCounts
  /\ batches = <<>>
  /\ lastSeg = -1
  /\ stage = "split"

interval == segments \div threads

Add(first, last) == batches' = Append(batches, [start |-> first, end |-> last])

(* A mutant: the rest may be empty after a full batch.                     *)
FullBatch_OneTooMany ==
  /\ stage = "split"
  /\ lastSeg + 1 + interval <= segments
  /\ Add(lastSeg + 1, lastSeg + 1 + interval)
  /\ lastSeg' = lastSeg + 1 + interval
  /\ UNCHANGED <<segments, threads, stage>>

(* A mutant: every batch starts at the last segment of the one before.     *)
FullBatch_Overlaps ==
  /\ stage = "split"
  /\ lastSeg + 1 + interval < segments
  /\ Add(lastSeg, lastSeg + 1 + interval)
  /\ lastSeg' = lastSeg + 1 + interval
  /\ UNCHANGED <<segments, threads, stage>>

(* A batch of interval + 1 segments fits (and may be all that is left).    *)
FullBatch ==
  /\ stage = "split"
  /\ lastSeg + 1 + interval < segments
  /\ Add(lastSeg + 1, lastSeg + 1 + interval)
  /\ lastSeg' = lastSeg + 1 + interval
  /\ UNCHANGED <<segments, threads, stage>>

(* The batch with the rest, possibly empty.                                *)
RestBatch ==
  /\ stage = "split"
  /\ ~(lastSeg + 1 + interval < segments)
  /\ Add(lastSeg + 1, segments - 1)
  /\ stage' = "fill"
  /\ UNCHANGED <<segments, threads, lastSeg>>

(* A worker without a batch of its own: "start > end so it just steals".   *)
EmptyBatch ==
  /\ stage = "fill"
  /\ Len(batches) < threads
  /\ Add(-1, -2)
  /\ UNCHANGED <<segments, threads, lastSeg, stage>>

Return ==
  /\ stage = "fill"
  /\ Len(batches) >= threads
  /\ stage' = "done"
  /\ UNCHANGED <<segments, threads, batches, lastSeg>>

SplitNext == FullBatch \/ RestBatch \/ EmptyBatch \/ Return

SplitSpec == SplitInit /\ [][SplitNext]_splitVars

----------------------------------------------------------------------------

(* makeBatchedScheduler makes exactly one batch per worker, never more     *)
(* (a batch beyond the last worker would have no owner to retry its failed *)
(* segments), and batch k is the k-th of the closed form.                  *)
ClosedForm ==
  stage = "done" =>
    /\ Len(batches) = threads
    /\ \A k \in 0 .. threads - 1 :
         batches[k + 1] = [start |-> FirstOf(segments, threads, k),
                           end |-> LastOf(segments, threads, k)]

(* Every segment is in the batch of exactly one worker.                    *)
Partition ==
  stage = "done" =>
    \A s \in 0 .. segments - 1 :
      \E k \in 1 .. threads :
        \A j \in 1 .. Len(batches) :
          s \in batches[j].start .. batches[j].end <=> j = k
=============================================================================
