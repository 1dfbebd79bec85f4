---------------------------- MODULE SegmentPool ----------------------------
(***************************************************************************)
(* What the work queues of download/segments promise to the download       *)
(* threads, without saying in which order segments are handed out.         *)
(*                                                                         *)
(* A segment is queued, held by one worker, or finished.  A worker whose   *)
(* NextSegment call returns "no more work" leaves for good.  It may leave  *)
(* while segments are still queued (the batched scheduler looks at the     *)
(* batches one lock at a time), but then somebody else must still be       *)
(* there to fetch them: the last worker leaves an empty queue behind.      *)
(*                                                                         *)
(* SequentialScheduler and BatchedScheduler implement this specification;  *)
(* DownloadTask uses it as its queue.                                      *)
(***************************************************************************)
EXTENDS Integers

CONSTANTS
  Segment,   \* the segments of one stream
  Worker,    \* the download threads
  NoSegment  \* "holds nothing": seg == -1 in the code

ASSUME NoSegmentAssumption == NoSegment \notin Segment

(* DownloadTask.Start raises Threads to at least 1. *)
ASSUME WorkerAssumption == Worker # {}

VARIABLES
  queued,    \* segments that NextSegment may still hand out
  hold,      \* the segment each worker holds, or NoSegment
  finished,  \* segments some worker reported with SegmentStatus.Downloaded
  live       \* workers whose NextSegment has not yet reported "no more work"

poolVars == <<queued, hold, finished, live>>

PoolTypeOK ==
  /\ queued \subseteq Segment
  /\ hold \in [Worker -> Segment \cup {NoSegment}]
  /\ finished \subseteq Segment
  /\ live \subseteq Worker

PoolInit ==
  /\ queued = Segment
  /\ hold = [w \in Worker |-> NoSegment]
  /\ finished = {}
  /\ live = Worker

(* A mutant: the segment is still queued. *)
Take_StaysQueued(w, s) ==
  /\ w \in live
  /\ hold[w] = NoSegment
  /\ s \in queued
  /\ hold' = [hold EXCEPT ![w] = s]
  /\ UNCHANGED <<queued, finished, live>>

(* WorkQueue.NextSegment returning a segment. *)
Take(w, s) ==
  /\ w \in live
  /\ hold[w] = NoSegment
  /\ s \in queued
  /\ queued' = queued \ {s}
  /\ hold' = [hold EXCEPT ![w] = s]
  /\ UNCHANGED <<finished, live>>

(* WorkQueue.NextSegment returning ok = false. *)
Leave(w) ==
  /\ w \in live
  /\ hold[w] = NoSegment
  /\ queued = {} \/ live \ {w} # {}
  /\ live' = live \ {w}
  /\ UNCHANGED <<queued, hold, finished>>

(* WorkQueue.RequeueFailed. *)
Requeue(w) ==
  /\ hold[w] # NoSegment
  /\ queued' = queued \cup {hold[w]}
  /\ hold' = [hold EXCEPT ![w] = NoSegment]
  /\ UNCHANGED <<finished, live>>

(* The worker is done with its segment, downloaded or given up. *)
Finish(w) ==
  /\ hold[w] # NoSegment
  /\ finished' = finished \cup {hold[w]}
  /\ hold' = [hold EXCEPT ![w] = NoSegment]
  /\ UNCHANGED <<queued, live>>

PoolNext ==
  \E w \in Worker :
    \/ \E s \in Segment : Take(w, s)
    \/ Leave(w)
    \/ Requeue(w)
    \/ Finish(w)

PoolSpec == PoolInit /\ [][PoolNext]_poolVars

----------------------------------------------------------------------------

(* A segment is in exactly one place: queued, finished, or in the hands of *)
(* one worker.  Two workers never download the same segment, a segment is  *)
(* never handed out again once it was reported, and none falls through.    *)
OnePlace ==
  /\ \A v, w \in Worker : hold[v] = hold[w] /\ hold[v] # NoSegment => v = w
  /\ \A w \in Worker : hold[w] \notin queued \cup finished
  /\ queued \cap finished = {}
  /\ \A s \in Segment :
       s \in queued \/ s \in finished \/ \E w \in Worker : hold[w] = s

(* When every worker has been told that there is no more work, every       *)
(* segment was reported: nothing stays behind in a queue nobody reads.     *)
NothingLeftBehind == live = {} => finished = Segment

(* A worker that left holds nothing: what it was given was handed back or  *)
(* reported first.                                                         *)
LeftEmptyHanded == \A w \in Worker \ live : hold[w] = NoSegment
=============================================================================
