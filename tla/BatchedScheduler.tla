-------------------------- MODULE BatchedScheduler --------------------------
(***************************************************************************)
(* The out-of-order scheduler of download/segments/work_queue.go: the      *)
(* segments are split in one batch per worker, each with a queue of failed *)
(* segments and a mutex of its own.  A worker eats its batch from the      *)
(* front and, when nothing of its own is left, visits the other batches in *)
(* index order, one lock at a time, and steals: a failed segment, or the   *)
(* batch's last fresh one.                                                 *)
(*                                                                         *)
(* The visits are not one atomic step: other workers take and requeue      *)
(* segments between two of them, so a worker may see every batch empty     *)
(* although there never was a moment at which all of them were.            *)
(*                                                                         *)
(* fails, unripe and the reduced caller are as in SequentialScheduler.     *)
(***************************************************************************)
EXTENDS Batches, Sequences

CONSTANTS
  Segments,     \* the number of segments
  Threads,      \* the number of workers, and of batches
  RequeueLimit  \* DownloadTask.RequeueFailed

ASSUME SegmentsAssumption == Segments \in Nat
ASSUME ThreadsAssumption == Threads \in Nat \ {0}
ASSUME LimitAssumption == RequeueLimit \in Nat

NoSegment == -1
Segment == 0 .. Segments - 1
Worker == 0 .. Threads - 1

VARIABLES
  start, end,  \* the fresh part of each batch; empty when start > end
  failed,      \* each batch's FIFO of requeued segments
  fails,       \* failedSeg.fails of each segment
  unripe,      \* segments whose requeue delay has not elapsed
  pc,          \* what each worker is doing
  victim,      \* the batch a scanning worker tries next
  hold,        \* the segment each worker got from NextSegment, or NoSegment
  finished     \* segments the workers are done with

batchVars == <<start, end, failed>>
workerVars == <<pc, victim, hold>>
vars == <<start, end, failed, fails, unripe, pc, victim, hold, finished>>

TypeOK ==
  /\ start \in [Worker -> -1 .. Segments]
  /\ end \in [Worker -> -2 .. Segments - 1]
  /\ failed \in [Worker -> Seq(Segment)]
  /\ fails \in [Segment -> 0 .. RequeueLimit]
  /\ unripe \subseteq Segment
  /\ pc \in [Worker -> {"idle", "scan", "waiting", "working", "done"}]
  /\ victim \in [Worker -> 0 .. Threads]
  /\ hold \in [Worker -> Segment \cup {NoSegment}]
  /\ finished \subseteq Segment

Init ==
  /\ start = [w \in Worker |-> FirstOf(Segments, Threads, w)]
  /\ end = [w \in Worker |-> LastOf(Segments, Threads, w)]
  /\ failed = [w \in Worker |-> <<>>]
  /\ fails = [s \in Segment |-> 0]
  /\ unripe = {}
  /\ pc = [w \in Worker |-> "idle"]
  /\ victim = [w \in Worker |-> 0]
  /\ hold = [w \in Worker |-> NoSegment]
  /\ finished = {}

HasFresh(b) == start[b] <= end[b]
HasFailed(b) == failed[b] # <<>>

(* A mutant: the failed segments are not looked at. *)
Drained_ForgetsFailed(b) == ~HasFresh(b)

(* The fresh segments of batch b are all out and none of its failed ones   *)
(* is waiting.                                                             *)
Drained(b) == ~HasFresh(b) /\ ~HasFailed(b)

(* The batches are visited in index order, the worker's own left out.      *)
After(w, b) == IF b + 1 = w THEN b + 2 ELSE b + 1

----------------------------------------------------------------------------

(* What NextSegment leaves behind: the segment, and whether f.wait() is    *)
(* still to come.  The lock is no longer held.                             *)
Got(w, s, where) ==
  /\ hold' = [hold EXCEPT ![w] = s]
  /\ pc' = [pc EXCEPT ![w] = where]
  /\ UNCHANGED victim

(* A mutant: the start is moved before it is read. *)
TakeOwn_IncrementsFirst(w) ==
  /\ pc[w] = "idle"
  /\ HasFresh(w)
  /\ Got(w, start[w] + 1, "working")
  /\ start' = [start EXCEPT ![w] = @ + 1]
  /\ UNCHANGED <<end, failed, fails, unripe, finished>>

(* tryGetNext: the next segment of the worker's own batch.                 *)
TakeOwn(w) ==
  /\ pc[w] = "idle"
  /\ HasFresh(w)
  /\ Got(w, start[w], "working")
  /\ start' = [start EXCEPT ![w] = @ + 1]
  /\ UNCHANGED <<end, failed, fails, unripe, finished>>

(* tryGetNext: the worker's oldest failed segment, ripe or not.            *)
TakeOwnFailed(w) ==
  /\ pc[w] = "idle"
  /\ ~HasFresh(w)
  /\ HasFailed(w)
  /\ Got(w, Head(failed[w]), "waiting")
  /\ failed' = [failed EXCEPT ![w] = Tail(@)]
  /\ UNCHANGED <<start, end, fails, unripe, finished>>

(* tryGetNext finds nothing; nextInternal goes on to the other batches.    *)
StartScan(w) ==
  /\ pc[w] = "idle"
  /\ Drained(w)
  /\ pc' = [pc EXCEPT ![w] = "scan"]
  /\ victim' = [victim EXCEPT ![w] = After(w, -1)]
  /\ UNCHANGED <<batchVars, fails, unripe, hold, finished>>

(* trySteal prefers the failed queue, unless its head is unripe and there  *)
(* is a fresh segment to steal instead.                                    *)
StealsFailed(b) == HasFailed(b) /\ (HasFresh(b) => Head(failed[b]) \notin unripe)

StealFailed(w) ==
  /\ pc[w] = "scan"
  /\ victim[w] < Threads
  /\ StealsFailed(victim[w])
  /\ Got(w, Head(failed[victim[w]]), "waiting")
  /\ failed' = [failed EXCEPT ![victim[w]] = Tail(@)]
  /\ UNCHANGED <<start, end, fails, unripe, finished>>

(* A mutant: the end is moved before it is read. *)
StealFresh_DecrementsFirst(w) ==
  /\ pc[w] = "scan"
  /\ victim[w] < Threads
  /\ ~StealsFailed(victim[w])
  /\ HasFresh(victim[w])
  /\ Got(w, end[victim[w]] - 1, "working")
  /\ end' = [end EXCEPT ![victim[w]] = @ - 1]
  /\ UNCHANGED <<start, failed, fails, unripe, finished>>

StealFresh(w) ==
  /\ pc[w] = "scan"
  /\ victim[w] < Threads
  /\ ~StealsFailed(victim[w])
  /\ HasFresh(victim[w])
  /\ Got(w, end[victim[w]], "working")
  /\ end' = [end EXCEPT ![victim[w]] = @ - 1]
  /\ UNCHANGED <<start, failed, fails, unripe, finished>>

StealNothing(w) ==
  /\ pc[w] = "scan"
  /\ victim[w] < Threads
  /\ Drained(victim[w])
  /\ victim' = [victim EXCEPT ![w] = After(w, @)]
  /\ UNCHANGED <<batchVars, fails, unripe, pc, hold, finished>>

(* NextSegment returns ok = false and the worker ends.                     *)
NoMoreWork(w) ==
  /\ pc[w] = "scan"
  /\ victim[w] = Threads
  /\ pc' = [pc EXCEPT ![w] = "done"]
  /\ UNCHANGED <<batchVars, fails, unripe, victim, hold, finished>>

(* A mutant: nobody waits. *)
WaitOver_AtOnce(w) ==
  /\ pc[w] = "waiting"
  /\ pc' = [pc EXCEPT ![w] = "working"]
  /\ UNCHANGED <<batchVars, fails, unripe, victim, hold, finished>>

(* f.wait() returns, and with it NextSegment.                              *)
WaitOver(w) ==
  /\ pc[w] = "waiting"
  /\ hold[w] \notin unripe
  /\ pc' = [pc EXCEPT ![w] = "working"]
  /\ UNCHANGED <<batchVars, fails, unripe, victim, hold, finished>>

(* RequeueFailed(seg, requeues + 1): always the worker's own batch, also   *)
(* when the segment was stolen.                                            *)
RequeueFailed(w) ==
  /\ pc[w] = "working"
  /\ fails[hold[w]] < RequeueLimit
  /\ failed' = [failed EXCEPT ![w] = Append(@, hold[w])]
  /\ fails' = [fails EXCEPT ![hold[w]] = @ + 1]
  /\ unripe' = unripe \cup {hold[w]}
  /\ Got(w, NoSegment, "idle")
  /\ UNCHANGED <<start, end, finished>>

(* The worker downloaded its segment or gave it up.                        *)
Finish(w) ==
  /\ pc[w] = "working"
  /\ finished' = finished \cup {hold[w]}
  /\ Got(w, NoSegment, "idle")
  /\ UNCHANGED <<batchVars, fails, unripe>>

(* The clock passes the timestamp of a failed segment.                     *)
DelayElapses(s) ==
  /\ s \in unripe
  /\ unripe' = unripe \ {s}
  /\ UNCHANGED <<batchVars, fails, workerVars, finished>>

AllDone == \A w \in Worker : pc[w] = "done"

(* The threads have ended; nothing runs any more.                          *)
Terminated == AllDone /\ unripe = {} /\ UNCHANGED vars

WorkerStep(w) ==
  \/ TakeOwn(w)
  \/ TakeOwnFailed(w)
  \/ StartScan(w)
  \/ StealFailed(w)
  \/ StealFresh(w)
  \/ StealNothing(w)
  \/ NoMoreWork(w)
  \/ WaitOver(w)
  \/ RequeueFailed(w)
  \/ Finish(w)

Next ==
  \/ \E w \in Worker : WorkerStep(w)
  \/ \E s \in Segment : DelayElapses(s)
  \/ Terminated

Spec == Init /\ [][Next]_vars

(* Every goroutine keeps running and the clock keeps moving.               *)
Fairness ==
  /\ \A w \in Worker : WF_vars(WorkerStep(w))
  /\ \A s \in Segment : WF_vars(DelayElapses(s))

FairSpec == Spec /\ Fairness

----------------------------------------------------------------------------

Fresh(b) == start[b] .. end[b]
FailedIn(b) == {failed[b][i] : i \in 1 .. Len(failed[b])}
Queued == UNION {Fresh(b) \cup FailedIn(b) : b \in Worker}

(* The batches together as the abstract pool of segments. *)
Pool == INSTANCE SegmentPool WITH
  queued <- Queued,
  live <- {w \in Worker : pc[w] # "done"}

(* Stealing from both ends, requeueing to another batch than the one a     *)
(* segment came from and looking at the batches one after the other is     *)
(* still a pool: no segment is handed out twice or dropped, and the last   *)
(* worker told that there is no more work leaves all batches empty.        *)
ImplementsPool == Pool!PoolSpec

(* Only its owner puts segments into a batch, and reads it again before it *)
(* leaves it to the thieves: the batch of a worker that is looking         *)
(* elsewhere, or that has ended, stays empty.  So whoever misses a segment *)
(* requeued behind its back may leave, the owner is still there for it.    *)
NoOrphanedWork ==
  \A w \in Worker : pc[w] \in {"scan", "done"} => ~HasFresh(w) /\ failed[w] = <<>>

(* Across all the batches a segment waits for its retry in one place.      *)
FailedOnce ==
  \A b, c \in Worker :
    \A i \in 1 .. Len(failed[b]), j \in 1 .. Len(failed[c]) :
      failed[b][i] = failed[c][j] => b = c /\ i = j

(* A worker starts a requeued segment only once its delay has elapsed,     *)
(* whether it slept on its own or on a stolen one.                         *)
DelayHonoured == \A w \in Worker : pc[w] = "working" => hold[w] \notin unripe

(* Every worker is told that there is no more work, and by then every      *)
(* segment was handed out and reported.                                    *)
EverythingFinishes == <>(AllDone /\ finished = Segment)
=============================================================================
