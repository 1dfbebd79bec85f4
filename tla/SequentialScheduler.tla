------------------------ MODULE SequentialScheduler ------------------------
(***************************************************************************)
(* The sequential scheduler of download/segments/work_queue.go: one shared *)
(* counter and one shared queue of failed segments, both behind one mutex. *)
(*                                                                         *)
(* A failedSeg of the code is a segment number, the number of times it was *)
(* requeued and the time before which it must not be retried.  A segment   *)
(* is in at most one place, so the last two are kept per segment: fails[s] *)
(* and s \in unripe (its requeue delay is still running).  The queue       *)
(* itself is a sequence, where a segment queued twice would show.          *)
(*                                                                         *)
(* The caller of the queue (downloadTask, download.go) is reduced to what  *)
(* the queue sees of it: it takes a segment, then hands it back at most    *)
(* RequeueLimit times or is done with it.                                  *)
(***************************************************************************)
EXTENDS Integers, Sequences

CONSTANTS
  Max,          \* sequentialScheduler.max, the number of segments
  Worker,       \* the download threads
  RequeueLimit  \* DownloadTask.RequeueFailed

ASSUME MaxAssumption == Max \in Nat
ASSUME RequeueLimitAssumption == RequeueLimit \in Nat
ASSUME WorkersAssumption == Worker # {}

NoSegment == -1
Segment == 0 .. Max - 1

VARIABLES
  next,      \* the next segment nobody has fetched yet
  failed,    \* FIFO of requeued segments
  fails,     \* failedSeg.fails of each segment
  unripe,    \* segments whose requeue delay has not elapsed
  pc,        \* what each worker is doing
  hold,      \* the segment each worker got from NextSegment, or NoSegment
  finished   \* segments the workers are done with

vars == <<next, failed, fails, unripe, pc, hold, finished>>

TypeOK ==
  /\ next \in 0 .. Max
  /\ failed \in Seq(Segment)
  /\ fails \in [Segment -> 0 .. RequeueLimit]
  /\ unripe \subseteq Segment
  /\ pc \in [Worker -> {"idle", "waiting", "working", "done"}]
  /\ hold \in [Worker -> Segment \cup {NoSegment}]
  /\ finished \subseteq Segment

Init ==
  /\ next = 0
  /\ failed = <<>>
  /\ fails = [s \in Segment |-> 0]
  /\ unripe = {}
  /\ pc = [w \in Worker |-> "idle"]
  /\ hold = [w \in Worker |-> NoSegment]
  /\ finished = {}

(* A mutant: the bound taken as the last segment. *)
HasNext_IncludesMax == next <= Max

(* There is a segment nobody has fetched yet. *)
HasNext == next < Max

(* NextSegment, first branch of nextInternal: the shared counter.  The     *)
(* segment is returned at once.                                            *)
TakeNext(w) ==
  /\ pc[w] = "idle"
  /\ HasNext
  /\ next' = next + 1
  /\ hold' = [hold EXCEPT ![w] = next]
  /\ pc' = [pc EXCEPT ![w] = "working"]
  /\ UNCHANGED <<failed, fails, unripe, finished>>

(* A mutant: the segment stays at the head of the queue. *)
TakeFailed_StaysQueued(w) ==
  /\ pc[w] = "idle"
  /\ ~HasNext
  /\ failed # <<>>
  /\ hold' = [hold EXCEPT ![w] = Head(failed)]
  /\ pc' = [pc EXCEPT ![w] = "waiting"]
  /\ UNCHANGED <<next, failed, fails, unripe, finished>>

(* NextSegment, second branch of nextInternal: the oldest failed segment.  *)
(* The lock is released before f.wait() sleeps out the delay.              *)
TakeFailed(w) ==
  /\ pc[w] = "idle"
  /\ ~HasNext
  /\ failed # <<>>
  /\ failed' = Tail(failed)
  /\ hold' = [hold EXCEPT ![w] = Head(failed)]
  /\ pc' = [pc EXCEPT ![w] = "waiting"]
  /\ UNCHANGED <<next, fails, unripe, finished>>

(* A mutant: nobody waits. *)
WaitOver_AtOnce(w) ==
  /\ pc[w] = "waiting"
  /\ pc' = [pc EXCEPT ![w] = "working"]
  /\ UNCHANGED <<next, failed, fails, unripe, hold, finished>>

(* f.wait() returns, and with it NextSegment. *)
WaitOver(w) ==
  /\ pc[w] = "waiting"
  /\ hold[w] \notin unripe
  /\ pc' = [pc EXCEPT ![w] = "working"]
  /\ UNCHANGED <<next, failed, fails, unripe, hold, finished>>

(* A mutant: the failed segments are not looked at. *)
NoMoreWork_ForgetsFailed(w) ==
  /\ pc[w] = "idle"
  /\ ~HasNext
  /\ pc' = [pc EXCEPT ![w] = "done"]
  /\ UNCHANGED <<next, failed, fails, unripe, hold, finished>>

(* NextSegment returns ok = false and the worker ends. *)
NoMoreWork(w) ==
  /\ pc[w] = "idle"
  /\ ~HasNext
  /\ failed = <<>>
  /\ pc' = [pc EXCEPT ![w] = "done"]
  /\ UNCHANGED <<next, failed, fails, unripe, hold, finished>>

(* The worker gives its segment back: RequeueFailed(seg, requeues + 1). *)
RequeueFailed(w) ==
  /\ pc[w] = "working"
  /\ fails[hold[w]] < RequeueLimit
  /\ failed' = Append(failed, hold[w])
  /\ fails' = [fails EXCEPT ![hold[w]] = @ + 1]
  /\ unripe' = unripe \cup {hold[w]}
  /\ hold' = [hold EXCEPT ![w] = NoSegment]
  /\ pc' = [pc EXCEPT ![w] = "idle"]
  /\ UNCHANGED <<next, finished>>

(* The worker downloaded its segment or gave it up. *)
Finish(w) ==
  /\ pc[w] = "working"
  /\ finished' = finished \cup {hold[w]}
  /\ hold' = [hold EXCEPT ![w] = NoSegment]
  /\ pc' = [pc EXCEPT ![w] = "idle"]
  /\ UNCHANGED <<next, failed, fails, unripe>>

(* The clock passes the timestamp of a failed segment. *)
DelayElapses(s) ==
  /\ s \in unripe
  /\ unripe' = unripe \ {s}
  /\ UNCHANGED <<next, failed, fails, pc, hold, finished>>

AllDone == \A w \in Worker : pc[w] = "done"

(* The threads have ended; nothing runs any more. *)
Terminated == AllDone /\ unripe = {} /\ UNCHANGED vars

WorkerStep(w) ==
  \/ TakeNext(w)
  \/ TakeFailed(w)
  \/ WaitOver(w)
  \/ NoMoreWork(w)
  \/ RequeueFailed(w)
  \/ Finish(w)

Next ==
  \/ \E w \in Worker : WorkerStep(w)
  \/ \E s \in Segment : DelayElapses(s)
  \/ Terminated

Spec == Init /\ [][Next]_vars

(* Every goroutine keeps running and the clock keeps moving. *)
Fairness ==
  /\ \A w \in Worker : WF_vars(WorkerStep(w))
  /\ \A s \in Segment : WF_vars(DelayElapses(s))

FairSpec == Spec /\ Fairness

----------------------------------------------------------------------------

Failed == {failed[i] : i \in 1 .. Len(failed)}

(* The scheduler as the abstract pool of segments. *)
Pool == INSTANCE SegmentPool WITH
  queued <- (next .. Max - 1) \cup Failed,
  live <- {w \in Worker : pc[w] # "done"}

(* The scheduler hands out and takes back segments exactly as the abstract *)
(* pool allows: no segment twice, none dropped, and the last worker told   *)
(* that there is no more work leaves an empty queue.                       *)
ImplementsPool == Pool!PoolSpec

(* The queue of failed segments holds every segment at most once; the      *)
(* per-segment fails and delay above are therefore those of the failedSeg. *)
FailedOnce == \A i, j \in 1 .. Len(failed) : failed[i] = failed[j] => i = j

(* A worker gets a requeued segment only once its delay has elapsed, even  *)
(* though the segment left the queue, and the lock, long before            *)
(* (args.go: "Minimum amount of time to wait before redownloading").       *)
DelayHonoured == \A w \in Worker : pc[w] = "working" => hold[w] \notin unripe

(* Every worker is told that there is no more work, and by then every      *)
(* segment was handed out and reported, however the requeues, their delays *)
(* and the last fetches of the other workers interleave.                   *)
EverythingFinishes == <>(AllDone /\ finished = Segment)
=============================================================================
