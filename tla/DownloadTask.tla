---------------------------- MODULE DownloadTask ----------------------------
(***************************************************************************)
(* A DownloadTask (download/download.go): its goroutine run, the download  *)
(* threads, and what they share: the work queue (the abstract SegmentPool, *)
(* which both schedulers implement), the SegmentStatus through which the   *)
(* merger gets the segments in order (download/segments/segments.go), and  *)
(* the Progress counters (download/progress_bar.go).                       *)
(*                                                                         *)
(* Each of these has a mutex of its own, so a thread that is done with a   *)
(* segment tells them one after the other, and other threads run between.  *)
(***************************************************************************)
EXTENDS SegmentPool, FiniteSets, Sequences

CONSTANTS
  Segments,       \* the number of segments
  FailThreshold,  \* failed attempts before a segment is requeued or lost
  RequeueFailed,  \* how many times a segment is requeued
  RequeueLast     \* whether the last segment is requeued too

ASSUME SegmentsAssumption == Segments \in Nat /\ Segment = 0 .. Segments - 1
ASSUME ThresholdAssumption == FailThreshold \in Nat \ {0}
ASSUME FiniteWorkers == IsFiniteSet(Worker)
ASSUME RequeueAssumption == RequeueFailed \in Nat /\ RequeueLast \in BOOLEAN

VARIABLES
  \* DownloadTask.run
  phase,       \* "counting", then "running", then "returned" or "failed"
  countFails,  \* failed attempts to learn the number of segments
  lost,        \* result.LostSegments, once phase = "returned"
  \* the local variables of each downloadTask
  pc,          \* "new", "next" (seg = -1), "try", "requeued", "lost",
               \* "cached", "done" (Progress is still to be told) or "ended"
  seg,
  failCount,
  networkFailCount,
  \* what travels with a segment
  requeues,    \* failedSeg.fails
  onDisk,      \* segments whose .done file exists and is not empty
  tries,       \* history: the failed calls of downloadSegment so far
  \* SegmentStatus
  results,     \* SegmentStatus.segments: "none" is a key that is not there
  missed,
  mergedCount,
  \* Progress
  cached, downloaded, failed, requeuedShown

runVars == <<phase, countFails, lost>>
localVars == <<pc, seg, failCount, networkFailCount>>
statusVars == <<results, missed, mergedCount>>
progressVars == <<cached, downloaded, failed, requeuedShown>>
vars == <<poolVars, runVars, localVars, requeues, onDisk, tries, statusVars,
          progressVars>>

CountAttempts == 3  \* the loop of run
NetFailLimit == 3   \* networkFailCount > 3
LastMinimum == 5    \* the least the last segment is tried

IsLast(s) == s = Segments - 1

(* "the last segment often isn't available, so use less retries for it".   *)
Fails(s) ==
  IF ~IsLast(s) THEN FailThreshold
  ELSE IF FailThreshold \div 4 < LastMinimum THEN LastMinimum
  ELSE FailThreshold \div 4

(* A mutant: one requeue too many. *)
MayRequeue_OnceMore(s) ==
  requeues[s] <= RequeueFailed /\ (~IsLast(s) \/ RequeueLast)

MayRequeue(s) == requeues[s] < RequeueFailed /\ (~IsLast(s) \/ RequeueLast)

Missed == {missed[i] : i \in 1 .. Len(missed)}

TypeOK ==
  /\ PoolTypeOK
  /\ phase \in {"counting", "running", "returned", "failed"}
  /\ countFails \in 0 .. CountAttempts
  /\ lost \in Seq(Segment)
  /\ pc \in [Worker -> {"new", "next", "try", "requeued", "lost", "cached",
                    "done", "ended"}]
  /\ seg \in [Worker -> Segment \cup {NoSegment}]
  /\ failCount \in [Worker -> Nat]
  /\ \A w \in Worker : seg[w] \in Segment => failCount[w] <= Fails(seg[w])
  /\ networkFailCount \in [Worker -> 0 .. NetFailLimit + 1]
  /\ requeues \in [Segment -> 0 .. RequeueFailed]
  /\ onDisk \subseteq Segment
  /\ tries \in [Segment -> Nat]
  /\ results \in [Segment -> {"none", "ok", "lost"}]
  /\ missed \in Seq(Segment)
  /\ mergedCount \in 0 .. Segments
  /\ cached \in Nat /\ downloaded \in Nat /\ failed \in Nat
  /\ requeuedShown \subseteq Segment

(* Files of an earlier run may be there already.                           *)
Init ==
  /\ PoolInit
  /\ phase = "counting"
  /\ countFails = 0
  /\ lost = <<>>
  /\ pc = [w \in Worker |-> "new"]
  /\ seg = [w \in Worker |-> NoSegment]
  /\ failCount = [w \in Worker |-> 0]
  /\ networkFailCount = [w \in Worker |-> 0]
  /\ requeues = [s \in Segment |-> 0]
  /\ onDisk \in SUBSET Segment
  /\ tries = [s \in Segment |-> 0]
  /\ results = [s \in Segment |-> "none"]
  /\ missed = <<>>
  /\ mergedCount = 0
  /\ cached = 0 /\ downloaded = 0 /\ failed = 0
  /\ requeuedShown = {}

----------------------------------------------------------------------------
(* DownloadTask.run *)

(* getSegmentCount fails; the third time run gives up.                     *)
CountSegmentsFails ==
  /\ phase = "counting"
  /\ countFails' = countFails + 1
  /\ phase' = IF countFails + 1 = CountAttempts THEN "failed" ELSE phase
  /\ UNCHANGED <<poolVars, lost, localVars, requeues, onDisk, tries, statusVars,
                 progressVars>>

(* The number of segments is known, from the server or from the command    *)
(* line: run starts the merger and the download threads.                   *)
StartThreads ==
  /\ phase = "counting"
  /\ phase' = "running"
  /\ pc' = [w \in Worker |-> "next"]
  /\ UNCHANGED <<poolVars, countFails, lost, seg, failCount, networkFailCount,
                 requeues, onDisk, tries, statusVars, progressVars>>

(* A mutant: run waits for one thread only. *)
Return_TooEarly ==
  /\ phase = "running"
  /\ \E w \in Worker : pc[w] = "ended"
  /\ lost' = missed
  /\ phase' = "returned"
  /\ UNCHANGED <<poolVars, countFails, localVars, requeues, onDisk, tries,
                 statusVars, progressVars>>

(* downloadGroup.Wait() returns; run reads the missed segments, this time  *)
(* without taking the lock of SegmentStatus, and returns.                  *)
Return ==
  /\ phase = "running"
  /\ \A w \in Worker : pc[w] = "ended"
  /\ lost' = missed
  /\ phase' = "returned"
  /\ UNCHANGED <<poolVars, countFails, localVars, requeues, onDisk, tries,
                 statusVars, progressVars>>

----------------------------------------------------------------------------
(* downloadTask: one iteration of its loop per step, but for the calls on  *)
(* Progress, which come after the lock of the queue or status is released. *)

(* NextSegment returns a segment.  The time it may wait for the requeue    *)
(* delay is part of this step.                                             *)
NextSegment(w) ==
  /\ pc[w] = "next"
  /\ \E s \in Segment :
       /\ Take(w, s)
       /\ seg' = [seg EXCEPT ![w] = s]
  /\ pc' = [pc EXCEPT ![w] = "try"]
  /\ UNCHANGED <<runVars, failCount, networkFailCount, requeues, onDisk, tries,
                 statusVars, progressVars>>

(* NextSegment returns ok = false: the thread ends.                        *)
NoMoreSegments(w) ==
  /\ pc[w] = "next"
  /\ Leave(w)
  /\ pc' = [pc EXCEPT ![w] = "ended"]
  /\ UNCHANGED <<runVars, seg, failCount, networkFailCount, requeues, onDisk,
                 tries, statusVars, progressVars>>

(* A mutant: the count is kept when the client is replaced. *)
ReplaceClient_KeepsCount(w) ==
  /\ pc[w] = "try"
  /\ networkFailCount[w] > NetFailLimit
  /\ UNCHANGED vars

(* Too many network failures since the last replacement, whatever the      *)
(* segments: the thread replaces its http client and starts over.          *)
ReplaceClient(w) ==
  /\ pc[w] = "try"
  /\ networkFailCount[w] > NetFailLimit
  /\ networkFailCount' = [networkFailCount EXCEPT ![w] = 0]
  /\ UNCHANGED <<poolVars, runVars, pc, seg, failCount, requeues, onDisk, tries,
                 statusVars, progressVars>>

Exhausted(w) ==
  /\ pc[w] = "try"
  /\ networkFailCount[w] <= NetFailLimit
  /\ failCount[w] >= Fails(seg[w])

(* queue.RequeueFailed(seg, requeues + 1).                                 *)
RequeueSegment(w) ==
  /\ Exhausted(w)
  /\ MayRequeue(seg[w])
  /\ Requeue(w)
  /\ requeues' = [requeues EXCEPT ![seg[w]] = @ + 1]
  /\ pc' = [pc EXCEPT ![w] = "requeued"]
  /\ UNCHANGED <<runVars, seg, failCount, networkFailCount, onDisk, tries,
                 statusVars, progressVars>>

(* A mutant: Ok is not looked at. *)
Downloaded_AlwaysMissed(number, result) ==
  /\ results' = [results EXCEPT ![number] = result]
  /\ missed' = Append(missed, number)
  /\ UNCHANGED mergedCount

(* SegmentStatus.Downloaded(number, result).                               *)
Downloaded(number, result) ==
  /\ results' = [results EXCEPT ![number] = result]
  /\ missed' = IF result = "lost" THEN Append(missed, number) ELSE missed
  /\ UNCHANGED mergedCount

(* status.Downloaded(seg, { Ok: false }).                                  *)
GiveUp(w) ==
  /\ Exhausted(w)
  /\ ~MayRequeue(seg[w])
  /\ Finish(w)
  /\ Downloaded(seg[w], "lost")
  /\ pc' = [pc EXCEPT ![w] = "lost"]
  /\ UNCHANGED <<runVars, seg, failCount, networkFailCount, requeues, onDisk,
                 tries, progressVars>>

Attempting(w) ==
  /\ pc[w] = "try"
  /\ networkFailCount[w] <= NetFailLimit
  /\ failCount[w] < Fails(seg[w])

(* downloadSegment returns ok: the .done file is there, because the        *)
(* segment was just downloaded or from an earlier run.  Whether it was     *)
(* cached does not matter to SegmentStatus; Progress is told afterwards.   *)
DownloadOk(w) ==
  /\ Attempting(w)
  /\ Finish(w)
  /\ Downloaded(seg[w], "ok")
  /\ onDisk' = onDisk \cup {seg[w]}
  /\ pc' = [pc EXCEPT ![w] = IF seg[w] \in onDisk THEN "cached" ELSE "done"]
  /\ UNCHANGED <<runVars, seg, failCount, networkFailCount, requeues, tries,
                 progressVars>>

(* downloadSegment fails: all the requests did (a network failure), or the *)
(* status was not 200 or the file could not be written.                    *)
DownloadFails(w) ==
  /\ Attempting(w)
  /\ seg[w] \notin onDisk
  /\ failCount' = [failCount EXCEPT ![w] = @ + 1]
  /\ \E network \in {0, 1} :
       networkFailCount' = [networkFailCount EXCEPT ![w] = @ + network]
  /\ tries' = [tries EXCEPT ![seg[w]] = @ + 1]
  /\ UNCHANGED <<poolVars, runVars, pc, seg, requeues, onDisk, statusVars,
                 progressVars>>

(* A mutant: the next segment inherits the failures. *)
ForgetSegment_KeepsFailCount(w) ==
  /\ seg' = [seg EXCEPT ![w] = NoSegment]
  /\ pc' = [pc EXCEPT ![w] = "next"]
  /\ UNCHANGED <<failCount, networkFailCount>>

(* seg = -1; failCount = 0                                                 *)
ForgetSegment(w) ==
  /\ seg' = [seg EXCEPT ![w] = NoSegment]
  /\ failCount' = [failCount EXCEPT ![w] = 0]
  /\ pc' = [pc EXCEPT ![w] = "next"]
  /\ UNCHANGED networkFailCount

(* Progress.requeued(seg).                                                 *)
ShowRequeued(w) ==
  /\ pc[w] = "requeued"
  /\ requeuedShown' = requeuedShown \cup {seg[w]}
  /\ ForgetSegment(w)
  /\ UNCHANGED <<poolVars, runVars, requeues, onDisk, tries, statusVars,
                 cached, downloaded, failed>>

(* Progress.lost().                                                        *)
ShowLost(w) ==
  /\ pc[w] = "lost"
  /\ failed' = failed + 1
  /\ ForgetSegment(w)
  /\ UNCHANGED <<poolVars, runVars, requeues, onDisk, tries, statusVars,
                 cached, downloaded, requeuedShown>>

(* A mutant: a cached segment counts as downloaded as well. *)
ShowDone_CountsTwice(w) ==
  /\ pc[w] \in {"cached", "done"}
  /\ cached' = IF pc[w] = "cached" THEN cached + 1 ELSE cached
  /\ downloaded' = downloaded + 1
  /\ requeuedShown' = requeuedShown \ {seg[w]}
  /\ ForgetSegment(w)
  /\ UNCHANGED <<poolVars, runVars, requeues, onDisk, tries, statusVars, failed>>

(* A mutant: a download clears all the requeued segments. *)
ShowDone_ClearsAll(w) ==
  /\ pc[w] \in {"cached", "done"}
  /\ cached' = IF pc[w] = "cached" THEN cached + 1 ELSE cached
  /\ downloaded' = IF pc[w] = "done" THEN downloaded + 1 ELSE downloaded
  /\ requeuedShown' = {}
  /\ ForgetSegment(w)
  /\ UNCHANGED <<poolVars, runVars, requeues, onDisk, tries, statusVars, failed>>

(* Progress.done(seg, cached).                                             *)
ShowDone(w) ==
  /\ pc[w] \in {"cached", "done"}
  /\ cached' = IF pc[w] = "cached" THEN cached + 1 ELSE cached
  /\ downloaded' = IF pc[w] = "done" THEN downloaded + 1 ELSE downloaded
  /\ requeuedShown' = requeuedShown \ {seg[w]}
  /\ ForgetSegment(w)
  /\ UNCHANGED <<poolVars, runVars, requeues, onDisk, tries, statusVars, failed>>

----------------------------------------------------------------------------
(* The merger *)

(* A mutant: the merger does not wait for the segment. *)
NextToMerge_Anything ==
  /\ mergedCount \in Segment
  /\ results' = [results EXCEPT ![mergedCount] = "none"]
  /\ mergedCount' = mergedCount + 1
  /\ UNCHANGED <<poolVars, runVars, localVars, requeues, onDisk, tries, missed,
                 progressVars>>

(* SegmentStatus.NextToMerge finding a result: it leaves the map, and the  *)
(* merge position moves on.                                                *)
NextToMerge ==
  /\ mergedCount \in Segment
  /\ results[mergedCount] # "none"
  /\ results' = [results EXCEPT ![mergedCount] = "none"]
  /\ mergedCount' = mergedCount + 1
  /\ UNCHANGED <<poolVars, runVars, localVars, requeues, onDisk, tries, missed,
                 progressVars>>

(* SegmentStatus.Done().                                                   *)
Done == mergedCount = Segments

----------------------------------------------------------------------------

Stopped == phase = "failed" \/ (phase = "returned" /\ Done)

(* Nothing runs any more. *)
Terminated == Stopped /\ UNCHANGED vars

WorkerStep(w) ==
  \/ NextSegment(w)
  \/ NoMoreSegments(w)
  \/ ReplaceClient(w)
  \/ RequeueSegment(w)
  \/ GiveUp(w)
  \/ DownloadOk(w)
  \/ DownloadFails(w)
  \/ ShowRequeued(w)
  \/ ShowLost(w)
  \/ ShowDone(w)

Next ==
  \/ CountSegmentsFails
  \/ StartThreads
  \/ Return
  \/ \E w \in Worker : WorkerStep(w)
  \/ NextToMerge
  \/ Terminated

Spec == Init /\ [][Next]_vars

(* Every goroutine keeps running, and the merger keeps polling.  Of the    *)
(* server only that an attempt ends: each one may fail.                    *)
Fairness ==
  /\ WF_vars(CountSegmentsFails \/ StartThreads \/ Return)
  /\ \A w \in Worker : WF_vars(WorkerStep(w))
  /\ WF_vars(NextToMerge)

FairSpec == Spec /\ Fairness

----------------------------------------------------------------------------

(* The merge position follows the downloads: everything before it was      *)
(* reported, and SegmentStatus keeps a result for exactly the reported     *)
(* segments from there on.  A result reported twice would be left behind   *)
(* in the map or be merged twice; one overwritten would change its kind.   *)
MergeWindow ==
  \A s \in Segment :
    /\ s < mergedCount => s \in finished
    /\ results[s] # "none" <=> s \in finished /\ s >= mergedCount
    /\ results[s] = "lost" => s \in Missed
    /\ results[s] = "ok" => s \in onDisk

(* A segment is listed as missed at most once, and exactly if it was given *)
(* up; whatever is not listed when a thread is done with it has its file,  *)
(* so that running the program again downloads the missed segments and     *)
(* nothing else.                                                           *)
MissedExactly ==
  /\ \A i, j \in 1 .. Len(missed) : missed[i] = missed[j] => i = j
  /\ \A s \in finished : s \in Missed <=> s \notin onDisk
  /\ Missed \subseteq finished

(* A segment is given up only after FailThreshold attempts (the last one   *)
(* after Fails of them) in every round: the first, and one more for each   *)
(* time it may be requeued.  An attempt count carried over from another    *)
(* segment, or a requeue count lost between two threads, would show here.  *)
LostAfterAllTries ==
  \A s \in Missed :
    LET rounds == IF IsLast(s) /\ ~RequeueLast THEN 1 ELSE RequeueFailed + 1
    IN tries[s] = Fails(s) * rounds

(* The threads whose next step is one of the given ones. *)
At(places) == {w \in Worker : pc[w] \in places}

(* The counters of the progress bar lag behind SegmentStatus by the        *)
(* threads that have reported a segment there and not here yet, and by no  *)
(* others: they add up to the number of segments when the threads end.     *)
ProgressAdds ==
  /\ cached + downloaded + failed + Cardinality(At({"lost", "cached", "done"}))
       = Cardinality(finished)
  /\ failed + Cardinality(At({"lost"})) = Len(missed)

(* A segment that was requeued is shown as such until it is downloaded,    *)
(* however often threads that have it again overtake the one that is about *)
(* to tell the progress bar: only that thread may be missing.  (The other  *)
(* way round it is not so: if a segment is downloaded before the bar hears *)
(* of the requeue, the bar counts it as requeued for good.)                *)
RequeuedShown ==
  \A s \in Segment \ finished :
    requeues[s] > 0 => s \in requeuedShown \/ \E w \in At({"requeued"}) : seg[w] = s

(* When run returns, every segment has its file or is one of the lost      *)
(* segments it reports: none was left in the queue, in the hands of a      *)
(* thread, or unreported by a thread that ended.                           *)
NothingForgotten ==
  phase = "returned" =>
    \A s \in Segment : s \in onDisk \/ \E i \in 1 .. Len(lost) : lost[i] = s

(* The list of lost segments that run returns, read without the lock, is   *)
(* the final one: it contains every lost segment and no thread adds to it  *)
(* any more.                                                               *)
LostIsFinal == [][phase = "returned" => lost = missed /\ missed' = missed]_vars

(* A result is never taken back or replaced; it leaves SegmentStatus only  *)
(* when the merger is at it.                                               *)
ResultsStay ==
  [][\A s \in Segment :
       results[s] # "none" =>
         \/ results'[s] = results[s]
         \/ s = mergedCount /\ mergedCount' = s + 1]_vars

(* The task as its merger sees it.  The outcome of a segment is read off    *)
(* the missed ones, because SegmentStatus forgets it when it is merged.    *)
OutcomeOf(s) ==
  IF s \notin finished THEN "none" ELSE IF s \in Missed THEN "lost" ELSE "ok"

FeedView ==
  [phase |-> IF phase = "returned" THEN "ended" ELSE phase,
   outcome |-> [s \in Segment |-> OutcomeOf(s)],
   merged |-> mergedCount]

Feed == INSTANCE StreamFeed WITH feed <- FeedView

(* Whatever the threads, the queue and the retries do, the merger sees     *)
(* every segment reported once, gets them in order, as what they were      *)
(* reported, and run returns when all of them were reported.               *)
ImplementsFeed == Feed!FeedSpec

(* Unless the number of segments cannot be learned, the download ends, and *)
(* the merger gets to the end as well, although a lost segment stops       *)
(* neither of them.                                                        *)
TaskEnds == <>[]Stopped
=============================================================================
