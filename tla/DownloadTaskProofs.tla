-------------------------- MODULE DownloadTaskProofs --------------------------
(* The download task keeps its promises for any number of segments and      *)
(* threads, any thresholds, and any schedule of its threads.                *)
EXTENDS DownloadTask, SchedulerLemmas, FiniteSetTheorems, TLAPS

----------------------------------------------------------------------------
(* The pool that the task takes its segments from: it keeps its promises    *)
(* for any segments and any workers.                                        *)

(* The pool has run dry when nobody is left: what makes NothingLeftBehind   *)
(* inductive, together with the place of every segment.                     *)
DryAtTheEnd == live = {} => queued = {}

PoolInv ==
  /\ PoolTypeOK
  /\ OnePlace
  /\ LeftEmptyHanded
  /\ DryAtTheEnd

(* The pool starts with every segment queued and every worker present.      *)
LEMMA PoolInitInv == PoolInit => PoolInv
<1> SUFFICES ASSUME PoolInit PROVE PoolInv
  OBVIOUS
<1> QED
  BY NoSegmentAssumption, WorkerAssumption
  DEF PoolInit, PoolInv, PoolTypeOK, OnePlace, LeftEmptyHanded, DryAtTheEnd

(* No operation of the queue breaks the invariant.                          *)
LEMMA PoolStepInv == PoolInv /\ [PoolNext]_poolVars => PoolInv'
<1> SUFFICES ASSUME PoolInv, [PoolNext]_poolVars
             PROVE  PoolInv'
  OBVIOUS
<1> USE NoSegmentAssumption, WorkerAssumption
    DEF PoolInv, PoolTypeOK, OnePlace, LeftEmptyHanded, DryAtTheEnd
<1>1. ASSUME NEW w \in Worker, NEW s \in Segment, Take(w, s)
      PROVE  PoolInv'
  <2>1. PoolTypeOK'
    BY <1>1 DEF Take
  <2>2. OnePlace'
    BY <1>1 DEF Take
  <2>3. LeftEmptyHanded' /\ DryAtTheEnd'
    BY <1>1 DEF Take
  <2> QED
    BY <2>1, <2>2, <2>3
<1>2. ASSUME NEW w \in Worker, Leave(w)
      PROVE  PoolInv'
  <2>1. PoolTypeOK' /\ OnePlace'
    BY <1>2 DEF Leave
  <2>2. LeftEmptyHanded' /\ DryAtTheEnd'
    BY <1>2 DEF Leave
  <2> QED
    BY <2>1, <2>2
<1>3. ASSUME NEW w \in Worker, Requeue(w)
      PROVE  PoolInv'
  <2>1. w \in live /\ hold[w] \in Segment
    BY <1>3 DEF Requeue
  <2>2. PoolTypeOK' /\ LeftEmptyHanded' /\ DryAtTheEnd'
    BY <1>3, <2>1 DEF Requeue
  <2>3. OnePlace'
    BY <1>3, <2>1 DEF Requeue
  <2> QED
    BY <2>2, <2>3
<1>4. ASSUME NEW w \in Worker, Finish(w)
      PROVE  PoolInv'
  <2>1. w \in live /\ hold[w] \in Segment
    BY <1>4 DEF Finish
  <2>2. PoolTypeOK' /\ LeftEmptyHanded' /\ DryAtTheEnd'
    BY <1>4, <2>1 DEF Finish
  <2>3. OnePlace'
    BY <1>4, <2>1 DEF Finish
  <2> QED
    BY <2>2, <2>3
<1>5. CASE UNCHANGED poolVars
  BY <1>5 DEF poolVars
<1> QED
  BY <1>1, <1>2, <1>3, <1>4, <1>5 DEF PoolNext

(* The invariant of the pool.                                              *)
THEOREM PoolInvariant == PoolSpec => []PoolInv
  BY PoolInitInv, PoolStepInv, PTL DEF PoolSpec

(* Type correctness of the pool.                                            *)
THEOREM PoolTypeCorrect == PoolSpec => []PoolTypeOK
<1>1. PoolInv => PoolTypeOK
  BY DEF PoolInv
<1> QED
  BY <1>1, PoolInvariant, PTL

(* No segment is ever handed to two workers, handed out again once it was   *)
(* reported, or dropped.                                                    *)
THEOREM PoolOnePlace == PoolSpec => []OnePlace
<1>1. PoolInv => OnePlace
  BY DEF PoolInv
<1> QED
  BY <1>1, PoolInvariant, PTL

(* When the last worker has been told that there is no more work, every     *)
(* segment was reported.                                                    *)
LEMMA NothingBehind == PoolInv => NothingLeftBehind
<1> SUFFICES ASSUME PoolInv, live = {}
             PROVE  finished = Segment
  BY DEF NothingLeftBehind
<1>1. queued = {} /\ finished \subseteq Segment
  BY DEF PoolInv, DryAtTheEnd, PoolTypeOK
<1>2. \A w \in Worker : hold[w] = NoSegment
  BY DEF PoolInv, LeftEmptyHanded
<1>3. \A s \in Segment : s \in finished
  BY <1>1, <1>2, NoSegmentAssumption DEF PoolInv, OnePlace
<1> QED
  BY <1>1, <1>3

(* Once every worker was told that there is no more work, every segment    *)
(* was reported.                                                           *)
THEOREM PoolNothingLeftBehind == PoolSpec => []NothingLeftBehind
  BY NothingBehind, PoolInvariant, PTL

----------------------------------------------------------------------------
(* The task                                                                 *)

(* What the local variables of a thread say about the shared state.         *)
Control ==
  /\ phase = "counting" => countFails < CountAttempts
  /\ phase \in {"counting", "failed"} => \A w \in Worker : pc[w] = "new"
  /\ phase = "returned" => lost = missed /\ \A w \in Worker : pc[w] = "ended"
  /\ \A w \in Worker :
       /\ IF pc[w] = "try" THEN hold[w] = seg[w] ELSE hold[w] = NoSegment
       /\ pc[w] \in {"try", "requeued", "lost", "cached", "done"} => seg[w] \in Segment
       /\ pc[w] \in {"new", "next", "ended"} => failCount[w] = 0
       /\ pc[w] = "ended" <=> w \notin live
       /\ pc[w] = "try" /\ failCount[w] > 0 => seg[w] \notin onDisk

(* Where the failed attempts of a segment are accounted for: full rounds    *)
(* in its requeue count, the round under way with the thread that holds it. *)
TriesCounted ==
  /\ \A s \in Segment :
       /\ IsLast(s) /\ ~RequeueLast => requeues[s] = 0
       /\ s \in queued => tries[s] = requeues[s] * Fails(s)
       /\ s \in Missed => tries[s] = (requeues[s] + 1) * Fails(s) /\ ~MayRequeue(s)
  /\ \A w \in Worker :
       pc[w] = "try" =>
         tries[seg[w]] = requeues[seg[w]] * Fails(seg[w]) + failCount[w]

Inv ==
  /\ PoolInv
  /\ TypeOK
  /\ Control
  /\ MergeWindow
  /\ MissedExactly
  /\ TriesCounted

----------------------------------------------------------------------------

(* Every segment has at least one attempt per round.                       *)
LEMMA FailsType == \A s \in Segment : Fails(s) \in Nat \ {0}
  BY ThresholdAssumption DEF Fails, LastMinimum, IsLast

(* The attempts of one more round.                                         *)
LEMMA OneMoreRound == \A r, f \in Nat : (r + 1) * f = r * f + f /\ 0 * f = 0
  OBVIOUS

(* Reporting a lost segment adds it to the missed ones.                     *)
LEMMA MissedGrows ==
  ASSUME Inv, NEW s \in Segment, s \notin finished, missed' = Append(missed, s)
  PROVE  /\ missed' \in Seq(Segment)
         /\ Missed' = Missed \cup {s}
         /\ \A i, j \in 1 .. Len(missed') : missed'[i] = missed'[j] => i = j
<1>1. missed \in Seq(Segment) /\ s \notin {missed[i] : i \in 1 .. Len(missed)}
  BY DEF Inv, TypeOK, MissedExactly, Missed
<1>2. \A i, j \in 1 .. Len(missed) : missed[i] = missed[j] => i = j
  BY DEF Inv, MissedExactly
<1>3. /\ Append(missed, s) \in Seq(Segment)
      /\ {Append(missed, s)[i] : i \in 1 .. Len(Append(missed, s))} =
           {missed[i] : i \in 1 .. Len(missed)} \cup {s}
      /\ \A i, j \in 1 .. Len(Append(missed, s)) :
           Append(missed, s)[i] = Append(missed, s)[j] => i = j
  BY <1>1, <1>2, AppendToQueue
<1> QED
  BY <1>3 DEF Missed

(* A held segment is neither queued, nor finished, nor held by another.     *)
LEMMA HeldSegment ==
  ASSUME Inv, NEW w \in Worker, pc[w] = "try"
  PROVE  /\ seg[w] \in Segment /\ hold[w] = seg[w]
         /\ seg[w] \notin queued /\ seg[w] \notin finished
         /\ seg[w] \notin Missed
         /\ \A v \in Worker : pc[v] = "try" /\ seg[v] = seg[w] => v = w
<1>1. seg[w] \in Segment /\ hold[w] = seg[w] /\ hold[w] # NoSegment
  BY NoSegmentAssumption DEF Inv, Control
<1>2. \A v \in Worker : pc[v] = "try" => hold[v] = seg[v]
  BY DEF Inv, Control
<1> QED
  BY <1>1, <1>2 DEF Inv, PoolInv, OnePlace, MissedExactly

(* Every step of the task is a step of the pool or leaves the pool alone.   *)
LEMMA PoolSteps ==
  ASSUME [Next]_vars PROVE [PoolNext]_poolVars
<1>1. CASE UNCHANGED vars
  BY <1>1 DEF vars
<1>2. CASE CountSegmentsFails \/ StartThreads \/ Return \/ NextToMerge \/ Terminated
  BY <1>2 DEF CountSegmentsFails, StartThreads, Return, NextToMerge, Terminated, vars
<1>3. ASSUME NEW w \in Worker, WorkerStep(w)
      PROVE  [PoolNext]_poolVars
  <2>1. CASE NextSegment(w)
    BY <2>1 DEF NextSegment, PoolNext
  <2>2. CASE NoMoreSegments(w)
    BY <2>2 DEF NoMoreSegments, PoolNext
  <2>3. CASE RequeueSegment(w)
    BY <2>3 DEF RequeueSegment, PoolNext
  <2>4. CASE GiveUp(w) \/ DownloadOk(w)
    BY <2>4 DEF GiveUp, DownloadOk, PoolNext
  <2>5. CASE ReplaceClient(w) \/ DownloadFails(w)
    BY <2>5 DEF ReplaceClient, DownloadFails
  <2>6. CASE ShowRequeued(w) \/ ShowLost(w) \/ ShowDone(w)
    BY <2>6 DEF ShowRequeued, ShowLost, ShowDone
  <2> QED
    BY <1>3, <2>1, <2>2, <2>3, <2>4, <2>5, <2>6 DEF WorkerStep
<1> QED
  BY <1>1, <1>2, <1>3 DEF Next

(* The task keeps the invariant of the pool.                               *)
LEMMA PoolInvStep ==
  ASSUME Inv, [Next]_vars PROVE PoolInv'
<1>1. PoolInv /\ [PoolNext]_poolVars
  BY PoolSteps DEF Inv
<1> QED
  BY <1>1, PoolStepInv

(* The initial states satisfy the invariant.                               *)
LEMMA InitInv == Init => Inv
<1> SUFFICES ASSUME Init PROVE Inv
  OBVIOUS
<1>1. PoolInv
  BY PoolInitInv DEF Init
<1>2. TypeOK
  BY <1>1, FailsType, SegmentsAssumption, RequeueAssumption
  DEF Init, TypeOK, PoolInv, CountAttempts, NetFailLimit
<1>3. Control
  BY NoSegmentAssumption DEF Init, PoolInit, Control, CountAttempts
<1>4. Missed = {}
  BY DEF Init, Missed
<1>5. MergeWindow
  BY SegmentsAssumption DEF Init, PoolInit, MergeWindow
<1>6. MissedExactly
  BY <1>4 DEF Init, PoolInit, MissedExactly
<1>7. TriesCounted
  BY <1>4, FailsType, OneMoreRound DEF Init, TriesCounted
<1> QED
  BY <1>1, <1>2, <1>3, <1>5, <1>6, <1>7 DEF Inv

----------------------------------------------------------------------------
(* The steps of run and of the merger *)

(* The steps of run: learning the number of segments, starting,            *)
(* returning.                                                              *)
LEMMA RunStep ==
  ASSUME Inv, PoolInv', CountSegmentsFails \/ StartThreads \/ Return
  PROVE  Inv'
<1>1. TypeOK'
  <2> USE DEF Inv, PoolInv, TypeOK, CountAttempts
  <2>1. CASE CountSegmentsFails
    <3>1. countFails < CountAttempts
      BY <2>1 DEF Control, CountSegmentsFails
    <3> QED
      BY <2>1, <3>1 DEF CountSegmentsFails, localVars, statusVars, progressVars
  <2>2. CASE StartThreads \/ Return
    BY <2>2 DEF StartThreads, Return, statusVars, progressVars, localVars
  <2> QED
    BY <2>1, <2>2
<1>2. Control'
  BY DEF Inv, TypeOK, Control, CountAttempts, CountSegmentsFails, StartThreads, Return,
         poolVars, localVars, statusVars
<1>3. Missed' = Missed
  BY DEF CountSegmentsFails, StartThreads, Return, statusVars, Missed
<1>4. MergeWindow' /\ MissedExactly'
  BY <1>3 DEF Inv, MergeWindow, MissedExactly, CountSegmentsFails, StartThreads,
              Return, poolVars, statusVars
<1>5. TriesCounted'
  BY <1>3 DEF Inv, Control, TriesCounted, MayRequeue, CountSegmentsFails,
              StartThreads, Return, poolVars, localVars
<1> QED
  BY <1>1, <1>2, <1>4, <1>5 DEF Inv

(* NextToMerge finding a result.                                           *)
LEMMA MergeStep == ASSUME Inv, PoolInv', NextToMerge PROVE Inv'
<1> USE DEF NextToMerge
<1>1. Missed' = Missed
  BY DEF Missed
<1>2. TypeOK'
  <2>1. mergedCount' \in 0 .. Segments
    BY SegmentsAssumption
  <2>2. results' \in [Segment -> {"none", "ok", "lost"}]
    BY DEF Inv, TypeOK
  <2> QED
    BY <2>1, <2>2 DEF Inv, PoolInv, TypeOK, runVars, localVars, progressVars
<1>3. Control'
  BY DEF Inv, Control, runVars, localVars, poolVars
<1>4. MergeWindow'
  BY <1>1, SegmentsAssumption DEF Inv, TypeOK, MergeWindow, poolVars
<1>5. MissedExactly'
  BY <1>1 DEF Inv, MissedExactly, poolVars
<1>6. TriesCounted'
  BY <1>1 DEF Inv, TriesCounted, MayRequeue, poolVars, localVars
<1> QED
  BY <1>2, <1>3, <1>4, <1>5, <1>6 DEF Inv

----------------------------------------------------------------------------
(* The steps of a download thread *)

(* NextSegment, with or without a segment.                                 *)
LEMMA QueueStep ==
  ASSUME Inv, PoolInv', NEW w \in Worker, NextSegment(w) \/ NoMoreSegments(w)
  PROVE  Inv'
<1> USE DEF NextSegment, NoMoreSegments
<1>1. Missed' = Missed
  BY DEF Missed, statusVars
<1>2. pc[w] = "next" /\ failCount[w] = 0 /\ failCount' = failCount
  BY DEF Inv, Control
<1>3. TypeOK'
  <2>1. CASE NextSegment(w)
    BY <1>2, <2>1, FailsType
    DEF Inv, PoolInv, TypeOK, runVars, statusVars, progressVars
  <2>2. CASE NoMoreSegments(w)
    BY <1>2, <2>2 DEF Inv, PoolInv, TypeOK, runVars, statusVars, progressVars
  <2> QED
    BY <2>1, <2>2
<1>4. Control'
  <2>1. CASE NextSegment(w)
    BY <1>2, <2>1 DEF Inv, TypeOK, PoolInv, PoolTypeOK, Control, Take, runVars, statusVars
  <2>2. CASE NoMoreSegments(w)
    BY <1>2, <2>2 DEF Inv, TypeOK, PoolInv, PoolTypeOK, Control, Leave, runVars, statusVars
  <2> QED
    BY <2>1, <2>2
<1>5. MergeWindow' /\ MissedExactly'
  BY <1>1 DEF Inv, MergeWindow, MissedExactly, Take, Leave, statusVars
<1>6. TriesCounted'
  <2>1. CASE NextSegment(w)
    <3>1. PICK s \in Segment : Take(w, s) /\ seg' = [seg EXCEPT ![w] = s]
      BY <2>1
    <3>2. tries[s] = requeues[s] * Fails(s) /\ tries[s] \in Nat
      BY <3>1 DEF Inv, TriesCounted, Take, TypeOK
    <3> QED
      BY <1>1, <1>2, <2>1, <3>1, <3>2
      DEF Inv, TypeOK, TriesCounted, MayRequeue, Take
  <2>2. CASE NoMoreSegments(w)
    BY <1>1, <2>2 DEF Inv, TypeOK, TriesCounted, MayRequeue, Leave
  <2> QED
    BY <2>1, <2>2
<1> QED
  BY <1>3, <1>4, <1>5, <1>6 DEF Inv

(* Replacing the http client.                                              *)
LEMMA ClientStep ==
  ASSUME Inv, PoolInv', NEW w \in Worker, ReplaceClient(w)
  PROVE  Inv'
<1> USE DEF ReplaceClient
<1>1. Missed' = Missed
  BY DEF Missed, statusVars
<1>2. TypeOK'
  BY DEF Inv, PoolInv, TypeOK, NetFailLimit, runVars, statusVars, progressVars
<1>3. Control'
  BY DEF Inv, Control, runVars, statusVars, poolVars
<1>4. MergeWindow' /\ MissedExactly' /\ TriesCounted'
  BY <1>1 DEF Inv, MergeWindow, MissedExactly, TriesCounted, MayRequeue,
              statusVars, poolVars
<1> QED
  BY <1>2, <1>3, <1>4 DEF Inv

(* Requeueing a segment that failed too often.                             *)
LEMMA RequeueStep ==
  ASSUME Inv, PoolInv', NEW w \in Worker, RequeueSegment(w)
  PROVE  Inv'
<1> USE DEF RequeueSegment, Exhausted
<1>1. /\ pc[w] = "try" /\ seg[w] \in Segment /\ hold[w] = seg[w]
      /\ \A v \in Worker : pc[v] = "try" /\ seg[v] = seg[w] => v = w
      /\ seg[w] \notin Missed
  BY HeldSegment
<1>2. Missed' = Missed
  BY DEF Missed, statusVars
<1>3. failCount[w] = Fails(seg[w]) /\ Fails(seg[w]) \in Nat \ {0}
  BY <1>1, FailsType DEF Inv, TypeOK
<1>4. requeues[seg[w]] \in Nat /\ requeues[seg[w]] < RequeueFailed
  BY <1>1 DEF Inv, TypeOK, MayRequeue
<1>5. TypeOK'
  <2>1. requeues[seg[w]] + 1 \in 0 .. RequeueFailed
    BY <1>4, RequeueAssumption
  <2>2. requeues' \in [Segment -> 0 .. RequeueFailed]
    BY <2>1 DEF Inv, TypeOK
  <2>3. pc' \in [Worker -> {"new", "next", "try", "requeued", "lost", "cached",
                           "done", "ended"}]
    BY DEF Inv, TypeOK
  <2> QED
    BY <1>1, <2>2, <2>3 DEF Inv, PoolInv, TypeOK, runVars, statusVars, progressVars
<1>6. Control'
  BY <1>1 DEF Inv, TypeOK, PoolInv, PoolTypeOK, Control, Requeue, runVars, statusVars
<1>7. MergeWindow' /\ MissedExactly'
  BY <1>2 DEF Inv, MergeWindow, MissedExactly, Requeue, statusVars
<1>8. TriesCounted'
  <2>1. tries'[seg[w]] = requeues'[seg[w]] * Fails(seg[w])
    BY <1>1, <1>3, <1>4, OneMoreRound DEF Inv, TypeOK, TriesCounted
  <2>2. \A s \in Segment : s # seg[w] => requeues'[s] = requeues[s]
    BY DEF Inv, TypeOK
  <2>3. ~(IsLast(seg[w]) /\ ~RequeueLast)
    BY DEF MayRequeue
  <2>4. queued' = queued \cup {seg[w]}
    BY <1>1 DEF Requeue
  <2>5. \A v \in Worker : pc'[v] = "try" =>
          v # w /\ pc[v] = "try" /\ seg[v] \in Segment /\ seg[v] # seg[w]
    BY <1>1 DEF Inv, TypeOK, Control
  <2>6. \A s \in Segment :
          /\ IsLast(s) /\ ~RequeueLast => requeues'[s] = 0
          /\ s \in queued' => tries'[s] = requeues'[s] * Fails(s)
    BY <2>1, <2>2, <2>3, <2>4 DEF Inv, TriesCounted
  <2>7. \A s \in Segment : s \in Missed' =>
          tries'[s] = (requeues'[s] + 1) * Fails(s) /\ ~MayRequeue(s)'
    BY <1>1, <1>2, <2>2 DEF Inv, TriesCounted, MayRequeue
  <2>8. \A v \in Worker : pc'[v] = "try" =>
          tries'[seg'[v]] = requeues'[seg'[v]] * Fails(seg'[v]) + failCount'[v]
    BY <2>2, <2>5 DEF Inv, TriesCounted
  <2> QED
    BY <2>6, <2>7, <2>8 DEF TriesCounted
<1> QED
  BY <1>5, <1>6, <1>7, <1>8 DEF Inv

(* What giving up and a successful download have in common.                 *)
LEMMA ReportStep ==
  ASSUME Inv, NEW w \in Worker, pc[w] = "try", Finish(w)
  PROVE  /\ finished' = finished \cup {seg[w]}
         /\ hold' = [hold EXCEPT ![w] = NoSegment]
         /\ seg[w] \in Segment /\ seg[w] \notin finished
         /\ results[seg[w]] = "none" /\ mergedCount <= seg[w]
<1>1. seg[w] \in Segment /\ hold[w] = seg[w] /\ seg[w] \notin finished
  BY HeldSegment
<1>2. seg[w] \in Int /\ mergedCount \in Int
  BY <1>1, SegmentsAssumption DEF Inv, TypeOK
<1> QED
  BY <1>1, <1>2 DEF Inv, MergeWindow, Finish

(* Giving a segment up.                                                    *)
LEMMA GiveUpStep ==
  ASSUME Inv, PoolInv', NEW w \in Worker, GiveUp(w)
  PROVE  Inv'
<1> USE DEF GiveUp, Exhausted, Downloaded
<1> DEFINE s == seg[w]
<1>1. /\ finished' = finished \cup {s}
      /\ hold' = [hold EXCEPT ![w] = NoSegment]
      /\ s \in Segment /\ s \notin finished
      /\ results[s] = "none" /\ mergedCount <= s
  BY ReportStep
<1>2. /\ missed' = Append(missed, s) /\ results' = [results EXCEPT ![s] = "lost"]
      /\ mergedCount' = mergedCount
  OBVIOUS
<1>3. /\ missed' \in Seq(Segment) /\ Missed' = Missed \cup {s}
      /\ \A i, j \in 1 .. Len(missed') : missed'[i] = missed'[j] => i = j
  BY <1>1, <1>2, MissedGrows
<1>4. failCount[w] = Fails(s) /\ Fails(s) \in Nat \ {0}
  BY <1>1, FailsType DEF Inv, TypeOK
<1>5. s \notin onDisk
  BY <1>4 DEF Inv, Control
<1>6. TypeOK'
  BY <1>1, <1>2, <1>3 DEF Inv, PoolInv, TypeOK, runVars, progressVars
<1>7. Control'
  BY <1>1 DEF Inv, TypeOK, PoolInv, PoolTypeOK, Control, Finish, runVars
<1>8. MergeWindow'
  BY <1>1, <1>2, <1>3 DEF Inv, TypeOK, MergeWindow
<1>9. MissedExactly'
  BY <1>1, <1>3, <1>5 DEF Inv, MissedExactly
<1>10. TriesCounted'
  <2>1. tries[s] = (requeues[s] + 1) * Fails(s) /\ ~MayRequeue(s)
    BY <1>1, <1>4, OneMoreRound DEF Inv, TypeOK, TriesCounted
  <2>2. queued' = queued /\ UNCHANGED <<seg, failCount, requeues, tries>>
    BY DEF Finish
  <2> QED
    BY <1>3, <2>1, <2>2 DEF Inv, TypeOK, TriesCounted, MayRequeue
<1> QED
  BY <1>6, <1>7, <1>8, <1>9, <1>10 DEF Inv

(* A download that succeeds.                                               *)
LEMMA DownloadOkStep ==
  ASSUME Inv, PoolInv', NEW w \in Worker, DownloadOk(w)
  PROVE  Inv'
<1> USE DEF DownloadOk, Attempting, Downloaded
<1> DEFINE s == seg[w]
<1>1. /\ finished' = finished \cup {s}
      /\ hold' = [hold EXCEPT ![w] = NoSegment]
      /\ s \in Segment /\ s \notin finished
      /\ results[s] = "none" /\ mergedCount <= s
  BY ReportStep
<1>2. /\ missed' = missed /\ results' = [results EXCEPT ![s] = "ok"]
      /\ mergedCount' = mergedCount
  OBVIOUS
<1>3. Missed' = Missed /\ s \notin Missed
  BY <1>1, <1>2 DEF Missed, Inv, MissedExactly
<1>4. TypeOK'
  BY <1>1, <1>2 DEF Inv, PoolInv, TypeOK, runVars, progressVars
<1>5. \A v \in Worker : pc[v] = "try" /\ seg[v] = s => v = w
  BY HeldSegment
<1>6. Control'
  BY <1>1, <1>5 DEF Inv, TypeOK, PoolInv, PoolTypeOK, Control, Finish, runVars
<1>7. MergeWindow'
  BY <1>1, <1>2, <1>3 DEF Inv, TypeOK, MergeWindow
<1>8. MissedExactly'
  BY <1>1, <1>2, <1>3 DEF Inv, MissedExactly
<1>9. TriesCounted'
  BY <1>3 DEF Inv, TypeOK, TriesCounted, MayRequeue, Finish
<1> QED
  BY <1>4, <1>6, <1>7, <1>8, <1>9 DEF Inv

(* A download that fails.                                                  *)
LEMMA DownloadFailsStep ==
  ASSUME Inv, PoolInv', NEW w \in Worker, DownloadFails(w)
  PROVE  Inv'
<1> USE DEF DownloadFails, Attempting
<1>1. /\ pc[w] = "try" /\ seg[w] \in Segment
      /\ seg[w] \notin queued /\ seg[w] \notin Missed
      /\ \A v \in Worker : pc[v] = "try" /\ seg[v] = seg[w] => v = w
  BY HeldSegment
<1>2. Missed' = Missed
  BY DEF Missed, statusVars
<1>3. TypeOK'
  <2>1. networkFailCount' \in [Worker -> 0 .. NetFailLimit + 1]
    <3>1. networkFailCount[w] \in 0 .. NetFailLimit
      BY DEF Inv, TypeOK, NetFailLimit
    <3>2. PICK network \in {0, 1} :
            networkFailCount' = [networkFailCount EXCEPT ![w] = networkFailCount[w] + network]
      OBVIOUS
    <3>3. networkFailCount[w] + network \in 0 .. NetFailLimit + 1
      BY <3>1 DEF NetFailLimit
    <3> QED
      BY <3>2, <3>3 DEF Inv, TypeOK
  <2>2. failCount' \in [Worker -> Nat] /\ tries' \in [Segment -> Nat]
    BY <1>1 DEF Inv, TypeOK
  <2>3. \A v \in Worker : seg'[v] \in Segment => failCount'[v] <= Fails(seg'[v])
    BY <1>1, FailsType DEF Inv, TypeOK
  <2> QED
    BY <2>1, <2>2, <2>3 DEF Inv, PoolInv, TypeOK, runVars, statusVars, progressVars
<1>4. Control'
  BY <1>1 DEF Inv, TypeOK, Control, runVars, poolVars, statusVars
<1>5. MergeWindow' /\ MissedExactly'
  BY <1>2 DEF Inv, MergeWindow, MissedExactly, poolVars, statusVars
<1>6. TriesCounted'
  <2>1. /\ tries' = [tries EXCEPT ![seg[w]] = tries[seg[w]] + 1]
        /\ failCount' = [failCount EXCEPT ![w] = failCount[w] + 1]
    OBVIOUS
  <2>2. \A s \in Segment : s # seg[w] => tries'[s] = tries[s]
    BY <2>1 DEF Inv, TypeOK
  <2>3. \A s \in Segment :
          /\ IsLast(s) /\ ~RequeueLast => requeues'[s] = 0
          /\ s \in queued' => tries'[s] = requeues'[s] * Fails(s)
          /\ s \in Missed' => tries'[s] = (requeues'[s] + 1) * Fails(s)
                              /\ ~MayRequeue(s)'
    BY <1>1, <1>2, <2>2 DEF Inv, TriesCounted, MayRequeue, poolVars
  <2>4. tries[seg[w]] = requeues[seg[w]] * Fails(seg[w]) + failCount[w]
    BY <1>1 DEF Inv, TriesCounted
  <2>5. requeues[seg[w]] * Fails(seg[w]) \in Int
    BY <1>1, FailsType DEF Inv, TypeOK
  <2>6. tries'[seg[w]] = requeues[seg[w]] * Fails(seg[w]) + failCount'[w]
    BY <1>1, <2>1, <2>4, <2>5 DEF Inv, TypeOK
  <2>7. \A v \in Worker : pc[v] = "try" /\ v # w =>
          seg[v] \in Segment /\ tries'[seg[v]] = tries[seg[v]]
                             /\ failCount'[v] = failCount[v]
    BY <1>1, <2>1, <2>2 DEF Inv, TypeOK, Control
  <2> QED
    BY <2>3, <2>6, <2>7 DEF Inv, TriesCounted
<1> QED
  BY <1>3, <1>4, <1>5, <1>6 DEF Inv

(* Telling Progress.                                                       *)
LEMMA ShowStep ==
  ASSUME Inv, PoolInv', NEW w \in Worker, ShowRequeued(w) \/ ShowLost(w) \/ ShowDone(w)
  PROVE  Inv'
<1> USE DEF ShowRequeued, ShowLost, ShowDone, ForgetSegment
<1>1. Missed' = Missed
  BY DEF Missed, statusVars
<1>2. TypeOK'
  <2>1. /\ cached' \in Nat /\ downloaded' \in Nat /\ failed' \in Nat
        /\ requeuedShown' \subseteq Segment
    <3>1. seg[w] \in Segment
      BY DEF Inv, Control
    <3>2. /\ cached \in Nat /\ downloaded \in Nat /\ failed \in Nat
          /\ requeuedShown \subseteq Segment
      BY DEF Inv, TypeOK
    <3> QED
      BY <3>1, <3>2
  <2>2. /\ seg' \in [Worker -> Segment \cup {NoSegment}]
        /\ failCount' \in [Worker -> Nat]
        /\ pc' = [pc EXCEPT ![w] = "next"]
        /\ networkFailCount' = networkFailCount
    <3>1. /\ seg' = [seg EXCEPT ![w] = NoSegment]
          /\ failCount' = [failCount EXCEPT ![w] = 0]
          /\ pc' = [pc EXCEPT ![w] = "next"]
          /\ networkFailCount' = networkFailCount
      OBVIOUS
    <3> QED
      BY <3>1 DEF Inv, TypeOK
  <2>3. \A v \in Worker : seg'[v] \in Segment => failCount'[v] <= Fails(seg'[v])
    BY NoSegmentAssumption DEF Inv, TypeOK
  <2> QED
    BY <2>1, <2>2, <2>3 DEF Inv, PoolInv, TypeOK, runVars, statusVars
<1>3. Control'
  <2>1. /\ pc[w] \in {"requeued", "lost", "cached", "done"} /\ w \in Worker
        /\ seg' = [seg EXCEPT ![w] = NoSegment]
        /\ failCount' = [failCount EXCEPT ![w] = 0]
        /\ pc' = [pc EXCEPT ![w] = "next"]
        /\ UNCHANGED <<phase, countFails, lost, missed, hold, live, onDisk>>
    BY DEF runVars, poolVars, statusVars
  <2>2. /\ seg \in [Worker -> Segment \cup {NoSegment}]
        /\ failCount \in [Worker -> Nat]
        /\ \E T : pc \in [Worker -> T]
    BY DEF Inv, TypeOK
  <2>3. ASSUME NEW v \in Worker
        PROVE  IF v = w THEN seg'[v] = NoSegment /\ failCount'[v] = 0 /\ pc'[v] = "next"
               ELSE seg'[v] = seg[v] /\ failCount'[v] = failCount[v] /\ pc'[v] = pc[v]
    BY <2>1, <2>2
  <2>4. /\ hold[w] = NoSegment
        /\ w \in live
        /\ phase \notin {"counting", "failed", "returned"}
    BY <2>1 DEF Inv, Control
  <2>5. phase' = phase /\ countFails' = countFails /\ hold' = hold /\ live' = live /\ onDisk' = onDisk
    BY <2>1
  <2> QED
    BY <2>3, <2>4, <2>5 DEF Inv, Control
<1>4. MergeWindow' /\ MissedExactly'
  BY <1>1 DEF Inv, MergeWindow, MissedExactly, poolVars, statusVars
<1>5. TriesCounted'
  BY <1>1 DEF Inv, TypeOK, TriesCounted, MayRequeue, poolVars
<1> QED
  BY <1>2, <1>3, <1>4, <1>5 DEF Inv

(* A step that changes nothing.                                            *)
LEMMA StutterStep == ASSUME Inv, UNCHANGED vars PROVE Inv'
<1> USE DEF vars, poolVars, runVars, localVars, statusVars, progressVars
<1>1. Missed' = Missed
  BY DEF Missed
<1>2. PoolInv' /\ TypeOK'
  BY DEF Inv, PoolInv, PoolTypeOK, OnePlace, LeftEmptyHanded, DryAtTheEnd, TypeOK
<1>3. Control' /\ MergeWindow' /\ MissedExactly' /\ TriesCounted'
  BY <1>1 DEF Inv, Control, MergeWindow, MissedExactly, TriesCounted, MayRequeue
<1> QED
  BY <1>2, <1>3 DEF Inv

(* Every step of the task preserves the invariant.                         *)
LEMMA StepInv == Inv /\ [Next]_vars => Inv'
<1> SUFFICES ASSUME Inv, [Next]_vars PROVE Inv'
  OBVIOUS
<1>1. PoolInv'
  BY PoolInvStep
<1>2. CASE CountSegmentsFails \/ StartThreads \/ Return
  BY <1>1, <1>2, RunStep
<1>3. CASE NextToMerge
  BY <1>1, <1>3, MergeStep
<1>4. ASSUME NEW w \in Worker, WorkerStep(w)
      PROVE  Inv'
  BY <1>1, <1>4, QueueStep, ClientStep, RequeueStep, GiveUpStep, DownloadOkStep,
     DownloadFailsStep, ShowStep DEF WorkerStep
<1>5. CASE UNCHANGED vars
  BY <1>5, StutterStep
<1> QED
  BY <1>2, <1>3, <1>4, <1>5 DEF Next, Terminated

(* The inductive invariant of the task.                                     *)
THEOREM Invariant == Spec => []Inv
  BY InitInv, StepInv, PTL DEF Spec

(* Type correctness of the task: in particular a segment is never requeued  *)
(* more than RequeueFailed times, nor tried too often in a round.           *)
THEOREM TypeCorrect == Spec => []TypeOK
<1>1. Inv => TypeOK
  BY DEF Inv
<1> QED
  BY <1>1, Invariant, PTL

(* SegmentStatus holds exactly the reported results that the merger has not *)
(* got to.                                                                  *)
THEOREM MergesInOrder == Spec => []MergeWindow
<1>1. Inv => MergeWindow
  BY DEF Inv
<1> QED
  BY <1>1, Invariant, PTL

(* The missed segments are those that were given up and have no file.       *)
THEOREM MissedIsExact == Spec => []MissedExactly
<1>1. Inv => MissedExactly
  BY DEF Inv
<1> QED
  BY <1>1, Invariant, PTL

(* No segment is given up before it had all its attempts.                   *)
LEMMA AllTries == Inv => LostAfterAllTries
<1> SUFFICES ASSUME Inv, NEW s \in Missed
             PROVE  tries[s] = Fails(s) *
                      (IF IsLast(s) /\ ~RequeueLast THEN 1 ELSE RequeueFailed + 1)
  BY DEF LostAfterAllTries
<1>1. s \in Segment
  BY DEF Inv, MissedExactly, PoolInv, PoolTypeOK
<1>2. requeues[s] \in Nat /\ requeues[s] <= RequeueFailed /\ Fails(s) \in Nat
  BY <1>1, FailsType, RequeueAssumption DEF Inv, TypeOK
<1>3. tries[s] = (requeues[s] + 1) * Fails(s) /\ ~MayRequeue(s)
  BY <1>1 DEF Inv, TriesCounted
<1>4. CASE IsLast(s) /\ ~RequeueLast
  <2>1. requeues[s] = 0
    BY <1>1, <1>4 DEF Inv, TriesCounted
  <2> QED
    BY <1>2, <1>3, <1>4, <2>1
<1>5. CASE ~(IsLast(s) /\ ~RequeueLast)
  <2>1. requeues[s] = RequeueFailed
    BY <1>2, <1>3, <1>5, RequeueAssumption DEF MayRequeue
  <2> QED
    BY <1>2, <1>3, <1>5, <2>1
<1> QED
  BY <1>4, <1>5

(* No segment is given up before it had all its attempts in all its        *)
(* rounds.                                                                 *)
THEOREM TriedBeforeLost == Spec => []LostAfterAllTries
  BY AllTries, Invariant, PTL

(* When run returns, every segment has its file or is reported as lost.     *)
LEMMA AllAccounted == Inv => NothingForgotten
<1> SUFFICES ASSUME Inv, phase = "returned", NEW s \in Segment
             PROVE  s \in onDisk \/ \E i \in 1 .. Len(lost) : lost[i] = s
  BY DEF NothingForgotten
<1>1. lost = missed /\ live = {}
  BY DEF Inv, Control, PoolInv, PoolTypeOK
<1>2. s \in finished
  BY <1>1, NothingBehind DEF Inv, NothingLeftBehind
<1> QED
  BY <1>1, <1>2 DEF Inv, MissedExactly, Missed

(* When run has returned, every segment has its file or is among the lost  *)
(* ones.                                                                   *)
THEOREM NoneForgotten == Spec => []NothingForgotten
  BY AllAccounted, Invariant, PTL

----------------------------------------------------------------------------
(* The requeued segments of the progress bar *)

(* A thread tells Progress of a segment after SegmentStatus.                *)
ToldStatusFirst == \A w \in Worker : pc[w] \in {"cached", "done"} => seg[w] \in finished

ShownInv == ToldStatusFirst /\ RequeuedShown

(* What the steps that concern the bar do; the others leave it alone.      *)
LEMMA ShownStep ==
  ASSUME Inv, ShownInv, NEW w \in Worker, WorkerStep(w)
  PROVE  ShownInv'
<1> USE DEF ShownInv, ToldStatusFirst, RequeuedShown, At
<1>1. /\ \E T : pc \in [Worker -> T]
      /\ seg \in [Worker -> Segment \cup {NoSegment}]
      /\ \E T : requeues \in [Segment -> T]
      /\ requeuedShown \subseteq Segment
  BY DEF Inv, TypeOK
<1>2. CASE NextSegment(w)
  BY <1>1, <1>2 DEF NextSegment, Take, progressVars
<1>3. CASE NoMoreSegments(w)
  BY <1>1, <1>3 DEF NoMoreSegments, Leave, progressVars
<1>4. CASE ReplaceClient(w) \/ DownloadFails(w)
  BY <1>1, <1>4 DEF ReplaceClient, DownloadFails, Attempting, poolVars, progressVars
<1>5. CASE RequeueSegment(w)
  <2>1. /\ pc' = [pc EXCEPT ![w] = "requeued"] /\ pc[w] = "try"
        /\ requeues' = [requeues EXCEPT ![seg[w]] = @ + 1]
        /\ UNCHANGED <<seg, finished, requeuedShown>>
    BY <1>5 DEF RequeueSegment, Exhausted, Requeue, progressVars
  <2>2. \A v \in Worker : seg'[v] = seg[v] /\ (pc'[v] = IF v = w THEN "requeued" ELSE pc[v])
    BY <1>1, <2>1
  <2>3. \A s \in Segment : s # seg[w] => requeues'[s] = requeues[s]
    BY <1>1, <2>1
  <2> QED
    BY <2>1, <2>2, <2>3
<1>6. CASE GiveUp(w)
  <2>1. /\ finished' = finished \cup {seg[w]} /\ pc[w] = "try"
        /\ pc' = [pc EXCEPT ![w] = "lost"]
        /\ UNCHANGED <<seg, requeues, requeuedShown>>
    BY <1>6, HeldSegment DEF GiveUp, Exhausted, Finish, progressVars
  <2> QED
    BY <1>1, <2>1
<1>7. CASE DownloadOk(w)
  <2>1. /\ finished' = finished \cup {seg[w]} /\ pc[w] = "try"
        /\ \E place : pc' = [pc EXCEPT ![w] = place] /\ place # "requeued"
        /\ UNCHANGED <<seg, requeues, requeuedShown>>
    BY <1>7, HeldSegment DEF DownloadOk, Attempting, Finish, progressVars
  <2> QED
    BY <1>1, <2>1
<1>8. CASE ShowRequeued(w) \/ ShowLost(w) \/ ShowDone(w)
  <2>1. /\ pc[w] \in {"requeued", "lost", "cached", "done"}
        /\ pc' = [pc EXCEPT ![w] = "next"]
        /\ seg' = [seg EXCEPT ![w] = NoSegment]
        /\ UNCHANGED <<finished, requeues>>
        /\ requeuedShown' =
             IF pc[w] = "requeued" THEN requeuedShown \cup {seg[w]}
             ELSE IF pc[w] = "lost" THEN requeuedShown
             ELSE requeuedShown \ {seg[w]}
    BY <1>8 DEF ShowRequeued, ShowLost, ShowDone, ForgetSegment, poolVars
  <2>2. \A v \in Worker : v # w => seg'[v] = seg[v] /\ pc'[v] = pc[v]
    BY <1>1, <2>1
  <2>3. pc'[w] = "next"
    BY <1>1, <2>1
  <2> QED
    BY <2>1, <2>2, <2>3
<1> QED
  BY <1>2, <1>3, <1>4, <1>5, <1>6, <1>7, <1>8 DEF WorkerStep

(* The bar shows a requeued segment from the time its thread has told it.   *)
LEMMA ShownKept == Inv /\ ShownInv /\ [Next]_vars => ShownInv'
<1> SUFFICES ASSUME Inv, ShownInv, [Next]_vars PROVE ShownInv'
  OBVIOUS
<1>1. ASSUME UNCHANGED <<finished, requeues, requeuedShown, seg>>,
             \A w \in Worker : pc'[w] = pc[w] \/ (pc[w] = "new" /\ pc'[w] = "next")
      PROVE  ShownInv'
  BY <1>1 DEF ShownInv, ToldStatusFirst, RequeuedShown, At
<1>2. CASE CountSegmentsFails \/ Return \/ NextToMerge \/ UNCHANGED vars
  <2>1. UNCHANGED <<finished, requeues, requeuedShown, seg, pc>>
    BY <1>2 DEF CountSegmentsFails, Return, NextToMerge, vars, poolVars, localVars,
                progressVars
  <2> QED
    BY <1>1, <2>1
<1>3. CASE StartThreads
  <2>1. /\ UNCHANGED <<finished, requeues, requeuedShown, seg>>
        /\ pc' = [w \in Worker |-> "next"]
        /\ \A w \in Worker : pc[w] = "new"
    BY <1>3 DEF StartThreads, Inv, Control, poolVars, progressVars
  <2>2. \A w \in Worker : pc[w] = "new" /\ pc'[w] = "next"
    BY <2>1
  <2> QED
    BY <1>1, <2>1, <2>2
<1> QED
  BY <1>2, <1>3, ShownStep DEF Next, Terminated

(* A requeued segment is shown as requeued, but for the threads that are    *)
(* about to tell it, whichever threads have it next.                        *)
THEOREM RequeuesShown == Spec => []RequeuedShown
<1>1. Init => ShownInv
  BY DEF Init, ShownInv, ToldStatusFirst, RequeuedShown
<1>2. ShownInv => RequeuedShown
  BY DEF ShownInv
<1> QED
  BY <1>1, <1>2, ShownKept, Invariant, PTL DEF Spec

----------------------------------------------------------------------------
(* Action properties *)

(* The lost segments that run returns are final.                            *)
LEMMA LostStays ==
  ASSUME Inv, [Next]_vars, phase = "returned" PROVE lost = missed /\ missed' = missed
<1>1. lost = missed /\ \A w \in Worker : pc[w] = "ended"
  BY DEF Inv, Control
<1>2. \A w \in Worker : ~WorkerStep(w)
  BY <1>1 DEF WorkerStep, NextSegment, NoMoreSegments, ReplaceClient, Exhausted,
              RequeueSegment, GiveUp, Attempting, DownloadOk, DownloadFails,
              ShowRequeued, ShowLost, ShowDone
<1>3. CASE CountSegmentsFails \/ StartThreads \/ Return
  BY <1>3 DEF CountSegmentsFails, StartThreads, Return
<1>4. CASE NextToMerge
  BY <1>1, <1>4 DEF NextToMerge
<1>5. CASE UNCHANGED vars
  BY <1>1, <1>5 DEF vars, statusVars
<1> QED
  BY <1>2, <1>3, <1>4, <1>5 DEF Next, Terminated

(* The list that MissedSegments returned without the lock does not change  *)
(* afterwards.                                                             *)
THEOREM LostFinal == Spec => LostIsFinal
<1>1. Inv /\ [Next]_vars => [phase = "returned" => lost = missed /\ missed' = missed]_vars
  BY LostStays
<1> QED
  BY <1>1, Invariant, PTL DEF Spec, LostIsFinal

(* A result stays in SegmentStatus until the merger is at it.               *)
Stays ==
  \A s \in Segment :
    results[s] # "none" =>
      \/ results'[s] = results[s]
      \/ s = mergedCount /\ mergedCount' = s + 1

(* No step but the merger's removes or changes a result.                   *)
LEMMA ResultsStep == ASSUME Inv, [Next]_vars PROVE Stays
<1> USE DEF Stays, statusVars
<1>1. CASE CountSegmentsFails \/ StartThreads \/ Return \/ UNCHANGED vars
  BY <1>1 DEF CountSegmentsFails, StartThreads, Return, vars
<1>2. CASE NextToMerge
  BY <1>2 DEF NextToMerge, Inv, TypeOK
<1>3. ASSUME NEW w \in Worker, WorkerStep(w)
      PROVE  Stays
  <2>1. CASE GiveUp(w) \/ DownloadOk(w)
    <3>1. pc[w] = "try" /\ Finish(w)
      BY <2>1 DEF GiveUp, Exhausted, DownloadOk, Attempting
    <3>2. results[seg[w]] = "none"
      BY <3>1, ReportStep
    <3> QED
      BY <2>1, <3>2 DEF GiveUp, DownloadOk, Downloaded, Inv, TypeOK
  <2>2. CASE ~(GiveUp(w) \/ DownloadOk(w))
    BY <1>3, <2>2 DEF WorkerStep, NextSegment, NoMoreSegments, ReplaceClient,
       RequeueSegment, DownloadFails, ShowRequeued, ShowLost, ShowDone
  <2> QED
    BY <2>1, <2>2
<1> QED
  BY <1>1, <1>2, <1>3 DEF Next, Terminated

(* A reported result stays what it is until the merger takes it.           *)
THEOREM ResultsKept == Spec => ResultsStay
<1>1. Inv /\ [Next]_vars => [Stays]_vars
  BY ResultsStep
<1> QED
  BY <1>1, Invariant, PTL DEF Spec, ResultsStay, Stays

----------------------------------------------------------------------------
(* The progress counters *)

(* The threads at one of the given places, and what moving one thread from  *)
(* place to place does to their number.                                     *)
AtOf(p, K) == {v \in Worker : p[v] \in K}

(* What one thread's move does to the set of threads at some places.       *)
LEMMA MovedThread ==
  ASSUME Inv, NEW w \in Worker, NEW k, pc' = [pc EXCEPT ![w] = k], NEW K
  PROVE  /\ k \in K /\ pc[w] \notin K =>
              Cardinality(AtOf(pc', K)) = Cardinality(AtOf(pc, K)) + 1
         /\ k \notin K /\ pc[w] \in K =>
              Cardinality(AtOf(pc', K)) = Cardinality(AtOf(pc, K)) - 1
         /\ (k \in K <=> pc[w] \in K) =>
              Cardinality(AtOf(pc', K)) = Cardinality(AtOf(pc, K))
<1>1. IsFiniteSet(AtOf(pc, K))
  BY FiniteWorkers, FS_Subset DEF AtOf
<1>2. pc'[w] = k /\ \A v \in Worker \ {w} : pc'[v] = pc[v]
  BY DEF Inv, TypeOK
<1>3. ASSUME k \in K, pc[w] \notin K
      PROVE  Cardinality(AtOf(pc', K)) = Cardinality(AtOf(pc, K)) + 1
  <2>1. AtOf(pc', K) = AtOf(pc, K) \cup {w} /\ w \notin AtOf(pc, K)
    BY <1>2, <1>3 DEF AtOf
  <2> QED
    BY <1>1, <2>1, FS_AddElement
<1>4. ASSUME k \notin K, pc[w] \in K
      PROVE  Cardinality(AtOf(pc', K)) = Cardinality(AtOf(pc, K)) - 1
  <2>1. AtOf(pc', K) = AtOf(pc, K) \ {w} /\ w \in AtOf(pc, K)
    BY <1>2, <1>4 DEF AtOf
  <2> QED
    BY <1>1, <2>1, FS_RemoveElement
<1>5. ASSUME k \in K <=> pc[w] \in K
      PROVE  AtOf(pc', K) = AtOf(pc, K)
  BY <1>2, <1>5 DEF AtOf
<1> QED
  BY <1>3, <1>4, <1>5

(* The two numbers ProgressAdds is about, before and after a step.          *)
Telling == {"lost", "cached", "done"}

(* ProgressAdds, with the threads that have yet to tell Progress as a      *)
(* set.                                                                    *)
LEMMA CountsAt ==
  /\ ProgressAdds <=>
       /\ cached + downloaded + failed + Cardinality(AtOf(pc, Telling))
            = Cardinality(finished)
       /\ failed + Cardinality(AtOf(pc, {"lost"})) = Len(missed)
  /\ ProgressAdds' <=>
       /\ cached' + downloaded' + failed' + Cardinality(AtOf(pc', Telling))
            = Cardinality(finished')
       /\ failed' + Cardinality(AtOf(pc', {"lost"})) = Len(missed')
  BY DEF ProgressAdds, At, AtOf, Telling

(* A thread starts or stops being one that has yet to tell Progress.       *)
LEMMA TellingMoves ==
  ASSUME Inv, Inv', NEW w \in Worker, NEW k, pc' = [pc EXCEPT ![w] = k]
  PROVE  /\ k = "lost" /\ pc[w] = "try" =>
              /\ Cardinality(AtOf(pc', Telling)) = Cardinality(AtOf(pc, Telling)) + 1
              /\ Cardinality(AtOf(pc', {"lost"})) = Cardinality(AtOf(pc, {"lost"})) + 1
         /\ k \in {"cached", "done"} /\ pc[w] = "try" =>
              /\ Cardinality(AtOf(pc', Telling)) = Cardinality(AtOf(pc, Telling)) + 1
              /\ Cardinality(AtOf(pc', {"lost"})) = Cardinality(AtOf(pc, {"lost"}))
         /\ k = "next" /\ pc[w] = "lost" =>
              /\ Cardinality(AtOf(pc', Telling)) = Cardinality(AtOf(pc, Telling)) - 1
              /\ Cardinality(AtOf(pc', {"lost"})) = Cardinality(AtOf(pc, {"lost"})) - 1
         /\ k = "next" /\ pc[w] \in {"cached", "done"} =>
              /\ Cardinality(AtOf(pc', Telling)) = Cardinality(AtOf(pc, Telling)) - 1
              /\ Cardinality(AtOf(pc', {"lost"})) = Cardinality(AtOf(pc, {"lost"}))
         /\ k \notin Telling /\ pc[w] \notin Telling =>
              /\ Cardinality(AtOf(pc', Telling)) = Cardinality(AtOf(pc, Telling))
              /\ Cardinality(AtOf(pc', {"lost"})) = Cardinality(AtOf(pc, {"lost"}))
<1> DEFINE Moved(K) ==
      /\ k \in K /\ pc[w] \notin K =>
           Cardinality(AtOf(pc', K)) = Cardinality(AtOf(pc, K)) + 1
      /\ k \notin K /\ pc[w] \in K =>
           Cardinality(AtOf(pc', K)) = Cardinality(AtOf(pc, K)) - 1
      /\ (k \in K <=> pc[w] \in K) =>
           Cardinality(AtOf(pc', K)) = Cardinality(AtOf(pc, K))
<1>1. \A K : Moved(K)
  BY MovedThread, Zenon
<1>2. Moved(Telling) /\ Moved({"lost"})
  BY <1>1, Zenon
<1> QED
  BY <1>2 DEF Telling

(* Finishing a segment makes one more.                                      *)
LEMMA OneMoreFinished ==
  ASSUME Inv, NEW w \in Worker, pc[w] = "try", Finish(w)
  PROVE  /\ Cardinality(finished) \in Nat
         /\ Cardinality(finished') = Cardinality(finished) + 1
<1>1. finished' = finished \cup {seg[w]} /\ seg[w] \notin finished
  BY ReportStep
<1>2. IsFiniteSet(finished)
  <2>1. IsFiniteSet(Segment)
    BY SegmentsAssumption, FS_Interval
  <2> QED
    BY <2>1, FS_Subset DEF Inv, PoolInv, PoolTypeOK
<1> QED
  BY <1>1, <1>2, FS_AddElement, FS_CardinalityType

(* The counters start at zero, with nothing finished.                      *)
LEMMA ProgressInit == Init => ProgressAdds
<1> SUFFICES ASSUME Init PROVE ProgressAdds
  OBVIOUS
<1>1. AtOf(pc, Telling) = {} /\ AtOf(pc, {"lost"}) = {} /\ finished = {}
  BY DEF Init, PoolInit, AtOf, Telling
<1>2. /\ cached = 0 /\ downloaded = 0 /\ failed = 0
      /\ Len(missed) = 0 /\ Cardinality({}) = 0
  BY FS_EmptySet DEF Init
<1>3. cached + downloaded + failed + 0 = 0 /\ failed + 0 = 0
  BY <1>2
<1> QED
  BY <1>1, <1>2, <1>3, CountsAt

(* Every step of the task keeps the sum.                                   *)
LEMMA ProgressStep ==
  ASSUME Inv, Inv', ProgressAdds, [Next]_vars
  PROVE  ProgressAdds'
<1>1. CASE UNCHANGED <<pc, finished, missed, cached, downloaded, failed>>
  BY <1>1 DEF ProgressAdds, At
<1>2. CASE UNCHANGED vars \/ CountSegmentsFails \/ Return \/ NextToMerge
  BY <1>1, <1>2 DEF vars, CountSegmentsFails, Return, NextToMerge, poolVars,
                    localVars, statusVars, progressVars
<1>3. CASE StartThreads
  <2>1. /\ \A w \in Worker : pc[w] = "new" /\ pc'[w] = "next"
        /\ UNCHANGED <<finished, missed, cached, downloaded, failed>>
    BY <1>3 DEF Inv, Control, StartThreads, poolVars, statusVars, progressVars
  <2>2. /\ At({"lost", "cached", "done"})' = At({"lost", "cached", "done"})
        /\ At({"lost"})' = At({"lost"})
    BY <2>1 DEF At
  <2> QED
    BY <2>1, <2>2 DEF ProgressAdds
<1>4. ASSUME NEW w \in Worker, WorkerStep(w)
      PROVE  ProgressAdds'
  <2> DEFINE told == Cardinality(AtOf(pc, Telling))
             toldLost == Cardinality(AtOf(pc, {"lost"}))
             told_ == Cardinality(AtOf(pc', Telling))
             toldLost_ == Cardinality(AtOf(pc', {"lost"}))
  <2>0. SUFFICES /\ cached' + downloaded' + failed' + told_ = Cardinality(finished')
                 /\ failed' + toldLost_ = Len(missed')
    BY CountsAt
  <2>1. /\ cached + downloaded + failed + told = Cardinality(finished)
        /\ failed + toldLost = Len(missed)
        /\ cached \in Nat /\ downloaded \in Nat /\ failed \in Nat
    BY CountsAt DEF Inv, TypeOK
  <2>2. told \in Nat /\ toldLost \in Nat
    <3>1. IsFiniteSet(AtOf(pc, Telling)) /\ IsFiniteSet(AtOf(pc, {"lost"}))
      BY FiniteWorkers, FS_Subset DEF AtOf
    <3> QED
      BY <3>1, FS_CardinalityType
  <2>3. CASE NextSegment(w) \/ NoMoreSegments(w) \/ RequeueSegment(w) \/ ShowRequeued(w)
    <3>1. /\ \E k \in {"try", "ended", "requeued", "next"} : pc' = [pc EXCEPT ![w] = k]
          /\ pc[w] \in {"next", "try", "requeued"}
          /\ UNCHANGED <<finished, missed, cached, downloaded, failed>>
      BY <2>3 DEF NextSegment, NoMoreSegments, RequeueSegment, ShowRequeued,
         Exhausted, Take, Leave, Requeue, ForgetSegment, poolVars, statusVars,
         progressVars
    <3>2. told_ = told /\ toldLost_ = toldLost
      BY <3>1, TellingMoves DEF Telling
    <3> QED
      BY <2>1, <3>1, <3>2
  <2>4. CASE ReplaceClient(w) \/ DownloadFails(w)
    BY <2>1, <2>4 DEF ReplaceClient, DownloadFails, poolVars, statusVars, progressVars
  <2>5. CASE GiveUp(w)
    <3>1. /\ pc[w] = "try" /\ Finish(w) /\ pc' = [pc EXCEPT ![w] = "lost"]
          /\ missed' = Append(missed, seg[w])
          /\ cached' = cached /\ downloaded' = downloaded /\ failed' = failed
      BY <2>5 DEF GiveUp, Exhausted, Downloaded, progressVars
    <3>2. told_ = told + 1 /\ toldLost_ = toldLost + 1
      BY <3>1, TellingMoves
    <3>3. Len(missed') = Len(missed) + 1
      BY <3>1 DEF Inv, TypeOK
    <3>4. Cardinality(finished') = Cardinality(finished) + 1
      BY <3>1, OneMoreFinished
    <3>5. cached' + downloaded' + failed' + told_ = Cardinality(finished')
      BY <2>1, <2>2, <3>1, <3>2, <3>4
    <3>6. failed' + toldLost_ = Len(missed')
      BY <2>1, <2>2, <3>1, <3>2, <3>3
    <3> QED
      BY <3>5, <3>6
  <2>6. CASE DownloadOk(w)
    <3>1. /\ pc[w] = "try" /\ Finish(w) /\ missed' = missed
          /\ \E k \in {"cached", "done"} : pc' = [pc EXCEPT ![w] = k]
          /\ UNCHANGED <<cached, downloaded, failed>>
      BY <2>6 DEF DownloadOk, Attempting, Downloaded, progressVars
    <3>2. told_ = told + 1 /\ toldLost_ = toldLost
      BY <3>1, TellingMoves
    <3>3. Cardinality(finished') = Cardinality(finished) + 1
      BY <3>1, OneMoreFinished
    <3> QED
      BY <2>1, <2>2, <3>1, <3>2, <3>3
  <2>7. CASE ShowLost(w)
    <3>1. /\ pc[w] = "lost" /\ pc' = [pc EXCEPT ![w] = "next"]
          /\ failed' = failed + 1
          /\ UNCHANGED <<finished, missed, cached, downloaded>>
      BY <2>7 DEF ShowLost, ForgetSegment, poolVars, statusVars
    <3>2. told_ = told - 1 /\ toldLost_ = toldLost - 1
      BY <3>1, TellingMoves
    <3> QED
      BY <2>1, <2>2, <3>1, <3>2
  <2>8. CASE ShowDone(w)
    <3>1. /\ pc[w] \in {"cached", "done"} /\ pc' = [pc EXCEPT ![w] = "next"]
          /\ cached' + downloaded' = cached + downloaded + 1
          /\ cached' \in Nat /\ downloaded' \in Nat
          /\ finished' = finished /\ missed' = missed /\ failed' = failed
      BY <2>1, <2>8 DEF ShowDone, ForgetSegment, poolVars, statusVars
    <3>2. told_ = told - 1 /\ toldLost_ = toldLost
      BY <3>1, TellingMoves
    <3> QED
      BY <2>1, <2>2, <3>1, <3>2
  <2> QED
    BY <1>4, <2>3, <2>4, <2>5, <2>6, <2>7, <2>8 DEF WorkerStep
<1> QED
  BY <1>2, <1>3, <1>4 DEF Next, Terminated

(* The counters of the progress bar add up.                                 *)
THEOREM ProgressCounts == Spec => []ProgressAdds
<1>1. Inv /\ Inv' /\ ProgressAdds /\ [Next]_vars => ProgressAdds'
  BY ProgressStep
<1> QED
  BY <1>1, ProgressInit, Invariant, PTL DEF Spec

----------------------------------------------------------------------------
(* The refinement *)

(* The feed's operators change one field of the record.                    *)
LEMMA FeedFields ==
  ASSUME NEW f \in Feed!Feed
  PROVE  /\ Feed!Failed(f) = [phase |-> "failed", outcome |-> f.outcome, merged |-> f.merged]
         /\ Feed!Started(f) = [phase |-> "running", outcome |-> f.outcome, merged |-> f.merged]
         /\ Feed!Ended(f) = [phase |-> "ended", outcome |-> f.outcome, merged |-> f.merged]
         /\ Feed!Merged(f) = [phase |-> f.phase, outcome |-> f.outcome, merged |-> f.merged + 1]
         /\ \A s \in Segment, r \in {"ok", "lost"} :
              Feed!Reported(f, s, r) =
                [phase |-> f.phase, outcome |-> [f.outcome EXCEPT ![s] = r], merged |-> f.merged]
  BY DEF Feed!Feed, Feed!Failed, Feed!Started, Feed!Ended, Feed!Merged, Feed!Reported

(* The fields of the merger's view.                                        *)
LEMMA ViewFields ==
  ASSUME Inv
  PROVE  /\ FeedView \in Feed!Feed
         /\ FeedView.phase = (IF phase = "returned" THEN "ended" ELSE phase)
         /\ FeedView.outcome = [s \in Segment |-> OutcomeOf(s)]
         /\ FeedView.merged = mergedCount
<1>1. [s \in Segment |-> OutcomeOf(s)] \in [Feed!FeedSegment -> {"none", "ok", "lost"}]
  BY SegmentsAssumption DEF OutcomeOf, Feed!FeedSegment
<1> QED
  BY <1>1 DEF FeedView, Feed!Feed, Inv, TypeOK

(* What a reported outcome does to the merger's view.                      *)
LEMMA OutcomeReported ==
  ASSUME Inv, NEW s \in Segment, NEW r \in {"ok", "lost"},
         s \notin finished, finished' = finished \cup {s},
         Missed' = (IF r = "lost" THEN Missed \cup {s} ELSE Missed),
         s \notin Missed, phase = "running", UNCHANGED <<phase, mergedCount>>
  PROVE  Feed!FeedNext
<1>1. s \in Feed!FeedSegment
  BY SegmentsAssumption DEF Feed!FeedSegment
<1>2. Feed!MayReport(FeedView, s)
  BY DEF Feed!MayReport, FeedView, OutcomeOf
<1>3. \A q \in Segment : OutcomeOf(q)' = IF q = s THEN r ELSE OutcomeOf(q)
  BY DEF OutcomeOf
<1>4. [q \in Segment |-> OutcomeOf(q)]' = [[q \in Segment |-> OutcomeOf(q)] EXCEPT ![s] = r]
  BY <1>3
<1>5. FeedView' = Feed!Reported(FeedView, s, r)
  <2>1. Feed!Reported(FeedView, s, r) =
          [phase |-> FeedView.phase, outcome |-> [FeedView.outcome EXCEPT ![s] = r],
           merged |-> FeedView.merged]
    BY FeedFields, ViewFields
  <2>2. FeedView' = [phase |-> (IF phase = "returned" THEN "ended" ELSE phase)',
                     outcome |-> [q \in Segment |-> OutcomeOf(q)]',
                     merged |-> mergedCount']
    BY DEF FeedView
  <2> QED
    BY <1>4, <2>1, <2>2, ViewFields
<1> QED
  BY <1>1, <1>2, <1>5 DEF Feed!FeedNext

(* A step that reports, merges and ends nothing.                           *)
LEMMA ViewKept ==
  ASSUME UNCHANGED <<phase, finished, missed, mergedCount>> PROVE UNCHANGED FeedView
  BY DEF FeedView, OutcomeOf, Missed

(* Every step of the task is a step of the feed, or leaves it alone.       *)
LEMMA StepFeed ==
  ASSUME Inv, [Next]_vars PROVE [Feed!FeedNext]_FeedView
<1> USE DEF poolVars, runVars, localVars, statusVars, progressVars
<1>1. CASE CountSegmentsFails
  <2>1. CASE phase' = phase
    BY <1>1, <2>1, ViewKept DEF CountSegmentsFails
  <2>2. CASE phase' = "failed"
    <3>1. [q \in Segment |-> OutcomeOf(q)]' = [q \in Segment |-> OutcomeOf(q)]
      BY <1>1 DEF CountSegmentsFails, OutcomeOf, Missed
    <3>2. Feed!Counting(FeedView) /\ FeedView' = Feed!Failed(FeedView)
      BY <1>1, <2>2, <3>1, FeedFields, ViewFields
      DEF CountSegmentsFails, Feed!Counting, FeedView
    <3> QED
      BY <3>2 DEF Feed!FeedNext
  <2> QED
    BY <1>1, <2>1, <2>2 DEF CountSegmentsFails
<1>2. CASE StartThreads
  <2>1. [q \in Segment |-> OutcomeOf(q)]' = [q \in Segment |-> OutcomeOf(q)]
    BY <1>2 DEF StartThreads, OutcomeOf, Missed
  <2>2. Feed!Counting(FeedView) /\ FeedView' = Feed!Started(FeedView)
    BY <1>2, <2>1, FeedFields, ViewFields DEF StartThreads, Feed!Counting, FeedView
  <2> QED
    BY <2>2 DEF Feed!FeedNext
<1>3. CASE Return
  <2>1. [q \in Segment |-> OutcomeOf(q)]' = [q \in Segment |-> OutcomeOf(q)]
    BY <1>3 DEF Return, OutcomeOf, Missed
  <2>2. live = {}
    BY <1>3 DEF Return, Inv, Control, PoolInv, PoolTypeOK
  <2>3. finished = Segment
    BY <2>2, NothingBehind DEF Inv, NothingLeftBehind
  <2>4. Feed!MayEnd(FeedView)
    BY <1>3, <2>3, SegmentsAssumption
    DEF Return, Feed!MayEnd, Feed!FeedSegment, FeedView, OutcomeOf
  <2>5. FeedView' = Feed!Ended(FeedView)
    BY <1>3, <2>1, FeedFields, ViewFields DEF Return, FeedView
  <2> QED
    BY <2>4, <2>5 DEF Feed!FeedNext
<1>4. CASE NextToMerge
  <2>1. [q \in Segment |-> OutcomeOf(q)]' = [q \in Segment |-> OutcomeOf(q)]
    BY <1>4 DEF NextToMerge, OutcomeOf, Missed
  <2>2. mergedCount \in Segment /\ mergedCount \in finished
    BY <1>4 DEF NextToMerge, Inv, MergeWindow
  <2>3. Feed!MayMerge(FeedView)
    BY <2>2, SegmentsAssumption DEF Feed!MayMerge, Feed!FeedSegment, FeedView, OutcomeOf
  <2>4. FeedView' = Feed!Merged(FeedView)
    BY <1>4, <2>1, FeedFields, ViewFields DEF NextToMerge, FeedView
  <2> QED
    BY <2>3, <2>4 DEF Feed!FeedNext
<1>5. ASSUME NEW w \in Worker, WorkerStep(w)
      PROVE  [Feed!FeedNext]_FeedView
  <2>1. CASE GiveUp(w) \/ DownloadOk(w)
    <3>1. pc[w] = "try" /\ Finish(w)
      BY <2>1 DEF GiveUp, Exhausted, DownloadOk, Attempting
    <3>2. /\ seg[w] \in Segment /\ seg[w] \notin finished /\ seg[w] \notin Missed
          /\ finished' = finished \cup {seg[w]}
      BY <3>1, HeldSegment DEF Finish
    <3>3. phase = "running" /\ UNCHANGED <<phase, mergedCount>>
      BY <2>1, <3>1 DEF GiveUp, DownloadOk, Downloaded, Inv, TypeOK, Control
    <3>4. CASE GiveUp(w)
      <4>1. Missed' = Missed \cup {seg[w]}
        BY <3>2, <3>4, MissedGrows DEF GiveUp, Downloaded
      <4> QED
        BY <3>2, <3>3, <4>1, OutcomeReported
    <3>5. CASE DownloadOk(w)
      <4>1. Missed' = Missed
        BY <3>5 DEF DownloadOk, Downloaded, Missed
      <4> QED
        BY <3>2, <3>3, <4>1, OutcomeReported
    <3> QED
      BY <2>1, <3>4, <3>5
  <2>2. CASE ~(GiveUp(w) \/ DownloadOk(w))
    BY <1>5, <2>2, ViewKept
    DEF WorkerStep, NextSegment, NoMoreSegments, ReplaceClient, RequeueSegment,
        DownloadFails, ShowRequeued, ShowLost, ShowDone, Take, Leave, Requeue
  <2> QED
    BY <2>1, <2>2
<1>6. CASE UNCHANGED vars
  BY <1>6, ViewKept DEF vars
<1> QED
  BY <1>1, <1>2, <1>3, <1>4, <1>5, <1>6 DEF Next, Terminated

(* The task starts as a feed whose segments are still to be counted.       *)
LEMMA InitFeed == Init => Feed!FeedInit
<1> SUFFICES ASSUME Init PROVE Feed!FeedInit
  OBVIOUS
<1>1. [s \in Segment |-> OutcomeOf(s)] = [s \in Feed!FeedSegment |-> "none"]
  BY SegmentsAssumption DEF Init, PoolInit, OutcomeOf, Feed!FeedSegment
<1> QED
  BY <1>1 DEF Init, Feed!FeedInit, Feed!NewFeed, FeedView

(* The merger of a download task sees a feed: every segment is reported    *)
(* once, as downloaded or lost, and run returns when all were.             *)
THEOREM ImplementsTheFeed == Spec => ImplementsFeed
<1>1. Inv /\ [Next]_vars => [Feed!FeedNext]_FeedView
  BY StepFeed
<1> QED
  BY <1>1, InitFeed, Invariant, PTL DEF Spec, ImplementsFeed, Feed!FeedSpec
=============================================================================
