------------------------ MODULE BatchedSchedulerProofs ------------------------
(* The out-of-order scheduler: the loops that make its batches compute the  *)
(* closed form of Batches, which divides the segments among the workers     *)
(* without overlap, and on these batches it implements the abstract pool of *)
(* segments, for any number of segments, of workers and of requeues.        *)
EXTENDS BatchedScheduler, BatchSplit, SchedulerLemmas, TLAPS

-----------------------------------------------------------------------------
(* The split into batches: makeBatchedScheduler *)

(* The loops: as many full batches as fit, then the rest, then empty ones;  *)
(* at every moment the batches so far are those of the closed form.         *)
AsComputed(b, k) ==
  b = [start |-> FirstOf(segments, threads, k), end |-> LastOf(segments, threads, k)]

LoopInv ==
  /\ SplitTypeOK
  /\ \A i \in 1 .. Len(batches) : AsComputed(batches[i], i - 1)
  /\ stage = "split" =>
       /\ Len(batches) <= FullBatches(segments, threads)
       /\ lastSeg + 1 = Len(batches) * Size(segments, threads)
  /\ stage # "split" => FullBatches(segments, threads) < Len(batches)
  /\ stage = "done" => Len(batches) = threads

(* Before the first pass of the loops there is no batch.                   *)
LEMMA LoopInit == SplitInit => LoopInv
<1> SUFFICES ASSUME SplitInit PROVE LoopInv
  OBVIOUS
<1>1. segments \in Nat /\ threads \in Nat \ {0}
  BY SegmentCountsAssumption, ThreadCountsAssumption DEF SplitInit
<1>2. FullBatches(segments, threads) \in Nat /\ Size(segments, threads) \in Nat
  BY <1>1, BatchBounds
<1>3. batches = <<>> /\ Len(batches) = 0 /\ lastSeg = -1 /\ stage = "split"
  BY DEF SplitInit
<1>4. SplitTypeOK
  BY <1>1, <1>3 DEF SplitInit, SplitTypeOK
<1>5. \A i \in 1 .. Len(batches) : AsComputed(batches[i], i - 1)
  BY <1>3
<1> QED
  BY <1>2, <1>3, <1>4, <1>5 DEF LoopInv

(* One more batch at the end of the list.                                   *)
LEMMA AddBatch ==
  ASSUME NEW first \in Int, NEW last \in Int, Add(first, last), LoopInv,
         UNCHANGED <<segments, threads>>,
         AsComputed([start |-> first, end |-> last], Len(batches))
  PROVE  /\ batches' \in Seq([start : Int, end : Int])
         /\ Len(batches') = Len(batches) + 1
         /\ \A i \in 1 .. Len(batches') : AsComputed(batches[i], i - 1)'
<1>1. batches \in Seq([start : Int, end : Int]) /\ Len(batches) \in Nat
  BY DEF LoopInv, SplitTypeOK
<1>2. /\ batches' \in Seq([start : Int, end : Int])
      /\ Len(batches') = Len(batches) + 1
      /\ \A i \in 1 .. Len(batches') :
           batches'[i] = IF i = Len(batches) + 1 THEN [start |-> first, end |-> last]
                         ELSE batches[i]
  BY <1>1 DEF Add
<1>3. \A i \in 1 .. Len(batches) : AsComputed(batches[i], i - 1)
  BY DEF LoopInv
<1>4. ASSUME NEW i \in 1 .. Len(batches')
      PROVE  AsComputed(batches[i], i - 1)'
  <2>0. SUFFICES AsComputed(batches'[i], i - 1)
    BY DEF AsComputed
  <2>1. CASE i = Len(batches) + 1
    <3>1. batches'[i] = [start |-> first, end |-> last]
      BY <1>2, <2>1, Zenon
    <3>2. i - 1 = Len(batches)
      BY <1>1, <2>1
    <3> QED
      BY <3>1, <3>2
  <2>2. CASE i # Len(batches) + 1
    <3>1. batches'[i] = batches[i] /\ i \in 1 .. Len(batches)
      BY <1>1, <1>2, <2>2
    <3> QED
      BY <1>3, <3>1
  <2> QED
    BY <2>1, <2>2
<1> QED
  BY <1>2, <1>4

(* Every pass of makeBatchedScheduler's loops keeps the invariant.         *)
LEMMA LoopStep == LoopInv /\ [SplitNext]_splitVars => LoopInv'
<1> SUFFICES ASSUME LoopInv, [SplitNext]_splitVars
             PROVE  LoopInv'
  OBVIOUS
<1> DEFINE n == segments
           t == threads
           L == Size(n, t)
           F == FullBatches(n, t)
           B == Len(batches)
<1>1. n \in Nat /\ t \in Nat \ {0} /\ B \in Nat /\ lastSeg \in Int /\ B <= t
  BY SegmentCountsAssumption, ThreadCountsAssumption DEF LoopInv, SplitTypeOK
<1>2. L \in Nat \ {0} /\ F \in 0 .. t - 1 /\ F * L <= n /\ n < (F + 1) * L
  BY <1>1, BatchBounds
<1>3. interval \in Nat /\ L = interval + 1
  BY <1>1, DivBounds DEF interval, Size
<1>4. B * L \in Nat /\ (B + 1) * L = B * L + L /\ F * L \in Nat
  BY <1>1, <1>2
<1>5. stage = "split" => B <= F /\ lastSeg + 1 = B * L
  BY DEF LoopInv
<1> HIDE DEF L, F, B
<1>6. CASE FullBatch
  <2>1. /\ stage = "split" /\ lastSeg + 1 + interval < n
        /\ Add(lastSeg + 1, lastSeg + 1 + interval)
        /\ lastSeg' = lastSeg + 1 + interval
        /\ UNCHANGED <<segments, threads, stage>>
    BY <1>6 DEF FullBatch
  <2>2. lastSeg + 1 = B * L /\ (B + 1) * L <= n
    BY <1>1, <1>2, <1>3, <1>4, <1>5, <2>1
  <2>3. B < F
    <3>1. SUFFICES ASSUME F <= B PROVE FALSE
      BY <1>1, <1>2
    <3>2. (F + 1) * L <= (B + 1) * L
      BY <1>1, <1>2, <3>1, TimesMonotone
    <3> QED
      BY <1>1, <1>2, <1>4, <2>2, <3>2
  <2>4. AsComputed([start |-> lastSeg + 1, end |-> lastSeg + 1 + interval], B)
    BY <1>1, <1>2, <1>3, <1>4, <2>2, <2>3 DEF AsComputed, FirstOf, LastOf, L, F
  <2>5. /\ batches' \in Seq([start : Int, end : Int])
        /\ Len(batches') = B + 1
        /\ \A i \in 1 .. Len(batches') : AsComputed(batches[i], i - 1)'
    BY <1>1, <1>3, <2>1, <2>4, AddBatch DEF B
  <2>6. lastSeg' + 1 = Len(batches') * L /\ Len(batches') <= F
    BY <1>1, <1>2, <1>3, <1>4, <2>1, <2>2, <2>3, <2>5
  <2>7. SplitTypeOK'
    BY <1>1, <1>2, <1>3, <1>4, <2>1, <2>2, <2>3, <2>5 DEF LoopInv, SplitTypeOK
  <2> QED
    BY <2>1, <2>5, <2>6, <2>7 DEF LoopInv, L, F
<1>7. CASE RestBatch
  <2>1. /\ stage = "split" /\ ~(lastSeg + 1 + interval < n)
        /\ Add(lastSeg + 1, n - 1)
        /\ stage' = "fill"
        /\ UNCHANGED <<segments, threads, lastSeg>>
    BY <1>7 DEF RestBatch
  <2>2. lastSeg + 1 = B * L /\ n < (B + 1) * L /\ B <= F
    BY <1>1, <1>2, <1>3, <1>4, <1>5, <2>1
  <2>3. B = F
    <3>1. SUFFICES ASSUME B < F PROVE FALSE
      BY <1>1, <1>2, <2>2
    <3>2. (B + 1) * L <= F * L
      BY <1>1, <1>2, <3>1, TimesMonotone
    <3> QED
      BY <1>1, <1>2, <1>4, <2>2, <3>2
  <2>4. AsComputed([start |-> lastSeg + 1, end |-> n - 1], B)
    BY <1>1, <1>2, <1>4, <2>2, <2>3 DEF AsComputed, FirstOf, LastOf, L, F
  <2>5. /\ batches' \in Seq([start : Int, end : Int])
        /\ Len(batches') = B + 1
        /\ \A i \in 1 .. Len(batches') : AsComputed(batches[i], i - 1)'
    BY <1>1, <2>1, <2>4, AddBatch DEF B
  <2>6. F < Len(batches') /\ Len(batches') <= t
    BY <1>1, <1>2, <2>3, <2>5
  <2>7. SplitTypeOK'
    BY <1>1, <2>1, <2>5, <2>6 DEF LoopInv, SplitTypeOK
  <2> QED
    BY <2>1, <2>5, <2>6, <2>7 DEF LoopInv, F
<1>8. CASE EmptyBatch
  <2>1. /\ stage = "fill" /\ B < t /\ F < B
        /\ Add(-1, -2)
        /\ UNCHANGED <<segments, threads, lastSeg, stage>>
    BY <1>8 DEF EmptyBatch, LoopInv, B, F
  <2>2. AsComputed([start |-> -1, end |-> -2], B)
    BY <1>1, <1>2, <2>1 DEF AsComputed, FirstOf, LastOf, F
  <2>3. /\ batches' \in Seq([start : Int, end : Int])
        /\ Len(batches') = B + 1
        /\ \A i \in 1 .. Len(batches') : AsComputed(batches[i], i - 1)'
    BY <2>1, <2>2, AddBatch DEF B
  <2>4. F < Len(batches') /\ Len(batches') <= t
    BY <1>1, <1>2, <2>1, <2>3
  <2>5. SplitTypeOK'
    BY <2>1, <2>3, <2>4 DEF LoopInv, SplitTypeOK
  <2> QED
    BY <2>1, <2>3, <2>4, <2>5 DEF LoopInv, F
<1>9. CASE Return
  <2>1. /\ stage = "fill" /\ B >= t /\ stage' = "done"
        /\ UNCHANGED <<segments, threads, batches, lastSeg>>
    BY <1>9 DEF Return, B
  <2>2. B = t
    BY <1>1, <2>1
  <2> QED
    BY <2>1, <2>2 DEF LoopInv, SplitTypeOK, AsComputed, B
<1>10. CASE UNCHANGED splitVars
  BY <1>10 DEF splitVars, LoopInv, SplitTypeOK, AsComputed
<1> QED
  BY <1>6, <1>7, <1>8, <1>9, <1>10 DEF SplitNext

(* The invariant of the two loops: the batches made so far are the first   *)
(* ones of the closed form.                                                *)
THEOREM SplitInvariant == SplitSpec => []LoopInv
  BY LoopInit, LoopStep, PTL DEF SplitSpec

(* makeBatchedScheduler makes one batch per worker, those of the closed     *)
(* form, for any number of segments and of workers.                         *)
THEOREM SplitClosedForm == SplitSpec => []ClosedForm
<1>1. LoopInv => ClosedForm
  <2> SUFFICES ASSUME LoopInv, stage = "done"
               PROVE  /\ Len(batches) = threads
                      /\ \A k \in 0 .. threads - 1 : AsComputed(batches[k + 1], k)
    BY DEF ClosedForm, AsComputed
  <2>1. Len(batches) = threads /\ threads \in Nat
    BY ThreadCountsAssumption DEF LoopInv, SplitTypeOK
  <2>2. ASSUME NEW k \in 0 .. threads - 1
        PROVE  AsComputed(batches[k + 1], k)
    <3>1. k + 1 \in 1 .. Len(batches) /\ (k + 1) - 1 = k
      BY <2>1
    <3> QED
      BY <3>1 DEF LoopInv
  <2> QED
    BY <2>1, <2>2
<1> QED
  BY <1>1, SplitInvariant, PTL

(* Every segment ends up in exactly one batch.                              *)
THEOREM SplitPartition == SplitSpec => []Partition
<1>1. LoopInv => Partition
  <2> SUFFICES ASSUME LoopInv, stage = "done", NEW s \in 0 .. segments - 1
               PROVE  \E k \in 1 .. threads :
                        \A j \in 1 .. Len(batches) :
                          s \in batches[j].start .. batches[j].end <=> j = k
    BY DEF Partition
  <2>1. Len(batches) = threads /\ threads \in Nat \ {0} /\ segments \in Nat
    BY SegmentCountsAssumption, ThreadCountsAssumption DEF LoopInv, SplitTypeOK
  <2>2. \A j \in 1 .. Len(batches) :
          /\ j - 1 \in 0 .. threads - 1
          /\ batches[j].start .. batches[j].end = Batch(segments, threads, j - 1)
    BY <2>1 DEF LoopInv, AsComputed, Batch
  <2>3. PICK k \in 0 .. threads - 1 :
          \A j \in 0 .. threads - 1 : s \in Batch(segments, threads, j) <=> j = k
    BY <2>1, BatchesPartition
  <2>4. k + 1 \in 1 .. threads
    BY <2>1
  <2>5. \A j \in 1 .. Len(batches) :
          s \in batches[j].start .. batches[j].end <=> j = k + 1
    <3> TAKE j \in 1 .. Len(batches)
    <3>1. s \in batches[j].start .. batches[j].end <=> s \in Batch(segments, threads, j - 1)
      BY <2>2
    <3>2. s \in Batch(segments, threads, j - 1) <=> j - 1 = k
      BY <2>2, <2>3
    <3> QED
      BY <2>1, <3>1, <3>2
  <2> QED
    BY <2>4, <2>5
<1> QED
  BY <1>1, SplitInvariant, PTL

-----------------------------------------------------------------------------
(* The scheduler *)

USE SegmentsAssumption, ThreadsAssumption, LimitAssumption

(* A segment is fresh in one batch, or waits for its retry in one queue, or *)
(* is elsewhere, and a fresh one has no requeue delay.                      *)
NoRepeats(q) == \A i, j \in 1 .. Len(q) : q[i] = q[j] => i = j

Apart ==
  /\ \A b \in Worker : Fresh(b) \subseteq Segment
  /\ \A b, c \in Worker : \A s \in Fresh(b) : s \in Fresh(c) => b = c
  /\ \A b, c \in Worker : \A s \in Fresh(b) : s \notin FailedIn(c)
  /\ \A b, c \in Worker : \A s \in FailedIn(b) : s \in FailedIn(c) => b = c
  /\ \A b \in Worker : \A s \in Fresh(b) : s \notin unripe
  /\ \A b \in Worker : NoRepeats(failed[b])

Busy(w) == pc[w] \in {"waiting", "working"}

(* What a worker holds is in no batch and in nobody else's hands.           *)
HeldApart ==
  /\ \A w \in Worker : Busy(w) <=> hold[w] # NoSegment
  /\ \A v, w \in Worker : Busy(v) => hold[v] \notin Fresh(w) /\ hold[v] \notin FailedIn(w)
  /\ \A v, w \in Worker : Busy(v) /\ hold[v] = hold[w] => v = w

Inv ==
  /\ TypeOK
  /\ Apart
  /\ HeldApart
  /\ NoOrphanedWork
  /\ DelayHonoured

(* Queues without repetitions and apart from each other hold a failed      *)
(* segment once.                                                           *)
LEMMA ApartFailedOnce == TypeOK /\ Apart => FailedOnce
<1> SUFFICES ASSUME TypeOK, Apart,
                    NEW b \in Worker, NEW c \in Worker,
                    NEW i \in 1 .. Len(failed[b]), NEW j \in 1 .. Len(failed[c]),
                    failed[b][i] = failed[c][j]
             PROVE  b = c /\ i = j
  BY DEF FailedOnce
<1>1. failed[b][i] \in FailedIn(b) /\ failed[c][j] \in FailedIn(c)
  BY DEF FailedIn
<1>2. b = c
  BY <1>1 DEF Apart
<1> QED
  BY <1>2 DEF Apart, NoRepeats

----------------------------------------------------------------------------
(* The steps of the workers, seen as changes of sets of segments. *)

(* w gets the fresh segment s of batch v.                                   *)
TakesFresh(w, v, s) ==
  /\ pc[w] \in {"idle", "scan"}
  /\ s \in Fresh(v)
  /\ Fresh(v)' = Fresh(v) \ {s}
  /\ \A b \in Worker \ {v} : Fresh(b)' = Fresh(b)
  /\ hold' = [hold EXCEPT ![w] = s]
  /\ pc' = [pc EXCEPT ![w] = "working"]
  /\ UNCHANGED <<failed, fails, unripe, victim, finished>>

(* w gets the oldest failed segment s of batch v.                           *)
TakesFailed(w, v, s) ==
  /\ pc[w] \in {"idle", "scan"}
  /\ s \in FailedIn(v)
  /\ failed' \in [Worker -> Seq(Segment)]
  /\ FailedIn(v)' = FailedIn(v) \ {s}
  /\ \A b \in Worker \ {v} : failed'[b] = failed[b]
  /\ failed[v] # <<>>
  /\ NoRepeats(failed'[v])
  /\ hold' = [hold EXCEPT ![w] = s]
  /\ pc' = [pc EXCEPT ![w] = "waiting"]
  /\ UNCHANGED <<start, end, fails, unripe, victim, finished>>

(* w puts the segment it holds into its own queue of failed segments.       *)
PutsBack(w, s) ==
  /\ pc[w] = "working"
  /\ hold[w] = s /\ s \in Segment
  /\ failed' \in [Worker -> Seq(Segment)]
  /\ FailedIn(w)' = FailedIn(w) \cup {s}
  /\ \A b \in Worker \ {w} : failed'[b] = failed[b]
  /\ NoRepeats(failed'[w])
  /\ fails[s] < RequeueLimit
  /\ fails' = [fails EXCEPT ![s] = @ + 1]
  /\ unripe' = unripe \cup {s}
  /\ hold' = [hold EXCEPT ![w] = NoSegment]
  /\ pc' = [pc EXCEPT ![w] = "idle"]
  /\ UNCHANGED <<start, end, victim, finished>>

(* The owner takes the first fresh segment of its batch (tryGetNext).      *)
LEMMA TakeOwnStep ==
  ASSUME Inv, NEW w \in Worker, TakeOwn(w)
  PROVE  TakesFresh(w, w, start[w]) /\ TypeOK'
<1>0. TypeOK /\ Fresh(w) \subseteq Segment
  BY DEF Inv, Apart
<1>1. start[w] \in Int /\ end[w] \in Int /\ start[w] <= end[w]
  BY <1>0 DEF TypeOK, TakeOwn, HasFresh
<1>2. /\ start' = [start EXCEPT ![w] = @ + 1]
      /\ hold' = [hold EXCEPT ![w] = start[w]]
      /\ pc' = [pc EXCEPT ![w] = "working"]
      /\ pc[w] = "idle"
      /\ UNCHANGED <<end, failed, fails, unripe, victim, finished>>
  BY DEF TakeOwn, Got
<1>3. start[w] \in Fresh(w) /\ Fresh(w)' = Fresh(w) \ {start[w]}
  BY <1>0, <1>1, <1>2 DEF TypeOK, Fresh
<1>4. \A b \in Worker \ {w} : Fresh(b)' = Fresh(b)
  BY <1>0, <1>2 DEF TypeOK, Fresh
<1>5. start[w] \in Segment
  BY <1>0, <1>3
<1>6. TypeOK'
  <2>1. start[w] + 1 \in -1 .. Segments
    BY <1>5 DEF Segment
  <2> QED
    BY <1>0, <1>2, <1>5, <2>1 DEF TypeOK
<1> QED
  BY <1>2, <1>3, <1>4, <1>6 DEF TakesFresh

(* A thief takes the last fresh segment of a batch (trySteal).             *)
LEMMA StealFreshStep ==
  ASSUME Inv, NEW w \in Worker, StealFresh(w)
  PROVE  /\ \E v \in Worker : TakesFresh(w, v, end[v])
         /\ TypeOK'
<1>0. victim[w] \in Worker
  <2>1. victim[w] \in 0 .. Threads /\ victim[w] < Threads
    BY DEF Inv, TypeOK, StealFresh
  <2> QED
    BY <2>1 DEF Worker
<1> PICK v \in Worker : v = victim[w]
  BY <1>0
<1>1. TypeOK /\ v \in Worker
  BY DEF Inv
<1>2. /\ end' = [end EXCEPT ![v] = @ - 1]
      /\ hold' = [hold EXCEPT ![w] = end[v]]
      /\ pc' = [pc EXCEPT ![w] = "working"]
      /\ pc[w] = "scan"
      /\ HasFresh(v)
      /\ UNCHANGED <<start, failed, fails, unripe, victim, finished>>
  BY DEF StealFresh, Got
<1>3. start[v] \in Int /\ end[v] \in Int /\ start[v] <= end[v]
  BY <1>1, <1>2 DEF TypeOK, HasFresh
<1>4. end[v] \in Fresh(v) /\ Fresh(v)' = Fresh(v) \ {end[v]}
  <2>1. end'[v] = end[v] - 1 /\ start'[v] = start[v]
    BY <1>1, <1>2 DEF TypeOK
  <2> QED
    BY <1>3, <2>1 DEF Fresh
<1>5. \A b \in Worker \ {v} : Fresh(b)' = Fresh(b)
  BY <1>1, <1>2 DEF TypeOK, Fresh
<1>6. end[v] \in Segment
  BY <1>1, <1>4 DEF Inv, Apart
<1>7. TypeOK'
  <2>1. end[v] - 1 \in -2 .. Segments - 1
    BY <1>6 DEF Segment
  <2> QED
    BY <1>1, <1>2, <1>6, <2>1 DEF TypeOK
<1> QED
  BY <1>1, <1>2, <1>4, <1>5, <1>7 DEF TakesFresh

(* Taking the head of any queue of failed segments.                         *)
LEMMA TakeHead ==
  ASSUME Inv, NEW w \in Worker, NEW v \in Worker,
         failed[v] # <<>>, pc[w] \in {"idle", "scan"},
         Got(w, Head(failed[v]), "waiting"),
         failed' = [failed EXCEPT ![v] = Tail(@)],
         UNCHANGED <<start, end, fails, unripe, finished>>
  PROVE  TakesFailed(w, v, Head(failed[v])) /\ TypeOK'
<1> DEFINE s == Head(failed[v])
<1>1. TypeOK /\ failed[v] \in Seq(Segment) /\ NoRepeats(failed[v])
  BY DEF Inv, TypeOK, Apart
<1>2. failed'[v] = Tail(failed[v]) /\ \A b \in Worker \ {v} : failed'[b] = failed[b]
  BY <1>1 DEF TypeOK
<1>3. /\ s \in Segment
      /\ Tail(failed[v]) \in Seq(Segment)
      /\ s \in FailedIn(v)
      /\ NoRepeats(failed'[v])
      /\ FailedIn(v)' = FailedIn(v) \ {s}
  <2>1. \A i, j \in 1 .. Len(failed[v]) : failed[v][i] = failed[v][j] => i = j
    BY <1>1 DEF NoRepeats
  <2>2. /\ Head(failed[v]) \in Segment
        /\ Tail(failed[v]) \in Seq(Segment)
        /\ {Tail(failed[v])[i] : i \in 1 .. Len(Tail(failed[v]))} =
             {failed[v][i] : i \in 1 .. Len(failed[v])} \ {Head(failed[v])}
        /\ Head(failed[v]) \in {failed[v][i] : i \in 1 .. Len(failed[v])}
        /\ \A i, j \in 1 .. Len(Tail(failed[v])) :
             Tail(failed[v])[i] = Tail(failed[v])[j] => i = j
    BY <1>1, <2>1, TailOfQueue
  <2>3. FailedIn(v) = {failed[v][i] : i \in 1 .. Len(failed[v])}
    BY DEF FailedIn
  <2>4. FailedIn(v)' = {Tail(failed[v])[i] : i \in 1 .. Len(Tail(failed[v]))}
    BY <1>2 DEF FailedIn
  <2>5. NoRepeats(failed'[v])
    BY <1>2, <2>2 DEF NoRepeats
  <2> QED
    BY <2>2, <2>3, <2>4, <2>5
<1>4. failed' \in [Worker -> Seq(Segment)]
  BY <1>1, <1>3 DEF TypeOK
<1>5. /\ hold' = [hold EXCEPT ![w] = s]
      /\ pc' = [pc EXCEPT ![w] = "waiting"]
      /\ UNCHANGED victim
  BY DEF Got
<1> HIDE DEF s
<1>6. TypeOK'
  BY <1>1, <1>3, <1>4, <1>5 DEF TypeOK
<1> QED
  BY <1>2, <1>3, <1>4, <1>5, <1>6 DEF TakesFailed, s

(* The owner takes the failed segment at the head of its queue.            *)
LEMMA TakeOwnFailedStep ==
  ASSUME Inv, NEW w \in Worker, TakeOwnFailed(w)
  PROVE  TakesFailed(w, w, Head(failed[w])) /\ TypeOK'
  BY TakeHead DEF TakeOwnFailed, HasFailed

(* A thief takes the failed segment at the head of another queue.          *)
LEMMA StealFailedStep ==
  ASSUME Inv, NEW w \in Worker, StealFailed(w)
  PROVE  /\ \E v \in Worker : TakesFailed(w, v, Head(failed[v]))
         /\ TypeOK'
<1>0. victim[w] \in Worker
  <2>1. victim[w] \in 0 .. Threads /\ victim[w] < Threads
    BY DEF Inv, TypeOK, StealFailed
  <2> QED
    BY <2>1 DEF Worker
<1> PICK v \in Worker : v = victim[w]
  BY <1>0
<1>1. v \in Worker
  OBVIOUS
<1>2. /\ failed[v] # <<>> /\ pc[w] = "scan"
      /\ Got(w, Head(failed[v]), "waiting")
      /\ failed' = [failed EXCEPT ![v] = Tail(@)]
      /\ UNCHANGED <<start, end, fails, unripe, finished>>
  BY DEF StealFailed, StealsFailed, HasFailed
<1> QED
  BY <1>1, <1>2, TakeHead

(* RequeueFailed puts the held segment at the end of the holder's queue.   *)
LEMMA RequeueStep ==
  ASSUME Inv, NEW w \in Worker, RequeueFailed(w)
  PROVE  PutsBack(w, hold[w]) /\ TypeOK'
<1> DEFINE s == hold[w]
<1>1. TypeOK /\ failed[w] \in Seq(Segment) /\ NoRepeats(failed[w])
  BY DEF Inv, TypeOK, Apart
<1>2. s \in Segment /\ s \notin FailedIn(w) /\ pc[w] = "working"
  BY DEF Inv, TypeOK, HeldApart, Busy, RequeueFailed
<1>3. /\ failed' = [failed EXCEPT ![w] = Append(@, s)]
      /\ fails[s] < RequeueLimit
      /\ fails' = [fails EXCEPT ![s] = @ + 1]
      /\ unripe' = unripe \cup {s}
      /\ hold' = [hold EXCEPT ![w] = NoSegment]
      /\ pc' = [pc EXCEPT ![w] = "idle"]
      /\ UNCHANGED <<start, end, victim, finished>>
  BY DEF RequeueFailed, Got
<1> HIDE DEF s
<1>4. /\ failed'[w] = Append(failed[w], s)
      /\ \A b \in Worker \ {w} : failed'[b] = failed[b]
  BY <1>1, <1>3 DEF TypeOK
<1>5. /\ Append(failed[w], s) \in Seq(Segment)
      /\ NoRepeats(failed'[w])
      /\ FailedIn(w)' = FailedIn(w) \cup {s}
  BY <1>1, <1>2, <1>4, AppendToQueue DEF NoRepeats, FailedIn
<1>6. failed' \in [Worker -> Seq(Segment)]
  BY <1>1, <1>3, <1>5 DEF TypeOK
<1>7. fails' \in [Segment -> 0 .. RequeueLimit]
  BY <1>1, <1>2, <1>3 DEF TypeOK
<1>8. TypeOK'
  BY <1>1, <1>2, <1>3, <1>6, <1>7 DEF TypeOK
<1> QED
  BY <1>2, <1>3, <1>4, <1>5, <1>6, <1>8 DEF PutsBack, s

----------------------------------------------------------------------------
(* Each kind of step preserves the invariant. *)

(* Taking a fresh segment, from either end of a batch.                     *)
LEMMA TakesFreshInv ==
  ASSUME Inv, TypeOK', NEW w \in Worker, NEW v \in Worker, NEW s, TakesFresh(w, v, s)
  PROVE  Inv'
<1>1. TypeOK /\ Apart /\ HeldApart /\ NoOrphanedWork /\ DelayHonoured
  BY DEF Inv
<1>2. /\ pc[w] \in {"idle", "scan"}
      /\ s \in Fresh(v)
      /\ Fresh(v)' = Fresh(v) \ {s}
      /\ \A b \in Worker \ {v} : Fresh(b)' = Fresh(b)
      /\ hold' = [hold EXCEPT ![w] = s]
      /\ pc' = [pc EXCEPT ![w] = "working"]
      /\ UNCHANGED <<failed, unripe>>
  BY DEF TakesFresh
<1>3. \A b \in Worker : Fresh(b)' \subseteq Fresh(b) \ {s} /\ FailedIn(b)' = FailedIn(b)
  <2>1. \A b \in Worker : s \in Fresh(b) => b = v
    BY <1>1, <1>2 DEF Apart
  <2>2. \A b \in Worker : FailedIn(b)' = FailedIn(b)
    BY <1>2 DEF FailedIn
  <2> QED
    BY <1>2, <2>1, <2>2
<1>4. s \in Segment /\ s # NoSegment /\ s \notin unripe /\ \A b \in Worker : s \notin FailedIn(b)
  BY <1>1, <1>2 DEF Apart, Segment, NoSegment
<1>5. Apart'
  BY <1>1, <1>2, <1>3 DEF Apart
<1>6. \A u \in Worker : Busy(u) => u # w /\ hold[u] # s
  BY <1>1, <1>2 DEF HeldApart, Busy
<1>7. \A u \in Worker : hold'[u] = (IF u = w THEN s ELSE hold[u]) /\
                        (Busy(u)' <=> u = w \/ Busy(u))
  BY <1>1, <1>2 DEF TypeOK, Busy
<1>8. HeldApart'
  BY <1>1, <1>3, <1>4, <1>6, <1>7 DEF HeldApart
<1>9. NoOrphanedWork'
  <2> SUFFICES ASSUME NEW u \in Worker, pc'[u] \in {"scan", "done"}
               PROVE  ~HasFresh(u)' /\ failed'[u] = <<>>
    BY DEF NoOrphanedWork
  <2>1. ~HasFresh(u) /\ failed[u] = <<>> /\ u # w
    BY <1>1, <1>2 DEF TypeOK, NoOrphanedWork
  <2>2. Fresh(u) = {}
    <3>1. start[u] \in Int /\ end[u] \in Int
      BY <1>1 DEF TypeOK
    <3> QED
      BY <2>1, <3>1 DEF HasFresh, Fresh
  <2>3. Fresh(u)' = {}
    BY <1>3, <2>2
  <2>4. start'[u] \in Int /\ end'[u] \in Int
    BY DEF TypeOK
  <2> QED
    BY <1>2, <2>1, <2>3, <2>4 DEF HasFresh, Fresh
<1>10. DelayHonoured'
  BY <1>1, <1>2, <1>4 DEF TypeOK, DelayHonoured
<1> QED
  BY <1>5, <1>8, <1>9, <1>10 DEF Inv

(* Taking a failed segment, from any queue.                                *)
LEMMA TakesFailedInv ==
  ASSUME Inv, TypeOK', NEW w \in Worker, NEW v \in Worker, NEW s, TakesFailed(w, v, s)
  PROVE  Inv'
<1>1. TypeOK /\ Apart /\ HeldApart /\ NoOrphanedWork /\ DelayHonoured
  BY DEF Inv
<1>2. /\ pc[w] \in {"idle", "scan"}
      /\ s \in FailedIn(v) /\ failed[v] # <<>>
      /\ FailedIn(v)' = FailedIn(v) \ {s}
      /\ \A b \in Worker \ {v} : failed'[b] = failed[b]
      /\ NoRepeats(failed'[v])
      /\ hold' = [hold EXCEPT ![w] = s]
      /\ pc' = [pc EXCEPT ![w] = "waiting"]
      /\ UNCHANGED <<start, end, unripe>>
  BY DEF TakesFailed
<1>3. \A b \in Worker : Fresh(b)' = Fresh(b) /\ FailedIn(b)' \subseteq FailedIn(b) \ {s}
  <2>1. \A b \in Worker : s \in FailedIn(b) => b = v
    BY <1>1, <1>2 DEF Apart
  <2>2. \A b \in Worker : Fresh(b)' = Fresh(b)
    BY <1>2 DEF Fresh
  <2>3. \A b \in Worker \ {v} : FailedIn(b)' = FailedIn(b)
    BY <1>2 DEF FailedIn
  <2> QED
    BY <1>2, <2>1, <2>2, <2>3
<1>4. s \in Segment /\ s # NoSegment /\ \A b \in Worker : s \notin Fresh(b)
  <2>1. failed[v] \in Seq(Segment)
    BY <1>1 DEF TypeOK
  <2>2. s \in Segment
    BY <1>2, <2>1 DEF FailedIn
  <2>3. \A b \in Worker : s \notin Fresh(b)
    BY <1>1, <1>2 DEF Apart
  <2> QED
    BY <2>2, <2>3 DEF Segment, NoSegment
<1>5. Apart'
  <2>1. \A b \in Worker : NoRepeats(failed'[b])
    BY <1>1, <1>2 DEF Apart
  <2> QED
    BY <1>1, <1>2, <1>3, <2>1 DEF Apart
<1>6. \A u \in Worker : Busy(u) => u # w /\ hold[u] # s
  BY <1>1, <1>2 DEF HeldApart, Busy
<1>7. \A u \in Worker : hold'[u] = (IF u = w THEN s ELSE hold[u]) /\
                        (Busy(u)' <=> u = w \/ Busy(u))
  BY <1>1, <1>2 DEF TypeOK, Busy
<1>8. HeldApart'
  BY <1>1, <1>3, <1>4, <1>6, <1>7 DEF HeldApart
<1>9. NoOrphanedWork'
  <2>1. \A u \in Worker : pc'[u] \in {"scan", "done"} =>
          u # w /\ pc[u] \in {"scan", "done"} /\ u # v
    BY <1>1, <1>2 DEF TypeOK, NoOrphanedWork
  <2> QED
    BY <1>1, <1>2, <2>1 DEF NoOrphanedWork, HasFresh
<1>10. DelayHonoured'
  BY <1>1, <1>2 DEF TypeOK, DelayHonoured
<1> QED
  BY <1>5, <1>8, <1>9, <1>10 DEF Inv

(* Requeueing a segment, to the requeuer's own queue.                      *)
LEMMA PutsBackInv ==
  ASSUME Inv, TypeOK', NEW w \in Worker, NEW s, PutsBack(w, s)
  PROVE  Inv'
<1>1. TypeOK /\ Apart /\ HeldApart /\ NoOrphanedWork /\ DelayHonoured
  BY DEF Inv
<1>2. /\ pc[w] = "working" /\ hold[w] = s /\ s \in Segment
      /\ FailedIn(w)' = FailedIn(w) \cup {s}
      /\ \A b \in Worker \ {w} : failed'[b] = failed[b]
      /\ NoRepeats(failed'[w])
      /\ unripe' = unripe \cup {s}
      /\ hold' = [hold EXCEPT ![w] = NoSegment]
      /\ pc' = [pc EXCEPT ![w] = "idle"]
      /\ UNCHANGED <<start, end>>
  BY DEF PutsBack
<1>3. /\ \A b \in Worker : Fresh(b)' = Fresh(b)
      /\ \A b \in Worker \ {w} : FailedIn(b)' = FailedIn(b)
  BY <1>2 DEF Fresh, FailedIn
<1>4. \A b \in Worker : s \notin Fresh(b) /\ s \notin FailedIn(b)
  BY <1>1, <1>2 DEF HeldApart, Busy
<1>5. Apart'
  <2>1. \A b \in Worker : NoRepeats(failed'[b])
    BY <1>1, <1>2 DEF Apart
  <2>2. \A b \in Worker : \A x \in FailedIn(b)' : x \in FailedIn(b) \/ (b = w /\ x = s)
    BY <1>2, <1>3
  <2> QED
    BY <1>1, <1>2, <1>3, <1>4, <2>1, <2>2 DEF Apart
<1>6. \A u \in Worker : /\ hold'[u] = (IF u = w THEN NoSegment ELSE hold[u])
                        /\ Busy(u)' <=> u # w /\ Busy(u)
  BY <1>1, <1>2 DEF TypeOK, Busy
<1>7. \A u \in Worker : Busy(u) /\ u # w => hold[u] # s
  BY <1>1, <1>2 DEF HeldApart, Busy
<1>8. HeldApart'
  BY <1>1, <1>2, <1>3, <1>6, <1>7 DEF HeldApart
<1>9. NoOrphanedWork'
  <2>1. \A u \in Worker : pc'[u] \in {"scan", "done"} => u # w /\ pc[u] \in {"scan", "done"}
    BY <1>1, <1>2 DEF TypeOK
  <2> QED
    BY <1>1, <1>2, <2>1 DEF NoOrphanedWork, HasFresh
<1>10. DelayHonoured'
  BY <1>1, <1>2, <1>7 DEF TypeOK, DelayHonoured, Busy
<1> QED
  BY <1>5, <1>8, <1>9, <1>10 DEF Inv

(* Steps that leave all the batches alone.                                  *)
LEMMA BatchesKept ==
  ASSUME UNCHANGED batchVars
  PROVE  \A b \in Worker : /\ Fresh(b)' = Fresh(b)
                           /\ FailedIn(b)' = FailedIn(b)
                           /\ HasFresh(b)' <=> HasFresh(b)
                           /\ failed'[b] = failed[b]
  BY DEF batchVars, Fresh, FailedIn, HasFresh

(* The batches made at the start satisfy the invariant.                    *)
LEMMA InitInv == Init => Inv
<1> SUFFICES ASSUME Init PROVE Inv
  OBVIOUS
<1>1. \A b \in Worker : /\ start[b] = FirstOf(Segments, Threads, b)
                        /\ end[b] = LastOf(Segments, Threads, b)
                        /\ Fresh(b) = Batch(Segments, Threads, b)
                        /\ failed[b] = <<>> /\ FailedIn(b) = {}
                        /\ pc[b] = "idle" /\ hold[b] = NoSegment
  BY DEF Init, Fresh, Batch, FailedIn
<1>2. /\ Size(Segments, Threads) \in Nat \ {0}
      /\ FullBatches(Segments, Threads) \in 0 .. Threads - 1
      /\ FullBatches(Segments, Threads) * Size(Segments, Threads) <= Segments
  BY BatchBounds
<1>3. \A b \in Worker : \A s \in Fresh(b) : s \in Segment
  <2> TAKE b \in Worker
  <2> TAKE s \in Fresh(b)
  <2>0. FirstOf(Segments, Threads, b) \in Int /\ LastOf(Segments, Threads, b) \in Int
    BY <1>2 DEF FirstOf, LastOf, Worker
  <2>1. s \in Int /\ s \in Batch(Segments, Threads, b)
    BY <1>1, <2>0 DEF Batch
  <2>2. s < Segments /\ b * Size(Segments, Threads) <= s
    BY <2>1, InBatch DEF Worker
  <2>3. b * Size(Segments, Threads) \in Nat
    BY <1>2 DEF Worker
  <2> QED
    BY <2>1, <2>2, <2>3 DEF Segment
<1>4. \A b, c \in Worker : \A s \in Fresh(b) : s \in Fresh(c) => b = c
  BY <1>1, <1>3, BatchesDisjoint DEF Worker, Segment
<1>5. Apart
  BY <1>1, <1>3, <1>4 DEF Init, Apart, NoRepeats
<1>6. \A b \in Worker : start[b] \in -1 .. Segments /\ end[b] \in -2 .. Segments - 1
  <2> TAKE b \in Worker
  <2>1. Segments \in Nat /\ Threads \in Nat \ {0} /\ b \in Nat
    BY SegmentsAssumption, ThreadsAssumption DEF Worker
  <2>2. /\ FirstOf(Segments, Threads, b) \in -1 .. Segments
        /\ LastOf(Segments, Threads, b) \in -2 .. Segments - 1
    BY <2>1, BatchEnds
  <2> QED
    BY <1>1, <2>2
<1>7. TypeOK
  BY <1>6 DEF Init, TypeOK, Segment
<1>8. HeldApart /\ NoOrphanedWork /\ DelayHonoured
  BY <1>1 DEF HeldApart, Busy, NoOrphanedWork, DelayHonoured
<1> QED
  BY <1>5, <1>7, <1>8 DEF Inv

(* Every step of the scheduler preserves the invariant.                    *)
LEMMA StepInv == Inv /\ [Next]_vars => Inv'
<1> SUFFICES ASSUME Inv, [Next]_vars
             PROVE  Inv'
  OBVIOUS
<1>0. TypeOK /\ Apart /\ HeldApart /\ NoOrphanedWork /\ DelayHonoured
  BY DEF Inv
<1>1. ASSUME NEW w \in Worker, TakeOwn(w) PROVE Inv'
  BY <1>1, TakeOwnStep, TakesFreshInv
<1>2. ASSUME NEW w \in Worker, TakeOwnFailed(w) PROVE Inv'
  BY <1>2, TakeOwnFailedStep, TakesFailedInv
<1>3. ASSUME NEW w \in Worker, StartScan(w) PROVE Inv'
  <2>1. UNCHANGED batchVars /\ UNCHANGED <<fails, unripe, hold, finished>>
    BY <1>3 DEF StartScan
  <2>2. TypeOK' /\ DelayHonoured'
    <3>1. After(w, -1) \in 0 .. Threads
      BY DEF After, Worker
    <3>2. pc' = [pc EXCEPT ![w] = "scan"] /\ victim' = [victim EXCEPT ![w] = After(w, -1)]
      BY <1>3 DEF StartScan
    <3> QED
      BY <1>0, <2>1, <3>1, <3>2 DEF TypeOK, DelayHonoured, batchVars
  <2>3. Apart' /\ HeldApart'
    BY <1>0, <1>3, <2>1, BatchesKept DEF StartScan, TypeOK, Apart, HeldApart, Busy
  <2>4. NoOrphanedWork'
    BY <1>0, <1>3, <2>1, BatchesKept
    DEF StartScan, TypeOK, NoOrphanedWork, Drained, HasFailed
  <2> QED
    BY <2>2, <2>3, <2>4 DEF Inv
<1>4. ASSUME NEW w \in Worker, StealFailed(w) PROVE Inv'
  BY <1>4, StealFailedStep, TakesFailedInv
<1>5. ASSUME NEW w \in Worker, StealFresh(w) PROVE Inv'
  BY <1>5, StealFreshStep, TakesFreshInv
<1>6. ASSUME NEW w \in Worker, StealNothing(w) PROVE Inv'
  <2>1. UNCHANGED batchVars /\ UNCHANGED <<fails, unripe, pc, hold, finished>>
    BY <1>6 DEF StealNothing
  <2>2. TypeOK' /\ DelayHonoured'
    <3>1. After(w, victim[w]) \in 0 .. Threads
      <4>1. victim[w] \in 0 .. Threads /\ victim[w] < Threads
        BY <1>0, <1>6 DEF StealNothing, TypeOK
      <4> QED
        BY <4>1 DEF After, Worker
    <3>2. victim' = [victim EXCEPT ![w] = After(w, victim[w])]
      BY <1>6 DEF StealNothing
    <3> QED
      BY <1>0, <2>1, <3>1, <3>2 DEF TypeOK, DelayHonoured, batchVars
  <2>3. Apart' /\ HeldApart' /\ NoOrphanedWork'
    BY <1>0, <2>1, BatchesKept DEF Apart, HeldApart, NoOrphanedWork, Busy
  <2> QED
    BY <2>2, <2>3 DEF Inv
<1>7. ASSUME NEW w \in Worker, NoMoreWork(w) PROVE Inv'
  <2>1. UNCHANGED batchVars /\ UNCHANGED <<fails, unripe, victim, hold, finished>>
    BY <1>7 DEF NoMoreWork
  <2>2. TypeOK' /\ DelayHonoured'
    BY <1>0, <1>7, <2>1 DEF NoMoreWork, TypeOK, DelayHonoured, batchVars
  <2>3. Apart' /\ HeldApart' /\ NoOrphanedWork'
    BY <1>0, <1>7, <2>1, BatchesKept
    DEF NoMoreWork, TypeOK, Apart, HeldApart, NoOrphanedWork, Busy
  <2> QED
    BY <2>2, <2>3 DEF Inv
<1>8. ASSUME NEW w \in Worker, WaitOver(w) PROVE Inv'
  <2>1. UNCHANGED batchVars /\ UNCHANGED <<fails, unripe, victim, hold, finished>>
    BY <1>8 DEF WaitOver
  <2>2. TypeOK' /\ DelayHonoured'
    BY <1>0, <1>8, <2>1 DEF WaitOver, TypeOK, DelayHonoured, batchVars
  <2>3. pc[w] = "waiting" /\ pc' = [pc EXCEPT ![w] = "working"]
    BY <1>8 DEF WaitOver
  <2>4. Apart'
    BY <1>0, <2>1, BatchesKept DEF Apart
  <2>5. NoOrphanedWork' /\ HeldApart'
    <3>1. start' = start /\ end' = end /\ failed' = failed /\ hold' = hold
      BY <2>1 DEF batchVars
    <3>2. \A v \in Worker : IF v = w THEN pc[v] = "waiting" /\ pc'[v] = "working"
                            ELSE pc'[v] = pc[v]
      BY <1>0, <2>3 DEF TypeOK
    <3>3. NoOrphanedWork'
      BY <1>0, <3>1, <3>2 DEF NoOrphanedWork, HasFresh
    <3>4. \A v \in Worker : pc'[v] \in {"waiting", "working"} <=> pc[v] \in {"waiting", "working"}
      BY <3>2
    <3>5. HeldApart'
      BY <1>0, <3>1, <3>4 DEF HeldApart, Busy, Fresh, FailedIn
    <3> QED
      BY <3>3, <3>5
  <2> QED
    BY <2>2, <2>4, <2>5 DEF Inv
<1>9. ASSUME NEW w \in Worker, RequeueFailed(w) PROVE Inv'
  BY <1>9, RequeueStep, PutsBackInv
<1>10. ASSUME NEW w \in Worker, Finish(w) PROVE Inv'
  <2>1. /\ UNCHANGED batchVars /\ UNCHANGED <<fails, unripe, victim>>
        /\ hold[w] \in Segment
        /\ hold' = [hold EXCEPT ![w] = NoSegment]
        /\ pc' = [pc EXCEPT ![w] = "idle"]
        /\ finished' = finished \cup {hold[w]}
    BY <1>0, <1>10 DEF Finish, Got, TypeOK, HeldApart, Busy
  <2>2. TypeOK' /\ DelayHonoured'
    BY <1>0, <2>1 DEF TypeOK, DelayHonoured, batchVars
  <2>3. Apart' /\ NoOrphanedWork'
    BY <1>0, <2>1, BatchesKept DEF TypeOK, Apart, NoOrphanedWork
  <2>4. HeldApart'
    BY <1>0, <2>1, BatchesKept DEF TypeOK, HeldApart, Busy
  <2> QED
    BY <2>2, <2>3, <2>4 DEF Inv
<1>11. ASSUME NEW s \in Segment, DelayElapses(s) PROVE Inv'
  <2>1. UNCHANGED batchVars /\ UNCHANGED <<fails, workerVars, finished>>
        /\ unripe' = unripe \ {s}
    BY <1>11 DEF DelayElapses
  <2>2. TypeOK' /\ DelayHonoured'
    BY <1>0, <2>1 DEF TypeOK, DelayHonoured, batchVars, workerVars
  <2>3. Apart' /\ HeldApart' /\ NoOrphanedWork'
    BY <1>0, <2>1, BatchesKept DEF Apart, HeldApart, NoOrphanedWork, Busy, workerVars
  <2> QED
    BY <2>2, <2>3 DEF Inv
<1>12. CASE UNCHANGED vars
  <2>1. UNCHANGED batchVars /\ UNCHANGED <<fails, unripe, pc, victim, hold, finished>>
    BY <1>12 DEF vars, batchVars
  <2>2. TypeOK' /\ DelayHonoured'
    BY <1>0, <2>1 DEF TypeOK, DelayHonoured, batchVars
  <2>3. Apart' /\ HeldApart' /\ NoOrphanedWork'
    BY <1>0, <2>1, BatchesKept DEF Apart, HeldApart, NoOrphanedWork, Busy
  <2> QED
    BY <2>2, <2>3 DEF Inv
<1> QED
  BY <1>1, <1>2, <1>3, <1>4, <1>5, <1>6, <1>7, <1>8, <1>9, <1>10, <1>11, <1>12
  DEF Next, WorkerStep, Terminated

(* The inductive invariant of the out-of-order scheduler.                  *)
THEOREM Invariant == Spec => []Inv
  BY InitInv, StepInv, PTL DEF Spec

(* Type correctness.                                                        *)
THEOREM TypeCorrect == Spec => []TypeOK
<1>1. Inv => TypeOK
  BY DEF Inv
<1> QED
  BY <1>1, Invariant, PTL

(* The batch of a worker that scans the others, or has ended, stays empty.  *)
THEOREM BatchesKeepTheirOwner == Spec => []NoOrphanedWork
<1>1. Inv => NoOrphanedWork
  BY DEF Inv
<1> QED
  BY <1>1, Invariant, PTL

(* A segment waits for its retry at one place of one queue.                 *)
THEOREM RequeuedOnce == Spec => []FailedOnce
<1>1. Inv => FailedOnce
  BY ApartFailedOnce DEF Inv
<1> QED
  BY <1>1, Invariant, PTL

(* No worker starts a requeued segment before its delay is over.            *)
THEOREM WaitsForDelay == Spec => []DelayHonoured
<1>1. Inv => DelayHonoured
  BY DEF Inv
<1> QED
  BY <1>1, Invariant, PTL

----------------------------------------------------------------------------
(* The refinement *)

(* The scheduler starts as a pool with every segment queued.               *)
LEMMA InitPool == Init => Pool!PoolInit
<1> SUFFICES ASSUME Init PROVE Pool!PoolInit
  OBVIOUS
<1>1. \A b \in Worker : Fresh(b) = Batch(Segments, Threads, b) /\ FailedIn(b) = {}
  BY DEF Init, Fresh, Batch, FailedIn
<1>2. \A s \in Segment : s \in Queued
  <2> TAKE s \in Segment
  <2>1. \E b \in 0 .. Threads - 1 :
          \A c \in 0 .. Threads - 1 : s \in Batch(Segments, Threads, c) <=> c = b
    BY BatchesPartition DEF Segment
  <2>2. \E b \in Worker : s \in Fresh(b)
    BY <2>1, <1>1 DEF Worker
  <2> QED
    BY <2>2 DEF Queued
<1>3. \A s \in Queued : s \in Segment
  <2>1. Apart
    BY InitInv DEF Inv
  <2> QED
    BY <1>1, <2>1 DEF Queued, Apart
<1>4. {w \in Worker : pc[w] # "done"} = Worker
  BY DEF Init
<1> QED
  BY <1>2, <1>3, <1>4 DEF Init, Pool!PoolInit

(* Taking a fresh segment is the pool's Take.                              *)
LEMMA TakesFreshPool ==
  ASSUME Inv, NEW w \in Worker, NEW v \in Worker, NEW s, TakesFresh(w, v, s)
  PROVE  s \in Segment /\ Pool!Take(w, s)
<1>1. TypeOK /\ Apart /\ HeldApart
  BY DEF Inv
<1>2. /\ pc[w] \in {"idle", "scan"}
      /\ s \in Fresh(v)
      /\ Fresh(v)' = Fresh(v) \ {s}
      /\ \A b \in Worker \ {v} : Fresh(b)' = Fresh(b)
      /\ hold' = [hold EXCEPT ![w] = s]
      /\ pc' = [pc EXCEPT ![w] = "working"]
      /\ UNCHANGED <<failed, finished>>
  BY DEF TakesFresh
<1>3. \A b \in Worker : FailedIn(b)' = FailedIn(b)
  BY <1>2 DEF FailedIn
<1>4. \A b \in Worker : s \notin FailedIn(b) /\ (s \in Fresh(b) => b = v)
  BY <1>1, <1>2 DEF Apart
<1>5. \A b \in Worker : Fresh(b)' = Fresh(b) \ {s} /\ FailedIn(b)' = FailedIn(b) \ {s}
  BY <1>2, <1>3, <1>4
<1>6. s \in Queued /\ Queued' = Queued \ {s}
  BY <1>2, <1>5 DEF Queued
<1>7. {u \in Worker : pc'[u] # "done"} = {u \in Worker : pc[u] # "done"}
  BY <1>1, <1>2 DEF TypeOK
<1>8. hold[w] = NoSegment /\ pc[w] # "done" /\ s \in Segment
  BY <1>1, <1>2 DEF HeldApart, Busy, Apart
<1> QED
  BY <1>2, <1>6, <1>7, <1>8 DEF Pool!Take

(* Taking a failed segment is the pool's Take.                             *)
LEMMA TakesFailedPool ==
  ASSUME Inv, NEW w \in Worker, NEW v \in Worker, NEW s, TakesFailed(w, v, s)
  PROVE  s \in Segment /\ Pool!Take(w, s)
<1>1. TypeOK /\ Apart /\ HeldApart
  BY DEF Inv
<1>2. /\ pc[w] \in {"idle", "scan"}
      /\ s \in FailedIn(v)
      /\ FailedIn(v)' = FailedIn(v) \ {s}
      /\ \A b \in Worker \ {v} : failed'[b] = failed[b]
      /\ hold' = [hold EXCEPT ![w] = s]
      /\ pc' = [pc EXCEPT ![w] = "waiting"]
      /\ UNCHANGED <<start, end, finished>>
  BY DEF TakesFailed
<1>3. \A b \in Worker : Fresh(b)' = Fresh(b)
  BY <1>2 DEF Fresh
<1>4. \A b \in Worker \ {v} : FailedIn(b)' = FailedIn(b)
  BY <1>2 DEF FailedIn
<1>5. \A b \in Worker : s \notin Fresh(b) /\ (s \in FailedIn(b) => b = v)
  BY <1>1, <1>2 DEF Apart
<1>6. \A b \in Worker : Fresh(b)' = Fresh(b) \ {s} /\ FailedIn(b)' = FailedIn(b) \ {s}
  BY <1>2, <1>3, <1>4, <1>5
<1>7. s \in Queued /\ Queued' = Queued \ {s}
  BY <1>2, <1>6 DEF Queued
<1>8. {u \in Worker : pc'[u] # "done"} = {u \in Worker : pc[u] # "done"}
  BY <1>1, <1>2 DEF TypeOK
<1>9. hold[w] = NoSegment /\ pc[w] # "done" /\ s \in Segment
  <2>1. failed[v] \in Seq(Segment)
    BY <1>1 DEF TypeOK
  <2> QED
    BY <1>1, <1>2, <2>1 DEF HeldApart, Busy, FailedIn
<1> QED
  BY <1>2, <1>7, <1>8, <1>9 DEF Pool!Take

(* Requeueing a segment is the pool's Requeue.                             *)
LEMMA PutsBackPool ==
  ASSUME Inv, NEW w \in Worker, NEW s, PutsBack(w, s)
  PROVE  Pool!Requeue(w)
<1>1. TypeOK
  BY DEF Inv
<1>2. /\ pc[w] = "working" /\ hold[w] = s /\ s \in Segment
      /\ FailedIn(w)' = FailedIn(w) \cup {s}
      /\ \A b \in Worker \ {w} : failed'[b] = failed[b]
      /\ hold' = [hold EXCEPT ![w] = NoSegment]
      /\ pc' = [pc EXCEPT ![w] = "idle"]
      /\ UNCHANGED <<start, end, finished>>
  BY DEF PutsBack
<1>3. /\ \A b \in Worker : Fresh(b)' = Fresh(b)
      /\ \A b \in Worker \ {w} : FailedIn(b)' = FailedIn(b)
  BY <1>2 DEF Fresh, FailedIn
<1>4. Queued' = Queued \cup {s}
  BY <1>2, <1>3 DEF Queued
<1>5. {u \in Worker : pc'[u] # "done"} = {u \in Worker : pc[u] # "done"}
  BY <1>1, <1>2 DEF TypeOK
<1>6. s # NoSegment
  BY <1>2 DEF Segment, NoSegment
<1> QED
  BY <1>2, <1>4, <1>5, <1>6 DEF Pool!Requeue

(* The worker that reports "no more work" last has, like all the others,    *)
(* left its own batch empty: nothing is queued.                             *)
LEMMA NoMoreWorkPool ==
  ASSUME Inv, NEW w \in Worker, NoMoreWork(w)
  PROVE  Pool!Leave(w)
<1> DEFINE live == {u \in Worker : pc[u] # "done"}
<1>1. TypeOK /\ HeldApart /\ NoOrphanedWork
  BY DEF Inv
<1>2. /\ pc[w] = "scan" /\ pc' = [pc EXCEPT ![w] = "done"]
      /\ UNCHANGED <<batchVars, hold, finished>>
  BY DEF NoMoreWork
<1>3. Queued' = Queued
  BY <1>2 DEF batchVars, Queued, Fresh, FailedIn
<1>4. w \in live /\ live' = live \ {w} /\ hold[w] = NoSegment
  BY <1>1, <1>2 DEF TypeOK, HeldApart, Busy
<1>5. ASSUME live \ {w} = {}
      PROVE  Queued = {}
  <2>1. \A u \in Worker : pc[u] \in {"scan", "done"}
    BY <1>2, <1>5
  <2>2. \A u \in Worker : ~HasFresh(u) /\ failed[u] = <<>>
    BY <1>1, <2>1 DEF NoOrphanedWork
  <2>3. ASSUME NEW u \in Worker
        PROVE  Fresh(u) = {} /\ FailedIn(u) = {}
    <3>1. start[u] \in Int /\ end[u] \in Int
      BY <1>1 DEF TypeOK
    <3>2. Fresh(u) = {}
      BY <2>2, <3>1 DEF HasFresh, Fresh
    <3>3. FailedIn(u) = {}
      BY <2>2 DEF FailedIn
    <3> QED
      BY <3>2, <3>3
  <2> QED
    BY <2>3 DEF Queued
<1> QED
  BY <1>2, <1>3, <1>4, <1>5 DEF Pool!Leave

(* A step that changes neither the batches nor what the workers hold.       *)
LEMMA NothingMoves ==
  ASSUME Inv, UNCHANGED <<batchVars, hold, finished>>,
         {u \in Worker : pc'[u] # "done"} = {u \in Worker : pc[u] # "done"}
  PROVE  UNCHANGED Pool!poolVars
<1>1. Queued' = Queued
  BY DEF batchVars, Queued, Fresh, FailedIn
<1> QED
  BY <1>1 DEF Pool!poolVars

(* Every step of the scheduler is a step of the pool or leaves it alone.   *)
LEMMA StepPool == Inv /\ [Next]_vars => [Pool!PoolNext]_Pool!poolVars
<1> SUFFICES ASSUME Inv, [Next]_vars
             PROVE  Pool!PoolNext \/ UNCHANGED Pool!poolVars
  OBVIOUS
<1>0. TypeOK /\ HeldApart
  BY DEF Inv
<1>1. ASSUME NEW w \in Worker, TakeOwn(w) PROVE Pool!PoolNext
  BY <1>1, TakeOwnStep, TakesFreshPool DEF Pool!PoolNext
<1>2. ASSUME NEW w \in Worker, TakeOwnFailed(w) PROVE Pool!PoolNext
  BY <1>2, TakeOwnFailedStep, TakesFailedPool DEF Pool!PoolNext
<1>3. ASSUME NEW w \in Worker, StartScan(w) PROVE UNCHANGED Pool!poolVars
  BY <1>0, <1>3, NothingMoves DEF StartScan, TypeOK
<1>4. ASSUME NEW w \in Worker, StealFailed(w) PROVE Pool!PoolNext
  BY <1>4, StealFailedStep, TakesFailedPool DEF Pool!PoolNext
<1>5. ASSUME NEW w \in Worker, StealFresh(w) PROVE Pool!PoolNext
  BY <1>5, StealFreshStep, TakesFreshPool DEF Pool!PoolNext
<1>6. ASSUME NEW w \in Worker, StealNothing(w) PROVE UNCHANGED Pool!poolVars
  BY <1>6, NothingMoves DEF StealNothing
<1>7. ASSUME NEW w \in Worker, NoMoreWork(w) PROVE Pool!PoolNext
  BY <1>7, NoMoreWorkPool DEF Pool!PoolNext
<1>8. ASSUME NEW w \in Worker, WaitOver(w) PROVE UNCHANGED Pool!poolVars
  BY <1>0, <1>8, NothingMoves DEF WaitOver, TypeOK
<1>9. ASSUME NEW w \in Worker, RequeueFailed(w) PROVE Pool!PoolNext
  BY <1>9, RequeueStep, PutsBackPool DEF Pool!PoolNext
<1>10. ASSUME NEW w \in Worker, Finish(w) PROVE Pool!PoolNext
  <2>1. /\ UNCHANGED batchVars
        /\ pc[w] = "working" /\ pc' = [pc EXCEPT ![w] = "idle"]
        /\ hold[w] # NoSegment
        /\ hold' = [hold EXCEPT ![w] = NoSegment]
        /\ finished' = finished \cup {hold[w]}
    BY <1>0, <1>10 DEF Finish, Got, HeldApart, Busy
  <2>2. Queued' = Queued
    BY <2>1 DEF batchVars, Queued, Fresh, FailedIn
  <2>3. {u \in Worker : pc'[u] # "done"} = {u \in Worker : pc[u] # "done"}
    BY <1>0, <2>1 DEF TypeOK
  <2> QED
    BY <2>1, <2>2, <2>3 DEF Pool!PoolNext, Pool!Finish
<1>11. ASSUME NEW s \in Segment, DelayElapses(s) PROVE UNCHANGED Pool!poolVars
  BY <1>11, NothingMoves DEF DelayElapses, workerVars
<1>12. CASE UNCHANGED vars
  BY <1>12, NothingMoves DEF vars, batchVars
<1> QED
  BY <1>1, <1>2, <1>3, <1>4, <1>5, <1>6, <1>7, <1>8, <1>9, <1>10, <1>11, <1>12
  DEF Next, WorkerStep, Terminated

(* The out-of-order scheduler is a pool of segments.                        *)
THEOREM ImplementsThePool == Spec => ImplementsPool
  BY InitPool, StepPool, Invariant, PTL DEF Spec, ImplementsPool, Pool!PoolSpec

----------------------------------------------------------------------------
(* From the split to the scheduler *)

(* The batches the workers start with are those that were made.             *)
StartsWithSplit ==
  Init /\ stage = "done" /\ segments = Segments /\ threads = Threads =>
    /\ Len(batches) = Threads
    /\ \A w \in Worker : batches[w + 1] = [start |-> start[w], end |-> end[w]]

(* What makeBatchedScheduler returns is the initial state of the scheduler: *)
(* Init, which gives the batches in closed form, leaves nothing out of what *)
(* the loops do.                                                            *)
THEOREM SplitMakesInit == SplitSpec => []StartsWithSplit
<1>1. ClosedForm => StartsWithSplit
  <2> SUFFICES ASSUME ClosedForm, Init, stage = "done",
                      segments = Segments, threads = Threads
               PROVE  /\ Len(batches) = Threads
                      /\ \A w \in Worker :
                           batches[w + 1] = [start |-> start[w], end |-> end[w]]
    BY DEF StartsWithSplit
  <2>1. Len(batches) = Threads
    BY DEF ClosedForm
  <2>2. ASSUME NEW w \in Worker
        PROVE  batches[w + 1] = [start |-> start[w], end |-> end[w]]
    <3>1. batches[w + 1] = [start |-> FirstOf(Segments, Threads, w),
                            end |-> LastOf(Segments, Threads, w)]
      BY DEF ClosedForm, Worker
    <3>2. start[w] = FirstOf(Segments, Threads, w) /\ end[w] = LastOf(Segments, Threads, w)
      BY DEF Init
    <3> QED
      BY <3>1, <3>2
  <2> QED
    BY <2>1, <2>2
<1> QED
  BY <1>1, SplitClosedForm, PTL
=============================================================================
