---------------------- MODULE SequentialSchedulerProofs ----------------------
(* The sequential scheduler implements the abstract pool of segments, and a *)
(* requeued segment is not started before its delay is over, for any number *)
(* of segments, any threads and any number of requeues.                     *)
EXTENDS SequentialScheduler, SchedulerLemmas, TLAPS

USE MaxAssumption, RequeueLimitAssumption, WorkersAssumption

(* What a worker has taken is in nobody else's hands and in no queue, and   *)
(* comes from before the shared counter.                                    *)
Busy(w) == pc[w] \in {"waiting", "working"}

HeldApart ==
  /\ \A w \in Worker : Busy(w) <=> hold[w] # NoSegment
  /\ \A w \in Worker : Busy(w) => hold[w] < next /\ hold[w] \notin Failed
  /\ \A v, w \in Worker : Busy(v) /\ hold[v] = hold[w] => v = w

(* Only what was fetched once can be requeued.                              *)
RequeuedBefore == Failed \cup unripe \subseteq 0 .. next - 1

Inv ==
  /\ TypeOK
  /\ HeldApart
  /\ RequeuedBefore
  /\ FailedOnce
  /\ DelayHonoured

----------------------------------------------------------------------------

(* What taking and requeueing a failed segment do to the queue.             *)
LEMMA TakeFailedQueue ==
  ASSUME Inv, NEW w \in Worker, TakeFailed(w)
  PROVE  /\ Head(failed) \in Segment
         /\ failed' \in Seq(Segment)
         /\ Failed' = Failed \ {Head(failed)}
         /\ Head(failed) \in Failed
         /\ FailedOnce'
<1>1. failed \in Seq(Segment) /\ failed # <<>> /\ failed' = Tail(failed)
  BY DEF Inv, TypeOK, TakeFailed
<1>2. \A i, j \in 1 .. Len(failed) : failed[i] = failed[j] => i = j
  BY DEF Inv, FailedOnce
<1> QED
  BY <1>1, <1>2, TailOfQueue DEF Failed, FailedOnce

(* Requeueing appends the segment, which was not in the queue.             *)
LEMMA RequeueFailedQueue ==
  ASSUME Inv, NEW w \in Worker, RequeueFailed(w)
  PROVE  /\ hold[w] \in Segment /\ hold[w] \notin Failed /\ hold[w] < next
         /\ failed' \in Seq(Segment)
         /\ Failed' = Failed \cup {hold[w]}
         /\ FailedOnce'
<1>1. failed \in Seq(Segment) /\ failed' = Append(failed, hold[w])
  BY DEF Inv, TypeOK, RequeueFailed
<1>2. \A i, j \in 1 .. Len(failed) : failed[i] = failed[j] => i = j
  BY DEF Inv, FailedOnce
<1>3. hold[w] \in Segment /\ hold[w] \notin Failed /\ hold[w] < next
  BY DEF Inv, TypeOK, HeldApart, Busy, RequeueFailed
<1>4. hold[w] \notin {failed[i] : i \in 1 .. Len(failed)}
  BY <1>3 DEF Failed
<1> QED
  BY <1>1, <1>2, <1>3, <1>4, AppendToQueue DEF Failed, FailedOnce

(* The initial state satisfies the invariant.                              *)
LEMMA InitInv == Init => Inv
<1> SUFFICES ASSUME Init PROVE Inv
  OBVIOUS
<1>1. next = 0 /\ failed = <<>> /\ unripe = {}
  BY DEF Init
<1>2. TypeOK
  BY DEF Init, TypeOK, Segment, NoSegment
<1>3. HeldApart
  BY DEF Init, HeldApart, Busy
<1>4. RequeuedBefore /\ FailedOnce /\ DelayHonoured
  <2>1. Failed = {} /\ FailedOnce
    BY <1>1 DEF Failed, FailedOnce
  <2> QED
    BY <1>1, <2>1 DEF RequeuedBefore, DelayHonoured
<1> QED
  BY <1>2, <1>3, <1>4 DEF Inv

(* Every step of the scheduler preserves the invariant.                    *)
LEMMA StepInv == Inv /\ [Next]_vars => Inv'
<1> SUFFICES ASSUME Inv, [Next]_vars
             PROVE  Inv'
  OBVIOUS
<1>0. TypeOK /\ HeldApart /\ RequeuedBefore /\ FailedOnce /\ DelayHonoured
  BY DEF Inv
<1>1. ASSUME NEW w \in Worker, TakeNext(w)
      PROVE  Inv'
  <2>1. next \in Segment /\ next \notin Failed /\ next \notin unripe
    BY <1>0, <1>1 DEF TakeNext, HasNext, TypeOK, RequeuedBefore, Segment
  <2>2. Failed' = Failed /\ (FailedOnce <=> FailedOnce')
    BY <1>1 DEF TakeNext, Failed, FailedOnce
  <2>3. TypeOK'
    BY <1>0, <1>1, <2>1 DEF TakeNext, TypeOK, Segment
  <2>4. HeldApart'
    BY <1>0, <1>1, <2>1, <2>2
    DEF TakeNext, TypeOK, HeldApart, Busy, Segment, NoSegment
  <2>5. RequeuedBefore' /\ DelayHonoured'
    BY <1>0, <1>1, <2>1, <2>2
    DEF TakeNext, TypeOK, RequeuedBefore, DelayHonoured
  <2> QED
    BY <1>0, <2>2, <2>3, <2>4, <2>5 DEF Inv
<1>2. ASSUME NEW w \in Worker, TakeFailed(w)
      PROVE  Inv'
  <2> DEFINE s == Head(failed)
  <2>1. /\ s \in Segment
        /\ failed' \in Seq(Segment)
        /\ Failed' = Failed \ {s}
        /\ s \in Failed
        /\ FailedOnce'
    BY <1>2, TakeFailedQueue
  <2>2. /\ hold' = [hold EXCEPT ![w] = s]
        /\ pc' = [pc EXCEPT ![w] = "waiting"]
        /\ pc[w] = "idle"
        /\ UNCHANGED <<next, fails, unripe, finished>>
    BY <1>2 DEF TakeFailed
  <2> HIDE DEF s
  <2>3. TypeOK'
    BY <1>0, <2>1, <2>2 DEF TypeOK
  <2>4. HeldApart'
    BY <1>0, <2>1, <2>2
    DEF TypeOK, HeldApart, RequeuedBefore, Busy, Segment, NoSegment
  <2>5. RequeuedBefore' /\ DelayHonoured'
    BY <1>0, <2>1, <2>2 DEF TypeOK, RequeuedBefore, DelayHonoured
  <2> QED
    BY <2>1, <2>3, <2>4, <2>5 DEF Inv
<1>3. ASSUME NEW w \in Worker, WaitOver(w)
      PROVE  Inv'
  <2>1. Failed' = Failed /\ (FailedOnce <=> FailedOnce')
    BY <1>3 DEF WaitOver, Failed, FailedOnce
  <2>2. TypeOK' /\ RequeuedBefore' /\ DelayHonoured'
    BY <1>0, <1>3, <2>1 DEF WaitOver, TypeOK, RequeuedBefore, DelayHonoured
  <2>3. HeldApart'
    BY <1>0, <1>3, <2>1 DEF WaitOver, TypeOK, HeldApart, Busy
  <2> QED
    BY <1>0, <2>1, <2>2, <2>3 DEF Inv
<1>4. ASSUME NEW w \in Worker, NoMoreWork(w)
      PROVE  Inv'
  <2>1. Failed' = Failed /\ (FailedOnce <=> FailedOnce')
    BY <1>4 DEF NoMoreWork, Failed, FailedOnce
  <2>2. TypeOK' /\ RequeuedBefore' /\ DelayHonoured'
    BY <1>0, <1>4, <2>1 DEF NoMoreWork, TypeOK, RequeuedBefore, DelayHonoured
  <2>3. HeldApart'
    BY <1>0, <1>4, <2>1 DEF NoMoreWork, TypeOK, HeldApart, Busy
  <2> QED
    BY <1>0, <2>1, <2>2, <2>3 DEF Inv
<1>5. ASSUME NEW w \in Worker, RequeueFailed(w)
      PROVE  Inv'
  <2> DEFINE s == hold[w]
  <2>1. /\ s \in Segment /\ s \notin Failed /\ s < next
        /\ failed' \in Seq(Segment)
        /\ Failed' = Failed \cup {s}
        /\ FailedOnce'
    BY <1>5, RequeueFailedQueue
  <2>2. /\ hold' = [hold EXCEPT ![w] = NoSegment]
        /\ pc' = [pc EXCEPT ![w] = "idle"]
        /\ fails[s] < RequeueLimit
        /\ fails' = [fails EXCEPT ![s] = @ + 1]
        /\ unripe' = unripe \cup {s}
        /\ UNCHANGED <<next, finished>>
    BY <1>5 DEF RequeueFailed
  <2>3. \A v \in Worker : Busy(v)' => /\ Busy(v) /\ v # w
                                      /\ hold'[v] = hold[v] /\ hold[v] # s
    BY <1>0, <1>5 DEF RequeueFailed, TypeOK, HeldApart, Busy
  <2> HIDE DEF s
  <2>4. TypeOK'
    <3>1. fails' \in [Segment -> 0 .. RequeueLimit]
      BY <1>0, <2>1, <2>2 DEF TypeOK
    <3> QED
      BY <1>0, <2>1, <2>2, <3>1 DEF TypeOK
  <2>5. HeldApart'
    BY <1>0, <2>1, <2>2, <2>3 DEF TypeOK, HeldApart, Busy
  <2>6. RequeuedBefore'
    BY <1>0, <2>1, <2>2 DEF TypeOK, RequeuedBefore, Segment
  <2>7. DelayHonoured'
    BY <1>0, <2>2, <2>3 DEF TypeOK, DelayHonoured, Busy
  <2> QED
    BY <2>1, <2>4, <2>5, <2>6, <2>7 DEF Inv
<1>6. ASSUME NEW w \in Worker, Finish(w)
      PROVE  Inv'
  <2>1. Failed' = Failed /\ (FailedOnce <=> FailedOnce')
    BY <1>6 DEF Finish, Failed, FailedOnce
  <2>2. hold[w] \in Segment
    BY <1>0, <1>6 DEF Finish, TypeOK, HeldApart, Busy
  <2>3. TypeOK' /\ RequeuedBefore' /\ DelayHonoured'
    BY <1>0, <1>6, <2>1, <2>2 DEF Finish, TypeOK, RequeuedBefore, DelayHonoured
  <2>4. HeldApart'
    BY <1>0, <1>6, <2>1 DEF Finish, TypeOK, HeldApart, Busy
  <2> QED
    BY <1>0, <2>1, <2>3, <2>4 DEF Inv
<1>7. ASSUME NEW s \in Segment, DelayElapses(s)
      PROVE  Inv'
  <2>1. Failed' = Failed /\ (FailedOnce <=> FailedOnce')
    BY <1>7 DEF DelayElapses, Failed, FailedOnce
  <2>2. TypeOK' /\ RequeuedBefore' /\ DelayHonoured'
    BY <1>0, <1>7, <2>1 DEF DelayElapses, TypeOK, RequeuedBefore, DelayHonoured
  <2>3. HeldApart'
    BY <1>0, <1>7, <2>1 DEF DelayElapses, HeldApart, Busy
  <2> QED
    BY <1>0, <2>1, <2>2, <2>3 DEF Inv
<1>8. CASE UNCHANGED vars
  BY <1>0, <1>8
  DEF vars, Inv, TypeOK, HeldApart, RequeuedBefore, FailedOnce, DelayHonoured,
      Busy, Failed
<1> QED
  BY <1>1, <1>2, <1>3, <1>4, <1>5, <1>6, <1>7, <1>8 DEF Next, WorkerStep, Terminated

(* The inductive invariant of the sequential scheduler.                    *)
THEOREM Invariant == Spec => []Inv
  BY InitInv, StepInv, PTL DEF Spec

(* Type correctness.                                                        *)
THEOREM TypeCorrect == Spec => []TypeOK
<1>1. Inv => TypeOK
  BY DEF Inv
<1> QED
  BY <1>1, Invariant, PTL

(* A requeued segment is in the queue once, so its requeue count and its    *)
(* delay belong to that one entry.                                          *)
THEOREM RequeuedOnce == Spec => []FailedOnce
<1>1. Inv => FailedOnce
  BY DEF Inv
<1> QED
  BY <1>1, Invariant, PTL

(* No worker starts a requeued segment before its delay is over.            *)
THEOREM WaitsForDelay == Spec => []DelayHonoured
<1>1. Inv => DelayHonoured
  BY DEF Inv
<1> QED
  BY <1>1, Invariant, PTL

----------------------------------------------------------------------------

(* The scheduler starts as a pool with every segment queued.               *)
LEMMA InitPool == Init => Pool!PoolInit
<1> SUFFICES ASSUME Init PROVE Pool!PoolInit
  OBVIOUS
<1>1. Failed = {}
  BY DEF Init, Failed
<1> QED
  BY <1>1 DEF Init, Pool!PoolInit, Segment

(* Every step of the scheduler is one of the pool, or changes nothing that  *)
(* the pool knows of.                                                       *)
LEMMA StepPool == Inv /\ [Next]_vars => [Pool!PoolNext]_Pool!poolVars
<1> SUFFICES ASSUME Inv, [Next]_vars
             PROVE  [Pool!PoolNext]_Pool!poolVars
  OBVIOUS
<1> DEFINE queued == (next .. Max - 1) \cup Failed
           live == {w \in Worker : pc[w] # "done"}
<1>0. TypeOK /\ HeldApart /\ RequeuedBefore
  BY DEF Inv
<1>1. ASSUME NEW w \in Worker, TakeNext(w)
      PROVE  Pool!Take(w, next)
  <2>0. Failed' = Failed
    BY <1>1 DEF TakeNext, Failed
  <2>1. next \in Segment /\ next \notin Failed
    BY <1>0, <1>1 DEF TakeNext, HasNext, TypeOK, RequeuedBefore, Segment
  <2>2. next \in queued /\ queued' = queued \ {next}
    BY <1>0, <1>1, <2>0, <2>1 DEF TakeNext, TypeOK, Segment
  <2>3. w \in live /\ live' = live /\ hold[w] = NoSegment
    BY <1>0, <1>1 DEF TakeNext, TypeOK, HeldApart, Busy
  <2> QED
    BY <1>1, <2>2, <2>3 DEF TakeNext, Pool!Take
<1>2. ASSUME NEW w \in Worker, TakeFailed(w)
      PROVE  Pool!Take(w, Head(failed)) /\ Head(failed) \in Segment
  <2>1. /\ Head(failed) \in Segment
        /\ Failed' = Failed \ {Head(failed)}
        /\ Head(failed) \in Failed
    BY <1>2, TakeFailedQueue
  <2>2. Head(failed) \in queued /\ queued' = queued \ {Head(failed)}
    BY <1>0, <1>2, <2>1 DEF TakeFailed, HasNext, TypeOK
  <2>3. w \in live /\ live' = live /\ hold[w] = NoSegment
    BY <1>0, <1>2 DEF TakeFailed, TypeOK, HeldApart, Busy
  <2> QED
    BY <1>2, <2>1, <2>2, <2>3 DEF TakeFailed, Pool!Take
<1>3. ASSUME NEW w \in Worker, WaitOver(w)
      PROVE  UNCHANGED Pool!poolVars
  BY <1>0, <1>3 DEF WaitOver, TypeOK, Pool!poolVars, Failed
<1>4. ASSUME NEW w \in Worker, NoMoreWork(w)
      PROVE  Pool!Leave(w)
  <2>1. queued = {} /\ queued' = queued
    BY <1>0, <1>4 DEF NoMoreWork, HasNext, Failed, TypeOK
  <2>2. w \in live /\ live' = live \ {w} /\ hold[w] = NoSegment
    BY <1>0, <1>4 DEF NoMoreWork, TypeOK, HeldApart, Busy
  <2> QED
    BY <1>4, <2>1, <2>2 DEF NoMoreWork, Pool!Leave
<1>5. ASSUME NEW w \in Worker, RequeueFailed(w)
      PROVE  Pool!Requeue(w)
  <2>1. hold[w] \in Segment /\ Failed' = Failed \cup {hold[w]}
    BY <1>5, RequeueFailedQueue
  <2>3. queued' = queued \cup {hold[w]} /\ live' = live
    BY <1>0, <1>5, <2>1 DEF RequeueFailed, TypeOK
  <2> QED
    BY <1>5, <2>1, <2>3 DEF RequeueFailed, Pool!Requeue, Segment, NoSegment
<1>6. ASSUME NEW w \in Worker, Finish(w)
      PROVE  Pool!Finish(w)
  <2>1. hold[w] \in Segment
    BY <1>0, <1>6 DEF Finish, TypeOK, HeldApart, Busy
  <2>2. queued' = queued /\ live' = live
    BY <1>0, <1>6 DEF Finish, Failed, TypeOK
  <2> QED
    BY <1>6, <2>1, <2>2 DEF Finish, Pool!Finish, Segment, NoSegment
<1>7. ASSUME NEW s \in Segment, DelayElapses(s)
      PROVE  UNCHANGED Pool!poolVars
  BY <1>7 DEF DelayElapses, Pool!poolVars, Failed
<1>8. CASE UNCHANGED vars
  BY <1>8 DEF vars, Pool!poolVars, Failed
<1>9. ASSUME NEW w \in Worker, TakeNext(w) PROVE next \in Segment
  BY <1>0, <1>9 DEF TakeNext, HasNext, TypeOK, Segment
<1> QED
  BY <1>1, <1>2, <1>3, <1>4, <1>5, <1>6, <1>7, <1>8, <1>9
  DEF Next, WorkerStep, Terminated, Pool!PoolNext

(* The sequential scheduler is a pool of segments.                          *)
THEOREM ImplementsThePool == Spec => ImplementsPool
  BY InitPool, StepPool, Invariant, PTL DEF Spec, ImplementsPool, Pool!PoolSpec
=============================================================================
