---------------------------- MODULE SchedulerLemmas ----------------------------
(* Facts about the data of the two schedulers: queues of failed segments,   *)
(* and the batches of the out-of-order scheduler.                           *)
EXTENDS Batches, Sequences, TLAPS

(* What removing the head of a queue without repetitions, and appending to  *)
(* one, do to its set of elements.                                          *)
LEMMA TailOfQueue ==
  ASSUME NEW S, NEW q \in Seq(S), q # <<>>,
         \A i, j \in 1 .. Len(q) : q[i] = q[j] => i = j
  PROVE  /\ Head(q) \in S
         /\ Tail(q) \in Seq(S)
         /\ Len(Tail(q)) = Len(q) - 1
         /\ \A i \in 1 .. Len(Tail(q)) : Tail(q)[i] = q[i + 1] /\ Tail(q)[i] # Head(q)
         /\ {Tail(q)[i] : i \in 1 .. Len(Tail(q))} =
              {q[i] : i \in 1 .. Len(q)} \ {Head(q)}
         /\ Head(q) \in {q[i] : i \in 1 .. Len(q)}
         /\ \A i, j \in 1 .. Len(Tail(q)) : Tail(q)[i] = Tail(q)[j] => i = j
<1>1. Len(q) \in Nat \ {0} /\ Head(q) = q[1] /\ Head(q) \in S
  OBVIOUS
<1>2. Tail(q) \in Seq(S) /\ Len(Tail(q)) = Len(q) - 1
  OBVIOUS
<1>3. \A i \in 1 .. Len(Tail(q)) : Tail(q)[i] = q[i + 1] /\ Tail(q)[i] # Head(q)
  BY <1>1, <1>2
<1>4. {Tail(q)[i] : i \in 1 .. Len(Tail(q))} = {q[i] : i \in 1 .. Len(q)} \ {Head(q)}
  <2>1. \A i \in 1 .. Len(Tail(q)) : i + 1 \in 1 .. Len(q)
    BY <1>1, <1>2
  <2>2. \A i \in 1 .. Len(q) : q[i] # Head(q) =>
          i - 1 \in 1 .. Len(Tail(q)) /\ q[i] = Tail(q)[i - 1]
    BY <1>1, <1>2, <1>3
  <2>3. \A i \in 1 .. Len(q) : q[i] # Head(q) =>
          \E j \in 1 .. Len(Tail(q)) : q[i] = Tail(q)[j]
    BY <2>2
  <2>4. \A j \in 1 .. Len(Tail(q)) :
          Tail(q)[j] # Head(q) /\ \E i \in 1 .. Len(q) : Tail(q)[j] = q[i]
    BY <2>1, <1>3
  <2> DEFINE T == {Tail(q)[i] : i \in 1 .. Len(Tail(q))}
             Q == {q[i] : i \in 1 .. Len(q)}
  <2>5. ASSUME NEW j \in 1 .. Len(Tail(q)) PROVE Tail(q)[j] \in Q \ {Head(q)}
    <3>1. PICK i \in 1 .. Len(q) : Tail(q)[j] = q[i]
      BY <2>4, Zenon
    <3>2. Tail(q)[j] \in Q
      BY <3>1, Zenon
    <3> QED
      BY <2>4, <3>2, Zenon
  <2>6. ASSUME NEW i \in 1 .. Len(q), q[i] # Head(q) PROVE q[i] \in T
    <3>1. PICK j \in 1 .. Len(Tail(q)) : q[i] = Tail(q)[j]
      BY <2>3, <2>6, Zenon
    <3> QED
      BY <3>1, Zenon
  <2>7. T \subseteq Q \ {Head(q)}
    BY <2>5, Zenon
  <2>8. Q \ {Head(q)} \subseteq T
    BY <2>6, Zenon
  <2>9. T = Q \ {Head(q)}
    <3> HIDE DEF T, Q
    <3> QED
      BY <2>7, <2>8
  <2> QED
    BY <2>9, Zenon
<1>5. \A i, j \in 1 .. Len(Tail(q)) : Tail(q)[i] = Tail(q)[j] => i = j
  <2> TAKE i, j \in 1 .. Len(Tail(q))
  <2> HAVE Tail(q)[i] = Tail(q)[j]
  <2>1. i + 1 \in 1 .. Len(q) /\ j + 1 \in 1 .. Len(q)
    BY <1>1, <1>2
  <2>2. q[i + 1] = q[j + 1]
    BY <1>3
  <2>3. i + 1 = j + 1
    BY <2>1, <2>2
  <2> QED
    BY <2>3
<1>6. Head(q) \in {q[i] : i \in 1 .. Len(q)}
  BY <1>1
<1> QED
  BY <1>1, <1>2, <1>3, <1>4, <1>5, <1>6

(* Appending a new element to a queue without repetitions.                 *)
LEMMA AppendToQueue ==
  ASSUME NEW S, NEW q \in Seq(S), NEW s \in S,
         \A i, j \in 1 .. Len(q) : q[i] = q[j] => i = j,
         s \notin {q[i] : i \in 1 .. Len(q)}
  PROVE  /\ Append(q, s) \in Seq(S)
         /\ Len(Append(q, s)) = Len(q) + 1
         /\ \A i \in 1 .. Len(Append(q, s)) :
              Append(q, s)[i] = IF i = Len(q) + 1 THEN s ELSE q[i]
         /\ {Append(q, s)[i] : i \in 1 .. Len(Append(q, s))} =
              {q[i] : i \in 1 .. Len(q)} \cup {s}
         /\ \A i, j \in 1 .. Len(Append(q, s)) :
              Append(q, s)[i] = Append(q, s)[j] => i = j
<1>1. Len(q) \in Nat /\ Len(Append(q, s)) = Len(q) + 1 /\ Append(q, s) \in Seq(S)
  OBVIOUS
<1>2. \A i \in 1 .. Len(Append(q, s)) :
        Append(q, s)[i] = IF i = Len(q) + 1 THEN s ELSE q[i]
  BY <1>1
<1>3. {Append(q, s)[i] : i \in 1 .. Len(Append(q, s))} =
        {q[i] : i \in 1 .. Len(q)} \cup {s}
  <2>1. \A i \in 1 .. Len(q) : i \in 1 .. Len(Append(q, s)) /\ q[i] = Append(q, s)[i]
    BY <1>1, <1>2
  <2>2. Len(q) + 1 \in 1 .. Len(Append(q, s)) /\ Append(q, s)[Len(q) + 1] = s
    BY <1>1, <1>2
  <2>3. \A i \in 1 .. Len(Append(q, s)) : i = Len(q) + 1 \/ i \in 1 .. Len(q)
    BY <1>1
  <2> QED
    BY <1>2, <2>1, <2>2, <2>3
<1>4. \A i, j \in 1 .. Len(Append(q, s)) :
        Append(q, s)[i] = Append(q, s)[j] => i = j
  BY <1>1, <1>2
<1> QED
  BY <1>1, <1>2, <1>3, <1>4

----------------------------------------------------------------------------

(* Division with a remainder.                                              *)
LEMMA DivBounds ==
  ASSUME NEW a \in Nat, NEW b \in Nat \ {0}
  PROVE  /\ a \div b \in Nat
         /\ (a \div b) * b <= a
         /\ a < (a \div b + 1) * b
  OBVIOUS

(* Multiplication is monotone.                                             *)
LEMMA TimesMonotone ==
  ASSUME NEW a \in Nat, NEW b \in Nat, NEW c \in Nat, a <= b
  PROVE  a * c <= b * c /\ a * c \in Nat /\ b * c \in Nat
  OBVIOUS

(* The number of full batches leaves room for the one with the rest.        *)
LEMMA BatchBounds ==
  ASSUME NEW n \in Nat, NEW t \in Nat \ {0}
  PROVE  /\ Size(n, t) \in Nat \ {0}
         /\ FullBatches(n, t) \in 0 .. t - 1
         /\ FullBatches(n, t) * Size(n, t) <= n
         /\ n < (FullBatches(n, t) + 1) * Size(n, t)
<1> DEFINE L == Size(n, t)
           F == FullBatches(n, t)
<1>1. n \div t \in Nat /\ n < (n \div t + 1) * t
  BY DivBounds
<1>2. L \in Nat \ {0} /\ n < L * t
  BY <1>1 DEF Size
<1>3. F \in Nat /\ F * L <= n /\ n < (F + 1) * L
  BY <1>2, DivBounds DEF FullBatches
<1>4. F < t
  <2>1. SUFFICES ASSUME t <= F PROVE FALSE
    BY <1>3
  <2>2. t * L <= F * L
    BY <2>1, <1>2, <1>3, TimesMonotone
  <2>3. t * L = L * t /\ t * L \in Nat /\ F * L \in Nat
    BY <1>2, <1>3
  <2> QED
    BY <2>2, <2>3, <1>2, <1>3
<1> QED
  BY <1>2, <1>3, <1>4

(* A full batch of l segments from a on ends within n segments.             *)
LEMMA FullBatchFits ==
  ASSUME NEW a \in Nat, NEW l \in Nat \ {0}, NEW n \in Nat, a + l <= n
  PROVE  a \in -1 .. n /\ a + l - 1 \in -2 .. n - 1
  OBVIOUS

(* The bounds of every batch, the empty ones included.                     *)
LEMMA BatchEnds ==
  ASSUME NEW n \in Nat, NEW t \in Nat \ {0}, NEW k \in Nat
  PROVE  FirstOf(n, t, k) \in -1 .. n /\ LastOf(n, t, k) \in -2 .. n - 1
<1> DEFINE L == Size(n, t)
           F == FullBatches(n, t)
<1>1. L \in Nat \ {0} /\ F \in Nat /\ F * L \in Nat /\ F * L <= n
  <2>1. L \in Nat \ {0} /\ F \in 0 .. t - 1 /\ F * L <= n
    BY BatchBounds
  <2>2. F \in Nat
    BY <2>1
  <2> HIDE DEF L, F
  <2> QED
    BY <2>1, <2>2, TimesMonotone
<1>2. CASE k < F
  <2>1. FirstOf(n, t, k) = k * L /\ LastOf(n, t, k) = k * L + L - 1
    BY <1>2, <1>1 DEF FirstOf, LastOf
  <2> HIDE DEF L, F
  <2>2. (k + 1) * L <= F * L /\ k * L \in Nat
    <3>1. k + 1 \in Nat /\ k + 1 <= F
      BY <1>1, <1>2
    <3> QED
      BY <1>1, <3>1, TimesMonotone
  <2>3. (k + 1) * L = k * L + L
    BY <1>1
  <2>4. k * L + L <= n
    <3> DEFINE a == k * L
               b == F * L
    <3>1. a \in Nat /\ b \in Nat /\ a + L <= b /\ b <= n /\ L \in Nat
      BY <1>1, <2>2, <2>3
    <3> HIDE DEF a, b
    <3> QED
      BY <3>1 DEF a
  <2> QED
    BY <1>1, <2>1, <2>2, <2>4, FullBatchFits
<1>3. CASE k = F
  <2>1. FirstOf(n, t, k) = F * L /\ LastOf(n, t, k) = n - 1
    BY <1>3, <1>1 DEF FirstOf, LastOf
  <2> DEFINE b == F * L
  <2>2. b \in Nat /\ b <= n
    BY <1>1
  <2> HIDE DEF b
  <2> QED
    BY <2>1, <2>2 DEF b
<1>4. CASE k > F
  <2>1. FirstOf(n, t, k) = -1 /\ LastOf(n, t, k) = -2
    BY <1>4, <1>1 DEF FirstOf, LastOf
  <2> QED
    BY <2>1
<1> QED
  BY <1>1, <1>2, <1>3, <1>4

(* Batch k holds the segments from k * Size up to (k + 1) * Size, as far as *)
(* there are any; the batches of the workers that only steal are empty.     *)
LEMMA InBatch ==
  ASSUME NEW n \in Nat, NEW t \in Nat \ {0}, NEW k \in 0 .. t - 1, NEW s \in Int
  PROVE  s \in Batch(n, t, k) <=>
           s < n /\ k * Size(n, t) <= s /\ s < (k + 1) * Size(n, t)
<1> DEFINE L == Size(n, t)
           F == FullBatches(n, t)
<1>1. L \in Nat \ {0} /\ F \in 0 .. t - 1 /\ F * L <= n /\ n < (F + 1) * L
  BY BatchBounds
<1>2. k * L \in Nat /\ (k + 1) * L = k * L + L /\ F * L \in Nat
  BY <1>1
<1>3. CASE k < F
  <2>1. (k + 1) * L <= F * L
    BY <1>1, <1>3, TimesMonotone
  <2> QED
    BY <1>1, <1>2, <1>3, <2>1 DEF Batch, FirstOf, LastOf
<1>4. CASE k = F
  BY <1>1, <1>2, <1>4 DEF Batch, FirstOf, LastOf
<1>5. CASE k > F
  <2>1. (F + 1) * L <= k * L
    BY <1>1, <1>5, TimesMonotone
  <2>2. Batch(n, t, k) = {}
    BY <1>1, <1>5 DEF Batch, FirstOf, LastOf
  <2> QED
    BY <1>1, <1>2, <2>1, <2>2
<1> QED
  BY <1>1, <1>3, <1>4, <1>5

(* Two batches have no segment in common.                                   *)
LEMMA BatchesDisjoint ==
  ASSUME NEW n \in Nat, NEW t \in Nat \ {0},
         NEW j \in 0 .. t - 1, NEW k \in 0 .. t - 1, NEW s \in Int,
         s \in Batch(n, t, j), s \in Batch(n, t, k)
  PROVE  j = k
<1> DEFINE L == Size(n, t)
<1>1. L \in Nat \ {0}
  BY BatchBounds
<1>2. /\ j * L <= s /\ s < (j + 1) * L
      /\ k * L <= s /\ s < (k + 1) * L
  BY InBatch
<1>3. j * L \in Nat /\ k * L \in Nat /\ (j + 1) * L \in Nat /\ (k + 1) * L \in Nat
  BY <1>1
<1>4. ~(j < k)
  <2>1. SUFFICES ASSUME j < k PROVE FALSE
    OBVIOUS
  <2>2. (j + 1) * L <= k * L
    BY <2>1, <1>1, TimesMonotone
  <2> QED
    BY <2>2, <1>2, <1>3
<1>5. ~(k < j)
  <2>1. SUFFICES ASSUME k < j PROVE FALSE
    OBVIOUS
  <2>2. (k + 1) * L <= j * L
    BY <2>1, <1>1, TimesMonotone
  <2> QED
    BY <2>2, <1>2, <1>3
<1> QED
  BY <1>4, <1>5

(* Every segment is in the batch of exactly one worker.                     *)
LEMMA BatchesPartition ==
  ASSUME NEW n \in Nat, NEW t \in Nat \ {0}, NEW s \in 0 .. n - 1
  PROVE  \E k \in 0 .. t - 1 : \A j \in 0 .. t - 1 : s \in Batch(n, t, j) <=> j = k
<1> DEFINE L == Size(n, t)
           F == FullBatches(n, t)
           k == s \div L
<1>1. L \in Nat \ {0} /\ F \in 0 .. t - 1 /\ n < (F + 1) * L
  BY BatchBounds
<1>2. k \in Nat /\ k * L <= s /\ s < (k + 1) * L
  BY <1>1, DivBounds
<1>3. k <= F
  <2>1. SUFFICES ASSUME F < k PROVE FALSE
    BY <1>1, <1>2
  <2>2. (F + 1) * L <= k * L
    BY <2>1, <1>1, <1>2, TimesMonotone
  <2>3. (F + 1) * L \in Nat /\ k * L \in Nat
    BY <1>1, <1>2
  <2> QED
    BY <2>2, <2>3, <1>1, <1>2
<1>4. k \in 0 .. t - 1
  BY <1>1, <1>2, <1>3
<1>5. s \in Batch(n, t, k)
  BY <1>2, <1>4, InBatch
<1> HIDE DEF k
<1>6. \A j \in 0 .. t - 1 : s \in Batch(n, t, j) => j = k
  BY <1>4, <1>5, BatchesDisjoint
<1> QED
  BY <1>4, <1>5, <1>6
================================================================================
