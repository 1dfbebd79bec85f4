------------------------------ MODULE Batches ------------------------------
(***************************************************************************)
(* How makeBatchedScheduler (download/segments/work_queue.go) divides n    *)
(* segments among t workers, in closed form: batches of Size segments as   *)
(* long as more than that remain, the rest in one more batch, and empty    *)
(* batches for the workers that can only steal.  BatchSplit has the loop.  *)
(***************************************************************************)
EXTENDS Integers

(* interval + 1 in the code: a batch covers [first, first + interval].     *)
Size(n, t) == n \div t + 1

(* The number of batches that are full, and the index of the one after.    *)
FullBatches(n, t) == n \div Size(n, t)

FirstOf(n, t, k) == IF k <= FullBatches(n, t) THEN k * Size(n, t) ELSE -1

LastOf(n, t, k) ==
  IF k < FullBatches(n, t) THEN k * Size(n, t) + Size(n, t) - 1
  ELSE IF k = FullBatches(n, t) THEN n - 1 ELSE -2

Batch(n, t, k) == FirstOf(n, t, k) .. LastOf(n, t, k)
=============================================================================
