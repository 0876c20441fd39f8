---------------------------- MODULE MCBatchInsert ----------------------------
(***************************************************************************)
(* Overlapping batches: t1 and t2 share 2 and 3, t2 and t3 share 1 and 3,  *)
(* t3 begins below what t1 holds, and t4 runs the job of t1 again.         *)
(***************************************************************************)
EXTENDS BatchInsert

CONSTANTS t1, t2, t3, t4

Overlapping == [t \in Txns |->
  CASE t = t1 -> {2, 3, 4} [] t = t2 -> {1, 2, 3} [] t = t3 -> {1, 3, 4}
    [] t = t4 -> {2, 3, 4}]
=============================================================================
