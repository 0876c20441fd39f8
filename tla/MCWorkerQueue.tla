---------------------------- MODULE MCWorkerQueue ----------------------------
(***************************************************************************)
(* Small instances of WorkerQueue: telemetry batches that overlap, as two  *)
(* polls of one aircraft do, with every other kind of job.                 *)
(***************************************************************************)
EXTENDS WorkerQueue

CONSTANTS j1, j2, j3, r1, r2, r3

\* Two overlapping batches and one that is empty after de-duplication.
Batches == [j \in Jobs |->
  CASE j = j1 -> {r1, r2} [] j = j2 -> {r2, r3} [] j = j3 -> {}]

\* A batch, one the server refuses (j2), and the invalid j3, a log entry.
WithRefused == [j \in Jobs |->
  CASE j = j1 -> {r1, r2} [] j = j2 -> {r2} [] j = j3 -> {r3}]

\* settings.py: the dead-letter list is the destination of a job "once
\* MAX_JOB_ATTEMPTS is exhausted".  arq only fails such a job.
ExhaustedJobsAreDeadLettered ==
  \A j \in Jobs : result[j] = "failed" /\ tries[j] = MaxJobAttempts => dlq[j] > 0
=============================================================================
