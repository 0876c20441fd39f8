-------------------------- MODULE WorkerQueue_proofs --------------------------
(***************************************************************************)
(* Proofs about WorkerQueue, for any jobs, workers, bounds and faults.     *)
(*                                                                         *)
(* The inductive invariant has five parts, each proved from those before   *)
(* it: types; one run per job, which owns the job's lock; the queue is the *)
(* set of jobs without a result; a run's phase tells the truth about the   *)
(* database and the dead-letter list; no row is credited twice.            *)
(***************************************************************************)
EXTENDS WorkerQueue, FiniteSetTheorems, TLAPS

\* A run holds its job's in-progress key, its job is queued and was tried.
RunsOwnTheirJob ==
  \A w \in Workers, j \in Jobs :
    run[w][j] # "idle" => j \in locked /\ j \in queue

Exclusive == RunsOwnTheirJob /\ NoDoubleProcessing

Ledger ==
  /\ NothingForgotten
  /\ \A j \in Jobs : result[j] # "none" => j \in submitted

\* What the phase of a run says of rows, dlq and tries.
PhasesAreTruthful ==
  \A w \in Workers, j \in Jobs :
    /\ run[w][j] \in {"committed", "returned"} => IdsOf[j] \subseteq rows
    /\ run[w][j] \notin {"idle", "started", "rejected"} => j \notin InvalidJobs
    /\ run[w][j] = "rejected" => dlq[j] > 0
    /\ run[w][j] = "started" => dlq[j] < tries[j]

Truthful == PhasesAreTruthful /\ CompletedIsDurable /\ DeadLettersAreTruthful

\* Rows credited in results and rows that a run is about to credit exist and
\* are all different.
CreditsAreDistinct ==
  /\ \A w \in Workers, j \in Jobs : fresh[w][j] \subseteq rows
  /\ \A w \in Workers, j, k \in Jobs : fresh[w][j] \cap credit[k] = {}
  /\ \A v, w \in Workers, j, k \in Jobs :
       <<v, j>> # <<w, k>> => fresh[v][j] \cap fresh[w][k] = {}

Credits == CreditsNeverOvercount /\ CreditsAreDistinct

\* A run holds a connection only between connecting and the commit's reply;
\* a worker never exceeds max_jobs.
Holding == {"inserting", "broken", "committed"}

ConnectionsAreHeld ==
  \A w \in Workers : \A j \in conns[w] : run[w][j] \in Holding

ConcurrencyIsBounded == \A w \in Workers : Cardinality(Active(w)) <= MaxJobs

IInv == TypeOK /\ Exclusive /\ Ledger /\ Truthful /\ Credits
          /\ GivenUpOnlyWhenExhausted /\ ConnectionsAreHeld /\ ConcurrencyIsBounded

-----------------------------------------------------------------------------
\* What DbDown does: it breaks some runs that hold a connection, moves no
\* other, and touches nothing but the server.
LEMMA DbDownBreaks ==
  ASSUME TypeOK, DbDown
  PROVE  /\ run' \in [Workers -> [Jobs -> Phases]]
         /\ \A w \in Workers, j \in Jobs :
              run'[w][j] # run[w][j] => run[w][j] \in Holding /\ run'[w][j] = "broken"
         /\ faults' \in 0..FaultBudget
         /\ dbUp' = FALSE
         /\ UNCHANGED <<submitted, queue, deferred, locked, tries, result, credit,
                        dlq, conns, fresh, up, rows>>
<1>1. PICK lost \in SUBSET {r \in up \X Jobs : run[r[1]][r[2]] = "committed"} :
        run' = [w \in Workers |-> [j \in Jobs |->
                  IF run[w][j] = "inserting" \/ <<w, j>> \in lost
                  THEN "broken" ELSE run[w][j]]]
  BY DEF DbDown
<1>2. \A w \in Workers, j \in Jobs : <<w, j>> \in lost => run[w][j] = "committed"
  BY <1>1
<1>3. \A w \in Workers, j \in Jobs :
        run'[w][j] = IF run[w][j] = "inserting" \/ <<w, j>> \in lost
                     THEN "broken" ELSE run[w][j]
  BY <1>1, Zenon
<1>4. \A w \in Workers : run[w] \in [Jobs -> Phases]
  BY DEF TypeOK
<1>5. run' \in [Workers -> [Jobs -> Phases]]
  BY <1>1, <1>4 DEF Phases
<1>6. faults' \in 0..FaultBudget
  BY ConstantsAssumption DEF DbDown, Fault, TypeOK
<1>7. dbUp' = FALSE /\ UNCHANGED <<submitted, queue, deferred, locked, tries, result,
                                  credit, dlq, conns, fresh, up, rows>>
  BY DEF DbDown, queueVars, resultVars
<1> QED
  BY <1>2, <1>3, <1>5, <1>6, <1>7 DEF Holding

\* The same, as the parts of the invariant need it.
LEMMA DbDownKeepsPhases ==
  ASSUME TypeOK, DbDown, NEW w \in Workers, NEW j \in Jobs
  PROVE  /\ run'[w][j] = "idle" <=> run[w][j] = "idle"
         /\ run'[w][j] \in {"committed", "returned"} => run[w][j] \in {"committed", "returned"}
         /\ run'[w][j] \in {"idle", "started", "rejected"}
              <=> run[w][j] \in {"idle", "started", "rejected"}
         /\ run'[w][j] = "rejected" => run[w][j] = "rejected"
         /\ run'[w][j] = "started" => run[w][j] = "started"
         /\ run'[w][j] = "connecting" => run[w][j] = "connecting"
         /\ run[w][j] \in Holding => run'[w][j] \in Holding
  BY DbDownBreaks DEF Holding

\* Types are preserved.
LEMMA TypeStep == TypeOK /\ [Next]_vars => TypeOK'
<1> SUFFICES ASSUME TypeOK, [Next]_vars PROVE TypeOK'
  OBVIOUS
<1>1. ASSUME NEW j \in Jobs, Enqueue(j) PROVE TypeOK'
  BY <1>1, ConstantsAssumption DEF TypeOK, Phases, Results, queueVars, resultVars,
     runVars, Enqueue
<1>2. ASSUME NEW j \in Jobs, BackoffElapsed(j) PROVE TypeOK'
  BY <1>2, ConstantsAssumption DEF TypeOK, Phases, Results, queueVars, resultVars,
     runVars, BackoffElapsed
<1>3. ASSUME NEW j \in Jobs, LockExpires(j) PROVE TypeOK'
  BY <1>3, ConstantsAssumption DEF TypeOK, Phases, Results, queueVars, resultVars,
     runVars, LockExpires
<1>4. ASSUME NEW w \in Workers, NEW j \in Jobs, Claim(w, j) PROVE TypeOK'
  BY <1>4, ConstantsAssumption DEF TypeOK, Phases, Results, queueVars, resultVars,
     runVars, Claim, Claimable, Goto
<1>5. ASSUME NEW w \in Workers, NEW j \in Jobs, Abandon(w, j) PROVE TypeOK'
  BY <1>5, ConstantsAssumption DEF TypeOK, Phases, Results, queueVars, resultVars,
     runVars, Abandon, Claimable, Settle, EndRun, Goto, ReleaseConnection
<1>6. ASSUME NEW w \in Workers, NEW j \in Jobs, DeadLetter(w, j) PROVE TypeOK'
  BY <1>6, ConstantsAssumption DEF TypeOK, Phases, Results, queueVars, resultVars,
     runVars, DeadLetter, Goto
<1>7. ASSUME NEW w \in Workers, NEW j \in Jobs, SkipEmpty(w, j) PROVE TypeOK'
  BY <1>7, ConstantsAssumption DEF TypeOK, Phases, Results, queueVars, resultVars,
     runVars, SkipEmpty, Goto
<1>8. ASSUME NEW w \in Workers, NEW j \in Jobs, RequestConnection(w, j) PROVE TypeOK'
  BY <1>8, ConstantsAssumption DEF TypeOK, Phases, Results, queueVars, resultVars,
     runVars, RequestConnection, Goto
<1>9. ASSUME NEW w \in Workers, NEW j \in Jobs, Connect(w, j) PROVE TypeOK'
  BY <1>9, ConstantsAssumption DEF TypeOK, Phases, Results, queueVars, resultVars,
     runVars, Connect, Goto
<1>10. ASSUME NEW w \in Workers, NEW j \in Jobs, ConnectTimeout(w, j) PROVE TypeOK'
  BY <1>10, ConstantsAssumption DEF TypeOK, Phases, Results, queueVars, resultVars,
     runVars, ConnectTimeout, RetryLater, EndRun, Goto, ReleaseConnection
<1>11. ASSUME NEW w \in Workers, NEW j \in Jobs, Commit(w, j) PROVE TypeOK'
  BY <1>11, ConstantsAssumption DEF TypeOK, Phases, Results, queueVars, resultVars,
     runVars, Commit, Goto
<1>12. ASSUME NEW w \in Workers, NEW j \in Jobs, Acknowledge(w, j) PROVE TypeOK'
  BY <1>12, ConstantsAssumption DEF TypeOK, Phases, Results, queueVars, resultVars,
     runVars, Acknowledge, Goto, ReleaseConnection
<1>13. ASSUME NEW w \in Workers, NEW j \in Jobs, InsertRefused(w, j) PROVE TypeOK'
  BY <1>13, ConstantsAssumption DEF TypeOK, Phases, Results, queueVars, resultVars,
     runVars, InsertRefused, Settle, EndRun, Goto, ReleaseConnection
<1>14. ASSUME NEW w \in Workers, NEW j \in Jobs, ConnectionLost(w, j) PROVE TypeOK'
  BY <1>14, ConstantsAssumption DEF TypeOK, Phases, Results, queueVars, resultVars,
     runVars, ConnectionLost, RetryLater, EndRun, Goto, ReleaseConnection
<1>15. ASSUME NEW w \in Workers, NEW j \in Jobs, Complete(w, j) PROVE TypeOK'
  BY <1>15, ConstantsAssumption DEF TypeOK, Phases, Results, queueVars, resultVars,
     runVars, Complete, Settle, Reported, EndRun, Goto, ReleaseConnection
<1>16. ASSUME NEW w \in Workers, NEW j \in Jobs, Reject(w, j) PROVE TypeOK'
  BY <1>16, ConstantsAssumption DEF TypeOK, Phases, Results, queueVars, resultVars,
     runVars, Reject, Settle, EndRun, Goto, ReleaseConnection
<1>17. ASSUME NEW w \in Workers, NEW j \in Jobs, TransientError(w, j) PROVE TypeOK'
  BY <1>17, ConstantsAssumption DEF TypeOK, Phases, Results, queueVars, resultVars,
     runVars, TransientError, Fault, RetryLater, EndRun, Goto, ReleaseConnection
<1>18. ASSUME NEW w \in Workers, NEW j \in Jobs, JobTimeout(w, j) PROVE TypeOK'
  BY <1>18, ConstantsAssumption DEF TypeOK, Phases, Results, queueVars, resultVars,
     runVars, JobTimeout, Fault, Settle, EndRun, Goto, ReleaseConnection
<1>19. ASSUME NEW w \in Workers, WorkerCrash(w) PROVE TypeOK'
  BY <1>19, ConstantsAssumption DEF TypeOK, Phases, Results, queueVars, resultVars,
     runVars, WorkerCrash, Fault, StopWorker
<1>20. ASSUME NEW w \in Workers, WorkerShutdown(w) PROVE TypeOK'
  BY <1>20, ConstantsAssumption DEF TypeOK, Phases, Results, queueVars, resultVars,
     runVars, WorkerShutdown, Fault, StopWorker, Active
<1>21. ASSUME NEW w \in Workers, WorkerStart(w) PROVE TypeOK'
  BY <1>21, ConstantsAssumption DEF TypeOK, Phases, Results, queueVars, resultVars,
     runVars, WorkerStart
<1>22. CASE DbDown
  <2>1. run' \in [Workers -> [Jobs -> Phases]] /\ faults' \in 0..FaultBudget /\ dbUp' = FALSE
    BY <1>22, DbDownBreaks
  <2>2. UNCHANGED <<submitted, queue, deferred, locked, tries, result, credit,
                   dlq, conns, fresh, up, rows>>
    BY <1>22, DbDownBreaks
  <2> QED
    BY <2>1, <2>2 DEF TypeOK
<1>23. CASE DbUp
  BY <1>23, ConstantsAssumption DEF TypeOK, Phases, Results, queueVars, resultVars,
     runVars, DbUp
<1>24. CASE UNCHANGED vars
  BY <1>24 DEF TypeOK, Phases, Results, vars, queueVars, resultVars, runVars
<1>25. ASSUME NEW w \in Workers, NEW j \in Jobs, Poll(w, j) \/ Step(w, j) PROVE TypeOK'
  BY <1>25, <1>4, <1>5, <1>6, <1>7, <1>8, <1>9, <1>10, <1>11, <1>12, <1>13, <1>14,
     <1>15, <1>16 DEF Poll, Step
<1>26. CASE \E j \in Jobs : Enqueue(j) \/ BackoffElapsed(j) \/ LockExpires(j)
  BY <1>26, <1>1, <1>2, <1>3
<1>27. CASE \E w \in Workers, j \in Jobs :
              Poll(w, j) \/ Step(w, j) \/ TransientError(w, j) \/ JobTimeout(w, j)
  BY <1>27, <1>25, <1>17, <1>18
<1>28. CASE \E w \in Workers : WorkerCrash(w) \/ WorkerShutdown(w) \/ WorkerStart(w)
  BY <1>28, <1>19, <1>20, <1>21
<1> QED
  BY <1>22, <1>23, <1>24, <1>26, <1>27, <1>28 DEF Next

\* Only Claim starts a run, under the lock; whoever unlocks a job has ended
\* its only run.
LEMMA ExclusiveStep == TypeOK /\ Exclusive /\ [Next]_vars => Exclusive'
<1> SUFFICES ASSUME TypeOK /\ Exclusive, [Next]_vars PROVE Exclusive'
  OBVIOUS
<1>1. ASSUME NEW j \in Jobs, Enqueue(j) PROVE Exclusive'
  BY <1>1, ConstantsAssumption DEF TypeOK, Exclusive, RunsOwnTheirJob,
     NoDoubleProcessing, queueVars, resultVars, runVars, Enqueue
<1>2. ASSUME NEW j \in Jobs, BackoffElapsed(j) PROVE Exclusive'
  BY <1>2, ConstantsAssumption DEF TypeOK, Exclusive, RunsOwnTheirJob,
     NoDoubleProcessing, queueVars, resultVars, runVars, BackoffElapsed
<1>3. ASSUME NEW j \in Jobs, LockExpires(j) PROVE Exclusive'
  BY <1>3, ConstantsAssumption DEF TypeOK, Exclusive, RunsOwnTheirJob,
     NoDoubleProcessing, queueVars, resultVars, runVars, LockExpires
<1>4. ASSUME NEW w \in Workers, NEW j \in Jobs, Claim(w, j) PROVE Exclusive'
  BY <1>4, ConstantsAssumption DEF TypeOK, Exclusive, RunsOwnTheirJob,
     NoDoubleProcessing, queueVars, resultVars, runVars, Claim, Claimable, Goto
<1>5. ASSUME NEW w \in Workers, NEW j \in Jobs, Abandon(w, j) PROVE Exclusive'
  BY <1>5, ConstantsAssumption DEF TypeOK, Exclusive, RunsOwnTheirJob,
     NoDoubleProcessing, queueVars, resultVars, runVars, Abandon, Claimable, Settle,
     EndRun, Goto, ReleaseConnection
<1>6. ASSUME NEW w \in Workers, NEW j \in Jobs, DeadLetter(w, j) PROVE Exclusive'
  BY <1>6, ConstantsAssumption DEF TypeOK, Exclusive, RunsOwnTheirJob,
     NoDoubleProcessing, queueVars, resultVars, runVars, DeadLetter, Goto
<1>7. ASSUME NEW w \in Workers, NEW j \in Jobs, SkipEmpty(w, j) PROVE Exclusive'
  BY <1>7, ConstantsAssumption DEF TypeOK, Exclusive, RunsOwnTheirJob,
     NoDoubleProcessing, queueVars, resultVars, runVars, SkipEmpty, Goto
<1>8. ASSUME NEW w \in Workers, NEW j \in Jobs, RequestConnection(w, j) PROVE Exclusive'
  BY <1>8, ConstantsAssumption DEF TypeOK, Exclusive, RunsOwnTheirJob,
     NoDoubleProcessing, queueVars, resultVars, runVars, RequestConnection, Goto
<1>9. ASSUME NEW w \in Workers, NEW j \in Jobs, Connect(w, j) PROVE Exclusive'
  BY <1>9, ConstantsAssumption DEF TypeOK, Exclusive, RunsOwnTheirJob,
     NoDoubleProcessing, queueVars, resultVars, runVars, Connect, Goto
<1>10. ASSUME NEW w \in Workers, NEW j \in Jobs, ConnectTimeout(w, j) PROVE Exclusive'
  BY <1>10, ConstantsAssumption DEF TypeOK, Exclusive, RunsOwnTheirJob,
     NoDoubleProcessing, queueVars, resultVars, runVars, ConnectTimeout, RetryLater,
     EndRun, Goto, ReleaseConnection
<1>11. ASSUME NEW w \in Workers, NEW j \in Jobs, Commit(w, j) PROVE Exclusive'
  BY <1>11, ConstantsAssumption DEF TypeOK, Exclusive, RunsOwnTheirJob,
     NoDoubleProcessing, queueVars, resultVars, runVars, Commit, Goto
<1>12. ASSUME NEW w \in Workers, NEW j \in Jobs, Acknowledge(w, j) PROVE Exclusive'
  BY <1>12, ConstantsAssumption DEF TypeOK, Exclusive, RunsOwnTheirJob,
     NoDoubleProcessing, queueVars, resultVars, runVars, Acknowledge, Goto,
     ReleaseConnection
<1>13. ASSUME NEW w \in Workers, NEW j \in Jobs, InsertRefused(w, j) PROVE Exclusive'
  BY <1>13, ConstantsAssumption DEF TypeOK, Exclusive, RunsOwnTheirJob,
     NoDoubleProcessing, queueVars, resultVars, runVars, InsertRefused, Settle, EndRun,
     Goto, ReleaseConnection
<1>14. ASSUME NEW w \in Workers, NEW j \in Jobs, ConnectionLost(w, j) PROVE Exclusive'
  BY <1>14, ConstantsAssumption DEF TypeOK, Exclusive, RunsOwnTheirJob,
     NoDoubleProcessing, queueVars, resultVars, runVars, ConnectionLost, RetryLater,
     EndRun, Goto, ReleaseConnection
<1>15. ASSUME NEW w \in Workers, NEW j \in Jobs, Complete(w, j) PROVE Exclusive'
  BY <1>15, ConstantsAssumption DEF TypeOK, Exclusive, RunsOwnTheirJob,
     NoDoubleProcessing, queueVars, resultVars, runVars, Complete, Settle, Reported,
     EndRun, Goto, ReleaseConnection
<1>16. ASSUME NEW w \in Workers, NEW j \in Jobs, Reject(w, j) PROVE Exclusive'
  BY <1>16, ConstantsAssumption DEF TypeOK, Exclusive, RunsOwnTheirJob,
     NoDoubleProcessing, queueVars, resultVars, runVars, Reject, Settle, EndRun, Goto,
     ReleaseConnection
<1>17. ASSUME NEW w \in Workers, NEW j \in Jobs, TransientError(w, j) PROVE Exclusive'
  BY <1>17, ConstantsAssumption DEF TypeOK, Exclusive, RunsOwnTheirJob,
     NoDoubleProcessing, queueVars, resultVars, runVars, TransientError, Fault,
     RetryLater, EndRun, Goto, ReleaseConnection
<1>18. ASSUME NEW w \in Workers, NEW j \in Jobs, JobTimeout(w, j) PROVE Exclusive'
  BY <1>18, ConstantsAssumption DEF TypeOK, Exclusive, RunsOwnTheirJob,
     NoDoubleProcessing, queueVars, resultVars, runVars, JobTimeout, Fault, Settle,
     EndRun, Goto, ReleaseConnection
<1>19. ASSUME NEW w \in Workers, WorkerCrash(w) PROVE Exclusive'
  BY <1>19, ConstantsAssumption DEF TypeOK, Exclusive, RunsOwnTheirJob,
     NoDoubleProcessing, queueVars, resultVars, runVars, WorkerCrash, Fault, StopWorker
<1>20. ASSUME NEW w \in Workers, WorkerShutdown(w) PROVE Exclusive'
  BY <1>20, ConstantsAssumption DEF TypeOK, Exclusive, RunsOwnTheirJob,
     NoDoubleProcessing, queueVars, resultVars, runVars, WorkerShutdown, Fault,
     StopWorker, Active
<1>21. ASSUME NEW w \in Workers, WorkerStart(w) PROVE Exclusive'
  BY <1>21, ConstantsAssumption DEF TypeOK, Exclusive, RunsOwnTheirJob,
     NoDoubleProcessing, queueVars, resultVars, runVars, WorkerStart
<1>22. CASE DbDown
  <2>1. UNCHANGED <<submitted, queue, deferred, locked, tries, result, credit,
                   dlq, conns, fresh, up, rows>>
    BY <1>22, DbDownBreaks
  <2> QED
    BY <1>22, <2>1, DbDownKeepsPhases DEF Exclusive, RunsOwnTheirJob, NoDoubleProcessing
<1>23. CASE DbUp
  BY <1>23, ConstantsAssumption DEF TypeOK, Exclusive, RunsOwnTheirJob,
     NoDoubleProcessing, queueVars, resultVars, runVars, DbUp
<1>24. CASE UNCHANGED vars
  BY <1>24 DEF TypeOK, Exclusive, RunsOwnTheirJob, NoDoubleProcessing, vars, queueVars,
     resultVars, runVars
<1>25. ASSUME NEW w \in Workers, NEW j \in Jobs, Poll(w, j) \/ Step(w, j)
       PROVE  Exclusive'
  BY <1>25, <1>4, <1>5, <1>6, <1>7, <1>8, <1>9, <1>10, <1>11, <1>12, <1>13, <1>14,
     <1>15, <1>16 DEF Poll, Step
<1>26. CASE \E j \in Jobs : Enqueue(j) \/ BackoffElapsed(j) \/ LockExpires(j)
  BY <1>26, <1>1, <1>2, <1>3
<1>27. CASE \E w \in Workers, j \in Jobs :
              Poll(w, j) \/ Step(w, j) \/ TransientError(w, j) \/ JobTimeout(w, j)
  BY <1>27, <1>25, <1>17, <1>18
<1>28. CASE \E w \in Workers : WorkerCrash(w) \/ WorkerShutdown(w) \/ WorkerStart(w)
  BY <1>28, <1>19, <1>20, <1>21
<1> QED
  BY <1>22, <1>23, <1>24, <1>26, <1>27, <1>28 DEF Next

\* A job leaves the queue in the step that writes its result.
LEMMA LedgerStep == TypeOK /\ Exclusive /\ Ledger /\ [Next]_vars => Ledger'
<1> SUFFICES ASSUME TypeOK /\ Exclusive /\ Ledger, [Next]_vars PROVE Ledger'
  OBVIOUS
<1>1. ASSUME NEW j \in Jobs, Enqueue(j) PROVE Ledger'
  BY <1>1, ConstantsAssumption DEF TypeOK, Exclusive, RunsOwnTheirJob,
     NoDoubleProcessing, Ledger, NothingForgotten, Results, queueVars, resultVars,
     runVars, Enqueue
<1>2. ASSUME NEW j \in Jobs, BackoffElapsed(j) PROVE Ledger'
  BY <1>2, ConstantsAssumption DEF TypeOK, Exclusive, RunsOwnTheirJob,
     NoDoubleProcessing, Ledger, NothingForgotten, Results, queueVars, resultVars,
     runVars, BackoffElapsed
<1>3. ASSUME NEW j \in Jobs, LockExpires(j) PROVE Ledger'
  BY <1>3, ConstantsAssumption DEF TypeOK, Exclusive, RunsOwnTheirJob,
     NoDoubleProcessing, Ledger, NothingForgotten, Results, queueVars, resultVars,
     runVars, LockExpires
<1>4. ASSUME NEW w \in Workers, NEW j \in Jobs, Claim(w, j) PROVE Ledger'
  BY <1>4, ConstantsAssumption DEF TypeOK, Exclusive, RunsOwnTheirJob,
     NoDoubleProcessing, Ledger, NothingForgotten, Results, queueVars, resultVars,
     runVars, Claim, Claimable, Goto
<1>5. ASSUME NEW w \in Workers, NEW j \in Jobs, Abandon(w, j) PROVE Ledger'
  BY <1>5, ConstantsAssumption DEF TypeOK, Exclusive, RunsOwnTheirJob,
     NoDoubleProcessing, Ledger, NothingForgotten, Results, queueVars, resultVars,
     runVars, Abandon, Claimable, Settle, EndRun, Goto, ReleaseConnection
<1>6. ASSUME NEW w \in Workers, NEW j \in Jobs, DeadLetter(w, j) PROVE Ledger'
  BY <1>6, ConstantsAssumption DEF TypeOK, Exclusive, RunsOwnTheirJob,
     NoDoubleProcessing, Ledger, NothingForgotten, Results, queueVars, resultVars,
     runVars, DeadLetter, Goto
<1>7. ASSUME NEW w \in Workers, NEW j \in Jobs, SkipEmpty(w, j) PROVE Ledger'
  BY <1>7, ConstantsAssumption DEF TypeOK, Exclusive, RunsOwnTheirJob,
     NoDoubleProcessing, Ledger, NothingForgotten, Results, queueVars, resultVars,
     runVars, SkipEmpty, Goto
<1>8. ASSUME NEW w \in Workers, NEW j \in Jobs, RequestConnection(w, j) PROVE Ledger'
  BY <1>8, ConstantsAssumption DEF TypeOK, Exclusive, RunsOwnTheirJob,
     NoDoubleProcessing, Ledger, NothingForgotten, Results, queueVars, resultVars,
     runVars, RequestConnection, Goto
<1>9. ASSUME NEW w \in Workers, NEW j \in Jobs, Connect(w, j) PROVE Ledger'
  BY <1>9, ConstantsAssumption DEF TypeOK, Exclusive, RunsOwnTheirJob,
     NoDoubleProcessing, Ledger, NothingForgotten, Results, queueVars, resultVars,
     runVars, Connect, Goto
<1>10. ASSUME NEW w \in Workers, NEW j \in Jobs, ConnectTimeout(w, j) PROVE Ledger'
  BY <1>10, ConstantsAssumption DEF TypeOK, Exclusive, RunsOwnTheirJob,
     NoDoubleProcessing, Ledger, NothingForgotten, Results, queueVars, resultVars,
     runVars, ConnectTimeout, RetryLater, EndRun, Goto, ReleaseConnection
<1>11. ASSUME NEW w \in Workers, NEW j \in Jobs, Commit(w, j) PROVE Ledger'
  BY <1>11, ConstantsAssumption DEF TypeOK, Exclusive, RunsOwnTheirJob,
     NoDoubleProcessing, Ledger, NothingForgotten, Results, queueVars, resultVars,
     runVars, Commit, Goto
<1>12. ASSUME NEW w \in Workers, NEW j \in Jobs, Acknowledge(w, j) PROVE Ledger'
  BY <1>12, ConstantsAssumption DEF TypeOK, Exclusive, RunsOwnTheirJob,
     NoDoubleProcessing, Ledger, NothingForgotten, Results, queueVars, resultVars,
     runVars, Acknowledge, Goto, ReleaseConnection
<1>13. ASSUME NEW w \in Workers, NEW j \in Jobs, InsertRefused(w, j) PROVE Ledger'
  BY <1>13, ConstantsAssumption DEF TypeOK, Exclusive, RunsOwnTheirJob,
     NoDoubleProcessing, Ledger, NothingForgotten, Results, queueVars, resultVars,
     runVars, InsertRefused, Settle, EndRun, Goto, ReleaseConnection
<1>14. ASSUME NEW w \in Workers, NEW j \in Jobs, ConnectionLost(w, j) PROVE Ledger'
  BY <1>14, ConstantsAssumption DEF TypeOK, Exclusive, RunsOwnTheirJob,
     NoDoubleProcessing, Ledger, NothingForgotten, Results, queueVars, resultVars,
     runVars, ConnectionLost, RetryLater, EndRun, Goto, ReleaseConnection
<1>15. ASSUME NEW w \in Workers, NEW j \in Jobs, Complete(w, j) PROVE Ledger'
  BY <1>15, ConstantsAssumption DEF TypeOK, Exclusive, RunsOwnTheirJob,
     NoDoubleProcessing, Ledger, NothingForgotten, Results, queueVars, resultVars,
     runVars, Complete, Settle, Reported, EndRun, Goto, ReleaseConnection
<1>16. ASSUME NEW w \in Workers, NEW j \in Jobs, Reject(w, j) PROVE Ledger'
  BY <1>16, ConstantsAssumption DEF TypeOK, Exclusive, RunsOwnTheirJob,
     NoDoubleProcessing, Ledger, NothingForgotten, Results, queueVars, resultVars,
     runVars, Reject, Settle, EndRun, Goto, ReleaseConnection
<1>17. ASSUME NEW w \in Workers, NEW j \in Jobs, TransientError(w, j) PROVE Ledger'
  BY <1>17, ConstantsAssumption DEF TypeOK, Exclusive, RunsOwnTheirJob,
     NoDoubleProcessing, Ledger, NothingForgotten, Results, queueVars, resultVars,
     runVars, TransientError, Fault, RetryLater, EndRun, Goto, ReleaseConnection
<1>18. ASSUME NEW w \in Workers, NEW j \in Jobs, JobTimeout(w, j) PROVE Ledger'
  BY <1>18, ConstantsAssumption DEF TypeOK, Exclusive, RunsOwnTheirJob,
     NoDoubleProcessing, Ledger, NothingForgotten, Results, queueVars, resultVars,
     runVars, JobTimeout, Fault, Settle, EndRun, Goto, ReleaseConnection
<1>19. ASSUME NEW w \in Workers, WorkerCrash(w) PROVE Ledger'
  BY <1>19, ConstantsAssumption DEF TypeOK, Exclusive, RunsOwnTheirJob,
     NoDoubleProcessing, Ledger, NothingForgotten, Results, queueVars, resultVars,
     runVars, WorkerCrash, Fault, StopWorker
<1>20. ASSUME NEW w \in Workers, WorkerShutdown(w) PROVE Ledger'
  BY <1>20, ConstantsAssumption DEF TypeOK, Exclusive, RunsOwnTheirJob,
     NoDoubleProcessing, Ledger, NothingForgotten, Results, queueVars, resultVars,
     runVars, WorkerShutdown, Fault, StopWorker, Active
<1>21. ASSUME NEW w \in Workers, WorkerStart(w) PROVE Ledger'
  BY <1>21, ConstantsAssumption DEF TypeOK, Exclusive, RunsOwnTheirJob,
     NoDoubleProcessing, Ledger, NothingForgotten, Results, queueVars, resultVars,
     runVars, WorkerStart
<1>22. CASE DbDown
  <2>1. UNCHANGED <<submitted, queue, deferred, locked, tries, result, credit,
                   dlq, conns, fresh, up, rows>>
    BY <1>22, DbDownBreaks
  <2> QED
    BY <1>22, <2>1, DbDownKeepsPhases DEF Exclusive, RunsOwnTheirJob,
       NoDoubleProcessing, Ledger, NothingForgotten
<1>23. CASE DbUp
  BY <1>23, ConstantsAssumption DEF TypeOK, Exclusive, RunsOwnTheirJob,
     NoDoubleProcessing, Ledger, NothingForgotten, Results, queueVars, resultVars,
     runVars, DbUp
<1>24. CASE UNCHANGED vars
  BY <1>24 DEF TypeOK, Exclusive, RunsOwnTheirJob, NoDoubleProcessing, Ledger,
     NothingForgotten, Results, vars, queueVars, resultVars, runVars
<1>25. ASSUME NEW w \in Workers, NEW j \in Jobs, Poll(w, j) \/ Step(w, j) PROVE Ledger'
  BY <1>25, <1>4, <1>5, <1>6, <1>7, <1>8, <1>9, <1>10, <1>11, <1>12, <1>13, <1>14,
     <1>15, <1>16 DEF Poll, Step
<1>26. CASE \E j \in Jobs : Enqueue(j) \/ BackoffElapsed(j) \/ LockExpires(j)
  BY <1>26, <1>1, <1>2, <1>3
<1>27. CASE \E w \in Workers, j \in Jobs :
              Poll(w, j) \/ Step(w, j) \/ TransientError(w, j) \/ JobTimeout(w, j)
  BY <1>27, <1>25, <1>17, <1>18
<1>28. CASE \E w \in Workers : WorkerCrash(w) \/ WorkerShutdown(w) \/ WorkerStart(w)
  BY <1>28, <1>19, <1>20, <1>21
<1> QED
  BY <1>22, <1>23, <1>24, <1>26, <1>27, <1>28 DEF Next

\* Phases, results and the dead-letter list keep telling the truth.
LEMMA TruthfulStep == TypeOK /\ Exclusive /\ Ledger /\ Truthful /\ [Next]_vars => Truthful'
<1> SUFFICES ASSUME TypeOK /\ Exclusive /\ Ledger /\ Truthful, [Next]_vars
             PROVE  Truthful'
  OBVIOUS
<1>1. ASSUME NEW j \in Jobs, Enqueue(j) PROVE Truthful'
  BY <1>1, ConstantsAssumption DEF TypeOK, Exclusive, RunsOwnTheirJob,
     NoDoubleProcessing, Ledger, NothingForgotten, Truthful, PhasesAreTruthful,
     CompletedIsDurable, DeadLettersAreTruthful, queueVars, resultVars, runVars, Enqueue
<1>2. ASSUME NEW j \in Jobs, BackoffElapsed(j) PROVE Truthful'
  BY <1>2, ConstantsAssumption DEF TypeOK, Exclusive, RunsOwnTheirJob,
     NoDoubleProcessing, Ledger, NothingForgotten, Truthful, PhasesAreTruthful,
     CompletedIsDurable, DeadLettersAreTruthful, queueVars, resultVars, runVars,
     BackoffElapsed
<1>3. ASSUME NEW j \in Jobs, LockExpires(j) PROVE Truthful'
  BY <1>3, ConstantsAssumption DEF TypeOK, Exclusive, RunsOwnTheirJob,
     NoDoubleProcessing, Ledger, NothingForgotten, Truthful, PhasesAreTruthful,
     CompletedIsDurable, DeadLettersAreTruthful, queueVars, resultVars, runVars,
     LockExpires
<1>4. ASSUME NEW w \in Workers, NEW j \in Jobs, Claim(w, j) PROVE Truthful'
  BY <1>4, ConstantsAssumption DEF TypeOK, Exclusive, RunsOwnTheirJob,
     NoDoubleProcessing, Ledger, NothingForgotten, Truthful, PhasesAreTruthful,
     CompletedIsDurable, DeadLettersAreTruthful, queueVars, resultVars, runVars, Claim,
     Claimable, Goto
<1>5. ASSUME NEW w \in Workers, NEW j \in Jobs, Abandon(w, j) PROVE Truthful'
  BY <1>5, ConstantsAssumption DEF TypeOK, Exclusive, RunsOwnTheirJob,
     NoDoubleProcessing, Ledger, NothingForgotten, Truthful, PhasesAreTruthful,
     CompletedIsDurable, DeadLettersAreTruthful, queueVars, resultVars, runVars,
     Abandon, Claimable, Settle, EndRun, Goto, ReleaseConnection
<1>6. ASSUME NEW w \in Workers, NEW j \in Jobs, DeadLetter(w, j) PROVE Truthful'
  BY <1>6, ConstantsAssumption DEF TypeOK, Exclusive, RunsOwnTheirJob,
     NoDoubleProcessing, Ledger, NothingForgotten, Truthful, PhasesAreTruthful,
     CompletedIsDurable, DeadLettersAreTruthful, queueVars, resultVars, runVars,
     DeadLetter, Goto
<1>7. ASSUME NEW w \in Workers, NEW j \in Jobs, SkipEmpty(w, j) PROVE Truthful'
  BY <1>7, ConstantsAssumption DEF TypeOK, Exclusive, RunsOwnTheirJob,
     NoDoubleProcessing, Ledger, NothingForgotten, Truthful, PhasesAreTruthful,
     CompletedIsDurable, DeadLettersAreTruthful, queueVars, resultVars, runVars,
     SkipEmpty, Goto
<1>8. ASSUME NEW w \in Workers, NEW j \in Jobs, RequestConnection(w, j) PROVE Truthful'
  BY <1>8, ConstantsAssumption DEF TypeOK, Exclusive, RunsOwnTheirJob,
     NoDoubleProcessing, Ledger, NothingForgotten, Truthful, PhasesAreTruthful,
     CompletedIsDurable, DeadLettersAreTruthful, queueVars, resultVars, runVars,
     RequestConnection, Goto
<1>9. ASSUME NEW w \in Workers, NEW j \in Jobs, Connect(w, j) PROVE Truthful'
  BY <1>9, ConstantsAssumption DEF TypeOK, Exclusive, RunsOwnTheirJob,
     NoDoubleProcessing, Ledger, NothingForgotten, Truthful, PhasesAreTruthful,
     CompletedIsDurable, DeadLettersAreTruthful, queueVars, resultVars, runVars,
     Connect, Goto
<1>10. ASSUME NEW w \in Workers, NEW j \in Jobs, ConnectTimeout(w, j) PROVE Truthful'
  BY <1>10, ConstantsAssumption DEF TypeOK, Exclusive, RunsOwnTheirJob,
     NoDoubleProcessing, Ledger, NothingForgotten, Truthful, PhasesAreTruthful,
     CompletedIsDurable, DeadLettersAreTruthful, queueVars, resultVars, runVars,
     ConnectTimeout, RetryLater, EndRun, Goto, ReleaseConnection
<1>11. ASSUME NEW w \in Workers, NEW j \in Jobs, Commit(w, j) PROVE Truthful'
  BY <1>11, ConstantsAssumption DEF TypeOK, Exclusive, RunsOwnTheirJob,
     NoDoubleProcessing, Ledger, NothingForgotten, Truthful, PhasesAreTruthful,
     CompletedIsDurable, DeadLettersAreTruthful, queueVars, resultVars, runVars, Commit,
     Goto
<1>12. ASSUME NEW w \in Workers, NEW j \in Jobs, Acknowledge(w, j) PROVE Truthful'
  BY <1>12, ConstantsAssumption DEF TypeOK, Exclusive, RunsOwnTheirJob,
     NoDoubleProcessing, Ledger, NothingForgotten, Truthful, PhasesAreTruthful,
     CompletedIsDurable, DeadLettersAreTruthful, queueVars, resultVars, runVars,
     Acknowledge, Goto, ReleaseConnection
<1>13. ASSUME NEW w \in Workers, NEW j \in Jobs, InsertRefused(w, j) PROVE Truthful'
  BY <1>13, ConstantsAssumption DEF TypeOK, Exclusive, RunsOwnTheirJob,
     NoDoubleProcessing, Ledger, NothingForgotten, Truthful, PhasesAreTruthful,
     CompletedIsDurable, DeadLettersAreTruthful, queueVars, resultVars, runVars,
     InsertRefused, Settle, EndRun, Goto, ReleaseConnection
<1>14. ASSUME NEW w \in Workers, NEW j \in Jobs, ConnectionLost(w, j) PROVE Truthful'
  BY <1>14, ConstantsAssumption DEF TypeOK, Exclusive, RunsOwnTheirJob,
     NoDoubleProcessing, Ledger, NothingForgotten, Truthful, PhasesAreTruthful,
     CompletedIsDurable, DeadLettersAreTruthful, queueVars, resultVars, runVars,
     ConnectionLost, RetryLater, EndRun, Goto, ReleaseConnection
<1>15. ASSUME NEW w \in Workers, NEW j \in Jobs, Complete(w, j) PROVE Truthful'
  BY <1>15, ConstantsAssumption DEF TypeOK, Exclusive, RunsOwnTheirJob,
     NoDoubleProcessing, Ledger, NothingForgotten, Truthful, PhasesAreTruthful,
     CompletedIsDurable, DeadLettersAreTruthful, queueVars, resultVars, runVars,
     Complete, Settle, Reported, EndRun, Goto, ReleaseConnection
<1>16. ASSUME NEW w \in Workers, NEW j \in Jobs, Reject(w, j) PROVE Truthful'
  BY <1>16, ConstantsAssumption DEF TypeOK, Exclusive, RunsOwnTheirJob,
     NoDoubleProcessing, Ledger, NothingForgotten, Truthful, PhasesAreTruthful,
     CompletedIsDurable, DeadLettersAreTruthful, queueVars, resultVars, runVars, Reject,
     Settle, EndRun, Goto, ReleaseConnection
<1>17. ASSUME NEW w \in Workers, NEW j \in Jobs, TransientError(w, j) PROVE Truthful'
  BY <1>17, ConstantsAssumption DEF TypeOK, Exclusive, RunsOwnTheirJob,
     NoDoubleProcessing, Ledger, NothingForgotten, Truthful, PhasesAreTruthful,
     CompletedIsDurable, DeadLettersAreTruthful, queueVars, resultVars, runVars,
     TransientError, Fault, RetryLater, EndRun, Goto, ReleaseConnection
<1>18. ASSUME NEW w \in Workers, NEW j \in Jobs, JobTimeout(w, j) PROVE Truthful'
  BY <1>18, ConstantsAssumption DEF TypeOK, Exclusive, RunsOwnTheirJob,
     NoDoubleProcessing, Ledger, NothingForgotten, Truthful, PhasesAreTruthful,
     CompletedIsDurable, DeadLettersAreTruthful, queueVars, resultVars, runVars,
     JobTimeout, Fault, Settle, EndRun, Goto, ReleaseConnection
<1>19. ASSUME NEW w \in Workers, WorkerCrash(w) PROVE Truthful'
  BY <1>19, ConstantsAssumption DEF TypeOK, Exclusive, RunsOwnTheirJob,
     NoDoubleProcessing, Ledger, NothingForgotten, Truthful, PhasesAreTruthful,
     CompletedIsDurable, DeadLettersAreTruthful, queueVars, resultVars, runVars,
     WorkerCrash, Fault, StopWorker
<1>20. ASSUME NEW w \in Workers, WorkerShutdown(w) PROVE Truthful'
  BY <1>20, ConstantsAssumption DEF TypeOK, Exclusive, RunsOwnTheirJob,
     NoDoubleProcessing, Ledger, NothingForgotten, Truthful, PhasesAreTruthful,
     CompletedIsDurable, DeadLettersAreTruthful, queueVars, resultVars, runVars,
     WorkerShutdown, Fault, StopWorker, Active
<1>21. ASSUME NEW w \in Workers, WorkerStart(w) PROVE Truthful'
  BY <1>21, ConstantsAssumption DEF TypeOK, Exclusive, RunsOwnTheirJob,
     NoDoubleProcessing, Ledger, NothingForgotten, Truthful, PhasesAreTruthful,
     CompletedIsDurable, DeadLettersAreTruthful, queueVars, resultVars, runVars,
     WorkerStart
<1>22. CASE DbDown
  <2>1. UNCHANGED <<submitted, queue, deferred, locked, tries, result, credit,
                   dlq, conns, fresh, up, rows>>
    BY <1>22, DbDownBreaks
  <2> QED
    BY <1>22, <2>1, DbDownKeepsPhases DEF Exclusive, RunsOwnTheirJob,
       NoDoubleProcessing, Ledger, NothingForgotten, Truthful, PhasesAreTruthful,
       CompletedIsDurable, DeadLettersAreTruthful
<1>23. CASE DbUp
  BY <1>23, ConstantsAssumption DEF TypeOK, Exclusive, RunsOwnTheirJob,
     NoDoubleProcessing, Ledger, NothingForgotten, Truthful, PhasesAreTruthful,
     CompletedIsDurable, DeadLettersAreTruthful, queueVars, resultVars, runVars, DbUp
<1>24. CASE UNCHANGED vars
  BY <1>24 DEF TypeOK, Exclusive, RunsOwnTheirJob, NoDoubleProcessing, Ledger,
     NothingForgotten, Truthful, PhasesAreTruthful, CompletedIsDurable,
     DeadLettersAreTruthful, vars, queueVars, resultVars, runVars
<1>25. ASSUME NEW w \in Workers, NEW j \in Jobs, Poll(w, j) \/ Step(w, j)
       PROVE  Truthful'
  BY <1>25, <1>4, <1>5, <1>6, <1>7, <1>8, <1>9, <1>10, <1>11, <1>12, <1>13, <1>14,
     <1>15, <1>16 DEF Poll, Step
<1>26. CASE \E j \in Jobs : Enqueue(j) \/ BackoffElapsed(j) \/ LockExpires(j)
  BY <1>26, <1>1, <1>2, <1>3
<1>27. CASE \E w \in Workers, j \in Jobs :
              Poll(w, j) \/ Step(w, j) \/ TransientError(w, j) \/ JobTimeout(w, j)
  BY <1>27, <1>25, <1>17, <1>18
<1>28. CASE \E w \in Workers : WorkerCrash(w) \/ WorkerShutdown(w) \/ WorkerStart(w)
  BY <1>28, <1>19, <1>20, <1>21
<1> QED
  BY <1>22, <1>23, <1>24, <1>26, <1>27, <1>28 DEF Next

\* Only Commit adds rows and it credits exactly those.
LEMMA CreditsStep == TypeOK /\ Credits /\ [Next]_vars => Credits'
<1> SUFFICES ASSUME TypeOK /\ Credits, [Next]_vars PROVE Credits'
  OBVIOUS
<1>1. ASSUME NEW j \in Jobs, Enqueue(j) PROVE Credits'
  BY <1>1, ConstantsAssumption DEF TypeOK, Credits, CreditsNeverOvercount,
     CreditsAreDistinct, queueVars, resultVars, runVars, Enqueue
<1>2. ASSUME NEW j \in Jobs, BackoffElapsed(j) PROVE Credits'
  BY <1>2, ConstantsAssumption DEF TypeOK, Credits, CreditsNeverOvercount,
     CreditsAreDistinct, queueVars, resultVars, runVars, BackoffElapsed
<1>3. ASSUME NEW j \in Jobs, LockExpires(j) PROVE Credits'
  BY <1>3, ConstantsAssumption DEF TypeOK, Credits, CreditsNeverOvercount,
     CreditsAreDistinct, queueVars, resultVars, runVars, LockExpires
<1>4. ASSUME NEW w \in Workers, NEW j \in Jobs, Claim(w, j) PROVE Credits'
  BY <1>4, ConstantsAssumption DEF TypeOK, Credits, CreditsNeverOvercount,
     CreditsAreDistinct, queueVars, resultVars, runVars, Claim, Claimable, Goto
<1>5. ASSUME NEW w \in Workers, NEW j \in Jobs, Abandon(w, j) PROVE Credits'
  BY <1>5, ConstantsAssumption DEF TypeOK, Credits, CreditsNeverOvercount,
     CreditsAreDistinct, queueVars, resultVars, runVars, Abandon, Claimable, Settle,
     EndRun, Goto, ReleaseConnection
<1>6. ASSUME NEW w \in Workers, NEW j \in Jobs, DeadLetter(w, j) PROVE Credits'
  BY <1>6, ConstantsAssumption DEF TypeOK, Credits, CreditsNeverOvercount,
     CreditsAreDistinct, queueVars, resultVars, runVars, DeadLetter, Goto
<1>7. ASSUME NEW w \in Workers, NEW j \in Jobs, SkipEmpty(w, j) PROVE Credits'
  BY <1>7, ConstantsAssumption DEF TypeOK, Credits, CreditsNeverOvercount,
     CreditsAreDistinct, queueVars, resultVars, runVars, SkipEmpty, Goto
<1>8. ASSUME NEW w \in Workers, NEW j \in Jobs, RequestConnection(w, j) PROVE Credits'
  BY <1>8, ConstantsAssumption DEF TypeOK, Credits, CreditsNeverOvercount,
     CreditsAreDistinct, queueVars, resultVars, runVars, RequestConnection, Goto
<1>9. ASSUME NEW w \in Workers, NEW j \in Jobs, Connect(w, j) PROVE Credits'
  BY <1>9, ConstantsAssumption DEF TypeOK, Credits, CreditsNeverOvercount,
     CreditsAreDistinct, queueVars, resultVars, runVars, Connect, Goto
<1>10. ASSUME NEW w \in Workers, NEW j \in Jobs, ConnectTimeout(w, j) PROVE Credits'
  BY <1>10, ConstantsAssumption DEF TypeOK, Credits, CreditsNeverOvercount,
     CreditsAreDistinct, queueVars, resultVars, runVars, ConnectTimeout, RetryLater,
     EndRun, Goto, ReleaseConnection
<1>11. ASSUME NEW w \in Workers, NEW j \in Jobs, Commit(w, j) PROVE Credits'
  BY <1>11, ConstantsAssumption DEF TypeOK, Credits, CreditsNeverOvercount,
     CreditsAreDistinct, queueVars, resultVars, runVars, Commit, Goto
<1>12. ASSUME NEW w \in Workers, NEW j \in Jobs, Acknowledge(w, j) PROVE Credits'
  BY <1>12, ConstantsAssumption DEF TypeOK, Credits, CreditsNeverOvercount,
     CreditsAreDistinct, queueVars, resultVars, runVars, Acknowledge, Goto,
     ReleaseConnection
<1>13. ASSUME NEW w \in Workers, NEW j \in Jobs, InsertRefused(w, j) PROVE Credits'
  BY <1>13, ConstantsAssumption DEF TypeOK, Credits, CreditsNeverOvercount,
     CreditsAreDistinct, queueVars, resultVars, runVars, InsertRefused, Settle, EndRun,
     Goto, ReleaseConnection
<1>14. ASSUME NEW w \in Workers, NEW j \in Jobs, ConnectionLost(w, j) PROVE Credits'
  BY <1>14, ConstantsAssumption DEF TypeOK, Credits, CreditsNeverOvercount,
     CreditsAreDistinct, queueVars, resultVars, runVars, ConnectionLost, RetryLater,
     EndRun, Goto, ReleaseConnection
<1>15. ASSUME NEW w \in Workers, NEW j \in Jobs, Complete(w, j) PROVE Credits'
  BY <1>15, ConstantsAssumption DEF TypeOK, Credits, CreditsNeverOvercount,
     CreditsAreDistinct, queueVars, resultVars, runVars, Complete, Settle, Reported,
     EndRun, Goto, ReleaseConnection
<1>16. ASSUME NEW w \in Workers, NEW j \in Jobs, Reject(w, j) PROVE Credits'
  BY <1>16, ConstantsAssumption DEF TypeOK, Credits, CreditsNeverOvercount,
     CreditsAreDistinct, queueVars, resultVars, runVars, Reject, Settle, EndRun, Goto,
     ReleaseConnection
<1>17. ASSUME NEW w \in Workers, NEW j \in Jobs, TransientError(w, j) PROVE Credits'
  BY <1>17, ConstantsAssumption DEF TypeOK, Credits, CreditsNeverOvercount,
     CreditsAreDistinct, queueVars, resultVars, runVars, TransientError, Fault,
     RetryLater, EndRun, Goto, ReleaseConnection
<1>18. ASSUME NEW w \in Workers, NEW j \in Jobs, JobTimeout(w, j) PROVE Credits'
  BY <1>18, ConstantsAssumption DEF TypeOK, Credits, CreditsNeverOvercount,
     CreditsAreDistinct, queueVars, resultVars, runVars, JobTimeout, Fault, Settle,
     EndRun, Goto, ReleaseConnection
<1>19. ASSUME NEW w \in Workers, WorkerCrash(w) PROVE Credits'
  BY <1>19, ConstantsAssumption DEF TypeOK, Credits, CreditsNeverOvercount,
     CreditsAreDistinct, queueVars, resultVars, runVars, WorkerCrash, Fault, StopWorker
<1>20. ASSUME NEW w \in Workers, WorkerShutdown(w) PROVE Credits'
  BY <1>20, ConstantsAssumption DEF TypeOK, Credits, CreditsNeverOvercount,
     CreditsAreDistinct, queueVars, resultVars, runVars, WorkerShutdown, Fault,
     StopWorker, Active
<1>21. ASSUME NEW w \in Workers, WorkerStart(w) PROVE Credits'
  BY <1>21, ConstantsAssumption DEF TypeOK, Credits, CreditsNeverOvercount,
     CreditsAreDistinct, queueVars, resultVars, runVars, WorkerStart
<1>22. CASE DbDown
  <2>1. UNCHANGED <<submitted, queue, deferred, locked, tries, result, credit,
                   dlq, conns, fresh, up, rows>>
    BY <1>22, DbDownBreaks
  <2> QED
    BY <1>22, <2>1, DbDownKeepsPhases DEF Credits, CreditsNeverOvercount,
       CreditsAreDistinct
<1>23. CASE DbUp
  BY <1>23, ConstantsAssumption DEF TypeOK, Credits, CreditsNeverOvercount,
     CreditsAreDistinct, queueVars, resultVars, runVars, DbUp
<1>24. CASE UNCHANGED vars
  BY <1>24 DEF TypeOK, Credits, CreditsNeverOvercount, CreditsAreDistinct, vars,
     queueVars, resultVars, runVars
<1>25. ASSUME NEW w \in Workers, NEW j \in Jobs, Poll(w, j) \/ Step(w, j) PROVE Credits'
  BY <1>25, <1>4, <1>5, <1>6, <1>7, <1>8, <1>9, <1>10, <1>11, <1>12, <1>13, <1>14,
     <1>15, <1>16 DEF Poll, Step
<1>26. CASE \E j \in Jobs : Enqueue(j) \/ BackoffElapsed(j) \/ LockExpires(j)
  BY <1>26, <1>1, <1>2, <1>3
<1>27. CASE \E w \in Workers, j \in Jobs :
              Poll(w, j) \/ Step(w, j) \/ TransientError(w, j) \/ JobTimeout(w, j)
  BY <1>27, <1>25, <1>17, <1>18
<1>28. CASE \E w \in Workers : WorkerCrash(w) \/ WorkerShutdown(w) \/ WorkerStart(w)
  BY <1>28, <1>19, <1>20, <1>21
<1> QED
  BY <1>22, <1>23, <1>24, <1>26, <1>27, <1>28 DEF Next

\* Only Abandon and InsertRefused fail a job.
LEMMA GivenUpStep ==
  TypeOK /\ Exclusive /\ Ledger /\ GivenUpOnlyWhenExhausted /\ [Next]_vars
    => GivenUpOnlyWhenExhausted'
<1> SUFFICES ASSUME TypeOK /\ Exclusive /\ Ledger /\ GivenUpOnlyWhenExhausted, [Next]_vars
             PROVE  GivenUpOnlyWhenExhausted'
  OBVIOUS
<1>1. ASSUME NEW j \in Jobs, Enqueue(j) PROVE GivenUpOnlyWhenExhausted'
  BY <1>1, ConstantsAssumption DEF TypeOK, Exclusive, RunsOwnTheirJob, Ledger,
     NothingForgotten, GivenUpOnlyWhenExhausted, queueVars, resultVars, runVars, Enqueue
<1>2. ASSUME NEW j \in Jobs, BackoffElapsed(j) PROVE GivenUpOnlyWhenExhausted'
  BY <1>2, ConstantsAssumption DEF TypeOK, Exclusive, RunsOwnTheirJob, Ledger,
     NothingForgotten, GivenUpOnlyWhenExhausted, queueVars, resultVars, runVars,
     BackoffElapsed
<1>3. ASSUME NEW j \in Jobs, LockExpires(j) PROVE GivenUpOnlyWhenExhausted'
  BY <1>3, ConstantsAssumption DEF TypeOK, Exclusive, RunsOwnTheirJob, Ledger,
     NothingForgotten, GivenUpOnlyWhenExhausted, queueVars, resultVars, runVars,
     LockExpires
<1>4. ASSUME NEW w \in Workers, NEW j \in Jobs, Claim(w, j)
      PROVE  GivenUpOnlyWhenExhausted'
  BY <1>4, ConstantsAssumption DEF TypeOK, Exclusive, RunsOwnTheirJob, Ledger,
     NothingForgotten, GivenUpOnlyWhenExhausted, queueVars, resultVars, runVars, Claim,
     Claimable, Goto
<1>5. ASSUME NEW w \in Workers, NEW j \in Jobs, Abandon(w, j)
      PROVE  GivenUpOnlyWhenExhausted'
  <2>1. tries[j] \in 0..MaxJobAttempts /\ MaxJobAttempts \in Nat
    BY ConstantsAssumption DEF TypeOK
  <2>2. tries[j] = MaxJobAttempts
    BY <1>5, <2>1 DEF Abandon
  <2>3. tries' = tries /\ result' = [result EXCEPT ![j] = "failed"]
    BY <1>5 DEF Abandon, Settle
  <2> QED
    BY <2>2, <2>3 DEF GivenUpOnlyWhenExhausted, TypeOK
<1>6. ASSUME NEW w \in Workers, NEW j \in Jobs, DeadLetter(w, j)
      PROVE  GivenUpOnlyWhenExhausted'
  BY <1>6, ConstantsAssumption DEF TypeOK, Exclusive, RunsOwnTheirJob, Ledger,
     NothingForgotten, GivenUpOnlyWhenExhausted, queueVars, resultVars, runVars,
     DeadLetter, Goto
<1>7. ASSUME NEW w \in Workers, NEW j \in Jobs, SkipEmpty(w, j)
      PROVE  GivenUpOnlyWhenExhausted'
  BY <1>7, ConstantsAssumption DEF TypeOK, Exclusive, RunsOwnTheirJob, Ledger,
     NothingForgotten, GivenUpOnlyWhenExhausted, queueVars, resultVars, runVars,
     SkipEmpty, Goto
<1>8. ASSUME NEW w \in Workers, NEW j \in Jobs, RequestConnection(w, j)
      PROVE  GivenUpOnlyWhenExhausted'
  BY <1>8, ConstantsAssumption DEF TypeOK, Exclusive, RunsOwnTheirJob, Ledger,
     NothingForgotten, GivenUpOnlyWhenExhausted, queueVars, resultVars, runVars,
     RequestConnection, Goto
<1>9. ASSUME NEW w \in Workers, NEW j \in Jobs, Connect(w, j)
      PROVE  GivenUpOnlyWhenExhausted'
  BY <1>9, ConstantsAssumption DEF TypeOK, Exclusive, RunsOwnTheirJob, Ledger,
     NothingForgotten, GivenUpOnlyWhenExhausted, queueVars, resultVars, runVars,
     Connect, Goto
<1>10. ASSUME NEW w \in Workers, NEW j \in Jobs, ConnectTimeout(w, j)
       PROVE  GivenUpOnlyWhenExhausted'
  BY <1>10, ConstantsAssumption DEF TypeOK, Exclusive, RunsOwnTheirJob, Ledger,
     NothingForgotten, GivenUpOnlyWhenExhausted, queueVars, resultVars, runVars,
     ConnectTimeout, RetryLater, EndRun, Goto, ReleaseConnection
<1>11. ASSUME NEW w \in Workers, NEW j \in Jobs, Commit(w, j)
       PROVE  GivenUpOnlyWhenExhausted'
  BY <1>11, ConstantsAssumption DEF TypeOK, Exclusive, RunsOwnTheirJob, Ledger,
     NothingForgotten, GivenUpOnlyWhenExhausted, queueVars, resultVars, runVars, Commit,
     Goto
<1>12. ASSUME NEW w \in Workers, NEW j \in Jobs, Acknowledge(w, j)
       PROVE  GivenUpOnlyWhenExhausted'
  BY <1>12, ConstantsAssumption DEF TypeOK, Exclusive, RunsOwnTheirJob, Ledger,
     NothingForgotten, GivenUpOnlyWhenExhausted, queueVars, resultVars, runVars,
     Acknowledge, Goto, ReleaseConnection
<1>13. ASSUME NEW w \in Workers, NEW j \in Jobs, InsertRefused(w, j)
       PROVE  GivenUpOnlyWhenExhausted'
  BY <1>13, ConstantsAssumption DEF TypeOK, Exclusive, RunsOwnTheirJob, Ledger,
     NothingForgotten, GivenUpOnlyWhenExhausted, queueVars, resultVars, runVars,
     InsertRefused, Settle, EndRun, Goto, ReleaseConnection
<1>14. ASSUME NEW w \in Workers, NEW j \in Jobs, ConnectionLost(w, j)
       PROVE  GivenUpOnlyWhenExhausted'
  BY <1>14, ConstantsAssumption DEF TypeOK, Exclusive, RunsOwnTheirJob, Ledger,
     NothingForgotten, GivenUpOnlyWhenExhausted, queueVars, resultVars, runVars,
     ConnectionLost, RetryLater, EndRun, Goto, ReleaseConnection
<1>15. ASSUME NEW w \in Workers, NEW j \in Jobs, Complete(w, j)
       PROVE  GivenUpOnlyWhenExhausted'
  BY <1>15, ConstantsAssumption DEF TypeOK, Exclusive, RunsOwnTheirJob, Ledger,
     NothingForgotten, GivenUpOnlyWhenExhausted, queueVars, resultVars, runVars,
     Complete, Settle, Reported, EndRun, Goto, ReleaseConnection
<1>16. ASSUME NEW w \in Workers, NEW j \in Jobs, Reject(w, j)
       PROVE  GivenUpOnlyWhenExhausted'
  BY <1>16, ConstantsAssumption DEF TypeOK, Exclusive, RunsOwnTheirJob, Ledger,
     NothingForgotten, GivenUpOnlyWhenExhausted, queueVars, resultVars, runVars, Reject,
     Settle, EndRun, Goto, ReleaseConnection
<1>17. ASSUME NEW w \in Workers, NEW j \in Jobs, TransientError(w, j)
       PROVE  GivenUpOnlyWhenExhausted'
  BY <1>17, ConstantsAssumption DEF TypeOK, Exclusive, RunsOwnTheirJob, Ledger,
     NothingForgotten, GivenUpOnlyWhenExhausted, queueVars, resultVars, runVars,
     TransientError, Fault, RetryLater, EndRun, Goto, ReleaseConnection
<1>18. ASSUME NEW w \in Workers, NEW j \in Jobs, JobTimeout(w, j)
       PROVE  GivenUpOnlyWhenExhausted'
  BY <1>18, ConstantsAssumption DEF TypeOK, Exclusive, RunsOwnTheirJob, Ledger,
     NothingForgotten, GivenUpOnlyWhenExhausted, queueVars, resultVars, runVars,
     JobTimeout, Fault, Settle, EndRun, Goto, ReleaseConnection
<1>19. ASSUME NEW w \in Workers, WorkerCrash(w) PROVE GivenUpOnlyWhenExhausted'
  BY <1>19, ConstantsAssumption DEF TypeOK, Exclusive, RunsOwnTheirJob, Ledger,
     NothingForgotten, GivenUpOnlyWhenExhausted, queueVars, resultVars, runVars,
     WorkerCrash, Fault, StopWorker
<1>20. ASSUME NEW w \in Workers, WorkerShutdown(w) PROVE GivenUpOnlyWhenExhausted'
  BY <1>20, ConstantsAssumption DEF TypeOK, Exclusive, RunsOwnTheirJob, Ledger,
     NothingForgotten, GivenUpOnlyWhenExhausted, queueVars, resultVars, runVars,
     WorkerShutdown, Fault, StopWorker, Active
<1>21. ASSUME NEW w \in Workers, WorkerStart(w) PROVE GivenUpOnlyWhenExhausted'
  BY <1>21, ConstantsAssumption DEF TypeOK, Exclusive, RunsOwnTheirJob, Ledger,
     NothingForgotten, GivenUpOnlyWhenExhausted, queueVars, resultVars, runVars,
     WorkerStart
<1>22. CASE DbDown
  <2>1. UNCHANGED <<submitted, queue, deferred, locked, tries, result, credit,
                   dlq, conns, fresh, up, rows>>
    BY <1>22, DbDownBreaks
  <2> QED
    BY <1>22, <2>1, DbDownKeepsPhases DEF Exclusive, RunsOwnTheirJob, Ledger,
       NothingForgotten, GivenUpOnlyWhenExhausted
<1>23. CASE DbUp
  BY <1>23, ConstantsAssumption DEF TypeOK, Exclusive, RunsOwnTheirJob, Ledger,
     NothingForgotten, GivenUpOnlyWhenExhausted, queueVars, resultVars, runVars, DbUp
<1>24. CASE UNCHANGED vars
  BY <1>24 DEF TypeOK, Exclusive, RunsOwnTheirJob, Ledger, NothingForgotten,
     GivenUpOnlyWhenExhausted, vars, queueVars, resultVars, runVars
<1>25. ASSUME NEW w \in Workers, NEW j \in Jobs, Poll(w, j) \/ Step(w, j)
       PROVE  GivenUpOnlyWhenExhausted'
  BY <1>25, <1>4, <1>5, <1>6, <1>7, <1>8, <1>9, <1>10, <1>11, <1>12, <1>13, <1>14,
     <1>15, <1>16 DEF Poll, Step
<1>26. CASE \E j \in Jobs : Enqueue(j) \/ BackoffElapsed(j) \/ LockExpires(j)
  BY <1>26, <1>1, <1>2, <1>3
<1>27. CASE \E w \in Workers, j \in Jobs :
              Poll(w, j) \/ Step(w, j) \/ TransientError(w, j) \/ JobTimeout(w, j)
  BY <1>27, <1>25, <1>17, <1>18
<1>28. CASE \E w \in Workers : WorkerCrash(w) \/ WorkerShutdown(w) \/ WorkerStart(w)
  BY <1>28, <1>19, <1>20, <1>21
<1> QED
  BY <1>22, <1>23, <1>24, <1>26, <1>27, <1>28 DEF Next

\* Only Claim makes a run of an idle pair.
RunsStartByClaim ==
  \A w \in Workers, j \in Jobs :
    run[w][j] = "idle" /\ run'[w][j] # "idle" => Claim(w, j)

\* A run starts with the claim of its job: tries, locks and max_jobs are
\* accounted for there.
LEMMA RunsStart == TypeOK /\ [Next]_vars => RunsStartByClaim
<1> SUFFICES ASSUME TypeOK, [Next]_vars PROVE RunsStartByClaim
  OBVIOUS
<1>1. ASSUME NEW j \in Jobs, Enqueue(j) PROVE RunsStartByClaim
  BY <1>1, ConstantsAssumption DEF TypeOK, RunsStartByClaim, queueVars, resultVars,
     runVars, Enqueue
<1>2. ASSUME NEW j \in Jobs, BackoffElapsed(j) PROVE RunsStartByClaim
  BY <1>2, ConstantsAssumption DEF TypeOK, RunsStartByClaim, queueVars, resultVars,
     runVars, BackoffElapsed
<1>3. ASSUME NEW j \in Jobs, LockExpires(j) PROVE RunsStartByClaim
  BY <1>3, ConstantsAssumption DEF TypeOK, RunsStartByClaim, queueVars, resultVars,
     runVars, LockExpires
<1>4. ASSUME NEW w \in Workers, NEW j \in Jobs, Claim(w, j) PROVE RunsStartByClaim
  BY <1>4 DEF RunsStartByClaim, Claim, Goto, TypeOK
<1>5. ASSUME NEW w \in Workers, NEW j \in Jobs, Abandon(w, j) PROVE RunsStartByClaim
  BY <1>5, ConstantsAssumption DEF TypeOK, RunsStartByClaim, queueVars, resultVars,
     runVars, Abandon, Claimable, Settle, EndRun, Goto, ReleaseConnection
<1>6. ASSUME NEW w \in Workers, NEW j \in Jobs, DeadLetter(w, j) PROVE RunsStartByClaim
  BY <1>6, ConstantsAssumption DEF TypeOK, RunsStartByClaim, queueVars, resultVars,
     runVars, DeadLetter, Goto
<1>7. ASSUME NEW w \in Workers, NEW j \in Jobs, SkipEmpty(w, j) PROVE RunsStartByClaim
  BY <1>7, ConstantsAssumption DEF TypeOK, RunsStartByClaim, queueVars, resultVars,
     runVars, SkipEmpty, Goto
<1>8. ASSUME NEW w \in Workers, NEW j \in Jobs, RequestConnection(w, j)
      PROVE  RunsStartByClaim
  BY <1>8, ConstantsAssumption DEF TypeOK, RunsStartByClaim, queueVars, resultVars,
     runVars, RequestConnection, Goto
<1>9. ASSUME NEW w \in Workers, NEW j \in Jobs, Connect(w, j) PROVE RunsStartByClaim
  BY <1>9, ConstantsAssumption DEF TypeOK, RunsStartByClaim, queueVars, resultVars,
     runVars, Connect, Goto
<1>10. ASSUME NEW w \in Workers, NEW j \in Jobs, ConnectTimeout(w, j)
       PROVE  RunsStartByClaim
  BY <1>10, ConstantsAssumption DEF TypeOK, RunsStartByClaim, queueVars, resultVars,
     runVars, ConnectTimeout, RetryLater, EndRun, Goto, ReleaseConnection
<1>11. ASSUME NEW w \in Workers, NEW j \in Jobs, Commit(w, j) PROVE RunsStartByClaim
  BY <1>11, ConstantsAssumption DEF TypeOK, RunsStartByClaim, queueVars, resultVars,
     runVars, Commit, Goto
<1>12. ASSUME NEW w \in Workers, NEW j \in Jobs, Acknowledge(w, j)
       PROVE  RunsStartByClaim
  BY <1>12, ConstantsAssumption DEF TypeOK, RunsStartByClaim, queueVars, resultVars,
     runVars, Acknowledge, Goto, ReleaseConnection
<1>13. ASSUME NEW w \in Workers, NEW j \in Jobs, InsertRefused(w, j)
       PROVE  RunsStartByClaim
  BY <1>13, ConstantsAssumption DEF TypeOK, RunsStartByClaim, queueVars, resultVars,
     runVars, InsertRefused, Settle, EndRun, Goto, ReleaseConnection
<1>14. ASSUME NEW w \in Workers, NEW j \in Jobs, ConnectionLost(w, j)
       PROVE  RunsStartByClaim
  BY <1>14, ConstantsAssumption DEF TypeOK, RunsStartByClaim, queueVars, resultVars,
     runVars, ConnectionLost, RetryLater, EndRun, Goto, ReleaseConnection
<1>15. ASSUME NEW w \in Workers, NEW j \in Jobs, Complete(w, j) PROVE RunsStartByClaim
  BY <1>15, ConstantsAssumption DEF TypeOK, RunsStartByClaim, queueVars, resultVars,
     runVars, Complete, Settle, Reported, EndRun, Goto, ReleaseConnection
<1>16. ASSUME NEW w \in Workers, NEW j \in Jobs, Reject(w, j) PROVE RunsStartByClaim
  BY <1>16, ConstantsAssumption DEF TypeOK, RunsStartByClaim, queueVars, resultVars,
     runVars, Reject, Settle, EndRun, Goto, ReleaseConnection
<1>17. ASSUME NEW w \in Workers, NEW j \in Jobs, TransientError(w, j)
       PROVE  RunsStartByClaim
  BY <1>17, ConstantsAssumption DEF TypeOK, RunsStartByClaim, queueVars, resultVars,
     runVars, TransientError, Fault, RetryLater, EndRun, Goto, ReleaseConnection
<1>18. ASSUME NEW w \in Workers, NEW j \in Jobs, JobTimeout(w, j) PROVE RunsStartByClaim
  BY <1>18, ConstantsAssumption DEF TypeOK, RunsStartByClaim, queueVars, resultVars,
     runVars, JobTimeout, Fault, Settle, EndRun, Goto, ReleaseConnection
<1>19. ASSUME NEW w \in Workers, WorkerCrash(w) PROVE RunsStartByClaim
  BY <1>19, ConstantsAssumption DEF TypeOK, RunsStartByClaim, queueVars, resultVars,
     runVars, WorkerCrash, Fault, StopWorker
<1>20. ASSUME NEW w \in Workers, WorkerShutdown(w) PROVE RunsStartByClaim
  BY <1>20, ConstantsAssumption DEF TypeOK, RunsStartByClaim, queueVars, resultVars,
     runVars, WorkerShutdown, Fault, StopWorker, Active
<1>21. ASSUME NEW w \in Workers, WorkerStart(w) PROVE RunsStartByClaim
  BY <1>21, ConstantsAssumption DEF TypeOK, RunsStartByClaim, queueVars, resultVars,
     runVars, WorkerStart
<1>22. CASE DbDown
  BY <1>22, DbDownKeepsPhases DEF RunsStartByClaim
<1>23. CASE DbUp
  BY <1>23, ConstantsAssumption DEF TypeOK, RunsStartByClaim, queueVars, resultVars,
     runVars, DbUp
<1>24. CASE UNCHANGED vars
  BY <1>24 DEF TypeOK, RunsStartByClaim, vars, queueVars, resultVars, runVars
<1>25. ASSUME NEW w \in Workers, NEW j \in Jobs, Poll(w, j) \/ Step(w, j)
       PROVE  RunsStartByClaim
  BY <1>25, <1>4, <1>5, <1>6, <1>7, <1>8, <1>9, <1>10, <1>11, <1>12, <1>13, <1>14,
     <1>15, <1>16 DEF Poll, Step
<1>26. CASE \E j \in Jobs : Enqueue(j) \/ BackoffElapsed(j) \/ LockExpires(j)
  BY <1>26, <1>1, <1>2, <1>3
<1>27. CASE \E w \in Workers, j \in Jobs :
              Poll(w, j) \/ Step(w, j) \/ TransientError(w, j) \/ JobTimeout(w, j)
  BY <1>27, <1>25, <1>17, <1>18
<1>28. CASE \E w \in Workers : WorkerCrash(w) \/ WorkerShutdown(w) \/ WorkerStart(w)
  BY <1>28, <1>19, <1>20, <1>21
<1> QED
  BY <1>22, <1>23, <1>24, <1>26, <1>27, <1>28 DEF Next

\* A connection is released on every path out of a run.
LEMMA ConnectionsStep ==
  TypeOK /\ RunsOwnTheirJob /\ ConnectionsAreHeld /\ [Next]_vars => ConnectionsAreHeld'
<1> SUFFICES ASSUME TypeOK /\ RunsOwnTheirJob /\ ConnectionsAreHeld, [Next]_vars
             PROVE  ConnectionsAreHeld'
  OBVIOUS
<1>1. ASSUME NEW j \in Jobs, Enqueue(j) PROVE ConnectionsAreHeld'
  BY <1>1, ConstantsAssumption DEF TypeOK, RunsOwnTheirJob, ConnectionsAreHeld, Holding,
     queueVars, resultVars, runVars, Enqueue
<1>2. ASSUME NEW j \in Jobs, BackoffElapsed(j) PROVE ConnectionsAreHeld'
  BY <1>2, ConstantsAssumption DEF TypeOK, RunsOwnTheirJob, ConnectionsAreHeld, Holding,
     queueVars, resultVars, runVars, BackoffElapsed
<1>3. ASSUME NEW j \in Jobs, LockExpires(j) PROVE ConnectionsAreHeld'
  BY <1>3, ConstantsAssumption DEF TypeOK, RunsOwnTheirJob, ConnectionsAreHeld, Holding,
     queueVars, resultVars, runVars, LockExpires
<1>4. ASSUME NEW w \in Workers, NEW j \in Jobs, Claim(w, j) PROVE ConnectionsAreHeld'
  BY <1>4, ConstantsAssumption DEF TypeOK, RunsOwnTheirJob, ConnectionsAreHeld, Holding,
     queueVars, resultVars, runVars, Claim, Claimable, Goto
<1>5. ASSUME NEW w \in Workers, NEW j \in Jobs, Abandon(w, j) PROVE ConnectionsAreHeld'
  BY <1>5, ConstantsAssumption DEF TypeOK, RunsOwnTheirJob, ConnectionsAreHeld, Holding,
     queueVars, resultVars, runVars, Abandon, Claimable, Settle, EndRun, Goto,
     ReleaseConnection
<1>6. ASSUME NEW w \in Workers, NEW j \in Jobs, DeadLetter(w, j)
      PROVE  ConnectionsAreHeld'
  BY <1>6, ConstantsAssumption DEF TypeOK, RunsOwnTheirJob, ConnectionsAreHeld, Holding,
     queueVars, resultVars, runVars, DeadLetter, Goto
<1>7. ASSUME NEW w \in Workers, NEW j \in Jobs, SkipEmpty(w, j)
      PROVE  ConnectionsAreHeld'
  BY <1>7, ConstantsAssumption DEF TypeOK, RunsOwnTheirJob, ConnectionsAreHeld, Holding,
     queueVars, resultVars, runVars, SkipEmpty, Goto
<1>8. ASSUME NEW w \in Workers, NEW j \in Jobs, RequestConnection(w, j)
      PROVE  ConnectionsAreHeld'
  BY <1>8, ConstantsAssumption DEF TypeOK, RunsOwnTheirJob, ConnectionsAreHeld, Holding,
     queueVars, resultVars, runVars, RequestConnection, Goto
<1>9. ASSUME NEW w \in Workers, NEW j \in Jobs, Connect(w, j) PROVE ConnectionsAreHeld'
  BY <1>9, ConstantsAssumption DEF TypeOK, RunsOwnTheirJob, ConnectionsAreHeld, Holding,
     queueVars, resultVars, runVars, Connect, Goto
<1>10. ASSUME NEW w \in Workers, NEW j \in Jobs, ConnectTimeout(w, j)
       PROVE  ConnectionsAreHeld'
  BY <1>10, ConstantsAssumption DEF TypeOK, RunsOwnTheirJob, ConnectionsAreHeld,
     Holding, queueVars, resultVars, runVars, ConnectTimeout, RetryLater, EndRun, Goto,
     ReleaseConnection
<1>11. ASSUME NEW w \in Workers, NEW j \in Jobs, Commit(w, j) PROVE ConnectionsAreHeld'
  BY <1>11, ConstantsAssumption DEF TypeOK, RunsOwnTheirJob, ConnectionsAreHeld,
     Holding, queueVars, resultVars, runVars, Commit, Goto
<1>12. ASSUME NEW w \in Workers, NEW j \in Jobs, Acknowledge(w, j)
       PROVE  ConnectionsAreHeld'
  BY <1>12, ConstantsAssumption DEF TypeOK, RunsOwnTheirJob, ConnectionsAreHeld,
     Holding, queueVars, resultVars, runVars, Acknowledge, Goto, ReleaseConnection
<1>13. ASSUME NEW w \in Workers, NEW j \in Jobs, InsertRefused(w, j)
       PROVE  ConnectionsAreHeld'
  BY <1>13, ConstantsAssumption DEF TypeOK, RunsOwnTheirJob, ConnectionsAreHeld,
     Holding, queueVars, resultVars, runVars, InsertRefused, Settle, EndRun, Goto,
     ReleaseConnection
<1>14. ASSUME NEW w \in Workers, NEW j \in Jobs, ConnectionLost(w, j)
       PROVE  ConnectionsAreHeld'
  BY <1>14, ConstantsAssumption DEF TypeOK, RunsOwnTheirJob, ConnectionsAreHeld,
     Holding, queueVars, resultVars, runVars, ConnectionLost, RetryLater, EndRun, Goto,
     ReleaseConnection
<1>15. ASSUME NEW w \in Workers, NEW j \in Jobs, Complete(w, j)
       PROVE  ConnectionsAreHeld'
  BY <1>15, ConstantsAssumption DEF TypeOK, RunsOwnTheirJob, ConnectionsAreHeld,
     Holding, queueVars, resultVars, runVars, Complete, Settle, Reported, EndRun, Goto,
     ReleaseConnection
<1>16. ASSUME NEW w \in Workers, NEW j \in Jobs, Reject(w, j) PROVE ConnectionsAreHeld'
  BY <1>16, ConstantsAssumption DEF TypeOK, RunsOwnTheirJob, ConnectionsAreHeld,
     Holding, queueVars, resultVars, runVars, Reject, Settle, EndRun, Goto,
     ReleaseConnection
<1>17. ASSUME NEW w \in Workers, NEW j \in Jobs, TransientError(w, j)
       PROVE  ConnectionsAreHeld'
  BY <1>17, ConstantsAssumption DEF TypeOK, RunsOwnTheirJob, ConnectionsAreHeld,
     Holding, queueVars, resultVars, runVars, TransientError, Fault, RetryLater, EndRun,
     Goto, ReleaseConnection
<1>18. ASSUME NEW w \in Workers, NEW j \in Jobs, JobTimeout(w, j)
       PROVE  ConnectionsAreHeld'
  BY <1>18, ConstantsAssumption DEF TypeOK, RunsOwnTheirJob, ConnectionsAreHeld,
     Holding, queueVars, resultVars, runVars, JobTimeout, Fault, Settle, EndRun, Goto,
     ReleaseConnection
<1>19. ASSUME NEW w \in Workers, WorkerCrash(w) PROVE ConnectionsAreHeld'
  BY <1>19, ConstantsAssumption DEF TypeOK, RunsOwnTheirJob, ConnectionsAreHeld,
     Holding, queueVars, resultVars, runVars, WorkerCrash, Fault, StopWorker
<1>20. ASSUME NEW w \in Workers, WorkerShutdown(w) PROVE ConnectionsAreHeld'
  BY <1>20, ConstantsAssumption DEF TypeOK, RunsOwnTheirJob, ConnectionsAreHeld,
     Holding, queueVars, resultVars, runVars, WorkerShutdown, Fault, StopWorker, Active
<1>21. ASSUME NEW w \in Workers, WorkerStart(w) PROVE ConnectionsAreHeld'
  BY <1>21, ConstantsAssumption DEF TypeOK, RunsOwnTheirJob, ConnectionsAreHeld,
     Holding, queueVars, resultVars, runVars, WorkerStart
<1>22. CASE DbDown
  <2>1. \A w \in Workers : conns'[w] = conns[w] /\ conns[w] \subseteq Jobs
    BY <1>22, DbDownBreaks DEF TypeOK
  <2> QED
    BY <1>22, <2>1, DbDownKeepsPhases DEF ConnectionsAreHeld
<1>23. CASE DbUp
  BY <1>23, ConstantsAssumption DEF TypeOK, RunsOwnTheirJob, ConnectionsAreHeld,
     Holding, queueVars, resultVars, runVars, DbUp
<1>24. CASE UNCHANGED vars
  BY <1>24 DEF TypeOK, RunsOwnTheirJob, ConnectionsAreHeld, Holding, vars, queueVars,
     resultVars, runVars
<1>25. ASSUME NEW w \in Workers, NEW j \in Jobs, Poll(w, j) \/ Step(w, j)
       PROVE  ConnectionsAreHeld'
  BY <1>25, <1>4, <1>5, <1>6, <1>7, <1>8, <1>9, <1>10, <1>11, <1>12, <1>13, <1>14,
     <1>15, <1>16 DEF Poll, Step
<1>26. CASE \E j \in Jobs : Enqueue(j) \/ BackoffElapsed(j) \/ LockExpires(j)
  BY <1>26, <1>1, <1>2, <1>3
<1>27. CASE \E w \in Workers, j \in Jobs :
              Poll(w, j) \/ Step(w, j) \/ TransientError(w, j) \/ JobTimeout(w, j)
  BY <1>27, <1>25, <1>17, <1>18
<1>28. CASE \E w \in Workers : WorkerCrash(w) \/ WorkerShutdown(w) \/ WorkerStart(w)
  BY <1>28, <1>19, <1>20, <1>21
<1> QED
  BY <1>22, <1>23, <1>24, <1>26, <1>27, <1>28 DEF Next

\* max_jobs bounds the runs of a worker: Claim checks it, nothing else adds one.
LEMMA ConcurrencyStep == TypeOK /\ ConcurrencyIsBounded /\ [Next]_vars => ConcurrencyIsBounded'
<1> SUFFICES ASSUME TypeOK, ConcurrencyIsBounded, [Next]_vars, NEW w \in Workers
             PROVE  Cardinality(Active(w)') <= MaxJobs
  BY DEF ConcurrencyIsBounded
<1>1. RunsStartByClaim
  BY RunsStart
<1>2. /\ IsFiniteSet(Active(w)) /\ Cardinality(Active(w)) \in Nat
      /\ Cardinality(Active(w)) <= MaxJobs /\ MaxJobs \in Nat
  <2>1. IsFiniteSet(Active(w))
    BY ConstantsAssumption, FS_Subset, Active(w) \subseteq Jobs DEF Active
  <2> QED
    BY <2>1, FS_CardinalityType, ConstantsAssumption DEF ConcurrencyIsBounded
<1>3. CASE \E j \in Jobs : Claim(w, j)
  <2>1. PICK j \in Jobs : Claim(w, j)
    BY <1>3
  <2>2. Cardinality(Active(w)) < MaxJobs
    BY <2>1 DEF Claim, Claimable
  <2>3. Active(w)' \subseteq Active(w) \cup {j}
    BY <2>1 DEF Claim, Goto, Active, TypeOK
  <2>4. IsFiniteSet(Active(w) \cup {j}) /\ Cardinality(Active(w) \cup {j}) \in Nat
    BY <1>2, FS_AddElement, FS_CardinalityType
  <2>5. \/ Cardinality(Active(w) \cup {j}) = Cardinality(Active(w))
        \/ Cardinality(Active(w) \cup {j}) = Cardinality(Active(w)) + 1
    BY <1>2, FS_AddElement
  <2>6. /\ Cardinality(Active(w)') <= Cardinality(Active(w) \cup {j})
        /\ Cardinality(Active(w)') \in Nat
    BY <2>3, <2>4, FS_Subset, FS_CardinalityType
  <2> QED
    BY <1>2, <2>2, <2>4, <2>5, <2>6
<1>4. CASE ~ \E j \in Jobs : Claim(w, j)
  <2>1. Active(w)' \subseteq Active(w)
    BY <1>1, <1>4 DEF RunsStartByClaim, Active
  <2>2. Cardinality(Active(w)') <= Cardinality(Active(w)) /\ Cardinality(Active(w)') \in Nat
    BY <1>2, <2>1, FS_Subset, FS_CardinalityType
  <2> QED
    BY <1>2, <2>2
<1> QED
  BY <1>3, <1>4

\* A run that waits for a connection is active and holds none, so others hold
\* fewer than max_jobs.
LEMMA PoolHasRoomForEveryRun ==
  TypeOK /\ ConnectionsAreHeld /\ ConcurrencyIsBounded => PoolNeverExhausted
<1> SUFFICES ASSUME TypeOK, ConnectionsAreHeld, ConcurrencyIsBounded, MaxJobs <= PoolSize,
                    NEW w \in Workers, NEW j \in Jobs, run[w][j] = "connecting"
             PROVE  Cardinality(conns[w]) < PoolSize
  BY DEF PoolNeverExhausted, PoolHasRoom
<1>1. conns[w] \subseteq Active(w) \ {j}
  BY DEF ConnectionsAreHeld, Holding, Active, TypeOK
<1>2. IsFiniteSet(Active(w)) /\ j \in Active(w)
  BY ConstantsAssumption, FS_Subset, Active(w) \subseteq Jobs DEF Active
<1>3. /\ IsFiniteSet(Active(w) \ {j})
      /\ Cardinality(Active(w) \ {j}) = Cardinality(Active(w)) - 1
  BY <1>2, FS_RemoveElement
<1>4. /\ Cardinality(conns[w]) <= Cardinality(Active(w) \ {j})
      /\ Cardinality(conns[w]) \in Nat
  BY <1>1, <1>3, FS_Subset, FS_CardinalityType
<1>5. Cardinality(Active(w)) \in Nat /\ Cardinality(Active(w)) <= MaxJobs
  BY <1>2, FS_CardinalityType DEF ConcurrencyIsBounded
<1> QED
  BY <1>3, <1>4, <1>5, ConstantsAssumption


-----------------------------------------------------------------------------
\* Initially everything holds.
LEMMA InitIInv == Init => IInv
<1> SUFFICES ASSUME Init PROVE IInv
  OBVIOUS
<1> USE ConstantsAssumption DEF Init
<1>1. TypeOK
  BY DEF TypeOK, Phases, Results
<1>2. Exclusive /\ Ledger /\ Truthful
  BY DEF Exclusive, RunsOwnTheirJob, NoDoubleProcessing, Ledger, NothingForgotten,
         Truthful, PhasesAreTruthful, CompletedIsDurable, DeadLettersAreTruthful
<1>3. Credits /\ GivenUpOnlyWhenExhausted /\ ConnectionsAreHeld
  BY DEF Credits, CreditsNeverOvercount, CreditsAreDistinct, GivenUpOnlyWhenExhausted,
         ConnectionsAreHeld
<1>4. ConcurrencyIsBounded
  <2>1. \A w \in Workers : Active(w) = {}
    BY DEF Active
  <2>2. Cardinality({}) = 0 /\ 0 <= MaxJobs
    BY FS_EmptySet
  <2> QED
    BY <2>1, <2>2 DEF ConcurrencyIsBounded
<1> QED
  BY <1>1, <1>2, <1>3, <1>4 DEF IInv

\* IInv is inductive.
LEMMA StepIInv == IInv /\ [Next]_vars => IInv'
<1> SUFFICES ASSUME IInv, [Next]_vars PROVE IInv'
  OBVIOUS
<1>1. TypeOK' /\ Exclusive' /\ Ledger'
  BY TypeStep, ExclusiveStep, LedgerStep DEF IInv
<1>2. Truthful' /\ Credits' /\ GivenUpOnlyWhenExhausted'
  BY TruthfulStep, CreditsStep, GivenUpStep DEF IInv
<1>3. ConnectionsAreHeld' /\ ConcurrencyIsBounded'
  BY ConnectionsStep, ConcurrencyStep DEF IInv, Exclusive
<1> QED
  BY <1>1, <1>2, <1>3 DEF IInv

\* IInv holds in every reachable state.
THEOREM Invariance == Spec => []IInv
  BY InitIInv, StepIInv, PTL DEF Spec

\* Every variable keeps its type, whatever the jobs, bounds and faults.
THEOREM TypeCorrectness == Spec => []TypeOK
<1>1. IInv => TypeOK
  BY DEF IInv
<1> QED
  BY Invariance, <1>1, PTL

\* No job is ever run by two workers at once.
THEOREM MutualExclusion == Spec => []NoDoubleProcessing
<1>1. IInv => NoDoubleProcessing
  BY DEF IInv, Exclusive
<1> QED
  BY Invariance, <1>1, PTL

\* A result "completed" is backed by committed rows.
THEOREM Durability == Spec => []CompletedIsDurable
<1>1. IInv => CompletedIsDurable
  BY DEF IInv, Truthful
<1> QED
  BY Invariance, <1>1, PTL

\* The sum of newly_inserted never exceeds the rows there are.
THEOREM NoOvercount == Spec => []CreditsNeverOvercount
<1>1. IInv => CreditsNeverOvercount
  BY DEF IInv, Credits
<1> QED
  BY Invariance, <1>1, PTL

\* The queue holds exactly the accepted jobs that have no result yet.
THEOREM QueueIsLedger == Spec => []NothingForgotten
<1>1. IInv => NothingForgotten
  BY DEF IInv, Ledger
<1> QED
  BY Invariance, <1>1, PTL

\* The dead-letter list holds what it should, at most once per attempt.
THEOREM DeadLetterTruth == Spec => []DeadLettersAreTruthful
<1>1. IInv => DeadLettersAreTruthful
  BY DEF IInv, Truthful
<1> QED
  BY Invariance, <1>1, PTL

\* Without job timeouts, a storable batch fails only after every attempt.
THEOREM NoEarlyGivingUp == Spec => []GivenUpOnlyWhenExhausted
<1>1. IInv => GivenUpOnlyWhenExhausted
  BY DEF IInv
<1> QED
  BY Invariance, <1>1, PTL

\* max_jobs <= DB_POOL_MAX_SIZE is enough for no run to wait on the pool.
THEOREM PoolSuffices == Spec => []PoolNeverExhausted
<1>1. IInv => PoolNeverExhausted
  BY PoolHasRoomForEveryRun DEF IInv
<1> QED
  BY Invariance, <1>1, PTL

-----------------------------------------------------------------------------
ResultStands ==
  /\ \A j \in Jobs : result[j] # "none" => result'[j] = result[j] /\ dlq'[j] = dlq[j]
  /\ rows \subseteq rows'

\* A job whose result is written is out of the queue: nobody runs it again.
LEMMA ResultStandsStep == TypeOK /\ Exclusive /\ Ledger /\ [Next]_vars => ResultStands
<1> SUFFICES ASSUME TypeOK /\ Exclusive /\ Ledger, [Next]_vars PROVE ResultStands
  OBVIOUS
<1>1. ASSUME NEW j \in Jobs, Enqueue(j) PROVE ResultStands
  BY <1>1, ConstantsAssumption DEF TypeOK, Exclusive, RunsOwnTheirJob, Ledger,
     NothingForgotten, ResultStands, queueVars, resultVars, runVars, Enqueue
<1>2. ASSUME NEW j \in Jobs, BackoffElapsed(j) PROVE ResultStands
  BY <1>2, ConstantsAssumption DEF TypeOK, Exclusive, RunsOwnTheirJob, Ledger,
     NothingForgotten, ResultStands, queueVars, resultVars, runVars, BackoffElapsed
<1>3. ASSUME NEW j \in Jobs, LockExpires(j) PROVE ResultStands
  BY <1>3, ConstantsAssumption DEF TypeOK, Exclusive, RunsOwnTheirJob, Ledger,
     NothingForgotten, ResultStands, queueVars, resultVars, runVars, LockExpires
<1>4. ASSUME NEW w \in Workers, NEW j \in Jobs, Claim(w, j) PROVE ResultStands
  BY <1>4, ConstantsAssumption DEF TypeOK, Exclusive, RunsOwnTheirJob, Ledger,
     NothingForgotten, ResultStands, queueVars, resultVars, runVars, Claim, Claimable,
     Goto
<1>5. ASSUME NEW w \in Workers, NEW j \in Jobs, Abandon(w, j) PROVE ResultStands
  BY <1>5, ConstantsAssumption DEF TypeOK, Exclusive, RunsOwnTheirJob, Ledger,
     NothingForgotten, ResultStands, queueVars, resultVars, runVars, Abandon, Claimable,
     Settle, EndRun, Goto, ReleaseConnection
<1>6. ASSUME NEW w \in Workers, NEW j \in Jobs, DeadLetter(w, j) PROVE ResultStands
  BY <1>6, ConstantsAssumption DEF TypeOK, Exclusive, RunsOwnTheirJob, Ledger,
     NothingForgotten, ResultStands, queueVars, resultVars, runVars, DeadLetter, Goto
<1>7. ASSUME NEW w \in Workers, NEW j \in Jobs, SkipEmpty(w, j) PROVE ResultStands
  BY <1>7, ConstantsAssumption DEF TypeOK, Exclusive, RunsOwnTheirJob, Ledger,
     NothingForgotten, ResultStands, queueVars, resultVars, runVars, SkipEmpty, Goto
<1>8. ASSUME NEW w \in Workers, NEW j \in Jobs, RequestConnection(w, j)
      PROVE  ResultStands
  BY <1>8, ConstantsAssumption DEF TypeOK, Exclusive, RunsOwnTheirJob, Ledger,
     NothingForgotten, ResultStands, queueVars, resultVars, runVars, RequestConnection,
     Goto
<1>9. ASSUME NEW w \in Workers, NEW j \in Jobs, Connect(w, j) PROVE ResultStands
  BY <1>9, ConstantsAssumption DEF TypeOK, Exclusive, RunsOwnTheirJob, Ledger,
     NothingForgotten, ResultStands, queueVars, resultVars, runVars, Connect, Goto
<1>10. ASSUME NEW w \in Workers, NEW j \in Jobs, ConnectTimeout(w, j) PROVE ResultStands
  BY <1>10, ConstantsAssumption DEF TypeOK, Exclusive, RunsOwnTheirJob, Ledger,
     NothingForgotten, ResultStands, queueVars, resultVars, runVars, ConnectTimeout,
     RetryLater, EndRun, Goto, ReleaseConnection
<1>11. ASSUME NEW w \in Workers, NEW j \in Jobs, Commit(w, j) PROVE ResultStands
  BY <1>11, ConstantsAssumption DEF TypeOK, Exclusive, RunsOwnTheirJob, Ledger,
     NothingForgotten, ResultStands, queueVars, resultVars, runVars, Commit, Goto
<1>12. ASSUME NEW w \in Workers, NEW j \in Jobs, Acknowledge(w, j) PROVE ResultStands
  BY <1>12, ConstantsAssumption DEF TypeOK, Exclusive, RunsOwnTheirJob, Ledger,
     NothingForgotten, ResultStands, queueVars, resultVars, runVars, Acknowledge, Goto,
     ReleaseConnection
<1>13. ASSUME NEW w \in Workers, NEW j \in Jobs, InsertRefused(w, j) PROVE ResultStands
  BY <1>13, ConstantsAssumption DEF TypeOK, Exclusive, RunsOwnTheirJob, Ledger,
     NothingForgotten, ResultStands, queueVars, resultVars, runVars, InsertRefused,
     Settle, EndRun, Goto, ReleaseConnection
<1>14. ASSUME NEW w \in Workers, NEW j \in Jobs, ConnectionLost(w, j) PROVE ResultStands
  BY <1>14, ConstantsAssumption DEF TypeOK, Exclusive, RunsOwnTheirJob, Ledger,
     NothingForgotten, ResultStands, queueVars, resultVars, runVars, ConnectionLost,
     RetryLater, EndRun, Goto, ReleaseConnection
<1>15. ASSUME NEW w \in Workers, NEW j \in Jobs, Complete(w, j) PROVE ResultStands
  BY <1>15, ConstantsAssumption DEF TypeOK, Exclusive, RunsOwnTheirJob, Ledger,
     NothingForgotten, ResultStands, queueVars, resultVars, runVars, Complete, Settle,
     Reported, EndRun, Goto, ReleaseConnection
<1>16. ASSUME NEW w \in Workers, NEW j \in Jobs, Reject(w, j) PROVE ResultStands
  BY <1>16, ConstantsAssumption DEF TypeOK, Exclusive, RunsOwnTheirJob, Ledger,
     NothingForgotten, ResultStands, queueVars, resultVars, runVars, Reject, Settle,
     EndRun, Goto, ReleaseConnection
<1>17. ASSUME NEW w \in Workers, NEW j \in Jobs, TransientError(w, j) PROVE ResultStands
  BY <1>17, ConstantsAssumption DEF TypeOK, Exclusive, RunsOwnTheirJob, Ledger,
     NothingForgotten, ResultStands, queueVars, resultVars, runVars, TransientError,
     Fault, RetryLater, EndRun, Goto, ReleaseConnection
<1>18. ASSUME NEW w \in Workers, NEW j \in Jobs, JobTimeout(w, j) PROVE ResultStands
  BY <1>18, ConstantsAssumption DEF TypeOK, Exclusive, RunsOwnTheirJob, Ledger,
     NothingForgotten, ResultStands, queueVars, resultVars, runVars, JobTimeout, Fault,
     Settle, EndRun, Goto, ReleaseConnection
<1>19. ASSUME NEW w \in Workers, WorkerCrash(w) PROVE ResultStands
  BY <1>19, ConstantsAssumption DEF TypeOK, Exclusive, RunsOwnTheirJob, Ledger,
     NothingForgotten, ResultStands, queueVars, resultVars, runVars, WorkerCrash, Fault,
     StopWorker
<1>20. ASSUME NEW w \in Workers, WorkerShutdown(w) PROVE ResultStands
  BY <1>20, ConstantsAssumption DEF TypeOK, Exclusive, RunsOwnTheirJob, Ledger,
     NothingForgotten, ResultStands, queueVars, resultVars, runVars, WorkerShutdown,
     Fault, StopWorker, Active
<1>21. ASSUME NEW w \in Workers, WorkerStart(w) PROVE ResultStands
  BY <1>21, ConstantsAssumption DEF TypeOK, Exclusive, RunsOwnTheirJob, Ledger,
     NothingForgotten, ResultStands, queueVars, resultVars, runVars, WorkerStart
<1>22. CASE DbDown
  <2>1. UNCHANGED <<result, dlq, rows>>
    BY <1>22, DbDownBreaks
  <2> QED
    BY <2>1 DEF ResultStands
<1>23. CASE DbUp
  BY <1>23, ConstantsAssumption DEF TypeOK, Exclusive, RunsOwnTheirJob, Ledger,
     NothingForgotten, ResultStands, queueVars, resultVars, runVars, DbUp
<1>24. CASE UNCHANGED vars
  BY <1>24 DEF TypeOK, Exclusive, RunsOwnTheirJob, Ledger, NothingForgotten,
     ResultStands, vars, queueVars, resultVars, runVars
<1>25. ASSUME NEW w \in Workers, NEW j \in Jobs, Poll(w, j) \/ Step(w, j)
       PROVE  ResultStands
  BY <1>25, <1>4, <1>5, <1>6, <1>7, <1>8, <1>9, <1>10, <1>11, <1>12, <1>13, <1>14,
     <1>15, <1>16 DEF Poll, Step
<1>26. CASE \E j \in Jobs : Enqueue(j) \/ BackoffElapsed(j) \/ LockExpires(j)
  BY <1>26, <1>1, <1>2, <1>3
<1>27. CASE \E w \in Workers, j \in Jobs :
              Poll(w, j) \/ Step(w, j) \/ TransientError(w, j) \/ JobTimeout(w, j)
  BY <1>27, <1>25, <1>17, <1>18
<1>28. CASE \E w \in Workers : WorkerCrash(w) \/ WorkerShutdown(w) \/ WorkerStart(w)
  BY <1>28, <1>19, <1>20, <1>21
<1> QED
  BY <1>22, <1>23, <1>24, <1>26, <1>27, <1>28 DEF Next

\* A result stands, a settled job's dead letters stand, rows are never removed.
THEOREM ResultsAreFinal == Spec => OutcomeIsFinal
<1>1. IInv /\ [Next]_vars => ResultStands
  BY ResultStandsStep DEF IInv
<1>2. IInv /\ [Next]_vars =>
        [/\ \A j \in Jobs : result[j] # "none" => result'[j] = result[j] /\ dlq'[j] = dlq[j]
         /\ rows \subseteq rows']_vars
  BY <1>1 DEF ResultStands
<1> QED
  BY Invariance, <1>2, PTL DEF Spec, OutcomeIsFinal

-----------------------------------------------------------------------------
Letters == {j \in Jobs : dlq[j] > 0}

\* Nothing an observer of results, rows and dead letters can see.
Invisible == UNCHANGED <<Outcome, rows, Letters>>

\* The step as TelemetrySink sees it.
SinkStep == Invisible \/ \E j \in Jobs :
              \/ Sink!Accept(j) \/ Sink!Store(j) \/ Sink!PutAside(j)
              \/ Sink!Complete(j) \/ Sink!Reject(j) \/ Sink!GiveUp(j)

\* Every step of the system is a step of the sink or invisible to it.
LEMMA SinkStepLemma == TypeOK /\ Exclusive /\ Ledger /\ Truthful /\ [Next]_vars => SinkStep
<1> SUFFICES ASSUME TypeOK /\ Exclusive /\ Ledger /\ Truthful, [Next]_vars
             PROVE  SinkStep
  OBVIOUS
<1>1. ASSUME NEW j \in Jobs, Enqueue(j) PROVE SinkStep
  <2>1. /\ j \notin submitted /\ submitted' = submitted \cup {j}
        /\ UNCHANGED <<result, rows, dlq>>
    BY <1>1 DEF Enqueue, resultVars
  <2>2. result[j] = "none"
    BY <2>1 DEF Ledger
  <2>3. Sink!Accept(j)
    BY <2>1, <2>2 DEF Sink!Accept, Outcome
  <2> QED
    BY <2>3 DEF SinkStep
<1>2. ASSUME NEW j \in Jobs, BackoffElapsed(j) PROVE SinkStep
  <2>1. UNCHANGED <<submitted, result, rows, dlq>>
    BY <1>2 DEF BackoffElapsed, queueVars, resultVars, runVars
  <2> QED
    BY <2>1 DEF SinkStep, Invisible, Outcome, Letters
<1>3. ASSUME NEW j \in Jobs, LockExpires(j) PROVE SinkStep
  <2>1. UNCHANGED <<submitted, result, rows, dlq>>
    BY <1>3 DEF LockExpires, queueVars, resultVars, runVars
  <2> QED
    BY <2>1 DEF SinkStep, Invisible, Outcome, Letters
<1>4. ASSUME NEW w \in Workers, NEW j \in Jobs, Claim(w, j) PROVE SinkStep
  <2>1. UNCHANGED <<submitted, result, rows, dlq>>
    BY <1>4 DEF Claim, queueVars, resultVars, runVars
  <2> QED
    BY <2>1 DEF SinkStep, Invisible, Outcome, Letters
<1>5. ASSUME NEW w \in Workers, NEW j \in Jobs, Abandon(w, j) PROVE SinkStep
  <2>1. /\ result' = [result EXCEPT ![j] = "failed"]
        /\ UNCHANGED <<submitted, rows, dlq>>
    BY <1>5 DEF Abandon, Settle
  <2>2. j \in submitted /\ result[j] = "none"
    BY <1>5 DEF Abandon, Claimable, Ledger, NothingForgotten
  <2>3. Outcome' = [Outcome EXCEPT ![j] = "failed"]
    BY <2>1, <2>2 DEF Outcome, TypeOK
  <2>4. Sink!GiveUp(j)
    BY <2>1, <2>2, <2>3 DEF Sink!GiveUp, Outcome
  <2> QED
    BY <2>4 DEF SinkStep
<1>6. ASSUME NEW w \in Workers, NEW j \in Jobs, DeadLetter(w, j) PROVE SinkStep
  <2>1. /\ run[w][j] = "started" /\ j \in InvalidJobs /\ dlq' = [dlq EXCEPT ![j] = @ + 1]
        /\ UNCHANGED <<submitted, result, rows>>
    BY <1>6 DEF DeadLetter, queueVars
  <2>2. j \in submitted /\ result[j] = "none"
    BY <2>1 DEF Exclusive, RunsOwnTheirJob, Ledger, NothingForgotten
  <2>3. {k \in Jobs : dlq'[k] > 0} = {k \in Jobs : dlq[k] > 0} \cup {j}
    BY <2>1 DEF TypeOK
  <2>4. Sink!PutAside(j)
    BY <2>1, <2>2, <2>3 DEF Sink!PutAside, Outcome
  <2> QED
    BY <2>4 DEF SinkStep
<1>7. ASSUME NEW w \in Workers, NEW j \in Jobs, SkipEmpty(w, j) PROVE SinkStep
  <2>1. UNCHANGED <<submitted, result, rows, dlq>>
    BY <1>7 DEF SkipEmpty, queueVars, resultVars, runVars
  <2> QED
    BY <2>1 DEF SinkStep, Invisible, Outcome, Letters
<1>8. ASSUME NEW w \in Workers, NEW j \in Jobs, RequestConnection(w, j) PROVE SinkStep
  <2>1. UNCHANGED <<submitted, result, rows, dlq>>
    BY <1>8 DEF RequestConnection, queueVars, resultVars, runVars
  <2> QED
    BY <2>1 DEF SinkStep, Invisible, Outcome, Letters
<1>9. ASSUME NEW w \in Workers, NEW j \in Jobs, Connect(w, j) PROVE SinkStep
  <2>1. UNCHANGED <<submitted, result, rows, dlq>>
    BY <1>9 DEF Connect, queueVars, resultVars, runVars
  <2> QED
    BY <2>1 DEF SinkStep, Invisible, Outcome, Letters
<1>10. ASSUME NEW w \in Workers, NEW j \in Jobs, ConnectTimeout(w, j) PROVE SinkStep
  <2>1. UNCHANGED <<submitted, result, rows, dlq>>
    BY <1>10 DEF ConnectTimeout, RetryLater, queueVars, resultVars, runVars
  <2> QED
    BY <2>1 DEF SinkStep, Invisible, Outcome, Letters
<1>11. ASSUME NEW w \in Workers, NEW j \in Jobs, Commit(w, j) PROVE SinkStep
  <2>1. /\ run[w][j] = "inserting" /\ rows' = rows \cup IdsOf[j]
        /\ UNCHANGED <<submitted, result, dlq>>
    BY <1>11 DEF Commit, queueVars, resultVars
  <2>2. j \in submitted /\ result[j] = "none" /\ j \notin InvalidJobs
    BY <2>1 DEF Exclusive, RunsOwnTheirJob, Ledger, NothingForgotten, Truthful,
       PhasesAreTruthful
  <2>3. Sink!Store(j)
    BY <2>1, <2>2 DEF Sink!Store, Outcome
  <2> QED
    BY <2>3 DEF SinkStep
<1>12. ASSUME NEW w \in Workers, NEW j \in Jobs, Acknowledge(w, j) PROVE SinkStep
  <2>1. UNCHANGED <<submitted, result, rows, dlq>>
    BY <1>12 DEF Acknowledge, queueVars, resultVars, runVars
  <2> QED
    BY <2>1 DEF SinkStep, Invisible, Outcome, Letters
<1>13. ASSUME NEW w \in Workers, NEW j \in Jobs, InsertRefused(w, j) PROVE SinkStep
  <2>1. /\ result' = [result EXCEPT ![j] = "failed"]
        /\ UNCHANGED <<submitted, rows, dlq>>
    BY <1>13 DEF InsertRefused, Settle
  <2>2. j \in submitted /\ result[j] = "none"
    BY <1>13 DEF InsertRefused, Exclusive, RunsOwnTheirJob, Ledger, NothingForgotten
  <2>3. Outcome' = [Outcome EXCEPT ![j] = "failed"]
    BY <2>1, <2>2 DEF Outcome, TypeOK
  <2>4. Sink!GiveUp(j)
    BY <2>1, <2>2, <2>3 DEF Sink!GiveUp, Outcome
  <2> QED
    BY <2>4 DEF SinkStep
<1>14. ASSUME NEW w \in Workers, NEW j \in Jobs, ConnectionLost(w, j) PROVE SinkStep
  <2>1. UNCHANGED <<submitted, result, rows, dlq>>
    BY <1>14 DEF ConnectionLost, RetryLater, queueVars, resultVars, runVars
  <2> QED
    BY <2>1 DEF SinkStep, Invisible, Outcome, Letters
<1>15. ASSUME NEW w \in Workers, NEW j \in Jobs, Complete(w, j) PROVE SinkStep
  <2>1. /\ result' = [result EXCEPT ![j] = "completed"]
        /\ UNCHANGED <<submitted, rows, dlq>>
    BY <1>15 DEF Complete, Settle
  <2>2. /\ j \in submitted /\ result[j] = "none" /\ j \notin InvalidJobs
        /\ IdsOf[j] \subseteq rows
    BY <1>15 DEF Complete, Exclusive, RunsOwnTheirJob, Ledger, NothingForgotten,
       Truthful, PhasesAreTruthful
  <2>3. Outcome' = [Outcome EXCEPT ![j] = "completed"]
    BY <2>1, <2>2 DEF Outcome, TypeOK
  <2>4. Sink!Complete(j)
    BY <2>1, <2>2, <2>3 DEF Sink!Complete, Outcome
  <2> QED
    BY <2>4 DEF SinkStep
<1>16. ASSUME NEW w \in Workers, NEW j \in Jobs, Reject(w, j) PROVE SinkStep
  <2>1. /\ result' = [result EXCEPT ![j] = "dead_lettered"]
        /\ UNCHANGED <<submitted, rows, dlq>>
    BY <1>16 DEF Reject, Settle
  <2>2. j \in submitted /\ result[j] = "none" /\ dlq[j] > 0
    BY <1>16 DEF Reject, Exclusive, RunsOwnTheirJob, Ledger, NothingForgotten, Truthful,
       PhasesAreTruthful
  <2>3. Outcome' = [Outcome EXCEPT ![j] = "dead_lettered"]
    BY <2>1, <2>2 DEF Outcome, TypeOK
  <2>4. Sink!Reject(j)
    BY <2>1, <2>2, <2>3 DEF Sink!Reject, Outcome
  <2> QED
    BY <2>4 DEF SinkStep
<1>17. ASSUME NEW w \in Workers, NEW j \in Jobs, TransientError(w, j) PROVE SinkStep
  <2>1. UNCHANGED <<submitted, result, rows, dlq>>
    BY <1>17 DEF TransientError, RetryLater, queueVars, resultVars, runVars
  <2> QED
    BY <2>1 DEF SinkStep, Invisible, Outcome, Letters
<1>18. ASSUME NEW w \in Workers, NEW j \in Jobs, JobTimeout(w, j) PROVE SinkStep
  <2>1. /\ result' = [result EXCEPT ![j] = "timed_out"]
        /\ UNCHANGED <<submitted, rows, dlq>>
    BY <1>18 DEF JobTimeout, Settle
  <2>2. j \in submitted /\ result[j] = "none"
    BY <1>18 DEF JobTimeout, Exclusive, RunsOwnTheirJob, Ledger, NothingForgotten
  <2>3. Outcome' = [Outcome EXCEPT ![j] = "timed_out"]
    BY <2>1, <2>2 DEF Outcome, TypeOK
  <2>4. Sink!GiveUp(j)
    BY <2>1, <2>2, <2>3 DEF Sink!GiveUp, Outcome
  <2> QED
    BY <2>4 DEF SinkStep
<1>19. ASSUME NEW w \in Workers, WorkerCrash(w) PROVE SinkStep
  <2>1. UNCHANGED <<submitted, result, rows, dlq>>
    BY <1>19 DEF WorkerCrash, StopWorker, queueVars, resultVars, runVars
  <2> QED
    BY <2>1 DEF SinkStep, Invisible, Outcome, Letters
<1>20. ASSUME NEW w \in Workers, WorkerShutdown(w) PROVE SinkStep
  <2>1. UNCHANGED <<submitted, result, rows, dlq>>
    BY <1>20 DEF WorkerShutdown, StopWorker, queueVars, resultVars, runVars
  <2> QED
    BY <2>1 DEF SinkStep, Invisible, Outcome, Letters
<1>21. ASSUME NEW w \in Workers, WorkerStart(w) PROVE SinkStep
  <2>1. UNCHANGED <<submitted, result, rows, dlq>>
    BY <1>21 DEF WorkerStart, queueVars, resultVars, runVars
  <2> QED
    BY <2>1 DEF SinkStep, Invisible, Outcome, Letters
<1>22. CASE DbDown
  <2>1. UNCHANGED <<submitted, result, rows, dlq>>
    BY <1>22, DbDownBreaks
  <2> QED
    BY <2>1 DEF SinkStep, Invisible, Outcome, Letters
<1>23. CASE DbUp
  <2>1. UNCHANGED <<submitted, result, rows, dlq>>
    BY <1>23 DEF DbUp, queueVars, resultVars, runVars
  <2> QED
    BY <2>1 DEF SinkStep, Invisible, Outcome, Letters
<1>24. CASE UNCHANGED vars
  <2>1. UNCHANGED <<submitted, result, rows, dlq>>
    BY <1>24 DEF vars, queueVars, resultVars
  <2> QED
    BY <2>1 DEF SinkStep, Invisible, Outcome, Letters
<1>25. ASSUME NEW w \in Workers, NEW j \in Jobs, Poll(w, j) \/ Step(w, j) PROVE SinkStep
  BY <1>25, <1>4, <1>5, <1>6, <1>7, <1>8, <1>9, <1>10, <1>11, <1>12, <1>13, <1>14,
     <1>15, <1>16 DEF Poll, Step
<1>26. CASE \E j \in Jobs : Enqueue(j) \/ BackoffElapsed(j) \/ LockExpires(j)
  BY <1>26, <1>1, <1>2, <1>3
<1>27. CASE \E w \in Workers, j \in Jobs :
              Poll(w, j) \/ Step(w, j) \/ TransientError(w, j) \/ JobTimeout(w, j)
  BY <1>27, <1>25, <1>17, <1>18
<1>28. CASE \E w \in Workers : WorkerCrash(w) \/ WorkerShutdown(w) \/ WorkerStart(w)
  BY <1>28, <1>19, <1>20, <1>21
<1> QED
  BY <1>22, <1>23, <1>24, <1>26, <1>27, <1>28 DEF Next

\* The queue, the workers and the database together keep the promise of
\* TelemetrySink: a batch is stored whole, once settled it stays settled, and
\* "completed" and "dead_lettered" are true when they are written.
THEOREM Refinement == Spec => ImplementsSink
<1>1. Init => Sink!Init
  BY DEF Init, Sink!Init, Outcome
<1>2. IInv /\ [Next]_vars => [Sink!Next]_(Sink!sinkVars)
  <2> SUFFICES ASSUME IInv, [Next]_vars PROVE [Sink!Next]_(Sink!sinkVars)
    OBVIOUS
  <2>1. SinkStep
    BY SinkStepLemma DEF IInv
  <2>2. CASE Invisible
    BY <2>2 DEF Invisible, Letters, Sink!sinkVars
  <2>3. CASE \E j \in Jobs :
              \/ Sink!Accept(j) \/ Sink!Store(j) \/ Sink!PutAside(j)
              \/ Sink!Complete(j) \/ Sink!Reject(j) \/ Sink!GiveUp(j)
    BY <2>3 DEF Sink!Next
  <2> QED
    BY <2>1, <2>2, <2>3 DEF SinkStep
<1> QED
  BY Invariance, <1>1, <1>2, PTL DEF Spec, ImplementsSink, Sink!Spec

-----------------------------------------------------------------------------
(***************************************************************************)
(* What restarts cost.  The liveness half of RestartsLoseNoBatch is TLC's; *)
(* this is the other half, that no such fault makes a job fail.            *)
(***************************************************************************)
MildFaults ==
  /\ FaultBudget < MaxJobAttempts /\ MaxJobs <= PoolSize
  /\ FaultKinds \subseteq {"crash", "shutdown", "transient"}

\* The outcome a job deserves.
Deserved(j) == IF j \in InvalidJobs THEN "dead_lettered" ELSE "completed"

RestartsFailNoBatch ==
  MildFaults => \A j \in Jobs \ UnstorableJobs : result[j] \in {"none", Deserved(j)}

ServerIsThere == dbUp /\ \A w \in Workers, j \in Jobs : run[w][j] # "broken"

Running(j) == \E w \in Workers : run[w][j] # "idle"

\* All attempts at a job but the one under way were ended by a fault.
AttemptsArePaid(j) ==
  result[j] = "none" => tries[j] <= faults \/ (Running(j) /\ tries[j] <= faults + 1)

LEMMA ServerStays ==
  ASSUME MildFaults, TypeOK, ServerIsThere, [Next]_vars
  PROVE  ServerIsThere'
<1> USE DEF ServerIsThere
<1>0. run \in [Workers -> [Jobs -> Phases]]
  BY DEF TypeOK
<1>1. ASSUME NEW w \in Workers, NEW j \in Jobs, NEW phase \in Phases \ {"broken"},
             Goto(w, j, phase), dbUp' = dbUp
      PROVE  ServerIsThere'
  BY <1>0, <1>1 DEF Goto
<1>2. ASSUME NEW w \in Workers, NEW j \in Jobs, EndRun(w, j), dbUp' = dbUp
      PROVE  ServerIsThere'
  BY <1>1, <1>2 DEF EndRun, Phases
<1>3. ASSUME UNCHANGED <<run, dbUp>> PROVE ServerIsThere'
  BY <1>3
<1>4. ASSUME NEW j \in Jobs, Enqueue(j) \/ BackoffElapsed(j) \/ LockExpires(j)
      PROVE  ServerIsThere'
  BY <1>3, <1>4 DEF Enqueue, BackoffElapsed, LockExpires, runVars
<1>5. ASSUME NEW w \in Workers, NEW j \in Jobs,
             \/ Claim(w, j) \/ DeadLetter(w, j) \/ SkipEmpty(w, j) \/ RequestConnection(w, j)
             \/ Connect(w, j) \/ Commit(w, j) \/ Acknowledge(w, j)
      PROVE  ServerIsThere'
  BY <1>1, <1>5 DEF Phases, Claim, DeadLetter, SkipEmpty, RequestConnection, Connect,
     Commit, Acknowledge
<1>6. ASSUME NEW w \in Workers, NEW j \in Jobs,
             \/ Abandon(w, j) \/ ConnectTimeout(w, j) \/ InsertRefused(w, j)
             \/ ConnectionLost(w, j) \/ Complete(w, j) \/ Reject(w, j)
             \/ TransientError(w, j) \/ JobTimeout(w, j)
      PROVE  ServerIsThere'
  BY <1>2, <1>6 DEF Abandon, ConnectTimeout, InsertRefused, ConnectionLost, Complete,
     Reject, TransientError, JobTimeout, Settle, RetryLater
<1>7. ASSUME NEW w \in Workers, WorkerCrash(w) \/ WorkerShutdown(w) PROVE ServerIsThere'
  <2>1. run' = [run EXCEPT ![w] = [j \in Jobs |-> "idle"]] /\ dbUp' = dbUp
    BY <1>7 DEF WorkerCrash, WorkerShutdown, StopWorker
  <2> QED BY <1>0, <2>1
<1>8. ASSUME NEW w \in Workers, WorkerStart(w) PROVE ServerIsThere'
  BY <1>3, <1>8 DEF WorkerStart, runVars
<1>9. ~DbDown /\ ~DbUp
  BY DEF MildFaults, DbDown, DbUp, Fault
<1>10. CASE UNCHANGED vars
  BY <1>3, <1>10 DEF vars, runVars
<1> QED BY <1>4, <1>5, <1>6, <1>7, <1>8, <1>9, <1>10 DEF Next, Poll, Step

\* What a step may do to the account of a job.
AccountMove(j) ==
  \/ /\ UNCHANGED <<result[j], tries[j], faults>>
     /\ Running(j) => Running(j)'
  \/ UNCHANGED <<result[j], tries[j]>> /\ faults' = faults + 1
  \/ /\ j \notin locked /\ UNCHANGED <<result[j], faults>>
     /\ tries'[j] = tries[j] + 1 /\ Running(j)'
  \/ result'[j] = Deserved(j)

LEMMA AccountMoves ==
  ASSUME MildFaults, IInv, ServerIsThere, [Next]_vars,
         NEW j \in Jobs \ UnstorableJobs, AttemptsArePaid(j)
  PROVE  AccountMove(j)
<1> USE DEF TypeOK
<1>1. TypeOK /\ RunsOwnTheirJob /\ Ledger /\ PhasesAreTruthful /\ DeadLettersAreTruthful
  BY DEF IInv, Exclusive, Truthful
<1>2. PoolNeverExhausted
  BY PoolHasRoomForEveryRun DEF IInv
<1>3. ASSUME NEW w \in Workers, NEW k \in Jobs, NEW phase \in Phases \ {"idle"},
             Goto(w, k, phase), UNCHANGED <<result, tries, faults>>
      PROVE  AccountMove(j)
  <2>1. \A v \in Workers : run[v][j] # "idle" => run'[v][j] # "idle"
    BY <1>1, <1>3 DEF Goto
  <2> QED BY <1>3, <2>1 DEF AccountMove, Running
<1>4. ASSUME NEW k \in Jobs, Enqueue(k) \/ BackoffElapsed(k) \/ LockExpires(k)
      PROVE  AccountMove(j)
  BY <1>4 DEF AccountMove, Running, Enqueue, BackoffElapsed, LockExpires,
     queueVars, resultVars, runVars
<1>5. ASSUME NEW w \in Workers, NEW k \in Jobs, Claim(w, k) PROVE AccountMove(j)
  <2>1. k \notin locked /\ UNCHANGED <<result, faults>>
    BY <1>5 DEF Claim, Claimable, resultVars
  <2>2. CASE k = j
    <3>1. tries'[j] = tries[j] + 1 /\ run'[w][j] = "started"
      BY <1>1, <1>5, <2>2 DEF Claim, Goto
    <3> QED BY <2>1, <2>2, <3>1 DEF AccountMove, Running
  <2>3. CASE k # j
    <3>1. tries'[j] = tries[j] /\ \A v \in Workers : run'[v][j] = run[v][j]
      BY <1>1, <1>5, <2>3 DEF Claim, Goto
    <3> QED BY <2>1, <3>1 DEF AccountMove, Running
  <2> QED BY <2>2, <2>3
<1>6. ASSUME NEW w \in Workers, NEW k \in Jobs,
             \/ DeadLetter(w, k) \/ SkipEmpty(w, k) \/ RequestConnection(w, k)
             \/ Connect(w, k) \/ Commit(w, k) \/ Acknowledge(w, k)
      PROVE  AccountMove(j)
  BY <1>3, <1>6 DEF Phases, DeadLetter, SkipEmpty, RequestConnection, Connect, Commit,
     Acknowledge, queueVars, resultVars
<1>7. ASSUME NEW w \in Workers, NEW k \in Jobs, NEW why, NEW inserted,
             Settle(w, k, why, inserted), UNCHANGED faults, k = j => why = Deserved(j)
      PROVE  AccountMove(j)
  <2>1. CASE k = j
    BY <1>1, <1>7, <2>1 DEF Settle, AccountMove
  <2>2. CASE k # j
    <3>1. /\ result'[j] = result[j] /\ tries' = tries
          /\ \A v \in Workers : run'[v][j] = run[v][j]
      BY <1>1, <1>7, <2>2 DEF Settle, EndRun, Goto
    <3> QED BY <1>7, <3>1 DEF AccountMove, Running
  <2> QED BY <2>1, <2>2
<1>8. ASSUME NEW w \in Workers, NEW k \in Jobs, Abandon(w, k) PROVE AccountMove(j)
  <2>1. /\ Settle(w, k, "failed", {}) /\ UNCHANGED faults
        /\ tries[k] >= MaxJobAttempts /\ k \in queue /\ k \notin locked
    BY <1>8 DEF Abandon, Claimable
  <2>2. k # j
    <3>1. result[k] = "none" /\ ~Running(k)
      BY <1>1, <2>1 DEF Ledger, NothingForgotten, RunsOwnTheirJob, Running
    <3>2. tries[k] \in Nat /\ faults \in Nat /\ faults <= FaultBudget
      BY <1>1, ConstantsAssumption
    <3> QED BY <2>1, <3>1, <3>2, ConstantsAssumption DEF MildFaults, AttemptsArePaid
  <2> QED BY <1>7, <2>1, <2>2
<1>9. ASSUME NEW w \in Workers, NEW k \in Jobs, InsertRefused(w, k) PROVE AccountMove(j)
  BY <1>7, <1>9 DEF InsertRefused
<1>10. ASSUME NEW w \in Workers, NEW k \in Jobs, Complete(w, k) PROVE AccountMove(j)
  <2>1. run[w][k] = "returned" /\ Settle(w, k, "completed", Reported(w, k)) /\ UNCHANGED faults
    BY <1>10 DEF Complete
  <2>2. k \notin InvalidJobs
    BY <1>1, <2>1 DEF PhasesAreTruthful
  <2> QED BY <1>7, <2>1, <2>2 DEF Deserved
<1>11. ASSUME NEW w \in Workers, NEW k \in Jobs, Reject(w, k) PROVE AccountMove(j)
  <2>1. run[w][k] = "rejected" /\ Settle(w, k, "dead_lettered", {}) /\ UNCHANGED faults
    BY <1>11 DEF Reject
  <2>2. k \in InvalidJobs
    BY <1>1, <2>1 DEF PhasesAreTruthful, DeadLettersAreTruthful
  <2> QED BY <1>7, <2>1, <2>2 DEF Deserved
<1>12. ASSUME NEW w \in Workers, NEW k \in Jobs
       PROVE  ~ConnectTimeout(w, k) /\ ~ConnectionLost(w, k) /\ ~JobTimeout(w, k)
  BY <1>2 DEF ConnectTimeout, ConnectionLost, JobTimeout, Fault, MildFaults, ServerIsThere,
     PoolNeverExhausted
<1>13. ASSUME NEW w \in Workers, NEW k \in Jobs, TransientError(w, k) PROVE AccountMove(j)
  BY <1>13 DEF TransientError, RetryLater, Fault, resultVars, AccountMove
<1>14. ASSUME NEW w \in Workers, WorkerCrash(w) \/ WorkerShutdown(w) PROVE AccountMove(j)
  BY <1>14 DEF WorkerCrash, WorkerShutdown, StopWorker, Fault, resultVars, AccountMove
<1>15. ASSUME NEW w \in Workers, WorkerStart(w) PROVE AccountMove(j)
  BY <1>15 DEF WorkerStart, queueVars, resultVars, runVars, AccountMove, Running
<1>16. ~DbDown /\ ~DbUp
  BY DEF MildFaults, DbDown, DbUp, Fault, ServerIsThere
<1>17. CASE UNCHANGED vars
  BY <1>17 DEF vars, queueVars, resultVars, runVars, AccountMove, Running
<1> QED
  BY <1>4, <1>5, <1>6, <1>8, <1>9, <1>10, <1>11, <1>12, <1>13, <1>14, <1>15, <1>16, <1>17
  DEF Next, Poll, Step

\* An attempt is made when all earlier ones are paid for.
LEMMA AccountsStep ==
  ASSUME IInv, NEW j \in Jobs, AttemptsArePaid(j), AccountMove(j)
  PROVE  AttemptsArePaid(j)'
<1>1. tries[j] \in Nat /\ faults \in Nat
  BY ConstantsAssumption DEF IInv, TypeOK
<1>2. result[j] = "none" /\ j \notin locked => tries[j] <= faults
  BY DEF IInv, Exclusive, RunsOwnTheirJob, Running, AttemptsArePaid
<1>3. Deserved(j) # "none"
  BY DEF Deserved
<1>4. tries[j] <= faults + 1 => tries[j] + 1 <= faults + 2
  BY <1>1
<1>5. tries[j] <= faults => tries[j] <= faults + 1 /\ tries[j] + 1 <= faults + 1
  BY <1>1
<1> QED BY <1>2, <1>3, <1>5 DEF AccountMove, AttemptsArePaid

Accounts ==
  MildFaults => /\ ServerIsThere
                /\ \A j \in Jobs \ UnstorableJobs : AttemptsArePaid(j)
                /\ RestartsFailNoBatch

\* Fewer crashes, shutdowns and transient errors than MAX_JOB_ATTEMPTS never fail a
\* job: a batch is stored, an invalid one put aside, or still in the queue.
THEOREM RestartsAreHarmless == Spec => []RestartsFailNoBatch
<1>1. Init => Accounts
  <2> SUFFICES ASSUME Init PROVE Accounts
    OBVIOUS
  <2>1. ServerIsThere
    BY DEF Init, ServerIsThere
  <2>2. \A j \in Jobs : result[j] = "none" /\ tries[j] <= faults
    BY DEF Init
  <2> QED BY <2>1, <2>2 DEF Accounts, AttemptsArePaid, RestartsFailNoBatch
<1>2. IInv /\ Accounts /\ [Next]_vars => Accounts'
  <2> SUFFICES ASSUME IInv, Accounts, [Next]_vars, MildFaults
               PROVE  /\ ServerIsThere'
                      /\ \A j \in Jobs \ UnstorableJobs :
                           AttemptsArePaid(j)' /\ result'[j] \in {"none", Deserved(j)}
    BY DEF Accounts, RestartsFailNoBatch, MildFaults, Deserved
  <2>1. ServerIsThere'
    BY ServerStays DEF Accounts, IInv
  <2>2. ASSUME NEW j \in Jobs \ UnstorableJobs
        PROVE  AttemptsArePaid(j)' /\ result'[j] \in {"none", Deserved(j)}
    <3>1. /\ ServerIsThere /\ AttemptsArePaid(j)
          /\ result[j] \in {"none", Deserved(j)}
      BY DEF Accounts, RestartsFailNoBatch
    <3>2. AccountMove(j)
      BY <3>1, AccountMoves
    <3> QED BY <3>1, <3>2, AccountsStep DEF AccountMove
  <2> QED BY <2>1, <2>2
<1>3. Accounts => RestartsFailNoBatch
  BY DEF Accounts, RestartsFailNoBatch
<1> QED BY <1>1, <1>2, <1>3, Invariance, PTL DEF Spec
=============================================================================
