----------------------------- MODULE WorkerQueue -----------------------------
(***************************************************************************)
(* The arq queue in Redis, the worker processes that take jobs from it     *)
(* (worker/consumer.py), the two job functions (worker/processor.py), the  *)
(* connection pool and the transaction each of them opens                  *)
(* (worker/persistence.py), and the faults fault_injection.py provokes.    *)
(*                                                                         *)
(* A run of a job is one call of its function.  Every await at which       *)
(* another run, a fault or another process can interleave separates two    *)
(* phases of the run:                                                      *)
(*                                                                         *)
(*   idle -> started -> connecting -> inserting -> committed -> returned   *)
(*              |  \                     |                         |       *)
(*              |   +--- (empty batch) --|-------------------------+       *)
(*              v                        v                         v       *)
(*          rejected ------> idle      broken (connection lost)   idle     *)
(*                                                                         *)
(* A transaction is one atomic step here, Commit; BatchInsert.tla shows    *)
(* why that is what concurrent INSERT .. ON CONFLICT DO NOTHING gives.     *)
(***************************************************************************)
EXTENDS Naturals, FiniteSets

CONSTANTS Jobs,            \* every job a run of the system enqueues
          Ids,             \* unique keys of raw_telemetry and extraction_log
          IdsOf,           \* keys in a job's payload once _dedupe_events is done
          InvalidJobs,     \* payload fails TelemetryBatch / ExtractionLogEntry
          UnstorableJobs,  \* valid payload that PostgreSQL refuses (DataError)
          ExtractionJobs,  \* process_extraction_log, the others are telemetry
          Workers,         \* arq worker processes
          MaxJobAttempts,  \* settings.MAX_JOB_ATTEMPTS = max_tries
          MaxJobs,         \* WorkerSettings.max_jobs
          PoolSize,        \* settings.DB_POOL_MAX_SIZE, per worker process
          FaultKinds,      \* the faults that may happen
          FaultBudget      \* bound: how many of them

AllFaults == {"crash", "shutdown", "dbdown", "transient", "timeout"}

ASSUME ConstantsAssumption ==
  /\ IsFiniteSet(Jobs)
  /\ IdsOf \in [Jobs -> SUBSET Ids]
  /\ InvalidJobs \subseteq Jobs
  /\ UnstorableJobs \subseteq Jobs \ InvalidJobs
  /\ ExtractionJobs \subseteq Jobs
  /\ MaxJobAttempts \in Nat \ {0}
  /\ MaxJobs \in Nat \ {0}
  /\ PoolSize \in Nat \ {0}
  /\ FaultKinds \subseteq AllFaults
  /\ FaultBudget \in Nat

VARIABLES submitted,   \* jobs enqueued so far
          queue,       \* members of the arq sorted set
          deferred,    \* members of queue whose score lies in the future
          locked,      \* jobs with an arq:in-progress key
          tries,       \* arq:retry counter = ctx["job_try"] of the last run
          result,      \* arq:result of the job
          credit,      \* the keys behind that result's newly_inserted
          dlq,         \* entries of the job in the dead-letter list
          up,          \* worker processes that are alive
          run,         \* phase of the run of a job in a worker
          conns,       \* jobs holding a connection of a worker's pool
          fresh,       \* keys a run's committed transaction inserted
          dbUp,        \* PostgreSQL accepts connections
          rows,        \* keys with a committed row
          faults       \* faults so far

queueVars  == <<submitted, queue, deferred, locked, tries>>
resultVars == <<result, credit, dlq>>
runVars    == <<run, conns, fresh>>
vars == <<queueVars, resultVars, runVars, up, dbUp, rows, faults>>

Phases  == {"idle", "started", "rejected", "connecting", "inserting", "broken",
            "committed", "returned"}
Results == {"none", "completed", "dead_lettered", "failed", "timed_out"}

Init ==
  /\ submitted = {}
  /\ queue = {}
  /\ deferred = {}
  /\ locked = {}
  /\ tries = [j \in Jobs |-> 0]
  /\ result = [j \in Jobs |-> "none"]
  /\ credit = [j \in Jobs |-> {}]
  /\ dlq = [j \in Jobs |-> 0]
  /\ up = Workers
  /\ run = [w \in Workers |-> [j \in Jobs |-> "idle"]]
  /\ conns = [w \in Workers |-> {}]
  /\ fresh = [w \in Workers |-> [j \in Jobs |-> {}]]
  /\ dbUp = TRUE
  /\ rows = {}
  /\ faults = 0

-----------------------------------------------------------------------------
(***************************************************************************)
(* How a run moves on and how it ends.                                     *)
(***************************************************************************)
Goto(w, j, phase) == run' = [run EXCEPT ![w][j] = phase]

\* Mutant: no path gives the connection back.
ReleaseConnection_Leaks(w, j) == UNCHANGED conns

\* The connection goes back to the pool when pool.connection() exits, on
\* every path out of the function.
ReleaseConnection(w, j) == conns' = [conns EXCEPT ![w] = @ \ {j}]

EndRun(w, j) ==
  /\ Goto(w, j, "idle")
  /\ ReleaseConnection(w, j)
  /\ fresh' = [fresh EXCEPT ![w][j] = {}]

\* arq stores the result, drops the job from the queue and deletes the
\* in-progress key in one MULTI.
Settle(w, j, outcome, inserted) ==
  /\ EndRun(w, j)
  /\ result' = [result EXCEPT ![j] = outcome]
  /\ credit' = [credit EXCEPT ![j] = inserted]
  /\ queue' = queue \ {j}
  /\ locked' = locked \ {j}
  /\ UNCHANGED <<submitted, deferred, tries, dlq, up, dbUp, rows>>

\* Mutant: a retried job leaves the queue.
RetryLater_Dequeues(w, j) ==
  /\ EndRun(w, j)
  /\ queue' = queue \ {j}
  /\ locked' = locked \ {j}
  /\ UNCHANGED <<submitted, deferred, tries, resultVars, up, dbUp, rows>>

\* raise Retry(defer=compute_backoff_seconds(attempt)): the job keeps its
\* place in the queue with a later score, the in-progress key is deleted.
RetryLater(w, j) ==
  /\ EndRun(w, j)
  /\ deferred' = deferred \cup {j}
  /\ locked' = locked \ {j}
  /\ UNCHANGED <<submitted, queue, tries, resultVars, up, dbUp, rows>>

Fault(kind) ==
  /\ kind \in FaultKinds
  /\ faults < FaultBudget
  /\ faults' = faults + 1

-----------------------------------------------------------------------------
(***************************************************************************)
(* The queue.                                                              *)
(***************************************************************************)
Enqueue(j) ==
  /\ j \notin submitted
  /\ submitted' = submitted \cup {j}
  /\ queue' = queue \cup {j}
  /\ UNCHANGED <<deferred, locked, tries, resultVars, runVars, up, dbUp, rows, faults>>

Active(w) == {j \in Jobs : run[w][j] # "idle"}

Claimable(w, j) ==
  /\ w \in up
  /\ j \in queue
  /\ j \notin deferred
  /\ j \notin locked
  /\ Cardinality(Active(w)) < MaxJobs

\* Mutant: nothing bounds the attempts.
Claim_Unbounded(w, j) ==
  /\ Claimable(w, j)
  /\ locked' = locked \cup {j}
  /\ tries' = [tries EXCEPT ![j] = @ + 1]
  /\ Goto(w, j, "started")
  /\ UNCHANGED <<submitted, queue, deferred, resultVars, conns, fresh, up, dbUp, rows, faults>>

Claim(w, j) ==
  /\ Claimable(w, j)
  /\ tries[j] < MaxJobAttempts
  /\ locked' = locked \cup {j}
  /\ tries' = [tries EXCEPT ![j] = @ + 1]
  /\ Goto(w, j, "started")
  /\ UNCHANGED <<submitted, queue, deferred, resultVars, conns, fresh, up, dbUp, rows, faults>>

\* Mutant: the last attempt is not made.
Abandon_OffByOne(w, j) ==
  /\ Claimable(w, j)
  /\ tries[j] + 1 >= MaxJobAttempts
  /\ Settle(w, j, "failed", {})
  /\ UNCHANGED faults

\* job_try > max_tries: arq fails the job without calling its function.
Abandon(w, j) ==
  /\ Claimable(w, j)
  /\ tries[j] >= MaxJobAttempts
  /\ Settle(w, j, "failed", {})
  /\ UNCHANGED faults

BackoffElapsed(j) ==
  /\ j \in deferred
  /\ deferred' = deferred \ {j}
  /\ UNCHANGED <<submitted, queue, locked, tries, resultVars, runVars, up, dbUp, rows, faults>>

\* Mutant: the key expires under a run that is still going.
LockExpires_UnderRun(j) ==
  /\ j \in locked
  /\ locked' = locked \ {j}
  /\ UNCHANGED <<submitted, queue, deferred, tries, resultVars, runVars, up, dbUp, rows,
                 faults>>

\* Mutant: the key has no time to live.
LockExpires_Never(j) == FALSE /\ UNCHANGED vars

\* The in-progress key lives for the job timeout plus 10 s, longer than any
\* run: it expires only when its run died with the worker.
LockExpires(j) ==
  /\ j \in locked
  /\ \A w \in Workers : run[w][j] = "idle"
  /\ locked' = locked \ {j}
  /\ UNCHANGED <<submitted, queue, deferred, tries, resultVars, runVars, up, dbUp, rows,
                 faults>>

-----------------------------------------------------------------------------
(***************************************************************************)
(* The steps of process_telemetry_batch and process_extraction_log.        *)
(***************************************************************************)
\* Mutant: the push is lost.
DeadLetter_NotPushed(w, j) ==
  /\ run[w][j] = "started"
  /\ j \in InvalidJobs
  /\ Goto(w, j, "rejected")
  /\ UNCHANGED <<queueVars, resultVars, conns, fresh, up, dbUp, rows, faults>>

\* ValidationError: write_to_dead_letter pushes the payload, then returns.
DeadLetter(w, j) ==
  /\ run[w][j] = "started"
  /\ j \in InvalidJobs
  /\ dlq' = [dlq EXCEPT ![j] = @ + 1]
  /\ Goto(w, j, "rejected")
  /\ UNCHANGED <<queueVars, result, credit, conns, fresh, up, dbUp, rows, faults>>

\* persist_batch([]) returns 0 without touching the pool.
SkipEmpty(w, j) ==
  /\ run[w][j] = "started"
  /\ j \notin InvalidJobs
  /\ IdsOf[j] = {}
  /\ Goto(w, j, "returned")
  /\ UNCHANGED <<queueVars, resultVars, conns, fresh, up, dbUp, rows, faults>>

RequestConnection(w, j) ==
  /\ run[w][j] = "started"
  /\ j \notin InvalidJobs
  /\ IdsOf[j] # {}
  /\ Goto(w, j, "connecting")
  /\ UNCHANGED <<queueVars, resultVars, conns, fresh, up, dbUp, rows, faults>>

PoolHasRoom(w) == Cardinality(conns[w]) < PoolSize

Connect(w, j) ==
  /\ run[w][j] = "connecting"
  /\ dbUp
  /\ PoolHasRoom(w)
  /\ conns' = [conns EXCEPT ![w] = @ \cup {j}]
  /\ Goto(w, j, "inserting")
  /\ UNCHANGED <<queueVars, resultVars, fresh, up, dbUp, rows, faults>>

\* Mutant: an unreachable database fails the job at once.
ConnectTimeout_Fatal(w, j) ==
  /\ run[w][j] = "connecting"
  /\ ~dbUp \/ ~PoolHasRoom(w)
  /\ Settle(w, j, "failed", {})
  /\ UNCHANGED faults

\* PoolTimeout: no server, or no free connection, for 5 s.
ConnectTimeout(w, j) ==
  /\ run[w][j] = "connecting"
  /\ ~dbUp \/ ~PoolHasRoom(w)
  /\ RetryLater(w, j)
  /\ UNCHANGED faults

\* Mutant: newly_inserted counts the rows submitted, not those inserted.
Commit_CountsSkipped(w, j) ==
  /\ run[w][j] = "inserting"
  /\ j \notin UnstorableJobs
  /\ rows' = rows \cup IdsOf[j]
  /\ fresh' = [fresh EXCEPT ![w][j] = IdsOf[j]]
  /\ Goto(w, j, "committed")
  /\ UNCHANGED <<queueVars, resultVars, conns, up, dbUp, faults>>

\* Mutant: each chunk is committed on its own.
Commit_PerChunk(w, j) ==
  /\ run[w][j] = "inserting"
  /\ j \notin UnstorableJobs
  /\ \E i \in IdsOf[j] : rows' = rows \cup {i}
  /\ fresh' = [fresh EXCEPT ![w][j] = rows' \ rows]
  /\ Goto(w, j, IF IdsOf[j] \subseteq rows' THEN "committed" ELSE "inserting")
  /\ UNCHANGED <<queueVars, resultVars, conns, up, dbUp, faults>>

\* The server commits the inserts of all chunks; the client does not know yet.
Commit(w, j) ==
  /\ run[w][j] = "inserting"
  /\ j \notin UnstorableJobs
  /\ rows' = rows \cup IdsOf[j]
  /\ fresh' = [fresh EXCEPT ![w][j] = IdsOf[j] \ rows]
  /\ Goto(w, j, "committed")
  /\ UNCHANGED <<queueVars, resultVars, conns, up, dbUp, faults>>

Acknowledge(w, j) ==
  /\ run[w][j] = "committed"
  /\ ReleaseConnection(w, j)
  /\ Goto(w, j, "returned")
  /\ UNCHANGED <<queueVars, resultVars, fresh, up, dbUp, rows, faults>>

\* psycopg.DataError is no OperationalError: it leaves the function, and arq
\* fails the job for good.
InsertRefused(w, j) ==
  /\ run[w][j] = "inserting"
  /\ j \in UnstorableJobs
  /\ Settle(w, j, "failed", {})
  /\ UNCHANGED faults

\* OperationalError on a connection the server dropped.
ConnectionLost(w, j) ==
  /\ run[w][j] = "broken"
  /\ RetryLater(w, j)
  /\ UNCHANGED faults

\* Only process_telemetry_batch reports newly_inserted.
Reported(w, j) == IF j \in ExtractionJobs THEN {} ELSE fresh[w][j]

Complete(w, j) ==
  /\ run[w][j] = "returned"
  /\ Settle(w, j, "completed", Reported(w, j))
  /\ UNCHANGED faults

Reject(w, j) ==
  /\ run[w][j] = "rejected"
  /\ Settle(w, j, "dead_lettered", {})
  /\ UNCHANGED faults

-----------------------------------------------------------------------------
(***************************************************************************)
(* Faults.                                                                 *)
(***************************************************************************)
\* Mutant: the exception is logged and swallowed.
TransientError_Swallowed(w, j) ==
  /\ Fault("transient")
  /\ run[w][j] = "inserting"
  /\ ReleaseConnection(w, j)
  /\ Goto(w, j, "returned")
  /\ UNCHANGED <<queueVars, resultVars, fresh, up, dbUp, rows>>

\* A deadlock the server broke, or a pooled connection gone stale: another
\* OperationalError, with the server up.
TransientError(w, j) ==
  /\ Fault("transient")
  /\ run[w][j] = "inserting"
  /\ RetryLater(w, j)

\* arq cancels the function after job_timeout and fails the job for good.
JobTimeout(w, j) ==
  /\ Fault("timeout")
  /\ run[w][j] \notin {"idle", "returned"}
  /\ Settle(w, j, "timed_out", {})

StopWorker(w) ==
  /\ w \in up
  /\ up' = up \ {w}
  /\ run' = [run EXCEPT ![w] = [j \in Jobs |-> "idle"]]
  /\ conns' = [conns EXCEPT ![w] = {}]
  /\ fresh' = [fresh EXCEPT ![w] = [j \in Jobs |-> {}]]
  /\ UNCHANGED <<submitted, queue, deferred, tries, resultVars, dbUp, rows>>

\* SIGKILL: in-progress keys stay behind, open transactions roll back.
WorkerCrash(w) ==
  /\ Fault("crash")
  /\ StopWorker(w)
  /\ UNCHANGED locked

\* SIGTERM: arq cancels the runs and deletes their in-progress keys; the
\* write of a result is shielded from the cancellation.
WorkerShutdown(w) ==
  /\ Fault("shutdown")
  /\ \A j \in Jobs : run[w][j] # "returned"
  /\ StopWorker(w)
  /\ locked' = locked \ Active(w)

\* restart: unless-stopped
WorkerStart(w) ==
  /\ w \notin up
  /\ up' = up \cup {w}
  /\ UNCHANGED <<queueVars, resultVars, runVars, dbUp, rows, faults>>

\* Open transactions abort; the reply to a COMMIT may be lost or not.
DbDown ==
  /\ Fault("dbdown")
  /\ dbUp
  /\ dbUp' = FALSE
  /\ \E lost \in SUBSET {r \in up \X Jobs : run[r[1]][r[2]] = "committed"} :
       run' = [w \in Workers |-> [j \in Jobs |->
                 IF run[w][j] = "inserting" \/ <<w, j>> \in lost
                 THEN "broken" ELSE run[w][j]]]
  /\ UNCHANGED <<queueVars, resultVars, conns, fresh, up, rows>>

DbUp ==
  /\ ~dbUp
  /\ dbUp' = TRUE
  /\ UNCHANGED <<queueVars, resultVars, runVars, up, rows, faults>>

-----------------------------------------------------------------------------
\* What the event loop of a live worker does for a run without any fault.
Step(w, j) ==
  \/ DeadLetter(w, j) \/ SkipEmpty(w, j) \/ RequestConnection(w, j)
  \/ Connect(w, j) \/ ConnectTimeout(w, j)
  \/ Commit(w, j) \/ Acknowledge(w, j)
  \/ InsertRefused(w, j) \/ ConnectionLost(w, j)
  \/ Complete(w, j) \/ Reject(w, j)

Poll(w, j) == Claim(w, j) \/ Abandon(w, j)

Next ==
  \/ \E j \in Jobs : Enqueue(j) \/ BackoffElapsed(j) \/ LockExpires(j)
  \/ \E w \in Workers, j \in Jobs :
       Poll(w, j) \/ Step(w, j) \/ TransientError(w, j) \/ JobTimeout(w, j)
  \/ \E w \in Workers : WorkerCrash(w) \/ WorkerShutdown(w) \/ WorkerStart(w)
  \/ DbDown \/ DbUp

Spec == Init /\ [][Next]_vars

\* arq polls in score order, the event loop runs every ready task, timers
\* fire, and compose restarts what died.  Nothing forces a fault or a job.
Fairness ==
  /\ \A j \in Jobs : /\ WF_vars(\E w \in Workers : Poll(w, j))
                     /\ WF_vars(BackoffElapsed(j))
                     /\ WF_vars(LockExpires(j))
  /\ \A w \in Workers, j \in Jobs : WF_vars(Step(w, j))
  /\ \A w \in Workers : WF_vars(WorkerStart(w))
  /\ WF_vars(DbUp)

FairSpec == Spec /\ Fairness

-----------------------------------------------------------------------------
(***************************************************************************)
(* Properties.                                                             *)
(***************************************************************************)
\* Types of the variables.
TypeOK ==
  /\ submitted \subseteq Jobs /\ queue \subseteq Jobs
  /\ deferred \subseteq Jobs /\ locked \subseteq Jobs
  /\ tries \in [Jobs -> 0..MaxJobAttempts]
  /\ result \in [Jobs -> Results]
  /\ credit \in [Jobs -> SUBSET Ids]
  /\ dlq \in [Jobs -> Nat]
  /\ up \subseteq Workers
  /\ run \in [Workers -> [Jobs -> Phases]]
  /\ conns \in [Workers -> SUBSET Jobs]
  /\ fresh \in [Workers -> [Jobs -> SUBSET Ids]]
  /\ dbUp \in BOOLEAN
  /\ rows \subseteq Ids
  /\ faults \in 0..FaultBudget

\* Two workers never run the same job at the same time, whatever crashed,
\* retried or restarted in between (consumer.py: "don't double-process").
NoDoubleProcessing ==
  \A v, w \in Workers, j \in Jobs :
    run[v][j] # "idle" /\ run[w][j] # "idle" => v = w

\* A result "completed" means that every row of the batch is committed, also
\* when the commit was made by an earlier run whose outcome was lost.
CompletedIsDurable ==
  \A j \in Jobs : result[j] = "completed" => IdsOf[j] \subseteq rows

\* The newly_inserted counts of all results, which fault_injection.py sums as
\* its ground truth, never count one row twice nor a row that does not exist.
CreditsNeverOvercount ==
  \A j, k \in Jobs :
    /\ credit[j] \subseteq rows
    /\ j # k => credit[j] \cap credit[k] = {}

\* Every accepted job is in the queue until it has a result and only until
\* then: no retry, crash or restart forgets one or revives one.
NothingForgotten ==
  \A j \in Jobs : j \in queue <=> j \in submitted /\ result[j] = "none"

\* A payload that was reported dead-lettered is in the list; the list holds
\* invalid payloads only, once per attempt at most, and no row of theirs.
DeadLettersAreTruthful ==
  \A j \in Jobs :
    /\ result[j] = "dead_lettered" => dlq[j] > 0
    /\ dlq[j] > 0 => j \in InvalidJobs
    /\ dlq[j] <= tries[j]
    /\ j \in InvalidJobs => result[j] # "completed"

\* With max_jobs within the pool size, no run ever waits for a connection
\* that other runs hold: consumer.py's reason for matching the two numbers.
PoolNeverExhausted ==
  MaxJobs <= PoolSize =>
    \A w \in Workers, j \in Jobs : run[w][j] = "connecting" => PoolHasRoom(w)

\* Short of a job timeout, a storable batch is given up only after all of
\* its attempts: no single fault makes a job fail early.
GivenUpOnlyWhenExhausted ==
  \A j \in Jobs \ UnstorableJobs : result[j] = "failed" => tries[j] = MaxJobAttempts

\* A result, once written, stands, and no row disappears.
OutcomeIsFinal ==
  [][/\ \A j \in Jobs : result[j] # "none" => result'[j] = result[j] /\ dlq'[j] = dlq[j]
     /\ rows \subseteq rows']_vars

\* Every job that was accepted ends in a result, through any fault.
EveryJobSettles ==
  \A j \in Jobs : j \in submitted ~> result[j] # "none"

\* Each fault costs a job at most one attempt unless the server stays away,
\* so crashes, shutdowns and transient errors fewer than the attempts lose
\* no storable batch.
RestartsLoseNoBatch ==
  /\ FaultBudget < MaxJobAttempts /\ MaxJobs <= PoolSize
  /\ FaultKinds \subseteq {"crash", "shutdown", "transient"}
  => \A j \in Jobs \ (InvalidJobs \cup UnstorableJobs) :
       j \in submitted ~> result[j] = "completed"

\* Refinement: what an outside observer sees is TelemetrySink.
Outcome ==
  [j \in Jobs |-> IF j \notin submitted THEN "unknown"
                  ELSE IF result[j] = "none" THEN "pending" ELSE result[j]]

Sink == INSTANCE TelemetrySink
          WITH outcome <- Outcome, stored <- rows, letters <- {j \in Jobs : dlq[j] > 0}

\* The whole system implements the promise of TelemetrySink.
ImplementsSink == Sink!Spec
=============================================================================
