---------------------------- MODULE TelemetrySink ----------------------------
(***************************************************************************)
(* What the queue and its workers promise to whoever enqueued a job,       *)
(* without saying how: a job that was accepted is stored whole or not at   *)
(* all, gets at most one outcome, and the outcome tells the truth about    *)
(* the database and about the dead-letter list.                            *)
(***************************************************************************)
EXTENDS Naturals

CONSTANTS Jobs,          \* jobs of process_telemetry_batch / process_extraction_log
          Ids,           \* unique keys of the rows (ingestion_id, request_id)
          IdsOf,         \* the keys a job's payload carries after de-duplication
          InvalidJobs    \* jobs whose payload does not pass schema validation

VARIABLES outcome,       \* what the job's result key says of it
          stored,        \* keys with a committed row
          letters        \* jobs with an entry in the dead-letter list

sinkVars == <<outcome, stored, letters>>

Init ==
  /\ outcome = [j \in Jobs |-> "unknown"]
  /\ stored = {}
  /\ letters = {}

Accept(j) ==
  /\ outcome[j] = "unknown"
  /\ outcome' = [outcome EXCEPT ![j] = "pending"]
  /\ UNCHANGED <<stored, letters>>

\* The rows of a batch become visible together: one transaction per job.
Store(j) ==
  /\ outcome[j] = "pending"
  /\ j \notin InvalidJobs
  /\ stored' = stored \cup IdsOf[j]
  /\ UNCHANGED <<outcome, letters>>

PutAside(j) ==
  /\ outcome[j] = "pending"
  /\ j \in InvalidJobs
  /\ letters' = letters \cup {j}
  /\ UNCHANGED <<outcome, stored>>

Complete(j) ==
  /\ outcome[j] = "pending"
  /\ j \notin InvalidJobs
  /\ IdsOf[j] \subseteq stored
  /\ outcome' = [outcome EXCEPT ![j] = "completed"]
  /\ UNCHANGED <<stored, letters>>

Reject(j) ==
  /\ outcome[j] = "pending"
  /\ j \in letters
  /\ outcome' = [outcome EXCEPT ![j] = "dead_lettered"]
  /\ UNCHANGED <<stored, letters>>

\* Neither of these promises anything: the rows may be stored, the payload is gone.
GiveUp(j) ==
  /\ outcome[j] = "pending"
  /\ \E why \in {"failed", "timed_out"} : outcome' = [outcome EXCEPT ![j] = why]
  /\ UNCHANGED <<stored, letters>>

Next ==
  \E j \in Jobs :
    Accept(j) \/ Store(j) \/ PutAside(j) \/ Complete(j) \/ Reject(j) \/ GiveUp(j)

Spec == Init /\ [][Next]_sinkVars
=============================================================================
