------------------------------ MODULE Ingestion ------------------------------
(***************************************************************************)
(* ingestion/routes.py: the handlers of POST /telemetry and                *)
(* POST /extraction-log in each FastAPI process, the idempotency cache,    *)
(* the lazily created arq pool and its lock, and Redis.                    *)
(*                                                                         *)
(* A process has one event loop: a handler runs alone from one await to    *)
(* the next, and those are the phases of a request:                        *)
(*                                                                         *)
(*   new -> parsing -> validating -> connecting -> enqueueing -> queued    *)
(*                          |                          ^                   *)
(*                          +--------------------------+                   *)
(*                                                                         *)
(* all of them leading to "done".  _get_arq_pool holds a threading.Lock    *)
(* across an await.  A handler that finds it taken stops its thread, and   *)
(* that thread is the event loop: the phase "blocked".                     *)
(***************************************************************************)
EXTENDS Naturals, FiniteSets

CONSTANTS Instances,      \* FastAPI processes
          Requests,       \* requests as they reach one process, retries included
          InstanceOf,     \* where each of them goes
          Keys, NoKey,
          KeyOf,          \* its Idempotency-Key header
          LogRequests,    \* those to /extraction-log, the others to /telemetry
          Malformed,      \* bodies that are no JSON
          Invalid,        \* JSON that the schema refuses
          Concurrency,    \* requests in progress on one process
          CrashBudget,    \* bound: crashes of a process
          OutageBudget,   \* bound: outages of Redis
          NoRequest       \* the pool's lock is free

ASSUME ConstantsAssumption ==
  /\ InstanceOf \in [Requests -> Instances]
  /\ NoKey \notin Keys
  /\ KeyOf \in [Requests -> Keys \cup {NoKey}]
  /\ LogRequests \subseteq Requests
  /\ Malformed \subseteq Requests
  /\ Invalid \subseteq Requests
  /\ Concurrency \in Nat \ {0}
  /\ CrashBudget \in Nat
  /\ OutageBudget \in Nat
  /\ NoRequest \notin Requests

VARIABLES pc,         \* phase of a request's handler
          answer,     \* what its client got
          cited,      \* the request whose IngestResponse that was, if any
          cache,      \* _idempotency_cache: the request that filled an entry
          pool,       \* processes whose _arq_pool is not None
          holder,     \* who holds a process's _arq_pool_lock
          queued,     \* requests whose job Redis has
          redisUp,
          crashes, outages,
          served,     \* history: accepted answers since the process started
          late        \* history: requests whose key had been served on arrival

redisVars == <<queued, redisUp>>
faultVars == <<crashes, outages>>
vars == <<pc, answer, cited, cache, pool, holder, redisVars, faultVars, served, late>>

Phases == {"new", "parsing", "validating", "connecting", "blocked", "enqueueing",
           "queued", "done"}

Answers == {"none", "accepted", "rejected", "failed", "reset"}

Init ==
  /\ pc = [r \in Requests |-> "new"]
  /\ answer = [r \in Requests |-> "none"]
  /\ cited = [r \in Requests |-> {}]
  /\ cache = [i \in Instances |-> [k \in Keys |-> {}]]
  /\ pool = {}
  /\ holder = [i \in Instances |-> NoRequest]
  /\ queued = {}
  /\ redisUp = TRUE
  /\ crashes = 0
  /\ outages = 0
  /\ served = [i \in Instances |-> {}]
  /\ late = {}

-----------------------------------------------------------------------------
HasKey(r) == r \notin LogRequests /\ KeyOf[r] # NoKey

InProgress(i) == {r \in Requests : InstanceOf[r] = i /\ pc[r] \notin {"new", "done"}}

\* The event loop of a process turns.
Responsive(i) == \A r \in InProgress(i) : pc[r] # "blocked"

Goto(r, phase) == pc' = [pc EXCEPT ![r] = phase]

Finish(r, what) ==
  /\ Goto(r, "done")
  /\ answer' = [answer EXCEPT ![r] = what]

\* Mutant: the response is remembered before the job is enqueued.
EnterPool_CachesFirst(r) ==
  LET i == InstanceOf[r] IN
  /\ IF i \in pool THEN Goto(r, "enqueueing") /\ UNCHANGED holder
     ELSE IF holder[i] = NoRequest
     THEN Goto(r, "connecting") /\ holder' = [holder EXCEPT ![i] = r]
     ELSE Goto(r, "blocked") /\ UNCHANGED holder
  /\ cache' = IF HasKey(r) THEN [cache EXCEPT ![i][KeyOf[r]] = {r}] ELSE cache

\* Mutant: no lock.
EnterPool_Unlocked(r) ==
  /\ Goto(r, IF InstanceOf[r] \in pool THEN "enqueueing" ELSE "connecting")
  /\ UNCHANGED <<holder, cache>>

\* _get_arq_pool up to its first await.
EnterPool(r) ==
  LET i == InstanceOf[r] IN
  /\ \/ i \in pool /\ Goto(r, "enqueueing") /\ UNCHANGED holder
     \/ /\ i \notin pool /\ holder[i] = NoRequest
        /\ Goto(r, "connecting")
        /\ holder' = [holder EXCEPT ![i] = r]
     \/ /\ i \notin pool /\ holder[i] # NoRequest
        /\ Goto(r, "blocked")
        /\ UNCHANGED holder
  /\ UNCHANGED cache

-----------------------------------------------------------------------------
Arrive(r) ==
  /\ pc[r] = "new"
  /\ Responsive(InstanceOf[r])
  /\ Cardinality(InProgress(InstanceOf[r])) < Concurrency
  /\ late' = IF HasKey(r) /\ \E q \in served[InstanceOf[r]] : HasKey(q) /\ KeyOf[q] = KeyOf[r]
             THEN late \cup {r} ELSE late

\* post_telemetry: the key is known, "return cached".
Replay(r) ==
  /\ Arrive(r)
  /\ HasKey(r) /\ cache[InstanceOf[r]][KeyOf[r]] # {}
  /\ cited' = [cited EXCEPT ![r] = cache[InstanceOf[r]][KeyOf[r]]]
  /\ served' = [served EXCEPT ![InstanceOf[r]] = @ \cup {r}]
  /\ Finish(r, "accepted")
  /\ UNCHANGED <<cache, pool, holder, redisVars, faultVars>>

\* It is not, or there is none.
BeginTelemetry(r) ==
  /\ Arrive(r)
  /\ r \notin LogRequests
  /\ HasKey(r) => cache[InstanceOf[r]][KeyOf[r]] = {}
  /\ Goto(r, "parsing")
  /\ UNCHANGED <<answer, cited, cache, pool, holder, redisVars, faultVars, served>>

\* FastAPI has validated the entry before post_extraction_log runs.
BeginLog(r) ==
  /\ Arrive(r)
  /\ r \in LogRequests
  /\ IF r \in Malformed \cup Invalid
     THEN Finish(r, "rejected") /\ UNCHANGED <<holder, cache>>
     ELSE EnterPool(r) /\ UNCHANGED answer
  /\ UNCHANGED <<cited, pool, redisVars, faultVars, served>>

\* await request.json(), which nothing guards.
ParseBody(r) ==
  /\ pc[r] = "parsing"
  /\ Responsive(InstanceOf[r])
  /\ IF r \in Malformed THEN Finish(r, "failed") ELSE Goto(r, "validating") /\ UNCHANGED answer
  /\ UNCHANGED <<cited, cache, pool, holder, redisVars, faultVars, served, late>>

\* await run_in_threadpool(TelemetryBatch.model_validate, ...)
Validate(r) ==
  /\ pc[r] = "validating"
  /\ Responsive(InstanceOf[r])
  /\ IF r \in Invalid
     THEN Finish(r, "rejected") /\ UNCHANGED <<holder, cache>>
     ELSE EnterPool(r) /\ UNCHANGED answer
  /\ UNCHANGED <<cited, pool, redisVars, faultVars, served, late>>

\* await create_pool(...)
Connected(r) ==
  /\ pc[r] = "connecting"
  /\ Responsive(InstanceOf[r])
  /\ redisUp
  /\ pool' = pool \cup {InstanceOf[r]}
  /\ holder' = [holder EXCEPT ![InstanceOf[r]] = NoRequest]
  /\ Goto(r, "enqueueing")
  /\ UNCHANGED <<answer, cited, cache, redisVars, faultVars, served, late>>

\* Mutant: the lock is not released when create_pool raises.
ConnectFails_KeepsLock(r) ==
  /\ pc[r] = "connecting"
  /\ Responsive(InstanceOf[r])
  /\ ~redisUp
  /\ Finish(r, "failed")
  /\ UNCHANGED <<cited, cache, pool, holder, redisVars, faultVars, served, late>>

\* create_pool gave up: the exception leaves the with block and the handler.
ConnectFails(r) ==
  /\ pc[r] = "connecting"
  /\ Responsive(InstanceOf[r])
  /\ ~redisUp
  /\ holder' = [holder EXCEPT ![InstanceOf[r]] = NoRequest]
  /\ Finish(r, "failed")
  /\ UNCHANGED <<cited, cache, pool, redisVars, faultVars, served, late>>

\* Redis runs enqueue_job's transaction, whatever the process does meanwhile.
RedisEnqueues(r) ==
  /\ pc[r] = "enqueueing"
  /\ redisUp
  /\ queued' = queued \cup {r}
  /\ Goto(r, "queued")
  /\ UNCHANGED <<answer, cited, cache, pool, holder, redisUp, faultVars, served, late>>

\* The connection is lost before the command, or before its reply.
EnqueueFails(r) ==
  /\ pc[r] \in {"enqueueing", "queued"}
  /\ Responsive(InstanceOf[r])
  /\ ~redisUp
  /\ Finish(r, "failed")
  /\ UNCHANGED <<cited, cache, pool, holder, redisVars, faultVars, served, late>>

Served(r) ==
  /\ pc[r] = "queued"
  /\ Responsive(InstanceOf[r])
  /\ cited' = [cited EXCEPT ![r] = {r}]
  /\ served' = [served EXCEPT ![InstanceOf[r]] = @ \cup {r}]
  /\ Finish(r, "accepted")
  /\ UNCHANGED <<pool, holder, redisVars, faultVars, late>>

\* Mutants: the entry is not stored; a key collects its responses.
Accept_NotCached(r) == Served(r) /\ UNCHANGED cache
Accept_Collects(r) ==
  /\ Served(r)
  /\ cache' = IF HasKey(r)
              THEN [cache EXCEPT ![InstanceOf[r]][KeyOf[r]] = @ \cup {r}]
              ELSE cache

\* enqueue_job returned: remember the response, then return it.
Accept(r) ==
  /\ Served(r)
  /\ cache' = IF HasKey(r) THEN [cache EXCEPT ![InstanceOf[r]][KeyOf[r]] = {r}] ELSE cache

-----------------------------------------------------------------------------
\* A process is killed and started again: its connections are reset, and
\* nothing of its memory is left.
Crash(i) ==
  /\ crashes < CrashBudget
  /\ crashes' = crashes + 1
  /\ pc' = [r \in Requests |-> IF r \in InProgress(i) THEN "done" ELSE pc[r]]
  /\ answer' = [r \in Requests |-> IF r \in InProgress(i) THEN "reset" ELSE answer[r]]
  /\ cache' = [cache EXCEPT ![i] = [k \in Keys |-> {}]]
  /\ pool' = pool \ {i}
  /\ holder' = [holder EXCEPT ![i] = NoRequest]
  /\ served' = [served EXCEPT ![i] = {}]
  /\ UNCHANGED <<cited, redisVars, outages, late>>

RedisStops ==
  /\ redisUp
  /\ outages < OutageBudget
  /\ outages' = outages + 1
  /\ redisUp' = FALSE
  /\ UNCHANGED <<pc, answer, cited, cache, pool, holder, queued, crashes, served, late>>

RedisStarts ==
  /\ ~redisUp
  /\ redisUp' = TRUE
  /\ UNCHANGED <<pc, answer, cited, cache, pool, holder, queued, faultVars, served, late>>

Begin(r) == Replay(r) \/ BeginTelemetry(r) \/ BeginLog(r)

Handle(r) ==
  \/ ParseBody(r) \/ Validate(r)
  \/ Connected(r) \/ ConnectFails(r)
  \/ RedisEnqueues(r) \/ EnqueueFails(r) \/ Accept(r)

Next ==
  \/ \E r \in Requests : Begin(r) \/ Handle(r)
  \/ \E i \in Instances : Crash(i)
  \/ RedisStops \/ RedisStarts

Spec == Init /\ [][Next]_vars

\* The event loop turns to every handler that can go on, and Redis comes back.
FairSpec == Spec /\ WF_vars(RedisStarts) /\ \A r \in Requests : WF_vars(Handle(r))

-----------------------------------------------------------------------------
Citations == {{}} \cup {{r} : r \in Requests}

\* Types of the variables.
TypeOK ==
  /\ pc \in [Requests -> Phases]
  /\ answer \in [Requests -> Answers]
  /\ cited \in [Requests -> Citations]
  /\ cache \in [Instances -> [Keys -> Citations]]
  /\ pool \subseteq Instances
  /\ holder \in [Instances -> Requests \cup {NoRequest}]
  /\ queued \subseteq Requests
  /\ redisUp \in BOOLEAN
  /\ crashes \in 0..CrashBudget
  /\ outages \in 0..OutageBudget
  /\ served \in [Instances -> SUBSET Requests]
  /\ late \subseteq Requests

\* No false 2xx: what an accepted answer names is in the queue, is the request
\* itself or one that carried the same key, and a rejected one is not queued.
AnswersAreTrue ==
  \A r \in Requests :
    /\ answer[r] = "accepted" => cited[r] # {}
    /\ \A q \in cited[r] : q \in queued /\ (q = r \/ KeyOf[q] = KeyOf[r])
    /\ answer[r] = "rejected" => r \notin queued

\* A request whose key the process has answered since it started is never
\* enqueued: the retry of an answered request is replayed from the cache.
AnsweredKeyIsReplayed == late \cap queued = {}

\* A process makes one connection pool at a time, and none when it has one.
OnePoolPerInstance ==
  \A r, q \in Requests :
    /\ pc[r] = "connecting" => InstanceOf[r] \notin pool
    /\ pc[r] = "connecting" /\ pc[q] = "connecting" /\ InstanceOf[q] = InstanceOf[r] => q = r

\* Every handler returns: its client gets an answer, or a reset connection.
EveryRequestIsAnswered ==
  \A r \in Requests : pc[r] # "new" ~> pc[r] = "done"
=============================================================================
