# FlightPulse in TLA+

This directory is a TLA+ development of FlightPulse: modules that model its
services, configurations with which TLC checks them on small instances, and
proofs that TLAPS checks for every value of the constants. Paths below are
relative to `src/`.

FlightPulse polls OpenSky for aircraft states, sends them as batches through a
load balancer to ingestion services, which put them as jobs on an arq queue in
Redis; workers take the jobs and insert the observations into PostgreSQL.

    collector --POST, Idempotency-Key--> load balancer --forward/retry--> ingestion (x3)
                                                                             | enqueue_job
    PostgreSQL <--INSERT .. ON CONFLICT DO NOTHING-- workers (x2) <--poll-- Redis

The system delivers at least once, once it has accepted a batch: the balancer
retries, arq runs a job again after a crash or a database error. What makes that
safe is spread over five places: an idempotency cache per ingestion process, the
in-progress key of a job, the unique index on `ingestion_id`, ids that depend on
nothing but the observation, and the rule which requests may be retried at all.
Most of the properties here are about those five; the others are about time,
which decides who still waits for whom.

## Inventory

| part | state | operations | talks to | what is hard |
|---|---|---|---|---|
| Worker and queue (`worker/`) | arq sorted set, in-progress and retry keys, results, dead-letter list, connection pool | `process_telemetry_batch`, `process_extraction_log`, `persist_batch`, `persist_extraction_log`, `write_to_dead_letter`, arq's claim, retry and time-out | Redis, PostgreSQL | crash between commit and result, lost commit replies, retries that run out, pool at its limit, shutdown in mid-run |
| Concurrent inserts (`worker/persistence.py`, `sql/`) | index entries of open transactions | sort, chunked insert, commit, rollback | PostgreSQL | deadlock between overlapping batches, rows skipped because of a transaction that may still roll back |
| Load balancer (`load_balancer/`) | health state and pass count per backend, position of the cycle | the checker's loop, `mark_unhealthy`, `next_backend`, `proxy` | ingestion | two threads without a common lock section, checks that are out of date when they are applied, forwards that time out although the backend goes on |
| Ingestion (`ingestion/`) | `_idempotency_cache`, `_arq_pool` and its lock | `post_telemetry`, `post_extraction_log`, `_get_arq_pool` | Redis | check-then-act across awaits, a thread lock held across an await, lost Redis replies, restarts that empty the cache |
| Collector (`collector/`) | OpenSky token and its expiry, the poll going on | `run_forever`, `run_once`, `get_token`, `get_states`, `normalize_batch`, `send_batch`, `send_extraction_log` | OpenSky, load balancer | tokens that expire, or are revoked, between the check and the request, failed cycles without a log entry |
| End to end | requests on their way, forwards still worked on | a poll from the time it begins to the rows it leaves | all of the above | time-outs of the collector against those of the balancer, work that goes on for a client that is gone, what a reported success is worth |
| De-duplication and back-off (`worker/processor.py`) | | `_dedupe_events`, `compute_backoff_seconds` | | the key of the batch against the unique index |
| Balancer metrics (`load_balancer/metrics.py`) | counters, latency window | `record_*`, `snapshot` | | percentile at the boundaries |
| Replay, fault injection, reports (`replay/`) | none the system depends on | load, faults, comparisons | everything | |
| SQL schema | tables, unique keys | | PostgreSQL | |
| dbt models (`dbt/`) | views, tables rebuilt in full | batch SQL, four threads | PostgreSQL | models of one build that read the telemetry at different times |
| Deployment (`docker-compose.yml`, `worker/consumer.py`) | replicas, limits, restart policy | | | |

What makes each part correct, in a sentence: the queue forgets no job, runs
none twice at once and reports only what the table holds; concurrent inserts
neither deadlock nor lose a skipped row; the balancer never repeats a request
that is not safe to repeat, and keeps failed backends out; ingestion accepts
only what is queued and replays what it has answered; the collector presents
no expired token, reports each poll, and goes on whatever fails; and from end to
end a reported success is a job in the queue, an observation is one row, and no
poll finds the balancer busy with an earlier one. `PROJECT.json` lists the
hazards one by one, at their lines.

## The modules

| module | models | checked by | proofs |
|---|---|---|---|
| `TelemetrySink` | abstract: what whoever enqueued a job may rely on | `queue_outcomes` | |
| `WorkerQueue` | queue, workers, database, faults | `MCWorkerQueue` | `WorkerQueue_proofs` |
| `AtomicCommit` | abstract: a batch is one atomic step | `batch_insert` | |
| `BatchInsert` | transactions, row by row | `MCBatchInsert` | `BatchInsert_proofs` |
| `RequestProxy` | abstract: what the balancer promises about a request | `balancer_faults`, `delivery` | |
| `LoadBalancer` | checker, router, handler, backends | `MCLoadBalancer` | `LoadBalancer_proofs`, `LoadBalancerFaults_proofs` |
| `Ingestion` | handlers, cache, pool, Redis | `MCIngestion` | `Ingestion_proofs` |
| `Collector` | one poll after the other, tokens, time | `MCCollector` | `Collector_proofs` |
| `Delivery` | `Collector` and `TelemetrySink` with a balancer and backends between them | `MCDelivery` | `Delivery_proofs` |
| `Metrics` | latency window and percentile, as operators | `MCLoadBalancer`, in assumptions that TLC evaluates | `Metrics_proofs` |

How they hang together: `WorkerQueue` implements `TelemetrySink`, and `Delivery`
uses `TelemetrySink` in its place. `Delivery` extends `Collector` and is proved
to implement it. Two balancers, the one of `LoadBalancer` in detail and without
time, the one of `Delivery` with time and without health states, are both proved
to implement `RequestProxy`: one request at a time, taken up once at most, handed to
one backend after the other and no more often than its kind allows. Between
`Ingestion` and the backends of `Delivery` there is no such module; what both say
of an acceptance is proved in each (`NoFalseAccept`, `AcceptancesAreTrue`), and
that the second leaves out nothing else that matters to time is by inspection.

Definitions named `X_Something` next to a definition `X` are plausible bugs in
the code of `X`. No specification uses them; each is there because putting it in
the place of `X` breaks a property, which shows that the property says something
about that code.

### WorkerQueue

`run[w][j]` is the phase of the call of job `j`'s function in worker `w`, cut at
its awaits: started, connecting (waiting for the pool), inserting, committed
(the server has committed, the client does not know), returned (the function is
over, arq has not stored the result). `queue`, `deferred`, `locked`, `tries` and
`result` are arq's sorted set, future scores in it, in-progress keys, retry
counters and result keys. `Claim`, `Abandon`, `Settle`, `LockExpires`, `StopWorker`
and `WorkerShutdown` follow arq as the worker configures it (`max_tries`,
`max_jobs`, `job_timeout`), the others translate `processor.py` and
`persistence.py`. Both job functions have the same control, so an extraction log
is a job in `ExtractionJobs` that reports no `newly_inserted`.

A result is the value arq stores: "completed", "dead_lettered", "failed" (an
exception, or attempts exhausted) or "timed_out" (its TimeoutError).

The payload is abstracted to the keys it inserts (`IdsOf`) and to whether the
schema (`InvalidJobs`) and the database (`UnstorableJobs`) take it. Back-off
lengths are dropped: a deferred job becomes due at some time.

Faults: a worker is killed, a worker is shut down, PostgreSQL stops (which
breaks open transactions and may or may not lose a commit reply), a transient
database error, a job time-out. `FaultKinds` and `FaultBudget` bound them.

Assumptions: an in-progress key outlives its run (arq gives it `job_timeout`
+ 10 s; `LockExpires` has that as its guard); what Redis has, it keeps; a job
id is enqueued once (arq generates them).

### TelemetrySink, AtomicCommit, RequestProxy

Each has the state its clients see and no more. `TelemetrySink` knows outcomes,
rows and dead letters, no workers; `AtomicCommit` commits a batch in one step,
with its exact `newly_inserted`; `RequestProxy` knows the request it works on, how
often it handed it over (`handed`) and who is to answer (`at`). `LoadBalancer`
maps `sent` to `handed` and shows a backend in `at` while the forward is in the
network; `Delivery` maps `tries` and `target`. What may still be taken up is,
with `LoadBalancer`, a request without an answer; with `Delivery`, one that waits or
that the collector has yet to post (`ToCome`), so that there requests can be lost
(`Forget`, `Finish`) which the balancer never saw.

### BatchInsert

One transaction per call of `persist_batch`. `todo` is what is left of the
sorted rows, `InHand` the row it is at. A row is inserted (`Insert`), skipped
because it is committed (`Skip`), or waited for while another open transaction
holds its index entry: there is no action for that, the transaction just cannot
go on. Chunks are not told apart, since entries are held across them. Ids are
naturals and the sort is by that order; two spellings of one UUID, which the
string sort of the code would tell apart and the index would not, do not occur
in batches of the collector and are left out.

### LoadBalancer

`forward_once` is a blocking call inside an async handler, hence one event loop
serves one request at a time: `pc` is where it is. The checker is a thread of
its own; the two interleave between any two sections under a lock, so `Pick`
uses a snapshot that may be out of date, and `ApplyResult` applies an outcome
whose probe was sent before a live request failed. A forward has two network
phases: before the backend has the request, and while it works on it; it can
fail in both, by a crash or by a stall longer than the time-out, and in the
second the backend has processed the request all the same (`processed`).

`since` and `fresh` remember when a check began with respect to the last
failure, `skipped` how often the rotation passed a backend by. They influence
nothing.

One assumption about time: a round of checks begins a fixed pause after the
previous one ended, and that pause does not fit between two consecutive
statements of the handler. So `StartRound` happens while the handler is idle or
in a network call. A round that has begun interleaves with everything.

### Ingestion

A handler runs alone from await to await, and `pc[r]` says at which await it is:
parsing the body, validating in the thread pool, connecting to Redis,
enqueueing, queued (Redis has the job, the reply is on its way). The cache maps
a key to the request whose response is stored. `_get_arq_pool` holds a
`threading.Lock` across `await create_pool`: a second handler that comes there
blocks the thread, and with it the event loop (`Responsive`), while the holder
waits to be resumed on that loop.

`RedisStops` drops connections, `EnqueueFails` covers both a command that did
not arrive and a reply that did not. A crash loses cache, pool and lock.
`Concurrency` bounds the requests in progress on a process. `served` and
`late` are history: which requests the process answered since it started, and
which came after their key had been answered.

### Collector

`phase` says in which network call `run_once` is: refreshing the token, getting
states, posting the batch, posting the log entry, or asleep between polls. What
it computes between two calls belongs to the step that ends the first of them,
so a step such as `StatesArrive` holds `normalize_batch`, the empty-batch return
of `send_batch`, and `_log` up to its POST. `StatesRefused` is the 401 with its
second attempt, with or without credentials; with them, OpenSky is taken to refuse
only tokens that are not valid any more. `StatesFail` is every other answer, a 429
included. An exception of
`normalize_batch` (`Response[c].readable` is FALSE: states that JSON allows and
the code does not expect) goes to `run_forever`, which sleeps and goes on.

Time passes in `Elapse`, one unit at a step. `freshFor` is the collector's idea
of a token (`_expires_at` less now), `validFor` is OpenSky's; the first starts
when the answer is received, the second when the token was issued, and the two
steps `TokenIssued` and `TokenReceived` lie a network call apart. A time-out of
`requests` is taken for a limit on the whole call; it really bounds the
connection and each wait for data, so that a server which sends its answer in
small portions could hold the collector longer than any limit here.

State vectors keep what decides identity: `icao24`, `last_contact`, and whether
the event made of them passes the schema. `IngestionId` is a record in the place
of a hash: uuid5 of different inputs is taken to differ, and a uuid4 (no
`last_contact`) differs from everything, which the salt says.

### Delivery

The collector's calls now go somewhere. A step of it that enters a POST puts the
request into `inbox`; it leaves by an answer (`Reply`, through `Return`), by its
time-out (`CollectorGivesUp`), or because the balancer is restarted. The balancer
takes one request at a time, in any order, and finishes it whether or not
somebody waits; `DropAbandoned` is the case in which reading the body of a request
whose client is gone raises, so that it is never forwarded. `tries`, `target` and
`lbWaited` are the loop of `proxy` and the clock of `forward_once`. A backend goes
on with a forward the balancer has given up (`working`), its late answer still
fills its cache, and `known` says that it will replay. Batches become jobs of
`TelemetrySink`, one for each forward that was enqueued.

Left out here, because it is in other modules: health states (any backend may be
in the rotation at any time, or none, which is `Refuse`), the caches of keys other
than that of the request in progress, and what workers do between accepting and
storing a job. Extraction-log entries are followed to their answer only.

### Metrics

`Recorded` is the window of `record_request`, `Percentile` is `_percentile` with
its clamped rank, and `NearestRank` is what its docstring promises. Python
computes the rank in floating point; for the percents in use (50, 95, 99) and
windows of up to 1000 samples it agrees with the integer rank of the module in
every case. The counters are sums; `record_request` is called for each attempt, so
`total_requests` counts forwards and not requests.

## The runs

| run | instance | question |
|---|---|---|
| `queue_restarts` | 2 workers, 2 overlapping batches and an empty one, 3 attempts, 2 faults of crash, shutdown, transient error | Does any mix of restarts run a job twice at once, forget one, count a row twice, exhaust the pool, or lose a batch? No. |
| `queue_outcomes` | a batch, one PostgreSQL refuses, an invalid log entry; 2 attempts, a pool of 1 for 2 runs, 2 faults of crash, shutdown, outage, time-out | Does every job end in one result that tells the truth, as `TelemetrySink` says? Yes. |
| `claim_exhausted_dead_letter` | 1 job | Does a job go to the dead-letter list when its attempts are exhausted, as `worker/settings.py:88` says? No, see below. |
| `batch_insert` | 4 overlapping batches, one of them a second run of another, 2 lost connections | Do sorted inserts deadlock? Is `newly_inserted` exact? No, and yes: they implement `AtomicCommit`. |
| `balancer_faults` | 2 backends, both faulty, 3 requests, one of them retryable, 3 faults | Is a request repeated that must not be? Can one fault fail the forwards of two clients, or a client be turned away before both backends had a fault? No, and `RequestProxy` is implemented. |
| `balancer_one_faulty` | 3 backends, one faulty, 3 faults | Is one faulty backend hidden from retryable requests, is the rotation fair, does a backend that came back return? Yes. |
| `balancer_retries` | 4 faulty backends, 2 retries, 4 faults | Is a backend trusted before its checks? Never by more than the one check that was under way. |
| `ingestion_retries` | 2 processes, a request with a retry on either, an invalid one, one without a key; 3 at a time, 1 crash, 1 outage | Is an accepted batch always queued, and a retry after the answer always replayed? Yes. |
| `ingestion_answers` | 1 process, all kinds of requests one at a time, 1 crash, 2 outages | Does every handler return? Yes. |
| `collector` | 4 polls, each kind of response; units of 5 s with the real time-outs, pause and margin (30 s each), a token of 70 s; 2 revocations | Does a token expire under a request, does a revoked token cost a poll, does a poll go unreported? No; only if a second one is revoked in the same poll; only if `normalize_batch` raised. |
| `delivery` | 3 polls (one unfit, two overlapping), no credentials, 2 backends, one retry, 2 faults; units of 5 s | What is a success in the extraction log worth, what are the rows, is the balancer clear of old requests when a poll begins and a `RequestProxy` all the time, is everything worked off at the end? A queued job; one per observation; yes; yes. |
| `claim_loop_responsive` | 1 process, 2 requests | Does the event loop keep turning, as `ingestion/routes.py:99-101` says? No, see below. |

Why the bounds are enough. Two workers and two jobs are what a race for a job or
for a row takes; the third job brings the kind that ends differently. The
attempts exceed the faults in one run (no loss) and do not in the other
(exhaustion). Four transactions allow a circle of waits of any shape up to four,
and the unsorted variant finds one. Four backends and four faults are the
smallest instance in which the balancer skips a repeat. Two processes and three
requests with one key cover a retry to the same process and to another, before
and after a crash. Four polls outlive a token of 70 s, so that it is used,
expires under the margin and is refreshed with each phase of the clock. In
`delivery`, a forward time-out of 15 s instead of 10 and a pause of 25 s instead
of 30 put the balancer about as far behind as `PauseAssumption` allows, which
makes abandoned requests, late answers and dropped log entries happen; two faults
spend the retry and fail once more. Of the percentile TLC checks all sorted lists
of up to five samples, the theorem is about all. The safety of the components is
proved without these bounds; the bounds matter to liveness.

`CHECK_DEADLOCK FALSE`: every instance has finitely many jobs or requests, and
when all are settled nothing is left to do. `batch_insert` looks for deadlock of
the modelled system by `NoCircularWait` and `EveryBatchCommits`.

### Fairness

- `WorkerQueue`: arq polls jobs in score order, so a claimable job is claimed;
  the event loop runs every task that is ready; timers fire and keys expire;
  `restart: unless-stopped` in `docker-compose.yml` starts workers and
  PostgreSQL again. Nothing forces a fault or a new job.
- `BatchInsert`: the server goes on with a statement that need not wait.
- `LoadBalancer`: weak fairness of the handler and of a check under way. A busy
  handler disables `StartRound` for moments, hence strong fairness for it: the
  thread wakes up whatever the other one does. No backend has to restart; the
  property supposes one that stays up.
- `Ingestion`: the event loop turns to every handler that can go on, and Redis
  comes back. No request has to arrive.
- `Delivery`: one weak fairness, of `Progress`: time passes, sleeps end, calls run
  out of time, the balancer's loop turns, ingestion answers and workers work. An
  instance has finitely many polls, so that it is enough that not all of these
  stop. OpenSky never has to answer and no backend has to come back. `Collector`
  states no fairness and has no liveness property of its own.

## The proofs

The theorems hold for all values of the constants that satisfy the module's
assumptions, in particular for any number of jobs, workers, backends,
processes, polls, faults and attempts. Two assumptions say more than types, and
both are about the values of time-outs:

- `MarginAssumption` (`Collector`): the refresh margin covers the call to the token
  endpoint and the request that uses the token, and a token outlives both. The
  code's numbers are 30 s against 10 s + 15 s. With a margin one unit shorter
  than the two calls TLC finds a token that expires under its request.
- `PauseAssumption` (`Delivery`): what the balancer may be behind when a log entry
  is posted fits into the log time-out and the pause between polls. The code's
  numbers are 15 + 10 + `POLL_INTERVAL_SECONDS` > 30, so a poll interval of 5 s or
  less breaks it, and TLC then finds polls that begin with the balancer at work
  on earlier ones.

`WorkerQueue_proofs`. The invariant `IInv` has parts proved one after the other:
types; a run owns its job's in-progress key, hence `NoDoubleProcessing`; the
queue is the set of jobs without a result (`NothingForgotten`); the phase of a
run tells the truth about rows and dead letters (`PhasesAreTruthful`), hence
`CompletedIsDurable` and `DeadLettersAreTruthful`; rows credited and about to be
credited are all different (`CreditsAreDistinct`), hence
`CreditsNeverOvercount`; connections are held by runs in the middle of a
transaction and a worker has at most `max_jobs` runs, hence
`PoolNeverExhausted`. `OutcomeIsFinal` and the refinement of `TelemetrySink`
follow step by step. `RestartsAreHarmless` needs `Accounts`: as long as PostgreSQL
stays and nothing times out (`MildFaults`), all attempts at a job but the one
under way were ended by a fault (`AttemptsArePaid`), so that with fewer faults than
attempts none is ever given up.

`BatchInsert_proofs`. An open transaction has handled the smaller ids and not
the larger ones (`Sorted`), each handled id is its own or committed (`Handled`),
and no two hold the same one (`Distinct`). So who waits has a smaller row in
hand than the one waited for (`WaitsGoUp`); in any group that waits in a circle
the member with the greatest row in hand could not wait, which is
`NoCircularWait`; and of any open transactions one that waits for none has its
smallest row free or committed, or has no row left, which is `InsertsNeverStall`.
The refinement of `AtomicCommit` uses that what a committing
transaction did not insert itself was committed before.

`LoadBalancer_proofs`. `TrustState` relates the pass counter to the checks begun
since the failure: it is ahead by at most one. It needs `StaleCheck`: while a
check that began before the failure is under way its backend is still UNHEALTHY,
so it can only be the first pass. `Received` bounds what the backends received
by the forwards and `AtWork` those by the attempts, hence `NoUnsafeRepeat`.
`Rotation` says that passing a backend by moves the cycle a step nearer to it,
hence `RotationIsFair`. `ProxyIsImplemented` maps each section of `proxy` to a step
of `RequestProxy` or to none; it uses that a handler in the network has an attempt
left or uses its last (`AtWork`). `StepsLeft` counts the sections a handler has
still to go through, five for each attempt, so that `HandlersEnd` gives
the part of a termination argument that needs no fairness.

`LoadBalancerFaults_proofs`. `FaultsBoundErrors` has two halves, because the errors
a client can get are of two kinds. For a failed forward (502, or an error of the
backend's own) each fault pays for one error. Until it does, it is charged to the
backend that crashed and may still be routed to (`Charged`: HEALTHY, about to
become so by a check that passed before the crash, in a snapshot, or chosen), or
carried by the request that it sent into another attempt (`Carried`), which matters
because a skipped repeat can end in a 502 without a new failure. `Accounts` is the
sum. A 503 is not paid for by a fault of its own: once every backend is out, any
number of clients get one. What holds is that nobody gets one before there were
as many faults as backends: a backend that is down, not HEALTHY, or whose failed
check is about to be applied (`Suspects`) is so by a fault that made no other backend
a suspect. With fewer faults than backends, then, no more clients get an error of
any kind than there were faults. `OneFailureIsMasked` needs to
know that the failed backend stays away until the second attempt is routed
(`SecondAttempt`): a check that passes takes it to RECOVERING only, and the next
check of it is one of the next round.

`Ingestion_proofs`. A cached entry names a request with that key whose job is
queued (`CacheIsTrue`), an answered key has an entry as long as the process
lives (`ServedIsCached`), and so a later request with it is answered in its
first step (`LateIsReplayed`). `ConnectingHoldsLock` gives `OnePoolPerInstance`.

`Collector_proofs`. A call never lasts longer than its limit (`CallsEnd`); a token
that was not revoked is valid for longer than the collector thinks by at least
the margin less the age it had when it was received (`Tokens`), and that
difference survives each tick, although both clocks stop at 0. Hence
`TokenOutlivesRequest`, and with the number of attempts
`RefusalNeedsRevocation`: a second refusal concerns a token of this poll.
`PollsEnd` bounds a poll by a measure, what the calls it can still make may take
(`TimeLeft`): a tick lowers it by one, and a call that ends leaves room for those
after it, the second attempts of `get_states` included.
`Reports` says which phases have an entry to report.

`Delivery_proofs`. Each step of the composition is a step of the collector or
leaves it alone (`CollectorIsImplemented`), so its types come for free. `Timing` is
the potential argument behind `LeftoversAreGone`: `Rest` is the longest the
balancer can still take for its request, `Since` the time since the log entry was
posted, and `Since + Rest` never exceeds what the batch may exceed the collector's
patience by (`Overdue`), plus one forward for the log entry itself. A tick moves
one unit from `Rest` to `Since`, and nothing else raises the sum; when the pause
is over, the bound leaves no room for a request. `Truth` follows an acceptance to
whoever repeats it: to the caches (`CacheTells`), to the forwards that will be
answered from one (`KnownTells`), to the log entry (`SuccessIsAccepted`).
The same invariant gives `AcceptancesAreTrue`, which is about each single answer
of a backend. `BalancerIsProxy` has to know that the collector posts each request
once (`PostedOnce`): one that is waiting or in progress is of this poll or an
earlier one, and of this one the phase says what was posted, so that `Untaken`
never grows.
`OneRowPerSighting` and `NoSightingIsDropped` need no more than types,
`NothingUnfitIsQueued` and `CompletedIsStored`: they are facts about `Kept` and
`IngestionId`, the second by the least event of each observation.

`Metrics_proofs`. `RankBounds` places the rank; in sorted samples those up to the
rank are among those that do not exceed it, which counts them.

Only model-checked: the liveness properties (`EveryJobSettles`,
`RestartsLoseNoBatch`, `EveryBatchCommits`, `EveryBackendReturns`,
`EveryRequestIsAnswered`, `PollsAreWorkedOff`), since the prover has no means for
liveness under fairness. Of three of them a part that is safety is proved:
`RestartsAreHarmless` for `RestartsLoseNoBatch`, `InsertsNeverStall` for
`EveryBatchCommits`, `HandlersEnd` and `PollsEnd`, which say that a handler and a
poll can take no more than so many steps or ticks, for the part those have in
`PollsAreWorkedOff`. Also out of its reach is induction over data, such as what
`Kept` returns for a batch of any length when computed event by event; `Kept` is
therefore a set with a first event for each key and no recursion. Every safety
property that a run finds true has a theorem.

## Where the code and its words disagree

Two runs end in a counterexample on purpose.

- `claim_loop_responsive`: two requests reach a fresh ingestion process. The
  first takes the lock and awaits the connection, the second blocks the thread
  on the lock, and the loop that would resume the first is that thread. The
  process stops for good, health checks included.
- `claim_exhausted_dead_letter`: `worker/settings.py:88` calls the dead-letter
  list the destination of jobs whose attempts are exhausted; arq marks such a
  job failed and nothing writes its payload to the list.

Others that the models show and that the properties are worded around:

- A hung batch is failed by arq at its first time-out ("timed_out"), where
  `worker/settings.py:74` says it is retried.
- A payload that passes the schema and that PostgreSQL refuses is failed, not
  dead-lettered (`InsertRefused`), whereas `README.md:101` speaks of
  unrecoverable payloads in general.
- The sum of `newly_inserted` may fall short of the rows after a crash between
  commit and result; `CreditsNeverOvercount` is the direction that holds.
- A backend may be trusted after one check begun since its failure, if another
  was under way (`TrustIsEarned` allows for one).
- With two retries, one may go back to a backend already tried, since the guard
  in `load_balancer/server.py:153` compares numbers and not sets.
- A retry that arrives while the first request is still in progress is enqueued
  a second time: the cache is filled only after `enqueue_job`. The unique index
  makes the second run insert nothing.
- `collector/opensky_client.py:24` says of a 429 "rate limited, back off
  (Retry-After header if present)"; lines 146-151 log the header and the next poll
  comes after the usual pause (`StatesFail`).
- The docstring of `run_once` (`collector/producer.py:133-136`) has a log entry sent
  "regardless of success/failure"; an exception in `normalize_batch` (line 168)
  leaves none. `EveryPollIsReported` makes that one exception.
- The docstring of `_dedupe_events` (`worker/processor.py:54-56`) calls its key "the
  same identity" that the unique index enforces. Events without `last_contact` have
  a uuid4 each (`collector/normalizer.py:75-81`, which says that these "can't be
  deduplicated on that basis anyway"), so that the index would keep them all;
  `_dedupe_events` keeps the first of each aircraft in a batch. `NoSightingIsDropped`
  is worded around it: the row of every event with a time, and one row of the poll
  for an aircraft without one.
- The opposite of `SuccessIsAccepted` does not hold: a log entry may say that a
  batch was not sent although its rows are, or will be, in the table, when the
  answer came after 15 s or was lost.
- A batch the log entry calls failed is not sent again; at-least-once begins with
  the acceptance by ingestion. The next polls may bring the same observations.
- One state vector that does not pass the schema costs the whole batch of its poll
  (`AnswerRejected`).

## Not modelled, and the plan

Left out for good:

- headers, bodies, logging, wording; generated files and fixtures;
- `replay/`: player, exporter and reports are clients that keep nothing the system
  depends on. What the fault injector does to the system is in the fault actions
  of the modules. Its PASS says that the row count matches the sum of
  `newly_inserted` "exactly" (`replay/fault_injection.py:511`) where line 479
  compares with `>=`; by `CreditsNeverOvercount` the comparison is the right one. It
  counts job results against batches, so a batch that was enqueued twice can stand
  in for one that has no result;
- the counters of `load_balancer/metrics.py`, sums that no decision reads;
- `compute_backoff_seconds`: `WorkerQueue` defers a job without saying for how long,
  which covers every length;
- real time outside `Collector` and `Delivery`: elsewhere it is abstracted to orders
  of events, apart from the assumptions named above.

Planned: the dbt models, as sets built at different times from a growing table:
facts that refer to rows of a dimension that was built before them.
