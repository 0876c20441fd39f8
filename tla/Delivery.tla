------------------------------ MODULE Delivery ------------------------------
(***************************************************************************)
(* A poll on its way: the collector posts a batch, then a log entry of the *)
(* poll; the balancer forwards one request at a time; ingestion puts it on *)
(* the queue; TelemetrySink says what becomes of a job.                    *)
(*                                                                         *)
(* What this module is about is who still waits for whom.  The collector   *)
(* stops waiting after SendTimeout, the balancer may take                  *)
(* (1 + MaxRetries) * ForwardTimeout, and a backend goes on with a request *)
(* nobody waits for.  Health checks, locks, caches and crashes of workers  *)
(* are in LoadBalancer, Ingestion and WorkerQueue; here, backends fall out *)
(* of the rotation and come back as they please.                           *)
(***************************************************************************)
EXTENDS Collector

CONSTANTS Backends,
          MaxRetries,       \* config.MAX_RETRIES
          ForwardTimeout,   \* config.FORWARD_TIMEOUT_SECONDS
          FaultBudget       \* bound: crashes, stalls, 5xx answers, jobs given up

ASSUME DeliveryAssumption ==
  /\ None \notin Backends
  /\ MaxRetries \in Nat
  /\ ForwardTimeout \in Nat \ {0}
  /\ FaultBudget \in Nat

\* The pause between polls is longer than what the balancer may be behind when
\* it begins: by a log entry taken up late, or by a batch and a log entry.  The
\* batch comes first, since requests refuses a time-out of 0.
ASSUME PauseAssumption ==
  /\ SendTimeout > 0
  /\ LogTimeout + PollInterval > ForwardTimeout
  /\ SendTimeout + LogTimeout + PollInterval > (2 + MaxRetries) * ForwardTimeout

VARIABLES inbox,      \* requests that have reached the balancer
          handling,   \* the one its event loop works on
          tries,      \* forwards of it so far
          target,     \* the backend it waits for
          lbWaited,   \* how long
          cached      \* backends with its Idempotency-Key in their cache

VARIABLES working,    \* forwards that backends are working on
          outcome, stored, letters,   \* see TelemetrySink
          faults

lbVars == <<inbox, handling, tries, target, lbWaited, cached>>
sinkVars == <<outcome, stored, letters>>
backendVars == <<working, sinkVars>>
vars == <<collectorVars, lbVars, backendVars, faults>>

\* A request is of the phase in which the collector waits for it.
Requests == [kind : {"posting", "logging"}, poll : Polls]
NoRequest == [kind |-> "none", poll |-> 0]

\* `known': the backend has the key in its cache before it gets the request.
Forwards == [req : Requests, try : 1..(1 + MaxRetries), at : Backends, known : BOOLEAN]

\* Each forward of a batch may become a job.
Jobs == Polls \X (1..(1 + MaxRetries))
JobOf(f) == <<f.req.poll, f.try>>

-----------------------------------------------------------------------------
SameSighting(c, i, k) ==
  Vector(c, i).icao24 = Vector(c, k).icao24 /\ Vector(c, i).last_contact = Vector(c, k).last_contact

\* Mutants: nothing is dropped; one event per aircraft is kept.
Kept_All(c) == Events(c)
Kept_OnePerAircraft(c) ==
  {i \in Events(c) : ~\E k \in Events(c) : k < i /\ Vector(c, k).icao24 = Vector(c, i).icao24}

\* _dedupe_events: the first event of each (icao24, last_contact).
Kept(c) == {i \in Events(c) : ~\E k \in Events(c) : k < i /\ SameSighting(c, k, i)}

RowsOf == [j \in Jobs |-> IF Fits(j[1]) THEN {IngestionId(j[1], i) : i \in Kept(j[1])} ELSE {}]

Sink == INSTANCE TelemetrySink WITH
  Ids <- UNION {RowsOf[j] : j \in Jobs}, IdsOf <- RowsOf,
  InvalidJobs <- {j \in Jobs : ~Fits(j[1])}

Init ==
  /\ CollectorInit
  /\ Sink!Init
  /\ inbox = {} /\ handling = NoRequest /\ tries = 0 /\ target = None /\ lbWaited = 0
  /\ cached = {}
  /\ working = {}
  /\ faults = 0

Fault ==
  /\ faults < FaultBudget
  /\ faults' = faults + 1

-----------------------------------------------------------------------------
(***************************************************************************)
(* The collector.  A step that takes it to a POST puts the request into    *)
(* the balancer's inbox.                                                   *)
(***************************************************************************)
Posted ==
  IF phase' # phase /\ phase' \in {"posting", "logging"}
  THEN {[kind |-> phase', poll |-> cycle']} ELSE {}

Arrives(rest) == inbox' = rest \cup Posted

Collect ==
  /\ Fetch \/ Revoke
  /\ Arrives(inbox)
  /\ UNCHANGED <<handling, tries, target, lbWaited, cached, backendVars, faults>>

\* A call to OpenSky has used up its time.
FetchTimesOut ==
  /\ waited = Limit(phase)
  /\ TokenFails \/ StatesFail
  /\ Arrives(inbox)
  /\ UNCHANGED <<handling, tries, target, lbWaited, cached, backendVars, faults>>

Awaits(r) == phase = r.kind /\ cycle = r.poll

\* The collector's call for r ends.
Return(ok) == IF phase = "posting" THEN SendEnds(ok) ELSE LogEnds

\* No answer in time; the request stays where it is.
CollectorGivesUp ==
  /\ phase \in {"posting", "logging"}
  /\ waited = Limit(phase)
  /\ Return(FALSE)
  /\ Arrives(inbox)
  /\ UNCHANGED <<handling, tries, target, lbWaited, cached, backendVars, faults>>

-----------------------------------------------------------------------------
(***************************************************************************)
(* The balancer.                                                           *)
(***************************************************************************)
Idle == handling = NoRequest
Forwarding == target # None

\* uvicorn's loop turns to a request whose body is there.
Take(r) ==
  /\ Idle
  /\ r \in inbox
  /\ inbox' = inbox \ {r}
  /\ handling' = r
  /\ UNCHANGED <<collectorVars, tries, target, lbWaited, cached, backendVars, faults>>

\* Its client has closed the connection: request.body() may raise.
DropAbandoned(r) ==
  /\ Idle
  /\ r \in inbox
  /\ ~Awaits(r)
  /\ inbox' = inbox \ {r}
  /\ UNCHANGED <<collectorVars, handling, tries, target, lbWaited, cached, backendVars, faults>>

\* next_backend and forward_once, up to the backend.
ForwardTo(b) ==
  /\ ~Idle /\ ~Forwarding
  /\ tries' = tries + 1
  /\ target' = b
  /\ lbWaited' = 0
  /\ working' = working \cup {[req |-> handling, try |-> tries + 1, at |-> b,
                                      known |-> b \in cached]}
  /\ UNCHANGED <<collectorVars, inbox, handling, cached, sinkVars, faults>>

\* Nothing of a request outlives its handler.  The keys in the caches do, but no
\* other request has them.
Release ==
  /\ handling' = NoRequest /\ tries' = 0 /\ target' = None /\ lbWaited' = 0
  /\ cached' = {}

\* Mutant: send_batch takes any response for success.
Reply_AnyStatus(ok) ==
  /\ Release
  /\ IF Awaits(handling) THEN Return(TRUE) ELSE UNCHANGED collectorVars
  /\ Arrives(inbox)

\* The handler returns a response, a 2xx or not, to a client that may be gone.
Reply(ok) ==
  /\ Release
  /\ IF Awaits(handling) THEN Return(ok) ELSE UNCHANGED collectorVars
  /\ Arrives(inbox)

\* 503: no backend in the rotation.  502: the retry was spent on a repeat.
Refuse ==
  /\ ~Idle /\ ~Forwarding
  /\ Reply(FALSE)
  /\ UNCHANGED <<backendVars, faults>>

\* Mutants: retries are not counted; log entries may be retried too.
MayRetry_Always == handling.kind = "posting"
MayRetry_AnyKind == tries <= MaxRetries

\* Only a batch carries an Idempotency-Key.
MayRetry == handling.kind = "posting" /\ tries <= MaxRetries

\* RequestException: the next attempt, or 502.
ForwardEnds(keys) ==
  IF MayRetry
  THEN /\ target' = None
       /\ lbWaited' = 0
       /\ cached' = keys
       /\ UNCHANGED <<collectorVars, inbox, handling, tries>>
  ELSE Reply(FALSE)

\* The backend is slow, or stopped; it has the request.
ForwardTimesOut ==
  /\ Forwarding
  /\ lbWaited = ForwardTimeout
  /\ ForwardEnds(cached)
  /\ Fault
  /\ UNCHANGED backendVars

\* The balancer is killed and started again: its connections are reset.
BalancerRestarts ==
  /\ Fault
  /\ Release
  /\ IF phase \in {"posting", "logging"} THEN Return(FALSE) ELSE UNCHANGED collectorVars
  /\ Arrives({})
  /\ UNCHANGED backendVars

-----------------------------------------------------------------------------
(***************************************************************************)
(* The backends.                                                           *)
(***************************************************************************)
\* The balancer waits for this very forward.
IsAwaited(f) == target = f.at /\ handling = f.req /\ tries = f.try

\* Redis has the job of a batch that passed validation.
Enqueue(f) ==
  /\ f \in working
  /\ f.req.kind = "posting" /\ ~f.known
  /\ Fits(f.req.poll)
  /\ Sink!Accept(JobOf(f))
  /\ UNCHANGED <<collectorVars, lbVars, working, faults>>

\* The response of f, for which the balancer waits or does not any more.
Respond(f, ok) ==
  /\ working' = working \ {f}
  /\ \/ IsAwaited(f) /\ Reply(ok)
     \/ /\ ~IsAwaited(f)
        /\ cached' = IF ok /\ f.req = handling THEN cached \cup {f.at} ELSE cached
        /\ UNCHANGED <<collectorVars, inbox, handling, tries, target, lbWaited>>
  /\ UNCHANGED sinkVars

\* Mutant: enqueue_job is not awaited.
AnswerAccepted_Early(f) ==
  /\ f \in working
  /\ f.req.kind = "posting" => Fits(f.req.poll)
  /\ Respond(f, TRUE)
  /\ UNCHANGED faults

\* 2xx: the job is queued, or the cache has the response to an earlier forward.
\* Of a log entry no more is modelled than this.
AnswerAccepted(f) ==
  /\ f \in working
  /\ f.req.kind = "posting" =>
       outcome[JobOf(f)] # "unknown" \/ f.known \/ (f.req = handling /\ f.at \in cached)
  /\ Respond(f, TRUE)
  /\ UNCHANGED faults

\* 422 for the batch as a whole.
AnswerRejected(f) ==
  /\ f \in working
  /\ f.req.kind = "posting" /\ ~Fits(f.req.poll)
  /\ Respond(f, FALSE)
  /\ UNCHANGED faults

\* 500: Redis did not answer, though it may have the job.
AnswerFails(f) ==
  /\ f \in working
  /\ Respond(f, FALSE)
  /\ Fault

\* A backend is killed and started again.
BackendRestarts(b) ==
  /\ Fault
  /\ working' = {f \in working : f.at # b}
  /\ \/ target = b /\ ForwardEnds(cached \ {b})
     \/ /\ target # b
        /\ cached' = cached \ {b}
        /\ UNCHANGED <<collectorVars, inbox, handling, tries, target, lbWaited>>
  /\ UNCHANGED sinkVars

\* The worker side.  By NothingUnfitIsQueued no job is put aside.
Work(j) ==
  /\ \/ Sink!Store(j) /\ UNCHANGED faults
     \/ Sink!Complete(j) /\ UNCHANGED faults
     \/ Sink!GiveUp(j) /\ Fault
  /\ UNCHANGED <<collectorVars, lbVars, working>>

-----------------------------------------------------------------------------
\* A step of time: no forward outlives its limit, and what the balancer can do
\* without waiting it has done.
Tick ==
  /\ Elapse
  /\ \/ Idle /\ inbox = {} /\ UNCHANGED lbWaited
     \/ Forwarding /\ lbWaited < ForwardTimeout /\ lbWaited' = lbWaited + 1
  /\ UNCHANGED <<inbox, handling, tries, target, cached, backendVars, faults>>

Balance ==
  \/ \E r \in Requests : Take(r) \/ DropAbandoned(r)
  \/ \E b \in Backends : ForwardTo(b)
  \/ Refuse \/ ForwardTimesOut

Serve(f) == Enqueue(f) \/ AnswerAccepted(f) \/ AnswerRejected(f)

Next ==
  \/ Collect \/ CollectorGivesUp
  \/ Balance
  \/ \E b \in Backends : BackendRestarts(b)
  \/ BalancerRestarts
  \/ \E f \in working : Serve(f) \/ AnswerFails(f)
  \/ \E j \in Jobs : Work(j)
  \/ Tick

Spec == Init /\ [][Next]_vars

\* What happens without anybody's luck: sleeps end and calls run out of time, the
\* balancer's loop goes on, ingestion answers and workers work.  OpenSky need not
\* answer and no backend has to come back.  An instance has finitely many polls,
\* so that it is enough that not all of these stop.
Progress ==
  \/ Tick
  \/ WakeUp /\ Collect
  \/ FetchTimesOut \/ CollectorGivesUp
  \/ Balance
  \/ \E f \in working : Serve(f)
  \/ \E j \in Jobs : Work(j)

FairSpec == Spec /\ WF_vars(Progress)

-----------------------------------------------------------------------------
\* Types of the variables.
TypeOK ==
  /\ CollectorTypeOK
  /\ inbox \subseteq Requests
  /\ handling \in Requests \cup {NoRequest}
  /\ tries \in 0..(1 + MaxRetries)
  /\ target \in Backends \cup {None}
  /\ lbWaited \in 0..ForwardTimeout
  /\ cached \subseteq Backends
  /\ working \subseteq Forwards
  /\ outcome \in [Jobs -> {"unknown", "pending", "completed", "failed", "timed_out"}]
  /\ stored \subseteq UNION {RowsOf[j] : j \in Jobs}
  /\ letters = {}
  /\ faults \in 0..FaultBudget

HasBatch(c) == cycle = c /\ entry.success /\ entry.count > 0

\* No false success in the extraction log: when run_once reports that it sent
\* events, one of the forwards of the batch is in the queue, whatever timed out,
\* was repeated or was replayed on the way.
SuccessIsAccepted ==
  \A c \in Polls : HasBatch(c) => \E j \in Jobs : j[1] = c /\ outcome[j] # "unknown"

\* Ingestion validates a batch with the schema the worker will use: no job of the
\* collector's ends in the dead-letter list.
NothingUnfitIsQueued ==
  \A j \in Jobs : outcome[j] # "unknown" => Fits(j[1])

\* An observation has one row however often it is seen, sent or enqueued; an
\* aircraft observed without a time has one row per poll.
OneRowPerSighting ==
  \A x, y \in stored :
    x.icao24 = y.icao24 /\ x.seen = y.seen => x = y \/ (x.seen = None /\ x.salt[1] # y.salt[1])

\* A completed batch leaves the row of every event with a time: what
\* _dedupe_events drops of these has the id of another event.  Events of one
\* aircraft without a time have ids of their own, but of those of one batch
\* _dedupe_events keeps the first: one row of that poll is all that is promised.
NoSightingIsDropped ==
  \A j \in Jobs : outcome[j] = "completed" =>
    \A i \in Events(j[1]) : \E x \in stored :
      /\ x.icao24 = Vector(j[1], i).icao24 /\ x.seen = Vector(j[1], i).last_contact
      /\ x.seen = None => x.salt[1] = j[1]

\* The balancer has nothing left of earlier polls when the next one begins,
\* although it may still work on requests the collector has given up.
LeftoversAreGone ==
  phase \in {"refreshing", "getting"} => Idle /\ inbox = {}

\* Refinement: Delivery's balancer is a RequestProxy too.  A request may still be
\* taken up while it waits, or before the collector has posted it.
ToCome(r) ==
  \/ r.poll > cycle
  \/ r.poll = cycle /\ phase \in {"refreshing", "getting"}
  \/ r = [kind |-> "logging", poll |-> cycle] /\ phase = "posting"

Untaken == inbox \cup {r \in Requests : ToCome(r)}

Proxy == INSTANCE RequestProxy WITH
  Allowed <- [r \in Requests |-> IF r.kind = "posting" THEN 1 + MaxRetries ELSE 1],
  NoBackend <- None,
  untaken <- Untaken, current <- handling, handed <- tries, at <- target

\* A batch is handed to a backend 1 + MaxRetries times and a log entry once,
\* whoever gives up, times out or is restarted.
ImplementsProxy == Proxy!Spec

\* run_forever goes on polling whatever fails, and what the polls have set off is
\* worked off: no request, forward or job is left hanging.
PollsAreWorkedOff ==
  <>[](/\ cycle = MaxPolls /\ phase = "asleep"
       /\ Idle /\ inbox = {} /\ working = {}
       /\ \A j \in Jobs : outcome[j] # "pending")
=============================================================================
