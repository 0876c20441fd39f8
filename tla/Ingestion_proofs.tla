-------------------------- MODULE Ingestion_proofs --------------------------
(***************************************************************************)
(* Theorems about Ingestion.  The invariant adds to the properties what    *)
(* makes them inductive: in which phases a request can be in the queue or  *)
(* answered, what the cache holds, and who holds the lock of the pool.     *)
(***************************************************************************)
EXTENDS Ingestion, TLAPS

\* A request is in the queue from its RedisEnqueues step on.
QueuedPhase ==
  \A r \in Requests :
    /\ pc[r] = "queued" => r \in queued
    /\ r \in queued => pc[r] \in {"queued", "done"}

\* A request has an answer when its handler is over, and then only.
AnswerPhase == \A r \in Requests : answer[r] # "none" => pc[r] = "done"

\* A cache entry was filled by a request with that key whose job is queued.
CacheIsTrue ==
  \A i \in Instances, k \in Keys : \A q \in cache[i][k] : q \in queued /\ KeyOf[q] = k

\* A key that the process answered has an entry.
ServedIsCached ==
  \A i \in Instances : \A q \in served[i] : HasKey(q) => cache[i][KeyOf[q]] # {}

\* A request whose key had an entry on arrival went no further.
LateIsReplayed == \A r \in late : pc[r] = "done" /\ r \notin queued

\* Whoever creates a pool holds the lock, and there is no pool yet.
ConnectingHoldsLock ==
  \A r \in Requests :
    pc[r] = "connecting" => holder[InstanceOf[r]] = r /\ InstanceOf[r] \notin pool

Inv ==
  /\ TypeOK
  /\ QueuedPhase
  /\ AnswerPhase
  /\ CacheIsTrue
  /\ AnswersAreTrue
  /\ ServedIsCached
  /\ LateIsReplayed
  /\ ConnectingHoldsLock

-----------------------------------------------------------------------------
\* The initial states: nothing has been received.
LEMMA InitInv == Init => Inv
<1> SUFFICES ASSUME Init PROVE Inv
    OBVIOUS
<1>1. TypeOK
      BY ConstantsAssumption DEF Init, TypeOK, Phases, Answers, Citations
<1>2. QueuedPhase /\ AnswerPhase /\ CacheIsTrue /\ AnswersAreTrue
      BY DEF Init, QueuedPhase, AnswerPhase, CacheIsTrue, AnswersAreTrue
<1>3. ServedIsCached /\ LateIsReplayed /\ ConnectingHoldsLock
      BY DEF Init, ServedIsCached, LateIsReplayed, ConnectingHoldsLock
<1> QED
    BY <1>1, <1>2, <1>3 DEF Inv

\* Every action keeps the types.
LEMMA TypesKept == TypeOK /\ [Next]_vars => TypeOK'
<1> SUFFICES ASSUME TypeOK, [Next]_vars PROVE TypeOK'
    OBVIOUS
<1> USE ConstantsAssumption DEF TypeOK, redisVars, faultVars
<1>1. ASSUME NEW r \in Requests, Replay(r) PROVE TypeOK'
      BY <1>1 DEF Replay, Arrive, HasKey, Finish, Goto, Phases, Answers
<1>2. ASSUME NEW r \in Requests, BeginTelemetry(r) PROVE TypeOK'
      BY <1>2 DEF BeginTelemetry, Arrive, HasKey, Goto, Phases, Answers
<1>3. ASSUME NEW r \in Requests, BeginLog(r) PROVE TypeOK'
  <2>1. pc' \in [Requests -> Phases]
        BY <1>3 DEF BeginLog, Arrive, HasKey, Finish, Goto, EnterPool, Phases
  <2>2. answer' \in [Requests -> Answers]
        BY <1>3 DEF BeginLog, Finish, Answers
  <2>3. holder' \in [Instances -> Requests \cup {NoRequest}]
        BY <1>3 DEF BeginLog, EnterPool
  <2>4. late' \subseteq Requests
        BY <1>3 DEF BeginLog, Arrive
  <2>5. UNCHANGED <<crashes, outages, redisUp, queued, pool, cited, cache, served>>
        BY <1>3 DEF BeginLog, EnterPool
  <2> QED
      BY <2>1, <2>2, <2>3, <2>4, <2>5
<1>4. ASSUME NEW r \in Requests, ParseBody(r) PROVE TypeOK'
      BY <1>4 DEF ParseBody, Finish, Goto, Phases, Answers
<1>5. ASSUME NEW r \in Requests, Validate(r) PROVE TypeOK'
  <2>1. pc' \in [Requests -> Phases]
    <3>1. \E phase \in Phases : Goto(r, phase)
        BY <1>5 DEF Validate, Finish, EnterPool, Goto, Phases
    <3> QED
        BY <3>1 DEF Goto
  <2>2. answer' \in [Requests -> Answers]
        BY <1>5 DEF Validate, Finish, Answers
  <2>3. holder' \in [Instances -> Requests \cup {NoRequest}]
        BY <1>5 DEF Validate, EnterPool
  <2>5. UNCHANGED <<crashes, outages, redisUp, queued, pool, cited, cache, served, late>>
        BY <1>5 DEF Validate, EnterPool
  <2> QED
      BY <2>1, <2>2, <2>3, <2>5
<1>6. ASSUME NEW r \in Requests, Connected(r) PROVE TypeOK'
      BY <1>6 DEF Connected, Goto, Phases, Answers
<1>7. ASSUME NEW r \in Requests, ConnectFails(r) PROVE TypeOK'
      BY <1>7 DEF ConnectFails, Finish, Goto, Phases, Answers
<1>8. ASSUME NEW r \in Requests, RedisEnqueues(r) PROVE TypeOK'
      BY <1>8 DEF RedisEnqueues, Goto, Phases, Answers
<1>9. ASSUME NEW r \in Requests, EnqueueFails(r) PROVE TypeOK'
      BY <1>9 DEF EnqueueFails, Finish, Goto, Phases, Answers
<1>10. ASSUME NEW r \in Requests, Accept(r) PROVE TypeOK'
  <2>1. pc' \in [Requests -> Phases] /\ answer' \in [Requests -> Answers]
        BY <1>10 DEF Accept, Served, Finish, Goto, Phases, Answers
  <2>2. cited' \in [Requests -> Citations]
        BY <1>10 DEF Accept, Served, Citations
  <2>3. cache' \in [Instances -> [Keys -> Citations]]
        BY <1>10 DEF Accept, HasKey, Citations
  <2>4. served' \in [Instances -> SUBSET Requests]
        BY <1>10 DEF Accept, Served
  <2>5. UNCHANGED <<crashes, outages, redisUp, queued, pool, holder, late>>
        BY <1>10 DEF Accept, Served
  <2> QED
      BY <2>1, <2>2, <2>3, <2>4, <2>5
<1>11. ASSUME NEW i \in Instances, Crash(i) PROVE TypeOK'
  <2>1. crashes' \in 0..CrashBudget
        BY <1>11 DEF Crash
  <2>2. pc' \in [Requests -> Phases] /\ answer' \in [Requests -> Answers]
        BY <1>11 DEF Crash, Phases, Answers
  <2>3. cache' \in [Instances -> [Keys -> Citations]]
        BY <1>11 DEF Crash, Citations
  <2>4. /\ pool' \subseteq Instances
        /\ holder' \in [Instances -> Requests \cup {NoRequest}]
        /\ served' \in [Instances -> SUBSET Requests]
        BY <1>11 DEF Crash
  <2>5. UNCHANGED <<cited, queued, redisUp, outages, late>>
        BY <1>11 DEF Crash
  <2> QED
      BY <2>1, <2>2, <2>3, <2>4, <2>5
<1>12. CASE RedisStops
  <2>1. outages' \in 0..OutageBudget
        BY <1>12 DEF RedisStops
  <2>2. /\ UNCHANGED <<pc, answer, cited, cache, pool, holder, queued, crashes, served, late>>
        /\ redisUp' = FALSE
        BY <1>12 DEF RedisStops
  <2> QED
      BY <2>1, <2>2
<1>13. CASE RedisStarts
      BY <1>13 DEF RedisStarts
<1>14. CASE UNCHANGED vars
      BY <1>14 DEF vars
<1> QED
    BY <1>1, <1>2, <1>3, <1>4, <1>5, <1>6, <1>7,
       <1>8, <1>9, <1>10, <1>11, <1>12, <1>13, <1>14 DEF Next, Begin, Handle

\* A request is queued by its RedisEnqueues step and by no other.
LEMMA QueueKept == TypeOK /\ AnswerPhase /\ QueuedPhase /\ [Next]_vars => QueuedPhase'
<1> SUFFICES ASSUME TypeOK /\ AnswerPhase /\ QueuedPhase, [Next]_vars PROVE QueuedPhase'
    OBVIOUS
<1> USE ConstantsAssumption DEF TypeOK, QueuedPhase, AnswerPhase, redisVars, faultVars
<1>1. ASSUME NEW r \in Requests, Replay(r) PROVE QueuedPhase'
      BY <1>1 DEF Replay, Arrive, HasKey, Finish, Goto
<1>2. ASSUME NEW r \in Requests, BeginTelemetry(r) PROVE QueuedPhase'
      BY <1>2 DEF BeginTelemetry, Arrive, HasKey, Goto
<1>3. ASSUME NEW r \in Requests, BeginLog(r) PROVE QueuedPhase'
  <2>1. \E phase : Goto(r, phase) /\ phase # "queued"
        BY <1>3 DEF BeginLog, Finish, Goto, EnterPool
  <2>2. pc[r] = "new" /\ queued' = queued
        BY <1>3 DEF BeginLog, Arrive
  <2>3. answer' = answer \/ \E what \in {"rejected"} : answer' = [answer EXCEPT ![r] = what]
        BY <1>3 DEF BeginLog, Finish
  <2> QED
      BY <2>1, <2>2, <2>3 DEF Goto
<1>4. ASSUME NEW r \in Requests, ParseBody(r) PROVE QueuedPhase'
      BY <1>4 DEF ParseBody, Finish, Goto
<1>5. ASSUME NEW r \in Requests, Validate(r) PROVE QueuedPhase'
      BY <1>5 DEF Validate, Finish, Goto, EnterPool
<1>6. ASSUME NEW r \in Requests, Connected(r) PROVE QueuedPhase'
      BY <1>6 DEF Connected, Goto
<1>7. ASSUME NEW r \in Requests, ConnectFails(r) PROVE QueuedPhase'
      BY <1>7 DEF ConnectFails, Finish, Goto
<1>8. ASSUME NEW r \in Requests, RedisEnqueues(r) PROVE QueuedPhase'
      BY <1>8 DEF RedisEnqueues, Goto
<1>9. ASSUME NEW r \in Requests, EnqueueFails(r) PROVE QueuedPhase'
      BY <1>9 DEF EnqueueFails, Finish, Goto
<1>10. ASSUME NEW r \in Requests, Accept(r) PROVE QueuedPhase'
      BY <1>10 DEF Accept, Served, Finish, Goto, HasKey
<1>11. ASSUME NEW i \in Instances, Crash(i) PROVE QueuedPhase'
      BY <1>11 DEF Crash, InProgress
<1>12. CASE RedisStops
      BY <1>12 DEF RedisStops
<1>13. CASE RedisStarts
      BY <1>13 DEF RedisStarts
<1>14. CASE UNCHANGED vars
      BY <1>14 DEF vars
<1> QED
    BY <1>1, <1>2, <1>3, <1>4, <1>5, <1>6, <1>7,
       <1>8, <1>9, <1>10, <1>11, <1>12, <1>13, <1>14 DEF Next, Begin, Handle

\* An answer is given once, with the last step of a handler.
LEMMA PhaseKept == TypeOK /\ AnswerPhase /\ [Next]_vars => AnswerPhase'
<1> SUFFICES ASSUME TypeOK /\ AnswerPhase, [Next]_vars PROVE AnswerPhase'
    OBVIOUS
<1> USE ConstantsAssumption DEF TypeOK, AnswerPhase, redisVars, faultVars
<1>1. ASSUME NEW r \in Requests, Replay(r) PROVE AnswerPhase'
      BY <1>1 DEF Replay, Arrive, HasKey, Finish, Goto
<1>2. ASSUME NEW r \in Requests, BeginTelemetry(r) PROVE AnswerPhase'
      BY <1>2 DEF BeginTelemetry, Arrive, HasKey, Goto
<1>3. ASSUME NEW r \in Requests, BeginLog(r) PROVE AnswerPhase'
      BY <1>3 DEF BeginLog, Arrive, HasKey, Finish, Goto, EnterPool
<1>4. ASSUME NEW r \in Requests, ParseBody(r) PROVE AnswerPhase'
      BY <1>4 DEF ParseBody, Finish, Goto
<1>5. ASSUME NEW r \in Requests, Validate(r) PROVE AnswerPhase'
      BY <1>5 DEF Validate, Finish, Goto, EnterPool
<1>6. ASSUME NEW r \in Requests, Connected(r) PROVE AnswerPhase'
      BY <1>6 DEF Connected, Goto
<1>7. ASSUME NEW r \in Requests, ConnectFails(r) PROVE AnswerPhase'
      BY <1>7 DEF ConnectFails, Finish, Goto
<1>8. ASSUME NEW r \in Requests, RedisEnqueues(r) PROVE AnswerPhase'
      BY <1>8 DEF RedisEnqueues, Goto
<1>9. ASSUME NEW r \in Requests, EnqueueFails(r) PROVE AnswerPhase'
      BY <1>9 DEF EnqueueFails, Finish, Goto
<1>10. ASSUME NEW r \in Requests, Accept(r) PROVE AnswerPhase'
      BY <1>10 DEF Accept, Served, Finish, Goto, HasKey
<1>11. ASSUME NEW i \in Instances, Crash(i) PROVE AnswerPhase'
      BY <1>11 DEF Crash, InProgress
<1>12. CASE RedisStops
      BY <1>12 DEF RedisStops
<1>13. CASE RedisStarts
      BY <1>13 DEF RedisStarts
<1>14. CASE UNCHANGED vars
      BY <1>14 DEF vars
<1> QED
    BY <1>1, <1>2, <1>3, <1>4, <1>5, <1>6, <1>7,
       <1>8, <1>9, <1>10, <1>11, <1>12, <1>13, <1>14 DEF Next, Begin, Handle

\* A cache entry is stored after its job is in the queue.
LEMMA CacheKept == TypeOK /\ QueuedPhase /\ CacheIsTrue /\ [Next]_vars => CacheIsTrue'
<1> SUFFICES ASSUME TypeOK /\ QueuedPhase /\ CacheIsTrue, [Next]_vars PROVE CacheIsTrue'
    OBVIOUS
<1> USE ConstantsAssumption DEF TypeOK, CacheIsTrue, QueuedPhase, redisVars, faultVars
<1>1. ASSUME NEW r \in Requests, Replay(r) PROVE CacheIsTrue'
      BY <1>1 DEF Replay, Arrive, HasKey, Finish, Goto
<1>2. ASSUME NEW r \in Requests, BeginTelemetry(r) PROVE CacheIsTrue'
      BY <1>2 DEF BeginTelemetry, Arrive, HasKey, Goto
<1>3. ASSUME NEW r \in Requests, BeginLog(r) PROVE CacheIsTrue'
      BY <1>3 DEF BeginLog, Arrive, HasKey, Finish, Goto, EnterPool
<1>4. ASSUME NEW r \in Requests, ParseBody(r) PROVE CacheIsTrue'
      BY <1>4 DEF ParseBody, Finish, Goto, HasKey
<1>5. ASSUME NEW r \in Requests, Validate(r) PROVE CacheIsTrue'
      BY <1>5 DEF Validate, Finish, Goto, EnterPool, HasKey
<1>6. ASSUME NEW r \in Requests, Connected(r) PROVE CacheIsTrue'
      BY <1>6 DEF Connected, Goto, HasKey
<1>7. ASSUME NEW r \in Requests, ConnectFails(r) PROVE CacheIsTrue'
      BY <1>7 DEF ConnectFails, Finish, Goto, HasKey
<1>8. ASSUME NEW r \in Requests, RedisEnqueues(r) PROVE CacheIsTrue'
      BY <1>8 DEF RedisEnqueues, Goto, HasKey
<1>9. ASSUME NEW r \in Requests, EnqueueFails(r) PROVE CacheIsTrue'
      BY <1>9 DEF EnqueueFails, Finish, Goto, HasKey
<1>10. ASSUME NEW r \in Requests, Accept(r) PROVE CacheIsTrue'
      BY <1>10 DEF Accept, Served, Finish, Goto, HasKey
<1>11. ASSUME NEW i \in Instances, Crash(i) PROVE CacheIsTrue'
      BY <1>11 DEF Crash, InProgress, HasKey
<1>12. CASE RedisStops
      BY <1>12 DEF RedisStops, HasKey
<1>13. CASE RedisStarts
      BY <1>13 DEF RedisStarts, HasKey
<1>14. CASE UNCHANGED vars
      BY <1>14 DEF vars, HasKey
<1> QED
    BY <1>1, <1>2, <1>3, <1>4, <1>5, <1>6, <1>7,
       <1>8, <1>9, <1>10, <1>11, <1>12, <1>13, <1>14 DEF Next, Begin, Handle

\* Answers cite the request itself, or what the cache holds.
LEMMA AnswersKept ==
  TypeOK /\ QueuedPhase /\ AnswerPhase /\ CacheIsTrue /\ AnswersAreTrue /\ [Next]_vars
  => AnswersAreTrue'
<1> SUFFICES ASSUME TypeOK /\ QueuedPhase /\ AnswerPhase /\ CacheIsTrue /\ AnswersAreTrue,
                    [Next]_vars
             PROVE  AnswersAreTrue'
    OBVIOUS
<1> USE ConstantsAssumption DEF TypeOK, AnswersAreTrue, QueuedPhase, AnswerPhase,
        CacheIsTrue, redisVars, faultVars
<1>1. ASSUME NEW r \in Requests, Replay(r) PROVE AnswersAreTrue'
      BY <1>1 DEF Replay, Arrive, HasKey, Finish, Goto
<1>2. ASSUME NEW r \in Requests, BeginTelemetry(r) PROVE AnswersAreTrue'
      BY <1>2 DEF BeginTelemetry, Arrive, HasKey, Goto
<1>3. ASSUME NEW r \in Requests, BeginLog(r) PROVE AnswersAreTrue'
      BY <1>3 DEF BeginLog, Arrive, HasKey, Finish, Goto, EnterPool
<1>4. ASSUME NEW r \in Requests, ParseBody(r) PROVE AnswersAreTrue'
      BY <1>4 DEF ParseBody, Finish, Goto, HasKey
<1>5. ASSUME NEW r \in Requests, Validate(r) PROVE AnswersAreTrue'
  <2>1. /\ UNCHANGED <<cited, queued>>
        /\ pc[r] = "validating"
        /\ \/ answer' = answer \/ answer' = [answer EXCEPT ![r] = "rejected"]
        BY <1>5 DEF Validate, Finish
  <2>2. r \notin queued /\ answer[r] = "none"
        BY <2>1
  <2> QED
      BY <2>1, <2>2
<1>6. ASSUME NEW r \in Requests, Connected(r) PROVE AnswersAreTrue'
      BY <1>6 DEF Connected, Goto, HasKey
<1>7. ASSUME NEW r \in Requests, ConnectFails(r) PROVE AnswersAreTrue'
      BY <1>7 DEF ConnectFails, Finish, Goto, HasKey
<1>8. ASSUME NEW r \in Requests, RedisEnqueues(r) PROVE AnswersAreTrue'
      BY <1>8 DEF RedisEnqueues, Goto, HasKey
<1>9. ASSUME NEW r \in Requests, EnqueueFails(r) PROVE AnswersAreTrue'
      BY <1>9 DEF EnqueueFails, Finish, Goto, HasKey
<1>10. ASSUME NEW r \in Requests, Accept(r) PROVE AnswersAreTrue'
      BY <1>10 DEF Accept, Served, Finish, Goto, HasKey
<1>11. ASSUME NEW i \in Instances, Crash(i) PROVE AnswersAreTrue'
      BY <1>11 DEF Crash, InProgress, HasKey
<1>12. CASE RedisStops
      BY <1>12 DEF RedisStops, HasKey
<1>13. CASE RedisStarts
      BY <1>13 DEF RedisStarts, HasKey
<1>14. CASE UNCHANGED vars
      BY <1>14 DEF vars, HasKey
<1> QED
    BY <1>1, <1>2, <1>3, <1>4, <1>5, <1>6, <1>7,
       <1>8, <1>9, <1>10, <1>11, <1>12, <1>13, <1>14 DEF Next, Begin, Handle

\* What a process has answered since it started is in its cache.
LEMMA ServedKept == TypeOK /\ ServedIsCached /\ [Next]_vars => ServedIsCached'
<1> SUFFICES ASSUME TypeOK /\ ServedIsCached, [Next]_vars PROVE ServedIsCached'
    OBVIOUS
<1> USE ConstantsAssumption DEF TypeOK, ServedIsCached, redisVars, faultVars
<1>1. ASSUME NEW r \in Requests, Replay(r) PROVE ServedIsCached'
      BY <1>1 DEF Replay, Arrive, HasKey, Finish, Goto
<1>2. ASSUME NEW r \in Requests, BeginTelemetry(r) PROVE ServedIsCached'
      BY <1>2 DEF BeginTelemetry, Arrive, HasKey, Goto
<1>3. ASSUME NEW r \in Requests, BeginLog(r) PROVE ServedIsCached'
      BY <1>3 DEF BeginLog, Arrive, HasKey, Finish, Goto, EnterPool
<1>4. ASSUME NEW r \in Requests, ParseBody(r) PROVE ServedIsCached'
      BY <1>4 DEF ParseBody, Finish, Goto, HasKey
<1>5. ASSUME NEW r \in Requests, Validate(r) PROVE ServedIsCached'
      BY <1>5 DEF Validate, Finish, Goto, EnterPool, HasKey
<1>6. ASSUME NEW r \in Requests, Connected(r) PROVE ServedIsCached'
      BY <1>6 DEF Connected, Goto, HasKey
<1>7. ASSUME NEW r \in Requests, ConnectFails(r) PROVE ServedIsCached'
      BY <1>7 DEF ConnectFails, Finish, Goto, HasKey
<1>8. ASSUME NEW r \in Requests, RedisEnqueues(r) PROVE ServedIsCached'
      BY <1>8 DEF RedisEnqueues, Goto, HasKey
<1>9. ASSUME NEW r \in Requests, EnqueueFails(r) PROVE ServedIsCached'
      BY <1>9 DEF EnqueueFails, Finish, Goto, HasKey
<1>10. ASSUME NEW r \in Requests, Accept(r) PROVE ServedIsCached'
  <2>1. served' = [served EXCEPT ![InstanceOf[r]] = @ \cup {r}]
        BY <1>10 DEF Accept, Served
  <2>2. cache' = IF HasKey(r) THEN [cache EXCEPT ![InstanceOf[r]][KeyOf[r]] = {r}] ELSE cache
        BY <1>10 DEF Accept
  <2>3. \A q \in Requests : HasKey(q) => KeyOf[q] \in Keys
        BY DEF HasKey
  <2>4. \A i \in Instances, k \in Keys : cache[i][k] # {} => cache'[i][k] # {}
        BY <2>2, <2>3
  <2>5. HasKey(r) => cache'[InstanceOf[r]][KeyOf[r]] # {}
        BY <2>2, <2>3
  <2>6. \A i \in Instances : \A q \in served'[i] :
          q \in Requests /\ (q \in served[i] \/ (q = r /\ i = InstanceOf[r]))
        BY <2>1
  <2> HIDE DEF TypeOK
  <2> QED
      BY <2>3, <2>4, <2>5, <2>6
<1>11. ASSUME NEW i \in Instances, Crash(i) PROVE ServedIsCached'
  <2>1. /\ served' = [served EXCEPT ![i] = {}]
        /\ cache' = [cache EXCEPT ![i] = [k \in Keys |-> {}]]
        BY <1>11 DEF Crash
  <2> QED
      BY <2>1 DEF HasKey
<1>12. CASE RedisStops
      BY <1>12 DEF RedisStops, HasKey
<1>13. CASE RedisStarts
      BY <1>13 DEF RedisStarts, HasKey
<1>14. CASE UNCHANGED vars
      BY <1>14 DEF vars, HasKey
<1> QED
    BY <1>1, <1>2, <1>3, <1>4, <1>5, <1>6, <1>7,
       <1>8, <1>9, <1>10, <1>11, <1>12, <1>13, <1>14 DEF Next, Begin, Handle

\* A late request finds its key in the cache and ends there.
LEMMA LateKept ==
  TypeOK /\ QueuedPhase /\ ServedIsCached /\ LateIsReplayed /\ [Next]_vars
  => LateIsReplayed'
<1> SUFFICES ASSUME TypeOK /\ QueuedPhase /\ ServedIsCached /\ LateIsReplayed,
                    [Next]_vars
             PROVE  LateIsReplayed'
    OBVIOUS
<1> USE ConstantsAssumption DEF TypeOK, LateIsReplayed, QueuedPhase, ServedIsCached,
        redisVars, faultVars
<1>1. ASSUME NEW r \in Requests, Replay(r) PROVE LateIsReplayed'
  <2>1. late' \subseteq late \cup {r} /\ pc[r] = "new" /\ queued' = queued
        BY <1>1 DEF Replay, Arrive
  <2>2. pc' = [pc EXCEPT ![r] = "done"]
        BY <1>1 DEF Replay, Finish, Goto
  <2>3. r \notin queued
        BY <2>1
  <2> QED
      BY <2>1, <2>2, <2>3
<1>2. ASSUME NEW r \in Requests, BeginTelemetry(r) PROVE LateIsReplayed'
      BY <1>2 DEF BeginTelemetry, Arrive, HasKey, Goto
<1>3. ASSUME NEW r \in Requests, BeginLog(r) PROVE LateIsReplayed'
      BY <1>3 DEF BeginLog, Arrive, HasKey, Finish, Goto, EnterPool
<1>4. ASSUME NEW r \in Requests, ParseBody(r) PROVE LateIsReplayed'
      BY <1>4 DEF ParseBody, Finish, Goto, HasKey
<1>5. ASSUME NEW r \in Requests, Validate(r) PROVE LateIsReplayed'
      BY <1>5 DEF Validate, Finish, Goto, EnterPool, HasKey
<1>6. ASSUME NEW r \in Requests, Connected(r) PROVE LateIsReplayed'
      BY <1>6 DEF Connected, Goto, HasKey
<1>7. ASSUME NEW r \in Requests, ConnectFails(r) PROVE LateIsReplayed'
      BY <1>7 DEF ConnectFails, Finish, Goto, HasKey
<1>8. ASSUME NEW r \in Requests, RedisEnqueues(r) PROVE LateIsReplayed'
      BY <1>8 DEF RedisEnqueues, Goto, HasKey
<1>9. ASSUME NEW r \in Requests, EnqueueFails(r) PROVE LateIsReplayed'
      BY <1>9 DEF EnqueueFails, Finish, Goto, HasKey
<1>10. ASSUME NEW r \in Requests, Accept(r) PROVE LateIsReplayed'
      BY <1>10 DEF Accept, Served, Finish, Goto, HasKey
<1>11. ASSUME NEW i \in Instances, Crash(i) PROVE LateIsReplayed'
      BY <1>11 DEF Crash, InProgress, HasKey
<1>12. CASE RedisStops
      BY <1>12 DEF RedisStops, HasKey
<1>13. CASE RedisStarts
      BY <1>13 DEF RedisStarts, HasKey
<1>14. CASE UNCHANGED vars
      BY <1>14 DEF vars, HasKey
<1> QED
    BY <1>1, <1>2, <1>3, <1>4, <1>5, <1>6, <1>7,
       <1>8, <1>9, <1>10, <1>11, <1>12, <1>13, <1>14 DEF Next, Begin, Handle

\* Only the holder of the lock connects, and only while there is no pool.
LEMMA LockKept == TypeOK /\ ConnectingHoldsLock /\ [Next]_vars => ConnectingHoldsLock'
<1> SUFFICES ASSUME TypeOK /\ ConnectingHoldsLock,
                    [Next]_vars
             PROVE  ConnectingHoldsLock'
    OBVIOUS
<1> USE ConstantsAssumption DEF TypeOK, ConnectingHoldsLock, redisVars, faultVars
<1>1. ASSUME NEW r \in Requests, Replay(r) PROVE ConnectingHoldsLock'
      BY <1>1 DEF Replay, Arrive, HasKey, Finish, Goto
<1>2. ASSUME NEW r \in Requests, BeginTelemetry(r) PROVE ConnectingHoldsLock'
      BY <1>2 DEF BeginTelemetry, Arrive, HasKey, Goto
<1>3. ASSUME NEW r \in Requests, BeginLog(r) PROVE ConnectingHoldsLock'
      BY <1>3 DEF BeginLog, Arrive, HasKey, Finish, Goto, EnterPool
<1>4. ASSUME NEW r \in Requests, ParseBody(r) PROVE ConnectingHoldsLock'
      BY <1>4 DEF ParseBody, Finish, Goto
<1>5. ASSUME NEW r \in Requests, Validate(r) PROVE ConnectingHoldsLock'
      BY <1>5 DEF Validate, Finish, Goto, EnterPool
<1>6. ASSUME NEW r \in Requests, Connected(r) PROVE ConnectingHoldsLock'
      BY <1>6 DEF Connected, Goto
<1>7. ASSUME NEW r \in Requests, ConnectFails(r) PROVE ConnectingHoldsLock'
      BY <1>7 DEF ConnectFails, Finish, Goto
<1>8. ASSUME NEW r \in Requests, RedisEnqueues(r) PROVE ConnectingHoldsLock'
      BY <1>8 DEF RedisEnqueues, Goto
<1>9. ASSUME NEW r \in Requests, EnqueueFails(r) PROVE ConnectingHoldsLock'
      BY <1>9 DEF EnqueueFails, Finish, Goto
<1>10. ASSUME NEW r \in Requests, Accept(r) PROVE ConnectingHoldsLock'
      BY <1>10 DEF Accept, Served, Finish, Goto, HasKey
<1>11. ASSUME NEW i \in Instances, Crash(i) PROVE ConnectingHoldsLock'
      BY <1>11 DEF Crash, InProgress
<1>12. CASE RedisStops
      BY <1>12 DEF RedisStops
<1>13. CASE RedisStarts
      BY <1>13 DEF RedisStarts
<1>14. CASE UNCHANGED vars
      BY <1>14 DEF vars
<1> QED
    BY <1>1, <1>2, <1>3, <1>4, <1>5, <1>6, <1>7,
       <1>8, <1>9, <1>10, <1>11, <1>12, <1>13, <1>14 DEF Next, Begin, Handle

-----------------------------------------------------------------------------
\* Every reachable state of every instance satisfies Inv.
THEOREM Invariance == Spec => []Inv
<1>1. Inv /\ [Next]_vars => Inv'
      BY TypesKept, QueueKept, PhaseKept, CacheKept, AnswersKept, ServedKept, LateKept,
         LockKept
      DEF Inv
<1> QED
    BY InitInv, <1>1, PTL DEF Spec

\* Type correctness of handlers, cache, pool and queue.
THEOREM TypeCorrectness == Spec => []TypeOK
<1>1. Inv => TypeOK
      BY DEF Inv
<1> QED
    BY Invariance, <1>1, PTL

\* routes.py never claims a job that Redis does not have: "fail visibly
\* rather than claiming the job was queued".
THEOREM NoFalseAccept == Spec => []AnswersAreTrue
<1>1. Inv => AnswersAreTrue
      BY DEF Inv
<1> QED
    BY Invariance, <1>1, PTL

\* The idempotency cache absorbs every retry of an answered request that
\* reaches the same process in the same life.
THEOREM RetryIsReplayed == Spec => []AnsweredKeyIsReplayed
<1>1. Inv => AnsweredKeyIsReplayed
      BY DEF Inv, LateIsReplayed, AnsweredKeyIsReplayed
<1> QED
    BY Invariance, <1>1, PTL

\* _arq_pool_lock does what it is for: one pool per process.
THEOREM SinglePool == Spec => []OnePoolPerInstance
<1>1. Inv => OnePoolPerInstance
      BY DEF Inv, ConnectingHoldsLock, OnePoolPerInstance
<1> QED
    BY Invariance, <1>1, PTL
=============================================================================
