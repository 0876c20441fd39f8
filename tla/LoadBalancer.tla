---------------------------- MODULE LoadBalancer ----------------------------
(***************************************************************************)
(* load_balancer/: the health checker's thread (health.py), the            *)
(* round-robin router (router.py), the proxy handler (server.py), and      *)
(* ingestion backends that crash, restart and stall.                       *)
(*                                                                         *)
(* forward_once is a blocking call inside an async handler, so the one     *)
(* event loop works on one request at a time from the end of its body to   *)
(* its answer.  What interleaves with it is the checker's thread: between  *)
(* any two lock sections of either, which is where pc and chk.phase cut.   *)
(*                                                                         *)
(*   idle -> snapshot -> pick -> guard -> forwarding -> working -> idle    *)
(*              ^                  |           |           |               *)
(*              +------------------+-----------+-----------+ next attempt  *)
(*                                                                         *)
(* Timing: a round of checks begins HEALTH_CHECK_INTERVAL_SECONDS after    *)
(* the last one ended, and no such pause fits between two consecutive      *)
(* statements of the handler; StartRound therefore waits for the handler   *)
(* to be idle or blocked in a network call.  A round in progress           *)
(* interleaves with every step.                                            *)
(***************************************************************************)
EXTENDS Naturals, FiniteSets

CONSTANTS NumBackends,          \* len(BACKEND_URLS), checked and cycled in order
          Faulty,               \* backends that may crash or stall
          Requests,
          Retryable,            \* requests for which _is_safe_to_retry holds
          MaxRetries,           \* config.MAX_RETRIES
          RecoveriesRequired,   \* config.HEALTH_RECOVERIES_REQUIRED
          FaultBudget,          \* bound: crashes, stalls and 5xx answers
          NoRequest             \* the loop is idle

Backends == 1..NumBackends

ASSUME ConstantsAssumption ==
  /\ NumBackends \in Nat \ {0}
  /\ Faulty \subseteq Backends
  /\ Retryable \subseteq Requests
  /\ MaxRetries \in Nat
  /\ RecoveriesRequired \in Nat \ {0}
  /\ FaultBudget \in Nat
  /\ NoRequest \notin Requests

VARIABLES alive,       \* backends whose process is up
          hstate,      \* HealthChecker._state
          passes,      \* HealthChecker._consecutive_passes
          chk,         \* the checker's thread: phase, backend and outcome
          turn,        \* the next candidate of the router's cycle
          pc,          \* where the event loop is in proxy()
          req,         \* the request it works on
          attempt,     \* its for-loop variable, from 1
          snap,        \* next_backend's set of healthy backends
          chosen,      \* the backend the router picked
          attempted,   \* backends in attempted_backends
          sent,        \* len(attempted_backends)
          answer,      \* what the client of each request got
          processed,   \* how often a backend received the request in full
          faults,      \* faults so far
          since,       \* history: passes of checks begun after the last failure
          fresh,       \* history: the check under way began after that failure
          skipped      \* history: picks in a row that passed a healthy backend by

healthVars  == <<hstate, passes, since, fresh>>
handlerVars == <<pc, req, attempt, snap, chosen, attempted, sent>>
routerVars  == <<turn, skipped>>
clientVars  == <<answer, processed>>
vars == <<alive, healthVars, chk, routerVars, handlerVars, clientVars, faults>>

States == {"HEALTHY", "UNHEALTHY", "RECOVERING"}

\* Mutant: a backend is trusted when its first checks have passed.
InitialState_Distrustful == "UNHEALTHY"

\* "Start optimistic": nothing is known to be wrong with a backend yet.
InitialState == "HEALTHY"

Init ==
  /\ alive = Backends
  /\ hstate = [b \in Backends |-> InitialState]
  /\ passes = [b \in Backends |-> 0]
  /\ chk = [phase |-> "waiting", at |-> 1, ok |-> FALSE]
  /\ turn = 1
  /\ pc = "idle"
  /\ req = NoRequest
  /\ attempt = 1
  /\ snap = {}
  /\ chosen = 1
  /\ attempted = {}
  /\ sent = 0
  /\ answer = [r \in Requests |-> "none"]
  /\ processed = [r \in Requests |-> 0]
  /\ faults = 0
  /\ since = [b \in Backends |-> RecoveriesRequired]
  /\ fresh = TRUE
  /\ skipped = [b \in Backends |-> 0]

-----------------------------------------------------------------------------
Healthy == {b \in Backends : hstate[b] = "HEALTHY"}

\* Mutants: every request may be retried; the first attempt counts as a retry.
AttemptsAllowed_AnyRequest(r) == 1 + MaxRetries
AttemptsAllowed_OffByOne(r) == IF r \in Retryable /\ MaxRetries > 0 THEN MaxRetries ELSE 1

AttemptsAllowed(r) == 1 + (IF r \in Retryable THEN MaxRetries ELSE 0)

Fault ==
  /\ faults < FaultBudget
  /\ faults' = faults + 1

-----------------------------------------------------------------------------
(***************************************************************************)
(* The checker's thread.                                                   *)
(***************************************************************************)
BeginCheck(b) == chk' = [phase |-> "probing", at |-> b, ok |-> FALSE] /\ fresh' = TRUE

StartRound ==
  /\ chk.phase = "waiting"
  /\ pc \in {"idle", "forwarding", "working"}
  /\ BeginCheck(1)
  /\ UNCHANGED <<alive, hstate, passes, since, routerVars, handlerVars, clientVars, faults>>

ProbeReturns(ok) ==
  /\ chk.phase = "probing"
  /\ chk' = [chk EXCEPT !.phase = "apply", !.ok = ok]
  /\ UNCHANGED <<alive, healthVars, routerVars, handlerVars, clientVars>>

ProbePasses ==
  /\ chk.at \in alive
  /\ ProbeReturns(TRUE)
  /\ UNCHANGED faults

\* No server, or none that answers within the timeout.
ProbeFails ==
  /\ \/ chk.at \notin alive /\ UNCHANGED faults
     \/ chk.at \in alive \cap Faulty /\ Fault
  /\ ProbeReturns(FALSE)

CountPass(b) ==
  since' = [since EXCEPT ![b] = IF fresh /\ @ < RecoveriesRequired THEN @ + 1 ELSE @]

\* Mutant: one pass is enough.
Pass_TrustsAtOnce(b) ==
  /\ CountPass(b)
  /\ hstate' = [hstate EXCEPT ![b] = "HEALTHY"]
  /\ passes' = [passes EXCEPT ![b] = 0]

\* Mutant: the passes are compared before this one is counted, and not counted.
Pass_Uncounted(b) ==
  /\ CountPass(b)
  /\ hstate' = [hstate EXCEPT ![b] =
                  IF @ # "HEALTHY" /\ passes[b] < RecoveriesRequired
                  THEN "RECOVERING" ELSE "HEALTHY"]
  /\ passes' = [passes EXCEPT ![b] = IF hstate[b] = "UNHEALTHY" THEN 1 ELSE @]

\* Mutant: passes are counted in every state, and reset in none.
Pass_KeepsCounting(b) ==
  /\ CountPass(b)
  /\ passes' = [passes EXCEPT ![b] = @ + 1]
  /\ hstate' = [hstate EXCEPT ![b] = IF passes'[b] >= RecoveriesRequired THEN "HEALTHY" ELSE @]

\* Under the lock: the end of _check_one, with a passing result.
Pass(b) ==
  /\ CountPass(b)
  /\ \/ /\ hstate[b] = "HEALTHY"
        /\ UNCHANGED <<hstate, passes>>
     \/ /\ hstate[b] = "UNHEALTHY"
        /\ hstate' = [hstate EXCEPT ![b] = "RECOVERING"]
        /\ passes' = [passes EXCEPT ![b] = 1]
     \/ /\ hstate[b] = "RECOVERING"
        /\ IF passes[b] + 1 >= RecoveriesRequired
           THEN /\ hstate' = [hstate EXCEPT ![b] = "HEALTHY"]
                /\ passes' = [passes EXCEPT ![b] = 0]
           ELSE /\ UNCHANGED hstate
                /\ passes' = [passes EXCEPT ![b] = @ + 1]

MarkUnhealthy(b) ==
  /\ hstate' = [hstate EXCEPT ![b] = "UNHEALTHY"]
  /\ passes' = [passes EXCEPT ![b] = 0]
  /\ since' = [since EXCEPT ![b] = 0]

ApplyResult ==
  /\ chk.phase = "apply"
  /\ IF chk.ok THEN Pass(chk.at) ELSE MarkUnhealthy(chk.at)
  /\ IF chk.at < NumBackends
     THEN BeginCheck(chk.at + 1)
     ELSE chk' = [chk EXCEPT !.phase = "waiting"] /\ UNCHANGED fresh
  /\ UNCHANGED <<alive, routerVars, handlerVars, clientVars, faults>>

-----------------------------------------------------------------------------
(***************************************************************************)
(* The handler.                                                            *)
(***************************************************************************)
\* await request.body() is over; the loop turns to this request.
BeginRequest(r) ==
  /\ pc = "idle"
  /\ answer[r] = "none"
  /\ pc' = "snapshot"
  /\ req' = r
  /\ attempt' = 1
  /\ attempted' = {}
  /\ sent' = 0
  /\ UNCHANGED <<alive, healthVars, chk, routerVars, snap, chosen, clientVars, faults>>

\* The handler returns; its local variables are gone.
Answer(what) ==
  /\ answer' = [answer EXCEPT ![req] = what]
  /\ pc' = "idle"
  /\ req' = NoRequest
  /\ attempt' = 1
  /\ attempted' = {}
  /\ sent' = 0
  /\ snap' = {}
  /\ chosen' = 1

\* The for loop goes round, or is exhausted.
TryAgain ==
  IF attempt < AttemptsAllowed(req)
  THEN /\ attempt' = attempt + 1
       /\ pc' = "snapshot"
       /\ UNCHANGED <<req, snap, chosen, attempted, sent, answer>>
  ELSE Answer("502")

\* next_backend asks the checker first ...
TakeSnapshot ==
  /\ pc = "snapshot"
  /\ IF Healthy = {}
     THEN Answer("503")
     ELSE /\ snap' = Healthy
          /\ pc' = "pick"
          /\ UNCHANGED <<req, attempt, chosen, attempted, sent, answer>>
  /\ UNCHANGED <<alive, healthVars, chk, routerVars, processed, faults>>

After(b) == IF b = NumBackends THEN 1 ELSE b + 1

\* Steps of the cycle from the next candidate up to b.
Distance(b) == IF b >= turn THEN b - turn ELSE b + NumBackends - turn

\* Mutant: every call starts at the head of the list.
Pick_FromTheStart ==
  /\ pc = "pick"
  /\ \E b \in snap :
       /\ \A c \in snap : b <= c
       /\ chosen' = b
       /\ skipped' = [c \in Backends |-> IF c \in snap \ {b} THEN skipped[c] + 1 ELSE 0]
  /\ pc' = "guard"
  /\ UNCHANGED <<alive, healthVars, chk, turn, req, attempt, snap, attempted, sent,
                 clientVars, faults>>

\* ... and advances the shared cycle to the first backend of that answer.
Pick ==
  /\ pc = "pick"
  /\ \E b \in snap :
       /\ \A c \in snap : Distance(b) <= Distance(c)
       /\ chosen' = b
       /\ turn' = After(b)
       /\ skipped' = [c \in Backends |-> IF c \in snap \ {b} THEN skipped[c] + 1 ELSE 0]
  /\ pc' = "guard"
  /\ UNCHANGED <<alive, healthVars, chk, req, attempt, snap, attempted, sent,
                 clientVars, faults>>

RepeatIsAvoidable == chosen \in attempted /\ Cardinality(Healthy) > sent

\* "continue": this attempt is used up, without a forward.
SkipRepeat ==
  /\ pc = "guard"
  /\ RepeatIsAvoidable
  /\ TryAgain
  /\ UNCHANGED <<alive, healthVars, chk, routerVars, processed, faults>>

Forward ==
  /\ pc = "guard"
  /\ ~RepeatIsAvoidable
  /\ attempted' = attempted \cup {chosen}
  /\ sent' = sent + 1
  /\ pc' = "forwarding"
  /\ UNCHANGED <<alive, healthVars, chk, routerVars, req, attempt, snap, chosen,
                 clientVars, faults>>

\* The backend has the request; whatever it does with it is done.
Receive ==
  /\ pc = "forwarding"
  /\ chosen \in alive
  /\ processed' = [processed EXCEPT ![req] = @ + 1]
  /\ pc' = "working"
  /\ UNCHANGED <<alive, healthVars, chk, routerVars, req, attempt, snap, chosen,
                 attempted, sent, answer, faults>>

\* Any response counts, a 5xx as well, and goes to the client as it is.
Respond ==
  /\ pc = "working"
  /\ chosen \in alive
  /\ \/ Answer("ok") /\ UNCHANGED faults
     \/ chosen \in Faulty /\ Fault /\ Answer("error")
  /\ UNCHANGED <<alive, healthVars, chk, routerVars, processed>>

\* Mutant: the failure is left to the next periodic check to notice.
ForwardFails_Unreported ==
  /\ pc \in {"forwarding", "working"}
  /\ \/ chosen \notin alive /\ UNCHANGED faults
     \/ chosen \in alive \cap Faulty /\ Fault
  /\ TryAgain
  /\ UNCHANGED <<alive, healthVars, chk, routerVars, processed>>

\* RequestException: refused, reset, or no answer within the timeout.
ForwardFails ==
  /\ pc \in {"forwarding", "working"}
  /\ \/ chosen \notin alive /\ UNCHANGED faults
     \/ chosen \in alive \cap Faulty /\ Fault
  /\ MarkUnhealthy(chosen)
  /\ fresh' = (fresh /\ chk.at # chosen)
  /\ TryAgain
  /\ UNCHANGED <<alive, chk, routerVars, processed>>

-----------------------------------------------------------------------------
Crash(b) ==
  /\ b \in Faulty \cap alive
  /\ Fault
  /\ alive' = alive \ {b}
  /\ UNCHANGED <<healthVars, chk, routerVars, handlerVars, clientVars>>

Restart(b) ==
  /\ b \notin alive
  /\ alive' = alive \cup {b}
  /\ UNCHANGED <<healthVars, chk, routerVars, handlerVars, clientVars, faults>>

Check == StartRound \/ ProbePasses \/ ProbeFails \/ ApplyResult

Handle == TakeSnapshot \/ Pick \/ SkipRepeat \/ Forward \/ Receive \/ Respond \/ ForwardFails

Next ==
  \/ Check \/ Handle
  \/ \E r \in Requests : BeginRequest(r)
  \/ \E b \in Backends : Crash(b) \/ Restart(b)

Spec == Init /\ [][Next]_vars

\* Both threads run.  StartRound needs strong fairness, since a busy handler
\* disables it for moments.  Nobody has to restart a backend.
Fairness ==
  /\ WF_vars(Handle)
  /\ SF_vars(StartRound)
  /\ WF_vars(ProbePasses \/ ProbeFails \/ ApplyResult)

FairSpec == Spec /\ Fairness

-----------------------------------------------------------------------------
CheckerType ==
  /\ hstate \in [Backends -> States]
  /\ passes \in [Backends -> 0..RecoveriesRequired]
  /\ chk \in [phase : {"waiting", "probing", "apply"}, at : Backends, ok : BOOLEAN]
  /\ since \in [Backends -> 0..RecoveriesRequired]
  /\ fresh \in BOOLEAN

HandlerType ==
  /\ pc \in {"idle", "snapshot", "pick", "guard", "forwarding", "working"}
  /\ req \in Requests \cup {NoRequest}
  /\ attempt \in 1..(1 + MaxRetries)
  /\ snap \subseteq Backends
  /\ chosen \in Backends
  /\ attempted \subseteq Backends
  /\ sent \in 0..(1 + MaxRetries)
  /\ answer \in [Requests -> {"none", "ok", "error", "502", "503"}]
  /\ processed \in [Requests -> 0..(1 + MaxRetries)]

\* Types of the variables.
TypeOK ==
  /\ CheckerType
  /\ HandlerType
  /\ alive \subseteq Backends
  /\ turn \in Backends
  /\ skipped \in [Backends -> Nat]
  /\ faults \in 0..FaultBudget

\* A backend that failed is routed to again only after it passed all required
\* checks but one that began after the failure: a check already under way
\* when a live request fails may count as the first.
TrustIsEarned ==
  \A b \in Backends : hstate[b] = "HEALTHY" => since[b] + 1 >= RecoveriesRequired

\* A request that is not safe to retry reaches a backend at most once, and not
\* at all when its client is told that nobody could take it (503).
NoUnsafeRepeat ==
  \A r \in Requests \ Retryable :
    /\ processed[r] <= 1
    /\ answer[r] = "503" => processed[r] = 0

\* A crash, a stall or a 5xx answer costs at most one client the answer of a
\* backend: the backend is out of the rotation before the next request is routed.
\* Nobody is turned away (503) before there were as many faults as backends; then
\* any number of clients may be.  With fewer faults than backends, faults bound
\* the errors of every kind.
FaultsBoundErrors ==
  /\ Cardinality({r \in Requests : answer[r] \in {"error", "502"}}) <= faults
  /\ (\E r \in Requests : answer[r] = "503") => faults >= NumBackends

\* With one faulty backend and one retry, a request that may be retried never
\* fails in the balancer.
OneFailureIsMasked ==
  NumBackends > 1 /\ MaxRetries > 0 /\ Cardinality(Faulty) <= 1 =>
    \A r \in Retryable : answer[r] \notin {"502", "503"}

\* The rotation passes a healthy backend by at most once for each other one.
RotationIsFair == \A b \in Backends : skipped[b] < NumBackends

\* Refinement: what the handler does to a request is RequestProxy.
Calling == pc \in {"forwarding", "working"}
NoBackend == 0
HandedTo == IF Calling THEN chosen ELSE NoBackend
Untaken == {r \in Requests : answer[r] = "none"} \ {req}

Proxy == INSTANCE RequestProxy WITH
  Allowed <- [r \in Requests |-> IF r \in Retryable THEN 1 + MaxRetries ELSE 1],
  untaken <- Untaken, current <- req, handed <- sent, at <- HandedTo

\* No check, snapshot or repeat lets a request be handed over more often, or to
\* two backends at a time, or taken up a second time once it was answered.
ImplementsProxy == Proxy!Spec

\* A backend that stays up is routed to again.
EveryBackendReturns == \A b \in Backends : <>[](b \in alive) => <>[](hstate[b] = "HEALTHY")
=============================================================================
