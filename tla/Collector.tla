------------------------------ MODULE Collector ------------------------------
(***************************************************************************)
(* collector/: one process that polls OpenSky, turns the state vectors it  *)
(* gets into events, posts them as a batch and then posts a log entry of   *)
(* the poll.                                                               *)
(*                                                                         *)
(* It does one thing at a time, and `phase' says which network call it is  *)
(* in:                                                                     *)
(*                                                                         *)
(*   asleep -> refreshing -> getting -> posting -> logging -> asleep       *)
(*                  ^-- 401 ----+                                          *)
(*                                                                         *)
(* Whom it posts to is left open: SendEnds and LogEnds say how its calls   *)
(* end.  Time passes in steps of some fixed length, in Elapse; what the    *)
(* collector computes between two calls takes none.                        *)
(***************************************************************************)
EXTENDS Naturals, Sequences, FiniteSets

CONSTANTS MaxPolls,          \* bound: polls
          Aircraft, Times,   \* icao24 and last_contact of state vectors
          None,              \* a field that is null
          Response,          \* what OpenSky returns to each poll, when it does
          Authenticated,     \* OPENSKY_CLIENT_ID and _SECRET are set
          TokenLife,         \* expires_in of a token
          Margin,            \* TOKEN_REFRESH_MARGIN_SECONDS
          GetRetries,        \* max_retries of get_states
          TokenTimeout, GetTimeout, SendTimeout, LogTimeout,
          PollInterval,      \* POLL_INTERVAL_SECONDS
          RevocationBudget   \* bound: tokens OpenSky revokes

\* What normalize_batch distinguishes in a state vector, and whether the event
\* made of it passes TelemetryEvent.
StateVectors == [icao24 : Aircraft \cup {None}, last_contact : Times \cup {None},
                 fits : BOOLEAN]

Polls == 1..MaxPolls

ASSUME CollectorAssumption ==
  /\ MaxPolls \in Nat
  /\ None \notin Aircraft \cup Times
  /\ Response \in [Polls -> [readable : BOOLEAN, states : Seq(StateVectors)]]
  /\ Authenticated \in BOOLEAN
  /\ TokenLife \in Nat /\ Margin \in Nat
  /\ GetRetries \in Nat \ {0}
  /\ TokenTimeout \in Nat /\ GetTimeout \in Nat
  /\ SendTimeout \in Nat /\ LogTimeout \in Nat
  /\ PollInterval \in Nat
  /\ RevocationBudget \in Nat

\* The margin covers the reply of the token endpoint, which is as old as the
\* call took, and the request that uses the token.
ASSUME MarginAssumption ==
  /\ Margin >= TokenTimeout + GetTimeout
  /\ TokenLife > TokenTimeout + GetTimeout

VARIABLES phase, cycle,
          attempt,      \* the loop variable of get_states, 0 outside of it
          waited,       \* how long the present network call has lasted
          pause,        \* what is left of time.sleep
          hasToken,     \* _token is not None
          freshFor,     \* time to _expires_at
          issued,       \* the token endpoint has answered the present call
          entry         \* what the poll posts to the extraction log

VARIABLES validFor,     \* how long OpenSky takes the newest token
          revoked,      \* history: it has revoked it
          issuedIn,     \* history: the poll that obtained it
          revocations

callVars == <<phase, waited, pause>>
tokenVars == <<hasToken, freshFor, issued>>
openSkyVars == <<validFor, revoked, issuedIn, revocations>>
collectorVars == <<callVars, cycle, attempt, tokenVars, entry, openSkyVars>>

Phases == {"asleep", "refreshing", "getting", "posting", "logging"}
Errors == {"unreported", "none", "token", "refused", "down", "unsent"}
Entries == [count : Nat, success : BOOLEAN, error : Errors]

Unreported == [count |-> 0, success |-> FALSE, error |-> "unreported"]

CollectorInit ==
  /\ phase = "asleep" /\ waited = 0 /\ pause = 0
  /\ cycle = 0 /\ attempt = 0
  /\ hasToken = FALSE /\ freshFor = 0 /\ issued = FALSE
  /\ entry = Unreported
  /\ validFor = 0 /\ revoked = FALSE /\ issuedIn = 0
  /\ revocations = 0

-----------------------------------------------------------------------------
Vector(c, i) == Response[c].states[i]

\* normalize_batch: an event for each state vector that names its aircraft.
Events(c) == {i \in DOMAIN Response[c].states : Vector(c, i).icao24 # None}

\* Mutants: every id is random; ids leave out the time.
IngestionId_Random(c, i) ==
  [icao24 |-> Vector(c, i).icao24, seen |-> Vector(c, i).last_contact, salt |-> <<c, i>>]
IngestionId_Timeless(c, i) ==
  [icao24 |-> Vector(c, i).icao24, seen |-> None, salt |-> <<0, 0>>]

\* _compute_ingestion_id: a uuid5 of what was seen and when, and a uuid4 if the
\* time is missing.  Different inputs give different UUIDs.
IngestionId(c, i) ==
  [icao24 |-> Vector(c, i).icao24,
   seen |-> Vector(c, i).last_contact,
   salt |-> IF Vector(c, i).last_contact = None THEN <<c, i>> ELSE <<0, 0>>]

\* Every event of the batch passes the schema of the ingestion service.
Fits(c) == \A i \in Events(c) : Vector(c, i).fits

\* Mutant: a token that lives shorter than the margin expires in the past.
Monus_Signed(m, n) == m - n

Monus(m, n) == IF m > n THEN m - n ELSE 0

-----------------------------------------------------------------------------
Goto(p) == phase' = p /\ waited' = 0

\* requests ends a call when its time is up.
Limit(p) == CASE p = "refreshing" -> TokenTimeout
              [] p = "getting" -> GetTimeout
              [] p = "posting" -> SendTimeout
              [] OTHER -> LogTimeout

Calling == phase # "asleep"

\* Mutant: no pause between two polls.
EndCycle_Restless == Goto("asleep") /\ pause' = 0

\* run_once is over, with or without an exception: time.sleep.
EndCycle == Goto("asleep") /\ pause' = PollInterval

\* _log, up to its POST.
Report(n, ok, why) ==
  /\ entry' = [count |-> n, success |-> ok, error |-> why]
  /\ Goto("logging")

\* auth_headers and get_token, up to the first network call.
RequestStates(token) ==
  Goto(IF Authenticated /\ ~(token /\ freshFor > 0) THEN "refreshing" ELSE "getting")

WakeUp ==
  /\ phase = "asleep"
  /\ pause = 0
  /\ cycle < MaxPolls
  /\ cycle' = cycle + 1
  /\ attempt' = 0
  /\ entry' = Unreported
  /\ RequestStates(hasToken)
  /\ UNCHANGED <<pause, tokenVars, openSkyVars>>

\* The token endpoint issues a token; its answer is on the way.
TokenIssued ==
  /\ phase = "refreshing"
  /\ ~issued
  /\ issued' = TRUE
  /\ validFor' = TokenLife
  /\ revoked' = FALSE
  /\ issuedIn' = cycle
  /\ UNCHANGED <<callVars, cycle, attempt, hasToken, freshFor, entry, revocations>>

\* Mutant: no margin.
TokenReceived_NoMargin ==
  /\ phase = "refreshing"
  /\ issued
  /\ issued' = FALSE
  /\ hasToken' = TRUE
  /\ freshFor' = TokenLife
  /\ Goto("getting")
  /\ UNCHANGED <<pause, cycle, attempt, entry, openSkyVars>>

\* _refresh returns; _expires_at counts from now on.
TokenReceived ==
  /\ phase = "refreshing"
  /\ issued
  /\ issued' = FALSE
  /\ hasToken' = TRUE
  /\ freshFor' = Monus(TokenLife, Margin)
  /\ Goto("getting")
  /\ UNCHANGED <<pause, cycle, attempt, entry, openSkyVars>>

\* Mutant: the exception of _refresh is not one run_once expects.
TokenFails_Unhandled ==
  /\ phase = "refreshing"
  /\ issued' = FALSE
  /\ attempt' = 0
  /\ EndCycle
  /\ UNCHANGED <<cycle, hasToken, freshFor, entry, openSkyVars>>

\* _refresh raises: no answer in time, none at all, or one that is no token.
\* get_states does not catch it, run_once does.
TokenFails ==
  /\ phase = "refreshing"
  /\ issued' = FALSE
  /\ attempt' = 0
  /\ Report(0, FALSE, "token")
  /\ UNCHANGED <<pause, cycle, hasToken, freshFor, openSkyVars>>

\* 200 with state vectors.  normalize_batch raises on some that JSON allows,
\* and nothing in run_once catches that; an empty batch is not sent.
StatesArrive ==
  /\ phase = "getting"
  /\ Authenticated => validFor > 0
  /\ \/ /\ ~Response[cycle].readable
        /\ EndCycle
        /\ UNCHANGED entry
     \/ /\ Response[cycle].readable /\ Events(cycle) = {}
        /\ Report(0, TRUE, "none")
        /\ UNCHANGED pause
     \/ /\ Response[cycle].readable /\ Events(cycle) # {}
        /\ Goto("posting")
        /\ UNCHANGED <<pause, entry>>
  /\ attempt' = 0
  /\ UNCHANGED <<cycle, tokenVars, openSkyVars>>

\* Mutant: the refused token is kept.
StatesRefused_KeepsToken ==
  /\ phase = "getting"
  /\ Authenticated => validFor = 0
  /\ IF attempt < GetRetries
     THEN attempt' = attempt + 1 /\ RequestStates(hasToken) /\ UNCHANGED entry
     ELSE attempt' = 0 /\ Report(0, FALSE, "refused")
  /\ UNCHANGED hasToken
  /\ UNCHANGED <<pause, cycle, freshFor, issued, openSkyVars>>

\* 401: "refreshing and retrying", once.  OpenSky takes a valid token; what it
\* does with a request that has none is its own affair.
StatesRefused ==
  /\ phase = "getting"
  /\ Authenticated => validFor = 0
  /\ \/ /\ attempt < GetRetries
        /\ attempt' = attempt + 1
        /\ hasToken' = FALSE
        /\ RequestStates(FALSE)
        /\ UNCHANGED entry
     \/ /\ attempt >= GetRetries
        /\ attempt' = 0
        /\ Report(0, FALSE, "refused")
        /\ UNCHANGED hasToken
  /\ UNCHANGED <<pause, cycle, freshFor, issued, openSkyVars>>

\* Mutant: requests.get without a timeout.
StatesFail_Patient ==
  /\ phase = "getting"
  /\ waited < GetTimeout
  /\ attempt' = 0
  /\ Report(0, FALSE, "down")
  /\ UNCHANGED <<pause, cycle, tokenVars, openSkyVars>>

\* Any other status, no answer, or a body that is no JSON.  A 429 is one of these:
\* its Retry-After is logged, and the next poll comes at the usual time.
StatesFail ==
  /\ phase = "getting"
  /\ attempt' = 0
  /\ Report(0, FALSE, "down")
  /\ UNCHANGED <<pause, cycle, tokenVars, openSkyVars>>

\* send_batch returns.
SendEnds(ok) ==
  /\ phase = "posting"
  /\ Report(Cardinality(Events(cycle)), ok, IF ok THEN "none" ELSE "unsent")
  /\ UNCHANGED <<pause, cycle, attempt, tokenVars, openSkyVars>>

\* send_extraction_log returns, whatever came of it.
LogEnds ==
  /\ phase = "logging"
  /\ EndCycle
  /\ UNCHANGED <<cycle, attempt, tokenVars, entry, openSkyVars>>

\* OpenSky takes a token back before it expires.
Revoke ==
  /\ validFor > 0
  /\ revocations < RevocationBudget
  /\ revocations' = revocations + 1
  /\ revoked' = TRUE
  /\ validFor' = 0
  /\ UNCHANGED <<callVars, cycle, attempt, tokenVars, entry, issuedIn>>

\* A step of time, which no call outlives and in which no sleeper oversleeps.
Elapse ==
  /\ \/ /\ ~Calling /\ pause > 0
        /\ pause' = pause - 1
        /\ UNCHANGED waited
     \/ /\ Calling /\ waited < Limit(phase)
        /\ waited' = waited + 1
        /\ UNCHANGED pause
  /\ freshFor' = Monus(freshFor, 1)
  /\ validFor' = Monus(validFor, 1)
  /\ UNCHANGED <<phase, cycle, attempt, hasToken, issued, entry,
                 revoked, issuedIn, revocations>>

\* The poll, up to the batch.
Fetch ==
  \/ WakeUp \/ TokenIssued \/ TokenReceived \/ TokenFails
  \/ StatesArrive \/ StatesRefused \/ StatesFail

CollectorNext ==
  \/ Fetch \/ Revoke \/ Elapse
  \/ \E ok \in BOOLEAN : SendEnds(ok)
  \/ LogEnds

CollectorSpec == CollectorInit /\ [][CollectorNext]_collectorVars

-----------------------------------------------------------------------------
\* Types of the variables.
CollectorTypeOK ==
  /\ phase \in Phases
  /\ cycle \in 0..MaxPolls
  /\ attempt \in Nat /\ waited \in Nat /\ pause \in Nat
  /\ freshFor \in Nat /\ validFor \in Nat /\ issuedIn \in Nat
  /\ hasToken \in BOOLEAN /\ issued \in BOOLEAN /\ revoked \in BOOLEAN
  /\ entry \in Entries
  /\ revocations \in 0..RevocationBudget

\* A token that OpenSky does not revoke outlives every request that carries it:
\* the margin of get_token makes up for the age of the token when it was
\* received and for the time the request takes.
TokenOutlivesRequest ==
  phase = "getting" /\ Authenticated /\ ~revoked => validFor + waited > GetTimeout

\* A revoked token costs no poll: with credentials, get_states gives up with 401
\* only when OpenSky also revoked the token that it issued during this very poll.
RefusalNeedsRevocation ==
  [][Authenticated /\ phase = "getting" /\ phase' = "logging" /\ entry'.error = "refused"
     => revoked /\ issuedIn = cycle]_collectorVars

\* run_once reports every poll that is over, those that failed included, unless
\* normalize_batch raised an exception.
EveryPollIsReported ==
  phase = "asleep" /\ cycle > 0 => entry # Unreported \/ ~Response[cycle].readable
=============================================================================
