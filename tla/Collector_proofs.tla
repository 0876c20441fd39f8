--------------------------- MODULE Collector_proofs ---------------------------
(***************************************************************************)
(* Proofs about Collector, for any responses, time-outs, life of tokens    *)
(* and number of polls and revocations.                                    *)
(*                                                                         *)
(* After the types come three parts: no call outlasts its limit; the times *)
(* the collector and OpenSky keep for the token are far enough apart; the  *)
(* log entry is written before the call that sends it.                     *)
(***************************************************************************)
EXTENDS Collector, FiniteSetTheorems, TLAPS

CallsEnd == Calling => waited <= Limit(phase)

\* What the collector believes of its token is on the safe side by a request; the
\* token of the call in progress is as old as the call at most; a second attempt
\* has a token of this poll.
TokensAgree ==
  /\ phase = "refreshing" => ~(hasToken /\ freshFor > 0)
  /\ hasToken /\ freshFor > 0 /\ ~revoked => validFor >= freshFor + GetTimeout
  /\ issued => phase = "refreshing" /\ issuedIn = cycle
  /\ issued /\ ~revoked => validFor + waited >= TokenLife
  /\ Authenticated /\ phase = "getting" /\ attempt > 0 => issuedIn = cycle

Tokens == TokensAgree /\ TokenOutlivesRequest

EntryIsWritten == phase = "logging" => entry # Unreported

Reports == EntryIsWritten /\ EveryPollIsReported

-----------------------------------------------------------------------------
LEMMA EventsAreFinite ==
  ASSUME NEW c \in Polls
  PROVE  Cardinality(Events(c)) \in Nat
<1>1. Response[c].states \in Seq(StateVectors)
  BY CollectorAssumption
<1>2. DOMAIN Response[c].states = 1..Len(Response[c].states) /\ Len(Response[c].states) \in Nat
  BY <1>1
<1>3. IsFiniteSet(1..Len(Response[c].states))
  BY <1>2, FS_Interval
<1>4. Events(c) \subseteq 1..Len(Response[c].states)
  BY <1>2 DEF Events
<1> QED BY <1>3, <1>4, FS_Subset, FS_CardinalityType

LEMMA MonusType ==
  ASSUME NEW m \in Nat, NEW n \in Nat
  PROVE  Monus(m, n) \in Nat
BY DEF Monus

\* In a call there is a poll going on.
InPoll == Calling => cycle \in Polls

Typed == CollectorTypeOK /\ InPoll

LEMMA EntryType ==
  ASSUME NEW n \in Nat, NEW ok \in BOOLEAN, NEW why \in Errors
  PROVE  [count |-> n, success |-> ok, error |-> why] \in Entries
BY DEF Entries

LEMMA Reported ==
  ASSUME NEW n \in Nat, NEW ok \in BOOLEAN, NEW why \in Errors \ {"unreported"},
         Report(n, ok, why)
  PROVE  /\ phase' = "logging" /\ waited' = 0
         /\ entry' \in Entries /\ entry' # Unreported /\ entry'.error = why
<1>1. entry' \in Entries
  BY EntryType DEF Report
<1>2. entry'.error = why /\ phase' = "logging" /\ waited' = 0
  BY DEF Report, Goto
<1> QED BY <1>1, <1>2 DEF Unreported

LEMMA Requested ==
  ASSUME NEW token, RequestStates(token)
  PROVE  /\ waited' = 0
         /\ phase' = "refreshing" => Authenticated /\ ~(token /\ freshFor > 0)
         /\ phase' # "refreshing" => phase' = "getting"
         /\ Authenticated /\ phase' = "getting" => token /\ freshFor > 0
BY DEF RequestStates, Goto

LEMMA TypedInit ==
  ASSUME CollectorInit
  PROVE  Typed
<1>1. MaxPolls \in Nat /\ RevocationBudget \in Nat
  BY CollectorAssumption
<1>2. Unreported \in Entries
  BY EntryType DEF Unreported, Errors
<1>3. 0 \in 0..MaxPolls /\ 0 \in 0..RevocationBudget
  BY <1>1
<1>4. phase = "asleep" /\ phase \in Phases
  BY DEF CollectorInit, Phases
<1>5. CollectorTypeOK
  BY <1>2, <1>3, <1>4 DEF CollectorInit, CollectorTypeOK
<1> QED BY <1>4, <1>5 DEF Typed, InPoll, Calling

LEMMA TypedStep ==
  ASSUME Typed, CollectorNext
  PROVE  Typed'
<1> USE DEF Typed, CollectorTypeOK, InPoll, Calling, Phases
<1>1. MaxPolls \in Nat /\ PollInterval \in Nat /\ TokenLife \in Nat /\ Margin \in Nat
      /\ RevocationBudget \in Nat
  BY CollectorAssumption
<1>2. CASE WakeUp
  <2>1. Unreported \in Entries
    BY EntryType DEF Unreported, Errors
  <2>2. waited' = 0 /\ phase' \in {"refreshing", "getting"}
    BY <1>2, Requested DEF WakeUp
  <2>3. cycle' \in 0..MaxPolls /\ cycle' \in Polls
    BY <1>1, <1>2 DEF WakeUp, Polls
  <2> QED BY <1>2, <2>1, <2>2, <2>3 DEF WakeUp, tokenVars, openSkyVars
<1>3. CASE TokenIssued
  <2>1. /\ UNCHANGED phase /\ UNCHANGED waited /\ UNCHANGED pause /\ UNCHANGED cycle
        /\ UNCHANGED attempt /\ UNCHANGED hasToken /\ UNCHANGED freshFor /\ UNCHANGED entry
        /\ UNCHANGED revocations
    BY <1>3 DEF TokenIssued, callVars
  <2>2. validFor' \in Nat /\ issuedIn' \in Nat /\ issued' = TRUE /\ revoked' = FALSE
    BY <1>1, <1>3 DEF TokenIssued
  <2>3. CollectorTypeOK'
    BY <2>1, <2>2
  <2>4. InPoll'
    BY <2>1
  <2> QED BY <2>3, <2>4
<1>4. CASE TokenReceived
  BY <1>1, <1>4, MonusType DEF TokenReceived, Goto, openSkyVars
<1>5. CASE TokenFails
  <2>1. phase' = "logging" /\ waited' = 0 /\ entry' \in Entries
    BY <1>5, Reported DEF TokenFails, Errors
  <2> QED BY <1>5, <2>1 DEF TokenFails, openSkyVars
<1>6. CASE StatesArrive
  <2>1. UNCHANGED <<cycle, tokenVars, openSkyVars>> /\ attempt' = 0
    BY <1>6 DEF StatesArrive
  <2>2. CASE EndCycle /\ UNCHANGED entry
    BY <1>1, <2>1, <2>2 DEF EndCycle, Goto, tokenVars, openSkyVars
  <2>3. CASE Report(0, TRUE, "none") /\ UNCHANGED pause
    <3>1. phase' = "logging" /\ waited' = 0 /\ entry' \in Entries
      BY <2>3, Reported DEF Errors
    <3> QED BY <1>6, <2>1, <2>3, <3>1 DEF StatesArrive, tokenVars, openSkyVars
  <2>4. CASE Goto("posting") /\ UNCHANGED <<pause, entry>>
    BY <1>6, <2>1, <2>4 DEF StatesArrive, Goto, tokenVars, openSkyVars
  <2> QED BY <1>6, <2>2, <2>3, <2>4 DEF StatesArrive
<1>7. CASE StatesRefused
  <2>1. UNCHANGED <<pause, cycle, freshFor, issued, openSkyVars>> /\ cycle \in Polls
    BY <1>7 DEF StatesRefused
  <2>2. CASE /\ attempt' = attempt + 1 /\ hasToken' = FALSE
             /\ RequestStates(FALSE) /\ UNCHANGED entry
    <3>1. waited' = 0 /\ phase' \in {"refreshing", "getting"}
      BY <2>2, Requested
    <3>2. /\ UNCHANGED pause /\ UNCHANGED cycle /\ UNCHANGED freshFor /\ UNCHANGED issued
          /\ UNCHANGED entry /\ UNCHANGED validFor /\ UNCHANGED revoked
          /\ UNCHANGED issuedIn /\ UNCHANGED revocations
      BY <2>1, <2>2 DEF openSkyVars
    <3>3. attempt' \in Nat /\ hasToken' = FALSE
      BY <2>2
    <3>4. CollectorTypeOK'
      BY <2>1, <3>1, <3>2, <3>3
    <3>5. InPoll'
      BY <2>1, <3>2
    <3> QED BY <3>4, <3>5
  <2>3. CASE attempt' = 0 /\ Report(0, FALSE, "refused") /\ UNCHANGED hasToken
    <3>1. phase' = "logging" /\ waited' = 0 /\ entry' \in Entries
      BY <2>3, Reported DEF Errors
    <3> QED BY <2>1, <2>3, <3>1 DEF openSkyVars
  <2> QED BY <1>7, <2>2, <2>3 DEF StatesRefused
<1>8. CASE StatesFail
  <2>1. phase' = "logging" /\ waited' = 0 /\ entry' \in Entries
    BY <1>8, Reported DEF StatesFail, Errors
  <2> QED BY <1>8, <2>1 DEF StatesFail, tokenVars, openSkyVars
<1>9. ASSUME NEW ok \in BOOLEAN, SendEnds(ok) PROVE Typed'
  <2>1. cycle \in Polls
    BY <1>9 DEF SendEnds
  <2>2. Cardinality(Events(cycle)) \in Nat
    BY <2>1, EventsAreFinite
  <2>3. phase' = "logging" /\ waited' = 0 /\ entry' \in Entries
    BY <1>9, <2>2, Reported DEF SendEnds, Errors
  <2> QED BY <1>9, <2>1, <2>3 DEF SendEnds, tokenVars, openSkyVars
<1>10. CASE LogEnds
  BY <1>1, <1>10 DEF LogEnds, EndCycle, Goto, tokenVars, openSkyVars
<1>11. CASE Revoke
  BY <1>1, <1>11 DEF Revoke, callVars, tokenVars
<1>12. CASE Elapse
  <2>1. Monus(freshFor, 1) \in Nat /\ Monus(validFor, 1) \in Nat
    BY MonusType
  <2> QED BY <1>12, <2>1 DEF Elapse
<1> QED
  BY <1>2, <1>3, <1>4, <1>5, <1>6, <1>7, <1>8, <1>9, <1>10, <1>11, <1>12
  DEF CollectorNext, Fetch

LEMMA TypedStutter ==
  ASSUME Typed, UNCHANGED collectorVars
  PROVE  Typed'
BY DEF Typed, CollectorTypeOK, InPoll, Calling, collectorVars, callVars, tokenVars, openSkyVars

\* Every variable of the collector keeps its type.
THEOREM TypeCorrectness == CollectorSpec => []CollectorTypeOK
<1>1. CollectorSpec => []Typed
  BY TypedInit, TypedStep, TypedStutter, PTL DEF CollectorSpec
<1>2. Typed => CollectorTypeOK
  BY DEF Typed
<1> QED BY <1>1, <1>2, PTL

-----------------------------------------------------------------------------
LEMMA LimitType ==
  ASSUME NEW p
  PROVE  Limit(p) \in Nat
BY CollectorAssumption DEF Limit

\* The clock of a call starts anew, stands still, or runs in Elapse.
LEMMA StepOfTheClock ==
  ASSUME CollectorNext
  PROVE  waited' = 0 \/ (UNCHANGED <<phase, waited>>) \/ Elapse
<1>1. CASE Fetch
  <2>1. CASE WakeUp
    BY <2>1, Requested DEF WakeUp
  <2>2. CASE StatesRefused
    BY <2>2, Requested DEF StatesRefused, Report, Goto
  <2> QED
    BY <1>1, <2>1, <2>2 DEF Fetch, TokenIssued, TokenReceived, TokenFails, StatesArrive,
       StatesFail, EndCycle, Report, Goto, callVars
<1>2. CASE Revoke \/ LogEnds \/ \E ok \in BOOLEAN : SendEnds(ok)
  BY <1>2 DEF Revoke, LogEnds, SendEnds, EndCycle, Report, Goto, callVars
<1> QED BY <1>1, <1>2 DEF CollectorNext

LEMMA CallsEndStep ==
  ASSUME Typed, CallsEnd, CollectorNext
  PROVE  CallsEnd'
<1>1. Limit(phase) \in Nat /\ Limit(phase') \in Nat /\ waited \in Nat
  BY LimitType DEF Typed, CollectorTypeOK
<1>2. CASE waited' = 0
  BY <1>1, <1>2 DEF CallsEnd, Limit
<1>3. CASE UNCHANGED <<phase, waited>>
  BY <1>3 DEF CallsEnd, Limit, Calling
<1>4. CASE Elapse
  <2>1. phase' = phase
    BY <1>4 DEF Elapse
  <2>2. Calling => waited' = waited + 1 /\ waited < Limit(phase)
    BY <1>4 DEF Elapse
  <2>3. Calling => waited' <= Limit(phase)
    BY <1>1, <2>2
  <2> QED BY <2>1, <2>3 DEF CallsEnd, Limit, Calling
<1> QED BY <1>2, <1>3, <1>4, StepOfTheClock

-----------------------------------------------------------------------------
LEMMA TokensInit ==
  ASSUME CollectorInit
  PROVE  Tokens
BY DEF CollectorInit, Tokens, TokensAgree, TokenOutlivesRequest

\* A step of time, for the time f to _expires_at, the time v the token is valid
\* and the time w the call has lasted.
LEMMA Ageing ==
  ASSUME NEW f \in Nat, NEW v \in Nat, NEW w \in Nat, NEW n \in Nat
  PROVE  /\ Monus(f, 1) > 0 => f > 0
         /\ Monus(f, 1) > 0 /\ v >= f + n => Monus(v, 1) >= Monus(f, 1) + n
         /\ v + w >= n => Monus(v, 1) + (w + 1) >= n
         /\ v + w > n => Monus(v, 1) + (w + 1) > n
BY DEF Monus

LEMMA TokensStep ==
  ASSUME Typed, CallsEnd, Tokens, CollectorNext
  PROVE  Tokens'
<1>1. /\ TokenLife \in Nat /\ Margin \in Nat /\ TokenTimeout \in Nat /\ GetTimeout \in Nat
      /\ Margin >= TokenTimeout + GetTimeout /\ TokenLife > TokenTimeout + GetTimeout
  BY CollectorAssumption, MarginAssumption
<1>2. /\ waited \in Nat /\ freshFor \in Nat /\ validFor \in Nat /\ attempt \in Nat
  BY DEF Typed, CollectorTypeOK
<1>3. CASE WakeUp
  <2>1. /\ phase = "asleep" /\ attempt' = 0
        /\ UNCHANGED hasToken /\ UNCHANGED freshFor /\ UNCHANGED issued
        /\ UNCHANGED validFor /\ UNCHANGED revoked
    BY <1>3 DEF WakeUp, tokenVars, openSkyVars
  <2>2. /\ waited' = 0
        /\ phase' = "refreshing" => ~(hasToken /\ freshFor > 0)
        /\ Authenticated /\ phase' = "getting" => hasToken /\ freshFor > 0
    BY <1>3, Requested DEF WakeUp
  <2>3. TokensAgree'
    BY <2>1, <2>2 DEF Tokens, TokensAgree
  <2>4. TokenOutlivesRequest'
    BY <1>1, <1>2, <2>1, <2>2 DEF Tokens, TokensAgree, TokenOutlivesRequest
  <2> QED BY <2>3, <2>4 DEF Tokens
<1>4. CASE TokenIssued
  BY <1>1, <1>2, <1>4 DEF TokenIssued, callVars,
     Tokens, TokensAgree, TokenOutlivesRequest
<1>5. CASE TokenReceived
  <2>1. /\ phase = "refreshing" /\ issued /\ issued' = FALSE /\ hasToken' = TRUE
        /\ freshFor' = Monus(TokenLife, Margin) /\ phase' = "getting" /\ waited' = 0
        /\ UNCHANGED cycle /\ UNCHANGED validFor /\ UNCHANGED revoked /\ UNCHANGED issuedIn
    BY <1>5 DEF TokenReceived, Goto, openSkyVars
  <2>2. ~revoked => validFor + TokenTimeout >= TokenLife
    BY <1>1, <1>2, <2>1 DEF CallsEnd, Calling, Limit, Tokens, TokensAgree
  <2>3. Monus(TokenLife, Margin) > 0 /\ validFor + TokenTimeout >= TokenLife
        => validFor >= Monus(TokenLife, Margin) + GetTimeout
    BY <1>1, <1>2 DEF Monus
  <2>4. validFor + TokenTimeout >= TokenLife => validFor + 0 > GetTimeout
    BY <1>1, <1>2
  <2> QED BY <1>2, <2>1, <2>2, <2>3, <2>4 DEF Tokens, TokensAgree, TokenOutlivesRequest
<1>6. CASE StatesRefused
  <2>1. /\ phase = "getting"
        /\ UNCHANGED cycle /\ UNCHANGED freshFor /\ UNCHANGED issued
        /\ UNCHANGED validFor /\ UNCHANGED revoked /\ UNCHANGED issuedIn
    BY <1>6 DEF StatesRefused, openSkyVars
  <2>2. CASE hasToken' = FALSE /\ RequestStates(FALSE)
    <3>1. phase' = "refreshing" \/ (phase' = "getting" /\ ~Authenticated)
      BY <2>1, <2>2, Requested
    <3> QED BY <2>1, <2>2, <3>1 DEF Tokens, TokensAgree, TokenOutlivesRequest
  <2>3. CASE phase' = "logging" /\ UNCHANGED hasToken
    BY <2>1, <2>3 DEF Tokens, TokensAgree, TokenOutlivesRequest
  <2> QED BY <1>6, <2>2, <2>3 DEF StatesRefused, Report, Goto
<1>7. CASE TokenFails \/ StatesArrive \/ StatesFail \/ LogEnds \/ \E ok \in BOOLEAN : SendEnds(ok)
  <2>1. /\ phase' \in {"logging", "posting", "asleep"}
        /\ issued' => issued /\ phase # "refreshing"
        /\ UNCHANGED hasToken /\ UNCHANGED freshFor
        /\ UNCHANGED validFor /\ UNCHANGED revoked
    BY <1>7 DEF TokenFails, StatesArrive, StatesFail, LogEnds, SendEnds, EndCycle, Report, Goto,
       tokenVars, openSkyVars
  <2> QED BY <2>1 DEF Tokens, TokensAgree, TokenOutlivesRequest
<1>8. CASE Revoke
  BY <1>2, <1>8 DEF Revoke, callVars, tokenVars,
     Tokens, TokensAgree, TokenOutlivesRequest
<1>9. CASE Elapse
  <2>1. /\ UNCHANGED phase /\ UNCHANGED cycle /\ UNCHANGED attempt /\ UNCHANGED hasToken
        /\ UNCHANGED issued /\ UNCHANGED revoked /\ UNCHANGED issuedIn
        /\ phase # "asleep" => waited' = waited + 1
    BY <1>9 DEF Elapse, Calling
  <2>2. freshFor' = Monus(freshFor, 1) /\ validFor' = Monus(validFor, 1)
    BY <1>9 DEF Elapse
  <2>3. /\ freshFor' > 0 => freshFor > 0
        /\ freshFor' > 0 /\ validFor >= freshFor + GetTimeout => validFor' >= freshFor' + GetTimeout
    BY <1>1, <1>2, <2>2, Ageing
  <2>4. phase # "asleep" /\ validFor + waited >= TokenLife => validFor' + waited' >= TokenLife
    BY <1>1, <1>2, <2>1, <2>2, Ageing
  <2>5. phase # "asleep" /\ validFor + waited > GetTimeout => validFor' + waited' > GetTimeout
    BY <1>1, <1>2, <2>1, <2>2, Ageing
  <2>7. TokensAgree'
    BY <2>1, <2>3, <2>4, Zenon DEF Tokens, TokensAgree
  <2>8. TokenOutlivesRequest'
    BY <2>1, <2>5, Zenon DEF Tokens, TokenOutlivesRequest
  <2> QED BY <2>7, <2>8 DEF Tokens
<1> QED BY <1>3, <1>4, <1>5, <1>6, <1>7, <1>8, <1>9 DEF CollectorNext, Fetch

-----------------------------------------------------------------------------
LEMMA ReportsStep ==
  ASSUME Typed, Reports, CollectorNext
  PROVE  Reports'
<1> USE DEF Reports, EntryIsWritten, EveryPollIsReported
<1>1. CASE WakeUp
  <2>1. phase' \in {"refreshing", "getting"}
    BY <1>1, Requested DEF WakeUp
  <2> QED BY <2>1
<1>2. ASSUME NEW n \in Nat, NEW ok \in BOOLEAN, NEW why \in Errors \ {"unreported"},
             Report(n, ok, why)
      PROVE  Reports'
  <2>1. phase' = "logging" /\ entry' # Unreported
    BY <1>2, Reported
  <2> QED BY <2>1
<1>3. CASE TokenFails \/ StatesFail
  BY <1>2, <1>3 DEF TokenFails, StatesFail, Errors
<1>4. CASE StatesArrive
  <2>1. CASE ~Response[cycle].readable /\ UNCHANGED cycle /\ phase' = "asleep"
    BY <2>1
  <2>2. CASE Report(0, TRUE, "none")
    BY <1>2, <2>2 DEF Errors
  <2>3. CASE phase' = "posting"
    BY <2>3
  <2> QED BY <1>4, <2>1, <2>2, <2>3 DEF StatesArrive, EndCycle, Goto
<1>5. CASE StatesRefused
  <2>1. CASE RequestStates(FALSE)
    <3>1. phase' \in {"refreshing", "getting"}
      BY <2>1, Requested
    <3> QED BY <3>1
  <2>2. CASE Report(0, FALSE, "refused")
    BY <1>2, <2>2 DEF Errors
  <2> QED BY <1>5, <2>1, <2>2 DEF StatesRefused
<1>6. ASSUME NEW ok \in BOOLEAN, SendEnds(ok) PROVE Reports'
  <2>1. Cardinality(Events(cycle)) \in Nat
    BY <1>6, EventsAreFinite DEF SendEnds, Typed, InPoll, Calling
  <2> QED BY <1>2, <1>6, <2>1 DEF SendEnds, Errors
<1>7. CASE LogEnds
  BY <1>7 DEF LogEnds, EndCycle, Goto
<1>8. CASE TokenIssued \/ TokenReceived \/ Revoke \/ Elapse
  <2>1. /\ UNCHANGED entry /\ UNCHANGED cycle
        /\ (UNCHANGED phase) \/ phase' = "getting"
    BY <1>8 DEF TokenIssued, TokenReceived, Revoke, Elapse, Goto, callVars
  <2> QED BY <2>1
<1> QED BY <1>1, <1>3, <1>4, <1>5, <1>6, <1>7, <1>8 DEF CollectorNext, Fetch

-----------------------------------------------------------------------------
CollectorInv == Typed /\ CallsEnd /\ Tokens /\ Reports

LEMMA CollectorInvariance == CollectorSpec => []CollectorInv
<1>1. CollectorInit => CollectorInv
  <2>1. CollectorInit => CallsEnd /\ Reports
    BY DEF CollectorInit, CallsEnd, Calling, Reports, EntryIsWritten, EveryPollIsReported
  <2> QED BY <2>1, TypedInit, TokensInit DEF CollectorInv
<1>2. CollectorInv /\ [CollectorNext]_collectorVars => CollectorInv'
  <2>1. CASE CollectorNext
    BY <2>1, TypedStep, CallsEndStep, TokensStep, ReportsStep DEF CollectorInv
  <2>2. CASE UNCHANGED collectorVars
    <3>1. CollectorInv => Typed'
      BY <2>2, TypedStutter DEF CollectorInv
    <3>2. CollectorInv => (CallsEnd /\ Tokens /\ Reports)'
      BY <2>2 DEF CollectorInv, CallsEnd, Calling, Limit, Tokens, TokensAgree,
         TokenOutlivesRequest, Reports, EntryIsWritten, EveryPollIsReported,
         collectorVars, callVars, tokenVars, openSkyVars
    <3> QED BY <3>1, <3>2 DEF CollectorInv
  <2> QED BY <2>1, <2>2
<1> QED BY <1>1, <1>2, PTL DEF CollectorSpec

\* The margin of get_token is enough: a request of get_states never carries a
\* token that expired, unless OpenSky revoked it.
THEOREM TokensOutliveRequests == CollectorSpec => []TokenOutlivesRequest
<1>1. CollectorInv => TokenOutlivesRequest
  BY DEF CollectorInv, Tokens
<1> QED BY <1>1, CollectorInvariance, PTL

\* run_once posts a log entry for each poll whose state vectors can be normalized.
THEOREM PollsAreReported == CollectorSpec => []EveryPollIsReported
<1>1. CollectorInv => EveryPollIsReported
  BY DEF CollectorInv, Reports
<1> QED BY <1>1, CollectorInvariance, PTL

\* With credentials, get_states reports a 401 only after OpenSky revoked a token of the same poll.
THEOREM RefusalsNeedRevocations == CollectorSpec => RefusalNeedsRevocation
<1>1. CollectorInv /\ [CollectorNext]_collectorVars
      => [Authenticated /\ phase = "getting" /\ phase' = "logging" /\ entry'.error = "refused"
          => revoked /\ issuedIn = cycle]_collectorVars
  <2> SUFFICES ASSUME CollectorInv, CollectorNext, Authenticated,
                      phase = "getting", phase' = "logging", entry'.error = "refused"
               PROVE  revoked /\ issuedIn = cycle
    OBVIOUS
  <2>1. StatesRefused
    <3>1. CASE StatesArrive \/ StatesFail
      BY <3>1 DEF StatesArrive, StatesFail, EndCycle, Report, Goto
    <3>2. ~(TokenIssued \/ TokenReceived \/ TokenFails \/ WakeUp \/ Revoke \/ Elapse \/ LogEnds)
      BY DEF TokenIssued, TokenReceived, TokenFails, WakeUp, Revoke, Elapse, LogEnds, callVars
    <3>3. ~ \E ok \in BOOLEAN : SendEnds(ok)
      BY DEF SendEnds
    <3> QED BY <3>1, <3>2, <3>3 DEF CollectorNext, Fetch
  <2>2. Authenticated /\ validFor = 0 /\ attempt >= GetRetries
    <3>1. ASSUME RequestStates(FALSE) PROVE FALSE
      BY <3>1, Requested
    <3> QED BY <2>1, <3>1 DEF StatesRefused
  <2>3. revoked
    <3>1. waited \in Nat /\ GetTimeout \in Nat /\ waited <= GetTimeout
      BY CollectorAssumption DEF CollectorInv, Typed, CollectorTypeOK, CallsEnd, Calling, Limit
    <3> QED BY <2>2, <3>1 DEF CollectorInv, Tokens, TokenOutlivesRequest
  <2>4. attempt \in Nat /\ attempt > 0
    BY <2>2, CollectorAssumption DEF CollectorInv, Typed, CollectorTypeOK
  <2> QED BY <2>2, <2>3, <2>4 DEF CollectorInv, Tokens, TokensAgree
<1> QED BY <1>1, CollectorInvariance, PTL DEF CollectorSpec, RefusalNeedsRevocation

-----------------------------------------------------------------------------
\* What the second attempts of get_states can still take after attempt n.
RetryTime(n) == Monus(GetRetries, n) * (TokenTimeout + GetTimeout)

\* What a poll can take after a call of phase p.
TimeAfter(p, n) ==
  CASE p = "refreshing" -> GetTimeout + RetryTime(n) + SendTimeout + LogTimeout
    [] p = "getting" -> RetryTime(n) + SendTimeout + LogTimeout
    [] p = "posting" -> LogTimeout
    [] OTHER -> 0

LeftAt(p, w, n) == (Limit(p) - w) + TimeAfter(p, n)

\* The longest that run_once can still take.
TimeLeft == IF Calling THEN LeftAt(phase, waited, attempt) ELSE 0

PollTime == (1 + GetRetries) * (TokenTimeout + GetTimeout) + SendTimeout + LogTimeout

\* A second attempt takes its calls out of the time for such attempts.
LEMMA RetriesAreShared ==
  ASSUME NEW n \in Nat
  PROVE  /\ RetryTime(n) \in Nat
         /\ n < GetRetries => RetryTime(n) = RetryTime(n + 1) + TokenTimeout + GetTimeout
         /\ PollTime = TokenTimeout + GetTimeout + RetryTime(0) + SendTimeout + LogTimeout
<1> DEFINE c == TokenTimeout + GetTimeout
<1>1. c \in Nat /\ GetRetries \in Nat \ {0} /\ TokenTimeout \in Nat /\ GetTimeout \in Nat
      /\ SendTimeout \in Nat /\ LogTimeout \in Nat
  BY CollectorAssumption
<1>2. \A m, d \in Nat : m * d \in Nat /\ (1 + m) * d = m * d + d
  OBVIOUS
<1>3. Monus(GetRetries, n) \in Nat /\ Monus(GetRetries, 0) = GetRetries
  BY <1>1, MonusType DEF Monus
<1>4. n < GetRetries => Monus(GetRetries, n) = 1 + Monus(GetRetries, n + 1)
                        /\ Monus(GetRetries, n + 1) \in Nat
  BY <1>1 DEF Monus
<1> HIDE DEF c
<1>5. RetryTime(n) = Monus(GetRetries, n) * c /\ RetryTime(n + 1) = Monus(GetRetries, n + 1) * c
      /\ RetryTime(0) = GetRetries * c /\ PollTime = (1 + GetRetries) * c + SendTimeout + LogTimeout
  BY <1>3 DEF RetryTime, PollTime, c
<1>6. RetryTime(n) \in Nat
  BY <1>1, <1>2, <1>3, <1>5
<1>7. ASSUME n < GetRetries PROVE RetryTime(n) = RetryTime(n + 1) + TokenTimeout + GetTimeout
  <2>1. RetryTime(n) = RetryTime(n + 1) + c /\ RetryTime(n + 1) \in Nat
    BY <1>1, <1>2, <1>4, <1>5, <1>7
  <2> QED BY <1>1, <2>1 DEF c
<1>8. PollTime = c + RetryTime(0) + SendTimeout + LogTimeout
  <2>1. (1 + GetRetries) * c = RetryTime(0) + c /\ RetryTime(0) \in Nat
    BY <1>1, <1>2, <1>5
  <2> QED BY <1>1, <1>5, <2>1
<1> QED BY <1>1, <1>6, <1>7, <1>8 DEF c

\* A tick shortens what is left, and each call fits into what is left after the
\* one before.
LEMMA CallsFit ==
  ASSUME NEW p \in Phases \ {"asleep"}, NEW w \in Nat, w <= Limit(p), NEW n \in Nat
  PROVE  /\ LeftAt(p, w, n) \in Nat /\ TimeAfter(p, n) \in Nat
         /\ TimeAfter(p, n) <= LeftAt(p, w, n)
         /\ LeftAt(p, w + 1, n) = LeftAt(p, w, n) - 1
<1>1. Limit(p) \in Nat
  BY LimitType
<1>2. TimeAfter(p, n) \in Nat
  <2>1. RetryTime(n) \in Nat
    BY RetriesAreShared, ZenonT(30)
  <2>2. GetTimeout \in Nat /\ SendTimeout \in Nat /\ LogTimeout \in Nat
    BY CollectorAssumption
  <2> QED BY <2>1, <2>2 DEF TimeAfter
<1>3. \A l, t \in Nat : w <= l => /\ (l - w) + t \in Nat /\ t <= (l - w) + t
                                 /\ (l - (w + 1)) + t = ((l - w) + t) - 1
  OBVIOUS
<1> QED BY <1>1, <1>2, <1>3 DEF LeftAt

LEMMA NextCallFits ==
  ASSUME NEW n \in Nat
  PROVE  /\ LeftAt("getting", 0, n) <= TimeAfter("refreshing", n)
         /\ \A m : LeftAt("posting", 0, m) <= TimeAfter("getting", n)
         /\ \A m : \A p \in {"refreshing", "getting", "posting"} :
              LeftAt("logging", 0, m) <= TimeAfter(p, n)
         /\ n < GetRetries => /\ LeftAt("refreshing", 0, n + 1) <= TimeAfter("getting", n)
                              /\ LeftAt("getting", 0, n + 1) <= TimeAfter("getting", n)
         /\ LeftAt("refreshing", 0, 0) <= PollTime /\ LeftAt("getting", 0, 0) <= PollTime
<1>1. /\ TokenTimeout \in Nat /\ GetTimeout \in Nat /\ SendTimeout \in Nat /\ LogTimeout \in Nat
      /\ RetryTime(n) \in Nat /\ RetryTime(n + 1) \in Nat /\ RetryTime(0) \in Nat
  <2>1. n + 1 \in Nat /\ 0 \in Nat
    OBVIOUS
  <2>2. \A m \in Nat : RetryTime(m) \in Nat
    BY RetriesAreShared, ZenonT(30)
  <2> QED BY <2>1, <2>2, CollectorAssumption
<1>2. n < GetRetries => RetryTime(n) = RetryTime(n + 1) + TokenTimeout + GetTimeout
  BY RetriesAreShared, ZenonT(30)
<1>3. PollTime = TokenTimeout + GetTimeout + RetryTime(0) + SendTimeout + LogTimeout
  BY RetriesAreShared, ZenonT(30)
<1> HIDE DEF RetryTime, PollTime
<1> QED BY <1>1, <1>2, <1>3 DEF LeftAt, TimeAfter, Limit

\* How a step of the collector, or of OpenSky, moves a poll on.
LEMMA PollMoves ==
  ASSUME Typed, CollectorNext, Calling
  PROVE  \/ Elapse /\ UNCHANGED <<phase, attempt>> /\ waited' = waited + 1 /\ waited < Limit(phase)
         \/ ~Elapse /\ UNCHANGED <<phase, waited, attempt>>
         \/ ~Elapse /\ phase' = "asleep"
         \/ /\ ~Elapse /\ waited' = 0
            /\ \/ phase = "refreshing" /\ phase' = "getting" /\ attempt' = attempt
               \/ phase = "getting" /\ phase' = "posting"
               \/ phase \in {"refreshing", "getting", "posting"} /\ phase' = "logging"
         \/ /\ ~Elapse /\ waited' = 0 /\ phase = "getting" /\ attempt < GetRetries
            /\ attempt' = attempt + 1 /\ phase' \in {"refreshing", "getting"}
<1> USE DEF Calling
<1>1. CASE Elapse
  BY <1>1 DEF Elapse
<1>2. ~WakeUp
  BY DEF WakeUp
<1>3. CASE ~Elapse
  <2>1. CASE TokenIssued \/ Revoke
    BY <1>3, <2>1 DEF TokenIssued, Revoke, callVars
  <2>2. CASE TokenReceived \/ TokenFails
    BY <1>3, <2>2 DEF TokenReceived, TokenFails, Report, Goto
  <2>3. CASE StatesArrive \/ StatesFail
    BY <1>3, <2>3 DEF StatesArrive, StatesFail, EndCycle, Report, Goto
  <2>4. CASE StatesRefused
    BY <1>3, <2>4, Requested DEF StatesRefused, Report, Goto
  <2>5. CASE LogEnds \/ \E ok \in BOOLEAN : SendEnds(ok)
    BY <1>3, <2>5 DEF LogEnds, SendEnds, EndCycle, Report, Goto
  <2> QED BY <1>2, <1>3, <2>1, <2>2, <2>3, <2>4, <2>5 DEF CollectorNext, Fetch
<1> QED BY <1>1, <1>3

\* collector/: a poll takes (1 + max_retries) times both calls to OpenSky, a batch
\* and a log entry at most (75 s with the time-outs of the code), whatever fails,
\* is refused or is revoked: a tick takes one off what it can still take, and no
\* other step adds to it.
THEOREM PollsEnd ==
  CollectorSpec => /\ [](TimeLeft \in 0..PollTime)
                   /\ [][Calling => IF Elapse THEN TimeLeft' = TimeLeft - 1
                                              ELSE TimeLeft' <= TimeLeft]_collectorVars
<1> DEFINE Bound == TimeLeft \in 0..PollTime
<1>1. PollTime \in Nat
  <2>1. 0 \in Nat
    OBVIOUS
  <2>2. RetryTime(0) \in Nat
    BY <2>1, RetriesAreShared, ZenonT(30)
  <2>3. PollTime = TokenTimeout + GetTimeout + RetryTime(0) + SendTimeout + LogTimeout
    BY <2>1, RetriesAreShared, ZenonT(30)
  <2> QED BY <2>2, <2>3, CollectorAssumption
<1>2. CollectorInit => Bound
  BY <1>1 DEF CollectorInit, TimeLeft, Calling
<1>3. ASSUME CollectorInv, CollectorInv', CollectorNext, Calling
      PROVE  /\ TimeLeft \in Nat /\ TimeLeft' \in Nat
             /\ IF Elapse THEN TimeLeft' = TimeLeft - 1 ELSE TimeLeft' <= TimeLeft
  <2>1. /\ phase \in Phases \ {"asleep"} /\ waited \in Nat /\ waited <= Limit(phase)
        /\ attempt \in Nat
    BY <1>3 DEF CollectorInv, Typed, CollectorTypeOK, CallsEnd, Calling
  <2>2. /\ TimeLeft = LeftAt(phase, waited, attempt) /\ TimeLeft \in Nat
        /\ TimeAfter(phase, attempt) \in Nat /\ TimeAfter(phase, attempt) <= TimeLeft
        /\ LeftAt(phase, waited + 1, attempt) = TimeLeft - 1
    BY <1>3, <2>1, CallsFit DEF TimeLeft
  <2>3. TimeLeft' = IF phase' # "asleep" THEN LeftAt(phase', waited', attempt') ELSE 0
    BY DEF TimeLeft, Calling, LeftAt, TimeAfter, Limit
  <2>4. TimeLeft' \in Nat
    <3>1. CASE Calling'
      BY <1>3, <3>1, CallsFit DEF CollectorInv, Typed, CollectorTypeOK, CallsEnd, Calling, TimeLeft
    <3>2. CASE ~Calling'
      BY <3>2 DEF TimeLeft
    <3> QED BY <3>1, <3>2
  <2>5. CASE Elapse
    <3>1. UNCHANGED <<phase, attempt>> /\ waited' = waited + 1
      BY <1>3, <2>5, PollMoves DEF CollectorInv
    <3>2. TimeLeft' = LeftAt(phase, waited + 1, attempt)
      BY <1>3, <2>3, <3>1 DEF Calling
    <3>3. TimeLeft' = TimeLeft - 1
      BY <2>2, <3>2
    <3> QED BY <2>2, <2>4, <2>5, <3>3
  <2>6. ASSUME ~Elapse PROVE TimeLeft' <= TimeLeft
    <3>1. CASE UNCHANGED <<phase, waited, attempt>>
      BY <1>3, <2>2, <2>3, <3>1 DEF Calling
    <3>2. CASE phase' = "asleep"
      BY <2>2, <2>3, <3>2
    <3>3. CASE waited' = 0 /\ phase' # "asleep" /\ LeftAt(phase', 0, attempt') <= TimeAfter(phase, attempt)
      <4>1. TimeLeft' <= TimeAfter(phase, attempt)
        BY <2>3, <3>3
      <4> QED BY <4>1, <2>2, <2>4
    <3>4. CASE /\ waited' = 0
               /\ \/ phase = "refreshing" /\ phase' = "getting" /\ attempt' = attempt
                  \/ phase = "getting" /\ phase' = "posting"
                  \/ phase \in {"refreshing", "getting", "posting"} /\ phase' = "logging"
      BY <2>1, <3>3, <3>4, NextCallFits
    <3>5. CASE /\ waited' = 0 /\ phase = "getting" /\ attempt < GetRetries
               /\ attempt' = attempt + 1 /\ phase' \in {"refreshing", "getting"}
      BY <2>1, <3>3, <3>5, NextCallFits
    <3> QED BY <1>3, <2>6, <3>1, <3>2, <3>4, <3>5, PollMoves DEF CollectorInv
  <2> QED BY <2>2, <2>4, <2>5, <2>6
<1>4. ASSUME CollectorInv, CollectorInv', Bound, [CollectorNext]_collectorVars PROVE Bound'
  <2>1. CASE CollectorNext /\ Calling
    BY <1>1, <1>3, <1>4, <2>1
  <2>2. CASE CollectorNext /\ ~Calling
    <3>1. CASE WakeUp
      <4>1. waited' = 0 /\ attempt' = 0 /\ phase' \in {"refreshing", "getting"}
        BY <3>1, Requested DEF WakeUp
      <4>2. TimeLeft' = LeftAt(phase', 0, 0)
        BY <4>1 DEF TimeLeft, Calling, LeftAt, TimeAfter, Limit
      <4>3. LeftAt(phase', 0, 0) \in Nat
        BY <4>1, CallsFit, LimitType DEF Phases
      <4>4. LeftAt(phase', 0, 0) <= PollTime
        BY <4>1, NextCallFits
      <4> QED BY <1>1, <4>2, <4>3, <4>4
    <3>2. CASE Elapse \/ Revoke
      BY <1>4, <2>2, <3>2 DEF Elapse, Revoke, callVars, TimeLeft, Calling
    <3>3. ~(TokenIssued \/ TokenReceived \/ TokenFails \/ StatesArrive \/ StatesRefused
            \/ StatesFail \/ LogEnds \/ \E ok \in BOOLEAN : SendEnds(ok))
      BY <2>2 DEF Calling, TokenIssued, TokenReceived, TokenFails, StatesArrive,
         StatesRefused, StatesFail, LogEnds, SendEnds
    <3> QED BY <2>2, <3>1, <3>2, <3>3 DEF CollectorNext, Fetch
  <2>3. CASE UNCHANGED collectorVars
    BY <1>4, <2>3 DEF collectorVars, callVars, TimeLeft, Calling, LeftAt, TimeAfter, Limit
  <2> QED BY <1>4, <2>1, <2>2, <2>3
<1>5. ASSUME CollectorInv, CollectorInv', [CollectorNext]_collectorVars
      PROVE  [Calling => IF Elapse THEN TimeLeft' = TimeLeft - 1
                                   ELSE TimeLeft' <= TimeLeft]_collectorVars
  BY <1>3, <1>5
<1> HIDE DEF Bound
<1>6. CollectorSpec => []Bound
  BY <1>2, <1>4, CollectorInvariance, PTL DEF CollectorSpec
<1>7. CollectorSpec => [][Calling => IF Elapse THEN TimeLeft' = TimeLeft - 1
                                               ELSE TimeLeft' <= TimeLeft]_collectorVars
  BY <1>5, CollectorInvariance, PTL DEF CollectorSpec
<1> QED BY <1>6, <1>7 DEF Bound
=============================================================================
