------------------------- MODULE LoadBalancer_proofs -------------------------
(***************************************************************************)
(* Theorems about LoadBalancer: trust in a backend, safe retries and the   *)
(* fairness of the rotation, each with the invariant that makes it         *)
(* inductive.                                                              *)
(***************************************************************************)
EXTENDS LoadBalancer, TLAPS

\* The state machine of a backend and the checks it has passed: a pass is
\* either one begun since the failure, or the first one.
TrustState ==
  \A b \in Backends :
    /\ hstate[b] = "HEALTHY" => since[b] + 1 >= RecoveriesRequired
    /\ hstate[b] = "RECOVERING" => passes[b] <= since[b] + 1
    /\ passes[b] < RecoveriesRequired \/ hstate[b] = "RECOVERING"
    /\ hstate[b] # "RECOVERING" => passes[b] = 0

\* A check older than the failure finds its backend as the failure left it.
StaleCheck == chk.phase # "waiting" /\ ~fresh => hstate[chk.at] = "UNHEALTHY"

\* A handler at work has an unanswered request and attempts left for it.
AtWork ==
  /\ pc = "idle" <=> req = NoRequest
  /\ pc # "idle" => answer[req] = "none" /\ attempt <= AttemptsAllowed(req)
  /\ pc \in {"snapshot", "pick", "guard"} => sent < attempt
  /\ pc \in {"forwarding", "working"} => sent > 0 /\ sent <= attempt
  /\ pc = "idle" => sent = 0

\* Forwards bound what the backends received, request by request.
Received ==
  \A r \in Requests :
    /\ processed[r] <= AttemptsAllowed(r)
    /\ r = req => processed[r] <= sent
    /\ r = req /\ pc = "forwarding" => processed[r] < sent
    /\ r # req /\ answer[r] = "none" => processed[r] = 0
    /\ r \notin Retryable /\ answer[r] = "503" => processed[r] = 0

\* Every pick that passes a backend by brings the cycle a step nearer to it.
Rotation == \A c \in Backends : skipped[c] + Distance(c) < NumBackends

Inv ==
  /\ TypeOK
  /\ TrustState
  /\ StaleCheck
  /\ AtWork
  /\ Received
  /\ Rotation

-----------------------------------------------------------------------------
\* The attempts a request is allowed are one, or one and the retries.
LEMMA AttemptsType ==
  ASSUME NEW r \in Requests
  PROVE  /\ AttemptsAllowed(r) \in 1..(1 + MaxRetries)
         /\ r \notin Retryable => AttemptsAllowed(r) = 1
  BY ConstantsAssumption DEF AttemptsAllowed

\* A backend is less than one turn of the cycle away.
LEMMA DistanceType ==
  ASSUME TypeOK, NEW b \in Backends
  PROVE  Distance(b) \in 0..(NumBackends - 1)
  BY ConstantsAssumption DEF TypeOK, Backends, Distance

\* The initial state: all is healthy and nothing was asked.
LEMMA InitInv == Init => Inv
<1> SUFFICES ASSUME Init PROVE Inv
    OBVIOUS
<1> USE ConstantsAssumption DEF Init, InitialState
<1>1. TypeOK
      BY DEF TypeOK, CheckerType, HandlerType, Backends, States
<1>2. TrustState /\ StaleCheck
      BY DEF TrustState, StaleCheck
<1>3. AtWork
      BY DEF AtWork
<1>4. Received
      BY AttemptsType DEF Received
<1>5. Rotation
      BY DEF Rotation, Distance, Backends
<1> QED
    BY <1>1, <1>2, <1>3, <1>4, <1>5 DEF Inv

\* What a failure leaves of a backend's health.
LEMMA MarkTypes ==
  ASSUME CheckerType, NEW b \in Backends, MarkUnhealthy(b)
  PROVE  /\ hstate' \in [Backends -> States]
         /\ passes' \in [Backends -> 0..RecoveriesRequired]
         /\ since' \in [Backends -> 0..RecoveriesRequired]
<1> USE ConstantsAssumption DEF CheckerType, MarkUnhealthy
<1>1. hstate' \in [Backends -> States]
      BY DEF States
<1>2. passes' \in [Backends -> 0..RecoveriesRequired]
      OBVIOUS
<1>3. since' \in [Backends -> 0..RecoveriesRequired]
      OBVIOUS
<1> QED
    BY <1>1, <1>2, <1>3

\* A passing check keeps the types of the health it is recorded in.
LEMMA PassTypes ==
  ASSUME CheckerType, TrustState, NEW b \in Backends, Pass(b)
  PROVE  /\ hstate' \in [Backends -> States]
         /\ passes' \in [Backends -> 0..RecoveriesRequired]
         /\ since' \in [Backends -> 0..RecoveriesRequired]
<1> USE ConstantsAssumption DEF CheckerType, TrustState
<1>1. hstate' \in [Backends -> States]
      BY DEF Pass, States
<1>2. passes' \in [Backends -> 0..RecoveriesRequired]
  <2>1. CASE UNCHANGED passes
        BY <2>1
  <2>2. CASE passes' = [passes EXCEPT ![b] = 0]
        BY <2>2
  <2>3. CASE passes' = [passes EXCEPT ![b] = 1]
        BY <2>3
  <2>4. CASE passes[b] + 1 < RecoveriesRequired /\ passes' = [passes EXCEPT ![b] = @ + 1]
        BY <2>4
  <2> QED
      BY <2>1, <2>2, <2>3, <2>4 DEF Pass
<1>3. since' \in [Backends -> 0..RecoveriesRequired]
      BY DEF Pass, CountPass
<1> QED
    BY <1>1, <1>2, <1>3

\* An answer ends the handler's work.
LEMMA AnswerTypes ==
  ASSUME HandlerType, UNCHANGED processed,
         NEW what \in {"ok", "error", "502", "503"}, Answer(what)
  PROVE  HandlerType'
<1> USE ConstantsAssumption
<1>1. answer' \in [Requests -> {"none", "ok", "error", "502", "503"}]
      BY DEF HandlerType, Answer
<1>2. /\ pc' \in {"idle", "snapshot", "pick", "guard", "forwarding", "working"}
      /\ req' \in Requests \cup {NoRequest}
      BY DEF Answer
<1>3. attempt' \in 1..(1 + MaxRetries) /\ sent' \in 0..(1 + MaxRetries)
      BY DEF Answer
<1>4. snap' \subseteq Backends /\ attempted' \subseteq Backends /\ chosen' \in Backends
      BY DEF Answer, Backends
<1>5. processed' \in [Requests -> 0..(1 + MaxRetries)]
      BY DEF HandlerType
<1> QED
    BY <1>1, <1>2, <1>3, <1>4, <1>5 DEF HandlerType

\* So does the last failed attempt, and another one makes for the next.
LEMMA TryAgainTypes ==
  ASSUME HandlerType, UNCHANGED processed, req \in Requests, TryAgain
  PROVE  HandlerType'
<1>1. CASE Answer("502")
      BY <1>1, AnswerTypes
<1>2. CASE attempt < AttemptsAllowed(req) /\ ~Answer("502")
  <2>1. /\ attempt' = attempt + 1
        /\ pc' = "snapshot"
        /\ UNCHANGED <<req, snap, chosen, attempted, sent, answer, processed>>
        BY <1>2 DEF TryAgain
  <2>2. attempt' \in 1..(1 + MaxRetries)
        BY <1>2, <2>1, AttemptsType, ConstantsAssumption DEF HandlerType
  <2> QED
      BY <2>1, <2>2 DEF HandlerType
<1> QED
    BY <1>1, <1>2 DEF TryAgain

\* The checker's part of the types.
LEMMA CheckerKept ==
  TypeOK /\ TrustState /\ [Next]_vars => CheckerType'
<1> SUFFICES ASSUME TypeOK /\ TrustState, [Next]_vars PROVE CheckerType'
    OBVIOUS
<1> USE ConstantsAssumption DEF healthVars, handlerVars, routerVars, clientVars
<1>1. CASE StartRound
  <2>1. 1 \in Backends
        BY DEF Backends
  <2>2. /\ chk' = [phase |-> "probing", at |-> 1, ok |-> FALSE] /\ fresh' = TRUE
        /\ UNCHANGED <<hstate, passes, since>>
        BY <1>1 DEF StartRound, BeginCheck
  <2> QED
      BY <2>1, <2>2 DEF TypeOK, CheckerType
<1>2. CASE ProbePasses
      BY <1>2
         DEF ProbePasses, ProbeReturns, TypeOK, CheckerType, HandlerType, TrustState,
             Backends, States
<1>3. CASE ProbeFails
      BY <1>3
         DEF ProbeFails, ProbeReturns, Fault, TypeOK, CheckerType, HandlerType, TrustState,
             Backends, States
<1>4. CASE ApplyResult
  <2>1. CheckerType /\ chk.at \in Backends
        BY DEF TypeOK, CheckerType
  <2>2. /\ hstate' \in [Backends -> States]
        /\ passes' \in [Backends -> 0..RecoveriesRequired]
        /\ since' \in [Backends -> 0..RecoveriesRequired]
        BY <1>4, <2>1, PassTypes, MarkTypes DEF ApplyResult
  <2>3. fresh' \in BOOLEAN
        BY <1>4, <2>1 DEF ApplyResult, BeginCheck, CheckerType
  <2>4. chk' \in [phase : {"waiting", "probing", "apply"}, at : Backends, ok : BOOLEAN]
    <3>1. CASE chk.at < NumBackends
      <4>1. chk.at + 1 \in Backends
            BY <2>1, <3>1 DEF Backends
      <4>2. chk' = [phase |-> "probing", at |-> chk.at + 1, ok |-> FALSE]
            BY <1>4, <3>1 DEF ApplyResult, BeginCheck
      <4> QED
          BY <4>1, <4>2
    <3>2. CASE ~(chk.at < NumBackends)
      <4>1. chk' = [chk EXCEPT !.phase = "waiting"]
            BY <1>4, <3>2 DEF ApplyResult
      <4> QED
          BY <2>1, <4>1 DEF CheckerType
    <3> QED
        BY <3>1, <3>2
  <2> QED
      BY <2>2, <2>3, <2>4 DEF CheckerType
<1>5. CASE TakeSnapshot
      BY <1>5
         DEF TakeSnapshot, Healthy, Answer, TypeOK, CheckerType, HandlerType, TrustState,
             Backends, States
<1>6. CASE Pick
      BY <1>6 DEF Pick, TypeOK, CheckerType, HandlerType, TrustState, Backends, States
<1>7. CASE SkipRepeat
      BY <1>7
         DEF SkipRepeat, TryAgain, Answer, TypeOK, CheckerType, HandlerType, TrustState,
             Backends, States
<1>8. CASE Forward
      BY <1>8 DEF Forward, TypeOK, CheckerType, HandlerType, TrustState, Backends, States
<1>9. CASE Receive
      BY <1>9 DEF Receive, TypeOK, CheckerType, HandlerType, TrustState, Backends, States
<1>10. CASE Respond
      BY <1>10
         DEF Respond, Answer, Fault, TypeOK, CheckerType, HandlerType, TrustState, Backends,
             States
<1>11. CASE ForwardFails
  <2>1. CheckerType /\ chosen \in Backends
        BY DEF TypeOK, HandlerType
  <2>2. MarkUnhealthy(chosen) /\ UNCHANGED chk /\ fresh' \in BOOLEAN
        BY <1>11, <2>1 DEF ForwardFails, CheckerType
  <2>3. /\ hstate' \in [Backends -> States]
        /\ passes' \in [Backends -> 0..RecoveriesRequired]
        /\ since' \in [Backends -> 0..RecoveriesRequired]
        BY <2>1, <2>2, MarkTypes
  <2> QED
      BY <2>1, <2>2, <2>3 DEF CheckerType
<1>12. ASSUME NEW r \in Requests, BeginRequest(r) PROVE CheckerType'
      BY <1>12 DEF BeginRequest, TypeOK, CheckerType, HandlerType, TrustState, Backends, States
<1>13. ASSUME NEW b \in Backends, Crash(b) PROVE CheckerType'
      BY <1>13 DEF Crash, Fault, TypeOK, CheckerType, HandlerType, TrustState, Backends, States
<1>14. ASSUME NEW b \in Backends, Restart(b) PROVE CheckerType'
      BY <1>14 DEF Restart, TypeOK, CheckerType, HandlerType, TrustState, Backends, States
<1>15. CASE UNCHANGED vars
      BY <1>15 DEF vars, TypeOK, CheckerType, HandlerType, TrustState, Backends, States
<1> QED
    BY <1>1, <1>2, <1>3, <1>4, <1>5, <1>6, <1>7, <1>8,
       <1>9, <1>10, <1>11, <1>12, <1>13, <1>14, <1>15 DEF Next, Check, Handle

\* The handler's part of the types.
LEMMA HandlerKept ==
  TypeOK /\ AtWork /\ Received /\ [Next]_vars => HandlerType'
<1> SUFFICES ASSUME TypeOK /\ AtWork /\ Received, [Next]_vars PROVE HandlerType'
    OBVIOUS
<1> USE ConstantsAssumption DEF healthVars, handlerVars, routerVars, clientVars
<1>1. CASE StartRound
      BY <1>1, AttemptsType
         DEF StartRound, BeginCheck, TypeOK, HandlerType, AtWork, Received, Backends
<1>2. CASE ProbePasses
      BY <1>2, AttemptsType
         DEF ProbePasses, ProbeReturns, TypeOK, HandlerType, AtWork, Received, Backends
<1>3. CASE ProbeFails
      BY <1>3, AttemptsType
         DEF ProbeFails, ProbeReturns, Fault, TypeOK, HandlerType, AtWork, Received, Backends
<1>4. CASE ApplyResult
      BY <1>4, AttemptsType
         DEF ApplyResult, Pass, CountPass, MarkUnhealthy, BeginCheck, TypeOK, HandlerType,
             AtWork, Received, Backends
<1>5. CASE TakeSnapshot
  <2>1. HandlerType /\ Healthy \subseteq Backends
        BY DEF TypeOK, Healthy
  <2>2. CASE Answer("503")
        BY <1>5, <2>1, <2>2, AnswerTypes DEF TakeSnapshot
  <2>3. CASE /\ snap' = Healthy /\ pc' = "pick"
             /\ UNCHANGED <<req, attempt, chosen, attempted, sent, answer>>
        BY <1>5, <2>1, <2>3 DEF TakeSnapshot, HandlerType
  <2> QED
      BY <1>5, <2>2, <2>3 DEF TakeSnapshot
<1>6. CASE Pick
      BY <1>6, AttemptsType DEF Pick, TypeOK, HandlerType, AtWork, Received, Backends
<1>7. CASE SkipRepeat
  <2>1. HandlerType /\ req \in Requests
        BY <1>7 DEF SkipRepeat, TypeOK, HandlerType, AtWork
  <2> QED
      BY <1>7, <2>1, TryAgainTypes DEF SkipRepeat
<1>8. CASE Forward
      BY <1>8, AttemptsType DEF Forward, TypeOK, HandlerType, AtWork, Received, Backends
<1>9. CASE Receive
  <2>1. HandlerType /\ req \in Requests /\ processed[req] < sent
        BY <1>9 DEF Receive, TypeOK, HandlerType, AtWork, Received
  <2>2. processed[req] + 1 \in 0..(1 + MaxRetries)
        BY <2>1 DEF HandlerType
  <2>3. processed' \in [Requests -> 0..(1 + MaxRetries)]
        BY <1>9, <2>1, <2>2 DEF Receive, HandlerType
  <2>4. pc' = "working" /\ UNCHANGED <<req, attempt, snap, chosen, attempted, sent, answer>>
        BY <1>9 DEF Receive
  <2> QED
      BY <2>1, <2>3, <2>4 DEF HandlerType
<1>10. CASE Respond
  <2>1. HandlerType
        BY DEF TypeOK
  <2> QED
      BY <1>10, <2>1, AnswerTypes DEF Respond
<1>11. CASE ForwardFails
  <2>1. HandlerType /\ req \in Requests
        BY <1>11 DEF ForwardFails, TypeOK, HandlerType, AtWork
  <2> QED
      BY <1>11, <2>1, TryAgainTypes DEF ForwardFails
<1>12. ASSUME NEW r \in Requests, BeginRequest(r) PROVE HandlerType'
      BY <1>12, AttemptsType DEF BeginRequest, TypeOK, HandlerType, AtWork, Received, Backends
<1>13. ASSUME NEW b \in Backends, Crash(b) PROVE HandlerType'
      BY <1>13, AttemptsType DEF Crash, Fault, TypeOK, HandlerType, AtWork, Received, Backends
<1>14. ASSUME NEW b \in Backends, Restart(b) PROVE HandlerType'
      BY <1>14, AttemptsType DEF Restart, TypeOK, HandlerType, AtWork, Received, Backends
<1>15. CASE UNCHANGED vars
      BY <1>15, AttemptsType DEF vars, TypeOK, HandlerType, AtWork, Received, Backends
<1> QED
    BY <1>1, <1>2, <1>3, <1>4, <1>5, <1>6, <1>7, <1>8,
       <1>9, <1>10, <1>11, <1>12, <1>13, <1>14, <1>15 DEF Next, Check, Handle

\* The rest of the types.
LEMMA TypesKept ==
  TypeOK /\ CheckerType' /\ HandlerType' /\ [Next]_vars => TypeOK'
<1> SUFFICES ASSUME TypeOK /\ CheckerType' /\ HandlerType', [Next]_vars PROVE TypeOK'
    OBVIOUS
<1> USE ConstantsAssumption DEF healthVars, handlerVars, routerVars, clientVars
<1>1. CASE StartRound
  <2>1. UNCHANGED <<alive, turn, skipped, faults>>
        BY <1>1 DEF StartRound, routerVars
  <2> QED
      BY <2>1 DEF TypeOK
<1>2. CASE ProbePasses
  <2>1. UNCHANGED <<alive, turn, skipped, faults>>
        BY <1>2 DEF ProbePasses, ProbeReturns, routerVars
  <2> QED
      BY <2>1 DEF TypeOK
<1>3. CASE ProbeFails
  <2>1. faults' \in 0..FaultBudget
        BY <1>3 DEF TypeOK, ProbeFails, ProbeReturns, Fault
  <2>2. UNCHANGED <<alive, turn, skipped>>
        BY <1>3 DEF ProbeFails, ProbeReturns, routerVars
  <2> QED
      BY <2>1, <2>2 DEF TypeOK
<1>4. CASE ApplyResult
  <2>1. UNCHANGED <<alive, turn, skipped, faults>>
        BY <1>4 DEF ApplyResult, routerVars
  <2> QED
      BY <2>1 DEF TypeOK
<1>5. CASE TakeSnapshot
  <2>1. UNCHANGED <<alive, turn, skipped, faults>>
        BY <1>5 DEF TakeSnapshot, routerVars
  <2> QED
      BY <2>1 DEF TypeOK
<1>6. CASE Pick
  <2>1. UNCHANGED <<alive, faults>>
        BY <1>6 DEF Pick
  <2>2. turn' \in Backends
        BY <1>6 DEF Pick, After, TypeOK, HandlerType, Backends
  <2>3. skipped' \in [Backends -> Nat]
        BY <1>6 DEF Pick, TypeOK
  <2> QED
      BY <2>1, <2>2, <2>3 DEF TypeOK
<1>7. CASE SkipRepeat
  <2>1. UNCHANGED <<alive, turn, skipped, faults>>
        BY <1>7 DEF SkipRepeat, routerVars
  <2> QED
      BY <2>1 DEF TypeOK
<1>8. CASE Forward
  <2>1. UNCHANGED <<alive, turn, skipped, faults>>
        BY <1>8 DEF Forward, routerVars
  <2> QED
      BY <2>1 DEF TypeOK
<1>9. CASE Receive
  <2>1. UNCHANGED <<alive, turn, skipped, faults>>
        BY <1>9 DEF Receive, routerVars
  <2> QED
      BY <2>1 DEF TypeOK
<1>10. CASE Respond
  <2>1. faults' \in 0..FaultBudget
        BY <1>10 DEF TypeOK, Respond, Fault
  <2>2. UNCHANGED <<alive, turn, skipped>>
        BY <1>10 DEF Respond, routerVars
  <2> QED
      BY <2>1, <2>2 DEF TypeOK
<1>11. CASE ForwardFails
  <2>1. faults' \in 0..FaultBudget
        BY <1>11 DEF TypeOK, ForwardFails, Fault
  <2>2. UNCHANGED <<alive, turn, skipped>>
        BY <1>11 DEF ForwardFails, routerVars
  <2> QED
      BY <2>1, <2>2 DEF TypeOK
<1>12. ASSUME NEW r \in Requests, BeginRequest(r) PROVE TypeOK'
  <2>1. UNCHANGED <<alive, turn, skipped, faults>>
        BY <1>12 DEF BeginRequest, routerVars
  <2> QED
      BY <2>1 DEF TypeOK
<1>13. ASSUME NEW b \in Backends, Crash(b) PROVE TypeOK'
  <2>1. faults' \in 0..FaultBudget
        BY <1>13 DEF Crash, Fault, TypeOK
  <2>2. alive' \subseteq Backends /\ UNCHANGED <<turn, skipped>>
        BY <1>13 DEF Crash, routerVars, TypeOK
  <2> QED
      BY <2>1, <2>2 DEF TypeOK
<1>14. ASSUME NEW b \in Backends, Restart(b) PROVE TypeOK'
  <2>1. alive' \subseteq Backends /\ UNCHANGED <<turn, skipped, faults>>
        BY <1>14 DEF Restart, routerVars, TypeOK
  <2> QED
      BY <2>1 DEF TypeOK
<1>15. CASE UNCHANGED vars
      BY <1>15 DEF vars, TypeOK
<1> QED
    BY <1>1, <1>2, <1>3, <1>4, <1>5, <1>6, <1>7, <1>8,
       <1>9, <1>10, <1>11, <1>12, <1>13, <1>14, <1>15 DEF Next, Check, Handle

\* A failure leaves nothing to trust.
LEMMA MarkHealth ==
  ASSUME CheckerType, TrustState, NEW b \in Backends, MarkUnhealthy(b)
  PROVE  TrustState'
<1> SUFFICES ASSUME NEW c \in Backends
             PROVE  /\ hstate'[c] = "HEALTHY" => since'[c] + 1 >= RecoveriesRequired
                    /\ hstate'[c] = "RECOVERING" => passes'[c] <= since'[c] + 1
                    /\ passes'[c] < RecoveriesRequired \/ hstate'[c] = "RECOVERING"
                    /\ hstate'[c] # "RECOVERING" => passes'[c] = 0
    BY DEF TrustState
<1>1. CASE c = b
      BY <1>1, ConstantsAssumption DEF CheckerType, MarkUnhealthy
<1>2. CASE c # b
      BY <1>2 DEF CheckerType, MarkUnhealthy, TrustState
<1> QED
    BY <1>1, <1>2

\* A passing check that began after the failure counts; an older one can only
\* be the first.
LEMMA PassHealth ==
  ASSUME CheckerType, TrustState, NEW b \in Backends, Pass(b),
         fresh \/ hstate[b] = "UNHEALTHY"
  PROVE  TrustState'
<1> SUFFICES ASSUME NEW c \in Backends
             PROVE  /\ hstate'[c] = "HEALTHY" => since'[c] + 1 >= RecoveriesRequired
                    /\ hstate'[c] = "RECOVERING" => passes'[c] <= since'[c] + 1
                    /\ passes'[c] < RecoveriesRequired \/ hstate'[c] = "RECOVERING"
                    /\ hstate'[c] # "RECOVERING" => passes'[c] = 0
    BY DEF TrustState
<1>1. CASE c # b
      BY <1>1 DEF CheckerType, Pass, CountPass, TrustState
<1>2. CASE c = b
  <2>1. /\ hstate[b] \in States
        /\ passes[b] \in 0..RecoveriesRequired
        /\ since[b] \in 0..RecoveriesRequired
        BY DEF CheckerType
  <2>2. /\ hstate[b] = "HEALTHY" => since[b] + 1 >= RecoveriesRequired
        /\ hstate[b] = "RECOVERING" => passes[b] <= since[b] + 1
        /\ passes[b] < RecoveriesRequired \/ hstate[b] = "RECOVERING"
        /\ hstate[b] # "RECOVERING" => passes[b] = 0
        BY DEF TrustState
  <2>3. since'[b] = IF fresh /\ since[b] < RecoveriesRequired THEN since[b] + 1 ELSE since[b]
        BY DEF Pass, CountPass, CheckerType
  <2>4. CASE hstate[b] = "HEALTHY"
    <3>1. hstate'[b] = "HEALTHY" /\ passes'[b] = passes[b]
          BY <2>4 DEF Pass
    <3> QED
        BY <1>2, <2>1, <2>2, <2>3, <2>4, <3>1, ConstantsAssumption
  <2>5. CASE hstate[b] = "UNHEALTHY"
    <3>1. hstate'[b] = "RECOVERING" /\ passes'[b] = 1
          BY <2>5 DEF Pass, CheckerType
    <3> QED
        BY <1>2, <2>1, <2>3, <3>1, ConstantsAssumption
  <2>6. CASE hstate[b] = "RECOVERING" /\ passes[b] + 1 >= RecoveriesRequired
    <3>1. hstate'[b] = "HEALTHY" /\ passes'[b] = 0
          BY <2>6 DEF Pass, CheckerType
    <3> QED
        BY <1>2, <2>1, <2>2, <2>3, <2>6, <3>1, ConstantsAssumption
  <2>7. CASE hstate[b] = "RECOVERING" /\ ~(passes[b] + 1 >= RecoveriesRequired)
    <3>1. hstate'[b] = "RECOVERING" /\ passes'[b] = passes[b] + 1
          BY <2>7 DEF Pass, CheckerType
    <3> QED
        BY <1>2, <2>1, <2>2, <2>3, <2>7, <3>1, ConstantsAssumption
  <2> QED
      BY <2>1, <2>4, <2>5, <2>6, <2>7 DEF States
<1> QED
    BY <1>1, <1>2

\* Trust is earned by checks.
LEMMA TrustKept ==
  TypeOK /\ TrustState /\ StaleCheck /\ [Next]_vars => TrustState'
<1> SUFFICES ASSUME TypeOK /\ TrustState /\ StaleCheck, [Next]_vars PROVE TrustState'
    OBVIOUS
<1> USE ConstantsAssumption DEF healthVars, handlerVars, routerVars, clientVars
<1>1. CASE StartRound
      BY <1>1 DEF StartRound, BeginCheck, TypeOK, CheckerType, TrustState
<1>2. CASE ProbePasses
      BY <1>2 DEF ProbePasses, ProbeReturns, TypeOK, CheckerType, TrustState
<1>3. CASE ProbeFails
      BY <1>3 DEF ProbeFails, ProbeReturns, Fault, TypeOK, CheckerType, TrustState
<1>4. CASE ApplyResult
  <2>1. CheckerType /\ chk.at \in Backends
        BY DEF TypeOK, CheckerType
  <2>2. CASE MarkUnhealthy(chk.at)
        BY <2>1, <2>2, MarkHealth
  <2>3. CASE Pass(chk.at)
    <3>1. fresh \/ hstate[chk.at] = "UNHEALTHY"
          BY <1>4 DEF ApplyResult, StaleCheck
    <3> QED
        BY <2>1, <2>3, <3>1, PassHealth
  <2> QED
      BY <1>4, <2>2, <2>3 DEF ApplyResult
<1>5. CASE TakeSnapshot
      BY <1>5 DEF TakeSnapshot, Healthy, Answer, TypeOK, CheckerType, TrustState
<1>6. CASE Pick
      BY <1>6 DEF Pick, TypeOK, CheckerType, TrustState
<1>7. CASE SkipRepeat
      BY <1>7 DEF SkipRepeat, TryAgain, Answer, TypeOK, CheckerType, TrustState
<1>8. CASE Forward
      BY <1>8 DEF Forward, TypeOK, CheckerType, TrustState
<1>9. CASE Receive
      BY <1>9 DEF Receive, TypeOK, CheckerType, TrustState
<1>10. CASE Respond
      BY <1>10 DEF Respond, Answer, Fault, TypeOK, CheckerType, TrustState
<1>11. CASE ForwardFails
  <2>1. CheckerType /\ chosen \in Backends
        BY DEF TypeOK, HandlerType
  <2> QED
      BY <1>11, <2>1, MarkHealth DEF ForwardFails
<1>12. ASSUME NEW r \in Requests, BeginRequest(r) PROVE TrustState'
      BY <1>12 DEF BeginRequest, TypeOK, CheckerType, TrustState
<1>13. ASSUME NEW b \in Backends, Crash(b) PROVE TrustState'
      BY <1>13 DEF Crash, Fault, TypeOK, CheckerType, TrustState
<1>14. ASSUME NEW b \in Backends, Restart(b) PROVE TrustState'
      BY <1>14 DEF Restart, TypeOK, CheckerType, TrustState
<1>15. CASE UNCHANGED vars
      BY <1>15 DEF vars, TypeOK, CheckerType, TrustState
<1> QED
    BY <1>1, <1>2, <1>3, <1>4, <1>5, <1>6, <1>7, <1>8,
       <1>9, <1>10, <1>11, <1>12, <1>13, <1>14, <1>15 DEF Next, Check, Handle

\* A failure leaves its backend UNHEALTHY until a check is applied.
LEMMA StaleKept ==
  TypeOK /\ StaleCheck /\ [Next]_vars => StaleCheck'
<1> SUFFICES ASSUME TypeOK /\ StaleCheck, [Next]_vars PROVE StaleCheck'
    OBVIOUS
<1> USE ConstantsAssumption DEF TypeOK, CheckerType, HandlerType, StaleCheck, Backends, States,
        healthVars, handlerVars, routerVars, clientVars
<1>1. CASE StartRound
      BY <1>1 DEF StartRound, BeginCheck
<1>2. CASE ProbePasses
      BY <1>2 DEF ProbePasses, ProbeReturns
<1>3. CASE ProbeFails
      BY <1>3 DEF ProbeFails, ProbeReturns, Fault
<1>4. CASE ApplyResult
      BY <1>4 DEF ApplyResult, Pass, CountPass, MarkUnhealthy, BeginCheck
<1>5. CASE TakeSnapshot
      BY <1>5 DEF TakeSnapshot, Healthy, Answer
<1>6. CASE Pick
      BY <1>6 DEF Pick
<1>7. CASE SkipRepeat
      BY <1>7 DEF SkipRepeat, TryAgain, Answer
<1>8. CASE Forward
      BY <1>8 DEF Forward
<1>9. CASE Receive
      BY <1>9 DEF Receive
<1>10. CASE Respond
      BY <1>10 DEF Respond, Answer, Fault
<1>11. CASE ForwardFails
      BY <1>11 DEF ForwardFails, MarkUnhealthy, TryAgain, Answer, Fault
<1>12. ASSUME NEW r \in Requests, BeginRequest(r) PROVE StaleCheck'
      BY <1>12 DEF BeginRequest
<1>13. ASSUME NEW b \in Backends, Crash(b) PROVE StaleCheck'
      BY <1>13 DEF Crash, Fault
<1>14. ASSUME NEW b \in Backends, Restart(b) PROVE StaleCheck'
      BY <1>14 DEF Restart
<1>15. CASE UNCHANGED vars
      BY <1>15 DEF vars, TypeOK, CheckerType, HandlerType, StaleCheck, Backends, States
<1> QED
    BY <1>1, <1>2, <1>3, <1>4, <1>5, <1>6, <1>7, <1>8,
       <1>9, <1>10, <1>11, <1>12, <1>13, <1>14, <1>15 DEF Next, Check, Handle

\* The handler's loop.
LEMMA WorkKept ==
  TypeOK /\ AtWork /\ [Next]_vars => AtWork'
<1> SUFFICES ASSUME TypeOK /\ AtWork, [Next]_vars PROVE AtWork'
    OBVIOUS
<1> USE ConstantsAssumption DEF TypeOK, HandlerType, AtWork, AttemptsAllowed,
        healthVars, handlerVars, routerVars, clientVars
<1>1. CASE StartRound
      BY <1>1, AttemptsType DEF StartRound, BeginCheck
<1>2. CASE ProbePasses
      BY <1>2, AttemptsType DEF ProbePasses, ProbeReturns
<1>3. CASE ProbeFails
      BY <1>3, AttemptsType DEF ProbeFails, ProbeReturns, Fault
<1>4. CASE ApplyResult
      BY <1>4, AttemptsType DEF ApplyResult, Pass, CountPass, MarkUnhealthy, BeginCheck
<1>5. CASE TakeSnapshot
      BY <1>5, AttemptsType DEF TakeSnapshot, Healthy, Answer
<1>6. CASE Pick
      BY <1>6, AttemptsType DEF Pick
<1>7. CASE SkipRepeat
      BY <1>7, AttemptsType DEF SkipRepeat, TryAgain, Answer
<1>8. CASE Forward
      BY <1>8, AttemptsType DEF Forward
<1>9. CASE Receive
      BY <1>9, AttemptsType DEF Receive
<1>10. CASE Respond
      BY <1>10, AttemptsType DEF Respond, Answer, Fault
<1>11. CASE ForwardFails
      BY <1>11, AttemptsType DEF ForwardFails, MarkUnhealthy, TryAgain, Answer, Fault
<1>12. ASSUME NEW r \in Requests, BeginRequest(r) PROVE AtWork'
      BY <1>12, AttemptsType DEF BeginRequest
<1>13. ASSUME NEW b \in Backends, Crash(b) PROVE AtWork'
      BY <1>13, AttemptsType DEF Crash, Fault
<1>14. ASSUME NEW b \in Backends, Restart(b) PROVE AtWork'
      BY <1>14, AttemptsType DEF Restart
<1>15. CASE UNCHANGED vars
      BY <1>15, AttemptsType DEF vars, TypeOK, HandlerType, AtWork, AttemptsAllowed
<1> QED
    BY <1>1, <1>2, <1>3, <1>4, <1>5, <1>6, <1>7, <1>8,
       <1>9, <1>10, <1>11, <1>12, <1>13, <1>14, <1>15 DEF Next, Check, Handle

\* Every delivery is paid for with a forward.
LEMMA ReceivedKept ==
  TypeOK /\ AtWork /\ Received /\ [Next]_vars => Received'
<1> SUFFICES ASSUME TypeOK /\ AtWork /\ Received, [Next]_vars PROVE Received'
    OBVIOUS
<1> USE ConstantsAssumption DEF TypeOK, HandlerType, AtWork, Received,
        healthVars, handlerVars, routerVars, clientVars
<1>1. CASE StartRound
      BY <1>1, AttemptsType DEF StartRound, BeginCheck
<1>2. CASE ProbePasses
      BY <1>2, AttemptsType DEF ProbePasses, ProbeReturns
<1>3. CASE ProbeFails
      BY <1>3, AttemptsType DEF ProbeFails, ProbeReturns, Fault
<1>4. CASE ApplyResult
      BY <1>4, AttemptsType DEF ApplyResult, Pass, CountPass, MarkUnhealthy, BeginCheck
<1>5. CASE TakeSnapshot
      BY <1>5, AttemptsType DEF TakeSnapshot, Healthy, Answer
<1>6. CASE Pick
      BY <1>6, AttemptsType DEF Pick
<1>7. CASE SkipRepeat
      BY <1>7, AttemptsType DEF SkipRepeat, TryAgain, Answer
<1>8. CASE Forward
      BY <1>8, AttemptsType DEF Forward
<1>9. CASE Receive
      BY <1>9, AttemptsType DEF Receive
<1>10. CASE Respond
      BY <1>10, AttemptsType DEF Respond, Answer, Fault
<1>11. CASE ForwardFails
      BY <1>11, AttemptsType DEF ForwardFails, MarkUnhealthy, TryAgain, Answer, Fault
<1>12. ASSUME NEW r \in Requests, BeginRequest(r) PROVE Received'
      BY <1>12, AttemptsType DEF BeginRequest
<1>13. ASSUME NEW b \in Backends, Crash(b) PROVE Received'
      BY <1>13, AttemptsType DEF Crash, Fault
<1>14. ASSUME NEW b \in Backends, Restart(b) PROVE Received'
      BY <1>14, AttemptsType DEF Restart
<1>15. CASE UNCHANGED vars
      BY <1>15, AttemptsType DEF vars, TypeOK, HandlerType, AtWork, Received
<1> QED
    BY <1>1, <1>2, <1>3, <1>4, <1>5, <1>6, <1>7, <1>8,
       <1>9, <1>10, <1>11, <1>12, <1>13, <1>14, <1>15 DEF Next, Check, Handle

\* A pick that passes a backend by brings the cycle nearer to it.
LEMMA RotationKept ==
  TypeOK /\ Rotation /\ [Next]_vars => Rotation'
<1> SUFFICES ASSUME TypeOK /\ Rotation, [Next]_vars PROVE Rotation'
    OBVIOUS
<1> USE ConstantsAssumption DEF healthVars, handlerVars, routerVars, clientVars
<1>1. CASE StartRound
      BY <1>1 DEF StartRound, BeginCheck, TypeOK, Rotation, Distance, Backends
<1>2. CASE ProbePasses
      BY <1>2 DEF ProbePasses, ProbeReturns, TypeOK, Rotation, Distance, Backends
<1>3. CASE ProbeFails
      BY <1>3 DEF ProbeFails, ProbeReturns, Fault, TypeOK, Rotation, Distance, Backends
<1>4. CASE ApplyResult
      BY <1>4
         DEF ApplyResult, Pass, CountPass, MarkUnhealthy, BeginCheck, TypeOK, Rotation,
             Distance, Backends
<1>5. CASE TakeSnapshot
      BY <1>5 DEF TakeSnapshot, Healthy, Answer, TypeOK, Rotation, Distance, Backends
<1>6. CASE Pick
  <2> SUFFICES ASSUME NEW c \in Backends
               PROVE  skipped'[c] + Distance(c)' < NumBackends
      BY DEF Rotation
  <2>1. PICK b \in snap :
          /\ \A d \in snap : Distance(b) <= Distance(d)
          /\ turn' = After(b)
          /\ skipped' = [d \in Backends |-> IF d \in snap \ {b} THEN skipped[d] + 1 ELSE 0]
        BY <1>6 DEF Pick
  <2>2. b \in Backends /\ skipped[c] \in Nat /\ skipped[c] + Distance(c) < NumBackends
        BY <2>1 DEF TypeOK, HandlerType, Rotation
  <2>3. Distance(c)' \in 0..(NumBackends - 1)
        BY <2>1, <2>2 DEF Distance, After, Backends
  <2>4. CASE c \in snap \ {b}
    <3>1. Distance(b) <= Distance(c) /\ b # c
          BY <2>1, <2>4
    <3>2. Distance(c)' + 1 <= Distance(c)
          BY <2>1, <2>2, <3>1 DEF Distance, After, Backends, TypeOK
    <3>3. Distance(c) \in 0..(NumBackends - 1)
          BY DistanceType
    <3> QED
        BY <2>1, <2>2, <2>3, <2>4, <3>2, <3>3
  <2>5. CASE c \notin snap \ {b}
        BY <2>1, <2>3, <2>5
  <2> QED
      BY <2>4, <2>5
<1>7. CASE SkipRepeat
      BY <1>7 DEF SkipRepeat, TryAgain, Answer, TypeOK, Rotation, Distance, Backends
<1>8. CASE Forward
      BY <1>8 DEF Forward, TypeOK, Rotation, Distance, Backends
<1>9. CASE Receive
      BY <1>9 DEF Receive, TypeOK, Rotation, Distance, Backends
<1>10. CASE Respond
      BY <1>10 DEF Respond, Answer, Fault, TypeOK, Rotation, Distance, Backends
<1>11. CASE ForwardFails
      BY <1>11
         DEF ForwardFails, MarkUnhealthy, TryAgain, Answer, Fault, TypeOK, Rotation,
             Distance, Backends
<1>12. ASSUME NEW r \in Requests, BeginRequest(r) PROVE Rotation'
      BY <1>12 DEF BeginRequest, TypeOK, Rotation, Distance, Backends
<1>13. ASSUME NEW b \in Backends, Crash(b) PROVE Rotation'
      BY <1>13 DEF Crash, Fault, TypeOK, Rotation, Distance, Backends
<1>14. ASSUME NEW b \in Backends, Restart(b) PROVE Rotation'
      BY <1>14 DEF Restart, TypeOK, Rotation, Distance, Backends
<1>15. CASE UNCHANGED vars
      BY <1>15 DEF vars, TypeOK, Rotation, Distance, Backends
<1> QED
    BY <1>1, <1>2, <1>3, <1>4, <1>5, <1>6, <1>7, <1>8,
       <1>9, <1>10, <1>11, <1>12, <1>13, <1>14, <1>15 DEF Next, Check, Handle

-----------------------------------------------------------------------------
\* Every reachable state of every instance satisfies Inv.
THEOREM Invariance == Spec => []Inv
<1>1. Inv /\ [Next]_vars => Inv'
      BY CheckerKept, HandlerKept, TypesKept, TrustKept, StaleKept, WorkKept, ReceivedKept,
         RotationKept DEF Inv, TypeOK
<1> QED
    BY InitInv, <1>1, PTL DEF Spec

\* Type correctness of checker, router and handler.
THEOREM TypeCorrectness == Spec => []TypeOK
<1>1. Inv => TypeOK
      BY DEF Inv
<1> QED
    BY Invariance, <1>1, PTL

\* health.py: no backend is trusted again before its checks, all but the one
\* that may have been under way when it failed.
THEOREM TrustNeedsChecks == Spec => []TrustIsEarned
<1>1. Inv => TrustIsEarned
      BY DEF Inv, TrustState, TrustIsEarned
<1> QED
    BY Invariance, <1>1, PTL

\* server.py: a request without an idempotency key is never sent twice, and a
\* 503 means that it was not sent at all.
THEOREM SafeRetries == Spec => []NoUnsafeRepeat
<1>1. Inv => NoUnsafeRepeat
      BY AttemptsType DEF Inv, Received, NoUnsafeRepeat
<1> QED
    BY Invariance, <1>1, PTL

\* router.py: the cycle is fair among whatever sets of healthy backends it is
\* asked about.
THEOREM FairRotation == Spec => []RotationIsFair
<1>1. Inv => RotationIsFair
  <2> SUFFICES ASSUME Inv, NEW b \in Backends PROVE skipped[b] < NumBackends
      BY DEF RotationIsFair
  <2>1. Distance(b) \in 0..(NumBackends - 1) /\ skipped[b] \in Nat
        BY DistanceType DEF Inv, TypeOK
  <2>2. skipped[b] + Distance(b) < NumBackends
        BY DEF Inv, Rotation
  <2> QED
      BY <2>1, <2>2, ConstantsAssumption
<1> QED
    BY Invariance, <1>1, PTL

-----------------------------------------------------------------------------
(***************************************************************************)
(* The handler as a RequestProxy.                                          *)
(***************************************************************************)
\* What a backend's failure or an answer without one leaves of a request.
LEMMA AnswerFinishes ==
  ASSUME Inv, NEW what \in {"ok", "error", "502", "503"}, pc # "idle", Answer(what)
  PROVE  Proxy!Finish(Untaken)
<1>1. req \in Requests /\ req # NoRequest /\ answer \in [Requests -> {"none", "ok", "error", "502", "503"}]
  BY ConstantsAssumption DEF Inv, TypeOK, HandlerType, AtWork
<1>2. answer' = [answer EXCEPT ![req] = what] /\ req' = NoRequest /\ pc' = "idle" /\ sent' = 0
  BY DEF Answer
<1>3. Untaken' = Untaken
  <2>1. \A r \in Requests : r \in Untaken' <=> answer[r] = "none" /\ r # req
    BY <1>1, <1>2, ConstantsAssumption DEF Untaken
  <2>2. \A r \in Requests : r \in Untaken <=> answer[r] = "none" /\ r # req
    BY DEF Untaken
  <2>3. Untaken \subseteq Requests /\ Untaken' \subseteq Requests
    BY DEF Untaken
  <2> QED BY <2>1, <2>2, <2>3
<1>4. HandedTo' = NoBackend
  BY <1>2 DEF HandedTo, Calling
<1> QED BY <1>1, <1>2, <1>3, <1>4 DEF Proxy!Finish

\* A step that neither answers nor takes up a request leaves the others waiting.
LEMMA OthersWait ==
  ASSUME UNCHANGED <<req, answer>>
  PROVE  Untaken' = Untaken
BY DEF Untaken

\* What a handler may still do is within what RequestProxy allows it.
LEMMA AttemptsLeft ==
  ASSUME Inv, pc # "idle", sent < attempt \/ attempt < AttemptsAllowed(req)
  PROVE  sent < [r \in Requests |-> IF r \in Retryable THEN 1 + MaxRetries ELSE 1][req]
<1>1. /\ req \in Requests /\ sent \in Nat /\ attempt \in Nat
      /\ attempt <= AttemptsAllowed(req) /\ sent <= attempt
  BY ConstantsAssumption DEF Inv, TypeOK, HandlerType, AtWork
<1>2. AttemptsAllowed(req) = IF req \in Retryable THEN 1 + MaxRetries ELSE 1
  BY ConstantsAssumption DEF AttemptsAllowed
<1>3. AttemptsAllowed(req) \in Nat
  BY <1>1, AttemptsType, ConstantsAssumption
<1> QED BY <1>1, <1>2, <1>3

LEMMA TryAgainIsProxy ==
  ASSUME Inv, pc # "idle", TryAgain
  PROVE  \/ Proxy!Finish(Untaken)
         \/ Calling /\ Proxy!TakeBack
         \/ ~Calling /\ UNCHANGED Proxy!proxyVars
<1>1. CASE attempt < AttemptsAllowed(req)
  <2>1. pc' = "snapshot" /\ UNCHANGED <<req, answer, sent>>
    BY <1>1 DEF TryAgain
  <2>2. HandedTo' = NoBackend
    BY <2>1 DEF HandedTo, Calling
  <2>3. Untaken' = Untaken
    BY <2>1, OthersWait
  <2>4. CASE Calling
    <3>1. HandedTo # NoBackend
      BY <2>4 DEF HandedTo, NoBackend, Inv, TypeOK, HandlerType, Backends
    <3>2. sent < [r \in Requests |-> IF r \in Retryable THEN 1 + MaxRetries ELSE 1][req]
      BY <1>1, AttemptsLeft
    <3> QED BY <2>1, <2>2, <2>3, <2>4, <3>1, <3>2 DEF Proxy!TakeBack
  <2>5. CASE ~Calling
    BY <2>1, <2>2, <2>3, <2>5 DEF HandedTo, Proxy!proxyVars
  <2> QED BY <2>4, <2>5
<1>2. CASE ~(attempt < AttemptsAllowed(req))
  <2>1. Answer("502")
    BY <1>2 DEF TryAgain
  <2> QED BY <2>1, AnswerFinishes
<1> QED BY <1>1, <1>2

LEMMA ProxyStep ==
  ASSUME Inv, [Next]_vars
  PROVE  [Proxy!Next]_(Proxy!proxyVars)
<1> USE DEF healthVars, handlerVars, routerVars, clientVars
<1>1. ASSUME UNCHANGED <<req, answer, sent, chosen>>, Calling' = Calling
      PROVE  UNCHANGED Proxy!proxyVars
  BY <1>1, OthersWait DEF HandedTo, Proxy!proxyVars
<1>2. ASSUME Proxy!Finish(Untaken) PROVE Proxy!Next
  <2>1. Untaken \in SUBSET Requests
    BY DEF Untaken
  <2> QED BY <1>2, <2>1 DEF Proxy!Next
<1>3. CASE Check
  BY <1>1, <1>3
     DEF Check, StartRound, ProbePasses, ProbeFails, ProbeReturns, ApplyResult, Calling
<1>4. CASE TakeSnapshot
  <2>1. CASE Answer("503")
    BY <1>2, <1>4, <2>1, AnswerFinishes DEF TakeSnapshot
  <2>2. CASE pc' = "pick" /\ UNCHANGED <<req, attempt, chosen, attempted, sent, answer>>
    BY <1>1, <1>4, <2>2 DEF TakeSnapshot, Calling
  <2> QED BY <1>4, <2>1, <2>2 DEF TakeSnapshot
<1>5. CASE Pick
  <2>1. UNCHANGED <<req, answer, sent>> /\ ~Calling /\ ~Calling'
    BY <1>5 DEF Pick, Calling
  <2> QED BY <2>1, OthersWait DEF HandedTo, Proxy!proxyVars
<1>6. CASE SkipRepeat
  <2>1. pc # "idle" /\ ~Calling /\ TryAgain
    BY <1>6 DEF SkipRepeat, Calling
  <2> QED BY <1>2, <2>1, TryAgainIsProxy
<1>7. CASE Forward
  <2>1. /\ pc = "guard" /\ pc' = "forwarding" /\ sent' = sent + 1
        /\ UNCHANGED <<req, answer, chosen>>
    BY <1>7 DEF Forward
  <2>2. req # NoRequest /\ sent < attempt /\ chosen \in Backends
    BY <2>1 DEF Inv, AtWork, TypeOK, HandlerType
  <2>3. sent < [r \in Requests |-> IF r \in Retryable THEN 1 + MaxRetries ELSE 1][req]
    BY <2>1, <2>2, AttemptsLeft
  <2>4. HandedTo = NoBackend /\ HandedTo' = chosen
    BY <2>1 DEF HandedTo, Calling
  <2>5. Proxy!HandTo(chosen)
    BY <2>1, <2>2, <2>3, <2>4, OthersWait DEF Proxy!HandTo
  <2> QED BY <2>2, <2>5 DEF Proxy!Next
<1>8. CASE Receive
  BY <1>1, <1>8 DEF Receive, Calling
<1>9. CASE Respond
  <2>1. pc # "idle" /\ (Answer("ok") \/ Answer("error"))
    BY <1>9 DEF Respond
  <2> QED BY <1>2, <2>1, AnswerFinishes
<1>10. CASE ForwardFails
  <2>1. pc # "idle" /\ Calling /\ TryAgain
    BY <1>10 DEF ForwardFails, Calling
  <2> QED BY <1>2, <2>1, TryAgainIsProxy DEF Proxy!Next
<1>11. ASSUME NEW r \in Requests, BeginRequest(r) PROVE Proxy!Next
  <2>1. /\ pc = "idle" /\ pc' = "snapshot" /\ answer[r] = "none" /\ req' = r
        /\ sent' = 0 /\ UNCHANGED answer
    BY <1>11 DEF BeginRequest
  <2>2. req = NoRequest /\ sent = 0 /\ NoRequest \notin Requests
    BY <2>1, ConstantsAssumption DEF Inv, AtWork
  <2>3. r \in Untaken /\ Untaken' = Untaken \ {r}
    BY <2>1, <2>2 DEF Untaken
  <2>4. HandedTo = NoBackend /\ HandedTo' = NoBackend
    BY <2>1 DEF HandedTo, Calling
  <2>5. Proxy!Take(r)
    BY <2>1, <2>2, <2>3, <2>4 DEF Proxy!Take
  <2> QED BY <2>5 DEF Proxy!Next
<1>12. ASSUME NEW b \in Backends, Crash(b) \/ Restart(b) PROVE UNCHANGED Proxy!proxyVars
  BY <1>1, <1>12 DEF Crash, Restart, Calling
<1>13. CASE UNCHANGED vars
  BY <1>1, <1>13 DEF vars, Calling
<1> QED
  BY <1>3, <1>4, <1>5, <1>6, <1>7, <1>8, <1>9, <1>10, <1>11, <1>12, <1>13 DEF Next, Handle

\* server.py, proxy(): checks, snapshots, the rotation and skipped repeats are all
\* within what RequestProxy promises, for any numbers of backends and retries.
THEOREM ProxyIsImplemented == Spec => ImplementsProxy
<1>1. Init => Proxy!Init
  <2> SUFFICES ASSUME Init PROVE Proxy!Init
    OBVIOUS
  <2>1. Untaken = Requests
    BY ConstantsAssumption DEF Init, Untaken
  <2> QED BY <2>1 DEF Init, Proxy!Init, HandedTo, Calling
<1>2. Inv /\ [Next]_vars => [Proxy!Next]_(Proxy!proxyVars)
  BY ProxyStep
<1> QED BY <1>1, <1>2, Invariance, PTL DEF Spec, ImplementsProxy, Proxy!Spec
-----------------------------------------------------------------------------
(***************************************************************************)
(* No handler goes on for ever.  That it goes on at all is fairness, and   *)
(* TLC's; here is the measure that each of its steps lowers.               *)
(***************************************************************************)
StepsOfAttempt == CASE pc = "snapshot" -> 5 [] pc = "pick" -> 4 [] pc = "guard" -> 3
                    [] pc = "forwarding" -> 2 [] pc = "working" -> 1 [] OTHER -> 0

\* The steps the handler may still take: the rest of this attempt and all later ones.
StepsLeft == IF pc = "idle" THEN 0 ELSE 5 * (AttemptsAllowed(req) - attempt) + StepsOfAttempt

LEMMA StepsAreLeft ==
  ASSUME Inv
  PROVE  /\ StepsLeft \in 0..(5 * (1 + MaxRetries))
         /\ pc # "idle" => StepsLeft > 0
<1>1. CASE pc = "idle"
  BY <1>1, ConstantsAssumption DEF StepsLeft
<1>2. CASE pc # "idle"
  <2>1. req \in Requests /\ attempt <= AttemptsAllowed(req) /\ attempt \in Nat /\ attempt >= 1
    BY <1>2, ConstantsAssumption DEF Inv, TypeOK, HandlerType, AtWork
  <2>2. AttemptsAllowed(req) \in Nat /\ AttemptsAllowed(req) <= 1 + MaxRetries /\ MaxRetries \in Nat
    BY <2>1, AttemptsType, ConstantsAssumption
  <2>3. StepsOfAttempt \in 1..5
    BY <1>2 DEF StepsOfAttempt, Inv, TypeOK, HandlerType
  <2>4. StepsLeft = 5 * (AttemptsAllowed(req) - attempt) + StepsOfAttempt
    BY <1>2 DEF StepsLeft
  <2> QED BY <2>1, <2>2, <2>3, <2>4
<1> QED BY <1>1, <1>2

LEMMA AnswerEnds ==
  ASSUME Inv, pc # "idle", NEW what, Answer(what)
  PROVE  StepsLeft' < StepsLeft
<1>1. StepsLeft' = 0
  BY DEF Answer, StepsLeft
<1> QED BY <1>1, StepsAreLeft

LEMMA StepLeft ==
  ASSUME NEW m \in Nat, NEW n \in Nat
  PROVE  5 * (m - (n + 1)) + 5 = 5 * (m - n)
OBVIOUS

LEMMA TryAgainUsesUp ==
  ASSUME Inv, pc # "idle", TryAgain
  PROVE  StepsLeft' < StepsLeft
<1>1. CASE attempt < AttemptsAllowed(req)
  <2>1. attempt' = attempt + 1 /\ pc' = "snapshot" /\ req' = req
    BY <1>1 DEF TryAgain
  <2>2. req \in Requests /\ attempt \in Nat
    BY ConstantsAssumption DEF Inv, TypeOK, HandlerType, AtWork
  <2>3. AttemptsAllowed(req) \in Nat
    BY <2>2, AttemptsType, ConstantsAssumption
  <2>4. StepsLeft' = 5 * (AttemptsAllowed(req) - (attempt + 1)) + 5
    BY <2>1 DEF StepsLeft, StepsOfAttempt, AttemptsAllowed
  <2>5. StepsLeft = 5 * (AttemptsAllowed(req) - attempt) + StepsOfAttempt
    BY DEF StepsLeft
  <2>6. StepsOfAttempt \in 1..5
    BY DEF StepsOfAttempt, Inv, TypeOK, HandlerType
  <2> QED BY <2>2, <2>3, <2>4, <2>5, <2>6, StepLeft
<1>2. CASE ~(attempt < AttemptsAllowed(req))
  BY <1>2, AnswerEnds DEF TryAgain
<1> QED BY <1>1, <1>2

LEMMA OneStepLess ==
  ASSUME NEW n \in Nat, NEW k \in Nat, NEW l, l = k + 1
  PROVE  n + k < n + l
OBVIOUS

LEMMA HandleUsesUp ==
  ASSUME Inv, Handle
  PROVE  StepsLeft' < StepsLeft
<1>1. ASSUME UNCHANGED <<req, attempt>>, pc # "idle", pc' # "idle",
             StepsOfAttempt = StepsOfAttempt' + 1, StepsOfAttempt' \in Nat
      PROVE  StepsLeft' < StepsLeft
  <2>1. req \in Requests /\ attempt \in Nat /\ attempt <= AttemptsAllowed(req)
    BY <1>1, ConstantsAssumption DEF Inv, TypeOK, HandlerType, AtWork
  <2>2. AttemptsAllowed(req) \in Nat
    BY <2>1, AttemptsType, ConstantsAssumption
  <2> DEFINE n == 5 * (AttemptsAllowed(req) - attempt)
  <2>3. n \in Nat
    BY <2>1, <2>2
  <2>4. StepsLeft = n + StepsOfAttempt /\ StepsLeft' = n + StepsOfAttempt'
    BY <1>1 DEF StepsLeft, AttemptsAllowed
  <2> HIDE DEF n
  <2> QED BY <1>1, <2>3, <2>4, OneStepLess
<1>2. CASE TakeSnapshot
  <2>1. CASE Answer("503")
    BY <1>2, <2>1, AnswerEnds DEF TakeSnapshot
  <2>2. CASE pc' = "pick" /\ UNCHANGED <<req, attempt>>
    BY <1>1, <1>2, <2>2 DEF TakeSnapshot, StepsOfAttempt
  <2> QED BY <1>2, <2>1, <2>2 DEF TakeSnapshot
<1>3. CASE Pick \/ Forward \/ Receive
  <2>1. UNCHANGED <<req, attempt>>
    BY <1>3 DEF Pick, Forward, Receive
  <2>2. \/ pc = "pick" /\ pc' = "guard"
        \/ pc = "guard" /\ pc' = "forwarding"
        \/ pc = "forwarding" /\ pc' = "working"
    BY <1>3 DEF Pick, Forward, Receive
  <2> QED BY <1>1, <2>1, <2>2 DEF StepsOfAttempt
<1>4. CASE SkipRepeat \/ ForwardFails
  <2>1. pc # "idle" /\ TryAgain
    BY <1>4 DEF SkipRepeat, ForwardFails
  <2> QED BY <2>1, TryAgainUsesUp
<1>5. CASE Respond
  <2>1. pc # "idle" /\ (Answer("ok") \/ Answer("error"))
    BY <1>5 DEF Respond
  <2> QED BY <2>1, AnswerEnds
<1> QED BY <1>2, <1>3, <1>4, <1>5 DEF Handle

\* Nothing but its own steps, and the next request, moves the measure.
LEMMA OthersKeepSteps ==
  ASSUME [Next]_vars
  PROVE  Handle \/ pc = "idle" \/ StepsLeft' = StepsLeft
<1>1. ASSUME UNCHANGED handlerVars PROVE StepsLeft' = StepsLeft
  BY <1>1 DEF handlerVars, StepsLeft, StepsOfAttempt, AttemptsAllowed
<1>2. CASE Check
  BY <1>1, <1>2 DEF Check, StartRound, ProbePasses, ProbeFails, ProbeReturns, ApplyResult
<1>3. ASSUME NEW b \in Backends, Crash(b) \/ Restart(b) PROVE StepsLeft' = StepsLeft
  BY <1>1, <1>3 DEF Crash, Restart
<1>4. ASSUME NEW r \in Requests, BeginRequest(r) PROVE pc = "idle"
  BY <1>4 DEF BeginRequest
<1>5. CASE UNCHANGED vars
  BY <1>1, <1>5 DEF vars
<1> QED BY <1>2, <1>3, <1>4, <1>5 DEF Next

\* The retry loop of proxy() ends: each step of a handler leaves it fewer steps, out
\* of five for each of at most 1 + MAX_RETRIES attempts, and no step of the
\* checker, of a backend or of time gives it one back.
THEOREM HandlersEnd ==
  Spec => /\ [](StepsLeft \in 0..(5 * (1 + MaxRetries)))
          /\ [][\/ Handle /\ StepsLeft' < StepsLeft
                \/ ~Handle /\ (StepsLeft' = StepsLeft \/ pc = "idle")]_vars
<1>1. Inv => StepsLeft \in 0..(5 * (1 + MaxRetries))
  BY StepsAreLeft
<1>2. Inv /\ [Next]_vars
      => [\/ Handle /\ StepsLeft' < StepsLeft
          \/ ~Handle /\ (StepsLeft' = StepsLeft \/ pc = "idle")]_vars
  BY HandleUsesUp, OthersKeepSteps
<1> QED BY <1>1, <1>2, Invariance, PTL DEF Spec
=============================================================================
