---------------------- MODULE LoadBalancerFaults_proofs ----------------------
(***************************************************************************)
(* Theorems about what faults cost the clients of LoadBalancer: at most    *)
(* one failed forward each; nobody is turned away before there were as     *)
(* many of them as backends; and no error at all for a retryable request   *)
(* if only one backend is faulty.                                          *)
(***************************************************************************)
EXTENDS LoadBalancer_proofs, FiniteSetTheorems

\* Between two network calls of a request.
Deciding == pc \in {"snapshot", "pick", "guard"}

\* The first attempt of a request is not a repeat.
FirstAttempt == attempt = 1 /\ Deciding => attempted = {}

-----------------------------------------------------------------------------
(***************************************************************************)
(* The accounts.  A fault pays for one client's error.  Until it is spent, *)
(* it is charged to the backend that crashed and that may still be routed  *)
(* to, or it is the one that sent the request to another attempt.          *)
(***************************************************************************)
Routable(b) ==
  \/ hstate[b] = "HEALTHY"
  \/ hstate[b] = "RECOVERING" /\ chk.phase = "apply" /\ chk.at = b /\ chk.ok
  \/ pc = "pick" /\ b \in snap
  \/ (pc = "guard" \/ Calling) /\ b = chosen

Charged == {b \in Backends \ alive : Routable(b)}
Failed == {r \in Requests : answer[r] \in {"error", "502"}}
Carried == IF attempt > 1 THEN 1 ELSE 0

Accounts ==
  /\ IsFiniteSet(Failed)
  /\ Cardinality(Failed) + Cardinality(Charged) + Carried <= faults

-----------------------------------------------------------------------------
(***************************************************************************)
(* Suspects.  A backend is out of the rotation, or on its way out of it,   *)
(* by a fault of its own.  A backend that comes back and fails again does  *)
(* so by another fault, so that there are never more suspects than faults. *)
(***************************************************************************)
Suspected(b) ==
  \/ b \notin alive
  \/ hstate[b] # "HEALTHY"
  \/ chk.phase = "apply" /\ chk.at = b /\ ~chk.ok

Suspects == {b \in Backends : Suspected(b)}
TurnedAway == {r \in Requests : answer[r] = "503"}

RefusalsAccounted ==
  /\ Cardinality(Suspects) <= faults
  /\ TurnedAway # {} => faults >= NumBackends

-----------------------------------------------------------------------------
(***************************************************************************)
(* One faulty backend.                                                     *)
(***************************************************************************)
Sound == Backends \ Faulty

\* Out of the rotation, and the check of this round does not bring it back.
Away(b) ==
  \/ hstate[b] = "UNHEALTHY"
  \/ hstate[b] = "RECOVERING" /\ (chk.phase = "waiting" \/ chk.at > b)

\* Backends without faults stay in the rotation.
SoundIsHealthy ==
  /\ \A b \in Sound : b \in alive /\ hstate[b] = "HEALTHY"
  /\ chk.phase = "apply" /\ chk.at \in Sound => chk.ok

\* The faulty backend has failed the first attempt and gets no second one.
SecondAttempt ==
  /\ attempt = 1 /\ Calling => attempted = {chosen}
  /\ attempt > 1 /\ Deciding => attempted \subseteq Faulty /\ \A b \in Faulty : Away(b)
  /\ attempt > 1 /\ pc = "pick" => snap \subseteq Sound
  /\ attempt > 1 /\ (pc = "guard" \/ Calling) => chosen \in Sound

Masked == \A r \in Retryable : answer[r] \notin {"502", "503"}

MaskingInv == SoundIsHealthy /\ SecondAttempt /\ Masked

-----------------------------------------------------------------------------
(***************************************************************************)
(* Steps.                                                                  *)
(***************************************************************************)
\* Another attempt, or the end of the request.
LEMMA AttemptEnds ==
  ASSUME TypeOK, TryAgain
  PROVE  \/ /\ attempt < AttemptsAllowed(req)
            /\ attempt' = attempt + 1 /\ attempt' > 1
            /\ pc' = "snapshot"
            /\ UNCHANGED <<req, snap, chosen, attempted, answer>>
         \/ attempt >= AttemptsAllowed(req) /\ Answer("502")
<1>1. attempt \in Nat /\ attempt >= 1
  BY DEF TypeOK, HandlerType
<1>2. CASE attempt < AttemptsAllowed(req)
  BY <1>1, <1>2 DEF TryAgain
<1>3. CASE ~(attempt < AttemptsAllowed(req))
  <2>1. AttemptsAllowed(req) \in Nat
    BY ConstantsAssumption DEF AttemptsAllowed
  <2> QED BY <1>1, <1>3, <2>1 DEF TryAgain
<1> QED BY <1>2, <1>3

\* What an answer leaves behind.
LEMMA Answered ==
  ASSUME NEW what, Answer(what)
  PROVE  /\ pc' = "idle" /\ attempt' = 1 /\ attempted' = {} /\ snap' = {}
         /\ answer' = [answer EXCEPT ![req] = what]
BY DEF Answer

LEMMA FirstAttemptKept ==
  ASSUME TypeOK, FirstAttempt, [Next]_vars
  PROVE  FirstAttempt'
<1> USE DEF FirstAttempt, Deciding
<1>1. CASE Check
  BY <1>1 DEF Check, StartRound, ProbePasses, ProbeFails, ApplyResult, ProbeReturns, handlerVars
<1>2. ASSUME NEW what, Answer(what) PROVE FirstAttempt'
  BY <1>2, Answered
<1>3. ASSUME TryAgain PROVE FirstAttempt'
  BY <1>2, <1>3, AttemptEnds
<1>4. CASE TakeSnapshot
  BY <1>2, <1>4 DEF TakeSnapshot
<1>5. CASE Pick
  BY <1>5 DEF Pick
<1>6. CASE SkipRepeat
  BY <1>3, <1>6 DEF SkipRepeat
<1>7. CASE Forward \/ Receive
  BY <1>7 DEF Forward, Receive
<1>8. CASE Respond
  BY <1>2, <1>8 DEF Respond
<1>9. CASE ForwardFails
  BY <1>3, <1>9 DEF ForwardFails
<1>10. ASSUME NEW r \in Requests, BeginRequest(r) PROVE FirstAttempt'
  BY <1>10 DEF BeginRequest
<1>11. ASSUME NEW b \in Backends, Crash(b) \/ Restart(b) PROVE FirstAttempt'
  BY <1>11 DEF Crash, Restart, handlerVars
<1>12. CASE UNCHANGED vars
  BY <1>12 DEF vars, handlerVars
<1> QED
  BY <1>1, <1>4, <1>5, <1>6, <1>7, <1>8, <1>9, <1>10, <1>11, <1>12 DEF Next, Handle

-----------------------------------------------------------------------------
(***************************************************************************)
(* How the accounts move.                                                  *)
(***************************************************************************)
LEMMA ChargedIsFinite == IsFiniteSet(Charged)
<1>1. IsFiniteSet(1..NumBackends)
  BY ConstantsAssumption, FS_Interval
<1>2. Charged \subseteq 1..NumBackends
  BY DEF Charged, Backends
<1> QED BY <1>1, <1>2, FS_Subset

\* Nothing is charged that was not before.
LEMMA CheckCharges ==
  ASSUME TypeOK, Check
  PROVE  Charged' \subseteq Charged
<1> SUFFICES ASSUME NEW b \in Backends, b \notin alive', Routable(b)'
             PROVE  b \notin alive /\ Routable(b)
  BY DEF Charged
<1> USE DEF Routable, Calling
<1>1. alive' = alive /\ UNCHANGED <<pc, snap, chosen>>
  BY DEF Check, StartRound, ProbePasses, ProbeFails, ProbeReturns, ApplyResult, handlerVars
<1>2. CASE StartRound
  BY <1>1, <1>2 DEF StartRound, BeginCheck
<1>3. CASE ProbePasses
  BY <1>1, <1>3 DEF ProbePasses, ProbeReturns, healthVars, TypeOK, CheckerType
<1>4. CASE ProbeFails
  BY <1>1, <1>4 DEF ProbeFails, ProbeReturns, healthVars, TypeOK, CheckerType
<1>5. CASE ApplyResult
  <2>1. chk'.phase # "apply"
    BY <1>5 DEF ApplyResult, BeginCheck, TypeOK, CheckerType
  <2>2. hstate' \in [Backends -> States] /\ hstate \in [Backends -> States] /\ chk.at \in Backends
    BY <1>5, MarkTypes, PassTypes, ConstantsAssumption
       DEF ApplyResult, Pass, MarkUnhealthy, TypeOK, CheckerType, States
  <2>3. hstate'[b] = "HEALTHY" =>
          \/ hstate[b] = "HEALTHY"
          \/ hstate[b] = "RECOVERING" /\ chk.phase = "apply" /\ chk.at = b /\ chk.ok
    <3>1. CASE chk.ok
      BY <1>5, <2>2, <3>1 DEF ApplyResult, Pass
    <3>2. CASE ~chk.ok
      BY <1>5, <2>2, <3>2 DEF ApplyResult, MarkUnhealthy
    <3> QED BY <3>1, <3>2
  <2> QED BY <1>1, <2>1, <2>3
<1> QED BY <1>2, <1>3, <1>4, <1>5 DEF Check

\* Faults come with the checker's steps too, but cost nothing.
LEMMA CheckAccounts ==
  ASSUME TypeOK, Check
  PROVE  UNCHANGED <<answer, attempt>> /\ faults' \in Nat /\ faults' >= faults
<1>1. faults \in Nat
  BY ConstantsAssumption DEF TypeOK
<1> QED
  BY <1>1 DEF Check, StartRound, ProbePasses, ProbeFails, ProbeReturns, ApplyResult, Fault,
              handlerVars, clientVars

LEMMA Fewer ==
  ASSUME NEW S, IsFiniteSet(S), NEW T, T \subseteq S
  PROVE  /\ IsFiniteSet(T)
         /\ Cardinality(T) \in Nat /\ Cardinality(S) \in Nat
         /\ Cardinality(T) <= Cardinality(S)
BY FS_Subset, FS_CardinalityType

LEMMA OneMore ==
  ASSUME NEW S, IsFiniteSet(S), NEW x, NEW T, T \subseteq S \cup {x}
  PROVE  /\ IsFiniteSet(T)
         /\ Cardinality(T) \in Nat /\ Cardinality(S) \in Nat
         /\ Cardinality(T) <= Cardinality(S) + 1
<1>1. /\ IsFiniteSet(S \cup {x})
      /\ Cardinality(S \cup {x}) = IF x \in S THEN Cardinality(S) ELSE Cardinality(S) + 1
  BY FS_AddElement
<1>2. Cardinality(S) \in Nat
  BY FS_CardinalityType
<1>3. /\ IsFiniteSet(T) /\ Cardinality(T) \in Nat
      /\ Cardinality(T) <= Cardinality(S \cup {x})
  BY <1>1, Fewer
<1> QED BY <1>1, <1>2, <1>3

LEMMA OneLess ==
  ASSUME NEW S, IsFiniteSet(S), NEW x \in S, NEW T, T \subseteq S \ {x}
  PROVE  /\ Cardinality(T) \in Nat /\ Cardinality(S) \in Nat
         /\ Cardinality(T) + 1 <= Cardinality(S)
<1>1. IsFiniteSet(S \ {x}) /\ Cardinality(S \ {x}) = Cardinality(S) - 1
  BY FS_RemoveElement
<1>2. Cardinality(S) \in Nat
  BY FS_CardinalityType
<1>3. Cardinality(T) \in Nat /\ Cardinality(T) <= Cardinality(S \ {x})
  BY <1>1, Fewer
<1> QED BY <1>1, <1>2, <1>3

\* One answer is one client's error at most, and none if it is not one.
LEMMA AnswerBill ==
  ASSUME TypeOK, IsFiniteSet(Failed), NEW what, Answer(what)
  PROVE  /\ IsFiniteSet(Failed') /\ Carried' = 0
         /\ Cardinality(Failed') \in Nat /\ Cardinality(Failed) \in Nat
         /\ Cardinality(Failed') <= Cardinality(Failed) + 1
         /\ what \notin {"error", "502"} => Cardinality(Failed') <= Cardinality(Failed)
<1>1. answer' = [answer EXCEPT ![req] = what]
  BY Answered
<1>2. Failed' \subseteq Failed \cup {req}
  BY <1>1 DEF Failed, TypeOK, HandlerType
<1>3. what \notin {"error", "502"} => Failed' \subseteq Failed
  BY <1>1 DEF Failed, TypeOK, HandlerType
<1>4. Carried' = 0
  BY Answered DEF Carried
<1>5. /\ IsFiniteSet(Failed')
      /\ Cardinality(Failed') \in Nat /\ Cardinality(Failed) \in Nat
      /\ Cardinality(Failed') <= Cardinality(Failed) + 1
  BY <1>2, OneMore
<1>6. what \notin {"error", "502"} => Cardinality(Failed') <= Cardinality(Failed)
  BY <1>3, Fewer
<1> QED BY <1>4, <1>5, <1>6

\* Another attempt carries the fault that caused it; the last one is an error.
LEMMA AttemptBill ==
  ASSUME TypeOK, IsFiniteSet(Failed), TryAgain
  PROVE  /\ IsFiniteSet(Failed') /\ Carried' \in Nat
         /\ Cardinality(Failed') \in Nat /\ Cardinality(Failed) \in Nat
         /\ Cardinality(Failed') + Carried' <= Cardinality(Failed) + 1
<1>1. CASE Answer("502")
  BY <1>1, AnswerBill
<1>2. CASE attempt' > 1 /\ UNCHANGED answer
  <2>1. Failed' = Failed /\ Carried' = 1
    BY <1>2 DEF Failed, Carried
  <2>2. Cardinality(Failed) \in Nat
    BY FS_CardinalityType
  <2> QED BY <2>1, <2>2
<1> QED BY <1>1, <1>2, AttemptEnds

\* The handler's choices charge nobody who was not charged before.
LEMMA ChoiceCharges ==
  ASSUME TypeOK, TakeSnapshot \/ Pick \/ SkipRepeat \/ Forward \/ Receive \/ Respond
  PROVE  Charged' \subseteq Charged
<1> SUFFICES ASSUME NEW b \in Backends, b \notin alive', Routable(b)'
             PROVE  b \notin alive /\ Routable(b)
  BY DEF Charged
<1> USE DEF Routable, Calling
<1>1. UNCHANGED <<alive, hstate, chk>>
  BY DEF TakeSnapshot, Pick, SkipRepeat, Forward, Receive, Respond, healthVars
<1>2. ASSUME NEW what, Answer(what) PROVE Routable(b)
  BY <1>1, <1>2, Answered
<1>3. CASE TakeSnapshot
  BY <1>1, <1>2, <1>3 DEF TakeSnapshot, Healthy
<1>4. CASE Pick
  BY <1>1, <1>4 DEF Pick
<1>5. CASE SkipRepeat
  BY <1>1, <1>2, <1>5, AttemptEnds DEF SkipRepeat
<1>6. CASE Forward \/ Receive
  BY <1>1, <1>6 DEF Forward, Receive
<1>7. CASE Respond
  BY <1>1, <1>2, <1>7 DEF Respond
<1> QED BY <1>1, <1>3, <1>4, <1>5, <1>6, <1>7

\* A forward that fails takes its backend out of the rotation.
LEMMA FailureCharges ==
  ASSUME TypeOK, ForwardFails
  PROVE  Charged' \subseteq Charged \ {chosen}
<1> SUFFICES ASSUME NEW b \in Backends, b \notin alive', Routable(b)'
             PROVE  b # chosen /\ b \notin alive /\ Routable(b)
  BY DEF Charged
<1>1. alive' = alive /\ chk' = chk /\ hstate' = [hstate EXCEPT ![chosen] = "UNHEALTHY"]
  BY DEF ForwardFails, MarkUnhealthy
<1>2. chosen \in Backends /\ hstate \in [Backends -> States]
  BY DEF TypeOK, HandlerType, CheckerType
<1>3. pc' \in {"idle", "snapshot"}
  BY AttemptEnds, Answered DEF ForwardFails
<1>4. hstate'[b] # "UNHEALTHY"
  BY <1>3 DEF Routable, Calling
<1>5. b # chosen /\ hstate'[b] = hstate[b]
  BY <1>1, <1>2, <1>4
<1> QED BY <1>1, <1>3, <1>5 DEF Routable, Calling

\* A repeat is skipped only in an attempt that is not the first.
LEMMA SkipsAreRepeats ==
  ASSUME TypeOK, FirstAttempt, SkipRepeat
  PROVE  Carried = 1
<1>1. attempt \in Nat /\ attempt >= 1
  BY DEF TypeOK, HandlerType
<1> QED BY <1>1 DEF SkipRepeat, RepeatIsAvoidable, FirstAttempt, Deciding, Carried

LEMMA AccountsKept ==
  ASSUME TypeOK, FirstAttempt, Accounts, [Next]_vars
  PROVE  Accounts'
<1> DEFINE f == Cardinality(Failed)
           c == Cardinality(Charged)
           k == Carried
<1>1. /\ f \in Nat /\ c \in Nat /\ k \in Nat /\ k <= 1 /\ faults \in Nat
      /\ f + c + k <= faults /\ IsFiniteSet(Failed)
  <2>1. IsFiniteSet(Failed) /\ f + c + k <= faults
    BY DEF Accounts
  <2>2. f \in Nat /\ c \in Nat
    BY <2>1, ChargedIsFinite, FS_CardinalityType
  <2>3. k \in Nat /\ k <= 1
    BY DEF Carried
  <2>4. faults \in Nat
    BY ConstantsAssumption DEF TypeOK
  <2> QED BY <2>1, <2>2, <2>3, <2>4
<1>2. ASSUME UNCHANGED answer PROVE Failed' = Failed /\ f' = f
  BY <1>2 DEF Failed
<1>3. ASSUME Charged' \subseteq Charged PROVE c' \in Nat /\ c' <= c
  BY <1>3, ChargedIsFinite, Fewer
<1>4. ASSUME UNCHANGED <<answer, attempt>>, Charged' \subseteq Charged,
             faults' \in Nat, faults' >= faults
      PROVE  Accounts'
  <2>1. k' = k
    BY <1>4 DEF Carried
  <2> QED BY <1>1, <1>2, <1>3, <1>4, <2>1 DEF Accounts
<1>5. CASE Check
  BY <1>4, <1>5, CheckCharges, CheckAccounts
<1>6. CASE TakeSnapshot
  <2>1. Charged' \subseteq Charged /\ faults' = faults
    BY <1>6, ChoiceCharges DEF TakeSnapshot
  <2>2. CASE Answer("503")
    <3>1. IsFiniteSet(Failed') /\ f' \in Nat /\ f' <= f /\ k' = 0
      BY <1>1, <2>2, AnswerBill
    <3> QED BY <1>1, <1>3, <2>1, <3>1 DEF Accounts
  <2>3. CASE UNCHANGED <<answer, attempt>>
    BY <1>1, <1>4, <2>1, <2>3
  <2> QED BY <1>6, <2>2, <2>3 DEF TakeSnapshot
<1>7. CASE Pick \/ Forward \/ Receive
  <2>1. UNCHANGED <<answer, attempt, faults>>
    BY <1>7 DEF Pick, Forward, Receive, clientVars
  <2> QED BY <1>1, <1>4, <1>7, <2>1, ChoiceCharges
<1>8. CASE SkipRepeat
  <2>1. /\ IsFiniteSet(Failed') /\ f' \in Nat /\ k' \in Nat /\ f' + k' <= f + 1
        /\ k = 1 /\ faults' = faults
    BY <1>1, <1>8, AttemptBill, SkipsAreRepeats DEF SkipRepeat
  <2>2. c' \in Nat /\ c' <= c
    BY <1>3, <1>8, ChoiceCharges
  <2> QED BY <1>1, <2>1, <2>2 DEF Accounts
<1>9. CASE Respond
  <2>1. c' \in Nat /\ c' <= c
    BY <1>3, <1>9, ChoiceCharges
  <2>2. CASE Answer("ok") /\ UNCHANGED faults
    <3>1. IsFiniteSet(Failed') /\ f' \in Nat /\ f' <= f /\ k' = 0
      BY <1>1, <2>2, AnswerBill
    <3> QED BY <1>1, <2>1, <2>2, <3>1 DEF Accounts
  <2>3. CASE Fault /\ Answer("error")
    <3>1. IsFiniteSet(Failed') /\ f' \in Nat /\ f' <= f + 1 /\ k' = 0 /\ faults' = faults + 1
      BY <1>1, <2>3, AnswerBill DEF Fault
    <3> QED BY <1>1, <2>1, <3>1 DEF Accounts
  <2> QED BY <1>9, <2>2, <2>3 DEF Respond
<1>10. CASE ForwardFails
  <2>1. IsFiniteSet(Failed') /\ f' \in Nat /\ k' \in Nat /\ f' + k' <= f + 1
    BY <1>1, <1>10, AttemptBill DEF ForwardFails
  <2>2. CASE chosen \notin alive /\ UNCHANGED faults
    <3>1. chosen \in Charged
      BY <1>10, <2>2 DEF ForwardFails, Charged, Routable, Calling, TypeOK, HandlerType
    <3>2. c' \in Nat /\ c' + 1 <= c
      BY <1>10, <3>1, FailureCharges, ChargedIsFinite, OneLess
    <3> QED BY <1>1, <2>1, <2>2, <3>2 DEF Accounts
  <2>3. CASE Fault
    <3>1. Charged' \subseteq Charged
      BY <1>10, FailureCharges
    <3>2. c' \in Nat /\ c' <= c /\ faults' = faults + 1
      BY <1>3, <2>3, <3>1 DEF Fault
    <3> QED BY <1>1, <2>1, <3>2 DEF Accounts
  <2> QED BY <1>10, <2>2, <2>3 DEF ForwardFails
<1>11. ASSUME NEW r \in Requests, BeginRequest(r) PROVE Accounts'
  <2>1. UNCHANGED <<alive, hstate, chk, snap, chosen, answer, faults>> /\ pc' = "snapshot"
        /\ attempt' = 1
    BY <1>11 DEF BeginRequest, healthVars, clientVars
  <2>2. Charged' \subseteq Charged
    BY <2>1 DEF Charged, Routable, Calling
  <2>3. k' = 0
    BY <2>1 DEF Carried
  <2> QED BY <1>1, <1>2, <1>3, <2>1, <2>2, <2>3 DEF Accounts
<1>12. ASSUME NEW b \in Backends, Crash(b) PROVE Accounts'
  <2>1. /\ UNCHANGED <<hstate, chk, pc, snap, chosen, answer, attempt>>
        /\ alive' = alive \ {b} /\ faults' = faults + 1
    BY <1>12 DEF Crash, Fault, healthVars, handlerVars, clientVars
  <2>2. Charged' \subseteq Charged \cup {b}
    BY <2>1 DEF Charged, Routable, Calling
  <2>3. c' \in Nat /\ c' <= c + 1
    BY <2>2, ChargedIsFinite, OneMore
  <2>4. k' = k
    BY <2>1 DEF Carried
  <2> QED BY <1>1, <1>2, <2>1, <2>3, <2>4 DEF Accounts
<1>13. ASSUME NEW b \in Backends, Restart(b) PROVE Accounts'
  <2>1. /\ UNCHANGED <<hstate, chk, pc, snap, chosen, answer, attempt, faults>>
        /\ alive' = alive \cup {b}
    BY <1>13 DEF Restart, healthVars, handlerVars, clientVars
  <2>2. Charged' \subseteq Charged
    BY <2>1 DEF Charged, Routable, Calling
  <2> QED BY <1>1, <1>4, <2>1, <2>2
<1>14. CASE UNCHANGED vars
  <2>1. UNCHANGED <<alive, hstate, chk, pc, snap, chosen, answer, attempt, faults>>
    BY <1>14 DEF vars, healthVars, handlerVars, clientVars
  <2>2. Charged' \subseteq Charged
    BY <2>1 DEF Charged, Routable, Calling
  <2> QED BY <1>1, <1>4, <2>1, <2>2
<1> QED
  BY <1>5, <1>6, <1>7, <1>8, <1>9, <1>10, <1>11, <1>12, <1>13, <1>14 DEF Next, Handle

LEMMA AccountsInvariance == Spec => [](FirstAttempt /\ Accounts)
<1>1. Init => FirstAttempt
  BY DEF Init, FirstAttempt, Deciding
<1>2. Init => Accounts
  <2> SUFFICES ASSUME Init PROVE Accounts
    OBVIOUS
  <2>1. Failed = {} /\ Charged = {} /\ Carried = 0 /\ faults = 0
    BY DEF Init, InitialState, Failed, Charged, Carried
  <2> QED BY <2>1, FS_EmptySet DEF Accounts
<1> QED BY <1>1, <1>2, FirstAttemptKept, AccountsKept, TypeCorrectness, PTL DEF Spec

-----------------------------------------------------------------------------
(***************************************************************************)
(* How suspicion moves.                                                    *)
(***************************************************************************)
LEMMA BackendsAreCounted ==
  /\ IsFiniteSet(Backends) /\ Cardinality(Backends) = NumBackends
  /\ NumBackends \in Nat
<1>1. 1 \in Int /\ NumBackends \in Int /\ NumBackends \in Nat /\ ~(1 > NumBackends)
  BY ConstantsAssumption
<1>2. Cardinality(1..NumBackends) = (NumBackends - 1) + 1 /\ IsFiniteSet(1..NumBackends)
  BY <1>1, FS_Interval
<1> QED BY <1>1, <1>2 DEF Backends

LEMMA SuspectsAreFinite == IsFiniteSet(Suspects) /\ Cardinality(Suspects) \in Nat
<1>1. Suspects \subseteq Backends
  BY DEF Suspects
<1> QED BY <1>1, BackendsAreCounted, Fewer

\* A step of the checker suspects nobody new, or the backend whose probe a fault
\* made fail.
LEMMA CheckSuspects ==
  ASSUME TypeOK, Check
  PROVE  \/ Suspects' \subseteq Suspects /\ UNCHANGED faults
         \/ Suspects' \subseteq Suspects \cup {chk.at} /\ Fault
<1> USE DEF Suspects, Suspected
<1>1. /\ hstate \in [Backends -> States] /\ chk.at \in Backends
      /\ chk \in [phase : {"waiting", "probing", "apply"}, at : Backends, ok : BOOLEAN]
  BY DEF TypeOK, CheckerType
<1>2. CASE StartRound
  BY <1>2 DEF StartRound, BeginCheck
<1>3. CASE ProbePasses
  <2>1. UNCHANGED <<alive, hstate, faults>> /\ chk'.ok
    BY <1>1, <1>3 DEF ProbePasses, ProbeReturns, healthVars
  <2> QED BY <2>1
<1>4. CASE ProbeFails
  <2>1. UNCHANGED <<alive, hstate>> /\ chk'.at = chk.at
    BY <1>1, <1>4 DEF ProbeFails, ProbeReturns, healthVars
  <2>2. Suspects' \subseteq Suspects \cup {chk.at}
    BY <2>1
  <2>3. chk.at \notin alive => Suspects' \subseteq Suspects
    BY <1>1, <2>1
  <2> QED BY <1>4, <2>2, <2>3 DEF ProbeFails
<1>5. CASE ApplyResult
  <2>1. UNCHANGED <<alive, faults>> /\ chk.phase = "apply" /\ chk'.phase # "apply"
    BY <1>1, <1>5 DEF ApplyResult, BeginCheck
  <2>2. CASE chk.ok
    <3>1. \A b \in Backends : hstate[b] = "HEALTHY" => hstate'[b] = "HEALTHY"
      BY <1>1, <1>5, <2>2 DEF ApplyResult, Pass
    <3> QED BY <2>1, <3>1
  <2>3. CASE ~chk.ok
    <3>1. \A b \in Backends \ {chk.at} : hstate'[b] = hstate[b]
      BY <1>1, <1>5, <2>3 DEF ApplyResult, MarkUnhealthy
    <3> QED BY <2>1, <2>3, <3>1
  <2> QED BY <2>2, <2>3
<1> QED BY <1>2, <1>3, <1>4, <1>5 DEF Check

\* So does a forward that fails: a backend that is down is suspected already.
LEMMA FailureSuspects ==
  ASSUME TypeOK, ForwardFails
  PROVE  \/ Suspects' \subseteq Suspects /\ UNCHANGED faults
         \/ Suspects' \subseteq Suspects \cup {chosen} /\ Fault
<1> USE DEF Suspects, Suspected
<1>1. alive' = alive /\ chk' = chk /\ hstate' = [hstate EXCEPT ![chosen] = "UNHEALTHY"]
  BY DEF ForwardFails, MarkUnhealthy
<1>2. chosen \in Backends /\ hstate \in [Backends -> States]
  BY DEF TypeOK, HandlerType, CheckerType
<1>3. \A b \in Backends \ {chosen} : hstate'[b] = hstate[b]
  BY <1>1, <1>2
<1>4. Suspects' \subseteq Suspects \cup {chosen}
  BY <1>1, <1>3
<1>5. chosen \notin alive => Suspects' \subseteq Suspects
  BY <1>1, <1>2, <1>3
<1> QED BY <1>4, <1>5 DEF ForwardFails

\* The accounts of suspects balance if a step that suspects somebody is a fault and
\* nobody is turned away in it.
LEMMA SuspicionIsPaid ==
  ASSUME TypeOK, RefusalsAccounted, TurnedAway' \subseteq TurnedAway, NEW x,
         \/ Suspects' \subseteq Suspects /\ UNCHANGED faults
         \/ Suspects' \subseteq Suspects /\ Fault
         \/ Suspects' \subseteq Suspects \cup {x} /\ Fault
  PROVE  RefusalsAccounted'
<1> DEFINE c == Cardinality(Suspects)
<1>1. faults \in Nat /\ c \in Nat /\ NumBackends \in Nat /\ IsFiniteSet(Suspects)
  BY ConstantsAssumption, SuspectsAreFinite DEF TypeOK
<1>2. c <= faults /\ (TurnedAway # {} => faults >= NumBackends)
  BY DEF RefusalsAccounted
<1>3. CASE Suspects' \subseteq Suspects /\ UNCHANGED faults
  <2>1. c' \in Nat /\ c' <= c
    BY <1>1, <1>3, Fewer
  <2> QED BY <1>1, <1>2, <1>3, <2>1 DEF RefusalsAccounted
<1>4. CASE Suspects' \subseteq Suspects \cup {x} /\ Fault
  <2>1. c' \in Nat /\ c' <= c + 1
    BY <1>1, <1>4, OneMore
  <2>2. faults' = faults + 1
    BY <1>4 DEF Fault
  <2> QED BY <1>1, <1>2, <2>1, <2>2 DEF RefusalsAccounted
<1> QED BY <1>3, <1>4

\* An answer other than 503 turns nobody away.
LEMMA AnswersTurnNobodyAway ==
  ASSUME TypeOK, NEW what, Answer(what), what # "503"
  PROVE  TurnedAway' \subseteq TurnedAway
BY Answered DEF TurnedAway, TypeOK, HandlerType

LEMMA RefusalsAccountedKept ==
  ASSUME TypeOK, RefusalsAccounted, [Next]_vars
  PROVE  RefusalsAccounted'
<1>1. ASSUME UNCHANGED <<alive, hstate, chk>> PROVE Suspects' = Suspects
  BY <1>1 DEF Suspects, Suspected
<1>2. ASSUME UNCHANGED answer PROVE TurnedAway' = TurnedAway
  BY <1>2 DEF TurnedAway
<1>3. ASSUME TryAgain PROVE TurnedAway' \subseteq TurnedAway
  BY <1>2, <1>3, AttemptEnds, AnswersTurnNobodyAway
<1>4. CASE Check
  <2>1. UNCHANGED answer
    BY <1>4, CheckAccounts
  <2> QED BY <1>2, <1>4, <2>1, CheckSuspects, SuspicionIsPaid
<1>5. CASE TakeSnapshot
  <2>1. UNCHANGED <<alive, hstate, chk>> /\ faults' = faults
    BY <1>5 DEF TakeSnapshot, healthVars
  <2>2. CASE UNCHANGED answer
    BY <1>1, <1>2, <2>1, <2>2, SuspicionIsPaid
  <2>3. CASE Healthy = {}
    <3>1. Suspects = Backends
      BY <2>3 DEF Healthy, Suspects, Suspected
    <3>2. faults >= NumBackends
      BY <3>1, BackendsAreCounted DEF RefusalsAccounted
    <3> QED BY <1>1, <2>1, <3>2 DEF RefusalsAccounted
  <2> QED BY <1>5, <2>2, <2>3 DEF TakeSnapshot
<1>6. CASE Pick \/ Forward \/ Receive
  <2>1. UNCHANGED <<alive, hstate, chk>> /\ UNCHANGED answer /\ UNCHANGED faults
    BY <1>6 DEF Pick, Forward, Receive, healthVars, clientVars
  <2> QED BY <1>1, <1>2, <2>1, SuspicionIsPaid
<1>7. CASE SkipRepeat
  <2>1. UNCHANGED <<alive, hstate, chk>> /\ UNCHANGED faults
    BY <1>7 DEF SkipRepeat, healthVars
  <2> QED BY <1>1, <1>3, <1>7, <2>1, SuspicionIsPaid DEF SkipRepeat
<1>8. CASE Respond
  <2>1. UNCHANGED <<alive, hstate, chk>> /\ ((UNCHANGED faults) \/ Fault)
    BY <1>8 DEF Respond, healthVars
  <2>2. TurnedAway' \subseteq TurnedAway
    BY <1>8, AnswersTurnNobodyAway DEF Respond
  <2> QED BY <1>1, <2>1, <2>2, SuspicionIsPaid
<1>9. CASE ForwardFails
  <2>1. TurnedAway' \subseteq TurnedAway
    BY <1>3, <1>9 DEF ForwardFails
  <2> QED BY <1>9, <2>1, FailureSuspects, SuspicionIsPaid
<1>10. ASSUME NEW r \in Requests, BeginRequest(r) PROVE RefusalsAccounted'
  <2>1. UNCHANGED <<alive, hstate, chk>> /\ UNCHANGED answer /\ UNCHANGED faults
    BY <1>10 DEF BeginRequest, healthVars, clientVars
  <2> QED BY <1>1, <1>2, <2>1, SuspicionIsPaid
<1>11. ASSUME NEW b \in Backends, Crash(b) PROVE RefusalsAccounted'
  <2>1. alive' = alive \ {b} /\ UNCHANGED <<hstate, chk>> /\ UNCHANGED answer /\ Fault
    BY <1>11 DEF Crash, healthVars, clientVars
  <2>2. Suspects' \subseteq Suspects \cup {b}
    BY <2>1 DEF Suspects, Suspected
  <2> QED BY <1>2, <2>1, <2>2, SuspicionIsPaid
<1>12. ASSUME NEW b \in Backends, Restart(b) PROVE RefusalsAccounted'
  <2>1. /\ alive' = alive \cup {b} /\ UNCHANGED <<hstate, chk>> /\ UNCHANGED answer
        /\ UNCHANGED faults
    BY <1>12 DEF Restart, healthVars, clientVars
  <2>2. Suspects' \subseteq Suspects
    BY <2>1 DEF Suspects, Suspected
  <2> QED BY <1>2, <2>1, <2>2, SuspicionIsPaid
<1>13. CASE UNCHANGED vars
  <2>1. UNCHANGED <<alive, hstate, chk>> /\ UNCHANGED answer /\ UNCHANGED faults
    BY <1>13 DEF vars, healthVars, clientVars
  <2> QED BY <1>1, <1>2, <2>1, SuspicionIsPaid
<1> QED
  BY <1>4, <1>5, <1>6, <1>7, <1>8, <1>9, <1>10, <1>11, <1>12, <1>13 DEF Next, Handle

LEMMA RefusalsInvariance == Spec => []RefusalsAccounted
<1>1. Init => RefusalsAccounted
  <2> SUFFICES ASSUME Init PROVE RefusalsAccounted
    OBVIOUS
  <2>1. Suspects = {} /\ TurnedAway = {} /\ faults = 0
    BY DEF Init, InitialState, Suspects, Suspected, TurnedAway
  <2> QED BY <2>1, FS_EmptySet DEF RefusalsAccounted
<1> QED BY <1>1, RefusalsAccountedKept, TypeCorrectness, PTL DEF Spec

\* A crash, a stall or a 5xx answer costs one client the answer of a backend, and
\* no more: what it is charged to is gone once an error was answered.  A client is
\* turned away only when every backend is suspected, each by a fault of its own.
THEOREM FaultsAreContained == Spec => []FaultsBoundErrors
<1>1. Accounts /\ RefusalsAccounted /\ TypeOK => FaultsBoundErrors
  <2> SUFFICES ASSUME Accounts, RefusalsAccounted, TypeOK
               PROVE  /\ Cardinality(Failed) <= faults
                      /\ TurnedAway # {} => faults >= NumBackends
    BY DEF FaultsBoundErrors, Failed, TurnedAway
  <2>1. Cardinality(Failed) \in Nat /\ Cardinality(Charged) \in Nat /\ Carried \in Nat
    BY ChargedIsFinite, FS_CardinalityType DEF Accounts, Carried
  <2>2. faults \in Nat
    BY ConstantsAssumption DEF TypeOK
  <2> QED BY <2>1, <2>2 DEF Accounts, RefusalsAccounted
<1> QED BY <1>1, AccountsInvariance, RefusalsInvariance, TypeCorrectness, PTL

-----------------------------------------------------------------------------
(***************************************************************************)
(* How one faulty backend is masked.                                       *)
(***************************************************************************)
LEMMA SoundKept ==
  ASSUME TypeOK, SoundIsHealthy, [Next]_vars
  PROVE  SoundIsHealthy'
<1> USE DEF SoundIsHealthy, Sound
<1>1. hstate \in [Backends -> States] /\ chosen \in Backends /\ chk.at \in Backends
      /\ chk.phase \in {"waiting", "probing", "apply"}
  BY DEF TypeOK, HandlerType, CheckerType
<1>2. CASE StartRound
  BY <1>1, <1>2 DEF StartRound, BeginCheck
<1>3. CASE ProbePasses
  BY <1>1, <1>3 DEF ProbePasses, ProbeReturns, healthVars, TypeOK, CheckerType
<1>4. CASE ProbeFails
  <2>1. chk.at \notin Sound
    BY <1>1, <1>4 DEF ProbeFails
  <2>2. UNCHANGED <<alive, hstate>> /\ chk'.at = chk.at
    BY <1>4 DEF ProbeFails, ProbeReturns, healthVars, TypeOK, CheckerType
  <2> QED BY <2>1, <2>2
<1>5. CASE ApplyResult
  <2>1. alive' = alive /\ chk'.phase # "apply"
    BY <1>5 DEF ApplyResult, BeginCheck, TypeOK, CheckerType
  <2>2. CASE chk.ok
    <3>1. \A b \in Sound : hstate'[b] = "HEALTHY"
      BY <1>1, <1>5, <2>2 DEF ApplyResult, Pass
    <3> QED BY <2>1, <3>1
  <2>3. CASE ~chk.ok
    <3>1. chk.at \notin Sound
      BY <1>5, <2>3 DEF ApplyResult
    <3>2. \A b \in Sound : hstate'[b] = "HEALTHY"
      BY <1>1, <1>5, <2>3, <3>1 DEF ApplyResult, MarkUnhealthy
    <3> QED BY <2>1, <3>2
  <2> QED BY <2>2, <2>3
<1>6. CASE TakeSnapshot \/ Pick \/ SkipRepeat \/ Forward \/ Receive \/ Respond
  BY <1>6 DEF TakeSnapshot, Pick, SkipRepeat, Forward, Receive, Respond, healthVars
<1>7. CASE ForwardFails
  <2>1. chosen \notin Sound
    BY <1>1, <1>7 DEF ForwardFails
  <2>2. alive' = alive /\ chk' = chk /\ hstate' = [hstate EXCEPT ![chosen] = "UNHEALTHY"]
    BY <1>7 DEF ForwardFails, MarkUnhealthy
  <2> QED BY <1>1, <2>1, <2>2
<1>8. ASSUME NEW r \in Requests, BeginRequest(r) PROVE SoundIsHealthy'
  BY <1>8 DEF BeginRequest, healthVars
<1>9. ASSUME NEW b \in Backends, Crash(b) \/ Restart(b) PROVE SoundIsHealthy'
  BY <1>9 DEF Crash, Restart, healthVars
<1>10. CASE UNCHANGED vars
  BY <1>10 DEF vars, healthVars
<1> QED
  BY <1>2, <1>3, <1>4, <1>5, <1>6, <1>7, <1>8, <1>9, <1>10 DEF Next, Check, Handle

OneFaulty ==
  /\ NumBackends > 1 /\ MaxRetries > 0
  /\ \A b, c \in Faulty : b = c

LEMMA SomebodyIsSound ==
  ASSUME OneFaulty
  PROVE  Sound # {}
<1>1. 1 \in Backends /\ 2 \in Backends
  BY ConstantsAssumption DEF OneFaulty, Backends
<1> QED BY <1>1 DEF OneFaulty, Sound

\* A check that ends does not bring a backend back that has just failed: it takes
\* the check of another round to get it out of RECOVERING.
LEMMA AwayKept ==
  ASSUME TypeOK, NEW b \in Backends, Away(b), ProbePasses \/ ProbeFails \/ ApplyResult
  PROVE  Away(b)'
<1>1. hstate \in [Backends -> States] /\ chk.at \in Backends /\ b \in Nat /\ chk.at \in Nat
      /\ NumBackends \in Nat
  <2>1. Backends \subseteq Nat
    BY DEF Backends
  <2>2. hstate \in [Backends -> States] /\ chk.at \in Backends
    BY DEF TypeOK, CheckerType
  <2>3. NumBackends \in Nat
    BY ConstantsAssumption
  <2> QED BY <2>1, <2>2, <2>3
<1>2. CASE ProbePasses \/ ProbeFails
  BY <1>2 DEF ProbePasses, ProbeFails, ProbeReturns, healthVars, Away, TypeOK, CheckerType
<1>3. CASE ApplyResult
  <2>1. chk.phase = "apply"
    BY <1>3 DEF ApplyResult
  <2>2. chk'.phase = "waiting" \/ chk'.at = chk.at + 1
    BY <1>3 DEF ApplyResult, BeginCheck, TypeOK, CheckerType
  <2>3. CASE chk.at = b
    <3>1. hstate[b] = "UNHEALTHY"
      BY <1>1, <2>1, <2>3 DEF Away
    <3>2. hstate'[b] \in {"UNHEALTHY", "RECOVERING"}
      BY <1>1, <1>3, <2>3, <3>1 DEF ApplyResult, Pass, MarkUnhealthy
    <3> QED BY <1>1, <2>2, <2>3, <3>2 DEF Away
  <2>4. CASE chk.at # b
    <3>1. hstate'[b] = hstate[b]
      BY <1>1, <1>3, <2>4 DEF ApplyResult, Pass, MarkUnhealthy
    <3> QED BY <1>1, <2>1, <2>2, <3>1 DEF Away
  <2> QED BY <2>3, <2>4
<1> QED BY <1>2, <1>3

LEMMA MaskingKept ==
  ASSUME OneFaulty, TypeOK, AtWork, FirstAttempt, MaskingInv, [Next]_vars
  PROVE  SecondAttempt' /\ Masked'
<1> USE DEF Deciding, Calling
<1>1. /\ attempt \in Nat /\ attempt >= 1 /\ chosen \in Backends /\ snap \subseteq Backends
      /\ Faulty \subseteq Backends
  BY ConstantsAssumption DEF TypeOK, HandlerType
<1>2. SoundIsHealthy /\ SecondAttempt /\ Masked
  BY DEF MaskingInv
<1>3. ASSUME NEW what, Answer(what) PROVE SecondAttempt'
  BY <1>3, Answered DEF SecondAttempt
<1>4. ASSUME NEW what, Answer(what), what \notin {"502", "503"} \/ req \notin Retryable
      PROVE  Masked'
  BY <1>2, <1>4, Answered, ConstantsAssumption DEF Masked, TypeOK, HandlerType
<1>5. CASE StartRound
  <2>1. UNCHANGED <<attempt, pc, attempted, snap, chosen, answer>> /\ ~Deciding
    BY <1>5 DEF StartRound, handlerVars, clientVars
  <2> QED BY <1>2, <2>1 DEF SecondAttempt, Masked
<1>6. CASE ProbePasses \/ ProbeFails \/ ApplyResult
  <2>1. UNCHANGED <<attempt, pc, attempted, snap, chosen, answer>>
    BY <1>6 DEF ProbePasses, ProbeFails, ProbeReturns, ApplyResult, handlerVars, clientVars
  <2>2. \A b \in Faulty : Away(b) => Away(b)'
    BY <1>1, <1>6, AwayKept
  <2> QED BY <1>2, <2>1, <2>2 DEF SecondAttempt, Masked
<1>7. CASE TakeSnapshot
  <2>1. Healthy # {}
    BY <1>2, SomebodyIsSound DEF SoundIsHealthy, Healthy, Sound
  <2>2. /\ snap' = Healthy /\ pc = "snapshot" /\ pc' = "pick"
        /\ UNCHANGED <<attempt, attempted, answer, hstate, chk>>
    BY <1>7, <2>1 DEF TakeSnapshot, healthVars
  <2>3. (\A b \in Faulty : Away(b)) => Healthy \subseteq Sound
    BY <1>1 DEF Away, Healthy, Sound
  <2> QED BY <1>2, <2>2, <2>3 DEF SecondAttempt, Masked, Away
<1>8. CASE Pick
  <2>1. /\ pc = "pick" /\ pc' = "guard" /\ chosen' \in snap
        /\ UNCHANGED <<attempt, attempted, answer, hstate, chk, snap>>
    BY <1>8 DEF Pick, healthVars, clientVars
  <2> QED BY <1>2, <2>1 DEF SecondAttempt, Masked, Away
<1>9. CASE SkipRepeat
  <2>1. pc = "guard" /\ chosen \in attempted
    BY <1>9 DEF SkipRepeat, RepeatIsAvoidable
  <2>2. attempt > 1
    BY <1>1, <2>1 DEF FirstAttempt
  <2> QED BY <1>2, <2>1, <2>2 DEF SecondAttempt, Sound
<1>10. CASE Forward
  <2>1. /\ pc = "guard" /\ pc' = "forwarding" /\ attempted' = attempted \cup {chosen}
        /\ UNCHANGED <<attempt, chosen, answer>>
    BY <1>10 DEF Forward, clientVars
  <2> QED BY <1>2, <2>1 DEF SecondAttempt, Masked, FirstAttempt
<1>11. CASE Receive
  <2>1. /\ pc = "forwarding" /\ pc' = "working"
        /\ UNCHANGED <<attempt, attempted, chosen, answer>>
    BY <1>11 DEF Receive
  <2> QED BY <1>2, <2>1 DEF SecondAttempt, Masked
<1>12. CASE Respond
  BY <1>3, <1>4, <1>12 DEF Respond
<1>13. CASE ForwardFails
  <2>1. Calling /\ chosen \in Faulty
    BY <1>1, <1>2, <1>13 DEF ForwardFails, SoundIsHealthy, Sound
  <2>2. attempt = 1 /\ attempted = {chosen}
    BY <1>1, <1>2, <2>1 DEF SecondAttempt, Sound
  <2>3. \A b \in Faulty : Away(b)'
    <3>1. hstate' = [hstate EXCEPT ![chosen] = "UNHEALTHY"] /\ hstate \in [Backends -> States]
      BY <1>13 DEF ForwardFails, MarkUnhealthy, TypeOK, CheckerType
    <3>2. hstate'[chosen] = "UNHEALTHY"
      BY <1>1, <3>1
    <3> QED BY <2>1, <3>2 DEF OneFaulty, Away
  <2>4. CASE attempt' > 1 /\ pc' = "snapshot" /\ UNCHANGED <<attempted, answer>>
    BY <1>2, <2>1, <2>2, <2>3, <2>4 DEF SecondAttempt, Masked
  <2>5. CASE attempt >= AttemptsAllowed(req) /\ Answer("502")
    <3>1. req \notin Retryable
      BY <2>2, <2>5, ConstantsAssumption DEF AttemptsAllowed, OneFaulty
    <3> QED BY <1>3, <1>4, <2>5, <3>1
  <2> QED BY <1>13, <2>4, <2>5, AttemptEnds DEF ForwardFails
<1>14. ASSUME NEW r \in Requests, BeginRequest(r) PROVE SecondAttempt' /\ Masked'
  BY <1>2, <1>14 DEF BeginRequest, SecondAttempt, Masked, clientVars
<1>15. ASSUME NEW b \in Backends, Crash(b) \/ Restart(b) PROVE SecondAttempt' /\ Masked'
  <2>1. UNCHANGED <<attempt, pc, attempted, snap, chosen, answer, hstate, chk>>
    BY <1>15 DEF Crash, Restart, healthVars, handlerVars, clientVars
  <2> QED BY <1>2, <2>1 DEF SecondAttempt, Masked, Away
<1>16. CASE UNCHANGED vars
  <2>1. UNCHANGED <<attempt, pc, attempted, snap, chosen, answer, hstate, chk>>
    BY <1>16 DEF vars, healthVars, handlerVars, clientVars
  <2> QED BY <1>2, <2>1 DEF SecondAttempt, Masked, Away
<1> QED
  BY <1>5, <1>6, <1>7, <1>8, <1>9, <1>10, <1>11, <1>12, <1>13, <1>14, <1>15, <1>16
     DEF Next, Check, Handle

LEMMA MaskingInvariance ==
  ASSUME OneFaulty
  PROVE  Spec => []MaskingInv
<1>1. Init => MaskingInv
  BY ConstantsAssumption
     DEF Init, InitialState, MaskingInv, SoundIsHealthy, SecondAttempt, Masked, Sound, Deciding, Calling
<1>2. TypeOK /\ AtWork /\ FirstAttempt /\ MaskingInv /\ [Next]_vars => MaskingInv'
  BY SoundKept, MaskingKept DEF MaskingInv
<1>3. Spec => [](TypeOK /\ AtWork /\ FirstAttempt)
  <2>1. Inv => TypeOK /\ AtWork
    BY DEF Inv
  <2> QED BY <2>1, Invariance, AccountsInvariance, PTL
<1> QED BY <1>1, <1>2, <1>3, PTL DEF Spec

\* With one faulty backend, one retry is enough to hide its faults from a client
\* whose request may be retried: its second attempt goes to another backend,
\* whatever the checker does in between.
THEOREM FaultyBackendIsMasked == Spec => []OneFailureIsMasked
<1>1. CASE NumBackends > 1 /\ MaxRetries > 0 /\ Cardinality(Faulty) <= 1
  <2>1. OneFaulty
    <3>1. IsFiniteSet(Faulty)
      <4>1. IsFiniteSet(1..NumBackends)
        BY ConstantsAssumption, FS_Interval
      <4> QED BY <4>1, ConstantsAssumption, FS_Subset DEF Backends
    <3>2. Cardinality(Faulty) \in Nat
      BY <3>1, FS_CardinalityType
    <3>3. Cardinality(Faulty) = 0 \/ Cardinality(Faulty) = 1
      BY <1>1, <3>2
    <3>4. Faulty = {} \/ \E b : Faulty = {b}
      BY <3>1, <3>3, FS_EmptySet, FS_Singleton
    <3> QED BY <1>1, <3>4 DEF OneFaulty
  <2>2. MaskingInv => OneFailureIsMasked
    BY DEF MaskingInv, Masked, OneFailureIsMasked
  <2> QED BY <2>1, <2>2, MaskingInvariance, PTL
<1>2. CASE ~(NumBackends > 1 /\ MaxRetries > 0 /\ Cardinality(Faulty) <= 1)
  <2>1. OneFailureIsMasked
    BY <1>2 DEF OneFailureIsMasked
  <2> QED BY <2>1, PTL
<1> QED BY <1>1, <1>2
=============================================================================
