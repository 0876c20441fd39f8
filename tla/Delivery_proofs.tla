---------------------------- MODULE Delivery_proofs ----------------------------
(***************************************************************************)
(* Proofs about Delivery, for any number of polls, backends, retries and   *)
(* faults, and for any time-outs that satisfy PauseAssumption.             *)
(*                                                                         *)
(* Its collector is Collector's, so that what Collector_proofs proves      *)
(* holds here too.  Then come the types; the truth of what the caches, the *)
(* responses and the extraction log say; the rows; and last the time the   *)
(* balancer may be behind.                                                 *)
(***************************************************************************)
EXTENDS Delivery, Collector_proofs, WellFoundedInduction

-----------------------------------------------------------------------------
(***************************************************************************)
(* The collector in Delivery.                                              *)
(***************************************************************************)
LEMMA Returned ==
  ASSUME NEW ok \in BOOLEAN, Return(ok)
  PROVE  \/ phase = "posting" /\ SendEnds(ok)
         \/ phase = "logging" /\ LogEnds
<1>1. CASE phase = "posting"
  BY <1>1 DEF Return
<1>2. CASE phase # "posting"
  BY <1>2 DEF Return, LogEnds
<1> QED BY <1>1, <1>2

\* What the end of a handler does: nobody waits for it any more, or the collector
\* goes on.
LEMMA Replied ==
  ASSUME NEW ok \in BOOLEAN, Reply(ok)
  PROVE  /\ handling' = NoRequest /\ tries' = 0 /\ target' = None /\ lbWaited' = 0
         /\ cached' = {}
         /\ inbox' = inbox \cup Posted
         /\ \/ UNCHANGED collectorVars
            \/ Awaits(handling) /\ phase = "posting" /\ SendEnds(ok)
            \/ Awaits(handling) /\ phase = "logging" /\ LogEnds
BY Returned DEF Reply, Release, Arrives

\* A forward without a response: another one, or the end.
LEMMA ForwardEnded ==
  ASSUME NEW keys, ForwardEnds(keys)
  PROVE  \/ /\ MayRetry
            /\ target' = None /\ lbWaited' = 0 /\ cached' = keys
            /\ UNCHANGED <<collectorVars, inbox, handling, tries>>
         \/ ~MayRetry /\ Reply(FALSE)
BY DEF ForwardEnds

\* How the steps of Next end, as far as the collector and the balancer go.
LEMMA StepsOfTheCollector ==
  ASSUME [Next]_vars
  PROVE  [CollectorNext]_collectorVars
<1>1. ASSUME NEW ok \in BOOLEAN, Reply(ok) PROVE [CollectorNext]_collectorVars
  BY <1>1, Replied DEF CollectorNext
<1>2. ASSUME NEW ok \in BOOLEAN, Return(ok) PROVE [CollectorNext]_collectorVars
  BY <1>2, Returned DEF CollectorNext
<1>3. ASSUME NEW keys, ForwardEnds(keys) PROVE [CollectorNext]_collectorVars
  BY <1>1, <1>3, ForwardEnded
<1>4. ASSUME NEW f, NEW ok \in BOOLEAN, Respond(f, ok) PROVE [CollectorNext]_collectorVars
  BY <1>1, <1>4 DEF Respond
<1>5. CASE Collect
  BY <1>5 DEF Collect, CollectorNext
<1>6. CASE CollectorGivesUp
  BY <1>2, <1>6 DEF CollectorGivesUp
<1>7. CASE Balance
  BY <1>1, <1>3, <1>7 DEF Balance, Take, DropAbandoned, ForwardTo, Refuse, ForwardTimesOut
<1>8. ASSUME NEW b \in Backends, BackendRestarts(b) PROVE [CollectorNext]_collectorVars
  BY <1>3, <1>8 DEF BackendRestarts
<1>9. CASE BalancerRestarts
  BY <1>2, <1>9 DEF BalancerRestarts
<1>10. ASSUME NEW f \in working, Serve(f) \/ AnswerFails(f) PROVE [CollectorNext]_collectorVars
  BY <1>4, <1>10 DEF Serve, AnswerFails, Enqueue, AnswerAccepted, AnswerRejected
<1>11. ASSUME NEW j \in Jobs, Work(j) PROVE [CollectorNext]_collectorVars
  BY <1>11 DEF Work
<1>12. CASE Tick
  BY <1>12 DEF Tick, CollectorNext
<1>13. CASE UNCHANGED vars
  BY <1>13 DEF vars
<1> QED
  BY <1>5, <1>6, <1>7, <1>8, <1>9, <1>10, <1>11, <1>12, <1>13 DEF Next

\* The composition restricts the collector and does not change it: every behaviour
\* of Delivery is one of Collector, whose theorems it inherits.
THEOREM CollectorIsImplemented == Spec => CollectorSpec
<1>1. Init => CollectorInit
  BY DEF Init
<1>2. [Next]_vars => [CollectorNext]_collectorVars
  BY StepsOfTheCollector
<1> QED BY <1>1, <1>2, PTL DEF Spec, CollectorSpec

-----------------------------------------------------------------------------
(***************************************************************************)
(* Types.                                                                  *)
(***************************************************************************)
\* Forwards that a request may take.
Allowed(r) == IF r.kind = "posting" THEN 1 + MaxRetries ELSE 1

\* What belongs to the request in progress agrees with it.
HandlerAgrees ==
  /\ Idle => tries = 0 /\ ~Forwarding
  /\ ~Idle => tries <= Allowed(handling)
  /\ ~Idle /\ ~Forwarding => tries < Allowed(handling)

LbTyped ==
  /\ inbox \subseteq Requests
  /\ handling \in Requests \cup {NoRequest}
  /\ tries \in Nat
  /\ target \in Backends \cup {None}
  /\ lbWaited \in 0..ForwardTimeout
  /\ cached \subseteq Backends
  /\ HandlerAgrees

SinkTyped ==
  /\ outcome \in [Jobs -> {"unknown", "pending", "completed", "failed", "timed_out"}]
  /\ stored \subseteq UNION {RowsOf[j] : j \in Jobs}
  /\ letters = {}

AllTyped == Typed /\ LbTyped /\ working \subseteq Forwards /\ SinkTyped /\ faults \in 0..FaultBudget

\* The collector's part of a step.
Quiet == UNCHANGED <<collectorVars, inbox, handling, tries, target, lbWaited>>

\* The balancer tries once more.
TryAgain ==
  /\ Forwarding /\ MayRetry
  /\ target' = None /\ lbWaited' = 0
  /\ cached' \subseteq Backends
  /\ UNCHANGED <<collectorVars, inbox, handling, tries>>

\* What a step may be for the balancer.
BalancerMove ==
  \/ ~Idle /\ \E ok \in BOOLEAN : Reply(ok)
  \/ Collect \/ CollectorGivesUp
  \/ \E r \in Requests : Take(r) \/ DropAbandoned(r)
  \/ \E b \in Backends : ForwardTo(b)
  \/ TryAgain
  \/ BalancerRestarts
  \/ Tick
  \/ Quiet /\ cached' \subseteq Backends

LEMMA RequestsAreReal ==
  /\ NoRequest \notin Requests
  /\ \A r \in Requests : r.kind \in {"posting", "logging"} /\ r.poll \in Polls
BY DEF Requests, NoRequest

LEMMA Moves ==
  ASSUME AllTyped, [Next]_vars
  PROVE  BalancerMove
<1> USE DEF AllTyped, LbTyped
<1>1. ASSUME NEW keys, keys \subseteq Backends, ForwardEnds(keys), Forwarding
      PROVE  BalancerMove
  <2>1. ~Idle
    BY <1>1 DEF HandlerAgrees
  <2> QED BY <1>1, <2>1, ForwardEnded DEF BalancerMove, TryAgain
<1>2. ASSUME NEW f \in working, NEW ok \in BOOLEAN, Respond(f, ok) PROVE BalancerMove
  <2>1. f.at \in Backends /\ f.at # None
    BY DeliveryAssumption DEF Forwards
  <2>2. CASE IsAwaited(f) /\ Reply(ok)
    <3>1. ~Idle
      BY <2>1, <2>2 DEF IsAwaited, HandlerAgrees, Forwarding
    <3> QED BY <2>2, <3>1 DEF BalancerMove
  <2>3. CASE /\ cached' = IF ok /\ f.req = handling THEN cached \cup {f.at} ELSE cached
             /\ UNCHANGED <<collectorVars, inbox, handling, tries, target, lbWaited>>
    BY <2>1, <2>3 DEF BalancerMove, Quiet
  <2> QED BY <1>2, <2>2, <2>3 DEF Respond
<1>3. CASE Collect \/ CollectorGivesUp \/ BalancerRestarts \/ Tick
  BY <1>3 DEF BalancerMove
<1>4. CASE Balance
  <2>1. CASE ForwardTimesOut
    BY <1>1, <2>1 DEF ForwardTimesOut
  <2>2. CASE Refuse
    BY <2>2 DEF Refuse, BalancerMove
  <2> QED BY <1>4, <2>1, <2>2 DEF Balance, BalancerMove
<1>5. ASSUME NEW b \in Backends, BackendRestarts(b) PROVE BalancerMove
  <2>1. CASE target = b /\ ForwardEnds(cached \ {b})
    <3>1. Forwarding
      BY <2>1, DeliveryAssumption DEF Forwarding
    <3> QED BY <1>1, <2>1, <3>1
  <2>2. CASE /\ cached' = cached \ {b}
             /\ UNCHANGED <<collectorVars, inbox, handling, tries, target, lbWaited>>
    BY <2>2 DEF BalancerMove, Quiet
  <2> QED BY <1>5, <2>1, <2>2 DEF BackendRestarts
<1>6. ASSUME NEW f \in working, Serve(f) \/ AnswerFails(f) PROVE BalancerMove
  <2>1. CASE Enqueue(f)
    BY <2>1 DEF Enqueue, lbVars, BalancerMove, Quiet
  <2> QED BY <1>2, <1>6, <2>1 DEF Serve, AnswerFails, AnswerAccepted, AnswerRejected
<1>7. ASSUME NEW j \in Jobs, Work(j) PROVE BalancerMove
  BY <1>7 DEF Work, lbVars, BalancerMove, Quiet
<1>8. CASE UNCHANGED vars
  BY <1>8 DEF vars, lbVars, BalancerMove, Quiet
<1> QED BY <1>3, <1>4, <1>5, <1>6, <1>7, <1>8 DEF Next

LEMMA PostedIs ==
  ASSUME Typed'
  PROVE  /\ Posted \subseteq Requests
         /\ phase' = phase \/ phase' \notin {"posting", "logging"} => Posted = {}
         /\ phase' # phase /\ phase' \in {"posting", "logging"}
            => Posted = {[kind |-> phase', poll |-> cycle']}
<1>1. phase' \in {"posting", "logging"} => cycle' \in Polls
  BY DEF Typed, InPoll, Calling
<1> QED BY <1>1 DEF Posted, Requests

LEMMA LbTypedStep ==
  ASSUME AllTyped, Typed', BalancerMove
  PROVE  LbTyped'
<1> USE DEF AllTyped, LbTyped, HandlerAgrees, Idle, Forwarding
<1>1. MaxRetries \in Nat /\ ForwardTimeout \in Nat /\ ForwardTimeout > 0 /\ None \notin Backends
  BY DeliveryAssumption
<1>2. Posted \subseteq Requests
  BY PostedIs
<1>3. ASSUME NEW ok \in BOOLEAN, Reply(ok) PROVE LbTyped'
  BY <1>1, <1>2, <1>3, Replied
<1>4. CASE Collect \/ CollectorGivesUp
  BY <1>2, <1>4 DEF Collect, CollectorGivesUp, Arrives, Allowed
<1>5. ASSUME NEW r \in Requests, Take(r) \/ DropAbandoned(r) PROVE LbTyped'
  BY <1>1, <1>5 DEF Take, DropAbandoned, Allowed
<1>6. ASSUME NEW b \in Backends, ForwardTo(b) PROVE LbTyped'
  <2>1. tries + 1 <= Allowed(handling)
    BY <1>1, <1>6 DEF ForwardTo, Allowed
  <2> QED BY <1>1, <1>6, <2>1 DEF ForwardTo, Allowed
<1>7. CASE TryAgain
  <2>1. tries < Allowed(handling)
    BY <1>1, <1>7 DEF TryAgain, MayRetry, Allowed
  <2> QED BY <1>1, <1>7, <2>1 DEF TryAgain, Allowed
<1>8. CASE BalancerRestarts
  BY <1>1, <1>2, <1>8 DEF BalancerRestarts, Release, Arrives
<1>9. CASE Tick
  BY <1>1, <1>9 DEF Tick, Allowed
<1>10. CASE Quiet /\ cached' \subseteq Backends
  BY <1>10 DEF Quiet, Allowed
<1> QED BY <1>3, <1>4, <1>5, <1>6, <1>7, <1>8, <1>9, <1>10 DEF BalancerMove

-----------------------------------------------------------------------------
(***************************************************************************)
(* How far the balancer may be behind.                                     *)
(***************************************************************************)
\* What a batch may take, and by how much that exceeds the collector's patience.
BatchTime == (1 + MaxRetries) * ForwardTimeout
Overdue == Monus(BatchTime, SendTimeout)

\* What is left for the request in progress.
Rest == (Allowed(handling) - tries) * ForwardTimeout
        + IF Forwarding THEN ForwardTimeout - lbWaited ELSE 0

Clear == Idle /\ inbox = {}

Log(c) == [kind |-> "logging", poll |-> c]
OneLog == \E c \in Polls : inbox = {Log(c)}

\* The time since the collector posted its log entry.
Since == IF phase = "logging" THEN waited ELSE LogTimeout + (PollInterval - pause)

\* The entry waits for the loop or for an overdue batch, or is the last thing to do.
Behind ==
  \/ Clear
  \/ Idle /\ OneLog /\ Since <= Overdue
  \/ ~Idle /\ OneLog /\ handling.kind = "posting" /\ Since + Rest <= Overdue
  \/ ~Idle /\ inbox = {} /\ Since + Rest <= ForwardTimeout + Overdue

BehindInPosting ==
  \/ Clear
  \/ Idle /\ waited = 0 /\ inbox = {[kind |-> "posting", poll |-> cycle]}
  \/ ~Idle /\ inbox = {} /\ handling.kind = "posting" /\ waited + Rest <= BatchTime

Timing ==
  /\ pause <= PollInterval
  /\ phase \in {"refreshing", "getting"} => Clear
  /\ phase = "posting" => BehindInPosting
  /\ phase \in {"logging", "asleep"} => Behind

LEMMA Durations ==
  /\ BatchTime \in Nat /\ Overdue \in Nat
  /\ ForwardTimeout \in Nat /\ ForwardTimeout > 0 /\ MaxRetries \in Nat
  /\ SendTimeout \in Nat /\ LogTimeout \in Nat /\ PollInterval \in Nat
  /\ SendTimeout > 0
  /\ LogTimeout + PollInterval > ForwardTimeout
  /\ LogTimeout + PollInterval > ForwardTimeout + Overdue
  /\ \A n \in Nat : SendTimeout + n <= BatchTime => n <= Overdue
<1>1. /\ ForwardTimeout \in Nat /\ ForwardTimeout > 0 /\ MaxRetries \in Nat
      /\ SendTimeout \in Nat /\ LogTimeout \in Nat /\ PollInterval \in Nat
      /\ SendTimeout > 0
      /\ LogTimeout + PollInterval > ForwardTimeout
      /\ SendTimeout + LogTimeout + PollInterval > (2 + MaxRetries) * ForwardTimeout
  BY CollectorAssumption, DeliveryAssumption, PauseAssumption
<1>2. BatchTime \in Nat
  BY <1>1 DEF BatchTime
<1>3. (2 + MaxRetries) * ForwardTimeout = ForwardTimeout + BatchTime
  BY <1>1 DEF BatchTime
<1>4. Overdue = IF BatchTime > SendTimeout THEN BatchTime - SendTimeout ELSE 0
  BY DEF Overdue, Monus
<1>5. /\ Overdue \in Nat
      /\ LogTimeout + PollInterval > ForwardTimeout + Overdue
  BY <1>1, <1>2, <1>3, <1>4
<1>6. \A n \in Nat : SendTimeout + n <= BatchTime => n <= Overdue
  BY <1>1, <1>2, <1>4
<1> QED BY <1>1, <1>2, <1>5, <1>6

LEMMA Product ==
  ASSUME NEW m \in Nat, NEW n \in Nat
  PROVE  /\ m * n \in Nat
         /\ m > 0 => (m - 1) * n + n = m * n
BY SMT

\* The rest is a time, and the whole time when the request is taken.
LEMMA RestIsATime ==
  ASSUME LbTyped, ~Idle
  PROVE  Rest \in Nat
<1>1. tries \in Nat /\ lbWaited \in 0..ForwardTimeout /\ ForwardTimeout \in Nat
      /\ Allowed(handling) \in Nat /\ tries <= Allowed(handling)
  BY Durations DEF LbTyped, HandlerAgrees, Allowed
<1>2. Allowed(handling) - tries \in Nat
  BY <1>1
<1>3. (Allowed(handling) - tries) * ForwardTimeout \in Nat
  BY <1>1, <1>2, Product
<1> QED BY <1>1, <1>3 DEF Rest

LEMMA RestOfTaken ==
  ASSUME LbTyped, NEW r \in Requests, Take(r)
  PROVE  /\ handling' = r /\ ~Idle'
         /\ r.kind = "posting" => Rest' = BatchTime
         /\ r.kind = "logging" => Rest' = ForwardTimeout
<1>1. handling' = r /\ tries' = 0 /\ ~Forwarding'
  BY DEF Take, LbTyped, HandlerAgrees, Forwarding
<1>2. Rest' = (Allowed(r) - 0) * ForwardTimeout + 0
  BY <1>1 DEF Rest
<1>3. (1 - 0) * ForwardTimeout + 0 = ForwardTimeout
      /\ ((1 + MaxRetries) - 0) * ForwardTimeout + 0 = BatchTime
  BY Durations DEF BatchTime
<1>4. ~Idle'
  BY <1>1, RequestsAreReal DEF Idle
<1> QED BY <1>1, <1>2, <1>3, <1>4 DEF Allowed

\* A forward takes a part of the rest, and a failed one leaves less.
LEMMA RestOfForward ==
  ASSUME LbTyped, NEW b \in Backends, ForwardTo(b)
  PROVE  Rest' = Rest
<1>1. /\ handling' = handling /\ tries' = tries + 1 /\ lbWaited' = 0
      /\ ~Forwarding /\ Forwarding' /\ ~Idle
  BY DeliveryAssumption DEF ForwardTo, Forwarding
<1>2. /\ tries \in Nat /\ Allowed(handling) \in Nat /\ tries < Allowed(handling)
      /\ ForwardTimeout \in Nat
  BY <1>1, Durations DEF LbTyped, HandlerAgrees, Allowed
<1> DEFINE n == Allowed(handling) - tries
<1>3. n \in Nat /\ n > 0 /\ Allowed(handling) - (tries + 1) = n - 1
  BY <1>2
<1>4. Rest' = (Allowed(handling) - (tries + 1)) * ForwardTimeout + (ForwardTimeout - 0)
  BY <1>1 DEF Rest, Allowed
<1>5. Rest = n * ForwardTimeout + 0
  BY <1>1 DEF Rest
<1> HIDE DEF n
<1>6. (n - 1) * ForwardTimeout + ForwardTimeout = n * ForwardTimeout /\ n * ForwardTimeout \in Nat
  BY <1>2, <1>3, Product
<1>7. Rest' = (n - 1) * ForwardTimeout + ForwardTimeout
  BY <1>2, <1>3, <1>4
<1> QED BY <1>5, <1>6, <1>7

LEMMA RestOfRetry ==
  ASSUME LbTyped, TryAgain
  PROVE  Rest' \in Nat /\ Rest' <= Rest /\ handling' = handling /\ ~Idle
<1>1. handling' = handling /\ tries' = tries /\ Forwarding /\ ~Forwarding' /\ ~Idle
  BY DEF TryAgain, Forwarding, LbTyped, HandlerAgrees
<1>2. tries \in Nat /\ lbWaited \in 0..ForwardTimeout /\ ForwardTimeout \in Nat
      /\ Allowed(handling) \in Nat /\ tries <= Allowed(handling)
  BY <1>1, Durations DEF LbTyped, HandlerAgrees, Allowed
<1> DEFINE n == (Allowed(handling) - tries) * ForwardTimeout
<1>3. Rest' = n + 0 /\ Rest = n + (ForwardTimeout - lbWaited)
  BY <1>1 DEF Rest, Allowed
<1>4. Allowed(handling) - tries \in Nat
  BY <1>2
<1>5. n \in Nat
  BY <1>2, <1>4, Product
<1> HIDE DEF n
<1> QED BY <1>1, <1>2, <1>3, <1>5

LEMMA RestOfTick ==
  ASSUME LbTyped, Tick, ~Clear
  PROVE  /\ ~Idle /\ handling' = handling /\ inbox' = inbox
         /\ Rest' \in Int /\ Rest = Rest' + 1
<1>1. /\ handling' = handling /\ inbox' = inbox /\ tries' = tries /\ target' = target
      /\ Forwarding /\ lbWaited' = lbWaited + 1
  BY DEF Tick, Clear
<1>2. Forwarding' /\ ~Idle
  BY <1>1 DEF Forwarding, LbTyped, HandlerAgrees
<1>3. tries \in Nat /\ lbWaited \in Nat /\ ForwardTimeout \in Nat
      /\ Allowed(handling) \in Nat /\ tries <= Allowed(handling)
  BY <1>2, Durations DEF LbTyped, HandlerAgrees, Allowed
<1> DEFINE n == (Allowed(handling) - tries) * ForwardTimeout
<1>4. Rest' = n + (ForwardTimeout - (lbWaited + 1)) /\ Rest = n + (ForwardTimeout - lbWaited)
  BY <1>1, <1>2 DEF Rest, Allowed
<1>5. Allowed(handling) - tries \in Nat
  BY <1>3
<1>6. n \in Nat
  BY <1>3, <1>5, Product
<1> HIDE DEF n
<1> QED BY <1>1, <1>2, <1>3, <1>4, <1>6

LEMMA SinceIsATime ==
  ASSUME Typed, pause <= PollInterval
  PROVE  Since \in Nat
BY Durations DEF Since, Typed, CollectorTypeOK

\* The balancer goes on with what it has, and the collector does not move.
LEMMA TimingKept ==
  ASSUME Typed, LbTyped, Timing,
         UNCHANGED <<phase, waited, pause, cycle, inbox, handling>>,
         ~Idle => Rest' \in Nat /\ Rest' <= Rest
  PROVE  Timing'
<1>1. waited \in Nat /\ pause \in Nat /\ Since \in Nat
  BY SinceIsATime DEF Typed, CollectorTypeOK, Timing
<1>2. ~Idle => Rest \in Nat
  BY RestIsATime
<1>3. /\ Idle' = Idle /\ Clear' = Clear /\ OneLog' = OneLog /\ Since' = Since
  BY DEF Idle, Clear, OneLog, Log, Since
<1>4. Behind => Behind'
  BY <1>1, <1>2, <1>3, Durations DEF Behind
<1>5. BehindInPosting => BehindInPosting'
  BY <1>1, <1>2, <1>3, Durations DEF BehindInPosting
<1> QED BY <1>3, <1>4, <1>5 DEF Timing

LEMMA TimingAfterReply ==
  ASSUME Typed, Typed', LbTyped, Timing, ~Idle, NEW ok \in BOOLEAN, Reply(ok)
  PROVE  Timing'
<1>1. /\ Idle' /\ inbox' = inbox \cup Posted
      /\ Rest \in Nat /\ ~Clear
  BY Replied, RestIsATime DEF Idle, Clear
<1>2. Since \in Nat /\ pause <= PollInterval
  BY SinceIsATime DEF Timing
<1>3. CASE UNCHANGED collectorVars
  <2>1. phase' = phase /\ waited' = waited /\ pause' = pause /\ Since' = Since
    BY <1>3 DEF collectorVars, callVars, Since
  <2>2. inbox' = inbox
    BY <1>1, <2>1, PostedIs
  <2>3. CASE inbox = {}
    BY <1>1, <1>2, <2>1, <2>2, <2>3 DEF Timing, Behind, BehindInPosting, Clear
  <2>4. CASE OneLog /\ Since + Rest <= Overdue /\ phase \in {"logging", "asleep"}
    <3>1. Since <= Overdue
      BY <1>1, <1>2, <2>4, Durations
    <3>2. OneLog'
      BY <2>2, <2>4 DEF OneLog, Log
    <3> QED BY <1>1, <1>2, <2>1, <2>4, <3>1, <3>2 DEF Timing, Behind
  <2>5. phase \in {"logging", "asleep"} \/ inbox = {}
    BY <1>1 DEF Timing, BehindInPosting, Typed, CollectorTypeOK, Phases
  <2> QED BY <1>1, <2>3, <2>4, <2>5 DEF Timing, Behind
<1>4. CASE phase = "posting" /\ SendEnds(ok)
  <2>1. inbox = {}
    BY <1>1, <1>4 DEF Timing, BehindInPosting
  <2>2. phase' = "logging" /\ waited' = 0 /\ cycle' \in Polls /\ pause' = pause
    BY <1>4 DEF SendEnds, Report, Goto, Typed, InPoll, Calling
  <2>3. inbox' = {Log(cycle')}
    BY <1>1, <1>4, <2>1, <2>2, PostedIs DEF Log
  <2>4. OneLog' /\ Since' = 0
    BY <2>2, <2>3 DEF OneLog, Log, Since
  <2> QED BY <1>1, <1>2, <2>2, <2>4, Durations DEF Timing, Behind
<1>5. CASE Awaits(handling) /\ phase = "logging" /\ LogEnds
  <2>1. inbox = {}
    BY <1>1, <1>5 DEF Timing, Behind, Awaits
  <2>2. phase' = "asleep" /\ pause' = PollInterval
    BY <1>5 DEF LogEnds, EndCycle, Goto
  <2>3. Clear'
    BY <1>1, <2>1, <2>2, PostedIs DEF Clear
  <2> QED BY <2>2, <2>3, Durations DEF Timing, Behind
<1> QED BY <1>3, <1>4, <1>5, Replied

\* Up to the batch nothing of earlier polls is left, and it stays like this.
LEMMA FetchMoves ==
  ASSUME Fetch \/ Revoke
  PROVE  \/ UNCHANGED <<phase, waited, pause, cycle>>
         \/ /\ phase = "asleep" /\ pause = 0 /\ phase' \in {"refreshing", "getting"}
            /\ UNCHANGED pause
         \/ /\ phase \in {"refreshing", "getting"}
            /\ UNCHANGED cycle /\ waited' = 0
            /\ (UNCHANGED pause) \/ pause' = PollInterval
<1>1. CASE WakeUp
  BY <1>1, Requested DEF WakeUp
<1>2. CASE StatesRefused
  <2>1. waited' = 0
    BY <1>2, Requested DEF StatesRefused, Report, Goto
  <2> QED BY <1>2, <2>1 DEF StatesRefused
<1>3. CASE TokenIssued \/ Revoke
  BY <1>3 DEF TokenIssued, Revoke, callVars
<1>4. CASE TokenReceived \/ TokenFails \/ StatesArrive \/ StatesFail
  BY <1>4 DEF TokenReceived, TokenFails, StatesArrive, StatesFail, EndCycle, Report, Goto
<1> QED BY <1>1, <1>2, <1>3, <1>4 DEF Fetch

\* The pause is over, and so is what the balancer had to do.
LEMMA ClearWhenAwake ==
  ASSUME Typed, LbTyped, Timing, phase = "asleep", pause = 0
  PROVE  Clear
<1>1. Since = LogTimeout + (PollInterval - 0)
  BY DEF Since
<1>2. Since > ForwardTimeout + Overdue /\ Since \in Nat
  BY <1>1, Durations
<1>3. ~Idle => Rest \in Nat
  BY RestIsATime
<1> QED BY <1>2, <1>3, Durations DEF Timing, Behind

LEMMA TimingAfterCollect ==
  ASSUME Typed, Typed', LbTyped, Timing, Collect
  PROVE  Timing'
<1>1. /\ inbox' = inbox \cup Posted
      /\ UNCHANGED <<handling, tries, target, lbWaited>>
      /\ Fetch \/ Revoke
  BY DEF Collect, Arrives
<1>2. CASE UNCHANGED <<phase, waited, pause, cycle>>
  <2>1. inbox' = inbox
    BY <1>1, <1>2, PostedIs
  <2>2. Rest' = Rest
    BY <1>1 DEF Rest, Forwarding, Allowed
  <2>3. ~Idle => Rest \in Nat
    BY RestIsATime
  <2> QED BY <1>1, <1>2, <2>1, <2>2, <2>3, TimingKept
<1>3. CASE /\ phase = "asleep" /\ pause = 0 /\ phase' \in {"refreshing", "getting"}
           /\ UNCHANGED pause
  <2>1. Clear
    BY <1>3, ClearWhenAwake
  <2>2. inbox' = {}
    BY <1>1, <1>3, <2>1, PostedIs DEF Clear
  <2> QED BY <1>1, <1>3, <2>1, <2>2 DEF Timing, Clear, Idle
<1>4. CASE /\ phase \in {"refreshing", "getting"}
           /\ UNCHANGED cycle /\ waited' = 0
           /\ (UNCHANGED pause) \/ pause' = PollInterval
  <2>1. Idle' /\ inbox' = Posted /\ pause' <= PollInterval
    BY <1>1, <1>4, Durations DEF Timing, Clear, Idle
  <2>2. CASE phase' = "posting"
    <3>1. inbox' = {[kind |-> "posting", poll |-> cycle']}
      BY <1>4, <2>1, <2>2, PostedIs
    <3> QED BY <1>4, <2>1, <2>2, <3>1 DEF Timing, BehindInPosting
  <2>3. CASE phase' = "logging"
    <3>1. inbox' = {Log(cycle')} /\ cycle' \in Polls
      BY <1>4, <2>1, <2>3, PostedIs DEF Log, Typed, InPoll, Calling
    <3>2. OneLog' /\ Since' = 0
      BY <1>4, <2>3, <3>1 DEF OneLog, Log, Since
    <3> QED BY <2>1, <2>3, <3>2, Durations DEF Timing, Behind
  <2>4. CASE phase' \notin {"posting", "logging"}
    <3>1. Clear'
      BY <2>1, <2>4, PostedIs DEF Clear
    <3> QED BY <2>1, <2>4, <3>1 DEF Timing, Behind
  <2> QED BY <2>2, <2>3, <2>4
<1> QED BY <1>1, <1>2, <1>3, <1>4, FetchMoves

LEMMA TimingAfterGivingUp ==
  ASSUME Typed, Typed', LbTyped, Timing, CollectorGivesUp
  PROVE  Timing'
<1>1. /\ inbox' = inbox \cup Posted
      /\ UNCHANGED <<handling, tries, target, lbWaited>>
      /\ waited = Limit(phase) /\ Return(FALSE)
  BY DEF CollectorGivesUp, Arrives
<1>2. Rest' = Rest /\ Idle' = Idle /\ handling' = handling
  BY <1>1 DEF Rest, Forwarding, Allowed, Idle
<1>3. ~Idle => Rest \in Nat
  BY RestIsATime
<1>4. CASE phase = "posting" /\ SendEnds(FALSE)
  <2>1. waited = SendTimeout
    BY <1>1, <1>4 DEF Limit
  <2>2. phase' = "logging" /\ waited' = 0 /\ pause' = pause /\ cycle' \in Polls
    BY <1>4 DEF SendEnds, Report, Goto, Typed, InPoll, Calling
  <2>3. inbox' = inbox \cup {Log(cycle')}
    BY <1>1, <1>4, <2>2, PostedIs DEF Log
  <2>4. Since' = 0
    BY <2>2 DEF Since
  <2>5. inbox = {}
    BY <1>4, <2>1, Durations DEF Timing, BehindInPosting, Clear
  <2>6. OneLog'
    BY <2>2, <2>3, <2>5 DEF OneLog, Log
  <2>7. CASE Idle
    BY <1>2, <2>2, <2>4, <2>6, <2>7, Durations DEF Timing, Behind
  <2>8. CASE ~Idle
    <3>1. handling.kind = "posting" /\ SendTimeout + Rest <= BatchTime
      BY <1>4, <2>1, <2>8 DEF Timing, BehindInPosting, Clear
    <3>2. 0 + Rest <= Overdue
      BY <1>3, <2>8, <3>1, Durations
    <3> QED BY <1>2, <2>2, <2>4, <2>6, <2>8, <3>1, <3>2 DEF Timing, Behind
  <2> QED BY <2>7, <2>8
<1>5. CASE phase = "logging" /\ LogEnds
  <2>1. waited = LogTimeout
    BY <1>1, <1>5 DEF Limit
  <2>2. phase' = "asleep" /\ pause' = PollInterval
    BY <1>5 DEF LogEnds, EndCycle, Goto
  <2>3. inbox' = inbox
    BY <1>1, <2>2, PostedIs
  <2>4. Since' = Since
    BY <1>5, <2>1, <2>2, Durations DEF Since
  <2>5. OneLog' = OneLog /\ Clear' = Clear
    BY <1>2, <2>3 DEF OneLog, Log, Clear
  <2>6. Behind
    BY <1>5 DEF Timing
  <2>7. Behind'
    BY <1>2, <2>3, <2>4, <2>5, <2>6 DEF Behind
  <2> QED BY <2>2, <2>7, Durations DEF Timing
<1> QED BY <1>1, <1>4, <1>5, Returned

LEMMA TimingAfterTaking ==
  ASSUME Typed, LbTyped, Timing, NEW r \in Requests, Take(r) \/ DropAbandoned(r)
  PROVE  Timing'
<1>1. /\ Idle /\ r \in inbox /\ inbox' = inbox \ {r}
      /\ UNCHANGED <<phase, waited, pause, cycle>>
  BY DEF Take, DropAbandoned, collectorVars, callVars
<1>2. Since' = Since /\ Since \in Nat /\ pause' <= PollInterval
  BY <1>1, SinceIsATime DEF Since, Timing
<1>3. \/ phase = "posting" /\ waited = 0 /\ inbox = {[kind |-> "posting", poll |-> cycle]}
      \/ phase \in {"logging", "asleep"} /\ OneLog /\ Since <= Overdue
  BY <1>1 DEF Timing, Behind, BehindInPosting, Clear, Typed, CollectorTypeOK, Phases
<1>4. inbox' = {}
  BY <1>1, <1>3 DEF OneLog
<1>5. phase \in {"logging", "asleep"} => r.kind = "logging"
  BY <1>1, <1>3 DEF OneLog, Log
<1>6. phase = "posting" => r.kind = "posting"
  BY <1>1, <1>3
<1>7. CASE Take(r)
  <2>1. handling' = r /\ ~Idle'
    BY <1>7, RestOfTaken
  <2>2. CASE phase = "posting"
    <3>1. Rest' = BatchTime /\ waited' = 0
      BY <1>1, <1>3, <1>6, <1>7, <2>2, RestOfTaken
    <3> QED BY <1>1, <1>2, <1>4, <1>6, <2>1, <2>2, <3>1, Durations DEF Timing, BehindInPosting
  <2>3. CASE phase \in {"logging", "asleep"}
    <3>1. Rest' = ForwardTimeout /\ Since <= Overdue
      BY <1>3, <1>5, <1>7, <2>3, RestOfTaken
    <3>2. Since' + Rest' <= ForwardTimeout + Overdue
      BY <1>2, <3>1, Durations
    <3> QED BY <1>1, <1>2, <1>4, <2>1, <2>3, <3>2 DEF Timing, Behind
  <2> QED BY <1>3, <2>2, <2>3
<1>8. CASE DropAbandoned(r)
  <2>1. Clear'
    BY <1>1, <1>4, <1>8 DEF DropAbandoned, Clear, Idle
  <2> QED BY <1>2, <2>1 DEF Timing, Behind, BehindInPosting
<1> QED BY <1>7, <1>8

LEMMA TimingAfterRestart ==
  ASSUME Typed, Typed', Timing, BalancerRestarts
  PROVE  Timing'
<1>1. Idle' /\ inbox' = {} \cup Posted
  BY DEF BalancerRestarts, Release, Arrives, Idle
<1>2. CASE UNCHANGED collectorVars
  <2>1. phase' = phase /\ pause' = pause
    BY <1>2 DEF collectorVars, callVars
  <2>2. Clear'
    BY <1>1, <2>1, PostedIs DEF Clear
  <2> QED BY <2>1, <2>2 DEF Timing, Behind, BehindInPosting
<1>3. CASE phase = "posting" /\ SendEnds(FALSE)
  <2>1. phase' = "logging" /\ waited' = 0 /\ cycle' \in Polls /\ pause' = pause
    BY <1>3 DEF SendEnds, Report, Goto, Typed, InPoll, Calling
  <2>2. inbox' = {Log(cycle')}
    BY <1>1, <1>3, <2>1, PostedIs DEF Log
  <2>3. OneLog' /\ Since' = 0
    BY <2>1, <2>2 DEF OneLog, Log, Since
  <2> QED BY <1>1, <2>1, <2>3, Durations DEF Timing, Behind
<1>4. CASE phase = "logging" /\ LogEnds
  <2>1. phase' = "asleep" /\ pause' = PollInterval
    BY <1>4 DEF LogEnds, EndCycle, Goto
  <2>2. Clear'
    BY <1>1, <2>1, PostedIs DEF Clear
  <2> QED BY <2>1, <2>2, Durations DEF Timing, Behind
<1>5. (UNCHANGED collectorVars) \/ Return(FALSE)
  BY DEF BalancerRestarts
<1> QED BY <1>2, <1>3, <1>4, <1>5, Returned

LEMMA TimingAfterTick ==
  ASSUME Typed, LbTyped, Timing, Tick
  PROVE  Timing'
<1>1. /\ UNCHANGED <<phase, cycle, inbox, handling>>
      /\ phase = "asleep" => pause > 0 /\ pause' = pause - 1
      /\ phase # "asleep" => waited' = waited + 1 /\ pause' = pause
  BY DEF Tick, Elapse, Calling
<1>2. /\ waited \in Nat /\ pause \in Nat /\ pause <= PollInterval /\ Since \in Nat
  BY SinceIsATime DEF Typed, CollectorTypeOK, Timing
<1>3. pause' <= PollInterval
  BY <1>1, <1>2, Durations
<1>4. phase \in {"logging", "asleep"} => Since' = Since + 1
  BY <1>1, <1>2, Durations DEF Since
<1>5. Idle' = Idle /\ OneLog' = OneLog /\ Clear' = Clear
  BY <1>1 DEF Idle, OneLog, Log, Clear
<1>6. CASE Clear
  BY <1>1, <1>3, <1>5, <1>6 DEF Timing, Behind, BehindInPosting
<1>7. CASE ~Clear
  <2>1. ~Idle /\ Rest' \in Int /\ Rest = Rest' + 1
    BY <1>7, RestOfTick
  <2>2. CASE phase = "posting"
    <3>1. inbox = {} /\ handling.kind = "posting" /\ waited + Rest <= BatchTime
      BY <1>7, <2>1, <2>2 DEF Timing, BehindInPosting
    <3>2. waited' + Rest' = waited + Rest
      BY <1>1, <1>2, <2>1, <2>2
    <3> QED BY <1>1, <1>3, <1>5, <2>1, <2>2, <3>1, <3>2 DEF Timing, BehindInPosting
  <2>3. CASE phase \in {"logging", "asleep"}
    <3>1. Since' + Rest' = Since + Rest
      BY <1>2, <1>4, <2>1, <2>3
    <3>2. Behind'
      BY <1>1, <1>5, <1>7, <2>1, <2>3, <3>1 DEF Timing, Behind
    <3> QED BY <1>1, <1>3, <2>3, <3>2 DEF Timing
  <2> QED BY <1>7, <2>2, <2>3 DEF Timing, Typed, CollectorTypeOK, Phases
<1> QED BY <1>6, <1>7

LEMMA TimingStep ==
  ASSUME AllTyped, Typed', LbTyped', Timing, BalancerMove
  PROVE  Timing'
<1> USE DEF AllTyped
<1>1. ASSUME NEW ok \in BOOLEAN, Reply(ok), ~Idle PROVE Timing'
  BY <1>1, TimingAfterReply
<1>2. CASE Collect \/ CollectorGivesUp
  BY <1>2, TimingAfterCollect, TimingAfterGivingUp
<1>3. ASSUME NEW r \in Requests, Take(r) \/ DropAbandoned(r) PROVE Timing'
  BY <1>3, TimingAfterTaking
<1>4. ASSUME NEW b \in Backends, ForwardTo(b) PROVE Timing'
  <2>1. UNCHANGED <<phase, waited, pause, cycle, inbox, handling>>
    BY <1>4 DEF ForwardTo, collectorVars, callVars
  <2>2. Rest' = Rest
    BY <1>4, RestOfForward
  <2>3. ~Idle => Rest \in Nat
    BY RestIsATime
  <2> QED BY <2>1, <2>2, <2>3, TimingKept
<1>5. CASE TryAgain
  <2>1. UNCHANGED <<phase, waited, pause, cycle, inbox, handling>>
    BY <1>5 DEF TryAgain, collectorVars, callVars
  <2>2. Rest' \in Nat /\ Rest' <= Rest
    BY <1>5, RestOfRetry
  <2> QED BY <2>1, <2>2, TimingKept
<1>6. CASE BalancerRestarts
  BY <1>6, TimingAfterRestart
<1>7. CASE Tick
  BY <1>7, TimingAfterTick
<1>8. CASE Quiet
  <2>1. UNCHANGED <<phase, waited, pause, cycle, inbox, handling>>
    BY <1>8 DEF Quiet, collectorVars, callVars
  <2>2. Rest' = Rest
    BY <1>8 DEF Quiet, Rest, Forwarding, Allowed
  <2>3. ~Idle => Rest \in Nat
    BY RestIsATime
  <2> QED BY <2>1, <2>2, <2>3, TimingKept
<1> QED BY <1>1, <1>2, <1>3, <1>4, <1>5, <1>6, <1>7, <1>8 DEF BalancerMove

-----------------------------------------------------------------------------
(***************************************************************************)
(* The backends and the sink.                                              *)
(***************************************************************************)
LEMMA BackendMoves ==
  ASSUME Next
  PROVE  /\ \/ UNCHANGED sinkVars
            \/ \E f \in working : Enqueue(f)
            \/ \E j \in Jobs : Work(j)
         /\ working' \subseteq working \/ \E b \in Backends : ForwardTo(b)
         /\ faults' = faults \/ Fault
<1>1. CASE Collect \/ CollectorGivesUp \/ BalancerRestarts \/ Tick
  BY <1>1 DEF Collect, CollectorGivesUp, BalancerRestarts, Tick, backendVars, sinkVars
<1>2. CASE Balance
  BY <1>2 DEF Balance, Take, DropAbandoned, ForwardTo, Refuse, ForwardTimesOut,
              backendVars, sinkVars
<1>3. ASSUME NEW b \in Backends, BackendRestarts(b)
      PROVE  UNCHANGED sinkVars /\ working' \subseteq working /\ Fault
  BY <1>3 DEF BackendRestarts
<1>4. ASSUME NEW f \in working, Serve(f) \/ AnswerFails(f)
      PROVE  /\ (UNCHANGED sinkVars) \/ Enqueue(f)
             /\ working' \subseteq working
             /\ faults' = faults \/ Fault
  BY <1>4 DEF Serve, AnswerFails, Enqueue, AnswerAccepted, AnswerRejected, Respond
<1>5. ASSUME NEW j \in Jobs, Work(j) PROVE working' \subseteq working /\ (faults' = faults \/ Fault)
  BY <1>5 DEF Work
<1> QED BY <1>1, <1>2, <1>3, <1>4, <1>5 DEF Next

LEMMA JobsOfForwards ==
  ASSUME NEW f \in Forwards
  PROVE  JobOf(f) \in Jobs /\ JobOf(f)[1] = f.req.poll
BY DEF Forwards, Requests, Jobs, JobOf

LEMMA BackendTypedStep ==
  ASSUME AllTyped, Next
  PROVE  working' \subseteq Forwards /\ SinkTyped' /\ faults' \in 0..FaultBudget
<1> USE DEF AllTyped
<1>1. working' \subseteq Forwards
  <2>1. ASSUME NEW b \in Backends, ForwardTo(b) PROVE working' \subseteq Forwards
    <3>1. handling \in Requests /\ tries \in Nat /\ tries < Allowed(handling)
      BY <2>1 DEF ForwardTo, LbTyped, HandlerAgrees, Idle
    <3>2. tries + 1 \in 1..(1 + MaxRetries)
      BY <3>1, Durations DEF Allowed
    <3>3. [req |-> handling, try |-> tries + 1, at |-> b, known |-> b \in cached] \in Forwards
      BY <3>1, <3>2 DEF Forwards
    <3> QED BY <2>1, <3>3 DEF ForwardTo
  <2> QED BY <2>1, BackendMoves
<1>2. faults' \in 0..FaultBudget
  BY BackendMoves, DeliveryAssumption DEF Fault
<1>3. SinkTyped'
  <2>1. CASE UNCHANGED sinkVars
    BY <2>1 DEF SinkTyped, sinkVars
  <2>2. ASSUME NEW f \in working, Enqueue(f) PROVE SinkTyped'
    BY <2>2, JobsOfForwards DEF SinkTyped, Enqueue, Sink!Accept
  <2>3. ASSUME NEW j \in Jobs, Work(j) PROVE SinkTyped'
    BY <2>3 DEF SinkTyped, Work, Sink!Store, Sink!Complete, Sink!GiveUp
  <2> QED BY <2>1, <2>2, <2>3, BackendMoves
<1> QED BY <1>1, <1>2, <1>3

\* A job gets an outcome in Enqueue only, and a completed one has its rows.
LEMMA OutcomeMoves ==
  ASSUME AllTyped, Next, NEW j \in Jobs
  PROVE  /\ outcome[j] # "unknown" => outcome'[j] # "unknown"
         /\ outcome[j] = "unknown" /\ outcome'[j] # "unknown"
            => Fits(j[1]) /\ outcome'[j] # "completed"
         /\ outcome[j] # "completed" /\ outcome'[j] = "completed" => RowsOf[j] \subseteq stored'
         /\ stored \subseteq stored'
<1> USE DEF AllTyped, SinkTyped
<1>1. CASE UNCHANGED sinkVars
  BY <1>1 DEF sinkVars
<1>2. ASSUME NEW f \in working, Enqueue(f)
      PROVE  /\ outcome' = [outcome EXCEPT ![JobOf(f)] = "pending"] /\ outcome[JobOf(f)] = "unknown"
             /\ stored' = stored /\ JobOf(f) \in Jobs /\ Fits(JobOf(f)[1])
  BY <1>2, JobsOfForwards DEF Enqueue, Sink!Accept
<1>3. ASSUME NEW k \in Jobs, Work(k)
      PROVE  \/ outcome' = outcome /\ stored \subseteq stored'
             \/ /\ outcome[k] = "pending" /\ stored' = stored
                /\ \/ outcome' = [outcome EXCEPT ![k] = "completed"] /\ RowsOf[k] \subseteq stored
                   \/ outcome' = [outcome EXCEPT ![k] = "failed"]
                   \/ outcome' = [outcome EXCEPT ![k] = "timed_out"]
  BY <1>3 DEF Work, Sink!Store, Sink!Complete, Sink!GiveUp
<1>4. CASE \E f \in working : Enqueue(f)
  BY <1>2, <1>4
<1>5. CASE \E k \in Jobs : Work(k)
  BY <1>3, <1>5
<1> QED BY <1>1, <1>4, <1>5, BackendMoves

-----------------------------------------------------------------------------
(***************************************************************************)
(* The truth of what the caches, the responses and the log entries say.    *)
(***************************************************************************)
IsAccepted(c) == \E j \in Jobs : j[1] = c /\ outcome[j] # "unknown"

CacheTells ==
  /\ Idle => cached = {}
  /\ cached # {} /\ handling.kind = "posting" => IsAccepted(handling.poll)

KnownTells == \A f \in working : f.req.kind = "posting" /\ f.known => IsAccepted(f.req.poll)

CompletedIsStored == \A j \in Jobs : outcome[j] = "completed" => RowsOf[j] \subseteq stored

Truth ==
  /\ CacheTells /\ KnownTells
  /\ SuccessIsAccepted
  /\ NothingUnfitIsQueued
  /\ CompletedIsStored

LEMMA AcceptedForGood ==
  ASSUME AllTyped, Next, NEW c, IsAccepted(c)
  PROVE  IsAccepted(c)'
BY OutcomeMoves DEF IsAccepted

\* A response that says "accepted" is about a batch that is.
LEMMA AnsweredIsAccepted ==
  ASSUME AllTyped, Truth, NEW f \in working, AnswerAccepted(f), f.req.kind = "posting"
  PROVE  IsAccepted(f.req.poll)
<1>1. outcome[JobOf(f)] # "unknown" \/ f.known \/ (f.req = handling /\ f.at \in cached)
  BY DEF AnswerAccepted
<1>2. JobOf(f) \in Jobs /\ JobOf(f)[1] = f.req.poll
  BY JobsOfForwards DEF AllTyped
<1> QED BY <1>1, <1>2 DEF IsAccepted, Truth, CacheTells, KnownTells

LEMMA CacheMoves ==
  ASSUME AllTyped, Truth, Next
  PROVE  \/ cached' = {}
         \/ cached' \subseteq cached /\ handling' = handling
         \/ /\ handling' = handling /\ ~Idle
            /\ handling.kind = "posting" => IsAccepted(handling.poll)
<1>1. ASSUME NEW ok \in BOOLEAN, Reply(ok) PROVE cached' = {}
  BY <1>1, Replied
<1>2. ASSUME NEW keys, keys \subseteq cached, ForwardEnds(keys)
      PROVE  cached' = {} \/ (cached' \subseteq cached /\ handling' = handling)
  BY <1>1, <1>2, ForwardEnded
<1>3. CASE Collect \/ CollectorGivesUp \/ Tick
  BY <1>3 DEF Collect, CollectorGivesUp, Tick
<1>4. CASE BalancerRestarts
  BY <1>4 DEF BalancerRestarts, Release
<1>5. CASE Balance
  <2>1. ASSUME NEW r \in Requests, Take(r) PROVE cached' = {}
    BY <2>1 DEF Take, Truth, CacheTells
  <2>2. CASE Refuse
    BY <1>1, <2>2 DEF Refuse
  <2>3. CASE ForwardTimesOut
    BY <1>2, <2>3 DEF ForwardTimesOut
  <2>4. ASSUME NEW r \in Requests, DropAbandoned(r) PROVE cached' = cached /\ handling' = handling
    BY <2>4 DEF DropAbandoned
  <2>5. ASSUME NEW b \in Backends, ForwardTo(b) PROVE cached' = cached /\ handling' = handling
    BY <2>5 DEF ForwardTo
  <2> QED BY <1>5, <2>1, <2>2, <2>3, <2>4, <2>5 DEF Balance
<1>6. ASSUME NEW b \in Backends, BackendRestarts(b)
      PROVE  cached' = {} \/ (cached' \subseteq cached /\ handling' = handling)
  BY <1>2, <1>6 DEF BackendRestarts
<1>7. ASSUME NEW f \in working, Enqueue(f) PROVE cached' = cached /\ handling' = handling
  BY <1>7 DEF Enqueue, lbVars
<1>8. ASSUME NEW f \in working, AnswerRejected(f) \/ AnswerFails(f)
      PROVE  cached' = {} \/ (cached' \subseteq cached /\ handling' = handling)
  BY <1>1, <1>8 DEF AnswerRejected, AnswerFails, Respond
<1>9. ASSUME NEW f \in working, AnswerAccepted(f)
      PROVE  \/ cached' = {}
             \/ cached' \subseteq cached /\ handling' = handling
             \/ /\ handling' = handling /\ ~Idle
                /\ handling.kind = "posting" => IsAccepted(handling.poll)
  <2>1. CASE f.req # handling \/ IsAwaited(f)
    BY <1>1, <1>9, <2>1 DEF AnswerAccepted, Respond
  <2>2. CASE f.req = handling /\ ~IsAwaited(f)
    <3>1. ~Idle
      BY <2>2, RequestsAreReal DEF AllTyped, Forwards, Idle
    <3>2. handling' = handling
      BY <1>9, <2>2 DEF AnswerAccepted, Respond
    <3>3. handling.kind = "posting" => IsAccepted(handling.poll)
      BY <1>9, <2>2, AnsweredIsAccepted
    <3> QED BY <3>1, <3>2, <3>3
  <2> QED BY <2>1, <2>2
<1>10. ASSUME NEW j \in Jobs, Work(j) PROVE cached' = cached /\ handling' = handling
  BY <1>10 DEF Work, lbVars
<1> QED BY <1>3, <1>4, <1>5, <1>6, <1>7, <1>8, <1>9, <1>10 DEF Next, Serve

\* A log entry reports success for one reason only.
LEMMA EntryMoves ==
  ASSUME AllTyped, Next
  PROVE  \/ UNCHANGED <<entry, cycle>>
         \/ ~(entry'.success /\ entry'.count > 0)
         \/ \E f \in working : /\ AnswerAccepted(f) /\ f.req.kind = "posting"
                                /\ cycle' = f.req.poll
<1> DEFINE Dull == (UNCHANGED <<entry, cycle>>) \/ ~(entry'.success /\ entry'.count > 0)
<1>1. SendEnds(FALSE) => Dull
  BY DEF SendEnds, Report
<1>2. LogEnds => Dull
  BY DEF LogEnds
<1>3. Return(FALSE) => Dull
  BY <1>1, <1>2, Returned
<1>4. UNCHANGED collectorVars => Dull
  BY DEF collectorVars
<1>5. Reply(FALSE) => Dull
  BY <1>1, <1>2, <1>4, Replied
<1>6. \A keys : ForwardEnds(keys) => Dull
  BY <1>4, <1>5, ForwardEnded
<1>7. Collect => Dull
  <2>1. WakeUp => ~entry'.success
    BY DEF WakeUp, Unreported
  <2>2. TokenIssued \/ TokenReceived \/ Revoke => UNCHANGED <<entry, cycle>>
    BY DEF TokenIssued, TokenReceived, Revoke
  <2>3. TokenFails \/ StatesFail => ~entry'.success
    BY DEF TokenFails, StatesFail, Report
  <2>4. StatesArrive => (UNCHANGED <<entry, cycle>>) \/ entry'.count = 0
    BY DEF StatesArrive, Report
  <2>5. ASSUME StatesRefused PROVE (UNCHANGED <<entry, cycle>>) \/ ~entry'.success
    <3>1. CASE UNCHANGED entry
      BY <2>5, <3>1 DEF StatesRefused
    <3>2. CASE Report(0, FALSE, "refused")
      <4>1. entry' = [count |-> 0, success |-> FALSE, error |-> "refused"]
        BY <3>2 DEF Report
      <4> QED BY <4>1
    <3> QED BY <2>5, <3>1, <3>2 DEF StatesRefused
  <2> QED BY <2>1, <2>2, <2>3, <2>4, <2>5 DEF Collect, Fetch
<1>8. Tick => Dull
  BY DEF Tick, Elapse
<1>9. BalancerRestarts \/ CollectorGivesUp => Dull
  BY <1>3, <1>4 DEF BalancerRestarts, CollectorGivesUp
<1>10. Balance => Dull
  BY <1>4, <1>5, <1>6 DEF Balance, Take, DropAbandoned, ForwardTo, Refuse, ForwardTimesOut
<1>11. ASSUME NEW b \in Backends, BackendRestarts(b) PROVE Dull
  BY <1>4, <1>6, <1>11 DEF BackendRestarts
<1>12. ASSUME NEW f \in working, Enqueue(f) \/ AnswerRejected(f) \/ AnswerFails(f) PROVE Dull
  BY <1>4, <1>5, <1>12 DEF Enqueue, AnswerRejected, AnswerFails, Respond
<1>13. ASSUME NEW f \in working, AnswerAccepted(f)
       PROVE  Dull \/ (f.req.kind = "posting" /\ cycle' = f.req.poll)
  <2>1. CASE IsAwaited(f) /\ Reply(TRUE)
    <3>1. CASE UNCHANGED collectorVars \/ LogEnds
      BY <1>2, <1>4, <3>1
    <3>2. CASE Awaits(handling) /\ phase = "posting" /\ SendEnds(TRUE)
      BY <2>1, <3>2 DEF Awaits, IsAwaited, SendEnds
    <3> QED BY <2>1, <3>1, <3>2, Replied
  <2>2. CASE UNCHANGED collectorVars
    BY <1>4, <2>2
  <2> QED BY <1>13, <2>1, <2>2 DEF AnswerAccepted, Respond
<1>14. ASSUME NEW j \in Jobs, Work(j) PROVE Dull
  BY <1>4, <1>14 DEF Work
<1> QED BY <1>7, <1>8, <1>9, <1>10, <1>11, <1>12, <1>13, <1>14 DEF Next, Serve

LEMMA TruthStep ==
  ASSUME AllTyped, AllTyped', Truth, Next
  PROVE  Truth'
<1>1. CacheTells'
  <2>1. CASE cached' = {}
    BY <2>1 DEF CacheTells
  <2>2. CASE cached' \subseteq cached /\ handling' = handling
    BY <2>2, AcceptedForGood DEF Truth, CacheTells, Idle
  <2>3. CASE /\ handling' = handling /\ ~Idle
             /\ handling.kind = "posting" => IsAccepted(handling.poll)
    BY <2>3, AcceptedForGood DEF CacheTells, Idle
  <2> QED BY <2>1, <2>2, <2>3, CacheMoves
<1>2. KnownTells'
  <2> SUFFICES ASSUME NEW f \in working', f.req.kind = "posting", f.known
               PROVE  IsAccepted(f.req.poll)'
    BY DEF KnownTells
  <2>1. CASE f \in working
    BY <2>1, AcceptedForGood DEF Truth, KnownTells
  <2>2. CASE f \notin working
    <3>1. PICK b \in Backends : ForwardTo(b)
      BY <2>2, BackendMoves
    <3>2. f = [req |-> handling, try |-> tries + 1, at |-> b, known |-> b \in cached]
      BY <2>2, <3>1 DEF ForwardTo
    <3>3. f.req = handling /\ b \in cached
      BY <3>2
    <3> QED BY <3>3, AcceptedForGood DEF Truth, CacheTells
  <2> QED BY <2>1, <2>2
<1>3. SuccessIsAccepted'
  <2> SUFFICES ASSUME NEW c \in Polls, HasBatch(c)' PROVE IsAccepted(c)'
    BY DEF SuccessIsAccepted, IsAccepted
  <2>1. cycle' = c /\ entry'.success /\ entry'.count > 0
    BY DEF HasBatch
  <2>2. CASE UNCHANGED <<entry, cycle>>
    <3>1. HasBatch(c)
      BY <2>1, <2>2 DEF HasBatch
    <3>2. IsAccepted(c)
      BY <3>1 DEF Truth, SuccessIsAccepted, IsAccepted
    <3> QED BY <3>2, AcceptedForGood
  <2>3. ASSUME NEW f \in working, AnswerAccepted(f), f.req.kind = "posting", cycle' = f.req.poll
        PROVE  IsAccepted(c)'
    BY <2>1, <2>3, AnsweredIsAccepted, AcceptedForGood
  <2> QED BY <2>1, <2>2, <2>3, EntryMoves
<1>4. NothingUnfitIsQueued'
  BY OutcomeMoves DEF Truth, NothingUnfitIsQueued
<1>5. CompletedIsStored'
  BY OutcomeMoves DEF Truth, CompletedIsStored
<1> QED BY <1>1, <1>2, <1>3, <1>4, <1>5 DEF Truth

-----------------------------------------------------------------------------
(***************************************************************************)
(* The invariant.                                                          *)
(***************************************************************************)
DeliveryInv == AllTyped /\ Timing /\ Truth

LEMMA DeliveryInit ==
  ASSUME Init
  PROVE  DeliveryInv
<1>1. Typed /\ phase = "asleep" /\ pause = 0 /\ cycle = 0 /\ entry = Unreported
  BY TypedInit DEF Init, CollectorInit
<1>2. /\ Clear /\ ~Forwarding /\ handling = NoRequest /\ cached = {} /\ working = {}
      /\ inbox = {} /\ tries = 0 /\ target = None /\ lbWaited = 0 /\ faults = 0
  BY DEF Init, Clear, Idle, Forwarding
<1>3. /\ outcome = [j \in Jobs |-> "unknown"]
      /\ stored = {} /\ letters = {}
  BY DEF Init, Sink!Init
<1>4. LbTyped
  BY <1>2, Durations DEF LbTyped, HandlerAgrees, Idle, Forwarding
<1>5. SinkTyped
  BY <1>3 DEF SinkTyped
<1>6. faults \in 0..FaultBudget
  BY <1>2, DeliveryAssumption
<1>7. Timing
  BY <1>1, <1>2, Durations DEF Timing, Behind
<1>8. CacheTells /\ KnownTells
  BY <1>2 DEF CacheTells, KnownTells
<1>9. NothingUnfitIsQueued /\ CompletedIsStored
  BY <1>3 DEF NothingUnfitIsQueued, CompletedIsStored
<1>10. SuccessIsAccepted
  BY <1>1 DEF SuccessIsAccepted, HasBatch, Unreported
<1> QED
  BY <1>1, <1>2, <1>4, <1>5, <1>6, <1>7, <1>8, <1>9, <1>10 DEF DeliveryInv, AllTyped, Truth

LEMMA TruthStutter ==
  ASSUME Truth, UNCHANGED vars
  PROVE  Truth'
<1>1. UNCHANGED <<cycle, entry, handling, cached, working, outcome, stored>>
  BY DEF vars, collectorVars, lbVars, backendVars, sinkVars
<1>2. CacheTells' /\ KnownTells'
  BY <1>1 DEF Truth, CacheTells, KnownTells, IsAccepted, Idle
<1>3. SuccessIsAccepted'
  BY <1>1 DEF Truth, SuccessIsAccepted, HasBatch
<1>4. NothingUnfitIsQueued' /\ CompletedIsStored'
  BY <1>1 DEF Truth, NothingUnfitIsQueued, CompletedIsStored
<1> QED BY <1>2, <1>3, <1>4 DEF Truth

LEMMA DeliveryStep ==
  ASSUME DeliveryInv, [Next]_vars
  PROVE  DeliveryInv'
<1>1. Typed'
  BY StepsOfTheCollector, TypedStep, TypedStutter DEF DeliveryInv, AllTyped
<1>2. BalancerMove
  BY Moves DEF DeliveryInv
<1>3. LbTyped'
  BY <1>1, <1>2, LbTypedStep DEF DeliveryInv
<1>4. working' \subseteq Forwards /\ SinkTyped' /\ faults' \in 0..FaultBudget
  <2>1. CASE Next
    BY <2>1, BackendTypedStep DEF DeliveryInv
  <2>2. CASE UNCHANGED vars
    BY <2>2 DEF vars, backendVars, sinkVars, SinkTyped, DeliveryInv, AllTyped
  <2> QED BY <2>1, <2>2
<1>5. AllTyped'
  BY <1>1, <1>3, <1>4 DEF AllTyped
<1>6. Timing'
  BY <1>1, <1>2, <1>3, TimingStep DEF DeliveryInv
<1>7. Truth'
  BY <1>5, TruthStep, TruthStutter DEF DeliveryInv
<1> QED BY <1>5, <1>6, <1>7 DEF DeliveryInv

LEMMA DeliveryInvariance == Spec => []DeliveryInv
BY DeliveryInit, DeliveryStep, PTL DEF Spec

\* Every variable keeps its type; a request is forwarded 1 + MaxRetries times at
\* most.
THEOREM DeliveryTypes == Spec => []TypeOK
<1>1. AllTyped => tries \in 0..(1 + MaxRetries)
  BY Durations DEF AllTyped, LbTyped, HandlerAgrees, Allowed
<1>2. AllTyped => TypeOK
  BY <1>1 DEF AllTyped, LbTyped, SinkTyped, Typed, TypeOK
<1> QED BY <1>2, DeliveryInvariance, PTL DEF DeliveryInv

\* The pause between two polls is enough for what the balancer may be behind:
\* no poll finds the balancer at work on an earlier one.
THEOREM PollsDoNotOverlap == Spec => []LeftoversAreGone
<1>1. Timing => LeftoversAreGone
  BY DEF Timing, Clear, LeftoversAreGone
<1> QED BY <1>1, DeliveryInvariance, PTL DEF DeliveryInv

\* The extraction log reports no success that is none, whatever times out, is
\* repeated, replayed or restarted.
THEOREM NoFalseSuccess == Spec => []SuccessIsAccepted
<1>1. Truth => SuccessIsAccepted
  BY DEF Truth
<1> QED BY <1>1, DeliveryInvariance, PTL DEF DeliveryInv

\* No backend answers 2xx to a batch that is in no queue: not from its cache, not
\* to a forward the balancer has stopped waiting for, not after a crash.
THEOREM AcceptancesAreTrue ==
  Spec => [][\A f \in working : AnswerAccepted(f) /\ f.req.kind = "posting"
               => IsAccepted(f.req.poll)]_vars
<1>1. DeliveryInv => [\A f \in working : AnswerAccepted(f) /\ f.req.kind = "posting"
                        => IsAccepted(f.req.poll)]_vars
  BY AnsweredIsAccepted DEF DeliveryInv
<1> QED BY <1>1, DeliveryInvariance, PTL DEF Spec

\* What ingestion enqueues passes the schema of the worker.
THEOREM QueueIsFit == Spec => []NothingUnfitIsQueued
<1>1. Truth => NothingUnfitIsQueued
  BY DEF Truth
<1> QED BY <1>1, DeliveryInvariance, PTL DEF DeliveryInv

-----------------------------------------------------------------------------
(***************************************************************************)
(* The rows.                                                               *)
(***************************************************************************)
LEMMA RowsAre ==
  ASSUME NEW j \in Jobs, NEW x \in RowsOf[j]
  PROVE  \E i \in Kept(j[1]) : x = IngestionId(j[1], i)
BY DEF RowsOf

LEMMA EventsAreNumbered ==
  ASSUME NEW c \in Polls
  PROVE  Events(c) \subseteq Nat
<1>1. Response[c].states \in Seq(StateVectors)
  BY CollectorAssumption
<1>2. DOMAIN Response[c].states = 1..Len(Response[c].states) /\ Len(Response[c].states) \in Nat
  BY <1>1
<1> QED BY <1>2 DEF Events

\* _dedupe_events keeps one event of each observation.
LEMMA KeptIsOne ==
  ASSUME NEW c \in Polls, NEW i \in Kept(c), NEW k \in Kept(c), SameSighting(c, i, k)
  PROVE  i = k
<1>1. i \in Nat /\ k \in Nat /\ i \in Events(c) /\ k \in Events(c)
  BY EventsAreNumbered DEF Kept
<1>2. SameSighting(c, k, i)
  BY DEF SameSighting
<1>3. ~(i < k) /\ ~(k < i)
  BY <1>1, <1>2 DEF Kept
<1> QED BY <1>1, <1>3

LEMMA SightingsHaveOneRow ==
  ASSUME SinkTyped
  PROVE  OneRowPerSighting
<1> SUFFICES ASSUME NEW x \in stored, NEW y \in stored,
                    x.icao24 = y.icao24, x.seen = y.seen
             PROVE  x = y \/ (x.seen = None /\ x.salt[1] # y.salt[1])
  BY DEF OneRowPerSighting
<1>1. PICK j \in Jobs : x \in RowsOf[j]
  BY DEF SinkTyped
<1>2. PICK l \in Jobs : y \in RowsOf[l]
  BY DEF SinkTyped
<1>x. PICK c \in Polls : \E i \in Kept(c) : x = IngestionId(c, i)
  BY <1>1, RowsAre DEF Jobs
<1>y. PICK d \in Polls : \E k \in Kept(d) : y = IngestionId(d, k)
  BY <1>2, RowsAre DEF Jobs
<1>3. PICK i \in Kept(c) : x = IngestionId(c, i)
  BY <1>x
<1>4. PICK k \in Kept(d) : y = IngestionId(d, k)
  BY <1>y
<1>5. /\ x.icao24 = Vector(c, i).icao24 /\ x.seen = Vector(c, i).last_contact
      /\ y.icao24 = Vector(d, k).icao24 /\ y.seen = Vector(d, k).last_contact
  BY <1>3, <1>4 DEF IngestionId
<1>6. CASE x.seen # None
  BY <1>3, <1>4, <1>5, <1>6 DEF IngestionId
<1>7. CASE x.seen = None /\ c # d
  <2>1. x.salt = <<c, i>> /\ y.salt = <<d, k>>
    BY <1>3, <1>4, <1>5, <1>7 DEF IngestionId
  <2> QED BY <1>7, <2>1
<1>8. CASE c = d
  <2>1. i = k
    BY <1>5, <1>8, KeptIsOne DEF SameSighting
  <2> QED BY <1>3, <1>4, <1>8, <2>1
<1> QED BY <1>6, <1>7, <1>8

\* Of all events of one observation the first is kept.
LEMMA FirstSighting ==
  ASSUME NEW c \in Polls, NEW i \in Events(c)
  PROVE  \E k \in Kept(c) : SameSighting(c, k, i)
<1> DEFINE R == OpToRel(<, Nat)
           T == {k \in Events(c) : SameSighting(c, k, i)}
<1>1. T \subseteq Nat
  BY EventsAreNumbered
<1>2. i \in T
  BY DEF SameSighting
<1>3. IsWellFoundedOn(R, Nat)
  BY NatLessThanWellFounded, Zenon
<1>4. \A m, n \in Nat : m < n => <<m, n>> \in R
  BY Zenon DEF OpToRel
<1> HIDE DEF R
<1>5. PICK k \in T : \A l \in T : ~ (<<l, k>> \in R)
  <2> HIDE DEF T
  <2> QED BY <1>1, <1>2, <1>3, WFMin, Zenon
<1>6. \A l \in T : ~(l < k)
  BY <1>1, <1>4, <1>5
<1>7. ASSUME NEW l \in Events(c), l < k, SameSighting(c, l, k) PROVE FALSE
  <2>1. SameSighting(c, l, i)
    BY <1>5, <1>7 DEF SameSighting
  <2> QED BY <1>6, <1>7, <2>1
<1> QED BY <1>5, <1>7 DEF Kept

LEMMA SightingsAreKept ==
  ASSUME NothingUnfitIsQueued, CompletedIsStored
  PROVE  NoSightingIsDropped
<1> SUFFICES ASSUME NEW j \in Jobs, outcome[j] = "completed", NEW i \in Events(j[1])
             PROVE  \E x \in stored : /\ x.icao24 = Vector(j[1], i).icao24
                                      /\ x.seen = Vector(j[1], i).last_contact
                                      /\ x.seen = None => x.salt[1] = j[1]
  BY DEF NoSightingIsDropped
<1>1. j[1] \in Polls /\ Fits(j[1]) /\ RowsOf[j] \subseteq stored
  BY DEF Jobs, NothingUnfitIsQueued, CompletedIsStored
<1>2. PICK k \in Kept(j[1]) : SameSighting(j[1], k, i)
  BY <1>1, FirstSighting
<1>3. IngestionId(j[1], k) \in stored
  BY <1>1, <1>2 DEF RowsOf
<1>4. /\ IngestionId(j[1], k).icao24 = Vector(j[1], k).icao24
      /\ IngestionId(j[1], k).seen = Vector(j[1], k).last_contact
      /\ IngestionId(j[1], k).seen = None => IngestionId(j[1], k).salt[1] = j[1]
  BY DEF IngestionId
<1> QED BY <1>2, <1>3, <1>4 DEF SameSighting

\* One row for each observation, however often it is seen, sent or enqueued.
THEOREM ObservationsAreUnique == Spec => []OneRowPerSighting
<1>1. AllTyped => OneRowPerSighting
  BY SightingsHaveOneRow DEF AllTyped
<1> QED BY <1>1, DeliveryInvariance, PTL DEF DeliveryInv

\* A completed batch has the row of each event of its poll that has a time, and
\* one of that poll for each aircraft seen without one.
THEOREM ObservationsAreKept == Spec => []NoSightingIsDropped
<1>1. Truth => NoSightingIsDropped
  BY SightingsAreKept DEF Truth
<1> QED BY <1>1, DeliveryInvariance, PTL DEF DeliveryInv
-----------------------------------------------------------------------------
(***************************************************************************)
(* Delivery's balancer as a RequestProxy.                                  *)
(***************************************************************************)
\* The collector's phases have an order, and a new poll begins from sleep only.
LEMMA PhaseMoves ==
  ASSUME [CollectorNext]_collectorVars
  PROVE  \/ UNCHANGED <<phase, cycle>>
         \/ phase = "asleep" /\ phase' \in {"refreshing", "getting"} /\ cycle' = cycle + 1
         \/ phase \in {"refreshing", "getting"} /\ UNCHANGED cycle
         \/ phase = "posting" /\ phase' = "logging" /\ UNCHANGED cycle
         \/ phase = "logging" /\ phase' = "asleep" /\ UNCHANGED cycle
<1>1. CASE Fetch \/ Revoke
  <2>1. WakeUp => cycle' = cycle + 1
    BY DEF WakeUp
  <2>2. WakeUp => phase = "asleep" /\ phase' \in {"refreshing", "getting"}
    BY Requested DEF WakeUp
  <2> QED BY <1>1, <2>1, <2>2
         DEF Fetch, Revoke, TokenIssued, TokenReceived, TokenFails, StatesArrive,
             StatesRefused, StatesFail, callVars
<1>2. CASE Elapse
  BY <1>2 DEF Elapse
<1>3. ASSUME NEW ok \in BOOLEAN, SendEnds(ok)
      PROVE  phase = "posting" /\ phase' = "logging" /\ UNCHANGED cycle
  BY <1>3 DEF SendEnds, Report, Goto
<1>4. CASE LogEnds
  BY <1>4 DEF LogEnds, EndCycle, Goto
<1>5. CASE UNCHANGED collectorVars
  BY <1>5 DEF collectorVars, callVars
<1> QED BY <1>1, <1>2, <1>3, <1>4, <1>5 DEF CollectorNext

\* What the collector posts was to come, and does not come again.
LEMMA PostedOnce ==
  ASSUME Typed, Typed', [CollectorNext]_collectorVars
  PROVE  /\ \A r \in Posted : r \in Requests /\ ToCome(r)
         /\ \A r \in Requests : ToCome(r)' => ToCome(r) /\ r \notin Posted
<1>1. cycle \in Nat
  BY DEF Typed, CollectorTypeOK
<1>2. \A r \in Requests : r.poll \in Nat
  BY CollectorAssumption DEF Requests, Polls
<1>3. CASE UNCHANGED <<phase, cycle>>
  BY <1>3, PostedIs DEF ToCome
<1>4. CASE phase = "asleep" /\ phase' \in {"refreshing", "getting"} /\ cycle' = cycle + 1
  BY <1>1, <1>2, <1>4, PostedIs DEF ToCome
<1>5. CASE phase \in {"refreshing", "getting"} /\ UNCHANGED cycle
  BY <1>1, <1>2, <1>5, PostedIs DEF ToCome
<1>6. CASE phase = "posting" /\ phase' = "logging" /\ UNCHANGED cycle
  BY <1>1, <1>2, <1>6, PostedIs DEF ToCome
<1>7. CASE phase = "logging" /\ phase' = "asleep" /\ UNCHANGED cycle
  BY <1>1, <1>2, <1>7, PostedIs DEF ToCome
<1> QED BY <1>3, <1>4, <1>5, <1>6, <1>7, PhaseMoves

InboxIsPosted == \A r \in inbox : ~ToCome(r)

LEMMA InboxGrows ==
  ASSUME BalancerMove
  PROVE  inbox' \subseteq inbox \cup Posted
<1>1. \A ok \in BOOLEAN : Reply(ok) => inbox' \subseteq inbox \cup Posted
  BY DEF Reply, Arrives
<1>2. Collect \/ CollectorGivesUp \/ BalancerRestarts => inbox' \subseteq inbox \cup Posted
  BY DEF Collect, CollectorGivesUp, BalancerRestarts, Arrives
<1> QED BY <1>1, <1>2
        DEF BalancerMove, Take, DropAbandoned, ForwardTo, TryAgain, Tick, Quiet

LEMMA InboxIsPostedStep ==
  ASSUME AllTyped, AllTyped', InboxIsPosted, [Next]_vars
  PROVE  InboxIsPosted' /\ Untaken' \subseteq Untaken
<1>1. inbox' \subseteq inbox \cup Posted /\ inbox \subseteq Requests
  BY Moves, InboxGrows DEF AllTyped, LbTyped
<1>2. /\ \A r \in Posted : r \in Requests /\ ToCome(r)
      /\ \A r \in Requests : ToCome(r)' => ToCome(r) /\ r \notin Posted
  BY StepsOfTheCollector, PostedOnce DEF AllTyped
<1>3. InboxIsPosted'
  BY <1>1, <1>2 DEF InboxIsPosted
<1>4. \A r \in Untaken' : r \in Untaken
  BY <1>1, <1>2 DEF Untaken
<1> QED BY <1>3, <1>4

LEMMA InboxIsPostedAlways == Spec => []InboxIsPosted
<1>1. Init => InboxIsPosted
  BY DEF Init, InboxIsPosted
<1>2. AllTyped /\ AllTyped' /\ InboxIsPosted /\ [Next]_vars => InboxIsPosted'
  BY InboxIsPostedStep
<1>3. DeliveryInv => AllTyped
  BY DEF DeliveryInv
<1> QED BY <1>1, <1>2, <1>3, DeliveryInvariance, PTL DEF Spec

\* Nobody loses the request in progress, and what waited is as it was.
LEMMA SameQueue ==
  ASSUME UNCHANGED <<phase, cycle, inbox>>
  PROVE  Untaken' = Untaken
BY DEF Untaken, ToCome

LEMMA WithinAllowance ==
  ASSUME AllTyped, ~Idle, ~Forwarding \/ MayRetry
  PROVE  tries < [r \in Requests |-> IF r.kind = "posting" THEN 1 + MaxRetries ELSE 1][handling]
<1>1. handling \in Requests /\ tries \in Nat /\ MaxRetries \in Nat
  BY Durations DEF AllTyped, LbTyped, Idle
<1>2. tries < IF handling.kind = "posting" THEN 1 + MaxRetries ELSE 1
  BY <1>1 DEF AllTyped, LbTyped, HandlerAgrees, Allowed, MayRetry
<1> QED BY <1>1, <1>2

LEMMA ProxyStep ==
  ASSUME AllTyped, AllTyped', InboxIsPosted, [Next]_vars
  PROVE  [Proxy!Next]_(Proxy!proxyVars)
<1>1. Untaken' \subseteq Untaken /\ Untaken' \in SUBSET Requests
  BY InboxIsPostedStep DEF Untaken, AllTyped, LbTyped
<1>2. ASSUME Proxy!Forget(Untaken') \/ Proxy!Finish(Untaken') PROVE Proxy!Next
  BY <1>1, <1>2 DEF Proxy!Next
<1>3. ASSUME UNCHANGED <<handling, tries, target>> PROVE Proxy!Next
  BY <1>1, <1>2, <1>3 DEF Proxy!Forget
<1>4. ASSUME handling' = NoRequest, tries' = 0, target' = None PROVE Proxy!Next
  <2>1. CASE Idle
    BY <1>3, <1>4, <2>1 DEF Idle, AllTyped, LbTyped, HandlerAgrees, Forwarding
  <2>2. CASE ~Idle
    BY <1>1, <1>2, <1>4, <2>2 DEF Idle, Proxy!Finish
  <2> QED BY <2>1, <2>2
<1>5. ASSUME NEW ok \in BOOLEAN, Reply(ok) PROVE Proxy!Next
  BY <1>4, <1>5, Replied
<1>6. CASE Collect \/ CollectorGivesUp \/ Tick \/ Quiet
  BY <1>3, <1>6 DEF Collect, CollectorGivesUp, Tick, Quiet
<1>7. ASSUME NEW r \in Requests, DropAbandoned(r) PROVE Proxy!Next
  BY <1>3, <1>7 DEF DropAbandoned
<1>8. CASE BalancerRestarts
  BY <1>4, <1>8 DEF BalancerRestarts, Release
<1>9. ASSUME NEW r \in Requests, Take(r) PROVE Proxy!Next
  <2>1. /\ Idle /\ r \in inbox /\ inbox' = inbox \ {r} /\ handling' = r
        /\ UNCHANGED <<phase, cycle, tries, target>>
    BY <1>9 DEF Take, collectorVars, callVars
  <2>2. r \in Untaken /\ Untaken' = Untaken \ {r}
    BY <2>1 DEF InboxIsPosted, Untaken, ToCome
  <2>3. Proxy!Take(r)
    BY <2>1, <2>2 DEF Proxy!Take, Idle
  <2> QED BY <2>3 DEF Proxy!Next
<1>10. ASSUME NEW b \in Backends, ForwardTo(b) PROVE Proxy!Next
  <2>1. /\ ~Idle /\ ~Forwarding /\ tries' = tries + 1 /\ target' = b
        /\ UNCHANGED <<phase, cycle, inbox, handling>>
    BY <1>10 DEF ForwardTo, collectorVars, callVars
  <2>2. Untaken' = Untaken
    BY <2>1, SameQueue
  <2>3. tries < [r \in Requests |-> IF r.kind = "posting" THEN 1 + MaxRetries ELSE 1][handling]
    BY <2>1, WithinAllowance
  <2>4. Proxy!HandTo(b)
    BY <2>1, <2>2, <2>3 DEF Proxy!HandTo, Idle, Forwarding
  <2> QED BY <2>4 DEF Proxy!Next
<1>11. CASE TryAgain
  <2>1. /\ Forwarding /\ MayRetry /\ target' = None
        /\ UNCHANGED <<phase, cycle, inbox, handling, tries>>
    BY <1>11 DEF TryAgain, collectorVars, callVars
  <2>2. ~Idle
    BY <2>1 DEF AllTyped, LbTyped, HandlerAgrees
  <2>3. Untaken' = Untaken
    BY <2>1, SameQueue
  <2>4. tries < [r \in Requests |-> IF r.kind = "posting" THEN 1 + MaxRetries ELSE 1][handling]
    BY <2>1, <2>2, WithinAllowance
  <2>5. Proxy!TakeBack
    BY <2>1, <2>3, <2>4 DEF Proxy!TakeBack, Forwarding
  <2> QED BY <2>5 DEF Proxy!Next
<1> QED BY <1>5, <1>6, <1>7, <1>8, <1>9, <1>10, <1>11, Moves DEF BalancerMove

\* The balancer of this module promises what LoadBalancer's does: each request is
\* taken up once at most, and a batch is handed to a backend 1 + MaxRetries times,
\* a log entry once, whoever gives up, times out or is restarted.
THEOREM BalancerIsProxy == Spec => ImplementsProxy
<1>1. Init => Proxy!Init
  <2> SUFFICES ASSUME Init PROVE Proxy!Init
    OBVIOUS
  <2>1. inbox = {} /\ cycle = 0 /\ handling = NoRequest /\ tries = 0 /\ target = None
    BY DEF Init, CollectorInit
  <2>2. \A r \in Requests : ToCome(r)
    BY <2>1, CollectorAssumption DEF ToCome, Requests, Polls
  <2>3. Untaken = Requests
    BY <2>1, <2>2 DEF Untaken
  <2> QED BY <2>1, <2>3 DEF Proxy!Init
<1>2. AllTyped /\ AllTyped' /\ InboxIsPosted /\ [Next]_vars => [Proxy!Next]_(Proxy!proxyVars)
  BY ProxyStep
<1>3. DeliveryInv => AllTyped
  BY DEF DeliveryInv
<1> QED
  BY <1>1, <1>2, <1>3, DeliveryInvariance, InboxIsPostedAlways, PTL
  DEF Spec, ImplementsProxy, Proxy!Spec
=============================================================================
