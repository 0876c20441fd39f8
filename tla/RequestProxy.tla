----------------------------- MODULE RequestProxy -----------------------------
(***************************************************************************)
(* What the balancer promises about a request, without saying which        *)
(* backend is healthy or who found out: it works on one request at a time, *)
(* takes each up once at most, and hands it to one backend after the       *)
(* other, never more often than its kind allows.  LoadBalancer implements  *)
(* this with checks, snapshots and a rotation, and the balancer of         *)
(* Delivery with time-outs and clients that give up.                       *)
(***************************************************************************)
EXTENDS Naturals

CONSTANTS Requests, Backends,
          Allowed,       \* how often a request may be handed to a backend
          NoRequest, NoBackend

VARIABLES untaken,       \* requests that may still be taken up
          current,       \* the one it works on
          handed,        \* how often a backend was given it
          at             \* the backend that is to answer it

proxyVars == <<untaken, current, handed, at>>

Init ==
  /\ untaken = Requests
  /\ current = NoRequest
  /\ handed = 0
  /\ at = NoBackend

Take(r) ==
  /\ current = NoRequest
  /\ r \in untaken
  /\ untaken' = untaken \ {r}
  /\ current' = r
  /\ UNCHANGED <<handed, at>>

HandTo(b) ==
  /\ current # NoRequest
  /\ at = NoBackend
  /\ handed < Allowed[current]
  /\ handed' = handed + 1
  /\ at' = b
  /\ UNCHANGED <<untaken, current>>

\* No answer from that backend, and one more hand-over left.
TakeBack ==
  /\ at # NoBackend
  /\ handed < Allowed[current]
  /\ at' = NoBackend
  /\ UNCHANGED <<untaken, current, handed>>

\* A client goes away before its request is taken up.
Forget(left) ==
  /\ left \subseteq untaken
  /\ untaken' = left
  /\ UNCHANGED <<current, handed, at>>

\* With whatever answer.  A client that gets it, or gives up, may drop others.
Finish(left) ==
  /\ current # NoRequest
  /\ left \subseteq untaken
  /\ untaken' = left
  /\ current' = NoRequest
  /\ handed' = 0
  /\ at' = NoBackend

Next ==
  \/ \E r \in Requests : Take(r)
  \/ \E b \in Backends : HandTo(b)
  \/ TakeBack
  \/ \E left \in SUBSET Requests : Forget(left) \/ Finish(left)

Spec == Init /\ [][Next]_proxyVars
=============================================================================
