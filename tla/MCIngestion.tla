----------------------------- MODULE MCIngestion -----------------------------
(***************************************************************************)
(* Small instances of Ingestion: a request of each kind, and retries that  *)
(* carry the key of an earlier one to the same process or to another.      *)
(***************************************************************************)
EXTENDS Ingestion, TLC

CONSTANTS i1, i2, r1, r2, r3, r4, r5, k1, k2

\* r1 and its retry r2 on the same process, its retry r3 on another one, an
\* invalid batch with a key of its own and a batch without a key.
InstanceOfRetries == r1 :> i1 @@ r2 :> i1 @@ r3 :> i2 @@ r4 :> i1 @@ r5 :> i2
KeyOfRetries == r1 :> k1 @@ r2 :> k1 @@ r3 :> k1 @@ r4 :> k2 @@ r5 :> NoKey

\* One process and all kinds of requests, one after the other.
InstanceOfKinds == r1 :> i1 @@ r2 :> i1 @@ r3 :> i1 @@ r4 :> i1 @@ r5 :> i1
KeyOfKinds == r1 :> k1 @@ r2 :> k1 @@ r3 :> NoKey @@ r4 :> NoKey @@ r5 :> k2

\* Two requests to one process.
InstanceOfTwo == r1 :> i1 @@ r2 :> i1
KeyOfTwo == r1 :> k1 @@ r2 :> k1

\* routes.py: "the event loop gets regular chances to slip in and answer a
\* health check instead of being frozen solid".
LoopKeepsTurning == \A i \in Instances : []<>Responsive(i)
=============================================================================
