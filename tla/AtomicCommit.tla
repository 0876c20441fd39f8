----------------------------- MODULE AtomicCommit -----------------------------
(***************************************************************************)
(* The one step WorkerQueue.tla takes a transaction of persist_batch for:  *)
(* all rows of the batch appear at once, and newly_inserted counts those   *)
(* that no committed transaction had stored before.                        *)
(***************************************************************************)
CONSTANTS Txns, Ids, IdsOf

VARIABLES committed,   \* transactions that committed
          stored,      \* ids with a committed row
          credit       \* ids each committed transaction reports as inserted

atomicVars == <<committed, stored, credit>>

Init ==
  /\ committed = {}
  /\ stored = {}
  /\ credit = [t \in Txns |-> {}]

CommitBatch(t) ==
  /\ t \notin committed
  /\ committed' = committed \cup {t}
  /\ stored' = stored \cup IdsOf[t]
  /\ credit' = [credit EXCEPT ![t] = IdsOf[t] \ stored]

Next == \E t \in Txns : CommitBatch(t)

Spec == Init /\ [][Next]_atomicVars
=============================================================================
