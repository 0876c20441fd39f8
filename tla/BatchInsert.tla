----------------------------- MODULE BatchInsert -----------------------------
(***************************************************************************)
(* Concurrent transactions of persist_batch (worker/persistence.py), row   *)
(* by row against the unique index on ingestion_id.                        *)
(*                                                                         *)
(* INSERT .. ON CONFLICT DO NOTHING looks at the index entry of a row's    *)
(* id.  No entry: the row is inserted and the entry belongs to the         *)
(* transaction until it ends.  A committed entry: the row is skipped.  An  *)
(* entry of a transaction in progress: the statement waits until that one  *)
(* ends.  Entries are held across chunks, so the chunks of a batch make no *)
(* difference to who waits for whom and are not told apart here.           *)
(*                                                                         *)
(* Ids are numbers: what matters of a UUID is that there is a total order  *)
(* and that persist_batch sorts every batch by it.                         *)
(***************************************************************************)
EXTENDS Naturals, FiniteSets

CONSTANTS Txns,       \* one per call of persist_batch that opens a transaction
          Ids,        \* ingestion ids, ordered
          IdsOf,      \* the ids of the rows a call is given
          MaxAborts   \* bound: connections lost in the middle of a transaction

ASSUME ConstantsAssumption ==
  /\ Ids \subseteq Nat /\ IsFiniteSet(Ids)
  /\ IdsOf \in [Txns -> SUBSET Ids]
  /\ MaxAborts \in Nat

VARIABLES state,      \* of a transaction: "idle", "open" or "committed"
          todo,       \* ids whose row it has not handled yet
          inserted,   \* ids it inserted: what RETURNING gave it
          stored,     \* ids with a committed row
          aborts      \* connections lost so far

vars == <<state, todo, inserted, stored, aborts>>

Init ==
  /\ state = [t \in Txns |-> "idle"]
  /\ todo = [t \in Txns |-> {}]
  /\ inserted = [t \in Txns |-> {}]
  /\ stored = {}
  /\ aborts = 0

-----------------------------------------------------------------------------
\* Mutant: no sort, rows come in the order of the batch, which is any order.
InHand_Unsorted(t, i) == i \in todo[t]

\* rows.sort(key=lambda row: row[0]), then chunk by chunk: the row in hand is
\* the smallest one left.
InHand(t, i) == i \in todo[t] /\ \A k \in todo[t] : i <= k

\* Index entries of rows that are inserted and not yet committed.
Holds(t) == IF state[t] = "open" THEN inserted[t] ELSE {}

Free(i) == \A u \in Txns : i \notin Holds(u)

Begin(t) ==
  /\ state[t] = "idle"
  /\ state' = [state EXCEPT ![t] = "open"]
  /\ todo' = [todo EXCEPT ![t] = IdsOf[t]]
  /\ UNCHANGED <<inserted, stored, aborts>>

\* The row is done with: the next one is in hand.
RowDone(t, i) == todo' = [todo EXCEPT ![t] = @ \ {i}]

Insert(t, i) ==
  /\ state[t] = "open"
  /\ InHand(t, i)
  /\ i \notin stored
  /\ Free(i)
  /\ inserted' = [inserted EXCEPT ![t] = @ \cup {i}]
  /\ RowDone(t, i)
  /\ UNCHANGED <<state, stored, aborts>>

\* Mutant: an entry in progress counts as a conflict and is not waited for.
Skip_InProgress(t, i) ==
  /\ state[t] = "open"
  /\ InHand(t, i)
  /\ i \in stored \/ ~Free(i)
  /\ RowDone(t, i)
  /\ UNCHANGED <<state, inserted, stored, aborts>>

\* ON CONFLICT DO NOTHING.
Skip(t, i) ==
  /\ state[t] = "open"
  /\ InHand(t, i)
  /\ i \in stored
  /\ RowDone(t, i)
  /\ UNCHANGED <<state, inserted, stored, aborts>>

\* Mutant: conn.commit() inside the loop over the chunks.
Commit_EachChunk(t) ==
  /\ state[t] = "open"
  /\ state' = [state EXCEPT ![t] = "committed"]
  /\ stored' = stored \cup inserted[t]
  /\ UNCHANGED <<todo, inserted, aborts>>

\* conn.commit() once the last chunk is through.
Commit(t) ==
  /\ state[t] = "open"
  /\ todo[t] = {}
  /\ state' = [state EXCEPT ![t] = "committed"]
  /\ stored' = stored \cup inserted[t]
  /\ UNCHANGED <<todo, inserted, aborts>>

\* Mutant: the transaction is opened again without end.
Abort_Unbounded(t) ==
  /\ state[t] = "open"
  /\ aborts' = aborts + 1
  /\ state' = [state EXCEPT ![t] = "idle"]
  /\ todo' = [todo EXCEPT ![t] = {}]
  /\ inserted' = [inserted EXCEPT ![t] = {}]
  /\ UNCHANGED stored

\* Connection lost: the server rolls back, the caller gets
\* PersistenceUnavailable and arq runs the job again.
Abort(t) ==
  /\ state[t] = "open"
  /\ aborts < MaxAborts
  /\ aborts' = aborts + 1
  /\ state' = [state EXCEPT ![t] = "idle"]
  /\ todo' = [todo EXCEPT ![t] = {}]
  /\ inserted' = [inserted EXCEPT ![t] = {}]
  /\ UNCHANGED stored

-----------------------------------------------------------------------------
Handle(t) == \E i \in Ids : Insert(t, i) \/ Skip(t, i)

Work(t) == Begin(t) \/ Handle(t) \/ Commit(t)

Next == \E t \in Txns : Work(t) \/ Abort(t)

Spec == Init /\ [][Next]_vars

\* The server goes on with every statement that need not wait.
FairSpec == Spec /\ \A t \in Txns : WF_vars(Work(t))

-----------------------------------------------------------------------------
\* Types of the variables.
TypeOK ==
  /\ state \in [Txns -> {"idle", "open", "committed"}]
  /\ todo \in [Txns -> SUBSET Ids]
  /\ inserted \in [Txns -> SUBSET Ids]
  /\ stored \subseteq Ids
  /\ aborts \in 0..MaxAborts

\* Transaction t cannot go on before u ends.
WaitsFor(t, u) ==
  /\ state[t] = "open"
  /\ \E i \in Ids : InHand(t, i) /\ i \in Holds(u) /\ u # t

\* The order of every chain of waits: the row that a transaction waits for is
\* smaller than the row its holder has in hand.  This is what sorting buys.
WaitsGoUp ==
  \A t, u \in Txns, i, k \in Ids :
    InHand(t, i) /\ u # t /\ i \in Holds(u) /\ InHand(u, k) => i < k

\* No group of transactions in which each waits for another of the group:
\* PostgreSQL has no deadlock to detect (persistence.py's reason to sort).
NoCircularWait ==
  \A group \in SUBSET Txns :
    group # {} => \E t \in group : \A u \in group : ~WaitsFor(t, u)

\* A commit leaves every row of its batch in the table, its own or another's:
\* a skipped row was never one that could still be rolled back.
CommittedIsComplete ==
  \A t \in Txns : state[t] = "committed" => IdsOf[t] \subseteq stored

\* Every batch commits in the end.
EveryBatchCommits == \A t \in Txns : <>(state[t] = "committed")

\* Refinement: concurrent sorted inserts are atomic commits.
Committed == {t \in Txns : state[t] = "committed"}

Atomic == INSTANCE AtomicCommit
            WITH committed <- Committed,
                 credit <- [t \in Txns |-> IF t \in Committed THEN inserted[t] ELSE {}]

\* newly_inserted is exact under any interleaving of transactions.
ImplementsAtomicCommit == Atomic!Spec
=============================================================================
