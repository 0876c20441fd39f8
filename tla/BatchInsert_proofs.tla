-------------------------- MODULE BatchInsert_proofs --------------------------
(***************************************************************************)
(* Proofs about BatchInsert, for any finite set of ids and any number of   *)
(* transactions over any overlapping batches.                              *)
(*                                                                         *)
(* The invariant says what an open transaction has done so far: the rows   *)
(* behind it are smaller than those ahead (Sorted), each of them is its    *)
(* own or committed (Handled), and nobody else holds its own (Distinct).   *)
(***************************************************************************)
EXTENDS BatchInsert, FiniteSetTheorems, WellFoundedInduction, TLAPS

\* A transaction that is not open has nothing in hand and holds nothing back.
Dormant ==
  \A t \in Txns :
    /\ state[t] # "open" => todo[t] = {}
    /\ state[t] = "idle" => inserted[t] = {}
    /\ state[t] = "committed" => IdsOf[t] \subseteq stored

Handled ==
  \A t \in Txns : state[t] = "open" =>
    /\ todo[t] \subseteq IdsOf[t]
    /\ inserted[t] \subseteq IdsOf[t] \ todo[t]
    /\ IdsOf[t] \ todo[t] \subseteq inserted[t] \cup stored

Sorted ==
  \A t \in Txns : state[t] = "open" =>
    \A i \in IdsOf[t] \ todo[t], k \in todo[t] : i < k

Distinct ==
  \A t \in Txns : state[t] = "open" =>
    /\ inserted[t] \cap stored = {}
    /\ \A u \in Txns : u # t /\ state[u] = "open" => inserted[t] \cap inserted[u] = {}

IInv == TypeOK /\ Dormant /\ Handled /\ Sorted /\ Distinct

-----------------------------------------------------------------------------
\* Nothing has begun: everything holds.
LEMMA InitIInv == Init => IInv
  BY ConstantsAssumption
     DEF Init, IInv, TypeOK, Dormant, Handled, Sorted, Distinct

\* Types are preserved.
LEMMA TypeStep == TypeOK /\ [Next]_vars => TypeOK'
<1> SUFFICES ASSUME TypeOK, [Next]_vars PROVE TypeOK'
  OBVIOUS
<1> USE ConstantsAssumption DEF TypeOK
<1>1. ASSUME NEW t \in Txns, Begin(t) PROVE TypeOK'
  BY <1>1 DEF Begin
<1>2. ASSUME NEW t \in Txns, NEW i \in Ids, Insert(t, i) \/ Skip(t, i) PROVE TypeOK'
  <2>1. CASE Insert(t, i)
    BY <2>1 DEF Insert, RowDone
  <2>2. CASE Skip(t, i)
    BY <2>2 DEF Skip, RowDone
  <2> QED
    BY <1>2, <2>1, <2>2
<1>3. ASSUME NEW t \in Txns, Commit(t) PROVE TypeOK'
  BY <1>3 DEF Commit
<1>4. ASSUME NEW t \in Txns, Abort(t) PROVE TypeOK'
  BY <1>4 DEF Abort
<1>5. CASE UNCHANGED vars
  BY <1>5 DEF vars
<1> QED
  BY <1>1, <1>2, <1>3, <1>4, <1>5 DEF Next, Work, Handle

\* A row is inserted or skipped only in hand, that is in order, and a skipped
\* row is committed.
LEMMA StepIInv == IInv /\ [Next]_vars => IInv'
<1> SUFFICES ASSUME IInv, [Next]_vars PROVE IInv'
  OBVIOUS
<1>0. TypeOK /\ TypeOK'
  BY TypeStep DEF IInv
<1> USE ConstantsAssumption, <1>0
<1>1. ASSUME NEW t \in Txns, Begin(t) PROVE IInv'
  <2> USE <1>1 DEF IInv, TypeOK, Begin
  <2>1. Dormant' /\ Handled'
    BY DEF Dormant, Handled
  <2>2. Sorted'
    BY DEF Sorted
  <2>3. Distinct'
    BY DEF Distinct, Dormant
  <2> QED
    BY <2>1, <2>2, <2>3
<1>2. ASSUME NEW t \in Txns, NEW i \in Ids, Insert(t, i) PROVE IInv'
  <2> USE <1>2 DEF IInv, TypeOK, Insert, RowDone
  <2>1. Dormant'
    BY DEF Dormant
  <2>2. Handled'
    BY DEF Handled, InHand
  <2>3. Sorted'
    BY DEF Sorted, InHand, Handled
  <2>4. Distinct'
    BY DEF Distinct, Free, Holds
  <2> QED
    BY <2>1, <2>2, <2>3, <2>4
<1>3. ASSUME NEW t \in Txns, NEW i \in Ids, Skip(t, i) PROVE IInv'
  <2> USE <1>3 DEF IInv, TypeOK, Skip, RowDone
  <2>1. Dormant'
    BY DEF Dormant
  <2>2. Handled'
    BY DEF Handled, InHand
  <2>3. Sorted'
    BY DEF Sorted, InHand, Handled
  <2>4. Distinct'
    BY DEF Distinct
  <2> QED
    BY <2>1, <2>2, <2>3, <2>4
<1>4. ASSUME NEW t \in Txns, Commit(t) PROVE IInv'
  <2> USE <1>4 DEF IInv, TypeOK, Commit
  <2>1. Dormant'
    BY DEF Dormant, Handled
  <2>2. Handled' /\ Sorted'
    BY DEF Handled, Sorted
  <2>3. Distinct'
    BY DEF Distinct
  <2> QED
    BY <2>1, <2>2, <2>3
<1>5. ASSUME NEW t \in Txns, Abort(t) PROVE IInv'
  <2> USE <1>5 DEF IInv, TypeOK, Abort
  <2>1. Dormant' /\ Handled'
    BY DEF Dormant, Handled
  <2>2. Sorted'
    BY DEF Sorted
  <2>3. Distinct'
    BY DEF Distinct, Dormant
  <2> QED
    BY <2>1, <2>2, <2>3
<1>6. CASE UNCHANGED vars
  BY <1>6 DEF IInv, TypeOK, Dormant, Handled, Sorted, Distinct, vars
<1> QED
  BY <1>1, <1>2, <1>3, <1>4, <1>5, <1>6 DEF Next, Work, Handle

\* IInv holds in every reachable state.
THEOREM Invariance == Spec => []IInv
  BY InitIInv, StepIInv, PTL DEF Spec

\* Every variable keeps its type.
THEOREM TypeCorrectness == Spec => []TypeOK
<1>1. IInv => TypeOK
  BY DEF IInv
<1> QED
  BY Invariance, <1>1, PTL

\* After a commit all rows of the batch are in the table, also those that the
\* transaction skipped because of another one.
THEOREM CommitsAreComplete == Spec => []CommittedIsComplete
<1>1. IInv => CommittedIsComplete
  BY DEF IInv, Dormant, CommittedIsComplete
<1> QED
  BY Invariance, <1>1, PTL

-----------------------------------------------------------------------------
\* What a transaction holds is smaller than what it has in hand, so along a
\* chain of waits the rows waited for go up.
LEMMA SortingOrdersWaits == IInv => WaitsGoUp
<1> SUFFICES ASSUME IInv, NEW t \in Txns, NEW u \in Txns, NEW i \in Ids, NEW k \in Ids,
                    InHand(t, i), u # t, i \in Holds(u), InHand(u, k)
             PROVE  i < k
  BY DEF WaitsGoUp
<1>1. state[u] = "open" /\ i \in inserted[u] /\ k \in todo[u]
  BY DEF Holds, InHand
<1>2. i \in IdsOf[u] \ todo[u]
  BY <1>1 DEF IInv, Handled
<1> QED
  BY <1>1, <1>2 DEF IInv, Sorted

\* Waits go up in every reachable state.
THEOREM WaitsAreOrdered == Spec => []WaitsGoUp
  BY Invariance, SortingOrdersWaits, PTL

\* The ids above i: fewer of them, the further a chain of waits has gone.
Above(i) == {k \in Ids : i < k}

\* Going up leaves strictly fewer ids above.
LEMMA AboveShrinks ==
  ASSUME NEW i \in Ids, NEW k \in Ids, i < k
  PROVE  <<Above(k), Above(i)>> \in StrictSubsetOrdering(Ids)
<1>1. Ids \subseteq Nat
  BY ConstantsAssumption
<1>2. \A l \in Ids : k < l => i < l
  BY <1>1
<1>3. k \in Above(i)
  BY DEF Above
<1>4. k \notin Above(k)
  BY <1>1 DEF Above
<1>5. Above(k) \subseteq Above(i) /\ Above(k) \subseteq Ids /\ Above(i) \subseteq Ids
  BY <1>2 DEF Above
<1> QED
  BY <1>3, <1>4, <1>5 DEF StrictSubsetOrdering

\* Ids being finite, waits that go up end: no group can wait in a circle.
LEMMA NoCycle == TypeOK /\ WaitsGoUp => NoCircularWait
<1> SUFFICES ASSUME TypeOK, WaitsGoUp, NEW group \in SUBSET Txns, group # {},
                    \A t \in group : \E u \in group : WaitsFor(t, u)
             PROVE  FALSE
  BY DEF NoCircularWait
<1> DEFINE awaited == {i \in Ids : \E t, u \in group : InHand(t, i) /\ u # t /\ i \in Holds(u)}
           ranks == {Above(i) : i \in awaited}
<1>1. \A t \in group : \E i \in awaited : InHand(t, i)
  BY DEF WaitsFor
<1>2. ranks # {}
  BY <1>1
<1>3. ranks \subseteq FiniteSubsetsOf(Ids)
  BY ConstantsAssumption, FS_Subset DEF FiniteSubsetsOf, Above
<1>4. PICK r \in ranks : \A s \in ranks : ~ (<<s, r>> \in StrictSubsetOrdering(Ids))
  <2>1. IsWellFoundedOn(StrictSubsetOrdering(Ids), FiniteSubsetsOf(Ids))
    BY FS_StrictSubsetOrderingWellFounded
  <2> HIDE DEF ranks
  <2> QED
    BY <1>2, <1>3, <2>1, WFMin, Zenon
<1>5. PICK i \in awaited : r = Above(i)
  BY <1>4
<1>6. PICK t \in group, u \in group : InHand(t, i) /\ u # t /\ i \in Holds(u)
  BY <1>5
<1>7. PICK k \in awaited : InHand(u, k)
  BY <1>1, <1>6
<1>8. i < k
  BY <1>6, <1>7 DEF WaitsGoUp
<1>9. i \in Ids /\ k \in Ids /\ Ids \subseteq Nat
  BY <1>5, <1>7, ConstantsAssumption
<1>10. <<Above(k), Above(i)>> \in StrictSubsetOrdering(Ids)
  BY <1>8, <1>9, AboveShrinks
<1> QED
  BY <1>4, <1>5, <1>7, <1>10

\* PostgreSQL never finds a deadlock among sorted batch inserts.
THEOREM DeadlockFreedom == Spec => []NoCircularWait
<1>1. IInv => NoCircularWait
  BY NoCycle, SortingOrdersWaits DEF IInv
<1> QED
  BY Invariance, <1>1, PTL

\* The ids below i: those that come before it in the sort.
Below(i) == {k \in Ids : k < i}

\* A transaction with rows left has one in hand: the sort has a first row.
LEMMA RowInHand ==
  ASSUME TypeOK, NEW t \in Txns, todo[t] # {}
  PROVE  \E i \in Ids : InHand(t, i)
<1> DEFINE ranks == {Below(i) : i \in todo[t]}
<1>1. todo[t] \subseteq Ids /\ Ids \subseteq Nat
  BY ConstantsAssumption DEF TypeOK
<1>2. ranks # {}
  OBVIOUS
<1>3. ranks \subseteq FiniteSubsetsOf(Ids)
  BY ConstantsAssumption, FS_Subset DEF FiniteSubsetsOf, Below
<1>4. PICK r \in ranks : \A s \in ranks : ~ (<<s, r>> \in StrictSubsetOrdering(Ids))
  <2>1. IsWellFoundedOn(StrictSubsetOrdering(Ids), FiniteSubsetsOf(Ids))
    BY FS_StrictSubsetOrderingWellFounded
  <2> HIDE DEF ranks
  <2> QED
    BY <1>2, <1>3, <2>1, WFMin, Zenon
<1>5. PICK i \in todo[t] : r = Below(i)
  BY <1>4
<1>6. ASSUME NEW k \in todo[t]
      PROVE  i <= k
  <2>1. i \in Nat /\ k \in Nat /\ i \in Ids /\ k \in Ids
    BY <1>1
  <2>2. SUFFICES ASSUME k < i
                 PROVE  FALSE
    BY <2>1
  <2>3. \A l \in Ids : l < k => l < i
    BY <1>1, <2>1, <2>2
  <2>4. k \in Below(i) /\ k \notin Below(k)
    BY <2>1, <2>2 DEF Below
  <2>5. <<Below(k), Below(i)>> \in StrictSubsetOrdering(Ids)
    BY <2>3, <2>4 DEF Below, StrictSubsetOrdering
  <2> QED
    BY <1>4, <1>5, <2>5
<1> QED
  BY <1>1, <1>5, <1>6 DEF InHand

\* The guards of Commit, Insert and Skip: what the server can do for t at once.
CanGoOn(t) ==
  /\ state[t] = "open"
  /\ \/ todo[t] = {}
     \/ \E i \in Ids : InHand(t, i) /\ (i \in stored \/ Free(i))

\* As long as a transaction is open, one of them need not wait.
SomebodyGoesOn ==
  (\E t \in Txns : state[t] = "open") => \E t \in Txns : CanGoOn(t)

\* While batches are being inserted the server can always go on with one of
\* them, without lock_timeout and without rolling anybody back: the sort of
\* persist_batch leaves the waits no circle to close.
THEOREM InsertsNeverStall == Spec => []SomebodyGoesOn
<1>1. ASSUME IInv, NEW someone \in Txns, state[someone] = "open"
      PROVE  \E t \in Txns : CanGoOn(t)
  <2> DEFINE open == {t \in Txns : state[t] = "open"}
  <2>1. NoCircularWait
    BY <1>1, NoCycle, SortingOrdersWaits DEF IInv
  <2>2. PICK t \in open : \A u \in open : ~WaitsFor(t, u)
    BY <1>1, <2>1 DEF NoCircularWait
  <2>3. CASE todo[t] = {}
    BY <2>2, <2>3 DEF CanGoOn
  <2>4. CASE todo[t] # {}
    <3>1. PICK i \in Ids : InHand(t, i)
      BY <1>1, <2>2, <2>4, RowInHand DEF IInv
    <3>2. i \notin Holds(t)
      BY <1>1, <2>2, <3>1 DEF IInv, Handled, Holds, InHand
    <3>3. \A u \in Txns : i \notin Holds(u)
      BY <2>2, <3>1, <3>2 DEF WaitsFor, Holds
    <3> QED
      BY <2>2, <3>1, <3>3 DEF CanGoOn, Free
  <2> QED
    BY <2>3, <2>4
<1>2. IInv => SomebodyGoesOn
  BY <1>1 DEF SomebodyGoesOn
<1> QED
  BY Invariance, <1>2, PTL

-----------------------------------------------------------------------------
\* Rows inserted at commit time are exactly those no one had committed.
LEMMA InsertedIsNew ==
  ASSUME IInv, NEW t \in Txns, Commit(t)
  PROVE  /\ inserted[t] = IdsOf[t] \ stored
         /\ stored' = stored \cup IdsOf[t]
<1>1. state[t] = "open" /\ todo[t] = {} /\ stored' = stored \cup inserted[t]
  BY DEF Commit
<1>2. /\ inserted[t] \subseteq IdsOf[t]
      /\ IdsOf[t] \subseteq inserted[t] \cup stored
      /\ inserted[t] \cap stored = {}
  BY <1>1 DEF IInv, Handled, Distinct
<1> QED
  BY <1>1, <1>2

Credit == [t \in Txns |-> IF t \in Committed THEN inserted[t] ELSE {}]

\* Everything but Commit is invisible to AtomicCommit.
LEMMA Hidden ==
  ASSUME IInv, NEW t \in Txns, Begin(t) \/ Handle(t) \/ Abort(t)
  PROVE  UNCHANGED <<Committed, stored, Credit>>
<1>1. /\ state[t] # "committed" /\ stored' = stored
      /\ \A u \in Txns : state'[u] = "committed" <=> state[u] = "committed"
      /\ \A u \in Txns : state[u] = "committed" => inserted'[u] = inserted[u]
  BY DEF IInv, TypeOK, Begin, Handle, Insert, Skip, Abort
<1>2. Committed' = Committed
  BY <1>1 DEF Committed
<1> QED
  BY <1>1, <1>2 DEF Credit, Committed

\* A transaction of sorted inserts is one atomic step, with the newly_inserted
\* that WorkerQueue's Commit computes.
THEOREM Refinement == Spec => ImplementsAtomicCommit
<1>1. Init => Atomic!Init
  BY DEF Init, Atomic!Init, Committed
<1>2. IInv /\ [Next]_vars => [Atomic!Next]_(Atomic!atomicVars)
  <2> SUFFICES ASSUME IInv, [Next]_vars PROVE [Atomic!Next]_(Atomic!atomicVars)
    OBVIOUS
  <2>1. ASSUME NEW t \in Txns, Commit(t) PROVE Atomic!CommitBatch(t)
    <3>1. inserted[t] = IdsOf[t] \ stored /\ stored' = stored \cup IdsOf[t]
      BY <2>1, InsertedIsNew
    <3>2. Committed' = Committed \cup {t} /\ t \notin Committed
      BY <2>1 DEF Commit, Committed, IInv, TypeOK
    <3>3. inserted' = inserted
      BY <2>1 DEF Commit
    <3>4. Credit' = [Credit EXCEPT ![t] = IdsOf[t] \ stored]
      BY <3>1, <3>2, <3>3 DEF Credit
    <3> QED
      BY <3>1, <3>2, <3>4 DEF Atomic!CommitBatch, Credit
  <2>2. ASSUME NEW t \in Txns, Begin(t) \/ Handle(t) \/ Abort(t)
        PROVE  UNCHANGED Atomic!atomicVars
    BY <2>2, Hidden DEF Atomic!atomicVars, Credit
  <2>3. CASE UNCHANGED vars
    BY <2>3 DEF vars, Atomic!atomicVars, Committed
  <2> QED
    BY <2>1, <2>2, <2>3 DEF Next, Work, Atomic!Next
<1> QED
  BY Invariance, <1>1, <1>2, PTL DEF Spec, ImplementsAtomicCommit, Atomic!Spec

=============================================================================
