---------------------------- MODULE Metrics_proofs ----------------------------
(***************************************************************************)
(* What _percentile returns for any sorted samples and any percent, and    *)
(* what the window of record_request holds.                                *)
(***************************************************************************)
EXTENDS Metrics, FiniteSetTheorems, SequenceTheorems, TLAPS

LEMMA CeilBounds ==
  ASSUME NEW n \in Nat
  PROVE  /\ CeilHundredth(n) \in Nat
         /\ 100 * CeilHundredth(n) >= n
         /\ 100 * CeilHundredth(n) < n + 100
BY SMT DEF CeilHundredth

\* What Rank rounds up, in hundredths of a sample: opaque, the steps below are linear.
Share(n, pct) == pct * n

\* The rank is a place in the samples, with pct percent of them up to it, and is
\* not too high by a whole sample.
LEMMA RankBounds ==
  ASSUME NEW n \in Nat \ {0}, NEW pct \in 0..100
  PROVE  /\ Rank(n, pct) \in 1..n
         /\ 100 * Rank(n, pct) >= Share(n, pct)
         /\ \A m \in Nat \ {0} : 100 * m >= Share(n, pct) => Rank(n, pct) <= m
<1> DEFINE k == Share(n, pct)
<1>1. k \in Nat /\ k <= 100 * n
  <2>1. k \in Nat
    BY SMT DEF Share
  <2>2. \A x \in Nat : pct * x <= 100 * x
    BY SMT
  <2> QED BY <2>1, <2>2 DEF Share
<1> HIDE DEF k
<1> DEFINE c == CeilHundredth(k)
<1>2. c \in Nat /\ 100 * c >= k /\ 100 * c < k + 100
  BY <1>1, CeilBounds
<1> HIDE DEF c
<1>3. c <= n
  BY <1>1, <1>2
<1>4. Rank(n, pct) = IF c > 1 THEN c ELSE 1
  <2>1. Rank(n, pct) = AtMost(n, AtLeast(1, c))
    BY DEF Rank, k, c, Share
  <2> QED BY <2>1, <1>2, <1>3 DEF AtMost, AtLeast
<1>5. \A m \in Nat \ {0} : 100 * m >= k => Rank(n, pct) <= m
  BY <1>1, <1>2, <1>4
<1>6. Rank(n, pct) \in 1..n /\ 100 * Rank(n, pct) >= k
  BY <1>1, <1>2, <1>3, <1>4
<1> QED BY <1>5, <1>6 DEF k

LEMMA RankInRange ==
  ASSUME NEW n \in Nat \ {0}, NEW pct \in 0..100
  PROVE  Rank(n, pct) \in 1..n /\ 100 * Rank(n, pct) >= Share(n, pct)
BY RankBounds, ZenonT(60)

LEMMA RankIsLeast ==
  ASSUME NEW n \in Nat \ {0}, NEW pct \in 0..100, NEW m \in Nat \ {0}, 100 * m >= Share(n, pct)
  PROVE  Rank(n, pct) <= m
BY RankBounds, ZenonT(60)

LEMMA CardinalityOfPrefix ==
  ASSUME NEW m \in Nat
  PROVE  Cardinality(1..m) = m /\ IsFiniteSet(1..m)
BY FS_Interval

LEMMA NoMore ==
  ASSUME NEW S, IsFiniteSet(S), NEW T, T \subseteq S
  PROVE  IsFiniteSet(T) /\ Cardinality(T) <= Cardinality(S)
BY FS_Subset

\* Places up to i hold samples that do not exceed that of i.
LEMMA SortedPrefix ==
  ASSUME NEW s \in Seq(Nat), IsSorted(s), NEW i \in DOMAIN s
  PROVE  /\ IsFiniteSet({k \in DOMAIN s : s[k] <= s[i]})
         /\ Cardinality({k \in DOMAIN s : s[k] <= s[i]}) >= i
<1> DEFINE low == {k \in DOMAIN s : s[k] <= s[i]}
<1>1. DOMAIN s = 1..Len(s) /\ Len(s) \in Nat
  OBVIOUS
<1>2. IsFiniteSet(low)
  <2>1. IsFiniteSet(1..Len(s))
    BY <1>1, CardinalityOfPrefix
  <2>2. low \subseteq 1..Len(s)
    BY <1>1
  <2> QED BY <2>1, <2>2, FS_Subset
<1>3. 1..i \subseteq low
  BY <1>1 DEF IsSorted
<1>4. Cardinality(1..i) = i
  BY <1>1, CardinalityOfPrefix
<1> HIDE DEF low
<1>5. Cardinality(1..i) <= Cardinality(low)
  BY <1>2, <1>3, NoMore
<1>6. Cardinality(low) >= i
  BY <1>4, <1>5, <1>1, <1>2, FS_CardinalityType
<1> QED BY <1>2, <1>6 DEF low

\* Samples that exceed none but those before place m are before place m.
LEMMA LowIsBefore ==
  ASSUME NEW s \in Seq(Nat), IsSorted(s), NEW m \in DOMAIN s, NEW k \in DOMAIN s, s[k] < s[m]
  PROVE  Cardinality({i \in DOMAIN s : s[i] <= s[k]}) <= m - 1
<1> DEFINE low == {i \in DOMAIN s : s[i] <= s[k]}
<1>1. DOMAIN s \subseteq Nat \ {0} /\ \A i \in DOMAIN s : s[i] \in Nat
  <2>1. DOMAIN s = 1..Len(s) /\ \A i \in 1..Len(s) : s[i] \in Nat
    BY ElementOfSeq, LenProperties
  <2> QED BY <2>1
<1>2. ASSUME NEW i \in low PROVE i \in 1..(m - 1)
  <2>1. i \in DOMAIN s /\ s[i] <= s[k]
    OBVIOUS
  <2>2. i \in Nat \ {0} /\ m \in Nat \ {0} /\ s[i] \in Nat /\ s[m] \in Nat /\ s[k] \in Nat
    BY <2>1, <1>1
  <2>3. m <= i => s[m] <= s[i]
    BY <2>1 DEF IsSorted
  <2>4. ~(s[m] <= s[i])
    BY <2>1, <2>2
  <2>5. i < m
    BY <2>2, <2>3, <2>4
  <2> QED BY <2>2, <2>5
<1>3. low \subseteq 1..(m - 1)
  BY <1>2
<1>4. m - 1 \in Nat
  BY <1>1
<1>5. Cardinality(1..(m - 1)) = m - 1 /\ IsFiniteSet(1..(m - 1))
  BY <1>4, CardinalityOfPrefix
<1> HIDE DEF low
<1>6. Cardinality(low) <= Cardinality(1..(m - 1))
  BY <1>3, <1>5, NoMore
<1> QED BY <1>5, <1>6 DEF low

\* metrics.py:51, "nearest-rank percentile over an already-sorted list": the
\* clamped rank of _percentile picks the least sample that pct percent of the
\* samples do not exceed.
THEOREM PercentileIsNearestRank ==
  ASSUME NEW s \in Seq(Nat), s # <<>>, IsSorted(s), NEW pct \in 0..100
  PROVE  NearestRank(s, pct, Percentile(s, pct))
<1> DEFINE n == Len(s)
           r == Rank(n, pct)
           low(k) == {i \in DOMAIN s : s[i] <= s[k]}
<1>1. n \in Nat \ {0} /\ DOMAIN s = 1..n
  OBVIOUS
<1>2. r \in 1..n /\ 100 * r >= Share(n, pct)
  <2> HIDE DEF n
  <2> QED BY <1>1, RankInRange DEF r
<1>3. Percentile(s, pct) = s[r]
  BY DEF Percentile
<1>4. 100 * Cardinality(low(r)) >= Share(n, pct)
  <2>1. Cardinality(low(r)) >= r /\ IsFiniteSet(low(r))
    BY <1>1, <1>2, SortedPrefix
  <2>2. Cardinality(low(r)) \in Nat
    BY <2>1, FS_CardinalityType
  <2> HIDE DEF low, r, n
  <2>3. Share(n, pct) \in Nat
    BY <1>1 DEF Share
  <2> QED BY <2>1, <2>2, <2>3, <1>1, <1>2
<1>5. ASSUME NEW k \in DOMAIN s, 100 * Cardinality(low(k)) >= Share(n, pct)
      PROVE  s[r] <= s[k]
  <2>1. IsFiniteSet(low(k)) /\ Cardinality(low(k)) >= k
    BY SortedPrefix
  <2>2. Cardinality(low(k)) \in Nat \ {0}
    <3>1. Cardinality(low(k)) \in Nat
      BY <2>1, FS_CardinalityType
    <3>2. k \in Nat \ {0}
      BY <1>1
    <3> HIDE DEF low
    <3> QED BY <2>1, <3>1, <3>2
  <2>3. r <= Cardinality(low(k))
    <3> HIDE DEF low, n
    <3> QED BY <2>2, <1>5, <1>1, RankIsLeast DEF r
  <2>4. CASE ~(s[r] <= s[k])
    <3>1. r \in DOMAIN s /\ s[r] \in Nat /\ s[k] \in Nat
      BY <1>1, <1>2
    <3>2. s[k] < s[r]
      BY <2>4, <3>1
    <3>3. Cardinality(low(k)) <= r - 1
      BY <3>1, <3>2, LowIsBefore
    <3> HIDE DEF low, r, n
    <3> QED BY <3>3, <2>2, <2>3, <1>2, <1>1
  <2> QED BY <2>4
<1>6. s[r] \in {s[i] : i \in DOMAIN s}
  BY <1>1, <1>2
<1> QED BY <1>3, <1>4, <1>5, <1>6 DEF NearestRank, Share

\* metrics.py:40, "keep memory bounded; a rolling window": the window holds at
\* most `size' samples, the newest last, and what it held before in its order,
\* less the oldest one when it was full.
THEOREM WindowRolls ==
  ASSUME NEW w \in Seq(Nat), NEW x \in Nat, NEW size \in Nat \ {0}, Len(w) <= size
  PROVE  LET v == Recorded(w, x, size) IN
         /\ v \in Seq(Nat) /\ Len(v) <= size
         /\ v[Len(v)] = x
         /\ Len(w) < size => v = Append(w, x)
         /\ Len(w) = size => Len(v) = size /\ \A i \in 1..(size - 1) : v[i] = w[i + 1]
<1> DEFINE all == Append(w, x)
           n == Len(w)
<1>1. /\ n \in Nat /\ all \in Seq(Nat) /\ Len(all) = n + 1 /\ all[n + 1] = x
      /\ \A i \in 1..n : all[i] = w[i]
  BY AppendProperties
<1>2. CASE n < size
  <2>1. Recorded(w, x, size) = all
    BY <1>1, <1>2 DEF Recorded
  <2> HIDE DEF all, n
  <2> QED BY <2>1, <1>1, <1>2 DEF all, n
<1>3. CASE n = size
  <2> DEFINE v == SubSeq(all, 2, size + 1)
  <2>1. Recorded(w, x, size) = v
    BY <1>1, <1>3 DEF Recorded
  <2>2. v \in Seq(Nat) /\ Len(v) = size /\ \A i \in 1..size : v[i] = all[i + 1]
    <3> HIDE DEF all
    <3>1. 2 \in 1..(Len(all) + 1) /\ size + 1 \in 1..Len(all)
      BY <1>1, <1>3
    <3> QED BY <3>1, <1>1, <1>3, SubSeqProperties
  <2> HIDE DEF v
  <2>3. v[size] = x
    BY <2>2, <1>1, <1>3
  <2>4. \A i \in 1..(size - 1) : v[i] = w[i + 1]
    BY <2>2, <1>1, <1>3
  <2> QED BY <2>1, <2>2, <2>3, <2>4, <1>3
<1> QED BY <1>1, <1>2, <1>3
=============================================================================
