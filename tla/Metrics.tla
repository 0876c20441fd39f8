------------------------------- MODULE Metrics -------------------------------
(***************************************************************************)
(* load_balancer/metrics.py: the window of latencies that record_request   *)
(* keeps and the percentiles that snapshot takes of it.  Latencies are     *)
(* whole numbers and so are percents; the ranks of Python's floats agree   *)
(* with these for the percents and window sizes that occur.                *)
(*                                                                         *)
(* Percentile is the algorithm, NearestRank says what it should return.    *)
(***************************************************************************)
EXTENDS Integers, Sequences, FiniteSets

\* record_request: the newest samples, `size' of them at most.
Recorded(window, latency, size) ==
  LET all == Append(window, latency) IN
  IF Len(all) > size THEN SubSeq(all, Len(all) - size + 1, Len(all)) ELSE all

\* math.ceil of n / 100.
CeilHundredth(n) == (n + 99) \div 100

AtLeast(lo, n) == IF n > lo THEN n ELSE lo
AtMost(hi, n) == IF n < hi THEN n ELSE hi

\* _percentile's index, counted from 1.
Rank(n, pct) == AtMost(n, AtLeast(1, CeilHundredth(pct * n)))

IsSorted(s) == \A i, k \in DOMAIN s : i <= k => s[i] <= s[k]

\* _percentile; 0.0 for no samples.
Percentile(s, pct) == IF s = <<>> THEN 0 ELSE s[Rank(Len(s), pct)]

-----------------------------------------------------------------------------
\* "Nearest-rank percentile": a sample that pct percent of the samples do not
\* exceed, and the least one.
NearestRank(s, pct, p) ==
  /\ p \in {s[i] : i \in DOMAIN s}
  /\ 100 * Cardinality({i \in DOMAIN s : s[i] <= p}) >= pct * Len(s)
  /\ \A k \in DOMAIN s :
       100 * Cardinality({i \in DOMAIN s : s[i] <= s[k]}) >= pct * Len(s) => p <= s[k]
=============================================================================
