--------------------------- MODULE MCLoadBalancer ---------------------------
(***************************************************************************)
(* Small instances of LoadBalancer: every backend is faulty, or one that   *)
(* is neither the first nor the last of the cycle.                         *)
(***************************************************************************)
EXTENDS LoadBalancer, Metrics, TLC

CONSTANTS r1, r2, r3

EveryBackend == 1..NumBackends

OneInTheMiddle == {2}

\* Nothing tells two requests apart but whether they may be retried.
RequestSymmetry == Permutations(Retryable) \cup Permutations(Requests \ Retryable)

\* Every sorted list of up to five samples has its nearest-rank percentiles.
Samples == UNION {[1..n -> 0..3] : n \in 1..5}
ASSUME PercentilesAreRight ==
  \A s \in Samples, pct \in {0, 1, 20, 50, 67, 95, 99, 100} :
    IsSorted(s) => NearestRank(s, pct, Percentile(s, pct))

\* A window is what a longer history ends with.
ASSUME WindowIsRecent ==
  \A s \in Samples, size \in 1..3 :
    LET window[n \in 0..Len(s)] ==
          IF n = 0 THEN <<>> ELSE Recorded(window[n - 1], s[n], size)
    IN window[Len(s)] = SubSeq(s, IF Len(s) > size THEN Len(s) - size + 1 ELSE 1, Len(s))
=============================================================================
