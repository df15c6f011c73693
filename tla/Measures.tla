------------------------------ MODULE Measures ------------------------------
(***************************************************************************)
(* The statistics the monitor (monitor/metrics.py) and the benchmark       *)
(* (bench_stage9_core.py, benchmark_stage9.py) make of what they measured. *)
(* A ratio is in hundredths.                                               *)
(***************************************************************************)
EXTENDS Integers, SequencesExt, Selections

CeilDiv(n, d) == (n + d - 1) \div d

\* Mistake: the rank is rounded down.
RankTruncated(n, ratio) == IF ratio * n <= 100 THEN 1 ELSE (ratio * n) \div 100

Rank(n, ratio) == IF ratio * n <= 100 THEN 1 ELSE CeilDiv(ratio * n, 100)

\* sorted(): what is less comes first, what is equal in the order it had.
Sorted(s, Less(_, _)) ==
    LET place == [i \in DOMAIN s |-> Cardinality({j \in DOMAIN s :
                     Less(s[j], s[i]) \/ (~Less(s[i], s[j]) /\ j <= i)})]
    IN  [k \in DOMAIN s |-> s[CHOOSE i \in DOMAIN s : place[i] = k]]

\* percentile: the nearest rank, of at least one value.
Percentile(values, ratio) == Sorted(values, <)[Rank(Len(values), ratio)]

\* The sum of none of the values, of the first, of the first two and so on.
PartialSums(values) ==
    LET upTo[n \in 0 .. Len(values)] == IF n = 0 THEN 0 ELSE upTo[n - 1] + values[n]
    IN  upTo

SumOf(values) == PartialSums(values)[Len(values)]

\* Mistake: where one interval ends and another starts, they overlap.
BeforeStartsFirst(a, b) == a.at < b.at \/ (a.at = b.at /\ a.delta > b.delta)

\* sorted() of (time, delta) pairs: ends come before starts.
Before(a, b) == a.at < b.at \/ (a.at = b.at /\ a.delta < b.delta)

\* When each interval begins, and then when each ends.
Boundaries(intervals) ==
    [i \in DOMAIN intervals |-> [at |-> intervals[i].from, delta |-> 1]]
        \o [i \in DOMAIN intervals |-> [at |-> intervals[i].to, delta |-> -1]]

\* max_concurrent_requests and log_max_overlap: the most intervals running at once.
MaxOverlap(intervals) ==
    LET boundaries == Sorted(Boundaries(intervals), Before)
    IN  Max(Range(PartialSums([i \in DOMAIN boundaries |-> boundaries[i].delta])))

=============================================================================
