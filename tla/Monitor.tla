------------------------------- MODULE Monitor -------------------------------
(***************************************************************************)
(* The monitor's status (monitor/app.py): the log's reader, and a summary  *)
(* of what it delivered for each of its windows.                           *)
(***************************************************************************)
EXTENDS RequestLog, RequestSummary

CONSTANTS
    Now,            \* when the summaries are made
    Windows         \* summary_windows_seconds

ASSUME MonitorAssumption ==
    /\ Now \in Nat /\ Windows \subseteq Nat
    /\ Records \subseteq DOMAIN Logged
    /\ \A r \in Records :
          /\ Logged[r].startedAt \in Nat \cup {NotGiven}
          /\ Logged[r].duration \in Nat \cup {NotGiven}
          /\ Logged[r].responseStart \in Nat \cup {NotGiven}
          /\ Logged[r].status \in (Nat \ {0}) \cup {NotGiven}
          /\ Logged[r].completed \in BOOLEAN

\* read_and_summarize
Summaries ==
    LET records == [i \in DOMAIN result.records |-> Logged[result.records[i]]]
    IN  [w \in Windows |-> Summary(records, Now, w)]

Requests(w) == {r \in Range(result.records) : InWindow(Logged[r], Now, w) /\ Logged[r].inference}

\* The sum of all counts.
Total(counts) == Cardinality(UNION {{k} \X (1 .. counts[k]) : k \in DOMAIN counts})

\* Whatever rotations a clean snapshot was read through, its summaries account for
\* each request in it once: under one provider, and under one of operational error,
\* client error and success.  The greatest concurrency was reached at some time of
\* the window, by requests that were then running, and exceeded at none; no more than
\* a twentieth of the successes took longer than the 95th percentile, and not all
\* that took as long can be spared.
SummaryAccountsForAll ==
    Delivered /\ result.skipped = 0 =>
        \A w \in Windows :
            LET summary == Summaries[w]
                served == {r \in Requests(w) : Logged[r].completed /\ Logged[r].status \in 1 .. 399}
                Running(t) == {r \in Range(result.records) :
                    /\ Logged[r].event = "request" /\ Logged[r].inference
                    /\ NotGiven \notin {Logged[r].startedAt, Logged[r].duration}
                    /\ Logged[r].startedAt <= t
                    /\ t < Logged[r].startedAt + Logged[r].duration}
                timed == {r \in Requests(w) : Logged[r].duration # NotGiven /\
                                              ~IsOperationalError(Logged[r])}
            IN  /\ summary.count = Cardinality(Requests(w))
                /\ Total(summary.providers) = summary.count
                /\ summary.operationalErrors + summary.clientErrors + Cardinality(served)
                       = summary.count
                /\ summary.maxConcurrency =
                       Max({Cardinality(Running(t)) : t \in Max({0, Now - w}) .. Now})
                /\ summary.total # <<>> =>
                       LET Above(v) == Cardinality({r \in timed : Logged[r].duration > v})
                           Least(v) == Cardinality({r \in timed : Logged[r].duration >= v})
                       IN  /\ 20 * Above(summary.total[2]) <= Cardinality(timed)
                           /\ 20 * Least(summary.total[2]) > Cardinality(timed)

=============================================================================
