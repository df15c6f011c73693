--------------------------- MODULE RequestSummary ---------------------------
(***************************************************************************)
(* What the monitor says of the requests in a window of the log            *)
(* (monitor/metrics.py).  Logged has the fields of every record;           *)
(* NotGiven stands for a number that is missing, not one, or negative, all *)
(* of which the code leaves out.                                           *)
(***************************************************************************)
EXTENDS Measures

CONSTANT Logged     \* by record: event, inference, startedAt, duration, responseStart,
                    \* status, completed, failure, provider, alias
NotGiven == -1

\* _is_operational_error
IsOperationalError(r) ==
    \/ r.status = NotGiven \/ r.status >= 500
    \/ ~r.completed
    \/ r.status = 429
    \/ 400 <= r.status /\ r.status < 500 /\ r.failure
    \/ r.status = 404 /\ r.alias # "none"

\* Mistake: what is an operational error is counted here as well.
IsClientErrorAnyway(r) == 400 <= r.status /\ r.status < 500

\* _is_client_error
IsClientError(r) == 400 <= r.status /\ r.status < 500 /\ ~IsOperationalError(r)

\* The window's records, whatever path they are of.
InWindow(r, now, window) ==
    /\ r.event = "request"
    /\ r.startedAt # NotGiven
    /\ now - window <= r.startedAt
    /\ r.startedAt <= now

\* Those that ran in the window, started in it or before.
Overlaps(r, now, window) ==
    /\ r.event = "request"
    /\ r.inference
    /\ r.startedAt # NotGiven
    /\ r.startedAt <= now
    /\ r.duration # NotGiven
    /\ r.startedAt + r.duration > now - window

\* _circuit_events_in_window
CircuitEvent(r, now, window) ==
    r.event = "circuit" /\ r.startedAt # NotGiven /\ r.startedAt >= now - window

\* _metric_ms of each record that has one.
Values(rs, field) ==
    LET given == Filtered(rs, LAMBDA r : r[field] # NotGiven)
    IN  [i \in DOMAIN given |-> given[i][field]]

\* _latency_summary
LatencySummary(values) ==
    IF values = <<>> THEN <<>> ELSE <<Percentile(values, 50), Percentile(values, 95)>>

CountBy(rs, Test(_)) == Cardinality({i \in DOMAIN rs : Test(rs[i])})

\* The entry of an alias.
AliasSummary(rs, alias) ==
    LET own == Filtered(rs, LAMBDA r : r.alias = alias)
        durations == Values(own, "duration")
    IN  [count |-> Len(own),
         errors |-> CountBy(own, IsOperationalError),
         p95 |-> IF durations = <<>> THEN NotGiven ELSE Percentile(durations, 95)]

\* summarize_requests
Summary(rs, now, window) ==
    LET inWindow == Filtered(rs, LAMBDA r : InWindow(r, now, window))
        requests == Filtered(inWindow, LAMBDA r : r.inference)
        served == Filtered(requests, LAMBDA r : ~IsOperationalError(r))
        running == Filtered(rs, LAMBDA r : Overlaps(r, now, window))
        providers == {requests[i].provider : i \in DOMAIN requests}
        aliases == {requests[i].alias : i \in DOMAIN requests} \ {"none"}
    IN  [count |-> Len(requests),
         nonInference |-> Len(inWindow) - Len(requests),
         operationalErrors |-> CountBy(requests, IsOperationalError),
         clientErrors |-> CountBy(requests, IsClientError),
         providers |-> [p \in providers |-> CountBy(requests, LAMBDA r : r.provider = p)],
         responseStart |-> LatencySummary(Values(served, "responseStart")),
         total |-> LatencySummary(Values(served, "duration")),
         aliases |-> [a \in aliases |-> AliasSummary(requests, a)],
         maxConcurrency |-> MaxOverlap(
             [i \in DOMAIN running |->
                 [from |-> running[i].startedAt,
                  to |-> running[i].startedAt + running[i].duration]]),
         circuitEvents |-> CountBy(rs, LAMBDA r : CircuitEvent(r, now, window))]

=============================================================================
