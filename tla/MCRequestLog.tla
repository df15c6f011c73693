----------------------------- MODULE MCRequestLog -----------------------------
(***************************************************************************)
(* A log that rotates twice over while a reader polls it, with records of  *)
(* every kind a summary tells apart.                                       *)
(***************************************************************************)
EXTENDS Monitor

Served(startedAt, duration, provider) ==
    [event |-> "request", inference |-> TRUE, startedAt |-> startedAt, duration |-> duration,
     responseStart |-> duration, status |-> 200, completed |-> TRUE, failure |-> FALSE,
     provider |-> provider, alias |-> "chat"]

LoggedRecords ==
    <<Served(1, 6, "local"),                                    \* ran into the short window
      [Served(7, 2, "openai") EXCEPT !.failure = TRUE],         \* starts as the first ends
      [Served(7, 1, "none") EXCEPT !.status = 404],             \* of a known alias
      [Served(6, 0, "none") EXCEPT !.status = 401, !.alias = "none"],
      [Served(7, NotGiven, "none") EXCEPT !.completed = FALSE, !.responseStart = NotGiven],
      [Served(8, NotGiven, "none") EXCEPT !.event = "circuit"],
      [Served(8, 1, "none") EXCEPT !.inference = FALSE, !.alias = "none"],
      Served(12, 1, "local")>>                                  \* not yet, by this clock

TwoWindows == {4, 20}

=============================================================================
