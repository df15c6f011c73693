# A model of the local-first inference gateway

The repository is an OpenAI-compatible HTTP gateway in front of a local Ollama
server. It serves chat and vision requests locally, falls back to OpenAI for the
aliases that may leave the house, keeps API keys in a file, logs requests to
rotating files, and is kept alive on Windows by scheduled tasks, a watchdog and an
installer that swaps deployments. This directory holds TLA+ modules of the parts in
which order, failure and time matter, TLC configurations that check them on small
instances, and TLAPS proofs of the theorems that hold for every instance.

Paths in this file are relative to the repository; `gateway/` stands for
`src/gateway/`. `PROJECT.json` maps each definition to the lines it translates.

## Inventory

| Component | Where | State it keeps | Operations |
|---|---|---|---|
| Circuit breaker | `gateway/circuit_breaker.py` | state, failures in a row, generation, probe slot, time of opening | `begin`, `record_success`, `record_failure`, `release` |
| Chat relay and fallback | `gateway/relay.py`, `openai_fallback.py`, `relay_common.py`, `deadline.py`, `main.py` | one task per request: deadlines, breaker token, the open upstream response | route, call local, classify, commit a stream, fall back, clean up |
| SSE inspection | `gateway/relay_common.py` | bytes of the unfinished line and event, was `[DONE]` seen | feed a chunk, classify the first event |
| API key store | `gateway/api_keys.py`, `file_io.py`, `key_cli.py` | the key file, its lock, temporary files | issue, authenticate, revoke, list; provision with a protected file |
| Request log and reader | `gateway/observability.py`, `monitor/metrics.py` | log files by rotation age; the reader's caches and offset | append, rotate; poll |
| Request pipeline | `gateway/middleware.py`, `observability.py`, `errors.py` | bytes received, has the response started | authenticate, limit, observe, record |
| Embeddings, responses, validation | `gateway/embeddings.py`, `responses.py`, `validation.py`, `routing.py` | the routing table, built at the start; else none beyond one request | convert and validate |
| Watchdog | `gateway/watchdog.py`, `scripts/task_control.ps1` | failures, next restart and cooldown per target | check, restart |
| Deployment update | `scripts/deployment_swap.ps1`, `stage6_tasks.ps1`, `install_stage6.ps1` | the directories `app`, `app.staging`, `app.previous`; which tasks run | stage, stop, swap, start, restore |
| Process supervisor | `scripts/supervisor_common.ps1` | attempt, delay, child | start, wait, back off |
| Monitor | `gateway/monitor/` | none beyond the log reader | probe, summarise |
| Benchmark and its report | `scripts/benchmark_stage9.py`, `bench_stage9_report.py`, `bench_stage9_core.py` | a cached result per phase, the report's files, a gateway of its own | reuse or measure each phase, judge, report |
| Quality evaluation | `scripts/bench_stage9_quality_deep.py` | the questions, the answers of each system, the judge's scores, a report | collect, retry, judge, score |

How they interact: every request passes the pipeline (which authenticates it through
the key store) and then the relay; the relay asks the breaker of its alias before
each local attempt and reports the outcome after it, several awaits later; the
watchdog calls the gateway's health endpoint with a key of its own and restarts tasks;
the installer stops the watchdog and the tasks, swaps the directory they all run from
and issues the watchdog's key; the monitor reads the log files while the gateway
rotates them. The benchmark starts a gateway, reads its log, and takes the verdict on
quality from the report of the quality evaluation.

What is hard in it:

- *Interleaving.* All requests share one event loop and one breaker per alias, and
  meet only at awaits; an attempt may outlive several transitions of its breaker.
- *Cancellation.* A request can be cancelled in every await, in the closing of an
  upstream response too, and must give back a probe slot whatever happens.
- *Two budgets.* The local attempt and the whole request have deadlines counted from
  the arrival of the headers; the upload of the body counts.
- *Streams.* Once the first event is out, no other provider may take over.
- *Processes and crashes.* Key CLIs and the gateway share a file; any of them may die
  between any two steps. The log writer may die in mid-line.
- *Names that change hands.* Log files are renamed under a reader, deployments under
  running tasks.
- *Results that outlive their conditions.* The benchmark and the evaluation cache what
  took hours, may be cut short anywhere, and are run again with other arguments.

What makes each component correct is stated by the properties of its module, listed
below; `PROJECT.json` lists the hazards line by line with the properties that would
catch them.

## Modules

| Module | Models |
|---|---|
| `CircuitBreaker` | the breaker's methods as operators on a record |
| `AbstractBreaker` | what a breaker promises, without generations or flags |
| `BreakerClients` | one breaker under any number of concurrent requests |
| `RelayPartsProofs` | theorems about `BreakerClients` and `SseStream` |
| `ChatRelay` | chat requests from headers to last byte, with one breaker per alias |
| `RelayProofs` | theorems about it |
| `KeyRegistry` | what the key store promises: a table with instantaneous operations |
| `ApiKeyStore` | the key file, its lock, atomic replacement, failures and deaths |
| `ApiKeyStoreProofs` | theorems about it |
| `Selections` | the elements of a sequence at given positions |
| `Induction` | induction over numbers, and what is true of selections and of what `Measures` computes, for the proofs |
| `RequestLog` | the log writer with rotation, and the reader in the monitor |
| `RequestLogProofs` | theorems about it and about `Monitor` |
| `Measures` | ranks and overlaps, as the monitor and the benchmark compute them |
| `RequestSummary`, `Monitor` | the monitor's summaries, of what the reader delivers |
| `Watchdog` | checks and restarts of several targets |
| `SseStream` | inspection and tracking of one stream, cut into any chunks |
| `Json`, `Routing` | what the gateway tells apart in JSON; the routing table |
| `Embeddings`, `Responses` | what these two routes make of a request and of an answer |
| `RequestPipeline` | one request through all the layers around the routes, and through these two |
| `PipelineProofs` | theorems about it |
| `Deployment` | the update of the copy that the scheduled tasks run |
| `TaskProofs` | theorems about it and about `Watchdog` |
| `Verdicts` | the figures and verdicts of the benchmark's report |
| `Benchmark` | the benchmark: phases, caches, its gateway, the report |
| `QualityEvaluation` | the evaluation of quality: caches, retries, the blind judge |
| `BenchmarkSuite` | the two composed |
| `BenchmarkProofs` | theorems about the benchmark and the evaluation in that composition |
| `MC*` | instances for TLC; the `.cfg` files name the bounds |

Operators whose comment begins with "Mistake:" are plausible errors of the code. No
specification uses them; putting one in place of the definition after it must make a
property fail, which `PROJECT.json` lists under `mutants`. They show that each property
depends on the code it is about.

### CircuitBreaker, BreakerClients

A breaker is a record with the fields of `CircuitBreaker.__init__`; `Begin`,
`RecordSuccess`, `RecordFailure` and `Release` return the changed record. The clock is
reduced to `sinceOpened`, which stops at `OpenSeconds` because nothing is compared with
more. `BreakerClients` lets any number of requests call them: `Start` and `Skip` are the
outcomes of `begin`, `Succeed`, `Fail` and `Abandon` the three reports. As the breaker
is used from one event loop and its methods do not await, one call is one action.

Safety: the probe slot is taken exactly while an unfinished request holds the probe
(`ProbeSlotOwned`); nobody but the probe's holder decides a half-open circuit
(`OnlyProbeDecides`). Liveness: `RecoversForGood`, once there are no more faults the circuit
closes for good, unless a probe is never reported: nothing ends a committed stream whose
client no longer reads, and while it lasts its alias stays with OpenAI. The run leaves to the proofs that there
is one probe at most (`SingleProbe`), that tokens agree with the state they were given by
(`TokensMatchState`) and that a closed circuit is below its threshold
(`FailuresBelowThreshold`): a breaker that broke these would not keep its promise either.

`AbstractBreaker` has no generations and no flag: it knows the set of requests whose
report counts, and forgets all of them at every transition. `KeepsPromise` says that
the breaker implements it; this is what the generation numbers are for.

### ChatRelay

A request is in the phase of the await it is suspended in (`receiving`, `sending`,
`reading`, `inspecting`, `asking`, `streaming`, ...); all that a handler does between two
awaits is one action, calls of the breaker included. `age` counts time from arrival,
`limit` is the age at which the current `anyio.fail_after` fires, `local` and `openai`
are the upstream responses (`open` ones must be closed by somebody), `served` is whose
bytes the client has seen. Bodies, headers and validation are reduced to the outcomes
they lead to, each a disjunct. Cancellation is possible in every await that is not
shielded; `discarding` is the one close in `_attempt_local` that is neither shielded nor
bounded by a deadline, and `StreamAbandoned` has both outcomes of a close that is
cancelled in turn.

Safety: `ProvidersKeptApart` is `ExportPolicy` (who may leave for OpenAI) and
`OneProvider`; `NothingLeaks` is `UpstreamsReleased` and the breaker's `ProbeSlotOwned`
again, now along all paths of the relay; `BudgetsKept` is `StartsInTime` and
`NoBlameWithoutCall`; and `FallbackTried`. `KeepsBreakerPromise` shows
that the relay uses each breaker only in ways `AbstractBreaker` allows. Liveness:
`WaitsAreBounded`, a request ends or stays for ever in an await that has no deadline. These
are `Undeadlined`: the close at `relay.py:306` or `312` (`discarding`), a committed stream
(`streaming`; `relay.py:410`, `relay_common.py:450`), which waits for the client at each
`yield` and for as long as the upstream sends anything, and its close (`closing`). Closes
under a shield are part of the step they belong to, and taken to end with it.

`UpstreamsReleased` exempts answers "dropped": a request cancelled inside
`await response.aclose()` at `relay.py:306` or `312` may leave the response to the
garbage collector.

### ApiKeyStore, KeyRegistry

A caller is a worker thread of the gateway or a CLI process; its `phase` is its place in
`ApiKeyStore`'s method: waiting for the lock, inside the locked block before and after
reading, writing the temporary file, flushed, replaced, and for authentication deciding
after the block. The process lock and the file lock are always taken together and are
one variable. A document is the status of every key: salts, digests and names are left
out, as are ACLs and ownership. Any caller can fail in every step that can raise, and
die in every phase; death frees its lock and leaves a temporary file nobody looks for.
That giving back the file lock does not fail is assumed.

Safety: `LockOwned`, and `StoreReadable`, which is proved and follows from the
refinement. Refinement: `KeepsRegistry` says that every
operation of the store is one of `KeyRegistry`, which has neither file nor lock: it takes
effect at one moment between call and return or has no effect. So no issue or revocation
is lost, a revoked key is never active again, an error means that nothing was done, and
a key is accepted only if it was active at some moment of the request. Liveness:
`EveryCallReturns`, from the two timeouts of the lock.

### RequestLog

The writer appends lines in two pieces, so that a poll may meet half of one, and rotates
file by file: remove the oldest, rename each, open a new one. `RotatingFileHandler` is
the standard library's and modelled from its use (external in the map). A rotation may
fail in any of its file operations, which costs the record that called for it, and the
gateway may be killed anywhere, a torn line included. The reader takes one file
operation per action: list the directory, `stat` a rotated file, read it, read on in the
active file. Its caches are those of `LogReader`. Two simplifications: listing the
directory is one step, and no two files have the same size and modification time.

`CleanSnapshotsOrdered`: a snapshot that skipped nothing has each record once and in
order, through any renaming. `NothingElseLost` is two things. `QuietReadsComplete`: while no file moves nothing is lost
to a cache or offset. `OnlyTornLinesInvalid`: half-written lines are waited for and not
counted as damaged. A clean snapshot may still miss a file that moved on between two
steps of the reader; the code does not promise otherwise.

`Monitor` adds the summaries (`RequestSummary`, `Measures`): which records are within a
window, which of them are errors of whom, latencies at a rank, and how many requests ran
at once. `SummaryAccountsForAll` compares them with definitions over the set of records:
every request counted once, the greatest overlap reached at some moment and exceeded at
none. It is checked of every clean snapshot of the run, with records that touch, that ran
into the window, that have no duration or are of the future. Times are whole units: the
log rounds to milliseconds, which can make two requests touch that overlapped by less.

### Watchdog

`step` is the place in `Watchdog._check`: before and after reading the task's state,
after the probe, and inside the restart command. Windows is a state per target that
anybody may change at any time, the endpoint behind it likewise; a service without a
probe always answers. `RestartWorks` and `RestartFails` are `task_control.ps1 Restart`:
one that fails may have stopped the task, or started it and been too late to say so.
The watchdog may die anywhere and starts again with nothing remembered (`Die`). Failures
are counted up to the threshold, above which nothing depends on them.

The names of `Watchdog` that `Deployment` has too begin with `Watchdog`
(`WatchdogSpec`, `WatchdogTypeOK`), since `TaskProofs` is about both.

Safety: `RestartsJustified`, that is `OnlyTroubledRestarted` and `RestartsSpaced` (within
one life of the watchdog, which does not keep its cooldowns). Liveness: `StoppedAreStarted`.

### SseStream

A stream is a sequence of tokens, each a byte or a short run of bytes that the code
treats as one (`CR`, `LF`, the field `data: [DONE]`, a valid and an invalid event, a
comment, text): every text of a given length is cut into chunks in every way. Before the
first event the whole prefix is classified again with every chunk, as
`secure_success_stream` does; after it, `SseDoneTracker` keeps an unfinished line and an
unfinished event. `Inspected`, `Fresh`, `Lines` and `TooMuch` are the places where the cut
could matter. Its specification and type invariant are `StreamSpec` and `StreamTypeOK`, as
`RelayPartsProofs` is about `BreakerClients` too.

`CommitsOnFirstEvent` and, in `EndedAsItsText`, `DoneByContent` compare the outcome with a
definition over the whole text. The other parts of `EndedAsItsText`: `CompletedIsWhole`: a stream that counts as completed has its `[DONE]` and
nothing of it was held back. `TruncatedOnlyOversized`: an error for size only if some
line or event really is longer than the limit, apart from what the finding below is about.

### RequestPipeline

`phase` is the await that the request is in, from `authenticating` to `leaving`; the layers
have no other state than what they close over: `body` (bytes received), `started`,
`status` and `completed` of `ObservabilityMiddleware`. The chat route is reduced to its
answers. For the two that convert, the gateway is started with a routing document
(`Routing` refuses those it must not start with), a request body is any of a set of JSON
values with one thing wrong or odd in each, and so is the answer of the provider:
`Embeddings` and `Responses` validate and convert them. What is anywhere inside a value
(`Inside`, of which the code keeps a list `pending`) is looked for down to five levels; the
assumption `IsJson` on the constants says that nothing lies deeper. Any await may be cancelled, the store and
the routes may raise, and `send` may raise or be cancelled before or after the message
got through. An exception reaches `Unwind`, which sends the 500 if no response was
begun, and everything ends in `Record`.

Safety: `OneTruthfulExchange` is `OneResponse` (with what may be cached on its way) and
`RecordTellsTruth` (the record claims no status, completion or provider that the client
has not seen); `TypeOK` includes the limit of the body. `EmbeddingsMatchInputs`: one
vector per text, in order, of the alias' dimensions, each the local one padded with
zeros, and of numbers that a float32 can hold.
`ResponsesMatchProvider`: the text, status and token counts of the converted answer are
those of a choice of the provider's. Liveness: `EveryEndRecorded`, a request is recorded in
the end unless it stays for ever in the relay, which is `ChatRelay`'s part (`Relaying`), or
in a `send` to a client that does not read (`replying`, `sending`).

### Deployment

`pc` is the place in `Update-Deployment`, `todo` what is left of the plan it is stopping or
starting tasks by. A directory holds a version of the copy and how far it has come:
being filled, verified before the swap, confirmed in its place, or half removed. Each
removal, move, stop and start may fail; `StopTimesOut` is a stop that is no longer waited
for and may come later (`StopLate`). A directory that a task runs in cannot be moved or
removed. Around the update tasks end by themselves (`Exit`), Windows restarts them
(`Retry`, `RestartCount` of the registered task), the watchdog starts what is down
(`Revive`), and after a `Reboot`, which ends the update, all registered tasks start. The
ACLs, the check of who owns a task, and the watchdog's key are left out.

`PlaceSafe`: what SYSTEM runs is never an unverified copy, at any instant or after any
reboot, and the copy in place is not given up before there is another.
`TasksAsTheyWere` is two things. `UndoneMeansRestored`: an update that fails and finds its
way back leaves the copy and the tasks as they were. `StoppedStaysStopped`: why the watchdog is stopped first. All of them
excuse what they say: an administrator who has been told to look, a task that Windows
restarted or that stopped late. One case is outside of what the code promises: after a
reboot between the two moves of the swap the place is empty, and the next update removes
`app.previous` before it has staged a copy (`deployment_swap.ps1:121`).

### Benchmark, Verdicts

A run goes through the phases its arguments need (`Needs`), in order. `Reuse`, `Refuse` and
`Produce` are the three outcomes of `cached`: a result whose conditions match, one that is
torn or of other conditions, and none. A result is measured by the phase's action, or, in
the load phase, by one action per stage; the streams, requests and readings it depends on
are chosen from small sets, at most `MaxTroubles` of them other than usual. Writing a file
takes two steps, as `write_text` empties it first. The first two phases start a gateway,
which every way out of them but a kill closes. `Verdicts` are the figures of the report,
as fractions, with the three-valued verdicts that they lead to; what no verdict or
suggestion reads is left out, as are the parsing of the dataset and the wording.

`ReportOfOneMeasurement`: all that a report is made of was measured under its conditions,
and the judge scored the very answers it reports. `FiguresEarned` (in `VerdictsEarned`): a
verdict passes only on what was measured, and was well, stated over the streams and
requests as they came and not over the figures. `RunsEndClean`: no gateway is left, no file
half-written, unless the run was cut short (`killed`): by a kill, or by a write that
failed, which leaves the same. `ResultsKept`: without `--force` nothing is measured twice,
and no cache that was found is replaced, a torn one included.

### QualityEvaluation, BenchmarkSuite

A run fetches the questions or uses those there are, collects the answers of each system or
reuses them if their fingerprint matches, retries what failed, has the judge score those
of the hard questions under labels that differ by question, and writes a report. A text is
good or poor, and the judge gives the same text the same score; a rotation of the systems
stands for the seeded shuffle. The automatic grades and the times are left out: no verdict
reads them. `BenchmarkSuite` lets runs of either kind follow each other, one at a time.

`EvaluationOfOwnAnswers`: what is reported of a system is what its own answers, given under
the conditions of the run, came to. `QualityEarned` (in `VerdictsEarned`): the benchmark
passes the quality only on such scores of every system compared, none of whose answers
failed.

## Runs

| Run | Configuration | Shows | Bounds and why they are enough |
|---|---|---|---|
| `breaker_clients` | `MCBreakerClients.cfg` | safety, refinement, recovery | 4 requests: a probe, a late report of an earlier generation, and two racing; threshold 2 tells a streak from a failure; 6 faults open it, fail a probe and lose one |
| `relay_paths` | `MCChatRelay.cfg` | the relay's safety, tokens and breakers along all paths; no await but those listed goes on for ever | 2 requests of 2 eligible aliases and a local one, so of one alias or of two; local limit 2 and total 3 separate the budgets; the proofs cover any number of requests and aliases, and any budgets |
| `key_store` | `MCApiKeyStore.cfg` | safety, refinement, every call returns | 2 callers, 2 keys: two writers of different keys, or a writer and a reader of one; the proofs cover any number |
| `key_store_discard` | `MCApiKeyStoreDiscard.cfg` | finding, below | 2 callers |
| `request_log` | `MCRequestLog.cfg` | snapshots, and what the monitor makes of them | 8 records, 2 to a file, 3 files: three rotations, the last of which drops a file; 1 crash |
| `request_log_duplicates` | `MCRequestLogDuplicates.cfg` | finding, below | as above, 4 records |
| `watchdog` | `MCWatchdog.cfg` | whom it restarts and when; a stopped target is started | a gateway whose probe may answer 401, and a service without a probe; threshold 2; cooldown 1, then 2, then the maximum |
| `sse_stream` | `MCSseStream.cfg` | independence of chunks | texts of 8 tokens, chunks of up to 3, limits that some lines, events and prefixes reach: an event takes 2 to 4 tokens |
| `sse_done_truncated` | `MCSseDoneTruncated.cfg` | finding, below | as above |
| `request_pipeline` | `MCRequestPipeline.cfg` | one response, one record; every end is recorded; conversions | every path; a limit of 2 with pieces of 1 to 3; 2 pieces of an answer; a JSON value for each check of the code; 2 dimensions padded to 3 |
| `deployment` | `MCDeployment.cfg` | what lies in the place, what a failed update leaves | a task and the watchdog, which is enough for every order of stopping; 2 updates, so that one meets what another has left; 2 reboots |
| `benchmark` | `MCBenchmark.cfg` | what a report and its verdicts rest on | 3 runs (`MaxRuns`): one leaves a cache, one changes it, one reports; 1 thing that does not go as usual (`MaxTroubles`): an answer, a worker, a reading, a score, a failure or a kill; two datasets, two models, load stages of 1 to 3 workers; 3 systems, 3 questions, 2 of them judged |

Deadlock is checked except where the system really stops: in
`ChatRelay` and `RequestPipeline` when all requests are done, in `RequestLog` when the
records are used up, in `SseStream` at the end of the text, in `Deployment` when the
updates are used up, in `BenchmarkSuite` when the runs are.

Fairness. `BreakerClients`: time passes, and the alias keeps receiving requests; without
traffic an open circuit stays open, because only `begin` looks at the clock. No attempt is
assumed to end. `ChatRelay`: time passes, and `anyio.fail_after` fires; no upstream or
client is assumed to answer, to read or to close. In particular no committed stream is
assumed to end: httpx's read timeout (`main.py:45`) runs only while the gateway reads, and
anew for each read. `ApiKeyStore`: an operation's own steps are
taken, the lock's timeout being one of them; nobody is assumed to get the lock.
`Watchdog`: its loop goes on, time passes, and it does not die for ever; of the restarts
of a target that are tried again and again one works, without which nothing could be
promised.
`RequestPipeline`: the awaits of the layers and of the routes end, one way or another,
because each has a deadline: the lock of the key store, the budget for the body, that of
`/api/embed`. The relay is not assumed to end, nor is a `send`, which has no deadline.

## Findings

`key_store_discard`: `key_cli._issue` revokes a key it could not protect, and that
revocation may fail like any other. `docs/OPERATIONS.md:91` promises that no unusable key
remains; one does, active and unknown to everybody, until an administrator lists the
keys.

`request_log_duplicates`: if the active log file is renamed after `LogReader` has listed
it and before it is opened, `_read_active_increment` returns False without giving up
what it had accumulated, and the same lines have just been read under the rotated name.
That snapshot, and only that one, counts them twice, contrary to the comment at
`metrics.py:238` and the name of `test_log_reader_survives_rotation_without_duplicating_records`.

`sse_done_truncated`: `SseDoneTracker.feed` checks its limit after it has found `[DONE]`,
with all that follows in the same chunk still pending. If that is more than the limit, the
stream is declared truncated "without `[DONE]`" (`relay_common.py:353`), the chunk is not
passed on and the breaker counts a failure; cut differently, the same stream completes.

What was met besides, and is not a run of its own:

- Once a stream is committed, nothing limits how long the client may take to read it
  (`relay.py:410`). If its request is the probe of a half-open circuit, the alias goes to
  OpenAI for that long.
- `bench_stage9_report.py:129` calls completeness a condition for the criteria;
  `evaluate_pass_criteria` does not read it, only `followup_suggestions` does.
- `bench_stage9_quality_deep.py:863` keeps the mapping of labels from where a running judge
  could read it; when the judge is run again, the mapping of the run before is there.
- `bench_stage9_quality_deep.py:18` says that a run that was cut short goes on with the same
  command. A kill inside `write_text` leaves a torn file, which every later run
  fails on, until `--force`; for `kmmlu_questions.json` even then. Scores out of range are
  cached before they are validated, with the same effect.
- The conditions of the local and the load phase do not name the model the gateway routes
  `chat` to, unlike those of the evaluation.
- An embedding answer of the wrong length is cached, and the report fails on it until
  `--force`.

## Proofs

The theorems hold for every value of the constants that satisfies the named assumptions.

| Assumption | Says |
|---|---|
| `BreakerAssumption` | threshold and open time are positive numbers |
| `StreamAssumption` | chunks are not empty; the inspection limit is a positive number, the bound a number |
| `RelayAssumption` | both budgets are positive numbers, and no alias is both eligible and local only |
| `StoreAssumption` | the special values are not among the ordinary ones |
| `WatchdogAssumption` | there is a target; a service has no key; threshold and cooldowns are positive numbers |
| `DeploymentAssumption` | the installer's list has each task once; the watchdog has a name; the bounds are numbers |
| `BenchmarkAssumption` | the identifiers of a dataset's items are unique, which `_parse_generation` enforces (`bench_stage9_core.py:97`); arguments name a dataset, and lists of levels and of distinct models, none of which has the label of the local one (`benchmark_stage9.py:41`); the usual answers and readings, and the answer 400, are among all; the number of load prompts and the bounds are numbers |
| `AnswersAssumption` | a stream that has its end, and no line that cannot be read, came whole; times are whole units; a worker's requests end within the stage, and not before they begin |
| `QualityAssumption` | the judged items are a sequence of questions; every text has a score from 1 to 10, as the validated scores are (`bench_stage9_quality_deep.py:515`); the systems of a command are distinct, as keys of its arguments are |
| `PipelineAssumption` | the body limit is a positive number, the bound a number; routing documents, requests and answers are JSON (`IsJson`), no deeper than `Inside` looks |
| `DimensionsAssumption` | both dimensions are positive numbers, the native ones no more than the compatible |
| `LogAssumption` | there is at least one backup and one line to a file; the bounds are numbers |
| `MonitorAssumption` | each record has what the gateway logs of a request: times are whole units or missing, a status is positive or missing; now and the windows are whole units |

`MaxRecords`, `MaxCrashes` and other bounds only keep the runs finite: as the theorems hold
for each value, they hold of an execution of any length.

`BreakerClients`. `IInv` joins `TypeOK`, `TokensMatchState`, `ProbeSlotOwned`, `SingleProbe`
and `FailuresBelowThreshold`. None of the parts is inductive alone: that the slot is
owned needs that a current probe token can only exist in the half-open state, which
needs that no token comes from a later generation. Lemmas say what each method of the
breaker returns; one lemma per action shows that it keeps `IInv`; `SlotSafety`,
`ProbeAloneDecides` and `Refinement` (each step maps to a step of `AbstractBreaker` or to
none) follow.

`SseStream`. `StreamInv` joins types, `CommitsOnFirstEvent` and `TruncatedOnlyOversized` with
`InStep`: what the client has and what waits is what was received, and `Tracks`, the tracker
is right of what the client has. That it knows of `[DONE]` exactly when the text has one is
not inductive; what it holds must be known too. `Tracks` says that the text is one that has
been read (`Behind`) and the unfinished line kept of it. Of the text read, made uniform, the
data lines kept are those behind its last blank line (`Reads`), and a LF is awaited only if
its last byte is a CR and no line has begun. The argument follows the tracker.

- *Texts.* The properties speak of positions in a uniform text. Lemmas say what one byte more
  adds to it (`UniformLonger`, `UniformGrows`), and what a blank line (`BlankLine`), a line
  (`TextLine`) or a part of one (`RestOfText`) does to its blank lines and events.
- *Lines.* What `_next_sse_line` returns (`NextLineFacts`), that the lines of a buffer are
  read without a gap up to its last break (`LinesFacts`), and what each makes of the event
  (`LineRead`); by induction over the lines read, all lines of a buffer (`AllRead`). The
  verdict on a prefix, which reads with the same operators, follows (`ClassifyFacts`).
- *Chunks.* Feeding a chunk is reading on in the text (`FedFacts`), because the half of a
  CRLF that was cut adds nothing to the uniform text (`FreshFacts`).

`CommitmentIsByContent` and `EndIsByContent` follow, for chunks of any size.

`ChatRelay`. All the safety properties of the run `relay_paths` are proved, in the three
parts of `RelayProofs`.

- *One request.* `RelayInv` joins `TypeOK` and, per request, `Conduct` (what it has done
  agrees with the await it is in), `Timing` (no await outlasts its deadline, and the
  deadline is that of the provider asked) and `Holding` (a token is held only between the
  local call and the report, on an eligible alias). It is needed because `ExportPolicy`
  alone is not inductive: that a request about to ask OpenAI has not been refused follows
  from the phases in which a refusal can be on record. As steps of one request leave the
  others untouched, one lemma per action looks at one request. `ProvidersApart`,
  `ResponsesClosed`, `FallbackNotSkipped` and `BudgetsSafe` follow.
- *The probe slots.* `SlotKept` relates one breaker and the tokens of its requests as
  values, so that lemmas about `Begin` and `Reported` settle it without the relay;
  `KindsOfSteps` shows that to breakers and tokens the actions of the relay come in four
  kinds, and that a request that runs out of time in routing is a `Begin` and a `Release`.
  `SlotInvariance` and `NothingLost` follow.
- *The refinement.* Each kind of step is, on each alias, a step of `AbstractBreaker` or none
  (`BreakersKeptAsPromised`).

`ApiKeyStore`. `IInv` adds to types and safety that the copy a caller is about to write
differs from the file by its own change only (`CopyUpToDate`, true because the lock is
held from before the file is read), and that phases fit the operation (`PhaseFitsCall`).
One lemma per part shows that no action of a caller, death included, breaks it. For the
refinement each action is either invisible to the registry or one of its operations:
`ReplaceStep`, giving the temporary file the store's name, is the moment of every issue
and revocation, `AuthenticateStep`, the reading under the lock, that of every acceptance.

`RequestPipeline`. `PipelineInv` joins to `TypeOK` seven parts. That a record tells the truth is
not inductive: `Progress` says that what has been counted was sent before it was counted,
`WireOK` that the wire holds a beginning of the one reply, `Attributed` whose answer the
reply is, `Recorded` that the record repeats the counts. `Routed` (which awaits lie on the
way of a path) is what excludes a second reply. The steps come in two kinds, those up to an
answer, which leave the wire alone, and those after it, which leave the answer alone
(`BeforeApproaches`, `AfterSettled`); `ExchangeIsTruthful` follows. For the two conversions
`Converted` keeps that the request passed its contract, and the answer its check, before
anything was made of them. The rest is about JSON: what a check found out of a value's parts
(`InsideFacts`) is what makes each step of the conversion defined. Of `Embeddings`, that
every vector has the dimensions of the alias and its values are the local server's
(`VectorsAsAsked`), and that a table which could be built resolves every required route
(`RequiredResolved`); of `Responses`, that the choice taken has something to say
(`OutputChosen`), that counts add up (`UsageFacts`) and that nothing of the input is left out
(`RelayedFacts`). `EmbeddingsAreMatched` and `ResponsesAreMatched` follow, for any table and
any JSON.

`Watchdog`. That only a target in trouble is restarted, and none too soon, is a property of
steps; `WatchInvariance` says what is known of each target at each place of `_check`, which
is what makes the guards of the restart mean what they should. `WatchdogTypeCorrect` and
`RestartsAreJustified` follow, for any targets.

`Deployment`. `DeploymentInv` joins to `TypeOK` what lies in each directory at each `pc`
(`Versions`), what is left of the plans (`Plans`), that nothing is swapped before the
watchdog is down (`WatchdogFirst`) and that what stands in the place has been verified or
is being undone (`Tested`). `PlaceSafe` alone is not inductive: that `app.previous` may be
removed follows from what `app` was found to be several steps before. `PlaceIsSafe` and
`TasksRestored` follow, for any tasks and plans.

`RequestLog`. `OrderInv` is about order. Lines end in the order of their records, in a file
and from file to file (`Chronological`); the lower its age the newer a file is (`Aged`); an
entry of the cache is of the file it is kept for, or of one that has left that age and will
not come back (`CacheHonest`, which is why a reader that meets another file between `stat`
and `read` does no harm); what is known of the active file is what its first pieces say
(`KnownWell`); and what has been collected is older than all that is still to be read
(`ReadInOrder`). A rotation between any two steps of the reader only moves files to higher
ages, away from those still to be read, so it takes nothing out of order. `SnapshotsInOrder`
follows. The steps of the writer meet the reader's part of the invariant in one relation
only, `Written`: files grow, and move to higher ages or go.

`LossInv` is about completeness. What caches and offsets know is not only in order but all
there is (`CachesExact`: a stamp that fits means the same text; the offset is behind the end
of a line and the tail begins there). While no file moves, every record there was when the
read began has been read or stands in a file still to be read (`QuietSoFar`). And every
invalid line counted belongs to a beginning of a line that no end follows (`Torn`), in a file
older than all still to be read; only a crash leaves one (`TornInv`). Counting is done by
injections between finite sets of positions: damaged lines into torn ones, torn ones below
a file and in it into all. `NothingIsLost` follows.

`Monitor`. Its summaries are made of a sequence, and `SummaryAccountsForAll` speaks of sets.
That the one tells of the other needs `SnapshotsInOrder`: each record is there once. A
sequence that has each element of a set once keeps this through the filters (`ListsKept`), and
is as long as the set is large (`ListsLength`); with outcomes that exclude each other the
counts follow (`EachCountedOnce`, `TotalCounts`). What is sorted is a permutation in order
(`SortedFacts`), so a rank says how many are above it and how many are not below
(`PercentileFacts`). For concurrency each sum of the sorted boundaries up to a place is
counted out: it is no more than ran at the time of that boundary, because ends come before
starts, and what ran at a time is the sum of all boundaries up to it (`OverlapFacts`); that
the window is enough follows from which records are let in (`MostAtOnce`). So
`SummariesAccountForAll` holds of any records and windows.

`BenchmarkSuite`. Of the benchmark and the evaluation, whose runs follow each other in any
order, all that is checked is proved. A cache outlives the run that
wrote it, and so the invariants speak of runs that no longer exist.

- *Where a run is.* `Control` relates `pc` to what is still to be looked up: `Needs` lists
  the phases in order (`NeedsFacts`, as a selection), what a report or the judge needs is
  held or still listed, and a phase is under way only if it has no cache or `--force` was
  given. `ResultsStay` follows, torn caches included.
- *What is left behind.* `Clean`: only the phase under way has a gateway and only the file
  being written is torn, in a run that is not killed; while a report is written, its files
  not yet written are all of one earlier run. `RunsLeaveNothing` follows.
- *What was measured.* `Sound` says that a result was measured under the conditions in its
  meta; `Measured` that this holds of every cache, of all a run holds, of what a phase has
  just measured and of the report. The conditions of the judge contain the digests of the
  answers (`AnswersDigest`), and that is what is needed: an answer in a digest has lost its
  task, and only because identifiers are unique do digest and dataset together say which
  answers the judge was to score (`OpenOfDigest`). `ReportsAreOfOneMeasurement` follows,
  though the answers may have been reused from another run than the scores.
- *What was evaluated.* `Evaluated`: a command's systems are each collected or still to be
  looked up (`Occupied`); answers kept in a file, or held, were given under the conditions
  in their fingerprint or of the run (`AnswersOwn`); scores, cached or held, are of the
  document they are kept for, or out of range (`ScoresOwn`). The invariant speaks of labels,
  the property of systems: that each system has exactly one label of each item is a
  lemma about the rotation (`EverySystemIsScored`), and it needs that a command names no
  system twice. `EvaluationsAreOwn` follows: the sums differ only in where they read.
- *Types.* `Typed` bounds what the two programs count together. That the troubles of a
  phase can be counted needs that its requests are finitely many, hence the lemmas about
  samples, stages and answers to judge. `TypesCorrect` follows.
- *What the verdicts rest on.* A report keeps its figures and what they were made of, but
  that these agree is settled when a phase is measured, perhaps runs before. So `Authentic`
  says of every cache, of what a run holds and of what a phase has just measured that it is
  what happened (`Genuine`): rows marked as good are of streams that came whole, a stage's
  requests and counts are those of its workers, the overlap is that of its records, and
  every answer was judged as often as there are passes. `Verdicted` says that the report,
  and what is about to be written, passes only what it should; `BuildReport` makes that so
  (`ReportIsEarned`), the other steps keep it.
- *From figures to what was measured*, one lemma for each verdict. Without errors no request
  of a stage failed, and without an empty count no worker was idle. That the load was
  there follows from the overlap: the records of all stages are laid end to end
  (`RecordsFacts`), so that as many at once as required are of one stage (`BusyStage`), and
  a record that is missing only lowers the figure (`StabilityEarned`). At most one stream in
  twenty is slower than the 95th percentile (`TtftEarned`). `CostEarned` reads that no row
  without a usage is left out; `PolicyEarned` counts: since no item, answer or pass occurs
  twice (`SampleDistinct`, `ToJudgeDistinct`, `PassesApart`), as many rows and scores as there
  should be are all of them. `QualityEarnedBy` needs `EvaluationsAreOwn`, that the answers
  are to all questions (`EvaluationWhole`), and that means of equally many scores compare as
  their sums do. `VerdictsAreEarned` follows.

Induction. The theorems of the library that take an operator as a parameter cannot be used,
so `Induction` proves induction over numbers for sets of them (`AllNaturals`), that functions
defined by iteration exist (`Iteration`), and from these what `Kept` selects from a
sequence (`KeptElements`, `PicksOneMore`) and what sorting and adding up make of one: the plans of `Deployment`, the parsed lines of
`RequestLog`, the records of a summary, the phases, items and answers of `Benchmark` and the uniform text of
`SseStream` are such selections.

Only model-checked are the liveness properties: fairness and ENABLED are beyond the prover.

## Not modelled, and the plan

In this order:

1. `scripts/supervisor_common.ps1`: one process that starts a child, waits for it and backs
   off. Nothing else reads or changes its state, so it would be a component without
   interleavings; `Deployment` and `Watchdog` have it as a task that ends or stays.
2. `read_log_snapshot`, the issuing of the watchdog's key in `install_stage6.ps1`.

Left out for good: DPAPI secrets, Windows ACLs, the documentation page, the monitor's
page and probes, which keep no state that another part depends on, or consist of calls
to the system; and the verification scripts, which are tests of the running gateway.
