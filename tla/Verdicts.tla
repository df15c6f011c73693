------------------------------ MODULE Verdicts ------------------------------
(***************************************************************************)
(* What the benchmark's report makes of its measurements                   *)
(* (bench_stage9_report.py).  A fraction is <<numerator, denominator>>, in *)
(* arbitrary units, and a denominator of 0 stands for None.  Figures that  *)
(* neither a verdict nor a suggestion reads are left out.                  *)
(***************************************************************************)
EXTENDS Measures, FiniteSets

CONSTANTS
    RequiredLevel,  \* PASS_STABILITY_MAX_CONCURRENCY
    HighLevel,      \* the 8 of followup_suggestions
    TtftLimit,      \* PASS_TTFT_P95_SECONDS
    Tariff,         \* KRW_PER_KWH
    Prices,         \* PRICING_USD_PER_MILLION, in KRW: by model, input and output
    LocalModel,     \* LOCAL_MODEL_LABEL
    LocalSystem,    \* DEEP_QUALITY_LOCAL_KEY
    Counterpart     \* DEEP_QUALITY_COMPARISON_KEYS

NotMeasured == -1
NoFigure == <<0, 0>>
JudgedTasks == {"rag", "summary"}
AutoTasks == {"direct", "classify", "vision"}

Column(rows, Value(_)) == [i \in DOMAIN rows |-> Value(rows[i])]
Mean(values) == <<SumOf(values), Len(values)>>
PercentileOf(values, ratio) == IF values = <<>> THEN NotMeasured ELSE Percentile(values, ratio)
Ok(row) == row.ok
Less(a, b) == a[1] * b[2] < b[1] * a[2]

\* True, False and None.
Verdict(complete, good) == IF ~complete THEN "unknown" ELSE IF good THEN "passed" ELSE "failed"

CompletionTokens(row) == IF row.usage # NotMeasured THEN row.usage ELSE row.deltas

SingleShotPerformance(items) ==
    LET streaming == Filtered(items, LAMBDA r : r.task # "vision")
        streamed == Filtered(streaming, LAMBDA r : r.ok /\ r.ttft # NotMeasured)
        timed == Filtered(streamed, LAMBDA r : r.total > r.ttft /\ CompletionTokens(r) > 1)
    IN  [missing |-> Len(streaming) - Len(streamed),
         p95 |-> PercentileOf(Column(streamed, LAMBDA r : r.ttft), 95),
         speed |-> <<SumOf(Column(timed, LAMBDA r : CompletionTokens(r) - 1)),
                     SumOf(Column(timed, LAMBDA r : r.total - r.ttft))>>]

\* What /api/ps says of the models loaded; one size missing makes it unknown.
Spillover(ps) ==
    CASE ps = {} \/ \E m \in ps : NotMeasured \in {m.vram, m.size} -> "unknown"
      [] \E m \in ps : m.vram < m.size -> "yes"
      [] OTHER -> "no"

\* marginal_energy_wh and electricity_krw, for each request that succeeded.
ElectricityPerRequest(watts, idle, seconds, served) ==
    IF watts = <<>> \/ idle = NoFigure \/ served = 0
    THEN NoFigure
    ELSE LET w == Mean(watts)
         IN  <<Max({0, w[1] * idle[2] - idle[1] * w[2]}) * seconds * Tariff,
               w[2] * idle[2] * served>>

LoadStageSummary(stage, idle) ==
    LET served == Filtered(stage.requests, Ok)
    IN  [level |-> stage.level,
         requests |-> Len(stage.requests),
         counts |-> stage.counts,
         errors |-> Len(stage.requests) - Len(served),
         p95 |-> PercentileOf(Column(served, LAMBDA r : r.ttft), 95),
         tokens |-> SumOf(Column(served, CompletionTokens)),
         spillover |-> Spillover(stage.ps),
         cost |-> ElectricityPerRequest(stage.watts, idle, stage.seconds, Len(served))]

\* usage_rows_cost_per_query_krw: the mean of the rows that have a usage.
UsageCost(rows, model) ==
    LET priced == IF model \in DOMAIN Prices
                  THEN Filtered(rows, LAMBDA r : r.ok /\ r.usage # NotMeasured)
                  ELSE <<>>
    IN  [cost |-> Mean(Column(priced, LAMBDA r : r.prompt * Prices[model].input
                                                 + r.usage * Prices[model].output)),
         missing |-> Len(rows) - Len(priced)]

\* _cost_summary
CostSummary(profile, stages) ==
    LET single == SelectInSeq(stages, LAMBDA s : s.level = 1)
    IN  [local |-> IF single = 0 THEN NoFigure ELSE stages[single].cost,
         api |-> [m \in DOMAIN profile |-> UsageCost(profile[m], m)]]

MeasurementCompleteness(expected, attempted, scores, passes) ==
    [m \in DOMAIN attempted |->
        LET rows == attempted[m]
            judged == Filtered(rows, LAMBDA r : r.ok /\ r.task \in JudgedTasks)
            scored == Filtered(scores, LAMBDA s : s.model = m /\ s.score # NotMeasured)
        IN  [unattempted |-> expected - Len(rows),
             failures |-> Len(Filtered(rows, LAMBDA r : ~r.ok)),
             autoMissing |-> Len(Filtered(rows, LAMBDA r : r.task \in AutoTasks /\ ~r.ok)),
             judgeMissing |-> Len(judged) * passes - Len(scored)]]

-----------------------------------------------------------------------------
\* The criteria.

Relevant(stages) == {stages[i] : i \in {j \in DOMAIN stages : stages[j].level <= RequiredLevel}}

\* Mistake: an empty stage has no errors.
StabilityOfErrorsOnly(stages, overlap) ==
    Verdict(\E s \in Relevant(stages) : s.level = RequiredLevel,
            \A s \in Relevant(stages) : s.errors = 0 /\ s.spillover = "no")

StabilityVerdict(stages, overlap) ==
    Verdict(/\ \E s \in Relevant(stages) : s.level = RequiredLevel
            /\ overlap >= RequiredLevel
            /\ \A s \in Relevant(stages) :
                  /\ s.requests # 0
                  /\ s.spillover # "unknown"
                  /\ DOMAIN s.counts = 1 .. s.level
                  /\ \A w \in DOMAIN s.counts : s.counts[w] > 0,
            \A s \in Relevant(stages) : s.errors = 0 /\ s.spillover = "no")

\* Mistake: the rows there are decide.
TtftOfWhatThereIs(single) == Verdict(single.p95 # NotMeasured, single.p95 <= TtftLimit)

TtftVerdict(single) ==
    Verdict(single.p95 # NotMeasured /\ single.missing = 0, single.p95 <= TtftLimit)

\* system_score: of a system without failures, a mean from 1 to 10.
SystemScore(evaluation, system) ==
    IF /\ system \in DOMAIN evaluation.scored
       /\ evaluation.scored[system] = {}
       /\ system \in DOMAIN evaluation.judge
    THEN evaluation.judge[system]
    ELSE NoFigure

\* Mistake: only the models that have a score are compared.
QualityOfThoseScored(evaluation, comparisons) ==
    LET local == SystemScore(evaluation, LocalSystem)
        Other(m) == SystemScore(evaluation, Counterpart[m])
    IN  Verdict(local # NoFigure,
                \A m \in comparisons :
                    Other(m) # NoFigure => 9 * Other(m)[1] * local[2] <= 10 * local[1] * Other(m)[2])

\* The evaluation is that of bench_stage9_quality_deep.py, empty if there is no file.
QualityVerdict(evaluation, comparisons) ==
    LET local == SystemScore(evaluation, LocalSystem)
        Other(m) == IF m \in DOMAIN Counterpart
                    THEN SystemScore(evaluation, Counterpart[m])
                    ELSE NoFigure
    IN  Verdict(local # NoFigure /\ \A m \in comparisons : Other(m) # NoFigure,
                \A m \in comparisons :
                    9 * Other(m)[1] * local[2] <= 10 * local[1] * Other(m)[2])

\* Mistake: the mean of the rows that have a usage is taken.
CostOfWhatThereIs(cost, comparisons) ==
    Verdict(cost.local # NoFigure /\ \A m \in comparisons : cost.api[m].cost # NoFigure,
            \A m \in comparisons : Less(cost.local, cost.api[m].cost))

CostVerdict(cost, comparisons) ==
    Verdict(/\ cost.local # NoFigure
            /\ \A m \in comparisons : cost.api[m].cost # NoFigure /\ cost.api[m].missing = 0,
            \A m \in comparisons : Less(cost.local, cost.api[m].cost))

EvaluatePassCriteria(summary, evaluation, comparisons) ==
    [stability |-> StabilityVerdict(summary.stages, summary.overlap),
     ttft |-> TtftVerdict(summary.single),
     quality |-> QualityVerdict(evaluation, comparisons),
     cost |-> CostVerdict(summary.cost, comparisons)]

Incomplete(counts) == counts.unattempted > 0 \/ counts.failures > 0 \/ counts.judgeMissing > 0

\* Mistake: what is missing is not looked at.
SuggestionsOfVerdicts(summary, criteria) ==
    IF \A c \in DOMAIN criteria : criteria[c] = "passed" THEN {"keep"} ELSE {"improve"}

\* followup_suggestions; that all is well is said only when nothing else is.
FollowupSuggestions(summary, criteria) ==
    LET Slow(s) == /\ s.level >= HighLevel
                   /\ s.p95 # NotMeasured /\ summary.single.p95 # NotMeasured
                   /\ s.p95 > 3 * summary.single.p95
        concerns ==
            {c \in {"stability", "ttft", "quality"} : criteria[c] = "failed"}
            \cup {"incomplete" : m \in {n \in DOMAIN summary.completeness :
                                           Incomplete(summary.completeness[n])}}
            \cup {"undetermined" : c \in {d \in DOMAIN criteria : criteria[d] = "unknown"}}
            \cup {"slow" : i \in {j \in DOMAIN summary.stages : Slow(summary.stages[j])}}
    IN  IF concerns = {} /\ \A c \in DOMAIN criteria : criteria[c] = "passed"
        THEN {"keep"}
        ELSE concerns

=============================================================================
