----------------------------- MODULE Benchmark -----------------------------
(***************************************************************************)
(* The benchmark of the gateway (benchmark_stage9.run_benchmark): phases   *)
(* whose results are cached in files, a gateway of its own for the two     *)
(* that measure it, and a report made of the results of all of them.  Runs *)
(* follow each other with other arguments and may be cut short.            *)
(* What is marked history is there for the properties only.                *)
(***************************************************************************)
EXTENDS Verdicts, Selections

CONSTANTS
    Configs,        \* what a run is given: dataset, sample, chat (the addresses and
                    \* options), models, levels, judge, force and phases
    Ids, Models,
    Items,          \* by dataset: the sequence of its generation items
    LoadPrompts,    \* how many
    Answers,        \* what a request may be answered
    UsualAnswer,
    BadRequest,     \* the answer to a reasoning effort the model does not know
    Works,          \* what a worker may do in a load stage: a sequence of requests
    UsualWork,
    StageSeconds,   \* longer than any work
    Snapshots,      \* what /api/ps may say; the usual is first
    JudgePasses,    \* JUDGE_PASSES
    StrongModels,   \* those with a name of JUDGE_PREFERENCE
    All,            \* no --sample
    MaxRuns,        \* bound
    MaxTroubles     \* bound on what does not go as usual

Tasks == <<"rag", "direct", "summary", "classify", "vision">>

ASSUME BenchmarkAssumption ==
    /\ RequiredLevel \in Nat \ {0} /\ JudgePasses \in Nat \ {0}
    /\ \A d \in DOMAIN Items :
          /\ Items[d] \in Seq([id : Ids, task : ToSet(Tasks)])
          /\ \A i, j \in DOMAIN Items[d] : Items[d][i].id = Items[d][j].id => i = j
    /\ \A c \in Configs :
          /\ c.dataset \in DOMAIN Items
          /\ c.sample \in Nat \cup {All}
          /\ c.levels \in Seq(Nat)
          /\ c.models \in Seq(Models) /\ IsInjective(c.models)
    /\ LocalModel \notin Models
    /\ UsualAnswer \in Answers /\ BadRequest \in Answers /\ BadRequest.status = 400
    /\ UsualWork \in Works /\ LoadPrompts \in Nat
    /\ MaxRuns \in Nat /\ MaxTroubles \in Nat

VARIABLES
    cache,      \* {phase}_results.json
    published,  \* the run each file of the report is of
    report,     \* report.json
    gateways,   \* the runs whose gateway runs
    pc,
    config,
    todo,       \* phases still to be looked up, then files to be written
    outputs,
    result,     \* of the phase under way
    runs,
    troubles,
    killed,     \* history: the runs that were cut short, by a kill or in a write
    evaluation  \* not written here: the report of bench_stage9_quality_deep.py

files == <<cache, published, report>>
vars == <<files, gateways, pc, config, todo, outputs, result, runs, troubles, killed>>

Phases == <<"local", "load", "openai", "judge">>
ReportFiles == <<"report.md", "report.json", "blind_samples.md", "blind_key.json">>
Nothing == <<>>

\* Of a file: there is none; its writing was cut short.
NoFile == [state |-> "none"]
Torn == [state |-> "torn"]

Init ==
    /\ cache = [n \in ToSet(Phases) |-> NoFile]
    /\ published = [f \in ToSet(ReportFiles) |-> 0]
    /\ report = NoFile
    /\ gateways = {}
    /\ pc = "idle"
    /\ config = Nothing
    /\ todo = <<>>
    /\ outputs = Nothing
    /\ result = Nothing
    /\ runs = 0
    /\ troubles = 0
    /\ killed = {}
    /\ evaluation = NoFile

Troubled(n) == troubles + n <= MaxTroubles /\ troubles' = troubles + n
Deviations(f, usual) == Cardinality({x \in DOMAIN f : f[x] # usual})

\* The functions from S to T that are the usual value but where the bound allows more.
Nearly(S, T, usual) ==
    UNION {{[x \in S |-> IF x \in D THEN g[x] ELSE usual] : g \in [D -> T \ {usual}]} :
              D \in {E \in SUBSET S : Cardinality(E) <= MaxTroubles - troubles}}

End ==
    /\ pc' = "idle"
    /\ config' = Nothing /\ todo' = <<>> /\ outputs' = Nothing /\ result' = Nothing

-----------------------------------------------------------------------------
\* The requests of a phase.

FailedRow == [ok |-> FALSE, ttft |-> NotMeasured, total |-> NotMeasured,
              usage |-> NotMeasured, prompt |-> 0, deltas |-> 0, text |-> <<>>]

Contents(a) == Filtered(a.lines, LAMBDA l : l.data \notin {"done", "garbled", "usage"})
Has(a, data) == \E i \in DOMAIN a.lines : a.lines[i].data = data

\* What has its end and no line that cannot be read came whole.
ASSUME AnswersAssumption ==
    /\ TtftLimit \in Nat /\ StageSeconds \in Nat
    /\ \A a \in Answers :
          /\ a.lines \in Seq(ToSet(a.lines)) /\ \A l \in ToSet(a.lines) : l.at \in Nat
          /\ Has(a, "done") /\ ~Has(a, "garbled") => a.whole
    /\ \A w \in Works :
          /\ w \in Seq([from : 0 .. StageSeconds, to : 0 .. StageSeconds, answer : Answers])
          /\ \A i \in DOMAIN w : w[i].from <= w[i].to

Served(a, ttft) ==
    [ok |-> TRUE, ttft |-> ttft, total |-> a.total, usage |-> a.usage, prompt |-> a.prompt,
     deltas |-> Len(Contents(a)), text |-> Column(Contents(a), LAMBDA l : l.data)]

\* Mistake: a stream that just ends is taken for a whole one.
TimedStreamRequestOfAnyEnd(a) ==
    IF a.status = 200 /\ ~a.broken /\ ~Has(a, "garbled") /\ Contents(a) # <<>>
    THEN Served(a, Contents(a)[1].at)
    ELSE FailedRow

TimedStreamRequest(a) ==
    IF /\ a.status = 200
       /\ ~a.broken
       /\ ~Has(a, "garbled")
       /\ Has(a, "done")
       /\ Contents(a) # <<>>
    THEN Served(a, Contents(a)[1].at)
    ELSE FailedRow

TimedBufferedRequest(a) ==
    IF ~a.broken /\ a.status = 200 THEN Served(a, NotMeasured) ELSE FailedRow

\* openai_chat_request and openai_load_profile_request: "none" after "minimal".
OpenAiRequest(first, second) ==
    TimedBufferedRequest(IF ~first.broken /\ first.status = 400 THEN second ELSE first)

ItemsForTask(items, task) == Kept(items, {i \in DOMAIN items : items[i].task = task})

SampledGeneration(items, limit) ==
    IF limit = All
    THEN items
    ELSE FlattenSeq([t \in DOMAIN Tasks |->
             LET its == ItemsForTask(items, Tasks[t])
             IN  SubSeq(its, 1, Min({limit, Len(its)}))])

Sample == SampledGeneration(Items[config.dataset], config.sample)

WithItem(item, row) ==
    [id |-> item.id, task |-> item.task, ok |-> row.ok, ttft |-> row.ttft,
     total |-> row.total, usage |-> row.usage, prompt |-> row.prompt,
     deltas |-> row.deltas, text |-> row.text]

-----------------------------------------------------------------------------
\* The caches.

With(out, n, r) == [m \in DOMAIN out \cup {n} |-> IF m = n THEN r ELSE out[m]]

\* _answers_digest
AnswersDigest(rows) == {<<r.id, r.text>> : r \in {s \in ToSet(rows) : s.ok}}

\* Mistake: what the judge scored is not part of the conditions.
MetaWithoutAnswers(n) ==
    [dataset |-> config.dataset, sample |-> config.sample,
     more |-> CASE n = "local" -> config.chat
                [] n = "load" -> <<config.chat, config.levels>>
                [] n = "openai" -> config.models
                [] n = "judge" -> config.judge]

\* local_meta, load_meta, openai_meta and judge_meta; chat stands for the addresses and
\* the other options.
Meta(n) ==
    [dataset |-> config.dataset, sample |-> config.sample,
     more |-> CASE n = "local" -> config.chat
                [] n = "load" -> <<config.chat, config.levels>>
                [] n = "openai" -> config.models
                [] n = "judge" -> <<config.judge, AnswersDigest(outputs.local.items),
                                    [m \in DOMAIN outputs.openai.chat |->
                                        AnswersDigest(outputs.openai.chat[m])]>>]

\* The phases a run looks up, in the order of run_benchmark.
Needs(phases) ==
    LET users == [local |-> {"local", "judge", "report"}, load |-> {"load", "report"},
                  openai |-> {"openai", "judge", "report"}, judge |-> {"judge", "report"}]
    IN  Kept(Phases, {i \in DOMAIN Phases : users[Phases[i]] \cap phases # {}})

Start(c) ==
    /\ pc = "idle"
    /\ runs < MaxRuns
    /\ runs' = runs + 1
    /\ config' = c
    /\ pc' = "looking"
    /\ todo' = Needs(c.phases)
    /\ UNCHANGED <<files, gateways, outputs, result, troubles, killed>>

Looking == pc = "looking" /\ todo # <<>>
Current == Head(todo)
InUse == cache[Current] # NoFile /\ ~config.force
Matches == cache[Current] # Torn /\ cache[Current].meta = Meta(Current)

Reuse ==
    /\ Looking
    /\ InUse
    /\ Matches
    /\ outputs' = With(outputs, Current, cache[Current].result)
    /\ todo' = Tail(todo)
    /\ UNCHANGED <<files, gateways, pc, config, result, runs, troubles, killed>>

\* The cache cannot be read, is of other conditions, or may not be made.
Refuse ==
    /\ Looking
    /\ IF InUse THEN ~Matches ELSE Current \notin config.phases
    /\ End
    /\ UNCHANGED <<files, gateways, runs, troubles, killed>>

\* Mistake: a phase that is asked for is measured again.
ProduceAgain ==
    /\ Looking
    /\ Current \in config.phases
    /\ pc' = IF Current \in {"local", "load"} THEN "starting" ELSE Current
    /\ UNCHANGED <<files, gateways, config, todo, outputs, result, runs, troubles, killed>>

\* Mistake: a phase is measured again if its cache cannot be read.
ProduceIfTorn ==
    /\ Looking
    /\ ~InUse \/ cache[Current] = Torn
    /\ Current \in config.phases
    /\ pc' = IF Current \in {"local", "load"} THEN "starting" ELSE Current
    /\ UNCHANGED <<files, gateways, config, todo, outputs, result, runs, troubles, killed>>

Produce ==
    /\ Looking
    /\ ~InUse
    /\ Current \in config.phases
    /\ pc' = IF Current \in {"local", "load"} THEN "starting" ELSE Current
    /\ UNCHANGED <<files, gateways, config, todo, outputs, result, runs, troubles, killed>>

\* write_text empties the file first.
BeginWriting ==
    /\ pc = "measured"
    /\ cache' = [cache EXCEPT ![Current] = Torn]
    /\ pc' = "writing"
    /\ UNCHANGED <<published, report, gateways, config, todo, outputs, result, runs,
                   troubles, killed>>

\* Mistake: the phase stays on the list.
EndWritingUnadvanced ==
    /\ pc = "writing"
    /\ cache' = [cache EXCEPT ![Current] = [meta |-> Meta(Current), result |-> result]]
    /\ outputs' = With(outputs, Current, result)
    /\ result' = Nothing
    /\ pc' = "looking"
    /\ UNCHANGED <<published, report, gateways, config, todo, runs, troubles, killed>>

EndWriting ==
    /\ pc = "writing"
    /\ cache' = [cache EXCEPT ![Current] = [meta |-> Meta(Current), result |-> result]]
    /\ outputs' = With(outputs, Current, result)
    /\ result' = Nothing
    /\ todo' = Tail(todo)
    /\ pc' = "looking"
    /\ UNCHANGED <<published, report, gateways, config, runs, troubles, killed>>

-----------------------------------------------------------------------------
\* The phases.

StartGateway ==
    /\ pc = "starting"
    /\ gateways' = gateways \cup {runs}
    /\ pc' = "booting"
    /\ UNCHANGED <<files, config, todo, outputs, result, runs, troubles, killed>>

Healthy ==
    /\ pc = "booting"
    /\ pc' = Current
    /\ UNCHANGED <<files, gateways, config, todo, outputs, result, runs, troubles, killed>>

Close == gateways' = gateways \ {runs}

\* Mistake: the gateway that did not answer in time is left.
StartupFailsUnclosed ==
    /\ pc = "booting"
    /\ Troubled(1)
    /\ End
    /\ UNCHANGED <<files, gateways, runs, killed>>

\* It ended by itself, or did not answer in time and is closed.
StartupFails ==
    /\ pc = "booting"
    /\ Troubled(1)
    /\ Close
    /\ End
    /\ UNCHANGED <<files, runs, killed>>

\* The warm-up, a worker or the embeddings failed, or a provider was not the local one.
PhaseFails ==
    /\ pc \in ToSet(Phases)
    /\ Troubled(1)
    /\ Close
    /\ End
    /\ UNCHANGED <<files, runs, killed>>

\* history: the conditions a result was measured under.
Conditions == [dataset |-> config.dataset, sample |-> config.sample,
               levels |-> config.levels, models |-> ToSet(config.models)]

\* phase_local; history: the answers.
MeasureLocal ==
    /\ pc = "local"
    /\ \E answers \in Nearly(DOMAIN Sample, Answers, UsualAnswer) :
        /\ Troubled(Deviations(answers, UsualAnswer))
        /\ result' = [items |-> [i \in DOMAIN Sample |->
                                    WithItem(Sample[i],
                                             IF Sample[i].task = "vision"
                                             THEN TimedBufferedRequest(answers[i])
                                             ELSE TimedStreamRequest(answers[i]))],
                      embedding |-> "whole",
                      answers |-> answers, under |-> Conditions]
    /\ Close
    /\ pc' = "measured"
    /\ UNCHANGED <<files, config, todo, outputs, runs, killed>>

Stages == IF result = Nothing THEN <<>> ELSE result.stages

\* What a worker's requests came to, in the order of the workers.
RowsOf(works) ==
    FlattenSeq([w \in DOMAIN works |->
                   [i \in DOMAIN works[w] |-> TimedStreamRequest(works[w][i].answer)]])

\* run_load_stage, and in the first the idle power before; history: the works.
MeasureStage ==
    /\ pc = "load"
    /\ Len(Stages) < Len(config.levels)
    /\ LET level == config.levels[Len(Stages) + 1]
       IN  \E works \in Nearly(1 .. level, Works, UsualWork), watts \in {<<4>>, <<>>},
              ps \in ToSet(Snapshots), idle \in {<<1>>, <<>>} :
            /\ Stages # <<>> => idle = result.idle
            /\ Troubled(Deviations(works, UsualWork)
                        + (IF watts = <<>> THEN 1 ELSE 0)
                        + (IF ps = Snapshots[1] THEN 0 ELSE 1)
                        + (IF Stages = <<>> /\ idle = <<>> THEN 1 ELSE 0))
            /\ result' = [idle |-> idle,
                          stages |-> Append(Stages,
                              [level |-> level, requests |-> RowsOf(works),
                               counts |-> [w \in 1 .. level |-> Len(works[w])],
                               watts |-> watts, ps |-> ps, seconds |-> StageSeconds,
                               works |-> works])]
    /\ UNCHANGED <<files, gateways, pc, config, todo, outputs, runs, killed>>

\* The gateway's log of the stages, one after the other.
RequestRecords(stages) ==
    FlattenSeq([s \in DOMAIN stages |->
        LET requests == FlattenSeq(stages[s].works)
        IN  [i \in DOMAIN requests |-> [from |-> requests[i].from + s * StageSeconds,
                                        to |-> requests[i].to + s * StageSeconds]]])

\* phase_load.  A record is written after its response: the last may be missing.
FinishLoad ==
    /\ pc = "load"
    /\ Len(Stages) = Len(config.levels)
    /\ \E missing \in {0, 1} :
        LET records == RequestRecords(Stages)
        IN  /\ missing <= Len(records)
            /\ Troubled(missing)
            /\ result' = [idle |-> result.idle, stages |-> Stages,
                          overlap |-> MaxOverlap(SubSeq(records, 1, Len(records) - missing)),
                          under |-> Conditions]
    /\ Close
    /\ pc' = "measured"
    /\ UNCHANGED <<files, config, todo, outputs, runs, killed>>

\* phase_openai: BadRequest first where the model does not know the effort.
AskOpenAi ==
    /\ pc = "openai"
    /\ \E chat \in Nearly(ToSet(config.models) \X DOMAIN Sample, Answers, UsualAnswer),
          profile \in Nearly(ToSet(config.models) \X (1 .. LoadPrompts), Answers, UsualAnswer),
          limited \in SUBSET ToSet(config.models),
          available \in {StrongModels \cup ToSet(config.models), ToSet(config.models), {}},
          embedding \in {"whole", "short"} :
        LET First(m, a) == IF m \in limited THEN BadRequest ELSE a
        IN  /\ Troubled(Deviations(chat, UsualAnswer) + Deviations(profile, UsualAnswer)
                        + Cardinality(limited)
                        + (IF available \cap StrongModels = {} THEN 1 ELSE 0)
                        + (IF embedding = "whole" THEN 0 ELSE 1))
            /\ result' = [available |-> available,
                          chat |-> [m \in ToSet(config.models) |->
                              [i \in DOMAIN Sample |->
                                  WithItem(Sample[i], OpenAiRequest(First(m, chat[<<m, i>>]),
                                                                    chat[<<m, i>>]))]],
                          load |-> [m \in ToSet(config.models) |->
                              [i \in 1 .. LoadPrompts |->
                                  OpenAiRequest(First(m, profile[<<m, i>>]),
                                                profile[<<m, i>>])]],
                          embedding |-> embedding, under |-> Conditions]
    /\ pc' = "measured"
    /\ UNCHANGED <<files, gateways, config, todo, outputs, runs, killed>>

\* select_judge_model: a strong one that is not compared, or one that is.
JudgeCandidates(available) ==
    LET strong == (available \cap StrongModels) \ ToSet(config.models)
    IN  IF strong # {} THEN strong ELSE available \cap ToSet(config.models)

Judged(model, rows) ==
    LET ok == Kept(rows, {i \in DOMAIN rows : rows[i].ok /\ rows[i].task \in JudgedTasks})
    IN  Column(ok, LAMBDA r : [id |-> r.id, model |-> model, text |-> r.text])

\* What there is to judge in outputs.
AnswersToJudge(out, models) ==
    Judged(LocalModel, out.local.items)
    \o FlattenSeq(Column(models, LAMBDA m : Judged(m, out.openai.chat[m])))

\* Each answer is judged as often as there are passes; history: the text scored.
Scores(answers, failed) ==
    [t \in 1 .. Len(answers) * JudgePasses |->
        LET answer == answers[CeilDiv(t, JudgePasses)]
        IN  [id |-> answer.id, model |-> answer.model, text |-> answer.text,
             score |-> IF t \in failed THEN NotMeasured ELSE 8]]

\* phase_judge
Judge ==
    /\ pc = "judge"
    /\ LET answers == AnswersToJudge(outputs, config.models)
           tasks == 1 .. Len(answers) * JudgePasses
       IN  \E failed \in {F \in SUBSET tasks : Cardinality(F) <= MaxTroubles} :
            /\ Troubled(Cardinality(failed))
            /\ IF \/ config.judge = "none" /\ JudgeCandidates(outputs.openai.available) = {}
                  \/ Cardinality(failed) > Cardinality(tasks) \div 2
               THEN End
               ELSE /\ pc' = "measured"
                    /\ result' = [scores |-> Scores(answers, failed),
                                  passes |-> JudgePasses, under |-> Conditions]
                    /\ UNCHANGED <<config, todo, outputs>>
    /\ UNCHANGED <<files, gateways, runs, killed>>

-----------------------------------------------------------------------------
\* The report.

Attempted == With(outputs.openai.chat, LocalModel, outputs.local.items)

ReportSummary ==
    LET idle == Mean(outputs.load.idle)
        stages == Column(outputs.load.stages, LAMBDA s : LoadStageSummary(s, idle))
    IN  [single |-> SingleShotPerformance(outputs.local.items),
         stages |-> stages,
         overlap |-> outputs.load.overlap,
         completeness |-> MeasurementCompleteness(Len(Items[config.dataset]), Attempted,
                                                  outputs.judge.scores, outputs.judge.passes),
         cost |-> CostSummary(outputs.openai.load, stages)]

\* load_deep_quality_report
DeepQualityReport ==
    IF evaluation = NoFile THEN [scored |-> <<>>, judge |-> <<>>] ELSE evaluation

\* build_report_files up to the first file, and embedding_comparison in it: zip is
\* strict.  history: all it was made of.
BuildReport ==
    /\ pc = "looking" /\ todo = <<>>
    /\ "report" \in config.phases
    /\ IF \/ "short" \in {outputs.local.embedding, outputs.openai.embedding}
          \/ evaluation = Torn
       THEN End
       ELSE LET criteria == EvaluatePassCriteria(ReportSummary, DeepQualityReport,
                                                  ToSet(config.models))
            IN  /\ result' = [criteria |-> criteria,
                              followups |-> FollowupSuggestions(ReportSummary, criteria),
                              config |-> Conditions, outputs |-> outputs,
                              evaluation |-> evaluation]
                /\ pc' = "publishing"
                /\ todo' = ReportFiles
                /\ outputs' = Nothing
                /\ UNCHANGED config
    /\ UNCHANGED <<files, gateways, runs, troubles, killed>>

Publish ==
    /\ pc = "publishing"
    /\ published' = [published EXCEPT ![Head(todo)] = runs]
    /\ report' = IF Head(todo) = "report.json" THEN result ELSE report
    /\ IF Len(todo) = 1
       THEN End
       ELSE todo' = Tail(todo) /\ UNCHANGED <<pc, config, outputs, result>>
    /\ UNCHANGED <<cache, gateways, runs, troubles, killed>>

Finish ==
    /\ pc = "looking" /\ todo = <<>>
    /\ "report" \notin config.phases
    /\ End
    /\ UNCHANGED <<files, gateways, runs, troubles, killed>>

\* The run is killed; or write_text raises in mid-file, when its gateway is closed and
\* no other step is taken: the same is left.
Crash ==
    /\ pc # "idle"
    /\ Troubled(1)
    /\ killed' = killed \cup {runs}
    /\ End
    /\ UNCHANGED <<files, gateways, runs>>

Next ==
    \/ \E c \in Configs : Start(c)
    \/ Reuse \/ Refuse \/ Produce \/ BeginWriting \/ EndWriting
    \/ StartGateway \/ Healthy \/ StartupFails \/ PhaseFails
    \/ MeasureLocal \/ MeasureStage \/ FinishLoad \/ AskOpenAi \/ Judge
    \/ BuildReport \/ Publish \/ Finish
    \/ Crash

-----------------------------------------------------------------------------
\* The files and the steps of a run are what the code can leave and be at.
TypeOK ==
    /\ \A n \in ToSet(Phases) :
          cache[n] \in {NoFile, Torn} \/ DOMAIN cache[n] = {"meta", "result"}
    /\ DOMAIN published = ToSet(ReportFiles) /\ \A f \in DOMAIN published : published[f] <= runs
    /\ gateways \subseteq 1 .. runs /\ killed \subseteq 1 .. runs
    /\ pc \in {"idle", "looking", "starting", "booting", "measured", "writing", "publishing"}
              \cup ToSet(Phases)
    /\ config \in Configs \/ pc = "idle"
    /\ DOMAIN outputs \subseteq ToSet(Phases)
    /\ pc \in {"measured", "writing"} => result # Nothing /\ todo # <<>>
    /\ DOMAIN outputs \cap ToSet(todo) = {}
    /\ troubles \in 0 .. MaxTroubles

\* The answers there are to questions that the judge scores.
OpenAnswers(model, rows) ==
    {[id |-> r.id, model |-> model, text |-> r.text] :
        r \in {s \in ToSet(rows) : s.ok /\ s.task \in JudgedTasks}}

\* Results of different runs are not mixed in a report (run_benchmark): all it is made
\* of was measured under its conditions, and the judge scored the very answers it reports.
ReportOfOneMeasurement ==
    report # NoFile =>
        LET out == report.outputs
        IN  /\ \A n \in ToSet(Phases) :
                  /\ out[n].under.dataset = report.config.dataset
                  /\ out[n].under.sample = report.config.sample
            /\ out.load.under.levels = report.config.levels
            /\ out.openai.under.models = report.config.models
            /\ {[id |-> s.id, model |-> s.model, text |-> s.text] : s \in ToSet(out.judge.scores)}
                  = OpenAnswers(LocalModel, out.local.items)
                    \cup UNION {OpenAnswers(m, out.openai.chat[m]) : m \in report.config.models}

Whole(a) == a.status = 200 /\ ~a.broken /\ a.whole
WorksUpTo(load, level) ==
    {load.stages[i].works : i \in {j \in DOMAIN load.stages : load.stages[j].level <= level}}

\* As many requests as required were in the gateway at one moment.
Busy(load) ==
    \E s \in DOMAIN load.stages : \E t \in 0 .. StageSeconds :
        LET works == load.stages[s].works
        IN  SumOf([w \in DOMAIN works |->
                      Len(Filtered(works[w], LAMBDA r : r.from <= t /\ t < r.to))])
              >= RequiredLevel

\* What is not measured, or only in part, does not pass (evaluate_pass_criteria): for
\* stability, all workers of the stages were at work, the load was there and all streams
\* came whole; for the first token, so did every item's; for cost, all prices are known.
\* That all is well is said only of the whole dataset with all scores.
FiguresEarned ==
    report # NoFile =>
        LET out == report.outputs
            verdict == report.criteria
            streaming == {i \in DOMAIN out.local.items : out.local.items[i].task # "vision"}
        IN  /\ verdict.stability = "passed" =>
                  /\ Busy(out.load)
                  /\ \A works \in WorksUpTo(out.load, RequiredLevel) : \A w \in DOMAIN works :
                        /\ works[w] # <<>>
                        /\ \A i \in DOMAIN works[w] : Whole(works[w][i].answer)
            /\ verdict.ttft = "passed" =>
                  /\ \A i \in streaming : Whole(out.local.answers[i])
                  /\ 20 * Cardinality({i \in streaming : out.local.items[i].ttft > TtftLimit})
                        <= Cardinality(streaming)
            /\ verdict.cost = "passed" =>
                  \A m \in report.config.models : \A i \in DOMAIN out.openai.load[m] :
                      out.openai.load[m][i].usage # NotMeasured
            /\ report.followups = {"keep"} =>
                  /\ Len(out.local.items) = Len(Items[report.config.dataset])
                  /\ \A i \in DOMAIN out.local.items : out.local.items[i].ok
                  /\ \A s \in ToSet(out.judge.scores) : s.score # NotMeasured

\* A run that is not killed, and whose writes do not fail, leaves no gateway, no torn cache
\* and no half of a report, whatever else fails (GatewayUnderTest.close; build_report_files).
RunsEndClean ==
    pc = "idle" =>
        /\ gateways \subseteq killed
        /\ killed = {} => /\ \A n \in ToSet(Phases) : cache[n] # Torn
                          /\ \A f, g \in ToSet(ReportFiles) : published[f] = published[g]

\* A step changes a cache, or begins to write it (which of a torn one leaves a torn one).
Touches(n) == cache'[n] # cache[n] \/ (pc' = "writing" /\ n = Current)

\* Without --force what is found is never replaced (cached): neither a result that was
\* measured, of any conditions, nor the half that a run before has left.  A run only ends
\* what it has begun to write itself, where it found no file.
ResultsKept ==
    [][\A n \in ToSet(Phases) :
           Touches(n) /\ cache[n] # NoFile =>
               config.force \/ (pc = "writing" /\ n = Current)]_vars

=============================================================================
