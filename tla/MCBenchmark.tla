---------------------------- MODULE MCBenchmark ----------------------------
(***************************************************************************)
(* A small instance of BenchmarkSuite: two datasets of two and three       *)
(* items, two models compared, load stages of one to three workers; three  *)
(* systems evaluated on three questions, of which two are judged.          *)
(***************************************************************************)
EXTENDS BenchmarkSuite

TwoDatasets ==
    [d1 |-> <<[id |-> "rag-01", task |-> "rag"], [id |-> "rag-02", task |-> "rag"],
              [id |-> "vis-01", task |-> "vision"]>>,
     d2 |-> <<[id |-> "rag-01", task |-> "rag"], [id |-> "cls-01", task |-> "classify"]>>]

Line(at, data) == [at |-> at, data |-> data]
Stream(lines, whole) ==
    [status |-> 200, lines |-> lines, broken |-> FALSE, whole |-> whole, total |-> 4,
     usage |-> 3, prompt |-> 2]
Good == Stream(<<Line(1, "a"), Line(3, "b"), Line(4, "usage"), Line(4, "done")>>, TRUE)
Slow == [Stream(<<Line(3, "c"), Line(4, "done")>>, TRUE) EXCEPT !.usage = NotMeasured]
Cut == Stream(<<Line(1, "a")>>, FALSE)
Garbled == Stream(<<Line(1, "a"), Line(2, "garbled"), Line(3, "done")>>, FALSE)
NotKnown == [Stream(<<>>, FALSE) EXCEPT !.status = 400]
Lost == [Cut EXCEPT !.broken = TRUE]
SixAnswers == {Good, Slow, Cut, Garbled, NotKnown, Lost}

Request(from, to, answer) == [from |-> from, to |-> to, answer |-> answer]
FirstHalf == <<Request(0, 1, Good)>>
SomeWorks == {FirstHalf, <<>>, <<Request(1, 2, Good)>>, <<Request(0, 1, Cut)>>,
              <<Request(0, 1, Good), Request(1, 1, Good)>>}

Fits == {[vram |-> 2, size |-> 2]}
SomeSnapshots == <<Fits, {}, {[vram |-> 1, size |-> 2]}, Fits \cup {[vram |-> NotMeasured, size |-> 1]}>>

PricesInKrw == [mini |-> [input |-> 1, output |-> 8], nano |-> [input |-> 1, output |-> 5]]
SystemOf == [mini |-> "mini-minimal", nano |-> "nano-none"]

Evaluation ==
    [systems |-> <<"local-none", "mini-minimal", "nano-none">>, force |-> FALSE,
     skipJudge |-> FALSE, retry |-> FALSE, routed |-> "gemma", dataset |-> 1]
SomeCommands ==
    {Evaluation,
     [Evaluation EXCEPT !.force = TRUE, !.retry = TRUE],
     [Evaluation EXCEPT !.retry = TRUE],
     [Evaluation EXCEPT !.routed = "llama"],
     [Evaluation EXCEPT !.systems = <<"local-none", "mini-minimal">>],
     [Evaluation EXCEPT !.systems = <<"mini-minimal">>, !.skipJudge = TRUE]}
TwoJudged == <<"trap-01", "format-01">>
ScoreOfText == [good |-> 8, poor |-> 3]

Run(phases) ==
    [dataset |-> "d1", sample |-> All, chat |-> "gpu", models |-> <<"mini", "nano">>,
     levels |-> <<1, 2>>, judge |-> "none", force |-> FALSE, phases |-> phases]
WholeRun == Run({"local", "load", "openai", "judge", "report"})
SomeRuns ==
    {WholeRun,
     [WholeRun EXCEPT !.force = TRUE],
     [WholeRun EXCEPT !.sample = 1],
     [WholeRun EXCEPT !.dataset = "d2"],
     [WholeRun EXCEPT !.levels = <<2, 3>>],
     [WholeRun EXCEPT !.judge = "chosen", !.models = <<"mini">>],
     [Run({"local"}) EXCEPT !.force = TRUE],
     Run({"load"}),
     Run({"report"})}

=============================================================================
