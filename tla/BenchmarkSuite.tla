--------------------------- MODULE BenchmarkSuite ---------------------------
(***************************************************************************)
(* The benchmark together with the evaluation of quality whose report it   *)
(* reads.  Somebody starts one or the other, one at a time.                *)
(***************************************************************************)
EXTENDS Benchmark

CONSTANTS
    Commands, Systems, LocalSystems, Questions, JudgedItems, Texts, UsualText, ScoreOf, FailedScore,
    RetryRounds

ASSUME QualityAssumption ==
    /\ JudgedItems \in Seq(Questions)
    /\ UsualText \in Texts
    /\ ScoreOf \in [Texts -> 1 .. 10] /\ FailedScore \in 1 .. 10
    /\ RetryRounds \in Nat
    /\ \A c \in Commands : c.systems \in Seq(Systems) /\ IsInjective(c.systems)

VARIABLES
    questions, responses, judgeCache, step, command, systems, rows, rounds, collected, scores

Quality == INSTANCE QualityEvaluation WITH pc <- step, todo <- systems

qualityOnly == <<questions, responses, judgeCache, step, command, systems, rows, rounds,
                 collected, scores>>
benchmarkOnly == <<files, gateways, pc, config, todo, outputs, result, killed>>

SuiteInit == Init /\ Quality!Init

BenchmarkStep ==
    /\ step = "idle"
    /\ Next
    /\ UNCHANGED <<qualityOnly, evaluation>>

QualityStep ==
    /\ pc = "idle"
    /\ Quality!Next
    /\ UNCHANGED benchmarkOnly

SuiteSpec == SuiteInit /\ [][BenchmarkStep \/ QualityStep]_<<vars, qualityOnly, evaluation>>

\* The types of both.
SuiteTypeOK == TypeOK /\ Quality!TypeOK

\* EvaluationOfOwnAnswers, of the evaluation (bench_stage9_quality_deep.py).
EvaluationOfOwnAnswers == Quality!EvaluationOfOwnAnswers

\* The benchmark lets the quality pass (quality_verdict) only on the judge's scores of
\* all systems compared, for their own answers to every question, of which none failed,
\* and if the local ones come up to nine tenths of those of every model.
QualityEarned ==
    report # NoFile /\ report.criteria.quality = "passed" =>
        LET Given(s) == report.evaluation.answers[s]
            Scored(s) ==
                /\ s \in DOMAIN report.evaluation.answers
                /\ \A q \in Questions : Given(s)[q].ok
        IN  /\ report.evaluation # NoFile
            /\ report.evaluation.judge # Nothing
            /\ Scored(LocalSystem)
            /\ \A m \in report.config.models :
                  /\ Scored(Counterpart[m])
                  /\ 10 * Quality!OwnScore(Given(LocalSystem))
                        >= 9 * Quality!OwnScore(Given(Counterpart[m]))

\* No verdict passes on less than was to be measured (evaluate_pass_criteria).
VerdictsEarned == FiguresEarned /\ QualityEarned

=============================================================================
