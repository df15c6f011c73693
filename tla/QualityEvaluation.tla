-------------------------- MODULE QualityEvaluation --------------------------
(***************************************************************************)
(* The evaluation of the quality of answers (bench_stage9_quality_deep.py):*)
(* for each system a file of its answers, a judge that is not told which   *)
(* system an answer is of, a file of its scores, and a report the          *)
(* benchmark reads.  The judge gives the same text the same score.         *)
(* What is marked history is there for the properties only.                *)
(***************************************************************************)
EXTENDS Measures, FiniteSets

CONSTANTS
    Commands,       \* what a run is given: systems (a sequence), force, skipJudge and
                    \* retry; and what it finds: routed (the local model), dataset
    LocalSystems,
    Questions,      \* the items all systems answer, multiple choice and hard
    JudgedItems,    \* a sequence: those of the hard ones the judge scores
    Texts,          \* of answers
    UsualText,
    ScoreOf,        \* by text, the score the judge gives, from 1 to 10
    FailedScore,    \* the one of an answer that failed
    RetryRounds,
    NoFile, Torn,
    MaxRuns,        \* bound
    MaxTroubles     \* bound on what does not go as usual

VARIABLES
    questions,  \* kmmlu_questions.json
    responses,  \* responses_{key}.json, by system
    judgeCache, \* judge_scores.json
    evaluation, \* report.json
    pc,
    command,
    todo,       \* systems still to be looked up
    rows,       \* of the system under way
    rounds,     \* retries of it
    collected,  \* responses_by_system
    scores,     \* judge_scores
    runs,
    troubles

files == <<questions, responses, judgeCache, evaluation>>
memory == <<rows, rounds, collected, scores>>
vars == <<files, pc, command, todo, memory, runs, troubles>>

AllSystems == UNION {ToSet(c.systems) : c \in Commands}
Nothing == <<>>
Fetched == [state |-> "whole"]

Init ==
    /\ questions = NoFile
    /\ responses = [s \in AllSystems |-> NoFile]
    /\ judgeCache = NoFile
    /\ evaluation = NoFile
    /\ pc = "idle"
    /\ command = Nothing
    /\ todo = <<>>
    /\ rows = Nothing
    /\ rounds = 0
    /\ collected = Nothing
    /\ scores = Nothing
    /\ runs = 0
    /\ troubles = 0

Troubled(n) == troubles + n <= MaxTroubles /\ troubles' = troubles + n

End ==
    /\ pc' = "idle"
    /\ command' = Nothing
    /\ todo' = <<>> /\ rows' = Nothing /\ rounds' = 0
    /\ collected' = Nothing /\ scores' = Nothing

\* The questions, the answers or the judge cannot be had: an error ends the run.
Fails(place) ==
    /\ pc = place
    /\ Troubled(1)
    /\ End
    /\ UNCHANGED <<files, runs>>

Start(c) ==
    /\ pc = "idle"
    /\ runs < MaxRuns
    /\ runs' = runs + 1
    /\ command' = c
    /\ todo' = c.systems
    /\ pc' = "asking"
    /\ UNCHANGED <<files, memory, troubles>>

\* fetch_kmmlu_questions: a file there is, is used, whatever --force says.
UseQuestions ==
    /\ pc = "asking"
    /\ questions # NoFile
    /\ IF questions = Torn THEN End ELSE pc' = "looking" /\ UNCHANGED <<command, todo, memory>>
    /\ UNCHANGED <<files, runs, troubles>>

BeginFetch ==
    /\ pc = "asking"
    /\ questions = NoFile
    /\ questions' = Torn
    /\ pc' = "fetched"
    /\ UNCHANGED <<responses, judgeCache, evaluation, command, todo, memory, runs, troubles>>

EndFetch ==
    /\ pc = "fetched"
    /\ questions' = Fetched
    /\ pc' = "looking"
    /\ UNCHANGED <<responses, judgeCache, evaluation, command, todo, memory, runs, troubles>>

-----------------------------------------------------------------------------
\* The answers of a system.

Current == Head(todo)
Routed(s) == IF s \in LocalSystems THEN command.routed ELSE s

\* Mistake: the model the system is routed to is left out.
ResponseFingerprintUnrouted(s) == <<s, command.dataset>>

ResponseFingerprint(s) == <<s, Routed(s), command.dataset>>

InUse == responses[Current] # NoFile /\ ~command.force
Matches ==
    responses[Current] # Torn /\ responses[Current].fingerprint = ResponseFingerprint(Current)

ReuseResponses ==
    /\ pc = "looking" /\ todo # <<>>
    /\ InUse /\ Matches
    /\ rows' = responses[Current].rows
    /\ pc' = "collected"
    /\ UNCHANGED <<files, command, todo, rounds, collected, scores, runs, troubles>>

RefuseResponses ==
    /\ pc = "looking" /\ todo # <<>>
    /\ InUse /\ ~Matches
    /\ End
    /\ UNCHANGED <<files, runs, troubles>>

\* history: what the answer is of.
Row(text) == [ok |-> TRUE, text |-> text, of |-> <<Routed(Current), command.dataset>>]
FailedRow == [ok |-> FALSE, text |-> "none", of |-> <<Routed(Current), command.dataset>>]

\* chat_once or timed_stream_request for each of S; at most one does not go as usual.
Answered(S) ==
    {[q \in S |-> Row(UsualText)]}
    \cup {[q \in S |-> IF q = odd THEN answer ELSE Row(UsualText)] :
             odd \in S, answer \in {FailedRow} \cup {Row(t) : t \in Texts}}
TroublesOf(answers) == IF \A q \in DOMAIN answers : answers[q] = Row(UsualText) THEN 0 ELSE 1

\* collect_system
CollectSystem ==
    /\ pc = "looking" /\ todo # <<>>
    /\ ~InUse
    /\ \E answers \in Answered(Questions) : rows' = answers /\ Troubled(TroublesOf(answers))
    /\ pc' = "collected"
    /\ UNCHANGED <<files, command, todo, rounds, collected, scores, runs>>

FailedOf(answers) == {q \in DOMAIN answers : ~answers[q].ok}
Retries == command.retry /\ rounds < RetryRounds /\ FailedOf(rows) # {}

\* retry_failed_rows
RetryFailedRows ==
    /\ pc = "collected"
    /\ Retries
    /\ \E answers \in Answered(FailedOf(rows)) :
        /\ rows' = [q \in Questions |-> IF q \in DOMAIN answers THEN answers[q] ELSE rows[q]]
        /\ Troubled(TroublesOf(answers))
    /\ rounds' = rounds + 1
    /\ UNCHANGED <<files, pc, command, todo, collected, scores, runs>>

\* Reused or not, the file is written anew.
BeginSaving ==
    /\ pc = "collected"
    /\ ~Retries
    /\ responses' = [responses EXCEPT ![Current] = Torn]
    /\ pc' = "saving"
    /\ UNCHANGED <<questions, judgeCache, evaluation, command, todo, memory, runs, troubles>>

EndSaving ==
    /\ pc = "saving"
    /\ responses' = [responses EXCEPT ![Current] =
                        [fingerprint |-> ResponseFingerprint(Current), rows |-> rows]]
    /\ collected' = [s \in DOMAIN collected \cup {Current} |->
                        IF s = Current THEN rows ELSE collected[s]]
    /\ rows' = Nothing
    /\ rounds' = 0
    /\ todo' = Tail(todo)
    /\ pc' = "looking"
    /\ UNCHANGED <<questions, judgeCache, evaluation, command, scores, runs, troubles>>

-----------------------------------------------------------------------------
\* The judge.

Labels == 1 .. Len(command.systems)
NumberOf(item) == CHOOSE i \in DOMAIN JudgedItems : JudgedItems[i] = item

\* The mapping of build_judge_input, the same for the same systems: each item has an
\* order of its own (a rotation stands for the shuffle by a fixed seed).
Mapping ==
    [item \in ToSet(JudgedItems) |->
        [l \in Labels |-> command.systems[1 + ((l + NumberOf(item)) % Len(command.systems))]]]

\* Its document: by item and label, the text that is scored.
JudgeInput ==
    [item \in ToSet(JudgedItems) |-> [l \in Labels |-> collected[Mapping[item][l]][item].text]]

\* Mistake: the answers are left out.
JudgeFingerprintOfItems(input) == <<DOMAIN input, Mapping>>

JudgeFingerprint(input) == <<input, Mapping>>

JudgeInUse == judgeCache # NoFile /\ ~command.force
Outdated ==
    judgeCache \notin {NoFile, Torn} /\ judgeCache.fingerprint # JudgeFingerprint(JudgeInput)

ReuseScores ==
    /\ pc = "looking" /\ todo = <<>> /\ ~command.skipJudge
    /\ JudgeInUse /\ ~Outdated
    /\ IF judgeCache = Torn
       THEN End
       ELSE /\ scores' = judgeCache.scores
            /\ pc' = "scored"
            /\ UNCHANGED <<command, todo, rows, rounds, collected>>
    /\ UNCHANGED <<files, runs, troubles>>

Score(text) == IF text \in Texts THEN ScoreOf[text] ELSE FailedScore

\* run_codex_judge; a score may be out of its range.
RunCodexJudge ==
    /\ pc = "looking" /\ todo = <<>> /\ ~command.skipJudge
    /\ ~JudgeInUse \/ Outdated
    /\ \E wrong \in BOOLEAN :
        /\ Troubled(IF wrong THEN 1 ELSE 0)
        /\ scores' = [item \in ToSet(JudgedItems) |->
                        [l \in Labels |-> IF wrong THEN 0 ELSE Score(JudgeInput[item][l])]]
    /\ pc' = "judged"
    /\ UNCHANGED <<files, command, todo, rows, rounds, collected, runs>>

BeginCaching ==
    /\ pc = "judged"
    /\ judgeCache' = Torn
    /\ pc' = "caching"
    /\ UNCHANGED <<questions, responses, evaluation, command, todo, memory, runs, troubles>>

EndCaching ==
    /\ pc = "caching"
    /\ judgeCache' = [fingerprint |-> JudgeFingerprint(JudgeInput), scores |-> scores]
    /\ pc' = "scored"
    /\ UNCHANGED <<questions, responses, evaluation, command, todo, memory, runs, troubles>>

\* Mistake: a score is taken as it is.
ValidateNothing ==
    /\ pc = "scored"
    /\ pc' = "validated"
    /\ UNCHANGED <<files, command, todo, memory, runs, troubles>>

\* validate_judge_scores, after the scores are in their file.
ValidateJudgeScores ==
    /\ pc = "scored"
    /\ IF \A item \in DOMAIN scores : \A l \in Labels : scores[item][l] \in 1 .. 10
       THEN pc' = "validated" /\ UNCHANGED <<command, todo, memory>>
       ELSE End
    /\ UNCHANGED <<files, runs, troubles>>

-----------------------------------------------------------------------------
\* The report.

\* judge_means, over all items: <<sum, count>>.
JudgeMeans ==
    [s \in ToSet(command.systems) |->
        LET Of(item) == scores[item][CHOOSE l \in Labels : Mapping[item][l] = s]
        IN  <<SumOf([i \in DOMAIN JudgedItems |-> Of(JudgedItems[i])]), Len(JudgedItems)>>]

BeginReport ==
    /\ pc = "validated" \/ (pc = "looking" /\ todo = <<>> /\ command.skipJudge)
    /\ evaluation' = Torn
    /\ pc' = "reporting"
    /\ UNCHANGED <<questions, responses, judgeCache, command, todo, memory, runs, troubles>>

\* Mistake: what failed is not counted.
FailuresOfNobody(answers) == {}

\* failures, of score_all.
Failures(answers) == FailedOf(answers)

\* build_quality_report; history: the answers and the conditions of the run.
EndReport ==
    /\ pc = "reporting"
    /\ evaluation' = [scored |-> [s \in DOMAIN collected |-> Failures(collected[s])],
                      judge |-> IF scores = Nothing THEN Nothing ELSE JudgeMeans,
                      answers |-> collected,
                      under |-> [s \in DOMAIN collected |-> <<Routed(s), command.dataset>>]]
    /\ End
    /\ UNCHANGED <<questions, responses, judgeCache, runs, troubles>>

\* The run is killed.
Crash ==
    /\ pc # "idle"
    /\ Troubled(1)
    /\ End
    /\ UNCHANGED <<files, runs>>

Next ==
    \/ \E c \in Commands : Start(c)
    \/ UseQuestions \/ BeginFetch \/ EndFetch
    \/ ReuseResponses \/ RefuseResponses \/ CollectSystem \/ RetryFailedRows
    \/ BeginSaving \/ EndSaving
    \/ ReuseScores \/ RunCodexJudge \/ BeginCaching \/ EndCaching \/ ValidateJudgeScores
    \/ BeginReport \/ EndReport
    \/ \E place \in {"asking", "looking", "collected"} : Fails(place)
    \/ Crash

Spec == Init /\ [][Next]_vars

-----------------------------------------------------------------------------
\* The files are what the code can leave.
TypeOK ==
    /\ questions \in {NoFile, Torn, Fetched}
    /\ \A s \in AllSystems : responses[s] \in {NoFile, Torn} \/ DOMAIN responses[s].rows = Questions
    /\ judgeCache \in {NoFile, Torn} \/ DOMAIN judgeCache.scores = ToSet(JudgedItems)
    /\ evaluation \in {NoFile, Torn} \/ evaluation.judge = Nothing
          \/ DOMAIN evaluation.judge = DOMAIN evaluation.scored
    /\ DOMAIN collected \cap ToSet(todo) = {}
    /\ rounds \in 0 .. RetryRounds
    /\ runs \in 0 .. MaxRuns /\ troubles \in 0 .. MaxTroubles

OwnScore(answers) ==
    SumOf([i \in DOMAIN JudgedItems |-> Score(answers[JudgedItems[i]].text)])

\* What is reported of a system is what its own answers, given under the conditions of
\* the run, came to: those that failed, and the judge's scores, whatever was cached before
\* and whichever labels the answers had (response_fingerprint, judge_fingerprint,
\* judge_means).
EvaluationOfOwnAnswers ==
    evaluation \notin {NoFile, Torn} =>
        \A s \in DOMAIN evaluation.scored :
            LET answers == evaluation.answers[s]
            IN  /\ \A q \in Questions : answers[q].of = evaluation.under[s]
                /\ evaluation.scored[s] = FailedOf(answers)
                /\ evaluation.judge # Nothing =>
                      evaluation.judge[s] = <<OwnScore(answers), Len(JudgedItems)>>

=============================================================================
