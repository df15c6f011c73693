--------------------------- MODULE BenchmarkProofs --------------------------
(***************************************************************************)
(* Proofs about BenchmarkSuite, for any arguments and commands, any        *)
(* datasets, systems and answers, any number of runs and of troubles.      *)
(***************************************************************************)
EXTENDS BenchmarkSuite, Induction

PhaseSet == {"local", "load", "openai", "judge"}
FileSet == {"report.md", "report.json", "blind_samples.md", "blind_key.json"}
Order == [local |-> 1, load |-> 2, openai |-> 3, judge |-> 4]
Underway == {"looking", "starting", "booting", "measured", "writing"} \cup PhaseSet
Producing == {"starting", "booting", "measured", "writing"} \cup PhaseSet

LEMMA PhasesFacts ==
    /\ ToSet(Phases) = PhaseSet /\ DOMAIN Phases = 1 .. 4 /\ Len(Phases) = 4
    /\ Phases \in Seq(PhaseSet)
    /\ \A i \in 1 .. 4 : Order[Phases[i]] = i
<1>1. DOMAIN Phases = 1 .. 4 /\ Len(Phases) = 4 /\ 1 .. 4 = {1, 2, 3, 4}
  BY DEF Phases
<1>2. ToSet(Phases) = {Phases[1], Phases[2], Phases[3], Phases[4]}
  BY <1>1 DEF ToSet
<1>3. Phases \in Seq(PhaseSet)
  BY DEF Phases, PhaseSet
<1>. QED
  BY <1>1, <1>2, <1>3 DEF Phases, PhaseSet, Order

LEMMA ReportFilesFacts == ToSet(ReportFiles) = FileSet
<1>1. DOMAIN ReportFiles = {1, 2, 3, 4}
  BY DEF ReportFiles
<1>. QED
  BY <1>1 DEF ReportFiles, FileSet, ToSet

\* The phases of t are looked up in the order of run_benchmark.
Ordered(t) ==
    /\ t \in Seq(PhaseSet)
    /\ \A i, j \in 1 .. Len(t) : i < j => Order[t[i]] < Order[t[j]]

\* The list of what a run needs is in order; a report needs every phase, the judge needs
\* the answers of both sides.
LEMMA NeedsFacts ==
    ASSUME NEW phases
    PROVE  /\ Ordered(Needs(phases))
           /\ "report" \in phases => PhaseSet \subseteq ToSet(Needs(phases))
           /\ "judge" \in ToSet(Needs(phases)) => {"local", "openai"} \subseteq ToSet(Needs(phases))
<1>. DEFINE
    users == [local |-> {"local", "judge", "report"}, load |-> {"load", "report"},
              openai |-> {"openai", "judge", "report"}, judge |-> {"judge", "report"}]
    I == {i \in 1 .. 4 : users[Phases[i]] \cap phases # {}}
    t == Needs(phases)
<1>1. t = Kept(Phases, I)
  BY PhasesFacts DEF Needs
<1>2. I \in SUBSET (1 .. 4) /\ I \in SUBSET (1 .. Len(Phases))
  BY PhasesFacts
<1>3. 1 \in I <=> {"local", "judge", "report"} \cap phases # {}
  BY DEF Phases
<1>4. 2 \in I <=> {"load", "report"} \cap phases # {}
  BY DEF Phases
<1>5. 3 \in I <=> {"openai", "judge", "report"} \cap phases # {}
  BY DEF Phases
<1>6. 4 \in I <=> {"judge", "report"} \cap phases # {}
  BY DEF Phases
<1>. HIDE DEF I, t
<1>7. t \in Seq(PhaseSet) /\ \E p : Picks(p, t, Phases, I)
  BY <1>1, <1>2, PhasesFacts, KeptElements
<1>8. PICK p : Picks(p, t, Phases, I)
  BY <1>7
<1>9. /\ p \in [1 .. Len(t) -> I] /\ \A k \in 1 .. Len(t) : t[k] = Phases[p[k]]
      /\ \A k, l \in 1 .. Len(t) : k < l => p[k] < p[l]
      /\ \A i \in I : \E k \in 1 .. Len(t) : p[k] = i
  BY <1>8 DEF Picks
<1>10. \A k \in 1 .. Len(t) : Order[t[k]] = p[k]
  <2>1. \A k \in 1 .. Len(t) : p[k] \in 1 .. 4 /\ t[k] = Phases[p[k]]
    BY <1>2, <1>9
  <2>. QED
    BY <2>1, PhasesFacts
<1>11. Ordered(t)
  BY <1>7, <1>9, <1>10 DEF Ordered
<1>12. DOMAIN t = 1 .. Len(t)
  BY <1>7, LenProperties
<1>13. \A i \in I : Phases[i] \in ToSet(t)
  BY <1>9, <1>12 DEF ToSet
<1>14. "report" \in phases => PhaseSet \subseteq ToSet(t)
  <2>1. "report" \in phases => 1 \in I /\ 2 \in I /\ 3 \in I /\ 4 \in I
    BY <1>3, <1>4, <1>5, <1>6
  <2>. QED
    BY <1>13, <2>1 DEF Phases, PhaseSet
<1>15. "judge" \in ToSet(t) => {"local", "openai"} \subseteq ToSet(t)
  <2>1. SUFFICES ASSUME "judge" \in ToSet(t) PROVE {"local", "openai"} \subseteq ToSet(t)
    OBVIOUS
  <2>2. PICK k \in 1 .. Len(t) : t[k] = "judge"
    BY <1>12, <2>1 DEF ToSet
  <2>3. p[k] = 4
    BY <1>10, <2>2 DEF Order
  <2>4. 4 \in I
    BY <1>9, <2>2, <2>3
  <2>5. 1 \in I /\ 3 \in I
    BY <1>3, <1>5, <1>6, <2>4
  <2>. QED
    BY <1>13, <2>5 DEF Phases
<1>. QED
  BY <1>11, <1>14, <1>15 DEF t

LEMMA HeadAndRest ==
    ASSUME NEW S, NEW t \in Seq(S), t # <<>>
    PROVE  /\ Head(t) \in S /\ Tail(t) \in Seq(S)
           /\ ToSet(t) = {Head(t)} \cup ToSet(Tail(t))
<1>1. /\ Tail(t) \in Seq(S) /\ Len(Tail(t)) = Len(t) - 1
      /\ Head(t) = t[1] /\ t[1] \in S /\ Len(t) \in Nat /\ Len(t) >= 1
      /\ \A i \in 1 .. Len(t) - 1 : Tail(t)[i] = t[i + 1]
      /\ DOMAIN t = 1 .. Len(t) /\ DOMAIN Tail(t) = 1 .. Len(t) - 1
  BY HeadTailProperties, LenProperties, EmptySeq
<1>2. \A i \in 1 .. Len(t) : i = 1 \/ (i - 1 \in 1 .. Len(t) - 1 /\ t[i] = Tail(t)[i - 1])
  BY <1>1
<1>3. ToSet(t) \subseteq {Head(t)} \cup ToSet(Tail(t))
  <2>1. SUFFICES ASSUME NEW i \in 1 .. Len(t) PROVE t[i] \in {Head(t)} \cup ToSet(Tail(t))
    BY <1>1 DEF ToSet
  <2>2. CASE i = 1
    BY <1>1, <2>2
  <2>3. CASE i # 1
    <3>1. i - 1 \in DOMAIN Tail(t) /\ t[i] = Tail(t)[i - 1]
      BY <1>1, <1>2, <2>3
    <3>. QED
      BY <3>1 DEF ToSet
  <2>. QED
    BY <2>2, <2>3
<1>4. {Head(t)} \cup ToSet(Tail(t)) \subseteq ToSet(t)
  <2>1. \A i \in 1 .. Len(t) - 1 : i + 1 \in 1 .. Len(t)
    BY <1>1
  <2>. QED
    BY <1>1, <2>1 DEF ToSet
<1>. QED
  BY <1>1, <1>3, <1>4

\* What is left of a list in order after its first phase.
LEMMA OrderedTail ==
    ASSUME NEW t, Ordered(t), t # <<>>
    PROVE  /\ Head(t) \in PhaseSet
           /\ Ordered(Tail(t))
           /\ ToSet(t) = {Head(t)} \cup ToSet(Tail(t))
           /\ Head(t) \notin ToSet(Tail(t))
           /\ Head(t) = "judge" => Tail(t) = <<>>
<1>1. t \in Seq(PhaseSet) /\ \A i, j \in 1 .. Len(t) : i < j => Order[t[i]] < Order[t[j]]
  BY DEF Ordered
<1>2. /\ Tail(t) \in Seq(PhaseSet) /\ Len(Tail(t)) = Len(t) - 1
      /\ Head(t) = t[1] /\ t[1] \in PhaseSet /\ Len(t) \in Nat /\ Len(t) >= 1
      /\ \A i \in 1 .. Len(t) - 1 : Tail(t)[i] = t[i + 1]
      /\ DOMAIN t = 1 .. Len(t) /\ DOMAIN Tail(t) = 1 .. Len(t) - 1
  BY <1>1, HeadTailProperties, LenProperties, EmptySeq
<1>3. Ordered(Tail(t))
  <2>1. \A i, j \in 1 .. Len(t) - 1 : i < j => Order[Tail(t)[i]] < Order[Tail(t)[j]]
    BY <1>1, <1>2
  <2>. QED
    BY <1>2, <2>1 DEF Ordered
<1>4. ToSet(t) = {Head(t)} \cup ToSet(Tail(t))
  BY <1>1, HeadAndRest
<1>5. \A i \in 1 .. Len(t) - 1 : Order[Head(t)] < Order[Tail(t)[i]] /\ Tail(t)[i] \in PhaseSet
  <2>1. \A i \in 1 .. Len(t) - 1 : i + 1 \in 1 .. Len(t) /\ 1 \in 1 .. Len(t) /\ 1 < i + 1
    BY <1>2
  <2>. QED
    BY <1>1, <1>2, <2>1, ElementOfSeq
<1>6. \A n \in PhaseSet : Order[n] \in 1 .. 4
  BY DEF PhaseSet, Order
<1>7. Head(t) \notin ToSet(Tail(t))
  <2>1. SUFFICES ASSUME NEW i \in 1 .. Len(t) - 1, Tail(t)[i] = Head(t) PROVE FALSE
    BY <1>2 DEF ToSet
  <2>2. Order[Head(t)] < Order[Tail(t)[i]] /\ Order[Head(t)] \in 1 .. 4
    BY <1>2, <1>5, <1>6
  <2>3. Order[Tail(t)[i]] = Order[Head(t)]
    BY <2>1
  <2>. QED
    BY <2>2, <2>3
<1>8. Head(t) = "judge" => Tail(t) = <<>>
  <2>1. SUFFICES ASSUME Head(t) = "judge", Tail(t) # <<>> PROVE FALSE
    OBVIOUS
  <2>2. Len(Tail(t)) # 0
    BY <1>2, <2>1, EmptySeq
  <2>3. 1 \in 1 .. Len(t) - 1
    BY <1>2, <2>2
  <2>4. Order["judge"] < Order[Tail(t)[1]] /\ Order[Tail(t)[1]] \in 1 .. 4
    BY <1>5, <1>6, <2>1, <2>3
  <2>5. Order["judge"] = 4
    BY DEF Order
  <2>6. \A x \in 1 .. 4 : ~ (4 < x)
    OBVIOUS
  <2>. QED
    BY <2>4, <2>5, <2>6, Zenon
<1>. QED
  BY <1>2, <1>3, <1>4, <1>7, <1>8

-----------------------------------------------------------------------------
\* The inductive invariant.

\* Where a run is and what it has still to do.
Control ==
    /\ DOMAIN cache = PhaseSet /\ cache = [n \in PhaseSet |-> cache[n]]
    /\ DOMAIN published = FileSet /\ published = [f \in FileSet |-> published[f]]
    /\ pc \in {"idle", "publishing"} \cup Underway
    /\ pc = "idle" => outputs = Nothing
    /\ pc # "idle" => config \in Configs
    /\ DOMAIN outputs \subseteq PhaseSet
    /\ pc \in Underway =>
          /\ Ordered(todo)
          /\ "report" \in config.phases => PhaseSet \subseteq DOMAIN outputs \cup ToSet(todo)
          /\ "judge" \in DOMAIN outputs \cup ToSet(todo) =>
                {"local", "openai"} \subseteq DOMAIN outputs \cup ToSet(todo)
          /\ "judge" \in DOMAIN outputs => todo = <<>>
    /\ pc \in Producing => todo # <<>>
    /\ pc \in PhaseSet => pc = Head(todo)
    /\ pc \in {"starting", "booting"} => Head(todo) \in {"local", "load"}
    /\ pc \in Producing \ {"writing"} => cache[Head(todo)] = NoFile \/ config.force
    /\ pc = "writing" => cache[Head(todo)] = Torn

\* The files still to be written while a report is.
Unpublished ==
    {ReportFiles, <<"report.json", "blind_samples.md", "blind_key.json">>,
     <<"blind_samples.md", "blind_key.json">>, <<"blind_key.json">>}

\* What a run that was not killed has left, or is about to put right.
Clean ==
    /\ gateways \subseteq killed \cup (IF pc \in {"booting", "local", "load"} THEN {runs} ELSE {})
    /\ killed = {} =>
          \A n \in PhaseSet : cache[n] = Torn => pc = "writing" /\ n = Head(todo)
    /\ pc = "publishing" => todo \in Unpublished
    /\ killed = {} /\ pc = "publishing" =>
          /\ \A f \in FileSet \ ToSet(todo) : published[f] = runs
          /\ \A f, g \in ToSet(todo) : published[f] = published[g]
    /\ killed = {} /\ pc # "publishing" => \A f, g \in FileSet : published[f] = published[g]

\* The rows are of items of the dataset.
OfItems(d, given) ==
    /\ given \in Seq(ToSet(given))
    /\ \A r \in ToSet(given) : \E i \in DOMAIN Items[d] :
          r.id = Items[d][i].id /\ r.task = Items[d][i].task

\* The answers to questions that the judge scores, from a digest of answers.
OpenOfDigest(model, d, digest) ==
    {[id |-> p[1], model |-> model, text |-> p[2]] :
        p \in {q \in digest : \E i \in DOMAIN Items[d] :
                  Items[d][i].id = q[1] /\ Items[d][i].task \in JudgedTasks}}

ScoredOf(given) == {[id |-> s.id, model |-> s.model, text |-> s.text] : s \in ToSet(given)}

\* Meta, of any arguments and outputs.
MetaOf(c, out, n) ==
    [dataset |-> c.dataset, sample |-> c.sample,
     more |-> CASE n = "local" -> c.chat
                [] n = "load" -> <<c.chat, c.levels>>
                [] n = "openai" -> c.models
                [] n = "judge" -> <<c.judge, AnswersDigest(out.local.items),
                                    [m \in DOMAIN out.openai.chat |->
                                        AnswersDigest(out.openai.chat[m])]>>]

\* The result of a phase was measured under the conditions in meta.
Sound(n, meta, r) ==
    /\ r.under.dataset = meta.dataset /\ r.under.sample = meta.sample
    /\ n = "local" => OfItems(meta.dataset, r.items)
    /\ n = "load" => r.under.levels = meta.more[2]
    /\ n = "openai" =>
          /\ r.under.models = ToSet(meta.more)
          /\ DOMAIN r.chat = ToSet(meta.more)
          /\ \A m \in DOMAIN r.chat : OfItems(meta.dataset, r.chat[m])
    /\ n = "judge" =>
          ScoredOf(r.scores) =
              OpenOfDigest(LocalModel, meta.dataset, meta.more[2])
              \cup UNION {OpenOfDigest(m, meta.dataset, meta.more[3][m]) : m \in DOMAIN meta.more[3]}

\* What a report says was measured together.
OneMeasurement(r) ==
    LET out == r.outputs
    IN  /\ \A n \in PhaseSet :
              /\ out[n].under.dataset = r.config.dataset
              /\ out[n].under.sample = r.config.sample
        /\ out.load.under.levels = r.config.levels
        /\ out.openai.under.models = r.config.models
        /\ ScoredOf(out.judge.scores)
              = OpenAnswers(LocalModel, out.local.items)
                \cup UNION {OpenAnswers(m, out.openai.chat[m]) : m \in r.config.models}

\* Every result was measured under the conditions it is used for.
Measured ==
    /\ \A n \in PhaseSet :
          cache[n] \notin {NoFile, Torn} => Sound(n, cache[n].meta, cache[n].result)
    /\ pc \in Underway => \A n \in DOMAIN outputs : Sound(n, MetaOf(config, outputs, n), outputs[n])
    /\ pc \in {"measured", "writing"} => Sound(Head(todo), MetaOf(config, outputs, Head(todo)), result)
    /\ pc = "publishing" => OneMeasurement(result)
    /\ report # NoFile => OneMeasurement(report)

LEMMA WithFacts ==
    ASSUME NEW out, NEW n, NEW r
    PROVE  /\ DOMAIN With(out, n, r) = DOMAIN out \cup {n}
           /\ With(out, n, r)[n] = r
           /\ \A m \in DOMAIN out : m # n => With(out, n, r)[m] = out[m]
BY DEF With

LEMMA RecordIsNoMark ==
    ASSUME NEW a, NEW b
    PROVE  [meta |-> a, result |-> b] \notin {NoFile, Torn}
<1>1. DOMAIN [meta |-> a, result |-> b] = {"meta", "result"}
  OBVIOUS
<1>2. DOMAIN NoFile = {"state"} /\ DOMAIN Torn = {"state"}
  BY DEF NoFile, Torn
<1>. QED
  BY <1>1, <1>2

LEMMA MarksDiffer == NoFile # Torn
BY DEF NoFile, Torn

\* The steps of a run that end it.
LEMMA EndKeepsControl ==
    ASSUME Control, End, UNCHANGED <<cache, published>>
    PROVE  Control'
<1>1. DOMAIN <<>> = {}
  OBVIOUS
<1>2. /\ cache' = cache /\ published' = published
      /\ pc' = "idle" /\ outputs' = <<>> /\ DOMAIN outputs' = {}
  BY <1>1 DEF End, Nothing
<1>3. pc' \notin Underway \cup Producing \cup PhaseSet
  BY <1>2 DEF Underway, Producing, PhaseSet
<1>. QED
  BY <1>2, <1>3 DEF Control, Nothing, Producing

\* The steps of a phase that is under way.
LEMMA WorkKeepsControl ==
    ASSUME Control, UNCHANGED <<cache, published, config, todo, outputs>>,
           pc \in Producing \ {"writing"}, pc' \in Producing \ {"writing"},
           pc' \in PhaseSet => pc' = Head(todo),
           pc' \in {"starting", "booting"} => Head(todo) \in {"local", "load"}
    PROVE  Control'
<1>1. /\ cache' = cache /\ published' = published /\ config' = config /\ todo' = todo
      /\ outputs' = outputs
  OBVIOUS
<1>2. /\ pc \in Underway /\ pc' \in Underway /\ pc # "idle" /\ pc' # "idle" /\ pc' # "writing"
  BY DEF Underway, Producing, PhaseSet
<1>. QED
  BY <1>1, <1>2 DEF Control

LEMMA StartKeepsControl ==
    ASSUME Control, NEW c \in Configs, Start(c)
    PROVE  Control'
<1>1. /\ cache' = cache /\ published' = published /\ outputs' = <<>> /\ pc' = "looking"
      /\ config' = c /\ todo' = Needs(c.phases)
  BY DEF Start, Control, files, Nothing
<1>2. DOMAIN outputs' = {}
  BY <1>1
<1>3. pc' \in Underway /\ pc' \notin Producing /\ pc' \notin PhaseSet
  BY <1>1 DEF Underway, Producing, PhaseSet
<1>4. /\ Ordered(Needs(c.phases))
      /\ "report" \in c.phases => PhaseSet \subseteq ToSet(Needs(c.phases))
      /\ "judge" \in ToSet(Needs(c.phases)) => {"local", "openai"} \subseteq ToSet(Needs(c.phases))
  BY NeedsFacts
<1>. QED
  BY <1>1, <1>2, <1>3, <1>4 DEF Control

\* A phase whose result there is leaves the list.
LEMMA NextPhaseKeepsControl ==
    ASSUME Control, pc \in {"looking", "writing"}, todo # <<>>, UNCHANGED <<published, config>>,
           NEW r, outputs' = With(outputs, Head(todo), r), todo' = Tail(todo), pc' = "looking",
           DOMAIN cache' = PhaseSet, cache' = [n \in PhaseSet |-> cache'[n]]
    PROVE  Control'
<1>1. pc \in Underway /\ pc' \in Underway /\ pc' \notin Producing /\ pc' \notin PhaseSet
  BY DEF Underway, Producing, PhaseSet
<1>2. Ordered(todo)
  BY <1>1 DEF Control
<1>3. /\ Head(todo) \in PhaseSet /\ Ordered(Tail(todo))
      /\ ToSet(todo) = {Head(todo)} \cup ToSet(Tail(todo))
      /\ Head(todo) = "judge" => Tail(todo) = <<>>
  BY <1>2, OrderedTail
<1>4. DOMAIN outputs' = DOMAIN outputs \cup {Head(todo)}
  BY WithFacts
<1>5. DOMAIN outputs' \cup ToSet(todo') = DOMAIN outputs \cup ToSet(todo)
  BY <1>3, <1>4
<1>6. "judge" \notin DOMAIN outputs
  BY <1>1 DEF Control
<1>. QED
  BY <1>1, <1>3, <1>4, <1>5, <1>6 DEF Control

LEMMA ReuseKeepsControl ==
    ASSUME Control, Reuse
    PROVE  Control'
<1>1. /\ pc = "looking" /\ todo # <<>> /\ pc' = "looking" /\ UNCHANGED <<published, config, cache>>
      /\ outputs' = With(outputs, Head(todo), cache[Head(todo)].result) /\ todo' = Tail(todo)
  BY DEF Reuse, Looking, Current, files
<1>2. DOMAIN cache' = PhaseSet /\ cache' = [n \in PhaseSet |-> cache'[n]]
  BY <1>1 DEF Control
<1>. QED
  BY <1>1, <1>2, NextPhaseKeepsControl

LEMMA EndWritingKeepsControl ==
    ASSUME Control, EndWriting
    PROVE  Control'
<1>1. /\ pc = "writing" /\ pc' = "looking" /\ UNCHANGED <<published, config>>
      /\ outputs' = With(outputs, Head(todo), result) /\ todo' = Tail(todo)
      /\ cache' = [cache EXCEPT ![Head(todo)] = [meta |-> Meta(Head(todo)), result |-> result]]
  BY DEF EndWriting, Current
<1>2. todo # <<>>
  BY <1>1 DEF Control, Producing
<1>3. DOMAIN cache' = PhaseSet /\ cache' = [n \in PhaseSet |-> cache'[n]]
  BY <1>1 DEF Control
<1>. QED
  BY <1>1, <1>2, <1>3, NextPhaseKeepsControl

LEMMA ProduceKeepsControl ==
    ASSUME Control, Produce
    PROVE  Control'
<1>1. /\ pc = "looking" /\ todo # <<>> /\ UNCHANGED <<cache, published, config, todo, outputs>>
      /\ pc' = IF Head(todo) \in {"local", "load"} THEN "starting" ELSE Head(todo)
      /\ cache[Head(todo)] = NoFile \/ config.force
  BY DEF Produce, Looking, Current, files, InUse
<1>2. pc \in Underway /\ Ordered(todo)
  BY <1>1 DEF Control, Underway
<1>3. Head(todo) \in PhaseSet
  BY <1>1, <1>2, OrderedTail
<1>4. /\ pc' \in Producing \ {"writing"} /\ pc' \in Underway /\ pc' # "idle"
      /\ pc' \in PhaseSet => pc' = Head(todo)
      /\ pc' \in {"starting", "booting"} => Head(todo) \in {"local", "load"}
  BY <1>1, <1>3 DEF Producing, PhaseSet, Underway
<1>. QED
  BY <1>1, <1>2, <1>4 DEF Control

LEMMA BeginWritingKeepsControl ==
    ASSUME Control, BeginWriting
    PROVE  Control'
<1>1. /\ pc = "measured" /\ pc' = "writing" /\ UNCHANGED <<published, config, todo, outputs>>
      /\ cache' = [cache EXCEPT ![Head(todo)] = Torn]
  BY DEF BeginWriting, Current
<1>2. pc \in Underway /\ pc \in Producing /\ pc' \in Underway /\ pc' \in Producing /\ pc' \notin PhaseSet
  BY <1>1 DEF Underway, Producing, PhaseSet
<1>3. Ordered(todo) /\ todo # <<>>
  BY <1>2 DEF Control
<1>4. Head(todo) \in PhaseSet
  BY <1>3, OrderedTail
<1>5. DOMAIN cache' = PhaseSet /\ cache' = [n \in PhaseSet |-> cache'[n]] /\ cache'[Head(todo)] = Torn
  BY <1>1, <1>4 DEF Control
<1>. QED
  BY <1>1, <1>2, <1>3, <1>5 DEF Control

\* The steps of the report.
LEMMA BuildReportKeepsControl ==
    ASSUME Control, BuildReport
    PROVE  Control'
<1>1. UNCHANGED <<cache, published>> /\ pc = "looking"
  BY DEF BuildReport, files
<1>2. CASE End
  BY <1>1, <1>2, EndKeepsControl
<1>3. CASE pc' = "publishing" /\ outputs' = Nothing /\ config' = config
  <2>1. DOMAIN outputs' = {} /\ cache' = cache /\ published' = published
    BY <1>1, <1>3 DEF Nothing
  <2>2. pc' \notin Underway \cup Producing \cup PhaseSet
    BY <1>3 DEF Underway, Producing, PhaseSet
  <2>. QED
    BY <1>1, <1>3, <2>1, <2>2 DEF Control
<1>. QED
  BY <1>2, <1>3 DEF BuildReport

LEMMA PublishKeepsControl ==
    ASSUME Control, Publish
    PROVE  Control'
<1>1. /\ pc = "publishing" /\ cache' = cache
      /\ published' = [published EXCEPT ![Head(todo)] = runs]
  BY DEF Publish
<1>2. DOMAIN published' = FileSet /\ published' = [f \in FileSet |-> published'[f]]
  BY <1>1 DEF Control
<1>3. CASE End
  <2>1. pc' = "idle" /\ outputs' = <<>> /\ DOMAIN outputs' = {}
    BY <1>3 DEF End, Nothing
  <2>2. pc' \notin Underway \cup Producing \cup PhaseSet
    BY <2>1 DEF Underway, Producing, PhaseSet
  <2>. QED
    BY <1>1, <1>2, <2>1, <2>2 DEF Control, Nothing
<1>4. CASE UNCHANGED <<pc, config, outputs>>
  <2>1. pc' = "publishing" /\ pc' \notin Underway \cup Producing \cup PhaseSet
    BY <1>1, <1>4 DEF Underway, Producing, PhaseSet
  <2>. QED
    BY <1>1, <1>2, <1>4, <2>1 DEF Control
<1>. QED
  BY <1>3, <1>4 DEF Publish

\* The steps of the phases.
LEMMA PhaseKeepsControl ==
    ASSUME Control,
           \/ StartGateway \/ Healthy \/ StartupFails \/ PhaseFails
           \/ MeasureLocal \/ MeasureStage \/ FinishLoad \/ AskOpenAi \/ Judge
    PROVE  Control'
<1>1. CASE StartGateway
  <2>1. /\ UNCHANGED <<cache, published, config, todo, outputs>> /\ pc = "starting" /\ pc' = "booting"
    BY <1>1 DEF StartGateway, files
  <2>2. Head(todo) \in {"local", "load"}
    BY <2>1 DEF Control
  <2>3. pc \in Producing \ {"writing"} /\ pc' \in Producing \ {"writing"} /\ pc' \notin PhaseSet
    BY <2>1 DEF Producing, PhaseSet
  <2>. QED
    BY <2>1, <2>2, <2>3, WorkKeepsControl
<1>2. CASE Healthy
  <2>1. /\ UNCHANGED <<cache, published, config, todo, outputs>> /\ pc = "booting" /\ pc' = Head(todo)
    BY <1>2 DEF Healthy, files, Current
  <2>2. Head(todo) \in {"local", "load"}
    BY <2>1 DEF Control
  <2>3. pc \in Producing \ {"writing"} /\ pc' \in Producing \ {"writing"}
    BY <2>1, <2>2 DEF Producing, PhaseSet
  <2>. QED
    BY <2>1, <2>2, <2>3, WorkKeepsControl
<1>3. CASE StartupFails \/ PhaseFails
  <2>1. End /\ UNCHANGED <<cache, published>>
    BY <1>3 DEF StartupFails, PhaseFails, files
  <2>. QED
    BY <2>1, EndKeepsControl
<1>4. CASE MeasureLocal \/ FinishLoad \/ AskOpenAi
  <2>1. /\ UNCHANGED <<cache, published, config, todo, outputs>>
        /\ pc \in {"local", "load", "openai"} /\ pc' = "measured"
    <3>1. CASE MeasureLocal
      BY <3>1 DEF MeasureLocal, files
    <3>2. CASE FinishLoad
      BY <3>2 DEF FinishLoad, files
    <3>3. CASE AskOpenAi
      BY <3>3 DEF AskOpenAi, files
    <3>. QED
      BY <1>4, <3>1, <3>2, <3>3
  <2>2. pc \in Producing \ {"writing"} /\ pc' \in Producing \ {"writing"}
        /\ pc' \notin PhaseSet \cup {"starting", "booting"}
    BY <2>1 DEF Producing, PhaseSet
  <2>. QED
    BY <2>1, <2>2, WorkKeepsControl
<1>5. CASE MeasureStage
  <2>1. /\ UNCHANGED <<cache, published, config, todo, outputs, pc>> /\ pc = "load"
    BY <1>5 DEF MeasureStage, files
  <2>2. pc \in Producing \ {"writing"} /\ pc' \in Producing \ {"writing"} /\ pc' = Head(todo)
    BY <2>1 DEF Producing, PhaseSet, Control
  <2>. QED
    BY <2>1, <2>2, WorkKeepsControl
<1>6. CASE Judge
  <2>1. UNCHANGED <<cache, published>> /\ pc = "judge"
    BY <1>6 DEF Judge, files
  <2>2. End \/ (pc' = "measured" /\ UNCHANGED <<config, todo, outputs>>)
    BY <1>6 DEF Judge
  <2>3. CASE End
    BY <2>1, <2>3, EndKeepsControl
  <2>4. CASE pc' = "measured" /\ UNCHANGED <<config, todo, outputs>>
    <3>1. pc \in Producing \ {"writing"} /\ pc' \in Producing \ {"writing"}
          /\ pc' \notin PhaseSet \cup {"starting", "booting"}
      BY <2>1, <2>4 DEF Producing, PhaseSet
    <3>. QED
      BY <2>1, <2>4, <3>1, WorkKeepsControl
  <2>. QED
    BY <2>2, <2>3, <2>4
<1>. QED
  BY <1>1, <1>2, <1>3, <1>4, <1>5, <1>6

LEMMA NextKeepsControl ==
    ASSUME Control, Next
    PROVE  Control'
<1>1. ASSUME NEW c \in Configs, Start(c)
      PROVE  Control'
  BY <1>1, StartKeepsControl
<1>2. CASE Refuse \/ Finish \/ Crash
  <2>1. End /\ UNCHANGED <<cache, published>>
    BY <1>2 DEF Refuse, Finish, Crash, files
  <2>. QED
    BY <2>1, EndKeepsControl
<1>. QED
  BY <1>1, <1>2, ReuseKeepsControl, ProduceKeepsControl, BeginWritingKeepsControl,
     EndWritingKeepsControl, PhaseKeepsControl, BuildReportKeepsControl, PublishKeepsControl
  DEF Next

\* Nothing of the benchmark's own changes where nobody of it moves.
LEMMA IdleKeepsControl ==
    ASSUME Control, UNCHANGED <<cache, published, pc, config, todo, outputs>>
    PROVE  Control'
BY DEF Control

-----------------------------------------------------------------------------
\* What a run leaves.

\* A run that ends keeps what is left clean, if it closes its gateway or has none, writes
\* no cache and no report; or it was killed.
LEMMA EndKeepsClean ==
    ASSUME Clean, End, UNCHANGED <<cache, published>>,
           \/ gateways' \subseteq killed /\ killed' = killed /\ pc \notin {"writing", "publishing"}
           \/ gateways' \subseteq killed' /\ killed' # {}
    PROVE  Clean'
BY DEF Clean, End

\* Neither does a step that touches neither files nor gateways.
LEMMA WorkKeepsClean ==
    ASSUME Clean, UNCHANGED <<cache, published, killed>>,
           pc \notin {"writing", "publishing"}, pc' \notin {"writing", "publishing"},
           gateways' \subseteq killed \cup (IF pc' \in {"booting", "local", "load"} THEN {runs'} ELSE {})
    PROVE  Clean'
BY DEF Clean

LEMMA PhaseKeepsClean ==
    ASSUME Control, Clean,
           \/ StartGateway \/ Healthy \/ StartupFails \/ PhaseFails
           \/ MeasureLocal \/ MeasureStage \/ FinishLoad \/ AskOpenAi \/ Judge
    PROVE  Clean'
<1>. USE DEF Clean
<1>1. CASE StartGateway
  <2>1. /\ UNCHANGED <<cache, published, killed, runs>> /\ pc = "starting" /\ pc' = "booting"
        /\ gateways' = gateways \cup {runs}
    BY <1>1 DEF StartGateway, files
  <2>. QED
    BY <2>1, WorkKeepsClean
<1>2. CASE Healthy
  <2>1. /\ UNCHANGED <<cache, published, killed, runs, gateways>> /\ pc = "booting"
        /\ pc' = Head(todo)
    BY <1>2 DEF Healthy, files, Current
  <2>2. Head(todo) \in {"local", "load"}
    BY <2>1 DEF Control
  <2>. QED
    BY <2>1, <2>2, WorkKeepsClean
<1>3. CASE StartupFails \/ PhaseFails
  <2>1. /\ End /\ UNCHANGED <<cache, published, killed>> /\ gateways' = gateways \ {runs}
        /\ pc \notin {"writing", "publishing"}
    BY <1>3, PhasesFacts DEF StartupFails, PhaseFails, files, Close, PhaseSet
  <2>2. gateways' \subseteq killed
    BY <2>1
  <2>. QED
    BY <2>1, <2>2, EndKeepsClean
<1>4. CASE MeasureLocal \/ FinishLoad
  <2>1. /\ UNCHANGED <<cache, published, killed, runs>> /\ gateways' = gateways \ {runs}
        /\ pc \in {"local", "load"} /\ pc' = "measured"
    BY <1>4 DEF MeasureLocal, FinishLoad, files, Close
  <2>. QED
    BY <2>1, WorkKeepsClean
<1>5. CASE AskOpenAi
  <2>1. /\ UNCHANGED <<cache, published, killed, runs, gateways>> /\ pc = "openai" /\ pc' = "measured"
    BY <1>5 DEF AskOpenAi, files
  <2>. QED
    BY <2>1, WorkKeepsClean
<1>6. CASE MeasureStage
  <2>1. /\ UNCHANGED <<cache, published, killed, runs, gateways, pc>> /\ pc = "load"
    BY <1>6 DEF MeasureStage, files
  <2>. QED
    BY <2>1, WorkKeepsClean
<1>7. CASE Judge
  <2>1. /\ UNCHANGED <<cache, published, killed, runs, gateways>> /\ pc = "judge"
        /\ End \/ pc' = "measured"
    BY <1>7 DEF Judge, files
  <2>2. gateways \subseteq killed
    BY <2>1
  <2>. QED
    BY <2>1, <2>2, EndKeepsClean, WorkKeepsClean
<1>. QED
  BY <1>1, <1>2, <1>3, <1>4, <1>5, <1>6, <1>7

\* Of a list of files there is left what follows the first.
LEMMA UnpublishedTail ==
    ASSUME NEW t \in Unpublished
    PROVE  /\ Head(t) \in FileSet /\ ToSet(t) \subseteq FileSet
           /\ ToSet(t) = {Head(t)} \cup ToSet(Tail(t))
           /\ Head(t) \notin ToSet(Tail(t))
           /\ Len(t) = 1 => ToSet(Tail(t)) = {}
           /\ Len(t) # 1 => Tail(t) \in Unpublished
<1>1. \A a, b, c, d : ToSet(<<a, b, c, d>>) = {a, b, c, d}
  <2>1. \A a, b, c, d : DOMAIN <<a, b, c, d>> = {1, 2, 3, 4}
    OBVIOUS
  <2>. QED
    BY <2>1 DEF ToSet
<1>2. \A b, c, d : ToSet(<<b, c, d>>) = {b, c, d}
  <2>1. \A b, c, d : DOMAIN <<b, c, d>> = {1, 2, 3}
    OBVIOUS
  <2>. QED
    BY <2>1 DEF ToSet
<1>3. \A c, d : ToSet(<<c, d>>) = {c, d}
  <2>1. \A c, d : DOMAIN <<c, d>> = {1, 2}
    OBVIOUS
  <2>. QED
    BY <2>1 DEF ToSet
<1>4. \A d : ToSet(<<d>>) = {d}
  <2>1. \A d : DOMAIN <<d>> = {1}
    OBVIOUS
  <2>. QED
    BY <2>1 DEF ToSet
<1>5. ToSet(<<>>) = {}
  <2>1. DOMAIN <<>> = {}
    OBVIOUS
  <2>. QED
    BY <2>1 DEF ToSet
<1>6. CASE t = ReportFiles
  <2>1. /\ Head(t) = "report.md" /\ Tail(t) = <<"report.json", "blind_samples.md", "blind_key.json">>
        /\ Len(t) = 4
    BY <1>6 DEF ReportFiles
  <2>. QED
    BY <1>1, <1>2, <1>6, <2>1 DEF ReportFiles, Unpublished, FileSet
<1>7. CASE t = <<"report.json", "blind_samples.md", "blind_key.json">>
  <2>1. Head(t) = "report.json" /\ Tail(t) = <<"blind_samples.md", "blind_key.json">> /\ Len(t) = 3
    BY <1>7
  <2>. QED
    BY <1>2, <1>3, <1>7, <2>1 DEF Unpublished, FileSet
<1>8. CASE t = <<"blind_samples.md", "blind_key.json">>
  <2>1. Head(t) = "blind_samples.md" /\ Tail(t) = <<"blind_key.json">> /\ Len(t) = 2
    BY <1>8
  <2>. QED
    BY <1>3, <1>4, <1>8, <2>1 DEF Unpublished, FileSet
<1>9. CASE t = <<"blind_key.json">>
  <2>1. Head(t) = "blind_key.json" /\ Tail(t) = <<>> /\ Len(t) = 1
    BY <1>9
  <2>. QED
    BY <1>4, <1>5, <1>9, <2>1 DEF FileSet
<1>. QED
  BY <1>6, <1>7, <1>8, <1>9 DEF Unpublished

LEMMA PublishKeepsClean ==
    ASSUME Control, Clean, Publish
    PROVE  Clean'
<1>1. /\ pc = "publishing" /\ UNCHANGED <<cache, gateways, runs, killed>>
      /\ published' = [published EXCEPT ![Head(todo)] = runs]
      /\ IF Len(todo) = 1 THEN End ELSE todo' = Tail(todo) /\ pc' = pc
  BY DEF Publish
<1>2. todo \in Unpublished
  BY <1>1 DEF Clean
<1>3. /\ Head(todo) \in FileSet /\ ToSet(todo) \subseteq FileSet
      /\ ToSet(todo) = {Head(todo)} \cup ToSet(Tail(todo))
      /\ Head(todo) \notin ToSet(Tail(todo))
      /\ Len(todo) = 1 => ToSet(Tail(todo)) = {}
      /\ Len(todo) # 1 => Tail(todo) \in Unpublished
  BY <1>2, UnpublishedTail
<1>4. gateways \subseteq killed
  BY <1>1 DEF Clean
<1>5. killed = {} => \A n \in PhaseSet : cache[n] # Torn
  BY <1>1 DEF Clean
<1>6. published'[Head(todo)] = runs /\ \A f \in FileSet : f # Head(todo) => published'[f] = published[f]
  BY <1>1, <1>3 DEF Control
<1>7. killed = {} =>
         /\ \A f \in FileSet \ ToSet(Tail(todo)) : published'[f] = runs
         /\ \A f, g \in ToSet(Tail(todo)) : published'[f] = published'[g]
  BY <1>1, <1>3, <1>6 DEF Clean
<1>8. CASE Len(todo) = 1
  <2>1. pc' = "idle"
    BY <1>1, <1>8 DEF End
  <2>. QED
    BY <1>1, <1>3, <1>4, <1>5, <1>7, <1>8, <2>1 DEF Clean
<1>9. CASE Len(todo) # 1
  <2>1. pc' = "publishing" /\ todo' = Tail(todo)
    BY <1>1, <1>9
  <2>. QED
    BY <1>1, <1>3, <1>4, <1>5, <1>7, <1>9, <2>1 DEF Clean
<1>. QED
  BY <1>8, <1>9

LEMMA NextKeepsClean ==
    ASSUME Control, Clean, Next
    PROVE  Clean'
<1>1. ASSUME NEW c \in Configs, Start(c)
      PROVE  Clean'
  <2>1. /\ UNCHANGED <<cache, published, killed, gateways>> /\ pc = "idle" /\ pc' = "looking"
    BY <1>1 DEF Start, files
  <2>. QED
    BY <2>1, WorkKeepsClean DEF Clean
<1>2. CASE Refuse \/ Finish
  <2>1. End /\ UNCHANGED <<cache, published, killed, gateways>> /\ pc = "looking"
    BY <1>2 DEF Refuse, Finish, files, Looking
  <2>. QED
    BY <2>1, EndKeepsClean DEF Clean
<1>3. CASE Crash
  <2>1. /\ End /\ UNCHANGED <<cache, published, gateways>> /\ killed' = killed \cup {runs}
    BY <1>3 DEF Crash, files
  <2>2. gateways' \subseteq killed' /\ killed' # {}
    BY <2>1 DEF Clean
  <2>. QED
    BY <2>1, <2>2, EndKeepsClean
<1>4. CASE Reuse \/ Produce
  <2>1. /\ UNCHANGED <<cache, published, killed, gateways>> /\ pc = "looking"
        /\ gateways \subseteq killed
    BY <1>4 DEF Reuse, Produce, files, Looking, Clean
  <2>2. pc' \notin {"writing", "publishing"}
    <3>1. CASE Reuse
      BY <2>1, <3>1 DEF Reuse
    <3>2. CASE Produce
      <4>1. todo # <<>> /\ pc' \in {"starting", Head(todo)} /\ Ordered(todo)
        BY <2>1, <3>2 DEF Produce, Looking, Current, Control, Underway
      <4>. QED
        BY <4>1, OrderedTail DEF PhaseSet
    <3>. QED
      BY <1>4, <3>1, <3>2
  <2>. QED
    BY <2>1, <2>2, WorkKeepsClean
<1>5. CASE BeginWriting
  <2>1. /\ pc = "measured" /\ pc' = "writing" /\ UNCHANGED <<published, killed, gateways, todo>>
        /\ cache' = [cache EXCEPT ![Head(todo)] = Torn]
    BY <1>5 DEF BeginWriting, Current
  <2>2. \A n \in PhaseSet : cache'[n] = Torn => n = Head(todo) \/ cache[n] = Torn
    BY <2>1 DEF Control
  <2>. QED
    BY <2>1, <2>2 DEF Clean
<1>6. CASE EndWriting
  <2>1. /\ pc = "writing" /\ pc' = "looking" /\ UNCHANGED <<published, killed, gateways>>
        /\ cache' = [cache EXCEPT ![Head(todo)] = [meta |-> Meta(Head(todo)), result |-> result]]
    BY <1>6 DEF EndWriting, Current
  <2>2. \A n \in PhaseSet : cache'[n] = Torn => n # Head(todo) /\ cache[n] = Torn
    <3>. DEFINE e == [meta |-> Meta(Head(todo)), result |-> result]
    <3>1. e # Torn
      BY RecordIsNoMark
    <3>. HIDE DEF e
    <3>2. cache' = [cache EXCEPT ![Head(todo)] = e]
      BY <2>1 DEF e
    <3>. QED
      BY <3>1, <3>2 DEF Control
  <2>. QED
    BY <2>1, <2>2 DEF Clean
<1>7. CASE BuildReport
  <2>1. UNCHANGED <<cache, published, gateways, killed, runs>> /\ pc = "looking"
    BY <1>7 DEF BuildReport, files
  <2>2. End \/ (pc' = "publishing" /\ todo' = ReportFiles)
    BY <1>7 DEF BuildReport
  <2>3. CASE End
    BY <2>1, <2>3, EndKeepsClean DEF Clean
  <2>4. CASE pc' = "publishing" /\ todo' = ReportFiles
    <3>1. ToSet(ReportFiles) = FileSet /\ ReportFiles \in Unpublished
      BY ReportFilesFacts DEF Unpublished
    <3>. QED
      BY <2>1, <2>4, <3>1 DEF Clean
  <2>. QED
    BY <2>2, <2>3, <2>4
<1>. QED
  BY <1>1, <1>2, <1>3, <1>4, <1>5, <1>6, <1>7, PhaseKeepsClean, PublishKeepsClean DEF Next

\* The runs of the evaluation count too, but only while the benchmark is idle.
LEMMA IdleKeepsClean ==
    ASSUME Clean, UNCHANGED <<cache, published, gateways, pc, todo, killed>>,
           pc = "idle" \/ runs' = runs
    PROVE  Clean'
BY DEF Clean

-----------------------------------------------------------------------------
\* The specification.

suiteVars == <<vars, qualityOnly, evaluation>>

LEMMA InitControlClean == SuiteInit => Control /\ Clean
<1>. SUFFICES ASSUME SuiteInit PROVE Control /\ Clean
  OBVIOUS
<1>1. /\ cache = [n \in PhaseSet |-> NoFile] /\ published = [f \in FileSet |-> 0]
      /\ gateways = {} /\ pc = "idle" /\ outputs = <<>>
  BY PhasesFacts, ReportFilesFacts DEF SuiteInit, Init, Nothing
<1>2. DOMAIN outputs = {}
  BY <1>1
<1>3. pc \notin Underway \cup Producing \cup PhaseSet
  BY <1>1 DEF Underway, Producing, PhaseSet
<1>4. Control
  BY <1>1, <1>2, <1>3 DEF Control, Nothing
<1>5. Clean
  BY <1>1, MarksDiffer DEF Clean
<1>. QED
  BY <1>4, <1>5

LEMMA StepKeepsControlClean ==
    ASSUME Control, Clean, [BenchmarkStep \/ QualityStep]_suiteVars
    PROVE  Control' /\ Clean'
<1>1. CASE BenchmarkStep
  BY <1>1, NextKeepsControl, NextKeepsClean DEF BenchmarkStep
<1>2. CASE QualityStep
  <2>1. /\ UNCHANGED <<cache, published, gateways, pc, config, todo, outputs, killed>>
        /\ pc = "idle"
    BY <1>2 DEF QualityStep, benchmarkOnly, files
  <2>. QED
    BY <2>1, IdleKeepsControl, IdleKeepsClean
<1>3. CASE UNCHANGED suiteVars
  <2>1. UNCHANGED <<cache, published, gateways, pc, config, todo, outputs, killed, runs>>
    BY <1>3 DEF suiteVars, vars, files
  <2>. QED
    BY <2>1, IdleKeepsControl, IdleKeepsClean
<1>. QED
  BY <1>1, <1>2, <1>3

\* Where a run is, and what runs have left, is what the invariant says.
THEOREM ControlInvariance == SuiteSpec => [](Control /\ Clean)
<1>1. SuiteInit => Control /\ Clean
  BY InitControlClean
<1>2. Control /\ Clean /\ [BenchmarkStep \/ QualityStep]_suiteVars => (Control /\ Clean)'
  BY StepKeepsControlClean
<1>. QED
  BY <1>1, <1>2, PTL DEF SuiteSpec, suiteVars

\* A run that is not killed, and whose writes do not fail, leaves no gateway, no torn cache
\* and no half of a report, whatever else fails (GatewayUnderTest.close; build_report_files).
THEOREM RunsLeaveNothing == SuiteSpec => []RunsEndClean
<1>1. Control /\ Clean => RunsEndClean
  BY PhasesFacts, ReportFilesFacts DEF Clean, RunsEndClean
<1>. QED
  BY <1>1, ControlInvariance, PTL

\* Without --force what is found is never replaced, however runs and kills follow each
\* other (run_benchmark).
LEMMA StepKeepsResults ==
    ASSUME Control, [BenchmarkStep \/ QualityStep]_suiteVars,
           NEW n \in PhaseSet, cache[n] # NoFile, Touches(n)
    PROVE  config.force \/ (pc = "writing" /\ n = Current)
<1>1. CASE UNCHANGED <<cache, pc>>
  BY <1>1 DEF Touches
<1>2. CASE UNCHANGED cache /\ pc' # "writing"
  BY <1>2 DEF Touches
<1>3. CASE BeginWriting
  <2>1. /\ pc = "measured" /\ cache' = [cache EXCEPT ![Head(todo)] = Torn]
    BY <1>3 DEF BeginWriting, Current
  <2>2. n = Head(todo)
    BY <2>1 DEF Control, Touches, Current
  <2>3. pc \in Producing \ {"writing"}
    BY <2>1 DEF Producing
  <2>. QED
    BY <2>2, <2>3 DEF Control
<1>4. CASE EndWriting
  <2>1. /\ pc = "writing" /\ pc' = "looking"
        /\ cache' = [cache EXCEPT ![Current] = [meta |-> Meta(Current), result |-> result]]
    BY <1>4 DEF EndWriting
  <2>2. cache'[n] # cache[n]
    BY <2>1 DEF Touches
  <2>. HIDE DEF Current
  <2>. QED
    BY <2>1, <2>2 DEF Control
<1>5. CASE BenchmarkStep
  <2>1. CASE \E c \in Configs : Start(c)
    BY <1>2, <2>1 DEF Start, files
  <2>2. CASE Reuse \/ Refuse
    BY <1>1, <1>2, <2>2 DEF Reuse, Refuse, End, files
  <2>3. CASE Produce
    <3>1. todo # <<>> /\ pc' \in {"starting", Head(todo)} /\ Ordered(todo) /\ UNCHANGED cache
      BY <2>3 DEF Produce, Looking, Current, Control, Underway, files
    <3>2. pc' # "writing"
      BY <3>1, OrderedTail DEF PhaseSet
    <3>. QED
      BY <1>2, <3>1, <3>2
  <2>4. CASE StartGateway \/ StartupFails \/ PhaseFails
    BY <1>2, <2>4 DEF StartGateway, StartupFails, PhaseFails, End, files
  <2>5. CASE Healthy
    <3>1. pc = "booting" /\ pc' = Head(todo) /\ UNCHANGED cache
      BY <2>5 DEF Healthy, Current, files
    <3>2. pc' # "writing"
      BY <3>1 DEF Control
    <3>. QED
      BY <1>2, <3>1, <3>2
  <2>6. CASE MeasureLocal \/ MeasureStage \/ FinishLoad
    BY <1>1, <1>2, <2>6 DEF MeasureLocal, MeasureStage, FinishLoad, files
  <2>7. CASE AskOpenAi \/ Judge
    BY <1>2, <2>7 DEF AskOpenAi, Judge, End, files
  <2>8. CASE BuildReport \/ Finish \/ Crash
    BY <1>2, <2>8 DEF BuildReport, Finish, Crash, End, files
  <2>9. CASE Publish
    BY <1>1, <1>2, <2>9 DEF Publish, End, files
  <2>. QED
    BY <1>3, <1>4, <1>5, <2>1, <2>2, <2>3, <2>4, <2>5, <2>6, <2>7, <2>8, <2>9
       DEF BenchmarkStep, Next
<1>6. CASE QualityStep
  BY <1>1, <1>6 DEF QualityStep, benchmarkOnly, files
<1>7. CASE UNCHANGED suiteVars
  BY <1>1, <1>7 DEF suiteVars, vars, files
<1>. QED
  BY <1>5, <1>6, <1>7

\* Without --force no run replaces a cache that it finds, whole or torn, of its conditions
\* or of others (cached).
THEOREM ResultsStay == SuiteSpec => ResultsKept
<1>. DEFINE
    Kept_ == \A n \in ToSet(Phases) :
                 Touches(n) /\ cache[n] # NoFile =>
                     config.force \/ (pc = "writing" /\ n = Current)
<1>1. Control /\ [BenchmarkStep \/ QualityStep]_suiteVars => [Kept_]_vars
  BY StepKeepsResults, PhasesFacts
<1>2. SuiteSpec => [][Kept_]_vars
  BY <1>1, ControlInvariance, PTL DEF SuiteSpec, suiteVars
<1>. QED
  BY <1>2 DEF ResultsKept

-----------------------------------------------------------------------------
\* Sequences of what is measured.

LEMMA MembersOf ==
    ASSUME NEW A, NEW s \in Seq(A)
    PROVE  /\ DOMAIN s = 1 .. Len(s) /\ Len(s) \in Nat
           /\ ToSet(s) = {s[i] : i \in 1 .. Len(s)} /\ ToSet(s) \subseteq A
           /\ s \in Seq(ToSet(s))
<1>1. DOMAIN s = 1 .. Len(s) /\ Len(s) \in Nat /\ \A i \in 1 .. Len(s) : s[i] \in A
  BY LenProperties, ElementOfSeq
<1>2. s \in [1 .. Len(s) -> ToSet(s)]
  <2>1. s = [i \in 1 .. Len(s) |-> s[i]]
    BY <1>1
  <2>. QED
    BY <1>1, <2>1 DEF ToSet
<1>. QED
  BY <1>1, <1>2 DEF ToSet

LEMMA ConcatMembers ==
    ASSUME NEW A, NEW s \in Seq(A), NEW t \in Seq(A)
    PROVE  s \o t \in Seq(A) /\ ToSet(s \o t) = ToSet(s) \cup ToSet(t)
<1>1. /\ s \o t \in Seq(A) /\ Len(s \o t) = Len(s) + Len(t)
      /\ \A i \in 1 .. Len(s) + Len(t) : (s \o t)[i] = IF i <= Len(s) THEN s[i] ELSE t[i - Len(s)]
  BY ConcatProperties
<1>. DEFINE u == s \o t
<1>. HIDE DEF u
<1>2. /\ u \in Seq(A) /\ Len(u) = Len(s) + Len(t)
      /\ \A i \in 1 .. Len(s) + Len(t) : u[i] = IF i <= Len(s) THEN s[i] ELSE t[i - Len(s)]
  BY <1>1 DEF u
<1>3. /\ ToSet(u) = {u[i] : i \in 1 .. Len(u)} /\ ToSet(s) = {s[i] : i \in 1 .. Len(s)}
      /\ ToSet(t) = {t[i] : i \in 1 .. Len(t)} /\ Len(s) \in Nat /\ Len(t) \in Nat
  <2>1. \A v \in Seq(A) : ToSet(v) = {v[i] : i \in 1 .. Len(v)} /\ Len(v) \in Nat
    BY MembersOf
  <2>. QED
    BY <1>2, <2>1
<1>4. ASSUME NEW i \in 1 .. Len(u)
      PROVE  u[i] \in ToSet(s) \cup ToSet(t)
  <2>1. CASE i <= Len(s)
    <3>1. i \in 1 .. Len(s) /\ u[i] = s[i]
      BY <1>2, <1>3, <2>1
    <3>. QED
      BY <1>3, <3>1
  <2>2. CASE ~ (i <= Len(s))
    <3>1. i - Len(s) \in 1 .. Len(t) /\ u[i] = t[i - Len(s)]
      BY <1>2, <1>3, <2>2
    <3>. QED
      BY <1>3, <3>1
  <2>. QED
    BY <2>1, <2>2
<1>5. ASSUME NEW i \in 1 .. Len(s)
      PROVE  s[i] \in ToSet(u)
  <2>1. i \in 1 .. Len(u) /\ u[i] = s[i]
    BY <1>2, <1>3
  <2>. QED
    BY <1>3, <2>1
<1>6. ASSUME NEW i \in 1 .. Len(t)
      PROVE  t[i] \in ToSet(u)
  <2>1. /\ Len(s) + i \in 1 .. Len(u) /\ ~ (Len(s) + i <= Len(s))
        /\ (Len(s) + i) - Len(s) = i
    BY <1>2, <1>3
  <2>2. u[Len(s) + i] = t[i]
    BY <1>2, <2>1
  <2>. QED
    BY <1>3, <2>1, <2>2
<1>7. ToSet(u) = ToSet(s) \cup ToSet(t)
  BY <1>3, <1>4, <1>5, <1>6
<1>. QED
  BY <1>2, <1>7 DEF u

\* What is kept of the first n sequences, for every n.
FlattenedUpTo(seqs, flatten) ==
    flatten = [i \in 1 .. Len(seqs) |-> IF i = 1 THEN seqs[i] ELSE flatten[i - 1] \o seqs[i]]

LEMMA FlattenStepwise ==
    ASSUME NEW A, NEW seqs \in Seq(Seq(A)), Len(seqs) # 0
    PROVE  \E f : /\ f[0] = <<>> /\ FlattenSeq(seqs) = f[Len(seqs)]
                  /\ \A n \in 0 .. Len(seqs) : f[n] \in Seq(A)
                  /\ \A n \in 1 .. Len(seqs) : f[n] = f[n - 1] \o seqs[n]
<1>. DEFINE
    M == Len(seqs)
    next == [p \in Nat \X Seq(A) |-> IF p[1] + 1 \in 1 .. M THEN p[2] \o seqs[p[1] + 1] ELSE p[2]]
<1>1. M \in Nat /\ M # 0 /\ \A i \in 1 .. M : seqs[i] \in Seq(A)
  BY LenProperties, ElementOfSeq
<1>2. next \in [Nat \X Seq(A) -> Seq(A)]
  <2>1. ASSUME NEW n \in Nat, NEW t \in Seq(A)
        PROVE  (IF n + 1 \in 1 .. M THEN t \o seqs[n + 1] ELSE t) \in Seq(A)
    BY <1>1, ConcatProperties
  <2>. QED
    BY <2>1
<1>3. <<>> \in Seq(A)
  OBVIOUS
<1>4. PICK f : IndexedIterates(f, Seq(A), <<>>, next)
  <2>. HIDE DEF next
  <2>. QED
    BY <1>2, <1>3, IndexedIteration
<1>5. f \in [Nat -> Seq(A)] /\ f[0] = <<>> /\ \A n \in Nat : f[n + 1] = next[<<n, f[n]>>]
  BY <1>4 DEF IndexedIterates
<1>6. ASSUME NEW n \in 1 .. M
      PROVE  f[n] = f[n - 1] \o seqs[n]
  <2>1. n - 1 \in Nat /\ (n - 1) + 1 = n /\ n \in 1 .. M /\ f[n - 1] \in Seq(A)
    BY <1>1, <1>5
  <2>2. f[n] = next[<<n - 1, f[n - 1]>>]
    BY <1>5, <2>1
  <2>. QED
    BY <2>1, <2>2
<1>. DEFINE g == [n \in 1 .. M |-> f[n]]
<1>7. FlattenedUpTo(seqs, g)
  <2>1. ASSUME NEW n \in 1 .. M
        PROVE  g[n] = IF n = 1 THEN seqs[n] ELSE g[n - 1] \o seqs[n]
    <3>1. CASE n = 1
      <4>1. f[1] = f[0] \o seqs[1] /\ seqs[1] \in Seq(A)
        <5>1. 1 \in 1 .. M /\ 1 - 1 = 0
          BY <1>1
        <5>2. f[1] = f[1 - 1] \o seqs[1] /\ seqs[1] \in Seq(A)
          BY <1>1, <1>6, <5>1
        <5>. QED
          BY <5>1, <5>2
      <4>2. <<>> \o seqs[1] = seqs[1]
        BY <4>1, ConcatEmptySeq
      <4>. QED
        BY <1>1, <1>5, <3>1, <4>1, <4>2
    <3>2. CASE n # 1
      <4>1. n - 1 \in 1 .. M
        BY <1>1, <3>2
      <4>. QED
        BY <1>6, <3>2, <4>1
    <3>. QED
      BY <3>1, <3>2
  <2>2. g = [n \in 1 .. M |-> g[n]]
    OBVIOUS
  <2>. HIDE DEF g
  <2>. QED
    BY <2>1, <2>2 DEF FlattenedUpTo
<1>. DEFINE h == CHOOSE flatten : FlattenedUpTo(seqs, flatten)
<1>8. FlattenedUpTo(seqs, h)
  <2>. HIDE DEF g
  <2>. QED
    BY <1>7
<1>9. FlattenSeq(seqs) = h[M]
  BY <1>1 DEF FlattenSeq, FlattenedUpTo
<1>. HIDE DEF h
<1>10. \A n \in 1 .. M : h[n] = IF n = 1 THEN seqs[n] ELSE h[n - 1] \o seqs[n]
  BY <1>8, Zenon DEF FlattenedUpTo
<1>11. \A n \in Nat : n \in {k \in Nat : k \in 1 .. M => h[k] = f[k]}
  <2>. DEFINE S == {k \in Nat : k \in 1 .. M => h[k] = f[k]}
  <2>1. 0 \in S
    OBVIOUS
  <2>2. ASSUME NEW n \in Nat, n \in S, n + 1 \in 1 .. M
        PROVE  h[n + 1] = f[n + 1]
    <3>1. (n + 1) - 1 = n
      OBVIOUS
    <3>2. f[n + 1] = f[n] \o seqs[n + 1]
      BY <1>6, <2>2, <3>1
    <3>3. CASE n = 0
      <4>1. h[1] = seqs[1]
        BY <1>1, <1>10
      <4>2. f[1] = <<>> \o seqs[1] /\ seqs[1] \in Seq(A)
        <5>1. 0 + 1 = 1 /\ 1 \in 1 .. M
          BY <1>1
        <5>. QED
          BY <1>1, <1>5, <3>2, <3>3, <5>1
      <4>3. f[1] = seqs[1]
        BY <4>2, ConcatEmptySeq
      <4>. QED
        BY <3>3, <4>1, <4>3
    <3>4. CASE n # 0
      <4>1. n \in 1 .. M /\ n + 1 # 1
        BY <1>1, <2>2, <3>4
      <4>2. h[n + 1] = h[n] \o seqs[n + 1]
        BY <1>10, <2>2, <3>1, <4>1
      <4>3. h[n] = f[n]
        BY <2>2, <4>1
      <4>. QED
        BY <3>2, <4>2, <4>3
    <3>. QED
      BY <3>3, <3>4
  <2>3. ASSUME NEW n \in Nat, n \in S
        PROVE  n + 1 \in S
    <3>1. n + 1 \in Nat
      OBVIOUS
    <3>2. n + 1 \in 1 .. M => h[n + 1] = f[n + 1]
      <4>. HIDE DEF S
      <4>. QED
        BY <2>2, <2>3
    <3>. QED
      BY <3>1, <3>2
  <2>4. \A n \in Nat : n \in S
    <3>. HIDE DEF S
    <3>. QED
      BY <2>1, <2>3, AllNaturals
  <2>. QED
    BY <2>4
<1>12. h[M] = f[M]
  BY <1>1, <1>11
<1>13. FlattenSeq(seqs) = f[M]
  BY <1>9, <1>12
<1>14. \A n \in 0 .. M : f[n] \in Seq(A)
  <2>1. \A n \in 0 .. M : n \in Nat
    BY <1>1
  <2>. HIDE DEF next, M
  <2>. QED
    BY <1>5, <2>1
<1>. HIDE DEF next
<1>. QED
  BY <1>5, <1>6, <1>13, <1>14

\* The elements of a flattened sequence are those of its parts.
LEMMA FlattenMembers ==
    ASSUME NEW A, NEW seqs \in Seq(Seq(A))
    PROVE  /\ FlattenSeq(seqs) \in Seq(A)
           /\ ToSet(FlattenSeq(seqs)) = UNION {ToSet(seqs[i]) : i \in DOMAIN seqs}
<1>. DEFINE M == Len(seqs)
<1>1. M \in Nat /\ DOMAIN seqs = 1 .. M /\ \A i \in 1 .. M : seqs[i] \in Seq(A)
  BY LenProperties, ElementOfSeq
<1>2. ToSet(<<>>) = {} /\ <<>> \in Seq(A)
  <2>1. DOMAIN <<>> = {}
    OBVIOUS
  <2>. QED
    BY <2>1 DEF ToSet
<1>3. CASE M = 0
  <2>1. FlattenSeq(seqs) = <<>> /\ DOMAIN seqs = {}
    <3>1. seqs = <<>>
      BY <1>3, EmptySeq
    <3>. QED
      BY <1>1, <1>3, <3>1 DEF FlattenSeq
  <2>. QED
    BY <1>2, <2>1
<1>4. CASE M # 0
  <2>1. PICK f : /\ f[0] = <<>> /\ FlattenSeq(seqs) = f[M]
                 /\ \A n \in 0 .. M : f[n] \in Seq(A)
                 /\ \A n \in 1 .. M : f[n] = f[n - 1] \o seqs[n]
    BY <1>4, FlattenStepwise
  <2>. DEFINE
      Union(n) == UNION {ToSet(seqs[i]) : i \in 1 .. n}
      S == {n \in Nat : n <= M => ToSet(f[n]) = Union(n)}
  <2>2. 0 \in S
    <3>1. 1 .. 0 = {}
      OBVIOUS
    <3>. QED
      BY <1>2, <2>1, <3>1
  <2>3. ASSUME NEW n \in Nat, n <= M => ToSet(f[n]) = Union(n), n + 1 <= M
        PROVE  ToSet(f[n + 1]) = Union(n + 1)
    <3>1. n <= M /\ n \in 0 .. M /\ n + 1 \in 1 .. M /\ (n + 1) - 1 = n
      <4>. HIDE DEF Union
      <4>. QED
        BY <1>1, <2>3
    <3>2. f[n + 1] = f[n] \o seqs[n + 1] /\ f[n] \in Seq(A) /\ seqs[n + 1] \in Seq(A)
      BY <1>1, <2>1, <3>1
    <3>3. ToSet(f[n + 1]) = ToSet(f[n]) \cup ToSet(seqs[n + 1])
      BY <3>2, ConcatMembers
    <3>4. ToSet(f[n]) = Union(n)
      BY <2>3, <3>1
    <3>5. 1 .. n + 1 = 1 .. n \cup {n + 1}
      OBVIOUS
    <3>6. Union(n + 1) = Union(n) \cup ToSet(seqs[n + 1])
      BY <3>5, Zenon
    <3>. HIDE DEF Union
    <3>. QED
      BY <3>3, <3>4, <3>6
  <2>4. ASSUME NEW n \in Nat, n \in S
        PROVE  n + 1 \in S
    <3>1. n + 1 \in Nat
      OBVIOUS
    <3>2. n <= M => ToSet(f[n]) = Union(n)
      <4>. HIDE DEF Union
      <4>. QED
        BY <2>4
    <3>3. n + 1 <= M => ToSet(f[n + 1]) = Union(n + 1)
      <4>. HIDE DEF Union
      <4>. QED
        BY <2>3, <3>2
    <3>. HIDE DEF Union
    <3>. QED
      BY <3>1, <3>3
  <2>5. M \in S
    <3>. HIDE DEF S
    <3>. QED
      BY <1>1, <2>2, <2>4, AllNaturals
  <2>6. ToSet(f[M]) = Union(M) /\ f[M] \in Seq(A)
    <3>1. M <= M /\ M \in 0 .. M
      BY <1>1
    <3>. HIDE DEF Union
    <3>. QED
      BY <2>1, <2>5, <3>1
  <2>. QED
    BY <1>1, <2>1, <2>6
<1>. QED
  BY <1>3, <1>4

\* What is kept of a sequence, as a set.
LEMMA KeptMembers ==
    ASSUME NEW A, NEW s \in Seq(A), NEW I \in SUBSET (DOMAIN s)
    PROVE  Kept(s, I) \in Seq(A) /\ ToSet(Kept(s, I)) = {s[i] : i \in I}
<1>1. DOMAIN s = 1 .. Len(s)
  BY LenProperties
<1>2. Kept(s, I) \in Seq(A) /\ \E p : Picks(p, Kept(s, I), s, I)
  BY <1>1, KeptElements
<1>. DEFINE t == Kept(s, I)
<1>. HIDE DEF t
<1>3. PICK p : Picks(p, t, s, I)
  BY <1>2 DEF t
<1>4. /\ p \in [1 .. Len(t) -> I] /\ \A k \in 1 .. Len(t) : t[k] = s[p[k]]
      /\ \A i \in I : \E k \in 1 .. Len(t) : p[k] = i
  BY <1>3 DEF Picks
<1>5. ToSet(t) = {t[k] : k \in 1 .. Len(t)}
  BY <1>2, MembersOf DEF t
<1>6. \A k \in 1 .. Len(t) : t[k] \in {s[i] : i \in I}
  BY <1>4
<1>7. \A i \in I : \E k \in 1 .. Len(t) : t[k] = s[i]
  BY <1>4
<1>8. ToSet(t) = {s[i] : i \in I}
  BY <1>5, <1>6, <1>7
<1>. QED
  BY <1>2, <1>8 DEF t

-----------------------------------------------------------------------------
\* The answers of a phase and what the judge makes of them.

\* A sample is made of the items of its dataset.
LEMMA SampleMembers ==
    ASSUME config \in Configs
    PROVE  Sample \in Seq(ToSet(Items[config.dataset]))
<1>. DEFINE
    it == Items[config.dataset]
    A == ToSet(it)
<1>1. config.dataset \in DOMAIN Items /\ config.sample \in Nat \cup {All}
  BY BenchmarkAssumption
<1>2. it \in Seq([id : Ids, task : ToSet(Tasks)])
  BY <1>1, BenchmarkAssumption
<1>. HIDE DEF it
<1>3. it \in Seq(A)
  BY <1>2, MembersOf
<1>. HIDE DEF A
<1>4. CASE config.sample = All
  <2>1. Sample = it
    BY <1>4, Zenon DEF Sample, SampledGeneration, it
  <2>. QED
    BY <1>3, <2>1 DEF A, it
<1>5. CASE config.sample # All
  <2>. DEFINE
      Part(task) == LET its == ItemsForTask(it, task)
                    IN  SubSeq(its, 1, Min({config.sample, Len(its)}))
      parts == [t \in DOMAIN Tasks |-> Part(Tasks[t])]
  <2>1. ASSUME NEW task
        PROVE  Part(task) \in Seq(A)
    <3>. DEFINE its == ItemsForTask(it, task)
    <3>1. its \in Seq(A)
      <4>1. {i \in DOMAIN it : it[i].task = task} \in SUBSET (DOMAIN it)
        OBVIOUS
      <4>. QED
        BY <1>3, <4>1, KeptMembers DEF ItemsForTask
    <3>. HIDE DEF its
    <3>2. Len(its) \in Nat /\ config.sample \in Nat
      BY <1>1, <1>5, <3>1, LenProperties
    <3>3. \E k \in 0 .. Len(its) : Min({config.sample, Len(its)}) = k
      <4>1. PICK a \in Nat, b \in Nat : a = config.sample /\ b = Len(its)
        BY <3>2
      <4>2. \E x \in {a, b} : \A y \in {a, b} : x =< y
        OBVIOUS
      <4>3. Min({a, b}) \in {a, b} /\ \A y \in {a, b} : Min({a, b}) =< y
        BY <4>2, Zenon DEF Min
      <4>4. Min({a, b}) \in 0 .. b
        BY <4>3
      <4>. QED
        BY <4>1, <4>4
    <3>4. PICK k \in 0 .. Len(its) : Min({config.sample, Len(its)}) = k
      BY <3>3
    <3>5. 1 \in 1 .. Len(its) + 1 /\ k \in 1 - 1 .. Len(its)
      BY <3>2
    <3>6. SubSeq(its, 1, k) \in Seq(A)
      BY <3>1, <3>5, SubSeqProperties
    <3>. QED
      BY <3>4, <3>6 DEF its
  <2>. HIDE DEF Part
  <2>2. DOMAIN Tasks = 1 .. 5
    BY DEF Tasks
  <2>3. parts \in Seq(Seq(A))
    BY <2>1, <2>2
  <2>4. FlattenSeq(parts) \in Seq(A)
    <3>. HIDE DEF parts
    <3>. QED
      BY <2>3, FlattenMembers
  <2>5. Sample = FlattenSeq(parts)
    BY <1>5 DEF Sample, SampledGeneration, Part, it
  <2>. QED
    BY <2>4, <2>5 DEF A, it
<1>. QED
  BY <1>4, <1>5 DEF A, it

\* The rows of a phase have the ids and tasks of its items.
LEMMA RowsOfSample ==
    ASSUME config \in Configs, NEW given, given = [i \in DOMAIN Sample |-> given[i]],
           \A i \in DOMAIN Sample : given[i].id = Sample[i].id /\ given[i].task = Sample[i].task
    PROVE  OfItems(config.dataset, given)
<1>1. Sample \in Seq(ToSet(Items[config.dataset]))
  BY SampleMembers
<1>2. /\ DOMAIN Sample = 1 .. Len(Sample) /\ Len(Sample) \in Nat
      /\ \A i \in DOMAIN Sample : Sample[i] \in ToSet(Items[config.dataset])
  BY <1>1, MembersOf, ElementOfSeq
<1>3. DOMAIN given = DOMAIN Sample
  OBVIOUS
<1>4. given \in Seq(ToSet(given))
  <2>1. \A i \in 1 .. Len(Sample) : given[i] \in ToSet(given)
    BY <1>2, <1>3 DEF ToSet
  <2>. QED
    BY <1>2, <1>3, <2>1
<1>5. ASSUME NEW r \in ToSet(given)
      PROVE  \E i \in DOMAIN Items[config.dataset] :
                 /\ r.id = Items[config.dataset][i].id
                 /\ r.task = Items[config.dataset][i].task
  <2>1. PICK k \in DOMAIN Sample : r = given[k]
    BY <1>3 DEF ToSet
  <2>2. PICK i \in DOMAIN Items[config.dataset] : Sample[k] = Items[config.dataset][i]
    BY <1>2 DEF ToSet
  <2>. QED
    BY <2>1, <2>2
<1>. QED
  BY <1>4, <1>5 DEF OfItems

\* A digest tells the answers that are to be judged: an id is of one item.
LEMMA OpenAnswersOfDigest ==
    ASSUME NEW d \in DOMAIN Items, NEW given, OfItems(d, given), NEW model
    PROVE  OpenAnswers(model, given) = OpenOfDigest(model, d, AnswersDigest(given))
<1>1. \A i, j \in DOMAIN Items[d] : Items[d][i].id = Items[d][j].id => i = j
  BY BenchmarkAssumption
<1>2. \A r \in ToSet(given) : \E i \in DOMAIN Items[d] :
          r.id = Items[d][i].id /\ r.task = Items[d][i].task
  BY DEF OfItems
<1>. DEFINE
    A == OpenAnswers(model, given)
    B == OpenOfDigest(model, d, AnswersDigest(given))
    Open(q) == \E i \in DOMAIN Items[d] :
                   Items[d][i].id = q[1] /\ Items[d][i].task \in JudgedTasks
    Entry(r) == [id |-> r.id, model |-> model, text |-> r.text]
<1>3. ASSUME NEW e \in A
      PROVE  e \in B
  <2>1. PICK r \in ToSet(given) : r.ok /\ r.task \in JudgedTasks /\ e = Entry(r)
    BY DEF OpenAnswers
  <2>2. PICK q : q = <<r.id, r.text>>
    OBVIOUS
  <2>3. q \in AnswersDigest(given)
    BY <2>1, <2>2 DEF AnswersDigest
  <2>4. Open(q)
    BY <1>2, <2>1, <2>2
  <2>5. e = [id |-> q[1], model |-> model, text |-> q[2]]
    BY <2>1, <2>2
  <2>. QED
    BY <2>3, <2>4, <2>5 DEF OpenOfDigest
<1>4. ASSUME NEW e \in B
      PROVE  e \in A
  <2>1. PICK q \in AnswersDigest(given) :
            Open(q) /\ e = [id |-> q[1], model |-> model, text |-> q[2]]
    BY DEF OpenOfDigest
  <2>2. PICK r \in ToSet(given) : r.ok /\ q = <<r.id, r.text>>
    BY DEF AnswersDigest
  <2>3. PICK i \in DOMAIN Items[d] : Items[d][i].id = r.id /\ Items[d][i].task \in JudgedTasks
    BY <2>1, <2>2
  <2>4. PICK j \in DOMAIN Items[d] : r.id = Items[d][j].id /\ r.task = Items[d][j].task
    BY <1>2
  <2>5. r.task \in JudgedTasks
    BY <1>1, <2>3, <2>4
  <2>6. e = Entry(r)
    BY <2>1, <2>2
  <2>. QED
    BY <2>2, <2>5, <2>6 DEF OpenAnswers
<1>. QED
  BY <1>3, <1>4

\* What there is to judge of a model.
LEMMA JudgedMembers ==
    ASSUME NEW given, given \in Seq(ToSet(given)), NEW model
    PROVE  /\ Judged(model, given) \in Seq(OpenAnswers(model, given))
           /\ ToSet(Judged(model, given)) = OpenAnswers(model, given)
<1>. DEFINE
    I == {i \in DOMAIN given : given[i].ok /\ given[i].task \in JudgedTasks}
    kept == Kept(given, I)
    Entry(r) == [id |-> r.id, model |-> model, text |-> r.text]
<1>1. I \in SUBSET (DOMAIN given)
  OBVIOUS
<1>2. kept \in Seq(ToSet(given)) /\ ToSet(kept) = {given[i] : i \in I}
  <2>. HIDE DEF I
  <2>. QED
    BY <1>1, KeptMembers
<1>3. Judged(model, given) = [i \in DOMAIN kept |-> Entry(kept[i])]
  BY DEF Judged, Column
<1>4. {given[i] : i \in I} = {r \in ToSet(given) : r.ok /\ r.task \in JudgedTasks}
  BY DEF ToSet
<1>5. OpenAnswers(model, given) = {Entry(r) : r \in ToSet(kept)}
  BY <1>2, <1>4 DEF OpenAnswers
<1>. HIDE DEF kept
<1>6. DOMAIN kept = 1 .. Len(kept) /\ Len(kept) \in Nat /\ ToSet(kept) = {kept[i] : i \in 1 .. Len(kept)}
  BY <1>2, MembersOf
<1>. DEFINE j == [i \in 1 .. Len(kept) |-> Entry(kept[i])]
<1>7. Judged(model, given) = j
  BY <1>3, <1>6
<1>8. \A i \in 1 .. Len(kept) : j[i] \in OpenAnswers(model, given)
  BY <1>5, <1>6
<1>9. j \in Seq(OpenAnswers(model, given)) /\ Len(j) = Len(kept)
  BY <1>6, <1>8
<1>10. ToSet(j) = {j[i] : i \in 1 .. Len(kept)}
  BY DEF ToSet
<1>11. ASSUME NEW e \in OpenAnswers(model, given)
       PROVE  e \in ToSet(j)
  <2>1. PICK r \in ToSet(kept) : e = Entry(r)
    BY <1>5
  <2>2. PICK i \in 1 .. Len(kept) : r = kept[i]
    BY <1>6
  <2>3. j[i] = e
    BY <2>1, <2>2
  <2>. QED
    BY <1>10, <2>3
<1>12. ToSet(j) \subseteq OpenAnswers(model, given)
  BY <1>8, <1>10
<1>. QED
  BY <1>7, <1>9, <1>11, <1>12

\* What there is to judge of all.
LEMMA AnswersToJudgeMembers ==
    ASSUME NEW out, NEW d, NEW models \in Seq(Models), OfItems(d, out.local.items),
           \A m \in ToSet(models) : OfItems(d, out.openai.chat[m])
    PROVE  LET open == OpenAnswers(LocalModel, out.local.items)
                       \cup UNION {OpenAnswers(m, out.openai.chat[m]) : m \in ToSet(models)}
           IN  /\ AnswersToJudge(out, models) \in Seq(open)
               /\ ToSet(AnswersToJudge(out, models)) = open
<1>. DEFINE
    OfModel(m) == OpenAnswers(m, out.openai.chat[m])
    own == OpenAnswers(LocalModel, out.local.items)
    open == own \cup UNION {OfModel(m) : m \in ToSet(models)}
    parts == [i \in DOMAIN models |-> Judged(models[i], out.openai.chat[models[i]])]
    first == Judged(LocalModel, out.local.items)
<1>1. DOMAIN models = 1 .. Len(models) /\ Len(models) \in Nat
      /\ ToSet(models) = {models[i] : i \in 1 .. Len(models)}
  BY MembersOf
<1>2. first \in Seq(own) /\ ToSet(first) = own
  BY JudgedMembers DEF OfItems
<1>3. ASSUME NEW i \in 1 .. Len(models)
      PROVE  parts[i] \in Seq(OfModel(models[i])) /\ ToSet(parts[i]) = OfModel(models[i])
  <2>1. models[i] \in ToSet(models)
    BY <1>1
  <2>2. parts[i] = Judged(models[i], out.openai.chat[models[i]])
    BY <1>1
  <2>. HIDE DEF parts
  <2>. QED
    BY <2>1, <2>2, JudgedMembers DEF OfItems
<1>4. AnswersToJudge(out, models) = first \o FlattenSeq(parts)
  BY DEF AnswersToJudge, Column
<1>5. DOMAIN parts = 1 .. Len(models) /\ parts = [i \in 1 .. Len(models) |-> parts[i]]
  BY <1>1
<1>. HIDE DEF parts, first, OfModel, own
<1>6. own \subseteq open /\ \A i \in 1 .. Len(models) : OfModel(models[i]) \subseteq open
  BY <1>1
<1>. DEFINE A == open
<1>7. own \subseteq A /\ \A i \in 1 .. Len(models) : OfModel(models[i]) \subseteq A
  BY <1>6
<1>8. UNION {ToSet(parts[i]) : i \in 1 .. Len(models)} = UNION {OfModel(m) : m \in ToSet(models)}
  <2>1. ASSUME NEW x \in UNION {ToSet(parts[i]) : i \in 1 .. Len(models)}
        PROVE  x \in UNION {OfModel(m) : m \in ToSet(models)}
    <3>1. PICK i \in 1 .. Len(models) : x \in ToSet(parts[i])
      OBVIOUS
    <3>2. x \in OfModel(models[i]) /\ models[i] \in ToSet(models)
      BY <1>1, <1>3, <3>1
    <3>. QED
      BY <3>2
  <2>2. ASSUME NEW x \in UNION {OfModel(m) : m \in ToSet(models)}
        PROVE  x \in UNION {ToSet(parts[i]) : i \in 1 .. Len(models)}
    <3>1. PICK m \in ToSet(models) : x \in OfModel(m)
      OBVIOUS
    <3>2. PICK i \in 1 .. Len(models) : m = models[i]
      BY <1>1
    <3>3. x \in ToSet(parts[i])
      BY <1>3, <3>1, <3>2
    <3>. QED
      BY <3>3
  <2>. QED
    BY <2>1, <2>2
<1>. HIDE DEF A
<1>9. \A B, s : B \subseteq A /\ s \in Seq(B) => s \in Seq(A)
  OBVIOUS
<1>10. first \in Seq(A)
  BY <1>2, <1>7, <1>9
<1>11. \A i \in 1 .. Len(models) : parts[i] \in Seq(A)
  BY <1>3, <1>7, <1>9
<1>12. parts \in Seq(Seq(A))
  BY <1>1, <1>5, <1>11
<1>13. /\ FlattenSeq(parts) \in Seq(A)
       /\ ToSet(FlattenSeq(parts)) = UNION {ToSet(parts[i]) : i \in 1 .. Len(models)}
  BY <1>5, <1>12, FlattenMembers
<1>14. /\ first \o FlattenSeq(parts) \in Seq(A)
       /\ ToSet(first \o FlattenSeq(parts)) = ToSet(first) \cup ToSet(FlattenSeq(parts))
  BY <1>10, <1>13, ConcatMembers
<1>15. ToSet(AnswersToJudge(out, models)) = own \cup UNION {OfModel(m) : m \in ToSet(models)}
  BY <1>2, <1>4, <1>8, <1>13, <1>14
<1>16. AnswersToJudge(out, models) \in Seq(own \cup UNION {OfModel(m) : m \in ToSet(models)})
  BY <1>4, <1>14 DEF A
<1>. QED
  BY <1>15, <1>16 DEF own, OfModel

-----------------------------------------------------------------------------
\* What is measured is sound.

LEMMA MetaIsOf == \A n \in PhaseSet : Meta(n) = MetaOf(config, outputs, n)
BY DEF Meta, MetaOf

LEMMA MetaFacts ==
    ASSUME NEW c, NEW out
    PROVE  /\ MetaOf(c, out, "local") =
                  [dataset |-> c.dataset, sample |-> c.sample, more |-> c.chat]
           /\ MetaOf(c, out, "load") =
                  [dataset |-> c.dataset, sample |-> c.sample, more |-> <<c.chat, c.levels>>]
           /\ MetaOf(c, out, "openai") =
                  [dataset |-> c.dataset, sample |-> c.sample, more |-> c.models]
           /\ MetaOf(c, out, "judge") =
                  [dataset |-> c.dataset, sample |-> c.sample,
                   more |-> <<c.judge, AnswersDigest(out.local.items),
                              [m \in DOMAIN out.openai.chat |->
                                  AnswersDigest(out.openai.chat[m])]>>]
BY DEF MetaOf

\* Only the judge's conditions depend on other results.
LEMMA MetaOfOthers ==
    ASSUME NEW c, NEW out, NEW more, NEW n \in PhaseSet,
           n = "judge" => more.local = out.local /\ more.openai = out.openai
    PROVE  MetaOf(c, more, n) = MetaOf(c, out, n)
BY DEF MetaOf, PhaseSet

\* What a run has so far, and one result more.
LEMMA SoundWith ==
    ASSUME NEW c, NEW out, NEW n \in PhaseSet, NEW r, DOMAIN out \subseteq PhaseSet,
           "judge" \notin DOMAIN out,
           n = "judge" => {"local", "openai"} \subseteq DOMAIN out,
           \A m \in DOMAIN out : Sound(m, MetaOf(c, out, m), out[m]),
           Sound(n, MetaOf(c, out, n), r)
    PROVE  \A m \in DOMAIN With(out, n, r) :
               Sound(m, MetaOf(c, With(out, n, r), m), With(out, n, r)[m])
<1>1. PICK more : more = With(out, n, r)
  OBVIOUS
<1>2. /\ DOMAIN more = DOMAIN out \cup {n} /\ more[n] = r
      /\ \A m \in DOMAIN out : m # n => more[m] = out[m]
  BY <1>1 DEF With
<1>3. ASSUME NEW m \in DOMAIN more
      PROVE  MetaOf(c, more, m) = MetaOf(c, out, m)
  <2>1. m \in PhaseSet
    BY <1>2
  <2>2. m = "judge" => n = "judge"
    BY <1>2
  <2>3. m = "judge" => more["local"] = out["local"] /\ more["openai"] = out["openai"]
    BY <1>2, <2>2
  <2>. QED
    BY <2>1, <2>3, MetaOfOthers
<1>4. ASSUME NEW m \in DOMAIN more
      PROVE  Sound(m, MetaOf(c, more, m), more[m])
  <2>1. CASE m = n
    BY <1>2, <1>3, <2>1
  <2>2. CASE m # n
    BY <1>2, <1>3, <2>2
  <2>. QED
    BY <2>1, <2>2
<1>. QED
  BY <1>1, <1>4

LEMMA MeasureLocalIsSound ==
    ASSUME config \in Configs, MeasureLocal
    PROVE  Sound("local", MetaOf(config, outputs, "local"), result')
<1>1. PICK answers : result' =
          [items |-> [i \in DOMAIN Sample |->
                         WithItem(Sample[i], IF Sample[i].task = "vision"
                                             THEN TimedBufferedRequest(answers[i])
                                             ELSE TimedStreamRequest(answers[i]))],
           embedding |-> "whole", answers |-> answers, under |-> Conditions]
  BY DEF MeasureLocal
<1>2. PICK r : r = result'
  OBVIOUS
<1>3. r.under = Conditions
  BY <1>1, <1>2
<1>4. PICK given : given = r.items
  OBVIOUS
<1>5. given = [i \in DOMAIN Sample |->
                  WithItem(Sample[i], IF Sample[i].task = "vision"
                                      THEN TimedBufferedRequest(answers[i])
                                      ELSE TimedStreamRequest(answers[i]))]
  BY <1>1, <1>2, <1>4
<1>6. \A i \in DOMAIN Sample : given[i].id = Sample[i].id /\ given[i].task = Sample[i].task
  BY <1>5 DEF WithItem
<1>7. given = [i \in DOMAIN Sample |-> given[i]]
  BY <1>5
<1>8. OfItems(config.dataset, given)
  BY <1>6, <1>7, RowsOfSample
<1>9. PICK meta : meta = MetaOf(config, outputs, "local")
  OBVIOUS
<1>10. meta.dataset = config.dataset /\ meta.sample = config.sample
  BY <1>9, MetaFacts
<1>11. Sound("local", meta, r)
  BY <1>3, <1>4, <1>8, <1>10 DEF Sound, Conditions
<1>. QED
  BY <1>2, <1>9, <1>11

LEMMA FinishLoadIsSound ==
    ASSUME FinishLoad
    PROVE  Sound("load", MetaOf(config, outputs, "load"), result')
<1>1. PICK r : r = result'
  OBVIOUS
<1>2. r.under = Conditions
  BY <1>1 DEF FinishLoad
<1>3. PICK meta : meta = MetaOf(config, outputs, "load")
  OBVIOUS
<1>4. /\ meta.dataset = config.dataset /\ meta.sample = config.sample
      /\ meta.more[2] = config.levels
  BY <1>3, MetaFacts
<1>5. Sound("load", meta, r)
  BY <1>2, <1>4 DEF Sound, Conditions
<1>. QED
  BY <1>1, <1>3, <1>5

LEMMA AskOpenAiIsSound ==
    ASSUME config \in Configs, AskOpenAi
    PROVE  Sound("openai", MetaOf(config, outputs, "openai"), result')
<1>1. PICK r : r = result'
  OBVIOUS
<1>2. r.under = Conditions
  BY <1>1 DEF AskOpenAi
<1>3. DOMAIN r.chat = ToSet(config.models)
  BY <1>1 DEF AskOpenAi
<1>4. \A m \in ToSet(config.models) : r.chat[m] = [i \in DOMAIN Sample |-> r.chat[m][i]]
  BY <1>1 DEF AskOpenAi
<1>5. \A m \in ToSet(config.models) : \A i \in DOMAIN Sample :
          r.chat[m][i].id = Sample[i].id /\ r.chat[m][i].task = Sample[i].task
  BY <1>1 DEF AskOpenAi, WithItem
<1>6. ASSUME NEW m \in ToSet(config.models)
      PROVE  OfItems(config.dataset, r.chat[m])
  <2>1. PICK given : given = r.chat[m]
    OBVIOUS
  <2>2. \A i \in DOMAIN Sample : given[i].id = Sample[i].id /\ given[i].task = Sample[i].task
    BY <1>5, <2>1
  <2>3. given = [i \in DOMAIN Sample |-> given[i]]
    BY <1>4, <2>1
  <2>. QED
    BY <2>1, <2>2, <2>3, RowsOfSample
<1>8. PICK meta : meta = MetaOf(config, outputs, "openai")
  OBVIOUS
<1>9. /\ meta.dataset = config.dataset /\ meta.sample = config.sample
      /\ meta.more = config.models
  BY <1>8, MetaFacts
<1>10. /\ r.under.dataset = config.dataset /\ r.under.sample = config.sample
       /\ r.under.models = ToSet(config.models)
  BY <1>2 DEF Conditions
<1>11. Sound("openai", meta, r)
  BY <1>3, <1>6, <1>9, <1>10 DEF Sound
<1>. QED
  BY <1>1, <1>8, <1>11

\* JUDGE_PASSES scores for each answer.
LEMMA PassesOf ==
    ASSUME NEW L \in Nat, NEW d \in Nat \ {0}
    PROVE  /\ \A t \in 1 .. L * d : CeilDiv(t, d) \in 1 .. L
           /\ \A k \in 1 .. L : \E t \in 1 .. L * d : CeilDiv(t, d) = k
<1>1. ASSUME NEW t \in 1 .. L * d
      PROVE  (t + d - 1) \div d \in 1 .. L
  OBVIOUS
<1>2. ASSUME NEW k \in 1 .. L
      PROVE  ((k - 1) * d + 1 + d - 1) \div d = k
  OBVIOUS
<1>3. ASSUME NEW k \in 1 .. L
      PROVE  (k - 1) * d + 1 \in 1 .. L * d
  OBVIOUS
<1>4. ASSUME NEW k \in 1 .. L
      PROVE  \E t \in 1 .. L * d : CeilDiv(t, d) = k
  BY <1>2, <1>3 DEF CeilDiv
<1>. QED
  BY <1>1, <1>4 DEF CeilDiv

\* What the judge scored is what was there to judge.
LEMMA ScoresCoverAll ==
    ASSUME NEW answers, answers \in Seq(ToSet(answers)), NEW failed,
           \A e \in ToSet(answers) : e = [id |-> e.id, model |-> e.model, text |-> e.text]
    PROVE  ScoredOf(Scores(answers, failed)) = ToSet(answers)
<1>. DEFINE
    L == Len(answers)
    d == JudgePasses
    given == Scores(answers, failed)
    Entry(s) == [id |-> s.id, model |-> s.model, text |-> s.text]
<1>1. d \in Nat \ {0} /\ L \in Nat /\ ToSet(answers) = {answers[i] : i \in 1 .. L}
  BY BenchmarkAssumption, MembersOf
<1>2. ToSet(given) = {given[t] : t \in 1 .. L * d}
  BY DEF ToSet, Scores
<1>9. ASSUME NEW t \in 1 .. L * d
      PROVE  /\ given[t].id = answers[CeilDiv(t, d)].id
             /\ given[t].model = answers[CeilDiv(t, d)].model
             /\ given[t].text = answers[CeilDiv(t, d)].text
  BY DEF Scores
<1>. HIDE DEF given
<1>3. ScoredOf(given) = {Entry(s) : s \in ToSet(given)}
  BY DEF ScoredOf
<1>. HIDE DEF L
<1>4. ASSUME NEW t \in 1 .. L * d
      PROVE  CeilDiv(t, d) \in 1 .. L
  BY <1>1, PassesOf
<1>5. ASSUME NEW t \in 1 .. L * d
      PROVE  Entry(given[t]) \in ToSet(answers)
  <2>1. PICK i \in 1 .. L : i = CeilDiv(t, d)
    BY <1>4
  <2>2. answers[i] \in ToSet(answers)
    BY <1>1
  <2>3. given[t].id = answers[i].id /\ given[t].model = answers[i].model
        /\ given[t].text = answers[i].text
    BY <1>9, <2>1
  <2>4. answers[i] = Entry(answers[i])
    BY <2>2
  <2>5. Entry(given[t]) = Entry(answers[i])
    BY <2>3
  <2>. QED
    BY <2>2, <2>4, <2>5
<1>6. ASSUME NEW i \in 1 .. L
      PROVE  \E t \in 1 .. L * d : Entry(given[t]) = answers[i]
  <2>3. PICK t \in 1 .. L * d : CeilDiv(t, d) = i
    BY <1>1, PassesOf
  <2>4. given[t].id = answers[i].id /\ given[t].model = answers[i].model
        /\ given[t].text = answers[i].text
    BY <1>9, <2>3
  <2>5. answers[i] = Entry(answers[i])
    BY <1>1
  <2>6. Entry(given[t]) = Entry(answers[i])
    BY <2>4
  <2>. QED
    BY <2>5, <2>6
<1>7. ASSUME NEW e \in {Entry(s) : s \in ToSet(given)}
      PROVE  e \in ToSet(answers)
  <2>1. PICK t \in 1 .. L * d : e = Entry(given[t])
    <3>. HIDE DEF Entry
    <3>. QED
      BY <1>2
  <2>. QED
    BY <1>5, <2>1
<1>8. ASSUME NEW e \in ToSet(answers)
      PROVE  e \in {Entry(s) : s \in ToSet(given)}
  <2>. HIDE DEF Entry
  <2>1. PICK i \in 1 .. L : e = answers[i]
    BY <1>1
  <2>2. PICK t \in 1 .. L * d : Entry(given[t]) = e
    BY <1>6, <2>1
  <2>3. given[t] \in ToSet(given)
    BY <1>2
  <2>. QED
    BY <2>2, <2>3
<1>. HIDE DEF Entry
<1>10. ScoredOf(given) = ToSet(answers)
  BY <1>3, <1>7, <1>8
<1>. QED
  BY <1>10 DEF given

\* What the judge scores is of the dataset, answered by the local side and by each model.
LEMMA JudgedAnswers ==
    ASSUME Control, Measured, Judge
    PROVE  /\ config.dataset \in DOMAIN Items /\ config.models \in Seq(Models)
           /\ config \in Configs /\ Ordered(todo) /\ todo # <<>> /\ Head(todo) = "judge"
           /\ OfItems(config.dataset, outputs.local.items)
           /\ DOMAIN outputs.openai.chat = ToSet(config.models)
           /\ \A m \in ToSet(config.models) : OfItems(config.dataset, outputs.openai.chat[m])
           /\ AnswersToJudge(outputs, config.models) \in Seq(ToSet(AnswersToJudge(outputs, config.models)))
<1>. DEFINE d == config.dataset
<1>1. pc = "judge" /\ pc \in Underway /\ pc \in Producing /\ pc \in PhaseSet /\ pc # "idle"
  BY DEF Judge, Underway, Producing, PhaseSet
<1>2. config \in Configs /\ Ordered(todo) /\ todo # <<>> /\ Head(todo) = "judge"
  BY <1>1 DEF Control
<1>3. d \in DOMAIN Items /\ config.models \in Seq(Models)
  BY <1>2, BenchmarkAssumption
<1>4. {"local", "openai"} \subseteq DOMAIN outputs
  <2>1. ToSet(todo) = {"judge"} \cup ToSet(Tail(todo)) /\ Tail(todo) = <<>>
    BY <1>2, OrderedTail
  <2>2. ToSet(<<>>) = {}
    <3>1. DOMAIN <<>> = {}
      OBVIOUS
    <3>. QED
      BY <3>1 DEF ToSet
  <2>3. ToSet(todo) = {"judge"}
    BY <2>1, <2>2
  <2>. QED
    BY <1>1, <2>3 DEF Control
<1>5. /\ Sound("local", MetaOf(config, outputs, "local"), outputs["local"])
      /\ Sound("openai", MetaOf(config, outputs, "openai"), outputs["openai"])
  BY <1>1, <1>4 DEF Measured
<1>6. PICK out : out = outputs
  OBVIOUS
<1>7. OfItems(d, out.local.items)
  BY <1>5, <1>6, MetaFacts DEF Sound
<1>8. /\ DOMAIN out.openai.chat = ToSet(config.models)
      /\ \A m \in ToSet(config.models) : OfItems(d, out.openai.chat[m])
  <2>1. PICK meta : meta = MetaOf(config, outputs, "openai")
    OBVIOUS
  <2>2. meta.dataset = d /\ meta.more = config.models
    BY <2>1, MetaFacts
  <2>. QED
    BY <1>5, <1>6, <2>1, <2>2 DEF Sound
<1>9. AnswersToJudge(out, config.models) \in Seq(ToSet(AnswersToJudge(out, config.models)))
  <2>. DEFINE
      open == OpenAnswers(LocalModel, out.local.items)
              \cup UNION {OpenAnswers(m, out.openai.chat[m]) : m \in ToSet(config.models)}
  <2>1. AnswersToJudge(out, config.models) \in Seq(open)
    BY <1>3, <1>7, <1>8, AnswersToJudgeMembers
  <2>. HIDE DEF open
  <2>. QED
    BY <2>1, MembersOf
<1>. QED
  BY <1>2, <1>3, <1>6, <1>7, <1>8, <1>9

LEMMA JudgeIsSound ==
    ASSUME Control, Measured, Judge, pc' = "measured"
    PROVE  Sound("judge", MetaOf(config, outputs, "judge"), result')
<1>. DEFINE d == config.dataset
<1>1. pc = "judge" /\ pc \in Underway /\ pc \in Producing /\ pc \in PhaseSet /\ pc # "idle"
  BY DEF Judge, Underway, Producing, PhaseSet
<1>2. config \in Configs /\ Ordered(todo) /\ todo # <<>> /\ Head(todo) = "judge"
  BY JudgedAnswers
<1>3. d \in DOMAIN Items /\ config.models \in Seq(Models)
  BY JudgedAnswers
<1>4. PICK out : out = outputs
  OBVIOUS
<1>5. OfItems(d, out.local.items)
  BY <1>4, JudgedAnswers
<1>6. /\ DOMAIN out.openai.chat = ToSet(config.models)
      /\ \A m \in ToSet(config.models) : OfItems(d, out.openai.chat[m])
  BY <1>4, JudgedAnswers
<1>. DEFINE
    open == OpenAnswers(LocalModel, out.local.items)
            \cup UNION {OpenAnswers(m, out.openai.chat[m]) : m \in ToSet(config.models)}
<1>7. PICK answers : answers = AnswersToJudge(out, config.models)
  OBVIOUS
<1>8. answers \in Seq(open) /\ ToSet(answers) = open
  BY <1>3, <1>5, <1>6, <1>7, AnswersToJudgeMembers
<1>9. \A e \in open : e = [id |-> e.id, model |-> e.model, text |-> e.text]
  BY DEF OpenAnswers
<1>. HIDE DEF open
<1>10. answers \in Seq(ToSet(answers))
  BY <1>8, MembersOf
<1>11. PICK r : r = result'
  OBVIOUS
<1>12. r.under = Conditions
  BY <1>11 DEF Judge, End
<1>. DEFINE found == AnswersToJudge(outputs, config.models)
<1>13. \E failed : r.scores = Scores(found, failed)
  BY <1>11 DEF Judge, End
<1>14. PICK failed : r.scores = Scores(found, failed)
  BY <1>13
<1>. HIDE DEF found
<1>15. answers = found
  BY <1>4, <1>7 DEF found
<1>16. ScoredOf(r.scores) = ToSet(answers)
  BY <1>8, <1>9, <1>10, <1>15, <1>14, ScoresCoverAll
<1>17. PICK meta : meta = MetaOf(config, outputs, "judge")
  OBVIOUS
<1>18. /\ meta.dataset = d /\ meta.sample = config.sample
       /\ meta.more[2] = AnswersDigest(out.local.items)
       /\ meta.more[3] = [m \in DOMAIN out.openai.chat |-> AnswersDigest(out.openai.chat[m])]
  BY <1>4, <1>17, MetaFacts
<1>19. /\ DOMAIN meta.more[3] = ToSet(config.models)
       /\ \A m \in ToSet(config.models) : meta.more[3][m] = AnswersDigest(out.openai.chat[m])
  BY <1>6, <1>18
<1>20. OpenAnswers(LocalModel, out.local.items) = OpenOfDigest(LocalModel, d, meta.more[2])
  BY <1>3, <1>5, <1>18, OpenAnswersOfDigest
<1>21. \A m \in ToSet(config.models) :
           OpenAnswers(m, out.openai.chat[m]) = OpenOfDigest(m, d, meta.more[3][m])
  BY <1>3, <1>6, <1>19, OpenAnswersOfDigest
<1>22. open = OpenOfDigest(LocalModel, d, meta.more[2])
              \cup UNION {OpenOfDigest(m, d, meta.more[3][m]) : m \in DOMAIN meta.more[3]}
  BY <1>19, <1>20, <1>21 DEF open
<1>23. Sound("judge", meta, r)
  BY <1>8, <1>12, <1>16, <1>18, <1>22 DEF Sound, Conditions
<1>. QED
  BY <1>11, <1>17, <1>23

\* A report of a run that has all its results is of one measurement.
LEMMA ReportIsOfOneMeasurement ==
    ASSUME Control, Measured, pc = "looking", todo = <<>>, "report" \in config.phases,
           NEW r, r.config = Conditions, r.outputs = outputs
    PROVE  OneMeasurement(r)
<1>. DEFINE d == config.dataset
<1>1. pc \in Underway /\ pc # "idle"
  BY DEF Underway
<1>2. config \in Configs /\ d \in DOMAIN Items
  BY <1>1, BenchmarkAssumption DEF Control
<1>3. PhaseSet = DOMAIN outputs
  <2>1. ToSet(<<>>) = {}
    <3>1. DOMAIN <<>> = {}
      OBVIOUS
    <3>. QED
      BY <3>1 DEF ToSet
  <2>. QED
    BY <1>1, <2>1 DEF Control
<1>4. \A n \in PhaseSet : Sound(n, MetaOf(config, outputs, n), outputs[n])
  BY <1>1, <1>3 DEF Measured
<1>5. PICK out : out = outputs
  OBVIOUS
<1>6. /\ r.outputs = out /\ r.config.dataset = d /\ r.config.sample = config.sample
      /\ r.config.levels = config.levels /\ r.config.models = ToSet(config.models)
  BY <1>5 DEF Conditions
<1>7. PICK metas : metas = [n \in PhaseSet |-> MetaOf(config, outputs, n)]
  OBVIOUS
<1>8. \A n \in PhaseSet : Sound(n, metas[n], out[n])
  BY <1>4, <1>5, <1>7
<1>9. \A n \in PhaseSet : metas[n].dataset = d /\ metas[n].sample = config.sample
  BY <1>7, MetaFacts DEF PhaseSet
<1>10. /\ metas["load"].more[2] = config.levels /\ metas["openai"].more = config.models
       /\ metas["judge"].more[2] = AnswersDigest(out.local.items)
       /\ metas["judge"].more[3] = [m \in DOMAIN out.openai.chat |-> AnswersDigest(out.openai.chat[m])]
  BY <1>5, <1>7, MetaFacts DEF PhaseSet
<1>11. "local" \in PhaseSet /\ "load" \in PhaseSet /\ "openai" \in PhaseSet /\ "judge" \in PhaseSet
  BY DEF PhaseSet
<1>12. \A n \in PhaseSet : out[n].under.dataset = d /\ out[n].under.sample = config.sample
  BY <1>8, <1>9 DEF Sound
<1>13. out.load.under.levels = config.levels
  BY <1>8, <1>10, <1>11 DEF Sound
<1>14. OfItems(d, out.local.items)
  BY <1>8, <1>9, <1>11 DEF Sound
<1>15. /\ out.openai.under.models = ToSet(config.models)
       /\ DOMAIN out.openai.chat = ToSet(config.models)
       /\ \A m \in ToSet(config.models) : OfItems(d, out.openai.chat[m])
  BY <1>8, <1>9, <1>10, <1>11 DEF Sound
<1>16. ScoredOf(out.judge.scores) =
           OpenOfDigest(LocalModel, d, metas["judge"].more[2])
           \cup UNION {OpenOfDigest(m, d, metas["judge"].more[3][m]) :
                          m \in DOMAIN metas["judge"].more[3]}
  BY <1>8, <1>9, <1>11 DEF Sound
<1>17. /\ DOMAIN metas["judge"].more[3] = ToSet(config.models)
       /\ \A m \in ToSet(config.models) :
              metas["judge"].more[3][m] = AnswersDigest(out.openai.chat[m])
  BY <1>10, <1>15
<1>18. OpenAnswers(LocalModel, out.local.items) = OpenOfDigest(LocalModel, d, metas["judge"].more[2])
  BY <1>2, <1>10, <1>14, OpenAnswersOfDigest
<1>19. \A m \in ToSet(config.models) :
           OpenAnswers(m, out.openai.chat[m]) = OpenOfDigest(m, d, metas["judge"].more[3][m])
  BY <1>2, <1>15, <1>17, OpenAnswersOfDigest
<1>20. ScoredOf(out.judge.scores) =
           OpenAnswers(LocalModel, out.local.items)
           \cup UNION {OpenAnswers(m, out.openai.chat[m]) : m \in ToSet(config.models)}
  BY <1>16, <1>17, <1>18, <1>19
<1>. HIDE DEF d
<1>. QED
  BY <1>6, <1>12, <1>13, <1>15, <1>20 DEF OneMeasurement

\* Nothing changes of what was measured, or the run has ended.
LEMMA StillMeasured ==
    ASSUME Measured, UNCHANGED <<cache, report>>,
           \/ UNCHANGED <<config, todo, outputs>> /\ pc \in Underway /\ pc' \in Underway
              /\ pc' \notin {"measured", "writing", "publishing"}
           \/ pc' = "idle"
    PROVE  Measured'
<1>1. pc' = "idle" => pc' \notin Underway /\ pc' \notin {"measured", "writing", "publishing"}
  BY DEF Underway, PhaseSet
<1>. HIDE DEF Underway
<1>2. cache' = cache /\ report' = report
  OBVIOUS
<1>3. /\ \A n \in PhaseSet : cache'[n] \notin {NoFile, Torn} => Sound(n, cache'[n].meta, cache'[n].result)
      /\ report' # NoFile => OneMeasurement(report')
  BY <1>2 DEF Measured
<1>4. CASE pc' = "idle"
  BY <1>1, <1>3, <1>4 DEF Measured
<1>5. CASE UNCHANGED <<config, todo, outputs>> /\ pc \in Underway /\ pc' \in Underway
           /\ pc' \notin {"measured", "writing", "publishing"}
  <2>1. config' = config /\ outputs' = outputs
    BY <1>5
  <2>2. \A n \in DOMAIN outputs' : Sound(n, MetaOf(config', outputs', n), outputs'[n])
    BY <1>5, <2>1 DEF Measured
  <2>. QED
    BY <1>3, <1>5, <2>2 DEF Measured
<1>. QED
  BY <1>4, <1>5

\* A phase has been measured.
LEMMA NowMeasured ==
    ASSUME Control, Measured, UNCHANGED <<cache, report, config, todo, outputs>>,
           pc \in PhaseSet, pc' = "measured", Sound(pc, MetaOf(config, outputs, pc), result')
    PROVE  Measured'
<1>1. pc = Head(todo) /\ pc \in Underway
  BY DEF Control, Underway
<1>2. /\ cache' = cache /\ report' = report /\ config' = config /\ todo' = todo
      /\ outputs' = outputs
  OBVIOUS
<1>3. Sound(Head(todo'), MetaOf(config', outputs', Head(todo')), result')
  BY <1>1, <1>2
<1>. QED
  BY <1>1, <1>2, <1>3 DEF Measured

LEMMA PhaseKeepsMeasured ==
    ASSUME Control, Measured,
           \/ StartGateway \/ Healthy \/ StartupFails \/ PhaseFails
           \/ MeasureLocal \/ MeasureStage \/ FinishLoad \/ AskOpenAi \/ Judge
    PROVE  Measured'
<1>0. \A n \in PhaseSet : pc = n => config \in Configs
  BY DEF Control, PhaseSet
<1>1. CASE StartGateway \/ MeasureStage
  <2>1. /\ UNCHANGED <<cache, report, config, todo, outputs>> /\ pc \in Underway /\ pc' \in Underway
        /\ pc' \notin {"measured", "writing", "publishing"}
    BY <1>1 DEF StartGateway, MeasureStage, files, Underway, PhaseSet
  <2>. QED
    BY <2>1, StillMeasured
<1>2. CASE Healthy
  <2>1. /\ UNCHANGED <<cache, report, config, todo, outputs>> /\ pc = "booting" /\ pc' = Head(todo)
    BY <1>2 DEF Healthy, files, Current
  <2>2. Head(todo) \in {"local", "load"}
    BY <2>1 DEF Control
  <2>3. pc \in Underway /\ pc' \in Underway /\ pc' \notin {"measured", "writing", "publishing"}
    BY <2>1, <2>2 DEF Underway, PhaseSet
  <2>. QED
    BY <2>1, <2>3, StillMeasured
<1>3. CASE StartupFails \/ PhaseFails
  <2>1. pc' = "idle" /\ UNCHANGED <<cache, report>>
    BY <1>3 DEF StartupFails, PhaseFails, files, End
  <2>. QED
    BY <2>1, StillMeasured
<1>4. CASE MeasureLocal
  <2>1. /\ UNCHANGED <<cache, report, config, todo, outputs>> /\ pc = "local" /\ pc' = "measured"
    BY <1>4 DEF MeasureLocal, files
  <2>2. "local" \in PhaseSet
    BY DEF PhaseSet
  <2>3. Sound("local", MetaOf(config, outputs, "local"), result')
    BY <1>0, <1>4, <2>1, <2>2, MeasureLocalIsSound
  <2>. QED
    BY <2>1, <2>2, <2>3, NowMeasured
<1>5. CASE FinishLoad
  <2>1. /\ UNCHANGED <<cache, report, config, todo, outputs>> /\ pc = "load" /\ pc' = "measured"
    BY <1>5 DEF FinishLoad, files
  <2>2. "load" \in PhaseSet
    BY DEF PhaseSet
  <2>3. Sound("load", MetaOf(config, outputs, "load"), result')
    BY <1>5, FinishLoadIsSound
  <2>. QED
    BY <2>1, <2>2, <2>3, NowMeasured
<1>6. CASE AskOpenAi
  <2>1. /\ UNCHANGED <<cache, report, config, todo, outputs>> /\ pc = "openai" /\ pc' = "measured"
    BY <1>6 DEF AskOpenAi, files
  <2>2. "openai" \in PhaseSet
    BY DEF PhaseSet
  <2>3. Sound("openai", MetaOf(config, outputs, "openai"), result')
    BY <1>0, <1>6, <2>1, <2>2, AskOpenAiIsSound
  <2>. QED
    BY <2>1, <2>2, <2>3, NowMeasured
<1>7. CASE Judge
  <2>1. UNCHANGED <<cache, report>> /\ pc = "judge" /\ "judge" \in PhaseSet
    BY <1>7 DEF Judge, files, PhaseSet
  <2>2. \/ pc' = "idle"
        \/ pc' = "measured" /\ UNCHANGED <<config, todo, outputs>>
    BY <1>7 DEF Judge, End
  <2>3. CASE pc' = "idle"
    BY <2>1, <2>3, StillMeasured
  <2>4. CASE pc' = "measured" /\ UNCHANGED <<config, todo, outputs>>
    <3>1. Sound("judge", MetaOf(config, outputs, "judge"), result')
      BY <1>7, <2>4, JudgeIsSound
    <3>. QED
      BY <2>1, <2>4, <3>1, NowMeasured
  <2>. QED
    BY <2>2, <2>3, <2>4
<1>. QED
  BY <1>1, <1>2, <1>3, <1>4, <1>5, <1>6, <1>7

\* A result that is sound joins those of the run.
LEMMA NextPhaseKeepsMeasured ==
    ASSUME Control, Measured, pc \in {"looking", "writing"}, todo # <<>>, UNCHANGED <<report, config>>,
           NEW r, outputs' = With(outputs, Head(todo), r), pc' = "looking",
           Sound(Head(todo), MetaOf(config, outputs, Head(todo)), r),
           \A n \in PhaseSet :
               cache'[n] \notin {NoFile, Torn} => Sound(n, cache'[n].meta, cache'[n].result)
    PROVE  Measured'
<1>1. pc \in Underway
  BY DEF Underway
<1>2. PICK n : n = Head(todo)
  OBVIOUS
<1>3. n \in PhaseSet /\ Ordered(todo)
  BY <1>1, <1>2, OrderedTail DEF Control
<1>4. DOMAIN outputs \subseteq PhaseSet /\ "judge" \notin DOMAIN outputs
  BY <1>1 DEF Control
<1>5. n = "judge" => {"local", "openai"} \subseteq DOMAIN outputs
  <2>1. SUFFICES ASSUME n = "judge" PROVE {"local", "openai"} \subseteq DOMAIN outputs
    OBVIOUS
  <2>2. ToSet(todo) = {"judge"} \cup ToSet(Tail(todo)) /\ Tail(todo) = <<>>
    BY <1>2, <1>3, <2>1, OrderedTail
  <2>3. ToSet(<<>>) = {}
    <3>1. DOMAIN <<>> = {}
      OBVIOUS
    <3>. QED
      BY <3>1 DEF ToSet
  <2>4. ToSet(todo) = {"judge"}
    BY <2>2, <2>3
  <2>. QED
    BY <1>1, <2>4 DEF Control
<1>6. PICK c, out : c = config /\ out = outputs
  OBVIOUS
<1>7. \A m \in DOMAIN out : Sound(m, MetaOf(c, out, m), out[m])
  BY <1>1, <1>6 DEF Measured
<1>8. Sound(n, MetaOf(c, out, n), r)
  BY <1>2, <1>6
<1>9. PICK more : more = With(out, n, r)
  OBVIOUS
<1>10. \A m \in DOMAIN more : Sound(m, MetaOf(c, more, m), more[m])
  BY <1>3, <1>4, <1>5, <1>6, <1>7, <1>8, <1>9, SoundWith
<1>11. outputs' = more /\ config' = c /\ report' = report
  BY <1>2, <1>6, <1>9
<1>12. \A m \in DOMAIN outputs' : Sound(m, MetaOf(config', outputs', m), outputs'[m])
  BY <1>10, <1>11
<1>13. report' # NoFile => OneMeasurement(report')
  BY <1>11 DEF Measured
<1>. QED
  BY <1>12, <1>13 DEF Measured

LEMMA FilesKeepMeasured ==
    ASSUME Control, Measured, Reuse \/ BeginWriting \/ EndWriting
    PROVE  Measured'
<1>1. CASE Reuse
  <2>1. /\ pc = "looking" /\ todo # <<>> /\ pc' = "looking" /\ UNCHANGED <<report, config, cache>>
        /\ outputs' = With(outputs, Head(todo), cache[Head(todo)].result)
        /\ cache[Head(todo)] \notin {NoFile, Torn}
        /\ cache[Head(todo)].meta = Meta(Head(todo))
    BY <1>1 DEF Reuse, Looking, Current, files, InUse, Matches
  <2>2. Head(todo) \in PhaseSet
    BY <2>1, OrderedTail DEF Control, Underway
  <2>3. Meta(Head(todo)) = MetaOf(config, outputs, Head(todo))
    BY <2>2, MetaIsOf
  <2>4. Sound(Head(todo), MetaOf(config, outputs, Head(todo)), cache[Head(todo)].result)
    <3>1. Sound(Head(todo), cache[Head(todo)].meta, cache[Head(todo)].result)
      BY <2>1, <2>2 DEF Measured
    <3>. QED
      BY <2>1, <2>3, <3>1
  <2>5. cache' = cache
    BY <2>1
  <2>6. \A n \in PhaseSet :
            cache'[n] \notin {NoFile, Torn} => Sound(n, cache'[n].meta, cache'[n].result)
    BY <2>5 DEF Measured
  <2>7. PICK r : r = cache[Head(todo)].result
    OBVIOUS
  <2>8. outputs' = With(outputs, Head(todo), r) /\ UNCHANGED <<report, config>>
        /\ pc \in {"looking", "writing"} /\ pc' = "looking" /\ todo # <<>>
    BY <2>1, <2>7
  <2>9. Sound(Head(todo), MetaOf(config, outputs, Head(todo)), r)
    BY <2>4, <2>7
  <2>. QED
    BY <2>6, <2>8, <2>9, NextPhaseKeepsMeasured
<1>2. CASE BeginWriting
  <2>1. /\ pc = "measured" /\ pc' = "writing" /\ UNCHANGED <<report, config, todo, outputs, result>>
        /\ cache' = [cache EXCEPT ![Head(todo)] = Torn]
    BY <1>2 DEF BeginWriting, Current
  <2>2. /\ config' = config /\ todo' = todo /\ outputs' = outputs /\ result' = result
        /\ report' = report
    BY <2>1
  <2>3. pc \in Underway /\ pc' \in Underway /\ pc' # "publishing"
    BY <2>1 DEF Underway
  <2>4. \A n \in PhaseSet : cache'[n] = cache[n] \/ cache'[n] = Torn
    BY <2>1 DEF Control
  <2>5. \A n \in PhaseSet :
            cache'[n] \notin {NoFile, Torn} => Sound(n, cache'[n].meta, cache'[n].result)
    <3>1. \A n \in PhaseSet : cache'[n] \notin {NoFile, Torn} => cache'[n] = cache[n]
      BY <2>4
    <3>. QED
      BY <3>1 DEF Measured
  <2>6. Sound(Head(todo'), MetaOf(config', outputs', Head(todo')), result')
    BY <2>1, <2>2 DEF Measured
  <2>7. \A n \in DOMAIN outputs' : Sound(n, MetaOf(config', outputs', n), outputs'[n])
    BY <2>2, <2>3 DEF Measured
  <2>. QED
    BY <2>2, <2>3, <2>5, <2>6, <2>7 DEF Measured
<1>3. CASE EndWriting
  <2>. DEFINE e == [meta |-> Meta(Head(todo)), result |-> result]
  <2>1. /\ pc = "writing" /\ pc' = "looking" /\ UNCHANGED <<report, config>>
        /\ outputs' = With(outputs, Head(todo), result)
        /\ cache' = [cache EXCEPT ![Head(todo)] = e]
    BY <1>3 DEF EndWriting, Current
  <2>2. todo # <<>> /\ Head(todo) \in PhaseSet
    <3>1. pc \in Producing /\ pc \in Underway
      BY <2>1 DEF Producing, Underway
    <3>. QED
      BY <3>1, OrderedTail DEF Control
  <2>3. Meta(Head(todo)) = MetaOf(config, outputs, Head(todo))
    BY <2>2, MetaIsOf
  <2>4. Sound(Head(todo), MetaOf(config, outputs, Head(todo)), result)
    BY <2>1 DEF Measured
  <2>5. e.meta = MetaOf(config, outputs, Head(todo)) /\ e.result = result
    BY <2>3
  <2>. HIDE DEF e
  <2>6. Sound(Head(todo), e.meta, e.result)
    BY <2>4, <2>5
  <2>7. \A n \in PhaseSet : cache'[n] = IF n = Head(todo) THEN e ELSE cache[n]
    BY <2>1 DEF Control
  <2>8. ASSUME NEW n \in PhaseSet, cache'[n] \notin {NoFile, Torn}
        PROVE  Sound(n, cache'[n].meta, cache'[n].result)
    <3>1. CASE n = Head(todo)
      BY <2>6, <2>7, <3>1
    <3>2. CASE n # Head(todo)
      <4>1. cache'[n] = cache[n]
        BY <2>7, <3>2
      <4>. QED
        BY <2>8, <4>1 DEF Measured
    <3>. QED
      BY <3>1, <3>2
  <2>9. PICK r : r = result
    OBVIOUS
  <2>10. /\ outputs' = With(outputs, Head(todo), r)
         /\ Sound(Head(todo), MetaOf(config, outputs, Head(todo)), r)
    BY <2>1, <2>4, <2>9
  <2>. QED
    BY <2>1, <2>2, <2>8, <2>10, NextPhaseKeepsMeasured
<1>. QED
  BY <1>1, <1>2, <1>3

LEMMA ReportKeepsMeasured ==
    ASSUME Control, Measured, BuildReport \/ Publish
    PROVE  Measured'
<1>1. CASE BuildReport
  <2>1. /\ UNCHANGED <<cache, report>> /\ pc = "looking" /\ todo = <<>> /\ "report" \in config.phases
    BY <1>1 DEF BuildReport, files
  <2>2. \/ pc' = "idle"
        \/ pc' = "publishing" /\ result'.config = Conditions /\ result'.outputs = outputs
    BY <1>1 DEF BuildReport, End
  <2>3. CASE pc' = "idle"
    BY <2>1, <2>3, StillMeasured
  <2>4. CASE pc' = "publishing" /\ result'.config = Conditions /\ result'.outputs = outputs
    <3>1. PICK r : r = result'
      OBVIOUS
    <3>2. OneMeasurement(r)
      BY <2>1, <2>4, <3>1, ReportIsOfOneMeasurement
    <3>3. pc' \notin Underway
      BY <2>4 DEF Underway, PhaseSet
    <3>4. cache' = cache /\ report' = report
      BY <2>1
    <3>. QED
      BY <2>4, <3>1, <3>2, <3>3, <3>4 DEF Measured
  <2>. QED
    BY <2>2, <2>3, <2>4
<1>2. CASE Publish
  <2>1. /\ pc = "publishing" /\ cache' = cache
        /\ report' = report \/ report' = result
        /\ pc' = "idle" \/ (pc' = pc /\ result' = result)
    BY <1>2 DEF Publish, End
  <2>2. OneMeasurement(result) /\ (report # NoFile => OneMeasurement(report))
    BY <2>1 DEF Measured
  <2>3. pc' \notin Underway /\ pc' \notin {"measured", "writing"}
    BY <2>1 DEF Underway, PhaseSet
  <2>4. report' # NoFile => OneMeasurement(report')
    BY <2>1, <2>2
  <2>5. pc' = "publishing" => OneMeasurement(result')
    BY <2>1, <2>2
  <2>6. \A n \in PhaseSet :
            cache'[n] \notin {NoFile, Torn} => Sound(n, cache'[n].meta, cache'[n].result)
    BY <2>1 DEF Measured
  <2>. QED
    BY <2>3, <2>4, <2>5, <2>6 DEF Measured
<1>. QED
  BY <1>1, <1>2

LEMMA NextKeepsMeasured ==
    ASSUME Control, Measured, Next
    PROVE  Measured'
<1>1. ASSUME NEW c \in Configs, Start(c)
      PROVE  Measured'
  <2>1. /\ cache' = cache /\ report' = report /\ pc' = "looking" /\ outputs' = <<>>
    BY <1>1 DEF Start, files, Control, Nothing
  <2>2. DOMAIN outputs' = {}
    BY <2>1
  <2>3. pc' \notin {"measured", "writing", "publishing"}
    BY <2>1
  <2>. QED
    BY <2>1, <2>2, <2>3 DEF Measured
<1>2. CASE Refuse \/ Finish \/ Crash
  <2>1. pc' = "idle" /\ UNCHANGED <<cache, report>>
    BY <1>2 DEF Refuse, Finish, Crash, files, End
  <2>. QED
    BY <2>1, StillMeasured
<1>3. CASE Produce
  <2>1. /\ pc = "looking" /\ todo # <<>> /\ UNCHANGED <<cache, report, config, todo, outputs>>
        /\ pc' = IF Head(todo) \in {"local", "load"} THEN "starting" ELSE Head(todo)
    BY <1>3 DEF Produce, Looking, Current, files
  <2>2. pc \in Underway /\ Ordered(todo)
    BY <2>1 DEF Control, Underway
  <2>3. Head(todo) \in PhaseSet
    BY <2>1, <2>2, OrderedTail
  <2>4. pc' \in Underway /\ pc' \notin {"measured", "writing", "publishing"}
    BY <2>1, <2>3 DEF PhaseSet, Underway
  <2>. QED
    BY <2>1, <2>2, <2>4, StillMeasured
<1>. QED
  BY <1>1, <1>2, <1>3, FilesKeepMeasured, PhaseKeepsMeasured, ReportKeepsMeasured DEF Next

LEMMA IdleKeepsMeasured ==
    ASSUME Measured, UNCHANGED <<cache, report, pc, config, todo, outputs, result>>
    PROVE  Measured'
<1>1. /\ cache' = cache /\ report' = report /\ pc' = pc /\ config' = config /\ todo' = todo
      /\ outputs' = outputs /\ result' = result
  OBVIOUS
<1>. QED
  BY <1>1 DEF Measured

\* Whatever is cached, held or reported was measured under the conditions it stands for.
THEOREM MeasuredInvariance == SuiteSpec => []Measured
<1>1. SuiteInit => Measured
  <2>1. SUFFICES ASSUME SuiteInit PROVE Measured
    OBVIOUS
  <2>2. /\ cache = [n \in PhaseSet |-> NoFile] /\ pc = "idle" /\ report = NoFile
    BY <2>1, PhasesFacts DEF SuiteInit, Init
  <2>3. pc \notin Underway
    BY <2>2 DEF Underway, PhaseSet
  <2>. QED
    BY <2>2, <2>3 DEF Measured
<1>2. Control /\ Measured /\ [BenchmarkStep \/ QualityStep]_suiteVars => Measured'
  <2>1. SUFFICES ASSUME Control, Measured, [BenchmarkStep \/ QualityStep]_suiteVars PROVE Measured'
    OBVIOUS
  <2>2. CASE BenchmarkStep
    BY <2>1, <2>2, NextKeepsMeasured DEF BenchmarkStep
  <2>3. CASE QualityStep
    BY <2>1, <2>3, IdleKeepsMeasured DEF QualityStep, benchmarkOnly, files
  <2>4. CASE UNCHANGED suiteVars
    BY <2>1, <2>4, IdleKeepsMeasured DEF suiteVars, vars, files
  <2>. QED
    BY <2>1, <2>2, <2>3, <2>4
<1>. QED
  BY <1>1, <1>2, ControlInvariance, PTL DEF SuiteSpec, suiteVars

\* Results of different runs are not mixed in a report (run_benchmark), whatever is cached
\* from runs with other arguments, and wherever runs were cut short.
THEOREM ReportsAreOfOneMeasurement == SuiteSpec => []ReportOfOneMeasurement
<1>1. Measured => ReportOfOneMeasurement
  <2>1. SUFFICES ASSUME Measured, report # NoFile
                 PROVE  ReportOfOneMeasurement
    BY DEF ReportOfOneMeasurement
  <2>2. OneMeasurement(report)
    BY <2>1 DEF Measured
  <2>. QED
    BY <2>2, PhasesFacts DEF OneMeasurement, ReportOfOneMeasurement, ScoredOf
<1>. QED
  BY <1>1, MeasuredInvariance, PTL

-----------------------------------------------------------------------------
\* The evaluation of quality.

Asking == {"asking", "fetched"}
Collecting == {"looking", "collected", "saving"}
Judging == {"judged", "caching", "scored", "validated"}

\* Of any command: the conditions under which a system answers, its fingerprint, and the
\* order in which the judge is given the systems.
AnswersUnder(c, s) == <<IF s \in LocalSystems THEN c.routed ELSE s, c.dataset>>
FingerprintOf(c, s) == <<s, IF s \in LocalSystems THEN c.routed ELSE s, c.dataset>>

OrderOf(ss) ==
    [item \in ToSet(JudgedItems) |->
        [l \in 1 .. Len(ss) |-> ss[1 + ((l + Quality!NumberOf(item)) % Len(ss))]]]

\* The document for the judge, of the answers of the systems ss.
DocumentOf(ss, answers) ==
    [item \in ToSet(JudgedItems) |->
        [l \in 1 .. Len(ss) |-> answers[OrderOf(ss)[item][l]][item].text]]

\* The answers are to all questions, and were given under these conditions.
GivenUnder(answers, conditions) ==
    /\ DOMAIN answers = Questions
    /\ \A q \in Questions : answers[q].of = conditions

\* Every score is that of the text in its place, or out of range.
Fair(given, input) ==
    /\ DOMAIN given = ToSet(JudgedItems)
    /\ \A item \in ToSet(JudgedItems) : \A l \in DOMAIN input[item] :
          given[item][l] = 0 \/ given[item][l] = Quality!Score(input[item][l])

\* What a command was given, and what has become of it.
Occupied ==
    /\ DOMAIN responses = Quality!AllSystems
    /\ step \in {"idle", "reporting"} \cup Asking \cup Collecting \cup Judging
    /\ step = "idle" => collected = Nothing /\ scores = Nothing
    /\ step # "idle" =>
          /\ command \in Commands
          /\ systems \in Seq(Systems)
          /\ DOMAIN collected \cup ToSet(systems) = ToSet(command.systems)
    /\ step \in {"collected", "saving"} => systems # <<>>
    /\ step \in Judging \cup {"reporting"} => systems = <<>>
    /\ step \in Asking \cup Collecting => scores = Nothing

\* The answers that are kept were given under the conditions they are kept for.
AnswersOwn ==
    /\ \A s \in DOMAIN responses : responses[s] \notin {NoFile, Torn} =>
          GivenUnder(responses[s].rows,
                     <<responses[s].fingerprint[2], responses[s].fingerprint[3]>>)
    /\ step \in {"collected", "saving"} =>
          GivenUnder(rows, AnswersUnder(command, Head(systems)))
    /\ step # "idle" =>
          \A s \in DOMAIN collected : GivenUnder(collected[s], AnswersUnder(command, s))

\* The scores that are kept are those of the texts they are kept for.
ScoresOwn ==
    /\ judgeCache \notin {NoFile, Torn} => Fair(judgeCache.scores, judgeCache.fingerprint[1])
    /\ step \in Judging => Fair(scores, DocumentOf(command.systems, collected))
    /\ step \in {"validated", "reporting"} /\ scores # Nothing =>
          \A item \in ToSet(JudgedItems) : \A l \in 1 .. Len(command.systems) :
              scores[item][l] = Quality!Score(DocumentOf(command.systems, collected)[item][l])

Evaluated == Occupied /\ AnswersOwn /\ ScoresOwn

evaluationVars == <<responses, judgeCache, evaluation, step, command, systems, rows, collected, scores>>

LEMMA EvaluationUnchanged ==
    ASSUME Evaluated, EvaluationOfOwnAnswers, UNCHANGED evaluationVars
    PROVE  Evaluated' /\ EvaluationOfOwnAnswers'
<1>1. /\ responses' = responses /\ judgeCache' = judgeCache /\ evaluation' = evaluation
      /\ step' = step /\ command' = command /\ systems' = systems /\ rows' = rows
      /\ collected' = collected /\ scores' = scores
  BY DEF evaluationVars
<1>2. Occupied'
  BY <1>1 DEF Evaluated, Occupied
<1>3. AnswersOwn'
  BY <1>1 DEF Evaluated, AnswersOwn
<1>4. ScoresOwn'
  BY <1>1 DEF Evaluated, ScoresOwn
<1>5. EvaluationOfOwnAnswers'
  BY <1>1 DEF EvaluationOfOwnAnswers, Quality!EvaluationOfOwnAnswers, Quality!OwnScore, Quality!FailedOf
<1>. QED
  BY <1>2, <1>3, <1>4, <1>5 DEF Evaluated

\* A run that ends forgets what it has in memory.
LEMMA EndKeepsEvaluated ==
    ASSUME Evaluated, Quality!End, UNCHANGED <<responses, judgeCache>>
    PROVE  Evaluated'
<1>1. /\ responses' = responses /\ judgeCache' = judgeCache /\ step' = "idle"
      /\ collected' = <<>> /\ scores' = <<>>
  BY DEF Quality!End, Quality!Nothing
<1>2. Occupied'
  BY <1>1 DEF Evaluated, Occupied, Nothing, Asking, Collecting, Judging
<1>3. AnswersOwn'
  BY <1>1 DEF Evaluated, AnswersOwn
<1>4. ScoresOwn'
  BY <1>1 DEF Evaluated, ScoresOwn, Judging
<1>. QED
  BY <1>2, <1>3, <1>4 DEF Evaluated

\* A report stays as it is until the next one is written.
LEMMA ReportStays ==
    ASSUME EvaluationOfOwnAnswers, evaluation' = evaluation
    PROVE  EvaluationOfOwnAnswers'
BY DEF EvaluationOfOwnAnswers, Quality!EvaluationOfOwnAnswers, Quality!OwnScore, Quality!FailedOf

\* A file there is, whole, is not one of the marks.
LEMMA FilesAreNoMarks ==
    /\ NoFile # Torn
    /\ \A a, b : [fingerprint |-> a, rows |-> b] \notin {NoFile, Torn}
    /\ \A a, b : [fingerprint |-> a, scores |-> b] \notin {NoFile, Torn}
<1>1. DOMAIN NoFile = {"state"} /\ DOMAIN Torn = {"state"} /\ NoFile # Torn
  BY DEF NoFile, Torn
<1>2. SUFFICES ASSUME NEW a, NEW b
               PROVE  /\ [fingerprint |-> a, rows |-> b] \notin {NoFile, Torn}
                      /\ [fingerprint |-> a, scores |-> b] \notin {NoFile, Torn}
  BY <1>1
<1>3. /\ DOMAIN [fingerprint |-> a, rows |-> b] = {"fingerprint", "rows"}
      /\ DOMAIN [fingerprint |-> a, scores |-> b] = {"fingerprint", "scores"}
  OBVIOUS
<1>. QED
  BY <1>1, <1>3

\* A command that is given.
LEMMA StartEvaluation ==
    ASSUME Evaluated, NEW c \in Commands, Quality!Start(c)
    PROVE  Evaluated'
<1>1. /\ responses' = responses /\ judgeCache' = judgeCache /\ collected' = collected
      /\ scores' = scores /\ rows' = rows
      /\ command' = c /\ systems' = c.systems /\ step' = "asking" /\ step = "idle"
  BY DEF Quality!Start, Quality!files, Quality!memory
<1>2. c.systems \in Seq(Systems)
  BY QualityAssumption
<1>3. collected = <<>> /\ scores = <<>> /\ DOMAIN collected = {}
  BY <1>1 DEF Evaluated, Occupied, Nothing
<1>4. Occupied'
  BY <1>1, <1>2, <1>3 DEF Evaluated, Occupied, Nothing, Asking, Collecting, Judging
<1>5. AnswersOwn'
  BY <1>1, <1>3 DEF Evaluated, AnswersOwn
<1>6. ScoresOwn'
  BY <1>1 DEF Evaluated, ScoresOwn, Judging
<1>. QED
  BY <1>4, <1>5, <1>6 DEF Evaluated

\* Questions are fetched; nothing else moves.
LEMMA AskingKeepsEvaluated ==
    ASSUME Evaluated, step \in Asking, step' \in Asking \cup {"looking"},
           UNCHANGED <<responses, judgeCache, command, systems, rows, collected, scores>>
    PROVE  Evaluated'
<1>1. /\ responses' = responses /\ judgeCache' = judgeCache /\ command' = command
      /\ systems' = systems /\ rows' = rows /\ collected' = collected /\ scores' = scores
  OBVIOUS
<1>2. Occupied'
  BY <1>1 DEF Evaluated, Occupied, Asking, Collecting, Judging
<1>3. AnswersOwn'
  BY <1>1 DEF Evaluated, AnswersOwn, Asking
<1>4. ScoresOwn'
  BY <1>1 DEF Evaluated, ScoresOwn, Asking, Judging
<1>. QED
  BY <1>2, <1>3, <1>4 DEF Evaluated

\* A system's answers are there, from a file or given just now.
LEMMA RowsKeepEvaluated ==
    ASSUME Evaluated, step \in {"looking", "collected"}, step' = "collected", systems # <<>>,
           UNCHANGED <<responses, judgeCache, command, systems, collected, scores>>,
           GivenUnder(rows', AnswersUnder(command, Head(systems)))
    PROVE  Evaluated'
<1>1. /\ responses' = responses /\ judgeCache' = judgeCache /\ command' = command
      /\ systems' = systems /\ collected' = collected /\ scores' = scores
  OBVIOUS
<1>2. Occupied'
  BY <1>1 DEF Evaluated, Occupied, Asking, Collecting, Judging
<1>3. AnswersOwn'
  BY <1>1 DEF Evaluated, AnswersOwn
<1>4. ScoresOwn'
  BY <1>1 DEF Evaluated, ScoresOwn, Judging
<1>. QED
  BY <1>2, <1>3, <1>4 DEF Evaluated

LEMMA RoutedFacts ==
    /\ \A s : AnswersUnder(command, s) = <<Quality!Routed(s), command.dataset>>
    /\ \A s : FingerprintOf(command, s) = Quality!ResponseFingerprint(s)
    /\ \A s : /\ FingerprintOf(command, s)[2] = AnswersUnder(command, s)[1]
              /\ FingerprintOf(command, s)[3] = AnswersUnder(command, s)[2]
              /\ AnswersUnder(command, s)
                    = <<FingerprintOf(command, s)[2], FingerprintOf(command, s)[3]>>
BY DEF AnswersUnder, FingerprintOf, Quality!Routed, Quality!ResponseFingerprint

LEMMA ReuseResponsesKeeps ==
    ASSUME Evaluated, Quality!ReuseResponses
    PROVE  Evaluated'
<1>1. /\ step = "looking" /\ step' = "collected" /\ systems # <<>>
      /\ responses[Head(systems)] \notin {NoFile, Torn}
      /\ responses[Head(systems)].fingerprint = FingerprintOf(command, Head(systems))
      /\ rows' = responses[Head(systems)].rows
      /\ responses' = responses /\ judgeCache' = judgeCache /\ command' = command
      /\ systems' = systems /\ collected' = collected /\ scores' = scores
  BY RoutedFacts DEF Quality!ReuseResponses, Quality!InUse, Quality!Matches, Quality!Current, Quality!files
<1>2. Head(systems) \in DOMAIN responses
  <2>1. command \in Commands /\ systems \in Seq(Systems) /\ ToSet(systems) \subseteq ToSet(command.systems)
        /\ DOMAIN responses = Quality!AllSystems
    BY <1>1 DEF Evaluated, Occupied
  <2>2. Head(systems) \in ToSet(command.systems)
    BY <1>1, <2>1, HeadAndRest
  <2>3. Head(systems) \in Quality!AllSystems
    <3>1. Quality!AllSystems = UNION {ToSet(c.systems) : c \in Commands}
      BY DEF Quality!AllSystems, ToSet, Quality!ToSet
    <3>2. ToSet(command.systems) \in {ToSet(c.systems) : c \in Commands}
      BY <2>1
    <3>. QED
      BY <2>2, <3>1, <3>2
  <2>. QED
    BY <2>1, <2>3
<1>3. GivenUnder(responses[Head(systems)].rows, AnswersUnder(command, Head(systems)))
  BY <1>1, <1>2, RoutedFacts DEF Evaluated, AnswersOwn
<1>. QED
  BY <1>1, <1>3, RowsKeepEvaluated

\* Answers given just now are given under the conditions of the run.
LEMMA AnsweredFacts ==
    ASSUME NEW S, NEW answers \in Quality!Answered(S)
    PROVE  /\ DOMAIN answers = S
           /\ \A q \in S : answers[q].of = AnswersUnder(command, Head(systems))
<1>. DEFINE where == <<Quality!Routed(Head(systems)), command.dataset>>
<1>1. where = AnswersUnder(command, Head(systems))
  BY RoutedFacts
<1>2. /\ \A t : Quality!Row(t).of = where
      /\ Quality!FailedRow.of = where
  BY DEF Quality!Row, Quality!FailedRow, Quality!Current
<1>. HIDE DEF where
<1>3. CASE answers = [q \in S |-> Quality!Row(UsualText)]
  BY <1>1, <1>2, <1>3
<1>4. CASE \E odd \in S, answer \in {Quality!FailedRow} \cup {Quality!Row(t) : t \in Texts} :
              answers = [q \in S |-> IF q = odd THEN answer ELSE Quality!Row(UsualText)]
  <2>1. PICK odd \in S, answer \in {Quality!FailedRow} \cup {Quality!Row(t) : t \in Texts} :
              answers = [q \in S |-> IF q = odd THEN answer ELSE Quality!Row(UsualText)]
    BY <1>4
  <2>2. answer.of = where
    BY <1>2
  <2>. QED
    BY <1>1, <1>2, <2>1, <2>2
<1>. QED
  BY <1>3, <1>4 DEF Quality!Answered

LEMMA CollectSystemKeeps ==
    ASSUME Evaluated, Quality!CollectSystem
    PROVE  Evaluated'
<1>1. /\ step = "looking" /\ step' = "collected" /\ systems # <<>>
      /\ rows' \in Quality!Answered(Questions)
      /\ responses' = responses /\ judgeCache' = judgeCache /\ command' = command
      /\ systems' = systems /\ collected' = collected /\ scores' = scores
  BY DEF Quality!CollectSystem, Quality!files
<1>2. GivenUnder(rows', AnswersUnder(command, Head(systems)))
  BY <1>1, AnsweredFacts DEF GivenUnder
<1>. QED
  BY <1>1, <1>2, RowsKeepEvaluated

LEMMA RetryFailedRowsKeeps ==
    ASSUME Evaluated, Quality!RetryFailedRows
    PROVE  Evaluated'
<1>1. /\ step = "collected" /\ step' = "collected"
      /\ responses' = responses /\ judgeCache' = judgeCache /\ command' = command
      /\ systems' = systems /\ collected' = collected /\ scores' = scores
      /\ \E answers \in Quality!Answered(Quality!FailedOf(rows)) :
            rows' = [q \in Questions |-> IF q \in DOMAIN answers THEN answers[q] ELSE rows[q]]
  BY DEF Quality!RetryFailedRows, Quality!files
<1>2. systems # <<>> /\ GivenUnder(rows, AnswersUnder(command, Head(systems)))
  BY <1>1 DEF Evaluated, Occupied, AnswersOwn
<1>3. PICK answers \in Quality!Answered(Quality!FailedOf(rows)) :
            rows' = [q \in Questions |-> IF q \in DOMAIN answers THEN answers[q] ELSE rows[q]]
  BY <1>1
<1>4. \A q \in DOMAIN answers : answers[q].of = AnswersUnder(command, Head(systems))
  BY AnsweredFacts
<1>5. GivenUnder(rows', AnswersUnder(command, Head(systems)))
  BY <1>2, <1>3, <1>4 DEF GivenUnder
<1>. QED
  BY <1>1, <1>2, <1>5, RowsKeepEvaluated

LEMMA BeginSavingKeeps ==
    ASSUME Evaluated, Quality!BeginSaving
    PROVE  Evaluated'
<1>1. /\ step = "collected" /\ step' = "saving"
      /\ responses' = [responses EXCEPT ![Head(systems)] = Torn]
      /\ judgeCache' = judgeCache /\ command' = command /\ rows' = rows
      /\ systems' = systems /\ collected' = collected /\ scores' = scores
  BY DEF Quality!BeginSaving, Quality!Current, Quality!memory
<1>2. /\ DOMAIN responses' = DOMAIN responses
      /\ \A s \in DOMAIN responses : responses'[s] = responses[s] \/ responses'[s] = Torn
  BY <1>1
<1>3. Occupied'
  BY <1>1, <1>2 DEF Evaluated, Occupied, Asking, Collecting, Judging
<1>4. AnswersOwn'
  BY <1>1, <1>2 DEF Evaluated, AnswersOwn
<1>5. ScoresOwn'
  BY <1>1 DEF Evaluated, ScoresOwn, Judging
<1>. QED
  BY <1>3, <1>4, <1>5 DEF Evaluated

LEMMA EndSavingKeeps ==
    ASSUME Evaluated, Quality!EndSaving
    PROVE  Evaluated'
<1>. DEFINE c == Head(systems)
            saved == [fingerprint |-> FingerprintOf(command, c), rows |-> rows]
<1>1. /\ step = "saving" /\ step' = "looking"
      /\ responses' = [responses EXCEPT ![c] = saved]
      /\ collected' = [s \in DOMAIN collected \cup {c} |-> IF s = c THEN rows ELSE collected[s]]
      /\ judgeCache' = judgeCache /\ command' = command
      /\ systems' = Tail(systems) /\ scores' = scores
  BY RoutedFacts DEF Quality!EndSaving, Quality!Current
<1>2. /\ command \in Commands /\ systems \in Seq(Systems) /\ systems # <<>>
      /\ DOMAIN collected \cup ToSet(systems) = ToSet(command.systems)
      /\ scores = Nothing
      /\ DOMAIN responses = Quality!AllSystems
  BY <1>1 DEF Evaluated, Occupied, Collecting
<1>3. /\ GivenUnder(rows, AnswersUnder(command, c))
      /\ \A s \in DOMAIN collected : GivenUnder(collected[s], AnswersUnder(command, s))
  BY <1>1 DEF Evaluated, AnswersOwn
<1>4. /\ Tail(systems) \in Seq(Systems)
      /\ ToSet(systems) = {c} \cup ToSet(Tail(systems))
  BY <1>2, HeadAndRest
<1>5. /\ saved.fingerprint = FingerprintOf(command, c) /\ saved.rows = rows
  OBVIOUS
<1>6. /\ DOMAIN responses' = DOMAIN responses
      /\ \A s \in DOMAIN responses : responses'[s] = responses[s] \/ responses'[s] = saved
  BY <1>1
<1>7. /\ DOMAIN collected' = DOMAIN collected \cup {c}
      /\ \A s \in DOMAIN collected' :
            \/ s = c /\ collected'[s] = rows
            \/ s \in DOMAIN collected /\ collected'[s] = collected[s]
  BY <1>1
<1>. HIDE DEF c, saved
<1>8. Occupied'
  <2>1. DOMAIN collected' \cup ToSet(systems') = ToSet(command'.systems)
    BY <1>1, <1>2, <1>4, <1>7
  <2>. QED
    BY <1>1, <1>2, <1>4, <1>6, <2>1 DEF Occupied, Asking, Collecting, Judging
<1>9. AnswersOwn'
  <2>1. \A s \in DOMAIN responses' : responses'[s] \notin {NoFile, Torn} =>
            GivenUnder(responses'[s].rows,
                       <<responses'[s].fingerprint[2], responses'[s].fingerprint[3]>>)
    <3>1. SUFFICES ASSUME NEW s \in DOMAIN responses, responses'[s] \notin {NoFile, Torn}
                   PROVE  GivenUnder(responses'[s].rows,
                              <<responses'[s].fingerprint[2], responses'[s].fingerprint[3]>>)
      BY <1>6
    <3>2. CASE responses'[s] = responses[s]
      BY <3>1, <3>2 DEF Evaluated, AnswersOwn
    <3>3. CASE responses'[s] = saved
      BY <1>3, <1>5, <3>3, RoutedFacts
    <3>. QED
      BY <1>6, <3>2, <3>3
  <2>2. \A s \in DOMAIN collected' : GivenUnder(collected'[s], AnswersUnder(command', s))
    BY <1>1, <1>3, <1>7
  <2>. QED
    BY <1>1, <2>1, <2>2 DEF AnswersOwn
<1>10. ScoresOwn'
  BY <1>1 DEF Evaluated, ScoresOwn, Judging
<1>. QED
  BY <1>8, <1>9, <1>10 DEF Evaluated

-----------------------------------------------------------------------------
\* The judge, and the labels the answers have before it.

\* What is scored, of the answers collected.
LEMMA DocumentFacts ==
    /\ Quality!JudgeInput = DocumentOf(command.systems, collected)
    /\ Quality!Mapping = OrderOf(command.systems)
    /\ Quality!Labels = 1 .. Len(command.systems)
    /\ \A item \in ToSet(JudgedItems) :
          /\ DOMAIN DocumentOf(command.systems, collected)[item] = 1 .. Len(command.systems)
          /\ \A l \in 1 .. Len(command.systems) :
                DocumentOf(command.systems, collected)[item][l]
                   = collected[OrderOf(command.systems)[item][l]][item].text
<1>1. Quality!Labels = 1 .. Len(command.systems)
  BY DEF Quality!Labels
<1>2. Quality!Mapping = OrderOf(command.systems)
  BY DEF Quality!Mapping, OrderOf, Quality!Labels, ToSet, Quality!ToSet
<1>3. Quality!JudgeInput = DocumentOf(command.systems, collected)
  BY <1>1, <1>2 DEF Quality!JudgeInput, DocumentOf, ToSet, Quality!ToSet
<1>4. \A item \in ToSet(JudgedItems) :
          /\ DOMAIN DocumentOf(command.systems, collected)[item] = 1 .. Len(command.systems)
          /\ \A l \in 1 .. Len(command.systems) :
                DocumentOf(command.systems, collected)[item][l]
                   = collected[OrderOf(command.systems)[item][l]][item].text
  BY DEF DocumentOf
<1>. QED
  BY <1>1, <1>2, <1>3, <1>4

\* Steps of the judge that change neither answers nor scores.
LEMMA JudgingKeepsEvaluated ==
    ASSUME Evaluated, step \in Judging, step' \in Judging \ {"validated"},
           UNCHANGED <<responses, command, systems, rows, collected, scores>>,
           judgeCache' \notin {NoFile, Torn} => Fair(judgeCache'.scores, judgeCache'.fingerprint[1])
    PROVE  Evaluated'
<1>1. /\ responses' = responses /\ command' = command
      /\ systems' = systems /\ rows' = rows /\ collected' = collected /\ scores' = scores
  OBVIOUS
<1>2. Occupied'
  BY <1>1 DEF Evaluated, Occupied, Asking, Collecting, Judging
<1>3. AnswersOwn'
  BY <1>1 DEF Evaluated, AnswersOwn, Judging
<1>4. ScoresOwn'
  BY <1>1 DEF Evaluated, ScoresOwn, Judging
<1>. QED
  BY <1>2, <1>3, <1>4 DEF Evaluated

\* Scores that are taken from the file or from the judge.
LEMMA ScoresKeepEvaluated ==
    ASSUME Evaluated, step = "looking", systems = <<>>, step' \in {"judged", "scored"},
           UNCHANGED <<responses, judgeCache, command, systems, rows, collected>>,
           Fair(scores', DocumentOf(command.systems, collected))
    PROVE  Evaluated'
<1>1. /\ responses' = responses /\ judgeCache' = judgeCache /\ command' = command
      /\ systems' = systems /\ rows' = rows /\ collected' = collected
  OBVIOUS
<1>2. Occupied'
  BY <1>1 DEF Evaluated, Occupied, Asking, Collecting, Judging
<1>3. AnswersOwn'
  BY <1>1 DEF Evaluated, AnswersOwn
<1>4. ScoresOwn'
  BY <1>1 DEF Evaluated, ScoresOwn, Judging
<1>. QED
  BY <1>2, <1>3, <1>4 DEF Evaluated

LEMMA ReuseScoresKeeps ==
    ASSUME Evaluated, Quality!ReuseScores
    PROVE  Evaluated'
<1>1. CASE judgeCache = Torn
  BY <1>1, EndKeepsEvaluated DEF Quality!ReuseScores, Quality!files
<1>2. CASE judgeCache # Torn
  <2>1. /\ step = "looking" /\ systems = <<>> /\ step' = "scored"
        /\ judgeCache # NoFile
        /\ judgeCache.fingerprint = Quality!JudgeFingerprint(Quality!JudgeInput)
        /\ scores' = judgeCache.scores
        /\ responses' = responses /\ judgeCache' = judgeCache /\ command' = command
        /\ systems' = systems /\ rows' = rows /\ collected' = collected
    BY <1>2 DEF Quality!ReuseScores, Quality!JudgeInUse, Quality!Outdated, Quality!files
  <2>2. judgeCache.fingerprint[1] = DocumentOf(command.systems, collected)
    BY <2>1, DocumentFacts DEF Quality!JudgeFingerprint
  <2>3. Fair(scores', DocumentOf(command.systems, collected))
    BY <1>2, <2>1, <2>2 DEF Evaluated, ScoresOwn
  <2>. QED
    BY <2>1, <2>3, ScoresKeepEvaluated
<1>. QED
  BY <1>1, <1>2

LEMMA RunCodexJudgeKeeps ==
    ASSUME Evaluated, Quality!RunCodexJudge
    PROVE  Evaluated'
<1>1. /\ step = "looking" /\ systems = <<>> /\ step' = "judged"
      /\ \E wrong \in BOOLEAN :
            scores' = [item \in ToSet(JudgedItems) |->
                          [l \in Quality!Labels |->
                              IF wrong THEN 0 ELSE Quality!Score(Quality!JudgeInput[item][l])]]
      /\ responses' = responses /\ judgeCache' = judgeCache /\ command' = command
      /\ systems' = systems /\ rows' = rows /\ collected' = collected
  BY DEF Quality!RunCodexJudge, Quality!files, ToSet, Quality!ToSet
<1>2. PICK wrong \in BOOLEAN :
            scores' = [item \in ToSet(JudgedItems) |->
                          [l \in Quality!Labels |->
                              IF wrong THEN 0 ELSE Quality!Score(Quality!JudgeInput[item][l])]]
  BY <1>1
<1>3. PICK doc : doc = DocumentOf(command.systems, collected)
  OBVIOUS
<1>4. /\ Quality!JudgeInput = doc
      /\ \A item \in ToSet(JudgedItems) : DOMAIN doc[item] = Quality!Labels
  BY <1>3, DocumentFacts
<1>5. /\ DOMAIN scores' = ToSet(JudgedItems)
      /\ \A item \in ToSet(JudgedItems) : \A l \in DOMAIN doc[item] :
            scores'[item][l] = 0 \/ scores'[item][l] = Quality!Score(doc[item][l])
  BY <1>2, <1>4
<1>6. Fair(scores', doc)
  BY <1>5 DEF Fair
<1>. QED
  BY <1>1, <1>3, <1>6, ScoresKeepEvaluated

LEMMA CachingKeeps ==
    ASSUME Evaluated, Quality!BeginCaching \/ Quality!EndCaching
    PROVE  Evaluated'
<1>1. /\ step \in {"judged", "caching"} /\ step' \in {"caching", "scored"}
      /\ responses' = responses /\ command' = command
      /\ systems' = systems /\ rows' = rows /\ collected' = collected /\ scores' = scores
      /\ \/ judgeCache' = Torn
         \/ judgeCache' = [fingerprint |-> Quality!JudgeFingerprint(Quality!JudgeInput),
                           scores |-> scores]
  BY DEF Quality!BeginCaching, Quality!EndCaching, Quality!memory
<1>2. Fair(scores, DocumentOf(command.systems, collected))
  BY <1>1 DEF Evaluated, ScoresOwn, Judging
<1>3. Quality!JudgeFingerprint(Quality!JudgeInput)[1] = DocumentOf(command.systems, collected)
  BY DocumentFacts DEF Quality!JudgeFingerprint
<1>4. judgeCache' \notin {NoFile, Torn} => Fair(judgeCache'.scores, judgeCache'.fingerprint[1])
  BY <1>1, <1>2, <1>3
<1>5. step \in Judging /\ step' \in Judging \ {"validated"}
  BY <1>1 DEF Judging
<1>. QED
  BY <1>1, <1>4, <1>5, JudgingKeepsEvaluated

\* What passes the validation is in range, and so it is what the judge gave.
LEMMA ValidationKeeps ==
    ASSUME Evaluated, Quality!ValidateJudgeScores
    PROVE  Evaluated'
<1>1. CASE \A item \in DOMAIN scores : \A l \in Quality!Labels : scores[item][l] \in 1 .. 10
  <2>1. /\ step = "scored" /\ step' = "validated"
        /\ responses' = responses /\ judgeCache' = judgeCache /\ command' = command
        /\ systems' = systems /\ rows' = rows /\ collected' = collected /\ scores' = scores
    BY <1>1 DEF Quality!ValidateJudgeScores, Quality!files, Quality!memory
  <2>2. PICK doc : doc = DocumentOf(command.systems, collected)
    OBVIOUS
  <2>3. /\ Fair(scores, doc)
        /\ \A item \in ToSet(JudgedItems) : DOMAIN doc[item] = 1 .. Len(command.systems)
        /\ Quality!Labels = 1 .. Len(command.systems)
    BY <2>1, <2>2, DocumentFacts DEF Evaluated, ScoresOwn, Judging
  <2>4. 0 \notin 1 .. 10
    OBVIOUS
  <2>5. \A item \in ToSet(JudgedItems) : \A l \in 1 .. Len(command.systems) :
            scores[item][l] = Quality!Score(doc[item][l])
    BY <1>1, <2>3, <2>4 DEF Fair
  <2>6. Occupied'
    BY <2>1 DEF Evaluated, Occupied, Asking, Collecting, Judging
  <2>7. AnswersOwn'
    BY <2>1 DEF Evaluated, AnswersOwn
  <2>8. ScoresOwn'
    BY <2>1, <2>2, <2>3, <2>5 DEF Evaluated, ScoresOwn
  <2>. QED
    BY <2>6, <2>7, <2>8 DEF Evaluated
<1>2. CASE ~ \A item \in DOMAIN scores : \A l \in Quality!Labels : scores[item][l] \in 1 .. 10
  <2>1. Quality!End /\ UNCHANGED Quality!files
    BY <1>2 DEF Quality!ValidateJudgeScores
  <2>. QED
    BY <2>1, EndKeepsEvaluated DEF Quality!files
<1>. QED
  BY <1>1, <1>2

LEMMA BeginReportKeeps ==
    ASSUME Evaluated, Quality!BeginReport
    PROVE  Evaluated'
<1>1. /\ step \in {"validated", "looking"} /\ step' = "reporting"
      /\ step = "looking" => systems = <<>>
      /\ responses' = responses /\ judgeCache' = judgeCache /\ command' = command
      /\ systems' = systems /\ rows' = rows /\ collected' = collected /\ scores' = scores
  BY DEF Quality!BeginReport, Quality!memory
<1>2. Occupied'
  BY <1>1 DEF Evaluated, Occupied, Asking, Collecting, Judging
<1>3. AnswersOwn'
  BY <1>1 DEF Evaluated, AnswersOwn
<1>4. step = "looking" => scores = Nothing
  BY DEF Evaluated, Occupied, Collecting
<1>5. ScoresOwn'
  BY <1>1, <1>4 DEF Evaluated, ScoresOwn, Judging
<1>. QED
  BY <1>2, <1>3, <1>5 DEF Evaluated

\* Division with a remainder, which is unique.
LEMMA Division ==
    ASSUME NEW n \in Nat \ {0}, NEW x \in Nat
    PROVE  /\ x = n * (x \div n) + (x % n)
           /\ x \div n \in Int /\ x % n \in 0 .. n - 1
OBVIOUS

LEMMA QuotientIsLess ==
    ASSUME NEW n \in Nat \ {0}, NEW a \in Int, NEW b \in Int, NEW r \in 0 .. n - 1,
           NEW s \in 0 .. n - 1, n * a + r = n * b + s
    PROVE  a <= b
<1>1. SUFFICES ASSUME a - b >= 1 PROVE FALSE
  OBVIOUS
<1>2. n * (a - b) >= n
  <2>1. ASSUME NEW d \in Int, d >= 1 PROVE n * d >= n
    BY <2>1
  <2>. QED
    BY <1>1, <2>1
<1>3. n * (a - b) = n * a - n * b /\ n * a \in Int /\ n * b \in Int
  OBVIOUS
<1>. QED
  BY <1>2, <1>3

LEMMA OnceRound ==
    ASSUME NEW n \in Nat \ {0}, NEW x \in Nat
    PROVE  (x + n) % n = x % n
<1>. DEFINE
    a == (x + n) \div n
    b == x \div n
    r == (x + n) % n
    s == x % n
<1>1. /\ x + n = n * a + r /\ a \in Int /\ r \in 0 .. n - 1
      /\ x = n * b + s /\ b \in Int /\ s \in 0 .. n - 1
  <2>1. x + n \in Nat
    OBVIOUS
  <2>2. x + n = n * a + r /\ a \in Int /\ r \in 0 .. n - 1
    BY <2>1, Division
  <2>3. x = n * b + s /\ b \in Int /\ s \in 0 .. n - 1
    BY Division
  <2>. QED
    BY <2>2, <2>3
<1>. HIDE DEF a, b, r, s
<1>2. n * (b + 1) = n * b + n /\ n * b \in Int /\ b + 1 \in Int
  BY <1>1
<1>3. n * a + r = n * (b + 1) + s
  BY <1>1, <1>2
<1>4. a <= b + 1 /\ b + 1 <= a
  BY <1>1, <1>2, <1>3, QuotientIsLess
<1>5. a = b + 1
  BY <1>1, <1>4
<1>. QED
  BY <1>1, <1>2, <1>3, <1>5 DEF r, s

\* Turned by any number, labels still reach every place.
LEMMA Rotation ==
    ASSUME NEW n \in Nat \ {0}, NEW c \in Nat, NEW k \in 1 .. n
    PROVE  \E l \in 1 .. n : 1 + ((l + c) % n) = k
<1>. DEFINE Reached == {d \in Nat : \A m \in 0 .. n - 1 : \E l \in 1 .. n : (l + d) % n = m}
<1>1. 0 \in Reached
  <2>1. SUFFICES ASSUME NEW m \in 0 .. n - 1 PROVE \E l \in 1 .. n : (l + 0) % n = m
    OBVIOUS
  <2>2. CASE m = 0
    <3>1. (n + 0) % n = 0
      OBVIOUS
    <3>. QED
      BY <2>2, <3>1
  <2>3. CASE m # 0
    <3>1. m \in 1 .. n /\ (m + 0) % n = m
      BY <2>3
    <3>. QED
      BY <3>1
  <2>. QED
    BY <2>2, <2>3
<1>2. ASSUME NEW d \in Nat, d \in Reached PROVE d + 1 \in Reached
  <2>1. SUFFICES ASSUME NEW m \in 0 .. n - 1 PROVE \E l \in 1 .. n : (l + (d + 1)) % n = m
    OBVIOUS
  <2>2. PICK l \in 1 .. n : (l + d) % n = m
    BY <1>2
  <2>3. CASE l = 1
    <3>1. n + (d + 1) = (l + d) + n /\ l + d \in Nat
      BY <2>3
    <3>2. ((l + d) + n) % n = (l + d) % n
      BY <3>1, OnceRound
    <3>3. (n + (d + 1)) % n = m
      BY <2>2, <3>1, <3>2
    <3>. QED
      BY <3>3
  <2>4. CASE l # 1
    <3>1. l - 1 \in 1 .. n /\ (l - 1) + (d + 1) = l + d
      BY <2>4
    <3>. QED
      BY <2>2, <3>1
  <2>. QED
    BY <2>3, <2>4
<1>. HIDE DEF Reached
<1>3. c \in Reached
  BY <1>1, <1>2, AllNaturals
<1>4. k - 1 \in 0 .. n - 1
  OBVIOUS
<1>5. PICK l \in 1 .. n : (l + c) % n = k - 1
  BY <1>3, <1>4 DEF Reached
<1>6. 1 + ((l + c) % n) = k
  BY <1>5
<1>. QED
  BY <1>6

\* The label a system has in an item.
LEMMA EverySystemIsScored ==
    ASSUME NEW ss \in Seq(Systems), NEW s \in ToSet(ss), NEW item \in ToSet(JudgedItems)
    PROVE  /\ (CHOOSE l \in 1 .. Len(ss) : OrderOf(ss)[item][l] = s) \in 1 .. Len(ss)
           /\ OrderOf(ss)[item][CHOOSE l \in 1 .. Len(ss) : OrderOf(ss)[item][l] = s] = s
<1>1. PICK c : c = Quality!NumberOf(item)
  OBVIOUS
<1>2. c \in Nat
  <2>1. /\ JudgedItems \in Seq(Questions)
        /\ DOMAIN JudgedItems = 1 .. Len(JudgedItems) /\ Len(JudgedItems) \in Nat
    BY QualityAssumption, LenProperties
  <2>2. \E i \in DOMAIN JudgedItems : JudgedItems[i] = item
    BY DEF ToSet
  <2>3. c \in DOMAIN JudgedItems
    BY <1>1, <2>2 DEF Quality!NumberOf
  <2>. QED
    BY <2>1, <2>3
<1>3. DOMAIN ss = 1 .. Len(ss) /\ Len(ss) \in Nat
  BY LenProperties
<1>4. PICK k \in 1 .. Len(ss) : ss[k] = s
  BY <1>3 DEF ToSet
<1>5. Len(ss) \in Nat \ {0}
  BY <1>3, <1>4
<1>6. PICK l \in 1 .. Len(ss) : 1 + ((l + c) % Len(ss)) = k
  BY <1>2, <1>5, Rotation
<1>7. OrderOf(ss)[item][l] = ss[1 + ((l + c) % Len(ss))]
  BY <1>1 DEF OrderOf
<1>8. OrderOf(ss)[item][l] = s
  BY <1>4, <1>6, <1>7
<1>. QED
  BY <1>8

\* The sum of a system's scores is the one its own answers come to.
LEMMA MeansAreOwn ==
    ASSUME Evaluated, step = "reporting", scores # Nothing, NEW s \in ToSet(command.systems)
    PROVE  Quality!JudgeMeans[s] = <<Quality!OwnScore(collected[s]), Len(JudgedItems)>>
<1>. DEFINE
    place(item) == CHOOSE l \in 1 .. Len(command.systems) : OrderOf(command.systems)[item][l] = s
    f == [i \in DOMAIN JudgedItems |-> scores[JudgedItems[i]][place(JudgedItems[i])]]
    g == [i \in DOMAIN JudgedItems |-> Quality!Score(collected[s][JudgedItems[i]].text)]
<1>1. command.systems \in Seq(Systems)
  BY QualityAssumption DEF Evaluated, Occupied
<1>2. ASSUME NEW item \in ToSet(JudgedItems)
      PROVE  scores[item][place(item)] = Quality!Score(collected[s][item].text)
  <2>1. PICK l : l = place(item)
    OBVIOUS
  <2>2. l \in 1 .. Len(command.systems) /\ OrderOf(command.systems)[item][l] = s
    <3>1. ASSUME NEW ss \in Seq(Systems), s \in ToSet(ss)
          PROVE  LET k == CHOOSE k \in 1 .. Len(ss) : OrderOf(ss)[item][k] = s
                 IN  k \in 1 .. Len(ss) /\ OrderOf(ss)[item][k] = s
      BY <3>1, EverySystemIsScored
    <3>2. PICK ss : ss = command.systems
      OBVIOUS
    <3>. QED
      BY <1>1, <2>1, <3>1, <3>2
  <2>3. scores[item][l] = Quality!Score(DocumentOf(command.systems, collected)[item][l])
    BY <2>2 DEF Evaluated, ScoresOwn
  <2>4. DocumentOf(command.systems, collected)[item][l] = collected[s][item].text
    BY <2>2, DocumentFacts
  <2>. QED
    BY <2>1, <2>3, <2>4
<1>3. \A i \in DOMAIN JudgedItems : JudgedItems[i] \in ToSet(JudgedItems)
  BY DEF ToSet
<1>. HIDE DEF place
<1>4. \A i \in DOMAIN JudgedItems : f[i] = g[i]
  BY <1>2, <1>3
<1>5. f = g
  BY <1>4
<1>6. Quality!JudgeMeans[s] = <<Quality!SumOf(f), Len(JudgedItems)>>
  <2>1. /\ Quality!Mapping = OrderOf(command.systems)
        /\ Quality!Labels = 1 .. Len(command.systems)
        /\ Quality!ToSet(command.systems) = ToSet(command.systems)
    BY DocumentFacts DEF ToSet, Quality!ToSet
  <2>. QED
    BY <2>1 DEF Quality!JudgeMeans, place
<1>7. Quality!OwnScore(collected[s]) = Quality!SumOf(g)
  BY DEF Quality!OwnScore
<1>. HIDE DEF f, g
<1>. QED
  BY <1>5, <1>6, <1>7

LEMMA EndReportKeeps ==
    ASSUME Evaluated, Quality!EndReport
    PROVE  Evaluated' /\ EvaluationOfOwnAnswers'
<1>1. /\ step = "reporting" /\ Quality!End
      /\ responses' = responses /\ judgeCache' = judgeCache
  BY DEF Quality!EndReport
<1>2. Evaluated'
  BY <1>1, EndKeepsEvaluated
<1>3. PICK e : e = evaluation'
  OBVIOUS
<1>4. /\ DOMAIN e.scored = DOMAIN collected
      /\ \A s \in DOMAIN collected : e.scored[s] = Quality!FailedOf(collected[s])
      /\ e.judge = IF scores = Nothing THEN Nothing ELSE Quality!JudgeMeans
      /\ e.answers = collected
      /\ \A s \in DOMAIN collected : e.under[s] = AnswersUnder(command, s)
  BY <1>3, RoutedFacts DEF Quality!EndReport, Quality!Failures, Quality!Nothing, Nothing
<1>5. /\ command \in Commands /\ systems = <<>>
      /\ DOMAIN collected \subseteq ToSet(command.systems)
      /\ \A s \in DOMAIN collected : GivenUnder(collected[s], AnswersUnder(command, s))
  BY <1>1 DEF Evaluated, Occupied, AnswersOwn
<1>6. ASSUME NEW s \in DOMAIN e.scored
      PROVE  /\ \A q \in Questions : e.answers[s][q].of = e.under[s]
             /\ e.scored[s] = Quality!FailedOf(e.answers[s])
             /\ e.judge # Nothing =>
                   e.judge[s] = <<Quality!OwnScore(e.answers[s]), Len(JudgedItems)>>
  <2>1. \A q \in Questions : e.answers[s][q].of = e.under[s]
    BY <1>4, <1>5, <1>6 DEF GivenUnder
  <2>2. e.scored[s] = Quality!FailedOf(e.answers[s])
    BY <1>4, <1>6
  <2>3. ASSUME e.judge # Nothing
        PROVE  e.judge[s] = <<Quality!OwnScore(e.answers[s]), Len(JudgedItems)>>
    <3>1. scores # Nothing /\ e.judge = Quality!JudgeMeans /\ s \in ToSet(command.systems)
      BY <1>4, <1>5, <1>6, <2>3
    <3>. QED
      BY <1>1, <1>4, <3>1, MeansAreOwn
  <2>. QED
    BY <2>1, <2>2, <2>3
<1>7. EvaluationOfOwnAnswers'
  BY <1>3, <1>6 DEF EvaluationOfOwnAnswers, Quality!EvaluationOfOwnAnswers, Quality!Nothing,
                    Nothing
<1>. QED
  BY <1>2, <1>7

LEMMA EvaluationStep ==
    ASSUME Evaluated, EvaluationOfOwnAnswers, Quality!Next
    PROVE  Evaluated' /\ EvaluationOfOwnAnswers'
<1>1. ASSUME NEW c \in Commands, Quality!Start(c)
      PROVE  Evaluated' /\ EvaluationOfOwnAnswers'
  <2>1. evaluation' = evaluation
    BY <1>1 DEF Quality!Start, Quality!files
  <2>. QED
    BY <1>1, <2>1, StartEvaluation, ReportStays
<1>2. CASE Quality!UseQuestions
  <2>1. UNCHANGED <<responses, judgeCache, evaluation>>
    BY <1>2 DEF Quality!UseQuestions, Quality!files
  <2>2. CASE questions = Torn
    BY <1>2, <2>1, <2>2, EndKeepsEvaluated, ReportStays DEF Quality!UseQuestions
  <2>3. CASE questions # Torn
    <3>1. /\ step \in Asking /\ step' \in Asking \cup {"looking"}
          /\ UNCHANGED <<command, systems, rows, collected, scores>>
      BY <1>2, <2>3 DEF Quality!UseQuestions, Quality!memory, Asking
    <3>. QED
      BY <2>1, <3>1, AskingKeepsEvaluated, ReportStays
  <2>. QED
    BY <2>2, <2>3
<1>3. CASE Quality!BeginFetch \/ Quality!EndFetch
  <2>1. /\ step \in Asking /\ step' \in Asking \cup {"looking"}
        /\ UNCHANGED <<responses, judgeCache, evaluation>>
        /\ UNCHANGED <<command, systems, rows, collected, scores>>
    BY <1>3 DEF Quality!BeginFetch, Quality!EndFetch, Quality!memory, Asking
  <2>. QED
    BY <2>1, AskingKeepsEvaluated, ReportStays
<1>4. CASE Quality!ReuseResponses \/ Quality!CollectSystem \/ Quality!RetryFailedRows
  <2>1. evaluation' = evaluation
    BY <1>4 DEF Quality!ReuseResponses, Quality!CollectSystem, Quality!RetryFailedRows, Quality!files
  <2>. QED
    BY <1>4, <2>1, ReuseResponsesKeeps, CollectSystemKeeps, RetryFailedRowsKeeps, ReportStays
<1>5. CASE Quality!RefuseResponses \/ Quality!Crash
           \/ \E place \in {"asking", "looking", "collected"} : Quality!Fails(place)
  <2>1. Quality!End /\ UNCHANGED <<responses, judgeCache, evaluation>>
    BY <1>5 DEF Quality!RefuseResponses, Quality!Crash, Quality!Fails, Quality!files
  <2>. QED
    BY <2>1, EndKeepsEvaluated, ReportStays
<1>6. CASE Quality!BeginSaving \/ Quality!EndSaving
  <2>1. evaluation' = evaluation
    BY <1>6 DEF Quality!BeginSaving, Quality!EndSaving
  <2>. QED
    BY <1>6, <2>1, BeginSavingKeeps, EndSavingKeeps, ReportStays
<1>7. CASE Quality!ReuseScores \/ Quality!RunCodexJudge \/ Quality!ValidateJudgeScores
  <2>1. evaluation' = evaluation
    BY <1>7 DEF Quality!ReuseScores, Quality!RunCodexJudge, Quality!ValidateJudgeScores, Quality!files
  <2>. QED
    BY <1>7, <2>1, ReuseScoresKeeps, RunCodexJudgeKeeps, ValidationKeeps, ReportStays
<1>8. CASE Quality!BeginCaching \/ Quality!EndCaching
  <2>1. evaluation' = evaluation
    BY <1>8 DEF Quality!BeginCaching, Quality!EndCaching
  <2>. QED
    BY <1>8, <2>1, CachingKeeps, ReportStays
<1>9. CASE Quality!BeginReport
  <2>1. EvaluationOfOwnAnswers'
    BY <1>9 DEF Quality!BeginReport, EvaluationOfOwnAnswers, Quality!EvaluationOfOwnAnswers
  <2>. QED
    BY <1>9, <2>1, BeginReportKeeps
<1>10. CASE Quality!EndReport
  BY <1>10, EndReportKeeps
<1>. QED
  BY <1>1, <1>2, <1>3, <1>4, <1>5, <1>6, <1>7, <1>8, <1>9, <1>10 DEF Quality!Next

\* Answers and scores in the files of the evaluation, and those a run holds, are those of
\* the systems, conditions and texts they are kept for.
THEOREM EvaluatedInvariance == SuiteSpec => [](Evaluated /\ EvaluationOfOwnAnswers)
<1>1. SuiteInit => Evaluated /\ EvaluationOfOwnAnswers
  <2>1. SUFFICES ASSUME SuiteInit PROVE Evaluated /\ EvaluationOfOwnAnswers
    OBVIOUS
  <2>2. /\ responses = [s \in Quality!AllSystems |-> NoFile] /\ judgeCache = NoFile
        /\ evaluation = NoFile /\ step = "idle" /\ collected = Nothing /\ scores = Nothing
    BY <2>1 DEF SuiteInit, Quality!Init, Quality!Nothing, Nothing
  <2>3. Occupied
    BY <2>2 DEF Occupied, Asking, Collecting, Judging
  <2>4. AnswersOwn
    BY <2>2 DEF AnswersOwn
  <2>5. ScoresOwn
    BY <2>2 DEF ScoresOwn, Judging
  <2>6. EvaluationOfOwnAnswers
    BY <2>2 DEF EvaluationOfOwnAnswers, Quality!EvaluationOfOwnAnswers
  <2>. QED
    BY <2>3, <2>4, <2>5, <2>6 DEF Evaluated
<1>2. Evaluated /\ EvaluationOfOwnAnswers /\ [BenchmarkStep \/ QualityStep]_suiteVars
        => (Evaluated /\ EvaluationOfOwnAnswers)'
  <2>1. SUFFICES ASSUME Evaluated, EvaluationOfOwnAnswers, [BenchmarkStep \/ QualityStep]_suiteVars
                 PROVE  Evaluated' /\ EvaluationOfOwnAnswers'
    OBVIOUS
  <2>2. CASE BenchmarkStep
    <3>1. UNCHANGED evaluationVars
      BY <2>2 DEF BenchmarkStep, qualityOnly, evaluationVars
    <3>. QED
      BY <2>1, <3>1, EvaluationUnchanged
  <2>3. CASE QualityStep
    BY <2>1, <2>3, EvaluationStep DEF QualityStep
  <2>4. CASE UNCHANGED suiteVars
    <3>1. UNCHANGED evaluationVars
      BY <2>4 DEF suiteVars, qualityOnly, evaluationVars
    <3>. QED
      BY <2>1, <3>1, EvaluationUnchanged
  <2>. QED
    BY <2>1, <2>2, <2>3, <2>4
<1>. QED
  BY <1>1, <1>2, PTL DEF SuiteSpec, suiteVars

\* The report of the evaluation says of a system what its own answers, given under the
\* conditions of that run, came to (response_fingerprint, judge_fingerprint, judge_means).
THEOREM EvaluationsAreOwn == SuiteSpec => []EvaluationOfOwnAnswers
BY EvaluatedInvariance, PTL

-----------------------------------------------------------------------------
\* Types: what is counted stays within its bounds, and files have their shape.

LEMMA MembersAreFinite ==
    ASSUME NEW A, NEW s \in Seq(A)
    PROVE  IsFiniteSet(ToSet(s))
<1>1. DOMAIN s = 1 .. Len(s) /\ Len(s) \in Nat /\ ToSet(s) = {s[i] : i \in 1 .. Len(s)}
  BY MembersOf
<1>2. s \in [1 .. Len(s) -> ToSet(s)]
  BY <1>1
<1>3. s \in Surjection(1 .. Len(s), ToSet(s))
  BY <1>1, <1>2 DEF Surjection
<1>4. IsFiniteSet(1 .. Len(s))
  BY <1>1, FS_Interval
<1>. QED
  BY <1>3, <1>4, FS_Surjection

LEMMA PairsAreFinite ==
    ASSUME NEW A, NEW s \in Seq(A), NEW T, IsFiniteSet(T)
    PROVE  IsFiniteSet(ToSet(s) \X T)
<1>. DEFINE First(n) == {s[i] : i \in 1 .. n}
            Done == {n \in Nat : n <= Len(s) => IsFiniteSet(First(n) \X T)}
<1>1. DOMAIN s = 1 .. Len(s) /\ Len(s) \in Nat /\ ToSet(s) = {s[i] : i \in 1 .. Len(s)}
  BY MembersOf
<1>2. 0 \in Done
  <2>1. First(0) \X T = {}
    OBVIOUS
  <2>. QED
    BY <2>1, FS_EmptySet
<1>3. ASSUME NEW x PROVE IsFiniteSet({x} \X T)
  <2>. DEFINE f == [t \in T |-> <<x, t>>]
  <2>1. f \in [T -> {x} \X T] /\ \A p \in {x} \X T : \E t \in T : f[t] = p
    OBVIOUS
  <2>2. f \in Surjection(T, {x} \X T)
    BY <2>1 DEF Surjection
  <2>. QED
    BY <2>2, FS_Surjection
<1>4. ASSUME NEW n \in Nat, n \in Done PROVE n + 1 \in Done
  <2>1. SUFFICES ASSUME n + 1 <= Len(s) PROVE IsFiniteSet(First(n + 1) \X T)
    OBVIOUS
  <2>2. IsFiniteSet(First(n) \X T)
    BY <1>1, <1>4, <2>1
  <2>3. 1 .. n + 1 = (1 .. n) \cup {n + 1}
    OBVIOUS
  <2>4. First(n + 1) = First(n) \cup {s[n + 1]}
    BY <2>3
  <2>. HIDE DEF First
  <2>5. First(n + 1) \X T = (First(n) \X T) \cup ({s[n + 1]} \X T)
    BY <2>4
  <2>6. IsFiniteSet({s[n + 1]} \X T)
    BY <1>3
  <2>7. IsFiniteSet((First(n) \X T) \cup ({s[n + 1]} \X T))
    BY <2>2, <2>6, FS_Union
  <2>. QED
    BY <2>5, <2>7
<1>. HIDE DEF Done
<1>5. Len(s) \in Done
  BY <1>1, <1>2, <1>4, AllNaturals
<1>. QED
  BY <1>1, <1>5 DEF Done

LEMMA TroublesCounted ==
    ASSUME troubles \in 0 .. MaxTroubles, NEW n \in Nat, Troubled(n)
    PROVE  troubles' \in 0 .. MaxTroubles
BY BenchmarkAssumption DEF Troubled

\* What does not go as usual can be counted, where there is finitely much to go wrong.
LEMMA DeviationsCounted ==
    ASSUME NEW S, IsFiniteSet(S), NEW T, NEW usual, NEW f \in Nearly(S, T, usual)
    PROVE  Deviations(f, usual) \in Nat
<1>1. DOMAIN f = S
  BY DEF Nearly
<1>2. {x \in DOMAIN f : f[x] # usual} \in SUBSET S
  BY <1>1
<1>3. IsFiniteSet({x \in DOMAIN f : f[x] # usual})
  BY <1>2, FS_Subset
<1>. QED
  BY <1>3, FS_CardinalityType DEF Deviations

\* The results of the phase under way.
Filled ==
    /\ \A n \in PhaseSet : cache[n] \in {NoFile, Torn} \/ DOMAIN cache[n] = {"meta", "result"}
    /\ pc \in {"idle", "looking", "starting", "booting", "local", "openai", "judge"} =>
          result = Nothing
    /\ pc = "load" => Stages \in Seq(ToSet(Stages))
    /\ pc \in {"measured", "writing"} => result # Nothing
    /\ DOMAIN outputs \cap ToSet(todo) = {}

\* The bounds of what is counted.
Counted ==
    /\ runs \in 0 .. MaxRuns /\ troubles \in 0 .. MaxTroubles
    /\ pc # "idle" => runs # 0
    /\ gateways \subseteq 1 .. runs /\ killed \subseteq 1 .. runs
    /\ \A f \in FileSet : published[f] \in 0 .. runs

LEMMA PhasesCountTroubles ==
    ASSUME Control, Measured, Filled, troubles \in 0 .. MaxTroubles,
           MeasureLocal \/ MeasureStage \/ FinishLoad \/ AskOpenAi \/ Judge
    PROVE  troubles' \in 0 .. MaxTroubles
<1>1. CASE MeasureLocal
  <2>1. pc = "local" /\ config \in Configs
    BY <1>1 DEF MeasureLocal, Control
  <2>2. IsFiniteSet(DOMAIN Sample)
    BY <2>1, SampleMembers, MembersOf, FS_Interval
  <2>3. PICK answers \in Nearly(DOMAIN Sample, Answers, UsualAnswer) :
            Troubled(Deviations(answers, UsualAnswer))
    BY <1>1 DEF MeasureLocal
  <2>. QED
    BY <2>2, <2>3, DeviationsCounted, TroublesCounted
<1>2. CASE MeasureStage
  <2>1. /\ pc = "load" /\ config \in Configs /\ Len(Stages) < Len(config.levels)
        /\ Stages \in Seq(ToSet(Stages))
    BY <1>2 DEF MeasureStage, Control, Filled
  <2>2. Len(Stages) \in Nat
    BY <2>1, MembersOf
  <2>3. config.levels \in Seq(Nat)
    BY <2>1, BenchmarkAssumption
  <2>4. PICK level : level = config.levels[Len(Stages) + 1]
    OBVIOUS
  <2>5. level \in Nat
    <3>1. Len(config.levels) \in Nat /\ \A i \in 1 .. Len(config.levels) : config.levels[i] \in Nat
      BY <2>3
    <3>2. Len(Stages) + 1 \in 1 .. Len(config.levels)
      BY <2>1, <2>2, <3>1
    <3>. QED
      BY <2>4, <3>1, <3>2
  <2>6. PICK works \in Nearly(1 .. level, Works, UsualWork), watts \in {<<4>>, <<>>},
             ps \in ToSet(Snapshots), idle \in {<<1>>, <<>>} :
            Troubled(Deviations(works, UsualWork)
                     + (IF watts = <<>> THEN 1 ELSE 0)
                     + (IF ps = Snapshots[1] THEN 0 ELSE 1)
                     + (IF Stages = <<>> /\ idle = <<>> THEN 1 ELSE 0))
    BY <1>2, <2>4 DEF MeasureStage
  <2>7. Deviations(works, UsualWork) \in Nat
    <3>1. IsFiniteSet(1 .. level)
      BY <2>5, FS_Interval
    <3>. QED
      BY <2>6, <3>1, DeviationsCounted
  <2>8. PICK n : n = Deviations(works, UsualWork)
                     + (IF watts = <<>> THEN 1 ELSE 0)
                     + (IF ps = Snapshots[1] THEN 0 ELSE 1)
                     + (IF Stages = <<>> /\ idle = <<>> THEN 1 ELSE 0)
    OBVIOUS
  <2>9. n \in Nat
    BY <2>7, <2>8
  <2>. QED
    BY <2>6, <2>8, <2>9, TroublesCounted
<1>3. CASE FinishLoad
  <2>1. PICK missing \in {0, 1} : Troubled(missing)
    BY <1>3 DEF FinishLoad
  <2>. QED
    BY <2>1, TroublesCounted
<1>4. CASE AskOpenAi
  <2>1. pc = "openai" /\ config \in Configs
    BY <1>4 DEF AskOpenAi, Control
  <2>2. config.models \in Seq(Models) /\ IsFiniteSet(DOMAIN Sample) /\ IsFiniteSet(1 .. LoadPrompts)
    BY <2>1, SampleMembers, MembersOf, FS_Interval, BenchmarkAssumption
  <2>3. /\ IsFiniteSet(ToSet(config.models))
        /\ IsFiniteSet(ToSet(config.models) \X DOMAIN Sample)
        /\ IsFiniteSet(ToSet(config.models) \X (1 .. LoadPrompts))
    BY <2>2, MembersAreFinite, PairsAreFinite
  <2>4. PICK chat \in Nearly(ToSet(config.models) \X DOMAIN Sample, Answers, UsualAnswer),
             profile \in Nearly(ToSet(config.models) \X (1 .. LoadPrompts), Answers, UsualAnswer),
             limited \in SUBSET ToSet(config.models),
             available \in {StrongModels \cup ToSet(config.models), ToSet(config.models), {}},
             embedding \in {"whole", "short"} :
            Troubled(Deviations(chat, UsualAnswer) + Deviations(profile, UsualAnswer)
                     + Cardinality(limited)
                     + (IF available \cap StrongModels = {} THEN 1 ELSE 0)
                     + (IF embedding = "whole" THEN 0 ELSE 1))
    BY <1>4 DEF AskOpenAi
  <2>5. /\ Deviations(chat, UsualAnswer) \in Nat /\ Deviations(profile, UsualAnswer) \in Nat
        /\ Cardinality(limited) \in Nat
    BY <2>3, <2>4, DeviationsCounted, FS_Subset, FS_CardinalityType
  <2>6. PICK n : n = Deviations(chat, UsualAnswer) + Deviations(profile, UsualAnswer)
                     + Cardinality(limited)
                     + (IF available \cap StrongModels = {} THEN 1 ELSE 0)
                     + (IF embedding = "whole" THEN 0 ELSE 1)
    OBVIOUS
  <2>7. n \in Nat
    BY <2>5, <2>6
  <2>. QED
    BY <2>4, <2>6, <2>7, TroublesCounted
<1>5. CASE Judge
  <2>1. PICK answers : answers = AnswersToJudge(outputs, config.models)
    OBVIOUS
  <2>2. PICK failed \in SUBSET (1 .. Len(answers) * JudgePasses) : Troubled(Cardinality(failed))
    BY <1>5, <2>1 DEF Judge
  <2>3. Len(answers) \in Nat
    <3>1. answers \in Seq(ToSet(answers))
      BY <1>5, <2>1, JudgedAnswers
    <3>. QED
      BY <3>1, MembersOf
  <2>4. Len(answers) * JudgePasses \in Nat
    BY <2>3, BenchmarkAssumption
  <2>5. IsFiniteSet(1 .. Len(answers) * JudgePasses)
    BY <2>4, FS_Interval
  <2>6. Cardinality(failed) \in Nat
    BY <2>2, <2>5, FS_Subset, FS_CardinalityType
  <2>. QED
    BY <2>2, <2>6, TroublesCounted
<1>. QED
  BY <1>1, <1>2, <1>3, <1>4, <1>5

\* What a step of the benchmark may do to what is counted.
LEMMA StepsCount ==
    ASSUME Control, Next
    PROVE  \/ /\ runs' = runs + 1 /\ runs < MaxRuns
              /\ UNCHANGED <<gateways, killed, published>>
           \/ /\ runs' = runs /\ pc # "idle"
              /\ gateways' \subseteq gateways \cup {runs}
              /\ killed' \subseteq killed \cup {runs}
              /\ \A f \in FileSet : published'[f] \in {published[f], runs}
<1>1. ASSUME NEW c \in Configs, Start(c)
      PROVE  /\ runs' = runs + 1 /\ runs < MaxRuns
             /\ UNCHANGED <<gateways, killed, published>>
  BY <1>1 DEF Start, files
<1>2. CASE Reuse \/ Refuse \/ Produce \/ BeginWriting \/ EndWriting
  BY <1>2 DEF Reuse, Refuse, Produce, BeginWriting, EndWriting, Looking, files
<1>3. CASE StartGateway \/ Healthy \/ StartupFails
  BY <1>3 DEF StartGateway, Healthy, StartupFails, Close, files
<1>4. CASE PhaseFails
  <2>1. pc # "idle"
    BY <1>4, PhasesFacts DEF PhaseFails, PhaseSet
  <2>. QED
    BY <1>4, <2>1 DEF PhaseFails, Close, files
<1>5. CASE MeasureLocal \/ MeasureStage \/ FinishLoad \/ AskOpenAi \/ Judge
  <2>1. CASE MeasureLocal
    BY <2>1 DEF MeasureLocal, Close, files
  <2>2. CASE MeasureStage
    BY <2>2 DEF MeasureStage, files
  <2>3. CASE FinishLoad
    BY <2>3 DEF FinishLoad, Close, files
  <2>4. CASE AskOpenAi
    BY <2>4 DEF AskOpenAi, files
  <2>5. CASE Judge
    BY <2>5 DEF Judge, files
  <2>. QED
    BY <1>5, <2>1, <2>2, <2>3, <2>4, <2>5
<1>6. CASE BuildReport \/ Finish \/ Crash
  BY <1>6 DEF BuildReport, Finish, Crash, files
<1>7. CASE Publish
  <2>1. /\ pc = "publishing" /\ runs' = runs /\ gateways' = gateways /\ killed' = killed
        /\ published' = [published EXCEPT ![Head(todo)] = runs]
    BY <1>7 DEF Publish
  <2>2. DOMAIN published = FileSet
    BY DEF Control
  <2>3. \A f \in FileSet : published'[f] \in {published[f], runs}
    BY <2>1, <2>2
  <2>. QED
    BY <2>1, <2>3
<1>. QED
  BY <1>1, <1>2, <1>3, <1>4, <1>5, <1>6, <1>7 DEF Next

LEMMA StepsCountTroubles ==
    ASSUME Control, Measured, Filled, troubles \in 0 .. MaxTroubles, Next
    PROVE  troubles' \in 0 .. MaxTroubles
<1>1. CASE \E c \in Configs : Start(c)
  BY <1>1 DEF Start
<1>2. CASE Reuse \/ Refuse \/ Produce \/ BeginWriting \/ EndWriting
  BY <1>2 DEF Reuse, Refuse, Produce, BeginWriting, EndWriting
<1>3. CASE StartGateway \/ Healthy
  BY <1>3 DEF StartGateway, Healthy
<1>4. CASE StartupFails \/ PhaseFails \/ Crash
  <2>1. Troubled(1)
    BY <1>4 DEF StartupFails, PhaseFails, Crash
  <2>. QED
    BY <2>1, TroublesCounted
<1>5. CASE MeasureLocal \/ MeasureStage \/ FinishLoad \/ AskOpenAi \/ Judge
  BY <1>5, PhasesCountTroubles
<1>6. CASE BuildReport \/ Publish \/ Finish
  BY <1>6 DEF BuildReport, Publish, Finish
<1>. QED
  BY <1>1, <1>2, <1>3, <1>4, <1>5, <1>6 DEF Next

LEMMA NextKeepsCounted ==
    ASSUME Control, Measured, Filled, Counted, Next
    PROVE  Counted'
<1>1. troubles' \in 0 .. MaxTroubles
  BY StepsCountTroubles DEF Counted
<1>2. /\ runs \in Nat /\ runs <= MaxRuns /\ MaxRuns \in Nat
      /\ gateways \subseteq 1 .. runs /\ killed \subseteq 1 .. runs
      /\ \A f \in FileSet : published[f] \in 0 .. runs
  BY BenchmarkAssumption DEF Counted
<1>3. CASE /\ runs' = runs + 1 /\ runs < MaxRuns
           /\ UNCHANGED <<gateways, killed, published>>
  <2>1. runs' \in 0 .. MaxRuns /\ runs' # 0
    BY <1>2, <1>3
  <2>2. \A x : x \in 1 .. runs => x \in 1 .. runs'
    BY <1>2, <1>3
  <2>3. \A x : x \in 0 .. runs => x \in 0 .. runs'
    BY <1>2, <1>3
  <2>. QED
    BY <1>1, <1>2, <1>3, <2>1, <2>2, <2>3 DEF Counted
<1>4. CASE /\ runs' = runs /\ pc # "idle"
           /\ gateways' \subseteq gateways \cup {runs}
           /\ killed' \subseteq killed \cup {runs}
           /\ \A f \in FileSet : published'[f] \in {published[f], runs}
  <2>1. runs # 0 /\ runs \in 1 .. runs /\ runs \in 0 .. runs
    BY <1>2, <1>4 DEF Counted
  <2>. QED
    BY <1>1, <1>2, <1>4, <2>1 DEF Counted
<1>. QED
  BY <1>3, <1>4, StepsCount

\* A result is there from the end of a phase until it is kept.
LEMMA EndKeepsFilled ==
    ASSUME Filled, End, cache' = cache
    PROVE  Filled'
<1>1. DOMAIN <<>> = {} /\ ToSet(<<>>) = {}
  <2>1. DOMAIN <<>> = {}
    OBVIOUS
  <2>. QED
    BY <2>1 DEF ToSet
<1>2. pc' = "idle" /\ todo' = <<>> /\ outputs' = <<>> /\ result' = Nothing
  BY DEF End, Nothing
<1>. QED
  BY <1>1, <1>2 DEF Filled

LEMMA ResultIsThere ==
    ASSUME NEW r, NEW x, x \in DOMAIN r
    PROVE  r # Nothing
<1>1. DOMAIN Nothing = {}
  BY DEF Nothing
<1>. QED
  BY <1>1

LEMMA MeasuredIsFilled ==
    ASSUME Filled, UNCHANGED <<cache, todo, outputs>>, pc' = "measured", result' # Nothing
    PROVE  Filled'
BY DEF Filled

LEMMA PhasesKeepFilled ==
    ASSUME Control, Filled, MeasureLocal \/ MeasureStage \/ FinishLoad \/ AskOpenAi \/ Judge
    PROVE  Filled'
<1>1. CASE MeasureLocal
  <2>1. "items" \in DOMAIN result'
    BY <1>1 DEF MeasureLocal
  <2>. QED
    BY <1>1, <2>1, ResultIsThere, MeasuredIsFilled DEF MeasureLocal, files
<1>2. CASE MeasureStage
  <2>1. /\ pc = "load" /\ pc' = "load" /\ UNCHANGED <<cache, todo, outputs>>
        /\ \E x : result'.stages = Append(Stages, x) /\ "stages" \in DOMAIN result'
    BY <1>2 DEF MeasureStage, files
  <2>2. PICK x : result'.stages = Append(Stages, x) /\ "stages" \in DOMAIN result'
    BY <2>1
  <2>3. result' # Nothing
    BY <2>2, ResultIsThere
  <2>4. Stages' = Append(Stages, x)
    BY <2>2, <2>3 DEF Stages
  <2>5. PICK s, t : s = Stages /\ t = Append(s, x)
    OBVIOUS
  <2>6. t \in Seq(ToSet(s) \cup {x})
    BY <2>1, <2>5 DEF Filled
  <2>7. t \in Seq(ToSet(t))
    BY <2>6, MembersOf
  <2>8. Stages' \in Seq(ToSet(Stages'))
    BY <2>4, <2>5, <2>7
  <2>. QED
    BY <2>1, <2>8 DEF Filled
<1>3. CASE FinishLoad
  <2>1. "stages" \in DOMAIN result'
    BY <1>3 DEF FinishLoad
  <2>. QED
    BY <1>3, <2>1, ResultIsThere, MeasuredIsFilled DEF FinishLoad, files
<1>4. CASE AskOpenAi
  <2>1. "chat" \in DOMAIN result'
    BY <1>4 DEF AskOpenAi
  <2>. QED
    BY <1>4, <2>1, ResultIsThere, MeasuredIsFilled DEF AskOpenAi, files
<1>5. CASE Judge
  <2>1. cache' = cache
    BY <1>5 DEF Judge, files
  <2>2. End \/ (pc' = "measured" /\ "scores" \in DOMAIN result' /\ UNCHANGED <<todo, outputs>>)
    BY <1>5 DEF Judge
  <2>. QED
    BY <2>1, <2>2, EndKeepsFilled, ResultIsThere, MeasuredIsFilled
<1>. QED
  BY <1>1, <1>2, <1>3, <1>4, <1>5

LEMMA NextKeepsFilled ==
    ASSUME Control, Clean, Filled, Next
    PROVE  Filled'
<1>1. ASSUME NEW c \in Configs, Start(c)
      PROVE  Filled'
  <2>1. /\ pc = "idle" /\ pc' = "looking" /\ cache' = cache /\ outputs' = outputs
        /\ result' = result
    BY <1>1 DEF Start, files
  <2>2. DOMAIN outputs' = {}
    BY <2>1 DEF Control, Nothing
  <2>. QED
    BY <2>1, <2>2 DEF Filled
<1>2. CASE Refuse \/ StartupFails \/ PhaseFails \/ Finish \/ Crash
  <2>1. End /\ cache' = cache
    BY <1>2 DEF Refuse, StartupFails, PhaseFails, Finish, Crash, files
  <2>. QED
    BY <2>1, EndKeepsFilled
<1>3. CASE Reuse \/ EndWriting
  <2>1. /\ pc \in {"looking", "writing"} /\ pc' = "looking" /\ todo # <<>> /\ Ordered(todo)
        /\ todo' = Tail(todo)
        /\ \E r : outputs' = With(outputs, Head(todo), r)
    <3>1. CASE Reuse
      BY <3>1 DEF Reuse, Looking, Current, Control, Underway
    <3>2. CASE EndWriting
      BY <3>2 DEF EndWriting, Current, Control, Underway, Producing
    <3>. QED
      BY <1>3, <3>1, <3>2
  <2>2. DOMAIN outputs' \cap ToSet(todo') = {}
    <3>1. DOMAIN outputs' = DOMAIN outputs \cup {Head(todo)}
      BY <2>1, WithFacts
    <3>2. /\ ToSet(todo) = {Head(todo)} \cup ToSet(Tail(todo))
          /\ Head(todo) \notin ToSet(Tail(todo))
      BY <2>1, OrderedTail
    <3>. QED
      BY <2>1, <3>1, <3>2 DEF Filled
  <2>3. result' = Nothing
    BY <1>3 DEF Reuse, EndWriting, Looking, Filled
  <2>4. \A n \in PhaseSet : cache'[n] \in {NoFile, Torn} \/ DOMAIN cache'[n] = {"meta", "result"}
    <3>1. CASE Reuse
      BY <3>1 DEF Reuse, files, Filled
    <3>2. CASE EndWriting
      <4>1. PICK file : file = [meta |-> Meta(Head(todo)), result |-> result]
        OBVIOUS
      <4>2. DOMAIN file = {"meta", "result"}
        BY <4>1
      <4>3. cache' = [cache EXCEPT ![Head(todo)] = file] /\ DOMAIN cache = PhaseSet
        BY <3>2, <4>1 DEF EndWriting, Current, Control
      <4>. QED
        BY <4>2, <4>3 DEF Filled
    <3>. QED
      BY <1>3, <3>1, <3>2
  <2>. QED
    BY <2>1, <2>2, <2>3, <2>4 DEF Filled
<1>4. CASE Produce \/ StartGateway \/ Healthy
  <2>1. /\ pc \in {"looking", "starting", "booting"}
        /\ pc' \in {"starting", "booting"} \cup PhaseSet
        /\ UNCHANGED <<cache, todo, outputs, result>>
    <3>1. CASE Produce
      <4>1. pc = "looking" /\ todo # <<>> /\ Ordered(todo)
        BY <3>1 DEF Produce, Looking, Control, Underway
      <4>2. Head(todo) \in PhaseSet
        BY <4>1, OrderedTail
      <4>. QED
        BY <3>1, <4>1, <4>2 DEF Produce, Current, files
    <3>2. CASE StartGateway
      BY <3>2 DEF StartGateway, files
    <3>3. CASE Healthy
      BY <3>3 DEF Healthy, Current, files, Control, PhaseSet
    <3>. QED
      BY <1>4, <3>1, <3>2, <3>3
  <2>2. result = Nothing /\ result' = Nothing
    BY <2>1 DEF Filled
  <2>3. Stages' = <<>>
    BY <2>2 DEF Stages
  <2>4. <<>> \in Seq(ToSet(<<>>))
    OBVIOUS
  <2>. QED
    BY <2>1, <2>2, <2>3, <2>4 DEF Filled, PhaseSet
<1>5. CASE BeginWriting
  <2>1. /\ pc = "measured" /\ pc' = "writing" /\ UNCHANGED <<todo, outputs, result>>
        /\ cache' = [cache EXCEPT ![Head(todo)] = Torn] /\ DOMAIN cache = PhaseSet
    BY <1>5 DEF BeginWriting, Current, Control
  <2>. QED
    BY <2>1 DEF Filled
<1>6. CASE BuildReport
  <2>1. cache' = cache
    BY <1>6 DEF BuildReport, files
  <2>2. End \/ (pc' = "publishing" /\ outputs' = <<>>)
    BY <1>6 DEF BuildReport, Nothing
  <2>3. DOMAIN <<>> = {}
    OBVIOUS
  <2>4. ASSUME pc' = "publishing", outputs' = <<>> PROVE Filled'
    BY <2>1, <2>3, <2>4 DEF Filled
  <2>. QED
    BY <2>1, <2>2, <2>4, EndKeepsFilled
<1>7. CASE Publish
  <2>1. pc = "publishing" /\ cache' = cache
    BY <1>7 DEF Publish
  <2>2. End \/ (todo' = Tail(todo) /\ pc' = pc /\ outputs' = outputs)
    BY <1>7 DEF Publish
  <2>3. ASSUME todo' = Tail(todo), pc' = pc, outputs' = outputs PROVE Filled'
    <3>0. PICK t \in Unpublished : t = todo
      BY <2>1 DEF Clean
    <3>1. ToSet(todo') \subseteq ToSet(todo)
      BY <3>0, UnpublishedTail, <2>3
    <3>. QED
      BY <2>1, <2>3, <3>1 DEF Filled
  <2>. QED
    BY <2>1, <2>2, <2>3, EndKeepsFilled
<1>. QED
  BY <1>1, <1>2, <1>3, <1>4, <1>5, <1>6, <1>7, PhasesKeepFilled DEF Next

\* The commands of the evaluation: each system once, retries within their bound.
Accounted ==
    /\ questions \in {NoFile, Torn, Quality!Fetched}
    /\ evaluation \in {NoFile, Torn} \/ evaluation.judge = Nothing
          \/ DOMAIN evaluation.judge = DOMAIN evaluation.scored
    /\ step # "idle" => IsInjective(systems)
    /\ DOMAIN collected \cap ToSet(systems) = {}
    /\ rounds \in 0 .. RetryRounds

LEMMA InjectiveTail ==
    ASSUME NEW A, NEW s \in Seq(A), s # <<>>, IsInjective(s)
    PROVE  IsInjective(Tail(s)) /\ Head(s) \notin ToSet(Tail(s))
<1>1. /\ Len(s) \in Nat \ {0} /\ DOMAIN s = 1 .. Len(s)
      /\ Tail(s) \in Seq(A) /\ Len(Tail(s)) = Len(s) - 1
      /\ \A i \in 1 .. Len(s) - 1 : Tail(s)[i] = s[i + 1]
      /\ Head(s) = s[1]
  OBVIOUS
<1>2. \A i, j \in 1 .. Len(s) : s[i] = s[j] => i = j
  BY <1>1 DEF IsInjective
<1>3. DOMAIN Tail(s) = 1 .. Len(s) - 1
  BY <1>1
<1>4. \A i \in 1 .. Len(s) - 1 : i + 1 \in 1 .. Len(s) /\ i + 1 # 1
  BY <1>1
<1>5. IsInjective(Tail(s))
  <2>1. SUFFICES ASSUME NEW i \in 1 .. Len(s) - 1, NEW j \in 1 .. Len(s) - 1,
                        Tail(s)[i] = Tail(s)[j]
                 PROVE  i = j
    BY <1>3 DEF IsInjective
  <2>2. i + 1 = j + 1
    BY <1>1, <1>2, <1>4, <2>1
  <2>. QED
    BY <1>1, <2>2
<1>6. Head(s) \notin ToSet(Tail(s))
  <2>1. SUFFICES ASSUME NEW i \in 1 .. Len(s) - 1, Tail(s)[i] = s[1] PROVE FALSE
    BY <1>1, <1>3 DEF ToSet
  <2>2. i + 1 = 1
    BY <1>1, <1>2, <1>4, <2>1
  <2>. QED
    BY <1>4, <2>2
<1>. QED
  BY <1>5, <1>6

\* What the evaluation counts together with the benchmark.
LEMMA EvaluationCounts ==
    ASSUME troubles \in 0 .. MaxTroubles, Quality!Next
    PROVE  /\ troubles' \in 0 .. MaxTroubles
           /\ runs' = runs \/ (runs' = runs + 1 /\ runs < MaxRuns)
<1>1. ASSUME NEW n \in Nat, Quality!Troubled(n)
      PROVE  troubles' \in 0 .. MaxTroubles
  BY <1>1, BenchmarkAssumption DEF Quality!Troubled
<1>2. CASE \E c \in Commands : Quality!Start(c)
  BY <1>2 DEF Quality!Start
<1>3. CASE Quality!UseQuestions \/ Quality!BeginFetch \/ Quality!EndFetch
           \/ Quality!ReuseResponses \/ Quality!RefuseResponses
  BY <1>3 DEF Quality!UseQuestions, Quality!BeginFetch, Quality!EndFetch, Quality!ReuseResponses,
              Quality!RefuseResponses
<1>4. CASE Quality!CollectSystem
  <2>1. runs' = runs /\ \E answers : Quality!Troubled(Quality!TroublesOf(answers))
    BY <1>4 DEF Quality!CollectSystem
  <2>2. PICK answers : Quality!Troubled(Quality!TroublesOf(answers))
    BY <2>1
  <2>3. Quality!TroublesOf(answers) \in Nat
    BY DEF Quality!TroublesOf
  <2>. QED
    BY <1>1, <2>1, <2>2, <2>3
<1>5. CASE Quality!RetryFailedRows
  <2>1. runs' = runs /\ \E answers : Quality!Troubled(Quality!TroublesOf(answers))
    BY <1>5 DEF Quality!RetryFailedRows
  <2>2. PICK answers : Quality!Troubled(Quality!TroublesOf(answers))
    BY <2>1
  <2>3. Quality!TroublesOf(answers) \in Nat
    BY DEF Quality!TroublesOf
  <2>. QED
    BY <1>1, <2>1, <2>2, <2>3
<1>6. CASE Quality!BeginSaving \/ Quality!EndSaving \/ Quality!ReuseScores \/ Quality!BeginCaching
           \/ Quality!EndCaching \/ Quality!ValidateJudgeScores
  BY <1>6 DEF Quality!BeginSaving, Quality!EndSaving, Quality!ReuseScores, Quality!BeginCaching,
              Quality!EndCaching, Quality!ValidateJudgeScores
<1>7. CASE Quality!RunCodexJudge
  <2>1. runs' = runs /\ \E wrong \in BOOLEAN : Quality!Troubled(IF wrong THEN 1 ELSE 0)
    BY <1>7 DEF Quality!RunCodexJudge
  <2>. QED
    BY <1>1, <2>1
<1>8. CASE Quality!BeginReport \/ Quality!EndReport
  BY <1>8 DEF Quality!BeginReport, Quality!EndReport
<1>9. CASE Quality!Crash \/ \E place \in {"asking", "looking", "collected"} : Quality!Fails(place)
  <2>1. runs' = runs /\ Quality!Troubled(1)
    BY <1>9 DEF Quality!Crash, Quality!Fails
  <2>. QED
    BY <1>1, <2>1
<1>. QED
  BY <1>2, <1>3, <1>4, <1>5, <1>6, <1>7, <1>8, <1>9 DEF Quality!Next

LEMMA EndKeepsAccounted ==
    ASSUME Accounted, Quality!End, UNCHANGED <<questions, evaluation>>
    PROVE  Accounted'
<1>1. /\ questions' = questions /\ evaluation' = evaluation /\ step' = "idle"
      /\ collected' = <<>> /\ systems' = <<>> /\ rounds' = 0
  BY DEF Quality!End, Quality!Nothing
<1>2. 0 \in 0 .. RetryRounds
  BY QualityAssumption
<1>3. DOMAIN <<>> = {}
  OBVIOUS
<1>. QED
  BY <1>1, <1>2, <1>3 DEF Accounted

LEMMA WorkKeepsAccounted ==
    ASSUME Accounted, step # "idle", UNCHANGED <<systems, collected>>,
           questions' \in {questions, Torn, Quality!Fetched},
           evaluation' = evaluation \/ evaluation' = Torn,
           rounds' \in 0 .. RetryRounds
    PROVE  Accounted'
BY DEF Accounted

LEMMA EvaluationKeepsAccounted ==
    ASSUME Evaluated, Accounted, Quality!Next
    PROVE  Accounted'
<1>1. ASSUME NEW c \in Commands, Quality!Start(c)
      PROVE  Accounted'
  <2>1. /\ questions' = questions /\ evaluation' = evaluation /\ rounds' = rounds
        /\ collected' = collected /\ systems' = c.systems /\ step = "idle"
    BY <1>1 DEF Quality!Start, Quality!files, Quality!memory
  <2>2. IsInjective(c.systems)
    BY QualityAssumption
  <2>3. DOMAIN collected = {}
    BY <2>1 DEF Evaluated, Occupied, Nothing
  <2>. QED
    BY <2>1, <2>2, <2>3 DEF Accounted
<1>2. CASE \/ Quality!RefuseResponses \/ Quality!Crash
           \/ \E place \in {"asking", "looking", "collected"} : Quality!Fails(place)
  <2>1. Quality!End /\ UNCHANGED <<questions, evaluation>>
    BY <1>2 DEF Quality!RefuseResponses, Quality!Crash, Quality!Fails, Quality!files
  <2>. QED
    BY <2>1, EndKeepsAccounted
<1>3. CASE Quality!UseQuestions \/ Quality!ReuseScores \/ Quality!ValidateJudgeScores
  <2>1. UNCHANGED <<questions, evaluation>> /\ step # "idle"
    BY <1>3 DEF Quality!UseQuestions, Quality!ReuseScores, Quality!ValidateJudgeScores, Quality!files
  <2>2. Quality!End \/ UNCHANGED <<systems, collected, rounds>>
    BY <1>3 DEF Quality!UseQuestions, Quality!ReuseScores, Quality!ValidateJudgeScores,
                Quality!memory
  <2>3. rounds \in 0 .. RetryRounds
    BY DEF Accounted
  <2>. QED
    BY <2>1, <2>2, <2>3, EndKeepsAccounted, WorkKeepsAccounted
<1>4. CASE \/ Quality!BeginFetch \/ Quality!EndFetch \/ Quality!BeginSaving \/ Quality!BeginCaching
           \/ Quality!EndCaching \/ Quality!BeginReport
  <2>1. /\ step # "idle" /\ UNCHANGED <<systems, collected, rounds>>
        /\ questions' \in {questions, Torn, Quality!Fetched}
        /\ evaluation' = evaluation \/ evaluation' = Torn
    BY <1>4 DEF Quality!BeginFetch, Quality!EndFetch, Quality!BeginSaving, Quality!BeginCaching,
                Quality!EndCaching, Quality!BeginReport, Quality!memory
  <2>2. rounds \in 0 .. RetryRounds
    BY DEF Accounted
  <2>. QED
    BY <2>1, <2>2, WorkKeepsAccounted
<1>5. CASE Quality!ReuseResponses \/ Quality!CollectSystem \/ Quality!RunCodexJudge
  <2>1. step # "idle" /\ UNCHANGED <<systems, collected, rounds, questions, evaluation>>
    BY <1>5 DEF Quality!ReuseResponses, Quality!CollectSystem, Quality!RunCodexJudge, Quality!files
  <2>2. rounds \in 0 .. RetryRounds
    BY DEF Accounted
  <2>. QED
    BY <2>1, <2>2, WorkKeepsAccounted
<1>6. CASE Quality!RetryFailedRows
  <2>1. /\ step # "idle" /\ UNCHANGED <<systems, collected, questions, evaluation>>
        /\ rounds < RetryRounds /\ rounds' = rounds + 1
    BY <1>6 DEF Quality!RetryFailedRows, Quality!Retries, Quality!files
  <2>2. rounds' \in 0 .. RetryRounds
    BY <2>1, QualityAssumption DEF Accounted
  <2>. QED
    BY <2>1, <2>2, WorkKeepsAccounted
<1>7. CASE Quality!EndSaving
  <2>1. /\ step = "saving" /\ systems' = Tail(systems) /\ rounds' = 0
        /\ DOMAIN collected' = DOMAIN collected \cup {Head(systems)}
        /\ questions' = questions /\ evaluation' = evaluation
    BY <1>7 DEF Quality!EndSaving, Quality!Current
  <2>2. systems \in Seq(Systems) /\ systems # <<>> /\ IsInjective(systems)
    BY <2>1 DEF Evaluated, Occupied, Accounted
  <2>3. /\ IsInjective(Tail(systems)) /\ Head(systems) \notin ToSet(Tail(systems))
        /\ ToSet(systems) = {Head(systems)} \cup ToSet(Tail(systems))
    BY <2>2, InjectiveTail, HeadAndRest
  <2>4. DOMAIN collected' \cap ToSet(Tail(systems)) = {}
    BY <2>1, <2>3 DEF Accounted
  <2>5. 0 \in 0 .. RetryRounds
    BY QualityAssumption
  <2>. QED
    BY <2>1, <2>3, <2>4, <2>5 DEF Accounted
<1>8. CASE Quality!EndReport
  <2>1. /\ step = "reporting" /\ Quality!End /\ questions' = questions
    BY <1>8 DEF Quality!EndReport
  <2>2. PICK e : e = evaluation'
    OBVIOUS
  <2>3. /\ DOMAIN e.scored = DOMAIN collected
        /\ e.judge = Nothing \/ DOMAIN e.judge = ToSet(command.systems)
    BY <1>8, <2>2 DEF Quality!EndReport, Quality!JudgeMeans, Quality!Nothing, Nothing, ToSet,
                      Quality!ToSet
  <2>4. DOMAIN collected = ToSet(command.systems)
    <3>1. /\ systems = <<>>
          /\ DOMAIN collected \cup ToSet(systems) = ToSet(command.systems)
      BY <2>1 DEF Evaluated, Occupied
    <3>2. ToSet(<<>>) = {}
      <4>1. DOMAIN <<>> = {}
        OBVIOUS
      <4>. QED
        BY <4>1 DEF ToSet
    <3>. QED
      BY <3>1, <3>2
  <2>5. /\ step' = "idle" /\ collected' = <<>> /\ systems' = <<>> /\ rounds' = 0
    BY <2>1 DEF Quality!End, Quality!Nothing
  <2>6. 0 \in 0 .. RetryRounds /\ DOMAIN <<>> = {}
    BY QualityAssumption
  <2>. QED
    BY <2>1, <2>2, <2>3, <2>4, <2>5, <2>6 DEF Accounted
<1>. QED
  BY <1>1, <1>2, <1>3, <1>4, <1>5, <1>6, <1>7, <1>8 DEF Quality!Next

LEMMA IdleKeepsFilled ==
    ASSUME Filled, UNCHANGED <<cache, pc, todo, outputs, result>>
    PROVE  Filled'
<1>1. /\ cache' = cache /\ pc' = pc /\ todo' = todo /\ outputs' = outputs /\ result' = result
  OBVIOUS
<1>2. Stages' = Stages
  BY <1>1 DEF Stages
<1>. QED
  BY <1>1, <1>2 DEF Filled

\* What is counted, of both programs, and the shape of what a run holds.
Typed == Filled /\ Counted /\ Accounted

LEMMA StepKeepsTyped ==
    ASSUME Control, Clean, Measured, Evaluated, Typed, [BenchmarkStep \/ QualityStep]_suiteVars
    PROVE  Typed'
<1>1. CASE BenchmarkStep
  <2>1. Filled' /\ Counted'
    BY <1>1, NextKeepsFilled, NextKeepsCounted DEF BenchmarkStep, Typed
  <2>2. UNCHANGED <<questions, evaluation, step, collected, systems, rounds>>
    BY <1>1 DEF BenchmarkStep, qualityOnly
  <2>3. Accounted'
    BY <2>2 DEF Typed, Accounted
  <2>. QED
    BY <2>1, <2>3 DEF Typed
<1>2. CASE QualityStep
  <2>1. /\ UNCHANGED <<cache, published, gateways, pc, todo, outputs, result, killed>>
        /\ pc = "idle" /\ Quality!Next
    BY <1>2 DEF QualityStep, benchmarkOnly, files
  <2>2. Filled'
    BY <2>1, IdleKeepsFilled DEF Typed
  <2>3. Accounted'
    BY <2>1, EvaluationKeepsAccounted DEF Typed
  <2>4. /\ troubles' \in 0 .. MaxTroubles
        /\ runs' = runs \/ (runs' = runs + 1 /\ runs < MaxRuns)
    BY <2>1, EvaluationCounts DEF Typed, Counted
  <2>5. /\ runs \in 0 .. MaxRuns /\ MaxRuns \in Nat
        /\ gateways \subseteq 1 .. runs /\ killed \subseteq 1 .. runs
        /\ \A f \in FileSet : published[f] \in 0 .. runs
    BY BenchmarkAssumption DEF Typed, Counted
  <2>6. /\ runs' \in 0 .. MaxRuns
        /\ \A x \in 1 .. runs : x \in 1 .. runs'
        /\ \A x \in 0 .. runs : x \in 0 .. runs'
    BY <2>4, <2>5
  <2>7. Counted'
    BY <2>1, <2>4, <2>5, <2>6 DEF Counted
  <2>. QED
    BY <2>2, <2>3, <2>7 DEF Typed
<1>3. CASE UNCHANGED suiteVars
  <2>1. /\ UNCHANGED <<cache, published, gateways, pc, todo, outputs, result, killed, runs, troubles>>
        /\ UNCHANGED <<questions, evaluation, step, collected, systems, rounds>>
    BY <1>3 DEF suiteVars, vars, files, qualityOnly
  <2>2. Filled'
    BY <2>1, IdleKeepsFilled DEF Typed
  <2>3. Counted'
    BY <2>1 DEF Typed, Counted
  <2>4. Accounted'
    BY <2>1 DEF Typed, Accounted
  <2>. QED
    BY <2>2, <2>3, <2>4 DEF Typed
<1>. QED
  BY <1>1, <1>2, <1>3

LEMMA InitTyped == SuiteInit => Typed
<1>1. SUFFICES ASSUME SuiteInit PROVE Typed
  OBVIOUS
<1>2. /\ cache = [n \in PhaseSet |-> NoFile] /\ published = [f \in FileSet |-> 0]
      /\ gateways = {} /\ pc = "idle" /\ todo = <<>> /\ outputs = <<>> /\ result = <<>>
      /\ runs = 0 /\ troubles = 0 /\ killed = {} /\ evaluation = NoFile
      /\ questions = NoFile /\ systems = <<>> /\ rounds = 0 /\ collected = <<>>
      /\ step = "idle"
  BY <1>1, PhasesFacts, ReportFilesFacts DEF SuiteInit, Init, Quality!Init, Quality!Nothing, Nothing
<1>3. DOMAIN <<>> = {}
  OBVIOUS
<1>4. Filled
  BY <1>2, <1>3 DEF Filled, Nothing
<1>5. Counted
  BY <1>2, BenchmarkAssumption DEF Counted
<1>6. Accounted
  <2>1. 0 \in 0 .. RetryRounds
    BY QualityAssumption
  <2>. QED
    BY <1>2, <1>3, <2>1 DEF Accounted
<1>. QED
  BY <1>4, <1>5, <1>6 DEF Typed

LEMMA TypedInvariance == SuiteSpec => []Typed
<1>1. SuiteInit => Typed
  BY InitTyped
<1>2. Control /\ Clean /\ Measured /\ Evaluated /\ Typed /\ [BenchmarkStep \/ QualityStep]_suiteVars
        => Typed'
  BY StepKeepsTyped
<1>. QED
  BY <1>1, <1>2, ControlInvariance, MeasuredInvariance, EvaluatedInvariance,
     PTL DEF SuiteSpec, suiteVars

\* The variables of both programs, and the files they leave, are what the code can make
\* them (run_benchmark; bench_stage9_quality_deep.main), wherever runs are cut short.
THEOREM TypesCorrect == SuiteSpec => []SuiteTypeOK
<1>1. Control /\ Evaluated /\ Typed => SuiteTypeOK
  <2>1. SUFFICES ASSUME Control, Evaluated, Typed PROVE SuiteTypeOK
    OBVIOUS
  <2>2. TypeOK
    <3>1. /\ ToSet(Phases) = PhaseSet /\ ToSet(ReportFiles) = FileSet
      BY PhasesFacts, ReportFilesFacts
    <3>2. /\ \A n \in PhaseSet : cache[n] \in {NoFile, Torn} \/ DOMAIN cache[n] = {"meta", "result"}
          /\ DOMAIN outputs \cap ToSet(todo) = {}
          /\ pc \in {"measured", "writing"} => result # Nothing
      BY <2>1 DEF Typed, Filled
    <3>3. /\ DOMAIN published = FileSet /\ DOMAIN outputs \subseteq PhaseSet
          /\ pc \in {"idle", "looking", "starting", "booting", "measured", "writing", "publishing"}
                    \cup PhaseSet
          /\ config \in Configs \/ pc = "idle"
          /\ pc \in {"measured", "writing"} => todo # <<>>
      BY <2>1 DEF Control, Underway, Producing
    <3>4. /\ gateways \subseteq 1 .. runs /\ killed \subseteq 1 .. runs
          /\ troubles \in 0 .. MaxTroubles
          /\ \A f \in FileSet : published[f] <= runs
      BY <2>1 DEF Typed, Counted
    <3>. QED
      BY <3>1, <3>2, <3>3, <3>4 DEF TypeOK
  <2>3. Quality!TypeOK
    <3>1. /\ \A s \in Quality!AllSystems :
                responses[s] \in {NoFile, Torn} \/ DOMAIN responses[s].rows = Questions
          /\ judgeCache \in {NoFile, Torn} \/ DOMAIN judgeCache.scores = ToSet(JudgedItems)
      BY <2>1 DEF Evaluated, Occupied, AnswersOwn, ScoresOwn, GivenUnder, Fair
    <3>2. /\ questions \in {NoFile, Torn, Quality!Fetched}
          /\ evaluation \in {NoFile, Torn} \/ evaluation.judge = Nothing
                \/ DOMAIN evaluation.judge = DOMAIN evaluation.scored
          /\ DOMAIN collected \cap ToSet(systems) = {}
          /\ rounds \in 0 .. RetryRounds
      BY <2>1 DEF Typed, Accounted
    <3>3. runs \in 0 .. MaxRuns /\ troubles \in 0 .. MaxTroubles
      BY <2>1 DEF Typed, Counted
    <3>. QED
      BY <3>1, <3>2, <3>3 DEF Quality!TypeOK, Quality!Nothing, Nothing, ToSet, Quality!ToSet
  <2>. QED
    BY <2>2, <2>3 DEF SuiteTypeOK
<1>. QED
  BY <1>1, ControlInvariance, EvaluatedInvariance, TypedInvariance, PTL

-----------------------------------------------------------------------------
\* Sequences put one after the other, and sums of counts.

\* The positions in the parts of a sequence of sequences.
Positions(seqs) == UNION {{k} \X (1 .. Len(seqs[k])) : k \in 1 .. Len(seqs)}

LEMMA PositionsAre ==
    ASSUME NEW seqs
    PROVE  \A p : p \in Positions(seqs) <=>
               \E k \in 1 .. Len(seqs) : \E i \in 1 .. Len(seqs[k]) : p = <<k, i>>
BY DEF Positions

\* Each of them has a place of its own in the flattened sequence, and there are no others.
LEMMA FlattenPlaces ==
    ASSUME NEW A, NEW seqs \in Seq(Seq(A))
    PROVE  \E at : /\ at \in [Positions(seqs) -> 1 .. Len(FlattenSeq(seqs))]
                   /\ \A p \in Positions(seqs) : FlattenSeq(seqs)[at[p]] = seqs[p[1]][p[2]]
                   /\ \A p, q \in Positions(seqs) : at[p] = at[q] => p = q
                   /\ \A j \in 1 .. Len(FlattenSeq(seqs)) : \E p \in Positions(seqs) : at[p] = j
<1>. DEFINE M == Len(seqs)
<1>1. M \in Nat /\ DOMAIN seqs = 1 .. M
      /\ \A k \in 1 .. M : seqs[k] \in Seq(A) /\ Len(seqs[k]) \in Nat
  BY LenProperties, ElementOfSeq
<1>2. CASE M = 0
  <2>1. FlattenSeq(seqs) = <<>> /\ 1 .. M = {}
    <3>1. seqs = <<>>
      BY <1>2, EmptySeq
    <3>. QED
      BY <1>2, <3>1 DEF FlattenSeq
  <2>2. Positions(seqs) = {}
    BY <2>1 DEF Positions
  <2>3. Len(FlattenSeq(seqs)) = 0
    BY <2>1
  <2>. DEFINE none == [p \in {} |-> 1]
  <2>4. none \in [{} -> 1 .. 0]
    OBVIOUS
  <2>5. \A at : at = none => at \in [Positions(seqs) -> 1 .. Len(FlattenSeq(seqs))]
    BY <2>2, <2>3, <2>4
  <2>6. 1 .. Len(FlattenSeq(seqs)) = {}
    BY <2>3
  <2>. HIDE DEF none
  <2>. QED
    BY <2>2, <2>5, <2>6
<1>3. CASE M # 0
  <2>1. PICK f : /\ f[0] = <<>> /\ FlattenSeq(seqs) = f[M]
                 /\ \A n \in 0 .. M : f[n] \in Seq(A)
                 /\ \A n \in 1 .. M : f[n] = f[n - 1] \o seqs[n]
    BY <1>3, FlattenStepwise
  <2>. DEFINE len == [n \in 0 .. M |-> Len(f[n])]
  <2>2. \A n \in 0 .. M : len[n] = Len(f[n]) /\ len[n] \in Nat
    BY <2>1, LenProperties
  <2>3. len[0] = 0
    BY <1>1, <2>1
  <2>. HIDE DEF len
  <2>4. ASSUME NEW n \in 1 .. M
        PROVE  /\ n - 1 \in 0 .. M /\ n \in 0 .. M
               /\ len[n] = len[n - 1] + Len(seqs[n])
               /\ \A j \in 1 .. len[n - 1] : f[n][j] = f[n - 1][j]
               /\ \A i \in 1 .. Len(seqs[n]) : f[n][len[n - 1] + i] = seqs[n][i]
    <3>1. n - 1 \in 0 .. M /\ n \in 0 .. M
      BY <1>1
    <3>2. PICK s, t : s = f[n - 1] /\ t = seqs[n]
      OBVIOUS
    <3>3. s \in Seq(A) /\ t \in Seq(A) /\ f[n] = s \o t /\ Len(s) \in Nat /\ Len(t) \in Nat
      BY <1>1, <2>1, <3>1, <3>2, LenProperties
    <3>4. /\ Len(s \o t) = Len(s) + Len(t)
          /\ \A i \in 1 .. Len(s) + Len(t) : (s \o t)[i] = IF i <= Len(s) THEN s[i] ELSE t[i - Len(s)]
      BY <3>3, ConcatProperties
    <3>5. \A j \in 1 .. Len(s) : (s \o t)[j] = s[j]
      BY <3>3, <3>4
    <3>6. \A i \in 1 .. Len(t) : (s \o t)[Len(s) + i] = t[i]
      <4>1. \A i \in 1 .. Len(t) : /\ Len(s) + i \in 1 .. Len(s) + Len(t)
                                   /\ ~ (Len(s) + i <= Len(s)) /\ (Len(s) + i) - Len(s) = i
        BY <3>3
      <4>. QED
        BY <3>4, <4>1
    <3>. QED
      BY <2>2, <3>1, <3>2, <3>3, <3>4, <3>5, <3>6
  <2>. DEFINE
      Longer(n) == \A k \in 0 .. n : len[k] <= len[n]
      Placed(n) == \A k \in 1 .. n : \A i \in 1 .. Len(seqs[k]) :
                       len[k - 1] + i \in 1 .. len[n] /\ f[n][len[k - 1] + i] = seqs[k][i]
      Taken(n) == \A j \in 1 .. len[n] : \E k \in 1 .. n : \E i \in 1 .. Len(seqs[k]) : j = len[k - 1] + i
      S == {n \in Nat : n <= M => Longer(n) /\ Placed(n) /\ Taken(n)}
  <2>5. 0 \in S
    BY <2>3
  <2>6. ASSUME NEW n \in Nat, n + 1 <= M, Longer(n), Placed(n), Taken(n)
        PROVE  Longer(n + 1) /\ Placed(n + 1) /\ Taken(n + 1)
    <3>. DEFINE m == n + 1
    <3>1. /\ m \in 1 .. M /\ m - 1 = n /\ n \in 0 .. M /\ m \in 0 .. M
          /\ \A k \in 0 .. m : k \in 0 .. n \/ k = m
          /\ \A k \in 1 .. m : k \in 1 .. n \/ k = m
      BY <1>1, <2>6
    <3>. HIDE DEF m
    <3>2. /\ len[m] = len[n] + Len(seqs[m]) /\ len[n] \in Nat /\ Len(seqs[m]) \in Nat /\ len[m] \in Nat
          /\ \A j \in 1 .. len[n] : f[m][j] = f[n][j]
          /\ \A i \in 1 .. Len(seqs[m]) : f[m][len[n] + i] = seqs[m][i]
      BY <1>1, <2>2, <2>4, <3>1
    <3>3. Longer(m)
      <4>1. \A k \in 0 .. n : len[k] <= len[n] /\ len[k] \in Nat
        <5>1. \A k \in 0 .. n : k \in 0 .. M
          BY <1>1, <3>1
        <5>. QED
          BY <2>2, <2>6, <5>1
      <4>. QED
        BY <3>1, <3>2, <4>1
    <3>4. Placed(m)
      <4>1. ASSUME NEW k \in 1 .. n, NEW i \in 1 .. Len(seqs[k])
            PROVE  len[k - 1] + i \in 1 .. len[m] /\ f[m][len[k - 1] + i] = seqs[k][i]
        <5>1. len[k - 1] + i \in 1 .. len[n] /\ f[n][len[k - 1] + i] = seqs[k][i]
          BY <2>6
        <5>. QED
          BY <3>2, <5>1
      <4>2. ASSUME NEW i \in 1 .. Len(seqs[m])
            PROVE  len[m - 1] + i \in 1 .. len[m] /\ f[m][len[m - 1] + i] = seqs[m][i]
        BY <3>1, <3>2
      <4>. QED
        BY <3>1, <4>1, <4>2
    <3>5. Taken(m)
      <4>1. SUFFICES ASSUME NEW j \in 1 .. len[m]
                     PROVE  \E k \in 1 .. m : \E i \in 1 .. Len(seqs[k]) : j = len[k - 1] + i
        OBVIOUS
      <4>2. CASE j <= len[n]
        <5>1. j \in 1 .. len[n]
          BY <3>2, <4>2
        <5>2. PICK k \in 1 .. n : \E i \in 1 .. Len(seqs[k]) : j = len[k - 1] + i
          BY <2>6, <5>1
        <5>3. k \in 1 .. m
          BY <5>2 DEF m
        <5>. QED
          BY <5>2, <5>3
      <4>3. CASE ~ (j <= len[n])
        <5>1. j - len[n] \in 1 .. Len(seqs[m]) /\ j = len[n] + (j - len[n])
          BY <3>2, <4>3
        <5>2. m \in 1 .. m /\ len[m - 1] = len[n]
          BY <3>1
        <5>. QED
          BY <5>1, <5>2
      <4>. QED
        BY <4>2, <4>3
    <3>. QED
      BY <3>3, <3>4, <3>5 DEF m
  <2>7. ASSUME NEW n \in Nat, n \in S
        PROVE  n + 1 \in S
    <3>. HIDE DEF Longer, Placed, Taken
    <3>1. n + 1 <= M => n <= M
      BY <1>1
    <3>. QED
      BY <2>6, <2>7, <3>1
  <2>8. \A n \in Nat : n \in S
    <3>. HIDE DEF S
    <3>. QED
      BY <2>5, <2>7, AllNaturals
  <2>9. \A n \in 0 .. M : Longer(n) /\ Placed(n) /\ Taken(n)
    <3>. HIDE DEF Longer, Placed, Taken
    <3>1. \A n \in 0 .. M : n \in Nat /\ n <= M
      BY <1>1
    <3>. QED
      BY <2>8, <3>1
  <2>10. M \in 0 .. M /\ len[M] = Len(FlattenSeq(seqs))
    BY <1>1, <2>1, <2>2
  <2>11. Placed(M) /\ Taken(M)
    <3>. HIDE DEF Longer, Placed, Taken
    <3>. QED
      BY <2>9, <2>10
  <2>. DEFINE at == [p \in Positions(seqs) |-> len[p[1] - 1] + p[2]]
  <2>12. \A k \in 1 .. M : \A i \in 1 .. Len(seqs[k]) :
             <<k, i>> \in Positions(seqs) /\ at[<<k, i>>] = len[k - 1] + i
    <3>1. \A k \in 1 .. M : \A i \in 1 .. Len(seqs[k]) : <<k, i>> \in Positions(seqs)
      BY PositionsAre
    <3>. QED
      BY <3>1
  <2>. HIDE DEF at
  <2>13. ASSUME NEW p \in Positions(seqs)
         PROVE  at[p] \in 1 .. len[M] /\ f[M][at[p]] = seqs[p[1]][p[2]]
    <3>0. PICK k \in 1 .. M : \E i \in 1 .. Len(seqs[k]) : p = <<k, i>>
      BY PositionsAre
    <3>1. PICK i \in 1 .. Len(seqs[k]) : p = <<k, i>>
      BY <3>0
    <3>2. at[p] = len[k - 1] + i /\ p[1] = k /\ p[2] = i
      BY <2>12, <3>1
    <3>. QED
      BY <2>11, <3>2
  <2>14. at \in [Positions(seqs) -> 1 .. len[M]]
    <3>1. at = [p \in Positions(seqs) |-> at[p]]
      BY DEF at
    <3>. QED
      BY <2>13, <3>1
  <2>15. ASSUME NEW k \in 1 .. M, NEW l \in 1 .. M, NEW i \in 1 .. Len(seqs[k]),
                NEW j \in 1 .. Len(seqs[l]), k < l
         PROVE  len[k - 1] + i < len[l - 1] + j
    <3>1. len[k] = len[k - 1] + Len(seqs[k]) /\ k - 1 \in 0 .. M
      BY <2>4
    <3>2. k \in 0 .. l - 1 /\ l - 1 \in 0 .. M
      BY <1>1, <2>15
    <3>3. len[k] <= len[l - 1]
      <4>1. Longer(l - 1)
        <5>. HIDE DEF Longer, Placed, Taken
        <5>. QED
          BY <2>9, <3>2
      <4>. QED
        BY <3>2, <4>1
    <3>4. len[k] \in Nat /\ len[k - 1] \in Nat /\ len[l - 1] \in Nat /\ Len(seqs[k]) \in Nat
      BY <1>1, <2>2, <3>1, <3>2
    <3>. QED
      BY <3>1, <3>3, <3>4
  <2>16. ASSUME NEW p \in Positions(seqs), NEW q \in Positions(seqs), at[p] = at[q]
         PROVE  p = q
    <3>1. PICK k \in 1 .. M : \E i \in 1 .. Len(seqs[k]) : p = <<k, i>>
      BY PositionsAre
    <3>2. PICK l \in 1 .. M : \E j \in 1 .. Len(seqs[l]) : q = <<l, j>>
      BY PositionsAre
    <3>7. PICK i \in 1 .. Len(seqs[k]) : p = <<k, i>>
      BY <3>1
    <3>8. PICK j \in 1 .. Len(seqs[l]) : q = <<l, j>>
      BY <3>2
    <3>3. len[k - 1] + i = len[l - 1] + j
      BY <2>12, <2>16, <3>7, <3>8
    <3>4. len[k - 1] \in Nat /\ len[l - 1] \in Nat
      BY <2>2, <2>4
    <3>5. ~ (k < l) /\ ~ (l < k)
      BY <2>15, <3>3, <3>4
    <3>6. k = l
      BY <3>5
    <3>. QED
      BY <3>3, <3>4, <3>6, <3>7, <3>8
  <2>17. ASSUME NEW j \in 1 .. len[M]
         PROVE  \E p \in Positions(seqs) : at[p] = j
    <3>1. PICK k \in 1 .. M : \E i \in 1 .. Len(seqs[k]) : j = len[k - 1] + i
      BY <2>11
    <3>. QED
      BY <2>12, <3>1
  <2>18. f[M] = FlattenSeq(seqs)
    BY <2>1
  <2>19. /\ at \in [Positions(seqs) -> 1 .. Len(FlattenSeq(seqs))]
         /\ \A p \in Positions(seqs) : FlattenSeq(seqs)[at[p]] = seqs[p[1]][p[2]]
         /\ \A p, q \in Positions(seqs) : at[p] = at[q] => p = q
         /\ \A j \in 1 .. Len(FlattenSeq(seqs)) : \E p \in Positions(seqs) : at[p] = j
    BY <2>10, <2>13, <2>14, <2>16, <2>17, <2>18
  <2>. HIDE DEF M
  <2>. QED
    BY <2>19
<1>. QED
  BY <1>2, <1>3

\* What is flattened has nothing twice if its parts have nothing twice and nothing in common.
LEMMA FlattenDistinct ==
    ASSUME NEW A, NEW seqs \in Seq(Seq(A)),
           \A p, q \in Positions(seqs) : seqs[p[1]][p[2]] = seqs[q[1]][q[2]] => p = q
    PROVE  \A i, j \in 1 .. Len(FlattenSeq(seqs)) :
               FlattenSeq(seqs)[i] = FlattenSeq(seqs)[j] => i = j
<1>1. PICK at : /\ at \in [Positions(seqs) -> 1 .. Len(FlattenSeq(seqs))]
                /\ \A p \in Positions(seqs) : FlattenSeq(seqs)[at[p]] = seqs[p[1]][p[2]]
                /\ \A j \in 1 .. Len(FlattenSeq(seqs)) : \E p \in Positions(seqs) : at[p] = j
  BY FlattenPlaces
<1>2. PICK F : F = FlattenSeq(seqs)
  OBVIOUS
<1>3. ASSUME NEW i \in 1 .. Len(F), NEW j \in 1 .. Len(F), F[i] = F[j]
      PROVE  i = j
  <2>1. PICK p \in Positions(seqs) : at[p] = i
    BY <1>1, <1>2
  <2>2. PICK q \in Positions(seqs) : at[q] = j
    BY <1>1, <1>2
  <2>3. seqs[p[1]][p[2]] = seqs[q[1]][q[2]]
    BY <1>1, <1>2, <1>3, <2>1, <2>2
  <2>4. p = q
    BY <2>3
  <2>. QED
    BY <2>1, <2>2, <2>4
<1>. QED
  BY <1>2, <1>3

\* As many are kept as there are positions.
LEMMA KeptLength ==
    ASSUME NEW A, NEW s \in Seq(A), NEW I \in SUBSET (1 .. Len(s))
    PROVE  IsFiniteSet(I) /\ Len(Kept(s, I)) = Cardinality(I)
<1>1. PICK t : t = Kept(s, I)
  OBVIOUS
<1>2. t \in Seq(A) /\ \E p : Picks(p, t, s, I)
  BY <1>1, KeptElements
<1>3. PICK p : Picks(p, t, s, I)
  BY <1>2
<1>4. /\ p \in [1 .. Len(t) -> I]
      /\ \A k, l \in 1 .. Len(t) : k < l => p[k] < p[l]
      /\ \A i \in I : \E k \in 1 .. Len(t) : p[k] = i
  BY <1>3 DEF Picks
<1>5. Len(t) \in Nat /\ Len(s) \in Nat
  BY <1>2, LenProperties
<1>6. \A k, l \in 1 .. Len(t) : p[k] = p[l] => k = l
  <2>1. SUFFICES ASSUME NEW k \in 1 .. Len(t), NEW l \in 1 .. Len(t), p[k] = p[l], k # l
                 PROVE  FALSE
    OBVIOUS
  <2>2. k < l \/ l < k
    BY <1>5, <2>1
  <2>3. p[k] \in Int /\ p[l] \in Int
    <3>1. I \subseteq Int
      BY <1>5
    <3>. QED
      BY <1>4, <3>1
  <2>4. p[k] < p[l] \/ p[l] < p[k]
    BY <1>4, <2>2
  <2>. QED
    BY <2>1, <2>3, <2>4
<1>7. IsFiniteSet(1 .. Len(t)) /\ Cardinality(1 .. Len(t)) = Len(t)
  <2>1. 1 \in Int /\ Len(t) \in Int
    BY <1>5
  <2>2. /\ IsFiniteSet(1 .. Len(t))
        /\ Cardinality(1 .. Len(t)) = IF 1 > Len(t) THEN 0 ELSE Len(t) - 1 + 1
    BY <2>1, FS_Interval
  <2>. QED
    BY <1>5, <2>2
<1>. QED
  BY <1>1, <1>4, <1>6, <1>7, EquallyMany

\* A sum of numbers is a number, and without any it is 0.
LEMMA SumsAreNumbers ==
    ASSUME NEW s \in Seq(Int)
    PROVE  SumOf(s) \in Int /\ (Len(s) = 0 => SumOf(s) = 0)
<1>1. Len(s) \in Nat /\ Len(s) \in 0 .. Len(s)
  <2>1. Len(s) \in Nat
    BY LenProperties
  <2>. QED
    BY <2>1
<1>. QED
  BY <1>1, SumsFacts DEF SumOf

\* Counting what is in several sets, each apart, and adding up.
LEMMA SumOfCounts ==
    ASSUME NEW n \in Nat, NEW sets, \A k \in 1 .. n : IsFiniteSet(sets[k])
    PROVE  LET U == UNION {{k} \X sets[k] : k \in 1 .. n}
           IN  /\ IsFiniteSet(U)
               /\ Cardinality(U) = SumOf([k \in 1 .. n |-> Cardinality(sets[k])])
<1>. DEFINE
    c == [k \in 1 .. n |-> Cardinality(sets[k])]
    U(m) == UNION {{k} \X sets[k] : k \in 1 .. m}
<1>1. \A k \in 1 .. n : c[k] = Cardinality(sets[k]) /\ c[k] \in Int /\ c[k] \in Nat
  <2>1. \A k \in 1 .. n : Cardinality(sets[k]) \in Nat
    BY FS_CardinalityType
  <2>. QED
    BY <2>1
<1>2. c \in Seq(Int) /\ Len(c) = n
  BY <1>1
<1>. HIDE DEF c
<1>3. /\ \A m \in 0 .. n : PartialSums(c)[m] \in Int
      /\ PartialSums(c)[0] = 0
      /\ \A m \in 1 .. n : PartialSums(c)[m] = PartialSums(c)[m - 1] + c[m]
  BY <1>2, SumsFacts
<1>. DEFINE S == {m \in Nat : m <= n => IsFiniteSet(U(m)) /\ Cardinality(U(m)) = PartialSums(c)[m]}
<1>4. 0 \in S
  <2>1. U(0) = {}
    <3>1. 1 .. 0 = {}
      OBVIOUS
    <3>. QED
      BY <3>1
  <2>. QED
    BY <1>3, <2>1, FS_EmptySet
<1>5. ASSUME NEW m \in Nat, m + 1 <= n, IsFiniteSet(U(m)), Cardinality(U(m)) = PartialSums(c)[m]
      PROVE  IsFiniteSet(U(m + 1)) /\ Cardinality(U(m + 1)) = PartialSums(c)[m + 1]
  <2>. DEFINE T == {m + 1} \X sets[m + 1]
  <2>1. m + 1 \in 1 .. n /\ m \in 0 .. n /\ (m + 1) - 1 = m
    BY <1>5
  <2>2. IsFiniteSet(T) /\ Cardinality(T) = c[m + 1]
    <3>. DEFINE f == [x \in sets[m + 1] |-> <<m + 1, x>>]
    <3>1. f \in [sets[m + 1] -> T] /\ \A x, y \in sets[m + 1] : f[x] = f[y] => x = y
      OBVIOUS
    <3>2. \A y \in T : \E x \in sets[m + 1] : f[x] = y
      OBVIOUS
    <3>3. IsFiniteSet(sets[m + 1])
      BY <2>1
    <3>. HIDE DEF f, T
    <3>4. IsFiniteSet(T) /\ Cardinality(T) = Cardinality(sets[m + 1])
      BY <3>1, <3>2, <3>3, EquallyMany
    <3>. QED
      BY <1>1, <2>1, <3>4
  <2>3. U(m + 1) = U(m) \cup T
    <3>1. 1 .. m + 1 = 1 .. m \cup {m + 1}
      OBVIOUS
    <3>. QED
      BY <3>1, Zenon
  <2>4. U(m) \cap T = {}
    <3>1. \A x \in U(m) : x[1] \in 1 .. m
      OBVIOUS
    <3>2. \A x \in T : x[1] = m + 1
      OBVIOUS
    <3>3. ~ (m + 1 \in 1 .. m)
      OBVIOUS
    <3>. HIDE DEF U, T
    <3>. QED
      BY <3>1, <3>2, <3>3
  <2>. HIDE DEF U, T
  <2>5. IsFiniteSet(U(m + 1)) /\ Cardinality(U(m + 1)) = Cardinality(U(m)) + Cardinality(T) - Cardinality({})
    BY <1>5, <2>2, <2>3, <2>4, FS_Union
  <2>6. Cardinality({}) = 0
    BY FS_EmptySet
  <2>7. PartialSums(c)[m + 1] = PartialSums(c)[m] + c[m + 1] /\ PartialSums(c)[m] \in Int /\ c[m + 1] \in Int
    BY <1>1, <1>3, <2>1
  <2>. QED
    BY <1>5, <2>2, <2>5, <2>6, <2>7
<1>6. ASSUME NEW m \in Nat, m \in S
      PROVE  m + 1 \in S
  <2>. HIDE DEF U
  <2>1. m + 1 <= n => m <= n
    OBVIOUS
  <2>. QED
    BY <1>5, <1>6, <2>1
<1>7. n \in S
  <2>. HIDE DEF S
  <2>. QED
    BY <1>4, <1>6, AllNaturals
<1>8. IsFiniteSet(U(n)) /\ Cardinality(U(n)) = PartialSums(c)[n]
  <2>. HIDE DEF U
  <2>. QED
    BY <1>7
<1>9. Cardinality(U(n)) = SumOf(c)
  BY <1>2, <1>8 DEF SumOf
<1>. QED
  BY <1>8, <1>9 DEF c

\* How many elements of a sequence are of a kind.
CountIn(s, C) == Cardinality({j \in 1 .. Len(s) : s[j] \in C})

\* Those of a kind in a flattened sequence are those in its parts together.
LEMMA FlattenCount ==
    ASSUME NEW A, NEW seqs \in Seq(Seq(A)), NEW C,
           NEW counts, counts = [k \in 1 .. Len(seqs) |-> CountIn(seqs[k], C)]
    PROVE  CountIn(FlattenSeq(seqs), C) = SumOf(counts)
<1>1. PICK at : /\ at \in [Positions(seqs) -> 1 .. Len(FlattenSeq(seqs))]
                /\ \A p \in Positions(seqs) : FlattenSeq(seqs)[at[p]] = seqs[p[1]][p[2]]
                /\ \A p, q \in Positions(seqs) : at[p] = at[q] => p = q
                /\ \A j \in 1 .. Len(FlattenSeq(seqs)) : \E p \in Positions(seqs) : at[p] = j
  BY FlattenPlaces
<1>2. PICK F : F = FlattenSeq(seqs)
  OBVIOUS
<1>. DEFINE
    M == Len(seqs)
    sets == [k \in 1 .. M |-> {i \in 1 .. Len(seqs[k]) : seqs[k][i] \in C}]
    U == UNION {{k} \X sets[k] : k \in 1 .. M}
    T == {j \in 1 .. Len(F) : F[j] \in C}
<1>3. M \in Nat /\ \A k \in 1 .. M : seqs[k] \in Seq(A) /\ Len(seqs[k]) \in Nat
  BY LenProperties, ElementOfSeq
<1>4. \A k \in 1 .. M : IsFiniteSet(sets[k])
  BY <1>3, PositionsFinite
<1>5. IsFiniteSet(U) /\ Cardinality(U) = SumOf([k \in 1 .. M |-> Cardinality(sets[k])])
  <2>. HIDE DEF sets, M
  <2>. QED
    BY <1>3, <1>4, SumOfCounts
<1>6. \A p : p \in U <=> p \in Positions(seqs) /\ seqs[p[1]][p[2]] \in C
  <2>1. ASSUME NEW p, p \in Positions(seqs), seqs[p[1]][p[2]] \in C
        PROVE  p \in U
    <3>1. PICK k \in 1 .. M : \E i \in 1 .. Len(seqs[k]) : p = <<k, i>>
      BY <2>1, PositionsAre
    <3>2. PICK i \in 1 .. Len(seqs[k]) : p = <<k, i>>
      BY <3>1
    <3>3. i \in sets[k]
      BY <2>1, <3>2
    <3>. HIDE DEF sets
    <3>. QED
      BY <3>2, <3>3
  <2>2. ASSUME NEW p, p \in U
        PROVE  p \in Positions(seqs) /\ seqs[p[1]][p[2]] \in C
    <3>1. PICK k \in 1 .. M : p \in {k} \X sets[k]
      BY <2>2
    <3>2. PICK i \in sets[k] : p = <<k, i>>
      BY <3>1
    <3>3. i \in 1 .. Len(seqs[k]) /\ seqs[k][i] \in C
      BY <3>2
    <3>. QED
      BY <3>2, <3>3, PositionsAre
  <2>. QED
    BY <2>1, <2>2
<1>. HIDE DEF U
<1>. DEFINE f == [p \in U |-> at[p]]
<1>7. f \in [U -> T]
  BY <1>1, <1>2, <1>6
<1>8. \A p, q \in U : f[p] = f[q] => p = q
  BY <1>1, <1>6
<1>9. \A j \in T : \E p \in U : f[p] = j
  <2>1. SUFFICES ASSUME NEW j \in T PROVE \E p \in U : f[p] = j
    OBVIOUS
  <2>2. PICK p \in Positions(seqs) : at[p] = j
    BY <1>1, <1>2
  <2>3. p \in U
    BY <1>1, <1>2, <1>6, <2>2
  <2>. QED
    BY <2>2, <2>3
<1>10. Cardinality(T) = Cardinality(U)
  <2>. HIDE DEF f, T
  <2>. QED
    BY <1>5, <1>7, <1>8, <1>9, EquallyMany
<1>11. [k \in 1 .. M |-> Cardinality(sets[k])] = counts
  BY DEF CountIn
<1>12. CountIn(FlattenSeq(seqs), C) = Cardinality(T)
  BY <1>2 DEF CountIn
<1>. HIDE DEF sets
<1>. QED
  BY <1>5, <1>10, <1>11, <1>12

-----------------------------------------------------------------------------
\* Verdicts are made of what was measured.

\* An item is asked once.
DistinctIds(given) == \A i, j \in DOMAIN given : given[i].id = given[j].id => i = j

\* What a stage says of its requests is what its workers did.
StageOfItsWorks(stage) ==
    /\ stage.level \in Nat /\ stage.works \in Seq(Works)
    /\ DOMAIN stage.works = 1 .. stage.level
    /\ stage.requests = RowsOf(stage.works)
    /\ stage.counts = [w \in 1 .. stage.level |-> Len(stage.works[w])]

\* The overlap is that of the stages' records, without the last or with it.
OverlapOf(stages, overlap) ==
    LET records == RequestRecords(stages)
    IN  \E missing \in {0, 1} :
            /\ missing <= Len(records)
            /\ overlap = MaxOverlap(SubSeq(records, 1, Len(records) - missing))

\* Every answer to an item was judged as often as there are passes.
AllPasses(given) ==
    \E answers, failed :
        /\ answers \in Seq(ToSet(answers))
        /\ \A i, j \in 1 .. Len(answers) :
               answers[i].id = answers[j].id /\ answers[i].model = answers[j].model => i = j
        /\ given = Scores(answers, failed)

\* The result of a phase says what happened in it.
Genuine(n, r) ==
    /\ n = "local" =>
          /\ DistinctIds(r.items)
          /\ \A i \in DOMAIN r.items : r.items[i].ok /\ r.items[i].task # "vision" =>
                 Whole(r.answers[i]) /\ r.items[i].ttft \in Nat
    /\ n = "load" =>
          /\ r.stages \in Seq(ToSet(r.stages)) /\ \A stage \in ToSet(r.stages) : StageOfItsWorks(stage)
          /\ OverlapOf(r.stages, r.overlap)
    /\ n = "openai" =>
          /\ DOMAIN r.load = DOMAIN r.chat
          /\ \A m \in DOMAIN r.chat : DistinctIds(r.chat[m]) /\ r.load[m] \in Seq(ToSet(r.load[m]))
    /\ n = "judge" => r.passes = JudgePasses /\ AllPasses(r.scores)

\* So do the caches, the results of the run and that of the phase under way.
Authentic ==
    /\ \A n \in PhaseSet : cache[n] \notin {NoFile, Torn} => Genuine(n, cache[n].result)
    /\ pc \in Underway => \A n \in DOMAIN outputs : Genuine(n, outputs[n])
    /\ pc \in {"measured", "writing"} => Genuine(Head(todo), result)
    /\ pc = "load" => Stages \in Seq(ToSet(Stages)) /\ \A stage \in ToSet(Stages) : StageOfItsWorks(stage)

\* What goes nearly as usual still is what it may be.
LEMMA NearlyIn ==
    ASSUME NEW S, NEW T, NEW usual \in T, NEW f \in Nearly(S, T, usual)
    PROVE  f \in [S -> T]
<1>1. PICK D \in {E \in SUBSET S : Cardinality(E) <= MaxTroubles - troubles} :
          f \in {[x \in S |-> IF x \in D THEN g[x] ELSE usual] : g \in [D -> T \ {usual}]}
  BY DEF Nearly
<1>2. PICK g \in [D -> T \ {usual}] : f = [x \in S |-> IF x \in D THEN g[x] ELSE usual]
  BY <1>1
<1>3. \A x \in S : f[x] \in T
  BY <1>2
<1>. QED
  BY <1>2, <1>3

\* A stream is timed if it came whole.
LEMMA TimedStreams ==
    ASSUME NEW a \in Answers, TimedStreamRequest(a).ok
    PROVE  Whole(a) /\ TimedStreamRequest(a).ttft \in Nat
<1>1. ~ FailedRow.ok
  BY DEF FailedRow
<1>2. /\ a.status = 200 /\ ~a.broken /\ ~Has(a, "garbled") /\ Has(a, "done") /\ Contents(a) # <<>>
      /\ TimedStreamRequest(a) = Served(a, Contents(a)[1].at)
  BY <1>1 DEF TimedStreamRequest
<1>3. Whole(a)
  BY <1>2, AnswersAssumption DEF Whole
<1>4. TimedStreamRequest(a).ttft = Contents(a)[1].at
  BY <1>2 DEF Served
<1>5. a.lines \in Seq(ToSet(a.lines)) /\ \A l \in ToSet(a.lines) : l.at \in Nat
  BY AnswersAssumption
<1>. DEFINE I == {i \in DOMAIN a.lines : a.lines[i].data \notin {"done", "garbled", "usage"}}
<1>6. Contents(a) = Kept(a.lines, I)
  BY DEF Contents, Filtered
<1>7. I \in SUBSET (DOMAIN a.lines)
  OBVIOUS
<1>. HIDE DEF I
<1>8. Contents(a) \in Seq(ToSet(a.lines))
  BY <1>5, <1>6, <1>7, KeptMembers
<1>9. Contents(a)[1] \in ToSet(a.lines)
  <2>1. Len(Contents(a)) \in Nat /\ Len(Contents(a)) # 0
    BY <1>2, <1>8, LenProperties, EmptySeq
  <2>2. 1 \in 1 .. Len(Contents(a))
    BY <2>1
  <2>. QED
    BY <1>8, <2>2, ElementOfSeq
<1>. QED
  BY <1>3, <1>4, <1>5, <1>9

\* What is kept of distinct elements is distinct.
LEMMA KeptDistinct ==
    ASSUME NEW A, NEW s \in Seq(A), NEW I \in SUBSET (1 .. Len(s)),
           \A i, j \in I : s[i] = s[j] => i = j
    PROVE  \A k, l \in 1 .. Len(Kept(s, I)) : Kept(s, I)[k] = Kept(s, I)[l] => k = l
<1>1. PICK t : t = Kept(s, I)
  OBVIOUS
<1>2. t \in Seq(A) /\ \E p : Picks(p, t, s, I)
  BY <1>1, KeptElements
<1>3. PICK p : Picks(p, t, s, I)
  BY <1>2
<1>4. /\ p \in [1 .. Len(t) -> I]
      /\ \A k \in 1 .. Len(t) : t[k] = s[p[k]]
      /\ \A k, l \in 1 .. Len(t) : k < l => p[k] < p[l]
  BY <1>3 DEF Picks
<1>5. Len(t) \in Nat /\ Len(s) \in Nat
  BY <1>2, LenProperties
<1>6. ASSUME NEW k \in 1 .. Len(t), NEW l \in 1 .. Len(t), t[k] = t[l]
      PROVE  k = l
  <2>1. p[k] \in I /\ p[l] \in I /\ p[k] = p[l]
    <3>1. PICK i \in I, j \in I : i = p[k] /\ j = p[l]
      BY <1>4
    <3>2. s[i] = s[j]
      BY <1>4, <1>6, <3>1
    <3>. QED
      BY <3>1, <3>2
  <2>2. p[k] \in Int /\ p[l] \in Int
    <3>1. I \subseteq Int
      BY <1>5
    <3>. QED
      BY <2>1, <3>1
  <2>3. ~ (k < l) /\ ~ (l < k)
    BY <1>4, <2>1, <2>2
  <2>. QED
    BY <1>5, <2>3
<1>. QED
  BY <1>1, <1>6

\* No item is asked twice: the parts of the sample are of different tasks.
LEMMA SampleDistinct ==
    ASSUME config \in Configs
    PROVE  \A i, j \in 1 .. Len(Sample) : Sample[i].id = Sample[j].id => i = j
<1>. DEFINE
    it == Items[config.dataset]
    A == ToSet(it)
<1>1. config.dataset \in DOMAIN Items /\ config.sample \in Nat \cup {All}
  BY BenchmarkAssumption
<1>2. /\ it \in Seq([id : Ids, task : ToSet(Tasks)])
      /\ \A i, j \in DOMAIN it : it[i].id = it[j].id => i = j
  BY <1>1, BenchmarkAssumption
<1>0. Sample \in Seq(A)
  BY SampleMembers
<1>. HIDE DEF it
<1>3. it \in Seq(A) /\ DOMAIN it = 1 .. Len(it) /\ Len(it) \in Nat /\ A = {it[i] : i \in 1 .. Len(it)}
  BY <1>2, MembersOf
<1>. HIDE DEF A
<1>4. CASE config.sample = All
  <2>1. Sample = it
    BY <1>4, Zenon DEF Sample, SampledGeneration, it
  <2>. QED
    BY <1>2, <1>3, <2>1
<1>5. CASE config.sample # All
  <2>. DEFINE
      Part(task) == LET its == ItemsForTask(it, task)
                    IN  SubSeq(its, 1, Min({config.sample, Len(its)}))
      parts == [t \in DOMAIN Tasks |-> Part(Tasks[t])]
  <2>1. ASSUME NEW task
        PROVE  /\ Part(task) \in Seq(A)
               /\ \A k \in 1 .. Len(Part(task)) : Part(task)[k].task = task
               /\ \A k, l \in 1 .. Len(Part(task)) : Part(task)[k] = Part(task)[l] => k = l
    <3>. DEFINE
        its == ItemsForTask(it, task)
        I == {i \in DOMAIN it : it[i].task = task}
    <3>0. its = Kept(it, I)
      BY DEF ItemsForTask
    <3>1. I \in SUBSET (DOMAIN it)
      OBVIOUS
    <3>2. \A i \in I : it[i].task = task
      OBVIOUS
    <3>3. \A i, j \in I : it[i] = it[j] => i = j
      BY <1>2
    <3>. HIDE DEF its, I
    <3>4. its \in Seq(A) /\ ToSet(its) = {it[i] : i \in I}
      BY <1>3, <3>0, <3>1, KeptMembers
    <3>5. \A k, l \in 1 .. Len(its) : its[k] = its[l] => k = l
      BY <1>3, <3>0, <3>1, <3>3, KeptDistinct
    <3>6. \A k \in 1 .. Len(its) : its[k].task = task
      <4>1. DOMAIN its = 1 .. Len(its)
        BY <3>4, LenProperties
      <4>2. \A k \in 1 .. Len(its) : its[k] \in {it[i] : i \in I}
        BY <3>4, <4>1 DEF ToSet
      <4>. QED
        BY <3>2, <4>2
    <3>7. Len(its) \in Nat /\ config.sample \in Nat
      BY <1>1, <1>5, <3>4, LenProperties
    <3>8. \E k \in 0 .. Len(its) : Min({config.sample, Len(its)}) = k
      <4>1. PICK a \in Nat, b \in Nat : a = config.sample /\ b = Len(its)
        BY <3>7
      <4>2. \E x \in {a, b} : \A y \in {a, b} : x =< y
        OBVIOUS
      <4>3. Min({a, b}) \in {a, b} /\ \A y \in {a, b} : Min({a, b}) =< y
        BY <4>2, Zenon DEF Min
      <4>4. Min({a, b}) \in 0 .. b
        BY <4>3
      <4>. QED
        BY <4>1, <4>4
    <3>9. PICK n \in 0 .. Len(its) : Min({config.sample, Len(its)}) = n
      BY <3>8
    <3>10. 1 \in 1 .. Len(its) + 1 /\ n \in 1 - 1 .. Len(its)
      BY <3>7
    <3>11. /\ SubSeq(its, 1, n) \in Seq(A) /\ Len(SubSeq(its, 1, n)) = n
           /\ \A k \in 1 .. n : SubSeq(its, 1, n)[k] = its[k]
      <4>1. /\ SubSeq(its, 1, n) \in Seq(A)
            /\ Len(SubSeq(its, 1, n)) = IF 1 <= n THEN n - 1 + 1 ELSE 0
            /\ \A k \in 1 .. n - 1 + 1 : SubSeq(its, 1, n)[k] = its[1 + k - 1]
        BY <3>4, <3>10, SubSeqProperties
      <4>2. \A k \in 1 .. n : 1 + k - 1 = k /\ k \in 1 .. n - 1 + 1
        OBVIOUS
      <4>. QED
        BY <4>1, <4>2
    <3>12. Part(task) = SubSeq(its, 1, n)
      BY <3>9 DEF its
    <3>13. \A k \in 1 .. n : k \in 1 .. Len(its)
      BY <3>7
    <3>. HIDE DEF Part
    <3>. QED
      BY <3>5, <3>6, <3>11, <3>12, <3>13
  <2>. HIDE DEF Part
  <2>2. DOMAIN Tasks = 1 .. 5 /\ \A t, u \in 1 .. 5 : Tasks[t] = Tasks[u] => t = u
    BY DEF Tasks
  <2>3. parts \in Seq(Seq(A)) /\ Len(parts) = 5 /\ \A t \in 1 .. 5 : parts[t] = Part(Tasks[t])
    BY <2>1, <2>2
  <2>. HIDE DEF parts
  <2>4. \A p, q \in Positions(parts) : parts[p[1]][p[2]] = parts[q[1]][q[2]] => p = q
    <3>1. SUFFICES ASSUME NEW p \in Positions(parts), NEW q \in Positions(parts),
                          parts[p[1]][p[2]] = parts[q[1]][q[2]]
                   PROVE  p = q
      OBVIOUS
    <3>10. \A r : r \in Positions(parts) =>
              \E t \in 1 .. 5 : \E k \in 1 .. Len(parts[t]) : r = <<t, k>>
      <4>1. \A r : r \in Positions(parts) =>
                \E t \in 1 .. Len(parts) : \E k \in 1 .. Len(parts[t]) : r = <<t, k>>
        BY DEF Positions
      <4>2. 1 .. Len(parts) = 1 .. 5
        BY <2>3
      <4>3. ASSUME NEW r, r \in Positions(parts)
            PROVE  \E t \in 1 .. 5 : \E k \in 1 .. Len(parts[t]) : r = <<t, k>>
        <5>1. PICK t \in 1 .. Len(parts) : \E k \in 1 .. Len(parts[t]) : r = <<t, k>>
          BY <4>1, <4>3
        <5>2. t \in 1 .. 5
          BY <4>2
        <5>. QED
          BY <5>1, <5>2
      <4>. QED
        BY <4>3
    <3>2. PICK t \in 1 .. 5 : \E k \in 1 .. Len(parts[t]) : p = <<t, k>>
      BY <3>10
    <3>3. PICK k \in 1 .. Len(parts[t]) : p = <<t, k>>
      BY <3>2
    <3>4. PICK u \in 1 .. 5 : \E l \in 1 .. Len(parts[u]) : q = <<u, l>>
      BY <3>10
    <3>5. PICK l \in 1 .. Len(parts[u]) : q = <<u, l>>
      BY <3>4
    <3>6. parts[t][k] = parts[u][l]
      BY <3>1, <3>3, <3>5
    <3>7. parts[t][k].task = Tasks[t] /\ parts[u][l].task = Tasks[u]
      <4>1. parts[t] = Part(Tasks[t]) /\ parts[u] = Part(Tasks[u])
        BY <2>3
      <4>. QED
        BY <2>1, <4>1
    <3>8. t = u
      BY <2>2, <3>6, <3>7
    <3>9. k = l
      BY <2>1, <2>3, <3>6, <3>8
    <3>. QED
      BY <3>3, <3>5, <3>8, <3>9
  <2>5. Sample = FlattenSeq(parts)
    BY <1>5 DEF Sample, SampledGeneration, Part, it, parts
  <2>6. \A i, j \in 1 .. Len(Sample) : Sample[i] = Sample[j] => i = j
    BY <2>3, <2>4, <2>5, FlattenDistinct
  <2>7. ASSUME NEW i \in 1 .. Len(Sample), NEW j \in 1 .. Len(Sample), Sample[i].id = Sample[j].id
        PROVE  i = j
    <3>1. Sample[i] \in A /\ Sample[j] \in A
      BY <1>0, ElementOfSeq DEF A
    <3>2. Sample[i] = Sample[j]
      BY <1>2, <1>3, <2>7, <3>1
    <3>. QED
      BY <2>6, <3>2
  <2>. QED
    BY <2>7
<1>. QED
  BY <1>4, <1>5

\* An answer of a model is judged once.
LEMMA JudgedDistinct ==
    ASSUME NEW given, given \in Seq(ToSet(given)), DistinctIds(given), NEW model
    PROVE  /\ \A k \in 1 .. Len(Judged(model, given)) : Judged(model, given)[k].model = model
           /\ \A k, l \in 1 .. Len(Judged(model, given)) :
                  Judged(model, given)[k].id = Judged(model, given)[l].id => k = l
<1>. DEFINE
    I == {i \in DOMAIN given : given[i].ok /\ given[i].task \in JudgedTasks}
    kept == Kept(given, I)
    Entry(r) == [id |-> r.id, model |-> model, text |-> r.text]
<1>1. DOMAIN given = 1 .. Len(given)
  BY LenProperties
<1>2. I \in SUBSET (1 .. Len(given))
  BY <1>1
<1>3. \A i, j \in I : given[i].id = given[j].id => i = j
  BY DEF DistinctIds
<1>4. Judged(model, given) = [i \in DOMAIN kept |-> Entry(kept[i])]
  BY DEF Judged, Column
<1>. HIDE DEF I
<1>5. kept \in Seq(ToSet(given)) /\ ToSet(kept) = {given[i] : i \in I}
  <2>1. I \in SUBSET (DOMAIN given)
    BY <1>1, <1>2
  <2>. QED
    BY <2>1, KeptMembers
<1>6. \A k, l \in 1 .. Len(kept) : kept[k] = kept[l] => k = l
  <2>1. \A i, j \in I : given[i] = given[j] => i = j
    BY <1>3
  <2>. QED
    BY <1>2, <2>1, KeptDistinct
<1>. HIDE DEF kept
<1>7. DOMAIN kept = 1 .. Len(kept) /\ Len(kept) \in Nat
  BY <1>5, LenProperties
<1>8. \A k \in 1 .. Len(kept) : kept[k] \in {given[i] : i \in I}
  BY <1>5, <1>7 DEF ToSet
<1>9. ASSUME NEW k \in 1 .. Len(kept), NEW l \in 1 .. Len(kept), kept[k].id = kept[l].id
      PROVE  k = l
  <2>1. PICK i \in I : kept[k] = given[i]
    BY <1>8
  <2>2. PICK j \in I : kept[l] = given[j]
    BY <1>8
  <2>3. i = j
    BY <1>3, <1>9, <2>1, <2>2
  <2>. QED
    BY <1>6, <2>1, <2>2, <2>3
<1>. DEFINE f == [i \in 1 .. Len(kept) |-> Entry(kept[i])]
<1>10. Judged(model, given) = f
  BY <1>4, <1>7
<1>11. Len(f) = Len(kept)
  BY <1>7
<1>12. \A k \in 1 .. Len(kept) : f[k].model = model /\ f[k].id = kept[k].id
  OBVIOUS
<1>. HIDE DEF f
<1>. QED
  BY <1>9, <1>10, <1>11, <1>12

\* An answer is to be judged once.
LEMMA ToJudgeDistinct ==
    ASSUME NEW out, NEW models \in Seq(Models), IsInjective(models),
           out.local.items \in Seq(ToSet(out.local.items)), DistinctIds(out.local.items),
           \A m \in ToSet(models) : /\ out.openai.chat[m] \in Seq(ToSet(out.openai.chat[m]))
                                    /\ DistinctIds(out.openai.chat[m])
    PROVE  LET answers == AnswersToJudge(out, models)
           IN  \A i, j \in 1 .. Len(answers) :
                   answers[i].id = answers[j].id /\ answers[i].model = answers[j].model => i = j
<1>. DEFINE
    parts == [i \in DOMAIN models |-> Judged(models[i], out.openai.chat[models[i]])]
    first == Judged(LocalModel, out.local.items)
    A == OpenAnswers(LocalModel, out.local.items)
         \cup UNION {OpenAnswers(m, out.openai.chat[m]) : m \in ToSet(models)}
    Same(a, b) == a.id = b.id /\ a.model = b.model
<1>1. /\ DOMAIN models = 1 .. Len(models) /\ Len(models) \in Nat
      /\ \A i \in 1 .. Len(models) : models[i] \in ToSet(models) /\ models[i] \in Models
      /\ \A i, j \in 1 .. Len(models) : models[i] = models[j] => i = j
  <2>1. /\ DOMAIN models = 1 .. Len(models) /\ Len(models) \in Nat
        /\ ToSet(models) = {models[i] : i \in 1 .. Len(models)} /\ ToSet(models) \subseteq Models
    BY MembersOf
  <2>2. \A i, j \in DOMAIN models : models[i] = models[j] => i = j
    BY DEF IsInjective
  <2>. QED
    BY <2>1, <2>2
<1>2. AnswersToJudge(out, models) = first \o FlattenSeq(parts)
  BY DEF AnswersToJudge, Column
<1>3. \A B, s : B \subseteq A /\ s \in Seq(B) => s \in Seq(A)
  OBVIOUS
<1>4. /\ first \in Seq(A)
      /\ \A k \in 1 .. Len(first) : first[k].model = LocalModel
      /\ \A k, l \in 1 .. Len(first) : first[k].id = first[l].id => k = l
  <2>1. first \in Seq(OpenAnswers(LocalModel, out.local.items))
    BY JudgedMembers
  <2>2. OpenAnswers(LocalModel, out.local.items) \subseteq A
    OBVIOUS
  <2>. HIDE DEF A
  <2>3. first \in Seq(A)
    BY <1>3, <2>1, <2>2
  <2>. QED
    BY <2>3, JudgedDistinct
<1>5. ASSUME NEW i \in 1 .. Len(models)
      PROVE  /\ parts[i] \in Seq(A)
             /\ \A k \in 1 .. Len(parts[i]) : parts[i][k].model = models[i]
             /\ \A k, l \in 1 .. Len(parts[i]) : parts[i][k].id = parts[i][l].id => k = l
  <2>1. PICK m, given : m \in ToSet(models) /\ m = models[i] /\ given = out.openai.chat[m]
    BY <1>1
  <2>2. parts[i] = Judged(m, given)
    BY <1>1, <2>1
  <2>3. given \in Seq(ToSet(given)) /\ DistinctIds(given)
    BY <2>1
  <2>4. Judged(m, given) \in Seq(OpenAnswers(m, given))
    BY <2>3, JudgedMembers
  <2>5. OpenAnswers(m, given) \subseteq A
    BY <2>1
  <2>. HIDE DEF A, parts
  <2>6. Judged(m, given) \in Seq(A)
    BY <1>3, <2>4, <2>5
  <2>7. /\ \A k \in 1 .. Len(Judged(m, given)) : Judged(m, given)[k].model = m
        /\ \A k, l \in 1 .. Len(Judged(m, given)) : Judged(m, given)[k].id = Judged(m, given)[l].id => k = l
    BY <2>3, JudgedDistinct
  <2>. QED
    BY <2>1, <2>2, <2>6, <2>7
<1>6. Len(parts) = Len(models) /\ DOMAIN parts = 1 .. Len(models)
      /\ parts = [i \in 1 .. Len(models) |-> parts[i]]
  BY <1>1
<1>. HIDE DEF parts, first, A
<1>7. parts \in Seq(Seq(A))
  BY <1>1, <1>5, <1>6
<1>8. PICK F : F = FlattenSeq(parts)
  OBVIOUS
<1>9. F \in Seq(A)
  BY <1>7, <1>8, FlattenMembers
<1>10a. \E at : /\ at \in [Positions(parts) -> 1 .. Len(FlattenSeq(parts))]
                /\ \A p \in Positions(parts) : FlattenSeq(parts)[at[p]] = parts[p[1]][p[2]]
                /\ \A p, q \in Positions(parts) : at[p] = at[q] => p = q
                /\ \A j \in 1 .. Len(FlattenSeq(parts)) : \E p \in Positions(parts) : at[p] = j
  BY <1>7, FlattenPlaces
<1>10. PICK at : /\ at \in [Positions(parts) -> 1 .. Len(F)]
                 /\ \A p \in Positions(parts) : F[at[p]] = parts[p[1]][p[2]]
                 /\ \A j \in 1 .. Len(F) : \E p \in Positions(parts) : at[p] = j
  BY <1>8, <1>10a
<1>11. ASSUME NEW j \in 1 .. Len(F)
       PROVE  \E i \in 1 .. Len(models) : \E k \in 1 .. Len(parts[i]) :
                  at[<<i, k>>] = j /\ F[j] = parts[i][k] /\ F[j].model = models[i]
  <2>1. PICK p \in Positions(parts) : at[p] = j
    BY <1>10
  <2>2. PICK i \in 1 .. Len(parts) : \E k \in 1 .. Len(parts[i]) : p = <<i, k>>
    BY <2>1 DEF Positions
  <2>3. PICK k \in 1 .. Len(parts[i]) : p = <<i, k>>
    BY <2>2
  <2>4. F[j] = parts[i][k]
    BY <1>10, <2>1, <2>3
  <2>5. i \in 1 .. Len(models)
    BY <1>6
  <2>. QED
    BY <1>5, <2>1, <2>3, <2>4, <2>5
<1>12. ASSUME NEW j \in 1 .. Len(F), NEW l \in 1 .. Len(F), F[j].id = F[l].id, F[j].model = F[l].model
       PROVE  j = l
  <2>1. PICK i \in 1 .. Len(models) : \E k \in 1 .. Len(parts[i]) :
            at[<<i, k>>] = j /\ F[j] = parts[i][k] /\ F[j].model = models[i]
    BY <1>11
  <2>2. PICK k \in 1 .. Len(parts[i]) :
            at[<<i, k>>] = j /\ F[j] = parts[i][k] /\ F[j].model = models[i]
    BY <2>1
  <2>3. PICK h \in 1 .. Len(models) : \E n \in 1 .. Len(parts[h]) :
            at[<<h, n>>] = l /\ F[l] = parts[h][n] /\ F[l].model = models[h]
    BY <1>11
  <2>4. PICK n \in 1 .. Len(parts[h]) :
            at[<<h, n>>] = l /\ F[l] = parts[h][n] /\ F[l].model = models[h]
    BY <2>3
  <2>5. i = h
    BY <1>1, <1>12, <2>2, <2>4
  <2>6. k = n
    BY <1>5, <1>12, <2>2, <2>4, <2>5
  <2>. QED
    BY <2>2, <2>4, <2>5, <2>6
<1>13. \A j \in 1 .. Len(F) : F[j].model # LocalModel
  <2>1. LocalModel \notin Models
    BY BenchmarkAssumption
  <2>2. ASSUME NEW j \in 1 .. Len(F)
        PROVE  F[j].model # LocalModel
    <3>1. PICK i \in 1 .. Len(models) : F[j].model = models[i]
      BY <1>11
    <3>. QED
      BY <1>1, <2>1, <3>1
  <2>. QED
    BY <2>2
<1>14. PICK answers : answers = first \o F
  OBVIOUS
<1>15. /\ Len(first) \in Nat /\ Len(F) \in Nat /\ Len(answers) = Len(first) + Len(F)
       /\ \A i \in 1 .. Len(first) : answers[i] = first[i]
       /\ \A i \in 1 .. Len(answers) : ~ (i <= Len(first)) =>
              i - Len(first) \in 1 .. Len(F) /\ answers[i] = F[i - Len(first)]
  <2>1. first \in Seq(A) /\ F \in Seq(A)
    BY <1>4, <1>9
  <2>2. /\ Len(first) \in Nat /\ Len(F) \in Nat
        /\ Len(answers) = Len(first) + Len(F)
        /\ \A i \in 1 .. Len(first) + Len(F) :
               answers[i] = IF i <= Len(first) THEN first[i] ELSE F[i - Len(first)]
    BY <1>14, <2>1, ConcatProperties, LenProperties
  <2>. QED
    BY <2>2
<1>16. ASSUME NEW i \in 1 .. Len(answers), NEW j \in 1 .. Len(answers), Same(answers[i], answers[j])
       PROVE  i = j
  <2>1. CASE i <= Len(first) /\ j <= Len(first)
    <3>1. i \in 1 .. Len(first) /\ j \in 1 .. Len(first)
      BY <1>15, <2>1
    <3>. QED
      BY <1>4, <1>15, <1>16, <3>1
  <2>2. CASE ~ (i <= Len(first)) /\ ~ (j <= Len(first))
    <3>1. PICK x \in 1 .. Len(F), y \in 1 .. Len(F) :
              x = i - Len(first) /\ y = j - Len(first) /\ answers[i] = F[x] /\ answers[j] = F[y]
      BY <1>15, <2>2
    <3>2. x = y
      BY <1>12, <1>16, <3>1
    <3>. QED
      BY <1>15, <3>1, <3>2
  <2>3. CASE i <= Len(first) /\ ~ (j <= Len(first))
    <3>1. i \in 1 .. Len(first) /\ answers[i] = first[i]
      BY <1>15, <2>3
    <3>2. PICK y \in 1 .. Len(F) : answers[j] = F[y]
      BY <1>15, <2>3
    <3>. QED
      BY <1>4, <1>13, <1>16, <3>1, <3>2
  <2>4. CASE ~ (i <= Len(first)) /\ j <= Len(first)
    <3>1. j \in 1 .. Len(first) /\ answers[j] = first[j]
      BY <1>15, <2>4
    <3>2. PICK y \in 1 .. Len(F) : answers[i] = F[y]
      BY <1>15, <2>4
    <3>. QED
      BY <1>4, <1>13, <1>16, <3>1, <3>2
  <2>. QED
    BY <2>1, <2>2, <2>3, <2>4
<1>17. answers = AnswersToJudge(out, models)
  BY <1>2, <1>8, <1>14
<1>. QED
  BY <1>16, <1>17

\* The rows of a sample are of distinct items.
LEMMA SampleRowsDistinct ==
    ASSUME config \in Configs, NEW given, given = [i \in DOMAIN Sample |-> given[i]],
           \A i \in DOMAIN Sample : given[i].id = Sample[i].id
    PROVE  DistinctIds(given)
<1>1. DOMAIN Sample = 1 .. Len(Sample)
  BY SampleMembers, LenProperties
<1>2. \A i, j \in DOMAIN Sample : Sample[i].id = Sample[j].id => i = j
  BY <1>1, SampleDistinct
<1>3. DOMAIN given = DOMAIN Sample
  OBVIOUS
<1>. QED
  BY <1>2, <1>3 DEF DistinctIds

LEMMA MeasureLocalIsGenuine ==
    ASSUME config \in Configs, MeasureLocal
    PROVE  Genuine("local", result')
<1>1. PICK answers \in Nearly(DOMAIN Sample, Answers, UsualAnswer) : result' =
          [items |-> [i \in DOMAIN Sample |->
                         WithItem(Sample[i], IF Sample[i].task = "vision"
                                             THEN TimedBufferedRequest(answers[i])
                                             ELSE TimedStreamRequest(answers[i]))],
           embedding |-> "whole", answers |-> answers, under |-> Conditions]
  BY DEF MeasureLocal
<1>2. answers \in [DOMAIN Sample -> Answers]
  <2>1. UsualAnswer \in Answers
    BY BenchmarkAssumption
  <2>. QED
    BY <2>1, NearlyIn
<1>3. PICK r : r = result'
  OBVIOUS
<1>4. PICK given : given = r.items
  OBVIOUS
<1>5. r.answers = answers
  BY <1>1, <1>3
<1>6. given = [i \in DOMAIN Sample |->
                  WithItem(Sample[i], IF Sample[i].task = "vision"
                                      THEN TimedBufferedRequest(answers[i])
                                      ELSE TimedStreamRequest(answers[i]))]
  BY <1>1, <1>3, <1>4
<1>7. given = [i \in DOMAIN Sample |-> given[i]] /\ DOMAIN given = DOMAIN Sample
  BY <1>6
<1>8. DistinctIds(given)
  <2>1. \A i \in DOMAIN Sample : given[i].id = Sample[i].id
    BY <1>6 DEF WithItem
  <2>. QED
    BY <1>7, <2>1, SampleRowsDistinct
<1>9. ASSUME NEW i \in DOMAIN given, given[i].ok, given[i].task # "vision"
      PROVE  Whole(answers[i]) /\ given[i].ttft \in Nat
  <2>1. i \in DOMAIN Sample /\ given[i].task = Sample[i].task
    BY <1>6, <1>7 DEF WithItem
  <2>2. given[i] = WithItem(Sample[i], TimedStreamRequest(answers[i]))
    BY <1>6, <1>9, <2>1
  <2>3. TimedStreamRequest(answers[i]).ok /\ given[i].ttft = TimedStreamRequest(answers[i]).ttft
    BY <1>9, <2>2 DEF WithItem
  <2>4. answers[i] \in Answers
    BY <1>2, <2>1
  <2>. QED
    BY <2>3, <2>4, TimedStreams
<1>10. Genuine("local", r)
  BY <1>4, <1>5, <1>8, <1>9 DEF Genuine
<1>. QED
  BY <1>3, <1>10

LEMMA AskOpenAiIsGenuine ==
    ASSUME config \in Configs, AskOpenAi
    PROVE  Genuine("openai", result')
<1>1. PICK r : r = result'
  OBVIOUS
<1>2. DOMAIN r.chat = ToSet(config.models) /\ DOMAIN r.load = ToSet(config.models)
  BY <1>1 DEF AskOpenAi
<1>3. \A m \in ToSet(config.models) : r.chat[m] = [i \in DOMAIN Sample |-> r.chat[m][i]]
  BY <1>1 DEF AskOpenAi
<1>4. \A m \in ToSet(config.models) : r.load[m] = [i \in 1 .. LoadPrompts |-> r.load[m][i]]
  BY <1>1 DEF AskOpenAi
<1>5. \A m \in ToSet(config.models) : \A i \in DOMAIN Sample : r.chat[m][i].id = Sample[i].id
  BY <1>1 DEF AskOpenAi, WithItem
<1>6. ASSUME NEW m \in ToSet(config.models)
      PROVE  DistinctIds(r.chat[m]) /\ r.load[m] \in Seq(ToSet(r.load[m]))
  <2>1. PICK given, load : given = r.chat[m] /\ load = r.load[m]
    OBVIOUS
  <2>2. \A i \in DOMAIN Sample : given[i].id = Sample[i].id
    BY <1>5, <2>1
  <2>3. given = [i \in DOMAIN Sample |-> given[i]]
    BY <1>3, <2>1
  <2>4. DistinctIds(given)
    BY <2>2, <2>3, SampleRowsDistinct
  <2>5. load = [i \in 1 .. LoadPrompts |-> load[i]] /\ LoadPrompts \in Nat
    BY <1>4, <2>1, BenchmarkAssumption
  <2>6. \A i \in 1 .. LoadPrompts : load[i] \in ToSet(load)
    BY <2>5 DEF ToSet
  <2>7. load \in Seq(ToSet(load))
    BY <2>5, <2>6
  <2>. QED
    BY <2>1, <2>4, <2>7
<1>. QED
  BY <1>1, <1>2, <1>6 DEF Genuine

LEMMA JudgeIsGenuine ==
    ASSUME Control, Measured, Authentic, Judge, pc' = "measured"
    PROVE  Genuine("judge", result')
<1>1. pc = "judge" /\ pc \in Underway
  BY DEF Judge, Underway, PhaseSet
<1>2. PICK out : out = outputs
  OBVIOUS
<1>3. /\ config \in Configs /\ config.models \in Seq(Models)
      /\ OfItems(config.dataset, out.local.items)
      /\ DOMAIN out.openai.chat = ToSet(config.models)
      /\ \A m \in ToSet(config.models) : OfItems(config.dataset, out.openai.chat[m])
      /\ AnswersToJudge(out, config.models) \in Seq(ToSet(AnswersToJudge(out, config.models)))
  BY <1>2, JudgedAnswers
<1>4. {"local", "openai"} \subseteq DOMAIN outputs
  <2>1. Ordered(todo) /\ todo # <<>> /\ Head(todo) = "judge"
    BY JudgedAnswers
  <2>2. ToSet(todo) = {"judge"} \cup ToSet(Tail(todo)) /\ Tail(todo) = <<>>
    BY <2>1, OrderedTail
  <2>3. ToSet(<<>>) = {}
    <3>1. DOMAIN <<>> = {}
      OBVIOUS
    <3>. QED
      BY <3>1 DEF ToSet
  <2>4. ToSet(todo) = {"judge"}
    BY <2>2, <2>3
  <2>. QED
    BY <1>1, <2>4 DEF Control
<1>5. Genuine("local", out["local"]) /\ Genuine("openai", out["openai"])
  BY <1>1, <1>2, <1>4 DEF Authentic
<1>6. /\ DistinctIds(out.local.items)
      /\ \A m \in ToSet(config.models) : DistinctIds(out.openai.chat[m])
  BY <1>3, <1>5 DEF Genuine
<1>7. IsInjective(config.models)
  BY <1>3, BenchmarkAssumption
<1>8. PICK answers : answers = AnswersToJudge(out, config.models)
  OBVIOUS
<1>9. /\ answers \in Seq(ToSet(answers))
      /\ \A i, j \in 1 .. Len(answers) :
             answers[i].id = answers[j].id /\ answers[i].model = answers[j].model => i = j
  <2>1. /\ out.local.items \in Seq(ToSet(out.local.items))
        /\ \A m \in ToSet(config.models) : out.openai.chat[m] \in Seq(ToSet(out.openai.chat[m]))
    BY <1>3 DEF OfItems
  <2>. QED
    BY <1>3, <1>6, <1>7, <1>8, <2>1, ToJudgeDistinct
<1>10. PICK r : r = result'
  OBVIOUS
<1>. DEFINE found == AnswersToJudge(outputs, config.models)
<1>11. r.passes = JudgePasses /\ \E failed : r.scores = Scores(found, failed)
  BY <1>10 DEF Judge, End
<1>. HIDE DEF found
<1>12. found = answers
  BY <1>2, <1>8 DEF found
<1>13. AllPasses(r.scores)
  BY <1>9, <1>11, <1>12 DEF AllPasses
<1>. QED
  BY <1>10, <1>11, <1>13 DEF Genuine

\* A stage that was measured is of its works.
LEMMA MeasureStageIsGenuine ==
    ASSUME config \in Configs, MeasureStage,
           Stages \in Seq(ToSet(Stages)), \A stage \in ToSet(Stages) : StageOfItsWorks(stage)
    PROVE  Stages' \in Seq(ToSet(Stages')) /\ \A stage \in ToSet(Stages') : StageOfItsWorks(stage)
<1>1. PICK before : before = Stages
  OBVIOUS
<1>2. config.levels \in Seq(Nat) /\ Len(before) < Len(config.levels)
  BY <1>1, BenchmarkAssumption DEF MeasureStage
<1>3. PICK level : level = config.levels[Len(before) + 1]
  OBVIOUS
<1>4. \E works \in Nearly(1 .. level, Works, UsualWork) : \E watts, ps, idle :
          result' = [idle |-> idle,
                     stages |-> Append(before,
                         [level |-> level, requests |-> RowsOf(works),
                          counts |-> [w \in 1 .. level |-> Len(works[w])],
                          watts |-> watts, ps |-> ps, seconds |-> StageSeconds,
                          works |-> works])]
  BY <1>1, <1>3 DEF MeasureStage
<1>5. PICK works \in Nearly(1 .. level, Works, UsualWork) : \E watts, ps, idle :
          result' = [idle |-> idle,
                     stages |-> Append(before,
                         [level |-> level, requests |-> RowsOf(works),
                          counts |-> [w \in 1 .. level |-> Len(works[w])],
                          watts |-> watts, ps |-> ps, seconds |-> StageSeconds,
                          works |-> works])]
  BY <1>4
<1>6. PICK watts, ps, idle :
          result' = [idle |-> idle,
                     stages |-> Append(before,
                         [level |-> level, requests |-> RowsOf(works),
                          counts |-> [w \in 1 .. level |-> Len(works[w])],
                          watts |-> watts, ps |-> ps, seconds |-> StageSeconds,
                          works |-> works])]
  BY <1>5
<1>7. PICK stage :
          stage = [level |-> level, requests |-> RowsOf(works),
                   counts |-> [w \in 1 .. level |-> Len(works[w])],
                   watts |-> watts, ps |-> ps, seconds |-> StageSeconds,
                   works |-> works]
  OBVIOUS
<1>8. result' = [idle |-> idle, stages |-> Append(before, stage)]
  BY <1>6, <1>7
<1>9. Stages' = Append(before, stage)
  <2>1. result' # Nothing
    <3>1. "idle" \in DOMAIN result'
      BY <1>8
    <3>. QED
      BY <3>1, ResultIsThere
  <2>. QED
    BY <1>8, <2>1 DEF Stages
<1>10. level \in Nat
  <2>1. before \in Seq(ToSet(before))
    BY <1>1
  <2>2. Len(before) \in Nat /\ Len(config.levels) \in Nat
    BY <1>2, <2>1, LenProperties
  <2>3. Len(before) + 1 \in 1 .. Len(config.levels)
    BY <1>2, <2>2
  <2>. QED
    BY <1>2, <1>3, <2>3, ElementOfSeq
<1>11. works \in [1 .. level -> Works]
  <2>1. UsualWork \in Works
    BY BenchmarkAssumption
  <2>. QED
    BY <2>1, NearlyIn
<1>12. StageOfItsWorks(stage)
  BY <1>7, <1>10, <1>11 DEF StageOfItsWorks
<1>13. PICK B : B = ToSet(before) \cup {stage}
  OBVIOUS
<1>14. before \in Seq(B) /\ stage \in B
  <2>1. before \in Seq(ToSet(before)) /\ ToSet(before) \subseteq B
    BY <1>1, <1>13
  <2>. QED
    BY <1>13, <2>1
<1>15. Append(before, stage) \in Seq(B)
  BY <1>14
<1>16. /\ Append(before, stage) \in Seq(ToSet(Append(before, stage)))
       /\ ToSet(Append(before, stage)) \subseteq B
  BY <1>15, MembersOf
<1>. QED
  BY <1>1, <1>9, <1>12, <1>13, <1>16

LEMMA FinishLoadIsGenuine ==
    ASSUME FinishLoad, Stages \in Seq(ToSet(Stages)), \A stage \in ToSet(Stages) : StageOfItsWorks(stage)
    PROVE  Genuine("load", result')
<1>1. PICK stages : stages = Stages
  OBVIOUS
<1>2. PICK r : r = result'
  OBVIOUS
<1>3. PICK missing \in {0, 1} :
          /\ missing <= Len(RequestRecords(stages))
          /\ r.stages = stages
          /\ r.overlap = MaxOverlap(SubSeq(RequestRecords(stages), 1, Len(RequestRecords(stages)) - missing))
  BY <1>1, <1>2 DEF FinishLoad
<1>4. OverlapOf(r.stages, r.overlap)
  BY <1>3 DEF OverlapOf
<1>. QED
  BY <1>1, <1>2, <1>3, <1>4 DEF Genuine

\* Nothing changes of the results, or the run measures no more.
LEMMA StillAuthentic ==
    ASSUME Authentic, cache' = cache,
           \/ outputs' = outputs /\ pc \in Underway /\ pc' \in Underway \ {"measured", "writing", "load"}
           \/ pc' \in {"idle", "publishing"}
    PROVE  Authentic'
<1>1. \A n \in PhaseSet : cache'[n] \notin {NoFile, Torn} => Genuine(n, cache'[n].result)
  BY DEF Authentic
<1>2. CASE pc' \in {"idle", "publishing"}
  <2>1. pc' \notin Underway /\ pc' \notin {"measured", "writing"} /\ pc' # "load"
    BY <1>2 DEF Underway, PhaseSet
  <2>. QED
    BY <1>1, <2>1 DEF Authentic
<1>3. CASE outputs' = outputs /\ pc \in Underway /\ pc' \in Underway \ {"measured", "writing", "load"}
  <2>1. \A n \in DOMAIN outputs' : Genuine(n, outputs'[n])
    BY <1>3 DEF Authentic
  <2>2. pc' \notin {"measured", "writing"} /\ pc' # "load"
    BY <1>3
  <2>. QED
    BY <1>1, <2>1, <2>2 DEF Authentic
<1>. QED
  BY <1>2, <1>3

\* A phase has been measured.
LEMMA NowAuthentic ==
    ASSUME Control, Authentic, UNCHANGED <<cache, todo, outputs>>,
           pc \in PhaseSet, pc' = "measured", Genuine(pc, result')
    PROVE  Authentic'
<1>1. pc = Head(todo) /\ pc \in Underway
  BY DEF Control, Underway
<1>2. cache' = cache /\ todo' = todo /\ outputs' = outputs
  OBVIOUS
<1>3. Genuine(Head(todo'), result')
  BY <1>1, <1>2
<1>. QED
  BY <1>1, <1>2, <1>3 DEF Authentic

LEMMA PhaseKeepsAuthentic ==
    ASSUME Control, Measured, Filled, Authentic,
           \/ StartGateway \/ Healthy \/ StartupFails \/ PhaseFails
           \/ MeasureLocal \/ MeasureStage \/ FinishLoad \/ AskOpenAi \/ Judge
    PROVE  Authentic'
<1>0. \A n \in PhaseSet : pc = n => config \in Configs
  BY DEF Control, PhaseSet
<1>1. CASE StartGateway
  <2>1. cache' = cache /\ outputs' = outputs /\ pc \in Underway
        /\ pc' \in Underway \ {"measured", "writing", "load"}
    BY <1>1 DEF StartGateway, files, Underway
  <2>. QED
    BY <2>1, StillAuthentic
<1>2. CASE Healthy
  <2>1. /\ cache' = cache /\ todo' = todo /\ outputs' = outputs /\ result' = result
        /\ pc = "booting" /\ pc' = Head(todo)
    BY <1>2 DEF Healthy, files, Current
  <2>2. pc' \in {"local", "load"}
    BY <2>1 DEF Control
  <2>3. pc \in Underway /\ pc' \in Underway
    BY <2>1, <2>2 DEF Underway, PhaseSet
  <2>4. CASE pc' = "local"
    BY <2>1, <2>3, <2>4, StillAuthentic
  <2>5. CASE pc' = "load"
    <3>1. Stages' = <<>>
      BY <2>1 DEF Filled, Stages
    <3>2. \A s : s = <<>> => s \in Seq(ToSet(s)) /\ \A stage \in ToSet(s) : StageOfItsWorks(stage)
      <4>1. ToSet(<<>>) = {}
        <5>1. DOMAIN <<>> = {}
          OBVIOUS
        <5>. QED
          BY <5>1 DEF ToSet
      <4>. QED
        BY <4>1
    <3>3. Stages' \in Seq(ToSet(Stages')) /\ \A stage \in ToSet(Stages') : StageOfItsWorks(stage)
      BY <3>1, <3>2
    <3>4. \A n \in DOMAIN outputs' : Genuine(n, outputs'[n])
      BY <2>1, <2>3 DEF Authentic
    <3>. QED
      BY <2>1, <2>5, <3>3, <3>4 DEF Authentic
  <2>. QED
    BY <2>2, <2>4, <2>5
<1>3. CASE StartupFails \/ PhaseFails
  <2>1. pc' = "idle" /\ cache' = cache
    BY <1>3 DEF StartupFails, PhaseFails, files, End
  <2>. QED
    BY <2>1, StillAuthentic
<1>4. CASE MeasureLocal
  <2>1. UNCHANGED <<cache, todo, outputs>> /\ pc = "local" /\ pc' = "measured" /\ "local" \in PhaseSet
    BY <1>4 DEF MeasureLocal, files, PhaseSet
  <2>2. Genuine("local", result')
    BY <1>0, <1>4, <2>1, MeasureLocalIsGenuine
  <2>. QED
    BY <2>1, <2>2, NowAuthentic
<1>5. CASE MeasureStage
  <2>1. /\ cache' = cache /\ outputs' = outputs /\ pc = "load" /\ pc' = "load"
        /\ "load" \in PhaseSet /\ "load" \in Underway
    BY <1>5 DEF MeasureStage, files, PhaseSet, Underway
  <2>2. Stages \in Seq(ToSet(Stages)) /\ \A stage \in ToSet(Stages) : StageOfItsWorks(stage)
    BY <2>1 DEF Authentic
  <2>3. Stages' \in Seq(ToSet(Stages')) /\ \A stage \in ToSet(Stages') : StageOfItsWorks(stage)
    BY <1>0, <1>5, <2>1, <2>2, MeasureStageIsGenuine
  <2>4. \A n \in DOMAIN outputs' : Genuine(n, outputs'[n])
    BY <2>1 DEF Authentic
  <2>5. \A n \in PhaseSet : cache'[n] \notin {NoFile, Torn} => Genuine(n, cache'[n].result)
    BY <2>1 DEF Authentic
  <2>. QED
    BY <2>1, <2>3, <2>4, <2>5 DEF Authentic
<1>6. CASE FinishLoad
  <2>1. UNCHANGED <<cache, todo, outputs>> /\ pc = "load" /\ pc' = "measured" /\ "load" \in PhaseSet
    BY <1>6 DEF FinishLoad, files, PhaseSet
  <2>2. Genuine("load", result')
    BY <1>6, <2>1, FinishLoadIsGenuine DEF Authentic
  <2>. QED
    BY <2>1, <2>2, NowAuthentic
<1>7. CASE AskOpenAi
  <2>1. UNCHANGED <<cache, todo, outputs>> /\ pc = "openai" /\ pc' = "measured" /\ "openai" \in PhaseSet
    BY <1>7 DEF AskOpenAi, files, PhaseSet
  <2>2. Genuine("openai", result')
    BY <1>0, <1>7, <2>1, AskOpenAiIsGenuine
  <2>. QED
    BY <2>1, <2>2, NowAuthentic
<1>8. CASE Judge
  <2>1. cache' = cache /\ pc = "judge" /\ "judge" \in PhaseSet
    BY <1>8 DEF Judge, files, PhaseSet
  <2>2. \/ pc' = "idle"
        \/ pc' = "measured" /\ UNCHANGED <<todo, outputs>>
    BY <1>8 DEF Judge, End
  <2>3. CASE pc' = "idle"
    BY <2>1, <2>3, StillAuthentic
  <2>4. CASE pc' = "measured" /\ UNCHANGED <<todo, outputs>>
    <3>1. Genuine("judge", result')
      BY <1>8, <2>4, JudgeIsGenuine
    <3>. QED
      BY <2>1, <2>4, <3>1, NowAuthentic
  <2>. QED
    BY <2>2, <2>3, <2>4
<1>. QED
  BY <1>1, <1>2, <1>3, <1>4, <1>5, <1>6, <1>7, <1>8

\* A result that is genuine joins those of the run.
LEMMA NextPhaseKeepsAuthentic ==
    ASSUME Authentic, pc \in {"looking", "writing"},
           NEW r, outputs' = With(outputs, Head(todo), r), pc' = "looking", Genuine(Head(todo), r),
           \A n \in PhaseSet : cache'[n] \notin {NoFile, Torn} => Genuine(n, cache'[n].result)
    PROVE  Authentic'
<1>1. pc \in Underway
  BY DEF Underway
<1>2. PICK n : n = Head(todo)
  OBVIOUS
<1>3. /\ DOMAIN outputs' = DOMAIN outputs \cup {n} /\ outputs'[n] = r
      /\ \A m \in DOMAIN outputs : m # n => outputs'[m] = outputs[m]
  <2>1. PICK out, more : out = outputs /\ more = outputs'
    OBVIOUS
  <2>2. more = With(out, n, r)
    BY <1>2, <2>1
  <2>3. /\ DOMAIN more = DOMAIN out \cup {n} /\ more[n] = r
        /\ \A m \in DOMAIN out : m # n => more[m] = out[m]
    BY <2>2 DEF With
  <2>. QED
    BY <2>1, <2>3
<1>4. \A m \in DOMAIN outputs : Genuine(m, outputs[m])
  BY <1>1 DEF Authentic
<1>5. ASSUME NEW m \in DOMAIN outputs'
      PROVE  Genuine(m, outputs'[m])
  <2>1. CASE m = n
    BY <1>2, <1>3, <2>1
  <2>2. CASE m # n
    BY <1>3, <1>4, <1>5, <2>2
  <2>. QED
    BY <2>1, <2>2
<1>. QED
  BY <1>5 DEF Authentic

LEMMA FilesKeepAuthentic ==
    ASSUME Control, Authentic, Reuse \/ BeginWriting \/ EndWriting
    PROVE  Authentic'
<1>1. CASE Reuse
  <2>1. /\ pc = "looking" /\ todo # <<>> /\ pc' = "looking" /\ cache' = cache
        /\ outputs' = With(outputs, Head(todo), cache[Head(todo)].result)
        /\ cache[Head(todo)] \notin {NoFile, Torn}
    BY <1>1 DEF Reuse, Looking, Current, files, InUse, Matches
  <2>2. Head(todo) \in PhaseSet
    BY <2>1, OrderedTail DEF Control, Underway
  <2>3. Genuine(Head(todo), cache[Head(todo)].result)
    BY <2>1, <2>2 DEF Authentic
  <2>4. \A n \in PhaseSet : cache'[n] \notin {NoFile, Torn} => Genuine(n, cache'[n].result)
    BY <2>1 DEF Authentic
  <2>5. PICK r : r = cache[Head(todo)].result
    OBVIOUS
  <2>6. outputs' = With(outputs, Head(todo), r) /\ Genuine(Head(todo), r) /\ pc \in {"looking", "writing"}
        /\ pc' = "looking"
    BY <2>1, <2>3, <2>5
  <2>. QED
    BY <2>4, <2>6, NextPhaseKeepsAuthentic
<1>2. CASE BeginWriting
  <2>1. /\ pc = "measured" /\ pc' = "writing" /\ todo' = todo /\ outputs' = outputs /\ result' = result
        /\ cache' = [cache EXCEPT ![Head(todo)] = Torn]
    BY <1>2 DEF BeginWriting, Current
  <2>2. pc \in Underway /\ pc' # "load"
    BY <2>1 DEF Underway
  <2>3. \A n \in PhaseSet : cache'[n] = cache[n] \/ cache'[n] = Torn
    BY <2>1 DEF Control
  <2>4. \A n \in PhaseSet : cache'[n] \notin {NoFile, Torn} => Genuine(n, cache'[n].result)
    <3>1. \A n \in PhaseSet : cache'[n] \notin {NoFile, Torn} => cache'[n] = cache[n]
      BY <2>3
    <3>. QED
      BY <3>1 DEF Authentic
  <2>5. Genuine(Head(todo'), result')
    BY <2>1 DEF Authentic
  <2>6. \A n \in DOMAIN outputs' : Genuine(n, outputs'[n])
    BY <2>1, <2>2 DEF Authentic
  <2>. QED
    BY <2>2, <2>4, <2>5, <2>6 DEF Authentic
<1>3. CASE EndWriting
  <2>. DEFINE e == [meta |-> Meta(Head(todo)), result |-> result]
  <2>1. /\ pc = "writing" /\ pc' = "looking"
        /\ outputs' = With(outputs, Head(todo), result)
        /\ cache' = [cache EXCEPT ![Head(todo)] = e]
    BY <1>3 DEF EndWriting, Current
  <2>2. Genuine(Head(todo), result) /\ e.result = result
    BY <2>1 DEF Authentic
  <2>. HIDE DEF e
  <2>3. \A n \in PhaseSet : cache'[n] = IF n = Head(todo) THEN e ELSE cache[n]
    BY <2>1 DEF Control
  <2>4. ASSUME NEW n \in PhaseSet, cache'[n] \notin {NoFile, Torn}
        PROVE  Genuine(n, cache'[n].result)
    <3>1. CASE n = Head(todo)
      BY <2>2, <2>3, <3>1
    <3>2. CASE n # Head(todo)
      <4>1. cache'[n] = cache[n]
        BY <2>3, <3>2
      <4>. QED
        BY <2>4, <4>1 DEF Authentic
    <3>. QED
      BY <3>1, <3>2
  <2>5. PICK r : r = result
    OBVIOUS
  <2>6. outputs' = With(outputs, Head(todo), r) /\ Genuine(Head(todo), r) /\ pc \in {"looking", "writing"}
        /\ pc' = "looking"
    BY <2>1, <2>2, <2>5
  <2>. QED
    BY <2>4, <2>6, NextPhaseKeepsAuthentic
<1>. QED
  BY <1>1, <1>2, <1>3

LEMMA NextKeepsAuthentic ==
    ASSUME Control, Measured, Filled, Authentic, Next
    PROVE  Authentic'
<1>1. ASSUME NEW c \in Configs, Start(c)
      PROVE  Authentic'
  <2>1. /\ cache' = cache /\ pc' = "looking" /\ outputs' = <<>>
    BY <1>1 DEF Start, files, Control, Nothing
  <2>2. DOMAIN outputs' = {}
    BY <2>1
  <2>. QED
    BY <2>1, <2>2 DEF Authentic
<1>2. CASE Refuse \/ Finish \/ Crash
  <2>1. pc' = "idle" /\ cache' = cache
    BY <1>2 DEF Refuse, Finish, Crash, files, End
  <2>. QED
    BY <2>1, StillAuthentic
<1>3. CASE Produce
  <2>1. /\ pc = "looking" /\ todo # <<>> /\ cache' = cache /\ outputs' = outputs
        /\ pc' = IF Head(todo) \in {"local", "load"} THEN "starting" ELSE Head(todo)
    BY <1>3 DEF Produce, Looking, Current, files
  <2>2. pc \in Underway /\ Ordered(todo)
    BY <2>1 DEF Control, Underway
  <2>3. Head(todo) \in PhaseSet
    BY <2>1, <2>2, OrderedTail
  <2>4. pc' \in Underway \ {"measured", "writing", "load"}
    BY <2>1, <2>3 DEF PhaseSet, Underway
  <2>. QED
    BY <2>1, <2>2, <2>4, StillAuthentic
<1>4. CASE BuildReport \/ Publish
  <2>1. cache' = cache /\ pc' \in {"idle", "publishing"}
    BY <1>4 DEF BuildReport, Publish, End, files
  <2>. QED
    BY <2>1, StillAuthentic
<1>. QED
  BY <1>1, <1>2, <1>3, <1>4, FilesKeepAuthentic, PhaseKeepsAuthentic DEF Next

-----------------------------------------------------------------------------
\* The figures of the report.

\* A set that another has a different element for each of is no larger.
LEMMA NoMoreThan ==
    ASSUME NEW S, NEW T, NEW f \in [S -> T], IsFiniteSet(T), \A x, y \in S : f[x] = f[y] => x = y
    PROVE  IsFiniteSet(S) /\ Cardinality(S) <= Cardinality(T) /\ Cardinality(S) \in Nat
           /\ Cardinality(T) \in Nat
<1>1. f \in Injection(S, T)
  BY DEF Injection, IsInjective
<1>. QED
  BY <1>1, FS_Injection, FS_CardinalityType

\* If as many are left as there were, all passed; if none is left, none did.
LEMMA AllOrNone ==
    ASSUME NEW A, NEW s \in Seq(A), NEW I \in SUBSET (1 .. Len(s))
    PROVE  /\ Len(Kept(s, I)) \in 0 .. Len(s)
           /\ Len(s) - Len(Kept(s, I)) = 0 => I = 1 .. Len(s)
           /\ Len(Kept(s, I)) = 0 => I = {}
<1>1. Len(s) \in Nat
  BY LenProperties
<1>2. Len(Kept(s, I)) = Cardinality(I) /\ IsFiniteSet(I)
  BY KeptLength
<1>3. /\ IsFiniteSet(1 .. Len(s)) /\ Cardinality(1 .. Len(s)) = Len(s)
  <2>1. 1 \in Int /\ Len(s) \in Int
    BY <1>1
  <2>2. /\ IsFiniteSet(1 .. Len(s))
        /\ Cardinality(1 .. Len(s)) = IF 1 > Len(s) THEN 0 ELSE Len(s) - 1 + 1
    BY <2>1, FS_Interval
  <2>. QED
    BY <1>1, <2>2
<1>4. Cardinality(I) \in Nat /\ Cardinality(I) <= Len(s) /\ (Len(s) = Cardinality(I) => 1 .. Len(s) = I)
  BY <1>2, <1>3, FS_Subset, FS_CardinalityType
<1>5. Cardinality(I) = 0 => I = {}
  BY <1>2, FS_EmptySet
<1>. QED
  BY <1>1, <1>2, <1>4, <1>5

\* The requests of a stage, one worker's after the other's.
Request == [from : 0 .. StageSeconds, to : 0 .. StageSeconds, answer : Answers]

LEMMA RequestsOfWorks ==
    ASSUME NEW works \in Seq(Works)
    PROVE  /\ works \in Seq(Seq(Request))
           /\ FlattenSeq(works) \in Seq(Request)
           /\ \A i \in 1 .. Len(FlattenSeq(works)) : FlattenSeq(works)[i].from <= FlattenSeq(works)[i].to
<1>1. \A w \in Works : w \in Seq(Request) /\ \A i \in DOMAIN w : w[i].from <= w[i].to
  BY AnswersAssumption DEF Request
<1>2. works \in Seq(Seq(Request))
  <2>1. Works \subseteq Seq(Request)
    BY <1>1
  <2>. QED
    BY <2>1
<1>3. /\ FlattenSeq(works) \in Seq(Request)
      /\ ToSet(FlattenSeq(works)) = UNION {ToSet(works[w]) : w \in DOMAIN works}
  BY <1>2, FlattenMembers
<1>4. ASSUME NEW q \in ToSet(FlattenSeq(works))
      PROVE  q.from <= q.to
  <2>1. PICK w \in DOMAIN works : q \in ToSet(works[w])
    BY <1>3
  <2>2. works[w] \in Works
    BY <2>1
  <2>. QED
    BY <1>1, <2>1, <2>2 DEF ToSet
<1>5. PICK F : F = FlattenSeq(works)
  OBVIOUS
<1>6. \A i \in 1 .. Len(F) : F[i] \in ToSet(F)
  BY <1>3, <1>5, MembersOf
<1>. QED
  BY <1>2, <1>3, <1>4, <1>5, <1>6

\* A stage has the time to itself.
LEMMA Slots ==
    ASSUME NEW a \in Nat, NEW b \in Nat, NEW d \in Nat, a < b
    PROVE  a * d + d <= b * d /\ a * d \in Nat /\ b * d \in Nat
<1>1. PICK c \in Nat : b = a + 1 + c
  <2>1. b - a - 1 \in Nat /\ b = a + 1 + (b - a - 1)
    OBVIOUS
  <2>. QED
    BY <2>1
<1>2. b * d = a * d + d + c * d
  BY <1>1
<1>3. c * d \in Nat /\ a * d \in Nat
  OBVIOUS
<1>. QED
  BY <1>2, <1>3

\* The records of a stage, in its time.
RecordsOf(stages, s) ==
    [i \in 1 .. Len(FlattenSeq(stages[s].works)) |->
        [from |-> FlattenSeq(stages[s].works)[i].from + s * StageSeconds,
         to |-> FlattenSeq(stages[s].works)[i].to + s * StageSeconds]]

LEMMA RecordsFacts ==
    ASSUME NEW stages, stages \in Seq(ToSet(stages)), \A stage \in ToSet(stages) : StageOfItsWorks(stage)
    PROVE  LET recs == [s \in 1 .. Len(stages) |-> RecordsOf(stages, s)]
           IN  /\ recs \in Seq(Seq(Interval)) /\ RequestRecords(stages) = FlattenSeq(recs)
               /\ Len(recs) = Len(stages)
               /\ \A s \in 1 .. Len(stages) : \A i \in 1 .. Len(recs[s]) :
                      LET q == FlattenSeq(stages[s].works)[i]
                      IN  /\ i \in 1 .. Len(FlattenSeq(stages[s].works)) /\ q \in Request
                          /\ q.from <= q.to
                          /\ recs[s][i] = [from |-> q.from + s * StageSeconds,
                                           to |-> q.to + s * StageSeconds]
<1>. DEFINE recs == [s \in 1 .. Len(stages) |-> RecordsOf(stages, s)]
<1>1. DOMAIN stages = 1 .. Len(stages) /\ Len(stages) \in Nat
      /\ \A s \in 1 .. Len(stages) : stages[s] \in ToSet(stages)
  BY MembersOf
<1>2. StageSeconds \in Nat
  BY AnswersAssumption
<1>3. ASSUME NEW s \in 1 .. Len(stages)
      PROVE  /\ recs[s] \in Seq(Interval)
             /\ recs[s] = [i \in DOMAIN FlattenSeq(stages[s].works) |->
                              [from |-> FlattenSeq(stages[s].works)[i].from + s * StageSeconds,
                               to |-> FlattenSeq(stages[s].works)[i].to + s * StageSeconds]]
             /\ \A i \in 1 .. Len(recs[s]) :
                    LET q == FlattenSeq(stages[s].works)[i]
                    IN  /\ i \in 1 .. Len(FlattenSeq(stages[s].works)) /\ q \in Request
                        /\ q.from <= q.to
                        /\ recs[s][i] = [from |-> q.from + s * StageSeconds,
                                         to |-> q.to + s * StageSeconds]
  <2>1. stages[s].works \in Seq(Works)
    BY <1>1 DEF StageOfItsWorks
  <2>2. PICK F : F = FlattenSeq(stages[s].works)
    OBVIOUS
  <2>3. F \in Seq(Request) /\ \A i \in 1 .. Len(F) : F[i].from <= F[i].to
    BY <2>1, <2>2, RequestsOfWorks
  <2>4. DOMAIN F = 1 .. Len(F) /\ Len(F) \in Nat /\ \A i \in 1 .. Len(F) : F[i] \in Request
    BY <2>3, LenProperties, ElementOfSeq
  <2>. DEFINE rec == [i \in 1 .. Len(F) |-> [from |-> F[i].from + s * StageSeconds,
                                             to |-> F[i].to + s * StageSeconds]]
  <2>5. recs[s] = rec
    BY <2>2 DEF RecordsOf
  <2>6. s * StageSeconds \in Nat
    BY <1>1, <1>2
  <2>7. \A i \in 1 .. Len(F) : F[i].from \in Nat /\ F[i].to \in Nat
    BY <1>2, <2>4 DEF Request
  <2>8. \A i \in 1 .. Len(F) : rec[i] \in Interval
    BY <2>6, <2>7 DEF Interval
  <2>9. rec \in Seq(Interval) /\ Len(rec) = Len(F)
    BY <2>4, <2>8
  <2>10. \A i \in 1 .. Len(F) : rec[i] = [from |-> F[i].from + s * StageSeconds,
                                          to |-> F[i].to + s * StageSeconds]
    OBVIOUS
  <2>11. rec = [i \in DOMAIN F |-> [from |-> F[i].from + s * StageSeconds,
                                    to |-> F[i].to + s * StageSeconds]]
    BY <2>4
  <2>. HIDE DEF recs, rec
  <2>. QED
    BY <2>2, <2>3, <2>4, <2>5, <2>9, <2>10, <2>11
<1>4. recs \in Seq(Seq(Interval)) /\ Len(recs) = Len(stages)
  BY <1>1, <1>3
<1>5. RequestRecords(stages) = FlattenSeq(recs)
  <2>1. recs = [s \in DOMAIN stages |->
                   [i \in DOMAIN FlattenSeq(stages[s].works) |->
                       [from |-> FlattenSeq(stages[s].works)[i].from + s * StageSeconds,
                        to |-> FlattenSeq(stages[s].works)[i].to + s * StageSeconds]]]
    BY <1>1, <1>3
  <2>. HIDE DEF recs
  <2>. QED
    BY <2>1 DEF RequestRecords
<1>. HIDE DEF recs
<1>6. \A s \in 1 .. Len(stages) : \A i \in 1 .. Len(recs[s]) :
          LET q == FlattenSeq(stages[s].works)[i]
          IN  /\ i \in 1 .. Len(FlattenSeq(stages[s].works)) /\ q \in Request
              /\ q.from <= q.to
              /\ recs[s][i] = [from |-> q.from + s * StageSeconds,
                               to |-> q.to + s * StageSeconds]
  BY <1>3
<1>. QED
  BY <1>4, <1>5, <1>6 DEF recs

\* The requests that are in the gateway at one moment are of one stage.
LEMMA BusyStage ==
    ASSUME NEW stages, stages \in Seq(ToSet(stages)), \A stage \in ToSet(stages) : StageOfItsWorks(stage),
           NEW overlap, OverlapOf(stages, overlap), overlap >= RequiredLevel
    PROVE  \E s \in DOMAIN stages : \E t \in 0 .. StageSeconds :
               LET F == FlattenSeq(stages[s].works)
               IN  Cardinality({i \in 1 .. Len(F) : F[i].from <= t /\ t < F[i].to}) >= RequiredLevel
<1>. DEFINE
    recs == [s \in 1 .. Len(stages) |-> RecordsOf(stages, s)]
    F == RequestRecords(stages)
<1>1. /\ recs \in Seq(Seq(Interval)) /\ F = FlattenSeq(recs) /\ Len(recs) = Len(stages)
      /\ \A s \in 1 .. Len(stages) : \A i \in 1 .. Len(recs[s]) :
             LET q == FlattenSeq(stages[s].works)[i]
             IN  /\ i \in 1 .. Len(FlattenSeq(stages[s].works)) /\ q \in Request
                 /\ q.from <= q.to
                 /\ recs[s][i] = [from |-> q.from + s * StageSeconds,
                                  to |-> q.to + s * StageSeconds]
  BY RecordsFacts
<1>. HIDE DEF recs, F
<1>2. \E at : /\ at \in [Positions(recs) -> 1 .. Len(FlattenSeq(recs))]
              /\ \A p \in Positions(recs) : FlattenSeq(recs)[at[p]] = recs[p[1]][p[2]]
              /\ \A p, q \in Positions(recs) : at[p] = at[q] => p = q
              /\ \A j \in 1 .. Len(FlattenSeq(recs)) : \E p \in Positions(recs) : at[p] = j
  BY <1>1, FlattenPlaces
<1>3. PICK at : /\ at \in [Positions(recs) -> 1 .. Len(F)]
                /\ \A p \in Positions(recs) : F[at[p]] = recs[p[1]][p[2]]
                /\ \A j \in 1 .. Len(F) : \E p \in Positions(recs) : at[p] = j
  BY <1>1, <1>2
<1>4. F \in Seq(Interval) /\ Len(F) \in Nat
  BY <1>1, FlattenMembers, LenProperties
<1>5. /\ StageSeconds \in Nat /\ RequiredLevel \in Nat \ {0}
      /\ Len(stages) \in Nat /\ DOMAIN stages = 1 .. Len(stages)
  BY AnswersAssumption, BenchmarkAssumption, LenProperties
<1>6. ASSUME NEW j \in 1 .. Len(F)
      PROVE  \E s \in 1 .. Len(stages) : \E i \in 1 .. Len(recs[s]) :
                 at[<<s, i>>] = j /\ F[j] = recs[s][i]
  <2>1. PICK p \in Positions(recs) : at[p] = j
    BY <1>3
  <2>2. PICK s \in 1 .. Len(recs) : \E i \in 1 .. Len(recs[s]) : p = <<s, i>>
    BY <2>1 DEF Positions
  <2>3. PICK i \in 1 .. Len(recs[s]) : p = <<s, i>>
    BY <2>2
  <2>4. F[j] = recs[s][i]
    BY <1>3, <2>1, <2>3
  <2>5. s \in 1 .. Len(stages)
    BY <1>1
  <2>. QED
    BY <2>1, <2>3, <2>4, <2>5
<1>7. ASSUME NEW s \in 1 .. Len(stages), NEW i \in 1 .. Len(recs[s])
      PROVE  LET q == FlattenSeq(stages[s].works)[i]
             IN  /\ i \in 1 .. Len(FlattenSeq(stages[s].works))
                 /\ q.from \in Nat /\ q.to \in Nat /\ q.from <= q.to /\ q.to <= StageSeconds
                 /\ recs[s][i].from = q.from + s * StageSeconds
                 /\ recs[s][i].to = q.to + s * StageSeconds
  <2>1. PICK q : q = FlattenSeq(stages[s].works)[i]
    OBVIOUS
  <2>2. /\ i \in 1 .. Len(FlattenSeq(stages[s].works)) /\ q \in Request /\ q.from <= q.to
        /\ recs[s][i] = [from |-> q.from + s * StageSeconds, to |-> q.to + s * StageSeconds]
    BY <1>1, <2>1
  <2>3. q.from \in Nat /\ q.to \in Nat /\ q.to <= StageSeconds
    BY <1>5, <2>2 DEF Request
  <2>. QED
    BY <2>1, <2>2, <2>3
<1>8. PICK missing \in {0, 1} :
          missing <= Len(F) /\ overlap = MaxOverlap(SubSeq(F, 1, Len(F) - missing))
  BY DEF OverlapOf, F
<1>9. PICK n \in 0 .. Len(F) : n = Len(F) - missing
  BY <1>4, <1>8
<1>10. PICK G : G = SubSeq(F, 1, n)
  OBVIOUS
<1>11. G \in Seq(Interval) /\ Len(G) = n /\ \A i \in 1 .. n : G[i] = F[i]
  <2>1. /\ SubSeq(F, 1, n) \in Seq(Interval)
        /\ Len(SubSeq(F, 1, n)) = IF 1 <= n THEN n - 1 + 1 ELSE 0
        /\ \A i \in 1 .. n - 1 + 1 : SubSeq(F, 1, n)[i] = F[1 + i - 1]
    <3>1. \A i \in 1 .. n : F[i] \in Interval
      BY <1>4, ElementOfSeq
    <3>2. 1 \in Int /\ n \in Int
      BY <1>4
    <3>. QED
      BY <3>1, <3>2, SubSeqProperties
  <2>2. \A i \in 1 .. n : i \in 1 .. n - 1 + 1 /\ 1 + i - 1 = i
    BY <1>4
  <2>3. (IF 1 <= n THEN n - 1 + 1 ELSE 0) = n
    BY <1>4
  <2>. QED
    BY <1>10, <2>1, <2>2, <2>3
<1>12. \A i \in 1 .. Len(G) : G[i].from <= G[i].to
  <2>1. SUFFICES ASSUME NEW j \in 1 .. Len(G) PROVE G[j].from <= G[j].to
    OBVIOUS
  <2>2. j \in 1 .. Len(F) /\ G[j] = F[j]
    BY <1>4, <1>9, <1>11
  <2>3. PICK s \in 1 .. Len(stages) : \E i \in 1 .. Len(recs[s]) : F[j] = recs[s][i]
    BY <1>6, <2>2
  <2>4. PICK i \in 1 .. Len(recs[s]) : F[j] = recs[s][i]
    BY <2>3
  <2>5. \E a \in Nat, b \in Nat, c \in Nat :
            recs[s][i].from = a + c /\ recs[s][i].to = b + c /\ a <= b
    <3>1. PICK c \in Nat : c = s * StageSeconds
      BY <1>5
    <3>2. PICK q : q = FlattenSeq(stages[s].works)[i]
      OBVIOUS
    <3>3. /\ q.from \in Nat /\ q.to \in Nat /\ q.from <= q.to
          /\ recs[s][i].from = q.from + c /\ recs[s][i].to = q.to + c
      BY <1>7, <3>1, <3>2
    <3>. QED
      BY <3>3
  <2>. QED
    BY <2>2, <2>4, <2>5
<1>13. PICK T \in Int : overlap = Cardinality(RunningAt(G, T))
  BY <1>8, <1>9, <1>10, <1>11, <1>12, OverlapFacts
<1>. DEFINE R == RunningAt(G, T)
<1>14. /\ R \subseteq 1 .. Len(F) /\ IsFiniteSet(R)
       /\ \A j \in R : F[j].from <= T /\ T < F[j].to
  <2>1. R \in SUBSET (1 .. n)
    BY <1>11 DEF RunningAt
  <2>2. IsFiniteSet(R)
    BY <2>1, <1>4, PositionsFinite
  <2>3. \A j \in R : j \in 1 .. n /\ G[j].from <= T /\ T < G[j].to
    BY <1>11 DEF RunningAt
  <2>. QED
    BY <1>4, <1>11, <2>1, <2>2, <2>3
<1>15. Cardinality(R) >= RequiredLevel
  BY <1>13
<1>. HIDE DEF R
<1>16. R # {}
  <2>1. Cardinality({}) = 0
    BY FS_EmptySet
  <2>2. ~ (0 >= RequiredLevel)
    BY <1>5
  <2>. QED
    BY <1>15, <2>1, <2>2
<1>17. ASSUME NEW j \in R
       PROVE  \E s \in 1 .. Len(stages) : \E i \in 1 .. Len(recs[s]) :
                  LET q == FlattenSeq(stages[s].works)[i]
                  IN  /\ at[<<s, i>>] = j
                      /\ i \in 1 .. Len(FlattenSeq(stages[s].works))
                      /\ q.from <= T - s * StageSeconds /\ T - s * StageSeconds < q.to
                      /\ s * StageSeconds <= T /\ T < s * StageSeconds + StageSeconds
  <2>1. j \in 1 .. Len(F) /\ F[j].from <= T /\ T < F[j].to
    BY <1>14
  <2>2. PICK s \in 1 .. Len(stages) : \E i \in 1 .. Len(recs[s]) : at[<<s, i>>] = j /\ F[j] = recs[s][i]
    BY <1>6, <2>1
  <2>3. PICK i \in 1 .. Len(recs[s]) : at[<<s, i>>] = j /\ F[j] = recs[s][i]
    BY <2>2
  <2>4. PICK q : q = FlattenSeq(stages[s].works)[i]
    OBVIOUS
  <2>5. /\ i \in 1 .. Len(FlattenSeq(stages[s].works))
        /\ q.from \in Nat /\ q.to \in Nat /\ q.from <= q.to /\ q.to <= StageSeconds
        /\ F[j].from = q.from + s * StageSeconds /\ F[j].to = q.to + s * StageSeconds
    BY <1>7, <2>3, <2>4
  <2>6. PICK c \in Nat : c = s * StageSeconds
    BY <1>5
  <2>7. q.from <= T - c /\ T - c < q.to /\ c <= T /\ T < c + StageSeconds
    BY <1>5, <2>1, <2>5, <2>6
  <2>. QED
    BY <2>3, <2>4, <2>5, <2>6, <2>7
<1>18. PICK s \in 1 .. Len(stages) : s * StageSeconds <= T /\ T < s * StageSeconds + StageSeconds
  BY <1>16, <1>17
<1>19. PICK c \in Nat : c = s * StageSeconds
  BY <1>5
<1>20. ASSUME NEW u \in 1 .. Len(stages), u * StageSeconds <= T, T < u * StageSeconds + StageSeconds
       PROVE  u = s
  <2>1. PICK d \in Nat : d = u * StageSeconds
    BY <1>5
  <2>2. ~ (s < u)
    <3>1. s < u => c + StageSeconds <= d
      BY <1>5, <1>19, <2>1, Slots
    <3>. QED
      BY <1>5, <1>18, <1>19, <1>20, <2>1, <3>1
  <2>3. ~ (u < s)
    <3>1. u < s => d + StageSeconds <= c
      BY <1>5, <1>19, <2>1, Slots
    <3>. QED
      BY <1>5, <1>18, <1>19, <1>20, <2>1, <3>1
  <2>. QED
    BY <2>2, <2>3
<1>21. PICK t \in 0 .. StageSeconds : t = T - c
  BY <1>5, <1>18, <1>19
<1>22. PICK H : H = FlattenSeq(stages[s].works)
  OBVIOUS
<1>. DEFINE Rs == {i \in 1 .. Len(H) : H[i].from <= t /\ t < H[i].to}
<1>23. ASSUME NEW j \in R
       PROVE  \E i \in Rs : at[<<s, i>>] = j
  <2>1. PICK u \in 1 .. Len(stages) : \E i \in 1 .. Len(recs[u]) :
            LET q == FlattenSeq(stages[u].works)[i]
            IN  /\ at[<<u, i>>] = j
                /\ i \in 1 .. Len(FlattenSeq(stages[u].works))
                /\ q.from <= T - u * StageSeconds /\ T - u * StageSeconds < q.to
                /\ u * StageSeconds <= T /\ T < u * StageSeconds + StageSeconds
    BY <1>17
  <2>2. u = s
    BY <1>20, <2>1
  <2>3. PICK i \in 1 .. Len(recs[u]) :
            LET q == FlattenSeq(stages[u].works)[i]
            IN  /\ at[<<u, i>>] = j
                /\ i \in 1 .. Len(FlattenSeq(stages[u].works))
                /\ q.from <= T - u * StageSeconds /\ T - u * StageSeconds < q.to
    BY <2>1
  <2>4. /\ at[<<s, i>>] = j /\ i \in 1 .. Len(H) /\ H[i].from <= T - c /\ T - c < H[i].to
    BY <1>19, <1>22, <2>2, <2>3
  <2>. QED
    BY <1>21, <2>4
<1>24. IsFiniteSet(Rs)
  <2>1. stages[s].works \in Seq(Works)
    <3>1. stages[s] \in ToSet(stages)
      BY MembersOf
    <3>. QED
      BY <3>1 DEF StageOfItsWorks
  <2>2. Len(H) \in Nat
    BY <1>22, <2>1, RequestsOfWorks, LenProperties
  <2>3. Rs \in SUBSET (1 .. Len(H))
    OBVIOUS
  <2>. HIDE DEF Rs
  <2>. QED
    BY <2>2, <2>3, PositionsFinite
<1>25. Cardinality(R) <= Cardinality(Rs) /\ Cardinality(R) \in Nat /\ Cardinality(Rs) \in Nat
  <2>. HIDE DEF Rs
  <2>. DEFINE f == [j \in R |-> CHOOSE i \in Rs : at[<<s, i>>] = j]
  <2>1. \A j \in R : f[j] \in Rs /\ at[<<s, f[j]>>] = j
    BY <1>23
  <2>2. f \in [R -> Rs]
    BY <2>1
  <2>. HIDE DEF f
  <2>3. \A j, l \in R : f[j] = f[l] => j = l
    BY <2>1
  <2>. QED
    BY <1>24, <2>2, <2>3, NoMoreThan
<1>26. Cardinality(Rs) >= RequiredLevel
  <2>. HIDE DEF Rs
  <2>. QED
    BY <1>5, <1>15, <1>25
<1>. QED
  BY <1>5, <1>22, <1>26

LEMMA BusyLoad ==
    ASSUME NEW load, load.stages \in Seq(ToSet(load.stages)),
           \A stage \in ToSet(load.stages) : StageOfItsWorks(stage),
           OverlapOf(load.stages, load.overlap), load.overlap >= RequiredLevel
    PROVE  Busy(load)
<1>1. PICK stages : stages = load.stages
  OBVIOUS
<1>2. PICK s \in DOMAIN stages : \E t \in 0 .. StageSeconds :
          LET F == FlattenSeq(stages[s].works)
          IN  Cardinality({i \in 1 .. Len(F) : F[i].from <= t /\ t < F[i].to}) >= RequiredLevel
  <2>1. PICK overlap : overlap = load.overlap
    OBVIOUS
  <2>2. /\ stages \in Seq(ToSet(stages)) /\ \A stage \in ToSet(stages) : StageOfItsWorks(stage)
        /\ OverlapOf(stages, overlap) /\ overlap >= RequiredLevel
    BY <1>1, <2>1
  <2>. QED
    BY <2>2, BusyStage
<1>3. PICK works : works = stages[s].works
  OBVIOUS
<1>4. PICK F : F = FlattenSeq(works)
  OBVIOUS
<1>5. PICK t \in 0 .. StageSeconds :
          Cardinality({i \in 1 .. Len(F) : F[i].from <= t /\ t < F[i].to}) >= RequiredLevel
  BY <1>2, <1>3, <1>4
<1>6. works \in Seq(Works)
  <2>1. stages[s] \in ToSet(stages)
    BY DEF ToSet
  <2>. QED
    BY <1>1, <1>3, <2>1 DEF StageOfItsWorks
<1>7. works \in Seq(Seq(Request)) /\ F \in Seq(Request)
  BY <1>4, <1>6, RequestsOfWorks
<1>8. /\ DOMAIN works = 1 .. Len(works)
      /\ \A w \in 1 .. Len(works) : works[w] \in Seq(Request)
  BY <1>7, LenProperties, ElementOfSeq
<1>. DEFINE C == {q \in Request : q.from <= t /\ t < q.to}
<1>9. Cardinality({i \in 1 .. Len(F) : F[i].from <= t /\ t < F[i].to}) = CountIn(F, C)
  <2>1. \A i \in 1 .. Len(F) : F[i] \in Request
    BY <1>7, ElementOfSeq
  <2>2. {i \in 1 .. Len(F) : F[i].from <= t /\ t < F[i].to} = {i \in 1 .. Len(F) : F[i] \in C}
    BY <2>1
  <2>. HIDE DEF C
  <2>. QED
    BY <2>2 DEF CountIn
<1>10. ASSUME NEW w \in 1 .. Len(works)
       PROVE  Len(Filtered(works[w], LAMBDA r : r.from <= t /\ t < r.to)) = CountIn(works[w], C)
  <2>1. PICK given : given = works[w]
    OBVIOUS
  <2>2. given \in Seq(Request) /\ DOMAIN given = 1 .. Len(given)
        /\ \A i \in 1 .. Len(given) : given[i] \in Request
    BY <1>8, <2>1, LenProperties, ElementOfSeq
  <2>. DEFINE I == {i \in DOMAIN given : given[i].from <= t /\ t < given[i].to}
  <2>3. I = {i \in 1 .. Len(given) : given[i] \in C} /\ I \in SUBSET (1 .. Len(given))
    BY <2>2
  <2>4. Filtered(given, LAMBDA r : r.from <= t /\ t < r.to) = Kept(given, I)
    BY DEF Filtered
  <2>. HIDE DEF I, C
  <2>5. Len(Kept(given, I)) = Cardinality(I)
    BY <2>2, <2>3, KeptLength
  <2>. QED
    BY <2>1, <2>3, <2>4, <2>5 DEF CountIn
<1>. DEFINE here == [w \in DOMAIN works |-> Len(Filtered(works[w], LAMBDA r : r.from <= t /\ t < r.to))]
<1>11. here = [w \in 1 .. Len(works) |-> CountIn(works[w], C)]
  <2>. HIDE DEF C
  <2>. QED
    BY <1>8, <1>10
<1>12. SumOf(here) >= RequiredLevel
  <2>. HIDE DEF here, C
  <2>1. CountIn(F, C) = SumOf(here)
    BY <1>4, <1>7, <1>11, FlattenCount
  <2>. QED
    BY <1>5, <1>9, <2>1
<1>. QED
  BY <1>1, <1>3, <1>12 DEF Busy

\* Without an error, every worker's every answer came whole.
LEMMA NoErrorsAllWhole ==
    ASSUME NEW stage, StageOfItsWorks(stage),
           Len(stage.requests) - Len(Filtered(stage.requests, Ok)) = 0
    PROVE  \A w \in DOMAIN stage.works : \A i \in DOMAIN stage.works[w] :
               Whole(stage.works[w][i].answer)
<1>1. PICK works : works = stage.works
  OBVIOUS
<1>. DEFINE
    A == {TimedStreamRequest(a) : a \in Answers}
    came == [w \in DOMAIN works |->
                [i \in DOMAIN works[w] |-> TimedStreamRequest(works[w][i].answer)]]
<1>2. works \in Seq(Seq(Request)) /\ DOMAIN works = 1 .. Len(works) /\ Len(works) \in Nat
  <2>1. works \in Seq(Works)
    BY <1>1 DEF StageOfItsWorks
  <2>2. works \in Seq(Seq(Request))
    BY <2>1, RequestsOfWorks
  <2>. QED
    BY <2>2, LenProperties
<1>3. \A w \in DOMAIN works :
          /\ works[w] \in Seq(Request) /\ DOMAIN works[w] = 1 .. Len(works[w]) /\ Len(works[w]) \in Nat
          /\ \A i \in DOMAIN works[w] : works[w][i].answer \in Answers
  <2>1. SUFFICES ASSUME NEW w \in DOMAIN works
                 PROVE  /\ works[w] \in Seq(Request) /\ DOMAIN works[w] = 1 .. Len(works[w])
                        /\ Len(works[w]) \in Nat
                        /\ \A i \in DOMAIN works[w] : works[w][i].answer \in Answers
    OBVIOUS
  <2>2. PICK given : given = works[w]
    OBVIOUS
  <2>3. given \in Seq(Request)
    BY <1>2, <2>2, ElementOfSeq
  <2>4. DOMAIN given = 1 .. Len(given) /\ Len(given) \in Nat /\ \A i \in 1 .. Len(given) : given[i] \in Request
    BY <2>3, LenProperties, ElementOfSeq
  <2>5. \A i \in 1 .. Len(given) : given[i].answer \in Answers
    BY <2>4 DEF Request
  <2>. QED
    BY <2>2, <2>3, <2>4, <2>5
<1>4. \A w \in DOMAIN works :
          /\ came[w] \in Seq(A) /\ Len(came[w]) = Len(works[w])
          /\ \A i \in DOMAIN works[w] : came[w][i] = TimedStreamRequest(works[w][i].answer)
  <2>1. SUFFICES ASSUME NEW w \in DOMAIN works
                 PROVE  /\ came[w] \in Seq(A) /\ Len(came[w]) = Len(works[w])
                        /\ \A i \in DOMAIN works[w] : came[w][i] = TimedStreamRequest(works[w][i].answer)
    OBVIOUS
  <2>2. PICK n \in Nat : n = Len(works[w])
    BY <1>3
  <2>3. came[w] = [i \in 1 .. n |-> TimedStreamRequest(works[w][i].answer)]
    BY <1>3, <2>2
  <2>4. \A i \in 1 .. n : TimedStreamRequest(works[w][i].answer) \in A
    BY <1>3, <2>2
  <2>. HIDE DEF A, came
  <2>5. came[w] \in Seq(A) /\ Len(came[w]) = n
    BY <2>3, <2>4
  <2>. QED
    BY <1>3, <2>2, <2>3, <2>5
<1>5. came \in Seq(Seq(A)) /\ Len(came) = Len(works)
  <2>1. came = [w \in 1 .. Len(works) |-> came[w]]
    BY <1>2
  <2>. HIDE DEF A, came
  <2>. QED
    BY <1>2, <1>4, <2>1
<1>6. PICK F : F = FlattenSeq(came)
  OBVIOUS
<1>7. stage.requests = F
  BY <1>1, <1>6 DEF StageOfItsWorks, RowsOf
<1>. HIDE DEF A, came
<1>8. F \in Seq(A) /\ DOMAIN F = 1 .. Len(F)
  BY <1>5, <1>6, FlattenMembers, LenProperties
<1>9. \A j \in 1 .. Len(F) : F[j].ok
  <2>. DEFINE I == {j \in DOMAIN F : F[j].ok}
  <2>1. Filtered(F, Ok) = Kept(F, I)
    BY DEF Filtered, Ok
  <2>2. I \in SUBSET (1 .. Len(F))
    BY <1>8
  <2>3. \A j \in I : F[j].ok
    OBVIOUS
  <2>. HIDE DEF I
  <2>4. Len(F) - Len(Kept(F, I)) = 0
    BY <1>7, <2>1
  <2>5. I = 1 .. Len(F)
    BY <1>8, <2>2, <2>4, AllOrNone
  <2>. QED
    BY <2>3, <2>5
<1>10. \E at : /\ at \in [Positions(came) -> 1 .. Len(FlattenSeq(came))]
               /\ \A p \in Positions(came) : FlattenSeq(came)[at[p]] = came[p[1]][p[2]]
               /\ \A p, q \in Positions(came) : at[p] = at[q] => p = q
               /\ \A j \in 1 .. Len(FlattenSeq(came)) : \E p \in Positions(came) : at[p] = j
  BY <1>5, FlattenPlaces
<1>11. PICK at : /\ at \in [Positions(came) -> 1 .. Len(F)]
                 /\ \A p \in Positions(came) : F[at[p]] = came[p[1]][p[2]]
  BY <1>6, <1>10
<1>12. ASSUME NEW w \in DOMAIN works, NEW i \in DOMAIN works[w]
       PROVE  Whole(works[w][i].answer)
  <2>1. w \in 1 .. Len(came) /\ i \in 1 .. Len(came[w])
    BY <1>2, <1>3, <1>4, <1>5
  <2>2. <<w, i>> \in Positions(came)
    BY <2>1, PositionsAre
  <2>3. F[at[<<w, i>>]] = came[w][i] /\ at[<<w, i>>] \in 1 .. Len(F)
    BY <1>11, <2>2
  <2>4. came[w][i].ok
    BY <1>9, <2>3
  <2>5. TimedStreamRequest(works[w][i].answer).ok /\ works[w][i].answer \in Answers
    BY <1>3, <1>4, <2>4
  <2>. QED
    BY <2>5, TimedStreams
<1>. QED
  BY <1>1, <1>12

\* The stages' summaries are made one by one.
LEMMA StabilityEarned ==
    ASSUME NEW load, load.stages \in Seq(ToSet(load.stages)),
           \A stage \in ToSet(load.stages) : StageOfItsWorks(stage),
           OverlapOf(load.stages, load.overlap), NEW idle, NEW summaries,
           summaries = [i \in DOMAIN load.stages |-> LoadStageSummary(load.stages[i], idle)],
           StabilityVerdict(summaries, load.overlap) = "passed"
    PROVE  /\ Busy(load)
           /\ \A works \in WorksUpTo(load, RequiredLevel) : \A w \in DOMAIN works :
                 /\ works[w] # <<>>
                 /\ \A i \in DOMAIN works[w] : Whole(works[w][i].answer)
<1>1. /\ load.overlap >= RequiredLevel
      /\ \A s \in Relevant(summaries) :
            s.errors = 0 /\ \A w \in DOMAIN s.counts : s.counts[w] > 0
  BY DEF StabilityVerdict, Verdict
<1>2. Busy(load)
  BY <1>1, BusyLoad
<1>3. ASSUME NEW works \in WorksUpTo(load, RequiredLevel), NEW w \in DOMAIN works
      PROVE  /\ works[w] # <<>>
             /\ \A i \in DOMAIN works[w] : Whole(works[w][i].answer)
  <2>1. PICK j \in DOMAIN load.stages :
            load.stages[j].level <= RequiredLevel /\ works = load.stages[j].works
    BY DEF WorksUpTo
  <2>2. PICK stage : stage = load.stages[j]
    OBVIOUS
  <2>3. StageOfItsWorks(stage)
    BY <2>2 DEF ToSet
  <2>4. PICK s : s = LoadStageSummary(stage, idle)
    OBVIOUS
  <2>5. /\ s.level = stage.level /\ s.counts = stage.counts
        /\ s.errors = Len(stage.requests) - Len(Filtered(stage.requests, Ok))
    BY <2>4 DEF LoadStageSummary
  <2>6. s \in Relevant(summaries)
    <3>1. j \in DOMAIN summaries /\ summaries[j] = s
      BY <2>2, <2>4
    <3>2. summaries[j].level <= RequiredLevel
      BY <2>1, <2>2, <2>5, <3>1
    <3>. QED
      BY <3>1, <3>2 DEF Relevant
  <2>7. s.errors = 0 /\ \A v \in DOMAIN stage.counts : stage.counts[v] > 0
    BY <1>1, <2>5, <2>6
  <2>8. \A i \in DOMAIN works[w] : Whole(works[w][i].answer)
    BY <2>1, <2>2, <2>3, <2>5, <2>7, NoErrorsAllWhole
  <2>9. works[w] # <<>>
    <3>1. w \in 1 .. stage.level /\ stage.counts = [v \in 1 .. stage.level |-> Len(stage.works[v])]
      BY <2>1, <2>2, <2>3 DEF StageOfItsWorks
    <3>2. Len(works[w]) > 0
      BY <2>1, <2>2, <2>7, <3>1
    <3>3. Len(<<>>) = 0
      OBVIOUS
    <3>. QED
      BY <3>2, <3>3
  <2>. QED
    BY <2>8, <2>9
<1>. QED
  BY <1>2, <1>3

\* How many there are of a kind at some positions.
CountAt(s, I, C) == Cardinality({i \in I : s[i] \in C})

\* As many of a kind are kept as there are at the positions kept.
LEMMA KeptCount ==
    ASSUME NEW A, NEW s \in Seq(A), NEW I \in SUBSET (1 .. Len(s)), NEW C
    PROVE  CountIn(Kept(s, I), C) = CountAt(s, I, C)
<1>1. PICK t : t = Kept(s, I)
  OBVIOUS
<1>2. t \in Seq(A) /\ \E p : Picks(p, t, s, I)
  BY <1>1, KeptElements
<1>3. PICK p : Picks(p, t, s, I)
  BY <1>2
<1>4. /\ p \in [1 .. Len(t) -> I] /\ \A k \in 1 .. Len(t) : t[k] = s[p[k]]
      /\ \A k, l \in 1 .. Len(t) : k < l => p[k] < p[l]
      /\ \A i \in I : \E k \in 1 .. Len(t) : p[k] = i
  BY <1>3 DEF Picks
<1>5. Len(t) \in Nat /\ Len(s) \in Nat
  BY <1>2, LenProperties
<1>6. \A k, l \in 1 .. Len(t) : p[k] = p[l] => k = l
  <2>1. SUFFICES ASSUME NEW k \in 1 .. Len(t), NEW l \in 1 .. Len(t), p[k] = p[l], k # l
                 PROVE  FALSE
    OBVIOUS
  <2>2. k < l \/ l < k
    BY <1>5, <2>1
  <2>3. p[k] \in Int /\ p[l] \in Int
    <3>1. I \subseteq Int
      BY <1>5
    <3>. QED
      BY <1>4, <3>1
  <2>4. p[k] < p[l] \/ p[l] < p[k]
    BY <1>4, <2>2
  <2>. QED
    BY <2>1, <2>3, <2>4
<1>. DEFINE
    S == {k \in 1 .. Len(t) : t[k] \in C}
    T == {i \in I : s[i] \in C}
    f == [k \in S |-> p[k]]
<1>7. f \in [S -> T] /\ \A k, l \in S : f[k] = f[l] => k = l
  BY <1>4, <1>6
<1>8. \A i \in T : \E k \in S : f[k] = i
  <2>1. SUFFICES ASSUME NEW i \in T PROVE \E k \in S : f[k] = i
    OBVIOUS
  <2>2. PICK k \in 1 .. Len(t) : p[k] = i
    BY <1>4
  <2>. QED
    BY <1>4, <2>2
<1>9. IsFiniteSet(S)
  <2>1. S \in SUBSET (1 .. Len(t))
    OBVIOUS
  <2>. HIDE DEF S
  <2>. QED
    BY <1>5, <2>1, PositionsFinite
<1>10. Cardinality(T) = Cardinality(S)
  <2>. HIDE DEF S, T, f
  <2>. QED
    BY <1>7, <1>8, <1>9, EquallyMany
<1>. QED
  BY <1>1, <1>10 DEF CountIn, CountAt

\* Every stream came whole, and at most one in twenty was slow to start.
LEMMA TtftEarned ==
    ASSUME NEW local, local.items \in Seq(ToSet(local.items)), Genuine("local", local),
           TtftVerdict(SingleShotPerformance(local.items)) = "passed"
    PROVE  LET streaming == {i \in DOMAIN local.items : local.items[i].task # "vision"}
           IN  /\ \A i \in streaming : Whole(local.answers[i])
               /\ 20 * Cardinality({i \in streaming : local.items[i].ttft > TtftLimit})
                     <= Cardinality(streaming)
<1>1. PICK items : items = local.items
  OBVIOUS
<1>2. PICK A : A = ToSet(items)
  OBVIOUS
<1>3. items \in Seq(A) /\ DOMAIN items = 1 .. Len(items) /\ Len(items) \in Nat
      /\ \A i \in DOMAIN items : items[i] \in A
  BY <1>1, <1>2, MembersOf DEF ToSet
<1>4. \A i \in DOMAIN items : items[i].ok /\ items[i].task # "vision" =>
          Whole(local.answers[i]) /\ items[i].ttft \in Nat
  BY <1>1 DEF Genuine
<1>. DEFINE
    I == {i \in DOMAIN items : items[i].task # "vision"}
    streaming == Kept(items, I)
    J == {k \in DOMAIN streaming : streaming[k].ok /\ streaming[k].ttft # NotMeasured}
    streamed == Kept(streaming, J)
    col == [k \in DOMAIN streamed |-> streamed[k].ttft]
<1>5. I \in SUBSET (1 .. Len(items))
  BY <1>3
<1>6. /\ SingleShotPerformance(items).missing = Len(streaming) - Len(streamed)
      /\ SingleShotPerformance(items).p95 = PercentileOf(col, 95)
  BY DEF SingleShotPerformance, Filtered, Column
<1>7. /\ Len(streaming) - Len(streamed) = 0
      /\ PercentileOf(col, 95) # NotMeasured /\ PercentileOf(col, 95) <= TtftLimit
  BY <1>1, <1>6 DEF TtftVerdict, Verdict
<1>8. \A i \in I : items[i].task # "vision" /\ i \in DOMAIN items
  OBVIOUS
<1>9. \A k \in J : streaming[k].ok
  OBVIOUS
<1>. HIDE DEF I
<1>10. streaming \in Seq(A) /\ \E p : Picks(p, streaming, items, I)
  BY <1>3, <1>5, KeptElements
<1>11. DOMAIN streaming = 1 .. Len(streaming) /\ Len(streaming) \in Nat
  BY <1>10, LenProperties
<1>12. J \in SUBSET (1 .. Len(streaming))
  BY <1>11
<1>. HIDE DEF J
<1>13. streamed \in Seq(A)
  <2>. HIDE DEF streaming
  <2>. QED
    BY <1>10, <1>12, KeptElements
<1>14. J = 1 .. Len(streaming)
  <2>. HIDE DEF streaming
  <2>. QED
    BY <1>7, <1>10, <1>12, AllOrNone
<1>15. PICK p : Picks(p, streaming, items, I)
  BY <1>10
<1>16. /\ p \in [1 .. Len(streaming) -> I] /\ \A k \in 1 .. Len(streaming) : streaming[k] = items[p[k]]
       /\ \A i \in I : \E k \in 1 .. Len(streaming) : p[k] = i
  BY <1>15 DEF Picks
<1>17. ASSUME NEW i \in I
       PROVE  Whole(local.answers[i]) /\ items[i].ttft \in Nat
  <2>1. PICK k \in 1 .. Len(streaming) : p[k] = i
    BY <1>16
  <2>2. items[i].ok
    BY <1>9, <1>14, <1>16, <2>1
  <2>. QED
    BY <1>4, <1>8, <2>2
<1>. HIDE DEF streaming
<1>18. DOMAIN streamed = 1 .. Len(streamed) /\ Len(streamed) \in Nat
       /\ Len(streamed) = Len(streaming)
  BY <1>7, <1>11, <1>13, LenProperties
<1>19. IsFiniteSet(I) /\ Len(streamed) = Cardinality(I)
  <2>1. IsFiniteSet(I) /\ Len(Kept(items, I)) = Cardinality(I)
    BY <1>3, <1>5, KeptLength
  <2>. QED
    BY <1>18, <2>1 DEF streaming
<1>20. \A k \in 1 .. Len(streamed) : streamed[k] \in A /\ streamed[k].ttft \in Nat
  <2>1. \E q : Picks(q, streamed, streaming, J)
    BY <1>10, <1>12, KeptElements
  <2>2. PICK q : Picks(q, streamed, streaming, J)
    BY <2>1
  <2>3. q \in [1 .. Len(streamed) -> J] /\ \A k \in 1 .. Len(streamed) : streamed[k] = streaming[q[k]]
    BY <2>2 DEF Picks
  <2>4. \A k \in 1 .. Len(streaming) : streaming[k].ttft \in Nat
    BY <1>16, <1>17
  <2>. HIDE DEF streamed
  <2>. QED
    BY <1>13, <1>14, <2>3, <2>4, ElementOfSeq
<1>. DEFINE C == {r \in A : r.ttft > TtftLimit}
<1>21. CountIn(streamed, C) = CountAt(items, I, C)
  <2>. HIDE DEF C
  <2>1. CountIn(Kept(streaming, J), C) = CountAt(streaming, J, C)
    BY <1>10, <1>12, KeptCount
  <2>2. {k \in J : streaming[k] \in C} = {k \in 1 .. Len(streaming) : streaming[k] \in C}
    BY <1>14
  <2>3. CountIn(streamed, C) = CountIn(streaming, C)
    BY <2>1, <2>2 DEF CountIn, CountAt
  <2>4. CountIn(Kept(items, I), C) = CountAt(items, I, C)
    BY <1>3, <1>5, KeptCount
  <2>. QED
    BY <2>3, <2>4 DEF streaming
<1>22. {i \in I : items[i] \in C} = {i \in I : items[i].ttft > TtftLimit}
  BY <1>3, <1>8
<1>. HIDE DEF streamed
<1>23. col \in Seq(Int) /\ Len(col) = Len(streamed) /\ DOMAIN col = 1 .. Len(streamed)
       /\ \A k \in 1 .. Len(streamed) : col[k] = streamed[k].ttft
  BY <1>18, <1>20
<1>24. {k \in 1 .. Len(streamed) : streamed[k] \in C} = {k \in 1 .. Len(streamed) : col[k] > TtftLimit}
  BY <1>20, <1>23
<1>. HIDE DEF C, col
<1>25. CountIn(streamed, C) = Cardinality({k \in 1 .. Len(streamed) : col[k] > TtftLimit})
  BY <1>24 DEF CountIn
<1>26. col # <<>> /\ Percentile(col, 95) <= TtftLimit
  BY <1>7 DEF PercentileOf
<1>27. PICK v \in Int : v = Percentile(col, 95)
           /\ 100 * Cardinality({k \in 1 .. Len(col) : col[k] > v}) <= (100 - 95) * Len(col)
  <2>1. 95 \in 1 .. 100
    OBVIOUS
  <2>. QED
    BY <1>23, <1>26, <2>1, PercentileFacts
<1>. DEFINE
    Slow == {k \in 1 .. Len(streamed) : col[k] > TtftLimit}
    Over == {k \in 1 .. Len(streamed) : col[k] > v}
<1>28. Slow \subseteq Over
  <2>1. TtftLimit \in Nat /\ v <= TtftLimit
    BY <1>26, <1>27, AnswersAssumption
  <2>2. \A k \in 1 .. Len(streamed) : col[k] \in Nat
    BY <1>20, <1>23
  <2>. QED
    BY <2>1, <2>2
<1>29. Over \in SUBSET (1 .. Len(streamed))
  OBVIOUS
<1>30. 100 * Cardinality(Over) <= 5 * Len(streamed)
  BY <1>23, <1>27
<1>. HIDE DEF Slow, Over
<1>31. Cardinality(Slow) <= Cardinality(Over) /\ Cardinality(Slow) \in Nat /\ Cardinality(Over) \in Nat
  BY <1>18, <1>28, <1>29, PositionsFinite
<1>32. 20 * Cardinality(Slow) <= Len(streamed)
  BY <1>18, <1>30, <1>31
<1>33. 20 * Cardinality({i \in I : items[i].ttft > TtftLimit}) <= Cardinality(I)
  BY <1>19, <1>21, <1>22, <1>25, <1>32 DEF Slow, CountAt
<1>. QED
  BY <1>1, <1>17, <1>33 DEF I

\* Every request of a model has a usage.
LEMMA CostEarned ==
    ASSUME NEW profile, NEW stages, NEW models, models \subseteq DOMAIN profile,
           \A m \in models : profile[m] \in Seq(ToSet(profile[m])),
           CostVerdict(CostSummary(profile, stages), models) = "passed"
    PROVE  \A m \in models : \A i \in DOMAIN profile[m] : profile[m][i].usage # NotMeasured
<1>1. SUFFICES ASSUME NEW m \in models, NEW i \in DOMAIN profile[m]
               PROVE  profile[m][i].usage # NotMeasured
  OBVIOUS
<1>2. PICK given : given = profile[m]
  OBVIOUS
<1>3. UsageCost(given, m).missing = 0
  <2>1. CostSummary(profile, stages).api[m].missing = 0
    BY DEF CostVerdict, Verdict
  <2>2. CostSummary(profile, stages).api = [n \in DOMAIN profile |-> UsageCost(profile[n], n)]
    BY DEF CostSummary
  <2>. QED
    BY <1>2, <2>1, <2>2
<1>4. given \in Seq(ToSet(given)) /\ DOMAIN given = 1 .. Len(given) /\ Len(given) \in Nat
  BY <1>2, LenProperties
<1>. DEFINE I == {j \in DOMAIN given : given[j].ok /\ given[j].usage # NotMeasured}
<1>5. CASE m \in DOMAIN Prices
  <2>1. UsageCost(given, m).missing = Len(given) - Len(Kept(given, I))
    BY <1>5 DEF UsageCost, Filtered
  <2>2. I \in SUBSET (1 .. Len(given)) /\ \A j \in I : given[j].usage # NotMeasured
    BY <1>4
  <2>. HIDE DEF I
  <2>3. I = 1 .. Len(given)
    BY <1>3, <1>4, <2>1, <2>2, AllOrNone
  <2>. QED
    BY <1>2, <1>4, <2>2, <2>3
<1>6. CASE m \notin DOMAIN Prices
  <2>1. UsageCost(given, m).missing = Len(given) - Len(<<>>)
    BY <1>6 DEF UsageCost
  <2>2. Len(<<>>) = 0
    OBVIOUS
  <2>3. Len(given) = 0
    BY <1>3, <1>4, <2>1, <2>2
  <2>. QED
    BY <1>1, <1>2, <1>4, <2>3
<1>. QED
  BY <1>5, <1>6

\* The passes of an answer are apart.
LEMMA PassesApart ==
    ASSUME NEW d \in Nat \ {0}, NEW t \in Nat \ {0}, NEW u \in Nat \ {0},
           CeilDiv(t, d) = CeilDiv(u, d), (t + d - 1) % d = (u + d - 1) % d
    PROVE  t = u
<1>1. t + d - 1 \in Nat /\ u + d - 1 \in Nat
  OBVIOUS
<1>2. PICK x \in Nat : x = t + d - 1
  BY <1>1
<1>3. PICK y \in Nat : y = u + d - 1
  BY <1>1
<1>4. x \div d = y \div d /\ x % d = y % d
  BY <1>2, <1>3 DEF CeilDiv
<1>5. x = d * (x \div d) + (x % d) /\ y = d * (y \div d) + (y % d)
  BY Division
<1>6. x = y
  BY <1>4, <1>5
<1>. QED
  BY <1>2, <1>3, <1>6

\* A score is of an answer to a question the judge scores.
OfARow(e, attempted) ==
    /\ e.model \in DOMAIN attempted
    /\ \E j \in DOMAIN attempted[e.model] :
          LET r == attempted[e.model][j]
          IN  r.ok /\ r.task \in JudgedTasks /\ r.id = e.id

\* If no score is missing by the count, none is.
LEMMA NothingUnscored ==
    ASSUME NEW given, AllPasses(given), NEW attempted,
           \A m \in DOMAIN attempted : attempted[m] \in Seq(ToSet(attempted[m])),
           \A t \in DOMAIN given : OfARow(given[t], attempted),
           NEW expected,
           \A m \in DOMAIN attempted :
               ~ (MeasurementCompleteness(expected, attempted, given, JudgePasses)[m].judgeMissing > 0)
    PROVE  \A t \in DOMAIN given : given[t].score # NotMeasured
<1>1. SUFFICES ASSUME NEW t0 \in DOMAIN given, given[t0].score = NotMeasured
               PROVE  FALSE
  OBVIOUS
<1>2. PICK answers : \E failed :
          /\ answers \in Seq(ToSet(answers))
          /\ \A i, j \in 1 .. Len(answers) :
                 answers[i].id = answers[j].id /\ answers[i].model = answers[j].model => i = j
          /\ given = Scores(answers, failed)
  BY DEF AllPasses
<1>3. PICK failed : given = Scores(answers, failed)
  BY <1>2
<1>4. PICK P \in Nat \ {0} : P = JudgePasses
  BY BenchmarkAssumption
<1>5. PICK L \in Nat : L = Len(answers)
  BY <1>2, LenProperties
<1>6. PICK n \in Nat : n = L * P
  OBVIOUS
<1>7. /\ DOMAIN given = 1 .. n /\ given = [t \in 1 .. n |-> given[t]]
      /\ \A t \in 1 .. n : /\ given[t].id = answers[CeilDiv(t, P)].id
                           /\ given[t].model = answers[CeilDiv(t, P)].model
  BY <1>3, <1>4, <1>5, <1>6 DEF Scores
<1>8. \A t \in 1 .. n : CeilDiv(t, P) \in 1 .. L
  BY <1>6, PassesOf
<1>9. PICK m : m = given[t0].model
  OBVIOUS
<1>10. PICK asked : asked = attempted[m]
  OBVIOUS
<1>11. m \in DOMAIN attempted /\ asked \in Seq(ToSet(asked))
  BY <1>1, <1>9, <1>10 DEF OfARow
<1>. DEFINE
    J == {j \in DOMAIN asked : asked[j].ok /\ asked[j].task \in JudgedTasks}
    D == {t \in DOMAIN given : given[t].model = m /\ given[t].score # NotMeasured}
<1>12. ~ (Len(Kept(asked, J)) * P - Len(Kept(given, D)) > 0)
  <2>1. MeasurementCompleteness(expected, attempted, given, JudgePasses)[m].judgeMissing
            = Len(Kept(asked, J)) * P - Len(Kept(given, D))
    BY <1>4, <1>10, <1>11 DEF MeasurementCompleteness, Filtered
  <2>. HIDE DEF J, D
  <2>. QED
    BY <1>11, <2>1
<1>13. IsFiniteSet(J) /\ Len(Kept(asked, J)) = Cardinality(J) /\ Cardinality(J) \in Nat
  <2>1. J \in SUBSET (1 .. Len(asked))
    BY <1>11, LenProperties
  <2>. HIDE DEF J
  <2>. QED
    BY <1>11, <2>1, KeptLength, FS_CardinalityType
<1>14. IsFiniteSet(D) /\ Len(Kept(given, D)) = Cardinality(D) /\ Cardinality(D) \in Nat
  <2>1. given \in Seq(ToSet(given)) /\ Len(given) = n
    <3>1. \A t \in 1 .. n : given[t] \in ToSet(given)
      BY <1>7 DEF ToSet
    <3>. QED
      BY <1>7, <3>1
  <2>2. D \in SUBSET (1 .. Len(given))
    BY <1>7, <2>1
  <2>. HIDE DEF D
  <2>. QED
    BY <2>1, <2>2, KeptLength, FS_CardinalityType
<1>15. t0 \notin D /\ D \cup {t0} \subseteq 1 .. n /\ \A t \in D \cup {t0} : given[t].model = m
  BY <1>1, <1>7, <1>9
<1>16. \A t \in D \cup {t0} : \E j \in J : asked[j].id = given[t].id
  <2>1. SUFFICES ASSUME NEW t \in D \cup {t0} PROVE \E j \in J : asked[j].id = given[t].id
    OBVIOUS
  <2>2. t \in DOMAIN given /\ given[t].model = m
    BY <1>7, <1>15
  <2>. QED
    BY <1>10, <2>2 DEF OfARow
<1>. HIDE DEF J, D
<1>. DEFINE
    place == [t \in D \cup {t0} |-> CHOOSE j \in J : asked[j].id = given[t].id]
    f == [t \in D \cup {t0} |-> <<place[t], (t + P - 1) % P>>]
<1>17. \A t \in D \cup {t0} : place[t] \in J /\ asked[place[t]].id = given[t].id
  BY <1>16
<1>. HIDE DEF place
<1>18. \A t \in D \cup {t0} : t \in Nat \ {0} /\ (t + P - 1) % P \in 0 .. P - 1
  <2>1. SUFFICES ASSUME NEW t \in D \cup {t0} PROVE t \in Nat \ {0} /\ (t + P - 1) % P \in 0 .. P - 1
    OBVIOUS
  <2>2. t \in Nat \ {0}
    BY <1>15
  <2>3. t + P - 1 \in Nat
    BY <2>2
  <2>. QED
    BY <2>2, <2>3, Division
<1>19. f \in [D \cup {t0} -> J \X (0 .. P - 1)]
  BY <1>17, <1>18
<1>20. \A t, u \in D \cup {t0} : f[t] = f[u] => t = u
  <2>1. SUFFICES ASSUME NEW t \in D \cup {t0}, NEW u \in D \cup {t0}, f[t] = f[u]
                 PROVE  t = u
    OBVIOUS
  <2>2. place[t] = place[u] /\ (t + P - 1) % P = (u + P - 1) % P
    BY <2>1
  <2>3. given[t].id = given[u].id /\ given[t].model = given[u].model
    BY <1>15, <1>17, <2>2
  <2>4. t \in 1 .. n /\ u \in 1 .. n
    BY <1>15
  <2>5. PICK i \in 1 .. L : i = CeilDiv(t, P)
    BY <1>8, <2>4
  <2>6. PICK j \in 1 .. L : j = CeilDiv(u, P)
    BY <1>8, <2>4
  <2>7. answers[i].id = answers[j].id /\ answers[i].model = answers[j].model
    BY <1>7, <2>3, <2>4, <2>5, <2>6
  <2>8. i = j
    BY <1>2, <1>5, <2>7
  <2>. QED
    BY <1>18, <2>2, <2>5, <2>6, <2>8, PassesApart
<1>21. /\ IsFiniteSet(J \X (0 .. P - 1))
       /\ Cardinality(J \X (0 .. P - 1)) = Cardinality(J) * P
  <2>1. 0 \in Int /\ P - 1 \in Int
    OBVIOUS
  <2>2. IsFiniteSet(0 .. P - 1) /\ Cardinality(0 .. P - 1) = IF 0 > P - 1 THEN 0 ELSE (P - 1) - 0 + 1
    BY <2>1, FS_Interval
  <2>3. Cardinality(0 .. P - 1) = P
    BY <2>2
  <2>4. PICK T : T = 0 .. P - 1
    OBVIOUS
  <2>5. IsFiniteSet(J \X T) /\ Cardinality(J \X T) = Cardinality(J) * Cardinality(T)
    BY <1>13, <2>2, <2>4, FS_Product
  <2>. QED
    BY <2>3, <2>4, <2>5
<1>. HIDE DEF f
<1>22. Cardinality(D \cup {t0}) <= Cardinality(J) * P
  BY <1>19, <1>20, <1>21, NoMoreThan
<1>23. Cardinality(D \cup {t0}) = Cardinality(D) + 1
  BY <1>14, <1>15, FS_AddElement
<1>24. PICK a \in Nat : a = Cardinality(J) * P
  BY <1>13
<1>. QED
  BY <1>12, <1>13, <1>14, <1>22, <1>23, <1>24

\* That all is well is said only when nothing is missing.
LEMMA NothingElseSaid ==
    ASSUME NEW summary, NEW criteria, FollowupSuggestions(summary, criteria) = {"keep"}
    PROVE  \A m \in DOMAIN summary.completeness : ~ Incomplete(summary.completeness[m])
<1>1. SUFFICES ASSUME NEW m \in DOMAIN summary.completeness, Incomplete(summary.completeness[m])
               PROVE  FALSE
  OBVIOUS
<1>2. m \in {n \in DOMAIN summary.completeness : Incomplete(summary.completeness[n])}
  BY <1>1
<1>3. "incomplete" \in FollowupSuggestions(summary, criteria)
  BY <1>2 DEF FollowupSuggestions
<1>. QED
  BY <1>3

\* Rows of distinct items that are not fewer than the items are one for each.
LEMMA WholeDataset ==
    ASSUME NEW d \in DOMAIN Items, NEW given, OfItems(d, given), DistinctIds(given),
           ~ (Len(Items[d]) - Len(given) > 0)
    PROVE  Len(given) = Len(Items[d])
<1>1. Items[d] \in Seq([id : Ids, task : ToSet(Tasks)])
  BY BenchmarkAssumption
<1>2. DOMAIN Items[d] = 1 .. Len(Items[d]) /\ Len(Items[d]) \in Nat
  BY <1>1, LenProperties
<1>3. given \in Seq(ToSet(given)) /\ DOMAIN given = 1 .. Len(given) /\ Len(given) \in Nat
      /\ \A i \in DOMAIN given : given[i] \in ToSet(given)
  BY MembersOf DEF OfItems, ToSet
<1>4. \A i \in 1 .. Len(given) : \E j \in 1 .. Len(Items[d]) : given[i].id = Items[d][j].id
  BY <1>2, <1>3 DEF OfItems
<1>. DEFINE f == [i \in 1 .. Len(given) |-> CHOOSE j \in 1 .. Len(Items[d]) : given[i].id = Items[d][j].id]
<1>5. \A i \in 1 .. Len(given) : f[i] \in 1 .. Len(Items[d]) /\ given[i].id = Items[d][f[i]].id
  BY <1>4
<1>6. f \in [1 .. Len(given) -> 1 .. Len(Items[d])]
  BY <1>5
<1>. HIDE DEF f
<1>7. \A i, j \in 1 .. Len(given) : f[i] = f[j] => i = j
  BY <1>3, <1>5 DEF DistinctIds
<1>8. \A n \in Nat : IsFiniteSet(1 .. n) /\ Cardinality(1 .. n) = n
  <2>1. SUFFICES ASSUME NEW n \in Nat PROVE IsFiniteSet(1 .. n) /\ Cardinality(1 .. n) = n
    OBVIOUS
  <2>2. 1 \in Int /\ n \in Int
    OBVIOUS
  <2>3. /\ IsFiniteSet(1 .. n)
        /\ Cardinality(1 .. n) = IF 1 > n THEN 0 ELSE n - 1 + 1
    BY <2>2, FS_Interval
  <2>. QED
    BY <2>3
<1>9. PICK a \in Nat : a = Len(given)
  BY <1>3
<1>10. PICK b \in Nat : b = Len(Items[d])
  BY <1>2
<1>11. Cardinality(1 .. a) <= Cardinality(1 .. b)
  BY <1>6, <1>7, <1>8, <1>9, <1>10, NoMoreThan
<1>. QED
  BY <1>8, <1>9, <1>10, <1>11

LEMMA NoneFailed ==
    ASSUME NEW given, given \in Seq(ToSet(given)),
           ~ (Len(Kept(given, {j \in DOMAIN given : ~given[j].ok})) > 0)
    PROVE  \A i \in DOMAIN given : given[i].ok
<1>. DEFINE I == {j \in DOMAIN given : ~given[j].ok}
<1>1. I \in SUBSET (1 .. Len(given)) /\ \A i \in DOMAIN given : i \notin I => given[i].ok
  BY LenProperties
<1>2. ~ (Len(Kept(given, I)) > 0)
  OBVIOUS
<1>. HIDE DEF I
<1>3. Len(Kept(given, I)) \in Nat
  BY <1>1, KeptElements, LenProperties
<1>4. I = {}
  BY <1>1, <1>2, <1>3, AllOrNone
<1>. QED
  BY <1>1, <1>4

\* The scores of a report are of the rows it reports.
LEMMA ScoresAreOfRows ==
    ASSUME NEW given, NEW attempted, NEW e, e \in ToSet(given),
           ScoredOf(given) \subseteq UNION {OpenAnswers(m, attempted[m]) : m \in DOMAIN attempted}
    PROVE  OfARow(e, attempted)
<1>. DEFINE entry == [id |-> e.id, model |-> e.model, text |-> e.text]
<1>1. entry \in ScoredOf(given)
  BY DEF ScoredOf
<1>2. entry.id = e.id /\ entry.model = e.model
  OBVIOUS
<1>. HIDE DEF entry
<1>3. PICK m \in DOMAIN attempted : entry \in OpenAnswers(m, attempted[m])
  BY <1>1
<1>4. PICK r \in {s \in ToSet(attempted[m]) : s.ok /\ s.task \in JudgedTasks} :
          entry = [id |-> r.id, model |-> m, text |-> r.text]
  BY <1>3 DEF OpenAnswers
<1>5. e.id = r.id /\ e.model = m
  BY <1>2, <1>4
<1>6. PICK j \in DOMAIN attempted[m] : r = attempted[m][j]
  BY <1>4 DEF ToSet
<1>. QED
  BY <1>4, <1>5, <1>6 DEF OfARow

\* All is said to be well only of the whole dataset with all scores.
LEMMA PolicyEarned ==
    ASSUME NEW out, NEW d \in DOMAIN Items, NEW models, models \subseteq Models,
           OfItems(d, out.local.items), DistinctIds(out.local.items),
           DOMAIN out.openai.chat = models, \A m \in models : OfItems(d, out.openai.chat[m]),
           AllPasses(out.judge.scores), out.judge.passes = JudgePasses,
           ScoredOf(out.judge.scores)
               = OpenAnswers(LocalModel, out.local.items)
                 \cup UNION {OpenAnswers(m, out.openai.chat[m]) : m \in models},
           NEW attempted, attempted = With(out.openai.chat, LocalModel, out.local.items),
           \A m \in DOMAIN attempted :
               ~ Incomplete(MeasurementCompleteness(Len(Items[d]), attempted, out.judge.scores,
                                                    out.judge.passes)[m])
    PROVE  /\ Len(out.local.items) = Len(Items[d])
           /\ \A i \in DOMAIN out.local.items : out.local.items[i].ok
           /\ \A s \in ToSet(out.judge.scores) : s.score # NotMeasured
<1>1. /\ DOMAIN attempted = {LocalModel} \cup models
      /\ attempted[LocalModel] = out.local.items
      /\ \A m \in models : attempted[m] = out.openai.chat[m]
  <2>1. LocalModel \notin models
    BY BenchmarkAssumption
  <2>2. PICK chat : chat = out.openai.chat
    OBVIOUS
  <2>3. PICK items : items = out.local.items
    OBVIOUS
  <2>4. attempted = With(chat, LocalModel, items) /\ DOMAIN chat = models
    BY <2>2, <2>3
  <2>5. /\ DOMAIN attempted = {LocalModel} \cup models
        /\ attempted[LocalModel] = items
        /\ \A m \in models : attempted[m] = chat[m]
    BY <2>1, <2>4 DEF With
  <2>. QED
    BY <2>2, <2>3, <2>5
<1>2. PICK given : given = out.judge.scores
  OBVIOUS
<1>3. PICK total : total = Len(Items[d])
  OBVIOUS
<1>4. \A m \in DOMAIN attempted : OfItems(d, attempted[m]) /\ attempted[m] \in Seq(ToSet(attempted[m]))
  <2>1. \A m \in DOMAIN attempted : OfItems(d, attempted[m])
    BY <1>1
  <2>2. \A asked : OfItems(d, asked) => asked \in Seq(ToSet(asked))
    BY DEF OfItems
  <2>. QED
    BY <2>1, <2>2
<1>5. ASSUME NEW m \in DOMAIN attempted
      PROVE  LET counts == MeasurementCompleteness(total, attempted, given, JudgePasses)[m]
             IN  /\ ~ (counts.unattempted > 0) /\ ~ (counts.failures > 0)
                 /\ ~ (counts.judgeMissing > 0)
  BY <1>2, <1>3 DEF Incomplete
<1>6. /\ Len(attempted[LocalModel]) = total
      /\ \A i \in DOMAIN attempted[LocalModel] : attempted[LocalModel][i].ok
  <2>1. LocalModel \in DOMAIN attempted
    BY <1>1
  <2>2. PICK counts : counts = MeasurementCompleteness(total, attempted, given, JudgePasses)[LocalModel]
    OBVIOUS
  <2>3. PICK items : items = attempted[LocalModel]
    OBVIOUS
  <2>4. /\ counts.unattempted = total - Len(items)
        /\ counts.failures = Len(Kept(items, {j \in DOMAIN items : ~items[j].ok}))
    BY <2>1, <2>2, <2>3 DEF MeasurementCompleteness, Filtered
  <2>5. ~ (counts.unattempted > 0) /\ ~ (counts.failures > 0)
    BY <1>5, <2>1, <2>2
  <2>6. OfItems(d, items) /\ DistinctIds(items) /\ items \in Seq(ToSet(items))
    BY <1>1, <1>4, <2>1, <2>3
  <2>7. Len(items) = total
    BY <1>3, <2>4, <2>5, <2>6, WholeDataset
  <2>8. \A i \in DOMAIN items : items[i].ok
    BY <2>4, <2>5, <2>6, NoneFailed
  <2>. QED
    BY <2>3, <2>7, <2>8
<1>7. ScoredOf(given) \subseteq UNION {OpenAnswers(m, attempted[m]) : m \in DOMAIN attempted}
  <2>1. SUFFICES ASSUME NEW e \in ScoredOf(given)
                 PROVE  \E m \in DOMAIN attempted : e \in OpenAnswers(m, attempted[m])
    OBVIOUS
  <2>2. CASE e \in OpenAnswers(LocalModel, out.local.items)
    BY <1>1, <2>2
  <2>3. CASE e \in UNION {OpenAnswers(m, out.openai.chat[m]) : m \in models}
    <3>1. PICK m \in models : e \in OpenAnswers(m, out.openai.chat[m])
      BY <2>3
    <3>. QED
      BY <1>1, <3>1
  <2>. QED
    BY <1>2, <2>1, <2>2, <2>3
<1>8. \A t \in DOMAIN given : OfARow(given[t], attempted)
  <2>1. \A t \in DOMAIN given : given[t] \in ToSet(given)
    BY DEF ToSet
  <2>. QED
    BY <1>7, <2>1, ScoresAreOfRows
<1>9. \A t \in DOMAIN given : given[t].score # NotMeasured
  BY <1>2, <1>4, <1>5, <1>8, NothingUnscored
<1>. QED
  BY <1>1, <1>2, <1>3, <1>6, <1>9 DEF ToSet

-----------------------------------------------------------------------------
\* The quality.

\* An evaluation there is, is of the answers to every question.
EvaluationWhole ==
    evaluation \notin {NoFile, Torn} =>
        /\ DOMAIN evaluation.scored = DOMAIN evaluation.answers
        /\ \A s \in DOMAIN evaluation.answers : DOMAIN evaluation.answers[s] = Questions

LEMMA EvaluationStaysWhole ==
    ASSUME Evaluated, EvaluationWhole, Quality!Next
    PROVE  EvaluationWhole'
<1>1. CASE evaluation' = evaluation
  BY <1>1 DEF EvaluationWhole
<1>2. CASE Quality!BeginReport
  BY <1>2 DEF Quality!BeginReport, EvaluationWhole
<1>3. CASE Quality!EndReport
  <2>1. PICK e : e = evaluation'
    OBVIOUS
  <2>2. /\ step = "reporting" /\ e.answers = collected
        /\ DOMAIN e.scored = DOMAIN collected
    BY <1>3, <2>1 DEF Quality!EndReport
  <2>3. \A s \in DOMAIN collected : DOMAIN collected[s] = Questions
    BY <2>2 DEF Evaluated, AnswersOwn, GivenUnder
  <2>. QED
    BY <2>1, <2>2, <2>3 DEF EvaluationWhole
<1>4. Quality!BeginReport \/ Quality!EndReport \/ evaluation' = evaluation
  BY DEF Quality!Next, Quality!Start, Quality!UseQuestions, Quality!BeginFetch, Quality!EndFetch,
         Quality!ReuseResponses, Quality!RefuseResponses, Quality!CollectSystem,
         Quality!RetryFailedRows, Quality!BeginSaving, Quality!EndSaving, Quality!ReuseScores,
         Quality!RunCodexJudge, Quality!BeginCaching, Quality!EndCaching,
         Quality!ValidateJudgeScores, Quality!Fails, Quality!Crash, Quality!files
<1>. QED
  BY <1>1, <1>2, <1>3, <1>4

\* What the scores of answers add up to.
LEMMA OwnScores ==
    ASSUME NEW answers
    PROVE  /\ Quality!OwnScore(answers) \in Int
           /\ Len(JudgedItems) \in Nat
           /\ Len(JudgedItems) = 0 => Quality!OwnScore(answers) = 0
<1>. DEFINE f == [i \in DOMAIN JudgedItems |-> Quality!Score(answers[JudgedItems[i]].text)]
<1>1. /\ JudgedItems \in Seq(Questions) /\ Len(JudgedItems) \in Nat
      /\ DOMAIN JudgedItems = 1 .. Len(JudgedItems)
  BY QualityAssumption, LenProperties
<1>2. \A i \in DOMAIN JudgedItems : f[i] \in Int
  BY QualityAssumption DEF Quality!Score
<1>3. f = [i \in 1 .. Len(JudgedItems) |-> f[i]]
  BY <1>1
<1>4. Quality!OwnScore(answers) = Quality!SumOf(f)
  BY DEF Quality!OwnScore
<1>. HIDE DEF f
<1>5. PICK g : g = f
  OBVIOUS
<1>6. g \in Seq(Int) /\ Len(g) = Len(JudgedItems)
  BY <1>1, <1>2, <1>3, <1>5
<1>7. Quality!SumOf(g) = SumOf(g)
  BY DEF SumOf, Quality!SumOf, PartialSums, Quality!PartialSums
<1>8. SumOf(g) \in Int /\ (Len(g) = 0 => SumOf(g) = 0)
  BY <1>6, SumsAreNumbers
<1>. QED
  BY <1>1, <1>4, <1>5, <1>6, <1>7, <1>8

LEMMA CancelFactor ==
    ASSUME NEW a \in Int, NEW b \in Int, NEW n \in Nat \ {0}, a * n <= b * n
    PROVE  a <= b
<1>1. SUFFICES ASSUME ~ (a <= b) PROVE FALSE
  OBVIOUS
<1>2. PICK c \in Nat : c = a - b - 1
  BY <1>1
<1>3. a = b + (c + 1)
  BY <1>2
<1>4. PICK p \in Int : p = b * n
  OBVIOUS
<1>5. PICK q \in Nat : q = c * n
  OBVIOUS
<1>6. a * n = p + (q + n)
  BY <1>3, <1>4, <1>5
<1>. QED
  BY <1>4, <1>6

\* A system with a figure: nothing of it failed, and it has the score of its own answers.
LEMMA FigureOfItsOwn ==
    ASSUME evaluation # Torn, EvaluationOfOwnAnswers, EvaluationWhole,
           NEW system, SystemScore(DeepQualityReport, system) # NoFigure
    PROVE  /\ evaluation # NoFile /\ evaluation.judge # Nothing
           /\ system \in DOMAIN evaluation.answers
           /\ \A q \in Questions : evaluation.answers[system][q].ok
           /\ SystemScore(DeepQualityReport, system)
                = <<Quality!OwnScore(evaluation.answers[system]), Len(JudgedItems)>>
<1>1. PICK d : d = DeepQualityReport
  OBVIOUS
<1>2. /\ system \in DOMAIN d.scored /\ d.scored[system] = {} /\ system \in DOMAIN d.judge
      /\ SystemScore(d, system) = d.judge[system]
  BY <1>1 DEF SystemScore
<1>3. DOMAIN <<>> = {}
  OBVIOUS
<1>4. evaluation # NoFile
  <2>1. SUFFICES ASSUME evaluation = NoFile PROVE FALSE
    OBVIOUS
  <2>2. d.scored = <<>>
    BY <1>1, <2>1 DEF DeepQualityReport
  <2>. QED
    BY <1>2, <1>3, <2>2
<1>5. d = evaluation
  BY <1>1, <1>4 DEF DeepQualityReport
<1>6. PICK answers : answers = d.answers[system]
  OBVIOUS
<1>7. /\ DOMAIN d.scored = DOMAIN d.answers /\ DOMAIN answers = Questions
  BY <1>2, <1>4, <1>5, <1>6 DEF EvaluationWhole
<1>8. d.judge # <<>>
  BY <1>2, <1>3
<1>9. /\ d.scored[system] = Quality!FailedOf(answers)
      /\ d.judge[system] = <<Quality!OwnScore(answers), Len(JudgedItems)>>
  BY <1>2, <1>4, <1>5, <1>6, <1>8 DEF EvaluationOfOwnAnswers, Quality!EvaluationOfOwnAnswers,
     Quality!Nothing
<1>10. \A q \in Questions : answers[q].ok
  BY <1>2, <1>7, <1>9 DEF Quality!FailedOf
<1>. QED
  BY <1>1, <1>2, <1>4, <1>5, <1>6, <1>7, <1>8, <1>9, <1>10 DEF Nothing

LEMMA QualityEarnedBy ==
    ASSUME evaluation # Torn, EvaluationOfOwnAnswers, EvaluationWhole,
           NEW models, QualityVerdict(DeepQualityReport, models) = "passed"
    PROVE  LET Given(s) == evaluation.answers[s]
               Scored(s) ==
                   /\ s \in DOMAIN evaluation.answers
                   /\ \A q \in Questions : Given(s)[q].ok
           IN  /\ evaluation # NoFile
               /\ evaluation.judge # Nothing
               /\ Scored(LocalSystem)
               /\ \A m \in models :
                     /\ Scored(Counterpart[m])
                     /\ 10 * Quality!OwnScore(Given(LocalSystem))
                           >= 9 * Quality!OwnScore(Given(Counterpart[m]))
<1>1. PICK local : local = SystemScore(DeepQualityReport, LocalSystem)
  OBVIOUS
<1>2. /\ local # NoFigure
      /\ \A m \in models : m \in DOMAIN Counterpart
                             /\ SystemScore(DeepQualityReport, Counterpart[m]) # NoFigure
      /\ \A m \in models : 9 * SystemScore(DeepQualityReport, Counterpart[m])[1] * local[2]
                             <= 10 * local[1] * SystemScore(DeepQualityReport, Counterpart[m])[2]
  BY <1>1 DEF QualityVerdict, Verdict
<1>3. PICK L : L = Len(JudgedItems)
  OBVIOUS
<1>4. /\ local = <<Quality!OwnScore(evaluation.answers[LocalSystem]), L>>
      /\ evaluation # NoFile /\ evaluation.judge # Nothing
      /\ LocalSystem \in DOMAIN evaluation.answers
      /\ \A q \in Questions : evaluation.answers[LocalSystem][q].ok
  BY <1>1, <1>2, <1>3, FigureOfItsOwn
<1>5. PICK own : own = Quality!OwnScore(evaluation.answers[LocalSystem])
  OBVIOUS
<1>6. own \in Int /\ L \in Nat \ {0}
  <2>1. own \in Int /\ L \in Nat /\ (L = 0 => own = 0)
    BY <1>3, <1>5, OwnScores
  <2>2. L # 0
    BY <1>2, <1>4, <1>5, <2>1 DEF NoFigure
  <2>. QED
    BY <2>1, <2>2
<1>7. ASSUME NEW m \in models
      PROVE  /\ Counterpart[m] \in DOMAIN evaluation.answers
             /\ \A q \in Questions : evaluation.answers[Counterpart[m]][q].ok
             /\ 10 * own >= 9 * Quality!OwnScore(evaluation.answers[Counterpart[m]])
  <2>1. PICK other : other = Counterpart[m]
    OBVIOUS
  <2>2. PICK figure : figure = SystemScore(DeepQualityReport, other)
    OBVIOUS
  <2>3. figure # NoFigure /\ 9 * figure[1] * local[2] <= 10 * local[1] * figure[2]
    BY <1>2, <1>7, <2>1, <2>2
  <2>4. /\ figure = <<Quality!OwnScore(evaluation.answers[other]), L>>
        /\ other \in DOMAIN evaluation.answers
        /\ \A q \in Questions : evaluation.answers[other][q].ok
    BY <1>3, <2>2, <2>3, FigureOfItsOwn
  <2>5. PICK its : its = Quality!OwnScore(evaluation.answers[other])
    OBVIOUS
  <2>6. its \in Int
    BY <2>5, OwnScores
  <2>7. /\ local[1] = own /\ local[2] = L /\ figure[1] = its /\ figure[2] = L
    BY <1>4, <1>5, <2>4, <2>5
  <2>8. PICK a \in Int : a = 9 * its
    BY <2>6
  <2>9. PICK b \in Int : b = 10 * own
    BY <1>6
  <2>10. a * L <= b * L
    BY <2>3, <2>7, <2>8, <2>9
  <2>11. a <= b
    BY <1>6, <2>10, CancelFactor
  <2>. QED
    BY <2>1, <2>4, <2>5, <2>8, <2>9, <2>11
<1>. QED
  BY <1>4, <1>5, <1>7

-----------------------------------------------------------------------------
\* The verdicts of a report.

\* FiguresEarned and QualityEarned, of any report.
FiguresOf(r) ==
    LET out == r.outputs
        verdict == r.criteria
        streaming == {i \in DOMAIN out.local.items : out.local.items[i].task # "vision"}
    IN  /\ verdict.stability = "passed" =>
              /\ Busy(out.load)
              /\ \A works \in WorksUpTo(out.load, RequiredLevel) : \A w \in DOMAIN works :
                    /\ works[w] # <<>>
                    /\ \A i \in DOMAIN works[w] : Whole(works[w][i].answer)
        /\ verdict.ttft = "passed" =>
              /\ \A i \in streaming : Whole(out.local.answers[i])
              /\ 20 * Cardinality({i \in streaming : out.local.items[i].ttft > TtftLimit})
                    <= Cardinality(streaming)
        /\ verdict.cost = "passed" =>
              \A m \in r.config.models : \A i \in DOMAIN out.openai.load[m] :
                  out.openai.load[m][i].usage # NotMeasured
        /\ r.followups = {"keep"} =>
              /\ Len(out.local.items) = Len(Items[r.config.dataset])
              /\ \A i \in DOMAIN out.local.items : out.local.items[i].ok
              /\ \A s \in ToSet(out.judge.scores) : s.score # NotMeasured

QualityOf(r) ==
    r.criteria.quality = "passed" =>
        LET Given(s) == r.evaluation.answers[s]
            Scored(s) ==
                /\ s \in DOMAIN r.evaluation.answers
                /\ \A q \in Questions : Given(s)[q].ok
        IN  /\ r.evaluation # NoFile
            /\ r.evaluation.judge # Nothing
            /\ Scored(LocalSystem)
            /\ \A m \in r.config.models :
                  /\ Scored(Counterpart[m])
                  /\ 10 * Quality!OwnScore(Given(LocalSystem))
                        >= 9 * Quality!OwnScore(Given(Counterpart[m]))

\* What is reported, and what is about to be.
Verdicted ==
    /\ pc = "publishing" => FiguresOf(result) /\ QualityOf(result)
    /\ report # NoFile => FiguresOf(report) /\ QualityOf(report)

\* When all phases have been looked up.
LEMMA AllMeasured ==
    ASSUME Control, Measured, Authentic, pc = "looking", todo = <<>>, "report" \in config.phases,
           NEW out, out = outputs
    PROVE  /\ config.dataset \in DOMAIN Items /\ ToSet(config.models) \subseteq Models
           /\ OfItems(config.dataset, out.local.items)
           /\ DOMAIN out.openai.chat = ToSet(config.models)
           /\ \A m \in ToSet(config.models) : OfItems(config.dataset, out.openai.chat[m])
           /\ ScoredOf(out.judge.scores) =
                 OpenAnswers(LocalModel, out.local.items)
                 \cup UNION {OpenAnswers(m, out.openai.chat[m]) : m \in ToSet(config.models)}
           /\ \A n \in PhaseSet : Genuine(n, out[n])
<1>. DEFINE d == config.dataset
<1>1. pc \in Underway /\ pc # "idle"
  BY DEF Underway
<1>2. config \in Configs /\ d \in DOMAIN Items /\ config.models \in Seq(Models)
  BY <1>1, BenchmarkAssumption DEF Control
<1>3. PhaseSet = DOMAIN outputs
  <2>1. ToSet(<<>>) = {}
    <3>1. DOMAIN <<>> = {}
      OBVIOUS
    <3>. QED
      BY <3>1 DEF ToSet
  <2>. QED
    BY <1>1, <2>1 DEF Control
<1>4. \A n \in PhaseSet : Sound(n, MetaOf(config, outputs, n), outputs[n])
  BY <1>1, <1>3 DEF Measured
<1>5. \A n \in PhaseSet : Genuine(n, out[n])
  BY <1>1, <1>3 DEF Authentic
<1>6. PICK metas : metas = [n \in PhaseSet |-> MetaOf(config, outputs, n)]
  OBVIOUS
<1>7. \A n \in PhaseSet : Sound(n, metas[n], out[n])
  BY <1>4, <1>6
<1>8. \A n \in PhaseSet : metas[n].dataset = d /\ metas[n].sample = config.sample
  BY <1>6, MetaFacts DEF PhaseSet
<1>9. metas["openai"].more = config.models
  BY <1>6, MetaFacts DEF PhaseSet
<1>10. "local" \in PhaseSet /\ "openai" \in PhaseSet
  BY DEF PhaseSet
<1>11. OfItems(d, out.local.items)
  BY <1>7, <1>8, <1>10 DEF Sound
<1>12. /\ DOMAIN out.openai.chat = ToSet(config.models)
       /\ \A m \in ToSet(config.models) : OfItems(d, out.openai.chat[m])
  BY <1>7, <1>8, <1>9, <1>10 DEF Sound
<1>13. PICK r : r = [config |-> Conditions, outputs |-> outputs]
  OBVIOUS
<1>14. r.config = Conditions /\ r.outputs = out
  BY <1>13
<1>15. OneMeasurement(r)
  BY <1>14, ReportIsOfOneMeasurement
<1>16. r.config.models = ToSet(config.models)
  BY <1>14 DEF Conditions
<1>17. ScoredOf(out.judge.scores) =
           OpenAnswers(LocalModel, out.local.items)
           \cup UNION {OpenAnswers(m, out.openai.chat[m]) : m \in ToSet(config.models)}
  BY <1>14, <1>15, <1>16 DEF OneMeasurement
<1>18. ToSet(config.models) \subseteq Models
  BY <1>2, MembersOf
<1>. QED
  BY <1>2, <1>5, <1>11, <1>12, <1>17, <1>18

\* A report of a run that has all its results.
LEMMA ReportIsEarned ==
    ASSUME Control, Measured, Authentic, EvaluationOfOwnAnswers, EvaluationWhole,
           pc = "looking", todo = <<>>, "report" \in config.phases, evaluation # Torn,
           NEW r, r.config = Conditions, r.outputs = outputs, r.evaluation = evaluation,
           r.criteria = EvaluatePassCriteria(ReportSummary, DeepQualityReport, ToSet(config.models)),
           r.followups = FollowupSuggestions(ReportSummary, r.criteria)
    PROVE  FiguresOf(r) /\ QualityOf(r)
<1>1. PICK out : out = outputs
  OBVIOUS
<1>2. PICK models : models = ToSet(config.models)
  OBVIOUS
<1>3. PICK d : d = config.dataset
  OBVIOUS
<1>4. /\ r.outputs = out /\ r.config.dataset = d /\ r.config.models = models
  BY <1>1, <1>2, <1>3 DEF Conditions
<1>5. /\ d \in DOMAIN Items /\ models \subseteq Models
      /\ OfItems(d, out.local.items)
      /\ DOMAIN out.openai.chat = models
      /\ \A m \in models : OfItems(d, out.openai.chat[m])
      /\ ScoredOf(out.judge.scores) =
            OpenAnswers(LocalModel, out.local.items)
            \cup UNION {OpenAnswers(m, out.openai.chat[m]) : m \in models}
      /\ \A n \in PhaseSet : Genuine(n, out[n])
  BY <1>1, <1>2, <1>3, AllMeasured
<1>6. /\ Genuine("local", out.local) /\ Genuine("load", out.load)
      /\ Genuine("openai", out.openai) /\ Genuine("judge", out.judge)
  BY <1>5 DEF PhaseSet
<1>7. PICK idle : idle = Mean(out.load.idle)
  OBVIOUS
<1>8. PICK summary : summary = ReportSummary
  OBVIOUS
<1>9. PICK attempted : attempted = With(out.openai.chat, LocalModel, out.local.items)
  OBVIOUS
<1>10. PICK stages : stages = [i \in DOMAIN out.load.stages |-> LoadStageSummary(out.load.stages[i], idle)]
  OBVIOUS
<1>11. /\ summary.stages = stages /\ summary.overlap = out.load.overlap
       /\ summary.single = SingleShotPerformance(out.local.items)
       /\ summary.cost = CostSummary(out.openai.load, stages)
       /\ summary.completeness = MeasurementCompleteness(Len(Items[d]), attempted,
                                                         out.judge.scores, out.judge.passes)
  BY <1>1, <1>3, <1>7, <1>8, <1>9, <1>10 DEF ReportSummary, Column, Attempted
<1>12. /\ r.criteria.stability = StabilityVerdict(stages, out.load.overlap)
       /\ r.criteria.ttft = TtftVerdict(SingleShotPerformance(out.local.items))
       /\ r.criteria.quality = QualityVerdict(DeepQualityReport, models)
       /\ r.criteria.cost = CostVerdict(CostSummary(out.openai.load, stages), models)
  BY <1>2, <1>8, <1>11 DEF EvaluatePassCriteria
<1>13. ASSUME r.criteria.stability = "passed"
       PROVE  /\ Busy(out.load)
              /\ \A works \in WorksUpTo(out.load, RequiredLevel) : \A w \in DOMAIN works :
                    /\ works[w] # <<>>
                    /\ \A i \in DOMAIN works[w] : Whole(works[w][i].answer)
  <2>1. PICK load : load = out.load
    OBVIOUS
  <2>2. /\ load.stages \in Seq(ToSet(load.stages))
        /\ \A stage \in ToSet(load.stages) : StageOfItsWorks(stage)
        /\ OverlapOf(load.stages, load.overlap)
    BY <1>6, <2>1 DEF Genuine
  <2>3. StabilityVerdict(stages, load.overlap) = "passed"
    BY <1>12, <1>13, <2>1
  <2>4. stages = [i \in DOMAIN load.stages |-> LoadStageSummary(load.stages[i], idle)]
    BY <1>10, <2>1
  <2>5. /\ Busy(load)
        /\ \A works \in WorksUpTo(load, RequiredLevel) : \A w \in DOMAIN works :
              /\ works[w] # <<>>
              /\ \A i \in DOMAIN works[w] : Whole(works[w][i].answer)
    BY <2>2, <2>3, <2>4, StabilityEarned
  <2>. QED
    BY <2>1, <2>5
<1>14. ASSUME r.criteria.ttft = "passed"
       PROVE  LET streaming == {i \in DOMAIN out.local.items : out.local.items[i].task # "vision"}
              IN  /\ \A i \in streaming : Whole(out.local.answers[i])
                  /\ 20 * Cardinality({i \in streaming : out.local.items[i].ttft > TtftLimit})
                        <= Cardinality(streaming)
  <2>1. PICK local : local = out.local
    OBVIOUS
  <2>2. /\ local.items \in Seq(ToSet(local.items)) /\ Genuine("local", local)
        /\ TtftVerdict(SingleShotPerformance(local.items)) = "passed"
    BY <1>5, <1>6, <1>12, <1>14, <2>1 DEF OfItems
  <2>3. LET streaming == {i \in DOMAIN local.items : local.items[i].task # "vision"}
        IN  /\ \A i \in streaming : Whole(local.answers[i])
            /\ 20 * Cardinality({i \in streaming : local.items[i].ttft > TtftLimit})
                  <= Cardinality(streaming)
    BY <2>2, TtftEarned
  <2>. QED
    BY <2>1, <2>3
<1>15. ASSUME r.criteria.cost = "passed"
       PROVE  \A m \in models : \A i \in DOMAIN out.openai.load[m] :
                  out.openai.load[m][i].usage # NotMeasured
  <2>1. PICK profile : profile = out.openai.load
    OBVIOUS
  <2>2. DOMAIN profile = models /\ \A m \in models : profile[m] \in Seq(ToSet(profile[m]))
    BY <1>5, <1>6, <2>1 DEF Genuine
  <2>3. CostVerdict(CostSummary(profile, stages), models) = "passed"
    BY <1>12, <1>15, <2>1
  <2>4. \A m \in models : \A i \in DOMAIN profile[m] : profile[m][i].usage # NotMeasured
    BY <2>2, <2>3, CostEarned
  <2>. QED
    BY <2>1, <2>4
<1>16. ASSUME r.followups = {"keep"}
       PROVE  /\ Len(out.local.items) = Len(Items[d])
              /\ \A i \in DOMAIN out.local.items : out.local.items[i].ok
              /\ \A s \in ToSet(out.judge.scores) : s.score # NotMeasured
  <2>1. PICK counts : counts = MeasurementCompleteness(Len(Items[d]), attempted,
                                                       out.judge.scores, out.judge.passes)
    OBVIOUS
  <2>2. FollowupSuggestions(summary, r.criteria) = {"keep"} /\ summary.completeness = counts
    BY <1>8, <1>11, <1>16, <2>1
  <2>3. \A m \in DOMAIN counts : ~ Incomplete(counts[m])
    BY <2>2, NothingElseSaid
  <2>4. DOMAIN counts = DOMAIN attempted
    BY <2>1 DEF MeasurementCompleteness
  <2>5. \A m \in DOMAIN attempted :
            ~ Incomplete(MeasurementCompleteness(Len(Items[d]), attempted, out.judge.scores,
                                                 out.judge.passes)[m])
    BY <2>1, <2>3, <2>4
  <2>6. DistinctIds(out.local.items) /\ AllPasses(out.judge.scores) /\ out.judge.passes = JudgePasses
    BY <1>6 DEF Genuine
  <2>. QED
    BY <1>5, <1>9, <2>5, <2>6, PolicyEarned
<1>17. FiguresOf(r)
  BY <1>4, <1>13, <1>14, <1>15, <1>16 DEF FiguresOf
<1>18. QualityOf(r)
  <2>1. SUFFICES ASSUME r.criteria.quality = "passed" PROVE QualityOf(r)
    BY DEF QualityOf
  <2>2. QualityVerdict(DeepQualityReport, models) = "passed"
    BY <1>12, <2>1
  <2>3. /\ evaluation # NoFile
        /\ evaluation.judge # Nothing
        /\ LocalSystem \in DOMAIN evaluation.answers
        /\ \A q \in Questions : evaluation.answers[LocalSystem][q].ok
        /\ \A m \in models :
              /\ Counterpart[m] \in DOMAIN evaluation.answers
              /\ \A q \in Questions : evaluation.answers[Counterpart[m]][q].ok
              /\ 10 * Quality!OwnScore(evaluation.answers[LocalSystem])
                    >= 9 * Quality!OwnScore(evaluation.answers[Counterpart[m]])
    BY <2>2, QualityEarnedBy
  <2>. QED
    BY <1>4, <2>3 DEF QualityOf
<1>. QED
  BY <1>17, <1>18

LEMMA NextKeepsVerdicted ==
    ASSUME Control, Measured, Authentic, EvaluationOfOwnAnswers, EvaluationWhole, Verdicted, Next
    PROVE  Verdicted'
<1>1. CASE BuildReport
  <2>1. /\ report' = report /\ pc = "looking" /\ todo = <<>> /\ "report" \in config.phases
    BY <1>1 DEF BuildReport, files
  <2>2. CASE pc' = "idle"
    BY <2>1, <2>2 DEF Verdicted
  <2>3. CASE pc' # "idle"
    <3>1. PICK r : r = result'
      OBVIOUS
    <3>2. /\ evaluation # Torn
          /\ r.config = Conditions /\ r.outputs = outputs /\ r.evaluation = evaluation
          /\ r.criteria = EvaluatePassCriteria(ReportSummary, DeepQualityReport, ToSet(config.models))
          /\ r.followups = FollowupSuggestions(ReportSummary, r.criteria)
      BY <1>1, <2>3, <3>1 DEF BuildReport, End
    <3>3. FiguresOf(r) /\ QualityOf(r)
      BY <2>1, <3>2, ReportIsEarned
    <3>. QED
      BY <2>1, <3>1, <3>3 DEF Verdicted
  <2>. QED
    BY <2>2, <2>3
<1>2. CASE Publish
  <2>1. /\ pc = "publishing"
        /\ report' = report \/ report' = result
        /\ pc' = "idle" \/ (pc' = pc /\ result' = result)
    BY <1>2 DEF Publish, End
  <2>. QED
    BY <2>1 DEF Verdicted
<1>3. CASE ~ BuildReport /\ ~ Publish
  <2>1. report' = report
    BY <1>3 DEF Next, Start, Reuse, Refuse, Produce, BeginWriting, EndWriting, StartGateway, Healthy,
                StartupFails, PhaseFails, MeasureLocal, MeasureStage, FinishLoad, AskOpenAi, Judge,
                Finish, Crash, files
  <2>2. pc' # "publishing"
    <3>1. CASE Healthy \/ Produce
      <4>1. Head(todo) \in PhaseSet
        <5>1. pc \in Underway /\ todo # <<>>
          BY <3>1 DEF Healthy, Produce, Looking, Control, Underway, Producing
        <5>. QED
          BY <5>1, OrderedTail DEF Control
      <4>2. pc' \in {Head(todo), "starting"}
        BY <3>1 DEF Healthy, Produce, Current
      <4>. QED
        BY <4>1, <4>2 DEF PhaseSet
    <3>2. CASE Reuse \/ MeasureStage
      <4>1. pc' = pc /\ pc \in {"looking", "load"}
        BY <3>2 DEF Reuse, Looking, MeasureStage
      <4>. QED
        BY <4>1
    <3>3. CASE ~ Healthy /\ ~ Produce /\ ~ Reuse /\ ~ MeasureStage
      BY <1>3, <3>3 DEF Next, Start, Refuse, BeginWriting, EndWriting, StartGateway,
                StartupFails, PhaseFails, MeasureLocal, FinishLoad, AskOpenAi, Judge,
                Finish, Crash, End
    <3>. QED
      BY <3>1, <3>2, <3>3
  <2>. QED
    BY <2>1, <2>2 DEF Verdicted
<1>. QED
  BY <1>1, <1>2, <1>3

LEMMA IdleKeepsAuthentic ==
    ASSUME Authentic, UNCHANGED <<cache, pc, todo, outputs, result>>
    PROVE  Authentic'
<1>1. /\ cache' = cache /\ pc' = pc /\ todo' = todo /\ outputs' = outputs /\ result' = result
  OBVIOUS
<1>2. Stages' = Stages
  BY <1>1 DEF Stages
<1>. QED
  BY <1>1, <1>2 DEF Authentic

LEMMA IdleKeepsVerdicted ==
    ASSUME Verdicted, UNCHANGED <<pc, report, result>>
    PROVE  Verdicted'
BY DEF Verdicted

\* What verdicts are made of is what was measured, and they are earned.
Earned == Authentic /\ EvaluationWhole /\ Verdicted

LEMMA StepKeepsEarned ==
    ASSUME Control, Measured, Evaluated, EvaluationOfOwnAnswers, Typed, Earned,
           [BenchmarkStep \/ QualityStep]_suiteVars
    PROVE  Earned'
<1>1. CASE BenchmarkStep
  <2>1. Authentic'
    BY <1>1, NextKeepsAuthentic DEF BenchmarkStep, Typed, Earned
  <2>2. Verdicted'
    BY <1>1, NextKeepsVerdicted DEF BenchmarkStep, Earned
  <2>3. evaluation' = evaluation
    BY <1>1 DEF BenchmarkStep
  <2>4. EvaluationWhole'
    BY <2>3 DEF Earned, EvaluationWhole
  <2>. QED
    BY <2>1, <2>2, <2>4 DEF Earned
<1>2. CASE QualityStep
  <2>1. UNCHANGED <<cache, report, pc, todo, outputs, result>> /\ Quality!Next
    BY <1>2 DEF QualityStep, benchmarkOnly, files
  <2>2. Authentic' /\ Verdicted'
    BY <2>1, IdleKeepsAuthentic, IdleKeepsVerdicted DEF Earned
  <2>3. EvaluationWhole'
    BY <2>1, EvaluationStaysWhole DEF Earned
  <2>. QED
    BY <2>2, <2>3 DEF Earned
<1>3. CASE UNCHANGED suiteVars
  <2>1. UNCHANGED <<cache, report, pc, todo, outputs, result, evaluation>>
    BY <1>3 DEF suiteVars, vars, files
  <2>2. Authentic' /\ Verdicted'
    BY <2>1, IdleKeepsAuthentic, IdleKeepsVerdicted DEF Earned
  <2>3. EvaluationWhole'
    BY <2>1 DEF Earned, EvaluationWhole
  <2>. QED
    BY <2>2, <2>3 DEF Earned
<1>. QED
  BY <1>1, <1>2, <1>3

\* No verdict passes on less than was to be measured (evaluate_pass_criteria): what a report
\* that says so was made of came whole, from every worker, item, model and system compared.
THEOREM VerdictsAreEarned == SuiteSpec => []VerdictsEarned
<1>1. SuiteInit => Earned
  <2>1. SUFFICES ASSUME SuiteInit PROVE Earned
    OBVIOUS
  <2>2. /\ cache = [n \in PhaseSet |-> NoFile] /\ pc = "idle" /\ report = NoFile
        /\ evaluation = NoFile
    BY <2>1, PhasesFacts DEF SuiteInit, Init
  <2>3. pc \notin Underway
    BY <2>2 DEF Underway, PhaseSet
  <2>. QED
    BY <2>2, <2>3 DEF Earned, Authentic, EvaluationWhole, Verdicted
<1>2. Control /\ Measured /\ Evaluated /\ EvaluationOfOwnAnswers /\ Typed /\ Earned
        /\ [BenchmarkStep \/ QualityStep]_suiteVars => Earned'
  BY StepKeepsEarned
<1>3. Earned => VerdictsEarned
  <2>1. SUFFICES ASSUME Earned, report # NoFile PROVE FiguresEarned /\ QualityEarned
    BY DEF VerdictsEarned, FiguresEarned, QualityEarned
  <2>2. FiguresOf(report) /\ QualityOf(report)
    BY <2>1 DEF Earned, Verdicted
  <2>3. FiguresEarned
    BY <2>2 DEF FiguresOf, FiguresEarned
  <2>4. QualityEarned
    BY <2>2 DEF QualityOf, QualityEarned
  <2>. QED
    BY <2>3, <2>4
<1>. QED
  BY <1>1, <1>2, <1>3, ControlInvariance, MeasuredInvariance, EvaluatedInvariance, TypedInvariance,
     PTL DEF SuiteSpec, suiteVars

=============================================================================
