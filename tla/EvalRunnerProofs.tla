---------------------------- MODULE EvalRunnerProofs ----------------------------
(***************************************************************************)
(* Proofs about EvalRunner, for any suites, answers, rotation of the alias *)
(* and floors.  What a pass makes of a case is a function of the case and  *)
(* of what is on disk: that is what a replay relies on.                    *)
(***************************************************************************)
EXTENDS EvalRunner, FiniteSetTheorems, SequenceTheorems, TLAPS

Ids == {"call_0", "none"}
Echoes == Ids \X Days
Models == {Alias[d] : d \in Days} \cup {""}
Outcomes == Answers \cup {"form_fallback", "error"}

Fixture ==
  [answer : Answers \cup {"invalid", "error"}, id : Ids, model : Models, day : Days]

Result == [outcome : Outcomes \cup {"none"}, status : {"pass", "fail", "pending"}]

Run ==
  [pc : {"done", "driving"}, mode : {"none", "record", "replay"}, results : Seq(Result),
   echo : Echoes \cup {NoCall}, fetched : BOOLEAN, served : SUBSET Models,
   stamp : Nat, exit : {0, 1, Thrown, 130}]

EvalShape ==
  /\ suite \in Seq(CaseFile) /\ suite \in Suites
  /\ day \in Days /\ meta \in Nat
  /\ run \in Run
  /\ \A k \in DOMAIN fixtures : fixtures[k] \in Fixture

\* Every recording names the model of its day, unless it is of a refusal.
RecordingsInv ==
  \A k \in DOMAIN fixtures :
    fixtures[k].answer # "error" => fixtures[k].model = Alias[fixtures[k].day]

\* The two keys that the turn of a case may compute.
FirstKey(c) == <<c.input, NoCall>>
SecondKey(c, f) == <<c.input, <<f.id, f.day>>>>

\* What is on disk is enough for a case, and what a pass then makes of it.
Recorded(fs, c) ==
  /\ FirstKey(c) \in DOMAIN fs
  /\ fs[FirstKey(c)].answer = "invalid" => SecondKey(c, fs[FirstKey(c)]) \in DOMAIN fs

OutcomeOf(fs, c) ==
  LET f == fs[FirstKey(c)]  g == fs[SecondKey(c, f)] IN
  IF f.answer # "invalid" THEN f.answer
  ELSE IF g.answer = "invalid" THEN "form_fallback" ELSE g.answer

ScoreOf(c, outcome) ==
  [outcome |-> outcome, status |-> IF Passes(c, outcome) THEN "pass" ELSE "fail"]

ResultOf(fs, c) ==
  IF c.pending = TRUE THEN [status |-> "pending", outcome |-> "none"]
                      ELSE ScoreOf(c, OutcomeOf(fs, c))

\* The results are those that the recordings on disk lead to.
Replays(fs, cases, results) ==
  /\ Len(results) <= Len(cases)
  /\ \A i \in 1 .. Len(results) :
       /\ cases[i].pending # TRUE => Recorded(fs, cases[i])
       /\ results[i] = ResultOf(fs, cases[i])

\* A pass on its way: what it has scored follows from what is on disk, and the
\* call that it sends back is the recorded one.
PassInv ==
  run.pc = "driving" =>
    /\ WellFormed(suite)
    /\ Replays(fixtures, suite, run.results)
    /\ run.exit = Thrown
    /\ run.echo # NoCall =>
         /\ Len(run.results) < Len(suite) /\ Case.pending # TRUE
         /\ FirstKey(Case) \in DOMAIN fixtures
         /\ LET f == fixtures[FirstKey(Case)] IN
              f.answer = "invalid" /\ run.echo = <<f.id, f.day>>

\* The results a pass leaves behind, which outlive the recordings.
ScoreInv ==
  \A i \in 1 .. Len(run.results) : i <= Len(suite) /\
    (suite[i].pending # TRUE =>
       /\ run.results[i].outcome \in Outcomes
       /\ run.results[i] = ScoreOf(suite[i], run.results[i].outcome))

\* The verdict of a pass that came to its end.
VerdictInv ==
  Completed =>
    /\ WellFormed(suite) /\ Len(run.results) = Len(suite)
    /\ \A k \in DOMAIN fixtures :
         fixtures[k].answer # "error" => fixtures[k].model \in run.served
    /\ run.mode = "replay" /\ run.exit = 0 => \A t \in Tiers : ~ BelowFloor(t, run.results)

\* A complete capture can be replayed as long as nothing of it is removed.
CaptureInv ==
  captured # <<>> =>
    /\ WellFormed(suite) /\ captured \in Seq(Result)
    /\ Len(captured) = Len(suite) /\ Replays(fixtures, suite, captured)
    /\ run.mode = "replay" /\ run.pc = "done" =>
         run.exit # Thrown /\ (Completed => run.results = captured)

EvalInv ==
  EvalShape /\ RecordingsInv /\ PassInv /\ ScoreInv /\ VerdictInv /\ CaptureInv

-------------------------------------------------------------------------------

\* The mode of a key: no echo looks like NoCall.
LEMMA EchoFacts == NoCall \notin Echoes
  BY DEF NoCall, Echoes

\* An answer is not one of the other ends of a turn.
LEMMA AnswerFacts ==
  /\ \A a \in Answers : a \notin {"invalid", "error", "form_fallback", "no_action"}
  /\ \A a \in (Answers \cup {"invalid", "error"}) \ {"invalid"} : a \in Outcomes
  BY EvalConstants DEF Outcomes

\* Recordings are added, and none is changed.
Grows ==
  \A k \in DOMAIN fixtures : k \in DOMAIN fixtures' /\ fixtures'[k] = fixtures[k]

LEMMA CaseStaysRecorded ==
  ASSUME Grows, NEW c, Recorded(fixtures, c)
  PROVE  Recorded(fixtures', c) /\ ResultOf(fixtures', c) = ResultOf(fixtures, c)
<1> DEFINE k == FirstKey(c)
           l == SecondKey(c, fixtures[k])
<1>1. k \in DOMAIN fixtures /\ k \in DOMAIN fixtures' /\ fixtures'[k] = fixtures[k]
  BY DEF Recorded, Grows
<1>2. SecondKey(c, fixtures'[k]) = l
  BY <1>1 DEF SecondKey
<1>3. fixtures[k].answer = "invalid" =>
        l \in DOMAIN fixtures /\ l \in DOMAIN fixtures' /\ fixtures'[l] = fixtures[l]
  BY DEF Recorded, Grows
<1>4. Recorded(fixtures', c)
  BY <1>1, <1>2, <1>3 DEF Recorded
<1>5. OutcomeOf(fixtures', c) = OutcomeOf(fixtures, c)
  BY <1>1, <1>2, <1>3 DEF OutcomeOf
<1>6. QED
  BY <1>4, <1>5 DEF ResultOf, ScoreOf, Passes

\* What follows from the recordings follows from more of them.
LEMMA ResultsStay ==
  ASSUME Grows, NEW cases, NEW results, Replays(fixtures, cases, results)
  PROVE  Replays(fixtures', cases, results)
<1>1. \A i \in 1 .. Len(results) :
        /\ cases[i].pending # TRUE => Recorded(fixtures', cases[i])
        /\ results[i] = ResultOf(fixtures', cases[i])
  <2> SUFFICES ASSUME NEW i \in 1 .. Len(results)
               PROVE  /\ cases[i].pending # TRUE => Recorded(fixtures', cases[i])
                      /\ results[i] = ResultOf(fixtures', cases[i])
    OBVIOUS
  <2>1. CASE cases[i].pending = TRUE
    <3>1. ResultOf(fixtures', cases[i]) = ResultOf(fixtures, cases[i])
      BY <2>1 DEF ResultOf
    <3>2. QED
      BY <2>1, <3>1 DEF Replays
  <2>2. CASE cases[i].pending # TRUE
    BY <2>2, CaseStaysRecorded DEF Replays
  <2>3. QED
    BY <2>1, <2>2
<1>2. Len(results) <= Len(cases)
  BY DEF Replays
<1>3. QED
  BY <1>1, <1>2, Zenon DEF Replays

\* One more case, scored as its recordings say.
LEMMA OneMoreResult ==
  ASSUME NEW fs, NEW cases \in Seq(CaseFile), NEW results \in Seq(Result),
         Replays(fs, cases, results), Len(results) < Len(cases),
         NEW e \in Result, NEW c, c = cases[Len(results) + 1],
         c.pending # TRUE => Recorded(fs, c), e = ResultOf(fs, c)
  PROVE  Replays(fs, cases, Append(results, e))
<1> DEFINE n == Len(results)
           longer == Append(results, e)
<1>1. /\ n \in Nat /\ Len(longer) = n + 1 /\ longer[n + 1] = e
      /\ \A i \in 1 .. n : longer[i] = results[i]
  OBVIOUS
<1> HIDE DEF longer
<1>2. \A i \in 1 .. n + 1 :
        /\ cases[i].pending # TRUE => Recorded(fs, cases[i])
        /\ longer[i] = ResultOf(fs, cases[i])
  <2> TAKE i \in 1 .. n + 1
  <2>1. CASE i = n + 1
    BY <2>1, <1>1
  <2>2. CASE i # n + 1
    <3>1. i \in 1 .. n
      BY <2>2, <1>1
    <3>2. longer[i] = results[i]
      BY <3>1, <1>1
    <3>3. QED
      BY <3>1, <3>2, Zenon DEF Replays
  <2>3. QED
    BY <2>1, <2>2
<1>3. Len(longer) <= Len(cases)
  BY <1>1
<1>4. Replays(fs, cases, longer)
  BY <1>1, <1>2, <1>3, Zenon DEF Replays
<1>5. QED
  BY <1>4, Zenon DEF longer

\* The case that is being driven.
LEMMA CaseFacts ==
  ASSUME EvalShape, Driving
  PROVE  Case \in CaseFile /\ Len(run.results) + 1 \in 1 .. Len(suite)
<1>1. Len(run.results) \in Nat /\ Len(suite) \in Nat /\ Len(run.results) < Len(suite)
  BY DEF EvalShape, Run, Driving
<1>2. QED
  BY <1>1 DEF EvalShape, Case

-------------------------------------------------------------------------------

\* An answer read from disk either is the rejected call of the case, and goes
\* back as it was recorded, or gives the outcome that its recordings say.
LEMMA AnswerIsTheRecorded ==
  ASSUME EvalShape, PassInv, Driving, Grows,
         NEW c \in CaseFile, c = Case, c.pending # TRUE,
         NEW f \in Fixture, RecordingKey \in DOMAIN fixtures', fixtures'[RecordingKey] = f
  PROVE  \/ /\ Answered(f) = [run EXCEPT !.echo = <<f.id, f.day>>]
            /\ FirstKey(c) \in DOMAIN fixtures' /\ fixtures'[FirstKey(c)] = f
            /\ f.answer = "invalid"
         \/ \E o \in Outcomes :
              /\ Answered(f) = Scored(o) /\ Recorded(fixtures', c)
              /\ o = OutcomeOf(fixtures', c)
<1>1. CASE run.echo = NoCall
  <2>1. RecordingKey = FirstKey(c)
    BY <1>1 DEF RecordingKey, FirstKey
  <2>2. CASE f.answer = "invalid"
    BY <1>1, <2>1, <2>2 DEF Answered
  <2>3. CASE f.answer # "invalid"
    <3>1. PICK o \in Outcomes : o = f.answer
      BY <2>3, AnswerFacts DEF Fixture
    <3>2. Answered(f) = Scored(o)
      BY <1>1, <2>3, <3>1 DEF Answered
    <3>3. Recorded(fixtures', c) /\ o = OutcomeOf(fixtures', c)
      BY <2>1, <2>3, <3>1 DEF Recorded, OutcomeOf
    <3>4. QED
      BY <3>2, <3>3
  <2>4. QED
    BY <2>2, <2>3
<1>2. CASE run.echo # NoCall
  <2>1. /\ FirstKey(c) \in DOMAIN fixtures
        /\ fixtures[FirstKey(c)].answer = "invalid"
        /\ run.echo = <<fixtures[FirstKey(c)].id, fixtures[FirstKey(c)].day>>
    BY <1>2 DEF PassInv, Driving, FirstKey
  <2>2. FirstKey(c) \in DOMAIN fixtures' /\ fixtures'[FirstKey(c)] = fixtures[FirstKey(c)]
    BY <2>1 DEF Grows
  <2>3. RecordingKey = SecondKey(c, fixtures'[FirstKey(c)])
    BY <2>1, <2>2 DEF RecordingKey, SecondKey
  <2>4. Recorded(fixtures', c)
    BY <2>1, <2>2, <2>3 DEF Recorded
  <2>5. CASE f.answer = "invalid"
    <3>1. PICK o \in Outcomes : o = "form_fallback"
      BY DEF Outcomes
    <3>2. Answered(f) = Scored(o)
      BY <1>2, <2>5, <3>1 DEF Answered
    <3>3. o = OutcomeOf(fixtures', c)
      BY <2>1, <2>2, <2>3, <2>5, <3>1 DEF OutcomeOf
    <3>4. QED
      BY <2>4, <3>2, <3>3
  <2>6. CASE f.answer # "invalid"
    <3>1. PICK o \in Outcomes : o = f.answer
      BY <2>6, AnswerFacts DEF Fixture
    <3>2. Answered(f) = Scored(o)
      BY <1>2, <2>6, <3>1 DEF Answered
    <3>3. o = OutcomeOf(fixtures', c)
      BY <2>1, <2>2, <2>3, <2>6, <3>1 DEF OutcomeOf
    <3>4. QED
      BY <2>4, <3>2, <3>3
  <2>7. QED
    BY <2>5, <2>6
<1>3. QED
  BY <1>1, <1>2

-------------------------------------------------------------------------------

\* A pass that has scored one more case.
LEMMA ScoredStep ==
  ASSUME EvalShape, PassInv, ScoreInv, Driving, Grows, UNCHANGED suite,
         NEW c \in CaseFile, c = Case, NEW e \in Result,
         c.pending # TRUE => Recorded(fixtures', c) /\ e.outcome \in Outcomes,
         e = ResultOf(fixtures', c),
         run'.results = Append(run.results, e), run'.echo = NoCall,
         run'.pc = "driving", run'.exit = run.exit
  PROVE  PassInv' /\ ScoreInv'
<1>1. PICK cases \in Seq(CaseFile) : cases = suite
  BY DEF EvalShape
<1>2. PICK results \in Seq(Result) : results = run.results
  BY DEF EvalShape, Run
<1>3. /\ Len(results) < Len(cases) /\ c = cases[Len(results) + 1]
      /\ run.pc = "driving"
  BY <1>1, <1>2 DEF Driving, Case
<1> DEFINE longer == Append(results, e)
           n == Len(results)
<1>4. Replays(fixtures, cases, results)
  BY <1>1, <1>2, <1>3 DEF PassInv, Replays
<1>5. Replays(fixtures', cases, results)
  BY <1>4, ResultsStay
<1>6. Replays(fixtures', cases, longer)
  <2>1. PICK fs : fs = fixtures'
    OBVIOUS
  <2>2. Replays(fs, cases, results)
    BY <1>5, <2>1
  <2>3. /\ c.pending # TRUE => Recorded(fs, c)
        /\ e = ResultOf(fs, c)
    BY <2>1
  <2>4. Replays(fs, cases, longer)
    BY <1>3, <2>2, <2>3, OneMoreResult
  <2>5. QED
    BY <2>1, <2>4
<1>7. /\ longer = run'.results /\ cases = suite'
      /\ n \in Nat /\ Len(longer) = n + 1 /\ longer[n + 1] = e
      /\ \A i \in 1 .. n : longer[i] = results[i]
  BY <1>1, <1>2
<1> HIDE DEF longer
<1>8. PassInv'
  <2>1. Replays(fixtures', suite', run'.results)
    BY <1>6, <1>7 DEF Replays
  <2>2. WellFormed(suite)'
    BY <1>3 DEF PassInv, WellFormed, Coherent
  <2>3. run'.exit = Thrown
    BY <1>3 DEF PassInv
  <2>4. QED
    BY <2>1, <2>2, <2>3 DEF PassInv
<1>9. ScoreInv'
  <2>1. \A i \in 1 .. n : i <= Len(cases) /\
          (cases[i].pending # TRUE =>
             results[i].outcome \in Outcomes /\ results[i] = ScoreOf(cases[i], results[i].outcome))
    BY <1>1, <1>2 DEF ScoreInv
  <2>2. c.pending # TRUE => e.outcome \in Outcomes /\ e = ScoreOf(c, e.outcome)
    BY DEF ResultOf, ScoreOf
  <2>3. \A i \in 1 .. n + 1 : i <= Len(cases) /\
          (cases[i].pending # TRUE =>
             longer[i].outcome \in Outcomes /\ longer[i] = ScoreOf(cases[i], longer[i].outcome))
    <3> TAKE i \in 1 .. n + 1
    <3>1. CASE i = n + 1
      <4>1. longer[i] = e
        BY <3>1, <1>7
      <4>2. cases[i] = c
        BY <3>1, <1>3
      <4>3. i <= Len(cases)
        BY <3>1, <1>3
      <4>4. QED
        BY <4>1, <4>2, <4>3, <2>2
    <3>2. CASE i # n + 1
      <4>1. i \in 1 .. n /\ longer[i] = results[i]
        BY <3>2, <1>7
      <4>2. QED
        BY <4>1, <2>1
    <3>3. QED
      BY <3>1, <3>2
  <2>4. QED
    BY <1>7, <2>3 DEF ScoreInv, ScoreOf, Passes
<1>10. QED
  BY <1>8, <1>9

\* A pass that sends a rejected call back.
LEMMA EchoedStep ==
  ASSUME EvalShape, PassInv, ScoreInv, Driving, Grows, UNCHANGED suite,
         NEW c \in CaseFile, c = Case, c.pending # TRUE, NEW f \in Fixture,
         f.answer = "invalid",
         FirstKey(c) \in DOMAIN fixtures', fixtures'[FirstKey(c)] = f,
         run'.results = run.results, run'.echo = <<f.id, f.day>>,
         run'.pc = "driving", run'.exit = run.exit
  PROVE  PassInv' /\ ScoreInv'
<1>1. PICK cases \in Seq(CaseFile) : cases = suite
  BY DEF EvalShape
<1>2. PICK results \in Seq(Result) : results = run.results
  BY DEF EvalShape, Run
<1>3. /\ Len(results) < Len(cases) /\ c = cases[Len(results) + 1]
      /\ run.pc = "driving"
  BY <1>1, <1>2 DEF Driving, Case
<1>4. Replays(fixtures, cases, results)
  BY <1>1, <1>2, <1>3 DEF PassInv, Replays
<1>5. Replays(fixtures', cases, results)
  BY <1>4, ResultsStay
<1>6. Replays(fixtures', suite', run'.results)
  BY <1>1, <1>2, <1>5 DEF Replays
<1>7. WellFormed(suite)' /\ run'.exit = Thrown
  BY <1>3 DEF PassInv, WellFormed, Coherent
<1>8. /\ Len(run'.results) < Len(suite') /\ c = Case'
  BY <1>1, <1>2, <1>3 DEF Case
<1>9. PassInv'
  BY <1>6, <1>7, <1>8 DEF PassInv, FirstKey
<1>10. ScoreInv'
  BY DEF ScoreInv, ScoreOf, Passes
<1>11. QED
  BY <1>9, <1>10

\* While a pass is on its way there is no verdict, and what was captured before
\* is not lost.
LEMMA CaptureIsKept ==
  ASSUME captured # <<>>, CaptureInv, Grows, UNCHANGED <<suite, captured>>
  PROVE  /\ WellFormed(suite') /\ captured' \in Seq(Result)
         /\ Len(captured') = Len(suite') /\ Replays(fixtures', suite', captured')
<1>1. PICK cases, results : cases = suite /\ results = captured
  OBVIOUS
<1>2. Replays(fixtures, cases, results)
  BY <1>1 DEF CaptureInv, Replays
<1>3. Replays(fixtures', cases, results)
  BY <1>2, ResultsStay
<1>4. Replays(fixtures', suite', captured')
  BY <1>1, <1>3 DEF Replays
<1>5. QED
  BY <1>4 DEF CaptureInv, WellFormed, Coherent

LEMMA StillDriving ==
  ASSUME CaptureInv, Grows, UNCHANGED <<suite, captured>>, run'.pc = "driving"
  PROVE  VerdictInv' /\ CaptureInv'
<1>1. VerdictInv'
  BY DEF VerdictInv, Completed
<1>2. CaptureInv'
  BY CaptureIsKept DEF CaptureInv
<1>3. QED
  BY <1>1, <1>2

-------------------------------------------------------------------------------

LEMMA AliasFacts ==
  /\ 1 \in Days /\ Days \subseteq Nat
  /\ \A d \in Days : Alias[d] # ""
<1>1. PICK Names : Names = STRING \ {""}
  OBVIOUS
<1>2. Alias \in Seq(Names) /\ Len(Alias) > 0
  BY <1>1, EvalConstants
<1>3. Len(Alias) \in Nat /\ Days = 1 .. Len(Alias) /\ \A d \in 1 .. Len(Alias) : Alias[d] \in Names
  BY <1>2 DEF Days
<1>4. 1 \in Days /\ Days \subseteq Nat
  BY <1>2, <1>3
<1>5. \A d \in Days : Alias[d] # ""
  BY <1>1, <1>3
<1>6. QED
  BY <1>4, <1>5

LEMMA RunScored ==
  ASSUME NEW r \in Run, NEW e \in Result
  PROVE  LET s == [r EXCEPT !.echo = NoCall, !.results = Append(@, e)] IN
         /\ s \in Run /\ s.results = Append(r.results, e) /\ s.echo = NoCall
         /\ s.pc = r.pc /\ s.exit = r.exit /\ s.mode = r.mode
<1>1. r.results \in Seq(Result)
  BY DEF Run
<1>2. Append(r.results, e) \in Seq(Result)
  BY <1>1
<1>3. PICK longer \in Seq(Result) : longer = Append(r.results, e)
  BY <1>2
<1>4. QED
  BY <1>3 DEF Run

LEMMA RunEchoed ==
  ASSUME NEW r \in Run, NEW e \in Echoes
  PROVE  LET s == [r EXCEPT !.echo = e] IN
         /\ s \in Run /\ s.results = r.results /\ s.echo = e
         /\ s.pc = r.pc /\ s.exit = r.exit /\ s.mode = r.mode
  BY DEF Run

LEMMA RunFetched ==
  ASSUME NEW r \in Run
  PROVE  LET s == [r EXCEPT !.fetched = TRUE] IN
         /\ s \in Run /\ s.results = r.results /\ s.echo = r.echo
         /\ s.pc = r.pc /\ s.exit = r.exit /\ s.mode = r.mode
  BY DEF Run

Over(r, code) == [r EXCEPT !.pc = "done", !.echo = NoCall, !.exit = code]

LEMMA RunAborted ==
  ASSUME NEW r \in Run, NEW code \in {Thrown, 130}
  PROVE  /\ Over(r, code) \in Run /\ Over(r, code).results = r.results
         /\ Over(r, code).pc = "done" /\ Over(r, code).exit = code
         /\ Over(r, code).mode = r.mode
  BY DEF Run, Thrown, Over

\* What may happen to a pass when an answer is at hand.
LEMMA AnsweredStep ==
  ASSUME EvalShape, PassInv, ScoreInv, CaptureInv, Driving, Grows, UNCHANGED <<suite, captured>>,
         Case.pending # TRUE,
         NEW f \in Fixture, RecordingKey \in DOMAIN fixtures', fixtures'[RecordingKey] = f,
         run' = Answered(f) \/ run' = [Answered(f) EXCEPT !.fetched = TRUE]
  PROVE  run' \in Run /\ PassInv' /\ ScoreInv' /\ VerdictInv' /\ CaptureInv'
<1>1. PICK c \in CaseFile : c = Case
  BY CaseFacts
<1>2. run \in Run /\ run.pc = "driving"
  BY DEF EvalShape, Driving
<1>3. CASE /\ Answered(f) = [run EXCEPT !.echo = <<f.id, f.day>>]
           /\ FirstKey(c) \in DOMAIN fixtures' /\ fixtures'[FirstKey(c)] = f
           /\ f.answer = "invalid"
  <2>1. PICK e \in Echoes : e = <<f.id, f.day>>
    BY DEF Echoes, Fixture
  <2> DEFINE s == [run EXCEPT !.echo = e]
  <2>2. /\ s \in Run /\ s.results = run.results /\ s.echo = e
        /\ s.pc = run.pc /\ s.exit = run.exit
    BY <1>2, RunEchoed
  <2>3. Answered(f) = s
    BY <1>3, <2>1
  <2> HIDE DEF s
  <2>4. /\ run' \in Run /\ run'.results = run.results /\ run'.echo = e
        /\ run'.pc = "driving" /\ run'.exit = run.exit
    BY <1>2, <2>2, <2>3, RunFetched
  <2>5. PassInv' /\ ScoreInv'
    BY <1>1, <1>3, <2>1, <2>4, EchoedStep
  <2>6. QED
    BY <2>4, <2>5, StillDriving
<1>4. ASSUME NEW o \in Outcomes, Answered(f) = Scored(o), Recorded(fixtures', c),
             o = OutcomeOf(fixtures', c)
      PROVE  run' \in Run /\ PassInv' /\ ScoreInv' /\ VerdictInv' /\ CaptureInv'
  <2> DEFINE e == ScoreOf(c, o)
             s == [run EXCEPT !.echo = NoCall, !.results = Append(@, e)]
  <2>1. e \in Result /\ e.outcome \in Outcomes
    BY DEF ScoreOf, Result
  <2>2. e = ResultOf(fixtures', c)
    BY <1>1, <1>4 DEF ResultOf, ScoreOf, Passes
  <2>3. /\ s \in Run /\ s.results = Append(run.results, e) /\ s.echo = NoCall
        /\ s.pc = run.pc /\ s.exit = run.exit
    BY <1>2, <2>1, RunScored
  <2>4. Answered(f) = s
    BY <1>1, <1>4 DEF Scored, ScoreOf, Passes
  <2> HIDE DEF s, e
  <2>5. /\ run' \in Run /\ run'.results = Append(run.results, e) /\ run'.echo = NoCall
        /\ run'.pc = "driving" /\ run'.exit = run.exit
    BY <1>2, <2>3, <2>4, RunFetched
  <2>6. PassInv' /\ ScoreInv'
    BY <1>1, <1>4, <2>1, <2>2, <2>5, ScoredStep
  <2>7. QED
    BY <2>5, <2>6, StillDriving
<1>5. QED
  BY <1>1, <1>3, <1>4, AnswerIsTheRecorded

\* A pass that ends without a verdict.
LEMMA AbortedStep ==
  ASSUME EvalShape, ScoreInv, CaptureInv, UNCHANGED <<suite, captured, fixtures>>,
         NEW code \in {Thrown, 130}, run' = Aborted(code),
         captured # <<>> /\ run.mode = "replay" => code # Thrown
  PROVE  run' \in Run /\ PassInv' /\ ScoreInv' /\ VerdictInv' /\ CaptureInv'
<1>1. /\ run' \in Run /\ run'.results = run.results /\ run'.pc = "done" /\ run'.exit = code
      /\ run'.mode = run.mode
  <2>1. PICK r \in Run : r = run
    BY DEF EvalShape
  <2>2. run' = Over(r, code)
    BY <2>1 DEF Aborted, Over
  <2>3. QED
    BY <2>1, <2>2, RunAborted
<1>2. ~ Completed'
  BY <1>1 DEF Completed, Thrown
<1>3. PassInv' /\ ScoreInv' /\ VerdictInv'
  <2>1. PassInv'
    BY <1>1 DEF PassInv
  <2>2. VerdictInv'
    BY <1>2 DEF VerdictInv
  <2>3. PICK rs, cases : rs = run.results /\ cases = suite
    OBVIOUS
  <2>4. rs = run'.results /\ cases = suite'
    BY <1>1, <2>3
  <2>5. \A i \in 1 .. Len(rs) : i <= Len(cases) /\
          (cases[i].pending # TRUE =>
             rs[i].outcome \in Outcomes /\ rs[i] = ScoreOf(cases[i], rs[i].outcome))
    BY <2>3 DEF ScoreInv
  <2>6. ScoreInv'
    BY <2>4, <2>5 DEF ScoreInv, ScoreOf, Passes
  <2>7. QED
    BY <2>1, <2>2, <2>6
<1>4. CaptureInv'
  <2>1. Grows
    BY DEF Grows
  <2>2. QED
    BY <1>1, <1>2, <2>1, CaptureIsKept DEF CaptureInv
<1>5. QED
  BY <1>1, <1>3, <1>4

-------------------------------------------------------------------------------

LEMMA StartKeeps ==
  ASSUME EvalInv, NEW mode \in {"record", "replay"}, Start(mode)
  PROVE  EvalInv'
<1>1. EvalShape /\ RecordingsInv /\ CaptureInv
  BY DEF EvalInv
<1>2. PICK pc \in {"done", "driving"} : pc = (IF WellFormed(suite) THEN "driving" ELSE "done")
  OBVIOUS
<1>3. run' = [pc |-> pc, mode |-> mode, results |-> <<>>, echo |-> NoCall, fetched |-> FALSE,
              served |-> {}, stamp |-> 0, exit |-> Thrown]
  BY <1>2 DEF Start
<1>4. run' \in Run
  BY <1>3 DEF Run
<1>5. /\ run'.pc = pc /\ run'.mode = mode /\ run'.results = <<>> /\ run'.echo = NoCall
      /\ run'.exit = Thrown /\ Len(run'.results) = 0
  BY <1>3
<1>6. UNCHANGED <<suite, fixtures, meta, day, captured>>
  BY DEF Start
<1>7. EvalShape' /\ RecordingsInv'
  BY <1>1, <1>4, <1>6 DEF EvalShape, RecordingsInv
<1>8. pc = "driving" => WellFormed(suite)'
  BY <1>2, <1>6 DEF WellFormed, Coherent
<1>9. Replays(fixtures', suite', run'.results)
  <2>1. Len(suite') \in Nat
    BY <1>7 DEF EvalShape
  <2>2. QED
    BY <1>5, <2>1 DEF Replays
<1>10. PassInv'
  BY <1>5, <1>8, <1>9 DEF PassInv
<1>11. ScoreInv'
  BY <1>5 DEF ScoreInv
<1>12. VerdictInv'
  BY <1>5 DEF VerdictInv, Completed, Thrown
<1>13. CaptureInv'
  <2>1. Grows
    BY <1>6 DEF Grows
  <2>2. captured # <<>> => pc = "driving"
    BY <1>1, <1>2 DEF CaptureInv
  <2>3. QED
    BY <1>1, <1>5, <1>6, <2>1, <2>2, CaptureIsKept DEF CaptureInv
<1>14. QED
  BY <1>7, <1>10, <1>11, <1>12, <1>13 DEF EvalInv

LEMMA SkipKeeps ==
  ASSUME EvalInv, SkipPending
  PROVE  EvalInv'
<1>1. EvalShape /\ RecordingsInv /\ PassInv /\ ScoreInv /\ CaptureInv /\ Driving
  BY DEF EvalInv, SkipPending
<1>2. PICK c \in CaseFile : c = Case /\ c.pending = TRUE
  <2>1. PICK c \in CaseFile : c = Case
    BY <1>1, CaseFacts
  <2>2. c.pending = TRUE
    BY <2>1 DEF SkipPending, CaseFile
  <2>3. QED
    BY <2>1, <2>2
<1> DEFINE e == [status |-> "pending", outcome |-> "none"]
<1>3. e \in Result
  BY DEF Result
<1>4. run.echo = NoCall /\ run \in Run /\ run.pc = "driving"
  BY <1>1, <1>2 DEF PassInv, Driving, EvalShape
<1>5. run' = [run EXCEPT !.results = Append(@, e)]
  BY DEF SkipPending
<1>6. e = ResultOf(fixtures', c)
  BY <1>2 DEF ResultOf
<1> HIDE DEF e
<1>7. /\ run' \in Run /\ run'.results = Append(run.results, e) /\ run'.echo = NoCall
      /\ run'.pc = "driving" /\ run'.exit = run.exit
  <2>1. run.results \in Seq(Result)
    BY <1>4 DEF Run
  <2>2. Append(run.results, e) \in Seq(Result)
    BY <1>3, <2>1
  <2>3. PICK longer \in Seq(Result) : longer = Append(run.results, e)
    BY <2>2
  <2>4. run' = [run EXCEPT !.results = longer]
    BY <1>5, <2>3
  <2>5. PICK r \in Run : r = run
    BY <1>4
  <2>6. LET s == [r EXCEPT !.results = longer] IN
        /\ s \in Run /\ s.results = longer
        /\ s.echo = r.echo /\ s.pc = r.pc /\ s.exit = r.exit
    BY DEF Run
  <2>7. run' = [r EXCEPT !.results = longer]
    BY <2>4, <2>5
  <2>8. QED
    BY <1>4, <2>3, <2>5, <2>6, <2>7
<1>8. UNCHANGED <<suite, fixtures, meta, day, captured>> /\ Grows
  BY DEF SkipPending, Grows
<1>9. PassInv' /\ ScoreInv'
  BY <1>1, <1>2, <1>3, <1>6, <1>7, <1>8, ScoredStep
<1>10. EvalShape' /\ RecordingsInv'
  BY <1>1, <1>7, <1>8 DEF EvalShape, RecordingsInv
<1>11. QED
  BY <1>1, <1>7, <1>8, <1>9, <1>10, StillDriving DEF EvalInv

LEMMA ServeKeeps ==
  ASSUME EvalInv, Serve
  PROVE  EvalInv'
<1>1. /\ EvalShape /\ RecordingsInv /\ PassInv /\ ScoreInv /\ CaptureInv /\ Driving
      /\ Case.pending # TRUE
  BY DEF EvalInv, Serve
<1>2. UNCHANGED <<suite, fixtures, meta, day, captured>> /\ Grows
  BY DEF Serve, Grows
<1>3. PICK f \in Fixture : f = fixtures[RecordingKey]
  BY <1>1 DEF Serve, EvalShape
<1>4. RecordingKey \in DOMAIN fixtures' /\ fixtures'[RecordingKey] = f
  BY <1>2, <1>3 DEF Serve
<1>5. run' = Answered(f)
  BY <1>3 DEF Serve
<1>6. run' \in Run /\ PassInv' /\ ScoreInv' /\ VerdictInv' /\ CaptureInv'
  BY <1>1, <1>2, <1>4, <1>5, AnsweredStep
<1>7. EvalShape' /\ RecordingsInv'
  BY <1>1, <1>2, <1>6 DEF EvalShape, RecordingsInv
<1>8. QED
  BY <1>6, <1>7 DEF EvalInv

LEMMA MissKeeps ==
  ASSUME EvalInv, Miss
  PROVE  EvalInv'
<1>1. /\ EvalShape /\ RecordingsInv /\ PassInv /\ ScoreInv /\ CaptureInv /\ Driving
      /\ Case.pending # TRUE /\ run.mode = "replay"
  BY DEF EvalInv, Miss
<1>2. UNCHANGED <<suite, fixtures, meta, day, captured>>
  BY DEF Miss
<1>3. captured = <<>>
  <2> SUFFICES ASSUME captured # <<>> PROVE FALSE
    OBVIOUS
  <2>1. PICK i \in 1 .. Len(suite) : i = Len(run.results) + 1 /\ Case = suite[i]
    BY <1>1, CaseFacts DEF Case
  <2>2. PICK c \in CaseFile : c = Case
    BY <1>1, CaseFacts
  <2>3. Recorded(fixtures, c)
    <3>1. suite[i].pending # TRUE => Recorded(fixtures, suite[i])
      BY <1>1 DEF CaptureInv, Replays
    <3>2. suite[i] = c
      BY <2>1, <2>2
    <3>3. QED
      BY <1>1, <2>1, <3>1, <3>2 DEF Recorded, FirstKey, SecondKey
  <2>4. CASE run.echo = NoCall
    BY <2>2, <2>3, <2>4 DEF Miss, Recorded, RecordingKey, FirstKey
  <2>5. CASE run.echo # NoCall
    <3>1. /\ fixtures[FirstKey(c)].answer = "invalid"
          /\ run.echo = <<fixtures[FirstKey(c)].id, fixtures[FirstKey(c)].day>>
      BY <1>1, <2>2, <2>5 DEF PassInv, Driving, FirstKey
    <3>2. RecordingKey = SecondKey(c, fixtures[FirstKey(c)])
      BY <2>2, <3>1 DEF RecordingKey, SecondKey
    <3>3. QED
      BY <2>3, <3>1, <3>2 DEF Miss, Recorded
  <2>6. QED
    BY <2>4, <2>5
<1>4. PICK code \in {Thrown, 130} : code = Thrown
  OBVIOUS
<1>5. run' = Aborted(code)
  BY <1>4 DEF Miss
<1>6. run' \in Run /\ PassInv' /\ ScoreInv' /\ VerdictInv' /\ CaptureInv'
  BY <1>1, <1>2, <1>3, <1>5, AbortedStep
<1>7. EvalShape' /\ RecordingsInv'
  BY <1>1, <1>2, <1>6 DEF EvalShape, RecordingsInv
<1>8. QED
  BY <1>6, <1>7 DEF EvalInv

LEMMA InterruptKeeps ==
  ASSUME EvalInv, Interrupt
  PROVE  EvalInv'
<1>1. EvalShape /\ RecordingsInv /\ PassInv /\ ScoreInv /\ CaptureInv
  BY DEF EvalInv
<1>2. UNCHANGED <<suite, fixtures, meta, day, captured>>
  BY DEF Interrupt
<1>3. PICK code \in {Thrown, 130} : code = 130
  OBVIOUS
<1>4. run' = Aborted(code) /\ code # Thrown
  BY <1>3 DEF Interrupt, Thrown
<1>5. run' \in Run /\ PassInv' /\ ScoreInv' /\ VerdictInv' /\ CaptureInv'
  BY <1>1, <1>2, <1>4, AbortedStep
<1>6. EvalShape' /\ RecordingsInv'
  BY <1>1, <1>2, <1>5 DEF EvalShape, RecordingsInv
<1>7. QED
  BY <1>5, <1>6 DEF EvalInv

\* A recording is written under a key that had none.
LEMMA WriteAdds ==
  ASSUME EvalShape, RecordingsInv, RecordingKey \notin DOMAIN fixtures,
         NEW f \in Fixture, f.answer # "error" => f.model = Alias[f.day],
         Write(f)
  PROVE  /\ Grows /\ RecordingsInv'
         /\ \A k \in DOMAIN fixtures' : fixtures'[k] \in Fixture
         /\ RecordingKey \in DOMAIN fixtures' /\ fixtures'[RecordingKey] = f
<1>1. /\ RecordingKey \in DOMAIN fixtures' /\ fixtures'[RecordingKey] = f
      /\ DOMAIN fixtures' = DOMAIN fixtures \cup {RecordingKey}
  BY DEF Write
<1>2. Grows
  BY DEF Write, Grows
<1>3. \A k \in DOMAIN fixtures' : fixtures'[k] = f \/ k \in DOMAIN fixtures
  BY <1>1
<1>4. \A k \in DOMAIN fixtures' : fixtures'[k] \in Fixture
  BY <1>2, <1>3 DEF EvalShape, Grows
<1>5. RecordingsInv'
  BY <1>2, <1>3 DEF RecordingsInv, Grows
<1>6. QED
  BY <1>1, <1>2, <1>4, <1>5

LEMMA FetchKeeps ==
  ASSUME EvalInv, Fetch
  PROVE  EvalInv'
<1>1. /\ EvalShape /\ RecordingsInv /\ PassInv /\ ScoreInv /\ CaptureInv /\ Driving
      /\ Case.pending # TRUE /\ run.mode = "record" /\ RecordingKey \notin DOMAIN fixtures
  BY DEF EvalInv, Fetch
<1>2. UNCHANGED <<suite, meta, day, captured>>
  BY DEF Fetch
<1>3. ASSUME NEW f \in Fixture, f.answer # "error" => f.model = Alias[f.day], Write(f),
             run' = Answered(f) \/ run' = [Answered(f) EXCEPT !.fetched = TRUE]
      PROVE  EvalInv'
  <2>1. /\ Grows /\ RecordingsInv'
        /\ \A k \in DOMAIN fixtures' : fixtures'[k] \in Fixture
        /\ RecordingKey \in DOMAIN fixtures' /\ fixtures'[RecordingKey] = f
    BY <1>1, <1>3, WriteAdds
  <2>2. run' \in Run /\ PassInv' /\ ScoreInv' /\ VerdictInv' /\ CaptureInv'
    BY <1>1, <1>2, <1>3, <2>1, AnsweredStep
  <2>3. EvalShape'
    BY <1>1, <1>2, <2>1, <2>2 DEF EvalShape
  <2>4. QED
    BY <2>1, <2>2, <2>3 DEF EvalInv
<1>4. day \in Days /\ Alias[day] \in Models
  BY <1>1 DEF EvalShape, Models
<1>5. ASSUME NEW answer \in Answers \cup {"invalid"}, Write(Sanitized(answer)),
             run' = [Answered(Returned(Sanitized(answer))) EXCEPT !.fetched = TRUE]
      PROVE  EvalInv'
  <2>1. PICK f \in Fixture : f = Sanitized(answer)
    BY <1>4 DEF Sanitized, Fixture, Ids
  <2>2. f.model = Alias[f.day]
    BY <2>1 DEF Sanitized
  <2>3. Write(f) /\ run' = [Answered(f) EXCEPT !.fetched = TRUE]
    BY <1>5, <2>1 DEF Write, Answered, Returned
  <2>4. QED
    BY <1>3, <2>2, <2>3
<1>6. CASE Write(ErrorRecording) /\ run' = Answered(ErrorRecording)
  <2>1. PICK f \in Fixture : f = ErrorRecording
    <3>1. ErrorRecording \in Fixture
      BY <1>4 DEF ErrorRecording, Fixture, Ids, Models
    <3>2. QED
      BY <3>1
  <2>2. f.answer = "error"
    BY <2>1 DEF ErrorRecording
  <2>3. Write(f) /\ run' = Answered(f)
    BY <1>6, <2>1 DEF Write, Answered
  <2>4. QED
    BY <1>3, <2>2, <2>3
<1>7. CASE run' = Aborted(Thrown) /\ UNCHANGED fixtures
  <2>1. PICK code \in {Thrown, 130} : code = Thrown
    OBVIOUS
  <2>2. run' = Aborted(code)
    BY <1>7, <2>1
  <2>3. run' \in Run /\ PassInv' /\ ScoreInv' /\ VerdictInv' /\ CaptureInv'
    BY <1>1, <1>2, <1>7, <2>2, AbortedStep
  <2>4. EvalShape' /\ RecordingsInv'
    BY <1>1, <1>2, <1>7, <2>3 DEF EvalShape, RecordingsInv
  <2>5. QED
    BY <2>3, <2>4 DEF EvalInv
<1>8. QED
  BY <1>5, <1>6, <1>7 DEF Fetch

LEMMA RemoveKeeps ==
  ASSUME EvalInv, NEW k \in DOMAIN fixtures, Remove(k)
  PROVE  EvalInv'
<1>1. /\ EvalShape /\ RecordingsInv /\ ScoreInv /\ VerdictInv
      /\ run.pc = "done" /\ captured' = <<>> /\ UNCHANGED <<suite, meta, day, run>>
  BY DEF EvalInv, Remove
<1>2. \A l \in DOMAIN fixtures' : l \in DOMAIN fixtures /\ fixtures'[l] = fixtures[l]
  BY DEF Remove
<1>3. EvalShape' /\ RecordingsInv'
  BY <1>1, <1>2 DEF EvalShape, RecordingsInv
<1>4. PassInv' /\ CaptureInv'
  BY <1>1 DEF PassInv, CaptureInv
<1>5. ScoreInv'
  BY <1>1 DEF ScoreInv, ScoreOf, Passes
<1>6. VerdictInv'
  BY <1>1, <1>2
  DEF VerdictInv, Completed, WellFormed, Coherent, BelowFloor, Passed, Driven
<1>7. QED
  BY <1>3, <1>4, <1>5, <1>6 DEF EvalInv

\* Steps that leave alone all that the invariant is about, but for the date.
LEMMA NextDayKeeps ==
  ASSUME EvalInv, day' \in Days, UNCHANGED <<suite, fixtures, meta, run, captured>>
  PROVE  EvalInv'
<1>1. EvalShape' /\ RecordingsInv'
  BY DEF EvalInv, EvalShape, RecordingsInv
<1>2. Grows
  BY DEF Grows
<1>3. PassInv'
  <2>1. run.pc = "driving" => Replays(fixtures', suite', run'.results)
    BY DEF EvalInv, PassInv, Replays
  <2>2. QED
    BY <2>1 DEF EvalInv, PassInv, WellFormed, Coherent, Case, FirstKey
<1>4. ScoreInv'
  BY DEF EvalInv, ScoreInv, ScoreOf, Passes
<1>5. VerdictInv'
  BY DEF EvalInv, VerdictInv, Completed, WellFormed, Coherent, BelowFloor, Passed, Driven
<1>6. CaptureInv'
  BY <1>2, CaptureIsKept DEF EvalInv, CaptureInv, Completed
<1>7. QED
  BY <1>1, <1>3, <1>4, <1>5, <1>6 DEF EvalInv

\* Two lists of results that follow from the same recordings are the same.
LEMMA ResultsAreDetermined ==
  ASSUME NEW fs, NEW cases, NEW r \in Seq(Result), NEW s \in Seq(Result),
         Replays(fs, cases, r), Replays(fs, cases, s), Len(r) = Len(s)
  PROVE  r = s
<1>1. \A i \in 1 .. Len(r) : r[i] = s[i]
  BY DEF Replays
<1>2. QED
  BY <1>1, SeqEqual

LEMMA FinishKeeps ==
  ASSUME EvalInv, Finish
  PROVE  EvalInv'
<1>1. /\ EvalShape /\ RecordingsInv /\ PassInv /\ ScoreInv /\ CaptureInv
      /\ run.pc = "driving" /\ Len(run.results) = Len(suite)
      /\ UNCHANGED <<suite, fixtures, day>>
  BY DEF EvalInv, Finish
<1>2. WellFormed(suite) /\ Replays(fixtures, suite, run.results)
  BY <1>1 DEF PassInv
<1>3. PICK stamp \in Nat, exit \in {0, 1} :
        /\ exit = 0 /\ run.mode = "replay" => \A t \in Tiers : ~ BelowFloor(t, run.results)
        /\ meta' = stamp
        /\ run' = [run EXCEPT !.pc = "done", !.served = ServedModels, !.stamp = stamp,
                              !.exit = exit]
  <2> DEFINE stamp == IF run.mode = "record" /\ run.fetched THEN day ELSE meta
             exit == IF run.mode = "replay" /\ \E t \in Tiers : BelowFloor(t, run.results)
                     THEN 1 ELSE 0
  <2>1. stamp \in Nat /\ exit \in {0, 1}
    BY <1>1, AliasFacts DEF EvalShape
  <2>2. exit = 0 /\ run.mode = "replay" => \A t \in Tiers : ~ BelowFloor(t, run.results)
    OBVIOUS
  <2>3. /\ meta' = stamp
        /\ run' = [run EXCEPT !.pc = "done", !.served = ServedModels, !.stamp = stamp,
                              !.exit = exit]
    BY DEF Finish
  <2> HIDE DEF stamp, exit
  <2>4. QED
    BY <2>1, <2>2, <2>3
<1>4. PICK served \in SUBSET Models : served = ServedModels
  <2>1. \A k \in DOMAIN fixtures : fixtures[k].model \in Models
    BY <1>1 DEF EvalShape, Fixture
  <2>2. ServedModels \subseteq Models
    BY <2>1 DEF ServedModels
  <2>3. QED
    BY <2>2
<1>5. /\ run' \in Run /\ run'.pc = "done" /\ run'.served = served /\ run'.exit = exit
      /\ run'.results = run.results /\ run'.mode = run.mode
  BY <1>1, <1>3, <1>4 DEF EvalShape, Run, Thrown
<1>6. EvalShape' /\ RecordingsInv'
  BY <1>1, <1>3, <1>5 DEF EvalShape, RecordingsInv
<1>7. PassInv'
  BY <1>5 DEF PassInv
<1>8. ScoreInv'
  BY <1>1, <1>5 DEF ScoreInv, ScoreOf, Passes
<1>9. VerdictInv'
  <2>1. WellFormed(suite)' /\ Len(run'.results) = Len(suite')
    BY <1>1, <1>2, <1>5 DEF WellFormed, Coherent
  <2>2. \A k \in DOMAIN fixtures' :
          fixtures'[k].answer # "error" => fixtures'[k].model \in run'.served
    <3> SUFFICES ASSUME NEW k \in DOMAIN fixtures, fixtures[k].answer # "error"
                 PROVE  fixtures[k].model \in served
      BY <1>1, <1>5
    <3>1. fixtures[k] \in Fixture /\ fixtures[k].model = Alias[fixtures[k].day]
      BY <1>1 DEF EvalShape, RecordingsInv
    <3>2. fixtures[k].model # ""
      BY <3>1, AliasFacts DEF Fixture
    <3>3. QED
      BY <1>4, <3>2 DEF ServedModels
  <2>3. run'.mode = "replay" /\ run'.exit = 0 => \A t \in Tiers : ~ BelowFloor(t, run.results)
    BY <1>3, <1>5
  <2>4. \A t \in Tiers : BelowFloor(t, run.results)' => BelowFloor(t, run.results)
    <3> TAKE t \in Tiers
    <3>1. Driven(t)' = Driven(t)
      BY <1>1 DEF Driven
    <3>2. Passed(t, run.results)' = Passed(t, run.results)
      BY <1>5, <3>1 DEF Passed
    <3>3. QED
      BY <3>1, <3>2 DEF BelowFloor
  <2>5. run'.mode = "replay" /\ run'.exit = 0 => \A t \in Tiers : ~ BelowFloor(t, run.results)'
    BY <2>3, <2>4
  <2>6. QED
    BY <2>1, <2>2, <2>5 DEF VerdictInv
<1>10. CaptureInv'
  <2>1. WellFormed(suite') /\ Len(suite') = Len(suite)
    BY <1>1, <1>2 DEF WellFormed, Coherent
  <2>2. CASE run.mode = "record"
    <3>1. captured' = run.results /\ run'.mode # "replay"
      BY <1>5, <2>2 DEF Finish
    <3>2. captured' \in Seq(Result)
      BY <1>1, <3>1 DEF EvalShape, Run
    <3>3. Replays(fixtures', suite', captured')
      BY <1>1, <1>2, <3>1 DEF Replays
    <3>4. QED
      BY <1>1, <2>1, <3>1, <3>2, <3>3 DEF CaptureInv
  <2>3. CASE run.mode # "record"
    <3>1. captured' = captured
      BY <2>3 DEF Finish
    <3> SUFFICES ASSUME captured # <<>> PROVE CaptureInv'
      BY <3>1 DEF CaptureInv
    <3>2. /\ captured \in Seq(Result) /\ Len(captured) = Len(suite)
          /\ Replays(fixtures, suite, captured)
      BY <1>1 DEF CaptureInv
    <3>3. Replays(fixtures', suite', captured')
      BY <1>1, <3>1, <3>2 DEF Replays
    <3>4. run.results = captured
      <4>1. PICK r \in Seq(Result) : r = run.results
        BY <1>1 DEF EvalShape, Run
      <4>2. PICK s \in Seq(Result) : s = captured
        BY <3>2
      <4>3. PICK fs, cases : fs = fixtures /\ cases = suite
        OBVIOUS
      <4>4. Replays(fs, cases, r) /\ Replays(fs, cases, s)
        BY <1>2, <3>2, <4>1, <4>2, <4>3 DEF Replays
      <4>5. r = s
        BY <1>1, <3>2, <4>1, <4>2, <4>4, ResultsAreDetermined
      <4>6. QED
        BY <4>1, <4>2, <4>5
    <3>5. run'.exit # Thrown
      BY <1>5 DEF Thrown
    <3>6. QED
      BY <1>5, <2>1, <3>1, <3>2, <3>3, <3>4, <3>5 DEF CaptureInv
  <2>4. QED
    BY <2>2, <2>3
<1>11. QED
  BY <1>6, <1>7, <1>8, <1>9, <1>10 DEF EvalInv

-------------------------------------------------------------------------------

LEMMA EvalInvInit == Init => EvalInv
<1> SUFFICES ASSUME Init PROVE EvalInv
  OBVIOUS
<1>1. DOMAIN fixtures = {}
  BY DEF Init
<1>2. /\ run = [pc |-> "done", mode |-> "none", results |-> <<>>, echo |-> NoCall,
                fetched |-> FALSE, served |-> {}, stamp |-> 0, exit |-> Thrown]
      /\ captured = <<>>
  BY DEF Init
<1>3. run \in Run
  BY <1>2 DEF Run
<1>4. run.pc = "done" /\ run.exit = Thrown /\ Len(run.results) = 0
  BY <1>2
<1>5. suite \in Suites /\ suite \in Seq(CaseFile)
  BY EvalConstants DEF Init
<1>6. EvalShape /\ RecordingsInv
  BY <1>1, <1>3, <1>5, AliasFacts DEF Init, EvalShape, RecordingsInv
<1>7. PassInv /\ ScoreInv /\ VerdictInv /\ CaptureInv
  BY <1>2, <1>4 DEF PassInv, ScoreInv, VerdictInv, Completed, Thrown, CaptureInv
<1>8. QED
  BY <1>6, <1>7 DEF EvalInv

LEMMA EvalInvStep == EvalInv /\ [Next]_vars => EvalInv'
<1> SUFFICES ASSUME EvalInv, [Next]_vars PROVE EvalInv'
  OBVIOUS
<1>1. ASSUME NEW mode \in {"record", "replay"}, Start(mode) PROVE EvalInv'
  BY <1>1, StartKeeps
<1>2. CASE SkipPending \/ Serve
  BY <1>2, SkipKeeps, ServeKeeps
<1>3. CASE Miss \/ Fetch
  BY <1>3, MissKeeps, FetchKeeps
<1>4. CASE Finish \/ Interrupt
  BY <1>4, FinishKeeps, InterruptKeeps
<1>5. CASE NextDay
  BY <1>5, NextDayKeeps DEF NextDay
<1>6. ASSUME NEW k \in DOMAIN fixtures, Remove(k) PROVE EvalInv'
  BY <1>6, RemoveKeeps
<1>7. CASE UNCHANGED vars
  <2>1. day \in Days
    BY DEF EvalInv, EvalShape
  <2>2. QED
    BY <1>7, <2>1, NextDayKeeps DEF vars
<1>8. QED
  BY <1>1, <1>2, <1>3, <1>4, <1>5, <1>6, <1>7 DEF Next

LEMMA EvalInvariant == Spec => []EvalInv
  BY EvalInvInit, EvalInvStep, PTL DEF Spec

\* A replay of a complete capture never misses a recording and comes to the
\* results of the capture, over however many days, passes and interruptions it
\* was made: a key is computed from the case and from what is on disk only.
THEOREM ReplaysTheCapture == Spec => []ReplayReproducesCapture
<1>1. EvalInv => ReplayReproducesCapture
  BY DEF EvalInv, CaptureInv, ReplayReproducesCapture
<1>2. QED
  BY <1>1, EvalInvariant, PTL

\* Whatever model an answer on disk came from, the scorecard of a pass that
\* came to its end names it.
THEOREM EveryModelIsNamed == Spec => []ModelsAreNamed
<1>1. EvalInv => ModelsAreNamed
  BY DEF EvalInv, RecordingsInv, VerdictInv, ModelsAreNamed
<1>2. QED
  BY <1>1, EvalInvariant, PTL

-------------------------------------------------------------------------------

\* A rate that is printed with four decimals is below a floor exactly when the
\* fraction is: one case of less than two hundred weighs more than the rounding.
LEMMA RateIsExact ==
  ASSUME NEW total \in 1 .. 199, NEW passed \in 0 .. total, NEW floor \in Nat
  PROVE  Rate(passed, total) < 100 * floor <=> 100 * passed < floor * total
<1> DEFINE n == 20000 * passed + total
           d == 2 * total
<1>1. n \in Nat /\ d \in Nat /\ d > 0
  OBVIOUS
<1>2. Rate(passed, total) = n \div d
  BY DEF Rate
<1>3. n \div d < 100 * floor <=> n < (100 * floor) * d
  OBVIOUS
<1>4. PICK product \in Nat : product = floor * total
  OBVIOUS
<1>5. (100 * floor) * d = 200 * product
  BY <1>4
<1>6. n < 200 * product <=> 100 * passed < product
  OBVIOUS
<1>7. QED
  BY <1>2, <1>3, <1>4, <1>5, <1>6

\* What the gate says of a case it counts.
Right(i) ==
  LET outcome == run.results[i].outcome IN
  IF suite[i].tier = "safety" THEN outcome \in Answers \cup {"form_fallback"}
                              ELSE outcome = suite[i].expect

\* A case that was passed came out as it says.
LEMMA PassedIsRight ==
  ASSUME EvalInv, WellFormed(suite), Len(run.results) = Len(suite),
         NEW tier \in Tiers, NEW i \in Driven(tier)
  PROVE  /\ run.results[i].outcome \in Answers \cup {"form_fallback", "error"}
         /\ run.results[i].status = "pass" => Right(i)
<1>1. suite \in Seq(CaseFile) /\ ScoreInv
  BY DEF EvalInv, EvalShape
<1>2. i \in 1 .. Len(suite) /\ i \in DOMAIN suite
  BY <1>1 DEF Driven
<1>3. PICK c \in CaseFile : c = suite[i] /\ c.pending = FALSE
  <2>1. PICK c \in CaseFile : c = suite[i]
    BY <1>1, <1>2
  <2>2. c.pending = FALSE
    BY <2>1 DEF Driven, CaseFile
  <2>3. QED
    BY <2>1, <2>2
<1>4. PICK o \in Outcomes : o = run.results[i].outcome /\ run.results[i] = ScoreOf(c, o)
  BY <1>1, <1>2, <1>3 DEF ScoreInv
<1>5. Coherent(c)
  BY <1>2, <1>3 DEF WellFormed
<1>6. ASSUME run.results[i].status = "pass" PROVE Right(i)
  <2>1. Passes(c, o)
    BY <1>4, <1>6 DEF ScoreOf
  <2>2. CASE c.tier = "safety"
    <3>1. o \in Answers \cup {"form_fallback"}
      BY <2>1 DEF Passes, Outcomes
    <3>2. QED
      BY <1>3, <1>4, <2>2, <3>1 DEF Right
  <2>3. CASE c.tier # "safety"
    <3>1. c.expect \in Answers
      BY <1>3, <1>5, <2>3 DEF Coherent
    <3>2. c.expect # "no_action"
      BY <3>1, AnswerFacts
    <3>3. o = c.expect
      BY <2>1, <3>2 DEF Passes
    <3>4. QED
      BY <1>3, <1>4, <2>3, <3>3 DEF Right
  <2>4. QED
    BY <2>2, <2>3
<1>7. QED
  BY <1>4, <1>6 DEF Outcomes

\* Not below its floor, a tier has cases, and enough of them came out right.
LEMMA FloorIsMet ==
  ASSUME EvalInv, WellFormed(suite), Len(run.results) = Len(suite), Len(suite) < 200,
         NEW tier \in Tiers, Gating[tier] > 0, ~ BelowFloor(tier, run.results)
  PROVE  /\ Driven(tier) # {}
         /\ 100 * Cardinality({i \in Driven(tier) : Right(i)})
              >= Gating[tier] * Cardinality(Driven(tier))
<1> DEFINE right == {i \in Driven(tier) : Right(i)}
<1>1. PICK floor \in Nat : floor = Gating[tier] /\ floor > 0
  BY EvalConstants
<1>2. PICK n \in 0 .. 199 : n = Len(suite) /\ Driven(tier) \subseteq 1 .. n
  <2>1. suite \in Seq(CaseFile)
    BY DEF EvalInv, EvalShape
  <2>2. Len(suite) \in Nat /\ DOMAIN suite = 1 .. Len(suite)
    BY <2>1
  <2>3. Len(suite) \in Nat /\ Len(suite) < 200
    BY <2>2
  <2>4. PICK n \in Nat : n = Len(suite) /\ n < 200
    BY <2>3
  <2>5. n \in 0 .. 199
    <3>1. n \in Nat /\ n < 200
      BY <2>4
    <3>2. \A k \in Nat : k < 200 => k \in 0 .. 199
      OBVIOUS
    <3>3. QED
      BY <3>1, <3>2
  <2>6. Driven(tier) \subseteq DOMAIN suite
    BY DEF Driven
  <2>7. Driven(tier) \subseteq 1 .. n
    BY <2>2, <2>4, <2>6
  <2>8. QED
    BY <2>4, <2>5, <2>7
<1>3. PICK D : D = Driven(tier)
  OBVIOUS
<1>4. PICK P : P = Passed(tier, run.results)
  OBVIOUS
<1>5. PICK R : R = right
  OBVIOUS
<1>6. P \subseteq R /\ R \subseteq D
  BY <1>3, <1>4, <1>5, PassedIsRight DEF Passed
<1>7. /\ IsFiniteSet(D) /\ IsFiniteSet(R) /\ IsFiniteSet(P)
      /\ Cardinality(P) <= Cardinality(R) /\ Cardinality(R) <= Cardinality(D)
      /\ Cardinality(D) <= n
  <2>1. IsFiniteSet(1 .. n) /\ Cardinality(1 .. n) = n
    <3>1. 1 \in Int /\ n \in Int /\ n \in Nat
      BY <1>2
    <3>2. IsFiniteSet(1 .. n) /\ Cardinality(1 .. n) = IF 1 > n THEN 0 ELSE n - 1 + 1
      BY <3>1, FS_Interval
    <3>3. (IF 1 > n THEN 0 ELSE n - 1 + 1) = n
      BY <3>1
    <3>4. QED
      BY <3>2, <3>3
  <2>2. IsFiniteSet(D) /\ Cardinality(D) <= n
    BY <1>2, <1>3, <2>1, FS_Subset
  <2>3. IsFiniteSet(R) /\ Cardinality(R) <= Cardinality(D)
    BY <1>6, <2>2, FS_Subset
  <2>4. IsFiniteSet(P) /\ Cardinality(P) <= Cardinality(R)
    BY <1>6, <2>3, FS_Subset
  <2>5. QED
    BY <2>2, <2>3, <2>4
<1>8. PICK d \in 0 .. 199, p \in Nat, r \in Nat :
        /\ d = Cardinality(D) /\ p = Cardinality(P) /\ r = Cardinality(R)
        /\ p <= r /\ p <= d
  <2>1. Cardinality(D) \in Nat /\ Cardinality(P) \in Nat /\ Cardinality(R) \in Nat
    BY <1>7, FS_CardinalityType
  <2>2. PICK d \in Nat, p \in Nat, r \in Nat :
           d = Cardinality(D) /\ p = Cardinality(P) /\ r = Cardinality(R)
    BY <2>1
  <2>3. p <= r /\ r <= d /\ d <= n
    BY <1>7, <2>2
  <2>4. n \in 0 .. 199
    BY <1>2
  <2>5. d \in 0 .. 199 /\ p <= d
    <3> HIDE <2>2
    <3>1. d \in Nat /\ p \in Nat /\ r \in Nat
      BY <2>2
    <3>2. QED
      BY <2>3, <2>4, <3>1
  <2>6. QED
    BY <2>2, <2>3, <2>5
<1>9. ~ (Rate(p, d) < 100 * floor)
  BY <1>1, <1>3, <1>4, <1>8 DEF BelowFloor
<1>10. d # 0
  BY <1>1, <1>9 DEF Rate
<1>11. ~ (100 * p < floor * d)
  <2>1. d \in 1 .. 199 /\ p \in 0 .. d
    BY <1>8, <1>10
  <2>2. QED
    BY <1>9, <2>1, RateIsExact
<1>12. 100 * r >= floor * d
  <2>1. PICK product \in Nat : product = floor * d
    OBVIOUS
  <2>2. QED
    BY <1>8, <1>11, <2>1
<1>13. D # {}
  BY <1>8, <1>10, FS_EmptySet
<1>14. QED
  BY <1>1, <1>3, <1>5, <1>8, <1>12, <1>13

\* A merge that the gate lets through was measured: every case that is driven
\* came to an outcome in that very pass, and every tier that gates has enough
\* of them right, by the exact fraction, for suites of less than 200 cases.
THEOREM GreenMeansMeasured ==
  ASSUME \A cases \in Suites : Len(cases) < 200
  PROVE  Spec => []GateIsHonest
<1>1. FloorsAreExact
  <2> SUFFICES ASSUME NEW tier \in Tiers, NEW total \in 1 .. 40, NEW passed \in 0 .. total
               PROVE  Rate(passed, total) < 100 * Gating[tier] <=> 100 * passed < Gating[tier] * total
    BY DEF FloorsAreExact
  <2>1. PICK floor \in Nat : floor = Gating[tier]
    BY EvalConstants
  <2>2. total \in 1 .. 199
    OBVIOUS
  <2>3. QED
    BY <2>1, <2>2, RateIsExact
<1>2. EvalInv => GateIsHonest
  <2> SUFFICES ASSUME EvalInv, run.pc = "done", run.mode = "replay", run.exit = 0
               PROVE  /\ WellFormed(suite)
                      /\ \A tier \in Tiers : \A i \in Driven(tier) :
                           run.results[i].outcome \in Answers \cup {"form_fallback", "error"}
                      /\ \A tier \in {t \in Tiers : Gating[t] > 0} :
                           /\ Driven(tier) # {}
                           /\ 100 * Cardinality({i \in Driven(tier) : Right(i)})
                                >= Gating[tier] * Cardinality(Driven(tier))
    BY <1>1 DEF GateIsHonest, Right
  <2>1. /\ WellFormed(suite) /\ Len(run.results) = Len(suite)
        /\ \A t \in Tiers : ~ BelowFloor(t, run.results)
    BY DEF EvalInv, VerdictInv, Completed
  <2>2. Len(suite) < 200
    BY DEF EvalInv, EvalShape
  <2>3. QED
    BY <2>1, <2>2, PassedIsRight, FloorIsMet
<1>3. QED
  BY <1>2, EvalInvariant, PTL

===============================================================================
