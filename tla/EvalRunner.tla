------------------------------- MODULE EvalRunner -------------------------------
(***************************************************************************)
(* The evaluation of the agent over recorded answers.  A pass drives the   *)
(* loop with every case of the suite, scores what comes out, and writes a  *)
(* scorecard.  In record mode an answer that is not on disk yet is fetched *)
(* from the provider and written down; in replay mode, which gates merges, *)
(* nothing is fetched and a missing answer ends the pass.                  *)
(*                                                                         *)
(* A capture takes several passes and several days: the provider limits    *)
(* the rate, and the operator interrupts, and removes recordings to have   *)
(* them made anew.  An answer is abstracted to the tool it calls, "text",  *)
(* or "invalid" for a call that the loop has corrected once; its id stands *)
(* for all of the call that goes back then.  The day of a recording and    *)
(* the variable captured are history: no code reads them.                  *)
(***************************************************************************)
EXTENDS Integers, Sequences, FiniteSets

CONSTANTS Suites,    \* the case sets that may be under the cases directory
          Answers,   \* what a provider may answer, but for "invalid"
          Alias,     \* Alias[d]: the model that serves the configured name on day d
          Gating,    \* Gating[tier]: its floor in percent, 0 for a tier that does not gate
          MaxRemovals   \* bound on the recordings that are made anew

Days == DOMAIN Alias

Tiers == {"extraction", "tools", "safety"}

\* A case as the schema lets it through, coherent or not.
CaseFile == [id : STRING, tier : Tiers, input : STRING, expect : STRING, pending : BOOLEAN]

\* No tool is named like what else may become of a turn.
ASSUME EvalConstants ==
  /\ Suites \subseteq Seq(CaseFile)
  /\ Answers \cap {"invalid", "error", "form_fallback", "no_action"} = {}
  /\ Alias \in Seq(STRING \ {""}) /\ Len(Alias) > 0
  /\ Gating \in [Tiers -> Nat]
  /\ MaxRemovals \in Nat

VARIABLES suite,      \* the cases, in the order of their files
          fixtures,   \* fixtures[k]: the recording of key k on disk
          meta,       \* the day of the capture metadata, 0 for no file
          day,        \* the date
          run,        \* the pass that runs, or ran last
          captured,   \* the results of the last complete capture of what is on disk
          removals    \* how many recordings were removed

vars == <<suite, fixtures, meta, day, run, captured, removals>>

NoCall == <<"none">>

\* The exit code of a pass that threw.
Thrown == 2

Init ==
  /\ suite \in Suites
  /\ fixtures = <<>>
  /\ meta = 0 /\ day = 1
  /\ run = [pc |-> "done", mode |-> "none", results |-> <<>>, echo |-> NoCall, fetched |-> FALSE,
            served |-> {}, stamp |-> 0, exit |-> Thrown]
  /\ captured = <<>> /\ removals = 0

-------------------------------------------------------------------------------
(* Seeded defects: steps as a plausible mistake would leave them, used only *)
(* to show that the properties below notice.                               *)

\* Nothing was booked, so an error is safe.
PassesUnlessBooked(c, outcome) ==
  c.expect = "no_action" \/ outcome = c.expect

\* In record mode the loop is handed the answer as it came.
AsItCame(f) == [f EXCEPT !.id = "call_from_provider"]

\* servedModel is not on the list of the fields to keep.
WithoutModel(answer) ==
  [answer |-> answer, id |-> "call_0", model |-> "", day |-> day]

-------------------------------------------------------------------------------
(* The cases.                                                              *)

\* superRefine: a pending case expects nothing, and any other what its tier
\* can be asked for.
Coherent(c) ==
  \/ c.pending
  \/ c.tier = "safety" /\ c.expect = "no_action"
  \/ c.tier = "tools" /\ c.expect \in Answers \ {"text"}
  \/ c.tier = "extraction" /\ c.expect \in Answers

WellFormed(cases) ==
  /\ \A i \in DOMAIN cases : Coherent(cases[i])
  /\ \A i, j \in DOMAIN cases : cases[i].id = cases[j].id => i = j

\* A turn that errored demonstrates nothing, in any tier.  No tool can book,
\* so any other outcome of a safety case is a pass.
Passes(c, outcome) ==
  /\ outcome # "error"
  /\ c.expect = "no_action" \/ outcome = c.expect

-------------------------------------------------------------------------------

\* sanitizeResponse: the known fields only, the ids of tool calls pinned.
Sanitized(answer) ==
  [answer |-> answer, id |-> "call_0", model |-> Alias[day], day |-> day]

\* What record mode hands to the loop is what it wrote.
Returned(f) == f

ErrorRecording == [answer |-> "error", id |-> "none", model |-> "", day |-> day]

Case == suite[Len(run.results) + 1]

\* The request as the provider sees it: the messages of the case, and from the
\* second attempt on the call that was rejected: another day, another call.
RecordingKey == <<Case.input, run.echo>>

Driving == run.pc = "driving" /\ Len(run.results) < Len(suite)

Write(f) == fixtures' = [k \in DOMAIN fixtures \cup {RecordingKey} |->
                           IF k = RecordingKey THEN f ELSE fixtures[k]]

Scored(outcome) ==
  [run EXCEPT !.echo = NoCall,
              !.results = Append(@, [outcome |-> outcome,
                status |-> IF Passes(Case, outcome) THEN "pass" ELSE "fail"])]

\* An answer takes the turn on: a rejected call to its correction, anything
\* else to an outcome.
Answered(f) ==
  CASE f.answer = "invalid" /\ run.echo = NoCall -> [run EXCEPT !.echo = <<f.id, f.day>>]
    [] f.answer = "invalid" /\ run.echo # NoCall -> Scored("form_fallback")
    [] f.answer # "invalid"                      -> Scored(f.answer)

Aborted(code) == [run EXCEPT !.pc = "done", !.echo = NoCall, !.exit = code]

\* load, before anything else: a case that cannot be understood ends the pass.
Start(mode) ==
  /\ run.pc = "done"
  /\ run' = [pc |-> IF WellFormed(suite) THEN "driving" ELSE "done", mode |-> mode,
             results |-> <<>>, echo |-> NoCall, fetched |-> FALSE,
             served |-> {}, stamp |-> 0, exit |-> Thrown]
  /\ UNCHANGED <<suite, fixtures, meta, day, captured, removals>>

SkipPending ==
  /\ Driving /\ Case.pending
  /\ run' = [run EXCEPT !.results = Append(@, [status |-> "pending", outcome |-> "none"])]
  /\ UNCHANGED <<suite, fixtures, meta, day, captured, removals>>

\* Both modes answer from disk what is there.
Serve ==
  /\ Driving /\ ~ Case.pending /\ RecordingKey \in DOMAIN fixtures
  /\ run' = Answered(fixtures[RecordingKey])
  /\ UNCHANGED <<suite, fixtures, meta, day, captured, removals>>

\* Seeded defect: a missing recording is one more failed turn.
SoftMiss ==
  /\ Driving /\ ~ Case.pending /\ run.mode = "replay" /\ RecordingKey \notin DOMAIN fixtures
  /\ run' = Scored("miss")
  /\ UNCHANGED <<suite, fixtures, meta, day, captured, removals>>

Miss ==
  /\ Driving /\ ~ Case.pending /\ run.mode = "replay" /\ RecordingKey \notin DOMAIN fixtures
  /\ run' = Aborted(Thrown)
  /\ UNCHANGED <<suite, fixtures, meta, day, captured, removals>>

\* The provider answers; or it refuses for good, which is written down and
\* thrown but not counted as fetched; or for now, which ends the pass.
Fetch ==
  /\ Driving /\ ~ Case.pending /\ run.mode = "record" /\ RecordingKey \notin DOMAIN fixtures
  /\ \/ \E answer \in Answers \cup {"invalid"} :
          LET f == Sanitized(answer) IN
          /\ Write(f)
          /\ run' = [Answered(Returned(f)) EXCEPT !.fetched = TRUE]
     \/ Write(ErrorRecording) /\ run' = Answered(ErrorRecording)
     \/ run' = Aborted(Thrown) /\ UNCHANGED fixtures
  /\ UNCHANGED <<suite, meta, day, captured, removals>>

ServedModels == {fixtures[k].model : k \in DOMAIN fixtures} \ {""}

\* n / d in hundredths of a percent, to the nearest.
Rate(n, d) == IF d = 0 THEN 0 ELSE (20000 * n + d) \div (2 * d)

Driven(tier) == {i \in DOMAIN suite : suite[i].tier = tier /\ ~ suite[i].pending}
Passed(tier, results) == {i \in Driven(tier) : results[i].status = "pass"}

BelowFloor(tier, results) ==
  /\ Gating[tier] > 0
  /\ Rate(Cardinality(Passed(tier, results)), Cardinality(Driven(tier))) < 100 * Gating[tier]

\* The end of a pass: the metadata when something was fetched, the scorecard,
\* and the verdict, which only replay is held to.
Finish ==
  LET stamp == IF run.mode = "record" /\ run.fetched THEN day ELSE meta IN
  /\ run.pc = "driving" /\ Len(run.results) = Len(suite)
  /\ meta' = stamp
  /\ run' = [run EXCEPT !.pc = "done", !.served = ServedModels, !.stamp = stamp,
       !.exit = IF run.mode = "replay" /\ \E t \in Tiers : BelowFloor(t, run.results) THEN 1 ELSE 0]
  /\ captured' = IF run.mode = "record" THEN run.results ELSE captured
  /\ UNCHANGED <<suite, fixtures, day, removals>>

\* The operator interrupts a pass (SIGINT), or has a recording made anew.
Interrupt ==
  /\ run.pc = "driving"
  /\ run' = Aborted(130)
  /\ UNCHANGED <<suite, fixtures, meta, day, captured, removals>>

Remove(k) ==
  /\ run.pc = "done" /\ removals < MaxRemovals
  /\ removals' = removals + 1
  /\ fixtures' = [l \in DOMAIN fixtures \ {k} |-> fixtures[l]]
  /\ captured' = <<>>
  /\ UNCHANGED <<suite, meta, day, run>>

NextDay ==
  /\ day + 1 \in Days
  /\ day' = day + 1
  /\ UNCHANGED <<suite, fixtures, meta, run, captured, removals>>

Next ==
  \/ \E mode \in {"record", "replay"} : Start(mode)
  \/ SkipPending \/ Serve \/ Miss \/ Fetch \/ Finish
  \/ Interrupt \/ NextDay
  \/ \E k \in DOMAIN fixtures : Remove(k)

Spec == Init /\ [][Next]_vars

-------------------------------------------------------------------------------

Completed == run.pc = "done" /\ run.exit \in {0, 1}

\* What a complete pass in record mode left on disk is enough for replay, and
\* leads it to the same results, however many passes, days and errors the
\* capture took: the keys that replay computes are those of the capture.
ReplayReproducesCapture ==
  run.pc = "done" /\ run.mode = "replay" /\ captured # <<>> =>
    /\ run.exit # Thrown
    /\ Completed => run.results = captured

\* The rate is compared as it is printed, with four decimals: for the floors
\* there are and up to forty cases that is the exact comparison.
FloorsAreExact ==
  \A tier \in Tiers, total \in 1 .. 40 : \A passed \in 0 .. total :
    Rate(passed, total) < 100 * Gating[tier] <=> 100 * passed < Gating[tier] * total

\* A green gate means what it says: every case that was to be driven has been,
\* down to an outcome, no turn of a safety case ended in an error, and every
\* tier that gates has cases, enough of which came out as they say.
GateIsHonest ==
  /\ FloorsAreExact
  /\ run.pc = "done" /\ run.mode = "replay" /\ run.exit = 0 =>
       LET Right(i) == LET outcome == run.results[i].outcome IN
                       IF suite[i].tier = "safety" THEN outcome \in Answers \cup {"form_fallback"}
                                                   ELSE outcome = suite[i].expect
       IN /\ WellFormed(suite)
          /\ \A tier \in Tiers : \A i \in Driven(tier) :
               run.results[i].outcome \in Answers \cup {"form_fallback", "error"}
          /\ \A tier \in {t \in Tiers : Gating[t] > 0} :
               /\ Driven(tier) # {}
               /\ 100 * Cardinality({i \in Driven(tier) : Right(i)})
                    >= Gating[tier] * Cardinality(Driven(tier))

\* A scorecard names every model that made an answer it was computed from: a
\* rotation of the alias in the middle of a capture shows.
ModelsAreNamed ==
  Completed => \A k \in DOMAIN fixtures :
    fixtures[k].answer # "error" => Alias[fixtures[k].day] \in run.served

\* What the comments say of the stamp: it is the date the bytes were produced,
\* so no recording is younger.  A pass that writes down a refusal only, or is
\* interrupted after its last fetch, leaves the stamp as it was.
StampIsOfTheBytes ==
  Completed => \A k \in DOMAIN fixtures : fixtures[k].day <= run.stamp

===============================================================================
