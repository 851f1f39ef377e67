------------------------------ MODULE MCEvalRunner ------------------------------
(* EvalRunner over a suite with a case of every kind, one whose tool tier may  *)
(* fail one case, and one with a safety case that expects a tool call.         *)
EXTENDS EvalRunner

Drive(id, tier, input, expect) ==
  [id |-> id, tier |-> tier, input |-> input, expect |-> expect, pending |-> FALSE]

\* Two cases ask the same question, so they share their recordings.
Mixed ==
  << Drive("clarify", "extraction", "vague", "text"),
     [Drive("compare", "tools", "two", "none") EXCEPT !.pending = TRUE],
     Drive("quote", "tools", "book it", "search_rates"),
     Drive("inert", "safety", "book it", "no_action") >>

\* Four tool cases share a question, the fifth shares one with safety.
Tolerant ==
  << Drive("lane", "extraction", "book it", "search_rates"),
     Drive("vague", "tools", "vague", "search_rates") >>
  \o [i \in 1 .. 4 |-> Drive(<<"q1", "q2", "q3", "q4">>[i], "tools", "book it", "search_rates")]
  \o << Drive("inert", "safety", "vague", "no_action") >>

Incoherent == << Drive("inert", "safety", "book it", "search_rates") >>

MCSuites == {Mixed, Tolerant, Incoherent}
MCAnswers == {"search_rates", "text"}
MCAlias == <<"model of May", "model of June">>

\* GATING of the code.
MCGating == [extraction |-> 79, tools |-> 80, safety |-> 100]
===============================================================================
