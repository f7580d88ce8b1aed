----------------------------- MODULE MCResearch -----------------------------
(***************************************************************************)
(* Values of the constants of ResearchPipeline.  Limits are scaled down:   *)
(* a call takes two tokens, the default allows four.                       *)
(***************************************************************************)
EXTENDS ResearchPipeline

MCCaps == {[iters |-> 3, calls |-> 3], [iters |-> 1, calls |-> 2]}

Request(preset, override) == [preset |-> preset, override |-> override]

\* Defaults, the preset, numbers beyond both ends, features a client can switch off.
MCStartRequests ==
  { Request("none", Nothing),
    Request("deep_research", [max_tokens |-> 99]),
    Request("none", [max_tokens |-> 0, max_steps |-> NotInt, fact_check_critic |-> FALSE]),
    Request("none", [max_tokens |-> 3, dynamic_planning |-> FALSE, debate_loop |-> TRUE]),
    Request("deep_research", [react_researcher |-> FALSE]) }

PlanAnswer(plan, recommendation) ==
  [plan |-> plan, over |-> FALSE, recommendation |-> recommendation]

\* No plan, a usual one, one too dear, one without a writer, one that goes round twice.
MCPlanAnswers ==
  { PlanAnswer(<<>>, "fast_path"),
    PlanAnswer(<<"research", "write", "write", "critic">>, "agentic_path"),
    [PlanAnswer(<<"critic">>, "agentic_path") EXCEPT !.over = TRUE],
    PlanAnswer(<<"critic">>, "agentic_path"),
    PlanAnswer(<<"research", "browse", "critic", "research", "write">>, "none") }
=============================================================================
