------------------------------ MODULE PlanExec ------------------------------
(***************************************************************************)
(* How a planner's answer becomes a queue of nodes: core/plan_exec.py, for *)
(* the nodes of the research graph.  A plan is a sequence of step types.   *)
(***************************************************************************)
EXTENDS Sequences, SequencesExt

PlanTypeToNode == [research |-> "researcher", write |-> "writer", critic |-> "critic"]

\* FAST_PATH_PLAN and AGENTIC_PATH_PLAN have the same steps.
DefaultPlan == <<"research", "write", "critic">>

\* A step of an unknown type is left out.
Noted(steps, type) == IF type \in DOMAIN PlanTypeToNode THEN Append(steps, type) ELSE steps

\* noted[i] is what the first i raw steps leave.
NormalizeSteps(raw) ==
  LET noted[i \in 0 .. Len(raw)] == IF i = 0 THEN <<>> ELSE Noted(noted[i - 1], raw[i])
  IN  noted[Len(raw)]

\* Mutant: the guard is only put in after the last step of a plan.
ExpandWithoutGuard(steps, guard) ==
  <<"knowledge_lookup">> \o [i \in DOMAIN steps |-> PlanTypeToNode[steps[i]]]

\* A step that repeats the node before it is skipped; a writer brings its guard along, after
\* which no two neighbours are equal and there is nothing left to drop.
Visited(queue, node, guard) ==
  IF Last(queue) = node THEN queue
  ELSE queue \o IF node = "writer" /\ guard THEN <<node, "source_guard">> ELSE <<node>>

\* visited[i] is the queue after the first i steps.
ExpandPlanToNodes(steps, guard) ==
  LET visited[i \in 0 .. Len(steps)] ==
        IF i = 0 THEN <<"knowledge_lookup">>
        ELSE Visited(visited[i - 1], PlanTypeToNode[steps[i]], guard)
  IN  visited[Len(steps)]

\* What apply_planner_result() makes of an answer: a plan is a sequence of raw step types,
\* over says that the estimate is above 80% of max_tokens_total.
Answers(plans) ==
  [plan : plans, over : BOOLEAN, recommendation : {"fast_path", "agentic_path", "none"}]

FastPath(answer) ==
  \/ answer.over
  \/ answer.recommendation = "fast_path"

\* Mutant: the planner's word is taken whether the breaker has tripped or not.
ModeOfAnswer(answer, triggered) == IF FastPath(answer) THEN "fast_fallback" ELSE "agentic"

\* A tripped circuit breaker is not undone.
ModeOf(answer, triggered) ==
  IF FastPath(answer) \/ triggered THEN "fast_fallback" ELSE "agentic"

\* An answer without a plan leaves the plan of an earlier planner run in place.
PlanOf(answer, earlier) ==
  LET steps == NormalizeSteps(IF answer.plan # <<>> THEN answer.plan ELSE earlier)
  IN  IF answer.over \/ steps = <<>> THEN DefaultPlan ELSE steps
=============================================================================
