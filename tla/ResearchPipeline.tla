-------------------------- MODULE ResearchPipeline --------------------------
(***************************************************************************)
(* A research run from its configuration to its report: the graph of       *)
(* examples/research_report_pipeline.py with the budget, the plan and the  *)
(* tool-using researcher.  GraphRunner models how the engine saves,        *)
(* retries and recovers; here a node succeeds or fails as a whole, and a   *)
(* crash falls between a node's saved result and the move to the next.     *)
(***************************************************************************)
EXTENDS WorkflowConfig, PlanExec, ReactAgent

CONSTANTS
  StartRequests,          \* the presets and overrides of start requests
  PlanAnswers,            \* the planner's answers
  Scores,                 \* the scores of a critic: "low", "high", "junk", "absent"
  MaxAttempts,            \* the researcher's RetryPolicy.max_attempts, 3 in the code
  MaxAutoRevisions,       \* 3 in the code
  MaxHumanRevisions,      \* 5 in the code
  MaxCrashes,             \* bound on the crashes explored
  MaxAutoCounted          \* bound on the count of automatic revisions in hist.auto

ASSUME ResearchAssumption ==
  /\ \A request \in StartRequests : \A k \in DOMAIN request.override :
       /\ k \in DOMAIN ResearchDefault
       /\ request.override[k] \in IF k \in {"max_tokens", "max_steps"}
                                  THEN Int \cup {NotInt} ELSE BOOLEAN
  /\ PlanAnswers \subseteq Answers(Seq(STRING))
  /\ Scores \subseteq {"low", "high", "junk", "absent"}
  /\ MaxAttempts \in Nat \ {0}
  /\ MaxAutoRevisions \in Nat /\ MaxHumanRevisions \in Nat /\ MaxCrashes \in Nat
  /\ MaxAutoCounted \in Nat

VARIABLES
  run,      \* the record of the run
  late,     \* max_latency_ms has passed
  hist,     \* what happened, for the properties only
  crashes

vars == <<run, late, hist, crashes, loop, work>>

Static ==
  [planner |-> "knowledge_lookup", knowledge_lookup |-> "researcher",
   researcher |-> "writer", writer |-> "source_guard", source_guard |-> "critic"]

\* What work is while no researcher is at it.
NoWork == NewBag(NewBudget(1, 1))

AgentNodes == DOMAIN Static \cup {"critic", "deliver", "human_approve"}

Init ==
  /\ \E request \in StartRequests, caps \in Caps :
       LET c == Resolve(request.preset, request.override)
       IN  /\ run = [status |-> "RUNNING", node |-> "planner", pc |-> "node", config |-> c,
                     bag |-> NewBag(NewBudget(c.max_tokens, c.max_steps)),
                     dynamic |-> FALSE, queue |-> <<>>, plan |-> <<>>, draft |-> FALSE,
                     guarded |-> FALSE, score |-> "absent", approved |-> "no",
                     revisions |-> 0, human |-> 0, attempt |-> 1]
           /\ loop = Off(caps)
           /\ work = NoWork
  /\ late = FALSE
  /\ crashes = 0
  /\ hist = [auto |-> 0, contradicted |-> FALSE, uncounted |-> FALSE, judged |-> FALSE,
             own |-> FALSE, overruled |-> FALSE, signed |-> FALSE, delivered |-> FALSE,
             brief |-> NoBrief]

\* The node's turn, with the breaker asked before it.
At(node) == run.status = "RUNNING" /\ run.pc = "node" /\ run.node = node
Bag == [run.bag EXCEPT !.budget = Breaker(@, late)]

\* The node's result is saved, with the breaker asked after it.
Result(bag) ==
  [run EXCEPT !.pc = "route", !.bag = [bag EXCEPT !.budget = Breaker(@, late)]]
ToolResult == Result([Bag EXCEPT !.budget = RecordStep(@)])

Outside == UNCHANGED <<late, crashes, loop, work>>
Increased(n, bound) == IF n < bound THEN n + 1 ELSE n

-----------------------------------------------------------------------------
(* The planner, and what apply_planner_result() does with its answer.      *)

Planner(answer, cost) ==
  /\ At("planner")
  /\ LET r == Result(Spend(Bag, cost))
         plan == PlanOf(answer, run.plan)
     IN  run' = [r EXCEPT
           !.plan = plan,
           !.bag.budget.mode = ModeOf(answer, r.bag.budget.triggered),
           !.dynamic = run.config.dynamic_planning,
           !.queue = IF run.config.dynamic_planning
                     THEN ExpandPlanToNodes(plan, run.config.fact_check_critic) ELSE <<>>]
  /\ Outside /\ UNCHANGED hist

\* seed_fallback_plan(): on to the static edges, in one shot.
PlannerFails ==
  /\ At("planner")
  /\ run' = [run EXCEPT !.node = Static["planner"], !.bag = Bag,
                        !.bag.budget.mode = "fast_fallback",
                        !.plan = DefaultPlan, !.dynamic = FALSE, !.queue = <<>>]
  /\ Outside /\ UNCHANGED hist

KnowledgeLookup ==
  /\ At("knowledge_lookup")
  /\ run' = ToolResult
  /\ Outside /\ UNCHANGED hist

-----------------------------------------------------------------------------
(* The researcher: a pass of the tool loop, or one call in fast fallback.  *)

UsesTools == ~InFastFallback(Bag.budget) /\ run.config.react_researcher

StartResearch ==
  /\ At("researcher")
  /\ UsesTools
  /\ loop' = [Off(loop.caps) EXCEPT !.pc = "turn"]
  /\ work' = Bag
  /\ run' = [run EXCEPT !.pc = "loop", !.bag = Bag]
  /\ UNCHANGED <<late, hist, crashes>>

Research ==
  /\ run.pc = "loop"
  /\ LoopStep(late)
  /\ UNCHANGED <<run, late, hist, crashes>>

\* The brief a pass gives: its synthesis, or its answer where no research_plan is there yet.
PassBrief ==
  IF loop.own = "answer" /\ run.bag.plan.set THEN NoBrief ELSE loop.own
Briefed(brief) == [hist EXCEPT !.brief = IF brief = NoBrief THEN @ ELSE brief]

EndResearch ==
  /\ loop.pc = "final"
  /\ loop' = Off(loop.caps)
  /\ run' = [Result(work) EXCEPT !.attempt = 1]
  /\ work' = NoWork
  /\ hist' = Briefed(PassBrief)
  /\ UNCHANGED <<late, crashes>>

\* Any failure inside the loop fails the attempt, and what it spent is forgotten.
AttemptFails ==
  /\ loop.pc = "turn"
  /\ loop' = Off(loop.caps)
  /\ run' = IF run.attempt < MaxAttempts
            THEN [run EXCEPT !.pc = "node", !.attempt = @ + 1]
            ELSE [run EXCEPT !.pc = "node", !.status = "FAILED"]
  /\ work' = NoWork
  /\ UNCHANGED <<late, hist, crashes>>

ResearchInOneShot(cost, own) ==
  /\ At("researcher")
  /\ ~UsesTools
  /\ LET brief == IF own THEN "answer" ELSE NoBrief
     IN  /\ run' = Result(ApplyPayload(Spend(Bag, cost), brief))
         /\ hist' = Briefed(brief)
  /\ Outside

-----------------------------------------------------------------------------
(* The writer, the guard, the critic and the delivery.                     *)

Write(cost) ==
  /\ At("writer")
  /\ run' = [Result(Spend(Bag, cost)) EXCEPT !.draft = TRUE, !.guarded = FALSE]
  /\ hist' = [hist EXCEPT !.judged = FALSE, !.own = FALSE, !.signed = FALSE]
  /\ Outside

SourceGuard ==
  /\ At("source_guard")
  /\ run' = [ToolResult EXCEPT !.guarded = run.config.fact_check_critic]
  /\ Outside /\ UNCHANGED hist

\* Mutant: the critic's word of approval comes before its score.
ApprovedPasses(r) == r.approved = "yes" \/ r.score = "high"

\* A critic approves or not, by a Boolean or in words; "text" is any other text, which does
\* not let a draft pass and is true all the same ("no", "rejected", "false").
Approvals == {"yes", "no", "text"}

CriticPasses(r) ==
  CASE r.score = "high" -> TRUE
    [] r.score = "low"  -> FALSE
    [] OTHER            -> r.approved = "yes"

\* Mutant: the revisions are not counted.
JudgeUncounted(r, score, approved) ==
  [r EXCEPT !.score = IF score = "absent" THEN @ ELSE score,
            !.approved = IF approved = "absent" THEN @ ELSE approved]

\* Keys the verdict leaves out keep the values of an earlier verdict; a revision is counted
\* unless the verdict's own word of approval is true, whatever the score or the words say.
Judge(r, score, approved) ==
  [r EXCEPT !.score = IF score = "absent" THEN @ ELSE score,
            !.approved = IF approved = "absent" THEN @ ELSE approved,
            !.revisions = IF approved \in {"yes", "text"} THEN @
                          ELSE Increased(@, MaxAutoRevisions)]

Criticise(cost, score, approved) ==
  /\ At("critic")
  /\ run' = Judge(Result(Spend(Bag, cost)), score, approved)
  /\ hist' = [hist EXCEPT
       !.judged = TRUE,
       !.own = score = "high" \/ (score \in {"junk", "absent"} /\ approved = "yes"),
       !.contradicted = @ \/ (approved = "yes" /\ ~CriticPasses(run')),
       !.uncounted = @ \/ (approved \in {"yes", "text"} /\ ~CriticPasses(run'))]
  /\ Outside

Deliver ==
  /\ At("deliver")
  /\ run' = ToolResult
  /\ hist' = [hist EXCEPT !.delivered = TRUE]
  /\ Outside

NodeFails ==
  /\ run.node \notin {"planner", "human_approve"}
  /\ At(run.node)
  /\ run' = [run EXCEPT !.status = "FAILED", !.bag = Bag]
  /\ Outside /\ UNCHANGED hist

-----------------------------------------------------------------------------
(* Where the run goes next: the plan first, then the static edges.         *)

AtRoute == run.status = "RUNNING" /\ run.pc = "route"
Move(node) == [run EXCEPT !.node = node, !.pc = "node"]

NeedsAutoRevise ==
  run.config.debate_loop /\ ~CriticPasses(run) /\ run.revisions < MaxAutoRevisions
NeedsHumanReview ==
  ~CriticPasses(run) /\ (run.config.debate_loop => run.revisions >= MaxAutoRevisions)

FollowPlan ==
  /\ AtRoute
  /\ run.dynamic /\ run.queue # <<>>
  /\ run' = [Move(Head(run.queue)) EXCEPT !.queue = Tail(@)]
  /\ hist' = [hist EXCEPT !.overruled = @ \/ (run.node = "critic" /\ CriticPasses(run))]
  /\ Outside

\* Mutant: an edge is followed although the plan is not over.
AtEdgeEarly(node) == AtRoute /\ run.node = node

AtEdge(node) == AtRoute /\ run.queue = <<>> /\ run.node = node

FollowEdge ==
  /\ run.node \in DOMAIN Static
  /\ AtEdge(run.node)
  /\ run' = [Move(Static[run.node]) EXCEPT !.dynamic = FALSE]
  /\ Outside /\ UNCHANGED hist

AutoDeliver ==
  /\ AtEdge("critic") /\ CriticPasses(run)
  /\ run' = [Move("deliver") EXCEPT !.dynamic = FALSE]
  /\ Outside /\ UNCHANGED hist

AutoRevise ==
  /\ AtEdge("critic") /\ NeedsAutoRevise
  /\ run' = [Move("writer") EXCEPT !.dynamic = FALSE]
  /\ hist' = [hist EXCEPT !.auto = Increased(@, MaxAutoCounted)]
  /\ Outside

AskHuman ==
  /\ AtEdge("critic") /\ NeedsHumanReview
  /\ run' = [Move("human_approve") EXCEPT !.dynamic = FALSE, !.status = "PAUSED"]
  /\ Outside /\ UNCHANGED hist

Complete ==
  /\ AtEdge("deliver")
  /\ run' = [run EXCEPT !.status = "COMPLETED"]
  /\ Outside /\ UNCHANGED hist

-----------------------------------------------------------------------------
(* The human, the clock, and a crash with a resume by the bare runner.     *)

Approve ==
  /\ run.status = "PAUSED"
  /\ run' = [Move("deliver") EXCEPT !.status = "RUNNING"]
  /\ hist' = [hist EXCEPT !.signed = TRUE]
  /\ Outside

Reject ==
  /\ run.status = "PAUSED"
  /\ run' = [run EXCEPT !.status = "FAILED"]
  /\ Outside /\ UNCHANGED hist

Revise ==
  /\ run.status = "PAUSED"
  /\ run.human < MaxHumanRevisions
  /\ run' = [Move("writer") EXCEPT !.status = "RUNNING", !.human = @ + 1, !.approved = "no",
                                   !.revisions = Increased(@, MaxAutoRevisions)]
  /\ Outside /\ UNCHANGED hist

TimePasses ==
  /\ ~late /\ late' = TRUE
  /\ UNCHANGED <<run, hist, crashes, loop, work>>

\* The current node is executed again, on the state its own result is part of.
CrashResume ==
  /\ crashes < MaxCrashes
  /\ run.status = "RUNNING"
  /\ run.pc # "node"
  /\ crashes' = crashes + 1
  /\ run' = [run EXCEPT !.pc = "node", !.attempt = 1]
  /\ loop' = Off(loop.caps) /\ work' = NoWork
  /\ hist' = [hist EXCEPT !.overruled = @ \/ (run.node = "critic" /\ CriticPasses(run))]
  /\ UNCHANGED late

NodeStep ==
  \/ PlannerFails \/ KnowledgeLookup \/ StartResearch \/ Research \/ EndResearch
  \/ AttemptFails \/ SourceGuard \/ Deliver \/ NodeFails
  \/ \E cost \in CallCosts :
       \/ Write(cost)
       \/ \E answer \in PlanAnswers : Planner(answer, cost)
       \/ \E own \in BOOLEAN : ResearchInOneShot(cost, own)
       \/ \E score \in Scores, approved \in Approvals \cup {"absent"} :
            Criticise(cost, score, approved)

RouteStep ==
  FollowPlan \/ FollowEdge \/ AutoDeliver \/ AutoRevise \/ AskHuman \/ Complete

Next ==
  \/ NodeStep \/ RouteStep
  \/ Approve \/ Reject \/ Revise \/ TimePasses \/ CrashResume

Spec == Init /\ [][Next]_vars

\* The engine goes on with a running run.
FairSpec == Spec /\ WF_vars(NodeStep \/ RouteStep)

-----------------------------------------------------------------------------
(* Properties.                                                             *)

Briefs == {NoBrief, "answer", "synthesis"}
Bags ==
  [budget : Budgets(1 .. Ceiling), done : BOOLEAN, brief : Briefs,
   plan : [set : BOOLEAN, brief : Briefs]]

\* The values of the code; the budget of a run lies between 1 and the hard ceiling whatever
\* a start request overrides (apply_ceilings of api/workflow_config.py).
TypeOK ==
  /\ run.status \in {"RUNNING", "PAUSED", "COMPLETED", "FAILED"}
  /\ run.node \in AgentNodes /\ run.pc \in {"node", "loop", "route"}
  /\ run.bag \in Bags /\ work \in Bags
  /\ run.queue \in Seq(AgentNodes)
  /\ run.score \in {"absent", "low", "high", "junk"} /\ run.approved \in Approvals
  /\ run.revisions \in 0 .. MaxAutoRevisions /\ run.attempt \in 1 .. MaxAttempts
  /\ run.human \in 0 .. MaxHumanRevisions
  /\ loop.pc \in {"off", "turn", "final"} /\ (loop.pc = "off") = (run.pc # "loop")

\* No draft is delivered with links nobody checked: on every way to the delivery, by plan,
\* revision, human decision or crash, the last draft has been through the source guard.
DeliveredIsGuarded ==
  hist.delivered /\ run.draft /\ run.config.fact_check_critic => run.guarded

\* Quality gate: what is delivered has been judged since it was last written, and either a
\* human signed it or the critic's own words about it pass.  The words may only be older
\* where a plan or a crash made the run go on after a verdict that passed, or where a critic
\* had approved of a draft its score did not let pass: the approval stays in the state, and
\* a later verdict without a usable score falls back on it.
DeliveredIsJudged ==
  hist.delivered =>
    \/ hist.signed
    \/ hist.judged /\ (hist.own \/ hist.overruled \/ hist.contradicted)

\* Nothing is delivered that was never written, unless the planner's plan has no writer in it.
DeliveredIsWritten ==
  hist.delivered => run.draft \/ ~(\E i \in DOMAIN run.plan : run.plan[i] = "write")

\* Once the circuit breaker has tripped, the run stays in fast fallback and no tool is
\* called any more: not by a planner that prefers the agentic path, not after a crash.
BreakerIsFinal ==
  [][run.bag.budget.triggered =>
       /\ InFastFallback(run'.bag.budget) /\ run'.bag.budget.mode = "fast_fallback"
       /\ run'.bag.budget.triggered
       /\ loop'.invoked =< loop.invoked]_vars

\* The brief the last pass of the researcher made, by its synthesis or by its own answer,
\* is the one in the state when the writer starts: neither the final payload, an earlier
\* plan, a later pass without a brief, a failed attempt nor a crash loses or replaces it.
\* An answer counts only where no research_plan is left of an earlier pass, which wins.
BriefReachesWriter ==
  At("writer") /\ hist.brief # NoBrief => run.bag.brief = hist.brief

\* The automatic revisions stop after MAX_AUTO_REVISIONS.
AutoRevisionsBounded == hist.auto =< MaxAutoRevisions

\* The run comes to rest, delivered, failed or waiting for a human, unless the critic sends
\* a draft back in a verdict that is not counted: it approves of a draft that its score, of
\* now or of earlier, does not let pass, or it puts its refusal in words.
Settles == run.status = "RUNNING" ~> (run.status # "RUNNING" \/ hist.uncounted)
=============================================================================
