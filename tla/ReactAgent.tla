----------------------------- MODULE ReactAgent -----------------------------
(***************************************************************************)
(* One pass of an agent with tools: nodes/llm_agent_node.py, with          *)
(* synthesize_findings of nodes/agent_tools.py.  The loop works on a copy  *)
(* of the run's state (work), which the engine keeps only when the node    *)
(* succeeds.  A brief is known by how it was made.                         *)
(***************************************************************************)
EXTENDS Budget

CONSTANTS
  Caps,       \* the (iterations, calls) limits an agent may be configured with
  CallCosts   \* the tokens one call of the model may take

\* max(1, ...) of the code; a call of the model takes some number of tokens, 0 included.
ASSUME ReactAssumption ==
  /\ Caps \subseteq [iters : Nat \ {0}, calls : Nat \ {0}]
  /\ CallCosts \subseteq Nat /\ CallCosts # {}

VARIABLES loop, work

loopVars == <<loop, work>>

NoBrief == "none"
NoPlan == [set |-> FALSE, brief |-> NoBrief]
\* A loop that is not running; own is the brief the model itself gives (for the properties).
Off(caps) ==
  [pc |-> "off", caps |-> caps, iter |-> 0, calls |-> 0, invoked |-> 0, own |-> NoBrief]

\* What the agent shares with the rest of the run.
NewBag(budget) == [budget |-> budget, done |-> FALSE, plan |-> NoPlan, brief |-> NoBrief]

Remaining == loop.caps.calls - loop.calls
Turn == loop.pc = "turn" /\ loop.iter < loop.caps.iters
Spend(w, cost) == [w EXCEPT !.budget = RecordTokens(@, cost)]

\* _apply_json_payload(): the payload becomes research_plan, its brief research_brief.
ApplyPayload(w, brief) ==
  [w EXCEPT !.plan = [set |-> TRUE, brief |-> brief],
            !.brief = IF brief = NoBrief THEN @ ELSE brief]

\* Mutant: the state's research_plan is used whether there is one or not.
FinalPayloadOfState(w, brief) == ApplyPayload(w, w.plan.brief)

\* The end of the pass: a research_plan in the state wins over the agent's own answer.
FinalPayload(w, brief) == ApplyPayload(w, IF w.plan.set THEN w.plan.brief ELSE brief)

\* synthesize_findings: the brief in the arguments, else the one in the state, else a new one.
Synthesize(w, own) ==
  LET brief == IF own \/ w.brief = NoBrief THEN "synthesis" ELSE w.brief
  IN  [w EXCEPT !.plan = [set |-> TRUE, brief |-> brief], !.brief = brief, !.done = TRUE]

\* A synthesis that counts as a tool call and a step, and ends the loop.
EndBySynthesis(w, own) ==
  /\ loop' = [loop EXCEPT !.pc = "final", !.calls = @ + 1, !.invoked = @ + 1,
                          !.own = IF own THEN "synthesis" ELSE NoBrief]
  /\ LET s == Synthesize(w, own)
     IN  work' = FinalPayload([s EXCEPT !.budget = RecordStep(@)], NoBrief)

EndWith(w, brief) ==
  /\ loop' = [loop EXCEPT !.pc = "final", !.own = brief]
  /\ work' = FinalPayload(w, brief)

Tight == Remaining =< 1 /\ ~work.done

\* The last call is kept for the synthesis.
ForceSynthesis ==
  /\ Turn
  /\ Tight
  /\ EndBySynthesis(work, FALSE)

\* The run's budget does not allow another turn.
StopUnaffordable(late) ==
  /\ Turn
  /\ ~Tight /\ ~CanAfford(work.budget, late)
  /\ IF work.done THEN EndWith(work, NoBrief) ELSE EndBySynthesis(work, FALSE)

AskModel(late) == Turn /\ ~Tight /\ CanAfford(work.budget, late)

\* Mutant: a tool call is not counted.
UseToolUncounted(cost, late, known) ==
  /\ AskModel(late)
  /\ CanAfford(Spend(work, cost).budget, late)
  /\ loop' = [loop EXCEPT !.iter = @ + 1, !.invoked = IF known THEN @ + 1 ELSE @]
  /\ work' = [Spend(work, cost) EXCEPT !.budget = RecordStep(@)]

\* A tool of the agent, or one it does not have: both use up a call and a step.
UseTool(cost, late, known) ==
  /\ AskModel(late)
  /\ CanAfford(Spend(work, cost).budget, late)
  /\ Remaining > 1
  /\ loop' = [loop EXCEPT !.iter = @ + 1, !.calls = @ + 1,
                          !.invoked = IF known THEN @ + 1 ELSE @]
  /\ work' = [Spend(work, cost) EXCEPT !.budget = RecordStep(@)]

\* The call of the model used up the budget: its tool is not called any more.
RefuseTool(cost, late) ==
  /\ AskModel(late)
  /\ ~CanAfford(Spend(work, cost).budget, late)
  /\ IF work.done THEN EndWith(Spend(work, cost), NoBrief)
     ELSE EndBySynthesis(Spend(work, cost), FALSE)

\* One call left and the model wants another tool: the synthesis takes its place.
ReplaceTool(cost, late) ==
  /\ AskModel(late)
  /\ CanAfford(Spend(work, cost).budget, late)
  /\ Remaining = 1
  /\ EndBySynthesis(Spend(work, cost), FALSE)

CallSynthesize(cost, late, own) ==
  /\ AskModel(late)
  /\ EndBySynthesis(Spend(work, cost), own)

\* An answer without a tool call ends the pass, with a brief in it or not.
Answer(cost, late, own) ==
  /\ AskModel(late)
  /\ EndWith(Spend(work, cost), IF own THEN "answer" ELSE NoBrief)

\* The iterations are used up: the safety net packages the evidence, uncounted.
IterationsOver ==
  /\ loop.pc = "turn" /\ loop.iter = loop.caps.iters
  /\ IF work.done THEN EndWith(work, NoBrief)
     ELSE /\ loop' = [loop EXCEPT !.pc = "final", !.invoked = @ + 1]
          /\ work' = FinalPayload(Synthesize(work, FALSE), NoBrief)

LoopStep(late) ==
  \/ ForceSynthesis \/ StopUnaffordable(late) \/ IterationsOver
  \/ \E cost \in CallCosts :
       \/ \E known \in BOOLEAN : UseTool(cost, late, known)
       \/ RefuseTool(cost, late) \/ ReplaceTool(cost, late)
       \/ \E own \in BOOLEAN : CallSynthesize(cost, late, own)
                               \/ Answer(cost, late, own)

-----------------------------------------------------------------------------
\* The hard cap on tool calls: no pass calls a tool, the synthesis included, more often
\* than max_tool_calls, whatever the model asks for and whatever the iterations allow.
ToolCallsCapped == loop.invoked =< loop.caps.calls

\* The loop passes the token limit by what one call of the model costs and no more:
\* can_afford() is asked before every call, record_tokens() adds after it.
OvershootIsOneCall ==
  loop.pc # "off" =>
    \E cost \in CallCosts : work.budget.tokens =< work.budget.max_tokens + cost
=============================================================================
