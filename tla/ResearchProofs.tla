--------------------------- MODULE ResearchProofs ---------------------------
(***************************************************************************)
(* Theorems about ResearchPipeline: its type invariant, the limits of the  *)
(* tool loop, the circuit breaker and the quality gate, for every          *)
(* configuration, plan, verdict and limit.                                 *)
(***************************************************************************)
EXTENDS ResearchPipeline, PlanProofs

-----------------------------------------------------------------------------
(* The inductive invariant.                                                *)

Statuses == {"RUNNING", "PAUSED", "COMPLETED", "FAILED"}
Configs == {Resolve(request.preset, request.override) : request \in StartRequests}

Runs ==
  [status : Statuses, node : AgentNodes, pc : {"node", "loop", "route"}, config : Configs,
   bag : Bags, dynamic : BOOLEAN, queue : Seq(PlanNodes), plan : Seq(DOMAIN PlanTypeToNode),
   draft : BOOLEAN, guarded : BOOLEAN, score : {"absent", "low", "high", "junk"},
   approved : Approvals, revisions : 0 .. MaxAutoRevisions, human : 0 .. MaxHumanRevisions,
   attempt : 1 .. MaxAttempts]

Hists ==
  [auto : Nat, contradicted : BOOLEAN, uncounted : BOOLEAN, judged : BOOLEAN, own : BOOLEAN,
   overruled : BOOLEAN, signed : BOOLEAN, delivered : BOOLEAN, brief : Briefs]

Loops ==
  [pc : {"off", "turn", "final"}, caps : Caps, iter : Nat, calls : Nat, invoked : Nat,
   own : Briefs]

Typed ==
  /\ run \in Runs /\ hist \in Hists /\ late \in BOOLEAN
  /\ loop \in Loops /\ work \in Bags
  /\ (loop.pc = "off") = (run.pc # "loop")
  /\ run.pc = "loop" => run.node = "researcher"

\* The tool loop keeps one call in hand, and asks the budget before each of its turns.
LoopInv ==
  /\ loop.pc = "off" => loop.invoked = 0
  /\ loop.pc = "turn" => /\ loop.calls < loop.caps.calls
                         /\ loop.invoked =< loop.calls
                         /\ work.budget.tokens =< work.budget.max_tokens
  /\ loop.pc = "final" => /\ loop.invoked =< loop.caps.calls
                          /\ \E cost \in CallCosts :
                               work.budget.tokens =< work.budget.max_tokens + cost

\* A tripped breaker has switched the mode, and no loop is entered once it has tripped.
Tripped(bag) == bag.budget.triggered => bag.budget.mode = "fast_fallback"

BreakerInv ==
  /\ Tripped(run.bag) /\ Tripped(work)
  /\ run.pc = "loop" => ~run.bag.budget.triggered

\* Why a verdict that lets the draft pass is the critic's own, or an older one is known of:
\* a passing score or an approval is in the state outside the critic's own turn only after
\* a verdict was overruled, or contradicted itself.
AtVerdict == run.node = "critic" /\ run.pc = "route"
Older == hist.overruled \/ hist.contradicted
JudgeInv ==
  /\ run.status = "PAUSED" => run.node = "human_approve"
  /\ hist.delivered => run.node = "deliver"
  /\ run.node = "deliver" => hist.signed \/ (hist.judged /\ (hist.own \/ Older))
  /\ AtVerdict => hist.judged /\ (CriticPasses(run) => hist.own \/ Older)
  /\ AtVerdict /\ run.approved = "yes" /\ ~CriticPasses(run) => Older
  /\ ~AtVerdict /\ run.node # "deliver" /\ (run.score = "high" \/ run.approved = "yes") => Older

\* Where an unchecked draft can be: at the writer, or on its way into the source guard.
GuardInv ==
  /\ run.node \in {"human_approve", "deliver"} => run.queue = <<>>
  /\ run.config.fact_check_critic =>
       /\ FollowedByGuard(run.queue)
       /\ run.node = "writer" /\ run.queue # <<>> => Head(run.queue) = "source_guard"
       /\ run.draft /\ ~run.guarded =>
            run.node = "writer" \/ (run.node = "source_guard" /\ run.pc = "node")

\* While there is no draft, the planned writer is still ahead.
BeforeWriter == {"planner", "knowledge_lookup", "researcher", "writer"}
WriteInv ==
  /\ run.node = "writer" /\ run.pc = "route" => run.draft
  /\ ~run.draft /\ (\E i \in DOMAIN run.plan : run.plan[i] = "write") =>
       \/ HasWriter(run.queue)
       \/ run.node = "writer"
       \/ run.queue = <<>> /\ run.node \in BeforeWriter
ResearchInv == Typed /\ LoopInv /\ BreakerInv /\ JudgeInv /\ GuardInv /\ WriteInv

-----------------------------------------------------------------------------
(* The configuration of a run.                                             *)

\* apply_ceilings: the limits of a run lie between 1 and the ceiling whatever was asked for.
LEMMA ConfigType ==
  ASSUME NEW c \in Configs
  PROVE  /\ c.max_tokens \in 1 .. Ceiling /\ c.max_steps \in 1 .. Ceiling
         /\ c.dynamic_planning \in BOOLEAN /\ c.fact_check_critic \in BOOLEAN
<1>1. PICK request \in StartRequests : c = Resolve(request.preset, request.override)
  BY DEF Configs
<1> DEFINE patch == PresetPatch(request.preset)
           m == DeepMerge(patch, request.override)
           d == DeepMerge(ResearchDefault, m)
           Number(f, k) == k \in DOMAIN f => f[k] \in Int \cup {NotInt}
           Switch(f, k) == k \in DOMAIN f => f[k] \in BOOLEAN
<1>2. ASSUME NEW k \in {"max_tokens", "max_steps"}
      PROVE  Number(d, k)
  <2>1. Number(request.override, k)
    BY ResearchAssumption
  <2>2. Number(patch, k)
    <3>1. CASE request.preset = "deep_research"
      BY <3>1, WorkflowAssumption DEF PresetPatch
    <3>2. CASE request.preset # "deep_research"
      BY <3>2 DEF PresetPatch, Nothing
    <3>3. QED
      BY <3>1, <3>2
  <2>3. Number(ResearchDefault, k)
    BY WorkflowAssumption DEF ResearchDefault
  <2> HIDE DEF patch
  <2>4. Number(m, k)
    BY <2>1, <2>2 DEF DeepMerge
  <2> HIDE DEF m
  <2>5. QED
    BY <2>3, <2>4 DEF DeepMerge
<1>3. ASSUME NEW k \in {"dynamic_planning", "fact_check_critic"}
      PROVE  Switch(d, k)
  <2>1. Switch(request.override, k)
    BY ResearchAssumption
  <2>2. Switch(patch, k)
    <3>1. CASE request.preset = "deep_research"
      <4>1. patch.dynamic_planning = TRUE /\ patch.fact_check_critic = TRUE
        BY <3>1 DEF PresetPatch
      <4> HIDE DEF patch
      <4>2. QED
        BY <4>1
    <3>2. CASE request.preset # "deep_research"
      BY <3>2 DEF PresetPatch, Nothing
    <3>3. QED
      BY <3>1, <3>2
  <2>3. Switch(ResearchDefault, k)
    <3>1. ResearchDefault.dynamic_planning = TRUE /\ ResearchDefault.fact_check_critic = TRUE
      BY DEF ResearchDefault
    <3>2. QED
      BY <3>1
  <2> HIDE DEF patch
  <2>4. Switch(m, k)
    BY <2>1, <2>2 DEF DeepMerge
  <2> HIDE DEF m
  <2>5. QED
    BY <2>3, <2>4 DEF DeepMerge
<1>4. {"max_tokens", "max_steps", "dynamic_planning", "fact_check_critic"} \subseteq DOMAIN d
  BY DEF DeepMerge, ResearchDefault
<1> HIDE DEF d
<1>5. c = [d EXCEPT !.max_tokens = Clamp(@, DefaultTokens), !.max_steps = Clamp(@, DefaultSteps)]
  BY <1>1 DEF Resolve, ApplyCeilings, d, m, patch
<1>6. ASSUME NEW v \in Int \cup {NotInt}, NEW default \in 1 .. Ceiling
      PROVE  Clamp(v, default) \in 1 .. Ceiling
  BY WorkflowAssumption DEF Clamp
<1>7. c.max_tokens \in 1 .. Ceiling /\ c.max_steps \in 1 .. Ceiling
  <2>1. c.max_tokens = Clamp(d["max_tokens"], DefaultTokens)
        /\ c.max_steps = Clamp(d["max_steps"], DefaultSteps)
    BY <1>4, <1>5
  <2>2. d["max_tokens"] \in Int \cup {NotInt} /\ d["max_steps"] \in Int \cup {NotInt}
    BY <1>2, <1>4
  <2>3. QED
    BY <1>6, <2>1, <2>2, WorkflowAssumption
<1>8. c.dynamic_planning \in BOOLEAN
  <2>1. c.dynamic_planning = d["dynamic_planning"]
    BY <1>4, <1>5
  <2>2. QED
    BY <1>3, <1>4, <2>1
<1>9. c.fact_check_critic \in BOOLEAN
  <2>1. c.fact_check_critic = d["fact_check_critic"]
    BY <1>4, <1>5
  <2>2. QED
    BY <1>3, <1>4, <2>1
<1>10. QED
  BY <1>7, <1>8, <1>9, Zenon

-----------------------------------------------------------------------------
(* What the operations on a budget and on a bag keep.                      *)

AllBudgets == Budgets(1 .. Ceiling)

LEMMA BreakerType ==
  ASSUME NEW b \in AllBudgets, NEW l
  PROVE  /\ Breaker(b, l) \in AllBudgets
         /\ Breaker(b, l).tokens = b.tokens /\ Breaker(b, l).max_tokens = b.max_tokens
         /\ b.triggered => Breaker(b, l).triggered
         /\ (b.triggered => b.mode = "fast_fallback") =>
              (Breaker(b, l).triggered => Breaker(b, l).mode = "fast_fallback")
         /\ ~Breaker(b, l).triggered => b.tokens < b.max_tokens
<1>1. CASE ShouldTrip(b, l)
  <2>1. Breaker(b, l) = [b EXCEPT !.mode = "fast_fallback", !.triggered = TRUE]
    BY <1>1 DEF Breaker
  <2>2. [b EXCEPT !.mode = "fast_fallback", !.triggered = TRUE] \in AllBudgets
    BY DEF AllBudgets, Budgets
  <2>3. /\ Breaker(b, l).tokens = b.tokens /\ Breaker(b, l).max_tokens = b.max_tokens
        /\ Breaker(b, l).triggered /\ Breaker(b, l).mode = "fast_fallback"
    BY <2>1 DEF AllBudgets, Budgets
  <2>4. QED
    BY <2>1, <2>2, <2>3
<1>2. CASE ~ShouldTrip(b, l)
  <2>1. Breaker(b, l) = b
    BY <1>2 DEF Breaker
  <2>2. b.tokens < b.max_tokens
    BY <1>2 DEF ShouldTrip, AllBudgets, Budgets
  <2>3. QED
    BY <2>1, <2>2
<1>3. QED
  BY <1>1, <1>2

LEMMA RecordTokensType ==
  ASSUME NEW b \in AllBudgets, NEW n \in Nat
  PROVE  /\ RecordTokens(b, n) \in AllBudgets
         /\ RecordTokens(b, n).max_tokens = b.max_tokens
         /\ RecordTokens(b, n).tokens =< b.tokens + n
         /\ RecordTokens(b, n).mode = b.mode
         /\ RecordTokens(b, n).triggered = b.triggered
<1> DEFINE t == UpTo(b.tokens + n, b.max_tokens + Overrun)
<1>1. b.tokens \in Nat /\ b.max_tokens \in Nat
  BY WorkflowAssumption DEF AllBudgets, Budgets
<1>2. t \in Nat /\ t =< b.tokens + n
  BY <1>1, BudgetAssumption DEF UpTo
<1>3. RecordTokens(b, n) = [b EXCEPT !.tokens = t]
  BY DEF RecordTokens
<1> HIDE DEF t
<1>4. [b EXCEPT !.tokens = t] \in AllBudgets
  BY <1>2 DEF AllBudgets, Budgets
<1>5. RecordTokens(b, n).tokens = t /\ RecordTokens(b, n).max_tokens = b.max_tokens
      /\ RecordTokens(b, n).mode = b.mode
  BY <1>3 DEF AllBudgets, Budgets
<1>6. RecordTokens(b, n).triggered = b.triggered
  BY <1>3 DEF AllBudgets, Budgets
<1>7. QED
  BY <1>2, <1>3, <1>4, <1>5, <1>6

LEMMA RecordStepType ==
  ASSUME NEW b \in AllBudgets
  PROVE  /\ RecordStep(b) \in AllBudgets
         /\ RecordStep(b).max_tokens = b.max_tokens /\ RecordStep(b).tokens = b.tokens
         /\ RecordStep(b).mode = b.mode
         /\ RecordStep(b).triggered = b.triggered
<1> DEFINE t == UpTo(b.steps + 1, b.max_steps)
<1>1. b.steps \in Nat /\ b.max_steps \in Nat
  BY WorkflowAssumption DEF AllBudgets, Budgets
<1>2. t \in Nat
  BY <1>1 DEF UpTo
<1>3. RecordStep(b) = [b EXCEPT !.steps = t]
  BY DEF RecordStep
<1> HIDE DEF t
<1>4. [b EXCEPT !.steps = t] \in AllBudgets
  BY <1>2 DEF AllBudgets, Budgets
<1>5. RecordStep(b).tokens = b.tokens /\ RecordStep(b).max_tokens = b.max_tokens
      /\ RecordStep(b).mode = b.mode
  BY <1>3 DEF AllBudgets, Budgets
<1>6. RecordStep(b).triggered = b.triggered
  BY <1>3 DEF AllBudgets, Budgets
<1>7. QED
  BY <1>3, <1>4, <1>5, <1>6

\* A bag with another budget in it.
LEMMA WithBudget ==
  ASSUME NEW w \in Bags, NEW b \in AllBudgets
  PROVE  /\ [w EXCEPT !.budget = b] \in Bags
         /\ [w EXCEPT !.budget = b].budget = b
         /\ [w EXCEPT !.budget = b].plan = w.plan
  BY DEF Bags, AllBudgets

\* After the breaker has been asked: what it leaves alone, and what it cannot undo.
LEMMA Broken ==
  ASSUME NEW w \in Bags, Tripped(w), NEW l
  PROVE  LET v == [w EXCEPT !.budget = Breaker(@, l)]
         IN  /\ v \in Bags /\ Tripped(v)
             /\ w.budget.triggered => v.budget.triggered
             /\ v.budget.max_tokens = w.budget.max_tokens
             /\ ~v.budget.triggered => v.budget.tokens < v.budget.max_tokens
<1>1. w.budget \in AllBudgets
  BY DEF Bags, AllBudgets
<1> DEFINE b == Breaker(w.budget, l)
           v == [w EXCEPT !.budget = b]
<1>2. /\ b \in AllBudgets /\ b.tokens = w.budget.tokens
      /\ b.max_tokens = w.budget.max_tokens
      /\ w.budget.triggered => b.triggered
      /\ b.triggered => b.mode = "fast_fallback"
      /\ ~b.triggered => w.budget.tokens < w.budget.max_tokens
  BY <1>1, BreakerType DEF Tripped
<1>3. v = [w EXCEPT !.budget = Breaker(@, l)]
  OBVIOUS
<1> HIDE DEF b
<1>4. v \in Bags /\ v.budget = b
  BY <1>2, WithBudget
<1> HIDE DEF v
<1>5. Tripped(v)
  BY <1>2, <1>4 DEF Tripped
<1>6. QED
  BY <1>2, <1>3, <1>4, <1>5

\* A call of the model is paid for.
LEMMA Spent ==
  ASSUME NEW w \in Bags, Tripped(w), NEW cost \in CallCosts
  PROVE  /\ Spend(w, cost) \in Bags /\ Tripped(Spend(w, cost))
         /\ Spend(w, cost).budget.triggered = w.budget.triggered
         /\ Spend(w, cost).budget.max_tokens = w.budget.max_tokens
         /\ Spend(w, cost).budget.tokens =< w.budget.tokens + cost
         /\ Spend(w, cost).plan = w.plan
<1>1. w.budget \in AllBudgets /\ cost \in Nat
  BY ReactAssumption DEF Bags, AllBudgets
<1> DEFINE b == RecordTokens(w.budget, cost)
<1>2. /\ b \in AllBudgets /\ b.tokens =< w.budget.tokens + cost
      /\ b.max_tokens = w.budget.max_tokens
      /\ b.mode = w.budget.mode /\ b.triggered = w.budget.triggered
  BY <1>1, RecordTokensType
<1>3. Spend(w, cost) = [w EXCEPT !.budget = b]
  BY DEF Spend
<1> HIDE DEF b
<1>4. Spend(w, cost) \in Bags /\ Spend(w, cost).budget = b /\ Spend(w, cost).plan = w.plan
  BY <1>2, <1>3, WithBudget
<1>5. Tripped(Spend(w, cost))
  BY <1>2, <1>4 DEF Tripped
<1>6. QED
  BY <1>2, <1>4, <1>5

\* A tool call takes a step.
LEMMA Stepping ==
  ASSUME NEW w \in Bags, Tripped(w)
  PROVE  LET v == [w EXCEPT !.budget = RecordStep(@)]
         IN  /\ v \in Bags /\ Tripped(v)
             /\ v.budget.triggered = w.budget.triggered
             /\ v.budget.max_tokens = w.budget.max_tokens
             /\ v.budget.tokens = w.budget.tokens
<1>1. w.budget \in AllBudgets
  BY DEF Bags, AllBudgets
<1> DEFINE b == RecordStep(w.budget)
           v == [w EXCEPT !.budget = b]
<1>2. /\ b \in AllBudgets /\ b.tokens = w.budget.tokens
      /\ b.max_tokens = w.budget.max_tokens
      /\ b.mode = w.budget.mode /\ b.triggered = w.budget.triggered
  BY <1>1, RecordStepType
<1>3. v = [w EXCEPT !.budget = RecordStep(@)]
  OBVIOUS
<1> HIDE DEF b
<1>4. v \in Bags /\ v.budget = b
  BY <1>2, WithBudget
<1> HIDE DEF v
<1>5. Tripped(v)
  BY <1>2, <1>4 DEF Tripped
<1>6. QED
  BY <1>2, <1>3, <1>4, <1>5

\* The end of a pass leaves the budget alone.
LEMMA FinalType ==
  ASSUME NEW w \in Bags, NEW brief \in Briefs
  PROVE  /\ ApplyPayload(w, brief) \in Bags /\ ApplyPayload(w, brief).budget = w.budget
         /\ FinalPayload(w, brief) \in Bags /\ FinalPayload(w, brief).budget = w.budget
<1>1. ASSUME NEW x \in Briefs
      PROVE  ApplyPayload(w, x) \in Bags /\ ApplyPayload(w, x).budget = w.budget
  BY DEF ApplyPayload, Bags, Briefs, NoBrief
<1>2. w.plan.brief \in Briefs
  BY DEF Bags
<1>3. QED
  BY <1>1, <1>2 DEF FinalPayload

LEMMA SynthesizeType ==
  ASSUME NEW w \in Bags, NEW own \in BOOLEAN
  PROVE  Synthesize(w, own) \in Bags /\ Synthesize(w, own).budget = w.budget
<1> DEFINE brief == IF own \/ w.brief = NoBrief THEN "synthesis" ELSE w.brief
<1>1. brief \in Briefs
  BY DEF Bags, Briefs
<1>2. Synthesize(w, own) =
        [w EXCEPT !.plan = [set |-> TRUE, brief |-> brief], !.brief = brief, !.done = TRUE]
  BY DEF Synthesize
<1> HIDE DEF brief
<1> DEFINE plan == [set |-> TRUE, brief |-> brief]
<1>3. plan \in [set : BOOLEAN, brief : Briefs]
  BY <1>1
<1> HIDE DEF plan
<1>4. [w EXCEPT !.plan = plan, !.brief = brief, !.done = TRUE] \in Bags
      /\ [w EXCEPT !.plan = plan, !.brief = brief, !.done = TRUE].budget = w.budget
  BY <1>1, <1>3 DEF Bags
<1>5. QED
  BY <1>2, <1>4 DEF plan

-----------------------------------------------------------------------------
(* The turns of the tool loop.                                             *)

LoopFit == loop \in Loops /\ work \in Bags /\ Tripped(work) /\ LoopInv

\* What a turn leaves: the same agent, in the loop or at the end of it.
LoopKept == loop'.pc \in {"turn", "final"} /\ LoopFit'

\* Within one call's costs of the limit.
Near(w) == \E cost \in CallCosts : w.budget.tokens =< w.budget.max_tokens + cost

LEMMA AtTurn ==
  ASSUME LoopFit, loop.pc = "turn"
  PROVE  /\ loop.calls \in Nat /\ loop.invoked \in Nat /\ loop.iter \in Nat
         /\ loop.caps \in Caps /\ loop.caps.calls \in Nat
         /\ loop.calls < loop.caps.calls /\ loop.invoked =< loop.calls
         /\ work.budget.tokens \in Nat /\ work.budget.max_tokens \in Nat
         /\ work.budget.tokens =< work.budget.max_tokens
<1>1. loop.calls \in Nat /\ loop.invoked \in Nat /\ loop.iter \in Nat /\ loop.caps \in Caps
  BY DEF LoopFit, Loops
<1>2. loop.caps.calls \in Nat
  BY <1>1, ReactAssumption
<1>3. work.budget \in AllBudgets
  BY DEF LoopFit, Bags, AllBudgets
<1>4. work.budget.tokens \in Nat /\ work.budget.max_tokens \in Nat
  BY <1>3, WorkflowAssumption DEF AllBudgets, Budgets
<1>5. QED
  BY <1>1, <1>2, <1>4 DEF LoopFit, LoopInv

LEMMA NearWork ==
  ASSUME LoopFit, loop.pc = "turn"
  PROVE  Near(work) /\ \A cost \in CallCosts : Near(Spend(work, cost))
<1>1. work \in Bags /\ Tripped(work)
  BY DEF LoopFit
<1>2. PICK c \in CallCosts : c \in Nat
  BY ReactAssumption
<1>3. Near(work)
  BY <1>2, AtTurn DEF Near
<1>4. ASSUME NEW cost \in CallCosts
      PROVE  Near(Spend(work, cost))
  <2> DEFINE w == Spend(work, cost)
  <2>1. /\ w \in Bags /\ w.budget.max_tokens = work.budget.max_tokens
        /\ w.budget.tokens =< work.budget.tokens + cost
    BY <1>1, Spent
  <2> HIDE DEF w
  <2>2. w.budget.tokens \in Nat /\ cost \in Nat
    BY <2>1, ReactAssumption DEF Bags, Budgets
  <2>3. QED
    BY <2>1, <2>2, AtTurn DEF Near, w
<1>5. QED
  BY <1>3, <1>4

\* The end of a pass, reached with at most as many calls as the cap allows.
LEMMA Ending ==
  ASSUME LoopFit, loop.pc = "turn",
         loop' \in Loops, loop'.pc = "final", loop'.invoked =< loop'.caps.calls,
         NEW w \in Bags, Tripped(w), Near(w),
         work' \in Bags, work'.budget = w.budget
  PROVE  LoopKept
<1>1. Tripped(work')
  BY DEF Tripped
<1>2. Near(work')
  BY DEF Near
<1>3. QED
  BY <1>1, <1>2 DEF LoopKept, LoopFit, LoopInv, Near, Tripped

LEMMA EndWithKeeps ==
  ASSUME LoopFit, loop.pc = "turn", NEW w \in Bags, Tripped(w), Near(w),
         NEW brief \in Briefs, EndWith(w, brief)
  PROVE  LoopKept
<1>1. loop \in Loops
  BY DEF LoopFit
<1>2. /\ loop' \in Loops /\ loop'.pc = "final"
      /\ loop'.invoked = loop.invoked /\ loop'.caps = loop.caps
  BY <1>1 DEF EndWith, Loops, Briefs
<1>3. work' \in Bags /\ work'.budget = w.budget
  BY FinalType DEF EndWith
<1>4. loop'.invoked =< loop'.caps.calls
  BY <1>2, AtTurn
<1>5. QED
  BY <1>2, <1>3, <1>4, Ending

LEMMA EndBySynthesisKeeps ==
  ASSUME LoopFit, loop.pc = "turn", NEW w \in Bags, Tripped(w), Near(w),
         NEW own \in BOOLEAN, EndBySynthesis(w, own)
  PROVE  LoopKept
<1>1. loop \in Loops
  BY DEF LoopFit
<1>2. /\ loop' \in Loops /\ loop'.pc = "final"
      /\ loop'.invoked = loop.invoked + 1 /\ loop'.caps = loop.caps
  <2> DEFINE c == loop.calls + 1
             i == loop.invoked + 1
             o == IF own THEN "synthesis" ELSE NoBrief
  <2>1. c \in Nat /\ i \in Nat /\ o \in Briefs
    BY AtTurn DEF Briefs
  <2>2. loop' = [loop EXCEPT !.pc = "final", !.calls = c, !.invoked = i, !.own = o]
    BY DEF EndBySynthesis
  <2> HIDE DEF c, i, o
  <2>3. loop' \in Loops /\ loop'.pc = "final" /\ loop'.invoked = i /\ loop'.caps = loop.caps
    BY <1>1, <2>1, <2>2 DEF Loops
  <2>4. QED
    BY <2>3 DEF i
<1> DEFINE s == Synthesize(w, own)
           v == [s EXCEPT !.budget = RecordStep(@)]
<1>3. s \in Bags /\ s.budget = w.budget
  BY SynthesizeType
<1> HIDE DEF s
<1>4. Tripped(s)
  BY <1>3 DEF Tripped
<1>5. /\ v \in Bags /\ Tripped(v)
      /\ v.budget.max_tokens = w.budget.max_tokens /\ v.budget.tokens = w.budget.tokens
  BY <1>3, <1>4, Stepping
<1>6. work' = FinalPayload(v, NoBrief)
  BY DEF EndBySynthesis, s
<1> HIDE DEF v
<1>7. work' \in Bags /\ work'.budget = v.budget
  BY <1>5, <1>6, FinalType DEF Briefs
<1>8. Near(v)
  BY <1>5 DEF Near
<1>9. loop'.invoked =< loop'.caps.calls
  BY <1>2, AtTurn
<1>10. QED
  BY <1>2, <1>5, <1>7, <1>8, <1>9, Ending

\* The step of a tool that is called: one more call, and one more is still left.
LEMMA UseToolKeeps ==
  ASSUME LoopFit, loop.pc = "turn", NEW cost \in CallCosts, NEW known \in BOOLEAN,
         UseTool(cost, late, known)
  PROVE  LoopKept
<1> DEFINE c == loop.calls + 1
           n == loop.iter + 1
           i == IF known THEN loop.invoked + 1 ELSE loop.invoked
           w == Spend(work, cost)
<1>1. loop \in Loops /\ work \in Bags /\ Tripped(work)
  BY DEF LoopFit
<1>2. c \in Nat /\ n \in Nat /\ i \in Nat /\ i =< c /\ c < loop.caps.calls
  <2>1. Remaining > 1
    BY DEF UseTool
  <2>2. QED
    BY <2>1, AtTurn DEF Remaining
<1>3. loop' = [loop EXCEPT !.iter = n, !.calls = c, !.invoked = i]
  BY DEF UseTool
<1> HIDE DEF c, n, i
<1>4. /\ loop' \in Loops /\ loop'.pc = "turn" /\ loop'.calls = c /\ loop'.invoked = i
      /\ loop'.caps = loop.caps
  BY <1>1, <1>2, <1>3 DEF Loops
<1>5. w \in Bags /\ Tripped(w) /\ w.budget.tokens =< w.budget.max_tokens
  <2>1. CanAfford(Spend(work, cost).budget, late)
    BY DEF UseTool
  <2>2. w.budget.tokens =< w.budget.max_tokens
    BY <2>1 DEF CanAfford
  <2>3. QED
    BY <1>1, <2>2, Spent
<1>6. work' = [w EXCEPT !.budget = RecordStep(@)]
  BY DEF UseTool
<1> HIDE DEF w
<1>7. /\ work' \in Bags /\ Tripped(work')
      /\ work'.budget.tokens =< work'.budget.max_tokens
  BY <1>5, <1>6, Stepping
<1>8. LoopInv'
  BY <1>2, <1>4, <1>7 DEF LoopInv
<1>9. Tripped(work)'
  BY <1>7 DEF Tripped
<1>10. QED
  BY <1>4, <1>7, <1>8, <1>9 DEF LoopKept, LoopFit

LEMMA IterationsOverKeeps ==
  ASSUME LoopFit, IterationsOver
  PROVE  LoopKept
<1>1. loop.pc = "turn" /\ loop \in Loops /\ work \in Bags /\ Tripped(work)
  BY DEF LoopFit, IterationsOver
<1>2. Near(work)
  BY <1>1, NearWork
<1>3. CASE work.done
  <2>1. EndWith(work, NoBrief)
    BY <1>3 DEF IterationsOver
  <2>2. QED
    BY <1>1, <1>2, <2>1, EndWithKeeps DEF Briefs
<1>4. CASE ~work.done
  <2> DEFINE i == loop.invoked + 1
             s == Synthesize(work, FALSE)
  <2>1. loop' = [loop EXCEPT !.pc = "final", !.invoked = i] /\ work' = FinalPayload(s, NoBrief)
    BY <1>4 DEF IterationsOver
  <2>2. i \in Nat /\ i =< loop.caps.calls
    BY <1>1, AtTurn
  <2> HIDE DEF i
  <2>3. loop' \in Loops /\ loop'.pc = "final" /\ loop'.invoked =< loop'.caps.calls
    BY <1>1, <2>1, <2>2 DEF Loops
  <2>4. s \in Bags /\ s.budget = work.budget
    BY <1>1, SynthesizeType
  <2> HIDE DEF s
  <2>5. work' \in Bags /\ work'.budget = work.budget
    BY <2>1, <2>4, FinalType DEF Briefs
  <2>6. QED
    BY <1>1, <1>2, <2>3, <2>5, Ending
<1>5. QED
  BY <1>3, <1>4

\* Every turn keeps the loop's limits.
LEMMA LoopStepKeeps ==
  ASSUME LoopFit, LoopStep(late)
  PROVE  LoopKept
<1>1. loop.pc = "turn"
  BY DEF LoopStep, ForceSynthesis, StopUnaffordable, IterationsOver, UseTool, RefuseTool,
         ReplaceTool, CallSynthesize, Answer, AskModel, Turn
<1>2. work \in Bags /\ Tripped(work) /\ Near(work)
  BY <1>1, NearWork DEF LoopFit
<1>3. ASSUME NEW cost \in CallCosts
      PROVE  Spend(work, cost) \in Bags /\ Tripped(Spend(work, cost)) /\ Near(Spend(work, cost))
  BY <1>1, <1>2, NearWork, Spent
<1>4. CASE ForceSynthesis
  BY <1>1, <1>2, <1>4, EndBySynthesisKeeps DEF ForceSynthesis
<1>5. CASE StopUnaffordable(late)
  BY <1>1, <1>2, <1>5, EndBySynthesisKeeps, EndWithKeeps DEF StopUnaffordable, Briefs
<1>6. CASE IterationsOver
  BY <1>6, IterationsOverKeeps
<1>7. ASSUME NEW cost \in CallCosts, NEW known \in BOOLEAN, UseTool(cost, late, known)
      PROVE  LoopKept
  BY <1>1, <1>7, UseToolKeeps
<1>8. ASSUME NEW cost \in CallCosts, RefuseTool(cost, late)
      PROVE  LoopKept
  BY <1>1, <1>3, <1>8, EndBySynthesisKeeps, EndWithKeeps DEF RefuseTool, Briefs
<1>9. ASSUME NEW cost \in CallCosts, ReplaceTool(cost, late)
      PROVE  LoopKept
  BY <1>1, <1>3, <1>9, EndBySynthesisKeeps DEF ReplaceTool
<1>10. ASSUME NEW cost \in CallCosts, NEW own \in BOOLEAN, CallSynthesize(cost, late, own)
       PROVE  LoopKept
  BY <1>1, <1>3, <1>10, EndBySynthesisKeeps DEF CallSynthesize
<1>11. ASSUME NEW cost \in CallCosts, NEW own \in BOOLEAN, Answer(cost, late, own)
       PROVE  LoopKept
  <2> DEFINE brief == IF own THEN "answer" ELSE NoBrief
  <2>1. EndWith(Spend(work, cost), brief) /\ brief \in Briefs
    BY <1>11 DEF Answer, Briefs
  <2> HIDE DEF brief
  <2>2. QED
    BY <1>1, <1>3, <2>1, EndWithKeeps
<1>12. QED
  BY <1>4, <1>5, <1>6, <1>7, <1>8, <1>9, <1>10, <1>11 DEF LoopStep

-----------------------------------------------------------------------------
(* What a node's result changes in the run.                                *)

LEMMA AgentNodesAre ==
  AgentNodes = {"planner", "knowledge_lookup", "researcher", "writer", "source_guard",
                "critic", "deliver", "human_approve"}
  BY DEF AgentNodes, Static

\* The fields the gates look at.
SameRun(r, s) ==
  /\ r.status = s.status /\ r.node = s.node /\ r.config = s.config
  /\ r.queue = s.queue /\ r.plan = s.plan /\ r.score = s.score
  /\ r.draft = s.draft /\ r.guarded = s.guarded /\ r.approved = s.approved

LEMMA ResultFields ==
  ASSUME run \in Runs, NEW bag \in Bags, Tripped(bag)
  PROVE  /\ Result(bag) \in Runs /\ Result(bag).pc = "route" /\ SameRun(Result(bag), run)
         /\ Tripped(Result(bag).bag)
         /\ bag.budget.triggered => Result(bag).bag.budget.triggered
<1> DEFINE v == [bag EXCEPT !.budget = Breaker(@, late)]
<1>1. /\ v \in Bags /\ Tripped(v)
      /\ bag.budget.triggered => v.budget.triggered
  BY Broken
<1>2. Result(bag) = [run EXCEPT !.pc = "route", !.bag = v]
  BY DEF Result
<1> HIDE DEF v
<1>3. Result(bag) \in Runs /\ Result(bag).pc = "route"
  BY <1>1, <1>2 DEF Runs
<1>4. Result(bag).bag = v
  BY <1>2 DEF Runs
<1>5. SameRun(Result(bag), run)
  BY <1>2 DEF Runs, SameRun
<1>6. QED
  BY <1>1, <1>3, <1>4, <1>5

LEMMA BagFields ==
  ASSUME Typed, BreakerInv
  PROVE  /\ run \in Runs /\ run.bag \in Bags
         /\ Bag \in Bags /\ Tripped(Bag)
         /\ run.bag.budget.triggered => Bag.budget.triggered
         /\ ~Bag.budget.triggered => Bag.budget.tokens < Bag.budget.max_tokens
<1>1. run \in Runs /\ run.bag \in Bags /\ Tripped(run.bag)
  BY DEF Typed, BreakerInv, Runs
<1>2. QED
  BY <1>1, Broken DEF Bag

\* The result of a tool, and of a call of the model.
LEMMA ToolResultFields ==
  ASSUME Typed, BreakerInv
  PROVE  /\ ToolResult \in Runs /\ ToolResult.pc = "route" /\ SameRun(ToolResult, run)
         /\ Tripped(ToolResult.bag)
         /\ run.bag.budget.triggered => ToolResult.bag.budget.triggered
<1> DEFINE v == [Bag EXCEPT !.budget = RecordStep(@)]
<1>1. run \in Runs /\ Bag \in Bags /\ Tripped(Bag)
      /\ (run.bag.budget.triggered => Bag.budget.triggered)
  BY BagFields
<1>2. v \in Bags /\ Tripped(v) /\ v.budget.triggered = Bag.budget.triggered
  <2> HIDE DEF Bag
  <2>1. QED
    BY <1>1, Stepping
<1>3. ToolResult = Result(v)
  BY DEF ToolResult
<1> HIDE DEF v
<1>4. QED
  BY <1>1, <1>2, <1>3, ResultFields

LEMMA SpentResultFields ==
  ASSUME Typed, BreakerInv, NEW cost \in CallCosts
  PROVE  LET r == Result(Spend(Bag, cost))
         IN  /\ r \in Runs /\ r.pc = "route" /\ SameRun(r, run) /\ Tripped(r.bag)
             /\ run.bag.budget.triggered => r.bag.budget.triggered
<1> DEFINE v == Spend(Bag, cost)
<1>1. run \in Runs /\ Bag \in Bags /\ Tripped(Bag)
      /\ (run.bag.budget.triggered => Bag.budget.triggered)
  BY BagFields
<1>2. v \in Bags /\ Tripped(v) /\ v.budget.triggered = Bag.budget.triggered
  <2> HIDE DEF Bag
  <2>1. QED
    BY <1>1, Spent
<1> HIDE DEF v
<1>3. QED
  BY <1>1, <1>2, ResultFields DEF v

-----------------------------------------------------------------------------
(* The steps, in groups that keep the parts of the invariant alike.        *)

Base == Typed /\ LoopInv /\ BreakerInv
Gates == JudgeInv /\ GuardInv /\ WriteInv

\* What BreakerIsFinal says of a step.
BreakerStays ==
  run.bag.budget.triggered =>
    /\ InFastFallback(run'.bag.budget) /\ run'.bag.budget.mode = "fast_fallback"
    /\ run'.bag.budget.triggered
    /\ loop'.invoked =< loop.invoked

\* A step outside the tool loop.
LEMMA OutsideKeeps ==
  ASSUME Base, run.pc # "loop", UNCHANGED <<loop, work>>, late' \in BOOLEAN,
         run' \in Runs, run'.pc # "loop", hist' \in Hists, Tripped(run'.bag),
         run.bag.budget.triggered => run'.bag.budget.triggered
  PROVE  Base' /\ BreakerStays
<1>1. Typed'
  BY DEF Base, Typed
<1>2. LoopInv'
  BY DEF Base, LoopInv
<1>3. BreakerInv'
  BY DEF Base, BreakerInv, Tripped
<1>4. loop.invoked \in Nat
  BY DEF Base, Typed, Loops
<1>5. BreakerStays
  BY <1>4 DEF BreakerStays, InFastFallback, Tripped
<1>6. QED
  BY <1>1, <1>2, <1>3, <1>5 DEF Base

\* A step of a node's turn that changes nothing the gates look at.
SameVerdict ==
  /\ hist'.judged = hist.judged /\ hist'.own = hist.own /\ hist'.signed = hist.signed
  /\ hist'.overruled = hist.overruled /\ hist'.contradicted = hist.contradicted
  /\ hist'.delivered = hist.delivered

LEMMA PassingKeeps ==
  ASSUME Gates, run \in Runs, SameRun(run', run),
         run.node \notin {"critic", "writer", "source_guard"},
         UNCHANGED hist \/ SameVerdict
  PROVE  Gates'
<1> SameVerdict
  BY DEF SameVerdict
<1>1. JudgeInv'
  BY DEF Gates, JudgeInv, AtVerdict, Older, SameRun, SameVerdict
<1>2. GuardInv'
  BY DEF Gates, GuardInv, SameRun
<1>3. WriteInv'
  BY DEF Gates, WriteInv, SameRun
<1>4. QED
  BY <1>1, <1>2, <1>3 DEF Gates

-----------------------------------------------------------------------------
(* The planner.                                                            *)

Kept == Base' /\ Gates' /\ BreakerStays

LEMMA WithMode ==
  ASSUME NEW w \in Bags, NEW m \in {"agentic", "fast_fallback"},
         w.budget.triggered => m = "fast_fallback"
  PROVE  LET v == [w EXCEPT !.budget.mode = m]
         IN  v \in Bags /\ Tripped(v) /\ v.budget.triggered = w.budget.triggered
<1> DEFINE b == [w.budget EXCEPT !.mode = m]
           v == [w EXCEPT !.budget = b]
<1>1. w.budget \in AllBudgets
  BY DEF Bags, AllBudgets
<1>2. b \in AllBudgets /\ b.mode = m
  BY <1>1 DEF AllBudgets, Budgets
<1>3. b.triggered = w.budget.triggered
  BY <1>1 DEF AllBudgets, Budgets
<1>4. v = [w EXCEPT !.budget.mode = m]
  OBVIOUS
<1> HIDE DEF b
<1>5. v \in Bags /\ v.budget = b
  BY <1>2, WithBudget
<1> HIDE DEF v
<1>6. Tripped(v)
  BY <1>2, <1>3, <1>5 DEF Tripped
<1>7. QED
  BY <1>3, <1>4, <1>5, <1>6

\* The gates when the planner has made a plan, or none was made and the queue is empty.
LEMMA PlannedKeeps ==
  ASSUME Gates, run \in Runs, run' \in Runs, run.node = "planner",
         run'.node = "planner" \/ (run'.node = "knowledge_lookup" /\ run'.queue = <<>>),
         run'.config = run.config, run'.draft = run.draft, run'.guarded = run.guarded,
         run'.score = run.score, run'.approved = run.approved, run'.status = "RUNNING",
         run.config.fact_check_critic => FollowedByGuard(run'.queue),
         run'.queue # <<>> /\ (\E i \in DOMAIN run'.plan : run'.plan[i] = "write") =>
           HasWriter(run'.queue),
         UNCHANGED hist
  PROVE  Gates'
<1>1. JudgeInv'
  BY DEF Gates, JudgeInv, AtVerdict, Older
<1>2. GuardInv'
  BY DEF Gates, GuardInv
<1>3. WriteInv'
  BY DEF Gates, WriteInv, BeforeWriter
<1>4. QED
  BY <1>1, <1>2, <1>3 DEF Gates

LEMMA PlannerKeeps ==
  ASSUME Base, Gates, NEW cost \in CallCosts, NEW answer \in PlanAnswers, Planner(answer, cost)
  PROVE  Kept
<1>0. Typed /\ BreakerInv /\ run \in Runs
  BY DEF Base, Typed
<1> DEFINE r == Result(Spend(Bag, cost))
           plan == PlanOf(answer, run.plan)
           mode == ModeOf(answer, r.bag.budget.triggered)
           bag == [r.bag EXCEPT !.budget.mode = mode]
           queue == IF run.config.dynamic_planning
                    THEN ExpandPlanToNodes(plan, run.config.fact_check_critic) ELSE <<>>
           guard == run.config.fact_check_critic
<1>1. /\ r \in Runs /\ r.pc = "route" /\ SameRun(r, run) /\ Tripped(r.bag)
      /\ run.bag.budget.triggered => r.bag.budget.triggered
  BY <1>0, SpentResultFields
<1>2. plan \in Seq(StepTypes)
  <2>1. run.plan \in Seq(StepTypes)
    BY <1>0 DEF Runs, StepTypes
  <2>2. answer \in Answers(Seq(STRING))
    BY ResearchAssumption
  <2>3. QED
    BY <2>1, <2>2, PlanType
<1>3. run.config \in Configs /\ guard \in BOOLEAN /\ run.config.dynamic_planning \in BOOLEAN
  <2>1. run.config \in Configs
    BY <1>0 DEF Runs
  <2>2. QED
    BY <2>1, ConfigType
<1> HIDE DEF plan, guard
<1>4. /\ queue \in Seq(PlanNodes)
      /\ guard => FollowedByGuard(queue)
      /\ queue # <<>> /\ (\E i \in DOMAIN plan : plan[i] = "write") => HasWriter(queue)
  <2>1. CASE run.config.dynamic_planning
    <3>1. queue = ExpandPlanToNodes(plan, guard)
      BY <2>1 DEF guard
    <3> HIDE DEF queue
    <3>2. QED
      BY <1>2, <1>3, <3>1, Expanded
  <2>2. CASE ~run.config.dynamic_planning
    <3>1. queue = <<>>
      BY <2>2
    <3> HIDE DEF queue
    <3>2. queue \in Seq(PlanNodes) /\ Len(queue) = 0
      BY <3>1, EmptySeq
    <3>3. QED
      BY <3>1, <3>2 DEF FollowedByGuard
  <2>3. QED
    BY <2>1, <2>2
<1>5. queue \in Seq(PlanNodes)
  BY <1>4
<1>6. bag \in Bags /\ Tripped(bag) /\ bag.budget.triggered = r.bag.budget.triggered
  <2>1. mode \in {"agentic", "fast_fallback"}
        /\ (r.bag.budget.triggered => mode = "fast_fallback")
    BY DEF ModeOf
  <2>2. r.bag \in Bags
    BY <1>1 DEF Runs
  <2> HIDE DEF mode, r
  <2>3. QED
    BY <2>1, <2>2, WithMode
<1>7. run' = [r EXCEPT !.plan = plan, !.bag = bag, !.dynamic = run.config.dynamic_planning,
                       !.queue = queue]
  BY <1>1 DEF Planner, plan, Runs
<1>8. run.node = "planner" /\ run.status = "RUNNING" /\ run.pc = "node"
      /\ UNCHANGED <<late, crashes, loop, work, hist>>
  BY DEF Planner, At, Outside
<1> HIDE DEF r, bag, queue
<1>9. run' \in Runs /\ run'.bag = bag /\ run'.pc = "route"
  <2> DEFINE dynamic == run.config.dynamic_planning
  <2>1. dynamic \in BOOLEAN
    BY <1>3
  <2>2. run' = [r EXCEPT !.plan = plan, !.bag = bag, !.dynamic = dynamic, !.queue = queue]
    BY <1>7
  <2> HIDE DEF dynamic
  <2>3. QED
    BY <1>1, <1>2, <1>5, <1>6, <2>1, <2>2 DEF Runs, StepTypes
<1>10. Base' /\ BreakerStays
  <2>1. run.bag.budget.triggered => run'.bag.budget.triggered
    BY <1>1, <1>6, <1>9
  <2>2. late' \in BOOLEAN /\ hist' \in Hists
    BY <1>0, <1>8 DEF Typed
  <2>3. Tripped(run'.bag)
    BY <1>6, <1>9
  <2>4. QED
    BY <1>8, <1>9, <2>1, <2>2, <2>3, OutsideKeeps
<1>11. /\ run'.node = "planner" /\ run'.config = run.config /\ run'.status = "RUNNING"
       /\ run'.queue = queue /\ run'.plan = plan /\ run'.score = run.score
  BY <1>1, <1>7, <1>8 DEF Runs, SameRun
<1>12. run'.draft = run.draft /\ run'.guarded = run.guarded /\ run'.approved = run.approved
  BY <1>1, <1>7 DEF Runs, SameRun
<1>13. Gates'
  BY <1>0, <1>4, <1>8, <1>9, <1>11, <1>12, PlannedKeeps DEF guard
<1>14. QED
  BY <1>10, <1>13 DEF Kept

LEMMA PlannerFailsKeeps ==
  ASSUME Base, Gates, PlannerFails
  PROVE  Kept
<1>0. Typed /\ BreakerInv /\ run \in Runs
  BY DEF Base, Typed
<1> DEFINE bag == [Bag EXCEPT !.budget.mode = "fast_fallback"]
<1>1. Bag \in Bags /\ (run.bag.budget.triggered => Bag.budget.triggered)
  BY <1>0, BagFields
<1>2. bag \in Bags /\ Tripped(bag) /\ bag.budget.triggered = Bag.budget.triggered
  <2> HIDE DEF Bag
  <2>1. QED
    BY <1>1, WithMode
<1>3. run.node = "planner" /\ run.status = "RUNNING" /\ run.pc = "node"
      /\ UNCHANGED <<late, crashes, loop, work, hist>>
  BY DEF PlannerFails, At, Outside
<1>4. run' = [run EXCEPT !.node = "knowledge_lookup", !.bag = bag, !.plan = DefaultPlan,
                         !.dynamic = FALSE, !.queue = <<>>]
  BY <1>0 DEF PlannerFails, Static, Runs
<1> HIDE DEF bag, Bag
<1>5. run' \in Runs /\ run'.bag = bag /\ run'.pc = "node"
  <2>1. DefaultPlan \in Seq(DOMAIN PlanTypeToNode)
    BY DEF DefaultPlan, PlanTypeToNode
  <2>2. <<>> \in Seq(PlanNodes) /\ "knowledge_lookup" \in AgentNodes
    BY EmptySeq, AgentNodesAre
  <2>3. QED
    BY <1>0, <1>2, <1>3, <1>4, <2>1, <2>2 DEF Runs
<1>6. Base' /\ BreakerStays
  <2>1. late' \in BOOLEAN /\ hist' \in Hists
    BY <1>0, <1>3 DEF Typed
  <2>2. run.bag.budget.triggered => run'.bag.budget.triggered
    BY <1>1, <1>2, <1>5
  <2>3. QED
    BY <1>2, <1>3, <1>5, <2>1, <2>2, OutsideKeeps
<1>7. /\ run'.node = "knowledge_lookup" /\ run'.queue = <<>> /\ run'.config = run.config
      /\ run'.score = run.score /\ run'.status = "RUNNING"
  BY <1>0, <1>3, <1>4 DEF Runs
<1>8. run'.draft = run.draft /\ run'.guarded = run.guarded /\ run'.approved = run.approved
  BY <1>0, <1>4 DEF Runs
<1>9. FollowedByGuard(run'.queue)
  BY <1>7 DEF FollowedByGuard
<1>10. Gates'
  BY <1>0, <1>3, <1>5, <1>7, <1>8, <1>9, PlannedKeeps
<1>11. QED
  BY <1>6, <1>10 DEF Kept

-----------------------------------------------------------------------------
(* The other nodes.                                                        *)

LEMMA KnowledgeLookupKeeps ==
  ASSUME Base, Gates, KnowledgeLookup
  PROVE  Kept
<1>1. Typed /\ BreakerInv /\ run \in Runs
  BY DEF Base, Typed
<1>2. run.node = "knowledge_lookup" /\ run.pc = "node" /\ run' = ToolResult
      /\ UNCHANGED <<late, crashes, loop, work, hist>>
  BY DEF KnowledgeLookup, At, Outside
<1>3. late' \in BOOLEAN /\ hist' \in Hists
  BY <1>1, <1>2 DEF Typed
<1>4. Base' /\ BreakerStays
  BY <1>1, <1>2, <1>3, ToolResultFields, OutsideKeeps
<1>5. Gates'
  BY <1>1, <1>2, ToolResultFields, PassingKeeps
<1>6. QED
  BY <1>4, <1>5 DEF Kept

\* What a pass of the researcher leaves in the history.
LEMMA BriefedFields ==
  ASSUME Typed, NEW brief \in Briefs, hist' = Briefed(brief)
  PROVE  /\ hist' \in Hists /\ SameVerdict
         /\ hist'.brief = IF brief = NoBrief THEN hist.brief ELSE brief
<1> DEFINE b == IF brief = NoBrief THEN hist.brief ELSE brief
<1>1. hist \in Hists
  BY DEF Typed
<1>2. b \in Briefs
  BY <1>1 DEF Hists
<1>3. hist' = [hist EXCEPT !.brief = b]
  BY DEF Briefed
<1> HIDE DEF b
<1>4. hist' \in Hists /\ hist'.brief = b
  BY <1>1, <1>2, <1>3 DEF Hists
<1>5. SameVerdict
  BY <1>1, <1>3 DEF Hists, SameVerdict
<1>6. QED
  BY <1>4, <1>5 DEF b

LEMMA ResearchInOneShotKeeps ==
  ASSUME Base, Gates, NEW cost \in CallCosts, NEW own \in BOOLEAN, ResearchInOneShot(cost, own)
  PROVE  Kept
<1>1. Typed /\ BreakerInv /\ run \in Runs
  BY DEF Base, Typed
<1> DEFINE brief == IF own THEN "answer" ELSE NoBrief
           w == Spend(Bag, cost)
           v == ApplyPayload(w, brief)
<1>2. run.node = "researcher" /\ run.pc = "node" /\ run' = Result(v)
      /\ hist' = Briefed(brief) /\ UNCHANGED <<late, crashes, loop, work>>
  BY DEF ResearchInOneShot, At, Outside
<1>3. late' \in BOOLEAN /\ hist' \in Hists /\ SameVerdict
  <2>1. brief \in Briefs
    BY DEF Briefs
  <2> HIDE DEF brief
  <2>2. QED
    BY <1>1, <1>2, <2>1, BriefedFields DEF Typed
<1>4. Bag \in Bags /\ Tripped(Bag) /\ (run.bag.budget.triggered => Bag.budget.triggered)
  BY <1>1, BagFields
<1>5. w \in Bags /\ Tripped(w) /\ w.budget.triggered = Bag.budget.triggered
  <2> HIDE DEF Bag
  <2>1. QED
    BY <1>4, Spent
<1>6. v \in Bags /\ v.budget = w.budget
  <2>1. brief \in Briefs
    BY DEF Briefs
  <2> HIDE DEF w, brief
  <2>2. QED
    BY <1>5, <2>1, FinalType
<1> HIDE DEF v, w
<1>7. Tripped(v) /\ (run.bag.budget.triggered => v.budget.triggered)
  BY <1>4, <1>5, <1>6 DEF Tripped
<1>8. /\ run' \in Runs /\ run'.pc = "route" /\ SameRun(run', run) /\ Tripped(run'.bag)
      /\ run.bag.budget.triggered => run'.bag.budget.triggered
  BY <1>1, <1>2, <1>6, <1>7, ResultFields
<1>9. Base' /\ BreakerStays
  BY <1>2, <1>3, <1>8, OutsideKeeps
<1>10. Gates'
  BY <1>1, <1>2, <1>3, <1>8, PassingKeeps
<1>11. QED
  BY <1>9, <1>10 DEF Kept

\* A new draft: unguarded, at the writer, and not judged yet.
LEMMA WriteKeeps ==
  ASSUME Base, Gates, NEW cost \in CallCosts, Write(cost)
  PROVE  Kept
<1>1. Typed /\ BreakerInv /\ run \in Runs
  BY DEF Base, Typed
<1> DEFINE r == Result(Spend(Bag, cost))
<1>2. /\ run.node = "writer" /\ run.pc = "node" /\ run.status = "RUNNING"
      /\ run' = [r EXCEPT !.draft = TRUE, !.guarded = FALSE]
      /\ hist' = [hist EXCEPT !.judged = FALSE, !.own = FALSE, !.signed = FALSE]
      /\ UNCHANGED <<late, crashes, loop, work>>
  BY DEF Write, At, Outside
<1>3. /\ r \in Runs /\ r.pc = "route" /\ SameRun(r, run) /\ Tripped(r.bag)
      /\ run.bag.budget.triggered => r.bag.budget.triggered
  BY <1>1, SpentResultFields
<1> HIDE DEF r
<1>4. run' \in Runs /\ run'.pc = "route" /\ run'.bag = r.bag
  BY <1>2, <1>3 DEF Runs
<1>5. late' \in BOOLEAN /\ hist' \in Hists
  BY <1>1, <1>2 DEF Typed, Hists
<1>6. Base' /\ BreakerStays
  BY <1>2, <1>3, <1>4, <1>5, OutsideKeeps
<1>7. /\ run'.node = "writer" /\ run'.status = "RUNNING" /\ run'.config = run.config
      /\ run'.queue = run.queue /\ run'.plan = run.plan /\ run'.score = run.score
  BY <1>2, <1>3 DEF Runs, SameRun
<1>8. run'.approved = run.approved /\ run'.draft = TRUE
  BY <1>2, <1>3 DEF Runs, SameRun
<1>9. hist'.delivered = hist.delivered
  BY <1>1, <1>2 DEF Typed, Hists
<1>10. hist'.overruled = hist.overruled /\ hist'.contradicted = hist.contradicted
  BY <1>1, <1>2 DEF Typed, Hists
<1>11. JudgeInv'
  BY <1>2, <1>7, <1>8, <1>9, <1>10 DEF Gates, JudgeInv, AtVerdict, Older
<1>12. GuardInv'
  BY <1>2, <1>7 DEF Gates, GuardInv
<1>13. WriteInv'
  BY <1>8 DEF WriteInv
<1>14. QED
  BY <1>6, <1>11, <1>12, <1>13 DEF Kept, Gates

\* The draft is checked, where the fact check is on.
LEMMA SourceGuardKeeps ==
  ASSUME Base, Gates, SourceGuard
  PROVE  Kept
<1>1. Typed /\ BreakerInv /\ run \in Runs
  BY DEF Base, Typed
<1> DEFINE r == ToolResult
           guard == run.config.fact_check_critic
<1>2. /\ run.node = "source_guard" /\ run.pc = "node" /\ run.status = "RUNNING"
      /\ run' = [r EXCEPT !.guarded = guard]
      /\ UNCHANGED <<late, crashes, loop, work, hist>>
  BY DEF SourceGuard, At, Outside
<1>3. /\ r \in Runs /\ r.pc = "route" /\ SameRun(r, run) /\ Tripped(r.bag)
      /\ run.bag.budget.triggered => r.bag.budget.triggered
  BY <1>1, ToolResultFields
<1>4. guard \in BOOLEAN
  <2>1. run.config \in Configs
    BY <1>1 DEF Runs
  <2>2. QED
    BY <2>1, ConfigType
<1> HIDE DEF r, guard
<1>5. run' \in Runs /\ run'.pc = "route" /\ run'.bag = r.bag
  BY <1>2, <1>3, <1>4 DEF Runs
<1>6. late' \in BOOLEAN /\ hist' \in Hists
  BY <1>1, <1>2 DEF Typed, Hists
<1>7. Base' /\ BreakerStays
  BY <1>2, <1>3, <1>5, <1>6, OutsideKeeps
<1>8. /\ run'.node = "source_guard" /\ run'.status = "RUNNING" /\ run'.config = run.config
      /\ run'.queue = run.queue /\ run'.plan = run.plan /\ run'.score = run.score
  BY <1>2, <1>3 DEF Runs, SameRun
<1>9. run'.approved = run.approved /\ run'.draft = run.draft
  BY <1>2, <1>3 DEF Runs, SameRun
<1>10. run.config.fact_check_critic => run'.guarded
  BY <1>2, <1>3, <1>4 DEF Runs, guard
<1>11. JudgeInv'
  BY <1>2, <1>8, <1>9 DEF Gates, JudgeInv, AtVerdict, Older
<1>12. GuardInv'
  BY <1>2, <1>8, <1>10 DEF Gates, GuardInv
<1>13. WriteInv'
  BY <1>2, <1>8, <1>9 DEF Gates, WriteInv
<1>14. QED
  BY <1>7, <1>11, <1>12, <1>13 DEF Kept, Gates

LEMMA JudgeType ==
  ASSUME NEW r \in Runs, NEW score \in Scores, NEW approved \in Approvals \cup {"absent"}
  PROVE  LET j == Judge(r, score, approved)
         IN  /\ j \in Runs /\ j.pc = r.pc /\ j.bag = r.bag
             /\ j.status = r.status /\ j.node = r.node /\ j.config = r.config
             /\ j.queue = r.queue /\ j.plan = r.plan
             /\ j.draft = r.draft /\ j.guarded = r.guarded
             /\ j.score = IF score = "absent" THEN r.score ELSE score
             /\ j.approved = IF approved = "absent" THEN r.approved ELSE approved
<1> DEFINE s == IF score = "absent" THEN r.score ELSE score
           a == IF approved = "absent" THEN r.approved ELSE approved
           n == IF approved \in {"yes", "text"} THEN r.revisions
                ELSE Increased(r.revisions, MaxAutoRevisions)
           j == [r EXCEPT !.score = s, !.approved = a, !.revisions = n]
<1>1. s \in {"absent", "low", "high", "junk"}
  BY ResearchAssumption DEF Runs
<1>2. a \in Approvals
  <2>1. r.approved \in Approvals
    BY DEF Runs
  <2>2. QED
    BY <2>1
<1>3. n \in 0 .. MaxAutoRevisions
  BY ResearchAssumption DEF Runs, Increased
<1>4. j = Judge(r, score, approved)
  BY DEF Judge
<1> HIDE DEF s, a, n
<1>5. j \in Runs
  BY <1>1, <1>2, <1>3 DEF Runs
<1>6. /\ j.pc = r.pc /\ j.bag = r.bag
      /\ j.status = r.status /\ j.node = r.node /\ j.config = r.config
      /\ j.queue = r.queue /\ j.plan = r.plan /\ j.score = s
  BY DEF Runs
<1>7. j.draft = r.draft /\ j.guarded = r.guarded /\ j.approved = a
  BY DEF Runs
<1>8. QED
  BY <1>4, <1>5, <1>6, <1>7 DEF s, a

\* A verdict: its words are its own, or an older passing one shows through.
LEMMA CriticiseKeeps ==
  ASSUME Base, Gates, NEW cost \in CallCosts, NEW score \in Scores,
         NEW approved \in Approvals \cup {"absent"}, Criticise(cost, score, approved)
  PROVE  Kept
<1>1. Typed /\ BreakerInv /\ run \in Runs
  BY DEF Base, Typed
<1> DEFINE r == Result(Spend(Bag, cost))
           own == score = "high" \/ (score \in {"junk", "absent"} /\ approved = "yes")
           contradicted == hist.contradicted \/ (approved = "yes" /\ ~CriticPasses(run'))
           uncounted ==
             hist.uncounted \/ (approved \in {"yes", "text"} /\ ~CriticPasses(run'))
<1>2. /\ run.node = "critic" /\ run.pc = "node" /\ run.status = "RUNNING"
      /\ run' = Judge(r, score, approved)
      /\ hist' = [hist EXCEPT !.judged = TRUE, !.own = own, !.contradicted = contradicted,
                              !.uncounted = uncounted]
      /\ UNCHANGED <<late, crashes, loop, work>>
  BY <1>1 DEF Criticise, At, Outside, Typed, Hists
<1>3. /\ r \in Runs /\ r.pc = "route" /\ SameRun(r, run) /\ Tripped(r.bag)
      /\ run.bag.budget.triggered => r.bag.budget.triggered
  BY <1>1, SpentResultFields
<1> HIDE DEF r
<1>4. /\ run' \in Runs /\ run'.pc = "route" /\ run'.bag = r.bag
      /\ run'.status = r.status /\ run'.node = r.node /\ run'.config = r.config
      /\ run'.queue = r.queue /\ run'.plan = r.plan
      /\ run'.draft = r.draft /\ run'.guarded = r.guarded
      /\ run'.score = IF score = "absent" THEN r.score ELSE score
      /\ run'.approved = IF approved = "absent" THEN r.approved ELSE approved
  BY <1>2, <1>3, JudgeType
<1>5. own \in BOOLEAN /\ contradicted \in BOOLEAN /\ uncounted \in BOOLEAN
  OBVIOUS
<1>6. run'.score = "high" => run.score = "high" \/ own
  BY <1>3, <1>4 DEF SameRun
<1>7. run'.score # "high" /\ run'.score # "low" => score \in {"junk", "absent"}
  BY <1>3, <1>4, ResearchAssumption
<1>8. run'.approved = "yes" => run.approved = "yes" \/ approved = "yes"
  BY <1>3, <1>4 DEF SameRun
<1>9. CriticPasses(run') => run'.score = "high"
                            \/ (run'.score # "high" /\ run'.score # "low" /\ run'.approved = "yes")
  BY DEF CriticPasses
<1> HIDE DEF own, contradicted, uncounted
<1>10. hist' \in Hists /\ hist'.judged = TRUE /\ hist'.own = own
       /\ hist'.contradicted = contradicted
  BY <1>1, <1>2, <1>5 DEF Typed, Hists
<1>11. hist'.overruled = hist.overruled /\ hist'.delivered = hist.delivered
  BY <1>1, <1>2 DEF Typed, Hists
<1>12. late' \in BOOLEAN
  BY <1>1, <1>2 DEF Typed
<1>13. Base' /\ BreakerStays
  BY <1>2, <1>3, <1>4, <1>10, <1>12, OutsideKeeps
<1>14. (run.score = "high" \/ run.approved = "yes" => Older) /\ ~hist.delivered
  BY <1>2 DEF Gates, JudgeInv, AtVerdict
<1>15. Older => Older'
  BY <1>10, <1>11 DEF Older, contradicted
<1>16. approved = "yes" /\ ~CriticPasses(run') => Older'
  BY <1>10 DEF Older, contradicted
<1>17. CriticPasses(run') => hist'.own \/ Older'
  <2>1. score \in {"junk", "absent"} /\ approved = "yes" => own
    BY DEF own
  <2>2. QED
    BY <1>6, <1>7, <1>8, <1>9, <1>10, <1>14, <1>15, <2>1
<1>18. run'.approved = "yes" /\ ~CriticPasses(run') => Older'
  BY <1>8, <1>14, <1>15, <1>16
<1>19. /\ run'.node = "critic" /\ run'.status = "RUNNING" /\ run'.config = run.config
       /\ run'.queue = run.queue /\ run'.plan = run.plan
       /\ run'.draft = run.draft /\ run'.guarded = run.guarded
  BY <1>2, <1>3, <1>4 DEF SameRun
<1>20. JudgeInv'
  BY <1>4, <1>10, <1>11, <1>14, <1>17, <1>18, <1>19 DEF JudgeInv, AtVerdict
<1>21. GuardInv'
  BY <1>2, <1>19 DEF Gates, GuardInv
<1>22. WriteInv'
  BY <1>2, <1>19 DEF Gates, WriteInv
<1>23. QED
  BY <1>13, <1>20, <1>21, <1>22 DEF Kept, Gates

LEMMA DeliverKeeps ==
  ASSUME Base, Gates, Deliver
  PROVE  Kept
<1>1. Typed /\ BreakerInv /\ run \in Runs
  BY DEF Base, Typed
<1>2. /\ run.node = "deliver" /\ run.pc = "node" /\ run' = ToolResult
      /\ hist' = [hist EXCEPT !.delivered = TRUE]
      /\ UNCHANGED <<late, crashes, loop, work>>
  BY DEF Deliver, At, Outside
<1>3. late' \in BOOLEAN /\ hist' \in Hists
  BY <1>1, <1>2 DEF Typed, Hists
<1>4. /\ run' \in Runs /\ run'.pc = "route" /\ SameRun(run', run) /\ Tripped(run'.bag)
      /\ run.bag.budget.triggered => run'.bag.budget.triggered
  BY <1>1, <1>2, ToolResultFields
<1>5. Base' /\ BreakerStays
  BY <1>2, <1>3, <1>4, OutsideKeeps
<1>6. hist'.signed = hist.signed /\ hist'.judged = hist.judged /\ hist'.own = hist.own
  BY <1>1, <1>2 DEF Typed, Hists
<1>7. hist'.overruled = hist.overruled /\ hist'.contradicted = hist.contradicted
  BY <1>1, <1>2 DEF Typed, Hists
<1>8. JudgeInv'
  BY <1>2, <1>4, <1>6, <1>7 DEF Gates, JudgeInv, AtVerdict, Older, SameRun
<1>9. GuardInv'
  BY <1>2, <1>4 DEF Gates, GuardInv, SameRun
<1>10. WriteInv'
  BY <1>2, <1>4 DEF Gates, WriteInv, SameRun
<1>11. QED
  BY <1>5, <1>8, <1>9, <1>10 DEF Kept, Gates

\* A run that stops, fails or is completed at the node it is at.
LEMMA StandingKeeps ==
  ASSUME Gates, run'.pc = run.pc, run'.status # "PAUSED", UNCHANGED hist,
         run'.node = run.node, run'.config = run.config, run'.queue = run.queue,
         run'.plan = run.plan, run'.score = run.score, run'.draft = run.draft,
         run'.guarded = run.guarded, run'.approved = run.approved
  PROVE  Gates'
<1>1. CriticPasses(run') = CriticPasses(run)
  BY DEF CriticPasses
<1>2. JudgeInv'
  BY <1>1 DEF Gates, JudgeInv, AtVerdict, Older
<1>3. GuardInv'
  BY DEF Gates, GuardInv
<1>4. WriteInv'
  BY DEF Gates, WriteInv
<1>5. QED
  BY <1>2, <1>3, <1>4 DEF Gates

LEMMA NodeFailsKeeps ==
  ASSUME Base, Gates, NodeFails
  PROVE  Kept
<1>1. Typed /\ BreakerInv /\ run \in Runs
  BY DEF Base, Typed
<1>2. /\ run.pc = "node" /\ run' = [run EXCEPT !.status = "FAILED", !.bag = Bag]
      /\ UNCHANGED <<late, crashes, loop, work, hist>>
  BY DEF NodeFails, At, Outside
<1>3. Bag \in Bags /\ Tripped(Bag) /\ (run.bag.budget.triggered => Bag.budget.triggered)
  BY <1>1, BagFields
<1> HIDE DEF Bag
<1>4. run' \in Runs /\ run'.bag = Bag /\ run'.pc = "node" /\ run'.status = "FAILED"
  BY <1>1, <1>2, <1>3 DEF Runs, Statuses
<1>5. late' \in BOOLEAN /\ hist' \in Hists
  BY <1>1, <1>2 DEF Typed
<1>6. Base' /\ BreakerStays
  BY <1>2, <1>3, <1>4, <1>5, OutsideKeeps
<1>7. /\ run'.node = run.node /\ run'.config = run.config /\ run'.queue = run.queue
      /\ run'.plan = run.plan /\ run'.score = run.score
  BY <1>1, <1>2 DEF Runs
<1>8. run'.draft = run.draft /\ run'.guarded = run.guarded /\ run'.approved = run.approved
  BY <1>1, <1>2 DEF Runs
<1>9. Gates'
  BY <1>2, <1>4, <1>7, <1>8, StandingKeeps
<1>10. QED
  BY <1>6, <1>9 DEF Kept

-----------------------------------------------------------------------------
(* Into the tool loop, through it and out of it.                           *)

LEMMA OffType ==
  ASSUME NEW caps \in Caps
  PROVE  /\ Off(caps) \in Loops /\ Off(caps).pc = "off" /\ Off(caps).invoked = 0
         /\ Off(caps).calls = 0 /\ Off(caps).caps = caps /\ Off(caps).own = NoBrief
  BY DEF Off, Loops, Briefs

LEMMA NewBagType ==
  ASSUME NEW tokens \in 1 .. Ceiling, NEW steps \in 1 .. Ceiling
  PROVE  LET bag == NewBag(NewBudget(tokens, steps))
         IN  bag \in Bags /\ Tripped(bag) /\ ~bag.budget.triggered
<1> DEFINE b == NewBudget(tokens, steps)
<1>1. b \in AllBudgets /\ b.mode = "agentic"
  BY DEF NewBudget, AllBudgets, Budgets
<1>2. b.triggered = FALSE
  BY DEF NewBudget
<1> HIDE DEF b
<1>3. NoPlan \in [set : BOOLEAN, brief : Briefs] /\ NoBrief \in Briefs
  BY DEF NoPlan, Briefs
<1>4. NewBag(b) \in Bags
  BY <1>1, <1>3 DEF NewBag, Bags, AllBudgets
<1>5. NewBag(b).budget = b
  BY DEF NewBag
<1>6. QED
  BY <1>2, <1>4, <1>5 DEF b, Tripped

LEMMA NoWorkType == NoWork \in Bags /\ Tripped(NoWork)
<1>1. 1 \in 1 .. Ceiling
  BY WorkflowAssumption
<1>2. QED
  BY <1>1, NewBagType DEF NoWork

LEMMA FirstAttempt == 1 \in 1 .. MaxAttempts
  BY ResearchAssumption

\* A step that ends a pass, or drops it.
LEMMA LoopOverKeeps ==
  ASSUME Base, loop' = Off(loop.caps), work' = NoWork, late' \in BOOLEAN,
         run' \in Runs, run'.pc # "loop", hist' \in Hists, Tripped(run'.bag),
         run.bag.budget.triggered => run'.bag.budget.triggered
  PROVE  Base' /\ BreakerStays
<1>1. loop.caps \in Caps /\ loop.invoked \in Nat
  BY DEF Base, Typed, Loops
<1>2. loop' \in Loops /\ loop'.pc = "off" /\ loop'.invoked = 0
  BY <1>1, OffType
<1>3. work' \in Bags /\ Tripped(work')
  BY NoWorkType
<1>4. Typed'
  BY <1>2, <1>3 DEF Typed
<1>5. LoopInv'
  BY <1>2 DEF LoopInv
<1>6. BreakerInv'
  BY <1>3 DEF BreakerInv, Tripped
<1>7. BreakerStays
  BY <1>1, <1>2 DEF BreakerStays, InFastFallback, Tripped
<1>8. QED
  BY <1>4, <1>5, <1>6, <1>7 DEF Base

LEMMA StartResearchKeeps ==
  ASSUME Base, Gates, StartResearch
  PROVE  Kept
<1>1. Typed /\ BreakerInv /\ run \in Runs
  BY DEF Base, Typed
<1>2. /\ run.node = "researcher" /\ run.pc = "node"
      /\ loop' = [Off(loop.caps) EXCEPT !.pc = "turn"] /\ work' = Bag
      /\ run' = [run EXCEPT !.pc = "loop", !.bag = Bag]
      /\ UNCHANGED <<late, hist, crashes>>
  BY DEF StartResearch, At
<1>3. ~Bag.budget.triggered
  BY DEF StartResearch, UsesTools, InFastFallback
<1>4. /\ Bag \in Bags /\ Tripped(Bag)
      /\ run.bag.budget.triggered => Bag.budget.triggered
      /\ Bag.budget.tokens < Bag.budget.max_tokens
  BY <1>1, <1>3, BagFields
<1> DEFINE off == Off(loop.caps)
<1>5. loop.caps \in Caps /\ loop.caps.calls \in Nat \ {0}
  BY <1>1, ReactAssumption DEF Typed, Loops
<1>6. off \in Loops /\ off.invoked = 0 /\ off.calls = 0 /\ off.caps = loop.caps
  BY <1>5, OffType
<1> HIDE DEF Bag, off
<1>7. /\ loop' \in Loops /\ loop'.pc = "turn" /\ loop'.invoked = 0 /\ loop'.calls = 0
      /\ loop'.caps = loop.caps
  BY <1>2, <1>6 DEF Loops, off
<1>8. run' \in Runs /\ run'.pc = "loop" /\ run'.bag = Bag /\ run'.node = "researcher"
  BY <1>1, <1>2, <1>4 DEF Runs
<1>9. SameRun(run', run)
  BY <1>1, <1>2 DEF Runs, SameRun
<1>10. Typed'
  BY <1>1, <1>2, <1>4, <1>7, <1>8 DEF Typed
<1>11. LoopInv'
  <2>1. Bag.budget.tokens \in Nat /\ Bag.budget.max_tokens \in Nat
    BY <1>4, WorkflowAssumption DEF Bags, Budgets
  <2>2. QED
    BY <1>2, <1>4, <1>5, <1>7, <2>1 DEF LoopInv
<1>12. BreakerInv'
  BY <1>2, <1>3, <1>4, <1>8 DEF BreakerInv, Tripped
<1>13. BreakerStays
  BY <1>3, <1>4 DEF BreakerStays
<1>14. Gates'
  BY <1>1, <1>2, <1>9, PassingKeeps
<1>15. QED
  BY <1>10, <1>11, <1>12, <1>13, <1>14 DEF Kept, Base

LEMMA ResearchKeeps ==
  ASSUME Base, Gates, Research
  PROVE  Kept
<1>1. run.pc = "loop" /\ LoopStep(late) /\ UNCHANGED <<run, late, hist, crashes>>
  BY DEF Research
<1>2. LoopFit
  BY DEF Base, Typed, BreakerInv, LoopFit
<1>3. LoopKept
  BY <1>1, <1>2, LoopStepKeeps
<1>4. Typed'
  BY <1>1, <1>3 DEF Base, Typed, LoopKept, LoopFit
<1>5. LoopInv'
  BY <1>3 DEF LoopKept, LoopFit
<1>6. BreakerInv'
  BY <1>1, <1>3 DEF Base, BreakerInv, LoopKept, LoopFit, Tripped
<1>7. BreakerStays
  BY <1>1 DEF Base, BreakerInv, BreakerStays
<1>8. Gates'
  BY <1>1 DEF Gates, JudgeInv, AtVerdict, Older, CriticPasses, GuardInv, WriteInv
<1>9. QED
  BY <1>4, <1>5, <1>6, <1>7, <1>8 DEF Kept, Base

LEMMA EndResearchKeeps ==
  ASSUME Base, Gates, EndResearch
  PROVE  Kept
<1>1. Typed /\ BreakerInv /\ run \in Runs /\ work \in Bags /\ Tripped(work)
  BY DEF Base, Typed, BreakerInv
<1> DEFINE r == Result(work)
<1>2. /\ loop' = Off(loop.caps) /\ work' = NoWork /\ run' = [r EXCEPT !.attempt = 1]
      /\ hist' = Briefed(PassBrief) /\ UNCHANGED <<late, crashes>>
  BY DEF EndResearch
<1>3. run.pc = "loop" /\ run.node = "researcher" /\ ~run.bag.budget.triggered
  <2>1. loop.pc = "final"
    BY DEF EndResearch
  <2>2. QED
    BY <1>1, <2>1 DEF Typed, BreakerInv
<1>4. r \in Runs /\ r.pc = "route" /\ SameRun(r, run) /\ Tripped(r.bag)
  BY <1>1, ResultFields
<1> HIDE DEF r
<1>5. run' \in Runs /\ run'.pc = "route" /\ run'.bag = r.bag
  BY <1>2, <1>4, FirstAttempt DEF Runs
<1>6. SameRun(run', run)
  <2>1. SameRun(run', r)
    BY <1>2, <1>4 DEF Runs, SameRun
  <2>2. QED
    BY <1>4, <2>1 DEF SameRun
<1>7. late' \in BOOLEAN /\ hist' \in Hists /\ SameVerdict
  <2>1. PassBrief \in Briefs
    BY <1>1 DEF PassBrief, Typed, Loops, Briefs
  <2>2. QED
    BY <1>1, <1>2, <2>1, BriefedFields DEF Typed
<1>8. Base' /\ BreakerStays
  BY <1>2, <1>3, <1>4, <1>5, <1>7, LoopOverKeeps
<1>9. Gates'
  BY <1>1, <1>2, <1>3, <1>6, <1>7, PassingKeeps
<1>10. QED
  BY <1>8, <1>9 DEF Kept

LEMMA AttemptFailsKeeps ==
  ASSUME Base, Gates, AttemptFails
  PROVE  Kept
<1>1. Typed /\ BreakerInv /\ run \in Runs /\ Tripped(run.bag)
  BY DEF Base, Typed, BreakerInv
<1>2. /\ loop' = Off(loop.caps) /\ work' = NoWork
      /\ UNCHANGED <<late, hist, crashes>>
  BY DEF AttemptFails
<1>3. run.pc = "loop" /\ run.node = "researcher"
  <2>1. loop.pc = "turn"
    BY DEF AttemptFails
  <2>2. QED
    BY <1>1, <2>1 DEF Typed
<1>4. late' \in BOOLEAN /\ hist' \in Hists
  BY <1>1, <1>2 DEF Typed
<1>5. CASE run.attempt < MaxAttempts
  <2> DEFINE n == run.attempt + 1
  <2>1. n \in 1 .. MaxAttempts
    BY <1>1, <1>5, ResearchAssumption DEF Runs
  <2>2. run' = [run EXCEPT !.pc = "node", !.attempt = n]
    BY <1>5 DEF AttemptFails
  <2> HIDE DEF n
  <2>3. run' \in Runs /\ run'.pc = "node" /\ run'.bag = run.bag
    BY <1>1, <2>1, <2>2 DEF Runs
  <2>4. SameRun(run', run)
    BY <1>1, <2>2 DEF Runs, SameRun
  <2>5. Base' /\ BreakerStays
    BY <1>1, <1>2, <1>4, <2>3, LoopOverKeeps
  <2>6. Gates'
    BY <1>1, <1>2, <1>3, <2>4, PassingKeeps
  <2>7. QED
    BY <2>5, <2>6 DEF Kept
<1>6. CASE ~(run.attempt < MaxAttempts)
  <2>1. run' = [run EXCEPT !.pc = "node", !.status = "FAILED"]
    BY <1>6 DEF AttemptFails
  <2>2. run' \in Runs /\ run'.pc = "node" /\ run'.bag = run.bag
    BY <1>1, <2>1 DEF Runs, Statuses
  <2>3. /\ run'.node = run.node /\ run'.config = run.config /\ run'.queue = run.queue
        /\ run'.plan = run.plan /\ run'.score = run.score /\ run'.status = "FAILED"
    BY <1>1, <2>1 DEF Runs
  <2>4. run'.draft = run.draft /\ run'.guarded = run.guarded /\ run'.approved = run.approved
    BY <1>1, <2>1 DEF Runs
  <2>5. Base' /\ BreakerStays
    BY <1>1, <1>2, <1>4, <2>2, LoopOverKeeps
  <2>6. JudgeInv'
    BY <1>2, <1>3, <2>3, <2>4 DEF Gates, JudgeInv, AtVerdict, Older
  <2>7. GuardInv'
    BY <1>3, <2>3, <2>4 DEF Gates, GuardInv
  <2>8. WriteInv'
    BY <1>3, <2>3, <2>4 DEF Gates, WriteInv
  <2>9. QED
    BY <2>5, <2>6, <2>7, <2>8 DEF Kept, Gates
<1>7. QED
  BY <1>5, <1>6

-----------------------------------------------------------------------------
(* Where the run goes next.                                                *)

LEMMA MoveFields ==
  ASSUME run \in Runs, NEW node \in AgentNodes
  PROVE  /\ Move(node) \in Runs /\ Move(node).node = node /\ Move(node).pc = "node"
         /\ Move(node).bag = run.bag /\ Move(node).status = run.status
         /\ Move(node).config = run.config /\ Move(node).queue = run.queue
         /\ Move(node).plan = run.plan /\ Move(node).score = run.score
         /\ Move(node).draft = run.draft /\ Move(node).guarded = run.guarded
         /\ Move(node).approved = run.approved
<1>1. Move(node) \in Runs /\ Move(node).node = node /\ Move(node).pc = "node"
  BY DEF Move, Runs
<1>2. /\ Move(node).bag = run.bag /\ Move(node).status = run.status
      /\ Move(node).config = run.config /\ Move(node).queue = run.queue
      /\ Move(node).plan = run.plan /\ Move(node).score = run.score
  BY DEF Move, Runs
<1>3. Move(node).draft = run.draft /\ Move(node).guarded = run.guarded
      /\ Move(node).approved = run.approved
  BY DEF Move, Runs
<1>4. QED
  BY <1>1, <1>2, <1>3

\* What a move takes along, whatever else it sets.
Moved(node) ==
  /\ run' \in Runs /\ run'.node = node /\ run'.pc = "node" /\ run'.bag = run.bag
  /\ run'.config = run.config /\ run'.plan = run.plan /\ run'.score = run.score
  /\ run'.draft = run.draft /\ run'.guarded = run.guarded

LEMMA MovingKeeps ==
  ASSUME Base, run.pc # "loop", UNCHANGED <<loop, work, late>>, run' \in Runs,
         run'.pc # "loop", run'.bag = run.bag, hist' \in Hists
  PROVE  Base' /\ BreakerStays
<1>1. late' \in BOOLEAN /\ Tripped(run.bag)
  BY DEF Base, Typed, BreakerInv
<1>2. QED
  BY <1>1, OutsideKeeps

\* The verdict that is left behind: a passing one is overruled, any other leaves its
\* approval only where it contradicted itself.
LEMMA LeavingVerdict ==
  ASSUME JudgeInv, run.node # "deliver", Older => Older',
         AtVerdict /\ CriticPasses(run) => hist'.overruled
  PROVE  run.score = "high" \/ run.approved = "yes" => Older'
<1>1. run.score = "high" => CriticPasses(run)
  BY DEF CriticPasses
<1>2. CASE AtVerdict
  BY <1>1, <1>2 DEF JudgeInv, Older
<1>3. CASE ~AtVerdict
  BY <1>3 DEF JudgeInv
<1>4. QED
  BY <1>2, <1>3

LEMMA FollowPlanKeeps ==
  ASSUME Base, Gates, FollowPlan
  PROVE  Kept
<1>1. Typed /\ run \in Runs
  BY DEF Base, Typed
<1> DEFINE q == run.queue
           r == Move(Head(q))
           overruled == hist.overruled \/ (run.node = "critic" /\ CriticPasses(run))
<1>2. /\ run.status = "RUNNING" /\ run.pc = "route" /\ q # <<>>
      /\ run' = [r EXCEPT !.queue = Tail(@)]
      /\ hist' = [hist EXCEPT !.overruled = overruled]
      /\ UNCHANGED <<late, crashes, loop, work>>
  BY <1>1 DEF FollowPlan, AtRoute, Outside, Typed, Hists
<1>3. q \in Seq(PlanNodes)
  BY <1>1 DEF Runs
<1> HIDE DEF q
<1>4. /\ Head(q) \in PlanNodes /\ Tail(q) \in Seq(PlanNodes)
      /\ FollowedByGuard(q) => FollowedByGuard(Tail(q))
      /\ FollowedByGuard(q) /\ Head(q) = "writer" => Head(Tail(q)) = "source_guard"
      /\ HasWriter(q) => Head(q) = "writer" \/ HasWriter(Tail(q))
  BY <1>2, <1>3, TailFacts
<1>5. Head(q) \in AgentNodes
  BY <1>4, AgentNodesAre DEF PlanNodes
<1>6. /\ r \in Runs /\ r.node = Head(q) /\ r.pc = "node" /\ r.queue = q
      /\ r.bag = run.bag /\ r.status = run.status /\ r.config = run.config
      /\ r.plan = run.plan /\ r.score = run.score
      /\ r.draft = run.draft /\ r.guarded = run.guarded /\ r.approved = run.approved
  BY <1>1, <1>5, MoveFields DEF q
<1> HIDE DEF r
<1>7. Moved(Head(q)) /\ run'.status = run.status
  <2>1. /\ run' \in Runs /\ run'.node = Head(q) /\ run'.pc = "node" /\ run'.bag = run.bag
        /\ run'.config = run.config /\ run'.plan = run.plan /\ run'.score = run.score
        /\ run'.status = run.status
    BY <1>2, <1>4, <1>6 DEF Runs
  <2>2. run'.draft = run.draft /\ run'.guarded = run.guarded
    BY <1>2, <1>6 DEF Runs
  <2>3. QED
    BY <2>1, <2>2 DEF Moved
<1>8. run'.approved = run.approved /\ run'.queue = Tail(q)
  <2>1. run'.approved = run.approved
    BY <1>2, <1>6 DEF Runs
  <2>2. run'.queue = Tail(q)
    BY <1>2, <1>6 DEF Runs
  <2>3. QED
    BY <2>1, <2>2
<1>9. hist' \in Hists /\ hist'.overruled = overruled /\ hist'.contradicted = hist.contradicted
      /\ hist'.delivered = hist.delivered
  <2>1. overruled \in BOOLEAN
    BY <1>1 DEF Typed, Hists
  <2> HIDE DEF overruled
  <2>2. hist' \in Hists /\ hist'.overruled = overruled
    BY <1>1, <1>2, <2>1 DEF Typed, Hists
  <2>3. hist'.contradicted = hist.contradicted /\ hist'.delivered = hist.delivered
    BY <1>1, <1>2 DEF Typed, Hists
  <2>4. QED
    BY <2>2, <2>3
<1>10. Base' /\ BreakerStays
  BY <1>2, <1>7, <1>9, MovingKeeps DEF Moved
<1>11. run.node \notin {"deliver", "human_approve"}
  BY <1>2 DEF Gates, GuardInv, q
<1>12. (Older => Older') /\ (AtVerdict /\ CriticPasses(run) => hist'.overruled)
  BY <1>9 DEF Older, AtVerdict
<1>13. run.score = "high" \/ run.approved = "yes" => Older'
  BY <1>11, <1>12, LeavingVerdict DEF Gates
<1>14. Head(q) # "deliver"
  BY <1>4 DEF PlanNodes
<1>15. JudgeInv'
  BY <1>2, <1>7, <1>8, <1>9, <1>11, <1>13, <1>14
     DEF Gates, JudgeInv, AtVerdict, Moved
<1>16. GuardInv'
  BY <1>2, <1>4, <1>7, <1>8 DEF Gates, GuardInv, Moved, q, PlanNodes
<1>17. WriteInv'
  BY <1>2, <1>4, <1>7, <1>8 DEF Gates, WriteInv, Moved, q
<1>18. QED
  BY <1>10, <1>15, <1>16, <1>17 DEF Kept, Gates

\* An edge is followed only when the plan is over.
LEMMA AtEdgeFacts ==
  ASSUME NEW node, AtEdge(node)
  PROVE  run.status = "RUNNING" /\ run.pc = "route" /\ run.queue = <<>> /\ run.node = node
  BY DEF AtEdge, AtRoute

LEMMA FollowEdgeKeeps ==
  ASSUME Base, Gates, FollowEdge
  PROVE  Kept
<1>1. Typed /\ run \in Runs
  BY DEF Base, Typed
<1> DEFINE next == Static[run.node]
           r == Move(next)
<1>2. /\ run.status = "RUNNING" /\ run.pc = "route" /\ run.queue = <<>>
      /\ run' = [r EXCEPT !.dynamic = FALSE]
      /\ UNCHANGED <<late, crashes, loop, work, hist>>
  BY AtEdgeFacts DEF FollowEdge, Outside
<1>3. \/ run.node = "planner" /\ next = "knowledge_lookup"
      \/ run.node = "knowledge_lookup" /\ next = "researcher"
      \/ run.node = "researcher" /\ next = "writer"
      \/ run.node = "writer" /\ next = "source_guard"
      \/ run.node = "source_guard" /\ next = "critic"
  BY DEF FollowEdge, Static
<1> HIDE DEF next
<1>4. next \in AgentNodes
  BY <1>3, AgentNodesAre
<1>5. /\ r \in Runs /\ r.node = next /\ r.pc = "node"
      /\ r.bag = run.bag /\ r.status = run.status /\ r.config = run.config
      /\ r.queue = run.queue /\ r.plan = run.plan /\ r.score = run.score
      /\ r.draft = run.draft /\ r.guarded = run.guarded /\ r.approved = run.approved
  BY <1>1, <1>4, MoveFields
<1> HIDE DEF r
<1>6. Moved(next) /\ run'.status = "RUNNING" /\ run'.queue = <<>>
  <2>1. /\ run' \in Runs /\ run'.node = next /\ run'.pc = "node" /\ run'.bag = run.bag
        /\ run'.config = run.config /\ run'.plan = run.plan /\ run'.score = run.score
        /\ run'.status = "RUNNING" /\ run'.queue = <<>>
    BY <1>2, <1>5 DEF Runs
  <2>2. run'.draft = run.draft /\ run'.guarded = run.guarded
    BY <1>2, <1>5 DEF Runs
  <2>3. QED
    BY <2>1, <2>2 DEF Moved
<1>7. run'.approved = run.approved
  BY <1>2, <1>5 DEF Runs
<1>8. hist' \in Hists
  BY <1>1, <1>2 DEF Typed
<1>9. Base' /\ BreakerStays
  BY <1>2, <1>6, <1>8, MovingKeeps DEF Moved
<1>10. JudgeInv'
  BY <1>2, <1>3, <1>6, <1>7 DEF Gates, JudgeInv, AtVerdict, Older, Moved
<1>11. GuardInv'
  BY <1>2, <1>3, <1>6 DEF Gates, GuardInv, Moved
<1>12. WriteInv'
  BY <1>2, <1>3, <1>6 DEF Gates, WriteInv, Moved, HasWriter, BeforeWriter
<1>13. QED
  BY <1>9, <1>10, <1>11, <1>12 DEF Kept, Gates

\* Behind the critic the plan is over, and a draft has been written and guarded if it should.
LEMMA BehindCritic ==
  ASSUME Gates, run.node \in {"critic", "human_approve", "deliver"}, run.queue = <<>>
  PROVE  /\ run.config.fact_check_critic /\ run.draft => run.guarded
         /\ (\E i \in DOMAIN run.plan : run.plan[i] = "write") => run.draft
<1>1. ~HasWriter(run.queue)
  BY DEF HasWriter
<1>2. QED
  BY <1>1 DEF Gates, GuardInv, WriteInv, BeforeWriter

\* The three ways on from the critic, and the three from the human.
LEMMA DecisionKeeps ==
  ASSUME Base, Gates, NEW node \in {"deliver", "writer", "human_approve"}, Moved(node),
         run.pc # "loop", run.node \in {"critic", "human_approve"},
         run.queue = <<>>, run'.queue = <<>>, UNCHANGED <<loop, work, late>>,
         hist' \in Hists, hist'.delivered = hist.delivered,
         run'.status = "PAUSED" => node = "human_approve",
         node = "deliver" => hist'.signed \/ (hist'.judged /\ (hist'.own \/ Older')),
         node # "deliver" => (run'.score = "high" \/ run'.approved = "yes" => Older')
  PROVE  Kept
<1>1. Base' /\ BreakerStays
  BY MovingKeeps DEF Moved
<1>2. ~hist.delivered
  BY DEF Gates, JudgeInv
<1>3. JudgeInv'
  BY <1>2 DEF JudgeInv, AtVerdict, Moved
<1>4. GuardInv'
  BY BehindCritic DEF GuardInv, Moved, FollowedByGuard
<1>5. WriteInv'
  BY BehindCritic DEF WriteInv, Moved
<1>6. QED
  BY <1>1, <1>3, <1>4, <1>5 DEF Kept, Gates

LEMMA AutoDeliverKeeps ==
  ASSUME Base, Gates, AutoDeliver
  PROVE  Kept
<1>1. Typed /\ run \in Runs
  BY DEF Base, Typed
<1> DEFINE r == Move("deliver")
<1>2. /\ run.status = "RUNNING" /\ run.pc = "route" /\ run.queue = <<>> /\ run.node = "critic"
      /\ CriticPasses(run) /\ run' = [r EXCEPT !.dynamic = FALSE]
      /\ UNCHANGED <<late, crashes, loop, work, hist>>
  BY AtEdgeFacts DEF AutoDeliver, Outside
<1>3. /\ r \in Runs /\ r.node = "deliver" /\ r.pc = "node"
      /\ r.bag = run.bag /\ r.status = run.status /\ r.config = run.config
      /\ r.queue = run.queue /\ r.plan = run.plan /\ r.score = run.score
      /\ r.draft = run.draft /\ r.guarded = run.guarded
  BY <1>1, MoveFields, AgentNodesAre
<1> HIDE DEF r
<1>4. /\ run' \in Runs /\ run'.node = "deliver" /\ run'.pc = "node" /\ run'.bag = run.bag
      /\ run'.config = run.config /\ run'.plan = run.plan /\ run'.score = run.score
      /\ run'.status = "RUNNING" /\ run'.queue = <<>>
  BY <1>2, <1>3 DEF Runs
<1>5. run'.draft = run.draft /\ run'.guarded = run.guarded
  BY <1>2, <1>3 DEF Runs
<1>6. hist' \in Hists
  BY <1>1, <1>2 DEF Typed
<1>7. hist.judged /\ (hist.own \/ Older)
  BY <1>2 DEF Gates, JudgeInv, AtVerdict
<1>8. hist'.judged /\ (hist'.own \/ Older')
  BY <1>2, <1>7 DEF Older
<1>9. Moved("deliver")
  BY <1>4, <1>5 DEF Moved
<1>10. QED
  BY <1>2, <1>4, <1>6, <1>8, <1>9, DecisionKeeps

LEMMA AutoReviseKeeps ==
  ASSUME Base, Gates, AutoRevise
  PROVE  Kept
<1>1. Typed /\ run \in Runs
  BY DEF Base, Typed
<1> DEFINE r == Move("writer")
           n == Increased(hist.auto, MaxAutoCounted)
<1>2. /\ run.status = "RUNNING" /\ run.pc = "route" /\ run.queue = <<>> /\ run.node = "critic"
      /\ ~CriticPasses(run) /\ run' = [r EXCEPT !.dynamic = FALSE]
      /\ hist' = [hist EXCEPT !.auto = n]
      /\ UNCHANGED <<late, crashes, loop, work>>
  BY <1>1, AtEdgeFacts DEF AutoRevise, NeedsAutoRevise, Outside, Typed, Hists
<1>3. /\ r \in Runs /\ r.node = "writer" /\ r.pc = "node"
      /\ r.bag = run.bag /\ r.status = run.status /\ r.config = run.config
      /\ r.queue = run.queue /\ r.plan = run.plan /\ r.score = run.score
      /\ r.draft = run.draft /\ r.guarded = run.guarded /\ r.approved = run.approved
  BY <1>1, MoveFields, AgentNodesAre
<1> HIDE DEF r
<1>4. /\ run' \in Runs /\ run'.node = "writer" /\ run'.pc = "node" /\ run'.bag = run.bag
      /\ run'.config = run.config /\ run'.plan = run.plan /\ run'.score = run.score
      /\ run'.status = "RUNNING" /\ run'.queue = <<>>
  BY <1>2, <1>3 DEF Runs
<1>5. run'.draft = run.draft /\ run'.guarded = run.guarded
  BY <1>2, <1>3 DEF Runs
<1>6. run'.approved = run.approved
  BY <1>2, <1>3 DEF Runs
<1>7. n \in Nat
  BY <1>1, ResearchAssumption DEF Typed, Hists, Increased
<1> HIDE DEF n
<1>8. hist' \in Hists
  BY <1>1, <1>2, <1>7 DEF Typed, Hists
<1>9. hist'.delivered = hist.delivered /\ (Older => Older')
  BY <1>1, <1>2 DEF Typed, Hists, Older
<1>10. run'.score = "high" \/ run'.approved = "yes" => Older'
  BY <1>2, <1>4, <1>6, <1>9, LeavingVerdict DEF Gates
<1>11. Moved("writer")
  BY <1>4, <1>5 DEF Moved
<1>12. QED
  BY <1>2, <1>4, <1>8, <1>9, <1>10, <1>11, DecisionKeeps

LEMMA AskHumanKeeps ==
  ASSUME Base, Gates, AskHuman
  PROVE  Kept
<1>1. Typed /\ run \in Runs
  BY DEF Base, Typed
<1> DEFINE r == Move("human_approve")
<1>2. /\ run.pc = "route" /\ run.queue = <<>> /\ run.node = "critic"
      /\ ~CriticPasses(run) /\ run' = [r EXCEPT !.dynamic = FALSE, !.status = "PAUSED"]
      /\ UNCHANGED <<late, crashes, loop, work, hist>>
  BY AtEdgeFacts DEF AskHuman, NeedsHumanReview, Outside
<1>3. /\ r \in Runs /\ r.node = "human_approve" /\ r.pc = "node"
      /\ r.bag = run.bag /\ r.config = run.config
      /\ r.queue = run.queue /\ r.plan = run.plan /\ r.score = run.score
      /\ r.draft = run.draft /\ r.guarded = run.guarded /\ r.approved = run.approved
  BY <1>1, MoveFields, AgentNodesAre
<1> HIDE DEF r
<1>4. /\ run' \in Runs /\ run'.node = "human_approve" /\ run'.pc = "node"
      /\ run'.bag = run.bag /\ run'.config = run.config /\ run'.plan = run.plan
      /\ run'.score = run.score /\ run'.queue = <<>>
  BY <1>2, <1>3 DEF Runs, Statuses
<1>5. run'.draft = run.draft /\ run'.guarded = run.guarded
  BY <1>2, <1>3 DEF Runs
<1>6. run'.approved = run.approved
  BY <1>2, <1>3 DEF Runs
<1>7. hist' \in Hists
  BY <1>1, <1>2 DEF Typed
<1>8. Older => Older'
  BY <1>2 DEF Older
<1>9. run'.score = "high" \/ run'.approved = "yes" => Older'
  BY <1>2, <1>4, <1>6, <1>8, LeavingVerdict DEF Gates
<1>10. Moved("human_approve")
  BY <1>4, <1>5 DEF Moved
<1>11. QED
  BY <1>2, <1>4, <1>7, <1>9, <1>10, DecisionKeeps

LEMMA CompleteKeeps ==
  ASSUME Base, Gates, Complete
  PROVE  Kept
<1>1. Typed /\ BreakerInv /\ run \in Runs /\ Tripped(run.bag)
  BY DEF Base, Typed, BreakerInv
<1>2. /\ run.pc = "route" /\ run' = [run EXCEPT !.status = "COMPLETED"]
      /\ UNCHANGED <<late, crashes, loop, work, hist>>
  BY AtEdgeFacts DEF Complete, Outside
<1>3. /\ run' \in Runs /\ run'.bag = run.bag /\ run'.pc = "route"
      /\ run'.status = "COMPLETED"
  BY <1>1, <1>2 DEF Runs, Statuses
<1>4. late' \in BOOLEAN /\ hist' \in Hists
  BY <1>1, <1>2 DEF Typed
<1>5. Base' /\ BreakerStays
  BY <1>1, <1>2, <1>3, <1>4, OutsideKeeps
<1>6. /\ run'.node = run.node /\ run'.config = run.config /\ run'.queue = run.queue
      /\ run'.plan = run.plan /\ run'.score = run.score
  BY <1>1, <1>2 DEF Runs
<1>7. run'.draft = run.draft /\ run'.guarded = run.guarded /\ run'.approved = run.approved
  BY <1>1, <1>2 DEF Runs
<1>8. Gates'
  BY <1>2, <1>3, <1>6, <1>7, StandingKeeps
<1>9. QED
  BY <1>5, <1>8 DEF Kept

-----------------------------------------------------------------------------
(* The human, the clock and a crash.                                       *)

\* A paused run waits at the human's node, with nothing left of the plan and no loop running.
LEMMA PausedFacts ==
  ASSUME Base, Gates, run.status = "PAUSED"
  PROVE  /\ run \in Runs /\ run.node = "human_approve" /\ run.queue = <<>>
         /\ run.pc # "loop" /\ ~AtVerdict
  BY DEF Base, Typed, Gates, JudgeInv, GuardInv, AtVerdict

LEMMA ApproveKeeps ==
  ASSUME Base, Gates, Approve
  PROVE  Kept
<1> DEFINE r == Move("deliver")
<1>1. /\ run \in Runs /\ run.node = "human_approve" /\ run.queue = <<>> /\ run.pc # "loop"
      /\ run' = [r EXCEPT !.status = "RUNNING"]
      /\ hist' = [hist EXCEPT !.signed = TRUE]
      /\ UNCHANGED <<late, crashes, loop, work>>
  BY PausedFacts DEF Approve, Outside
<1>2. /\ r \in Runs /\ r.node = "deliver" /\ r.pc = "node"
      /\ r.bag = run.bag /\ r.config = run.config
      /\ r.queue = run.queue /\ r.plan = run.plan /\ r.score = run.score
      /\ r.draft = run.draft /\ r.guarded = run.guarded
  BY <1>1, MoveFields, AgentNodesAre
<1> HIDE DEF r
<1>3. /\ run' \in Runs /\ run'.node = "deliver" /\ run'.pc = "node" /\ run'.bag = run.bag
      /\ run'.config = run.config /\ run'.plan = run.plan /\ run'.score = run.score
      /\ run'.status = "RUNNING" /\ run'.queue = <<>>
  BY <1>1, <1>2 DEF Runs, Statuses
<1>4. run'.draft = run.draft /\ run'.guarded = run.guarded
  BY <1>1, <1>2 DEF Runs
<1>5. hist \in Hists
  BY DEF Base, Typed
<1>6. hist' \in Hists /\ hist'.signed = TRUE
  BY <1>1, <1>5 DEF Hists
<1>7. hist'.delivered = hist.delivered
  BY <1>1, <1>5 DEF Hists
<1>8. Moved("deliver")
  BY <1>3, <1>4 DEF Moved
<1>9. QED
  BY <1>1, <1>3, <1>6, <1>7, <1>8, DecisionKeeps

LEMMA RejectKeeps ==
  ASSUME Base, Gates, Reject
  PROVE  Kept
<1>1. /\ run \in Runs /\ run.pc # "loop" /\ run' = [run EXCEPT !.status = "FAILED"]
      /\ UNCHANGED <<late, crashes, loop, work, hist>>
  BY PausedFacts DEF Reject, Outside
<1>2. run' \in Runs /\ run'.bag = run.bag /\ run'.pc = run.pc /\ run'.status = "FAILED"
  BY <1>1 DEF Runs, Statuses
<1>3. hist' \in Hists /\ UNCHANGED <<loop, work, late>>
  BY <1>1 DEF Base, Typed
<1>4. Base' /\ BreakerStays
  BY <1>1, <1>2, <1>3, MovingKeeps
<1>5. /\ run'.node = run.node /\ run'.config = run.config /\ run'.queue = run.queue
      /\ run'.plan = run.plan /\ run'.score = run.score
  BY <1>1 DEF Runs
<1>6. run'.draft = run.draft /\ run'.guarded = run.guarded /\ run'.approved = run.approved
  BY <1>1 DEF Runs
<1>7. Gates'
  BY <1>1, <1>2, <1>5, <1>6, StandingKeeps
<1>8. QED
  BY <1>4, <1>7 DEF Kept

LEMMA ReviseKeeps ==
  ASSUME Base, Gates, Revise
  PROVE  Kept
<1> DEFINE r == Move("writer")
           human == run.human + 1
           revisions == Increased(run.revisions, MaxAutoRevisions)
<1>1. /\ run \in Runs /\ run.node = "human_approve" /\ run.queue = <<>> /\ run.pc # "loop"
      /\ ~AtVerdict /\ run.human < MaxHumanRevisions
      /\ UNCHANGED <<late, crashes, loop, work, hist>>
  BY PausedFacts DEF Revise, Outside
<1>2. /\ r \in Runs /\ r.node = "writer" /\ r.pc = "node"
      /\ r.bag = run.bag /\ r.config = run.config
      /\ r.queue = run.queue /\ r.plan = run.plan /\ r.score = run.score
      /\ r.draft = run.draft /\ r.guarded = run.guarded
  BY <1>1, MoveFields, AgentNodesAre
<1>3. human \in 0 .. MaxHumanRevisions /\ revisions \in 0 .. MaxAutoRevisions
  BY <1>1, ResearchAssumption DEF Runs, Increased
<1>4. run' = [r EXCEPT !.status = "RUNNING", !.human = human, !.approved = "no",
                       !.revisions = revisions]
  BY <1>1 DEF Revise, Move, Runs
<1> HIDE DEF r, human, revisions
<1>5. /\ run' \in Runs /\ run'.node = "writer" /\ run'.pc = "node" /\ run'.bag = run.bag
      /\ run'.config = run.config /\ run'.plan = run.plan /\ run'.score = run.score
      /\ run'.status = "RUNNING" /\ run'.queue = <<>>
  BY <1>1, <1>2, <1>3, <1>4 DEF Runs, Statuses, Approvals
<1>6. run'.draft = run.draft /\ run'.guarded = run.guarded
  BY <1>2, <1>4 DEF Runs
<1>7. run'.approved = "no"
  BY <1>2, <1>4 DEF Runs
<1>8. hist' \in Hists /\ hist'.delivered = hist.delivered /\ (Older => Older')
  BY <1>1 DEF Base, Typed, Older
<1>9. run.score = "high" \/ run.approved = "yes" => Older'
  BY <1>1, <1>8, LeavingVerdict DEF Gates
<1>10. Moved("writer")
  BY <1>5, <1>6 DEF Moved
<1>11. QED
  BY <1>1, <1>5, <1>7, <1>8, <1>9, <1>10, DecisionKeeps

\* Nothing in the invariant is about the clock or the bound on the crashes.
LEMMA StutterKeeps ==
  ASSUME Base, Gates, UNCHANGED <<run, hist, loop, work>>, late' \in BOOLEAN
  PROVE  Base' /\ Gates'
<1>1. Typed'
  BY DEF Base, Typed
<1>2. LoopInv'
  BY DEF Base, LoopInv
<1>3. BreakerInv'
  BY DEF Base, BreakerInv, Tripped
<1>4. Gates'
  BY DEF Gates, JudgeInv, AtVerdict, Older, CriticPasses, GuardInv, WriteInv
<1>5. QED
  BY <1>1, <1>2, <1>3, <1>4 DEF Base

LEMMA TimePassesKeeps ==
  ASSUME Base, Gates, TimePasses
  PROVE  Kept
<1>1. late' \in BOOLEAN /\ UNCHANGED <<run, hist, loop, work>>
  BY DEF TimePasses
<1>2. Base' /\ Gates'
  BY <1>1, StutterKeeps
<1>3. loop.invoked \in Nat
  BY DEF Base, Typed, Loops
<1>4. BreakerStays
  BY <1>1, <1>3 DEF Base, BreakerInv, BreakerStays, InFastFallback, Tripped
<1>5. QED
  BY <1>2, <1>4 DEF Kept

\* The node is executed again: the loop starts over, a verdict that passed is overruled.
LEMMA CrashResumeKeeps ==
  ASSUME Base, Gates, CrashResume
  PROVE  Kept
<1>1. Typed /\ BreakerInv /\ run \in Runs /\ Tripped(run.bag)
  BY DEF Base, Typed, BreakerInv
<1> DEFINE overruled == hist.overruled \/ (run.node = "critic" /\ CriticPasses(run))
<1>2. /\ run.status = "RUNNING" /\ run' = [run EXCEPT !.pc = "node", !.attempt = 1]
      /\ loop' = Off(loop.caps) /\ work' = NoWork /\ UNCHANGED late
      /\ hist' = [hist EXCEPT !.overruled = overruled]
  BY <1>1 DEF CrashResume, Typed, Hists
<1>3. run' \in Runs /\ run'.pc = "node" /\ run'.bag = run.bag
  BY <1>1, <1>2, FirstAttempt DEF Runs
<1>4. SameRun(run', run)
  BY <1>1, <1>2 DEF Runs, SameRun
<1>5. overruled \in BOOLEAN
  BY <1>1 DEF Typed, Hists
<1>6. /\ run.node = "critic" /\ CriticPasses(run) => overruled
      /\ hist.overruled => overruled
  OBVIOUS
<1> HIDE DEF overruled
<1>7. hist' \in Hists /\ hist'.overruled = overruled
  BY <1>1, <1>2, <1>5 DEF Typed, Hists
<1>8. hist'.contradicted = hist.contradicted /\ hist'.delivered = hist.delivered
  BY <1>1, <1>2 DEF Typed, Hists
<1>9. hist'.signed = hist.signed /\ hist'.judged = hist.judged /\ hist'.own = hist.own
  BY <1>1, <1>2 DEF Typed, Hists
<1>10. late' \in BOOLEAN
  BY <1>1, <1>2 DEF Typed
<1>11. Base' /\ BreakerStays
  BY <1>1, <1>2, <1>3, <1>7, <1>10, LoopOverKeeps
<1>12. Older => Older'
  BY <1>6, <1>7, <1>8 DEF Older
<1>13. AtVerdict /\ CriticPasses(run) => hist'.overruled
  BY <1>6, <1>7 DEF AtVerdict
<1>14. run.node # "deliver" => (run.score = "high" \/ run.approved = "yes" => Older')
  BY <1>12, <1>13, LeavingVerdict DEF Gates
<1>15. JudgeInv'
  BY <1>2, <1>3, <1>4, <1>8, <1>9, <1>12, <1>14
     DEF Gates, JudgeInv, AtVerdict, SameRun
<1>16. GuardInv'
  BY <1>3, <1>4 DEF Gates, GuardInv, SameRun
<1>17. WriteInv'
  BY <1>3, <1>4 DEF Gates, WriteInv, SameRun
<1>18. QED
  BY <1>11, <1>15, <1>16, <1>17 DEF Kept, Gates

-----------------------------------------------------------------------------
(* The invariant, and what it shows.                                       *)

LEMMA InitKeeps ==
  ASSUME Init
  PROVE  ResearchInv
<1>1. PICK request \in StartRequests, caps \in Caps :
        LET c == Resolve(request.preset, request.override)
        IN  /\ run = [status |-> "RUNNING", node |-> "planner", pc |-> "node", config |-> c,
                      bag |-> NewBag(NewBudget(c.max_tokens, c.max_steps)),
                      dynamic |-> FALSE, queue |-> <<>>, plan |-> <<>>, draft |-> FALSE,
                      guarded |-> FALSE, score |-> "absent", approved |-> "no",
                      revisions |-> 0, human |-> 0,
                      attempt |-> 1]
            /\ loop = Off(caps)
            /\ work = NoWork
  BY DEF Init
<1> DEFINE c == Resolve(request.preset, request.override)
           b == NewBag(NewBudget(c.max_tokens, c.max_steps))
<1>2. c \in Configs
  BY DEF Configs
<1>3. b \in Bags /\ Tripped(b) /\ ~b.budget.triggered
  <2> HIDE DEF c
  <2>1. QED
    BY <1>2, ConfigType, NewBagType
<1>4. run = [status |-> "RUNNING", node |-> "planner", pc |-> "node", config |-> c, bag |-> b,
             dynamic |-> FALSE, queue |-> <<>>, plan |-> <<>>, draft |-> FALSE,
             guarded |-> FALSE, score |-> "absent", approved |-> "no",
             revisions |-> 0, human |-> 0, attempt |-> 1]
  BY <1>1
<1> HIDE DEF c, b
<1>5. run \in Runs
  <2>1. <<>> \in Seq(PlanNodes) /\ <<>> \in Seq(DOMAIN PlanTypeToNode)
    BY EmptySeq
  <2>2. "planner" \in AgentNodes
    BY AgentNodesAre
  <2>3. 0 \in 0 .. MaxAutoRevisions /\ 0 \in 0 .. MaxHumanRevisions
    BY ResearchAssumption
  <2>4. QED
    BY <1>2, <1>3, <1>4, <2>1, <2>2, <2>3, FirstAttempt DEF Runs, Statuses, Approvals
<1>6. run.node = "planner" /\ run.pc = "node" /\ run.status = "RUNNING" /\ run.bag = b
      /\ run.queue = <<>> /\ run.score = "absent"
  BY <1>4
<1>7. run.approved = "no" /\ ~run.draft
  BY <1>4
<1>8. /\ hist = [auto |-> 0, contradicted |-> FALSE, uncounted |-> FALSE, judged |-> FALSE,
                 own |-> FALSE, overruled |-> FALSE, signed |-> FALSE, delivered |-> FALSE,
                 brief |-> NoBrief]
      /\ late = FALSE
  BY DEF Init
<1>9. hist \in Hists /\ ~hist.delivered /\ late \in BOOLEAN
  BY <1>8 DEF Hists, Briefs
<1>10. loop \in Loops /\ loop.pc = "off" /\ loop.invoked = 0
  BY <1>1, OffType
<1>11. work \in Bags /\ Tripped(work)
  BY <1>1, NoWorkType
<1>12. Typed
  BY <1>5, <1>6, <1>9, <1>10, <1>11 DEF Typed
<1>13. LoopInv /\ BreakerInv
  BY <1>3, <1>6, <1>10, <1>11 DEF LoopInv, BreakerInv
<1>14. JudgeInv
  BY <1>6, <1>7, <1>9 DEF JudgeInv, AtVerdict
<1>15. GuardInv
  BY <1>6, <1>7 DEF GuardInv, FollowedByGuard
<1>16. WriteInv
  BY <1>6 DEF WriteInv, BeforeWriter
<1>17. QED
  BY <1>12, <1>13, <1>14, <1>15, <1>16 DEF ResearchInv

LEMMA NextKeeps ==
  ASSUME Base, Gates, Next
  PROVE  Kept
<1>1. CASE NodeStep
  <2>1. ASSUME NEW cost \in CallCosts, Write(cost)
        PROVE  Kept
    BY <2>1, WriteKeeps
  <2>2. ASSUME NEW cost \in CallCosts, NEW answer \in PlanAnswers, Planner(answer, cost)
        PROVE  Kept
    BY <2>2, PlannerKeeps
  <2>3. ASSUME NEW cost \in CallCosts, NEW own \in BOOLEAN, ResearchInOneShot(cost, own)
        PROVE  Kept
    BY <2>3, ResearchInOneShotKeeps
  <2>4. ASSUME NEW cost \in CallCosts, NEW score \in Scores,
               NEW approved \in Approvals \cup {"absent"}, Criticise(cost, score, approved)
        PROVE  Kept
    BY <2>4, CriticiseKeeps
  <2>5. QED
    BY <1>1, <2>1, <2>2, <2>3, <2>4, PlannerFailsKeeps, KnowledgeLookupKeeps,
       StartResearchKeeps, ResearchKeeps, EndResearchKeeps, AttemptFailsKeeps,
       SourceGuardKeeps, DeliverKeeps, NodeFailsKeeps DEF NodeStep
<1>2. CASE RouteStep
  BY <1>2, FollowPlanKeeps, FollowEdgeKeeps, AutoDeliverKeeps, AutoReviseKeeps,
     AskHumanKeeps, CompleteKeeps DEF RouteStep
<1>3. QED
  BY <1>1, <1>2, ApproveKeeps, RejectKeeps, ReviseKeeps, TimePassesKeeps, CrashResumeKeeps
     DEF Next

LEMMA InvParts == ResearchInv <=> Base /\ Gates
  BY DEF ResearchInv, Base, Gates

\* The inductive invariant of the research run: the types and the limits of its tool loop,
\* the breaker's mode, and where a draft nobody judged, guarded or wrote can be.
THEOREM ResearchInvariant == Spec => []ResearchInv
<1>1. Init => ResearchInv
  BY InitKeeps
<1>2. ResearchInv /\ [Next]_vars => ResearchInv'
  <2> SUFFICES ASSUME ResearchInv, [Next]_vars
               PROVE  ResearchInv'
    OBVIOUS
  <2>1. Base /\ Gates
    BY InvParts
  <2>2. CASE Next
    <3>1. Base' /\ Gates'
      BY <2>1, <2>2, NextKeeps DEF Kept
    <3>2. QED
      BY <3>1 DEF ResearchInv, Base, Gates
  <2>3. CASE UNCHANGED vars
    <3>1. UNCHANGED <<run, hist, loop, work>> /\ late' \in BOOLEAN
      BY <2>1, <2>3 DEF vars, Base, Typed
    <3>2. Base' /\ Gates'
      BY <2>1, <3>1, StutterKeeps
    <3>3. QED
      BY <3>2 DEF ResearchInv, Base, Gates
  <2>4. QED
    BY <2>2, <2>3
<1>3. QED
  BY <1>1, <1>2, PTL DEF Spec

\* The values of the code: a run's limits lie between 1 and the ceiling whatever was asked
\* for, its queue holds nodes of the graph whatever the planner answered.
THEOREM TypeCorrect == Spec => []TypeOK
<1>1. ResearchInv => TypeOK
  <2> SUFFICES ASSUME ResearchInv
               PROVE  TypeOK
    OBVIOUS
  <2>1. Typed /\ run \in Runs
    BY DEF ResearchInv, Typed
  <2>2. run.queue \in Seq(AgentNodes)
    <3>1. run.queue \in Seq(PlanNodes)
      BY <2>1 DEF Runs
    <3>2. PlanNodes \subseteq AgentNodes
      BY AgentNodesAre DEF PlanNodes
    <3>3. QED
      BY <3>1, <3>2, SeqMonotonic
  <2>3. /\ run.status \in Statuses /\ run.node \in AgentNodes
        /\ run.pc \in {"node", "loop", "route"} /\ run.bag \in Bags
        /\ run.score \in {"absent", "low", "high", "junk"} /\ run.approved \in Approvals
        /\ run.revisions \in 0 .. MaxAutoRevisions /\ run.attempt \in 1 .. MaxAttempts
        /\ run.human \in 0 .. MaxHumanRevisions
    BY <2>1 DEF Runs
  <2>4. loop.pc \in {"off", "turn", "final"}
    BY <2>1 DEF Typed, Loops
  <2>5. QED
    BY <2>1, <2>2, <2>3, <2>4 DEF TypeOK, Typed, Statuses
<1>2. QED
  BY <1>1, ResearchInvariant, PTL

\* The hard cap on tool calls: no pass of an agent calls more tools than max_tool_calls.
THEOREM CallsAreCapped == Spec => []ToolCallsCapped
<1>1. ResearchInv => ToolCallsCapped
  <2> SUFFICES ASSUME ResearchInv
               PROVE  ToolCallsCapped
    OBVIOUS
  <2>1. loop \in Loops /\ LoopInv
    BY DEF ResearchInv, Typed
  <2>2. loop.caps \in Caps /\ loop.calls \in Nat /\ loop.invoked \in Nat
        /\ loop.pc \in {"off", "turn", "final"}
    BY <2>1 DEF Loops
  <2>3. loop.caps.calls \in Nat
    BY <2>2, ReactAssumption
  <2>4. QED
    BY <2>1, <2>2, <2>3 DEF LoopInv, ToolCallsCapped
<1>2. QED
  BY <1>1, ResearchInvariant, PTL

\* The tool loop passes the token limit of the run by one call of the model at the most.
THEOREM OvershootBounded == Spec => []OvershootIsOneCall
<1>1. ResearchInv => OvershootIsOneCall
  <2> SUFFICES ASSUME ResearchInv, loop.pc # "off"
               PROVE  \E cost \in CallCosts :
                        work.budget.tokens =< work.budget.max_tokens + cost
    BY DEF OvershootIsOneCall
  <2>1. loop.pc \in {"turn", "final"} /\ LoopInv /\ LoopFit
    BY DEF ResearchInv, Typed, BreakerInv, Loops, LoopFit
  <2>2. CASE loop.pc = "turn"
    BY <2>1, <2>2, NearWork DEF Near
  <2>3. CASE loop.pc = "final"
    BY <2>1, <2>3 DEF LoopInv
  <2>4. QED
    BY <2>1, <2>2, <2>3
<1>2. QED
  BY <1>1, ResearchInvariant, PTL

\* Where the fact check is on, nothing is delivered whose last draft has not been through
\* the source guard: the plan's expansion puts it behind every writer.
THEOREM DeliveryIsGuarded == Spec => []DeliveredIsGuarded
<1>1. ResearchInv => DeliveredIsGuarded
  BY DEF ResearchInv, JudgeInv, GuardInv, DeliveredIsGuarded
<1>2. QED
  BY <1>1, ResearchInvariant, PTL

\* The quality gate: what is delivered was signed by a human or judged since it was last
\* written, and let pass by a verdict of its own, but for the two ways an older one counts.
THEOREM DeliveryIsJudged == Spec => []DeliveredIsJudged
<1>1. ResearchInv => DeliveredIsJudged
  BY DEF ResearchInv, JudgeInv, Older, DeliveredIsJudged
<1>2. QED
  BY <1>1, ResearchInvariant, PTL

\* Nothing is delivered that was never written, unless the plan has no writer in it.
THEOREM DeliveryIsWritten == Spec => []DeliveredIsWritten
<1>1. ResearchInv => DeliveredIsWritten
  <2> SUFFICES ASSUME ResearchInv, hist.delivered
               PROVE  run.draft \/ ~(\E i \in DOMAIN run.plan : run.plan[i] = "write")
    BY DEF DeliveredIsWritten
  <2>1. Gates /\ run.node = "deliver" /\ run.queue = <<>>
    BY DEF ResearchInv, Gates, JudgeInv, GuardInv
  <2>2. QED
    BY <2>1, BehindCritic
<1>2. QED
  BY <1>1, ResearchInvariant, PTL

\* A tripped breaker stays tripped and calls no tool: through every node, a planner that
\* asks for the agentic path, a retry, a human's decision, and a crash.
THEOREM BreakerStaysTripped == Spec => BreakerIsFinal
<1>1. ResearchInv /\ [Next]_vars =>
        [run.bag.budget.triggered =>
           /\ InFastFallback(run'.bag.budget) /\ run'.bag.budget.mode = "fast_fallback"
           /\ run'.bag.budget.triggered
           /\ loop'.invoked =< loop.invoked]_vars
  BY InvParts, NextKeeps DEF Kept, BreakerStays
<1>2. QED
  BY <1>1, ResearchInvariant, PTL DEF Spec, BreakerIsFinal


-----------------------------------------------------------------------------
(* The researcher's brief, followed into the state and to the writer.      *)

\* A bag holds a brief: in the state, and in the plan unless the plan has none.
Held(bag, brief) ==
  brief # NoBrief => bag.brief = brief /\ bag.plan.brief \in {brief, NoBrief}

\* What the pass that has just ended leaves, or the pass before it left.
LastBrief == IF PassBrief = NoBrief THEN hist.brief ELSE PassBrief

\* The last brief is in the run's bag; a running pass has not touched its copy of it, and
\* a pass that is over holds its own brief, or the one before.
BriefInv ==
  /\ Held(run.bag, hist.brief)
  /\ loop.pc = "turn" =>
       loop.own = NoBrief /\ work.brief = run.bag.brief /\ work.plan = run.bag.plan
  /\ loop.pc = "final" => Held(work, LastBrief)

SameBrief(v, w) == v.brief = w.brief /\ v.plan = w.plan

LEMMA SpendKeepsBrief ==
  ASSUME NEW w \in Bags, NEW cost
  PROVE  SameBrief(Spend(w, cost), w)
  BY DEF Spend, SameBrief, Bags

\* No node but the researcher touches a brief.
LEMMA NodeBriefs ==
  ASSUME Typed, BreakerInv
  PROVE  /\ SameBrief(Bag, run.bag)
         /\ SameBrief(ToolResult.bag, run.bag)
         /\ \A cost \in CallCosts : SameBrief(Result(Spend(Bag, cost)).bag, run.bag)
         /\ \A bag \in Bags : SameBrief(Result(bag).bag, bag)
<1>1. run \in Runs /\ run.bag \in Bags /\ Bag \in Bags /\ Tripped(Bag)
  BY BagFields
<1>2. SameBrief(Bag, run.bag)
  BY <1>1 DEF Bag, SameBrief, Bags
<1>3. ASSUME NEW bag \in Bags
      PROVE  SameBrief(Result(bag).bag, bag)
  <2> DEFINE v == [bag EXCEPT !.budget = Breaker(@, late)]
  <2>1. SameBrief(v, bag)
    BY DEF SameBrief, Bags
  <2>2. Result(bag) = [run EXCEPT !.pc = "route", !.bag = v]
    BY DEF Result
  <2> HIDE DEF v
  <2>3. Result(bag).bag = v
    BY <1>1, <2>2 DEF Runs
  <2>4. QED
    BY <2>1, <2>3
<1> HIDE DEF Bag
<1>4. SameBrief(ToolResult.bag, run.bag)
  <2> DEFINE v == [Bag EXCEPT !.budget = RecordStep(@)]
  <2>1. v \in Bags
    BY <1>1, Stepping
  <2>2. SameBrief(v, Bag)
    BY <1>1 DEF SameBrief, Bags
  <2>3. ToolResult = Result(v)
    BY DEF ToolResult
  <2> HIDE DEF v
  <2>4. QED
    BY <1>2, <1>3, <2>1, <2>2, <2>3 DEF SameBrief
<1>5. ASSUME NEW cost \in CallCosts
      PROVE  SameBrief(Result(Spend(Bag, cost)).bag, run.bag)
  <2>1. Spend(Bag, cost) \in Bags
    BY <1>1, Spent
  <2>2. SameBrief(Spend(Bag, cost), Bag)
    BY <1>1, SpendKeepsBrief
  <2>3. QED
    BY <1>2, <1>3, <2>1, <2>2 DEF SameBrief
<1>6. QED
  BY <1>2, <1>3, <1>4, <1>5

\* A step after which no pass is running and the brief is the one of before.
LEMMA QuietKeepsBrief ==
  ASSUME BriefInv, loop'.pc = "off", SameBrief(run'.bag, run.bag), hist'.brief = hist.brief
  PROVE  BriefInv'
<1>1. Held(run.bag, hist.brief)'
  BY DEF BriefInv, Held, SameBrief
<1>2. QED
  BY <1>1 DEF BriefInv

\* A step outside the loop leaves it off.
LEMMA OutsideIsOff ==
  ASSUME Typed, run.pc # "loop", UNCHANGED loop
  PROVE  loop'.pc = "off"
  BY DEF Typed

LEMMA FinalHolds ==
  ASSUME NEW w \in Bags, NEW brief \in Briefs, NEW last \in Briefs,
         IF brief # NoBrief /\ ~w.plan.set THEN last = brief ELSE Held(w, last)
  PROVE  Held(FinalPayload(w, brief), last)
<1> DEFINE b == IF w.plan.set THEN w.plan.brief ELSE brief
           p == [set |-> TRUE, brief |-> b]
           k == IF b = NoBrief THEN w.brief ELSE b
           f == FinalPayload(w, brief)
<1>1. f = [w EXCEPT !.plan = p, !.brief = k]
  BY DEF FinalPayload, ApplyPayload
<1>2. p.brief = b
  OBVIOUS
<1> HIDE DEF b, p, k, f
<1>3. f.plan = p /\ f.brief = k
  BY <1>1 DEF Bags
<1>4. CASE brief # NoBrief /\ ~w.plan.set
  <2>1. b = brief /\ k = brief /\ last = brief
    BY <1>4 DEF b, k
  <2>2. QED
    BY <1>2, <1>3, <2>1 DEF Held, f
<1>5. CASE ~(brief # NoBrief /\ ~w.plan.set)
  <2>1. Held(w, last)
    BY <1>5
  <2>2. last # NoBrief => b \in {last, NoBrief} /\ k = last
    BY <1>5, <2>1 DEF Held, b, k
  <2>3. QED
    BY <1>2, <1>3, <2>2 DEF Held, f
<1>6. QED
  BY <1>4, <1>5

LEMMA SynthesisHolds ==
  ASSUME NEW w \in Bags, NEW own \in BOOLEAN, NEW last \in Briefs,
         IF own THEN last = "synthesis" ELSE Held(w, last)
  PROVE  Held(Synthesize(w, own), last)
<1> DEFINE brief == IF own \/ w.brief = NoBrief THEN "synthesis" ELSE w.brief
           p == [set |-> TRUE, brief |-> brief]
           s == Synthesize(w, own)
<1>1. s = [w EXCEPT !.plan = p, !.brief = brief, !.done = TRUE]
  BY DEF Synthesize
<1>2. p.brief = brief
  OBVIOUS
<1>3. last # NoBrief => brief = last
  BY DEF Held
<1> HIDE DEF brief, p, s
<1>4. s.plan = p /\ s.brief = brief
  BY <1>1 DEF Bags
<1>5. QED
  BY <1>2, <1>3, <1>4 DEF Held, s

\* The turns of a pass whose copy is the run's own bag so far.
InPass ==
  /\ Typed /\ BreakerInv /\ BriefInv
  /\ loop.pc = "turn" /\ UNCHANGED <<run, hist>>

LEMMA EndWithHolds ==
  ASSUME InPass, NEW w \in Bags, SameBrief(w, work),
         NEW brief \in {NoBrief, "answer"}, EndWith(w, brief)
  PROVE  BriefInv'
<1>1. loop \in Loops /\ hist \in Hists
  BY DEF InPass, Typed
<1>2. loop'.pc = "final" /\ loop'.own = brief
  BY <1>1 DEF EndWith, Loops
<1>3. w.brief = run.bag.brief /\ w.plan = run.bag.plan /\ Held(run.bag, hist.brief)
  BY DEF InPass, BriefInv, SameBrief
<1> DEFINE last == IF brief = NoBrief \/ run.bag.plan.set THEN hist.brief ELSE brief
<1>4. last \in Briefs
  BY <1>1 DEF Hists, Briefs
<1>5. IF brief # NoBrief /\ ~w.plan.set THEN last = brief ELSE Held(w, last)
  BY <1>3 DEF Held
<1>6. LastBrief' = last
  BY <1>2 DEF LastBrief, PassBrief, InPass, NoBrief
<1>7. work' = FinalPayload(w, brief) /\ brief \in Briefs
  BY DEF EndWith, Briefs
<1> HIDE DEF last
<1>8. Held(work', last)
  BY <1>4, <1>5, <1>7, FinalHolds
<1>9. run'.bag = run.bag /\ hist'.brief = hist.brief
  BY DEF InPass
<1>10. Held(work, LastBrief)'
  BY <1>6, <1>8 DEF Held
<1>11. Held(run.bag, hist.brief)'
  BY <1>3, <1>9 DEF Held
<1>12. QED
  BY <1>2, <1>10, <1>11 DEF BriefInv

LEMMA SynthesisEndHolds ==
  ASSUME InPass, NEW w \in Bags, SameBrief(w, work), NEW own \in BOOLEAN,
         NEW v \in Bags, SameBrief(v, Synthesize(w, own)),
         loop'.pc = "final", loop'.own = IF own THEN "synthesis" ELSE NoBrief,
         work' = FinalPayload(v, NoBrief)
  PROVE  BriefInv'
<1>1. hist \in Hists
  BY DEF InPass, Typed
<1>2. w.brief = run.bag.brief /\ w.plan = run.bag.plan /\ Held(run.bag, hist.brief)
  BY DEF InPass, BriefInv, SameBrief
<1> DEFINE last == IF own THEN "synthesis" ELSE hist.brief
<1>3. last \in Briefs /\ NoBrief \in Briefs
  BY <1>1 DEF Hists, Briefs
<1>4. IF own THEN last = "synthesis" ELSE Held(w, last)
  BY <1>2 DEF Held
<1>5. LastBrief' = last
  BY DEF LastBrief, PassBrief, InPass, NoBrief
<1> HIDE DEF last
<1>6. Held(Synthesize(w, own), last)
  BY <1>3, <1>4, SynthesisHolds
<1>7. Held(v, last)
  BY <1>6 DEF Held, SameBrief
<1>8. Held(work', last)
  BY <1>3, <1>7, FinalHolds
<1>9. Held(work, LastBrief)'
  BY <1>5, <1>8 DEF Held
<1>10. Held(run.bag, hist.brief)'
  BY <1>2 DEF Held, InPass
<1>11. QED
  BY <1>9, <1>10 DEF BriefInv

LEMMA EndBySynthesisHolds ==
  ASSUME InPass, NEW w \in Bags, Tripped(w), SameBrief(w, work), NEW own \in BOOLEAN,
         EndBySynthesis(w, own)
  PROVE  BriefInv'
<1> DEFINE s == Synthesize(w, own)
           v == [s EXCEPT !.budget = RecordStep(@)]
<1>1. s \in Bags /\ s.budget = w.budget
  BY SynthesizeType
<1>2. work' = FinalPayload(v, NoBrief)
  BY DEF EndBySynthesis
<1>3. loop'.pc = "final" /\ loop'.own = IF own THEN "synthesis" ELSE NoBrief
  <2> DEFINE o == IF own THEN "synthesis" ELSE NoBrief
  <2>1. loop' = [loop EXCEPT !.pc = "final", !.calls = loop.calls + 1,
                             !.invoked = loop.invoked + 1, !.own = o]
    BY DEF EndBySynthesis
  <2>2. loop \in Loops
    BY DEF InPass, Typed
  <2> HIDE DEF o
  <2>3. loop'.pc = "final" /\ loop'.own = o
    BY <2>1, <2>2 DEF Loops
  <2>4. QED
    BY <2>3 DEF o
<1> HIDE DEF s
<1>4. v \in Bags
  BY <1>1, Stepping DEF Tripped
<1>5. SameBrief(v, s)
  BY <1>1 DEF SameBrief, Bags
<1> HIDE DEF v
<1>6. QED
  BY <1>2, <1>3, <1>4, <1>5, SynthesisEndHolds DEF s

\* Every turn of a pass.
LEMMA LoopStepHolds ==
  ASSUME InPass, LoopStep(late)
  PROVE  BriefInv'
<1>1. work \in Bags /\ Tripped(work) /\ SameBrief(work, work) /\ loop \in Loops
  BY DEF InPass, Typed, BreakerInv, SameBrief
<1>2. ASSUME NEW cost \in CallCosts
      PROVE  /\ Spend(work, cost) \in Bags /\ Tripped(Spend(work, cost))
             /\ SameBrief(Spend(work, cost), work)
  BY <1>1, Spent, SpendKeepsBrief
<1>3. CASE ForceSynthesis
  BY <1>1, <1>3, EndBySynthesisHolds DEF ForceSynthesis
<1>4. CASE StopUnaffordable(late)
  BY <1>1, <1>4, EndBySynthesisHolds, EndWithHolds DEF StopUnaffordable
<1>5. CASE IterationsOver
  <2>1. CASE work.done
    BY <1>1, <1>5, <2>1, EndWithHolds DEF IterationsOver
  <2>2. CASE ~work.done
    <3> DEFINE s == Synthesize(work, FALSE)
               i == loop.invoked + 1
    <3>1. loop' = [loop EXCEPT !.pc = "final", !.invoked = i] /\ work' = FinalPayload(s, NoBrief)
      BY <1>5, <2>2 DEF IterationsOver
    <3> HIDE DEF i
    <3>2. loop'.pc = "final" /\ loop'.own = IF FALSE THEN "synthesis" ELSE NoBrief
      BY <1>1, <3>1 DEF Loops, InPass, BriefInv
    <3>3. s \in Bags /\ SameBrief(s, s)
      BY <1>1, SynthesizeType DEF SameBrief
    <3>4. QED
      BY <1>1, <3>1, <3>2, <3>3, SynthesisEndHolds, Zenon
  <2>3. QED
    BY <2>1, <2>2
<1>6. ASSUME NEW cost \in CallCosts, NEW known \in BOOLEAN, UseTool(cost, late, known)
      PROVE  BriefInv'
  <2> DEFINE w == Spend(work, cost)
             c == loop.calls + 1
             n == loop.iter + 1
             i == IF known THEN loop.invoked + 1 ELSE loop.invoked
  <2>1. loop' = [loop EXCEPT !.iter = n, !.calls = c, !.invoked = i]
        /\ work' = [w EXCEPT !.budget = RecordStep(@)]
    BY <1>6 DEF UseTool
  <2>2. w \in Bags /\ SameBrief(w, work)
    BY <1>2
  <2> HIDE DEF w, c, n, i
  <2>3. loop'.pc = "turn" /\ loop'.own = NoBrief
    BY <1>1, <2>1 DEF Loops, InPass, BriefInv
  <2>4. SameBrief(work', work)
    BY <2>1, <2>2 DEF SameBrief, Bags
  <2>5. QED
    BY <2>3, <2>4 DEF InPass, BriefInv, SameBrief, Held
<1>7. ASSUME NEW cost \in CallCosts, RefuseTool(cost, late)
      PROVE  BriefInv'
  BY <1>2, <1>7, EndBySynthesisHolds, EndWithHolds DEF RefuseTool
<1>8. ASSUME NEW cost \in CallCosts, ReplaceTool(cost, late)
      PROVE  BriefInv'
  BY <1>2, <1>8, EndBySynthesisHolds DEF ReplaceTool
<1>9. ASSUME NEW cost \in CallCosts, NEW own \in BOOLEAN, CallSynthesize(cost, late, own)
      PROVE  BriefInv'
  BY <1>2, <1>9, EndBySynthesisHolds DEF CallSynthesize
<1>10. ASSUME NEW cost \in CallCosts, NEW own \in BOOLEAN, Answer(cost, late, own)
       PROVE  BriefInv'
  <2> DEFINE brief == IF own THEN "answer" ELSE NoBrief
  <2>1. EndWith(Spend(work, cost), brief) /\ brief \in {NoBrief, "answer"}
    BY <1>10 DEF Answer
  <2> HIDE DEF brief
  <2>2. QED
    BY <1>2, <2>1, EndWithHolds
<1>11. QED
  BY <1>3, <1>4, <1>5, <1>6, <1>7, <1>8, <1>9, <1>10 DEF LoopStep

LEMMA StartResearchHolds ==
  ASSUME Typed, BreakerInv, BriefInv, StartResearch
  PROVE  BriefInv'
<1>1. run \in Runs /\ Bag \in Bags /\ SameBrief(Bag, run.bag) /\ loop \in Loops
  BY BagFields, NodeBriefs DEF Typed
<1>2. /\ loop' = [Off(loop.caps) EXCEPT !.pc = "turn"] /\ work' = Bag
      /\ run' = [run EXCEPT !.pc = "loop", !.bag = Bag] /\ UNCHANGED hist
  BY DEF StartResearch
<1> DEFINE off == Off(loop.caps)
<1>3. off \in Loops /\ off.own = NoBrief
  BY <1>1, OffType DEF Loops
<1> HIDE DEF Bag, off
<1>4. loop'.pc = "turn" /\ loop'.own = NoBrief
  BY <1>2, <1>3 DEF Loops, off
<1>5. run'.bag = Bag
  BY <1>1, <1>2 DEF Runs
<1>6. work'.brief = run'.bag.brief /\ work'.plan = run'.bag.plan
  BY <1>2, <1>5
<1>7. Held(run.bag, hist.brief)'
  BY <1>1, <1>2, <1>5 DEF BriefInv, Held, SameBrief
<1>8. QED
  BY <1>4, <1>6, <1>7 DEF BriefInv

\* The end of a pass: its bag, and its brief if it made one.
LEMMA EndResearchHolds ==
  ASSUME Typed, BreakerInv, BriefInv, EndResearch
  PROVE  BriefInv'
<1>1. run \in Runs /\ loop \in Loops /\ work \in Bags /\ Tripped(work) /\ loop.pc = "final"
  BY DEF Typed, BreakerInv, EndResearch
<1> DEFINE r == Result(work)
<1>2. loop' = Off(loop.caps) /\ run' = [r EXCEPT !.attempt = 1] /\ hist' = Briefed(PassBrief)
  BY DEF EndResearch
<1>3. loop'.pc = "off"
  BY <1>2 DEF Off
<1>4. r \in Runs /\ SameBrief(r.bag, work)
  BY <1>1, ResultFields, NodeBriefs
<1> HIDE DEF r
<1>5. run'.bag = r.bag
  BY <1>2, <1>4 DEF Runs
<1>6. hist'.brief = LastBrief
  <2>1. PassBrief \in Briefs
    BY <1>1 DEF PassBrief, Loops, Briefs
  <2>2. QED
    BY <1>2, <2>1, BriefedFields DEF LastBrief
<1>7. Held(work, LastBrief)
  BY <1>1 DEF BriefInv
<1>8. Held(run.bag, hist.brief)'
  BY <1>4, <1>5, <1>6, <1>7 DEF Held, SameBrief
<1>9. QED
  BY <1>3, <1>8 DEF BriefInv

LEMMA ResearchInOneShotHolds ==
  ASSUME Typed, BreakerInv, BriefInv, NEW cost \in CallCosts, NEW own \in BOOLEAN,
         ResearchInOneShot(cost, own)
  PROVE  BriefInv'
<1> DEFINE brief == IF own THEN "answer" ELSE NoBrief
           w == Spend(Bag, cost)
           v == ApplyPayload(w, brief)
<1>1. run.pc = "node" /\ run' = Result(v) /\ hist' = Briefed(brief) /\ UNCHANGED loop
  BY DEF ResearchInOneShot, At, Outside
<1>2. loop'.pc = "off"
  BY <1>1, OutsideIsOff
<1>3. Bag \in Bags /\ Tripped(Bag) /\ SameBrief(Bag, run.bag)
  BY BagFields, NodeBriefs
<1> HIDE DEF Bag
<1>4. w \in Bags /\ SameBrief(w, run.bag)
  BY <1>3, Spent, SpendKeepsBrief DEF SameBrief
<1>5. brief \in Briefs
  BY DEF Briefs
<1> HIDE DEF w, brief
<1>6. v \in Bags
  BY <1>4, <1>5, FinalType
<1>7. v.plan.brief = brief /\ v.brief = IF brief = NoBrief THEN w.brief ELSE brief
  <2> DEFINE p == [set |-> TRUE, brief |-> brief]
             k == IF brief = NoBrief THEN w.brief ELSE brief
  <2>1. v = [w EXCEPT !.plan = p, !.brief = k]
    BY DEF ApplyPayload
  <2>2. p.brief = brief
    OBVIOUS
  <2> HIDE DEF p, k, v
  <2>3. v.plan = p /\ v.brief = k
    BY <1>4, <2>1 DEF Bags
  <2>4. QED
    BY <2>2, <2>3 DEF k
<1> HIDE DEF v
<1>8. SameBrief(run'.bag, v)
  BY <1>1, <1>6, NodeBriefs
<1>9. hist'.brief = IF brief = NoBrief THEN hist.brief ELSE brief
  BY <1>1, <1>5, BriefedFields
<1>10. Held(run.bag, hist.brief)
  BY DEF BriefInv
<1>11. Held(run.bag, hist.brief)'
  BY <1>4, <1>7, <1>8, <1>9, <1>10 DEF Held, SameBrief
<1>12. QED
  BY <1>2, <1>11 DEF BriefInv

\* The nodes before and after the researcher, the decisions and a crash leave it alone.
LEMMA PlannerHolds ==
  ASSUME Typed, BreakerInv, BriefInv, NEW answer \in PlanAnswers, NEW cost \in CallCosts,
         Planner(answer, cost)
  PROVE  BriefInv'
<1> DEFINE r == Result(Spend(Bag, cost))
           mode == ModeOf(answer, r.bag.budget.triggered)
           b == [r.bag.budget EXCEPT !.mode = mode]
           bag == [r.bag EXCEPT !.budget = b]
           plan == PlanOf(answer, run.plan)
           queue == IF run.config.dynamic_planning
                    THEN ExpandPlanToNodes(plan, run.config.fact_check_critic) ELSE <<>>
<1>1. run.pc = "node" /\ UNCHANGED <<loop, hist>>
  BY DEF Planner, At, Outside
<1>2. r \in Runs /\ r.bag \in Bags /\ SameBrief(r.bag, run.bag)
  BY SpentResultFields, NodeBriefs DEF Runs
<1>3. run' = [r EXCEPT !.plan = plan, !.bag = bag, !.dynamic = run.config.dynamic_planning,
                       !.queue = queue]
  BY <1>2 DEF Planner, Runs
<1> HIDE DEF r, b, plan, queue
<1>4. SameBrief(bag, r.bag)
  BY <1>2 DEF SameBrief, Bags
<1> HIDE DEF bag
<1>5. run'.bag = bag
  BY <1>2, <1>3 DEF Runs
<1>6. loop'.pc = "off"
  BY <1>1, OutsideIsOff
<1>7. QED
  BY <1>1, <1>2, <1>4, <1>5, <1>6, QuietKeepsBrief DEF SameBrief

LEMMA PlannerFailsHolds ==
  ASSUME Typed, BreakerInv, BriefInv, PlannerFails
  PROVE  BriefInv'
<1> DEFINE b == [Bag.budget EXCEPT !.mode = "fast_fallback"]
           bag == [Bag EXCEPT !.budget = b]
<1>1. run.pc = "node" /\ UNCHANGED <<loop, hist>>
  BY DEF PlannerFails, At, Outside
<1>2. run \in Runs /\ Bag \in Bags /\ SameBrief(Bag, run.bag)
  BY BagFields, NodeBriefs
<1>3. run' = [run EXCEPT !.node = Static["planner"], !.bag = bag, !.plan = DefaultPlan,
                         !.dynamic = FALSE, !.queue = <<>>]
  BY <1>2 DEF PlannerFails, Runs
<1> HIDE DEF b, Bag
<1>4. SameBrief(bag, Bag)
  BY <1>2 DEF SameBrief, Bags
<1> HIDE DEF bag
<1>5. run'.bag = bag
  BY <1>2, <1>3 DEF Runs
<1>6. loop'.pc = "off"
  BY <1>1, OutsideIsOff
<1>7. QED
  BY <1>1, <1>2, <1>4, <1>5, <1>6, QuietKeepsBrief DEF SameBrief

LEMMA NodeHolds ==
  ASSUME Typed, BreakerInv, BriefInv, NodeStep
  PROVE  BriefInv'
<1>1. run \in Runs /\ hist \in Hists /\ SameBrief(run.bag, run.bag)
  BY DEF Typed, SameBrief
<1>2. CASE KnowledgeLookup
  BY <1>2, OutsideIsOff, NodeBriefs, QuietKeepsBrief DEF KnowledgeLookup, At, Outside
<1>3. CASE Research
  <2>1. InPass /\ LoopStep(late)
    BY <1>3 DEF Research, InPass, LoopStep, ForceSynthesis, StopUnaffordable, IterationsOver,
       UseTool, RefuseTool, ReplaceTool, CallSynthesize, Answer, AskModel, Turn
  <2>2. QED
    BY <2>1, LoopStepHolds
<1>4. CASE AttemptFails
  <2>1. loop'.pc = "off" /\ UNCHANGED hist
    BY <1>4 DEF AttemptFails, Off
  <2>2. run'.bag = run.bag
    BY <1>1, <1>4 DEF AttemptFails, Runs
  <2>3. QED
    BY <1>1, <2>1, <2>2, QuietKeepsBrief
<1>5. CASE SourceGuard
  <2>1. run' = [ToolResult EXCEPT !.guarded = run.config.fact_check_critic]
        /\ run.pc = "node" /\ UNCHANGED <<loop, hist>>
    BY <1>5 DEF SourceGuard, At, Outside
  <2>2. run'.bag = ToolResult.bag
    BY <2>1, ToolResultFields DEF Runs
  <2>3. QED
    BY <2>1, <2>2, OutsideIsOff, NodeBriefs, QuietKeepsBrief
<1>6. CASE Deliver
  <2>1. run' = ToolResult /\ hist' = [hist EXCEPT !.delivered = TRUE]
        /\ run.pc = "node" /\ UNCHANGED loop
    BY <1>6 DEF Deliver, At, Outside
  <2>2. hist'.brief = hist.brief
    BY <1>1, <2>1 DEF Hists
  <2>3. QED
    BY <2>1, <2>2, OutsideIsOff, NodeBriefs, QuietKeepsBrief
<1>7. CASE NodeFails
  <2>1. run' = [run EXCEPT !.status = "FAILED", !.bag = Bag]
        /\ run.pc = "node" /\ UNCHANGED <<loop, hist>>
    BY <1>7 DEF NodeFails, At, Outside
  <2>2. run'.bag = Bag
    BY <1>1, <2>1 DEF Runs
  <2>3. QED
    BY <2>1, <2>2, OutsideIsOff, NodeBriefs, QuietKeepsBrief
<1>8. ASSUME NEW cost \in CallCosts, Write(cost)
      PROVE  BriefInv'
  <2> DEFINE r == Result(Spend(Bag, cost))
  <2>1. run' = [r EXCEPT !.draft = TRUE, !.guarded = FALSE]
        /\ hist' = [hist EXCEPT !.judged = FALSE, !.own = FALSE, !.signed = FALSE]
        /\ run.pc = "node" /\ UNCHANGED loop
    BY <1>8 DEF Write, At, Outside
  <2>2. r \in Runs /\ SameBrief(r.bag, run.bag)
    BY SpentResultFields, NodeBriefs
  <2> HIDE DEF r
  <2>3. run'.bag = r.bag /\ hist'.brief = hist.brief
    BY <1>1, <2>1, <2>2 DEF Runs, Hists
  <2>4. QED
    BY <2>1, <2>2, <2>3, OutsideIsOff, QuietKeepsBrief
<1>9. ASSUME NEW cost \in CallCosts, NEW score \in Scores,
             NEW approved \in Approvals \cup {"absent"}, Criticise(cost, score, approved)
      PROVE  BriefInv'
  <2> DEFINE r == Result(Spend(Bag, cost))
  <2>1. run' = Judge(r, score, approved) /\ run.pc = "node" /\ UNCHANGED loop
    BY <1>9 DEF Criticise, At, Outside
  <2>2. r \in Runs /\ SameBrief(r.bag, run.bag)
    BY SpentResultFields, NodeBriefs
  <2> HIDE DEF r
  <2>3. run'.bag = r.bag
    BY <2>1, <2>2, JudgeType
  <2>4. hist'.brief = hist.brief
    BY <1>1, <1>9 DEF Criticise, Hists
  <2>5. QED
    BY <2>1, <2>2, <2>3, <2>4, OutsideIsOff, QuietKeepsBrief
<1>10. QED
  BY <1>2, <1>3, <1>4, <1>5, <1>6, <1>7, <1>8, <1>9, StartResearchHolds, EndResearchHolds,
     PlannerHolds, PlannerFailsHolds, ResearchInOneShotHolds DEF NodeStep

\* A move along the graph, or a decision of a human.
LEMMA MoveHolds ==
  ASSUME Typed, BriefInv,
         RouteStep \/ ((Approve \/ Reject \/ Revise) /\ run.pc # "loop")
  PROVE  BriefInv'
<1>1. run \in Runs /\ hist \in Hists /\ SameBrief(run.bag, run.bag)
  BY DEF Typed, SameBrief
<1>2. run.pc # "loop" /\ UNCHANGED loop
  BY DEF RouteStep, FollowPlan, FollowEdge, AutoDeliver, AutoRevise, AskHuman, Complete,
         Approve, Reject, Revise, AtEdge, AtRoute, Outside
<1>3. run'.bag = run.bag
  BY <1>1 DEF RouteStep, FollowPlan, FollowEdge, AutoDeliver, AutoRevise, AskHuman, Complete,
              Approve, Reject, Revise, Move, Runs
<1>4. hist'.brief = hist.brief
  BY <1>1 DEF RouteStep, FollowPlan, FollowEdge, AutoDeliver, AutoRevise, AskHuman, Complete,
              Approve, Reject, Revise, Hists
<1>5. QED
  BY <1>1, <1>2, <1>3, <1>4, OutsideIsOff, QuietKeepsBrief

LEMMA NextHolds ==
  ASSUME Base, Gates, BriefInv, Next
  PROVE  BriefInv'
<1>1. Typed /\ BreakerInv /\ run \in Runs /\ hist \in Hists /\ SameBrief(run.bag, run.bag)
  BY DEF Base, Typed, SameBrief
<1>2. CASE NodeStep
  BY <1>1, <1>2, NodeHolds
<1>3. CASE RouteStep
  BY <1>1, <1>3, MoveHolds
<1>4. CASE Approve \/ Reject \/ Revise
  <2>1. run.node = "human_approve"
    BY <1>4 DEF Approve, Reject, Revise, Gates, JudgeInv
  <2>2. run.pc # "loop"
    BY <1>1, <2>1 DEF Typed
  <2>3. QED
    BY <1>1, <1>4, <2>2, MoveHolds
<1>5. CASE TimePasses
  BY <1>5 DEF TimePasses, BriefInv, Held, LastBrief, PassBrief
<1>6. CASE CrashResume
  <2>1. loop'.pc = "off"
    BY <1>6 DEF CrashResume, Off
  <2>2. run'.bag = run.bag /\ hist'.brief = hist.brief
    BY <1>1, <1>6 DEF CrashResume, Runs, Hists
  <2>3. QED
    BY <1>1, <2>1, <2>2, QuietKeepsBrief
<1>7. QED
  BY <1>2, <1>3, <1>4, <1>5, <1>6 DEF Next

\* The brief the researcher made last is the one the writer finds in the state: through the
\* final payload and its plan, failed attempts, later passes without a brief, and a crash.
THEOREM BriefArrives == Spec => []BriefReachesWriter
<1>1. Init => BriefInv
  BY DEF Init, BriefInv, Held, Off
<1>2. ResearchInv /\ BriefInv /\ [Next]_vars => BriefInv'
  <2> SUFFICES ASSUME ResearchInv, BriefInv, [Next]_vars
               PROVE  BriefInv'
    OBVIOUS
  <2>1. CASE Next
    BY <2>1, InvParts, NextHolds
  <2>2. CASE UNCHANGED vars
    BY <2>2 DEF vars, BriefInv, Held, LastBrief, PassBrief
  <2>3. QED
    BY <2>1, <2>2
<1>3. BriefInv => BriefReachesWriter
  BY DEF BriefInv, Held, BriefReachesWriter
<1>4. QED
  BY <1>1, <1>2, <1>3, ResearchInvariant, PTL DEF Spec
=============================================================================
