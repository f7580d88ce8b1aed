# Verification of the multi-agent orchestrator

TLA+ modules, TLC configurations and TLAPS proofs for the workflow engine of
`src/agent_orchestrator`: how a run moves through its graph, how it survives
failures, restarts and several requests at once, and what a client may rely on.
All paths below are relative to `src/src/agent_orchestrator/` unless they say
otherwise.

## 1. The system

### 1.1 Components

| Component | State it keeps | Operations | What makes it correct |
|---|---|---|---|
| Run status machine, `core/state.py` | none (a table) | `assert_transition` | the stored status of every run follows `LEGAL_TRANSITIONS`; COMPLETED and FAILED are final |
| Graph and builder, `core/graph.py` | nodes, ordered edges | `next_nodes`, `fallback_target`, `compile` | every target is a node; every node is reachable, a fallback target or the fixer |
| Run engine, `core/runner.py` | one `RunRecord` per running coroutine; the row in the store | `create_run`, `execute`, `approve`, `resume`, `_loop`, `_execute_node`, `_try_fixer_recovery`, `_fan_out` | one driver per run; a checkpoint is passed only on a decision made for it; the run comes to rest; COMPLETED only after a last node succeeded |
| Retry policies, errors, `core/policies.py`, `core/errors.py` | none | `delay_for_attempt`, `retryable` | attempts are bounded and the delay is capped |
| Plan execution, `core/plan_exec.py` | plan queue and cursor in the run's state | `apply_planner_result`, `next_planned_node`, `seed_fallback_plan` | a plan ends; an unusable plan leaves the static edges in charge |
| Checkpoint node, `nodes/checkpoint_node.py` | `checkpoint_resolved` in the run's state | `run` | pauses once for each arrival |
| Endpoints, `api/routes.py` | background tasks | start, approve, resume, delete, metrics | an accepted request has its effect, a refused one has none |
| Start-up, `api/app.py` | none | prune, sweep | no run says it is being worked on after a restart |
| SQLite store, `persistence/__init__.py` | runs, traces, snapshots, idempotency keys | save, load, prune, delete | a deleted run stays deleted; one run for one key; at most five runs |
| In-memory store, `core/runner.py` | the records themselves | the same | readers do not see unsaved changes |
| Budget and circuit breaker, `core/budget.py` | counters in the run's state | `can_afford`, `record_tokens`, `activate_fast_fallback` | the breaker trips once and stays; the total overshoots by a bounded amount |
| LLM agent node, ReAct loop, `nodes/llm_agent_node.py`, `nodes/agent_tools.py` | counters of one call | `run` | tool calls and iterations are bounded |
| Tool node, `nodes/tool_node.py` | none | `knowledge_lookup`, `source_guard` | every draft is guarded before it is delivered |
| Research pipeline, `examples/research_report_pipeline.py` | revision counter, scores | edge conditions | what is delivered was written, guarded and judged; automatic revisions end |
| Support pipeline, `examples/support_resolution_pipeline.py` | the same, intent, escalation | edge conditions | one route per ticket; an escalated ticket reaches a human; the reply is sent once |
| Zendesk simulator, `integrations/zendesk_sim.py` | connection, tickets, deliveries | connect, ingest, deliver | one delivery for one reply; a solved ticket has one |
| Workflow configuration, `api/workflow_config.py` | none (tables) | `deep_merge`, `apply_ceilings`, `resolve_workflow_config` | a budget lies between 1 and its ceiling whatever a client sends |
| Caches, auth, metrics, telemetry, knowledge, LLM client, registry, dashboard | little or none | | see `PROJECT.json` |

### 1.2 How they interact

A request to start a run creates a row (PENDING) and a FastAPI background task
that calls `execute`. `execute` saves RUNNING and enters `_loop`, which awaits
one node after another and saves the record after every step. A checkpoint node
ends the loop with the row PAUSED. `POST /approve` checks that the row is PAUSED
and queues another background task, which loads the row, checks again, applies
the decision and calls `execute`. `POST /resume` queues a task that calls
`execute` on whatever it finds. All tasks run on one event loop, share nothing
but the rows of the store, and each works on its own copy of the record. The
store is synchronous SQLite behind `async` methods, so a call to it never gives
way. Every save also prunes the store to the five newest runs, with the
idempotency keys that name the others. When the server restarts, its start-up
handler turns PENDING, RUNNING and RETRYING rows into FAILED. The support run
sends its reply to the Zendesk simulator, which has a database of its own.
Whoever uses `GraphRunner` as a library has no such
handler.

### 1.3 What is hard here

* **Interleaving.** A decision is checked when the request arrives and applied
  later; two decisions may be queued for one pause; resume may start a second
  loop beside a live one; the error handlers of the endpoints write to a row
  another task is working on.
* **Crashes.** A decision is saved in two steps, a node's result and the move to
  the next node are two saves, and `current_node` names the fixer while it runs.
* **Shared state.** The branches of a fan-out are coroutines over one record:
  each swaps its copy of the state in before it awaits and out afterwards.
* **Stale values.** A node's answer leaves out what it does not want to say, and
  the state keeps what an earlier answer said; the result of a node that is
  executed again is added to its own earlier result.
* **Termination.** Attempts, the fixer, fallback edges, plans and revisions all
  add work to a run.
* **Limits.** Human revisions, attempts, tool calls, tokens and steps, the latency
  limit, five stored runs.

`PROJECT.json` lists every hazard at its line with the properties that cover it.

## 2. The modules

| Module | Models | Built on |
|---|---|---|
| `RunStatus` | `RunStatus`, `LEGAL_TRANSITIONS`, `assert_transition` | |
| `Graph` | a compiled graph and its two lookups, with what `compile()` guarantees as assumptions | |
| `RunLifecycle` | what a client may rely on about one run (abstract) | `RunStatus` |
| `GraphRunner` | one run: its row, the tasks, decisions, retries, fixer, fallbacks, plans, crashes | `RunStatus`, `Graph`; implements `RunLifecycle` |
| `FanOut` | the parallel branches of one run over one record | `RunStatus`, `Graph` |
| `WorkflowConfig` | the configuration of a run from default, preset, override and ceilings | |
| `PlanExec` | how a planner's answer becomes a mode, a plan and a queue of nodes | |
| `Budget` | counters, `can_afford`, the circuit breaker | |
| `ReactAgent` | one pass of the researcher with tools, turn by turn | `Budget` |
| `ResearchPipeline` | a research run from start request to report | the four above |
| `SupportPipeline` | a ticket from the frontline to the reply | |
| `RunStore` | the store of runs and keys, the prune and the start-up sweep | `RunStatus` |
| `ZendeskSim` | connection, tickets and deliveries | |
| `FrontDesk` | several runs: the endpoints that start, delete, approve and resume them, their tasks, both databases, a restart | `RunStore`, `ZendeskSim` |
| `MCResearchRun`, `MCSharedRun`, `MCFanOut`, `MCResearch`, `MCSupport`, `MCFrontDesk` | instances for TLC | |
| `GraphProofs` | lemmas about the lookups of a graph | `Graph` |
| `GraphRunnerProofs` | theorems about `GraphRunner` | `GraphProofs` |
| `FanOutProofs` | theorems about `FanOut` | `GraphProofs` |
| `RunStoreProofs` | lemmas about what a prune keeps | `RunStore` |
| `FrontDeskProofs` | theorems about `FrontDesk` | `RunStoreProofs` |
| `PlanProofs` | lemmas about the expansion of a plan | `PlanExec` |
| `ResearchProofs` | theorems about `ResearchPipeline` | `PlanProofs` |
| `SupportProofs` | theorems about `SupportPipeline` | |

The system is modelled at three grains. `GraphRunner` and `FanOut` cut the engine
at every save and every await, with nodes that may do anything. `ResearchPipeline`
and `SupportPipeline` look inside the nodes: there a node succeeds or fails as a
whole, and what the engine adds (retries, the fixer, two tasks on one run) is left
to `GraphRunner`. `FrontDesk` looks at many runs from outside: each has any number
of tasks, and a task saves, pauses, fails, answers or completes. What one grain
leaves out another one has, and each says so.

### 2.1 GraphRunner

`row` is the stored record of the run; `task[t]` is an asyncio task with its own
copy of the record (`run`), its place in the code (`pc`), the job it was started
for, the attempt it is at and, inside `_try_fixer_recovery`, the node that failed
(`victim`); `hist` records what the properties need and no guard reads it.

| `pc` | Place in the code |
|---|---|
| `idle` | no such task |
| `queued` | a background task that has not started |
| `execute` | between the save in `approve()` and the one in `execute()` |
| `loop` | the head of `_loop` |
| `node`, `backoff` | in `_execute_node`: awaiting the node, sleeping between attempts |
| `failed`, `fixing`, `fixed`, `degrade` | the error path: before the fixer, about to run it, it succeeded, nothing helped |
| `plan`, `route` | the success path: the planner's result, then plan or edges |

**Granularity.** Only `idle`, `queued`, `node` and `backoff` are places where a
task gives way, and `At` makes every other step wait for tasks that are between
two of them. A stretch between two awaits is cut after each `save_run`, so a
crash can fall between any two saves that differ in a modelled field; saves that
do not differ are merged. A node is an external coroutine: it succeeds, fails in
a way that is retried, or fails for good. Awaiting it is always a place where
other tasks may run; a tool node that never awaits could under some Python
versions run through, which is a subset of the modelled behaviours.

**Data.** `resolved` is `checkpoint_resolved`; `dynamic` and `queue` are
`use_dynamic_plan` and what `plan_queue` holds from `plan_cursor` on; what the
conditions of edges read is a set of edges that may hold together (`Conditions`),
chosen anew at each step that evaluates them. `edited_state` and `state_updates` of the
requests, with which a client can overwrite any of these fields, are not
modelled. `mark_terminal` has no effect on the control: both branches of `_loop`
do the same.

**Assumed.** `Graph` assumes what `compile()` checks. `SerialGraph` excludes
parallel edges, which no shipped pipeline has. `RunnerAssumption` types the
constants; checkpoints are neither the fixer nor the planner.

**Bounds.** `MaxCrashes` bounds crashes (`crashes` counts them and restricts
nothing else);
`Tasks` bounds the tasks that exist at once; `MaxHumanRevisions` is the code's
own limit of 5, made smaller. Everything else is finite by itself.

**Fairness.** `FairSpec` asks weak fairness of every task's steps: the event
loop takes ready tasks in order, the delays between attempts are capped, and
every node has a timeout (`RetryPolicy.timeout_seconds`), so an await ends.
Nothing is assumed of clients, nor that nodes ever succeed.

### 2.2 RunLifecycle

The promise to a client: the stored status moves by `LEGAL_TRANSITIONS`, only
while the process has a task for the run, and no task lets go of a run that is
still PENDING, RUNNING or RETRYING. `GraphRunner` maps `status` to `row.status`
and `busy` to "some task is not idle".

### 2.3 FanOut

`_loop` takes the edges that hold together; more than one means `_fan_out`. No
shipped pipeline marks an edge parallel, but the builder offers it and
`src/README.md:11` lists "parallel fan-out" as a feature, so the module is about
any graph with a node `Split`. `run` is the one record; `branch[b]` is a coroutine
with its place (`new`, `node`, `backoff`, `ok`, `raised`), the attempt it is at,
what it found in `run.current_node` and `run.state` when it started (`previous`,
`original`, both put back in the `finally` clause) and the state its attempt works
on. A state maps each key to the branch that wrote it, 0 for the value of before:
that is all the merge can tell apart. A branch is identified by its edge, so
branches are numbered in the order `gather` starts them; `MayRun` says that all
start before the event loop resumes any, except that a branch whose node never
awaits may run on at once. The handlers of `api/routes.py` (`Handled`) are part of
the step in which the exception leaves `_loop`, because nothing awaits between.

The fairness is weak fairness of `LoopRuns`: gather waits for every branch, every
branch has a timeout and a bounded number of attempts.

### 2.4 ResearchPipeline, with WorkflowConfig, PlanExec, Budget and ReactAgent

`run` is the record: node, place (`node` before it, `loop` inside the
researcher, `route` after it), configuration, budget, plan and queue, and of the
reports only whether there is a draft, whether it was guarded since it was
written, and the critic's score and approval as the state keeps them. A score is
low, high, no number (`junk`) or absent. An approval is true, false, some text
that does not pass (`text`: `_critic_passes` looks the words up, the counter of
revisions takes any of them for an approval) or absent; words that pass are as
good as true. An absent key leaves the earlier value in place, as
`_apply_json_payload` does. An approval that is a number and an answer that is
an empty JSON object are not modelled. `late` says that `max_latency_ms` has
passed, which may happen between any two steps. `loop` and `work` are the
counters and the private copy of a researcher's pass: the engine keeps the copy
when the node succeeds and drops it, with what it spent, when the attempt fails.
A brief is known by how it was made (the agent's answer, or a synthesis);
`loop.own` is what the pass itself answered, and `hist.brief` the brief of the
last pass that succeeded. `CrashResume` is a process that dies and a new one
whose bare runner executes the current node again, on the state its own result
may already be part of. `hist` is read by properties only.

Limits are constants. The instance scales them down: a call takes 2 tokens, the
default allows 4, the ceiling is 8; what matters is that a limit is reached
before, at and after a call, and that each of the two caps of the researcher is
the one that ends the pass. `MaxAutoCounted` bounds the count of automatic
revisions that only `AutoRevisionsBounded` reads; the counter of the code is not
bounded by it.

The fairness of both pipelines is weak fairness of the engine's steps on a
running run, for the reason given in 2.1. Clients, humans and the clock are not
fair.

### 2.5 SupportPipeline

`run` holds what the conditions read: the intent (one or two values for each list
of `_is_faq`, `_is_technical` and `_is_billing`, one in no list, none), the flags
of an escalation folded into `forced` and `frustrated`, the critic's verdict as the
state keeps it (`approved`) and as its last answer says it (`words`), the two
revision counters and the route taken. A verdict is a Boolean, some text (which
`track_revisions` takes for an approval and `_critic_ok` looks up again) or absent.
Agents answer with the keys their prompts ask for, or leave some out. Zendesk may
accept or refuse the reply at will; what makes it refuse is in `FrontDesk`.

### 2.6 FrontDesk, with RunStore and ZendeskSim

`store` is the database of runs, rows numbered in the order of `created_at`, and
`desk` that of the simulator, both values changed by the operators of `RunStore`
and `ZendeskSim`, one for each function of the code. `live[r]` counts the tasks of run
`r` at each of their places: waiting to execute the run, waiting to decide on it,
in the loop before the deliver node, in the loop behind it. A decision and a resume
each queue a task without looking for others, as the endpoints do; a decision looks
at the row again and is refused when it is not PAUSED any more (`Refuse` is the
handler that writes FAILED over RUNNING); a resumed task that finds RUNNING starts a
second loop (`ExecuteBeside`, counted in `doubled`). A task saves without looking at
the row (`Save`), which is how a deleted run comes back. `Deliver` may have an empty
reply, which is not sent (`mute`). An endpoint is one step:
the process serves requests on one event loop and neither database gives way, so
between the check of a key and its insertion nothing else runs, except a crash,
which `CrashInCreate` puts between the save of the run and that of the key.
`hist.begun` is the list of all runs ever created; `epoch` counts how often
Zendesk was connected anew, because a disconnect clears the tickets. Bounds: `MaxRuns` on the runs
created and `MaxTroubles` on decisions, resumes, deletions, disconnections and crashes,
all together.

## 3. What the runs show

| Run | Instance | Properties |
|---|---|---|
| `research_run` | the research graph (nine nodes, three conditions after the critic, three plans), planner and fixer with two attempts, all four requests, one task, a crash, no sweep | `TypeOK` with the limit on human revisions, `FixerOncePerNode`, `ImplementsLifecycle` |
| `shared_run` | five nodes with a fallback edge and a policy that names a missing node, all requests, two tasks, a crash, the sweep | `NoGhost` |
| `decision_race` | the same graph, decisions without resume, two tasks, fairness | `OneDriver`, `HumanGateWithoutCrash`, `CompletedMeansDelivered`, `Settles` |
| `research` | five start requests (defaults, the preset, numbers beyond both ends, features switched off), five planner's answers, low, high, unusable and absent scores, approvals as Booleans and in words, two pairs of caps, a crash, fairness | `TypeOK` with the ends of the budget, `ToolCallsCapped`, `OvershootIsOneCall`, `DeliveredIsGuarded`, `DeliveredIsJudged`, `DeliveredIsWritten`, `BriefReachesWriter`, `BreakerIsFinal`, `Settles` |
| `support` | every setting of debate and forced review, all answers, two human revisions, a crash, fairness | `EscalationReachesHuman`, `ForcedReviewIsSigned`, `UnapprovedAfterTwoRefusals`, `RightSpecialist`, `AnsweredOncePerCrash`, `Settles` |
| `front_desk` | three runs in a store that keeps two, a ticket that may be unknown yet, its own key and another, any two troubles (decision, resume, delete, disconnect, crash) | `TypeOK` with the limit of the store, `KeysResolve`, `OneRunPerKey`, `NewestKept`, `DeletedStaysDeleted`, `NoGhostRow`, `OneAnswerPerLoop`, `CompletedAnswersTicket`, `SolvedMeansDelivered` |
| `fan_out` | two or three branches, two of them with two attempts, one a checkpoint, one a dead end, all three callers, a crash, fairness | `TypeOK` with the limit on attempts, `AttemptsStartClean`, `RunningAtTheJoin`, `EveryBranchMerged`, `FailureIsRecorded`, `Ends` |
| `endless_revision` | the instance of `research`, three automatic revisions | `AutoRevisionsBounded` is violated |
| `double_revise` | two tasks that may both carry a revise | `TerminalIsFinal` is violated |
| `crash_in_revise` | one task, a crash | `HumanGate` is violated |
| `crash_in_approve` | one task, a crash | `ApproveTakesEffect` is violated |
| `crash_in_fixer` | one task, a crash, no sweep, resume | `CompletedMeansDelivered` is violated |

Two tasks are enough for the races the endpoints allow: one works and one is
refused, or both were queued for one pause. One crash is enough to cut any single
stretch; what it leaves is a row that any later request acts on. The research
graph brings every action that does not need a fallback edge, the small graph the
others; together the passing runs fire every action.

What the properties of the pipelines and of the front desk say, and where they are
as weak as the code is:

* The quality gate of the research pipeline (`DeliveredIsJudged`) holds for the
  last draft and the critic's own words about it, with two exceptions. Where a plan
  or a resume goes on after a verdict that passed, a later verdict that leaves out
  the score is judged by the earlier one. Where the critic approved of a draft its
  score did not let pass, the approval stays in the state, and a later verdict
  without a usable score falls back on it. A plan without a writer delivers a report
  that does not exist (`DeliveredIsWritten`).
* The source guard has seen every delivered draft, whatever the plan
  (`DeliveredIsGuarded`); a tripped breaker stays (`BreakerIsFinal`); a pass of the
  researcher calls at most `max_tool_calls` tools and overshoots the token limit by
  one call of the model. Attempts that fail forget what they spent.
* The writer works with the brief of the last pass of the researcher that made one
  (`BriefReachesWriter`), across plans with several research steps, failed attempts and
  a crash. The brief a pass makes is its synthesis, or else its own answer, unless an
  earlier pass left a `research_plan` in the state. That one wins
  (`nodes/llm_agent_node.py:411-415`), even when it was an answer and no synthesis,
  which is what the comment there speaks of: the new answer is then lost.
* A ticket at risk reaches a human once. After a revision the draft may go out on
  the critic's word, unless `force_human_review` is on, which holds for each draft.
  From two refusals on, the critic's and the human's together, nobody's approval is
  needed. `_revise_target` knows three intents, so a human's revision of a `bug` or
  an `account` ticket goes to the FAQ agent (`RightSpecialist`).
* The store keeps the newest runs, paused or not. A run whose loop was at work when
  it was deleted comes back with its next save, and a key that was lost with its
  run starts another one.
* Under the server a run answers its ticket once, and once more for each loop that
  `execute()` has started on a row that said RUNNING or RETRYING, which a resume of a
  live run brings about (`OneAnswerPerLoop`). Decisions, resumes of a paused run,
  deletions and crashes do not add to it: of several tasks queued for one pause the
  second finds RUNNING, and the sweep makes crashed runs final. A bare runner that
  resumes answers once more for each crash (`AnsweredOncePerCrash`).
* The key of a ticket outlives a disconnect and the reply may be refused; a
  COMPLETED run has answered its ticket unless the reply was empty, the ticket was
  unknown to begin with or Zendesk has been disconnected since.
* The branches of a fan-out do not see each other, and the join always finds the
  status RUNNING. The last branch that changed a key keeps it: token counts of the
  others are lost. A branch that fails or pauses ends the loop with an exception,
  which leaves a FAILED row, but a RUNNING one when `resume_run` started the task
  (`FailureIsRecorded` excludes it).

Bounds of these runs. Two kept and three created runs are the least with a prune;
the third run is the newest whose save drops the oldest. Human revisions are 1 and 2
instead of 5, `max_attempts` of the researcher is 2 instead of 3: both are counters
compared in one place. Automatic revisions are 2 in `research` and the code's 3 in
`endless_revision`. Two troubles in `front_desk` are enough for two tasks queued
for one pause, or for a second loop beside a live one and a crash or a deletion on top
of it; the theorems of 4.4 are about any number. Its runs all
have a ticket: a run without one differs in that nothing is sent.

`CHECK_DEADLOCK FALSE`: a run that is COMPLETED, or any run once the crashes are
used up and no request is allowed, has nothing more to do.

The five violations are disagreements between code and documentation:

1. **A refused decision fails a live run** (`api/routes.py:418-424`). The second
   of two revisions is refused when the first has already resumed the run, and
   the handler writes FAILED over RUNNING without `assert_transition`; the loop
   goes on and writes RUNNING again. `src/README.md:394`: "completed/failed are
   terminal".
2. **A crash in a revise opens the checkpoint** (`core/runner.py:360`). The row
   is left PAUSED at the writer; an approve then sets `checkpoint_resolved`, and
   the next arrival at the checkpoint passes without a human.
3. **A crash in an approve wedges the run** (`core/runner.py:371-378`). The row
   is left PAUSED at the last node; approving again tries PAUSED -> COMPLETED,
   which is illegal. The comment at 377 calls this crash recoverable. (Resume
   does get the run going again.)
4. **A crash in the fixer completes the run** (`core/runner.py:631`). Resumed,
   the run executes the fixer as its current node, finds no edges and is
   COMPLETED; the failed node and everything after it never ran.
5. **A critic that is not counted revises for ever**
   (`examples/research_report_pipeline.py:128`). `_critic_passes` goes by the
   score, the counter of `_needs_auto_revise` by `approved`, and `_apply_json_payload`
   counts nothing when `approved` is truthy (`nodes/llm_agent_node.py:117`). That is
   so when the critic approves of a low score, and when it refuses in words:
   `"approved": "no"` without a score does not pass and is not counted either.
   `src/README.md:128`: "revise automatically (up to three times), then pause for human
   approval". `Settles` of `research` is therefore stated up to the first verdict that
   sends a draft back uncounted.

## 4. What is proved

Every invariant and every action property of the passing runs is stated by a
theorem. TLC shows it on an instance, the theorem for every value of the constants,
under the hypotheses named here. All proofs have one shape: an inductive invariant,
first checked by TLC on the run of the property, then one lemma for each action
(or each kind of action), `Next` put together from these, and the properties as
consequences.

### 4.1 Assumptions

The named assumptions type the constants (`RunnerAssumption`, `FanOutAssumption`,
`ResearchAssumption`, `WorkflowAssumption`, `BudgetAssumption`, `ReactAssumption`,
`SupportAssumption`, `FrontDeskAssumption`, `ZendeskAssumption`; `RunStoreAssumption`:
the store keeps at least one run) or state what `compile()` has checked before a run
exists (`EdgesAssumption`, `CompileAssumption`). `RunnerAssumption` has besides that
checkpoints are neither the fixer nor the planner, and `SerialGraph` excludes parallel
edges; both hold for the shipped pipelines. TLC evaluates all of them in the runs.

Some theorems of `GraphRunnerProofs` have a hypothesis more, because the property is
false without it:

* `"resume" \notin Requests`: `POST /resume` starts a second loop beside a live one,
  with a record that is stale from then on; without a sweep it also restarts a run in
  the middle of the recovery (`crash_in_fixer`).
* `SweepOnRestart`: the server has the sweep, a bare runner has not.
* One task at a time: what a second task may write over the row is `double_revise`.
* `DeliveryGraph` and `GatedGraph(S)` say which graphs a property is about: a way on
  from every node but the last ones, and nodes `S` behind the checkpoints that lead to
  no node before them. The shipped research graph and the small one of the runs
  satisfy both with `S = {"deliver"}`: `MCResearchRun` and `MCSharedRun` assume it, so
  that TLC evaluates it.

### 4.2 GraphRunner

* `TypeCorrect`: `Spec => []TypeOK`. `TypeOK` is not inductive: that a record
  keeps its type needs the current node to be one of the graph's once the head
  of `_loop` has dispatched on it, and the failed node to be known inside the
  recovery. `Known` says so, and `TypeInv` is `TypeOK` with `Known`
  (`TypeInvariant`). The steps of a task are handled by kind (`CommitType`,
  `BeginType`, `FinishType`), the lookups by `NextNodeIsNode` and
  `FallbackTargetIsName`, which rest on `FirstOfIn` (a nonempty set of edges has
  a first one).
* `GhostFree`: with `SweepOnRestart`, `Spec => []NoGhost`. The argument is one
  lemma, `StepOutcome`: a step leaves its task driving, or the row at rest, or,
  where a decision is refused, a row it did not touch and was not driving.
* `SingleDriver`: without resume, `Spec => []OneDriver`. `OneDriver` is
  not inductive: what keeps a second decision out is that a PAUSED row is driven
  by nobody but a task that has just taken a decision (`SoleDriver`), which in
  turn needs that a task's own record is RUNNING where the code may pause or end
  the run (`StatusInv`, `DriverStep`).
* `SerialLifecycle`: with one task at a time, `Spec => ImplementsLifecycle`.
  `Synced` says that the row is then what the task last saved. With two tasks it
  is false: `double_revise` is the counterexample.
* `FixedOnce`: with one task at a time or without resume, `Spec => []FixerOncePerNode`.
  `FixerInv` says that `fixer_used_for` names what the fixer was called for in the row
  and in the record of every task inside the loop, and the node it is about to be
  called for as well. Two tasks with records of their own would each call it.
* `CompletedIsDelivered`: without resume, on a `DeliveryGraph`,
  `Spec => []CompletedMeansDelivered`. The property says nothing before the end, so
  `DeliveryInv` says where the run is on its way: neither the place of a driving task,
  nor its plan, nor a row that is about to be executed names the fixer, and a task
  behind a last node has seen it succeed. The place is the failed node while the fixer
  runs for it (`Place`), which `RecoveryInv` ties to `current_node`.
* `GateHolds`: without resume, on a `GatedGraph(S)`, `Spec => []HumanGateWithoutCrash`.
  `GateInv` says of the row at rest and of every record inside the loop that a decision
  left over in `checkpoint_resolved` is behind the last checkpoint, where nothing leads
  back: no edge, no fallback, no plan. A crash breaks it between the two saves of a
  revise (`crash_in_revise`), which is why the property ends at the first one.

### 4.3 FanOut

For every set of branches and every number of attempts, with `FanInv`:

* `TypeCorrect`: `Spec => []TypeOK`.
* `BranchesIsolated`: `Spec => []AttemptsStartClean`. Not inductive: a branch copies
  what it finds in the one record, so the record must hold the original state whenever
  the event loop may resume another branch (`Restored`), and what a branch keeps to put
  back must be that state (`Sound`).
* `JoinFindsRunning`: `Spec => []RunningAtTheJoin`. RETRYING is the status of the
  record only while some branch sleeps (`Awake`); the last to wake sets RUNNING.
* `JoinLosesNothing`: `Spec => []EveryBranchMerged`, by `MergeOfKey`: the fold over the
  branches gives each key the value of the last branch that changed it.
* `RaiseIsRecorded`: `Spec => []FailureIsRecorded`.

### 4.4 FrontDesk

For any number of runs, tickets, keys and crashes and any `Keep` of at least 1, with
`FrontInv`:

* `TypeCorrect`: `Spec => []TypeOK`, with the limit of the store, by `KeptBound`: of a
  finite set of rows a prune keeps at most `Keep`.
* `KeysLeadToRuns` (`KeysResolve`), `KeyStartsOneRun` (`OneRunPerKey`), `NewestAreKept`
  (`NewestKept`): from `StoreInv`. `OneRunPerKey` needs that a run that never left the
  store is still named by its key (`Held`); `NewestKept` needs of a saved run only that
  the newest row always stays (`NewestStays`) and that what is dropped is older than
  `Keep` others (`DroppedIsOld`).
* `DeletedIsGone` (`DeletedStaysDeleted`), `NoGhosts` (`NoGhostRow`), `AnswersPerLoop`
  (`OneAnswerPerLoop`), `CompletedIsAnswered` (`CompletedAnswersTicket`): from `RunsFine`,
  which relates the row, the number of tasks at each place and the replies of each run.
  It has to speak of absent rows, because a task whose row was deleted or pruned works
  on, and brings the row back.
* `SolvedIsDelivered` (`SolvedMeansDelivered`): part of `DeskInv`, with the numbering of
  the connections.

### 4.5 ResearchPipeline

For every configuration, plan, cost of a call, pair of caps and number of crashes, with
`ResearchInv`:

* `TypeCorrect`: `Spec => []TypeOK`, with the ends of the budget (`ConfigType`: clamping
  puts every number a request sends between 1 and its ceiling).
* `CallsAreCapped` (`ToolCallsCapped`), `OvershootBounded` (`OvershootIsOneCall`): from
  `LoopInv`. The loop leaves room for one call before it asks the model, and the counter
  of tools that ran may be behind the one it is limited by.
* `DeliveryIsGuarded` (`DeliveredIsGuarded`): `GuardInv` follows an unguarded draft: it is
  at the writer or entering the guard, and every queue that still holds a writer has the
  guard behind it. That the planner's queue does is the lemma `Expanded`.
* `DeliveryIsJudged` (`DeliveredIsJudged`): `JudgeInv` says when a passing score or an
  approval may be in the state outside the critic's own turn. TLC refuted an earlier form
  of the property, without the second exception of section 3.
* `DeliveryIsWritten` (`DeliveredIsWritten`): `WriteInv`: while there is no draft, a
  planned writer is still ahead; again from `Expanded`.
* `BriefArrives` (`BriefReachesWriter`): from `BriefInv`. A running pass works on a copy
  that still has the brief of the run, and a pass that has ended holds the brief it
  made or, if it made none, the last one.
* `BreakerStaysTripped`: `Spec => BreakerIsFinal`, an action property, from `BreakerInv`
  and `LoopInv`.

`ExpandPlanToNodes` is defined by local recursive functions. `PlanProofs` proves that
they define what they say (`StepByStep`, by induction over the natural numbers as a
well-founded set, `Counting`) and then that the guard follows every writer and that a
planned writer is in the queue, for every plan (`Expanding`, `Expanded`).

### 4.6 SupportPipeline

For every set of configurations, every limit of human revisions, every number of crashes
and every answer of the agents:

* `TypeCorrect`: `Spec => []TypeOK`.
* `Invariants`: five inductive parts, each kept by a lemma of its own. `Placed`:
  only `human_escalate` pauses and a run with a reply is at `deliver`. `Gated`: a
  wish to escalate stays in the state, and past the gate it has met a human.
  `Judged`: the counter of revisions is the number of refusals, an approval the edges
  read is one of the present draft, and a specialist never starts with one.
  `Assigned`: without an intent only the FAQ agent can have written. `Counted`: every
  reply but that of the present execution of `deliver` is paid for by a crash.
* `Escalated` and `Signed` follow from `Placed` and `Gated`, `Unapproved` from
  `Placed` and `Judged`, `Specialised` from `Assigned`, `AnsweredOnce` from
  `Counted`. The properties alone are not inductive: `UnapprovedAfterTwoRefusals`
  says nothing of a run that is not yet at `deliver`, where the verdicts fall.

### 4.7 Only model-checked

The three `Settles` and `Ends` are liveness, which the prover cannot treat. The five
properties the code violates have a counterexample and no theorem.

## 5. Plan

What is left is to weaken hypotheses and to say more:

1. `GraphRunner` with resume: `CompletedMeansDelivered` and `HumanGateWithoutCrash` with
   one task at a time and no crash, where a resumed record is not stale, and
   `CompletedMeansDelivered` with resume and the sweep.
2. `GraphRunner` with several tasks: the part of `RunLifecycle` that survives a refused
   decision, with the handler that writes FAILED as the one exception.
3. `ResearchPipeline`: the bound on automatic revisions for critics whose refusals are
   all counted, as an invariant of its own (today it is part of what `Settles` needs).
4. Hand-offs between the grains: what `SupportPipeline` calls a reply is what
   `FrontDesk` calls an answer.

## 6. Not modelled, and why

* Prompts, reports, wording, costs and layout: data no modelled property is about.
* Snapshots and the trace: written after every node, read by the dashboard and
  never by the engine.
* `edited_state` of an approve and `state_updates` of a resume: a client may
  overwrite any field with them, so no property of the fields would be left.
* The fixer inside the pipelines, and what two loops of one run do to each other's
  records in `FrontDesk`: they are in `GraphRunner`, where the saves they are about are.
* The in-memory store, TTL caches, authentication, rate limits, metrics, telemetry,
  the registry, the knowledge base, the LLM client and the dashboard keep no state
  that a stored run depends on. `PROJECT.json` gives the reason for each.
* A fan-out that crashes under a bare runner and resumes at one of its branches: it
  goes on as an ordinary run from that branch, which `GraphRunner` covers.

Liveness and anything with ENABLED is left to TLC, as are recursive operators, which
the prover cannot treat; recursive functions it can, see `PlanProofs`.

## 7. Running it

    tlc -workers 2 -config ResearchRun.cfg MCResearchRun.tla
    tlc -workers 2 -config DecisionRace.cfg MCSharedRun.tla
    tlc -workers 2 -config Research.cfg MCResearch.tla
    tlc -workers 2 -config Support.cfg MCSupport.tla
    tlc -workers 2 -config FrontDesk.cfg MCFrontDesk.tla
    tlc -workers 2 -config FanOut.cfg MCFanOut.tla
    tlapm GraphRunnerProofs.tla
    tlapm FanOutProofs.tla
    tlapm FrontDeskProofs.tla
    tlapm ResearchProofs.tla
    tlapm SupportProofs.tla
    tlapm GraphProofs.tla
    tlapm RunStoreProofs.tla
    tlapm PlanProofs.tla
