---------------------------- MODULE GraphRunner ----------------------------
(***************************************************************************)
(* One run, its row in the store and the asyncio tasks that work on it:    *)
(* core/runner.py, with the approve and resume endpoints of api/routes.py  *)
(* that start the tasks and the start-up sweep of api/app.py.              *)
(*                                                                         *)
(* Every call to the store is synchronous SQLite, so a task gives way only *)
(* where it awaits a node's coroutine, sleeps between two attempts, or     *)
(* waits to be started (Suspended).  An action is one stretch of a task up *)
(* to and including a save_run, so that a crash can fall between any two   *)
(* saves.  Saves that leave the modelled fields of the row as the previous *)
(* save of the same stretch left them are merged with it.                  *)
(***************************************************************************)
EXTENDS RunStatus, Graph, FiniteSets

CONSTANTS
  Tasks,               \* asyncio tasks the process may have for this run
  Planner,             \* the name "planner"
  DefaultNode,         \* the name "knowledge_lookup"
  Checkpoints,         \* the nodes of type checkpoint
  MaxAttempts,         \* RetryPolicy.max_attempts of each node
  Plans,               \* the queues expand_plan_to_nodes can return
  Conditions,          \* the sets of conditional edges a state can satisfy
  ReviseTargets,       \* what _revise_target can return
  MaxHumanRevisions,   \* 5 in the code
  Requests,            \* the requests clients make
  SweepOnRestart,      \* TRUE for the server, FALSE for the bare runner
  MaxCrashes           \* bound on the crashes explored

Decisions == {"approve", "reject", "revise"}

ASSUME RunnerAssumption ==
  /\ Checkpoints \subseteq Nodes /\ Fixer \notin Checkpoints /\ Planner \notin Checkpoints
  /\ Planner # Fixer /\ NoNode \notin {Planner, Fixer, DefaultNode}
  /\ MaxAttempts \in [Nodes -> Nat \ {0}]
  /\ DOMAIN FallbackNode = Nodes
  /\ Plans \subseteq Seq(Nodes)
  /\ Conditions \subseteq SUBSET EdgeIds
  /\ ReviseTargets \subseteq Nodes
  /\ MaxHumanRevisions \in Nat /\ MaxCrashes \in Nat
  /\ Requests \subseteq Decisions \cup {"resume"}
  /\ SweepOnRestart \in BOOLEAN

\* No shipped pipeline has a parallel edge: _fan_out is not part of this module.
ASSUME SerialGraph == \A i \in EdgeIds : ~Edges[i].parallel

VARIABLES
  row,      \* the run's row in the store
  task,     \* what each task is doing, with its own copy of the record
  hist,     \* what happened, for the properties only
  crashes   \* crashes so far

vars == <<row, task, hist, crashes>>

NewRun ==
  [status |-> "PENDING", node |-> Entry, resolved |-> FALSE, dynamic |-> FALSE,
   queue |-> <<>>, fixer_used |-> {}, revisions |-> 0]

Idle == [pc |-> "idle", job |-> "none", run |-> NewRun, attempt |-> 0, victim |-> NoNode]

Run(t) == task[t].run
Node(t) == task[t].run.node
Victim(t) == task[t].victim

Suspended == {"idle", "queued", "node", "backoff"}

\* Task t is at pc, and no other task is between two suspension points.
At(t, pc) ==
  /\ task[t].pc = pc
  /\ \A u \in Tasks \ {t} : task[u].pc \in Suspended

\* _try_fixer_recovery is running the fixer, or the failed node once more.
InFixer(t) == Victim(t) # NoNode /\ Node(t) = Fixer
InOneShot(t) == Victim(t) # NoNode /\ Node(t) = Victim(t)
AttemptLimit(t) == IF InOneShot(t) THEN 1 ELSE MaxAttempts[Node(t)]

\* save_run, and the task goes on at pc or is over.
Commit(t, pc, run) ==
  /\ row' = run
  /\ task' = [task EXCEPT ![t].pc = pc, ![t].run = run]
Begin(t, run, victim) ==
  /\ row' = run
  /\ task' = [task EXCEPT ![t].pc = "node", ![t].run = run,
                          ![t].attempt = 1, ![t].victim = victim]
Finish(t, run) ==
  /\ row' = run
  /\ task' = [task EXCEPT ![t] = Idle]

Note(h) == hist' = h /\ UNCHANGED crashes
Quiet == UNCHANGED <<hist, crashes>>

Init ==
  /\ row = NewRun
  /\ \E t \in Tasks :
       task = [u \in Tasks |->
                 IF u = t THEN [Idle EXCEPT !.pc = "queued", !.job = "background"] ELSE Idle]
  /\ hist = [bypassed |-> {}, fixed |-> {}, refixed |-> {}, delivered |-> FALSE]
  /\ crashes = 0

-----------------------------------------------------------------------------
(* Requests: the endpoint checks the row and queues a background task.     *)

RequestDecision(t, d) ==
  /\ At(t, "idle")
  /\ d \in Requests
  /\ row.status = "PAUSED"
  /\ task' = [task EXCEPT ![t].pc = "queued", ![t].job = d]
  /\ UNCHANGED row /\ Quiet

RequestResume(t) ==
  /\ At(t, "idle")
  /\ "resume" \in Requests
  /\ row.status # "COMPLETED"
  /\ task' = [task EXCEPT ![t].pc = "queued", ![t].job = "resume"]
  /\ UNCHANGED row /\ Quiet

-----------------------------------------------------------------------------
(* execute() and approve().                                                *)

Starts(t) ==
  \/ At(t, "queued") /\ task[t].job \in {"background", "resume"}
  \/ At(t, "execute")

\* Mutant: the early return on a finished run is gone.
ExecuteAnyStatus(t) ==
  /\ Starts(t)
  /\ Commit(t, "loop", [row EXCEPT !.status = "RUNNING"])
  /\ Quiet

Execute(t) ==
  /\ Starts(t)
  /\ row.status \notin Terminal
  /\ Commit(t, "loop", [row EXCEPT !.status = "RUNNING"])
  /\ Quiet

ExecuteFinishedRun(t) ==
  /\ Starts(t)
  /\ row.status \in Terminal
  /\ Finish(t, row)
  /\ Quiet

Decides(t, d) == At(t, "queued") /\ task[t].job = d

\* approve() raises; the endpoint's handler fails the run if the row is RUNNING.
RefuseDecision(t) ==
  /\ \E d \in Decisions : Decides(t, d)
  /\ row.status # "PAUSED"
  /\ Finish(t, IF row.status = "RUNNING" THEN [row EXCEPT !.status = "FAILED"] ELSE row)
  /\ Quiet

Reject(t) ==
  /\ Decides(t, "reject")
  /\ row.status = "PAUSED"
  /\ Finish(t, [row EXCEPT !.status = "FAILED", !.resolved = TRUE])
  /\ Quiet

\* Mutant: the limit on human revisions is gone.
ReviseUnlimited(t, n) ==
  /\ Decides(t, "revise")
  /\ row.status = "PAUSED"
  /\ Commit(t, "execute",
            [row EXCEPT !.resolved = FALSE, !.dynamic = FALSE, !.node = n,
                        !.revisions = row.revisions + 1])
  /\ Quiet

\* Mutant: checkpoint_resolved stays as approve() set it at its top.
ReviseStaysResolved(t, n) ==
  /\ Decides(t, "revise")
  /\ row.status = "PAUSED"
  /\ row.revisions < MaxHumanRevisions
  /\ Commit(t, "execute",
            [row EXCEPT !.resolved = TRUE, !.dynamic = FALSE, !.node = n,
                        !.revisions = row.revisions + 1])
  /\ Quiet

Revise(t, n) ==
  /\ Decides(t, "revise")
  /\ row.status = "PAUSED"
  /\ row.revisions < MaxHumanRevisions
  /\ Commit(t, "execute",
            [row EXCEPT !.resolved = FALSE, !.dynamic = FALSE, !.node = n,
                        !.revisions = row.revisions + 1])
  /\ Quiet

\* No comment, too many rounds or no target: approve() raises, the row stays.
RefuseRevise(t) ==
  /\ Decides(t, "revise")
  /\ row.status = "PAUSED"
  /\ Finish(t, row)
  /\ Quiet

\* Mutant: approve() does not look at the status.
ApproveAnyStatus(t, H) ==
  /\ Decides(t, "approve")
  /\ NextNode(row.node, H) # NoNode
  /\ Commit(t, "execute",
            [row EXCEPT !.resolved = TRUE, !.node = NextNode(row.node, H)])
  /\ Quiet

\* The decision moves the run past the checkpoint and leaves it resolved.
Approve(t, H) ==
  /\ Decides(t, "approve")
  /\ row.status = "PAUSED"
  /\ NextNode(row.node, H) # NoNode
  /\ Commit(t, "execute",
            [row EXCEPT !.resolved = TRUE, !.node = NextNode(row.node, H)])
  /\ Quiet

\* Nowhere to go: PAUSED -> COMPLETED is illegal and raises, the row stays.
ApproveDeadEnd(t, H) ==
  /\ Decides(t, "approve")
  /\ row.status = "PAUSED"
  /\ NextNode(row.node, H) = NoNode
  /\ Finish(t, row)
  /\ Quiet

-----------------------------------------------------------------------------
(* _loop(), the head: dispatch on the current node.                        *)

UnknownNode(t) ==
  /\ At(t, "loop")
  /\ Node(t) \notin Nodes
  /\ Finish(t, [Run(t) EXCEPT !.status = "FAILED"])
  /\ Quiet

EnterNode(t) ==
  /\ At(t, "loop")
  /\ Node(t) \in Nodes \ Checkpoints
  /\ Begin(t, Run(t), NoNode)
  /\ Quiet

\* A checkpoint never awaits.  Resolved by an earlier approve: it lets the run through.
GatePass(t) ==
  /\ At(t, "loop")
  /\ Node(t) \in Checkpoints
  /\ Run(t).resolved
  /\ Commit(t, "route", [Run(t) EXCEPT !.resolved = FALSE])
  /\ Note([hist EXCEPT !.bypassed = @ \cup {Node(t)}])

GatePause(t) ==
  /\ At(t, "loop")
  /\ Node(t) \in Checkpoints
  /\ ~Run(t).resolved
  /\ Finish(t, [Run(t) EXCEPT !.status = "PAUSED"])
  /\ Quiet

-----------------------------------------------------------------------------
(* _execute_node(): the attempts of one node.                              *)

\* Mutant: the fixer's success counts as the failed node's, which is not tried again.
FixerSucceedsForNode(t) ==
  /\ At(t, "node")
  /\ row' = Run(t)
  /\ task' = [task EXCEPT ![t].pc = IF Node(t) = Planner THEN "plan" ELSE "route",
                          ![t].victim = NoNode]
  /\ Note([hist EXCEPT !.delivered = @ \/ (Node(t) \in Sinks \ {Fixer})])

NodeSucceeds(t) ==
  /\ At(t, "node")
  /\ row' = Run(t)
  /\ task' = [task EXCEPT
                ![t].pc = CASE InFixer(t)        -> "fixed"
                            [] Node(t) = Planner -> "plan"
                            [] OTHER             -> "route",
                ![t].victim = IF InFixer(t) THEN Victim(t) ELSE NoNode]
  /\ Note([hist EXCEPT !.delivered = @ \/ (Node(t) \in Sinks \ {Fixer})])

\* A timeout or a retryable error with attempts left.
RetryLater(t) ==
  /\ At(t, "node")
  /\ task[t].attempt < AttemptLimit(t)
  /\ Commit(t, "backoff", [Run(t) EXCEPT !.status = "RETRYING"])
  /\ Quiet

\* Mutant: the attempt is not counted.
WakeUncounted(t) ==
  /\ At(t, "backoff")
  /\ row' = [Run(t) EXCEPT !.status = "RUNNING"]
  /\ task' = [task EXCEPT ![t].pc = "node", ![t].run = row']
  /\ Quiet

Wake(t) ==
  /\ At(t, "backoff")
  /\ row' = [Run(t) EXCEPT !.status = "RUNNING"]
  /\ task' = [task EXCEPT ![t].pc = "node", ![t].run = row',
                          ![t].attempt = task[t].attempt + 1]
  /\ Quiet

\* The last attempt failed, or any attempt with an error that is not retryable.
\* Either failure inside the recovery gives the recovery up.
NodeFails(t) ==
  /\ At(t, "node")
  /\ row' = Run(t)
  /\ task' = [task EXCEPT
                ![t].pc = IF Victim(t) = NoNode THEN "failed" ELSE "degrade",
                ![t].run.node = IF Victim(t) = NoNode THEN Node(t) ELSE Victim(t),
                ![t].victim = NoNode]
  /\ Quiet

-----------------------------------------------------------------------------
(* _try_fixer_recovery(): the fixer, then the failed node once more.       *)

\* Mutant: fixer_used_for is written and never read.
FixerAlwaysHelps(t) == Fixer \in Nodes /\ Node(t) # Fixer

FixerHelps(t) ==
  /\ Fixer \in Nodes
  /\ Node(t) \notin {Fixer} \cup Run(t).fixer_used

CallFixer(t) ==
  /\ At(t, "failed")
  /\ FixerHelps(t)
  /\ row' = [Run(t) EXCEPT !.fixer_used = @ \cup {Node(t)}]
  /\ task' = [task EXCEPT ![t].pc = "fixing", ![t].run = row', ![t].victim = Node(t)]
  /\ Quiet

StartFixer(t) ==
  /\ At(t, "fixing")
  /\ Begin(t, [Run(t) EXCEPT !.node = Fixer], Victim(t))
  /\ Note([hist EXCEPT !.fixed = @ \cup {Victim(t)},
                       !.refixed = @ \cup ({Victim(t)} \cap hist.fixed)])

RetryVictim(t) ==
  /\ At(t, "fixed")
  /\ Begin(t, [Run(t) EXCEPT !.node = Victim(t)], Victim(t))
  /\ Quiet

-----------------------------------------------------------------------------
(* _loop(), the error path: no fixer, or the fixer did not help.           *)

Unrecovered(t) == At(t, "degrade") \/ (At(t, "failed") /\ ~FixerHelps(t))

\* seed_fallback_plan() switches the dynamic plan off.
PlannerFallback(t, H) ==
  /\ Unrecovered(t)
  /\ Node(t) = Planner
  /\ LET next == NextNode(Planner, H)
     IN  Commit(t, "loop", [Run(t) EXCEPT !.dynamic = FALSE, !.queue = <<>>,
                              !.node = IF next = NoNode THEN DefaultNode ELSE next])
  /\ Quiet

TakeFallback(t) ==
  /\ Unrecovered(t)
  /\ Node(t) # Planner
  /\ FallbackTarget(Node(t)) # NoNode
  /\ Commit(t, "loop", [Run(t) EXCEPT !.node = FallbackTarget(Node(t))])
  /\ Quiet

FailRun(t) ==
  /\ Unrecovered(t)
  /\ Node(t) # Planner
  /\ FallbackTarget(Node(t)) = NoNode
  /\ Finish(t, [Run(t) EXCEPT !.status = "FAILED"])
  /\ Quiet

-----------------------------------------------------------------------------
(* _loop(), the success path: the plan first, then the static edges.       *)

\* apply_planner_result(); an empty plan leaves the static edges in charge.
ApplyPlan(t, plan) ==
  /\ At(t, "plan")
  /\ Commit(t, "route", [Run(t) EXCEPT !.dynamic = plan # <<>>, !.queue = plan])
  /\ Quiet

PlanLeft(t) == Run(t).dynamic /\ Run(t).queue # <<>>

\* next_planned_node(): the queue here is what is left from plan_cursor on.
FollowPlan(t) ==
  /\ At(t, "route")
  /\ PlanLeft(t)
  /\ Commit(t, "loop", [Run(t) EXCEPT !.node = Head(Run(t).queue), !.queue = Tail(@)])
  /\ Quiet

FollowEdge(t, H) ==
  /\ At(t, "route")
  /\ ~PlanLeft(t)
  /\ NextNode(Node(t), H) # NoNode
  /\ Commit(t, "loop", [Run(t) EXCEPT !.node = NextNode(Node(t), H), !.dynamic = FALSE])
  /\ Quiet

Complete(t, H) ==
  /\ At(t, "route")
  /\ ~PlanLeft(t)
  /\ NextNode(Node(t), H) = NoNode
  /\ Finish(t, [Run(t) EXCEPT !.status = "COMPLETED", !.node = NoNode, !.dynamic = FALSE])
  /\ Quiet

-----------------------------------------------------------------------------
\* Mutant: the sweep overlooks the runs that wait between two attempts.
SweepMissesRetrying ==
  /\ crashes < MaxCrashes
  /\ crashes' = crashes + 1
  /\ row' = IF SweepOnRestart /\ row.status \in {"PENDING", "RUNNING"}
            THEN [row EXCEPT !.status = "FAILED"] ELSE row
  /\ task' = [t \in Tasks |-> Idle]
  /\ UNCHANGED hist

\* The process dies with its tasks; the server's start-up fails what was active.
CrashRestart ==
  /\ crashes < MaxCrashes
  /\ crashes' = crashes + 1
  /\ row' = IF SweepOnRestart /\ row.status \in Active
            THEN [row EXCEPT !.status = "FAILED"] ELSE row
  /\ task' = [t \in Tasks |-> Idle]
  /\ UNCHANGED hist

ClientStep(t) == RequestResume(t) \/ \E d \in Decisions : RequestDecision(t, d)

DecisionStep(t) ==
  \/ RefuseDecision(t) \/ Reject(t) \/ RefuseRevise(t)
  \/ \E n \in ReviseTargets : Revise(t, n)
  \/ \E H \in Conditions : Approve(t, H) \/ ApproveDeadEnd(t, H)

NodeStep(t) ==
  \/ UnknownNode(t) \/ EnterNode(t) \/ GatePass(t) \/ GatePause(t)
  \/ NodeSucceeds(t) \/ RetryLater(t) \/ Wake(t) \/ NodeFails(t)
  \/ CallFixer(t) \/ StartFixer(t) \/ RetryVictim(t)

RouteStep(t) ==
  \/ TakeFallback(t) \/ FailRun(t) \/ FollowPlan(t)
  \/ \E plan \in Plans : ApplyPlan(t, plan)
  \/ \E H \in Conditions : PlannerFallback(t, H) \/ FollowEdge(t, H) \/ Complete(t, H)

TaskStep(t) ==
  Execute(t) \/ ExecuteFinishedRun(t) \/ DecisionStep(t) \/ NodeStep(t) \/ RouteStep(t)

Next == CrashRestart \/ \E t \in Tasks : ClientStep(t) \/ TaskStep(t)

Spec == Init /\ [][Next]_vars

\* The event loop runs every ready task, and a timeout ends every awaited node.
FairSpec == Spec /\ \A t \in Tasks : WF_vars(TaskStep(t))

-----------------------------------------------------------------------------
(* Properties.                                                             *)

Names == Nodes \cup {NoNode, DefaultNode, Fixer} \cup {FallbackNode[n] : n \in Nodes}

Records ==
  [status : Statuses, node : Names, resolved : BOOLEAN, dynamic : BOOLEAN,
   queue : Seq(Nodes), fixer_used : SUBSET Nodes, revisions : 0 .. MaxHumanRevisions]

PCs == Suspended \cup {"execute", "loop", "failed", "fixing", "fixed", "degrade", "plan", "route"}

TaskStates ==
  [pc : PCs, job : {"none", "background", "resume"} \cup Decisions, run : Records,
   attempt : Nat, victim : Nodes \cup {NoNode}]

\* The record and the tasks have the values the code gives them; in particular a human can
\* send a run back at most MaxHumanRevisions times, whatever failed or crashed in between.
TypeOK ==
  /\ row \in Records
  /\ task \in [Tasks -> TaskStates]
  /\ hist \in [bypassed : SUBSET Checkpoints, fixed : SUBSET Nodes,
               refixed : SUBSET Nodes, delivered : BOOLEAN]
  /\ crashes \in 0 .. MaxCrashes

\* A task that will carry the run on when the event loop lets it.
Drives(t) ==
  \/ task[t].pc \notin {"idle", "queued"}
  \/ task[t].pc = "queued" /\ task[t].job \in {"background", "resume"}

\* No ghost run: a row that says the run is being worked on has a task that works on it
\* (the start-up sweep of api/app.py, the error handlers of api/routes.py).
NoGhost == row.status \in Active => \E t \in Tasks : Drives(t)

\* One driver: no two tasks work on the run at the same time, so no node is executed twice
\* in parallel (the PAUSED check at the top of approve(), without an await before execute()).
OneDriver == \A t, u \in Tasks : Drives(t) /\ Drives(u) => t = u

\* Human gate: a checkpoint lets nobody through on a decision made for another arrival.
\* approve() itself moves the run past the checkpoint it decides on, and revise() clears
\* checkpoint_resolved, so a checkpoint that is entered again has to pause again.
HumanGate == hist.bypassed = {}

\* The human gate holds as long as no crash cuts a decision in two.
HumanGateWithoutCrash == crashes = 0 => HumanGate

\* The graphs it holds for: the nodes S behind a checkpoint lead to no node before it, and
\* neither a fallback nor a plan takes the run to a checkpoint.
GatedGraph(S) ==
  /\ S \subseteq Nodes \ (Checkpoints \cup {Planner})
  /\ \A n \in Checkpoints \cup S, H \in Conditions : NextNode(n, H) \in S \cup {NoNode}
  /\ \A n \in S : FallbackTarget(n) \notin Nodes \ S
  /\ \A n \in Nodes : FallbackTarget(n) \notin Checkpoints
  /\ Plans \subseteq Seq(Nodes \ Checkpoints)

\* The fixer is called once for each node in the life of a run, whatever is retried,
\* revised, or executed again after a crash: fixer_used_for is saved before the fixer runs.
FixerOncePerNode == hist.refixed = {}

\* A run that says COMPLETED has had one of the graph's last nodes succeed: neither the
\* recovery, nor a plan, nor a fallback lets it complete half-way.
CompletedMeansDelivered == row.status = "COMPLETED" => hist.delivered

\* The graphs it holds for: a way on from every node but the last ones, whatever conditions
\* hold, no checkpoint among the last ones, and no way into the fixer but the recovery.
DeliveryGraph ==
  /\ \A n \in Nodes \ (Sinks \cup {Fixer}), H \in Conditions : NextNode(n, H) # NoNode
  /\ Checkpoints \cap Sinks = {}
  /\ Fixer \notin {Entry, DefaultNode} \cup ReviseTargets
  /\ \A i \in EdgeIds : Edges[i].target # Fixer
  /\ \A n \in Nodes : FallbackNode[n] # Fixer
  /\ Plans \subseteq Seq(Nodes \ {Fixer})

\* completed/failed are terminal.
TerminalIsFinal == [][row.status \in Terminal => row'.status = row.status]_vars

\* An approve decision the endpoint accepted takes the run out of the pause.
ApproveTakesEffect ==
  [][\A t \in Tasks :
       /\ task[t].pc = "queued" /\ task[t].job = "approve" /\ row.status = "PAUSED"
       /\ task'[t].pc = "idle" /\ crashes' = crashes
       => row'.status # "PAUSED"]_vars

\* A run that is being worked on comes to rest at some time: it completes, fails or waits for
\* a human.
Settles == row.status \in Active ~> row.status \notin Active

\* The store row goes through the life cycle of RunLifecycle.
Lifecycle == INSTANCE RunLifecycle
               WITH status <- row.status, busy <- \E t \in Tasks : task[t].pc # "idle",
                    sweep <- SweepOnRestart
ImplementsLifecycle == Lifecycle!Spec
=============================================================================
