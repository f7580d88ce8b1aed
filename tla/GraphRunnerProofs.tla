------------------------- MODULE GraphRunnerProofs -------------------------
(***************************************************************************)
(* Theorems about GraphRunner for every set of tasks, every graph that     *)
(* compile() accepts without parallel edges, and every bound.              *)
(***************************************************************************)
EXTENDS GraphRunner, GraphProofs

-----------------------------------------------------------------------------
(* The graph.                                                              *)

\* Where a node that cannot be recovered sends the run is a name the type allows.
LEMMA FallbackTargetIsName ==
  ASSUME NEW n \in Nodes
  PROVE  FallbackTarget(n) \in Names
<1>1. Outgoing(n, TRUE) \subseteq EdgeIds
  BY DEF Outgoing
<1>2. \A i \in EdgeIds : Edges[i].target \in Nodes
  BY EdgeType DEF EdgeRecords
<1>3. QED
  BY <1>1, <1>2, FirstOfIn DEF FallbackTarget, Names

-----------------------------------------------------------------------------
(* Type correctness.                                                       *)

\* What the types need to know of the control: past the dispatch at the head of
\* _loop() the current node is one of the graph's, and so is a node under recovery.
Known(s) ==
  /\ s.pc \in {"node", "backoff", "failed", "fixing", "fixed", "degrade", "plan", "route"}
       => s.run.node \in Nodes
  /\ s.pc \in {"fixing", "fixed"} => s.victim \in Nodes /\ Fixer \in Nodes

KnownStates == {s \in TaskStates : Known(s)}

TypeNow == row \in Records /\ task \in [Tasks -> KnownStates]

HistOK ==
  /\ hist \in [bypassed : SUBSET Checkpoints, fixed : SUBSET Nodes,
               refixed : SUBSET Nodes, delivered : BOOLEAN]
  /\ crashes \in 0 .. MaxCrashes

TypeInv == TypeNow /\ HistOK

LEMMA IdleType == Idle \in KnownStates /\ NewRun \in Records
  BY CompileAssumption, RunnerAssumption, EdgesAssumption
  DEF Idle, NewRun, TaskStates, KnownStates, Known, Records, Names, Statuses, PCs, Suspended

\* Saving a well-typed record and moving the task keeps the types.
LEMMA CommitType ==
  ASSUME TypeNow, NEW t \in Tasks, NEW pc \in PCs \ {"fixing", "fixed"}, NEW run \in Records,
         pc \notin {"execute", "loop"} => run.node \in Nodes,
         Commit(t, pc, run)
  PROVE  TypeNow'
<1> DEFINE moved == [task[t] EXCEPT !.pc = pc, !.run = run]
<1>1. moved \in TaskStates /\ moved.pc = pc /\ moved.run = run
  BY DEF TypeNow, KnownStates, TaskStates
<1>2. moved \in KnownStates
  BY <1>1 DEF KnownStates, Known, PCs, Suspended
<1>3. task' = [task EXCEPT ![t] = moved] /\ row' = run
  BY DEF Commit, TypeNow, KnownStates, TaskStates
<1> HIDE DEF moved
<1>4. QED
  BY <1>2, <1>3 DEF TypeNow

LEMMA BeginType ==
  ASSUME TypeNow, NEW t \in Tasks, NEW run \in Records, NEW victim \in Nodes \cup {NoNode},
         run.node \in Nodes, Begin(t, run, victim)
  PROVE  TypeNow'
<1> DEFINE begun == [task[t] EXCEPT !.pc = "node", !.run = run, !.attempt = 1, !.victim = victim]
<1>1. begun \in TaskStates /\ begun.pc = "node" /\ begun.run = run
  BY DEF TypeNow, KnownStates, TaskStates, PCs, Suspended
<1>2. begun \in KnownStates
  BY <1>1 DEF KnownStates, Known
<1>3. task' = [task EXCEPT ![t] = begun] /\ row' = run
  BY DEF Begin, TypeNow, KnownStates, TaskStates
<1> HIDE DEF begun
<1>4. QED
  BY <1>2, <1>3 DEF TypeNow

LEMMA FinishType ==
  ASSUME TypeNow, NEW t \in Tasks, NEW run \in Records, Finish(t, run)
  PROVE  TypeNow'
  BY IdleType DEF TypeNow, Finish

\* The steps of one task, by what they do to the row and to the task.
LEMMA ClientType ==
  ASSUME TypeNow, NEW t \in Tasks, ClientStep(t)
  PROVE  TypeNow' /\ UNCHANGED <<hist, crashes>>
<1>1. PICK job \in {"resume"} \cup Decisions :
        /\ task' = [task EXCEPT ![t].pc = "queued", ![t].job = job]
        /\ UNCHANGED <<row, hist, crashes>>
  BY DEF ClientStep, RequestDecision, RequestResume, Decisions, Quiet
<1> DEFINE queued == [task[t] EXCEPT !.pc = "queued", !.job = job]
<1>2. queued \in KnownStates
  BY DEF TypeNow, KnownStates, Known, TaskStates, PCs, Suspended
<1>3. task' = [task EXCEPT ![t] = queued]
  BY <1>1 DEF TypeNow, KnownStates, TaskStates
<1> HIDE DEF queued
<1>4. QED
  BY <1>1, <1>2, <1>3 DEF TypeNow

LEMMA ExecuteType ==
  ASSUME TypeNow, NEW t \in Tasks, Execute(t) \/ ExecuteFinishedRun(t)
  PROVE  TypeNow' /\ UNCHANGED <<hist, crashes>>
<1>1. CASE Execute(t)
  <2>1. [row EXCEPT !.status = "RUNNING"] \in Records
    BY DEF TypeNow, Records, Statuses
  <2>2. QED
    BY <1>1, <2>1, CommitType DEF Execute, PCs, Quiet
<1>2. CASE ExecuteFinishedRun(t)
  BY <1>2, FinishType DEF ExecuteFinishedRun, TypeNow, Quiet
<1>3. QED
  BY <1>1, <1>2

LEMMA DecisionType ==
  ASSUME TypeNow, NEW t \in Tasks, DecisionStep(t)
  PROVE  TypeNow' /\ UNCHANGED <<hist, crashes>>
<1>1. CASE RefuseDecision(t)
  <2>1. (IF row.status = "RUNNING" THEN [row EXCEPT !.status = "FAILED"] ELSE row) \in Records
    BY DEF TypeNow, Records, Statuses
  <2>2. QED
    BY <1>1, <2>1, FinishType DEF RefuseDecision, Quiet
<1>2. CASE Reject(t)
  <2>1. [row EXCEPT !.status = "FAILED", !.resolved = TRUE] \in Records
    BY DEF TypeNow, Records, Statuses
  <2>2. QED
    BY <1>2, <2>1, FinishType DEF Reject, Quiet
<1>3. CASE RefuseRevise(t)
  BY <1>3, FinishType DEF RefuseRevise, TypeNow, Quiet
<1>4. ASSUME NEW n \in ReviseTargets, Revise(t, n)
      PROVE  TypeNow' /\ UNCHANGED <<hist, crashes>>
  <2>1. n \in Names
    BY RunnerAssumption DEF Names
  <2>2. row.revisions + 1 \in 0 .. MaxHumanRevisions
    BY <1>4, RunnerAssumption DEF Revise, TypeNow, Records
  <2>3. [row EXCEPT !.resolved = FALSE, !.dynamic = FALSE, !.node = n,
                    !.revisions = row.revisions + 1] \in Records
    BY <2>1, <2>2 DEF TypeNow, Records
  <2>4. QED
    BY <1>4, <2>3, CommitType DEF Revise, PCs, Quiet
<1>5. ASSUME NEW H \in Conditions, Approve(t, H)
      PROVE  TypeNow' /\ UNCHANGED <<hist, crashes>>
  <2>1. [row EXCEPT !.resolved = TRUE, !.node = NextNode(row.node, H)] \in Records
    BY NextNodeIsNode DEF TypeNow, Records, Names
  <2>2. QED
    BY <1>5, <2>1, CommitType DEF Approve, PCs, Quiet
<1>6. ASSUME NEW H \in Conditions, ApproveDeadEnd(t, H)
      PROVE  TypeNow' /\ UNCHANGED <<hist, crashes>>
  BY <1>6, FinishType DEF ApproveDeadEnd, TypeNow, Quiet
<1>7. QED
  BY <1>1, <1>2, <1>3, <1>4, <1>5, <1>6 DEF DecisionStep

\* What a step of _loop() or _execute_node() may use of the task's own record.
LEMMA RunType ==
  ASSUME TypeNow, NEW t \in Tasks
  PROVE  /\ Run(t) \in Records /\ Node(t) \in Names /\ Victim(t) \in Nodes \cup {NoNode}
         /\ task[t] \in TaskStates
         /\ Known(task[t])
         /\ \A s \in Statuses : [Run(t) EXCEPT !.status = s] \in Records
         /\ \A n \in Names : [Run(t) EXCEPT !.node = n] \in Records
  BY DEF TypeNow, KnownStates, TaskStates, Run, Node, Victim, Records

LEMMA NodeType ==
  ASSUME TypeInv, NEW t \in Tasks, NodeStep(t)
  PROVE  TypeInv'
<1> USE DEF TypeInv
<1>0. /\ Run(t) \in Records /\ Run(t).node = Node(t) /\ Known(task[t])
      /\ task[t] \in TaskStates /\ Run(t) = task[t].run /\ Victim(t) = task[t].victim
  BY RunType DEF Node, Run, Victim
<1>1. CASE UnknownNode(t)
  <2>1. [Run(t) EXCEPT !.status = "FAILED"] \in Records
    BY RunType DEF Statuses
  <2>2. QED
    BY <1>1, <2>1, FinishType DEF UnknownNode, Quiet, HistOK
<1>2. CASE EnterNode(t)
  BY <1>0, <1>2, BeginType DEF EnterNode, Quiet, HistOK
<1>3. CASE GatePass(t)
  <2>1. [Run(t) EXCEPT !.resolved = FALSE] \in Records
    BY <1>0 DEF Records
  <2>2. [Run(t) EXCEPT !.resolved = FALSE].node \in Nodes
    BY <1>0, <1>3, RunnerAssumption DEF GatePass, Records
  <2>3. TypeNow'
    BY <1>3, <2>1, <2>2, CommitType DEF GatePass, PCs
  <2>4. HistOK'
    BY <1>3 DEF GatePass, Note, HistOK
  <2>5. QED
    BY <2>3, <2>4
<1>4. CASE GatePause(t)
  <2>1. [Run(t) EXCEPT !.status = "PAUSED"] \in Records
    BY RunType DEF Statuses
  <2>2. QED
    BY <1>4, <2>1, FinishType DEF GatePause, Quiet, HistOK
<1>5. CASE NodeSucceeds(t)
  <2> DEFINE pc == CASE InFixer(t) -> "fixed" [] Node(t) = Planner -> "plan" [] OTHER -> "route"
             victim == IF InFixer(t) THEN Victim(t) ELSE NoNode
             done == [task[t] EXCEPT !.pc = pc, !.victim = victim]
  <2>1. pc \in PCs /\ victim \in Nodes \cup {NoNode} /\ Node(t) \in Nodes
    BY <1>0, <1>5, RunType DEF PCs, NodeSucceeds, At, Known
  <2>2. pc = "fixed" => victim \in Nodes /\ Fixer \in Nodes
    BY <1>0, <2>1, RunType DEF InFixer
  <2>3. pc # "fixing"
    OBVIOUS
  <2>4. done \in KnownStates
    <3> HIDE DEF pc, victim
    <3>1. done \in TaskStates /\ done.pc = pc /\ done.victim = victim /\ done.run = Run(t)
      BY <1>0, <2>1 DEF TaskStates
    <3>2. QED
      BY <1>0, <2>1, <2>2, <2>3, <3>1 DEF KnownStates, Known
  <2>5. task' = [task EXCEPT ![t] = done] /\ row' = Run(t)
    <3>1. task' = [task EXCEPT ![t].pc = pc, ![t].victim = victim] /\ row' = Run(t)
      BY <1>5 DEF NodeSucceeds
    <3> HIDE DEF pc, victim
    <3>2. QED
      BY <3>1 DEF TypeNow, KnownStates, TaskStates
  <2>6. TypeNow'
    <3> HIDE DEF done
    <3>1. QED
      BY <1>0, <2>4, <2>5 DEF TypeNow
  <2>7. HistOK'
    BY <1>5 DEF NodeSucceeds, Note, HistOK
  <2>8. QED
    BY <2>6, <2>7
<1>6. CASE RetryLater(t)
  <2>1. [Run(t) EXCEPT !.status = "RETRYING"] \in Records
    BY RunType DEF Statuses
  <2>2. [Run(t) EXCEPT !.status = "RETRYING"].node \in Nodes
    BY <1>0, <1>6 DEF RetryLater, At, Known, Records
  <2>3. QED
    BY <1>6, <2>1, <2>2, CommitType DEF RetryLater, PCs, Suspended, Quiet, HistOK
<1>7. CASE Wake(t)
  <2> DEFINE run == [Run(t) EXCEPT !.status = "RUNNING"]
             awake == [task[t] EXCEPT !.pc = "node", !.run = run, !.attempt = task[t].attempt + 1]
  <2>1. run \in Records /\ run.node \in Nodes
    BY <1>0, <1>7, RunType DEF Statuses, Wake, At, Known, Records
  <2>2. awake \in TaskStates /\ awake.pc = "node" /\ awake.run = run
    <3>1. task[t].attempt + 1 \in Nat
      BY <1>0 DEF TaskStates
    <3> HIDE DEF run
    <3>2. QED
      BY <1>0, <2>1, <3>1 DEF TaskStates, PCs, Suspended
  <2>3. awake \in KnownStates
    BY <2>1, <2>2 DEF KnownStates, Known
  <2>4. task' = [task EXCEPT ![t] = awake] /\ row' = run
    BY <1>7 DEF Wake, TypeNow, KnownStates, TaskStates
  <2>5. QED
    <3>1. HistOK'
      BY <1>7 DEF Wake, Quiet, HistOK
    <3> HIDE DEF awake, run
    <3>2. QED
      BY <2>1, <2>3, <2>4, <3>1 DEF TypeNow
<1>8. CASE NodeFails(t)
  <2> DEFINE node == IF Victim(t) = NoNode THEN Node(t) ELSE Victim(t)
             run == [Run(t) EXCEPT !.node = node]
             pc == IF Victim(t) = NoNode THEN "failed" ELSE "degrade"
             failed == [task[t] EXCEPT !.pc = pc, !.run = run, !.victim = NoNode]
  <2>1. node \in Nodes
    BY <1>0, <1>8, RunType DEF NodeFails, At, Known
  <2>2. run \in Records /\ run.node \in Nodes
    <3> HIDE DEF node
    <3>1. QED
      BY <1>0, <2>1, RunType DEF Names, Records
  <2>3. failed \in TaskStates /\ failed.pc = pc /\ failed.run = run
    <3> HIDE DEF run
    <3>1. QED
      BY <1>0, <2>2 DEF TaskStates, PCs, Suspended
  <2>4. failed \in KnownStates
    <3> HIDE DEF run, failed
    <3>1. QED
      BY <2>2, <2>3 DEF KnownStates, Known
  <2>5. task' = [task EXCEPT ![t] = failed] /\ row' = Run(t)
    BY <1>8 DEF NodeFails, TypeNow, KnownStates, TaskStates, Run, Node, Victim
  <2>6. QED
    <3>1. HistOK'
      BY <1>8 DEF NodeFails, Quiet, HistOK
    <3> HIDE DEF failed
    <3>2. QED
      BY <1>0, <2>4, <2>5, <3>1 DEF TypeNow
<1>9. CASE CallFixer(t)
  <2> DEFINE run == [Run(t) EXCEPT !.fixer_used = Run(t).fixer_used \cup {Node(t)}]
             called == [task[t] EXCEPT !.pc = "fixing", !.run = run, !.victim = Node(t)]
  <2>1. Node(t) \in Nodes /\ Fixer \in Nodes
    BY <1>0, <1>9 DEF CallFixer, At, Known, FixerHelps
  <2>2. run \in Records /\ run.node = Node(t)
    BY <1>0, <2>1 DEF Records
  <2>3. called \in TaskStates /\ called.pc = "fixing" /\ called.run = run /\ called.victim = Node(t)
    <3> HIDE DEF run
    <3>1. QED
      BY <1>0, <2>1, <2>2 DEF TaskStates, PCs
  <2>4. called \in KnownStates
    <3> HIDE DEF run, called
    <3>1. QED
      BY <2>1, <2>2, <2>3 DEF KnownStates, Known
  <2>5. task' = [task EXCEPT ![t] = called] /\ row' = run
    BY <1>9 DEF CallFixer, TypeNow, KnownStates, TaskStates
  <2>6. QED
    <3> HIDE DEF run, called
    <3>1. QED
      BY <1>9, <2>2, <2>4, <2>5 DEF TypeNow, CallFixer, Quiet, HistOK
<1>10. CASE StartFixer(t)
  <2>1. Victim(t) \in Nodes /\ Fixer \in Nodes
    BY <1>0, <1>10 DEF StartFixer, At, Known
  <2>2. [Run(t) EXCEPT !.node = Fixer] \in Records /\ [Run(t) EXCEPT !.node = Fixer].node = Fixer
    BY <1>0, <2>1, RunType DEF Names, Records
  <2>3. TypeNow'
    BY <1>10, <2>1, <2>2, BeginType DEF StartFixer
  <2>4. HistOK'
    BY <1>10, <2>1 DEF StartFixer, Note, HistOK
  <2>5. QED
    BY <2>3, <2>4
<1>11. CASE RetryVictim(t)
  <2>1. Victim(t) \in Nodes
    BY <1>0, <1>11 DEF RetryVictim, At, Known
  <2>2. [Run(t) EXCEPT !.node = Victim(t)] \in Records
        /\ [Run(t) EXCEPT !.node = Victim(t)].node = Victim(t)
    BY <1>0, <2>1, RunType DEF Names, Records
  <2>3. QED
    BY <1>11, <2>1, <2>2, BeginType DEF RetryVictim, Quiet, HistOK
<1>12. QED
  BY <1>1, <1>2, <1>3, <1>4, <1>5, <1>6, <1>7, <1>8, <1>9, <1>10, <1>11 DEF NodeStep

LEMMA RouteType ==
  ASSUME TypeNow, NEW t \in Tasks, RouteStep(t)
  PROVE  TypeNow' /\ UNCHANGED <<hist, crashes>>
<1>0. /\ Run(t) \in Records /\ Run(t).node = Node(t) /\ Known(task[t])
      /\ Run(t) = task[t].run
  BY RunType DEF Node, Run
<1>a. (At(t, "failed") \/ At(t, "degrade") \/ At(t, "plan") \/ At(t, "route")) => Node(t) \in Nodes
  BY <1>0 DEF At, Known
<1>1. CASE TakeFallback(t)
  <2>1. [Run(t) EXCEPT !.node = FallbackTarget(Node(t))] \in Records
    BY <1>1, <1>a, RunType, FallbackTargetIsName DEF TakeFallback, Unrecovered
  <2>2. QED
    BY <1>1, <2>1, CommitType DEF TakeFallback, PCs, Quiet
<1>2. CASE FailRun(t)
  <2>1. [Run(t) EXCEPT !.status = "FAILED"] \in Records
    BY RunType DEF Statuses
  <2>2. QED
    BY <1>2, <2>1, FinishType DEF FailRun, Quiet
<1>3. CASE FollowPlan(t)
  <2>1. Head(Run(t).queue) \in Nodes /\ Tail(Run(t).queue) \in Seq(Nodes)
    BY <1>0, <1>3, HeadTailProperties DEF FollowPlan, PlanLeft, Records
  <2>2. [Run(t) EXCEPT !.node = Head(Run(t).queue), !.queue = Tail(Run(t).queue)] \in Records
    BY <1>0, <2>1 DEF Records, Names
  <2>3. QED
    BY <1>3, <2>2, CommitType DEF FollowPlan, PCs, Quiet
<1>4. ASSUME NEW plan \in Plans, ApplyPlan(t, plan)
      PROVE  TypeNow' /\ UNCHANGED <<hist, crashes>>
  <2>1. plan \in Seq(Nodes)
    BY RunnerAssumption
  <2>2. [Run(t) EXCEPT !.dynamic = plan # <<>>, !.queue = plan] \in Records
    BY <1>0, <2>1 DEF Records
  <2>3. [Run(t) EXCEPT !.dynamic = plan # <<>>, !.queue = plan].node \in Nodes
    BY <1>0, <1>4, <1>a DEF Records, ApplyPlan
  <2>4. QED
    BY <1>4, <2>2, <2>3, CommitType DEF ApplyPlan, PCs, Quiet
<1>5. ASSUME NEW H \in Conditions, PlannerFallback(t, H)
      PROVE  TypeNow' /\ UNCHANGED <<hist, crashes>>
  <2> DEFINE next == NextNode(Planner, H)
             target == IF next = NoNode THEN DefaultNode ELSE next
             run == [Run(t) EXCEPT !.dynamic = FALSE, !.queue = <<>>, !.node = target]
  <2>1. target \in Names
    BY NextNodeIsNode DEF Names
  <2>2. run \in Records
    <3>1. <<>> \in Seq(Nodes)
      OBVIOUS
    <3> HIDE DEF target
    <3>2. QED
      BY <1>0, <2>1, <3>1 DEF Records
  <2>3. Commit(t, "loop", run) /\ Quiet
    BY <1>5 DEF PlannerFallback
  <2>4. QED
    BY <2>2, <2>3, CommitType DEF PCs, Quiet
<1>6. ASSUME NEW H \in Conditions, FollowEdge(t, H)
      PROVE  TypeNow' /\ UNCHANGED <<hist, crashes>>
  <2>1. [Run(t) EXCEPT !.node = NextNode(Node(t), H), !.dynamic = FALSE] \in Records
    BY <1>0, NextNodeIsNode DEF Records, Names
  <2>2. QED
    BY <1>6, <2>1, CommitType DEF FollowEdge, PCs, Quiet
<1>7. ASSUME NEW H \in Conditions, Complete(t, H)
      PROVE  TypeNow' /\ UNCHANGED <<hist, crashes>>
  <2>1. [Run(t) EXCEPT !.status = "COMPLETED", !.node = NoNode, !.dynamic = FALSE] \in Records
    BY <1>0 DEF Records, Names, Statuses
  <2>2. QED
    BY <1>7, <2>1, FinishType DEF Complete, Quiet
<1>8. QED
  BY <1>1, <1>2, <1>3, <1>4, <1>5, <1>6, <1>7 DEF RouteStep

LEMMA RestartType ==
  ASSUME TypeInv, CrashRestart
  PROVE  TypeInv'
<1>1. (IF SweepOnRestart /\ row.status \in Active
       THEN [row EXCEPT !.status = "FAILED"] ELSE row) \in Records
  BY DEF TypeInv, TypeNow, Records, Statuses
<1>2. TypeNow'
  BY <1>1, IdleType DEF CrashRestart, TypeInv, TypeNow
<1>3. HistOK'
  BY RunnerAssumption DEF CrashRestart, TypeInv, HistOK
<1>4. QED
  BY <1>2, <1>3 DEF TypeInv

LEMMA TypeInvStep == TypeInv /\ [Next]_vars => TypeInv'
<1> SUFFICES ASSUME TypeInv, [Next]_vars PROVE TypeInv'
  OBVIOUS
<1>1. CASE CrashRestart
  BY <1>1, RestartType
<1>2. ASSUME NEW t \in Tasks, ClientStep(t) \/ TaskStep(t)
      PROVE  TypeInv'
  BY <1>2, ClientType, ExecuteType, DecisionType, NodeType, RouteType
  DEF TaskStep, TypeInv, HistOK
<1>3. CASE UNCHANGED vars
  BY <1>3 DEF vars, TypeInv, TypeNow, HistOK
<1>4. QED
  BY <1>1, <1>2, <1>3 DEF Next

\* TypeInv strengthens TypeOK by what the control knows of the current node (Known).
THEOREM TypeInvariant == Spec => []TypeInv
<1>1. Init => TypeInv
  <2> SUFFICES ASSUME Init PROVE TypeInv
    OBVIOUS
  <2>1. [Idle EXCEPT !.pc = "queued", !.job = "background"] \in KnownStates
    BY IdleType DEF KnownStates, Known, TaskStates, PCs, Suspended
  <2>2. TypeNow
    BY <2>1, IdleType DEF Init, TypeNow
  <2>3. HistOK
    BY RunnerAssumption DEF Init, HistOK
  <2>4. QED
    BY <2>2, <2>3 DEF TypeInv
<1>2. QED
  BY <1>1, TypeInvStep, PTL DEF Spec

\* The record and the tasks keep their types in every reachable state: every graph,
\* every number of tasks, every interleaving, retry, fallback and crash.
THEOREM TypeCorrect == Spec => []TypeOK
<1>1. TypeInv => TypeOK
  BY DEF TypeInv, TypeNow, HistOK, KnownStates, TypeOK
<1>2. QED
  BY <1>1, TypeInvariant, PTL

-----------------------------------------------------------------------------
(* No ghost run.                                                           *)

\* What a step of task t leaves: a task that goes on, or a row that is at rest, or (a
\* decision that is refused) a row that another task is still responsible for.
LEMMA StepOutcome ==
  ASSUME TypeInv, NEW t \in Tasks, TaskStep(t)
  PROVE  /\ \A u \in Tasks \ {t} : task'[u] = task[u]
         /\ \/ task'[t].pc \notin {"idle", "queued"}
            \/ row'.status \notin Active
            \/ row' = row /\ ~Drives(t)
<1> USE DEF Active
<1>0. task \in [Tasks -> KnownStates] /\ row \in Records /\ Run(t) \in Records
  BY RunType DEF TypeInv, TypeNow
<1>1. CASE Execute(t)
  BY <1>0, <1>1 DEF Execute, Commit, KnownStates, TaskStates
<1>2. CASE ExecuteFinishedRun(t)
  BY <1>0, <1>2 DEF ExecuteFinishedRun, Finish, Terminal
<1>3. CASE DecisionStep(t)
  <2>1. CASE RefuseDecision(t)
    <3>1. task[t].pc = "queued" /\ task[t].job \in Decisions
      BY <2>1 DEF RefuseDecision, Decides, At
    <3>2. CASE row.status = "RUNNING"
      BY <1>0, <2>1, <3>2 DEF RefuseDecision, Finish, Records
    <3>3. CASE row.status # "RUNNING"
      BY <1>0, <2>1, <3>1, <3>3 DEF RefuseDecision, Finish, Drives, Decisions
    <3>4. QED
      BY <3>2, <3>3
  <2>2. CASE Reject(t)
    BY <1>0, <2>2 DEF Reject, Finish, Records
  <2>3. CASE RefuseRevise(t)
    BY <1>0, <2>3 DEF RefuseRevise, Finish
  <2>4. ASSUME NEW n \in ReviseTargets, Revise(t, n)
        PROVE  task'[t].pc = "execute" /\ \A u \in Tasks \ {t} : task'[u] = task[u]
    BY <1>0, <2>4 DEF Revise, Commit, KnownStates, TaskStates
  <2>5. ASSUME NEW H \in Conditions, Approve(t, H)
        PROVE  task'[t].pc = "execute" /\ \A u \in Tasks \ {t} : task'[u] = task[u]
    BY <1>0, <2>5 DEF Approve, Commit, KnownStates, TaskStates
  <2>6. ASSUME NEW H \in Conditions, ApproveDeadEnd(t, H)
        PROVE  row'.status \notin Active /\ \A u \in Tasks \ {t} : task'[u] = task[u]
    BY <1>0, <2>6 DEF ApproveDeadEnd, Finish
  <2>7. QED
    BY <1>3, <2>1, <2>2, <2>3, <2>4, <2>5, <2>6 DEF DecisionStep
<1>4. CASE NodeStep(t)
  <2>1. CASE UnknownNode(t) \/ GatePause(t)
    BY <1>0, <2>1 DEF UnknownNode, GatePause, Finish, Records
  <2>2. CASE EnterNode(t) \/ StartFixer(t) \/ RetryVictim(t)
    BY <1>0, <2>2 DEF EnterNode, StartFixer, RetryVictim, Begin, KnownStates, TaskStates
  <2>3. CASE GatePass(t) \/ RetryLater(t)
    BY <1>0, <2>3 DEF GatePass, RetryLater, Commit, KnownStates, TaskStates
  <2>4. CASE Wake(t)
    BY <1>0, <2>4 DEF Wake, KnownStates, TaskStates
  <2>5. CASE NodeSucceeds(t)
    BY <1>0, <2>5 DEF NodeSucceeds, KnownStates, TaskStates
  <2>6. CASE NodeFails(t)
    BY <1>0, <2>6 DEF NodeFails, KnownStates, TaskStates
  <2>7. CASE CallFixer(t)
    BY <1>0, <2>7 DEF CallFixer, KnownStates, TaskStates
  <2>8. QED
    BY <1>4, <2>1, <2>2, <2>3, <2>4, <2>5, <2>6, <2>7 DEF NodeStep
<1>5. CASE RouteStep(t)
  <2>1. CASE TakeFallback(t) \/ FollowPlan(t)
    BY <1>0, <2>1 DEF TakeFallback, FollowPlan, Commit, KnownStates, TaskStates
  <2>2. CASE FailRun(t)
    BY <1>0, <2>2 DEF FailRun, Finish, Records
  <2>3. ASSUME NEW plan \in Plans, ApplyPlan(t, plan)
        PROVE  task'[t].pc = "route" /\ \A u \in Tasks \ {t} : task'[u] = task[u]
    BY <1>0, <2>3 DEF ApplyPlan, Commit, KnownStates, TaskStates
  <2>4. ASSUME NEW H \in Conditions, PlannerFallback(t, H) \/ FollowEdge(t, H)
        PROVE  task'[t].pc = "loop" /\ \A u \in Tasks \ {t} : task'[u] = task[u]
    BY <1>0, <2>4 DEF PlannerFallback, FollowEdge, Commit, KnownStates, TaskStates
  <2>5. ASSUME NEW H \in Conditions, Complete(t, H)
        PROVE  row'.status \notin Active /\ \A u \in Tasks \ {t} : task'[u] = task[u]
    BY <1>0, <2>5 DEF Complete, Finish, Records
  <2>6. QED
    BY <1>5, <2>1, <2>2, <2>3, <2>4, <2>5 DEF RouteStep
<1>6. QED
  BY <1>1, <1>2, <1>3, <1>4, <1>5 DEF TaskStep

\* With the start-up sweep, no crash, error or refused decision ever leaves a row that
\* says the run is active without a task that works on it, whatever clients do.
THEOREM GhostFree ==
  ASSUME SweepOnRestart
  PROVE  Spec => []NoGhost
<1>1. Init => NoGhost
  BY DEF Init, NoGhost, Drives, Idle
<1>2. TypeInv /\ NoGhost /\ [Next]_vars => NoGhost'
  <2> SUFFICES ASSUME TypeInv, NoGhost, [Next]_vars, row'.status \in Active
               PROVE  \E t \in Tasks : Drives(t)'
    BY DEF NoGhost
  <2>0. task \in [Tasks -> KnownStates] /\ row \in Records
    BY DEF TypeInv, TypeNow
  <2>1. CASE CrashRestart
    BY <2>0, <2>1 DEF CrashRestart, Active, Records
  <2>2. ASSUME NEW t \in Tasks, TaskStep(t)
        PROVE  \E u \in Tasks : Drives(u)'
    <3>1. CASE task'[t].pc \notin {"idle", "queued"}
      BY <3>1 DEF Drives
    <3>2. CASE row' = row /\ ~Drives(t)
      <4>1. PICK u \in Tasks : Drives(u)
        BY <3>2 DEF NoGhost
      <4>2. task'[u] = task[u]
        BY <2>2, <3>2, <4>1, StepOutcome
      <4>3. QED
        BY <4>1, <4>2 DEF Drives
    <3>3. QED
      BY <2>2, <3>1, <3>2, StepOutcome
  <2>3. ASSUME NEW t \in Tasks, ClientStep(t)
        PROVE  \E u \in Tasks : Drives(u)'
    <3>1. row' = row /\ task[t].pc = "idle"
      BY <2>3 DEF ClientStep, RequestResume, RequestDecision, At
    <3>2. PICK u \in Tasks : Drives(u)
      BY <3>1 DEF NoGhost
    <3>3. u # t
      BY <3>1, <3>2 DEF Drives
    <3>4. task'[u] = task[u]
      BY <2>0, <2>3, <3>3 DEF ClientStep, RequestResume, RequestDecision
    <3>5. QED
      BY <3>2, <3>4 DEF Drives
  <2>4. CASE UNCHANGED vars
    BY <2>4 DEF vars, NoGhost, Drives
  <2>5. QED
    BY <2>1, <2>2, <2>3, <2>4 DEF Next
<1>3. QED
  BY <1>1, <1>2, TypeInvariant, PTL DEF Spec

-----------------------------------------------------------------------------
(* One driver.                                                             *)

Working == {"loop", "node", "failed", "fixing", "fixed", "degrade", "plan", "route"}

\* In _loop() and _execute_node() a task's own record is RUNNING, but in the backoff.
StatusKnown(s) ==
  /\ s.pc \in Working => s.run.status = "RUNNING"
  /\ s.pc = "backoff" => s.run.status = "RETRYING"

StatusInv == \A t \in Tasks : StatusKnown(task[t])

LEMMA CommitEffect ==
  ASSUME TypeInv, NEW t \in Tasks, NEW pc, NEW run, Commit(t, pc, run)
  PROVE  task'[t].pc = pc /\ task'[t].run = run /\ row' = run
  BY DEF TypeInv, TypeNow, Commit, KnownStates, TaskStates

LEMMA BeginEffect ==
  ASSUME TypeInv, NEW t \in Tasks, NEW run, NEW victim, Begin(t, run, victim)
  PROVE  task'[t].pc = "node" /\ task'[t].run = run /\ row' = run
  BY DEF TypeInv, TypeNow, Begin, KnownStates, TaskStates

\* A step of the engine is one of a task that drives the run; it saves what its own
\* record says, by a legal transition, and pauses or ends the run only with itself.
LEMMA DriverStep ==
  ASSUME TypeInv, StatusInv, NEW t \in Tasks,
         \/ Execute(t) \/ ExecuteFinishedRun(t) \/ NodeStep(t) \/ RouteStep(t)
  PROVE  /\ Drives(t)
         /\ StatusKnown(task'[t])
         /\ task'[t].pc \in Working \cup {"backoff", "idle"}
         /\ task'[t].pc \in Working \cup {"backoff"} => row'.status = task'[t].run.status
         /\ row'.status = "PAUSED" => task'[t].pc = "idle"
         /\ \/ task[t].pc \in Working \cup {"backoff"} /\ Legal(Run(t).status, row'.status)
            \/ Legal(row.status, row'.status)
<1> USE DEF Working, StatusKnown, Legal, LegalTransitions, Statuses
<1>0. /\ task \in [Tasks -> KnownStates] /\ row \in Records /\ Run(t) \in Records
      /\ StatusKnown(task[t]) /\ Run(t) = task[t].run
  BY RunType DEF TypeInv, TypeNow, StatusInv, Run
<1>1. CASE Execute(t)
  <2>1. Drives(t)
    BY <1>1 DEF Execute, Starts, At, Drives
  <2>2. [row EXCEPT !.status = "RUNNING"].status = "RUNNING"
    BY <1>0 DEF Records
  <2>3. task'[t].pc = "loop" /\ task'[t].run.status = "RUNNING" /\ row'.status = "RUNNING"
    BY <1>0, <1>1, <2>2 DEF Execute, Commit, KnownStates, TaskStates
  <2>4. row.status \in {"PENDING", "RUNNING", "RETRYING", "PAUSED"}
    BY <1>0, <1>1 DEF Execute, Terminal, Records
  <2>5. QED
    BY <2>1, <2>3, <2>4
<1>2. CASE ExecuteFinishedRun(t)
  <2>1. Drives(t)
    BY <1>2 DEF ExecuteFinishedRun, Starts, At, Drives
  <2>2. task'[t] = Idle /\ row' = row /\ Idle.pc = "idle" /\ row.status # "PAUSED"
    BY <1>0, <1>2 DEF ExecuteFinishedRun, Finish, Idle, Terminal
  <2>3. QED
    BY <2>1, <2>2
<1>3. CASE NodeStep(t)
  <2>1. CASE UnknownNode(t) \/ GatePause(t)
    BY <1>0, <2>1 DEF UnknownNode, GatePause, Finish, Records, At, Drives, Idle
  <2>2. CASE EnterNode(t) \/ StartFixer(t) \/ RetryVictim(t)
    <3>1. PICK run, victim : Begin(t, run, victim) /\ run.status = Run(t).status
      BY <1>0, <2>2 DEF EnterNode, StartFixer, RetryVictim, Records
    <3>2. task[t].pc \in Working
      BY <2>2 DEF EnterNode, StartFixer, RetryVictim, At
    <3>3. QED
      BY <1>0, <3>1, <3>2, BeginEffect DEF Drives
  <2>3. CASE GatePass(t)
    <3> DEFINE passed == [Run(t) EXCEPT !.resolved = FALSE]
    <3>1. passed.status = Run(t).status
      BY <1>0 DEF Records
    <3>2. Commit(t, "route", passed) /\ task[t].pc = "loop"
      BY <2>3 DEF GatePass, At
    <3> HIDE DEF passed
    <3>3. QED
      BY <1>0, <3>1, <3>2, CommitEffect DEF Drives
  <2>9. CASE RetryLater(t)
    <3> DEFINE retrying == [Run(t) EXCEPT !.status = "RETRYING"]
    <3>1. retrying.status = "RETRYING"
      BY <1>0 DEF Records
    <3>2. Commit(t, "backoff", retrying) /\ task[t].pc = "node"
      BY <2>9 DEF RetryLater, At
    <3> HIDE DEF retrying
    <3>3. QED
      BY <1>0, <3>1, <3>2, CommitEffect DEF Drives
  <2>4. CASE Wake(t)
    BY <1>0, <2>4 DEF Wake, KnownStates, TaskStates, Records, At, Drives
  <2>5. CASE NodeSucceeds(t)
    BY <1>0, <2>5 DEF NodeSucceeds, KnownStates, TaskStates, At, Drives
  <2>6. CASE NodeFails(t)
    BY <1>0, <2>6 DEF NodeFails, KnownStates, TaskStates, Records, At, Drives
  <2>7. CASE CallFixer(t)
    BY <1>0, <2>7 DEF CallFixer, KnownStates, TaskStates, Records, At, Drives
  <2>8. QED
    BY <1>3, <2>1, <2>2, <2>3, <2>4, <2>5, <2>6, <2>7, <2>9 DEF NodeStep
<1>4. CASE RouteStep(t)
  <2>0. At(t, "degrade") \/ At(t, "failed") \/ At(t, "plan") \/ At(t, "route")
    BY <1>4 DEF RouteStep, TakeFallback, FailRun, FollowPlan, ApplyPlan, PlannerFallback,
                FollowEdge, Complete, Unrecovered
  <2>1. Drives(t) /\ task[t].pc \in Working /\ Run(t).status = "RUNNING"
    BY <1>0, <2>0 DEF At, Drives
  <2>3. ASSUME NEW run, Commit(t, "loop", run), run.status = Run(t).status
        PROVE  row'.status = "RUNNING" /\ task'[t].run = row' /\ task'[t].pc = "loop"
    BY <2>1, <2>3, CommitEffect
  <2>4. CASE TakeFallback(t) \/ FollowPlan(t)
    <3>2. CASE TakeFallback(t)
      <4> DEFINE run == [Run(t) EXCEPT !.node = FallbackTarget(Node(t))]
      <4>1. run.status = Run(t).status
        BY <1>0 DEF Records
      <4>2. Commit(t, "loop", run)
        BY <3>2 DEF TakeFallback
      <4> HIDE DEF run
      <4>3. QED
        BY <2>1, <2>3, <4>1, <4>2
    <3>3. CASE FollowPlan(t)
      <4> DEFINE run == [Run(t) EXCEPT !.node = Head(Run(t).queue), !.queue = Tail(@)]
      <4>1. run.status = Run(t).status
        BY <1>0 DEF Records
      <4>2. Commit(t, "loop", run)
        BY <3>3 DEF FollowPlan
      <4> HIDE DEF run
      <4>3. QED
        BY <2>1, <2>3, <4>1, <4>2
    <3>4. QED
      BY <2>4, <3>2, <3>3
  <2>5. CASE FailRun(t)
    BY <1>0, <2>1, <2>5 DEF FailRun, Finish, Idle, Records
  <2>6. ASSUME NEW plan \in Plans, ApplyPlan(t, plan)
        PROVE  row'.status = "RUNNING" /\ task'[t].run = row' /\ task'[t].pc = "route"
    BY <1>0, <2>1, <2>6 DEF ApplyPlan, Commit, KnownStates, TaskStates, Records
  <2>7. ASSUME NEW H \in Conditions, PlannerFallback(t, H) \/ FollowEdge(t, H)
        PROVE  row'.status = "RUNNING" /\ task'[t].run = row' /\ task'[t].pc = "loop"
    <3>1. CASE PlannerFallback(t, H)
      <4> DEFINE next == NextNode(Planner, H)
                 run == [Run(t) EXCEPT !.dynamic = FALSE, !.queue = <<>>,
                                       !.node = IF next = NoNode THEN DefaultNode ELSE next]
      <4>1. run.status = Run(t).status
        BY <1>0 DEF Records
      <4>2. Commit(t, "loop", run)
        BY <3>1 DEF PlannerFallback
      <4> HIDE DEF run
      <4>3. QED
        BY <2>3, <4>1, <4>2
    <3>2. CASE FollowEdge(t, H)
      <4> DEFINE run == [Run(t) EXCEPT !.node = NextNode(Node(t), H), !.dynamic = FALSE]
      <4>1. run.status = Run(t).status
        BY <1>0 DEF Records
      <4>2. Commit(t, "loop", run)
        BY <3>2 DEF FollowEdge
      <4> HIDE DEF run
      <4>3. QED
        BY <2>3, <4>1, <4>2
    <3>3. QED
      BY <2>7, <3>1, <3>2
  <2>8. ASSUME NEW H \in Conditions, Complete(t, H)
        PROVE  row'.status = "COMPLETED" /\ task'[t].pc = "idle"
    BY <1>0, <2>8 DEF Complete, Finish, Idle, Records
  <2>9. QED
    BY <1>4, <2>1, <2>4, <2>5, <2>6, <2>7, <2>8 DEF RouteStep
<1>5. QED
  BY <1>1, <1>2, <1>3, <1>4

\* A decision is taken by a task that does not drive the run, and only where the row is
\* PAUSED does it become a driver; every other outcome leaves it idle.
LEMMA DecisionOutcome ==
  ASSUME TypeInv, NEW t \in Tasks, DecisionStep(t)
  PROVE  /\ ~Drives(t)
         /\ row'.status = "PAUSED" => row.status = "PAUSED"
         /\ row.status = "PAUSED" => row'.status \in {"PAUSED", "FAILED"}
         /\ \/ task'[t] = Idle
            \/ /\ task'[t].pc = "execute" /\ row.status = "PAUSED"
               /\ \A u \in Tasks \ {t} : task[u].pc # "execute"
<1>0. task \in [Tasks -> KnownStates] /\ row \in Records
  BY DEF TypeInv, TypeNow
<1>1. \E d \in Decisions : At(t, "queued") /\ task[t].job = d
  BY DEF DecisionStep, RefuseDecision, Reject, RefuseRevise, Revise, Approve, ApproveDeadEnd,
         Decides, Decisions
<1>2. ~Drives(t) /\ \A u \in Tasks \ {t} : task[u].pc # "execute"
  BY <1>1 DEF At, Drives, Decisions, Suspended
<1>3. CASE RefuseDecision(t) \/ Reject(t) \/ RefuseRevise(t)
  BY <1>0, <1>2, <1>3 DEF RefuseDecision, Reject, RefuseRevise, Finish, Records
<1>4. ASSUME NEW n \in ReviseTargets, Revise(t, n)
      PROVE  row.status = "PAUSED" /\ row'.status = "PAUSED" /\ task'[t].pc = "execute"
  BY <1>0, <1>4 DEF Revise, Commit, KnownStates, TaskStates, Records
<1>5. ASSUME NEW H \in Conditions, Approve(t, H)
      PROVE  row.status = "PAUSED" /\ row'.status = "PAUSED" /\ task'[t].pc = "execute"
  BY <1>0, <1>5 DEF Approve, Commit, KnownStates, TaskStates, Records
<1>6. ASSUME NEW H \in Conditions, ApproveDeadEnd(t, H)
      PROVE  row.status = "PAUSED" /\ row' = row /\ task'[t] = Idle
  BY <1>0, <1>6 DEF ApproveDeadEnd, Finish
<1>7. QED
  BY <1>2, <1>3, <1>4, <1>5, <1>6 DEF DecisionStep

\* Strengthens OneDriver: a run that is PAUSED is driven by a task that has just taken a
\* decision, if by any, and nothing but the first execution is queued to drive it.
SoleDriver ==
  /\ OneDriver
  /\ StatusInv
  /\ \A t \in Tasks : task[t].pc = "queued" => task[t].job # "resume"
  /\ row.status = "PAUSED" => \A t \in Tasks : Drives(t) => task[t].pc = "execute"

\* Whoever takes a decision leaves no driver beside him: kept by every step but a resume.
LEMMA SoleDriverKept ==
  ASSUME "resume" \notin Requests
  PROVE  Spec => []SoleDriver
<1>1. Init => SoleDriver
  <2> SUFFICES ASSUME Init PROVE SoleDriver
    OBVIOUS
  <2>1. PICK t \in Tasks :
          task = [u \in Tasks |-> IF u = t THEN [Idle EXCEPT !.pc = "queued", !.job = "background"]
                                           ELSE Idle]
    BY DEF Init
  <2>2. /\ task[t].pc = "queued" /\ task[t].job = "background"
        /\ \A u \in Tasks \ {t} : task[u].pc = "idle"
    BY <2>1 DEF Idle
  <2>3. row.status = "PENDING"
    BY DEF Init, NewRun
  <2>4. QED
    BY <2>2, <2>3 DEF SoleDriver, OneDriver, StatusInv, StatusKnown, Working, Drives
<1>2. TypeInv /\ SoleDriver /\ [Next]_vars => SoleDriver'
  <2> SUFFICES ASSUME TypeInv, SoleDriver, [Next]_vars PROVE SoleDriver'
    OBVIOUS
  <2>0. task \in [Tasks -> KnownStates] /\ row \in Records
    BY DEF TypeInv, TypeNow
  <2>1. CASE CrashRestart
    BY <2>1 DEF CrashRestart, SoleDriver, OneDriver, StatusInv, StatusKnown, Working, Drives, Idle
  <2>2. ASSUME NEW t \in Tasks, ClientStep(t)
        PROVE  SoleDriver'
    <3>1. PICK d \in Decisions : RequestDecision(t, d)
      BY <2>2 DEF ClientStep, RequestResume
    <3>2. /\ task'[t].pc = "queued" /\ task'[t].job = d
          /\ row' = row /\ \A u \in Tasks \ {t} : task'[u] = task[u]
      BY <2>0, <3>1 DEF RequestDecision, KnownStates, TaskStates
    <3>3. ~Drives(t)' /\ d # "resume"
      BY <3>2 DEF Drives, Decisions
    <3>4. QED
      BY <3>2, <3>3 DEF SoleDriver, OneDriver, StatusInv, StatusKnown, Working, Drives
  <2>3. ASSUME NEW t \in Tasks, DecisionStep(t)
        PROVE  SoleDriver'
    <3>1. \A u \in Tasks \ {t} : task'[u] = task[u]
      BY <2>3, StepOutcome DEF TaskStep
    <3>2. CASE task'[t] = Idle
      BY <2>3, <3>1, <3>2, DecisionOutcome
      DEF SoleDriver, OneDriver, StatusInv, StatusKnown, Working, Drives, Idle
    <3>3. CASE /\ task'[t].pc = "execute" /\ row.status = "PAUSED"
               /\ \A u \in Tasks \ {t} : task[u].pc # "execute"
      BY <3>1, <3>3 DEF SoleDriver, OneDriver, StatusInv, StatusKnown, Working, Drives
    <3>4. QED
      BY <2>3, <3>2, <3>3, DecisionOutcome
  <2>4. ASSUME NEW t \in Tasks,
               Execute(t) \/ ExecuteFinishedRun(t) \/ NodeStep(t) \/ RouteStep(t)
        PROVE  SoleDriver'
    <3>1. /\ Drives(t) /\ StatusKnown(task'[t])
          /\ task'[t].pc \in Working \cup {"backoff", "idle"}
          /\ row'.status = "PAUSED" => task'[t].pc = "idle"
      BY <2>4, DriverStep DEF SoleDriver
    <3>2. \A u \in Tasks \ {t} : task'[u] = task[u] /\ ~Drives(u)
      BY <2>4, <3>1, StepOutcome DEF TaskStep, SoleDriver, OneDriver
    <3>3. task'[t].pc # "queued"
      BY <3>1 DEF Working
    <3>4. \A u \in Tasks \ {t} : ~Drives(u)'
      BY <3>2 DEF Drives
    <3>5. StatusInv'
      BY <3>1, <3>2 DEF SoleDriver, StatusInv, StatusKnown
    <3>6. QED
      BY <3>1, <3>2, <3>3, <3>4, <3>5 DEF SoleDriver, OneDriver, Drives
  <2>5. CASE UNCHANGED vars
    BY <2>5 DEF vars, SoleDriver, OneDriver, StatusInv, StatusKnown, Drives
  <2>6. QED
    BY <2>1, <2>2, <2>3, <2>4, <2>5 DEF Next, TaskStep
<1>3. QED
  BY <1>1, <1>2, TypeInvariant, PTL DEF Spec

\* Without the resume endpoint no two tasks ever drive the run: of several decisions queued
\* for one pause, one at most gets past the check at the top of approve().
THEOREM SingleDriver ==
  ASSUME "resume" \notin Requests
  PROVE  Spec => []OneDriver
<1>1. SoleDriver => OneDriver
  BY DEF SoleDriver
<1>2. QED
  BY <1>1, SoleDriverKept, PTL

-----------------------------------------------------------------------------
(* The life cycle, for a client that asks for one thing at a time.         *)

\* With one task the row is what the task last saved, and a decision waits for a row
\* that is still PAUSED.
Synced ==
  /\ StatusInv
  /\ \A t \in Tasks :
       /\ task[t].pc \in Working \cup {"backoff"} => row.status = task[t].run.status
       /\ task[t].pc = "queued" /\ task[t].job \in Decisions => row.status = "PAUSED"
       /\ task[t].pc = "execute" => row.status = "PAUSED"

\* What each step of a single task does to the invariant and to the life cycle.
LEMMA SerialStep ==
  ASSUME TypeInv, Synced, \A t, u \in Tasks : t = u, NEW t \in Tasks, TaskStep(t)
  PROVE  Synced' /\ Lifecycle!Advance
<1>0. /\ task \in [Tasks -> KnownStates] /\ row \in Records /\ row' \in Records
      /\ Run(t) = task[t].run
  BY TypeInvStep DEF TypeInv, TypeNow, Run, Next
<1>1. \A u \in Tasks : u = t
  OBVIOUS
<1>2. task[t].pc # "idle"
  BY DEF TaskStep, Execute, ExecuteFinishedRun, Starts, DecisionStep, RefuseDecision, Reject,
         RefuseRevise, Revise, Approve, ApproveDeadEnd, Decides, NodeStep, UnknownNode,
         EnterNode, GatePass, GatePause, NodeSucceeds, RetryLater, Wake, NodeFails, CallFixer,
         StartFixer, RetryVictim, RouteStep, TakeFallback, FailRun, FollowPlan, ApplyPlan,
         PlannerFallback, FollowEdge, Complete, Unrecovered, At
<1>3. CASE DecisionStep(t)
  <2>1. task[t].pc = "queued" /\ task[t].job \in Decisions
    BY <1>3 DEF DecisionStep, RefuseDecision, Reject, RefuseRevise, Revise, Approve,
                ApproveDeadEnd, Decides, Decisions, At
  <2>2. row.status = "PAUSED" /\ row'.status \in {"PAUSED", "FAILED"}
    BY <1>3, <2>1, DecisionOutcome DEF Synced
  <2>3. \/ task'[t] = Idle
        \/ task'[t].pc = "execute" /\ row'.status = "PAUSED"
    <3>1. CASE row'.status = "PAUSED"
      BY <1>3, <3>1, DecisionOutcome
    <3>2. CASE row'.status = "FAILED"
      <4>1. RefuseDecision(t) \/ Reject(t) \/ RefuseRevise(t)
        BY <1>0, <1>3, <2>2, <3>2 DEF DecisionStep, Revise, Approve, ApproveDeadEnd, Commit,
                                      Finish, Records
      <4>2. QED
        BY <1>0, <4>1 DEF RefuseDecision, Reject, RefuseRevise, Finish
    <3>3. QED
      BY <2>2, <3>1, <3>2
  <2>4. Synced'
    BY <1>1, <2>3 DEF Synced, StatusInv, StatusKnown, Working, Idle
  <2>5. QED
    BY <1>2, <2>2, <2>4
    DEF Lifecycle!Advance, Lifecycle!Statuses, Lifecycle!Legal, Lifecycle!LegalTransitions,
        Lifecycle!Active
<1>4. CASE Execute(t) \/ ExecuteFinishedRun(t) \/ NodeStep(t) \/ RouteStep(t)
  <2>1. /\ Drives(t) /\ StatusKnown(task'[t])
        /\ task'[t].pc \in Working \cup {"backoff", "idle"}
        /\ task'[t].pc \in Working \cup {"backoff"} => row'.status = task'[t].run.status
        /\ Legal(row.status, row'.status)
    BY <1>0, <1>4, DriverStep DEF Synced
  <2>2. Synced'
    BY <1>1, <2>1 DEF Synced, StatusInv, Working
  <2>3. row'.status \in Active => task'[t].pc # "idle"
    BY <2>1, StepOutcome
  <2>4. QED
    BY <1>0, <1>2, <2>1, <2>2, <2>3
    DEF Lifecycle!Advance, Lifecycle!Statuses, Lifecycle!Legal, Lifecycle!LegalTransitions,
        Lifecycle!Active, Legal, LegalTransitions, Statuses, Active, Records
<1>5. QED
  BY <1>3, <1>4 DEF TaskStep

\* A run on which one task works at a time goes through the life cycle of RunLifecycle:
\* every step of every handler is a legal move of its status or none.
THEOREM SerialLifecycle ==
  ASSUME \A t, u \in Tasks : t = u
  PROVE  Spec => ImplementsLifecycle
<1>1. Init => Synced /\ Lifecycle!Init
  BY DEF Init, Synced, StatusInv, StatusKnown, Working, Decisions, Idle, NewRun, Lifecycle!Init
<1>2. TypeInv /\ Synced /\ [Next]_vars => /\ Synced'
                                           /\ [Lifecycle!Next]_<<row.status, \E t \in Tasks : task[t].pc # "idle">>
  <2> SUFFICES ASSUME TypeInv, Synced, [Next]_vars
               PROVE  /\ Synced'
                      /\ \/ Lifecycle!Next
                         \/ /\ row'.status = row.status
                            /\ (\E t \in Tasks : task'[t].pc # "idle")
                                 = (\E t \in Tasks : task[t].pc # "idle")
    OBVIOUS
  <2>0. task \in [Tasks -> KnownStates] /\ row \in Records
    BY DEF TypeInv, TypeNow
  <2>1. CASE CrashRestart
    <3>1. Synced'
      BY <2>1 DEF CrashRestart, Synced, StatusInv, StatusKnown, Working, Idle
    <3>2. Lifecycle!Restart
      BY <2>0, <2>1 DEF CrashRestart, Idle, Active, Records, Lifecycle!Restart, Lifecycle!Active
    <3>3. QED
      BY <3>1, <3>2 DEF Lifecycle!Next
  <2>2. ASSUME NEW t \in Tasks, ClientStep(t)
        PROVE  Synced' /\ Lifecycle!Engage
    <3>1. PICK job \in {"resume"} \cup Decisions :
            /\ task[t].pc = "idle" /\ row.status # "COMPLETED"
            /\ job \in Decisions => row.status = "PAUSED"
            /\ task' = [task EXCEPT ![t].pc = "queued", ![t].job = job] /\ row' = row
      BY <2>2 DEF ClientStep, RequestDecision, RequestResume, Decisions, At
    <3>2. task'[t].pc = "queued" /\ task'[t].job = job
      BY <2>0, <3>1 DEF KnownStates, TaskStates
    <3>3. Synced'
      BY <3>1, <3>2 DEF Synced, StatusInv, StatusKnown, Working
    <3>4. Lifecycle!Engage
      BY <3>1, <3>2 DEF Lifecycle!Engage
    <3>5. QED
      BY <3>3, <3>4
  <2>3. ASSUME NEW t \in Tasks, TaskStep(t)
        PROVE  Synced' /\ Lifecycle!Advance
    BY <2>3, SerialStep
  <2>4. CASE UNCHANGED vars
    BY <2>4 DEF vars, Synced, StatusInv, StatusKnown
  <2>5. QED
    BY <2>1, <2>2, <2>3, <2>4 DEF Next, Lifecycle!Next
<1>3. QED
  BY <1>1, <1>2, TypeInvariant, PTL DEF Spec, ImplementsLifecycle, Lifecycle!Spec
-----------------------------------------------------------------------------
(* One call of the fixer for each node.                                    *)

Looping == Working \cup {"backoff"}

\* What the fixer was called for is in fixer_used_for, in the row and in the record of the
\* task that drives the run, and a node it is about to be called for is there already.
FixerInv ==
  /\ hist.refixed = {} /\ hist.fixed \subseteq row.fixer_used
  /\ \A t \in Tasks :
       /\ task[t].pc \in Looping => hist.fixed \subseteq task[t].run.fixer_used
       /\ task[t].pc = "fixing" => task[t].victim \in task[t].run.fixer_used \ hist.fixed

\* A step that does not start the fixer and saves no smaller fixer_used_for.
LEMMA FixerUnchanged ==
  ASSUME FixerInv, NEW t \in Tasks, UNCHANGED <<hist, crashes>>,
         \A u \in Tasks \ {t} : task'[u] = task[u],
         hist.fixed \subseteq row'.fixer_used,
         task'[t].pc \in Looping => hist.fixed \subseteq task'[t].run.fixer_used,
         task'[t].pc = "fixing" =>
           task'[t].victim \in task'[t].run.fixer_used \ hist.fixed
  PROVE  FixerInv'
  BY DEF FixerInv

\* The same for a step that saves a record and goes on, or ends.
LEMMA FixerCommits ==
  ASSUME TypeInv, FixerInv, NEW t \in Tasks, NEW pc, NEW run, Commit(t, pc, run),
         UNCHANGED <<hist, crashes>>, pc # "fixing", hist.fixed \subseteq run.fixer_used
  PROVE  FixerInv'
<1>1. task \in [Tasks -> KnownStates]
  BY DEF TypeInv, TypeNow
<1>2. \A u \in Tasks \ {t} : task'[u] = task[u]
  BY <1>1 DEF Commit
<1>3. task'[t].pc = pc /\ task'[t].run = run /\ row' = run
  BY CommitEffect
<1>4. QED
  BY <1>2, <1>3, FixerUnchanged

LEMMA FixerBegins ==
  ASSUME TypeInv, FixerInv, NEW t \in Tasks, NEW run, NEW victim, Begin(t, run, victim),
         UNCHANGED <<hist, crashes>>, hist.fixed \subseteq run.fixer_used
  PROVE  FixerInv'
<1>1. task \in [Tasks -> KnownStates]
  BY DEF TypeInv, TypeNow
<1>2. \A u \in Tasks \ {t} : task'[u] = task[u]
  BY <1>1 DEF Begin
<1>3. task'[t].pc = "node" /\ task'[t].run = run /\ row' = run
  BY BeginEffect
<1>4. QED
  BY <1>2, <1>3, FixerUnchanged

LEMMA FixerFinishes ==
  ASSUME TypeInv, FixerInv, NEW t \in Tasks, NEW run, Finish(t, run),
         UNCHANGED <<hist, crashes>>, hist.fixed \subseteq run.fixer_used
  PROVE  FixerInv'
<1>1. task \in [Tasks -> KnownStates]
  BY DEF TypeInv, TypeNow
<1>2. \A u \in Tasks \ {t} : task'[u] = task[u]
  BY <1>1 DEF Finish
<1>3. task'[t].pc = "idle" /\ row' = run
  BY <1>1 DEF Finish, Idle
<1>4. QED
  BY <1>2, <1>3, FixerUnchanged DEF Looping, Working

LEMMA FixerClient ==
  ASSUME TypeInv, FixerInv, NEW t \in Tasks, ClientStep(t)
  PROVE  FixerInv'
<1>1. task \in [Tasks -> KnownStates]
  BY DEF TypeInv, TypeNow
<1>2. PICK job : /\ task' = [task EXCEPT ![t].pc = "queued", ![t].job = job]
                 /\ UNCHANGED <<row, hist, crashes>>
  BY DEF ClientStep, RequestDecision, RequestResume, Quiet
<1>3. \A u \in Tasks \ {t} : task'[u] = task[u]
  BY <1>1, <1>2
<1>4. task'[t].pc = "queued"
  BY <1>1, <1>2 DEF KnownStates, TaskStates
<1>5. hist.fixed \subseteq row'.fixer_used
  BY <1>2 DEF FixerInv
<1>6. QED
  BY <1>2, <1>3, <1>4, <1>5, FixerUnchanged DEF Looping, Working

LEMMA FixerDecides ==
  ASSUME TypeInv, FixerInv, NEW t \in Tasks, Execute(t) \/ ExecuteFinishedRun(t) \/ DecisionStep(t)
  PROVE  FixerInv'
<1>0. row \in Records /\ hist.fixed \subseteq row.fixer_used
  BY DEF TypeInv, TypeNow, FixerInv
<1>1. CASE Execute(t)
  <2>1. [row EXCEPT !.status = "RUNNING"].fixer_used = row.fixer_used
    BY <1>0 DEF Records
  <2>2. Commit(t, "loop", [row EXCEPT !.status = "RUNNING"]) /\ Quiet
    BY <1>1 DEF Execute
  <2>3. QED
    BY <1>0, <2>1, <2>2, FixerCommits DEF Quiet
<1>2. CASE ExecuteFinishedRun(t)
  BY <1>0, <1>2, FixerFinishes DEF ExecuteFinishedRun, Quiet
<1>3. CASE RefuseDecision(t)
  <2>1. [row EXCEPT !.status = "FAILED"].fixer_used = row.fixer_used
    BY <1>0 DEF Records
  <2>2. QED
    BY <1>0, <1>3, <2>1, FixerFinishes DEF RefuseDecision, Quiet
<1>4. CASE Reject(t)
  <2>1. [row EXCEPT !.status = "FAILED", !.resolved = TRUE].fixer_used = row.fixer_used
    BY <1>0 DEF Records
  <2>2. QED
    BY <1>0, <1>4, <2>1, FixerFinishes DEF Reject, Quiet
<1>5. CASE RefuseRevise(t)
  BY <1>0, <1>5, FixerFinishes DEF RefuseRevise, Quiet
<1>6. ASSUME NEW n \in ReviseTargets, Revise(t, n)
      PROVE  FixerInv'
  <2> DEFINE revised == [row EXCEPT !.resolved = FALSE, !.dynamic = FALSE, !.node = n,
                                    !.revisions = row.revisions + 1]
  <2>1. revised.fixer_used = row.fixer_used
    BY <1>0 DEF Records
  <2>2. Commit(t, "execute", revised) /\ Quiet
    BY <1>6 DEF Revise
  <2> HIDE DEF revised
  <2>3. QED
    BY <1>0, <2>1, <2>2, FixerCommits DEF Quiet
<1>7. ASSUME NEW H \in Conditions, Approve(t, H)
      PROVE  FixerInv'
  <2> DEFINE approved == [row EXCEPT !.resolved = TRUE, !.node = NextNode(row.node, H)]
  <2>1. approved.fixer_used = row.fixer_used
    BY <1>0 DEF Records
  <2>2. Commit(t, "execute", approved) /\ Quiet
    BY <1>7 DEF Approve
  <2> HIDE DEF approved
  <2>3. QED
    BY <1>0, <2>1, <2>2, FixerCommits DEF Quiet
<1>8. ASSUME NEW H \in Conditions, ApproveDeadEnd(t, H)
      PROVE  FixerInv'
  BY <1>0, <1>8, FixerFinishes DEF ApproveDeadEnd, Quiet
<1>9. QED
  BY <1>1, <1>2, <1>3, <1>4, <1>5, <1>6, <1>7, <1>8 DEF DecisionStep

LEMMA FixerRoutes ==
  ASSUME TypeInv, FixerInv, NEW t \in Tasks, RouteStep(t)
  PROVE  FixerInv'
<1>0. /\ Run(t) \in Records /\ Run(t) = task[t].run
  BY RunType DEF TypeInv, Run
<1>1. hist.fixed \subseteq Run(t).fixer_used
  <2>1. At(t, "degrade") \/ At(t, "failed") \/ At(t, "plan") \/ At(t, "route")
    BY DEF RouteStep, TakeFallback, FailRun, FollowPlan, ApplyPlan, PlannerFallback, FollowEdge,
           Complete, Unrecovered
  <2>2. task[t].pc \in Looping
    BY <2>1 DEF At, Looping, Working
  <2>3. QED
    BY <1>0, <2>2 DEF FixerInv
<1>2. CASE TakeFallback(t)
  <2>1. [Run(t) EXCEPT !.node = FallbackTarget(Node(t))].fixer_used = Run(t).fixer_used
    BY <1>0 DEF Records
  <2>2. QED
    BY <1>1, <1>2, <2>1, FixerCommits DEF TakeFallback, Quiet
<1>3. CASE FailRun(t)
  <2>1. [Run(t) EXCEPT !.status = "FAILED"].fixer_used = Run(t).fixer_used
    BY <1>0 DEF Records
  <2>2. QED
    BY <1>1, <1>3, <2>1, FixerFinishes DEF FailRun, Quiet
<1>4. CASE FollowPlan(t)
  <2> DEFINE run == [Run(t) EXCEPT !.node = Head(Run(t).queue), !.queue = Tail(@)]
  <2>1. run.fixer_used = Run(t).fixer_used
    BY <1>0 DEF Records
  <2>2. Commit(t, "loop", run) /\ Quiet
    BY <1>4 DEF FollowPlan
  <2> HIDE DEF run
  <2>3. QED
    BY <1>1, <2>1, <2>2, FixerCommits DEF Quiet
<1>5. ASSUME NEW plan \in Plans, ApplyPlan(t, plan)
      PROVE  FixerInv'
  <2> DEFINE run == [Run(t) EXCEPT !.dynamic = plan # <<>>, !.queue = plan]
  <2>1. run.fixer_used = Run(t).fixer_used
    BY <1>0 DEF Records
  <2>2. Commit(t, "route", run) /\ Quiet
    BY <1>5 DEF ApplyPlan
  <2> HIDE DEF run
  <2>3. QED
    BY <1>1, <2>1, <2>2, FixerCommits DEF Quiet
<1>6. ASSUME NEW H \in Conditions, PlannerFallback(t, H)
      PROVE  FixerInv'
  <2> DEFINE next == NextNode(Planner, H)
             run == [Run(t) EXCEPT !.dynamic = FALSE, !.queue = <<>>,
                                   !.node = IF next = NoNode THEN DefaultNode ELSE next]
  <2>1. run.fixer_used = Run(t).fixer_used
    BY <1>0 DEF Records
  <2>2. Commit(t, "loop", run) /\ Quiet
    BY <1>6 DEF PlannerFallback
  <2> HIDE DEF run
  <2>3. QED
    BY <1>1, <2>1, <2>2, FixerCommits DEF Quiet
<1>7. ASSUME NEW H \in Conditions, FollowEdge(t, H)
      PROVE  FixerInv'
  <2> DEFINE run == [Run(t) EXCEPT !.node = NextNode(Node(t), H), !.dynamic = FALSE]
  <2>1. run.fixer_used = Run(t).fixer_used
    BY <1>0 DEF Records
  <2>2. Commit(t, "loop", run) /\ Quiet
    BY <1>7 DEF FollowEdge
  <2> HIDE DEF run
  <2>3. QED
    BY <1>1, <2>1, <2>2, FixerCommits DEF Quiet
<1>8. ASSUME NEW H \in Conditions, Complete(t, H)
      PROVE  FixerInv'
  <2> DEFINE run == [Run(t) EXCEPT !.status = "COMPLETED", !.node = NoNode, !.dynamic = FALSE]
  <2>1. run.fixer_used = Run(t).fixer_used
    BY <1>0 DEF Records
  <2>2. Finish(t, run) /\ Quiet
    BY <1>8 DEF Complete
  <2> HIDE DEF run
  <2>3. QED
    BY <1>1, <2>1, <2>2, FixerFinishes DEF Quiet
<1>9. QED
  BY <1>2, <1>3, <1>4, <1>5, <1>6, <1>7, <1>8 DEF RouteStep

LEMMA FixerNodes ==
  ASSUME TypeInv, FixerInv, OneDriver, NEW t \in Tasks, NodeStep(t)
  PROVE  FixerInv'
<1>0. /\ task \in [Tasks -> KnownStates] /\ task[t] \in TaskStates
      /\ Run(t) \in Records /\ Run(t) = task[t].run /\ Victim(t) = task[t].victim
  BY RunType DEF TypeInv, TypeNow, Run, Victim
<1>1. task[t].pc \in Looping /\ hist.fixed \subseteq Run(t).fixer_used
  <2>1. task[t].pc \in Looping
    BY DEF NodeStep, UnknownNode, EnterNode, GatePass, GatePause, NodeSucceeds, RetryLater, Wake,
           NodeFails, CallFixer, StartFixer, RetryVictim, At, Looping, Working
  <2>2. QED
    BY <1>0, <2>1 DEF FixerInv
<1>2. CASE UnknownNode(t) \/ GatePause(t)
  <2>1. PICK s \in Statuses : Finish(t, [Run(t) EXCEPT !.status = s]) /\ Quiet
    BY <1>2 DEF UnknownNode, GatePause, Statuses
  <2>2. [Run(t) EXCEPT !.status = s].fixer_used = Run(t).fixer_used
    BY <1>0 DEF Records
  <2>3. QED
    BY <1>1, <2>1, <2>2, FixerFinishes DEF Quiet
<1>3. CASE EnterNode(t)
  BY <1>1, <1>3, FixerBegins DEF EnterNode, Quiet
<1>4. CASE GatePass(t)
  <2> DEFINE run == [Run(t) EXCEPT !.resolved = FALSE]
  <2>1. run.fixer_used = Run(t).fixer_used
    BY <1>0 DEF Records
  <2>2. Commit(t, "route", run)
    BY <1>4 DEF GatePass
  <2>3. hist'.fixed = hist.fixed /\ hist'.refixed = hist.refixed
    BY <1>4 DEF GatePass, Note, TypeInv, HistOK
  <2> HIDE DEF run
  <2>4. task'[t].pc = "route" /\ task'[t].run = run /\ row' = run
    BY <2>2, CommitEffect
  <2>5. \A u \in Tasks \ {t} : task'[u] = task[u]
    BY <1>0, <2>2 DEF Commit
  <2>6. QED
    BY <1>1, <2>1, <2>3, <2>4, <2>5 DEF FixerInv
<1>5. CASE NodeSucceeds(t)
  <2>1. /\ \A u \in Tasks \ {t} : task'[u] = task[u]
        /\ task'[t].pc \in {"fixed", "plan", "route"} /\ task'[t].run = Run(t) /\ row' = Run(t)
    BY <1>0, <1>5 DEF NodeSucceeds, KnownStates, TaskStates
  <2>2. hist'.fixed = hist.fixed /\ hist'.refixed = hist.refixed
    BY <1>5 DEF NodeSucceeds, Note, TypeInv, HistOK
  <2>3. QED
    BY <1>1, <2>1, <2>2 DEF FixerInv
<1>6. CASE RetryLater(t)
  <2>1. [Run(t) EXCEPT !.status = "RETRYING"].fixer_used = Run(t).fixer_used
    BY <1>0 DEF Records
  <2>2. QED
    BY <1>1, <1>6, <2>1, FixerCommits DEF RetryLater, Quiet
<1>7. CASE Wake(t)
  <2> DEFINE awake == [Run(t) EXCEPT !.status = "RUNNING"]
  <2>1. /\ \A u \in Tasks \ {t} : task'[u] = task[u]
        /\ task'[t].pc = "node" /\ task'[t].run = awake /\ row' = awake
    BY <1>0, <1>7 DEF Wake, KnownStates, TaskStates
  <2>2. awake.fixer_used = Run(t).fixer_used
    BY <1>0 DEF Records
  <2>3. UNCHANGED <<hist, crashes>>
    BY <1>7 DEF Wake, Quiet
  <2> HIDE DEF awake
  <2>4. QED
    BY <1>1, <2>1, <2>2, <2>3, FixerUnchanged
<1>8. CASE NodeFails(t)
  <2>1. PICK n : task'[t].run = [Run(t) EXCEPT !.node = n]
    BY <1>0, <1>8 DEF NodeFails, KnownStates, TaskStates
  <2>2. /\ \A u \in Tasks \ {t} : task'[u] = task[u]
        /\ task'[t].pc \in {"failed", "degrade"} /\ row' = Run(t)
    BY <1>0, <1>8 DEF NodeFails, KnownStates, TaskStates
  <2>3. [Run(t) EXCEPT !.node = n].fixer_used = Run(t).fixer_used
    BY <1>0 DEF Records
  <2>4. UNCHANGED <<hist, crashes>>
    BY <1>8 DEF NodeFails, Quiet
  <2>5. QED
    BY <1>1, <2>1, <2>2, <2>3, <2>4, FixerUnchanged
<1>9. CASE CallFixer(t)
  <2> DEFINE run == [Run(t) EXCEPT !.fixer_used = Run(t).fixer_used \cup {Node(t)}]
  <2>1. run.fixer_used = Run(t).fixer_used \cup {Node(t)}
    BY <1>0 DEF Records
  <2>2. /\ \A u \in Tasks \ {t} : task'[u] = task[u]
        /\ task'[t].pc = "fixing" /\ task'[t].run = run /\ row' = run
        /\ task'[t].victim = Node(t)
    BY <1>0, <1>9 DEF CallFixer, KnownStates, TaskStates
  <2>3. Node(t) \notin Run(t).fixer_used /\ UNCHANGED <<hist, crashes>>
    BY <1>9 DEF CallFixer, FixerHelps, Quiet
  <2> HIDE DEF run
  <2>4. QED
    BY <1>1, <2>1, <2>2, <2>3, FixerUnchanged
<1>10. CASE StartFixer(t)
  <2> DEFINE run == [Run(t) EXCEPT !.node = Fixer]
  <2>1. run.fixer_used = Run(t).fixer_used
    BY <1>0 DEF Records
  <2>2. Begin(t, run, Victim(t)) /\ task[t].pc = "fixing"
    BY <1>10 DEF StartFixer, At
  <2>3. Victim(t) \in Run(t).fixer_used \ hist.fixed
    BY <1>0, <2>2 DEF FixerInv
  <2>4. hist'.fixed = hist.fixed \cup {Victim(t)} /\ hist'.refixed = hist.refixed
    <3>1. /\ hist'.fixed = hist.fixed \cup {Victim(t)}
          /\ hist'.refixed = hist.refixed \cup ({Victim(t)} \cap hist.fixed)
      BY <1>10 DEF StartFixer, Note, TypeInv, HistOK
    <3>2. QED
      BY <2>3, <3>1
  <2> HIDE DEF run
  <2>5. /\ task'[t].pc = "node" /\ task'[t].run = run /\ row' = run
        /\ \A u \in Tasks \ {t} : task'[u] = task[u]
    BY <1>0, <2>2, BeginEffect DEF Begin
  <2>6. \A u \in Tasks \ {t} : task[u].pc \notin Looping
    BY <1>1 DEF OneDriver, Drives, Looping, Working
  <2>7. "fixing" \in Looping
    BY DEF Looping, Working
  <2>8. QED
    BY <1>1, <2>1, <2>3, <2>4, <2>5, <2>6, <2>7 DEF FixerInv
<1>11. CASE RetryVictim(t)
  <2>1. [Run(t) EXCEPT !.node = Victim(t)].fixer_used = Run(t).fixer_used
    BY <1>0 DEF Records
  <2>2. QED
    BY <1>1, <1>11, <2>1, FixerBegins DEF RetryVictim, Quiet
<1>12. QED
  BY <1>2, <1>3, <1>4, <1>5, <1>6, <1>7, <1>8, <1>9, <1>10, <1>11 DEF NodeStep

LEMMA FixerStep == TypeInv /\ OneDriver /\ FixerInv /\ [Next]_vars => FixerInv'
<1> SUFFICES ASSUME TypeInv, OneDriver, FixerInv, [Next]_vars PROVE FixerInv'
  OBVIOUS
<1>1. CASE CrashRestart
  <2>1. row \in Records
    BY DEF TypeInv, TypeNow
  <2>2. row'.fixer_used = row.fixer_used
    BY <1>1, <2>1 DEF CrashRestart, Records
  <2>3. hist' = hist /\ \A t \in Tasks : task'[t].pc = "idle"
    BY <1>1 DEF CrashRestart, Idle
  <2>4. QED
    BY <2>2, <2>3 DEF FixerInv, Looping, Working
<1>2. ASSUME NEW t \in Tasks, ClientStep(t) \/ TaskStep(t)
      PROVE  FixerInv'
  BY <1>2, FixerClient, FixerDecides, FixerNodes, FixerRoutes DEF TaskStep
<1>3. CASE UNCHANGED vars
  BY <1>3 DEF vars, FixerInv
<1>4. QED
  BY <1>1, <1>2, <1>3 DEF Next

\* While one task at a time drives the run (there is one task, or clients do not use resume),
\* the fixer is called for each node at most once: fixer_used_for is saved before the fixer
\* runs, so neither a crash nor a revise or an execution of the same node gives it back.
THEOREM FixedOnce ==
  ASSUME (\A t, u \in Tasks : t = u) \/ "resume" \notin Requests
  PROVE  Spec => []FixerOncePerNode
<1>1. Spec => []OneDriver
  <2>1. CASE \A t, u \in Tasks : t = u
    <3>1. OneDriver
      BY <2>1 DEF OneDriver
    <3>2. QED
      BY <3>1, PTL
  <2>2. CASE "resume" \notin Requests
    BY <2>2, SingleDriver
  <2>3. QED
    BY <2>1, <2>2
<1>2. Init => FixerInv
  BY DEF Init, FixerInv, NewRun, Idle, Looping, Working
<1>3. FixerInv => FixerOncePerNode
  BY DEF FixerInv, FixerOncePerNode
<1>4. QED
  BY <1>1, <1>2, <1>3, TypeInvariant, FixerStep, PTL DEF Spec

-----------------------------------------------------------------------------
(* Where the run is, while a node is executed or recovered.                *)

\* The node the loop is at: the failed one, while the fixer runs for it.
Place(s) == IF s.victim # NoNode THEN s.victim ELSE s.run.node

\* A failed node is known only inside the recovery, where the fixer or the node itself runs.
Recovering(s) ==
  /\ s.victim # NoNode =>
       /\ s.pc \in {"node", "backoff", "fixing", "fixed"}
       /\ s.run.node \in {s.victim, Fixer} /\ s.victim # Fixer
  /\ s.pc = "plan" => s.run.node = Planner

RecoveryInv == \A t \in Tasks : Recovering(task[t])

\* From the task state s to n the run stays where it is, with its plan and its decision.
Stays(s, n) ==
  /\ n.pc \in Looping \ {"loop"} /\ Place(n) = Place(s)
  /\ n.run.resolved = s.run.resolved
  /\ n.run.dynamic = s.run.dynamic
  /\ n.run.queue = s.run.queue

StandStep(t) ==
  \/ EnterNode(t) \/ NodeSucceeds(t) \/ RetryLater(t) \/ Wake(t) \/ NodeFails(t)
  \/ CallFixer(t) \/ StartFixer(t) \/ RetryVictim(t)

\* A new status or a larger fixer_used_for leaves the rest of the record alone.
LEMMA SameFields ==
  ASSUME NEW run \in Records, NEW s, NEW n, NEW F
  PROVE  LET a == [run EXCEPT !.status = s]
             b == [run EXCEPT !.node = n]
             c == [run EXCEPT !.fixer_used = F]
         IN  /\ a.node = run.node /\ b.node = n /\ c.node = run.node
             /\ a.queue = run.queue /\ b.queue = run.queue /\ c.queue = run.queue
             /\ a.resolved = run.resolved /\ b.resolved = run.resolved /\ c.resolved = run.resolved
             /\ a.dynamic = run.dynamic /\ b.dynamic = run.dynamic /\ c.dynamic = run.dynamic
  BY DEF Records

LEMMA Standing ==
  ASSUME TypeInv, NEW t \in Tasks, Recovering(task[t]), StandStep(t)
  PROVE  /\ task[t].pc \in Looping
         /\ Stays(task[t], task'[t]) /\ Recovering(task'[t])
         /\ \A u \in Tasks \ {t} : task'[u] = task[u]
         /\ hist'.bypassed = hist.bypassed /\ crashes' = crashes
         /\ hist.delivered => hist'.delivered
         /\ task'[t].pc \in {"plan", "route"} /\ Place(task'[t]) \in Sinks \ {Fixer}
              => hist'.delivered
<1>0. /\ task \in [Tasks -> KnownStates] /\ task[t] \in TaskStates /\ Known(task[t])
      /\ Run(t) \in Records /\ Run(t) = task[t].run /\ Victim(t) = task[t].victim
      /\ Node(t) = task[t].run.node
      /\ NoNode \notin Nodes
  BY RunType, EdgesAssumption DEF TypeInv, TypeNow, Run, Victim, Node
<1>1. task[t].pc \in Looping
  BY DEF StandStep, EnterNode, NodeSucceeds, RetryLater, Wake, NodeFails, CallFixer, StartFixer,
         RetryVictim, At, Looping, Working
<1>2. \A u \in Tasks \ {t} : task'[u] = task[u]
  BY <1>0 DEF StandStep, EnterNode, NodeSucceeds, RetryLater, Wake, NodeFails, CallFixer,
              StartFixer, RetryVictim, Commit, Begin
<1>3. hist'.bypassed = hist.bypassed /\ crashes' = crashes
  BY DEF StandStep, EnterNode, NodeSucceeds, RetryLater, Wake, NodeFails, CallFixer,
         StartFixer, RetryVictim, Quiet, Note, TypeInv, HistOK
<1>4. hist.delivered => hist'.delivered
  <2>1. CASE NodeSucceeds(t)
    BY <2>1 DEF NodeSucceeds, Note, TypeInv, HistOK
  <2>2. CASE StartFixer(t)
    BY <2>2 DEF StartFixer, Note, TypeInv, HistOK
  <2>3. CASE ~NodeSucceeds(t) /\ ~StartFixer(t)
    BY <2>3 DEF StandStep, EnterNode, RetryLater, Wake, NodeFails, CallFixer, RetryVictim, Quiet
  <2>4. QED
    BY <2>1, <2>2, <2>3
<1> USE DEF Place, Recovering, Stays, Looping, Working
<1>5. CASE EnterNode(t)
  <2>1. /\ task[t].pc = "loop" /\ task'[t].pc = "node" /\ task'[t].run = Run(t)
        /\ task'[t].victim = NoNode
    BY <1>0, <1>5 DEF EnterNode, At, Begin, KnownStates, TaskStates
  <2>2. QED
    BY <1>0, <1>1, <1>2, <1>3, <1>4, <2>1
<1>6. CASE NodeSucceeds(t)
  <2>1. task[t].pc = "node" /\ task'[t].run = Run(t)
    BY <1>0, <1>6 DEF NodeSucceeds, At, KnownStates, TaskStates
  <2>2. Node(t) \in Sinks \ {Fixer} => hist'.delivered
    <3> DEFINE sunk == Node(t) \in Sinks \ {Fixer}
               done == hist.delivered \/ sunk
    <3>1. hist' = [hist EXCEPT !.delivered = done]
      BY <1>6 DEF NodeSucceeds, Note
    <3>2. sunk => done
      OBVIOUS
    <3> HIDE DEF done
    <3>3. hist'.delivered = done
      BY <3>1 DEF TypeInv, HistOK
    <3>4. QED
      BY <3>2, <3>3, Zenon
  <2> DEFINE pc == CASE InFixer(t) -> "fixed" [] Node(t) = Planner -> "plan" [] OTHER -> "route"
             victim == IF InFixer(t) THEN Victim(t) ELSE NoNode
  <2>3. task' = [task EXCEPT ![t].pc = pc, ![t].victim = victim]
    BY <1>6 DEF NodeSucceeds
  <2>4. InFixer(t) => pc = "fixed" /\ victim = Victim(t)
    BY RunnerAssumption DEF InFixer
  <2>5. ~InFixer(t) => pc = (IF Node(t) = Planner THEN "plan" ELSE "route") /\ victim = NoNode
    BY RunnerAssumption DEF InFixer
  <2> HIDE DEF pc, victim
  <2>6. task'[t].pc = pc /\ task'[t].victim = victim
    BY <1>0, <2>3 DEF KnownStates, TaskStates
  <2>7. CASE InFixer(t)
    BY <1>0, <1>1, <1>2, <1>3, <1>4, <2>1, <2>4, <2>6, <2>7 DEF InFixer
  <2>8. CASE ~InFixer(t)
    <3>1. Node(t) = Place(task[t])
      BY <1>0, <2>8 DEF InFixer
    <3>2. QED
      BY <1>0, <1>1, <1>2, <1>3, <1>4, <2>1, <2>2, <2>5, <2>6, <2>8, <3>1
  <2>9. QED
    BY <2>7, <2>8
<1>7. CASE RetryLater(t)
  <2>1. /\ task[t].pc = "node" /\ task'[t].pc = "backoff" /\ task'[t].victim = Victim(t)
        /\ task'[t].run = [Run(t) EXCEPT !.status = "RETRYING"]
    BY <1>0, <1>7 DEF RetryLater, At, Commit, KnownStates, TaskStates
  <2>2. QED
    BY <1>0, <1>1, <1>2, <1>3, <1>4, <2>1, SameFields
<1>8. CASE Wake(t)
  <2>1. /\ task[t].pc = "backoff" /\ task'[t].pc = "node" /\ task'[t].victim = Victim(t)
        /\ task'[t].run = [Run(t) EXCEPT !.status = "RUNNING"]
    BY <1>0, <1>8 DEF Wake, At, KnownStates, TaskStates
  <2>2. QED
    BY <1>0, <1>1, <1>2, <1>3, <1>4, <2>1, SameFields
<1>9. CASE NodeFails(t)
  <2>1. /\ task[t].pc = "node" /\ task'[t].pc \in {"failed", "degrade"}
        /\ task'[t].victim = NoNode
        /\ task'[t].run = [Run(t) EXCEPT !.node = IF Victim(t) = NoNode THEN Node(t) ELSE Victim(t)]
    BY <1>0, <1>9 DEF NodeFails, At, KnownStates, TaskStates, Run
  <2>2. QED
    BY <1>0, <1>1, <1>2, <1>3, <1>4, <2>1, SameFields
<1>10. CASE CallFixer(t)
  <2>1. /\ task[t].pc = "failed" /\ task'[t].pc = "fixing" /\ task'[t].victim = Node(t)
        /\ task'[t].run = [Run(t) EXCEPT !.fixer_used = Run(t).fixer_used \cup {Node(t)}]
    BY <1>0, <1>10 DEF CallFixer, At, KnownStates, TaskStates
  <2>2. Node(t) # Fixer /\ Node(t) \in Nodes
    BY <1>0, <1>10 DEF CallFixer, FixerHelps, At, Known
  <2>3. QED
    BY <1>0, <1>1, <1>2, <1>3, <1>4, <2>1, <2>2, SameFields
<1>11. CASE StartFixer(t) \/ RetryVictim(t)
  <2>1. PICK n \in {Fixer, Victim(t)} :
          /\ task'[t].pc = "node" /\ task'[t].victim = Victim(t)
          /\ task'[t].run = [Run(t) EXCEPT !.node = n]
    BY <1>0, <1>11 DEF StartFixer, RetryVictim, Begin, KnownStates, TaskStates
  <2>2. Victim(t) \in Nodes
    BY <1>0, <1>11 DEF StartFixer, RetryVictim, At, Known
  <2>3. QED
    BY <1>0, <1>1, <1>2, <1>3, <1>4, <2>1, <2>2, SameFields
<1>12. QED
  BY <1>5, <1>6, <1>7, <1>8, <1>9, <1>10, <1>11 DEF StandStep

\* What the ways on make of a record r: the next one is n.
ByEdge(r, n) ==
  \E H \in Conditions : /\ NextNode(r.node, H) # NoNode /\ n.node = NextNode(r.node, H)
                        /\ n.resolved = r.resolved /\ ~n.dynamic /\ n.queue = r.queue

ByPlan(r, n) ==
  /\ r.dynamic /\ r.queue # <<>> /\ n.node = Head(r.queue) /\ n.queue = Tail(r.queue)
  /\ n.resolved = r.resolved

ByFallback(r, n) ==
  /\ FallbackTarget(r.node) # NoNode /\ n.node = FallbackTarget(r.node)
  /\ n.resolved = r.resolved /\ n.dynamic = r.dynamic /\ n.queue = r.queue

ByDefault(r, n) ==
  /\ r.node = Planner
  /\ \/ n.node = DefaultNode
     \/ \E H \in Conditions : NextNode(Planner, H) # NoNode /\ n.node = NextNode(Planner, H)
  /\ n.resolved = r.resolved /\ ~n.dynamic /\ n.queue = <<>>

Planned(r, n) ==
  /\ r.node = Planner /\ n.node = r.node /\ n.resolved = r.resolved
  /\ n.queue \in Plans

\* From the task state s the run ends as saved: by failure, or because no edge leads on.
Ends(s, saved) ==
  \/ saved.status = "FAILED"
  \/ /\ saved.status = "COMPLETED" /\ s.pc = "route"
     /\ \E H \in Conditions : NextNode(s.run.node, H) = NoNode

\* The outcomes of a step of _loop() behind a node, for the task states s and n.
Routed(s, n, saved) ==
  \/ n = Idle /\ Ends(s, saved)
  \/ n.pc = "route" /\ n.victim = NoNode /\ s.pc = "plan" /\ Planned(s.run, n.run)
  \/ n.pc = "loop" /\ n.victim = NoNode
     /\ (ByEdge(s.run, n.run) \/ ByPlan(s.run, n.run) \/ ByFallback(s.run, n.run)
           \/ ByDefault(s.run, n.run))

LEMMA RouteMoves ==
  ASSUME TypeInv, NEW t \in Tasks, Recovering(task[t]), RouteStep(t)
  PROVE  /\ task[t].pc \in {"failed", "degrade", "plan", "route"} /\ task[t].victim = NoNode
         /\ \A u \in Tasks \ {t} : task'[u] = task[u]
         /\ UNCHANGED <<hist, crashes>>
         /\ Routed(task[t], task'[t], row')
<1>0. /\ task \in [Tasks -> KnownStates] /\ task[t] \in TaskStates
      /\ Run(t) \in Records /\ Run(t) = task[t].run /\ Node(t) = task[t].run.node
  BY RunType DEF TypeInv, TypeNow, Run, Node
<1>1. task[t].pc \in {"failed", "degrade", "plan", "route"} /\ task[t].victim = NoNode
  BY DEF RouteStep, TakeFallback, FailRun, FollowPlan, ApplyPlan, PlannerFallback, FollowEdge,
         Complete, Unrecovered, At, Recovering
<1>2. \A u \in Tasks \ {t} : task'[u] = task[u]
  BY StepOutcome DEF TaskStep
<1>3. UNCHANGED <<hist, crashes>>
  BY RouteType DEF TypeInv
<1>4. ASSUME NEW pc, NEW run, Commit(t, pc, run)
      PROVE  task'[t].pc = pc /\ task'[t].run = run /\ task'[t].victim = NoNode
  BY <1>0, <1>1, <1>4 DEF Commit, KnownStates, TaskStates
<1>5. CASE TakeFallback(t)
  <2> DEFINE run == [Run(t) EXCEPT !.node = FallbackTarget(Node(t))]
  <2>1. run.node = FallbackTarget(Node(t)) /\ run.queue = Run(t).queue
    BY <1>0 DEF Records
  <2>2. run.resolved = Run(t).resolved /\ run.dynamic = Run(t).dynamic
    BY <1>0 DEF Records
  <2>3. Commit(t, "loop", run) /\ FallbackTarget(Node(t)) # NoNode
    BY <1>5 DEF TakeFallback
  <2> HIDE DEF run
  <2>4. ByFallback(task[t].run, run)
    BY <1>0, <2>1, <2>2, <2>3 DEF ByFallback
  <2>5. QED
    BY <1>1, <1>2, <1>3, <1>4, <2>3, <2>4 DEF Routed
<1>6. CASE FailRun(t)
  <2> DEFINE run == [Run(t) EXCEPT !.status = "FAILED"]
  <2>1. run.status = "FAILED"
    BY <1>0 DEF Records
  <2>2. task'[t] = Idle /\ row' = run
    BY <1>0, <1>6 DEF FailRun, Finish
  <2> HIDE DEF run
  <2>3. QED
    BY <1>1, <1>2, <1>3, <2>1, <2>2 DEF Routed, Ends
<1>7. CASE FollowPlan(t)
  <2> DEFINE run == [Run(t) EXCEPT !.node = Head(Run(t).queue), !.queue = Tail(@)]
  <2>1. run.node = Head(Run(t).queue) /\ run.queue = Tail(Run(t).queue)
    BY <1>0 DEF Records
  <2>2. run.resolved = Run(t).resolved
    BY <1>0 DEF Records
  <2>3. Commit(t, "loop", run) /\ Run(t).dynamic /\ Run(t).queue # <<>>
    BY <1>7 DEF FollowPlan, PlanLeft
  <2> HIDE DEF run
  <2>4. ByPlan(task[t].run, run)
    BY <1>0, <2>1, <2>2, <2>3 DEF ByPlan
  <2>5. QED
    BY <1>1, <1>2, <1>3, <1>4, <2>3, <2>4 DEF Routed
<1>8. ASSUME NEW plan \in Plans, ApplyPlan(t, plan)
      PROVE  Routed(task[t], task'[t], row')
  <2> DEFINE run == [Run(t) EXCEPT !.dynamic = plan # <<>>, !.queue = plan]
  <2>1. run.node = Run(t).node /\ run.queue = plan
    BY <1>0 DEF Records
  <2>2. run.resolved = Run(t).resolved
    BY <1>0 DEF Records
  <2>3. Commit(t, "route", run) /\ task[t].pc = "plan"
    BY <1>8 DEF ApplyPlan, At
  <2>4. task[t].run.node = Planner
    BY <2>3 DEF Recovering
  <2> HIDE DEF run
  <2>5. Planned(task[t].run, run)
    BY <1>0, <1>8, <2>1, <2>2, <2>4 DEF Planned
  <2>6. QED
    BY <1>4, <2>3, <2>5 DEF Routed
<1>9. ASSUME NEW H \in Conditions, PlannerFallback(t, H)
      PROVE  Routed(task[t], task'[t], row')
  <2> DEFINE next == NextNode(Planner, H)
             n == IF next = NoNode THEN DefaultNode ELSE next
             run == [Run(t) EXCEPT !.dynamic = FALSE, !.queue = <<>>, !.node = n]
  <2>1. Commit(t, "loop", run) /\ Node(t) = Planner
    BY <1>9 DEF PlannerFallback
  <2>2. n = DefaultNode \/ (next # NoNode /\ n = next)
    OBVIOUS
  <2> HIDE DEF n
  <2>3. run.node = n /\ run.queue = <<>>
    BY <1>0 DEF Records
  <2>4. run.resolved = Run(t).resolved /\ ~run.dynamic
    BY <1>0 DEF Records
  <2> HIDE DEF run
  <2>5. ByDefault(task[t].run, run)
    BY <1>0, <2>1, <2>2, <2>3, <2>4 DEF ByDefault
  <2>6. QED
    BY <1>4, <2>1, <2>5 DEF Routed
<1>10. ASSUME NEW H \in Conditions, FollowEdge(t, H)
       PROVE  Routed(task[t], task'[t], row')
  <2> DEFINE run == [Run(t) EXCEPT !.node = NextNode(Node(t), H), !.dynamic = FALSE]
  <2>1. run.node = NextNode(Node(t), H) /\ run.queue = Run(t).queue
    BY <1>0 DEF Records
  <2>2. run.resolved = Run(t).resolved /\ ~run.dynamic
    BY <1>0 DEF Records
  <2>3. Commit(t, "loop", run) /\ NextNode(Node(t), H) # NoNode
    BY <1>10 DEF FollowEdge
  <2> HIDE DEF run
  <2>4. ByEdge(task[t].run, run)
    BY <1>0, <2>1, <2>2, <2>3 DEF ByEdge
  <2>5. QED
    BY <1>4, <2>3, <2>4 DEF Routed
<1>11. ASSUME NEW H \in Conditions, Complete(t, H)
       PROVE  Routed(task[t], task'[t], row')
  <2> DEFINE run == [Run(t) EXCEPT !.status = "COMPLETED", !.node = NoNode, !.dynamic = FALSE]
  <2>1. run.status = "COMPLETED"
    BY <1>0 DEF Records
  <2>2. /\ task'[t] = Idle /\ row' = run /\ task[t].pc = "route"
        /\ NextNode(Node(t), H) = NoNode
    BY <1>0, <1>11 DEF Complete, Finish, At
  <2> HIDE DEF run
  <2>3. QED
    BY <1>0, <2>1, <2>2 DEF Routed, Ends
<1>12. QED
  BY <1>1, <1>2, <1>3, <1>5, <1>6, <1>7, <1>8, <1>9, <1>10, <1>11 DEF RouteStep

\* At a checkpoint the run pauses, unless a decision was left over: then it goes through.
\* The third outcome is that of a node the graph does not have.
Gated(s, n, saved) ==
  \/ /\ n.pc = "route" /\ n.victim = NoNode
     /\ s.run.node \in Checkpoints /\ s.run.resolved
     /\ n.run.node = s.run.node /\ ~n.run.resolved /\ n.run.queue = s.run.queue
  \/ /\ n = Idle /\ saved.status = "PAUSED"
     /\ s.run.node \in Checkpoints /\ ~s.run.resolved
     /\ saved.node = s.run.node /\ ~saved.resolved
     /\ saved.dynamic = s.run.dynamic /\ saved.queue = s.run.queue
  \/ n = Idle /\ saved.status = "FAILED"

LEMMA GateMoves ==
  ASSUME TypeInv, NEW t \in Tasks, Recovering(task[t]),
         UnknownNode(t) \/ GatePass(t) \/ GatePause(t)
  PROVE  /\ task[t].pc = "loop" /\ task[t].victim = NoNode
         /\ \A u \in Tasks \ {t} : task'[u] = task[u]
         /\ crashes' = crashes /\ (hist.delivered => hist'.delivered)
         /\ ~GatePass(t) => hist'.bypassed = hist.bypassed
         /\ GatePass(t) => task[t].run.node \in Checkpoints /\ task[t].run.resolved
         /\ Gated(task[t], task'[t], row')
<1>0. /\ task \in [Tasks -> KnownStates] /\ task[t] \in TaskStates
      /\ Run(t) \in Records /\ Run(t) = task[t].run /\ Node(t) = task[t].run.node
  BY RunType DEF TypeInv, TypeNow, Run, Node
<1>1. task[t].pc = "loop" /\ task[t].victim = NoNode
  BY DEF UnknownNode, GatePass, GatePause, At, Recovering
<1>2. \A u \in Tasks \ {t} : task'[u] = task[u]
  BY StepOutcome DEF TaskStep, NodeStep
<1>3. CASE GatePass(t)
  <2> DEFINE run == [Run(t) EXCEPT !.resolved = FALSE]
  <2>1. run.node = Run(t).node /\ run.queue = Run(t).queue
    BY <1>0 DEF Records
  <2>2. ~run.resolved
    BY <1>0 DEF Records
  <2>3. Commit(t, "route", run) /\ Node(t) \in Checkpoints /\ Run(t).resolved
    BY <1>3 DEF GatePass
  <2> HIDE DEF run
  <2>4. task'[t].pc = "route" /\ task'[t].run = run /\ task'[t].victim = NoNode
    BY <1>0, <1>1, <2>3 DEF Commit, KnownStates, TaskStates
  <2>5. crashes' = crashes /\ (hist.delivered => hist'.delivered)
    BY <1>3 DEF GatePass, Note, TypeInv, HistOK
  <2>6. QED
    BY <1>0, <1>1, <1>2, <1>3, <2>1, <2>2, <2>3, <2>4, <2>5 DEF Gated
<1>4. CASE GatePause(t)
  <2> DEFINE run == [Run(t) EXCEPT !.status = "PAUSED"]
  <2>1. run.status = "PAUSED"
    BY <1>0 DEF Records
  <2>2. /\ task'[t] = Idle /\ row' = run /\ Node(t) \in Checkpoints /\ ~Run(t).resolved
    BY <1>0, <1>4 DEF GatePause, Finish
  <2>3. /\ run.node = Run(t).node /\ run.queue = Run(t).queue
        /\ run.resolved = Run(t).resolved /\ run.dynamic = Run(t).dynamic
    BY <1>0, SameFields
  <2>4. UNCHANGED <<hist, crashes>>
    BY <1>4 DEF GatePause, Quiet
  <2>5. ~GatePass(t)
    BY <1>4 DEF GatePass, GatePause
  <2> HIDE DEF run
  <2>6. QED
    BY <1>0, <1>1, <1>2, <2>1, <2>2, <2>3, <2>4, <2>5 DEF Gated
<1>5. CASE UnknownNode(t)
  <2> DEFINE run == [Run(t) EXCEPT !.status = "FAILED"]
  <2>1. run.status = "FAILED"
    BY <1>0 DEF Records
  <2>2. task'[t] = Idle /\ row' = run
    BY <1>0, <1>5 DEF UnknownNode, Finish
  <2>3. UNCHANGED <<hist, crashes>>
    BY <1>5 DEF UnknownNode, Quiet
  <2>4. ~GatePass(t)
    BY <1>5, RunnerAssumption DEF GatePass, UnknownNode
  <2> HIDE DEF run
  <2>5. QED
    BY <1>1, <1>2, <2>1, <2>2, <2>3, <2>4 DEF Gated
<1>6. QED
  BY <1>3, <1>4, <1>5

\* What a decision makes of the row r.
Revised(r, n) ==
  n.node \in ReviseTargets /\ ~n.resolved /\ ~n.dynamic /\ n.queue = r.queue

Approved(r, n) ==
  \E H \in Conditions : /\ NextNode(r.node, H) # NoNode /\ n.node = NextNode(r.node, H)
                        /\ n.dynamic = r.dynamic /\ n.queue = r.queue

SameRoute(r, n) ==
  n.node = r.node /\ n.resolved = r.resolved /\ n.dynamic = r.dynamic /\ n.queue = r.queue

\* A decision is refused, ends the run, or takes the paused run for this task.
Decided(n, r, saved) ==
  \/ n = Idle /\ saved = r
  \/ n = Idle /\ saved.status = "FAILED" /\ SameRoute(r, saved)
  \/ n = Idle /\ saved.status = "FAILED" /\ r.status = "PAUSED"
  \/ /\ n.pc = "execute" /\ n.victim = NoNode /\ r.status = "PAUSED" /\ saved.status = "PAUSED"
     /\ Revised(r, saved) \/ Approved(r, saved)

LEMMA DecisionMoves ==
  ASSUME TypeInv, SoleDriver, NEW t \in Tasks, Recovering(task[t]), DecisionStep(t)
  PROVE  /\ row.status = "PAUSED" => \A u \in Tasks : ~Drives(u)
         /\ task[t].pc = "queued" /\ ~Drives(t)
         /\ \A u \in Tasks \ {t} : task'[u] = task[u]
         /\ UNCHANGED <<hist, crashes>>
         /\ Decided(task'[t], row, row')
<1>0. task \in [Tasks -> KnownStates] /\ task[t] \in TaskStates /\ row \in Records
  BY RunType DEF TypeInv, TypeNow
<1>1. /\ task[t].pc = "queued" /\ task[t].victim = NoNode
      /\ \A u \in Tasks \ {t} : task[u].pc # "execute"
  BY DEF DecisionStep, RefuseDecision, Reject, RefuseRevise, Revise, Approve, ApproveDeadEnd,
         Decides, Decisions, At, Recovering, Suspended
<1>2. ~Drives(t)
  BY DecisionOutcome
<1>3. row.status = "PAUSED" => \A u \in Tasks : ~Drives(u)
  BY <1>1, <1>2 DEF SoleDriver
<1>4. \A u \in Tasks \ {t} : task'[u] = task[u]
  BY StepOutcome DEF TaskStep
<1>5. UNCHANGED <<hist, crashes>>
  BY DecisionType DEF TypeInv
<1>6. ASSUME NEW pc, NEW run, Commit(t, pc, run)
      PROVE  task'[t].pc = pc /\ row' = run /\ task'[t].victim = NoNode
  BY <1>0, <1>1, <1>6 DEF Commit, KnownStates, TaskStates
<1>7. CASE RefuseDecision(t)
  <2> DEFINE failed == [row EXCEPT !.status = "FAILED"]
  <2>1. failed.status = "FAILED" /\ SameRoute(row, failed)
    BY <1>0, SameFields DEF Records, SameRoute
  <2>2. task'[t] = Idle /\ row' = IF row.status = "RUNNING" THEN failed ELSE row
    BY <1>0, <1>7 DEF RefuseDecision, Finish
  <2> HIDE DEF failed
  <2>3. QED
    BY <1>1, <1>2, <1>3, <1>4, <1>5, <2>1, <2>2 DEF Decided
<1>8. CASE Reject(t)
  <2> DEFINE failed == [row EXCEPT !.status = "FAILED", !.resolved = TRUE]
  <2>1. failed.status = "FAILED"
    BY <1>0 DEF Records
  <2>2. task'[t] = Idle /\ row' = failed /\ row.status = "PAUSED"
    BY <1>0, <1>8 DEF Reject, Finish
  <2> HIDE DEF failed
  <2>3. QED
    BY <1>1, <1>2, <1>3, <1>4, <1>5, <2>1, <2>2 DEF Decided
<1>9. CASE RefuseRevise(t)
  <2>1. task'[t] = Idle /\ row' = row
    BY <1>0, <1>9 DEF RefuseRevise, Finish
  <2>2. QED
    BY <1>1, <1>2, <1>3, <1>4, <1>5, <2>1 DEF Decided
<1>10. ASSUME NEW n \in ReviseTargets, Revise(t, n)
       PROVE  Decided(task'[t], row, row')
  <2> DEFINE run == [row EXCEPT !.resolved = FALSE, !.dynamic = FALSE, !.node = n,
                                !.revisions = row.revisions + 1]
  <2>1. run.node = n /\ run.queue = row.queue /\ run.status = row.status
    BY <1>0 DEF Records
  <2>2. ~run.resolved /\ ~run.dynamic
    BY <1>0 DEF Records
  <2>3. Commit(t, "execute", run) /\ row.status = "PAUSED"
    BY <1>10 DEF Revise
  <2> HIDE DEF run
  <2>4. QED
    BY <1>6, <1>10, <2>1, <2>2, <2>3 DEF Decided, Revised
<1>11. ASSUME NEW H \in Conditions, Approve(t, H)
       PROVE  Decided(task'[t], row, row')
  <2> DEFINE run == [row EXCEPT !.resolved = TRUE, !.node = NextNode(row.node, H)]
  <2>1. run.node = NextNode(row.node, H) /\ run.queue = row.queue /\ run.status = row.status
    BY <1>0 DEF Records
  <2>2. run.dynamic = row.dynamic
    BY <1>0 DEF Records
  <2>3. Commit(t, "execute", run) /\ row.status = "PAUSED" /\ NextNode(row.node, H) # NoNode
    BY <1>11 DEF Approve
  <2> HIDE DEF run
  <2>4. Approved(row, run)
    BY <2>1, <2>2, <2>3 DEF Approved
  <2>5. QED
    BY <1>6, <2>1, <2>3, <2>4 DEF Decided
<1>12. ASSUME NEW H \in Conditions, ApproveDeadEnd(t, H)
       PROVE  Decided(task'[t], row, row')
  BY <1>0, <1>12 DEF ApproveDeadEnd, Finish, Decided
<1>13. QED
  BY <1>1, <1>2, <1>3, <1>4, <1>5, <1>7, <1>8, <1>9, <1>10, <1>11, <1>12 DEF DecisionStep

\* execute() takes the row as it finds it, or returns on a finished run.
Taken(n, r, saved) ==
  \/ /\ n.pc = "loop" /\ n.victim = NoNode /\ n.run = saved
     /\ saved.status = "RUNNING" /\ SameRoute(r, saved)
  \/ n = Idle /\ saved = r /\ r.status \in Terminal

LEMMA ExecuteMoves ==
  ASSUME TypeInv, NEW t \in Tasks, Recovering(task[t]), Execute(t) \/ ExecuteFinishedRun(t)
  PROVE  /\ Drives(t) /\ task[t].pc \in {"queued", "execute"}
         /\ \A u \in Tasks \ {t} : task'[u] = task[u]
         /\ UNCHANGED <<hist, crashes>>
         /\ Taken(task'[t], row, row')
<1>0. task \in [Tasks -> KnownStates] /\ task[t] \in TaskStates /\ row \in Records
  BY RunType DEF TypeInv, TypeNow
<1>1. Drives(t) /\ task[t].pc \in {"queued", "execute"} /\ task[t].victim = NoNode
  BY DEF Execute, ExecuteFinishedRun, Starts, At, Drives, Recovering
<1>2. (\A u \in Tasks \ {t} : task'[u] = task[u]) /\ UNCHANGED <<hist, crashes>>
  BY StepOutcome, ExecuteType DEF TaskStep, TypeInv
<1>3. CASE Execute(t)
  <2> DEFINE run == [row EXCEPT !.status = "RUNNING"]
  <2>1. run.status = "RUNNING" /\ SameRoute(row, run)
    BY <1>0, SameFields DEF Records, SameRoute
  <2>2. /\ task'[t].pc = "loop" /\ task'[t].victim = NoNode /\ task'[t].run = run
        /\ row' = run
    BY <1>0, <1>1, <1>3 DEF Execute, Commit, KnownStates, TaskStates
  <2> HIDE DEF run
  <2>3. QED
    BY <1>1, <1>2, <2>1, <2>2 DEF Taken
<1>4. CASE ExecuteFinishedRun(t)
  BY <1>0, <1>1, <1>2, <1>4 DEF ExecuteFinishedRun, Finish, Taken
<1>5. QED
  BY <1>3, <1>4

\* Without the resume endpoint every step knows where the run was and where it is.
LEMMA RecoveryStep == TypeInv /\ SoleDriver /\ RecoveryInv /\ [Next]_vars => RecoveryInv'
<1> SUFFICES ASSUME TypeInv, SoleDriver, RecoveryInv, [Next]_vars PROVE RecoveryInv'
  OBVIOUS
<1>0. Recovering(Idle)
  BY DEF Recovering, Idle
<1>1. CASE CrashRestart
  BY <1>0, <1>1 DEF CrashRestart, RecoveryInv
<1>2. ASSUME NEW t \in Tasks, ClientStep(t)
      PROVE  RecoveryInv'
  <2>1. task \in [Tasks -> KnownStates]
    BY DEF TypeInv, TypeNow
  <2>2. PICK job : task' = [task EXCEPT ![t].pc = "queued", ![t].job = job]
    BY <1>2 DEF ClientStep, RequestDecision, RequestResume
  <2>3. task[t].pc = "idle"
    BY <1>2 DEF ClientStep, RequestDecision, RequestResume, At
  <2>4. task'[t].pc = "queued" /\ task'[t].victim = task[t].victim
    BY <2>1, <2>2 DEF KnownStates, TaskStates
  <2>5. \A u \in Tasks \ {t} : task'[u] = task[u]
    BY <2>1, <2>2
  <2>6. QED
    BY <2>3, <2>4, <2>5 DEF RecoveryInv, Recovering
<1>3. ASSUME NEW t \in Tasks, TaskStep(t)
      PROVE  RecoveryInv'
  <2>1. Recovering(task[t])
    BY DEF RecoveryInv
  <2>2. \A u \in Tasks \ {t} : task'[u] = task[u]
    BY <1>3, StepOutcome
  <2>3. Recovering(task'[t])
    <3>1. CASE Execute(t) \/ ExecuteFinishedRun(t)
      BY <1>0, <2>1, <3>1, ExecuteMoves DEF Taken, Recovering
    <3>2. CASE DecisionStep(t)
      BY <1>0, <2>1, <3>2, DecisionMoves DEF Decided, Recovering
    <3>3. CASE StandStep(t)
      BY <2>1, <3>3, Standing
    <3>4. CASE UnknownNode(t) \/ GatePass(t) \/ GatePause(t)
      BY <1>0, <2>1, <3>4, GateMoves DEF Gated, Recovering
    <3>5. CASE RouteStep(t)
      BY <1>0, <2>1, <3>5, RouteMoves DEF Routed, Recovering
    <3>6. QED
      BY <1>3, <3>1, <3>2, <3>3, <3>4, <3>5 DEF TaskStep, NodeStep, StandStep
  <2>4. QED
    BY <2>2, <2>3 DEF RecoveryInv
<1>4. CASE UNCHANGED vars
  BY <1>4 DEF vars, RecoveryInv
<1>5. QED
  BY <1>1, <1>2, <1>3, <1>4 DEF Next

-----------------------------------------------------------------------------
(* A completed run has been delivered.                                     *)

AboutToExecute == \E t \in Tasks : Drives(t) /\ task[t].pc \in {"queued", "execute"}

\* The fixer is nowhere the run goes by itself: not at the node p, not in the plan of r.
OffFixer(r, p) == p # Fixer /\ r.queue \in Seq(Nodes \ {Fixer})

\* A task behind a last node of the graph.
Behind(s) == s.pc \in {"plan", "route"} /\ Place(s) \in Sinks

DeliveryInv ==
  /\ CompletedMeansDelivered
  /\ row.status = "PAUSED" \/ AboutToExecute => OffFixer(row, row.node)
  /\ \A t \in Tasks : task[t].pc \in Looping =>
       /\ OffFixer(task[t].run, Place(task[t]))
       /\ Behind(task[t]) => hist.delivered

\* Next to a driver there is nobody else in the loop, or about to be.
LEMMA Alone ==
  ASSUME SoleDriver, NEW t \in Tasks, Drives(t), NEW u \in Tasks \ {t}
  PROVE  ~Drives(u) /\ task[u].pc \notin Looping /\ task[u].pc # "execute"
  BY DEF SoleDriver, OneDriver, Drives, Looping, Working

\* The graph sends no run to the fixer.
LEMMA NextIsOffFixer ==
  ASSUME DeliveryGraph, NEW n, NEW H
  PROVE  NextNode(n, H) # Fixer
  BY NextEdgesAreEdges, FirstOfIn, RunnerAssumption DEF NextNode, DeliveryGraph

LEMMA FallbackIsOffFixer ==
  ASSUME DeliveryGraph, NEW n \in Nodes
  PROVE  FallbackTarget(n) # Fixer
<1>1. Outgoing(n, TRUE) \subseteq EdgeIds
  BY DEF Outgoing
<1>2. Outgoing(n, TRUE) # {} => Edges[FirstOf(Outgoing(n, TRUE))].target # Fixer
  BY <1>1, FirstOfIn DEF DeliveryGraph
<1>3. FallbackNode[n] # Fixer
  BY DEF DeliveryGraph
<1>4. QED
  BY <1>2, <1>3, RunnerAssumption DEF FallbackTarget

\* What a step of the driver t has to show.
LEMMA DeliveryByDriver ==
  ASSUME DeliveryInv, SoleDriver, NEW t \in Tasks, Drives(t),
         \A u \in Tasks \ {t} : task'[u] = task[u],
         task'[t].pc \in Looping \cup {"idle"},
         row'.status = "COMPLETED" => hist'.delivered,
         row'.status = "PAUSED" => OffFixer(row', row'.node),
         task'[t].pc \in Looping => /\ OffFixer(task'[t].run, Place(task'[t]))
                                    /\ Behind(task'[t]) => hist'.delivered
  PROVE  DeliveryInv'
<1>1. \A u \in Tasks \ {t} : ~Drives(u)' /\ task'[u].pc \notin Looping
  BY Alone DEF Drives
<1>2. ~AboutToExecute'
  BY <1>1 DEF AboutToExecute, Looping, Working
<1>3. \A u \in Tasks : task'[u].pc \in Looping =>
        /\ OffFixer(task'[u].run, Place(task'[u]))
        /\ Behind(task'[u]) => hist'.delivered
  BY <1>1
<1>4. CompletedMeansDelivered'
  BY DEF CompletedMeansDelivered
<1>5. QED
  BY <1>2, <1>3, <1>4 DEF DeliveryInv

LEMMA DeliveryDecides ==
  ASSUME TypeInv, SoleDriver, RecoveryInv, DeliveryInv, DeliveryGraph,
         NEW t \in Tasks, DecisionStep(t)
  PROVE  DeliveryInv'
<1>1. Recovering(task[t])
  BY DEF RecoveryInv
<1>2. /\ row.status = "PAUSED" => \A u \in Tasks : ~Drives(u)
      /\ task[t].pc = "queued" /\ ~Drives(t)
      /\ \A u \in Tasks \ {t} : task'[u] = task[u]
      /\ UNCHANGED <<hist, crashes>>
      /\ Decided(task'[t], row, row')
  BY <1>1, DecisionMoves
<1>3. task'[t].pc \in {"idle", "execute"}
  BY <1>2 DEF Decided, Idle
<1>4. \A u \in Tasks : task'[u].pc \in Looping =>
        /\ OffFixer(task'[u].run, Place(task'[u]))
        /\ Behind(task'[u]) => hist'.delivered
  BY <1>2, <1>3 DEF DeliveryInv, Looping, Working
<1>5. CompletedMeansDelivered'
  BY <1>2 DEF Decided, DeliveryInv, CompletedMeansDelivered
<1>6. task'[t].pc = "idle" => (AboutToExecute' => AboutToExecute)
  BY <1>2 DEF AboutToExecute, Drives
<1>7. (row.status = "PAUSED" => ~AboutToExecute)
  BY <1>2 DEF AboutToExecute
<1>8. row'.status = "PAUSED" \/ AboutToExecute' => OffFixer(row', row'.node)
  <2>1. CASE task'[t] = Idle /\ row' = row
    BY <1>6, <2>1 DEF DeliveryInv, Idle
  <2>2. CASE task'[t] = Idle /\ row'.status = "FAILED" /\ SameRoute(row, row')
    BY <1>6, <2>2 DEF DeliveryInv, Idle, SameRoute, OffFixer
  <2>3. CASE task'[t] = Idle /\ row'.status = "FAILED" /\ row.status = "PAUSED"
    BY <1>6, <1>7, <2>3 DEF Idle
  <2>4. CASE row.status = "PAUSED" /\ (Revised(row, row') \/ Approved(row, row'))
    <3>1. OffFixer(row, row.node)
      BY <2>4 DEF DeliveryInv
    <3>2. row'.queue = row.queue /\ row'.node # Fixer
      BY <2>4, NextIsOffFixer DEF Revised, Approved, DeliveryGraph
    <3>3. QED
      BY <3>1, <3>2 DEF OffFixer
  <2>5. QED
    BY <1>2, <2>1, <2>2, <2>3, <2>4 DEF Decided
<1>9. QED
  BY <1>4, <1>5, <1>8 DEF DeliveryInv

LEMMA DeliveryRoutes ==
  ASSUME TypeInv, SoleDriver, RecoveryInv, DeliveryInv, DeliveryGraph,
         NEW t \in Tasks, RouteStep(t)
  PROVE  DeliveryInv'
<1>1. Recovering(task[t]) /\ Known(task[t]) /\ task[t].run \in Records
  BY RunType DEF RecoveryInv, TypeInv, Run
<1>2. /\ task[t].pc \in {"failed", "degrade", "plan", "route"} /\ task[t].victim = NoNode
      /\ \A u \in Tasks \ {t} : task'[u] = task[u]
      /\ UNCHANGED <<hist, crashes>>
      /\ Routed(task[t], task'[t], row')
  BY <1>1, RouteMoves
<1>3. /\ OffFixer(task[t].run, task[t].run.node) /\ task[t].run.node \in Nodes
      /\ task[t].pc \in {"plan", "route"} /\ task[t].run.node \in Sinks => hist.delivered
  BY <1>1, <1>2 DEF DeliveryInv, Looping, Working, Place, Behind, Known
<1>4. Drives(t)
  BY <1>2 DEF Drives
<1>5. CASE task'[t] = Idle /\ Ends(task[t], row')
  <2>1. row'.status = "COMPLETED" => hist'.delivered
    <3> SUFFICES ASSUME row'.status = "COMPLETED"
                 PROVE  hist'.delivered
      OBVIOUS
    <3>1. task[t].pc = "route" /\ \E H \in Conditions : NextNode(task[t].run.node, H) = NoNode
      BY <1>5 DEF Ends
    <3>2. task[t].run.node \in Sinks
      BY <1>3, <3>1 DEF DeliveryGraph, OffFixer
    <3>3. QED
      BY <1>2, <1>3, <3>1, <3>2
  <2>2. row'.status # "PAUSED"
    BY <1>5 DEF Ends
  <2>3. task'[t].pc = "idle"
    BY <1>5 DEF Idle
  <2>4. QED
    BY <1>2, <1>4, <2>1, <2>2, <2>3, DeliveryByDriver DEF Looping, Working
<1>6. CASE task'[t] # Idle
  <2>0. task'[t].pc \in {"loop", "route"} /\ task'[t].victim = NoNode
    BY <1>2, <1>6 DEF Routed
  <2>1. /\ row'.status # "COMPLETED" /\ row'.status # "PAUSED"
    <3>1. StatusKnown(task'[t]) /\ row'.status = task'[t].run.status
      BY <2>0, DriverStep DEF SoleDriver, Working
    <3>2. QED
      BY <2>0, <3>1 DEF StatusKnown, Working
  <2>2. OffFixer(task'[t].run, task'[t].run.node)
    <3>1. CASE Planned(task[t].run, task'[t].run)
      BY <1>3, <3>1 DEF Planned, OffFixer, DeliveryGraph
    <3>2. CASE ByEdge(task[t].run, task'[t].run)
      BY <1>3, <3>2, NextIsOffFixer DEF ByEdge, OffFixer
    <3>3. CASE ByPlan(task[t].run, task'[t].run)
      <4>1. PICK q \in Seq(Nodes \ {Fixer}) : q = task[t].run.queue /\ q # <<>>
        BY <1>3, <3>3 DEF ByPlan, OffFixer
      <4>2. Head(q) \in Nodes \ {Fixer} /\ Tail(q) \in Seq(Nodes \ {Fixer})
        BY <4>1, HeadTailProperties
      <4>3. QED
        BY <3>3, <4>1, <4>2 DEF ByPlan, OffFixer
    <3>4. CASE ByFallback(task[t].run, task'[t].run)
      BY <1>3, <3>4, FallbackIsOffFixer DEF ByFallback, OffFixer
    <3>5. CASE ByDefault(task[t].run, task'[t].run)
      BY <1>3, <3>5, NextIsOffFixer DEF ByDefault, OffFixer, DeliveryGraph
    <3>6. QED
      BY <1>2, <1>6, <3>1, <3>2, <3>3, <3>4, <3>5 DEF Routed
  <2>3. Behind(task'[t]) => hist'.delivered
    <3> SUFFICES ASSUME Behind(task'[t])
                 PROVE  hist'.delivered
      OBVIOUS
    <3>1. task[t].pc = "plan" /\ task'[t].run.node = task[t].run.node
      BY <1>2, <1>6 DEF Behind, Routed, Planned
    <3>2. task[t].run.node \in Sinks
      BY <2>0, <3>1 DEF Behind, Place
    <3>3. QED
      BY <1>2, <1>3, <3>1, <3>2
  <2>4. Place(task'[t]) = task'[t].run.node
    BY <2>0 DEF Place
  <2>5. QED
    BY <1>2, <1>4, <2>0, <2>1, <2>2, <2>3, <2>4, DeliveryByDriver DEF Looping, Working
<1>7. QED
  BY <1>2, <1>5, <1>6 DEF Routed, Idle

LEMMA DeliveryNodes ==
  ASSUME TypeInv, SoleDriver, RecoveryInv, DeliveryInv, DeliveryGraph,
         NEW t \in Tasks, NodeStep(t)
  PROVE  DeliveryInv'
<1>1. Recovering(task[t])
  BY DEF RecoveryInv
<1>2. CASE StandStep(t)
  <2>1. /\ task[t].pc \in Looping
        /\ Stays(task[t], task'[t])
        /\ \A u \in Tasks \ {t} : task'[u] = task[u]
        /\ hist.delivered => hist'.delivered
        /\ task'[t].pc \in {"plan", "route"} /\ Place(task'[t]) \in Sinks \ {Fixer}
             => hist'.delivered
    BY <1>1, <1>2, Standing
  <2>2. OffFixer(task[t].run, Place(task[t])) /\ Drives(t)
    BY <2>1 DEF DeliveryInv, Looping, Working, Drives
  <2>3. task'[t].pc \in Looping /\ OffFixer(task'[t].run, Place(task'[t]))
    BY <2>1, <2>2 DEF Stays, OffFixer
  <2>4. row'.status # "COMPLETED" /\ row'.status # "PAUSED"
    <3>1. StatusKnown(task'[t]) /\ row'.status = task'[t].run.status
      BY <2>3, DriverStep DEF SoleDriver, Looping, Working
    <3>2. QED
      BY <2>3, <3>1 DEF StatusKnown, Looping, Working
  <2>5. Behind(task'[t]) => hist'.delivered
    BY <2>1, <2>3 DEF Behind, OffFixer
  <2>6. QED
    BY <2>1, <2>2, <2>3, <2>4, <2>5, DeliveryByDriver
<1>3. CASE UnknownNode(t) \/ GatePass(t) \/ GatePause(t)
  <2>1. /\ task[t].pc = "loop" /\ task[t].victim = NoNode
        /\ \A u \in Tasks \ {t} : task'[u] = task[u]
        /\ hist.delivered => hist'.delivered
        /\ Gated(task[t], task'[t], row')
    BY <1>1, <1>3, GateMoves
  <2>2. OffFixer(task[t].run, task[t].run.node) /\ Drives(t)
    BY <2>1 DEF DeliveryInv, Looping, Working, Drives, Place
  <2>3. CASE task'[t].pc = "route"
    <3>1. /\ task'[t].run.node = task[t].run.node /\ task'[t].run.queue = task[t].run.queue
          /\ task[t].run.node \in Checkpoints /\ task'[t].victim = NoNode
      BY <2>1, <2>3 DEF Gated, Idle
    <3>2. OffFixer(task'[t].run, Place(task'[t])) /\ ~Behind(task'[t])
      BY <2>2, <3>1 DEF OffFixer, Behind, Place, DeliveryGraph
    <3>3. row'.status # "COMPLETED" /\ row'.status # "PAUSED"
      <4>1. StatusKnown(task'[t]) /\ row'.status = task'[t].run.status
        BY <2>3, DriverStep DEF SoleDriver, Working
      <4>2. QED
        BY <2>3, <4>1 DEF StatusKnown, Working
    <3>4. QED
      BY <2>1, <2>2, <2>3, <3>2, <3>3, DeliveryByDriver DEF Looping, Working
  <2>4. CASE task'[t].pc # "route"
    <3>1. task'[t].pc = "idle" /\ row'.status # "COMPLETED"
      BY <2>1, <2>4 DEF Gated, Idle
    <3>2. row'.status = "PAUSED" => OffFixer(row', row'.node)
      BY <2>1, <2>2, <2>4 DEF Gated, OffFixer
    <3>3. QED
      BY <2>1, <2>2, <3>1, <3>2, DeliveryByDriver DEF Looping, Working
  <2>5. QED
    BY <2>3, <2>4
<1>4. QED
  BY <1>2, <1>3 DEF NodeStep, StandStep

LEMMA DeliveryExecutes ==
  ASSUME TypeInv, SoleDriver, RecoveryInv, DeliveryInv,
         NEW t \in Tasks, Execute(t) \/ ExecuteFinishedRun(t)
  PROVE  DeliveryInv'
<1>1. Recovering(task[t])
  BY DEF RecoveryInv
<1>2. /\ Drives(t) /\ task[t].pc \in {"queued", "execute"}
      /\ \A u \in Tasks \ {t} : task'[u] = task[u]
      /\ UNCHANGED <<hist, crashes>>
      /\ Taken(task'[t], row, row')
  BY <1>1, ExecuteMoves
<1>3. OffFixer(row, row.node)
  BY <1>2 DEF DeliveryInv, AboutToExecute
<1>4. CASE task'[t].pc = "loop"
  <2>1. /\ task'[t].run = row' /\ row'.status = "RUNNING" /\ task'[t].victim = NoNode
        /\ SameRoute(row, row')
    BY <1>2, <1>4 DEF Taken, Idle
  <2>2. OffFixer(task'[t].run, Place(task'[t])) /\ ~Behind(task'[t])
    BY <1>3, <1>4, <2>1 DEF SameRoute, OffFixer, Place, Behind
  <2>3. QED
    BY <1>2, <1>4, <2>1, <2>2, DeliveryByDriver DEF Looping, Working
<1>5. CASE task'[t].pc # "loop"
  <2>1. task'[t].pc = "idle" /\ row' = row /\ row.status # "PAUSED"
    BY <1>2, <1>5 DEF Taken, Idle, Terminal
  <2>2. row'.status = "COMPLETED" => hist'.delivered
    BY <1>2, <2>1 DEF DeliveryInv, CompletedMeansDelivered
  <2>3. QED
    BY <1>2, <2>1, <2>2, DeliveryByDriver DEF Looping, Working
<1>6. QED
  BY <1>4, <1>5

\* A request queues a decision, which neither drives the run nor touches the row.
LEMMA ClientMoves ==
  ASSUME TypeInv, "resume" \notin Requests, NEW t \in Tasks, ClientStep(t)
  PROVE  /\ UNCHANGED <<row, hist, crashes>>
         /\ task'[t].pc = "queued" /\ ~Drives(t)'
         /\ \A u \in Tasks \ {t} : task'[u] = task[u]
<1>1. task \in [Tasks -> KnownStates]
  BY DEF TypeInv, TypeNow
<1>2. PICK d \in Decisions : RequestDecision(t, d)
  BY DEF ClientStep, RequestResume
<1>3. /\ task'[t].pc = "queued" /\ task'[t].job = d
      /\ \A u \in Tasks \ {t} : task'[u] = task[u]
  BY <1>1, <1>2 DEF RequestDecision, KnownStates, TaskStates
<1>4. QED
  BY <1>2, <1>3 DEF RequestDecision, Quiet, Drives, Decisions

\* Without resume requests, in a graph that leads from every node but the last ones on and
\* never to the fixer, a run that says COMPLETED has had one of its last nodes succeed:
\* neither a retry, the fixer, a fallback, a plan, a decision nor a crash lets it skip that.
THEOREM CompletedIsDelivered ==
  ASSUME "resume" \notin Requests, DeliveryGraph
  PROVE  Spec => []CompletedMeansDelivered
<1>1. Init => RecoveryInv /\ DeliveryInv
  <2> SUFFICES ASSUME Init PROVE RecoveryInv /\ DeliveryInv
    OBVIOUS
  <2>1. \A t \in Tasks : task[t].pc \in {"idle", "queued"} /\ task[t].victim = NoNode
    BY DEF Init, Idle
  <2>2. row.status = "PENDING" /\ row.node = Entry /\ row.queue = <<>>
    BY DEF Init, NewRun
  <2>3. OffFixer(row, row.node)
    BY <2>2 DEF OffFixer, DeliveryGraph
  <2>4. QED
    BY <2>1, <2>2, <2>3 DEF RecoveryInv, Recovering, DeliveryInv, CompletedMeansDelivered, Looping,
                            Working
<1>2. TypeInv /\ SoleDriver /\ RecoveryInv /\ DeliveryInv /\ [Next]_vars => DeliveryInv'
  <2> SUFFICES ASSUME TypeInv, SoleDriver, RecoveryInv, DeliveryInv, [Next]_vars
               PROVE  DeliveryInv'
    OBVIOUS
  <2>1. CASE CrashRestart
    <3>1. \A t \in Tasks : task'[t].pc = "idle"
      BY <2>1 DEF CrashRestart, Idle
    <3>2. hist' = hist /\ (row' = row \/ row'.status = "FAILED")
      BY <2>1 DEF CrashRestart, TypeInv, TypeNow, Records
    <3>3. QED
      BY <3>1, <3>2 DEF DeliveryInv, CompletedMeansDelivered, AboutToExecute, Looping, Working
  <2>2. ASSUME NEW t \in Tasks, ClientStep(t)
        PROVE  DeliveryInv'
    <3>1. /\ UNCHANGED <<row, hist, crashes>>
          /\ task'[t].pc = "queued" /\ ~Drives(t)'
          /\ \A u \in Tasks \ {t} : task'[u] = task[u]
      BY <2>2, ClientMoves
    <3>2. AboutToExecute' => AboutToExecute
      BY <3>1 DEF AboutToExecute, Drives
    <3>3. QED
      BY <3>1, <3>2 DEF DeliveryInv, CompletedMeansDelivered, Looping, Working
  <2>3. ASSUME NEW t \in Tasks, TaskStep(t)
        PROVE  DeliveryInv'
    BY <2>3, DeliveryExecutes, DeliveryDecides, DeliveryNodes, DeliveryRoutes DEF TaskStep
  <2>4. CASE UNCHANGED vars
    BY <2>4 DEF vars, DeliveryInv, CompletedMeansDelivered, AboutToExecute, Drives
  <2>5. QED
    BY <2>1, <2>2, <2>3, <2>4 DEF Next
<1>3. DeliveryInv => CompletedMeansDelivered
  BY DEF DeliveryInv
<1>4. QED
  BY <1>1, <1>2, <1>3, TypeInvariant, SoleDriverKept, RecoveryStep, PTL DEF Spec

-----------------------------------------------------------------------------
(* The human gate, until a crash cuts a decision in two.                   *)

NoPlan(r) == ~(r.dynamic /\ r.queue # <<>>)

\* The node p of the record r: a decision that is left over is behind every checkpoint, with
\* no plan that would lead back, and a plan leads to no checkpoint.
Guarded(S, r, p) ==
  /\ r.resolved => (p \in S \/ p \notin Nodes) /\ NoPlan(r)
  /\ p \in Checkpoints => NoPlan(r)
  /\ r.queue \in Seq(Nodes \ Checkpoints)

GateNow(S) ==
  /\ HumanGate
  /\ row.status = "PAUSED" \/ AboutToExecute => Guarded(S, row, row.node)
  /\ row.status = "PAUSED" /\ ~AboutToExecute => row.node \in Checkpoints /\ ~row.resolved
  /\ \A t \in Tasks : task[t].pc \in Looping => Guarded(S, task[t].run, Place(task[t]))

GateInv(S) == crashes = 0 => GateNow(S)

\* What a step of the driver t has to show.
LEMMA GateByDriver ==
  ASSUME NEW S, GateNow(S), SoleDriver, NEW t \in Tasks, Drives(t),
         \A u \in Tasks \ {t} : task'[u] = task[u],
         task'[t].pc \in Looping \cup {"idle"},
         hist'.bypassed = {},
         row'.status = "PAUSED" => /\ Guarded(S, row', row'.node)
                                   /\ row'.node \in Checkpoints /\ ~row'.resolved,
         task'[t].pc \in Looping => Guarded(S, task'[t].run, Place(task'[t]))
  PROVE  GateNow(S)'
<1>1. \A u \in Tasks \ {t} : ~Drives(u)' /\ task'[u].pc \notin Looping
  BY Alone DEF Drives
<1>2. ~AboutToExecute'
  BY <1>1 DEF AboutToExecute, Looping, Working
<1>3. \A u \in Tasks : task'[u].pc \in Looping => Guarded(S, task'[u].run, Place(task'[u]))
  BY <1>1
<1>4. HumanGate'
  BY DEF HumanGate
<1>5. QED
  BY <1>2, <1>3, <1>4 DEF GateNow

LEMMA GateDecides ==
  ASSUME NEW S, GatedGraph(S), TypeInv, SoleDriver, RecoveryInv, GateNow(S),
         NEW t \in Tasks, DecisionStep(t)
  PROVE  GateNow(S)'
<1>1. Recovering(task[t])
  BY DEF RecoveryInv
<1>2. /\ row.status = "PAUSED" => \A u \in Tasks : ~Drives(u)
      /\ task[t].pc = "queued" /\ ~Drives(t)
      /\ \A u \in Tasks \ {t} : task'[u] = task[u]
      /\ UNCHANGED <<hist, crashes>>
      /\ Decided(task'[t], row, row')
  BY <1>1, DecisionMoves
<1>3. task'[t].pc \in {"idle", "execute"}
  BY <1>2 DEF Decided, Idle
<1>4. \A u \in Tasks : task'[u].pc \in Looping => Guarded(S, task'[u].run, Place(task'[u]))
  BY <1>2, <1>3 DEF GateNow, Looping, Working
<1>5. HumanGate'
  BY <1>2 DEF GateNow, HumanGate
<1>6. task'[t].pc = "idle" => (AboutToExecute' <=> AboutToExecute)
  BY <1>2 DEF AboutToExecute, Drives
<1>7. row.status = "PAUSED" => ~AboutToExecute
  BY <1>2 DEF AboutToExecute
<1>8. /\ row'.status = "PAUSED" \/ AboutToExecute' => Guarded(S, row', row'.node)
      /\ row'.status = "PAUSED" /\ ~AboutToExecute' => row'.node \in Checkpoints /\ ~row'.resolved
  <2>1. CASE task'[t] = Idle /\ row' = row
    BY <1>6, <2>1 DEF GateNow, Idle
  <2>2. CASE task'[t] = Idle /\ row'.status = "FAILED" /\ SameRoute(row, row')
    BY <1>6, <2>2 DEF GateNow, Idle, SameRoute, Guarded, NoPlan
  <2>3. CASE task'[t] = Idle /\ row'.status = "FAILED" /\ row.status = "PAUSED"
    BY <1>6, <1>7, <2>3 DEF Idle
  <2>4. CASE /\ task'[t].pc = "execute" /\ row.status = "PAUSED"
             /\ Revised(row, row') \/ Approved(row, row')
    <3>1. Guarded(S, row, row.node) /\ row.node \in Checkpoints
      BY <1>7, <2>4 DEF GateNow
    <3>2. Guarded(S, row', row'.node)
      <4>1. CASE Revised(row, row')
        BY <3>1, <4>1 DEF Revised, Guarded, NoPlan
      <4>2. CASE Approved(row, row')
        <5>1. row'.node \in S /\ row'.node \notin Checkpoints
          BY <3>1, <4>2 DEF Approved, GatedGraph
        <5>2. NoPlan(row') /\ row'.queue \in Seq(Nodes \ Checkpoints)
          BY <3>1, <4>2 DEF Approved, Guarded, NoPlan
        <5>3. QED
          BY <5>1, <5>2 DEF Guarded
      <4>3. QED
        BY <2>4, <4>1, <4>2
    <3>3. AboutToExecute'
      BY <2>4 DEF AboutToExecute, Drives
    <3>4. QED
      BY <3>2, <3>3
  <2>5. QED
    BY <1>2, <2>1, <2>2, <2>3, <2>4 DEF Decided
<1>9. QED
  BY <1>4, <1>5, <1>8 DEF GateNow

LEMMA GateRoutes ==
  ASSUME NEW S, GatedGraph(S), TypeInv, SoleDriver, RecoveryInv, GateNow(S),
         NEW t \in Tasks, RouteStep(t)
  PROVE  GateNow(S)'
<1>1. Recovering(task[t]) /\ Known(task[t])
  BY RunType DEF RecoveryInv, TypeInv
<1>2. /\ task[t].pc \in {"failed", "degrade", "plan", "route"} /\ task[t].victim = NoNode
      /\ \A u \in Tasks \ {t} : task'[u] = task[u]
      /\ UNCHANGED <<hist, crashes>>
      /\ Routed(task[t], task'[t], row')
  BY <1>1, RouteMoves
<1>3. Guarded(S, task[t].run, task[t].run.node) /\ task[t].run.node \in Nodes
  BY <1>1, <1>2 DEF GateNow, Looping, Working, Place, Known
<1>4. Drives(t) /\ hist'.bypassed = {}
  BY <1>2 DEF Drives, GateNow, HumanGate
<1>5. CASE task'[t] = Idle /\ Ends(task[t], row')
  <2>1. row'.status # "PAUSED" /\ task'[t].pc = "idle"
    BY <1>5 DEF Ends, Idle
  <2>2. QED
    BY <1>2, <1>4, <2>1, GateByDriver DEF Looping, Working
<1>6. CASE task'[t] # Idle
  <2>0. task'[t].pc \in {"loop", "route"} /\ task'[t].victim = NoNode
    BY <1>2, <1>6 DEF Routed
  <2>1. row'.status # "PAUSED"
    <3>1. StatusKnown(task'[t]) /\ row'.status = task'[t].run.status
      BY <2>0, DriverStep DEF SoleDriver, Working
    <3>2. QED
      BY <2>0, <3>1 DEF StatusKnown, Working
  <2>2. Guarded(S, task'[t].run, task'[t].run.node)
    <3>1. CASE Planned(task[t].run, task'[t].run)
      <4>1. ~task'[t].run.resolved /\ task'[t].run.node \notin Checkpoints
        BY <1>3, <3>1, RunnerAssumption DEF Planned, Guarded, GatedGraph
      <4>2. QED
        BY <3>1, <4>1 DEF Planned, Guarded, GatedGraph
    <3>2. CASE ByEdge(task[t].run, task'[t].run)
      <4>1. task'[t].run.resolved => task'[t].run.node \in S
        BY <1>3, <3>2 DEF ByEdge, Guarded, GatedGraph
      <4>2. QED
        BY <1>3, <3>2, <4>1 DEF ByEdge, Guarded, NoPlan
    <3>3. CASE ByPlan(task[t].run, task'[t].run)
      <4>1. PICK q \in Seq(Nodes \ Checkpoints) : q = task[t].run.queue /\ q # <<>>
        BY <1>3, <3>3 DEF ByPlan, Guarded
      <4>2. Head(q) \in Nodes \ Checkpoints /\ Tail(q) \in Seq(Nodes \ Checkpoints)
        BY <4>1, HeadTailProperties
      <4>3. ~task'[t].run.resolved
        BY <1>3, <3>3 DEF ByPlan, Guarded, NoPlan
      <4>4. QED
        BY <3>3, <4>1, <4>2, <4>3 DEF ByPlan, Guarded
    <3>4. CASE ByFallback(task[t].run, task'[t].run)
      <4>1. task'[t].run.node \notin Checkpoints
        BY <1>3, <3>4 DEF ByFallback, GatedGraph
      <4>2. task'[t].run.resolved => task'[t].run.node \in S \/ task'[t].run.node \notin Nodes
        BY <1>3, <3>4 DEF ByFallback, Guarded, GatedGraph
      <4>3. QED
        BY <1>3, <3>4, <4>1, <4>2 DEF ByFallback, Guarded, NoPlan
    <3>5. CASE ByDefault(task[t].run, task'[t].run)
      <4>1. ~task'[t].run.resolved
        BY <1>3, <3>5 DEF ByDefault, Guarded, GatedGraph
      <4>2. QED
        BY <3>5, <4>1 DEF ByDefault, Guarded, NoPlan
    <3>6. QED
      BY <1>2, <1>6, <3>1, <3>2, <3>3, <3>4, <3>5 DEF Routed
  <2>3. Place(task'[t]) = task'[t].run.node
    BY <2>0 DEF Place
  <2>4. QED
    BY <1>2, <1>4, <2>0, <2>1, <2>2, <2>3, GateByDriver DEF Looping, Working
<1>7. QED
  BY <1>2, <1>5, <1>6 DEF Routed, Idle

LEMMA GateNodes ==
  ASSUME NEW S, GatedGraph(S), TypeInv, SoleDriver, RecoveryInv, GateNow(S),
         NEW t \in Tasks, NodeStep(t)
  PROVE  GateNow(S)'
<1>1. Recovering(task[t])
  BY DEF RecoveryInv
<1>2. CASE StandStep(t)
  <2>1. /\ task[t].pc \in Looping
        /\ Stays(task[t], task'[t])
        /\ \A u \in Tasks \ {t} : task'[u] = task[u]
        /\ hist'.bypassed = hist.bypassed
    BY <1>1, <1>2, Standing
  <2>2. Guarded(S, task[t].run, Place(task[t])) /\ Drives(t) /\ hist'.bypassed = {}
    BY <2>1 DEF GateNow, HumanGate, Looping, Working, Drives
  <2>3. task'[t].pc \in Looping /\ Guarded(S, task'[t].run, Place(task'[t]))
    BY <2>1, <2>2 DEF Stays, Guarded, NoPlan
  <2>4. row'.status # "PAUSED"
    <3>1. StatusKnown(task'[t]) /\ row'.status = task'[t].run.status
      BY <2>3, DriverStep DEF SoleDriver, Looping, Working
    <3>2. QED
      BY <2>3, <3>1 DEF StatusKnown, Looping, Working
  <2>5. QED
    BY <2>1, <2>2, <2>3, <2>4, GateByDriver
<1>3. CASE UnknownNode(t) \/ GatePass(t) \/ GatePause(t)
  <2>1. /\ task[t].pc = "loop" /\ task[t].victim = NoNode
        /\ \A u \in Tasks \ {t} : task'[u] = task[u]
        /\ ~GatePass(t) => hist'.bypassed = hist.bypassed
        /\ GatePass(t) => task[t].run.node \in Checkpoints /\ task[t].run.resolved
        /\ Gated(task[t], task'[t], row')
    BY <1>1, <1>3, GateMoves
  <2>2. Guarded(S, task[t].run, task[t].run.node) /\ Drives(t)
    BY <2>1 DEF GateNow, Looping, Working, Drives, Place
  <2>3. ~(task[t].run.node \in Checkpoints /\ task[t].run.resolved)
    BY <2>2, RunnerAssumption DEF Guarded, GatedGraph
  <2>4. hist'.bypassed = {} /\ task'[t].pc = "idle"
    BY <2>1, <2>3 DEF GateNow, HumanGate, Gated, Idle
  <2>5. row'.status = "PAUSED" => /\ Guarded(S, row', row'.node)
                                  /\ row'.node \in Checkpoints /\ ~row'.resolved
    BY <2>1, <2>2, <2>3 DEF Gated, Guarded, NoPlan
  <2>6. QED
    BY <2>1, <2>2, <2>4, <2>5, GateByDriver DEF Looping, Working
<1>4. QED
  BY <1>2, <1>3 DEF NodeStep, StandStep

LEMMA GateExecutes ==
  ASSUME NEW S, TypeInv, SoleDriver, RecoveryInv, GateNow(S),
         NEW t \in Tasks, Execute(t) \/ ExecuteFinishedRun(t)
  PROVE  GateNow(S)'
<1>1. Recovering(task[t])
  BY DEF RecoveryInv
<1>2. /\ Drives(t) /\ task[t].pc \in {"queued", "execute"}
      /\ \A u \in Tasks \ {t} : task'[u] = task[u]
      /\ UNCHANGED <<hist, crashes>>
      /\ Taken(task'[t], row, row')
  BY <1>1, ExecuteMoves
<1>3. Guarded(S, row, row.node) /\ hist'.bypassed = {}
  BY <1>2 DEF GateNow, HumanGate, AboutToExecute
<1>4. CASE task'[t].pc = "loop"
  <2>1. /\ task'[t].run = row' /\ row'.status = "RUNNING" /\ task'[t].victim = NoNode
        /\ SameRoute(row, row')
    BY <1>2, <1>4 DEF Taken, Idle
  <2>2. Guarded(S, task'[t].run, Place(task'[t]))
    BY <1>3, <2>1 DEF SameRoute, Guarded, NoPlan, Place
  <2>3. QED
    BY <1>2, <1>3, <1>4, <2>1, <2>2, GateByDriver DEF Looping, Working
<1>5. CASE task'[t].pc # "loop"
  <2>1. task'[t].pc = "idle" /\ row'.status # "PAUSED"
    BY <1>2, <1>5 DEF Taken, Idle, Terminal
  <2>2. QED
    BY <1>2, <1>3, <2>1, GateByDriver DEF Looping, Working
<1>6. QED
  BY <1>4, <1>5

\* Without resume requests, in a graph where no way leads from behind a checkpoint back to
\* it, no checkpoint lets a run through on a decision made for another arrival, until a crash
\* falls between the two saves of a decision: an approve leaves checkpoint_resolved set behind
\* the checkpoint, and whatever leads back (a revise) clears it.
THEOREM GateHolds ==
  ASSUME "resume" \notin Requests, NEW S, GatedGraph(S)
  PROVE  Spec => []HumanGateWithoutCrash
<1>1. Init => RecoveryInv /\ GateInv(S)
  <2> SUFFICES ASSUME Init PROVE RecoveryInv /\ GateInv(S)
    OBVIOUS
  <2>1. \A t \in Tasks : task[t].pc \in {"idle", "queued"} /\ task[t].victim = NoNode
    BY DEF Init, Idle
  <2>2. row.status = "PENDING" /\ row.queue = <<>> /\ ~row.resolved /\ hist.bypassed = {}
    BY DEF Init, NewRun
  <2>3. Guarded(S, row, row.node)
    BY <2>2 DEF Guarded, NoPlan
  <2>4. QED
    BY <2>1, <2>2, <2>3 DEF RecoveryInv, Recovering, GateInv, GateNow, HumanGate, Looping, Working
<1>2. TypeInv /\ SoleDriver /\ RecoveryInv /\ GateInv(S) /\ [Next]_vars => GateInv(S)'
  <2> SUFFICES ASSUME TypeInv, SoleDriver, RecoveryInv, GateInv(S), [Next]_vars, crashes' = 0
               PROVE  GateNow(S)'
    BY DEF GateInv
  <2>0. crashes \in Nat
    BY DEF TypeInv, HistOK
  <2>1. CASE CrashRestart
    BY <2>0, <2>1 DEF CrashRestart
  <2>2. ASSUME NEW t \in Tasks, ClientStep(t)
        PROVE  GateNow(S)'
    <3>1. /\ UNCHANGED <<row, hist, crashes>> /\ task[t].pc = "idle"
          /\ task'[t].pc = "queued" /\ ~Drives(t)'
          /\ \A u \in Tasks \ {t} : task'[u] = task[u]
      BY <2>2, ClientMoves DEF ClientStep, RequestDecision, RequestResume, At
    <3>2. AboutToExecute' <=> AboutToExecute
      BY <3>1 DEF AboutToExecute, Drives
    <3>3. GateNow(S)
      BY <3>1 DEF GateInv
    <3>4. QED
      BY <3>1, <3>2, <3>3 DEF GateNow, HumanGate, Looping, Working
  <2>3. ASSUME NEW t \in Tasks, TaskStep(t)
        PROVE  GateNow(S)'
    <3>1. crashes' = crashes
      <4>1. CASE Execute(t) \/ ExecuteFinishedRun(t) \/ DecisionStep(t) \/ RouteStep(t)
        BY <4>1, ExecuteType, DecisionType, RouteType DEF TypeInv
      <4>2. CASE NodeStep(t)
        BY <4>2 DEF NodeStep, UnknownNode, EnterNode, GatePass, GatePause, NodeSucceeds,
                    RetryLater, Wake, NodeFails, CallFixer, StartFixer, RetryVictim, Quiet, Note
      <4>3. QED
        BY <2>3, <4>1, <4>2 DEF TaskStep
    <3>2. GateNow(S)
      BY <3>1 DEF GateInv
    <3>3. QED
      BY <2>3, <3>2, GateExecutes, GateDecides, GateNodes, GateRoutes DEF TaskStep
  <2>4. CASE UNCHANGED vars
    BY <2>4 DEF vars, GateInv, GateNow, HumanGate, AboutToExecute, Drives
  <2>5. QED
    BY <2>1, <2>2, <2>3, <2>4 DEF Next
<1>3. GateInv(S) => HumanGateWithoutCrash
  BY DEF GateInv, GateNow, HumanGateWithoutCrash
<1>4. QED
  BY <1>1, <1>2, <1>3, TypeInvariant, SoleDriverKept, RecoveryStep, PTL DEF Spec
=============================================================================
