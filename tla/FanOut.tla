------------------------------- MODULE FanOut -------------------------------
(***************************************************************************)
(* Parallel branches of one run: _fan_out and _execute_node_isolated of    *)
(* core/runner.py, with the attempts of _execute_node and the handler that *)
(* an exception of the fan-out reaches.                                    *)
(*                                                                         *)
(* The branches are coroutines of one event loop over ONE record: each     *)
(* puts its name and its copy of the state into run before it awaits, and  *)
(* puts back what it found when it is over.  A branch is identified by the *)
(* parallel edge that leads to it.  A state maps each key to the branch    *)
(* that wrote it, 0 for the value from before the fan-out.                 *)
(***************************************************************************)
EXTENDS RunStatus, Graph

CONSTANTS
  Split,         \* the node whose parallel edges are taken
  Conditions,    \* the sets of conditional edges a state can satisfy
  Keys,          \* the keys of the state
  Checkpoints,   \* the nodes of type checkpoint
  MaxAttempts,   \* RetryPolicy.max_attempts of each node
  Drivers,       \* what started the task: "background", "approve" or "resume"
  MaxCrashes     \* bound on the crashes explored

ASSUME FanOutAssumption ==
  /\ Split \in Nodes /\ Checkpoints \subseteq Nodes
  /\ MaxAttempts \in [Nodes -> Nat \ {0}]
  /\ Conditions \subseteq SUBSET EdgeIds
  /\ Drivers \subseteq {"background", "approve", "resume"}
  /\ MaxCrashes \in Nat

VARIABLES
  row,      \* the run's row in the store
  run,      \* the record the branches share
  branch,   \* what each branch is doing, with what it found in run
  driver,   \* what started the task
  phase,    \* where _loop is: "split", "gather", "joined", "over"
  wrote,    \* the keys each branch set, for the properties only
  crashes   \* crashes so far

vars == <<row, run, branch, driver, phase, wrote, crashes>>

Base == [k \in Keys |-> 0]
NotStarted == [pc |-> "new", attempt |-> 0, previous |-> NoNode, original |-> Base, state |-> Base]

Branches == DOMAIN branch
Name(b) == Edges[b].target
At(b, pc) == phase = "gather" /\ branch[b].pc = pc

\* gather() starts the branches in order, before the event loop resumes any of them; the one
\* started last may go on at once, when its node never awaits.
Started == {b \in Branches : branch[b].pc # "new"}
MayRun(b) == Started = Branches \/ \A c \in Started : c =< b

Init ==
  /\ run = [status |-> "RUNNING", node |-> Split, state |-> Base]
  /\ row = run
  /\ branch = [b \in {} |-> NotStarted]
  /\ driver \in Drivers
  /\ phase = "split"
  /\ wrote = [b \in {} |-> {}]
  /\ crashes = 0

Fork(H) ==
  LET edges == NextEdges(Split, H)
  IN  /\ phase = "split"
      /\ \E a, b \in edges : a # b
      /\ branch' = [b \in edges |-> NotStarted]
      /\ wrote' = [b \in edges |-> {}]
      /\ phase' = "gather"
      /\ UNCHANGED <<row, run, driver, crashes>>

-----------------------------------------------------------------------------
(* _execute_node_isolated() around _execute_node().                        *)

StartBranch(b) ==
  /\ At(b, "new")
  /\ \A c \in Branches : c < b => branch[c].pc # "new"
  /\ branch' = [branch EXCEPT ![b] = [pc |-> "node", attempt |-> 1, previous |-> run.node,
                                      original |-> run.state, state |-> run.state]]
  /\ run' = [run EXCEPT !.node = Name(b)]
  /\ row' = run'
  /\ UNCHANGED <<driver, phase, wrote, crashes>>

\* Mutant: the attempts have no limit.
RetryUnlimited(b) ==
  /\ At(b, "node") /\ MayRun(b)
  /\ run' = [run EXCEPT !.status = "RETRYING"]
  /\ row' = run'
  /\ branch' = [branch EXCEPT ![b].pc = "backoff"]
  /\ UNCHANGED <<driver, phase, wrote, crashes>>

\* A timeout or a retryable error with attempts left.
RetryLater(b) ==
  /\ At(b, "node") /\ MayRun(b)
  /\ branch[b].attempt < MaxAttempts[Name(b)]
  /\ run' = [run EXCEPT !.status = "RETRYING"]
  /\ row' = run'
  /\ branch' = [branch EXCEPT ![b].pc = "backoff"]
  /\ UNCHANGED <<driver, phase, wrote, crashes>>

\* Mutant: the status stays as the wait found it.
WakeRetrying(b) ==
  /\ At(b, "backoff") /\ MayRun(b)
  /\ row' = run
  /\ branch' = [branch EXCEPT ![b].pc = "node", ![b].attempt = @ + 1, ![b].state = run.state]
  /\ UNCHANGED <<run, driver, phase, wrote, crashes>>

\* Mutant: the attempt is not counted.
WakeUncounted(b) ==
  /\ At(b, "backoff") /\ MayRun(b)
  /\ run' = [run EXCEPT !.status = "RUNNING"]
  /\ row' = run'
  /\ branch' = [branch EXCEPT ![b].pc = "node", ![b].state = run.state]
  /\ UNCHANGED <<driver, phase, wrote, crashes>>

\* The next attempt works on whatever state the shared record holds now.
Wake(b) ==
  /\ At(b, "backoff") /\ MayRun(b)
  /\ run' = [run EXCEPT !.status = "RUNNING"]
  /\ row' = run'
  /\ branch' = [branch EXCEPT ![b].pc = "node", ![b].attempt = @ + 1, ![b].state = run.state]
  /\ UNCHANGED <<driver, phase, wrote, crashes>>

\* Mutant: the branch's own state stays in the shared record.
RestoreNameOnly(b, state) == [run EXCEPT !.node = branch[b].previous, !.state = state]

\* The finally clause: state is what the attempt left in the record.
Restore(b, state) == [run EXCEPT !.node = branch[b].previous, !.state = branch[b].original]

Output(b, W) == [k \in Keys |-> IF k \in W THEN b ELSE branch[b].state[k]]

\* The result is saved under whatever name the record has at that moment.  A checkpoint
\* succeeds when an earlier decision has resolved it.
Succeed(b, W) ==
  /\ At(b, "node") /\ MayRun(b)
  /\ row' = [run EXCEPT !.state = Output(b, W)]
  /\ run' = Restore(b, Output(b, W))
  /\ branch' = [branch EXCEPT ![b].pc = "ok", ![b].state = Output(b, W)]
  /\ wrote' = [wrote EXCEPT ![b] = W]
  /\ UNCHANGED <<driver, phase, crashes>>

\* The last attempt failed, or any attempt with an error that is not retryable.
Fail(b) ==
  /\ At(b, "node") /\ MayRun(b)
  /\ Name(b) \notin Checkpoints
  /\ row' = run
  /\ run' = Restore(b, run.state)
  /\ branch' = [branch EXCEPT ![b].pc = "raised"]
  /\ UNCHANGED <<driver, phase, wrote, crashes>>

\* A checkpoint's request to pause is an exception like any other here.
PauseBranch(b, W) ==
  /\ At(b, "node") /\ MayRun(b)
  /\ Name(b) \in Checkpoints
  /\ row' = [run EXCEPT !.state = Output(b, W)]
  /\ run' = Restore(b, Output(b, W))
  /\ branch' = [branch EXCEPT ![b].pc = "raised"]
  /\ UNCHANGED <<driver, phase, wrote, crashes>>

-----------------------------------------------------------------------------
(* _fan_out() after gather(), which waits for every branch.                *)

Gathered == phase = "gather" /\ \A b \in Branches : branch[b].pc \in {"ok", "raised"}
Raised == {b \in Branches : branch[b].pc = "raised"}

Changed(k) == {b \in Branches : branch[b].state[k] # run.state[k]}

\* Mutant: the first branch that changed a key keeps it.
MergeFirst ==
  [k \in Keys |-> IF Changed(k) = {} THEN run.state[k] ELSE branch[FirstOf(Changed(k))].state[k]]

LastOf(S) == CHOOSE b \in S : \A c \in S : c =< b

\* Each branch in turn sets the keys it changed: the last one in order keeps them.
Merge ==
  [k \in Keys |-> IF Changed(k) = {} THEN run.state[k] ELSE branch[LastOf(Changed(k))].state[k]]

Onward == [n \in Nodes, H \in Conditions |-> NextNode(n, H)]

\* next is unique[0] of the successors of all branches, or None when there is none.
JoinsAt(next, H) ==
  \/ next = NoNode /\ \A b \in Branches : Onward[Name(b), H] = NoNode
  \/ /\ next # NoNode
     /\ \E b \in Branches :
          /\ Onward[Name(b), H] = next
          /\ \A c \in Branches : c < b => Onward[Name(c), H] = NoNode

\* Without a successor _loop completes the run.
Join(next, H) ==
  /\ Gathered
  /\ Raised = {}
  /\ JoinsAt(next, H)
  /\ run' = [status |-> IF next = NoNode THEN "COMPLETED" ELSE run.status,
             node |-> next, state |-> Merge]
  /\ row' = run'
  /\ phase' = IF next = NoNode THEN "over" ELSE "joined"
  /\ UNCHANGED <<branch, driver, wrote, crashes>>

\* Mutant: the task of approve_run has no handler, like that of resume_run.
HandledInBackground(r) ==
  IF driver = "background" /\ r.status \in Active THEN [r EXCEPT !.status = "FAILED"] ELSE r

\* _run_in_background and the task of approve_run handle the exception, that of resume_run
\* does not.
Handled(r) ==
  IF \/ driver = "background" /\ r.status \in Active
     \/ driver = "approve" /\ r.status = "RUNNING"
  THEN [r EXCEPT !.status = "FAILED"] ELSE r

\* The exception leaves _loop, which catches those of the current node only: no fixer, no
\* fallback, no pause.
JoinRaises ==
  /\ Gathered
  /\ Raised # {}
  /\ row' = Handled(row)
  /\ phase' = "over"
  /\ UNCHANGED <<run, branch, driver, wrote, crashes>>

\* The rest of the run, which is GraphRunner's matter.
Continue(s) ==
  /\ phase = "joined"
  /\ run' = [run EXCEPT !.status = s]
  /\ row' = run'
  /\ phase' = "over"
  /\ UNCHANGED <<branch, driver, wrote, crashes>>

CrashRestart ==
  /\ phase # "over"
  /\ crashes < MaxCrashes
  /\ crashes' = crashes + 1
  /\ row' = IF row.status \in Active THEN [row EXCEPT !.status = "FAILED"] ELSE row
  /\ phase' = "over"
  /\ UNCHANGED <<run, branch, driver, wrote>>

BranchStep(b) ==
  \/ StartBranch(b) \/ RetryLater(b) \/ Wake(b) \/ Fail(b)
  \/ \E W \in SUBSET Keys : Succeed(b, W) \/ PauseBranch(b, W)

LoopStep ==
  \/ \E H \in Conditions : Fork(H) \/ \E next \in Nodes \cup {NoNode} : Join(next, H)
  \/ JoinRaises
  \/ \E s \in {"COMPLETED", "FAILED", "PAUSED"} : Continue(s)

LoopRuns == (\E b \in EdgeIds : b \in Branches /\ BranchStep(b)) \/ LoopStep

Next == CrashRestart \/ LoopRuns

Spec == Init /\ [][Next]_vars

\* The event loop goes on as long as a coroutine is ready, and a timeout ends every awaited
\* node.
FairSpec == Spec /\ WF_vars(LoopRuns)

-----------------------------------------------------------------------------
(* Properties.                                                             *)

States == [Keys -> EdgeIds \cup {0}]
Records == [status : Statuses, node : Nodes \cup {NoNode}, state : States]

\* The record, the row and the branches have the values the code gives them; in particular no
\* branch is attempted more often than its policy says, whatever the others do meanwhile.
TypeOK ==
  /\ row \in Records /\ run \in Records
  /\ \A b \in Branches :
       /\ branch[b].pc \in {"new", "node", "backoff", "ok", "raised"}
       /\ branch[b].attempt \in 0 .. MaxAttempts[Name(b)]
       /\ branch[b].previous \in Nodes \cup {NoNode}
       /\ branch[b].original \in States /\ branch[b].state \in States
  /\ driver \in Drivers /\ phase \in {"split", "gather", "joined", "over"}
  /\ crashes \in 0 .. MaxCrashes

\* Isolation: whatever order the branches start, fail, wait and finish in, no attempt of a
\* branch sees what another branch did, although all of them go through run.state.
AttemptsStartClean == \A b \in Branches : branch[b].pc = "node" => branch[b].state = Base

\* When the last branch is over the record says RUNNING, however many waits of other branches
\* it went through: _loop would otherwise stop without completing the run.
RunningAtTheJoin == Gathered => run.status = "RUNNING"

\* The join loses nothing: in the saved state each key is the work of the last branch, in the
\* order of the edges, that set it, and untouched when none did.
EveryBranchMerged ==
  phase = "joined" =>
    \A k \in Keys :
      LET writers == {b \in Branches : k \in wrote[b]}
      IN  IF writers = {} THEN row.state[k] = 0
          ELSE row.state[k] \in writers /\ \A b \in writers : b =< row.state[k]

\* A fan-out that raised leaves no row that says the run is being worked on, when a handler
\* of api/routes.py is there to notice: resume_run has none.
FailureIsRecorded == phase = "over" /\ driver # "resume" => row.status \notin Active

\* Every fan-out comes to an end.
Ends == <>(phase = "over")
=============================================================================
