---------------------------- MODULE FanOutProofs ----------------------------
(***************************************************************************)
(* Theorems about FanOut for every graph, every retry policy, every set of *)
(* conditions and keys, and any number of branches.                        *)
(***************************************************************************)
EXTENDS FanOut, GraphProofs

-----------------------------------------------------------------------------
(* The inductive invariant.                                                *)

BranchRecords ==
  [pc : {"new", "node", "backoff", "ok", "raised"}, attempt : Nat,
   previous : Nodes \cup {NoNode}, original : States, state : States]

Typed ==
  /\ row \in Records /\ run \in Records
  /\ Branches \subseteq EdgeIds
  /\ branch \in [Branches -> BranchRecords] /\ wrote \in [Branches -> SUBSET Keys]
  /\ driver \in Drivers /\ phase \in {"split", "gather", "joined", "over"}
  /\ crashes \in 0 .. MaxCrashes

\* What holds of branch b when its record is br and it set the keys W: it has not used up more
\* attempts than it has, the state it found and the one it works on are those from before the
\* fan-out, and what it returns differs from that in the keys it set.
Sound(b, br, W) ==
  /\ br.attempt =< MaxAttempts[Name(b)]
  /\ br.pc = "backoff" => br.attempt < MaxAttempts[Name(b)]
  /\ br.pc # "new" => br.original = Base
  /\ br.pc = "node" => br.state = Base
  /\ br.pc = "ok" => br.state = [k \in Keys |-> IF k \in W THEN b ELSE 0]
  /\ br.pc # "ok" => W = {}

\* The shared record holds the state from before the fan-out whenever the event loop runs.
Restored == phase \in {"split", "gather"} => run.state = Base

\* RETRYING is the status of a record only while some branch waits.
Awake ==
  /\ phase # "over" => row.status = run.status
  /\ phase \in {"split", "joined"} => run.status = "RUNNING"
  /\ phase = "gather" =>
       \/ run.status = "RUNNING"
       \/ run.status = "RETRYING" /\ \E b \in Branches : branch[b].pc = "backoff"

FanInv ==
  /\ Typed
  /\ \A b \in Branches : Sound(b, branch[b], wrote[b])
  /\ Restored
  /\ Awake
  /\ EveryBranchMerged
  /\ FailureIsRecorded

LEMMA BaseIsState == Base \in States
  BY DEF Base, States

LEMMA NameIsNode ==
  ASSUME NEW b \in EdgeIds
  PROVE  Name(b) \in Nodes /\ MaxAttempts[Name(b)] \in Nat \ {0} /\ b \in Nat \ {0}
<1>1. Name(b) \in Nodes
  BY EdgeType DEF Name, EdgeRecords
<1>2. b \in 1 .. Len(Edges) /\ Len(Edges) \in Nat
  BY EdgesAssumption, LenProperties DEF EdgeIds
<1>3. QED
  BY <1>1, <1>2, FanOutAssumption

\* What the attempt of a branch leaves in the record is a state.
LEMMA OutputIsState ==
  ASSUME NEW b \in EdgeIds, NEW W \in SUBSET Keys, branch[b].state \in States
  PROVE  Output(b, W) \in States
  BY DEF Output, States

-----------------------------------------------------------------------------
(* The steps of a branch.                                                  *)

\* Branch b changes its record to br, what it wrote to W, and the shared record as allowed.
Moves(b, br, W) ==
  /\ phase = "gather" /\ UNCHANGED <<driver, phase, crashes>>
  /\ br \in BranchRecords /\ W \in SUBSET Keys
  /\ branch' = [branch EXCEPT ![b] = br] /\ wrote' = [wrote EXCEPT ![b] = W]
  /\ row' \in Records /\ run' \in Records
  /\ row'.status = run'.status /\ run'.state = Base
  /\ Sound(b, br, W)
  /\ \/ run'.status = "RUNNING"
     \/ run'.status = "RETRYING" /\ br.pc = "backoff"
     \/ run'.status = run.status /\ branch[b].pc # "backoff"

LEMMA StartMoves ==
  ASSUME FanInv, NEW b \in Branches, StartBranch(b)
  PROVE  \E br, W : Moves(b, br, W)
<1> DEFINE br == [pc |-> "node", attempt |-> 1, previous |-> run.node,
                  original |-> run.state, state |-> run.state]
<1>1. b \in EdgeIds /\ branch[b].pc = "new" /\ phase = "gather" /\ run.state = Base
  BY DEF StartBranch, At, FanInv, Typed, Restored
<1>2. wrote[b] = {} /\ wrote' = [wrote EXCEPT ![b] = {}]
  BY <1>1 DEF StartBranch, FanInv, Typed, Sound
<1>3. br \in BranchRecords
  BY DEF BranchRecords, FanInv, Typed, Records
<1>4. run' \in Records /\ run'.state = Base /\ run'.status = run.status /\ row' = run'
  BY <1>1, NameIsNode DEF StartBranch, FanInv, Typed, Records
<1>5. Sound(b, br, {})
  BY <1>1, NameIsNode DEF Sound
<1>6. branch' = [branch EXCEPT ![b] = br] /\ UNCHANGED <<driver, phase, crashes>>
  BY DEF StartBranch
<1> HIDE DEF br
<1>7. QED
  BY <1>1, <1>2, <1>3, <1>4, <1>5, <1>6 DEF Moves

LEMMA RetryMoves ==
  ASSUME FanInv, NEW b \in Branches, RetryLater(b)
  PROVE  \E br, W : Moves(b, br, W)
<1> DEFINE br == [branch[b] EXCEPT !.pc = "backoff"]
<1>1. b \in EdgeIds /\ branch[b].pc = "node" /\ phase = "gather" /\ run.state = Base
  BY DEF RetryLater, At, FanInv, Typed, Restored
<1>2. wrote[b] = {} /\ wrote' = [wrote EXCEPT ![b] = {}]
  BY <1>1 DEF RetryLater, FanInv, Typed, Sound
<1>3. branch[b] \in BranchRecords
  BY DEF FanInv, Typed
<1>4. br \in BranchRecords /\ br.pc = "backoff" /\ br.attempt = branch[b].attempt
      /\ br.original = branch[b].original
  BY <1>3 DEF BranchRecords
<1>5. run' \in Records /\ run'.state = Base /\ run'.status = "RETRYING" /\ row' = run'
  BY <1>1 DEF RetryLater, FanInv, Typed, Records, Statuses
<1>6. Sound(b, br, {})
  BY <1>1, <1>4 DEF Sound, FanInv, RetryLater
<1>7. branch' = [branch EXCEPT ![b] = br] /\ UNCHANGED <<driver, phase, crashes>>
  BY DEF RetryLater
<1> HIDE DEF br
<1>8. QED
  BY <1>1, <1>2, <1>4, <1>5, <1>6, <1>7 DEF Moves

LEMMA WakeMoves ==
  ASSUME FanInv, NEW b \in Branches, Wake(b)
  PROVE  \E br, W : Moves(b, br, W)
<1> DEFINE br == [branch[b] EXCEPT !.pc = "node", !.attempt = @ + 1, !.state = run.state]
<1>1. b \in EdgeIds /\ branch[b].pc = "backoff" /\ phase = "gather" /\ run.state = Base
  BY DEF Wake, At, FanInv, Typed, Restored
<1>2. wrote[b] = {} /\ wrote' = [wrote EXCEPT ![b] = {}]
  BY <1>1 DEF Wake, FanInv, Typed, Sound
<1>3. branch[b] \in BranchRecords
  BY DEF FanInv, Typed
<1>4. /\ br \in BranchRecords /\ br.pc = "node" /\ br.attempt = branch[b].attempt + 1
      /\ br.original = branch[b].original /\ br.state = Base
  <2>1. branch[b].attempt \in Nat /\ branch[b].attempt + 1 \in Nat
    BY <1>3 DEF BranchRecords
  <2> DEFINE n == branch[b].attempt + 1
  <2>2. br = [branch[b] EXCEPT !.pc = "node", !.attempt = n, !.state = Base]
    BY <1>1, <1>3 DEF BranchRecords
  <2>3. n \in Nat
    BY <2>1
  <2> HIDE DEF br, n
  <2>4. /\ br \in BranchRecords /\ br.pc = "node" /\ br.attempt = n
        /\ br.original = branch[b].original /\ br.state = Base
    BY <1>3, <2>2, <2>3, BaseIsState DEF BranchRecords
  <2>5. QED
    BY <2>4 DEF n
<1>5. run' \in Records /\ run'.state = Base /\ run'.status = "RUNNING" /\ row' = run'
  BY <1>1 DEF Wake, FanInv, Typed, Records, Statuses
<1>6. Sound(b, br, {})
  <2>1. branch[b].attempt < MaxAttempts[Name(b)] /\ branch[b].original = Base
    BY <1>1 DEF FanInv, Sound
  <2>2. branch[b].attempt \in Nat /\ MaxAttempts[Name(b)] \in Nat
    BY <1>1, <1>3, NameIsNode DEF BranchRecords
  <2>3. br.attempt =< MaxAttempts[Name(b)]
    BY <1>4, <2>1, <2>2
  <2> HIDE DEF br
  <2>4. QED
    BY <1>4, <2>1, <2>3 DEF Sound
<1>7. branch' = [branch EXCEPT ![b] = br] /\ UNCHANGED <<driver, phase, crashes>>
  BY DEF Wake
<1> HIDE DEF br
<1>8. QED
  BY <1>1, <1>2, <1>4, <1>5, <1>6, <1>7 DEF Moves

\* The finally clause puts back the state from before the fan-out.
LEMMA RestoreRecord ==
  ASSUME FanInv, NEW b \in Branches, NEW state, branch[b].pc # "new"
  PROVE  /\ Restore(b, state) \in Records /\ Restore(b, state).state = Base
         /\ Restore(b, state).status = run.status
<1>1. branch[b].original = Base /\ branch[b] \in BranchRecords /\ run \in Records
  BY DEF FanInv, Typed, Sound
<1>2. QED
  BY <1>1, BaseIsState DEF Restore, Records, BranchRecords

LEMMA SucceedMoves ==
  ASSUME FanInv, NEW b \in Branches, NEW W \in SUBSET Keys, Succeed(b, W)
  PROVE  \E br, V : Moves(b, br, V)
<1> DEFINE br == [branch[b] EXCEPT !.pc = "ok", !.state = Output(b, W)]
<1>1. b \in EdgeIds /\ branch[b].pc = "node" /\ phase = "gather"
  BY DEF Succeed, At, FanInv, Typed
<1>2. branch[b] \in BranchRecords
  BY DEF FanInv, Typed
<1>3. Output(b, W) \in States /\ Output(b, W) = [k \in Keys |-> IF k \in W THEN b ELSE 0]
  <2>1. branch[b].state = Base
    BY <1>1 DEF FanInv, Sound
  <2>2. QED
    BY <1>1, <2>1, BaseIsState, OutputIsState DEF Output, Base
<1>4. /\ br \in BranchRecords /\ br.pc = "ok" /\ br.attempt = branch[b].attempt
      /\ br.original = branch[b].original /\ br.state = Output(b, W)
  BY <1>2, <1>3 DEF BranchRecords
<1>5. row' \in Records /\ row'.status = run.status
  BY <1>3 DEF Succeed, FanInv, Typed, Records
<1>6. run' \in Records /\ run'.state = Base /\ run'.status = run.status
  BY <1>1, RestoreRecord DEF Succeed
<1>7. Sound(b, br, W)
  BY <1>1, <1>3, <1>4 DEF Sound, FanInv
<1>8. /\ branch' = [branch EXCEPT ![b] = br] /\ UNCHANGED <<driver, phase, crashes>>
      /\ wrote' = [wrote EXCEPT ![b] = W]
  BY DEF Succeed
<1> HIDE DEF br
<1>9. QED
  BY <1>1, <1>4, <1>5, <1>6, <1>7, <1>8 DEF Moves

LEMMA RaiseMoves ==
  ASSUME FanInv, NEW b \in Branches, Fail(b) \/ \E V \in SUBSET Keys : PauseBranch(b, V)
  PROVE  \E br, W : Moves(b, br, W)
<1> DEFINE br == [branch[b] EXCEPT !.pc = "raised"]
<1>1. b \in EdgeIds /\ branch[b].pc = "node" /\ phase = "gather"
  BY DEF Fail, PauseBranch, At, FanInv, Typed
<1>2. branch[b] \in BranchRecords
  BY DEF FanInv, Typed
<1>3. wrote[b] = {} /\ wrote' = [wrote EXCEPT ![b] = {}]
  BY <1>1 DEF Fail, PauseBranch, FanInv, Typed, Sound
<1>4. /\ br \in BranchRecords /\ br.pc = "raised" /\ br.attempt = branch[b].attempt
      /\ br.original = branch[b].original
  BY <1>2 DEF BranchRecords
<1>5. row' \in Records /\ row'.status = run.status
  <2>1. CASE Fail(b)
    BY <2>1 DEF Fail, FanInv, Typed
  <2>2. ASSUME NEW V \in SUBSET Keys, PauseBranch(b, V)
        PROVE  row' \in Records /\ row'.status = run.status
    <3>1. Output(b, V) \in States
      BY <1>1, <1>2, OutputIsState DEF BranchRecords
    <3>2. QED
      BY <2>2, <3>1 DEF PauseBranch, FanInv, Typed, Records
  <2>3. QED
    BY <2>1, <2>2
<1>6. run' \in Records /\ run'.state = Base /\ run'.status = run.status
  BY <1>1, RestoreRecord DEF Fail, PauseBranch
<1>7. Sound(b, br, {})
  BY <1>1, <1>4 DEF Sound, FanInv
<1>8. branch' = [branch EXCEPT ![b] = br] /\ UNCHANGED <<driver, phase, crashes>>
  BY DEF Fail, PauseBranch
<1> HIDE DEF br
<1>9. QED
  BY <1>1, <1>3, <1>4, <1>5, <1>6, <1>7, <1>8 DEF Moves

LEMMA BranchMoves ==
  ASSUME FanInv, NEW b \in Branches, BranchStep(b)
  PROVE  \E br, W : Moves(b, br, W)
  BY StartMoves, RetryMoves, WakeMoves, SucceedMoves, RaiseMoves DEF BranchStep

\* Whatever a branch does, the invariant is kept: the other branches do not notice.
LEMMA BranchKeeps ==
  ASSUME FanInv, NEW b \in Branches, NEW br, NEW W, Moves(b, br, W)
  PROVE  FanInv'
<1>1. /\ DOMAIN branch' = Branches /\ branch'[b] = br /\ wrote'[b] = W
      /\ \A c \in Branches : c # b => branch'[c] = branch[c] /\ wrote'[c] = wrote[c]
  BY DEF Moves, FanInv, Typed
<1>2. Typed'
  BY <1>1 DEF Moves, FanInv, Typed, Branches
<1>3. \A c \in Branches' : Sound(c, branch[c], wrote[c])'
  BY <1>1 DEF Moves, FanInv, Sound, Branches, Name, Base
<1>4. Restored'
  BY DEF Moves, Restored, Base
<1>5. Awake'
  <2>1. /\ phase' = "gather" /\ row'.status = run'.status
        /\ \/ run'.status = "RUNNING"
           \/ run'.status = "RETRYING" /\ br.pc = "backoff"
           \/ run'.status = run.status /\ branch[b].pc # "backoff"
    BY DEF Moves
  <2>2. \/ run.status = "RUNNING"
        \/ run.status = "RETRYING" /\ \E c \in Branches : branch[c].pc = "backoff"
    BY DEF Moves, FanInv, Awake
  <2>3. \/ run'.status = "RUNNING"
        \/ run'.status = "RETRYING" /\ \E c \in Branches : branch'[c].pc = "backoff"
    BY <1>1, <2>1, <2>2
  <2>4. QED
    BY <1>1, <2>1, <2>3 DEF Awake, Branches
<1>6. EveryBranchMerged' /\ FailureIsRecorded'
  BY DEF Moves, EveryBranchMerged, FailureIsRecorded
<1>7. QED
  BY <1>2, <1>3, <1>4, <1>5, <1>6 DEF FanInv

-----------------------------------------------------------------------------
(* The steps of _fan_out() and of _loop().                                 *)

LEMMA ForkKeeps ==
  ASSUME FanInv, NEW H, Fork(H)
  PROVE  FanInv'
<1> DEFINE edges == NextEdges(Split, H)
<1>1. /\ edges \subseteq EdgeIds /\ phase = "split" /\ phase' = "gather"
      /\ branch' = [b \in edges |-> NotStarted] /\ wrote' = [b \in edges |-> {}]
      /\ UNCHANGED <<row, run, driver, crashes>>
  BY NextEdgesAreEdges DEF Fork
<1> HIDE DEF edges
<1>2. NotStarted \in BranchRecords
  BY BaseIsState DEF NotStarted, BranchRecords
<1>3. Typed'
  BY <1>1, <1>2 DEF FanInv, Typed, Branches
<1>4. \A b \in Branches' : Sound(b, branch[b], wrote[b])'
  <2> SUFFICES ASSUME NEW b \in edges
               PROVE  Sound(b, NotStarted, {})
    BY <1>1 DEF Branches, Sound, Name, Base
  <2>1. MaxAttempts[Name(b)] \in Nat \ {0}
    BY <1>1, NameIsNode
  <2>2. QED
    BY <2>1 DEF Sound, NotStarted
<1>5. Restored' /\ Awake'
  BY <1>1 DEF FanInv, Restored, Awake, Base
<1>6. EveryBranchMerged' /\ FailureIsRecorded'
  BY <1>1 DEF EveryBranchMerged, FailureIsRecorded
<1>7. QED
  BY <1>3, <1>4, <1>5, <1>6 DEF FanInv

\* When every branch has returned, a key was changed by the branches that set it.
LEMMA ChangedIsWritten ==
  ASSUME FanInv, Gathered, Raised = {}, NEW k \in Keys
  PROVE  /\ run.state[k] = 0
         /\ Changed(k) = {b \in Branches : k \in wrote[b]}
         /\ \A b \in Changed(k) : branch[b].state[k] = b
<1>1. run.state[k] = 0
  BY DEF Gathered, FanInv, Restored, Base
<1>2. \A b \in Branches : branch[b].state[k] = IF k \in wrote[b] THEN b ELSE 0
  BY DEF Gathered, Raised, FanInv, Sound
<1>3. \A b \in Branches : b # 0
  BY NameIsNode DEF FanInv, Typed
<1>4. QED
  BY <1>1, <1>2, <1>3 DEF Changed

\* The merged state maps a key to the last branch that set it.
LEMMA MergeOfKey ==
  ASSUME FanInv, Gathered, Raised = {}, NEW k \in Keys
  PROVE  LET writers == {b \in Branches : k \in wrote[b]}
         IN  /\ Merge[k] \in EdgeIds \cup {0}
             /\ IF writers = {} THEN Merge[k] = 0
                ELSE Merge[k] \in writers /\ \A b \in writers : b =< Merge[k]
<1> DEFINE writers == {b \in Branches : k \in wrote[b]}
<1>1. Changed(k) = writers /\ run.state[k] = 0 /\ \A b \in writers : branch[b].state[k] = b
  BY ChangedIsWritten
<1>2. Merge[k] = IF writers = {} THEN 0 ELSE branch[LastOf(writers)].state[k]
  BY <1>1 DEF Merge
<1>3. writers \subseteq EdgeIds
  BY DEF FanInv, Typed
<1> HIDE DEF writers
<1>4. CASE writers = {}
  BY <1>2, <1>4 DEF writers
<1>5. CASE writers # {}
  <2>1. \E b \in writers : \A c \in writers : c =< b
    BY <1>3, <1>5, LastExists
  <2>2. LastOf(writers) \in writers /\ \A c \in writers : c =< LastOf(writers)
    BY <2>1 DEF LastOf
  <2>3. Merge[k] = LastOf(writers)
    BY <1>1, <1>2, <1>5, <2>2
  <2>4. QED
    BY <1>3, <1>5, <2>2, <2>3 DEF writers
<1>6. QED
  BY <1>4, <1>5

LEMMA MergeIsState ==
  ASSUME FanInv, Gathered, Raised = {}
  PROVE  Merge \in States
<1>1. \A k \in Keys : Merge[k] \in EdgeIds \cup {0}
  BY MergeOfKey
<1>2. Merge = [k \in Keys |-> Merge[k]]
  BY DEF Merge
<1>3. QED
  BY <1>1, <1>2 DEF States

LEMMA JoinKeeps ==
  ASSUME FanInv, NEW H, NEW next \in Nodes \cup {NoNode}, Join(next, H)
  PROVE  FanInv'
<1> DEFINE status == IF next = NoNode THEN "COMPLETED" ELSE run.status
<1>1. /\ Gathered /\ Raised = {} /\ run' = [status |-> status, node |-> next, state |-> Merge]
      /\ row' = run' /\ phase' = IF next = NoNode THEN "over" ELSE "joined"
      /\ UNCHANGED <<branch, driver, wrote, crashes>>
  BY DEF Join
<1>2. run.status = "RUNNING"
  BY <1>1 DEF Gathered, FanInv, Awake
<1>3. status \in Statuses /\ (next # NoNode => status = "RUNNING")
      /\ (next = NoNode => status = "COMPLETED")
  BY <1>2 DEF Statuses
<1> HIDE DEF status
<1>4. run' \in Records /\ run'.status = status /\ run'.state = Merge
  BY <1>1, <1>3, MergeIsState DEF Records
<1>5. Typed'
  BY <1>1, <1>4 DEF FanInv, Typed, Branches
<1>6. \A b \in Branches' : Sound(b, branch[b], wrote[b])'
  BY <1>1 DEF FanInv, Sound, Branches, Name, Base
<1>7. Restored' /\ Awake'
  BY <1>1, <1>3, <1>4 DEF Restored, Awake
<1>8. EveryBranchMerged'
  <2> SUFFICES ASSUME NEW k \in Keys
               PROVE  LET writers == {b \in Branches : k \in wrote[b]}
                      IN  IF writers = {} THEN Merge[k] = 0
                          ELSE Merge[k] \in writers /\ \A b \in writers : b =< Merge[k]
    BY <1>1, <1>4 DEF EveryBranchMerged, Branches
  <2>1. QED
    BY <1>1, MergeOfKey
<1>9. FailureIsRecorded'
  BY <1>1, <1>3, <1>4 DEF FailureIsRecorded, Active
<1>10. QED
  BY <1>5, <1>6, <1>7, <1>8, <1>9 DEF FanInv

\* Steps that end the fan-out and leave the branches as they are.
LEMMA OverKeeps ==
  ASSUME FanInv, UNCHANGED <<branch, driver, wrote>>, phase' = "over",
         row' \in Records, run' \in Records, crashes' \in 0 .. MaxCrashes,
         driver # "resume" => row'.status \notin Active
  PROVE  FanInv'
<1>1. Typed'
  BY DEF FanInv, Typed, Branches
<1>2. \A b \in Branches' : Sound(b, branch[b], wrote[b])'
  BY DEF FanInv, Sound, Branches, Name, Base
<1>3. Restored' /\ Awake' /\ EveryBranchMerged' /\ FailureIsRecorded'
  BY DEF Restored, Awake, EveryBranchMerged, FailureIsRecorded
<1>4. QED
  BY <1>1, <1>2, <1>3 DEF FanInv

LEMMA RaiseKeeps ==
  ASSUME FanInv, JoinRaises
  PROVE  FanInv'
<1>1. row.status = "RUNNING" /\ row \in Records
  BY DEF JoinRaises, Gathered, FanInv, Typed, Awake
<1>2. Handled(row) \in Records /\ (driver # "resume" => Handled(row).status = "FAILED")
  <2>1. driver \in {"background", "approve", "resume"}
    BY FanOutAssumption DEF FanInv, Typed
  <2>2. QED
    BY <1>1, <2>1 DEF Handled, Records, Statuses, Active
<1>3. row' = Handled(row) /\ phase' = "over" /\ UNCHANGED <<run, branch, driver, wrote, crashes>>
  BY DEF JoinRaises
<1>4. QED
  BY <1>2, <1>3, OverKeeps DEF FanInv, Typed, Active

LEMMA ContinueKeeps ==
  ASSUME FanInv, NEW s \in {"COMPLETED", "FAILED", "PAUSED"}, Continue(s)
  PROVE  FanInv'
<1>1. run' \in Records /\ run'.status = s /\ row' = run' /\ phase' = "over"
      /\ UNCHANGED <<branch, driver, wrote, crashes>>
  BY DEF Continue, FanInv, Typed, Records, Statuses
<1>2. QED
  BY <1>1, OverKeeps DEF FanInv, Typed, Active

LEMMA CrashKeeps ==
  ASSUME FanInv, CrashRestart
  PROVE  FanInv'
<1>1. row' \in Records /\ row'.status \notin Active
  BY DEF CrashRestart, FanInv, Typed, Records, Statuses, Active
<1>2. crashes' \in 0 .. MaxCrashes
  BY FanOutAssumption DEF CrashRestart, FanInv, Typed
<1>3. phase' = "over" /\ UNCHANGED <<run, branch, driver, wrote>>
  BY DEF CrashRestart
<1>4. QED
  BY <1>1, <1>2, <1>3, OverKeeps DEF FanInv, Typed

-----------------------------------------------------------------------------
(* Theorems.                                                               *)

LEMMA InitInv == Init => FanInv
<1> SUFFICES ASSUME Init
             PROVE  FanInv
  OBVIOUS
<1>1. run \in Records /\ run.status = "RUNNING" /\ run.state = Base /\ row = run
  BY BaseIsState, FanOutAssumption DEF Init, Records, Statuses
<1>2. Branches = {} /\ branch = [b \in {} |-> NotStarted] /\ wrote = [b \in {} |-> {}]
      /\ phase = "split" /\ driver \in Drivers /\ crashes = 0
  BY DEF Init, Branches
<1>3. Typed
  BY <1>1, <1>2, FanOutAssumption DEF Typed
<1>4. QED
  BY <1>1, <1>2, <1>3 DEF FanInv, Restored, Awake, EveryBranchMerged, FailureIsRecorded

LEMMA NextInv == FanInv /\ [Next]_vars => FanInv'
<1> SUFFICES ASSUME FanInv, [Next]_vars
             PROVE  FanInv'
  OBVIOUS
<1>1. CASE UNCHANGED vars
  BY <1>1 DEF vars, FanInv, Typed, Sound, Restored, Awake, EveryBranchMerged,
     FailureIsRecorded, Branches, Name, Base
<1>2. CASE CrashRestart
  BY <1>2, CrashKeeps
<1>3. ASSUME NEW b \in EdgeIds, b \in Branches, BranchStep(b)
      PROVE  FanInv'
  BY <1>3, BranchMoves, BranchKeeps
<1>4. CASE LoopStep
  BY <1>4, ForkKeeps, JoinKeeps, RaiseKeeps, ContinueKeeps DEF LoopStep
<1>5. QED
  BY <1>1, <1>2, <1>3, <1>4 DEF Next, LoopRuns

LEMMA Invariant == Spec => []FanInv
<1>1. QED
  BY InitInv, NextInv, PTL DEF Spec

\* The record, the row and the branches keep their types, whatever the graph and however many
\* branches run; a branch is attempted as often as its policy says.
THEOREM TypeCorrect == Spec => []TypeOK
<1>1. FanInv => TypeOK
  <2> SUFFICES ASSUME FanInv, NEW b \in Branches
               PROVE  branch[b].attempt \in 0 .. MaxAttempts[Name(b)]
    BY DEF FanInv, Typed, TypeOK, BranchRecords
  <2>1. branch[b].attempt \in Nat /\ MaxAttempts[Name(b)] \in Nat
    BY NameIsNode DEF FanInv, Typed, BranchRecords
  <2>2. branch[b].attempt =< MaxAttempts[Name(b)]
    BY DEF FanInv, Sound
  <2>3. QED
    BY <2>1, <2>2
<1>2. QED
  BY <1>1, Invariant, PTL

\* Isolation of the branches: every attempt of a branch, the retries included, works on the
\* state from before the fan-out.
THEOREM BranchesIsolated == Spec => []AttemptsStartClean
<1>1. FanInv => AttemptsStartClean
  BY DEF FanInv, Sound, AttemptsStartClean
<1>2. QED
  BY <1>1, Invariant, PTL

\* Once every branch is over the record says RUNNING: _loop() goes on to the join's successor.
THEOREM JoinFindsRunning == Spec => []RunningAtTheJoin
<1>1. FanInv => RunningAtTheJoin
  BY DEF FanInv, Awake, RunningAtTheJoin, Gathered
<1>2. QED
  BY <1>1, Invariant, PTL

\* The join loses no branch's work: each key is that of the last branch that set it.
THEOREM JoinLosesNothing == Spec => []EveryBranchMerged
<1>1. QED
  BY Invariant, PTL DEF FanInv

\* A fan-out that raised leaves a row that says so, except under resume_run.
THEOREM RaiseIsRecorded == Spec => []FailureIsRecorded
<1>1. QED
  BY Invariant, PTL DEF FanInv
=============================================================================
