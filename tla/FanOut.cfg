\* Two or three branches of one run with retries, failures, a checkpoint and a crash.
SPECIFICATION FairSpec
CONSTANTS
  NoNode = "None"
  Fixer = "fixer"
  Entry = "planner"
  Split = "planner"
  Nodes <- MCNodes
  Edges <- MCEdges
  FallbackNode <- MCFallbackNode
  Conditions <- MCConditions
  MaxAttempts <- MCMaxAttempts
  Checkpoints = {"review"}
  Keys = {"sources", "budget"}
  Drivers = {"background", "approve", "resume"}
  MaxCrashes = 1
INVARIANTS
  TypeOK
  AttemptsStartClean
  RunningAtTheJoin
  EveryBranchMerged
  FailureIsRecorded
PROPERTY Ends
CHECK_DEADLOCK FALSE
