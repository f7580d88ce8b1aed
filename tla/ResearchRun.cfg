\* One task at a time, restarts that leave the row as it is: the bare runner.
SPECIFICATION Spec
CONSTANTS
  Tasks = {"t1"}
  NoNode = "None"
  Planner = "planner"
  Fixer = "fixer"
  DefaultNode = "knowledge_lookup"
  Entry = "planner"
  Checkpoints = {"human_approve"}
  ReviseTargets = {"writer"}
  Nodes <- MCNodes
  Edges <- MCEdges
  FallbackNode <- MCFallbackNode
  MaxAttempts <- MCMaxAttempts
  Plans <- MCPlans
  Conditions <- MCConditions
  MaxHumanRevisions = 2
  Requests = {"approve", "reject", "revise", "resume"}
  SweepOnRestart = FALSE
  MaxCrashes = 1
INVARIANTS
  TypeOK
  FixerOncePerNode
PROPERTY ImplementsLifecycle
CHECK_DEADLOCK FALSE
