\* The server: two decisions at once, a restart.
SPECIFICATION FairSpec
CONSTANTS
  Tasks = {t1, t2}
  NoNode = "None"
  Planner = "planner"
  Fixer = "fixer"
  DefaultNode = "knowledge_lookup"
  Entry = "writer"
  Checkpoints = {"human_approve"}
  ReviseTargets = {"writer"}
  Plans = {}
  Nodes <- MCNodes
  Edges <- MCEdges
  FallbackNode <- MCFallbackNode
  MaxAttempts <- MCMaxAttempts
  Conditions <- MCConditions
  MaxHumanRevisions = 2
  Requests = {"approve", "reject", "revise"}
  SweepOnRestart = TRUE
  MaxCrashes = 1
INVARIANTS
  OneDriver
  HumanGateWithoutCrash
  CompletedMeansDelivered
PROPERTY Settles
CHECK_DEADLOCK FALSE
