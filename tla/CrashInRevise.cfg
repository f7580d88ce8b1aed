\* The server restarts while a revision is being taken up.
SPECIFICATION Spec
CONSTANTS
  Tasks = {t1}
  NoNode = "None"
  Planner = "planner"
  Fixer = "fixer"
  DefaultNode = "knowledge_lookup"
  Entry = "writer"
  Checkpoints = {"human_approve"}
  ReviseTargets = {"writer"}
  Plans = {}
  Nodes <- MCNodes
  Edges <- MCEdges
  FallbackNode <- MCFallbackNode
  MaxAttempts <- MCMaxAttempts
  Conditions <- MCConditions
  MaxHumanRevisions = 1
  Requests = {"approve", "revise"}
  SweepOnRestart = TRUE
  MaxCrashes = 1
INVARIANT HumanGate
CHECK_DEADLOCK FALSE
