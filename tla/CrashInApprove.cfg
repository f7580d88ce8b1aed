\* The server restarts while an approval is being taken up.
SPECIFICATION Spec
CONSTANTS
  Tasks = {t1}
  NoNode = "None"
  Planner = "planner"
  Fixer = "fixer"
  DefaultNode = "knowledge_lookup"
  Entry = "writer"
  Checkpoints = {"human_approve"}
  ReviseTargets = {"writer"}
  Plans = {}
  Nodes <- MCNodes
  Edges <- MCEdges
  FallbackNode <- MCFallbackNode
  MaxAttempts <- MCMaxAttempts
  Conditions <- MCConditions
  MaxHumanRevisions = 1
  Requests = {"approve"}
  SweepOnRestart = TRUE
  MaxCrashes = 1
PROPERTY ApproveTakesEffect
CHECK_DEADLOCK FALSE
