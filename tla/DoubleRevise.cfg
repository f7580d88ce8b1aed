\* The server: the same revision asked for twice.
SPECIFICATION Spec
CONSTANTS
  Tasks = {t1, t2}
  NoNode = "None"
  Planner = "planner"
  Fixer = "fixer"
  DefaultNode = "knowledge_lookup"
  Entry = "writer"
  Checkpoints = {"human_approve"}
  ReviseTargets = {"writer"}
  Plans = {}
  Nodes <- MCNodes
  Edges <- MCEdges
  FallbackNode <- MCFallbackNode
  MaxAttempts <- MCMaxAttempts
  Conditions <- MCConditions
  MaxHumanRevisions = 1
  Requests = {"revise"}
  SweepOnRestart = TRUE
  MaxCrashes = 0
PROPERTY TerminalIsFinal
CHECK_DEADLOCK FALSE
