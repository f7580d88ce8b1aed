--------------------------- MODULE MCResearchRun ---------------------------
(***************************************************************************)
(* GraphRunner on the graph of examples/research_report_pipeline.py.       *)
(***************************************************************************)
EXTENDS GraphRunner

MCNodes ==
  {"planner", "knowledge_lookup", "researcher", "writer", "source_guard", "critic",
   "human_approve", "deliver", "fixer"}

Static(from, to) ==
  [source |-> from, target |-> to, conditional |-> FALSE, parallel |-> FALSE, fallback |-> FALSE]
When(from, to) == [Static(from, to) EXCEPT !.conditional = TRUE]

MCEdges ==
  << Static("planner", "knowledge_lookup"), Static("knowledge_lookup", "researcher"),
     Static("researcher", "writer"), Static("writer", "source_guard"),
     Static("source_guard", "critic"), When("critic", "deliver"), When("critic", "writer"),
     When("critic", "human_approve"), Static("human_approve", "deliver") >>

\* The critic's three conditions exclude each other and one always holds.
MCConditions == {{6}, {7}, {8}}

MCFallbackNode == [n \in MCNodes |-> "None"]

\* The planner and the fixer are given two attempts, the others one.
MCMaxAttempts == [n \in MCNodes |-> IF n \in {"planner", "fixer"} THEN 2 ELSE 1]

\* Planning off (static edges), the fast and agentic paths, and a plan of a critic alone.
MCPlans ==
  { <<>>,
    <<"knowledge_lookup", "researcher", "writer", "source_guard", "critic">>,
    <<"knowledge_lookup", "critic">> }

\* The graph is one the theorems about CompletedMeansDelivered and HumanGateWithoutCrash cover.
ASSUME GraphAssumption == DeliveryGraph /\ GatedGraph({"deliver"})
=============================================================================
