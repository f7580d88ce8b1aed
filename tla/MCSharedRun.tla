---------------------------- MODULE MCSharedRun ----------------------------
(***************************************************************************)
(* GraphRunner with two tasks on one run.  The graph is the end of the     *)
(* shipped pipelines (a writer, a checkpoint, a delivery, a fixer), with   *)
(* what GraphBuilder allows beside: a fallback edge to a node that only it *)
(* reaches, and a retry policy that names a node the graph does not have.  *)
(***************************************************************************)
EXTENDS GraphRunner, TLC

MCNodes == {"writer", "template", "human_approve", "deliver", "fixer"}

Static(from, to) ==
  [source |-> from, target |-> to, conditional |-> FALSE, parallel |-> FALSE, fallback |-> FALSE]
When(from, to) == [Static(from, to) EXCEPT !.conditional = TRUE]
OnFailure(from, to) == [Static(from, to) EXCEPT !.fallback = TRUE]

MCEdges ==
  << When("writer", "human_approve"), When("writer", "deliver"),
     Static("human_approve", "deliver"),
     OnFailure("writer", "template"), Static("template", "human_approve") >>

MCConditions == {{1}, {2}}

MCFallbackNode == [n \in MCNodes |-> IF n = "template" THEN "missing" ELSE "None"]

MCMaxAttempts == [n \in MCNodes |-> IF n = "writer" THEN 2 ELSE 1]

TaskSymmetry == Permutations(Tasks)

\* The graph is one the theorems about CompletedMeansDelivered and HumanGateWithoutCrash cover.
ASSUME GraphAssumption == DeliveryGraph /\ GatedGraph({"deliver"})
=============================================================================
