------------------------------ MODULE MCFanOut ------------------------------
(***************************************************************************)
(* FanOut on a split into three branches, one of them a checkpoint, of     *)
(* which two share a successor and one is a dead end.                      *)
(***************************************************************************)
EXTENDS FanOut

MCNodes == {"planner", "web", "papers", "review", "writer"}

Parallel(to) ==
  [source |-> "planner", target |-> to, conditional |-> TRUE, parallel |-> TRUE, fallback |-> FALSE]
Static(from, to) ==
  [source |-> from, target |-> to, conditional |-> FALSE, parallel |-> FALSE, fallback |-> FALSE]
When(from, to) == [Static(from, to) EXCEPT !.conditional = TRUE]

MCEdges ==
  << Parallel("web"), Parallel("papers"), Parallel("review"),
     When("web", "writer"), Static("review", "writer") >>

\* Three searches or two, the checkpoint among them or not; "papers" leads nowhere.
MCConditions == {{1, 2}, {1, 2, 4}, {1, 2, 3, 4}}

MCMaxAttempts == [n \in MCNodes |-> IF n \in {"web", "papers"} THEN 2 ELSE 1]

MCFallbackNode == [n \in MCNodes |-> "None"]
=============================================================================
