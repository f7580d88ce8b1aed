------------------------------- MODULE Graph -------------------------------
(***************************************************************************)
(* A compiled graph: core/graph.py.  Edges are kept in the order add_edge  *)
(* appended them, because next_nodes and fallback_target prefer the first. *)
(* What a conditional edge reads of the run's state is abstracted to the   *)
(* set H of conditional edges (by index) whose condition holds.            *)
(***************************************************************************)
EXTENDS Naturals, Sequences

CONSTANTS
  Nodes,         \* the names of the graph's nodes
  NoNode,        \* Python's None where a node name is expected
  Entry,         \* the entry point
  Edges,         \* a sequence of EdgeRecords
  Fixer,         \* the name "fixer", a node of the graph or not
  FallbackNode   \* RetryPolicy.fallback_node of each node, or NoNode

EdgeRecords ==
  [source : Nodes, target : Nodes, conditional : BOOLEAN, parallel : BOOLEAN,
   fallback : BOOLEAN]

EdgeIds == DOMAIN Edges

Outgoing(n, fallback) ==
  {i \in EdgeIds : Edges[i].source = n /\ Edges[i].fallback = fallback}

Matched(n, H) == {i \in Outgoing(n, FALSE) : Edges[i].conditional => i \in H}

FirstOf(S) == CHOOSE i \in S : \A j \in S : i =< j

\* next_nodes: every matched parallel edge, else the first matched edge, else none.
NextEdges(n, H) ==
  LET parallel == {i \in Matched(n, H) : Edges[i].parallel}
  IN  CASE parallel # {}       -> parallel
        [] Matched(n, H) = {}  -> {}
        [] OTHER               -> {FirstOf(Matched(n, H))}

\* next_nodes(...)[0], None when there is none.
NextNode(n, H) ==
  IF NextEdges(n, H) = {} THEN NoNode ELSE Edges[FirstOf(NextEdges(n, H))].target

\* The retry policy's fallback_node wins over a fallback edge.
FallbackTarget(n) ==
  CASE FallbackNode[n] # NoNode    -> FallbackNode[n]
    [] Outgoing(n, TRUE) # {}      -> Edges[FirstOf(Outgoing(n, TRUE))].target
    [] OTHER                       -> NoNode

\* Nodes with no way on: the implicit terminals of compile().
Sinks == {n \in Nodes : Outgoing(n, FALSE) = {}}

-----------------------------------------------------------------------------
\* What compile() refuses to build without.
Closed(S) ==
  \A i \in EdgeIds : (~Edges[i].fallback /\ Edges[i].source \in S) => Edges[i].target \in S

Reachable == {n \in Nodes : \A S \in SUBSET Nodes : (Entry \in S /\ Closed(S)) => n \in S}

FallbackTargets == {Edges[i].target : i \in {j \in EdgeIds : Edges[j].fallback}}

ASSUME EdgesAssumption ==
  /\ NoNode \notin Nodes
  /\ Edges \in Seq(EdgeRecords)

ASSUME CompileAssumption ==
  /\ Entry \in Nodes
  /\ Nodes \subseteq Reachable \cup FallbackTargets \cup {Fixer}
=============================================================================
