----------------------------- MODULE GraphProofs -----------------------------
(***************************************************************************)
(* What the choices of Graph return, for every sequence of edges: lemmas   *)
(* for the proofs about GraphRunner and FanOut.                            *)
(***************************************************************************)
EXTENDS Graph, WellFoundedInduction, SequenceTheorems, TLAPS

\* Edges are numbered from 1 in the order they were added.
LEMMA EdgeType == \A i \in EdgeIds : i \in Nat /\ Edges[i] \in EdgeRecords
<1>1. EdgeIds = 1 .. Len(Edges) /\ Len(Edges) \in Nat
  BY EdgesAssumption, LenProperties DEF EdgeIds
<1>2. QED
  BY <1>1, EdgesAssumption, ElementOfSeq

\* A nonempty set of edges has a first one, so FirstOf means what its name says.
LEMMA FirstOfIn ==
  ASSUME NEW S, S \subseteq EdgeIds, S # {}
  PROVE  FirstOf(S) \in S /\ FirstOf(S) \in EdgeIds
<1>1. S \subseteq Nat
  BY EdgeType
<1>2. PICK x \in S : \A y \in S : ~ (<<y, x>> \in OpToRel(<, Nat))
  BY <1>1, NatLessThanWellFounded, WFMin
<1>3. ASSUME NEW y \in S
      PROVE  x =< y
  <2>1. x \in Nat /\ y \in Nat
    BY <1>1
  <2>2. y < x => <<y, x>> \in OpToRel(<, Nat)
    BY <2>1 DEF OpToRel
  <2>3. ~(y < x)
    BY <1>2, <2>2, Zenon
  <2>4. QED
    BY <2>1, <2>3
<1>4. QED
  BY <1>3 DEF FirstOf

\* next_nodes takes edges of the graph.
LEMMA NextEdgesAreEdges ==
  ASSUME NEW n, NEW H
  PROVE  NextEdges(n, H) \subseteq EdgeIds
<1>1. Matched(n, H) \subseteq EdgeIds
  BY DEF Matched, Outgoing
<1>2. QED
  BY <1>1, FirstOfIn DEF NextEdges

\* next_nodes()[0] is a node of the graph or None, whatever conditions hold.
LEMMA NextNodeIsNode ==
  ASSUME NEW n, NEW H
  PROVE  NextNode(n, H) \in Nodes \cup {NoNode}
<1>1. \A i \in EdgeIds : Edges[i].target \in Nodes
  BY EdgeType DEF EdgeRecords
<1>2. QED
  BY <1>1, NextEdgesAreEdges, FirstOfIn DEF NextNode

\* The last of a nonempty set of edges: there is one because a graph has finitely many.
LEMMA LastExists ==
  ASSUME NEW S, S \subseteq EdgeIds, S # {}
  PROVE  \E b \in S : \A c \in S : c =< b
<1>1. EdgeIds = 1 .. Len(Edges) /\ Len(Edges) \in Nat
  BY EdgesAssumption, LenProperties DEF EdgeIds
<1> DEFINE T == {n \in Nat : \E i \in S : n + i = Len(Edges)}
<1>2. T # {}
  <2>1. PICK i \in S : TRUE
    OBVIOUS
  <2>2. i \in 1 .. Len(Edges)
    BY <1>1
  <2>3. Len(Edges) - i \in Nat /\ (Len(Edges) - i) + i = Len(Edges)
    BY <1>1, <2>2
  <2>4. Len(Edges) - i \in T
    BY <2>3
  <2> QED BY <2>4
<1>3. PICK n \in T : \A m \in T : ~(<<m, n>> \in OpToRel(<, Nat))
  <2> HIDE DEF T
  <2>1. T \subseteq Nat
    BY DEF T
  <2> QED BY <1>2, <2>1, NatLessThanWellFounded, WFMin
<1>4. PICK b \in S : n + b = Len(Edges)
  OBVIOUS
<1>5. ASSUME NEW c \in S
      PROVE  c =< b
  <2>1. c \in 1 .. Len(Edges) /\ b \in 1 .. Len(Edges) /\ n \in Nat
    BY <1>1
  <2> DEFINE m == Len(Edges) - c
  <2>2. m \in Nat /\ m + c = Len(Edges)
    BY <1>1, <2>1
  <2>3. m \in T
    BY <2>2
  <2>4. m < n => <<m, n>> \in OpToRel(<, Nat)
    BY <2>1, <2>2 DEF OpToRel
  <2>5. ~(m < n)
    BY <1>3, <2>3, <2>4, Zenon
  <2> QED BY <1>1, <1>4, <2>1, <2>2, <2>5
<1> QED BY <1>4, <1>5
=============================================================================
