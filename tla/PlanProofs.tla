----------------------------- MODULE PlanProofs -----------------------------
(***************************************************************************)
(* What the operators of PlanExec make of a planner's answer, for plans of *)
(* every length: lemmas for the proofs about ResearchPipeline.             *)
(***************************************************************************)
EXTENDS PlanExec, SequenceTheorems, WellFoundedInduction, TLAPS

\* What the first number has, and each has that its predecessor has, all have.
LEMMA Counting ==
  ASSUME NEW n \in Nat, NEW S, 0 \in S, \A i \in 1 .. n : i - 1 \in S => i \in S
  PROVE  \A i \in 0 .. n : i \in S
<1> SUFFICES ASSUME NEW x \in (0 .. n) \ S
             PROVE  FALSE
  OBVIOUS
<1> DEFINE T == (0 .. n) \ S
<1>1. T # {} /\ T \subseteq Nat
  OBVIOUS
<1>2. PICK m \in T : \A y \in T : ~(<<y, m>> \in OpToRel(<, Nat))
  BY <1>1, NatLessThanWellFounded, WFMin
<1>3. m \in 1 .. n
  OBVIOUS
<1>4. m - 1 \in 0 .. n /\ m - 1 \in Nat /\ m \in Nat /\ m - 1 < m
  BY <1>3
<1>5. <<m - 1, m>> \in OpToRel(<, Nat)
  BY <1>4 DEF OpToRel
<1>6. m - 1 \notin T
  BY <1>2, <1>5, Zenon
<1>7. QED
  BY <1>3, <1>4, <1>6

\* A function on 0 .. n is defined by its first value and a step from each value to the next.
Defines(n, X, base, Step) ==
  \E f \in [0 .. n -> X] : f[0] = base /\ \A i \in 1 .. n : f[i] = Step[i][f[i - 1]]

LEMMA StepByStep ==
  ASSUME NEW n \in Nat, NEW X, NEW base \in X, NEW Step \in [1 .. n -> [X -> X]]
  PROVE  Defines(n, X, base, Step)
<1> DEFINE Stepped(k, f) ==
             /\ f \in [0 .. k -> X] /\ f[0] = base
             /\ \A i \in 1 .. k : f[i] = Step[i][f[i - 1]]
           S == {k \in 0 .. n : \E f : Stepped(k, f)}
<1>1. 0 \in S
  <2>1. Stepped(0, [i \in 0 .. 0 |-> base])
    OBVIOUS
  <2>2. \E f : Stepped(0, f)
    <3> HIDE DEF Stepped
    <3>1. QED
      BY <2>1
  <2>3. QED
    BY <2>2
<1>2. ASSUME NEW k \in 1 .. n, k - 1 \in S
      PROVE  k \in S
  <2>1. PICK f : Stepped(k - 1, f)
    BY <1>2
  <2> DEFINE g == [i \in 0 .. k |-> IF i = k THEN Step[k][f[k - 1]] ELSE f[i]]
  <2>2. f[k - 1] \in X
    BY <2>1
  <2>3. Step[k][f[k - 1]] \in X
    BY <2>2
  <2>4. g \in [0 .. k -> X] /\ g[0] = base
    BY <2>1, <2>3
  <2>5. ASSUME NEW i \in 1 .. k
        PROVE  g[i] = Step[i][g[i - 1]]
    <3>1. g[i - 1] = f[i - 1]
      OBVIOUS
    <3>2. CASE i = k
      BY <3>1, <3>2
    <3>3. CASE i # k
      <4>1. i \in 1 .. (k - 1) /\ g[i] = f[i]
        BY <3>3
      <4>2. QED
        BY <2>1, <3>1, <4>1
    <3>4. QED
      BY <3>2, <3>3
  <2>6. Stepped(k, g)
    BY <2>4, <2>5
  <2>7. \E h : Stepped(k, h)
    <3> HIDE DEF Stepped, g
    <3>1. QED
      BY <2>6
  <2>8. QED
    BY <2>7
<1>3. n \in S
  <2>1. \A i \in 0 .. n : i \in S
    <3> HIDE DEF S
    <3>1. QED
      BY <1>1, <1>2, Counting
  <2>2. QED
    BY <2>1
<1>4. PICK f : Stepped(n, f)
  BY <1>3
<1>5. QED
  BY <1>4 DEF Defines


-----------------------------------------------------------------------------
(* The steps that are left of an answer are steps the code knows.          *)

StepTypes == DOMAIN PlanTypeToNode

LEMMA NormalizedType ==
  ASSUME NEW S, NEW raw \in Seq(S)
  PROVE  NormalizeSteps(raw) \in Seq(StepTypes)
<1> DEFINE n == Len(raw)
           Noting(f) ==
             [i \in 0 .. n |-> IF i = 0 THEN <<>> ELSE Noted(f[i - 1], raw[i])]
           noted == CHOOSE f : f = Noting(f)
<1>1. NormalizeSteps(raw) = noted[n]
  BY DEF NormalizeSteps
<1>2. n \in Nat
  BY LenProperties
<1>3. ASSUME NEW steps \in Seq(StepTypes), NEW type
      PROVE  Noted(steps, type) \in Seq(StepTypes)
  BY AppendProperties DEF Noted, StepTypes
<1>4. noted = Noting(noted)
  <2> DEFINE Step == [i \in 1 .. n |-> [x \in Seq(StepTypes) |-> Noted(x, raw[i])]]
  <2>1. <<>> \in Seq(StepTypes)
    BY EmptySeq
  <2>2. Step \in [1 .. n -> [Seq(StepTypes) -> Seq(StepTypes)]]
    BY <1>3
  <2>3. ASSUME NEW i \in 1 .. n, NEW x \in Seq(StepTypes)
        PROVE  Step[i][x] = Noted(x, raw[i])
    OBVIOUS
  <2> HIDE DEF Step, n
  <2>4. Defines(n, Seq(StepTypes), <<>>, Step)
    BY <1>2, <2>1, <2>2, StepByStep
  <2>5. PICK f \in [0 .. n -> Seq(StepTypes)] :
          f[0] = <<>> /\ \A i \in 1 .. n : f[i] = Step[i][f[i - 1]]
    BY <2>4 DEF Defines
  <2>6. ASSUME NEW i \in 1 .. n
        PROVE  f[i] = Noted(f[i - 1], raw[i])
    <3>1. i - 1 \in 0 .. n
      BY <1>2
    <3>2. f[i - 1] \in Seq(StepTypes)
      BY <3>1
    <3>3. Step[i][f[i - 1]] = Noted(f[i - 1], raw[i])
      BY <2>3, <3>2
    <3>4. QED
      BY <2>5, <3>3
  <2>7. f = Noting(f)
    <3>1. ASSUME NEW i \in 0 .. n
          PROVE  f[i] = IF i = 0 THEN <<>> ELSE Noted(f[i - 1], raw[i])
      BY <1>2, <2>5, <2>6
    <3>2. QED
      BY <3>1
  <2>8. QED
    <3> HIDE DEF Noting
    <3>1. QED
      BY <2>7
<1> HIDE DEF noted, n
<1>5. \A i \in 0 .. n : noted[i] = IF i = 0 THEN <<>> ELSE Noted(noted[i - 1], raw[i])
  BY <1>4
<1> DEFINE T == {i \in 0 .. n : noted[i] \in Seq(StepTypes)}
<1>6. 0 \in T
  <2>1. noted[0] = <<>>
    BY <1>2, <1>5
  <2>2. 0 \in 0 .. n
    BY <1>2
  <2>3. <<>> \in Seq(StepTypes)
    BY EmptySeq
  <2>4. noted[0] \in Seq(StepTypes)
    BY <2>1, <2>3
  <2>5. QED
    BY <2>2, <2>4
<1>7. ASSUME NEW i \in 1 .. n, i - 1 \in T
      PROVE  i \in T
  BY <1>2, <1>3, <1>5, <1>7
<1>8. n \in T
  <2>1. \A i \in 0 .. n : i \in T
    <3> HIDE DEF T
    <3>1. QED
      BY <1>2, <1>6, <1>7, Counting
  <2>2. QED
    BY <1>2, <2>1
<1>9. QED
  BY <1>1, <1>8

\* A plan the run follows is a plan of known steps, whatever the answer.
LEMMA PlanType ==
  ASSUME NEW answer \in Answers(Seq(STRING)), NEW earlier \in Seq(StepTypes)
  PROVE  PlanOf(answer, earlier) \in Seq(StepTypes)
<1>1. NormalizeSteps(answer.plan) \in Seq(StepTypes)
  BY NormalizedType DEF Answers
<1>2. NormalizeSteps(earlier) \in Seq(StepTypes)
  BY NormalizedType
<1>3. DefaultPlan \in Seq(StepTypes)
  BY DEF DefaultPlan, StepTypes, PlanTypeToNode
<1>4. QED
  BY <1>1, <1>2, <1>3 DEF PlanOf

-----------------------------------------------------------------------------
(* The queue a plan is expanded to.                                        *)

PlanNodes == {"knowledge_lookup", "researcher", "writer", "source_guard", "critic"}
StepNodes == {"researcher", "writer", "critic"}

FollowedByGuard(q) ==
  \A i \in 1 .. Len(q) : q[i] = "writer" => i < Len(q) /\ q[i + 1] = "source_guard"
HasWriter(q) == \E i \in 1 .. Len(q) : q[i] = "writer"

LEMMA StepNodeType == \A type \in StepTypes : PlanTypeToNode[type] \in StepNodes
  BY DEF StepTypes, PlanTypeToNode, StepNodes

\* One step: every writer still has its guard behind it, and no writer gets lost.
LEMMA VisitedFacts ==
  ASSUME NEW q \in Seq(PlanNodes), Len(q) > 0, NEW node \in StepNodes, NEW guard \in BOOLEAN
  PROVE  /\ Visited(q, node, guard) \in Seq(PlanNodes) /\ Len(Visited(q, node, guard)) > 0
         /\ guard /\ FollowedByGuard(q) => FollowedByGuard(Visited(q, node, guard))
         /\ HasWriter(q) \/ node = "writer" => HasWriter(Visited(q, node, guard))
<1>1. Len(q) \in Nat /\ \A i \in 1 .. Len(q) : q[i] \in PlanNodes
  BY LenProperties, ElementOfSeq
<1>2. CASE Last(q) = node
  <2>1. Visited(q, node, guard) = q
    BY <1>2 DEF Visited
  <2>2. node = "writer" => HasWriter(q)
    BY <1>1, <1>2 DEF Last, HasWriter
  <2>3. QED
    BY <2>1, <2>2
<1>3. CASE Last(q) # node /\ node = "writer" /\ guard
  <2> DEFINE v == q \o <<"writer", "source_guard">>
  <2>1. Visited(q, node, guard) = v
    BY <1>3 DEF Visited
  <2>2. v \in Seq(PlanNodes) /\ Len(v) = Len(q) + 2
    BY ConcatProperties DEF PlanNodes
  <2>3. /\ \A i \in 1 .. Len(q) : v[i] = q[i]
        /\ v[Len(q) + 1] = "writer" /\ v[Len(q) + 2] = "source_guard"
    BY <1>1
  <2> HIDE DEF v
  <2>4. FollowedByGuard(q) => FollowedByGuard(v)
    <3> SUFFICES ASSUME FollowedByGuard(q), NEW i \in 1 .. Len(v), v[i] = "writer"
                 PROVE  i < Len(v) /\ v[i + 1] = "source_guard"
      BY DEF FollowedByGuard
    <3>1. CASE i \in 1 .. Len(q)
      <4>1. i < Len(q) /\ q[i + 1] = "source_guard"
        BY <2>3, <3>1 DEF FollowedByGuard
      <4>2. QED
        BY <1>1, <2>2, <2>3, <3>1, <4>1
    <3>2. CASE i = Len(q) + 1
      BY <1>1, <2>2, <2>3, <3>2
    <3>3. CASE i = Len(q) + 2
      BY <2>3, <3>3
    <3>4. QED
      BY <1>1, <2>2, <3>1, <3>2, <3>3
  <2>5. HasWriter(v)
    BY <1>1, <2>2, <2>3 DEF HasWriter
  <2>6. QED
    BY <1>1, <2>1, <2>2, <2>4, <2>5
<1>4. CASE Last(q) # node /\ ~(node = "writer" /\ guard)
  <2> DEFINE v == q \o <<node>>
  <2>1. Visited(q, node, guard) = v
    BY <1>4 DEF Visited
  <2>2. v \in Seq(PlanNodes) /\ Len(v) = Len(q) + 1
    BY ConcatProperties DEF PlanNodes, StepNodes
  <2>3. (\A i \in 1 .. Len(q) : v[i] = q[i]) /\ v[Len(q) + 1] = node
    BY <1>1
  <2> HIDE DEF v
  <2>4. guard /\ FollowedByGuard(q) => FollowedByGuard(v)
    <3> SUFFICES ASSUME guard, FollowedByGuard(q), NEW i \in 1 .. Len(v), v[i] = "writer"
                 PROVE  i < Len(v) /\ v[i + 1] = "source_guard"
      BY DEF FollowedByGuard
    <3>1. CASE i \in 1 .. Len(q)
      <4>1. i < Len(q) /\ q[i + 1] = "source_guard"
        BY <2>3, <3>1 DEF FollowedByGuard
      <4>2. QED
        BY <1>1, <2>2, <2>3, <3>1, <4>1
    <3>2. CASE i = Len(q) + 1
      BY <1>4, <2>3, <3>2
    <3>3. QED
      BY <1>1, <2>2, <3>1, <3>2
  <2>5. HasWriter(q) \/ node = "writer" => HasWriter(v)
    BY <1>1, <2>2, <2>3 DEF HasWriter
  <2>6. QED
    BY <1>1, <2>1, <2>2, <2>4, <2>5
<1>5. QED
  BY <1>2, <1>3, <1>4

\* The expansion visits the steps one by one.
LEMMA Expanding ==
  ASSUME NEW steps \in Seq(StepTypes), NEW guard \in BOOLEAN
  PROVE  \E visited :
            /\ ExpandPlanToNodes(steps, guard) = visited[Len(steps)]
            /\ visited[0] = <<"knowledge_lookup">>
            /\ \A i \in 1 .. Len(steps) :
                 visited[i] = Visited(visited[i - 1], PlanTypeToNode[steps[i]], guard)
<1> DEFINE n == Len(steps)
           node(i) == PlanTypeToNode[steps[i]]
           Visiting(f) ==
             [i \in 0 .. n |-> IF i = 0 THEN <<"knowledge_lookup">>
                               ELSE Visited(f[i - 1], PlanTypeToNode[steps[i]], guard)]
           visited == CHOOSE f : f = Visiting(f)
           Q == {q \in Seq(PlanNodes) : Len(q) > 0}
<1>1. ExpandPlanToNodes(steps, guard) = visited[n]
  BY DEF ExpandPlanToNodes
<1>2. n \in Nat
  BY LenProperties
<1>3. ASSUME NEW q \in Q, NEW i \in 1 .. n
      PROVE  Visited(q, node(i), guard) \in Q
  <2>1. node(i) \in StepNodes
    BY ElementOfSeq, StepNodeType
  <2> HIDE DEF node
  <2>2. QED
    BY <2>1, VisitedFacts
<1>4. visited = Visiting(visited)
  <2> DEFINE Step == [i \in 1 .. n |-> [q \in Q |-> Visited(q, node(i), guard)]]
             base == <<"knowledge_lookup">>
  <2>1. base \in Q
    BY DEF PlanNodes
  <2>2. Step \in [1 .. n -> [Q -> Q]]
    BY <1>3
  <2>3. ASSUME NEW i \in 1 .. n, NEW q \in Q
        PROVE  Step[i][q] = Visited(q, node(i), guard)
    OBVIOUS
  <2> HIDE DEF Step, n, Q, base, node
  <2>4. Defines(n, Q, base, Step)
    BY <1>2, <2>1, <2>2, StepByStep
  <2>5. PICK f \in [0 .. n -> Q] :
          f[0] = base /\ \A i \in 1 .. n : f[i] = Step[i][f[i - 1]]
    BY <2>4 DEF Defines
  <2>6. ASSUME NEW i \in 1 .. n
        PROVE  f[i] = Visited(f[i - 1], node(i), guard)
    <3>1. i - 1 \in 0 .. n
      BY <1>2
    <3>2. f[i - 1] \in Q
      BY <3>1
    <3>3. Step[i][f[i - 1]] = Visited(f[i - 1], node(i), guard)
      BY <2>3, <3>2
    <3>4. QED
      BY <2>5, <3>3
  <2>7. f = Visiting(f)
    <3>1. ASSUME NEW i \in 0 .. n
          PROVE  f[i] = IF i = 0 THEN base ELSE Visited(f[i - 1], node(i), guard)
      BY <1>2, <2>5, <2>6
    <3>2. QED
      BY <3>1 DEF base, node
  <2>8. QED
    <3> HIDE DEF Visiting
    <3>1. QED
      BY <2>7
<1> HIDE DEF visited
<1>5. \A i \in 0 .. n : visited[i] = IF i = 0 THEN <<"knowledge_lookup">>
                                    ELSE Visited(visited[i - 1], node(i), guard)
  BY <1>4
<1>6. visited[0] = <<"knowledge_lookup">>
      /\ \A i \in 1 .. n : visited[i] = Visited(visited[i - 1], node(i), guard)
  <2> HIDE DEF n, node
  <2>1. QED
    BY <1>2, <1>5
<1>7. QED
  BY <1>1, <1>6

\* What a plan is expanded to: nodes of the graph, each writer followed by the source guard
\* where the fact check is on, and a writer if the plan has a step that writes.
LEMMA Expanded ==
  ASSUME NEW steps \in Seq(StepTypes), NEW guard \in BOOLEAN
  PROVE  /\ ExpandPlanToNodes(steps, guard) \in Seq(PlanNodes)
         /\ guard => FollowedByGuard(ExpandPlanToNodes(steps, guard))
         /\ (\E i \in DOMAIN steps : steps[i] = "write") =>
              HasWriter(ExpandPlanToNodes(steps, guard))
<1>1. PICK visited :
        /\ ExpandPlanToNodes(steps, guard) = visited[Len(steps)]
        /\ visited[0] = <<"knowledge_lookup">>
        /\ \A i \in 1 .. Len(steps) :
             visited[i] = Visited(visited[i - 1], PlanTypeToNode[steps[i]], guard)
  BY Expanding
<1>2. Len(steps) \in Nat /\ DOMAIN steps = 1 .. Len(steps)
  BY LenProperties
<1> DEFINE Writes(k) == \E j \in 1 .. k : steps[j] = "write"
           Good(k, q) == /\ q \in Seq(PlanNodes) /\ Len(q) > 0
                         /\ guard => FollowedByGuard(q)
                         /\ Writes(k) => HasWriter(q)
           T == {k \in 0 .. Len(steps) : Good(k, visited[k])}
<1>3. Good(0, <<"knowledge_lookup">>)
  BY DEF PlanNodes, FollowedByGuard
<1>4. ASSUME NEW i \in 1 .. Len(steps), Good(i - 1, visited[i - 1])
      PROVE  Good(i, visited[i])
  <2> DEFINE q == visited[i - 1]
             node == PlanTypeToNode[steps[i]]
             v == Visited(q, node, guard)
  <2>1. steps[i] \in StepTypes
    BY ElementOfSeq
  <2>2. node \in StepNodes /\ (steps[i] = "write" => node = "writer")
    BY <2>1, StepNodeType DEF PlanTypeToNode
  <2>3. visited[i] = v
    BY <1>1
  <2>4. q \in Seq(PlanNodes) /\ Len(q) > 0
    BY <1>4
  <2>5. Writes(i) => Writes(i - 1) \/ steps[i] = "write"
    BY <1>2
  <2> HIDE DEF node, Writes
  <2>6. Good(i, v)
    BY <1>4, <2>2, <2>4, <2>5, VisitedFacts
  <2>7. QED
    BY <2>3, <2>6
<1> HIDE DEF Good
<1>5. 0 \in T
  BY <1>1, <1>2, <1>3
<1>6. ASSUME NEW i \in 1 .. Len(steps), i - 1 \in T
      PROVE  i \in T
  BY <1>2, <1>4, <1>6
<1>7. \A i \in 0 .. Len(steps) : i \in T
  <2> HIDE DEF T
  <2>1. QED
    BY <1>2, <1>5, <1>6, Counting
<1>8. Good(Len(steps), ExpandPlanToNodes(steps, guard))
  BY <1>1, <1>2, <1>7
<1>9. QED
  BY <1>2, <1>8 DEF Good

\* Taking the first node off a queue: the guards stay behind their writers, and the writer
\* taken off has left its guard as the next node.
LEMMA TailFacts ==
  ASSUME NEW S, NEW q \in Seq(S), q # <<>>
  PROVE  /\ Head(q) \in S /\ Tail(q) \in Seq(S)
         /\ FollowedByGuard(q) => FollowedByGuard(Tail(q))
         /\ FollowedByGuard(q) /\ Head(q) = "writer" => Head(Tail(q)) = "source_guard"
         /\ HasWriter(q) => Head(q) = "writer" \/ HasWriter(Tail(q))
<1> DEFINE t == Tail(q)
<1>1. /\ Len(q) \in Nat /\ Len(q) > 0 /\ Head(q) \in S /\ Head(q) = q[1]
      /\ t \in Seq(S) /\ Len(t) = Len(q) - 1 /\ \A i \in 1 .. Len(t) : t[i] = q[i + 1]
  BY HeadTailProperties, EmptySeq, LenProperties
<1>2. t # <<>> => Head(t) = t[1]
  BY <1>1
<1> HIDE DEF t
<1>3. Len(t) > 0 => t # <<>>
  OBVIOUS
<1>4. ASSUME FollowedByGuard(q)
      PROVE  FollowedByGuard(t)
  <2> SUFFICES ASSUME NEW i \in 1 .. Len(t), t[i] = "writer"
               PROVE  i < Len(t) /\ t[i + 1] = "source_guard"
    BY DEF FollowedByGuard
  <2>1. i + 1 \in 1 .. Len(q) /\ q[i + 1] = "writer"
    BY <1>1
  <2>2. i + 1 < Len(q) /\ q[(i + 1) + 1] = "source_guard"
    BY <1>4, <2>1 DEF FollowedByGuard
  <2>3. i + 1 \in 1 .. Len(t)
    BY <1>1, <2>2
  <2>4. QED
    BY <1>1, <2>2, <2>3
<1>5. ASSUME FollowedByGuard(q), Head(q) = "writer"
      PROVE  Head(t) = "source_guard"
  <2>1. 1 < Len(q) /\ q[1 + 1] = "source_guard"
    BY <1>1, <1>5 DEF FollowedByGuard
  <2>2. 1 \in 1 .. Len(t) /\ t # <<>>
    BY <1>1, <1>3, <2>1
  <2>3. QED
    BY <1>1, <1>2, <2>1, <2>2
<1>6. ASSUME HasWriter(q), Head(q) # "writer"
      PROVE  HasWriter(t)
  <2>1. PICK i \in 1 .. Len(q) : q[i] = "writer"
    BY <1>6 DEF HasWriter
  <2>2. i # 1
    BY <1>1, <1>6, <2>1
  <2>3. i - 1 \in 1 .. Len(t) /\ (i - 1) + 1 = i
    BY <1>1, <2>2
  <2>4. t[i - 1] = "writer"
    BY <1>1, <2>1, <2>3
  <2>5. QED
    BY <2>3, <2>4 DEF HasWriter
<1>7. QED
  BY <1>1, <1>4, <1>5, <1>6 DEF t
=============================================================================
