--------------------------- MODULE SupportProofs ---------------------------
(***************************************************************************)
(* Theorems about SupportPipeline, for every set of configurations and any *)
(* number of human revisions and crashes.                                  *)
(***************************************************************************)
EXTENDS SupportPipeline, TLAPS

-----------------------------------------------------------------------------
(* The tables, and the steps of one field.                                 *)

\* The intents with a specialist, and the specialists with their names of routes.
LEMMA Tables ==
  /\ DOMAIN SpecialistOf = {"faq", "account", "technical", "bug", "billing"}
  /\ \A i \in DOMAIN SpecialistOf : SpecialistOf[i] \in Specialists
  /\ Specialists = {"faq_agent", "technical_agent", "billing_agent"}
  /\ \A n \in Specialists : RouteTaken[n] \in {"faq", "technical", "billing"}
  /\ SpecialistOf["faq"] = "faq_agent" /\ SpecialistOf["technical"] = "technical_agent"
  /\ SpecialistOf["billing"] = "billing_agent" /\ RouteTaken["faq_agent"] = "faq"
BY DEF SpecialistOf, Specialists, RouteTaken

\* The static edges lead from the lookup to the frontline, from there to the sentiment
\* agent, and from every specialist to the critic.
LEMMA StaticEdges ==
  /\ DOMAIN Static = Specialists \cup {"knowledge_lookup", "frontline"}
  /\ Static["knowledge_lookup"] = "frontline"
  /\ Static["frontline"] = "sentiment"
  /\ \A n \in Specialists : Static[n] = "quality_critic"
BY Tables DEF Static

\* The nodes of the graph.
LEMMA NodesListed ==
  Nodes = {"knowledge_lookup", "frontline", "sentiment", "faq_agent", "technical_agent",
           "billing_agent", "quality_critic", "human_escalate", "deliver"}
BY Tables, StaticEdges DEF Nodes

\* The count of refusals stays capped at two.
LEMMA UpToTwo == ASSUME NEW n \in 0 .. 2 PROVE UpTo(n + 1, 2) \in 0 .. 2
BY DEF UpTo

-----------------------------------------------------------------------------
(* Types.                                                                  *)

\* A record with the fields of a run, each of its type, is one.
LEMMA RunByFields ==
  ASSUME /\ run.status \in {"RUNNING", "PAUSED", "COMPLETED", "FAILED"} /\ run.node \in Nodes
         /\ run.pc \in {"node", "route"} /\ run.config \in Configs
         /\ run.source \in {"manual", "zendesk"} /\ run.intent \in Intents,
         run.forced \in BOOLEAN /\ run.frustrated \in BOOLEAN /\ run.draft \in BOOLEAN,
         /\ run.route \in {"", "faq", "technical", "billing"}
         /\ run.approved \in {"yes", "no", "text"} /\ run.words \in Verdicts
         /\ run.revisions \in 0 .. 2 /\ run.human \in 0 .. MaxHumanRevisions,
         run = [status |-> run.status, node |-> run.node, pc |-> run.pc, config |-> run.config,
                source |-> run.source, intent |-> run.intent, forced |-> run.forced,
                frustrated |-> run.frustrated, draft |-> run.draft, route |-> run.route,
                approved |-> run.approved, words |-> run.words, revisions |-> run.revisions,
                human |-> run.human]
  PROVE  run \in Runs
BY DEF Runs

\* A run starts with the fields default_support_state() gives it.
LEMMA TypeInit == Init => TypeOK
<1> SUFFICES ASSUME Init PROVE TypeOK
  OBVIOUS
<1>1. MaxHumanRevisions \in Nat /\ MaxCrashes \in Nat
  BY SupportAssumption
<1>2. hist \in Histories
  <2>1. hist = [risk |-> FALSE, decided |-> FALSE, signed |-> FALSE, praised |-> FALSE,
                refusals |-> 0, sent |-> 0, delivered |-> FALSE]
    BY DEF Init
  <2> QED BY <2>1 DEF Histories
<1>3. run \in Runs
  <2>1. PICK c \in Configs, s \in {"manual", "zendesk"} :
          run = [status |-> "RUNNING", node |-> "knowledge_lookup", pc |-> "node",
                 config |-> c, source |-> s, intent |-> "", forced |-> FALSE,
                 frustrated |-> FALSE, draft |-> FALSE, route |-> "", approved |-> "no",
                 words |-> "absent", revisions |-> 0, human |-> 0]
    BY Zenon DEF Init
  <2>2. "knowledge_lookup" \in Nodes
    BY NodesListed
  <2>3. 0 \in 0 .. 2 /\ 0 \in 0 .. MaxHumanRevisions
    BY <1>1
  <2>4. "" \in Intents /\ "absent" \in Verdicts
    BY DEF Intents, Verdicts
  <2>5. /\ run.status \in {"RUNNING", "PAUSED", "COMPLETED", "FAILED"} /\ run.node \in Nodes
        /\ run.pc \in {"node", "route"} /\ run.config \in Configs
        /\ run.source \in {"manual", "zendesk"} /\ run.intent \in Intents
    BY <2>1, <2>2, <2>4
  <2>6. run.forced \in BOOLEAN /\ run.frustrated \in BOOLEAN /\ run.draft \in BOOLEAN
    BY <2>1
  <2>7. /\ run.route \in {"", "faq", "technical", "billing"}
        /\ run.approved \in {"yes", "no", "text"} /\ run.words \in Verdicts
        /\ run.revisions \in 0 .. 2 /\ run.human \in 0 .. MaxHumanRevisions
    BY <2>1, <2>3, <2>4
  <2>8. run = [status |-> run.status, node |-> run.node, pc |-> run.pc, config |-> run.config,
               source |-> run.source, intent |-> run.intent, forced |-> run.forced,
               frustrated |-> run.frustrated, draft |-> run.draft, route |-> run.route,
               approved |-> run.approved, words |-> run.words, revisions |-> run.revisions,
               human |-> run.human]
    BY <2>1
  <2> QED BY <2>5, <2>6, <2>7, <2>8, RunByFields, Zenon
<1>4. crashes \in 0 .. MaxCrashes
  <2>1. crashes = 0
    BY DEF Init
  <2> QED BY <1>1, <2>1
<1> QED
  BY <1>2, <1>3, <1>4 DEF TypeOK

\* A result, a move and a pause keep the fields of the record.
LEMMA Kept ==
  ASSUME run \in Runs, NEW n \in Nodes
  PROVE  /\ Result \in Runs
         /\ Move(n) \in Runs
         /\ [Move(n) EXCEPT !.status = "RUNNING"] \in Runs
         /\ [Move(n) EXCEPT !.status = "PAUSED"] \in Runs
BY DEF Result, Move, Runs

\* Every node, edge, decision and crash keeps the types.
LEMMA TypeNext == TypeOK /\ [Next]_vars => TypeOK'
<1> SUFFICES ASSUME TypeOK, [Next]_vars PROVE TypeOK'
  OBVIOUS
<1>1. CASE KnowledgeLookup
  BY <1>1, Kept, NodesListed DEF TypeOK, KnowledgeLookup
<1>2. CASE NodeFails
  BY <1>2 DEF TypeOK, NodeFails, Runs
<1>3. ASSUME NEW intent \in Intents, NEW escalate \in BOOLEAN, NEW own \in BOOLEAN,
             Frontline(intent, escalate, own)
      PROVE  TypeOK'
  <2>1. run' \in Runs
    BY <1>3 DEF TypeOK, Frontline, Result, Runs
  <2>2. hist' \in Histories
    BY <1>3 DEF TypeOK, Frontline, Histories
  <2> QED BY <1>3, <2>1, <2>2 DEF TypeOK, Frontline
<1>4. ASSUME NEW frustrated \in BOOLEAN, NEW escalate \in BOOLEAN, Sentiment(frustrated, escalate)
      PROVE  TypeOK'
  <2>1. run' \in Runs
    BY <1>4 DEF TypeOK, Sentiment, Result, Runs
  <2>2. hist' \in Histories
    BY <1>4 DEF TypeOK, Sentiment, Histories
  <2> QED BY <1>4, <2>1, <2>2 DEF TypeOK, Sentiment
<1>5. ASSUME NEW own \in BOOLEAN, Specialist(own)
      PROVE  TypeOK'
  <2>1. RouteTaken[run.node] \in {"", "faq", "technical", "billing"}
    BY <1>5, Tables DEF Specialist
  <2>2. run' \in Runs
    BY <1>5, <2>1 DEF TypeOK, Specialist, Result, Runs
  <2>3. hist' \in Histories
    BY <1>5 DEF TypeOK, Specialist, Histories
  <2> QED BY <1>5, <2>2, <2>3 DEF TypeOK, Specialist
<1>6. ASSUME NEW accepted \in BOOLEAN, Deliver(accepted)
      PROVE  TypeOK'
  <2>1. run' \in Runs
    BY <1>6, Kept, NodesListed DEF TypeOK, Deliver
  <2>2. hist' \in Histories
    <3>1. hist.sent + 1 \in Nat
      BY DEF TypeOK, Histories
    <3>2. (IF Outbound /\ accepted THEN hist.sent + 1 ELSE hist.sent) \in Nat
      BY <3>1 DEF TypeOK, Histories
    <3> QED BY <1>6, <3>2 DEF TypeOK, Deliver, Histories
  <2> QED BY <1>6, <2>1, <2>2 DEF TypeOK, Deliver
<1>7. ASSUME NEW verdict \in Verdicts, Criticise(verdict)
      PROVE  TypeOK'
  <2>1. run' \in Runs
    BY <1>7, UpToTwo DEF TypeOK, Criticise, Judge, Result, Runs, Verdicts
  <2>2. hist' \in Histories
    BY <1>7, UpToTwo DEF TypeOK, Criticise, Histories
  <2> QED BY <1>7, <2>1, <2>2 DEF TypeOK, Criticise
<1>8. CASE RouteStep
  <2>1. run.node \in DOMAIN Static => Static[run.node] \in Nodes
    BY StaticEdges, NodesListed
  <2>2. "human_escalate" \in Nodes /\ "deliver" \in Nodes /\ Specialists \subseteq Nodes
    BY Tables, NodesListed
  <2>3. ASSUME NEW n \in Nodes, Go(n) PROVE TypeOK'
    BY <2>3, Kept DEF TypeOK, Go
  <2>4. CASE Pause
    BY <2>2, <2>4, Kept DEF TypeOK, Pause
  <2>5. CASE FollowEdge BY <2>1, <2>3, <2>5 DEF FollowEdge
  <2>6. CASE Escalate BY <2>4, <2>6 DEF Escalate
  <2>7. CASE ToSpecialist BY <2>2, <2>3, <2>7, Tables DEF ToSpecialist
  <2>8. CASE ForcedReview BY <2>4, <2>8 DEF ForcedReview
  <2>9. CASE Approved BY <2>2, <2>3, <2>9 DEF Approved
  <2>10. CASE AutoRevise BY <2>2, <2>3, <2>10, Tables DEF AutoRevise, RouteRevision
  <2>11. CASE EscalateUnknown BY <2>4, <2>11 DEF EscalateUnknown
  <2>12. CASE Complete BY <2>12 DEF TypeOK, Complete, Runs
  <2> QED
    BY <1>8, <2>5, <2>6, <2>7, <2>8, <2>9, <2>10, <2>11, <2>12 DEF RouteStep
<1>9. CASE Approve
  <2>1. hist' \in Histories
    BY <1>9 DEF TypeOK, Approve, Histories
  <2> QED BY <1>9, <2>1, Kept, NodesListed DEF TypeOK, Approve
<1>10. CASE Reject
  BY <1>10 DEF TypeOK, Reject, Runs
<1>11. CASE Revise
  <2>1. ReviseTarget \in Nodes
    BY Tables, NodesListed DEF ReviseTarget
  <2>2. run' \in Runs
    <3>1. run.human + 1 \in 0 .. MaxHumanRevisions
      <4>1. run.human \in 0 .. MaxHumanRevisions /\ run.human < MaxHumanRevisions
        BY <1>11 DEF TypeOK, Revise, Runs
      <4> QED BY <4>1, SupportAssumption
    <3>2. UpTo(run.revisions + 1, 2) \in 0 .. 2
      BY UpToTwo DEF TypeOK, Runs
    <3>3. Move(ReviseTarget) \in Runs
      BY <2>1, Kept DEF TypeOK
    <3>4. /\ Move(ReviseTarget).human = run.human
          /\ Move(ReviseTarget).revisions = run.revisions
      BY DEF TypeOK, Move, Runs
    <3> QED BY <1>11, <3>1, <3>2, <3>3, <3>4 DEF Revise, Runs
  <2>3. hist' \in Histories
    BY <1>11, UpToTwo DEF TypeOK, Revise, Histories
  <2> QED BY <1>11, <2>2, <2>3 DEF TypeOK, Revise
<1>12. CASE CrashResume
  <2>1. run' \in Runs
    BY <1>12 DEF TypeOK, CrashResume, Runs
  <2> QED BY <1>12, <2>1, SupportAssumption DEF TypeOK, CrashResume
<1>13. CASE UNCHANGED vars
  BY <1>13 DEF TypeOK, vars
<1> QED
  BY <1>1, <1>2, <1>3, <1>4, <1>5, <1>6, <1>7, <1>8, <1>9, <1>10, <1>11, <1>12, <1>13
  DEF Next, NodeStep

\* The run, its history and the crashes keep their types in every behaviour: no answer of an
\* agent and no decision leaves a field with a value the conditions do not expect.
THEOREM TypeCorrect == Spec => []TypeOK
BY TypeInit, TypeNext, PTL DEF Spec

-----------------------------------------------------------------------------
(* The invariants the properties follow from, each kept on its own.        *)

Early == {"knowledge_lookup", "frontline", "sentiment"}

\* Where a run is: a PAUSED one waits at human_escalate, one with a reply is at deliver.
Placed ==
  /\ run.status = "PAUSED" => run.node = "human_escalate"
  /\ hist.delivered => run.node = "deliver"

\* Past the escalation: a wish to escalate stays in the state, and from the specialists on
\* it is a human who let the ticket through; at deliver the forced review is signed.
Gated ==
  /\ hist.risk => run.forced
  /\ run.node \in Specialists \cup {"quality_critic", "deliver"} =>
       (run.forced \/ run.frustrated => hist.decided)
  /\ run.node = "deliver" /\ run.config.force => hist.signed

\* The critic's verdict and the counter tell what happened to the present draft.
Judged ==
  /\ run.revisions = hist.refusals
  /\ Approves(run) => hist.praised
  /\ run.node \in Early \cup Specialists => ~Approves(run)
  /\ run.node = "deliver" => hist.signed \/ hist.praised \/ hist.refusals >= 2

\* Who wrote the draft: without an intent it can only have been the FAQ agent.
Assigned ==
  /\ run.node \in Early => run.route = ""
  /\ run.intent = "" => run.route \in {"", "faq"}
  /\ RightSpecialist

\* Every reply but the one of the present execution of deliver is paid for by a crash.
Counted ==
  hist.sent =< crashes + IF run.node = "deliver" /\ run.pc = "route" THEN 1 ELSE 0

\* What a move, a pause and a result do to the fields.
LEMMA Fields ==
  ASSUME run \in Runs, NEW n
  PROVE  /\ LET r == Move(n)
            IN  /\ r.node = n /\ r.pc = "node" /\ r.status = run.status
                /\ r.config = run.config /\ r.intent = run.intent /\ r.route = run.route
                /\ r.forced = run.forced /\ r.frustrated = run.frustrated
                /\ r.approved = run.approved /\ r.words = run.words
                /\ r.revisions = run.revisions /\ r.human = run.human
         /\ LET r == [Move(n) EXCEPT !.status = "PAUSED"]
            IN  /\ r.node = n /\ r.pc = "node" /\ r.status = "PAUSED"
                /\ r.config = run.config /\ r.intent = run.intent /\ r.route = run.route
                /\ r.forced = run.forced /\ r.frustrated = run.frustrated
                /\ r.approved = run.approved /\ r.words = run.words
                /\ r.revisions = run.revisions /\ r.human = run.human
BY DEF Move, Runs

\* A step of the edges leaves the history alone and moves, pauses or completes.
LEMMA Routes ==
  ASSUME run \in Runs, RouteStep
  PROVE  /\ UNCHANGED <<hist, crashes>>
         /\ run.status = "RUNNING" /\ run.pc = "route"
         /\ \/ FollowEdge \/ ToSpecialist \/ Approved \/ AutoRevise \/ Complete
            \/ Pause /\ run.node \in {"sentiment", "quality_critic"}
BY DEF RouteStep, FollowEdge, Escalate, ToSpecialist, ForcedReview, Approved, AutoRevise,
       EscalateUnknown, Complete, AtEdge, Go, Pause

\* The edges read the state of the agents and write none of it.
LEMMA Carried ==
  ASSUME run \in Runs, RouteStep
  PROVE  run'.intent = run.intent /\ run'.route = run.route /\ run'.human = run.human
<1>1. CASE run' = [run EXCEPT !.status = "COMPLETED"]
  BY <1>1 DEF Runs
<1>2. CASE Pause
  BY <1>2, Fields DEF Pause
<1>3. ASSUME NEW n, Go(n)
      PROVE  run'.intent = run.intent /\ run'.route = run.route /\ run'.human = run.human
  BY <1>3, Fields DEF Go
<1> QED
  BY <1>1, <1>2, <1>3, Routes DEF FollowEdge, ToSpecialist, Approved, AutoRevise, Complete

\* The specialist a revision goes to.
LEMMA Targets ==
  /\ run.intent \in {"faq", "technical", "billing"} => ReviseTarget = SpecialistOf[run.intent]
  /\ run.intent = "" /\ run.route \in {"", "faq"} => ReviseTarget = "faq_agent"
  /\ run.intent \notin {"", "faq", "technical", "billing"} => ReviseTarget = "faq_agent"
BY Tables DEF ReviseTarget

\* Only human_escalate pauses, and after the reply the run never leaves deliver.
LEMMA PlacedNext == TypeOK /\ Placed /\ [Next]_vars => Placed'
<1> SUFFICES ASSUME TypeOK, Placed, [Next]_vars PROVE Placed'
  OBVIOUS
<1> run \in Runs
  BY DEF TypeOK
<1>1. CASE KnowledgeLookup
  BY <1>1 DEF KnowledgeLookup, At, Result, Placed, Runs
<1>2. CASE NodeFails
  BY <1>2 DEF NodeFails, At, Placed, Runs
<1>3. ASSUME NEW intent \in Intents, NEW escalate \in BOOLEAN, NEW own \in BOOLEAN,
             Frontline(intent, escalate, own)
      PROVE  Placed'
  BY <1>3 DEF Frontline, At, Result, Placed, Runs, TypeOK, Histories
<1>4. ASSUME NEW frustrated \in BOOLEAN, NEW escalate \in BOOLEAN, Sentiment(frustrated, escalate)
      PROVE  Placed'
  BY <1>4 DEF Sentiment, At, Result, Placed, Runs, TypeOK, Histories
<1>5. ASSUME NEW own \in BOOLEAN, Specialist(own)
      PROVE  Placed'
  BY <1>5, Tables DEF Specialist, At, Result, Placed, Runs, TypeOK, Histories
<1>6. ASSUME NEW accepted \in BOOLEAN, Deliver(accepted)
      PROVE  Placed'
  BY <1>6 DEF Deliver, At, Result, Placed, Runs
<1>7. ASSUME NEW verdict \in Verdicts, Criticise(verdict)
      PROVE  Placed'
  BY <1>7 DEF Criticise, Judge, At, Result, Placed, Runs, TypeOK, Histories
<1>8. CASE RouteStep
  <2>1. CASE Pause /\ run.node \in {"sentiment", "quality_critic"}
    BY <1>8, <2>1, Routes, Fields DEF Pause, Placed
  <2>2. CASE FollowEdge
    BY <1>8, <2>2, Routes, Fields, StaticEdges, Tables DEF FollowEdge, Go, AtEdge, Placed
  <2>3. CASE ToSpecialist
    BY <1>8, <2>3, Routes, Fields DEF ToSpecialist, Go, AtEdge, Placed
  <2>4. CASE Approved
    BY <1>8, <2>4, Routes, Fields DEF Approved, Go, AtEdge, Placed
  <2>5. CASE AutoRevise
    BY <1>8, <2>5, Routes, Fields DEF AutoRevise, Go, AtEdge, Placed
  <2>6. CASE Complete
    BY <2>6 DEF Complete, AtEdge, Placed, Runs
  <2> QED BY <1>8, <2>1, <2>2, <2>3, <2>4, <2>5, <2>6, Routes
<1>9. CASE Approve
  BY <1>9 DEF Approve, Move, Placed, Runs
<1>10. CASE Reject
  BY <1>10 DEF Reject, Placed, Runs
<1>11. CASE Revise
  <2>1. hist'.delivered = hist.delivered
    BY <1>11 DEF Revise, TypeOK, Histories
  <2>2. ~hist.delivered
    BY <1>11 DEF Revise, Placed
  <2>3. run'.status = "RUNNING"
    BY <1>11, Kept DEF Revise, Move, Runs
  <2> QED BY <2>1, <2>2, <2>3 DEF Placed
<1>12. CASE CrashResume
  BY <1>12 DEF CrashResume, Placed, Runs
<1>13. CASE UNCHANGED vars
  BY <1>13 DEF Placed, vars
<1> QED
  BY <1>1, <1>2, <1>3, <1>4, <1>5, <1>6, <1>7, <1>8, <1>9, <1>10, <1>11, <1>12, <1>13
  DEF Next, NodeStep


\* A node before the gate never gets past it without a human, and each new draft needs its
\* own signature.
LEMMA GatedNext == TypeOK /\ Gated /\ [Next]_vars => Gated'
<1> SUFFICES ASSUME TypeOK, Gated, [Next]_vars PROVE Gated'
  OBVIOUS
<1> run \in Runs /\ hist \in Histories
  BY DEF TypeOK
<1>1. CASE KnowledgeLookup
  BY <1>1, Tables DEF KnowledgeLookup, At, Result, Gated, Runs, Histories
<1>2. CASE NodeFails
  BY <1>2 DEF NodeFails, At, Gated, Runs, Histories
<1>3. ASSUME NEW intent \in Intents, NEW escalate \in BOOLEAN, NEW own \in BOOLEAN,
             Frontline(intent, escalate, own)
      PROVE  Gated'
  BY <1>3, Tables DEF Frontline, At, Result, Gated, Runs, Histories
<1>4. ASSUME NEW frustrated \in BOOLEAN, NEW escalate \in BOOLEAN,
             Sentiment(frustrated, escalate)
      PROVE  Gated'
  BY <1>4, Tables DEF Sentiment, At, Result, Gated, Runs, Histories
<1>5. ASSUME NEW own \in BOOLEAN, Specialist(own)
      PROVE  Gated'
  BY <1>5, Tables DEF Specialist, At, Result, Gated, Runs, Histories
<1>6. ASSUME NEW accepted \in BOOLEAN, Deliver(accepted)
      PROVE  Gated'
  BY <1>6 DEF Deliver, At, Result, Gated, Runs, Histories
<1>7. ASSUME NEW verdict \in Verdicts, Criticise(verdict)
      PROVE  Gated'
  BY <1>7, Tables DEF Criticise, Judge, At, Result, Gated, Runs, Histories
<1>8. CASE RouteStep
  <2>1. CASE Pause /\ run.node \in {"sentiment", "quality_critic"}
    BY <1>8, <2>1, Routes, Fields, Tables DEF Pause, Gated
  <2>2. CASE FollowEdge
    BY <1>8, <2>2, Routes, Fields, StaticEdges, Tables DEF FollowEdge, Go, AtEdge, Gated
  <2>3. CASE ToSpecialist
    BY <1>8, <2>3, Routes, Fields, Tables DEF ToSpecialist, Go, AtEdge, NeedsEscalation, Gated
  <2>4. CASE Approved
    BY <1>8, <2>4, Routes, Fields, Tables DEF Approved, Go, AtEdge, ForceHumanPause, Gated
  <2>5. CASE AutoRevise
    BY <1>8, <2>5, Routes, Fields, Tables DEF AutoRevise, RouteRevision, Go, AtEdge, Gated
  <2>6. CASE Complete
    BY <1>8, <2>6, Routes, Fields DEF Complete, AtEdge, Runs, Gated
  <2> QED BY <1>8, <2>1, <2>2, <2>3, <2>4, <2>5, <2>6, Routes
<1>9. CASE Approve
  BY <1>9, Tables DEF Approve, Move, Gated, Runs, Histories
<1>10. CASE Reject
  BY <1>10 DEF Reject, Gated, Runs, Histories
<1>11. CASE Revise
  BY <1>11, Tables DEF Revise, ReviseTarget, Move, Gated, Runs, Histories
<1>12. CASE CrashResume
  BY <1>12 DEF CrashResume, Gated, Runs, Histories
<1>13. CASE UNCHANGED vars
  BY <1>13 DEF Gated, vars
<1> QED
  BY <1>1, <1>2, <1>3, <1>4, <1>5, <1>6, <1>7, <1>8, <1>9, <1>10, <1>11, <1>12, <1>13
  DEF Next, NodeStep

\* The critic and the human are the only ones to count a refusal, and a new draft starts
\* with no approval: it is written after a refusal, or the human's Revise has cleared it.
LEMMA JudgedNext == TypeOK /\ Judged /\ [Next]_vars => Judged'
<1> SUFFICES ASSUME TypeOK, Judged, [Next]_vars PROVE Judged'
  OBVIOUS
<1> run \in Runs /\ hist \in Histories
  BY DEF TypeOK
<1>1. CASE KnowledgeLookup
  BY <1>1, Tables DEF KnowledgeLookup, At, Result, Judged, Approves, Early, UpTo, Runs, Histories
<1>2. CASE NodeFails
  BY <1>2 DEF NodeFails, At, Judged, Approves, Early, UpTo, Runs, Histories
<1>3. ASSUME NEW intent \in Intents, NEW escalate \in BOOLEAN, NEW own \in BOOLEAN,
             Frontline(intent, escalate, own)
      PROVE  Judged'
  BY <1>3, Tables DEF Frontline, At, Result, Judged, Approves, Early, UpTo, Runs, Histories
<1>4. ASSUME NEW frustrated \in BOOLEAN, NEW escalate \in BOOLEAN,
             Sentiment(frustrated, escalate)
      PROVE  Judged'
  BY <1>4, Tables DEF Sentiment, At, Result, Judged, Approves, Early, UpTo, Runs, Histories
<1>5. ASSUME NEW own \in BOOLEAN, Specialist(own)
      PROVE  Judged'
  BY <1>5, Tables DEF Specialist, At, Result, Judged, Approves, Early, UpTo, Runs, Histories
<1>6. ASSUME NEW accepted \in BOOLEAN, Deliver(accepted)
      PROVE  Judged'
  BY <1>6 DEF Deliver, At, Result, Judged, Approves, Early, UpTo, Runs, Histories
<1>7. ASSUME NEW verdict \in Verdicts, Criticise(verdict)
      PROVE  Judged'
  BY <1>7, Tables DEF Criticise, Judge, At, Result, Judged, Approves, Early, UpTo, Runs, Histories
<1>8. CASE RouteStep
  <2>1. CASE Pause /\ run.node \in {"sentiment", "quality_critic"}
    BY <1>8, <2>1, Routes, Fields, Tables DEF Pause, Judged, Approves, Early, UpTo
  <2>2. CASE FollowEdge
    BY <1>8, <2>2, Routes, Fields, StaticEdges, Tables
    DEF FollowEdge, Go, AtEdge, Judged, Approves, Early, UpTo
  <2>3. CASE ToSpecialist
    BY <1>8, <2>3, Routes, Fields, Tables
    DEF ToSpecialist, Go, AtEdge, Judged, Approves, Early, UpTo
  <2>4. CASE Approved
    BY <1>8, <2>4, Routes, Fields, Tables
    DEF Approved, Go, AtEdge, CriticOk, Judged, Approves, Early, UpTo
  <2>5. CASE AutoRevise
    BY <1>8, <2>5, Routes, Fields, Tables
    DEF AutoRevise, RouteRevision, Go, AtEdge, CriticOk, Judged, Approves, Early, UpTo
  <2>6. CASE Complete
    BY <1>8, <2>6, Routes, Fields DEF Complete, AtEdge, Runs, Judged, Approves, Early, UpTo
  <2> QED BY <1>8, <2>1, <2>2, <2>3, <2>4, <2>5, <2>6, Routes
<1>9. CASE Approve
  BY <1>9, Tables DEF Approve, Move, Judged, Approves, Early, UpTo, Runs, Histories
<1>10. CASE Reject
  BY <1>10 DEF Reject, Judged, Approves, Early, UpTo, Runs, Histories
<1>11. CASE Revise
  BY <1>11, Tables DEF Revise, ReviseTarget, Move, Judged, Approves, Early, UpTo, Runs, Histories
<1>12. CASE CrashResume
  BY <1>12 DEF CrashResume, Judged, Approves, Early, UpTo, Runs, Histories
<1>13. CASE UNCHANGED vars
  BY <1>13 DEF Judged, Approves, Early, UpTo, vars
<1> QED
  BY <1>1, <1>2, <1>3, <1>4, <1>5, <1>6, <1>7, <1>8, <1>9, <1>10, <1>11, <1>12, <1>13
  DEF Next, NodeStep

\* First round, revision by the critic and revision by the human: the three ways to a
\* specialist.
LEMMA AssignedNext == TypeOK /\ Assigned /\ [Next]_vars => Assigned'
<1> SUFFICES ASSUME TypeOK, Assigned, [Next]_vars PROVE Assigned'
  OBVIOUS
<1> run \in Runs /\ hist \in Histories
  BY DEF TypeOK
<1>1. CASE KnowledgeLookup
  BY <1>1, Tables DEF KnowledgeLookup, At, Result, Assigned, RightSpecialist, Early, Runs, Histories
<1>2. CASE NodeFails
  BY <1>2 DEF NodeFails, At, Assigned, RightSpecialist, Early, Runs, Histories
<1>3. ASSUME NEW intent \in Intents, NEW escalate \in BOOLEAN, NEW own \in BOOLEAN,
             Frontline(intent, escalate, own)
      PROVE  Assigned'
  BY <1>3, Tables DEF Frontline, At, Result, Assigned, RightSpecialist, Early, Runs, Histories
<1>4. ASSUME NEW frustrated \in BOOLEAN, NEW escalate \in BOOLEAN,
             Sentiment(frustrated, escalate)
      PROVE  Assigned'
  BY <1>4, Tables DEF Sentiment, At, Result, Assigned, RightSpecialist, Early, Runs, Histories
<1>5. ASSUME NEW own \in BOOLEAN, Specialist(own)
      PROVE  Assigned'
  BY <1>5, Tables DEF Specialist, At, Result, Assigned, RightSpecialist, Early, Runs, Histories
<1>6. ASSUME NEW accepted \in BOOLEAN, Deliver(accepted)
      PROVE  Assigned'
  BY <1>6 DEF Deliver, At, Result, Assigned, RightSpecialist, Early, Runs, Histories
<1>7. ASSUME NEW verdict \in Verdicts, Criticise(verdict)
      PROVE  Assigned'
  BY <1>7, Tables
  DEF Criticise, Judge, At, Result, Assigned, RightSpecialist, Early, Runs, Histories
<1>8. CASE RouteStep
  <2> USE <1>8, Carried
  <2>1. CASE run'.node \notin Early \cup Specialists
    BY <2>1 DEF Assigned, RightSpecialist
  <2>2. CASE Pause
    BY <2>1, <2>2, Tables, Fields DEF Pause, Early
  <2>3. CASE FollowEdge
    <3>1. run'.node = Static[run.node]
      BY <2>3, Fields DEF FollowEdge, Go
    <3>2. CASE run.node \in {"knowledge_lookup", "frontline"}
      BY <2>3, <3>1, <3>2, StaticEdges, Tables DEF Assigned, RightSpecialist, Early
    <3>3. CASE run.node \in Specialists
      BY <2>1, <2>3, <3>1, <3>3, StaticEdges, Tables DEF Early
    <3> QED BY <2>3, <3>2, <3>3, StaticEdges DEF FollowEdge
  <2>4. CASE ToSpecialist
    <3>1. run'.node = IF run.intent \in DOMAIN SpecialistOf THEN SpecialistOf[run.intent]
                      ELSE "faq_agent"
      BY <2>4, Fields DEF ToSpecialist, Go
    <3>2. run'.node \in Specialists
      BY <3>1, Tables
    <3> QED BY <3>1, <3>2, Tables DEF Assigned, RightSpecialist, Early
  <2>5. CASE Approved
    BY <2>1, <2>5, Fields, Tables DEF Approved, Go, Early
  <2>6. CASE AutoRevise
    <3>1. /\ run.intent \in DOMAIN SpecialistOf
          /\ run'.node = SpecialistOf[run.intent]
      BY <2>6, Fields DEF AutoRevise, RouteRevision, Go
    <3>2. run'.node \in Specialists
      BY <3>1, Tables
    <3> QED BY <3>1, <3>2, Tables DEF Assigned, RightSpecialist, Early
  <2>7. CASE Complete
    BY <2>1, <2>7, Tables DEF Complete, AtEdge, Early, Runs
  <2> QED BY <2>2, <2>3, <2>4, <2>5, <2>6, <2>7, Routes
<1>9. CASE Approve
  BY <1>9, Tables DEF Approve, Move, Assigned, RightSpecialist, Early, Runs, Histories
<1>10. CASE Reject
  BY <1>10 DEF Reject, Assigned, RightSpecialist, Early, Runs, Histories
<1>11. CASE Revise
  <2>1. /\ run'.intent = run.intent /\ run'.route = run.route
        /\ run'.node = ReviseTarget /\ run'.human = run.human + 1
    BY <1>11 DEF Revise, Move, Runs
  <2>2. run'.human > 0
    <3>1. run.human \in 0 .. MaxHumanRevisions
      BY DEF Runs
    <3> QED BY <2>1, <3>1, SupportAssumption
  <2>3. ReviseTarget \in Specialists
    BY Tables DEF ReviseTarget
  <2> QED BY <2>1, <2>2, <2>3, Targets, Tables DEF Assigned, RightSpecialist, Early
<1>12. CASE CrashResume
  BY <1>12 DEF CrashResume, Assigned, RightSpecialist, Early, Runs, Histories
<1>13. CASE UNCHANGED vars
  BY <1>13 DEF Assigned, RightSpecialist, Early, vars
<1> QED
  BY <1>1, <1>2, <1>3, <1>4, <1>5, <1>6, <1>7, <1>8, <1>9, <1>10, <1>11, <1>12, <1>13
  DEF Next, NodeStep

\* deliver is executed again only after a crash, and is reached only once otherwise.
LEMMA CountedNext == TypeOK /\ Placed /\ Counted /\ [Next]_vars => Counted'
<1> SUFFICES ASSUME TypeOK, Placed, Counted, [Next]_vars PROVE Counted'
  OBVIOUS
<1> run \in Runs /\ hist \in Histories
  BY DEF TypeOK
<1>1. CASE KnowledgeLookup
  BY <1>1, Tables DEF KnowledgeLookup, At, Result, Counted, TypeOK, Runs, Histories
<1>2. CASE NodeFails
  BY <1>2 DEF NodeFails, At, Counted, TypeOK, Runs, Histories
<1>3. ASSUME NEW intent \in Intents, NEW escalate \in BOOLEAN, NEW own \in BOOLEAN,
             Frontline(intent, escalate, own)
      PROVE  Counted'
  BY <1>3, Tables DEF Frontline, At, Result, Counted, TypeOK, Runs, Histories
<1>4. ASSUME NEW frustrated \in BOOLEAN, NEW escalate \in BOOLEAN,
             Sentiment(frustrated, escalate)
      PROVE  Counted'
  BY <1>4, Tables DEF Sentiment, At, Result, Counted, TypeOK, Runs, Histories
<1>5. ASSUME NEW own \in BOOLEAN, Specialist(own)
      PROVE  Counted'
  BY <1>5, Tables DEF Specialist, At, Result, Counted, TypeOK, Runs, Histories
<1>6. ASSUME NEW accepted \in BOOLEAN, Deliver(accepted)
      PROVE  Counted'
  <2>1. run.pc = "node" /\ run'.node = "deliver" /\ run'.pc = "route"
    BY <1>6 DEF Deliver, At, Result, Runs
  <2>2. hist'.sent = hist.sent \/ hist'.sent = hist.sent + 1
    BY <1>6 DEF Deliver, Histories
  <2>3. hist.sent \in Nat /\ crashes \in Nat /\ crashes' = crashes
    BY <1>6, SupportAssumption DEF Deliver, TypeOK, Histories
  <2>4. hist.sent =< crashes
    BY <2>1, <2>3 DEF Counted
  <2> QED BY <2>1, <2>2, <2>3, <2>4 DEF Counted
<1>7. ASSUME NEW verdict \in Verdicts, Criticise(verdict)
      PROVE  Counted'
  BY <1>7, Tables DEF Criticise, Judge, At, Result, Counted, TypeOK, Runs, Histories
<1>8. CASE RouteStep
  <2>1. CASE Pause /\ run.node \in {"sentiment", "quality_critic"}
    BY <1>8, <2>1, Routes, Fields, Tables DEF Pause, Counted, TypeOK
  <2>2. CASE FollowEdge
    BY <1>8, <2>2, Routes, Fields, StaticEdges, Tables DEF FollowEdge, Go, AtEdge, Counted, TypeOK
  <2>3. CASE ToSpecialist
    BY <1>8, <2>3, Routes, Fields, Tables DEF ToSpecialist, Go, AtEdge, Counted, TypeOK
  <2>4. CASE Approved
    BY <1>8, <2>4, Routes, Fields, Tables DEF Approved, Go, AtEdge, Counted, TypeOK
  <2>5. CASE AutoRevise
    BY <1>8, <2>5, Routes, Fields, Tables DEF AutoRevise, RouteRevision, Go, AtEdge, Counted, TypeOK
  <2>6. CASE Complete
    BY <1>8, <2>6, Routes, Fields DEF Complete, AtEdge, Runs, Counted, TypeOK
  <2> QED BY <1>8, <2>1, <2>2, <2>3, <2>4, <2>5, <2>6, Routes
<1>9. CASE Approve
  <2>1. run.node # "deliver" /\ run'.pc = "node"
    BY <1>9 DEF Approve, Move, Placed, Runs
  <2>2. hist'.sent = hist.sent /\ crashes' = crashes
    BY <1>9 DEF Approve, Histories
  <2> QED BY <2>1, <2>2 DEF Counted
<1>10. CASE Reject
  BY <1>10 DEF Reject, Counted, TypeOK, Runs, Histories
<1>11. CASE Revise
  <2>1. run.node # "deliver" /\ run'.pc = "node"
    BY <1>11 DEF Revise, Move, Placed, Runs
  <2>2. hist'.sent = hist.sent /\ crashes' = crashes
    BY <1>11 DEF Revise, Histories
  <2> QED BY <2>1, <2>2 DEF Counted
<1>12. CASE CrashResume
  <2>1. hist' = hist /\ crashes' = crashes + 1 /\ run'.pc = "node"
    BY <1>12 DEF CrashResume, Runs
  <2>2. hist.sent \in Nat /\ crashes \in Nat
    BY SupportAssumption DEF TypeOK, Histories
  <2> QED BY <2>1, <2>2 DEF Counted
<1>13. CASE UNCHANGED vars
  BY <1>13 DEF Counted, TypeOK, vars
<1> QED
  BY <1>1, <1>2, <1>3, <1>4, <1>5, <1>6, <1>7, <1>8, <1>9, <1>10, <1>11, <1>12, <1>13
  DEF Next, NodeStep

-----------------------------------------------------------------------------
(* The theorems.                                                           *)

\* At the start nothing has been decided, written or sent.
LEMMA Initially == Init => Placed /\ Gated /\ Judged /\ Assigned /\ Counted
<1> SUFFICES ASSUME Init PROVE Placed /\ Gated /\ Judged /\ Assigned /\ Counted
  OBVIOUS
<1>1. PICK c \in Configs, s \in {"manual", "zendesk"} :
        run = [status |-> "RUNNING", node |-> "knowledge_lookup", pc |-> "node",
               config |-> c, source |-> s, intent |-> "", forced |-> FALSE,
               frustrated |-> FALSE, draft |-> FALSE, route |-> "", approved |-> "no",
               words |-> "absent", revisions |-> 0, human |-> 0]
  BY Zenon DEF Init
<1>2. /\ run.status = "RUNNING" /\ run.node = "knowledge_lookup" /\ run.pc = "node"
      /\ run.route = "" /\ run.approved = "no" /\ run.revisions = 0
  BY <1>1
<1>3. /\ hist.risk = FALSE /\ hist.delivered = FALSE
      /\ hist.refusals = 0 /\ hist.sent = 0 /\ crashes = 0
  BY DEF Init
<1>4. run.node \notin Specialists \cup {"quality_critic", "human_escalate", "deliver"}
  BY <1>2, Tables
<1>5. ~Approves(run)
  BY <1>2 DEF Approves
<1>6. Placed
  BY <1>2, <1>3 DEF Placed
<1>7. Gated
  BY <1>3, <1>4 DEF Gated
<1>8. Judged
  BY <1>2, <1>3, <1>4, <1>5 DEF Judged
<1>9. Assigned
  BY <1>2, <1>4 DEF Assigned, RightSpecialist
<1>10. Counted
  <2>1. run.node # "deliver"
    BY <1>2
  <2>2. hist.sent = 0 /\ crashes = 0
    BY <1>3
  <2> QED BY <2>1, <2>2 DEF Counted
<1> QED
  BY <1>6, <1>7, <1>8, <1>9, <1>10

\* The five parts hold together in every behaviour; each property below follows from one
\* or two of them.
THEOREM Invariants == Spec => [](TypeOK /\ Placed /\ Gated /\ Judged /\ Assigned /\ Counted)
BY TypeInit, TypeNext, Initially, PlacedNext, GatedNext, JudgedNext, AssignedNext, CountedNext,
   PTL DEF Spec

\* No reply goes out to a customer somebody wished to escalate, or who was last found
\* frustrated, before a human has decided: deliver is past the escalation.
THEOREM Escalated == Spec => []EscalationReachesHuman
<1>1. TypeOK /\ Placed /\ Gated => EscalationReachesHuman
  BY DEF Placed, Gated, EscalationReachesHuman
<1> QED BY <1>1, Invariants, PTL

\* With force_human_review only a draft a human has signed goes out.
THEOREM Signed == Spec => []ForcedReviewIsSigned
<1>1. Placed /\ Gated => ForcedReviewIsSigned
  BY DEF Placed, Gated, ForcedReviewIsSigned
<1> QED BY <1>1, Invariants, PTL

\* A draft nobody has approved goes out only after two refusals.
THEOREM Unapproved == Spec => []UnapprovedAfterTwoRefusals
<1>1. Placed /\ Judged => UnapprovedAfterTwoRefusals
  BY DEF Placed, Judged, UnapprovedAfterTwoRefusals
<1> QED BY <1>1, Invariants, PTL

\* The specialist at work is the one for the intent, or the FAQ agent where the code says so.
THEOREM Specialised == Spec => []RightSpecialist
<1>1. Assigned => RightSpecialist
  BY DEF Assigned
<1> QED BY <1>1, Invariants, PTL

\* The customer gets at most one reply more than the process crashes.
THEOREM AnsweredOnce == Spec => []AnsweredOncePerCrash
<1>1. TypeOK /\ Counted => AnsweredOncePerCrash
  BY SupportAssumption DEF TypeOK, Histories, Counted, AnsweredOncePerCrash
<1> QED BY <1>1, Invariants, PTL
=============================================================================
