-------------------------- MODULE SupportPipeline --------------------------
(***************************************************************************)
(* A support ticket from the frontline to the reply: the graph of          *)
(* examples/support_resolution_pipeline.py, with what nodes/llm_agent_node *)
(* makes of the agents' answers and the human's decisions of core/runner.  *)
(* As in ResearchPipeline a node succeeds or fails as a whole, and a crash *)
(* falls between a node's saved result and the move to the next node.      *)
(***************************************************************************)
EXTENDS Naturals

CONSTANTS
  Configs,            \* the settings of a run: debate_loop and force_human_review
  MaxHumanRevisions,  \* 5 in the code
  MaxCrashes          \* bound on the crashes explored

ASSUME SupportAssumption ==
  /\ Configs \subseteq [debate : BOOLEAN, force : BOOLEAN]
  /\ MaxHumanRevisions \in Nat /\ MaxCrashes \in Nat

VARIABLES
  run,       \* the record of the run
  hist,      \* what happened, for the properties only
  crashes

vars == <<run, hist, crashes>>

\* The intents an agent may name, one or two for each list of the code; "" is none at all.
SpecialistOf ==
  [faq |-> "faq_agent", account |-> "faq_agent", technical |-> "technical_agent",
   bug |-> "technical_agent", billing |-> "billing_agent"]
Intents == DOMAIN SpecialistOf \cup {"", "complaint"}

RouteTaken ==
  [faq_agent |-> "faq", technical_agent |-> "technical", billing_agent |-> "billing"]
Specialists == DOMAIN RouteTaken

Static ==
  [n \in Specialists \cup {"knowledge_lookup", "frontline"} |->
     CASE n = "knowledge_lookup" -> "frontline"
       [] n = "frontline"        -> "sentiment"
       [] OTHER                  -> "quality_critic"]

Init ==
  /\ \E config \in Configs, source \in {"manual", "zendesk"} :
       run = [status |-> "RUNNING", node |-> "knowledge_lookup", pc |-> "node",
              config |-> config, source |-> source, intent |-> "", forced |-> FALSE,
              frustrated |-> FALSE, draft |-> FALSE, route |-> "", approved |-> "no",
              words |-> "absent", revisions |-> 0, human |-> 0]
  /\ hist = [risk |-> FALSE, decided |-> FALSE, signed |-> FALSE, praised |-> FALSE,
             refusals |-> 0, sent |-> 0, delivered |-> FALSE]
  /\ crashes = 0

At(node) == run.status = "RUNNING" /\ run.pc = "node" /\ run.node = node
Result == [run EXCEPT !.pc = "route"]
UpTo(n, bound) == IF n > bound THEN bound ELSE n

-----------------------------------------------------------------------------
(* The agents: what a node leaves in the state the conditions read.  An    *)
(* agent answers with the keys its prompt asks for, or leaves some out.    *)

KnowledgeLookup ==
  /\ At("knowledge_lookup")
  /\ run' = Result
  /\ UNCHANGED <<hist, crashes>>

\* An answer without an intent leaves the "" of the start; own is a preliminary reply.
Frontline(intent, escalate, own) ==
  /\ At("frontline")
  /\ run' = [Result EXCEPT !.intent = IF intent = "" THEN @ ELSE intent,
                           !.forced = @ \/ escalate, !.draft = @ \/ own]
  /\ hist' = [hist EXCEPT !.risk = @ \/ escalate]
  /\ UNCHANGED crashes

\* frustrated stands for an urgency of high or critical as well.
Sentiment(frustrated, escalate) ==
  /\ At("sentiment")
  /\ run' = [Result EXCEPT !.frustrated = frustrated, !.forced = @ \/ escalate]
  /\ hist' = [hist EXCEPT !.risk = @ \/ escalate]
  /\ UNCHANGED crashes

\* A specialist's answer without a draft leaves the earlier one in place.
Specialist(own) ==
  /\ run.node \in Specialists
  /\ At(run.node)
  /\ run' = [Result EXCEPT !.draft = @ \/ own, !.route = RouteTaken[run.node]]
  /\ hist' = [hist EXCEPT !.signed = FALSE, !.praised = FALSE]
  /\ UNCHANGED crashes

\* Mutant: the rejections are not counted.
JudgeUncounted(r, verdict) ==
  [r EXCEPT !.words = verdict, !.approved = IF verdict = "absent" THEN @ ELSE verdict]

\* A verdict is a Boolean, left out, or some text; any text counts as an approval.
Judge(r, verdict) ==
  [r EXCEPT !.words = verdict, !.approved = IF verdict = "absent" THEN @ ELSE verdict,
            !.revisions = IF verdict \in {"yes", "text"} THEN @ ELSE UpTo(@ + 1, 2)]

Criticise(verdict) ==
  /\ At("quality_critic")
  /\ run' = Judge(Result, verdict)
  /\ hist' = [hist EXCEPT !.praised = @ \/ verdict \in {"yes", "text"},
                          !.refusals = IF verdict \in {"yes", "text"} THEN @
                                       ELSE UpTo(@ + 1, 2)]
  /\ UNCHANGED crashes

Outbound == run.source = "zendesk" /\ run.draft

\* Mutant: an outbound failure after the comment was posted fails the node, which is retried.
DeliverAndRetry(accepted) ==
  /\ At("deliver")
  /\ \E again \in BOOLEAN : run' = IF again /\ hist.sent < 3 THEN run ELSE Result
  /\ hist' = [hist EXCEPT !.delivered = TRUE,
                          !.sent = IF Outbound /\ accepted THEN @ + 1 ELSE @]
  /\ UNCHANGED crashes

\* Zendesk may refuse the reply: the node succeeds all the same.
Deliver(accepted) ==
  /\ At("deliver")
  /\ run' = Result
  /\ hist' = [hist EXCEPT !.delivered = TRUE,
                          !.sent = IF Outbound /\ accepted THEN @ + 1 ELSE @]
  /\ UNCHANGED crashes

NodeFails ==
  /\ At(run.node)
  /\ run' = [run EXCEPT !.status = "FAILED"]
  /\ UNCHANGED <<hist, crashes>>

-----------------------------------------------------------------------------
(* The edges, in the order the graph lists them.                           *)

\* Mutant: only the sentiment is asked.
FrustratedOnly(r) == r.frustrated

NeedsEscalation(r) == r.forced \/ r.frustrated

\* Text is looked up again in the critic's last answer.
Approves(r) == r.approved = "yes" \/ (r.approved = "text" /\ r.words = "text")

\* Mutant: one refusal is enough.
CriticOkAfterOne(r) == r.revisions >= 1 \/ Approves(r)

\* From two revisions on, the critic's or the human's, the critic counts as satisfied.
CriticOk(r) == r.revisions >= 2 \/ Approves(r)

\* Mutant: the human is skipped once the revisions are used up.
PausesUnlessUsedUp(r) == CriticOk(r) /\ r.config.force /\ r.revisions < 2

ForceHumanPause(r) == CriticOk(r) /\ r.config.force

\* Mutant: only the three names of the frontline's prompt are known.
RouteRevisionByName(r) ==
  IF r.config.debate /\ ~CriticOk(r)
  THEN IF r.intent \in {"faq", "technical", "billing"} THEN {SpecialistOf[r.intent]}
       ELSE {"faq_agent"}
  ELSE {}

\* Who revises by itself: nobody without the debate or with an intent in no list.
RouteRevision(r) ==
  IF r.config.debate /\ ~CriticOk(r) /\ r.intent \in DOMAIN SpecialistOf
  THEN {SpecialistOf[r.intent]} ELSE {}

AtEdge(node) == run.status = "RUNNING" /\ run.pc = "route" /\ run.node = node
Move(node) == [run EXCEPT !.node = node, !.pc = "node"]
Go(node) == run' = Move(node) /\ UNCHANGED <<hist, crashes>>
Pause ==
  /\ run' = [Move("human_escalate") EXCEPT !.status = "PAUSED"]
  /\ UNCHANGED <<hist, crashes>>

FollowEdge == run.node \in DOMAIN Static /\ AtEdge(run.node) /\ Go(Static[run.node])

Escalate == AtEdge("sentiment") /\ NeedsEscalation(run) /\ Pause

\* An intent in none of the lists goes to the FAQ agent.
ToSpecialist ==
  /\ AtEdge("sentiment") /\ ~NeedsEscalation(run)
  /\ Go(IF run.intent \in DOMAIN SpecialistOf THEN SpecialistOf[run.intent] ELSE "faq_agent")

ForcedReview == AtEdge("quality_critic") /\ ForceHumanPause(run) /\ Pause

Approved ==
  /\ AtEdge("quality_critic")
  /\ CriticOk(run) /\ ~ForceHumanPause(run)
  /\ Go("deliver")

AutoRevise == AtEdge("quality_critic") /\ \E node \in RouteRevision(run) : Go(node)

EscalateUnknown ==
  AtEdge("quality_critic") /\ ~CriticOk(run) /\ RouteRevision(run) = {} /\ Pause

Complete ==
  /\ AtEdge("deliver")
  /\ run' = [run EXCEPT !.status = "COMPLETED"]
  /\ UNCHANGED <<hist, crashes>>

-----------------------------------------------------------------------------
(* The human's decision, and a crash with a resume by the bare runner.     *)

Approve ==
  /\ run.status = "PAUSED"
  /\ run' = [Move("deliver") EXCEPT !.status = "RUNNING"]
  /\ hist' = [hist EXCEPT !.decided = TRUE, !.signed = TRUE]
  /\ UNCHANGED crashes

Reject ==
  /\ run.status = "PAUSED"
  /\ run' = [run EXCEPT !.status = "FAILED"]
  /\ UNCHANGED <<hist, crashes>>

\* _revise_target() knows the names of the routes and not the lists of intents.
ReviseTarget ==
  LET name == IF run.intent = "" THEN run.route ELSE run.intent
  IN  IF name \in {"faq", "technical", "billing"} THEN SpecialistOf[name] ELSE "faq_agent"

Revise ==
  /\ run.status = "PAUSED"
  /\ run.human < MaxHumanRevisions
  /\ run' = [Move(ReviseTarget) EXCEPT !.status = "RUNNING", !.human = @ + 1,
                                       !.approved = "no", !.revisions = UpTo(@ + 1, 2)]
  /\ hist' = [hist EXCEPT !.decided = TRUE, !.refusals = UpTo(@ + 1, 2)]
  /\ UNCHANGED crashes

\* The current node is executed again, on the state its own result is part of.
CrashResume ==
  /\ crashes < MaxCrashes
  /\ run.status = "RUNNING" /\ run.pc = "route"
  /\ crashes' = crashes + 1
  /\ run' = [run EXCEPT !.pc = "node"]
  /\ UNCHANGED hist

Verdicts == {"yes", "no", "text", "absent"}

NodeStep ==
  \/ KnowledgeLookup \/ NodeFails
  \/ \E escalate, own \in BOOLEAN :
       \/ \E intent \in Intents : Frontline(intent, escalate, own)
       \/ Sentiment(own, escalate)
  \/ \E own \in BOOLEAN : Specialist(own) \/ Deliver(own)
  \/ \E verdict \in Verdicts : Criticise(verdict)

RouteStep ==
  \/ FollowEdge \/ Escalate \/ ToSpecialist \/ ForcedReview \/ Approved \/ AutoRevise
  \/ EscalateUnknown \/ Complete

Next == NodeStep \/ RouteStep \/ Approve \/ Reject \/ Revise \/ CrashResume

Spec == Init /\ [][Next]_vars

\* The engine goes on with a running run.
FairSpec == Spec /\ WF_vars(NodeStep \/ RouteStep)

-----------------------------------------------------------------------------
(* Properties.                                                             *)

\* The types of the run and of its history.
Nodes ==
  DOMAIN Static \cup {"sentiment", "quality_critic", "human_escalate", "deliver"}
Runs ==
  [status : {"RUNNING", "PAUSED", "COMPLETED", "FAILED"}, node : Nodes, pc : {"node", "route"},
   config : Configs, source : {"manual", "zendesk"}, intent : Intents,
   forced : BOOLEAN, frustrated : BOOLEAN, draft : BOOLEAN,
   route : {"", "faq", "technical", "billing"}, approved : {"yes", "no", "text"},
   words : Verdicts, revisions : 0 .. 2, human : 0 .. MaxHumanRevisions]
Histories ==
  [risk : BOOLEAN, decided : BOOLEAN, signed : BOOLEAN, praised : BOOLEAN,
   refusals : 0 .. 2, sent : Nat, delivered : BOOLEAN]

\* The run keeps the fields and values default_support_state() starts it with; the human's
\* revisions stay within their limit.
TypeOK == run \in Runs /\ hist \in Histories /\ crashes \in 0 .. MaxCrashes

\* A customer for whom the frontline or the sentiment agent has ever asked to escalate, or
\* whom the sentiment agent last found frustrated, gets no reply before a human has decided
\* about it.  A human who sends the draft back has decided: the revised draft may go out on
\* the critic's word alone.
EscalationReachesHuman ==
  hist.delivered /\ (hist.risk \/ run.frustrated) => hist.decided

\* With force_human_review no draft goes out that a human has not signed: the draft
\* itself, not an earlier one, and not when the revisions are used up either.
ForcedReviewIsSigned == hist.delivered /\ run.config.force => hist.signed

\* A reply nobody has approved, neither a human nor the critic since it was written, goes
\* out only after two refusals, the critic's and the human's counted together.
UnapprovedAfterTwoRefusals ==
  hist.delivered => hist.signed \/ hist.praised \/ hist.refusals >= 2

\* The specialist at work is the one for the ticket's intent, on the first round and on
\* each revision.  Only a human's revision of an intent outside the three names of
\* _revise_target() brings in the FAQ agent, as does an intent in no list.
RightSpecialist ==
  run.node \in Specialists =>
    \/ /\ run.intent \in DOMAIN SpecialistOf
       /\ run.node = SpecialistOf[run.intent]
    \/ /\ run.intent \notin DOMAIN SpecialistOf
       /\ run.node = "faq_agent"
    \/ /\ run.node = "faq_agent"
       /\ run.human > 0 /\ run.intent \notin {"faq", "technical", "billing"}

\* The customer gets one reply, and one more at most for each crash of the process.
AnsweredOncePerCrash == hist.sent =< 1 + crashes

\* A ticket comes to rest: answered, failed or waiting for a human, however often the
\* critic refuses.
Settles == run.status = "RUNNING" ~> run.status # "RUNNING"
=============================================================================
