------------------------------ MODULE FrontDesk ------------------------------
(***************************************************************************)
(* Several runs side by side: the endpoints of api/routes.py that start,   *)
(* delete, approve and resume runs and that work on the Zendesk simulator, *)
(* the background tasks they queue, the store they share and a restart of  *)
(* the server.  A loop here is one of GraphRunner seen from outside: it    *)
(* saves, it waits for a human, it fails, or it answers and completes.     *)
(* Neither approve nor resume looks for a task the run has already, so a   *)
(* run may have any number of them, and they are only counted.             *)
(*                                                                         *)
(* One process serves all requests and both databases are synchronous, so  *)
(* an endpoint is one step: of two requests with one key the second finds  *)
(* the key of the first, and _create_run_idempotent's handler of a race    *)
(* between the two has nothing to do.                                      *)
(***************************************************************************)
EXTENDS RunStore, ZendeskSim, Sequences

CONSTANTS
  Requests,       \* the keys and tickets of start requests
  Headers,        \* the Idempotency-Keys sent with the start of a ticket, or NoKey
  NoKey,          \* no key at all
  NoTicket,       \* the run is not about a ticket
  MaxRuns,        \* bound on the runs created
  MaxTroubles     \* bound on the requests to approve, resume or delete a run, the times
                  \* Zendesk is disconnected and the crashes, all together

ASSUME FrontDeskAssumption ==
  /\ NoTicket \notin Tickets
  /\ \A q \in Requests : q.ticket \in Tickets \cup {NoTicket}

VARIABLES
  store,     \* the database of runs
  desk,      \* the database of the simulator
  live,      \* how many background tasks each run has at each place
  hist,      \* what happened, for the properties only
  crashes

vars == <<store, desk, live, hist, crashes>>

\* The row of a run: its status, and the ticket its state is about.
Row(status, t) == [status |-> status, ticket |-> t]

Init ==
  /\ store = EmptyStore
  /\ desk = EmptyDesk
  /\ live = <<>>
  /\ hist = [begun |-> <<>>, gone |-> {}, deleted |-> {}, hot |-> {}, epoch |-> 1,
             reopens |-> 0]
  /\ crashes = 0

Runs == DOMAIN hist.begun

MoreTroubles == hist.reopens + Cardinality(hist.deleted) + hist.epoch + crashes =< MaxTroubles

\* The store as it is after the step, and which runs it has lost by then.
Store(st, h) ==
  /\ store' = st
  /\ hist' = [h EXCEPT !.gone = @ \cup (DOMAIN h.begun \ DOMAIN st.rows)]

\* Where a task is: waiting to execute the run, waiting to decide on it, in the loop before
\* the deliver node, in the loop behind it.
Places == {"queued", "decision", "work", "answered"}
Idle == [pc \in Places |-> 0]
Fresh == [Idle EXCEPT !["queued"] = 1]

Loops(r) == live[r]["work"] + live[r]["answered"]

Come(r, pc) == live' = [live EXCEPT ![r][pc] = @ + 1]
End(r, pc) == live' = [live EXCEPT ![r][pc] = @ - 1]
Move(r, pc, to) == live' = [live EXCEPT ![r] = [live[r] EXCEPT ![pc] = @ - 1, ![to] = @ + 1]]
Stop(S) == live' = [r \in S |-> Idle]

-----------------------------------------------------------------------------
(* Starting a run.                                                         *)

\* Mutant: a key is free again when its run has come to an end.
FreeWhenOver(key) ==
  key \in DOMAIN store.keys => store.rows[store.keys[key]].status \in Terminal

\* Otherwise the request is answered with the run of the key, or with 409.
Free(key) == key \notin DOMAIN store.keys

\* What is known of a new run: its key, its ticket and, if that is there, since when.  Later:
\* the replies sent, whether one was empty, and the loops that started beside another.
Begun(key, t) ==
  [key |-> key, ticket |-> t, epoch |-> IF t \in DOMAIN desk.tickets THEN hist.epoch ELSE 0,
   sent |-> 0, mute |-> FALSE, doubled |-> 0]

\* The run is saved, then its key, then the task is queued.
Create(key, t) ==
  LET r == Len(hist.begun) + 1
      st == Saved(store, r, Row("PENDING", t))
  IN  /\ r =< MaxRuns
      /\ Free(key)
      /\ Store(IF key = NoKey THEN st ELSE PutKey(st, key, r),
               [hist EXCEPT !.begun = Append(@, Begun(key, t))])
      /\ live' = Upsert(live, r, Fresh)
      /\ UNCHANGED <<desk, crashes>>

StartRun(key, t) == Create(key, t)

\* The ticket's own key is used when the client sends none.
StartTicket(header, t) ==
  /\ desk.connected
  /\ t \in DOMAIN desk.tickets
  /\ Create(IF header = NoKey THEN t ELSE header, t)

\* The process dies between the save of the run and that of its key.
CrashInCreate(key, t) ==
  LET r == Len(hist.begun) + 1
  IN  /\ r =< MaxRuns
      /\ MoreTroubles
      /\ Free(key)
      /\ Store(Restarted(Saved(store, r, Row("PENDING", t))),
               [hist EXCEPT !.begun = Append(@, Begun(NoKey, t))])
      /\ Stop(DOMAIN live \cup {r})
      /\ crashes' = crashes + 1
      /\ UNCHANGED desk

-----------------------------------------------------------------------------
(* The other requests about runs.                                          *)

DeleteRun(r) ==
  /\ r \in DOMAIN store.rows
  /\ MoreTroubles
  /\ Store(Deleted(store, r),
           [hist EXCEPT !.deleted = @ \cup {r},
                        !.hot = IF Loops(r) > 0 THEN @ \cup {r} ELSE @])
  /\ UNCHANGED <<desk, live, crashes>>

\* One more task for a run, whatever tasks it has.
Queue(r, pc) ==
  /\ MoreTroubles
  /\ hist' = [hist EXCEPT !.reopens = @ + 1]
  /\ Come(r, pc)
  /\ UNCHANGED <<store, desk, crashes>>

\* A decision is accepted while the row says PAUSED, and looks at the row again later.
Approve(r) ==
  /\ r \in DOMAIN store.rows /\ store.rows[r].status = "PAUSED"
  /\ Queue(r, "decision")

\* Every run can be resumed that is not COMPLETED, one that is being worked on too.
Resume(r) ==
  /\ r \in DOMAIN store.rows /\ store.rows[r].status # "COMPLETED"
  /\ Queue(r, "queued")

-----------------------------------------------------------------------------
(* A background task, from the row it loads to the row it leaves.          *)

\* A loop has its own copy of the record, and saves it without looking at the row.
Ticket(r) == hist.begun[r].ticket
Save(r, status) == Store(Saved(store, r, Row(status, Ticket(r))), hist)

At(r, pc) == live[r][pc] > 0
Says(r, S) == r \in DOMAIN store.rows /\ store.rows[r].status \in S

\* The task starts, or goes on with, a loop.
Enter(r, pc) == Save(r, "RUNNING") /\ Move(r, pc, "work") /\ UNCHANGED <<desk, crashes>>

\* Mutant: a run that is not in the store is taken from the request.
ExecuteFromRequest(r) ==
  /\ At(r, "queued")
  /\ Says(r, {"PENDING", "PAUSED"}) \/ r \notin DOMAIN store.rows
  /\ Enter(r, "queued")

Execute(r) ==
  /\ At(r, "queued")
  /\ Says(r, {"PENDING", "PAUSED"})
  /\ Enter(r, "queued")

\* The row says that a loop is at work, and execute() starts another one.
ExecuteBeside(r) ==
  /\ At(r, "queued")
  /\ Says(r, {"RUNNING", "RETRYING"})
  /\ Store(Saved(store, r, Row("RUNNING", Ticket(r))), [hist EXCEPT !.begun[r].doubled = @ + 1])
  /\ Move(r, "queued", "work")
  /\ UNCHANGED <<desk, crashes>>

\* The run is over, or is not there any more: the handler has nothing to mark either.
ExecuteNothing(r) ==
  /\ At(r, "queued")
  /\ r \notin DOMAIN store.rows \/ Says(r, Terminal)
  /\ End(r, "queued")
  /\ UNCHANGED <<store, desk, hist, crashes>>

\* Mutant: approve() believes what the endpoint saw.
DecideUnchecked(r) ==
  /\ At(r, "decision")
  /\ Says(r, {"PAUSED", "RUNNING"})
  /\ Enter(r, "decision")

\* Mutant: the checkpoint is taken for the last node.
DecideToTheEnd(r) ==
  /\ At(r, "decision")
  /\ Says(r, {"PAUSED"})
  /\ Save(r, "COMPLETED") /\ End(r, "decision")
  /\ UNCHANGED <<desk, crashes>>

\* approve() of a run that is still paused goes on with it, or ends it.
Decide(r) ==
  /\ At(r, "decision")
  /\ Says(r, {"PAUSED"})
  /\ Enter(r, "decision")

Reject(r) ==
  /\ At(r, "decision")
  /\ Says(r, {"PAUSED"})
  /\ Save(r, "FAILED") /\ End(r, "decision")
  /\ UNCHANGED <<desk, crashes>>

\* approve() raises: the run is gone or not paused any more, or a revision is not to be had.
\* The handler saves the row it finds, and FAILED over RUNNING.
Refuse(r) ==
  /\ At(r, "decision")
  /\ IF r \in DOMAIN store.rows
     THEN Save(r, IF Says(r, {"RUNNING"}) THEN "FAILED" ELSE store.rows[r].status)
     ELSE UNCHANGED <<store, hist>>
  /\ End(r, "decision")
  /\ UNCHANGED <<desk, crashes>>

\* Any save on the way.
SaveProgress(r, status) ==
  /\ Loops(r) > 0
  /\ status \in {"RUNNING", "RETRYING"} /\ Save(r, status)
  /\ UNCHANGED <<desk, live, crashes>>

Leave(r, pc, status) ==
  /\ At(r, pc)
  /\ Save(r, status)
  /\ End(r, pc)
  /\ UNCHANGED <<desk, crashes>>

Pause(r) == Leave(r, "work", "PAUSED")
Fail(r) == Leave(r, "work", "FAILED")

\* The deliver node of the support pipeline, with a reply or with an empty one, which is not
\* sent; a reply that is refused is only noted.
Deliver(r, reply) ==
  LET t == Ticket(r)
  IN  /\ At(r, "work")
      /\ Move(r, "work", "answered")
      /\ IF reply /\ t # NoTicket /\ Accepts(desk, t)
         THEN /\ desk' = Replied(desk, t, r)
              /\ hist' = [hist EXCEPT !.begun[r].sent = @ + 1]
         ELSE /\ UNCHANGED desk
              /\ hist' = [hist EXCEPT !.begun[r].mute = @ \/ ~reply]
      /\ UNCHANGED <<store, crashes>>

Complete(r) == Leave(r, "answered", "COMPLETED")

-----------------------------------------------------------------------------
(* Zendesk, and a restart of the server.                                   *)

Desk(d) == desk' = d /\ UNCHANGED <<store, live, crashes>>

Connect == Desk(Connected(desk)) /\ UNCHANGED hist
Webhook(t) == Desk(Ingested(desk, t)) /\ UNCHANGED hist

Disconnect ==
  /\ MoreTroubles
  /\ Desk(Disconnected(desk))
  /\ hist' = [hist EXCEPT !.epoch = @ + 1]

CrashRestart ==
  /\ MoreTroubles
  /\ crashes' = crashes + 1
  /\ Store(Restarted(store), hist)
  /\ Stop(DOMAIN live)
  /\ UNCHANGED desk

ClientStep ==
  \/ \E q \in Requests : StartRun(q.key, q.ticket) \/ CrashInCreate(q.key, q.ticket)
  \/ \E header \in Headers, t \in Tickets : StartTicket(header, t)
  \/ \E r \in DOMAIN store.rows : DeleteRun(r) \/ Approve(r) \/ Resume(r)
  \/ Connect \/ Disconnect \/ \E t \in Tickets : Webhook(t)

TaskStep(r) ==
  \/ Execute(r) \/ ExecuteBeside(r) \/ ExecuteNothing(r)
  \/ Decide(r) \/ Reject(r) \/ Refuse(r)
  \/ \E status \in {"RUNNING", "RETRYING"} : SaveProgress(r, status)
  \/ Pause(r) \/ Fail(r) \/ (\E reply \in BOOLEAN : Deliver(r, reply)) \/ Complete(r)

Next == ClientStep \/ CrashRestart \/ \E r \in Runs : TaskStep(r)

Spec == Init /\ [][Next]_vars

-----------------------------------------------------------------------------
(* Properties.                                                             *)

Rows == store.rows
Records == [status : Statuses, ticket : Tickets \cup {NoTicket}]

\* The values of the code; in particular the store never holds more than HISTORY_KEEP runs.
TypeOK ==
  /\ DOMAIN Rows \subseteq Runs /\ Cardinality(DOMAIN Rows) =< Keep
  /\ \A r \in DOMAIN Rows : Rows[r] \in Records
  /\ live \in [Runs -> [Places -> Nat]]
  /\ DOMAIN desk.tickets \subseteq Tickets

\* A key that is known leads to a run that is there: no replay is answered with "Idempotent
\* run missing from store".
KeysResolve == \A key \in DOMAIN store.keys : store.keys[key] \in DOMAIN Rows

\* One run for each key: two runs are started with the same key only if the store had
\* lost the earlier one, by request or by its limit.
OneRunPerKey ==
  \A r, s \in Runs :
    r < s /\ hist.begun[r].key = hist.begun[s].key /\ hist.begun[r].key # NoKey
      => r \in hist.gone

\* The newest HISTORY_KEEP runs are there, paused or not, unless they were deleted; a
\* deleted run whose task writes its row back takes no place from a newer one.
NewestKept ==
  \A r \in Runs \ DOMAIN Rows :
    r \in hist.deleted \/ Cardinality(Newer(r, Runs)) >= Keep

\* A deleted run is back only if its loop was under way when it was deleted.
DeletedStaysDeleted == hist.deleted \cap DOMAIN Rows \subseteq hist.hot

\* No row of any run says that the run is waited for or worked on when no task waits for it
\* or no loop works on it.
NoGhostRow ==
  \A r \in DOMAIN Rows :
    /\ Rows[r].status = "PENDING" => At(r, "queued")
    /\ Rows[r].status \in {"RUNNING", "RETRYING"} => Loops(r) > 0

\* A run answers its ticket a second time only if execute() has started a loop on a row that
\* said RUNNING or RETRYING, once for each of those: no number of decisions, of resumes of
\* a paused run, of crashes or of deletions makes it answer twice.
OneAnswerPerLoop == \A r \in Runs : hist.begun[r].sent =< 1 + hist.begun[r].doubled

\* A completed run has sent its reply, unless the reply was empty, the ticket was unknown when
\* the run was created, or Zendesk has been disconnected since.
CompletedAnswersTicket ==
  \A r \in DOMAIN Rows :
    /\ Rows[r].status = "COMPLETED" /\ Rows[r].ticket # NoTicket
    /\ hist.begun[r].epoch = hist.epoch /\ ~hist.begun[r].mute
    => hist.begun[r].sent >= 1

\* A solved ticket has a delivery on record.
SolvedMeansDelivered ==
  \A t \in DOMAIN desk.tickets :
    desk.tickets[t] = "solved" => \E d \in desk.deliveries : d.ticket = t
=============================================================================
