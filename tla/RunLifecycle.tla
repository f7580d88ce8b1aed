---------------------------- MODULE RunLifecycle ----------------------------
(***************************************************************************)
(* What a client of the API may rely on about one run: its stored status   *)
(* follows LEGAL_TRANSITIONS, it only moves while a task of the process    *)
(* works on the run, and no task lets go of a run that is still active.    *)
(***************************************************************************)
EXTENDS RunStatus

CONSTANT sweep   \* whether a restart fails the runs it finds active

VARIABLES
  status,   \* the status in the store
  busy      \* a task of the process has been started for the run

Init == status = "PENDING" /\ busy = TRUE

\* A client's request starts a task.
Engage ==
  /\ ~busy
  /\ status # "COMPLETED"
  /\ busy' = TRUE
  /\ UNCHANGED status

Advance ==
  /\ busy
  /\ status' \in {s \in Statuses : Legal(status, s)}
  /\ busy' \in BOOLEAN
  /\ status' \in Active => busy'

Restart ==
  /\ status' = IF sweep /\ status \in Active THEN "FAILED" ELSE status
  /\ busy' = FALSE

Next == Engage \/ Advance \/ Restart

Spec == Init /\ [][Next]_<<status, busy>>
=============================================================================
