----------------------------- MODULE RunStatus -----------------------------
(***************************************************************************)
(* The status machine of a run: core/state.py, RunStatus and               *)
(* LEGAL_TRANSITIONS.                                                      *)
(***************************************************************************)

Statuses == {"PENDING", "RUNNING", "RETRYING", "PAUSED", "COMPLETED", "FAILED"}

LegalTransitions ==
  [s \in Statuses |->
     CASE s = "PENDING"  -> {"RUNNING", "FAILED"}
       [] s = "RUNNING"  -> {"RETRYING", "PAUSED", "COMPLETED", "FAILED"}
       [] s = "RETRYING" -> {"RUNNING", "FAILED"}
       [] s = "PAUSED"   -> {"RUNNING", "FAILED"}
       [] OTHER          -> {}]

\* assert_transition lets a status be set again to what it is.
Legal(from, to) == from = to \/ to \in LegalTransitions[from]

\* The statuses execute() returns on without doing anything.
Terminal == {"COMPLETED", "FAILED"}

\* The statuses the server's start-up sweep turns into FAILED.
Active == {"PENDING", "RUNNING", "RETRYING"}
=============================================================================
