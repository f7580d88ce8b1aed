---------------------------- MODULE MCFrontDesk ----------------------------
(***************************************************************************)
(* FrontDesk with two runs in a store that keeps one.                      *)
(***************************************************************************)
EXTENDS FrontDesk

\* A request about a ticket that Zendesk may not know yet; other runs of the ticket are
\* started from the simulator.
MCRequests == {[key |-> "k1", ticket |-> "z1"]}
=============================================================================
