----------------------------- MODULE ZendeskSim -----------------------------
(***************************************************************************)
(* The simulated Zendesk: integrations/zendesk_sim.py.  A desk is a value: *)
(* the connection, the status of each ticket, and which run's reply was    *)
(* delivered to which ticket.                                              *)
(***************************************************************************)
CONSTANTS
  Tickets,   \* external_ticket_ids
  Samples    \* those of SAMPLE_TICKETS

ASSUME ZendeskAssumption == Samples \subseteq Tickets

EmptyDesk == [connected |-> FALSE, tickets |-> <<>>, deliveries |-> {}]

Open(desk) == {t \in DOMAIN desk.tickets : desk.tickets[t] = "open"}

\* INSERT OR REPLACE: a ticket that was solved is open again.
Inserted(desk, new) ==
  [desk EXCEPT !.tickets = [t \in new \cup DOMAIN @ |-> IF t \in new THEN "open" ELSE @[t]]]

\* An inbox without open tickets is filled with the samples.
Connected(desk) ==
  LET d == IF Open(desk) = {} THEN Inserted(desk, Samples) ELSE desk
  IN  [d EXCEPT !.connected = TRUE]

\* Mutant: the tickets are not cleared with the deliveries.
DisconnectedWithTickets(desk) == [desk EXCEPT !.connected = FALSE, !.deliveries = {}]

Disconnected(desk) == EmptyDesk

\* A webhook connects on its own.
Ingested(desk, t) == [Inserted(desk, {t}) EXCEPT !.connected = TRUE]

\* Mutant: a reply to a ticket that is solved already is refused.
AcceptsOpen(desk, t) == t \in Open(desk) /\ desk.connected

Accepts(desk, t) == t \in DOMAIN desk.tickets /\ desk.connected

Replied(desk, t, r) ==
  [desk EXCEPT !.deliveries = @ \cup {[ticket |-> t, run |-> r]}, !.tickets[t] = "solved"]
=============================================================================
