------------------------------ MODULE RunStore ------------------------------
(***************************************************************************)
(* The SQLite store of runs and idempotency keys: persistence/__init__.py. *)
(* A store is a value: the rows by run, numbered in the order of           *)
(* created_at, and for each key the run it was used for.  The start-up     *)
(* sweep of api/app.py is here too, because it reads the store the way     *)
(* list_runs() returns it.                                                 *)
(***************************************************************************)
EXTENDS RunStatus, Integers, FiniteSets, Functions

CONSTANT Keep   \* HISTORY_KEEP, 5 in the code

ASSUME RunStoreAssumption == Keep \in Nat \ {0}

EmptyStore == [rows |-> <<>>, keys |-> <<>>]

Newer(r, S) == {s \in S : s > r}

\* Mutant: one row too many is kept.
KeptOneMore(S) == {r \in S : Cardinality(Newer(r, S)) =< Keep}

\* Mutant: ORDER BY created_at without DESC.
KeptOldest(S) == {r \in S : Cardinality({s \in S : s < r}) < Keep}

\* The Keep newest, whatever their status.
Kept(S) == {r \in S : Cardinality(Newer(r, S)) < Keep}

\* Runs leave the store with the keys that name them.
Without(st, gone) ==
  [rows |-> Restrict(st.rows, DOMAIN st.rows \ gone),
   keys |-> Restrict(st.keys, {k \in DOMAIN st.keys : st.keys[k] \notin gone})]

Pruned(st) == Without(st, DOMAIN st.rows \ Kept(DOMAIN st.rows))

\* An upsert: the entry of x is there, with the value v.
Upsert(f, x, v) == [y \in DOMAIN f \cup {x} |-> IF y = x THEN v ELSE f[y]]

\* save_run: an upsert, then a prune.
Saved(st, r, record) == Pruned([st EXCEPT !.rows = Upsert(@, r, record)])

\* Mutant: the keys of a deleted run are forgotten about.
DeletedRow(st, r) == [st EXCEPT !.rows = Restrict(@, DOMAIN @ \ {r})]

Deleted(st, r) == Without(st, {r})

PutKey(st, key, r) == [st EXCEPT !.keys = Upsert(@, key, r)]

\* Mutant: the sweep looks at fewer rows than the store keeps.
SweptAllButOldest(st) ==
  [st EXCEPT !.rows = [r \in DOMAIN @ |->
     IF @[r].status \in Active /\ Cardinality(Newer(r, DOMAIN @)) < Keep - 1
     THEN [@[r] EXCEPT !.status = "FAILED"] ELSE @[r]]]

\* Mutant: the sweep overlooks the runs that were at a node.
SweptPending(st) ==
  [st EXCEPT !.rows = [r \in DOMAIN @ |->
     IF @[r].status = "PENDING" THEN [@[r] EXCEPT !.status = "FAILED"] ELSE @[r]]]

\* list_runs(limit=5) sees as many rows as the prune has left.
Swept(st) ==
  [st EXCEPT !.rows = [r \in DOMAIN @ |->
     IF @[r].status \in Active THEN [@[r] EXCEPT !.status = "FAILED"] ELSE @[r]]]

\* A start of the server on the store it finds.
Restarted(st) == Swept(Pruned(st))
=============================================================================
