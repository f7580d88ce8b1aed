-------------------------- MODULE FrontDeskProofs --------------------------
(***************************************************************************)
(* Theorems about FrontDesk for every set of requests and tickets, every   *)
(* number of rows the store keeps, and any number of runs, of tasks on     *)
(* each run, of deletions, disconnections and crashes.                     *)
(***************************************************************************)
EXTENDS FrontDesk, RunStoreProofs, SequenceTheorems

-----------------------------------------------------------------------------
(* The inductive invariant.                                                *)

KeyNames == {NoKey} \cup Headers \cup Tickets \cup {q.key : q \in Requests}
BegunRecords ==
  [key : KeyNames, ticket : Tickets \cup {NoTicket}, epoch : Nat, sent : Nat, mute : BOOLEAN,
   doubled : Nat]
Histories ==
  [begun : Seq(BegunRecords), gone : SUBSET Nat, deleted : SUBSET Nat, hot : SUBSET Nat,
   epoch : Nat \ {0}, reopens : Nat]
Counters == [Places -> Nat]

\* The values of the variables other than the store.
Typed ==
  /\ hist \in Histories /\ hist.deleted \subseteq Runs
  /\ live \in [Runs -> Counters]

\* A store's rows are runs that were begun, about their own tickets, and its keys lead to rows.
Shape(st, begun) ==
  /\ st = [rows |-> st.rows, keys |-> st.keys]
  /\ DOMAIN st.rows \subseteq DOMAIN begun
  /\ st.rows \in [DOMAIN st.rows -> Records]
  /\ st.keys \in [DOMAIN st.keys -> DOMAIN st.rows]
  /\ \A r \in DOMAIN st.rows : st.rows[r].ticket = begun[r].ticket

\* The key of a run that never left the store leads to it.
Held(st, begun, S) ==
  \A r \in S \cap DOMAIN st.rows :
    begun[r].key # NoKey => begun[r].key \in DOMAIN st.keys /\ st.keys[begun[r].key] = r

\* NewestKept, of any store.
Newest(st, S, deleted) ==
  \A r \in S \ DOMAIN st.rows : r \in deleted \/ Cardinality(Newer(r, S)) >= Keep

StoreInv ==
  /\ Shape(store, hist.begun)
  /\ Held(store, hist.begun, Runs \ hist.gone)
  /\ Runs \ DOMAIN Rows \subseteq hist.gone
  /\ Newest(store, Runs, hist.deleted)
  /\ Cardinality(DOMAIN Rows) =< Keep

\* The status of a run, when it has a row.
StatusOf(r) == IF r \in DOMAIN Rows THEN Rows[r].status ELSE "absent"

\* A run that has to answer a ticket Zendesk still knows.
Due(r) == hist.begun[r].ticket # NoTicket /\ hist.begun[r].epoch = hist.epoch

\* What row, tasks and replies of one run have to do with each other; cold is whether the run
\* was deleted without being under way.  A row that says PENDING or PAUSED stands for a loop
\* that is still to come, so it leaves one answer less to those under way.
Fine(status, tasks, b, due, cold) ==
  /\ status = "PENDING" => tasks["queued"] > 0
  /\ status \in {"RUNNING", "RETRYING"} => tasks["work"] + tasks["answered"] > 0
  /\ cold => status = "absent" /\ tasks["work"] = 0 /\ tasks["answered"] = 0
  /\ b.sent + tasks["work"] =< 1 + b.doubled
  /\ status \in {"PENDING", "PAUSED"} => b.sent + tasks["work"] =< b.doubled
  /\ due /\ ~b.mute /\ (tasks["answered"] > 0 \/ status = "COMPLETED") => b.sent > 0

RunsFine ==
  \A r \in Runs :
    Fine(StatusOf(r), live[r], hist.begun[r], Due(r), r \in hist.deleted \ hist.hot)

DeskInv ==
  /\ desk = [connected |-> desk.connected, tickets |-> desk.tickets, deliveries |-> desk.deliveries]
  /\ DOMAIN desk.tickets \subseteq Tickets /\ desk.tickets = [t \in DOMAIN desk.tickets |-> desk.tickets[t]]
  /\ desk.connected \in BOOLEAN
  /\ DOMAIN desk.tickets # {} => desk.connected
  /\ SolvedMeansDelivered
  /\ \A r \in Runs : hist.begun[r].epoch =< hist.epoch
                     /\ (Due(r) => hist.begun[r].ticket \in DOMAIN desk.tickets)

FrontInv == Typed /\ StoreInv /\ OneRunPerKey /\ RunsFine /\ DeskInv

-----------------------------------------------------------------------------
(* The operations on a store, on any store of the right shape.             *)

\* Runs that leave take their keys along, and no others.
LEMMA WithoutKeeps ==
  ASSUME NEW st, NEW begun, NEW gone, Shape(st, begun)
  PROVE  LET new == Without(st, gone)
         IN  /\ Shape(new, begun)
             /\ DOMAIN new.rows = DOMAIN st.rows \ gone
             /\ \A r \in DOMAIN new.rows : new.rows[r] = st.rows[r]
             /\ DOMAIN new.keys \subseteq DOMAIN st.keys
             /\ \A S : Held(st, begun, S) => Held(new, begun, S)
<1> DEFINE new == Without(st, gone)
           left == DOMAIN st.rows \ gone
           kept == {k \in DOMAIN st.keys : st.keys[k] \notin gone}
<1>1. /\ new = [rows |-> new.rows, keys |-> new.keys]
      /\ new.rows = [r \in left |-> st.rows[r]]
      /\ new.keys = [k \in kept |-> st.keys[k]]
  BY RestrictTo DEF Without
<1>2. DOMAIN new.rows = left /\ \A r \in left : new.rows[r] = st.rows[r]
  BY <1>1
<1>3. DOMAIN new.keys = kept /\ \A k \in kept : new.keys[k] = st.keys[k]
  BY <1>1
<1> HIDE DEF new
<1>4. new.rows \in [left -> Records]
  BY <1>1 DEF Shape
<1>5. new.keys \in [kept -> left]
  BY <1>1 DEF Shape
<1>6. Shape(new, begun)
  BY <1>1, <1>2, <1>3, <1>4, <1>5 DEF Shape
<1>7. ASSUME NEW S, Held(st, begun, S)
      PROVE  Held(new, begun, S)
  BY <1>2, <1>3, <1>7 DEF Held
<1>8. QED
  BY <1>2, <1>3, <1>6, <1>7 DEF new

\* A prune keeps the newest rows, and counts as a reason for a run not to be there.
LEMMA PrunedKeeps ==
  ASSUME NEW st, NEW begun, NEW deleted, Shape(st, begun), DOMAIN begun \subseteq Nat,
         IsFiniteSet(DOMAIN begun)
  PROVE  LET new == Pruned(st)
         IN  /\ Shape(new, begun)
             /\ DOMAIN new.rows = Kept(DOMAIN st.rows) /\ DOMAIN new.rows \subseteq DOMAIN st.rows
             /\ \A r \in DOMAIN new.rows : new.rows[r] = st.rows[r]
             /\ DOMAIN new.keys \subseteq DOMAIN st.keys
             /\ \A S : Held(st, begun, S) => Held(new, begun, S)
             /\ Cardinality(DOMAIN new.rows) =< Keep
             /\ Newest(st, DOMAIN begun, deleted) => Newest(new, DOMAIN begun, deleted)
<1> DEFINE S == DOMAIN st.rows
           gone == S \ Kept(S)
           new == Without(st, gone)
<1>1. /\ Shape(new, begun)
      /\ DOMAIN new.rows = S \ gone
      /\ \A r \in DOMAIN new.rows : new.rows[r] = st.rows[r]
      /\ DOMAIN new.keys \subseteq DOMAIN st.keys
      /\ \A T : Held(st, begun, T) => Held(new, begun, T)
  BY WithoutKeeps
<1>2. S \subseteq DOMAIN begun /\ S \subseteq Nat /\ IsFiniteSet(S)
  BY FS_Subset DEF Shape
<1>3. S \ gone = Kept(S) /\ Kept(S) \subseteq S
  BY DEF Kept
<1>4. Cardinality(DOMAIN new.rows) =< Keep
  BY <1>1, <1>2, <1>3, KeptBound
<1>5. ASSUME Newest(st, DOMAIN begun, deleted), NEW r \in DOMAIN begun \ DOMAIN new.rows
      PROVE  r \in deleted \/ Cardinality(Newer(r, DOMAIN begun)) >= Keep
  <2>1. CASE r \notin S
    BY <1>5, <2>1 DEF Newest
  <2>2. CASE r \in S
    <3>1. r \in S \ Kept(S)
      BY <1>1, <1>3, <1>5, <2>2
    <3>2. Cardinality(Newer(r, S)) >= Keep
      BY <1>2, <3>1, DroppedIsOld
    <3>3. /\ Cardinality(Newer(r, S)) \in Nat /\ Cardinality(Newer(r, DOMAIN begun)) \in Nat
          /\ Cardinality(Newer(r, S)) =< Cardinality(Newer(r, DOMAIN begun))
      BY <1>2, NewerFinite
    <3>4. QED
      BY <3>2, <3>3, RunStoreAssumption
  <2>3. QED
    BY <2>1, <2>2
<1>6. Newest(st, DOMAIN begun, deleted) => Newest(new, DOMAIN begun, deleted)
  BY <1>5 DEF Newest
<1>7. new = Pruned(st)
  BY DEF Pruned
<1> HIDE DEF new
<1>8. QED
  BY <1>1, <1>3, <1>4, <1>6, <1>7

\* The row that save_run writes, before the prune.
WithRow(st, r, record) == [st EXCEPT !.rows = Upsert(@, r, record)]

LEMMA UpsertKeeps ==
  ASSUME NEW st, NEW begun, Shape(st, begun), NEW r \in DOMAIN begun,
         NEW record \in Records, record.ticket = begun[r].ticket
  PROVE  LET new == WithRow(st, r, record)
         IN  /\ Shape(new, begun)
             /\ DOMAIN new.rows = DOMAIN st.rows \cup {r} /\ new.keys = st.keys
             /\ \A x \in DOMAIN new.rows : new.rows[x] = IF x = r THEN record ELSE st.rows[x]
             /\ \A S : Held(st, begun, S) /\ r \notin S \ DOMAIN st.rows => Held(new, begun, S)
<1> DEFINE new == WithRow(st, r, record)
<1>1. /\ new = [rows |-> new.rows, keys |-> new.keys] /\ new.keys = st.keys
      /\ new.rows = Upsert(st.rows, r, record)
  BY DEF Shape, WithRow
<1>2. /\ DOMAIN new.rows = DOMAIN st.rows \cup {r}
      /\ \A x \in DOMAIN new.rows : new.rows[x] = IF x = r THEN record ELSE st.rows[x]
      /\ new.rows = [x \in DOMAIN new.rows |-> new.rows[x]]
  BY <1>1 DEF Upsert
<1> HIDE DEF new
<1>3. new.rows \in [DOMAIN new.rows -> Records]
  BY <1>2 DEF Shape
<1>4. Shape(new, begun)
  BY <1>1, <1>2, <1>3 DEF Shape
<1>5. ASSUME NEW S, Held(st, begun, S), r \notin S \ DOMAIN st.rows
      PROVE  Held(new, begun, S)
  BY <1>1, <1>2, <1>5 DEF Held
<1>6. QED
  BY <1>1, <1>2, <1>4, <1>5 DEF new

\* A row for a run that is new, or was there before, does not make another run miss one.
LEMMA UpsertNewest ==
  ASSUME NEW st, NEW new, NEW S, NEW T, NEW deleted, NEW r, IsFiniteSet(S), T \subseteq S,
         S \subseteq T \cup {r}, Newest(st, T, deleted),
         DOMAIN new.rows = DOMAIN st.rows \cup {r}
  PROVE  Newest(new, S, deleted)
<1> SUFFICES ASSUME NEW x \in S \ DOMAIN new.rows, x \notin deleted
             PROVE  Cardinality(Newer(x, S)) >= Keep
  BY DEF Newest
<1>1. x \in T \ DOMAIN st.rows
  OBVIOUS
<1>2. Cardinality(Newer(x, T)) >= Keep
  BY <1>1 DEF Newest
<1>3. IsFiniteSet(T)
  BY FS_Subset
<1>4. Cardinality(Newer(x, T)) \in Nat /\ Cardinality(Newer(x, S)) \in Nat
      /\ Cardinality(Newer(x, T)) =< Cardinality(Newer(x, S))
  BY <1>3, NewerFinite
<1>5. QED
  BY <1>2, <1>4, RunStoreAssumption

\* Of the rows of st, and a row of run r, some are left.
RowsAfter(new, st, r, record) ==
  /\ DOMAIN new.rows \subseteq DOMAIN st.rows \cup {r}
  /\ \A x \in DOMAIN new.rows : new.rows[x] = IF x = r THEN record ELSE st.rows[x]

\* What save_run leaves: one more row perhaps, and what the prune has left of the others.
LEMMA SavedKeeps ==
  ASSUME NEW st, NEW begun, NEW deleted, Shape(st, begun), DOMAIN begun \subseteq Nat,
         IsFiniteSet(DOMAIN begun), NEW r \in DOMAIN begun,
         NEW T, T \subseteq DOMAIN begun, DOMAIN begun \subseteq T \cup {r}, Newest(st, T, deleted),
         NEW record \in Records, record.ticket = begun[r].ticket
  PROVE  LET new == Saved(st, r, record)
         IN  /\ Shape(new, begun) /\ Newest(new, DOMAIN begun, deleted)
             /\ Cardinality(DOMAIN new.rows) =< Keep
             /\ (\A s \in DOMAIN st.rows \cup {r} : ~(s > r)) => r \in DOMAIN new.rows
             /\ RowsAfter(new, st, r, record)
             /\ DOMAIN new.keys \subseteq DOMAIN st.keys
             /\ \A S : Held(st, begun, S) /\ r \notin S \ DOMAIN st.rows => Held(new, begun, S)
<1> DEFINE put == WithRow(st, r, record)
<1>1. /\ Shape(put, begun)
      /\ DOMAIN put.rows = DOMAIN st.rows \cup {r} /\ put.keys = st.keys
      /\ \A x \in DOMAIN put.rows : put.rows[x] = IF x = r THEN record ELSE st.rows[x]
      /\ \A S : Held(st, begun, S) /\ r \notin S \ DOMAIN st.rows => Held(put, begun, S)
  BY UpsertKeeps
<1>2. Saved(st, r, record) = Pruned(put)
  BY DEF Saved, WithRow
<1> HIDE DEF put
<1>3. Newest(put, DOMAIN begun, deleted)
  BY <1>1, UpsertNewest
<1>4. /\ Shape(Pruned(put), begun) /\ Newest(Pruned(put), DOMAIN begun, deleted)
      /\ DOMAIN Pruned(put).rows = Kept(DOMAIN put.rows)
      /\ DOMAIN Pruned(put).rows \subseteq DOMAIN put.rows
      /\ \A x \in DOMAIN Pruned(put).rows : Pruned(put).rows[x] = put.rows[x]
      /\ DOMAIN Pruned(put).keys \subseteq DOMAIN put.keys
      /\ \A S : Held(put, begun, S) => Held(Pruned(put), begun, S)
      /\ Cardinality(DOMAIN Pruned(put).rows) =< Keep
  BY <1>1, <1>3, PrunedKeeps
<1>5. RowsAfter(Pruned(put), st, r, record)
  BY <1>1, <1>4 DEF RowsAfter
<1>6. (\A s \in DOMAIN put.rows : ~(s > r)) => r \in DOMAIN Pruned(put).rows
  BY <1>1, <1>4, NewestStays
<1>7. QED
  BY <1>1, <1>2, <1>4, <1>5, <1>6

\* The start-up sweep changes nothing but the status of rows that say they are worked on.
LEMMA SweptKeeps ==
  ASSUME NEW st, NEW begun, NEW deleted, Shape(st, begun)
  PROVE  LET new == Swept(st)
         IN  /\ Shape(new, begun)
             /\ DOMAIN new.rows = DOMAIN st.rows
             /\ \A x \in DOMAIN st.rows :
                  new.rows[x].status = IF st.rows[x].status \in Active THEN "FAILED"
                                       ELSE st.rows[x].status
             /\ \A S : Held(st, begun, S) => Held(new, begun, S)
             /\ Newest(st, DOMAIN begun, deleted) => Newest(new, DOMAIN begun, deleted)
<1> DEFINE new == Swept(st)
           swept(x) == IF st.rows[x].status \in Active THEN [st.rows[x] EXCEPT !.status = "FAILED"]
                       ELSE st.rows[x]
<1>1. /\ new = [rows |-> new.rows, keys |-> new.keys] /\ new.keys = st.keys
      /\ new.rows = [x \in DOMAIN st.rows |-> swept(x)]
  BY DEF Swept, Shape
<1>2. ASSUME NEW x \in DOMAIN st.rows
      PROVE  /\ swept(x) \in Records /\ swept(x).ticket = st.rows[x].ticket
             /\ swept(x).status = IF st.rows[x].status \in Active THEN "FAILED"
                                  ELSE st.rows[x].status
  <2>1. st.rows[x] \in Records
    BY DEF Shape
  <2>2. QED
    BY <2>1 DEF Records, Statuses
<1> HIDE DEF new, swept
<1>3. DOMAIN new.rows = DOMAIN st.rows /\ \A x \in DOMAIN st.rows : new.rows[x] = swept(x)
  BY <1>1
<1>4. new.rows \in [DOMAIN new.rows -> Records]
  BY <1>1, <1>2
<1>5. Shape(new, begun)
  BY <1>1, <1>2, <1>3, <1>4 DEF Shape
<1>6. \A S : Held(st, begun, S) => Held(new, begun, S)
  BY <1>1, <1>3 DEF Held
<1>7. Newest(st, DOMAIN begun, deleted) => Newest(new, DOMAIN begun, deleted)
  BY <1>3 DEF Newest
<1>8. QED
  BY <1>2, <1>3, <1>5, <1>6, <1>7 DEF new

\* A restart prunes, then sweeps.
LEMMA RestartedKeeps ==
  ASSUME NEW st, NEW begun, NEW deleted, Shape(st, begun), DOMAIN begun \subseteq Nat,
         IsFiniteSet(DOMAIN begun), Newest(st, DOMAIN begun, deleted)
  PROVE  LET new == Restarted(st)
         IN  /\ Shape(new, begun) /\ Newest(new, DOMAIN begun, deleted)
             /\ Cardinality(DOMAIN new.rows) =< Keep
             /\ DOMAIN new.rows \subseteq DOMAIN st.rows
             /\ \A x \in DOMAIN new.rows :
                  new.rows[x].status = IF st.rows[x].status \in Active THEN "FAILED"
                                       ELSE st.rows[x].status
             /\ \A S : Held(st, begun, S) => Held(new, begun, S)
<1> DEFINE mid == Pruned(st)
<1>1. /\ Shape(mid, begun) /\ Newest(mid, DOMAIN begun, deleted)
      /\ DOMAIN mid.rows \subseteq DOMAIN st.rows
      /\ \A r \in DOMAIN mid.rows : mid.rows[r] = st.rows[r]
      /\ \A S : Held(st, begun, S) => Held(mid, begun, S)
      /\ Cardinality(DOMAIN mid.rows) =< Keep
  BY PrunedKeeps
<1>2. Restarted(st) = Swept(mid)
  BY DEF Restarted
<1> HIDE DEF mid
<1>3. /\ Shape(Swept(mid), begun) /\ Newest(Swept(mid), DOMAIN begun, deleted)
      /\ DOMAIN Swept(mid).rows = DOMAIN mid.rows
      /\ \A x \in DOMAIN mid.rows :
           Swept(mid).rows[x].status = IF mid.rows[x].status \in Active THEN "FAILED"
                                       ELSE mid.rows[x].status
      /\ \A S : Held(mid, begun, S) => Held(Swept(mid), begun, S)
  BY <1>1, SweptKeeps
<1>4. QED
  BY <1>1, <1>2, <1>3

-----------------------------------------------------------------------------
(* What the invariant needs to know of a step.                             *)

LEMMA RunsAreNumbered ==
  ASSUME hist \in Histories
  PROVE  /\ Runs = 1 .. Len(hist.begun) /\ Len(hist.begun) \in Nat
         /\ Runs \subseteq Nat /\ IsFiniteSet(Runs)
         /\ \A r \in Runs : hist.begun[r] \in BegunRecords
<1>1. hist.begun \in Seq(BegunRecords)
  BY DEF Histories
<1>2. Runs = 1 .. Len(hist.begun) /\ Len(hist.begun) \in Nat
  BY <1>1, LenProperties DEF Runs
<1>3. IsFiniteSet(Runs)
  BY <1>2, FS_Interval
<1>4. \A r \in Runs : hist.begun[r] \in BegunRecords
  BY <1>1, <1>2, ElementOfSeq
<1>5. QED
  BY <1>2, <1>3, <1>4

\* A step that saves the store st when the history is h already.
LEMMA StoreFields ==
  ASSUME NEW st, NEW h \in Histories, Store(st, h)
  PROVE  /\ store' = st /\ hist' \in Histories
         /\ hist'.begun = h.begun /\ hist'.deleted = h.deleted /\ hist'.hot = h.hot
         /\ hist'.epoch = h.epoch /\ hist'.gone = h.gone \cup (DOMAIN h.begun \ DOMAIN st.rows)
<1>1. DOMAIN h.begun \subseteq Nat
  BY LenProperties DEF Histories
<1>2. h.gone \cup (DOMAIN h.begun \ DOMAIN st.rows) \in SUBSET Nat
  BY <1>1 DEF Histories
<1>3. store' = st /\ hist' = [h EXCEPT !.gone = h.gone \cup (DOMAIN h.begun \ DOMAIN st.rows)]
  BY DEF Store
<1>4. QED
  BY <1>2, <1>3 DEF Histories

LEMMA StoreKeeps ==
  ASSUME NEW st, NEW h \in Histories, Store(st, h), Shape(st, h.begun),
         Newest(st, DOMAIN h.begun, h.deleted), Cardinality(DOMAIN st.rows) =< Keep,
         Held(st, h.begun, DOMAIN h.begun \ h.gone)
  PROVE  StoreInv'
<1>1. /\ store' = st /\ hist'.begun = h.begun /\ hist'.deleted = h.deleted
      /\ hist'.gone = h.gone \cup (DOMAIN h.begun \ DOMAIN st.rows)
  BY StoreFields
<1>2. Held(st, h.begun, DOMAIN h.begun \ hist'.gone)
  BY <1>1 DEF Held
<1>3. QED
  BY <1>1, <1>2 DEF StoreInv, Runs, Rows, Shape, Newest, Held

\* As far as keys go, a step that begins no run can only lose some.
LEMMA KeysKept ==
  ASSUME OneRunPerKey, Runs' = Runs, hist.gone \subseteq hist'.gone,
         \A r \in Runs : hist'.begun[r].key = hist.begun[r].key
  PROVE  OneRunPerKey'
  BY DEF OneRunPerKey

LEMMA FineAbsent ==
  ASSUME NEW status, NEW tasks, NEW b, NEW due, NEW cold, Fine(status, tasks, b, due, cold)
  PROVE  Fine("absent", tasks, b, due, cold)
  BY DEF Fine

\* The step is about run r; other runs at most lose their row.
LEMMA OthersFine ==
  ASSUME RunsFine, NEW r, Runs' \subseteq Runs \cup {r},
         \A x \in Runs \ {r} :
           /\ hist'.begun[x] = hist.begun[x]
           /\ StatusOf(x)' = StatusOf(x) \/ StatusOf(x)' = "absent"
           /\ live'[x] = live[x]
           /\ (x \in hist'.deleted \ hist'.hot) = (x \in hist.deleted \ hist.hot),
         hist'.epoch = hist.epoch,
         Fine(StatusOf(r)', live'[r], hist'.begun[r], Due(r)', r \in hist'.deleted \ hist'.hot)
  PROVE  RunsFine'
<1> SUFFICES ASSUME NEW x \in Runs'
             PROVE  Fine(StatusOf(x)', live'[x], hist'.begun[x], Due(x)',
                         x \in hist'.deleted \ hist'.hot)
  BY DEF RunsFine, Fine
<1>1. CASE x = r
  BY <1>1
<1>2. CASE x # r
  <2>1. x \in Runs \ {r}
    BY <1>2
  <2>2. Fine(StatusOf(x), live[x], hist.begun[x], Due(x), x \in hist.deleted \ hist.hot)
    BY <2>1 DEF RunsFine
  <2>3. Due(x)' = Due(x)
    BY <2>1 DEF Due
  <2>4. Fine(StatusOf(x)', live[x], hist.begun[x], Due(x), x \in hist.deleted \ hist.hot)
    BY <2>1, <2>2, FineAbsent
  <2>5. QED
    BY <2>1, <2>3, <2>4
<1>3. QED
  BY <1>1, <1>2

\* A step that leaves the desk alone and begins no run.
LEMMA DeskSame ==
  ASSUME DeskInv, UNCHANGED desk, Runs' = Runs, hist'.epoch = hist.epoch,
         \A r \in Runs : /\ hist'.begun[r].ticket = hist.begun[r].ticket
                         /\ hist'.begun[r].epoch = hist.begun[r].epoch
  PROVE  DeskInv'
  BY DEF DeskInv, Due, SolvedMeansDelivered

-----------------------------------------------------------------------------
(* The tasks of a run.                                                     *)

\* The step is about the tasks of run r only.
TasksOf(r, tasks) ==
  /\ live' \in [Runs -> Counters] /\ live'[r] = tasks
  /\ \A x \in Runs \ {r} : live'[x] = live[x]

LEMMA TaskComes ==
  ASSUME Typed, NEW r \in Runs, NEW pc \in Places, Come(r, pc)
  PROVE  /\ TasksOf(r, live'[r]) /\ live'[r][pc] = live[r][pc] + 1
         /\ \A at \in Places \ {pc} : live'[r][at] = live[r][at]
<1>1. live \in [Runs -> Counters] /\ live[r] \in [Places -> Nat] /\ live[r][pc] \in Nat
  BY DEF Typed, Counters
<1> DEFINE tasks == [live[r] EXCEPT ![pc] = live[r][pc] + 1]
<1>2. /\ tasks \in Counters /\ tasks[pc] = live[r][pc] + 1
      /\ \A at \in Places \ {pc} : tasks[at] = live[r][at]
  BY <1>1 DEF Counters
<1>3. live' = [live EXCEPT ![r] = tasks]
  BY DEF Come
<1> HIDE DEF tasks
<1>4. live' \in [Runs -> Counters] /\ live'[r] = tasks /\ \A x \in Runs \ {r} : live'[x] = live[x]
  BY <1>1, <1>2, <1>3
<1>5. QED
  BY <1>2, <1>4 DEF TasksOf

LEMMA TaskEnds ==
  ASSUME Typed, NEW r \in Runs, NEW pc \in Places, At(r, pc), End(r, pc)
  PROVE  /\ TasksOf(r, live'[r]) /\ live'[r][pc] = live[r][pc] - 1
         /\ \A at \in Places \ {pc} : live'[r][at] = live[r][at]
<1>1. /\ live \in [Runs -> Counters] /\ live[r] \in [Places -> Nat]
      /\ live[r][pc] \in Nat /\ live[r][pc] - 1 \in Nat
  BY DEF Typed, Counters, At
<1> DEFINE tasks == [live[r] EXCEPT ![pc] = live[r][pc] - 1]
<1>2. /\ tasks \in Counters /\ tasks[pc] = live[r][pc] - 1
      /\ \A at \in Places \ {pc} : tasks[at] = live[r][at]
  BY <1>1 DEF Counters
<1>3. live' = [live EXCEPT ![r] = tasks]
  BY DEF End
<1> HIDE DEF tasks
<1>4. live' \in [Runs -> Counters] /\ live'[r] = tasks /\ \A x \in Runs \ {r} : live'[x] = live[x]
  BY <1>1, <1>2, <1>3
<1>5. QED
  BY <1>2, <1>4 DEF TasksOf

LEMMA TaskMoves ==
  ASSUME Typed, NEW r \in Runs, NEW pc \in Places, NEW to \in Places \ {pc}, At(r, pc),
         Move(r, pc, to)
  PROVE  /\ TasksOf(r, live'[r]) /\ live'[r][pc] = live[r][pc] - 1
         /\ live'[r][to] = live[r][to] + 1
         /\ \A at \in Places \ {pc, to} : live'[r][at] = live[r][at]
<1>1. /\ live \in [Runs -> Counters] /\ live[r] \in [Places -> Nat]
      /\ live[r][pc] - 1 \in Nat /\ live[r][to] + 1 \in Nat
  BY DEF Typed, Counters, At
<1> DEFINE left == [live[r] EXCEPT ![pc] = live[r][pc] - 1]
           tasks == [left EXCEPT ![to] = live[r][to] + 1]
<1>2. /\ left \in Counters /\ left[pc] = live[r][pc] - 1
      /\ \A at \in Places \ {pc} : left[at] = live[r][at]
  BY <1>1 DEF Counters
<1>3. live' = [live EXCEPT ![r] = tasks]
  BY <1>1 DEF Move
<1> HIDE DEF left
<1>4. /\ tasks \in Counters /\ tasks[to] = live[r][to] + 1
      /\ \A at \in Places \ {to} : tasks[at] = left[at]
  BY <1>1, <1>2 DEF Counters
<1> HIDE DEF tasks
<1>5. live' \in [Runs -> Counters] /\ live'[r] = tasks /\ \A x \in Runs \ {r} : live'[x] = live[x]
  BY <1>1, <1>3, <1>4
<1>6. QED
  BY <1>2, <1>4, <1>5 DEF TasksOf

\* What a step may change of what is known of the runs: replies and loops.
SameRuns(h) ==
  /\ DOMAIN h.begun = Runs /\ h.gone = hist.gone
  /\ h.deleted = hist.deleted /\ h.hot = hist.hot /\ h.epoch = hist.epoch
  /\ \A x \in Runs : /\ h.begun[x].key = hist.begun[x].key
                     /\ h.begun[x].ticket = hist.begun[x].ticket
                     /\ h.begun[x].epoch = hist.begun[x].epoch

SavesRow(r, status, h) == Store(Saved(store, r, Row(status, Ticket(r))), h)

\* Whatever a loop saves, the store is in order and no other run gets a row.
LEMMA SaveKeeps ==
  ASSUME FrontInv, NEW r \in Runs, NEW status \in Statuses, NEW h \in Histories, SameRuns(h),
         SavesRow(r, status, h)
  PROVE  /\ StoreInv' /\ OneRunPerKey' /\ hist' \in Histories /\ Runs' = Runs
         /\ hist'.begun = h.begun /\ hist'.deleted = hist.deleted /\ hist'.hot = hist.hot
         /\ hist'.epoch = hist.epoch
         /\ StatusOf(r)' \in {status, "absent"}
         /\ \A x \in Runs \ {r} : StatusOf(x)' = StatusOf(x) \/ StatusOf(x)' = "absent"
<1> DEFINE record == Row(status, Ticket(r))
           st == Saved(store, r, record)
<1>1. Store(st, h) /\ hist \in Histories
  BY DEF SavesRow, FrontInv, Typed
<1>2. Runs \subseteq Nat /\ IsFiniteSet(Runs) /\ hist.begun[r] \in BegunRecords
  BY <1>1, RunsAreNumbered
<1>3. record \in Records /\ record.ticket = h.begun[r].ticket /\ record.status = status
  BY <1>2 DEF Row, Ticket, Records, BegunRecords, SameRuns
<1>4. /\ Shape(store, hist.begun) /\ Newest(store, Runs, h.deleted)
      /\ Held(store, hist.begun, Runs \ hist.gone) /\ Runs \ DOMAIN Rows \subseteq hist.gone
  BY DEF FrontInv, StoreInv, SameRuns
<1>5. DOMAIN h.begun = Runs /\ DOMAIN store.rows \subseteq Runs
  BY <1>4 DEF SameRuns, Shape, Runs
<1>6. Shape(store, h.begun) /\ Held(store, h.begun, Runs \ hist.gone)
  <2>1. Shape(store, h.begun)
    BY <1>4, <1>5 DEF Shape, SameRuns
  <2>2. Held(store, h.begun, Runs \ hist.gone)
    BY <1>4, <1>5 DEF Held, SameRuns
  <2>3. QED
    BY <2>1, <2>2
<1> HIDE DEF record
<1>7. /\ Shape(st, h.begun) /\ Newest(st, DOMAIN h.begun, h.deleted)
      /\ Cardinality(DOMAIN st.rows) =< Keep
      /\ RowsAfter(st, store, r, record)
      /\ \A S : Held(store, h.begun, S) /\ r \notin S \ DOMAIN store.rows
                => Held(st, h.begun, S)
  <2> DEFINE D == DOMAIN h.begun
  <2>1. /\ D \subseteq Nat /\ IsFiniteSet(D) /\ r \in D /\ Newest(store, D, h.deleted)
        /\ D \subseteq D /\ D \subseteq D \cup {r}
    BY <1>2, <1>4, <1>5
  <2>2. Newest(st, D, h.deleted)
    BY <1>3, <1>6, <2>1, SavedKeeps
  <2>3. Shape(st, h.begun) /\ Cardinality(DOMAIN st.rows) =< Keep
    BY <1>3, <1>6, <2>1, SavedKeeps
  <2>4. RowsAfter(st, store, r, record)
    BY <1>3, <1>6, <2>1, SavedKeeps
  <2>5. \A S : Held(store, h.begun, S) /\ r \notin S \ DOMAIN store.rows
               => Held(st, h.begun, S)
    BY <1>3, <1>6, <2>1, SavedKeeps
  <2> HIDE DEF st
  <2>6. QED
    BY <2>2, <2>3, <2>4, <2>5
<1>8. Held(st, h.begun, DOMAIN h.begun \ h.gone)
  <2>1. r \notin (Runs \ hist.gone) \ DOMAIN store.rows
    BY <1>4 DEF Rows
  <2>2. QED
    BY <1>5, <1>6, <1>7, <2>1 DEF SameRuns
<1> HIDE DEF st
<1>9. /\ store' = st /\ hist' \in Histories
      /\ hist'.begun = h.begun /\ hist'.deleted = hist.deleted /\ hist'.hot = hist.hot
      /\ hist'.epoch = hist.epoch /\ hist.gone \subseteq hist'.gone
  BY <1>1, StoreFields DEF SameRuns
<1>10. StoreInv'
  BY <1>1, <1>7, <1>8, StoreKeeps
<1>11. Runs' = Runs
  BY <1>5, <1>9 DEF Runs
<1>12. OneRunPerKey'
  BY <1>9, <1>11, KeysKept DEF FrontInv, SameRuns
<1>13. StatusOf(r)' \in {status, "absent"}
  BY <1>3, <1>7, <1>9 DEF StatusOf, Rows, RowsAfter
<1>14. \A x \in Runs \ {r} : StatusOf(x)' = StatusOf(x) \/ StatusOf(x)' = "absent"
  BY <1>7, <1>9 DEF StatusOf, Rows, RowsAfter
<1>15. QED
  BY <1>9, <1>10, <1>11, <1>12, <1>13, <1>14

\* A step of a task of run r that saves a row and leaves the desk alone.
LEMMA TaskSaves ==
  ASSUME FrontInv, NEW r \in Runs, NEW status \in Statuses, NEW h \in Histories, SameRuns(h),
         SavesRow(r, status, h), UNCHANGED desk, TasksOf(r, live'[r]),
         \A x \in Runs \ {r} : h.begun[x] = hist.begun[x],
         Fine(status, live'[r], h.begun[r], Due(r), r \in hist.deleted \ hist.hot)
  PROVE  FrontInv'
<1>1. /\ StoreInv' /\ OneRunPerKey' /\ hist' \in Histories /\ Runs' = Runs
      /\ hist'.begun = h.begun /\ hist'.deleted = hist.deleted /\ hist'.hot = hist.hot
      /\ hist'.epoch = hist.epoch
      /\ StatusOf(r)' \in {status, "absent"}
      /\ \A x \in Runs \ {r} : StatusOf(x)' = StatusOf(x) \/ StatusOf(x)' = "absent"
  BY SaveKeeps
<1>2. Due(r)' = Due(r)
  BY <1>1 DEF Due, SameRuns
<1>3. Fine(StatusOf(r)', live'[r], h.begun[r], Due(r), r \in hist.deleted \ hist.hot)
  BY <1>1, FineAbsent
<1>4. RunsFine'
  BY <1>1, <1>2, <1>3, OthersFine DEF FrontInv, TasksOf
<1>5. DeskInv'
  BY <1>1, DeskSame DEF FrontInv, SameRuns
<1>6. Typed'
  BY <1>1 DEF FrontInv, Typed, TasksOf
<1>7. QED
  BY <1>1, <1>4, <1>5, <1>6 DEF FrontInv

\* Where the history stays what it is.
LEMMA TaskSavesOnly ==
  ASSUME FrontInv, NEW r \in Runs, NEW status \in Statuses, Save(r, status), UNCHANGED desk,
         TasksOf(r, live'[r]),
         Fine(status, live'[r], hist.begun[r], Due(r), r \in hist.deleted \ hist.hot)
  PROVE  FrontInv'
<1>1. SavesRow(r, status, hist) /\ hist \in Histories /\ SameRuns(hist)
  BY DEF Save, SavesRow, FrontInv, Typed, SameRuns, Runs
<1>2. QED
  BY <1>1, TaskSaves

\* What is known of a run that was begun.
LEMMA FineNow ==
  ASSUME FrontInv, NEW r \in Runs
  PROVE  /\ Fine(StatusOf(r), live[r], hist.begun[r], Due(r), r \in hist.deleted \ hist.hot)
         /\ Typed /\ hist \in Histories /\ hist.begun[r] \in BegunRecords
         /\ hist.begun[r].sent \in Nat /\ hist.begun[r].doubled \in Nat
         /\ live[r] \in [Places -> Nat]
<1>1. hist \in Histories /\ Typed
  BY DEF FrontInv, Typed
<1>2. hist.begun[r] \in BegunRecords
  BY <1>1, RunsAreNumbered
<1>3. live[r] \in [Places -> Nat]
  BY <1>1 DEF Typed, Counters
<1>4. QED
  BY <1>1, <1>2, <1>3 DEF FrontInv, RunsFine, BegunRecords

LEMMA SaysStatus ==
  ASSUME FrontInv, NEW r, NEW S, Says(r, S)
  PROVE  r \in DOMAIN Rows /\ StatusOf(r) \in S /\ StatusOf(r) \in Statuses
  BY DEF Says, StatusOf, FrontInv, StoreInv, Shape, Rows, Records

\* A row that said PENDING or PAUSED gives way to a loop.
LEMMA EnterKeeps ==
  ASSUME FrontInv, NEW r \in Runs, NEW pc \in {"queued", "decision"}, At(r, pc),
         Says(r, {"PENDING", "PAUSED"}), Enter(r, pc)
  PROVE  FrontInv'
<1> DEFINE b == hist.begun[r]
           due == Due(r)
           cold == r \in hist.deleted \ hist.hot
<1>1. /\ Fine(StatusOf(r), live[r], b, due, cold) /\ b.sent \in Nat /\ b.doubled \in Nat
      /\ live[r] \in [Places -> Nat] /\ Typed
  BY FineNow
<1>2. StatusOf(r) \in {"PENDING", "PAUSED"}
  BY SaysStatus
<1>3. Save(r, "RUNNING") /\ Move(r, pc, "work") /\ UNCHANGED desk
  BY DEF Enter
<1>4. /\ TasksOf(r, live'[r]) /\ live'[r]["work"] = live[r]["work"] + 1
      /\ live'[r]["answered"] = live[r]["answered"]
  BY <1>1, <1>3, TaskMoves DEF Places
<1>5. live[r]["work"] \in Nat /\ live[r]["answered"] \in Nat
  BY <1>1 DEF Places
<1> HIDE DEF b, due, cold
<1>6. Fine("RUNNING", live'[r], b, due, cold)
  BY <1>1, <1>2, <1>4, <1>5 DEF Fine
<1>7. QED
  BY <1>3, <1>4, <1>6, TaskSavesOnly DEF Statuses, b, due, cold

LEMMA ExecuteKeeps ==
  ASSUME FrontInv, NEW r \in Runs, Execute(r)
  PROVE  FrontInv'
  BY EnterKeeps DEF Execute

LEMMA DecideKeeps ==
  ASSUME FrontInv, NEW r \in Runs, Decide(r)
  PROVE  FrontInv'
<1>1. Says(r, {"PENDING", "PAUSED"})
  BY DEF Decide, Says
<1>2. QED
  BY <1>1, EnterKeeps DEF Decide

\* One record of the history is replaced by another about the same run.
WithRecord(r, b) == [hist EXCEPT !.begun = [hist.begun EXCEPT ![r] = b]]

LEMMA RecordReplaced ==
  ASSUME hist \in Histories, NEW r \in Runs, NEW b \in BegunRecords,
         b.key = hist.begun[r].key, b.ticket = hist.begun[r].ticket,
         b.epoch = hist.begun[r].epoch
  PROVE  /\ WithRecord(r, b) \in Histories /\ SameRuns(WithRecord(r, b))
         /\ WithRecord(r, b).begun[r] = b
         /\ \A x \in Runs \ {r} : WithRecord(r, b).begun[x] = hist.begun[x]
<1>1. hist.begun \in Seq(BegunRecords) /\ Runs = 1 .. Len(hist.begun)
  BY RunsAreNumbered DEF Histories
<1> DEFINE begun == [hist.begun EXCEPT ![r] = b]
           h == WithRecord(r, b)
<1>2. begun \in Seq(BegunRecords) /\ DOMAIN begun = DOMAIN hist.begun
      /\ begun[r] = b /\ \A x \in Runs \ {r} : begun[x] = hist.begun[x]
  BY <1>1, ExceptSeq DEF Runs
<1>3. h = [hist EXCEPT !.begun = begun]
  BY DEF WithRecord
<1> HIDE DEF begun, h
<1>4. /\ h.begun = begun /\ h \in Histories /\ h.deleted = hist.deleted
      /\ h.hot = hist.hot /\ h.epoch = hist.epoch /\ h.gone = hist.gone
  BY <1>2, <1>3 DEF Histories
<1>5. QED
  BY <1>2, <1>4 DEF SameRuns, Runs, h

\* A loop that starts beside another one is noted.
LEMMA ExecuteBesideKeeps ==
  ASSUME FrontInv, NEW r \in Runs, ExecuteBeside(r)
  PROVE  FrontInv'
<1> DEFINE b == [hist.begun[r] EXCEPT !.doubled = hist.begun[r].doubled + 1]
           h == WithRecord(r, b)
           due == Due(r)
           cold == r \in hist.deleted \ hist.hot
<1>1. /\ Fine(StatusOf(r), live[r], hist.begun[r], due, cold) /\ hist.begun[r] \in BegunRecords
      /\ hist.begun[r].sent \in Nat /\ hist.begun[r].doubled \in Nat
      /\ live[r] \in [Places -> Nat] /\ Typed /\ hist \in Histories
  BY FineNow
<1>2. StatusOf(r) \in {"RUNNING", "RETRYING"}
  BY SaysStatus DEF ExecuteBeside
<1>3. /\ b \in BegunRecords /\ b.key = hist.begun[r].key /\ b.ticket = hist.begun[r].ticket
      /\ b.epoch = hist.begun[r].epoch /\ b.sent = hist.begun[r].sent
      /\ b.mute = hist.begun[r].mute /\ b.doubled = hist.begun[r].doubled + 1
  BY <1>1 DEF BegunRecords
<1>4. [hist EXCEPT !.begun[r].doubled = @ + 1] = h
  BY <1>1 DEF Histories, WithRecord
<1>5. /\ SavesRow(r, "RUNNING", h) /\ At(r, "queued") /\ Move(r, "queued", "work")
      /\ UNCHANGED desk
  BY <1>4 DEF ExecuteBeside, SavesRow
<1> HIDE DEF b
<1>6. /\ h \in Histories /\ SameRuns(h) /\ h.begun[r] = b
      /\ \A x \in Runs \ {r} : h.begun[x] = hist.begun[x]
  BY <1>1, <1>3, RecordReplaced
<1> HIDE DEF h
<1>7. /\ TasksOf(r, live'[r]) /\ live'[r]["work"] = live[r]["work"] + 1
      /\ live'[r]["answered"] = live[r]["answered"]
  BY <1>1, <1>5, TaskMoves DEF Places
<1>8. live[r]["work"] \in Nat /\ live[r]["answered"] \in Nat
  BY <1>1 DEF Places
<1> HIDE DEF due, cold
<1>9. Fine("RUNNING", live'[r], b, due, cold)
  BY <1>1, <1>2, <1>3, <1>7, <1>8 DEF Fine
<1>10. QED
  BY <1>5, <1>6, <1>7, <1>9, TaskSaves DEF Statuses, due, cold

LEMMA ProgressKeeps ==
  ASSUME FrontInv, NEW r \in Runs, NEW status \in {"RUNNING", "RETRYING"}, SaveProgress(r, status)
  PROVE  FrontInv'
<1>1. /\ Fine(StatusOf(r), live[r], hist.begun[r], Due(r), r \in hist.deleted \ hist.hot)
      /\ live[r] \in [Places -> Nat] /\ Typed
  BY FineNow
<1>2. /\ Save(r, status) /\ UNCHANGED <<desk, live>>
      /\ live[r]["work"] + live[r]["answered"] > 0
  BY DEF SaveProgress, Loops
<1>3. live[r]["work"] \in Nat /\ live[r]["answered"] \in Nat
  BY <1>1 DEF Places
<1>4. Fine(status, live[r], hist.begun[r], Due(r), r \in hist.deleted \ hist.hot)
  BY <1>1, <1>2, <1>3 DEF Fine
<1>5. TasksOf(r, live'[r]) /\ live'[r] = live[r]
  BY <1>1, <1>2 DEF TasksOf, Typed
<1>6. QED
  BY <1>2, <1>4, <1>5, TaskSavesOnly DEF Statuses

\* A loop ends with a row that is not active, so nothing is said of other loops.
LEMMA LeaveKeeps ==
  ASSUME FrontInv, NEW r \in Runs, Pause(r) \/ Fail(r) \/ Complete(r)
  PROVE  FrontInv'
<1> DEFINE b == hist.begun[r]
           due == Due(r)
           cold == r \in hist.deleted \ hist.hot
<1>1. PICK status \in {"PAUSED", "FAILED", "COMPLETED"} :
        Leave(r, IF status = "COMPLETED" THEN "answered" ELSE "work", status)
  BY DEF Pause, Fail, Complete
<1> DEFINE pc == IF status = "COMPLETED" THEN "answered" ELSE "work"
<1>2. /\ At(r, pc) /\ Save(r, status) /\ End(r, pc) /\ UNCHANGED desk /\ live[r][pc] > 0
      /\ pc \in Places
  BY <1>1 DEF Leave, At, Places
<1>3. /\ Fine(StatusOf(r), live[r], b, due, cold) /\ b.sent \in Nat /\ b.doubled \in Nat
      /\ live[r] \in [Places -> Nat] /\ Typed
  BY FineNow
<1> HIDE DEF b, due, cold
<1>4. /\ TasksOf(r, live'[r]) /\ live'[r][pc] = live[r][pc] - 1
      /\ \A at \in Places \ {pc} : live'[r][at] = live[r][at]
  BY <1>2, <1>3, TaskEnds
<1>5. live[r]["work"] \in Nat /\ live[r]["answered"] \in Nat
  BY <1>3 DEF Places
<1>6. ~cold
  BY <1>2, <1>3, <1>5 DEF Fine
<1>7. CASE status = "COMPLETED"
  <2>1. /\ live[r]["answered"] > 0 /\ live'[r]["answered"] = live[r]["answered"] - 1
        /\ live'[r]["work"] = live[r]["work"]
    BY <1>2, <1>4, <1>7 DEF Places
  <2>2. Fine(status, live'[r], b, due, cold)
    BY <1>3, <1>5, <1>6, <1>7, <2>1 DEF Fine
  <2>3. QED
    BY <1>2, <1>4, <2>2, TaskSavesOnly DEF Statuses, b, due, cold
<1>8. CASE status # "COMPLETED"
  <2>1. /\ live[r]["work"] > 0 /\ live'[r]["work"] = live[r]["work"] - 1
        /\ live'[r]["answered"] = live[r]["answered"]
    BY <1>2, <1>4, <1>8 DEF Places
  <2>2. Fine(status, live'[r], b, due, cold)
    BY <1>3, <1>5, <1>6, <1>8, <2>1 DEF Fine
  <2>3. QED
    BY <1>2, <1>4, <2>2, TaskSavesOnly DEF Statuses, b, due, cold
<1>9. QED
  BY <1>7, <1>8

\* A decision that ends as a row that is not worked on, or as the row it found.
LEMMA DecisionEnds ==
  ASSUME FrontInv, NEW r \in Runs, At(r, "decision"), End(r, "decision"), UNCHANGED desk,
         NEW status \in Statuses, Save(r, status),
         status = StatusOf(r) \/ (status = "FAILED" /\ StatusOf(r) # "absent")
  PROVE  FrontInv'
<1> DEFINE b == hist.begun[r]
           due == Due(r)
           cold == r \in hist.deleted \ hist.hot
<1>1. /\ Fine(StatusOf(r), live[r], b, due, cold) /\ b.sent \in Nat /\ b.doubled \in Nat
      /\ live[r] \in [Places -> Nat] /\ Typed
  BY FineNow
<1>2. /\ TasksOf(r, live'[r]) /\ live'[r]["work"] = live[r]["work"]
      /\ live'[r]["answered"] = live[r]["answered"] /\ live'[r]["queued"] = live[r]["queued"]
  BY <1>1, TaskEnds DEF Places
<1> HIDE DEF b, due, cold
<1>3. Fine(status, live'[r], b, due, cold)
  BY <1>1, <1>2 DEF Fine
<1>4. QED
  BY <1>2, <1>3, TaskSavesOnly DEF b, due, cold

LEMMA RejectKeeps ==
  ASSUME FrontInv, NEW r \in Runs, Reject(r)
  PROVE  FrontInv'
<1>1. StatusOf(r) \in {"PAUSED"}
  BY SaysStatus DEF Reject
<1>2. QED
  BY <1>1, DecisionEnds DEF Reject, Statuses

\* A step that only begins or ends a task.
LEMMA TaskOnly ==
  ASSUME FrontInv, NEW r \in Runs, UNCHANGED <<store, desk>>, hist' \in Histories, SameRuns(hist'),
         hist'.begun = hist.begun, TasksOf(r, live'[r]),
         Fine(StatusOf(r), live'[r], hist.begun[r], Due(r), r \in hist.deleted \ hist.hot)
  PROVE  FrontInv'
<1>1. /\ Runs' = Runs /\ Rows' = Rows /\ Due(r)' = Due(r) /\ \A x : StatusOf(x)' = StatusOf(x)
      /\ hist'.gone = hist.gone /\ hist'.deleted = hist.deleted /\ hist'.hot = hist.hot
      /\ hist'.epoch = hist.epoch
  BY DEF Runs, Rows, Due, StatusOf, SameRuns
<1>2. RunsFine'
  BY <1>1, OthersFine DEF FrontInv, TasksOf
<1>3. DeskInv'
  BY <1>1, DeskSame DEF FrontInv
<1>4. Typed'
  BY <1>1 DEF FrontInv, Typed, TasksOf
<1>5. StoreInv' /\ OneRunPerKey'
  BY <1>1 DEF FrontInv, StoreInv, OneRunPerKey
<1>6. QED
  BY <1>2, <1>3, <1>4, <1>5 DEF FrontInv

LEMMA HistorySame ==
  ASSUME FrontInv, UNCHANGED hist
  PROVE  hist' \in Histories /\ SameRuns(hist') /\ hist'.begun = hist.begun
  BY DEF FrontInv, Typed, SameRuns, Runs

LEMMA RefuseKeeps ==
  ASSUME FrontInv, NEW r \in Runs, Refuse(r)
  PROVE  FrontInv'
<1>1. At(r, "decision") /\ End(r, "decision") /\ UNCHANGED desk
  BY DEF Refuse
<1>2. CASE r \in DOMAIN store.rows
  <2> DEFINE status == IF Says(r, {"RUNNING"}) THEN "FAILED" ELSE store.rows[r].status
  <2>1. Save(r, status)
    BY <1>2 DEF Refuse
  <2>2. StatusOf(r) = store.rows[r].status /\ StatusOf(r) \in Statuses
    BY <1>2 DEF StatusOf, Rows, FrontInv, StoreInv, Shape, Records
  <2>3. /\ status \in Statuses
        /\ status = StatusOf(r) \/ (status = "FAILED" /\ StatusOf(r) # "absent")
    BY <2>2 DEF Statuses
  <2> HIDE DEF status
  <2>4. QED
    BY <1>1, <2>1, <2>3, DecisionEnds
<1>3. CASE r \notin DOMAIN store.rows
  <2>1. UNCHANGED <<store, hist>>
    BY <1>3 DEF Refuse
  <2>2. /\ Fine(StatusOf(r), live[r], hist.begun[r], Due(r), r \in hist.deleted \ hist.hot)
        /\ Typed
    BY FineNow
  <2>3. /\ TasksOf(r, live'[r]) /\ live'[r]["work"] = live[r]["work"]
        /\ live'[r]["answered"] = live[r]["answered"] /\ live'[r]["queued"] = live[r]["queued"]
    BY <1>1, <2>2, TaskEnds DEF Places
  <2>4. Fine(StatusOf(r), live'[r], hist.begun[r], Due(r), r \in hist.deleted \ hist.hot)
    BY <2>2, <2>3 DEF Fine
  <2>5. QED
    BY <1>1, <2>1, <2>3, <2>4, TaskOnly, HistorySame
<1>4. QED
  BY <1>2, <1>3

LEMMA ExecuteNothingKeeps ==
  ASSUME FrontInv, NEW r \in Runs, ExecuteNothing(r)
  PROVE  FrontInv'
<1>1. /\ At(r, "queued") /\ End(r, "queued") /\ UNCHANGED <<store, desk, hist, crashes>>
      /\ StatusOf(r) \in Terminal \cup {"absent"}
  BY DEF ExecuteNothing, StatusOf, Rows, Says
<1>2. /\ Fine(StatusOf(r), live[r], hist.begun[r], Due(r), r \in hist.deleted \ hist.hot)
      /\ Typed
  BY FineNow
<1>3. /\ TasksOf(r, live'[r]) /\ live'[r]["work"] = live[r]["work"]
      /\ live'[r]["answered"] = live[r]["answered"]
  BY <1>1, <1>2, TaskEnds DEF Places
<1>4. Fine(StatusOf(r), live'[r], hist.begun[r], Due(r), r \in hist.deleted \ hist.hot)
  BY <1>1, <1>2, <1>3 DEF Fine, Terminal
<1>5. QED
  BY <1>1, <1>3, <1>4, TaskOnly, HistorySame

\* A request for one more task changes nothing else.
LEMMA QueueKeeps ==
  ASSUME FrontInv, NEW r, Approve(r) \/ Resume(r)
  PROVE  FrontInv'
<1>1. PICK pc \in {"decision", "queued"} : Queue(r, pc)
  BY DEF Approve, Resume
<1>2. r \in DOMAIN store.rows
  BY DEF Approve, Resume
<1>3. r \in Runs
  BY <1>2 DEF FrontInv, StoreInv, Shape, Rows, Runs
<1>4. /\ Fine(StatusOf(r), live[r], hist.begun[r], Due(r), r \in hist.deleted \ hist.hot)
      /\ live[r] \in [Places -> Nat] /\ Typed /\ hist \in Histories
  BY <1>3, FineNow
<1>5. /\ TasksOf(r, live'[r]) /\ live'[r]["work"] = live[r]["work"]
      /\ live'[r]["answered"] = live[r]["answered"]
      /\ live'[r]["queued"] \in {live[r]["queued"], live[r]["queued"] + 1}
      /\ live[r]["queued"] \in Nat
  BY <1>1, <1>3, <1>4, TaskComes DEF Queue, Places
<1>6. Fine(StatusOf(r), live'[r], hist.begun[r], Due(r), r \in hist.deleted \ hist.hot)
  BY <1>4, <1>5 DEF Fine
<1>7. UNCHANGED <<store, desk>> /\ hist' = [hist EXCEPT !.reopens = hist.reopens + 1]
  BY <1>1 DEF Queue
<1>8. hist.reopens + 1 \in Nat
  BY <1>4 DEF Histories
<1>9. hist' \in Histories /\ SameRuns(hist') /\ hist'.begun = hist.begun
  BY <1>4, <1>7, <1>8 DEF Histories, SameRuns, Runs
<1>10. QED
  BY <1>3, <1>5, <1>6, <1>7, <1>9, TaskOnly

\* What the deliver node notes about its run, and whether it sends.
Sends(r, reply) == reply /\ Ticket(r) # NoTicket /\ Accepts(desk, Ticket(r))

LEMMA DeliverNotes ==
  ASSUME FrontInv, NEW r \in Runs, NEW reply \in BOOLEAN, Deliver(r, reply)
  PROVE  \E b \in BegunRecords :
           /\ hist' = WithRecord(r, b)
           /\ b.key = hist.begun[r].key /\ b.ticket = hist.begun[r].ticket
           /\ b.epoch = hist.begun[r].epoch /\ b.doubled = hist.begun[r].doubled
           /\ b.sent = IF Sends(r, reply) THEN hist.begun[r].sent + 1 ELSE hist.begun[r].sent
           /\ reply \/ b.mute
           /\ hist.begun[r].mute => b.mute
<1> DEFINE old == hist.begun[r]
<1>1. old \in BegunRecords /\ old.sent \in Nat /\ old.mute \in BOOLEAN /\ hist \in Histories
  BY FineNow DEF BegunRecords
<1>2. CASE Sends(r, reply)
  <2> DEFINE b == [old EXCEPT !.sent = old.sent + 1]
  <2>1. hist' = WithRecord(r, b)
    BY <1>1, <1>2 DEF Deliver, Sends, Histories, WithRecord
  <2>2. /\ b \in BegunRecords /\ b.key = old.key /\ b.ticket = old.ticket
        /\ b.epoch = old.epoch /\ b.doubled = old.doubled /\ b.sent = old.sent + 1
        /\ b.mute = old.mute
    BY <1>1 DEF BegunRecords
  <2>3. reply
    BY <1>2 DEF Sends
  <2>4. QED
    BY <1>2, <2>1, <2>2, <2>3
<1>3. CASE ~Sends(r, reply)
  <2> DEFINE b == [old EXCEPT !.mute = old.mute \/ ~reply]
  <2>1. hist' = WithRecord(r, b)
    BY <1>1, <1>3 DEF Deliver, Sends, Histories, WithRecord
  <2>2. /\ b \in BegunRecords /\ b.key = old.key /\ b.ticket = old.ticket
        /\ b.epoch = old.epoch /\ b.doubled = old.doubled /\ b.sent = old.sent
    BY <1>1 DEF BegunRecords
  <2>3. b.mute = (old.mute \/ ~reply)
    BY <1>1 DEF BegunRecords
  <2>4. QED
    BY <1>3, <2>1, <2>2, <2>3
<1>4. QED
  BY <1>2, <1>3

\* The desk after a reply, which the run and its ticket have on record.
LEMMA DeliverDesk ==
  ASSUME FrontInv, NEW r \in Runs, NEW reply \in BOOLEAN, Deliver(r, reply), SameRuns(hist'),
         Runs' = Runs
  PROVE  DeskInv'
<1> DEFINE t == Ticket(r)
<1>1. CASE ~Sends(r, reply)
  <2>1. UNCHANGED desk
    BY <1>1 DEF Deliver, Sends
  <2>2. QED
    BY <2>1, DeskSame DEF FrontInv, SameRuns
<1>2. CASE Sends(r, reply)
  <2>0. desk' = Replied(desk, t, r)
    BY <1>2 DEF Deliver, Sends
  <2>1. /\ t \in DOMAIN desk.tickets
        /\ desk' = [connected |-> desk.connected,
                    tickets |-> [desk.tickets EXCEPT ![t] = "solved"],
                    deliveries |-> desk.deliveries \cup {[ticket |-> t, run |-> r]}]
    BY <1>2, <2>0 DEF Sends, Accepts, Replied, FrontInv, DeskInv
  <2> DEFINE d == [ticket |-> t, run |-> r]
  <2>2. /\ DOMAIN desk'.tickets = DOMAIN desk.tickets /\ desk'.connected = desk.connected
        /\ \A x \in DOMAIN desk.tickets \ {t} : desk'.tickets[x] = desk.tickets[x]
        /\ desk'.deliveries = desk.deliveries \cup {d} /\ d.ticket = t
    BY <2>1
  <2>3. /\ desk' = [connected |-> desk'.connected, tickets |-> desk'.tickets,
                    deliveries |-> desk'.deliveries]
        /\ desk'.tickets = [x \in DOMAIN desk'.tickets |-> desk'.tickets[x]]
    BY <2>1
  <2> HIDE DEF d, t
  <2>4. SolvedMeansDelivered'
    BY <2>2 DEF FrontInv, DeskInv, SolvedMeansDelivered
  <2>5. \A x \in Runs : Due(x)' = Due(x)
    BY DEF Due, SameRuns
  <2>6. QED
    BY <2>2, <2>3, <2>4, <2>5 DEF FrontInv, DeskInv, SameRuns
<1>3. QED
  BY <1>1, <1>2

\* The reply of a run changes its record in the history and the desk.
LEMMA DeliverKeeps ==
  ASSUME FrontInv, NEW r \in Runs, NEW reply \in BOOLEAN, Deliver(r, reply)
  PROVE  FrontInv'
<1> DEFINE old == hist.begun[r]
           due == Due(r)
           cold == r \in hist.deleted \ hist.hot
<1>1. /\ Fine(StatusOf(r), live[r], old, due, cold) /\ live[r] \in [Places -> Nat] /\ Typed
      /\ old.sent \in Nat /\ old.doubled \in Nat /\ hist \in Histories
  BY FineNow
<1>2. PICK b \in BegunRecords :
        /\ hist' = WithRecord(r, b)
        /\ b.key = old.key /\ b.ticket = old.ticket
        /\ b.epoch = old.epoch /\ b.doubled = old.doubled
        /\ b.sent = IF Sends(r, reply) THEN old.sent + 1 ELSE old.sent
        /\ reply \/ b.mute
        /\ old.mute => b.mute
  BY DeliverNotes
<1>3. /\ hist' \in Histories /\ SameRuns(hist') /\ hist'.begun[r] = b
      /\ \A x \in Runs \ {r} : hist'.begun[x] = hist.begun[x]
  BY <1>1, <1>2, RecordReplaced
<1>4. /\ Runs' = Runs /\ hist'.gone = hist.gone /\ hist'.deleted = hist.deleted
      /\ hist'.hot = hist.hot /\ hist'.epoch = hist.epoch
  BY <1>3 DEF SameRuns, Runs
<1>5. At(r, "work") /\ Move(r, "work", "answered") /\ store' = store
  BY DEF Deliver
<1>6. /\ TasksOf(r, live'[r]) /\ live'[r]["work"] = live[r]["work"] - 1
      /\ live'[r]["answered"] = live[r]["answered"] + 1 /\ live'[r]["queued"] = live[r]["queued"]
  BY <1>1, <1>5, TaskMoves DEF Places
<1>7. Typed'
  BY <1>3, <1>4, <1>6 DEF FrontInv, Typed, TasksOf
<1>8. StoreInv'
  <2>1. Shape(store, hist.begun) /\ Held(store, hist.begun, Runs \ hist.gone)
        /\ DOMAIN hist.begun = Runs /\ DOMAIN hist'.begun = Runs
    BY <1>4 DEF FrontInv, StoreInv, Runs
  <2>2. Shape(store, hist'.begun)
    BY <1>3, <2>1 DEF Shape, SameRuns
  <2>3. Held(store, hist'.begun, Runs \ hist.gone)
    BY <1>3, <2>1 DEF Held, SameRuns, Shape
  <2>4. store' = store /\ Rows' = Rows
    BY <1>5 DEF Rows
  <2>5. QED
    BY <1>4, <2>2, <2>3, <2>4 DEF FrontInv, StoreInv
<1>9. OneRunPerKey'
  BY <1>3, <1>4, KeysKept DEF FrontInv, SameRuns
<1>10. due /\ reply => Sends(r, reply)
  <2> SUFFICES ASSUME Due(r), reply
               PROVE  Sends(r, reply)
    OBVIOUS
  <2>1. hist.begun[r].ticket # NoTicket /\ hist.begun[r].ticket \in DOMAIN desk.tickets
    BY DEF FrontInv, DeskInv, Due
  <2>2. desk.connected
    BY <2>1 DEF FrontInv, DeskInv
  <2>3. QED
    BY <2>1, <2>2 DEF Sends, Accepts, Ticket
<1>11. RunsFine'
  <2>1. \A x : StatusOf(x)' = StatusOf(x)
    BY <1>5 DEF StatusOf, Rows
  <2>2. Due(r)' = Due(r)
    BY <1>3, <1>4 DEF Due, SameRuns
  <2>3. live[r]["work"] \in Nat /\ live[r]["answered"] \in Nat
    BY <1>1 DEF Places
  <2> HIDE DEF old, due, cold
  <2>4. due /\ ~b.mute => b.sent > 0
    BY <1>1, <1>2, <1>10
  <2>5. b.sent + live'[r]["work"] =< old.sent + live[r]["work"]
    BY <1>1, <1>2, <1>6, <2>3
  <2>6. b.sent \in Nat
    BY <1>1, <1>2
  <2>7. live'[r]["work"] \in Nat
    BY <1>6 DEF TasksOf, Counters, Places
  <2>8. Fine(StatusOf(r), live'[r], b, due, cold)
    BY <1>1, <1>2, <1>6, <2>3, <2>4, <2>5, <2>6, <2>7 DEF Fine
  <2>9. Fine(StatusOf(r)', live'[r], hist'.begun[r], Due(r)', r \in hist'.deleted \ hist'.hot)
    BY <1>3, <1>4, <2>1, <2>2, <2>8 DEF due, cold
  <2>10. QED
    BY <1>3, <1>4, <1>6, <2>1, <2>9, OthersFine DEF FrontInv, TasksOf
<1>12. DeskInv'
  BY <1>3, <1>4, DeliverDesk
<1>13. QED
  BY <1>7, <1>8, <1>9, <1>11, <1>12 DEF FrontInv

-----------------------------------------------------------------------------
(* The other requests, and a crash.                                        *)

LEMMA DeleteKeeps ==
  ASSUME FrontInv, NEW r, DeleteRun(r)
  PROVE  FrontInv'
<1> DEFINE hot == IF Loops(r) > 0 THEN hist.hot \cup {r} ELSE hist.hot
           h == [hist EXCEPT !.deleted = @ \cup {r}, !.hot = hot]
           st == Deleted(store, r)
<1>1. /\ r \in DOMAIN Rows /\ Store(st, h) /\ UNCHANGED <<desk, live, crashes>>
  BY DEF DeleteRun, Rows
<1>2. hist \in Histories /\ Shape(store, hist.begun) /\ Held(store, hist.begun, Runs \ hist.gone)
      /\ Newest(store, Runs, hist.deleted) /\ Cardinality(DOMAIN store.rows) =< Keep
  BY DEF FrontInv, Typed, StoreInv, Rows
<1>3. r \in Runs /\ Runs \subseteq Nat /\ IsFiniteSet(Runs)
  BY <1>1, <1>2, RunsAreNumbered DEF Shape, Rows, Runs
<1>4. /\ h \in Histories /\ h.begun = hist.begun /\ h.deleted = hist.deleted \cup {r}
      /\ h.hot = hot /\ h.gone = hist.gone /\ h.epoch = hist.epoch
  <2>1. hot \in SUBSET Nat /\ hist.deleted \cup {r} \in SUBSET Nat
    BY <1>2, <1>3 DEF Histories
  <2> HIDE DEF hot
  <2>2. QED
    BY <1>2, <2>1 DEF Histories
<1>5. /\ Shape(st, hist.begun) /\ DOMAIN st.rows = DOMAIN store.rows \ {r}
      /\ \A x \in DOMAIN st.rows : st.rows[x] = store.rows[x]
      /\ Held(st, hist.begun, Runs \ hist.gone)
  BY <1>2, WithoutKeeps DEF Deleted
<1>6. Newest(st, Runs, h.deleted)
  BY <1>2, <1>4, <1>5 DEF Newest
<1>7. Cardinality(DOMAIN st.rows) =< Keep
  <2>1. DOMAIN store.rows \subseteq Runs
    BY <1>2 DEF Shape, Runs
  <2>2. IsFiniteSet(DOMAIN store.rows)
    BY <1>3, <2>1, FS_Subset
  <2>3. /\ Cardinality(DOMAIN st.rows) =< Cardinality(DOMAIN store.rows)
        /\ IsFiniteSet(DOMAIN st.rows)
    BY <1>5, <2>2, FS_Subset
  <2>4. Cardinality(DOMAIN st.rows) \in Nat /\ Cardinality(DOMAIN store.rows) \in Nat
    BY <2>2, <2>3, FS_CardinalityType
  <2>5. QED
    BY <1>2, <2>3, <2>4, RunStoreAssumption
<1> HIDE DEF h, st
<1>8. StoreInv'
  BY <1>1, <1>2, <1>4, <1>5, <1>6, <1>7, StoreKeeps DEF Runs
<1>9. /\ store' = st /\ hist' \in Histories /\ hist'.begun = hist.begun
      /\ hist'.deleted = hist.deleted \cup {r} /\ hist'.hot = hot /\ hist'.epoch = hist.epoch
      /\ hist.gone \subseteq hist'.gone
  BY <1>1, <1>4, StoreFields
<1>10. Runs' = Runs
  BY <1>9 DEF Runs
<1>11. OneRunPerKey'
  BY <1>9, <1>10, KeysKept DEF FrontInv
<1>12. Typed'
  BY <1>1, <1>3, <1>9, <1>10 DEF FrontInv, Typed
<1>13. DeskInv'
  BY <1>1, <1>9, <1>10, DeskSame DEF FrontInv
<1>14. RunsFine'
  <2>1. StatusOf(r)' = "absent"
    BY <1>5, <1>9 DEF StatusOf, Rows
  <2>2. \A x \in Runs \ {r} : StatusOf(x)' = StatusOf(x)
    BY <1>5, <1>9 DEF StatusOf, Rows
  <2>3. \A x : live'[x] = live[x]
    BY <1>1
  <2>4. Due(r)' = Due(r)
    BY <1>9 DEF Due
  <2>5. \A x \in Runs \ {r} : (x \in hist'.deleted \ hist'.hot) = (x \in hist.deleted \ hist.hot)
    BY <1>9
  <2>6. /\ Fine(StatusOf(r), live[r], hist.begun[r], Due(r), r \in hist.deleted \ hist.hot)
        /\ live[r] \in [Places -> Nat]
    BY <1>3, FineNow
  <2>7. r \in hist'.deleted \ hist'.hot => live[r]["work"] = 0 /\ live[r]["answered"] = 0
    <3>1. live[r]["work"] \in Nat /\ live[r]["answered"] \in Nat
      BY <2>6 DEF Places
    <3>2. QED
      BY <1>9, <3>1 DEF Loops
  <2>8. Fine("absent", live[r], hist.begun[r], Due(r), r \in hist'.deleted \ hist'.hot)
    BY <2>6, <2>7 DEF Fine
  <2>9. QED
    BY <1>9, <1>10, <2>1, <2>2, <2>3, <2>4, <2>5, <2>8, OthersFine DEF FrontInv
<1>15. QED
  BY <1>8, <1>11, <1>12, <1>13, <1>14 DEF FrontInv

\* A run after a restart: no task, and no row that says there is one.
Stopped(status) == IF status \in Active THEN "FAILED" ELSE status

LEMMA FineStopped ==
  ASSUME NEW status, NEW tasks \in [Places -> Nat], NEW b \in BegunRecords, NEW due, NEW cold,
         Fine(status, tasks, b, due, cold)
  PROVE  Fine(Stopped(status), Idle, b, due, cold)
<1>1. /\ tasks["work"] \in Nat /\ tasks["answered"] \in Nat /\ b.sent \in Nat /\ b.doubled \in Nat
      /\ Idle["work"] = 0 /\ Idle["answered"] = 0
  BY DEF Places, BegunRecords, Idle
<1>2. QED
  BY <1>1 DEF Fine, Active, Stopped

\* Of the rows of st some are left, and none of them says that it is being worked on.
RowsStopped(new, st) ==
  /\ DOMAIN new.rows \subseteq DOMAIN st.rows
  /\ \A x \in DOMAIN new.rows : new.rows[x].status = Stopped(st.rows[x].status)

LEMMA NoTask ==
  ASSUME NEW S, Stop(S)
  PROVE  live' \in [S -> Counters] /\ \A r \in S : live'[r] = Idle
  BY DEF Stop, Counters, Idle

\* The runs there were before a crash.
LEMMA CrashFine ==
  ASSUME FrontInv, NEW x \in Runs, live'[x] = Idle, hist'.begun[x] = hist.begun[x],
         hist'.deleted = hist.deleted, hist'.hot = hist.hot, hist'.epoch = hist.epoch,
         StatusOf(x)' \in {Stopped(StatusOf(x)), "absent"}
  PROVE  Fine(StatusOf(x)', live'[x], hist'.begun[x], Due(x)', x \in hist'.deleted \ hist'.hot)
<1>1. /\ Fine(StatusOf(x), live[x], hist.begun[x], Due(x), x \in hist.deleted \ hist.hot)
      /\ live[x] \in [Places -> Nat] /\ hist.begun[x] \in BegunRecords
  BY FineNow
<1>2. Due(x)' = Due(x)
  BY DEF Due
<1>3. /\ Fine(Stopped(StatusOf(x)), Idle, hist.begun[x], Due(x), x \in hist.deleted \ hist.hot)
      /\ Fine("absent", Idle, hist.begun[x], Due(x), x \in hist.deleted \ hist.hot)
  BY <1>1, FineStopped, FineAbsent
<1>4. QED
  BY <1>2, <1>3

LEMMA CrashKeeps ==
  ASSUME FrontInv, CrashRestart
  PROVE  FrontInv'
<1> DEFINE st == Restarted(store)
           D == DOMAIN hist.begun
<1>1. Store(st, hist) /\ Stop(Runs) /\ UNCHANGED desk
  BY DEF CrashRestart, FrontInv, Typed
<1>2. hist \in Histories /\ Shape(store, hist.begun) /\ Held(store, hist.begun, D \ hist.gone)
      /\ Newest(store, D, hist.deleted) /\ D = Runs
  BY DEF FrontInv, Typed, StoreInv, Runs
<1>3. D \subseteq Nat /\ IsFiniteSet(D)
  BY <1>2, RunsAreNumbered DEF Runs
<1>4. /\ Shape(st, hist.begun) /\ Newest(st, D, hist.deleted)
      /\ Cardinality(DOMAIN st.rows) =< Keep /\ Held(st, hist.begun, D \ hist.gone)
  BY <1>2, <1>3, RestartedKeeps
<1>5. RowsStopped(st, store)
  BY <1>2, <1>3, RestartedKeeps DEF RowsStopped, Stopped
<1> HIDE DEF st
<1>6. StoreInv'
  BY <1>1, <1>2, <1>4, StoreKeeps
<1>7. /\ store' = st /\ hist' \in Histories /\ hist'.begun = hist.begun
      /\ hist'.deleted = hist.deleted /\ hist'.hot = hist.hot /\ hist'.epoch = hist.epoch
      /\ hist.gone \subseteq hist'.gone /\ Runs' = Runs
  BY <1>1, <1>2, StoreFields DEF Runs
<1>8. OneRunPerKey'
  BY <1>7, KeysKept DEF FrontInv
<1>9. Typed'
  BY <1>1, <1>7, NoTask DEF FrontInv, Typed
<1>10. DeskInv'
  BY <1>1, <1>7, DeskSame DEF FrontInv
<1>11. \A x \in Runs : StatusOf(x)' \in {Stopped(StatusOf(x)), "absent"}
  BY <1>5, <1>7 DEF StatusOf, Rows, RowsStopped
<1>12. \A x \in Runs : Fine(StatusOf(x)', live'[x], hist'.begun[x], Due(x)',
                           x \in hist'.deleted \ hist'.hot)
  BY <1>1, <1>7, <1>11, CrashFine, NoTask
<1>13. RunsFine'
  BY <1>7, <1>12 DEF RunsFine, Fine
<1>14. QED
  BY <1>6, <1>8, <1>9, <1>10, <1>13 DEF FrontInv

-----------------------------------------------------------------------------
(* Starting a run.                                                         *)

NewId == Len(hist.begun) + 1
WithRun(key, t) == [hist EXCEPT !.begun = Append(@, Begun(key, t))]
NewStore(t) == Saved(store, NewId, Row("PENDING", t))

\* The run that a request begins, in the history.
LEMMA NewRunBegun ==
  ASSUME FrontInv, NEW key \in KeyNames, NEW t \in Tickets \cup {NoTicket}
  PROVE  /\ WithRun(key, t) \in Histories
         /\ DOMAIN WithRun(key, t).begun = Runs \cup {NewId}
         /\ NewId \in Nat /\ NewId \notin Runs /\ \A x \in Runs : x \in Nat /\ ~(x > NewId)
         /\ WithRun(key, t).begun[NewId] = Begun(key, t)
         /\ \A x \in Runs : WithRun(key, t).begun[x] = hist.begun[x]
         /\ WithRun(key, t).gone = hist.gone /\ WithRun(key, t).deleted = hist.deleted
         /\ WithRun(key, t).hot = hist.hot /\ WithRun(key, t).epoch = hist.epoch
         /\ Begun(key, t).key = key /\ Begun(key, t).ticket = t /\ Begun(key, t).sent = 0
         /\ Begun(key, t).doubled = 0
<1> DEFINE new == Begun(key, t)
           begun == Append(hist.begun, new)
<1>1. hist \in Histories /\ hist.begun \in Seq(BegunRecords) /\ hist.epoch \in Nat
  BY DEF FrontInv, Typed, Histories
<1>2. Runs = 1 .. Len(hist.begun) /\ Len(hist.begun) \in Nat
  BY <1>1, RunsAreNumbered
<1>3. /\ new \in BegunRecords /\ new.key = key /\ new.ticket = t /\ new.sent = 0
      /\ new.doubled = 0
  BY <1>1 DEF Begun, BegunRecords
<1> HIDE DEF new
<1>4. /\ begun \in Seq(BegunRecords) /\ Len(begun) = Len(hist.begun) + 1
      /\ \A x \in 1 .. Len(hist.begun) : begun[x] = hist.begun[x]
      /\ begun[Len(hist.begun) + 1] = new
  BY <1>1, <1>3, AppendProperties
<1>5. DOMAIN begun = 1 .. (Len(hist.begun) + 1)
  BY <1>4, LenProperties
<1> HIDE DEF begun
<1>6. /\ WithRun(key, t) = [hist EXCEPT !.begun = begun]
  BY DEF WithRun, begun, new
<1>7. /\ WithRun(key, t) \in Histories /\ WithRun(key, t).begun = begun
      /\ WithRun(key, t).gone = hist.gone /\ WithRun(key, t).deleted = hist.deleted
      /\ WithRun(key, t).hot = hist.hot /\ WithRun(key, t).epoch = hist.epoch
  BY <1>1, <1>4, <1>6 DEF Histories
<1>8. NewId \in Nat /\ NewId \notin Runs /\ NewId = Len(hist.begun) + 1
  BY <1>2 DEF NewId
<1>9. \A x \in Runs : x \in Nat /\ ~(x > NewId)
  BY <1>2, <1>8
<1>10. DOMAIN begun = Runs \cup {NewId}
  BY <1>2, <1>5, <1>8
<1>11. begun[NewId] = new /\ \A x \in Runs : begun[x] = hist.begun[x]
  BY <1>2, <1>4, <1>8
<1>12. QED
  BY <1>3, <1>7, <1>8, <1>9, <1>10, <1>11 DEF new

\* The store it is saved in.
LEMMA NewRunSaved ==
  ASSUME FrontInv, NEW key \in KeyNames, NEW t \in Tickets \cup {NoTicket}
  PROVE  LET st == NewStore(t)
             begun == WithRun(key, t).begun
         IN  /\ Shape(st, begun) /\ Newest(st, DOMAIN begun, hist.deleted)
             /\ Cardinality(DOMAIN st.rows) =< Keep
             /\ NewId \in DOMAIN st.rows
             /\ RowsAfter(st, store, NewId, Row("PENDING", t))
             /\ DOMAIN st.keys \subseteq DOMAIN store.keys
             /\ Held(st, begun, Runs \ hist.gone)
<1> DEFINE begun == WithRun(key, t).begun
           D == DOMAIN begun
           record == Row("PENDING", t)
<1>1. /\ D = Runs \cup {NewId} /\ NewId \in Nat /\ NewId \notin Runs
      /\ \A x \in Runs : x \in Nat /\ ~(x > NewId)
      /\ \A x \in Runs : begun[x] = hist.begun[x]
      /\ begun[NewId].ticket = t
  BY NewRunBegun
<1> HIDE DEF begun
<1>2. /\ Shape(store, hist.begun) /\ Newest(store, Runs, hist.deleted)
      /\ Held(store, hist.begun, Runs \ hist.gone) /\ DOMAIN hist.begun = Runs
      /\ DOMAIN store.rows \subseteq Runs /\ IsFiniteSet(Runs)
  BY RunsAreNumbered DEF FrontInv, Typed, StoreInv, Shape, Runs
<1>3. Shape(store, begun)
  BY <1>1, <1>2 DEF Shape
<1>4. Held(store, begun, Runs \ hist.gone)
  BY <1>1, <1>2 DEF Held
<1>5. D \subseteq Nat /\ IsFiniteSet(D) /\ NewId \in D /\ Runs \subseteq D /\ D \subseteq Runs \cup {NewId}
  BY <1>1, <1>2, FS_AddElement
<1>6. record \in Records /\ record.ticket = begun[NewId].ticket
  BY <1>1 DEF Row, Records, Statuses
<1> DEFINE st == Saved(store, NewId, record)
<1> HIDE DEF record
<1>7. /\ Shape(st, begun) /\ Newest(st, D, hist.deleted) /\ Cardinality(DOMAIN st.rows) =< Keep
      /\ RowsAfter(st, store, NewId, record) /\ DOMAIN st.keys \subseteq DOMAIN store.keys
      /\ (\A s \in DOMAIN store.rows \cup {NewId} : ~(s > NewId)) => NewId \in DOMAIN st.rows
  <2>1. Shape(st, begun) /\ Newest(st, D, hist.deleted) /\ Cardinality(DOMAIN st.rows) =< Keep
    BY <1>2, <1>3, <1>5, <1>6, SavedKeeps
  <2>2. RowsAfter(st, store, NewId, record)
    BY <1>2, <1>3, <1>5, <1>6, SavedKeeps
  <2>3. DOMAIN st.keys \subseteq DOMAIN store.keys
    BY <1>2, <1>3, <1>5, <1>6, SavedKeeps
  <2>4. (\A s \in DOMAIN store.rows \cup {NewId} : ~(s > NewId)) => NewId \in DOMAIN st.rows
    BY <1>2, <1>3, <1>5, <1>6, SavedKeeps
  <2>5. QED
    BY <2>1, <2>2, <2>3, <2>4
<1>8. Held(st, begun, Runs \ hist.gone)
  <2>1. NewId \notin (Runs \ hist.gone) \ DOMAIN store.rows
    BY <1>1
  <2>2. \A S : Held(store, begun, S) /\ NewId \notin S \ DOMAIN store.rows => Held(st, begun, S)
    BY <1>2, <1>3, <1>5, <1>6, SavedKeeps
  <2>3. QED
    BY <1>4, <2>1, <2>2
<1>9. NewId \in DOMAIN st.rows
  <2>1. \A s \in DOMAIN store.rows \cup {NewId} : ~(s > NewId)
    <3>1. ~(NewId > NewId)
      BY <1>1
    <3>2. QED
      BY <1>1, <1>2, <3>1
  <2>2. QED
    BY <1>7, <2>1
<1>10. QED
  BY <1>7, <1>8, <1>9 DEF NewStore, record, begun

\* A new run takes no key that a run still in the store has.
LEMMA NewRunKey ==
  ASSUME FrontInv, NEW key \in KeyNames, NEW t \in Tickets \cup {NoTicket},
         key = NoKey \/ Free(key), hist'.begun = WithRun(key, t).begun,
         hist.gone \subseteq hist'.gone
  PROVE  OneRunPerKey'
<1> SUFFICES ASSUME NEW r \in Runs', NEW s \in Runs', r < s, hist'.begun[r].key # NoKey,
                    hist'.begun[r].key = hist'.begun[s].key, r \notin hist'.gone
             PROVE  FALSE
  BY DEF OneRunPerKey
<1>1. /\ Runs' = Runs \cup {NewId} /\ hist'.begun[NewId].key = key
      /\ NewId \in Nat /\ NewId \notin Runs /\ \A x \in Runs : x \in Nat /\ ~(x > NewId)
      /\ \A x \in Runs : hist'.begun[x] = hist.begun[x]
  BY NewRunBegun DEF Runs
<1>2. r \in Nat /\ s \in Nat
  BY <1>1
<1>3. r \in Runs
  BY <1>1, <1>2
<1>4. CASE s \in Runs
  BY <1>1, <1>3, <1>4 DEF FrontInv, OneRunPerKey
<1>5. CASE s = NewId
  <2>1. hist.begun[r].key = key /\ key # NoKey /\ r \notin hist.gone
    BY <1>1, <1>3, <1>5
  <2>2. r \in DOMAIN store.rows /\ Held(store, hist.begun, Runs \ hist.gone)
    BY <1>3, <2>1 DEF FrontInv, StoreInv, Rows
  <2>3. key \in DOMAIN store.keys
    BY <1>3, <2>1, <2>2 DEF Held
  <2>4. QED
    BY <2>1, <2>3 DEF Free
<1>6. QED
  BY <1>1, <1>4, <1>5

\* What the desk has to know of a new run.
LEMMA NewRunDesk ==
  ASSUME FrontInv, NEW key \in KeyNames, NEW t \in Tickets \cup {NoTicket}, UNCHANGED desk,
         hist'.begun = WithRun(key, t).begun, hist'.epoch = hist.epoch
  PROVE  DeskInv'
<1>1. /\ Runs' = Runs \cup {NewId} /\ hist'.begun[NewId] = Begun(key, t)
      /\ \A x \in Runs : hist'.begun[x] = hist.begun[x]
  BY NewRunBegun DEF Runs
<1>2. hist.epoch \in Nat \ {0}
  BY DEF FrontInv, Typed, Histories
<1>3. ASSUME NEW r \in Runs'
      PROVE  hist'.begun[r].epoch =< hist'.epoch
             /\ (Due(r)' => hist'.begun[r].ticket \in DOMAIN desk.tickets)
  <2>1. CASE r \in Runs
    BY <1>1, <2>1 DEF FrontInv, DeskInv, Due
  <2>2. CASE r = NewId
    <3>1. hist'.begun[r].ticket = t
          /\ hist'.begun[r].epoch = IF t \in DOMAIN desk.tickets THEN hist.epoch ELSE 0
      BY <1>1, <2>2 DEF Begun
    <3>2. QED
      BY <1>2, <3>1 DEF Due
  <2>3. QED
    BY <1>1, <2>1, <2>2
<1>4. QED
  BY <1>3 DEF FrontInv, DeskInv, SolvedMeansDelivered

LEMMA CreateKeeps ==
  ASSUME FrontInv, NEW key \in KeyNames, NEW t \in Tickets \cup {NoTicket}, Create(key, t)
  PROVE  FrontInv'
<1> DEFINE h == WithRun(key, t)
           mid == NewStore(t)
           st == IF key = NoKey THEN mid ELSE PutKey(mid, key, NewId)
<1>0. PICK n : n = NewId
  OBVIOUS
<1>1. Free(key) /\ Store(st, h) /\ live' = Upsert(live, NewId, Fresh) /\ UNCHANGED <<desk, crashes>>
  BY DEF Create, NewId, WithRun, NewStore
<1>2. /\ h \in Histories /\ DOMAIN h.begun = Runs \cup {NewId} /\ NewId \notin Runs
      /\ h.begun[NewId] = Begun(key, t) /\ \A x \in Runs : h.begun[x] = hist.begun[x]
      /\ h.gone = hist.gone /\ h.deleted = hist.deleted /\ h.hot = hist.hot
      /\ h.epoch = hist.epoch /\ h.begun[NewId].key = key /\ h.begun[NewId].sent = 0
      /\ h.begun[NewId].doubled = 0
  BY NewRunBegun
<1>3. /\ Shape(mid, h.begun) /\ Newest(mid, DOMAIN h.begun, hist.deleted)
      /\ Cardinality(DOMAIN mid.rows) =< Keep /\ NewId \in DOMAIN mid.rows
      /\ RowsAfter(mid, store, NewId, Row("PENDING", t))
      /\ DOMAIN mid.keys \subseteq DOMAIN store.keys /\ Held(mid, h.begun, Runs \ hist.gone)
  BY NewRunSaved
<1> HIDE DEF h, mid
<1>4. /\ st.rows = mid.rows
      /\ st.keys = IF key = NoKey THEN mid.keys ELSE Upsert(mid.keys, key, NewId)
      /\ st = [rows |-> st.rows, keys |-> st.keys]
  BY <1>3 DEF Shape, PutKey
<1> HIDE DEF st
<1>5. Shape(st, h.begun)
  <2>1. st.keys \in [DOMAIN st.keys -> DOMAIN st.rows]
    BY <1>3, <1>4 DEF Shape, Upsert
  <2>2. QED
    BY <1>3, <1>4, <2>1 DEF Shape
<1>6. Held(st, h.begun, DOMAIN h.begun \ h.gone)
  <2> SUFFICES ASSUME NEW r \in (DOMAIN h.begun \ h.gone) \cap DOMAIN st.rows,
                      h.begun[r].key # NoKey
               PROVE  h.begun[r].key \in DOMAIN st.keys /\ st.keys[h.begun[r].key] = r
    BY DEF Held
  <2>1. CASE r = NewId
    BY <1>2, <1>4, <2>1 DEF Upsert
  <2>2. CASE r \in Runs
    <3>1. h.begun[r].key \in DOMAIN mid.keys /\ mid.keys[h.begun[r].key] = r
      BY <1>2, <1>3, <1>4, <2>2 DEF Held
    <3>2. h.begun[r].key # key
      BY <1>1, <1>3, <3>1 DEF Free
    <3>3. QED
      BY <1>4, <3>1, <3>2 DEF Upsert
  <2>3. QED
    BY <1>2, <2>1, <2>2
<1>7. Newest(st, DOMAIN h.begun, h.deleted) /\ Cardinality(DOMAIN st.rows) =< Keep
  BY <1>2, <1>3, <1>4 DEF Newest
<1>8. StoreInv'
  BY <1>1, <1>2, <1>5, <1>6, <1>7, StoreKeeps
<1>9. /\ store' = st /\ hist' \in Histories /\ hist'.begun = h.begun
      /\ hist'.deleted = hist.deleted /\ hist'.hot = hist.hot /\ hist'.epoch = hist.epoch
      /\ hist.gone \subseteq hist'.gone
  BY <1>1, <1>2, StoreFields
<1>10. OneRunPerKey'
  BY <1>1, <1>9, NewRunKey DEF h
<1>11. DeskInv'
  BY <1>1, <1>9, NewRunDesk DEF h
<1>12. Typed /\ Runs' = Runs \cup {n}
  BY <1>0, <1>2, <1>9 DEF FrontInv, Runs
<1>13. /\ live' \in [Runs \cup {n} -> Counters] /\ live'[n] = Fresh
       /\ \A x \in Runs \ {n} : live'[x] = live[x]
  <2>1. Fresh \in Counters
    BY DEF Fresh, Idle, Counters
  <2>2. live \in [Runs -> Counters] /\ DOMAIN live = Runs
    BY <1>12 DEF Typed
  <2> HIDE DEF Fresh
  <2>3. live' = [x \in Runs \cup {n} |-> IF x = n THEN Fresh ELSE live[x]]
    BY <1>0, <1>1, <2>2 DEF Upsert
  <2>4. QED
    BY <2>1, <2>2, <2>3
<1>14. Typed'
  BY <1>0, <1>9, <1>12, <1>13 DEF Typed
<1>15. RunsFine'
  <2>1. StatusOf(n)' = "PENDING"
    BY <1>0, <1>3, <1>4, <1>9 DEF StatusOf, Rows, RowsAfter, Row
  <2>2. \A x \in Runs \ {n} : StatusOf(x)' = StatusOf(x) \/ StatusOf(x)' = "absent"
    BY <1>0, <1>3, <1>4, <1>9 DEF StatusOf, Rows, RowsAfter
  <2>3. hist'.begun[n].sent = 0 /\ hist'.begun[n].doubled = 0 /\ n \notin hist'.deleted
    BY <1>0, <1>2, <1>9, <1>12 DEF Typed
  <2>4. Fresh["queued"] = 1 /\ Fresh["work"] = 0 /\ Fresh["answered"] = 0
    BY DEF Fresh, Idle, Places
  <2>5. Fine(StatusOf(n)', live'[n], hist'.begun[n], Due(n)', n \in hist'.deleted \ hist'.hot)
    <3>1. (n \in hist'.deleted \ hist'.hot) = FALSE
      BY <2>3
    <3>2. QED
      BY <1>13, <2>1, <2>3, <2>4, <3>1 DEF Fine
  <2>6. \A x \in Runs \ {n} : /\ hist'.begun[x] = hist.begun[x]
                                  /\ (x \in hist'.deleted \ hist'.hot) = (x \in hist.deleted \ hist.hot)
    BY <1>0, <1>2, <1>9
  <2>7. QED
    BY <1>0, <1>9, <1>12, <1>13, <2>2, <2>5, <2>6, OthersFine DEF FrontInv
<1>16. QED
  BY <1>0, <1>8, <1>10, <1>11, <1>14, <1>15 DEF FrontInv

LEMMA CrashInCreateKeeps ==
  ASSUME FrontInv, NEW key, NEW t \in Tickets \cup {NoTicket}, CrashInCreate(key, t)
  PROVE  FrontInv'
<1> DEFINE h == WithRun(NoKey, t)
           mid == NewStore(t)
           st == Restarted(mid)
<1>0. PICK n : n = NewId
  OBVIOUS
<1>1. Store(st, h) /\ Stop(Runs \cup {n}) /\ UNCHANGED desk
  BY <1>0 DEF CrashInCreate, NewId, WithRun, NewStore, FrontInv, Typed
<1>2. NoKey \in KeyNames
  BY DEF KeyNames
<1>3. /\ h \in Histories /\ DOMAIN h.begun = Runs \cup {NewId} /\ NewId \notin Runs
      /\ \A x \in Runs : h.begun[x] = hist.begun[x]
      /\ h.gone = hist.gone /\ h.deleted = hist.deleted /\ h.hot = hist.hot
      /\ h.epoch = hist.epoch /\ h.begun[NewId].key = NoKey /\ h.begun[NewId].sent = 0
      /\ h.begun[NewId].doubled = 0
  BY <1>2, NewRunBegun
<1>4. /\ Shape(mid, h.begun) /\ Newest(mid, DOMAIN h.begun, hist.deleted)
      /\ RowsAfter(mid, store, NewId, Row("PENDING", t)) /\ Held(mid, h.begun, Runs \ hist.gone)
  BY <1>2, NewRunSaved
<1>5. DOMAIN h.begun \subseteq Nat /\ IsFiniteSet(DOMAIN h.begun)
  <2>1. IsFiniteSet(Runs) /\ Runs \subseteq Nat /\ NewId \in Nat
    BY <1>2, NewRunBegun, RunsAreNumbered DEF FrontInv, Typed
  <2>2. QED
    BY <1>3, <2>1, FS_AddElement
<1> HIDE DEF h, mid
<1>6. /\ Shape(st, h.begun) /\ Newest(st, DOMAIN h.begun, hist.deleted)
      /\ Cardinality(DOMAIN st.rows) =< Keep /\ Held(st, h.begun, Runs \ hist.gone)
  BY <1>4, <1>5, RestartedKeeps
<1>7. RowsStopped(st, mid)
  BY <1>4, <1>5, RestartedKeeps DEF RowsStopped, Stopped
<1> HIDE DEF st
<1>8. Held(st, h.begun, DOMAIN h.begun \ h.gone)
  BY <1>3, <1>6 DEF Held
<1>9. StoreInv'
  BY <1>1, <1>3, <1>6, <1>8, StoreKeeps
<1>10. /\ store' = st /\ hist' \in Histories /\ hist'.begun = h.begun
       /\ hist'.deleted = hist.deleted /\ hist'.hot = hist.hot /\ hist'.epoch = hist.epoch
       /\ hist.gone \subseteq hist'.gone
  BY <1>1, <1>3, StoreFields
<1>11. OneRunPerKey'
  BY <1>2, <1>10, NewRunKey DEF h
<1>12. DeskInv'
  BY <1>1, <1>2, <1>10, NewRunDesk DEF h
<1>13. Typed /\ Runs' = Runs \cup {n}
  BY <1>0, <1>3, <1>10 DEF FrontInv, Runs
<1>14. Typed'
  BY <1>0, <1>1, <1>10, <1>13, NoTask DEF Typed
<1>15. RunsFine'
  <2>1. ASSUME NEW x \in Runs
        PROVE  Fine(StatusOf(x)', live'[x], hist'.begun[x], Due(x)',
                    x \in hist'.deleted \ hist'.hot)
    <3>1. StatusOf(x)' \in {Stopped(StatusOf(x)), "absent"}
      BY <1>0, <1>3, <1>4, <1>7, <1>10 DEF StatusOf, Rows, RowsStopped, RowsAfter
    <3>2. hist'.begun[x] = hist.begun[x] /\ live'[x] = Idle
      BY <1>0, <1>1, <1>3, <1>10, NoTask
    <3>3. QED
      BY <1>0, <1>1, <1>10, <3>1, <3>2, CrashFine
  <2>2. Fine(StatusOf(n)', live'[n], hist'.begun[n], Due(n)', n \in hist'.deleted \ hist'.hot)
    <3>1. StatusOf(n)' \in {"FAILED", "absent"}
      BY <1>0, <1>4, <1>7, <1>10 DEF StatusOf, Rows, RowsStopped, RowsAfter, Row, Stopped, Active
    <3>2. live'[n] = Idle /\ Idle["work"] = 0 /\ Idle["answered"] = 0
      BY <1>1, NoTask DEF Idle, Places
    <3>3. /\ hist'.begun[n].sent = 0 /\ hist'.begun[n].doubled = 0
          /\ (n \in hist'.deleted \ hist'.hot) = FALSE
      BY <1>0, <1>3, <1>10, <1>13 DEF Typed
    <3>4. QED
      BY <3>1, <3>2, <3>3 DEF Fine
  <2>3. QED
    BY <1>0, <1>13, <2>1, <2>2 DEF RunsFine, Fine
<1>16. QED
  BY <1>0, <1>9, <1>11, <1>12, <1>14, <1>15 DEF FrontInv

-----------------------------------------------------------------------------
(* Zendesk.                                                                *)

\* A step that leaves runs, tasks and store alone.
LEMMA DeskOnly ==
  ASSUME FrontInv, UNCHANGED <<store, live, crashes>>, hist' \in Histories,
         hist'.begun = hist.begun, hist'.gone = hist.gone, hist'.deleted = hist.deleted,
         hist'.hot = hist.hot, \A r \in Runs : Due(r)' => Due(r), DeskInv'
  PROVE  FrontInv'
<1>1. Runs' = Runs /\ Rows' = Rows
  BY DEF Runs, Rows
<1>2. Typed'
  BY <1>1 DEF FrontInv, Typed
<1>3. StoreInv'
  BY <1>1 DEF FrontInv, StoreInv
<1>4. OneRunPerKey'
  BY <1>1, KeysKept DEF FrontInv
<1>5. RunsFine'
  <2>1. ASSUME NEW x \in Runs
        PROVE  Fine(StatusOf(x)', live'[x], hist'.begun[x], Due(x)',
                    x \in hist'.deleted \ hist'.hot)
    <3>1. Fine(StatusOf(x), live[x], hist.begun[x], Due(x), x \in hist.deleted \ hist.hot)
      BY DEF FrontInv, RunsFine
    <3>2. StatusOf(x)' = StatusOf(x) /\ live'[x] = live[x] /\ (Due(x)' => Due(x))
      BY <1>1 DEF StatusOf
    <3>3. QED
      BY <3>1, <3>2 DEF Fine
  <2>2. QED
    BY <1>1, <2>1 DEF RunsFine, Fine
<1>6. QED
  BY <1>2, <1>3, <1>4, <1>5 DEF FrontInv

\* More tickets may come, and those that are solved stay with their deliveries.
LEMMA TicketsArrive ==
  ASSUME FrontInv, NEW new \in SUBSET Tickets,
         desk' = [Inserted(desk, new) EXCEPT !.connected = TRUE], UNCHANGED <<store, live, hist, crashes>>
  PROVE  FrontInv'
<1> DEFINE tickets == [t \in new \cup DOMAIN desk.tickets |->
                         IF t \in new THEN "open" ELSE desk.tickets[t]]
<1>1. desk' = [connected |-> TRUE, tickets |-> tickets, deliveries |-> desk.deliveries]
  BY DEF Inserted, FrontInv, DeskInv
<1>2. /\ desk'.connected = TRUE /\ desk'.deliveries = desk.deliveries
      /\ DOMAIN desk'.tickets = new \cup DOMAIN desk.tickets
      /\ \A t \in DOMAIN desk'.tickets :
           desk'.tickets[t] = IF t \in new THEN "open" ELSE desk.tickets[t]
      /\ desk' = [connected |-> desk'.connected, tickets |-> desk'.tickets,
                  deliveries |-> desk'.deliveries]
      /\ desk'.tickets = [t \in DOMAIN desk'.tickets |-> desk'.tickets[t]]
  <2>1. /\ DOMAIN tickets = new \cup DOMAIN desk.tickets
        /\ \A t \in DOMAIN tickets : tickets[t] = IF t \in new THEN "open" ELSE desk.tickets[t]
        /\ tickets = [t \in DOMAIN tickets |-> tickets[t]]
    OBVIOUS
  <2> HIDE DEF tickets
  <2>2. desk'.connected = TRUE
    BY <1>1
  <2>3. desk'.tickets = tickets /\ desk'.deliveries = desk.deliveries
    BY <1>1
  <2>4. desk' = [connected |-> desk'.connected, tickets |-> desk'.tickets,
                 deliveries |-> desk'.deliveries]
    BY <1>1
  <2>5. QED
    BY <2>1, <2>2, <2>3, <2>4
<1>3. SolvedMeansDelivered'
  BY <1>2 DEF FrontInv, DeskInv, SolvedMeansDelivered
<1>4. Runs' = Runs /\ \A r \in Runs : Due(r)' = Due(r)
  BY DEF Runs, Due
<1>5. \A r \in Runs : hist.begun[r].epoch =< hist.epoch
                      /\ (Due(r) => hist.begun[r].ticket \in DOMAIN desk.tickets)
  BY DEF FrontInv, DeskInv
<1>6. DOMAIN desk'.tickets \subseteq Tickets /\ desk'.connected \in BOOLEAN
  BY <1>2 DEF FrontInv, DeskInv
<1>7. DeskInv'
  BY <1>2, <1>3, <1>4, <1>5, <1>6 DEF DeskInv
<1>8. QED
  BY <1>4, <1>7, DeskOnly DEF FrontInv, Typed

LEMMA ConnectKeeps ==
  ASSUME FrontInv, Connect
  PROVE  FrontInv'
<1>1. desk' = Connected(desk) /\ UNCHANGED <<store, live, hist, crashes>>
  BY DEF Connect, Desk
<1>2. CASE Open(desk) = {}
  <2>1. desk' = [Inserted(desk, Samples) EXCEPT !.connected = TRUE]
    BY <1>1, <1>2 DEF Connected
  <2>2. QED
    BY <1>1, <2>1, ZendeskAssumption, TicketsArrive
<1>3. CASE Open(desk) # {}
  <2>1. desk' = [desk EXCEPT !.connected = TRUE]
    BY <1>1, <1>3 DEF Connected
  <2>2. Inserted(desk, {}) = desk
    <3>1. [t \in {} \cup DOMAIN desk.tickets |-> IF t \in {} THEN "open" ELSE desk.tickets[t]]
            = desk.tickets
      BY DEF FrontInv, DeskInv
    <3>2. QED
      BY <3>1 DEF Inserted, FrontInv, DeskInv
  <2>3. QED
    BY <1>1, <2>1, <2>2, TicketsArrive
<1>4. QED
  BY <1>2, <1>3

LEMMA WebhookKeeps ==
  ASSUME FrontInv, NEW t \in Tickets, Webhook(t)
  PROVE  FrontInv'
<1>1. desk' = [Inserted(desk, {t}) EXCEPT !.connected = TRUE] /\ UNCHANGED <<store, live, hist, crashes>>
  BY DEF Webhook, Desk, Ingested
<1>2. QED
  BY <1>1, TicketsArrive

LEMMA NoTickets == EmptyDesk.tickets = <<>> /\ DOMAIN EmptyDesk.tickets = {}
                   /\ EmptyDesk.tickets = [t \in {} |-> EmptyDesk.tickets[t]]
<1>1. EmptyDesk.tickets = <<>> /\ DOMAIN EmptyDesk.tickets = {}
  BY DEF EmptyDesk
<1>2. QED
  BY <1>1

\* Without Zendesk no run has to answer a ticket any more.
LEMMA DisconnectKeeps ==
  ASSUME FrontInv, Disconnect
  PROVE  FrontInv'
<1>1. /\ desk' = EmptyDesk /\ UNCHANGED <<store, live, crashes>>
      /\ hist' = [hist EXCEPT !.epoch = @ + 1]
  BY DEF Disconnect, Desk, Disconnected
<1>2. hist \in Histories /\ hist.epoch \in Nat
  BY DEF FrontInv, Typed, Histories
<1>3. hist.epoch + 1 \in Nat \ {0}
  BY <1>2
<1>4. /\ hist' \in Histories /\ hist'.begun = hist.begun /\ hist'.gone = hist.gone
      /\ hist'.deleted = hist.deleted /\ hist'.hot = hist.hot /\ hist'.epoch = hist.epoch + 1
  BY <1>1, <1>2, <1>3 DEF Histories
<1>5. \A r \in Runs : hist'.begun[r].epoch =< hist.epoch + 1 /\ ~Due(r)'
  <2> SUFFICES ASSUME NEW r \in Runs
               PROVE  hist'.begun[r].epoch =< hist.epoch + 1 /\ hist'.begun[r].epoch # hist'.epoch
    BY DEF Due
  <2>1. hist.begun[r].epoch =< hist.epoch
    BY DEF FrontInv, DeskInv
  <2>2. hist.begun[r].epoch \in Nat
    BY <1>2, RunsAreNumbered DEF BegunRecords
  <2>3. QED
    BY <1>2, <1>4, <2>1, <2>2
<1>6. DeskInv'
  <2>1. Runs' = Runs
    BY <1>4 DEF Runs
  <2>2. desk' = [connected |-> desk'.connected, tickets |-> desk'.tickets,
                 deliveries |-> desk'.deliveries] /\ desk'.connected = FALSE
    BY <1>1 DEF EmptyDesk
  <2>3. DOMAIN desk'.tickets = {} /\ desk'.tickets = [t \in DOMAIN desk'.tickets |-> desk'.tickets[t]]
    BY <1>1, NoTickets
  <2>4. SolvedMeansDelivered'
    BY <2>3 DEF SolvedMeansDelivered
  <2>5. QED
    BY <1>4, <1>5, <2>1, <2>2, <2>3, <2>4 DEF DeskInv
<1>7. QED
  BY <1>1, <1>4, <1>5, <1>6, DeskOnly

-----------------------------------------------------------------------------
(* Theorems.                                                               *)

LEMMA InitInv == Init => FrontInv
<1> SUFFICES ASSUME Init
             PROVE  FrontInv
  OBVIOUS
<1>1. /\ Rows = <<>> /\ store.keys = <<>> /\ store = [rows |-> Rows, keys |-> store.keys]
      /\ DOMAIN Rows = {} /\ DOMAIN store.keys = {} /\ live = <<>> /\ DOMAIN live = {}
      /\ hist.begun = <<>> /\ hist.deleted = {} /\ desk = EmptyDesk
  BY DEF Init, EmptyStore, Rows
<1>2. Runs = {}
  BY <1>1 DEF Runs
<1>3. <<>> \in Seq(BegunRecords) /\ {} \in SUBSET Nat /\ 1 \in Nat \ {0} /\ 0 \in Nat
  BY EmptySeq
<1>4. hist \in Histories
  BY <1>3 DEF Init, Histories
<1>5. Typed
  <2>1. live \in [{} -> Counters]
    BY <1>1
  <2>2. QED
    BY <1>1, <1>2, <1>4, <2>1 DEF Typed
<1>6. StoreInv
  <2>1. store.rows = [r \in {} |-> store.rows[r]] /\ store.keys = [k \in {} |-> store.keys[k]]
    BY <1>1 DEF Rows
  <2>2. Shape(store, hist.begun)
    BY <1>1, <2>1 DEF Shape, Rows
  <2>3. Cardinality(DOMAIN Rows) =< Keep
    BY <1>1, FS_EmptySet, RunStoreAssumption
  <2>4. QED
    BY <1>1, <1>2, <2>2, <2>3 DEF StoreInv, Held, Newest, Rows
<1>7. OneRunPerKey /\ RunsFine
  BY <1>2 DEF OneRunPerKey, RunsFine
<1>8. DeskInv
  <2>1. desk = [connected |-> desk.connected, tickets |-> desk.tickets,
                deliveries |-> desk.deliveries] /\ desk.connected = FALSE
    BY <1>1 DEF EmptyDesk
  <2>2. QED
    BY <1>1, <1>2, <2>1, NoTickets DEF DeskInv, SolvedMeansDelivered
<1>9. QED
  BY <1>5, <1>6, <1>7, <1>8 DEF FrontInv

LEMMA ClientKeeps ==
  ASSUME FrontInv, ClientStep
  PROVE  FrontInv'
<1>1. ASSUME NEW q \in Requests, StartRun(q.key, q.ticket) \/ CrashInCreate(q.key, q.ticket)
      PROVE  FrontInv'
  <2>1. q.key \in KeyNames /\ q.ticket \in Tickets \cup {NoTicket}
    BY FrontDeskAssumption DEF KeyNames
  <2>2. QED
    BY <1>1, <2>1, CreateKeeps, CrashInCreateKeeps DEF StartRun
<1>2. ASSUME NEW header \in Headers, NEW t \in Tickets, StartTicket(header, t)
      PROVE  FrontInv'
  <2>1. (IF header = NoKey THEN t ELSE header) \in KeyNames
    BY DEF KeyNames
  <2>2. QED
    BY <1>2, <2>1, CreateKeeps DEF StartTicket
<1>3. ASSUME NEW r \in DOMAIN store.rows, DeleteRun(r) \/ Approve(r) \/ Resume(r)
      PROVE  FrontInv'
  BY <1>3, DeleteKeeps, QueueKeeps
<1>4. QED
  BY <1>1, <1>2, <1>3, ConnectKeeps, DisconnectKeeps, WebhookKeeps DEF ClientStep

LEMMA NextInv == FrontInv /\ [Next]_vars => FrontInv'
<1> SUFFICES ASSUME FrontInv, [Next]_vars
             PROVE  FrontInv'
  OBVIOUS
<1>1. CASE UNCHANGED vars
  <2>1. /\ UNCHANGED <<store, live, crashes, hist, desk>> /\ hist \in Histories
    BY <1>1 DEF vars, FrontInv, Typed
  <2>2. Runs' = Runs /\ \A r \in Runs : Due(r)' = Due(r)
    BY <2>1 DEF Runs, Due
  <2>3. DeskInv'
    BY <2>1, <2>2, DeskSame DEF FrontInv
  <2>4. QED
    BY <2>1, <2>2, <2>3, DeskOnly
<1>2. CASE ClientStep
  BY <1>2, ClientKeeps
<1>3. CASE CrashRestart
  BY <1>3, CrashKeeps
<1>4. ASSUME NEW r \in Runs, TaskStep(r)
      PROVE  FrontInv'
  <2>1. CASE Execute(r) \/ ExecuteBeside(r) \/ ExecuteNothing(r)
    BY <2>1, ExecuteKeeps, ExecuteBesideKeeps, ExecuteNothingKeeps
  <2>2. CASE Decide(r) \/ Reject(r) \/ Refuse(r)
    BY <2>2, DecideKeeps, RejectKeeps, RefuseKeeps
  <2>3. CASE \E status \in {"RUNNING", "RETRYING"} : SaveProgress(r, status)
    BY <2>3, ProgressKeeps
  <2>4. CASE Pause(r) \/ Fail(r) \/ Complete(r)
    BY <2>4, LeaveKeeps
  <2>5. CASE \E reply \in BOOLEAN : Deliver(r, reply)
    BY <2>5, DeliverKeeps
  <2>6. QED
    BY <1>4, <2>1, <2>2, <2>3, <2>4, <2>5 DEF TaskStep
<1>5. QED
  BY <1>1, <1>2, <1>3, <1>4 DEF Next

LEMMA Invariant == Spec => []FrontInv
<1>1. QED
  BY InitInv, NextInv, PTL DEF Spec

\* The store never holds more rows than it keeps, all of them of runs that were begun.
THEOREM TypeCorrect == Spec => []TypeOK
<1>1. FrontInv => TypeOK
  BY DEF FrontInv, Typed, Counters, StoreInv, Shape, DeskInv, TypeOK, Rows, Runs
<1>2. QED
  BY <1>1, Invariant, PTL

\* A known key leads to a run that is in the store: prunes and deletions take the keys along.
THEOREM KeysLeadToRuns == Spec => []KeysResolve
<1>1. FrontInv => KeysResolve
  BY DEF FrontInv, StoreInv, Shape, KeysResolve, Rows
<1>2. QED
  BY <1>1, Invariant, PTL

\* A key starts a second run only when the first one has left the store.
THEOREM KeyStartsOneRun == Spec => []OneRunPerKey
<1>1. QED
  BY Invariant, PTL DEF FrontInv

\* The newest runs are kept unless they were deleted, whatever older tasks write meanwhile.
THEOREM NewestAreKept == Spec => []NewestKept
<1>1. FrontInv => NewestKept
  BY DEF FrontInv, StoreInv, Newest, NewestKept, Rows
<1>2. QED
  BY <1>1, Invariant, PTL

\* A run deleted while nothing was under way does not come back.
THEOREM DeletedIsGone == Spec => []DeletedStaysDeleted
<1>1. FrontInv => DeletedStaysDeleted
  <2> SUFFICES ASSUME FrontInv, NEW r \in hist.deleted \cap DOMAIN Rows, r \notin hist.hot
               PROVE  FALSE
    BY DEF DeletedStaysDeleted
  <2>1. Fine(StatusOf(r), live[r], hist.begun[r], Due(r), r \in hist.deleted \ hist.hot)
    BY DEF FrontInv, Typed, RunsFine
  <2>2. StatusOf(r) = "absent"
    BY <2>1 DEF Fine
  <2>3. StatusOf(r) \in Statuses
    BY DEF StatusOf, FrontInv, StoreInv, Shape, Rows, Records
  <2>4. QED
    BY <2>2, <2>3 DEF Statuses
<1>2. QED
  BY <1>1, Invariant, PTL

\* A row that says PENDING has a task waiting for it, and one that says RUNNING or RETRYING has
\* a loop, however many tasks come and go.
THEOREM NoGhosts == Spec => []NoGhostRow
<1>1. FrontInv => NoGhostRow
  <2> SUFFICES ASSUME FrontInv, NEW r \in DOMAIN Rows
               PROVE  /\ Rows[r].status = "PENDING" => At(r, "queued")
                      /\ Rows[r].status \in {"RUNNING", "RETRYING"} => Loops(r) > 0
    BY DEF NoGhostRow
  <2>1. r \in Runs /\ StatusOf(r) = Rows[r].status
    BY DEF FrontInv, StoreInv, Shape, Rows, Runs, StatusOf
  <2>2. QED
    BY <2>1 DEF FrontInv, RunsFine, Fine, At, Loops
<1>2. QED
  BY <1>1, Invariant, PTL

\* Only execute() on a row that says it is being worked on lets a run answer once more.
THEOREM AnswersPerLoop == Spec => []OneAnswerPerLoop
<1>1. FrontInv => OneAnswerPerLoop
  <2> SUFFICES ASSUME FrontInv, NEW r \in Runs
               PROVE  hist.begun[r].sent =< 1 + hist.begun[r].doubled
    BY DEF OneAnswerPerLoop
  <2>1. /\ Fine(StatusOf(r), live[r], hist.begun[r], Due(r), r \in hist.deleted \ hist.hot)
        /\ live[r]["work"] \in Nat
        /\ hist.begun[r].sent \in Nat /\ hist.begun[r].doubled \in Nat
    BY FineNow DEF Places
  <2>2. QED
    BY <2>1 DEF Fine
<1>2. QED
  BY <1>1, Invariant, PTL

\* COMPLETED means answered, as long as there was a reply, and Zendesk knew the ticket and
\* stayed connected.
THEOREM CompletedIsAnswered == Spec => []CompletedAnswersTicket
<1>1. FrontInv => CompletedAnswersTicket
  <2> SUFFICES ASSUME FrontInv, NEW r \in DOMAIN Rows, Rows[r].status = "COMPLETED",
                      Rows[r].ticket # NoTicket, hist.begun[r].epoch = hist.epoch,
                      ~hist.begun[r].mute
               PROVE  hist.begun[r].sent >= 1
    BY DEF CompletedAnswersTicket
  <2>1. r \in Runs /\ Rows[r].ticket = hist.begun[r].ticket
    BY DEF FrontInv, StoreInv, Shape, Rows, Runs
  <2>2. Due(r) /\ StatusOf(r) = "COMPLETED"
    BY <2>1 DEF Due, StatusOf
  <2>3. hist.begun[r].sent > 0 /\ hist.begun[r].sent \in Nat
    BY <2>1, <2>2, FineNow DEF Fine
  <2>4. QED
    BY <2>3
<1>2. QED
  BY <1>1, Invariant, PTL

\* No ticket is solved without a delivery, although disconnecting forgets both.
THEOREM SolvedIsDelivered == Spec => []SolvedMeansDelivered
<1>1. QED
  BY Invariant, PTL DEF FrontInv, DeskInv
=============================================================================
