-------------------------------- MODULE Decay --------------------------------
(***************************************************************************)
(* The statements that lock many rows of facts.  A decay task wakes up,     *)
(* flushes the use counts that searches have sent it and walks the table in *)
(* batches by id; both statements take their row locks in the order of the  *)
(* ids.  Beside them an author merge and the attribution repair update the  *)
(* rows of one author, in whatever order the planner finds them, and other  *)
(* sessions insert, hide, show and erase single rows.                       *)
(***************************************************************************)
EXTENDS Naturals, FiniteSets, SequencesExt

CONSTANTS FactIds,    \* ids, in the order of their numbers
          Tasks,      \* decay tasks, one per running service
          Movers,     \* author merges and repairs
          BatchSize,  \* [decay] batch_size
          Clamp,      \* the most rows select_decay_batch hands out (5000)
          MaxMoves    \* bound: statements of the movers

DecayAssumption ==
  /\ FactIds \subseteq Nat \ {0} /\ IsFiniteSet(FactIds)
  /\ BatchSize \in Nat /\ Clamp \in Nat \ {0} /\ Tasks \cap Movers = {}

VARIABLES row,     \* per id: absent, live or hidden
          stmt,    \* per session: the locks it has and those it still wants, in order
          tick,    \* per task: where its walk is
          due,     \* per task: rows live ever since its walk began, not yet updated by it
          moves

decayVars == <<row, stmt, tick, due, moves>>
Sessions == Tasks \cup Movers

Live == {f \in FactIds : row[f] = "live"}
Standing == {f \in FactIds : row[f] # "absent"}
InOrder(S) == CHOOSE q \in SetToSeqs(S) : \A i, j \in 1..Len(q) : i < j => q[i] < q[j]
NoStatement == [held |-> {}, want |-> <<>>]
TaskAsleep == [pc |-> "asleep", after |-> 0, batch |-> {}]

HeldBy(f) == {s \in Sessions : f \in stmt[s].held}
Asks(s) == stmt[s].want # <<>>
Wanted(s) == Head(stmt[s].want)
\* s waits for the holder of the row its statement comes to next.
Blocked(s) == Asks(s) /\ HeldBy(Wanted(s)) \ {s} # {}
\* Sessions that wait for one another in a ring.
Ring(S) == S # {} /\ \A s \in S : Asks(s) /\ HeldBy(Wanted(s)) \cap (S \ {s}) # {}

Issued(s, want) == stmt' = [stmt EXCEPT ![s] = [held |-> {}, want |-> want]]
Ended(s) == stmt' = [stmt EXCEPT ![s] = NoStatement]
Count == moves < MaxMoves /\ moves' = moves + 1

\* One row of the statement; a row that has gone meanwhile is passed over.
Lock(s) ==
  /\ Asks(s) /\ ~Blocked(s)
  /\ stmt' = [stmt EXCEPT ![s].want = Tail(@),
                          ![s].held = IF row[Wanted(s)] = "absent" THEN @ ELSE @ \cup {Wanted(s)}]
  /\ UNCHANGED <<row, tick, due, moves>>

\* MUTANT of Flush: the rows are locked as they come.
FlushAsSent(t) ==
  /\ tick[t].pc = "asleep"
  /\ \E hits \in SUBSET Live : \E want \in SetToSeqs(hits) : Issued(t, want)
  /\ tick' = [tick EXCEPT ![t].pc = "flush"]
  /\ UNCHANGED <<row, due, moves>>

\* tick_once: drain_into_batch takes what LastUsedBumper has queued, sorted and without
\* duplicates, to apply_last_used_bumps.  What searches send is any set of live rows;
\* send_lossy drops at a full channel, so none of them is sure to be in it.
Flush(t) ==
  /\ tick[t].pc = "asleep"
  /\ \E hits \in SUBSET Live : Issued(t, InOrder(hits))
  /\ tick' = [tick EXCEPT ![t].pc = "flush"]
  /\ UNCHANGED <<row, due, moves>>

\* The flush has its locks and commits; the walk begins.
Flushed(t) ==
  /\ tick[t].pc = "flush" /\ ~Asks(t) /\ Ended(t)
  /\ tick' = [tick EXCEPT ![t].pc = "select"]
  /\ due' = [due EXCEPT ![t] = Live]
  /\ UNCHANGED <<row, moves>>

AtLeastOne(n) == IF n = 0 THEN 1 ELSE n
Limit == IF AtLeastOne(BatchSize) < Clamp THEN AtLeastOne(BatchSize) ELSE Clamp

\* MUTANT of FirstOf: the select has no ORDER BY, and the newest rows come first.
LastOf(S) == {f \in S : Cardinality({g \in S : g > f}) < Limit}

\* ORDER BY id LIMIT limit.
FirstOf(S) == {f \in S : Cardinality({g \in S : g < f}) < Limit}

\* select_decay_batch: the first live rows past after_id.
Batch(t) == FirstOf({f \in Live : f > tick[t].after})

Select(t) ==
  /\ tick[t].pc = "select"
  /\ IF Batch(t) = {}
     THEN tick' = [tick EXCEPT ![t] = TaskAsleep] /\ UNCHANGED stmt
     ELSE /\ tick' = [tick EXCEPT ![t].pc = "apply", ![t].batch = Batch(t)]
          /\ Issued(t, InOrder(Batch(t)))
  /\ UNCHANGED <<row, due, moves>>

\* apply_decay_batch commits; a batch shorter than batch_size is taken for the last.
ApplyBatch(t) ==
  /\ tick[t].pc = "apply" /\ ~Asks(t) /\ Ended(t)
  /\ due' = [due EXCEPT ![t] = @ \ tick[t].batch]
  /\ tick' = [tick EXCEPT ![t] = IF Cardinality(@.batch) < AtLeastOne(BatchSize) THEN TaskAsleep
                                 ELSE [pc |-> "select", batch |-> {},
                                       after |-> CHOOSE f \in @.batch : \A g \in @.batch : g <= f]]
  /\ UNCHANGED <<row, moves>>

\* merge_author_rows, or a chunk of the repair: the rows of one author as the planner
\* finds them; a merge goes on to those that author deleted before it commits.
Move(m) ==
  /\ stmt[m] = NoStatement /\ Count
  /\ \E S \in SUBSET Standing \ {{}} : \E want \in SetToSeqs(S) : Issued(m, want)
  /\ UNCHANGED <<row, tick, due>>

Moved(m) ==
  /\ ~Asks(m) /\ stmt[m] # NoStatement /\ Ended(m)
  /\ UNCHANGED <<row, tick, due, moves>>

\* PostgreSQL ends one of a ring: a failed flush is logged and the walk goes on, a failed
\* batch ends the tick.
Victim(s) ==
  /\ \E S \in SUBSET Sessions : s \in S /\ Ring(S)
  /\ Ended(s)
  /\ IF s \in Tasks
     THEN LET flush == tick[s].pc = "flush"
          IN /\ tick' = [tick EXCEPT ![s] = IF flush THEN [@ EXCEPT !.pc = "select"] ELSE TaskAsleep]
             /\ due' = [due EXCEPT ![s] = IF flush THEN Live ELSE {}]
     ELSE UNCHANGED <<tick, due>>
  /\ UNCHANGED <<row, moves>>

\* Another session inserts, hides, shows or erases one row.
RowChange(f, state) ==
  /\ row[f] # state /\ HeldBy(f) = {} /\ Count
  /\ row[f] = "absent" => state = "live"
  /\ row' = [row EXCEPT ![f] = state]
  /\ due' = [t \in Tasks |-> due[t] \ {f}]
  /\ UNCHANGED <<stmt, tick>>

DecayInit ==
  /\ row \in [FactIds -> {"absent", "live"}]
  /\ stmt = [s \in Sessions |-> NoStatement] /\ tick = [t \in Tasks |-> TaskAsleep]
  /\ due = [t \in Tasks |-> {}] /\ moves = 0

DecayNext ==
  \/ \E t \in Tasks : Flush(t) \/ Flushed(t) \/ Select(t) \/ ApplyBatch(t)
  \/ \E m \in Movers : Move(m) \/ Moved(m)
  \/ \E s \in Sessions : Lock(s) \/ Victim(s)
  \/ \E f \in FactIds, state \in {"absent", "live", "hidden"} : RowChange(f, state)
DecaySpec == DecayInit /\ [][DecayNext]_decayVars

\* The decay tasks' flushes and batches never wait for one another in a ring, whatever
\* rows they share; a ring has a merge or a repair in it (apply_decay_batch, "the cycle
\* cannot form").
OrderedNeverDeadlock == \A S \in SUBSET Tasks : ~Ring(S)

\* A walk that ends well has updated every row that was live all the time, whatever is
\* inserted, hidden or erased meanwhile, if a batch may be as large as it is configured
\* (tick_once).
WalkMissesNothing == BatchSize <= Clamp => \A t \in Tasks : tick[t].pc = "asleep" => due[t] = {}
==============================================================================
