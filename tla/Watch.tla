-------------------------------- MODULE Watch --------------------------------
(***************************************************************************)
(* klams-monitor: every interval it asks systemd for the state of each unit  *)
(* and posts an event to the service when it differs from what it saw last.  *)
(* The service is one of the units: while it does not listen a post fails,   *)
(* and an answer may be lost after the event is stored.  A monitor that is    *)
(* started again knows nothing.                                              *)
(***************************************************************************)
EXTENDS Naturals

CONSTANTS Units, Sink,  \* the unit that stores the events
          MaxTurns,     \* bound: starts and stops of units
          MaxLost,      \* bound: answers lost
          MaxRestarts   \* bound: restarts of the monitor

WatchAssumption == Sink \in Units

VARIABLES active,    \* per unit: what systemd says
          listening, \* does the sink answer?
          prev,      \* per unit: PreviousState.state
          seen,      \* the poll under way: the unit and its state, or nothing
          last,      \* per unit: the event stored last
          broken,    \* per unit: a post failed or the monitor restarted since then
          budget     \* what is left of the bounds

watchVars == <<active, listening, prev, seen, last, broken, budget>>
Nothing == [unit |-> Sink, state |-> "none"]

\* systemd calls a unit active as soon as it is started (Type=simple).
Turn(u, state) ==
  /\ budget.turns > 0 /\ active[u] # state
  /\ active' = [active EXCEPT ![u] = state]
  /\ listening' = (listening /\ u # Sink)
  /\ budget' = [budget EXCEPT !.turns = @ - 1]
  /\ UNCHANGED <<prev, seen, last, broken>>

Listen ==
  /\ active[Sink] = "up" /\ ~listening /\ listening' = TRUE
  /\ UNCHANGED <<active, prev, seen, last, broken, budget>>

\* is_active; a call of systemctl that fails is a poll that does not happen.
Poll(u) ==
  /\ seen = Nothing
  /\ seen' = [unit |-> u, state |-> active[u]]
  /\ UNCHANGED <<active, listening, prev, last, broken, budget>>

\* diff: a state like the one before is no event.
Unchanged(u) == prev[u] = seen.state
Stored(u) == last' = [last EXCEPT ![u] = seen.state] /\ broken' = [broken EXCEPT ![u] = FALSE]

\* MUTANT of Apply: only a post that was answered counts.
ApplyAnswered(u, answered) == IF answered THEN [prev EXCEPT ![u] = seen.state] ELSE prev

\* apply: whether the post was answered or not.
Apply(u, answered) == [prev EXCEPT ![u] = seen.state]

\* The post of what was seen, and apply.
Report ==
  LET u == seen.unit IN
  /\ seen # Nothing /\ seen' = Nothing
  /\ \/ Unchanged(u) /\ prev' = Apply(u, TRUE) /\ UNCHANGED <<last, broken, budget>>
     \/ ~Unchanged(u) /\ listening /\ Stored(u) /\ prev' = Apply(u, TRUE) /\ UNCHANGED budget
     \/ /\ ~Unchanged(u) /\ listening /\ budget.lost > 0
        /\ Stored(u) /\ prev' = Apply(u, FALSE) /\ budget' = [budget EXCEPT !.lost = @ - 1]
     \/ /\ ~Unchanged(u) /\ ~listening
        /\ broken' = [broken EXCEPT ![u] = TRUE] /\ prev' = Apply(u, FALSE) /\ UNCHANGED <<last, budget>>
  /\ UNCHANGED <<active, listening>>

Restart ==
  /\ budget.restarts > 0 /\ budget' = [budget EXCEPT !.restarts = @ - 1]
  /\ prev' = [u \in Units |-> "none"] /\ seen' = Nothing
  /\ broken' = [u \in Units |-> TRUE]
  /\ UNCHANGED <<active, listening, last>>

WatchInit ==
  /\ active \in [Units -> {"up", "down"}] /\ listening = FALSE
  /\ prev = [u \in Units |-> "none"] /\ seen = Nothing
  /\ last = [u \in Units |-> "none"] /\ broken = [u \in Units |-> FALSE]
  /\ budget = [turns |-> MaxTurns, lost |-> MaxLost, restarts |-> MaxRestarts]

WatchNext ==
  \/ \E u \in Units : Poll(u) \/ (\E state \in {"up", "down"} : Turn(u, state))
  \/ Listen \/ Report \/ Restart

WatchSpec == WatchInit /\ [][WatchNext]_watchVars

\* An event about to be posted is unlike the last one stored of its unit, if no post
\* between them failed and the monitor was not started again; an answer that was lost is
\* no reason to store an event twice (diff, apply).
EventsAlternate ==
  LET u == seen.unit
  IN seen # Nothing /\ listening /\ ~Unchanged(u) => broken[u] \/ last[u] # seen.state

\* "The recovery Up brackets the downtime": once the sink is up, listens and has been
\* polled, the last event stored of it is its Up.
UpIsTold ==
  active[Sink] = "up" /\ listening /\ prev[Sink] = "up" => last[Sink] = "up"
===============================================================================
