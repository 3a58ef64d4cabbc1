-------------------------------- MODULE Repair --------------------------------
(***************************************************************************)
(* reattribute-system: the facts and events that stand under the system's   *)
(* name go to the author their provenance points to, or to lost-author.     *)
(* A fact's provenance is the authors of the events that name it, an       *)
(* event's the authors of the events of its task.  The tool reads one row  *)
(* at a time, with two queries, and writes at the end of each table, while   *)
(* agents write and an administrator merges and removes authors.           *)
(***************************************************************************)
EXTENDS Naturals, FiniteSets, Functions

CONSTANTS Facts, Events, Agents,
          Mentions,   \* [Events -> SUBSET Facts]: payload.fact_id
          Task,       \* [Events -> Tasks]
          NoTask,     \* events.task_id is NULL
          ChunkOf,    \* rows of one UPDATE (500)
          MaxDisturb  \* bound: steps of agents and administrators

RepairAssumption ==
  /\ Facts \cup Events \subseteq Nat /\ Facts \cap Events = {}
  /\ Agents \cap {"absent", "System", "Lost"} = {}

VARIABLES owner,    \* author_id of every row, or absent
          agents,   \* the agents that have a row in authors; System and Lost stay
          tool,     \* the run
          settled,  \* complete runs in apply mode since anything else changed (at most 2)
          disturbs

repairVars == <<owner, agents, tool, settled, disturbs>>
Stamped == Facts \cup Events
RowsOf(table) == IF table = "facts" THEN Facts ELSE Events
EmptyPlan == [r \in {} |-> "Lost"]
ToolIdle == [pc |-> "idle", mode |-> "dry_run", table |-> "facts", todo |-> {}, plan |-> EmptyPlan,
         row |-> 0, found |-> "Lost", clean |-> TRUE]

OwnedBy(a, S) == {r \in S : owner[r] = a}

\* MUTANT of Evidence: the system's own rows count.
EvidenceAny(r) ==
  {owner[e] : e \in {e \in Events : IF r \in Facts THEN r \in Mentions[e]
                                    ELSE Task[r] # NoTask /\ Task[e] = Task[r]}} \ {"absent"}

\* classify_fact_id and classify_event_id: the distinct authors, without the system.
Evidence(r) ==
  {owner[e] : e \in {e \in Events : IF r \in Facts THEN r \in Mentions[e]
                                    ELSE Task[r] # NoTask /\ Task[e] = Task[r]}}
  \ {"absent", "System"}

Planned(r, a) == [tool EXCEPT !.pc = "classify", !.plan = [x \in DOMAIN @ \cup {r} |-> IF x = r THEN a ELSE @[x]],
                              !.row = 0, !.found = "Lost"]

Scan(table) == [tool EXCEPT !.pc = "classify", !.table = table, !.todo = OwnedBy("System", RowsOf(table)),
                            !.plan = EmptyPlan]

StartRun(mode) ==
  /\ tool.pc = "idle"
  /\ tool' = [Scan("facts") EXCEPT !.mode = mode, !.clean = TRUE]
  /\ UNCHANGED <<owner, agents, settled, disturbs>>

\* The first query of a row, in the order of created_at.
Classify ==
  /\ tool.pc = "classify" /\ tool.todo # {}
  /\ LET r == CHOOSE r \in tool.todo : \A x \in tool.todo : r <= x
         left == [tool EXCEPT !.todo = @ \ {r}]
     IN tool' = CASE Evidence(r) = {} -> left
                  [] Cardinality(Evidence(r)) > 1 -> [Planned(r, "Lost") EXCEPT !.todo = left.todo]
                  [] OTHER -> [left EXCEPT !.pc = "exists", !.row = r, !.found = CHOOSE a \in Evidence(r) : TRUE]
  /\ UNCHANGED <<owner, agents, settled, disturbs>>

\* The second: does the only candidate still exist?
Exists ==
  /\ tool.pc = "exists"
  /\ tool' = Planned(tool.row, IF tool.found \in agents \cup {"System", "Lost"} THEN tool.found ELSE "Lost")
  /\ UNCHANGED <<owner, agents, settled, disturbs>>

\* One UPDATE of apply_postgres_updates: a chunk of the rows planned for one author, whoever
\* has them by now; a foreign key that fails ends the run with the rest undone.
Update ==
  /\ tool.pc = "classify" /\ tool.todo = {} /\ tool.mode = "apply" /\ tool.plan # EmptyPlan
  /\ \E a \in Range(tool.plan) :
       LET group == {r \in DOMAIN tool.plan : tool.plan[r] = a}
       IN IF a \in agents \cup {"System", "Lost"}
          THEN \E rows \in {S \in SUBSET group : Cardinality(S) = ChunkOf \/ (S = group /\ Cardinality(S) < ChunkOf)} :
                 /\ owner' = [r \in Stamped |-> IF r \in rows /\ owner[r] # "absent" THEN a ELSE owner[r]]
                 /\ tool' = [tool EXCEPT !.plan = Restrict(@, DOMAIN @ \ rows)]
          ELSE tool' = ToolIdle /\ UNCHANGED owner
  /\ UNCHANGED <<agents, settled, disturbs>>

TableOver(table) ==
  /\ tool.pc = "classify" /\ tool.table = table /\ tool.todo = {}
  /\ tool.mode = "dry_run" \/ tool.plan = EmptyPlan
\* The events follow the facts.
TableDone ==
  /\ TableOver("facts") /\ tool' = Scan("events")
  /\ UNCHANGED <<owner, agents, settled, disturbs>>

\* repair_knowledge: no event says who wrote a point, so every point of the system's is
\* counted and left, and nothing is ever assigned. The run is over.
CountKnowledge ==
  /\ TableOver("events") /\ tool' = ToolIdle
  /\ settled' = IF tool.mode = "apply" /\ tool.clean /\ settled < 2 THEN settled + 1 ELSE settled
  /\ UNCHANGED <<owner, agents, disturbs>>

\* The tool is killed, or a query fails.
StopRun ==
  /\ tool.pc # "idle" /\ tool' = ToolIdle
  /\ UNCHANGED <<owner, agents, settled, disturbs>>

Disturb ==
  /\ disturbs < MaxDisturb /\ disturbs' = disturbs + 1
  /\ settled' = 0 /\ tool' = [tool EXCEPT !.clean = FALSE]

\* A write under an agent's or the system's name.
Write(r, a) ==
  /\ Disturb /\ owner[r] = "absent" /\ a \in agents \cup {"System"}
  /\ owner' = [owner EXCEPT ![r] = a]
  /\ UNCHANGED agents

\* merge_author_rows: all rows of one author, and its own row with them.
MergeAuthors(from, into) ==
  /\ Disturb /\ from \in agents /\ into \in agents \ {from}
  /\ owner' = [r \in Stamped |-> IF owner[r] = from THEN into ELSE owner[r]]
  /\ agents' = agents \ {from}

\* delete_author of one that owns nothing.
RemoveAuthor(a) ==
  /\ Disturb /\ a \in agents /\ OwnedBy(a, Stamped) = {}
  /\ agents' = agents \ {a}
  /\ UNCHANGED owner

RepairInit ==
  /\ owner \in [Stamped -> {"absent", "System"} \cup Agents] /\ agents = Agents
  /\ \A f \in Facts : owner[f] # "absent"
  /\ tool = ToolIdle /\ settled = 0 /\ disturbs = 0

RepairStep == Classify \/ Exists \/ Update \/ TableDone \/ CountKnowledge \/ StopRun
RepairNext ==
  \/ \E mode \in {"dry_run", "apply"} : StartRun(mode)
  \/ RepairStep
  \/ \E r \in Stamped, a \in Agents \cup {"System"} : Write(r, a)
  \/ \E a \in Agents, b \in Agents : MergeAuthors(a, b)
  \/ \E a \in Agents : RemoveAuthor(a)

RepairSpec == RepairInit /\ [][RepairNext]_repairVars

\* Two complete runs with nothing between them leave nothing for a third; one is not
\* enough, for the events a run recovers are evidence for facts it has passed
\* (reattribute_system_owned).
RepairSettles == settled = 2 => tool.plan = EmptyPlan

\* FR-014 of sprint 009, "a second run on the same store must report zero additional rows
\* changed": not so, see above.
SecondRunChangesNothing == settled >= 1 => tool.plan = EmptyPlan
===============================================================================
