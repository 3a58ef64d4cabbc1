------------------------------ MODULE Summaries ------------------------------
(***************************************************************************)
(* The summarisation task (klams-core/src/summarize): every so often it    *)
(* reads the events of the last seven days, clusters them by host,         *)
(* category and day, and writes one summary row for each cluster that is   *)
(* large enough.  Events arrive and the clock runs while a cycle is under  *)
(* way, and a cycle may fail between any two of its store calls.  A host   *)
(* stands for a (host, category) pair; the headline's wording is left out. *)
(***************************************************************************)
EXTENDS Naturals, Sequences, FiniteSets

CONSTANTS Hosts,
          DayTicks,    \* ticks of the clock in a day
          WindowTicks, \* and in the window a cycle looks back over
          PageSize,    \* what one list_events returns at most
          ClusterMin,  \* event_cluster_min
          MaxTick, MaxEvents, MaxCycleFaults  \* bounds

ASSUME SummariesAssumption ==
  /\ {DayTicks, WindowTicks, PageSize, ClusterMin} \subseteq Nat \ {0}
  /\ {MaxTick, MaxEvents, MaxCycleFaults} \subseteq Nat

VARIABLES now, events,  \* in the order of (created_at, id)
          summaries,    \* the rows of the summaries table, by cluster
          cycle,        \* the store call the task makes next, or "idle"
          since,        \* when the cycle began
          due,          \* the clusters it still has to write, with their events
          cycleFaults

summaryVars == <<now, events, summaries, cycle, since, due, cycleFaults>>

Days == 0..(MaxTick \div DayTicks)
Clusters == Hosts \X Days
NoSummary == [sources |-> {}, generated |-> 0]

\* The (host, category, day) bucket of an event.
Cluster(e) == <<events[e].host, events[e].at \div DayTicks>>
OfCluster(c, S) == {e \in S : Cluster(e) = c}
Recent(from) == {e \in DOMAIN events : events[e].at + WindowTicks > from}

-----------------------------------------------------------------------------
AppendEvent(h) ==
  /\ Len(events) < MaxEvents
  /\ events' = Append(events, [host |-> h, at |-> now])
  /\ UNCHANGED <<now, summaries, cycle, since, due, cycleFaults>>

Tick ==
  /\ now < MaxTick /\ now' = now + 1
  /\ UNCHANGED <<events, summaries, cycle, since, due, cycleFaults>>

\* The cutoff is taken before anything is read.
StartCycle ==
  /\ cycle = "idle" /\ cycle' = "list" /\ since' = now
  /\ UNCHANGED <<now, events, summaries, due, cycleFaults>>

Large(S) == Cardinality(S) >= ClusterMin

\* list_recent pages by the cursor list_events hands back, which is the one it
\* was given: there is one page, of the oldest events of the window.
Page(from) == {e \in Recent(from) : Cardinality({f \in Recent(from) : f <= e}) <= PageSize}

ListRecent ==
  LET read == Page(since)
      all == {[cluster |-> c, sources |-> OfCluster(c, read)] : c \in Clusters} IN
  /\ cycle = "list"
  /\ due' = {s \in all : Large(s.sources)}
  /\ cycle' = IF due' = {} THEN "idle" ELSE "write"
  /\ since' = 0
  /\ UNCHANGED <<now, events, summaries, cycleFaults>>

\* MUTANT of Upsert: ON CONFLICT DO NOTHING.
UpsertNew ==
  /\ cycle = "write"
  /\ \E s \in due :
       /\ summaries' = IF summaries[s.cluster] # NoSummary THEN summaries
                       ELSE [summaries EXCEPT ![s.cluster] = [sources |-> s.sources, generated |-> now]]
       /\ due' = due \ {s}
  /\ cycle' = IF due' = {} THEN "idle" ELSE "write"
  /\ UNCHANGED <<now, events, since, cycleFaults>>

\* ON CONFLICT the row is written over; the clusters come in no order.
Upsert ==
  /\ cycle = "write"
  /\ \E s \in due :
       /\ summaries' = [summaries EXCEPT ![s.cluster] = [sources |-> s.sources, generated |-> now]]
       /\ due' = due \ {s}
  /\ cycle' = IF due' = {} THEN "idle" ELSE "write"
  /\ UNCHANGED <<now, events, since, cycleFaults>>

\* A store call fails, or the service restarts: the rest of the cycle is not done.
CycleFails ==
  /\ cycle # "idle" /\ cycleFaults < MaxCycleFaults /\ cycleFaults' = cycleFaults + 1
  /\ cycle' = "idle" /\ since' = 0 /\ due' = {}
  /\ UNCHANGED <<now, events, summaries>>

SummariesInit ==
  /\ now = 0 /\ events = <<>> /\ summaries = [c \in Clusters |-> NoSummary]
  /\ cycle = "idle" /\ since = 0 /\ due = {} /\ cycleFaults = 0

CycleStep == StartCycle \/ ListRecent \/ Upsert
SummariesNext == CycleStep \/ CycleFails \/ Tick \/ \E h \in Hosts : AppendEvent(h)

-----------------------------------------------------------------------------
\* A cluster whose day lies in the window, when the window fits one page, ends up
\* with a summary of all its events, whatever arrived during a cycle or failed.
EventuallySummarised ==
  <>[](\A c \in Clusters :
         LET mine == OfCluster(c, DOMAIN events) IN
         (Large(mine) /\ mine \subseteq Recent(now) /\ Cardinality(Recent(now)) <= PageSize)
           => summaries[c].sources = mine)

\* list_recent returns "all events since the cutoff": a finished cycle has left
\* no large cluster of the window without a summary.
WindowSummarised ==
  [][cycle = "list" /\ cycle' # "list" /\ cycleFaults' = cycleFaults =>
       \A c \in Clusters : LET mine == OfCluster(c, Recent(since)) IN
         Large(mine) => \E s \in due' : s.cluster = c]_summaryVars
=============================================================================
