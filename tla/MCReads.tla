------------------------------- MODULE MCReads -------------------------------
(* Instances of Context and Timeline for TLC.  The summarisation task, the        *)
(* builder of a bundle and a walk through a listing meet in the tables only, so a  *)
(* behaviour is one of the task; or one build over any table the task may have     *)
(* left, a row that names enough events of its cluster or no row; or one walk,     *)
(* over three rows, two instants to a tick.                                        *)
EXTENDS Context, Timeline

VARIABLE part
mcVars == <<contextVars, walkVars, part>>

TwoPerTick == [t \in 0..MaxTime |-> (t + 1) \div 2]

Of6(near, weight, tokens, key, host, text) ==
  [near |-> near, weight |-> weight, tokens |-> tokens, key |-> key, host |-> host, text |-> text]
\* Facts 11 and 12, chunks 21 to 23: a large and a small fact; two chunks of one text,
\* one of the fact's file and one of the events' file.
SomeStores ==
  {[i \in {11, 12, 21, 22, 23} |->
      CASE i = 11 -> Of6(9, 4, big, key, "h1", "")
        [] i = 12 -> Of6(8, 4, 4, "", "h2", "")
        [] i = 21 -> Of6(9, 4, 6, "k1", "h1", "a")
        [] i = 22 -> Of6(8, 8, 5, "k2", "h1", "b")
        [] OTHER -> Of6(7, 4, 5, "", "h2", text)] :
     big \in {3, 9, 30}, key \in {"k1", "k2"}, text \in {"a", "c"}}
SomeEvents == [h \in {"h1", "h2"} |-> Of6(5, 4, 4, IF h = "h1" THEN "k2" ELSE "", h, "")]

Past == UNION {[1..n -> [host : Hosts, at : {0, 2}]] : n \in 0..MaxEvents}
Rows(c, evs) ==
  {NoSummary} \cup {[sources |-> S, generated |-> 3] :
     S \in {T \in SUBSET {e \in DOMAIN evs : <<evs[e].host, evs[e].at \div DayTicks>> = c} : Large(T)}}
BuildInit ==
  /\ now = MaxTick /\ cycle = "idle" /\ since = 0 /\ due = {} /\ cycleFaults = 0
  /\ events \in {p \in Past : \A j, k \in DOMAIN p : j < k => p[j].at <= p[k].at}
  /\ summaries \in {t \in [Clusters -> UNION {Rows(c, events) : c \in Clusters}] :
                       \A c \in Clusters : t[c] \in Rows(c, events)}
  /\ ContextInit

NoWalk == /\ rows = [i \in RowIds |-> NoRow] /\ walk = Start("memories", 1)
          /\ clock = 0 /\ writes = 0 /\ shown = <<>> /\ owed = {}
NoBuild == ContextInit /\ store = CHOOSE s \in Stores : TRUE
MCInit == \/ part = "task" /\ SummariesInit /\ NoBuild /\ NoWalk
          \/ part = "build" /\ BuildInit /\ NoWalk
          \/ part = "walk" /\ SummariesInit /\ NoBuild /\ WalkInit
TaskStep(A) == part = "task" /\ A /\ UNCHANGED <<buildVars, walkVars, part>>
BuildNext == part = "build" /\ BuildStep /\ UNCHANGED <<summaryVars, walkVars, part>>
WalkStep == part = "walk" /\ WalkNext /\ UNCHANGED <<contextVars, part>>
MCNext == TaskStep(SummariesNext) \/ BuildNext \/ WalkStep
MCSpec == MCInit /\ [][MCNext]_mcVars /\ WF_mcVars(TaskStep(CycleStep))

\* Of the task: a large cluster is summarised in the end.
TaskCatchesUp == part = "task" => EventuallySummarised
==============================================================================
