------------------------------- MODULE Timeline -------------------------------
(***************************************************************************)
(* The paged listings: GET /v1/memories and /v1/authors/{id}/memories,     *)
(* event_search, memory_admin_list_deleted and /v1/authors, and the plain  *)
(* GET /memory/facts and /memory/events.  A page is a read of one store    *)
(* after the other; the cursor is the key of the last row shown.  Nothing  *)
(* is held between two reads, so rows come, change and go under a walk.    *)
(* Every write is one step, the pages are what is modelled step by step.   *)
(***************************************************************************)
EXTENDS Naturals, Sequences, FiniteSets, Functions

CONSTANTS RowIds,      \* row ids, ordered
          MaxTime,     \* bound: the last instant
          TickOf,      \* the instant of a created_at, as Qdrant indexes it
          Window,      \* the default width of a time window
          Routes, Limits,
          Overfetch,   \* points scrolled for each row a page may show,
          ScrollCap,   \* and the most that are
          MaxWrites    \* bound: writes while the client walks

Times == 0..MaxTime
Merged == {"memories", "author", "events", "events_asc", "deleted", "authors"}
ASSUME TimelineAssumption ==
  /\ RowIds \subseteq Nat \ {0} /\ IsFiniteSet(RowIds)
  /\ MaxTime \in Nat \ {0, 1} /\ Window \in Nat
  /\ TickOf \in [Times -> Nat] /\ \A t, u \in Times : t <= u => TickOf[t] <= TickOf[u]
  /\ Routes \subseteq Merged \cup {"facts", "event_list"}
  /\ Overfetch \in Nat \ {0} /\ ScrollCap \in Nat /\ MaxWrites \in Nat
  /\ Limits \subseteq 1..ScrollCap     \* limit is clamped to 200, a scroll to 500

VARIABLES rows,      \* the tables and the collection
          clock, writes,
          walk,      \* the client's request, or where its page is
          shown,     \* the pages shown so far
          owed       \* history: rows listed all along, unchanged, and sure at every write

walkVars == <<rows, clock, writes, walk, shown, owed>>

\* at orders the row: created_at, last_seen_at of an author, deleted_at in the
\* listing of what is deleted.  An "orphan" is a point of the collection without an
\* author, or with a payload that is not a memory's: scrolled and then passed over.
ListRow(kind, at, live) == [kind |-> kind, at |-> at, live |-> live]
NoRow == ListRow("none", 0, FALSE)
Present == {i \in RowIds : rows[i].kind \notin {"none", "gone"}}

-----------------------------------------------------------------------------
(* Keys and windows *)

Key(i) == [at |-> rows[i].at, id |-> i]
Older(k, l) == k.at < l.at \/ (k.at = l.at /\ k.id < l.id)
Behind(k, l) == IF walk.route \in {"events_asc", "event_list"} THEN Older(l, k) ELSE Older(k, l)
None == [at |-> 0, id |-> 0]     \* the first page

After(i, c) == c = None \/ Behind(Key(i), c)

Kinds(route) ==
  CASE route \in {"memories", "author"} -> {"fact", "event", "knowledge"}
    [] route \in {"events", "events_asc", "event_list"} -> {"event"}
    [] route \in {"deleted", "facts"} -> {"fact"}
    [] route = "authors" -> {"author"}
Deleted(route) == route = "deleted"
\* list_facts and list_events take the cursor and do not look at it; their
\* handlers always name the last row as the next.
Plain(route) == route \in {"facts", "event_list"}

Listed(i) ==
  /\ i \in Present /\ rows[i].live # Deleted(walk.route)
  /\ rows[i].kind \in Kinds(walk.route) \cup IF Deleted(walk.route) THEN {"knowledge"} ELSE {}
Within(i) == walk.since <= rows[i].at /\ rows[i].at < walk.until
Wanted(i) == Listed(i) /\ Within(i)

-----------------------------------------------------------------------------
(* Pages *)

Least(a, b) == IF a < b THEN a ELSE b
\* The listings of S in an order.
Sorted(S, ahead) ==
  {s \in Bijection(1..Cardinality(S), S) :
     \A j, k \in 1..Cardinality(S) : j < k => <<s[j], s[k]>> \in ahead}
\* The first n of S in an order that leaves ties to the store.
Firsts(S, n, ahead) ==
  {P \in SUBSET S : /\ Cardinality(P) = Least(n, Cardinality(S))
                    /\ \A p \in P, q \in S \ P : <<q, p>> \notin ahead}
Newer == {p \in RowIds \X RowIds : Behind(Key(p[2]), Key(p[1]))}

Goto(pc) == [walk EXCEPT !.pc = pc]
Read(P, full, pc) ==
  walk' = [walk EXCEPT !.union = @ \cup {Key(i) : i \in P}, !.saturated = @ \/ full, !.pc = pc]

\* The handlers: the window of a page and the first store it reads. Two of them
\* default to the last hours up to now, reckoned anew for each page; the others have
\* no window.
Span(since, until, pc) == [since |-> since, until |-> until, pc |-> pc]
Ago == IF clock > Window THEN clock - Window ELSE 0
ListMemories == Span(Ago, clock, "fact")
EventSearch == Span(Ago, clock, "fact")
AuthorMemories == Span(0, MaxTime + 1, "fact")
ListAuthors == Span(0, MaxTime + 1, "fact")
ListPlain == Span(0, MaxTime + 1, "fact")
ListDeleted == Span(0, MaxTime + 1, IF walk.section = "knowledge" THEN "scroll" ELSE "fact")
Handler(route) ==
  CASE route = "memories" -> ListMemories
    [] route \in {"events", "events_asc"} -> EventSearch
    [] route = "author" -> AuthorMemories
    [] route = "authors" -> ListAuthors
    [] route = "deleted" -> ListDeleted
    [] Plain(route) -> ListPlain

\* The router: the window is fixed for this page.
AskPage ==
  LET span == Handler(walk.route) IN
  /\ walk.pc = "idle"
  /\ walk' = [walk EXCEPT !.pc = span.pc, !.since = span.since, !.until = span.until]
  /\ owed' = {i \in owed : span.since <= rows[i].at /\ rows[i].at < span.until}
  /\ UNCHANGED <<rows, clock, writes, shown>>

\* One table: the rows after the cursor, newest first, up to the limit.
ReadTable(kind, pc) ==
  LET S == {i \in RowIds : rows[i].kind = kind /\ Wanted(i)
             /\ (Plain(walk.route) \/ After(i, walk.cursor))}
  IN
  /\ walk.pc = kind
  /\ IF kind \in Kinds(walk.route)
     THEN \E P \in Firsts(S, walk.limit, Newer) : Read(P, Cardinality(P) = walk.limit, pc)
     ELSE walk' = Goto(pc)
  /\ UNCHANGED <<rows, clock, writes, shown, owed>>
ReadFacts == ReadTable("fact", "event")
Searched == walk.route \in {"events", "events_asc"}
ReadEvents == ~Searched /\ ReadTable("event", "author")
SearchEvents == Searched /\ ReadTable("event", "author")
ReadAuthors == ReadTable("author", "knowledge")

\* Qdrant scrolls down from the cursor's instant, which its index has in ticks;
\* the window and the cursor are applied to what it returns.
TickAt(i) == TickOf[rows[i].at]
Ticks == {p \in RowIds \X RowIds : TickAt(p[1]) > TickAt(p[2])}
StartTick == IF walk.cursor = None THEN IF walk.until > MaxTime THEN TickOf[MaxTime] ELSE TickOf[walk.until]
             ELSE TickOf[walk.cursor.at]
\* The filter knows what is deleted and, on one route, whose a point is; an orphan is
\* nobody's.
Filtered(i) == \/ rows[i].kind = "knowledge" /\ Listed(i)
               \/ rows[i].kind = "orphan" /\ rows[i].live /\ walk.route = "memories"
Scrolled == {i \in RowIds : Filtered(i) /\ TickAt(i) <= StartTick}
Scroll == Least(Overfetch * walk.limit, ScrollCap)

\* What comes after the last row of a full page says that there is more, though it be
\* an orphan.
Trailing(P, out) ==
  {o \in P : /\ rows[o].kind = "orphan" /\ Within(o) /\ After(o, walk.cursor)
             /\ \A i \in out : <<o, i>> \notin Ticks}

ReadKnowledge ==
  /\ walk.pc = "knowledge"
  /\ IF "knowledge" \in Kinds(walk.route)
     THEN \E P \in Firsts(Scrolled, Scroll, Ticks) :
            LET Q == {i \in P : Wanted(i) /\ After(i, walk.cursor)} IN
            \E out \in Firsts(Q, walk.limit, Ticks), more \in BOOLEAN :
              /\ more => Cardinality(out) = walk.limit /\ Trailing(P, out) # {}
              /\ Read(out, /\ out # {}
                           /\ more \/ Cardinality(Q) > walk.limit \/ Cardinality(P) = Scroll, "merge")
     ELSE walk' = Goto("merge")
  /\ UNCHANGED <<rows, clock, writes, shown, owed>>

\* MUTANT of More: only rows in hand make a next page.
MoreInHand(truncated, emitted) == truncated /\ emitted = walk.limit

More(truncated, emitted) == (truncated \/ walk.saturated) /\ emitted = walk.limit

\* memory_admin_list_deleted: the deleted facts give way to the deleted knowledge.
SectionAfter(more) == IF ~more /\ Deleted(walk.route) THEN "knowledge" ELSE walk.section

\* Keys as they were read, newest first.
NewerKeys == {p \in walk.union \X walk.union : Behind(p[2], p[1])}
Merge ==
  /\ walk.pc = "merge"
  /\ \E s \in Sorted(walk.union, NewerKeys) :
       LET size == Cardinality(walk.union)
           emitted == Least(walk.limit, size)
           more == IF Plain(walk.route) THEN emitted > 0 ELSE More(size > walk.limit, emitted)
       IN
       /\ shown' = shown \o [k \in 1..emitted |-> s[k].id]
       /\ walk' = [walk EXCEPT !.union = {}, !.saturated = FALSE,
                     !.cursor = IF more THEN s[emitted] ELSE None,
                     !.section = SectionAfter(more),
                     !.pc = IF more \/ Deleted(walk.route) THEN "idle" ELSE "done"]
  /\ UNCHANGED <<rows, clock, writes, owed>>

\* Qdrant scrolls the deleted by id, from the id the last page named.
DeletedFrom ==
  LET from == IF walk.cursor = None THEN 0 ELSE walk.cursor.id IN
  {i \in RowIds : rows[i].kind = "knowledge" /\ Listed(i) /\ i >= from}

\* list_knowledge: the knowledge section's page, which names where the rest begins.
ReadDeleted ==
  LET S == DeletedFrom
      P == {i \in S : Cardinality({j \in S : j < i}) < walk.limit}
      rest == S \ P
  IN
  /\ walk.pc = "scroll"
  /\ \E s \in Sorted(P, {p \in P \X P : p[1] < p[2]}) : shown' = shown \o s
  /\ walk' = [walk EXCEPT !.pc = IF rest = {} THEN "done" ELSE "idle",
                !.cursor = IF rest = {} THEN None
                           ELSE [at |-> 0, id |-> CHOOSE i \in rest : \A j \in rest : i <= j]]
  /\ UNCHANGED <<rows, clock, writes, owed>>

-----------------------------------------------------------------------------
(* What a listing of points cannot promise *)

\* Qdrant gives no order to points of one tick: a page may end among them and the next
\* begin behind them.  And a scroll may bring, instead of a page, what of the tick it
\* starts at was shown, and orphans; then the page is short and comes without a cursor,
\* and what is older stays behind it.
OfTick(t) == {j \in RowIds : Filtered(j) /\ TickAt(j) = t}
Tied(i) == OfTick(TickAt(i)) # {i}
Waste(i, t) ==
  OfTick(t) \cup {o \in RowIds : Filtered(o) /\ rows[o].kind = "orphan" /\ TickAt(i) < TickAt(o) /\ TickAt(o) <= t}
Packed(i, t) == Cardinality(Waste(i, t)) + walk.limit > Scroll
Sure(i) ==
  rows[i].kind = "knowledge" /\ "knowledge" \in Kinds(walk.route) =>
    ~Tied(i) /\ \A t \in {TickOf[u] : u \in Times} : TickAt(i) <= t => ~Packed(i, t)

-----------------------------------------------------------------------------
(* What changes meanwhile *)

Writes(i, r) ==
  /\ writes < MaxWrites /\ writes' = writes + 1
  /\ rows' = [rows EXCEPT ![i] = r]
  /\ owed' = {j \in owed \ {i} : Sure(j)}
  /\ UNCHANGED <<clock, walk, shown>>

\* A statement's own time may be a moment before the one it is seen at.
Add == \E i \in RowIds, kind \in {"fact", "event", "knowledge", "author"}, at \in {clock - 1, clock} :
         /\ rows[i].kind = "none" /\ Writes(i, ListRow(kind, at, TRUE))
\* memory_delete and memory_admin_restore: what a fact's place is in the
\* listing of the deleted is when it was deleted.
Hide == \E i \in Present :
          /\ rows[i].live /\ rows[i].kind \in {"fact", "knowledge", "orphan"}
          /\ Writes(i, ListRow(rows[i].kind, IF Deleted(walk.route) /\ rows[i].kind = "fact"
                                             THEN clock ELSE rows[i].at, FALSE))
Show == \E i \in Present :
          /\ ~rows[i].live
          /\ Writes(i, ListRow(rows[i].kind, rows[i].at, TRUE))
Erase == \E i \in Present :
           /\ rows[i].kind \in {"fact", "knowledge", "orphan"}
           /\ Writes(i, ListRow("gone", rows[i].at, FALSE))
\* The backfill at start-up, which runs while the service answers.
Adopt == \E i \in Present :
           /\ rows[i].kind = "orphan"
           /\ Writes(i, ListRow("knowledge", rows[i].at, rows[i].live))
\* touch_author_last_seen_at
Touch == \E i \in Present :
           /\ rows[i].kind = "author" /\ rows[i].at < clock
           /\ Writes(i, ListRow("author", clock, TRUE))
Pass == /\ clock < MaxTime /\ clock' = clock + 1
        /\ UNCHANGED <<rows, writes, walk, shown, owed>>

-----------------------------------------------------------------------------
PageStep == AskPage \/ ReadFacts \/ ReadEvents \/ SearchEvents \/ ReadAuthors \/ ReadKnowledge \/ Merge \/ ReadDeleted

Start(route, limit) ==
  [route |-> route, limit |-> limit, pc |-> "idle", section |-> "rows", cursor |-> None,
   union |-> {}, saturated |-> FALSE, since |-> 0, until |-> MaxTime + 1]

WalkInit ==
  /\ clock = MaxTime - 1 /\ writes = 0
  /\ \E route \in Routes, limit \in Limits : walk = Start(route, limit)
  /\ rows \in [RowIds -> {NoRow} \cup
       [kind : Kinds(walk.route) \cup CASE Deleted(walk.route) -> {"knowledge"}
                                        [] walk.route = "memories" -> {"orphan"}
                                        [] OTHER -> {},
        at : 0..(MaxTime - 2), live : {TRUE, ~Deleted(walk.route)}]]
  \* uuid v7: ids follow the clock, but for what one tick holds
  /\ \A i, j \in Present : i < j => TickAt(i) <= TickAt(j)
  /\ shown = <<>>
  /\ owed = {i \in RowIds : Listed(i)}

WalkNext == PageStep \/ Add \/ Hide \/ Show \/ Erase \/ Adopt \/ Touch \/ Pass
WalkSpec == WalkInit /\ [][WalkNext]_walkVars

-----------------------------------------------------------------------------
\* A page and its cursor are well formed.
WalkTypeOK ==
  /\ \A i \in RowIds : rows[i] \in [kind: {"none", "gone", "orphan", "fact", "event", "knowledge", "author"},
                                 at: Times, live: BOOLEAN]
  /\ clock \in Times /\ writes \in 0..MaxWrites
  /\ walk.pc \in {"idle", "fact", "event", "author", "knowledge", "merge", "scroll", "done"}
  /\ walk.union \subseteq [at: Times, id: RowIds] /\ owed \subseteq RowIds
  /\ \A k \in DOMAIN shown : shown[k] \in RowIds

\* Whatever is written while a client walks, no row is listed twice, and a row
\* that was there all along is listed before the walk ends.  The rows it may
\* miss are those that Sure leaves out.
TheListing == INSTANCE Listing WITH
  Ids <- RowIds, shown <- shown, due <- {i \in owed : Sure(i)}, over <- walk.pc = "done"
ImplementsListing == TheListing!Spec

\* GET /memory/facts is said to have "cursor paging": what a page shows, no later
\* page shows again.
PagesDiffer == \A j, k \in DOMAIN shown : shown[j] = shown[k] => j = k
=============================================================================
