------------------------------- MODULE Context -------------------------------
(***************************************************************************)
(* Context assembly (klams-core context.rs over hybrid.rs): one POST       *)
(* /memory/context asks the vector index and the text index, drops what    *)
(* two sections share, may put the summaries in place of the events, and   *)
(* fills the token budget: a floor for each section first, then the best   *)
(* of what is left.  Either index may fail.                                *)
(***************************************************************************)
EXTENDS Summaries, SequencesExt

CONSTANTS Facts, Chunks, \* ids
          Stores,        \* what they may be: [Facts \cup Chunks -> Row]
          EventRow,      \* what an event of a host looks like
          Budgets, HostFilters, \* of a request; a filter is the set of hosts it lets through
          TopK,          \* per_source_top_k
          SummaryLimit, SummaryTokens, RrfK

\* near: how well it matches; weight: the fusion weight, times four; key: its repo
\* and file, or "" for none.
Row == [near : Nat, weight : Nat \ {0}, tokens : Nat, key : STRING, host : Hosts, text : STRING]
Ids == Facts \cup Chunks \cup 1..(MaxEvents + SummaryLimit)

ASSUME ContextAssumption ==
  /\ Facts \cup Chunks \subseteq Nat /\ Facts \cap Chunks = {}
  /\ \A s \in Stores : s \in [Facts \cup Chunks -> Row]
  /\ EventRow \in [Hosts -> Row]
  /\ Budgets \subseteq Nat /\ HostFilters \subseteq SUBSET Hosts
  /\ {TopK, SummaryLimit, SummaryTokens, RrfK} \subseteq Nat

VARIABLES store, req,
          at,       \* what the builder does next, or "done"
          chunks,   \* the knowledge rows the vector index answered with
          answered, \* the sources that answered
          items,    \* what the sections hold before the budget
          pending,  \* of them, what the current pass has not looked at
          rest,     \* what the floors left to the pool
          kept, spent,
          floorSpent, \* by the section whose floor is filled
          dropped,  \* the truncated flag
          matched   \* history: what matched, each datum in its section, before summaries

buildVars == <<store, req, at, chunks, answered, items, pending, rest, kept, spent, floorSpent, dropped, matched>>
contextVars == <<summaryVars, buildVars>>

Sections == <<"facts", "knowledge", "events">>
Next1(section) == CASE section = "facts" -> "knowledge" [] section = "knowledge" -> "events" [] OTHER -> "pool"
Of(section, S) == {i \in S : i.section = section}
Tokens(S) == MapThenSumSet(LAMBDA i : i.tokens, S)

-----------------------------------------------------------------------------
(* The two sources *)

FetchCap == 3 * TopK
RowOf(section, i) == IF section = "events" THEN EventRow[events[i].host] ELSE store[i]
Lets(section, i) == RowOf(section, i).host \in req.hosts

\* Best first, then by id.
Better(section, i, j) ==
  \/ RowOf(section, i).near > RowOf(section, j).near
  \/ RowOf(section, i).near = RowOf(section, j).near /\ i < j
Rank(section, i, S) == 1 + Cardinality({j \in S : Better(section, j, i)})
Top(section, S, n) == {i \in S : Rank(section, i, S) <= n}

\* What an index answers with: the filters come after its cap.
Matches(section, S) == {i \in Top(section, S, FetchCap) : Lets(section, i)}

\* collapse_knowledge_rows: a text keeps its best row.
Distinct(S) == {i \in S : \A j \in S : store[j].text = store[i].text => ~Better("knowledge", j, i)}

\* rrf and finalize: what a section holds is scored by place and weight.
Item(section, i, k) ==
  LET r == RowOf(section, i) IN
  [kind |-> "raw", section |-> section, id |-> i, score |-> (r.weight * 100000) \div (RrfK + k),
   tokens |-> r.tokens, key |-> r.key, sources |-> {}]
Fused(section, S) == {Item(section, i, Rank(section, i, S)) : i \in S}

\* MUTANT of Deduped: knowledge is held against the facts only.
DedupedHalf(facts, knowledge, timeline) ==
  facts \cup {i \in knowledge : i.key = "" \/ i.key \notin {f.key : f \in facts}} \cup timeline

\* FR-004: facts beat knowledge, and what is left of knowledge beats events.
Deduped(facts, knowledge, timeline) ==
  LET Clear(S, over) == {i \in S : i.key = "" \/ i.key \notin {o.key : o \in over}}
      left == Clear(knowledge, facts) IN
  facts \cup left \cup Clear(timeline, left)

Ask ==
  /\ at = "idle" /\ at' = "vector"
  /\ req' \in [budget : Budgets, hosts : HostFilters]
  /\ UNCHANGED <<store, chunks, answered, items, pending, rest, kept, spent, floorSpent, dropped, matched>>

Vector ==
  /\ at = "vector" /\ at' = "text"
  /\ \/ /\ chunks' = Top("knowledge", Distinct(Matches("knowledge", Chunks)), TopK)
        /\ answered' = answered \cup {"vector"}
     \/ chunks' = {} /\ answered' = answered
  /\ UNCHANGED <<store, req, items, pending, rest, kept, spent, floorSpent, dropped, matched>>

\* Facts and events share the per_source_top_k, facts first.
Texts ==
  LET facts == Top("facts", Matches("facts", Facts), TopK) IN
  [facts |-> facts,
   events |-> Top("events", Matches("events", DOMAIN events), TopK - Cardinality(facts))]

\* The raw events would take more than half of the budget.
Crowded(S) == Tokens(Of("events", S)) > req.budget \div 2

Found(all) == /\ items' = all /\ matched' = all /\ chunks' = {}
              /\ at' = IF Crowded(all) THEN "summaries" ELSE "budget"

Text ==
  /\ at = "text"
  /\ \/ /\ answered' = answered \cup {"text"}
        /\ Found(Deduped(Fused("facts", Texts.facts), Fused("knowledge", chunks), Fused("events", Texts.events)))
     \/ answered' = answered /\ Found(Deduped({}, Fused("knowledge", chunks), {}))
  /\ UNCHANGED <<store, req, pending, rest, kept, spent, floorSpent, dropped>>

\* The newest day first, then the row written last; only the host narrows them.
Newest ==
  LET written == {c \in Clusters : summaries[c].sources # {} /\ c[1] \in req.hosts}
      Ahead(c, d) == \/ c[2] > d[2]
                     \/ c[2] = d[2] /\ summaries[c].generated > summaries[d].generated IN
  {s \in {SubSeq(t, 1, IF SummaryLimit < Len(t) THEN SummaryLimit ELSE Len(t)) : t \in SetToSeqs(written)} :
     \A j, k \in DOMAIN s : j < k => ~Ahead(s[k], s[j])}

\* Each summary scores one.
SummaryItem(c, k) ==
  [kind |-> "summary", section |-> "events", id |-> k, score |-> 100000, tokens |-> SummaryTokens,
   key |-> "", sources |-> summaries[c].sources]
Summarised(s) == {SummaryItem(s[k], k) : k \in DOMAIN s}

Substitute ==
  /\ at = "summaries" /\ at' = "budget"
  /\ \/ \E s \in Newest :
          items' = IF Summarised(s) = {} THEN items ELSE (items \ Of("events", items)) \cup Summarised(s)
     \/ items' = items
  /\ UNCHANGED <<store, req, chunks, answered, pending, rest, kept, spent, floorSpent, dropped, matched>>

-----------------------------------------------------------------------------
(* allocate_budget *)

Floor == req.budget \div 10

Place(section) == CHOOSE k \in 1..3 : Sections[k] = section

\* A stable sort by score, of a section or of the pool.
Before(i, j) ==
  \/ i.score > j.score
  \/ i.score = j.score /\ Place(i.section) < Place(j.section)
  \/ i.score = j.score /\ i.section = j.section /\ i.id < j.id
Leads(i, S) == i \in S /\ \A j \in S \ {i} : Before(i, j)

Begin ==
  /\ at = "budget"
  /\ IF items = {} \/ req.budget = 0
     THEN at' = "done" /\ dropped' = (items # {}) /\ pending' = {}
     ELSE at' = "facts" /\ dropped' = FALSE /\ pending' = Of("facts", items)
  /\ UNCHANGED <<store, req, chunks, answered, items, rest, kept, spent, floorSpent, matched>>

\* MUTANT of Fits: what is spent already is forgotten.
FitsAlone(i) == i.tokens <= req.budget

Fits(i) == spent + i.tokens <= req.budget

Filling == at \in {"facts", "knowledge", "events"}

\* take_floor: one item of the section, in order.
TakeFloor ==
  /\ Filling /\ pending # {}
  /\ \E i \in pending :
       /\ Leads(i, pending)
       /\ pending' = pending \ {i}
       /\ IF floorSpent < Floor /\ Fits(i)
          THEN /\ kept' = kept \cup {i} /\ spent' = spent + i.tokens
               /\ floorSpent' = floorSpent + i.tokens /\ rest' = rest
          ELSE rest' = rest \cup {i} /\ UNCHANGED <<kept, spent, floorSpent>>
  /\ UNCHANGED <<store, req, at, chunks, answered, items, dropped, matched>>

\* MUTANT of NextSection: the pool is what the last floor left.
NextSectionLast ==
  /\ Filling /\ pending = {}
  /\ at' = Next1(at) /\ floorSpent' = 0
  /\ pending' = (IF at = "events" THEN Of("events", rest) ELSE Of(Next1(at), items))
  /\ rest' = (IF at = "events" THEN {} ELSE rest)
  /\ UNCHANGED <<store, req, chunks, answered, items, kept, spent, dropped, matched>>

NextSection ==
  /\ Filling /\ pending = {}
  /\ at' = Next1(at) /\ floorSpent' = 0
  /\ pending' = (IF at = "events" THEN rest ELSE Of(Next1(at), items))
  /\ rest' = (IF at = "events" THEN {} ELSE rest)
  /\ UNCHANGED <<store, req, chunks, answered, items, kept, spent, dropped, matched>>

TakePool ==
  /\ at = "pool" /\ pending # {}
  /\ \E i \in pending :
       /\ Leads(i, pending)
       /\ pending' = pending \ {i}
       /\ IF Fits(i) THEN kept' = kept \cup {i} /\ spent' = spent + i.tokens /\ dropped' = dropped
          ELSE dropped' = TRUE /\ UNCHANGED <<kept, spent>>
  /\ UNCHANGED <<store, req, at, chunks, answered, items, rest, floorSpent, matched>>

\* max_by keeps the last of equals: the later section.
Best(i) ==
  /\ Leads(i, Of(i.section, items))
  /\ \A j \in items : \/ i.score > j.score
                      \/ i.score = j.score /\ Place(j.section) <= Place(i.section)

\* Nothing fitted: the best item is the bundle, larger than the budget as it is.
Answer ==
  /\ at = "pool" /\ pending = {} /\ at' = "done"
  /\ IF kept = {}
     THEN \E i \in items : Best(i) /\ kept' = {i} /\ spent' = i.tokens /\ dropped' = TRUE
     ELSE UNCHANGED <<kept, spent, dropped>>
  /\ UNCHANGED <<store, req, chunks, answered, items, pending, rest, floorSpent, matched>>

ContextInit ==
  /\ store \in Stores /\ req = [budget |-> 0, hosts |-> {}] /\ at = "idle"
  /\ chunks = {} /\ answered = {} /\ items = {} /\ pending = {} /\ rest = {}
  /\ kept = {} /\ spent = 0 /\ floorSpent = 0 /\ dropped = FALSE /\ matched = {}

BuildStep == Ask \/ Vector \/ Text \/ Substitute \/ Begin \/ TakeFloor \/ NextSection \/ TakePool \/ Answer

Init == SummariesInit /\ ContextInit
Next == (SummariesNext /\ UNCHANGED buildVars) \/ (BuildStep /\ UNCHANGED summaryVars)
Spec == Init /\ [][Next]_contextVars /\ WF_contextVars(CycleStep /\ UNCHANGED buildVars)

-----------------------------------------------------------------------------
\* Both sources failed: the handler answers 503 and no bundle.
Bundle == at = "done" /\ answered # {}

\* The types; total_spent is what the items cost, and a summary names enough
\* events of its own cluster.
TypeOK ==
  /\ now \in 0..MaxTick /\ Len(events) <= MaxEvents
  /\ at \in {"idle", "vector", "text", "summaries", "budget", "facts", "knowledge", "events", "pool", "done"}
  /\ answered \subseteq {"vector", "text"} /\ kept \subseteq items
  /\ spent = Tokens(kept) /\ floorSpent \in Nat /\ dropped \in BOOLEAN
  /\ \A c \in Clusters : summaries[c].sources # {} =>
       /\ Large(summaries[c].sources)
       /\ \A e \in summaries[c].sources : Cluster(e) = c

\* "The sum of estimated tokens across sections is no more than the budget": only
\* a lone item may be larger, and the bundle says so.
BudgetKept == Bundle => spent <= req.budget \/ (Cardinality(kept) = 1 /\ dropped)

\* The truncated flag is up if something that matched is not in the bundle, but for
\* events in whose place the bundle has summaries; and only if something was left out or a
\* lone item is all there is. A query that matched anything gets something.
TruncationTold ==
  Bundle =>
    /\ ~dropped => \A i \in matched \ kept :
         i.section = "events" /\ \E s \in kept : s.kind = "summary"
    /\ ~dropped => kept = items
    /\ dropped => kept # items \/ Cardinality(kept) = 1
    /\ matched # {} /\ req.budget > 0 => kept # {}

\* Sprint 005 spec.md: a bundle "never silently drops events without representation": an
\* event that matched is there, or a summary that names it is, or the flag is up.
EventsRepresented ==
  Bundle /\ ~dropped =>
    \A e \in Of("events", matched) : e \in kept \/ \E s \in kept : e.id \in s.sources

\* What of FR-004 the builder does: no knowledge of a bundle shares its key, a file of a
\* repository, with a fact or an event there, and no text is in it twice.
KnowledgeOnce ==
  Bundle =>
    /\ \A i \in Of("knowledge", kept), j \in kept \ Of("knowledge", kept) :
         i.key # "" => i.key # j.key
    /\ \A i, j \in Of("knowledge", kept) : store[i.id].text = store[j.id].text => i = j

\* FR-004: "the same underlying datum never appears twice in one bundle", a datum being told
\* by its key: facts are not held against events.
DatumInOneSection ==
  Bundle => \A i, j \in kept : i.key # "" /\ i.key = j.key => i.section = j.section

=============================================================================
