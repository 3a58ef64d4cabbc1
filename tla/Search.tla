------------------------------- MODULE Search -------------------------------
(***************************************************************************)
(* The retrieval pipeline of klams-core (retrieval.rs), behind             *)
(* memory_search, POST /memory/search, memory_related and memory_get: the  *)
(* store calls of one request, one after the other, while other clients    *)
(* write and any call may fail.  A query is what the store makes of it:    *)
(* the cosine of each text, the texts that hold every word of it, and the  *)
(* ids its filters and tags let through.                                   *)
(***************************************************************************)
EXTENDS Naturals, FiniteSets

CONSTANTS Points,      \* ids of knowledge points
          Facts, Events,
          Texts,       \* the contents points hold (content_hash)
          Cosine,      \* of a text and the query, in hundredths
          Lexical,     \* the texts that hold every token of the query
          Contents,    \* what a point may be: text, tier, volatile for long, live
          Matching,    \* the ids a request's filters let through
          Tagged,      \* the points that carry a request's tags
          Requests,    \* what clients ask, a subset of AnyRequest
          Fusion,      \* "rrf" or "minmax"
          RrfK,
          Window,      \* rerank_window; 0 when there is no reranker
          MaxTroubles  \* bound: calls that fail and writes of others, together

Ids == Points \cup Facts \cup Events
MaxTopK == 50
\* What clients ask: top_k, the filters of REST and the tags of MCP, whether a source
\* may fail, the kinds a search wants, and the id memory_related and memory_get name.
Ask(kinds, filtered, tagged, tolerant) ==
  [kind : kinds, limit : 1..MaxTopK, filtered : filtered, tagged : tagged, tolerant : tolerant,
   wants : SUBSET Ids, id : Ids]
\* POST /memory/search clamps top_k and goes on without a source that fails;
\* memory_search refuses a top_k out of range, and fails with its sources.
FromRest == Ask({"search"}, BOOLEAN, {FALSE}, {TRUE})
FromTool == Ask({"search"}, {FALSE}, BOOLEAN, {FALSE})
OfNeighbours == Ask({"related"}, {FALSE}, {FALSE}, {FALSE})
OfOne == Ask({"get"}, {FALSE}, {FALSE}, {FALSE})
AnyRequest == FromRest \cup FromTool \cup OfNeighbours \cup OfOne

ASSUME SearchAssumption ==
  /\ Ids \subseteq Nat \ {0} /\ IsFiniteSet(Ids)
  /\ Points \cap Facts = {} /\ Points \cap Events = {} /\ Facts \cap Events = {}
  /\ Cosine \in [Texts -> 1..100] /\ Lexical \subseteq Texts
  /\ Contents \subseteq [text : Texts, tier : {"hand", "extract", "bulk"}, stale : BOOLEAN, live : BOOLEAN]
  /\ Matching \subseteq Ids /\ Tagged \subseteq Points
  /\ Requests \subseteq AnyRequest
  /\ Fusion \in {"rrf", "minmax"} /\ {RrfK, Window, MaxTroubles} \subseteq Nat

VARIABLES memory,     \* what is stored under an id
          req,        \* the request
          at,         \* the call it makes next, or "done"
          page,       \* the candidates so far
          reply,      \* what the client gets
          faults, writes,
          failed,     \* history: the sources that did not answer
          dead        \* history: what was deleted when the request came

vars == <<memory, req, at, page, reply, faults, writes, failed, dead>>

KnowledgeOverfetch == 2
FilterOverfetch == 3

Live == {i \in Ids : memory[i].live}
Raw(p) == Cosine[memory[p].text]

-----------------------------------------------------------------------------
(* What the stores answer *)

\* A list gives each of its members its place, from one on.
Lists(S) == {s \in [S -> 1..Cardinality(S)] : \A i, j \in S : s[i] = s[j] => i = j}
NoList == [i \in {} |-> 0]
Elements(s) == DOMAIN s
Only(s, S) == LET kept == Elements(s) \cap S IN
              [i \in kept |-> Cardinality({j \in kept : s[j] <= s[i]})]
Take(s, n) == Only(s, {i \in Elements(s) : s[i] <= n})
Keep(s, Test(_)) == Only(s, {i \in Elements(s) : Test(i)})
\* What s holds keeps its place, and what only t holds follows.
Then(s, t) == LET more == Only(t, Elements(t) \ Elements(s)) IN
              [i \in Elements(s) \cup Elements(t) |->
                 IF i \in Elements(s) THEN s[i] ELSE Cardinality(Elements(s)) + more[i]]

\* The n nearest of S, best first; Qdrant leaves ties as they come.
Nearest(S, n) ==
  UNION {{s \in Lists(T) : \A p, q \in T : s[p] < s[q] => Raw(p) >= Raw(q)} :
         T \in {T \in SUBSET S : /\ Cardinality(T) = n \/ (Cardinality(T) < n /\ T = S)
                                 /\ \A p \in S \ T, q \in T : Raw(q) >= Raw(p)}}

\* ts_rank_cd falls with the id here: search_text orders by score, then id.
Texted(S) == [i \in S |-> Cardinality({j \in S : j <= i})]

\* MUTANT of Curated: the stratum's filter forgets deleted_at.
CuratedAny == {p \in Points : memory[p].tier \in {"hand", "extract"}}

Curated == {p \in Points \cap Live : memory[p].tier \in {"hand", "extract"}}

Passes(i) == req.filtered => i \in Matching

-----------------------------------------------------------------------------
(* Fusion *)

\* boost_threshold: the floor, or 82 of a hundred of the best; scaled by 100.
Highest(S) == IF S = {} THEN 0 ELSE CHOOSE n \in S : \A m \in S : m <= n
Threshold(S) == Highest({4500, 82 * Highest({Raw(p) : p \in S})})
Competes(p) == 100 * Raw(p) >= page.threshold

\* knowledge_weight, in eighths: an extract whose author did not resolve counts
\* as written by hand.
TierWeight(p) ==
  CASE memory[p].tier = "bulk" -> 8
    [] memory[p].tier = "extract" /\ page.authors -> 12
    [] OTHER -> 16

\* volatility_demotion has its floor at a quarter.
Weight(i) ==
  IF i \notin Points THEN 8
  ELSE (IF Competes(i) THEN TierWeight(i) ELSE 8) \div (IF memory[i].stale THEN 4 ELSE 1)

\* The product of the first four divisors, so that contributions stay whole.
Unit == ((RrfK + 1) * (RrfK + 2) * (RrfK + 3) * (RrfK + 4)) \div 2
Place(s, i) == IF i \in Elements(s) THEN s[i] ELSE 0

\* RRF, or the weighted blend of scores that fuse_in_place hands over as zeros:
\* min-max makes each of them one.
Contribution(s, i) ==
  IF Place(s, i) = 0 THEN 0
  ELSE IF Fusion = "rrf" THEN Weight(i) * (Unit \div (RrfK + Place(s, i)))
  ELSE Weight(i)

Fused(i) ==
  Contribution(Only(page.list, Points), i) + Contribution(Only(page.list, Facts), i)
  + Contribution(Only(page.list, Events), i)
  + Contribution(page.curated, i) + Contribution(page.lexical, i)

\* finalize: by score, then Vector before Fts, then id.
Ahead(i, j) ==
  \/ Fused(i) > Fused(j)
  \/ /\ Fused(i) = Fused(j)
     /\ \/ i \in Points /\ j \notin Points
        \/ (i \in Points <=> j \in Points) /\ i < j
Ranked(S) == [i \in S |-> 1 + Cardinality({j \in S : Ahead(j, i)})]

-----------------------------------------------------------------------------
(* The request *)

NoPage == [list |-> NoList, curated |-> NoList, lexical |-> NoList, threshold |-> 0,
           authors |-> TRUE, facts |-> NoList, events |-> NoList, seed |-> "unread"]
NoReply == [kind |-> "none", hits |-> NoList, copies |-> {}, degraded |-> FALSE]

Wants(S) == \E i \in S : i \in req.wants
TextCall == IF Wants(Facts) \/ Wants(Events) THEN "text" ELSE "merge"

Goto(call, p) == at' = call /\ page' = p
               /\ UNCHANGED <<memory, req, reply, faults, writes, failed, dead>>
Finish(r) == /\ at' = "done" /\ reply' = r /\ page' = NoPage
             /\ UNCHANGED <<memory, req, faults, writes, failed, dead>>

\* A source that does not answer ends an MCP search; REST goes on without it.
SourceFails(source, call) ==
  /\ faults + writes < MaxTroubles /\ faults' = faults + 1
  /\ failed' = failed \cup {source}
  /\ IF req.tolerant /\ req.kind = "search"
     THEN /\ at' = call
          /\ page' = IF source = "knowledge" THEN NoPage ELSE [page EXCEPT !.facts = NoList, !.events = NoList]
          /\ reply' = [reply EXCEPT !.degraded = TRUE]
     ELSE at' = "done" /\ page' = NoPage /\ reply' = [NoReply EXCEPT !.kind = "error"]
  /\ UNCHANGED <<memory, req, writes, dead>>
KnowledgeFails == SourceFails("knowledge", TextCall)
TextFails == SourceFails("text", "merge")

Embed ==
  /\ at = "embed"
  /\ Goto("global", page) \/ KnowledgeFails

Overfetched == IF req.filtered THEN FilterOverfetch ELSE KnowledgeOverfetch

\* MUTANT of Global: the page is fetched without room for duplicates.
GlobalExact ==
  /\ at = "global"
  /\ \E s \in Nearest({p \in Points \cap Live : req.tagged => p \in Tagged}, req.limit) :
       Goto("curated", [page EXCEPT !.list = Take(Keep(s, Passes), req.limit)])

\* search_knowledge, or search_knowledge_tagged with the plain search behind it.
Global ==
  /\ at = "global"
  /\ \/ \E s \in Nearest({p \in Points \cap Live : req.tagged => p \in Tagged},
                         Overfetched * req.limit) :
          Goto("curated", [page EXCEPT !.list = Take(Keep(s, Passes), KnowledgeOverfetch * req.limit)])
     \/ /\ req.tagged /\ faults + writes < MaxTroubles /\ faults' = faults + 1
        /\ at' = "untagged"
        /\ UNCHANGED <<memory, req, page, reply, writes, failed, dead>>
     \/ ~req.tagged /\ KnowledgeFails

GlobalUntagged ==
  /\ at = "untagged"
  /\ \/ \E s \in Nearest(Points \cap Live, Overfetched * req.limit) :
          Goto("curated", [page EXCEPT !.list = Take(Keep(s, Passes), KnowledgeOverfetch * req.limit)])
     \/ KnowledgeFails

\* The stratum, gated by what competes with the best of both lists.
CuratedSearch ==
  /\ at = "curated"
  /\ \/ \E s \in Nearest(Curated, req.limit) :
          LET all == Keep(s, Passes)
              bar == Threshold(Elements(page.list) \cup Elements(all)) IN
          Goto("lexical", [page EXCEPT !.threshold = bar,
                             !.curated = Keep(all, LAMBDA p : 100 * Raw(p) >= bar)])
     \/ KnowledgeFails

\* The lists join the page: what it holds already keeps its place.
LexicalSearch ==
  /\ at = "lexical"
  /\ \/ \E s \in Nearest({p \in Points \cap Live : memory[p].text \in Lexical}, req.limit) :
          LET words == Keep(s, Passes) IN
          Goto("authors", [page EXCEPT !.list = Then(Then(@, page.curated), words), !.lexical = words])
     \/ KnowledgeFails

\* resolve_knowledge_authors does without the authors it cannot read.
Authors ==
  /\ at = "authors"
  /\ \/ Goto(IF req.kind = "search" THEN TextCall ELSE "merge", page)
     \/ /\ faults + writes < MaxTroubles /\ faults' = faults + 1
        /\ at' = (IF req.kind = "search" THEN TextCall ELSE "merge")
        /\ page' = [page EXCEPT !.authors = FALSE]
        /\ UNCHANGED <<memory, req, reply, writes, failed, dead>>

SearchText ==
  LET n == IF req.filtered \/ req.tagged THEN FilterOverfetch * req.limit ELSE req.limit
      First(S) == Take(Texted(S \cap Live), n) IN
  /\ at = "text"
  /\ Goto("facts", [page EXCEPT !.facts = First(Facts), !.events = First(Events)]) \/ TextFails

\* The typed rows of the hits that are still there; each kind has its own budget.
Fetched(s, S) ==
  IF Wants(S) THEN Take(Keep(s, LAMBDA i : i \in Live /\ Passes(i)), req.limit) ELSE NoList
FetchFacts ==
  /\ at = "facts"
  /\ Goto("events", [page EXCEPT !.facts = Fetched(page.facts, Facts)]) \/ TextFails
FetchEvents ==
  /\ at = "events"
  /\ Goto("merge", [page EXCEPT !.events = Fetched(page.events, Events)]) \/ TextFails

\* The tag filter looks at the projection, and facts and events are projected
\* without tags.
HasTags(i) == req.tagged => i \in Tagged

\* MUTANT of First: only neighbours are compared.
FirstOfRun(s, i) == \A j \in Elements(s) : s[j] + 1 = s[i] /\ {i, j} \subseteq Points
                       => memory[j].text # memory[i].text

\* collapse_duplicates: the first hit of a content stays.
First(s, i) == \A j \in Elements(s) : s[j] < s[i] /\ {i, j} \subseteq Points
                  => memory[j].text # memory[i].text
Collapsed(s) == Keep(s, LAMBDA i : First(s, i))

Merge ==
  LET all == Keep(Then(Then(page.list, page.facts), page.events), HasTags)
      list == Collapsed(all) IN
  /\ at = "merge" /\ req.kind = "search"
  /\ reply' = [reply EXCEPT !.copies = Elements(all) \ Elements(list)]
  /\ page' = [page EXCEPT !.list = list,
                !.curated = Only(@, Elements(list)), !.lexical = Only(@, Elements(list))]
  /\ at' = IF Window > 0 /\ Cardinality(Elements(list) \cap Points) > 1 THEN "rerank" ELSE "fuse"
  /\ UNCHANGED <<memory, req, faults, writes, failed, dead>>

\* TEI scores the candidates in an order of its own; an answer that leaves one out or
\* names one twice is refused, as is none.
Orders(S) == Lists(S)

\* The first candidates are put in that order; what TEI was not shown follows as it was.
ByPlace(s, order) == Only(order, Elements(s))
Rerank ==
  LET points == Only(page.list, Points)
      shown == Elements(Take(points, Window)) IN
  /\ at = "rerank"
  /\ \/ \E s \in Orders(shown) :
          LET order == Then(s, points) IN
          Goto("fuse", [page EXCEPT !.list = Then(order, @),
                          !.curated = ByPlace(@, order), !.lexical = ByPlace(@, order)])
     \/ /\ faults + writes < MaxTroubles /\ faults' = faults + 1 /\ at' = "fuse"
        /\ UNCHANGED <<memory, req, page, reply, writes, failed, dead>>

\* The hits as the client is shown them, with what the search went without.
Hits(s) == [reply EXCEPT !.kind = "hits", !.hits = s]
Fuse ==
  /\ at = "fuse"
  /\ Finish(Hits(Take(Ranked(Elements(page.list)), req.limit)))

-----------------------------------------------------------------------------
(* memory_related and memory_get *)

\* The seed's vector is there for as long as the point is, deleted or not.
Vector ==
  /\ at = "vector"
  /\ Goto("seed", page) \/ KnowledgeFails
Seed ==
  /\ at = "seed"
  /\ \/ Goto("near", [page EXCEPT !.seed = memory[req.id].text])
     \/ /\ faults + writes < MaxTroubles /\ faults' = faults + 1 /\ at' = "near"
        /\ UNCHANGED <<memory, req, page, reply, writes, failed, dead>>
Near ==
  /\ at = "near"
  /\ \/ \E s \in Nearest(Points \cap Live, KnowledgeOverfetch * (req.limit + 1)) :
          Goto("authors", [page EXCEPT !.list =
                 Keep(s, LAMBDA p : p # req.id /\ memory[p].text # page.seed)])
     \/ KnowledgeFails
Neighbours ==
  /\ at = "merge" /\ req.kind = "related"
  /\ Finish([NoReply EXCEPT !.kind = "hits", !.hits = Take(Collapsed(page.list), req.limit)])

\* memory_by_id: get_knowledge returns a point as it is stored; the facts'
\* statement leaves out the deleted.
Get ==
  /\ at = "get"
  /\ \/ /\ LET found == (req.id \in Points) \/ (req.id \in Live) IN
           Finish([NoReply EXCEPT !.kind = IF found THEN "hits" ELSE "none",
                                  !.hits = IF found THEN [i \in {req.id} |-> 1] ELSE NoList])
           \/ KnowledgeFails

-----------------------------------------------------------------------------
\* Another client deletes a memory, or restores one.
Write == /\ faults + writes < MaxTroubles /\ writes' = writes + 1 /\ at # "done"
         /\ \E i \in Points \cup Facts :
              memory' = [memory EXCEPT ![i].live = ~@] /\ dead' = dead \ {i}
         /\ UNCHANGED <<req, at, page, reply, faults, failed>>

Row(live) == [text |-> "", tier |-> "bulk", stale |-> FALSE, live |-> live]

FirstCall ==
  CASE req.kind = "search" -> IF Wants(Points) THEN "embed" ELSE "text"
    [] req.kind = "related" -> "vector"
    [] OTHER -> "get"

Init ==
  /\ \E held \in [Points -> Contents], deleted \in SUBSET Facts :
       memory = [i \in Ids |-> IF i \in Points THEN held[i] ELSE Row(i \notin deleted)]
  /\ req \in Requests /\ at = FirstCall
  /\ page = NoPage /\ reply = NoReply
  /\ faults = 0 /\ writes = 0 /\ failed = {}
  /\ dead = {i \in Ids : ~memory[i].live}

Step ==
  \/ Embed \/ Global \/ GlobalUntagged \/ CuratedSearch \/ LexicalSearch \/ Authors
  \/ SearchText \/ FetchFacts \/ FetchEvents \/ Merge \/ Rerank \/ Fuse
  \/ Vector \/ Seed \/ Near \/ Neighbours \/ Get
Next == Step \/ Write
Spec == Init /\ [][Next]_vars

-----------------------------------------------------------------------------
Shown == Elements(reply.hits)
Calls == {"embed", "global", "untagged", "curated", "lexical", "authors", "text", "facts", "events",
          "merge", "rerank", "fuse", "vector", "seed", "near", "get", "done"}

\* The lists are of what they are named for, and a page is no longer than asked.
TypeOK ==
  /\ at \in Calls /\ reply.kind \in {"none", "hits", "error"}
  /\ Elements(page.list) \subseteq Ids /\ Elements(page.curated) \cup Elements(page.lexical) \subseteq Points
  /\ Cardinality(Shown) <= req.limit /\ faults + writes <= MaxTroubles

\* A text takes one place on a page, however many points hold it, and the copies
\* that gave way are named; memory_related leaves the text of its seed out.
OneHitPerText ==
  at = "done" =>
    /\ \A p, q \in Shown \cap Points : memory[p].text = memory[q].text => p = q
    /\ req.kind = "related" /\ faults = 0 =>
         \A p \in Shown : memory[p].text # memory[req.id].text

\* A page that is not full shows every live memory, when no text has more copies
\* than the fetch leaves room for: duplicates never cost another result its place.
ShortPageIsAll ==
  at = "done" /\ reply.kind = "hits" /\ req.kind = "search" /\ ~req.filtered /\ ~req.tagged
  /\ faults = 0 /\ writes = 0 /\ Cardinality(Shown) < req.limit
  /\ (\A t \in Texts : Cardinality({p \in Points \cap Live : memory[p].text = t}) <= KnowledgeOverfetch)
  => /\ (Facts \cup Events) \cap Live \cap req.wants \subseteq Shown
     /\ Points \subseteq req.wants => \A p \in Points \cap Live :
          \E q \in Shown \cap Points : memory[q].text = memory[p].text

\* What was deleted before the request came is not found by it, nor named as a copy.
DeletedNotFound == req.kind # "get" => (Shown \cup reply.copies) \cap dead = {}

\* memory_get "fetches a live memory": an id that is deleted is not found.
FetchedIsLive == req.kind = "get" => Shown \cap dead = {}

\* "weighted" is said to blend the scores of a source: of two like memories, the
\* nearer to the query comes first.
NearerFirst ==
  [][at = "fuse" /\ at' = "done" =>
       \A h, l \in Elements(reply'.hits) \cap Points :
         /\ reply'.hits[h] < reply'.hits[l]
         /\ [memory[h] EXCEPT !.text = ""] = [memory[l] EXCEPT !.text = ""]
         /\ {memory[h].text, memory[l].text} \cap Lexical = {}
         => Raw(h) >= Raw(l)]_vars
=============================================================================
