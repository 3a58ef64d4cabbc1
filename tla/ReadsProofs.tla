------------------------------ MODULE ReadsProofs ------------------------------
(***************************************************************************)
(* The bundles of context assembly, for every store, budget and set of     *)
(* items: what is spent stays within the budget unless a single item is    *)
(* all there is, what it leaves out is told or summarised (IInv), and no   *)
(* knowledge repeats what another section says (OnceInv).  The merged listings, for every table, page size *)
(* and interleaving of writes: a walk refines Listing (WalkInv).           *)
(***************************************************************************)
EXTENDS Context, Timeline, FunctionTheorems, FiniteSetTheorems, WellFoundedInduction, TLAPS

Before3 == {"idle", "vector", "text", "summaries", "budget"}

\* What the floors have not come to yet.
Later ==
  CASE at = "facts" -> Of("knowledge", items) \cup Of("events", items)
    [] at = "knowledge" -> Of("events", items)
    [] OTHER -> {}

\* All that matched is among the items, or what is not are events and summaries stand
\* in their place.
Given ==
  \/ matched = items
  \/ /\ \A i \in matched \ items : i.section = "events"
     /\ \E j \in items : j.kind = "summary"

\* While the floors are filled, no item is at two places.
Parted ==
  /\ kept \cap pending = {} /\ kept \cap rest = {} /\ pending \cap rest = {}
  /\ Later \cap (kept \cup pending \cup rest) = {}

\* The inductive invariant: where every item is while the budget is filled.
IInv ==
  /\ req.budget \in Nat
  /\ at \in Before3 \cup {"facts", "knowledge", "events", "pool", "done"}
  /\ \A i \in items : i.section \in {"facts", "knowledge", "events"}
  /\ kept \subseteq items
  /\ at # "done" => spent <= req.budget
  /\ at \in Before3 => kept = {} /\ spent = 0 /\ rest = {} /\ ~dropped
  /\ at = "summaries" => matched = items
  /\ at \in {"budget", "facts", "knowledge", "events", "pool", "done"} => Given
  /\ at \in {"facts", "knowledge", "events"} =>
       /\ items = kept \cup pending \cup rest \cup Later /\ Parted
       /\ ~dropped /\ items # {} /\ req.budget # 0
  /\ at = "pool" =>
       /\ items # {} /\ req.budget # 0 /\ pending \subseteq items /\ kept \cap pending = {}
       /\ ~dropped => items = kept \cup pending
       /\ dropped => \E i \in items : i \notin kept \cup pending
  /\ at = "done" =>
       /\ spent <= req.budget \/ (Cardinality(kept) = 1 /\ dropped)
       /\ kept # items => dropped
       /\ dropped => kept # items \/ Cardinality(kept) = 1
       /\ (items # {} /\ req.budget # 0) => kept # {}

\* A section's items are of that section, whatever they are made of.
LEMMA FusedSection == ASSUME NEW section, NEW s PROVE \A i \in Fused(section, s) : i.section = section
BY DEF Fused, Item

\* So are the summaries, of the events.
LEMMA SummarisedSection ==
  ASSUME NEW s PROVE \A i \in Summarised(s) : i.section = "events" /\ i.kind = "summary"
<1>1. \A c, k : SummaryItem(c, k).section = "events" /\ SummaryItem(c, k).kind = "summary"
  BY DEF SummaryItem
<1> QED BY <1>1 DEF Summarised

\* Nothing enters a page by deduplication.
LEMMA DedupedFrom == ASSUME NEW f, NEW k, NEW e PROVE Deduped(f, k, e) \subseteq f \cup k \cup e
BY DEF Deduped

\* A new list of items has its sections.
LEMMA TextSections == ASSUME Text PROVE \A i \in items' : i.section \in {"facts", "knowledge", "events"}
<1>1. CASE Found(Deduped(Fused("facts", Texts.facts), Fused("knowledge", chunks), Fused("events", Texts.events)))
  <2>1. items' \subseteq Fused("facts", Texts.facts) \cup Fused("knowledge", chunks) \cup Fused("events", Texts.events)
    BY <1>1, DedupedFrom DEF Found
  <2> QED BY <2>1, FusedSection
<1>2. CASE Found(Deduped({}, Fused("knowledge", chunks), {}))
  <2>1. items' \subseteq Fused("knowledge", chunks) BY <1>2, DedupedFrom DEF Found
  <2> QED BY <2>1, FusedSection
<1> QED BY <1>1, <1>2 DEF Text

\* The builder starts with nothing kept and nothing spent.
LEMMA InitInv == Init => IInv
BY DEF Init, ContextInit, IInv, Before3

\* Every step of the builder, and none of the task's, moves the items about as it
\* should.
LEMMA NextInv == IInv /\ [Next]_contextVars => IInv'
<1> SUFFICES ASSUME IInv, [Next]_contextVars PROVE IInv' OBVIOUS
<1>1. CASE UNCHANGED buildVars
  BY <1>1 DEF IInv, buildVars, Before3, Later, Of, Given, Parted
<1>2. CASE Ask
  <2>1. req' \in [budget : Budgets, hosts : HostFilters] /\ Budgets \subseteq Nat
    BY <1>2, ContextAssumption DEF Ask
  <2>2. req'.budget \in Nat BY <2>1
  <2> QED BY <1>2, <2>2 DEF IInv, Ask, Before3
<1>3. CASE Vector
  BY <1>3 DEF IInv, Vector, Before3
<1>4. CASE Text
  <2>1. at' \in {"summaries", "budget"} BY <1>4 DEF Text, Found
  <2>2. UNCHANGED <<req, kept, spent, rest, dropped>> /\ at = "text" BY <1>4 DEF Text
  <2>3. matched' = items' BY <1>4 DEF Text, Found
  <2>4. Given' BY <2>3 DEF Given
  <2> QED BY <2>1, <2>2, <2>3, <2>4, TextSections, <1>4 DEF IInv, Before3
<1>5. CASE Substitute
  <2>1. PICK s : \/ items' = items
                 \/ Summarised(s) # {} /\ items' = (items \ Of("events", items)) \cup Summarised(s)
    BY <1>5 DEF Substitute
  <2>3. \A i \in Summarised(s) : i.section = "events" /\ i.kind = "summary" BY SummarisedSection
  <2>2. UNCHANGED <<req, kept, spent, rest, dropped>> /\ at = "summaries" /\ at' = "budget" BY <1>5 DEF Substitute
  <2>4. \A i \in items' : i.section \in {"facts", "knowledge", "events"} BY <2>1, <2>3 DEF IInv
  <2>5. matched' = items BY <1>5, <2>2 DEF Substitute, IInv
  <2>6. Given' BY <2>1, <2>3, <2>5 DEF Given, Of
  <2> QED BY <2>2, <2>4, <2>6 DEF IInv, Before3
<1>6. CASE Begin
  <2>1. at = "budget" /\ UNCHANGED <<req, items, kept, spent, rest, matched>> BY <1>6 DEF Begin
  <2>2. kept = {} /\ spent = 0 /\ rest = {} /\ Given' BY <2>1 DEF IInv, Before3, Given
  <2>3. CASE items = {} \/ req.budget = 0
    BY <1>6, <2>1, <2>2, <2>3 DEF Begin, IInv, Before3
  <2>4. CASE ~(items = {} \/ req.budget = 0)
    <3>1. at' = "facts" /\ ~dropped' /\ pending' = Of("facts", items) BY <1>6, <2>4 DEF Begin
    <3>2. items = Of("facts", items) \cup Of("knowledge", items) \cup Of("events", items)
      BY DEF IInv, Of
    <3>3. Later' = Of("knowledge", items) \cup Of("events", items)
      BY <2>1, <3>1 DEF Later, Of
    <3>4. items' = kept' \cup pending' \cup rest' \cup Later'
      BY <2>1, <2>2, <3>1, <3>2, <3>3
    <3>5. Parted' BY <2>1, <2>2, <3>1, <3>3 DEF Parted, Of
    <3> QED BY <2>1, <2>2, <2>4, <3>1, <3>4, <3>5 DEF IInv, Before3
  <2> QED BY <2>3, <2>4
<1>7. CASE TakeFloor
  <2>1. UNCHANGED <<req, at, items, dropped>> /\ at \in {"facts", "knowledge", "events"} /\ Given'
    BY <1>7 DEF TakeFloor, Filling, IInv, Given
  <2>2. PICK i \in pending :
          /\ pending' = pending \ {i}
          /\ \/ kept' = kept \cup {i} /\ spent' = spent + i.tokens /\ rest' = rest /\ Fits(i)
             \/ rest' = rest \cup {i} /\ UNCHANGED <<kept, spent>>
    BY <1>7 DEF TakeFloor
  <2>3. items = kept \cup pending \cup rest \cup Later /\ Parted /\ ~dropped /\ items # {} /\ req.budget # 0
    BY <2>1 DEF IInv
  <2>4. Later' = Later BY <2>1 DEF Later, Of
  <2>7. Parted' BY <2>2, <2>3, <2>4 DEF Parted
  <2>5. items' = kept' \cup pending' \cup rest' \cup Later' /\ kept' \subseteq items'
    BY <2>1, <2>2, <2>3, <2>4
  <2>6. spent' <= req'.budget BY <2>1, <2>2 DEF Fits, IInv
  <2> QED BY <2>1, <2>3, <2>5, <2>6, <2>7 DEF IInv, Before3
<1>8. CASE NextSection
  <2>1. /\ UNCHANGED <<req, items, kept, spent, dropped>> /\ pending = {} /\ Given'
        /\ at \in {"facts", "knowledge", "events"}
    BY <1>8 DEF NextSection, Filling, IInv, Given
  <2>2. items = kept \cup rest \cup Later /\ Parted /\ ~dropped /\ items # {} /\ req.budget # 0
    BY <2>1 DEF IInv
  <2>3. CASE at = "facts"
    <3>1. at' = "knowledge" /\ pending' = Of("knowledge", items) /\ rest' = rest
      BY <1>8, <2>3 DEF NextSection, Next1
    <3>2. Later' = Of("events", items) BY <2>1, <3>1 DEF Later, Of
    <3>3. items' = kept' \cup pending' \cup rest' \cup Later'
      BY <2>1, <2>2, <2>3, <3>1, <3>2 DEF Later
    <3>4. Parted' BY <2>1, <2>2, <2>3, <3>1, <3>2 DEF Parted, Later, Of
    <3> QED BY <2>1, <2>2, <3>1, <3>3, <3>4 DEF IInv, Before3
  <2>4. CASE at = "knowledge"
    <3>1. at' = "events" /\ pending' = Of("events", items) /\ rest' = rest
      BY <1>8, <2>4 DEF NextSection, Next1
    <3>2. Later' = {} BY <3>1 DEF Later
    <3>3. items' = kept' \cup pending' \cup rest' \cup Later'
      BY <2>1, <2>2, <2>4, <3>1, <3>2 DEF Later
    <3>4. Parted' BY <2>1, <2>2, <2>4, <3>1, <3>2 DEF Parted, Later
    <3> QED BY <2>1, <2>2, <3>1, <3>3, <3>4 DEF IInv, Before3
  <2>5. CASE at = "events"
    <3>1. at' = "pool" /\ pending' = rest
      BY <1>8, <2>5 DEF NextSection, Next1
    <3>2. items = kept \cup rest /\ kept \cap rest = {} BY <2>2, <2>5 DEF Later, Parted
    <3> QED BY <2>1, <2>2, <3>1, <3>2 DEF IInv, Before3
  <2> QED BY <2>1, <2>3, <2>4, <2>5
<1>9. CASE TakePool
  <2>1. UNCHANGED <<req, at, items>> /\ at = "pool" /\ Given' BY <1>9 DEF TakePool, IInv, Given
  <2>2. PICK i \in pending :
          /\ pending' = pending \ {i}
          /\ \/ kept' = kept \cup {i} /\ spent' = spent + i.tokens /\ dropped' = dropped /\ Fits(i)
             \/ dropped' = TRUE /\ UNCHANGED <<kept, spent>>
    BY <1>9 DEF TakePool
  <2>3. spent' <= req'.budget BY <2>1, <2>2 DEF Fits, IInv
  <2>4. kept' \subseteq items' /\ pending' \subseteq items' BY <2>1, <2>2 DEF IInv
  <2>5. ~dropped' => items' = kept' \cup pending' BY <2>1, <2>2 DEF IInv
  <2>6. kept' \cap pending' = {} BY <2>1, <2>2 DEF IInv
  <2>7. dropped' => \E j \in items' : j \notin kept' \cup pending'
    <3>1. i \notin kept /\ i \notin pending' /\ i \in items BY <2>1, <2>2 DEF IInv
    <3> QED BY <2>1, <2>2, <3>1 DEF IInv
  <2> QED BY <2>1, <2>3, <2>4, <2>5, <2>6, <2>7 DEF IInv, Before3
<1>10. CASE Answer
  <2>1. UNCHANGED <<req, items, pending>> /\ at = "pool" /\ pending = {} /\ at' = "done" /\ Given'
    BY <1>10 DEF Answer, IInv, Given
  <2>2. CASE kept = {}
    <3>1. PICK i \in items : kept' = {i} /\ dropped' = TRUE BY <1>10, <2>2 DEF Answer
    <3>2. Cardinality(kept') = 1 BY <3>1, FS_Singleton
    <3> QED BY <2>1, <3>1, <3>2 DEF IInv, Before3
  <2>3. CASE kept # {}
    <3>1. UNCHANGED <<kept, spent, dropped>> BY <1>10, <2>3 DEF Answer
    <3> QED BY <2>1, <2>3, <3>1 DEF IInv, Before3
  <2> QED BY <2>2, <2>3
<1>11. CASE UNCHANGED contextVars
  BY <1>11, <1>1 DEF contextVars
<1> QED BY <1>1, <1>2, <1>3, <1>4, <1>5, <1>6, <1>7, <1>8, <1>9, <1>10, <1>11 DEF Next, BuildStep

\* Every reachable state of a build satisfies the invariant.
THEOREM BuildInv == Spec => []IInv
BY InitInv, NextInv, PTL DEF Spec

\* The bundle's tokens stay within the budget the request named, or the bundle is
\* one item larger than it and says that it is truncated (allocate_budget).
THEOREM BudgetIsKept == Spec => []BudgetKept
<1>1. IInv => BudgetKept BY DEF IInv, BudgetKept, Bundle
<1> QED BY <1>1, BuildInv, PTL

\* The flag that allocate_budget returns is up if something that matched is not in the
\* bundle, but for events in whose place there are summaries, and is not up for nothing;
\* and what matched is never answered with nothing (its rescue of the best item).
THEOREM TruncationIsTold == Spec => []TruncationTold
<1>1. ASSUME IInv, Bundle PROVE TruncationTold
  <2>1. Given /\ kept \subseteq items /\ (kept # items => dropped) BY <1>1 DEF IInv, Bundle
  <2>2. ~dropped => \A i \in matched \ kept : i.section = "events" /\ \E j \in kept : j.kind = "summary"
    BY <2>1 DEF Given
  <2>3. matched # {} => items # {} BY <2>1 DEF Given
  <2>4. req.budget > 0 => req.budget # 0 BY <1>1 DEF IInv
  <2> QED BY <1>1, <2>1, <2>2, <2>3, <2>4 DEF IInv, TruncationTold, Bundle
<1>2. IInv => TruncationTold BY <1>1 DEF TruncationTold
<1> QED BY <1>2, BuildInv, PTL

-----------------------------------------------------------------------------
(* Knowledge once *)

OneText(S) == \A i, j \in S : store[i].text = store[j].text => i = j
Apart(S) ==
  /\ \A i, j \in S : i.section # j.section /\ i.key = j.key /\ i.key # "" => "knowledge" \notin {i.section, j.section}
  /\ \A i, j \in Of("knowledge", S) : store[i.id].text = store[j.id].text => i = j

\* The rows in hand are of different texts until they become items, and from then
\* on no knowledge stands for what another item says.
OnceInv ==
  /\ store \in Stores
  /\ at = "text" => OneText(chunks)
  /\ at \in {"summaries", "budget", "facts", "knowledge", "events", "pool", "done"} => Apart(items)

\* Of two rows of one text one matches better, so that only one of them is kept.
LEMMA DistinctTexts ==
  ASSUME store \in Stores, NEW S, S \subseteq Chunks
  PROVE  OneText(Distinct(S))
<1> SUFFICES ASSUME NEW i \in Distinct(S), NEW j \in Distinct(S), store[i].text = store[j].text, i # j
             PROVE  FALSE
  BY DEF OneText
<1>1. store \in [Facts \cup Chunks -> Row] /\ Chunks \subseteq Nat
  BY ContextAssumption
<1>2. i \in S /\ j \in S /\ i \in Nat /\ j \in Nat /\ store[i] \in Row /\ store[j] \in Row
  BY <1>1 DEF Distinct
<1>3. store[i].near \in Nat /\ store[j].near \in Nat
  BY <1>2 DEF Row
<1>4. ~Better("knowledge", j, i) /\ ~Better("knowledge", i, j)
  BY <1>2 DEF Distinct
<1> QED
  BY <1>2, <1>3, <1>4 DEF Better, RowOf

\* What is kept of a section once the sections before it have been looked at.
Clear(S, over) == {i \in S : i.key = "" \/ i.key \notin {o.key : o \in over}}

\* Deduplication leaves no key to two sections of which one is knowledge, and of
\* knowledge nothing but what there was.
LEMMA DedupedApart ==
  ASSUME NEW F, NEW E, NEW K, OneText(K),
         \A i \in F : i.section = "facts", \A i \in E : i.section = "events"
  PROVE  Apart(Deduped(F, Fused("knowledge", K), E))
<1> DEFINE kn == Fused("knowledge", K)
           left == Clear(kn, F)
<1>1. Deduped(F, kn, E) = F \cup left \cup Clear(E, left)
  BY DEF Deduped, Clear
<1>2. \A i \in kn : i.section = "knowledge"
  BY FusedSection
<1>3. left \subseteq kn /\ Clear(E, left) \subseteq E
  BY DEF Clear
<1>4. ASSUME NEW i \in left, NEW j \in F \cup Clear(E, left), i.key = j.key, i.key # "" PROVE FALSE
  BY <1>4 DEF Clear
<1>5. ASSUME NEW i \in kn, NEW j \in kn, store[i.id].text = store[j.id].text PROVE i = j
  <2>1. PICK a \in K : i = Item("knowledge", a, Rank("knowledge", a, K))
    BY <1>5 DEF Fused
  <2>2. PICK b \in K : j = Item("knowledge", b, Rank("knowledge", b, K))
    BY <1>5 DEF Fused
  <2>3. i.id = a /\ j.id = b
    BY <2>1, <2>2 DEF Item
  <2>4. a = b
    BY <1>5, <2>3 DEF OneText
  <2> QED
    BY <2>1, <2>2, <2>4
<1> HIDE DEF kn, left
<1>6. \A i \in Deduped(F, kn, E) : i.section = "knowledge" => i \in left
  BY <1>1, <1>3
<1>7. \A i \in Deduped(F, kn, E) : i \notin left => i \in F \cup Clear(E, left)
  BY <1>1
<1>8. \A i, j \in Deduped(F, kn, E) :
         i.section # j.section /\ i.key = j.key /\ i.key # "" => "knowledge" \notin {i.section, j.section}
  <2> SUFFICES ASSUME NEW i \in Deduped(F, kn, E), NEW j \in Deduped(F, kn, E), i.section # j.section,
                      i.key = j.key, i.key # "", i.section = "knowledge" \/ j.section = "knowledge"
               PROVE  FALSE
    OBVIOUS
  <2>1. CASE i.section = "knowledge"
    <3>1. i \in left /\ j \in F \cup Clear(E, left)
      BY <1>2, <1>3, <1>6, <1>7, <2>1
    <3> QED
      BY <1>4, <3>1
  <2>2. CASE j.section = "knowledge"
    <3>1. j \in left /\ i \in F \cup Clear(E, left)
      BY <1>2, <1>3, <1>6, <1>7, <2>2
    <3> QED
      BY <1>4, <3>1
  <2> QED
    BY <2>1, <2>2
<1>9. \A i, j \in Of("knowledge", Deduped(F, kn, E)) : store[i.id].text = store[j.id].text => i = j
  BY <1>3, <1>5, <1>6 DEF Of
<1> QED
  BY <1>8, <1>9 DEF Apart, kn

\* A summary has no key and is of the events.
LEMMA SummarisedApart ==
  ASSUME NEW S, NEW T, NEW s, Apart(S), T \subseteq S \cup Summarised(s)
  PROVE  Apart(T)
<1>1. \A i \in Summarised(s) : i.section = "events" /\ i.key = ""
  <2>1. \A c, k : SummaryItem(c, k).section = "events" /\ SummaryItem(c, k).key = ""
    BY DEF SummaryItem
  <2> QED
    BY <2>1 DEF Summarised
<1>2. Of("knowledge", T) \subseteq Of("knowledge", S)
  BY <1>1 DEF Of
<1>3. \A i, j \in T : i.section # j.section /\ i.key = j.key /\ i.key # "" => "knowledge" \notin {i.section, j.section}
  BY <1>1 DEF Apart
<1> QED
  BY <1>2, <1>3 DEF Apart

\* The builder starts with no rows and no items.
LEMMA InitOnce == Init => OnceInv
BY DEF Init, ContextInit, OnceInv

\* Every step keeps the knowledge apart.
LEMMA NextOnce == OnceInv /\ [Next]_contextVars => OnceInv'
<1> SUFFICES ASSUME OnceInv, [Next]_contextVars PROVE OnceInv'
  OBVIOUS
<1> DEFINE Late == {"summaries", "budget", "facts", "knowledge", "events", "pool", "done"}
<1>1. ASSUME store' = store, items' = items, at' # "text", at' \in Late => at \in Late PROVE OnceInv'
  BY <1>1 DEF OnceInv, Apart, Of
<1>2. CASE UNCHANGED buildVars
  BY <1>2 DEF OnceInv, OneText, Apart, Of, buildVars
<1>3. CASE Ask
  BY <1>1, <1>3 DEF Ask
<1>4. CASE Vector
  <2>1. store' = store /\ at' = "text"
    BY <1>4 DEF Vector
  <2>2. OneText(chunks')
    <3>1. Matches("knowledge", Chunks) \subseteq Chunks
      BY DEF Matches, Top
    <3>2. OneText(Distinct(Matches("knowledge", Chunks)))
      BY <3>1, DistinctTexts DEF OnceInv
    <3>3. chunks' \subseteq Distinct(Matches("knowledge", Chunks))
      BY <1>4 DEF Vector, Top
    <3> QED
      BY <3>2, <3>3 DEF OneText
  <2> QED
    BY <2>1, <2>2 DEF OnceInv, OneText
<1>5. CASE Text
  <2>1. store' = store /\ OneText(chunks) /\ at' \in {"summaries", "budget"}
    BY <1>5 DEF Text, Found, OnceInv
  <2>2. Apart(items')
    <3>1. CASE Found(Deduped(Fused("facts", Texts.facts), Fused("knowledge", chunks), Fused("events", Texts.events)))
      <4>1. items' = Deduped(Fused("facts", Texts.facts), Fused("knowledge", chunks), Fused("events", Texts.events))
        BY <3>1 DEF Found
      <4> QED
        BY <2>1, <4>1, FusedSection, DedupedApart
    <3>2. CASE Found(Deduped({}, Fused("knowledge", chunks), {}))
      <4>1. items' = Deduped({}, Fused("knowledge", chunks), {})
        BY <3>2 DEF Found
      <4> QED
        BY <2>1, <4>1, DedupedApart
    <3> QED
      BY <1>5, <3>1, <3>2 DEF Text
  <2> QED
    BY <2>1, <2>2 DEF OnceInv, Apart, Of
<1>6. CASE Substitute
  <2>1. PICK s : items' \subseteq items \cup Summarised(s)
    BY <1>6 DEF Substitute
  <2>2. store' = store /\ at' = "budget" /\ Apart(items)
    BY <1>6 DEF Substitute, OnceInv
  <2>3. Apart(items')
    BY <2>1, <2>2, SummarisedApart
  <2> QED
    BY <2>2, <2>3 DEF OnceInv, Apart, Of
<1>7. CASE Begin
  BY <1>1, <1>7 DEF Begin
<1>8. CASE TakeFloor \/ TakePool
  BY <1>1, <1>8 DEF TakeFloor, TakePool, Filling
<1>9. CASE NextSection
  BY <1>1, <1>9 DEF NextSection, Next1, Filling
<1>10. CASE Answer
  BY <1>1, <1>10 DEF Answer
<1> QED
  BY <1>2, <1>3, <1>4, <1>5, <1>6, <1>7, <1>8, <1>9, <1>10 DEF Next, BuildStep, contextVars

\* Whatever the stores hold, and whichever of the two sources answers, no key is in
\* the knowledge section and in another, and no text is in it twice.
THEOREM KnowledgeIsOnce == Spec => []KnowledgeOnce
<1>1. Spec => []OnceInv
  BY InitOnce, NextOnce, PTL DEF Spec
<1>2. IInv /\ OnceInv => KnowledgeOnce
  BY DEF IInv, OnceInv, Apart, Of, KnowledgeOnce, Bundle
<1> QED
  BY <1>1, <1>2, BuildInv, PTL
-----------------------------------------------------------------------------
(* The walk through a merged listing *)

Pages == {shown[k] : k \in DOMAIN shown}

\* The stores a page has come past.
ReadBefore(pc) ==
  CASE pc = "event" -> {"fact"}
    [] pc = "author" -> {"fact", "event"}
    [] pc = "knowledge" -> {"fact", "event", "author"}
    [] pc = "merge" -> {"fact", "event", "author", "knowledge"}
    [] OTHER -> {}

RowKinds == {"none", "gone", "orphan", "fact", "event", "knowledge", "author"}
RowTypes ==
  /\ rows \in [RowIds -> [kind : RowKinds, at : Times, live : BOOLEAN]]
  /\ clock \in 1..MaxTime
  /\ \A i \in RowIds : rows[i].at <= clock
WalkTypes ==
  /\ RowTypes
  /\ owed \subseteq RowIds /\ shown \in Seq(RowIds)
  /\ walk \in [route : Merged, limit : Limits,
               pc : {"idle", "fact", "event", "author", "knowledge", "merge", "scroll", "done"},
               section : {"rows", "knowledge"}, cursor : [at : Times, id : Nat],
               union : SUBSET [at : Times, id : RowIds], saturated : BOOLEAN, since : Nat, until : Nat]

\* Where a page and a section begin and end.
WalkShape ==
  /\ IsFiniteSet(walk.union)
  /\ walk.pc \in {"idle", "fact", "scroll", "done"} => walk.union = {} /\ ~walk.saturated
  /\ walk.section = "knowledge" => walk.route = "deleted" /\ walk.pc \in {"idle", "scroll", "done"}
  /\ walk.pc = "scroll" => walk.section = "knowledge"
  /\ walk.route = "deleted" /\ walk.section = "rows" => walk.pc # "done"

\* The window moves forward only, and what is owed is in it.
WalkWindow ==
  /\ \A i \in owed : Listed(i)
  /\ \A i \in owed : walk.pc \notin {"idle", "done"} => walk.since <= rows[i].at /\ rows[i].at < walk.until
  /\ walk.pc # "idle" \/ walk.cursor # None => walk.until <= Handler(walk.route).until
  /\ walk.section = "rows" /\ walk.cursor # None => walk.cursor.at < walk.until
  /\ \A k \in walk.union : k.at < walk.until

\* What was shown is not behind the cursor, wherever it went since.
WalkShown ==
  /\ PagesDiffer
  /\ \A i \in Pages :
       /\ rows[i].kind \in {"gone"} \cup Kinds(walk.route) \cup
                           IF walk.section = "knowledge" THEN {"knowledge"} ELSE {}
       /\ walk.section = "rows" /\ walk.pc # "done" /\ rows[i].kind # "gone" =>
            walk.cursor # None /\ ~Behind(Key(i), walk.cursor)
       /\ walk.section = "knowledge" /\ walk.pc # "done" /\ rows[i].kind = "knowledge" =>
            i < walk.cursor.id

\* What the page at work has read is new, and each row once.
Fresh(k) ==
  /\ walk.cursor = None \/ Behind(k, walk.cursor)
  /\ k.id \notin Pages
  /\ rows[k.id].kind # "gone" =>
       rows[k.id].kind \in ReadBefore(walk.pc) \cap Kinds(walk.route) /\ ~Behind(Key(k.id), k)
WalkUnion ==
  /\ \A k \in walk.union : Fresh(k)
  /\ \A k, l \in walk.union : k.id = l.id => k = l

\* What is owed and not shown is still to come: behind the cursor; and once its store
\* has been read, in hand or with a whole page in front of it.
InFrontOf(i) == {k \in walk.union : Behind(Key(i), k)}
InHand(i) == \/ Key(i) \in walk.union
             \/ walk.saturated /\ Cardinality(InFrontOf(i)) >= walk.limit
ToCome(i) ==
  /\ walk.section = "rows" /\ rows[i].kind \in Kinds(walk.route) =>
       After(i, walk.cursor) /\ (rows[i].kind \in ReadBefore(walk.pc) => InHand(i))
  /\ walk.section = "knowledge" => rows[i].kind = "knowledge" /\ i >= walk.cursor.id
WalkAhead == walk.pc # "done" => \A i \in owed \ Pages : Sure(i) => ToCome(i)

WalkInv == WalkTypes /\ WalkShape /\ WalkWindow /\ WalkShown /\ WalkUnion /\ WalkAhead


\* What a listing's order is: strict, and total on the keys of rows.
Keys == [at : Nat, id : Nat]
\* The keys of a listing are in a strict total order.
LEMMA BehindOrders ==
  ASSUME NEW k \in Keys, NEW l \in Keys, NEW m \in Keys
  PROVE /\ ~Behind(k, k)
        /\ Behind(k, l) /\ Behind(l, m) => Behind(k, m)
        /\ k # l => Behind(k, l) \/ Behind(l, k)
<1>1. k # l => k.at # l.at \/ k.id # l.id BY DEF Keys
<1>2. \A a, b, c \in Keys :
        /\ ~Older(a, a)
        /\ Older(a, b) /\ Older(b, c) => Older(a, c)
        /\ (a.at # b.at \/ a.id # b.id) => Older(a, b) \/ Older(b, a)
  BY DEF Keys, Older
<1> QED BY <1>1, <1>2 DEF Behind

\* The routes that show the newest first take a row that moved up for one before.
LEMMA MovedUp ==
  ASSUME NEW k \in Keys, NEW l \in Keys, NEW c \in Keys, k.id = l.id, k.at <= l.at,
         walk.route \notin {"events_asc", "event_list"}
  PROVE Behind(l, c) => Behind(k, c)
BY DEF Behind, Older, Keys

\* A row's key, and the bounds of the model, are natural numbers.
LEMMA KeyTypes ==
  ASSUME WalkTypes
  PROVE /\ \A i \in RowIds : Key(i) \in [at : Times, id : RowIds] /\ Key(i) \in Keys /\ Key(i) # None
        /\ [at : Times, id : RowIds] \subseteq Keys
        /\ walk.cursor \in Keys /\ walk.limit \in Nat \ {0}
        /\ RowIds \subseteq Nat \ {0} /\ Times \subseteq Nat
<1>1. RowIds \subseteq Nat \ {0} /\ MaxTime \in Nat /\ Limits \subseteq Nat \ {0}
  BY TimelineAssumption
<1>2. Times \subseteq Nat BY <1>1 DEF Times
<1>3. \A i \in RowIds : rows[i].at \in Times BY DEF WalkTypes, RowTypes
<1> QED BY <1>1, <1>2, <1>3 DEF Key, Keys, None, WalkTypes

\* While the tables stay as they are, what is sure stays as it is.
Still == rows' = rows /\ walk'.route = walk.route /\ walk'.limit = walk.limit
\* While no row changes, the order, the keys and what is listed stay as they are.
LEMMA StillSame ==
  ASSUME Still
  PROVE /\ \A k, l : Behind(k, l)' <=> Behind(k, l)
        /\ \A i : Key(i)' = Key(i)
        /\ \A i : Listed(i)' <=> Listed(i)
        /\ \A i : Sure(i)' <=> Sure(i)
<1>1. \A k, l : Behind(k, l)' <=> Behind(k, l) BY DEF Behind, Older, Still
<1>2. \A i : Key(i)' = Key(i) BY DEF Key, Still
<1>3. \A i : Listed(i)' <=> Listed(i) BY DEF Listed, Present, Still
<1>4. /\ \A i : TickAt(i)' = TickAt(i) /\ Scroll' = Scroll
      /\ \A i : Filtered(i)' <=> Filtered(i)
  BY <1>3 DEF TickAt, Scroll, Filtered, Still
<1>8. \A t : OfTick(t)' = OfTick(t) BY <1>4 DEF OfTick
<1>5. \A i : Tied(i)' <=> Tied(i) BY <1>4, <1>8 DEF Tied
<1>9. \A i, t : Waste(i, t)' = Waste(i, t) BY <1>4, <1>8 DEF Waste, Still
<1>6. \A i, t : Packed(i, t)' <=> Packed(i, t) BY <1>4, <1>9 DEF Packed, Still
<1>7. \A i : Sure(i)' <=> Sure(i) BY <1>4, <1>5, <1>6 DEF Sure, Still
<1> QED BY <1>1, <1>2, <1>3, <1>7

\* A page's window, and where it starts.
LEMMA SpanTypes ==
  ASSUME WalkTypes
  PROVE /\ Handler(walk.route).since \in Nat /\ Handler(walk.route).until \in Nat
        /\ walk.route = "deleted" /\ walk.section = "knowledge" => Handler(walk.route).pc = "scroll"
        /\ ~(walk.route = "deleted" /\ walk.section = "knowledge") => Handler(walk.route).pc = "fact"
<1>1. clock \in Nat /\ Window \in Nat /\ MaxTime \in Nat
  BY TimelineAssumption DEF WalkTypes, RowTypes
<1>2. Ago \in Nat BY <1>1 DEF Ago
<1>3. walk.route \in Merged BY DEF WalkTypes
<1>4. CASE walk.route = "deleted"
  BY <1>1, <1>4 DEF Handler, Plain, ListDeleted, Span
<1>5. CASE walk.route # "deleted"
  BY <1>1, <1>2, <1>3, <1>5 DEF Handler, Plain, ListMemories, EventSearch, AuthorMemories, ListAuthors, Span, Merged
<1> QED BY <1>4, <1>5

\* A listing reaches no less far in time as the clock goes on.
LEMMA SpanGrows ==
  ASSUME WalkTypes, walk'.route = walk.route, clock' \in Nat, clock <= clock'
  PROVE Handler(walk.route).until <= Handler(walk.route)'.until /\ Handler(walk.route)'.until \in Nat
<1>1. clock \in Nat /\ Window \in Nat /\ MaxTime \in Nat
  BY TimelineAssumption DEF WalkTypes, RowTypes
<1>3. walk.route \in Merged BY DEF WalkTypes
<1> QED BY <1>1, <1>3 DEF Handler, Plain, ListMemories, EventSearch, AuthorMemories, ListAuthors, ListDeleted, Span, Merged

\* Time passes: the windows of pages to come move forward.
LEMMA PassKeeps == WalkInv /\ Pass => WalkInv'
<1> SUFFICES ASSUME WalkInv, Pass PROVE WalkInv' OBVIOUS
<1>1. WalkTypes /\ UNCHANGED <<rows, writes, walk, shown, owed>> /\ clock' = clock + 1 /\ clock < MaxTime
  BY DEF WalkInv, Pass
<1>2. clock \in Nat /\ MaxTime \in Nat BY <1>1, TimelineAssumption DEF WalkTypes, RowTypes
<1>3. Still BY <1>1 DEF Still
<1>4. WalkTypes'
  <2>1. clock' \in 1..MaxTime BY <1>1, <1>2 DEF WalkTypes, RowTypes
  <2>2. \A i \in RowIds : rows'[i].at <= clock'
    <3>1. \A i \in RowIds : rows[i].at \in Nat /\ rows[i].at <= clock
      BY <1>1, KeyTypes DEF WalkTypes, RowTypes
    <3> QED BY <1>1, <1>2, <3>1
  <2> QED BY <1>1, <2>1, <2>2 DEF WalkTypes, RowTypes
<1>5. WalkWindow'
  <2>1. Handler(walk.route).until <= Handler(walk.route)'.until /\ Handler(walk.route)'.until \in Nat
    BY <1>1, <1>2, SpanGrows
  <2>2. Handler(walk.route).until \in Nat /\ walk.until \in Nat BY <1>1, SpanTypes DEF WalkTypes
  <2>3. walk'.until <= Handler(walk.route)'.until \/ ~(walk'.pc # "idle" \/ walk'.cursor # None)
    BY <1>1, <2>1, <2>2 DEF WalkInv, WalkWindow
  <2> QED BY <1>1, <1>3, <2>3, StillSame DEF WalkInv, WalkWindow
<1>6. WalkShape' BY <1>1 DEF WalkInv, WalkShape
<1>7. WalkShown' BY <1>1, <1>3, StillSame DEF WalkInv, WalkShown, Pages, PagesDiffer
<1>8. WalkUnion' BY <1>1, <1>3, StillSame DEF WalkInv, WalkUnion, Fresh, Pages
<1>9. WalkAhead'
  <2>1. \A i : ToCome(i)' <=> ToCome(i)
    BY <1>1, <1>3, StillSame DEF ToCome, After, InHand, InFrontOf
  <2> QED BY <1>1, <1>3, <2>1, StillSame DEF WalkInv, WalkAhead, Pages
<1> QED BY <1>4, <1>5, <1>6, <1>7, <1>8, <1>9 DEF WalkInv

\* A page is asked for: its window is fixed, and what moved out of it is owed no more.
LEMMA AskKeeps == WalkInv /\ AskPage => WalkInv'
<1> SUFFICES ASSUME WalkInv, AskPage PROVE WalkInv' OBVIOUS
<1> DEFINE span == Handler(walk.route)
<1>1. /\ WalkTypes /\ UNCHANGED <<rows, clock, writes, shown>> /\ walk.pc = "idle"
      /\ walk' = [walk EXCEPT !.pc = span.pc, !.since = span.since, !.until = span.until]
      /\ owed' = {i \in owed : span.since <= rows[i].at /\ rows[i].at < span.until}
  BY DEF WalkInv, AskPage
<1>2. /\ walk'.route = walk.route /\ walk'.limit = walk.limit /\ walk'.section = walk.section
      /\ walk'.cursor = walk.cursor /\ walk'.union = walk.union /\ walk'.saturated = walk.saturated
      /\ walk'.pc = span.pc /\ walk'.since = span.since /\ walk'.until = span.until
  BY <1>1 DEF WalkTypes
<1>3. Still BY <1>1, <1>2 DEF Still
<1>4. span.pc \in {"fact", "scroll"} /\ span.since \in Nat /\ span.until \in Nat BY <1>1, SpanTypes
<1>5. WalkTypes' BY <1>1, <1>4 DEF WalkTypes, RowTypes
<1>6. walk.union = {} /\ ~walk.saturated BY <1>1 DEF WalkInv, WalkShape
<1>7. WalkShape'
  <2>1. walk.section = "knowledge" => walk.route = "deleted" BY DEF WalkInv, WalkShape
  <2>2. walk.section = "knowledge" <=> span.pc = "scroll" BY <1>1, <2>1, SpanTypes
  <2> QED BY <1>2, <1>4, <1>6, <2>1, <2>2, FS_EmptySet DEF WalkShape
<1>8. WalkWindow'
  <2>1. Handler(walk.route)'.until = span.until
    BY <1>1, <1>2 DEF Handler, ListMemories, EventSearch, AuthorMemories, ListAuthors, ListDeleted, ListPlain, Span, Ago
  <2>2. walk.section = "rows" /\ walk.cursor # None => walk.cursor.at < span.until
    <3>1. walk.until \in Nat /\ walk.cursor.at \in Nat BY <1>1, KeyTypes DEF WalkTypes
    <3> QED BY <1>4, <3>1 DEF WalkInv, WalkWindow
  <2> QED BY <1>1, <1>2, <1>3, <1>4, <1>6, <2>1, <2>2, StillSame DEF WalkInv, WalkWindow
<1>9. WalkShown' BY <1>1, <1>2, <1>3, <1>4, StillSame DEF WalkInv, WalkShown, Pages, PagesDiffer
<1>10. WalkUnion' BY <1>2, <1>6 DEF WalkUnion
<1>11. WalkAhead'
  <2>1. \A i : ToCome(i) => ToCome(i)'
    BY <1>1, <1>2, <1>3, <1>4, StillSame DEF ToCome, After, ReadBefore
  <2> QED BY <1>1, <1>2, <1>3, <2>1, StillSame DEF WalkInv, WalkAhead, Pages
<1> QED BY <1>5, <1>7, <1>8, <1>9, <1>10, <1>11 DEF WalkInv

\* From one store to the next.
Onward == {<<"fact", "event">>, <<"event", "author">>, <<"author", "knowledge">>, <<"knowledge", "merge">>}
\* A page reads one store more with each read.
LEMMA OnwardReads ==
  ASSUME NEW kind, NEW pc, <<kind, pc>> \in Onward
  PROVE /\ ReadBefore(pc) = ReadBefore(kind) \cup {kind} /\ kind \notin ReadBefore(kind)
        /\ kind \in {"fact", "event", "author", "knowledge"}
        /\ pc \in {"event", "author", "knowledge", "merge"}
<1>1. CASE kind = "fact" /\ pc = "event" BY <1>1 DEF ReadBefore
<1>2. CASE kind = "event" /\ pc = "author" BY <1>2 DEF ReadBefore
<1>3. CASE kind = "author" /\ pc = "knowledge" BY <1>3 DEF ReadBefore
<1>4. CASE kind = "knowledge" /\ pc = "merge" BY <1>4 DEF ReadBefore
<1> QED BY <1>1, <1>2, <1>3, <1>4 DEF Onward

\* A store that has none of the route's kinds is passed by.
LEMMA SkipKeeps ==
  ASSUME WalkInv, NEW kind, NEW pc, <<kind, pc>> \in Onward, walk.pc = kind,
         kind \notin Kinds(walk.route), walk' = Goto(pc), UNCHANGED <<rows, clock, writes, shown, owed>>
  PROVE WalkInv'
<1>1. /\ walk'.route = walk.route /\ walk'.limit = walk.limit /\ walk'.section = walk.section
      /\ walk'.cursor = walk.cursor /\ walk'.union = walk.union /\ walk'.saturated = walk.saturated
      /\ walk'.pc = pc /\ walk'.since = walk.since /\ walk'.until = walk.until
  BY DEF WalkInv, WalkTypes, Goto
<1>2. Still BY <1>1 DEF Still
<1>3. /\ ReadBefore(pc) = ReadBefore(kind) \cup {kind} /\ pc \in {"event", "author", "knowledge", "merge"}
      /\ kind \in {"fact", "event", "author", "knowledge"}
  BY OnwardReads
<1>4. WalkTypes' BY <1>3 DEF WalkInv, WalkTypes, RowTypes, Goto
<1>5. WalkShape' BY <1>1, <1>3 DEF WalkInv, WalkShape
<1>6. Handler(walk.route)'.until = Handler(walk.route).until
  BY <1>1 DEF Handler, ListMemories, EventSearch, AuthorMemories, ListAuthors, ListDeleted, ListPlain, Span, Ago
<1>7. WalkWindow' BY <1>1, <1>2, <1>3, <1>6, StillSame DEF WalkInv, WalkWindow
<1>8. WalkShown' BY <1>1, <1>2, <1>3, StillSame DEF WalkInv, WalkShown, Pages, PagesDiffer
<1>9. WalkUnion' BY <1>1, <1>2, <1>3, StillSame DEF WalkInv, WalkUnion, Fresh, Pages
<1>10. WalkAhead'
  <2>1. \A i : ToCome(i) => ToCome(i)'
    BY <1>1, <1>2, <1>3, StillSame DEF ToCome, After, InHand, InFrontOf
  <2> QED BY <1>1, <1>2, <1>3, <2>1, StillSame DEF WalkInv, WalkAhead, Pages
<1> QED BY <1>4, <1>5, <1>7, <1>8, <1>9, <1>10 DEF WalkInv

\* The keys of a set of rows are as many as the rows.
LEMMA KeyCount ==
  ASSUME NEW P, IsFiniteSet(P)
  PROVE /\ IsFiniteSet({Key(i) : i \in P})
        /\ Cardinality({Key(i) : i \in P}) = Cardinality(P)
<1> DEFINE f == [i \in P |-> Key(i)]
           K == {Key(i) : i \in P}
<1>1. f \in Surjection(P, K) BY DEF Surjection
<1>2. f \in Injection(P, K) BY DEF Injection, IsInjective, Key
<1> QED BY <1>1, <1>2, FS_Surjection

\* A row that may be shown next is new to what was shown and to what was read.
LEMMA NewRow ==
  ASSUME WalkInv, NEW i \in RowIds, walk.section = "rows", walk.pc # "done",
         rows[i].kind \notin ReadBefore(walk.pc), rows[i].kind # "gone", After(i, walk.cursor)
  PROVE i \notin Pages /\ \A k \in walk.union : k.id # i
<1>1. i \notin Pages BY DEF WalkInv, WalkShown, After
<1>2. \A k \in walk.union : k.id # i BY DEF WalkInv, WalkUnion, Fresh
<1> QED BY <1>1, <1>2

\* What a store must give: rows that are wanted; of what is owed all, or a page of what
\* comes before it.
Gives(kind, P, full) ==
  /\ P \subseteq {i \in RowIds : rows[i].kind = kind /\ Wanted(i) /\ After(i, walk.cursor)}
  /\ \A i \in owed \ Pages : Sure(i) /\ rows[i].kind = kind =>
       i \in P \/ (full /\ Cardinality(P) >= walk.limit /\ \A p \in P : Behind(Key(i), Key(p)))

\* With that, what is owed stays to come.
LEMMA StoreAhead ==
  ASSUME WalkInv, NEW kind, NEW pc, <<kind, pc>> \in Onward, walk.pc = kind, walk.section = "rows",
         NEW P \in SUBSET RowIds, NEW full \in BOOLEAN, Gives(kind, P, full), Read(P, full, pc),
         UNCHANGED <<rows, clock, writes, shown, owed>>, IsFiniteSet(walk.union), IsFiniteSet(P)
  PROVE WalkAhead'
<1> DEFINE K == {Key(i) : i \in P}
<1>1. /\ walk'.route = walk.route /\ walk'.limit = walk.limit /\ walk'.section = walk.section
      /\ walk'.cursor = walk.cursor /\ walk'.union = walk.union \cup K
      /\ walk'.saturated = (walk.saturated \/ full) /\ walk'.pc = pc
  BY DEF WalkInv, WalkTypes, Read
<1>2. Still BY <1>1 DEF Still
<1>3. ReadBefore(pc) = ReadBefore(kind) \cup {kind} BY OnwardReads
<1>4. IsFiniteSet(K) /\ Cardinality(K) = Cardinality(P) /\ IsFiniteSet(walk.union \cup K)
  BY KeyCount, FS_Union
<1>5. walk.limit \in Nat BY KeyTypes DEF WalkInv
<1> SUFFICES ASSUME NEW i \in owed \ Pages, Sure(i) PROVE ToCome(i)'
  BY <1>1, <1>2, StillSame DEF WalkAhead, Pages
<1>6. ToCome(i)
  <2>1. walk.pc # "done" BY OnwardReads
  <2> QED BY <2>1 DEF WalkInv, WalkAhead
<1>7. InFrontOf(i)' = {k \in walk.union \cup K : Behind(Key(i), k)}
  BY <1>1, <1>2, StillSame DEF InFrontOf
<1>8. IsFiniteSet(InFrontOf(i)') /\ Cardinality(InFrontOf(i)') \in Nat
  <2>1. InFrontOf(i)' \in SUBSET (walk.union \cup K) BY <1>7
  <2> QED BY <1>4, <2>1, FS_Subset, FS_CardinalityType
<1>9. InHand(i) => InHand(i)'
  <2>1. InFrontOf(i) \in SUBSET InFrontOf(i)' BY <1>7 DEF InFrontOf
  <2>2. Cardinality(InFrontOf(i)) <= Cardinality(InFrontOf(i)') /\ Cardinality(InFrontOf(i)) \in Nat
    BY <1>8, <2>1, FS_Subset, FS_CardinalityType
  <2>3. Key(i) \in walk.union => Key(i)' \in walk'.union BY <1>1, <1>2, StillSame
  <2>4. Cardinality(InFrontOf(i)) >= walk.limit => Cardinality(InFrontOf(i)') >= walk'.limit
    BY <1>1, <1>5, <1>8, <2>2
  <2>5. walk.saturated => walk'.saturated BY <1>1
  <2> QED BY <2>3, <2>4, <2>5 DEF InHand
<1>10. ASSUME rows[i].kind = kind PROVE InHand(i)'
  <2>1. CASE i \in P
    <3>1. Key(i) \in K BY <2>1
    <3> QED BY <1>1, <1>2, <3>1, StillSame DEF InHand
  <2>2. CASE full /\ Cardinality(P) >= walk.limit /\ \A p \in P : Behind(Key(i), Key(p))
    <3>1. K \in SUBSET InFrontOf(i)' BY <1>7, <2>2
    <3>2. Cardinality(K) <= Cardinality(InFrontOf(i)') BY <1>8, <3>1, FS_Subset
    <3>3. Cardinality(P) \in Nat BY FS_CardinalityType
    <3>4. Cardinality(InFrontOf(i)') >= walk.limit BY <1>4, <1>5, <1>8, <2>2, <3>2, <3>3
    <3> QED BY <1>1, <2>2, <3>4 DEF InHand
  <2> QED BY <1>10, <2>1, <2>2 DEF Gives
<1>11. rows[i].kind \in Kinds(walk.route) => After(i, walk.cursor)' /\ (rows[i].kind \in ReadBefore(pc) => InHand(i)')
  BY <1>1, <1>2, <1>3, <1>6, <1>9, <1>10, StillSame DEF ToCome, After
<1> QED BY <1>1, <1>11 DEF ToCome

\* Reading a store that gives what it must keeps everything.
LEMMA ReadKeeps ==
  ASSUME WalkInv, NEW kind, NEW pc, <<kind, pc>> \in Onward, walk.pc = kind, kind \in Kinds(walk.route),
         NEW P \in SUBSET RowIds, NEW full \in BOOLEAN, Gives(kind, P, full), Read(P, full, pc),
         UNCHANGED <<rows, clock, writes, shown, owed>>
  PROVE WalkInv'
<1> DEFINE K == {Key(i) : i \in P}
<1>1. /\ walk'.route = walk.route /\ walk'.limit = walk.limit /\ walk'.section = walk.section
      /\ walk'.cursor = walk.cursor /\ walk'.union = walk.union \cup K
      /\ walk'.saturated = (walk.saturated \/ full) /\ walk'.pc = pc
      /\ walk'.since = walk.since /\ walk'.until = walk.until
  BY DEF WalkInv, WalkTypes, Read
<1>2. Still BY <1>1 DEF Still
<1>3. /\ ReadBefore(pc) = ReadBefore(kind) \cup {kind} /\ kind \notin ReadBefore(kind)
      /\ pc \in {"event", "author", "knowledge", "merge"}
      /\ kind \in {"fact", "event", "author", "knowledge"}
  BY OnwardReads
<1>4. IsFiniteSet(P) /\ IsFiniteSet(walk.union) /\ walk.section = "rows"
  BY <1>3, TimelineAssumption, FS_Subset DEF WalkInv, WalkShape, WalkTypes
<1>5. IsFiniteSet(walk.union \cup K) BY <1>4, KeyCount, FS_Union
<1>6. \A i \in P : Key(i) \in [at : Times, id : RowIds] /\ Key(i) \in Keys /\ Key(i).id = i /\ Key(i).at = rows[i].at
  BY KeyTypes DEF WalkInv, Key
<1>7. WalkTypes'
  <2>1. walk.union \cup K \in SUBSET [at : Times, id : RowIds] BY <1>6 DEF WalkInv, WalkTypes
  <2> QED BY <1>3, <2>1 DEF WalkInv, WalkTypes, RowTypes, Read
<1>8. WalkShape' BY <1>1, <1>3, <1>5 DEF WalkInv, WalkShape
<1>9. WalkWindow'
  <2>1. Handler(walk.route)'.until = Handler(walk.route).until
    BY <1>1 DEF Handler, ListMemories, EventSearch, AuthorMemories, ListAuthors, ListDeleted, ListPlain, Span, Ago
  <2>2. \A k \in K : k.at < walk.until BY <1>6 DEF Gives, Wanted, Within
  <2> QED BY <1>1, <1>2, <1>3, <2>1, <2>2, StillSame DEF WalkInv, WalkWindow
<1>10. WalkShown' BY <1>1, <1>2, <1>3, StillSame DEF WalkInv, WalkShown, Pages, PagesDiffer
<1>11. \A i \in P : i \notin Pages /\ \A k \in walk.union : k.id # i
  BY <1>3, <1>4, NewRow DEF Gives
<1>12. WalkUnion'
  <2>1. \A k \in walk.union : Fresh(k)'
    BY <1>1, <1>2, <1>3, StillSame DEF WalkInv, WalkUnion, Fresh, Pages
  <2>2. ASSUME NEW k \in K PROVE Fresh(k)'
    <3>1. PICK i \in P : k = Key(i) OBVIOUS
    <3>2. ~Behind(Key(i), k) BY <1>6, <3>1, BehindOrders
    <3>3. rows[i].kind = kind /\ After(i, walk.cursor) BY DEF Gives
    <3> QED BY <1>1, <1>2, <1>3, <1>6, <1>11, <3>1, <3>2, <3>3, StillSame DEF Fresh, Pages, After
  <2>3. \A k, l \in walk.union \cup K : k.id = l.id => k = l
    BY <1>6, <1>11 DEF WalkInv, WalkUnion, Key
  <2> QED BY <1>1, <2>1, <2>2, <2>3 DEF WalkUnion
<1>13. WalkAhead' BY <1>4, StoreAhead
<1> QED BY <1>7, <1>8, <1>9, <1>10, <1>12, <1>13 DEF WalkInv

\* The first of a finite set: all of it, or as many as asked for.
LEMMA FirstsOf ==
  ASSUME NEW S, IsFiniteSet(S), NEW n \in Nat, NEW ahead, NEW P \in Firsts(S, n, ahead)
  PROVE /\ P \subseteq S /\ IsFiniteSet(P) /\ Cardinality(P) \in Nat
        /\ Cardinality(P) <= n
        /\ P # S => Cardinality(P) = n /\ Cardinality(S) > n
        /\ \A p \in P, q \in S \ P : <<q, p>> \notin ahead
<1>1. /\ P \in SUBSET S /\ Cardinality(P) = Least(n, Cardinality(S))
      /\ \A p \in P, q \in S \ P : <<q, p>> \notin ahead
  BY DEF Firsts
<1>2. IsFiniteSet(P) /\ Cardinality(P) <= Cardinality(S) /\ (Cardinality(S) = Cardinality(P) => S = P)
  BY <1>1, FS_Subset
<1>3. Cardinality(P) \in Nat /\ Cardinality(S) \in Nat BY <1>2, FS_CardinalityType
<1> QED BY <1>1, <1>2, <1>3 DEF Least

\* A table: its rows come in the order of the keys.
LEMMA TableGives ==
  ASSUME WalkInv, NEW kind, walk.pc = kind, kind \in {"fact", "event", "author"}, walk.section = "rows",
         kind \in Kinds(walk.route),
         NEW P \in Firsts({i \in RowIds : rows[i].kind = kind /\ Wanted(i) /\ After(i, walk.cursor)}, walk.limit, Newer)
  PROVE Gives(kind, P, Cardinality(P) = walk.limit) /\ P \in SUBSET RowIds
<1> DEFINE S == {i \in RowIds : rows[i].kind = kind /\ Wanted(i) /\ After(i, walk.cursor)}
<1>1. IsFiniteSet(S)
  <2>1. S \in SUBSET RowIds OBVIOUS
  <2> QED BY <2>1, TimelineAssumption, FS_Subset
<1>2. walk.limit \in Nat /\ P \in Firsts(S, walk.limit, Newer) BY KeyTypes DEF WalkInv
<1>3. /\ P \subseteq S /\ (P # S => Cardinality(P) = walk.limit)
      /\ \A p \in P, q \in S \ P : <<q, p>> \notin Newer
  <2> HIDE DEF S
  <2> QED BY <1>1, <1>2, FirstsOf
<1>4. ASSUME NEW i \in owed \ Pages, Sure(i), rows[i].kind = kind, i \notin P
      PROVE Cardinality(P) = walk.limit /\ \A p \in P : Behind(Key(i), Key(p))
  <2>1. ToCome(i) BY <1>4 DEF WalkInv, WalkAhead
  <2>2. i \in S
    <3>1. i \in RowIds /\ Wanted(i) BY <1>4 DEF WalkInv, WalkWindow, WalkTypes, Wanted, Within
    <3>2. After(i, walk.cursor) BY <1>4, <2>1 DEF ToCome
    <3> QED BY <1>4, <3>1, <3>2
  <2>3. ASSUME NEW p \in P PROVE Behind(Key(i), Key(p))
    <3>1. p \in RowIds /\ p # i /\ ~Behind(Key(p), Key(i)) BY <1>3, <1>4, <2>2 DEF Newer
    <3>2. Key(i) \in Keys /\ Key(p) \in Keys /\ Key(i) # Key(p)
      BY <2>2, <3>1, KeyTypes DEF WalkInv, Key
    <3> QED BY <3>1, <3>2, BehindOrders
  <2> QED BY <1>3, <1>4, <2>2, <2>3
<1>5. Cardinality(P) = walk.limit => Cardinality(P) >= walk.limit BY <1>2
<1> QED BY <1>3, <1>4, <1>5 DEF Gives

\* A page reads a table.
LEMMA TableKeeps ==
  ASSUME WalkInv, ~Plain(walk.route), NEW kind, NEW pc, <<kind, pc>> \in Onward,
         kind \in {"fact", "event", "author"}, ReadTable(kind, pc)
  PROVE WalkInv'
<1>1. walk.pc = kind /\ UNCHANGED <<rows, clock, writes, shown, owed>> BY DEF ReadTable
<1>2. CASE kind \notin Kinds(walk.route) BY <1>1, <1>2, SkipKeeps DEF ReadTable
<1>3. CASE kind \in Kinds(walk.route)
  <2>1. walk.section = "rows" BY <1>1 DEF WalkInv, WalkShape, WalkTypes
  <2>2. PICK P \in Firsts({i \in RowIds : rows[i].kind = kind /\ Wanted(i) /\ After(i, walk.cursor)}, walk.limit, Newer) :
          Read(P, Cardinality(P) = walk.limit, pc)
    BY <1>3 DEF ReadTable
  <2>3. Gives(kind, P, Cardinality(P) = walk.limit) /\ P \in SUBSET RowIds BY <1>1, <1>3, <2>1, TableGives
  <2> QED BY <1>1, <1>3, <2>2, <2>3, ReadKeeps
<1> QED BY <1>2, <1>3

\* Where the scroll starts: what may be shown is not above it, and what is strictly
\* below it may be shown.
LEMMA TickOrder ==
  ASSUME WalkTypes
  PROVE /\ \A i \in RowIds : TickAt(i) \in Nat
        /\ \A i, j \in RowIds : TickAt(i) < TickAt(j) => rows[i].at < rows[j].at
        /\ \A i \in RowIds : walk.cursor = None /\ rows[i].at < walk.until => TickAt(i) <= StartTick
        /\ \A i \in RowIds : walk.cursor # None /\ rows[i].at <= walk.cursor.at => TickAt(i) <= StartTick
        /\ \A i \in RowIds : TickAt(i) < StartTick =>
             IF walk.cursor = None THEN rows[i].at < walk.until ELSE rows[i].at < walk.cursor.at
        /\ StartTick \in {TickOf[u] : u \in Times} /\ StartTick \in Nat
<1>1. /\ \A t \in Times : TickOf[t] \in Nat
      /\ \A t, u \in Times : t <= u => TickOf[t] <= TickOf[u]
      /\ Times = 0..MaxTime /\ MaxTime \in Nat
  BY TimelineAssumption DEF Times
<1>2. \A t, u \in Times : TickOf[t] < TickOf[u] => t < u BY <1>1
<1>3. \A i \in RowIds : rows[i].at \in Times BY DEF WalkTypes, RowTypes
<1>4. walk.cursor.at \in Times /\ walk.until \in Nat BY DEF WalkTypes
<1>5. \A i \in RowIds : TickAt(i) \in Nat /\ TickAt(i) = TickOf[rows[i].at] BY <1>1, <1>3 DEF TickAt
<1>6. \A i, j \in RowIds : TickAt(i) < TickAt(j) => rows[i].at < rows[j].at BY <1>2, <1>3, <1>5
<1>7. CASE walk.cursor # None
  <2>1. StartTick = TickOf[walk.cursor.at] BY <1>7 DEF StartTick
  <2>2. \A i \in RowIds : rows[i].at <= walk.cursor.at => TickAt(i) <= StartTick BY <1>1, <1>3, <1>4, <1>5, <2>1
  <2>3. \A i \in RowIds : TickAt(i) < StartTick => rows[i].at < walk.cursor.at BY <1>2, <1>3, <1>4, <1>5, <2>1
  <2> QED BY <1>1, <1>4, <1>5, <1>6, <1>7, <2>1, <2>2, <2>3
<1>8. CASE walk.cursor = None
  <2> DEFINE u == IF walk.until > MaxTime THEN MaxTime ELSE walk.until
  <2>1. u \in Times /\ StartTick = TickOf[u] BY <1>1, <1>4, <1>8 DEF StartTick
  <2>2. \A t \in Times : (t < walk.until => t <= u) /\ (t < u => t < walk.until) BY <1>1, <1>4
  <2> HIDE DEF u
  <2>3. \A i \in RowIds : rows[i].at < walk.until => TickAt(i) <= StartTick BY <1>1, <1>3, <1>5, <2>1, <2>2
  <2>4. \A i \in RowIds : TickAt(i) < StartTick => rows[i].at < walk.until BY <1>2, <1>3, <1>5, <2>1, <2>2
  <2> QED BY <1>1, <1>5, <1>6, <1>8, <2>1, <2>3, <2>4
<1> QED BY <1>7, <1>8

\* A scroll covers a page.
LEMMA ScrollCovers == ASSUME WalkTypes PROVE Scroll \in Nat /\ walk.limit <= Scroll
<1>1. walk.limit \in 1..ScrollCap /\ ScrollCap \in Nat /\ Overfetch \in Nat \ {0}
  BY TimelineAssumption DEF WalkTypes
<1>2. \A x, y \in Nat \ {0} : x * y \in Nat /\ y <= x * y OBVIOUS
<1>3. Overfetch * walk.limit \in Nat /\ walk.limit <= Overfetch * walk.limit BY <1>1, <1>2
<1> QED BY <1>1, <1>3 DEF Scroll, Least

\* Of the routes that show knowledge none is ascending, and none lists what is deleted.
LEMMA KnowledgeRoutes ==
  ASSUME WalkTypes, "knowledge" \in Kinds(walk.route)
  PROVE walk.route \in {"memories", "author"}
<1>1. CASE walk.route \in {"events", "events_asc"} BY <1>1 DEF Kinds
<1>2. CASE walk.route = "deleted" BY <1>2 DEF Kinds
<1>3. CASE walk.route = "authors" BY <1>3 DEF Kinds
<1> QED BY <1>1, <1>2, <1>3 DEF WalkTypes, Merged

\* A sure row is in front of no other point of its tick.
LEMMA SureApart ==
  ASSUME WalkTypes, "knowledge" \in Kinds(walk.route), NEW i \in RowIds, Sure(i), rows[i].kind = "knowledge",
         NEW p \in RowIds, Filtered(p), p # i, TickAt(i) <= TickAt(p)
  PROVE TickAt(i) < TickAt(p) /\ Behind(Key(i), Key(p))
<1>1. OfTick(TickAt(i)) = {i} BY DEF Sure, Tied
<1>2. TickAt(p) # TickAt(i) BY <1>1 DEF OfTick
<1>3. TickAt(i) < TickAt(p) BY <1>2, TickOrder
<1>4. rows[i].at < rows[p].at BY <1>3, TickOrder
<1>5. walk.route \in {"memories", "author"} BY KnowledgeRoutes
<1> QED BY <1>3, <1>4, <1>5 DEF Behind, Older, Key

\* What a scroll brings and the page drops is of the tick the scroll starts at, or an
\* orphan above the sure row it did not reach: where those are few, they leave a page.
LEMMA ScrollLeavesPage ==
  ASSUME WalkInv, walk.pc = "knowledge", "knowledge" \in Kinds(walk.route),
         NEW i \in owed \ Pages, Sure(i), rows[i].kind = "knowledge",
         NEW P \in Firsts(Scrolled, Scroll, Ticks), i \notin P
  PROVE /\ Cardinality(P) = Scroll
        /\ \A p \in P : p # i /\ TickAt(i) <= TickAt(p)
        /\ Cardinality({p \in P : Wanted(p) /\ After(p, walk.cursor)}) >= walk.limit
<1> DEFINE Q == {p \in P : Wanted(p) /\ After(p, walk.cursor)}
<1>1. WalkTypes /\ walk.section = "rows" BY DEF WalkInv, WalkShape, WalkTypes
<1>2. i \in RowIds /\ Wanted(i) BY <1>1 DEF WalkInv, WalkWindow, WalkTypes, Wanted, Within
<1>3. After(i, walk.cursor) BY <1>1 DEF WalkInv, WalkAhead, ToCome
<1>4. walk.route \in {"memories", "author"} BY <1>1, KnowledgeRoutes
<1>5. \A j \in RowIds : rows[j].at \in Nat BY <1>1, KeyTypes DEF WalkTypes, RowTypes
<1>6. walk.cursor.at \in Nat /\ walk.limit \in Nat \ {0} /\ walk.until \in Nat
  BY <1>1, KeyTypes DEF Keys, WalkTypes
<1>7. TickAt(i) <= StartTick
  <2>1. walk.cursor # None => rows[i].at <= walk.cursor.at
    BY <1>2, <1>3, <1>4, <1>5, <1>6 DEF After, Behind, Older, Key
  <2> QED BY <1>1, <1>2, <2>1, TickOrder DEF Wanted, Within
<1>8. i \in Scrolled BY <1>2, <1>7 DEF Scrolled, Filtered, Wanted
<1>9. IsFiniteSet(Scrolled)
  <2>1. Scrolled \in SUBSET RowIds BY DEF Scrolled
  <2> QED BY <2>1, TimelineAssumption, FS_Subset
<1>10. Scroll \in Nat /\ walk.limit <= Scroll BY <1>1, ScrollCovers
<1>11. /\ P \subseteq Scrolled /\ IsFiniteSet(P) /\ Cardinality(P) = Scroll
       /\ \A p \in P : <<i, p>> \notin Ticks
  BY <1>8, <1>9, <1>10, FirstsOf
<1>12. \A p \in P : p # i /\ TickAt(i) <= TickAt(p) /\ p \in RowIds /\ Filtered(p)
  <2>1. \A p \in P : p # i /\ p \in RowIds /\ Filtered(p) BY <1>11 DEF Scrolled
  <2>2. \A p \in P : ~(TickAt(i) > TickAt(p)) BY <1>2, <1>11, <2>1 DEF Ticks
  <2>3. \A j \in RowIds : TickAt(j) \in Nat BY <1>1, TickOrder
  <2> QED BY <1>2, <2>1, <2>2, <2>3
<1>13. \A p \in P : Behind(Key(i), Key(p)) /\ rows[i].at < rows[p].at /\ TickAt(i) < TickAt(p)
  <2>1. \A p \in P : Behind(Key(i), Key(p)) /\ TickAt(i) < TickAt(p)
    BY <1>1, <1>2, <1>12, SureApart
  <2> QED BY <1>1, <1>2, <1>12, <2>1, TickOrder
<1>14. ASSUME NEW p \in P, TickAt(p) < StartTick, rows[p].kind = "knowledge" PROVE p \in Q
  <2>1. IF walk.cursor = None THEN rows[p].at < walk.until ELSE rows[p].at < walk.cursor.at
    BY <1>1, <1>12, <1>14, TickOrder
  <2>2. After(p, walk.cursor) BY <1>4, <2>1 DEF After, Behind, Older, Key
  <2>3. walk.cursor # None => walk.cursor.at < walk.until BY <1>1 DEF WalkInv, WalkWindow
  <2>4. rows[p].at < walk.until BY <1>5, <1>6, <1>12, <2>1, <2>3
  <2>5. walk.since <= rows[i].at /\ walk.since \in Nat BY <1>1, <1>2 DEF Wanted, Within, WalkTypes
  <2>6. walk.since <= rows[p].at BY <1>2, <1>5, <1>12, <1>13, <2>5
  <2>7. Listed(p) BY <1>12, <1>14 DEF Filtered
  <2> QED BY <2>2, <2>4, <2>6, <2>7 DEF Wanted, Within
<1>15. P \ Q \subseteq Waste(i, StartTick)
  <2>1. \A p \in P : TickAt(p) <= StartTick /\ TickAt(p) \in Nat /\ StartTick \in Nat
    BY <1>1, <1>11, <1>12, TickOrder DEF Scrolled
  <2>2. \A p \in P \ Q : rows[p].kind = "knowledge" => TickAt(p) = StartTick BY <1>14, <2>1
  <2>3. \A p \in P : rows[p].kind \in {"knowledge", "orphan"} BY <1>12 DEF Filtered
  <2>4. ASSUME NEW p \in P \ Q PROVE p \in Waste(i, StartTick)
    <3>1. CASE rows[p].kind = "knowledge" BY <1>12, <2>2, <3>1 DEF Waste, OfTick
    <3>2. CASE rows[p].kind = "orphan" BY <1>12, <1>13, <2>1, <3>2 DEF Waste
    <3> QED BY <2>3, <3>1, <3>2
  <2> QED BY <2>4
<1>16. Cardinality(Q) >= walk.limit
  <2> HIDE DEF Q
  <2>1. Q \in SUBSET P BY DEF Q
  <2>2. /\ IsFiniteSet(Q) /\ Cardinality(Q) \in Nat /\ IsFiniteSet(P \ Q) /\ Cardinality(P \ Q) \in Nat
        /\ Cardinality(P \ Q) = Cardinality(P) - Cardinality(P \cap Q) /\ P \cap Q = Q
    BY <1>11, <2>1, FS_Subset, FS_Difference, FS_CardinalityType
  <2>3. CASE P \ Q = {}
    <3>1. P = Q BY <2>1, <2>3
    <3> QED BY <1>6, <1>10, <1>11, <3>1
  <2>4. CASE P \ Q # {}
    <3>3. ~Packed(i, StartTick) BY <1>1, <1>7, TickOrder DEF Sure
    <3>4. IsFiniteSet(Waste(i, StartTick))
      <4>1. Waste(i, StartTick) \in SUBSET RowIds BY DEF Waste, OfTick
      <4> QED BY <4>1, TimelineAssumption, FS_Subset
    <3>5. /\ Cardinality(P \ Q) <= Cardinality(Waste(i, StartTick))
          /\ Cardinality(Waste(i, StartTick)) \in Nat
      BY <1>15, <3>4, FS_Subset, FS_CardinalityType
    <3>6. ~(Cardinality(Waste(i, StartTick)) + walk.limit > Scroll) BY <3>3 DEF Packed
    <3>7. Cardinality(P \ Q) = Scroll - Cardinality(Q) BY <1>11, <2>2
    <3> QED BY <1>6, <1>10, <2>2, <3>5, <3>6, <3>7
  <2> QED BY <2>3, <2>4
<1> QED BY <1>11, <1>12, <1>16

\* The vector store: what a scroll brings, filtered.
LEMMA KnowledgeGives ==
  ASSUME WalkInv, walk.pc = "knowledge", "knowledge" \in Kinds(walk.route),
         NEW P \in Firsts(Scrolled, Scroll, Ticks),
         NEW out \in Firsts({p \in P : Wanted(p) /\ After(p, walk.cursor)}, walk.limit, Ticks), NEW more \in BOOLEAN
  PROVE /\ Gives("knowledge", out,
              /\ out # {}
              /\ \/ more \/ Cardinality({p \in P : Wanted(p) /\ After(p, walk.cursor)}) > walk.limit
                 \/ Cardinality(P) = Scroll)
        /\ out \in SUBSET RowIds
<1> DEFINE Q == {p \in P : Wanted(p) /\ After(p, walk.cursor)}
           full == out # {} /\ (more \/ Cardinality(Q) > walk.limit \/ Cardinality(P) = Scroll)
<1>1. WalkTypes /\ walk.section = "rows" BY DEF WalkInv, WalkShape, WalkTypes
<1>2. walk.limit \in Nat \ {0} /\ Scroll \in Nat BY <1>1, KeyTypes, ScrollCovers
<1>3. IsFiniteSet(Scrolled)
  <2>1. Scrolled \in SUBSET RowIds BY DEF Scrolled
  <2> QED BY <2>1, TimelineAssumption, FS_Subset
<1>4. P \subseteq Scrolled /\ IsFiniteSet(P) BY <1>2, <1>3, FirstsOf
<1>5. Q \in SUBSET P /\ IsFiniteSet(Q) /\ Cardinality(Q) \in Nat
  <2>1. Q \in SUBSET P OBVIOUS
  <2> QED BY <1>4, <2>1, FS_Subset, FS_CardinalityType
<1>6. /\ out \subseteq Q /\ Cardinality(out) \in Nat /\ (out # Q => Cardinality(out) = walk.limit /\ Cardinality(Q) > walk.limit)
      /\ \A p \in out, q \in Q \ out : <<q, p>> \notin Ticks
  <2>1. out \in Firsts(Q, walk.limit, Ticks) OBVIOUS
  <2> HIDE DEF Q
  <2> QED BY <1>2, <1>5, <2>1, FirstsOf
<1>7. Cardinality(out) >= walk.limit => out # {} BY <1>2, FS_EmptySet
<1>8. \A p \in Q : p \in RowIds /\ rows[p].kind = "knowledge" /\ Filtered(p)
  <2>1. \A p \in Q : p \in RowIds /\ Filtered(p) /\ Listed(p) BY <1>4, <1>5 DEF Scrolled, Wanted
  <2>2. "orphan" \notin Kinds(walk.route) /\ ~Deleted(walk.route) BY <1>1, KnowledgeRoutes DEF Kinds, Deleted
  <2>3. \A p \in Q : rows[p].kind # "orphan" BY <2>1, <2>2 DEF Listed
  <2> QED BY <2>1, <2>3 DEF Filtered
<1>9. ASSUME NEW i \in owed \ Pages, Sure(i), rows[i].kind = "knowledge", i \notin out
      PROVE full /\ Cardinality(out) >= walk.limit /\ \A p \in out : Behind(Key(i), Key(p))
  <2>1. i \in RowIds /\ Wanted(i) BY <1>1 DEF WalkInv, WalkWindow, WalkTypes, Wanted, Within
  <2>2. After(i, walk.cursor) BY <1>1, <1>9 DEF WalkInv, WalkAhead, ToCome
  <2>3. CASE i \in P
    <3>1. i \in Q BY <2>1, <2>2, <2>3
    <3>2. out # Q BY <1>9, <3>1
    <3>3. Cardinality(out) >= walk.limit /\ Cardinality(Q) > walk.limit BY <1>2, <1>6, <3>2
    <3>4. \A p \in out : p # i /\ ~(TickAt(i) > TickAt(p)) BY <1>6, <1>8, <1>9, <2>1, <3>1 DEF Ticks
    <3>5. \A p \in out : TickAt(i) <= TickAt(p) BY <1>1, <1>6, <1>8, <2>1, <3>4, TickOrder
    <3>6. \A p \in out : Behind(Key(i), Key(p)) BY <1>1, <1>6, <1>8, <1>9, <2>1, <3>4, <3>5, SureApart
    <3> QED BY <1>7, <3>3, <3>6
  <2>4. CASE i \notin P
    <3>1. /\ Cardinality(P) = Scroll /\ Cardinality(Q) >= walk.limit
          /\ \A p \in P : p # i /\ TickAt(i) <= TickAt(p)
      BY <1>9, <2>4, ScrollLeavesPage
    <3>2. Cardinality(out) >= walk.limit
      <4> HIDE DEF Q
      <4> QED BY <1>2, <1>6, <3>1
    <3>3. \A p \in out : Behind(Key(i), Key(p)) BY <1>1, <1>5, <1>6, <1>8, <1>9, <2>1, <3>1, SureApart
    <3> QED BY <1>7, <3>1, <3>2, <3>3
  <2> QED BY <2>3, <2>4
<1>10. out \subseteq {i \in RowIds : rows[i].kind = "knowledge" /\ Wanted(i) /\ After(i, walk.cursor)}
  BY <1>6, <1>8
<1> QED BY <1>9, <1>10 DEF Gives

\* The read of knowledge keeps the invariant: a tick that is not packed leaves a page.
LEMMA KnowledgeKeeps == WalkInv /\ ReadKnowledge => WalkInv'
<1> SUFFICES ASSUME WalkInv, ReadKnowledge PROVE WalkInv' OBVIOUS
<1>1. walk.pc = "knowledge" /\ UNCHANGED <<rows, clock, writes, shown, owed>> BY DEF ReadKnowledge
<1>2. <<"knowledge", "merge">> \in Onward BY DEF Onward
<1>3. CASE "knowledge" \notin Kinds(walk.route) BY <1>1, <1>2, <1>3, SkipKeeps DEF ReadKnowledge
<1>4. CASE "knowledge" \in Kinds(walk.route)
  <2>1. PICK P \in Firsts(Scrolled, Scroll, Ticks) :
          \E out \in Firsts({p \in P : Wanted(p) /\ After(p, walk.cursor)}, walk.limit, Ticks), more \in BOOLEAN :
            Read(out, /\ out # {}
                      /\ \/ more \/ Cardinality({p \in P : Wanted(p) /\ After(p, walk.cursor)}) > walk.limit
                         \/ Cardinality(P) = Scroll, "merge")
    BY <1>4 DEF ReadKnowledge
  <2> DEFINE Q == {p \in P : Wanted(p) /\ After(p, walk.cursor)}
  <2>2. PICK out \in Firsts(Q, walk.limit, Ticks), more \in BOOLEAN :
          Read(out, out # {} /\ (more \/ Cardinality(Q) > walk.limit \/ Cardinality(P) = Scroll), "merge")
    BY <2>1
  <2> DEFINE full == out # {} /\ (more \/ Cardinality(Q) > walk.limit \/ Cardinality(P) = Scroll)
  <2>3. Gives("knowledge", out, full) /\ out \in SUBSET RowIds BY <1>1, <1>4, KnowledgeGives
  <2>4. full \in BOOLEAN /\ Read(out, full, "merge") BY <2>2
  <2> HIDE DEF full, Q
  <2> QED BY <1>1, <1>2, <1>4, <2>3, <2>4, ReadKeeps
<1> QED BY <1>3, <1>4

-----------------------------------------------------------------------------
(* The merge *)

\* A list of rows: none is in it twice, none is in both, and the rows in it.
Once(t) == \A j, k \in DOMAIN t : t[j] = t[k] => j = k
Disjoint(t, f) == \A j \in DOMAIN t, k \in DOMAIN f : t[j] # f[k]
Members(t) == {t[k] : k \in DOMAIN t}

\* Pages after pages: what was shown stays in front, and all is shown once if what comes
\* is new.
LEMMA Appended ==
  ASSUME NEW t \in Seq(RowIds), NEW m \in Nat, NEW f \in [1..m -> RowIds]
  PROVE /\ t \o f \in Seq(RowIds)
        /\ Members(t \o f) = Members(t) \cup Members(f)
        /\ SubSeq(t \o f, 1, Len(t)) = t
        /\ Once(t) /\ Once(f) /\ Disjoint(t, f) => Once(t \o f)
<1> DEFINE u == t \o f
           L == Len(t)
<1>1. f \in Seq(RowIds) /\ Len(f) = m /\ DOMAIN f = 1..m OBVIOUS
<1>2. L \in Nat /\ DOMAIN t = 1..L OBVIOUS
<1>3. /\ u \in Seq(RowIds) /\ Len(u) = L + m /\ DOMAIN u = 1..(L + m)
      /\ \A k \in 1..L : u[k] = t[k]
      /\ \A k \in (L + 1)..(L + m) : u[k] = f[k - L]
  BY <1>1, <1>2
<1>4. SubSeq(u, 1, L) = t BY <1>2, <1>3
<1> HIDE DEF u, L
<1>5. \A k \in 1..L : k \in DOMAIN u /\ u[k] = t[k] BY <1>2, <1>3
<1>6. ASSUME NEW k \in 1..m PROVE k + L \in DOMAIN u /\ u[k + L] = f[k]
  <2>1. k + L \in (L + 1)..(L + m) /\ (k + L) - L = k BY <1>2
  <2>2. u[k + L] = f[(k + L) - L] BY <1>3, <2>1
  <2> QED BY <1>2, <1>3, <2>1, <2>2
<1>7. ASSUME NEW k \in DOMAIN u
      PROVE (k \in DOMAIN t /\ u[k] = t[k]) \/ (k - L \in 1..m /\ u[k] = f[k - L])
  <2>1. CASE k \in 1..L BY <1>2, <1>5, <2>1
  <2>2. CASE k \notin 1..L
    <3>1. k \in (L + 1)..(L + m) /\ k - L \in 1..m BY <1>2, <1>3, <2>2
    <3> QED BY <1>3, <3>1
  <2> QED BY <2>1, <2>2
<1>8. Members(u) = Members(t) \cup Members(f) BY <1>1, <1>2, <1>5, <1>6, <1>7 DEF Members
<1>9. ASSUME Once(t), Once(f), Disjoint(t, f) PROVE Once(u)
  <2>1. \A j, k \in DOMAIN u : j \in Int /\ k \in Int /\ (j - L = k - L => j = k) BY <1>2, <1>3
  <2>2. SUFFICES ASSUME NEW j \in DOMAIN u, NEW k \in DOMAIN u, u[j] = u[k] PROVE j = k BY DEF Once
  <2>3. \/ j \in DOMAIN t /\ u[j] = t[j]
        \/ j - L \in 1..m /\ u[j] = f[j - L]
    BY <1>7
  <2>4. \/ k \in DOMAIN t /\ u[k] = t[k]
        \/ k - L \in 1..m /\ u[k] = f[k - L]
    BY <1>7
  <2> QED BY <1>1, <1>9, <2>1, <2>2, <2>3, <2>4 DEF Once, Disjoint
<1> QED BY <1>3, <1>4, <1>8, <1>9 DEF u, L

\* A listing in an order has every member once.
LEMMA SortedIsListing ==
  ASSUME NEW S, IsFiniteSet(S), NEW ahead, NEW s \in Sorted(S, ahead)
  PROVE /\ Cardinality(S) \in Nat /\ s \in [1..Cardinality(S) -> S]
        /\ \A j, k \in 1..Cardinality(S) : s[j] = s[k] => j = k
        /\ \A x \in S : \E j \in 1..Cardinality(S) : s[j] = x
        /\ \A j, k \in 1..Cardinality(S) : j < k => <<s[j], s[k]>> \in ahead
<1>1. Cardinality(S) \in Nat BY FS_CardinalityType
<1> QED BY <1>1 DEF Sorted, Bijection, Injection, Surjection, IsInjective

\* The last of a page is behind the others of it and in front of what is left; a row that
\* has a page in front of it is behind that page's last.
LEMMA PageFront ==
  ASSUME WalkTypes, IsFiniteSet(walk.union), NEW s \in Sorted(walk.union, NewerKeys),
         NEW e \in 1..Cardinality(walk.union)
  PROVE /\ s[e] \in walk.union
        /\ \A j \in 1..Cardinality(walk.union) :
             /\ j < e => Behind(s[e], s[j])
             /\ e < j => Behind(s[j], s[e])
        /\ \A x \in Keys : Cardinality({k \in walk.union : Behind(x, k)}) >= e => Behind(x, s[e])
<1> DEFINE n == Cardinality(walk.union)
<1>1. /\ n \in Nat /\ s \in [1..n -> walk.union] /\ \A x \in walk.union : \E j \in 1..n : s[j] = x
      /\ \A j, k \in 1..n : j < k => <<s[j], s[k]>> \in NewerKeys
  BY SortedIsListing
<1>2. \A j, k \in 1..n : j < k => Behind(s[k], s[j]) BY <1>1 DEF NewerKeys
<1>3. walk.union \subseteq Keys BY KeyTypes DEF WalkTypes
<1>4. ASSUME NEW x \in Keys, ~Behind(x, s[e]) PROVE Cardinality({k \in walk.union : Behind(x, k)}) < e
  <2> DEFINE F == {k \in walk.union : Behind(x, k)}
             I == {j \in 1..n : s[j] \in F}
             g == [j \in I |-> s[j]]
  <2>1. \A j \in I : j < e
    <3>1. ASSUME NEW j \in I, j >= e PROVE FALSE
      <4>1. j \in 1..n /\ Behind(x, s[j]) OBVIOUS
      <4>2. j # e BY <1>4, <4>1
      <4>3. e < j BY <1>1, <3>1, <4>1, <4>2
      <4>4. Behind(s[j], s[e]) /\ s[j] \in Keys /\ s[e] \in Keys BY <1>1, <1>2, <1>3, <4>1, <4>3
      <4> QED BY <1>4, <4>1, <4>4, BehindOrders
    <3> QED BY <1>1, <3>1
  <2>2. I \in SUBSET (1..(e - 1)) BY <1>1, <2>1
  <2>3. IsFiniteSet(I) /\ Cardinality(I) <= e - 1
    <3>1. IsFiniteSet(1..(e - 1)) /\ Cardinality(1..(e - 1)) = e - 1 BY FS_Interval
    <3> QED BY <2>2, <3>1, FS_Subset
  <2>4. g \in Surjection(I, F) BY <1>1 DEF Surjection
  <2>5. IsFiniteSet(F) /\ Cardinality(F) <= Cardinality(I) BY <2>3, <2>4, FS_Surjection
  <2>6. Cardinality(F) \in Nat /\ Cardinality(I) \in Nat BY <2>3, <2>5, FS_CardinalityType
  <2> HIDE DEF F, I, g
  <2>7. Cardinality(F) < e BY <1>1, <2>3, <2>5, <2>6
  <2> QED BY <2>7 DEF F
<1>5. \A x \in Keys : Cardinality({k \in walk.union : Behind(x, k)}) \in Nat
  <2>1. \A x \in Keys : {k \in walk.union : Behind(x, k)} \in SUBSET walk.union OBVIOUS
  <2> QED BY <2>1, FS_Subset, FS_CardinalityType
<1>6. \A x \in Keys : Cardinality({k \in walk.union : Behind(x, k)}) >= e => Behind(x, s[e])
  BY <1>1, <1>4, <1>5
<1> QED BY <1>1, <1>2, <1>6

\* A merged page: what is owed of its kinds is on it, or behind its last row and the page
\* is not the last.
LEMMA MergeShows ==
  ASSUME WalkInv, walk.pc = "merge", NEW s \in Sorted(walk.union, NewerKeys),
         NEW e, e = Least(walk.limit, Cardinality(walk.union)),
         NEW i \in owed \ Pages, Sure(i), rows[i].kind \in Kinds(walk.route)
  PROVE \/ \E j \in 1..e : s[j].id = i
        \/ More(Cardinality(walk.union) > walk.limit, e) /\ e \in 1..Cardinality(walk.union) /\ Behind(Key(i), s[e])
<1> DEFINE n == Cardinality(walk.union)
<1>1. WalkTypes /\ IsFiniteSet(walk.union) /\ walk.section = "rows" BY DEF WalkInv, WalkShape, WalkTypes
<1>2. /\ n \in Nat /\ s \in [1..n -> walk.union] /\ \A x \in walk.union : \E j \in 1..n : s[j] = x
  BY <1>1, SortedIsListing
<1>3. walk.limit \in Nat \ {0} /\ i \in RowIds BY <1>1, KeyTypes DEF WalkTypes
<1>4. e \in Nat /\ e <= n /\ (e < n => e = walk.limit /\ n > walk.limit) /\ (n >= walk.limit => e = walk.limit)
  BY <1>2, <1>3 DEF Least
<1>5. InHand(i)
  <2>1. rows[i].kind \in {"fact", "event", "author", "knowledge"}
    <3>1. walk.route \in Merged BY <1>1 DEF WalkTypes
    <3> QED BY <3>1 DEF Kinds, Merged
  <2>2. rows[i].kind \in ReadBefore(walk.pc) BY <2>1 DEF ReadBefore
  <2> QED BY <1>1, <2>2 DEF WalkInv, WalkAhead, ToCome
<1>6. CASE Key(i) \in walk.union
  <2>1. PICK j \in 1..n : s[j] = Key(i) BY <1>2, <1>6
  <2>2. CASE j <= e
    <3>1. j \in 1..e BY <1>2, <1>4, <2>1, <2>2
    <3>2. s[j].id = i BY <2>1 DEF Key
    <3> QED BY <3>1, <3>2
  <2>3. CASE ~(j <= e)
    <3>1. e < j /\ e \in 1..n /\ e = walk.limit /\ n > walk.limit BY <1>2, <1>3, <1>4, <2>1, <2>3
    <3>2. Behind(s[j], s[e]) BY <1>1, <2>1, <3>1, PageFront
    <3> QED BY <2>1, <3>1, <3>2 DEF More
  <2> QED BY <2>2, <2>3
<1>7. CASE walk.saturated /\ Cardinality(InFrontOf(i)) >= walk.limit
  <2>1. InFrontOf(i) \in SUBSET walk.union BY DEF InFrontOf
  <2>2. Cardinality(InFrontOf(i)) <= n /\ Cardinality(InFrontOf(i)) \in Nat
    BY <1>1, <2>1, FS_Subset, FS_CardinalityType
  <2>3. e = walk.limit /\ e \in 1..n /\ Cardinality(InFrontOf(i)) >= e BY <1>2, <1>3, <1>4, <1>7, <2>2
  <2>4. Key(i) \in Keys BY <1>1, <1>3, KeyTypes
  <2>5. Behind(Key(i), s[e]) BY <1>1, <2>3, <2>4, PageFront DEF InFrontOf
  <2> QED BY <1>7, <2>3, <2>5 DEF More
<1> QED BY <1>5, <1>6, <1>7 DEF InHand

\* What a client sees of a step that shows a page.
PageShown ==
  /\ walk.pc # "done" /\ SubSeq(shown', 1, Len(shown)) = shown
  /\ walk'.pc = "done" => \A i \in owed' : Sure(i)' => i \in Pages'

\* So does the merge, which shows the first of what is in hand.
LEMMA MergeKeeps == WalkInv /\ Merge => WalkInv' /\ PageShown
<1> SUFFICES ASSUME WalkInv, Merge PROVE WalkInv' /\ PageShown OBVIOUS
<1> DEFINE n == Cardinality(walk.union)
           e == Least(walk.limit, n)
           more == More(n > walk.limit, e)
<1>1. /\ WalkTypes /\ IsFiniteSet(walk.union) /\ walk.section = "rows" /\ walk.pc = "merge"
      /\ ~Plain(walk.route) /\ UNCHANGED <<rows, clock, writes, owed>>
  <2>1. walk.route \in Merged BY DEF WalkInv, WalkTypes
  <2> QED BY <2>1 DEF WalkInv, WalkShape, WalkTypes, Merge, Merged, Plain
<1>2. PICK s \in Sorted(walk.union, NewerKeys) :
        /\ shown' = shown \o [k \in 1..e |-> s[k].id]
        /\ walk' = [walk EXCEPT !.union = {}, !.saturated = FALSE,
                      !.cursor = IF more THEN s[e] ELSE None,
                      !.section = SectionAfter(more),
                      !.pc = IF more \/ Deleted(walk.route) THEN "idle" ELSE "done"]
  BY <1>1 DEF Merge
<1>3. /\ walk'.route = walk.route /\ walk'.limit = walk.limit /\ walk'.union = {} /\ walk'.saturated = FALSE
      /\ walk'.cursor = (IF more THEN s[e] ELSE None) /\ walk'.section = SectionAfter(more)
      /\ walk'.pc = (IF more \/ Deleted(walk.route) THEN "idle" ELSE "done")
      /\ walk'.since = walk.since /\ walk'.until = walk.until
  BY <1>1, <1>2 DEF WalkTypes
<1>4. Still BY <1>1, <1>3 DEF Still
<1>5. /\ n \in Nat /\ s \in [1..n -> walk.union]
      /\ \A j, k \in 1..n : s[j] = s[k] => j = k
  BY <1>1, SortedIsListing
<1>6. walk.limit \in Nat \ {0} /\ walk.union \subseteq Keys /\ walk.union \subseteq [at : Times, id : RowIds]
      /\ None \notin walk.union
  BY <1>1, KeyTypes DEF WalkTypes, None
<1>7. e \in Nat /\ e <= n /\ (more => e \in 1..n /\ s[e] \in walk.union)
  BY <1>5, <1>6 DEF Least, More
<1> DEFINE f == [k \in 1..e |-> s[k].id]
<1>8. \A k \in 1..e : k \in 1..n /\ s[k] \in walk.union BY <1>5, <1>7
<1>9. f \in [1..e -> RowIds] BY <1>6, <1>8
<1>10. \A j, k \in 1..e : f[j] = f[k] => j = k BY <1>5, <1>8 DEF WalkInv, WalkUnion
<1>11. \A k \in 1..e : f[k] \notin Pages BY <1>8 DEF WalkInv, WalkUnion, Fresh
<1>12. shown' = shown \o f BY <1>2
<1> HIDE DEF f
<1>13. /\ shown' \in Seq(RowIds) /\ Pages' = Pages \cup {f[k] : k \in 1..e}
       /\ SubSeq(shown', 1, Len(shown)) = shown /\ PagesDiffer'
  <2>1. shown \in Seq(RowIds) BY <1>1 DEF WalkTypes
  <2> HIDE DEF e
  <2>2. DOMAIN f = 1..e BY <1>9
  <2>3. Once(shown) BY DEF WalkInv, WalkShown, PagesDiffer, Once
  <2>4. Once(f) BY <1>10, <2>2 DEF Once
  <2>5. Disjoint(shown, f) BY <1>11, <2>2 DEF Pages, Disjoint
  <2>6. e \in Nat BY <1>7
  <2>7. /\ shown \o f \in Seq(RowIds) /\ Members(shown \o f) = Members(shown) \cup Members(f)
        /\ SubSeq(shown \o f, 1, Len(shown)) = shown /\ Once(shown \o f)
    BY <1>9, <2>1, <2>3, <2>4, <2>5, <2>6, Appended
  <2>8. Pages' = Pages \cup {f[k] : k \in 1..e} BY <1>12, <2>2, <2>7 DEF Pages, Members
  <2> QED BY <1>12, <2>7, <2>8 DEF PagesDiffer, Once
<1>14. ASSUME NEW i \in owed \ Pages', Sure(i), rows[i].kind \in Kinds(walk.route)
       PROVE more /\ Behind(Key(i), s[e])
  <2>1. i \in owed \ Pages BY <1>13
  <2>2. ~\E j \in 1..e : s[j].id = i BY <1>13 DEF f
  <2> QED BY <1>1, <1>14, <2>1, <2>2, MergeShows
<1> HIDE DEF more, e, n
<1>15. walk'.section = "rows" /\ walk'.pc # "done" => more
  BY <1>1, <1>3 DEF SectionAfter
<1>16. walk'.section = "knowledge" => walk.route = "deleted" /\ ~more /\ walk'.pc = "idle"
  BY <1>1, <1>3 DEF SectionAfter, Deleted
<1>17. WalkTypes'
  <2>1. walk'.section \in {"rows", "knowledge"} BY <1>1, <1>3 DEF SectionAfter
  <2>2. walk'.cursor \in [at : Times, id : Nat]
    <3>1. [at : Times, id : RowIds] \subseteq [at : Times, id : Nat] BY <1>1, KeyTypes
    <3>2. None \in [at : Times, id : Nat]
      <4>1. 0 \in Times BY TimelineAssumption DEF Times
      <4> QED BY <4>1 DEF None
    <3> QED BY <1>3, <1>6, <1>7, <3>1, <3>2
  <2>3. walk'.pc \in {"idle", "done"} BY <1>3
  <2>4. walk' \in [route : Merged, limit : Limits,
               pc : {"idle", "fact", "event", "author", "knowledge", "merge", "scroll", "done"},
               section : {"rows", "knowledge"}, cursor : [at : Times, id : Nat],
               union : SUBSET [at : Times, id : RowIds], saturated : BOOLEAN, since : Nat, until : Nat]
    <3>1. SectionAfter(more) \in {"rows", "knowledge"} BY <1>3, <2>1
    <3>2. (IF more THEN s[e] ELSE None) \in [at : Times, id : Nat] BY <1>3, <2>2
    <3> QED BY <1>1, <1>2, <3>1, <3>2 DEF WalkTypes
  <2> QED BY <1>1, <1>13, <2>4 DEF WalkTypes, RowTypes
<1>18. WalkShape' BY <1>3, <1>16, FS_EmptySet DEF WalkShape, Deleted
<1>19. WalkWindow'
  <2>1. Handler(walk.route)'.until = Handler(walk.route).until
    BY <1>1, <1>3 DEF Handler, ListMemories, EventSearch, AuthorMemories, ListAuthors, ListDeleted, ListPlain, Span, Ago
  <2>2. more => s[e].at < walk.until BY <1>7 DEF WalkInv, WalkWindow
  <2> QED BY <1>1, <1>3, <1>4, <2>1, <2>2, StillSame DEF WalkInv, WalkWindow
<1>20. ASSUME NEW i \in Pages', rows[i].kind # "gone"
       PROVE /\ rows[i].kind \in Kinds(walk.route)
             /\ more => ~Behind(Key(i), s[e])
  <2>1. CASE i \in Pages
    <3>1. rows[i].kind \in Kinds(walk.route) /\ walk.cursor # None /\ ~Behind(Key(i), walk.cursor)
      BY <1>1, <1>20, <2>1 DEF WalkInv, WalkShown
    <3>2. more => Behind(s[e], walk.cursor) /\ s[e] \in Keys
      BY <1>6, <1>7, <3>1 DEF WalkInv, WalkUnion, Fresh
    <3>3. i \in RowIds BY <1>1, <2>1 DEF Pages, WalkTypes
    <3> QED BY <1>1, <3>1, <3>2, <3>3, KeyTypes, BehindOrders
  <2>2. CASE i \notin Pages
    <3>1. PICK j \in 1..e : s[j].id = i BY <1>13, <2>2 DEF f
    <3>2. s[j] \in walk.union /\ s[j] \in Keys /\ j \in 1..n BY <1>6, <1>8, <3>1 DEF n, e
    <3>3. rows[i].kind \in Kinds(walk.route) /\ ~Behind(Key(i), s[j])
      BY <1>20, <3>1, <3>2 DEF WalkInv, WalkUnion, Fresh
    <3>4. more => s[e] = s[j] \/ Behind(s[e], s[j])
      <4>1. j = e \/ j < e BY <1>7, <3>1 DEF e
      <4> QED BY <1>1, <1>7, <3>2, <4>1, PageFront DEF n
    <3>5. i \in RowIds /\ Key(i) \in Keys BY <1>1, <1>6, <3>1, <3>2, KeyTypes
    <3> QED BY <1>6, <1>7, <3>2, <3>3, <3>4, <3>5, BehindOrders
  <2> QED BY <2>1, <2>2
<1>21. WalkShown'
  <2>1. walk'.section = "knowledge" => \A i \in Pages' : rows[i].kind # "knowledge"
    BY <1>16, <1>20 DEF Kinds
  <2> QED BY <1>1, <1>3, <1>4, <1>6, <1>7, <1>13, <1>15, <1>20, <2>1, StillSame DEF WalkShown
<1>22. WalkUnion' BY <1>3 DEF WalkUnion
<1>23. WalkAhead'
  <2> SUFFICES ASSUME walk'.pc # "done", NEW i \in owed \ Pages', Sure(i) PROVE ToCome(i)'
    BY <1>1, <1>4, StillSame DEF WalkAhead
  <2>1. ReadBefore("idle") = {} /\ walk'.pc = "idle" BY <1>3 DEF ReadBefore
  <2>2. i \in RowIds /\ Listed(i) BY <1>1 DEF WalkInv, WalkWindow, WalkTypes
  <2>3. rows[i].kind \notin Kinds(walk.route) => rows[i].kind = "knowledge" BY <2>2 DEF Listed
  <2>4. walk'.section = "knowledge" => rows[i].kind = "knowledge" /\ i >= walk'.cursor.id
    BY <1>1, <1>3, <1>14, <1>16, <2>2, <2>3, KeyTypes DEF None
  <2>5. walk'.section = "rows" /\ rows[i].kind \in Kinds(walk.route) => After(i, walk'.cursor)
    BY <1>3, <1>14, <1>15 DEF After
  <2> QED BY <1>1, <1>3, <1>4, <2>1, <2>4, <2>5, StillSame DEF ToCome, After
<1>24. PageShown
  <2>1. ASSUME walk'.pc = "done", NEW i \in owed, Sure(i) PROVE i \in Pages'
    <3>1. ~more /\ ~Deleted(walk.route) BY <1>3, <2>1
    <3>2. Listed(i) BY <2>1 DEF WalkInv, WalkWindow
    <3>3. rows[i].kind \in Kinds(walk.route) BY <3>1, <3>2 DEF Listed
    <3> QED BY <1>14, <2>1, <3>1, <3>3
  <2> QED BY <1>1, <1>4, <1>13, <2>1, StillSame DEF PageShown
<1> QED BY <1>17, <1>18, <1>19, <1>21, <1>22, <1>23, <1>24 DEF WalkInv

\* A set of row ids has a least one.
LEMMA LeastRow ==
  ASSUME NEW S \in SUBSET Nat, S # {}
  PROVE \E i \in S : \A j \in S : i <= j
<1>1. PICK i \in S : \A j \in S : ~ (<<j, i>> \in OpToRel(<, Nat))
  BY NatLessThanWellFounded, WFMin
<1>2. ASSUME NEW j \in S PROVE i <= j
  <2>1. i \in Nat /\ j \in Nat /\ <<j, i>>[1] = j /\ <<j, i>>[2] = i /\ <<j, i>> \in Nat \X Nat OBVIOUS
  <2>2. ~ (j < i) BY <1>1, <2>1 DEF OpToRel
  <2> QED BY <2>1, <2>2
<1> QED BY <1>2

\* The deleted knowledge: the page is the first of what is left, and names the next.
LEMMA DeletedFront ==
  ASSUME NEW S \in SUBSET RowIds, NEW limit \in Nat
  PROVE LET P == {i \in S : Cardinality({j \in S : j < i}) < limit}
        IN  \A p \in P, q \in S \ P : p < q
<1> DEFINE P == {i \in S : Cardinality({j \in S : j < i}) < limit}
<1> SUFFICES ASSUME NEW p \in P, NEW q \in S \ P PROVE p < q OBVIOUS
<1>1. p \in Nat /\ q \in Nat /\ IsFiniteSet(S) BY TimelineAssumption, FS_Subset
<1> SUFFICES ASSUME q <= p PROVE FALSE BY <1>1
<1> DEFINE Below(i) == {j \in S : j < i}
<1>2. Below(p) \in SUBSET S /\ Below(q) \in SUBSET Below(p)
  <2>1. \A j \in S : j \in Nat BY TimelineAssumption
  <2>2. \A j \in S : j < q => j < p BY <1>1, <2>1
  <2> QED BY <2>2
<1> HIDE DEF Below
<1>3. Cardinality(Below(q)) <= Cardinality(Below(p)) /\ Cardinality(Below(q)) \in Nat /\ Cardinality(Below(p)) \in Nat
  BY <1>1, <1>2, FS_Subset, FS_CardinalityType
<1>4. Cardinality(Below(p)) < limit BY DEF Below
<1>5. Cardinality(Below(q)) < limit BY <1>3, <1>4
<1> QED BY <1>5 DEF Below

\* So does the listing of deleted rows.
LEMMA DeletedKeeps == WalkInv /\ ReadDeleted => WalkInv' /\ PageShown
<1> SUFFICES ASSUME WalkInv, ReadDeleted PROVE WalkInv' /\ PageShown OBVIOUS
<1> DEFINE S == DeletedFrom
           P == {i \in S : Cardinality({j \in S : j < i}) < walk.limit}
           left == S \ P
           next == CHOOSE i \in left : \A j \in left : i <= j
<1>1. /\ WalkTypes /\ walk.section = "knowledge" /\ walk.pc = "scroll" /\ walk.route = "deleted"
      /\ UNCHANGED <<rows, clock, writes, owed>>
  BY DEF WalkInv, WalkShape, ReadDeleted
<1>2. PICK s \in Sorted(P, {p \in P \X P : p[1] < p[2]}) : shown' = shown \o s BY DEF ReadDeleted
<1>3. walk' = [walk EXCEPT !.pc = IF left = {} THEN "done" ELSE "idle",
                 !.cursor = IF left = {} THEN None ELSE [at |-> 0, id |-> next]]
  BY DEF ReadDeleted
<1>4. /\ walk'.route = walk.route /\ walk'.limit = walk.limit /\ walk'.union = walk.union
      /\ walk'.saturated = walk.saturated /\ walk'.section = walk.section
      /\ walk'.cursor = (IF left = {} THEN None ELSE [at |-> 0, id |-> next])
      /\ walk'.pc = (IF left = {} THEN "done" ELSE "idle")
      /\ walk'.since = walk.since /\ walk'.until = walk.until
  BY <1>1, <1>3 DEF WalkTypes
<1>5. Still BY <1>1, <1>4 DEF Still
<1>6. \A i \in RowIds : i \in Nat BY TimelineAssumption
<1>7. walk.cursor.id \in Nat /\ (walk.cursor = None => walk.cursor.id = 0) /\ walk.limit \in Nat
  BY <1>1, KeyTypes DEF Keys, None
<1>8. S = {i \in RowIds : rows[i].kind = "knowledge" /\ Listed(i) /\ i >= walk.cursor.id}
  BY <1>7 DEF DeletedFrom
<1>9. S \in SUBSET RowIds /\ P \in SUBSET S /\ P \in SUBSET RowIds BY <1>8
<1> HIDE DEF S
<1>10. \A p \in P, q \in left : p < q
  <2>1. walk.limit \in Nat /\ S \in SUBSET RowIds BY <1>7, <1>9
  <2> QED BY <2>1, DeletedFront
<1> HIDE DEF P, left
<1>11. IsFiniteSet(P) BY <1>9, TimelineAssumption, FS_Subset
<1>12. left # {} => next \in left /\ \A j \in left : next <= j
  <2>1. left \subseteq Nat BY <1>6, <1>9 DEF left
  <2> QED BY <2>1, LeastRow
<1> HIDE DEF next
<1>13. /\ Cardinality(P) \in Nat /\ s \in [1..Cardinality(P) -> P]
       /\ \A j, k \in 1..Cardinality(P) : s[j] = s[k] => j = k
       /\ \A x \in P : \E j \in 1..Cardinality(P) : s[j] = x
  BY <1>11, SortedIsListing
<1>14. \A i \in P : i \notin Pages
  <2>1. \A i \in P : rows[i].kind = "knowledge" /\ i >= walk.cursor.id /\ i \in Nat BY <1>6, <1>8, <1>9
  <2> QED BY <1>1, <1>7, <2>1 DEF WalkInv, WalkShown
<1>15. /\ shown' \in Seq(RowIds) /\ Pages' = Pages \cup P
       /\ SubSeq(shown', 1, Len(shown)) = shown /\ PagesDiffer'
  <2>1. shown \in Seq(RowIds) BY <1>1 DEF WalkTypes
  <2>2. s \in [1..Cardinality(P) -> RowIds] BY <1>9, <1>13
  <2>3. DOMAIN s = 1..Cardinality(P) /\ Members(s) = P BY <1>13, <2>2 DEF Members
  <2>4. Once(shown) /\ Once(s) BY <1>13, <2>3 DEF WalkInv, WalkShown, PagesDiffer, Once
  <2>5. Disjoint(shown, s) BY <1>13, <1>14, <2>3 DEF Pages, Disjoint
  <2>6. /\ shown \o s \in Seq(RowIds) /\ Members(shown \o s) = Members(shown) \cup Members(s)
        /\ SubSeq(shown \o s, 1, Len(shown)) = shown /\ Once(shown \o s)
    BY <1>13, <2>1, <2>2, <2>4, <2>5, Appended
  <2>7. Pages' = Pages \cup P BY <1>2, <2>3, <2>6 DEF Pages, Members
  <2> QED BY <1>2, <2>6, <2>7 DEF PagesDiffer, Once
<1>16. ASSUME NEW i \in owed \ Pages', Sure(i) PROVE i \in left /\ rows[i].kind = "knowledge"
  <2>1. i \in RowIds /\ Listed(i) /\ ToCome(i) BY <1>1, <1>15, <1>16 DEF WalkInv, WalkWindow, WalkAhead, WalkTypes
  <2>2. i \in S BY <1>1, <1>8, <2>1 DEF ToCome
  <2> QED BY <1>1, <1>15, <1>16, <2>1, <2>2 DEF left, ToCome
<1>17. left # {} => next \in RowIds /\ next \in Nat /\ walk.cursor.id <= next
  BY <1>6, <1>8, <1>9, <1>12 DEF left
<1>18. WalkTypes'
  <2>1. (IF left = {} THEN None ELSE [at |-> 0, id |-> next]) \in [at : Times, id : Nat]
    <3>1. 0 \in Times BY TimelineAssumption DEF Times
    <3> QED BY <1>17, <3>1 DEF None
  <2>2. walk' \in [route : Merged, limit : Limits,
               pc : {"idle", "fact", "event", "author", "knowledge", "merge", "scroll", "done"},
               section : {"rows", "knowledge"}, cursor : [at : Times, id : Nat],
               union : SUBSET [at : Times, id : RowIds], saturated : BOOLEAN, since : Nat, until : Nat]
    BY <1>1, <1>3, <2>1 DEF WalkTypes
  <2> QED BY <1>1, <1>15, <2>2 DEF WalkTypes, RowTypes
<1>19. WalkShape' BY <1>1, <1>4 DEF WalkInv, WalkShape
<1>20. WalkWindow'
  <2>1. Handler(walk.route)'.until = Handler(walk.route).until
    BY <1>1, <1>4 DEF Handler, ListMemories, EventSearch, AuthorMemories, ListAuthors, ListDeleted, ListPlain, Span, Ago
  <2> QED BY <1>1, <1>4, <1>5, <2>1, StillSame DEF WalkInv, WalkWindow
<1>21. WalkShown'
  <2>1. ASSUME NEW i \in Pages' PROVE rows[i].kind \in {"gone", "knowledge"} \cup Kinds(walk.route)
    BY <1>1, <1>8, <1>9, <1>15, <2>1 DEF WalkInv, WalkShown
  <2>2. ASSUME NEW i \in Pages', rows[i].kind = "knowledge", left # {} PROVE i < next
    <3>1. CASE i \in P BY <1>10, <1>12, <2>2, <3>1
    <3>2. CASE i \notin P
      <4>1. i \in Pages /\ i \in RowIds BY <1>1, <1>15, <2>2, <3>2 DEF Pages, WalkTypes
      <4>2. i < walk.cursor.id BY <1>1, <2>2, <4>1 DEF WalkInv, WalkShown
      <4> QED BY <1>6, <1>7, <1>17, <2>2, <4>1, <4>2
    <3> QED BY <3>1, <3>2
  <2> QED BY <1>1, <1>4, <1>5, <1>15, <2>1, <2>2 DEF WalkShown, Still
<1>22. WalkUnion' BY <1>1, <1>4 DEF WalkInv, WalkShape, WalkUnion
<1>23. WalkAhead'
  <2> SUFFICES ASSUME walk'.pc # "done", NEW i \in owed \ Pages', Sure(i) PROVE ToCome(i)'
    BY <1>1, <1>5, StillSame DEF WalkAhead
  <2>1. left # {} /\ i \in left /\ rows[i].kind = "knowledge" BY <1>4, <1>16
  <2>2. i >= next BY <1>6, <1>9, <1>12, <1>17, <2>1 DEF left
  <2> QED BY <1>1, <1>4, <2>1, <2>2 DEF ToCome
<1>24. PageShown
  <2>1. ASSUME walk'.pc = "done", NEW i \in owed, Sure(i) PROVE i \in Pages'
    BY <1>4, <1>16, <2>1
  <2> QED BY <1>1, <1>5, <1>15, <2>1, StillSame DEF PageShown
<1> QED BY <1>18, <1>19, <1>20, <1>21, <1>22, <1>23, <1>24 DEF WalkInv

-----------------------------------------------------------------------------
(* What is written meanwhile *)

\* What a write may make of a row: what is gone stays so, an orphan may be adopted, and a
\* row never moves down in time, nor an event or a point at all.
Permitted(i, r) ==
  /\ r \in [kind : RowKinds, at : Times, live : BOOLEAN] /\ r.at <= clock
  /\ rows[i].kind # "none" =>
       /\ rows[i].kind # "gone" /\ rows[i].at <= r.at
       /\ r.kind \in {rows[i].kind, "gone"} \/ (rows[i].kind = "orphan" /\ r.kind = "knowledge")
       /\ rows[i].kind \in {"event", "knowledge", "orphan"} => r.at = rows[i].at

\* Each write of another client is one row put in the place of a permitted one.
LEMMA WritesPermitted ==
  ASSUME WalkTypes, Add \/ Hide \/ Show \/ Erase \/ Adopt \/ Touch
  PROVE \E i \in RowIds : \E r : Permitted(i, r) /\ Writes(i, r)
<1>1. /\ \A i \in RowIds : /\ rows[i] \in [kind : RowKinds, at : Times, live : BOOLEAN]
                           /\ rows[i].at <= clock /\ rows[i].at \in Nat
      /\ clock \in 1..MaxTime /\ MaxTime \in Nat /\ Times = 0..MaxTime
  BY TimelineAssumption, KeyTypes DEF WalkTypes, RowTypes, Times
<1>2. clock \in Nat /\ clock \in Times /\ clock - 1 \in Times /\ clock - 1 <= clock /\ clock <= clock BY <1>1
<1>3. \A i \in Present : i \in RowIds /\ rows[i].kind \notin {"none", "gone"} BY DEF Present
<1>4. CASE Add
  <2>1. PICK i \in RowIds, kind \in {"fact", "event", "knowledge", "author"}, at1 \in {clock - 1, clock} :
          rows[i].kind = "none" /\ Writes(i, ListRow(kind, at1, TRUE))
    BY <1>4 DEF Add
  <2>2. Permitted(i, ListRow(kind, at1, TRUE)) BY <1>2, <2>1 DEF Permitted, ListRow, RowKinds
  <2> QED BY <2>1, <2>2
<1>5. CASE Hide
  <2>1. PICK i \in Present : \E at1 \in {clock, rows[i].at} :
          /\ rows[i].kind \in {"fact", "knowledge", "orphan"} /\ (rows[i].kind # "fact" => at1 = rows[i].at)
          /\ Writes(i, ListRow(rows[i].kind, at1, FALSE))
    BY <1>5 DEF Hide
  <2>2. PICK at1 \in {clock, rows[i].at} :
          /\ rows[i].kind \in {"fact", "knowledge", "orphan"} /\ (rows[i].kind # "fact" => at1 = rows[i].at)
          /\ Writes(i, ListRow(rows[i].kind, at1, FALSE))
    BY <2>1
  <2>3. Permitted(i, ListRow(rows[i].kind, at1, FALSE))
    BY <1>1, <1>2, <1>3, <2>2 DEF Permitted, ListRow, RowKinds
  <2> QED BY <1>3, <2>2, <2>3
<1>6. CASE Show
  <2>1. PICK i \in Present : Writes(i, ListRow(rows[i].kind, rows[i].at, TRUE)) BY <1>6 DEF Show
  <2>2. Permitted(i, ListRow(rows[i].kind, rows[i].at, TRUE)) BY <1>1, <1>3 DEF Permitted, ListRow
  <2> QED BY <1>3, <2>1, <2>2
<1>7. CASE Erase
  <2>1. PICK i \in Present : Writes(i, ListRow("gone", rows[i].at, FALSE)) BY <1>7 DEF Erase
  <2>2. Permitted(i, ListRow("gone", rows[i].at, FALSE)) BY <1>1, <1>3 DEF Permitted, ListRow, RowKinds
  <2> QED BY <1>3, <2>1, <2>2
<1>8. CASE Touch
  <2>1. PICK i \in Present : rows[i].kind = "author" /\ Writes(i, ListRow("author", clock, TRUE))
    BY <1>8 DEF Touch
  <2>2. Permitted(i, ListRow("author", clock, TRUE)) BY <1>1, <1>2, <1>3, <2>1 DEF Permitted, ListRow, RowKinds
  <2> QED BY <1>3, <2>1, <2>2
<1>9. CASE Adopt
  <2>1. PICK i \in Present : rows[i].kind = "orphan" /\ Writes(i, ListRow("knowledge", rows[i].at, rows[i].live))
    BY <1>9 DEF Adopt
  <2>2. Permitted(i, ListRow("knowledge", rows[i].at, rows[i].live))
    BY <1>1, <1>3, <2>1 DEF Permitted, ListRow, RowKinds
  <2> QED BY <1>3, <2>1, <2>2
<1> QED BY <1>4, <1>5, <1>6, <1>7, <1>8, <1>9

\* A row that moved does not come back behind a place it was not behind.
LEMMA NotBack ==
  ASSUME WalkTypes, NEW i \in RowIds, NEW r, Permitted(i, r), Writes(i, r),
         NEW j \in RowIds, NEW c \in Keys, ~Behind(Key(j), c), rows'[j].kind # "gone",
         rows[j].kind # "none", rows[j].kind # "gone" => rows[j].kind \in Kinds(walk.route)
  PROVE ~Behind(Key(j), c)'
<1>1. /\ walk' = walk /\ rows'[j] = IF j = i THEN r ELSE rows[j]
      /\ r.at \in Nat /\ rows[j].at \in Nat
  BY KeyTypes DEF Writes, WalkTypes, RowTypes, Permitted
<1>2. Behind(Key(j), c)' <=> Behind([at |-> rows'[j].at, id |-> j], c) BY <1>1 DEF Behind, Older, Key
<1>3. rows[j].at <= rows'[j].at /\ rows'[j].at \in Nat BY <1>1 DEF Permitted
<1>4. CASE walk.route \in {"events_asc", "event_list"}
  <2>1. rows[j].kind = "gone" \/ rows[j].kind = "event" BY <1>4 DEF Kinds
  <2>2. rows'[j].at = rows[j].at BY <1>1, <2>1 DEF Permitted
  <2> QED BY <1>2, <2>2 DEF Key
<1>5. CASE walk.route \notin {"events_asc", "event_list"}
  <2>1. Key(j) \in Keys /\ [at |-> rows'[j].at, id |-> j] \in Keys
    BY <1>1, <1>3, KeyTypes DEF Keys
  <2>2. Behind([at |-> rows'[j].at, id |-> j], c) => Behind(Key(j), c)
    BY <1>3, <1>5, <2>1, MovedUp DEF Key
  <2> QED BY <1>2, <2>2
<1> QED BY <1>4, <1>5

\* And such a write keeps the invariant: it takes rows out of what is owed only.
LEMMA WriteKeeps ==
  ASSUME WalkInv, NEW i \in RowIds, NEW r, Permitted(i, r), Writes(i, r)
  PROVE WalkInv'
<1>1. /\ WalkTypes /\ walk' = walk /\ clock' = clock /\ shown' = shown
      /\ owed' = {m \in owed \ {i} : Sure(m)}
      /\ rows' = [rows EXCEPT ![i] = r]
      /\ \A m \in RowIds : rows'[m] = IF m = i THEN r ELSE rows[m]
  BY DEF WalkInv, Writes, WalkTypes, RowTypes
<1>2. \A m \in RowIds \ {i} : Key(m)' = Key(m) /\ (Listed(m)' <=> Listed(m)) /\ rows'[m] = rows[m]
  BY <1>1 DEF Key, Listed, Present
<1>3. \A k, l : Behind(k, l)' <=> Behind(k, l) BY <1>1 DEF Behind, Older
<1>4. \A m \in RowIds : rows[m].kind \notin {"none", "orphan"} =>
        rows'[m].kind \in {rows[m].kind, "gone"} /\ (rows'[m].kind # "gone" => rows[m].kind # "gone")
  BY <1>1 DEF Permitted
<1>5. WalkTypes'
  <2>1. \A m \in RowIds : rows'[m].at <= clock' BY <1>1 DEF WalkTypes, RowTypes, Permitted
  <2>2. rows' \in [RowIds -> [kind : RowKinds, at : Times, live : BOOLEAN]]
    BY <1>1 DEF WalkTypes, RowTypes, Permitted
  <2> QED BY <1>1, <2>1, <2>2 DEF WalkTypes, RowTypes
<1>6. WalkShape' BY <1>1 DEF WalkInv, WalkShape
<1>7. WalkWindow'
  <2>1. Handler(walk.route)'.until = Handler(walk.route).until
    BY <1>1 DEF Handler, ListMemories, EventSearch, AuthorMemories, ListAuthors, ListDeleted, ListPlain, Span, Ago
  <2>2. \A m \in owed' : m \in owed /\ m \in RowIds \ {i} BY <1>1 DEF WalkTypes
  <2> QED BY <1>1, <1>2, <2>1, <2>2 DEF WalkInv, WalkWindow
<1>8. WalkShown'
  <2>1. Pages' = Pages /\ PagesDiffer' BY <1>1 DEF WalkInv, WalkShown, Pages, PagesDiffer
  <2>2. ASSUME NEW j \in Pages
        PROVE j \in RowIds /\ rows[j].kind \notin {"none", "orphan"}
              /\ rows[j].kind \in {"gone"} \cup Kinds(walk.route) \cup
                                  IF walk.section = "knowledge" THEN {"knowledge"} ELSE {}
    <3>1. walk.route \in Merged /\ j \in RowIds BY <1>1 DEF WalkTypes, Pages
    <3>2. {"none", "orphan"} \cap Kinds(walk.route) = {} BY <3>1 DEF Kinds, Merged
    <3> QED BY <3>1, <3>2 DEF WalkInv, WalkShown
  <2>3. ASSUME NEW j \in Pages, walk.section = "rows", walk.pc # "done", rows'[j].kind # "gone"
        PROVE walk.cursor # None /\ ~Behind(Key(j), walk.cursor)'
    <3>1. rows[j].kind # "gone" /\ j \in RowIds /\ rows[j].kind \notin {"none", "orphan"} /\ rows[j].kind \in Kinds(walk.route)
      BY <1>4, <2>2, <2>3
    <3>2. walk.cursor # None /\ ~Behind(Key(j), walk.cursor) /\ walk.cursor \in Keys
      BY <1>1, <2>3, <3>1, KeyTypes DEF WalkInv, WalkShown
    <3>3. PICK c \in Keys : c = walk.cursor BY <3>2
    <3>4. ~Behind(Key(j), c)' BY <1>1, <2>3, <3>1, <3>2, <3>3, NotBack
    <3> QED BY <1>1, <3>2, <3>3, <3>4
  <2>4. \A j \in Pages : rows'[j].kind = "knowledge" => rows[j].kind = "knowledge" BY <1>4, <2>2
  <2> QED BY <1>1, <1>4, <2>1, <2>2, <2>3, <2>4 DEF WalkInv, WalkShown
<1>9. WalkUnion'
  <2>1. ASSUME NEW k \in walk.union PROVE Fresh(k)'
    <3>1. k \in Keys /\ k.id \in RowIds /\ Fresh(k) BY <1>1, KeyTypes DEF WalkInv, WalkTypes, WalkUnion
    <3>2. rows[k.id].kind \notin {"none", "orphan"}
      <4>1. {"none", "orphan"} \cap ReadBefore(walk.pc) = {} BY DEF ReadBefore
      <4> QED BY <3>1, <4>1 DEF Fresh
    <3>3. ASSUME rows'[k.id].kind # "gone"
          PROVE rows'[k.id].kind \in ReadBefore(walk.pc) \cap Kinds(walk.route) /\ ~Behind(Key(k.id), k)'
      <4>1. rows[k.id].kind # "gone" /\ rows'[k.id].kind = rows[k.id].kind BY <1>4, <3>1, <3>2, <3>3
      <4>2. rows[k.id].kind \in ReadBefore(walk.pc) \cap Kinds(walk.route) /\ ~Behind(Key(k.id), k)
        BY <3>1, <4>1 DEF Fresh
      <4> QED BY <1>1, <3>1, <3>2, <3>3, <4>1, <4>2, NotBack
    <3>4. Pages' = Pages BY <1>1 DEF Pages
    <3> QED BY <1>1, <1>3, <3>1, <3>3, <3>4 DEF Fresh
  <2> QED BY <1>1, <2>1 DEF WalkInv, WalkUnion
<1>10. WalkAhead'
  <2> SUFFICES ASSUME walk.pc # "done", NEW j \in (owed \ {i}) \ Pages, Sure(j) PROVE ToCome(j)'
    BY <1>1 DEF WalkAhead, Pages
  <2>1. j \in RowIds /\ j # i BY <1>1 DEF WalkTypes
  <2>2. ToCome(j) BY DEF WalkInv, WalkAhead
  <2>3. InFrontOf(j)' = InFrontOf(j) BY <1>1, <1>2, <1>3, <2>1 DEF InFrontOf
  <2>4. InHand(j)' <=> InHand(j) BY <1>1, <1>2, <2>1, <2>3 DEF InHand
  <2>5. After(j, walk.cursor)' <=> After(j, walk.cursor) BY <1>1, <1>2, <1>3, <2>1 DEF After
  <2> QED BY <1>1, <1>2, <2>1, <2>2, <2>4, <2>5 DEF ToCome
<1> QED BY <1>5, <1>6, <1>7, <1>8, <1>9, <1>10 DEF WalkInv

-----------------------------------------------------------------------------
(* The walk refines the listing *)

\* A walk starts with nothing shown, and all that is listed to come.
LEMMA WalkStarts == Routes \subseteq Merged /\ WalkInit => WalkInv /\ walk.pc # "done"
<1> SUFFICES ASSUME Routes \subseteq Merged, WalkInit PROVE WalkInv /\ walk.pc # "done" OBVIOUS
<1>1. MaxTime \in Nat \ {0, 1} /\ Times = 0..MaxTime BY TimelineAssumption DEF Times
<1>2. PICK route \in Routes, limit \in Limits : walk = Start(route, limit) BY DEF WalkInit
<1>3. clock = MaxTime - 1 /\ shown = <<>> /\ owed = {i \in RowIds : Listed(i)} BY DEF WalkInit
<1>4. /\ walk.route = route /\ walk.limit = limit /\ walk.pc = "idle" /\ walk.section = "rows" /\ walk.cursor = None
      /\ walk.union = {} /\ walk.saturated = FALSE /\ walk.since = 0 /\ walk.until = MaxTime + 1
  BY <1>2 DEF Start
<1>5. RowTypes
  <2>1. rows \in [RowIds -> {NoRow} \cup
          [kind : Kinds(walk.route) \cup CASE Deleted(walk.route) -> {"knowledge"}
                                           [] walk.route = "memories" -> {"orphan"}
                                           [] OTHER -> {},
           at : 0..(MaxTime - 2), live : {TRUE, ~Deleted(walk.route)}]]
    BY DEF WalkInit
  <2>2. {"knowledge", "orphan"} \subseteq RowKinds /\ Kinds(walk.route) \subseteq RowKinds
    <3>1. walk.route \in Merged BY <1>4
    <3> QED BY <3>1 DEF Kinds, Merged, RowKinds
  <2>3. ASSUME NEW i \in RowIds
        PROVE rows[i] \in [kind : RowKinds, at : Times, live : BOOLEAN] /\ rows[i].at <= clock
    <3>1. CASE rows[i] = NoRow BY <1>1, <1>3, <3>1 DEF NoRow, ListRow, RowKinds
    <3>2. CASE rows[i] # NoRow
      <4>1. 0..(MaxTime - 2) \subseteq Times /\ \A t \in 0..(MaxTime - 2) : t <= clock BY <1>1, <1>3
      <4>2. {TRUE, ~Deleted(walk.route)} \subseteq BOOLEAN BY DEF Deleted
      <4> QED BY <2>1, <2>2, <3>2, <4>1, <4>2
    <3> QED BY <3>1, <3>2
  <2> QED BY <1>1, <1>3, <2>1, <2>3 DEF RowTypes
<1>6. WalkTypes
  <2>1. None \in [at : Times, id : Nat] BY <1>1 DEF None
  <2>2. route \in Merged BY <1>2
  <2>3. <<>> \in Seq(RowIds) OBVIOUS
  <2>4. walk \in [route : Merged, limit : Limits,
               pc : {"idle", "fact", "event", "author", "knowledge", "merge", "scroll", "done"},
               section : {"rows", "knowledge"}, cursor : [at : Times, id : Nat],
               union : SUBSET [at : Times, id : RowIds], saturated : BOOLEAN, since : Nat, until : Nat]
    BY <1>1, <1>2, <2>1, <2>2 DEF Start
  <2> QED BY <1>3, <1>5, <2>3, <2>4 DEF WalkTypes
<1>7. WalkShape BY <1>4, FS_EmptySet DEF WalkShape
<1>8. WalkWindow BY <1>3, <1>4 DEF WalkWindow
<1>9. Pages = {} /\ PagesDiffer BY <1>3 DEF Pages, PagesDiffer
<1>10. WalkShown BY <1>9 DEF WalkShown
<1>11. WalkUnion BY <1>4 DEF WalkUnion
<1>12. WalkAhead BY <1>4 DEF WalkAhead, ToCome, After, ReadBefore
<1> QED BY <1>4, <1>6, <1>7, <1>8, <1>10, <1>11, <1>12 DEF WalkInv

\* What a step is to a client: a page, or nothing but that less may be due.
Quiet ==
  /\ shown' = shown /\ owed' \subseteq owed /\ (walk'.pc = "done" <=> walk.pc = "done")
  /\ \A i \in owed' : Sure(i)' => Sure(i)
PageOnly == PageShown /\ Still /\ owed' = owed

\* A write is quiet, and so is what a page does before it is shown.
LEMMA WriteQuiet ==
  ASSUME WalkTypes, NEW i \in RowIds, NEW r, Permitted(i, r), Writes(i, r)
  PROVE Quiet
<1>1. walk' = walk /\ shown' = shown /\ owed' = {j \in owed \ {i} : Sure(j)} BY DEF Writes
<1> QED BY <1>1 DEF Quiet

\* A read shows nothing to the client.
LEMMA ReadQuiet ==
  ASSUME WalkInv, ReadFacts \/ ReadEvents \/ SearchEvents \/ ReadAuthors \/ ReadKnowledge
  PROVE Quiet
<1>1. WalkTypes BY DEF WalkInv
<1>2. PICK kind, pc : /\ <<kind, pc>> \in Onward /\ walk.pc = kind /\ UNCHANGED <<rows, clock, writes, shown, owed>>
                      /\ walk' = Goto(pc) \/ \E P, full : Read(P, full, pc)
  BY DEF ReadFacts, ReadEvents, SearchEvents, ReadAuthors, ReadTable, ReadKnowledge, Onward
<1>3. walk'.pc = pc /\ walk'.route = walk.route /\ walk'.limit = walk.limit
  BY <1>1, <1>2 DEF Goto, Read, WalkTypes
<1>4. Still BY <1>2, <1>3 DEF Still
<1>5. walk.pc # "done" /\ walk'.pc # "done" BY <1>2, <1>3 DEF Onward
<1> QED BY <1>2, <1>4, <1>5, StillSame DEF Quiet

\* Nor does asking for a page.
LEMMA AskQuiet == ASSUME WalkInv, AskPage PROVE Quiet
<1>1. WalkTypes BY DEF WalkInv
<1>2. /\ walk'.pc = Handler(walk.route).pc /\ walk'.route = walk.route /\ walk'.limit = walk.limit
      /\ rows' = rows /\ shown' = shown /\ owed' \subseteq owed /\ walk.pc = "idle"
  BY <1>1 DEF AskPage, WalkTypes
<1>3. walk'.pc # "done" BY <1>1, <1>2, SpanTypes
<1>4. Still BY <1>2 DEF Still
<1> QED BY <1>2, <1>3, <1>4, StillSame DEF Quiet

\* The whole step.
LEMMA WalkSteps == WalkInv /\ [WalkNext]_walkVars => WalkInv' /\ (Quiet \/ PageOnly)
<1> SUFFICES ASSUME WalkInv, [WalkNext]_walkVars PROVE WalkInv' /\ (Quiet \/ PageOnly) OBVIOUS
<1>1. WalkTypes /\ ~Plain(walk.route)
  <2>1. WalkTypes /\ walk.route \in Merged BY DEF WalkInv, WalkTypes
  <2> QED BY <2>1 DEF Merged, Plain
<1>2. CASE AskPage BY <1>2, AskKeeps, AskQuiet
<1>3. CASE ReadFacts \/ ReadEvents \/ SearchEvents \/ ReadAuthors
  <2>1. PICK kind, pc : <<kind, pc>> \in Onward /\ kind \in {"fact", "event", "author"} /\ ReadTable(kind, pc)
    BY <1>3 DEF ReadFacts, ReadEvents, SearchEvents, ReadAuthors, Onward
  <2>2. WalkInv' BY <1>1, <2>1, TableKeeps
  <2> QED BY <1>3, <2>2, ReadQuiet
<1>4. CASE ReadKnowledge BY <1>4, KnowledgeKeeps, ReadQuiet
<1>5. CASE Merge
  <2>1. WalkInv' /\ PageShown BY <1>5, MergeKeeps
  <2>2. Still /\ owed' = owed BY <1>1, <1>5 DEF Merge, Still, WalkTypes
  <2> QED BY <2>1, <2>2 DEF PageOnly
<1>6. CASE ReadDeleted
  <2>1. WalkInv' /\ PageShown BY <1>6, DeletedKeeps
  <2>2. Still /\ owed' = owed BY <1>1, <1>6 DEF ReadDeleted, Still, WalkTypes
  <2> QED BY <2>1, <2>2 DEF PageOnly
<1>7. CASE Add \/ Hide \/ Show \/ Erase \/ Adopt \/ Touch
  <2>1. PICK i \in RowIds : \E r : Permitted(i, r) /\ Writes(i, r) BY <1>1, <1>7, WritesPermitted
  <2>2. PICK r : Permitted(i, r) /\ Writes(i, r) BY <2>1
  <2> QED BY <1>1, <2>2, WriteKeeps, WriteQuiet
<1>8. CASE Pass
  <2>1. Still /\ UNCHANGED <<walk, shown, owed>> BY <1>8 DEF Pass, Still
  <2> QED BY <1>8, <2>1, PassKeeps, StillSame DEF Quiet
<1>9. CASE UNCHANGED walkVars
  <2>1. Still /\ UNCHANGED <<rows, clock, writes, walk, shown, owed>> BY <1>9 DEF walkVars, Still
  <2>2. WalkTypes' /\ WalkShape' BY <2>1 DEF WalkInv, WalkTypes, RowTypes, WalkShape
  <2>3. Handler(walk.route)'.until = Handler(walk.route).until
    BY <2>1 DEF Handler, ListMemories, EventSearch, AuthorMemories, ListAuthors, ListDeleted, ListPlain, Span, Ago
  <2>4. WalkWindow' BY <2>1, <2>3, StillSame DEF WalkInv, WalkWindow
  <2>5. WalkShown' BY <2>1, StillSame DEF WalkInv, WalkShown, Pages, PagesDiffer
  <2>6. WalkUnion' BY <2>1, StillSame DEF WalkInv, WalkUnion, Fresh, Pages
  <2>7. \A i : ToCome(i)' <=> ToCome(i) BY <2>1, StillSame DEF ToCome, After, InHand, InFrontOf
  <2>8. WalkAhead' BY <2>1, <2>7, StillSame DEF WalkInv, WalkAhead, Pages
  <2> QED BY <2>1, <2>2, <2>4, <2>5, <2>6, <2>8, StillSame DEF WalkInv, Quiet
<1> QED BY <1>2, <1>3, <1>4, <1>5, <1>6, <1>7, <1>8, <1>9 DEF WalkNext, PageStep

\* The merged listings: whatever is written while a client follows next_cursor, no row
\* comes twice, and the last page comes only when every row that was there all along,
\* and is sure, has been shown (take_merged_page over the pages of the stores).
THEOREM WalkRefinesListing == Routes \subseteq Merged => (WalkSpec => ImplementsListing)
<1> SUFFICES ASSUME Routes \subseteq Merged PROVE WalkSpec => ImplementsListing OBVIOUS
<1>1. WalkInit => WalkInv /\ TheListing!Init
  <2> SUFFICES ASSUME WalkInit PROVE WalkInv /\ TheListing!Init OBVIOUS
  <2>1. WalkInv /\ walk.pc # "done" BY WalkStarts
  <2>2. shown = <<>> /\ {i \in owed : Sure(i)} \subseteq RowIds BY <2>1 DEF WalkInit
  <2> QED BY <2>1, <2>2 DEF TheListing!Init
<1>2. WalkInv /\ [WalkNext]_walkVars => WalkInv' /\ [TheListing!Next]_(TheListing!lvars)
  <2> SUFFICES ASSUME WalkInv, [WalkNext]_walkVars PROVE WalkInv' /\ [TheListing!Next]_(TheListing!lvars) OBVIOUS
  <2>1. WalkInv' /\ (Quiet \/ PageOnly) BY WalkSteps
  <2>2. CASE Quiet
    <3>1. {i \in owed : Sure(i)}' \subseteq {i \in owed : Sure(i)} BY <2>2 DEF Quiet
    <3>2. UNCHANGED <<shown, walk.pc = "done">> BY <2>2 DEF Quiet
    <3>3. TheListing!Forget BY <3>1, <3>2 DEF TheListing!Forget
    <3> QED BY <2>1, <3>3 DEF TheListing!Next
  <2>3. CASE PageOnly
    <3>1. {i \in owed : Sure(i)}' = {i \in owed : Sure(i)} BY <2>3, StillSame DEF PageOnly
    <3>2. TheListing!InPages(shown') = Pages' BY DEF TheListing!InPages, Pages
    <3>3. Pages' \subseteq RowIds /\ TheListing!Once(shown')
      BY <2>1 DEF WalkInv, WalkTypes, WalkShown, PagesDiffer, Pages, TheListing!Once
    <3>4. (walk.pc = "done")' => {i \in owed : Sure(i)}' \subseteq Pages' BY <2>3 DEF PageOnly, PageShown
    <3>5. ~(walk.pc = "done") /\ SubSeq(shown', 1, Len(shown)) = shown BY <2>3 DEF PageOnly, PageShown
    <3>6. TheListing!Page BY <3>1, <3>2, <3>3, <3>4, <3>5 DEF TheListing!Page
    <3> QED BY <2>1, <3>6 DEF TheListing!Next
  <2> QED BY <2>1, <2>2, <2>3
<1> QED BY <1>1, <1>2, PTL DEF WalkSpec, ImplementsListing, TheListing!Spec
================================================================================
