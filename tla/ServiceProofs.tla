---------------------------- MODULE ServiceProofs ---------------------------
(***************************************************************************)
(* What stands around the stores, for instances of any size.  Identities:  *)
(* a write is attributed under the name its request declared, a running    *)
(* service is never without identities, and a request is screened under    *)
(* one table.  Then connections and their slots; the statements that lock  *)
(* many rows and the walk they are part of; the backfill of authors; the   *)
(* health card; the events of the monitor; the repair of authors; what the *)
(* caller of a write is told of its size, and of what is wrong with it;    *)
(* and the chunker, which loses no character and offers no chunk that is   *)
(* too large.                                                              *)
(***************************************************************************)
EXTENDS Access, Limits, Decay, Backfill, Health, Watch, Repair, Embedding, Validation, Chunks,
        SequenceTheorems, FiniteSetTheorems, WellFoundedInduction, TLAPS

-----------------------------------------------------------------------------
(* Identities *)

\* What is bound to whom: every row has a scope, every author stands under the name.
Rightly(t) == \A n \in DOMAIN t : NameOf[t[n].author] = n /\ t[n].scopes # {}

\* The reload builds what it read, name by name.
Building ==
  reload.pc # "idle" =>
    /\ DOMAIN reload.cfg # {} /\ DOMAIN reload.cfg = DOMAIN reload.built \cup reload.todo
    /\ \A n \in DOMAIN reload.cfg : reload.cfg[n].scopes # {}
    /\ reload.pc = "insert" => reload.name \in reload.todo

\* A request under way has a row that was in force since it came.
Screened(q) ==
  /\ q.pc \in {"whois", "admitted"} =>
       q.grant \in q.could /\ q.name \in Names /\ q.grant \in Grants /\ NameOf[q.grant.author] = q.name
  /\ q.pc = "let" => NameOf[q.by] = q.name

Edits == [pc : {"idle", "edit", "short", "landed", "undo"}, text : Files, undo : Files]
Reloads == [pc : {"idle", "bind", "insert"}, cfg : Rowsets, todo : SUBSET Names, name : Names \cup {None},
            built : Bindings, last : {"none", "ok", "failed"}]

AccessInv ==
  /\ reload \in Reloads /\ edit \in [Writers -> Edits] /\ file \in Files
  /\ tables \in Bindings
  /\ authors \subseteq Authors
  /\ Rightly(reload.built) /\ Building
  /\ Rightly(tables) /\ DOMAIN tables # {}
  /\ \A r \in Requests : Screened(req[r])
-----------------------------------------------------------------------------
(* Tables as functions *)

\* No rows are rows, and bind nobody.
LEMMA EmptyRows == Empty \in Rowsets /\ Empty \in Bindings /\ DOMAIN Empty = {}
<1>1. Empty \in [{} -> Rows] /\ Empty \in [{} -> Grants] /\ {} \in SUBSET Names BY DEF Empty
<1> QED BY <1>1 DEF Rowsets, Bindings, Empty

\* A file of identities, as a function.
LEMMA RowsetIs == ASSUME NEW f \in Rowsets PROVE DOMAIN f \subseteq Names /\ f \in [DOMAIN f -> Rows]
BY DEF Rowsets

\* A table, as a function.
LEMMA BindingIs == ASSUME NEW t \in Bindings PROVE DOMAIN t \subseteq Names /\ t \in [DOMAIN t -> Grants]
BY DEF Bindings

\* A row taken out, put in or changed leaves a table of rows.
LEMMA ChangesAreRows == ASSUME NEW f \in Rowsets PROVE Changes(f) \subseteq Rowsets
<1>1. ASSUME NEW n \in DOMAIN f PROVE Without(f, n) \in Rowsets
  <2>1. Without(f, n) \in [DOMAIN f \ {n} -> Rows] /\ DOMAIN f \ {n} \in SUBSET Names BY RowsetIs DEF Without
  <2> QED BY <2>1 DEF Rowsets
<1>2. ASSUME NEW n \in Names, NEW stanza \in Rows PROVE With(f, n, stanza) \in Rowsets
  <2>1. With(f, n, stanza) \in [DOMAIN f \cup {n} -> Rows] /\ DOMAIN f \cup {n} \in SUBSET Names
    BY RowsetIs DEF With
  <2> QED BY <2>1 DEF Rowsets
<1> QED BY <1>1, <1>2, RowsetIs DEF Changes, Added, Removed, Rewritten, Rescoped, Repinned

\* A name bound rightly leaves a table bound rightly.
LEMMA WithBinding ==
  ASSUME NEW t \in Bindings, Rightly(t), NEW n \in Names, NEW g \in Grants, NameOf[g.author] = n, g.scopes # {}
  PROVE With(t, n, g) \in Bindings /\ DOMAIN With(t, n, g) = DOMAIN t \cup {n} /\ Rightly(With(t, n, g))
<1>1. With(t, n, g) \in [DOMAIN t \cup {n} -> Grants] /\ DOMAIN t \cup {n} \in SUBSET Names BY BindingIs DEF With
<1>2. \A m \in DOMAIN t \cup {n} : With(t, n, g)[m] = IF m = n THEN g ELSE t[m] BY DEF With
<1> QED BY <1>1, <1>2 DEF Bindings, Rightly

\* A task that sleeps builds nothing.
LEMMA Sleeping ==
  ASSUME NEW outcome \in {"none", "ok", "failed"}
  PROVE /\ Asleep(outcome) \in Reloads /\ Asleep(outcome).pc = "idle"
        /\ Rightly(Asleep(outcome).built)
<1>1. {} \in SUBSET Names /\ Empty \in Rowsets /\ Empty \in Bindings BY EmptyRows
<1>3. Rightly(Empty) BY EmptyRows DEF Rightly
<1>4. None \in Names \cup {None} OBVIOUS
<1> QED BY <1>1, <1>3, <1>4 DEF Reloads, Asleep

\* One that has read a file that boots has all of it to do.
LEMMA Beginning ==
  ASSUME NEW f \in Rowsets
  PROVE /\ Begun(f) \in Reloads /\ Begun(f).pc = "bind" /\ Begun(f).cfg = f /\ Begun(f).todo = DOMAIN f
        /\ Begun(f).built = Empty
<1>1. DOMAIN f \in SUBSET Names /\ Empty \in Bindings BY EmptyRows, RowsetIs
<1>2. None \in Names \cup {None} OBVIOUS
<1> QED BY <1>1, <1>2 DEF Reloads, Begun

-----------------------------------------------------------------------------
(* The steps *)

\* The table in force at first is the one of the file.
LEMMA AccessInit == Init => AccessInv
<1> SUFFICES ASSUME Init PROVE AccessInv OBVIOUS
<1> USE AccessAssumption
<1>1. file.rows \in Rowsets /\ ~Errors(file.rows) /\ DOMAIN file.rows \subseteq Names
  BY RowsetIs DEF Init, Boots, Files
<1>2. \A n \in Names : First(n) \in Authors /\ NameOf[First(n)] = n BY DEF First
<1>3. \A n \in DOMAIN file.rows : file.rows[n] \in Rows /\ file.rows[n].scopes # {}
  BY <1>1, RowsetIs DEF Errors
<1>4. \A n \in DOMAIN tables : tables[n] \in Grants /\ NameOf[tables[n].author] = n /\ tables[n].scopes # {}
  BY <1>1, <1>2, <1>3 DEF Init, Grants
<1>5. DOMAIN tables = DOMAIN file.rows /\ DOMAIN tables # {} BY <1>1 DEF Init, Errors
<1>6. tables \in [DOMAIN tables -> Grants] BY <1>4 DEF Init
<1>7. tables \in Bindings /\ Rightly(tables) BY <1>1, <1>4, <1>5, <1>6 DEF Bindings, Rightly
<1>8. /\ reload = Asleep("none") /\ authors = {First(n) : n \in DOMAIN file.rows}
      /\ edit = [w \in Writers |-> Closed] /\ req = [r \in Requests |-> Free]
  BY DEF Init
<1>9. authors \subseteq Authors BY <1>1, <1>2, <1>8
<1>10. reload \in Reloads /\ Rightly(reload.built) /\ reload.pc = "idle"
  BY <1>8, Sleeping
<1>11. Closed \in Edits /\ file \in Files BY EmptyRows DEF Closed, Blank, Edits, Files, Init
<1>12. Screened(Free) BY DEF Screened, Free
<1> QED BY <1>5, <1>7, <1>8, <1>9, <1>10, <1>11, <1>12 DEF AccessInv, Building

\* An edit of the file, finished, broken off or by hand, leaves the invariant.
LEMMA EditStepInv == ASSUME AccessInv, NEW w \in Writers, EditStep(w) \/ Interrupted(w) \/ ByHand PROVE AccessInv'
<1>1. UNCHANGED <<reload, tables, authors, req>>
  BY DEF EditStep, Interrupted, ByHand, ReadConfig, Truncate, Put, Validate, PutBack, reloadVars, authorVars
<1>2. Blank \in Files /\ Closed \in Edits BY EmptyRows DEF Blank, Files, Closed, Edits
<1>3. \A new \in Changes(file.rows) : [file EXCEPT !.rows = new] \in Files
  BY ChangesAreRows DEF AccessInv, Files
<1>4. file' \in Files /\ edit' \in [Writers -> Edits]
  <2> USE <1>2, <1>3 DEF AccessInv
  <2>1. CASE ReadConfig(w)
    <3>1. \A new \in Changes(file.rows) :
            [Closed EXCEPT !.pc = "edit", !.text = [file EXCEPT !.rows = new]] \in Edits
      BY DEF Edits
    <3> QED BY <2>1, <3>1 DEF ReadConfig
  <2>2. CASE Truncate(w) BY <2>2 DEF Truncate, Edits
  <2>3. CASE Put(w) BY <2>3 DEF Put, Edits
  <2>4. CASE Validate(w) BY <2>4 DEF Validate, Edits
  <2>5. CASE PutBack(w) BY <2>5 DEF PutBack, Edits
  <2>6. CASE Interrupted(w) BY <2>6 DEF Interrupted
  <2>7. CASE ByHand BY <2>7 DEF ByHand
  <2> QED BY <2>1, <2>2, <2>3, <2>4, <2>5, <2>6, <2>7 DEF EditStep
<1> QED BY <1>1, <1>4 DEF AccessInv, Building

\* What the reload does not touch when all it changes is itself and the authors.
Aside == UNCHANGED <<file, edit, tables, req>>
\* An identity is bound to an author that stands under its name.
LEMMA BoundInv ==
  ASSUME AccessInv, Aside, authors' \subseteq Authors, reload.pc # "idle", NEW n \in reload.todo,
         NEW u \in Authors, NameOf[u] = n, reload.pc = "insert" => n = reload.name,
         reload' = [Bound(n, u) EXCEPT !.pc = "bind", !.name = None]
           \/ (reload.pc = "bind" /\ reload' = Bound(n, u))
  PROVE AccessInv'
<1> DEFINE g == [scopes |-> reload.cfg[n].scopes, nodes |-> reload.cfg[n].nodes, author |-> u]
<1>1. n \in Names /\ n \in DOMAIN reload.cfg /\ reload.cfg[n] \in Rows /\ reload.cfg[n].scopes # {}
  <2>1. reload.cfg \in Rowsets /\ reload.todo \subseteq Names BY DEF AccessInv, Reloads
  <2>2. n \in DOMAIN reload.cfg /\ reload.cfg[n].scopes # {} BY DEF AccessInv, Building
  <2> QED BY <2>1, <2>2, RowsetIs
<1>2. g \in Grants BY <1>1, AccessAssumption DEF Grants
<1>3. /\ With(reload.built, n, g) \in Bindings /\ Rightly(With(reload.built, n, g))
      /\ DOMAIN With(reload.built, n, g) = DOMAIN reload.built \cup {n}
  <2>1. g.author = u /\ g.scopes = reload.cfg[n].scopes OBVIOUS
  <2>2. reload.built \in Bindings /\ Rightly(reload.built) BY DEF AccessInv, Reloads
  <2> HIDE DEF g
  <2> QED BY <1>1, <1>2, <2>1, <2>2, WithBinding
<1>4. /\ reload'.cfg = reload.cfg /\ reload'.todo = reload.todo \ {n} /\ reload'.pc = "bind"
      /\ reload'.built = With(reload.built, n, g) /\ reload' \in Reloads
  <2>1. Bound(n, u) = [reload EXCEPT !.todo = @ \ {n}, !.built = With(@, n, g)] BY DEF Bound
  <2>2. reload \in Reloads /\ With(reload.built, n, g) \in Bindings BY <1>3 DEF AccessInv
  <2> HIDE DEF g
  <2>3. Bound(n, u) \in Reloads /\ Bound(n, u).cfg = reload.cfg /\ Bound(n, u).todo = reload.todo \ {n}
        /\ Bound(n, u).built = With(reload.built, n, g) /\ Bound(n, u).pc = reload.pc
    <3> DEFINE built == With(reload.built, n, g)
               todo == reload.todo \ {n}
    <3>1. Bound(n, u) = [reload EXCEPT !.todo = todo, !.built = built] BY <2>1
    <3>2. built \in Bindings /\ todo \in SUBSET Names BY <2>2 DEF Reloads
    <3> HIDE DEF built, todo
    <3>3. Bound(n, u) \in Reloads /\ Bound(n, u).cfg = reload.cfg /\ Bound(n, u).todo = todo
          /\ Bound(n, u).built = built /\ Bound(n, u).pc = reload.pc
      BY <2>2, <3>1, <3>2 DEF Reloads
    <3> QED BY <3>3 DEF built, todo
  <2>4. CASE reload' = Bound(n, u) /\ reload.pc = "bind" BY <2>3, <2>4
  <2>5. CASE reload' = [Bound(n, u) EXCEPT !.pc = "bind", !.name = None] BY <2>3, <2>5 DEF Reloads
  <2> QED BY <2>4, <2>5
<1> HIDE DEF g
<1> QED BY <1>1, <1>3, <1>4 DEF AccessInv, Building, Aside

\* A reload binds one identity after the other, and is adopted whole or not at all.
LEMMA ReloadStepInv == ASSUME AccessInv, ReloadStep \/ ReloadFails \/ Signal PROVE AccessInv'
<1>1. CASE Reread
  <2>1. CASE Boots(file)
    <3>0. file.rows \in Rowsets BY DEF AccessInv, Files
    <3>1. /\ reload' \in Reloads /\ reload'.pc = "bind" /\ reload'.cfg = file.rows /\ reload'.todo = DOMAIN file.rows
          /\ reload'.built = Empty
      BY <1>1, <2>1, <3>0, Beginning DEF Reread
    <3>2. DOMAIN file.rows \subseteq Names /\ DOMAIN file.rows # {}
          /\ \A n \in DOMAIN file.rows : file.rows[n].scopes # {}
      BY <2>1, <3>0, RowsetIs DEF Boots, Errors
    <3>3. Aside /\ authors' = authors BY <1>1 DEF Reread, Aside, writerVars, authorVars
    <3> QED BY <3>1, <3>2, <3>3, EmptyRows DEF AccessInv, Building, Rightly, Aside
  <2>2. CASE ~Boots(file)
    BY <1>1, <2>2, Sleeping DEF Reread, AccessInv, Building, writerVars, authorVars
  <2> QED BY <2>1, <2>2
<1>2. CASE Swap
  <2>1. tables' = reload.built /\ DOMAIN reload.built # {} BY <1>2 DEF Swap, AccessInv, Building
  <2>2. UNCHANGED <<file, edit, authors>> /\ reload' = Asleep("ok")
    BY <1>2 DEF Swap, writerVars, authorVars
  <2>3. \A r \in Requests : Screened(req'[r])
    <3> SUFFICES ASSUME NEW r \in Requests PROVE Screened(req'[r]) OBVIOUS
    <3>1. CASE req[r].pc = "whois"
      <4>1. req'[r] = [req[r] EXCEPT !.could = @ \cup Entry(req[r].name)] BY <1>2, <3>1 DEF Swap
      <4>2. Screened(req[r]) BY DEF AccessInv
      <4>3. req[r].grant \in req[r].could BY <3>1, <4>2 DEF Screened
      <4> QED BY <3>1, <4>1, <4>2, <4>3 DEF Screened
    <3>2. CASE req[r].pc # "whois" BY <1>2, <3>2 DEF Swap, AccessInv
    <3> QED BY <3>1, <3>2
  <2>4. reload.built \in Bindings BY DEF AccessInv, Reloads
  <2> QED BY <2>1, <2>2, <2>3, <2>4, Sleeping DEF AccessInv, Building
<1>3. ASSUME NEW n \in Names, Bind(n) PROVE AccessInv'
  <2>1. PICK u \in Under(n) : reload' = Bound(n, u) BY <1>3 DEF Bind
  <2>2. u \in Authors /\ NameOf[u] = n BY <2>1 DEF Under, AccessInv
  <2>3. Aside /\ authors' = authors /\ reload.pc = "bind" /\ n \in reload.todo
    BY <1>3 DEF Bind, Aside, writerVars, authorVars
  <2> QED BY <2>1, <2>2, <2>3, BoundInv DEF AccessInv
<1>4. ASSUME NEW n \in Names, NotFound(n) PROVE AccessInv'
  BY <1>4 DEF NotFound, AccessInv, Building, Reloads, writerVars, authorVars
<1>5. ASSUME NEW n \in Names, Insert(n) PROVE AccessInv'
  <2>1. Fresh(n) \in Authors /\ NameOf[Fresh(n)] = n BY <1>5 DEF Insert, Fresh, Spare
  <2>2. /\ Aside /\ authors' = authors \cup {Fresh(n)} /\ reload.pc = "insert" /\ n = reload.name
        /\ reload' = [Bound(n, Fresh(n)) EXCEPT !.pc = "bind", !.name = None]
    BY <1>5 DEF Insert, Aside, writerVars
  <2>3. n \in reload.todo BY <2>2 DEF AccessInv, Building
  <2> QED BY <2>1, <2>2, <2>3, BoundInv DEF AccessInv
<1>6. CASE ReloadFails
  BY <1>6, Sleeping DEF ReloadFails, AccessInv, Building, writerVars, authorVars
<1>7. CASE Signal
  BY <1>7 DEF Signal, AccessInv, Building, writerVars, authorVars
<1> QED BY <1>1, <1>2, <1>3, <1>4, <1>5, <1>6, <1>7 DEF ReloadStep

\* Authors come and go without touching what is bound.
LEMMA AuthorsStepInv == ASSUME AccessInv, AuthorsChange PROVE AccessInv'
<1>1. authors' \subseteq Authors
  <2>1. \A n \in Names : Spare(n) # {} => Fresh(n) \in Authors BY DEF Fresh, Spare
  <2>2. \A n \in Names : Cardinality(Spare(n)) > 1 => Spare(n) # {} BY FS_EmptySet
  <2> QED BY <2>1, <2>2 DEF AuthorsChange, AccessInv
<1> QED BY <1>1 DEF AuthorsChange, AccessInv, Building, writerVars, reloadVars

\* A request is checked against one table, and writes under what it gave.
LEMMA RequestStepInv == ASSUME AccessInv, NEW r \in Requests, RequestStep(r) PROVE AccessInv'
<1>1. UNCHANGED <<file, edit, reload, tables, authors>>
  BY DEF RequestStep, Arrive, Whois, Screen, Handle, writerVars, reloadVars, authorVars
<1>2. Screened(req[r]) BY DEF AccessInv
<1>3. \A q \in Requests : Screened(req'[q])
  <2>0. Screened(Free) BY DEF Screened, Free
  <2>1. CASE Over(r) BY <2>0, <2>1 DEF Over, AccessInv
  <2>2. CASE Arrive(r)
    <3>1. PICK n \in DOMAIN tables : req' = [req EXCEPT ![r] = [Free EXCEPT !.pc = "whois", !.name = n,
                                       !.grant = tables[n], !.could = {tables[n]}]]
      BY <2>2 DEF Arrive
    <3>2. n \in Names /\ tables[n] \in Grants /\ NameOf[tables[n].author] = n
      BY BindingIs DEF AccessInv, Rightly
    <3>3. Screened([Free EXCEPT !.pc = "whois", !.name = n, !.grant = tables[n], !.could = {tables[n]}])
      BY <3>2 DEF Screened, Free
    <3> QED BY <3>1, <3>3 DEF AccessInv
  <2>3. ASSUME req[r].pc = "whois", req' = [req EXCEPT ![r].pc = "admitted"]
        PROVE \A q \in Requests : Screened(req'[q])
    <3>1. Screened([req[r] EXCEPT !.pc = "admitted"]) BY <1>2, <2>3 DEF Screened
    <3> QED BY <2>3, <3>1 DEF AccessInv
  <2>4. ASSUME req[r].pc = "admitted", NEW t \in Tools, NEW claim \in {None} \cup Authors, NEW window \in BOOLEAN,
               Lets(r, t, claim, window),
               req' = [req EXCEPT ![r] = [Free EXCEPT !.pc = "let", !.name = req[r].name, !.tool = t, !.window = window,
                        !.by = IF Pinned(t) /\ claim # None THEN claim ELSE req[r].grant.author]]
        PROVE \A q \in Requests : Screened(req'[q])
    <3> DEFINE by == IF Pinned(t) /\ claim # None THEN claim ELSE req[r].grant.author
    <3>1. by = req[r].grant.author BY <2>4 DEF Lets, MayClaim
    <3>2. NameOf[by] = req[r].name BY <1>2, <2>4, <3>1 DEF Screened
    <3>3. Screened([Free EXCEPT !.pc = "let", !.name = req[r].name, !.tool = t, !.window = window, !.by = by])
      <4> HIDE DEF by
      <4> QED BY <3>2 DEF Screened, Free
    <3> QED BY <2>4, <3>3 DEF AccessInv
  <2>5. CASE Whois(r) BY <2>1, <2>3, <2>5 DEF Whois
  <2>6. CASE Screen(r) BY <2>1, <2>4, <2>6 DEF Screen
  <2> QED BY <2>1, <2>2, <2>5, <2>6 DEF RequestStep, Handle
<1> QED BY <1>1, <1>3 DEF AccessInv, Building

\* Every step leaves the invariant.
LEMMA AccessStep == AccessInv /\ [Next]_vars => AccessInv'
<1> SUFFICES ASSUME AccessInv, [Next]_vars PROVE AccessInv' OBVIOUS
<1>1. CASE UNCHANGED vars BY <1>1 DEF vars, writerVars, reloadVars, authorVars, AccessInv, Building
<1>2. CASE ByHand
  <2>1. PICK w \in Writers : TRUE BY <1>2 DEF ByHand
  <2> QED BY <1>2, <2>1, EditStepInv
<1> QED BY <1>1, <1>2, EditStepInv, ReloadStepInv, AuthorsStepInv, RequestStepInv DEF Next

\* The inductive invariant, of every behaviour.
THEOREM AccessInvariance == Spec => []AccessInv
BY AccessInit, AccessStep, PTL DEF Spec

\* Nobody writes as somebody else: whatever is edited, merged or reloaded meanwhile, the
\* author of a write stands under the name its request declared.
THEOREM OwnNameOnly == Spec => []WrittenUnderOwnName
<1>1. AccessInv => WrittenUnderOwnName BY DEF AccessInv, WrittenUnderOwnName, Screened
<1> QED BY <1>1, AccessInvariance, PTL

\* A running service always has identities, each with a scope, whatever the file holds.
THEOREM NobodyLockedOut == Spec => []NeverLockedOut
<1>1. AccessInv => NeverLockedOut BY DEF AccessInv, NeverLockedOut, Errors, Rightly
<1> QED BY <1>1, AccessInvariance, PTL

\* The scopes, the pin and the author of a request are of one row that was in force.
THEOREM OneTableOnly == Spec => []OneTable
<1>1. AccessInv => OneTable BY DEF AccessInv, OneTable, Screened
<1> QED BY <1>1, AccessInvariance, PTL

-----------------------------------------------------------------------------
(* Connections *)

\* The map has entries of peers only, and none at zero.
Entries ==
  /\ DOMAIN count \subseteq Peers
  /\ count \in [DOMAIN count -> Nat \ {0}]

Tallied == \A p \in Peers : Held(p) = Cardinality(Of(p)) /\ Held(p) <= Cap

SlotsInv == conn \in [Conns -> {Shut} \cup Opened] /\ Entries /\ Tallied

\* The map's entries are counted as the property asks.
LEMMA EntriesCount == ASSUME SlotsInv, LimitsAssumption PROVE CountExact /\ LimitsTypeOK
<1>1. DOMAIN count \in SUBSET Peers /\ count \in [DOMAIN count -> Nat] BY DEF SlotsInv, Entries
<1> QED BY <1>1 DEF SlotsInv, Entries, Tallied, CountExact, LimitsTypeOK

\* A peer has finitely many connections.
LEMMA OfIsFinite ==
  ASSUME LimitsAssumption, NEW p
  PROVE  IsFiniteSet(Of(p)) /\ Cardinality(Of(p)) \in Nat /\ Of(p) \subseteq Conns
<1>1. Of(p) \in SUBSET Conns BY DEF Of, Established
<1> QED BY <1>1, FS_Subset, FS_CardinalityType DEF LimitsAssumption

\* A connection that stands has a peer.
LEMMA LiveIsOpened ==
  ASSUME SlotsInv, NEW c \in Established
  PROVE  c \in Conns /\ conn[c] \in Opened /\ conn[c].pc = "open" /\ conn[c].peer \in Peers
<1>1. c \in Conns /\ conn[c].pc = "open" BY DEF Established
<1>2. conn[c] # Shut BY <1>1 DEF Shut
<1>3. conn[c] \in Opened BY <1>1, <1>2 DEF SlotsInv
<1> QED BY <1>1, <1>3 DEF Opened

\* Traffic and the clock leave every connection with its peer.
LEMMA SameOf ==
  ASSUME \A c \in Conns : conn'[c].pc = conn[c].pc /\ (c \in Established => conn'[c].peer = conn[c].peer)
  PROVE  \A p : Of(p)' = Of(p)
BY DEF Of, Established

\* A step that opens and closes nothing leaves the slots right.
LEMMA SlotsStay ==
  ASSUME SlotsInv, UNCHANGED count, conn' \in [Conns -> {Shut} \cup Opened],
         \A c \in Conns : conn'[c].pc = conn[c].pc /\ (c \in Established => conn'[c].peer = conn[c].peer)
  PROVE  SlotsInv'
<1>1. \A p : Of(p)' = Of(p) BY SameOf
<1> QED BY <1>1 DEF SlotsInv, Entries, Tallied, Held

\* A connection is let in below the cap, and counted.
LEMMA AcceptStep ==
  ASSUME LimitsAssumption, SlotsInv, NEW c \in Conns, NEW p \in Peers, Accept(c, p) PROVE SlotsInv'
<1>1. Open(p) \in Opened /\ Open(p).pc = "open" /\ Open(p).peer = p BY DEF Open, Opened
<1>2. conn' \in [Conns -> {Shut} \cup Opened] BY <1>1 DEF SlotsInv, Accept
<1>3. Held(p) \in Nat BY DEF SlotsInv, Entries, Held
<1>4. /\ DOMAIN count' = DOMAIN count \cup {p}
      /\ \A q \in DOMAIN count' : count'[q] = IF q = p THEN Held(p) + 1 ELSE count[q]
      /\ count' = [q \in DOMAIN count' |-> count'[q]]
  BY DEF Accept, PutCount
<1>5. Entries' BY <1>3, <1>4 DEF SlotsInv, Entries
<1>6. c \notin Of(p) /\ Of(p)' = Of(p) \cup {c} BY <1>1 DEF Of, Established, Accept, SlotsInv
<1>7. \A q \in Peers \ {p} : Of(q)' = Of(q)
  BY <1>1 DEF Of, Established, Accept, SlotsInv
<1>8. Cardinality(Of(p)') = Cardinality(Of(p)) + 1 BY <1>6, OfIsFinite, FS_AddElement
<1>9. Held(p)' = Held(p) + 1 /\ \A q \in Peers \ {p} : Held(q)' = Held(q)
  BY <1>4 DEF Held
<1>10. Held(p) < Cap /\ Cap \in Nat BY DEF Accept, LimitsAssumption
<1>11. Held(p)' = Cardinality(Of(p)') /\ Held(p)' <= Cap
  BY <1>3, <1>8, <1>9, <1>10 DEF SlotsInv, Tallied
<1>12. Tallied' BY <1>7, <1>9, <1>11 DEF SlotsInv, Tallied
<1> QED BY <1>2, <1>5, <1>12 DEF SlotsInv

\* A connection gives its slot back when it ends, and the entry goes with the last.
LEMMA ReleaseStep ==
  ASSUME LimitsAssumption, SlotsInv, NEW c \in Conns, c \in Established,
         NEW p, p = conn[c].peer, Release(c)
  PROVE  SlotsInv'
<1>1. p \in Peers /\ c \in Of(p) BY LiveIsOpened DEF Of
<1>2. conn' \in [Conns -> {Shut} \cup Opened] BY DEF SlotsInv, Release
<1>3. Of(p)' = Of(p) \ {c} /\ \A q \in Peers \ {p} : Of(q)' = Of(q)
  <2>1. conn' = [conn EXCEPT ![c] = Shut] /\ Shut.pc = "none" BY DEF Release, Shut
  <2>2. \A k \in Conns : conn'[k] = IF k = c THEN Shut ELSE conn[k] BY <2>1 DEF SlotsInv
  <2>3. Established' = Established \ {c} BY <2>1, <2>2 DEF Established
  <2>4. \A k \in Established' : conn'[k] = conn[k] BY <2>2, <2>3 DEF Established
  <2>5. \A q : Of(q)' = {k \in Established \ {c} : conn[k].peer = q} BY <2>3, <2>4 DEF Of
  <2>6. \A q : Of(q) = {k \in Established : conn[k].peer = q} BY DEF Of
  <2>7. Of(p)' = Of(p) \ {c} BY <2>5, <2>6
  <2>8. \A q \in Peers \ {p} : Of(q)' = Of(q) BY <2>5, <2>6
  <2> QED BY <2>7, <2>8
<1>4. Cardinality(Of(p)') = Cardinality(Of(p)) - 1 
  <2>1. IsFiniteSet(Of(p)) BY OfIsFinite
  <2>2. Cardinality(Of(p) \ {c}) = Cardinality(Of(p)) - 1 BY <1>1, <2>1, FS_RemoveElement
  <2> QED BY <1>3, <2>2
<1>5. Cardinality(Of(p)) # 0 BY <1>1, OfIsFinite, FS_EmptySet
<1>6. Held(p) = Cardinality(Of(p)) /\ Held(p) <= Cap BY <1>1 DEF SlotsInv, Tallied
<1>7. p \in DOMAIN count /\ count[p] = Held(p) BY <1>5, <1>6 DEF Held
<1>8. /\ Entries' /\ Held(p)' = Held(p) - 1
      /\ \A q \in Peers \ {p} : Held(q)' = Held(q)
  <2>1. CASE count[p] = 1
    <3>1. count' = [q \in DOMAIN count \ {p} |-> count[q]] BY <2>1 DEF Release
    <3>2. DOMAIN count' = DOMAIN count \ {p} /\ \A q \in DOMAIN count' : count'[q] = count[q] BY <3>1
    <3>3. Entries' BY <3>1, <3>2 DEF SlotsInv, Entries
    <3> QED 
      <4>1. p \notin DOMAIN count' /\ Held(p)' = 0 BY <3>2 DEF Held
      <4>2. Held(p) - 1 = 0 BY <1>7, <2>1
      <4>3. \A q \in Peers \ {p} : Held(q)' = Held(q) BY <3>2 DEF Held
      <4> QED BY <3>3, <4>1, <4>2, <4>3
  <2>2. CASE count[p] # 1
    <3>1. count' = [count EXCEPT ![p] = @ - 1] BY <2>2 DEF Release
    <3>2. DOMAIN count' = DOMAIN count /\ count'[p] = count[p] - 1
          /\ \A q \in DOMAIN count \ {p} : count'[q] = count[q]
      BY <1>7, <3>1 DEF SlotsInv, Entries
    <3>3. count[p] - 1 \in Nat \ {0} BY <1>7, <2>2 DEF SlotsInv, Entries
    <3>4. Entries' BY <3>1, <3>3 DEF SlotsInv, Entries
    <3> QED 
      <4>1. Held(p)' = Held(p) - 1 BY <1>7, <3>2 DEF Held
      <4>2. \A q \in Peers \ {p} : Held(q)' = Held(q) BY <1>7, <3>2 DEF Held
      <4> QED BY <3>4, <4>1, <4>2
  <2> QED BY <2>1, <2>2
<1>9. Held(p)' = Cardinality(Of(p)') /\ Held(p)' <= Cap
  BY <1>4, <1>6, <1>8, OfIsFinite DEF LimitsAssumption
<1>10. Tallied'
  <2>1. ASSUME NEW q \in Peers \ {p} PROVE Held(q)' = Cardinality(Of(q)') /\ Held(q)' <= Cap
    BY <1>3, <1>8 DEF SlotsInv, Tallied
  <2> QED BY <1>9, <2>1 DEF Tallied
<1> QED BY <1>2, <1>8, <1>10 DEF SlotsInv

\* Accepting, serving and every way to end keep the slots right.
LEMMA SlotsStep == ASSUME LimitsAssumption, SlotsInv, [LimitsNext]_limitsVars PROVE SlotsInv'
<1>1. ASSUME NEW c \in Conns, NEW busy \in BOOLEAN, c \in Established, Heard(c, busy), UNCHANGED count
      PROVE  SlotsInv'
  <2> DEFINE new == [conn[c] EXCEPT !.busy = busy, !.quiet = 0, !.seen = 0]
  <2>1. new \in Opened /\ new.pc = conn[c].pc /\ new.peer = conn[c].peer
    BY <1>1, LiveIsOpened DEF Opened
  <2>2. conn' = [conn EXCEPT ![c] = new] BY <1>1 DEF Heard
  <2> HIDE DEF new
  <2>3. conn' \in [Conns -> {Shut} \cup Opened] BY <2>1, <2>2 DEF SlotsInv
  <2>4. \A k \in Conns : conn'[k].pc = conn[k].pc /\ conn'[k].peer = conn[k].peer
    BY <2>1, <2>2 DEF SlotsInv
  <2> QED BY <1>1, <2>3, <2>4, SlotsStay
<1>2. ASSUME NEW c \in Conns, Reads(c) \/ Sends(c, TRUE) \/ Sends(c, FALSE) PROVE SlotsInv'
  BY <1>1, <1>2 DEF Reads, Sends
<1>3. ASSUME NEW c \in Conns, Ends(c) \/ Watch(c) PROVE SlotsInv'
  BY <1>3, ReleaseStep DEF Ends, Watch, IsIdle
<1>4. ASSUME NEW c \in Conns, NEW p \in Peers, Accept(c, p) PROVE SlotsInv' BY <1>4, AcceptStep
<1>5. CASE Tick
  <2> DEFINE later(c) == [conn[c] EXCEPT !.quiet = @ + 1, !.seen = @ + 1]
  <2>1. conn' = [c \in Conns |-> IF c \in Established THEN later(c) ELSE conn[c]] /\ UNCHANGED count
    BY <1>5 DEF Tick
  <2>2. \A c \in Established : later(c) \in Opened /\ later(c).pc = conn[c].pc /\ later(c).peer = conn[c].peer
    <3> TAKE c \in Established
    <3>1. conn[c].busy \in BOOLEAN /\ conn[c].quiet + 1 \in Nat /\ conn[c].seen + 1 \in Nat
      BY LiveIsOpened DEF Opened
    <3> QED BY <3>1, LiveIsOpened DEF Opened
  <2> HIDE DEF later
  <2>3. conn' \in [Conns -> {Shut} \cup Opened] BY <2>1, <2>2 DEF SlotsInv
  <2>4. \A c \in Conns : conn'[c].pc = conn[c].pc /\ (c \in Established => conn'[c].peer = conn[c].peer)
    BY <2>1, <2>2
  <2> QED BY <2>1, <2>3, <2>4, SlotsStay
<1>6. CASE UNCHANGED limitsVars BY <1>6 DEF limitsVars, SlotsInv, Entries, Tallied, Held, Of, Established
<1> QED BY <1>2, <1>3, <1>4, <1>5, <1>6 DEF LimitsNext, ConnStep

\* There is no connection, and no entry.
LEMMA SlotsInit == ASSUME LimitsAssumption, LimitsInit PROVE SlotsInv
<1>1. conn \in [Conns -> {Shut} \cup Opened] BY DEF LimitsInit
<1>2. DOMAIN count = {} /\ Entries BY DEF LimitsInit, Entries
<1>3. \A p \in Peers : Of(p) = {} BY DEF LimitsInit, Of, Established, Shut
<1>4. \A p \in Peers : Held(p) = 0 BY <1>2 DEF Held
<1>5. 0 <= Cap BY DEF LimitsAssumption
<1>6. \A p \in Peers : Held(p) = Cardinality(Of(p)) /\ Held(p) <= Cap
  BY <1>3, <1>4, <1>5, FS_EmptySet
<1>7. Tallied BY <1>6 DEF Tallied
<1> QED BY <1>1, <1>2, <1>7 DEF SlotsInv

\* However connections are accepted, go quiet and end, the slots a peer holds are its
\* connections, at most the cap, and a peer without any is not in the map (try_acquire,
\* PerPeerPermit::drop).
THEOREM SlotsAreConnections ==
  ASSUME LimitsAssumption PROVE LimitsSpec => [](CountExact /\ LimitsTypeOK)
<1>1. LimitsInit => SlotsInv BY SlotsInit
<1>2. SlotsInv /\ [LimitsNext]_limitsVars => SlotsInv' BY SlotsStep
<1>3. SlotsInv => CountExact /\ LimitsTypeOK BY EntriesCount
<1> QED BY <1>1, <1>2, <1>3, PTL DEF LimitsSpec

-----------------------------------------------------------------------------
(* Statements that lock many rows *)

Rising(q) == \A i, j \in 1..Len(q) : i < j => q[i] < q[j]

\* A task's statement has locked only rows before those it still wants.
Upward(t) ==
  /\ Rising(stmt[t].want)
  /\ \A h \in stmt[t].held, i \in 1..Len(stmt[t].want) : h < stmt[t].want[i]

Ticks == [pc : {"asleep", "flush", "select", "apply"}, after : Nat, batch : SUBSET FactIds]
Statements == [held : SUBSET FactIds, want : Seq(FactIds)]

\* What a walk still owes lies beyond where it has come to.
Ahead(t) ==
  /\ due[t] \subseteq Live
  /\ tick[t].pc \in {"asleep", "flush"} => tick[t].after = 0 /\ due[t] = {}
  /\ tick[t].pc = "select" => \A f \in due[t] : f > tick[t].after
  /\ tick[t].pc = "apply" =>
       /\ \A f \in due[t] \ tick[t].batch, g \in tick[t].batch : f > g
       /\ Cardinality(tick[t].batch) < AtLeastOne(BatchSize) => due[t] \subseteq tick[t].batch

WalkTypes ==
  /\ stmt \in [Sessions -> Statements]
  /\ tick \in [Tasks -> Ticks]
  /\ due \in [Tasks -> SUBSET FactIds]
  /\ row \in [FactIds -> {"absent", "live", "hidden"}]
  /\ \A t \in Tasks : tick[t].pc = "apply" => tick[t].batch # {}

WalkInv ==
  /\ WalkTypes
  /\ \A t \in Tasks : Upward(t)
  /\ BatchSize <= Clamp => \A t \in Tasks : Ahead(t)

-----------------------------------------------------------------------------
(* Finite sets of ids *)

\* A set of numbers has a least, by the order of the naturals.
LEMMA LeastExists ==
  ASSUME NEW S \in SUBSET Nat, S # {}
  PROVE  \E n \in S : \A m \in S : n <= m
<1>1. PICK n \in S : \A m \in S : ~ (<<m, n>> \in OpToRel(<, Nat))
  BY NatLessThanWellFounded, WFMin
<1>2. ASSUME NEW m \in S PROVE n <= m
  <2>1. <<m, n>> \in Nat \X Nat /\ <<m, n>>[1] = m /\ <<m, n>>[2] = n OBVIOUS
  <2>2. ~ (m < n) BY <1>1, <2>1 DEF OpToRel
  <2> QED BY <2>2
<1> QED BY <1>2

\* A finite set of numbers has a greatest.
LEMMA GreatestExists ==
  ASSUME NEW S \in SUBSET Nat, IsFiniteSet(S), S # {}
  PROVE  \E n \in S : \A m \in S : m <= n
<1> DEFINE Topless(T) == T # {} /\ ~ \E n \in T : \A m \in T : m <= n
           bad == {n \in Nat : \E T \in SUBSET S : Cardinality(T) = n /\ Topless(T)}
<1>1. SUFFICES ASSUME Topless(S) PROVE FALSE OBVIOUS
<1>2. Cardinality(S) \in bad BY <1>1, FS_CardinalityType
<1>3. PICK n \in bad : \A m \in bad : n <= m
  <2>1. bad \in SUBSET Nat /\ bad # {} BY <1>2
  <2> HIDE DEF bad
  <2> QED BY <2>1, LeastExists
<1>4. PICK T \in SUBSET S : Cardinality(T) = n /\ Topless(T) BY <1>3
<1>5. PICK x \in T : TRUE BY <1>4
<1>6. IsFiniteSet(T) BY FS_Subset
<1>7. Cardinality(T \ {x}) = n - 1 /\ n - 1 \in Nat
  <2>1. n \in Nat /\ n # 0 BY <1>3, <1>4, <1>5, <1>6, FS_EmptySet
  <2>2. Cardinality(T \ {x}) = n - 1 BY <1>4, <1>5, <1>6, FS_RemoveElement
  <2> QED BY <2>1, <2>2
<1>8. ~Topless(T \ {x})
  <2>1. T \ {x} \in SUBSET S OBVIOUS
  <2>2. n \in Nat BY <1>3
  <2>3. n - 1 \notin bad BY <1>3, <1>7, <2>2
  <2> HIDE DEF Topless
  <2> QED BY <1>7, <2>1, <2>3
<1>9. CASE T \ {x} = {}
  <2>1. T = {x} BY <1>5, <1>9
  <2>2. x \in Nat BY <1>5
  <2>3. \A m \in T : m <= x BY <2>1, <2>2
  <2> QED BY <1>4, <1>5, <2>3
<1>10. CASE T \ {x} # {}
  <2>1. PICK y \in T \ {x} : \A m \in T \ {x} : m <= y BY <1>8, <1>10
  <2>2. \A m \in T : m <= (IF x <= y THEN y ELSE x) BY <1>5, <2>1
  <2> QED BY <1>4, <1>5, <2>1, <2>2
<1> QED BY <1>9, <1>10

\* The members of a finite set can be put in order.
LEMMA OrderExists ==
  ASSUME NEW S \in SUBSET Nat, IsFiniteSet(S)
  PROVE  \E q \in [1..Cardinality(S) -> S] :
           \A i, j \in 1..Cardinality(S) : i < j => q[i] < q[j]
<1> DEFINE Orderly(T) == \E q \in [1..Cardinality(T) -> T] :
                           \A i, j \in 1..Cardinality(T) : i < j => q[i] < q[j]
           bad == {n \in Nat : \E T \in SUBSET S : Cardinality(T) = n /\ ~Orderly(T)}
<1>1. SUFFICES ASSUME ~Orderly(S) PROVE FALSE OBVIOUS
<1>2. Cardinality(S) \in bad
  <2> HIDE DEF Orderly
  <2> QED BY <1>1, FS_CardinalityType
<1>3. PICK n \in bad : \A m \in bad : n <= m
  <2>1. bad \in SUBSET Nat /\ bad # {} BY <1>2
  <2> HIDE DEF bad
  <2> QED BY <2>1, LeastExists
<1>4. PICK T \in SUBSET S : Cardinality(T) = n /\ ~Orderly(T)
  <2> HIDE DEF Orderly
  <2> QED BY <1>3
<1>5. IsFiniteSet(T) BY FS_Subset
<1>6. T # {}
  <2> SUFFICES ASSUME T = {} PROVE FALSE OBVIOUS
  <2>1. Cardinality(T) = 0 BY FS_EmptySet
  <2>2. 1..Cardinality(T) = {} BY <2>1
  <2>3. [i \in {} |-> i] \in [1..Cardinality(T) -> T] BY <2>2
  <2> QED BY <1>4, <2>2, <2>3
<1>7. PICK x \in T : \A m \in T : x <= m
  <2>1. T \in SUBSET Nat OBVIOUS
  <2> QED BY <1>6, <2>1, LeastExists
<1>8. Cardinality(T \ {x}) = n - 1 /\ n - 1 \in Nat
  BY <1>4, <1>5, <1>6, FS_RemoveElement, FS_Subset, FS_CardinalityType, FS_EmptySet
<1>9. Orderly(T \ {x})
  <2>1. T \ {x} \in SUBSET S OBVIOUS
  <2>2. n \in Nat BY <1>3
  <2>3. n - 1 \notin bad BY <1>3, <1>8, <2>2
  <2> HIDE DEF Orderly
  <2> QED BY <1>8, <2>1, <2>3
<1>10. PICK q \in [1..(n - 1) -> T \ {x}] : \A i, j \in 1..(n - 1) : i < j => q[i] < q[j]
  BY <1>8, <1>9
<1> DEFINE r == [i \in 1..n |-> IF i = 1 THEN x ELSE q[i - 1]]
<1>11. \A i \in 1..n : i # 1 => i - 1 \in 1..(n - 1) BY <1>8
<1>12. r \in [1..n -> T] BY <1>10, <1>11
<1>13. \A m \in T \ {x} : x < m BY <1>7
<1>14. ASSUME NEW i \in 1..n, NEW j \in 1..n, i < j PROVE r[i] < r[j]
  <2>1. j # 1 /\ j - 1 \in 1..(n - 1) /\ r[j] = q[j - 1] BY <1>11, <1>14
  <2>2. CASE i = 1 BY <1>10, <1>13, <2>1, <2>2
  <2>3. CASE i # 1
    <3>1. i - 1 \in 1..(n - 1) /\ r[i] = q[i - 1] /\ i - 1 < j - 1 BY <1>11, <1>14, <2>3
    <3> QED BY <1>10, <2>1, <3>1
  <2> QED BY <2>2, <2>3
<1> QED BY <1>4, <1>12, <1>14

\* What a task's statement wants is its rows, from the lowest id up.
LEMMA InOrderRises ==
  ASSUME NEW S \in SUBSET FactIds, DecayAssumption
  PROVE  InOrder(S) \in Seq(FactIds) /\ Rising(InOrder(S))
<1> DEFINE n == Cardinality(S)
           D == 1..n
<1>1. S \in SUBSET Nat /\ IsFiniteSet(S) /\ n \in Nat
  BY FS_Subset, FS_CardinalityType DEF DecayAssumption
<1>2. PICK q \in [D -> S] : \A i, j \in D : i < j => q[i] < q[j] BY <1>1, OrderExists
<1>3. \A r \in [D -> S] : r \in Seq(FactIds) /\ Len(r) = n
  <2> TAKE r \in [D -> S]
  <2>1. r \in Seq(S) BY <1>1, SeqDef
  <2>2. D = 1..Len(r) /\ Len(r) \in Nat BY <2>1, LenProperties
  <2>3. Len(r) = n BY <1>1, <2>2
  <2> QED BY <2>1, <2>3, SeqMonotonic
<1>4. \A i, j \in D : i # j => q[i] # q[j]
  <2> SUFFICES ASSUME NEW i \in D, NEW j \in D, i # j PROVE q[i] # q[j] OBVIOUS
  <2>1. i < j \/ j < i BY <1>1
  <2>2. q[i] \in Nat /\ q[j] \in Nat BY <1>1, <1>2
  <2> QED BY <1>2, <2>1, <2>2
<1>5. q \in SetToSeqs(S) /\ Rising(q) BY <1>2, <1>3, <1>4 DEF SetToSeqs, Rising
<1>6. InOrder(S) = CHOOSE r \in SetToSeqs(S) : Rising(r) BY DEF InOrder, Rising
<1>7. InOrder(S) \in SetToSeqs(S) /\ Rising(InOrder(S)) BY <1>5, <1>6
<1>8. InOrder(S) \in [D -> S] BY <1>7 DEF SetToSeqs
<1> QED BY <1>3, <1>7, <1>8

\* A select asks for at least one row, and for a batch if the clamp leaves it alone.
LEMMA LimitIs ==
  ASSUME DecayAssumption
  PROVE  /\ Limit \in Nat \ {0}
         /\ BatchSize <= Clamp => Limit = AtLeastOne(BatchSize)
BY DEF DecayAssumption, Limit, AtLeastOne

\* What the select hands out are the first rows, and all of them if it is fewer than asked.
LEMMA FirstOfIs ==
  ASSUME DecayAssumption, NEW S \in SUBSET FactIds
  PROVE  /\ FirstOf(S) \subseteq S
         /\ \A f \in S \ FirstOf(S), g \in FirstOf(S) : f > g
         /\ Cardinality(FirstOf(S)) < Limit => FirstOf(S) = S
<1> DEFINE below(f) == {g \in S : g < f}
<1>1. S \subseteq Nat /\ IsFiniteSet(S) BY FS_Subset DEF DecayAssumption
<1>2. \A f \in S : IsFiniteSet(below(f)) /\ Cardinality(below(f)) \in Nat
  <2> TAKE f \in S
  <2>1. below(f) \in SUBSET S OBVIOUS
  <2> QED BY <1>1, <2>1, FS_Subset, FS_CardinalityType
<1>3. \A f \in S : f \in FirstOf(S) <=> Cardinality(below(f)) < Limit BY DEF FirstOf
<1>4. FirstOf(S) \subseteq S BY DEF FirstOf
<1>5. ASSUME NEW f \in S \ FirstOf(S), NEW g \in FirstOf(S) PROVE f > g
  <2>1. f \in S /\ g \in S /\ f \in Nat /\ g \in Nat BY <1>1, <1>4
  <2>2. ASSUME f <= g PROVE FALSE
    <3>1. \A e \in S : e \in Nat /\ (e < f => e < g) BY <1>1, <2>1, <2>2
    <3>2. below(f) \in SUBSET below(g) BY <3>1
    <3>3. Cardinality(below(f)) <= Cardinality(below(g)) BY <1>2, <2>1, <3>2, FS_Subset
    <3>4. Cardinality(below(g)) < Limit /\ ~ (Cardinality(below(f)) < Limit) BY <1>3, <2>1
    <3> HIDE DEF below
    <3> QED BY <1>2, <2>1, <3>3, <3>4, LimitIs
  <2> QED BY <2>1, <2>2
<1>6. ASSUME S # FirstOf(S) PROVE ~ (Cardinality(FirstOf(S)) < Limit)
  <2>1. PICK f \in S \ FirstOf(S) : \A g \in S \ FirstOf(S) : f <= g
    <3>1. S \ FirstOf(S) \in SUBSET Nat /\ S \ FirstOf(S) # {} BY <1>1, <1>4, <1>6
    <3> QED BY <3>1, LeastExists
  <2>2. below(f) \in SUBSET FirstOf(S)
    <3>1. ASSUME NEW e \in S, e < f PROVE e \in FirstOf(S)
      <4>1. e \in Nat /\ f \in Nat BY <1>1
      <4> QED BY <2>1, <3>1, <4>1
    <3> QED BY <3>1
  <2>3. IsFiniteSet(FirstOf(S)) BY <1>1, <1>4, FS_Subset
  <2>4. Cardinality(below(f)) <= Cardinality(FirstOf(S)) /\ Cardinality(FirstOf(S)) \in Nat
    BY <2>2, <2>3, FS_Subset, FS_CardinalityType
  <2>5. ~ (Cardinality(below(f)) < Limit) BY <1>3, <2>1
  <2> QED BY <1>2, <2>1, <2>4, <2>5, LimitIs
<1> QED BY <1>4, <1>5, <1>6

-----------------------------------------------------------------------------
(* No ring of tasks *)

\* Who waits for a row of who waits has a lower row: there is no ring.
LEMMA UpwardNoRing ==
  ASSUME DecayAssumption, WalkTypes, \A t \in Tasks : Upward(t)
  PROVE  OrderedNeverDeadlock
<1> SUFFICES ASSUME NEW S \in SUBSET Tasks, Ring(S) PROVE FALSE BY DEF OrderedNeverDeadlock
<1> DEFINE sought == {f \in FactIds : \E s \in S : f = Wanted(s)}
<1>1. ASSUME NEW s \in S
      PROVE  /\ Wanted(s) \in FactIds
             /\ 1 \in 1..Len(stmt[s].want) /\ stmt[s].want[1] = Wanted(s)
  <2>1. stmt[s].want \in Seq(FactIds) /\ stmt[s].want # <<>>
    BY DEF WalkTypes, Sessions, Statements, Ring, Asks
  <2> QED BY <2>1, HeadTailProperties, EmptySeq DEF Wanted
<1>2. sought \in SUBSET Nat /\ IsFiniteSet(sought) BY FS_Subset DEF DecayAssumption
<1>3. sought # {} BY <1>1 DEF Ring
<1>4. PICK top \in sought : \A f \in sought : f <= top
  <2> HIDE DEF sought
  <2> QED BY <1>2, <1>3, GreatestExists
<1>5. PICK s \in S : top = Wanted(s) BY <1>4
<1>6. PICK u \in S : top \in stmt[u].held BY <1>5 DEF Ring, HeldBy
<1>7. top < Wanted(u) BY <1>1, <1>6 DEF Upward
<1>8. Wanted(u) \in sought BY <1>1
<1> QED BY <1>2, <1>4, <1>7, <1>8

-----------------------------------------------------------------------------
(* Statements *)

\* What a statement wants, has and is for.
LEMMA StatementsAre ==
  ASSUME NEW s \in Sessions, NEW w \in Seq(FactIds), NEW held \in SUBSET FactIds,
         stmt \in [Sessions -> Statements],
         stmt' = [stmt EXCEPT ![s] = [held |-> held, want |-> w]]
  PROVE  /\ stmt' \in [Sessions -> Statements]
         /\ stmt'[s].want = w /\ stmt'[s].held = held
         /\ \A u \in Sessions \ {s} : stmt'[u] = stmt[u]
<1>1. [held |-> held, want |-> w] \in Statements BY DEF Statements
<1> QED BY <1>1

\* A statement that ended has nothing and wants nothing.
LEMMA EndedIs ==
  ASSUME NEW s \in Sessions, stmt \in [Sessions -> Statements],
         \A t \in Tasks : Upward(t), Ended(s)
  PROVE  stmt' \in [Sessions -> Statements] /\ \A t \in Tasks : Upward(t)'
<1>1. <<>> \in Seq(FactIds) /\ Len(<<>>) = 0 BY EmptySeq
<1>2. stmt' = [stmt EXCEPT ![s] = [held |-> {}, want |-> <<>>]] BY DEF Ended, NoStatement
<1>3. /\ stmt' \in [Sessions -> Statements]
      /\ stmt'[s].want = <<>> /\ stmt'[s].held = {}
      /\ \A u \in Sessions \ {s} : stmt'[u] = stmt[u]
  <2>1. {} \in SUBSET FactIds OBVIOUS
  <2> QED BY <1>1, <1>2, <2>1, StatementsAre
<1> QED BY <1>1, <1>3 DEF Upward, Rising, Sessions

\* A statement begins with its rows in order and none of them locked.
LEMMA IssuedIs ==
  ASSUME NEW s \in Sessions, NEW w \in Seq(FactIds), stmt \in [Sessions -> Statements],
         \A t \in Tasks : Upward(t), Issued(s, w), s \in Tasks => Rising(w)
  PROVE  stmt' \in [Sessions -> Statements] /\ \A t \in Tasks : Upward(t)'
<1>1. stmt' = [stmt EXCEPT ![s] = [held |-> {}, want |-> w]] BY DEF Issued
<1>2. /\ stmt' \in [Sessions -> Statements]
      /\ stmt'[s].want = w /\ stmt'[s].held = {}
      /\ \A u \in Sessions \ {s} : stmt'[u] = stmt[u]
  <2>1. {} \in SUBSET FactIds OBVIOUS
  <2> QED BY <1>1, <2>1, StatementsAre
<1> QED BY <1>2 DEF Upward, Sessions

\* A statement that locks its next row has it, and the rest to go.
LEMMA LockIs ==
  ASSUME DecayAssumption, NEW s \in Sessions, stmt \in [Sessions -> Statements],
         \A t \in Tasks : Upward(t), Lock(s)
  PROVE  stmt' \in [Sessions -> Statements] /\ \A t \in Tasks : Upward(t)'
<1> DEFINE w == stmt[s].want
           more == IF row[Wanted(s)] = "absent" THEN stmt[s].held
                   ELSE stmt[s].held \cup {Wanted(s)}
<1>1. w \in Seq(FactIds) /\ w # <<>> /\ stmt[s].held \in SUBSET FactIds
  BY DEF Lock, Asks, Statements
<1>2. /\ Head(w) = w[1] /\ Head(w) \in FactIds /\ Tail(w) \in Seq(FactIds)
      /\ Len(Tail(w)) = Len(w) - 1 /\ Len(w) \in Nat \ {0}
      /\ \A i \in 1..Len(w) - 1 : Tail(w)[i] = w[i + 1]
  BY <1>1, HeadTailProperties, EmptySeq
<1>3. more \in SUBSET FactIds /\ more \subseteq stmt[s].held \cup {w[1]} BY <1>1, <1>2 DEF Wanted
<1>4. stmt' = [stmt EXCEPT ![s] = [held |-> more, want |-> Tail(w)]]
  <2>1. stmt' = [stmt EXCEPT ![s] = [stmt[s] EXCEPT !.want = Tail(w), !.held = more]]
    BY DEF Lock
  <2>2. stmt[s] \in Statements OBVIOUS
  <2> HIDE DEF more, w
  <2>3. [stmt[s] EXCEPT !.want = Tail(w), !.held = more] = [held |-> more, want |-> Tail(w)]
    <3>1. stmt[s] = [held |-> stmt[s].held, want |-> stmt[s].want] BY <2>2 DEF Statements
    <3> DEFINE e == [stmt[s] EXCEPT !.want = Tail(w), !.held = more]
    <3>2. DOMAIN stmt[s] = {"held", "want"} BY <3>1
    <3>3. DOMAIN e = {"held", "want"} /\ e.held = more /\ e.want = Tail(w) BY <3>2
    <3>4. e = [x \in {"held", "want"} |-> e[x]] BY <3>2
    <3> HIDE DEF e
    <3>5. e = [held |-> more, want |-> Tail(w)] BY <3>3, <3>4
    <3> QED BY <3>5 DEF e
  <2> QED BY <2>1, <2>3
<1>5. /\ stmt' \in [Sessions -> Statements]
      /\ stmt'[s].want = Tail(w) /\ stmt'[s].held = more
      /\ \A u \in Sessions \ {s} : stmt'[u] = stmt[u]
  <2> HIDE DEF more, w
  <2> QED BY <1>2, <1>3, <1>4, StatementsAre
<1>6. ASSUME s \in Tasks PROVE Upward(s)'
  <2>1. Rising(w) /\ \A h \in stmt[s].held, i \in 1..Len(w) : h < w[i] BY <1>6 DEF Upward
  <2>2. \A i \in 1..Len(Tail(w)) : i + 1 \in 1..Len(w) /\ 1 < i + 1 /\ Tail(w)[i] = w[i + 1] BY <1>2
  <2>3. Rising(Tail(w))
    <3> SUFFICES ASSUME NEW i \in 1..Len(Tail(w)), NEW j \in 1..Len(Tail(w)), i < j
                 PROVE  Tail(w)[i] < Tail(w)[j]
      BY DEF Rising
    <3>1. i + 1 < j + 1 BY <1>2
    <3> QED BY <2>1, <2>2, <3>1 DEF Rising
  <2>4. 1 \in 1..Len(w) BY <1>2
  <2>5. \A i \in 1..Len(Tail(w)) : w[1] < Tail(w)[i] BY <2>1, <2>2, <2>4 DEF Rising
  <2>6. \A h \in more, i \in 1..Len(Tail(w)) : h < Tail(w)[i] BY <1>3, <2>1, <2>2, <2>5
  <2> QED BY <1>5, <2>3, <2>6 DEF Upward
<1>7. \A t \in Tasks \ {s} : Upward(t)' BY <1>5 DEF Upward, Sessions
<1> QED BY <1>5, <1>6, <1>7

\* Any order of a set of rows is a sequence of rows.
LEMMA SeqsAre ==
  ASSUME DecayAssumption, NEW S \in SUBSET FactIds, NEW q \in SetToSeqs(S)
  PROVE  q \in Seq(FactIds)
<1>1. Cardinality(S) \in Nat BY FS_Subset, FS_CardinalityType DEF DecayAssumption
<1>2. q \in [1..Cardinality(S) -> S] BY DEF SetToSeqs
<1>3. q \in Seq(S) BY <1>1, <1>2, SeqDef
<1> QED BY <1>3, SeqMonotonic

\* Every step of a session leaves the statements of tasks in order.
LEMMA UpwardStep ==
  ASSUME DecayAssumption, stmt \in [Sessions -> Statements], \A t \in Tasks : Upward(t), [DecayNext]_decayVars
  PROVE  stmt' \in [Sessions -> Statements] /\ \A t \in Tasks : Upward(t)'
<1> DEFINE Goal == stmt' \in [Sessions -> Statements] /\ \A t \in Tasks : Upward(t)'
<1>1. ASSUME NEW t \in Tasks, Flush(t) PROVE Goal
  <2>1. PICK hits \in SUBSET Live : Issued(t, InOrder(hits)) BY <1>1 DEF Flush
  <2>2. InOrder(hits) \in Seq(FactIds) /\ Rising(InOrder(hits)) BY <2>1, InOrderRises DEF Live
  <2> QED BY <2>1, <2>2, IssuedIs DEF Sessions
<1>2. ASSUME NEW t \in Tasks, Select(t) PROVE Goal
  <2>1. CASE UNCHANGED stmt BY <2>1 DEF Upward
  <2>2. CASE Issued(t, InOrder(Batch(t)))
    <3>1. Batch(t) \in SUBSET FactIds BY DEF Batch, FirstOf, Live
    <3>2. InOrder(Batch(t)) \in Seq(FactIds) /\ Rising(InOrder(Batch(t))) BY <3>1, InOrderRises
    <3> QED BY <2>2, <3>2, IssuedIs DEF Sessions
  <2> QED BY <1>2, <2>1, <2>2 DEF Select
<1>3. ASSUME NEW s \in Sessions, Ended(s) PROVE Goal BY <1>3, EndedIs
<1>4. ASSUME NEW m \in Movers, Move(m) PROVE Goal
  <2>1. PICK S \in SUBSET FactIds : \E w \in SetToSeqs(S) : Issued(m, w)
    BY <1>4 DEF Move, Standing
  <2>2. PICK w \in SetToSeqs(S) : Issued(m, w) BY <2>1
  <2>3. w \in Seq(FactIds) BY SeqsAre
  <2> QED BY <2>2, <2>3, IssuedIs DEF Sessions, DecayAssumption
<1>5. ASSUME NEW s \in Sessions, Lock(s) PROVE Goal BY <1>5, LockIs
<1>6. ASSUME UNCHANGED stmt PROVE Goal BY <1>6 DEF Upward
<1> SUFFICES Goal OBVIOUS
<1> HIDE DEF Goal
<1>7. CASE \E t \in Tasks : Flush(t) \/ Flushed(t) \/ Select(t) \/ ApplyBatch(t)
  BY <1>1, <1>2, <1>3, <1>7 DEF Flushed, ApplyBatch, Sessions
<1>8. CASE \E m \in Movers : Move(m) \/ Moved(m) BY <1>3, <1>4, <1>8 DEF Moved, Sessions
<1>9. CASE \E s \in Sessions : Lock(s) \/ Victim(s) BY <1>3, <1>5, <1>9 DEF Victim
<1>10. CASE \E f \in FactIds, state \in {"absent", "live", "hidden"} : RowChange(f, state)
  BY <1>6, <1>10 DEF RowChange
<1>11. CASE UNCHANGED decayVars BY <1>6, <1>11 DEF decayVars
<1> QED BY <1>7, <1>8, <1>9, <1>10, <1>11 DEF DecayNext

-----------------------------------------------------------------------------
(* Walks *)

WalksRight == BatchSize <= Clamp => \A t \in Tasks : Ahead(t)

\* A task goes on with its walk; the rows and the other walks stay as they are.
LEMMA TaskMoves ==
  ASSUME WalkTypes, WalksRight, NEW t \in Tasks, NEW new \in Ticks, NEW owed \in SUBSET FactIds,
         tick' = [tick EXCEPT ![t] = new], due' = [due EXCEPT ![t] = owed], row' = row,
         stmt' \in [Sessions -> Statements],
         new.pc = "apply" => new.batch # {},
         BatchSize <= Clamp =>
           /\ owed \subseteq Live
           /\ new.pc \in {"asleep", "flush"} => new.after = 0 /\ owed = {}
           /\ new.pc = "select" => \A f \in owed : f > new.after
           /\ new.pc = "apply" =>
                /\ \A f \in owed \ new.batch, g \in new.batch : f > g
                /\ Cardinality(new.batch) < AtLeastOne(BatchSize) => owed \subseteq new.batch
  PROVE  WalkTypes' /\ WalksRight'
<1>1. /\ tick' \in [Tasks -> Ticks] /\ tick'[t] = new
      /\ \A u \in Tasks \ {t} : tick'[u] = tick[u]
  BY DEF WalkTypes
<1>2. /\ due' \in [Tasks -> SUBSET FactIds] /\ due'[t] = owed
      /\ \A u \in Tasks \ {t} : due'[u] = due[u]
  BY DEF WalkTypes
<1>3. WalkTypes' BY <1>1, <1>2 DEF WalkTypes
<1>4. Live' = Live BY DEF Live
<1>5. ASSUME BatchSize <= Clamp PROVE \A u \in Tasks : Ahead(u)'
  <2>1. Ahead(t)' BY <1>1, <1>2, <1>4, <1>5 DEF Ahead
  <2>2. \A u \in Tasks \ {t} : Ahead(u)' BY <1>1, <1>2, <1>4, <1>5 DEF Ahead, WalksRight
  <2> QED BY <2>1, <2>2
<1> QED BY <1>3, <1>5 DEF WalksRight

\* A tick that goes on keeps its place in the walk.
LEMMA TicksAre ==
  ASSUME NEW t \in Tasks, WalkTypes, NEW pc \in {"asleep", "flush", "select", "apply"}
  PROVE  LET new == [tick[t] EXCEPT !.pc = pc] IN
         /\ new \in Ticks /\ new.pc = pc
         /\ new.after = tick[t].after /\ new.batch = tick[t].batch
BY DEF WalkTypes, Ticks

\* A task that sleeps is at no place.
LEMMA AsleepIs == TaskAsleep \in Ticks /\ TaskAsleep.pc = "asleep" /\ TaskAsleep.after = 0 /\ TaskAsleep.batch = {}
BY DEF TaskAsleep, Ticks

\* The flush of the bumps leaves the walk alone.
LEMMA FlushStep ==
  ASSUME WalkTypes, WalksRight, NEW t \in Tasks, Flush(t), stmt' \in [Sessions -> Statements]
  PROVE  WalkTypes' /\ WalksRight'
<1> DEFINE new == [tick[t] EXCEPT !.pc = "flush"]
<1>1. new \in Ticks /\ new.pc = "flush" /\ new.after = tick[t].after BY TicksAre
<1>2. tick' = [tick EXCEPT ![t] = new] /\ due' = [due EXCEPT ![t] = due[t]] /\ row' = row
  BY DEF Flush, WalkTypes
<1>3. due[t] \in SUBSET FactIds /\ tick[t].pc = "asleep" BY DEF WalkTypes, Flush
<1>4. BatchSize <= Clamp => tick[t].after = 0 /\ due[t] = {} /\ due[t] \subseteq Live
  BY <1>3 DEF WalksRight, Ahead
<1> HIDE DEF new
<1> QED BY <1>1, <1>2, <1>3, <1>4, TaskMoves

\* The walk begins, after the flush or without it.
LEMMA WalkBegins ==
  ASSUME DecayAssumption, WalkTypes, WalksRight, NEW t \in Tasks, tick[t].pc = "flush",
         tick' = [tick EXCEPT ![t] = [tick[t] EXCEPT !.pc = "select"]],
         due' = [due EXCEPT ![t] = Live], row' = row, stmt' \in [Sessions -> Statements]
  PROVE  WalkTypes' /\ WalksRight'
<1> DEFINE new == [tick[t] EXCEPT !.pc = "select"]
<1>1. new \in Ticks /\ new.pc = "select" /\ new.after = tick[t].after BY TicksAre
<1>2. BatchSize <= Clamp => tick[t].after = 0 BY DEF WalksRight, Ahead
<1>3. Live \in SUBSET FactIds /\ \A f \in Live : f > 0 BY DEF Live, DecayAssumption
<1>4. tick' = [tick EXCEPT ![t] = new] OBVIOUS
<1> HIDE DEF new
<1>5. BatchSize <= Clamp =>
        /\ Live \subseteq Live
        /\ new.pc \in {"asleep", "flush"} => new.after = 0 /\ Live = {}
        /\ new.pc = "select" => \A f \in Live : f > new.after
        /\ new.pc # "apply"
  BY <1>1, <1>2, <1>3
<1> QED BY <1>1, <1>3, <1>4, <1>5, TaskMoves

\* A select takes the first rows after the last batch, or ends the walk.
LEMMA SelectStep ==
  ASSUME DecayAssumption, WalkTypes, WalksRight, NEW t \in Tasks, Select(t),
         stmt' \in [Sessions -> Statements]
  PROVE  WalkTypes' /\ WalksRight'
<1> DEFINE rest == {f \in Live : f > tick[t].after}
<1>1. rest \in SUBSET FactIds /\ Batch(t) = FirstOf(rest) BY DEF Live, Batch
<1>2. /\ Batch(t) \subseteq rest
      /\ \A f \in rest \ Batch(t), g \in Batch(t) : f > g
      /\ Cardinality(Batch(t)) < Limit => Batch(t) = rest
  <2> HIDE DEF rest
  <2> QED BY <1>1, FirstOfIs
<1>3. due' = [due EXCEPT ![t] = due[t]] /\ due[t] \in SUBSET FactIds /\ row' = row
  BY DEF Select, WalkTypes
<1>4. BatchSize <= Clamp => due[t] \subseteq rest /\ due[t] \subseteq Live
  BY DEF Select, WalksRight, Ahead
<1>5. CASE Batch(t) = {}
  <2>1. tick' = [tick EXCEPT ![t] = TaskAsleep] BY <1>5 DEF Select
  <2>2. Batch(t) = rest BY <1>2, <1>5, LimitIs, FS_EmptySet
  <2>3. BatchSize <= Clamp => due[t] = {} BY <1>4, <1>5, <2>2
  <2> HIDE DEF rest
  <2> QED BY <1>3, <1>4, <2>1, <2>3, AsleepIs, TaskMoves
<1>6. CASE Batch(t) # {}
  <2> DEFINE new == [tick[t] EXCEPT !.pc = "apply", !.batch = Batch(t)]
  <2>1. new \in Ticks /\ new.pc = "apply" /\ new.batch = Batch(t)
    BY <1>1, <1>2 DEF WalkTypes, Ticks
  <2>2. tick' = [tick EXCEPT ![t] = new] BY <1>6 DEF Select
  <2>3. BatchSize <= Clamp =>
          /\ \A f \in due[t] \ Batch(t), g \in Batch(t) : f > g
          /\ Cardinality(Batch(t)) < AtLeastOne(BatchSize) => due[t] \subseteq Batch(t)
    BY <1>2, <1>4, LimitIs
  <2> HIDE DEF new, rest
  <2>4. BatchSize <= Clamp =>
          /\ due[t] \subseteq Live
          /\ new.pc \notin {"asleep", "flush", "select"}
          /\ \A f \in due[t] \ new.batch, g \in new.batch : f > g
          /\ Cardinality(new.batch) < AtLeastOne(BatchSize) => due[t] \subseteq new.batch
    BY <1>4, <2>1, <2>3
  <2>5. new \in Ticks /\ new.batch # {} BY <1>6, <2>1
  <2> QED BY <1>3, <2>2, <2>4, <2>5, TaskMoves
<1> QED BY <1>5, <1>6

\* A batch that was written is passed, and the walk goes on or ends.
LEMMA ApplyStep ==
  ASSUME DecayAssumption, WalkTypes, WalksRight, NEW t \in Tasks, ApplyBatch(t),
         stmt' \in [Sessions -> Statements]
  PROVE  WalkTypes' /\ WalksRight'
<1> DEFINE batch == tick[t].batch
           owed == due[t] \ batch
           final == CHOOSE f \in batch : \A g \in batch : g <= f
           on == [pc |-> "select", batch |-> {}, after |-> final]
           short == Cardinality(batch) < AtLeastOne(BatchSize)
           new == IF short THEN TaskAsleep ELSE on
<1>1. /\ due' = [due EXCEPT ![t] = owed] /\ row' = row /\ tick[t].pc = "apply"
      /\ tick' = [tick EXCEPT ![t] = new]
  BY DEF ApplyBatch, WalkTypes
<1>2. batch \in SUBSET Nat /\ IsFiniteSet(batch) /\ batch # {}
  BY <1>1, FS_Subset DEF WalkTypes, Ticks, DecayAssumption
<1>3. final \in batch /\ \A g \in batch : g <= final
  <2>1. \E f \in batch : \A g \in batch : g <= f
    <3> HIDE DEF batch
    <3> QED BY <1>2, GreatestExists
  <2> QED BY <2>1
<1>4. on \in Ticks /\ on.pc = "select" /\ on.after = final BY <1>2, <1>3 DEF Ticks
<1>5. owed \in SUBSET FactIds BY DEF WalkTypes
<1>6. ASSUME BatchSize <= Clamp
      PROVE  /\ owed \subseteq Live /\ \A f \in owed : f > final
             /\ short => owed = {}
  BY <1>1, <1>3, <1>6 DEF WalksRight, Ahead
<1> HIDE DEF owed, final, short, on
<1>7. CASE short
  <2>1. tick' = [tick EXCEPT ![t] = TaskAsleep] BY <1>1, <1>7
  <2> QED BY <1>1, <1>5, <1>6, <1>7, <2>1, AsleepIs, TaskMoves
<1>8. CASE ~short
  <2>1. tick' = [tick EXCEPT ![t] = on] BY <1>1, <1>8
  <2> QED BY <1>1, <1>4, <1>5, <1>6, <2>1, TaskMoves
<1> QED BY <1>7, <1>8

\* A row that comes or goes is owed to no walk under way.
LEMMA ChangeStep ==
  ASSUME WalkTypes, WalksRight, NEW f \in FactIds, NEW state \in {"absent", "live", "hidden"},
         RowChange(f, state)
  PROVE  WalkTypes' /\ WalksRight'
<1>1. /\ row' = [row EXCEPT ![f] = state] /\ UNCHANGED <<stmt, tick>>
      /\ due' = [t \in Tasks |-> due[t] \ {f}]
  BY DEF RowChange
<1>2. WalkTypes' BY <1>1 DEF WalkTypes
<1>3. Live \ {f} \subseteq Live' BY <1>1 DEF Live, WalkTypes
<1>4. ASSUME BatchSize <= Clamp, NEW t \in Tasks PROVE Ahead(t)'
  <2>1. due'[t] = due[t] \ {f} /\ tick'[t] = tick[t] BY <1>1
  <2>2. Ahead(t) BY <1>4 DEF WalksRight
  <2>3. due'[t] \subseteq Live' BY <1>3, <2>1, <2>2 DEF Ahead
  <2> QED BY <2>1, <2>2, <2>3 DEF Ahead
<1> QED BY <1>2, <1>4 DEF WalksRight

\* A ring that is broken ends a flush, after which the walk begins all the same, or a tick.
LEMMA VictimStep ==
  ASSUME DecayAssumption, WalkTypes, WalksRight, NEW s \in Sessions, Victim(s),
         stmt' \in [Sessions -> Statements]
  PROVE  WalkTypes' /\ WalksRight'
<1>1. CASE s \notin Tasks
  <2>1. UNCHANGED <<row, tick, due>> BY <1>1 DEF Victim
  <2> QED BY <2>1 DEF WalkTypes, WalksRight, Ahead, Live
<1>2. CASE s \in Tasks /\ tick[s].pc = "flush"
  <2>1. /\ tick' = [tick EXCEPT ![s] = [tick[s] EXCEPT !.pc = "select"]]
        /\ due' = [due EXCEPT ![s] = Live] /\ row' = row
    BY <1>2 DEF Victim
  <2> QED BY <1>2, <2>1, WalkBegins
<1>3. CASE s \in Tasks /\ tick[s].pc # "flush"
  <2>1. tick' = [tick EXCEPT ![s] = TaskAsleep] /\ due' = [due EXCEPT ![s] = {}] /\ row' = row
    BY <1>3 DEF Victim
  <2>2. {} \in SUBSET FactIds /\ {} \subseteq Live OBVIOUS
  <2> QED BY <1>3, <2>1, <2>2, AsleepIs, TaskMoves
<1> QED BY <1>1, <1>2, <1>3

\* Every step of a task, and every change of a row, leaves the walks right.
LEMMA WalkStep ==
  ASSUME DecayAssumption, WalkTypes, WalksRight, [DecayNext]_decayVars, stmt' \in [Sessions -> Statements]
  PROVE  WalkTypes' /\ WalksRight'
<1>1. ASSUME NEW t \in Tasks, Flushed(t) PROVE WalkTypes' /\ WalksRight'
  <2>1. /\ tick[t].pc = "flush" /\ due' = [due EXCEPT ![t] = Live] /\ row' = row
        /\ tick' = [tick EXCEPT ![t] = [tick[t] EXCEPT !.pc = "select"]]
    BY <1>1 DEF Flushed
  <2> QED BY <2>1, WalkBegins
<1>2. ASSUME UNCHANGED <<row, tick, due>> PROVE WalkTypes' /\ WalksRight'
  BY <1>2 DEF WalkTypes, WalksRight, Ahead, Live
<1>3. CASE \E t \in Tasks : Flush(t) \/ Flushed(t) \/ Select(t) \/ ApplyBatch(t)
  BY <1>1, <1>3, FlushStep, SelectStep, ApplyStep
<1>4. CASE \E m \in Movers : Move(m) \/ Moved(m) BY <1>2, <1>4 DEF Move, Moved
<1>5. CASE \E s \in Sessions : Lock(s) \/ Victim(s) BY <1>2, <1>5, VictimStep DEF Lock
<1>6. CASE \E f \in FactIds, state \in {"absent", "live", "hidden"} : RowChange(f, state)
  BY <1>6, ChangeStep
<1>7. CASE UNCHANGED decayVars BY <1>2, <1>7 DEF decayVars
<1> QED BY <1>3, <1>4, <1>5, <1>6, <1>7 DEF DecayNext

\* Nothing is locked and no walk is under way.
LEMMA WalkInit == ASSUME DecayInit PROVE WalkInv
<1>1. NoStatement \in Statements /\ NoStatement.want = <<>> /\ NoStatement.held = {} /\ Len(<<>>) = 0
  BY EmptySeq DEF NoStatement, Statements
<1>2. stmt \in [Sessions -> Statements] /\ \A t \in Tasks : stmt[t] = NoStatement
  BY <1>1 DEF DecayInit, Sessions
<1>3. tick \in [Tasks -> Ticks] /\ \A t \in Tasks : tick[t] = TaskAsleep BY AsleepIs DEF DecayInit
<1>4. due \in [Tasks -> SUBSET FactIds] /\ \A t \in Tasks : due[t] = {} BY DEF DecayInit
<1>5. row \in [FactIds -> {"absent", "live", "hidden"}] BY DEF DecayInit
<1>6. WalkTypes BY <1>2, <1>3, <1>4, <1>5, AsleepIs DEF WalkTypes
<1>7. \A t \in Tasks : Upward(t) BY <1>1, <1>2 DEF Upward, Rising
<1>8. \A t \in Tasks : Ahead(t) BY <1>3, <1>4, AsleepIs DEF Ahead
<1> QED BY <1>6, <1>7, <1>8 DEF WalkInv

-----------------------------------------------------------------------------
(* Theorems *)

\* Statements in id order and walks in step with what stood when they began: the
\* invariant the two properties below follow from.
THEOREM DecayInvariance == ASSUME DecayAssumption PROVE DecaySpec => []WalkInv
<1>1. DecayInit => WalkInv BY WalkInit
<1>2. ASSUME WalkInv, [DecayNext]_decayVars PROVE WalkInv'
  <2>1. WalkTypes /\ WalksRight /\ \A t \in Tasks : Upward(t) BY <1>2 DEF WalkInv, WalksRight
  <2>2. stmt' \in [Sessions -> Statements] /\ \A t \in Tasks : Upward(t)'
    BY <1>2, <2>1, UpwardStep DEF WalkTypes
  <2>3. WalkTypes' /\ WalksRight' BY <1>2, <2>1, <2>2, WalkStep
  <2> QED BY <2>2, <2>3 DEF WalkInv, WalksRight
<1> QED BY <1>1, <1>2, PTL DEF DecaySpec

\* Flushes and batches lock their rows by rising ids, so tasks never wait for one another
\* in a ring, however many of them run (apply_last_used_bumps, apply_decay_batch).
THEOREM TasksNeverRing == ASSUME DecayAssumption PROVE DecaySpec => []OrderedNeverDeadlock
<1>1. WalkInv => OrderedNeverDeadlock BY UpwardNoRing DEF WalkInv
<1> QED BY <1>1, DecayInvariance, PTL

\* A walk that has ended owes nothing to the rows that were live all the time, whatever
\* came, went or was locked meanwhile (tick_once, select_decay_batch).
THEOREM WalksAreComplete == ASSUME DecayAssumption PROVE DecaySpec => []WalkMissesNothing
<1>1. WalkInv => WalkMissesNothing BY DEF WalkInv, WalkMissesNothing, Ahead
<1> QED BY <1>1, DecayInvariance, PTL

-----------------------------------------------------------------------------
(* The author backfill *)

\* Of the points a run owes an author, those without one are still before it.
FillAhead ==
  /\ old \subseteq Points /\ stamp \in [Points -> {"absent", "none", "agent", "system"}]
  /\ fill.offset \in Nat /\ fill.next \in Nat /\ fill.pc \in {"rest", "scroll", "patch", "done"}
  /\ \A p \in old : stamp[p] = "none" =>
       /\ fill.pc = "scroll" => p >= fill.offset
       /\ fill.pc = "patch" => p \in fill.page \/ (fill.next # 0 /\ p >= fill.next)
       /\ fill.pc # "done"

\* The fields of the run; from here on the run is one of these.
FillShape == \E pc, offset, page, next : fill = [pc |-> pc, offset |-> offset, page |-> page, next |-> next]
FillInv == FillShape /\ FillAhead

\* A page is empty only when no point is left to see.
LEMMA PageNotEmpty ==
  ASSUME BackfillAssumption, NEW S \in SUBSET Points, S # {}
  PROVE  \E p \in S : Cardinality({q \in S : q < p}) < PageOf
<1>1. S \in SUBSET Nat
  BY DEF BackfillAssumption
<1>2. PICK p \in S : \A q \in S : p <= q
  BY <1>1, LeastExists
<1>3. {q \in S : q < p} = {}
  <2>1. \A q \in S : q \in Nat /\ p \in Nat /\ p <= q
    BY <1>1, <1>2
  <2>2. \A q \in S : ~(q < p)
    BY <2>1
  <2> QED
    BY <2>2
<1>4. Cardinality({q \in S : q < p}) = 0
  BY <1>3, FS_EmptySet
<1> QED
  BY <1>4 DEF BackfillAssumption

\* Every step of the run and of other requests keeps that.
LEMMA FillStep ==
  ASSUME BackfillAssumption, FillInv, [BackfillNext]_backfillVars
  PROVE  FillInv'
<1>0. Points \subseteq Nat \ {0}
  BY DEF BackfillAssumption
<1>1. CASE StartFill
  <2>1. fill' = [pc |-> "scroll", offset |-> 0, page |-> {}, next |-> 0]
    BY <1>1 DEF StartFill, AtRest
  <2>2. old' \subseteq Points /\ stamp' = stamp /\ \A p \in Points : p >= 0
    BY <1>0, <1>1 DEF StartFill, Missing
  <2> QED
    BY <2>1, <2>2 DEF FillInv, FillShape, FillAhead
<1>2. CASE Scroll
  <2> DEFINE S == From(fill.offset)
             page == {p \in S : Cardinality({q \in S : q < p}) < PageOf}
             left == S \ page
  <2>1. S \in SUBSET Points /\ fill.pc = "scroll" /\ UNCHANGED <<stamp, old>>
    BY <1>2 DEF Scroll, From, Missing
  <2>2. \A p \in old : stamp[p] = "none" => p \in S
    BY <2>1 DEF FillInv, FillAhead, From, Missing
  <2>3. CASE page = {}
    <3>1. S = {}
      BY <2>1, <2>3, PageNotEmpty
    <3>2. fill' = [AtRest EXCEPT !.pc = "done"]
      BY <1>2, <2>3 DEF Scroll
    <3> QED
      BY <2>1, <2>2, <3>1, <3>2 DEF FillInv, FillShape, FillAhead, AtRest
  <2>4. CASE page # {}
    <3> DEFINE next == IF left = {} THEN 0 ELSE CHOOSE p \in left : \A q \in left : p <= q
    <3>1. fill' = [fill EXCEPT !.pc = "patch", !.page = page, !.next = next]
      BY <1>2, <2>4 DEF Scroll
    <3>2. next \in Nat /\ \A p \in left : next # 0 /\ p >= next
      <4>1. left \in SUBSET Nat
        BY <1>0, <2>1
      <4>2. CASE left # {}
        <5>1. \E p \in left : \A q \in left : p <= q
          BY <4>1, <4>2, LeastExists
        <5>2. next \in left /\ \A q \in left : next <= q
          BY <4>2, <5>1
        <5> QED
          BY <1>0, <2>1, <4>1, <5>2
      <4> QED
        BY <4>2
    <3>3. \A p \in old : stamp[p] = "none" => p \in page \/ p \in left
      BY <2>2
    <3> HIDE DEF next, page, left
    <3> QED
      BY <2>1, <3>1, <3>2, <3>3 DEF FillInv, FillShape, FillAhead
  <2> QED
    BY <2>3, <2>4
<1>3. CASE Patch
  <2>1. \A p \in old : stamp'[p] = "none" => stamp[p] = "none" /\ fill.next # 0 /\ p >= fill.next
    BY <1>3 DEF Patch, FillInv, FillAhead
  <2>2. stamp' \in [Points -> {"absent", "none", "agent", "system"}]
    BY <1>3 DEF Patch, FillInv, FillAhead
  <2> QED
    BY <1>3, <2>1, <2>2 DEF Patch, AtRest, FillInv, FillShape, FillAhead
<1>4. CASE FillFails
  BY <1>4 DEF FillFails, AtRest, FillInv, FillShape, FillAhead
<1>5. ASSUME NEW p \in Points, NEW to \in {"absent", "agent"}, Change(p, to) PROVE FillInv'
  <2>1. stamp' \in [Points -> {"absent", "none", "agent", "system"}]
    BY <1>5 DEF Change, FillInv, FillAhead
  <2>2. \A q \in old' : q \in old /\ stamp'[q] = stamp[q]
    BY <1>5 DEF Change, FillInv, FillAhead
  <2> QED
    BY <1>5, <2>1, <2>2 DEF Change, FillInv, FillShape, FillAhead
<1>6. CASE UNCHANGED backfillVars
  BY <1>6 DEF backfillVars, FillInv, FillShape, FillAhead
<1> QED
  BY <1>1, <1>2, <1>3, <1>4, <1>5, <1>6 DEF BackfillNext

\* However the collection changes under its pages, a backfill that comes to its end
\* has left no point without an author that was there all the time (run_backfill).
THEOREM BackfillIsComplete == ASSUME BackfillAssumption PROVE BackfillSpec => []BackfillMissesNone
<1>1. BackfillInit => FillInv
  <2> SUFFICES ASSUME BackfillInit PROVE FillInv
    OBVIOUS
  <2>1. stamp \in [Points -> {"absent", "none", "agent", "system"}] /\ old = {}
    BY DEF BackfillInit
  <2>2. fill = [pc |-> "rest", offset |-> 0, page |-> {}, next |-> 0]
    BY DEF BackfillInit, AtRest
  <2> QED
    BY <2>1, <2>2 DEF FillInv, FillShape, FillAhead
<1>2. FillInv /\ [BackfillNext]_backfillVars => FillInv'
  BY FillStep
<1>3. FillInv => BackfillMissesNone
  BY DEF FillInv, FillAhead, BackfillMissesNone
<1> QED
  BY <1>1, <1>2, <1>3, PTL DEF BackfillSpec

-----------------------------------------------------------------------------
(* The health card *)

\* When a backend was seen up is not ahead of the clock, and not behind what is
\* heard or stored of it by more than a probe takes.
Beheld ==
  /\ now \in Nat
  /\ \A s \in Subs : lately[s] \in Int /\ lately[s] <= now /\ (truth[s] = "Ok" => lately[s] = now)
  /\ \A s \in Subs : cache[s].at \in Int /\ (cache[s].state = "Ok" => lately[s] >= cache[s].at - Slow)

\* A request that asked at t, of this backend.
OfCard(p, s, t) ==
  /\ p.pc \in {"asked", "heard", "known"}
  /\ p.pc \in {"asked", "heard"} => p.since = t
  /\ p.pc = "heard" /\ p.state = "Ok" => lately[s] >= t
  /\ p.pc = "known" /\ p.state = "Ok" => t - lately[s] < Ttl + Slow
Card(w) ==
  \/ \A s \in Subs : probe[w][s] = Unasked
  \/ \E t \in Nat : t <= now /\ now <= t + Slow /\ \A s \in Subs : OfCard(probe[w][s], s, t)

Probes == [pc : {"none", "asked", "heard", "known"}, since : Nat, state : States]
Cached == [state : States, at : Int]
HealthTypes ==
  /\ truth \in [Subs -> States] /\ lately \in [Subs -> Int]
  /\ cache \in [Subs -> Cached] /\ probe \in [Watchers -> [Subs -> Probes]]
CardInv == HealthTypes /\ Beheld /\ \A w \in Watchers : Card(w)

\* A card that is complete says of every backend it needs, and calls up, that it was
\* up lately.
LEMMA CardIsRecent == ASSUME HealthAssumption, CardInv PROVE HealthRecent
<1> SUFFICES ASSUME NEW w \in Watchers, Complete(w), Status(w) = "Ok", NEW s \in Subs \ Optional
             PROVE  now - lately[s] < Ttl + 2 * Slow
  BY DEF HealthRecent
<1>1. probe[w][s].pc = "known" /\ probe[w][s].state # "Down"
  BY DEF Complete, Status
<1>2. probe[w][s] \in Probes
  BY DEF CardInv, HealthTypes
<1>3. probe[w][s].state = "Ok" /\ probe[w][s] # Unasked
  BY <1>1, <1>2 DEF Probes, States, Unasked
<1>4. PICK t \in Nat : t <= now /\ now <= t + Slow /\ OfCard(probe[w][s], s, t)
  BY <1>3 DEF CardInv, Card
<1>5. t - lately[s] < Ttl + Slow
  BY <1>1, <1>3, <1>4 DEF OfCard
<1>6. now \in Nat /\ lately[s] \in Int /\ Ttl \in Nat /\ Slow \in Nat
  BY DEF CardInv, Beheld, HealthAssumption
<1> QED
  BY <1>4, <1>5, <1>6

\* What is heard, stored and known of backends stays as late as it is.
LEMMA CardStep ==
  ASSUME HealthAssumption, CardInv, [HealthNext]_healthVars
  PROVE  CardInv'
<1>0. /\ Ttl \in Nat /\ Slow \in Nat /\ Ttl # 0 /\ now \in Nat
      /\ \A s \in Subs : lately[s] \in Int /\ lately[s] <= now /\ (truth[s] = "Ok" => lately[s] = now)
      /\ \A s \in Subs : cache[s].at \in Int /\ (cache[s].state = "Ok" => lately[s] >= cache[s].at - Slow)
  BY DEF HealthAssumption, CardInv, Beheld
<1>1. ASSUME NEW w \in Watchers, Ask(w) PROVE CardInv'
  <2> DEFINE asking == [pc |-> "asked", since |-> now, state |-> "Ok"]
             new == [s \in Subs |-> IF FreshProbe(s) THEN Known(cache[s].state) ELSE asking]
  <2>1. probe' = [probe EXCEPT ![w] = new] /\ UNCHANGED <<now, truth, lately, cache>>
    BY <1>1 DEF Ask
  <2>2. \A s \in Subs : new[s] \in Probes /\ OfCard(new[s], s, now)
    <3> SUFFICES ASSUME NEW s \in Subs PROVE new[s] \in Probes /\ OfCard(new[s], s, now)
      OBVIOUS
    <3>1. asking \in Probes /\ OfCard(asking, s, now)
      BY <1>0 DEF Probes, States, OfCard
    <3>2. ASSUME FreshProbe(s) PROVE Known(cache[s].state) \in Probes /\ OfCard(Known(cache[s].state), s, now)
      <4>1. cache[s].state \in States /\ now - cache[s].at < Ttl
        BY <3>2 DEF CardInv, HealthTypes, Cached, FreshProbe
      <4>2. cache[s].state = "Ok" => now - lately[s] < Ttl + Slow
        BY <1>0, <4>1
      <4> QED
        BY <4>1, <4>2 DEF Known, Probes, OfCard
    <3> QED
      BY <3>1, <3>2
  <2>3. new \in [Subs -> Probes]
    BY <2>2
  <2> HIDE DEF new
  <2>4. HealthTypes'
    BY <2>1, <2>3 DEF CardInv, HealthTypes
  <2>5. ASSUME NEW v \in Watchers PROVE Card(v)'
    <3>1. CASE v = w
      <4>1. probe'[v] = new
        BY <2>1, <3>1 DEF CardInv, HealthTypes
      <4>2. PICK t \in Nat : t = now
        BY <1>0
      <4>3. \A s \in Subs : OfCard(probe[v][s], s, t)'
        BY <2>1, <2>2, <4>1, <4>2 DEF OfCard
      <4> QED
        BY <1>0, <2>1, <4>2, <4>3 DEF Card
    <3>2. CASE v # w
      <4>1. probe'[v] = probe[v]
        BY <2>1, <3>2 DEF CardInv, HealthTypes
      <4> QED
        BY <2>1, <4>1 DEF CardInv, Card, OfCard
    <3> QED
      BY <3>1, <3>2
  <2> QED
    BY <2>1, <2>4, <2>5 DEF CardInv, Beheld
<1>2. ASSUME NEW w \in Watchers, NEW s \in Subs, Hear(w, s) \/ StoreProbe(w, s),
             NEW p \in Probes, NEW cache1 \in [Subs -> Cached],
             probe' = [probe EXCEPT ![w][s] = p], cache' = cache1, UNCHANGED <<now, truth, lately>>,
             \A t \in Nat : t <= now /\ now <= t + Slow /\ OfCard(probe[w][s], s, t) => OfCard(p, s, t),
             \A x \in Subs : cache1[x].state = "Ok" => lately[x] >= cache1[x].at - Slow
      PROVE  CardInv'
  <2>1. probe \in [Watchers -> [Subs -> Probes]]
    BY DEF CardInv, HealthTypes
  <2>2. HealthTypes'
    BY <1>2, <2>1 DEF CardInv, HealthTypes
  <2>3. \A x \in Subs : cache1[x].at \in Int
    BY <1>2 DEF Cached
  <2>4. Beheld'
    BY <1>0, <1>2, <2>3 DEF Beheld
  <2>5. probe'[w][s] = p /\ \A x \in Subs \ {s} : probe'[w][x] = probe[w][x]
    BY <1>2, <2>1
  <2>6. \A v \in Watchers \ {w} : probe'[v] = probe[v]
    BY <1>2, <2>1
  <2>7. probe[w][s] # Unasked
    BY <1>2 DEF Hear, StoreProbe, Unasked
  <2>8. Card(w)'
    <3>1. PICK t \in Nat : t <= now /\ now <= t + Slow /\ \A x \in Subs : OfCard(probe[w][x], x, t)
      BY <2>7 DEF CardInv, Card
    <3>2. \A x \in Subs : OfCard(probe'[w][x], x, t)
      BY <1>2, <2>5, <3>1
    <3>3. \A x \in Subs : OfCard(probe[w][x], x, t)'
      BY <1>2, <3>2 DEF OfCard
    <3> QED
      BY <1>2, <3>1, <3>3 DEF Card
  <2>9. ASSUME NEW v \in Watchers \ {w} PROVE Card(v)'
    BY <1>2, <2>6 DEF CardInv, Card, OfCard
  <2> QED
    BY <2>2, <2>4, <2>8, <2>9 DEF CardInv
<1>3. ASSUME NEW w \in Watchers, NEW s \in Subs, Hear(w, s) PROVE CardInv'
  <2>1. PICK state \in {truth[s], "Down"} : probe' = [probe EXCEPT ![w][s] = [probe[w][s] EXCEPT !.pc = "heard", !.state = state]]
    BY <1>3 DEF Hear, Mark
  <2> DEFINE p == [probe[w][s] EXCEPT !.pc = "heard", !.state = state]
  <2>2. probe[w][s] \in Probes /\ truth[s] \in States /\ cache \in [Subs -> Cached]
    BY DEF CardInv, HealthTypes
  <2>3. p \in Probes /\ p.pc = "heard" /\ p.since = probe[w][s].since /\ p.state = state
    BY <2>2 DEF Probes, States
  <2>4. state = "Ok" => lately[s] = now
    BY <1>0, <2>1
  <2>5. \A t \in Nat : t <= now /\ OfCard(probe[w][s], s, t) => OfCard(p, s, t)
    BY <1>0, <1>3, <2>3, <2>4 DEF OfCard, Hear
  <2> HIDE DEF p
  <2> QED
    BY <1>0, <1>2, <1>3, <2>1, <2>2, <2>3, <2>5 DEF Hear, p
<1>4. ASSUME NEW w \in Watchers, NEW s \in Subs, StoreProbe(w, s) PROVE CardInv'
  <2> DEFINE p == Known(probe[w][s].state)
             c == [state |-> probe[w][s].state, at |-> now]
             cache1 == [cache EXCEPT ![s] = c]
  <2>1. probe' = [probe EXCEPT ![w][s] = p] /\ cache' = cache1 /\ UNCHANGED <<now, truth, lately>>
        /\ probe[w][s].pc = "heard"
    BY <1>4 DEF StoreProbe, Mark
  <2>2. probe[w][s] \in Probes /\ cache \in [Subs -> Cached]
    BY DEF CardInv, HealthTypes
  <2>3. p \in Probes /\ p.pc = "known" /\ p.state = probe[w][s].state /\ c \in Cached
    BY <1>0, <2>2 DEF Probes, Cached, Known
  <2>4. PICK t \in Nat : t <= now /\ now <= t + Slow /\ \A x \in Subs : OfCard(probe[w][x], x, t)
    <3>1. probe[w][s] # Unasked
      BY <2>1 DEF Unasked
    <3> QED
      BY <3>1 DEF CardInv, Card
  <2>5. probe[w][s].state = "Ok" => lately[s] >= t
    BY <2>1, <2>4 DEF OfCard
  <2>6. c.state = "Ok" => lately[s] >= c.at - Slow
    BY <1>0, <2>4, <2>5
  <2>7. \A x \in Subs : cache1[x].state = "Ok" => lately[x] >= cache1[x].at - Slow
    BY <1>0, <2>2, <2>6
  <2>8. \A u \in Nat : u <= now /\ OfCard(probe[w][s], s, u) => OfCard(p, s, u)
    BY <1>0, <2>1, <2>3 DEF OfCard
  <2>9. cache1 \in [Subs -> Cached]
    BY <2>2, <2>3
  <2> HIDE DEF p, c, cache1
  <2> QED
    BY <1>2, <1>4, <2>1, <2>3, <2>7, <2>8, <2>9
<1>5. ASSUME NEW w \in Watchers, Reply(w) PROVE CardInv'
  <2>1. probe' = [probe EXCEPT ![w] = [s \in Subs |-> Unasked]] /\ UNCHANGED <<now, truth, lately, cache>>
    BY <1>5 DEF Reply
  <2>2. Unasked \in Probes
    BY DEF Unasked, Probes, States
  <2>3. HealthTypes'
    BY <2>1, <2>2 DEF CardInv, HealthTypes
  <2>4. ASSUME NEW v \in Watchers PROVE Card(v)'
    <3>1. CASE v = w
      <4>1. probe'[v] = [s \in Subs |-> Unasked]
        BY <2>1, <3>1 DEF CardInv, HealthTypes
      <4> QED
        BY <4>1 DEF Card, Unasked
    <3>2. CASE v # w
      <4>1. probe'[v] = probe[v]
        BY <2>1, <3>2 DEF CardInv, HealthTypes
      <4> QED
        BY <2>1, <4>1 DEF CardInv, Card, OfCard
    <3> QED
      BY <3>1, <3>2
  <2> QED
    BY <2>1, <2>3, <2>4 DEF CardInv, Beheld
<1>6. ASSUME HealthTypes', cache' = cache, probe' = probe, now' \in Nat, now <= now',
             \A s \in Subs : /\ lately[s] <= lately'[s] /\ lately'[s] <= now'
                             /\ truth'[s] = "Ok" => lately'[s] = now',
             \A w \in Watchers : ~Complete(w) \/ now' = now,
             \A w \in Watchers, s \in Subs :
                probe[w][s].pc \in {"asked", "heard"} => now' <= probe[w][s].since + Slow \/ now' = now
      PROVE  CardInv'
  <2>1. \A s \in Subs : lately'[s] \in Int
    BY <1>6 DEF HealthTypes
  <2>2. Beheld'
    BY <1>0, <1>6, <2>1 DEF Beheld
  <2>3. ASSUME NEW w \in Watchers PROVE Card(w)'
    <3>1. CASE \A s \in Subs : probe[w][s] = Unasked
      BY <1>6, <3>1 DEF Card
    <3>2. CASE ~\A s \in Subs : probe[w][s] = Unasked
      <4>1. PICK t \in Nat : t <= now /\ now <= t + Slow /\ \A s \in Subs : OfCard(probe[w][s], s, t)
        BY <3>2 DEF CardInv, Card
      <4>2. now' <= t + Slow
        <5>1. CASE now' = now
          BY <4>1, <5>1
        <5>2. CASE now' # now
          <6>1. PICK s \in Subs : probe[w][s].pc # "known"
            BY <1>6, <5>2 DEF Complete
          <6>2. probe[w][s].pc \in {"asked", "heard"} /\ probe[w][s].since = t
            BY <4>1, <6>1 DEF OfCard
          <6> QED
            BY <1>6, <5>2, <6>2
        <5> QED
          BY <5>1, <5>2
      <4>3. \A s \in Subs : OfCard(probe[w][s], s, t)'
        BY <1>0, <1>6, <2>1, <4>1 DEF OfCard
      <4> QED
        BY <1>0, <1>6, <4>1, <4>2, <4>3 DEF Card
    <3> QED
      BY <3>1, <3>2
  <2> QED
    BY <1>6, <2>2, <2>3 DEF CardInv
<1>7. ASSUME NEW s \in Subs, Flip(s) PROVE CardInv'
  <2>1. /\ truth' = [truth EXCEPT ![s] = IF @ = "Ok" THEN "Down" ELSE "Ok"]
        /\ lately' = [lately EXCEPT ![s] = now] /\ UNCHANGED <<now, cache, probe>>
    BY <1>7 DEF Flip
  <2>2. HealthTypes'
    BY <1>0, <2>1 DEF CardInv, HealthTypes, States
  <2>3. \A x \in Subs : lately'[x] = IF x = s THEN now ELSE lately[x]
    BY <2>1 DEF CardInv, HealthTypes
  <2>4. \A x \in Subs : x # s => truth'[x] = truth[x]
    BY <2>1 DEF CardInv, HealthTypes
  <2>5. \A x \in Subs : lately[x] <= lately'[x] /\ lately'[x] <= now /\ (truth'[x] = "Ok" => lately'[x] = now)
    BY <1>0, <2>3, <2>4
  <2> QED
    BY <1>0, <1>6, <2>1, <2>2, <2>5
<1>8. CASE Pass
  <2>1. /\ now' = now + 1 /\ UNCHANGED <<truth, cache, probe>>
        /\ lately' = [s \in Subs |-> IF truth[s] = "Ok" THEN now + 1 ELSE lately[s]]
        /\ \A w \in Watchers : ~Complete(w) /\ \A s \in Subs :
              probe[w][s].pc \in {"asked", "heard"} => now < probe[w][s].since + Slow
    BY <1>8 DEF Pass
  <2>2. HealthTypes'
    BY <1>0, <2>1 DEF CardInv, HealthTypes
  <2>3. \A s \in Subs : lately[s] <= lately'[s] /\ lately'[s] <= now' /\ (truth'[s] = "Ok" => lately'[s] = now')
    BY <1>0, <2>1
  <2>4. \A w \in Watchers, s \in Subs :
          probe[w][s].pc \in {"asked", "heard"} => now' <= probe[w][s].since + Slow
    <3>1. \A w \in Watchers, s \in Subs : probe[w][s].since \in Nat
      BY DEF CardInv, HealthTypes, Probes
    <3> QED
      BY <1>0, <2>1, <3>1
  <2> QED
    BY <1>0, <1>6, <2>1, <2>2, <2>3, <2>4
<1>9. CASE UNCHANGED healthVars
  BY <1>9 DEF healthVars, CardInv, HealthTypes, Beheld, Card, OfCard
<1> QED
  BY <1>1, <1>3, <1>4, <1>5, <1>7, <1>8, <1>9 DEF HealthNext

\* Whatever probes of other requests end in between, and in whatever order, a request
\* is told that a needed backend is up only if it was within the time of the cache and
\* of two probes before (healthz, check_health).
THEOREM CardsAreRecent == ASSUME HealthAssumption PROVE HealthSpec => []HealthRecent
<1>1. HealthInit => CardInv
  <2> SUFFICES ASSUME HealthInit PROVE CardInv
    OBVIOUS
  <2>1. /\ now = 0 /\ lately = [s \in Subs |-> IF truth[s] = "Ok" THEN 0 ELSE -100]
        /\ truth \in [Subs -> States]
        /\ cache = [s \in Subs |-> [state |-> "Ok", at |-> -100]]
        /\ probe = [w \in Watchers |-> [s \in Subs |-> Unasked]]
    BY DEF HealthInit, Never
  <2>2. Unasked \in Probes /\ [state |-> "Ok", at |-> -100] \in Cached
    BY DEF Unasked, Probes, States, Cached
  <2>3. HealthTypes
    BY <2>1, <2>2 DEF HealthTypes
  <2>4. Beheld
    BY <2>1 DEF Beheld, HealthAssumption
  <2> QED
    BY <2>1, <2>3, <2>4 DEF CardInv, Card
<1>2. CardInv /\ [HealthNext]_healthVars => CardInv'
  BY CardStep
<1>3. CardInv => HealthRecent
  BY CardIsRecent
<1> QED
  BY <1>1, <1>2, <1>3, PTL DEF HealthSpec

-----------------------------------------------------------------------------
(* The monitor *)

\* Of a unit whose posts went through the last event is what the monitor saw last.
ToldLast ==
  /\ prev \in [Units -> {"none", "up", "down"}] /\ last \in [Units -> {"none", "up", "down"}]
  /\ broken \in [Units -> BOOLEAN] /\ active \in [Units -> {"up", "down"}]
  /\ seen = Nothing \/ seen \in [unit : Units, state : {"up", "down"}]
  /\ \A u \in Units : broken[u] \/ last[u] = prev[u]

\* Every poll, post and restart keeps that, and so does every unit's turn.
LEMMA WatchStep == ASSUME ToldLast, [WatchNext]_watchVars PROVE ToldLast'
<1>1. ASSUME NEW u \in Units, Poll(u) PROVE ToldLast'
  BY <1>1 DEF Poll, ToldLast
<1>2. ASSUME NEW u \in Units, NEW state \in {"up", "down"}, Turn(u, state) PROVE ToldLast'
  BY <1>2 DEF Turn, ToldLast
<1>3. CASE Listen
  BY <1>3 DEF Listen, ToldLast
<1>4. CASE Report
  <2>1. seen.unit \in Units /\ seen.state \in {"up", "down"} /\ seen' = Nothing
    BY <1>4 DEF Report, ToldLast
  <2>2. prev' = [prev EXCEPT ![seen.unit] = seen.state]
    BY <1>4 DEF Report, Apply
  <2>3. \/ Unchanged(seen.unit) /\ UNCHANGED <<last, broken>>
        \/ Stored(seen.unit)
        \/ broken' = [broken EXCEPT ![seen.unit] = TRUE] /\ UNCHANGED last
    BY <1>4 DEF Report
  <2>4. active' = active
    BY <1>4 DEF Report
  <2>5. CASE Unchanged(seen.unit) /\ UNCHANGED <<last, broken>>
    BY <2>1, <2>2, <2>4, <2>5 DEF Unchanged, ToldLast
  <2>6. CASE Stored(seen.unit)
    BY <2>1, <2>2, <2>4, <2>6 DEF Stored, ToldLast
  <2>7. CASE broken' = [broken EXCEPT ![seen.unit] = TRUE] /\ UNCHANGED last
    BY <2>1, <2>2, <2>4, <2>7 DEF ToldLast
  <2> QED
    BY <2>3, <2>5, <2>6, <2>7
<1>5. CASE Restart
  BY <1>5 DEF Restart, ToldLast
<1>6. CASE UNCHANGED watchVars
  BY <1>6 DEF watchVars, ToldLast
<1> QED
  BY <1>1, <1>2, <1>3, <1>4, <1>5, <1>6 DEF WatchNext

\* However often units turn, answers are lost and the sink is away, no event is about
\* to be stored twice in a row of a unit whose posts went through (diff, apply).
THEOREM NoEventTwice == WatchSpec => []EventsAlternate
<1>1. WatchInit => ToldLast
  BY DEF WatchInit, ToldLast
<1>2. ToldLast /\ [WatchNext]_watchVars => ToldLast'
  BY WatchStep
<1>3. ToldLast => EventsAlternate
  BY DEF ToldLast, EventsAlternate, Unchanged
<1> QED
  BY <1>1, <1>2, <1>3, PTL DEF WatchSpec

-----------------------------------------------------------------------------
(* The repair of authors *)

Plans == UNION {[S -> Agents \cup {"Lost"}] : S \in SUBSET Stamped}
ToolTypes ==
  [pc : {"idle", "classify", "exists"}, mode : {"dry_run", "apply"}, table : {"facts", "events"},
   todo : SUBSET Stamped, plan : Plans, row : Stamped \cup {0}, found : Agents \cup {"Lost"}, clean : BOOLEAN]
RepairTypes ==
  /\ owner \in [Stamped -> {"absent", "System", "Lost"} \cup Agents]
  /\ tool \in ToolTypes /\ settled \in 0..2 /\ agents \subseteq Agents
  /\ tool.pc = "exists" => tool.row \in Stamped

\* A row the run has still to assign: unread, read or planned.
WasRead(r) == (tool.pc = "exists" /\ r = tool.row) \/ r \in DOMAIN tool.plan
InHand(r) == r \in tool.todo \/ WasRead(r)

\* A row of the system's that somebody's events speak for.
Owed(r) == owner[r] = "System" /\ Evidence(r) # {}
NoneOwed(table) == \A r \in RowsOf(table) : ~Owed(r)

\* A run that nothing has disturbed has in hand every owed row of its table, and of
\* what it has read only owed rows.
RunTrue ==
  /\ tool.pc = "idle" => tool.plan = EmptyPlan
  /\ \A r \in Stamped : InHand(r) => tool.pc # "idle" /\ r \in RowsOf(tool.table)
  /\ tool.pc # "idle" /\ tool.clean =>
       /\ \A r \in RowsOf(tool.table) : Owed(r) => InHand(r)
       /\ \A r \in Stamped : (InHand(r) => owner[r] = "System") /\ (WasRead(r) => Owed(r))

\* After one complete run no event is owed, and when the events of the next are
\* reached no fact; after two neither ever is.
RunsSettle ==
  settled >= 1 =>
    /\ NoneOwed("events")
    /\ tool.pc # "idle" => tool.clean
    /\ tool.pc # "idle" /\ tool.mode = "apply" /\ tool.table = "events" => NoneOwed("facts")
    /\ settled = 2 => NoneOwed("facts")

RepairInv == RepairTypes /\ RunTrue /\ RunsSettle

\* With nothing owed nothing is planned.
LEMMA NothingPlanned ==
  ASSUME RepairInv, settled >= 1, NoneOwed(tool.table)
  PROVE  tool.plan = EmptyPlan
<1>1. CASE tool.pc = "idle"
  BY <1>1 DEF RepairInv, RunTrue
<1>2. CASE tool.pc # "idle"
  <2>1. tool.plan \in Plans
    BY DEF RepairInv, RepairTypes, ToolTypes
  <2>2. PICK S \in SUBSET Stamped : tool.plan \in [S -> Agents \cup {"Lost"}]
    BY <2>1 DEF Plans
  <2>3. ASSUME NEW r \in S PROVE FALSE
    <3>1. r \in Stamped /\ WasRead(r)
      BY <2>2, <2>3 DEF WasRead
    <3>2. r \in RowsOf(tool.table) /\ Owed(r)
      BY <1>2, <3>1 DEF RepairInv, RunTrue, RunsSettle, InHand
    <3> QED
      BY <3>2 DEF NoneOwed
  <2>4. S = {}
    BY <2>3
  <2> QED
    BY <2>2, <2>4 DEF EmptyPlan
<1> QED
  BY <1>1, <1>2

\* A plan with one more row, or with fewer, is a plan.
LEMMA PlansAre ==
  ASSUME NEW plan \in Plans
  PROVE  /\ DOMAIN plan \subseteq Stamped /\ Range(plan) \subseteq Agents \cup {"Lost"}
         /\ \A r \in Stamped, a \in Agents \cup {"Lost"} :
              [x \in DOMAIN plan \cup {r} |-> IF x = r THEN a ELSE plan[x]] \in Plans
         /\ \A rows : Restrict(plan, DOMAIN plan \ rows) \in Plans
                      /\ DOMAIN Restrict(plan, DOMAIN plan \ rows) = DOMAIN plan \ rows
         /\ EmptyPlan \in Plans /\ DOMAIN EmptyPlan = {}
<1>1. PICK S \in SUBSET Stamped : plan \in [S -> Agents \cup {"Lost"}]
  BY DEF Plans
<1>2. Range(plan) \subseteq Agents \cup {"Lost"}
  BY <1>1 DEF Range
<1>3. ASSUME NEW r \in Stamped, NEW a \in Agents \cup {"Lost"}
      PROVE  [x \in DOMAIN plan \cup {r} |-> IF x = r THEN a ELSE plan[x]] \in Plans
  <2>1. S \cup {r} \in SUBSET Stamped
    BY <1>3
  <2>2. [x \in DOMAIN plan \cup {r} |-> IF x = r THEN a ELSE plan[x]] \in [S \cup {r} -> Agents \cup {"Lost"}]
    BY <1>1, <1>3
  <2> QED
    BY <2>1, <2>2 DEF Plans
<1>4. ASSUME NEW rows
      PROVE  /\ Restrict(plan, DOMAIN plan \ rows) \in Plans
             /\ DOMAIN Restrict(plan, DOMAIN plan \ rows) = DOMAIN plan \ rows
  <2>1. S \ rows \in SUBSET Stamped
    OBVIOUS
  <2>2. Restrict(plan, DOMAIN plan \ rows) \in [S \ rows -> Agents \cup {"Lost"}]
    BY <1>1 DEF Restrict
  <2> QED
    BY <1>1, <2>1, <2>2 DEF Plans
<1>5. EmptyPlan \in Plans /\ DOMAIN EmptyPlan = {}
  <2>1. EmptyPlan \in [{} -> Agents \cup {"Lost"}] /\ {} \in SUBSET Stamped
    BY DEF EmptyPlan
  <2> QED
    BY <2>1 DEF Plans
<1>6. DOMAIN plan \subseteq Stamped
  BY <1>1
<1> QED
  BY <1>2, <1>3, <1>4, <1>5, <1>6

\* What speaks for a row is said by events only, and no author the tool writes, nor
\* anybody but the system, falls silent.
LEMMA EvidenceIs ==
  ASSUME NEW r \in Stamped
  PROVE  /\ (\A e \in Events : owner'[e] = owner[e]) => Evidence(r)' = Evidence(r)
         /\ (\A e \in Events : owner'[e] = owner[e] \/ owner'[e] \notin {"absent", "System"})
               /\ Evidence(r) # {} => Evidence(r)' # {}
<1> DEFINE Speak == {e \in Events : IF r \in Facts THEN r \in Mentions[e]
                                    ELSE Task[r] # NoTask /\ Task[e] = Task[r]}
<1>1. /\ Evidence(r) = {owner[e] : e \in Speak} \ {"absent", "System"}
      /\ Evidence(r)' = {owner'[e] : e \in Speak} \ {"absent", "System"}
      /\ Speak \subseteq Events
  BY DEF Evidence
<1> HIDE DEF Speak
<1> QED
  BY <1>1

\* Events of one task have the same to say for them.
LEMMA EvidenceOfTask ==
  ASSUME RepairAssumption, NEW r \in Events, Evidence(r) = {}, Evidence(r)' # {}
  PROVE  \E e \in Events : owner'[e] # owner[e] /\ Evidence(e) = {}
<1>1. r \notin Facts
  BY DEF RepairAssumption
<1>2. PICK e \in Events : Task[r] # NoTask /\ Task[e] = Task[r] /\ owner'[e] \notin {"absent", "System"}
  BY <1>1 DEF Evidence
<1>3. owner[e] \in {"absent", "System"}
  BY <1>1, <1>2 DEF Evidence
<1>4. e \notin Facts /\ Evidence(e) = Evidence(r)
  BY <1>1, <1>2 DEF RepairAssumption, Evidence
<1> QED
  BY <1>2, <1>3, <1>4

\* A row is read: the run goes on with what was owed in hand.
LEMMA ReadStep ==
  ASSUME RepairInv, tool.pc # "idle", tool'.pc # "idle", tool' \in ToolTypes,
         tool'.pc = "exists" => tool'.row \in Stamped,
         UNCHANGED <<owner, settled, agents>>,
         tool'.table = tool.table, tool'.mode = tool.mode, tool'.clean = tool.clean,
         \A r \in Stamped :
            /\ InHand(r) /\ Evidence(r) # {} => InHand(r)'
            /\ InHand(r)' => InHand(r)
            /\ WasRead(r)' => WasRead(r) \/ (r \in tool.todo /\ Evidence(r) # {})
  PROVE  RepairInv'
<1>1. \A r \in Stamped : Evidence(r)' = Evidence(r)
  BY EvidenceIs
<1>2. \A r \in Stamped : Owed(r)' <=> Owed(r)
  BY <1>1 DEF Owed
<1>3. RowsOf("facts") \subseteq Stamped /\ RowsOf("events") \subseteq Stamped /\ RowsOf(tool.table) \subseteq Stamped
  BY DEF RowsOf, Stamped
<1>4. RepairTypes'
  BY DEF RepairInv, RepairTypes
<1>5. RunTrue'
  BY <1>1, <1>2, <1>3 DEF RepairInv, RunTrue, Owed, InHand
<1>6. RunsSettle'
  BY <1>2, <1>3 DEF RepairInv, RunsSettle, NoneOwed
<1> QED
  BY <1>4, <1>5, <1>6 DEF RepairInv

\* The run ends, or somebody else writes: nothing is in hand that the run answers for.
LEMMA EndStep ==
  ASSUME RepairInv, RepairTypes', tool'.pc = "idle", tool'.plan = EmptyPlan, tool'.todo = {},
         \/ settled' = 0
         \/ /\ \A r \in Stamped : owner'[r] = owner[r]
            /\ settled' >= 1 => NoneOwed("events")
            /\ settled' = 2 => NoneOwed("facts")
  PROVE  RepairInv'
<1>1. \A r \in Stamped : ~InHand(r)'
  BY DEF InHand, WasRead, EmptyPlan
<1>2. RunTrue'
  BY <1>1 DEF RunTrue
<1>3. RunsSettle'
  <2>1. CASE settled' = 0
    BY <2>1 DEF RunsSettle
  <2>2. CASE settled' # 0
    <3>1. \A r \in Stamped : Owed(r)' <=> Owed(r)
      BY <2>2, EvidenceIs DEF Owed, Stamped
    <3>2. RowsOf("facts") \subseteq Stamped /\ RowsOf("events") \subseteq Stamped
      BY DEF RowsOf, Stamped
    <3> QED
      BY <2>2, <3>1, <3>2 DEF RunsSettle, NoneOwed
  <2> QED
    BY <2>1, <2>2
<1> QED
  BY <1>2, <1>3 DEF RepairInv

\* The facts, or the events, are read again: all that is owed of them is in hand.
LEMMA ScanStep ==
  ASSUME RepairInv, NEW table \in {"facts", "events"}, tool' \in ToolTypes, tool'.pc = "classify",
         tool'.table = table, tool'.todo = OwnedBy("System", RowsOf(table)), tool'.plan = EmptyPlan,
         UNCHANGED <<owner, settled, agents>>,
         settled >= 1 => tool'.clean,
         settled >= 1 /\ tool'.mode = "apply" /\ table = "events" => NoneOwed("facts")
  PROVE  RepairInv'
<1>1. \A r \in Stamped : (Owed(r)' <=> Owed(r)) /\ Evidence(r)' = Evidence(r)
  BY EvidenceIs DEF Owed
<1>2. RowsOf("facts") \subseteq Stamped /\ RowsOf("events") \subseteq Stamped /\ RowsOf(table) \subseteq Stamped
  BY DEF RowsOf, Stamped
<1>3. RepairTypes'
  BY DEF RepairInv, RepairTypes
<1>4. \A r : InHand(r)' <=> r \in RowsOf(table) /\ owner[r] = "System"
  BY DEF InHand, WasRead, OwnedBy, EmptyPlan
<1>5. \A r : ~WasRead(r)'
  BY DEF WasRead, EmptyPlan
<1>6. RunTrue'
  BY <1>1, <1>2, <1>4, <1>5 DEF RunTrue, Owed
<1>7. RunsSettle'
  BY <1>1, <1>2 DEF RepairInv, RunsSettle, NoneOwed
<1> QED
  BY <1>3, <1>6, <1>7 DEF RepairInv

\* A row is classified: it is planned for no one, for lost-author, or its only
\* candidate is looked up.
LEMMA ClassifyStep == ASSUME RepairAssumption, RepairInv, Classify PROVE RepairInv'
<1> DEFINE r == CHOOSE r \in tool.todo : \A x \in tool.todo : r <= x
<1> DEFINE left == [tool EXCEPT !.todo = @ \ {r}]
<1>1. tool \in ToolTypes /\ tool.plan \in Plans /\ tool.todo \subseteq Stamped /\ Stamped \subseteq Nat
  BY DEF RepairInv, RepairTypes, ToolTypes, RepairAssumption, Stamped
<1>2. r \in tool.todo
  <2>1. tool.todo \subseteq Nat /\ tool.todo # {}
    BY <1>1 DEF Classify
  <2>2. \E q \in tool.todo : \A x \in tool.todo : q <= x
    BY <2>1, LeastExists
  <2> QED
    BY <2>2
<1>3. /\ UNCHANGED <<owner, settled, agents>> /\ tool.pc = "classify"
      /\ tool' = CASE Evidence(r) = {} -> left
                   [] Cardinality(Evidence(r)) > 1 -> [Planned(r, "Lost") EXCEPT !.todo = left.todo]
                   [] OTHER -> [left EXCEPT !.pc = "exists", !.row = r, !.found = CHOOSE a \in Evidence(r) : TRUE]
  BY DEF Classify
<1> HIDE DEF r
<1>4. left \in ToolTypes /\ left.pc = "classify" /\ left.todo = tool.todo \ {r} /\ left.plan = tool.plan
      /\ left.table = tool.table /\ left.mode = tool.mode /\ left.clean = tool.clean
  BY <1>1, <1>3 DEF ToolTypes
<1> HIDE DEF left
<1>5. CASE Evidence(r) = {}
  <2>1. tool' = left
    BY <1>3, <1>5, FS_EmptySet
  <2>2. \A x \in Stamped : (WasRead(x)' <=> WasRead(x)) /\ (InHand(x)' <=> InHand(x) /\ (x # r \/ WasRead(x)))
    BY <1>3, <1>4, <2>1 DEF WasRead, InHand
  <2> QED
    BY <1>3, <1>4, <1>5, <2>1, <2>2, ReadStep
<1>6. CASE Evidence(r) # {} /\ Cardinality(Evidence(r)) > 1
  <2>1. tool' = [Planned(r, "Lost") EXCEPT !.todo = left.todo]
    BY <1>3, <1>6
  <2> DEFINE plan == [x \in DOMAIN tool.plan \cup {r} |-> IF x = r THEN "Lost" ELSE tool.plan[x]]
  <2>2. plan \in Plans /\ DOMAIN plan = DOMAIN tool.plan \cup {r}
    <3>1. r \in Stamped /\ "Lost" \in Agents \cup {"Lost"}
      BY <1>1, <1>2
    <3>2. \A q \in Stamped, a \in Agents \cup {"Lost"} :
            [x \in DOMAIN tool.plan \cup {q} |-> IF x = q THEN a ELSE tool.plan[x]] \in Plans
      BY <1>1, PlansAre
    <3> QED
      BY <3>1, <3>2
  <2>3. Planned(r, "Lost") = [tool EXCEPT !.pc = "classify", !.plan = plan, !.row = 0, !.found = "Lost"]
    BY <1>1 DEF Planned, ToolTypes
  <2> HIDE DEF plan
  <2>4. tool' \in ToolTypes /\ tool'.pc = "classify" /\ tool'.todo = tool.todo \ {r} /\ tool'.plan = plan
        /\ tool'.table = tool.table /\ tool'.mode = tool.mode /\ tool'.clean = tool.clean
    BY <1>1, <1>4, <2>1, <2>2, <2>3 DEF ToolTypes
  <2>5. \A x \in Stamped : WasRead(x)' <=> WasRead(x) \/ x = r
    BY <1>2, <1>3, <2>2, <2>4 DEF WasRead
  <2>6. \A x \in Stamped : InHand(x)' <=> InHand(x)
    BY <1>2, <2>4, <2>5 DEF InHand
  <2> QED
    BY <1>2, <1>3, <1>6, <2>4, <2>5, <2>6, ReadStep
<1>7. CASE Evidence(r) # {} /\ ~(Cardinality(Evidence(r)) > 1)
  <2>1. tool' = [left EXCEPT !.pc = "exists", !.row = r, !.found = CHOOSE a \in Evidence(r) : TRUE]
    BY <1>3, <1>7
  <2>2. (CHOOSE a \in Evidence(r) : TRUE) \in Agents \cup {"Lost"}
    <3>1. Evidence(r) \subseteq Agents \cup {"Lost"}
      BY DEF Evidence, RepairInv, RepairTypes, Stamped
    <3> QED
      BY <1>7, <3>1
  <2>3. tool' \in ToolTypes /\ tool'.pc = "exists" /\ tool'.todo = tool.todo \ {r} /\ tool'.plan = tool.plan
        /\ tool'.table = tool.table /\ tool'.mode = tool.mode /\ tool'.clean = tool.clean /\ tool'.row = r
    BY <1>1, <1>2, <1>4, <2>1, <2>2 DEF ToolTypes
  <2>4. \A x \in Stamped : WasRead(x)' <=> WasRead(x) \/ x = r
    BY <1>2, <1>3, <2>3 DEF WasRead
  <2>5. \A x \in Stamped : InHand(x)' <=> InHand(x)
    BY <1>2, <2>3, <2>4 DEF InHand
  <2> QED
    BY <1>1, <1>2, <1>3, <1>7, <2>3, <2>4, <2>5, ReadStep
<1> QED
  BY <1>5, <1>6, <1>7

\* The row whose candidate was looked up is planned.
LEMMA ExistsStep == ASSUME RepairAssumption, RepairInv, Exists PROVE RepairInv'
<1> DEFINE a == IF tool.found \in agents \cup {"System", "Lost"} THEN tool.found ELSE "Lost"
<1>1. tool \in ToolTypes /\ tool.plan \in Plans /\ tool.found \in Agents \cup {"Lost"}
      /\ tool.row \in Stamped \cup {0} /\ tool.pc = "exists"
  BY DEF RepairInv, RepairTypes, ToolTypes, Exists
<1>2. a \in Agents \cup {"Lost"}
  BY <1>1
<1>3. tool' = Planned(tool.row, a) /\ UNCHANGED <<owner, settled, agents>> /\ tool.row \in Stamped
  BY DEF Exists, RepairInv, RepairTypes
<1> HIDE DEF a
<1> DEFINE plan == [x \in DOMAIN tool.plan \cup {tool.row} |-> IF x = tool.row THEN a ELSE tool.plan[x]]
<1>4. plan \in Plans /\ DOMAIN plan = DOMAIN tool.plan \cup {tool.row}
  <2>1. \A q \in Stamped, b \in Agents \cup {"Lost"} :
          [x \in DOMAIN tool.plan \cup {q} |-> IF x = q THEN b ELSE tool.plan[x]] \in Plans
    BY <1>1, PlansAre
  <2> QED
    BY <1>2, <1>3, <2>1
<1>5. Planned(tool.row, a) = [tool EXCEPT !.pc = "classify", !.plan = plan, !.row = 0, !.found = "Lost"]
  BY <1>1 DEF Planned, ToolTypes
<1> HIDE DEF plan
<1>6. tool' \in ToolTypes /\ tool'.pc = "classify" /\ tool'.todo = tool.todo /\ tool'.plan = plan
      /\ tool'.table = tool.table /\ tool'.mode = tool.mode /\ tool'.clean = tool.clean
  BY <1>1, <1>3, <1>4, <1>5 DEF ToolTypes
<1>7. \A x \in Stamped : (WasRead(x)' <=> WasRead(x)) /\ (InHand(x)' <=> InHand(x))
  BY <1>1, <1>4, <1>6 DEF WasRead, InHand
<1> QED
  BY <1>1, <1>3, <1>6, <1>7, ReadStep

\* A chunk of a plan is written: no row of it is owed any more, and no other row is
\* owed that was not.
LEMMA UpdateStep == ASSUME RepairAssumption, RepairInv, Update PROVE RepairInv'
<1>1. tool \in ToolTypes /\ tool.plan \in Plans /\ tool.plan # EmptyPlan /\ tool.pc = "classify"
      /\ tool.mode = "apply" /\ tool.todo = {} /\ UNCHANGED <<agents, settled>> /\ agents \subseteq Agents
  BY DEF RepairInv, RepairTypes, ToolTypes, Update
<1>2. PICK a \in Range(tool.plan) :
        LET group == {r \in DOMAIN tool.plan : tool.plan[r] = a}
        IN IF a \in agents \cup {"System", "Lost"}
           THEN \E rows \in {S \in SUBSET group : Cardinality(S) = ChunkOf \/ (S = group /\ Cardinality(S) < ChunkOf)} :
                  /\ owner' = [r \in Stamped |-> IF r \in rows /\ owner[r] # "absent" THEN a ELSE owner[r]]
                  /\ tool' = [tool EXCEPT !.plan = Restrict(@, DOMAIN @ \ rows)]
           ELSE tool' = ToolIdle /\ UNCHANGED owner
  BY DEF Update
<1>3. a \in Agents \cup {"Lost"} /\ a \notin {"absent", "System"}
  BY <1>1, <1>2, PlansAre DEF RepairAssumption
<1>4. CASE ~(a \in agents \cup {"System", "Lost"})
  <2>1. tool' = ToolIdle /\ UNCHANGED owner
    BY <1>2, <1>4
  <2>2. RepairTypes'
    BY <1>1, <2>1, PlansAre DEF RepairInv, RepairTypes, ToolTypes, ToolIdle
  <2>3. settled >= 1 => NoneOwed("events")
    BY DEF RepairInv, RunsSettle
  <2>4. settled = 2 => NoneOwed("facts")
    BY DEF RepairInv, RunsSettle
  <2> QED
    BY <1>1, <2>1, <2>2, <2>3, <2>4, EndStep DEF ToolIdle
<1>5. CASE a \in agents \cup {"System", "Lost"}
  <2>1. PICK rows : /\ rows \subseteq DOMAIN tool.plan
                    /\ owner' = [r \in Stamped |-> IF r \in rows /\ owner[r] # "absent" THEN a ELSE owner[r]]
                    /\ tool' = [tool EXCEPT !.plan = Restrict(@, DOMAIN @ \ rows)]
    BY <1>2, <1>5
  <2> DEFINE plan == Restrict(tool.plan, DOMAIN tool.plan \ rows)
  <2>2. plan \in Plans /\ DOMAIN plan = DOMAIN tool.plan \ rows /\ rows \subseteq Stamped
    BY <1>1, <2>1, PlansAre
  <2>3. tool' = [tool EXCEPT !.plan = plan]
    BY <1>1, <2>1 DEF ToolTypes
  <2> HIDE DEF plan
  <2>4. tool' \in ToolTypes /\ tool'.pc = "classify" /\ tool'.todo = {} /\ tool'.plan = plan
        /\ tool'.table = tool.table /\ tool'.mode = "apply" /\ tool'.clean = tool.clean
    BY <1>1, <2>2, <2>3 DEF ToolTypes
  <2>5. RepairTypes'
    BY <1>1, <1>3, <2>1, <2>4 DEF RepairInv, RepairTypes
  <2>6. \A x \in Stamped : /\ WasRead(x) <=> x \in DOMAIN tool.plan
                           /\ InHand(x) <=> x \in DOMAIN tool.plan
                           /\ WasRead(x)' <=> x \in DOMAIN tool.plan \ rows
                           /\ InHand(x)' <=> x \in DOMAIN tool.plan \ rows
    BY <1>1, <2>2, <2>4 DEF WasRead, InHand
  <2>7. RowsOf("facts") = Facts /\ RowsOf("events") = Events /\ RowsOf(tool.table) \subseteq Stamped
        /\ Events \subseteq Stamped /\ Facts \subseteq Stamped
    BY DEF RowsOf, Stamped
  <2>8. \A e \in Stamped : owner'[e] = owner[e] \/ (e \in rows /\ owner'[e] = a)
    BY <2>1
  <2>9. tool.clean => \A x \in rows : owner[x] = "System" /\ owner'[x] = a /\ Evidence(x) # {}
    BY <1>1, <2>1, <2>2, <2>6 DEF RepairInv, RunTrue, Owed
  <2>10. \A x \in Stamped : Evidence(x) # {} => Evidence(x)' # {}
    BY <1>3, <2>7, <2>8, EvidenceIs
  <2>11. ASSUME tool.clean, NEW x \in Stamped, Owed(x)', x \in RowsOf(tool.table)
         PROVE  Owed(x) /\ x \notin rows
    <3>1. owner'[x] = "System" /\ Evidence(x)' # {}
      BY <2>11 DEF Owed
    <3>2. x \notin rows /\ owner[x] = "System"
      BY <1>3, <2>1, <2>9, <2>11, <3>1
    <3>3. Evidence(x) # {}
      <4>1. CASE tool.table = "events"
        <5>1. x \in Events
          BY <2>7, <2>11, <4>1
        <5>2. SUFFICES ASSUME Evidence(x) = {} PROVE FALSE
          OBVIOUS
        <5>3. PICK e \in Events : owner'[e] # owner[e] /\ Evidence(e) = {}
          BY <3>1, <5>1, <5>2, EvidenceOfTask
        <5> QED
          BY <2>7, <2>8, <2>9, <2>11, <5>3
      <4>2. CASE tool.table = "facts"
        <5>1. \A e \in Events : e \notin rows
          BY <1>1, <2>1, <2>2, <2>6, <2>7, <4>2 DEF RepairInv, RunTrue, RepairAssumption
        <5>2. \A e \in Events : owner'[e] = owner[e]
          BY <2>7, <2>8, <5>1
        <5> QED
          BY <3>1, <5>2, EvidenceIs
      <4> QED
        BY <1>1, <4>1, <4>2 DEF ToolTypes
    <3> QED
      BY <3>2, <3>3 DEF Owed
  <2>12. RunTrue'
    <3>1. \A r \in Stamped : InHand(r)' => tool'.pc # "idle" /\ r \in RowsOf(tool'.table)
      BY <1>1, <2>4, <2>6 DEF RepairInv, RunTrue
    <3>2. tool.clean => \A r \in RowsOf(tool.table) : Owed(r)' => InHand(r)'
      BY <1>1, <2>6, <2>7, <2>11 DEF RepairInv, RunTrue
    <3>3. tool.clean => \A r \in Stamped : (InHand(r)' => owner'[r] = "System") /\ (WasRead(r)' => Owed(r)')
      BY <1>1, <2>1, <2>6, <2>10 DEF RepairInv, RunTrue, Owed
    <3> QED
      BY <2>4, <2>7, <3>1, <3>2, <3>3 DEF RunTrue, RowsOf
  <2>13. RunsSettle'
    <3>1. SUFFICES ASSUME settled >= 1 PROVE RunsSettle'
      BY <1>1 DEF RunsSettle
    <3>2. NoneOwed("events") /\ tool.clean
      BY <1>1, <3>1 DEF RepairInv, RunsSettle
    <3>3. ~NoneOwed(tool.table)
      BY <1>1, <3>1, NothingPlanned
    <3>4. tool.table = "facts"
      BY <1>1, <3>2, <3>3 DEF ToolTypes
    <3>5. settled # 2
      BY <3>1, <3>3, <3>4 DEF RepairInv, RunsSettle
    <3>6. \A e \in Events : owner'[e] = owner[e]
      BY <1>1, <2>1, <2>2, <2>6, <2>7, <2>8, <3>4 DEF RepairInv, RunTrue, RepairAssumption
    <3>7. \A e \in Events : Owed(e)' <=> Owed(e)
      BY <2>7, <3>6, EvidenceIs DEF Owed
    <3>8. NoneOwed("events")'
      BY <2>7, <3>2, <3>7 DEF NoneOwed
    <3> QED
      BY <1>1, <2>4, <3>2, <3>4, <3>5, <3>8 DEF RunsSettle
  <2> QED
    BY <2>5, <2>12, <2>13 DEF RepairInv
<1> QED
  BY <1>4, <1>5

\* Every read, write and end of the run, and whatever agents and administrators do
\* in between, keeps what is owed in hand.
LEMMA RepairInvStep == ASSUME RepairAssumption, RepairInv, [RepairNext]_repairVars PROVE RepairInv'
<1>0. /\ tool \in ToolTypes /\ EmptyPlan \in Plans /\ ToolIdle \in ToolTypes /\ settled \in 0..2
      /\ RowsOf("facts") = Facts /\ RowsOf("events") = Events /\ Stamped = Facts \cup Events
  <2>1. tool \in ToolTypes /\ tool.plan \in Plans
    BY DEF RepairInv, RepairTypes, ToolTypes
  <2>2. EmptyPlan \in Plans
    BY <2>1, PlansAre
  <2> QED
    BY <2>1, <2>2 DEF ToolTypes, ToolIdle, RepairInv, RepairTypes, RowsOf, Stamped
<1>1. ASSUME NEW mode \in {"dry_run", "apply"}, StartRun(mode) PROVE RepairInv'
  <2> DEFINE todo == OwnedBy("System", RowsOf("facts"))
  <2>1. todo \subseteq Stamped
    BY <1>0 DEF OwnedBy
  <2>2. Scan("facts") = [tool EXCEPT !.pc = "classify", !.table = "facts", !.todo = todo, !.plan = EmptyPlan]
    BY DEF Scan
  <2> HIDE DEF todo
  <2>3. tool' = [tool EXCEPT !.pc = "classify", !.table = "facts", !.todo = todo, !.plan = EmptyPlan,
                             !.mode = mode, !.clean = TRUE]
    BY <1>0, <1>1, <2>2 DEF StartRun, ToolTypes
  <2>4. tool' \in ToolTypes /\ tool'.pc = "classify" /\ tool'.table = "facts" /\ tool'.todo = todo
        /\ tool'.plan = EmptyPlan /\ tool'.clean = TRUE
    BY <1>0, <2>1, <2>3 DEF ToolTypes
  <2>5. UNCHANGED <<owner, agents, settled>>
    BY <1>1 DEF StartRun
  <2> QED
    BY <2>4, <2>5, ScanStep DEF todo
<1>2. CASE Classify
  BY <1>2, ClassifyStep
<1>3. CASE Exists
  BY <1>3, ExistsStep
<1>4. CASE Update
  BY <1>4, UpdateStep
<1>5. CASE TableDone
  <2> DEFINE todo == OwnedBy("System", RowsOf("events"))
  <2>1. todo \subseteq Stamped
    BY <1>0 DEF OwnedBy
  <2>2. tool' = [tool EXCEPT !.pc = "classify", !.table = "events", !.todo = todo, !.plan = EmptyPlan]
    BY <1>5 DEF TableDone, Scan
  <2>3. /\ UNCHANGED <<owner, agents, settled>> /\ tool.pc = "classify" /\ tool.table = "facts" /\ tool.todo = {}
        /\ tool.mode = "dry_run" \/ tool.plan = EmptyPlan
    BY <1>5 DEF TableDone, TableOver
  <2> HIDE DEF todo
  <2>4. tool' \in ToolTypes /\ tool'.pc = "classify" /\ tool'.table = "events" /\ tool'.todo = todo
        /\ tool'.plan = EmptyPlan /\ tool'.clean = tool.clean /\ tool'.mode = tool.mode
    BY <1>0, <2>1, <2>2 DEF ToolTypes
  <2>5. ASSUME settled >= 1 PROVE tool'.clean /\ (tool'.mode = "apply" => NoneOwed("facts"))
    <3>1. tool.clean
      BY <2>3, <2>5 DEF RepairInv, RunsSettle
    <3>2. tool.mode = "apply" => \A r \in Stamped : ~InHand(r)
      BY <2>3 DEF InHand, WasRead, EmptyPlan
    <3>3. \A r \in RowsOf("facts") : Owed(r) => InHand(r)
      BY <2>3, <3>1 DEF RepairInv, RunTrue
    <3> QED
      BY <1>0, <2>4, <3>1, <3>2, <3>3 DEF NoneOwed
  <2> QED
    BY <2>3, <2>4, <2>5, ScanStep DEF todo
<1>6. CASE CountKnowledge
  <2>1. /\ UNCHANGED <<owner, agents>> /\ tool' = ToolIdle /\ tool.pc = "classify" /\ tool.table = "events"
        /\ tool.todo = {} /\ (tool.mode = "dry_run" \/ tool.plan = EmptyPlan)
        /\ settled' = IF tool.mode = "apply" /\ tool.clean /\ settled < 2 THEN settled + 1 ELSE settled
    BY <1>6 DEF CountKnowledge, TableOver
  <2>2. RepairTypes'
    BY <1>0, <2>1 DEF RepairInv, RepairTypes, ToolIdle
  <2>3. ASSUME tool.mode = "apply", tool.clean PROVE NoneOwed("events")
    <3>1. \A r \in Stamped : ~InHand(r)
      BY <2>1, <2>3 DEF InHand, WasRead, EmptyPlan
    <3>2. \A r \in RowsOf("events") : Owed(r) => InHand(r)
      BY <2>1, <2>3 DEF RepairInv, RunTrue
    <3> QED
      BY <1>0, <3>1, <3>2 DEF NoneOwed
  <2>4. settled' >= 1 => NoneOwed("events")
    BY <1>0, <2>1, <2>3 DEF RepairInv, RunsSettle
  <2>5. settled' = 2 => NoneOwed("facts")
    BY <1>0, <2>1 DEF RepairInv, RunsSettle
  <2> QED
    BY <2>1, <2>2, <2>4, <2>5, EndStep DEF ToolIdle
<1>7. CASE StopRun
  <2>1. UNCHANGED <<owner, agents, settled>> /\ tool' = ToolIdle
    BY <1>7 DEF StopRun
  <2>2. RepairTypes'
    BY <1>0, <2>1 DEF RepairInv, RepairTypes, ToolIdle
  <2>3. (settled >= 1 => NoneOwed("events")) /\ (settled = 2 => NoneOwed("facts"))
    BY <1>0 DEF RepairInv, RunsSettle
  <2> QED
    BY <2>1, <2>2, <2>3, EndStep DEF ToolIdle
<1>8. ASSUME Disturb, owner' \in [Stamped -> {"absent", "System", "Lost"} \cup Agents], agents' \subseteq Agents
      PROVE  RepairInv'
  <2>1. settled' = 0 /\ tool' = [tool EXCEPT !.clean = FALSE]
    BY <1>8 DEF Disturb
  <2>2. tool' \in ToolTypes /\ tool'.clean = FALSE /\ tool'.pc = tool.pc /\ tool'.plan = tool.plan
        /\ tool'.todo = tool.todo /\ tool'.row = tool.row /\ tool'.table = tool.table
    BY <1>0, <2>1 DEF ToolTypes
  <2>3. \A r \in Stamped : InHand(r)' <=> InHand(r)
    BY <2>2 DEF InHand, WasRead
  <2>4. RepairTypes'
    BY <1>8, <2>1, <2>2 DEF RepairInv, RepairTypes
  <2>5. RunTrue'
    BY <1>0, <2>2, <2>3 DEF RepairInv, RunTrue, RowsOf
  <2> QED
    BY <2>1, <2>4, <2>5 DEF RepairInv, RunsSettle
<1>9. ASSUME NEW r \in Stamped, NEW a \in Agents \cup {"System"}, Write(r, a) PROVE RepairInv'
  BY <1>8, <1>9 DEF Write, RepairInv, RepairTypes
<1>10. ASSUME NEW a \in Agents, NEW b \in Agents, MergeAuthors(a, b) PROVE RepairInv'
  BY <1>8, <1>10 DEF MergeAuthors, RepairInv, RepairTypes
<1>11. ASSUME NEW a \in Agents, RemoveAuthor(a) PROVE RepairInv'
  BY <1>8, <1>11 DEF RemoveAuthor, RepairInv, RepairTypes
<1>12. CASE UNCHANGED repairVars
  BY <1>12 DEF repairVars, RepairInv, RepairTypes, RunTrue, RunsSettle, NoneOwed, Owed, InHand, WasRead,
               RowsOf, Stamped, Evidence
<1> QED
  BY <1>1, <1>2, <1>3, <1>4, <1>5, <1>6, <1>7, <1>9, <1>10, <1>11, <1>12 DEF RepairNext, RepairStep

\* After two complete runs in apply mode with nothing in between a third has nothing
\* to assign, whatever the stamps, the evidence and the failed writes before them
\* (reattribute_system_owned).
THEOREM TwoRunsSettle == ASSUME RepairAssumption PROVE RepairSpec => []RepairSettles
<1>1. RepairInit => RepairInv
  <2> SUFFICES ASSUME RepairInit PROVE RepairInv
    OBVIOUS
  <2>1. tool = ToolIdle /\ settled = 0 /\ agents = Agents
        /\ owner \in [Stamped -> {"absent", "System", "Lost"} \cup Agents]
    BY DEF RepairInit
  <2>2. ToolIdle \in ToolTypes
    <3>1. EmptyPlan \in [{} -> Agents \cup {"Lost"}] /\ {} \in SUBSET Stamped
      BY DEF EmptyPlan
    <3>2. EmptyPlan \in Plans
      BY <3>1 DEF Plans
    <3> QED
      BY <3>2 DEF ToolIdle, ToolTypes
  <2>3. RepairTypes
    BY <2>1, <2>2 DEF RepairTypes, ToolIdle
  <2>4. RunTrue
    BY <2>1 DEF RunTrue, InHand, WasRead, ToolIdle, EmptyPlan
  <2> QED
    BY <2>1, <2>3, <2>4 DEF RepairInv, RunsSettle
<1>2. RepairInv /\ [RepairNext]_repairVars => RepairInv'
  BY RepairInvStep
<1>3. RepairInv => RepairSettles
  <2> SUFFICES ASSUME RepairInv, settled = 2 PROVE tool.plan = EmptyPlan
    BY DEF RepairSettles
  <2>1. NoneOwed("events") /\ NoneOwed("facts") /\ tool.table \in {"facts", "events"}
    BY DEF RepairInv, RunsSettle, RepairTypes, ToolTypes
  <2> QED
    BY <2>1, NothingPlanned
<1> QED
  BY <1>1, <1>2, <1>3, PTL DEF RepairSpec

-----------------------------------------------------------------------------
(* The embedding of a text *)

WriteAnswers == {"none", "ok", "too_large", "error", "rejected", "transient"}
WriteTypes == [pc : {"rest", "gate", "embed", "told", "dropped", "stored"}, route : {"rest", "mcp"},
               measured : {"no", "exact", "estimate"}, left : Int, answer : WriteAnswers, heard : BOOLEAN]

\* While a text is on its way nobody has been answered, and the backend has refused nothing.
OnItsWay == write.pc \in {"gate", "embed"} => write.answer = "none" /\ ~write.heard

EmbedInv == text \in Texts /\ write \in WriteTypes /\ OnItsWay /\ AnswersHonest

\* A text with more words and special tokens than the limit has more tokens too.
LEMMA ExceedsIsTooMuch ==
  ASSUME EmbeddingAssumption, text \in Texts, Exceeds PROVE text.tokens > MaxTokens
BY DEF EmbeddingAssumption, Exceeds

\* The answer a step gives to a write that has failed.
LEMMA FailedIs ==
  ASSUME write \in WriteTypes, NEW answer \in WriteAnswers
  PROVE  /\ Failed(answer) \in WriteTypes /\ Failed(answer).pc \in {"told", "dropped"}
         /\ Failed(answer).answer = answer /\ Failed(answer).measured = write.measured
         /\ Failed(answer).heard = write.heard
BY DEF Failed, Now, WriteTypes

\* What a write is when it begins.
LEMMA RestingSubmits ==
  ASSUME NEW route \in {"rest", "mcp"}
  PROVE  LET begun == [Resting EXCEPT !.pc = "gate", !.route = route] IN
         begun \in WriteTypes /\ begun.answer = "none" /\ ~begun.heard
<1>1. Resting \in WriteTypes /\ Resting.answer = "none" /\ ~Resting.heard
  BY DEF Resting, WriteTypes, WriteAnswers
<1> QED
  BY <1>1 DEF WriteTypes

\* A write that has only begun, or waits for its vector, has had no answer.
LEMMA UnansweredIsHonest ==
  ASSUME text \in Texts, text' = text, write' \in WriteTypes, write'.answer = "none", ~write'.heard
  PROVE  EmbedInv'
BY DEF EmbedInv, OnItsWay, AnswersHonest

\* Every handler, attempt and resubmission keeps the answers honest.
LEMMA EmbedInvStep == ASSUME EmbeddingAssumption, EmbedInv, [EmbedNext]_embedVars PROVE EmbedInv'
<1>0. text \in Texts /\ write \in WriteTypes /\ OnItsWay
  BY DEF EmbedInv
<1>1. ASSUME NEW route \in {"rest", "mcp"}, Submit(route) PROVE EmbedInv'
  <2>1. text' = text /\ write' = [Resting EXCEPT !.pc = "gate", !.route = route]
    BY <1>1 DEF Submit
  <2>2. write' \in WriteTypes /\ write'.answer = "none" /\ ~write'.heard
    BY <1>1, <2>1, RestingSubmits
  <2> QED
    BY <1>0, <2>1, <2>2, UnansweredIsHonest
<1>2. CASE Gate
  <2>0. write.pc = "gate" /\ write.answer = "none" /\ ~write.heard
        /\ text' = text /\ model' = model /\ sends' = sends
    BY <1>0, <1>2 DEF Gate, OnItsWay
  <2>1. Attempts \in Int
    BY DEF EmbeddingAssumption
  <2>2. ASSUME NEW how \in {"exact", "estimate"},
               write' = [Now("embed") EXCEPT !.measured = how, !.left = Attempts]
        PROVE  EmbedInv'
    <3>1. write' \in WriteTypes /\ write'.answer = "none" /\ ~write'.heard
      BY <1>0, <2>0, <2>1, <2>2 DEF Now, WriteTypes
    <3> QED
      BY <1>0, <2>0, <3>1, UnansweredIsHonest
  <2>3. ASSUME NEW how \in {"exact", "estimate"}, how = "exact" => text.tokens > MaxTokens,
               write' = [Now("told") EXCEPT !.measured = how, !.answer = "too_large"]
        PROVE  EmbedInv'
    <3>1. write' \in WriteTypes /\ write'.answer = "too_large" /\ write'.pc = "told" /\ write'.measured = how
      BY <1>0, <2>3 DEF Now, WriteTypes, WriteAnswers
    <3> QED
      BY <1>0, <2>0, <2>3, <3>1 DEF EmbedInv, OnItsWay, AnswersHonest
  <2>4. CASE Admit("exact", text.tokens)
    BY <2>2, <2>3, <2>4 DEF Admit
  <2>5. CASE Admit("estimate", text.estimate)
    BY <2>2, <2>3, <2>5 DEF Admit
  <2>6. CASE Unmeasured
    <3>1. CASE write.route = "rest"
      <4>1. write' = [Now("told") EXCEPT !.answer = "error"]
        BY <2>6, <3>1 DEF Unmeasured
      <4>2. write' \in WriteTypes /\ write'.answer = "error" /\ write'.pc = "told"
        BY <1>0, <4>1 DEF Now, WriteTypes, WriteAnswers
      <4> QED
        BY <1>0, <2>0, <4>2 DEF EmbedInv, OnItsWay, AnswersHonest
    <3>2. CASE write.route # "rest"
      <4>1. write' = [Now("embed") EXCEPT !.left = Attempts]
        BY <2>6, <3>2 DEF Unmeasured
      <4>2. write' \in WriteTypes /\ write'.answer = "none" /\ ~write'.heard
        BY <1>0, <2>0, <2>1, <4>1 DEF Now, WriteTypes
      <4> QED
        BY <1>0, <2>0, <4>2, UnansweredIsHonest
    <3> QED
      BY <3>1, <3>2
  <2> QED
    BY <1>2, <2>4, <2>5, <2>6 DEF Gate
<1>3. CASE Preflight
  <2>1. text' = text /\ model' = model /\ write' = Failed("too_large") /\ Exceeds
    BY <1>3 DEF Preflight
  <2>2. text.tokens > MaxTokens
    BY <1>0, <2>1, ExceedsIsTooMuch
  <2> QED
    BY <1>0, <2>1, <2>2, FailedIs DEF EmbedInv, OnItsWay, AnswersHonest, WriteAnswers
<1>4. CASE Refused
  <2>1. text' = text /\ model' = model /\ TooLarge /\ write' = [Failed("too_large") EXCEPT !.heard = TRUE]
    BY <1>4 DEF Refused
  <2>2. Failed("too_large") \in WriteTypes /\ Failed("too_large").pc \in {"told", "dropped"}
        /\ Failed("too_large").answer = "too_large"
    BY <1>0, FailedIs DEF WriteAnswers
  <2>3. write' \in WriteTypes /\ write'.pc \in {"told", "dropped"} /\ write'.answer = "too_large"
    BY <2>1, <2>2 DEF WriteTypes
  <2> QED
    BY <1>0, <2>1, <2>3 DEF EmbedInv, OnItsWay, AnswersHonest, TooLarge
<1>5. CASE Embedded
  BY <1>0, <1>5 DEF Embedded, Now, EmbedInv, WriteTypes, OnItsWay, AnswersHonest, WriteAnswers
<1>6. CASE Rejected
  <2>1. text' = text /\ write' = Failed("rejected")
    BY <1>6 DEF Rejected
  <2> QED
    BY <1>0, <2>1, FailedIs DEF EmbedInv, OnItsWay, AnswersHonest, WriteAnswers
<1>7. CASE Unwell
  <2>0. text' = text /\ ~write.heard /\ write.pc = "embed" /\ write.answer = "none"
    BY <1>0, <1>7 DEF Unwell, Sendable, OnItsWay
  <2>1. CASE write' = Used
    BY <1>0, <2>0, <2>1 DEF Used, EmbedInv, WriteTypes, OnItsWay, AnswersHonest
  <2>2. CASE write' = Failed("transient")
    BY <1>0, <2>0, <2>2, FailedIs DEF EmbedInv, OnItsWay, AnswersHonest, WriteAnswers
  <2> QED
    BY <1>7, <2>1, <2>2 DEF Unwell
<1>8. CASE Resubmit
  <2>1. text' = text /\ write' = [Resting EXCEPT !.pc = "gate", !.route = write.route]
    BY <1>8 DEF Resubmit
  <2>2. write.route \in {"rest", "mcp"}
    BY <1>0 DEF WriteTypes
  <2>3. write' \in WriteTypes /\ write'.answer = "none" /\ ~write'.heard
    BY <2>1, <2>2, RestingSubmits
  <2> QED
    BY <1>0, <2>1, <2>3, UnansweredIsHonest
<1>9. CASE UNCHANGED embedVars
  BY <1>9 DEF embedVars, EmbedInv, OnItsWay, AnswersHonest, TooLarge
<1> QED
  BY <1>1, <1>2, <1>3, <1>4, <1>5, <1>6, <1>7, <1>8, <1>9 DEF EmbedNext

\* Who is told that a text is too large can believe it unless it was only estimated, and
\* who is told to try again has not been refused for the size, whatever the text, the limits
\* and the number of attempts (check_embed_size, preflight, classify).
THEOREM AnswersAreHonest == ASSUME EmbeddingAssumption PROVE EmbedSpec => []AnswersHonest
<1>1. EmbedInit => EmbedInv
  BY DEF EmbedInit, Resting, EmbedInv, WriteTypes, OnItsWay, AnswersHonest, WriteAnswers
<1>2. EmbedInv /\ [EmbedNext]_embedVars => EmbedInv'
  BY EmbedInvStep
<1>3. EmbedInv => AnswersHonest
  BY DEF EmbedInv
<1> QED
  BY <1>1, <1>2, <1>3, PTL DEF EmbedSpec
-----------------------------------------------------------------------------
(* The validators *)

\* Payloads that are alike in field k.
Alike(p, r, k) == (Given(p, k) <=> Given(r, k)) /\ (Given(p, k) => Field(p, k) = Field(r, k))

\* A detail names its field.
LEMMA DetailOf == ASSUME NEW q, NEW rule PROVE Detail(q, rule).field = q
BY DEF Detail

\* What the rules of a type say of field k, they say of it whatever else is there.
LEMMA FieldByField ==
  ASSUME NEW p, NEW r, NEW what, NEW d \in PerType(what, p)
  PROVE  /\ what \in Types
         /\ \E k \in Ruled : d.field = <<k>> /\ (Alike(p, r, k) => d \in PerType(what, r))
<1>1. ASSUME NEW k, NEW min, NEW max
      PROVE  /\ d \in RequiredText(p, k, min, max) => d.field = <<k>>
             /\ Alike(p, r, k) => RequiredText(r, k, min, max) = RequiredText(p, k, min, max)
  BY DetailOf DEF Blame, RequiredText, Alike
<1>2. ASSUME NEW k, NEW words
      PROVE  /\ d \in OneOf(p, k, words) => d.field = <<k>>
             /\ Alike(p, r, k) => OneOf(r, k, words) = OneOf(p, k, words)
  BY DetailOf DEF Blame, OneOf, Alike
<1>3. ASSUME NEW k, NEW max
      PROVE  /\ d \in AtMost(p, k, max) => d.field = <<k>>
             /\ Alike(p, r, k) => AtMost(r, k, max) = AtMost(p, k, max)
  BY DetailOf DEF Blame, AtMost, Alike
<1>4. /\ d \in TaskId(p) => d.field = <<"task_id">>
      /\ Alike(p, r, "task_id") => TaskId(r) = TaskId(p)
  BY DetailOf DEF Blame, TaskId, Alike
<1>5. /\ d \in Email(p) => d.field = <<"email">>
      /\ Alike(p, r, "email") => Email(r) = Email(p)
  BY DetailOf DEF Blame, Email, Alike
<1>6. ASSUME NEW k
      PROVE  /\ d \in Rfc3339(p, k) => d.field = <<k>>
             /\ Alike(p, r, k) => Rfc3339(r, k) = Rfc3339(p, k)
  BY DetailOf DEF Blame, Rfc3339, Alike
<1>7. what \in Types
  BY DEF PerType, Types
<1> SUFFICES \E k \in Ruled : d.field = <<k>> /\ (Alike(p, r, k) => d \in PerType(what, r))
  BY <1>7
<1>8. {"host", "name", "email", "birthdate", "task_id", "status", "key", "value", "service",
       "event", "version", "port", "tool", "phase", "detail"} \subseteq Ruled
  BY DEF Ruled
<1>9. CASE what = "UserFact"
  <2>1. PerType(what, p) = UserFact(p) /\ PerType(what, r) = UserFact(r) BY <1>9 DEF PerType
  <2>2. CASE d \in RequiredText(p, "name", 1, 256) BY <1>1, <1>8, <2>1, <2>2 DEF UserFact
  <2>3. CASE d \in Email(p) BY <1>5, <1>8, <2>1, <2>3 DEF UserFact
  <2>4. CASE d \in Rfc3339(p, "birthdate") BY <1>6, <1>8, <2>1, <2>4 DEF UserFact
  <2> QED BY <2>1, <2>2, <2>3, <2>4 DEF UserFact
<1>10. CASE what = "TaskFact"
  <2>1. PerType(what, p) = TaskFact(p) /\ PerType(what, r) = TaskFact(r) BY <1>10 DEF PerType
  <2> DEFINE words == {"planned", "in_progress", "blocked", "done", "cancelled"}
             need(t) == Blame(~Given(t, "task_id"), "task_id", "required")
  <2>2. CASE d \in need(p)
    <3>1. d.field = <<"task_id">> /\ (Alike(p, r, "task_id") => need(r) = need(p))
      BY <2>2, DetailOf DEF Blame, Alike
    <3> QED BY <1>8, <2>1, <2>2, <3>1 DEF TaskFact
  <2>3. CASE d \in TaskId(p) BY <1>4, <1>8, <2>1, <2>3 DEF TaskFact
  <2>4. CASE d \in OneOf(p, "status", words) BY <1>2, <1>8, <2>1, <2>4 DEF TaskFact
  <2> QED BY <2>1, <2>2, <2>3, <2>4 DEF TaskFact
<1>11. CASE what = "EnvFact"
  <2>1. PerType(what, p) = EnvFact(p) /\ PerType(what, r) = EnvFact(r) BY <1>11 DEF PerType
  <2> DEFINE shape(t) == Blame(Given(t, "key") /\ IsText(Field(t, "key"))
                                 /\ ~Looks(Field(t, "key"), {"ENV_KEY"}), "key", "shape")
             need(t) == Blame(~Given(t, "value"), "value", "required")
             size(t) == Blame(Given(t, "value") /\ Field(t, "value").size > 16 * 1024, "value", "size")
  <2>2. CASE d \in RequiredText(p, "key", 1, 256) BY <1>1, <1>8, <2>1, <2>2 DEF EnvFact
  <2>3. CASE d \in shape(p)
    <3>1. d.field = <<"key">> /\ (Alike(p, r, "key") => shape(r) = shape(p))
      BY <2>3, DetailOf DEF Blame, Alike
    <3> QED BY <1>8, <2>1, <2>3, <3>1 DEF EnvFact
  <2>4. CASE d \in need(p) \cup size(p)
    <3>1. d.field = <<"value">> /\ (Alike(p, r, "value") => need(r) = need(p) /\ size(r) = size(p))
      BY <2>4, DetailOf DEF Blame, Alike
    <3> QED BY <1>8, <2>1, <2>4, <3>1 DEF EnvFact
  <2>5. CASE d \in TaskId(p) BY <1>4, <1>8, <2>1, <2>5 DEF EnvFact
  <2> QED BY <2>1, <2>2, <2>3, <2>4, <2>5 DEF EnvFact
<1>12. CASE what = "service"
  <2>1. PerType(what, p) = ServiceEvent(p) /\ PerType(what, r) = ServiceEvent(r) BY <1>12 DEF PerType
  <2>2. CASE d \in RequiredText(p, "service", 1, 128) BY <1>1, <1>8, <2>1, <2>2 DEF ServiceEvent
  <2>3. CASE d \in RequiredText(p, "host", 1, 64) BY <1>1, <1>8, <2>1, <2>3 DEF ServiceEvent
  <2>4. CASE d \in OneOf(p, "event", {"up", "down", "restart", "version_changed"})
    BY <1>2, <1>8, <2>1, <2>4 DEF ServiceEvent
  <2>5. CASE d \in AtMost(p, "version", 64) BY <1>3, <1>8, <2>1, <2>5 DEF ServiceEvent
  <2>6. CASE d \in Port(p)
    <3>1. d.field = <<"port">> /\ (Alike(p, r, "port") => Port(r) = Port(p))
      BY <2>6, DetailOf DEF Blame, Port, Alike
    <3> QED BY <1>8, <2>1, <2>6, <3>1 DEF ServiceEvent
  <2> QED BY <2>1, <2>2, <2>3, <2>4, <2>5, <2>6 DEF ServiceEvent
<1>13. CASE what = "execution"
  <2>1. PerType(what, p) = ExecutionEvent(p) /\ PerType(what, r) = ExecutionEvent(r)
    BY <1>13 DEF PerType
  <2> DEFINE need(t) == Blame(~Given(t, "task_id"), "task_id", "required")
  <2>2. CASE d \in need(p)
    <3>1. d.field = <<"task_id">> /\ (Alike(p, r, "task_id") => need(r) = need(p))
      BY <2>2, DetailOf DEF Blame, Alike
    <3> QED BY <1>8, <2>1, <2>2, <3>1 DEF ExecutionEvent
  <2>3. CASE d \in TaskId(p) BY <1>4, <1>8, <2>1, <2>3 DEF ExecutionEvent
  <2>4. CASE d \in RequiredText(p, "tool", 1, 128) BY <1>1, <1>8, <2>1, <2>4 DEF ExecutionEvent
  <2>5. CASE d \in OneOf(p, "phase", {"started", "completed", "failed"})
    BY <1>2, <1>8, <2>1, <2>5 DEF ExecutionEvent
  <2>6. CASE d \in AtMost(p, "detail", 4096) BY <1>3, <1>8, <2>1, <2>6 DEF ExecutionEvent
  <2> QED BY <2>1, <2>2, <2>3, <2>4, <2>5, <2>6 DEF ExecutionEvent
<1> QED BY <1>7, <1>9, <1>10, <1>11, <1>12, <1>13 DEF Types

\* What is above a path's front is above the path, and its front is.
LEMMA FrontIsAbove ==
  ASSUME NEW S, NEW q \in Seq(S), q # <<>>
  PROVE  /\ Front(q) \in Seq(S) /\ IsStrictPrefix(Front(q), q) /\ Last(q) \in S
         /\ \A r \in Seq(S) : IsStrictPrefix(r, Front(q)) => IsStrictPrefix(r, q)
<1>1. Len(q) \in Nat \ {0} BY EmptySeq
<1>2. /\ Front(q) \in Seq(S) /\ Len(Front(q)) = Len(q) - 1
      /\ \A i \in 1..Len(q) - 1 : Front(q)[i] = q[i]
  <2> DEFINE n == Len(q) - 1
  <2>1. n \in Nat /\ \A i \in 1..n : q[i] \in S /\ 1 + i - 1 = i BY <1>1
  <2>2. /\ SubSeq(q, 1, n) \in Seq(S)
        /\ Len(SubSeq(q, 1, n)) = IF 1 <= n THEN n - 1 + 1 ELSE 0
        /\ \A i \in 1..n - 1 + 1 : SubSeq(q, 1, n)[i] = q[1 + i - 1]
    <3> HIDE DEF n
    <3> QED BY <2>1, SubSeqProperties
  <2>3. Front(q) = SubSeq(q, 1, n) BY DEF Front
  <2> HIDE DEF n
  <2>4. n - 1 + 1 = n /\ (IF 1 <= n THEN n - 1 + 1 ELSE 0) = n BY <2>1
  <2>5. Front(q) \in Seq(S) /\ Len(Front(q)) = n /\ \A i \in 1..n : Front(q)[i] = q[i]
    BY <2>1, <2>2, <2>3, <2>4
  <2> QED BY <2>5 DEF n
<1>3. SubSeq(Front(q), 1, Len(Front(q))) = SubSeq(q, 1, Len(Front(q))) BY <1>1, <1>2 DEF Front
<1>4. ASSUME NEW r \in Seq(S), IsStrictPrefix(r, Front(q)) PROVE IsStrictPrefix(r, q)
  <2>1. Len(r) \in Nat /\ Len(r) <= Len(q) - 1 BY <1>2, <1>4 DEF IsStrictPrefix, IsPrefix
  <2>2. SubSeq(Front(q), 1, Len(r)) = SubSeq(q, 1, Len(r)) BY <1>1, <1>2, <2>1
  <2> QED BY <1>1, <1>4, <2>1, <2>2 DEF IsStrictPrefix, IsPrefix
<1> QED BY <1>1, <1>2, <1>3, <1>4 DEF IsStrictPrefix, IsPrefix, Last

\* Nothing but the root is above a field, and nothing above the root.
LEMMA RootAlone ==
  ASSUME NEW S, NEW r \in Seq(S)
  PROVE  /\ ~IsStrictPrefix(r, <<>>)
         /\ \A k \in S : r # <<>> => ~IsStrictPrefix(r, <<k>>)
<1>1. Len(r) \in Nat /\ (Len(r) = 0 => r = <<>>) /\ Len(<<>>) = 0 BY EmptySeq
<1>2. ASSUME NEW k \in S, r # <<>>, IsStrictPrefix(r, <<k>>) PROVE FALSE
  <2>1. <<k>> \in Seq(S) /\ Len(<<k>>) = 1 /\ <<k>>[1] = k OBVIOUS
  <2>2. Len(r) = 1 BY <1>1, <1>2, <2>1 DEF IsStrictPrefix, IsPrefix
  <2>3. SubSeq(r, 1, 1) = SubSeq(<<k>>, 1, 1) BY <1>2, <2>2 DEF IsStrictPrefix, IsPrefix
  <2>4. r[1] = k
    <3>1. \A t \in Seq(S) : Len(t) = 1 => SubSeq(t, 1, 1)[1] = t[1] BY SubSeqProperties
    <3> QED BY <2>1, <2>2, <2>3, <3>1
  <2>5. r = <<k>> BY <2>1, <2>2, <2>4, SeqEqual
  <2> QED BY <1>2, <2>5 DEF IsStrictPrefix
<1> QED BY <1>1, <1>2 DEF IsStrictPrefix, IsPrefix

\* What has been named and put right is named no more, at any depth.
LEMMA MendedIsRight ==
  ASSUME ValidationAssumption, NEW p, IsTree(p), NEW what, NEW named,
         named = {d.field : d \in ValidateWrite(what, p)}
  PROVE  ValidateWrite(what, Mended(p, named)) = {} /\ Mended(p, named)[<<>>] = p[<<>>]
<1> DEFINE m == Mended(p, named)
           Only(k) == Alone([j \in {k} |-> Good[j]])
           S == Ruled \cup UNION {Range(q) : q \in DOMAIN p}
<1>1. /\ TimestampFields \cup {"host", "hostname"} \subseteq Ruled /\ Ruled \subseteq S
      /\ \A q \in DOMAIN p : q \in Seq(S) /\ (q # <<>> => Front(q) \in DOMAIN p)
  <2>1. \A T : T \subseteq S => \A q \in Seq(T) : q \in Seq(S) OBVIOUS
  <2>2. UNION {Range(q) : q \in DOMAIN p} \subseteq S OBVIOUS
  <2>3. \A q \in DOMAIN p : q \in Seq(S) /\ (q # <<>> => Front(q) \in DOMAIN p)
    <3> HIDE DEF S
    <3> QED BY <2>1, <2>2 DEF IsTree
  <2> QED BY <2>3 DEF Ruled
<1> HIDE DEF S
<1>2. \A q \in named : q \in Seq(S) \ {<<>>} /\ Front(q) \in DOMAIN p /\ Last(q) \in Ruled
  <2> SUFFICES ASSUME NEW d \in ValidateWrite(what, p)
               PROVE  /\ d.field \in Seq(S) \ {<<>>} /\ Front(d.field) \in DOMAIN p
                      /\ Last(d.field) \in Ruled
    OBVIOUS
  <2>1. CASE d \in Sanity(p)
    <3>1. d.field \in Walk(p) /\ Last(d.field) \in Ruled
      BY <1>1, <2>1, DetailOf DEF Sanity, TimestampRange, HostnameShape
    <3> QED BY <1>1, <3>1 DEF Walk
  <2>2. CASE d \in PerType(what, p)
    <3>1. PICK k \in Ruled : d.field = <<k>> BY <2>2, FieldByField
    <3>2. Front(<<k>>) = <<>> /\ Last(<<k>>) = k BY DEF Front, Last
    <3> QED BY <1>1, <3>1, <3>2 DEF IsTree
  <2> QED BY <2>1, <2>2 DEF ValidateWrite
<1>3. \A q \in DOMAIN m : q \in Seq(S) /\ (q # <<>> => Front(q) \in DOMAIN p /\ Front(q) \notin named)
  <2> SUFFICES ASSUME NEW q \in DOMAIN m
               PROVE q \in Seq(S) /\ (q # <<>> => Front(q) \in DOMAIN p /\ Front(q) \notin named)
    OBVIOUS
  <2>1. q \in DOMAIN p \cup named /\ \A r \in named : ~IsStrictPrefix(r, q) BY DEF Mended
  <2>2. q \in Seq(S) /\ (q # <<>> => Front(q) \in DOMAIN p) BY <1>1, <1>2, <2>1
  <2> QED BY <2>1, <2>2, FrontIsAbove
<1>4. \A q \in DOMAIN m : m[q] = IF q \in named THEN Good[Last(q)] ELSE p[q]
  BY DEF Mended
<1>5. \A q \in DOMAIN m : q # <<>> => m[Front(q)] = p[Front(q)]
  <2>1. ASSUME NEW q \in DOMAIN m, q # <<>> PROVE Front(q) \in DOMAIN m
    <3>1. Front(q) \in DOMAIN p /\ \A r \in named : ~IsStrictPrefix(r, q) BY <1>3, <2>1 DEF Mended
    <3>2. \A r \in named : ~IsStrictPrefix(r, Front(q)) BY <1>2, <1>3, <2>1, <3>1, FrontIsAbove
    <3> QED BY <3>1, <3>2 DEF Mended
  <2> QED BY <1>3, <1>4, <2>1
<1>6. <<>> \in DOMAIN m /\ m[<<>>] = p[<<>>]
  <2>1. <<>> \in DOMAIN m BY <1>2, RootAlone DEF Mended, IsTree
  <2> QED BY <1>2, <1>4, <2>1
<1>7. \A k \in S : <<k>> \in DOMAIN m <=> <<k>> \in DOMAIN p \cup named
  BY <1>2, RootAlone DEF Mended
<1>8. \A k \in Ruled : /\ DOMAIN Only(k) = {<<>>, <<k>>} /\ Only(k)[<<k>>] = Good[k]
                       /\ Only(k)[<<>>].is = "object"
  BY DEF Alone
<1>9. \A q \in named : q \in DOMAIN p => \A r \in named : IsStrictPrefix(r, q) => q \notin DOMAIN m
  BY DEF Mended
<1>10. ASSUME NEW d \in PerType(what, m) PROVE FALSE
  <2>1. /\ what \in Types
        /\ \E k \in Ruled : d.field = <<k>> /\ (Alike(m, p, k) => d \in PerType(what, p))
    BY <1>10, FieldByField
  <2>2. PICK k \in Ruled : d.field = <<k>> /\ (Alike(m, p, k) => d \in PerType(what, p)) BY <2>1
  <2>3. CASE <<k>> \in named
    <3>1. PICK j \in Ruled : d.field = <<j>> /\ (Alike(m, Only(k), j) => d \in PerType(what, Only(k)))
      BY <1>10, FieldByField
    <3>2. j = k BY <2>2, <3>1
    <3>3. Last(<<k>>) = k BY DEF Last
    <3>4. Alike(m, Only(k), k) BY <1>1, <1>4, <1>7, <1>8, <2>3, <3>3 DEF Alike, Given, Field
    <3>5. d \in ValidateWrite(what, Only(k)) BY <3>1, <3>2, <3>4 DEF ValidateWrite
    <3> QED BY <2>1, <2>2, <3>5 DEF ValidationAssumption
  <2>4. CASE <<k>> \notin named
    <3>1. <<k>> \in DOMAIN m <=> <<k>> \in DOMAIN p BY <1>1, <1>7, <2>4
    <3>2. CASE <<k>> \in DOMAIN m
      <4>1. Alike(m, p, k) BY <1>4, <2>4, <3>1, <3>2 DEF Alike, Given, Field
      <4> QED BY <2>2, <2>4, <4>1 DEF ValidateWrite
    <3>3. CASE <<k>> \notin DOMAIN m
      <4>1. Alike(m, p, k) BY <3>1, <3>3 DEF Alike, Given
      <4> QED BY <2>2, <2>4, <4>1 DEF ValidateWrite
    <3> QED BY <3>2, <3>3
  <2> QED BY <2>3, <2>4
<1>11. ASSUME NEW q \in Walk(m), Last(q) \in Ruled
       PROVE  \/ q \notin named /\ q \in Walk(p) /\ m[q] = p[q]
              \/ /\ q \in named /\ <<Last(q)>> \in Walk(Only(Last(q))) /\ Last(<<Last(q)>>) = Last(q)
                 /\ m[q] = Only(Last(q))[<<Last(q)>>]
  <2>1. q \in DOMAIN m /\ q # <<>> /\ p[Front(q)].is = "object" BY <1>5, <1>11 DEF Walk
  <2>2. CASE q \notin named
    <3>1. q \in DOMAIN p BY <2>1, <2>2 DEF Mended
    <3> QED BY <1>4, <2>1, <2>2, <3>1 DEF Walk
  <2>3. CASE q \in named
    <3>1. Front(<<Last(q)>>) = <<>> /\ Last(<<Last(q)>>) = Last(q) /\ <<Last(q)>> # <<>> BY DEF Front, Last
    <3> QED BY <1>4, <1>8, <1>11, <2>1, <2>3, <3>1 DEF Walk
  <2> QED BY <2>2, <2>3
<1>12. ASSUME NEW d \in Sanity(m) PROVE FALSE
  <2>1. PICK q \in Walk(m) : /\ Last(q) \in Ruled /\ d.field = q
                             /\ \/ d = Detail(q, "timestamp_range") /\ Last(q) \in TimestampFields
                                   /\ IsText(m[q]) /\ ~Looks(m[q], {"near"})
                                \/ d = Detail(q, "hostname_shape") /\ Last(q) \in {"host", "hostname"}
                                   /\ ~Looks(m[q], {"hostname"})
    BY <1>1, DetailOf DEF Sanity, TimestampRange, HostnameShape
  <2>2. CASE q \notin named /\ q \in Walk(p) /\ m[q] = p[q]
    <3>1. d \in Sanity(p) BY <2>1, <2>2 DEF Sanity, TimestampRange, HostnameShape
    <3> QED BY <2>1, <2>2, <3>1 DEF ValidateWrite
  <2>3. CASE /\ q \in named /\ <<Last(q)>> \in Walk(Only(Last(q))) /\ Last(<<Last(q)>>) = Last(q)
             /\ m[q] = Only(Last(q))[<<Last(q)>>]
    <3>1. PICK rule \in {"timestamp_range", "hostname_shape"} :
            Detail(<<Last(q)>>, rule) \in Sanity(Only(Last(q)))
      BY <2>1, <2>3 DEF Sanity, TimestampRange, HostnameShape
    <3>2. Detail(<<Last(q)>>, rule) \in ValidateWrite("UserFact", Only(Last(q))) BY <3>1 DEF ValidateWrite
    <3> QED BY <2>1, <3>2, DetailOf DEF ValidationAssumption, Types
  <2> QED BY <1>11, <2>1, <2>2, <2>3
<1> QED BY <1>6, <1>10, <1>12 DEF ValidateWrite

\* Who is refused for what the rules say has put nothing right yet, and knows all of it.
GateInv ==
  /\ rounds \in Nat
  /\ entry.kind = "none" => rounds = 0 /\ complaint = {}
  /\ entry.kind # "none" =>
       /\ DOMAIN entry = {"kind", "what", "payload"}
       /\ rounds = 0 =>
            /\ IsTree(entry.payload)
            /\ complaint # {} /\ Formed(entry) =>
                 complaint = ValidateWrite(entry.what, entry.payload)
       /\ rounds > 0 =>
            complaint = {} /\ Formed(entry) /\ ValidateWrite(entry.what, entry.payload) = {}

\* An answer names all there is to name: what the client then sends is right.
LEMMA PutRightStep == ASSUME ValidationAssumption, GateInv, PutRight PROVE GateInv'
<1>1. /\ entry.kind # "none" /\ DOMAIN entry = {"kind", "what", "payload"} /\ rounds = 0 /\ complaint # {}
  <2>1. complaint # {} BY DEF PutRight
  <2>2. entry.kind # "none" /\ ~(rounds > 0) /\ rounds \in Nat BY <2>1 DEF GateInv
  <2>3. rounds = 0 BY <2>2
  <2> QED BY <2>1, <2>2, <2>3 DEF GateInv
<1>2. IsTree(entry.payload) BY <1>1 DEF GateInv
<1>3. CASE Formed(entry)
  <2> DEFINE named == {d.field : d \in complaint}
  <2>1. complaint = ValidateWrite(entry.what, entry.payload) BY <1>1, <1>3 DEF GateInv
  <2>2. entry' = [entry EXCEPT !.payload = Mended(entry.payload, named)] /\ rounds' = 1 /\ complaint' = {}
    BY <1>1, <1>3 DEF PutRight
  <2>3. /\ ValidateWrite(entry.what, Mended(entry.payload, named)) = {}
        /\ Mended(entry.payload, named)[<<>>] = entry.payload[<<>>]
    BY <1>2, <2>1, MendedIsRight
  <2> HIDE DEF named
  <2>4. /\ DOMAIN entry' = {"kind", "what", "payload"} /\ entry'.kind = entry.kind /\ entry'.what = entry.what
        /\ entry'.payload = Mended(entry.payload, named)
    BY <1>1, <2>2
  <2>5. Formed(entry)' BY <1>3, <2>3, <2>4 DEF Formed
  <2> QED BY <1>1, <2>2, <2>3, <2>4, <2>5 DEF GateInv
<1>4. CASE ~Formed(entry)
  <2>1. IsTree(Alone(<<>>))
    <3>1. DOMAIN Alone(<<>>) = {<<>>} BY DEF Alone
    <3> QED BY <3>1, EmptySeq DEF IsTree
  <2>2. rounds' = 0 /\ complaint' = {} BY <1>1, <1>4 DEF PutRight
  <2>3. CASE entry.what = "" BY <1>1, <1>2, <1>4, <2>2, <2>3 DEF GateInv, PutRight
  <2>4. CASE entry.what # "" BY <1>1, <1>2, <1>4, <2>1, <2>2, <2>4 DEF GateInv, PutRight
  <2> QED BY <2>3, <2>4
<1> QED BY <1>3, <1>4

\* Every step at the gate keeps what is known of a client that was refused.
LEMMA GateStep == ASSUME ValidationAssumption, GateInv, [GateNext]_gateVars PROVE GateInv'
<1>1. ASSUME Store, complaint = {} PROVE GateInv'
  <2>1. entry' = Served /\ rounds' = 0 /\ complaint' = {} BY <1>1 DEF Store
  <2>2. Served.kind = "none" BY DEF Served
  <2> QED BY <2>1, <2>2 DEF GateInv
<1>2. CASE Judge /\ entry.kind # "none"
  <2>1. CASE Store BY <1>1, <1>2, <2>1 DEF Judge
  <2>2. CASE ~Formed(entry) /\ Refuse(Malformed(entry)) BY <1>2, <2>2 DEF GateInv, Refuse, Formed
  <2>3. CASE /\ Formed(entry) /\ ValidateWrite(entry.what, entry.payload) # {}
             /\ Refuse(ValidateWrite(entry.what, entry.payload))
    BY <1>2, <2>3 DEF GateInv, Refuse, Formed
  <2> QED BY <1>2, <2>1, <2>2, <2>3 DEF Judge
<1>3. CASE AppendTool BY <1>1, <1>3 DEF AppendTool
<1>4. CASE PutRight BY <1>4, PutRightStep
<1>5. CASE Another BY <1>5 DEF GateInv, Another, ValidationAssumption
<1>6. CASE Promote \/ \E p \in Proposals : Propose(p)
  <2>1. entry' = entry /\ complaint' = complaint /\ rounds' = rounds BY <1>6 DEF Promote, Propose
  <2> QED BY <2>1 DEF GateInv
<1>7. CASE UNCHANGED gateVars BY <1>7 DEF GateInv, gateVars
<1> QED BY <1>2, <1>3, <1>4, <1>5, <1>6, <1>7 DEF GateNext, UpsertGate, AppendGate

\* Whatever the payload, its depth and the rules it breaks, a client that puts right what
\* the answer names is not refused a second time (validate_write and the rules under it).
THEOREM OneAnswerIsEnough == ASSUME ValidationAssumption PROVE GateSpec => []OneRoundIsEnough
<1>1. GateInit => GateInv BY DEF GateInit, GateInv, ValidationAssumption
<1>2. GateInv /\ [GateNext]_gateVars => GateInv' BY GateStep
<1>3. GateInv => OneRoundIsEnough BY DEF GateInv, OneRoundIsEnough
<1> QED BY <1>1, <1>2, <1>3, PTL DEF GateSpec

-----------------------------------------------------------------------------
(* The chunker: texts                                                       *)

\* The characters that a document may have, and the texts of them.
Glyphs == {Gap} \cup UNION {UNION {Range(CellsOf(line, i)) : line \in LineKinds} : i \in Nat \ {0}}
Bodies == Seq(Glyphs)

\* A gap is a character.
LEMMA GapIsGlyph == Gap \in Glyphs
BY DEF Glyphs

\* The characters of a line are of that line and no gaps; only a blank line has none.
LEMMA CellsAreGlyphs ==
  ASSUME ChunksAssumption, NEW line \in LineKinds, NEW i \in Nat \ {0}
  PROVE  /\ CellsOf(line, i) \in Bodies
         /\ \A x \in Range(CellsOf(line, i)) : x.line = i /\ x # Gap
         /\ line.kind # "blank" => CellsOf(line, i) # <<>>
         /\ line.kind = "blank" => CellsOf(line, i) = <<>>
<1> DEFINE cells == CellsOf(line, i)
<1>1. cells \in Seq(Range(cells))
  <2>1. CASE line.kind = "text"
    <3>1. line.n \in Nat BY <2>1 DEF ChunksAssumption
    <3>2. cells = [c \in 1..line.n |-> [line |-> i, at |-> c, weight |-> line.weight]] BY <2>1 DEF CellsOf
    <3> HIDE DEF cells
    <3>3. DOMAIN cells = 1..line.n BY <3>2
    <3>4. \A c \in 1..line.n : cells[c] \in Range(cells) BY <3>3 DEF Range
    <3>5. cells \in [1..line.n -> Range(cells)] BY <3>2, <3>4
    <3> QED BY <3>1, <3>5, SeqDef
  <2>2. CASE line.kind = "blank"
    <3>1. cells = <<>> BY <2>2 DEF CellsOf
    <3> QED BY <3>1 DEF Range
  <2>3. CASE line.kind \in {"head", "fence"}
    <3>1. cells = <<[line |-> i, at |-> 1, weight |-> 1]>> BY <2>3 DEF CellsOf
    <3> QED BY <3>1 DEF Range
  <2> QED BY <2>1, <2>2, <2>3 DEF ChunksAssumption
<1>2. Range(cells) \subseteq Glyphs BY DEF Glyphs
<1>3. ASSUME NEW x \in Range(cells) PROVE x.line = i /\ x # Gap
  <2>1. PICK k \in DOMAIN cells : x = cells[k] BY DEF Range
  <2>2. x.line = i
    <3>1. CASE line.kind = "text"
      <4>1. cells = [c \in 1..line.n |-> [line |-> i, at |-> c, weight |-> line.weight]] BY <3>1 DEF CellsOf
      <4> HIDE DEF cells
      <4> QED BY <2>1, <4>1
    <3>2. CASE line.kind = "blank"
      <4>1. cells = <<>> BY <3>2 DEF CellsOf
      <4> QED BY <2>1, <4>1
    <3>3. CASE line.kind \in {"head", "fence"}
      <4>1. cells = <<[line |-> i, at |-> 1, weight |-> 1]>> BY <3>3 DEF CellsOf
      <4> QED BY <2>1, <4>1
    <3> QED BY <3>1, <3>2, <3>3 DEF ChunksAssumption
  <2> QED BY <2>2 DEF Gap
<1>4. line.kind # "blank" => cells # <<>>
  <2>1. CASE line.kind = "text"
    <3>1. line.n \in Nat \ {0} BY <2>1 DEF ChunksAssumption
    <3>2. cells = [c \in 1..line.n |-> [line |-> i, at |-> c, weight |-> line.weight]] BY <2>1 DEF CellsOf
    <3> HIDE DEF cells
    <3>3. DOMAIN cells = 1..line.n /\ 1 \in 1..line.n BY <3>1, <3>2
    <3>4. DOMAIN <<>> = {} OBVIOUS
    <3> QED BY <3>3, <3>4
  <2>2. CASE line.kind \in {"head", "fence"}
    <3>1. cells = <<[line |-> i, at |-> 1, weight |-> 1]>> BY <2>2 DEF CellsOf
    <3> QED BY <3>1
  <2> QED BY <2>1, <2>2 DEF ChunksAssumption
<1>5. line.kind = "blank" => cells = <<>> BY DEF CellsOf
<1>6. cells \in Bodies BY <1>1, <1>2, SeqMonotonic DEF Bodies
<1> QED BY <1>3, <1>4, <1>5, <1>6

\* The ink of a text is what stands in it and is no gap.
LEMMA InkIsAt ==
  ASSUME NEW s \in Bodies, NEW x
  PROVE  x \in Ink(s) <=> \E i \in 1..Len(s) : s[i] = x /\ x # Gap
BY DEF Ink, Range, Bodies

\* Where the characters of two texts stand when one follows the other.
LEMMA ConcatIs ==
  ASSUME NEW a \in Bodies, NEW b \in Bodies
  PROVE  /\ a \o b \in Bodies /\ Len(a \o b) = Len(a) + Len(b)
         /\ \A i \in 1..Len(a) + Len(b) : (a \o b)[i] = IF i <= Len(a) THEN a[i] ELSE b[i - Len(a)]
BY ConcatProperties DEF Bodies

\* Join: where the characters of both stand.
LEMMA JoinedAt ==
  ASSUME NEW a \in Bodies, NEW b \in Bodies
  PROVE  /\ Join(a, b) \in Bodies
         /\ a # <<>> => /\ Len(Join(a, b)) = Len(a) + 1 + Len(b)
                        /\ \A i \in 1..Len(a) : Join(a, b)[i] = a[i]
                        /\ Join(a, b)[Len(a) + 1] = Gap
                        /\ \A i \in 1..Len(b) : Join(a, b)[Len(a) + 1 + i] = b[i]
<1>1. CASE a = <<>> BY <1>1 DEF Join
<1>2. CASE a # <<>>
  <2> DEFINE g == <<Gap>>
             ag == a \o g
  <2>1. g \in Bodies /\ Len(g) = 1 /\ g[1] = Gap BY GapIsGlyph DEF Bodies
  <2>2. Join(a, b) = ag \o b BY <1>2 DEF Join
  <2>0. Len(a) \in Nat /\ Len(b) \in Nat BY DEF Bodies
  <2> HIDE DEF g
  <2>3. /\ ag \in Bodies /\ Len(ag) = Len(a) + 1
        /\ \A i \in 1..Len(a) + 1 : ag[i] = IF i <= Len(a) THEN a[i] ELSE g[i - Len(a)]
    <3>1. /\ ag \in Bodies /\ Len(ag) = Len(a) + Len(g)
          /\ \A i \in 1..Len(a) + Len(g) : ag[i] = IF i <= Len(a) THEN a[i] ELSE g[i - Len(a)]
      BY <2>1, ConcatIs
    <3> HIDE DEF ag
    <3> QED BY <2>1, <3>1
  <2>4. (\A i \in 1..Len(a) : ag[i] = a[i]) /\ ag[Len(a) + 1] = Gap BY <2>0, <2>1, <2>3
  <2> HIDE DEF ag
  <2>5. /\ ag \o b \in Bodies /\ Len(ag \o b) = Len(ag) + Len(b)
        /\ \A i \in 1..Len(ag) + Len(b) : (ag \o b)[i] = IF i <= Len(ag) THEN ag[i] ELSE b[i - Len(ag)]
    BY <2>3, ConcatIs
  <2> HIDE DEF Join
  <2> DEFINE j == Join(a, b)
  <2>6. /\ j \in Bodies /\ Len(j) = Len(a) + 1 + Len(b)
        /\ \A i \in 1..Len(a) + 1 + Len(b) : j[i] = IF i <= Len(a) + 1 THEN ag[i] ELSE b[i - (Len(a) + 1)]
    BY <2>2, <2>3, <2>5
  <2> HIDE DEF j
  <2>7. \A i \in 1..Len(a) : j[i] = a[i] BY <2>0, <2>4, <2>6
  <2>8. j[Len(a) + 1] = Gap BY <2>0, <2>4, <2>6
  <2>9. ASSUME NEW i \in 1..Len(b) PROVE j[Len(a) + 1 + i] = b[i] BY <2>0, <2>6
  <2> QED BY <2>6, <2>7, <2>8, <2>9 DEF j
<1> QED BY <1>1, <1>2

\* Joining loses no ink and brings none.
LEMMA JoinInk ==
  ASSUME NEW a \in Bodies, NEW b \in Bodies
  PROVE  Ink(Join(a, b)) = Ink(a) \cup Ink(b)
<1>1. CASE a = <<>>
  <2>1. Ink(a) = {} BY <1>1 DEF Ink, Range
  <2> QED BY <1>1, <2>1 DEF Join
<1>2. CASE a # <<>>
  <2> DEFINE j == Join(a, b)
  <2>0. Len(a) \in Nat /\ Len(b) \in Nat BY DEF Bodies
  <2>1. /\ j \in Bodies /\ Len(j) = Len(a) + 1 + Len(b)
        /\ \A i \in 1..Len(a) : j[i] = a[i]
        /\ j[Len(a) + 1] = Gap
        /\ \A i \in 1..Len(b) : j[Len(a) + 1 + i] = b[i]
    BY <1>2, JoinedAt
  <2> HIDE DEF j
  <2>2. ASSUME NEW x \in Ink(j) PROVE x \in Ink(a) \cup Ink(b)
    <3>1. PICK i \in 1..Len(j) : j[i] = x /\ x # Gap BY <2>1, <2>2, InkIsAt
    <3>2. CASE i <= Len(a)
      <4>1. i \in 1..Len(a) BY <2>0, <3>2
      <4> QED BY <2>1, <3>1, <4>1, InkIsAt
    <3>3. CASE i > Len(a)
      <4>1. i # Len(a) + 1 BY <2>1, <3>1
      <4> DEFINE k == i - (Len(a) + 1)
      <4>2. k \in 1..Len(b) /\ i = Len(a) + 1 + k BY <2>0, <2>1, <3>3, <4>1
      <4> HIDE DEF k
      <4>3. b[k] = x BY <2>1, <3>1, <4>2
      <4> QED BY <3>1, <4>2, <4>3, InkIsAt
    <3> QED BY <2>0, <3>2, <3>3
  <2>3. ASSUME NEW x \in Ink(a) PROVE x \in Ink(j)
    <3>1. PICK i \in 1..Len(a) : a[i] = x /\ x # Gap BY <2>3, InkIsAt
    <3>2. i \in 1..Len(j) /\ j[i] = x BY <2>0, <2>1, <3>1
    <3> QED BY <2>1, <3>1, <3>2, InkIsAt
  <2>4. ASSUME NEW x \in Ink(b) PROVE x \in Ink(j)
    <3>1. PICK i \in 1..Len(b) : b[i] = x /\ x # Gap BY <2>4, InkIsAt
    <3>2. Len(a) + 1 + i \in 1..Len(j) /\ j[Len(a) + 1 + i] = x BY <2>0, <2>1, <3>1
    <3> QED BY <2>1, <3>1, <3>2, InkIsAt
  <2> QED BY <2>2, <2>3, <2>4 DEF j
<1> QED BY <1>1, <1>2

\* A part of a text, place by place.
LEMMA SubSeqIs ==
  ASSUME NEW s \in Bodies, NEW m \in 1..Len(s), NEW n \in m..Len(s)
  PROVE  /\ SubSeq(s, m, n) \in Bodies /\ Len(SubSeq(s, m, n)) = n - m + 1
         /\ \A k \in 1..n - m + 1 : SubSeq(s, m, n)[k] = s[m + k - 1]
<1>1. m \in Int /\ n \in Int /\ m <= n BY DEF Bodies
<1>2. \A k \in m..n : s[k] \in Glyphs BY DEF Bodies
<1>3. /\ SubSeq(s, m, n) \in Seq(Glyphs)
      /\ Len(SubSeq(s, m, n)) = IF m <= n THEN n - m + 1 ELSE 0
      /\ \A k \in 1..n - m + 1 : SubSeq(s, m, n)[k] = s[m + k - 1]
  BY <1>1, <1>2, SubSeqProperties
<1> QED BY <1>1, <1>3 DEF Bodies

\* What trim leaves runs from the first character that is no gap to the last.
Within(b, lo, hi) ==
  /\ lo \in 1..Len(b) /\ hi \in lo..Len(b) /\ b[lo] # Gap /\ b[hi] # Gap
  /\ \A k \in 1..Len(b) : b[k] # Gap => lo <= k /\ k <= hi

\* Trimming leaves a part without gaps at its ends.
LEMMA TrimIs ==
  ASSUME NEW b \in Bodies, Ink(b) # {}
  PROVE  \E lo, hi \in Nat :
           /\ Within(b, lo, hi)
           /\ Trim(b) \in Bodies /\ Len(Trim(b)) = hi - lo + 1
           /\ \A k \in 1..hi - lo + 1 : Trim(b)[k] = b[lo + k - 1]
<1> DEFINE ink == {i \in DOMAIN b : b[i] # Gap}
           lo == CHOOSE i \in ink : \A j \in ink : i <= j
           hi == CHOOSE i \in ink : \A j \in ink : j <= i
<1>0. Len(b) \in Nat /\ DOMAIN b = 1..Len(b) BY DEF Bodies
<1>1. ink # {} /\ ink \in SUBSET Nat /\ IsFiniteSet(ink)
  <2>1. PICK x \in Ink(b) : TRUE OBVIOUS
  <2>2. PICK i \in 1..Len(b) : b[i] = x /\ x # Gap BY InkIsAt
  <2>3. i \in ink BY <1>0, <2>2
  <2>4. IsFiniteSet(1..Len(b)) BY <1>0, FS_Interval
  <2>5. ink \in SUBSET (1..Len(b)) BY <1>0
  <2>6. IsFiniteSet(ink) BY <2>4, <2>5, FS_Subset
  <2> QED BY <1>0, <2>3, <2>5, <2>6
<1>2. Trim(b) = SubSeq(b, lo, hi) BY <1>1 DEF Trim
<1> HIDE DEF ink
<1>3. \E i \in ink : \A j \in ink : i <= j BY <1>1, LeastExists
<1>4. \E i \in ink : \A j \in ink : j <= i BY <1>1, GreatestExists
<1>5. lo \in ink /\ \A j \in ink : lo <= j BY <1>3
<1>6. hi \in ink /\ \A j \in ink : j <= hi BY <1>4
<1> HIDE DEF lo, hi
<1>7. lo \in Nat /\ hi \in Nat /\ lo \in 1..Len(b) /\ hi \in lo..Len(b)
  BY <1>0, <1>5, <1>6 DEF ink
<1>8. Within(b, lo, hi) BY <1>0, <1>5, <1>6, <1>7 DEF Within, ink
<1>9. /\ SubSeq(b, lo, hi) \in Bodies /\ Len(SubSeq(b, lo, hi)) = hi - lo + 1
      /\ \A k \in 1..hi - lo + 1 : SubSeq(b, lo, hi)[k] = b[lo + k - 1]
  BY <1>7, SubSeqIs
<1> QED BY <1>2, <1>7, <1>8, <1>9

\* It loses no ink.
LEMMA TrimInk ==
  ASSUME NEW b \in Bodies
  PROVE  /\ Trim(b) \in Bodies /\ Ink(Trim(b)) = Ink(b)
         /\ Trim(b) = <<>> <=> Ink(b) = {}
<1>0. <<>> \in Bodies /\ Ink(<<>>) = {} BY DEF Bodies, Ink, Range
<1>1. CASE Ink(b) = {}
  <2>1. \A i \in DOMAIN b : b[i] = Gap BY <1>1 DEF Ink, Range
  <2>2. Trim(b) = <<>> BY <2>1 DEF Trim
  <2> QED BY <1>0, <1>1, <2>2
<1>2. CASE Ink(b) # {}
  <2> DEFINE t == Trim(b)
  <2>1. PICK lo \in Nat, hi \in Nat :
          /\ Within(b, lo, hi)
          /\ t \in Bodies /\ Len(t) = hi - lo + 1
          /\ \A k \in 1..hi - lo + 1 : t[k] = b[lo + k - 1]
    BY <1>2, TrimIs
  <2> HIDE DEF t
  <2>2. ASSUME NEW x \in Ink(t) PROVE x \in Ink(b)
    <3>1. PICK k \in 1..Len(t) : t[k] = x /\ x # Gap BY <2>1, <2>2, InkIsAt
    <3>2. lo + k - 1 \in 1..Len(b) /\ b[lo + k - 1] = x BY <2>1, <3>1 DEF Within
    <3> QED BY <3>1, <3>2, InkIsAt
  <2>3. ASSUME NEW x \in Ink(b) PROVE x \in Ink(t)
    <3>1. PICK k \in 1..Len(b) : b[k] = x /\ x # Gap BY <2>3, InkIsAt
    <3>2. lo <= k /\ k <= hi BY <2>1, <3>1 DEF Within
    <3>3. k - lo + 1 \in 1..Len(t) /\ lo + (k - lo + 1) - 1 = k BY <2>1, <3>2
    <3>4. t[k - lo + 1] = x BY <2>1, <3>1, <3>3
    <3> QED BY <2>1, <3>1, <3>3, <3>4, InkIsAt
  <2>4. t # <<>> BY <1>0, <1>2, <2>3
  <2> QED BY <1>2, <2>1, <2>2, <2>3, <2>4 DEF t
<1> QED BY <1>1, <1>2

\* Two characters that are no gaps stay as far apart.
LEMMA TrimLong ==
  ASSUME NEW b \in Bodies, NEW i \in 1..Len(b), NEW j \in i..Len(b), b[i] # Gap, b[j] # Gap
  PROVE  Len(Trim(b)) >= j - i + 1
<1>1. Ink(b) # {}
  <2>1. b[i] \in Ink(b) BY InkIsAt
  <2> QED BY <2>1
<1>2. PICK lo \in Nat, hi \in Nat : Within(b, lo, hi) /\ Len(Trim(b)) = hi - lo + 1 BY <1>1, TrimIs
<1>3. j \in 1..Len(b) BY DEF Bodies
<1>4. lo <= i /\ j <= hi BY <1>2, <1>3 DEF Within
<1> QED BY <1>2, <1>4

\* A trimmed text has a length.
LEMMA TrimLen ==
  ASSUME NEW b \in Bodies
  PROVE  Len(Trim(b)) \in Nat
BY TrimInk DEF Bodies

\* Joining makes no text shorter.
LEMMA TrimJoin ==
  ASSUME NEW a \in Bodies, NEW b \in Bodies
  PROVE  Len(Trim(Join(a, b))) >= Len(Trim(a)) /\ Len(Trim(Join(a, b))) >= Len(Trim(b))
<1>0. Len(a) \in Nat /\ Len(b) \in Nat BY DEF Bodies
<1>1. ASSUME NEW c \in Bodies, Ink(c) = {} PROVE Len(Trim(c)) = 0
  <2>1. Trim(c) = <<>> BY <1>1, TrimInk
  <2> QED BY <2>1
<1>2. CASE a = <<>>
  <2>1. Join(a, b) = b BY <1>2 DEF Join
  <2>2. Ink(a) = {} BY <1>2 DEF Ink, Range
  <2>3. Len(Trim(a)) = 0 BY <1>1, <2>2
  <2> QED BY <2>1, <2>3, TrimLen
<1>3. CASE a # <<>>
  <2> DEFINE j == Join(a, b)
  <2>1. /\ j \in Bodies /\ Len(j) = Len(a) + 1 + Len(b)
        /\ \A i \in 1..Len(a) : j[i] = a[i]
        /\ \A i \in 1..Len(b) : j[Len(a) + 1 + i] = b[i]
    BY <1>3, JoinedAt
  <2> HIDE DEF j
  <2>2. Len(Trim(j)) \in Nat BY <2>1, TrimLen
  <2>3. Len(Trim(j)) >= Len(Trim(a))
    <3>1. CASE Ink(a) = {} BY <1>1, <2>2, <3>1
    <3>2. CASE Ink(a) # {}
      <4>1. PICK lo \in Nat, hi \in Nat : Within(a, lo, hi) /\ Len(Trim(a)) = hi - lo + 1 BY <3>2, TrimIs
      <4>2. lo \in 1..Len(a) /\ hi \in lo..Len(a) /\ a[lo] # Gap /\ a[hi] # Gap BY <4>1 DEF Within
      <4>3. lo \in 1..Len(j) /\ hi \in lo..Len(j) /\ hi \in 1..Len(a) BY <1>0, <2>1, <4>2
      <4>4. j[lo] # Gap /\ j[hi] # Gap BY <2>1, <4>2, <4>3
      <4> QED BY <2>1, <4>1, <4>3, <4>4, TrimLong
    <3> QED BY <3>1, <3>2
  <2>4. Len(Trim(j)) >= Len(Trim(b))
    <3>1. CASE Ink(b) = {} BY <1>1, <2>2, <3>1
    <3>2. CASE Ink(b) # {}
      <4>1. PICK lo \in Nat, hi \in Nat : Within(b, lo, hi) /\ Len(Trim(b)) = hi - lo + 1 BY <3>2, TrimIs
      <4>2. lo \in 1..Len(b) /\ hi \in lo..Len(b) /\ b[lo] # Gap /\ b[hi] # Gap BY <4>1 DEF Within
      <4> DEFINE l == Len(a) + 1 + lo
                 h == Len(a) + 1 + hi
      <4>3. l \in 1..Len(j) /\ h \in l..Len(j) /\ hi \in 1..Len(b) BY <1>0, <2>1, <4>2
      <4>4. j[l] # Gap /\ j[h] # Gap BY <2>1, <4>2, <4>3
      <4>5. h - l + 1 = hi - lo + 1 OBVIOUS
      <4> HIDE DEF l, h
      <4>6. Len(Trim(j)) >= h - l + 1 BY <2>1, <4>3, <4>4, TrimLong
      <4> QED BY <4>1, <4>5, <4>6
    <3> QED BY <3>1, <3>2
  <2> QED BY <2>3, <2>4 DEF j
<1> QED BY <1>2, <1>3

\* What is in a text is not more than its length.
LEMMA InkFits ==
  ASSUME NEW b \in Bodies, NEW W \in SUBSET Ink(b)
  PROVE  Cardinality(W) <= Len(Trim(b)) /\ Cardinality(W) \in Nat
<1> DEFINE t == Trim(b)
<1>1. t \in Bodies /\ Ink(t) = Ink(b) BY TrimInk
<1> HIDE DEF t
<1>2. Len(t) \in Nat /\ DOMAIN t = 1..Len(t) BY <1>1 DEF Bodies
<1>3. t \in Surjection(1..Len(t), Range(t))
  <2>1. t \in [1..Len(t) -> Range(t)] BY <1>1, <1>2 DEF Bodies, Range
  <2>2. \A x \in Range(t) : \E i \in 1..Len(t) : t[i] = x BY <1>2 DEF Range
  <2> QED BY <2>1, <2>2 DEF Surjection
<1>4. IsFiniteSet(1..Len(t)) /\ Cardinality(1..Len(t)) = Len(t)
  <2>1. \A n \in Nat : IsFiniteSet(1..n) /\ Cardinality(1..n) = IF 1 > n THEN 0 ELSE n - 1 + 1 BY FS_Interval
  <2>2. \A n \in Nat : (IF 1 > n THEN 0 ELSE n - 1 + 1) = n OBVIOUS
  <2> QED BY <1>2, <2>1, <2>2
<1>5. IsFiniteSet(Range(t)) /\ Cardinality(Range(t)) <= Len(t) BY <1>3, <1>4, FS_Surjection
<1>6. W \in SUBSET Range(t) BY <1>1 DEF Ink
<1>7. Cardinality(W) <= Cardinality(Range(t)) /\ IsFiniteSet(W) BY <1>5, <1>6, FS_Subset
<1>8. Cardinality(W) \in Nat /\ Cardinality(Range(t)) \in Nat BY <1>5, <1>7, FS_CardinalityType
<1> QED BY <1>2, <1>5, <1>7, <1>8 DEF t

-----------------------------------------------------------------------------
(* The chunker: windows and pieces                                          *)

\* w is s from lo to hi.
Part(w, s, lo, hi) ==
  /\ lo \in 1..Len(s) /\ hi \in lo..Len(s)
  /\ w \in Bodies /\ Len(w) = hi - lo + 1
  /\ \A i \in 1..hi - lo + 1 : w[i] = s[lo + i - 1]

\* A part has the ink that stands within it.
LEMMA PartInk ==
  ASSUME NEW s \in Bodies, NEW w, NEW lo, NEW hi, Part(w, s, lo, hi)
  PROVE  /\ Ink(w) \subseteq Ink(s)
         /\ \A i \in lo..hi : s[i] # Gap => s[i] \in Ink(w)
<1>0. lo \in 1..Len(s) /\ hi \in lo..Len(s) /\ Len(s) \in Nat BY DEF Part, Bodies
<1>1. ASSUME NEW x \in Ink(w) PROVE x \in Ink(s)
  <2>1. PICK i \in 1..Len(w) : w[i] = x /\ x # Gap BY <1>1, InkIsAt DEF Part
  <2>2. lo + i - 1 \in 1..Len(s) /\ s[lo + i - 1] = x BY <1>0, <2>1 DEF Part
  <2> QED BY <2>1, <2>2, InkIsAt
<1>2. ASSUME NEW i \in lo..hi, s[i] # Gap PROVE s[i] \in Ink(w)
  <2>1. i - lo + 1 \in 1..hi - lo + 1 /\ lo + (i - lo + 1) - 1 = i BY <1>0
  <2>2. w[i - lo + 1] = s[i] /\ i - lo + 1 \in 1..Len(w) BY <2>1 DEF Part
  <2> QED BY <1>2, <2>2, InkIsAt DEF Part
<1> QED BY <1>1, <1>2

\* The windows: parts of the text, none too wide, that leave nothing between them; a
\* narrower one is at the end and reaches further back than the overlap.
LEMMA WindowsAre ==
  ASSUME NEW s \in Bodies, NEW window \in Nat \ {0}, NEW overlap \in Nat, overlap < window,
         Len(s) > window
  PROVE  LET cut == Windows(s, window, overlap)
         IN  /\ cut \in Seq(Bodies)
             /\ \A k \in DOMAIN cut : \E lo, hi \in Nat :
                  /\ Part(cut[k], s, lo, hi)
                  /\ hi - lo + 1 = window \/ (hi = Len(s) /\ hi - lo + 1 > overlap /\ hi - lo + 1 <= window)
             /\ \A i \in 1..Len(s) : \E k \in DOMAIN cut : \E lo, hi \in Nat :
                  Part(cut[k], s, lo, hi) /\ i \in lo..hi
<1> DEFINE step == IF window - overlap > 1 THEN window - overlap ELSE 1
           Begin(k) == (k - 1) * step + 1
           End(k) == (k - 1) * step + window
           Till(k) == End(k) >= Len(s) /\ (k = 1 \/ End(k - 1) < Len(s))
           n == CHOOSE k \in 1..Len(s) : Till(k)
           cut == [k \in 1..n |-> SubSeq(s, Begin(k), IF k = n THEN Len(s) ELSE End(k))]
<1>0. Len(s) \in Nat /\ window \in Nat /\ window > 0 BY DEF Bodies
<1>1. Windows(s, window, overlap) = cut BY <1>0 DEF Windows
<1>2. step \in Nat /\ step >= 1 /\ step = window - overlap OBVIOUS
<1> HIDE DEF step
<1>3. \A k \in Nat : (k - 1) * step \in Int BY <1>2
<1>4. \A k \in Nat : End(k) \in Int /\ Begin(k) \in Int /\ End(k) = Begin(k) + window - 1 BY <1>2, <1>3
<1>5. \A k \in Nat : Begin(k + 1) = Begin(k) + step BY <1>2
<1>6. Begin(1) = 1 BY <1>2
<1>7. \A j, k \in Nat : j <= k => Begin(j) <= Begin(k)
  <2> SUFFICES ASSUME NEW j \in Nat, NEW k \in Nat, j <= k PROVE Begin(j) <= Begin(k) OBVIOUS
  <2>1. (k - j) * step >= 0 /\ (k - j) * step \in Int BY <1>2
  <2>2. (k - 1) * step = (j - 1) * step + (k - j) * step BY <1>2
  <2>3. (k - 1) * step \in Int /\ (j - 1) * step \in Int BY <1>3
  <2>4. (k - 1) * step >= (j - 1) * step BY <2>1, <2>2, <2>3
  <2> QED BY <2>3, <2>4
<1>8. \A k \in Nat \ {0} : Begin(k) >= k
  <2> SUFFICES ASSUME NEW k \in Nat \ {0} PROVE Begin(k) >= k OBVIOUS
  <2>1. (k - 1) * (step - 1) >= 0 BY <1>2
  <2>2. (k - 1) * step = (k - 1) * (step - 1) + (k - 1) BY <1>2
  <2> QED BY <1>2, <2>1, <2>2
<1> HIDE DEF Begin, End
<1>9. /\ Begin(1) = 1
      /\ \A k \in Nat \ {0} : Begin(k) \in Nat /\ Begin(k) >= k /\ End(k) = Begin(k) + window - 1 /\ End(k) \in Nat
      /\ \A k \in Nat \ {0} : Begin(k + 1) = Begin(k) + step
      /\ \A j, k \in Nat \ {0} : j <= k => Begin(j) <= Begin(k)
  <2>1. ASSUME NEW k \in Nat \ {0}
        PROVE  Begin(k) \in Nat /\ Begin(k) >= k /\ End(k) = Begin(k) + window - 1 /\ End(k) \in Nat
    <3>1. Begin(k) \in Int /\ Begin(k) >= k /\ End(k) = Begin(k) + window - 1 BY <1>4, <1>8
    <3> QED BY <1>0, <3>1
  <2> QED BY <1>5, <1>6, <1>7, <2>1
\* The first window that comes to a place.
<1>10. ASSUME NEW i \in 1..Len(s)
       PROVE  \E k \in 1..i : i <= End(k) /\ (k = 1 \/ End(k - 1) < i)
  <2> DEFINE T == {k \in Nat \ {0} : i <= End(k)}
  <2>1. i \in T
    <3>1. i \in Nat \ {0} BY <1>0
    <3>2. Begin(i) \in Nat /\ Begin(i) >= i /\ End(i) = Begin(i) + window - 1 BY <1>9, <3>1
    <3> QED BY <1>0, <3>1, <3>2
  <2>2. T \in SUBSET Nat /\ T # {} BY <2>1
  <2>3. PICK k \in T : \A j \in T : k <= j BY <2>2, LeastExists
  <2>4. k \in 1..i /\ i <= End(k) BY <1>0, <2>1, <2>3
  <2>5. CASE k # 1
    <3>1. k - 1 \in Nat \ {0} /\ ~(k <= k - 1) BY <2>4, <2>5
    <3>2. k - 1 \notin T BY <2>3, <3>1
    <3>3. End(k - 1) \in Nat BY <1>0, <1>9, <3>1
    <3> QED BY <1>0, <2>4, <3>1, <3>2, <3>3
  <2> QED BY <2>4, <2>5
<1>11. \E k \in 1..Len(s) : Till(k)
  <2>1. Len(s) \in 1..Len(s) BY <1>0
  <2>2. PICK k \in 1..Len(s) : Len(s) <= End(k) /\ (k = 1 \/ End(k - 1) < Len(s)) BY <1>10, <2>1
  <2>3. End(k) \in Nat
    <3>1. k \in Nat \ {0} BY <1>0
    <3> QED BY <1>9, <3>1
  <2> QED BY <1>0, <2>2, <2>3
<1>12. n \in 1..Len(s) /\ Till(n) BY <1>11
<1> HIDE DEF n
<1>13. n > 1 /\ End(n - 1) < Len(s)
  <2>1. End(1) = window BY <1>0, <1>9
  <2>2. n # 1 BY <1>0, <1>12, <2>1
  <2> QED BY <1>0, <1>12, <2>2
<1> DEFINE final(k) == IF k = n THEN Len(s) ELSE End(k)
<1>14. ASSUME NEW k \in 1..n
       PROVE  /\ Begin(k) \in 1..Len(s) /\ final(k) \in Begin(k)..Len(s)
              /\ \/ final(k) - Begin(k) + 1 = window
                 \/ final(k) = Len(s) /\ final(k) - Begin(k) + 1 > overlap /\ final(k) - Begin(k) + 1 <= window
  <2>0. n - 1 \in Nat \ {0} /\ n \in Nat \ {0} /\ (n - 1) + 1 = n BY <1>0, <1>12, <1>13
  <2>1. Begin(n) = Begin(n - 1) + step /\ End(n - 1) = Begin(n - 1) + window - 1 BY <1>9, <2>0
  <2>2. End(n) = Begin(n) + window - 1 /\ End(n) >= Len(s) BY <1>9, <1>12, <2>0
  <2>3. Begin(n) \in Nat /\ Begin(n - 1) \in Nat /\ Begin(n) >= n BY <1>9, <2>0
  <2>4. CASE k = n BY <1>0, <1>2, <1>13, <2>0, <2>1, <2>2, <2>3, <2>4
  <2>5. CASE k # n
    <3>1. k \in Nat \ {0} /\ k <= n - 1 BY <2>0, <2>5
    <3>2. Begin(k) \in Nat /\ Begin(k) >= k /\ End(k) = Begin(k) + window - 1 /\ Begin(k) <= Begin(n - 1)
      BY <1>9, <2>0, <3>1
    <3> QED BY <1>0, <1>13, <2>1, <2>3, <2>5, <3>1, <3>2
  <2> QED BY <2>4, <2>5
<1>15. ASSUME NEW k \in 1..n PROVE Part(cut[k], s, Begin(k), final(k))
  <2>1. Begin(k) \in 1..Len(s) /\ final(k) \in Begin(k)..Len(s) BY <1>14
  <2>2. cut[k] = SubSeq(s, Begin(k), final(k)) OBVIOUS
  <2> HIDE DEF final, cut
  <2> QED BY <2>1, <2>2, SubSeqIs DEF Part
<1>16. DOMAIN cut = 1..n OBVIOUS
<1>17. cut \in Seq(Bodies)
  <2>1. \A k \in 1..n : cut[k] \in Bodies BY <1>15 DEF Part
  <2>2. n \in Nat BY <1>12
  <2>3. cut \in [1..n -> Bodies]
    <3> HIDE DEF Bodies
    <3> QED BY <2>1
  <2> HIDE DEF cut
  <2> QED BY <2>2, <2>3, SeqDef
<1>18. ASSUME NEW k \in 1..n
       PROVE  \E lo, hi \in Nat :
                /\ Part(cut[k], s, lo, hi)
                /\ hi - lo + 1 = window \/ (hi = Len(s) /\ hi - lo + 1 > overlap /\ hi - lo + 1 <= window)
  <2>1. Begin(k) \in Nat /\ final(k) \in Nat BY <1>0, <1>14
  <2> HIDE DEF final, cut
  <2> QED BY <1>14, <1>15, <2>1
<1>19. ASSUME NEW i \in 1..Len(s)
       PROVE  \E k \in 1..n : i \in Begin(k)..final(k)
  <2>1. PICK k \in 1..i : i <= End(k) /\ (k = 1 \/ End(k - 1) < i) BY <1>10
  <2>2. n \in Nat \ {0} /\ n - 1 \in Nat \ {0} /\ k \in Nat \ {0} /\ i \in Nat BY <1>0, <1>12, <1>13
  <2>3. k <= n
    <3> SUFFICES ASSUME k > n PROVE FALSE BY <2>2
    <3>1. k - 1 \in Nat \ {0} /\ n <= k - 1 BY <2>2
    <3>2. Begin(n) <= Begin(k - 1) /\ End(n) = Begin(n) + window - 1 /\ End(k - 1) = Begin(k - 1) + window - 1
      BY <1>9, <2>2, <3>1
    <3>3. Begin(n) \in Nat /\ Begin(k - 1) \in Nat BY <1>9, <2>2, <3>1
    <3>4. End(n) >= Len(s) BY <1>12
    <3> QED BY <1>0, <2>1, <2>2, <3>1, <3>2, <3>3, <3>4
  <2>4. Begin(k) <= i
    <3>1. CASE k = 1 BY <1>9, <3>1
    <3>2. CASE k # 1
      <4>1. k - 1 \in Nat \ {0} /\ (k - 1) + 1 = k BY <2>2, <3>2
      <4>2. Begin(k) = Begin(k - 1) + step /\ End(k - 1) = Begin(k - 1) + window - 1 /\ Begin(k - 1) \in Nat
        BY <1>9, <4>1
      <4> QED BY <1>0, <1>2, <2>1, <2>2, <3>2, <4>2
    <3> QED BY <3>1, <3>2
  <2>5. i <= final(k) BY <1>0, <2>1
  <2>6. k \in 1..n BY <2>2, <2>3
  <2>7. Begin(k) \in Nat /\ final(k) \in Nat BY <1>0, <1>14, <2>6
  <2> QED BY <2>4, <2>5, <2>6, <2>7
<1>20. ASSUME NEW i \in 1..Len(s)
       PROVE  \E k \in 1..n : \E lo, hi \in Nat : Part(cut[k], s, lo, hi) /\ i \in lo..hi
  <2>1. PICK k \in 1..n : i \in Begin(k)..final(k) BY <1>19
  <2>2. Begin(k) \in Nat /\ final(k) \in Nat BY <1>0, <1>14
  <2> HIDE DEF final, cut
  <2> QED BY <1>15, <2>1, <2>2
<1> HIDE DEF cut
<1> QED BY <1>1, <1>16, <1>17, <1>18, <1>20

\* The windows of a text have all its ink, and no more.
LEMMA WindowsKeep ==
  ASSUME NEW s \in Bodies, NEW window \in Nat \ {0}, NEW overlap \in Nat, overlap < window
  PROVE  LET cut == Windows(s, window, overlap)
         IN  /\ cut \in Seq(Bodies)
             /\ \A k \in DOMAIN cut : Ink(cut[k]) \subseteq Ink(s) /\ Len(cut[k]) <= window
             /\ \A x \in Ink(s) : \E k \in DOMAIN cut : x \in Ink(cut[k])
<1> DEFINE cut == Windows(s, window, overlap)
<1>0. Len(s) \in Nat BY DEF Bodies
<1>1. CASE Len(s) <= window
  <2>1. cut = <<s>> BY <1>1 DEF Windows
  <2> HIDE DEF cut
  <2>2. cut \in Seq(Bodies) /\ DOMAIN cut = {1} /\ cut[1] = s BY <2>1
  <2> QED BY <1>1, <2>2 DEF cut
<1>2. CASE Len(s) > window
  <2>1. /\ cut \in Seq(Bodies)
        /\ \A k \in DOMAIN cut : \E lo, hi \in Nat :
             /\ Part(cut[k], s, lo, hi)
             /\ hi - lo + 1 = window \/ (hi = Len(s) /\ hi - lo + 1 > overlap /\ hi - lo + 1 <= window)
        /\ \A i \in 1..Len(s) : \E k \in DOMAIN cut : \E lo, hi \in Nat :
             Part(cut[k], s, lo, hi) /\ i \in lo..hi
    BY <1>2, WindowsAre
  <2> HIDE DEF cut
  <2>2. ASSUME NEW k \in DOMAIN cut PROVE Ink(cut[k]) \subseteq Ink(s) /\ Len(cut[k]) <= window
    <3>1. PICK lo \in Nat, hi \in Nat : Part(cut[k], s, lo, hi) /\ hi - lo + 1 <= window BY <2>1
    <3>2. Ink(cut[k]) \subseteq Ink(s) BY <3>1, PartInk
    <3> QED BY <3>1, <3>2 DEF Part
  <2>3. ASSUME NEW x \in Ink(s) PROVE \E k \in DOMAIN cut : x \in Ink(cut[k])
    <3>1. PICK i \in 1..Len(s) : s[i] = x /\ x # Gap BY InkIsAt
    <3>2. PICK k \in DOMAIN cut : \E lo, hi \in Nat : Part(cut[k], s, lo, hi) /\ i \in lo..hi BY <2>1
    <3>3. s[i] \in Ink(cut[k]) BY <3>1, <3>2, PartInk
    <3> QED BY <3>1, <3>3
  <2> QED BY <2>1, <2>2, <2>3 DEF cut
<1> QED BY <1>0, <1>1, <1>2

\* No three gaps stand together.
Tight(b) == \A k \in 1..Len(b) - 2 : ~(b[k] = Gap /\ b[k + 1] = Gap /\ b[k + 2] = Gap)

\* A part of a text without three gaps in a row has none either.
LEMMA TightPart ==
  ASSUME NEW s \in Bodies, Tight(s), NEW w, NEW lo, NEW hi, Part(w, s, lo, hi)
  PROVE  Tight(w)
<1>0. Len(s) \in Nat /\ lo \in 1..Len(s) /\ hi \in lo..Len(s) /\ Len(w) = hi - lo + 1 BY DEF Part, Bodies
<1>1. SUFFICES ASSUME NEW k \in 1..Len(w) - 2 PROVE ~(w[k] = Gap /\ w[k + 1] = Gap /\ w[k + 2] = Gap)
  BY DEF Tight
<1> DEFINE j == lo + k - 1
<1>2. j \in 1..Len(s) - 2 BY <1>0
<1>3. w[k] = s[j] /\ w[k + 1] = s[j + 1] /\ w[k + 2] = s[j + 2]
  <2>1. k \in 1..hi - lo + 1 /\ k + 1 \in 1..hi - lo + 1 /\ k + 2 \in 1..hi - lo + 1 BY <1>0
  <2>2. lo + (k + 1) - 1 = j + 1 /\ lo + (k + 2) - 1 = j + 2 BY <1>0
  <2> QED BY <2>1, <2>2 DEF Part
<1> HIDE DEF j
<1> QED BY <1>2, <1>3 DEF Tight

\* Nor has a trimmed one, which ends with ink.
LEMMA TightTrim ==
  ASSUME NEW b \in Bodies, Tight(b)
  PROVE  Tight(Trim(b)) /\ (Trim(b) # <<>> => Trim(b)[Len(Trim(b))] # Gap)
<1>1. CASE Ink(b) = {}
  <2>1. Trim(b) = <<>> BY <1>1, TrimInk
  <2>2. Tight(<<>>) BY DEF Tight
  <2> QED BY <2>1, <2>2
<1>2. CASE Ink(b) # {}
  <2>1. PICK lo \in Nat, hi \in Nat :
          /\ Within(b, lo, hi)
          /\ Trim(b) \in Bodies /\ Len(Trim(b)) = hi - lo + 1
          /\ \A k \in 1..hi - lo + 1 : Trim(b)[k] = b[lo + k - 1]
    BY <1>2, TrimIs
  <2>2. Part(Trim(b), b, lo, hi) BY <2>1 DEF Part, Within
  <2>3. Tight(Trim(b)) BY <2>2, TightPart
  <2>4. hi - lo + 1 \in 1..hi - lo + 1 /\ lo + (hi - lo + 1) - 1 = hi BY <2>1 DEF Within
  <2>5. Trim(b)[hi - lo + 1] = b[hi] BY <2>1, <2>4
  <2> QED BY <2>1, <2>3, <2>5 DEF Within
<1> QED BY <1>1, <1>2

\* Trim takes two gaps at the most from each end.
LEMMA TightLong ==
  ASSUME NEW b \in Bodies, Tight(b), Len(b) >= 5
  PROVE  Len(Trim(b)) >= Len(b) - 4
<1>0. Len(b) \in Nat BY DEF Bodies
<1>1. \E i \in 1..3 : b[i] # Gap
  <2>1. 1 \in 1..Len(b) - 2 BY <1>0
  <2>2. ~(b[1] = Gap /\ b[1 + 1] = Gap /\ b[1 + 2] = Gap) BY <2>1 DEF Tight
  <2> QED BY <2>2
<1>2. \E j \in Len(b) - 2..Len(b) : b[j] # Gap
  <2> DEFINE k == Len(b) - 2
  <2>1. k \in 1..Len(b) - 2 /\ k + 2 = Len(b) BY <1>0
  <2> HIDE DEF k
  <2>2. ~(b[k] = Gap /\ b[k + 1] = Gap /\ b[k + 2] = Gap) BY <2>1 DEF Tight
  <2> QED BY <1>0, <2>1, <2>2 DEF k
<1>3. PICK i \in 1..3, j \in Len(b) - 2..Len(b) : b[i] # Gap /\ b[j] # Gap BY <1>1, <1>2
<1>4. i \in 1..Len(b) /\ j \in i..Len(b) BY <1>0
<1>5. Len(Trim(b)) >= j - i + 1 BY <1>3, <1>4, TrimLong
<1>6. Len(Trim(b)) \in Nat BY TrimLen
<1> QED BY <1>0, <1>5, <1>6

\* A text that ends with ink loses two gaps at the most by trimming.
LEMMA TightEndLong ==
  ASSUME NEW b \in Bodies, Tight(b), Len(b) >= 3, b[Len(b)] # Gap
  PROVE  Len(Trim(b)) >= Len(b) - 2
<1>0. Len(b) \in Nat BY DEF Bodies
<1>1. \E i \in 1..3 : b[i] # Gap
  <2>1. 1 \in 1..Len(b) - 2 BY <1>0
  <2>2. ~(b[1] = Gap /\ b[1 + 1] = Gap /\ b[1 + 2] = Gap) BY <2>1 DEF Tight
  <2> QED BY <2>2
<1>2. PICK i \in 1..3 : b[i] # Gap BY <1>1
<1>3. i \in 1..Len(b) /\ Len(b) \in i..Len(b) BY <1>0
<1>4. Len(Trim(b)) >= Len(b) - i + 1 BY <1>2, <1>3, TrimLong
<1>5. Len(Trim(b)) \in Nat BY TrimLen
<1> QED BY <1>0, <1>4, <1>5

\* A heading path, a block or a piece, and what comes of one: text under the same path.
Paths == Seq({line.title : line \in LineKinds})
Heaps == [path : Paths, body : Bodies]

\* The sizes.
LEMMA SizesAre ==
  ASSUME ChunksAssumption
  PROVE  /\ Target \in Nat \ {0} /\ Overlap \in Nat \ {0} /\ MinPiece \in Nat \ {0} /\ MinBody \in Nat \ {0}
         /\ Ceiling \in Nat \ {0} /\ MaxLines \in Nat \ {0}
         /\ Overlap < Target /\ MinPiece <= Overlap /\ MinBody <= MinPiece
         /\ MinBody + 4 <= Target /\ MinBody + 1 <= Overlap
BY DEF ChunksAssumption

\* What is cut up is kept, and no part is below the floor that is not all of it.
LEMMA SlideKeeps ==
  ASSUME ChunksAssumption, NEW path \in Paths, NEW s \in Bodies
  PROVE  /\ Slide(path, s) \in Seq(Heaps)
         /\ \A q \in Range(Slide(path, s)) : q.path = path /\ Ink(q.body) \subseteq Ink(s)
         /\ \A x \in Ink(s) : \E q \in Range(Slide(path, s)) : x \in Ink(q.body)
         /\ Tight(s) /\ (s # <<>> => s[Len(s)] # Gap) =>
              \A q \in Range(Slide(path, s)) : Ink(s) \subseteq Ink(q.body) \/ Len(Trim(q.body)) >= MinBody
<1> DEFINE cut == Windows(s, Target, Overlap)
<1>0. Len(s) \in Nat BY DEF Bodies
<1>1. /\ cut \in Seq(Bodies)
      /\ \A k \in DOMAIN cut : Ink(cut[k]) \subseteq Ink(s) /\ Len(cut[k]) <= Target
      /\ \A x \in Ink(s) : \E k \in DOMAIN cut : x \in Ink(cut[k])
  <2>1. Target \in Nat \ {0} /\ Overlap \in Nat /\ Overlap < Target BY SizesAre
  <2> HIDE DEF cut
  <2> QED BY <2>1, WindowsKeep DEF cut
<1>2. Slide(path, s) = [k \in DOMAIN cut |-> Block(path, cut[k])] BY DEF Slide
<1> HIDE DEF cut
<1> DEFINE sl == Slide(path, s)
<1> HIDE DEF sl
<1>3. DOMAIN sl = DOMAIN cut /\ \A k \in DOMAIN cut : sl[k].path = path /\ sl[k].body = cut[k]
  BY <1>2 DEF sl, Block
<1>4. \A q : q \in Range(sl) <=> \E k \in DOMAIN cut : q = sl[k] BY <1>3 DEF Range
<1>5. sl \in Seq(Heaps)
  <2>1. Len(cut) \in Nat /\ DOMAIN cut = 1..Len(cut) BY <1>1
  <2>2. \A k \in 1..Len(cut) : cut[k] \in Bodies BY <1>1
  <2>3. \A k \in 1..Len(cut) : Block(path, cut[k]) \in Heaps BY <2>2 DEF Block, Heaps
  <2>4. sl \in [1..Len(cut) -> Heaps]
    <3> HIDE DEF Heaps
    <3> QED BY <1>2, <2>1, <2>3 DEF sl
  <2> QED BY <2>1, <2>4, SeqDef
<1>6. ASSUME Tight(s), s # <<>> => s[Len(s)] # Gap, NEW k \in DOMAIN cut
      PROVE  Ink(s) \subseteq Ink(cut[k]) \/ Len(Trim(cut[k])) >= MinBody
  <2>1. CASE Len(s) <= Target
    <3>1. cut = <<s>> BY <2>1 DEF Windows, cut
    <3>2. cut[k] = s BY <1>6, <3>1
    <3> QED BY <3>2
  <2>2. CASE Len(s) > Target
    <3>0. Target \in Nat \ {0} /\ Overlap \in Nat \ {0} /\ MinBody \in Nat \ {0} /\ Overlap < Target
          /\ MinBody + 4 <= Target /\ MinBody + 1 <= Overlap
      BY SizesAre
    <3>1. PICK lo \in Nat, hi \in Nat :
            /\ Part(cut[k], s, lo, hi)
            /\ hi - lo + 1 = Target \/ (hi = Len(s) /\ hi - lo + 1 > Overlap /\ hi - lo + 1 <= Target)
      BY <1>6, <2>2, <3>0, WindowsAre DEF cut
    <3>2. cut[k] \in Bodies /\ Len(cut[k]) = hi - lo + 1 /\ Tight(cut[k]) BY <1>6, <3>1, TightPart DEF Part
    <3>3. Len(Trim(cut[k])) \in Nat BY <3>2, TrimLen
    <3>4. CASE hi - lo + 1 = Target
      <4>1. Len(cut[k]) >= 5 BY <3>0, <3>2, <3>4
      <4>2. Len(Trim(cut[k])) >= Len(cut[k]) - 4 BY <3>2, <4>1, TightLong
      <4> QED BY <3>0, <3>2, <3>3, <3>4, <4>2
    <3>5. CASE hi = Len(s) /\ hi - lo + 1 > Overlap
      <4>1. Len(cut[k]) >= 3 BY <3>0, <3>2, <3>5
      <4>2. cut[k][Len(cut[k])] = s[Len(s)]
        <5>1. hi - lo + 1 \in 1..hi - lo + 1 /\ lo + (hi - lo + 1) - 1 = hi BY <3>1, <3>2, <4>1
        <5> QED BY <3>1, <3>2, <3>5, <5>1 DEF Part
      <4>3. s # <<>> BY <1>0, <2>2, <3>0
      <4>4. Len(Trim(cut[k])) >= Len(cut[k]) - 2 BY <1>6, <3>2, <4>1, <4>2, <4>3, TightEndLong
      <4> QED BY <3>0, <3>2, <3>3, <3>5, <4>4
    <3> QED BY <3>1, <3>4, <3>5
  <2> QED BY <1>0, <2>1, <2>2, SizesAre
<1>7. \A q \in Range(sl) : q.path = path /\ Ink(q.body) \subseteq Ink(s) BY <1>1, <1>3, <1>4
<1>8. \A x \in Ink(s) : \E q \in Range(sl) : x \in Ink(q.body)
  <2> SUFFICES ASSUME NEW x \in Ink(s) PROVE \E q \in Range(sl) : x \in Ink(q.body) OBVIOUS
  <2>1. PICK k \in DOMAIN cut : x \in Ink(cut[k]) BY <1>1
  <2>2. sl[k] \in Range(sl) /\ sl[k].body = cut[k] BY <1>3, <1>4
  <2> QED BY <2>1, <2>2
<1>9. Tight(s) /\ (s # <<>> => s[Len(s)] # Gap) =>
        \A q \in Range(sl) : Ink(s) \subseteq Ink(q.body) \/ Len(Trim(q.body)) >= MinBody
  BY <1>3, <1>4, <1>6
<1> QED BY <1>5, <1>7, <1>8, <1>9 DEF sl

\* What q took over from o: its path, all its text, and no less of a size.
TakenOver(o, q) ==
  q.path = o.path /\ Ink(o.body) \subseteq Ink(q.body) /\ Len(Trim(q.body)) >= Len(Trim(o.body))

\* A piece takes itself over, and what was taken over stays so.
LEMMA TakenOverIs ==
  /\ \A o \in Heaps : TakenOver(o, o)
  /\ \A o, q, r \in Heaps : TakenOver(o, q) /\ TakenOver(q, r) => TakenOver(o, r)
<1>1. \A o \in Heaps : o.body \in Bodies /\ Len(Trim(o.body)) \in Nat BY TrimLen DEF Heaps
<1> QED BY <1>1 DEF TakenOver

\* push_piece takes over what is out and the piece, and mixes no paths.
LEMMA PushKeeps ==
  ASSUME NEW out \in Seq(Heaps), NEW piece \in Heaps
  PROVE  LET r == PushPiece(out, piece)
         IN  /\ r \in Seq(Heaps)
             /\ \A q \in Range(r) : \A x \in Ink(q.body) :
                  \E o \in Range(out) \cup {piece} : o.path = q.path /\ x \in Ink(o.body)
             /\ \A o \in Range(out) : \E q \in Range(r) : TakenOver(o, q)
             /\ piece.body # <<>> => \E q \in Range(r) : TakenOver(piece, q)
<1> DEFINE r == PushPiece(out, piece)
<1> HIDE DEF r
<1>0. Len(out) \in Nat /\ DOMAIN out = 1..Len(out) OBVIOUS
<1>1. \A o \in Range(out) : o \in Heaps BY DEF Range
<1>2. CASE piece.body = <<>>
  <2>1. r = out BY <1>2 DEF r, PushPiece
  <2> QED BY <1>1, <1>2, <2>1, TakenOverIs DEF r
<1>3. CASE piece.body # <<>> /\ Bytes(piece.body) < MinPiece /\ out # <<>> /\ Last(out).path = piece.path
  <2> DEFINE n == Len(out)
             new == Block(piece.path, Join(out[n].body, piece.body))
  <2>1. n \in 1..Len(out) BY <1>0, <1>3
  <2>2. out[n] \in Heaps /\ out[n].body \in Bodies /\ piece.body \in Bodies /\ piece.path \in Paths
    <3>1. out[n] \in Heaps BY <2>1
    <3> HIDE DEF n
    <3> QED BY <3>1 DEF Heaps
  <2>3. Join(out[n].body, piece.body) \in Bodies BY <2>2, JoinedAt
  <2>4. new \in Heaps BY <2>2, <2>3 DEF Heaps, Block
  <2>5. r = [out EXCEPT ![n] = new]
    <3>1. r = [out EXCEPT ![n] = Block(piece.path, Join(@.body, piece.body))] BY <1>3 DEF r, PushPiece
    <3> QED BY <3>1
  <2>6. out[n].path = piece.path BY <1>3 DEF Last
  <2>7. /\ new.path = piece.path /\ Ink(new.body) = Ink(out[n].body) \cup Ink(piece.body)
        /\ Len(Trim(new.body)) >= Len(Trim(out[n].body)) /\ Len(Trim(new.body)) >= Len(Trim(piece.body))
    BY <2>2, JoinInk, TrimJoin DEF Block
  <2> HIDE DEF n, new
  <2>8. /\ r \in Seq(Heaps) /\ Len(r) = Len(out) /\ DOMAIN r = 1..Len(out)
        /\ \A j \in 1..Len(out) : r[j] = IF j = n THEN new ELSE out[j]
    BY <2>1, <2>4, <2>5, ExceptSeq
  <2>9. TakenOver(out[n], new) /\ TakenOver(piece, new) BY <2>6, <2>7 DEF TakenOver
  <2>10. ASSUME NEW q \in Range(r), NEW x \in Ink(q.body)
         PROVE  \E o \in Range(out) \cup {piece} : o.path = q.path /\ x \in Ink(o.body)
    <3>1. PICK j \in 1..Len(out) : q = r[j] BY <2>8 DEF Range
    <3>2. out[j] \in Range(out) /\ out[n] \in Range(out) BY <1>0, <2>1 DEF Range
    <3>3. CASE j = n
      <4>1. q = new BY <2>8, <3>1, <3>3
      <4> QED BY <2>6, <2>7, <2>10, <3>2, <4>1
    <3>4. CASE j # n BY <2>8, <2>10, <3>1, <3>2, <3>4
    <3> QED BY <3>3, <3>4
  <2>11. new \in Range(r) BY <2>1, <2>8 DEF Range
  <2>12. ASSUME NEW o \in Range(out) PROVE \E q \in Range(r) : TakenOver(o, q)
    <3>1. PICK j \in 1..Len(out) : o = out[j] BY <1>0 DEF Range
    <3>2. CASE j = n BY <2>9, <2>11, <3>1, <3>2
    <3>3. CASE j # n
      <4>1. r[j] = o /\ r[j] \in Range(r) BY <2>8, <3>1, <3>3 DEF Range
      <4> QED BY <1>1, <4>1, TakenOverIs
    <3> QED BY <3>2, <3>3
  <2> QED BY <2>8, <2>9, <2>10, <2>11, <2>12 DEF r
<1>4. CASE piece.body # <<>> /\ ~(Bytes(piece.body) < MinPiece /\ out # <<>> /\ Last(out).path = piece.path)
  <2>1. r = Append(out, piece) BY <1>4 DEF r, PushPiece
  <2>2. /\ r \in Seq(Heaps) /\ Len(r) = Len(out) + 1
        /\ \A i \in 1..Len(out) : r[i] = out[i]
        /\ r[Len(out) + 1] = piece
    BY <2>1, AppendProperties
  <2>3. DOMAIN r = 1..Len(out) + 1 BY <1>0, <2>2
  <2>4. Range(r) = Range(out) \cup {piece}
    <3>1. ASSUME NEW q \in Range(r) PROVE q \in Range(out) \cup {piece}
      <4>1. PICK i \in 1..Len(out) + 1 : q = r[i] BY <2>3 DEF Range
      <4>2. i \in 1..Len(out) \/ i = Len(out) + 1 BY <1>0
      <4> QED BY <1>0, <2>2, <4>1, <4>2 DEF Range
    <3>2. ASSUME NEW o \in Range(out) PROVE o \in Range(r)
      <4>1. PICK i \in 1..Len(out) : o = out[i] BY <1>0 DEF Range
      <4>2. i \in 1..Len(out) + 1 BY <1>0
      <4> QED BY <2>2, <2>3, <4>1, <4>2 DEF Range
    <3>3. piece \in Range(r)
      <4>1. Len(out) + 1 \in 1..Len(out) + 1 BY <1>0
      <4> QED BY <2>2, <2>3, <4>1 DEF Range
    <3> QED BY <3>1, <3>2, <3>3
  <2> QED BY <1>1, <2>2, <2>4, TakenOverIs DEF r
<1> QED BY <1>2, <1>3, <1>4

\* The pieces there are, the one that may still grow among them.
PiecesOut(p) == Range(p.out) \cup {q \in {p.cur} : q.body # <<>>}
Packers == [out : Seq(Heaps), cur : Heaps]

\* The pieces out are pieces.
LEMMA PiecesOutAreHeaps ==
  ASSUME NEW p \in Packers
  PROVE  \A o \in PiecesOut(p) : o \in Heaps
BY DEF PiecesOut, Packers, Range

\* Two sequences appended have the members of both.
LEMMA ConcatRange ==
  ASSUME NEW S, NEW a \in Seq(S), NEW b \in Seq(S)
  PROVE  a \o b \in Seq(S) /\ Range(a \o b) = Range(a) \cup Range(b)
<1> DEFINE c == a \o b
<1>1. /\ c \in Seq(S) /\ Len(c) = Len(a) + Len(b)
      /\ \A i \in 1..Len(a) + Len(b) : c[i] = IF i <= Len(a) THEN a[i] ELSE b[i - Len(a)]
  BY ConcatProperties
<1> HIDE DEF c
<1>2. Len(a) \in Nat /\ Len(b) \in Nat /\ DOMAIN c = 1..Len(a) + Len(b) BY <1>1
<1>3. DOMAIN a = 1..Len(a) /\ DOMAIN b = 1..Len(b) OBVIOUS
<1>4. ASSUME NEW x \in Range(c) PROVE x \in Range(a) \cup Range(b)
  <2>1. PICK i \in 1..Len(a) + Len(b) : x = c[i] BY <1>2 DEF Range
  <2>2. CASE i <= Len(a)
    <3>1. i \in DOMAIN a /\ x = a[i] BY <1>1, <1>2, <1>3, <2>1, <2>2
    <3> QED BY <3>1 DEF Range
  <2>3. CASE i > Len(a)
    <3>1. i - Len(a) \in DOMAIN b /\ x = b[i - Len(a)] BY <1>1, <1>2, <1>3, <2>1, <2>3
    <3> QED BY <3>1 DEF Range
  <2> QED BY <1>2, <2>2, <2>3
<1>5. ASSUME NEW x \in Range(a) PROVE x \in Range(c)
  <2>1. PICK i \in 1..Len(a) : x = a[i] BY <1>3 DEF Range
  <2>2. i \in DOMAIN c /\ c[i] = x BY <1>1, <1>2, <2>1
  <2> QED BY <2>2 DEF Range
<1>6. ASSUME NEW x \in Range(b) PROVE x \in Range(c)
  <2>1. PICK i \in 1..Len(b) : x = b[i] BY <1>3 DEF Range
  <2>2. Len(a) + i \in 1..Len(a) + Len(b) /\ ~(Len(a) + i <= Len(a)) /\ (Len(a) + i) - Len(a) = i BY <1>2
  <2>3. Len(a) + i \in DOMAIN c /\ c[Len(a) + i] = x BY <1>1, <1>2, <2>1, <2>2
  <2> QED BY <2>3 DEF Range
<1> QED BY <1>1, <1>4, <1>5, <1>6 DEF c

\* The last piece goes out the same way.
LEMMA FlushKeeps ==
  ASSUME NEW p \in Packers
  PROVE  LET r == PushPiece(p.out, p.cur)
         IN  /\ r \in Seq(Heaps)
             /\ \A q \in Range(r) : \A x \in Ink(q.body) :
                  \E o \in PiecesOut(p) : o.path = q.path /\ x \in Ink(o.body)
             /\ \A o \in PiecesOut(p) : \E q \in Range(r) : TakenOver(o, q)
<1> DEFINE r == PushPiece(p.out, p.cur)
<1>0. p.out \in Seq(Heaps) /\ p.cur \in Heaps BY DEF Packers
<1>1. /\ r \in Seq(Heaps)
      /\ \A q \in Range(r) : \A x \in Ink(q.body) :
           \E o \in Range(p.out) \cup {p.cur} : o.path = q.path /\ x \in Ink(o.body)
      /\ \A o \in Range(p.out) : \E q \in Range(r) : TakenOver(o, q)
      /\ p.cur.body # <<>> => \E q \in Range(r) : TakenOver(p.cur, q)
  BY <1>0, PushKeeps
<1> HIDE DEF r
<1>2. Ink(<<>>) = {} BY DEF Ink, Range
<1>3. ASSUME NEW q \in Range(r), NEW x \in Ink(q.body)
      PROVE  \E o \in PiecesOut(p) : o.path = q.path /\ x \in Ink(o.body)
  <2>1. PICK o \in Range(p.out) \cup {p.cur} : o.path = q.path /\ x \in Ink(o.body) BY <1>1
  <2>2. o.body # <<>> BY <1>2, <2>1
  <2> QED BY <2>1, <2>2 DEF PiecesOut
<1>4. ASSUME NEW o \in PiecesOut(p) PROVE \E q \in Range(r) : TakenOver(o, q) BY <1>1 DEF PiecesOut
<1> QED BY <1>1, <1>3, <1>4 DEF r

\* A block is packed, and what was there before is kept.
LEMMA PackKeeps ==
  ASSUME ChunksAssumption, NEW p \in Packers, NEW block \in Heaps
  PROVE  LET r == PackBlock(p, block)
         IN  /\ r \in Packers
             /\ \A q \in PiecesOut(r) : \A x \in Ink(q.body) :
                  \/ \E o \in PiecesOut(p) : o.path = q.path /\ x \in Ink(o.body)
                  \/ q.path = block.path /\ x \in Ink(block.body)
             /\ \A o \in PiecesOut(p) : \E q \in PiecesOut(r) : TakenOver(o, q)
             /\ Tight(block.body) => \A x \in Ink(block.body) : \E q \in PiecesOut(r) :
                  /\ q.path = block.path /\ x \in Ink(q.body)
                  /\ Ink(block.body) \subseteq Ink(q.body) \/ Len(Trim(q.body)) >= MinBody
<1> DEFINE r == PackBlock(p, block)
           body == Trim(block.body)
           flushed == PushPiece(p.out, p.cur)
           slid == Slide(block.path, body)
<1>0. /\ block.path \in Paths /\ block.body \in Bodies
      /\ p.out \in Seq(Heaps) /\ p.cur \in Heaps /\ p.cur.body \in Bodies /\ p.cur.path \in Paths
      /\ NoPath \in Paths /\ <<>> \in Bodies /\ Ink(<<>>) = {}
  BY DEF Packers, Heaps, Paths, NoPath, Bodies, Ink, Range
<1>1. body \in Bodies /\ Ink(body) = Ink(block.body) BY <1>0, TrimInk
<1>2. Tight(block.body) => Tight(body) /\ (body # <<>> => body[Len(body)] # Gap) BY <1>0, TightTrim
<1>3. /\ flushed \in Seq(Heaps)
      /\ \A q \in Range(flushed) : \A x \in Ink(q.body) :
           \E o \in PiecesOut(p) : o.path = q.path /\ x \in Ink(o.body)
      /\ \A o \in PiecesOut(p) : \E q \in Range(flushed) : TakenOver(o, q)
  BY FlushKeeps
<1>4. /\ slid \in Seq(Heaps)
      /\ \A q \in Range(slid) : q.path = block.path /\ Ink(q.body) \subseteq Ink(body)
      /\ \A x \in Ink(body) : \E q \in Range(slid) : x \in Ink(q.body)
      /\ Tight(body) /\ (body # <<>> => body[Len(body)] # Gap) =>
           \A q \in Range(slid) : Ink(body) \subseteq Ink(q.body) \/ Len(Trim(q.body)) >= MinBody
  <2> HIDE DEF body
  <2> QED BY <1>0, <1>1, SlideKeeps
<1>5. r = IF body = <<>> THEN p
          ELSE IF Bytes(body) > Target
               THEN [out |-> flushed \o slid, cur |-> Block(NoPath, <<>>)]
               ELSE IF Mergeable(p.cur, block.path, body)
                    THEN [out |-> p.out, cur |-> Block(block.path, Join(p.cur.body, body))]
                    ELSE [out |-> flushed, cur |-> Block(block.path, body)]
  BY DEF PackBlock
<1>6. \A o \in PiecesOut(p) : o \in Heaps BY PiecesOutAreHeaps
<1> HIDE DEF r, body, flushed, slid
<1>7. CASE body = <<>>
  <2>1. r = p /\ Ink(block.body) = {} BY <1>0, <1>1, <1>5, <1>7
  <2>2. \A o \in PiecesOut(p) : TakenOver(o, o) BY <1>6, TakenOverIs
  <2> QED BY <2>1, <2>2 DEF r
<1>8. CASE body # <<>> /\ Bytes(body) > Target
  <2>1. r = [out |-> flushed \o slid, cur |-> Block(NoPath, <<>>)] BY <1>5, <1>8
  <2>2. flushed \o slid \in Seq(Heaps) /\ Range(flushed \o slid) = Range(flushed) \cup Range(slid)
    BY <1>3, <1>4, ConcatRange
  <2>3. Block(NoPath, <<>>) \in Heaps /\ Block(NoPath, <<>>).body = <<>> BY <1>0 DEF Heaps, Block
  <2>4. r \in Packers BY <2>1, <2>2, <2>3 DEF Packers
  <2>5. PiecesOut(r) = Range(flushed) \cup Range(slid) BY <2>1, <2>2, <2>3 DEF PiecesOut
  <2> QED BY <1>1, <1>2, <1>3, <1>4, <2>4, <2>5 DEF r
<1>9. CASE body # <<>> /\ ~(Bytes(body) > Target) /\ Mergeable(p.cur, block.path, body)
  <2> DEFINE new == Block(block.path, Join(p.cur.body, body))
  <2>1. r = [out |-> p.out, cur |-> new] BY <1>5, <1>9
  <2>2. p.cur.body # <<>> /\ block.path = p.cur.path BY <1>9 DEF Mergeable
  <2>3. /\ Join(p.cur.body, body) \in Bodies
        /\ Ink(Join(p.cur.body, body)) = Ink(p.cur.body) \cup Ink(body)
        /\ Len(Trim(Join(p.cur.body, body))) >= Len(Trim(p.cur.body))
    BY <1>0, <1>1, JoinedAt, JoinInk, TrimJoin
  <2>4. /\ new \in Heaps /\ new.path = block.path /\ Ink(new.body) = Ink(p.cur.body) \cup Ink(body)
        /\ TakenOver(p.cur, new) /\ new.body # <<>>
    <3>1. new \in Heaps /\ new.path = block.path /\ new.body = Join(p.cur.body, body)
      BY <1>0, <2>3 DEF Heaps, Block
    <3>2. Ink(body) # {} BY <1>0, <1>1, <1>9, TrimInk DEF body
    <3> QED BY <1>0, <2>2, <2>3, <3>1, <3>2 DEF TakenOver
  <2> HIDE DEF new
  <2>5. PiecesOut(r) = Range(p.out) \cup {new} BY <2>1, <2>4 DEF PiecesOut
  <2>6. PiecesOut(p) = Range(p.out) \cup {p.cur} BY <2>2 DEF PiecesOut
  <2>7. r \in Packers BY <1>0, <2>1, <2>4 DEF Packers
  <2>8. ASSUME NEW q \in PiecesOut(r), NEW x \in Ink(q.body)
        PROVE  \/ \E o \in PiecesOut(p) : o.path = q.path /\ x \in Ink(o.body)
               \/ q.path = block.path /\ x \in Ink(block.body)
    <3>1. CASE q = new BY <1>1, <2>2, <2>4, <2>6, <2>8, <3>1
    <3>2. CASE q # new BY <2>5, <2>6, <2>8, <3>2
    <3> QED BY <3>1, <3>2
  <2>9. ASSUME NEW o \in PiecesOut(p) PROVE \E q \in PiecesOut(r) : TakenOver(o, q)
    <3>1. CASE o = p.cur BY <2>4, <2>5, <3>1
    <3>2. CASE o # p.cur BY <1>6, <2>5, <2>6, <2>9, <3>2, TakenOverIs
    <3> QED BY <3>1, <3>2
  <2>10. new \in PiecesOut(r) BY <2>5
  <2> QED BY <1>1, <2>4, <2>7, <2>8, <2>9, <2>10 DEF r
<1>10. CASE body # <<>> /\ ~(Bytes(body) > Target) /\ ~Mergeable(p.cur, block.path, body)
  <2> DEFINE new == Block(block.path, body)
  <2>1. r = [out |-> flushed, cur |-> new] BY <1>5, <1>10
  <2>2. new \in Heaps /\ new.path = block.path /\ new.body = body BY <1>0, <1>1 DEF Heaps, Block
  <2> HIDE DEF new
  <2>3. PiecesOut(r) = Range(flushed) \cup {new} BY <1>10, <2>1, <2>2 DEF PiecesOut
  <2>4. r \in Packers BY <1>3, <2>1, <2>2 DEF Packers
  <2> QED BY <1>1, <1>3, <2>2, <2>3, <2>4 DEF r
<1> QED BY <1>7, <1>8, <1>9, <1>10

\* The same for a piece of code.
LEMMA SpanKeeps ==
  ASSUME ChunksAssumption, NEW body \in Bodies
  PROVE  /\ Span(body) \in Seq(Heaps)
         /\ \A q \in Range(Span(body)) : q.path = NoPath /\ Ink(q.body) \subseteq Ink(body)
         /\ \A x \in Ink(body) : \E q \in Range(Span(body)) : x \in Ink(q.body)
<1>1. CASE Ink(body) = {}
  <2>1. Span(body) = <<>> /\ <<>> \in Seq(Heaps) /\ Range(<<>>) = {} BY <1>1 DEF Span, Range
  <2> QED BY <1>1, <2>1
<1>2. CASE Ink(body) # {}
  <2>1. Span(body) = Slide(NoPath, Trim(body)) BY <1>2 DEF Span
  <2>2. NoPath \in Paths BY DEF NoPath, Paths
  <2>3. Trim(body) \in Bodies /\ Ink(Trim(body)) = Ink(body) BY TrimInk
  <2> QED BY <2>1, <2>2, <2>3, SlideKeeps
<1> QED BY <1>1, <1>2

\* enforce_limit loses nothing, and what it hands out fits or is of the smallest window.
LEMMA LimitKeeps ==
  ASSUME ChunksAssumption, NEW b \in Bodies
  PROVE  /\ \A c \in Range(EnforceLimit(b)) : Ink(c) \subseteq Ink(b) /\ (Fits(c) \/ Len(c) <= MinPiece)
         /\ \A x \in Ink(b) : \E c \in Range(EnforceLimit(b)) : x \in Ink(c)
<1> DEFINE good == {w \in Tried : \A k \in DOMAIN Cut(b, w) : Fits(Cut(b, w)[k])}
           w == IF good = {} THEN MinPiece ELSE CHOOSE u \in good : \A v \in good : v <= u
<1>0. MinPiece \in Nat \ {0} /\ Overlap \in Nat /\ Ceiling \in Nat BY SizesAre
<1>1. CASE Fits(b)
  <2>1. EnforceLimit(b) = <<b>> BY <1>1 DEF EnforceLimit
  <2>2. Range(<<b>>) = {b} BY DEF Range
  <2> QED BY <1>1, <2>1, <2>2
<1>2. CASE ~Fits(b)
  <2>1. EnforceLimit(b) = Cut(b, w) BY <1>2 DEF EnforceLimit
  <2>2. good \in SUBSET (MinPiece..Ceiling) BY DEF Tried
  <2>3. \A k \in DOMAIN Cut(b, w) : w \in good => Fits(Cut(b, w)[k])
    <3> HIDE DEF w
    <3> QED OBVIOUS
  <2> HIDE DEF good
  <2>4. w = MinPiece \/ (w \in good /\ w \in Nat \ {0})
    <3>1. CASE good = {} BY <3>1
    <3>2. CASE good # {}
      <4>1. good \in SUBSET Nat BY <1>0, <2>2
      <4>2. IsFiniteSet(good)
        <5>1. IsFiniteSet(MinPiece..Ceiling) BY <1>0, FS_Interval
        <5> QED BY <2>2, <5>1, FS_Subset
      <4>3. \E u \in good : \A v \in good : v <= u BY <3>2, <4>1, <4>2, GreatestExists
      <4>4. w \in good BY <3>2, <4>3
      <4>5. \A u \in good : u \in Nat \ {0} BY <1>0, <2>2
      <4> HIDE DEF w
      <4> QED BY <4>4, <4>5
    <3> QED BY <3>1, <3>2
  <2> HIDE DEF w
  <2>5. w \in Nat \ {0} BY <1>0, <2>4
  <2>6. Quarter(w) \in Nat /\ Quarter(w) < w
    <3>1. w \div 4 \in Nat /\ w \div 4 < w BY <2>5
    <3> QED BY <1>0, <2>5, <3>1 DEF Quarter
  <2> DEFINE cut == Cut(b, w)
  <2>7. /\ cut \in Seq(Bodies)
        /\ \A k \in DOMAIN cut : Ink(cut[k]) \subseteq Ink(b) /\ Len(cut[k]) <= w
        /\ \A x \in Ink(b) : \E k \in DOMAIN cut : x \in Ink(cut[k])
    BY <2>5, <2>6, WindowsKeep DEF Cut
  <2>8. \A k \in DOMAIN cut : Fits(cut[k]) \/ Len(cut[k]) <= MinPiece BY <2>3, <2>4, <2>7
  <2> HIDE DEF cut
  <2>9. \A c : c \in Range(cut) <=> \E k \in DOMAIN cut : c = cut[k] BY DEF Range
  <2> QED BY <2>1, <2>7, <2>8, <2>9 DEF cut
<1> QED BY <1>1, <1>2

\* The chunks of a piece: its path and its text.
LEMMA ChunksOfKeep ==
  ASSUME ChunksAssumption, NEW piece \in Heaps
  PROVE  /\ \A c \in ChunksOf(piece) :
              /\ c.path = piece.path /\ Ink(c.body) \subseteq Ink(piece.body)
              /\ Fits(c.body) \/ Len(c.body) <= MinPiece
         /\ lang # "markdown" \/ Len(Trim(piece.body)) >= MinBody =>
              \A x \in Ink(piece.body) : \E c \in ChunksOf(piece) : x \in Ink(c.body)
<1> DEFINE label == Labelled(piece)
           cut == EnforceLimit(label)
<1>1. piece.body \in Bodies /\ piece.path \in Paths BY DEF Heaps
<1>2. Crumb(piece.path) \in Bodies /\ Ink(Crumb(piece.path)) = {}
  <2>1. Len(piece.path) \in Nat /\ DOMAIN piece.path = 1..Len(piece.path) BY <1>1 DEF Paths
  <2>2. Crumb(piece.path) \in [1..Len(piece.path) -> Glyphs] BY <2>1, GapIsGlyph DEF Crumb
  <2>3. Crumb(piece.path) \in Bodies BY <2>1, <2>2, SeqDef DEF Bodies
  <2> QED BY <2>3 DEF Ink, Range, Crumb
<1>3. label \in Bodies /\ Ink(label) = Ink(piece.body)
  <2>1. label = Join(Crumb(piece.path), piece.body) BY DEF Labelled
  <2> HIDE DEF label
  <2>2. label \in Bodies BY <1>1, <1>2, <2>1, JoinedAt
  <2>3. Ink(label) = Ink(Crumb(piece.path)) \cup Ink(piece.body) BY <1>1, <1>2, <2>1, JoinInk
  <2> QED BY <1>2, <2>2, <2>3
<1> HIDE DEF label
<1>4. /\ \A c \in Range(cut) : Ink(c) \subseteq Ink(label) /\ (Fits(c) \/ Len(c) <= MinPiece)
      /\ \A x \in Ink(label) : \E c \in Range(cut) : x \in Ink(c)
  BY <1>3, LimitKeeps
<1>5. ChunksOf(piece) = IF lang = "markdown" /\ Len(Trim(piece.body)) < MinBody THEN {}
                        ELSE {Block(piece.path, body) : body \in Range(cut)}
  BY DEF ChunksOf, label
<1> HIDE DEF cut
<1>6. \A body : Block(piece.path, body).path = piece.path /\ Block(piece.path, body).body = body BY DEF Block
<1>7. ASSUME NEW c \in ChunksOf(piece)
      PROVE  /\ c.path = piece.path /\ Ink(c.body) \subseteq Ink(piece.body)
             /\ Fits(c.body) \/ Len(c.body) <= MinPiece
  <2>1. PICK body \in Range(cut) : c = Block(piece.path, body) BY <1>5, <1>7
  <2> QED BY <1>3, <1>4, <1>6, <2>1
<1>8. ASSUME lang # "markdown" \/ Len(Trim(piece.body)) >= MinBody, NEW x \in Ink(piece.body)
      PROVE  \E c \in ChunksOf(piece) : x \in Ink(c.body)
  <2>1. PICK body \in Range(cut) : x \in Ink(body) BY <1>3, <1>4
  <2>2. ~(lang = "markdown" /\ Len(Trim(piece.body)) < MinBody)
    <3>1. Len(Trim(piece.body)) \in Nat /\ MinBody \in Nat BY <1>1, TrimLen, SizesAre
    <3> QED BY <1>8, <3>1
  <2>3. Block(piece.path, body) \in ChunksOf(piece) BY <1>5, <2>1, <2>2
  <2> QED BY <1>6, <2>1, <2>3
<1> QED BY <1>7, <1>8

-----------------------------------------------------------------------------
(* The chunker: what the reader has gone over                               *)

Frames == [level : Nat, title : {line.title : line \in LineKinds}]
Readers == [stack : Seq(Frames),
            path : Paths, body : Bodies, fence : BOOLEAN]

ChunksTypes ==
  /\ doc \in Seq(LineKinds) /\ lang \in Langs
  /\ reader \in Readers /\ packer \in Packers

\* Closing the block leaves a packer.
LEMMA PackedIs ==
  ASSUME ChunksAssumption, ChunksTypes
  PROVE  Packed \in Packers
<1>1. Block(reader.path, reader.body) \in Heaps BY DEF ChunksTypes, Readers, Heaps, Block
<1>2. packer \in Packers BY DEF ChunksTypes
<1>3. PackBlock(packer, Block(reader.path, reader.body)) \in Packers BY <1>1, <1>2, PackKeeps
<1> QED BY <1>2, <1>3 DEF Packed

\* What a document comes to are pieces.
LEMMA PiecesAre ==
  ASSUME ChunksAssumption, ChunksTypes
  PROVE  Pieces \in Seq(Heaps)
<1>1. CASE lang = "code"
  <2>1. Span(reader.body) \in Seq(Heaps) BY SpanKeeps DEF ChunksTypes, Readers
  <2>2. packer.out \in Seq(Heaps) BY DEF ChunksTypes, Packers
  <2> QED BY <1>1, <2>1, <2>2, ConcatRange DEF Pieces
<1>2. CASE lang # "code"
  <2>1. PushPiece(Packed.out, Packed.cur) \in Seq(Heaps) BY PackedIs, FlushKeeps
  <2> QED BY <1>2, <2>1 DEF Pieces
<1> QED BY <1>1, <1>2

\* Whatever is in hand, its chunks are small.
LEMMA TypesFit ==
  ASSUME ChunksAssumption, ChunksTypes
  PROVE  ChunksFit
<1> SUFFICES ASSUME NEW c \in Chunk PROVE Fits(c.body) \/ Len(c.body) <= MinPiece BY DEF ChunksFit
<1>1. PICK piece \in Range(Pieces) : c \in ChunksOf(piece) BY DEF Chunk
<1>2. piece \in Heaps BY PiecesAre DEF Range
<1> QED BY <1>1, <1>2, ChunksOfKeep

\* The next line adds its characters to the body.
LEMMA LongerIs ==
  ASSUME ChunksAssumption, ChunksTypes, NEW line \in LineKinds
  PROVE  /\ CellsOf(line, Len(doc) + 1) \in Bodies
         /\ Longer(line) \in Bodies
         /\ Ink(Longer(line)) = Ink(reader.body) \cup Range(CellsOf(line, Len(doc) + 1))
<1>1. Len(doc) + 1 \in Nat \ {0} /\ reader.body \in Bodies BY DEF ChunksTypes, Readers
<1> DEFINE cells == CellsOf(line, Len(doc) + 1)
<1>2. cells \in Bodies /\ \A x \in Range(cells) : x # Gap BY <1>1, CellsAreGlyphs
<1> HIDE DEF cells
<1>3. Ink(cells) = Range(cells) BY <1>2 DEF Ink
<1>4. Longer(line) = Join(reader.body, cells) BY DEF Longer, cells
<1>5. Join(reader.body, cells) \in Bodies BY <1>1, <1>2, JoinedAt
<1>6. Ink(Join(reader.body, cells)) = Ink(reader.body) \cup Ink(cells) BY <1>1, <1>2, JoinInk
<1> QED BY <1>2, <1>3, <1>4, <1>5, <1>6 DEF cells

\* What a heading leaves of the stack: all from the last that ranks above it down.
LEMMA PoppedIs ==
  ASSUME NEW stack \in Seq(Frames), NEW level \in Nat
  PROVE  \E n \in 0..Len(stack) :
           /\ n = 0 \/ stack[n].level < level
           /\ \A m \in n + 1..Len(stack) : stack[m].level >= level
           /\ Popped(stack, level) \in Seq(Frames) /\ Len(Popped(stack, level)) = n
           /\ \A k \in 1..n : Popped(stack, level)[k] = stack[k]
<1> DEFINE Top(n) == /\ n = 0 \/ stack[n].level < level
                     /\ \A m \in n + 1..Len(stack) : stack[m].level >= level
           T == {n \in 0..Len(stack) : n = 0 \/ stack[n].level < level}
           n == CHOOSE n \in 0..Len(stack) : Top(n)
<1>0. Len(stack) \in Nat /\ \A k \in 1..Len(stack) : stack[k] \in Frames /\ stack[k].level \in Nat
  <2>1. Len(stack) \in Nat /\ \A k \in 1..Len(stack) : stack[k] \in Frames OBVIOUS
  <2>2. \A f \in Frames : f.level \in Nat BY DEF Frames
  <2> QED BY <2>1, <2>2
<1>1. \E k \in 0..Len(stack) : Top(k)
  <2>1. T \in SUBSET Nat /\ T # {} /\ IsFiniteSet(T)
    <3>1. 0 \in T BY <1>0
    <3>2. IsFiniteSet(0..Len(stack))
      <4>1. \A k \in Nat : IsFiniteSet(0..k) BY FS_Interval
      <4> QED BY <1>0, <4>1
    <3>3. IsFiniteSet(T) BY <3>2, FS_Subset
    <3> QED BY <1>0, <3>1, <3>3
  <2>2. PICK k \in T : \A m \in T : m <= k
    <3> HIDE DEF T
    <3> QED BY <2>1, GreatestExists
  <2>3. k \in 0..Len(stack) /\ (k = 0 \/ stack[k].level < level) OBVIOUS
  <2>4. ASSUME NEW m \in k + 1..Len(stack) PROVE stack[m].level >= level
    <3>1. m \in 1..Len(stack) /\ ~(m <= k) BY <1>0, <2>3
    <3>2. m \notin T BY <2>2, <3>1
    <3>3. ~(stack[m].level < level) BY <3>1, <3>2
    <3>4. stack[m].level \in Nat BY <1>0, <3>1
    <3> QED BY <3>3, <3>4
  <2> QED BY <2>3, <2>4
<1>2. n \in 0..Len(stack) /\ Top(n) BY <1>1
<1>3. Popped(stack, level) = SubSeq(stack, 1, n) BY DEF Popped
<1> HIDE DEF n
<1>4. n \in Nat /\ n \in Int BY <1>0, <1>2
<1>5. \A i \in 1..n : stack[i] \in Frames BY <1>0, <1>2, <1>4
<1>6. /\ SubSeq(stack, 1, n) \in Seq(Frames)
      /\ Len(SubSeq(stack, 1, n)) = IF 1 <= n THEN n - 1 + 1 ELSE 0
      /\ \A i \in 1..n - 1 + 1 : SubSeq(stack, 1, n)[i] = stack[1 + i - 1]
  BY <1>4, <1>5, SubSeqProperties
<1>7. n - 1 + 1 = n /\ (IF 1 <= n THEN n - 1 + 1 ELSE 0) = n /\ \A i \in 1..n : 1 + i - 1 = i BY <1>4
<1>8. Len(SubSeq(stack, 1, n)) = n /\ \A i \in 1..n : SubSeq(stack, 1, n)[i] = stack[i] BY <1>6, <1>7
<1> QED BY <1>2, <1>3, <1>6, <1>8

\* The stack under a heading.
Stacked(line) == Append(Popped(reader.stack, line.level), [level |-> line.level, title |-> line.title])
PathOn(stack) == [h \in DOMAIN stack |-> stack[h].title]

\* A heading is put on what it leaves of the stack.
LEMMA StackedIs ==
  ASSUME ChunksAssumption, ChunksTypes, NEW line \in LineKinds, line.kind = "head"
  PROVE  /\ Stacked(line) \in Seq(Frames) /\ PathOn(Stacked(line)) \in Paths
         /\ \E n \in 0..Len(reader.stack) :
              /\ n = 0 \/ reader.stack[n].level < line.level
              /\ \A m \in n + 1..Len(reader.stack) : reader.stack[m].level >= line.level
              /\ Len(Stacked(line)) = n + 1
              /\ \A k \in 1..n : Stacked(line)[k] = reader.stack[k]
              /\ Stacked(line)[n + 1] = [level |-> line.level, title |-> line.title]
<1> DEFINE frame == [level |-> line.level, title |-> line.title]
           popped == Popped(reader.stack, line.level)
<1>1. reader.stack \in Seq(Frames) /\ line.level \in Nat BY DEF ChunksTypes, Readers, ChunksAssumption
<1>2. frame \in Frames BY <1>1 DEF Frames
<1>3. PICK n \in 0..Len(reader.stack) :
        /\ n = 0 \/ reader.stack[n].level < line.level
        /\ \A m \in n + 1..Len(reader.stack) : reader.stack[m].level >= line.level
        /\ popped \in Seq(Frames) /\ Len(popped) = n
        /\ \A k \in 1..n : popped[k] = reader.stack[k]
  BY <1>1, PoppedIs
<1>4. Stacked(line) = Append(popped, frame) BY DEF Stacked
<1> HIDE DEF popped, frame
<1>5. /\ Stacked(line) \in Seq(Frames) /\ Len(Stacked(line)) = n + 1
      /\ \A k \in 1..n : Stacked(line)[k] = popped[k]
      /\ Stacked(line)[n + 1] = frame
  BY <1>2, <1>3, <1>4, AppendProperties
<1>6. PathOn(Stacked(line)) \in Paths
  <2> DEFINE st == Stacked(line)
             T == {l.title : l \in LineKinds}
  <2>1. Len(st) \in Nat /\ DOMAIN st = 1..Len(st) BY <1>5
  <2>2. \A k \in 1..Len(st) : st[k].title \in T
    <3>1. \A k \in 1..Len(st) : st[k] \in Frames BY <1>5
    <3> HIDE DEF st
    <3> QED BY <3>1 DEF Frames
  <2> HIDE DEF st, T
  <2>3. PathOn(st) \in [1..Len(st) -> T] BY <2>1, <2>2 DEF PathOn
  <2>4. PathOn(st) \in Seq(T) BY <2>1, <2>3, SeqDef
  <2> QED BY <2>4 DEF st, T, Paths
<1> QED BY <1>3, <1>5, <1>6 DEF frame

\* What a heading does to the reader.
LEMMA HeadLineIs ==
  ASSUME NEW line, HeadLine(line)
  PROVE  /\ lang = "markdown" /\ line.kind = "head" /\ ~reader.fence
         /\ reader' = [stack |-> Stacked(line), path |-> PathOn(Stacked(line)), body |-> <<>>, fence |-> FALSE]
         /\ packer' = Packed
BY DEF HeadLine, Stacked, PathOn

\* The loop starts with types,
LEMMA TypesInit ==
  ASSUME ChunksInit
  PROVE  ChunksTypes
<1>1. <<>> \in Seq(LineKinds) /\ <<>> \in Seq(Frames) /\ <<>> \in Seq(Heaps) OBVIOUS
<1>2. NoPath \in Paths /\ <<>> \in Bodies BY DEF NoPath, Paths, Bodies
<1>3. Block(NoPath, <<>>) \in Heaps BY <1>2 DEF Block, Heaps
<1>4. reader \in Readers BY <1>1, <1>2 DEF ChunksInit, Readers
<1>5. packer \in Packers BY <1>1, <1>3 DEF ChunksInit, Packers
<1> QED BY <1>1, <1>4, <1>5 DEF ChunksInit, ChunksTypes

\* and every line keeps them.
LEMMA TypesStep ==
  ASSUME ChunksAssumption, ChunksTypes, NEW line \in LineKinds, AddLine(line)
  PROVE  ChunksTypes'
<1>1. doc' \in Seq(LineKinds) /\ lang' \in Langs
  <2>1. doc \in Seq(LineKinds) BY DEF ChunksTypes
  <2>2. doc' = Append(doc, line) BY DEF AddLine
  <2> QED BY <2>1, <2>2, AppendProperties DEF ChunksTypes, AddLine
<1>2. Longer(line) \in Bodies /\ <<>> \in Bodies BY LongerIs DEF Bodies
<1>3. reader \in Readers /\ packer \in Packers BY DEF ChunksTypes
<1>4. CASE HeadLine(line)
  <2>1. line.kind = "head" /\ packer' = Packed
        /\ reader' = [stack |-> Stacked(line), path |-> PathOn(Stacked(line)), body |-> <<>>, fence |-> FALSE]
    BY <1>4, HeadLineIs
  <2>2. reader' \in Readers BY <1>2, <2>1, StackedIs DEF Readers
  <2> QED BY <1>1, <2>1, <2>2, PackedIs DEF ChunksTypes
<1>5. CASE BodyLine(line)
  <2>1. reader' \in Readers BY <1>2, <1>3, <1>5 DEF BodyLine, Readers
  <2> QED BY <1>1, <1>3, <1>5, <2>1 DEF ChunksTypes, BodyLine
<1>6. CASE PlainLine(line)
  <2>1. reader' \in Readers BY <1>2, <1>3, <1>6 DEF PlainLine, Readers
  <2>2. packer' \in Packers BY <1>3, <1>6, PackedIs DEF PlainLine
  <2> QED BY <1>1, <2>1, <2>2 DEF ChunksTypes
<1>7. CASE CodeLine(line)
  <2>1. reader' \in Readers BY <1>2, <1>3, <1>7 DEF CodeLine, Readers
  <2>2. packer.out \o Span(Longer(line)) \in Seq(Heaps)
    <3>1. packer.out \in Seq(Heaps) BY <1>3 DEF Packers
    <3> QED BY <1>2, <3>1, SpanKeeps, ConcatRange
  <2>3. packer' \in Packers
    <3>1. packer' = packer \/ packer' = [packer EXCEPT !.out = @ \o Span(Longer(line))] BY <1>7 DEF CodeLine
    <3> QED BY <1>3, <2>2, <3>1 DEF Packers
  <2> QED BY <1>1, <2>1, <2>3 DEF ChunksTypes
<1> QED BY <1>4, <1>5, <1>6, <1>7 DEF AddLine

\* No chunk is over the embedder's limit by the estimate unless it is of the smallest window.
THEOREM ChunksAreSmall == ASSUME ChunksAssumption PROVE ChunksSpec => []ChunksFit
<1>1. ChunksInit => ChunksTypes BY TypesInit
<1>2. ChunksTypes /\ [ChunksNext]_chunkVars => ChunksTypes'
  <2> SUFFICES ASSUME ChunksTypes, [ChunksNext]_chunkVars PROVE ChunksTypes' OBVIOUS
  <2>1. CASE ChunksNext BY <2>1, TypesStep DEF ChunksNext
  <2>2. CASE UNCHANGED chunkVars BY <2>2 DEF chunkVars, ChunksTypes
  <2> QED BY <2>1, <2>2
<1>3. ChunksTypes => ChunksFit BY TypesFit
<1> QED BY <1>1, <1>2, <1>3, PTL DEF ChunksSpec

-----------------------------------------------------------------------------
(* The chunker: headings and the lines under them                           *)

HeadingNext(line) == lang = "markdown" /\ line.kind = "head" /\ ~Fenced(Len(doc) + 1)

\* What is said of the lines so far stays as the next one comes.
LEMMA LinesStay ==
  ASSUME ChunksTypes, NEW line \in LineKinds, AddLine(line)
  PROVE  /\ Len(doc') = Len(doc) + 1 /\ lang' = lang
         /\ \A i \in 1..Len(doc) : doc'[i] = doc[i]
         /\ doc'[Len(doc) + 1] = line
         /\ DOMAIN doc = 1..Len(doc) /\ DOMAIN doc' = 1..Len(doc) + 1
         /\ Len(doc) \in Nat
<1>1. doc \in Seq(LineKinds) BY DEF ChunksTypes
<1>2. doc' = Append(doc, line) /\ lang' = lang BY DEF AddLine
<1>3. /\ doc' \in Seq(LineKinds) /\ Len(doc') = Len(doc) + 1
      /\ \A i \in 1..Len(doc) : doc'[i] = doc[i]
      /\ doc'[Len(doc) + 1] = line
  BY <1>1, <1>2, AppendProperties
<1> QED BY <1>1, <1>2, <1>3

\* Whether a line is in a fence stays, and a fence line turns it for those after it.
LEMMA FencesStay ==
  ASSUME ChunksTypes, NEW line \in LineKinds, AddLine(line), NEW n \in Nat, n = Len(doc)
  PROVE  /\ \A i \in 1..n + 1 : Fenced(i)' <=> Fenced(i)
         /\ Fenced(n + 2)' <=> (line.kind = "fence" <=> ~Fenced(n + 1))
<1> DEFINE Fences(i) == {j \in 1..i - 1 : doc[j].kind = "fence"}
<1>0. /\ \A i \in 1..n : doc'[i] = doc[i]
      /\ doc'[n + 1] = line
  BY LinesStay
<1>1. ASSUME NEW i \in 1..n + 1 PROVE Fenced(i)' <=> Fenced(i)
  <2>1. Fences(i)' = Fences(i) BY <1>0
  <2> QED BY <2>1 DEF Fenced
<1>2. Fences(n + 1) \in SUBSET (1..n) BY <1>0
<1>3. IsFiniteSet(Fences(n + 1)) /\ Cardinality(Fences(n + 1)) \in Nat
  <2>1. \A k \in Nat : IsFiniteSet(1..k) BY FS_Interval
  <2>2. IsFiniteSet(1..n) BY <1>0, <2>1
  <2>3. IsFiniteSet(Fences(n + 1)) BY <1>2, <2>2, FS_Subset
  <2> QED BY <2>3, FS_CardinalityType
<1>4. {j \in 1..n + 2 - 1 : doc'[j].kind = "fence"} =
        IF line.kind = "fence" THEN Fences(n + 1) \cup {n + 1} ELSE Fences(n + 1)
  BY <1>0
<1>5. n + 1 \notin Fences(n + 1) BY <1>0
<1> DEFINE c == Cardinality(Fences(n + 1))
           d == Cardinality({j \in 1..n + 2 - 1 : doc'[j].kind = "fence"})
<1>6. d = IF line.kind = "fence" THEN c + 1 ELSE c
  <2> HIDE DEF Fences
  <2>1. Cardinality(Fences(n + 1) \cup {n + 1}) = c + 1 BY <1>3, <1>5, FS_AddElement
  <2> QED BY <1>4, <2>1
<1>7. Fenced(n + 1) <=> c % 2 = 1 BY DEF Fenced
<1>8. Fenced(n + 2)' <=> d % 2 = 1 BY DEF Fenced
<1>9. c \in Nat BY <1>3
<1> HIDE DEF c, d
<1>10. (d % 2 = 1) <=> (line.kind = "fence" <=> ~(c % 2 = 1)) BY <1>6, <1>9
<1> QED BY <1>1, <1>7, <1>8, <1>10

\* Sets of lines are finite.
LEMMA FinitePart ==
  ASSUME NEW n \in Nat, NEW S \in SUBSET (1..n)
  PROVE  IsFiniteSet(S) /\ Cardinality(S) \in Nat /\ S \in SUBSET Nat
<1>1. IsFiniteSet(1..n) BY FS_Interval
<1>2. IsFiniteSet(S) BY <1>1, FS_Subset
<1> QED BY <1>2, FS_CardinalityType

\* Every member of a finite set of numbers has a rank of its own, and every rank is had.
RankIn(S, h) == Cardinality({g \in S : g <= h})

\* The rank of a line in a set of lines tells it from the others.
LEMMA RankIs ==
  ASSUME NEW S \in SUBSET Nat, IsFiniteSet(S)
  PROVE  /\ \A h \in S : RankIn(S, h) \in 1..Cardinality(S)
         /\ \A g, h \in S : g < h => RankIn(S, g) < RankIn(S, h)
<1> DEFINE Upto(h) == {g \in S : g <= h}
<1>1. \A h \in S : Upto(h) \in SUBSET S /\ h \in Upto(h) OBVIOUS
<1>2. ASSUME NEW h \in S
      PROVE  IsFiniteSet(Upto(h)) /\ Cardinality(Upto(h)) \in Nat /\ Cardinality(Upto(h)) # 0
             /\ Cardinality(Upto(h)) <= Cardinality(S)
  <2>1. IsFiniteSet(Upto(h)) /\ Cardinality(Upto(h)) <= Cardinality(S) BY <1>1, FS_Subset
  <2>2. Upto(h) # {} BY <1>1
  <2> HIDE DEF Upto
  <2> QED BY <2>1, <2>2, FS_CardinalityType, FS_EmptySet
<1>3. ASSUME NEW g \in S, NEW h \in S, g < h PROVE Cardinality(Upto(g)) < Cardinality(Upto(h))
  <2>0. g \in Nat /\ h \in Nat /\ \A x \in S : x \in Nat OBVIOUS
  <2>1. Upto(g) \in SUBSET Upto(h) /\ h \notin Upto(g)
    <3>1. ~(h <= g) /\ \A x \in Nat : x <= g => x <= h BY <1>3, <2>0
    <3> QED BY <2>0, <3>1
  <2>2. IsFiniteSet(Upto(h)) /\ IsFiniteSet(Upto(g)) BY <1>2
  <2>3. h \in Upto(h) BY <1>1
  <2> HIDE DEF Upto
  <2>4. Cardinality(Upto(g)) <= Cardinality(Upto(h)) BY <2>1, <2>2, FS_Subset
  <2>5. Cardinality(Upto(g)) # Cardinality(Upto(h)) BY <2>1, <2>2, <2>3, FS_Subset
  <2>6. Cardinality(Upto(g)) \in Nat /\ Cardinality(Upto(h)) \in Nat BY <1>2
  <2> QED BY <2>4, <2>5, <2>6
<1>4. Cardinality(S) \in Nat BY FS_CardinalityType
<1>5. \A h \in S : RankIn(S, h) = Cardinality(Upto(h)) BY DEF RankIn
<1> HIDE DEF Upto
<1> QED BY <1>2, <1>3, <1>4, <1>5

\* Every rank is taken.
LEMMA RankFound ==
  ASSUME NEW S \in SUBSET Nat, IsFiniteSet(S), NEW m \in 1..Cardinality(S)
  PROVE  \E h \in S : RankIn(S, h) = m
<1> DEFINE c == Cardinality(S)
           rank == [h \in S |-> RankIn(S, h)]
<1>1. c \in Nat BY FS_CardinalityType
<1>2. /\ \A h \in S : RankIn(S, h) \in 1..c
      /\ \A g, h \in S : g < h => RankIn(S, g) < RankIn(S, h)
  BY RankIs
<1>3. rank \in Injection(S, 1..c)
  <2>1. rank \in [S -> 1..c] BY <1>2
  <2>2. ASSUME NEW g \in S, NEW h \in S, rank[g] = rank[h] PROVE g = h
    <3>1. RankIn(S, g) = RankIn(S, h) /\ RankIn(S, g) \in Nat BY <1>1, <1>2, <2>2
    <3>2. ~(g < h) /\ ~(h < g) BY <1>2, <3>1
    <3> QED BY <3>2
  <2> QED BY <2>1, <2>2 DEF Injection, IsInjective
<1>4. IsFiniteSet(1..c) /\ Cardinality(1..c) = c
  <2>1. \A n \in Nat : IsFiniteSet(1..n) /\ Cardinality(1..n) = IF 1 > n THEN 0 ELSE n - 1 + 1 BY FS_Interval
  <2>2. \A n \in Nat : (IF 1 > n THEN 0 ELSE n - 1 + 1) = n OBVIOUS
  <2> QED BY <1>1, <2>1, <2>2
<1> HIDE DEF rank
<1>5. rank \in Surjection(S, 1..c) BY <1>3, <1>4, FS_Injection
<1>6. \E h \in S : rank[h] = m BY <1>5 DEF Surjection
<1> QED BY <1>6 DEF rank

\* The headings stay, and a heading is one more.
LEMMA HeadingsStay ==
  ASSUME ChunksTypes, NEW line \in LineKinds, AddLine(line), NEW n \in Nat, n = Len(doc)
  PROVE  /\ Headings \in SUBSET (1..n)
         /\ HeadingNext(line) => Headings' = Headings \cup {n + 1}
         /\ ~HeadingNext(line) => Headings' = Headings
<1>1. /\ lang' = lang /\ \A i \in 1..n : doc'[i] = doc[i]
      /\ doc'[n + 1] = line
      /\ DOMAIN doc = 1..n /\ DOMAIN doc' = 1..n + 1
  BY LinesStay
<1>2. \A i \in 1..n + 1 : Fenced(i)' <=> Fenced(i) BY FencesStay
<1>3. HeadingNext(line) <=> lang = "markdown" /\ line.kind = "head" /\ ~Fenced(n + 1) BY DEF HeadingNext
<1>4. ASSUME NEW i PROVE i \in Headings' <=> i \in Headings \/ (i = n + 1 /\ HeadingNext(line))
  <2>1. i \in Headings' <=> i \in 1..n + 1 /\ lang = "markdown" /\ doc'[i].kind = "head" /\ ~Fenced(i)'
    BY <1>1 DEF Headings
  <2>2. i \in Headings <=> i \in 1..n /\ lang = "markdown" /\ doc[i].kind = "head" /\ ~Fenced(i)
    BY <1>1 DEF Headings
  <2>3. CASE i \in 1..n
    <3>1. i \in 1..n + 1 /\ i # n + 1 BY <2>3
    <3> QED BY <1>1, <1>2, <2>1, <2>2, <2>3, <3>1
  <2>4. CASE i = n + 1
    <3>1. i \in 1..n + 1 /\ i \notin 1..n BY <2>4
    <3>2. Fenced(i)' <=> Fenced(n + 1) BY <1>2, <2>4, <3>1
    <3> QED BY <1>1, <1>3, <2>1, <2>2, <2>4, <3>1, <3>2
  <2>5. CASE i \notin 1..n + 1
    <3>1. i \notin 1..n /\ i # n + 1 BY <2>5
    <3> QED BY <2>1, <2>2, <2>5, <3>1
  <2> QED BY <2>3, <2>4, <2>5
<1>5. Headings \in SUBSET (1..n) BY <1>1 DEF Headings
<1> HIDE DEF HeadingNext
<1>6. Headings' = Headings \cup {i \in {n + 1} : HeadingNext(line)} BY <1>4
<1> QED BY <1>5, <1>6

\* The headings above a line are known as soon as the line comes.
LEMMA AboveStays ==
  ASSUME ChunksTypes, NEW line \in LineKinds, AddLine(line), NEW n \in Nat, n = Len(doc), NEW i \in 1..n + 1
  PROVE  Above(i)' = Above(i) /\ PathOf(i)' = PathOf(i)
<1>1. \A j \in 1..n : doc'[j] = doc[j] BY LinesStay
<1>2. /\ Headings \in SUBSET (1..n)
      /\ Headings' = Headings \cup {n + 1} \/ Headings' = Headings
  BY HeadingsStay
<1>3. \A j : j < n + 1 => (j \in Headings' <=> j \in Headings) BY <1>2
<1>4. ASSUME NEW h PROVE h \in Above(i)' <=> h \in Above(i)
  <2>1. h \in Above(i)' <=> /\ h \in Headings' /\ h < i
                            /\ \A g \in h + 1..i - 1 : g \in Headings' => doc'[g].level > doc'[h].level
    BY DEF Above
  <2>2. h \in Above(i) <=> /\ h \in Headings /\ h < i
                           /\ \A g \in h + 1..i - 1 : g \in Headings => doc[g].level > doc[h].level
    BY DEF Above
  <2>3. h < i => (h \in Headings' <=> h \in Headings)
    <3>1. CASE h \in Headings' \cup Headings
      <4>1. \A j \in Headings : j \in Int BY <1>2
      <4>2. \A j \in Headings' : j \in Headings \/ j = n + 1 BY <1>2
      <4>3. h \in Int
        <5>1. h \in Headings \/ h = n + 1 BY <3>1, <4>2
        <5> QED BY <4>1, <5>1
      <4> QED BY <1>3, <4>3
    <3> QED BY <3>1
  <2>4. ASSUME h \in Headings, h < i, NEW g \in h + 1..i - 1
        PROVE  (g \in Headings' => doc'[g].level > doc'[h].level) <=> (g \in Headings => doc[g].level > doc[h].level)
    <3>1. g < n + 1 /\ h \in 1..n BY <1>2, <2>4
    <3>2. g \in Headings' <=> g \in Headings BY <1>3, <3>1
    <3>3. CASE g \in Headings
      <4>1. g \in 1..n BY <1>2, <3>3
      <4> QED BY <1>1, <3>1, <3>2, <4>1
    <3> QED BY <3>2, <3>3
  <2> QED BY <2>1, <2>2, <2>3, <2>4
<1>5. Above(i)' = Above(i) BY <1>4
<1>6. PathOf(i)' = PathOf(i)
  <2> DEFINE c == Cardinality(Above(i))
             At(m) == CHOOSE h \in Above(i) : Cardinality({g \in Above(i) : g <= h}) = m
  <2>1. PathOf(i) = [m \in 1..c |-> doc[At(m)].title] BY DEF PathOf
  <2>2. PathOf(i)' = [m \in 1..c |-> doc'[At(m)].title] BY <1>5 DEF PathOf
  <2>3. ASSUME NEW m \in 1..c PROVE doc'[At(m)] = doc[At(m)]
    <3>1. \A h \in Above(i) : h \in 1..n BY <1>2 DEF Above
    <3>2. IsFiniteSet(Above(i)) /\ Above(i) \in SUBSET Nat
      <4>1. Above(i) \in SUBSET (1..n) BY <3>1
      <4> QED BY <4>1, FinitePart
    <3>3. \E h \in Above(i) : RankIn(Above(i), h) = m BY <3>2, RankFound
    <3>4. \E h \in Above(i) : Cardinality({g \in Above(i) : g <= h}) = m BY <3>3 DEF RankIn
    <3>5. At(m) \in Above(i) BY <3>4
    <3> HIDE DEF At
    <3> QED BY <1>1, <3>1, <3>5
  <2> QED BY <2>1, <2>2, <2>3
<1> QED BY <1>5, <1>6

\* The headings above the line after the next: a heading closes those of its rank and below.
LEMMA AboveNext ==
  ASSUME ChunksTypes, NEW line \in LineKinds, AddLine(line), NEW n \in Nat, n = Len(doc)
  PROVE  /\ HeadingNext(line) =>
              \A h : h \in Above(n + 2)' <=> h = n + 1 \/ (h \in Above(n + 1) /\ line.level > doc[h].level)
         /\ ~HeadingNext(line) => Above(n + 2)' = Above(n + 1)
<1>1. (\A j \in 1..n : doc'[j] = doc[j]) /\ doc'[n + 1] = line BY LinesStay
<1>2. /\ Headings \in SUBSET (1..n)
      /\ HeadingNext(line) => Headings' = Headings \cup {n + 1}
      /\ ~HeadingNext(line) => Headings' = Headings
  BY HeadingsStay
<1>3. ASSUME NEW h
      PROVE  /\ h \in Above(n + 2)' <=>
                  /\ h \in Headings' /\ h < n + 2
                  /\ \A g \in h + 1..n + 2 - 1 : g \in Headings' => doc'[g].level > doc'[h].level
             /\ h \in Above(n + 1) <=>
                  /\ h \in Headings /\ h < n + 1
                  /\ \A g \in h + 1..n + 1 - 1 : g \in Headings => doc[g].level > doc[h].level
  BY DEF Above
<1>4. ASSUME NEW h \in Headings, NEW g \in h + 1..n + 1
      PROVE  /\ g # n + 1 => ((g \in Headings' => doc'[g].level > doc'[h].level)
                              <=> (g \in Headings => doc[g].level > doc[h].level))
             /\ g = n + 1 => (g \in Headings' => doc'[g].level > doc'[h].level)
                              <=> (HeadingNext(line) => line.level > doc[h].level)
  <2>1. h \in 1..n /\ doc'[h] = doc[h] BY <1>1, <1>2
  <2>2. CASE g = n + 1
    <3>1. g \in Headings' <=> HeadingNext(line)
      <4>1. n + 1 \notin Headings BY <1>2
      <4> QED BY <1>2, <2>2, <4>1
    <3> QED BY <1>1, <2>1, <2>2, <3>1
  <2>3. CASE g # n + 1
    <3>1. g \in 1..n /\ doc'[g] = doc[g] BY <1>1, <2>1, <2>3
    <3>2. g \in Headings' <=> g \in Headings BY <1>2, <2>3
    <3> QED BY <2>1, <2>3, <3>1, <3>2
  <2> QED BY <2>2, <2>3
<1>5. ASSUME NEW h \in Headings
      PROVE  h \in Above(n + 2)' <=> h \in Above(n + 1) /\ (HeadingNext(line) => line.level > doc[h].level)
  <2>1. h \in 1..n /\ h \in Headings' BY <1>2
  <2>2. h < n + 2 /\ h < n + 1 /\ n + 2 - 1 = n + 1 /\ n + 1 - 1 = n BY <2>1
  <2>3. n + 1 \in h + 1..n + 1 /\ \A g \in h + 1..n + 1 : g = n + 1 \/ g \in h + 1..n BY <2>1
  <2>4. \A g \in h + 1..n : g \in h + 1..n + 1 /\ g # n + 1 BY <2>1
  <2> QED BY <1>3, <1>4, <2>1, <2>2, <2>3, <2>4
<1>6. ASSUME NEW h, h \notin Headings, h # n + 1 PROVE h \notin Above(n + 2)' /\ h \notin Above(n + 1)
  BY <1>2, <1>3, <1>6
<1>7. n + 1 \in Above(n + 2)' <=> HeadingNext(line)
  <2>1. n + 1 \in Headings' <=> HeadingNext(line)
    <3>1. n + 1 \notin Headings BY <1>2
    <3> QED BY <1>2, <3>1
  <2>2. n + 1 < n + 2 /\ (n + 1) + 1..n + 2 - 1 = {} OBVIOUS
  <2> QED BY <1>3, <2>1, <2>2
<1>8. n + 1 \notin Above(n + 1)
  <2>1. n + 1 \notin Headings BY <1>2
  <2> QED BY <1>3, <2>1
<1>9. ASSUME NEW h
      PROVE  /\ HeadingNext(line) =>
                  (h \in Above(n + 2)' <=> h = n + 1 \/ (h \in Above(n + 1) /\ line.level > doc[h].level))
             /\ ~HeadingNext(line) => (h \in Above(n + 2)' <=> h \in Above(n + 1))
  <2>1. CASE h \in Headings
    <3>1. h # n + 1 BY <1>2, <2>1
    <3> QED BY <1>5, <2>1, <3>1
  <2>2. CASE h = n + 1 BY <1>7, <1>8, <2>2
  <2>3. CASE h \notin Headings /\ h # n + 1 BY <1>6, <2>3
  <2> QED BY <2>1, <2>2, <2>3
<1>10. ~HeadingNext(line) => Above(n + 2)' = Above(n + 1) BY <1>9
<1> QED BY <1>9, <1>10

\* The path of a line from an ascending list of the headings it stands under.
Ascends(e, S) == /\ e \in Seq(Nat) /\ (\A a, b \in 1..Len(e) : a < b => e[a] < e[b])
                 /\ \A h : h \in S <=> \E a \in 1..Len(e) : h = e[a]

\* A path is the titles of the headings above, in their order.
LEMMA PathListed ==
  ASSUME NEW i, NEW e, Ascends(e, Above(i))
  PROVE  PathOf(i) = [m \in 1..Len(e) |-> doc[e[m]].title]
<1> DEFINE S == Above(i)
           At(m) == CHOOSE h \in S : Cardinality({g \in S : g <= h}) = m
<1>0. e \in Seq(Nat) /\ Len(e) \in Nat /\ \A a \in 1..Len(e) : e[a] \in Nat BY DEF Ascends
<1>1. \A a, b \in 1..Len(e) : (a < b <=> e[a] < e[b]) /\ (a = b <=> e[a] = e[b])
  <2> SUFFICES ASSUME NEW a \in 1..Len(e), NEW b \in 1..Len(e)
               PROVE (a < b <=> e[a] < e[b]) /\ (a = b <=> e[a] = e[b])
    OBVIOUS
  <2>1. (a < b => e[a] < e[b]) /\ (b < a => e[b] < e[a]) BY DEF Ascends
  <2>2. e[a] \in Nat /\ e[b] \in Nat /\ a \in Int /\ b \in Int BY <1>0
  <2> QED BY <2>1, <2>2
<1>2. ASSUME NEW m \in 0..Len(e), NEW T, \A h : h \in T <=> \E a \in 1..m : h = e[a]
      PROVE  Cardinality(T) = m /\ IsFiniteSet(T)
  <2> DEFINE f == [a \in 1..m |-> e[a]]
  <2>1. f \in Bijection(1..m, T)
    <3>1. f \in [1..m -> T] BY <1>2
    <3>2. \A a, b \in 1..m : f[a] = f[b] => a = b BY <1>0, <1>1
    <3>3. \A t \in T : \E a \in 1..m : f[a] = t BY <1>2
    <3> QED BY <3>1, <3>2, <3>3 DEF Bijection, Injection, Surjection, IsInjective
  <2>2. IsFiniteSet(1..m) /\ Cardinality(1..m) = m
    <3>1. \A k \in Nat : IsFiniteSet(1..k) /\ Cardinality(1..k) = IF 1 > k THEN 0 ELSE k - 1 + 1 BY FS_Interval
    <3>2. \A k \in Nat : (IF 1 > k THEN 0 ELSE k - 1 + 1) = k OBVIOUS
    <3>3. m \in Nat BY <1>0
    <3> QED BY <3>1, <3>2, <3>3
  <2>3. ExistsBijection(1..m, T) BY <2>1 DEF ExistsBijection
  <2> QED BY <2>2, <2>3, FS_Bijection
<1>3. Cardinality(S) = Len(e)
  <2>1. Len(e) \in 0..Len(e) BY <1>0
  <2> QED BY <1>2, <2>1 DEF Ascends
<1>4. ASSUME NEW m \in 1..Len(e) PROVE Cardinality({g \in S : g <= e[m]}) = m
  <2> DEFINE T == {g \in S : g <= e[m]}
  <2>1. ASSUME NEW h PROVE h \in T <=> \E a \in 1..m : h = e[a]
    <3>1. ASSUME h \in T PROVE \E a \in 1..m : h = e[a]
      <4>1. PICK a \in 1..Len(e) : h = e[a] BY <3>1 DEF Ascends
      <4>2. ~(e[m] < e[a]) BY <1>0, <3>1, <4>1
      <4>3. a <= m BY <1>0, <1>1, <4>2
      <4> QED BY <1>0, <4>1, <4>3
    <3>2. ASSUME NEW a \in 1..m, h = e[a] PROVE h \in T
      <4>1. a \in 1..Len(e) BY <1>0
      <4>2. h \in S BY <3>2, <4>1 DEF Ascends
      <4>3. e[a] < e[m] \/ e[a] = e[m] BY <1>0, <1>1, <4>1
      <4> QED BY <1>0, <3>2, <4>1, <4>2, <4>3
    <3> QED BY <3>1, <3>2
  <2>2. m \in 0..Len(e) BY <1>0
  <2> HIDE DEF T
  <2>3. Cardinality(T) = m BY <1>2, <2>1, <2>2
  <2> QED BY <2>3 DEF T
<1>5. ASSUME NEW m \in 1..Len(e) PROVE At(m) = e[m]
  <2>1. e[m] \in S BY DEF Ascends
  <2>2. ASSUME NEW h \in S, Cardinality({g \in S : g <= h}) = m PROVE h = e[m]
    <3>1. PICK a \in 1..Len(e) : h = e[a] BY <2>2 DEF Ascends
    <3>2. a = m BY <1>4, <2>2, <3>1
    <3> QED BY <3>1, <3>2
  <2> QED BY <1>4, <2>1, <2>2
<1>6. PathOf(i) = [m \in 1..Cardinality(S) |-> doc[At(m)].title] BY DEF PathOf
<1> HIDE DEF S, At
<1> QED BY <1>3, <1>5, <1>6

\* The stack has the headings that the next line stands under, in their order.
OnStack(e) ==
  /\ Ascends(e, Above(Len(doc) + 1))
  /\ Len(reader.stack) = Len(e)
  /\ \A k \in 1..Len(e) : /\ reader.stack[k].level = doc[e[k]].level
                          /\ reader.stack[k].title = doc[e[k]].title
Outline ==
  /\ \E e : OnStack(e)
  /\ reader.path = PathOn(reader.stack)
  /\ lang = "markdown" => (reader.fence <=> Fenced(Len(doc) + 1))
  /\ lang # "markdown" => reader.path = NoPath

\* The path on the stack is that of the next line.
LEMMA PathIsOnStack ==
  ASSUME ChunksTypes, Outline
  PROVE  reader.path = PathOf(Len(doc) + 1)
<1>1. PICK e : OnStack(e) BY DEF Outline
<1>2. PathOf(Len(doc) + 1) = [m \in 1..Len(e) |-> doc[e[m]].title] BY <1>1, PathListed DEF OnStack
<1>3. DOMAIN reader.stack = 1..Len(e) BY <1>1 DEF OnStack, ChunksTypes, Readers
<1>4. PathOn(reader.stack) = [m \in 1..Len(e) |-> doc[e[m]].title] BY <1>1, <1>3 DEF OnStack, PathOn
<1> QED BY <1>2, <1>4 DEF Outline

\* The next line after the step is the one after the next.
LEMMA NextIs ==
  ASSUME NEW n \in Nat, Len(doc') = n + 1
  PROVE  /\ Above(Len(doc) + 1)' = Above(n + 2)'
         /\ Fenced(Len(doc) + 1)' <=> Fenced(n + 2)'
         /\ PathOf(Len(doc) + 1)' = PathOf(n + 2)'
<1>1. Len(doc') + 1 = n + 2 OBVIOUS
<1>2. Above(Len(doc) + 1)' = Above(n + 2)' BY <1>1 DEF Above
<1>3. Fenced(Len(doc) + 1)' <=> Fenced(n + 2)' BY <1>1 DEF Fenced
<1>4. PathOf(Len(doc) + 1)' = PathOf(n + 2)' BY <1>2 DEF PathOf
<1> QED BY <1>2, <1>3, <1>4

\* Of two headings above a line the later has the greater level.
LEMMA AboveIsBefore ==
  ASSUME NEW n \in Nat, Headings \in SUBSET (1..n), NEW h \in Above(n + 1), NEW g \in Above(n + 1), h < g
  PROVE  h \in 1..n /\ doc[g].level > doc[h].level
<1>1. /\ h \in Headings /\ g \in Headings
      /\ \A f \in h + 1..n + 1 - 1 : f \in Headings => doc[f].level > doc[h].level
  BY DEF Above
<1>2. h \in 1..n /\ g \in 1..n BY <1>1
<1>3. g \in h + 1..n + 1 - 1 BY <1>2
<1> QED BY <1>1, <1>2, <1>3

\* The reader takes for a heading what is one in the document.
LEMMA HeadingIsHeadLine ==
  ASSUME ChunksTypes, Outline, NEW line \in LineKinds, AddLine(line)
  PROVE  HeadingNext(line) <=> HeadLine(line)
<1>1. lang = "markdown" => (reader.fence <=> Fenced(Len(doc) + 1)) BY DEF Outline
<1>2. HeadLine(line) => HeadingNext(line) BY <1>1 DEF HeadLine, HeadingNext
<1>3. HeadingNext(line) => ~BodyLine(line) /\ ~PlainLine(line) /\ ~CodeLine(line)
  BY <1>1 DEF HeadingNext, BodyLine, PlainLine, CodeLine
<1> QED BY <1>2, <1>3 DEF AddLine

\* An empty document has an empty stack.
LEMMA OutlineInit ==
  ASSUME ChunksInit
  PROVE  Outline
<1>1. Above(Len(doc) + 1) = {} BY DEF ChunksInit, Above, Headings
<1>2. ~Fenced(Len(doc) + 1)
  <2>1. {j \in 1..Len(doc) + 1 - 1 : doc[j].kind = "fence"} = {} BY DEF ChunksInit
  <2> QED BY <2>1, FS_EmptySet DEF Fenced
<1>3. Ascends(<<>>, {}) BY DEF Ascends
<1>4. OnStack(<<>>)
  <2>1. Ascends(<<>>, Above(Len(doc) + 1)) BY <1>1, <1>3
  <2>2. reader.stack = <<>> BY DEF ChunksInit
  <2> QED BY <2>1, <2>2 DEF OnStack
<1>5. PathOn(reader.stack) = <<>> BY DEF PathOn, ChunksInit
<1> QED BY <1>2, <1>4, <1>5 DEF Outline, ChunksInit, NoPath

\* Every line keeps the stack true to the document.
LEMMA OutlineStep ==
  ASSUME ChunksAssumption, ChunksTypes, Outline, NEW line \in LineKinds, AddLine(line)
  PROVE  Outline'
<1>n. PICK n \in Nat : n = Len(doc) BY LinesStay
<1>0. /\ Len(doc') = n + 1 /\ lang' = lang
      /\ (\A i \in 1..n : doc'[i] = doc[i]) /\ doc'[n + 1] = line
  BY <1>n, LinesStay
<1>1. PICK e : OnStack(e) BY DEF Outline
<1>2. Headings \in SUBSET (1..n) BY <1>n, HeadingsStay
<1>3. /\ e \in Seq(Nat) /\ Len(e) \in Nat
      /\ \A a, b \in 1..Len(e) : a < b => e[a] < e[b]
      /\ \A h : h \in Above(n + 1) <=> \E a \in 1..Len(e) : h = e[a]
      /\ Len(reader.stack) = Len(e)
      /\ \A k \in 1..Len(e) : /\ reader.stack[k].level = doc[e[k]].level
                              /\ reader.stack[k].title = doc[e[k]].title
  BY <1>1, <1>n DEF OnStack, Ascends
<1>4. \A a \in 1..Len(e) : e[a] \in Above(n + 1) /\ e[a] \in Headings /\ e[a] \in 1..n
  <2>1. \A a \in 1..Len(e) : e[a] \in Above(n + 1) BY <1>3
  <2>2. \A h \in Above(n + 1) : h \in Headings BY DEF Above
  <2> QED BY <1>2, <2>1, <2>2
<1>5. /\ Above(Len(doc) + 1)' = Above(n + 2)'
      /\ Fenced(Len(doc) + 1)' <=> Fenced(n + 2)'
  BY <1>0, NextIs
<1>6. Fenced(n + 2)' <=> (line.kind = "fence" <=> ~Fenced(n + 1)) BY <1>n, FencesStay
<1>7. CASE ~HeadingNext(line)
  <2>1. ~HeadLine(line) BY <1>7, HeadingIsHeadLine
  <2>2. reader \in Readers BY DEF ChunksTypes
  <2>3. /\ reader'.stack = reader.stack /\ reader'.path = reader.path
        /\ lang = "markdown" => reader'.fence = (IF line.kind = "fence" THEN ~reader.fence ELSE reader.fence)
    <3>1. CASE BodyLine(line) BY <2>2, <3>1 DEF BodyLine, Readers
    <3>2. CASE PlainLine(line) BY <2>2, <3>2 DEF PlainLine, Readers
    <3>3. CASE CodeLine(line) BY <2>2, <3>3 DEF CodeLine, Readers
    <3> QED BY <2>1, <3>1, <3>2, <3>3 DEF AddLine
  <2>4. Above(n + 2)' = Above(n + 1) BY <1>7, <1>n, AboveNext
  <2>5. OnStack(e)'
    <3>1. Ascends(e, Above(Len(doc) + 1)') BY <1>3, <1>5, <2>4 DEF Ascends
    <3>2. \A k \in 1..Len(e) : doc'[e[k]] = doc[e[k]] BY <1>0, <1>4
    <3>3. \A k \in 1..Len(e) : /\ reader'.stack[k].level = doc'[e[k]].level
                               /\ reader'.stack[k].title = doc'[e[k]].title
      BY <1>3, <2>3, <3>2
    <3>4. Len(reader'.stack) = Len(e) BY <1>3, <2>3
    <3>5. Ascends(e, Above(Len(doc) + 1))' BY <3>1 DEF Ascends
    <3> QED BY <3>3, <3>4, <3>5 DEF OnStack
  <2>6. reader'.path = PathOn(reader'.stack) BY <2>3 DEF Outline
  <2>7. lang' = "markdown" => (reader'.fence <=> Fenced(Len(doc) + 1)')
    <3>1. lang = "markdown" => (reader.fence <=> Fenced(n + 1)) BY <1>n DEF Outline
    <3>2. reader.fence \in BOOLEAN BY <2>2 DEF Readers
    <3> QED BY <1>0, <1>5, <1>6, <2>3, <3>1, <3>2
  <2> QED BY <1>0, <2>3, <2>5, <2>6, <2>7 DEF Outline, PathOn
<1>8. CASE HeadingNext(line)
  <2>1. HeadLine(line) BY <1>8, HeadingIsHeadLine
  <2>2. /\ lang = "markdown" /\ line.kind = "head" /\ ~reader.fence
        /\ reader'.stack = Stacked(line) /\ reader'.path = PathOn(Stacked(line)) /\ reader'.fence = FALSE
    BY <2>1, HeadLineIs
  <2>3. PICK m \in 0..Len(reader.stack) :
          /\ m = 0 \/ reader.stack[m].level < line.level
          /\ \A k \in m + 1..Len(reader.stack) : reader.stack[k].level >= line.level
          /\ Len(Stacked(line)) = m + 1
          /\ \A k \in 1..m : Stacked(line)[k] = reader.stack[k]
          /\ Stacked(line)[m + 1] = [level |-> line.level, title |-> line.title]
    BY <2>2, StackedIs
  <2> DEFINE f == [k \in 1..m + 1 |-> IF k <= m THEN e[k] ELSE n + 1]
  <2>4. m \in Nat /\ m <= Len(e) /\ DOMAIN f = 1..m + 1 BY <1>3, <2>3
  <2>5. f \in Seq(Nat) /\ Len(f) = m + 1
    <3>1. f \in [1..m + 1 -> Nat] BY <1>3, <1>4, <2>4
    <3> HIDE DEF f
    <3>2. f \in Seq(Nat) BY <2>4, <3>1, SeqDef
    <3>3. DOMAIN f = 1..Len(f) /\ Len(f) \in Nat BY <3>2
    <3> QED BY <2>4, <3>2, <3>3
  <2>6. (\A k \in 1..m : f[k] = e[k] /\ k \in 1..Len(e)) /\ f[m + 1] = n + 1 BY <2>4
  <2> HIDE DEF f
  <2>7. \A a, b \in 1..Len(f) : a < b => f[a] < f[b]
    <3> SUFFICES ASSUME NEW a \in 1..Len(f), NEW b \in 1..Len(f), a < b PROVE f[a] < f[b] OBVIOUS
    <3>1. a \in 1..m /\ e[a] \in 1..n BY <1>4, <2>4, <2>5, <2>6
    <3>2. CASE b = m + 1 BY <2>6, <3>1, <3>2
    <3>3. CASE b # m + 1
      <4>1. b \in 1..m BY <2>4, <2>5, <3>3
      <4> QED BY <1>3, <2>6, <3>1, <4>1
    <3> QED BY <3>2, <3>3
  <2>8. ASSUME NEW a \in 1..Len(e) PROVE line.level > doc[e[a]].level <=> a <= m
    <3>0. reader.stack \in Seq(Frames) /\ line.level \in Nat
      BY <2>2 DEF ChunksTypes, Readers, ChunksAssumption
    <3>1. reader.stack[a].level = doc[e[a]].level /\ reader.stack[a].level \in Nat
      <4>1. reader.stack[a] \in Frames BY <1>3, <3>0
      <4> QED BY <1>3, <4>1 DEF Frames
    <3>2. CASE a > m
      <4>1. a \in m + 1..Len(reader.stack) BY <1>3, <2>4, <3>2
      <4>2. reader.stack[a].level >= line.level BY <2>3, <4>1
      <4> QED BY <2>4, <3>0, <3>1, <3>2, <4>2
    <3>3. CASE a <= m
      <4>1. m \in 1..Len(e) /\ m # 0 BY <2>4, <3>3
      <4>2. reader.stack[m].level < line.level BY <2>3, <4>1
      <4>3. reader.stack[m].level = doc[e[m]].level /\ reader.stack[m].level \in Nat
        <5>1. reader.stack[m] \in Frames BY <1>3, <3>0, <4>1
        <5> QED BY <1>3, <4>1, <5>1 DEF Frames
      <4>4. a = m \/ doc[e[m]].level > doc[e[a]].level
        <5>1. ASSUME a # m PROVE doc[e[m]].level > doc[e[a]].level
          <6>1. a < m BY <2>4, <3>3, <5>1
          <6>2. e[a] < e[m] BY <1>3, <4>1, <6>1
          <6>3. e[a] \in Above(n + 1) /\ e[m] \in Above(n + 1) BY <1>4, <4>1
          <6> QED BY <1>2, <6>2, <6>3, AboveIsBefore
        <5> QED BY <5>1
      <4> QED BY <3>0, <3>1, <3>3, <4>2, <4>3, <4>4
    <3> QED BY <2>4, <3>2, <3>3
  <2>9. \A h : h \in Above(n + 2)' <=> \E a \in 1..Len(f) : h = f[a]
    <3>1. \A h : h \in Above(n + 2)' <=> h = n + 1 \/ (h \in Above(n + 1) /\ line.level > doc[h].level)
      BY <1>8, <1>n, AboveNext
    <3>2. ASSUME NEW h \in Above(n + 2)' PROVE \E a \in 1..Len(f) : h = f[a]
      <4>1. CASE h = n + 1
        <5>1. m + 1 \in 1..Len(f) BY <2>4, <2>5
        <5> QED BY <2>6, <4>1, <5>1
      <4>2. CASE h \in Above(n + 1) /\ line.level > doc[h].level
        <5>1. PICK a \in 1..Len(e) : h = e[a] BY <1>3, <4>2
        <5>2. a \in 1..m /\ a \in 1..Len(f) BY <2>4, <2>5, <2>8, <4>2, <5>1
        <5> QED BY <2>6, <5>1, <5>2
      <4> QED BY <3>1, <4>1, <4>2
    <3>3. ASSUME NEW a \in 1..Len(f) PROVE f[a] \in Above(n + 2)'
      <4>1. CASE a = m + 1 BY <2>6, <3>1, <4>1
      <4>2. CASE a # m + 1
        <5>1. a \in 1..m /\ a <= m BY <2>4, <2>5, <4>2
        <5>2. f[a] = e[a] /\ a \in 1..Len(e) BY <2>6, <5>1
        <5> QED BY <1>4, <2>8, <3>1, <5>1, <5>2
      <4> QED BY <4>1, <4>2
    <3> QED BY <3>2, <3>3
  <2>10. Ascends(f, Above(n + 2)') BY <2>5, <2>7, <2>9 DEF Ascends
  <2>11. ASSUME NEW k \in 1..Len(f)
         PROVE  /\ reader'.stack[k].level = doc'[f[k]].level
                /\ reader'.stack[k].title = doc'[f[k]].title
    <3>1. CASE k = m + 1 BY <1>0, <2>2, <2>3, <2>6, <3>1
    <3>2. CASE k # m + 1
      <4>1. k \in 1..m BY <2>4, <2>5, <3>2
      <4>2. f[k] = e[k] /\ k \in 1..Len(e) /\ reader'.stack[k] = reader.stack[k] BY <2>2, <2>3, <2>6, <4>1
      <4>3. doc'[f[k]] = doc[e[k]] BY <1>0, <1>4, <4>2
      <4> QED BY <1>3, <4>2, <4>3
    <3> QED BY <3>1, <3>2
  <2>12. OnStack(f)'
    <3>1. Ascends(f, Above(Len(doc) + 1))' BY <1>5, <2>10 DEF Ascends
    <3>2. Len(reader'.stack) = Len(f) BY <2>2, <2>3, <2>5
    <3> QED BY <2>11, <3>1, <3>2 DEF OnStack
  <2>13. ~Fenced(Len(doc) + 1)' BY <1>5, <1>6, <1>8, <1>n, <2>2 DEF HeadingNext
  <2>14. PathOn(reader.stack)' = PathOn(Stacked(line)) BY <2>2 DEF PathOn
  <2> QED BY <1>0, <2>2, <2>12, <2>13, <2>14 DEF Outline
<1> QED BY <1>7, <1>8

\* The section that is still open, and what becomes of sections as a line comes.
LastSection == {j \in DOMAIN doc \ Headings : \A h \in Headings : h < j}

\* The lines since the last heading are one section, under the path of the next line.
LEMMA SectionOpen ==
  ASSUME ChunksTypes, NEW j \in LastSection
  PROVE  Section(j) = LastSection /\ PathOf(j) = PathOf(Len(doc) + 1)
<1>1. DOMAIN doc = 1..Len(doc) /\ Len(doc) \in Nat BY DEF ChunksTypes
<1>2. j \in 1..Len(doc) /\ j \notin Headings /\ (\A h \in Headings : h < j) /\ Headings \in SUBSET (1..Len(doc))
  BY <1>1 DEF LastSection, Headings
<1>3. Section(j) = LastSection BY <1>2 DEF Section, LastSection
<1>4. Above(j) = Above(Len(doc) + 1)
  <2>1. ASSUME NEW h \in Headings
        PROVE  h \in Above(j) <=> h \in Above(Len(doc) + 1)
    <3>1. h \in 1..Len(doc) /\ h < j /\ h < Len(doc) + 1 BY <1>1, <1>2
    <3>2. \A g \in Headings : g \in h + 1..j - 1 <=> g \in h + 1..Len(doc) + 1 - 1
      <4> SUFFICES ASSUME NEW g \in Headings PROVE g \in h + 1..j - 1 <=> g \in h + 1..Len(doc) + 1 - 1 OBVIOUS
      <4>1. g \in 1..Len(doc) /\ g < j BY <1>2
      <4> QED BY <1>1, <1>2, <3>1, <4>1
    <3> QED BY <3>1, <3>2 DEF Above
  <2>2. \A h : h \notin Headings => h \notin Above(j) /\ h \notin Above(Len(doc) + 1) BY DEF Above
  <2> QED BY <2>1, <2>2
<1>5. PathOf(j) = PathOf(Len(doc) + 1) BY <1>4 DEF PathOf
<1> QED BY <1>3, <1>5

\* A line keeps its characters.
LEMMA CellsStay ==
  ASSUME ChunksTypes, NEW line \in LineKinds, AddLine(line), NEW n \in Nat, n = Len(doc)
  PROVE  /\ \A j \in 1..n : Cells(j)' = Cells(j)
         /\ Cells(n + 1)' = CellsOf(line, n + 1)
<1>1. (\A j \in 1..n : doc'[j] = doc[j]) /\ doc'[n + 1] = line BY LinesStay
<1>2. \A j : Cells(j)' = CellsOf(doc'[j], j) BY DEF Cells
<1> QED BY <1>1, <1>2 DEF Cells

\* A heading closes the section; any other line is added to it; those closed stay.
LEMMA SectionsStay ==
  ASSUME ChunksTypes, NEW line \in LineKinds, AddLine(line), NEW n \in Nat, n = Len(doc)
  PROVE  /\ HeadingNext(line) => LastSection' = {}
         /\ ~HeadingNext(line) => LastSection' = LastSection \cup {n + 1}
         /\ \A j \in DOMAIN doc \ Headings :
              HeadingNext(line) \/ j \notin LastSection => Section(j)' = Section(j) /\ Written(j)' = Written(j)
         /\ DOMAIN doc' \ Headings' =
              IF HeadingNext(line) THEN DOMAIN doc \ Headings ELSE (DOMAIN doc \ Headings) \cup {n + 1}
<1>1. DOMAIN doc = 1..n /\ DOMAIN doc' = 1..n + 1 BY LinesStay
<1>2. /\ Headings \in SUBSET (1..n)
      /\ HeadingNext(line) => Headings' = Headings \cup {n + 1}
      /\ ~HeadingNext(line) => Headings' = Headings
  BY HeadingsStay
<1>3. (\A h \in Headings : h < n + 1) /\ n + 1 \notin Headings /\ n + 1 \notin 1..n BY <1>2
<1>4. DOMAIN doc' \ Headings' =
        IF HeadingNext(line) THEN DOMAIN doc \ Headings ELSE (DOMAIN doc \ Headings) \cup {n + 1}
  BY <1>1, <1>2, <1>3
<1>5. HeadingNext(line) => LastSection' = {}
  <2> SUFFICES ASSUME HeadingNext(line), NEW j \in LastSection' PROVE FALSE OBVIOUS
  <2>1. j \in 1..n + 1 /\ \A h \in Headings' : h < j BY <1>1 DEF LastSection
  <2>2. n + 1 < j BY <1>2, <2>1
  <2> QED BY <2>1, <2>2
<1>6. ~HeadingNext(line) => LastSection' = LastSection \cup {n + 1}
  <2> SUFFICES ASSUME ~HeadingNext(line) PROVE LastSection' = LastSection \cup {n + 1} OBVIOUS
  <2>1. \A j : j \in LastSection' <=> j \in DOMAIN doc' \ Headings' /\ \A h \in Headings' : h < j
    BY DEF LastSection
  <2>2. \A j : j \in LastSection <=> j \in DOMAIN doc \ Headings /\ \A h \in Headings : h < j
    BY DEF LastSection
  <2>3. Headings' = Headings /\ DOMAIN doc' \ Headings' = (DOMAIN doc \ Headings) \cup {n + 1}
    BY <1>2, <1>4
  <2>4. \A j : j \in LastSection' <=> j \in (DOMAIN doc \ Headings) \cup {n + 1} /\ \A h \in Headings : h < j
    BY <2>1, <2>3
  <2>5. \A h \in Headings : h < n + 1 BY <1>3
  <2>6. \A j : j \in LastSection' <=> j \in LastSection \cup {n + 1} BY <2>2, <2>4, <2>5, Zenon
  <2> QED BY <2>6, Zenon
<1>7. ASSUME NEW j \in DOMAIN doc \ Headings, HeadingNext(line) \/ j \notin LastSection
      PROVE  Section(j)' = Section(j) /\ Written(j)' = Written(j)
  <2>1. \A k : k \in Section(j)' <=> k \in DOMAIN doc' \ Headings' /\ \A h \in Headings' : h < j <=> h < k
    BY DEF Section
  <2>2. \A k : k \in Section(j) <=> k \in DOMAIN doc \ Headings /\ \A h \in Headings : h < j <=> h < k
    BY DEF Section
  <2>3. Section(j)' = Section(j)
    <3>1. CASE HeadingNext(line)
      <4>1. \A k \in 1..n : ~(n + 1 < k) OBVIOUS
      <4>2. \A k \in DOMAIN doc \ Headings : k \in 1..n BY <1>1
      <4>3. \A k \in DOMAIN doc \ Headings :
              (\A h \in Headings' : h < j <=> h < k) <=> (\A h \in Headings : h < j <=> h < k)
        BY <1>2, <3>1, <4>1, <4>2
      <4> QED BY <1>4, <2>1, <2>2, <3>1, <4>3
    <3>2. CASE ~HeadingNext(line)
      <4>1. PICK h \in Headings : ~(h < j) BY <1>7, <3>2 DEF LastSection
      <4>2. Headings' = Headings /\ DOMAIN doc' \ Headings' = (DOMAIN doc \ Headings) \cup {n + 1}
        BY <1>2, <1>4, <3>2
      <4>3. ~(\A g \in Headings : g < j <=> g < n + 1) BY <1>3, <4>1
      <4>4. n + 1 \notin DOMAIN doc BY <1>1
      <4>5. \A k : k \in Section(j)' <=> /\ k \in (DOMAIN doc \ Headings) \cup {n + 1}
                                        /\ \A g \in Headings : g < j <=> g < k
        BY <2>1, <4>2
      <4>6. n + 1 \notin Section(j)' /\ n + 1 \notin Section(j) BY <2>2, <4>3, <4>4, <4>5
      <4>7. \A k : k # n + 1 => (k \in Section(j)' <=> k \in Section(j)) BY <2>2, <4>5
      <4>8. \A k : k \in Section(j)' <=> k \in Section(j) BY <4>6, <4>7
      <4> QED BY <4>8, Zenon
    <3> QED BY <3>1, <3>2
  <2>4. \A k \in Section(j) : Cells(k)' = Cells(k)
    <3>1. \A k \in Section(j) : k \in 1..n BY <1>1, <2>2
    <3> QED BY <3>1, CellsStay
  <2>5. Written(j)' = UNION {Range(Cells(k)') : k \in Section(j)'} BY DEF Written, Range
  <2>6. Written(j) = UNION {Range(Cells(k)) : k \in Section(j)} BY DEF Written
  <2>7. \A k \in Section(j) : Range(Cells(k)') = Range(Cells(k)) BY <2>4
  <2> QED BY <2>3, <2>5, <2>6, <2>7
<1> QED BY <1>4, <1>5, <1>6, <1>7

-----------------------------------------------------------------------------
(* The chunker: nothing is lost                                             *)

\* A gap at the end stands behind ink.
EndsInk(b) == b # <<>> /\ b[Len(b)] = Gap => Len(b) > 1 /\ b[Len(b) - 1] # Gap

\* What is joined to a text without three gaps in a row makes none, if behind a gap it has ink.
LEMMA TightJoin ==
  ASSUME NEW a \in Bodies, NEW b \in Bodies, Tight(a), EndsInk(a),
         \A k \in 1..Len(b) : b[k] # Gap,
         b = <<>> => a = <<>> \/ a[Len(a)] # Gap
  PROVE  /\ Tight(Join(a, b)) /\ EndsInk(Join(a, b))
         /\ Join(a, b) # <<>> /\ Join(a, b)[Len(Join(a, b))] = Gap => b = <<>>
<1> DEFINE c == Join(a, b)
<1>1. Len(a) \in Nat /\ Len(b) \in Nat /\ (a # <<>> => Len(a) > 0) /\ (b # <<>> => Len(b) > 0) /\ (b = <<>> => Len(b) = 0)
  BY DEF Bodies
<1>2. CASE a = <<>>
  <2>1. c = b BY <1>2 DEF Join
  <2>2. Tight(b) BY <1>1 DEF Tight
  <2>3. b # <<>> => b[Len(b)] # Gap BY <1>1
  <2> QED BY <2>1, <2>2, <2>3 DEF EndsInk
<1>3. CASE a # <<>>
  <2>1. /\ Len(c) = Len(a) + 1 + Len(b)
        /\ \A k \in 1..Len(a) : c[k] = a[k]
        /\ c[Len(a) + 1] = Gap
        /\ \A k \in 1..Len(b) : c[Len(a) + 1 + k] = b[k]
    BY <1>3, JoinedAt
  <2>2. \A k \in Len(a) + 2..Len(c) : c[k] # Gap
    <3> SUFFICES ASSUME NEW k \in Len(a) + 2..Len(c) PROVE c[k] # Gap OBVIOUS
    <3>1. k - Len(a) - 1 \in 1..Len(b) /\ k = Len(a) + 1 + (k - Len(a) - 1) BY <1>1, <2>1
    <3>2. c[Len(a) + 1 + (k - Len(a) - 1)] = b[k - Len(a) - 1] BY <2>1, <3>1
    <3>3. b[k - Len(a) - 1] # Gap BY <3>1
    <3> HIDE DEF c
    <3> QED BY <3>1, <3>2, <3>3
  <2> HIDE DEF c
  <2>3. Tight(c)
    <3> SUFFICES ASSUME NEW k \in 1..Len(c) - 2, c[k] = Gap, c[k + 1] = Gap, c[k + 2] = Gap PROVE FALSE
      BY DEF Tight
    <3>1. k + 2 \in 1..Len(c) /\ k + 2 <= Len(a) + 1 BY <1>1, <2>1, <2>2
    <3>2. c[k] = a[k] /\ c[k + 1] = a[k + 1] /\ k \in 1..Len(a) /\ k + 1 \in 1..Len(a) BY <1>1, <2>1, <3>1
    <3>3. CASE k + 2 <= Len(a)
      <4>1. c[k + 2] = a[k + 2] /\ k \in 1..Len(a) - 2 BY <1>1, <2>1, <3>1, <3>3
      <4> QED BY <3>2, <4>1 DEF Tight
    <3>4. CASE k + 2 = Len(a) + 1
      <4>1. k + 1 = Len(a) /\ k = Len(a) - 1 BY <1>1, <3>4
      <4> QED BY <1>3, <3>2, <4>1 DEF EndsInk
    <3> QED BY <1>1, <3>1, <3>3, <3>4
  <2>4. b # <<>> => c[Len(c)] # Gap BY <1>1, <2>1, <2>2
  <2>5. b = <<>> => Len(c) > 1 /\ c[Len(c) - 1] # Gap
    <3> SUFFICES ASSUME b = <<>> PROVE Len(c) > 1 /\ c[Len(c) - 1] # Gap OBVIOUS
    <3>1. Len(c) = Len(a) + 1 /\ Len(a) \in 1..Len(a) /\ Len(c) - 1 = Len(a) BY <1>1, <1>3, <2>1
    <3>2. a[Len(a)] # Gap BY <1>3
    <3>3. c[Len(a)] = a[Len(a)] BY <2>1, <3>1
    <3> QED BY <3>1, <3>2, <3>3
  <2> QED BY <2>3, <2>4, <2>5 DEF EndsInk, c
<1> QED BY <1>2, <1>3

\* A piece is enough for line j: what it has will be in a chunk, or the section of j is
\* all in it, and as small as it.
Enough(j, q) == lang # "markdown" \/ Len(Trim(q.body)) >= MinBody \/ Written(j) \subseteq Ink(q.body)
Placed(j, x, pieces) == \E q \in pieces : x \in Ink(q.body) /\ Enough(j, q)
Pending(j, x) == IF lang = "markdown" THEN j \in LastSection ELSE x \in Ink(reader.body)

\* Every character that is out, or still to be packed, is of a line under its path.
PiecesAreTrue == \A q \in PiecesOut(packer) : \A x \in Ink(q.body) : x.line \in DOMAIN doc /\ PathOf(x.line) = q.path
BodyIsTrue == \A x \in Ink(reader.body) : x.line \in DOMAIN doc /\ PathOf(x.line) = reader.path
\* The open section is in the body, and every other character there or in a piece.
SectionIsRead == lang = "markdown" => \A j \in LastSection : Range(Cells(j)) \subseteq Ink(reader.body)
AllPlaced == \A j \in DOMAIN doc \ Headings : \A x \in Range(Cells(j)) :
               Pending(j, x) \/ Placed(j, x, PiecesOut(packer))
\* Three gaps in a row would let a window be cut that is all of them.
BodyIsTight == /\ Tight(reader.body) /\ EndsInk(reader.body)
               /\ reader.body # <<>> /\ reader.body[Len(reader.body)] = Gap => doc # <<>> /\ Last(doc).kind = "blank"
CodeIsOut == lang = "code" => packer.cur.body = <<>>
Kept == PiecesAreTrue /\ BodyIsTrue /\ SectionIsRead /\ AllPlaced /\ BodyIsTight /\ CodeIsOut

\* A piece that takes over one that was enough is enough.
LEMMA EnoughTaken ==
  ASSUME ChunksAssumption, NEW o \in Heaps, NEW q \in Heaps, TakenOver(o, q), NEW j, Enough(j, o)
  PROVE  Enough(j, q)
<1>1. Len(Trim(o.body)) \in Nat /\ Len(Trim(q.body)) \in Nat BY TrimLen DEF Heaps
<1>2. Len(Trim(q.body)) >= Len(Trim(o.body)) /\ Ink(o.body) \subseteq Ink(q.body) BY DEF TakenOver
<1>3. MinBody \in Nat BY SizesAre
<1>4. Len(Trim(o.body)) >= MinBody => Len(Trim(q.body)) >= MinBody BY <1>1, <1>2, <1>3
<1>5. Written(j) \subseteq Ink(o.body) => Written(j) \subseteq Ink(q.body) BY <1>2
<1> QED BY <1>4, <1>5 DEF Enough

\* Were the block closed now, all would be in the pieces, each under its path.
LEMMA PackedCovers ==
  ASSUME ChunksAssumption, ChunksTypes, Kept
  PROVE  /\ \A q \in PiecesOut(Packed) : \A x \in Ink(q.body) : x.line \in DOMAIN doc /\ PathOf(x.line) = q.path
         /\ \A j \in DOMAIN doc \ Headings : \A x \in Range(Cells(j)) : Placed(j, x, PiecesOut(Packed))
<1> DEFINE block == Block(reader.path, reader.body)
<1>1. block \in Heaps /\ block.path = reader.path /\ block.body = reader.body
  BY DEF ChunksTypes, Readers, Heaps, Block
<1>2. packer \in Packers /\ Packed \in Packers BY PackedIs DEF ChunksTypes
<1>3. /\ \A q \in PiecesOut(packer) : \A x \in Ink(q.body) : x.line \in DOMAIN doc /\ PathOf(x.line) = q.path
      /\ \A x \in Ink(reader.body) : x.line \in DOMAIN doc /\ PathOf(x.line) = reader.path
  BY DEF Kept, PiecesAreTrue, BodyIsTrue
<1>4. \A j \in DOMAIN doc \ Headings : \A x \in Range(Cells(j)) : Pending(j, x) \/ Placed(j, x, PiecesOut(packer))
  BY DEF Kept, AllPlaced
<1>5. ASSUME NEW j, NEW x \in Range(Cells(j)), Pending(j, x)
      PROVE  /\ x \in Ink(reader.body)
             /\ lang = "markdown" => Written(j) \subseteq Ink(reader.body)
  <2>1. CASE lang # "markdown" BY <1>5, <2>1 DEF Pending
  <2>2. CASE lang = "markdown"
    <3>1. j \in LastSection BY <1>5, <2>2 DEF Pending
    <3>2. \A k \in LastSection : Range(Cells(k)) \subseteq Ink(reader.body) BY <2>2 DEF Kept, SectionIsRead
    <3>3. Section(j) = LastSection BY <3>1, SectionOpen
    <3>4. Written(j) = UNION {Range(Cells(k)) : k \in LastSection} BY <3>3 DEF Written
    <3> QED BY <1>5, <3>1, <3>2, <3>4
  <2> QED BY <2>1, <2>2
<1>6. CASE Ink(reader.body) = {}
  <2>1. Packed = packer BY <1>6 DEF Packed
  <2> QED BY <1>3, <1>4, <1>5, <1>6, <2>1
<1>7. CASE Ink(reader.body) # {}
  <2>1. Packed = PackBlock(packer, block) BY <1>7 DEF Packed
  <2>2. Tight(block.body) BY <1>1 DEF Kept, BodyIsTight
  <2> HIDE DEF block
  <2>3. /\ \A q \in PiecesOut(Packed) : \A x \in Ink(q.body) :
             \/ \E o \in PiecesOut(packer) : o.path = q.path /\ x \in Ink(o.body)
             \/ q.path = block.path /\ x \in Ink(block.body)
        /\ \A o \in PiecesOut(packer) : \E q \in PiecesOut(Packed) : TakenOver(o, q)
        /\ \A x \in Ink(block.body) : \E q \in PiecesOut(Packed) :
             /\ q.path = block.path /\ x \in Ink(q.body)
             /\ Ink(block.body) \subseteq Ink(q.body) \/ Len(Trim(q.body)) >= MinBody
    BY <1>1, <1>2, <2>1, <2>2, PackKeeps
  <2>4. ASSUME NEW q \in PiecesOut(Packed), NEW x \in Ink(q.body)
        PROVE  x.line \in DOMAIN doc /\ PathOf(x.line) = q.path
    <3>1. CASE \E o \in PiecesOut(packer) : o.path = q.path /\ x \in Ink(o.body) BY <1>3, <3>1
    <3>2. CASE q.path = block.path /\ x \in Ink(block.body) BY <1>1, <1>3, <3>2
    <3> QED BY <2>3, <3>1, <3>2
  <2>5. ASSUME NEW j \in DOMAIN doc \ Headings, NEW x \in Range(Cells(j))
        PROVE  Placed(j, x, PiecesOut(Packed))
    <3>1. CASE Pending(j, x)
      <4>1. x \in Ink(block.body) /\ (lang = "markdown" => Written(j) \subseteq Ink(block.body))
        BY <1>1, <1>5, <3>1
      <4>2. PICK q \in PiecesOut(Packed) :
              /\ x \in Ink(q.body)
              /\ Ink(block.body) \subseteq Ink(q.body) \/ Len(Trim(q.body)) >= MinBody
        BY <2>3, <4>1
      <4>3. Enough(j, q) BY <4>1, <4>2 DEF Enough
      <4> QED BY <4>2, <4>3 DEF Placed
    <3>2. CASE Placed(j, x, PiecesOut(packer))
      <4>1. PICK o \in PiecesOut(packer) : x \in Ink(o.body) /\ Enough(j, o) BY <3>2 DEF Placed
      <4>2. PICK q \in PiecesOut(Packed) : TakenOver(o, q) BY <2>3
      <4>3. o \in Heaps /\ q \in Heaps BY <1>2, PiecesOutAreHeaps
      <4>4. Enough(j, q) BY <4>1, <4>2, <4>3, EnoughTaken
      <4>5. x \in Ink(q.body) BY <4>1, <4>2 DEF TakenOver
      <4> QED BY <4>4, <4>5 DEF Placed
    <3> QED BY <1>4, <3>1, <3>2
  <2> QED BY <2>4, <2>5
<1> QED BY <1>6, <1>7

\* A line stays under its path.
LEMMA PathsStay ==
  ASSUME ChunksTypes, NEW line \in LineKinds, AddLine(line), NEW i \in DOMAIN doc
  PROVE  i \in DOMAIN doc' /\ PathOf(i)' = PathOf(i)
<1>1. PICK n \in Nat : n = Len(doc) BY LinesStay
<1>2. DOMAIN doc = 1..n /\ DOMAIN doc' = 1..n + 1 BY <1>1, LinesStay
<1>3. i \in 1..n + 1 BY <1>2
<1> QED BY <1>1, <1>2, <1>3, AboveStays

\* The body with the next line is under the path that the reader has.
LEMMA LongerIsTrue ==
  ASSUME ChunksAssumption, ChunksTypes, Outline, BodyIsTrue, NEW line \in LineKinds, AddLine(line)
  PROVE  \A x \in Ink(Longer(line)) : x.line \in DOMAIN doc' /\ PathOf(x.line)' = reader.path
<1>1. PICK n \in Nat : n = Len(doc) BY LinesStay
<1>2. n + 1 \in DOMAIN doc' /\ n + 1 \in 1..n + 1 BY <1>1, LinesStay
<1>3. PathOf(n + 1)' = PathOf(n + 1) BY <1>1, <1>2, AboveStays
<1>4. PathOf(n + 1) = reader.path BY <1>1, PathIsOnStack
<1>5. ASSUME NEW x \in Ink(reader.body)
      PROVE  x.line \in DOMAIN doc' /\ PathOf(x.line)' = reader.path
  <2>1. x.line \in DOMAIN doc /\ PathOf(x.line) = reader.path BY DEF BodyIsTrue
  <2> QED BY <2>1, PathsStay
<1>6. ASSUME NEW x \in Range(CellsOf(line, Len(doc) + 1))
      PROVE  x.line \in DOMAIN doc' /\ PathOf(x.line)' = reader.path
  <2>1. n + 1 \in Nat \ {0} OBVIOUS
  <2>2. x.line = n + 1 BY <1>1, <2>1, CellsAreGlyphs
  <2>3. PathOf(x.line)' = PathOf(n + 1)' BY <2>2
  <2> QED BY <1>2, <1>3, <1>4, <2>2, <2>3
<1> QED BY <1>5, <1>6, LongerIs

\* A piece is enough for a line as it was, if its section has not grown.
LEMMA EnoughStays ==
  ASSUME ChunksTypes, NEW line \in LineKinds, AddLine(line), NEW j \in DOMAIN doc \ Headings,
         lang # "markdown" \/ HeadingNext(line) \/ j \notin LastSection,
         NEW q, Enough(j, q)
  PROVE  Enough(j, q)'
<1>1. PICK n \in Nat : n = Len(doc) BY LinesStay
<1>2. lang' = lang BY LinesStay
<1>3. lang = "markdown" => Written(j)' = Written(j) BY <1>1, SectionsStay
<1> QED BY <1>2, <1>3 DEF Enough

\* A line that goes into the body keeps the invariant.
LEMMA GrowStep ==
  ASSUME ChunksAssumption, ChunksTypes, Outline, Kept, NEW line \in LineKinds, AddLine(line),
         ~HeadingNext(line), reader'.body = Longer(line), reader'.path = reader.path, packer' = packer
  PROVE  Kept'
<1>1. PICK n \in Nat : n = Len(doc) BY LinesStay
<1>2. lang' = lang /\ DOMAIN doc = 1..n /\ DOMAIN doc' = 1..n + 1 BY <1>1, LinesStay
<1>3. /\ LastSection' = LastSection \cup {n + 1}
      /\ DOMAIN doc' \ Headings' = (DOMAIN doc \ Headings) \cup {n + 1}
  BY <1>1, SectionsStay
<1>4. (\A j \in 1..n : Cells(j)' = Cells(j)) /\ Cells(n + 1)' = CellsOf(line, n + 1) BY <1>1, CellsStay
<1>5. Ink(Longer(line)) = Ink(reader.body) \cup Range(CellsOf(line, n + 1)) BY <1>1, LongerIs
<1>6. PiecesAreTrue'
  <2> SUFFICES ASSUME NEW q \in PiecesOut(packer), NEW x \in Ink(q.body)
               PROVE  x.line \in DOMAIN doc' /\ PathOf(x.line)' = q.path
    BY DEF PiecesAreTrue, PiecesOut, Ink, Range
  <2>1. x.line \in DOMAIN doc /\ PathOf(x.line) = q.path BY DEF Kept, PiecesAreTrue
  <2> QED BY <2>1, PathsStay
<1>7. BodyIsTrue'
  <2>1. \A x \in Ink(Longer(line)) : x.line \in DOMAIN doc' /\ PathOf(x.line)' = reader.path
    BY LongerIsTrue DEF Kept
  <2> QED BY <2>1 DEF BodyIsTrue
<1>8. SectionIsRead'
  <2> SUFFICES ASSUME lang = "markdown", NEW j \in LastSection' PROVE Range(Cells(j)') \subseteq Ink(Longer(line))
    BY <1>2 DEF SectionIsRead, Range
  <2>1. CASE j = n + 1 BY <1>4, <1>5, <2>1
  <2>2. CASE j \in LastSection
    <3>1. Range(Cells(j)) \subseteq Ink(reader.body) BY <2>2 DEF Kept, SectionIsRead
    <3>2. j \in 1..n BY <1>2, <2>2 DEF LastSection
    <3> QED BY <1>4, <1>5, <3>1, <3>2
  <2> QED BY <1>3, <2>1, <2>2
<1>9. AllPlaced'
  <2> SUFFICES ASSUME NEW j \in DOMAIN doc' \ Headings', NEW x \in Range(Cells(j)')
               PROVE  Pending(j, x)' \/ Placed(j, x, PiecesOut(packer))'
    BY DEF AllPlaced, Range
  <2>1. Pending(j, x)' <=> IF lang = "markdown" THEN j \in LastSection' ELSE x \in Ink(Longer(line))
    BY <1>2 DEF Pending
  <2>2. CASE j = n + 1 BY <1>3, <1>4, <1>5, <2>1, <2>2
  <2>3. CASE j \in DOMAIN doc \ Headings
    <3>1. j \in 1..n BY <1>2, <2>3
    <3>2. x \in Range(Cells(j)) BY <1>4, <3>1
    <3>3. CASE Pending(j, x)
      <4>1. IF lang = "markdown" THEN j \in LastSection ELSE x \in Ink(reader.body) BY <3>3 DEF Pending
      <4> QED BY <1>3, <1>5, <2>1, <4>1
    <3>4. CASE Placed(j, x, PiecesOut(packer)) /\ ~Pending(j, x)
      <4>1. PICK q \in PiecesOut(packer) : x \in Ink(q.body) /\ Enough(j, q) BY <3>4 DEF Placed
      <4>2. lang # "markdown" \/ j \notin LastSection BY <3>4 DEF Pending
      <4>3. Enough(j, q)' BY <2>3, <4>1, <4>2, EnoughStays
      <4>4. PiecesOut(packer)' = PiecesOut(packer) BY DEF PiecesOut, Range
      <4>5. \E p \in PiecesOut(packer)' : x \in Ink(p.body) /\ Enough(j, p)' BY <4>1, <4>3, <4>4
      <4> QED BY <4>5 DEF Placed, Ink, Range
    <3>5. Pending(j, x) \/ Placed(j, x, PiecesOut(packer)) BY <2>3, <3>2 DEF Kept, AllPlaced
    <3> QED BY <3>3, <3>4, <3>5
  <2> QED BY <1>3, <2>2, <2>3
<1>10. BodyIsTight'
  <2> DEFINE a == reader.body
             b == CellsOf(line, n + 1)
  <2>1. n + 1 \in Nat \ {0} /\ a \in Bodies BY DEF ChunksTypes, Readers
  <2>2. /\ b \in Bodies /\ \A x \in Range(b) : x # Gap
        /\ line.kind # "blank" => b # <<>>
    BY <2>1, CellsAreGlyphs
  <2>3. \A k \in 1..Len(b) : b[k] # Gap BY <2>2 DEF Range, Bodies
  <2>4. Longer(line) = Join(a, b) BY <1>1 DEF Longer
  <2>5. Tight(a) /\ EndsInk(a) /\ (a # <<>> /\ a[Len(a)] = Gap => doc # <<>> /\ Last(doc).kind = "blank")
    BY DEF Kept, BodyIsTight
  <2>6. line.kind = "blank" => Last(doc).kind # "blank" BY DEF AddLine
  <2>7. doc' # <<>> /\ Last(doc') = line
    <3>1. Len(doc') = n + 1 /\ doc'[n + 1] = line BY <1>1, LinesStay
    <3>2. doc' # <<>> BY <2>1, <3>1
    <3> QED BY <3>1, <3>2 DEF Last
  <2> HIDE DEF a, b
  <2>8. b = <<>> => a = <<>> \/ a[Len(a)] # Gap BY <2>2, <2>5, <2>6
  <2>9. /\ Tight(Join(a, b)) /\ EndsInk(Join(a, b))
        /\ Join(a, b) # <<>> /\ Join(a, b)[Len(Join(a, b))] = Gap => b = <<>>
    BY <2>1, <2>2, <2>3, <2>5, <2>8, TightJoin
  <2>10. Tight(reader'.body) /\ EndsInk(reader'.body)
         /\ (reader'.body # <<>> /\ reader'.body[Len(reader'.body)] = Gap => doc' # <<>> /\ Last(doc').kind = "blank")
    BY <2>2, <2>4, <2>7, <2>9
  <2> QED BY <2>10 DEF BodyIsTight, Tight, EndsInk, Last
<1>11. CodeIsOut' BY <1>2 DEF Kept, CodeIsOut
<1> QED BY <1>6, <1>7, <1>8, <1>9, <1>10, <1>11 DEF Kept

\* An empty body is under any path.
LEMMA NothingOpen ==
  ASSUME reader'.body = <<>>
  PROVE  BodyIsTrue' /\ BodyIsTight'
<1>1. Ink(reader'.body) = {} BY DEF Ink, Range
<1> QED BY <1>1 DEF BodyIsTrue, BodyIsTight, Tight, EndsInk

\* A line that closes the block keeps it: all is in the pieces then.
LEMMA CloseStep ==
  ASSUME ChunksAssumption, ChunksTypes, Kept, NEW line \in LineKinds, AddLine(line),
         HeadingNext(line) \/ (lang # "markdown" /\ line.kind = "blank"), lang # "code",
         reader'.body = <<>>, packer' = Packed
  PROVE  Kept'
<1>1. PICK n \in Nat : n = Len(doc) BY LinesStay
<1>2. lang' = lang /\ DOMAIN doc = 1..n BY <1>1, LinesStay
<1>3. /\ HeadingNext(line) => LastSection' = {}
      /\ DOMAIN doc' \ Headings' =
           IF HeadingNext(line) THEN DOMAIN doc \ Headings ELSE (DOMAIN doc \ Headings) \cup {n + 1}
  BY <1>1, SectionsStay
<1>4. (\A j \in 1..n : Cells(j)' = Cells(j)) /\ Cells(n + 1)' = CellsOf(line, n + 1) BY <1>1, CellsStay
<1>5. /\ \A q \in PiecesOut(Packed) : \A x \in Ink(q.body) : x.line \in DOMAIN doc /\ PathOf(x.line) = q.path
      /\ \A j \in DOMAIN doc \ Headings : \A x \in Range(Cells(j)) : Placed(j, x, PiecesOut(Packed))
  BY PackedCovers
<1>6. PiecesOut(packer)' = PiecesOut(Packed) BY DEF PiecesOut, Range
<1>7. PiecesAreTrue'
  <2> SUFFICES ASSUME NEW q \in PiecesOut(Packed), NEW x \in Ink(q.body)
               PROVE  x.line \in DOMAIN doc' /\ PathOf(x.line)' = q.path
    BY <1>6 DEF PiecesAreTrue, Ink, Range
  <2>1. x.line \in DOMAIN doc /\ PathOf(x.line) = q.path BY <1>5
  <2> QED BY <2>1, PathsStay
<1>8. SectionIsRead' BY <1>2, <1>3 DEF SectionIsRead
<1>9. AllPlaced'
  <2> SUFFICES ASSUME NEW j \in DOMAIN doc' \ Headings', NEW x \in Range(Cells(j)')
               PROVE  Placed(j, x, PiecesOut(packer))'
    BY DEF AllPlaced, Range
  <2>1. CASE j = n + 1 /\ ~HeadingNext(line)
    <3>1. CellsOf(line, n + 1) = <<>> BY <2>1 DEF CellsOf
    <3> QED BY <1>4, <2>1, <3>1 DEF Range
  <2>2. CASE j \in DOMAIN doc \ Headings
    <3>1. x \in Range(Cells(j)) BY <1>2, <1>4, <2>2
    <3>2. PICK q \in PiecesOut(Packed) : x \in Ink(q.body) /\ Enough(j, q) BY <1>5, <2>2, <3>1 DEF Placed
    <3>3. Enough(j, q)' BY <2>2, <3>2, EnoughStays
    <3>4. \E p \in PiecesOut(packer)' : x \in Ink(p.body) /\ Enough(j, p)' BY <1>6, <3>2, <3>3
    <3> QED BY <3>4 DEF Placed, Ink, Range
  <2> QED BY <1>3, <2>1, <2>2
<1>10. CodeIsOut' BY <1>2 DEF CodeIsOut
<1> QED BY <1>7, <1>8, <1>9, <1>10, NothingOpen DEF Kept

\* So does a line of code that closes a span.
LEMMA SpanStep ==
  ASSUME ChunksAssumption, ChunksTypes, Outline, Kept, NEW line \in LineKinds, AddLine(line),
         lang = "code", reader'.body = <<>>, packer' = [packer EXCEPT !.out = @ \o Span(Longer(line))]
  PROVE  Kept'
<1>1. PICK n \in Nat : n = Len(doc) BY LinesStay
<1>2. lang' = lang /\ DOMAIN doc = 1..n BY <1>1, LinesStay
<1>3. DOMAIN doc' \ Headings' = (DOMAIN doc \ Headings) \cup {n + 1} BY <1>1, SectionsStay DEF HeadingNext
<1>4. (\A j \in 1..n : Cells(j)' = Cells(j)) /\ Cells(n + 1)' = CellsOf(line, n + 1) BY <1>1, CellsStay
<1>5. Longer(line) \in Bodies /\ Ink(Longer(line)) = Ink(reader.body) \cup Range(CellsOf(line, n + 1))
  BY <1>1, LongerIs
<1>6. /\ Span(Longer(line)) \in Seq(Heaps)
      /\ \A q \in Range(Span(Longer(line))) : q.path = NoPath /\ Ink(q.body) \subseteq Ink(Longer(line))
      /\ \A x \in Ink(Longer(line)) : \E q \in Range(Span(Longer(line))) : x \in Ink(q.body)
  BY <1>5, SpanKeeps
<1>7. packer \in Packers /\ packer.cur.body = <<>> /\ reader.path = NoPath
  BY DEF ChunksTypes, Kept, CodeIsOut, Outline
<1>8. PiecesOut(packer)' = PiecesOut(packer) \cup Range(Span(Longer(line))) /\ packer'.cur.body = <<>>
  <2>1. packer.out \in Seq(Heaps) BY <1>7 DEF Packers
  <2>2. packer'.out = packer.out \o Span(Longer(line)) /\ packer'.cur = packer.cur BY <1>7 DEF Packers
  <2>3. Range(packer'.out) = Range(packer.out) \cup Range(Span(Longer(line))) BY <1>6, <2>1, <2>2, ConcatRange
  <2>4. PiecesOut(packer)' = Range(packer'.out) \cup {q \in {packer'.cur} : q.body # <<>>}
    BY DEF PiecesOut, Range
  <2>5. {q \in {packer.cur} : q.body # <<>>} = {} BY <1>7
  <2>6. PiecesOut(packer)' = Range(packer.out) \cup Range(Span(Longer(line))) BY <2>2, <2>3, <2>4, <2>5
  <2>7. PiecesOut(packer) = Range(packer.out) BY <2>5 DEF PiecesOut
  <2> QED BY <1>7, <2>2, <2>6, <2>7
<1>9. PiecesAreTrue'
  <2> SUFFICES ASSUME NEW q \in PiecesOut(packer)', NEW x \in Ink(q.body)
               PROVE  x.line \in DOMAIN doc' /\ PathOf(x.line)' = q.path
    BY DEF PiecesAreTrue, Ink, Range
  <2>1. CASE q \in PiecesOut(packer)
    <3>1. x.line \in DOMAIN doc /\ PathOf(x.line) = q.path BY <2>1 DEF Kept, PiecesAreTrue
    <3> QED BY <3>1, PathsStay
  <2>2. CASE q \in Range(Span(Longer(line)))
    <3>1. x \in Ink(Longer(line)) /\ q.path = NoPath BY <1>6, <2>2
    <3>2. x.line \in DOMAIN doc' /\ PathOf(x.line)' = reader.path BY <3>1, LongerIsTrue DEF Kept
    <3> QED BY <1>7, <3>1, <3>2
  <2> QED BY <1>8, <2>1, <2>2
<1>10. SectionIsRead' BY <1>2 DEF SectionIsRead
<1>11. AllPlaced'
  <2> SUFFICES ASSUME NEW j \in DOMAIN doc' \ Headings', NEW x \in Range(Cells(j)')
               PROVE  Placed(j, x, PiecesOut(packer))'
    BY DEF AllPlaced, Range
  <2>1. CASE x \in Ink(Longer(line))
    <3>1. PICK q \in Range(Span(Longer(line))) : x \in Ink(q.body) BY <1>6, <2>1
    <3> QED BY <1>2, <1>8, <3>1 DEF Placed, Enough, Ink, Range
  <2>2. CASE x \notin Ink(Longer(line))
    <3>1. j # n + 1 BY <1>4, <1>5, <2>2
    <3>2. j \in DOMAIN doc \ Headings BY <1>3, <3>1
    <3>3. x \in Range(Cells(j)) BY <1>2, <1>4, <3>2
    <3>4. ~Pending(j, x) BY <1>5, <2>2 DEF Pending
    <3>5. Placed(j, x, PiecesOut(packer)) BY <3>2, <3>3, <3>4 DEF Kept, AllPlaced
    <3>6. PICK q \in PiecesOut(packer) : x \in Ink(q.body) BY <3>5 DEF Placed
    <3> QED BY <1>2, <1>8, <3>6 DEF Placed, Enough, Ink, Range
  <2> QED BY <2>1, <2>2
<1>12. CodeIsOut' BY <1>8 DEF CodeIsOut
<1> QED BY <1>9, <1>10, <1>11, <1>12, NothingOpen DEF Kept

\* An empty document has lost nothing,
LEMMA KeptInit ==
  ASSUME ChunksInit
  PROVE  Kept
<1>1. DOMAIN doc = {} /\ reader.body = <<>> /\ packer.out = <<>> /\ packer.cur.body = <<>>
  BY DEF ChunksInit, Block
<1>2. Ink(reader.body) = {} BY <1>1 DEF Ink, Range
<1>3. PiecesOut(packer) = {} BY <1>1 DEF PiecesOut, Range
<1>4. LastSection = {} BY <1>1 DEF LastSection
<1>5. Tight(reader.body) /\ EndsInk(reader.body) BY <1>1 DEF Tight, EndsInk
<1> QED BY <1>1, <1>2, <1>3, <1>4, <1>5
        DEF Kept, PiecesAreTrue, BodyIsTrue, SectionIsRead, AllPlaced, BodyIsTight, CodeIsOut

\* and no line makes it lose a character.
LEMMA KeptStep ==
  ASSUME ChunksAssumption, ChunksTypes, Outline, Kept, NEW line \in LineKinds, AddLine(line)
  PROVE  Kept'
<1>1. reader \in Readers /\ packer \in Packers BY DEF ChunksTypes
<1>2. CASE HeadLine(line)
  <2>1. HeadingNext(line) BY <1>2, HeadingIsHeadLine
  <2>2. lang = "markdown" /\ packer' = Packed /\ reader'.body = <<>> BY <1>2, HeadLineIs
  <2> QED BY <2>1, <2>2, CloseStep
<1>3. CASE ~HeadLine(line)
  <2>1. ~HeadingNext(line) BY <1>3, HeadingIsHeadLine
  <2>2. CASE BodyLine(line)
    <3>1. reader'.body = Longer(line) /\ reader'.path = reader.path /\ packer' = packer
      BY <1>1, <2>2 DEF BodyLine, Readers
    <3> QED BY <2>1, <3>1, GrowStep
  <2>3. CASE PlainLine(line)
    <3>1. CASE line.kind = "blank"
      <4>1. lang = "text" /\ packer' = Packed /\ reader'.body = <<>>
        BY <1>1, <2>3, <3>1 DEF PlainLine, Readers
      <4> QED BY <3>1, <4>1, CloseStep
    <3>2. CASE line.kind # "blank"
      <4>1. reader'.body = Longer(line) /\ reader'.path = reader.path /\ packer' = packer
        BY <1>1, <2>3, <3>2 DEF PlainLine, Readers
      <4> QED BY <2>1, <4>1, GrowStep
    <3> QED BY <3>1, <3>2
  <2>4. CASE CodeLine(line)
    <3>1. CASE line.kind # "blank" /\ Bytes(Longer(line)) >= Target
      <4>1. /\ lang = "code" /\ reader'.body = <<>>
            /\ packer' = [packer EXCEPT !.out = @ \o Span(Longer(line))]
        BY <1>1, <2>4, <3>1 DEF CodeLine, Readers
      <4> QED BY <4>1, SpanStep
    <3>2. CASE ~(line.kind # "blank" /\ Bytes(Longer(line)) >= Target)
      <4>1. reader'.body = Longer(line) /\ reader'.path = reader.path /\ packer' = packer
        BY <1>1, <2>4, <3>2 DEF CodeLine, Readers
      <4> QED BY <2>1, <4>1, GrowStep
    <3> QED BY <3>1, <3>2
  <2> QED BY <1>3, <2>2, <2>3, <2>4 DEF AddLine
<1> QED BY <1>2, <1>3

\* What the pieces come to at the end of the document.
LEMMA PiecesCover ==
  ASSUME ChunksAssumption, ChunksTypes, Outline, Kept
  PROVE  /\ \A q \in Range(Pieces) : \A x \in Ink(q.body) : PathOf(x.line) = q.path
         /\ \A j \in DOMAIN doc \ Headings : \A x \in Range(Cells(j)) : Placed(j, x, Range(Pieces))
<1>1. CASE lang # "code"
  <2>1. Packed \in Packers BY PackedIs
  <2>2. Pieces = PushPiece(Packed.out, Packed.cur) BY <1>1 DEF Pieces
  <2>3. /\ Pieces \in Seq(Heaps)
        /\ \A q \in Range(Pieces) : \A x \in Ink(q.body) :
             \E o \in PiecesOut(Packed) : o.path = q.path /\ x \in Ink(o.body)
        /\ \A o \in PiecesOut(Packed) : \E q \in Range(Pieces) : TakenOver(o, q)
    BY <2>1, <2>2, FlushKeeps
  <2>4. /\ \A q \in PiecesOut(Packed) : \A x \in Ink(q.body) : x.line \in DOMAIN doc /\ PathOf(x.line) = q.path
        /\ \A j \in DOMAIN doc \ Headings : \A x \in Range(Cells(j)) : Placed(j, x, PiecesOut(Packed))
    BY PackedCovers
  <2>5. ASSUME NEW j \in DOMAIN doc \ Headings, NEW x \in Range(Cells(j))
        PROVE  Placed(j, x, Range(Pieces))
    <3>1. PICK o \in PiecesOut(Packed) : x \in Ink(o.body) /\ Enough(j, o) BY <2>4 DEF Placed
    <3>2. PICK q \in Range(Pieces) : TakenOver(o, q) BY <2>3
    <3>3. o \in Heaps /\ q \in Heaps BY <2>1, <2>3, PiecesOutAreHeaps DEF Range
    <3>4. Enough(j, q) BY <3>1, <3>2, <3>3, EnoughTaken
    <3>5. x \in Ink(q.body) BY <3>1, <3>2 DEF TakenOver
    <3> QED BY <3>4, <3>5 DEF Placed
  <2>6. ASSUME NEW q \in Range(Pieces), NEW x \in Ink(q.body) PROVE PathOf(x.line) = q.path
    <3>1. PICK o \in PiecesOut(Packed) : o.path = q.path /\ x \in Ink(o.body) BY <2>3
    <3> QED BY <2>4, <3>1
  <2> QED BY <2>5, <2>6
<1>2. CASE lang = "code"
  <2>1. Pieces = packer.out \o Span(reader.body) BY <1>2 DEF Pieces
  <2>2. packer.out \in Seq(Heaps) /\ reader.body \in Bodies /\ packer.cur.body = <<>> /\ reader.path = NoPath
    BY <1>2 DEF ChunksTypes, Readers, Packers, Kept, CodeIsOut, Outline
  <2>3. /\ Span(reader.body) \in Seq(Heaps)
        /\ \A q \in Range(Span(reader.body)) : q.path = NoPath /\ Ink(q.body) \subseteq Ink(reader.body)
        /\ \A x \in Ink(reader.body) : \E q \in Range(Span(reader.body)) : x \in Ink(q.body)
    BY <2>2, SpanKeeps
  <2>4. Range(Pieces) = Range(packer.out) \cup Range(Span(reader.body)) BY <2>1, <2>2, <2>3, ConcatRange
  <2>5. PiecesOut(packer) = Range(packer.out)
    <3>1. {q \in {packer.cur} : q.body # <<>>} = {} BY <2>2
    <3> QED BY <3>1 DEF PiecesOut
  <2>6. ASSUME NEW q \in Range(Pieces), NEW x \in Ink(q.body) PROVE PathOf(x.line) = q.path
    <3>1. CASE q \in PiecesOut(packer) BY <3>1 DEF Kept, PiecesAreTrue
    <3>2. CASE q \in Range(Span(reader.body)) BY <2>2, <2>3, <3>2 DEF Kept, BodyIsTrue
    <3> QED BY <2>4, <2>5, <3>1, <3>2
  <2>7. ASSUME NEW j \in DOMAIN doc \ Headings, NEW x \in Range(Cells(j))
        PROVE  Placed(j, x, Range(Pieces))
    <3>1. CASE x \in Ink(reader.body)
      <4>1. PICK q \in Range(Span(reader.body)) : x \in Ink(q.body) BY <2>3, <3>1
      <4> QED BY <1>2, <2>4, <4>1 DEF Placed, Enough
    <3>2. CASE x \notin Ink(reader.body)
      <4>1. ~Pending(j, x) BY <1>2, <3>2 DEF Pending
      <4>2. Placed(j, x, PiecesOut(packer)) BY <4>1 DEF Kept, AllPlaced
      <4> QED BY <2>4, <2>5, <4>2 DEF Placed
    <3> QED BY <3>1, <3>2
  <2> QED BY <2>6, <2>7
<1> QED BY <1>1, <1>2

\* What is kept at the end is in a chunk, or in a section below the floor.
LEMMA KeptIsContentKept ==
  ASSUME ChunksAssumption, ChunksTypes, Outline, Kept
  PROVE  ContentKept
<1>1. /\ \A q \in Range(Pieces) : \A x \in Ink(q.body) : PathOf(x.line) = q.path
      /\ \A j \in DOMAIN doc \ Headings : \A x \in Range(Cells(j)) : Placed(j, x, Range(Pieces))
  BY PiecesCover
<1>2. \A q \in Range(Pieces) : q \in Heaps BY PiecesAre DEF Range
<1>3. ASSUME NEW c \in Chunk, NEW x \in Ink(c.body) PROVE c.path = PathOf(x.line)
  <2>1. PICK q \in Range(Pieces) : c \in ChunksOf(q) BY DEF Chunk
  <2>2. c.path = q.path /\ Ink(c.body) \subseteq Ink(q.body) BY <1>2, <2>1, ChunksOfKeep
  <2> QED BY <1>1, <2>1, <2>2
<1>4. ASSUME NEW j \in DOMAIN doc \ Headings, ~Small(j), NEW x \in Range(Cells(j))
      PROVE  x \in UNION {Ink(c.body) : c \in Chunk}
  <2>1. PICK q \in Range(Pieces) : x \in Ink(q.body) /\ Enough(j, q) BY <1>1 DEF Placed
  <2>2. q \in Heaps /\ q.body \in Bodies BY <1>2 DEF Heaps
  <2>3. lang # "markdown" \/ Len(Trim(q.body)) >= MinBody
    <3>1. CASE lang = "markdown" /\ Written(j) \subseteq Ink(q.body)
      <4>1. Cardinality(Written(j)) <= Len(Trim(q.body)) /\ Cardinality(Written(j)) \in Nat
        BY <2>2, <3>1, InkFits
      <4>2. ~(Cardinality(Written(j)) < MinBody) BY <1>4, <3>1 DEF Small
      <4>3. Len(Trim(q.body)) \in Nat /\ MinBody \in Nat BY <2>2, TrimLen, SizesAre
      <4> QED BY <4>1, <4>2, <4>3
    <3> QED BY <2>1, <3>1 DEF Enough
  <2>4. PICK c \in ChunksOf(q) : x \in Ink(c.body) BY <2>1, <2>2, <2>3, ChunksOfKeep
  <2>5. c \in Chunk BY <2>1, <2>4 DEF Chunk
  <2> QED BY <2>4, <2>5
<1> QED BY <1>3, <1>4 DEF ContentKept

\* And nothing is lost while nothing is read.
LEMMA OutlineRests ==
  ASSUME doc' = doc, lang' = lang, reader' = reader, packer' = packer, Outline, Kept
  PROVE  Outline' /\ Kept'
<1>1. Headings' = Headings /\ (Fenced(Len(doc) + 1)' <=> Fenced(Len(doc) + 1)) BY DEF Headings, Fenced
<1>2. \A i : Above(i)' = Above(i) BY <1>1 DEF Above
<1>3. Above(Len(doc) + 1)' = Above(Len(doc) + 1) BY <1>1 DEF Above
<1>4. \A i : PathOf(i)' = PathOf(i)
  <2> SUFFICES ASSUME NEW i PROVE PathOf(i)' = PathOf(i) OBVIOUS
  <2>1. Above(i)' = Above(i) BY <1>2
  <2> QED BY <2>1 DEF PathOf
<1>5. \A i : Cells(i)' = Cells(i) BY DEF Cells
<1>6. LastSection' = LastSection BY <1>1 DEF LastSection
<1>7. \A i : Section(i)' = Section(i) BY <1>1 DEF Section
<1>8. \A i : Written(i)' = Written(i)
  <2>1. \A i : Written(i)' = UNION {Range(Cells(j)') : j \in Section(i)'} BY DEF Written, Range
  <2> QED BY <1>5, <1>7, <2>1 DEF Written
<1>9. \A j, q : Enough(j, q)' <=> Enough(j, q) BY <1>8 DEF Enough
<1>10. Outline'
  <2>1. PICK e : OnStack(e) BY DEF Outline
  <2>2. OnStack(e)' BY <1>3, <2>1 DEF OnStack, Ascends
  <2> QED BY <1>1, <2>2 DEF Outline, PathOn
<1>11. PiecesAreTrue' /\ BodyIsTrue' BY <1>4 DEF Kept, PiecesAreTrue, BodyIsTrue, PiecesOut, Ink, Range
<1>12. SectionIsRead' BY <1>5, <1>6 DEF Kept, SectionIsRead, Ink, Range
<1>13. AllPlaced'
  <2> SUFFICES ASSUME NEW j \in DOMAIN doc' \ Headings', NEW x \in Range(Cells(j)')
               PROVE  Pending(j, x)' \/ Placed(j, x, PiecesOut(packer))'
    BY DEF AllPlaced, Range
  <2>1. j \in DOMAIN doc \ Headings /\ x \in Range(Cells(j)) BY <1>1, <1>5
  <2>2. Pending(j, x) \/ Placed(j, x, PiecesOut(packer)) BY <2>1 DEF Kept, AllPlaced
  <2>3. Pending(j, x)' <=> Pending(j, x) BY <1>6 DEF Pending, Ink, Range
  <2>4. Placed(j, x, PiecesOut(packer))' <=> Placed(j, x, PiecesOut(packer))
    BY <1>9 DEF Placed, PiecesOut, Ink, Range
  <2> QED BY <2>2, <2>3, <2>4
<1>14. BodyIsTight' /\ CodeIsOut' BY DEF Kept, BodyIsTight, CodeIsOut, Tight, EndsInk, Last
<1> QED BY <1>10, <1>11, <1>12, <1>13, <1>14 DEF Kept

\* Whatever the headings, fences and sizes, a chunk has text of one heading path only and
\* that is its own, and no character is lost, but of sections below the floor.
THEOREM ContentIsKept == ASSUME ChunksAssumption PROVE ChunksSpec => []ContentKept
<1> DEFINE Inv == ChunksTypes /\ Outline /\ Kept
<1>1. ChunksInit => Inv BY TypesInit, OutlineInit, KeptInit
<1>2. Inv /\ [ChunksNext]_chunkVars => Inv'
  <2> SUFFICES ASSUME Inv, [ChunksNext]_chunkVars PROVE Inv' OBVIOUS
  <2>1. CASE ChunksNext
    <3>1. PICK line \in LineKinds : AddLine(line) BY <2>1 DEF ChunksNext
    <3> QED BY <3>1, TypesStep, OutlineStep, KeptStep
  <2>2. CASE UNCHANGED chunkVars
    <3>1. doc' = doc /\ lang' = lang /\ reader' = reader /\ packer' = packer BY <2>2 DEF chunkVars
    <3>2. ChunksTypes' BY <3>1 DEF ChunksTypes
    <3> QED BY <3>1, <3>2, OutlineRests
  <2> QED BY <2>1, <2>2
<1>3. Inv => ContentKept BY KeptIsContentKept
<1> QED BY <1>1, <1>2, <1>3, PTL DEF ChunksSpec
=============================================================================
