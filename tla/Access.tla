-------------------------------- MODULE Access --------------------------------
(***************************************************************************)
(* Who may do what: the identities of klams.toml from the edit that grants *)
(* one to the request that uses it.  klams-token rewrites the file in      *)
(* place; SIGHUP makes the service read it, bind every name to an author,  *)
(* one statement at a time, and swap the table whole; a request takes the  *)
(* table as it finds it, waits for whois, and is then screened for scope,  *)
(* author and maintenance window on its way to the store.                  *)
(***************************************************************************)
EXTENDS Naturals, FiniteSets

CONSTANTS Names, Authors, NameOf,   \* the agent_name an author id stands under
          Rows,                     \* the rows an [[auth.identities]] table may hold
          Nodes, Enforce,           \* tailnet nodes, [auth.whois] enforce
          Writers, Requests, Tools,
          None,
          MaxEdits, MaxAdmin, MaxFaults

Scopes == {"read", "write", "manage", "admin"}
ASSUME AccessAssumption ==
  /\ NameOf \in [Authors -> Names] /\ \A n \in Names : \E u \in Authors : NameOf[u] = n
  /\ Rows \subseteq [scopes : SUBSET Scopes, nodes : SUBSET Nodes]
  /\ None \notin Names \cup Authors
  /\ Enforce \in BOOLEAN /\ MaxEdits \in Nat /\ MaxAdmin \in Nat /\ MaxFaults \in Nat
  /\ Tools \subseteq {"search", "knowledge", "promote", "memory_add", "admin_restore"}

VARIABLES file,      \* klams.toml: the row of each name that has one, and whether the
                     \* other blocks are there
          edit,      \* klams-token, per process
          hup,       \* a SIGHUP is waiting
          asked,     \* what the file held at the last SIGHUP
          reload,    \* the reload task
          tables,    \* AuthState: the row and the author of each name
          authors,   \* the authors table
          spent,     \* the ids it has given out
          req, edits, admin, faults

writerVars == <<file, edit, edits>>
reloadVars == <<hup, asked, reload>>
authorVars == <<authors, spent, admin>>
vars == <<writerVars, reloadVars, tables, authorVars, req, faults>>

Rowsets == UNION {[S -> Rows] : S \in SUBSET Names}
Empty == [n \in {} |-> None]
Files == [rows : Rowsets, whole : BOOLEAN]
Blank == [rows |-> Empty, whole |-> FALSE]
\* AuthConfig::errors: no identity at all, or one without a scope.
Errors(f) == DOMAIN f = {} \/ \E n \in DOMAIN f : f[n].scopes = {}
Boots(f) == f.whole /\ ~Errors(f.rows)

-----------------------------------------------------------------------------
(* klams-token: an edit of one row, written through the inode *)

Closed == [pc |-> "idle", text |-> Blank, undo |-> Blank]

Without(f, n) == [m \in DOMAIN f \ {n} |-> f[m]]
With(f, n, row) == [m \in DOMAIN f \cup {n} |-> IF m = n THEN row ELSE f[m]]
\* The commands: a row more, a row less, the scopes of one or its nodes.
Added(f) == {With(f, n, row) : n \in Names \ DOMAIN f, row \in Rows}
Removed(f) == {Without(f, n) : n \in DOMAIN f}
Rewritten(f) == {With(f, n, row) : n \in DOMAIN f, row \in Rows}
Rescoped(f) == {g \in Rewritten(f) : \A n \in DOMAIN f : g[n].nodes = f[n].nodes}
Repinned(f) == {g \in Rewritten(f) : \A n \in DOMAIN f : g[n].scopes = f[n].scopes}
Changes(f) == Added(f) \cup Removed(f) \cup Rescoped(f) \cup Repinned(f)

\* The file read, the change made in memory; nothing is written whose [auth] block
\* would not start. The other blocks are taken as they are, if they are there.
ReadConfig(w) ==
  /\ edit[w].pc = "idle" /\ edits < MaxEdits
  /\ \E new \in Changes(file.rows) :
       /\ new # file.rows /\ ~Errors(new)
       /\ edit' = [edit EXCEPT ![w] = [Closed EXCEPT !.pc = "edit", !.text = [file EXCEPT !.rows = new]]]
  /\ edits' = edits + 1
  /\ UNCHANGED <<file, reloadVars, tables, authorVars, req, faults>>

\* write_validated keeps what it finds, then write_in_place opens with truncate.
Truncate(w) ==
  /\ edit[w].pc = "edit"
  /\ file' = Blank /\ edit' = [edit EXCEPT ![w].pc = "short", ![w].undo = file]
  /\ UNCHANGED <<edits, reloadVars, tables, authorVars, req, faults>>

Put(w) ==
  /\ edit[w].pc = "short"
  /\ file' = edit[w].text /\ edit' = [edit EXCEPT ![w].pc = "landed"]
  /\ UNCHANGED <<edits, reloadVars, tables, authorVars, req, faults>>

\* What landed is read again; when it would not start, the old text goes back.
Validate(w) ==
  /\ edit[w].pc = "landed"
  /\ edit' = [edit EXCEPT ![w] = IF Errors(file.rows) THEN [@ EXCEPT !.pc = "undo"] ELSE Closed]
  /\ file' = IF Errors(file.rows) THEN Blank ELSE file
  /\ UNCHANGED <<edits, reloadVars, tables, authorVars, req, faults>>

PutBack(w) ==
  /\ edit[w].pc = "undo"
  /\ file' = edit[w].undo /\ edit' = [edit EXCEPT ![w] = Closed]
  /\ UNCHANGED <<edits, reloadVars, tables, authorVars, req, faults>>

\* The tool is interrupted, or the disk is full: the file stays as it is.
Interrupted(w) ==
  /\ edit[w].pc # "idle" /\ faults < MaxFaults
  /\ edit' = [edit EXCEPT ![w] = Closed] /\ faults' = faults + 1
  /\ UNCHANGED <<file, edits, reloadVars, tables, authorVars, req>>

\* The file is edited by hand into one that would not start, which nothing looks at:
\* bounded to when klams-token may meet it.
ByHand ==
  /\ faults < MaxFaults /\ \E w \in Writers : edit[w].pc = "landed"
  /\ file' \in {[file EXCEPT !.rows = f] : f \in {g \in Changes(file.rows) : Errors(g)}} /\ faults' = faults + 1
  /\ UNCHANGED <<edit, edits, reloadVars, tables, authorVars, req>>

-----------------------------------------------------------------------------
(* The reload *)

Asleep(last) == [pc |-> "idle", cfg |-> Empty, todo |-> {}, name |-> None, built |-> Empty,
           last |-> last]
Begun(f) == [pc |-> "bind", cfg |-> f, todo |-> DOMAIN f, name |-> None, built |-> Empty, last |-> "none"]

\* systemctl reload: signals that come before the task looks are one.
Signal ==
  /\ ~hup \/ asked # file
  /\ hup' = TRUE /\ asked' = file
  /\ UNCHANGED <<writerVars, reload, tables, authorVars, req, faults>>

\* MUTANT of Reread: what does not start is taken as it is.
RereadUnchecked ==
  /\ reload.pc = "idle" /\ hup
  /\ hup' = FALSE
  /\ reload' = Begun(file.rows)
  /\ UNCHANGED <<writerVars, asked, tables, authorVars, req, faults>>

Reread ==
  /\ reload.pc = "idle" /\ hup
  /\ hup' = FALSE
  /\ reload' = IF ~Boots(file) THEN Asleep("failed")
               ELSE Begun(file.rows)
  /\ UNCHANGED <<writerVars, asked, tables, authorVars, req, faults>>

Under(n) == {u \in authors : NameOf[u] = n}
Bound(n, u) == [reload EXCEPT !.todo = @ \ {n}, !.built = With(@, n,
                  [scopes |-> reload.cfg[n].scopes, nodes |-> reload.cfg[n].nodes, author |-> u])]

\* get_author_by_agent_name: the one seen last, of those that share the name.
Bind(n) ==
  /\ reload.pc = "bind" /\ n \in reload.todo /\ Under(n) # {}
  /\ \E u \in Under(n) : reload' = Bound(n, u)
  /\ UNCHANGED <<writerVars, hup, asked, tables, authorVars, req, faults>>

NotFound(n) ==
  /\ reload.pc = "bind" /\ n \in reload.todo /\ Under(n) = {}
  /\ reload' = [reload EXCEPT !.pc = "insert", !.name = n]
  /\ UNCHANGED <<writerVars, hup, asked, tables, authorVars, req, faults>>

\* insert_author: a fresh id, whoever else has put one in meanwhile.
Spare(n) == {u \in Authors \ spent : NameOf[u] = n}
Fresh(n) == CHOOSE u \in Spare(n) : TRUE
Insert(n) ==
  /\ reload.pc = "insert" /\ n = reload.name
  /\ Spare(n) # {}
  /\ authors' = authors \cup {Fresh(n)} /\ spent' = spent \cup {Fresh(n)}
  /\ reload' = [Bound(n, Fresh(n)) EXCEPT !.pc = "bind", !.name = None]
  /\ UNCHANGED <<writerVars, hup, asked, tables, admin, req, faults>>

\* Any error, and the table in force stays in force.
ReloadFails ==
  /\ reload.pc \in {"bind", "insert"} /\ faults < MaxFaults
  /\ reload' = Asleep("failed") /\ faults' = faults + 1
  /\ UNCHANGED <<writerVars, hup, asked, tables, authorVars, req>>

\* MUTANT of Swap: a signal that came during the reload is taken to be served by it.
SwapAndForget ==
  /\ reload.pc = "bind" /\ reload.todo = {}
  /\ tables' = reload.built /\ reload' = Asleep("ok") /\ hup' = FALSE
  /\ UNCHANGED <<writerVars, asked, authorVars, req, faults>>

\* replace_tables: the next check sees the new table, a check under way keeps its own.
Entry(n) == IF n \in DOMAIN reload.built THEN {reload.built[n]} ELSE {}
Swap ==
  /\ reload.pc = "bind" /\ reload.todo = {}
  /\ tables' = reload.built /\ reload' = Asleep("ok")
  /\ req' = [r \in Requests |-> IF req[r].pc = "whois" THEN [req[r] EXCEPT !.could = @ \cup Entry(req[r].name)]
                                ELSE req[r]]
  /\ UNCHANGED <<writerVars, hup, asked, authorVars, faults>>

-----------------------------------------------------------------------------
(* The authors, under the reload: registered, removed or merged by the tools *)

AuthorsChange ==
  /\ admin < MaxAdmin
  /\ \/ \E n \in Names : /\ Cardinality(Spare(n)) > 1   \* an id is left for the reload
                       /\ authors' = authors \cup {Fresh(n)} /\ spent' = spent \cup {Fresh(n)}
     \/ \E u \in authors : authors' = authors \ {u} /\ UNCHANGED spent
  /\ admin' = admin + 1
  /\ UNCHANGED <<writerVars, reloadVars, tables, req, faults>>

-----------------------------------------------------------------------------
(* A request *)

\* The router's scope for a route, and required_scope for a tool.
RouteNeeds == [search |-> "read", knowledge |-> "write", promote |-> "manage"]
ToolNeeds == [memory_add |-> "write", admin_restore |-> "admin"]
Needs(t) == IF t \in DOMAIN RouteNeeds THEN RouteNeeds[t] ELSE ToolNeeds[t]
Mutates(t) == t # "search"
\* Reads and the critical paths of REST pass; of the tools, the create and curation
\* tools look at the flag, the admin ones do not.
Guarded(t) == t \in {"knowledge", "memory_add"}
Pinned(t) == t = "memory_add"

Free == [pc |-> "free", name |-> None, grant |-> None, could |-> {}, tool |-> None, by |-> None,
         window |-> FALSE]
Over(r) == req' = [req EXCEPT ![r] = Free]

\* The table as it is when the request comes in; an unknown name is a 401.
Arrive(r) ==
  /\ req[r].pc = "free"
  /\ \E n \in DOMAIN tables :
       req' = [req EXCEPT ![r] = [Free EXCEPT !.pc = "whois", !.name = n, !.grant = tables[n],
                                             !.could = {tables[n]}]]
  /\ UNCHANGED <<writerVars, reloadVars, tables, authorVars, faults>>

\* A pinned identity must come from one of its nodes; whois may answer with nothing.
Admits(grant, node) == Enforce /\ grant.nodes # {} => node \in grant.nodes

\* TailscaleWhois: the node, as tailscale says or said within the ttl, or none when it
\* does not say, in time or at all.
Answers == Nodes \cup {None}
Whois(r) ==
  /\ req[r].pc = "whois"
  /\ \E node \in Answers :
       IF Admits(req[r].grant, node) THEN req' = [req EXCEPT ![r].pc = "admitted"] ELSE Over(r)
  /\ UNCHANGED <<writerVars, reloadVars, tables, authorVars, faults>>

\* MUTANT of MayClaim: an author named outright is taken at its word.
ClaimsAnyone(bound, claim) == TRUE

\* pin_bound_author: left out, or the author the name is bound to.
MayClaim(bound, claim) == claim \in {None, bound}

\* require_scope and maintenance_check, or dispatch_tool and the tool's entry: a call
\* of any tool, with or without an author of its own, while a backup runs or not.
Scoped(r, t) == Needs(t) \in req[r].grant.scopes
Lets(r, t, claim, window) ==
  /\ Scoped(r, t)
  /\ Pinned(t) => MayClaim(req[r].grant.author, claim)
  /\ Guarded(t) => ~window
Screen(r) ==
  /\ req[r].pc = "admitted"
  /\ \E t \in Tools, claim \in {None} \cup Authors, window \in BOOLEAN :
       IF Lets(r, t, claim, window)
       THEN req' = [req EXCEPT ![r] = [Free EXCEPT !.pc = "let", !.name = req[r].name, !.tool = t, !.window = window,
                      !.by = IF Pinned(t) /\ claim # None THEN claim ELSE req[r].grant.author]]
       ELSE Over(r)
  /\ UNCHANGED <<writerVars, reloadVars, tables, authorVars, faults>>

\* The handler's own work is the stores' part.
Handle(r) ==
  /\ req[r].pc = "let" /\ Over(r)
  /\ UNCHANGED <<writerVars, reloadVars, tables, authorVars, faults>>

-----------------------------------------------------------------------------
First(n) == CHOOSE u \in Authors : NameOf[u] = n

\* Started on a file that starts, every name of it bound.
Init ==
  /\ file \in {f \in Files : Boots(f)}
  /\ authors = {First(n) : n \in DOMAIN file.rows}
  /\ tables = [n \in DOMAIN file.rows |->
                 [scopes |-> file.rows[n].scopes, nodes |-> file.rows[n].nodes, author |-> First(n)]]
  /\ spent = authors
  /\ edit = [w \in Writers |-> Closed] /\ hup = FALSE /\ asked = file /\ reload = Asleep("none")
  /\ req = [r \in Requests |-> Free]
  /\ edits = 0 /\ admin = 0 /\ faults = 0

EditStep(w) == ReadConfig(w) \/ Truncate(w) \/ Put(w) \/ Validate(w) \/ PutBack(w)
ReloadStep == Reread \/ Swap \/ \E n \in Names : Bind(n) \/ NotFound(n) \/ Insert(n)
RequestStep(r) == Arrive(r) \/ Whois(r) \/ Screen(r) \/ Handle(r)
Next ==
  \/ \E w \in Writers : EditStep(w) \/ Interrupted(w)
  \/ ByHand
  \/ ReloadStep \/ ReloadFails \/ Signal
  \/ AuthorsChange
  \/ \E r \in Requests : RequestStep(r)
Spec == Init /\ [][Next]_vars
\* The reload is one task that runs when signalled.
FairSpec == Spec /\ WF_vars(ReloadStep)

-----------------------------------------------------------------------------
Grants == [scopes : SUBSET Scopes, nodes : SUBSET Nodes, author : Authors]
Bindings == UNION {[S -> Grants] : S \in SUBSET Names}
TypeOK ==
  /\ file \in Files /\ asked \in Files /\ tables \in Bindings
  /\ edit \in [Writers -> [pc : {"idle", "edit", "short", "landed", "undo"}, text : Files, undo : Files]]
  /\ reload \in [pc : {"idle", "bind", "insert"}, cfg : Rowsets, todo : SUBSET Names, name : Names \cup {None},
                  built : Bindings, last : {"none", "ok", "failed"}]
  /\ hup \in BOOLEAN
  /\ authors \subseteq spent /\ spent \subseteq Authors
  /\ req \in [Requests -> [pc : {"free", "whois", "admitted", "let"}, name : Names \cup {None},
                           grant : Grants \cup {None}, could : SUBSET Grants, tool : Tools \cup {None},
                           by : Authors \cup {None}, window : BOOLEAN]]
  /\ edits \in Nat /\ admin \in Nat /\ faults \in Nat

\* Whatever is edited, interrupted, merged or reloaded meanwhile, a memory is
\* attributed to an author that stands under the name its request declared: nobody
\* writes as somebody else (pin_bound_author, resolve_agent_author).
WrittenUnderOwnName ==
  \A r \in Requests : req[r].pc = "let" => NameOf[req[r].by] = req[r].name

\* No edit, half-written file or failed reload leaves a running service without
\* identities, or with one that may do nothing (build_auth_tables, AuthConfig::errors).
NeverLockedOut == ~Errors(tables)

\* A request is screened under one row of one table that was in force while it was
\* being checked: never the scopes of one table with the pin or the author of another.
OneTable == \A r \in Requests : req[r].pc = "admitted" => req[r].grant \in req[r].could

\* After a SIGHUP the table comes to be what the file held then, unless the reload
\* failed or the file has changed since: a grant taken away is gone.
Same(t, f) == DOMAIN t = DOMAIN f /\ \A n \in DOMAIN f : t[n].scopes = f[n].scopes /\ t[n].nodes = f[n].nodes
EditTakesHold == hup ~> (Same(tables, asked.rows) \/ reload.last = "failed" \/ file # asked)

\* FR-021: while a backup runs, a call that writes is not let through, save a
\* dissent's resolution.
WindowKeepsWritesOut ==
  \A r \in Requests : req[r].pc = "let" /\ req[r].window => ~Mutates(req[r].tool) \/ req[r].tool = "promote"
=============================================================================
