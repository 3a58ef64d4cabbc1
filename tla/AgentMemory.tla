------------------------------ MODULE AgentMemory ------------------------------
(***************************************************************************)
(* The memories agents keep, and the tools that add, update, supersede,    *)
(* delete, restore and erase them.  A memory is a Qdrant point, and so is  *)
(* a scanned chunk: a scan of a file with the same text attaches its       *)
(* location to the memory, and a delete of that file takes it off again.   *)
(* A tool is a chain of store calls with nothing that ties them together:  *)
(* what one call read may be stale at the next.  Only attach and delete by *)
(* file share a mutex.                                                     *)
(***************************************************************************)
EXTENDS Naturals, FiniteSets

CONSTANTS Ids, Texts,
          Sites,        \* locations a scanner reports: a host and a file
          Own,          \* the location an agent may give its memory: a file, no host
          Authors,      \* author ids
          Scanner,      \* the author the scanner's token is bound to
          Managers,     \* authors whose token has the manage scope
          Calls,        \* tool calls, each made once
          MaxFaults,    \* bound: failed store calls and restarts
          None

ASSUME AgentMemoryAssumption ==
  /\ Scanner \in Authors /\ Managers \subseteq Authors /\ MaxFaults \in Nat
  /\ Own \notin Sites /\ None \notin Ids \cup Texts \cup Sites \cup Authors \cup {Own}

VARIABLES points,    \* what Qdrant holds
          authors,   \* the rows of the authors table, see Registry
          file,      \* what the scanner of each site is doing
          book,      \* the site that has the bookkeeping mutex
          call,      \* the calls
          used,      \* history: ids given to a point so far
          stray,     \* history: points written for an author on its way out
          faults     \* faults so far

mvars == <<points, authors, file, book, call, used, stray, faults>>

Point(t, agent, copies, u, of) ==
  [text |-> t, agent |-> agent, copies |-> copies, author |-> u,
   deleted_by |-> None, supersedes |-> of, superseded_by |-> None]

Absent == [text |-> None]
Stored == {i \in Ids : points[i] # Absent}
Hidden(p) == p.deleted_by # None
LiveWith(t) == {i \in Stored : points[i].text = t /\ ~Hidden(points[i])}
Written(u) == {i \in Stored : points[i].author = u}
Fresh == Ids \ used     \* uuid v7: never given twice

\* What a tool begins with.
First(tool) ==
  CASE tool \in {"add", "delete"} -> "author" [] tool \in {"update", "supersede"} -> "get"
    [] tool \in {"restore", "erase"} -> "exists" [] OTHER -> "begin"

\* A call: what it was asked, and what it has read so far.  live is history: it has
\* asked whether its target is deleted, and been told that it is not.
Request(tool, who, id, text, from) ==
  [tool |-> tool, pc |-> First(tool), who |-> who, id |-> id, text |-> text,
   from |-> from, read |-> Absent, live |-> FALSE, owner |-> None, new |-> None]
Unmade == Request("none", None, None, None, None)

At(c, tools, pc) == call[c].tool \in tools /\ call[c].pc = pc
Answers == {"ok", "not_found", "refused", "error"}
Ended(answer) == [Unmade EXCEPT !.tool = "ended", !.pc = answer]
Goto(c, pc) ==
  call' = [call EXCEPT ![c] = IF pc \in Answers THEN Ended(pc) ELSE [@ EXCEPT !.pc = pc]]
Made(c) == call[c].tool # "none"
Running(c) == Made(c) /\ call[c].pc \notin Answers

\* An author whose row a merge or a removal is about to drop: their points
\* have been counted or moved already.
Leaving(u) == u \notin authors \/
  \E c \in Calls : /\ At(c, {"merge"}, "rows") \/ At(c, {"remove"}, "drop")
                   /\ call[c].from = u
Strays(i, u) == stray' = IF u # None /\ Leaving(u) THEN stray \cup {i} ELSE stray

\* What the calls set in a payload, or take away.
Deleted(i, u) == points' = [points EXCEPT ![i].deleted_by = u]
Superseded(c) ==
  points' = [points EXCEPT ![call[c].id].deleted_by = call[c].who,
                           ![call[c].id].superseded_by = call[c].new]
Erased(i) == points' = [points EXCEPT ![i] = Absent]

-----------------------------------------------------------------------------
(* What the tools have in common *)

\* The tools for agents, and the administrator's.
Begin(c) ==
  /\ ~Made(c)
  /\ \E u \in Authors :
       \/ \E t \in Texts : \E p \in {None, Own} :
            call' = [call EXCEPT ![c] = Request("add", u, None, t, p)]
       \/ \E i \in used : \E t \in Texts \cup {None} :
            call' = [call EXCEPT ![c] = Request("update", u, i, t, None)]
       \/ \E i \in used : \E t \in Texts :
            call' = [call EXCEPT ![c] = Request("supersede", u, i, t, None)]
       \/ \E i \in used : call' = [call EXCEPT ![c] = Request("delete", u, i, None, None)]
       \/ \E i \in used : \E tool \in {"restore", "erase"} :
            call' = [call EXCEPT ![c] = Request(tool, None, i, None, None)]
  /\ UNCHANGED <<points, authors, file, book, used, stray, faults>>

\* The caller's own row.
AfterAuthor(tool) ==
  CASE tool = "add" -> "probe" [] tool = "delete" -> "exists"
    [] tool = "update" -> "vector" [] tool = "supersede" -> "insert"
LookupAuthor(c) ==
  /\ At(c, {"add", "delete", "update", "supersede"}, "author")
  /\ Goto(c, IF call[c].who \in authors THEN AfterAuthor(call[c].tool) ELSE "refused")
  /\ UNCHANGED <<points, authors, file, book, used, stray, faults>>

\* get_knowledge: hidden points are found too.
Get(c) ==
  /\ At(c, {"update", "supersede"}, "get")
  /\ IF call[c].id \in Stored
     THEN call' = [call EXCEPT ![c].pc = "check", ![c].read = points[call[c].id]]
     ELSE Goto(c, "not_found")
  /\ UNCHANGED <<points, authors, file, book, used, stray, faults>>

\* MUTANT of Check: the state of the target is not asked for.
CheckSkipped(c) ==
  /\ At(c, {"update", "supersede"}, "check")
  /\ Goto(c, IF call[c].read.agent THEN "owner" ELSE "refused")
  /\ UNCHANGED <<points, authors, file, book, used, stray, faults>>

\* point_is_soft_deleted; a point that is gone passes.  Then the source, as read.
Check(c) ==
  LET i == call[c].id IN
  /\ At(c, {"update", "supersede"}, "check")
  /\ IF i \in Stored /\ Hidden(points[i]) THEN Goto(c, "not_found")
     ELSE IF ~call[c].read.agent THEN Goto(c, "refused")
     ELSE call' = [call EXCEPT ![c].pc = "owner", ![c].live = TRUE]
  /\ UNCHANGED <<points, authors, file, book, used, stray, faults>>

\* authorize_curation: one's own, or anybody's with the manage scope.
Owner(c) ==
  LET i == call[c].id
      u == IF i \in Stored THEN points[i].author ELSE None
      tool == call[c].tool
  IN
  /\ At(c, {"update", "supersede", "delete"}, "owner")
  /\ IF u = call[c].who \/ call[c].who \in Managers
     THEN call' = [call EXCEPT ![c].pc = IF tool = "delete" THEN "hide" ELSE "author",
                               ![c].owner = IF u = None THEN call[c].who ELSE u]
     ELSE Goto(c, "refused")
  /\ UNCHANGED <<points, authors, file, book, used, stray, faults>>

-----------------------------------------------------------------------------
(* memory_add *)

\* The dedupe probe sees what is live only.
Probe(c) ==
  /\ At(c, {"add"}, "probe")
  /\ \/ \E i \in LiveWith(call[c].text) :
          call' = [call EXCEPT ![c].pc = "found", ![c].id = i]
     \/ LiveWith(call[c].text) = {} /\ Goto(c, "insert")
  /\ UNCHANGED <<points, authors, file, book, used, stray, faults>>

\* What was found is read back and answered; if it has gone, the memory is new.
Found(c) ==
  /\ At(c, {"add"}, "found")
  /\ Goto(c, IF call[c].id \in Stored THEN "ok" ELSE "insert")
  /\ UNCHANGED <<points, authors, file, book, used, stray, faults>>

\* The location the new memory is given: the one asked for, or the file of
\* the memory it replaces, without its host.
Located(c) ==
  IF call[c].tool = "add" THEN {call[c].from} \ {None}
  ELSE IF call[c].read.copies = {} THEN {} ELSE {Own}

\* MUTANT of Insert: the replacement does not say what it replaces.
InsertUnlinked(c) ==
  /\ At(c, {"add", "supersede"}, "insert")
  /\ \E i \in Fresh :
       /\ points' = [points EXCEPT ![i] = Point(call[c].text, TRUE, Located(c), call[c].who, None)]
       /\ used' = used \cup {i}
       /\ IF call[c].tool = "add" THEN Goto(c, "ok")
          ELSE call' = [call EXCEPT ![c].pc = "mark", ![c].new = i]
       /\ Strays(i, call[c].who)
  /\ UNCHANGED <<authors, file, book, faults>>

\* The text is embedded, the point upserted under a new id.
Insert(c) ==
  /\ At(c, {"add", "supersede"}, "insert")
  /\ \E i \in Fresh :
       /\ points' = [points EXCEPT ![i] = Point(call[c].text, TRUE, Located(c), call[c].who,
            IF call[c].tool = "supersede" THEN call[c].id ELSE None)]
       /\ used' = used \cup {i}
       /\ IF call[c].tool = "add" THEN Goto(c, "ok")
          ELSE call' = [call EXCEPT ![c].pc = "mark", ![c].new = i]
       /\ Strays(i, call[c].who)
  /\ UNCHANGED <<authors, file, book, faults>>

-----------------------------------------------------------------------------
(* memory_update *)

\* With new text the vector comes from the embedder, else from the point.
Vector(c) ==
  /\ At(c, {"update"}, "vector")
  /\ Goto(c, IF call[c].text = None /\ call[c].id \notin Stored THEN "error" ELSE "write")
  /\ UNCHANGED <<points, authors, file, book, used, stray, faults>>

\* upsert_knowledge_item: the whole payload, from what was read, without the
\* deletion and without the list of copies: the first alone is read back, from
\* the file and the host.  A point that has gone is made again.
Canonical(copies) ==
  IF copies = {} THEN {{}} ELSE IF Own \in copies THEN {{Own}} ELSE {{s} : s \in copies}
Rewritten(c, first) ==
  [call[c].read EXCEPT !.text = IF call[c].text = None THEN @ ELSE call[c].text,
                       !.author = call[c].owner, !.copies = first, !.deleted_by = None]
Write(c) ==
  /\ At(c, {"update"}, "write")
  /\ \E first \in Canonical(call[c].read.copies) :
       points' = [points EXCEPT ![call[c].id] = Rewritten(c, first)]
  /\ Strays(call[c].id, call[c].owner)
  /\ Goto(c, "ok")
  /\ UNCHANGED <<authors, file, book, used, faults>>

-----------------------------------------------------------------------------
(* memory_supersede, once the replacement is stored *)

\* mark_superseded; Qdrant refuses to set the payload of a point it does not have.
Mark(c) ==
  /\ At(c, {"supersede"}, "mark")
  /\ \/ call[c].id \in Stored /\ Superseded(c) /\ Goto(c, "ok")
     \/ call[c].id \notin Stored /\ Goto(c, "rollback") /\ UNCHANGED points
  /\ UNCHANGED <<authors, file, book, used, stray, faults>>

Rollback(c) ==
  /\ At(c, {"supersede"}, "rollback")
  /\ Erased(call[c].new)
  /\ Goto(c, "error")
  /\ UNCHANGED <<authors, file, book, used, stray, faults>>

-----------------------------------------------------------------------------
(* memory_delete, memory_admin_restore, memory_admin_hard_delete *)

\* A restore asks for the soft-delete, the others for the point.
Exists(c) ==
  LET i == call[c].id
      tool == call[c].tool
  IN
  /\ At(c, {"delete", "restore", "erase"}, "exists")
  /\ Goto(c, IF i \notin Stored THEN "not_found"
             ELSE IF tool = "delete" THEN "owner"
             ELSE IF tool = "erase" THEN "erase"
             ELSE IF Hidden(points[i]) THEN "show" ELSE "refused")
  /\ UNCHANGED <<points, authors, file, book, used, stray, faults>>

\* soft_delete_payload: the mark is set whether or not there is one.
Hide(c) ==
  /\ At(c, {"delete"}, "hide")
  /\ \/ call[c].id \in Stored /\ Deleted(call[c].id, call[c].who) /\ Goto(c, "ok")
     \/ call[c].id \notin Stored /\ Goto(c, "error") /\ UNCHANGED points
  /\ UNCHANGED <<authors, file, book, used, stray, faults>>

\* restore_payload: superseded_by stays.
Show(c) ==
  /\ At(c, {"restore"}, "show")
  /\ \/ call[c].id \in Stored /\ Deleted(call[c].id, None) /\ Goto(c, "ok")
     \/ call[c].id \notin Stored /\ Goto(c, "error") /\ UNCHANGED points
  /\ UNCHANGED <<authors, file, book, used, stray, faults>>

Erase(c) ==
  /\ At(c, {"erase"}, "erase")
  /\ Erased(call[c].id)
  /\ Goto(c, "ok")
  /\ UNCHANGED <<authors, file, book, used, stray, faults>>

-----------------------------------------------------------------------------
(* The scanner's side; Knowledge has it in all its steps *)

Scan(pc, id, read) == [pc |-> pc, id |-> id, read |-> read]
Idle == Scan("idle", None, {})
Carrying(s) == {i \in Stored : s \in points[i].copies}

\* A chunk is new, or its content is there already.
FileIndex(s) ==
  /\ file[s].pc = "idle"
  /\ \E t \in Texts :
       \/ /\ \E i \in LiveWith(t) : file' = [file EXCEPT ![s] = Scan("attach", i, {})]
          /\ UNCHANGED <<points, used, stray>>
       \/ /\ LiveWith(t) = {}
          /\ \E i \in Fresh :
               /\ points' = [points EXCEPT ![i] = Point(t, FALSE, {s}, Scanner, None)]
               /\ used' = used \cup {i}
               /\ Strays(i, Scanner)
          /\ UNCHANGED file
  /\ UNCHANGED <<authors, book, call, faults>>

Collected(S) == {[id |-> i, copies |-> points[i].copies] : i \in S}

\* attach_copy reads the point under the mutex ...
FileRead(s) ==
  /\ file[s].pc = "attach" /\ book = None
  /\ LET i == file[s].id IN
       IF i \in Stored /\ i \notin Carrying(s)
       THEN /\ book' = s
            /\ file' = [file EXCEPT ![s] = Scan("add", i, Collected({i}))]
       ELSE file' = [file EXCEPT ![s] = Idle] /\ UNCHANGED book
  /\ UNCHANGED <<points, authors, call, used, stray, faults>>

\* ... delete_by_source_file collects what carries the location, hidden or not ...
FileScroll(s) ==
  /\ file[s].pc = "idle" /\ book = None /\ Carrying(s) # {}
  /\ book' = s
  /\ file' = [file EXCEPT ![s] = Scan("remove", None, Collected(Carrying(s)))]
  /\ UNCHANGED <<points, authors, call, used, stray, faults>>

Left(s, r) == IF file[s].pc = "add" THEN r.copies \cup {s} ELSE r.copies \ {s}

\* ... and a point whose copies were read is written, or erased with the last.
FileWrite(s) ==
  \E r \in file[s].read :
    /\ points' = [points EXCEPT ![r.id] =
         IF @ = Absent \/ Left(s, r) = {} THEN Absent ELSE [@ EXCEPT !.copies = Left(s, r)]]
    /\ file' = [file EXCEPT ![s] = IF file[s].read = {r} THEN Idle
                                   ELSE Scan(file[s].pc, file[s].id, file[s].read \ {r})]
    /\ book' = IF file[s].read = {r} THEN None ELSE s
    /\ UNCHANGED <<authors, call, used, stray, faults>>

-----------------------------------------------------------------------------
(* Faults *)

Fault == faults < MaxFaults /\ faults' = faults + 1

\* A store call fails before it does anything.  A failed mark is rolled back; a
\* failed check counts as live.
CallFails(c) ==
  /\ Fault /\ Running(c)
  /\ Goto(c, IF At(c, {"supersede"}, "mark") THEN "rollback"
             ELSE IF call[c].pc = "check" /\ call[c].read.agent THEN "owner" ELSE "error")
  /\ UNCHANGED <<points, authors, file, book, used, stray>>

\* The mark is made, but its answer never comes.
MarkUnanswered(c) ==
  /\ Fault
  /\ At(c, {"supersede"}, "mark") /\ call[c].id \in Stored
  /\ Superseded(c) /\ Goto(c, "rollback")
  /\ UNCHANGED <<authors, file, book, used, stray>>

ScanFails(s) ==
  /\ Fault /\ file[s] # Idle
  /\ file' = [file EXCEPT ![s] = Idle]
  /\ book' = IF book = s THEN None ELSE book
  /\ UNCHANGED <<points, authors, call, used, stray>>

ServiceRestarts ==
  /\ Fault
  /\ call' = [c \in Calls |-> IF Running(c) THEN Ended("error") ELSE call[c]]
  /\ file' = [s \in Sites |-> Idle] /\ book' = None
  /\ UNCHANGED <<points, authors, used, stray>>

-----------------------------------------------------------------------------
Handle(c) ==
  Begin(c) \/ LookupAuthor(c) \/ Get(c) \/ Check(c) \/ Owner(c)
    \/ Probe(c) \/ Found(c) \/ Insert(c) \/ Vector(c) \/ Write(c) \/ Mark(c)
    \/ Rollback(c) \/ Exists(c) \/ Hide(c) \/ Show(c) \/ Erase(c)
    \/ CallFails(c) \/ MarkUnanswered(c)
ScanOf(s) == FileIndex(s) \/ FileRead(s) \/ FileScroll(s) \/ FileWrite(s) \/ ScanFails(s)

\* One agent memory is there from before.
MemoryInit ==
  /\ \E i \in Ids : \E t \in Texts : \E u \in Authors : \E copies \in {{}, {Own}} :
       /\ points = [j \in Ids |-> IF j = i THEN Point(t, TRUE, copies, u, None) ELSE Absent]
       /\ used = {i}
  /\ file = [s \in Sites |-> Idle] /\ book = None
  /\ call = [c \in Calls |-> Unmade]
  /\ stray = {} /\ faults = 0
=============================================================================
