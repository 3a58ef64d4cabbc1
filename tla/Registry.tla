------------------------------- MODULE Registry -------------------------------
(***************************************************************************)
(* The registry of authors beside the memories they own.  Postgres keeps   *)
(* the authors table and the rows that refer to it, under foreign keys;    *)
(* the points in Qdrant name their author with nothing to hold them to it. *)
(* Registering is a look-up and an insert; removing, a count in each store *)
(* and a delete; merging moves the points first and then, in one           *)
(* transaction, the rows.                                                  *)
(***************************************************************************)
EXTENDS AgentMemory

CONSTANTS Names, NameOf,   \* the agent_name an author id is registered under
          Kinds            \* what refers to authors(id) in Postgres

\* facts.author_id, events.author_id, facts.deleted_by_author_id, dissents.author_id
ASSUME RegistryAssumption ==
  /\ NameOf \in [Authors -> Names]
  /\ Kinds \subseteq {"fact", "event", "deletion", "proposal"}

VARIABLE rows    \* what refers to whom in Postgres

vars == <<points, authors, file, book, call, used, stray, faults, rows>>

Row(kind, u) == [kind |-> kind, author |-> u]
References(u) == {r \in rows : r.author = u}

\* count_author_rows: what a removal asks Postgres for.
Counted == {"fact", "event", "deletion"}
Owns(u) == \E r \in References(u) : r.kind \in Counted

Ask(c) ==
  /\ ~Made(c)
  /\ \/ \E u \in Authors :   \* a write through REST or memory_append_event
          call' = [call EXCEPT ![c] = Request("write", u, None, None, None)]
     \/ \E n \in Names : call' = [call EXCEPT ![c] = Request("register", n, None, None, None)]
     \/ \E u \in Authors : call' = [call EXCEPT ![c] = Request("remove", None, None, None, u)]
     \/ \E u, v \in Authors : /\ u # v
                              /\ call' = [call EXCEPT ![c] = Request("merge", v, None, None, u)]
  /\ UNCHANGED <<points, authors, file, book, used, stray, faults, rows>>

-----------------------------------------------------------------------------
(* Rows, and register_author *)

\* An insert that refers to an author: refused by the foreign key, or there.
WriteRow(c) ==
  /\ At(c, {"write"}, "begin")
  /\ \E kind \in Kinds :
       IF call[c].who \in authors
       THEN rows' = rows \cup {Row(kind, call[c].who)} /\ Goto(c, "ok")
       ELSE UNCHANGED rows /\ Goto(c, "error")
  /\ UNCHANGED <<points, authors, file, book, used, stray, faults>>

LookupName(c) ==
  /\ At(c, {"register"}, "begin")
  /\ Goto(c, IF \E u \in authors : NameOf[u] = call[c].who THEN "ok" ELSE "insert")
  /\ UNCHANGED <<points, authors, file, book, used, stray, faults, rows>>

Unseen(u) == Written(u) = {} /\ \A c \in Calls : u \notin {call[c].who, call[c].from, call[c].owner}

\* insert_author: nothing makes the name unique.
InsertAuthor(c) ==
  /\ At(c, {"register"}, "insert")
  /\ \E u \in Authors \ authors :
       /\ NameOf[u] = call[c].who /\ Unseen(u)
       /\ authors' = authors \cup {u}
  /\ Goto(c, "ok")
  /\ UNCHANGED <<points, file, book, used, stray, faults, rows>>

-----------------------------------------------------------------------------
(* memory_admin_remove_author and memory_admin_merge_authors *)

LoadAuthors(c) ==
  /\ At(c, {"remove", "merge"}, "begin")
  /\ Goto(c, IF call[c].from \notin authors \/ (call[c].tool = "merge" /\ call[c].who \notin authors)
             THEN "not_found" ELSE IF call[c].tool = "merge" THEN "points" ELSE "count")
  /\ UNCHANGED <<points, authors, file, book, used, stray, faults, rows>>

CountRows(c) ==
  /\ At(c, {"remove"}, "count")
  /\ Goto(c, IF Owns(call[c].from) THEN "refused" ELSE "count_points")
  /\ UNCHANGED <<points, authors, file, book, used, stray, faults, rows>>

\* MUTANT of CountPoints: only the memories that are live are counted.
CountLivePoints(c) ==
  /\ At(c, {"remove"}, "count_points")
  /\ Goto(c, IF \E i \in Written(call[c].from) : ~Hidden(points[i]) THEN "refused" ELSE "drop")
  /\ UNCHANGED <<points, authors, file, book, used, stray, faults, rows>>

CountPoints(c) ==
  /\ At(c, {"remove"}, "count_points")
  /\ Goto(c, IF Written(call[c].from) # {} THEN "refused" ELSE "drop")
  /\ UNCHANGED <<points, authors, file, book, used, stray, faults, rows>>

\* DELETE FROM authors: Postgres refuses while a row refers to it.
DropAuthor(c) ==
  /\ At(c, {"remove"}, "drop")
  /\ IF References(call[c].from) = {}
     THEN authors' = authors \ {call[c].from} /\ Goto(c, "ok")
     ELSE UNCHANGED authors /\ Goto(c, "error")
  /\ UNCHANGED <<points, file, book, used, stray, faults, rows>>

\* reassign_knowledge_author: every point of the one is the other's.
MovePoints(c) ==
  /\ At(c, {"merge"}, "points")
  /\ points' = [i \in Ids |-> IF i \in Written(call[c].from)
                              THEN [points[i] EXCEPT !.author = call[c].who] ELSE points[i]]
  /\ stray' = IF Leaving(call[c].who) THEN stray \cup Written(call[c].from) ELSE stray
  /\ Goto(c, "rows")
  /\ UNCHANGED <<authors, file, book, used, faults, rows>>

\* merge_author_rows, one transaction: facts, events and deletions are the
\* other's, the author goes.  A proposal keeps it in place, and so does a new
\* author that has gone itself: all is as it was.
Moved(u, v) ==
  {r \in rows : r.author # u} \cup {Row(r.kind, v) : r \in References(u)}
MoveRows(c) ==
  LET u == call[c].from
      v == call[c].who
  IN
  /\ At(c, {"merge"}, "rows")
  /\ IF \/ \E r \in References(u) : r.kind \notin Counted
        \/ Owns(u) /\ v \notin authors
     THEN UNCHANGED <<authors, rows>> /\ Goto(c, "error")
     ELSE rows' = Moved(u, v) /\ authors' = authors \ {u} /\ Goto(c, "ok")
  /\ UNCHANGED <<points, file, book, used, stray, faults>>

-----------------------------------------------------------------------------
Administer(c) ==
  \/ Ask(c) \/ WriteRow(c) \/ LookupName(c) \/ InsertAuthor(c)
  \/ LoadAuthors(c) \/ CountRows(c) \/ CountPoints(c) \/ DropAuthor(c)
  \/ MovePoints(c) \/ MoveRows(c)

Init ==
  /\ MemoryInit /\ rows = {}
  /\ \E U \in SUBSET Authors : /\ \A i \in used : points[i].author \in U
                               /\ authors = U
Next ==
  \/ \E c \in Calls : (Handle(c) /\ UNCHANGED rows) \/ Administer(c)
  \/ \E s \in Sites : ScanOf(s) /\ UNCHANGED rows
  \/ ServiceRestarts /\ UNCHANGED rows
Spec == Init /\ [][Next]_vars

-----------------------------------------------------------------------------
Points == [text: Texts, agent: BOOLEAN, copies: SUBSET (Sites \cup {Own}), author: Authors,
           deleted_by: Authors \cup {None},
           supersedes: Ids \cup {None}, superseded_by: Ids \cup {None}]

Tools == {"none", "ended", "add", "update", "supersede", "delete", "restore", "erase",
          "write", "register", "remove", "merge"}
Steps == {"begin", "author", "get", "check", "owner", "probe", "found", "insert", "vector",
          "write", "mark", "rollback", "exists", "hide", "show", "erase",
          "count", "count_points", "drop", "points", "rows"} \cup Answers
Requests == [tool: Tools, pc: Steps, who: Authors \cup Names \cup {None},
             id: Ids \cup {None}, text: Texts \cup {None}, from: Authors \cup {None, Own},
             read: Points \cup {Absent}, live: BOOLEAN, owner: Authors \cup {None}, new: Ids \cup {None}]

\* What Qdrant, Postgres, the calls and the scans hold is of its kind, the point
\* an update writes from what it once read too.
TypeOK ==
  /\ points \in [Ids -> Points \cup {Absent}]
  /\ authors \subseteq Authors
  /\ file \in [Sites -> [pc: {"idle", "attach", "add", "remove"}, id: Ids \cup {None},
                         read: SUBSET [id: Ids, copies: SUBSET (Sites \cup {Own})]]]
  /\ book \in Sites \cup {None}
  /\ call \in [Calls -> Requests]
  /\ used \subseteq Ids /\ Stored \subseteq used /\ stray \subseteq Ids
  /\ faults \in 0..MaxFaults
  /\ rows \subseteq [kind: Kinds, author: authors]

\* Whatever is superseded, updated, restored and superseded again, in parallel
\* too: if the memory that superseded_by names is there, it says that it
\* supersedes this one.
PointersAgree ==
  \A i \in Stored : points[i].superseded_by \in Stored =>
    points[points[i].superseded_by].supersedes = i

\* A point of an author who is no longer registered was written while a merge or
\* removal of that author was under way, or after it: what both stores held
\* before is moved, or keeps its author registered.
AttributionResolves == \A i \in Stored \ stray : points[i].author \in authors

\* What is deleted or superseded is live again by a restore only, or by an
\* update that had been told it was not deleted (or could not ask).
Shows(c, i) ==
  /\ call[c].id = i
  /\ \/ At(c, {"restore"}, "show")
     \/ At(c, {"update"}, "write") /\ (call[c].live \/ faults > 0)
HiddenStaysHidden ==
  [][\A i \in Stored : (Hidden(points[i]) /\ points'[i] # Absent /\ ~Hidden(points'[i])) =>
       \E c \in Calls : Shows(c, i)]_vars

\* Of memory_delete the specification says that it "MUST be idempotent: a second
\* memory_delete on an already-deleted row succeeds without modifying deleted_at
\* or deleted_by_author_id".  The author of the deletion stands for both.
SecondDeleteChangesNothing ==
  [][\A c \in Calls : (At(c, {"delete"}, "hide") /\ call'[c].pc = "ok"
                       /\ Hidden(points[call[c].id]))
       => points'[call[c].id] = points[call[c].id]]_vars

\* An author whom the listing calls removable ("owns nothing and can be removed
\* outright") is one Postgres lets go.
EmptyIsRemovable ==
  \A u \in authors : (~Owns(u) /\ Written(u) = {}) => References(u) = {}
=============================================================================
