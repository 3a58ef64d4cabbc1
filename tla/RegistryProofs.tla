----------------------------- MODULE RegistryProofs -----------------------------
(***************************************************************************)
(* The memories of agents and the registry of their authors, for any       *)
(* number of points, authors, sites and calls.                             *)
(***************************************************************************)
EXTENDS Registry, TLAPS

-----------------------------------------------------------------------------
(* The invariant *)

\* What a call was asked, by its tool, and what it has found out when it comes to use it.
Asks(r) ==
  /\ r.tool \in {"add", "update", "supersede", "delete"} => r.who \in Authors
  /\ r.tool \in {"add", "supersede"} => r.text \in Texts
  /\ r.tool = "add" => r.from \in {None, Own}
  /\ r.tool \in {"update", "supersede", "delete", "restore", "erase"} => r.id \in used
  /\ r.tool = "add" /\ r.pc = "found" => r.id \in used
  /\ r.tool \in {"update", "supersede"} /\ r.pc # "get" => r.read \in Points
  /\ r.tool \notin {"update", "supersede"} => r.read = Absent
  /\ r.tool = "update" /\ r.pc \in {"author", "vector", "write"} => r.owner \in Authors
  /\ r.tool = "supersede" /\ r.pc \in {"mark", "rollback"} => r.new \in used
  /\ r.tool = "remove" => r.from \in Authors
  /\ r.tool = "merge" => r.from \in Authors /\ r.who \in Authors \ {r.from}
Asked == \A c \in Calls : Asks(call[c])

\* An update past its check has been told, or could not ask.
Told ==
  \A c \in Calls : call[c].tool = "update" /\ call[c].pc \in {"owner", "author", "vector", "write"}
                     => call[c].live \/ faults > 0

\* What there is of a memory: the point, and what calls have read of it, which an
\* update may yet write back after the point has changed or gone.
Versions(i) == ({points[i]} \cup {call[c].read : c \in {c \in Calls : call[c].id = i}}) \ {Absent}

\* All versions of a memory supersede the same one, and what a version names as its
\* successor supersedes it in every version.
Lineage ==
  /\ \A i \in Ids : \A p \in Versions(i) : i \in used /\ p.superseded_by \in used \cup {None}
  /\ \A i \in Ids : \A p, q \in Versions(i) : p.supersedes = q.supersedes
  /\ \A i, j \in Ids : \A p \in Versions(i), q \in Versions(j) :
       p.superseded_by = j => q.supersedes = i
  /\ \A c \in Calls : At(c, {"supersede"}, "mark") =>
       \A q \in Versions(call[c].new) : q.supersedes = call[c].id

\* An author about to be dropped has only points that were written meanwhile.
Dropping(c) == At(c, {"merge"}, "rows") \/ At(c, {"remove"}, "drop")
Attributed ==
  /\ AttributionResolves
  /\ \A c \in Calls : Dropping(c) => Written(call[c].from) \subseteq stray

IInv == TypeOK /\ Asked /\ Told /\ Lineage /\ Attributed

-----------------------------------------------------------------------------
(* What the parameters of the model are made of *)

\* A point is not Absent, and neither a mark, a move nor a rewriting makes it so.
LEMMA PointIs ==
  /\ \A p \in Points : p # Absent
  /\ \A t \in Texts, agent \in BOOLEAN, copies \in SUBSET (Sites \cup {Own}), u \in Authors, of \in Ids \cup {None} :
       LET p == Point(t, agent, copies, u, of)
       IN p \in Points /\ p.author = u /\ p.supersedes = of /\ p.superseded_by = None
BY AgentMemoryAssumption DEF Points, Absent, Point

\* A point that is marked as deleted, or shown again, is otherwise what it was.
LEMMA MarkedIs ==
  ASSUME NEW p \in Points, NEW u \in Authors \cup {None}
  PROVE  LET q == [p EXCEPT !.deleted_by = u]
         IN /\ q \in Points /\ q.deleted_by = u /\ q.author = p.author
            /\ q.supersedes = p.supersedes /\ q.superseded_by = p.superseded_by
BY DEF Points

\* A point that is given to another author is otherwise what it was.
LEMMA MovedIs ==
  ASSUME NEW p \in Points, NEW u \in Authors
  PROVE  LET q == [p EXCEPT !.author = u]
         IN /\ q \in Points /\ q.deleted_by = p.deleted_by /\ q.author = u
            /\ q.supersedes = p.supersedes /\ q.superseded_by = p.superseded_by
BY DEF Points

\* A point whose locations change is otherwise what it was.
LEMMA CopiedIs ==
  ASSUME NEW p \in Points, NEW copies \in SUBSET (Sites \cup {Own})
  PROVE  LET q == [p EXCEPT !.copies = copies]
         IN /\ q \in Points /\ q.deleted_by = p.deleted_by /\ q.author = p.author
            /\ q.supersedes = p.supersedes /\ q.superseded_by = p.superseded_by
BY DEF Points

\* What an update writes is what it read, but for the text, the owner and the copies.
LEMMA RewrittenIs ==
  ASSUME NEW c \in Calls, call[c] \in Requests, call[c].read \in Points, call[c].owner \in Authors,
         NEW first \in Canonical(call[c].read.copies)
  PROVE  LET q == Rewritten(c, first)
         IN /\ q \in Points /\ q.author = call[c].owner
            /\ q.supersedes = call[c].read.supersedes /\ q.superseded_by = call[c].read.superseded_by
<1>1. first \in SUBSET (Sites \cup {Own})
  BY DEF Canonical, Points
<1>2. call[c].text \in Texts \cup {None}
  BY DEF Requests
<1> QED
  BY <1>1, <1>2 DEF Rewritten, Points

\* A call begins with the look-up of its author, or of its target.
LEMMA FirstIs ==
  ASSUME NEW tool \in Tools \ {"none", "ended"}
  PROVE  /\ First(tool) \in {"author", "get", "exists", "begin"}
         /\ First(tool) = "author" => tool \in {"add", "delete"}
         /\ tool \in {"update", "supersede"} => First(tool) = "get"
BY DEF First

\* A call not made, or at its end, has read nothing.
LEMMA UnmadeIs ==
  /\ Unmade \in Requests /\ Unmade.tool = "none" /\ Unmade.read = Absent
  /\ \A answer \in Answers : /\ Ended(answer) \in Requests /\ Ended(answer).tool = "ended"
                             /\ Ended(answer).read = Absent
<1>1. /\ First("none") = "begin"
  BY DEF First
<1>2. Unmade \in Requests /\ Unmade.tool = "none" /\ Unmade.read = Absent
  BY <1>1 DEF Unmade, Request, Requests, Tools, Steps
<1>3. ASSUME NEW answer \in Answers
      PROVE  Ended(answer) \in Requests /\ Ended(answer).tool = "ended" /\ Ended(answer).read = Absent
  <2>1. answer \in Steps /\ "ended" \in Tools
    BY <1>3 DEF Steps, Tools
  <2> HIDE DEF Unmade
  <2> QED
    BY <1>2, <2>1 DEF Ended, Requests
<1> QED
  BY <1>2, <1>3

\* A call that goes on is as it was, but for where it is; one that ends forgets all.
LEMMA GotoIs ==
  ASSUME NEW c \in Calls, NEW pc \in Steps, call \in [Calls -> Requests], Goto(c, pc)
  PROVE  /\ call' \in [Calls -> Requests] /\ \A d \in Calls \ {c} : call'[d] = call[d]
         /\ pc \in Answers => call'[c].tool = "ended" /\ call'[c].read = Absent
         /\ pc \notin Answers =>
              /\ call'[c].pc = pc /\ call'[c].tool = call[c].tool /\ call'[c].who = call[c].who
              /\ call'[c].id = call[c].id /\ call'[c].text = call[c].text /\ call'[c].from = call[c].from
              /\ call'[c].read = call[c].read /\ call'[c].live = call[c].live
              /\ call'[c].owner = call[c].owner /\ call'[c].new = call[c].new
<1> DEFINE new == [call[c] EXCEPT !.pc = pc]
<1>1. CASE pc \in Answers
  <2>1. call' = [call EXCEPT ![c] = Ended(pc)]
    BY <1>1 DEF Goto
  <2> QED
    BY <1>1, <2>1, UnmadeIs
<1>2. CASE pc \notin Answers
  <2>1. call' = [call EXCEPT ![c] = new]
    BY <1>2 DEF Goto
  <2>2. /\ new \in Requests /\ new.pc = pc /\ new.tool = call[c].tool /\ new.who = call[c].who
        /\ new.id = call[c].id /\ new.text = call[c].text /\ new.from = call[c].from
        /\ new.read = call[c].read /\ new.live = call[c].live
        /\ new.owner = call[c].owner /\ new.new = call[c].new
    BY DEF Requests
  <2> HIDE DEF new
  <2> QED
    BY <1>2, <2>1, <2>2
<1> QED
  BY <1>1, <1>2

-----------------------------------------------------------------------------
(* What keeps the parts of the invariant *)

\* A call moves: the others ask what they asked.
LEMMA AskedStays ==
  ASSUME Asked, Told, NEW c \in Calls, \A d \in Calls \ {c} : call'[d] = call[d],
         used \subseteq used', faults \in Nat, faults' \in Nat, faults <= faults',
         Asks(call[c])',
         call'[c].tool = "update" /\ call'[c].pc \in {"owner", "author", "vector", "write"}
           => call'[c].live \/ faults' > 0
  PROVE  Asked' /\ Told'
<1>1. ASSUME NEW d \in Calls \ {c} PROVE Asks(call[d])'
  <2>1. Asks(call[d]) /\ call'[d] = call[d]
    BY <1>1 DEF Asked
  <2> QED
    BY <2>1 DEF Asks
<1>2. Told'
  BY DEF Told
<1> QED
  BY <1>1, <1>2 DEF Asked

\* No version is new but in what has nothing to do with the lineage.
LEMMA LineageStays ==
  ASSUME Lineage, Asked, used \subseteq Ids, used \subseteq used',
         \A i \in Ids : \A p \in Versions(i)' : \E q \in Versions(i) :
            q.supersedes = p.supersedes /\ q.superseded_by = p.superseded_by,
         \A c \in Calls : At(c, {"supersede"}, "mark")' =>
            At(c, {"supersede"}, "mark") /\ call'[c].new = call[c].new /\ call'[c].id = call[c].id
  PROVE  Lineage'
<1>1. \A i \in Ids : \A p \in Versions(i)' : i \in used' /\ p.superseded_by \in used' \cup {None}
  BY DEF Lineage
<1>2. \A i \in Ids : \A p, q \in Versions(i)' : p.supersedes = q.supersedes
  BY DEF Lineage
<1>3. ASSUME NEW i \in Ids, NEW j \in Ids, NEW p \in Versions(i)', NEW q \in Versions(j)', p.superseded_by = j
      PROVE  q.supersedes = i
  <2>1. PICK p0 \in Versions(i) : p0.superseded_by = j
    BY <1>3
  <2>2. PICK q0 \in Versions(j) : q0.supersedes = q.supersedes
    BY <1>3
  <2> QED
    BY <2>1, <2>2 DEF Lineage
<1>4. ASSUME NEW c \in Calls, At(c, {"supersede"}, "mark")'
      PROVE  (\A q \in Versions(call[c].new) : q.supersedes = call[c].id)'
  <2>1. At(c, {"supersede"}, "mark") /\ call'[c].new = call[c].new /\ call'[c].id = call[c].id
    BY <1>4
  <2> DEFINE j == call[c].new
  <2>2. j \in Ids
    BY <2>1 DEF Asked, Asks, At
  <2>3. \A q \in Versions(j) : q.supersedes = call[c].id
    BY <2>1 DEF Lineage
  <2>4. \A k \in Ids : (k = call'[c].new) => \A q \in Versions(k)' : q.supersedes = call[c].id
    BY <2>1, <2>3
  <2>5. call'[c].new \in Ids
    BY <2>1, <2>2
  <2> QED
    BY <2>1, <2>4, <2>5
<1> QED
  BY <1>1, <1>2, <1>3, <1>4 DEF Lineage

\* The points stay with their authors, or are written for one who is not leaving, or stray.
LEMMA AttributedStays ==
  ASSUME Attributed, authors \subseteq authors', stray \subseteq stray',
         \A i \in Stored' : \/ i \in Stored /\ points'[i].author = points[i].author
                            \/ i \in stray'
                            \/ ~Leaving(points'[i].author),
         \A d \in Calls : Dropping(d)' => \/ Dropping(d) /\ call'[d].from = call[d].from
                                          \/ \A i \in Stored' : points'[i].author # call'[d].from
  PROVE  Attributed'
<1>1. AttributionResolves'
  BY DEF Attributed, AttributionResolves, Leaving
<1>2. ASSUME NEW d \in Calls, Dropping(d)', NEW i \in Stored', points'[i].author = call'[d].from
      PROVE  i \in stray'
  <2>1. Dropping(d) /\ call'[d].from = call[d].from
    BY <1>2
  <2>2. Leaving(call[d].from)
    BY <2>1 DEF Dropping, Leaving
  <2>3. CASE i \in Stored /\ points'[i].author = points[i].author
    BY <1>2, <2>1, <2>3 DEF Attributed, Written
  <2> QED
    BY <1>2, <2>1, <2>2, <2>3
<1> QED
  BY <1>1, <1>2 DEF Attributed, Written

\* The author who was about to be dropped is.
LEMMA AttributedDrop ==
  ASSUME Attributed, NEW c \in Calls, Dropping(c), authors' = authors \ {call[c].from},
         UNCHANGED <<points, stray>>,
         \A d \in Calls : Dropping(d)' => Dropping(d) /\ call'[d].from = call[d].from
  PROVE  Attributed'
<1>1. Stored' = Stored /\ \A u : Written(u)' = Written(u)
  BY DEF Stored, Written
<1>2. AttributionResolves'
  BY <1>1 DEF Attributed, AttributionResolves, Written
<1> QED
  BY <1>1, <1>2 DEF Attributed

\* What a call has read is what it had read, or the point, or nothing.
LEMMA VersionsShrink ==
  ASSUME NEW c \in Calls, \A d \in Calls \ {c} : call'[d] = call[d], NEW i \in Ids,
         \/ call'[c].read = Absent
         \/ call'[c].id = call[c].id /\ call'[c].read = call[c].read
         \/ call'[c].id \in Ids /\ call'[c].read = points[call'[c].id]
  PROVE  \A p \in Versions(i)' : p \in Versions(i) \/ p = points'[i]
BY DEF Versions

\* A call moves and the stores stay as they are.
LEMMA QuietStep ==
  ASSUME IInv, NEW c \in Calls, UNCHANGED <<points, authors, used, stray>>,
         call' \in [Calls -> Requests], \A d \in Calls \ {c} : call'[d] = call[d],
         file' = file, book' = book, faults' \in 0..MaxFaults, faults <= faults',
         rows' \subseteq [kind : Kinds, author : authors],
         Asks(call[c])',
         call'[c].tool = "update" /\ call'[c].pc \in {"owner", "author", "vector", "write"}
           => call'[c].live \/ faults' > 0,
         \/ call'[c].read = Absent
         \/ call'[c].id = call[c].id /\ call'[c].read = call[c].read
         \/ call'[c].id \in Ids /\ call'[c].read = points[call'[c].id],
         ~At(c, {"supersede"}, "mark")',
         Dropping(c)' => \A i \in Stored : points[i].author # call'[c].from
  PROVE  IInv'
<1>1. TypeOK'
  BY DEF IInv, TypeOK, Stored
<1>2. Stored' = Stored
  BY DEF Stored
<1>3. faults \in Nat /\ faults' \in Nat
  BY AgentMemoryAssumption DEF IInv, TypeOK
<1>4. Asked' /\ Told'
  BY <1>3, AskedStays DEF IInv
<1>5. Lineage'
  <2>1. ASSUME NEW i \in Ids, NEW p \in Versions(i)' PROVE p \in Versions(i)
    <3>1. p \in Versions(i) \/ p = points[i]
      BY <2>1, VersionsShrink
    <3>2. p # Absent
      BY <2>1 DEF Versions, Absent
    <3> QED
      BY <3>1, <3>2 DEF Versions
  <2>2. \A d \in Calls : At(d, {"supersede"}, "mark")' =>
            At(d, {"supersede"}, "mark") /\ call'[d].new = call[d].new /\ call'[d].id = call[d].id
    BY DEF At
  <2> QED
    BY <2>1, <2>2, LineageStays DEF IInv, TypeOK
<1>6. Attributed'
  <2>1. \A i \in Stored' : i \in Stored /\ points'[i].author = points[i].author
    BY <1>2
  <2>2. \A d \in Calls : Dropping(d)' => \/ Dropping(d) /\ call'[d].from = call[d].from
                                         \/ \A i \in Stored' : points'[i].author # call'[d].from
    BY <1>2 DEF Dropping, At
  <2> QED
    BY <2>1, <2>2, AttributedStays DEF IInv
<1> QED
  BY <1>1, <1>4, <1>5, <1>6 DEF IInv

\* A call goes on, with what the next step needs, or ends.
LEMMA GotoStep ==
  ASSUME IInv, NEW c \in Calls, NEW pc \in Steps, Goto(c, pc),
         UNCHANGED <<points, authors, file, book, used, stray>>,
         faults' \in 0..MaxFaults, faults <= faults',
         rows' \subseteq [kind : Kinds, author : authors],
         pc \notin Answers =>
           /\ pc \notin {"get", "found", "mark"}
           /\ call[c].tool \in {"update", "supersede"} => call[c].pc # "get"
           /\ call[c].tool = "update" /\ pc \in {"author", "vector", "write"} => call[c].owner \in Authors
           /\ call[c].tool = "update" /\ pc \in {"owner", "author", "vector", "write"}
                => call[c].live \/ faults' > 0
           /\ call[c].tool = "supersede" /\ pc = "rollback" => call[c].new \in used
           /\ call[c].tool # "merge" \/ pc # "rows"
           /\ call[c].tool = "remove" /\ pc = "drop" => Written(call[c].from) = {}
  PROVE  IInv'
<1>1. call \in [Calls -> Requests] /\ Asks(call[c])
  BY DEF IInv, TypeOK, Asked
<1>2. /\ call' \in [Calls -> Requests] /\ \A d \in Calls \ {c} : call'[d] = call[d]
      /\ pc \in Answers => call'[c].tool = "ended" /\ call'[c].read = Absent
      /\ pc \notin Answers =>
           /\ call'[c].pc = pc /\ call'[c].tool = call[c].tool /\ call'[c].who = call[c].who
           /\ call'[c].id = call[c].id /\ call'[c].text = call[c].text /\ call'[c].from = call[c].from
           /\ call'[c].read = call[c].read /\ call'[c].live = call[c].live
           /\ call'[c].owner = call[c].owner /\ call'[c].new = call[c].new
  BY <1>1, GotoIs
<1>3. CASE pc \in Answers
  <2>1. Asks(call[c])'
    BY <1>2, <1>3 DEF Asks, Absent
  <2>2. ~At(c, {"supersede"}, "mark")' /\ ~Dropping(c)'
    BY <1>2, <1>3 DEF At, Dropping
  <2> QED
    BY <1>2, <1>3, <2>1, <2>2, QuietStep
<1>4. CASE pc \notin Answers
  <2>1. Asks(call[c])'
    BY <1>1, <1>2, <1>4 DEF Asks, Absent
  <2>2. ~At(c, {"supersede"}, "mark")'
    BY <1>2, <1>4 DEF At
  <2>3. Dropping(c)' => \A i \in Stored : points[i].author # call'[c].from
    BY <1>2, <1>4 DEF Dropping, At, Written
  <2> QED
    BY <1>2, <1>4, <2>1, <2>2, <2>3, QuietStep
<1> QED
  BY <1>3, <1>4

\* What the steps below need to know of the state.
LEMMA StateIs ==
  IInv => /\ faults \in 0..MaxFaults /\ faults <= faults /\ rows \subseteq [kind : Kinds, author : authors]
          /\ call \in [Calls -> Requests] /\ \A c \in Calls : Asks(call[c])
          /\ used \subseteq Ids /\ Stored \subseteq used /\ \A i \in Stored : points[i] \in Points
BY AgentMemoryAssumption DEF IInv, TypeOK, Asked, Stored

-----------------------------------------------------------------------------
(* What the calls ask and read *)

\* What a call may be asked.
Meant(tool, who, id, text, from) ==
  /\ tool \in Tools \ {"none", "ended"} /\ who \in Authors \cup Names \cup {None}
  /\ id \in Ids \cup {None} /\ text \in Texts \cup {None} /\ from \in Authors \cup {None, Own}
  /\ tool \in {"add", "update", "supersede", "delete"} => who \in Authors
  /\ tool \in {"add", "supersede"} => text \in Texts
  /\ tool = "add" => from \in {None, Own}
  /\ tool \in {"update", "supersede", "delete", "restore", "erase"} => id \in used
  /\ tool = "remove" => from \in Authors
  /\ tool = "merge" => from \in Authors /\ who \in Authors \ {from}

\* A call is made.
LEMMA MadeStep ==
  ASSUME IInv, NEW c \in Calls, (Begin(c) /\ UNCHANGED rows) \/ Ask(c) PROVE IInv'
<1>1. UNCHANGED <<points, authors, file, book, used, stray, faults, rows>>
  BY DEF Begin, Ask
<1>2. ASSUME NEW tool, NEW who, NEW id, NEW text, NEW from, Meant(tool, who, id, text, from),
             call' = [call EXCEPT ![c] = Request(tool, who, id, text, from)]
      PROVE  IInv'
  <2>0. /\ tool \in Tools \ {"none", "ended"} /\ who \in Authors \cup Names \cup {None}
        /\ id \in Ids \cup {None} /\ text \in Texts \cup {None} /\ from \in Authors \cup {None, Own}
    BY <1>2 DEF Meant
  <2>1. PICK r : r = Request(tool, who, id, text, from)
    OBVIOUS
  <2>2. /\ r \in Requests /\ r.tool = tool /\ r.who = who /\ r.id = id /\ r.text = text /\ r.from = from
        /\ r.read = Absent /\ r.pc \in {"author", "get", "exists", "begin"}
        /\ r.pc = "author" => tool \in {"add", "delete"}
        /\ tool \in {"update", "supersede"} => r.pc = "get"
    BY <2>0, <2>1, FirstIs DEF Request, Requests, Tools, Steps
  <2>3. Asks(r)
    BY <1>2, <2>2 DEF Asks, Meant
  <2>4. /\ call' \in [Calls -> Requests] /\ \A d \in Calls \ {c} : call'[d] = call[d]
        /\ call'[c] = r
    BY <1>2, <2>1, <2>2, StateIs
  <2>5. Asks(call[c])'
    BY <1>1, <2>3, <2>4 DEF Asks, Absent, Points
  <2>6. ~At(c, {"supersede"}, "mark")' /\ ~Dropping(c)'
    BY <2>2, <2>4 DEF At, Dropping
  <2> QED
    BY <1>1, <2>2, <2>4, <2>5, <2>6, StateIs, QuietStep
<1>3. used \subseteq Ids
  BY StateIs
<1>4. ASSUME NEW u \in Authors, NEW t \in Texts, NEW p \in {None, Own},
             call' = [call EXCEPT ![c] = Request("add", u, None, t, p)]
      PROVE  IInv'
  <2>1. Meant("add", u, None, t, p)
    BY <1>4 DEF Meant, Tools
  <2> QED
    BY <1>2, <1>4, <2>1
<1>5. ASSUME NEW u \in Authors, NEW i \in used, NEW t \in Texts \cup {None},
             call' = [call EXCEPT ![c] = Request("update", u, i, t, None)]
      PROVE  IInv'
  <2>1. Meant("update", u, i, t, None)
    BY <1>3, <1>5 DEF Meant, Tools
  <2> QED
    BY <1>2, <1>5, <2>1
<1>6. ASSUME NEW u \in Authors, NEW i \in used, NEW t \in Texts,
             call' = [call EXCEPT ![c] = Request("supersede", u, i, t, None)]
      PROVE  IInv'
  <2>1. Meant("supersede", u, i, t, None)
    BY <1>3, <1>6 DEF Meant, Tools
  <2> QED
    BY <1>2, <1>6, <2>1
<1>7. ASSUME NEW u \in Authors, NEW i \in used, call' = [call EXCEPT ![c] = Request("delete", u, i, None, None)]
      PROVE  IInv'
  <2>1. Meant("delete", u, i, None, None)
    BY <1>3, <1>7 DEF Meant, Tools
  <2> QED
    BY <1>2, <1>7, <2>1
<1>8. ASSUME NEW i \in used, NEW tool \in {"restore", "erase"},
             call' = [call EXCEPT ![c] = Request(tool, None, i, None, None)]
      PROVE  IInv'
  <2>1. Meant(tool, None, i, None, None)
    BY <1>3, <1>8 DEF Meant, Tools
  <2> QED
    BY <1>2, <1>8, <2>1
<1>9. ASSUME NEW u \in Authors, call' = [call EXCEPT ![c] = Request("write", u, None, None, None)]
      PROVE  IInv'
  <2>1. Meant("write", u, None, None, None)
    BY <1>9 DEF Meant, Tools
  <2> QED
    BY <1>2, <1>9, <2>1
<1>10. ASSUME NEW n \in Names, call' = [call EXCEPT ![c] = Request("register", n, None, None, None)]
       PROVE  IInv'
  <2>1. Meant("register", n, None, None, None)
    BY <1>10 DEF Meant, Tools
  <2> QED
    BY <1>2, <1>10, <2>1
<1>11. ASSUME NEW u \in Authors, call' = [call EXCEPT ![c] = Request("remove", None, None, None, u)]
       PROVE  IInv'
  <2>1. Meant("remove", None, None, None, u)
    BY <1>11 DEF Meant, Tools
  <2> QED
    BY <1>2, <1>11, <2>1
<1>12. ASSUME NEW u \in Authors, NEW v \in Authors, u # v,
              call' = [call EXCEPT ![c] = Request("merge", v, None, None, u)]
       PROVE  IInv'
  <2>1. Meant("merge", v, None, None, u)
    BY <1>12 DEF Meant, Tools
  <2> QED
    BY <1>2, <1>12, <2>1
<1>13. CASE Begin(c)
  BY <1>4, <1>5, <1>6, <1>7, <1>8, <1>13 DEF Begin
<1>14. CASE Ask(c)
  BY <1>9, <1>10, <1>11, <1>12, <1>14 DEF Ask
<1> QED
  BY <1>13, <1>14

\* The caller's own row is looked up.
LEMMA LookupStep == ASSUME IInv, NEW c \in Calls, LookupAuthor(c), UNCHANGED rows PROVE IInv'
<1>1. Asks(call[c]) /\ call[c].tool \in {"add", "delete", "update", "supersede"} /\ call[c].pc = "author"
  BY StateIs DEF LookupAuthor, At
<1>2. UNCHANGED <<points, authors, file, book, used, stray, faults>>
  BY DEF LookupAuthor
<1> DEFINE pc == IF call[c].who \in authors THEN AfterAuthor(call[c].tool) ELSE "refused"
<1>3. /\ pc \in Steps /\ pc \in {"probe", "exists", "vector", "insert", "refused"}
      /\ call[c].tool = "supersede" => pc # "vector"
  BY <1>1 DEF AfterAuthor, Steps, Answers
<1>4. Goto(c, pc)
  BY DEF LookupAuthor
<1>5. /\ call[c].tool = "update" => call[c].owner \in Authors /\ (call[c].live \/ faults > 0)
  BY <1>1 DEF Asks, IInv, Told
<1> HIDE DEF pc
<1> QED
  BY <1>1, <1>2, <1>3, <1>4, <1>5, StateIs, GotoStep

\* The target is read.
LEMMA GetStep == ASSUME IInv, NEW c \in Calls, Get(c), UNCHANGED rows PROVE IInv'
<1>1. Asks(call[c]) /\ call[c] \in Requests /\ call[c].tool \in {"update", "supersede"} /\ call[c].id \in used
  BY StateIs DEF Get, At, Asks
<1>2. UNCHANGED <<points, authors, file, book, used, stray, faults>>
  BY DEF Get
<1>3. CASE call[c].id \in Stored
  <2> DEFINE r == [call[c] EXCEPT !.pc = "check", !.read = points[call[c].id]]
  <2>1. call' = [call EXCEPT ![c] = r]
    BY <1>3 DEF Get
  <2>2. points[call[c].id] \in Points
    BY <1>3, StateIs
  <2>3. /\ r \in Requests /\ r.pc = "check" /\ r.read = points[call[c].id] /\ r.tool = call[c].tool
        /\ r.who = call[c].who /\ r.id = call[c].id /\ r.text = call[c].text /\ r.from = call[c].from
    <3>1. "check" \in Steps
      BY DEF Steps
    <3> QED
      BY <1>1, <2>2, <3>1 DEF Requests
  <2> HIDE DEF r
  <2>4. /\ call' \in [Calls -> Requests] /\ \A d \in Calls \ {c} : call'[d] = call[d]
        /\ call'[c] = r
    BY <2>1, <2>3, StateIs
  <2>5. Asks(call[c])'
    BY <1>1, <1>2, <2>2, <2>3, <2>4 DEF Asks
  <2>6. ~At(c, {"supersede"}, "mark")' /\ ~Dropping(c)'
    BY <2>3, <2>4 DEF At, Dropping
  <2> QED
    BY <1>1, <1>2, <2>3, <2>4, <2>5, <2>6, StateIs, QuietStep
<1>4. CASE call[c].id \notin Stored
  <2>1. Goto(c, "not_found") /\ "not_found" \in Steps /\ "not_found" \in Answers
    BY <1>4 DEF Get, Steps, Answers
  <2> QED
    BY <1>2, <2>1, StateIs, GotoStep
<1> QED
  BY <1>3, <1>4

\* A call that goes on with something it found out.
LEMMA FindsStep ==
  ASSUME IInv, NEW c \in Calls, NEW r \in Requests, call' = [call EXCEPT ![c] = r],
         UNCHANGED <<points, authors, file, book, used, stray, faults, rows>>,
         r.tool = call[c].tool, r.who = call[c].who, r.text = call[c].text, r.from = call[c].from,
         r.read = call[c].read, r.new = call[c].new,
         r.id = call[c].id \/ (r.tool = "add" /\ r.id \in used),
         r.pc \in {"owner", "hide", "author"} \/ (r.pc = "found" /\ r.tool = "add" /\ r.id \in used),
         call[c].tool \in {"update", "supersede"} => call[c].pc # "get",
         r.tool = "update" => (r.pc = "author" => r.owner \in Authors) /\ (r.live \/ faults > 0)
  PROVE  IInv'
<1>1. /\ call' \in [Calls -> Requests] /\ \A d \in Calls \ {c} : call'[d] = call[d]
      /\ call'[c] = r /\ Asks(call[c])
  BY StateIs
<1>2. Asks(call[c])'
  BY <1>1 DEF Asks, Absent
<1>3. ~At(c, {"supersede"}, "mark")' /\ ~Dropping(c)'
  BY <1>1 DEF At, Dropping
<1>4. call'[c].read = Absent \/ (call'[c].id = call[c].id /\ call'[c].read = call[c].read)
  BY <1>1 DEF Asks
<1> QED
  BY <1>1, <1>2, <1>3, <1>4, StateIs, QuietStep

\* The target is asked for its state, which an update remembers.
LEMMA CheckStep == ASSUME IInv, NEW c \in Calls, Check(c), UNCHANGED rows PROVE IInv'
<1>1. /\ call[c] \in Requests /\ call[c].tool \in {"update", "supersede"} /\ call[c].pc = "check"
      /\ UNCHANGED <<points, authors, file, book, used, stray, faults>>
  BY StateIs DEF Check, At
<1>2. CASE \E pc \in {"not_found", "refused"} : Goto(c, pc)
  BY <1>1, <1>2, StateIs, GotoStep DEF Answers, Steps
<1>3. CASE ~ \E pc \in {"not_found", "refused"} : Goto(c, pc)
  <2> DEFINE r == [call[c] EXCEPT !.pc = "owner", !.live = TRUE]
  <2>1. call' = [call EXCEPT ![c] = r]
    BY <1>3 DEF Check
  <2>2. /\ r \in Requests /\ r.pc = "owner" /\ r.live = TRUE /\ r.tool = call[c].tool /\ r.who = call[c].who
        /\ r.text = call[c].text /\ r.from = call[c].from /\ r.read = call[c].read /\ r.new = call[c].new
        /\ r.id = call[c].id
    <3>1. "owner" \in Steps
      BY DEF Steps
    <3> QED
      BY <1>1, <3>1 DEF Requests
  <2> HIDE DEF r
  <2> QED
    BY <1>1, <2>1, <2>2, StateIs, FindsStep
<1> QED
  BY <1>2, <1>3

\* The owner is looked up, or passed over.
LEMMA OwnerStep == ASSUME IInv, NEW c \in Calls, Owner(c), UNCHANGED rows PROVE IInv'
<1> DEFINE u == IF call[c].id \in Stored THEN points[call[c].id].author ELSE None
<1> DEFINE owner == IF u = None THEN call[c].who ELSE u
<1>1. /\ call[c] \in Requests /\ call[c].tool \in {"update", "supersede", "delete"} /\ call[c].pc = "owner"
      /\ UNCHANGED <<points, authors, file, book, used, stray, faults, rows>> /\ Asks(call[c])
  BY StateIs DEF Owner, At
<1>2. u \in Authors \cup {None} /\ owner \in Authors
  BY <1>1, StateIs DEF Asks, Points
<1>3. CASE u = call[c].who \/ call[c].who \in Managers
  <2> DEFINE pc == IF call[c].tool = "delete" THEN "hide" ELSE "author"
  <2> DEFINE r == [call[c] EXCEPT !.pc = pc, !.owner = owner]
  <2>1. call' = [call EXCEPT ![c] = r]
    BY <1>3 DEF Owner
  <2>2. pc \in {"hide", "author"} /\ pc \in Steps
    BY DEF Steps
  <2> HIDE DEF pc, owner
  <2>3. /\ r \in Requests /\ r.pc = pc /\ r.owner = owner /\ r.tool = call[c].tool /\ r.who = call[c].who
        /\ r.text = call[c].text /\ r.from = call[c].from /\ r.read = call[c].read /\ r.new = call[c].new
        /\ r.id = call[c].id /\ r.live = call[c].live
    BY <1>1, <1>2, <2>2 DEF Requests
  <2>4. call[c].tool = "update" => call[c].live \/ faults > 0
    BY <1>1 DEF IInv, Told
  <2> HIDE DEF r
  <2> QED
    BY <1>1, <1>2, <2>1, <2>2, <2>3, <2>4, FindsStep
<1>4. CASE ~(u = call[c].who \/ call[c].who \in Managers)
  <2>1. Goto(c, "refused") /\ "refused" \in Answers /\ "refused" \in Steps
    BY <1>4 DEF Owner, Answers, Steps
  <2> QED
    BY <1>1, <2>1, StateIs, GotoStep
<1> QED
  BY <1>3, <1>4

\* The dedupe probe finds a live point with the text, or none.
LEMMA ProbeStep == ASSUME IInv, NEW c \in Calls, Probe(c), UNCHANGED rows PROVE IInv'
<1>1. /\ call[c] \in Requests /\ call[c].tool = "add" /\ call[c].pc = "probe"
      /\ UNCHANGED <<points, authors, file, book, used, stray, faults, rows>>
  BY StateIs DEF Probe, At
<1>2. ASSUME NEW i \in LiveWith(call[c].text), call' = [call EXCEPT ![c].pc = "found", ![c].id = i]
      PROVE  IInv'
  <2> DEFINE r == [call[c] EXCEPT !.pc = "found", !.id = i]
  <2>1. i \in Stored /\ i \in used /\ i \in Ids
    BY StateIs DEF LiveWith, Stored
  <2>2. /\ r \in Requests /\ r.pc = "found" /\ r.id = i /\ r.tool = "add" /\ r.who = call[c].who
        /\ r.text = call[c].text /\ r.from = call[c].from /\ r.read = call[c].read /\ r.new = call[c].new
    <3>1. "found" \in Steps
      BY DEF Steps
    <3> QED
      BY <1>1, <2>1, <3>1 DEF Requests
  <2>3. call' = [call EXCEPT ![c] = r]
    BY <1>2
  <2> HIDE DEF r
  <2> QED
    BY <1>1, <2>1, <2>2, <2>3, FindsStep
<1>3. CASE Goto(c, "insert")
  BY <1>1, <1>3, StateIs, GotoStep DEF Steps, Answers
<1> QED
  BY <1>2, <1>3 DEF Probe

\* The steps that read the stores and go on or end.
LEMMA ReadingStep ==
  ASSUME IInv, NEW c \in Calls,
         \/ (Found(c) \/ Vector(c) \/ Exists(c)) /\ UNCHANGED rows
         \/ LookupName(c) \/ LoadAuthors(c) \/ CountRows(c) \/ CountPoints(c)
  PROVE  IInv'
<1>1. UNCHANGED <<points, authors, file, book, used, stray, faults, rows>>
  BY DEF Found, Vector, Exists, LookupName, LoadAuthors, CountRows, CountPoints
<1>2. CASE Found(c)
  <2>1. PICK pc \in {"ok", "insert"} : Goto(c, pc)
    BY <1>2 DEF Found
  <2>2. call[c].tool = "add"
    BY <1>2 DEF Found, At
  <2> QED
    BY <1>1, <2>1, <2>2, StateIs, GotoStep DEF Steps, Answers
<1>3. CASE Vector(c)
  <2>1. PICK pc \in {"error", "write"} : Goto(c, pc)
    BY <1>3 DEF Vector
  <2>2. call[c].tool = "update" /\ call[c].pc = "vector"
    BY <1>3 DEF Vector, At
  <2>3. call[c].owner \in Authors /\ (call[c].live \/ faults > 0)
    BY <2>2, StateIs DEF IInv, Told, Asks
  <2> QED
    BY <1>1, <2>1, <2>2, <2>3, StateIs, GotoStep DEF Steps, Answers
<1>4. CASE Exists(c)
  <2>1. PICK pc \in {"not_found", "owner", "erase", "show", "refused"} : Goto(c, pc)
    BY <1>4 DEF Exists
  <2>2. call[c].tool \in {"delete", "restore", "erase"}
    BY <1>4 DEF Exists, At
  <2> QED
    BY <1>1, <2>1, <2>2, StateIs, GotoStep DEF Steps, Answers
<1>5. CASE LookupName(c)
  <2>1. PICK pc \in {"ok", "insert"} : Goto(c, pc)
    BY <1>5 DEF LookupName
  <2>2. call[c].tool = "register"
    BY <1>5 DEF LookupName, At
  <2> QED
    BY <1>1, <2>1, <2>2, StateIs, GotoStep DEF Steps, Answers
<1>6. CASE LoadAuthors(c)
  <2>1. PICK pc \in {"not_found", "points", "count"} : Goto(c, pc)
    BY <1>6 DEF LoadAuthors
  <2>2. call[c].tool \in {"remove", "merge"}
    BY <1>6 DEF LoadAuthors, At
  <2> QED
    BY <1>1, <2>1, <2>2, StateIs, GotoStep DEF Steps, Answers
<1>7. CASE CountRows(c)
  <2>1. PICK pc \in {"refused", "count_points"} : Goto(c, pc)
    BY <1>7 DEF CountRows
  <2>2. call[c].tool = "remove"
    BY <1>7 DEF CountRows, At
  <2> QED
    BY <1>1, <2>1, <2>2, StateIs, GotoStep DEF Steps, Answers
<1>8. CASE CountPoints(c)
  <2>1. PICK pc \in {"refused", "drop"} : Goto(c, pc) /\ (pc = "drop" => Written(call[c].from) = {})
    BY <1>8 DEF CountPoints
  <2>2. call[c].tool = "remove"
    BY <1>8 DEF CountPoints, At
  <2> QED
    BY <1>1, <2>1, <2>2, StateIs, GotoStep DEF Steps, Answers
<1> QED
  BY <1>2, <1>3, <1>4, <1>5, <1>6, <1>7, <1>8

\* A row is written for an author who is there, or refused.
LEMMA RowStep == ASSUME IInv, NEW c \in Calls, WriteRow(c) PROVE IInv'
<1>1. UNCHANGED <<points, authors, file, book, used, stray, faults>>
  BY DEF WriteRow
<1>2. PICK pc \in {"ok", "error"} : Goto(c, pc)
  BY DEF WriteRow
<1>3. rows' \subseteq [kind : Kinds, author : authors]
  BY StateIs DEF WriteRow, Row
<1> QED
  BY <1>1, <1>2, <1>3, StateIs, GotoStep DEF Steps, Answers

\* A store call fails before it does anything.
LEMMA FailStep == ASSUME IInv, NEW c \in Calls, CallFails(c), UNCHANGED rows PROVE IInv'
<1>1. /\ UNCHANGED <<points, authors, file, book, used, stray, rows>>
      /\ faults' = faults + 1 /\ faults < MaxFaults /\ MaxFaults \in Nat
  BY AgentMemoryAssumption DEF CallFails, Fault
<1>2. faults' \in 0..MaxFaults /\ faults <= faults' /\ faults' > 0
  BY <1>1, StateIs
<1> DEFINE pc == IF At(c, {"supersede"}, "mark") THEN "rollback"
                 ELSE IF call[c].pc = "check" /\ call[c].read.agent THEN "owner" ELSE "error"
<1>3. Goto(c, pc)
  BY DEF CallFails
<1>4. pc \in Steps /\ pc \in {"rollback", "owner", "error"}
      /\ (pc = "rollback" => call[c].tool = "supersede" /\ call[c].pc = "mark")
      /\ (pc = "owner" => call[c].pc = "check")
  BY DEF Steps, Answers, At
<1>5. pc = "rollback" => call[c].new \in used
  BY <1>4, StateIs DEF Asks
<1> HIDE DEF pc
<1> QED
  BY <1>1, <1>2, <1>3, <1>4, <1>5, StateIs, GotoStep DEF Answers

-----------------------------------------------------------------------------
(* The scanner's side, and what changes points *)

\* Points change, or go, with the text of their lineage and their author as they were;
\* calls stay or end.
LEMMA KeepingStep ==
  ASSUME IInv, TypeOK', UNCHANGED <<authors, used, stray>>, faults <= faults',
         \A c \in Calls : call'[c] = call[c] \/ (call'[c].tool = "ended" /\ call'[c].read = Absent),
         \A i \in Stored' : /\ i \in Stored /\ points'[i].author = points[i].author
                            /\ points'[i].supersedes = points[i].supersedes
                            /\ points'[i].superseded_by = points[i].superseded_by
  PROVE  IInv'
<1>1. Asked'
  BY DEF IInv, Asked, Asks, Absent, Points
<1>2. Told'
  BY AgentMemoryAssumption DEF IInv, Told, TypeOK
<1>3. Lineage'
  <2>1. ASSUME NEW i \in Ids, NEW p \in Versions(i)'
        PROVE  \E q \in Versions(i) : q.supersedes = p.supersedes /\ q.superseded_by = p.superseded_by
    <3>1. p # Absent /\ (p = points'[i] \/ \E c \in Calls : call'[c].id = i /\ call'[c].read = p)
      BY <2>1 DEF Versions, Absent
    <3>2. CASE p = points'[i]
      <4>1. i \in Stored' /\ i \in Stored
        BY <3>1, <3>2 DEF Stored, Absent
      <4>2. points[i] \in Versions(i)
        BY <4>1 DEF Stored, Versions
      <4> QED
        BY <3>2, <4>1, <4>2
    <3>3. CASE \E c \in Calls : call'[c].id = i /\ call'[c].read = p
      BY <3>1, <3>3 DEF Versions
    <3> QED
      BY <3>1, <3>2, <3>3
  <2>2. \A d \in Calls : At(d, {"supersede"}, "mark")' =>
            At(d, {"supersede"}, "mark") /\ call'[d].new = call[d].new /\ call'[d].id = call[d].id
    BY DEF At
  <2> QED
    BY <2>1, <2>2, LineageStays DEF IInv, TypeOK
<1>4. Attributed'
  <2>1. \A d \in Calls : Dropping(d)' => Dropping(d) /\ call'[d].from = call[d].from
    BY DEF Dropping, At
  <2> QED
    BY <2>1, AttributedStays DEF IInv
<1> QED
  BY <1>1, <1>2, <1>3, <1>4 DEF IInv

\* A point is written for the first time.
LEMMA InsertStep ==
  ASSUME IInv, TypeOK', NEW i \in Fresh, NEW p \in Points, points' = [points EXCEPT ![i] = p],
         used' = used \cup {i}, p.superseded_by = None, Strays(i, p.author), UNCHANGED <<authors, faults>>,
         NEW S \in SUBSET Calls, \A d \in Calls \ S : call'[d] = call[d],
         \A c \in S : /\ Asks(call[c])' /\ call'[c].tool # "update" /\ ~Dropping(c)'
                      /\ call'[c].read = Absent \/ (call'[c].id = call[c].id /\ call'[c].read = call[c].read)
                      /\ At(c, {"supersede"}, "mark")' => call'[c].new = i /\ call'[c].id = p.supersedes
  PROVE  IInv'
<1>1. i \in Ids /\ i \notin used /\ used \subseteq Ids /\ Stored \subseteq used /\ i \notin Stored
      /\ points \in [Ids -> Points \cup {Absent}]
  BY StateIs DEF Fresh, IInv, TypeOK
<1>2. points'[i] = p /\ (\A j \in Ids \ {i} : points'[j] = points[j]) /\ Stored' = Stored \cup {i}
  BY <1>1, PointIs DEF Stored, Absent
<1>3. Asked'
  <2>1. ASSUME NEW d \in Calls \ S PROVE Asks(call[d])'
    <3>1. Asks(call[d]) /\ call'[d] = call[d]
      BY <2>1, StateIs
    <3> QED
      BY <3>1 DEF Asks, Absent, Points
  <2> QED
    BY <2>1 DEF Asked
<1>4. Told'
  BY DEF IInv, Told
<1>5. Lineage'
  <2>1. ASSUME NEW j \in Ids \ {i}, NEW q \in Versions(j)' PROVE q \in Versions(j)
    BY <1>2, <2>1 DEF Versions, Absent
  <2>2. ASSUME NEW q \in Versions(i)' PROVE q = p
    <3>1. q # Absent /\ (q = p \/ \E c \in Calls : call'[c].id = i /\ call'[c].read = q)
      BY <1>2, <2>2 DEF Versions, Absent
    <3>2. \A c \in Calls : call'[c].id = i /\ call'[c].read = q => q \in Versions(i)
      BY <3>1 DEF Versions
    <3>3. Versions(i) = {}
      BY <1>1 DEF IInv, Lineage
    <3> QED
      BY <3>1, <3>2, <3>3
  <2>3. \A j \in Ids : \A q \in Versions(j)' : j \in used' /\ q.superseded_by \in used' \cup {None}
    BY <2>1, <2>2 DEF IInv, Lineage
  <2>4. \A j \in Ids : \A q, r \in Versions(j)' : q.supersedes = r.supersedes
    BY <2>1, <2>2 DEF IInv, Lineage
  <2>5. ASSUME NEW j \in Ids, NEW k \in Ids, NEW q \in Versions(j)', NEW r \in Versions(k)', q.superseded_by = k
        PROVE  r.supersedes = j
    <3>1. j # i
      BY <2>2, <2>5, AgentMemoryAssumption
    <3>2. q \in Versions(j) /\ k \in used
      BY <2>1, <2>5, <3>1, AgentMemoryAssumption DEF IInv, Lineage
    <3>3. r \in Versions(k)
      BY <1>1, <2>1, <2>5, <3>2
    <3> QED
      BY <2>5, <3>2, <3>3 DEF IInv, Lineage
  <2>6. ASSUME NEW c \in Calls, At(c, {"supersede"}, "mark")', NEW k, k = call'[c].new
        PROVE  \A q \in Versions(k)' : q.supersedes = call'[c].id
    <3>1. CASE c \in S
      BY <2>2, <2>6, <3>1
    <3>2. CASE c \notin S
      <4>1. call'[c] = call[c] /\ At(c, {"supersede"}, "mark") /\ k = call[c].new
        BY <2>6, <3>2 DEF At
      <4>2. k \in used
        BY <4>1, StateIs DEF Asks, At
      <4>3. \A q \in Versions(k)' : q \in Versions(k)
        BY <1>1, <2>1, <4>2
      <4>4. \A q \in Versions(k) : q.supersedes = call[c].id
        BY <4>1 DEF IInv, Lineage
      <4> QED
        BY <4>1, <4>3, <4>4
    <3> QED
      BY <3>1, <3>2
  <2>7. ASSUME NEW c \in Calls, At(c, {"supersede"}, "mark")'
        PROVE  (\A q \in Versions(call[c].new) : q.supersedes = call[c].id)'
    BY <2>6, <2>7
  <2> QED
    BY <2>3, <2>4, <2>5, <2>7 DEF Lineage
<1>6. Attributed'
  <2>1. p.author \in Authors /\ p.author # None
    BY AgentMemoryAssumption DEF Points
  <2>2. \A d \in Calls : Dropping(d)' => Dropping(d) /\ call'[d].from = call[d].from
    BY DEF Dropping, At
  <2>3. \A j \in Stored' : (j \in Stored /\ points'[j].author = points[j].author)
                           \/ j \in stray' \/ ~Leaving(points'[j].author)
    BY <1>2, <2>1 DEF Strays, Stored
  <2>4. stray \subseteq stray'
    BY DEF Strays
  <2> QED
    BY <2>2, <2>3, <2>4, AttributedStays DEF IInv
<1> QED
  BY <1>3, <1>4, <1>5, <1>6 DEF IInv

\* An add or a supersede stores its point.
LEMMA NewStep == ASSUME IInv, NEW c \in Calls, Insert(c), UNCHANGED rows PROVE IInv'
<1>1. /\ call[c] \in Requests /\ Asks(call[c]) /\ call[c].tool \in {"add", "supersede"} /\ call[c].pc = "insert"
      /\ UNCHANGED <<authors, file, book, faults, rows>>
  BY StateIs DEF Insert, At
<1> DEFINE of == IF call[c].tool = "supersede" THEN call[c].id ELSE None
<1> DEFINE p == Point(call[c].text, TRUE, Located(c), call[c].who, of)
<1>2. PICK i \in Fresh :
        /\ points' = [points EXCEPT ![i] = p] /\ used' = used \cup {i}
        /\ IF call[c].tool = "add" THEN Goto(c, "ok")
           ELSE call' = [call EXCEPT ![c].pc = "mark", ![c].new = i]
        /\ Strays(i, call[c].who)
  BY DEF Insert
<1>3. i \in Ids
  BY DEF Fresh
<1>4. Located(c) \in SUBSET (Sites \cup {Own}) /\ of \in Ids \cup {None}
      /\ (call[c].tool = "supersede" => of = call[c].id)
  BY <1>1, StateIs DEF Located, Asks
<1> HIDE DEF of
<1>5. p \in Points /\ p.author = call[c].who /\ p.supersedes = of /\ p.superseded_by = None
  <2>1. call[c].text \in Texts /\ call[c].who \in Authors
    BY <1>1 DEF Asks
  <2> QED
    BY <1>4, <2>1 DEF Point, Points
<1> HIDE DEF p
<1>6. PICK r \in Requests :
        /\ call' = [call EXCEPT ![c] = r]
        /\ \/ r.tool = "ended" /\ r.read = Absent
           \/ /\ r.tool = "supersede" /\ call[c].tool = "supersede" /\ r.pc = "mark" /\ r.new = i
              /\ r.who = call[c].who /\ r.id = call[c].id /\ r.text = call[c].text /\ r.read = call[c].read
  <2>1. CASE call[c].tool = "add"
    <3>1. call' = [call EXCEPT ![c] = Ended("ok")] /\ "ok" \in Answers
      BY <1>2, <2>1 DEF Goto, Answers
    <3> QED
      BY <3>1, UnmadeIs
  <2>2. CASE call[c].tool = "supersede"
    <3> DEFINE r == [call[c] EXCEPT !.pc = "mark", !.new = i]
    <3>1. call' = [call EXCEPT ![c] = r]
      BY <1>2, <2>2
    <3>2. r \in Requests /\ r.tool = "supersede" /\ r.pc = "mark" /\ r.new = i
          /\ r.who = call[c].who /\ r.id = call[c].id /\ r.text = call[c].text /\ r.read = call[c].read
      <4>1. "mark" \in Steps
        BY DEF Steps
      <4> QED
        BY <1>1, <1>3, <2>2, <4>1 DEF Requests
    <3> HIDE DEF r
    <3> QED
      BY <2>2, <3>1, <3>2
  <2> QED
    BY <1>1, <2>1, <2>2
<1>7. call' \in [Calls -> Requests] /\ call'[c] = r /\ \A d \in Calls \ {c} : call'[d] = call[d]
  BY <1>6, StateIs
<1>8. TypeOK'
  BY <1>1, <1>2, <1>3, <1>5, <1>7, PointIs DEF IInv, TypeOK, Strays, Stored, Fresh
<1>9. Asks(call[c])'
  BY <1>1, <1>2, <1>6, <1>7 DEF Asks, Absent, Points
<1>10. /\ call'[c].tool # "update" /\ ~Dropping(c)'
       /\ call'[c].read = Absent \/ (call'[c].id = call[c].id /\ call'[c].read = call[c].read)
       /\ At(c, {"supersede"}, "mark")' => call'[c].new = i /\ call'[c].id = p.supersedes
  BY <1>4, <1>5, <1>6, <1>7 DEF Dropping, At
<1>11. {c} \in SUBSET Calls
  OBVIOUS
<1>12. Strays(i, p.author)
  BY <1>2, <1>5 DEF Strays
<1>13. \A d \in Calls \ {c} : call'[d] = call[d]
  BY <1>7
<1>14. \A d \in {c} :
         /\ Asks(call[d])' /\ call'[d].tool # "update" /\ ~Dropping(d)'
         /\ call'[d].read = Absent \/ (call'[d].id = call[d].id /\ call'[d].read = call[d].read)
         /\ At(d, {"supersede"}, "mark")' => call'[d].new = i /\ call'[d].id = p.supersedes
  BY <1>9, <1>10
<1> QED
  BY <1>1, <1>2, <1>5, <1>8, <1>11, <1>12, <1>13, <1>14, InsertStep

\* An update writes what it read, with its changes.
LEMMA RewriteStep == ASSUME IInv, NEW c \in Calls, Write(c), UNCHANGED rows PROVE IInv'
<1>1. /\ call[c] \in Requests /\ Asks(call[c]) /\ call[c].tool = "update" /\ call[c].pc = "write"
      /\ UNCHANGED <<authors, file, book, used, faults, rows>> /\ Strays(call[c].id, call[c].owner)
      /\ Goto(c, "ok")
  BY StateIs DEF Write, At
<1>2. call[c].read \in Points /\ call[c].owner \in Authors /\ call[c].id \in used /\ call[c].id \in Ids
  BY <1>1, StateIs DEF Asks
<1>3. PICK first \in Canonical(call[c].read.copies) :
        points' = [points EXCEPT ![call[c].id] = Rewritten(c, first)]
  BY DEF Write
<1>4. PICK i \in Ids : i = call[c].id
  BY <1>2
<1>5. PICK p \in Points : /\ points' = [points EXCEPT ![i] = p] /\ p.author = call[c].owner
                          /\ p.supersedes = call[c].read.supersedes
                          /\ p.superseded_by = call[c].read.superseded_by
  BY <1>1, <1>2, <1>3, <1>4, RewrittenIs
<1>6. points \in [Ids -> Points \cup {Absent}]
  BY DEF IInv, TypeOK
<1>7. points'[i] = p /\ (\A j \in Ids \ {i} : points'[j] = points[j]) /\ Stored' = Stored \cup {i}
  BY <1>5, <1>6, PointIs DEF Stored, Absent
<1>8. /\ call' \in [Calls -> Requests] /\ \A d \in Calls \ {c} : call'[d] = call[d]
      /\ call'[c].tool = "ended" /\ call'[c].read = Absent
  BY <1>1, GotoIs, StateIs DEF Answers, Steps
<1>9. TypeOK'
  BY <1>1, <1>2, <1>4, <1>5, <1>7, <1>8 DEF IInv, TypeOK, Strays
<1>10. Asked' /\ Told'
  <2>1. Asks(call[c])'
    BY <1>8 DEF Asks, Absent
  <2>2. faults \in Nat /\ faults' \in Nat /\ faults <= faults'
    BY <1>1, AgentMemoryAssumption DEF IInv, TypeOK
  <2> QED
    BY <1>1, <1>8, <2>1, <2>2, AskedStays DEF IInv
<1>11. Lineage'
  <2>1. ASSUME NEW j \in Ids, NEW q \in Versions(j)'
        PROVE  \E o \in Versions(j) : o.supersedes = q.supersedes /\ o.superseded_by = q.superseded_by
    <3>1. q # Absent /\ (q = points'[j] \/ \E d \in Calls \ {c} : call'[d].id = j /\ call'[d].read = q)
      BY <1>8, <2>1 DEF Versions, Absent
    <3>2. CASE \E d \in Calls \ {c} : call'[d].id = j /\ call'[d].read = q
      BY <1>8, <3>1, <3>2 DEF Versions
    <3>3. CASE q = points'[j] /\ j # i
      BY <1>7, <3>1, <3>3 DEF Versions
    <3>4. CASE q = points'[j] /\ j = i
      <4>1. call[c].read \in Versions(i)
        BY <1>2, <1>4, PointIs DEF Versions
      <4> QED
        BY <1>5, <1>7, <3>4, <4>1
    <3> QED
      BY <3>1, <3>2, <3>3, <3>4
  <2>2. \A d \in Calls : At(d, {"supersede"}, "mark")' =>
            At(d, {"supersede"}, "mark") /\ call'[d].new = call[d].new /\ call'[d].id = call[d].id
    BY <1>8 DEF At
  <2> QED
    BY <1>1, <2>1, <2>2, StateIs, LineageStays DEF IInv
<1>12. Attributed'
  <2>1. p.author # None
    BY <1>2, <1>5, AgentMemoryAssumption
  <2>2. \A d \in Calls : Dropping(d)' => Dropping(d) /\ call'[d].from = call[d].from
    BY <1>8 DEF Dropping, At
  <2>3. \A j \in Stored' : (j \in Stored /\ points'[j].author = points[j].author)
                           \/ j \in stray' \/ ~Leaving(points'[j].author)
    BY <1>1, <1>4, <1>5, <1>7, <2>1 DEF Strays, Stored
  <2>4. stray \subseteq stray'
    BY <1>1 DEF Strays
  <2> QED
    BY <1>1, <2>2, <2>3, <2>4, AttributedStays DEF IInv
<1> QED
  BY <1>9, <1>10, <1>11, <1>12 DEF IInv

\* A supersede marks the old memory, whether it is told so or not.
LEMMA MarkedStep ==
  ASSUME IInv, NEW c \in Calls, At(c, {"supersede"}, "mark"), call[c].id \in Stored, Superseded(c),
         NEW pc \in {"ok", "rollback"}, Goto(c, pc), UNCHANGED <<authors, file, book, used, stray, rows>>,
         faults' \in 0..MaxFaults, faults <= faults'
  PROVE  IInv'
<1>1. /\ call[c] \in Requests /\ Asks(call[c]) /\ call[c].tool = "supersede" /\ call[c].pc = "mark"
      /\ points \in [Ids -> Points \cup {Absent}]
  BY StateIs DEF At, IInv, TypeOK
<1>2. call[c].who \in Authors /\ call[c].new \in used /\ used \subseteq Ids /\ call[c].read \in Points
  BY <1>1, StateIs DEF Asks
<1>3. PICK i \in Stored : i = call[c].id
  OBVIOUS
<1>4. PICK j \in Ids : j = call[c].new
  BY <1>2
<1>5. i \in Ids /\ points[i] \in Points
  BY StateIs DEF Stored
<1> DEFINE p == [points[i] EXCEPT !.deleted_by = call[c].who, !.superseded_by = j]
<1>6. p \in Points /\ p.author = points[i].author /\ p.supersedes = points[i].supersedes /\ p.superseded_by = j
  BY <1>2, <1>5 DEF Points
<1>7. points' = [points EXCEPT ![i] = p]
  BY <1>1, <1>3, <1>4, <1>5 DEF Superseded
<1> HIDE DEF p
<1>8. points'[i] = p /\ (\A k \in Ids \ {i} : points'[k] = points[k]) /\ Stored' = Stored
  BY <1>1, <1>5, <1>6, <1>7, PointIs DEF Stored, Absent
<1>9. /\ call' \in [Calls -> Requests] /\ \A d \in Calls \ {c} : call'[d] = call[d]
      /\ \/ call'[c].tool = "ended" /\ call'[c].read = Absent
         \/ /\ call'[c].tool = "supersede" /\ call'[c].pc = "rollback" /\ call'[c].who = call[c].who
            /\ call'[c].id = call[c].id /\ call'[c].text = call[c].text
            /\ call'[c].read = call[c].read /\ call'[c].new = call[c].new
  <2>1. pc \in Steps /\ (pc = "ok" <=> pc \in Answers)
    BY DEF Steps, Answers
  <2> QED
    BY <1>1, <2>1, GotoIs, StateIs
<1>10. TypeOK'
  BY <1>6, <1>7, <1>8, <1>9 DEF IInv, TypeOK
<1>11. Asked' /\ Told'
  <2>1. Asks(call[c])'
    BY <1>1, <1>9 DEF Asks, Absent, Points
  <2>2. faults \in Nat /\ faults' \in Nat
    BY AgentMemoryAssumption DEF IInv, TypeOK
  <2> QED
    BY <1>9, <2>1, <2>2, AskedStays DEF IInv
<1>12. Lineage'
  <2>1. points[i] \in Versions(i)
    BY <1>3 DEF Stored, Versions
  <2>2. ASSUME NEW k \in Ids, NEW q \in Versions(k)'
        PROVE  q \in Versions(k) \/ (k = i /\ q = p)
    BY <1>8, <1>9, <2>2 DEF Versions, Absent
  <2>3. \A q \in Versions(j) : q.supersedes = i
    BY <1>1, <1>3, <1>4 DEF IInv, Lineage, At
  <2>4. \A k \in Ids : \A q \in Versions(k)' : k \in used' /\ q.superseded_by \in used' \cup {None}
    BY <1>2, <1>4, <1>6, <2>1, <2>2 DEF IInv, Lineage
  <2>5. \A k \in Ids : \A q, r \in Versions(k)' : q.supersedes = r.supersedes
    BY <1>6, <2>1, <2>2 DEF IInv, Lineage
  <2>6. ASSUME NEW k \in Ids, NEW l \in Ids, NEW q \in Versions(k)', NEW r \in Versions(l)', q.superseded_by = l
        PROVE  r.supersedes = k
    <3>1. PICK r0 \in Versions(l) : r0.supersedes = r.supersedes
      BY <1>6, <2>1, <2>2, <2>6
    <3>2. CASE q \in Versions(k)
      BY <2>6, <3>1, <3>2 DEF IInv, Lineage
    <3>3. CASE k = i /\ q = p
      BY <1>6, <2>3, <2>6, <3>1, <3>3
    <3> QED
      BY <2>2, <2>6, <3>2, <3>3
  <2>7. ASSUME NEW d \in Calls, At(d, {"supersede"}, "mark")'
        PROVE  (\A q \in Versions(call[d].new) : q.supersedes = call[d].id)'
    <3>1. call'[d] = call[d] /\ At(d, {"supersede"}, "mark") /\ d # c
      BY <1>9, <2>7 DEF At
    <3>2. call[d].new \in Ids
      BY <1>2, <3>1, StateIs DEF Asks, At
    <3>3. PICK k \in Ids : k = call[d].new
      BY <3>2
    <3>4. \A q \in Versions(k) : q.supersedes = call[d].id
      BY <3>1, <3>3 DEF IInv, Lineage
    <3>5. \A q \in Versions(k)' : q.supersedes = call[d].id
      BY <1>6, <2>1, <2>2, <3>4
    <3> QED
      BY <3>1, <3>3, <3>5
  <2> QED
    BY <2>4, <2>5, <2>6, <2>7 DEF Lineage
<1>13. Attributed'
  <2>1. \A d \in Calls : Dropping(d)' => Dropping(d) /\ call'[d].from = call[d].from
    BY <1>9 DEF Dropping, At
  <2>2. \A k \in Stored' : k \in Stored /\ points'[k].author = points[k].author
    BY <1>6, <1>8 DEF Stored
  <2> QED
    BY <2>1, <2>2, AttributedStays DEF IInv
<1> QED
  BY <1>10, <1>11, <1>12, <1>13 DEF IInv

\* A supersede that finds the old memory gone takes its new one back.
LEMMA MarkStep == ASSUME IInv, NEW c \in Calls, Mark(c), UNCHANGED rows PROVE IInv'
<1>1. /\ At(c, {"supersede"}, "mark") /\ Asks(call[c]) /\ call[c].new \in used
      /\ UNCHANGED <<authors, file, book, used, stray, faults, rows>>
  BY StateIs DEF Mark, At, Asks
<1>2. CASE call[c].id \in Stored /\ Superseded(c) /\ Goto(c, "ok")
  BY <1>1, <1>2, StateIs, MarkedStep
<1>3. CASE Goto(c, "rollback") /\ UNCHANGED points
  BY <1>1, <1>3, StateIs, GotoStep DEF Steps, Answers, At
<1> QED
  BY <1>2, <1>3 DEF Mark

\* The mark is made, its answer lost: the call rolls its replacement back.
LEMMA UnansweredStep == ASSUME IInv, NEW c \in Calls, MarkUnanswered(c), UNCHANGED rows PROVE IInv'
<1>1. faults' \in 0..MaxFaults /\ faults <= faults'
  BY StateIs, AgentMemoryAssumption DEF MarkUnanswered, Fault
<1> QED
  BY <1>1, MarkedStep DEF MarkUnanswered

\* A deletion is marked or taken back, a point erased.
LEMMA ShownStep ==
  ASSUME IInv, NEW c \in Calls, Rollback(c) \/ Hide(c) \/ Show(c) \/ Erase(c), UNCHANGED rows PROVE IInv'
<1>1. UNCHANGED <<authors, file, book, used, stray, faults, rows>>
  BY DEF Rollback, Hide, Show, Erase
<1>2. points \in [Ids -> Points \cup {Absent}] /\ Asks(call[c]) /\ call[c] \in Requests
  BY StateIs DEF IInv, TypeOK
<1>3. ASSUME NEW pc \in Answers, Goto(c, pc),
             \/ \E i : Erased(i)
             \/ \E i \in Stored : \E u \in Authors \cup {None} : Deleted(i, u)
      PROVE  IInv'
  <2>1. /\ call' \in [Calls -> Requests] /\ \A d \in Calls \ {c} : call'[d] = call[d]
        /\ call'[c].tool = "ended" /\ call'[c].read = Absent
    BY <1>3, GotoIs, StateIs DEF Steps
  <2>2. CASE \E i : Erased(i)
    <3>1. PICK i : points' = [points EXCEPT ![i] = Absent]
      BY <2>2 DEF Erased
    <3>2. TypeOK'
      BY <1>1, <1>2, <2>1, <3>1 DEF IInv, TypeOK, Stored, Absent
    <3>3. \A k \in Stored' : k \in Stored /\ points'[k] = points[k]
      BY <1>2, <3>1 DEF Stored, Absent
    <3> QED
      BY <1>1, <2>1, <3>2, <3>3, StateIs, KeepingStep
  <2>3. CASE \E i \in Stored : \E u \in Authors \cup {None} : Deleted(i, u)
    <3>1. PICK i \in Stored, u \in Authors \cup {None} : points' = [points EXCEPT ![i].deleted_by = u]
      BY <2>3 DEF Deleted
    <3>2. points[i] \in Points /\ i \in Ids
      BY StateIs DEF Stored
    <3> DEFINE p == [points[i] EXCEPT !.deleted_by = u]
    <3>3. p \in Points /\ p.author = points[i].author /\ p.supersedes = points[i].supersedes
          /\ p.superseded_by = points[i].superseded_by
      BY <3>1, <3>2 DEF Points
    <3>4. points' = [points EXCEPT ![i] = p]
      BY <1>2, <3>1, <3>2
    <3> HIDE DEF p
    <3>5. points'[i] = p /\ (\A k \in Ids \ {i} : points'[k] = points[k]) /\ Stored' = Stored
      BY <1>2, <3>2, <3>3, <3>4, PointIs DEF Stored, Absent
    <3>6. TypeOK'
      BY <1>1, <2>1, <3>3, <3>4, <3>5 DEF IInv, TypeOK
    <3>7. \A k \in Stored' : /\ k \in Stored /\ points'[k].author = points[k].author
                             /\ points'[k].supersedes = points[k].supersedes
                             /\ points'[k].superseded_by = points[k].superseded_by
      BY <3>3, <3>5 DEF Stored
    <3> QED
      BY <1>1, <2>1, <3>6, <3>7, StateIs, KeepingStep
  <2> QED
    BY <1>3, <2>2, <2>3
<1>4. CASE Rollback(c)
  BY <1>3, <1>4 DEF Rollback, Answers
<1>5. CASE Erase(c)
  BY <1>3, <1>5 DEF Erase, Answers
<1>6. CASE Goto(c, "error") /\ UNCHANGED points
  BY <1>1, <1>6, StateIs, GotoStep DEF Steps, Answers
<1>7. CASE Hide(c)
  <2>1. call[c].who \in Authors \cup {None}
    BY <1>2, <1>7 DEF Hide, At, Asks
  <2>2. CASE call[c].id \in Stored /\ Deleted(call[c].id, call[c].who) /\ Goto(c, "ok")
    BY <1>3, <2>1, <2>2 DEF Answers
  <2> QED
    BY <1>6, <1>7, <2>2 DEF Hide
<1>8. CASE Show(c)
  <2>1. CASE call[c].id \in Stored /\ Deleted(call[c].id, None) /\ Goto(c, "ok")
    BY <1>3, <2>1 DEF Answers
  <2> QED
    BY <1>6, <1>8, <2>1 DEF Show
<1> QED
  BY <1>4, <1>5, <1>7, <1>8

\* Every point of the one author is the other's: none is left, and none is new for one
\* who is leaving but astray.
LEMMA MoveStep == ASSUME IInv, NEW c \in Calls, MovePoints(c) PROVE IInv'
<1> DEFINE u == call[c].from
           v == call[c].who
<1>1. /\ UNCHANGED <<authors, file, book, used, faults, rows>> /\ Goto(c, "rows")
      /\ call[c] \in Requests /\ Asks(call[c]) /\ call[c].tool = "merge"
      /\ points \in [Ids -> Points \cup {Absent}]
  BY StateIs DEF MovePoints, At, IInv, TypeOK
<1>2. u \in Authors /\ v \in Authors /\ u # v
  BY <1>1 DEF Asks
<1>3. /\ points' = [i \in Ids |-> IF i \in Written(u) THEN [points[i] EXCEPT !.author = v] ELSE points[i]]
      /\ stray' = IF Leaving(v) THEN stray \cup Written(u) ELSE stray
  BY DEF MovePoints
<1> HIDE DEF u, v
<1>4. ASSUME NEW i \in Ids, i \in Written(u)
      PROVE  /\ points'[i] \in Points /\ points'[i].author = v
             /\ points'[i].supersedes = points[i].supersedes /\ points'[i].superseded_by = points[i].superseded_by
  <2>1. points[i] \in Points
    BY <1>4, StateIs DEF Written
  <2> QED
    BY <1>2, <1>3, <1>4, <2>1, MovedIs
<1>5. \A i \in Ids : i \notin Written(u) => points'[i] = points[i]
  BY <1>3
<1>6. Stored' = Stored /\ \A i \in Stored : points'[i].author # u
  BY <1>2, <1>4, <1>5, PointIs DEF Stored, Written, Absent
<1>7. /\ call' \in [Calls -> Requests] /\ \A d \in Calls \ {c} : call'[d] = call[d]
      /\ call'[c].pc = "rows" /\ call'[c].tool = "merge" /\ call'[c].who = v /\ call'[c].from = u
      /\ call'[c].id = call[c].id /\ call'[c].read = call[c].read
  BY <1>1, GotoIs, StateIs DEF Steps, Answers, u, v
<1>8. TypeOK'
  <2>1. points' \in [Ids -> Points \cup {Absent}]
    BY <1>1, <1>3, <1>4, <1>5
  <2>2. stray' \subseteq Ids
    BY <1>3 DEF IInv, TypeOK, Written, Stored
  <2> QED
    BY <1>1, <1>6, <1>7, <2>1, <2>2 DEF IInv, TypeOK
<1>9. Asked' /\ Told'
  <2>1. Asks(call[c])'
    BY <1>1, <1>2, <1>7 DEF Asks, Absent
  <2>2. faults \in Nat /\ faults' \in Nat /\ faults <= faults'
    BY <1>1, AgentMemoryAssumption DEF IInv, TypeOK
  <2> QED
    BY <1>1, <1>7, <2>1, <2>2, AskedStays DEF IInv
<1>10. Lineage'
  <2>1. ASSUME NEW i \in Ids, NEW p \in Versions(i)'
        PROVE  \E q \in Versions(i) : q.supersedes = p.supersedes /\ q.superseded_by = p.superseded_by
    <3>1. p # Absent /\ (p = points'[i] \/ \E d \in Calls : call'[d].id = i /\ call'[d].read = p)
      BY <2>1 DEF Versions, Absent
    <3>2. CASE p = points'[i]
      <4>1. i \in Stored /\ points[i] \in Versions(i)
        BY <1>6, <3>1, <3>2 DEF Stored, Versions, Absent
      <4> QED
        BY <1>4, <1>5, <3>2, <4>1
    <3>3. CASE \E d \in Calls : call'[d].id = i /\ call'[d].read = p
      <4>1. p \in Versions(i)
        BY <1>7, <3>1, <3>3 DEF Versions
      <4> QED
        BY <4>1
    <3> QED
      BY <3>1, <3>2, <3>3
  <2>2. \A d \in Calls : At(d, {"supersede"}, "mark")' =>
            At(d, {"supersede"}, "mark") /\ call'[d].new = call[d].new /\ call'[d].id = call[d].id
    BY <1>7 DEF At
  <2> QED
    BY <1>1, <2>1, <2>2, StateIs, LineageStays DEF IInv
<1>11. Attributed'
  <2>1. \A d \in Calls : Dropping(d)' => \/ Dropping(d) /\ call'[d].from = call[d].from
                                         \/ \A i \in Stored' : points'[i].author # call'[d].from
    BY <1>6, <1>7 DEF Dropping, At
  <2>2. \A i \in Stored' : \/ i \in Stored /\ points'[i].author = points[i].author
                           \/ i \in stray'
                           \/ ~Leaving(points'[i].author)
    BY <1>3, <1>4, <1>5, <1>6 DEF Stored
  <2>3. stray \subseteq stray'
    BY <1>3
  <2> QED
    BY <1>1, <2>1, <2>2, <2>3, AttributedStays DEF IInv
<1> QED
  BY <1>8, <1>9, <1>10, <1>11 DEF IInv

\* An author goes, with nothing in Postgres that refers to it and no point that did not
\* come meanwhile; or stays.
LEMMA DropStep == ASSUME IInv, NEW c \in Calls, DropAuthor(c) \/ MoveRows(c) PROVE IInv'
<1> DEFINE u == call[c].from
<1>1. UNCHANGED <<points, file, book, used, stray, faults>> /\ Dropping(c)
  BY DEF DropAuthor, MoveRows, Dropping
<1>2. CASE Goto(c, "error") /\ UNCHANGED <<authors, rows>>
  BY <1>1, <1>2, StateIs, GotoStep DEF Steps, Answers
<1>3. CASE /\ Goto(c, "ok") /\ authors' = authors \ {u}
           /\ rows' \subseteq [kind : Kinds, author : authors \ {u}]
  <2>1. /\ call' \in [Calls -> Requests] /\ \A d \in Calls \ {c} : call'[d] = call[d]
        /\ call'[c].tool = "ended" /\ call'[c].read = Absent
    BY <1>3, GotoIs, StateIs DEF Steps, Answers
  <2>2. TypeOK'
    BY <1>1, <1>3, <2>1 DEF IInv, TypeOK, Stored
  <2>3. Asked' /\ Told'
    <3>1. Asks(call[c])'
      BY <2>1 DEF Asks, Absent
    <3>2. faults \in Nat /\ faults' \in Nat /\ faults <= faults'
      BY <1>1, AgentMemoryAssumption DEF IInv, TypeOK
    <3> QED
      BY <1>1, <2>1, <3>1, <3>2, AskedStays DEF IInv
  <2>4. Lineage'
    <3>1. ASSUME NEW i \in Ids, NEW p \in Versions(i)' PROVE p \in Versions(i)
      <4>1. p \in Versions(i) \/ p = points[i]
        BY <1>1, <2>1, <3>1, VersionsShrink
      <4>2. p # Absent
        BY <3>1 DEF Versions, Absent
      <4> QED
        BY <4>1, <4>2 DEF Versions
    <3>2. \A d \in Calls : At(d, {"supersede"}, "mark")' =>
            At(d, {"supersede"}, "mark") /\ call'[d].new = call[d].new /\ call'[d].id = call[d].id
      BY <2>1 DEF At
    <3> QED
      BY <1>1, <3>1, <3>2, StateIs, LineageStays DEF IInv
  <2>5. Attributed'
    <3>1. \A d \in Calls : Dropping(d)' => Dropping(d) /\ call'[d].from = call[d].from
      BY <2>1 DEF Dropping, At
    <3> QED
      BY <1>1, <1>3, <3>1, AttributedDrop DEF IInv
  <2> QED
    BY <2>2, <2>3, <2>4, <2>5 DEF IInv
<1>4. CASE DropAuthor(c)
  <2>1. CASE References(u) = {}
    <3>1. rows \subseteq [kind : Kinds, author : authors \ {u}]
      BY <2>1, StateIs DEF References
    <3> QED
      BY <1>3, <1>4, <2>1, <3>1 DEF DropAuthor
  <2>2. CASE References(u) # {}
    BY <1>2, <1>4, <2>2 DEF DropAuthor
  <2> QED
    BY <2>1, <2>2
<1>5. CASE MoveRows(c)
  <2> DEFINE v == call[c].who
  <2>1. CASE \/ \E r \in References(u) : r.kind \notin Counted
             \/ Owns(u) /\ v \notin authors
    BY <1>2, <1>5, <2>1 DEF MoveRows
  <2>2. CASE ~ \/ \E r \in References(u) : r.kind \notin Counted
               \/ Owns(u) /\ v \notin authors
    <3>1. Goto(c, "ok") /\ authors' = authors \ {u} /\ rows' = Moved(u, v)
      BY <1>5, <2>2 DEF MoveRows
    <3>2. u # v
      BY <1>5, StateIs DEF MoveRows, At, Asks
    <3>3. ASSUME NEW r \in References(u) PROVE Row(r.kind, v) \in [kind : Kinds, author : authors \ {u}]
      <4>1. r.kind \in Counted /\ r \in rows
        BY <2>2, <3>3 DEF References
      <4>2. v \in authors
        BY <2>2, <3>3, <4>1 DEF Owns
      <4> QED
        BY <3>2, <4>1, <4>2, StateIs DEF Row
    <3>4. \A r \in rows : r.author # u => r \in [kind : Kinds, author : authors \ {u}]
      BY StateIs
    <3>5. Moved(u, v) \subseteq [kind : Kinds, author : authors \ {u}]
      BY <3>3, <3>4 DEF Moved
    <3> QED
      BY <1>3, <3>1, <3>5
  <2> QED
    BY <2>1, <2>2
<1> QED
  BY <1>4, <1>5

\* An author is registered.
LEMMA RegisteredStep == ASSUME IInv, NEW c \in Calls, InsertAuthor(c) PROVE IInv'
<1>1. UNCHANGED <<points, file, book, used, stray, faults, rows>> /\ Goto(c, "ok")
  BY DEF InsertAuthor
<1>2. authors \subseteq authors' /\ authors' \subseteq Authors
  BY DEF InsertAuthor, IInv, TypeOK
<1>3. /\ call' \in [Calls -> Requests] /\ \A d \in Calls \ {c} : call'[d] = call[d]
      /\ call'[c].tool = "ended" /\ call'[c].read = Absent
  BY <1>1, GotoIs, StateIs DEF Steps, Answers
<1>4. rows' \subseteq [kind : Kinds, author : authors']
  BY <1>1, <1>2, StateIs
<1>5. TypeOK'
  BY <1>1, <1>2, <1>3, <1>4 DEF IInv, TypeOK, Stored
<1>6. Asked' /\ Told'
  <2>1. Asks(call[c])'
    BY <1>3 DEF Asks, Absent
  <2>2. faults \in Nat /\ faults' \in Nat /\ faults <= faults'
    BY <1>1, AgentMemoryAssumption DEF IInv, TypeOK
  <2> QED
    BY <1>1, <1>3, <2>1, <2>2, AskedStays DEF IInv
<1>7. Lineage'
  <2>1. ASSUME NEW i \in Ids, NEW p \in Versions(i)' PROVE p \in Versions(i)
    <3>1. p \in Versions(i) \/ p = points[i]
      BY <1>1, <1>3, <2>1, VersionsShrink
    <3>2. p # Absent
      BY <2>1 DEF Versions, Absent
    <3> QED
      BY <3>1, <3>2 DEF Versions
  <2>2. \A d \in Calls : At(d, {"supersede"}, "mark")' =>
          At(d, {"supersede"}, "mark") /\ call'[d].new = call[d].new /\ call'[d].id = call[d].id
    BY <1>3 DEF At
  <2> QED
    BY <1>1, <2>1, <2>2, StateIs, LineageStays DEF IInv
<1>8. Attributed'
  <2>1. \A d \in Calls : Dropping(d)' => Dropping(d) /\ call'[d].from = call[d].from
    BY <1>3 DEF Dropping, At
  <2>2. \A i \in Stored' : i \in Stored /\ points'[i].author = points[i].author
    BY <1>1 DEF Stored
  <2> QED
    BY <1>1, <1>2, <2>1, <2>2, AttributedStays DEF IInv
<1> QED
  BY <1>5, <1>6, <1>7, <1>8 DEF IInv

\* A scan attaches a location, takes one off, or stores a point.
LEMMA ScanStep == ASSUME IInv, NEW s \in Sites, ScanOf(s), UNCHANGED rows PROVE IInv'
<1> DEFINE Scans == [pc: {"idle", "attach", "add", "remove"}, id: Ids \cup {None},
                     read: SUBSET [id: Ids, copies: SUBSET (Sites \cup {Own})]]
<1>1. /\ file \in [Sites -> Scans] /\ book \in Sites \cup {None}
      /\ points \in [Ids -> Points \cup {Absent}]
  BY DEF IInv, TypeOK
<1>2. ASSUME UNCHANGED <<authors, call, used, stray>>, faults' \in 0..MaxFaults, faults <= faults',
             file' \in [Sites -> Scans], book' \in Sites \cup {None}, points' \in [Ids -> Points \cup {Absent}],
             \A i \in Stored' : /\ i \in Stored /\ points'[i].author = points[i].author
                                /\ points'[i].supersedes = points[i].supersedes
                                /\ points'[i].superseded_by = points[i].superseded_by
      PROVE  IInv'
  <2>1. TypeOK'
    BY <1>2 DEF IInv, TypeOK
  <2> QED
    BY <1>2, <2>1, KeepingStep
<1>3. ASSUME UNCHANGED points PROVE Stored' = Stored
  BY <1>3 DEF Stored
<1>4. \A S \in SUBSET Stored : Collected(S) \in SUBSET [id: Ids, copies: SUBSET (Sites \cup {Own})]
  BY StateIs DEF Collected, Points
<1>5. \A pc \in {"idle", "attach", "add", "remove"}, id \in Ids \cup {None},
         read \in SUBSET [id: Ids, copies: SUBSET (Sites \cup {Own})] : Scan(pc, id, read) \in Scans
  BY DEF Scan
<1>6. Idle \in Scans
  BY DEF Idle, Scan
<1>7. Stored \subseteq Ids
  BY DEF Stored
<1>8. CASE FileRead(s)
  <2>1. UNCHANGED <<points, authors, call, used, stray, faults>>
    BY <1>8 DEF FileRead
  <2>2. CASE file[s].id \in Stored /\ file[s].id \notin Carrying(s)
    <3>1. PICK i \in Stored : i = file[s].id
      BY <2>2
    <3>2. Scan("add", i, Collected({i})) \in Scans
      <4>1. {i} \in SUBSET Stored /\ i \in Ids
        BY <1>7
      <4>2. Collected({i}) \in SUBSET [id: Ids, copies: SUBSET (Sites \cup {Own})]
        BY <1>4, <4>1
      <4> QED
        BY <4>1, <4>2 DEF Scan
    <3>3. book' = s /\ file' = [file EXCEPT ![s] = Scan("add", i, Collected({i}))]
      BY <1>8, <2>2, <3>1 DEF FileRead
    <3> HIDE DEF Scans
    <3> QED
      BY <1>1, <1>2, <1>3, <2>1, <3>2, <3>3, StateIs
  <2>3. CASE ~(file[s].id \in Stored /\ file[s].id \notin Carrying(s))
    <3>1. file' = [file EXCEPT ![s] = Idle] /\ UNCHANGED book
      BY <1>8, <2>3 DEF FileRead
    <3> HIDE DEF Scans
    <3> QED
      BY <1>1, <1>2, <1>3, <1>6, <2>1, <3>1, StateIs
  <2> QED
    BY <2>2, <2>3
<1>9. CASE FileScroll(s)
  <2>1. /\ UNCHANGED <<points, authors, call, used, stray, faults>> /\ book' = s
        /\ file' = [file EXCEPT ![s] = Scan("remove", None, Collected(Carrying(s)))]
    BY <1>9 DEF FileScroll
  <2>2. Collected(Carrying(s)) \in SUBSET [id: Ids, copies: SUBSET (Sites \cup {Own})]
    BY <1>4 DEF Carrying
  <2>3. Scan("remove", None, Collected(Carrying(s))) \in Scans
    BY <2>2 DEF Scan
  <2> HIDE DEF Scans
  <2> QED
    BY <1>1, <1>2, <1>3, <2>1, <2>3, StateIs
<1>10. CASE FileWrite(s)
  <2> DEFINE f(r) == Scan(file[s].pc, file[s].id, file[s].read \ {r})
  <2>1. PICK r \in file[s].read :
          /\ points' = [points EXCEPT ![r.id] =
               IF @ = Absent \/ Left(s, r) = {} THEN Absent ELSE [@ EXCEPT !.copies = Left(s, r)]]
          /\ file' = [file EXCEPT ![s] = IF file[s].read = {r} THEN Idle ELSE f(r)]
          /\ book' = IF file[s].read = {r} THEN None ELSE s
          /\ UNCHANGED <<authors, call, used, stray, faults>>
    BY <1>10 DEF FileWrite
  <2>2. file[s] \in Scans /\ r \in [id: Ids, copies: SUBSET (Sites \cup {Own})]
    BY <1>1, <2>1
  <2>3. PICK i \in Ids : i = r.id
    BY <2>2
  <2>4. Left(s, r) \in SUBSET (Sites \cup {Own})
    BY <2>2 DEF Left
  <2> DEFINE p == IF points[i] = Absent \/ Left(s, r) = {} THEN Absent ELSE [points[i] EXCEPT !.copies = Left(s, r)]
  <2>5. points' = [points EXCEPT ![i] = p]
    BY <2>1, <2>3
  <2>6. p # Absent => /\ p \in Points /\ i \in Stored /\ p.author = points[i].author
                      /\ p.supersedes = points[i].supersedes /\ p.superseded_by = points[i].superseded_by
    BY <1>1, <2>4 DEF Stored, Points
  <2>7. f(r) \in Scans
    BY <1>1, <2>2 DEF Scan
  <2>8. file' = [file EXCEPT ![s] = Idle] \/ file' = [file EXCEPT ![s] = f(r)]
    BY <2>1
  <2> HIDE DEF p, f, Scans
  <2>9. file' \in [Sites -> Scans] /\ book' \in Sites \cup {None}
    BY <1>1, <1>6, <2>1, <2>7, <2>8
  <2>10. points' \in [Ids -> Points \cup {Absent}]
    BY <1>1, <2>5, <2>6
  <2>11. \A k \in Stored' : /\ k \in Stored /\ points'[k].author = points[k].author
                            /\ points'[k].supersedes = points[k].supersedes
                            /\ points'[k].superseded_by = points[k].superseded_by
    BY <1>1, <2>5, <2>6 DEF Stored, Absent
  <2> QED
    BY <1>2, <2>1, <2>9, <2>10, <2>11, StateIs
<1>11. CASE ScanFails(s)
  <2>1. /\ UNCHANGED <<points, authors, call, used, stray>> /\ file' = [file EXCEPT ![s] = Idle]
        /\ book' = IF book = s THEN None ELSE book
        /\ faults < MaxFaults /\ faults' = faults + 1
    BY <1>11 DEF ScanFails, Fault
  <2>2. faults' \in 0..MaxFaults /\ faults <= faults'
    BY <2>1, StateIs, AgentMemoryAssumption
  <2> HIDE DEF Scans
  <2> QED
    BY <1>1, <1>2, <1>3, <1>6, <2>1, <2>2
<1>12. CASE FileIndex(s)
  <2>1. UNCHANGED <<authors, book, call, faults>>
    BY <1>12 DEF FileIndex
  <2>2. ASSUME NEW t \in Texts, NEW i \in LiveWith(t), file' = [file EXCEPT ![s] = Scan("attach", i, {})],
               UNCHANGED <<points, used, stray>>
        PROVE  IInv'
    <3>1. i \in Ids
      BY DEF LiveWith, Stored
    <3>2. Scan("attach", i, {}) \in Scans
      BY <3>1 DEF Scan
    <3> HIDE DEF Scans
    <3> QED
      BY <1>1, <1>2, <1>3, <2>1, <2>2, <3>2, StateIs
  <2>3. ASSUME NEW t \in Texts, NEW i \in Fresh, points' = [points EXCEPT ![i] = Point(t, FALSE, {s}, Scanner, None)],
               used' = used \cup {i}, Strays(i, Scanner), UNCHANGED file
        PROVE  IInv'
    <3> DEFINE p == Point(t, FALSE, {s}, Scanner, None)
    <3>1. p \in Points /\ p.author = Scanner /\ p.superseded_by = None
      BY AgentMemoryAssumption DEF Point, Points
    <3>2. points' = [points EXCEPT ![i] = p]
      BY <2>3
    <3>3. Strays(i, p.author)
      BY <2>3, <3>1
    <3> HIDE DEF p
    <3>4. i \in Ids
      BY DEF Fresh
    <3>5. TypeOK'
      BY <2>1, <2>3, <3>1, <3>2, <3>4 DEF IInv, TypeOK, Strays, Stored
    <3>6. UNCHANGED <<authors, faults>> /\ {} \in SUBSET Calls /\ used' = used \cup {i}
          /\ p.superseded_by = None /\ p \in Points /\ \A d \in Calls \ {} : call'[d] = call[d]
      BY <2>1, <2>3, <3>1
    <3> HIDE DEF IInv, TypeOK, Fresh, Strays, Points
    <3>7. \A d \in {} : /\ Asks(call[d])' /\ call'[d].tool # "update" /\ ~Dropping(d)'
                        /\ call'[d].read = Absent \/ (call'[d].id = call[d].id /\ call'[d].read = call[d].read)
                        /\ At(d, {"supersede"}, "mark")' => call'[d].new = i /\ call'[d].id = p.supersedes
      OBVIOUS
    <3> QED
      BY <3>2, <3>3, <3>5, <3>6, <3>7, InsertStep
  <2> QED
    BY <1>12, <2>2, <2>3 DEF FileIndex
<1> QED
  BY <1>8, <1>9, <1>10, <1>11, <1>12 DEF ScanOf

\* The service restarts: every call that runs ends, every scan is idle.
LEMMA RestartStep == ASSUME IInv, ServiceRestarts, UNCHANGED rows PROVE IInv'
<1>1. /\ UNCHANGED <<points, authors, used, stray, rows>> /\ faults' = faults + 1 /\ faults < MaxFaults
      /\ call' = [c \in Calls |-> IF Running(c) THEN Ended("error") ELSE call[c]]
      /\ file' = [s \in Sites |-> Idle] /\ book' = None
  BY DEF ServiceRestarts, Fault
<1>2. faults' \in 0..MaxFaults /\ faults <= faults'
  BY <1>1, StateIs, AgentMemoryAssumption
<1>3. Ended("error") \in Requests /\ Ended("error").tool = "ended" /\ Ended("error").read = Absent
  BY UnmadeIs DEF Answers
<1>4. /\ call' \in [Calls -> Requests]
      /\ \A c \in Calls : call'[c] = call[c] \/ (call'[c].tool = "ended" /\ call'[c].read = Absent)
  BY <1>1, <1>3, StateIs
<1>5. Stored' = Stored
  BY <1>1 DEF Stored
<1>6. TypeOK'
  <2>1. file' \in [Sites -> [pc: {"idle", "attach", "add", "remove"}, id: Ids \cup {None},
                             read: SUBSET [id: Ids, copies: SUBSET (Sites \cup {Own})]]]
    BY <1>1 DEF Idle, Scan
  <2> QED
    BY <1>1, <1>2, <1>4, <1>5, <2>1 DEF IInv, TypeOK
<1> QED
  BY <1>1, <1>2, <1>4, <1>5, <1>6, KeepingStep

-----------------------------------------------------------------------------
(* The invariant is inductive *)

\* What the program starts with: one memory of a registered author, and nothing under way.
LEMMA InitIInv == Init => IInv
<1> SUFFICES ASSUME Init PROVE IInv
  OBVIOUS
<1>1. PICK i \in Ids, t \in Texts, u \in Authors, copies \in {{}, {Own}} :
        /\ points = [j \in Ids |-> IF j = i THEN Point(t, TRUE, copies, u, None) ELSE Absent]
        /\ used = {i}
  BY DEF Init, MemoryInit
<1>2. /\ file = [s \in Sites |-> Idle] /\ book = None /\ call = [c \in Calls |-> Unmade]
      /\ stray = {} /\ faults = 0 /\ rows = {} /\ authors \subseteq Authors
      /\ \A j \in used : points[j].author \in authors
  BY DEF Init, MemoryInit
<1>3. PICK p : p = Point(t, TRUE, copies, u, None)
  OBVIOUS
<1>3a. p \in Points /\ p.author = u /\ p.supersedes = None /\ p.superseded_by = None
  BY <1>3 DEF Point, Points
<1>3b. p # Absent
  BY <1>3a, PointIs
<1>4. points = [j \in Ids |-> IF j = i THEN p ELSE Absent] /\ Stored = {i}
  BY <1>1, <1>3, <1>3b DEF Stored
<1>5. TypeOK
  <2>1. file \in [Sites -> [pc: {"idle", "attach", "add", "remove"}, id: Ids \cup {None},
                            read: SUBSET [id: Ids, copies: SUBSET (Sites \cup {Own})]]]
    BY <1>2 DEF Idle, Scan
  <2>2. call \in [Calls -> Requests]
    BY <1>2, UnmadeIs
  <2>3. points \in [Ids -> Points \cup {Absent}]
    BY <1>4, <1>3a
  <2>4. faults \in 0..MaxFaults
    BY <1>2, AgentMemoryAssumption
  <2> QED
    BY <1>1, <1>2, <1>4, <2>1, <2>2, <2>3, <2>4 DEF TypeOK
<1>6. Asked /\ Told
  BY <1>2, UnmadeIs DEF Asked, Asks, Told
<1>7. \A j \in Ids : \A q \in Versions(j) : j = i /\ q = p
  BY <1>2, <1>4, <1>3b, UnmadeIs DEF Versions
<1>8. Lineage
  <2>1. \A c \in Calls : ~At(c, {"supersede"}, "mark")
    BY <1>2, UnmadeIs DEF At
  <2> QED
    BY <1>1, <1>3a, <1>7, <2>1, AgentMemoryAssumption DEF Lineage
<1>9. Attributed
  BY <1>1, <1>2, <1>4, UnmadeIs DEF Attributed, AttributionResolves, Dropping, At
<1> QED
  BY <1>5, <1>6, <1>8, <1>9 DEF IInv

\* Nothing happens.
LEMMA StutterStep == ASSUME IInv, UNCHANGED vars PROVE IInv'
<1>1. Stored' = Stored
  BY DEF vars, Stored
<1>2. TypeOK'
  BY <1>1 DEF vars, IInv, TypeOK
<1>3. /\ \A c \in Calls : call'[c] = call[c]
      /\ \A i \in Stored' : points'[i] = points[i]
      /\ UNCHANGED <<authors, used, stray>> /\ faults <= faults'
  BY StateIs DEF vars
<1> QED
  BY <1>1, <1>2, <1>3, KeepingStep

\* Every step of a call, of a scan or of the service keeps the invariant.
LEMMA NextStep == IInv /\ [Next]_vars => IInv'
<1> SUFFICES ASSUME IInv, [Next]_vars PROVE IInv'
  OBVIOUS
<1>1. ASSUME NEW c \in Calls, Handle(c), UNCHANGED rows PROVE IInv'
  BY <1>1, MadeStep, LookupStep, GetStep, CheckStep, OwnerStep, ProbeStep, ReadingStep, NewStep, RewriteStep,
     MarkStep, UnansweredStep, ShownStep, FailStep DEF Handle
<1>2. ASSUME NEW c \in Calls, Administer(c) PROVE IInv'
  BY <1>2, MadeStep, RowStep, ReadingStep, RegisteredStep, DropStep, MoveStep DEF Administer
<1>3. ASSUME NEW s \in Sites, ScanOf(s), UNCHANGED rows PROVE IInv'
  BY <1>3, ScanStep
<1>4. CASE ServiceRestarts /\ UNCHANGED rows
  BY <1>4, RestartStep
<1>5. CASE UNCHANGED vars
  BY <1>5, StutterStep
<1> QED
  BY <1>1, <1>2, <1>3, <1>4, <1>5 DEF Next

\* Whatever happens, the invariant holds.
LEMMA AlwaysIInv == Spec => []IInv
BY InitIInv, NextStep, PTL DEF Spec

-----------------------------------------------------------------------------
(* The theorems *)

\* However updates, supersessions, deletions, restores and erasures run into each
\* other, fail or are cut off by a restart: if the memory that superseded_by names is
\* there, it says that it supersedes this one.
THEOREM PointersStayTrue == Spec => []PointersAgree
<1>1. IInv => PointersAgree
  <2> SUFFICES ASSUME IInv, NEW i \in Stored, points[i].superseded_by \in Stored
               PROVE  points[points[i].superseded_by].supersedes = i
    BY DEF PointersAgree
  <2>1. PICK j \in Stored : j = points[i].superseded_by
    OBVIOUS
  <2>2. i \in Ids /\ j \in Ids /\ points[i] \in Versions(i) /\ points[j] \in Versions(j)
    BY DEF Stored, Versions
  <2> QED
    BY <2>1, <2>2 DEF IInv, Lineage
<1> QED
  BY <1>1, AlwaysIInv, PTL

\* A memory names an author who is no longer registered only if it was written while
\* that author was being merged or removed, or after: the count of a removal and the
\* order of a merge, first the points and then the row, leave nothing else behind.
THEOREM AttributionHolds == Spec => []AttributionResolves
<1>1. IInv => AttributionResolves
  BY DEF IInv, Attributed
<1> QED
  BY <1>1, AlwaysIInv, PTL

\* No step but those two takes a deletion off a memory.
LEMMA CallHides ==
  ASSUME IInv, NEW c \in Calls, Handle(c), NEW i \in Stored,
         Hidden(points[i]), points'[i] # Absent, ~Hidden(points'[i])
  PROVE  Shows(c, i)
<1>1. /\ points \in [Ids -> Points \cup {Absent}] /\ call[c] \in Requests /\ Asks(call[c])
      /\ i \in Ids /\ i \in used /\ used \subseteq Ids /\ points[i] \in Points
  BY StateIs DEF IInv, TypeOK, Stored
<1>2. points'[i] # points[i]
  OBVIOUS
<1>3. CASE Insert(c)
  <2>1. PICK j \in Fresh, p \in {Point(call[c].text, TRUE, Located(c), call[c].who,
              IF call[c].tool = "supersede" THEN call[c].id ELSE None)} : points' = [points EXCEPT ![j] = p]
    BY <1>3 DEF Insert
  <2> QED
    BY <1>1, <1>2, <2>1 DEF Fresh
<1>4. CASE Write(c)
  <2>1. PICK p : points' = [points EXCEPT ![call[c].id] = p]
    BY <1>4 DEF Write
  <2>2. call[c].id = i
    BY <1>1, <1>2, <2>1
  <2>3. At(c, {"update"}, "write") /\ (call[c].live \/ faults > 0)
    BY <1>4 DEF Write, At, IInv, Told
  <2> QED
    BY <2>2, <2>3 DEF Shows
<1>5. ASSUME NEW j, Erased(j) PROVE FALSE
  BY <1>1, <1>2, <1>5 DEF Erased
<1>6. ASSUME NEW j, NEW u, Deleted(j, u) PROVE j = i /\ u = None
  <2>1. PICK p : p = [points[j] EXCEPT !.deleted_by = u]
    OBVIOUS
  <2>2. points' = [points EXCEPT ![j] = p]
    BY <1>6, <2>1 DEF Deleted
  <2>3. j = i /\ points'[i] = p
    BY <1>1, <1>2, <2>2
  <2>4. u = None
    BY <1>1, <2>1, <2>3 DEF Hidden, Points
  <2> QED
    BY <2>3, <2>4
<1>7. ASSUME At(c, {"supersede"}, "mark"), Superseded(c) PROVE FALSE
  <2> DEFINE q == [points[call[c].id] EXCEPT !.deleted_by = call[c].who]
             p == [q EXCEPT !.superseded_by = call[c].new]
  <2>1. points' = [points EXCEPT ![call[c].id] = p]
    BY <1>1, <1>7 DEF Superseded, At, Asks
  <2>2. call[c].id = i /\ points'[i] = p
    BY <1>1, <1>2, <2>1
  <2>3. call[c].who \in Authors
    BY <1>1, <1>7 DEF At, Asks
  <2>4. q \in Points /\ q.deleted_by = call[c].who
    BY <1>1, <2>2, <2>3 DEF Points
  <2>5. p.deleted_by = call[c].who
    BY <2>4 DEF Points
  <2> QED
    BY <2>2, <2>3, <2>5, AgentMemoryAssumption DEF Hidden
<1>8. CASE Hide(c)
  <2>1. call[c].who \in Authors /\ Deleted(call[c].id, call[c].who)
    BY <1>1, <1>2, <1>8 DEF Hide, At, Asks
  <2> QED
    BY <1>6, <2>1, AgentMemoryAssumption
<1>9. CASE Show(c)
  <2>1. Deleted(call[c].id, None) /\ At(c, {"restore"}, "show")
    BY <1>2, <1>9 DEF Show
  <2> QED
    BY <1>6, <2>1 DEF Shows
<1>10. CASE Mark(c) \/ MarkUnanswered(c)
  BY <1>2, <1>7, <1>10 DEF Mark, MarkUnanswered
<1>11. CASE Rollback(c) \/ Erase(c)
  BY <1>5, <1>11 DEF Rollback, Erase
<1>12. CASE \/ Begin(c) \/ LookupAuthor(c) \/ Get(c) \/ Check(c) \/ Owner(c) \/ Probe(c) \/ Found(c)
            \/ Vector(c) \/ Exists(c) \/ CallFails(c)
  BY <1>2, <1>12 DEF Begin, LookupAuthor, Get, Check, Owner, Probe, Found, Vector, Exists, CallFails
<1> QED
  BY <1>3, <1>4, <1>8, <1>9, <1>10, <1>11, <1>12 DEF Handle

\* A scan changes the copies of a memory only, or erases it.
LEMMA ScanHides ==
  ASSUME IInv, NEW s \in Sites, ScanOf(s), NEW i \in Stored, Hidden(points[i]), points'[i] # Absent
  PROVE  Hidden(points'[i])
<1>1. /\ points \in [Ids -> Points \cup {Absent}] /\ i \in Ids /\ i \in used /\ points[i] \in Points
  BY StateIs DEF IInv, TypeOK, Stored
<1>2. CASE FileIndex(s)
  <2>1. CASE UNCHANGED points
    BY <2>1
  <2>2. CASE \E j \in Fresh : \E p : points' = [points EXCEPT ![j] = p]
    BY <1>1, <2>2 DEF Fresh
  <2> QED
    BY <1>2, <2>1, <2>2 DEF FileIndex
<1>3. CASE FileWrite(s)
  <2>1. PICK r \in file[s].read : points' = [points EXCEPT ![r.id] =
               IF points[r.id] = Absent \/ Left(s, r) = {} THEN Absent ELSE [points[r.id] EXCEPT !.copies = Left(s, r)]]
    BY <1>3 DEF FileWrite
  <2>2. CASE points'[i] = points[i]
    BY <2>2
  <2>3. CASE points'[i] = [points[i] EXCEPT !.copies = Left(s, r)]
    BY <1>1, <2>3 DEF Hidden, Points
  <2> QED
    BY <1>1, <2>1, <2>2, <2>3
<1>4. CASE FileRead(s) \/ FileScroll(s) \/ ScanFails(s)
  BY <1>4 DEF FileRead, FileScroll, ScanFails
<1> QED
  BY <1>2, <1>3, <1>4 DEF ScanOf

\* A merge changes the author of a memory only.
LEMMA AdminHides ==
  ASSUME IInv, NEW c \in Calls, Administer(c), NEW i \in Stored, Hidden(points[i])
  PROVE  Hidden(points'[i])
<1>1. i \in Ids /\ points[i] \in Points /\ call[c] \in Requests
  BY StateIs DEF Stored
<1>2. CASE MovePoints(c)
  <2>1. points'[i] = points[i] \/ points'[i] = [points[i] EXCEPT !.author = call[c].who]
    BY <1>1, <1>2 DEF MovePoints
  <2> QED
    BY <1>1, <2>1 DEF Hidden, Points
<1>3. CASE \/ Ask(c) \/ WriteRow(c) \/ LookupName(c) \/ InsertAuthor(c) \/ LoadAuthors(c)
           \/ CountRows(c) \/ CountPoints(c) \/ DropAuthor(c) \/ MoveRows(c)
  <2>1. UNCHANGED points
    BY <1>3 DEF Ask, WriteRow, LookupName, InsertAuthor, LoadAuthors, CountRows, CountPoints, DropAuthor, MoveRows
  <2> QED
    BY <2>1
<1> QED
  BY <1>2, <1>3 DEF Administer

\* What is deleted or superseded comes back to the agents by a restore, or by an
\* update whose check was told that it was not deleted (or could not ask): neither a
\* scan, nor a merge, nor a second deletion, nor an update that saw the deletion in
\* time takes it back.
THEOREM HiddenStays == Spec => HiddenStaysHidden
<1>1. ASSUME IInv, [Next]_vars, NEW i \in Stored, Hidden(points[i]), points'[i] # Absent, ~Hidden(points'[i])
      PROVE  \E c \in Calls : Shows(c, i)
  <2>1. CASE \E c \in Calls : Handle(c)
    BY <1>1, <2>1, CallHides
  <2>2. CASE \E c \in Calls : Administer(c)
    BY <1>1, <2>2, AdminHides
  <2>3. CASE \E s \in Sites : ScanOf(s)
    BY <1>1, <2>3, ScanHides
  <2>4. CASE UNCHANGED points
    BY <1>1, <2>4
  <2> QED
    BY <1>1, <2>1, <2>2, <2>3, <2>4 DEF Next, ServiceRestarts, vars
<1>2. IInv /\ [Next]_vars =>
        [\A i \in Stored : (Hidden(points[i]) /\ points'[i] # Absent /\ ~Hidden(points'[i])) =>
           \E c \in Calls : Shows(c, i)]_vars
  BY <1>1
<1> QED
  BY <1>2, AlwaysIInv, PTL DEF Spec, HiddenStaysHidden
===============================================================================
