------------------------------- MODULE Knowledge -------------------------------
(***************************************************************************)
(* The knowledge store and the routes that feed it: one Qdrant point per   *)
(* content, with a record of every location (host and file) that holds it. *)
(* An index request attaches its location to the point it finds or queues  *)
(* a job; a worker looks again, then attaches or embeds and inserts; a     *)
(* delete takes one location off every point and drops the points it was   *)
(* the last location of.  Qdrant has no transactions: a mutex in the       *)
(* service keeps these read-modify-writes apart.                           *)
(***************************************************************************)
EXTENDS Sequences, FiniteSets, Naturals

CONSTANTS Sites,        \* locations: a host and a file on it
          Chunks,       \* contents of a point, by content hash
          Ids,          \* point ids
          Workers, Capacity,
          MaxFaults,    \* bound: failed backend calls, dead clients, restarts
          None

Procs == Sites \cup Workers

ASSUME KnowledgeAssumption ==
  /\ Sites \cap Workers = {} /\ Workers # {}
  /\ Capacity \in Nat \ {0} /\ MaxFaults \in Nat
  /\ None \notin Sites \cup Workers \cup Chunks \cup Ids
  /\ None \notin [chunk: Chunks, copies: SUBSET Sites]

VARIABLES points,   \* what Qdrant holds
          book,     \* who holds the bookkeeping mutex
          queue,    \* jobs accepted and not taken
          proc,     \* the request of each site's scanner; each worker
          lost,     \* history: sites with an accepted write that came to nothing
          passed,   \* history: sites whose delete went past a write of their own
          faults    \* faults so far

kvars == <<points, book, queue, proc, lost, passed, faults>>

Point(c, sites) == [chunk |-> c, copies |-> sites]

\* For a site: its request.  For a worker: the job it has.
Local(pc, c, s, i, read) == [pc |-> pc, chunk |-> c, site |-> s, id |-> i, read |-> read]
Resting == Local("idle", None, None, None, {})

Stored == {i \in Ids : points[i] # None}
Holding(c) == {i \in Stored : points[i].chunk = c}
CarriedBy(s) == {i \in Stored : s \in points[i].copies}

\* A site with a job in the queue or with a worker.
Pending(s) ==
  \/ \E i \in DOMAIN queue : queue[i].site = s
  \/ \E w \in Workers : proc[w].pc # "idle" /\ proc[w].site = s

\* A uuid nobody has seen: ids of erased points come back only once forgotten.
Fresh == {i \in Ids \ Stored : \A p \in Procs :
            proc[p].id # i /\ \A r \in proc[p].read : r.id # i}

Goto(p, pc) == proc' = [proc EXCEPT ![p].pc = pc]
Finish(w) == proc' = [proc EXCEPT ![w] = Resting]

KnowledgeInit ==
  /\ points = [i \in Ids |-> None]
  /\ book = None /\ queue = <<>>
  /\ proc = [p \in Procs |-> Resting]
  /\ lost = {} /\ passed = {} /\ faults = 0

-----------------------------------------------------------------------------
(* POST /memory/knowledge/index *)

\* The probe by content hash.  A miss is queued: what others do between the
\* probe and try_enqueue is caught by the worker's own probe.
Probe(s) ==
  LET c == proc[s].chunk IN
  /\ proc[s].pc = "probe"
  /\ \/ /\ \E i \in Holding(c) : proc' = [proc EXCEPT ![s].pc = "attach", ![s].id = i]
        /\ UNCHANGED queue
     \/ /\ Holding(c) = {} /\ Len(queue) < Capacity
        /\ queue' = Append(queue, [chunk |-> c, site |-> s])
        /\ Goto(s, "ok")
     \/ /\ Holding(c) = {} /\ Len(queue) = Capacity
        /\ Goto(s, "busy")
        /\ UNCHANGED queue
  /\ UNCHANGED <<points, book, lost, passed, faults>>

\* What an attach is followed by: the answer, or the worker's get_knowledge.
Attached(p) == Goto(p, IF p \in Sites THEN "ok" ELSE "get")

\* MUTANT of AttachRead: the point is read outside the mutex.
AttachUnlocked(p) ==
  LET i == proc[p].id
      s == proc[p].site
  IN
  /\ proc[p].pc = "attach"
  /\ IF i \notin Stored \/ i \in CarriedBy(s)
     THEN /\ Attached(p)
          /\ lost' = IF i \notin Stored /\ p \in Sites THEN lost \cup {s} ELSE lost
     ELSE /\ proc' = [proc EXCEPT ![p].pc = "write",
                                  ![p].read = {[id |-> i, copies |-> points[i].copies]}]
          /\ UNCHANGED lost
  /\ UNCHANGED <<points, book, queue, passed, faults>>

\* attach_copy, under the mutex: the point is read ...  One that is gone, or has
\* the location already, is left alone; the caller is not told which.
AttachRead(p) ==
  LET i == proc[p].id
      s == proc[p].site
  IN
  /\ proc[p].pc = "attach" /\ book = None
  /\ IF i \notin Stored \/ i \in CarriedBy(s)
     THEN /\ Attached(p)
          /\ lost' = IF i \notin Stored /\ p \in Sites THEN lost \cup {s} ELSE lost
          /\ UNCHANGED book
     ELSE /\ proc' = [proc EXCEPT ![p].pc = "write",
                                  ![p].read = {[id |-> i, copies |-> points[i].copies]}]
          /\ book' = p
          /\ UNCHANGED lost
  /\ UNCHANGED <<points, queue, passed, faults>>

\* ... and its copies are written back with the location added.
AttachWrite(p) ==
  /\ proc[p].pc = "write"
  /\ \E r \in proc[p].read :
       points' = [points EXCEPT ![r.id] =
         IF @ = None THEN None ELSE Point(@.chunk, r.copies \cup {proc[p].site})]
  /\ proc' = [proc EXCEPT ![p].pc = IF p \in Sites THEN "ok" ELSE "get", ![p].read = {}]
  /\ book' = IF book = p THEN None ELSE book
  /\ UNCHANGED <<queue, lost, passed, faults>>

-----------------------------------------------------------------------------
(* A worker: index_knowledge of the composite store *)

Receive(w) ==
  /\ proc[w].pc = "idle" /\ queue # <<>>
  /\ proc' = [proc EXCEPT ![w] = Local("reprobe", Head(queue).chunk, Head(queue).site, None, {})]
  /\ queue' = Tail(queue)
  /\ UNCHANGED <<points, book, lost, passed, faults>>

Reprobe(w) ==
  LET c == proc[w].chunk IN
  /\ proc[w].pc = "reprobe"
  /\ \/ \E i \in Holding(c) : proc' = [proc EXCEPT ![w].pc = "attach", ![w].id = i]
     \/ Holding(c) = {} /\ Goto(w, "insert")
  /\ UNCHANGED <<points, book, queue, lost, passed, faults>>

\* The point is read back; if it has gone meanwhile the worker inserts after all.
GetBack(w) ==
  /\ proc[w].pc = "get"
  /\ IF proc[w].id \in Stored THEN Finish(w)
     ELSE proc' = [proc EXCEPT ![w].pc = "insert", ![w].id = None]
  /\ UNCHANGED <<points, book, queue, lost, passed, faults>>

\* The text is embedded and the point upserted with its one location.
Insert(w) ==
  /\ proc[w].pc = "insert"
  /\ \E i \in Fresh : points' = [points EXCEPT ![i] = Point(proc[w].chunk, {proc[w].site})]
  /\ Finish(w)
  /\ UNCHANGED <<book, queue, lost, passed, faults>>

-----------------------------------------------------------------------------
(* POST /memory/knowledge/delete *)

\* Under the mutex: the points that carry the location are collected ...
Scroll(s) ==
  /\ proc[s].pc = "scroll" /\ book = None
  /\ IF CarriedBy(s) = {}
     THEN Goto(s, "ok") /\ UNCHANGED book
     ELSE /\ proc' = [proc EXCEPT ![s].pc = "remove", ![s].read =
               {[id |-> i, copies |-> points[i].copies] : i \in CarriedBy(s)}]
          /\ book' = s
  /\ passed' = IF Pending(s) THEN passed \cup {s} ELSE passed
  /\ UNCHANGED <<points, queue, lost, faults>>

\* ... and one by one rewritten without it, or erased if it was the last.
Remove(s) ==
  /\ proc[s].pc = "remove"
  /\ \E r \in proc[s].read :
       /\ points' = [points EXCEPT ![r.id] =
            IF @ = None \/ r.copies = {s} THEN None ELSE Point(@.chunk, r.copies \ {s})]
       /\ proc' = [proc EXCEPT ![s].read = @ \ {r},
                               ![s].pc = IF proc[s].read = {r} THEN "ok" ELSE @]
       /\ book' = IF proc[s].read = {r} THEN None ELSE book
  /\ UNCHANGED <<queue, lost, passed, faults>>

-----------------------------------------------------------------------------
(* Faults *)

Answers == {"ok", "busy", "error"}
Serving(s) == proc[s].pc \notin {"idle"} \cup Answers
Fault == faults < MaxFaults /\ faults' = faults + 1
Unlock(p) == book' = IF book = p THEN None ELSE book

\* A call to Qdrant fails, or the answer is lost on its way: a failed request.
RequestFails(s) ==
  /\ Fault
  /\ Serving(s) \/ proc[s].pc = "ok"
  /\ proc' = [proc EXCEPT ![s].pc = "error", ![s].read = {}]
  /\ Unlock(s)
  /\ UNCHANGED <<points, queue, lost, passed>>

\* A call to Qdrant or the embedder fails: the job is counted and dropped.
JobFails(w) ==
  /\ Fault
  /\ proc[w].pc # "idle"
  /\ lost' = lost \cup {proc[w].site}
  /\ Finish(w)
  /\ Unlock(w)
  /\ UNCHANGED <<points, queue, passed>>

\* The service goes down and comes back: requests break, queue and jobs go.
ServiceRestarts ==
  /\ Fault
  /\ lost' = lost \cup {queue[i].site : i \in DOMAIN queue}
                  \cup {proc[w].site : w \in {v \in Workers : proc[v].pc # "idle"}}
  /\ queue' = <<>> /\ book' = None
  /\ proc' = [p \in Procs |->
       IF p \in Workers THEN Resting
       ELSE IF Serving(p) THEN [proc[p] EXCEPT !.pc = "error", !.read = {}] ELSE proc[p]]
  /\ UNCHANGED <<points, passed>>

-----------------------------------------------------------------------------
Serve(s) == Probe(s) \/ AttachRead(s) \/ AttachWrite(s) \/ Scroll(s) \/ Remove(s)
WorkOn(w) ==
  Receive(w) \/ Reprobe(w) \/ AttachRead(w) \/ AttachWrite(w) \/ GetBack(w) \/ Insert(w)

Points == [chunk: Chunks, copies: SUBSET Sites]
Jobs == [chunk: Chunks, site: Sites]
Locals ==
  [pc: {"idle", "probe", "attach", "write", "reprobe", "get", "insert", "scroll",
        "remove"} \cup Answers,
   chunk: Chunks \cup {None}, site: Sites \cup {None}, id: Ids \cup {None},
   read: SUBSET [id: Ids, copies: SUBSET Sites]]

KnowledgeTypeOK ==
  /\ points \in [Ids -> Points \cup {None}]
  /\ book \in Procs \cup {None}
  /\ queue \in Seq(Jobs) /\ Len(queue) <= Capacity
  /\ proc \in [Procs -> Locals]
  /\ lost \subseteq Sites /\ passed \subseteq Sites /\ faults \in 0..MaxFaults
=============================================================================
