----------------------------- MODULE ScannerProofs -----------------------------
(***************************************************************************)
(* What holds of the knowledge store and its scanners for any number of    *)
(* locations, contents, points and workers.  That a location leaves a      *)
(* point only by its own delete rests on the mutex: who is between a read  *)
(* and its write-back holds it (BookHeld), so what was read is still true  *)
(* (ReadTrue).  That a forgotten file has left nothing behind rests on     *)
(* what its delete has still to do (PruneLeft).  That a settled file is    *)
(* stored rests on what its scan and its row promise (Accounted): each     *)
(* chunk of theirs is on a point, in the queue or in a worker's hands, and *)
(* a delete of the file's points comes only when the row is of another     *)
(* content (ClearsOld).                                                    *)
(***************************************************************************)
EXTENDS Scanner, TLAPS

InBook == {"write", "remove"}
AtWork == {"probe", "busy", "attach", "write", "reprobe", "get", "insert"}

\* A request or job under way has its content and its location, a site's request
\* its own; workers only ever index.
HasWork ==
  /\ \A p \in Procs : proc[p].pc \in AtWork => proc[p].chunk \in Chunks /\ proc[p].site \in Sites
  /\ \A s \in Sites : proc[s].pc \in AtWork => proc[s].site = s
  /\ \A w \in Workers : proc[w].pc \in {"idle", "attach", "write", "reprobe", "get", "insert"}

\* Who is between a read and its write-back holds the mutex.
BookHeld == \A p \in Procs : proc[p].pc \in InBook => book = p

\* What was read under the mutex is still what Qdrant has.
ReadTrue ==
  \A p \in Procs : proc[p].pc \in InBook =>
    \A r \in proc[p].read : points[r.id] # None /\ points[r.id].copies = r.copies

\* A delete for a vanished file that went past no write of the file has read
\* every point that still carries it, and no such write is on its way.
DeleteLeft(s) ==
  /\ proc[s].pc \in {"scroll", "remove", "ok", "error"}
  /\ s \notin passed /\ proc[s].pc \in {"remove", "ok"} => ~Pending(s)
  /\ s \notin passed /\ proc[s].pc = "remove" => CarriedBy(s) \subseteq {r.id : r \in proc[s].read}
  /\ s \notin passed /\ proc[s].pc = "ok" => CarriedBy(s) = {}
PruneLeft == \A s \in Sites : scan[s].pc = "prune" => DeleteLeft(s)

IInv == TypeOK /\ HasWork /\ BookHeld /\ ReadTrue /\ PruneLeft

-----------------------------------------------------------------------------
(* Sequences *)

\* try_enqueue puts the job behind all that is queued.
LEMMA AppendFacts ==
  ASSUME NEW S, NEW q \in Seq(S), NEW e \in S
  PROVE  /\ Append(q, e) \in Seq(S) /\ Len(Append(q, e)) = Len(q) + 1
         /\ \A k \in DOMAIN Append(q, e) :
               Append(q, e)[k] = e \/ (k \in DOMAIN q /\ Append(q, e)[k] = q[k])
OBVIOUS

\* recv takes the job at the head and leaves the others.
LEMMA TailFacts ==
  ASSUME NEW S, NEW q \in Seq(S), q # <<>>
  PROVE  /\ Tail(q) \in Seq(S) /\ Len(Tail(q)) = Len(q) - 1 /\ Len(q) \in Nat
         /\ 1 \in DOMAIN q /\ Head(q) = q[1] /\ Head(q) \in S
         /\ \A k \in DOMAIN Tail(q) : k + 1 \in DOMAIN q /\ Tail(q)[k] = q[k + 1]
OBVIOUS

\* Jobs are of known contents and locations.
LEMMA QueueType ==
  ASSUME KnowledgeTypeOK, NEW k \in DOMAIN queue
  PROVE  queue[k].chunk \in Chunks /\ queue[k].site \in Sites
<1>1. queue[k] \in Jobs
  BY DEF KnowledgeTypeOK
<1> QED
  BY <1>1 DEF Jobs

\* The number of faults stays within its bound.
LEMMA FaultType ==
  ASSUME KnowledgeTypeOK, Fault
  PROVE  faults' \in 0..MaxFaults
BY KnowledgeAssumption DEF KnowledgeTypeOK, Fault

\* What a file holds, if it is there, is a set of chunks.
LEMMA ContentType ==
  ASSUME TypeOK, NEW s \in Sites, Content(s) # Gone
  PROVE  Content(s) \in SUBSET Chunks
<1>1. Versions[s] \in Seq({Gone} \cup SUBSET Chunks) /\ mtime[s] \in DOMAIN Versions[s]
  BY ScannerAssumption DEF TypeOK
<1>2. Versions[s][mtime[s]] \in {Gone} \cup SUBSET Chunks
  BY <1>1
<1> QED
  BY <1>2 DEF Content

-----------------------------------------------------------------------------
(* Types *)

\* Every step of the service keeps the shape of what it holds.
LEMMA ServiceTypeOK ==
  ASSUME KnowledgeTypeOK, HasWork, ServiceStep
  PROVE  KnowledgeTypeOK'
<1> USE DEF KnowledgeTypeOK, Procs, Answers, Points, Jobs, Locals
<1>1. ASSUME NEW s \in Sites, Probe(s) PROVE KnowledgeTypeOK'
  <2>1. proc[s].chunk \in Chunks
    BY <1>1 DEF Probe, HasWork, AtWork
  <2>2. proc' \in [Procs -> Locals]
    <3>1. ASSUME NEW i \in Holding(proc[s].chunk), proc' = [proc EXCEPT ![s].pc = "attach", ![s].id = i]
          PROVE  proc' \in [Procs -> Locals]
      <4> DEFINE l == [proc[s] EXCEPT !.pc = "attach", !.id = i]
      <4>1. i \in Ids /\ proc[s] \in Locals
        BY DEF Holding, Stored
      <4>2. l \in Locals
        BY <4>1
      <4>3. proc' = [proc EXCEPT ![s] = l]
        BY <3>1
      <4> HIDE DEF l, Locals
      <4> QED
        BY <4>2, <4>3
    <3>2. ASSUME NEW pc \in {"ok", "busy"}, Goto(s, pc) PROVE proc' \in [Procs -> Locals]
      BY <3>2 DEF Goto
    <3> QED
      BY <1>1, <3>1, <3>2 DEF Probe
  <2>3. queue' \in Seq(Jobs) /\ Len(queue') <= Capacity
    <3> DEFINE job == [chunk |-> proc[s].chunk, site |-> s]
    <3>1. job \in Jobs
      BY <2>1
    <3>2. queue' = queue \/ (Len(queue) < Capacity /\ queue' = Append(queue, job))
      BY <1>1 DEF Probe
    <3>3. queue \in Seq(Jobs) /\ Len(queue) <= Capacity /\ Len(queue) \in Nat
      OBVIOUS
    <3> HIDE DEF job, Jobs
    <3> QED
      <4>1. Append(queue, job) \in Seq(Jobs) /\ Len(Append(queue, job)) = Len(queue) + 1
        BY <3>1, <3>3, AppendFacts
      <4>2. Capacity \in Nat
        BY KnowledgeAssumption
      <4> HIDE DEF KnowledgeTypeOK, Points, Locals
      <4> QED
        BY <3>2, <3>3, <4>1, <4>2
  <2> QED
    BY <1>1, <2>2, <2>3 DEF Probe
<1>2. ASSUME NEW p \in Procs, AttachRead(p) PROVE KnowledgeTypeOK'
  <2>1. proc[p].site \in Sites
    BY <1>2 DEF AttachRead, HasWork, AtWork
  <2>2. CASE proc[p].id \notin Stored \/ proc[p].id \in CarriedBy(proc[p].site)
    BY <1>2, <2>1, <2>2 DEF AttachRead, Attached, Goto, HasWork, AtWork
  <2>3. CASE ~(proc[p].id \notin Stored \/ proc[p].id \in CarriedBy(proc[p].site))
    BY <1>2, <2>3 DEF AttachRead, Stored
  <2> QED
    BY <2>2, <2>3
<1>3. ASSUME NEW p \in Procs, AttachWrite(p) PROVE KnowledgeTypeOK'
  <2>1. proc[p].site \in Sites
    BY <1>3 DEF AttachWrite, HasWork, AtWork
  <2>2. PICK r \in proc[p].read :
           points' = [points EXCEPT ![r.id] =
             IF @ = None THEN None ELSE Point(@.chunk, r.copies \cup {proc[p].site})]
    BY <1>3 DEF AttachWrite
  <2>3. points' \in [Ids -> Points \cup {None}]
    BY <2>1, <2>2 DEF Point
  <2> QED
    BY <1>3, <2>3 DEF AttachWrite
<1>4. ASSUME NEW s \in Sites, Scroll(s) PROVE KnowledgeTypeOK'
  <2>1. {[id |-> i, copies |-> points[i].copies] : i \in CarriedBy(s)}
          \in SUBSET [id: Ids, copies: SUBSET Sites]
    BY DEF CarriedBy, Stored
  <2>2. proc' \in [Procs -> Locals]
    <3> DEFINE read == {[id |-> i, copies |-> points[i].copies] : i \in CarriedBy(s)}
    <3>1. proc' = [proc EXCEPT ![s].pc = "ok"] \/ proc' = [proc EXCEPT ![s].pc = "remove", ![s].read = read]
      BY <1>4 DEF Scroll, Goto
    <3>2. read \in SUBSET [id: Ids, copies: SUBSET Sites]
      BY <2>1
    <3> HIDE DEF read
    <3> QED
      BY <3>1, <3>2
  <2> QED
    BY <1>4, <2>2 DEF Scroll
<1>5. ASSUME NEW s \in Sites, Remove(s) PROVE KnowledgeTypeOK'
  <2>1. PICK r \in proc[s].read :
       /\ points' = [points EXCEPT ![r.id] =
            IF @ = None \/ r.copies = {s} THEN None ELSE Point(@.chunk, r.copies \ {s})]
       /\ proc' = [proc EXCEPT ![s].read = @ \ {r},
                               ![s].pc = IF proc[s].read = {r} THEN "ok" ELSE @]
       /\ book' = IF proc[s].read = {r} THEN None ELSE book
    BY <1>5 DEF Remove
  <2>2. points' \in [Ids -> Points \cup {None}]
    BY <2>1 DEF Point
  <2>3. proc' \in [Procs -> Locals]
    <3>1. proc[s] \in Locals /\ s \in Procs
      OBVIOUS
    <3> DEFINE pc == IF proc[s].read = {r} THEN "ok" ELSE proc[s].pc
               left == proc[s].read \ {r}
    <3>2. pc \in {proc[s].pc, "ok"} /\ left \subseteq proc[s].read
      OBVIOUS
    <3>3. proc' = [proc EXCEPT ![s].read = left, ![s].pc = pc]
      BY <2>1
    <3> HIDE DEF pc, left
    <3> QED
      BY <3>1, <3>2, <3>3
  <2> QED
    BY <1>5, <2>1, <2>2, <2>3 DEF Remove
<1>6. ASSUME NEW s \in Sites, RequestFails(s) PROVE KnowledgeTypeOK'
  <2>1. proc' \in [Procs -> Locals]
    <3> DEFINE pc == "error"
               left == {}
    <3>1. proc[s] \in Locals /\ s \in Procs
      OBVIOUS
    <3>2. pc \in Answers /\ left \subseteq proc[s].read
      OBVIOUS
    <3>3. proc' = [proc EXCEPT ![s].pc = pc, ![s].read = left]
      BY <1>6 DEF RequestFails
    <3> HIDE DEF pc, left
    <3> QED
      BY <3>1, <3>2, <3>3
  <2>2. book' \in Procs \cup {None} /\ faults' \in 0..MaxFaults
    BY <1>6, FaultType DEF RequestFails, Unlock
  <2> QED
    BY <1>6, <2>1, <2>2 DEF RequestFails
<1>7. ASSUME NEW w \in Workers, Receive(w) PROVE KnowledgeTypeOK'
  <2>1. /\ Tail(queue) \in Seq(Jobs) /\ Len(Tail(queue)) = Len(queue) - 1
        /\ Len(queue) \in Nat /\ Head(queue) \in Jobs
    BY <1>7, TailFacts DEF Receive
  <2> QED
    BY <1>7, <2>1, KnowledgeAssumption DEF Receive, Local
<1>8. ASSUME NEW w \in Workers, Reprobe(w) PROVE KnowledgeTypeOK'
  BY <1>8 DEF Reprobe, Goto, Holding, Stored
<1>9. ASSUME NEW w \in Workers, GetBack(w) PROVE KnowledgeTypeOK'
  BY <1>9 DEF GetBack, Finish, Resting, Local
<1>10. ASSUME NEW w \in Workers, Insert(w) PROVE KnowledgeTypeOK'
  <2>1. proc[w].chunk \in Chunks /\ proc[w].site \in Sites
    BY <1>10 DEF Insert, HasWork, AtWork
  <2>2. points' \in [Ids -> Points \cup {None}]
    BY <1>10, <2>1 DEF Insert, Point, Fresh
  <2> QED
    BY <1>10, <2>2 DEF Insert, Finish, Resting, Local
<1>11. ASSUME NEW w \in Workers, JobFails(w) PROVE KnowledgeTypeOK'
  <2>1. proc[w].site \in Sites
    BY <1>11 DEF JobFails, HasWork, AtWork
  <2> QED
    BY <1>11, <2>1, KnowledgeAssumption DEF JobFails, Fault, Unlock, Finish, Resting, Local
<1>12. CASE ServiceRestarts
  <2>1. lost' \subseteq Sites
    <3>1. \A i \in DOMAIN queue : queue[i].site \in Sites
      BY QueueType
    <3>2. \A w \in Workers : proc[w].pc # "idle" => proc[w].site \in Sites
      BY DEF HasWork, AtWork
    <3> QED
      BY <1>12, <3>1, <3>2 DEF ServiceRestarts
  <2>2. proc' \in [Procs -> Locals]
    <3>1. ASSUME NEW p \in Procs PROVE proc'[p] \in Locals
      <4>1. CASE p \in Workers
        BY <1>12, <4>1 DEF ServiceRestarts, Resting, Local
      <4>2. CASE p \notin Workers /\ Serving(p)
        <5> DEFINE l == [proc[p] EXCEPT !.pc = "error", !.read = {}]
        <5>1. l \in Locals
          <6>1. proc[p] \in Locals /\ {} \in SUBSET [id: Ids, copies: SUBSET Sites]
            OBVIOUS
          <6> HIDE DEF KnowledgeTypeOK, Procs
          <6> QED
            BY <6>1
        <5>2. proc'[p] = l
          BY <1>12, <4>2 DEF ServiceRestarts
        <5> HIDE DEF l, Locals
        <5> QED
          BY <5>1, <5>2
      <4>3. CASE p \notin Workers /\ ~Serving(p)
        BY <1>12, <4>3 DEF ServiceRestarts
      <4> QED
        BY <4>1, <4>2, <4>3
    <3> QED
      BY <1>12, <3>1 DEF ServiceRestarts
  <2>3. queue' \in Seq(Jobs) /\ Len(queue') <= Capacity
    <3>1. queue' = <<>> /\ Capacity \in Nat
      BY <1>12, KnowledgeAssumption DEF ServiceRestarts
    <3> HIDE DEF Jobs
    <3> QED
      BY <3>1
  <2>4. book' = None /\ faults' \in 0..MaxFaults /\ UNCHANGED <<points, passed>>
    BY <1>12, FaultType DEF ServiceRestarts
  <2> QED
    BY <2>1, <2>2, <2>3, <2>4
<1> QED
  BY <1>1, <1>2, <1>3, <1>4, <1>5, <1>6, <1>7, <1>8, <1>9, <1>10, <1>11, <1>12
     DEF ServiceStep, Serve, WorkOn

\* What a step of a scanner may do to its request: leave it, end it, ask for a
\* delete, or ask for a chunk of its own location to be indexed.
OwnRequest(s) ==
  \/ proc' = proc
  \/ \E l \in Locals :
       /\ proc' = [proc EXCEPT ![s] = l]
       /\ l.pc \in {"idle", "scroll", "probe"}
       /\ l.pc = "probe" => l.chunk \in Chunks /\ l.site = s

\* A scanner touches nothing of the service but its own request.
LEMMA ScanFrame ==
  ASSUME TypeOK, HasWork, NEW s \in Sites, Edit(s) \/ ScanStep(s)
  PROVE  OwnRequest(s) /\ UNCHANGED <<points, book, queue, lost, passed, faults>>
<1> USE DEF Procs
<1>1. proc \in [Procs -> Locals] /\ proc[s] \in Locals
  BY DEF TypeOK, KnowledgeTypeOK
<1>2. Resting \in Locals /\ Resting.pc = "idle"
  BY DEF Resting, Local, Locals
<1>3. ASSUME Goto(s, "scroll") PROVE OwnRequest(s)
  <2>1. [proc[s] EXCEPT !.pc = "scroll"] \in Locals
    BY <1>1 DEF Locals
  <2>2. [proc[s] EXCEPT !.pc = "scroll"].pc = "scroll"
    BY <1>1 DEF Locals
  <2> QED
    BY <1>3, <2>1, <2>2 DEF OwnRequest, Goto
<1>4. ASSUME NEW a, Answered(s, a) PROVE OwnRequest(s)
  BY <1>4, <1>2 DEF OwnRequest, Answered
<1>5. CASE Edit(s) \/ Skip(s)
  BY <1>5 DEF Edit, Skip, OwnRequest, vars, kvars
<1>6. CASE Meet(s) \/ Vanished(s)
  BY <1>6, <1>3 DEF Meet, Vanished, OwnRequest
<1>7. CASE Read(s)
  BY <1>7, <1>3 DEF Read, OwnRequest
<1>8. CASE Cleared(s)
  BY <1>8, <1>4 DEF Cleared
<1>9. CASE Publish(s)
  <2>1. PICK c \in Chunks : proc' = [proc EXCEPT ![s] = Local("probe", c, s, None, {})]
    BY <1>9 DEF Publish, TypeOK
  <2>2. Local("probe", c, s, None, {}) \in Locals
    BY DEF Local, Locals
  <2> QED
    BY <1>9, <2>1, <2>2 DEF OwnRequest, Local, Publish
<1>10. CASE TooLarge(s) \/ Indexed(s)
  BY <1>10 DEF TooLarge, Indexed, OwnRequest, kvars
<1>11. CASE Published(s)
  <2>1. CASE proc[s].pc = "busy" /\ Goto(s, "probe")
    <3>1. proc[s].chunk \in Chunks /\ proc[s].site = s
      BY <2>1 DEF HasWork, AtWork
    <3>2. [proc[s] EXCEPT !.pc = "probe"] \in Locals
      BY <1>1 DEF Locals
    <3>3. /\ [proc[s] EXCEPT !.pc = "probe"].chunk = proc[s].chunk
          /\ [proc[s] EXCEPT !.pc = "probe"].site = proc[s].site
          /\ [proc[s] EXCEPT !.pc = "probe"].pc = "probe"
      BY <1>1 DEF Locals
    <3> QED
      BY <1>11, <2>1, <3>1, <3>2, <3>3 DEF OwnRequest, Goto, Published
  <2> QED
    BY <1>11, <1>4, <2>1 DEF Published
<1>12. CASE Pruned(s)
  BY <1>12, <1>4 DEF Pruned
<1> QED
  BY <1>5, <1>6, <1>7, <1>8, <1>9, <1>10, <1>11, <1>12 DEF ScanStep

\* Every step of a scanner keeps the shape of its cursor and its scan.
LEMMA ScanTypeOK ==
  ASSUME TypeOK, HasWork, NEW s \in Sites, Edit(s) \/ ScanStep(s) \/ ScannerDies(s)
  PROVE  TypeOK'
<1> DEFINE Rows == [hash: SUBSET Chunks, mtime: Nat]
           Scans == [pc: {"idle", "read", "clear", "publish", "prune"}, mtime: Nat,
                     hash: SUBSET Chunks, todo: SUBSET Chunks, tries: 0..MaxTries,
                     failed: BOOLEAN]
           ScansOK == /\ mtime' \in [Sites -> Nat]
                      /\ \A x \in Sites : mtime'[x] \in DOMAIN Versions[x]
                      /\ cursor' \in [Sites -> Rows \cup {None}]
                      /\ scan' \in [Sites -> Scans]
<1>1. KnowledgeTypeOK'
  <2>1. CASE Edit(s) \/ ScanStep(s)
    <3>1. OwnRequest(s) /\ UNCHANGED <<points, book, queue, lost, passed, faults>>
      BY <2>1, ScanFrame
    <3>2. proc \in [Procs -> Locals]
      BY DEF TypeOK, KnowledgeTypeOK
    <3>3. proc' \in [Procs -> Locals]
      BY <3>1, <3>2 DEF OwnRequest
    <3> QED
      BY <3>1, <3>3 DEF TypeOK, KnowledgeTypeOK
  <2>2. CASE ScannerDies(s)
    <3>1. proc' \in [Procs -> Locals]
      BY <2>2 DEF ScannerDies, Resting, Local, Locals, Procs, TypeOK, KnowledgeTypeOK
    <3> QED
      BY <2>2, <3>1, FaultType DEF ScannerDies, Unlock, TypeOK, KnowledgeTypeOK
  <2> QED
    BY <2>1, <2>2
<1>2. Waiting \in Scans
  BY ScannerAssumption DEF Waiting
<1>3. MaxTries \in Nat \ {0}
  BY ScannerAssumption
<1>4. Oversized \subseteq Chunks
  BY ScannerAssumption
<1>5. /\ mtime \in [Sites -> Nat] /\ scan \in [Sites -> Scans]
      /\ cursor \in [Sites -> Rows \cup {None}]
      /\ \A x \in Sites : mtime[x] \in DOMAIN Versions[x]
  BY DEF TypeOK
<1>6. CASE Edit(s)
  <2>1. \A x \in Sites : Versions[x] \in Seq({Gone} \cup SUBSET Chunks)
    BY ScannerAssumption
  <2>2. mtime[s] + 1 \in DOMAIN Versions[s]
    BY <1>5, <1>6, <2>1 DEF Edit
  <2> QED
    BY <1>1, <1>5, <1>6, <2>2 DEF Edit, TypeOK
<1>7. CASE Skip(s)
  BY <1>7, <1>1, <1>5 DEF Skip, vars, svars, TypeOK
<1>8. CASE Meet(s) \/ Vanished(s)
  <2>1. mtime[s] \in Nat /\ scan[s] \in Scans
    BY <1>5
  <2>2. [scan[s] EXCEPT !.pc = "prune"] \in Scans
    BY <2>1
  <2>3. [scan[s] EXCEPT !.pc = "read", !.mtime = mtime[s]] \in Scans
    BY <2>1
  <2>4. scan' \in [Sites -> Scans]
    <3> HIDE DEF Scans
    <3> QED
      BY <1>8, <1>5, <2>2, <2>3 DEF Meet, Vanished
  <2> QED
    BY <1>8, <1>1, <1>5, <2>4 DEF Meet, Vanished, TypeOK
<1>9. CASE Read(s)
  <2>1. Content(s) # Gone => Content(s) \in SUBSET Chunks
    BY ContentType
  <2>2. Content(s) # Gone => Row(Content(s), scan[s].mtime) \in Rows
    BY <1>5, <2>1 DEF Row
  <2>3. cursor' \in [Sites -> Rows \cup {None}]
    BY <1>9, <1>5, <2>2 DEF Read
  <2>4. scan' \in [Sites -> Scans]
    BY <1>9, <1>5, <1>2, <2>1 DEF Read
  <2> QED
    BY <1>1, <1>5, <1>9, <2>3, <2>4 DEF Read, TypeOK
<1>10. CASE Cleared(s)
  BY <1>10, <1>1, <1>2, <1>5 DEF Cleared, TypeOK
<1>11. CASE Publish(s)
  BY <1>11, <1>1, <1>5 DEF Publish, svars, TypeOK
<1>12. CASE TooLarge(s)
  BY <1>12, <1>1, <1>5 DEF TooLarge, TypeOK
<1>13. CASE Published(s)
  <2>1. scan' \in [Sites -> Scans]
    <3>1. scan[s] \in Scans /\ scan[s].tries \in 0..MaxTries
      BY <1>5
    <3> DEFINE Done(f) == [scan EXCEPT ![s].todo = @ \ {proc[s].chunk}, ![s].tries = 0,
                                       ![s].failed = @ \/ f]
    <3>2. \/ scan' = Done(FALSE) \/ scan' = Done(TRUE)
          \/ /\ scan[s].tries + 1 < MaxTries
             /\ scan' = [scan EXCEPT ![s].tries = @ + 1]
      BY <1>13 DEF Published
    <3>3. ASSUME NEW f \in BOOLEAN PROVE Done(f) \in [Sites -> Scans]
      <4> DEFINE todo == scan[s].todo \ {proc[s].chunk}
                 failed == scan[s].failed \/ f
      <4>1. todo \in SUBSET Chunks
        BY <3>1
      <4>2. failed \in BOOLEAN
        BY <3>1
      <4>3. Done(f) = [scan EXCEPT ![s].todo = todo, ![s].tries = 0, ![s].failed = failed]
        BY Zenon
      <4> HIDE DEF todo, failed, Done
      <4> QED
        <5>1. scan \in [Sites -> Scans] /\ 0 \in 0..MaxTries
          BY <1>5, <1>3
        <5>2. [scan[s] EXCEPT !.todo = todo, !.tries = 0, !.failed = failed] \in Scans
          BY <5>1, <4>1, <4>2
        <5>3. Done(f) = [scan EXCEPT ![s] =
                 [scan[s] EXCEPT !.todo = todo, !.tries = 0, !.failed = failed]]
          BY <5>1, <4>3
        <5> HIDE DEF Scans
        <5> QED
          BY <5>1, <5>2, <5>3
    <3>4. scan[s].tries + 1 < MaxTries => [scan EXCEPT ![s].tries = @ + 1] \in [Sites -> Scans]
      BY <1>5, <3>1, <1>3
    <3> HIDE DEF Scans, Done
    <3> QED
      BY <3>2, <3>3, <3>4
  <2> QED
    BY <1>13, <1>1, <1>5, <2>1 DEF Published, TypeOK
<1>14. CASE Indexed(s)
  <2>1. Row(scan[s].hash, scan[s].mtime) \in Rows
    BY <1>5 DEF Row
  <2> QED
    BY <1>14, <1>1, <1>2, <1>5, <2>1 DEF Indexed, TypeOK
<1>15. CASE Pruned(s)
  BY <1>15, <1>1, <1>2, <1>5 DEF Pruned, TypeOK
<1>16. CASE ScannerDies(s)
  BY <1>16, <1>1, <1>2, <1>5 DEF ScannerDies, TypeOK
<1> QED
  BY <1>6, <1>7, <1>8, <1>9, <1>10, <1>11, <1>12, <1>13, <1>14, <1>15, <1>16 DEF ScanStep

-----------------------------------------------------------------------------
(* Work under way *)

\* No step sends a request or a job on without a content and a location.
LEMMA StepHasWork ==
  ASSUME TypeOK, HasWork, Next
  PROVE  HasWork'
<1> USE DEF Procs, AtWork
<1>0. proc \in [Procs -> Locals] /\ queue \in Seq(Jobs) /\ Sites \cap Workers = {}
  BY KnowledgeAssumption DEF TypeOK, KnowledgeTypeOK
<1>1. ASSUME NEW s \in Sites, Probe(s) PROVE HasWork'
  BY <1>0, <1>1 DEF HasWork, Probe, Goto, Locals
<1>2. ASSUME NEW p \in Procs, AttachRead(p) PROVE HasWork'
  <2>1. CASE Attached(p)
    BY <1>0, <1>2, <2>1 DEF HasWork, AttachRead, Attached, Goto, Locals
  <2>2. CASE \E read : proc' = [proc EXCEPT ![p].pc = "write", ![p].read = read]
    BY <1>0, <1>2, <2>2 DEF HasWork, AttachRead, Locals
  <2> QED
    BY <1>2, <2>1, <2>2 DEF AttachRead
<1>3. ASSUME NEW p \in Procs, AttachWrite(p) PROVE HasWork'
  BY <1>0, <1>3 DEF HasWork, AttachWrite, Locals
<1>4. ASSUME NEW s \in Sites, Scroll(s) PROVE HasWork'
  <2>1. PICK read : proc' = [proc EXCEPT ![s].pc = "ok"]
                 \/ proc' = [proc EXCEPT ![s].pc = "remove", ![s].read = read]
    BY <1>4 DEF Scroll, Goto
  <2> QED
    BY <1>0, <2>1 DEF HasWork, Locals
<1>5. ASSUME NEW s \in Sites, Remove(s) PROVE HasWork'
  <2>1. PICK r : proc' = [proc EXCEPT ![s].read = @ \ {r},
                                      ![s].pc = IF proc[s].read = {r} THEN "ok" ELSE @]
    BY <1>5 DEF Remove
  <2> QED
    BY <1>0, <1>5, <2>1 DEF HasWork, Locals, Remove
<1>6. ASSUME NEW s \in Sites, RequestFails(s) PROVE HasWork'
  BY <1>0, <1>6 DEF HasWork, RequestFails, Locals
<1>7. ASSUME NEW w \in Workers, Receive(w) PROVE HasWork'
  <2>1. Head(queue).chunk \in Chunks /\ Head(queue).site \in Sites
    BY <1>0, <1>7, TailFacts, QueueType DEF Receive, TypeOK
  <2> QED
    BY <1>0, <1>7, <2>1 DEF HasWork, Receive, Local, Locals
<1>8. ASSUME NEW w \in Workers, Reprobe(w) PROVE HasWork'
  BY <1>0, <1>8 DEF HasWork, Reprobe, Goto, Locals
<1>9. ASSUME NEW w \in Workers, GetBack(w) PROVE HasWork'
  BY <1>0, <1>9 DEF HasWork, GetBack, Finish, Resting, Local, Locals
<1>10. ASSUME NEW w \in Workers, Insert(w) \/ JobFails(w) PROVE HasWork'
  BY <1>0, <1>10 DEF HasWork, Insert, JobFails, Finish, Resting, Local, Locals
<1>11. CASE ServiceRestarts
  <2>1. ASSUME NEW p \in Procs
        PROVE  proc'[p].pc \in {"idle", "error", "ok", "busy"}
               /\ (proc'[p].pc = "busy" => p \in Sites /\ proc'[p] = proc[p])
    BY <1>0, <1>11 DEF ServiceRestarts, Serving, Answers, Resting, Local, Locals
  <2>2. \A w \in Workers : proc'[w].pc = "idle"
    BY <1>11 DEF ServiceRestarts, Resting, Local
  <2> QED
    BY <1>0, <2>1, <2>2 DEF HasWork
<1>12. ASSUME NEW s \in Sites, Edit(s) \/ ScanStep(s) PROVE HasWork'
  <2>1. OwnRequest(s)
    BY <1>12, ScanFrame
  <2> QED
    BY <1>0, <2>1 DEF HasWork, OwnRequest
<1>13. ASSUME NEW s \in Sites, ScannerDies(s) PROVE HasWork'
  BY <1>0, <1>13 DEF HasWork, ScannerDies, Resting, Local
<1> QED
  BY <1>1, <1>2, <1>3, <1>4, <1>5, <1>6, <1>7, <1>8, <1>9, <1>10, <1>11, <1>12, <1>13
     DEF Next, ServiceStep, Serve, WorkOn

-----------------------------------------------------------------------------
(* The mutex *)

\* Points are left alone, and who is under the mutex was before and still is.
StillBooked ==
  /\ points' = points
  /\ \A p \in Procs : proc'[p].pc \in InBook =>
       proc[p].pc \in InBook /\ proc'[p].read = proc[p].read /\ book' = book

\* What was read under the mutex stays true when no point changes.
LEMMA BookKept ==
  ASSUME BookHeld, ReadTrue, StillBooked
  PROVE  BookHeld' /\ ReadTrue'
BY DEF BookHeld, ReadTrue, StillBooked

\* All steps but those of attaches and deletes, and an insert.
LEMMA Elsewhere ==
  ASSUME TypeOK, HasWork, BookHeld
  PROVE  /\ \A s \in Sites : Probe(s) \/ RequestFails(s) => StillBooked
         /\ \A s \in Sites : Edit(s) \/ ScanStep(s) \/ ScannerDies(s) => StillBooked
         /\ \A w \in Workers : Receive(w) \/ Reprobe(w) \/ GetBack(w) \/ JobFails(w) => StillBooked
         /\ ServiceRestarts => StillBooked
<1> USE DEF StillBooked, Procs, InBook, BookHeld
<1>0. proc \in [Procs -> Locals]
  BY DEF TypeOK, KnowledgeTypeOK
<1>1. ASSUME NEW s \in Sites, Probe(s) PROVE StillBooked
  BY <1>0, <1>1 DEF Probe, Goto, Locals
<1>2. ASSUME NEW s \in Sites, RequestFails(s) PROVE StillBooked
  BY <1>0, <1>2 DEF RequestFails, Unlock, Locals
<1>3. ASSUME NEW s \in Sites, Edit(s) \/ ScanStep(s) PROVE StillBooked
  <2>1. OwnRequest(s) /\ UNCHANGED <<points, book>>
    BY <1>3, ScanFrame
  <2> QED
    BY <1>0, <2>1 DEF OwnRequest
<1>4. ASSUME NEW s \in Sites, ScannerDies(s) PROVE StillBooked
  BY <1>0, <1>4 DEF ScannerDies, Unlock, Resting, Local
<1>5. ASSUME NEW w \in Workers, Receive(w) PROVE StillBooked
  BY <1>0, <1>5 DEF Receive, Local
<1>6. ASSUME NEW w \in Workers, Reprobe(w) PROVE StillBooked
  BY <1>0, <1>6 DEF Reprobe, Goto, Locals
<1>7. ASSUME NEW w \in Workers, GetBack(w) PROVE StillBooked
  BY <1>0, <1>7 DEF GetBack, Finish, Resting, Local, Locals
<1>8. ASSUME NEW w \in Workers, JobFails(w) PROVE StillBooked
  BY <1>0, <1>8 DEF JobFails, Finish, Unlock, Resting, Local
<1>9. CASE ServiceRestarts
  BY <1>0, <1>9 DEF ServiceRestarts, Serving, Answers, Resting, Local, Locals
<1> QED
  BY <1>1, <1>2, <1>3, <1>4, <1>5, <1>6, <1>7, <1>8, <1>9

\* No point and no location of one is taken away by the step ...
Gains ==
  \A i \in Ids : points[i] # None =>
    points'[i] # None /\ points[i].copies \subseteq points'[i].copies

\* ... or none but those of a site whose delete is at it.
LosesOwn(s) ==
  /\ proc[s].pc = "remove"
  /\ \A i \in Ids, t \in Sites \ {s} : points[i] # None /\ t \in points[i].copies =>
       points'[i] # None /\ t \in points'[i].copies

\* Nothing but a delete takes anything off a point, and it only its own location.
LEMMA Taken ==
  ASSUME TypeOK, HasWork, BookHeld, ReadTrue, Next
  PROVE  (Gains \/ \E s \in Sites : LosesOwn(s)) /\ BookHeld' /\ ReadTrue'
<1> USE DEF Procs
<1>0. /\ proc \in [Procs -> Locals] /\ points \in [Ids -> Points \cup {None}]
      /\ None \notin Points /\ None \notin Procs
  BY KnowledgeAssumption DEF TypeOK, KnowledgeTypeOK, Points
<1> DEFINE Goal == (Gains \/ \E s \in Sites : LosesOwn(s)) /\ BookHeld' /\ ReadTrue'
<1>1. ASSUME StillBooked PROVE Goal
  BY <1>1, BookKept DEF Gains, StillBooked
<1>2. ASSUME NEW p \in Procs, AttachRead(p) PROVE Goal
  <2>1. CASE proc' = [proc EXCEPT ![p].pc = IF p \in Sites THEN "ok" ELSE "get"]
             /\ UNCHANGED <<points, book>>
    <3>1. StillBooked
      BY <1>0, <2>1 DEF StillBooked, InBook, Locals
    <3> QED
      BY <3>1, <1>1
  <2>2. CASE /\ proc' = [proc EXCEPT ![p].pc = "write",
                           ![p].read = {[id |-> proc[p].id, copies |-> points[proc[p].id].copies]}]
             /\ proc[p].id \in Stored /\ book = None /\ book' = p /\ points' = points
    <3> DEFINE read == {[id |-> proc[p].id, copies |-> points[proc[p].id].copies]}
    <3>0. \A r \in read : points[r.id] # None /\ points[r.id].copies = r.copies
      BY <2>2 DEF Stored
    <3>1. \A q \in Procs : q # p => proc'[q] = proc[q] /\ proc[q].pc \notin InBook
      BY <1>0, <2>2 DEF BookHeld
    <3>2. proc'[p].read = read
      BY <1>0, <2>2 DEF Locals
    <3>3. BookHeld'
      BY <3>1, <2>2 DEF BookHeld
    <3>4. ReadTrue'
      <4> HIDE DEF read
      <4> QED
        BY <3>0, <3>1, <3>2, <2>2 DEF ReadTrue
    <3> QED
      BY <3>3, <3>4, <2>2 DEF Gains
  <2> QED
    BY <1>2, <2>1, <2>2 DEF AttachRead, Attached, Goto
<1>3. ASSUME NEW p \in Procs, AttachWrite(p) PROVE Goal
  <2>1. PICK r \in proc[p].read :
           points' = [points EXCEPT ![r.id] =
             IF @ = None THEN None ELSE Point(@.chunk, r.copies \cup {proc[p].site})]
    BY <1>3 DEF AttachWrite
  <2>2. /\ r \in [id: Ids, copies: SUBSET Sites] /\ proc[p].site \in Sites
        /\ points[r.id] # None /\ points[r.id].copies = r.copies
    BY <1>0, <1>3 DEF Locals, AttachWrite, ReadTrue, InBook, HasWork, AtWork
  <2>3. points'[r.id] = Point(points[r.id].chunk, r.copies \cup {proc[p].site})
    BY <1>0, <2>1, <2>2
  <2>4. points'[r.id] # None /\ points[r.id].copies \subseteq points'[r.id].copies
    BY <1>0, <2>2, <2>3 DEF Point, Points
  <2>5. Gains
    BY <1>0, <2>1, <2>2, <2>4 DEF Gains
  <2>6. book = p
    BY <1>3 DEF AttachWrite, BookHeld, InBook
  <2>7. \A q \in Procs : proc'[q].pc \notin InBook
    BY <1>0, <1>3, <2>6 DEF AttachWrite, BookHeld, InBook, Locals
  <2> QED
    BY <2>5, <2>7 DEF BookHeld, ReadTrue
<1>4. ASSUME NEW s \in Sites, Scroll(s) PROVE Goal
  <2> DEFINE read == {[id |-> i, copies |-> points[i].copies] : i \in CarriedBy(s)}
  <2>1. CASE proc' = [proc EXCEPT ![s].pc = "ok"] /\ UNCHANGED <<points, book>>
    <3>1. StillBooked
      BY <1>0, <2>1 DEF StillBooked, InBook, Locals
    <3> QED
      BY <3>1, <1>1
  <2>2. CASE /\ proc' = [proc EXCEPT ![s].pc = "remove", ![s].read = read]
             /\ book = None /\ book' = s /\ points' = points
    <3>1. \A r \in read : points[r.id] # None /\ points[r.id].copies = r.copies
      BY DEF CarriedBy, Stored
    <3> HIDE DEF read
    <3>2. \A q \in Procs : q # s => proc'[q] = proc[q] /\ proc[q].pc \notin InBook
      BY <1>0, <2>2 DEF BookHeld
    <3>3. proc'[s].read = read
      BY <1>0, <2>2 DEF Locals
    <3>4. BookHeld'
      BY <3>2, <2>2 DEF BookHeld
    <3>5. ReadTrue'
      BY <3>1, <3>2, <3>3, <2>2 DEF ReadTrue
    <3> QED
      BY <3>4, <3>5, <2>2 DEF Gains
  <2> QED
    BY <1>4, <2>1, <2>2 DEF Scroll, Goto
<1>5. ASSUME NEW s \in Sites, Remove(s) PROVE Goal
  <2>1. PICK r \in proc[s].read :
       /\ points' = [points EXCEPT ![r.id] =
            IF @ = None \/ r.copies = {s} THEN None ELSE Point(@.chunk, r.copies \ {s})]
       /\ proc' = [proc EXCEPT ![s].read = @ \ {r},
                               ![s].pc = IF proc[s].read = {r} THEN "ok" ELSE @]
       /\ book' = IF proc[s].read = {r} THEN None ELSE book
    BY <1>5 DEF Remove
  <2>2. /\ r \in [id: Ids, copies: SUBSET Sites]
        /\ points[r.id] # None /\ points[r.id].copies = r.copies
        /\ book = s /\ proc[s].pc = "remove"
    BY <1>0, <1>5 DEF Locals, Remove, ReadTrue, BookHeld, InBook
  <2>3. \A x \in proc[s].read \ {r} : x.id # r.id /\ points'[x.id] = points[x.id]
    <3>1. ASSUME NEW x \in proc[s].read \ {r} PROVE x.id # r.id /\ x.id \in Ids
      <4>1. x \in [id: Ids, copies: SUBSET Sites] /\ points[x.id].copies = x.copies
        BY <1>0, <1>5 DEF Locals, Remove, ReadTrue, InBook
      <4> QED
        BY <2>2, <4>1
    <3> QED
      BY <1>0, <2>1, <3>1
  <2>4. ASSUME NEW i \in Ids, NEW t \in Sites \ {s}, points[i] # None, t \in points[i].copies
        PROVE  points'[i] # None /\ t \in points'[i].copies
    <3>1. CASE i = r.id
      <4>1. points'[i] = Point(points[i].chunk, r.copies \ {s})
        BY <1>0, <2>1, <2>2, <2>4, <3>1
      <4> QED
        BY <1>0, <2>2, <2>4, <3>1, <4>1 DEF Point, Points
    <3>2. CASE i # r.id
      BY <1>0, <2>1, <2>4, <3>2
    <3> QED
      BY <3>1, <3>2
  <2>5. /\ \A q \in Procs : q # s => proc'[q] = proc[q] /\ proc[q].pc \notin InBook
        /\ proc'[s].read = proc[s].read \ {r}
        /\ proc'[s].pc = IF proc[s].read = {r} THEN "ok" ELSE "remove"
    BY <1>0, <2>1, <2>2 DEF BookHeld, Locals
  <2>6. BookHeld'
    <3>1. CASE proc[s].read = {r}
      BY <2>5, <3>1 DEF BookHeld, InBook
    <3>2. CASE proc[s].read # {r}
      BY <2>1, <2>2, <2>5, <3>2 DEF BookHeld
    <3> QED
      BY <3>1, <3>2
  <2>7. ReadTrue'
    BY <2>2, <2>3, <2>5 DEF ReadTrue, InBook
  <2> QED
    BY <2>2, <2>4, <2>6, <2>7 DEF LosesOwn
<1>6. ASSUME NEW w \in Workers, Insert(w) PROVE Goal
  <2>1. PICK i \in Fresh : points' = [points EXCEPT ![i] = Point(proc[w].chunk, {proc[w].site})]
    BY <1>6 DEF Insert
  <2>2. i \in Ids /\ points[i] = None
    BY <2>1 DEF Fresh, Stored
  <2>3. \A j \in Ids : points[j] # None => points'[j] = points[j]
    BY <1>0, <2>1, <2>2
  <2>4. \A q \in Procs : proc'[q].pc \in InBook => proc'[q] = proc[q]
    BY <1>0, <1>6 DEF Insert, Finish, Resting, Local, InBook
  <2>5. \A q \in Procs : \A r \in proc[q].read : r.id \in Ids
    BY <1>0 DEF Locals
  <2>6. BookHeld'
    BY <1>6, <2>4 DEF Insert, BookHeld
  <2>7. ReadTrue'
    BY <2>3, <2>4, <2>5 DEF ReadTrue
  <2> QED
    BY <2>3, <2>6, <2>7 DEF Gains
<1> QED
  BY <1>1, <1>2, <1>3, <1>4, <1>5, <1>6, Elsewhere DEF Next, ServiceStep, Serve, WorkOn

\* So a location goes only by its own delete.
LEMMA StepKeepsCopies ==
  ASSUME TypeOK, HasWork, BookHeld, ReadTrue, Next
  PROVE  KeepsCopies
<1>1. Gains \/ \E s \in Sites : LosesOwn(s)
  BY Taken
<1> QED
  BY <1>1 DEF Gains, LosesOwn, KeepsCopies, CarriedBy, Stored

-----------------------------------------------------------------------------
(* Deletes for vanished files *)

\* The step leaves a site's request alone, and gives it no write and no point
\* that it did not have, unless one is on its way.
Undisturbed(s) ==
  /\ proc'[s] = proc[s] /\ (s \in passed => s \in passed')
  /\ Pending(s)' => Pending(s)
  /\ Pending(s) \/ CarriedBy(s)' \subseteq CarriedBy(s)

\* What an undisturbed delete has still to do does not grow.
LEMMA UndisturbedKeeps ==
  ASSUME NEW s \in Sites, DeleteLeft(s), Undisturbed(s)
  PROVE  DeleteLeft(s)'
BY DEF DeleteLeft, Undisturbed

\* Who has a write in hand does not ask for a delete.
LEMMA NotDeleting ==
  ASSUME NEW s \in Sites, DeleteLeft(s)
  PROVE  proc[s].pc \notin {"idle", "probe", "attach", "write"}
BY DEF DeleteLeft

\* A step of the service disturbs a delete only by doing it or failing it.
LEMMA ServiceDisturbs ==
  ASSUME TypeOK, HasWork, BookHeld, ReadTrue, ServiceStep, NEW s \in Sites, DeleteLeft(s)
  PROVE  Undisturbed(s) \/ proc'[s].pc = "error" \/ Scroll(s) \/ Remove(s)
<1> USE DEF Procs
<1>0. /\ proc \in [Procs -> Locals] /\ points \in [Ids -> Points \cup {None}]
      /\ queue \in Seq(Jobs) /\ None \notin Points /\ Sites \cap Workers = {}
  BY KnowledgeAssumption DEF TypeOK, KnowledgeTypeOK, Points
<1>1. ASSUME NEW t \in Sites, Probe(t) PROVE Undisturbed(s)
  <2>1. t # s
    BY <1>1, NotDeleting DEF Probe
  <2>2. proc'[s] = proc[s] /\ \A w \in Workers : proc'[w] = proc[w]
    BY <1>0, <1>1, <2>1 DEF Probe, Goto
  <2>3. Pending(s)' => Pending(s)
    <3> DEFINE job == [chunk |-> proc[t].chunk, site |-> t]
    <3>1. job \in Jobs /\ job.site = t
      BY <1>1 DEF Probe, HasWork, AtWork, Jobs
    <3>2. queue' = queue \/ queue' = Append(queue, job)
      BY <1>1 DEF Probe
    <3> HIDE DEF job
    <3>3. \A k \in DOMAIN queue' : queue'[k].site = t \/ (k \in DOMAIN queue /\ queue'[k] = queue[k])
      BY <1>0, <3>1, <3>2, AppendFacts
    <3> QED
      BY <2>1, <2>2, <3>3 DEF Pending
  <2> QED
    BY <1>1, <2>2, <2>3 DEF Undisturbed, Probe, CarriedBy, Stored
<1>2. ASSUME NEW p \in Procs, AttachRead(p) PROVE Undisturbed(s)
  <2>1. p # s
    BY <1>2, NotDeleting DEF AttachRead
  <2>2. \A q \in Procs : proc'[q].site = proc[q].site /\ (proc'[q].pc # "idle" => proc[q].pc # "idle")
    <3>1. PICK pc, read : proc' = [proc EXCEPT ![p].pc = pc]
                       \/ proc' = [proc EXCEPT ![p].pc = pc, ![p].read = read]
      BY <1>2 DEF AttachRead, Attached, Goto
    <3>2. proc[p].pc # "idle"
      BY <1>2 DEF AttachRead
    <3> QED
      BY <1>0, <3>1, <3>2 DEF Locals
  <2>3. proc'[s] = proc[s]
    BY <1>0, <1>2, <2>1 DEF AttachRead, Attached, Goto
  <2> QED
    BY <1>2, <2>2, <2>3 DEF Undisturbed, AttachRead, Pending, CarriedBy, Stored
<1>3. ASSUME NEW p \in Procs, AttachWrite(p) PROVE Undisturbed(s)
  <2>1. p # s
    BY <1>3, NotDeleting DEF AttachWrite
  <2>2. \A q \in Procs : proc'[q].site = proc[q].site /\ (proc'[q].pc # "idle" => proc[q].pc # "idle")
    BY <1>0, <1>3 DEF AttachWrite, Locals
  <2>3. proc'[s] = proc[s] /\ UNCHANGED <<queue, passed>>
    BY <1>0, <1>3, <2>1 DEF AttachWrite
  <2>4. CASE proc[p].site = s
    <3>1. p \in Workers /\ proc[p].pc # "idle"
      BY <1>3, <2>1, <2>4 DEF AttachWrite, HasWork, AtWork
    <3>2. Pending(s)
      BY <2>4, <3>1 DEF Pending
    <3> QED
      BY <2>3, <3>2 DEF Undisturbed
  <2>5. CASE proc[p].site # s
    <3>1. PICK r \in proc[p].read :
             points' = [points EXCEPT ![r.id] =
               IF @ = None THEN None ELSE Point(@.chunk, r.copies \cup {proc[p].site})]
      BY <1>3 DEF AttachWrite
    <3>2. r.id \in Ids /\ points[r.id] # None /\ points[r.id].copies = r.copies
      BY <1>0, <1>3 DEF Locals, AttachWrite, ReadTrue, InBook
    <3>3. points'[r.id] = Point(points[r.id].chunk, r.copies \cup {proc[p].site})
      BY <1>0, <3>1, <3>2
    <3>4. s \in points'[r.id].copies => s \in points[r.id].copies
      BY <2>5, <3>2, <3>3 DEF Point
    <3>5. CarriedBy(s)' \subseteq CarriedBy(s)
      BY <1>0, <3>1, <3>2, <3>4 DEF CarriedBy, Stored
    <3> QED
      BY <2>2, <2>3, <3>5 DEF Undisturbed, Pending
  <2> QED
    BY <2>4, <2>5
<1>4. ASSUME NEW t \in Sites, t # s, Scroll(t) PROVE Undisturbed(s)
  <2>1. proc'[s] = proc[s] /\ \A w \in Workers : proc'[w] = proc[w]
    BY <1>0, <1>4 DEF Scroll, Goto
  <2> QED
    BY <1>4, <2>1 DEF Scroll, Undisturbed, Pending, CarriedBy, Stored
<1>5. ASSUME NEW t \in Sites, t # s, Remove(t) PROVE Undisturbed(s)
  <2>1. proc'[s] = proc[s] /\ \A w \in Workers : proc'[w] = proc[w]
    <3>1. PICK l : proc' = [proc EXCEPT ![t] = l]
      BY <1>5 DEF Remove
    <3> QED
      BY <1>0, <1>5, <3>1
  <2>2. PICK r \in proc[t].read :
          points' = [points EXCEPT ![r.id] =
            IF @ = None \/ r.copies = {t} THEN None ELSE Point(@.chunk, r.copies \ {t})]
    BY <1>5 DEF Remove
  <2>3. r.id \in Ids /\ points[r.id] # None /\ points[r.id].copies = r.copies
    BY <1>0, <1>5 DEF Locals, Remove, ReadTrue, InBook
  <2>4. points'[r.id] # None /\ s \in points'[r.id].copies => s \in points[r.id].copies
    BY <1>0, <2>2, <2>3 DEF Point
  <2>5. CarriedBy(s)' \subseteq CarriedBy(s)
    BY <1>0, <2>2, <2>3, <2>4 DEF CarriedBy, Stored
  <2> QED
    BY <1>5, <2>1, <2>5 DEF Remove, Undisturbed, Pending
<1>6. ASSUME NEW t \in Sites, RequestFails(t) PROVE Undisturbed(s) \/ proc'[s].pc = "error"
  <2>1. CASE t = s
    BY <1>0, <1>6, <2>1 DEF RequestFails, Locals
  <2>2. CASE t # s
    <3>1. proc'[s] = proc[s] /\ \A w \in Workers : proc'[w] = proc[w]
      BY <1>0, <1>6, <2>2 DEF RequestFails
    <3> QED
      BY <1>6, <3>1 DEF RequestFails, Undisturbed, Pending, CarriedBy, Stored
  <2> QED
    BY <2>1, <2>2
<1>7. ASSUME NEW w \in Workers, Receive(w) PROVE Undisturbed(s)
  <2>1. /\ proc'[s] = proc[s] /\ proc'[w].site = Head(queue).site
        /\ \A v \in Workers \ {w} : proc'[v] = proc[v]
    BY <1>0, <1>7 DEF Receive, Local
  <2>2. /\ 1 \in DOMAIN queue /\ Head(queue) = queue[1]
        /\ \A k \in DOMAIN queue' : k + 1 \in DOMAIN queue /\ queue'[k] = queue[k + 1]
    BY <1>0, <1>7, TailFacts DEF Receive
  <2>3. Pending(s)' => Pending(s)
    BY <2>1, <2>2 DEF Pending
  <2> QED
    BY <1>7, <2>1, <2>3 DEF Receive, Undisturbed, CarriedBy, Stored
<1>8. ASSUME NEW w \in Workers, Reprobe(w) \/ GetBack(w) \/ JobFails(w) PROVE Undisturbed(s)
  <2>1. proc'[s] = proc[s] /\ UNCHANGED <<points, queue, passed>>
    BY <1>0, <1>8 DEF Reprobe, GetBack, JobFails, Goto, Finish
  <2>2. \A v \in Workers : proc'[v].pc # "idle" => proc[v].pc # "idle" /\ proc'[v].site = proc[v].site
    BY <1>0, <1>8 DEF Reprobe, GetBack, JobFails, Goto, Finish, Resting, Local, Locals
  <2> QED
    BY <2>1, <2>2 DEF Undisturbed, Pending, CarriedBy, Stored
<1>9. ASSUME NEW w \in Workers, Insert(w) PROVE Undisturbed(s)
  <2>1. proc'[s] = proc[s] /\ UNCHANGED <<queue, passed>>
    BY <1>0, <1>9 DEF Insert, Finish
  <2>2. \A v \in Workers : proc'[v].pc # "idle" => proc[v].pc # "idle" /\ proc'[v].site = proc[v].site
    BY <1>0, <1>9 DEF Insert, Finish, Resting, Local
  <2>3. CASE proc[w].site = s
    <3>1. Pending(s)
      BY <1>9, <2>3 DEF Insert, Pending
    <3> QED
      BY <2>1, <3>1 DEF Undisturbed
  <2>4. CASE proc[w].site # s
    <3>1. PICK i \in Fresh : points' = [points EXCEPT ![i] = Point(proc[w].chunk, {proc[w].site})]
      BY <1>9 DEF Insert
    <3>2. i \in Ids /\ s \notin points'[i].copies
      BY <1>0, <2>4, <3>1 DEF Fresh, Point
    <3>3. CarriedBy(s)' \subseteq CarriedBy(s)
      BY <1>0, <3>1, <3>2 DEF CarriedBy, Stored
    <3> QED
      BY <2>1, <2>2, <3>3 DEF Undisturbed, Pending
  <2> QED
    BY <2>3, <2>4
<1>10. CASE ServiceRestarts
  <2>1. proc'[s] = proc[s] \/ proc'[s].pc = "error"
    BY <1>0, <1>10 DEF ServiceRestarts, Locals
  <2>2. \A w \in Workers : proc'[w].pc = "idle"
    BY <1>10 DEF ServiceRestarts, Resting, Local
  <2>3. DOMAIN queue' = {}
    <3>1. queue' = <<>>
      BY <1>10 DEF ServiceRestarts
    <3> QED
      BY <3>1
  <2> QED
    BY <1>10, <2>1, <2>2, <2>3 DEF ServiceRestarts, Undisturbed, Pending, CarriedBy, Stored
<1> QED
  BY <1>1, <1>2, <1>3, <1>4, <1>5, <1>6, <1>7, <1>8, <1>9, <1>10
     DEF ServiceStep, Serve, WorkOn

\* No step leaves a delete for a vanished file with less in hand than there is left.
LEMMA StepPruneLeft ==
  ASSUME IInv, Next
  PROVE  PruneLeft'
<1> USE DEF IInv, Procs
<1> SUFFICES ASSUME NEW s \in Sites, scan'[s].pc = "prune" PROVE DeleteLeft(s)'
  BY DEF PruneLeft
<1>0. /\ proc \in [Procs -> Locals] /\ points \in [Ids -> Points \cup {None}]
      /\ scan \in [Sites -> [pc: {"idle", "read", "clear", "publish", "prune"}, mtime: Nat,
           hash: SUBSET Chunks, todo: SUBSET Chunks, tries: 0..MaxTries, failed: BOOLEAN]]
      /\ Sites \cap Workers = {}
  BY KnowledgeAssumption DEF TypeOK, KnowledgeTypeOK
<1>1. CASE ServiceStep /\ UNCHANGED svars
  <2>0. DeleteLeft(s)
    BY <1>1 DEF svars, PruneLeft
  <2>1. CASE Undisturbed(s)
    BY <2>0, <2>1, UndisturbedKeeps
  <2>2. CASE proc'[s].pc = "error"
    BY <2>2 DEF DeleteLeft
  <2>3. CASE Scroll(s)
    <3> DEFINE read == {[id |-> i, copies |-> points[i].copies] : i \in CarriedBy(s)}
    <3>1. /\ Pending(s) => s \in passed'
          /\ UNCHANGED <<points, queue>>
          /\ \/ CarriedBy(s) = {} /\ proc' = [proc EXCEPT ![s].pc = "ok"]
             \/ proc' = [proc EXCEPT ![s].pc = "remove", ![s].read = read]
      BY <2>3 DEF Scroll, Goto
    <3>2. CarriedBy(s) \subseteq {r.id : r \in read}
      <4>1. ASSUME NEW i \in CarriedBy(s) PROVE \E r \in read : r.id = i
        <5>1. [id |-> i, copies |-> points[i].copies] \in read
          OBVIOUS
        <5> QED
          BY <5>1
      <4> HIDE DEF read
      <4> QED
        BY <4>1
    <3>3. CarriedBy(s)' = CarriedBy(s)
      BY <3>1 DEF CarriedBy, Stored
    <3> HIDE DEF read
    <3>4. \A w \in Workers : proc'[w] = proc[w]
      BY <1>0, <3>1
    <3>5. Pending(s)' => Pending(s)
      BY <3>1, <3>4 DEF Pending
    <3>6. \/ CarriedBy(s) = {} /\ proc'[s].pc = "ok"
          \/ proc'[s].pc = "remove" /\ proc'[s].read = read
      BY <1>0, <3>1 DEF Locals
    <3> QED
      BY <3>1, <3>2, <3>3, <3>5, <3>6 DEF DeleteLeft
  <2>4. CASE Remove(s)
    <3>1. PICK r \in proc[s].read :
         /\ points' = [points EXCEPT ![r.id] =
              IF @ = None \/ r.copies = {s} THEN None ELSE Point(@.chunk, r.copies \ {s})]
         /\ proc' = [proc EXCEPT ![s].read = @ \ {r},
                                 ![s].pc = IF proc[s].read = {r} THEN "ok" ELSE @]
      BY <2>4 DEF Remove
    <3>2. proc[s].pc = "remove" /\ UNCHANGED <<queue, passed>>
      BY <2>4 DEF Remove
    <3>3. r.id \in Ids
      BY <1>0, <3>1 DEF Locals
    <3>4. r.id \notin CarriedBy(s)'
      BY <1>0, <3>1, <3>3 DEF CarriedBy, Stored, Point
    <3>5. CarriedBy(s)' \subseteq CarriedBy(s)
      BY <1>0, <3>1, <3>3, <3>4 DEF CarriedBy, Stored
    <3>6. /\ proc'[s].read = proc[s].read \ {r}
          /\ proc'[s].pc = IF proc[s].read = {r} THEN "ok" ELSE "remove"
          /\ \A w \in Workers : proc'[w] = proc[w]
      <4>1. proc[s] \in Locals /\ \A w \in Workers : w # s
        BY <1>0
      <4>2. proc'[s] = [proc[s] EXCEPT !.read = @ \ {r},
                                       !.pc = IF proc[s].read = {r} THEN "ok" ELSE @]
        BY <1>0, <3>1
      <4>3. \A w \in Workers : proc'[w] = proc[w]
        BY <1>0, <3>1, <4>1
      <4> QED
        BY <3>2, <4>1, <4>2, <4>3 DEF Locals
    <3>7. Pending(s)' => Pending(s)
      BY <3>2, <3>6 DEF Pending
    <3>8. CASE s \in passed
      BY <3>2, <3>6, <3>8 DEF DeleteLeft
    <3>9. CASE s \notin passed
      <4>1. ~Pending(s) /\ CarriedBy(s) \subseteq {x.id : x \in proc[s].read}
        BY <2>0, <3>2, <3>9 DEF DeleteLeft
      <4>2. CarriedBy(s)' \subseteq {x.id : x \in proc[s].read \ {r}}
        BY <3>4, <3>5, <4>1
      <4>3. proc[s].read = {r} => CarriedBy(s)' = {}
        BY <4>2
      <4> QED
        BY <3>6, <3>7, <4>1, <4>2, <4>3 DEF DeleteLeft
    <3> QED
      BY <3>8, <3>9
  <2> QED
    BY <1>1, <2>0, <2>1, <2>2, <2>3, <2>4, ServiceDisturbs
<1>2. ASSUME NEW t \in Sites, t # s, Edit(t) \/ ScanStep(t) PROVE DeleteLeft(s)'
  <2>1. OwnRequest(t) /\ UNCHANGED <<points, queue, passed>>
    BY <1>2, ScanFrame
  <2>2. scan'[s] = scan[s]
    BY <1>0, <1>2 DEF Edit, ScanStep, Skip, Meet, Vanished, Read, Cleared, Publish, TooLarge, Published,
                      Indexed, Pruned, vars, svars
  <2>3. proc'[s] = proc[s] /\ \A w \in Workers : proc'[w] = proc[w]
    BY <1>0, <1>2, <2>1 DEF OwnRequest
  <2>4. Undisturbed(s)
    BY <2>1, <2>3 DEF Undisturbed, Pending, CarriedBy, Stored
  <2> QED
    BY <2>2, <2>4, UndisturbedKeeps DEF PruneLeft
<1>3. CASE Edit(s) \/ Skip(s)
  <2>1. scan' = scan
    BY <1>3 DEF Edit, Skip, vars, svars
  <2>2. UNCHANGED <<points, queue, proc, passed>>
    BY <1>3 DEF Edit, Skip, vars, kvars
  <2>3. Undisturbed(s)
    BY <2>2 DEF Undisturbed, Pending, CarriedBy, Stored
  <2> QED
    BY <2>1, <2>3, UndisturbedKeeps DEF PruneLeft
<1>4. CASE Meet(s) \/ Vanished(s)
  <2>1. Goto(s, "scroll")
    BY <1>0, <1>4 DEF Meet, Vanished
  <2> QED
    BY <1>0, <2>1 DEF Goto, DeleteLeft, Locals
<1>5. CASE Read(s) \/ Cleared(s) \/ Publish(s) \/ TooLarge(s) \/ Published(s) \/ Indexed(s) \/ Pruned(s)
  BY <1>0, <1>5 DEF Read, Cleared, Publish, TooLarge, Published, Indexed, Pruned, Waiting, svars
<1>6. ASSUME NEW t \in Sites, ScannerDies(t) PROVE DeleteLeft(s)'
  <2>1. t # s /\ scan'[s] = scan[s]
    BY <1>0, <1>6 DEF ScannerDies, Waiting
  <2>2. proc'[s] = proc[s] /\ \A w \in Workers : proc'[w] = proc[w]
    BY <1>0, <1>6, <2>1 DEF ScannerDies
  <2>3. Undisturbed(s)
    BY <1>6, <2>2 DEF ScannerDies, Undisturbed, Pending, CarriedBy, Stored
  <2> QED
    BY <2>1, <2>3, UndisturbedKeeps DEF PruneLeft
<1> QED
  BY <1>1, <1>2, <1>3, <1>4, <1>5, <1>6 DEF Next, ScanStep

\* The scanner forgets a file only once its delete has nothing left.
LEMMA StepForgetsNone ==
  ASSUME IInv, Next
  PROVE  ForgetsNone
<1> SUFFICES ASSUME NEW s \in Sites, cursor[s] # None, cursor'[s] = None, s \notin passed
             PROVE  CarriedBy(s) = {}
  BY DEF ForgetsNone
<1>0. /\ cursor \in [Sites -> [hash: SUBSET Chunks, mtime: Nat] \cup {None}]
      /\ scan \in [Sites -> [pc: {"idle", "read", "clear", "publish", "prune"}, mtime: Nat,
           hash: SUBSET Chunks, todo: SUBSET Chunks, tries: 0..MaxTries, failed: BOOLEAN]]
      /\ None \notin [hash: SUBSET Chunks, mtime: Nat]
  BY ScannerAssumption DEF IInv, TypeOK
<1>1. CASE Pruned(s)
  <2>1. scan[s].pc = "prune" /\ proc[s].pc = "ok"
    BY <1>1 DEF Pruned, Answered
  <2> QED
    BY <2>1 DEF IInv, PruneLeft, DeleteLeft
<1>2. CASE Read(s)
  <2>1. Content(s) # Gone => Row(Content(s), scan[s].mtime) \in [hash: SUBSET Chunks, mtime: Nat]
    BY <1>0, ContentType DEF IInv, Row
  <2>2. cursor'[s] # None
    BY <1>0, <1>2, <2>1 DEF Read
  <2> QED
    BY <2>2
<1>3. CASE Indexed(s)
  <2>1. Row(scan[s].hash, scan[s].mtime) \in [hash: SUBSET Chunks, mtime: Nat]
    BY <1>0 DEF Row
  <2>2. cursor'[s] # None
    BY <1>0, <1>3, <2>1 DEF Indexed
  <2> QED
    BY <2>2
<1>4. ASSUME NEW t \in Sites, Edit(t) \/ ScanStep(t) \/ ScannerDies(t),
             t # s \/ ~(Pruned(t) \/ Read(t) \/ Indexed(t))
      PROVE  cursor'[s] = cursor[s]
  BY <1>0, <1>4 DEF Edit, ScanStep, ScannerDies, Skip, Meet, Vanished, Read, Cleared, Publish, TooLarge,
                    Published, Indexed, Pruned, vars, svars
<1>5. CASE ServiceStep /\ UNCHANGED svars
  BY <1>5 DEF svars
<1> QED
  BY <1>1, <1>2, <1>3, <1>4, <1>5 DEF Next

-----------------------------------------------------------------------------
(* The invariant *)

\* An empty store and scanners that never ran satisfy the invariant.
LEMMA InitIInv == Init => IInv
<1> SUFFICES ASSUME Init PROVE IInv
  OBVIOUS
<1> USE DEF Init, KnowledgeInit, Procs
<1>0. Resting \in Locals /\ Resting.pc = "idle" /\ Resting.read = {}
  BY DEF Resting, Local, Locals
<1>1. KnowledgeTypeOK
  <2>1. queue \in Seq(Jobs) /\ Len(queue) <= Capacity
    BY KnowledgeAssumption
  <2>2. faults \in 0..MaxFaults
    BY KnowledgeAssumption
  <2> QED
    BY <1>0, <2>1, <2>2 DEF KnowledgeTypeOK
<1>2. TypeOK
  <2>1. \A s \in Sites : mtime[s] \in DOMAIN Versions[s]
    <3> SUFFICES ASSUME NEW s \in Sites PROVE 1 \in DOMAIN Versions[s]
      OBVIOUS
    <3>1. Versions[s] \in Seq({Gone} \cup SUBSET Chunks) /\ Versions[s] # <<>>
      BY ScannerAssumption
    <3> QED
      BY <3>1
  <2>2. MaxTries \in Nat \ {0}
    BY ScannerAssumption
  <2> QED
    BY <1>1, <2>1, <2>2 DEF TypeOK, Waiting
<1>3. HasWork /\ BookHeld /\ ReadTrue
  BY <1>0 DEF HasWork, BookHeld, ReadTrue, AtWork, InBook
<1>4. PruneLeft
  BY DEF PruneLeft, Waiting
<1> QED
  BY <1>2, <1>3, <1>4 DEF IInv

\* Every step, and every stutter, keeps it.
LEMMA StepIInv == IInv /\ [Next]_vars => IInv'
<1>1. ASSUME IInv, Next PROVE IInv'
  <2>1. TypeOK'
    <3>1. ASSUME ServiceStep, UNCHANGED svars PROVE TypeOK'
      BY <1>1, <3>1, ServiceTypeOK DEF IInv, TypeOK, svars
    <3> QED
      BY <1>1, <3>1, ScanTypeOK DEF IInv, Next
  <2> QED
    BY <1>1, <2>1, StepHasWork, Taken, StepPruneLeft DEF IInv
<1>2. ASSUME IInv, UNCHANGED vars PROVE IInv'
  BY <1>2 DEF IInv, TypeOK, KnowledgeTypeOK, HasWork, BookHeld, ReadTrue, PruneLeft, DeleteLeft,
              Pending, CarriedBy, Stored, vars, kvars, svars
<1> QED
  BY <1>1, <1>2

\* The invariant holds of every state of every behaviour.
LEMMA Invariance == Spec => []IInv
BY InitIInv, StepIInv, PTL DEF Spec

-----------------------------------------------------------------------------
(* The properties *)

\* What the store, its routes and the scanners' cursors hold is of its kind.
THEOREM TypesHold == Spec => []TypeOK
<1>1. IInv => TypeOK
  BY DEF IInv
<1> QED
  BY <1>1, Invariance, PTL

\* attach_copy and delete_by_source_file, under copies_lock: a recorded location
\* leaves a point only by the delete of that location.
THEOREM NoCopyIsLost == Spec => CopiesKept
<1>1. IInv /\ [Next]_vars => [KeepsCopies]_vars
  BY StepKeepsCopies DEF IInv
<1> QED
  BY <1>1, Invariance, PTL DEF Spec, CopiesKept

\* scan_root: the cursor row of a vanished file goes only when no point carries
\* its location, unless a write of the file was still on its way at the delete.
THEOREM ForgottenIsGone == Spec => PrunedIsGone
<1>1. IInv /\ [Next]_vars => [ForgetsNone]_vars
  BY StepForgetsNone
<1> QED
  BY <1>1, Invariance, PTL DEF Spec, PrunedIsGone

-----------------------------------------------------------------------------
(* What the cursor promises *)

\* A chunk is stored with a site's location, or a job is on its way to store it.
Carries(s, c) == \E i \in Holding(c) : i \in CarriedBy(s)
Queued(s, c) == \E k \in DOMAIN queue : queue[k].chunk = c /\ queue[k].site = s
WorkedBy(w, s, c) ==
  /\ proc[w].pc \in {"reprobe", "attach", "write", "insert", "get"}
  /\ proc[w].chunk = c /\ proc[w].site = s
  /\ proc[w].pc = "get" => proc[w].id \notin Stored
Covered(s, c) == Carries(s, c) \/ Queued(s, c) \/ \E w \in Workers : WorkedBy(w, s, c)

\* Each phase of a scan has its own requests; what is being published is still to do.
InTurn ==
  \A s \in Sites :
    /\ scan[s].pc \in {"idle", "read"} => proc[s].pc = "idle"
    /\ scan[s].pc \in {"clear", "prune"} => proc[s].pc \in {"scroll", "remove", "ok", "error"}
    /\ scan[s].pc = "publish" =>
         /\ proc[s].pc \in {"idle", "probe", "attach", "write", "ok", "busy", "error"}
         /\ proc[s].pc # "idle" => proc[s].chunk \in scan[s].todo

\* The point somebody has found is, if it still stands, of the content it was found for.
FoundRight ==
  \A p \in Procs :
    /\ proc[p].pc \in {"attach", "write", "get"} =>
         proc[p].id \in Ids /\ (proc[p].id \in Stored => points[proc[p].id].chunk = proc[p].chunk)
    /\ proc[p].pc = "write" => \A r \in proc[p].read : r.id = proc[p].id

\* The hash a scan has read, or a cursor row holds, was the file's at the mtime
\* noted with it or later.
SeenSince(s, h, m) == \E v \in 1..mtime[s] : m <= v /\ Versions[s][v] = h
Remembers ==
  \A s \in Sites :
    /\ cursor[s] # None => SeenSince(s, cursor[s].hash, cursor[s].mtime)
    /\ scan[s].pc \in {"clear", "publish"} => SeenSince(s, scan[s].hash, scan[s].mtime)
    /\ scan[s].pc = "clear" => scan[s].todo = scan[s].hash
    /\ scan[s].pc = "read" => scan[s].mtime <= mtime[s]

\* While a site's points are deleted its cursor row is of another content, or of
\* one that has come back.
New(s) == \A v \in 1..mtime[s] - 1 : Versions[s][v] # Content(s)
Outdated(s) == cursor[s] # None /\ cursor[s].hash = Content(s) => ~New(s)
ClearsOld == \A s \in Sites : scan[s].pc \in {"clear", "prune"} => Outdated(s)

\* What a scan has published, and what a cursor row is about, is covered.
Delivered(s) ==
  scan[s].pc = "publish" /\ s \notin lost =>
    /\ scan[s].failed \/ \A c \in scan[s].hash \ (scan[s].todo \cup Oversized) : Covered(s, c)
    /\ proc[s].pc = "ok" => Covered(s, proc[s].chunk)
RowTrue(s) ==
  cursor[s] # None /\ cursor[s].hash = Content(s) /\ New(s) /\ s \notin lost =>
    \A c \in Content(s) \ Oversized : Covered(s, c)
Accounted == \A s \in Sites : Delivered(s) /\ RowTrue(s)

StoredInv == InTurn /\ FoundRight /\ Remembers /\ ClearsOld /\ Accounted

\* A point keeps its content, and a new one has an id nobody has in hand.
LEMMA PointsKeep ==
  ASSUME TypeOK, HasWork, BookHeld, ReadTrue, Next, NEW i \in Ids
  PROVE  /\ i \in Stored /\ i \in Stored' => points'[i].chunk = points[i].chunk
         /\ i \in Stored' => i \in Stored \/ i \in Fresh
<1> USE DEF Procs, Stored
<1>0. /\ proc \in [Procs -> Locals] /\ points \in [Ids -> Points \cup {None}]
  BY DEF TypeOK, KnowledgeTypeOK
<1> DEFINE Goal == /\ i \in Stored /\ i \in Stored' => points'[i].chunk = points[i].chunk
                   /\ i \in Stored' => i \in Stored \/ i \in Fresh
<1>1. CASE points' = points
  BY <1>1
<1>2. ASSUME NEW p \in Procs, AttachWrite(p) PROVE Goal
  <2>1. PICK r \in proc[p].read :
           points' = [points EXCEPT ![r.id] =
             IF @ = None THEN None ELSE Point(@.chunk, r.copies \cup {proc[p].site})]
    BY <1>2 DEF AttachWrite
  <2> QED
    BY <1>0, <2>1 DEF Point
<1>3. ASSUME NEW s \in Sites, Remove(s) PROVE Goal
  <2>1. PICK r \in proc[s].read :
       points' = [points EXCEPT ![r.id] =
            IF @ = None \/ r.copies = {s} THEN None ELSE Point(@.chunk, r.copies \ {s})]
    BY <1>3 DEF Remove
  <2> QED
    BY <1>0, <2>1 DEF Point
<1>4. ASSUME NEW w \in Workers, Insert(w) PROVE Goal
  <2>1. PICK j \in Fresh : points' = [points EXCEPT ![j] = Point(proc[w].chunk, {proc[w].site})]
    BY <1>4 DEF Insert
  <2>2. j \notin Stored
    BY <2>1 DEF Fresh
  <2> QED
    BY <1>0, <2>1, <2>2
<1>5. ASSUME NEW s \in Sites, Probe(s) \/ AttachRead(s) \/ Scroll(s) \/ RequestFails(s)
      PROVE  points' = points
  BY <1>5 DEF Probe, AttachRead, Scroll, RequestFails
<1>6. ASSUME NEW w \in Workers, Receive(w) \/ Reprobe(w) \/ AttachRead(w) \/ GetBack(w) \/ JobFails(w)
      PROVE  points' = points
  BY <1>6 DEF Receive, Reprobe, AttachRead, GetBack, JobFails
<1>7. ASSUME NEW s \in Sites, Edit(s) \/ ScanStep(s) PROVE points' = points
  BY <1>7, ScanFrame
<1>8. ASSUME NEW s \in Sites, ScannerDies(s) PROVE points' = points
  BY <1>8 DEF ScannerDies
<1>9. ASSUME ServiceRestarts PROVE points' = points
  BY <1>9 DEF ServiceRestarts
<1> QED
  BY <1>1, <1>2, <1>3, <1>4, <1>5, <1>6, <1>7, <1>8, <1>9 DEF Next, ServiceStep, Serve, WorkOn

\* What the service makes of a site's request.
LEMMA RequestMoves ==
  ASSUME TypeOK, InTurn, HasWork, ServiceStep, NEW s \in Sites
  PROVE  /\ proc'[s].chunk = proc[s].chunk
         /\ \/ proc'[s].pc = proc[s].pc
            \/ proc[s].pc \in {"probe", "attach", "write"} /\ proc'[s].pc \in {"attach", "write", "ok", "busy", "error"}
            \/ proc[s].pc \in {"scroll", "remove"} /\ proc'[s].pc \in {"remove", "ok", "error"}
            \/ proc[s].pc = "ok" /\ proc'[s].pc = "error"
<1> USE DEF Procs
<1>0. /\ proc \in [Procs -> Locals] /\ Sites \cap Workers = {}
      /\ proc[s].pc \in {"idle", "probe", "attach", "write", "scroll", "remove"} \cup Answers
  BY KnowledgeAssumption DEF TypeOK, KnowledgeTypeOK, InTurn, Answers
<1> DEFINE Goal == /\ proc'[s].chunk = proc[s].chunk
         /\ \/ proc'[s].pc = proc[s].pc
            \/ proc[s].pc \in {"probe", "attach", "write"} /\ proc'[s].pc \in {"attach", "write", "ok", "busy", "error"}
            \/ proc[s].pc \in {"scroll", "remove"} /\ proc'[s].pc \in {"remove", "ok", "error"}
            \/ proc[s].pc = "ok" /\ proc'[s].pc = "error"
<1>1. ASSUME NEW t \in Sites, Probe(t) PROVE Goal
  BY <1>0, <1>1 DEF Probe, Goto, Locals
<1>2. ASSUME NEW p \in Procs, AttachRead(p) PROVE Goal
  <2>1. CASE proc' = [proc EXCEPT ![p].pc = IF p \in Sites THEN "ok" ELSE "get"]
    BY <1>0, <1>2, <2>1 DEF AttachRead, Locals
  <2>2. CASE \E read : proc' = [proc EXCEPT ![p].pc = "write", ![p].read = read]
    BY <1>0, <1>2, <2>2 DEF AttachRead, Locals
  <2> QED
    BY <1>2, <2>1, <2>2 DEF AttachRead, Attached, Goto
<1>3. ASSUME NEW p \in Procs, AttachWrite(p) PROVE Goal
  BY <1>0, <1>3 DEF AttachWrite, Locals
<1>4. ASSUME NEW t \in Sites, Scroll(t) PROVE Goal
  <2>1. PICK read : proc' = [proc EXCEPT ![t].pc = "ok"]
                 \/ proc' = [proc EXCEPT ![t].pc = "remove", ![t].read = read]
    BY <1>4 DEF Scroll, Goto
  <2> QED
    BY <1>0, <1>4, <2>1 DEF Scroll, Locals
<1>5. ASSUME NEW t \in Sites, Remove(t) PROVE Goal
  <2>1. PICK r : proc' = [proc EXCEPT ![t].read = @ \ {r},
                                      ![t].pc = IF proc[t].read = {r} THEN "ok" ELSE @]
    BY <1>5 DEF Remove
  <2> QED
    BY <1>0, <1>5, <2>1 DEF Remove, Locals
<1>6. ASSUME NEW t \in Sites, RequestFails(t) PROVE Goal
  BY <1>0, <1>6 DEF RequestFails, Serving, Answers, Locals
<1>7. ASSUME NEW w \in Workers, Receive(w) \/ Reprobe(w) \/ GetBack(w) \/ Insert(w) \/ JobFails(w) PROVE Goal
  BY <1>0, <1>7 DEF Receive, Reprobe, GetBack, Insert, JobFails, Finish, Goto
<1>8. ASSUME ServiceRestarts PROVE Goal
  BY <1>0, <1>8 DEF ServiceRestarts, Serving, Answers, Locals
<1> QED
  BY <1>1, <1>2, <1>3, <1>4, <1>5, <1>6, <1>7, <1>8 DEF ServiceStep, Serve, WorkOn

\* A scanner changes nothing of what covers a chunk.
LEMMA ScanCovers ==
  ASSUME TypeOK, HasWork, NEW t \in Sites, Edit(t) \/ ScanStep(t) \/ ScannerDies(t)
  PROVE  /\ UNCHANGED <<points, queue, lost>>
         /\ \A w \in Workers : proc'[w] = proc[w]
         /\ \A s \in Sites \ {t} : proc'[s] = proc[s]
         /\ \A s, c : Covered(s, c)' <=> Covered(s, c)
<1> USE DEF Procs
<1>0. proc \in [Procs -> Locals] /\ Sites \cap Workers = {}
  BY KnowledgeAssumption DEF TypeOK, KnowledgeTypeOK
<1>1. UNCHANGED <<points, queue, lost>> /\ \E l : proc' = proc \/ proc' = [proc EXCEPT ![t] = l]
  <2>1. CASE Edit(t) \/ ScanStep(t)
    BY <2>1, ScanFrame DEF OwnRequest
  <2>2. CASE ScannerDies(t)
    BY <2>2 DEF ScannerDies
  <2> QED
    BY <2>1, <2>2
<1>2. \A p \in Procs \ {t} : proc'[p] = proc[p]
  BY <1>0, <1>1
<1>3. \A w \in Workers : proc'[w] = proc[w]
  BY <1>0, <1>2
<1>4. \A s, c : Carries(s, c)' <=> Carries(s, c)
  BY <1>1 DEF Carries, Holding, CarriedBy, Stored
<1>5. \A s, c : Queued(s, c)' <=> Queued(s, c)
  BY <1>1 DEF Queued
<1>6. \A w \in Workers : \A s, c : WorkedBy(w, s, c)' <=> WorkedBy(w, s, c)
  BY <1>1, <1>3 DEF WorkedBy, Stored
<1> QED
  BY <1>1, <1>2, <1>3, <1>4, <1>5, <1>6 DEF Covered

\* Requests come and go with the phases of their scan.
LEMMA StepInTurn ==
  ASSUME TypeOK, HasWork, InTurn, Next
  PROVE  InTurn'
<1> SUFFICES ASSUME NEW s \in Sites
             PROVE  /\ scan'[s].pc \in {"idle", "read"} => proc'[s].pc = "idle"
                    /\ scan'[s].pc \in {"clear", "prune"} => proc'[s].pc \in {"scroll", "remove", "ok", "error"}
                    /\ scan'[s].pc = "publish" =>
                         /\ proc'[s].pc \in {"idle", "probe", "attach", "write", "ok", "busy", "error"}
                         /\ proc'[s].pc # "idle" => proc'[s].chunk \in scan'[s].todo
  BY DEF InTurn
<1> USE DEF Procs
<1>0. /\ proc \in [Procs -> Locals]
      /\ scan \in [Sites -> [pc: {"idle", "read", "clear", "publish", "prune"}, mtime: Nat,
           hash: SUBSET Chunks, todo: SUBSET Chunks, tries: 0..MaxTries, failed: BOOLEAN]]
  BY DEF TypeOK, KnowledgeTypeOK
<1>1. CASE ServiceStep /\ UNCHANGED svars
  BY <1>0, <1>1, RequestMoves DEF InTurn, svars
<1>2. ASSUME NEW t \in Sites \ {s}, Edit(t) \/ ScanStep(t) \/ ScannerDies(t)
      PROVE  scan'[s] = scan[s] /\ proc'[s] = proc[s]
  <2>1. scan'[s] = scan[s]
    BY <1>0, <1>2 DEF Edit, ScanStep, ScannerDies, Skip, Meet, Vanished, Read, Cleared, Publish, TooLarge,
                      Published, Indexed, Pruned, vars, svars
  <2> QED
    BY <1>2, <2>1, ScanCovers
<1>3. CASE Edit(s) \/ Skip(s)
  BY <1>0, <1>3 DEF Edit, Skip, InTurn, vars, kvars, svars
<1>4. CASE Meet(s) \/ Vanished(s)
  BY <1>0, <1>4 DEF Meet, Vanished, Goto, InTurn, Locals
<1>5. CASE Read(s)
  BY <1>0, <1>5 DEF Read, Goto, InTurn, Locals, Waiting
<1>6. CASE Cleared(s) \/ Pruned(s)
  BY <1>0, <1>6 DEF Cleared, Pruned, Answered, InTurn, Resting, Local, Waiting
<1>7. CASE Publish(s)
  BY <1>0, <1>7 DEF Publish, InTurn, Local, svars
<1>8. CASE TooLarge(s) \/ Indexed(s)
  BY <1>0, <1>8 DEF TooLarge, Indexed, InTurn, kvars, Waiting
<1>9. CASE Published(s)
  BY <1>0, <1>9 DEF Published, Answered, Goto, InTurn, Resting, Local, Locals
<1>10. CASE ScannerDies(s)
  BY <1>0, <1>10 DEF ScannerDies, Resting, Local, Waiting
<1> QED
  BY <1>1, <1>2, <1>3, <1>4, <1>5, <1>6, <1>7, <1>8, <1>9, <1>10 DEF Next, ScanStep, InTurn

\* A point found stays the one it was found as, if it stands.
LEMMA StepFoundRight ==
  ASSUME TypeOK, HasWork, BookHeld, ReadTrue, FoundRight, Next
  PROVE  FoundRight'
<1> USE DEF Procs
<1> DEFINE Hand == {"attach", "write", "get"}
           Right(p) ==
             /\ proc[p].pc \in Hand =>
                  proc[p].id \in Ids /\ (proc[p].id \in Stored => points[proc[p].id].chunk = proc[p].chunk)
             /\ proc[p].pc = "write" => \A r \in proc[p].read : r.id = proc[p].id
           Same(p) ==
             /\ proc'[p].id = proc[p].id /\ proc'[p].chunk = proc[p].chunk /\ proc[p].pc \in Hand
             /\ proc'[p].pc = "write" => \A r \in proc'[p].read : r.id = proc[p].id
           Found(p) ==
             /\ proc'[p].pc = "attach" /\ proc'[p].id \in Holding(proc'[p].chunk) /\ points' = points
           Drops(p) == proc'[p].pc \notin Hand
<1>0. proc \in [Procs -> Locals] /\ Sites \cap Workers = {} /\ \A p \in Procs : Right(p)
  BY KnowledgeAssumption DEF TypeOK, KnowledgeTypeOK, FoundRight
<1>1. ASSUME NEW p \in Procs, Same(p) \/ Found(p) \/ Drops(p) PROVE Right(p)'
  <2>1. CASE Same(p)
    <3> DEFINE i == proc[p].id
    <3>1. i \in Ids /\ (i \in Stored => points[i].chunk = proc[p].chunk)
      BY <1>0, <2>1
    <3>2. i \notin Fresh
      BY DEF Fresh
    <3>3. i \in Stored' => i \in Stored /\ points'[i].chunk = points[i].chunk
      BY <3>1, <3>2, PointsKeep
    <3> HIDE DEF i
    <3>4. proc'[p].id = i
      BY <2>1 DEF i
    <3> QED
      BY <2>1, <3>1, <3>3, <3>4 DEF i
  <2>2. CASE Found(p)
    BY <2>2 DEF Holding, Stored
  <2>3. CASE Drops(p)
    BY <2>3
  <2> QED
    BY <1>1, <2>1, <2>2, <2>3
<1>2. ASSUME NEW p \in Procs, proc'[p] = proc[p] PROVE Same(p) \/ Found(p) \/ Drops(p)
  BY <1>0, <1>2
<1> DEFINE All == \A p \in Procs : Same(p) \/ Found(p) \/ Drops(p)
<1>3. ASSUME NEW s \in Sites, Probe(s) PROVE All
  <2>1. PICK i : \/ i \in Holding(proc[s].chunk) /\ proc' = [proc EXCEPT ![s].pc = "attach", ![s].id = i]
                 \/ proc' = [proc EXCEPT ![s].pc = "ok"]
                 \/ proc' = [proc EXCEPT ![s].pc = "busy"]
    BY <1>3 DEF Probe, Goto
  <2> QED
    BY <1>0, <1>2, <1>3, <2>1 DEF Probe, Locals
<1>4. ASSUME NEW q \in Procs, AttachRead(q) PROVE All
  <2>1. CASE Attached(q)
    BY <1>0, <1>2, <1>4, <2>1 DEF AttachRead, Attached, Goto, Locals
  <2>2. CASE proc' = [proc EXCEPT ![q].pc = "write",
                        ![q].read = {[id |-> proc[q].id, copies |-> points[proc[q].id].copies]}]
    BY <1>0, <1>2, <1>4, <2>2 DEF AttachRead, Locals
  <2> QED
    BY <1>4, <2>1, <2>2 DEF AttachRead
<1>5. ASSUME NEW q \in Procs, AttachWrite(q) PROVE All
  BY <1>0, <1>2, <1>5 DEF AttachWrite, Locals
<1>6. ASSUME NEW s \in Sites, Scroll(s) PROVE All
  <2>1. PICK read : proc' = [proc EXCEPT ![s].pc = "ok"]
                 \/ proc' = [proc EXCEPT ![s].pc = "remove", ![s].read = read]
    BY <1>6 DEF Scroll, Goto
  <2> QED
    BY <1>0, <1>2, <2>1 DEF Locals
<1>7. ASSUME NEW s \in Sites, Remove(s) PROVE All
  <2>1. PICK r : proc' = [proc EXCEPT ![s].read = @ \ {r},
                                      ![s].pc = IF proc[s].read = {r} THEN "ok" ELSE @]
    BY <1>7 DEF Remove
  <2>2. Drops(s)
    BY <1>0, <1>7, <2>1 DEF Remove, Locals
  <2>3. \A p \in Procs \ {s} : proc'[p] = proc[p]
    BY <1>0, <2>1
  <2> QED
    BY <1>2, <2>2, <2>3
<1>8. ASSUME NEW s \in Sites, RequestFails(s) PROVE All
  BY <1>0, <1>2, <1>8 DEF RequestFails, Locals
<1>9. ASSUME NEW w \in Workers, Receive(w) PROVE All
  BY <1>0, <1>2, <1>9 DEF Receive, Local, Locals
<1>10. ASSUME NEW w \in Workers, Reprobe(w) PROVE All
  <2>1. PICK i : \/ i \in Holding(proc[w].chunk) /\ proc' = [proc EXCEPT ![w].pc = "attach", ![w].id = i]
                 \/ proc' = [proc EXCEPT ![w].pc = "insert"]
    BY <1>10 DEF Reprobe, Goto
  <2> QED
    BY <1>0, <1>2, <1>10, <2>1 DEF Reprobe, Locals
<1>11. ASSUME NEW w \in Workers, GetBack(w) PROVE All
  BY <1>0, <1>2, <1>11 DEF GetBack, Finish, Resting, Local, Locals
<1>12. ASSUME NEW w \in Workers, Insert(w) \/ JobFails(w) PROVE All
  BY <1>0, <1>2, <1>12 DEF Insert, JobFails, Finish, Resting, Local
<1>13. ASSUME ServiceRestarts PROVE All
  BY <1>0, <1>2, <1>13 DEF ServiceRestarts, Serving, Answers, Resting, Local, Locals
<1>14. ASSUME NEW s \in Sites, Edit(s) \/ ScanStep(s) PROVE All
  <2>1. OwnRequest(s)
    BY <1>14, ScanFrame
  <2> QED
    BY <1>0, <1>2, <2>1 DEF OwnRequest
<1>15. ASSUME NEW s \in Sites, ScannerDies(s) PROVE All
  BY <1>0, <1>2, <1>15 DEF ScannerDies, Resting, Local
<1>16. All
  BY <1>3, <1>4, <1>5, <1>6, <1>7, <1>8, <1>9, <1>10, <1>11, <1>12, <1>13, <1>14, <1>15
     DEF Next, ServiceStep, Serve, WorkOn
<1>17. \A p \in Procs : Right(p)'
  BY <1>1, <1>16
<1> QED
  BY <1>17 DEF FoundRight

\* What covers a chunk goes on to do so, unless it is the site's own delete that
\* comes, or the write is lost.
LEMMA CoveredStays ==
  ASSUME TypeOK, HasWork, BookHeld, ReadTrue, FoundRight, Next,
         NEW s \in Sites, NEW c, proc[s].pc # "remove", Covered(s, c)
  PROVE  Covered(s, c)' \/ s \in lost'
<1> USE DEF Procs
<1>0. /\ proc \in [Procs -> Locals] /\ points \in [Ids -> Points \cup {None}]
      /\ queue \in Seq(Jobs) /\ None \notin Points /\ Sites \cap Workers = {}
  BY KnowledgeAssumption DEF TypeOK, KnowledgeTypeOK, Points
<1> DEFINE Goal == Covered(s, c)' \/ s \in lost'
<1>1. CASE Carries(s, c)
  <2>1. PICK i \in Stored : points[i].chunk = c /\ s \in points[i].copies
    BY <1>1 DEF Carries, Holding, CarriedBy
  <2>2. i \in Ids /\ points[i] # None
    BY DEF Stored
  <2>3. points'[i] # None /\ s \in points'[i].copies
    <3>1. Gains \/ \E t \in Sites : LosesOwn(t)
      BY Taken
    <3>2. CASE Gains
      BY <2>1, <2>2, <3>2 DEF Gains
    <3>3. ASSUME NEW t \in Sites, LosesOwn(t) PROVE points'[i] # None /\ s \in points'[i].copies
      <4>1. s # t
        BY <3>3 DEF LosesOwn
      <4> QED
        BY <2>1, <2>2, <3>3, <4>1 DEF LosesOwn
    <3> QED
      BY <3>1, <3>2, <3>3
  <2>4. points'[i].chunk = c
    BY <2>1, <2>2, <2>3, PointsKeep DEF Stored
  <2> QED
    BY <2>2, <2>3, <2>4 DEF Covered, Carries, Holding, CarriedBy, Stored
<1>2. ASSUME NEW k \in DOMAIN queue, queue[k].chunk = c, queue[k].site = s PROVE Goal
  <2>1. ASSUME NEW t \in Sites, Probe(t) PROVE Goal
    <3> DEFINE job == [chunk |-> proc[t].chunk, site |-> t]
    <3>1. job \in Jobs
      BY <2>1 DEF Probe, HasWork, AtWork, Jobs
    <3>2. queue' = queue \/ queue' = Append(queue, job)
      BY <2>1 DEF Probe
    <3> HIDE DEF job
    <3>3. k \in DOMAIN queue' /\ queue'[k] = queue[k]
      BY <1>0, <3>1, <3>2
    <3> QED
      BY <1>2, <3>3 DEF Covered, Queued
  <2>2. ASSUME NEW w \in Workers, Receive(w) PROVE Goal
    <3>1. /\ queue' = Tail(queue) /\ queue # <<>>
          /\ proc' = [proc EXCEPT ![w] = Local("reprobe", Head(queue).chunk, Head(queue).site, None, {})]
      BY <2>2 DEF Receive
    <3>2. CASE k = 1
      <4>1. Head(queue) = queue[1]
        BY <1>0, <3>1, TailFacts
      <4>2. proc'[w] = Local("reprobe", c, s, None, {})
        BY <1>0, <1>2, <3>1, <3>2, <4>1
      <4> QED
        BY <4>2 DEF Covered, WorkedBy, Local
    <3>3. CASE k # 1
      <4>1. k - 1 \in DOMAIN queue' /\ queue'[k - 1] = queue[k]
        BY <1>0, <1>2, <3>1, <3>3
      <4> QED
        BY <1>2, <4>1 DEF Covered, Queued
    <3> QED
      BY <3>2, <3>3
  <2>3. CASE ServiceRestarts
    BY <1>2, <2>3 DEF ServiceRestarts
  <2>4. CASE queue' = queue
    BY <1>2, <2>4 DEF Covered, Queued
  <2>5. ASSUME NEW t \in Sites, AttachRead(t) \/ AttachWrite(t) \/ Scroll(t) \/ Remove(t) \/ RequestFails(t)
        PROVE  queue' = queue
    BY <2>5 DEF AttachRead, AttachWrite, Scroll, Remove, RequestFails
  <2>6. ASSUME NEW w \in Workers,
               Reprobe(w) \/ AttachRead(w) \/ AttachWrite(w) \/ GetBack(w) \/ Insert(w) \/ JobFails(w)
        PROVE  queue' = queue
    BY <2>6 DEF Reprobe, AttachRead, AttachWrite, GetBack, Insert, JobFails
  <2>7. ASSUME NEW t \in Sites, Edit(t) \/ ScanStep(t) \/ ScannerDies(t) PROVE queue' = queue
    BY <2>7, ScanCovers
  <2> QED
    BY <2>1, <2>2, <2>3, <2>4, <2>5, <2>6, <2>7 DEF Next, ServiceStep, Serve, WorkOn

<1>3. ASSUME NEW w \in Workers, WorkedBy(w, s, c) PROVE Goal
  <2> DEFINE i == proc[w].id
  <2>1. /\ proc[w].pc \in {"reprobe", "attach", "write", "insert", "get"}
        /\ proc[w].chunk = c /\ proc[w].site = s
        /\ proc[w].pc = "get" => i \notin Stored
        /\ w \notin Sites
    BY <1>0, <1>3 DEF WorkedBy
  <2>2. /\ proc[w].pc \in {"attach", "write", "get"} => i \in Ids /\ (i \in Stored => points[i].chunk = c)
        /\ proc[w].pc = "write" => \A r \in proc[w].read : r.id = i
    BY <2>1 DEF FoundRight
  <2>3. ASSUME proc'[w] = proc[w] PROVE Goal
    <3>1. proc[w].pc = "get" => i \notin Stored'
      BY <2>1, <2>2, PointsKeep DEF Fresh
    <3> QED
      BY <2>1, <2>3, <3>1 DEF Covered, WorkedBy
  <2>4. ASSUME Reprobe(w) PROVE Goal
    <3>1. PICK j : \/ proc' = [proc EXCEPT ![w].pc = "attach", ![w].id = j]
                   \/ proc' = [proc EXCEPT ![w].pc = "insert"]
      BY <2>4 DEF Reprobe, Goto
    <3> QED
      BY <1>0, <2>1, <3>1 DEF Covered, WorkedBy, Locals
  <2>5. ASSUME AttachRead(w) PROVE Goal
    <3>0. points' = points /\ Stored' = Stored /\ proc[w].pc = "attach"
      BY <2>5 DEF AttachRead, Stored
    <3>1. CASE i \notin Stored
      <4>1. proc' = [proc EXCEPT ![w].pc = "get"]
        BY <2>1, <2>5, <3>1 DEF AttachRead, Attached, Goto
      <4> QED
        BY <1>0, <2>1, <3>0, <3>1, <4>1 DEF Covered, WorkedBy, Locals
    <3>2. CASE i \in CarriedBy(s)
      BY <2>2, <3>0, <3>2 DEF Covered, Carries, Holding, CarriedBy
    <3>3. CASE ~(i \notin Stored \/ i \in CarriedBy(s))
      <4>1. proc' = [proc EXCEPT ![w].pc = "write",
                                 ![w].read = {[id |-> i, copies |-> points[i].copies]}]
        BY <2>1, <2>5, <3>3 DEF AttachRead
      <4> QED
        BY <1>0, <2>1, <4>1 DEF Covered, WorkedBy, Locals
    <3> QED
      BY <3>1, <3>2, <3>3
  <2>6. ASSUME AttachWrite(w) PROVE Goal
    <3>1. PICK r \in proc[w].read :
             points' = [points EXCEPT ![r.id] =
               IF @ = None THEN None ELSE Point(@.chunk, r.copies \cup {s})]
      BY <2>1, <2>6 DEF AttachWrite
    <3>2. r.id = i /\ i \in Ids /\ points[i] # None
      BY <2>2, <2>6, <3>1 DEF AttachWrite, ReadTrue, InBook
    <3>3. points[i].chunk = c
      BY <2>2, <2>6, <3>2 DEF AttachWrite, Stored
    <3>4. points'[i] = Point(c, r.copies \cup {s})
      BY <1>0, <3>1, <3>2, <3>3
    <3>5. points'[i] # None /\ points'[i].chunk = c /\ s \in points'[i].copies
      <4>1. \A d, S : d \in Chunks /\ S \in SUBSET Sites => Point(d, S) \in Points
        BY DEF Point, Points
      <4>2. c \in Chunks /\ s \in Sites
        BY <2>1, <2>6 DEF AttachWrite, HasWork, AtWork
      <4>3. r.copies \in SUBSET Sites
        BY <1>0, <3>1 DEF Locals
      <4> QED
        BY <1>0, <3>4, <4>1, <4>2, <4>3 DEF Point
    <3> QED
      BY <3>2, <3>5 DEF Covered, Carries, Holding, CarriedBy, Stored
  <2>7. ASSUME GetBack(w) PROVE Goal
    <3>1. proc' = [proc EXCEPT ![w].pc = "insert", ![w].id = None]
      BY <2>1, <2>7 DEF GetBack
    <3> QED
      BY <1>0, <2>1, <3>1 DEF Covered, WorkedBy, Locals
  <2>8. ASSUME Insert(w) PROVE Goal
    <3>1. PICK j \in Fresh : points' = [points EXCEPT ![j] = Point(c, {s})]
      BY <2>1, <2>8 DEF Insert
    <3>2. c \in Chunks /\ s \in Sites
      BY <2>1, <2>8 DEF Insert, HasWork, AtWork
    <3>3. Point(c, {s}) \in Points /\ j \in Ids
      BY <3>2 DEF Point, Points, Fresh
    <3> QED
      BY <1>0, <3>1, <3>3 DEF Covered, Carries, Holding, CarriedBy, Stored, Point
  <2>9. ASSUME JobFails(w) PROVE Goal
    BY <2>1, <2>9 DEF JobFails
  <2>10. ASSUME Receive(w) PROVE FALSE
    BY <2>1, <2>10 DEF Receive
  <2>11. ASSUME ServiceRestarts PROVE Goal
    BY <2>1, <2>11 DEF ServiceRestarts
  <2>13. ASSUME NEW t \in Sites, Serve(t) \/ RequestFails(t) PROVE proc'[w] = proc[w]
    <3>1. t # w
      BY <2>1
    <3> QED
      BY <1>0, <2>13, <3>1 DEF Serve, Probe, AttachRead, Attached, AttachWrite, Scroll, Remove, RequestFails, Goto
  <2>14. ASSUME NEW v \in Workers \ {w}, WorkOn(v) \/ JobFails(v) PROVE proc'[w] = proc[w]
    BY <1>0, <2>14 DEF WorkOn, Receive, Reprobe, AttachRead, Attached, AttachWrite, GetBack, Insert, JobFails, Goto, Finish
  <2>15. ASSUME NEW t \in Sites, Edit(t) \/ ScanStep(t) \/ ScannerDies(t) PROVE proc'[w] = proc[w]
    BY <2>15, ScanCovers
  <2> QED
    BY <2>3, <2>4, <2>5, <2>6, <2>7, <2>8, <2>9, <2>10, <2>11, <2>13, <2>14, <2>15 DEF Next, ServiceStep, WorkOn
<1> QED
  BY <1>1, <1>2, <1>3 DEF Covered, Queued

\* A request that is answered ok while its scan publishes leaves its chunk
\* covered, unless the point it was about had gone.
LEMMA OkCovers ==
  ASSUME TypeOK, HasWork, BookHeld, ReadTrue, FoundRight, InTurn, ServiceStep,
         NEW s \in Sites, NEW c, proc[s].chunk = c, scan[s].pc = "publish",
         proc[s].pc # "ok", proc'[s].pc = "ok"
  PROVE  Covered(s, c)' \/ s \in lost'
<1> USE DEF Procs
<1>0. /\ proc \in [Procs -> Locals] /\ points \in [Ids -> Points \cup {None}]
      /\ queue \in Seq(Jobs) /\ None \notin Points /\ Sites \cap Workers = {}
  BY KnowledgeAssumption DEF TypeOK, KnowledgeTypeOK, Points
<1> DEFINE Goal == Covered(s, c)' \/ s \in lost'
<1>1. proc[s].pc \in {"idle", "probe", "attach", "write", "busy", "error"}
  BY DEF InTurn
<1>2. proc[s].pc \in AtWork => c \in Chunks /\ proc[s].site = s
  BY DEF HasWork
<1>3. ASSUME proc'[s] = proc[s] PROVE FALSE
  BY <1>3
<1>4. ASSUME Probe(s) PROVE Goal
  <2> DEFINE job == [chunk |-> c, site |-> s]
  <2>1. Holding(c) = {} /\ queue' = Append(queue, job)
    <3>1. \/ \E i \in Holding(c) : proc' = [proc EXCEPT ![s].pc = "attach", ![s].id = i]
          \/ Holding(c) = {} /\ queue' = Append(queue, job)
          \/ proc' = [proc EXCEPT ![s].pc = "busy"]
      BY <1>4 DEF Probe, Goto
    <3>2. (\E i \in Holding(c) : proc' = [proc EXCEPT ![s].pc = "attach", ![s].id = i]) => proc'[s].pc = "attach"
      BY <1>0 DEF Locals
    <3>3. proc' = [proc EXCEPT ![s].pc = "busy"] => proc'[s].pc = "busy"
      BY <1>0 DEF Locals
    <3> QED
      BY <3>1, <3>2, <3>3
  <2>2. job \in Jobs
    BY <1>2, <1>4 DEF Probe, AtWork, Jobs
  <2>3. job.chunk = c /\ job.site = s
    OBVIOUS
  <2> HIDE DEF job
  <2>4. Len(queue) + 1 \in DOMAIN queue' /\ queue'[Len(queue) + 1] = job
    BY <1>0, <2>1, <2>2
  <2> QED
    BY <2>3, <2>4 DEF Covered, Queued
<1>5. ASSUME AttachRead(s) PROVE Goal
  <2> DEFINE i == proc[s].id
  <2>1. proc[s].pc = "attach" /\ proc[s].site = s /\ points' = points
    BY <1>2, <1>5 DEF AttachRead, AtWork
  <2>2. CASE i \notin Stored
    BY <1>5, <2>1, <2>2 DEF AttachRead
  <2>3. CASE i \in Stored /\ i \in CarriedBy(s)
    <3>1. points[i].chunk = c
      BY <2>1, <2>3 DEF FoundRight
    <3> QED
      BY <2>1, <2>3, <3>1 DEF Covered, Carries, Holding, CarriedBy, Stored
  <2>4. CASE i \in Stored /\ i \notin CarriedBy(s)
    <3>1. proc' = [proc EXCEPT ![s].pc = "write", ![s].read = {[id |-> i, copies |-> points[i].copies]}]
      BY <1>5, <2>1, <2>4 DEF AttachRead
    <3> QED
      BY <1>0, <3>1 DEF Locals
  <2> QED
    BY <2>2, <2>3, <2>4
<1>6. ASSUME AttachWrite(s) PROVE Goal
  <2> DEFINE i == proc[s].id
  <2>1. proc[s].pc = "write" /\ proc[s].site = s /\ c \in Chunks
    BY <1>2, <1>6 DEF AttachWrite, AtWork
  <2>2. PICK r \in proc[s].read :
           points' = [points EXCEPT ![r.id] =
             IF @ = None THEN None ELSE Point(@.chunk, r.copies \cup {s})]
    BY <1>6, <2>1 DEF AttachWrite
  <2>3. r.id = i /\ i \in Ids /\ points[i] # None
    BY <2>1, <2>2 DEF FoundRight, ReadTrue, InBook
  <2>4. points[i].chunk = c
    BY <2>1, <2>3 DEF FoundRight, Stored
  <2>5. points'[i] = Point(c, r.copies \cup {s})
    BY <1>0, <2>2, <2>3, <2>4
  <2>6. points'[i] # None /\ points'[i].chunk = c /\ s \in points'[i].copies
    <3>1. \A d, S : d \in Chunks /\ S \in SUBSET Sites => Point(d, S) \in Points
      BY DEF Point, Points
    <3>2. r.copies \in SUBSET Sites
      BY <1>0, <2>2 DEF Locals
    <3> QED
      BY <1>0, <2>1, <2>5, <3>1, <3>2 DEF Point
  <2> QED
    BY <2>3, <2>6 DEF Covered, Carries, Holding, CarriedBy, Stored
<1>7. ASSUME Scroll(s) \/ Remove(s) PROVE FALSE
  BY <1>1, <1>7 DEF Scroll, Remove
<1>8. ASSUME NEW t \in Sites, RequestFails(t) PROVE FALSE
  <2>1. proc'[s] = proc[s] \/ proc'[s].pc = "error"
    BY <1>0, <1>8 DEF RequestFails, Locals
  <2> QED
    BY <1>3, <2>1
<1>9. ASSUME NEW t \in Sites \ {s}, Serve(t) PROVE FALSE
  <2>1. proc'[s] = proc[s]
    BY <1>0, <1>9 DEF Serve, Probe, AttachRead, Attached, AttachWrite, Scroll, Remove, Goto
  <2> QED
    BY <1>3, <2>1
<1>10. ASSUME NEW w \in Workers, WorkOn(w) \/ JobFails(w) PROVE FALSE
  <2>1. w # s
    BY <1>0
  <2>2. proc'[s] = proc[s]
    BY <1>0, <1>10, <2>1 DEF WorkOn, Receive, Reprobe, AttachRead, Attached, AttachWrite, GetBack, Insert, JobFails, Goto, Finish
  <2> QED
    BY <1>3, <2>2
<1>11. ASSUME ServiceRestarts PROVE FALSE
  <2>1. proc'[s] = proc[s] \/ proc'[s].pc = "error"
    BY <1>0, <1>11 DEF ServiceRestarts, Locals
  <2> QED
    BY <1>3, <2>1
<1> QED
  BY <1>4, <1>5, <1>6, <1>7, <1>8, <1>9, <1>10, <1>11 DEF ServiceStep, Serve

\* A content seen since stays seen: the file's mtime only grows.
LEMMA SeenStays ==
  ASSUME TypeOK, NEW s \in Sites, NEW h, NEW m, SeenSince(s, h, m), mtime'[s] \in Nat, mtime[s] <= mtime'[s]
  PROVE  SeenSince(s, h, m)'
<1>1. mtime[s] \in Nat
  BY DEF TypeOK
<1>2. PICK v \in 1..mtime[s] : m <= v /\ Versions[s][v] = h
  BY DEF SeenSince
<1>3. v \in 1..mtime'[s]
  BY <1>1
<1> QED
  BY <1>2, <1>3 DEF SeenSince

\* What the file is now has been seen since any mtime it had.
LEMMA SeenNow ==
  ASSUME TypeOK, NEW s \in Sites, NEW m \in Nat, m <= mtime[s]
  PROVE  SeenSince(s, Content(s), m) /\ mtime[s] \in Nat /\ mtime[s] >= 1
<1>1. Versions[s] \in Seq({Gone} \cup SUBSET Chunks) /\ mtime[s] \in DOMAIN Versions[s] /\ mtime[s] \in Nat
  BY ScannerAssumption DEF TypeOK
<1>2. mtime[s] \in 1..mtime[s]
  BY <1>1
<1> QED
  BY <1>1, <1>2 DEF SeenSince, Content

\* A file's mtime only grows.
LEMMA MtimeGrows ==
  ASSUME TypeOK, Next, NEW s \in Sites
  PROVE  mtime[s] \in Nat /\ mtime'[s] \in Nat /\ mtime[s] <= mtime'[s]
<1>0. mtime \in [Sites -> Nat]
  BY DEF TypeOK
<1>1. ASSUME NEW t \in Sites, ScanStep(t) \/ ScannerDies(t) PROVE mtime' = mtime
  BY <1>1 DEF ScanStep, ScannerDies, Skip, Meet, Vanished, Read, Cleared, Publish, TooLarge,
              Published, Indexed, Pruned, vars, svars
<1>2. mtime' = mtime \/ \E t \in Sites : mtime' = [mtime EXCEPT ![t] = @ + 1]
  BY <1>1 DEF Next, Edit, svars
<1> QED
  BY <1>0, <1>2

\* A step of the service, or of another file's scan, leaves a file's scan and row alone.
LEMMA ScanApart ==
  ASSUME TypeOK, NEW s \in Sites,
         \/ ServiceStep /\ UNCHANGED svars
         \/ \E t \in Sites \ {s} : Edit(t) \/ ScanStep(t) \/ ScannerDies(t)
  PROVE  scan'[s] = scan[s] /\ cursor'[s] = cursor[s] /\ mtime'[s] = mtime[s]
<1>0. /\ mtime \in [Sites -> Nat]
      /\ cursor \in [Sites -> [hash: SUBSET Chunks, mtime: Nat] \cup {None}]
      /\ scan \in [Sites -> [pc: {"idle", "read", "clear", "publish", "prune"}, mtime: Nat,
           hash: SUBSET Chunks, todo: SUBSET Chunks, tries: 0..MaxTries, failed: BOOLEAN]]
  BY DEF TypeOK
<1>1. CASE ServiceStep /\ UNCHANGED svars
  BY <1>1 DEF svars
<1>2. ASSUME NEW t \in Sites \ {s}, Edit(t) \/ ScanStep(t) \/ ScannerDies(t)
      PROVE  scan'[s] = scan[s] /\ cursor'[s] = cursor[s] /\ mtime'[s] = mtime[s]
  <2>1. scan' = scan \/ \E x : scan' = [scan EXCEPT ![t] = x]
    <3>1. CASE Edit(t) \/ ScannerDies(t) \/ Skip(t) \/ Meet(t) \/ Vanished(t) \/ Read(t)
      BY <3>1 DEF Edit, ScannerDies, Skip, Meet, Vanished, Read, vars, svars
    <3>2. CASE Cleared(t) \/ Publish(t) \/ TooLarge(t) \/ Published(t) \/ Indexed(t) \/ Pruned(t)
      BY <3>2 DEF Cleared, Publish, TooLarge, Published, Indexed, Pruned, svars
    <3> QED
      BY <1>2, <3>1, <3>2 DEF ScanStep
  <2>2. cursor' = cursor \/ \E x : cursor' = [cursor EXCEPT ![t] = x]
    BY <1>2 DEF Edit, ScanStep, ScannerDies, Skip, Meet, Vanished, Read, Cleared, Publish, TooLarge,
                Published, Indexed, Pruned, vars, svars
  <2>3. mtime' = mtime \/ \E x : mtime' = [mtime EXCEPT ![t] = x]
    BY <1>2 DEF Edit, ScanStep, ScannerDies, Skip, Meet, Vanished, Read, Cleared, Publish, TooLarge,
                Published, Indexed, Pruned, vars, svars
  <2> QED
    BY <1>0, <1>2, <2>1, <2>2, <2>3
<1> QED
  BY <1>1, <1>2

\* What scans and rows remember was so, and the file has only moved on since.
LEMMA StepRemembers ==
  ASSUME TypeOK, HasWork, Remembers, Next
  PROVE  Remembers'
<1> SUFFICES ASSUME NEW s \in Sites
             PROVE  (/\ cursor[s] # None => SeenSince(s, cursor[s].hash, cursor[s].mtime)
                     /\ scan[s].pc \in {"clear", "publish"} => SeenSince(s, scan[s].hash, scan[s].mtime)
                     /\ scan[s].pc = "clear" => scan[s].todo = scan[s].hash
                     /\ scan[s].pc = "read" => scan[s].mtime <= mtime[s])'
  BY DEF Remembers
<1> DEFINE SeenThen(h, m) == \E v \in 1..mtime'[s] : m <= v /\ Versions[s][v] = h
<1> DEFINE Goal == /\ cursor'[s] # None => SeenThen(cursor'[s].hash, cursor'[s].mtime)
                   /\ scan'[s].pc \in {"clear", "publish"} => SeenThen(scan'[s].hash, scan'[s].mtime)
                   /\ scan'[s].pc = "clear" => scan'[s].todo = scan'[s].hash
                   /\ scan'[s].pc = "read" => scan'[s].mtime <= mtime'[s]
           Row0 == cursor'[s] # None =>
                     \E h, m : cursor'[s].hash = h /\ cursor'[s].mtime = m /\ SeenSince(s, h, m)
           Hash0 == scan'[s].pc \in {"clear", "publish"} =>
                     \E h, m : scan'[s].hash = h /\ scan'[s].mtime = m /\ SeenSince(s, h, m)
           Rest0 == /\ scan'[s].pc = "clear" => scan'[s].todo = scan'[s].hash
                    /\ scan'[s].pc = "read" => scan'[s].mtime <= mtime[s]
<1> SUFFICES Goal
  BY DEF SeenSince
<1>0. /\ mtime[s] \in Nat /\ mtime'[s] \in Nat /\ mtime[s] <= mtime'[s]
      /\ cursor \in [Sites -> [hash: SUBSET Chunks, mtime: Nat] \cup {None}]
      /\ scan \in [Sites -> [pc: {"idle", "read", "clear", "publish", "prune"}, mtime: Nat,
           hash: SUBSET Chunks, todo: SUBSET Chunks, tries: 0..MaxTries, failed: BOOLEAN]]
      /\ scan' \in [Sites -> [pc: {"idle", "read", "clear", "publish", "prune"}, mtime: Nat,
           hash: SUBSET Chunks, todo: SUBSET Chunks, tries: 0..MaxTries, failed: BOOLEAN]]
  <2>1. scan' \in [Sites -> [pc: {"idle", "read", "clear", "publish", "prune"}, mtime: Nat,
           hash: SUBSET Chunks, todo: SUBSET Chunks, tries: 0..MaxTries, failed: BOOLEAN]]
    <3>1. CASE ServiceStep /\ UNCHANGED svars
      BY <3>1 DEF TypeOK, svars
    <3>2. CASE \E t \in Sites : Edit(t) \/ ScanStep(t) \/ ScannerDies(t)
      BY <3>2, ScanTypeOK DEF TypeOK
    <3> QED
      BY <3>1, <3>2 DEF Next
  <2> QED
    BY <2>1, MtimeGrows DEF TypeOK
<1>1. ASSUME Row0, Hash0, Rest0 PROVE Goal
  <2>1. ASSUME cursor'[s] # None PROVE SeenThen(cursor'[s].hash, cursor'[s].mtime)
    <3>1. PICK h, m : cursor'[s].hash = h /\ cursor'[s].mtime = m /\ SeenSince(s, h, m)
      BY <1>1, <2>1
    <3>2. SeenSince(s, h, m)'
      BY <1>0, <3>1, SeenStays
    <3> QED
      BY <3>1, <3>2 DEF SeenSince
  <2>2. ASSUME scan'[s].pc \in {"clear", "publish"} PROVE SeenThen(scan'[s].hash, scan'[s].mtime)
    <3>1. PICK h, m : scan'[s].hash = h /\ scan'[s].mtime = m /\ SeenSince(s, h, m)
      BY <1>1, <2>2
    <3>2. SeenSince(s, h, m)'
      BY <1>0, <3>1, SeenStays
    <3> QED
      BY <3>1, <3>2 DEF SeenSince
  <2> QED
    BY <1>0, <1>1, <2>1, <2>2
<1>2. cursor'[s] = cursor[s] \/ cursor'[s] = None => Row0
  BY DEF Remembers
<1>3. scan'[s] = scan[s] \/ scan'[s].pc \in {"idle", "prune"} => Hash0 /\ Rest0
  BY DEF Remembers
<1>4. /\ scan[s].pc \in {"clear", "publish"} /\ scan'[s].pc = "publish"
      /\ scan'[s].hash = scan[s].hash /\ scan'[s].mtime = scan[s].mtime
      => Hash0 /\ Rest0
  BY DEF Remembers
<1> HIDE DEF Goal
<1>5. CASE \/ ServiceStep /\ UNCHANGED svars
           \/ \E t \in Sites \ {s} : Edit(t) \/ ScanStep(t) \/ ScannerDies(t)
  BY <1>1, <1>2, <1>3, <1>5, ScanApart
<1>6. CASE Edit(s) \/ Skip(s) \/ Publish(s)
  BY <1>1, <1>2, <1>3, <1>6 DEF Edit, Skip, Publish, vars, svars
<1>7. CASE Meet(s)
  <2>1. scan'[s].pc = "read" /\ scan'[s].mtime = mtime[s]
    BY <1>0, <1>7 DEF Meet
  <2> QED
    BY <1>0, <1>1, <1>2, <1>7, <2>1 DEF Meet
<1>8. CASE Vanished(s) \/ Pruned(s) \/ ScannerDies(s)
  <2>1. scan'[s].pc \in {"idle", "prune"}
    BY <1>0, <1>8 DEF Vanished, Pruned, ScannerDies, Waiting
  <2>2. cursor'[s] = cursor[s] \/ cursor'[s] = None
    BY <1>0, <1>8 DEF Vanished, Pruned, ScannerDies
  <2> QED
    BY <1>1, <1>2, <1>3, <2>1, <2>2
<1>9. CASE Read(s)
  <2> DEFINE h == Content(s)
  <2>1. SeenSince(s, h, scan[s].mtime)
    BY <1>0, <1>9, SeenNow DEF Remembers, Read
  <2>2. CASE h = Gone
    BY <1>0, <1>1, <1>2, <1>3, <1>9, <2>2 DEF Read, Waiting
  <2>3. CASE cursor' = [cursor EXCEPT ![s] = Row(h, scan[s].mtime)] /\ scan' = [scan EXCEPT ![s] = Waiting]
    <3>1. cursor'[s].hash = h /\ cursor'[s].mtime = scan[s].mtime
      BY <1>0, <2>3 DEF Row
    <3>2. scan'[s].pc = "idle"
      BY <1>0, <2>3 DEF Waiting
    <3> QED
      BY <1>1, <1>3, <2>1, <3>1, <3>2
  <2>4. CASE h # Gone /\ cursor' = cursor
    <3>1. scan' = [scan EXCEPT ![s].pc = "clear", ![s].hash = h, ![s].todo = h]
       \/ scan' = [scan EXCEPT ![s].pc = "publish", ![s].hash = h, ![s].todo = h]
       \/ scan' = [scan EXCEPT ![s] = Waiting]
      BY <1>9, <2>4 DEF Read
    <3>2. scan'[s].pc = "idle"
       \/ /\ scan'[s].pc \in {"clear", "publish"} /\ scan'[s].hash = h /\ scan'[s].todo = h
          /\ scan'[s].mtime = scan[s].mtime
      BY <1>0, <3>1 DEF Waiting
    <3> QED
      BY <1>1, <1>2, <1>3, <2>1, <2>4, <3>2
  <2> QED
    BY <1>9, <2>2, <2>3, <2>4 DEF Read
<1>10. CASE Cleared(s)
  <2>1. /\ scan[s].pc = "clear" /\ cursor' = cursor
        /\ scan' = [scan EXCEPT ![s].pc = "publish"] \/ scan' = [scan EXCEPT ![s] = Waiting]
    BY <1>10 DEF Cleared
  <2> QED
    BY <1>0, <1>1, <1>2, <1>3, <1>4, <2>1 DEF Waiting
<1>11. CASE TooLarge(s)
  BY <1>0, <1>1, <1>2, <1>3, <1>4, <1>11 DEF TooLarge
<1>12. CASE Published(s)
  <2>1. /\ scan[s].pc = "publish" /\ cursor' = cursor
        /\ scan'[s].pc = "publish" /\ scan'[s].hash = scan[s].hash /\ scan'[s].mtime = scan[s].mtime
    BY <1>0, <1>12 DEF Published
  <2> QED
    BY <1>1, <1>2, <1>4, <2>1
<1>13. CASE Indexed(s)
  <2>1. scan[s].pc = "publish" /\ scan'[s].pc = "idle"
    BY <1>0, <1>13 DEF Indexed, Waiting
  <2>2. cursor' = cursor \/ cursor' = [cursor EXCEPT ![s] = Row(scan[s].hash, scan[s].mtime)]
    BY <1>13 DEF Indexed
  <2>3. Row0
    BY <1>0, <1>2, <2>1, <2>2 DEF Remembers, Row
  <2> QED
    BY <1>1, <1>3, <2>1, <2>3
<1> QED
  BY <1>5, <1>6, <1>7, <1>8, <1>9, <1>10, <1>11, <1>12, <1>13 DEF Next, ScanStep

\* An edit leaves no row about a content the file has for the first time.
LEMMA EditIsNews ==
  ASSUME TypeOK, Remembers, NEW s \in Sites, Edit(s), cursor[s] # None, cursor[s].hash = Content(s)'
  PROVE  ~New(s)'
<1>1. PICK v \in 1..mtime[s] : Versions[s][v] = cursor[s].hash
  BY DEF Remembers, SeenSince
<1>2. mtime \in [Sites -> Nat] /\ mtime'[s] = mtime[s] + 1
  BY DEF TypeOK, Edit
<1>3. v \in 1..mtime'[s] - 1
  BY <1>1, <1>2
<1> QED
  BY <1>1, <1>3 DEF New

\* Points are deleted only on a row that is of another content than the file's.
LEMMA StepClearsOld ==
  ASSUME TypeOK, Remembers, ClearsOld, Next
  PROVE  ClearsOld'
<1> SUFFICES ASSUME NEW s \in Sites, scan'[s].pc \in {"clear", "prune"}, cursor'[s] # None,
                    cursor'[s].hash = Content(s)'
             PROVE  ~New(s)'
  BY DEF ClearsOld, Outdated
<1>0. /\ mtime \in [Sites -> Nat]
      /\ cursor \in [Sites -> [hash: SUBSET Chunks, mtime: Nat] \cup {None}]
      /\ scan \in [Sites -> [pc: {"idle", "read", "clear", "publish", "prune"}, mtime: Nat,
           hash: SUBSET Chunks, todo: SUBSET Chunks, tries: 0..MaxTries, failed: BOOLEAN]]
  BY DEF TypeOK
<1>1. ASSUME scan'[s].pc = scan[s].pc, cursor'[s] = cursor[s], mtime'[s] = mtime[s] PROVE ~New(s)'
  BY <1>1 DEF ClearsOld, Outdated, New, Content
<1>2. CASE \/ ServiceStep /\ UNCHANGED svars
           \/ \E t \in Sites \ {s} : Edit(t) \/ ScanStep(t) \/ ScannerDies(t)
  BY <1>1, <1>2, ScanApart
<1>3. CASE Edit(s)
  <2>1. cursor[s] # None /\ cursor[s].hash = Content(s)'
    BY <1>3 DEF Edit
  <2> QED
    BY <1>3, <2>1, EditIsNews
<1>4. CASE Skip(s) \/ Publish(s)
  BY <1>1, <1>4 DEF Skip, Publish, vars, svars
<1>5. CASE Meet(s) \/ Cleared(s) \/ TooLarge(s) \/ Published(s) \/ Indexed(s) \/ Pruned(s) \/ ScannerDies(s)
  <2>1. scan'[s].pc \in {"idle", "read", "publish"}
    BY <1>0, <1>5 DEF Meet, Cleared, TooLarge, Published, Indexed, Pruned, ScannerDies, Waiting
  <2> QED
    BY <2>1
<1>6. CASE Vanished(s)
  <2>1. cursor[s] # None /\ cursor[s].hash = Gone
    BY <1>6 DEF Vanished, Content
  <2> QED
    BY <1>0, <2>1, ScannerAssumption
<1>7. CASE Read(s)
  <2>1. Content(s)' = Content(s)
    BY <1>7 DEF Read, Content
  <2>2. cursor' = cursor /\ cursor[s].hash # Content(s)
    BY <1>0, <1>7 DEF Read, Waiting
  <2> QED
    BY <2>1, <2>2
<1> QED
  BY <1>2, <1>3, <1>4, <1>5, <1>6, <1>7 DEF Next, ScanStep

\* A site that lost a write stays among those that did.
LEMMA LostGrows ==
  ASSUME TypeOK, HasWork, Next
  PROVE  lost \subseteq lost'
<1>1. ASSUME NEW t \in Sites, Edit(t) \/ ScanStep(t) \/ ScannerDies(t) PROVE lost' = lost
  BY <1>1, ScanCovers
<1>2. ASSUME NEW t \in Sites, Serve(t) \/ RequestFails(t) PROVE lost \subseteq lost'
  BY <1>2 DEF Serve, Probe, AttachRead, AttachWrite, Scroll, Remove, RequestFails
<1>3. ASSUME NEW w \in Workers, WorkOn(w) \/ JobFails(w) PROVE lost \subseteq lost'
  BY <1>3 DEF WorkOn, Receive, Reprobe, AttachRead, AttachWrite, GetBack, Insert, JobFails
<1>4. CASE ServiceRestarts
  BY <1>4 DEF ServiceRestarts
<1> QED
  BY <1>1, <1>2, <1>3, <1>4 DEF Next, ServiceStep

\* The service lets go of nothing that was published or indexed.
LEMMA ServiceAccounts ==
  ASSUME TypeOK, HasWork, BookHeld, ReadTrue, InTurn, FoundRight, ClearsOld, Accounted, Next,
         ServiceStep, UNCHANGED svars, NEW s \in Sites
  PROVE  Delivered(s)' /\ RowTrue(s)'
<1>0. scan' = scan /\ cursor' = cursor /\ mtime' = mtime
  BY DEF svars
<1>1. s \in lost => s \in lost'
  BY LostGrows
<1>2. ASSUME proc[s].pc # "remove", NEW c, Covered(s, c) PROVE Covered(s, c)' \/ s \in lost'
  BY <1>2, CoveredStays
<1>3. ASSUME scan[s].pc = "publish", s \notin lost', ~scan[s].failed,
             NEW c \in scan[s].hash \ (scan[s].todo \cup Oversized)
      PROVE  Covered(s, c)'
  <2>1. Covered(s, c) /\ proc[s].pc # "remove"
    BY <1>1, <1>3 DEF Accounted, Delivered, InTurn
  <2> QED
    BY <1>2, <1>3, <2>1
<1>4. ASSUME scan[s].pc = "publish", s \notin lost', proc'[s].pc = "ok", NEW c, c = proc'[s].chunk
      PROVE  Covered(s, c)'
  <2>1. proc[s].chunk = c /\ proc[s].pc # "remove"
    BY <1>4, RequestMoves DEF InTurn
  <2>2. CASE proc[s].pc = "ok"
    <3>1. Covered(s, c)
      BY <1>1, <1>4, <2>1, <2>2 DEF Accounted, Delivered
    <3> QED
      BY <1>2, <1>4, <2>1, <3>1
  <2>3. CASE proc[s].pc # "ok"
    BY <1>4, <2>1, <2>3, OkCovers
  <2> QED
    BY <2>2, <2>3
<1>5. Delivered(s)'
  <2>1. ASSUME scan[s].pc = "publish", s \notin lost', proc'[s].pc = "ok"
        PROVE  Covered(s, proc[s].chunk)'
    <3>1. PICK c : c = proc'[s].chunk
      OBVIOUS
    <3>2. Covered(s, c)'
      BY <1>4, <2>1, <3>1
    <3> QED
      BY <3>1, <3>2 DEF Covered, Carries, Queued, WorkedBy
  <2> QED
    BY <1>0, <1>3, <2>1 DEF Delivered
<1>6. RowTrue(s)'
  <2> SUFFICES ASSUME cursor[s] # None, cursor[s].hash = Content(s), New(s), s \notin lost',
                      NEW c \in Content(s) \ Oversized
               PROVE  Covered(s, c)'
    <3>1. Content(s)' = Content(s) /\ (New(s)' <=> New(s))
      BY <1>0 DEF Content, New
    <3> QED
      BY <1>0, <3>1 DEF RowTrue
  <2>1. Covered(s, c)
    BY <1>1 DEF Accounted, RowTrue
  <2>2. proc[s].pc # "remove"
    <3>1. scan[s].pc \in {"idle", "read", "clear", "publish", "prune"}
      BY DEF TypeOK
    <3>2. scan[s].pc \notin {"clear", "prune"}
      BY DEF ClearsOld, Outdated
    <3> QED
      BY <3>1, <3>2 DEF InTurn
  <2> QED
    BY <1>2, <2>1, <2>2
<1> QED
  BY <1>5, <1>6

\* A scanner's own step leaves what it published, and what its rows are about, covered.
LEMMA ScanAccounts ==
  ASSUME TypeOK, HasWork, InTurn, Remembers, Accounted,
         NEW s \in Sites, NEW t \in Sites, Edit(t) \/ ScanStep(t) \/ ScannerDies(t)
  PROVE  Delivered(s)' /\ RowTrue(s)'
<1>0. /\ mtime \in [Sites -> Nat]
      /\ cursor \in [Sites -> [hash: SUBSET Chunks, mtime: Nat] \cup {None}]
      /\ scan \in [Sites -> [pc: {"idle", "read", "clear", "publish", "prune"}, mtime: Nat,
           hash: SUBSET Chunks, todo: SUBSET Chunks, tries: 0..MaxTries, failed: BOOLEAN]]
      /\ proc \in [Procs -> Locals] /\ s \in Procs
  BY DEF TypeOK, KnowledgeTypeOK, Procs
<1>1. lost' = lost /\ \A c : Covered(s, c)' <=> Covered(s, c)
  BY ScanCovers
<1> DEFINE HashOK == scan'[s].pc = "publish" /\ s \notin lost =>
                       scan'[s].failed \/ \A c \in scan'[s].hash \ (scan'[s].todo \cup Oversized) : Covered(s, c)
           OkOK == scan'[s].pc = "publish" /\ s \notin lost /\ proc'[s].pc = "ok" => Covered(s, proc'[s].chunk)
           RowOK == cursor'[s] # None /\ cursor'[s].hash = Content(s)' /\ New(s)' /\ s \notin lost =>
                      \A c \in Content(s)' \ Oversized : Covered(s, c)
           Goal == Delivered(s)' /\ RowTrue(s)'
<1>2. ASSUME HashOK, OkOK, RowOK PROVE Goal
  <2>1. ASSUME scan'[s].pc = "publish", s \notin lost', proc'[s].pc = "ok"
        PROVE  Covered(s, proc[s].chunk)'
    <3>1. PICK c : c = proc'[s].chunk
      OBVIOUS
    <3>2. Covered(s, c)'
      BY <1>1, <1>2, <2>1, <3>1
    <3> QED
      BY <3>1, <3>2 DEF Covered, Carries, Queued, WorkedBy
  <2> QED
    BY <1>1, <1>2, <2>1 DEF Delivered, RowTrue
<1>3. scan'[s] = scan[s] => HashOK
  BY DEF Accounted, Delivered
<1>4. scan'[s] = scan[s] /\ proc'[s] = proc[s] => OkOK
  BY DEF Accounted, Delivered
<1>5. cursor'[s] = cursor[s] /\ mtime'[s] = mtime[s] => RowOK
  <2>1. mtime'[s] = mtime[s] => Content(s)' = Content(s) /\ (New(s)' <=> New(s))
    BY DEF Content, New
  <2> QED
    BY <2>1 DEF Accounted, RowTrue
<1>6. scan'[s].pc # "publish" => HashOK /\ OkOK
  OBVIOUS
<1>7. cursor'[s] = None => RowOK
  OBVIOUS
<1> SUFFICES Goal
  OBVIOUS
<1>8. CASE s # t
  <2>1. scan'[s] = scan[s] /\ cursor'[s] = cursor[s] /\ mtime'[s] = mtime[s]
    BY <1>8, ScanApart
  <2>2. proc'[s] = proc[s]
    BY <1>8, ScanCovers
  <2> QED
    BY <1>2, <1>3, <1>4, <1>5, <2>1, <2>2
<1>9. CASE Edit(s)
  <2>1. scan' = scan /\ proc' = proc /\ cursor' = cursor
    BY <1>9 DEF Edit, kvars
  <2>2. RowOK
    BY <1>9, <2>1, EditIsNews
  <2> QED
    BY <1>2, <1>3, <1>4, <2>1, <2>2
<1>10. CASE Skip(s)
  <2>1. scan' = scan /\ proc' = proc /\ cursor' = cursor /\ mtime' = mtime
    BY <1>10 DEF Skip, vars, kvars, svars
  <2> QED
    BY <1>2, <1>3, <1>4, <1>5, <2>1
<1>11. CASE Meet(s) \/ Vanished(s) \/ ScannerDies(s)
  <2>1. cursor' = cursor /\ mtime' = mtime /\ scan'[s].pc # "publish"
    BY <1>0, <1>11 DEF Meet, Vanished, ScannerDies, Waiting
  <2> QED
    BY <1>2, <1>5, <1>6, <2>1
<1>12. CASE Read(s)
  <2> DEFINE h == Content(s)
  <2>1. mtime' = mtime /\ proc[s].pc = "idle"
    BY <1>12 DEF Read, InTurn
  <2>2. RowOK
    <3>1. cursor' = cursor \/ /\ cursor[s] # None /\ cursor[s].hash = h
                              /\ cursor' = [cursor EXCEPT ![s] = Row(h, scan[s].mtime)]
      BY <1>12 DEF Read
    <3>2. CASE cursor[s] # None /\ cursor[s].hash = h
      <4>1. Content(s)' = h /\ (New(s)' <=> New(s))
        BY <2>1 DEF Content, New
      <4> QED
        BY <3>2, <4>1 DEF Accounted, RowTrue
    <3> QED
      BY <1>5, <2>1, <3>1, <3>2
  <2>3. CASE h # Gone /\ cursor[s] = None
    <3>1. proc' = proc /\ scan' = [scan EXCEPT ![s].pc = "publish", ![s].hash = h, ![s].todo = h]
      BY <1>12, <2>3 DEF Read
    <3>2. scan'[s].hash = h /\ scan'[s].todo = h
      BY <1>0, <3>1
    <3> QED
      BY <1>2, <2>1, <2>2, <3>1, <3>2
  <2>4. CASE ~(h # Gone /\ cursor[s] = None)
    <3>1. scan' = [scan EXCEPT ![s].pc = "clear", ![s].hash = h, ![s].todo = h]
       \/ scan' = [scan EXCEPT ![s] = Waiting]
      BY <1>12, <2>4 DEF Read
    <3>2. scan'[s].pc # "publish"
      BY <1>0, <3>1 DEF Waiting
    <3> QED
      BY <1>2, <1>6, <2>2, <3>2
  <2> QED
    BY <2>3, <2>4
<1>13. CASE Cleared(s)
  <2>1. cursor' = cursor /\ mtime' = mtime /\ proc'[s].pc = "idle"
    BY <1>0, <1>13 DEF Cleared, Answered, Resting, Local
  <2>2. HashOK
    <3>1. scan[s].todo = scan[s].hash
      BY <1>13 DEF Remembers, Cleared
    <3>2. scan' = [scan EXCEPT ![s].pc = "publish"] \/ scan' = [scan EXCEPT ![s] = Waiting]
      BY <1>13 DEF Cleared
    <3>3. scan'[s].pc # "publish" \/ scan'[s].todo = scan'[s].hash
      BY <1>0, <3>1, <3>2 DEF Waiting
    <3> QED
      BY <3>3
  <2> QED
    BY <1>2, <1>5, <2>1, <2>2
<1>14. CASE Publish(s)
  <2>1. scan' = scan /\ cursor' = cursor /\ mtime' = mtime /\ proc'[s].pc = "probe"
    BY <1>0, <1>14 DEF Publish, Local, svars
  <2> QED
    BY <1>2, <1>3, <1>5, <2>1
<1>15. CASE TooLarge(s)
  <2>1. cursor' = cursor /\ mtime' = mtime /\ proc[s].pc = "idle" /\ proc' = proc /\ scan[s].pc = "publish"
    BY <1>15 DEF TooLarge, kvars
  <2>2. PICK c \in Oversized : scan' = [scan EXCEPT ![s].todo = @ \ {c}]
    BY <1>15 DEF TooLarge
  <2>3. /\ scan'[s].todo = scan[s].todo \ {c} /\ scan'[s].hash = scan[s].hash
        /\ scan'[s].failed = scan[s].failed
    BY <1>0, <2>2
  <2>4. HashOK
    BY <2>1, <2>2, <2>3 DEF Accounted, Delivered
  <2> QED
    BY <1>2, <1>5, <2>1, <2>4
<1>16. CASE Published(s)
  <2>1. cursor' = cursor /\ mtime' = mtime /\ proc'[s].pc \in {"idle", "probe"} /\ scan[s].pc = "publish"
    BY <1>0, <1>16 DEF Published, Answered, Resting, Local, Goto, Locals
  <2>2. CASE scan' = [scan EXCEPT ![s].tries = @ + 1]
    <3>1. scan'[s].todo = scan[s].todo /\ scan'[s].hash = scan[s].hash /\ scan'[s].failed = scan[s].failed
      BY <1>0, <2>2
    <3>2. HashOK
      BY <2>1, <3>1 DEF Accounted, Delivered
    <3> QED
      BY <1>2, <1>5, <2>1, <3>2
  <2>3. ASSUME NEW f \in BOOLEAN, f \/ proc[s].pc = "ok",
               scan' = [scan EXCEPT ![s].todo = @ \ {proc[s].chunk}, ![s].tries = 0, ![s].failed = @ \/ f]
        PROVE  Goal
    <3>1. /\ scan'[s].todo = scan[s].todo \ {proc[s].chunk} /\ scan'[s].hash = scan[s].hash
          /\ scan'[s].failed = (scan[s].failed \/ f)
      BY <1>0, <2>3
    <3>2. HashOK
      BY <2>1, <2>3, <3>1 DEF Accounted, Delivered
    <3> QED
      BY <1>2, <1>5, <2>1, <3>2
  <2> QED
    BY <1>16, <2>2, <2>3 DEF Published, Answered
<1>17. CASE Indexed(s)
  <2>1. scan[s].pc = "publish" /\ scan[s].todo = {} /\ mtime' = mtime /\ scan'[s].pc = "idle"
    BY <1>0, <1>17 DEF Indexed, Waiting
  <2>2. CASE scan[s].failed
    BY <1>2, <1>5, <1>6, <1>17, <2>1, <2>2 DEF Indexed
  <2>3. CASE ~scan[s].failed
    <3>1. cursor'[s].hash = scan[s].hash
      BY <1>0, <1>17, <2>3 DEF Indexed, Row
    <3>2. RowOK
      BY <2>1, <2>3, <3>1 DEF Accounted, Delivered
    <3> QED
      BY <1>2, <1>6, <2>1, <3>2
  <2> QED
    BY <2>2, <2>3
<1>18. CASE Pruned(s)
  <2>1. mtime' = mtime /\ scan'[s].pc = "idle"
    BY <1>0, <1>18 DEF Pruned, Waiting
  <2>2. cursor'[s] = None \/ cursor'[s] = cursor[s]
    BY <1>0, <1>18 DEF Pruned
  <2> QED
    BY <1>2, <1>5, <1>6, <1>7, <2>1, <2>2
<1> QED
  BY <1>9, <1>10, <1>11, <1>12, <1>13, <1>14, <1>15, <1>16, <1>17, <1>18, <1>8 DEF ScanStep

\* Nothing is promised at first.
LEMMA InitStored == Init => StoredInv
BY DEF Init, KnowledgeInit, StoredInv, InTurn, FoundRight, Remembers, ClearsOld, Accounted, Delivered,
       RowTrue, Outdated, Waiting, Resting, Local, Procs

\* Every step, and every stutter, keeps what the cursors promise.
LEMMA StepStored == IInv /\ StoredInv /\ [Next]_vars => StoredInv'
<1>1. ASSUME IInv, StoredInv, Next PROVE StoredInv'
  <2>1. InTurn' /\ FoundRight' /\ Remembers' /\ ClearsOld'
    BY <1>1, StepInTurn, StepFoundRight, StepRemembers, StepClearsOld DEF IInv, StoredInv
  <2>2. ASSUME NEW s \in Sites PROVE Delivered(s)' /\ RowTrue(s)'
    <3>1. CASE ServiceStep /\ UNCHANGED svars
      BY <1>1, <3>1, ServiceAccounts DEF IInv, StoredInv
    <3>2. CASE \E t \in Sites : Edit(t) \/ ScanStep(t) \/ ScannerDies(t)
      BY <1>1, <3>2, ScanAccounts DEF IInv, StoredInv
    <3> QED
      BY <1>1, <3>1, <3>2 DEF Next
  <2> QED
    BY <2>1, <2>2 DEF StoredInv, Accounted
<1>2. ASSUME StoredInv, UNCHANGED vars PROVE StoredInv'
  BY <1>2 DEF StoredInv, InTurn, FoundRight, Remembers, SeenSince, ClearsOld, Outdated, New, Content,
              Accounted, Delivered, RowTrue, Covered, Carries, Queued, WorkedBy, Holding, CarriedBy,
              Stored, vars, kvars, svars
<1> QED
  BY <1>1, <1>2

\* A row of a file's last mtime is of the content it has now, and once no job of
\* the file is on its way what covers its chunks can only be points.
LEMMA PromisesKept == TypeOK /\ StoredInv => IndexedIsStored
<1> SUFFICES ASSUME TypeOK, StoredInv, NEW s \in Sites, Settled(s), s \notin lost,
                    \A v \in 1..mtime[s] - 1 : Versions[s][v] # Content(s)
             PROVE  AllStored(s)
  BY DEF IndexedIsStored
<1>1. mtime[s] \in Nat
  BY DEF TypeOK
<1>2. cursor[s] # None /\ cursor[s].mtime = mtime[s] /\ New(s) /\ ~Pending(s)
  BY DEF Settled, UpToDate, New
<1>3. PICK v \in 1..mtime[s] : mtime[s] <= v /\ Versions[s][v] = cursor[s].hash
  BY <1>2 DEF StoredInv, Remembers, SeenSince
<1>4. cursor[s].hash = Content(s)
  <2>1. v = mtime[s]
    BY <1>1, <1>3
  <2> QED
    BY <1>3, <2>1 DEF Content
<1>5. \A c \in Content(s) \ Oversized : Covered(s, c)
  BY <1>2, <1>4 DEF StoredInv, Accounted, RowTrue
<1>6. \A c : ~Queued(s, c) /\ \A w \in Workers : ~WorkedBy(w, s, c)
  BY <1>2 DEF Pending, Queued, WorkedBy
<1> QED
  BY <1>5, <1>6 DEF Covered, Carries, AllStored

\* What the cursors promise holds of every state of every behaviour.
LEMMA StoredInvariance == Spec => []StoredInv
BY InitStored, StepStored, Invariance, PTL DEF Spec

\* scan_root and the index route: whatever scans, attaches, deletes and restarts
\* come between, a file that settles with content it never had before has every
\* chunk that fits stored with its location, unless an accepted write was lost.
THEOREM IndexedFilesAreStored == Spec => []IndexedIsStored
<1>1. IInv /\ StoredInv => IndexedIsStored
  BY PromisesKept DEF IInv
<1> QED
  BY <1>1, Invariance, StoredInvariance, PTL
=============================================================================
