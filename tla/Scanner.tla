-------------------------------- MODULE Scanner --------------------------------
(***************************************************************************)
(* klams-scanner over the knowledge store: each location's file is edited  *)
(* or removed, and scanned again and again against a cursor row that       *)
(* remembers the hash and mtime last indexed.  Every site has a scanner of *)
(* its own here; files of one host take turns in the code.                 *)
(***************************************************************************)
EXTENDS Knowledge

CONSTANTS Versions,     \* a file's contents over time, each a set of chunks or Gone
          Oversized,    \* chunks the embedder's ceiling refuses (413)
          MaxTries,     \* bound: attempts at one chunk while the queue is full
          Gone

ASSUME ScannerAssumption ==
  /\ \A h \in SUBSET Chunks : h # Gone
  /\ \A s \in Sites : Versions[s] \in Seq({Gone} \cup SUBSET Chunks) \ {<<>>}
  /\ Oversized \subseteq Chunks /\ MaxTries \in Nat \ {0}
  /\ None \notin [hash: SUBSET Chunks, mtime: Nat]

VARIABLES mtime,    \* how far each file has come in its Versions
          cursor,   \* each file's cursor row
          scan      \* where each file's scan is

svars == <<mtime, cursor, scan>>
vars == <<kvars, svars>>

Content(s) == Versions[s][mtime[s]]
Row(h, m) == [hash |-> h, mtime |-> m]
Waiting == [pc |-> "idle", mtime |-> 0, hash |-> {}, todo |-> {}, tries |-> 0, failed |-> FALSE]

\* Nothing for the next scan to do.
UpToDate(s) ==
  IF Content(s) = Gone THEN cursor[s] = None
  ELSE cursor[s] # None /\ cursor[s].mtime = mtime[s]

Init ==
  /\ KnowledgeInit
  /\ mtime = [s \in Sites |-> 1]
  /\ cursor = [s \in Sites |-> None]
  /\ scan = [s \in Sites |-> Waiting]

\* The file is written, moved or removed, with a new mtime.
Edit(s) ==
  /\ mtime[s] < Len(Versions[s])
  /\ mtime' = [mtime EXCEPT ![s] = @ + 1]
  /\ UNCHANGED <<kvars, cursor, scan>>

\* The walk passes over a file whose mtime is the cursor row's.
Skip(s) ==
  /\ scan[s].pc = "idle" /\ UpToDate(s)
  /\ UNCHANGED vars

\* The walk meets a file that its cursor row does not answer for.
Meet(s) ==
  /\ scan[s].pc = "idle" /\ ~UpToDate(s) /\ Content(s) # Gone
  /\ scan' = [scan EXCEPT ![s].pc = "read", ![s].mtime = mtime[s]]
  /\ UNCHANGED <<proc, points, book, queue, lost, passed, faults, mtime, cursor>>

\* A cursor row under the root whose file the walk has not seen: a delete of its points.
Vanished(s) ==
  /\ scan[s].pc = "idle" /\ ~UpToDate(s) /\ Content(s) = Gone
  /\ scan' = [scan EXCEPT ![s].pc = "prune"]
  /\ Goto(s, "scroll")
  /\ UNCHANGED <<points, book, queue, lost, passed, faults, mtime, cursor>>

\* The file is read.  One that cannot be is skipped; one whose hash is the
\* cursor's has its mtime noted; one indexed before has its points deleted first.
Read(s) ==
  LET h == Content(s)
      row == cursor[s]
  IN
  /\ scan[s].pc = "read"
  /\ \/ /\ h = Gone
        /\ scan' = [scan EXCEPT ![s] = Waiting]
        /\ UNCHANGED <<proc, cursor>>
     \/ /\ h # Gone /\ row # None /\ row.hash = h
        /\ cursor' = [cursor EXCEPT ![s] = Row(h, scan[s].mtime)]
        /\ scan' = [scan EXCEPT ![s] = Waiting]
        /\ UNCHANGED proc
     \/ /\ h # Gone /\ row # None /\ row.hash # h
        /\ scan' = [scan EXCEPT ![s].pc = "clear", ![s].hash = h, ![s].todo = h]
        /\ Goto(s, "scroll")
        /\ UNCHANGED cursor
     \/ /\ h # Gone /\ row = None
        /\ scan' = [scan EXCEPT ![s].pc = "publish", ![s].hash = h, ![s].todo = h]
        /\ UNCHANGED <<proc, cursor>>
  /\ UNCHANGED <<points, book, queue, lost, passed, faults, mtime>>

Answered(s, a) == proc[s].pc = a /\ proc' = [proc EXCEPT ![s] = Resting]

\* The delete before a reindex is answered; if it failed the file waits for the
\* next scan.
Cleared(s) ==
  /\ scan[s].pc = "clear"
  /\ \/ Answered(s, "ok") /\ scan' = [scan EXCEPT ![s].pc = "publish"]
     \/ Answered(s, "error") /\ scan' = [scan EXCEPT ![s] = Waiting]
  /\ UNCHANGED <<points, book, queue, lost, passed, faults, mtime, cursor>>

Publish(s) ==
  /\ scan[s].pc = "publish" /\ proc[s].pc = "idle"
  /\ \E c \in scan[s].todo \ Oversized : proc' = [proc EXCEPT ![s] = Local("probe", c, s, None, {})]
  /\ UNCHANGED <<points, book, queue, lost, passed, faults, svars>>

\* MUTANT of TooLarge: the file is held back for a chunk that will never do.
TooLargeFails(s) ==
  /\ scan[s].pc = "publish" /\ proc[s].pc = "idle"
  /\ \E c \in scan[s].todo \cap Oversized :
       scan' = [scan EXCEPT ![s].todo = @ \ {c}, ![s].failed = TRUE]
  /\ UNCHANGED <<kvars, mtime, cursor>>

\* 413: the chunk is skipped for good.
TooLarge(s) ==
  /\ scan[s].pc = "publish" /\ proc[s].pc = "idle"
  /\ \E c \in scan[s].todo \cap Oversized : scan' = [scan EXCEPT ![s].todo = @ \ {c}]
  /\ UNCHANGED <<kvars, mtime, cursor>>

\* 202, an error, or 503: after the last attempt a full queue is an error too.
Published(s) ==
  LET c == proc[s].chunk
      done(failed) == scan' = [scan EXCEPT ![s].todo = @ \ {c}, ![s].tries = 0,
                                           ![s].failed = @ \/ failed]
  IN
  /\ scan[s].pc = "publish"
  /\ \/ /\ Answered(s, "ok") /\ done(FALSE)
     \/ Answered(s, "error") /\ done(TRUE)
     \/ /\ proc[s].pc = "busy" /\ scan[s].tries + 1 < MaxTries
        /\ Goto(s, "probe")
        /\ scan' = [scan EXCEPT ![s].tries = @ + 1]
     \/ /\ scan[s].tries + 1 = MaxTries
        /\ Answered(s, "busy") /\ done(TRUE)
  /\ UNCHANGED <<points, book, queue, lost, passed, faults, mtime, cursor>>

\* MUTANT of Indexed: the cursor moves on over chunks that failed.
IndexedAnyway(s) ==
  /\ scan[s].pc = "publish" /\ scan[s].todo = {}
  /\ cursor' = [cursor EXCEPT ![s] = Row(scan[s].hash, scan[s].mtime)]
  /\ scan' = [scan EXCEPT ![s] = Waiting]
  /\ UNCHANGED <<kvars, mtime>>

\* The cursor moves only if every chunk went through.
Indexed(s) ==
  /\ scan[s].pc = "publish" /\ scan[s].todo = {}
  /\ cursor' = IF scan[s].failed THEN cursor
               ELSE [cursor EXCEPT ![s] = Row(scan[s].hash, scan[s].mtime)]
  /\ scan' = [scan EXCEPT ![s] = Waiting]
  /\ UNCHANGED <<kvars, mtime>>

\* MUTANT of Pruned: the row goes whether or not the points did.
PrunedAnyway(s) ==
  /\ scan[s].pc = "prune"
  /\ Answered(s, "ok") \/ Answered(s, "error")
  /\ cursor' = [cursor EXCEPT ![s] = None]
  /\ scan' = [scan EXCEPT ![s] = Waiting]
  /\ UNCHANGED <<points, book, queue, lost, passed, faults, mtime>>

\* The delete for a vanished file is answered: the row goes if the points did.
Pruned(s) ==
  /\ scan[s].pc = "prune"
  /\ \/ Answered(s, "ok") /\ cursor' = [cursor EXCEPT ![s] = None]
     \/ Answered(s, "error") /\ UNCHANGED cursor
  /\ scan' = [scan EXCEPT ![s] = Waiting]
  /\ UNCHANGED <<points, book, queue, lost, passed, faults, mtime>>

\* The scanner is killed; its connection closes and the handler is dropped.
ScannerDies(s) ==
  /\ Fault
  /\ scan[s].pc # "idle"
  /\ scan' = [scan EXCEPT ![s] = Waiting]
  /\ proc' = [proc EXCEPT ![s] = Resting]
  /\ Unlock(s)
  /\ UNCHANGED <<points, queue, lost, passed, mtime, cursor>>

-----------------------------------------------------------------------------
ScanStep(s) ==
  \/ Skip(s) \/ Meet(s) \/ Vanished(s) \/ Read(s) \/ Cleared(s) \/ Publish(s) \/ TooLarge(s)
  \/ Published(s) \/ Indexed(s) \/ Pruned(s)

ServiceStep ==
  \/ \E s \in Sites : Serve(s) \/ RequestFails(s)
  \/ \E w \in Workers : WorkOn(w) \/ JobFails(w)
  \/ ServiceRestarts

Next ==
  \/ \E s \in Sites : Edit(s) \/ ScanStep(s) \/ ScannerDies(s)
  \/ ServiceStep /\ UNCHANGED svars

Spec == Init /\ [][Next]_vars

\* The timer starts scans for ever, the runtime polls handlers and workers, and
\* the mutex is handed over in the order it was asked for.
FairSpec ==
  /\ Spec
  /\ \A s \in Sites : WF_vars(ScanStep(s)) /\ SF_vars(Serve(s) /\ UNCHANGED svars)
  /\ \A w \in Workers : SF_vars(WorkOn(w) /\ UNCHANGED svars)

-----------------------------------------------------------------------------
(* Properties *)

TypeOK ==
  /\ KnowledgeTypeOK
  /\ mtime \in [Sites -> Nat] /\ \A s \in Sites : mtime[s] \in DOMAIN Versions[s]
  /\ cursor \in [Sites -> [hash: SUBSET Chunks, mtime: Nat] \cup {None}]
  /\ scan \in [Sites ->
       [pc: {"idle", "read", "clear", "publish", "prune"}, mtime: Nat,
        hash: SUBSET Chunks, todo: SUBSET Chunks, tries: 0..MaxTries, failed: BOOLEAN]]

\* A recorded location leaves a point only by a delete of that very location:
\* no other site's delete or attach takes it, or its point, away.
KeepsCopies ==
  \A s \in Sites : \A i \in CarriedBy(s) \ CarriedBy(s)' : proc[s].pc = "remove"
CopiesKept == [][KeepsCopies]_vars

\* Every chunk of the file as it is that fits is stored, with its location.
AllStored(s) ==
  \A c \in Content(s) \ Oversized : \E i \in Holding(c) : i \in CarriedBy(s)

\* The next scan will pass the file over, and nothing is on its way.
Settled(s) ==
  /\ Content(s) # Gone /\ UpToDate(s)
  /\ scan[s].pc = "idle" /\ ~Pending(s)

\* A file that settles with content it never had before is all stored, unless
\* an accepted write was lost.
IndexedIsStored ==
  \A s \in Sites :
    Settled(s) /\ s \notin lost /\ (\A v \in 1..mtime[s] - 1 : Versions[s][v] # Content(s))
      => AllStored(s)

\* Nothing of a file is left once the scanner has forgotten it, unless its
\* delete went past a write of its own that was still on its way.
ForgetsNone ==
  \A s \in Sites : cursor[s] # None /\ cursor'[s] = None /\ s \notin passed => CarriedBy(s) = {}
PrunedIsGone == [][ForgetsNone]_vars

\* However scans, services and writes fail meanwhile, every file is indexed or
\* forgotten in the end: no chunk holds a file back for ever.
ScansConverge == \A s \in Sites : <>[]UpToDate(s)

\* scan_root: after a failed publish the cursor stays so that the next scan
\* retries the file, which the hash short-circuit would else skip for ever.
FailedIsRetried == \A s \in Sites : Settled(s) /\ s \notin lost => AllStored(s)
=============================================================================
