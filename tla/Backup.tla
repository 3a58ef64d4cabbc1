-------------------------------- MODULE Backup --------------------------------
(***************************************************************************)
(* Backup runs of klams-service: run_once with its lockfile, maintenance   *)
(* flag, artifacts and pruning, started by the service's scheduler or by   *)
(* a --run-backup-now process beside it; crashes at any point; and the     *)
(* stale-lock recovery of the service's start.                             *)
(***************************************************************************)
EXTENDS Retention

CONSTANTS Service,      \* the long-running process
          Clis,         \* --run-backup-now processes
          Strategies,   \* settings of same_day_strategy
          MaxRuns,      \* bound: runs started
          MaxDay,       \* bound: days
          Torn,         \* a lockfile whose contents are missing or cut short
          None

Procs == {Service} \cup Clis
Kinds == {"Postgres", "Qdrant"}
Runs == 1..MaxRuns
Days == 0..MaxDay

ASSUME BackupAssumption ==
  /\ Service \notin Clis
  /\ Strategies \subseteq {"suffix", "overwrite"}
  /\ MaxRuns \in Nat /\ MaxDay \in Nat
  /\ None \notin Runs \cup {Torn} /\ None \notin Kinds /\ Torn \notin Runs

VARIABLES strategy,     \* the configured same_day_strategy
          day,          \* today, in UTC
          fired,        \* days whose window has come
          runs,         \* runs started so far
          proc,         \* each process: where it is in run_once, and its locals
          lock,         \* the lockfile: None, Torn, or the run it names
          partials,     \* .partial files, with the runs that wrote them
          files,        \* committed artifacts, with the runs that wrote them
          maintenance,  \* the service's maintenance flag
          overlapped,   \* history: a run got past the lock beside another
          abandoned     \* history: a crash or a failed removal left a lockfile

vars ==
  <<strategy, day, fired, runs, proc, lock, partials, files, maintenance, overlapped, abandoned>>

PCs == {"down", "idle", "create", "write", "begin", "started", "open", "dump",
        "prune", "release", "finished", "failed"}
Local(pc, r, d, k, n, made) ==
  [pc |-> pc, run |-> r, date |-> d, kind |-> k, suffix |-> n, made |-> made]
Down == Local("down", None, 0, None, 0, {})
Ready == Local("idle", None, 0, None, 0, {})
Rest(p) == IF p = Service THEN Ready ELSE Down

\* A run is in flight from the moment it owns the lock until it lets go.
InFlight(p) == proc[p].pc \in {"begin", "started", "open", "dump", "prune", "release"}
Owning(p) == InFlight(p) \/ proc[p].pc \in {"create", "write"}
Succeeded(p) == {m.kind : m \in proc[p].made} = Kinds
LiveRun(r) == \E p \in Procs : proc[p].run = r /\ proc[p].pc # "down"

FilesOf(k) == {f \in files : f.kind = k}
SameName(f, k, d, n) == f.kind = k /\ f.day = d /\ f.suffix = n
Writers(k, d, n) ==
  {proc[p].run : p \in {q \in Procs : /\ proc[q].pc = "dump" /\ proc[q].kind = k
                                      /\ proc[q].date = d /\ proc[q].suffix = n}}
Goto(p, pc) == proc' = [proc EXCEPT ![p].pc = pc]

Init ==
  /\ strategy \in Strategies
  /\ day = 0 /\ fired = {} /\ runs = 0
  /\ proc = [p \in Procs |-> Down]
  /\ lock = None
  /\ partials = {} /\ files = {}
  /\ maintenance = FALSE
  /\ overlapped = FALSE /\ abandoned = FALSE

-----------------------------------------------------------------------------
(* Starting a run *)

\* acquire_lock looks for the file first; a run that finds one is over.
StartRun(p) ==
  /\ runs < MaxRuns
  /\ runs' = runs + 1
  /\ proc' = [proc EXCEPT ![p] =
       IF lock = None THEN Local("create", runs', day, None, 0, {}) ELSE Rest(p)]
  /\ overlapped' = (overlapped \/ (lock = None /\ \E q \in Procs : Owning(q)))
  /\ UNCHANGED <<strategy, day, lock, partials, files, maintenance, abandoned>>

\* The scheduler's window comes once a day, and goes by if the service is down
\* or still busy.
Window ==
  /\ proc[Service].pc = "idle" /\ day \notin fired
  /\ fired' = fired \cup {day}
  /\ StartRun(Service)

RunNow(p) ==
  /\ p \in Clis /\ proc[p].pc = "down"
  /\ StartRun(p)
  /\ UNCHANGED fired

\* ... then writes it: the file appears empty ...
CreateLock(p) ==
  /\ proc[p].pc = "create"
  /\ lock' = Torn
  /\ Goto(p, "write")
  /\ UNCHANGED <<strategy, day, fired, runs, partials, files, maintenance, overlapped, abandoned>>

\* ... and its contents follow, unless the disk is full.
WriteLock(p) ==
  /\ proc[p].pc = "write"
  /\ \/ /\ lock' = proc[p].run
        /\ Goto(p, "begin")
     \/ /\ proc' = [proc EXCEPT ![p] = Rest(p)]
        /\ UNCHANGED lock
  /\ UNCHANGED <<strategy, day, fired, runs, partials, files, maintenance, overlapped, abandoned>>

\* mark_active, on the process's own flag; then the status hook is called.
Begin(p) ==
  /\ proc[p].pc = "begin"
  /\ proc' = [proc EXCEPT ![p].pc = "started", ![p].kind = "Postgres"]
  /\ maintenance' = (maintenance \/ p = Service)
  /\ UNCHANGED <<strategy, day, fired, runs, lock, partials, files, overlapped, abandoned>>

\* The call comes back, whatever came of it.
HookBack(p) ==
  /\ proc[p].pc = "started"
  /\ Goto(p, "open")
  /\ UNCHANGED <<strategy, day, fired, runs, lock, partials, files, maintenance, overlapped, abandoned>>

-----------------------------------------------------------------------------
(* Artifacts *)

\* MUTANT of AfterArtifact: prune whatever became of the artifacts.
PruneAlways(p, made) ==
  proc' = [proc EXCEPT
    ![p].made = made,
    ![p].kind = IF @ = "Postgres" THEN "Qdrant" ELSE "Postgres",
    ![p].pc = IF proc[p].kind = "Postgres" THEN "open" ELSE "prune"]

\* Where a run goes after the artifact of its kind, made or not.
AfterArtifact(p, made) ==
  proc' = [proc EXCEPT
    ![p].made = made,
    ![p].kind = IF @ = "Postgres" THEN "Qdrant" ELSE "Postgres",
    ![p].pc = IF proc[p].kind = "Postgres" THEN "open"
              ELSE IF {m.kind : m \in made} = Kinds THEN "prune" ELSE "release"]

\* MUTANT of OpenPartial: what is there already is appended to.
OpenAppends(p) ==
  LET k == proc[p].kind
      d == proc[p].date
      n == IF strategy = "overwrite" THEN 0 ELSE FreeSuffix(FilesOf(k), d)
      left == {f \in partials : SameName(f, k, d, n)}
  IN
  /\ proc[p].pc = "open"
  /\ \/ /\ partials' = (partials \ left) \cup
             {[kind |-> k, day |-> d, suffix |-> n,
               by |-> UNION {f.by : f \in left} \cup {proc[p].run}]}
        /\ proc' = [proc EXCEPT ![p].pc = "dump", ![p].suffix = n]
     \/ AfterArtifact(p, proc[p].made) /\ UNCHANGED partials
  /\ UNCHANGED <<strategy, day, fired, runs, lock, files, maintenance, overlapped, abandoned>>

\* next_suffix_for_date, then pg_dump or the download opens its .partial file,
\* over what a dead run may have left there; or the attempt fails first.
OpenPartial(p) ==
  LET k == proc[p].kind
      d == proc[p].date
      n == IF strategy = "overwrite" THEN 0 ELSE FreeSuffix(FilesOf(k), d)
  IN
  /\ proc[p].pc = "open"
  /\ \/ /\ partials' = {f \in partials : ~SameName(f, k, d, n)} \cup
             {[kind |-> k, day |-> d, suffix |-> n,
               by |-> Writers(k, d, n) \cup {proc[p].run}]}
        /\ proc' = [proc EXCEPT ![p].pc = "dump", ![p].suffix = n]
     \/ AfterArtifact(p, proc[p].made) /\ UNCHANGED partials
  /\ UNCHANGED <<strategy, day, fired, runs, lock, files, maintenance, overlapped, abandoned>>

\* MUTANT of Commit: a file that is there already is not replaced.
CommitSpares(p) ==
  LET k == proc[p].kind
      d == proc[p].date
      n == proc[p].suffix
  IN
  /\ proc[p].pc = "dump"
  /\ \E f \in partials :
       /\ SameName(f, k, d, n)
       /\ partials' = partials \ {f}
       /\ files' = IF \E g \in files : SameName(g, k, d, n) THEN files ELSE files \cup {f}
       /\ \/ AfterArtifact(p, proc[p].made \cup {[kind |-> k, suffix |-> n]})
          \/ AfterArtifact(p, proc[p].made)
  /\ UNCHANGED <<strategy, day, fired, runs, lock, maintenance, overlapped, abandoned>>

\* The rename, which needs the .partial file to be there still; the artifact
\* counts as made only if its size can then be read.
Commit(p) ==
  LET k == proc[p].kind
      d == proc[p].date
      n == proc[p].suffix
  IN
  /\ proc[p].pc = "dump"
  /\ \E f \in partials :
       /\ SameName(f, k, d, n)
       /\ partials' = partials \ {f}
       /\ files' = {g \in files : ~SameName(g, k, d, n)} \cup {f}
       /\ \/ AfterArtifact(p, proc[p].made \cup {[kind |-> k, suffix |-> n]})
          \/ AfterArtifact(p, proc[p].made)
  /\ UNCHANGED <<strategy, day, fired, runs, lock, maintenance, overlapped, abandoned>>

\* The dump, the download or the rename fails; a .partial file stays.
DumpFails(p) ==
  /\ proc[p].pc = "dump"
  /\ AfterArtifact(p, proc[p].made)
  /\ UNCHANGED <<strategy, day, fired, runs, lock, partials, files, maintenance, overlapped, abandoned>>

\* Retention, kind by kind; a file that cannot be removed is skipped.
Prune(p) ==
  LET k == proc[p].kind IN
  /\ proc[p].pc = "prune"
  /\ \E kept \in SUBSET Doomed(FilesOf(k)) :
       files' = files \ (Doomed(FilesOf(k)) \ kept)
  /\ proc' = [proc EXCEPT
       ![p].kind = IF @ = "Postgres" THEN "Qdrant" ELSE "Postgres",
       ![p].pc = IF k = "Postgres" THEN "prune" ELSE "release"]
  /\ UNCHANGED <<strategy, day, fired, runs, lock, partials, maintenance, overlapped, abandoned>>

-----------------------------------------------------------------------------
(* Ending a run *)

\* MUTANT of Release: the error of a run leaves before anything is given back.
ReleaseIfOk(p) ==
  /\ proc[p].pc = "release"
  /\ IF Succeeded(p)
     THEN /\ maintenance' = (maintenance /\ p # Service)
          /\ lock' \in {None, lock} /\ abandoned' = (abandoned \/ lock' # None)
     ELSE UNCHANGED <<maintenance, lock, abandoned>>
  /\ Goto(p, IF Succeeded(p) THEN "finished" ELSE "failed")
  /\ UNCHANGED <<strategy, day, fired, runs, partials, files, overlapped>>

\* clear, then release_lock, which removes whatever lockfile is there, or fails to.
Release(p) ==
  /\ proc[p].pc = "release"
  /\ maintenance' = (maintenance /\ p # Service)
  /\ lock' \in {None, lock} /\ abandoned' = (abandoned \/ lock' # None)
  /\ Goto(p, IF Succeeded(p) THEN "finished" ELSE "failed")
  /\ UNCHANGED <<strategy, day, fired, runs, partials, files, overlapped>>

\* The call of the terminal status hook comes back; the process goes on or exits.
EndRun(p) ==
  /\ proc[p].pc \in {"finished", "failed"}
  /\ proc' = [proc EXCEPT ![p] = Rest(p)]
  /\ UNCHANGED <<strategy, day, fired, runs, lock, partials, files, maintenance, overlapped, abandoned>>

-----------------------------------------------------------------------------
(* The service's life, and the calendar *)

Crash(p) ==
  /\ proc[p].pc # "down"
  /\ proc' = [proc EXCEPT ![p] = Down]
  /\ maintenance' = (maintenance /\ p # Service)
  /\ abandoned' = (abandoned \/ Owning(p))
  /\ UNCHANGED <<strategy, day, fired, runs, lock, partials, files, overlapped>>

\* MUTANT of Boot: any lockfile that parses is taken for stale.
BootAnyLock ==
  /\ proc[Service].pc = "down"
  /\ proc' = [proc EXCEPT ![Service] = Ready]
  /\ IF lock \in Runs
     THEN lock' \in {None, lock} /\ partials' \in SUBSET partials
     ELSE UNCHANGED <<lock, partials>>
  /\ UNCHANGED <<strategy, day, fired, runs, files, maintenance, overlapped, abandoned>>

\* recover_stale_lock at start: a lockfile that names a dead process goes, with
\* the .partial files, unless the removal fails or another process has meanwhile
\* been given that pid; one that does not parse stays.
Boot ==
  /\ proc[Service].pc = "down"
  /\ proc' = [proc EXCEPT ![Service] = Ready]
  /\ IF lock \in Runs /\ ~LiveRun(lock)
     THEN lock' \in {None, lock} /\ partials' \in SUBSET partials
     ELSE UNCHANGED <<lock, partials>>
  /\ UNCHANGED <<strategy, day, fired, runs, files, maintenance, overlapped, abandoned>>

NextDay ==
  /\ day < MaxDay
  /\ day' = day + 1
  /\ UNCHANGED <<strategy, fired, runs, proc, lock, partials, files, maintenance, overlapped, abandoned>>

-----------------------------------------------------------------------------
RunStep(p) ==
  \/ CreateLock(p) \/ WriteLock(p) \/ Begin(p) \/ HookBack(p)
  \/ OpenPartial(p) \/ Commit(p) \/ DumpFails(p) \/ Prune(p)
  \/ Release(p) \/ EndRun(p)

Next ==
  \/ Window \/ Boot \/ NextDay
  \/ \E p \in Procs : RunNow(p) \/ RunStep(p) \/ Crash(p)

Spec == Init /\ [][Next]_vars

\* pg_dump and the status hook are waited for without a timeout over the whole of the
\* wait (Command::output; spawn_and_wait, see Hook).
Waiting(p) ==
  \/ proc[p].pc \in {"started", "finished", "failed"}
  \/ proc[p].pc \in {"open", "dump"} /\ proc[p].kind = "Postgres"

\* What a run does itself gets done, and the requests to Qdrant have a timeout of an
\* hour; nothing makes pg_dump or a hook end.
OwnStep(p) == ~Waiting(p) /\ RunStep(p)
FairSpec == Spec /\ \A p \in Procs : WF_vars(OwnStep(p))

-----------------------------------------------------------------------------
(* Properties *)

Artifact == [kind: Kinds, day: Days, suffix: 0..MaxRuns, by: SUBSET Runs]

TypeOK ==
  /\ strategy \in Strategies
  /\ day \in Days /\ fired \subseteq Days /\ runs \in 0..MaxRuns
  /\ proc \in [Procs ->
       [pc: PCs, run: Runs \cup {None}, date: Days, kind: Kinds \cup {None},
        suffix: 0..MaxRuns, made: SUBSET [kind: Kinds, suffix: 0..MaxRuns]]]
  /\ lock \in Runs \cup {None, Torn}
  /\ partials \subseteq Artifact /\ files \subseteq Artifact
  /\ maintenance \in BOOLEAN /\ overlapped \in BOOLEAN /\ abandoned \in BOOLEAN

\* While the lock has kept runs apart: a run in flight owns the lockfile and
\* the file it is writing, whatever a starting service finds stale.
RunOwnsItsFiles ==
  ~overlapped => \A p \in Procs : InFlight(p) =>
    /\ lock = proc[p].run
    /\ proc[p].pc = "dump" =>
         \E f \in partials : SameName(f, proc[p].kind, proc[p].date, proc[p].suffix)

\* While the lock has kept runs apart: a committed artifact is the work of one
\* run, never mixed with what a dead run left behind.
ArtifactsWhole ==
  ~overlapped => \A f \in files : Cardinality(f.by) = 1

\* While the lock has kept runs apart: once a run succeeds there is a day, its
\* own or a later one, that can be restored, through any later failure.
RestorableStays ==
  [][\A d \in Days :
       /\ ~overlapped'
       /\ \A k \in Kinds : NewestArtifact(FilesOf(k), d) # {}
       => \E e \in Days :
            /\ e >= d
            /\ \A k \in Kinds : \E f \in files' : f.kind = k /\ f.day = e
    ]_vars

\* Sprint 006 data-model.md: the artifacts of a successful run exist under their
\* final names when it reports its success (here: when it lets go of the lock).
FinishedArtifactsExist ==
  ~overlapped => \A p \in Procs : proc[p].pc = "release" /\ Succeeded(p) =>
    \A m \in proc[p].made :
      \E f \in files : /\ SameName(f, m.kind, proc[p].date, m.suffix)
                       /\ proc[p].run \in f.by

\* With same_day_strategy = overwrite: when a run has succeeded, a restore of
\* its date takes that run's pair of artifacts and no other.
FinishedIsRestored ==
  ~overlapped /\ strategy = "overwrite" =>
    \A p \in Procs : proc[p].pc = "release" /\ Succeeded(p) =>
    \A k \in Kinds : \E f \in FilesOf(k) :
      NewestArtifact(FilesOf(k), proc[p].date) = {f} /\ f.by = {proc[p].run}

\* Sprint 006 data-model.md: exactly one run is in flight at any time.
OneRunInFlight == \A p, q \in Procs : InFlight(p) /\ InFlight(q) => p = q

\* Whatever fails in a run, it gives back the maintenance flag and its lockfile, unless it
\* waits for pg_dump or the first hook for ever. A lockfile may stay behind if a process has
\* died with one, or one could not be removed (run_once).
GivenBack(p, r) ==
  /\ ~(Owning(p) /\ proc[p].run = r)
  /\ p = Service => ~maintenance
  /\ lock = r => abandoned
RunsLetGo ==
  \A p \in Procs, r \in Runs :
    (Owning(p) /\ proc[p].run = r) ~> (GivenBack(p, r) \/ [](Owning(p) /\ Waiting(p)))
=============================================================================
