----------------------------- MODULE BackupProofs -----------------------------
(***************************************************************************)
(* For any number of processes, runs, days and files, and any retention    *)
(* that keeps at least one day: while the lock has kept runs apart, a run  *)
(* owns its lockfile and its file, no artifact mixes two runs, and what    *)
(* could be restored can be restored after every step.                     *)
(***************************************************************************)
EXTENDS Backup, WellFoundedInduction, FiniteSetTheorems, TLAPS

Artifacts == [kind : Kinds, day : Days, suffix : Nat, by : SUBSET (Runs \cup {None})]
Locals == [pc : PCs, run : Runs \cup {None}, date : Days, kind : Kinds \cup {None},
           suffix : Nat, made : SUBSET [kind : Kinds, suffix : Nat]]

\* The suffixes of a set of artifacts have a bound.
Bounded(S) == \E b \in Nat : \A f \in S : f.suffix <= b
Sound(S) == S \subseteq Artifacts /\ Bounded(S)

\* Nothing is dated later than today.
Dated ==
  /\ \A f \in files : f.day <= day
  /\ \A p \in Procs : proc[p].date <= day

Shape ==
  /\ proc \in [Procs -> Locals]
  /\ \A p \in Procs : proc[p].pc \in {"started", "open", "dump", "prune"} => proc[p].kind \in Kinds
  /\ Sound(partials) /\ Sound(files)
  /\ day \in Days /\ runs \in 0..MaxRuns
  /\ overlapped \in BOOLEAN
  /\ Dated

\* At most one process is past the lock.
OneOwner == \A p, q \in Procs : Owning(p) /\ Owning(q) => p = q

\* What one run wrote alone.
Whole(S) == \A f \in S : \E r : f.by = {r}

\* The days a run has to show for what it made are the newest there are.
Covered(p, k) == \E f \in files : f.kind = k /\ f.day = proc[p].date
Foremost ==
  \A p \in Procs : Owning(p) =>
    /\ \A f \in files : f.day <= proc[p].date
    /\ DailyCount # 0 => \A m \in proc[p].made : Covered(p, m.kind)
    /\ proc[p].pc = "prune" => Succeeded(p)

Apart ==
  ~overlapped =>
    /\ OneOwner
    /\ RunOwnsItsFiles
    /\ Whole(partials) /\ Whole(files)
    /\ Foremost

IInv == Shape /\ Apart
-----------------------------------------------------------------------------
(* Suffixes *)

\* Days and runs are numbers.
LEMMA DaysAreNat == Days \subseteq Nat /\ Runs \subseteq Nat
BY BackupAssumption DEF Days, Runs

\* A set of naturals that is not empty has a least member.
LEMMA LeastExists ==
  ASSUME NEW S \in SUBSET Nat, S # {}
  PROVE  \E n \in S : \A m \in S : n <= m
<1>1. PICK n \in S : \A m \in S : ~ (<<m, n>> \in OpToRel(<, Nat))
  BY NatLessThanWellFounded, WFMin
<1>2. ASSUME NEW m \in S PROVE n <= m
  <2>1. <<m, n>> \in Nat \X Nat /\ <<m, n>>[1] = m /\ <<m, n>>[2] = n OBVIOUS
  <2>2. ~ (m < n) BY <1>1, <2>1 DEF OpToRel
  <2> QED BY <2>2
<1> QED BY <1>2

\* The suffix next_suffix_for_date gives is a free one.
LEMMA FreeSuffixIsFree ==
  ASSUME NEW S, Sound(S), NEW d
  PROVE  /\ FreeSuffix(S, d) \in Nat
         /\ \A f \in S : f.day = d => f.suffix # FreeSuffix(S, d)
<1> DEFINE taken == {f.suffix : f \in {g \in S : g.day = d}}
           Least(n) == n \notin taken /\ \A m \in 0..n - 1 : m \in taken
<1>1. PICK b \in Nat : \A f \in S : f.suffix <= b BY DEF Sound, Bounded
<1>2. taken \in SUBSET Nat /\ \A n \in taken : n <= b BY <1>1 DEF Sound, Artifacts
<1>3. IsFiniteSet(taken) BY <1>1, <1>2, FS_BoundedSetOfNaturals
<1>4. b + 1 \in Nat \ taken BY <1>2
<1>5. PICK n \in Nat \ taken : \A m \in Nat \ taken : n <= m
  <2> HIDE DEF taken
  <2> QED BY <1>4, LeastExists
<1>6. \A m \in 0..n - 1 : m \in taken BY <1>5
<1>7. n <= Cardinality(taken)
  <2>1. 0..n - 1 \in SUBSET taken BY <1>6
  <2>2. Cardinality(0..n - 1) = n BY FS_Interval
  <2>3. PICK T \in SUBSET taken : T = 0..n - 1 BY <2>1
  <2> HIDE DEF taken
  <2>4. Cardinality(T) <= Cardinality(taken) BY <1>3, FS_Subset
  <2> QED BY <2>2, <2>3, <2>4
<1>8. Cardinality(taken) \in Nat BY <1>3, FS_CardinalityType
<1>9. \E k \in 0..Cardinality(taken) : Least(k)
  <2>1. n \in 0..Cardinality(taken) BY <1>5, <1>7, <1>8
  <2>2. Least(n) BY <1>5, <1>6
  <2> QED BY <2>1, <2>2
<1>10. FreeSuffix(S, d) = CHOOSE k \in 0..Cardinality(taken) : Least(k) BY DEF FreeSuffix
<1>11. FreeSuffix(S, d) \in 0..Cardinality(taken) /\ FreeSuffix(S, d) \notin taken
  <2> HIDE DEF taken
  <2> QED BY <1>9, <1>10
<1> QED BY <1>8, <1>11

\* A day that has an artifact has one of the highest suffix.
LEMMA RepresentativeExists ==
  ASSUME NEW S, Sound(S), NEW g \in S
  PROVE  \E f \in S : f.day = g.day /\ Representative(S, f)
<1> DEFINE above == {n \in Nat : \A f \in S : f.day = g.day => f.suffix <= n}
<1>1. PICK b \in Nat : \A f \in S : f.suffix <= b BY DEF Sound, Bounded
<1>2. PICK n \in above : \A m \in above : n <= m
  <2>1. b \in above BY <1>1
  <2>2. above \in SUBSET Nat /\ above # {} BY <2>1
  <2> HIDE DEF above
  <2> QED BY <2>2, LeastExists
<1>3. \A f \in S : f.suffix \in Nat BY DEF Sound, Artifacts
<1>4. PICK f \in S : f.day = g.day /\ f.suffix = n
  <2> SUFFICES ASSUME \A f \in S : f.day = g.day => f.suffix # n PROVE FALSE OBVIOUS
  <2>1. \A f \in S : f.day = g.day => f.suffix <= n - 1 BY <1>2, <1>3
  <2>2. n - 1 \in Nat BY <1>2, <1>3, <2>1
  <2>3. n - 1 \in above BY <2>1, <2>2
  <2> QED BY <1>2, <2>3
<1> QED BY <1>2, <1>4 DEF Representative

-----------------------------------------------------------------------------
(* Retention *)

\* The newest day is kept, whatever else goes, if any day is.
LEMMA NewestIsKept ==
  ASSUME NEW S, Sound(S), NEW g \in S, \A f \in S : f.day <= g.day, DailyCount # 0
  PROVE  \E f \in S : f.day = g.day /\ f \notin Doomed(S)
<1>1. PICK f \in S : f.day = g.day /\ Representative(S, f) BY RepresentativeExists
<1>2. {e \in DatesOf(S) : e > f.day} = {}
  <2>1. \A e \in DatesOf(S) : e \in Nat /\ e <= f.day
    BY <1>1, DaysAreNat DEF DatesOf, Sound, Artifacts
  <2>2. f.day \in Nat BY <1>1, DaysAreNat DEF Sound, Artifacts
  <2> QED BY <2>1, <2>2
<1>3. Cardinality({e \in DatesOf(S) : e > f.day}) < DailyCount
  BY <1>2, FS_EmptySet, RetentionAssumption
<1>4. f.day \in Daily(DatesOf(S)) BY <1>3 DEF Daily, NewestDates, DatesOf
<1> QED BY <1>1, <1>4 DEF Doomed, Kept

\* A restore finds something for every day that has an artifact of the kind.
LEMMA NewestIffAny ==
  ASSUME NEW S, Sound(S), NEW d
  PROVE  NewestArtifact(S, d) # {} <=> \E f \in S : f.day = d
BY RepresentativeExists DEF NewestArtifact

\* The files of a kind are sound if all files are.
LEMMA KindIsSound == ASSUME NEW k, Sound(files) PROVE Sound(FilesOf(k))
BY DEF Sound, Bounded, FilesOf

\* Part of sound files is sound, and so are they with one more artifact.
LEMMA SoundOf ==
  /\ \A S : \A T \in SUBSET S : Sound(S) => Sound(T)
  /\ \A S : \A f \in Artifacts : Sound(S) => Sound(S \cup {f})
<1>1. ASSUME NEW S, NEW T \in SUBSET S, Sound(S) PROVE Sound(T) BY <1>1 DEF Sound, Bounded
<1>2. ASSUME NEW S, NEW f \in Artifacts, Sound(S) PROVE Sound(S \cup {f})
  <2>1. PICK b \in Nat : \A g \in S : g.suffix <= b BY <1>2 DEF Sound, Bounded
  <2>2. f.suffix \in Nat /\ \A g \in S : g.suffix \in Nat BY <1>2 DEF Sound, Artifacts
  <2>3. b + f.suffix \in Nat /\ \A g \in S \cup {f} : g.suffix <= b + f.suffix BY <2>1, <2>2
  <2> QED BY <1>2, <2>3 DEF Sound, Bounded
<1> QED BY <1>1, <1>2

-----------------------------------------------------------------------------
(* The locals of a run *)

\* A process at rest is a process.
LEMMA RestIsLocal ==
  \A p \in Procs : Rest(p) \in Locals /\ Rest(p).pc \in {"idle", "down"} /\ Down \in Locals
                   /\ Rest(p).made = {} /\ Rest(p).date = 0 /\ Down.date = 0 /\ Down.pc = "down"
BY BackupAssumption DEF Rest, Ready, Down, Local, Locals, PCs, Days

\* A process that goes on after an artifact is a process.
LEMMA AfterIsLocal ==
  ASSUME NEW p \in Procs, NEW made \in SUBSET [kind : Kinds, suffix : Nat],
         proc \in [Procs -> Locals], proc[p].kind \in Kinds, AfterArtifact(p, made)
  PROVE  /\ proc' \in [Procs -> Locals]
         /\ proc'[p].kind \in Kinds /\ proc'[p].pc \in {"open", "prune", "release"}
         /\ proc'[p].date = proc[p].date /\ proc'[p].run = proc[p].run /\ proc'[p].made = made
         /\ proc'[p].pc = "prune" => {m.kind : m \in made} = Kinds
         /\ \A q \in Procs \ {p} : proc'[q] = proc[q]
<1> DEFINE kind == IF proc[p].kind = "Postgres" THEN "Qdrant" ELSE "Postgres"
           pc == IF proc[p].kind = "Postgres" THEN "open"
                 ELSE IF {m.kind : m \in made} = Kinds THEN "prune" ELSE "release"
           new == [proc[p] EXCEPT !.made = made, !.kind = kind, !.pc = pc]
<1>1. proc' = [proc EXCEPT ![p] = new] BY DEF AfterArtifact
<1>2. kind \in Kinds /\ pc \in {"open", "prune", "release"} BY DEF Kinds
<1>3. pc = "prune" => {m.kind : m \in made} = Kinds OBVIOUS
<1> HIDE DEF kind, pc
<1>4. /\ new \in Locals /\ new.pc = pc /\ new.kind = kind /\ new.made = made
      /\ new.date = proc[p].date /\ new.run = proc[p].run
  BY <1>2 DEF Locals, PCs
<1> HIDE DEF new
<1> QED BY <1>1, <1>2, <1>3, <1>4

\* At first every process rests.
LEMMA ShapeInit == Init => Shape
<1> SUFFICES ASSUME Init PROVE Shape OBVIOUS
<1>1. proc \in [Procs -> Locals] /\ \A p \in Procs : proc[p].pc = "down" /\ proc[p].date = 0
  BY RestIsLocal DEF Init
<1>2. Sound(partials) /\ Sound(files) BY DEF Init, Sound, Bounded
<1>3. day \in Days /\ runs \in 0..MaxRuns BY BackupAssumption DEF Init, Days
<1>4. overlapped \in BOOLEAN BY DEF Init
<1>5. Dated BY <1>1 DEF Init, Dated
<1> QED BY <1>1, <1>2, <1>3, <1>4, <1>5 DEF Shape

\* A run that starts has the shape of one.
LEMMA ShapeStart ==
  ASSUME Shape, NEW p \in Procs, StartRun(p) PROVE Shape'
<1> DEFINE new == IF lock = None THEN Local("create", runs', day, None, 0, {}) ELSE Rest(p)
<1>1. runs' \in 1..MaxRuns BY BackupAssumption DEF Shape, StartRun
<1>2. new \in Locals /\ new.pc \notin {"started", "open", "dump", "prune"} /\ new.date <= day
  <2>1. CASE lock = None BY <1>1, <2>1, DaysAreNat DEF Shape, Local, Locals, PCs, Runs
  <2>2. CASE lock # None BY <2>2, RestIsLocal, DaysAreNat DEF Shape
  <2> QED BY <2>1, <2>2
<1>3. proc' = [proc EXCEPT ![p] = new] BY DEF StartRun
<1>4. /\ proc' \in [Procs -> Locals]
      /\ \A q \in Procs : proc'[q].pc \in {"started", "open", "dump", "prune"} => proc'[q].kind \in Kinds
      /\ \A q \in Procs : proc'[q].date <= day
  <2> HIDE DEF new
  <2> QED BY <1>2, <1>3 DEF Shape, Dated
<1>5. overlapped' \in BOOLEAN BY DEF Shape, StartRun
<1>6. runs' \in 0..MaxRuns BY <1>1
<1> QED BY <1>4, <1>5, <1>6 DEF Shape, Dated, StartRun, Sound, Bounded

\* A process may change its place and nothing else.
LEMMA GotoIsLocal ==
  ASSUME NEW p \in Procs, NEW pc \in PCs, proc \in [Procs -> Locals], Goto(p, pc)
  PROVE  /\ proc' \in [Procs -> Locals] /\ proc'[p] = [proc[p] EXCEPT !.pc = pc]
         /\ proc'[p].pc = pc /\ proc'[p].kind = proc[p].kind /\ proc'[p].date = proc[p].date
         /\ proc'[p].run = proc[p].run /\ proc'[p].made = proc[p].made
         /\ proc'[p].suffix = proc[p].suffix
         /\ \A q \in Procs \ {p} : proc'[q] = proc[q]
BY DEF Goto, Locals

\* ... or be replaced by another record of locals.
LEMMA RestShape ==
  ASSUME Shape, NEW p \in Procs, NEW new \in Locals, proc' = [proc EXCEPT ![p] = new],
         new.pc \in {"started", "open", "dump", "prune"} => new.kind \in Kinds, new.date <= day
  PROVE  /\ proc' \in [Procs -> Locals]
         /\ \A q \in Procs : proc'[q].pc \in {"started", "open", "dump", "prune"} => proc'[q].kind \in Kinds
         /\ \A q \in Procs : proc'[q].date <= day
BY DEF Shape, Dated

\* So has a process that begins a run,
LEMMA BeginIsLocal ==
  ASSUME NEW p \in Procs, proc \in [Procs -> Locals], Begin(p)
  PROVE  \E new \in Locals :
           /\ proc' = [proc EXCEPT ![p] = new] /\ new.pc = "started" /\ new.kind = "Postgres"
           /\ new.date = proc[p].date /\ new.run = proc[p].run /\ new.made = proc[p].made
<1> DEFINE new == [proc[p] EXCEPT !.pc = "started", !.kind = "Postgres"]
<1>1. new \in Locals BY DEF Locals, PCs, Kinds
<1>2. proc' = [proc EXCEPT ![p] = new] BY DEF Begin
<1>3. /\ new.pc = "started" /\ new.kind = "Postgres" /\ new.date = proc[p].date
      /\ new.run = proc[p].run /\ new.made = proc[p].made
  BY DEF Locals
<1> QED BY <1>1, <1>2, <1>3

\* The artifact a run writes, and the file it opens for it.
Opened(p, n) ==
  [kind |-> proc[p].kind, day |-> proc[p].date, suffix |-> n,
   by |-> Writers(proc[p].kind, proc[p].date, n) \cup {proc[p].run}]
OpenedAs(p, n) ==
  /\ partials' = {f \in partials : ~SameName(f, proc[p].kind, proc[p].date, n)} \cup {Opened(p, n)}
  /\ proc' = [proc EXCEPT ![p].pc = "dump", ![p].suffix = n]

\* that opens the partial file,
LEMMA OpenIsLocal ==
  ASSUME Shape, NEW p \in Procs, OpenPartial(p)
  PROVE  \/ /\ AfterArtifact(p, proc[p].made) /\ UNCHANGED partials
         \/ \E n \in Nat : OpenedAs(p, n)
<1> DEFINE n == IF strategy = "overwrite" THEN 0 ELSE FreeSuffix(FilesOf(proc[p].kind), proc[p].date)
<1>1. n \in Nat BY KindIsSound, FreeSuffixIsFree DEF Shape
<1>2. OpenedAs(p, n) \/ (AfterArtifact(p, proc[p].made) /\ UNCHANGED partials)
  BY DEF OpenPartial, OpenedAs, Opened
<1> HIDE DEF n
<1> QED BY <1>1, <1>2

\* that has opened it,
LEMMA OpenedAsLocal ==
  ASSUME NEW p \in Procs, NEW n \in Nat, proc \in [Procs -> Locals], OpenedAs(p, n)
  PROVE  \E new \in Locals :
           /\ proc' = [proc EXCEPT ![p] = new] /\ new.pc = "dump" /\ new.kind = proc[p].kind
           /\ new.date = proc[p].date /\ new.run = proc[p].run /\ new.made = proc[p].made
           /\ new.suffix = n
<1> DEFINE new == [proc[p] EXCEPT !.pc = "dump", !.suffix = n]
<1>1. new \in Locals BY DEF Locals, PCs
<1>2. proc' = [proc EXCEPT ![p] = new] BY DEF OpenedAs
<1>3. /\ new.pc = "dump" /\ new.kind = proc[p].kind /\ new.date = proc[p].date
      /\ new.run = proc[p].run /\ new.made = proc[p].made /\ new.suffix = n
  BY DEF Locals
<1> QED BY <1>1, <1>2, <1>3

\* and that prunes.
LEMMA PruneIsLocal ==
  ASSUME NEW p \in Procs, proc \in [Procs -> Locals], Prune(p)
  PROVE  \E new \in Locals :
           /\ proc' = [proc EXCEPT ![p] = new] /\ new.pc \in {"prune", "release"}
           /\ new.kind \in Kinds
           /\ new.date = proc[p].date /\ new.run = proc[p].run /\ new.made = proc[p].made
<1> DEFINE kind == IF proc[p].kind = "Postgres" THEN "Qdrant" ELSE "Postgres"
           pc == IF proc[p].kind = "Postgres" THEN "prune" ELSE "release"
           new == [proc[p] EXCEPT !.kind = kind, !.pc = pc]
<1>1. proc' = [proc EXCEPT ![p] = new] BY DEF Prune
<1>2. kind \in Kinds /\ pc \in {"prune", "release"} BY DEF Kinds
<1> HIDE DEF kind, pc
<1>3. /\ new \in Locals /\ new.pc = pc /\ new.kind = kind /\ new.made = proc[p].made
      /\ new.date = proc[p].date /\ new.run = proc[p].run
  BY <1>2 DEF Locals, PCs
<1> QED BY <1>1, <1>2, <1>3

-----------------------------------------------------------------------------
(* The shape of the state *)

\* Every step leaves every process and every file of its shape.
LEMMA ShapeStep == ASSUME Shape, [Next]_vars PROVE Shape'
<1> USE DEF Shape
<1>1. CASE Window BY <1>1, ShapeStart, BackupAssumption DEF Window, Procs
<1>2. ASSUME NEW p \in Procs, RunNow(p) PROVE Shape' BY <1>2, ShapeStart DEF RunNow
<1>3. CASE Boot
  <2>1. Service \in Procs BY DEF Procs
  <2>2. Ready \in Locals /\ Ready.pc = "idle" /\ Ready.date <= day
    BY BackupAssumption, DaysAreNat DEF Ready, Local, Locals, PCs, Days
  <2>3. proc' = [proc EXCEPT ![Service] = Ready] BY <1>3 DEF Boot
  <2>4. partials' \in SUBSET partials BY <1>3 DEF Boot
  <2>5. UNCHANGED <<day, runs, files, overlapped>> BY <1>3 DEF Boot
  <2> HIDE DEF Shape
  <2>6. /\ proc' \in [Procs -> Locals]
        /\ \A q \in Procs : proc'[q].pc \in {"started", "open", "dump", "prune"} => proc'[q].kind \in Kinds
        /\ \A q \in Procs : proc'[q].date <= day
    BY <2>1, <2>2, <2>3, RestShape
  <2>7. Sound(partials') BY <2>4, SoundOf DEF Shape
  <2> QED BY <2>5, <2>6, <2>7 DEF Shape, Dated, Sound, Bounded
<1>4. CASE NextDay
  <2>1. day \in Nat /\ day' = day + 1 /\ day' \in Days
    BY <1>4, BackupAssumption DEF NextDay, Days
  <2>2. \A f \in files : f.day \in Nat BY DaysAreNat DEF Sound, Artifacts
  <2>3. \A p \in Procs : proc[p].date \in Nat BY DaysAreNat DEF Locals
  <2>4. Dated' BY <1>4, <2>1, <2>2, <2>3 DEF NextDay, Dated
  <2> QED BY <1>4, <2>1, <2>4 DEF NextDay, Sound, Bounded
<1>5. ASSUME NEW p \in Procs, CreateLock(p) \/ WriteLock(p) \/ DumpFails(p) \/ Release(p)
                              \/ EndRun(p) \/ Crash(p) \/ Begin(p) \/ HookBack(p)
      PROVE  Shape'
  <2>1. UNCHANGED <<day, runs, files, partials, overlapped>>
    BY <1>5 DEF CreateLock, WriteLock, DumpFails, Release, EndRun, Crash, Begin, HookBack
  <2>2. /\ proc' \in [Procs -> Locals]
        /\ \A q \in Procs : proc'[q].pc \in {"started", "open", "dump", "prune"} => proc'[q].kind \in Kinds
        /\ \A q \in Procs : proc'[q].date <= day
    <3>1. ASSUME NEW pc \in PCs, pc \notin {"started", "open", "dump", "prune"}, Goto(p, pc) PROVE <2>2
      <4>1. /\ proc' \in [Procs -> Locals] /\ proc'[p].pc = pc /\ proc'[p].date = proc[p].date
            /\ \A q \in Procs \ {p} : proc'[q] = proc[q]
        BY <3>1, GotoIsLocal
      <4> QED BY <3>1, <4>1 DEF Dated
    <3>2. ASSUME proc' = [proc EXCEPT ![p] = Rest(p)] \/ proc' = [proc EXCEPT ![p] = Down] PROVE <2>2
      BY <3>2, RestIsLocal, RestShape, DaysAreNat
    <3>3. ASSUME NEW made, AfterArtifact(p, made), made = proc[p].made, proc[p].pc = "dump" PROVE <2>2
      BY <3>3, AfterIsLocal DEF Dated, Locals
    <3>4. CASE Begin(p)
      BY <3>4, BeginIsLocal, RestShape DEF Dated, Kinds
    <3>5. CASE CreateLock(p) BY <3>1, <3>5 DEF CreateLock, PCs
    <3>6. CASE WriteLock(p) BY <3>1, <3>2, <3>6 DEF WriteLock, PCs
    <3>7. CASE DumpFails(p) BY <3>3, <3>7 DEF DumpFails
    <3>8. CASE Release(p) BY <3>1, <3>8 DEF Release, PCs
    <3>9. CASE EndRun(p) \/ Crash(p) BY <3>2, <3>9 DEF EndRun, Crash
    <3>10. CASE HookBack(p)
      <4>1. /\ proc' \in [Procs -> Locals] /\ proc'[p].kind = proc[p].kind
            /\ proc'[p].date = proc[p].date /\ \A q \in Procs \ {p} : proc'[q] = proc[q]
        BY <3>10, GotoIsLocal DEF HookBack, PCs
      <4> QED BY <3>10, <4>1 DEF HookBack, Dated
    <3> QED BY <1>5, <3>4, <3>5, <3>6, <3>7, <3>8, <3>9, <3>10
  <2> QED BY <2>1, <2>2 DEF Dated, Sound, Bounded
<1>6. ASSUME NEW p \in Procs, OpenPartial(p) PROVE Shape'
  <2>1. UNCHANGED <<day, runs, files, overlapped>> /\ proc[p].pc = "open"
    BY <1>6 DEF OpenPartial
  <2>2. CASE AfterArtifact(p, proc[p].made) /\ UNCHANGED partials
    <3>1. proc[p].made \in SUBSET [kind : Kinds, suffix : Nat] BY DEF Locals
    <3> QED BY <2>1, <2>2, <3>1, AfterIsLocal DEF Dated, Sound, Bounded
  <2>3. ASSUME NEW n \in Nat, OpenedAs(p, n) PROVE Shape'
    <3>1. Opened(p, n) \in Artifacts
      BY <2>1 DEF Opened, Artifacts, Locals, Writers
    <3>2. Sound(partials')
      BY <2>3, <3>1, SoundOf DEF OpenedAs
    <3>3. /\ proc' \in [Procs -> Locals]
          /\ \A q \in Procs : proc'[q].pc \in {"started", "open", "dump", "prune"} => proc'[q].kind \in Kinds
          /\ \A q \in Procs : proc'[q].date <= day
      BY <2>1, <2>3, OpenedAsLocal, RestShape DEF Dated
    <3> QED BY <2>1, <3>2, <3>3 DEF Dated, Sound, Bounded
  <2> QED BY <1>6, <2>2, <2>3, OpenIsLocal
<1>7. ASSUME NEW p \in Procs, Commit(p) PROVE Shape'
  <2>1. UNCHANGED <<day, runs, overlapped>> /\ proc[p].pc = "dump" BY <1>7 DEF Commit
  <2>2. PICK f \in partials :
          /\ SameName(f, proc[p].kind, proc[p].date, proc[p].suffix)
          /\ partials' = partials \ {f}
          /\ files' = {g \in files : ~SameName(g, proc[p].kind, proc[p].date, proc[p].suffix)} \cup {f}
          /\ \E made \in SUBSET [kind : Kinds, suffix : Nat] : AfterArtifact(p, made)
    <3>1. proc[p].made \in SUBSET [kind : Kinds, suffix : Nat]
          /\ [kind |-> proc[p].kind, suffix |-> proc[p].suffix] \in [kind : Kinds, suffix : Nat]
      BY <2>1 DEF Locals
    <3>2. proc[p].made \cup {[kind |-> proc[p].kind, suffix |-> proc[p].suffix]}
            \in SUBSET [kind : Kinds, suffix : Nat]
      BY <3>1
    <3> QED BY <1>7, <3>1, <3>2 DEF Commit
  <2>3. Sound(partials') /\ Sound(files') BY <2>2, SoundOf DEF Sound
  <2>4. \A g \in files' : g.day <= day BY <2>2 DEF Dated, SameName
  <2>5. /\ proc' \in [Procs -> Locals]
        /\ \A q \in Procs : proc'[q].pc \in {"started", "open", "dump", "prune"} => proc'[q].kind \in Kinds
        /\ \A q \in Procs : proc'[q].date <= day
    BY <2>1, <2>2, AfterIsLocal DEF Dated
  <2> QED BY <2>1, <2>3, <2>4, <2>5 DEF Dated
<1>8. ASSUME NEW p \in Procs, Prune(p) PROVE Shape'
  <2>1. UNCHANGED <<day, runs, partials, overlapped>> /\ proc[p].pc = "prune" BY <1>8 DEF Prune
  <2>2. files' \in SUBSET files BY <1>8 DEF Prune
  <2>3. Sound(files') BY <2>2, SoundOf
  <2>4. /\ proc' \in [Procs -> Locals]
        /\ \A q \in Procs : proc'[q].pc \in {"started", "open", "dump", "prune"} => proc'[q].kind \in Kinds
        /\ \A q \in Procs : proc'[q].date <= day
    BY <1>8, PruneIsLocal, RestShape DEF Dated
  <2> QED BY <2>1, <2>2, <2>3, <2>4 DEF Dated, Sound, Bounded
<1>9. CASE UNCHANGED vars BY <1>9 DEF vars, Dated, Sound, Bounded
<1> QED BY <1>1, <1>2, <1>3, <1>4, <1>5, <1>6, <1>7, <1>8, <1>9 DEF Next, RunStep

-----------------------------------------------------------------------------
(* Runs that are kept apart *)

\* What Apart asks of one process.
Keeps(p) ==
  /\ InFlight(p) =>
       /\ lock = proc[p].run
       /\ proc[p].pc = "dump" =>
            \E f \in partials : SameName(f, proc[p].kind, proc[p].date, proc[p].suffix)
  /\ Owning(p) =>
       /\ \A f \in files : f.day <= proc[p].date
       /\ DailyCount # 0 => \A m \in proc[p].made : Covered(p, m.kind)
       /\ proc[p].pc = "prune" => Succeeded(p)

\* Apart, with what each process keeps to said process by process.
LEMMA ApartIs ==
  Apart <=> (~overlapped => /\ OneOwner /\ (\A p \in Procs : Keeps(p))
                            /\ Whole(partials) /\ Whole(files))
BY DEF Apart, RunOwnsItsFiles, Foremost, Keeps

\* The process past the lock moves: there is no other to disturb.
LEMMA OwnerMoves ==
  ASSUME Apart, ~overlapped, NEW p \in Procs, Owning(p),
         \A q \in Procs \ {p} : proc'[q] = proc[q],
         Keeps(p)', Whole(partials)', Whole(files)'
  PROVE  Apart'
<1>1. \A q \in Procs \ {p} : ~Owning(q) BY DEF Apart, OneOwner
<1>2. \A q \in Procs \ {p} : ~Owning(q)' BY <1>1 DEF Owning, InFlight
<1>3. OneOwner' BY <1>2 DEF OneOwner
<1>4. ASSUME NEW q \in Procs PROVE Keeps(q)'
  BY <1>2, <1>4 DEF Keeps, Owning
<1> QED BY <1>3, <1>4 DEF Apart, RunOwnsItsFiles, Foremost, Keeps

\* A process that is not past the lock moves, and leaves the files as they are; the
\* lock and the .partial files too, if there is a run in flight.
LEMMA BystanderMoves ==
  ASSUME Apart, ~overlapped, NEW p \in Procs,
         \A q \in Procs \ {p} : proc'[q] = proc[q],
         files' = files, partials' \subseteq partials,
         ~InFlight(p)', Keeps(p)',
         Owning(p)' => \A q \in Procs \ {p} : ~Owning(q),
         \A q \in Procs \ {p} : InFlight(q) => lock' = lock /\ partials' = partials
  PROVE  Apart'
<1>1. OneOwner' BY DEF Apart, OneOwner, Owning, InFlight
<1>2. ASSUME NEW q \in Procs \ {p} PROVE Keeps(q)'
  <2>1. Keeps(q) BY ApartIs
  <2>2. proc'[q] = proc[q] OBVIOUS
  <2> QED BY <2>1, <2>2 DEF Keeps, Owning, InFlight, Covered, Succeeded, SameName
<1>3. Whole(partials)' /\ Whole(files)' BY DEF Apart, Whole
<1>4. \A q \in Procs : Keeps(q)' BY <1>2
<1> QED BY <1>1, <1>3, <1>4 DEF Apart, RunOwnsItsFiles, Foremost, Keeps

\* At first no run is under way.
LEMMA ApartInit == Init => Apart
<1> SUFFICES ASSUME Init PROVE Apart OBVIOUS
<1>1. \A p \in Procs : proc[p].pc = "down" BY RestIsLocal DEF Init
<1>2. \A p \in Procs : ~Owning(p) /\ ~InFlight(p) BY <1>1 DEF Owning, InFlight
<1>3. Whole(partials) /\ Whole(files) BY DEF Init, Whole
<1> QED BY <1>2, <1>3 DEF Apart, OneOwner, RunOwnsItsFiles, Foremost

\* A run that starts has no file yet.
LEMMA ApartStart ==
  ASSUME Shape, Apart, NEW p \in Procs, proc[p].pc \in {"idle", "down"}, StartRun(p)
  PROVE  Apart'
<1> SUFFICES ASSUME ~overlapped' PROVE Apart' BY DEF Apart
<1>1. ~overlapped BY DEF StartRun
<1>2. /\ \A q \in Procs \ {p} : proc'[q] = proc[q]
      /\ UNCHANGED <<files, partials, lock>>
  BY DEF StartRun, Shape
<1>3. CASE lock = None
  <2>1. \A q \in Procs : ~Owning(q) BY <1>3 DEF StartRun
  <2>2. proc'[p].pc = "create" /\ proc'[p].made = {} /\ proc'[p].date = day
    BY <1>3 DEF StartRun, Shape, Local
  <2>3. Keeps(p)' /\ ~InFlight(p)' BY <1>2, <2>2 DEF Keeps, InFlight, Shape, Dated
  <2> QED BY <1>1, <1>2, <2>1, <2>3, BystanderMoves
<1>4. CASE lock # None
  <2>1. proc'[p].pc \in {"idle", "down"} BY <1>4, RestIsLocal DEF StartRun, Shape
  <2>2. Keeps(p)' /\ ~InFlight(p)' /\ ~Owning(p)' BY <2>1 DEF Keeps, InFlight, Owning
  <2> QED BY <1>1, <1>2, <2>2, BystanderMoves
<1> QED BY <1>3, <1>4

\* What holds of the owner's locals goes on holding when it adds an artifact.
LEMMA AfterKeeps ==
  ASSUME Shape, Apart, ~overlapped, NEW p \in Procs, proc[p].pc \in {"open", "dump"},
         NEW made \in SUBSET [kind : Kinds, suffix : Nat], AfterArtifact(p, made),
         \A f \in files' : f.day <= proc[p].date,
         DailyCount # 0 => \A m \in made : \E f \in files' : f.kind = m.kind /\ f.day = proc[p].date,
         lock' = lock
  PROVE  Keeps(p)' /\ \A q \in Procs \ {p} : proc'[q] = proc[q]
<1>1. /\ proc'[p].pc \in {"open", "prune", "release"} /\ proc'[p].date = proc[p].date
      /\ proc'[p].run = proc[p].run /\ proc'[p].made = made
      /\ proc'[p].pc = "prune" => {m.kind : m \in made} = Kinds
      /\ \A q \in Procs \ {p} : proc'[q] = proc[q]
  BY AfterIsLocal DEF Shape
<1>2. InFlight(p) BY DEF InFlight
<1>3. lock = proc[p].run BY <1>2, ApartIs DEF Keeps
<1> QED BY <1>1, <1>3 DEF Keeps, Covered, Succeeded

\* Pruning leaves the newest day of a kind, which is the day of the run that prunes.
LEMMA CoveredStays ==
  ASSUME Shape, Apart, ~overlapped, DailyCount # 0, NEW p \in Procs, Prune(p),
         proc'[p].date = proc[p].date, NEW m \in proc[p].made
  PROVE  Covered(p, m.kind)'
<1> DEFINE k == proc[p].kind
<1>1. Owning(p) BY DEF Prune, Owning, InFlight
<1>2. PICK g \in files : g.kind = m.kind /\ g.day = proc[p].date
  BY <1>1, ApartIs DEF Keeps, Covered
<1>3. PICK kept \in SUBSET Doomed(FilesOf(k)) : files' = files \ (Doomed(FilesOf(k)) \ kept)
  BY DEF Prune
<1>4. CASE m.kind = k
  <2>1. g \in FilesOf(k) /\ \A f \in FilesOf(k) : f.day <= g.day
    BY <1>1, <1>2, <1>4, ApartIs DEF FilesOf, Keeps
  <2>2. Sound(FilesOf(k)) BY KindIsSound DEF Shape
  <2>3. PICK f \in FilesOf(k) : f.day = g.day /\ f \notin Doomed(FilesOf(k))
    BY <2>1, <2>2, NewestIsKept
  <2>4. f \in files' /\ f.kind = k BY <1>3, <2>3 DEF FilesOf
  <2> QED BY <1>2, <1>4, <2>3, <2>4 DEF Covered
<1>5. CASE m.kind # k
  <2>1. g \in files' BY <1>2, <1>3, <1>5 DEF Doomed, FilesOf
  <2> QED BY <1>2, <2>1 DEF Covered
<1> QED BY <1>4, <1>5

\* Every step leaves the files to the runs they belong to.
LEMMA ApartStep == ASSUME Shape, Apart, [Next]_vars PROVE Apart'
<1> SUFFICES ASSUME ~overlapped' PROVE Apart' BY DEF Apart
<1>0. ASSUME NEW p \in Procs, Owning(p), ~overlapped
      PROVE  /\ \A f \in files : f.day <= proc[p].date
             /\ DailyCount # 0 => \A m \in proc[p].made : Covered(p, m.kind)
             /\ proc[p].pc = "prune" => Succeeded(p)
             /\ InFlight(p) => lock = proc[p].run
  BY <1>0, ApartIs DEF Keeps
<1>1. CASE Window BY <1>1, ApartStart DEF Window, Procs
<1>2. ASSUME NEW p \in Procs, RunNow(p) PROVE Apart' BY <1>2, ApartStart DEF RunNow
<1>3. CASE Boot
  <2>1. ~overlapped /\ files' = files /\ partials' \subseteq partials BY <1>3 DEF Boot
  <2>2. Service \in Procs /\ proc'[Service].pc = "idle"
        /\ \A q \in Procs \ {Service} : proc'[q] = proc[q]
    BY <1>3 DEF Boot, Procs, Shape, Ready, Local
  <2>3. ASSUME NEW q \in Procs, InFlight(q) PROVE lock' = lock /\ partials' = partials
    <3>1. lock = proc[q].run BY <2>1, <2>3, ApartIs DEF Keeps
    <3>2. LiveRun(lock) BY <2>3, <3>1 DEF LiveRun, InFlight
    <3> QED BY <1>3, <3>2 DEF Boot
  <2>4. ~InFlight(Service)' /\ ~Owning(Service)' /\ Keeps(Service)'
    BY <2>2 DEF InFlight, Owning, Keeps
  <2> QED BY <2>1, <2>2, <2>3, <2>4, BystanderMoves
<1>4. ASSUME NEW p \in Procs, Crash(p) \/ EndRun(p) PROVE Apart'
  <2>1. ~overlapped /\ UNCHANGED <<files, partials, lock>> BY <1>4 DEF Crash, EndRun
  <2>2. proc'[p].pc \in {"idle", "down"} /\ \A q \in Procs \ {p} : proc'[q] = proc[q]
    BY <1>4, RestIsLocal DEF Crash, EndRun, Shape
  <2>3. ~InFlight(p)' /\ ~Owning(p)' /\ Keeps(p)' BY <2>2 DEF InFlight, Owning, Keeps
  <2> QED BY <2>1, <2>2, <2>3, BystanderMoves
<1>5. ASSUME NEW p \in Procs, CreateLock(p) \/ WriteLock(p) \/ Release(p) PROVE Apart'
  <2>1. ~overlapped /\ UNCHANGED <<files, partials>> /\ Owning(p)
    BY <1>5 DEF CreateLock, WriteLock, Release, Owning, InFlight
  <2>2. ASSUME NEW pc \in {"write", "begin", "finished", "failed"}, Goto(p, pc),
               pc = "begin" => lock' = proc[p].run
        PROVE  Apart'
    <3>1. /\ proc'[p].pc = pc /\ proc'[p].date = proc[p].date /\ proc'[p].made = proc[p].made
          /\ proc'[p].run = proc[p].run /\ \A q \in Procs \ {p} : proc'[q] = proc[q]
      BY <2>2, GotoIsLocal DEF Shape, PCs
    <3>2. Keeps(p)' BY <1>0, <2>1, <2>2, <3>1 DEF Keeps, Covered, InFlight, Owning
    <3>3. Whole(partials)' /\ Whole(files)' BY <2>1 DEF Apart
    <3> QED BY <2>1, <3>1, <3>2, <3>3, OwnerMoves
  <2>3. CASE CreateLock(p) BY <2>2, <2>3 DEF CreateLock
  <2>4. CASE WriteLock(p)
    <3>1. CASE lock' = proc[p].run /\ Goto(p, "begin") BY <2>2, <3>1
    <3>2. CASE proc' = [proc EXCEPT ![p] = Rest(p)]
      <4>1. proc'[p].pc \in {"idle", "down"} /\ \A q \in Procs \ {p} : proc'[q] = proc[q]
        BY <3>2, RestIsLocal DEF Shape
      <4>2. Keeps(p)' BY <4>1 DEF InFlight, Owning, Keeps
      <4>3. Whole(partials)' /\ Whole(files)' BY <2>1 DEF Apart
      <4> QED BY <2>1, <4>1, <4>2, <4>3, OwnerMoves
    <3> QED BY <2>4, <3>1, <3>2 DEF WriteLock
  <2>5. CASE Release(p) BY <2>2, <2>5 DEF Release
  <2> QED BY <1>5, <2>3, <2>4, <2>5
<1>6. ASSUME NEW p \in Procs, Begin(p) PROVE Apart'
  <2>1. ~overlapped /\ UNCHANGED <<files, partials, lock>> /\ Owning(p) /\ InFlight(p)
    BY <1>6 DEF Begin, Owning, InFlight
  <2>2. PICK new \in Locals :
          /\ proc' = [proc EXCEPT ![p] = new] /\ new.pc = "started"
          /\ new.date = proc[p].date /\ new.run = proc[p].run /\ new.made = proc[p].made
    BY <1>6, BeginIsLocal DEF Shape
  <2>3. proc'[p] = new /\ \A q \in Procs \ {p} : proc'[q] = proc[q] BY <2>2 DEF Shape
  <2>4. Keeps(p)' BY <1>0, <2>1, <2>2, <2>3 DEF Keeps, Covered
  <2>5. Whole(partials)' /\ Whole(files)' BY <2>1 DEF Apart
  <2> QED BY <2>1, <2>3, <2>4, <2>5, OwnerMoves
<1>7. ASSUME NEW p \in Procs, DumpFails(p) PROVE Apart'
  <2>1. ~overlapped /\ UNCHANGED <<files, partials, lock>> /\ Owning(p) /\ proc[p].pc = "dump"
    BY <1>7 DEF DumpFails, Owning, InFlight
  <2>2. Keeps(p)' /\ \A q \in Procs \ {p} : proc'[q] = proc[q]
    BY <1>0, <1>7, <2>1, AfterKeeps DEF DumpFails, Shape, Locals, Covered
  <2>3. Whole(partials)' /\ Whole(files)' BY <2>1 DEF Apart
  <2> QED BY <2>1, <2>2, <2>3, OwnerMoves
<1>8. ASSUME NEW p \in Procs, OpenPartial(p) PROVE Apart'
  <2>1. ~overlapped /\ UNCHANGED <<files, lock>> /\ Owning(p) /\ InFlight(p) /\ proc[p].pc = "open"
    BY <1>8 DEF OpenPartial, Owning, InFlight
  <2>2. CASE AfterArtifact(p, proc[p].made) /\ UNCHANGED partials
    <3>1. Keeps(p)' /\ \A q \in Procs \ {p} : proc'[q] = proc[q]
      BY <1>0, <2>1, <2>2, AfterKeeps DEF Shape, Locals, Covered
    <3>2. Whole(partials)' /\ Whole(files)' BY <2>1, <2>2 DEF Apart
    <3> QED BY <2>1, <3>1, <3>2, OwnerMoves
  <2>3. ASSUME NEW n \in Nat, OpenedAs(p, n) PROVE Apart'
    <3>1. PICK new \in Locals :
            /\ proc' = [proc EXCEPT ![p] = new] /\ new.pc = "dump" /\ new.kind = proc[p].kind
            /\ new.date = proc[p].date /\ new.run = proc[p].run /\ new.made = proc[p].made
            /\ new.suffix = n
      BY <2>3, OpenedAsLocal DEF Shape
    <3>2. proc'[p] = new /\ \A q \in Procs \ {p} : proc'[q] = proc[q] BY <3>1 DEF Shape
    <3>3. Opened(p, n) \in partials' /\ SameName(Opened(p, n), proc[p].kind, proc[p].date, n)
      BY <2>3 DEF OpenedAs, Opened, SameName
    <3>4. Keeps(p)' BY <1>0, <2>1, <3>1, <3>2, <3>3 DEF Keeps, Covered
    <3>5. Writers(proc[p].kind, proc[p].date, n) = {}
      BY <2>1 DEF Writers, Apart, OneOwner, Owning, InFlight
    <3>6. Opened(p, n).by = {proc[p].run} BY <3>5 DEF Opened
    <3>7. Whole(partials)' /\ Whole(files)' BY <2>1, <2>3, <3>6 DEF Apart, Whole, OpenedAs
    <3> QED BY <2>1, <3>2, <3>4, <3>7, OwnerMoves
  <2> QED BY <1>8, <2>2, <2>3, OpenIsLocal
<1>9. ASSUME NEW p \in Procs, Commit(p) PROVE Apart'
  <2>1. ~overlapped /\ lock' = lock /\ Owning(p) /\ proc[p].pc = "dump" /\ proc[p].kind \in Kinds
    BY <1>9 DEF Commit, Owning, InFlight, Shape
  <2> DEFINE one == [kind |-> proc[p].kind, suffix |-> proc[p].suffix]
  <2>2. PICK f \in partials :
          /\ SameName(f, proc[p].kind, proc[p].date, proc[p].suffix)
          /\ partials' = partials \ {f}
          /\ files' = {g \in files : ~SameName(g, proc[p].kind, proc[p].date, proc[p].suffix)} \cup {f}
          /\ AfterArtifact(p, proc[p].made \cup {one}) \/ AfterArtifact(p, proc[p].made)
    BY <1>9 DEF Commit
  <2>3. f \in files' /\ f.kind = proc[p].kind /\ f.day = proc[p].date BY <2>2 DEF SameName
  <2>4. \A g \in files' : g.day <= proc[p].date
    <3>1. proc[p].date \in Nat BY DaysAreNat DEF Shape, Locals
    <3>2. \A g \in files : g.day <= proc[p].date BY <1>0, <2>1
    <3> QED BY <2>2, <2>3, <3>1, <3>2
  <2>5. \A g \in files : \E h \in files' : h.kind = g.kind /\ h.day = g.day
    BY <2>2, <2>3 DEF SameName
  <2>6. DailyCount # 0 => \A m \in proc[p].made : \E h \in files' : h.kind = m.kind /\ h.day = proc[p].date
    BY <1>0, <2>1, <2>5 DEF Covered
  <2>7. proc[p].made \in SUBSET [kind : Kinds, suffix : Nat] /\ one \in [kind : Kinds, suffix : Nat]
    BY <2>1 DEF Shape, Locals
  <2>8. Keeps(p)' /\ \A q \in Procs \ {p} : proc'[q] = proc[q]
    <3>1. CASE AfterArtifact(p, proc[p].made) BY <2>1, <2>4, <2>6, <2>7, <3>1, AfterKeeps
    <3>2. CASE AfterArtifact(p, proc[p].made \cup {one})
      <4>1. DailyCount # 0 => \A m \in proc[p].made \cup {one} :
              \E h \in files' : h.kind = m.kind /\ h.day = proc[p].date
        BY <2>3, <2>6
      <4>2. proc[p].made \cup {one} \in SUBSET [kind : Kinds, suffix : Nat] BY <2>7
      <4> QED BY <2>1, <2>4, <3>2, <4>1, <4>2, AfterKeeps
    <3> QED BY <2>2, <3>1, <3>2
  <2>9. Whole(partials)' /\ Whole(files)' BY <2>1, <2>2 DEF Apart, Whole
  <2> QED BY <2>1, <2>8, <2>9, OwnerMoves
<1>10. ASSUME NEW p \in Procs, Prune(p) PROVE Apart'
  <2>1. /\ ~overlapped /\ UNCHANGED <<partials, lock>> /\ Owning(p) /\ InFlight(p)
        /\ proc[p].pc = "prune" /\ proc[p].kind \in Kinds
    BY <1>10 DEF Prune, Owning, InFlight, Shape
  <2>2. PICK new \in Locals :
          /\ proc' = [proc EXCEPT ![p] = new] /\ new.pc \in {"prune", "release"}
          /\ new.date = proc[p].date /\ new.run = proc[p].run /\ new.made = proc[p].made
    BY <1>10, PruneIsLocal DEF Shape
  <2>3. proc'[p] = new /\ \A q \in Procs \ {p} : proc'[q] = proc[q] BY <2>2 DEF Shape
  <2>4. files' \subseteq files BY <1>10 DEF Prune
  <2>5. ASSUME DailyCount # 0, NEW m \in proc[p].made PROVE Covered(p, m.kind)'
    BY <1>10, <2>1, <2>2, <2>3, <2>5, CoveredStays
  <2>6. Keeps(p)' BY <1>0, <2>1, <2>2, <2>3, <2>4, <2>5 DEF Keeps, Succeeded
  <2>7. Whole(partials)' /\ Whole(files)' BY <2>1, <2>4 DEF Apart, Whole
  <2> QED BY <2>1, <2>3, <2>6, <2>7, OwnerMoves
<1>11. CASE NextDay \/ UNCHANGED vars
  <2>1. UNCHANGED <<proc, files, partials, lock, overlapped>> BY <1>11 DEF NextDay, vars
  <2> QED BY <2>1 DEF Apart, OneOwner, RunOwnsItsFiles, Foremost, Owning, InFlight, Covered,
                      Succeeded, Whole, SameName
<1>12. ASSUME NEW p \in Procs, HookBack(p) PROVE Apart'
  <2>1. ~overlapped /\ UNCHANGED <<files, partials, lock>> /\ Owning(p) /\ InFlight(p)
    BY <1>12 DEF HookBack, Owning, InFlight
  <2>2. /\ proc'[p].pc = "open" /\ proc'[p].date = proc[p].date /\ proc'[p].run = proc[p].run
        /\ proc'[p].made = proc[p].made /\ \A q \in Procs \ {p} : proc'[q] = proc[q]
    BY <1>12, GotoIsLocal DEF HookBack, PCs, Shape
  <2>3. Keeps(p)' BY <1>0, <2>1, <2>2 DEF Keeps, Covered
  <2>4. Whole(partials)' /\ Whole(files)' BY <2>1 DEF Apart
  <2> QED BY <2>1, <2>2, <2>3, <2>4, OwnerMoves
<1> QED BY <1>1, <1>2, <1>3, <1>4, <1>5, <1>6, <1>7, <1>8, <1>9, <1>10, <1>11, <1>12
        DEF Next, RunStep

-----------------------------------------------------------------------------
(* Theorems *)

\* Locals and files keep their shape, and runs that are kept apart keep to themselves
\* (run_once, recover_stale_lock).
THEOREM BackupInvariance == Spec => []IInv
<1>1. Init => IInv BY ShapeInit, ApartInit DEF IInv
<1>2. IInv /\ [Next]_vars => IInv' BY ShapeStep, ApartStep DEF IInv
<1> QED BY <1>1, <1>2, PTL DEF Spec

\* However the service restarts, no run in flight loses its lockfile or the file it is
\* writing, as long as the lock has kept runs apart (recover_stale_lock).
THEOREM RunsOwnTheirFiles == Spec => []RunOwnsItsFiles
<1>1. IInv => RunOwnsItsFiles BY DEF IInv, Apart, RunOwnsItsFiles
<1> QED BY <1>1, BackupInvariance, PTL

\* A committed artifact is the work of one run, whatever dead runs left behind
\* (the .partial files of dump and snapshot).
THEOREM NoArtifactIsMixed == Spec => []ArtifactsWhole
<1>1. IInv => ArtifactsWhole
  BY FS_Singleton DEF IInv, Apart, ArtifactsWhole, Whole
<1> QED BY <1>1, BackupInvariance, PTL

\* A step leaves a pair of artifacts to restore from, if there was one.
LEMMA StepRestorable ==
  ASSUME IInv, [Next]_vars, ~overlapped', DailyCount # 0,
         NEW d \in Days, \A k \in Kinds : NewestArtifact(FilesOf(k), d) # {}
  PROVE  \E e \in Days : e >= d /\ \A k \in Kinds : \E f \in files' : f.kind = k /\ f.day = e
<1> USE DEF IInv
<1>1. \A k \in Kinds : \E f \in files : f.kind = k /\ f.day = d
  <2> TAKE k \in Kinds
  <2>1. Sound(FilesOf(k)) BY KindIsSound DEF Shape
  <2>2. \E f \in FilesOf(k) : f.day = d BY <2>1, NewestIffAny
  <2> QED BY <2>2 DEF FilesOf
<1>2. d >= d BY DaysAreNat
<1>3. ASSUME NEW p \in Procs, Commit(p)
      PROVE  \A g \in files : \E h \in files' : h.kind = g.kind /\ h.day = g.day
  <2>1. PICK f \in partials :
          /\ SameName(f, proc[p].kind, proc[p].date, proc[p].suffix)
          /\ files' = {g \in files : ~SameName(g, proc[p].kind, proc[p].date, proc[p].suffix)} \cup {f}
    BY <1>3 DEF Commit
  <2> QED BY <2>1 DEF SameName
<1>4. ASSUME NEW p \in Procs, Prune(p)
      PROVE  \E e \in Days : e >= d /\ \A k \in Kinds : \E f \in files' : f.kind = k /\ f.day = e
  <2>1. /\ ~overlapped /\ Owning(p) /\ proc[p].pc = "prune" BY <1>4 DEF Prune, Owning, InFlight
  <2>2. proc'[p].date = proc[p].date BY <1>4, PruneIsLocal DEF Shape
  <2>3. Succeeded(p) /\ \A f \in files : f.day <= proc[p].date BY <2>1, ApartIs DEF Keeps
  <2>4. d <= proc[p].date /\ proc[p].date \in Days BY <1>1, <2>3 DEF Kinds, Shape, Locals
  <2>5. ASSUME NEW k \in Kinds PROVE \E f \in files' : f.kind = k /\ f.day = proc[p].date
    <3>1. PICK m \in proc[p].made : m.kind = k BY <2>3 DEF Succeeded
    <3>2. Covered(p, m.kind)' BY <1>4, <2>1, <2>2, <3>1, CoveredStays
    <3> QED BY <2>2, <3>1, <3>2 DEF Covered
  <2>6. proc[p].date >= d BY <2>4, DaysAreNat
  <2> QED BY <2>4, <2>5, <2>6
<1>5. CASE UNCHANGED files BY <1>1, <1>2, <1>5
<1>6. UNCHANGED files \/ \E p \in Procs : Commit(p) \/ Prune(p)
  BY DEF Next, RunStep, vars, Window, RunNow, StartRun, Boot, NextDay, CreateLock, WriteLock,
         Begin, HookBack, OpenPartial, DumpFails, Release, EndRun, Crash
<1> QED BY <1>1, <1>2, <1>3, <1>4, <1>5, <1>6

\* With at least one daily snapshot to keep: what could be restored before a step can
\* be restored after it, on that day or a later one (prune, run_once_inner).
THEOREM SomethingRestorable == ASSUME DailyCount # 0 PROVE Spec => RestorableStays
<1>1. IInv /\ [Next]_vars =>
        [\A d \in Days :
           /\ ~overlapped'
           /\ \A k \in Kinds : NewestArtifact(FilesOf(k), d) # {}
           => \E e \in Days :
                /\ e >= d
                /\ \A k \in Kinds : \E f \in files' : f.kind = k /\ f.day = e]_vars
  BY StepRestorable
<1> QED BY <1>1, BackupInvariance, PTL DEF Spec, RestorableStays
=============================================================================
