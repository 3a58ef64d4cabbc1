------------------------------- MODULE Retention -------------------------------
(***************************************************************************)
(* Which committed backup artifacts retention keeps, and which one a       *)
(* restore picks: prune_one_kind of klams-store and newest_artifact of     *)
(* klams-service, over artifacts of one kind.  A date is a day number, day *)
(* 0 a Sunday; suffix 0 stands for a name without one.                     *)
(***************************************************************************)
EXTENDS Naturals, FiniteSets

CONSTANTS DailyCount, WeeklyCount

ASSUME RetentionAssumption == DailyCount \in Nat /\ WeeklyCount \in Nat

DatesOf(files) == {f.day : f \in files}
Sunday(d) == d % 7 = 0

\* The newest n of a set of dates.
NewestDates(dates, n) ==
  {d \in dates : Cardinality({e \in dates : e > d}) < n}

Daily(dates) == NewestDates(dates, DailyCount)

\* Sundays the daily dates cover already do not use up the weekly allowance.
Weekly(dates) ==
  NewestDates({d \in dates \ Daily(dates) : Sunday(d)}, WeeklyCount)

\* The representative of a date, kept for it and restored for it: the highest
\* suffix.
Representative(files, f) ==
  \A g \in files : g.day = f.day => g.suffix <= f.suffix

Kept(files) ==
  {f \in files : /\ Representative(files, f)
                 /\ f.day \in Daily(DatesOf(files)) \cup Weekly(DatesOf(files))}

Doomed(files) == files \ Kept(files)

\* What a restore of day d takes.
NewestArtifact(files, d) ==
  {f \in files : f.day = d /\ Representative(files, f)}

\* The suffix a new artifact of day d gets: none while that name is free.
FreeSuffix(files, d) ==
  LET taken == {f.suffix : f \in {g \in files : g.day = d}}
  IN  CHOOSE n \in 0..Cardinality(taken) :
        n \notin taken /\ \A m \in 0..n - 1 : m \in taken
=============================================================================
