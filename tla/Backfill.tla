------------------------------- MODULE Backfill -------------------------------
(***************************************************************************)
(* The author backfill at startup: page by page, every point of the         *)
(* knowledge collection without an author gets the system's name.  It runs   *)
(* in a task of its own while the service already answers, so points come,   *)
(* go and get an author of their own between a page and its patch.           *)
(***************************************************************************)
EXTENDS Naturals, FiniteSets

CONSTANTS Points,      \* ids, in the collection's order
          PageOf,      \* page_size (256)
          MaxChanges   \* bound: changes by other requests

BackfillAssumption == Points \subseteq Nat \ {0} /\ IsFiniteSet(Points) /\ PageOf \in Nat \ {0}

VARIABLES stamp,    \* per point: absent, none, system or agent
          fill,     \* the run
          old,      \* points that had no author when the run began and stand ever since
          changes

backfillVars == <<stamp, fill, old, changes>>
AtRest == [pc |-> "rest", offset |-> 0, page |-> {}, next |-> 0]

\* The filter is_empty(author_id).
Missing == {p \in Points : stamp[p] = "none"}

StartFill ==
  /\ fill.pc = "rest"
  /\ fill' = [AtRest EXCEPT !.pc = "scroll"] /\ old' = Missing
  /\ UNCHANGED <<stamp, changes>>

\* MUTANT of From: the offset is taken for the last point of the page before.
FromAfter(offset) == {p \in Missing : p > offset \/ offset = 0}

\* The points a scroll sees: the offset names the first of the page.
From(offset) == {p \in Missing : p >= offset}

\* A page, and the next point that matches, if there is one.
Scroll ==
  /\ fill.pc = "scroll"
  /\ LET page == {p \in From(fill.offset) : Cardinality({q \in From(fill.offset) : q < p}) < PageOf}
         rest == From(fill.offset) \ page
     IN fill' = IF page = {} THEN [AtRest EXCEPT !.pc = "done"]
                ELSE [fill EXCEPT !.pc = "patch", !.page = page,
                                  !.next = IF rest = {} THEN 0 ELSE CHOOSE p \in rest : \A q \in rest : p <= q]
  /\ UNCHANGED <<stamp, old, changes>>

\* set_payload on the points of the page that still stand, whoever has them by now.
Patch ==
  /\ fill.pc = "patch"
  /\ stamp' = [p \in Points |-> IF p \in fill.page /\ stamp[p] # "absent" THEN "system" ELSE stamp[p]]
  /\ fill' = [AtRest EXCEPT !.pc = IF fill.next = 0 THEN "done" ELSE "scroll", !.offset = fill.next]
  /\ UNCHANGED <<old, changes>>

\* A failed request or a stop of the service; the next start begins from the first point.
FillFails ==
  /\ fill.pc # "rest" /\ fill' = AtRest
  /\ UNCHANGED <<stamp, old, changes>>

\* Upserts stamp an author; a rewrite of the payload gives an old point one; a delete erases.
Change(p, to) ==
  /\ changes < MaxChanges /\ changes' = changes + 1
  /\ stamp[p] # to
  /\ stamp' = [stamp EXCEPT ![p] = to]
  /\ old' = old \ {p}
  /\ UNCHANGED fill

BackfillInit ==
  /\ stamp \in [Points -> {"absent", "none", "agent"}]
  /\ fill = AtRest /\ old = {} /\ changes = 0

BackfillNext ==
  \/ StartFill \/ Scroll \/ Patch \/ FillFails
  \/ \E p \in Points, to \in {"absent", "agent"} : Change(p, to)

BackfillSpec == BackfillInit /\ [][BackfillNext]_backfillVars

\* A run that comes to its end has left no point without an author that was there all the
\* time, although every patch takes its page out of what the next scroll sees and other
\* requests take out more (run_backfill).
BackfillMissesNone == fill.pc = "done" => \A p \in old : stamp[p] # "none"
===============================================================================
