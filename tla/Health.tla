-------------------------------- MODULE Health --------------------------------
(***************************************************************************)
(* GET /healthz: each request probes the backends at once, unless a probe   *)
(* of the last two seconds is in the cache that all requests share.  A probe *)
(* takes its time, so a late one stores over a newer one, with the time of   *)
(* its end.                                                                *)
(***************************************************************************)
EXTENDS Integers

CONSTANTS Subs,      \* postgres, qdrant, embeddings, reranker
          Optional,  \* those the status does not depend on
          Watchers,  \* requests under way
          Ttl,       \* CACHE_TTL
          Slow,      \* what a probe takes at the most
          MaxTime    \* bound: time

HealthAssumption == {Ttl, Slow, MaxTime} \subseteq Nat /\ Ttl # 0 /\ Optional \subseteq Subs

VARIABLES now, truth,  \* the state of every backend
          lately,      \* per backend: the last time it was up
          cache,       \* per backend: the state and when it was stored
          probe        \* per request and backend: nothing, asked, heard or known, with time and state

healthVars == <<now, truth, lately, cache, probe>>
States == {"Ok", "Down"}
Never == -100
Unasked == [pc |-> "none", since |-> 0, state |-> "Ok"]
Known(state) == [pc |-> "known", since |-> 0, state |-> state]
Mark(w, s, p) == probe' = [probe EXCEPT ![w][s] = p]

\* MUTANT of FreshProbe: a hit is good at the end of its time, too.
FreshLonger(s) == now - cache[s].at <= Ttl

\* cached
FreshProbe(s) == now - cache[s].at < Ttl

\* healthz: all backends are asked together, those in the cache are known.
Ask(w) ==
  /\ \A s \in Subs : probe[w][s] = Unasked
  /\ probe' = [probe EXCEPT ![w] =
       [s \in Subs |-> IF FreshProbe(s) THEN Known(cache[s].state)
                       ELSE [pc |-> "asked", since |-> now, state |-> "Ok"]]]
  /\ UNCHANGED <<now, truth, lately, cache>>

\* The backend answers as it is, or the answer does not come through and counts as down.
Hear(w, s) ==
  /\ probe[w][s].pc = "asked"
  /\ \E state \in {truth[s], "Down"} :
       Mark(w, s, [probe[w][s] EXCEPT !.pc = "heard", !.state = state])
  /\ UNCHANGED <<now, truth, lately, cache>>

\* store_probe
StoreProbe(w, s) ==
  /\ probe[w][s].pc = "heard"
  /\ cache' = [cache EXCEPT ![s] = [state |-> probe[w][s].state, at |-> now]]
  /\ Mark(w, s, Known(probe[w][s].state))
  /\ UNCHANGED <<now, truth, lately>>

Complete(w) == \A s \in Subs : probe[w][s].pc = "known"

\* MUTANT of Status: one backend that answers is enough.
StatusAny(w) == IF \A s \in Subs : probe[w][s].state = "Down" THEN "Down" ELSE "Ok"

\* aggregate
Status(w) == IF \E s \in Subs \ Optional : probe[w][s].state = "Down" THEN "Down" ELSE "Ok"

Reply(w) ==
  /\ Complete(w)
  /\ probe' = [probe EXCEPT ![w] = [s \in Subs |-> Unasked]]
  /\ UNCHANGED <<now, truth, lately, cache>>

Flip(s) ==
  /\ truth' = [truth EXCEPT ![s] = IF @ = "Ok" THEN "Down" ELSE "Ok"]
  /\ lately' = [lately EXCEPT ![s] = now]
  /\ UNCHANGED <<now, cache, probe>>

\* Time; no probe takes longer than Slow, and an answer that is complete goes out at once.
Pass ==
  /\ now < MaxTime /\ now' = now + 1
  /\ \A w \in Watchers : /\ ~Complete(w)
                         /\ \A s \in Subs : probe[w][s].pc \in {"asked", "heard"} => now < probe[w][s].since + Slow
  /\ lately' = [s \in Subs |-> IF truth[s] = "Ok" THEN now + 1 ELSE lately[s]]
  /\ UNCHANGED <<truth, cache, probe>>

HealthInit ==
  /\ now = 0 /\ truth \in [Subs -> States]
  /\ lately = [s \in Subs |-> IF truth[s] = "Ok" THEN 0 ELSE Never]
  /\ cache = [s \in Subs |-> [state |-> "Ok", at |-> Never]]
  /\ probe = [w \in Watchers |-> [s \in Subs |-> Unasked]]

HealthNext ==
  \/ \E w \in Watchers : Ask(w) \/ Reply(w) \/ \E s \in Subs : Hear(w, s) \/ StoreProbe(w, s)
  \/ (\E s \in Subs : Flip(s)) \/ Pass

HealthSpec == HealthInit /\ [][HealthNext]_healthVars

\* Whatever order the probes of several requests end in, a request is told ok, and its
\* card says so, only if every backend the status depends on was up within the time of
\* the cache and of two probes before (healthz, check_health).
HealthRecent ==
  \A w \in Watchers : Complete(w) /\ Status(w) = "Ok" =>
    \A s \in Subs \ Optional : now - lately[s] < Ttl + 2 * Slow
===============================================================================
