-------------------------------- MODULE Limits --------------------------------
(***************************************************************************)
(* The connections: the accept loop reserves a slot of the peer or drops   *)
(* the socket; the permit gives it back, however the connection ends; a    *)
(* watchdog per connection drops the one that was quiet both ways for the  *)
(* keep-alive time, with whatever its handler was about to do.             *)
(***************************************************************************)
EXTENDS Naturals, FiniteSets

CONSTANTS Peers, Conns,
          Cap,        \* per_peer_max_concurrent
          KeepAlive   \* in the watchdog's ticks

LimitsAssumption == Cap \in Nat \ {0} /\ KeepAlive \in Nat \ {0} /\ IsFiniteSet(Conns)

VARIABLES count,   \* PerPeerCounter: the entries of the map
          conn     \* per connection: the peer, the handler, since when it is quiet

limitsVars == <<count, conn>>

Shut == [pc |-> "none"]
\* quiet is what passed since the last traffic, seen what last_activity_ms makes of it.
Open(p) == [pc |-> "open", peer |-> p, busy |-> FALSE, quiet |-> 0, seen |-> 0]
Established == {c \in Conns : conn[c].pc = "open"}
Of(p) == {c \in Established : conn[c].peer = p}

Held(p) == IF p \in DOMAIN count THEN count[p] ELSE 0
PutCount(p, n) == [q \in DOMAIN count \cup {p} |-> IF q = p THEN n ELSE count[q]]

\* MUTANT of Accept: a connection that is turned away has been counted.
CountedFirst(c, p) ==
  /\ conn[c].pc = "none"
  /\ count' = PutCount(p, Held(p) + 1)
  /\ conn' = IF Held(p) < Cap THEN [conn EXCEPT ![c] = Open(p)] ELSE conn

\* try_acquire: at the cap the socket is dropped.
Accept(c, p) ==
  /\ conn[c].pc = "none" /\ Held(p) < Cap
  /\ count' = PutCount(p, Held(p) + 1) /\ conn' = [conn EXCEPT ![c] = Open(p)]

\* PerPeerPermit::drop: an entry that comes to zero goes.
Release(c) ==
  /\ count' = LET p == conn[c].peer
              IN IF count[p] = 1 THEN [q \in DOMAIN count \ {p} |-> count[q]] ELSE [count EXCEPT ![p] = @ - 1]
  /\ conn' = [conn EXCEPT ![c] = Shut]

Heard(c, busy) == conn' = [conn EXCEPT ![c].busy = busy, ![c].quiet = 0, ![c].seen = 0]

\* A request comes in; the handler may be silent for as long as it takes.
Reads(c) == c \in Established /\ ~conn[c].busy /\ Heard(c, TRUE) /\ UNCHANGED count

\* MUTANT of Sends: activity is what the client says.
WritesUnheard(c, busy) ==
  /\ c \in Established /\ conn[c].busy /\ UNCHANGED count
  /\ conn' = [conn EXCEPT ![c].busy = busy, ![c].quiet = 0]

\* An answer, or a part of a stream that goes on.
Sends(c, busy) == c \in Established /\ conn[c].busy /\ Heard(c, busy) /\ UNCHANGED count

\* The peer goes away, or the protocol fails.
Ends(c) == c \in Established /\ Release(c)

\* The watchdog looks before the clock goes on.
IsIdle(c) == c \in Established /\ conn[c].seen >= KeepAlive
Watch(c) == IsIdle(c) /\ Release(c)

Tick ==
  /\ \A c \in Established : ~IsIdle(c)
  /\ conn' = [c \in Conns |-> IF c \in Established THEN [conn[c] EXCEPT !.quiet = @ + 1, !.seen = @ + 1] ELSE conn[c]]
  /\ UNCHANGED count

LimitsInit == count = [p \in {} |-> 0] /\ conn = [c \in Conns |-> Shut]
ConnStep(c) == Reads(c) \/ Sends(c, TRUE) \/ Sends(c, FALSE) \/ Ends(c) \/ Watch(c)
LimitsNext == Tick \/ (\E c \in Conns : ConnStep(c) \/ \E p \in Peers : Accept(c, p))
LimitsSpec == LimitsInit /\ [][LimitsNext]_limitsVars

-----------------------------------------------------------------------------
Opened == [pc : {"open"}, peer : Peers, busy : BOOLEAN, quiet : Nat, seen : Nat]
LimitsTypeOK ==
  /\ conn \in [Conns -> {Shut} \cup Opened]
  /\ \E S \in SUBSET Peers : count \in [S -> Nat]

\* However its connections end, a peer holds as many slots as it has connections and
\* never more than the cap; one that has none is not in the map (PerPeerPermit).
CountExact ==
  \A p \in Peers : /\ Held(p) = Cardinality(Of(p)) /\ Held(p) <= Cap
                   /\ p \in DOMAIN count => count[p] > 0

\* A connection with traffic either way within the keep-alive time is not cut (#869).
TalkingIsKept ==
  \A c \in Conns : c \in Established /\ IsIdle(c) => conn[c].quiet >= KeepAlive
=============================================================================
