----------------------------- MODULE FactLedger -----------------------------
(***************************************************************************)
(* What the fact store promises its callers, with no transactions, locks   *)
(* or sessions: a ledger of canonical facts and of the dissents filed      *)
(* against them.  Every change of a canonical fact's content is either an  *)
(* overwrite by a source at least as trusted, or the adoption of a pending *)
(* dissent by a curator, and either one moves the version by exactly one.  *)
(* A dissent is decided once.  FactStore is shown to implement this.       *)
(***************************************************************************)
EXTENDS Integers

CONSTANTS FactIds,      \* ids a fact row may carry
          DissentIds,   \* ids a dissent row may carry
          Types,        \* fact types
          Payloads      \* canonical payloads

VARIABLES facts, dissents

ledger == <<facts, dissents>>

Sources == {"User", "Controller", "Task", "AgentProposal"}

\* Sources that may promote or discard a dissent.
Curators == {"User", "Controller"}

TrustRank ==
  [User |-> 4, Controller |-> 3, Task |-> 2, AgentProposal |-> 1]

\* The content of a row: the type it was hashed under and the payload.  The
\* SHA-256 of the pair is represented by the pair (no collisions).
Keys == Types \X Payloads

Row == [state: {"live", "deleted"}, type: Types, key: Keys,
        source: Sources, version: Nat \ {0}]
NoRow == [state |-> "absent"]

\* A row after its payload, hash and source are overwritten.
Rewrite(row, k, src) ==
  [state |-> row.state, type |-> row.type, key |-> k,
   source |-> src, version |-> row.version + 1]
NewRow(k, src) ==
  [state |-> "live", type |-> k[1], key |-> k, source |-> src, version |-> 1]

Dissent == [status: {"pending", "promoted", "discarded"}, fact: FactIds,
            key: Keys, source: Sources]
NoDissent == [status |-> "absent"]

Present(f) == facts[f].state # "absent"
PendingFor(f, k) == {d \in DissentIds : /\ dissents[d].status = "pending"
                                        /\ dissents[d].fact = f
                                        /\ dissents[d].key = k}
Pending(f) == {d \in DissentIds : /\ dissents[d].status = "pending"
                                  /\ dissents[d].fact = f}

-----------------------------------------------------------------------------
LedgerInit ==
  /\ facts = [f \in FactIds |-> NoRow]
  /\ dissents = [d \in DissentIds |-> NoDissent]

Create(f) ==
  /\ ~Present(f)
  /\ \E k \in Keys, src \in Sources :
       facts' = [facts EXCEPT ![f] = NewRow(k, src)]
  /\ UNCHANGED dissents

Overwrite(f) ==
  /\ Present(f)
  /\ \E k \in Keys, src \in Sources :
       /\ TrustRank[src] >= TrustRank[facts[f].source]
       /\ facts' = [facts EXCEPT ![f] = Rewrite(@, k, src)]
  /\ UNCHANGED dissents

Adopt(f, d) ==
  /\ Present(f)
  /\ d \in Pending(f)
  /\ \E src \in Curators :
       facts' = [facts EXCEPT ![f] = Rewrite(@, dissents[d].key, src)]
  /\ dissents' = [dissents EXCEPT ![d].status = "promoted"]

\* A dissent is filed once per (fact, content): an identical proposal that is
\* still pending absorbs it.
File(f, d) ==
  /\ Present(f)
  /\ dissents[d].status = "absent"
  /\ \E k \in Keys, src \in Sources \ {"User"} :
       /\ PendingFor(f, k) = {}
       /\ dissents' = [dissents EXCEPT ![d] =
            [status |-> "pending", fact |-> f, key |-> k, source |-> src]]
  /\ UNCHANGED facts

Reject(d) ==
  /\ dissents[d].status = "pending"
  /\ dissents' = [dissents EXCEPT ![d].status = "discarded"]
  /\ UNCHANGED facts

Hide(f) ==
  /\ facts[f].state = "live"
  /\ facts' = [facts EXCEPT ![f].state = "deleted"]
  /\ UNCHANGED dissents

Show(f) ==
  /\ facts[f].state = "deleted"
  /\ facts' = [facts EXCEPT ![f].state = "live"]
  /\ UNCHANGED dissents

\* A fact is erased only when nothing pending refers to it, and takes its
\* decided dissents with it.
Erase(f) ==
  /\ Present(f)
  /\ Pending(f) = {}
  /\ facts' = [facts EXCEPT ![f] = NoRow]
  /\ dissents' = [d \in DissentIds |->
       IF dissents[d].status # "absent" /\ dissents[d].fact = f
       THEN NoDissent ELSE dissents[d]]

LedgerNext ==
  \/ \E f \in FactIds : Create(f) \/ Overwrite(f) \/ Hide(f) \/ Show(f) \/ Erase(f)
  \/ \E f \in FactIds, d \in DissentIds : Adopt(f, d) \/ File(f, d)
  \/ \E d \in DissentIds : Reject(d)

LedgerSpec == LedgerInit /\ [][LedgerNext]_ledger
=============================================================================
