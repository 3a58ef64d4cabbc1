------------------------------ MODULE FactStore ------------------------------
(***************************************************************************)
(* The canonical-fact half of PostgresStore, statement by statement: the   *)
(* transactions of upsert_fact_v2, propose_dissent, promote_dissent,       *)
(* discard_dissent, soft_delete_fact, restore_fact and hard_delete_fact,   *)
(* with the triggers of migration 0002, run by concurrent sessions under   *)
(* READ COMMITTED.                                                         *)
(*                                                                         *)
(* A session that must wait for a row lock while it already holds one, or  *)
(* that acts on what an earlier statement read, is split at that point;    *)
(* the statements after a transaction's last wait, and its commit, are one *)
(* step.  facts, dissents and dissentCount are the committed rows.  The    *)
(* row locks a session holds follow from its program counter.              *)
(***************************************************************************)
EXTENDS FactLedger, FiniteSets

CONSTANTS Sessions,     \* database sessions: pool workers and request handlers
          Writers,      \* the sources that write facts in this instance
          MaxVersion,   \* bound: no write is started against a later version
          None

ASSUME FactStoreAssumption ==
  /\ Writers \subseteq Sources
  /\ MaxVersion \in Nat
  /\ None \notin FactIds \cup DissentIds \cup Keys \cup Sources
  /\ IsFiniteSet(DissentIds)

VARIABLES dissentCount, \* facts.dissent_count, maintained by the triggers
          sess,         \* each session's transaction: its next statement and locals
          reply         \* what each session's last request was answered

vars == <<facts, dissents, dissentCount, sess, reply>>

PCs == {"idle", "select_id", "insert", "file", "promote", "recount", "orphan"}
Replies == {"none", "persisted", "dissented", "conflict", "gone", "error",
            "promoted", "discarded", "deleted", "deadlock", "lost"}

\* An expected_version of 0 stands for a request that carries none.
Session == [pc: PCs, fact: FactIds \cup {None}, dissent: DissentIds \cup {None},
            key: Keys \cup {None}, source: Sources \cup {None}, ev: Nat, count: Nat]
Txn(pc, f, d, k, src, ev, n) ==
  [pc |-> pc, fact |-> f, dissent |-> d, key |-> k, source |-> src,
   ev |-> ev, count |-> n]
Idle == Txn("idle", None, None, None, None, 0, 0)

-----------------------------------------------------------------------------
(* Row locks *)

HoldsFact(s, f) == sess[s].pc \in {"file", "orphan"} /\ sess[s].fact = f
HoldsDissent(s, d) == sess[s].pc \in {"promote", "recount"} /\ sess[s].dissent = d
FactFree(f) == \A s \in Sessions : ~HoldsFact(s, f)
DissentFree(d) == \A s \in Sessions : ~HoldsDissent(s, d)

\* The unique index on facts (type, payload_hash), which soft-deleted rows
\* are part of: does a row other than f occupy the entry?
IndexTaken(f, t, k) ==
  \E g \in FactIds \ {f} : Present(g) /\ facts[g].type = t /\ facts[g].key = k

Begin(s, txn) ==
  /\ sess' = [sess EXCEPT ![s] = txn]
  /\ reply' = [reply EXCEPT ![s] = "none"]
Finish(s, r) ==
  /\ sess' = [sess EXCEPT ![s] = Idle]
  /\ reply' = [reply EXCEPT ![s] = r]

Init ==
  /\ LedgerInit
  /\ dissentCount = [f \in FactIds |-> 0]
  /\ sess = [s \in Sessions |-> Idle]
  /\ reply = [s \in Sessions |-> "none"]

-----------------------------------------------------------------------------
(* Mutants: mistakes these handlers could have made.  None is part of Next; *)
(* each stands in for the action it is named after to show that a property  *)
(* notices.                                                                 *)

\* A stale expected_version is retried instead of answered.
AmendRetries(s) ==
  LET f == sess[s].fact
      stale == sess[s].ev # 0 /\ sess[s].ev # facts[f].version
  IN
  /\ sess[s].pc = "select_id"
  /\ Present(f) /\ FactFree(f)
  /\ TrustRank[sess[s].source] >= TrustRank[facts[f].source]
  /\ ~stale
  /\ facts' = [facts EXCEPT ![f] = Rewrite(@, sess[s].key, sess[s].source)]
  /\ Finish(s, "persisted")
  /\ UNCHANGED <<dissents, dissentCount>>

\* The insert has no ON CONFLICT clause.
FileAgain(s) ==
  /\ sess[s].pc = "file"
  /\ \E d \in DissentIds :
       /\ dissents[d].status = "absent"
       /\ dissents' = [dissents EXCEPT ![d] =
            [status |-> "pending", fact |-> sess[s].fact, key |-> sess[s].key,
             source |-> sess[s].source]]
  /\ dissentCount' = [dissentCount EXCEPT ![sess[s].fact] = @ + 1]
  /\ Finish(s, "dissented")
  /\ UNCHANGED facts

\* The status of the dissent is not looked at.
PromoteDecided(s, d, src, ev) ==
  /\ sess[s].pc = "idle"
  /\ dissents[d].status # "absent" /\ DissentFree(d)
  /\ facts[dissents[d].fact].version < MaxVersion
  /\ Begin(s, Txn("promote", dissents[d].fact, d, dissents[d].key, src, ev, 0))
  /\ UNCHANGED <<facts, dissents, dissentCount>>

\* The promoted fact takes the proposer's source, not the curator's.
PromoteAsProposer(s) ==
  LET f == sess[s].fact
      d == sess[s].dissent
  IN
  /\ sess[s].pc = "promote"
  /\ FactFree(f) /\ facts[f].version = sess[s].ev
  /\ facts' = [facts EXCEPT ![f] = Rewrite(@, sess[s].key, dissents[d].source)]
  /\ dissents' = [dissents EXCEPT ![d].status = "promoted"]
  /\ dissentCount' = [dissentCount EXCEPT ![f] = Cardinality(Pending(f) \ {d})]
  /\ Finish(s, "promoted")

\* The foreign key does not cascade.
HardDeleteAlone(s, f) ==
  /\ sess[s].pc = "idle"
  /\ Present(f) /\ FactFree(f)
  /\ Pending(f) = {}
  /\ facts' = [facts EXCEPT ![f] = NoRow]
  /\ dissentCount' = [dissentCount EXCEPT ![f] = 0]
  /\ Finish(s, "deleted")
  /\ UNCHANGED dissents

-----------------------------------------------------------------------------
(* upsert_fact_v2 *)

\* (1) A row already carries (type, payload_hash): the write is answered from
\* it, whatever its id, source or deleted_at.  Only updated_at moves.
UpsertSame(s, k, ev) ==
  /\ sess[s].pc = "idle"
  /\ \E g \in FactIds :
       /\ Present(g) /\ facts[g].type = k[1] /\ facts[g].key = k
       /\ FactFree(g)
       /\ Finish(s, IF ev # 0 /\ ev # facts[g].version
                    THEN "conflict" ELSE "persisted")
  /\ UNCHANGED <<facts, dissents, dissentCount>>

\* (1) No row carries the hash; nothing is locked when the next statement runs.
\* A generated id is an id that names no row.  MaxVersion and the stock of
\* dissent ids bound what is started.
UpsertMiss(s, f, k, src, ev) ==
  /\ sess[s].pc = "idle"
  /\ ~ \E g \in FactIds : Present(g) /\ facts[g].type = k[1] /\ facts[g].key = k
  /\ Present(f) => facts[f].version < MaxVersion
  /\ Cardinality({d \in DissentIds : dissents[d].status = "absent"})
       > Cardinality({t \in Sessions : sess[t].pc \in {"select_id", "file"}})
  /\ Begin(s, Txn("select_id", f, None, k, src, ev, 0))
  /\ UNCHANGED <<facts, dissents, dissentCount>>

\* (2) explicit_id names no row: fall through to the insert.
SelectIdMiss(s) ==
  /\ sess[s].pc = "select_id"
  /\ ~Present(sess[s].fact)
  /\ sess' = [sess EXCEPT ![s] = Txn("insert", @.fact, None, @.key, @.source, @.ev, 0)]
  /\ UNCHANGED <<facts, dissents, dissentCount, reply>>

\* (2) The row is locked and outranks the writer: the write becomes a dissent.
SelectIdOutranked(s) ==
  LET f == sess[s].fact IN
  /\ sess[s].pc = "select_id"
  /\ Present(f) /\ FactFree(f)
  /\ TrustRank[sess[s].source] < TrustRank[facts[f].source]
  /\ sess' = [sess EXCEPT ![s] = Txn("file", f, None, @.key, @.source, 0, 0)]
  /\ UNCHANGED <<facts, dissents, dissentCount, reply>>

\* (2) Same or higher trust: check the version, then overwrite payload, hash
\* and source.  The row keeps its type, even when the request names another.
Amend(s) ==
  LET f == sess[s].fact
      k == sess[s].key
      stale == sess[s].ev # 0 /\ sess[s].ev # facts[f].version
      taken == IndexTaken(f, facts[f].type, k)
  IN
  /\ sess[s].pc = "select_id"
  /\ Present(f) /\ FactFree(f)
  /\ TrustRank[sess[s].source] >= TrustRank[facts[f].source]
  /\ \/ stale /\ Finish(s, "conflict") /\ UNCHANGED facts
     \/ ~stale /\ taken /\ Finish(s, "error") /\ UNCHANGED facts
     \/ /\ ~stale /\ ~taken
        /\ facts' = [facts EXCEPT ![f] = Rewrite(@, k, sess[s].source)]
        /\ Finish(s, "persisted")
  /\ UNCHANGED <<dissents, dissentCount>>

\* (3) A new canonical row, unless a row took the id or the hash meanwhile.
InsertFact(s) ==
  LET f == sess[s].fact
      k == sess[s].key
      refused == Present(f) \/ IndexTaken(f, k[1], k)
  IN
  /\ sess[s].pc = "insert"
  /\ \/ refused /\ Finish(s, "error") /\ UNCHANGED facts
     \/ /\ ~refused
        /\ facts' = [facts EXCEPT ![f] = NewRow(k, sess[s].source)]
        /\ Finish(s, "persisted")
  /\ UNCHANGED <<dissents, dissentCount>>

-----------------------------------------------------------------------------
(* Filing a dissent *)

\* propose_dissent: lock the live fact; the proposal is hashed under its type.
ProposeDissent(s, f, p) ==
  /\ sess[s].pc = "idle"
  /\ facts[f].state = "live" /\ FactFree(f)
  /\ Cardinality({d \in DissentIds : dissents[d].status = "absent"})
       > Cardinality({t \in Sessions : sess[t].pc \in {"select_id", "file"}})
  /\ Begin(s, Txn("file", f, None, <<facts[f].type, p>>, "AgentProposal", 0, 0))
  /\ UNCHANGED <<facts, dissents, dissentCount>>

\* INSERT INTO dissents ... ON CONFLICT, with the fact locked.  An identical
\* pending dissent absorbs the proposal (submission_count is not modelled);
\* a session that holds that dissent is waited for.  The insert trigger
\* recounts under the fact's lock.
FileDissent(s) ==
  LET f == sess[s].fact
      k == sess[s].key
  IN
  /\ sess[s].pc = "file"
  /\ \A d \in PendingFor(f, k) : DissentFree(d)
  /\ \/ /\ PendingFor(f, k) # {}
        /\ UNCHANGED <<dissents, dissentCount>>
     \/ /\ PendingFor(f, k) = {}
        /\ \E d \in DissentIds :
             /\ dissents[d].status = "absent"
             /\ dissents' = [dissents EXCEPT ![d] =
                  [status |-> "pending", fact |-> f, key |-> k,
                   source |-> sess[s].source]]
        /\ dissentCount' = [dissentCount EXCEPT ![f] = Cardinality(Pending(f)) + 1]
  /\ Finish(s, "dissented")
  /\ UNCHANGED facts

-----------------------------------------------------------------------------
(* Resolving a dissent *)

\* promote_dissent locks the dissent, keeps what it read of it ...
PromoteSelect(s, d, src, ev) ==
  /\ sess[s].pc = "idle"
  /\ dissents[d].status # "absent" /\ DissentFree(d)
  /\ \/ /\ dissents[d].status # "pending"
        /\ Finish(s, "gone")
     \/ /\ dissents[d].status = "pending"
        /\ facts[dissents[d].fact].version < MaxVersion
        /\ Begin(s, Txn("promote", dissents[d].fact, d, dissents[d].key, src, ev, 0))
  /\ UNCHANGED <<facts, dissents, dissentCount>>

\* ... then locks the fact, checks the version, and overwrites the fact and
\* marks the dissent from the values read before.  Neither deleted_at nor the
\* fact's type is looked at.  The status trigger recounts.
PromoteApply(s) ==
  LET f == sess[s].fact
      d == sess[s].dissent
      k == sess[s].key
      stale == facts[f].version # sess[s].ev
      taken == IndexTaken(f, facts[f].type, k)
  IN
  /\ sess[s].pc = "promote"
  /\ FactFree(f)
  /\ \/ stale /\ Finish(s, "conflict")
        /\ UNCHANGED <<facts, dissents, dissentCount>>
     \/ ~stale /\ taken /\ Finish(s, "error")
        /\ UNCHANGED <<facts, dissents, dissentCount>>
     \/ /\ ~stale /\ ~taken
        /\ facts' = [facts EXCEPT ![f] = Rewrite(@, k, sess[s].source)]
        /\ dissents' = [dissents EXCEPT ![d].status = "promoted"]
        /\ dissentCount' = [dissentCount EXCEPT ![f] = Cardinality(Pending(f) \ {d})]
        /\ Finish(s, "promoted")

\* discard_dissent updates the dissent's row; its trigger's UPDATE of the fact
\* counts in the snapshot it starts with ...
DiscardUpdate(s, d) ==
  /\ sess[s].pc = "idle"
  /\ dissents[d].status # "absent" /\ DissentFree(d)
  /\ \/ /\ dissents[d].status # "pending"
        /\ Finish(s, "gone")
     \/ /\ dissents[d].status = "pending"
        /\ Begin(s, Txn("recount", dissents[d].fact, d, None, None, 0,
                     Cardinality(Pending(dissents[d].fact) \ {d})))
  /\ UNCHANGED <<facts, dissents, dissentCount>>

\* ... and writes that count once it has the fact's lock, however long it
\* waited: READ COMMITTED re-reads the row it updates, not the subquery.
DiscardRecount(s) ==
  LET f == sess[s].fact
      d == sess[s].dissent
  IN
  /\ sess[s].pc = "recount"
  /\ FactFree(f)
  /\ dissents' = [dissents EXCEPT ![d].status = "discarded"]
  /\ dissentCount' = [dissentCount EXCEPT ![f] = sess[s].count]
  /\ Finish(s, "discarded")
  /\ UNCHANGED facts

-----------------------------------------------------------------------------
(* Deleting a fact *)

SoftDelete(f) ==
  /\ facts[f].state = "live" /\ FactFree(f)
  /\ facts' = [facts EXCEPT ![f].state = "deleted"]
  /\ UNCHANGED <<dissents, dissentCount, sess, reply>>

Restore(f) ==
  /\ facts[f].state = "deleted" /\ FactFree(f)
  /\ facts' = [facts EXCEPT ![f].state = "live"]
  /\ UNCHANGED <<dissents, dissentCount, sess, reply>>

\* hard_delete_fact, nothing pending: the row and its decided dissents go.
HardDelete(s, f) ==
  /\ sess[s].pc = "idle"
  /\ Present(f) /\ FactFree(f)
  /\ Pending(f) = {}
  /\ facts' = [facts EXCEPT ![f] = NoRow]
  /\ dissents' = [d \in DissentIds |->
       IF dissents[d].status # "absent" /\ dissents[d].fact = f
       THEN NoDissent ELSE dissents[d]]
  /\ dissentCount' = [dissentCount EXCEPT ![f] = 0]
  /\ Finish(s, "deleted")

\* With dissents pending, the BEFORE DELETE trigger, under the fact's lock,
\* goes on to mark them ...
HardDeletePending(s, f) ==
  /\ sess[s].pc = "idle"
  /\ Present(f) /\ FactFree(f)
  /\ Pending(f) # {}
  /\ Begin(s, Txn("orphan", f, None, None, None, 0, 0))
  /\ UNCHANGED <<facts, dissents, dissentCount>>

\* ... and the status trigger then updates the very row being deleted, which
\* PostgreSQL refuses ("tuple to be deleted was already modified by an
\* operation triggered by the current command"): the statement rolls back.
HardDeleteRefused(s) ==
  /\ sess[s].pc = "orphan"
  /\ \A d \in Pending(sess[s].fact) : DissentFree(d)
  /\ Finish(s, "error")
  /\ UNCHANGED <<facts, dissents, dissentCount>>

-----------------------------------------------------------------------------
(* Failure *)

\* s holds one lock and waits for another that t holds.
WaitsFor(s, t) ==
  LET f == sess[s].fact IN
  \/ sess[s].pc = "file" /\ \E d \in PendingFor(f, sess[s].key) : HoldsDissent(t, d)
  \/ sess[s].pc = "orphan" /\ \E d \in Pending(f) : HoldsDissent(t, d)
  \/ sess[s].pc \in {"promote", "recount"} /\ HoldsFact(t, f)

Deadlocked(s) == \E t \in Sessions : WaitsFor(s, t) /\ WaitsFor(t, s)

\* The server breaks a cycle of waits by failing one of its transactions.
DeadlockVictim(s) ==
  /\ Deadlocked(s)
  /\ Finish(s, "deadlock")
  /\ UNCHANGED <<facts, dissents, dissentCount>>

\* A lost connection or a killed process rolls the transaction back.
ConnectionLost(s) ==
  /\ sess[s].pc # "idle"
  /\ Finish(s, "lost")
  /\ UNCHANGED <<facts, dissents, dissentCount>>

-----------------------------------------------------------------------------
\* The statement a session in a transaction runs next.
Step(s) ==
  \/ SelectIdMiss(s) \/ SelectIdOutranked(s) \/ Amend(s) \/ InsertFact(s)
  \/ FileDissent(s)
  \/ PromoteApply(s) \/ DiscardRecount(s) \/ HardDeleteRefused(s)

\* What comes in. POST /memory/facts names any source and version; memory_add writes
\* as an agent and names no version; a curator resolves, an agent proposes, an
\* administrator erases.
Upsert(s, writers, versions) ==
  \/ \E k \in Keys, ev \in versions : UpsertSame(s, k, ev)
  \/ \E f \in FactIds, k \in Keys, src \in writers, ev \in versions : UpsertMiss(s, f, k, src, ev)
RestUpsert(s) == Upsert(s, Writers, 0..MaxVersion)
ToolAdd(s) == Upsert(s, Writers \cap {"AgentProposal"}, {0})
ToolPropose(s) == \E f \in FactIds, p \in Payloads : ProposeDissent(s, f, p)
RestPromote(s) == \E d \in DissentIds, src \in Writers \cap Curators, ev \in 1..MaxVersion :
                    PromoteSelect(s, d, src, ev)
RestDiscard(s) == \E d \in DissentIds : DiscardUpdate(s, d)
ToolErase(s) == \E f \in FactIds : HardDelete(s, f) \/ HardDeletePending(s, f)
Request(s) ==
  RestUpsert(s) \/ ToolAdd(s) \/ ToolPropose(s) \/ RestPromote(s) \/ RestDiscard(s) \/ ToolErase(s)

Next ==
  \/ \E s \in Sessions : Request(s) \/ Step(s) \/ DeadlockVictim(s) \/ ConnectionLost(s)
  \/ \E f \in FactIds : SoftDelete(f) \/ Restore(f)

Spec == Init /\ [][Next]_vars

\* A session is scheduled; row-lock queues are first come, first served; the
\* server's deadlock detector runs.  Losing a connection is never due.
Fairness ==
  \A s \in Sessions : SF_vars(Step(s)) /\ WF_vars(DeadlockVictim(s))
FairSpec == Spec /\ Fairness

-----------------------------------------------------------------------------
(* Properties *)

\* Every variable has its shape: rows, dissents, locals and replies.
TypeOK ==
  /\ facts \in [FactIds -> Row \cup {NoRow}]
  /\ dissents \in [DissentIds -> Dissent \cup {NoDissent}]
  /\ dissentCount \in [FactIds -> Nat]
  /\ sess \in [Sessions -> Session]
  /\ reply \in [Sessions -> Replies]

\* FR-013: at most one pending dissent per fact and content, however many
\* sessions file, promote and discard at once.
OnePendingPerContent ==
  \A d, e \in DissentIds :
    /\ dissents[d].status = "pending" /\ dissents[e].status = "pending"
    /\ dissents[d].fact = dissents[e].fact /\ dissents[d].key = dissents[e].key
    => d = e

\* A dissent always refers to a fact row that exists: nothing a resolver,
\* a filer and an eraser do together leaves one dangling.
NoDanglingDissent ==
  \A d \in DissentIds : dissents[d].status # "absent" => Present(dissents[d].fact)

\* What a resolver read of a dissent before it waited for the fact is still
\* true when it applies it: the dissent is pending, on that fact, with that
\* content.
LocalsNeverStale ==
  \A s \in Sessions : sess[s].pc \in {"promote", "recount"} =>
    LET d == sess[s].dissent IN
    /\ dissents[d].status = "pending"
    /\ dissents[d].fact = sess[s].fact
    /\ sess[s].pc = "promote" => dissents[d].key = sess[s].key

\* A row lock has one holder; a session that locked a fact finds it there
\* until it lets go; and a transaction's locals are what its statements read.
RowLocks ==
  /\ \A s, t \in Sessions :
       /\ \A f \in FactIds : HoldsFact(s, f) /\ HoldsFact(t, f) => s = t
       /\ \A d \in DissentIds : HoldsDissent(s, d) /\ HoldsDissent(t, d) => s = t
  /\ \A s \in Sessions :
       /\ sess[s].pc # "idle" => sess[s].fact \in FactIds
       /\ sess[s].pc \in {"file", "orphan"} => Present(sess[s].fact)
       /\ sess[s].pc \in {"select_id", "insert", "file", "promote"} =>
            sess[s].key \in Keys /\ sess[s].source \in Sources
       /\ sess[s].pc \in {"promote", "recount"} => sess[s].dissent \in DissentIds
       /\ sess[s].pc = "promote" => sess[s].source \in Curators
       /\ sess[s].pc = "file" => sess[s].source # "User"

\* The ways a canonical fact can change are those of the ledger: never by a
\* less trusted writer, never without moving the version, and a dissent is
\* decided once.
ImplementsLedger == LedgerSpec

\* A write or a promotion acknowledged with expected_version v replaced
\* version v: nobody changed the fact between its reader and it.
AcknowledgedVersion ==
  [][\A s \in Sessions :
       /\ sess[s].ev # 0
       /\ \/ sess[s].pc = "select_id" /\ reply'[s] = "persisted"
          \/ sess[s].pc = "promote" /\ reply'[s] = "promoted"
       => /\ facts[sess[s].fact].version = sess[s].ev
          /\ facts'[sess[s].fact].version = sess[s].ev + 1
    ]_vars

\* A fact whose content a trusted source (User or Controller) wrote never
\* comes to carry content whose source is Task or AgentProposal, except
\* by being erased first.
TrustFloor ==
  [][\A f \in FactIds :
       /\ Present(f) /\ facts[f].source \in Curators
       /\ facts'[f].state # "absent"
       => facts'[f].source \in Curators
    ]_vars

\* Filing or promoting repairs dissent_count: after either, it is exact.
RepairsCount(s) ==
  /\ sess[s].pc \in {"file", "promote"} /\ sess'[s].pc = "idle"
  /\ dissents' # dissents
  => dissentCount'[sess[s].fact] =
       Cardinality({d \in DissentIds : /\ dissents'[d].status = "pending"
                                       /\ dissents'[d].fact = sess[s].fact})
CountRepaired == [][\A s \in Sessions : RepairsCount(s)]_vars

\* Sprint 002 data-model.md: dissent_count is the "cached count of pending
\* dissents for this fact".
DissentCountExact ==
  \A f \in FactIds :
    Present(f) => dissentCount[f] = Cardinality(Pending(f))

\* Migration 0002: a deleted fact's pending dissents are orphaned and cascade
\* away with it, so a hard delete is not refused because dissents are pending.
HardDeleteOrphans ==
  [][\A s \in Sessions : sess[s].pc = "orphan" => reply'[s] # "error"]_vars

\* A transaction under way ends: the server breaks deadlocks, queues for row
\* locks in order, and no statement retries by itself.
TransactionsEnd ==
  \A s \in Sessions : sess[s].pc # "idle" ~> sess[s].pc = "idle"
=============================================================================
