--------------------------- MODULE FactStoreProofs ---------------------------
(***************************************************************************)
(* Theorems about FactStore, for any sets of facts, dissents, types,       *)
(* payloads and sessions.                                                  *)
(***************************************************************************)
EXTENDS FactStore, FiniteSetTheorems, TLAPS

\* The set of a fact's pending dissents is finite, so its count is a natural number.
LEMMA PendingCount ==
  ASSUME NEW S \in SUBSET DissentIds
  PROVE  Cardinality(S) \in Nat
BY FactStoreAssumption, FS_Subset, FS_CardinalityType

\* Whoever asks, a request is one of these statements: what an agent's tool sends is
\* among what REST may send.
LEMMA RequestCases ==
  ASSUME NEW s \in Sessions, Request(s)
  PROVE  \/ \E k \in Keys, ev \in 0..MaxVersion : UpsertSame(s, k, ev)
         \/ \E f \in FactIds, k \in Keys, src \in Writers, ev \in 0..MaxVersion :
              UpsertMiss(s, f, k, src, ev)
         \/ \E f \in FactIds, p \in Payloads : ProposeDissent(s, f, p)
         \/ \E d \in DissentIds, src \in Writers \cap Curators, ev \in 1..MaxVersion :
              PromoteSelect(s, d, src, ev)
         \/ \E d \in DissentIds : DiscardUpdate(s, d)
         \/ \E f \in FactIds : HardDelete(s, f) \/ HardDeletePending(s, f)
<1>1. 0 \in 0..MaxVersion
  BY FactStoreAssumption
<1>2. CASE RestUpsert(s)
  BY <1>2 DEF RestUpsert, Upsert
<1>3. CASE ToolAdd(s)
  BY <1>1, <1>3 DEF ToolAdd, Upsert
<1>4. CASE ToolPropose(s) \/ RestPromote(s) \/ RestDiscard(s) \/ ToolErase(s)
  BY <1>4 DEF ToolPropose, RestPromote, RestDiscard, ToolErase
<1>5. QED
  BY <1>2, <1>3, <1>4 DEF Request

\* Every initial state is well typed.
LEMMA InitTypeOK == Init => TypeOK
BY DEF Init, LedgerInit, TypeOK, Idle, Txn, Session, PCs, Replies

\* A session outside any transaction has the shape of one.
LEMMA IdleIsSession == Idle \in Session
BY DEF Idle, Txn, Session, PCs

\* COMMIT or ROLLBACK, whatever is answered, leaves the sessions typed.
LEMMA FinishTyped ==
  ASSUME TypeOK, NEW s \in Sessions, NEW r \in Replies, Finish(s, r)
  PROVE  sess' \in [Sessions -> Session] /\ reply' \in [Sessions -> Replies]
BY IdleIsSession DEF TypeOK, Finish

\* Opening a transaction leaves the sessions typed.
LEMMA BeginTyped ==
  ASSUME TypeOK, NEW s \in Sessions, NEW txn \in Session, Begin(s, txn)
  PROVE  sess' \in [Sessions -> Session] /\ reply' \in [Sessions -> Replies]
BY DEF TypeOK, Begin, Replies

\* The locals of a transaction have their shape.
LEMMA TxnTyped ==
  ASSUME NEW pc \in PCs, NEW f \in FactIds \cup {None},
         NEW d \in DissentIds \cup {None}, NEW k \in Keys \cup {None},
         NEW src \in Sources \cup {None}, NEW ev \in Nat, NEW n \in Nat
  PROVE  /\ Txn(pc, f, d, k, src, ev, n) \in Session
         /\ Txn(pc, f, d, k, src, ev, n).pc = pc
         /\ Txn(pc, f, d, k, src, ev, n).fact = f
         /\ Txn(pc, f, d, k, src, ev, n).dissent = d
         /\ Txn(pc, f, d, k, src, ev, n).key = k
         /\ Txn(pc, f, d, k, src, ev, n).source = src
         /\ Txn(pc, f, d, k, src, ev, n).ev = ev
BY DEF Txn, Session

\* A fact that is present is a row.
LEMMA PresentIsRow ==
  ASSUME TypeOK, NEW f \in FactIds, Present(f)
  PROVE  facts[f] \in Row
BY DEF TypeOK, Present, NoRow

\* An overwritten row is a row.
LEMMA RewriteTyped ==
  ASSUME NEW row \in Row, NEW k \in Keys, NEW src \in Sources
  PROVE  /\ Rewrite(row, k, src) \in Row
         /\ Rewrite(row, k, src).state = row.state
BY DEF Rewrite, Row

\* Every statement, failure and deletion keeps the shape of the rows and locals.
LEMMA StepTypeOK ==
  ASSUME TypeOK, RowLocks, LocalsNeverStale, NoDanglingDissent, [Next]_vars
  PROVE  TypeOK'
<1> USE DEF TypeOK
<1>1. ASSUME NEW s \in Sessions, NEW k \in Keys, NEW ev \in 0..MaxVersion,
             UpsertSame(s, k, ev)
      PROVE  TypeOK'
  BY <1>1, FinishTyped DEF UpsertSame, Replies
<1>2. ASSUME NEW s \in Sessions, NEW f \in FactIds, NEW k \in Keys,
             NEW src \in Writers, NEW ev \in 0..MaxVersion,
             UpsertMiss(s, f, k, src, ev)
      PROVE  TypeOK'
  <2>1. Txn("select_id", f, None, k, src, ev, 0) \in Session
    BY FactStoreAssumption, TxnTyped DEF PCs
  <2>2. QED
    BY <1>2, <2>1, BeginTyped DEF UpsertMiss
<1>3. ASSUME NEW s \in Sessions, SelectIdMiss(s) \/ SelectIdOutranked(s)
      PROVE  TypeOK'
  <2>1. sess[s] \in Session /\ sess[s].fact \in FactIds
    BY <1>3 DEF SelectIdMiss, SelectIdOutranked, RowLocks
  <2>2. /\ sess[s].key \in Keys \cup {None} /\ sess[s].source \in Sources \cup {None}
        /\ sess[s].ev \in Nat
    BY <2>1 DEF Session
  <2>3. Txn("insert", sess[s].fact, None, sess[s].key, sess[s].source, sess[s].ev, 0) \in Session
    BY <2>1, <2>2, TxnTyped DEF PCs
  <2>4. Txn("file", sess[s].fact, None, sess[s].key, sess[s].source, 0, 0) \in Session
    BY <2>1, <2>2, TxnTyped DEF PCs
  <2>5. QED
    BY <1>3, <2>3, <2>4 DEF SelectIdMiss, SelectIdOutranked
<1>4. ASSUME NEW s \in Sessions, Amend(s)
      PROVE  TypeOK'
  <2>1. /\ sess[s].fact \in FactIds /\ Present(sess[s].fact)
        /\ sess[s].key \in Keys /\ sess[s].source \in Sources
    BY <1>4 DEF Amend, RowLocks
  <2>2. facts' \in [FactIds -> Row \cup {NoRow}]
    BY <1>4, <2>1, PresentIsRow, RewriteTyped DEF Amend
  <2>3. QED
    BY <1>4, <2>2, FinishTyped DEF Amend, Replies
<1>5. ASSUME NEW s \in Sessions, InsertFact(s)
      PROVE  TypeOK'
  <2>1. /\ sess[s].fact \in FactIds
        /\ sess[s].key \in Keys /\ sess[s].source \in Sources
    BY <1>5 DEF InsertFact, RowLocks
  <2>2. NewRow(sess[s].key, sess[s].source) \in Row
    BY <2>1 DEF NewRow, Row, Keys
  <2>3. facts' \in [FactIds -> Row \cup {NoRow}]
    BY <1>5, <2>1, <2>2 DEF InsertFact
  <2>4. QED
    BY <1>5, <2>3, FinishTyped DEF InsertFact, Replies
<1>6. ASSUME NEW s \in Sessions, NEW f \in FactIds, NEW p \in Payloads,
             ProposeDissent(s, f, p)
      PROVE  TypeOK'
  <2>1. facts[f] \in Row
    BY <1>6 DEF ProposeDissent, NoRow
  <2>2. facts[f].type \in Types
    BY <2>1 DEF Row
  <2>. DEFINE k == <<facts[f].type, p>>
  <2>5. k \in Keys /\ "file" \in PCs /\ "AgentProposal" \in Sources
    BY <2>2 DEF PCs, Keys, Sources
  <2> HIDE DEF k
  <2>4. Txn("file", f, None, k, "AgentProposal", 0, 0) \in Session
    BY <2>5, TxnTyped
  <2> USE DEF k
  <2>3. QED
    BY <1>6, <2>4, BeginTyped DEF ProposeDissent
<1>7. ASSUME NEW s \in Sessions, FileDissent(s)
      PROVE  TypeOK'
  <2>1. /\ sess[s].fact \in FactIds
        /\ sess[s].key \in Keys /\ sess[s].source \in Sources
    BY <1>7 DEF FileDissent, RowLocks
  <2>2. Cardinality(Pending(sess[s].fact)) + 1 \in Nat
    BY PendingCount DEF Pending
  <2>3. [status |-> "pending", fact |-> sess[s].fact, key |-> sess[s].key,
         source |-> sess[s].source] \in Dissent
    BY <2>1 DEF Dissent
  <2>4. /\ dissents' \in [DissentIds -> Dissent \cup {NoDissent}]
        /\ dissentCount' \in [FactIds -> Nat]
    BY <1>7, <2>2, <2>3 DEF FileDissent
  <2>5. QED
    BY <1>7, <2>4, FinishTyped DEF FileDissent, Replies
<1>8. ASSUME NEW s \in Sessions, NEW d \in DissentIds,
             NEW src \in Writers \cap Curators, NEW ev \in 1..MaxVersion,
             PromoteSelect(s, d, src, ev)
      PROVE  TypeOK'
  <2>1. CASE dissents[d].status = "pending"
    <3>1. dissents[d] \in Dissent
      BY <2>1 DEF NoDissent
    <3>2. /\ dissents[d].fact \in FactIds
          /\ dissents[d].key \in Keys
          /\ src \in Sources /\ ev \in Nat
      BY <3>1, FactStoreAssumption DEF Dissent, Curators, Sources
    <3>4. Txn("promote", dissents[d].fact, d, dissents[d].key, src, ev, 0) \in Session
      BY <3>2, TxnTyped DEF PCs
    <3>5. QED
      BY <1>8, <2>1, <3>4, BeginTyped DEF PromoteSelect
  <2>2. CASE dissents[d].status # "pending"
    BY <1>8, <2>2, FinishTyped DEF PromoteSelect, Replies
  <2>3. QED
    BY <2>1, <2>2
<1>9. ASSUME NEW s \in Sessions, PromoteApply(s)
      PROVE  TypeOK'
  <2>1. /\ sess[s].fact \in FactIds /\ sess[s].dissent \in DissentIds
        /\ sess[s].key \in Keys /\ sess[s].source \in Sources
    BY <1>9 DEF PromoteApply, RowLocks
  <2>2. /\ dissents[sess[s].dissent] \in Dissent
        /\ dissents[sess[s].dissent].fact = sess[s].fact
    BY <1>9, <2>1 DEF PromoteApply, LocalsNeverStale, NoDissent
  <2>3. facts[sess[s].fact] \in Row
    BY <2>1, <2>2, PresentIsRow DEF NoDanglingDissent, Dissent
  <2>4. /\ facts' \in [FactIds -> Row \cup {NoRow}]
    BY <1>9, <2>1, <2>3, RewriteTyped DEF PromoteApply
  <2>5. [dissents[sess[s].dissent] EXCEPT !.status = "promoted"] \in Dissent
    BY <2>2 DEF Dissent
  <2>6. /\ dissents' \in [DissentIds -> Dissent \cup {NoDissent}]
    BY <1>9, <2>1, <2>5 DEF PromoteApply
  <2>7. Cardinality(Pending(sess[s].fact) \ {sess[s].dissent}) \in Nat
    BY PendingCount DEF Pending
  <2>8. dissentCount' \in [FactIds -> Nat]
    BY <1>9, <2>1, <2>7 DEF PromoteApply
  <2>9. QED
    BY <1>9, <2>4, <2>6, <2>8, FinishTyped DEF PromoteApply, Replies
<1>10. ASSUME NEW s \in Sessions, NEW d \in DissentIds, DiscardUpdate(s, d)
       PROVE  TypeOK'
  <2>1. CASE dissents[d].status = "pending"
    <3>1. dissents[d] \in Dissent
      BY <2>1 DEF NoDissent
    <3>2. dissents[d].fact \in FactIds
      BY <3>1 DEF Dissent
    <3>. DEFINE n == Cardinality(Pending(dissents[d].fact) \ {d})
    <3>3. n \in Nat
      BY PendingCount DEF Pending
    <3>6. "recount" \in PCs
      BY DEF PCs
    <3> HIDE DEF n
    <3>4. Txn("recount", dissents[d].fact, d, None, None, 0, n) \in Session
      BY <3>2, <3>3, <3>6, TxnTyped
    <3> USE DEF n
    <3>5. QED
      BY <1>10, <2>1, <3>4, BeginTyped DEF DiscardUpdate
  <2>2. CASE dissents[d].status # "pending"
    BY <1>10, <2>2, FinishTyped DEF DiscardUpdate, Replies
  <2>3. QED
    BY <2>1, <2>2
<1>11. ASSUME NEW s \in Sessions, DiscardRecount(s)
       PROVE  TypeOK'
  <2>1. /\ sess[s].fact \in FactIds /\ sess[s].dissent \in DissentIds
        /\ sess[s] \in Session
    BY <1>11 DEF DiscardRecount, RowLocks
  <2>2. dissents[sess[s].dissent] \in Dissent
    BY <1>11, <2>1 DEF DiscardRecount, LocalsNeverStale, NoDissent
  <2>3. [dissents[sess[s].dissent] EXCEPT !.status = "discarded"] \in Dissent
    BY <2>2 DEF Dissent
  <2>4. /\ dissents' \in [DissentIds -> Dissent \cup {NoDissent}]
    BY <1>11, <2>1, <2>3 DEF DiscardRecount
  <2>5. sess[s].count \in Nat
    BY <2>1 DEF Session
  <2>6. dissentCount' \in [FactIds -> Nat]
    BY <1>11, <2>1, <2>5 DEF DiscardRecount
  <2>7. QED
    BY <1>11, <2>4, <2>6, FinishTyped DEF DiscardRecount, Replies
<1>12. ASSUME NEW f \in FactIds, SoftDelete(f) \/ Restore(f)
       PROVE  TypeOK'
  <2>1. facts[f] \in Row
    BY <1>12, PresentIsRow DEF SoftDelete, Restore, Present
  <2>2. /\ [facts[f] EXCEPT !.state = "live"] \in Row
        /\ [facts[f] EXCEPT !.state = "deleted"] \in Row
    BY <2>1 DEF Row
  <2>3. QED
    BY <1>12, <2>2 DEF SoftDelete, Restore
<1>13. ASSUME NEW s \in Sessions, NEW f \in FactIds, HardDelete(s, f)
       PROVE  TypeOK'
  BY <1>13, FinishTyped DEF HardDelete, Replies
<1>14. ASSUME NEW s \in Sessions, NEW f \in FactIds, HardDeletePending(s, f)
       PROVE  TypeOK'
  <2>1. Txn("orphan", f, None, None, None, 0, 0) \in Session
    BY TxnTyped DEF PCs
  <2>2. QED
    BY <1>14, <2>1, BeginTyped DEF HardDeletePending
<1>15. ASSUME NEW s \in Sessions,
              HardDeleteRefused(s) \/ DeadlockVictim(s) \/ ConnectionLost(s)
       PROVE  TypeOK'
  BY <1>15, FinishTyped DEF HardDeleteRefused, DeadlockVictim, ConnectionLost, Replies
<1>16. CASE UNCHANGED vars
  BY <1>16 DEF vars
<1>17. QED
  BY <1>1, <1>2, <1>3, <1>4, <1>5, <1>6, <1>7, <1>8, <1>9, <1>10, <1>11, <1>12,
     <1>13, <1>14, <1>15, <1>16, RequestCases DEF Next, Step

\* The inductive invariant: the properties that hold each other up.
IInv == /\ TypeOK /\ RowLocks /\ LocalsNeverStale
        /\ NoDanglingDissent /\ OnePendingPerContent

\* No step gives a row lock a second holder or takes a locked row away.
LEMMA StepRowLocks ==
  ASSUME IInv, TypeOK', [Next]_vars
  PROVE  RowLocks'
<1> USE DEF IInv, TypeOK, RowLocks, HoldsFact, HoldsDissent, FactFree, DissentFree,
            Begin, Finish, Idle, Txn, Present, NoRow, Row
<1>1. ASSUME NEW s \in Sessions, NEW k \in Keys, NEW ev \in 0..MaxVersion,
             UpsertSame(s, k, ev)
      PROVE  RowLocks'
  BY <1>1 DEF UpsertSame
<1>2. ASSUME NEW s \in Sessions, NEW f \in FactIds, NEW k \in Keys,
             NEW src \in Writers, NEW ev \in 0..MaxVersion,
             UpsertMiss(s, f, k, src, ev)
      PROVE  RowLocks'
  <2>1. src \in Sources
    BY FactStoreAssumption
  <2>2. sess' = [sess EXCEPT ![s] = Txn("select_id", f, None, k, src, ev, 0)]
    BY <1>2 DEF UpsertMiss
  <2>3. QED
    BY <1>2, <2>1, <2>2 DEF UpsertMiss
<1>3. ASSUME NEW s \in Sessions, SelectIdMiss(s)
      PROVE  RowLocks'
  BY <1>3 DEF SelectIdMiss
<1>4. ASSUME NEW s \in Sessions, SelectIdOutranked(s)
      PROVE  RowLocks'
  <2>1. facts[sess[s].fact] \in Row /\ sess[s].fact \in FactIds
    BY <1>4, PresentIsRow DEF SelectIdOutranked
  <2>2. facts[sess[s].fact].source \in Sources
    BY <2>1
  <2>3. sess[s].source # "User"
    BY <1>4, <2>2 DEF SelectIdOutranked, TrustRank, Sources
  <2>4. QED
    BY <1>4, <2>1, <2>3 DEF SelectIdOutranked
<1>5. ASSUME NEW s \in Sessions, Amend(s)
      PROVE  RowLocks'
  <2>1. sess' = [sess EXCEPT ![s] = Idle]
    BY <1>5 DEF Amend
  <2>2. \A f \in FactIds : Present(f) => Present(f)'
    BY <1>5 DEF Amend, Rewrite
  <2> QED
    BY <2>1, <2>2
<1>6. ASSUME NEW s \in Sessions, InsertFact(s)
      PROVE  RowLocks'
  <2>1. sess' = [sess EXCEPT ![s] = Idle]
    BY <1>6 DEF InsertFact
  <2>2. \A f \in FactIds : Present(f) => Present(f)'
    BY <1>6 DEF InsertFact, NewRow
  <2> QED
    BY <2>1, <2>2
<1>7. ASSUME NEW s \in Sessions, NEW f \in FactIds, NEW p \in Payloads,
             ProposeDissent(s, f, p)
      PROVE  RowLocks'
  <2>1. facts[f] \in Row
    BY <1>7 DEF ProposeDissent
  <2>2. <<facts[f].type, p>> \in Keys
    BY <2>1 DEF Keys
  <2>3. "AgentProposal" \in Sources
    BY DEF Sources
  <2>. DEFINE k == <<facts[f].type, p>>
  <2>4. sess' = [sess EXCEPT ![s] = Txn("file", f, None, k, "AgentProposal", 0, 0)]
    BY <1>7 DEF ProposeDissent
  <2>. HIDE DEF k
  <2>5. QED
    BY <1>7, <2>1, <2>2, <2>3, <2>4 DEF ProposeDissent, k
<1>8. ASSUME NEW s \in Sessions, FileDissent(s)
      PROVE  RowLocks'
  BY <1>8 DEF FileDissent
<1>9. ASSUME NEW s \in Sessions, NEW d \in DissentIds,
             NEW src \in Writers \cap Curators, NEW ev \in 1..MaxVersion,
             PromoteSelect(s, d, src, ev)
      PROVE  RowLocks'
  <2>1. CASE dissents[d].status = "pending"
    <3>1. dissents[d] \in Dissent
      BY <2>1 DEF NoDissent
    <3>2. dissents[d].fact \in FactIds /\ dissents[d].key \in Keys
      BY <3>1 DEF Dissent
    <3>3. src \in Sources /\ src \in Curators /\ d \in DissentIds
      BY FactStoreAssumption
    <3>. DEFINE f == dissents[d].fact
                k == dissents[d].key
    <3>4. sess' = [sess EXCEPT ![s] = Txn("promote", f, d, k, src, ev, 0)]
      BY <1>9, <2>1 DEF PromoteSelect
    <3>5. f \in FactIds /\ k \in Keys
      BY <3>2
    <3>. HIDE DEF f, k
    <3>6. QED
      BY <1>9, <2>1, <3>3, <3>4, <3>5 DEF PromoteSelect
  <2>2. CASE dissents[d].status # "pending"
    BY <1>9, <2>2 DEF PromoteSelect
  <2>3. QED
    BY <2>1, <2>2
<1>10. ASSUME NEW s \in Sessions, PromoteApply(s)
      PROVE  RowLocks'
  <2>1. \A f \in FactIds : Present(f) => Present(f)'
    <3>1. ASSUME NEW f \in FactIds, f = sess[s].fact, Present(f)
          PROVE  facts[f] \in Row
      BY <3>1, PresentIsRow
    <3>2. QED
      BY <1>10, <3>1 DEF PromoteApply, Rewrite
  <2>2. sess' = [sess EXCEPT ![s] = Idle]
    BY <1>10 DEF PromoteApply
  <2>3. QED
    BY <2>1, <2>2
<1>11. ASSUME NEW s \in Sessions, NEW d \in DissentIds, DiscardUpdate(s, d)
      PROVE  RowLocks'
  <2>1. CASE dissents[d].status = "pending"
    <3>1. dissents[d] \in Dissent
      BY <2>1 DEF NoDissent
    <3>. DEFINE f == dissents[d].fact
                n == Cardinality(Pending(f) \ {d})
    <3>2. f \in FactIds
      BY <3>1 DEF Dissent
    <3>3. sess' = [sess EXCEPT ![s] = Txn("recount", f, d, None, None, 0, n)]
      BY <1>11, <2>1 DEF DiscardUpdate
    <3>. HIDE DEF f, n
    <3>4. QED
      BY <1>11, <2>1, <3>2, <3>3 DEF DiscardUpdate
  <2>2. CASE dissents[d].status # "pending"
    BY <1>11, <2>2 DEF DiscardUpdate
  <2>3. QED
    BY <2>1, <2>2
<1>12. ASSUME NEW s \in Sessions, DiscardRecount(s)
      PROVE  RowLocks'
  BY <1>12 DEF DiscardRecount
<1>13. ASSUME NEW s \in Sessions, NEW f \in FactIds, HardDelete(s, f)
      PROVE  RowLocks'
  BY <1>13 DEF HardDelete
<1>14. ASSUME NEW s \in Sessions, NEW f \in FactIds, HardDeletePending(s, f)
      PROVE  RowLocks'
  BY <1>14 DEF HardDeletePending
<1>15. ASSUME NEW s \in Sessions, HardDeleteRefused(s)
      PROVE  RowLocks'
  BY <1>15 DEF HardDeleteRefused
<1>16. ASSUME NEW s \in Sessions, DeadlockVictim(s)
      PROVE  RowLocks'
  BY <1>16 DEF DeadlockVictim
<1>17. ASSUME NEW s \in Sessions, ConnectionLost(s)
      PROVE  RowLocks'
  BY <1>17 DEF ConnectionLost
<1>18. ASSUME NEW f \in FactIds, SoftDelete(f)
      PROVE  RowLocks'
  BY <1>18 DEF SoftDelete
<1>19. ASSUME NEW f \in FactIds, Restore(f)
      PROVE  RowLocks'
  BY <1>19 DEF Restore
<1>20. CASE UNCHANGED vars
  BY <1>20 DEF vars
<1>21. QED
  BY <1>1, <1>2, <1>3, <1>4, <1>5, <1>6, <1>7, <1>8, <1>9, <1>10, <1>11, <1>12, <1>13, <1>14, <1>15, <1>16, <1>17, <1>18, <1>19, <1>20, RequestCases
  DEF Next, Step

\* No step changes a dissent that another session has locked and read.
LEMMA StepLocals ==
  ASSUME IInv, TypeOK', [Next]_vars
  PROVE  LocalsNeverStale'
<1> USE DEF IInv, TypeOK, Begin, Finish, Idle, Txn, Present, NoRow, NoDissent, LocalsNeverStale, RowLocks, HoldsDissent, DissentFree
<1>1. ASSUME NEW s \in Sessions, NEW k \in Keys, NEW ev \in 0..MaxVersion,
             UpsertSame(s, k, ev)
      PROVE  LocalsNeverStale'
  BY <1>1 DEF UpsertSame
<1>2. ASSUME NEW s \in Sessions, NEW f \in FactIds, NEW k \in Keys,
             NEW src \in Writers, NEW ev \in 0..MaxVersion,
             UpsertMiss(s, f, k, src, ev)
      PROVE  LocalsNeverStale'
  BY <1>2 DEF UpsertMiss
<1>3. ASSUME NEW s \in Sessions, SelectIdMiss(s)
      PROVE  LocalsNeverStale'
  BY <1>3 DEF SelectIdMiss
<1>4. ASSUME NEW s \in Sessions, SelectIdOutranked(s)
      PROVE  LocalsNeverStale'
  BY <1>4 DEF SelectIdOutranked
<1>5. ASSUME NEW s \in Sessions, Amend(s)
      PROVE  LocalsNeverStale'
  BY <1>5 DEF Amend
<1>6. ASSUME NEW s \in Sessions, InsertFact(s)
      PROVE  LocalsNeverStale'
  BY <1>6 DEF InsertFact
<1>7. ASSUME NEW s \in Sessions, NEW f \in FactIds, NEW p \in Payloads,
             ProposeDissent(s, f, p)
      PROVE  LocalsNeverStale'
  BY <1>7 DEF ProposeDissent
<1>8. ASSUME NEW s \in Sessions, FileDissent(s)
      PROVE  LocalsNeverStale'
  BY <1>8 DEF FileDissent
<1>9. ASSUME NEW s \in Sessions, NEW d \in DissentIds,
             NEW src \in Writers \cap Curators, NEW ev \in 1..MaxVersion,
             PromoteSelect(s, d, src, ev)
      PROVE  LocalsNeverStale'
  BY <1>9 DEF PromoteSelect
<1>10. ASSUME NEW s \in Sessions, PromoteApply(s)
      PROVE  LocalsNeverStale'
  BY <1>10 DEF PromoteApply
<1>11. ASSUME NEW s \in Sessions, NEW d \in DissentIds, DiscardUpdate(s, d)
      PROVE  LocalsNeverStale'
  BY <1>11 DEF DiscardUpdate
<1>12. ASSUME NEW s \in Sessions, DiscardRecount(s)
      PROVE  LocalsNeverStale'
  BY <1>12 DEF DiscardRecount
<1>13. ASSUME NEW s \in Sessions, NEW f \in FactIds, HardDelete(s, f)
      PROVE  LocalsNeverStale'
  <2>1. ASSUME NEW t \in Sessions, sess'[t].pc \in {"promote", "recount"}
        PROVE  /\ t # s /\ sess'[t] = sess[t] /\ sess[t].dissent \in DissentIds
               /\ dissents'[sess[t].dissent] = dissents[sess[t].dissent]
    <3>1. t # s /\ sess'[t] = sess[t]
      BY <1>13, <2>1 DEF HardDelete
    <3>2. /\ sess[t].dissent \in DissentIds
          /\ dissents[sess[t].dissent].status = "pending"
          /\ dissents[sess[t].dissent].fact = sess[t].fact
      BY <2>1, <3>1
    <3>3. sess[t].fact # f
      BY <1>13, <3>2 DEF HardDelete, Pending
    <3>4. QED
      BY <1>13, <3>1, <3>2, <3>3 DEF HardDelete
  <2>2. QED
    BY <1>13, <2>1 DEF HardDelete
<1>14. ASSUME NEW s \in Sessions, NEW f \in FactIds, HardDeletePending(s, f)
      PROVE  LocalsNeverStale'
  BY <1>14 DEF HardDeletePending
<1>15. ASSUME NEW s \in Sessions, HardDeleteRefused(s)
      PROVE  LocalsNeverStale'
  BY <1>15 DEF HardDeleteRefused
<1>16. ASSUME NEW s \in Sessions, DeadlockVictim(s)
      PROVE  LocalsNeverStale'
  BY <1>16 DEF DeadlockVictim
<1>17. ASSUME NEW s \in Sessions, ConnectionLost(s)
      PROVE  LocalsNeverStale'
  BY <1>17 DEF ConnectionLost
<1>18. ASSUME NEW f \in FactIds, SoftDelete(f)
      PROVE  LocalsNeverStale'
  BY <1>18 DEF SoftDelete
<1>19. ASSUME NEW f \in FactIds, Restore(f)
      PROVE  LocalsNeverStale'
  BY <1>19 DEF Restore
<1>20. CASE UNCHANGED vars
  BY <1>20 DEF vars
<1>21. QED
  BY <1>1, <1>2, <1>3, <1>4, <1>5, <1>6, <1>7, <1>8, <1>9, <1>10, <1>11, <1>12, <1>13, <1>14, <1>15, <1>16, <1>17, <1>18, <1>19, <1>20, RequestCases
  DEF Next, Step

\* No step leaves a dissent without its fact.
LEMMA StepDangling ==
  ASSUME IInv, TypeOK', [Next]_vars
  PROVE  NoDanglingDissent'
<1> USE DEF IInv, TypeOK, Begin, Finish, Idle, Txn, Present, NoRow, NoDissent, NoDanglingDissent, RowLocks
<1>1. ASSUME NEW s \in Sessions, NEW k \in Keys, NEW ev \in 0..MaxVersion,
             UpsertSame(s, k, ev)
      PROVE  NoDanglingDissent'
  BY <1>1 DEF UpsertSame
<1>2. ASSUME NEW s \in Sessions, NEW f \in FactIds, NEW k \in Keys,
             NEW src \in Writers, NEW ev \in 0..MaxVersion,
             UpsertMiss(s, f, k, src, ev)
      PROVE  NoDanglingDissent'
  BY <1>2 DEF UpsertMiss
<1>3. ASSUME NEW s \in Sessions, SelectIdMiss(s)
      PROVE  NoDanglingDissent'
  BY <1>3 DEF SelectIdMiss
<1>4. ASSUME NEW s \in Sessions, SelectIdOutranked(s)
      PROVE  NoDanglingDissent'
  BY <1>4 DEF SelectIdOutranked
<1>5. ASSUME NEW s \in Sessions, Amend(s)
      PROVE  NoDanglingDissent'
  <2>1. \A f \in FactIds : Present(f) => Present(f)'
    <3>1. ASSUME NEW f \in FactIds, Present(f)
          PROVE  facts[f] \in Row
      BY <3>1, PresentIsRow
    <3>2. QED
      BY <1>5, <3>1 DEF Amend, Rewrite
  <2>2. \A d \in DissentIds : dissents[d].status # "absent" => dissents[d].fact \in FactIds
    BY DEF Dissent
  <2>3. UNCHANGED dissents
    BY <1>5 DEF Amend
  <2>4. QED
    BY <2>1, <2>2, <2>3
<1>6. ASSUME NEW s \in Sessions, InsertFact(s)
      PROVE  NoDanglingDissent'
  <2>1. \A f \in FactIds : Present(f) => Present(f)'
    <3>1. ASSUME NEW f \in FactIds, Present(f)
          PROVE  facts[f] \in Row
      BY <3>1, PresentIsRow
    <3>2. QED
      BY <1>6, <3>1 DEF InsertFact, NewRow
  <2>2. \A d \in DissentIds : dissents[d].status # "absent" => dissents[d].fact \in FactIds
    BY DEF Dissent
  <2>3. UNCHANGED dissents
    BY <1>6 DEF InsertFact
  <2>4. QED
    BY <2>1, <2>2, <2>3
<1>7. ASSUME NEW s \in Sessions, NEW f \in FactIds, NEW p \in Payloads,
             ProposeDissent(s, f, p)
      PROVE  NoDanglingDissent'
  BY <1>7 DEF ProposeDissent
<1>8. ASSUME NEW s \in Sessions, FileDissent(s)
      PROVE  NoDanglingDissent'
  BY <1>8 DEF FileDissent
<1>9. ASSUME NEW s \in Sessions, NEW d \in DissentIds,
             NEW src \in Writers \cap Curators, NEW ev \in 1..MaxVersion,
             PromoteSelect(s, d, src, ev)
      PROVE  NoDanglingDissent'
  BY <1>9 DEF PromoteSelect
<1>10. ASSUME NEW s \in Sessions, PromoteApply(s)
      PROVE  NoDanglingDissent'
  <2>1. \A f \in FactIds : Present(f) => Present(f)'
    <3>1. ASSUME NEW f \in FactIds, Present(f)
          PROVE  facts[f] \in Row
      BY <3>1, PresentIsRow
    <3>2. QED
      BY <1>10, <3>1 DEF PromoteApply, Rewrite
  <2>2. \A d \in DissentIds : dissents[d].status # "absent" => dissents[d].fact \in FactIds
    BY DEF Dissent
  <2>3. sess[s].dissent \in DissentIds /\ dissents[sess[s].dissent].status # "absent"
    BY <1>10 DEF PromoteApply, LocalsNeverStale
  <2>4. \A d \in DissentIds :
          /\ dissents'[d].status # "absent" => dissents[d].status # "absent"
          /\ dissents[d].status # "absent" => dissents'[d].fact = dissents[d].fact
    <3>1. dissents[sess[s].dissent] \in Dissent
      BY <2>3
    <3>2. \/ UNCHANGED dissents
          \/ dissents' = [dissents EXCEPT ![sess[s].dissent].status = "promoted"]
      BY <1>10 DEF PromoteApply
    <3>3. QED
      BY <2>3, <3>1, <3>2 DEF Dissent
  <2>5. QED
    BY <2>1, <2>2, <2>4
<1>11. ASSUME NEW s \in Sessions, NEW d \in DissentIds, DiscardUpdate(s, d)
      PROVE  NoDanglingDissent'
  BY <1>11 DEF DiscardUpdate
<1>12. ASSUME NEW s \in Sessions, DiscardRecount(s)
      PROVE  NoDanglingDissent'
  <2>1. sess[s].dissent \in DissentIds /\ dissents[sess[s].dissent].status # "absent"
    BY <1>12 DEF DiscardRecount, LocalsNeverStale
  <2>2. \A d \in DissentIds :
          /\ dissents'[d].status # "absent" => dissents[d].status # "absent"
          /\ dissents[d].status # "absent" => dissents'[d].fact = dissents[d].fact
    BY <1>12, <2>1 DEF DiscardRecount, Dissent
  <2>3. QED
    BY <1>12, <2>2 DEF DiscardRecount
<1>13. ASSUME NEW s \in Sessions, NEW f \in FactIds, HardDelete(s, f)
      PROVE  NoDanglingDissent'
  BY <1>13 DEF HardDelete
<1>14. ASSUME NEW s \in Sessions, NEW f \in FactIds, HardDeletePending(s, f)
      PROVE  NoDanglingDissent'
  BY <1>14 DEF HardDeletePending
<1>15. ASSUME NEW s \in Sessions, HardDeleteRefused(s)
      PROVE  NoDanglingDissent'
  BY <1>15 DEF HardDeleteRefused
<1>16. ASSUME NEW s \in Sessions, DeadlockVictim(s)
      PROVE  NoDanglingDissent'
  BY <1>16 DEF DeadlockVictim
<1>17. ASSUME NEW s \in Sessions, ConnectionLost(s)
      PROVE  NoDanglingDissent'
  BY <1>17 DEF ConnectionLost
<1>18. ASSUME NEW f \in FactIds, SoftDelete(f)
      PROVE  NoDanglingDissent'
  BY <1>18 DEF SoftDelete
<1>19. ASSUME NEW f \in FactIds, Restore(f)
      PROVE  NoDanglingDissent'
  BY <1>19 DEF Restore
<1>20. CASE UNCHANGED vars
  BY <1>20 DEF vars
<1>21. QED
  BY <1>1, <1>2, <1>3, <1>4, <1>5, <1>6, <1>7, <1>8, <1>9, <1>10, <1>11, <1>12, <1>13, <1>14, <1>15, <1>16, <1>17, <1>18, <1>19, <1>20, RequestCases
  DEF Next, Step

\* No step files a content that is pending on the fact already.
LEMMA StepOnePending ==
  ASSUME IInv, TypeOK', [Next]_vars
  PROVE  OnePendingPerContent'
<1> USE DEF IInv, TypeOK, Begin, Finish, Idle, Txn, Present, NoRow, NoDissent, OnePendingPerContent, RowLocks
<1>1. ASSUME NEW s \in Sessions, NEW k \in Keys, NEW ev \in 0..MaxVersion,
             UpsertSame(s, k, ev)
      PROVE  OnePendingPerContent'
  BY <1>1 DEF UpsertSame
<1>2. ASSUME NEW s \in Sessions, NEW f \in FactIds, NEW k \in Keys,
             NEW src \in Writers, NEW ev \in 0..MaxVersion,
             UpsertMiss(s, f, k, src, ev)
      PROVE  OnePendingPerContent'
  BY <1>2 DEF UpsertMiss
<1>3. ASSUME NEW s \in Sessions, SelectIdMiss(s)
      PROVE  OnePendingPerContent'
  BY <1>3 DEF SelectIdMiss
<1>4. ASSUME NEW s \in Sessions, SelectIdOutranked(s)
      PROVE  OnePendingPerContent'
  BY <1>4 DEF SelectIdOutranked
<1>5. ASSUME NEW s \in Sessions, Amend(s)
      PROVE  OnePendingPerContent'
  BY <1>5 DEF Amend
<1>6. ASSUME NEW s \in Sessions, InsertFact(s)
      PROVE  OnePendingPerContent'
  BY <1>6 DEF InsertFact
<1>7. ASSUME NEW s \in Sessions, NEW f \in FactIds, NEW p \in Payloads,
             ProposeDissent(s, f, p)
      PROVE  OnePendingPerContent'
  BY <1>7 DEF ProposeDissent
<1>8. ASSUME NEW s \in Sessions, FileDissent(s)
      PROVE  OnePendingPerContent'
  <2>1. CASE PendingFor(sess[s].fact, sess[s].key) # {}
    BY <1>8, <2>1 DEF FileDissent
  <2>2. CASE PendingFor(sess[s].fact, sess[s].key) = {}
    <3>1. PICK d \in DissentIds : dissents' = [dissents EXCEPT ![d] =
            [status |-> "pending", fact |-> sess[s].fact, key |-> sess[s].key,
             source |-> sess[s].source]]
      BY <1>8, <2>2 DEF FileDissent
    <3>2. \A e \in DissentIds : ~ (/\ dissents[e].status = "pending"
                                  /\ dissents[e].fact = sess[s].fact
                                  /\ dissents[e].key = sess[s].key)
      BY <2>2 DEF PendingFor
    <3>3. QED
      BY <3>1, <3>2
  <2>3. QED
    BY <2>1, <2>2
<1>9. ASSUME NEW s \in Sessions, NEW d \in DissentIds,
             NEW src \in Writers \cap Curators, NEW ev \in 1..MaxVersion,
             PromoteSelect(s, d, src, ev)
      PROVE  OnePendingPerContent'
  BY <1>9 DEF PromoteSelect
<1>10. ASSUME NEW s \in Sessions, PromoteApply(s)
      PROVE  OnePendingPerContent'
  <2>1. \A d \in DissentIds :
          dissents'[d].status = "pending" => dissents'[d] = dissents[d]
    <3>1. sess[s].dissent \in DissentIds /\ dissents[sess[s].dissent] \in Dissent
      BY <1>10 DEF PromoteApply, LocalsNeverStale
    <3>2. \/ UNCHANGED dissents
          \/ dissents' = [dissents EXCEPT ![sess[s].dissent].status = "promoted"]
      BY <1>10 DEF PromoteApply
    <3>3. [dissents[sess[s].dissent] EXCEPT !.status = "promoted"].status = "promoted"
      BY <3>1 DEF Dissent
    <3>4. QED
      BY <3>1, <3>2, <3>3
  <2>2. QED
    BY <2>1
<1>11. ASSUME NEW s \in Sessions, NEW d \in DissentIds, DiscardUpdate(s, d)
      PROVE  OnePendingPerContent'
  BY <1>11 DEF DiscardUpdate
<1>12. ASSUME NEW s \in Sessions, DiscardRecount(s)
      PROVE  OnePendingPerContent'
  BY <1>12 DEF DiscardRecount
<1>13. ASSUME NEW s \in Sessions, NEW f \in FactIds, HardDelete(s, f)
      PROVE  OnePendingPerContent'
  BY <1>13 DEF HardDelete
<1>14. ASSUME NEW s \in Sessions, NEW f \in FactIds, HardDeletePending(s, f)
      PROVE  OnePendingPerContent'
  BY <1>14 DEF HardDeletePending
<1>15. ASSUME NEW s \in Sessions, HardDeleteRefused(s)
      PROVE  OnePendingPerContent'
  BY <1>15 DEF HardDeleteRefused
<1>16. ASSUME NEW s \in Sessions, DeadlockVictim(s)
      PROVE  OnePendingPerContent'
  BY <1>16 DEF DeadlockVictim
<1>17. ASSUME NEW s \in Sessions, ConnectionLost(s)
      PROVE  OnePendingPerContent'
  BY <1>17 DEF ConnectionLost
<1>18. ASSUME NEW f \in FactIds, SoftDelete(f)
      PROVE  OnePendingPerContent'
  BY <1>18 DEF SoftDelete
<1>19. ASSUME NEW f \in FactIds, Restore(f)
      PROVE  OnePendingPerContent'
  BY <1>19 DEF Restore
<1>20. CASE UNCHANGED vars
  BY <1>20 DEF vars
<1>21. QED
  BY <1>1, <1>2, <1>3, <1>4, <1>5, <1>6, <1>7, <1>8, <1>9, <1>10, <1>11, <1>12, <1>13, <1>14, <1>15, <1>16, <1>17, <1>18, <1>19, <1>20, RequestCases
  DEF Next, Step

\* The empty store satisfies the inductive invariant.
LEMMA InitIInv == Init => IInv
<1> SUFFICES ASSUME Init PROVE IInv
  OBVIOUS
<1>1. TypeOK
  BY InitTypeOK
<1>2. RowLocks /\ LocalsNeverStale
  BY DEF Init, Idle, Txn, RowLocks, HoldsFact, HoldsDissent, LocalsNeverStale
<1>3. NoDanglingDissent /\ OnePendingPerContent
  BY DEF Init, LedgerInit, NoDissent, NoDanglingDissent, OnePendingPerContent
<1>4. QED
  BY <1>1, <1>2, <1>3 DEF IInv

\* The inductive invariant is inductive.
LEMMA StepIInv == IInv /\ [Next]_vars => IInv'
<1> SUFFICES ASSUME IInv, [Next]_vars PROVE IInv'
  OBVIOUS
<1>1. TypeOK'
  BY StepTypeOK DEF IInv
<1>2. RowLocks'
  BY <1>1, StepRowLocks
<1>3. LocalsNeverStale'
  BY <1>1, StepLocals
<1>4. NoDanglingDissent'
  BY <1>1, StepDangling
<1>5. OnePendingPerContent'
  BY <1>1, StepOnePending
<1>6. QED
  BY <1>1, <1>2, <1>3, <1>4, <1>5 DEF IInv

\* Every reachable state of the fact store satisfies the inductive invariant,
\* whatever the sessions and in whatever order their statements run.
THEOREM Invariance == Spec => []IInv
BY InitIInv, StepIInv, PTL DEF Spec

\* Rows, dissents, locals and replies keep their shapes (postgres.rs decodes
\* every one of them on read).
THEOREM TypeCorrect == Spec => []TypeOK
BY Invariance, PTL DEF IInv

\* FR-013, for any number of sessions: concurrent filings, promotions and
\* discards never leave two pending dissents for one fact and content.
THEOREM PendingUnique == Spec => []OnePendingPerContent
BY Invariance, PTL DEF IInv

\* No dissent outlives the fact row it refers to.
THEOREM DissentsRefer == Spec => []NoDanglingDissent
BY Invariance, PTL DEF IInv

\* promote_dissent and discard_dissent act on values read before their last
\* wait, and those values still hold when they act.
THEOREM ResolversCurrent == Spec => []LocalsNeverStale
BY Invariance, PTL DEF IInv

\* A row lock has one holder, and what its holder locked is still there.
THEOREM LocksExclusive == Spec => []RowLocks
BY Invariance, PTL DEF IInv

-----------------------------------------------------------------------------
(* The fact store implements the ledger *)

\* Every step of the store is a step of the ledger, or changes no row.
LEMMA StepLedger ==
  ASSUME IInv, [Next]_vars
  PROVE  [LedgerNext]_ledger
<1> USE DEF ledger
<1>1. ASSUME NEW s \in Sessions, Amend(s)
      PROVE  [LedgerNext]_ledger
  <2>1. /\ sess[s].fact \in FactIds /\ Present(sess[s].fact)
        /\ sess[s].key \in Keys /\ sess[s].source \in Sources
    BY <1>1 DEF Amend, IInv, RowLocks
  <2>2. Overwrite(sess[s].fact) \/ UNCHANGED ledger
    BY <1>1, <2>1 DEF Amend, Overwrite
  <2>3. QED
    BY <2>1, <2>2 DEF LedgerNext
<1>2. ASSUME NEW s \in Sessions, InsertFact(s)
      PROVE  [LedgerNext]_ledger
  <2>1. /\ sess[s].fact \in FactIds
        /\ sess[s].key \in Keys /\ sess[s].source \in Sources
    BY <1>2 DEF InsertFact, IInv, RowLocks
  <2>2. Create(sess[s].fact) \/ UNCHANGED ledger
    BY <1>2, <2>1 DEF InsertFact, Create
  <2>3. QED
    BY <2>1, <2>2 DEF LedgerNext
<1>3. ASSUME NEW s \in Sessions, FileDissent(s)
      PROVE  [LedgerNext]_ledger
  <2>1. /\ sess[s].fact \in FactIds /\ Present(sess[s].fact)
        /\ sess[s].key \in Keys /\ sess[s].source \in Sources \ {"User"}
    BY <1>3 DEF FileDissent, IInv, RowLocks
  <2>2. UNCHANGED ledger \/ \E d \in DissentIds : File(sess[s].fact, d)
    BY <1>3, <2>1 DEF FileDissent, File
  <2>3. QED
    BY <2>1, <2>2 DEF LedgerNext
<1>4. ASSUME NEW s \in Sessions, PromoteApply(s)
      PROVE  [LedgerNext]_ledger
  <2>. DEFINE f == sess[s].fact
              d == sess[s].dissent
  <2>1. /\ f \in FactIds /\ d \in DissentIds /\ sess[s].source \in Curators
        /\ dissents[d].status = "pending" /\ dissents[d].fact = f
        /\ dissents[d].key = sess[s].key
    BY <1>4 DEF PromoteApply, IInv, RowLocks, LocalsNeverStale
  <2>2. Present(f) /\ d \in Pending(f)
    BY <2>1 DEF IInv, NoDanglingDissent, Pending
  <2>3. Adopt(f, d) \/ UNCHANGED ledger
    BY <1>4, <2>1, <2>2 DEF PromoteApply, Adopt
  <2>4. QED
    BY <2>1, <2>3 DEF LedgerNext
<1>5. ASSUME NEW s \in Sessions, DiscardRecount(s)
      PROVE  [LedgerNext]_ledger
  <2>1. /\ sess[s].dissent \in DissentIds
        /\ dissents[sess[s].dissent].status = "pending"
    BY <1>5 DEF DiscardRecount, IInv, RowLocks, LocalsNeverStale
  <2>2. Reject(sess[s].dissent)
    BY <1>5, <2>1 DEF DiscardRecount, Reject
  <2>3. QED
    BY <2>1, <2>2 DEF LedgerNext
<1>6. ASSUME NEW f \in FactIds, SoftDelete(f) \/ Restore(f)
      PROVE  [LedgerNext]_ledger
  BY <1>6 DEF SoftDelete, Restore, Hide, Show, LedgerNext
<1>7. ASSUME NEW s \in Sessions, NEW f \in FactIds, HardDelete(s, f)
      PROVE  [LedgerNext]_ledger
  <2>1. Erase(f)
    BY <1>7 DEF HardDelete, Erase
  <2>2. QED
    BY <2>1 DEF LedgerNext
<1>8. ASSUME NEW s \in Sessions, Request(s),
             ~ \E f \in FactIds : HardDelete(s, f)
      PROVE  UNCHANGED ledger
  BY <1>8 DEF Request, Upsert, RestUpsert, ToolAdd, ToolPropose, RestPromote, RestDiscard,
      ToolErase, UpsertSame, UpsertMiss, ProposeDissent, PromoteSelect,
              DiscardUpdate, HardDeletePending
<1>9. ASSUME NEW s \in Sessions,
             \/ SelectIdMiss(s) \/ SelectIdOutranked(s) \/ HardDeleteRefused(s)
             \/ DeadlockVictim(s) \/ ConnectionLost(s)
      PROVE  UNCHANGED ledger
  BY <1>9 DEF SelectIdMiss, SelectIdOutranked, HardDeleteRefused,
              DeadlockVictim, ConnectionLost
<1>10. CASE UNCHANGED vars
  BY <1>10 DEF vars
<1>11. QED
  BY <1>1, <1>2, <1>3, <1>4, <1>5, <1>6, <1>7, <1>8, <1>9, <1>10 DEF Next, Step

\* However the statements of concurrent sessions interleave, the committed
\* facts and dissents change only in the ways the ledger allows.
THEOREM Refinement == Spec => ImplementsLedger
<1>1. Init => LedgerInit
  BY DEF Init
<1>2. IInv /\ [Next]_vars => [LedgerNext]_ledger
  BY StepLedger
<1>3. QED
  BY <1>1, <1>2, Invariance, PTL DEF Spec, ImplementsLedger, LedgerSpec

\* No step of the ledger lets a less trusted source's content replace a curator's.
LEMMA LedgerTrustFloor ==
  ASSUME TypeOK, [LedgerNext]_ledger, NEW f \in FactIds,
         Present(f), facts[f].source \in Curators, facts'[f].state # "absent"
  PROVE  facts'[f].source \in Curators
<1>1. facts[f] \in Row
  BY PresentIsRow
<1>2. \A g \in FactIds : Create(g) \/ Hide(g) \/ Show(g) \/ Erase(g)
        => facts'[f].source = facts[f].source
  BY <1>1 DEF Create, Hide, Show, Erase, NoRow, TypeOK, Row, Present
<1>3. \A g \in FactIds : Overwrite(g) => facts'[f].source \in Curators
  BY <1>1 DEF Overwrite, Rewrite, TrustRank, Curators, Sources, TypeOK
<1>4. \A g \in FactIds, d \in DissentIds :
        Adopt(g, d) => facts'[f].source \in Curators
  BY <1>1 DEF Adopt, Rewrite, TypeOK
<1>5. \A g \in FactIds, d \in DissentIds :
        File(g, d) \/ Reject(d) => UNCHANGED facts
  BY DEF File, Reject
<1>6. QED
  BY <1>2, <1>3, <1>4, <1>5 DEF LedgerNext, ledger

\* Content a User or Controller wrote is replaced only by a User or a
\* Controller, however the less trusted writers' statements interleave.
THEOREM TrustNeverFalls == Spec => TrustFloor
<1>1. IInv /\ [Next]_vars =>
        [\A f \in FactIds :
           /\ Present(f) /\ facts[f].source \in Curators
           /\ facts'[f].state # "absent"
           => facts'[f].source \in Curators]_vars
  <2>1. SUFFICES ASSUME IInv, [Next]_vars, NEW f \in FactIds, Present(f),
                        facts[f].source \in Curators, facts'[f].state # "absent"
                 PROVE  facts'[f].source \in Curators
    OBVIOUS
  <2>2. QED
    BY <2>1, StepLedger, LedgerTrustFloor DEF IInv
<1>2. QED
  BY <1>1, Invariance, PTL DEF Spec, TrustFloor

-----------------------------------------------------------------------------
(* Versions and counts *)

\* A session that is in a transaction has not been answered yet.
Unanswered == \A s \in Sessions : sess[s].pc # "idle" => reply[s] = "none"

\* A session in a transaction has not been answered yet: no step breaks that.
LEMMA StepUnanswered ==
  ASSUME IInv, Unanswered, [Next]_vars
  PROVE  Unanswered'
<1>1. ASSUME NEW s \in Sessions, NEW txn, Begin(s, txn)
      PROVE  Unanswered'
  BY <1>1 DEF Begin, Unanswered, IInv, TypeOK
<1>2. ASSUME NEW s \in Sessions, NEW r, Finish(s, r)
      PROVE  Unanswered'
  BY <1>2 DEF Finish, Idle, Txn, Unanswered, IInv, TypeOK
<1>3. ASSUME NEW s \in Sessions, Request(s)
      PROVE  Unanswered'
  BY <1>1, <1>2, <1>3 DEF Request, Upsert, RestUpsert, ToolAdd, ToolPropose, RestPromote,
      RestDiscard, ToolErase, UpsertSame, UpsertMiss, ProposeDissent,
       PromoteSelect, DiscardUpdate, HardDelete, HardDeletePending
<1>4. ASSUME NEW s \in Sessions, SelectIdMiss(s) \/ SelectIdOutranked(s)
      PROVE  Unanswered'
  BY <1>4 DEF SelectIdMiss, SelectIdOutranked, Unanswered, IInv, TypeOK
<1>5. ASSUME NEW s \in Sessions,
             \/ Amend(s) \/ InsertFact(s) \/ FileDissent(s) \/ PromoteApply(s)
             \/ DiscardRecount(s) \/ HardDeleteRefused(s)
             \/ DeadlockVictim(s) \/ ConnectionLost(s)
      PROVE  \E r : Finish(s, r)
  BY <1>5 DEF Amend, InsertFact, FileDissent, PromoteApply, DiscardRecount,
       HardDeleteRefused, DeadlockVictim, ConnectionLost
<1>6. ASSUME UNCHANGED <<sess, reply>>
      PROVE  Unanswered'
  BY <1>6 DEF Unanswered
<1>7. QED
  BY <1>2, <1>3, <1>4, <1>5, <1>6 DEF Next, Step, SoftDelete, Restore, vars

\* A session in a transaction has not been answered yet.
LEMMA UnansweredInvariant == Spec => []Unanswered
<1>1. Init => Unanswered
  BY DEF Init, Idle, Txn, Unanswered
<1>2. IInv /\ Unanswered /\ [Next]_vars => Unanswered'
  BY StepUnanswered
<1>3. QED
  BY <1>1, <1>2, Invariance, PTL DEF Spec

\* A session's locals change only in its own steps.
LEMMA OwnSession ==
  ASSUME IInv, [Next]_vars, NEW s \in Sessions, sess'[s] # sess[s]
  PROVE  Request(s) \/ Step(s) \/ DeadlockVictim(s) \/ ConnectionLost(s)
<1>1. ASSUME NEW t \in Sessions, t # s,
             Request(t) \/ Step(t) \/ DeadlockVictim(t) \/ ConnectionLost(t)
      PROVE  FALSE
  BY <1>1 DEF IInv, TypeOK, Begin, Finish, Request, Upsert, RestUpsert, ToolAdd,
      ToolPropose, RestPromote, RestDiscard, ToolErase, Step, UpsertSame, UpsertMiss,
       ProposeDissent, PromoteSelect, DiscardUpdate, HardDelete, HardDeletePending,
       SelectIdMiss, SelectIdOutranked, Amend, InsertFact, FileDissent,
       PromoteApply, DiscardRecount, HardDeleteRefused, DeadlockVictim, ConnectionLost
<1>2. QED
  BY <1>1 DEF Next, SoftDelete, Restore, vars

\* A session in a transaction starts no request.
LEMMA InTransaction ==
  ASSUME NEW s \in Sessions, sess[s].pc # "idle"
  PROVE  ~Request(s)
BY DEF Request, Upsert, RestUpsert, ToolAdd, ToolPropose, RestPromote, RestDiscard,
    ToolErase, UpsertSame, UpsertMiss, ProposeDissent, PromoteSelect,
       DiscardUpdate, HardDelete, HardDeletePending

\* A write or promotion acknowledged for expected version v replaced version v:
\* no other session's write fell between its check and its update.
THEOREM VersionsAcknowledged == Spec => AcknowledgedVersion
<1>. DEFINE Acked(s) == /\ sess[s].ev # 0
                        /\ \/ sess[s].pc = "select_id" /\ reply'[s] = "persisted"
                           \/ sess[s].pc = "promote" /\ reply'[s] = "promoted"
            Replaced(s) == /\ facts[sess[s].fact].version = sess[s].ev
                           /\ facts'[sess[s].fact].version = sess[s].ev + 1
<1>1. IInv /\ Unanswered /\ [Next]_vars => [\A s \in Sessions : Acked(s) => Replaced(s)]_vars
  <2>1. SUFFICES ASSUME IInv, Unanswered, [Next]_vars, NEW s \in Sessions, Acked(s)
                 PROVE  Replaced(s)
    OBVIOUS
  <2>2. Step(s) \/ DeadlockVictim(s) \/ ConnectionLost(s)
    <3>1. ASSUME sess'[s] = sess[s]
          PROVE  FALSE
      <4>1. sess'[s].pc # "idle" /\ reply'[s] # "none"
        BY <2>1, <3>1
      <4>2. Unanswered'
        BY <2>1, StepUnanswered
      <4>3. QED
        BY <4>1, <4>2 DEF Unanswered
    <3>2. QED
      BY <2>1, <3>1, OwnSession, InTransaction
  <2>3. CASE Amend(s)
    <3>1. /\ sess[s].fact \in FactIds /\ Present(sess[s].fact)
          /\ sess[s].pc = "select_id" /\ reply'[s] = "persisted"
      BY <2>1, <2>3 DEF Amend, IInv, RowLocks
    <3>2. /\ facts[sess[s].fact].version = sess[s].ev
          /\ facts' = [facts EXCEPT ![sess[s].fact] =
                        Rewrite(@, sess[s].key, sess[s].source)]
      BY <2>1, <2>3, <3>1 DEF Amend, Finish, IInv, TypeOK
    <3>3. QED
      BY <2>1, <3>1, <3>2 DEF Rewrite, IInv, TypeOK
  <2>4. CASE PromoteApply(s)
    <3>1. /\ sess[s].fact \in FactIds
          /\ sess[s].pc = "promote" /\ reply'[s] = "promoted"
      BY <2>1, <2>4 DEF PromoteApply, IInv, RowLocks
    <3>2. /\ facts[sess[s].fact].version = sess[s].ev
          /\ facts' = [facts EXCEPT ![sess[s].fact] =
                        Rewrite(@, sess[s].key, sess[s].source)]
      BY <2>1, <2>4, <3>1 DEF PromoteApply, Finish, IInv, TypeOK
    <3>3. QED
      BY <2>1, <3>1, <3>2 DEF Rewrite, IInv, TypeOK
  <2>5. CASE SelectIdMiss(s) \/ SelectIdOutranked(s)
    BY <2>1, <2>5 DEF SelectIdMiss, SelectIdOutranked, Unanswered
  <2>6. CASE DeadlockVictim(s) \/ ConnectionLost(s)
    BY <2>1, <2>6 DEF DeadlockVictim, ConnectionLost, Finish, IInv, TypeOK
  <2>7. CASE InsertFact(s) \/ FileDissent(s) \/ DiscardRecount(s) \/ HardDeleteRefused(s)
    BY <2>1, <2>7 DEF InsertFact, FileDissent, DiscardRecount, HardDeleteRefused
  <2>8. QED
    BY <2>2, <2>3, <2>4, <2>5, <2>6, <2>7 DEF Step
<1>2. QED
  BY <1>1, Invariance, UnansweredInvariant, PTL DEF Spec, AcknowledgedVersion

\* The dissents pending on f after the step.
PendingNext(f) == {d \in DissentIds : /\ dissents'[d].status = "pending"
                                      /\ dissents'[d].fact = f}

\* Filing stores the number of the fact's pending dissents.
LEMMA FiledCount ==
  ASSUME IInv, NEW s \in Sessions, FileDissent(s), dissents' # dissents
  PROVE  dissentCount'[sess[s].fact] = Cardinality(PendingNext(sess[s].fact))
<1>. DEFINE f == sess[s].fact
<1>1. f \in FactIds /\ sess[s].key \in Keys /\ sess[s].source \in Sources
  BY DEF FileDissent, IInv, RowLocks
<1>2. PICK d \in DissentIds :
        /\ dissents[d].status = "absent"
        /\ dissents' = [dissents EXCEPT ![d] =
             [status |-> "pending", fact |-> f, key |-> sess[s].key,
              source |-> sess[s].source]]
  BY DEF FileDissent
<1>3. PendingNext(f) = Pending(f) \cup {d} /\ d \notin Pending(f)
  BY <1>1, <1>2 DEF Pending, PendingNext, IInv, TypeOK
<1>4. IsFiniteSet(Pending(f))
  BY FactStoreAssumption, FS_Subset DEF Pending
<1>5. Cardinality(Pending(f) \cup {d}) = Cardinality(Pending(f)) + 1
  BY <1>3, <1>4, FS_AddElement
<1>6. dissentCount'[f] = Cardinality(Pending(f)) + 1
  BY <1>1 DEF FileDissent, IInv, TypeOK
<1>7. QED
  BY <1>3, <1>5, <1>6

\* Promoting stores the number of the fact's pending dissents.
LEMMA PromotedCount ==
  ASSUME IInv, NEW s \in Sessions, PromoteApply(s), dissents' # dissents
  PROVE  dissentCount'[sess[s].fact] = Cardinality(PendingNext(sess[s].fact))
<1>. DEFINE f == sess[s].fact
            d == sess[s].dissent
<1>1. f \in FactIds /\ d \in DissentIds
  BY DEF PromoteApply, IInv, RowLocks
<1>2. /\ dissents' = [dissents EXCEPT ![d].status = "promoted"]
      /\ dissentCount' = [dissentCount EXCEPT ![f] = Cardinality(Pending(f) \ {d})]
  BY DEF PromoteApply
<1>3. dissents[d] \in Dissent
  BY <1>1 DEF PromoteApply, IInv, TypeOK, LocalsNeverStale, NoDissent
<1>4. dissents'[d].status = "promoted" /\ \A e \in DissentIds \ {d} : dissents'[e] = dissents[e]
  BY <1>1, <1>2, <1>3 DEF IInv, TypeOK, Dissent
<1>5. PendingNext(f) = Pending(f) \ {d}
  BY <1>4 DEF Pending, PendingNext
<1>6. QED
  BY <1>1, <1>2, <1>5 DEF IInv, TypeOK

\* Filing or promoting a dissent leaves the fact's dissent_count exact,
\* whatever it was before: both count while they hold the fact's row lock.
THEOREM CountsRepaired == Spec => CountRepaired
<1>1. IInv /\ [Next]_vars => [\A s \in Sessions : RepairsCount(s)]_vars
  <2>1. SUFFICES ASSUME IInv, [Next]_vars, NEW s \in Sessions,
                        sess[s].pc \in {"file", "promote"}, sess'[s].pc = "idle",
                        dissents' # dissents
                 PROVE  dissentCount'[sess[s].fact] = Cardinality(PendingNext(sess[s].fact))
    BY DEF RepairsCount, PendingNext
  <2>2. Step(s) \/ DeadlockVictim(s) \/ ConnectionLost(s)
    BY <2>1, OwnSession, InTransaction
  <2>3. FileDissent(s) \/ PromoteApply(s)
    BY <2>1, <2>2 DEF Step, SelectIdMiss, SelectIdOutranked, Amend, InsertFact,
         DiscardRecount, HardDeleteRefused, DeadlockVictim, ConnectionLost
  <2>4. QED
    BY <2>1, <2>3, FiledCount, PromotedCount
<1>2. QED
  BY <1>1, Invariance, PTL DEF Spec, CountRepaired
=============================================================================
