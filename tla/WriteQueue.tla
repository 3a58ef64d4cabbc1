------------------------------ MODULE WriteQueue ------------------------------
(***************************************************************************)
(* klams-core's MemoryQueue and worker pool, with the write handlers that  *)
(* feed it: a bounded channel, workers that share its receiver through a   *)
(* mutex, a one-shot reply for fact upserts, and nobody to tell for events *)
(* and knowledge.                                                          *)
(***************************************************************************)
EXTENDS WriteContract, Sequences, Naturals

CONSTANTS Workers, Capacity, None

ASSUME WriteQueueAssumption ==
  /\ Replying \subseteq Jobs
  /\ Workers # {}
  /\ Capacity \in Nat \ {0}
  /\ None \notin Jobs \cup Workers

VARIABLES queue,        \* jobs in the channel, oldest first
          receiver,     \* the worker that holds the receiver's mutex
          job,          \* the job each worker is processing
          dead,         \* workers whose task has panicked
          recorded,     \* jobs counted as dropped by record_drop
          up            \* is the process running?

vars == <<caller, fate, queue, receiver, job, dead, recorded, up>>

Alive == Workers \ dead
Held == {job[w] : w \in Workers} \ {None}
Queued == {queue[i] : i \in DOMAIN queue}

Init ==
  /\ ContractInit
  /\ queue = <<>> /\ receiver = None
  /\ job = [w \in Workers |-> None]
  /\ dead = {} /\ recorded = {}
  /\ up = TRUE

-----------------------------------------------------------------------------
(* Mutants: mistakes this code could have made, none of them part of Next. *)

\* A worker leaves the job at the head of the channel until it is done.
ReceiveKeeps(w) ==
  /\ up /\ receiver = w
  /\ queue # <<>> /\ Head(queue) \notin Held
  /\ job' = [job EXCEPT ![w] = Head(queue)]
  /\ receiver' = None
  /\ UNCHANGED <<caller, fate, queue, dead, recorded, up>>

\* Dropping the handler takes its job out of the channel.
HangUpCancels(j) ==
  /\ up /\ caller[j] = "waiting"
  /\ caller' = [caller EXCEPT ![j] = "left"]
  /\ queue' = SelectSeq(queue, LAMBDA k : k # j)
  /\ fate' = [fate EXCEPT ![j] = IF j \in Queued THEN "lost" ELSE @]
  /\ UNCHANGED <<receiver, job, dead, recorded, up>>

\* A failed upsert is logged and its caller left to wait.
ReplyOnlySuccess(w) ==
  LET j == job[w] IN
  /\ up /\ j # None
  /\ fate[j] \in {"stored", "failed"}
  /\ caller' = IF caller[j] = "waiting" /\ fate[j] = "stored"
               THEN [caller EXCEPT ![j] = "ok"] ELSE caller
  /\ recorded' = IF j \notin Replying /\ fate[j] = "failed"
                 THEN recorded \cup {j} ELSE recorded
  /\ job' = [job EXCEPT ![w] = None]
  /\ UNCHANGED <<fate, queue, receiver, dead, up>>

-----------------------------------------------------------------------------
(* The handlers *)

\* try_send: a full channel, and one whose receiver is gone, both refuse.
Enqueue(j) ==
  /\ up /\ caller[j] = "idle"
  /\ IF Alive # {} /\ Len(queue) < Capacity
     THEN /\ queue' = Append(queue, j)
          /\ caller' = [caller EXCEPT ![j] = WhenAccepted(j)]
          /\ fate' = [fate EXCEPT ![j] = "pending"]
     ELSE /\ caller' = [caller EXCEPT ![j] = "refused"]
          /\ UNCHANGED <<queue, fate>>
  /\ UNCHANGED <<receiver, job, dead, recorded, up>>

\* A refused client backs off and sends the request again.
Retry(j) ==
  /\ caller[j] = "refused"
  /\ caller' = [caller EXCEPT ![j] = "idle"]
  /\ UNCHANGED <<fate, queue, receiver, job, dead, recorded, up>>

\* The connection closes while the handler waits (the client hangs up, or the
\* idle watchdog does): the handler is dropped, its job is not.
HangUp(j) ==
  /\ up /\ caller[j] = "waiting"
  /\ caller' = [caller EXCEPT ![j] = "left"]
  /\ UNCHANGED <<fate, queue, receiver, job, dead, recorded, up>>

-----------------------------------------------------------------------------
(* A worker *)

TakeReceiver(w) ==
  /\ up /\ w \in Alive
  /\ job[w] = None /\ receiver = None
  /\ receiver' = w
  /\ UNCHANGED <<caller, fate, queue, job, dead, recorded, up>>

\* recv, which lets go of the mutex.
Receive(w) ==
  /\ up /\ receiver = w
  /\ queue # <<>>
  /\ job' = [job EXCEPT ![w] = Head(queue)]
  /\ queue' = Tail(queue)
  /\ receiver' = None
  /\ UNCHANGED <<caller, fate, dead, recorded, up>>

\* The store call returns.
StoreReturns(w) ==
  /\ up /\ job[w] # None
  /\ fate[job[w]] = "pending"
  /\ \E r \in {"stored", "failed"} : fate' = [fate EXCEPT ![job[w]] = r]
  /\ UNCHANGED <<caller, queue, receiver, job, dead, recorded, up>>

\* The result goes to the reply channel, which may have nobody listening; with
\* no channel a failure is counted.
Reply(w) ==
  LET j == job[w] IN
  /\ up /\ j # None
  /\ fate[j] \in {"stored", "failed"}
  /\ caller' = IF caller[j] = "waiting"
               THEN [caller EXCEPT ![j] = IF fate[j] = "stored" THEN "ok" ELSE "failed"]
               ELSE caller
  /\ recorded' = IF j \notin Replying /\ fate[j] = "failed"
                 THEN recorded \cup {j} ELSE recorded
  /\ job' = [job EXCEPT ![w] = None]
  /\ UNCHANGED <<fate, queue, receiver, dead, up>>

-----------------------------------------------------------------------------
(* Going down *)

\* The callers among js whose reply sender is dropped.
CutOff(js) ==
  [j \in Jobs |-> IF j \in js /\ caller[j] = "waiting" THEN "unknown" ELSE caller[j]]

\* A store call panics and takes its worker's task with it.  The last worker
\* takes the receiver, and with it every queued job and reply sender.
Panic(w) ==
  LET last == Alive = {w}
      gone == {job[w]} \cup (IF last THEN Queued ELSE {})
  IN
  /\ up /\ w \in Alive
  /\ job[w] # None /\ fate[job[w]] = "pending"
  /\ dead' = dead \cup {w}
  /\ job' = [job EXCEPT ![w] = None]
  /\ queue' = IF last THEN <<>> ELSE queue
  /\ fate' = [j \in Jobs |-> IF j \in gone THEN "lost" ELSE fate[j]]
  /\ caller' = CutOff(gone)
  /\ UNCHANGED <<receiver, recorded, up>>

\* SIGTERM, Ctrl-C or a kill: serve_with_limits returns, and main returns
\* without joining the workers.  A store call under way may still have gone
\* through.
Stop ==
  /\ up
  /\ up' = FALSE
  /\ queue' = <<>> /\ receiver' = None
  /\ job' = [w \in Workers |-> None]
  /\ \E through \in SUBSET {j \in Held : fate[j] = "pending"} :
       fate' = [j \in Jobs |->
         IF j \in through THEN "stored"
         ELSE IF j \in Held \cup Queued /\ fate[j] = "pending" THEN "lost"
         ELSE fate[j]]
  /\ caller' = CutOff(Jobs)
  /\ UNCHANGED <<dead, recorded>>

Restart ==
  /\ ~up
  /\ up' = TRUE
  /\ dead' = {}
  /\ UNCHANGED <<caller, fate, queue, receiver, job, recorded>>

-----------------------------------------------------------------------------
Work(w) == TakeReceiver(w) \/ Receive(w) \/ StoreReturns(w) \/ Reply(w)

Next ==
  \/ \E j \in Jobs : Enqueue(j) \/ Retry(j) \/ HangUp(j)
  \/ \E w \in Workers : Work(w) \/ Panic(w)
  \/ Stop \/ Restart

Spec == Init /\ [][Next]_vars

\* The runtime polls every task that can proceed, and store calls return.
FairSpec == Spec /\ \A w \in Workers : WF_vars(Work(w))

-----------------------------------------------------------------------------
(* Properties *)

TypeOK ==
  /\ caller \in [Jobs -> Told]
  /\ fate \in [Jobs -> Fates]
  /\ queue \in Seq(Jobs)
  /\ receiver \in Workers \cup {None}
  /\ job \in [Workers -> Jobs \cup {None}]
  /\ dead \subseteq Workers
  /\ recorded \subseteq Jobs
  /\ up \in BOOLEAN

\* An accepted, undecided write is in exactly one place, once: a channel slot
\* or a worker's hands.  None is duplicated, and none disappears while the
\* process runs.
InOnePlace ==
  /\ \A j \in Jobs : fate[j] = "pending" => j \in Queued \cup Held
  /\ \A i, k \in DOMAIN queue : queue[i] = queue[k] => i = k
  /\ \A v, w \in Workers : job[v] = job[w] /\ job[v] # None => v = w
  /\ Queued \cap Held = {}
  /\ \A j \in Queued : fate[j] = "pending"

\* A caller is never told of a result the store did not give, and the caller
\* of a refused request may send it again: nothing was done.
AnswersTrue ==
  \A j \in Jobs :
    /\ caller[j] = "ok" => fate[j] = "stored"
    /\ caller[j] = "failed" => fate[j] = "failed"
    /\ caller[j] \in {"idle", "refused"} => fate[j] = "none"

\* The channel's receiver has one user, which is not processing a job.
ReceiverOwned ==
  receiver # None => receiver \in Alive /\ job[receiver] = None

ImplementsContract == ContractSpec

\* A caller that waits is told something in the end: a result, or that the
\* channel broke.
EveryCallerAnswered == \A j \in Jobs : caller[j] = "waiting" ~> caller[j] # "waiting"

\* Sprint 001 SC-004: a write that returned success survives a restart.
SuccessSurvives == \A j \in Jobs : caller[j] \in {"ok", "accepted"} => fate[j] # "lost"
=============================================================================
