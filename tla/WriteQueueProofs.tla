--------------------------- MODULE WriteQueueProofs ---------------------------
(***************************************************************************)
(* What holds of WriteQueue for any number of requests and workers and any *)
(* capacity.  The invariants the runs check are not inductive by           *)
(* themselves: that a job is received once needs that a job in a worker's  *)
(* hands was accepted (HeldAccepted), and that the receiver is owned after *)
(* a restart needs that nothing outlives a stop (DownEmpty).               *)
(***************************************************************************)
EXTENDS WriteQueue, TLAPS

\* A job in a worker's hands was accepted, and its worker lives.
HeldAccepted ==
  \A w \in Workers : job[w] # None =>
    /\ fate[job[w]] \in {"pending", "stored", "failed"}
    /\ w \notin dead

\* A stopped process holds nothing.
DownEmpty ==
  ~up => /\ queue = <<>> /\ receiver = None
         /\ \A w \in Workers : job[w] = None

IInv ==
  /\ TypeOK /\ InOnePlace /\ AnswersTrue /\ ReceiverOwned
  /\ HeldAccepted /\ DownEmpty

-----------------------------------------------------------------------------
(* Channels *)

\* try_send puts the job behind all that is queued.
LEMMA AppendFacts ==
  ASSUME NEW q \in Seq(Jobs), NEW j \in Jobs
  PROVE  /\ Append(q, j) \in Seq(Jobs)
         /\ DOMAIN Append(q, j) = DOMAIN q \cup {Len(q) + 1}
         /\ Len(q) + 1 \notin DOMAIN q
         /\ \A i \in DOMAIN q : Append(q, j)[i] = q[i]
         /\ Append(q, j)[Len(q) + 1] = j
OBVIOUS

\* recv takes the job at the head and leaves the others in their order.
LEMMA TailFacts ==
  ASSUME NEW q \in Seq(Jobs), q # <<>>
  PROVE  /\ Tail(q) \in Seq(Jobs) /\ Head(q) \in Jobs
         /\ 1 \in DOMAIN q /\ Head(q) = q[1]
         /\ \A i \in DOMAIN Tail(q) : i + 1 \in DOMAIN q /\ Tail(q)[i] = q[i + 1]
         /\ \A i \in DOMAIN q : i # 1 => i - 1 \in DOMAIN Tail(q) /\ Tail(q)[i - 1] = q[i]
         /\ \A i \in DOMAIN Tail(q) : i \in Nat \ {0} /\ i + 1 # 1
OBVIOUS
\* Every step keeps the shape of the variables.
LEMMA StepTypeOK ==
  ASSUME TypeOK, Next
  PROVE  TypeOK'
<1>1. ASSUME NEW j \in Jobs, Enqueue(j) PROVE TypeOK'
  <2>1. CASE Alive # {} /\ Len(queue) < Capacity
    <3>1. queue' \in Seq(Jobs)
      BY <1>1, <2>1, AppendFacts DEF TypeOK, Enqueue
    <3>2. caller' \in [Jobs -> Told] /\ fate' \in [Jobs -> Fates]
      BY <1>1, <2>1 DEF TypeOK, Enqueue, WhenAccepted, Told, Fates
    <3> QED
      BY <1>1, <3>1, <3>2 DEF TypeOK, Enqueue
  <2>2. CASE ~(Alive # {} /\ Len(queue) < Capacity)
    BY <1>1, <2>2 DEF TypeOK, Enqueue, Told
  <2> QED
    BY <2>1, <2>2
<1>2. ASSUME NEW j \in Jobs, Retry(j) PROVE TypeOK'
  BY <1>2, WriteQueueAssumption DEF TypeOK, Retry, Told, Fates
<1>3. ASSUME NEW j \in Jobs, HangUp(j) PROVE TypeOK'
  BY <1>3, WriteQueueAssumption DEF TypeOK, HangUp, Told, Fates
<1>4. ASSUME NEW w \in Workers, TakeReceiver(w) PROVE TypeOK'
  BY <1>4, WriteQueueAssumption DEF TypeOK, TakeReceiver
<1>5. ASSUME NEW w \in Workers, Receive(w) PROVE TypeOK'
  BY <1>5, TailFacts, WriteQueueAssumption DEF TypeOK, Receive
<1>6. ASSUME NEW w \in Workers, StoreReturns(w) PROVE TypeOK'
  BY <1>6, WriteQueueAssumption DEF TypeOK, StoreReturns, Told, Fates
<1>7. ASSUME NEW w \in Workers, Reply(w) PROVE TypeOK'
  BY <1>7, WriteQueueAssumption DEF TypeOK, Reply, Told, Fates
<1>8. ASSUME NEW w \in Workers, Panic(w) PROVE TypeOK'
  <2>1. caller' \in [Jobs -> Told] /\ fate' \in [Jobs -> Fates]
    BY <1>8 DEF TypeOK, Panic, CutOff, Told, Fates
  <2>2. queue' \in Seq(Jobs)
    BY <1>8 DEF TypeOK, Panic
  <2>3. job' \in [Workers -> Jobs \cup {None}] /\ dead' \subseteq Workers
    BY <1>8 DEF TypeOK, Panic
  <2>4. UNCHANGED <<receiver, recorded, up>>
    BY <1>8 DEF Panic
  <2> QED
    BY <2>1, <2>2, <2>3, <2>4 DEF TypeOK
<1>9. CASE Stop
  <2>1. caller' \in [Jobs -> Told]
    BY <1>9 DEF TypeOK, Stop, CutOff, Told
  <2>2. fate' \in [Jobs -> Fates]
    BY <1>9 DEF TypeOK, Stop, Fates
  <2>3. queue' \in Seq(Jobs) /\ receiver' = None /\ job' \in [Workers -> Jobs \cup {None}]
    BY <1>9 DEF Stop
  <2>4. up' = FALSE /\ UNCHANGED <<dead, recorded>>
    BY <1>9 DEF Stop
  <2> QED
    BY <2>1, <2>2, <2>3, <2>4 DEF TypeOK
<1>10. CASE Restart
  BY <1>10, WriteQueueAssumption DEF TypeOK, Restart
<1> QED
  BY <1>1, <1>2, <1>3, <1>4, <1>5, <1>6, <1>7, <1>8, <1>9, <1>10 DEF Next, Work

\* No step makes an answer untrue.
LEMMA StepAnswers ==
  ASSUME IInv, Next
  PROVE  AnswersTrue'
<1>1. ASSUME NEW j \in Jobs, Enqueue(j) PROVE AnswersTrue'
  BY <1>1, WriteQueueAssumption DEF IInv, TypeOK, AnswersTrue, HeldAccepted, InOnePlace, Enqueue, WhenAccepted
<1>2. ASSUME NEW j \in Jobs, Retry(j) PROVE AnswersTrue'
  BY <1>2, WriteQueueAssumption DEF IInv, TypeOK, AnswersTrue, HeldAccepted, InOnePlace, Retry
<1>3. ASSUME NEW j \in Jobs, HangUp(j) PROVE AnswersTrue'
  BY <1>3, WriteQueueAssumption DEF IInv, TypeOK, AnswersTrue, HeldAccepted, InOnePlace, HangUp
<1>4. ASSUME NEW w \in Workers, TakeReceiver(w) PROVE AnswersTrue'
  BY <1>4, WriteQueueAssumption DEF IInv, TypeOK, AnswersTrue, HeldAccepted, InOnePlace, TakeReceiver
<1>5. ASSUME NEW w \in Workers, Receive(w) PROVE AnswersTrue'
  BY <1>5, WriteQueueAssumption DEF IInv, TypeOK, AnswersTrue, HeldAccepted, InOnePlace, Receive
<1>6. ASSUME NEW w \in Workers, StoreReturns(w) PROVE AnswersTrue'
  BY <1>6, WriteQueueAssumption DEF IInv, TypeOK, AnswersTrue, HeldAccepted, InOnePlace, StoreReturns
<1>7. ASSUME NEW w \in Workers, Reply(w) PROVE AnswersTrue'
  BY <1>7, WriteQueueAssumption DEF IInv, TypeOK, AnswersTrue, HeldAccepted, InOnePlace, Reply
<1>8. ASSUME NEW w \in Workers, Panic(w) PROVE AnswersTrue'
  BY <1>8, WriteQueueAssumption DEF IInv, TypeOK, AnswersTrue, HeldAccepted, InOnePlace, Panic, CutOff, Alive, Queued
<1>9. CASE Stop
  BY <1>9, WriteQueueAssumption DEF IInv, TypeOK, AnswersTrue, HeldAccepted, InOnePlace, Stop, CutOff, Alive
<1>10. CASE Restart
  BY <1>10, WriteQueueAssumption DEF IInv, TypeOK, AnswersTrue, HeldAccepted, InOnePlace, Restart
<1> QED
  BY <1>1, <1>2, <1>3, <1>4, <1>5, <1>6, <1>7, <1>8, <1>9, <1>10 DEF Next, Work

\* No step leaves the receiver with a worker that is dead or busy.
LEMMA StepReceiver ==
  ASSUME IInv, Next
  PROVE  ReceiverOwned'
<1>1. ASSUME NEW j \in Jobs, Enqueue(j) PROVE ReceiverOwned'
  BY <1>1, WriteQueueAssumption DEF IInv, TypeOK, ReceiverOwned, Alive, DownEmpty, HeldAccepted, Enqueue, WhenAccepted
<1>2. ASSUME NEW j \in Jobs, Retry(j) PROVE ReceiverOwned'
  BY <1>2, WriteQueueAssumption DEF IInv, TypeOK, ReceiverOwned, Alive, DownEmpty, HeldAccepted, Retry
<1>3. ASSUME NEW j \in Jobs, HangUp(j) PROVE ReceiverOwned'
  BY <1>3, WriteQueueAssumption DEF IInv, TypeOK, ReceiverOwned, Alive, DownEmpty, HeldAccepted, HangUp
<1>4. ASSUME NEW w \in Workers, TakeReceiver(w) PROVE ReceiverOwned'
  BY <1>4, WriteQueueAssumption DEF IInv, TypeOK, ReceiverOwned, Alive, DownEmpty, HeldAccepted, TakeReceiver
<1>5. ASSUME NEW w \in Workers, Receive(w) PROVE ReceiverOwned'
  BY <1>5, WriteQueueAssumption DEF IInv, TypeOK, ReceiverOwned, Alive, DownEmpty, HeldAccepted, Receive
<1>6. ASSUME NEW w \in Workers, StoreReturns(w) PROVE ReceiverOwned'
  BY <1>6, WriteQueueAssumption DEF IInv, TypeOK, ReceiverOwned, Alive, DownEmpty, HeldAccepted, StoreReturns
<1>7. ASSUME NEW w \in Workers, Reply(w) PROVE ReceiverOwned'
  BY <1>7, WriteQueueAssumption DEF IInv, TypeOK, ReceiverOwned, Alive, DownEmpty, HeldAccepted, Reply
<1>8. ASSUME NEW w \in Workers, Panic(w) PROVE ReceiverOwned'
  BY <1>8, WriteQueueAssumption DEF IInv, TypeOK, ReceiverOwned, Alive, DownEmpty, HeldAccepted, Panic, CutOff, Alive
<1>9. CASE Stop
  BY <1>9, WriteQueueAssumption DEF IInv, TypeOK, ReceiverOwned, Alive, DownEmpty, HeldAccepted, Stop, CutOff, Alive
<1>10. CASE Restart
  BY <1>10, WriteQueueAssumption DEF IInv, TypeOK, ReceiverOwned, Alive, DownEmpty, HeldAccepted, Restart
<1> QED
  BY <1>1, <1>2, <1>3, <1>4, <1>5, <1>6, <1>7, <1>8, <1>9, <1>10 DEF Next, Work

\* No step hands a worker a job that was not accepted, or leaves one with a dead worker.
LEMMA StepHeld ==
  ASSUME IInv, Next
  PROVE  HeldAccepted'
<1>1. ASSUME NEW j \in Jobs, Enqueue(j) PROVE HeldAccepted'
  BY <1>1, WriteQueueAssumption DEF IInv, TypeOK, HeldAccepted, ReceiverOwned, Alive, DownEmpty, InOnePlace, AnswersTrue, Queued, Held, Enqueue, WhenAccepted
<1>2. ASSUME NEW j \in Jobs, Retry(j) PROVE HeldAccepted'
  BY <1>2, WriteQueueAssumption DEF IInv, TypeOK, HeldAccepted, ReceiverOwned, Alive, DownEmpty, InOnePlace, AnswersTrue, Queued, Held, Retry
<1>3. ASSUME NEW j \in Jobs, HangUp(j) PROVE HeldAccepted'
  BY <1>3, WriteQueueAssumption DEF IInv, TypeOK, HeldAccepted, ReceiverOwned, Alive, DownEmpty, InOnePlace, AnswersTrue, Queued, Held, HangUp
<1>4. ASSUME NEW w \in Workers, TakeReceiver(w) PROVE HeldAccepted'
  BY <1>4, WriteQueueAssumption DEF IInv, TypeOK, HeldAccepted, ReceiverOwned, Alive, DownEmpty, InOnePlace, AnswersTrue, Queued, Held, TakeReceiver
<1>5. ASSUME NEW w \in Workers, Receive(w) PROVE HeldAccepted'
  BY <1>5, WriteQueueAssumption, TailFacts DEF IInv, TypeOK, HeldAccepted, ReceiverOwned, Alive, DownEmpty, InOnePlace, AnswersTrue, Queued, Held, Receive
<1>6. ASSUME NEW w \in Workers, StoreReturns(w) PROVE HeldAccepted'
  BY <1>6, WriteQueueAssumption DEF IInv, TypeOK, HeldAccepted, ReceiverOwned, Alive, DownEmpty, InOnePlace, AnswersTrue, Queued, Held, StoreReturns
<1>7. ASSUME NEW w \in Workers, Reply(w) PROVE HeldAccepted'
  BY <1>7, WriteQueueAssumption DEF IInv, TypeOK, HeldAccepted, ReceiverOwned, Alive, DownEmpty, InOnePlace, AnswersTrue, Queued, Held, Reply
<1>8. ASSUME NEW w \in Workers, Panic(w) PROVE HeldAccepted'
  BY <1>8, WriteQueueAssumption DEF IInv, TypeOK, HeldAccepted, ReceiverOwned, Alive, DownEmpty, InOnePlace, AnswersTrue, Queued, Held, Panic, CutOff, Alive
<1>9. CASE Stop
  BY <1>9, WriteQueueAssumption DEF IInv, TypeOK, HeldAccepted, ReceiverOwned, Alive, DownEmpty, InOnePlace, AnswersTrue, Queued, Held, Stop, CutOff, Alive
<1>10. CASE Restart
  BY <1>10, WriteQueueAssumption DEF IInv, TypeOK, HeldAccepted, ReceiverOwned, Alive, DownEmpty, InOnePlace, AnswersTrue, Queued, Held, Restart
<1> QED
  BY <1>1, <1>2, <1>3, <1>4, <1>5, <1>6, <1>7, <1>8, <1>9, <1>10 DEF Next, Work

\* A step that stops the process leaves nothing in it, and nothing comes to a stopped one.
LEMMA StepDown ==
  ASSUME IInv, Next
  PROVE  DownEmpty'
<1>1. ASSUME NEW j \in Jobs, Enqueue(j) PROVE DownEmpty'
  BY <1>1, WriteQueueAssumption DEF IInv, TypeOK, DownEmpty, HeldAccepted, Enqueue, WhenAccepted
<1>2. ASSUME NEW j \in Jobs, Retry(j) PROVE DownEmpty'
  BY <1>2, WriteQueueAssumption DEF IInv, TypeOK, DownEmpty, HeldAccepted, Retry
<1>3. ASSUME NEW j \in Jobs, HangUp(j) PROVE DownEmpty'
  BY <1>3, WriteQueueAssumption DEF IInv, TypeOK, DownEmpty, HeldAccepted, HangUp
<1>4. ASSUME NEW w \in Workers, TakeReceiver(w) PROVE DownEmpty'
  BY <1>4, WriteQueueAssumption DEF IInv, TypeOK, DownEmpty, HeldAccepted, TakeReceiver
<1>5. ASSUME NEW w \in Workers, Receive(w) PROVE DownEmpty'
  BY <1>5, WriteQueueAssumption DEF IInv, TypeOK, DownEmpty, HeldAccepted, Receive
<1>6. ASSUME NEW w \in Workers, StoreReturns(w) PROVE DownEmpty'
  BY <1>6, WriteQueueAssumption DEF IInv, TypeOK, DownEmpty, HeldAccepted, StoreReturns
<1>7. ASSUME NEW w \in Workers, Reply(w) PROVE DownEmpty'
  BY <1>7, WriteQueueAssumption DEF IInv, TypeOK, DownEmpty, HeldAccepted, Reply
<1>8. ASSUME NEW w \in Workers, Panic(w) PROVE DownEmpty'
  BY <1>8, WriteQueueAssumption DEF IInv, TypeOK, DownEmpty, HeldAccepted, Panic, CutOff, Alive
<1>9. CASE Stop
  BY <1>9, WriteQueueAssumption DEF IInv, TypeOK, DownEmpty, HeldAccepted, Stop, CutOff, Alive
<1>10. CASE Restart
  BY <1>10, WriteQueueAssumption DEF IInv, TypeOK, DownEmpty, HeldAccepted, Restart
<1> QED
  BY <1>1, <1>2, <1>3, <1>4, <1>5, <1>6, <1>7, <1>8, <1>9, <1>10 DEF Next, Work

\* No step duplicates an accepted write, or loses one while the process runs.
LEMMA StepInOnePlace ==
  ASSUME IInv, Next
  PROVE  InOnePlace'
<1>1. ASSUME NEW j \in Jobs, Enqueue(j) PROVE InOnePlace'
  <2>1. CASE Alive # {} /\ Len(queue) < Capacity
    <3>1. queue' = Append(queue, j) /\ fate' = [fate EXCEPT ![j] = "pending"] /\ job' = job
      BY <1>1, <2>1 DEF Enqueue
    <3>2. fate[j] = "none" /\ j \notin Queued /\ j \notin Held
      BY <1>1 DEF Enqueue, IInv, AnswersTrue, InOnePlace, HeldAccepted, Held
    <3>3. Queued' = Queued \cup {j} /\ Held' = Held
      BY <3>1, AppendFacts DEF Queued, Held, IInv, TypeOK
    <3>4. \A i, k \in DOMAIN queue' : queue'[i] = queue'[k] => i = k
      BY <3>1, <3>2, AppendFacts DEF Queued, IInv, TypeOK, InOnePlace
    <3> QED
      BY <3>1, <3>2, <3>3, <3>4 DEF IInv, TypeOK, InOnePlace
  <2>2. CASE ~(Alive # {} /\ Len(queue) < Capacity)
    BY <1>1, <2>2 DEF IInv, InOnePlace, Enqueue, Queued, Held
  <2> QED
    BY <2>1, <2>2
<1>2. ASSUME NEW j \in Jobs, Retry(j) PROVE InOnePlace'
  BY <1>2 DEF IInv, InOnePlace, Queued, Held, Retry
<1>3. ASSUME NEW j \in Jobs, HangUp(j) PROVE InOnePlace'
  BY <1>3 DEF IInv, InOnePlace, Queued, Held, HangUp
<1>4. ASSUME NEW w \in Workers, TakeReceiver(w) PROVE InOnePlace'
  BY <1>4 DEF IInv, InOnePlace, Queued, Held, TakeReceiver
<1>5. ASSUME NEW w \in Workers, Receive(w) PROVE InOnePlace'
  <2>1. /\ queue # <<>> /\ queue' = Tail(queue) /\ fate' = fate
        /\ job' = [job EXCEPT ![w] = Head(queue)]
    BY <1>5 DEF Receive
  <2>2. job[w] = None
    BY <1>5, WriteQueueAssumption DEF Receive, IInv, ReceiverOwned, TypeOK
  <2>3. Head(queue) \in Queued /\ Head(queue) \in Jobs /\ Head(queue) # None
    BY <2>1, TailFacts, WriteQueueAssumption DEF Queued, IInv, TypeOK
  <2>4. Queued' = Queued \ {Head(queue)}
    <3>1. ASSUME NEW i \in DOMAIN queue'
          PROVE  queue'[i] \in Queued /\ queue'[i] # Head(queue)
      BY <2>1, TailFacts DEF Queued, IInv, TypeOK, InOnePlace
    <3>2. ASSUME NEW x \in Queued, x # Head(queue)
          PROVE  x \in Queued'
      <4>1. PICK i \in DOMAIN queue : queue[i] = x
        BY DEF Queued
      <4>2. i # 1
        BY <2>1, <3>2, <4>1, TailFacts DEF IInv, TypeOK
      <4>3. i - 1 \in DOMAIN queue' /\ queue'[i - 1] = x
        BY <2>1, <4>1, <4>2, TailFacts DEF IInv, TypeOK
      <4> QED
        BY <4>3 DEF Queued
    <3> QED
      BY <3>1, <3>2 DEF Queued
  <2>5. Held' = Held \cup {Head(queue)}
    BY <2>1, <2>2, <2>3 DEF Held, IInv, TypeOK
  <2>6. \A i, k \in DOMAIN queue' : queue'[i] = queue'[k] => i = k
    BY <2>1, TailFacts DEF IInv, TypeOK, InOnePlace
  <2>7. \A u, v \in Workers : job'[u] = job'[v] /\ job'[u] # None => u = v
    BY <2>1, <2>3 DEF IInv, TypeOK, InOnePlace, Held
  <2> QED
    BY <2>1, <2>3, <2>4, <2>5, <2>6, <2>7 DEF IInv, InOnePlace
<1>6. ASSUME NEW w \in Workers, StoreReturns(w) PROVE InOnePlace'
  <2>1. job[w] \in Held /\ Queued' = Queued /\ Held' = Held
    BY <1>6 DEF StoreReturns, Held, Queued
  <2>2. \A j \in Jobs : fate'[j] = "pending" => fate[j] = "pending"
    BY <1>6 DEF StoreReturns, IInv, TypeOK
  <2>3. \A j \in Queued : fate'[j] = fate[j]
    BY <1>6, <2>1 DEF StoreReturns, IInv, TypeOK, InOnePlace
  <2> QED
    BY <1>6, <2>1, <2>2, <2>3 DEF StoreReturns, IInv, InOnePlace
<1>7. ASSUME NEW w \in Workers, Reply(w) PROVE InOnePlace'
  <2>1. job' = [job EXCEPT ![w] = None] /\ queue' = queue /\ fate' = fate
    BY <1>7 DEF Reply
  <2>2. fate[job[w]] # "pending"
    BY <1>7 DEF Reply
  <2>3. Held' \subseteq Held /\ Held \subseteq Held' \cup {job[w]} /\ Queued' = Queued
    BY <2>1 DEF Held, Queued, IInv, TypeOK
  <2> QED
    BY <2>1, <2>2, <2>3 DEF IInv, TypeOK, InOnePlace
<1>8. ASSUME NEW w \in Workers, Panic(w) PROVE InOnePlace'
  <2>1. Held' \subseteq Held /\ Held \subseteq Held' \cup {job[w]}
    BY <1>8 DEF Panic, Held, IInv, TypeOK
  <2>2. /\ \A j \in Jobs : fate'[j] = "pending" => fate[j] = "pending" /\ j # job[w]
        /\ Alive = {w} => \A j \in Queued : fate'[j] # "pending"
    <3>1. \A j \in Queued : j \in Jobs
      BY DEF Queued, IInv, TypeOK
    <3> QED
      BY <1>8, <3>1 DEF Panic, IInv, TypeOK
  <2>3. \A u, v \in Workers : job'[u] = job'[v] /\ job'[u] # None => u = v
    BY <1>8 DEF Panic, IInv, TypeOK, InOnePlace
  <2>4. CASE Alive = {w}
    <3>1. queue' = <<>> /\ Queued' = {}
      BY <1>8, <2>4 DEF Panic, Queued
    <3> QED
      BY <2>1, <2>2, <2>3, <2>4, <3>1 DEF IInv, InOnePlace
  <2>5. CASE Alive # {w}
    <3>1. queue' = queue /\ Queued' = Queued
      BY <1>8, <2>5 DEF Panic, Queued
    <3>2. \A j \in Queued : fate'[j] = fate[j]
      <4>1. \A j \in Queued : j \in Jobs
        BY DEF Queued, IInv, TypeOK
      <4>2. job[w] \in Held
        BY <1>8 DEF Panic, Held
      <4>3. \A j \in Queued : j # job[w]
        BY <4>2 DEF IInv, InOnePlace
      <4> QED
        BY <1>8, <2>5, <4>1, <4>3 DEF Panic
    <3> QED
      BY <2>1, <2>2, <2>3, <3>1, <3>2 DEF IInv, InOnePlace
  <2> QED
    BY <2>4, <2>5
<1>9. CASE Stop
  <2>1. \A j \in Jobs : fate'[j] # "pending"
    <3>1. PICK through \in SUBSET {j \in Held : fate[j] = "pending"} :
            fate' = [j \in Jobs |->
              IF j \in through THEN "stored"
              ELSE IF j \in Held \cup Queued /\ fate[j] = "pending" THEN "lost"
              ELSE fate[j]]
      BY <1>9 DEF Stop
    <3> QED
      BY <3>1 DEF IInv, InOnePlace
  <2>2. queue' = <<>> /\ job' = [v \in Workers |-> None]
    BY <1>9 DEF Stop
  <2>3. Queued' = {} /\ Held' = {}
    BY <2>2 DEF Queued, Held
  <2> QED
    BY <2>1, <2>2, <2>3 DEF InOnePlace
<1>10. CASE Restart
  BY <1>10 DEF IInv, InOnePlace, Queued, Held, Restart
<1> QED
  BY <1>1, <1>2, <1>3, <1>4, <1>5, <1>6, <1>7, <1>8, <1>9, <1>10 DEF Next, Work

\* The inductive invariant holds initially.
LEMMA InitIInv ==
  ASSUME Init
  PROVE  IInv
<1> USE WriteQueueAssumption DEF Init, ContractInit
<1>1. TypeOK
  BY DEF TypeOK, Told, Fates
<1>2. InOnePlace /\ AnswersTrue /\ ReceiverOwned /\ HeldAccepted /\ DownEmpty
  BY DEF InOnePlace, AnswersTrue, ReceiverOwned, HeldAccepted, DownEmpty, Queued, Held
<1> QED
  BY <1>1, <1>2 DEF IInv

\* A step that changes nothing keeps it.
LEMMA StutterIInv ==
  ASSUME IInv, UNCHANGED vars
  PROVE  IInv'
<1> USE DEF vars
<1>1. TypeOK'
  BY DEF IInv, TypeOK
<1>2. Queued' = Queued /\ Held' = Held
  BY DEF Queued, Held
<1>3. InOnePlace'
  BY <1>2 DEF IInv, InOnePlace
<1>4. AnswersTrue' /\ ReceiverOwned' /\ HeldAccepted' /\ DownEmpty'
  BY DEF IInv, AnswersTrue, ReceiverOwned, HeldAccepted, DownEmpty, Alive
<1> QED
  BY <1>1, <1>3, <1>4 DEF IInv

\* The inductive invariant: every write in one place, every answer true, every
\* worker's hands and the receiver accounted for.
THEOREM Invariance == Spec => []IInv
<1>1. Init => IInv
  BY InitIInv
<1>2. IInv /\ [Next]_vars => IInv'
  <2>1. ASSUME IInv, Next PROVE IInv'
    BY <2>1, StepTypeOK, StepInOnePlace, StepAnswers, StepReceiver, StepHeld, StepDown DEF IInv
  <2> QED
    BY <2>1, StutterIInv
<1> QED
  BY <1>1, <1>2, PTL DEF Spec

\* MemoryQueue and its workers: every variable has its shape.
THEOREM TypeCorrect == Spec => []TypeOK
<1>1. IInv => TypeOK
  BY DEF IInv
<1> QED
  BY <1>1, Invariance, PTL

\* try_send, recv and process: an accepted write waits or is worked on in exactly
\* one place.
THEOREM HeldOnce == Spec => []InOnePlace
<1>1. IInv => InOnePlace
  BY DEF IInv
<1> QED
  BY <1>1, Invariance, PTL

\* The upsert handler: what a caller is told is what happened.
THEOREM AnswersAreTrue == Spec => []AnswersTrue
<1>1. IInv => AnswersTrue
  BY DEF IInv
<1> QED
  BY <1>1, Invariance, PTL

\* worker_loop: the mutex around the receiver is never kept by a worker that is
\* processing or gone.
THEOREM ReceiverHasOwner == Spec => []ReceiverOwned
<1>1. IInv => ReceiverOwned
  BY DEF IInv
<1> QED
  BY <1>1, Invariance, PTL

-----------------------------------------------------------------------------
(* The contract *)

\* Every step of the queue is a step of the contract, or none.
LEMMA StepContract ==
  ASSUME IInv, Next
  PROVE  ContractNext \/ UNCHANGED contract
<1> USE DEF contract
<1>1. ASSUME NEW j \in Jobs, Enqueue(j) PROVE Refuse(j) \/ Accept(j)
  BY <1>1 DEF Enqueue, Refuse, Accept, IInv, AnswersTrue
<1>2. ASSUME NEW j \in Jobs, Retry(j) PROVE TryAgain(j)
  BY <1>2 DEF Retry, TryAgain
<1>3. ASSUME NEW j \in Jobs, HangUp(j) PROVE Leave(j)
  BY <1>3 DEF HangUp, Leave
<1>4. ASSUME NEW w \in Workers, TakeReceiver(w) \/ Receive(w) PROVE UNCHANGED contract
  BY <1>4 DEF TakeReceiver, Receive
<1>5. ASSUME NEW w \in Workers, StoreReturns(w) PROVE job[w] \in Jobs /\ Decide(job[w])
  BY <1>5 DEF StoreReturns, Decide, IInv, TypeOK
<1>6. ASSUME NEW w \in Workers, Reply(w)
      PROVE  UNCHANGED contract \/ (job[w] \in Jobs /\ Answer(job[w]))
  BY <1>6 DEF Reply, Answer, IInv, TypeOK
<1>7. ASSUME NEW w \in Workers, Panic(w) PROVE GoDown
  <2>1. fate' \in [Jobs -> Fates] /\ caller' \in [Jobs -> Told]
    <3>1. TypeOK /\ Next
      BY DEF IInv
    <3> QED
      BY <3>1, StepTypeOK DEF TypeOK
  <2>2. \A j \in Jobs : fate'[j] # fate[j] => fate[j] = "pending" /\ fate'[j] = "lost"
    BY <1>7 DEF Panic, IInv, TypeOK, InOnePlace
  <2>3. \A j \in Jobs : caller'[j] # caller[j] => caller[j] = "waiting" /\ caller'[j] = "unknown"
    BY <1>7 DEF Panic, CutOff
  <2> QED
    BY <2>1, <2>2, <2>3 DEF GoDown
<1>8. CASE Stop
  <2>1. fate' \in [Jobs -> Fates] /\ caller' \in [Jobs -> Told]
    <3>1. TypeOK /\ Next
      BY DEF IInv
    <3> QED
      BY <3>1, StepTypeOK DEF TypeOK
  <2>2. PICK through \in SUBSET {j \in Held : fate[j] = "pending"} :
          fate' = [j \in Jobs |->
            IF j \in through THEN "stored"
            ELSE IF j \in Held \cup Queued /\ fate[j] = "pending" THEN "lost"
            ELSE fate[j]]
    BY <1>8 DEF Stop
  <2>3. \A j \in Jobs :
          /\ fate'[j] # fate[j] => fate[j] = "pending" /\ fate'[j] \in {"stored", "lost"}
          /\ caller'[j] # caller[j] => caller[j] = "waiting" /\ caller'[j] = "unknown"
    BY <1>8, <2>2 DEF Stop, CutOff
  <2> QED
    BY <2>1, <2>3 DEF GoDown, ContractNext
<1>9. CASE Restart
  BY <1>9 DEF Restart
<1> QED
  BY <1>1, <1>2, <1>3, <1>4, <1>5, <1>6, <1>7, <1>8, <1>9 DEF Next, Work, ContractNext

\* The queue, its workers and its handlers implement the contract of a write
\* route, for any capacity and any number of requests and workers.
THEOREM Refinement == Spec => ImplementsContract
<1>1. Init => ContractInit
  BY DEF Init
<1>2. IInv /\ [Next]_vars => [ContractNext]_contract
  <2>1. ASSUME UNCHANGED vars PROVE UNCHANGED contract
    BY <2>1 DEF vars, contract
  <2> QED
    BY <2>1, StepContract
<1> QED
  BY <1>1, <1>2, Invariance, PTL DEF Spec, ImplementsContract, ContractSpec
=============================================================================
