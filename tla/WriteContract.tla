---------------------------- MODULE WriteContract ----------------------------
(***************************************************************************)
(* What a client of the write routes may rely on, one request at a time    *)
(* and with no queue or workers: a request is refused, or accepted; an     *)
(* accepted write is decided once, stored or failed, unless the process    *)
(* goes down first; and a caller that waits hears the decision itself or   *)
(* learns that it does not know.  WriteQueue is shown to implement this.   *)
(***************************************************************************)
CONSTANTS Jobs,         \* write requests
          Replying      \* those whose caller waits for the result: fact upserts

VARIABLES caller,       \* what the caller of each request has been told
          fate          \* what has become of each accepted write

contract == <<caller, fate>>

Told == {"idle", "refused", "accepted", "waiting", "ok", "failed", "unknown", "left"}
Fates == {"none", "pending", "stored", "failed", "lost"}

WhenAccepted(j) == IF j \in Replying THEN "waiting" ELSE "accepted"

ContractInit ==
  /\ caller = [j \in Jobs |-> "idle"]
  /\ fate = [j \in Jobs |-> "none"]

Refuse(j) ==
  /\ caller[j] = "idle"
  /\ caller' = [caller EXCEPT ![j] = "refused"]
  /\ UNCHANGED fate

TryAgain(j) ==
  /\ caller[j] = "refused"
  /\ caller' = [caller EXCEPT ![j] = "idle"]
  /\ UNCHANGED fate

Accept(j) ==
  /\ caller[j] = "idle" /\ fate[j] = "none"
  /\ caller' = [caller EXCEPT ![j] = WhenAccepted(j)]
  /\ fate' = [fate EXCEPT ![j] = "pending"]

Decide(j) ==
  /\ fate[j] = "pending"
  /\ \E r \in {"stored", "failed"} : fate' = [fate EXCEPT ![j] = r]
  /\ UNCHANGED caller

Answer(j) ==
  /\ caller[j] = "waiting"
  /\ \/ fate[j] = "stored" /\ caller' = [caller EXCEPT ![j] = "ok"]
     \/ fate[j] = "failed" /\ caller' = [caller EXCEPT ![j] = "failed"]
  /\ UNCHANGED fate

Leave(j) ==
  /\ caller[j] = "waiting"
  /\ caller' = [caller EXCEPT ![j] = "left"]
  /\ UNCHANGED fate

\* The process, or part of it, goes down: undecided writes may be lost, and
\* callers may be cut off.
GoDown ==
  /\ fate' \in [Jobs -> Fates] /\ caller' \in [Jobs -> Told]
  /\ \A j \in Jobs :
       /\ fate'[j] # fate[j] => fate[j] = "pending" /\ fate'[j] \in {"stored", "lost"}
       /\ caller'[j] # caller[j] => caller[j] = "waiting" /\ caller'[j] = "unknown"

ContractNext ==
  \/ \E j \in Jobs : Refuse(j) \/ TryAgain(j) \/ Accept(j)
                       \/ Decide(j) \/ Answer(j) \/ Leave(j)
  \/ GoDown

ContractSpec == ContractInit /\ [][ContractNext]_contract
=============================================================================
