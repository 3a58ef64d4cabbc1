------------------------------- MODULE MCBackup -------------------------------
(* Instances of Backup and Hook for TLC: the service and one --run-backup-now; or, *)
(* in a part of its own, the calls of the status hook, which a run waits for.        *)
EXTENDS Backup, Hook

CONSTANTS cli
VARIABLE part
mcVars == <<vars, hookVars, part>>

OneCli == {cli}
EitherStrategy == {"suffix", "overwrite"}

NoRuns == /\ strategy = "suffix" /\ day = 0 /\ fired = {} /\ runs = 0 /\ lock = None
          /\ proc = [p \in Procs |-> Down] /\ partials = {} /\ files = {}
          /\ maintenance = FALSE /\ overlapped = FALSE /\ abandoned = FALSE
MCInit == HookInit /\ ((part = "runs" /\ Init) \/ (part = "hook" /\ NoRuns))
RunsPart(A) == part = "runs" /\ A /\ UNCHANGED <<hookVars, part>>
HookPart(A) == part = "hook" /\ A /\ UNCHANGED <<vars, part>>
MCSpec == MCInit /\ [][RunsPart(Next) \/ HookPart(HookNext)]_mcVars
MCFairSpec == /\ MCSpec /\ WF_mcVars(HookPart(Own))
              /\ \A p \in Procs : WF_mcVars(RunsPart(OwnStep(p)))
=============================================================================
