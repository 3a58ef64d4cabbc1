--------------------------------- MODULE Hook ---------------------------------
(***************************************************************************)
(* One call of the backup's status hook: the run writes the event to the    *)
(* executable, waits for it, under a timeout, then reads what it has        *)
(* written.  The executable may stall, read nothing, ignore SIGTERM and     *)
(* leave a process behind that has its pipes open.  The call at the start   *)
(* of a run is made with the maintenance flag set and the lockfile taken.   *)
(***************************************************************************)
VARIABLES call,      \* where invoke is: idle, feed, wait, drain, grace, back
          event,     \* started or ended
          ok,        \* the result, and if it was a timeout
          hook,      \* the executable: none, runs, gone
          deaf,      \* SIGTERM does not end it
          offspring, \* a process it started has its pipes open
          fits,      \* the payload fits the pipe of the hook's stdin
          taken      \* ... or has been read

hookVars == <<call, event, ok, hook, deaf, offspring, fits, taken>>
Flagged == event = "started" /\ call \notin {"idle", "back"}

\* spawn_and_wait. The payload of a start is short; that of a failure has all that pg_dump
\* wrote to stderr.
Invoke(e) ==
  /\ call = "idle" /\ event' = e
  /\ \/ call' = "back" /\ ok' = "failed" /\ UNCHANGED <<hook, fits>>     \* it cannot be spawned
     \/ /\ call' = "feed" /\ hook' = "runs" /\ UNCHANGED ok
        /\ fits' \in IF e = "started" THEN {TRUE} ELSE BOOLEAN
  /\ UNCHANGED <<deaf, offspring, taken>>

\* write_all, which no timeout covers: it ends, with an error or not, when the pipe has
\* room, or has been read, or nobody has its other end any more.
Unread == ~fits /\ ~taken /\ (hook = "runs" \/ offspring)
Fed ==
  /\ call = "feed" /\ ~Unread
  /\ call' = "wait"
  /\ UNCHANGED <<event, ok, hook, deaf, offspring, fits, taken>>

\* The executable on its own.
HookForks == hook = "runs" /\ ~offspring /\ offspring' = TRUE
             /\ UNCHANGED <<call, event, ok, hook, deaf, fits, taken>>
HookIgnores == hook = "runs" /\ ~deaf /\ deaf' = TRUE
               /\ UNCHANGED <<call, event, ok, hook, offspring, fits, taken>>
HookExits == hook = "runs" /\ hook' = "gone"
             /\ UNCHANGED <<call, event, ok, deaf, offspring, fits, taken>>
HookReads == (hook = "runs" \/ offspring) /\ ~taken /\ taken' = TRUE
             /\ UNCHANGED <<call, event, ok, hook, deaf, offspring, fits>>
OffspringExits == offspring /\ hook # "runs" /\ offspring' = FALSE
                  /\ UNCHANGED <<call, event, ok, hook, deaf, fits, taken>>

\* wait returns in time; what is in the pipes is read to the end.
Reaped ==
  /\ call = "wait" /\ hook = "gone" /\ call' = "drain"
  /\ UNCHANGED <<event, ok, hook, deaf, offspring, fits, taken>>
\* read_to_end: the end is there when nobody has the pipe open any more.
Drained ==
  /\ call = "drain" /\ ~offspring
  /\ call' = "back" /\ \E r \in {"ok", "failed"} : ok' = r
  /\ UNCHANGED <<event, hook, deaf, offspring, fits, taken>>

\* The timeout, and SIGTERM.
TimesOut ==
  /\ call = "wait" /\ hook = "runs" /\ call' = "grace"
  /\ hook' = IF deaf THEN hook ELSE "gone"
  /\ UNCHANGED <<event, ok, deaf, offspring, fits, taken>>
Back(result) == call' = "back" /\ ok' = result /\ UNCHANGED <<event, deaf, offspring, fits, taken>>
InGrace == call = "grace" /\ hook = "gone" /\ Back("timed_out") /\ UNCHANGED hook

\* MUTANT of GraceOver: SIGTERM once more.
TermAgain ==
  /\ call = "grace" /\ hook = "runs"
  /\ hook' = IF deaf THEN hook ELSE "gone"
  /\ UNCHANGED <<call, event, ok, deaf, offspring, fits, taken>>

\* The grace is over: SIGKILL, which nothing ignores, and wait.
GraceOver == call = "grace" /\ hook = "runs" /\ hook' = "gone" /\ Back("timed_out")

\* The run goes on; the next call is another one's.
Leave ==
  /\ call = "back" /\ call' = "idle"
  /\ ok' = "none" /\ hook' = "none" /\ deaf' = FALSE /\ offspring' = FALSE
  /\ fits' = TRUE /\ taken' = FALSE
  /\ UNCHANGED event

HookInit == /\ call = "idle" /\ event = "ended" /\ ok = "none" /\ hook = "none"
            /\ deaf = FALSE /\ offspring = FALSE /\ fits = TRUE /\ taken = FALSE
Own == Fed \/ Reaped \/ Drained \/ TimesOut \/ InGrace \/ GraceOver \/ Leave
HookNext ==
  \/ \E e \in {"started", "ended"} : Invoke(e)
  \/ Own \/ HookForks \/ HookReads \/ HookIgnores \/ HookExits \/ OffspringExits

\* Whatever the executable does, the call comes back, unless for ever nobody reads a payload
\* the pipe is too small for, or a process the hook started has its output open (invoke).
Stuck == (call = "feed" /\ Unread) \/ (call = "drain" /\ offspring)
HookReturns == (call # "idle") ~> (call = "back" \/ []Stuck)

\* "status_hook stalls forever: bounded by status_hook_timeout": the flag comes down.
FlagComesDown == Flagged ~> ~Flagged
===============================================================================
