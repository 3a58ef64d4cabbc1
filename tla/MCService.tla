------------------------------- MODULE MCService -------------------------------
(* Instances for TLC of what stands around the tools and the stores: who is let in  *)
(* and as whom, the connections; the decay task and the bump, the repair of authors,   *)
(* the backfill of authors in the index; the chunks of a file, the embedding of a       *)
(* text; the monitor's events and the health card.  None of them sees the state of       *)
(* another, so a behaviour is of one part and the others stay where they begin.          *)
EXTENDS Access, Limits, Decay, Backfill, Health, Watch, Repair, Chunks, Embedding, Validation, TLC

CONSTANTS n1, n2, a1, a2, a3, b1, b2, kai, p1, p2, k1, k2, k3, t1, t2, m1, w1, w2
VARIABLE part

SomeNames == {n1, n2}
SomeAuthors == {a1, a2, a3, b1, b2}
Stands == [u \in SomeAuthors |-> IF u \in {a1, a2, a3} THEN n1 ELSE n2]
SomeNodes == {kai}
\* One that may read, and one that may do more from one node.
Reader == [scopes |-> {"read"}, nodes |-> {}]
Strong == [scopes |-> {"read", "write", "admin"}, nodes |-> {kai}]
\* The reader, pinned.
Half == [scopes |-> {"read"}, nodes |-> {kai}]
SomeRows == {Reader, Half, Strong}

\* Two events of fact 1, one of them of the task t, and one of fact 2.
SomeMentions == [e \in {11, 12, 13} |-> IF e = 13 THEN {2} ELSE {1}]
SomeTasks == [e \in {11, 12, 13} |-> IF e = 11 THEN NoTask ELSE "t"]

\* Headings of two levels, lines that fit a chunk, one that fits none, one that is heavy.
Hd(level, title) == [kind |-> "head", level |-> level, title |-> title]
Txt(n, weight) == [kind |-> "text", n |-> n, weight |-> weight]
SomeLines == {Hd(1, "a"), Hd(1, "b"), Hd(2, "a"), Txt(1, 1), Txt(3, 1), Txt(9, 1), Txt(5, 3),
              [kind |-> "blank"], [kind |-> "fence"]}

\* The estimate is right, too high or too low, on either side of the limit.
Size(tokens, estimate, words) == [tokens |-> tokens, estimate |-> estimate, words |-> words]
SomeTexts == {Size(2, 2, 2), Size(2, 5, 1), Size(5, 2, 1), Size(5, 6, 5), Size(3, 3, 2), Size(4, 4, 2)}

\* Payloads: of each field what is right, what is not, or nothing.
Leaf(node) == [q \in {<<>>} |-> node]
Tree(is, f) ==
  LET given == {k \in DOMAIN f : f[k] # None}
  IN  [q \in {<<>>} \cup UNION {{<<k>> \o r : r \in DOMAIN f[k]} : k \in given} |->
         IF q = <<>> THEN [is |-> is, size |-> 60] ELSE f[Head(q)][Tail(q)]]
Object(f) == Tree("object", f)
List(f) == Tree("array", f)
Text(n, looks) == [is |-> "text", len |-> n, size |-> n + 2, looks |-> looks]
Said(n, looks) == Leaf(Text(n, looks))
Counted(n) == Leaf([is |-> "number", size |-> 2, number |-> n])
Right == [name |-> Text(3, {}), email |-> Text(9, {"email"}), birthdate |-> Text(10, {"date"}),
          task_id |-> Text(36, {"uuid"}), status |-> Text(7, {"planned"}), key |-> Text(4, {"ENV_KEY"}),
          value |-> Text(1, {}), service |-> Text(5, {}), host |-> Text(4, {"hostname"}),
          hostname |-> Text(4, {"hostname"}), event |-> Text(2, {"up"}), version |-> Text(3, {}),
          port |-> [is |-> "number", size |-> 2, number |-> 80], tool |-> Text(4, {}),
          phase |-> Text(7, {"started"}), detail |-> Text(9, {})]
         @@ [k \in TimestampFields |-> Text(20, {"near"})]
Odd(n) == Said(n, {"odd"})
Wrong(k, values) == {None, Leaf(Right[k])} \cup values
Nested == {None, Object([host |-> Odd(4)]),
           List(("[0]" :> Object([seen_at |-> Said(20, {"far"})])) @@ ("[1]" :> Counted(1))),
           Object([host |-> Leaf(Right["host"]), seen_at |-> Odd(3)])}
Made(k, l, m, n, A, B, C, D) ==
  {Object((k :> a) @@ (l :> b) @@ (m :> c) @@ (n :> d)) : a \in A, b \in B, c \in C, d \in D}
UserFacts == Made("name", "email", "birthdate", "more", Wrong("name", {Odd(300), Counted(1)}),
                  Wrong("email", {Odd(4), Counted(1)}), Wrong("birthdate", {Odd(4)}), Nested)
TaskFacts == Made("task_id", "status", "seen_at", "host", Wrong("task_id", {Odd(9), Odd(65), Counted(1)}),
                  Wrong("status", {Odd(5), Counted(1)}), Wrong("seen_at", {Said(20, {"far"}), Counted(1)}),
                  Wrong("host", {Odd(4), Counted(1)}))
EnvFacts == Made("key", "value", "task_id", "ts", Wrong("key", {Odd(4), Odd(0), Counted(1)}),
                 Wrong("value", {Odd(20000), Object([hostname |-> Odd(4)])}),
                 Wrong("task_id", {Odd(9)}), Wrong("ts", {Odd(4)}))
Services == Made("service", "host", "event", "port", Wrong("service", {Odd(129)}),
                 Wrong("host", {Odd(4), Said(65, {"hostname"})}), Wrong("event", {Odd(4)}),
                 Wrong("port", {Counted(0), Odd(2)}))
            \cup Made("service", "host", "event", "version", {Leaf(Right["service"])}, Wrong("host", {}),
                      {Leaf(Right["event"])}, Wrong("version", {Odd(65), Counted(1)}))
Executions == Made("task_id", "tool", "phase", "detail", Wrong("task_id", {Said(43, {"run id"}), Odd(9)}),
                   Wrong("tool", {Odd(129)}), Wrong("phase", {Odd(4)}), Wrong("detail", {Odd(4097), Counted(1)}))
Asked(kind, what, payloads) == {[kind |-> kind, what |-> what, payload |-> p] : p \in payloads}
SomeWrites ==
  Asked("fact", "UserFact", UserFacts) \cup Asked("fact", "TaskFact", TaskFacts)
  \cup Asked("fact", "EnvFact", EnvFacts) \cup Asked("event", "service", Services)
  \cup Asked("event", "execution", Executions)
  \cup Asked("event", "other", {List(<<>>), Object([ts |-> Odd(1)])}) \cup Asked("event", "", {List(<<>>)})
Whole(k, l) == Object((k :> Leaf(Right[k])) @@ (l :> Leaf(Right[l])))
SomeProposals == {Object([host |-> Odd(4)])}
SomeMore == Asked("fact", "EnvFact", {Whole("key", "value"), Whole("key", "host")})

ASSUME ServiceAssumption ==
  /\ LimitsAssumption /\ DecayAssumption /\ BackfillAssumption /\ RepairAssumption /\ WatchAssumption
  /\ HealthAssumption /\ ChunksAssumption /\ EmbeddingAssumption
  /\ ValidationAssumption

mcVars == <<part, vars, limitsVars, decayVars, repairVars, backfillVars, chunkVars, embedVars, watchVars, healthVars, gateVars>>
-----------------------------------------------------------------------------
\* Where a part stays that the behaviour is not about.
NoBump == DecayInit /\ row = [f \in FactIds |-> "absent"]
NoMend == RepairInit /\ owner = [r \in Stamped |-> "System"]
NoFill == BackfillInit /\ stamp = [p \in Points |-> "absent"]
NoSplit == ChunksInit /\ lang = "text"
NoEmbed == text = Size(2, 2, 2) /\ write = Resting /\ model = 3 /\ sends = 0
NoMonitor == WatchInit /\ active = [u \in Units |-> "up"]
NoCard == HealthInit /\ truth = [s \in Subs |-> "Ok"]
NoGate == /\ entry = Served /\ complaint = {} /\ rounds = 0
          /\ fact = NoValue /\ proposal = NoValue /\ event = NoValue

NoAccess == Init /\ file.rows = [n \in {n1} |-> Reader]
UpkeepRests == NoBump /\ NoMend /\ NoFill /\ NoSplit /\ NoEmbed /\ NoMonitor /\ NoCard /\ NoGate

\* Access starts with the strong identity, alone or with the reader.
MCInit ==
  /\ LimitsInit
  /\ \/ /\ part = "access" /\ Init /\ UpkeepRests
        /\ file.rows \in {[n \in {n1} |-> Strong],
                          [n \in SomeNames |-> IF n = n1 THEN Strong ELSE Reader]}
     \/ part = "connections" /\ NoAccess /\ UpkeepRests
     \/ /\ part = "bump" /\ DecayInit
        /\ NoAccess /\ NoMend /\ NoFill /\ NoSplit /\ NoEmbed /\ NoMonitor /\ NoCard /\ NoGate
     \/ /\ part = "mend" /\ RepairInit
        /\ NoAccess /\ NoBump /\ NoFill /\ NoSplit /\ NoEmbed /\ NoMonitor /\ NoCard /\ NoGate
     \/ /\ part = "fill" /\ BackfillInit
        /\ NoAccess /\ NoBump /\ NoMend /\ NoSplit /\ NoEmbed /\ NoMonitor /\ NoCard /\ NoGate
     \/ /\ part = "split" /\ ChunksInit
        /\ NoAccess /\ NoBump /\ NoMend /\ NoFill /\ NoEmbed /\ NoMonitor /\ NoCard /\ NoGate
     \/ /\ part = "embed" /\ EmbedInit
        /\ NoAccess /\ NoBump /\ NoMend /\ NoFill /\ NoSplit /\ NoMonitor /\ NoCard /\ NoGate
     \/ /\ part = "monitor" /\ WatchInit
        /\ NoAccess /\ NoBump /\ NoMend /\ NoFill /\ NoSplit /\ NoEmbed /\ NoCard /\ NoGate
     \/ /\ part = "card" /\ HealthInit
        /\ NoAccess /\ NoBump /\ NoMend /\ NoFill /\ NoSplit /\ NoEmbed /\ NoMonitor /\ NoGate
     \/ /\ part = "gate" /\ GateInit
        /\ NoAccess /\ NoBump /\ NoMend /\ NoFill /\ NoSplit /\ NoEmbed /\ NoMonitor /\ NoCard

\* A step of the access part.
AccessPart(A) ==
  /\ part = "access" /\ A
  /\ UNCHANGED <<part, limitsVars, decayVars, repairVars, backfillVars, chunkVars, embedVars, watchVars, healthVars, gateVars>>

MCNext ==
  \/ AccessPart(Next)
  \/ /\ UNCHANGED <<part, vars>>
     /\ \/ /\ part = "connections" /\ LimitsNext
           /\ UNCHANGED <<decayVars, repairVars, backfillVars, chunkVars, embedVars, watchVars, healthVars, gateVars>>
        \/ /\ part = "bump" /\ DecayNext
           /\ UNCHANGED <<limitsVars, repairVars, backfillVars, chunkVars, embedVars, watchVars, healthVars, gateVars>>
        \/ /\ part = "mend" /\ RepairNext
           /\ UNCHANGED <<limitsVars, decayVars, backfillVars, chunkVars, embedVars, watchVars, healthVars, gateVars>>
        \/ /\ part = "fill" /\ BackfillNext
           /\ UNCHANGED <<limitsVars, decayVars, repairVars, chunkVars, embedVars, watchVars, healthVars, gateVars>>
        \/ /\ part = "split" /\ ChunksNext
           /\ UNCHANGED <<limitsVars, decayVars, repairVars, backfillVars, embedVars, watchVars, healthVars, gateVars>>
        \/ /\ part = "embed" /\ EmbedNext
           /\ UNCHANGED <<limitsVars, decayVars, repairVars, backfillVars, chunkVars, watchVars, healthVars, gateVars>>
        \/ /\ part = "monitor" /\ WatchNext
           /\ UNCHANGED <<limitsVars, decayVars, repairVars, backfillVars, chunkVars, embedVars, healthVars, gateVars>>
        \/ /\ part = "card" /\ HealthNext
           /\ UNCHANGED <<limitsVars, decayVars, repairVars, backfillVars, chunkVars, embedVars, watchVars, gateVars>>
        \/ /\ part = "gate" /\ GateNext
           /\ UNCHANGED <<limitsVars, decayVars, repairVars, backfillVars, chunkVars, embedVars, watchVars, healthVars>>

\* The reload is one task that runs when signalled.
MCSpec == MCInit /\ [][MCNext]_mcVars /\ WF_mcVars(AccessPart(ReloadStep))
==============================================================================
