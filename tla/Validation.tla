------------------------------ MODULE Validation ------------------------------
(***************************************************************************)
(* What a write must look like: the rules of klams-core's validate/ and the  *)
(* ways into the stores that run them, and those that do not.  A payload is   *)
(* a JSON tree: at every path from its root, through the names of fields and   *)
(* the indexes of lists, a node, which says what it is and, for a text, its     *)
(* length in bytes and the shapes it has.  A client that is refused puts right  *)
(* what the answer names and asks again.                                        *)
(***************************************************************************)
EXTENDS Naturals, SequencesExt

CONSTANTS Writes,     \* requests: a fact of a type or an event of a category, with a payload
          Again,      \* those that may follow another one
          Proposals,  \* the payloads a dissent may propose
          Good,       \* for each name of a field, a node every rule allows there
          NoValue

VARIABLES entry,      \* the request at the gate
          complaint,  \* the details of the 422 its client has got
          rounds,     \* how often the client has put right what it was told
          fact, proposal, event   \* the rows: a fact's with its type, an event's category

gateVars == <<entry, complaint, rounds, fact, proposal, event>>

-----------------------------------------------------------------------------
(* Nodes and paths *)

IsText(v) == v.is = "text"
Looks(v, shapes) == IsText(v) /\ v.looks \cap shapes # {}
Given(p, k) == <<k>> \in DOMAIN p
Field(p, k) == p[<<k>>]
Detail(path, rule) == [field |-> path, rule |-> rule]
Blame(guilty, k, rule) == IF guilty THEN {Detail(<<k>>, rule)} ELSE {}

\* walk: the paths of all named fields of a payload, at any depth, within lists too.
Walk(p) == {q \in DOMAIN p \ {<<>>} : p[Front(q)].is = "object"}

-----------------------------------------------------------------------------
(* Sanity rules, for every fact and event *)

TimestampFields == {"at", "time", "ts", "timestamp"} \cup {"seen_at", "start_time", "sent_ts"}

\* TimestampRangeRule: within ten years ("near") of the wall clock; what is no text passes.
TimestampRange(p) ==
  {Detail(q, "timestamp_range") :
     q \in {r \in Walk(p) : Last(r) \in TimestampFields /\ IsText(p[r]) /\ ~Looks(p[r], {"near"})}}

\* HostnameShapeRule.
HostnameShape(p) ==
  {Detail(q, "hostname_shape") :
     q \in {r \in Walk(p) : Last(r) \in {"host", "hostname"} /\ ~Looks(p[r], {"hostname"})}}

\* run_sanity. NumericRangeRule has nothing to find: a JSON number is finite.
Sanity(p) == TimestampRange(p) \cup HostnameShape(p)

-----------------------------------------------------------------------------
(* Rules of a type or a category *)

\* required_str, check_required_str: the length is that of the text in bytes.
RequiredText(p, k, min, max) ==
  Blame(~Given(p, k), k, "required")
  \cup Blame(Given(p, k) /\ ~IsText(Field(p, k)), k, "type")
  \cup Blame(Given(p, k) /\ IsText(Field(p, k)) /\ Field(p, k).len \notin min..max, k, "length")

OneOf(p, k, words) ==
  Blame(~Given(p, k), k, "required")
  \cup Blame(Given(p, k) /\ ~Looks(Field(p, k), words), k, "enum")

\* check_string_max.
AtMost(p, k, max) ==
  Blame(Given(p, k) /\ ~IsText(Field(p, k)), k, "type")
  \cup Blame(Given(p, k) /\ IsText(Field(p, k)) /\ Field(p, k).len > max, k, "length")

\* check_ansible_task_id: a UUID or a run id, of 64 bytes at the most.
TaskId(p) ==
  LET v == Field(p, "task_id")
  IN  Blame(Given(p, "task_id") /\ ~IsText(v), "task_id", "type")
      \cup Blame(Given(p, "task_id") /\ IsText(v) /\ v.len > 64, "task_id", "length")
      \cup Blame(Given(p, "task_id") /\ IsText(v) /\ v.len <= 64
                   /\ ~Looks(v, {"uuid", "run id"}), "task_id", "shape")

\* check_email: local@domain with a dot.
Email(p) ==
  LET v == Field(p, "email")
  IN  Blame(Given(p, "email") /\ ~IsText(v), "email", "type")
      \cup Blame(Given(p, "email") /\ IsText(v) /\ ~Looks(v, {"email"}), "email", "email_shape")

\* check_rfc3339: a timestamp, however far, or a date.
Rfc3339(p, k) ==
  LET v == Field(p, k)
  IN  Blame(Given(p, k) /\ ~IsText(v), k, "type")
      \cup Blame(Given(p, k) /\ IsText(v) /\ ~Looks(v, {"near", "far", "date"}), k, "rfc3339")

UserFact(p) == RequiredText(p, "name", 1, 256) \cup Email(p) \cup Rfc3339(p, "birthdate")

TaskFact(p) ==
  Blame(~Given(p, "task_id"), "task_id", "required") \cup TaskId(p)
  \cup OneOf(p, "status", {"planned", "in_progress", "blocked", "done", "cancelled"})

EnvFact(p) ==
  RequiredText(p, "key", 1, 256)
  \cup Blame(Given(p, "key") /\ IsText(Field(p, "key"))
               /\ ~Looks(Field(p, "key"), {"ENV_KEY"}), "key", "shape")
  \cup Blame(~Given(p, "value"), "value", "required")
  \cup Blame(Given(p, "value") /\ Field(p, "value").size > 16 * 1024, "value", "size")
  \cup TaskId(p)

IsPort(v) == v.is = "number" /\ v.number \in 1..65535
Port(p) == Blame(Given(p, "port") /\ ~IsPort(Field(p, "port")), "port", "numeric_range")

ServiceEvent(p) ==
  RequiredText(p, "service", 1, 128) \cup RequiredText(p, "host", 1, 64)
  \cup OneOf(p, "event", {"up", "down", "restart", "version_changed"})
  \cup AtMost(p, "version", 64) \cup Port(p)

ExecutionEvent(p) ==
  Blame(~Given(p, "task_id"), "task_id", "required") \cup TaskId(p)
  \cup RequiredText(p, "tool", 1, 128)
  \cup OneOf(p, "phase", {"started", "completed", "failed"})
  \cup AtMost(p, "detail", 4096)

\* ValidatorRegistry: the rules registered for a type of fact or a category of event.
PerType(what, p) ==
  CASE what = "UserFact" -> UserFact(p)
    [] what = "TaskFact" -> TaskFact(p)
    [] what = "EnvFact" -> EnvFact(p)
    [] what = "service" -> ServiceEvent(p)
    [] what = "execution" -> ExecutionEvent(p)
    [] OTHER -> {}

\* MUTANT of ValidateWrite: the sanity rules answer first.
ValidateInTurn(what, p) == IF Sanity(p) # {} THEN Sanity(p) ELSE PerType(what, p)

\* validate_write: all that is wrong with a write (a category in lower case).
ValidateWrite(what, p) == Sanity(p) \cup PerType(what, p)
\* The fields the rules name and the types and categories that have rules.
Ruled == TimestampFields \cup
  {"host", "hostname", "name", "email", "birthdate", "task_id", "status", "key", "value",
   "service", "event", "version", "port", "tool", "phase", "detail"}
Types == {"UserFact", "TaskFact", "EnvFact", "service", "execution"}

\* An object with no fields but those of f.
Alone(f) == [q \in {<<>>} \cup {<<k>> : k \in DOMAIN f} |->
               IF q = <<>> THEN [is |-> "object", size |-> 2] ELSE f[q[1]]]

\* A tree: what is above a node is there too.
IsTree(p) ==
  /\ <<>> \in DOMAIN p
  /\ \A q \in DOMAIN p :
       /\ q \in Seq(UNION {Range(r) : r \in DOMAIN p})
       /\ q # <<>> => Front(q) \in DOMAIN p

\* Payloads are trees, and there is a good node for every field a rule may name: one
\* that, alone in an object, it does not name.
ValidationAssumption ==
  /\ \A e \in Writes \cup Again :
       e.kind \in {"fact", "event"} /\ DOMAIN e = {"kind", "what", "payload"} /\ IsTree(e.payload)
  /\ Ruled \subseteq DOMAIN Good
  /\ \A k \in Ruled, what \in Types :
       \A d \in ValidateWrite(what, Alone([j \in {k} |-> Good[j]])) : d.field # <<k>>

-----------------------------------------------------------------------------
(* The gate *)

\* No request is at the gate.
Served == [kind |-> "none"]

GateInit ==
  /\ entry \in Writes /\ complaint = {} /\ rounds = 0
  /\ fact = NoValue /\ proposal = NoValue /\ event = NoValue

\* What the handlers look at before the rules: a category, and a payload that is an object.
Formed(e) == e.what # "" /\ e.payload[<<>>].is = "object"
Malformed(e) == {Detail(<<>>, IF e.what = "" THEN "category" ELSE "object")}

\* The row of an event; that of the fact the requests name, which keeps its type when it
\* is amended under another, or a dissent of it when the fact outranks the writer.
Store ==
  /\ entry' = Served /\ rounds' = 0 /\ UNCHANGED complaint
  /\ \/ /\ entry.kind = "event" /\ event' = [category |-> entry.what, payload |-> entry.payload]
        /\ UNCHANGED <<fact, proposal>>
     \/ /\ entry.kind = "fact"
        /\ fact' = [type |-> IF fact = NoValue THEN entry.what ELSE fact.type, payload |-> entry.payload]
        /\ UNCHANGED <<proposal, event>>
     \/ /\ entry.kind = "fact" /\ fact # NoValue /\ proposal' = entry.payload
        /\ UNCHANGED <<fact, event>>

Refuse(details) == complaint' = details /\ UNCHANGED <<entry, rounds, fact, proposal, event>>

\* A 400 for what is not formed, a 422 with all the details, or on to the store.
Judge ==
  /\ complaint = {}
  /\ \/ ~Formed(entry) /\ Refuse(Malformed(entry))
     \/ /\ Formed(entry)
        /\ LET details == ValidateWrite(entry.what, entry.payload)
           IN  IF details = {} THEN Store ELSE Refuse(details)

\* POST /memory/facts and memory_add.
UpsertGate == entry.kind = "fact" /\ Judge

\* POST /memory/events.
AppendGate == entry.kind = "event" /\ Judge

\* memory_append_event runs none of the rules.
AppendTool == entry.kind = "event" /\ complaint = {} /\ Formed(entry) /\ Store

\* dissent_propose wants an object and no more; promote_dissent writes it over the fact.
Propose(p) ==
  /\ fact # NoValue /\ p[<<>>].is = "object" /\ proposal' = p
  /\ UNCHANGED <<entry, complaint, rounds, fact, event>>
Promote ==
  /\ proposal # NoValue /\ proposal' = NoValue /\ fact' = [fact EXCEPT !.payload = proposal]
  /\ UNCHANGED <<entry, complaint, rounds, event>>

\* The fields a refusal names, each with a node that is allowed there in place of all
\* it held.
Mended(p, named) ==
  [q \in {q \in DOMAIN p \cup named : ~\E r \in named : IsStrictPrefix(r, q)} |->
     IF q \in named THEN Good[Last(q)] ELSE p[q]]

\* The client puts right what it was told; one whose payload was no object begins with {}.
PutRight ==
  /\ complaint # {} /\ complaint' = {}
  /\ IF Formed(entry)
     THEN /\ entry' = [entry EXCEPT !.payload = Mended(@, {d.field : d \in complaint})]
          /\ rounds' = rounds + 1
     ELSE /\ entry' = IF entry.what = "" THEN [entry EXCEPT !.what = "other"]
                      ELSE [entry EXCEPT !.payload = Alone(<<>>)]
          /\ UNCHANGED rounds
  /\ UNCHANGED <<fact, proposal, event>>

Another ==
  /\ entry.kind = "none" /\ entry' \in Again
  /\ UNCHANGED <<complaint, rounds, fact, proposal, event>>

GateNext ==
  \/ UpsertGate \/ AppendGate \/ AppendTool \/ PutRight \/ Another
  \/ (\E p \in Proposals : Propose(p)) \/ Promote

GateSpec == GateInit /\ [][GateNext]_gateVars

\* A 422 names all that is wrong: a client that puts right what it names, wherever in the
\* payload, is not refused a second time (validate_write and the rules under it).
OneRoundIsEnough == rounds > 0 => ValidateWrite(entry.what, entry.payload) = {}

\* Sprint 002 FR-001, FR-004: what is stored has passed the rules of its type or category.
StoredIsValid ==
  /\ fact # NoValue => ValidateWrite(fact.type, fact.payload) = {}
  /\ event # NoValue => ValidateWrite(event.category, event.payload) = {}
=============================================================================
