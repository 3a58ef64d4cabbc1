------------------------------ MODULE Embedding ------------------------------
(***************************************************************************)
(* A text on its way to a vector: the size gate of the write handlers and   *)
(* the embedding client behind it.  The REST route answers 202 and leaves    *)
(* the text to a worker; the MCP tools embed while their caller waits.  The  *)
(* backend counts the tokens for the gate if it is there and can, refuses    *)
(* what is too large for its model, and fails as servers do.                 *)
(***************************************************************************)
EXTENDS Naturals, FiniteSets

CONSTANTS Texts,        \* by size: tokens, the model's; estimate, estimate_tokens; words, and the
                        \* special tokens, a lower bound
          MaxTokens,    \* max_input_tokens
          ModelLimits,  \* what the model behind the URL may really take
          Attempts,     \* MAX_RETRIES (3)
          MaxSends      \* bound: resubmissions by callers

EmbeddingAssumption ==
  /\ Texts \subseteq [tokens : Nat, estimate : Nat, words : Nat]
  /\ \A t \in Texts : t.words <= t.tokens
  /\ MaxTokens \in Nat \ {0} /\ Attempts \in Nat \ {0}

VARIABLES text,    \* what is to be embedded
          write,   \* the write it comes with
          model,   \* the limit of the model served
          sends    \* resubmissions so far

embedVars == <<text, write, model, sends>>
Resting == [pc |-> "rest", route |-> "rest", measured |-> "no", left |-> 0, answer |-> "none", heard |-> FALSE]

TooLarge == text.tokens > model
Now(pc) == [write EXCEPT !.pc = pc]
\* The caller of a tool hears the answer; the worker drops the job and counts it.
Failed(answer) == [Now(IF write.route = "mcp" THEN "told" ELSE "dropped") EXCEPT !.answer = answer]

Submit(route) ==
  /\ write.pc = "rest"
  /\ write' = [Resting EXCEPT !.pc = "gate", !.route = route]
  /\ UNCHANGED <<text, model, sends>>

\* check_embed_size with a count: over the limit, PAYLOAD_TOO_LARGE; else the REST route
\* accepts, and a tool goes on to the embed.
Admit(how, count) ==
  IF count > MaxTokens
  THEN write' = [Now("told") EXCEPT !.measured = how, !.answer = "too_large"]
  ELSE write' = [Now("embed") EXCEPT !.measured = how, !.left = Attempts]

\* MUTANT of Gate: the estimate stands for the count.
GateEstimates ==
  /\ write.pc = "gate"
  /\ Admit("exact", text.estimate)
  /\ UNCHANGED <<text, model, sends>>

\* No count at all: a REST write fails, a tool's goes on unmeasured.
Unmeasured ==
  write' = (IF write.route = "rest" THEN [Now("told") EXCEPT !.answer = "error"]
          ELSE [Now("embed") EXCEPT !.left = Attempts])

\* count_tokens: exact when /tokenize answers; the estimate when it does not, or not with a
\* 2xx, or the API has none; an answer nobody can read is no count.
Gate ==
  /\ write.pc = "gate"
  /\ \/ Admit("exact", text.tokens)
     \/ Admit("estimate", text.estimate)
     \/ Unmeasured
  /\ UNCHANGED <<text, model, sends>>

\* MUTANT of Exceeds: the estimate refuses for good.
ExceedsByEstimate == text.estimate > MaxTokens

\* EmbedLimit::certainly_exceeds.
Exceeds == text.words > MaxTokens

\* preflight, before the first attempt.
Preflight ==
  /\ write.pc = "embed" /\ write.left = Attempts /\ Exceeds
  /\ write' = Failed("too_large")
  /\ UNCHANGED <<text, model, sends>>

Sendable == write.pc = "embed" /\ ~(write.left = Attempts /\ Exceeds)
Used == [write EXCEPT !.left = @ - 1]

\* MUTANT of Refused: every answer but a 2xx is worth another attempt.
RefusedTransient ==
  /\ Sendable /\ TooLarge
  /\ write' = (IF write.left = 1 THEN Failed("transient") ELSE [Used EXCEPT !.heard = TRUE])
  /\ UNCHANGED <<text, model, sends>>

\* classify: a 413, or TEI 1.9's 422, is permanent.
Refused ==
  /\ Sendable /\ TooLarge
  /\ write' = [Failed("too_large") EXCEPT !.heard = TRUE]
  /\ UNCHANGED <<text, model, sends>>

Embedded ==
  /\ Sendable /\ ~TooLarge
  /\ write' = [Now("stored") EXCEPT !.answer = "ok"]
  /\ UNCHANGED <<text, model, sends>>

\* Another 4xx, or a 2xx that does not parse or has the wrong dimension: permanent, whatever
\* the text; 429 is one of the former.
Rejected ==
  /\ Sendable
  /\ write' = Failed("rejected")
  /\ UNCHANGED <<text, model, sends>>

\* A 5xx or a failed send, tried again while attempts are left; a body that breaks off is
\* reported as transient without another attempt.
Unwell ==
  /\ Sendable
  /\ \/ write.left > 1 /\ write' = Used
     \/ write' = Failed("transient")
  /\ UNCHANGED <<text, model, sends>>

\* The caller sends it again: a tool's caller after a transient error, the scanner after any
\* but too_large, which it skips; a text that was dropped after a 202 is sent by nobody.
Resubmit ==
  /\ write.pc = "told" /\ sends < MaxSends
  /\ write.answer = IF write.route = "mcp" THEN "transient" ELSE "error"
  /\ write' = [Resting EXCEPT !.pc = "gate", !.route = write.route]
  /\ sends' = sends + 1
  /\ UNCHANGED <<text, model>>

EmbedInit == text \in Texts /\ write = Resting /\ model \in ModelLimits /\ sends = 0
EmbedNext ==
  \/ \E route \in {"rest", "mcp"} : Submit(route)
  \/ Gate \/ Preflight \/ Refused \/ Embedded \/ Rejected \/ Unwell \/ Resubmit
EmbedSpec == EmbedInit /\ [][EmbedNext]_embedVars

\* With the limit that is configured served, a text that was accepted and then dropped for
\* its size had been measured by the estimate only (check_embed_size, index).
DroppedUnmeasured ==
  model = MaxTokens /\ write.pc = "dropped" /\ write.answer = "too_large" => write.measured = "estimate"

\* Who is told that a text is too large can believe it, unless it was only estimated; who
\* is told to try again has not been refused for the size (preflight, classify).
AnswersHonest ==
  /\ write.answer = "too_large" => TooLarge \/ text.tokens > MaxTokens \/ write.measured = "estimate"
  /\ write.answer = "transient" => ~write.heard

\* What the index handler says: a text the model will refuse is refused before the 202, and
\* an unreachable tokenizer fails the write.
AcceptedFits == model = MaxTokens => ~(write.pc = "dropped" /\ write.answer = "too_large")
===============================================================================
