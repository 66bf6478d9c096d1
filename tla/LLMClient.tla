------------------------------ MODULE LLMClient ------------------------------
(***************************************************************************)
(* What a structured call to a language model comes to, given what the     *)
(* provider answers (services/llm/openai_compatible.py).                   *)
(***************************************************************************)
EXTENDS Naturals

\* The text of a message: nothing, prose, JSON that is cut off, that is not an
\* object, that does not match the schema, or that does.
Contents == {"none", "prose", "cut_off", "array", "mismatch", "match"}

\* Content that starts with a brace.
Braced == {"cut_off", "mismatch", "match"}

Answer(status, json, choices, content, reasoning) ==
  [transport |-> "ok", status |-> status, json |-> json, choices |-> choices,
   content |-> content, reasoning |-> reasoning]
Broken(how) == [Answer(0, FALSE, FALSE, "none", "none") EXCEPT !.transport = how]

\* What may come back: no connection, no answer in time, a connection that breaks
\* off, an error status, a page that is not JSON, no choices, or a message.
Replies ==
  {Broken(how) : how \in {"connect", "timeout", "reset"}} \cup
  {Answer(500, FALSE, FALSE, "none", "none"), Answer(200, FALSE, FALSE, "none", "none"),
   Answer(200, TRUE, FALSE, "none", "none")} \cup
  {Answer(200, TRUE, TRUE, c, d) : c \in Contents, d \in Contents}

\* _extract_message_content: the content, or else a reasoning field that looks
\* like an object.
Extracted(reply) ==
  IF reply.content # "none" THEN reply.content
  ELSE IF reply.reasoning \in Braced THEN reply.reasoning ELSE "none"

\* generate_structured: "ok", or the exception that leaves it.  Errors of the
\* transport other than the two named, and a body that is not JSON, are not LLMErrors.
generate_structured(reply) ==
  CASE reply.transport \in {"connect", "timeout"} -> "LLMError"
    [] reply.transport = "reset"                  -> "HTTPError"
    [] reply.transport = "ok" /\ reply.status >= 400 -> "LLMError"
    [] reply.transport = "ok" /\ reply.status < 400 /\ ~reply.json -> "ValueError"
    [] OTHER -> IF reply.choices /\ Extracted(reply) = "match"
                THEN "ok" ELSE "LLMError"

Outcomes == {"ok", "LLMError", "HTTPError", "ValueError"}
=============================================================================
