---------------------------- MODULE ChatMessages ----------------------------
(***************************************************************************)
(* The messages that the chat template takes, into which every endpoint    *)
(* translates its requests. Texts are sequences of words; a JSON value is  *)
(* a record whose field k says what it is.                                 *)
(***************************************************************************)
EXTENDS Integers, Sequences, SequencesExt

JsonString(text)  == [k |-> "string", text |-> text]
JsonArray(blocks) == [k |-> "array", blocks |-> blocks]
JsonNull          == [k |-> "null"]

\* The fields of a message: its content may be a text, null or missing.
ChatMessage(role, content, calls, id) ==
  [role |-> role, content |-> content, calls |-> calls, id |-> id]

Missing == [k |-> "missing"]

TextMessage(role, text) == ChatMessage(role, JsonString(text), <<>>, "none")
ToolMessage(id, text)   == ChatMessage("tool", JsonString(text), <<>>, id)

\* The blocks of the types given, in order.
BlocksOf(blocks, types) == SelectSeq(blocks, LAMBDA b : b.type \in types)

Blocks(content) == IF content.k = "array" THEN content.blocks ELSE <<>>

Texts(content, types) ==
  IF content.k = "string" THEN <<content.text>>
  ELSE LET of == BlocksOf(Blocks(content), types) IN [i \in DOMAIN of |-> of[i].text]

JoinWith(texts, sep) ==
  IF texts = <<>> THEN <<>>
  ELSE FoldLeft(LAMBDA joined, text : joined \o sep \o text, Head(texts), Tail(texts))

-----------------------------------------------------------------------------
(* The way to a prompt. *)

\* A message can be read only when it has content, be it null.
Readable(message) == message.content.k # "missing"

\* The template refuses an empty conversation.
Renders(messages) == messages # <<>>

\* What building the prompt can come to: a message that cannot be read or a
\* template that cannot be rendered is an error; the tokenizer may fail, and
\* a prompt may have no tokens.
PromptIds(messages) ==
  IF \A i \in DOMAIN messages : Readable(messages[i])
  THEN IF Renders(messages) THEN {"tokens", "nothing", "error"} ELSE {"error"}
  ELSE {"error"}
=============================================================================
