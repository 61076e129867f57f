-------------------------- MODULE ResponsesRequest --------------------------
(***************************************************************************)
(* How a request of /v1/responses becomes chat messages.                   *)
(***************************************************************************)
EXTENDS ChatMessages

ContentText(content) ==
  JoinWith(Texts(content, {"input_text", "output_text", "text"}), <<>>)

ItemRole(role) ==
  CASE role = "assistant"               -> "assistant"
    [] role \in {"system", "developer"} -> "system"
    [] OTHER                            -> "user"

\* Mutant: every call gets a message of its own.
PushEachCall(messages, id) ==
  Append(messages, ChatMessage("assistant", Missing, <<id>>, "none"))

\* A call joins the message of the calls right before it.
PushToolCall(messages, id) ==
  IF messages # <<>> /\ Last(messages).role = "assistant" /\ Last(messages).calls # <<>>
  THEN [messages EXCEPT ![Len(messages)].calls = Append(@, id)]
  ELSE Append(messages, ChatMessage("assistant", Missing, <<id>>, "none"))

UserText(text) == IF text = <<>> THEN <<>> ELSE <<TextMessage("user", text)>>

\* One element of the input; what is unknown is dropped.
AppendInputItem(messages, item) ==
  CASE item.type = "text"    -> messages \o UserText(item.text)
    [] item.type = "message" ->
         Append(messages, TextMessage(ItemRole(item.role), ContentText(item.content)))
    [] item.type = "function_call" -> PushToolCall(messages, item.id)
    [] item.type = "function_call_output" ->
         Append(messages, ToolMessage(item.id, ContentText(item.output)))
    [] OTHER -> messages

InputToMessages(body) ==
  LET lead == IF body.instructions = <<>> THEN <<>>
              ELSE <<TextMessage("system", body.instructions)>>
  IN  CASE body.input.k = "string" -> lead \o UserText(body.input.text)
        [] body.input.k = "array"  -> FoldLeft(AppendInputItem, lead, body.input.blocks)
        [] OTHER                   -> lead
=============================================================================
