-------------------------- MODULE AnthropicRequest --------------------------
(***************************************************************************)
(* How a request of /v1/messages becomes chat messages.                    *)
(***************************************************************************)
EXTENDS ChatMessages

Newline == <<"nl">>

BlocksText(content) == JoinWith(Texts(content, {"text"}), Newline)

SystemMessage(system) ==
  IF BlocksText(system) = <<>> THEN <<>> ELSE <<TextMessage("system", BlocksText(system))>>

\* Mutant: a turn with results loses its text.
ConvertResultsOnly(msg) ==
  LET blocks  == BlocksOf(Blocks(msg.content), {"tool_result"})
      results == [i \in DOMAIN blocks |-> ToolMessage(blocks[i].id, BlocksText(blocks[i].content))]
  IN  IF results # <<>> THEN results
      ELSE <<TextMessage(msg.role, JoinWith(Texts(msg.content, {"text"}), Newline))>>

\* The results of tools come before the text of their turn. A turn that is
\* nothing but results adds no user message; any other turn is kept.
ConvertUserMessage(msg) ==
  LET blocks  == BlocksOf(Blocks(msg.content), {"tool_result"})
      results == [i \in DOMAIN blocks |-> ToolMessage(blocks[i].id, BlocksText(blocks[i].content))]
      text    == JoinWith(Texts(msg.content, {"text"}), Newline)
  IN  results \o IF text # <<>> \/ results = <<>> THEN <<TextMessage(msg.role, text)>> ELSE <<>>

\* All calls of the turn in one message; without text its content is null.
ConvertAssistantMessage(msg) ==
  LET uses  == BlocksOf(Blocks(msg.content), {"tool_use"})
      calls == [i \in DOMAIN uses |-> uses[i].id]
      texts == Texts(msg.content, {"text"})
  IN  <<ChatMessage("assistant",
          IF texts = <<>> /\ calls # <<>> THEN JsonNull ELSE JsonString(JoinWith(texts, Newline)),
          calls, "none")>>

ConvertMessages(messages) ==
  FlattenSeq([i \in DOMAIN messages |->
    IF messages[i].role = "assistant" THEN ConvertAssistantMessage(messages[i])
                                      ELSE ConvertUserMessage(messages[i])])

\* The system prompt leads.
AnthropicMessages(body) == SystemMessage(body.system) \o ConvertMessages(body.messages)
=============================================================================
