------------------------------ MODULE MCServer ------------------------------
(* Instances of Server for TLC. *)
EXTENDS Server

CONSTANTS Histories   \* the longest translated conversation

\* Limits from none to one beyond the largest, and tools of every kind.
Asks  == {None, 0, MaxU32, MaxU32 + 1}
Tool(type, name) == [type |-> type, name |-> name, schema |-> "schema"]
ToolLists == {<<>>, <<Tool("function", "f")>>,
          <<Tool("web_search", "w"), Tool("function", "f"), Tool("function", "g")>>}
StopParams == {None, [k |-> "one", text |-> "stop"], [k |-> "many", texts |-> <<"stop", "end">>]}

\* A conversation of the chat surface is what the template takes.
ChatBodies ==
  {[messages |-> m, max_completion_tokens |-> c, max_tokens |-> o, stop |-> p, tools |-> t] :
     m \in {<<>>, <<TextMessage("user", <<"hi">>)>>}, c \in Asks, o \in Asks, p \in StopParams,
     t \in ToolLists}

Text(w)        == [type |-> "text", text |-> <<w>>]
ToolUse(id)    == [type |-> "tool_use", id |-> id]
Outcome(id, w) == [type |-> "tool_result", id |-> id, content |-> JsonString(<<w>>)]
Image          == [type |-> "image"]

AnthropicTurns ==
  {[role |-> "user", content |-> c] : c \in
     {JsonString(<<"a">>), JsonArray(<<>>), JsonArray(<<Text("b"), Image, Text("c")>>),
      JsonArray(<<Outcome("c0", "r")>>),
      JsonArray(<<Text("d"), Outcome("c0", "r"), Outcome("c1", "s")>>)}}
  \cup
  {[role |-> "assistant", content |-> c] : c \in
     {JsonString(<<"e">>), JsonArray(<<ToolUse("c0")>>),
      JsonArray(<<[type |-> "thinking"], Text("f"), ToolUse("c0"), ToolUse("c1")>>)}}

\* Either the conversation or the rest of the request is varied.
AnthropicBody(s, m, o, p, t) ==
  [system |-> s, messages |-> m, max_tokens |-> o, stop_sequences |-> p, tools |-> t]

AnthropicBodies ==
  {AnthropicBody(s, m, None, None, <<>>) :
     s \in {JsonNull, JsonString(<<"y">>)}, m \in SeqOf(AnthropicTurns, Histories)}
  \cup
  {AnthropicBody(JsonNull, <<[role |-> "user", content |-> JsonString(<<"a">>)]>>, o, p, t) :
     o \in Asks, p \in {q \in StopParams : q = None \/ q.k = "many"},
     t \in ToolLists \cup {<<Tool(None, "f"), Tool("web_search", "w")>>}}

ResponsesItems ==
  {[type |-> "text", text |-> <<"a">>],
   [type |-> "message", role |-> "assistant", content |-> JsonString(<<"b">>)],
   [type |-> "message", role |-> "developer",
    content |-> JsonArray(<<[type |-> "input_text", text |-> <<"d">>]>>)],
   [type |-> "reasoning"]}
  \cup {[type |-> "function_call", id |-> c] : c \in {"c0", "c1"}}
  \cup {[type |-> "function_call_output", id |-> c, output |-> JsonString(<<"r">>)] :
          c \in {"c0", "c1"}}

ResponsesBody(s, i, m, o, t) ==
  [instructions |-> s, input |-> i, max_output_tokens |-> m, max_tokens |-> o, tools |-> t]

ResponsesBodies ==
  {ResponsesBody(<<>>, i, None, None, <<>>) : i \in {JsonNull, JsonString(<<>>)}}
  \cup
  {ResponsesBody(<<"y">>, JsonArray(b), None, None, <<>>) :
     b \in SeqOf(ResponsesItems, Histories + 1)}
  \cup
  {ResponsesBody(<<"y">>, JsonString(<<"a">>), m, o, t) :
     m \in Asks, o \in Asks,
     t \in ToolLists \cup {<<Tool("function", None), Tool("function", "f")>>}}

MCBodies == [chat |-> ChatBodies, anthropic |-> AnthropicBodies, responses |-> ResponsesBodies]
=============================================================================
