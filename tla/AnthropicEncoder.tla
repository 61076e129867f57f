-------------------------- MODULE AnthropicEncoder --------------------------
(***************************************************************************)
(* The frames of /v1/messages: content blocks with numbers of their own. A *)
(* text block is open from its first delta to the next tool block; a tool  *)
(* block stays open to the end. All the events of an emission travel as    *)
(* one frame.                                                              *)
(***************************************************************************)
EXTENDS Integers, Sequences, FiniteSets

NoBlock == -1

NewAnthropic ==
  [text    |-> NoBlock,   \* the open text block
   next    |-> 0,         \* the next block
   tools   |-> <<>>,      \* call -> block, a function on the calls seen
   sawTool |-> FALSE,
   done    |-> FALSE]

BlockStart(i, type)  == [ev |-> "block_start", index |-> i, type |-> type]
BlockDelta(i, value) == [ev |-> "block_delta", index |-> i, value |-> value]
BlockStop(i)         == [ev |-> "block_stop", index |-> i]
MessageDelta(reason, tokens) == [ev |-> "message_delta", reason |-> reason, tokens |-> tokens]

TextBlock(enc)  == IF enc.text = NoBlock THEN {} ELSE {enc.text}
ToolBlocks(enc) == {enc.tools[c] : c \in DOMAIN enc.tools}

StopReason(sawTool, reason) ==
  CASE sawTool           -> "tool_use"
    [] reason = "length" -> "max_tokens"
    [] OTHER             -> "end_turn"

\* Blocks are stopped in the order of their numbers.
Stops(blocks) ==
  LET nth(i) == CHOOSE b \in blocks : Cardinality({c \in blocks : c < b}) = i - 1
  IN  [i \in 1 .. Cardinality(blocks) |-> BlockStop(nth(i))]

\* Mutant: an empty delta is not worth a frame.
ContentSkipsEmpty(enc, value) ==
  IF value = <<>> THEN [enc |-> enc, out |-> <<>>]
  ELSE IF enc.text # NoBlock
  THEN [enc |-> enc, out |-> <<BlockDelta(enc.text, value)>>]
  ELSE [enc |-> [enc EXCEPT !.text = enc.next, !.next = @ + 1],
        out |-> <<BlockStart(enc.next, "text"), BlockDelta(enc.next, value)>>]

RenderContent(enc, value) ==
  IF enc.text # NoBlock
  THEN [enc |-> enc, out |-> <<BlockDelta(enc.text, value)>>]
  ELSE [enc |-> [enc EXCEPT !.text = enc.next, !.next = @ + 1],
        out |-> <<BlockStart(enc.next, "text"), BlockDelta(enc.next, value)>>]

\* The call has the next block.
WithBlock(enc, call) ==
  [c \in DOMAIN enc.tools \cup {call} |-> IF c = call THEN enc.next ELSE enc.tools[c]]

\* Mutant: text behind a call goes to the block before it.
ToolStartKeepsText(enc, call) ==
  [enc |-> [enc EXCEPT !.next = @ + 1, !.sawTool = TRUE, !.tools = WithBlock(enc, call)],
   out |-> <<BlockStart(enc.next, "tool_use")>>]

RenderToolStart(enc, call) ==
  [enc |-> [enc EXCEPT !.text = NoBlock, !.next = @ + 1, !.sawTool = TRUE,
                       !.tools = WithBlock(enc, call)],
   out |-> IF enc.text = NoBlock THEN <<BlockStart(enc.next, "tool_use")>>
           ELSE <<BlockStop(enc.text), BlockStart(enc.next, "tool_use")>>]

\* Arguments of a call without a block are dropped.
RenderToolArgs(enc, call, value) ==
  [enc |-> enc,
   out |-> IF call \in DOMAIN enc.tools THEN <<BlockDelta(enc.tools[call], value)>> ELSE <<>>]

RenderFinal(enc, reason, tokens) ==
  [enc |-> [enc EXCEPT !.text = NoBlock, !.done = TRUE],
   out |-> Stops(TextBlock(enc) \cup ToolBlocks(enc))
           \o <<MessageDelta(StopReason(enc.sawTool, reason), tokens),
                [ev |-> "message_stop"]>>]

\* The events of an emission; none after the last one.
AnthropicRender(enc, em) ==
  CASE enc.done          -> [enc |-> enc, out |-> <<>>]
    [] em.k = "role"     -> [enc |-> enc, out |-> <<[ev |-> "message_start"]>>]
    [] em.k = "content"  -> RenderContent(enc, em.value)
    [] em.k = "start"    -> RenderToolStart(enc, em.index)
    [] em.k = "args"     -> RenderToolArgs(enc, em.index, em.value)
    [] em.k = "final"    -> RenderFinal(enc, em.reason, em.tokens)
    [] em.k = "error"    -> [enc |-> [enc EXCEPT !.done = TRUE], out |-> <<[ev |-> "error"]>>]
=============================================================================
