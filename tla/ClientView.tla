----------------------------- MODULE ClientView -----------------------------
(***************************************************************************)
(* What a client makes of the events of a stream, on each of the three     *)
(* surfaces: a reader that knows the protocol, puts the parts together and *)
(* notes the first event that breaks the protocol. Its view of the answer  *)
(* has the shape of EmissionSource: texts between calls, and calls.        *)
(***************************************************************************)
EXTENDS Integers, SequencesExt

\* parts: what was announced so far; ended: how the stream said it ended.
NewView == [ok |-> TRUE, started |-> FALSE, parts |-> <<>>, ended |-> "no",
            tokens |-> 0, seq |-> 0, last |-> FALSE]

Part(type) == [type |-> type, body |-> <<>>, open |-> TRUE]

Has(view, i, type) == /\ i + 1 \in DOMAIN view.parts
                      /\ view.parts[i + 1].type = type
                      /\ view.parts[i + 1].open

Broken(view) == [view EXCEPT !.ok = FALSE]

Check(view, rule, next) == IF rule THEN next ELSE Broken(view)

Fill(view, i, value) == [view EXCEPT !.parts[i + 1].body = @ \o value]
Shut(view, i)        == [view EXCEPT !.parts[i + 1].open = FALSE]

AllShut(view) == \A i \in DOMAIN view.parts : ~ view.parts[i].open

Ending(view, how, tokens) == [view EXCEPT !.ended = how, !.tokens = tokens]

-----------------------------------------------------------------------------
(* /v1/chat/completions: text and calls are told apart by their kind; the  *)
(* stream is over at [DONE], which follows the chunk with the reason.      *)

TextEnd(view) == view.parts # <<>> /\ Last(view.parts).type = "text"

ChatDelta(view, delta) ==
  CASE delta.t = "role" -> Check(view, ~ view.started, [view EXCEPT !.started = TRUE])
    [] delta.t = "content" ->
         LET v == IF TextEnd(view) THEN view
                  ELSE [view EXCEPT !.parts = Append(@, Part("text"))]
         IN  Check(view, view.started, Fill(v, Len(v.parts) - 1, delta.value))
    [] delta.t = "call" ->
         Check(view, view.started /\ delta.index =
                       Len(SelectSeq(view.parts, LAMBDA p : p.type = "call")),
               [view EXCEPT !.parts = Append(@, Part("call"))])
    [] delta.t = "args" ->
         Check(view, view.parts # <<>> /\ Last(view.parts).type = "call"
                     /\ delta.index = Len(SelectSeq(view.parts, LAMBDA p : p.type = "call")) - 1,
               Fill(view, Len(view.parts) - 1, delta.value))
    [] OTHER -> view

ChatSees(view, e) ==
  CASE ~ view.ok -> view
    [] e.ev = "[DONE]" -> Check(view, view.ended # "no" /\ ~ view.last, [view EXCEPT !.last = TRUE])
    [] e.ev = "error" -> Check(view, view.ended = "no", Ending(view, "error", 0))
    [] e.ev = "chunk" ->
         Check(view, view.ended = "no",
           IF e.finish.reason # "none" THEN Ending(view, e.finish.reason, e.finish.tokens)
           ELSE ChatDelta(view, e.delta))

-----------------------------------------------------------------------------
(* /v1/messages: numbered blocks, each started, filled and stopped; the    *)
(* message is complete when every block is.                                *)

AnthropicSees(view, e) ==
  CASE ~ view.ok -> view
    [] view.last -> Broken(view)
    [] e.ev = "message_start" -> Check(view, ~ view.started, [view EXCEPT !.started = TRUE])
    [] e.ev = "error" -> [Ending(view, "error", 0) EXCEPT !.last = TRUE]
    [] e.ev = "block_start" ->
         Check(view, view.started /\ view.ended = "no" /\ e.index = Len(view.parts),
           [view EXCEPT !.parts =
              Append(@, Part(IF e.type = "tool_use" THEN "call" ELSE "text"))])
    [] e.ev = "block_delta" ->
         Check(view, Has(view, e.index, "text") \/ Has(view, e.index, "call"),
               Fill(view, e.index, e.value))
    [] e.ev = "block_stop" ->
         Check(view, Has(view, e.index, "text") \/ Has(view, e.index, "call"), Shut(view, e.index))
    [] e.ev = "message_delta" ->
         Check(view, view.started /\ AllShut(view), Ending(view, e.reason, e.tokens))
    [] e.ev = "message_stop" ->
         Check(view, view.ended # "no", [view EXCEPT !.last = TRUE])

-----------------------------------------------------------------------------
(* /v1/responses: numbered events about items, each added, filled, done;   *)
(* the last event repeats every item.                                      *)

\* What the items are by the deltas; an answer without any is an empty text.
Whole(view) ==
  IF view.parts = <<>> THEN <<[type |-> "message", body |-> <<>>]>>
  ELSE [i \in DOMAIN view.parts |->
         [type |-> IF view.parts[i].type = "call" THEN "function_call" ELSE "message",
          body |-> view.parts[i].body]]

Agrees(view, e) == e.index + 1 \in DOMAIN view.parts /\ view.parts[e.index + 1].body = e.value

ItemSees(view, e) ==
  CASE e.ev = "created" -> Check(view, ~ view.started, [view EXCEPT !.started = TRUE])
    [] e.ev = "in_progress" -> Check(view, view.started, view)
    [] e.ev = "item.added" ->
         Check(view, view.started /\ e.index = Len(view.parts),
           [view EXCEPT !.parts =
              Append(@, Part(IF e.value = <<"function_call">> THEN "call" ELSE "text"))])
    [] e.ev = "part.added" -> Check(view, Has(view, e.index, "text"), view)
    [] e.ev = "text.delta" ->
         Check(view, Has(view, e.index, "text"), Fill(view, e.index, e.value))
    [] e.ev = "args.delta" ->
         Check(view, Has(view, e.index, "call"), Fill(view, e.index, e.value))
    [] e.ev \in {"text.done", "part.done"} ->
         Check(view, Has(view, e.index, "text") /\ Agrees(view, e), view)
    [] e.ev = "args.done" -> Check(view, Has(view, e.index, "call") /\ Agrees(view, e), view)
    [] e.ev = "item.done" ->
         Check(view, (Has(view, e.index, "text") \/ Has(view, e.index, "call")) /\ Agrees(view, e),
               Shut(view, e.index))
    [] e.ev = "error" -> [Ending(view, "error", 0) EXCEPT !.last = TRUE]
    [] e.ev \in {"completed", "incomplete"} ->
         Check(view, view.started /\ AllShut(view) /\ e.items = Whole(view),
               [Ending(view, e.ev, e.tokens) EXCEPT !.last = TRUE])

ResponsesSees(view, e) ==
  IF ~ view.ok THEN view
  ELSE Check(view, ~ view.last /\ e.seq = view.seq, [ItemSees(view, e) EXCEPT !.seq = @ + 1])

-----------------------------------------------------------------------------
(* The answer as a listener of the emissions would have it. *)

CallParts(view) == SelectSeq(view.parts, LAMBDA p : p.type = "call")

CallBodies(view) == [i \in DOMAIN CallParts(view) |-> CallParts(view)[i].body]

\* The text between two calls.
JoinTexts(texts, part) ==
  IF part.type = "call" THEN Append(texts, <<>>)
  ELSE [texts EXCEPT ![Len(texts)] = @ \o part.body]

TextsBetween(view) == FoldLeft(JoinTexts, <<<<>>>>, view.parts)
=============================================================================
