-------------------------- MODULE ResponsesEncoder --------------------------
(***************************************************************************)
(* The frames of /v1/responses: output items, each announced, filled by    *)
(* deltas and closed, under one sequence of event numbers; the last event  *)
(* carries every item whole. Item identifiers are left out: an item is     *)
(* known by its output index.                                              *)
(***************************************************************************)
EXTENDS Integers, Sequences, FiniteSets, SequencesExt

NewResponses ==
  [seq   |-> 0,      \* the number of the next event
   items |-> <<>>,   \* in output order
   next  |-> 0]      \* the next output index

Message(index) ==
  [type |-> "message", call |-> -1, index |-> index, body |-> <<>>, closed |-> FALSE]
FunctionCall(call, index) ==
  [type |-> "function_call", call |-> call, index |-> index, body |-> <<>>, closed |-> FALSE]

Event(type, index, value) == [ev |-> type, index |-> index, value |-> value, seq |-> 0]

\* The events leave with their numbers.
Sending(enc, events) ==
  [enc |-> [enc EXCEPT !.seq = @ + Len(events)],
   out |-> [i \in DOMAIN events |-> [events[i] EXCEPT !.seq = enc.seq + i - 1]]]

OpenItems(items, type) == {i \in DOMAIN items : items[i].type = type /\ ~ items[i].closed}

Closed(items, which) ==
  [i \in DOMAIN items |-> IF i \in which THEN [items[i] EXCEPT !.closed = TRUE] ELSE items[i]]

\* What an item's end looks like.
MessageDone(item) ==
  <<Event("text.done", item.index, item.body), Event("part.done", item.index, item.body),
    Event("item.done", item.index, item.body)>>
CallDone(item) ==
  <<Event("args.done", item.index, item.body), Event("item.done", item.index, item.body)>>

\* The last open message is closed before anything that is not text.
OpenMessage(items) ==
  LET open == OpenItems(items, "message") IN IF open = {} THEN {} ELSE {Max(open)}

CloseOpenMessage(items) ==
  [items |-> Closed(items, OpenMessage(items)),
   out   |-> IF OpenMessage(items) = {} THEN <<>>
             ELSE MessageDone(items[Max(OpenMessage(items))])]

\* Every open call in its order, each with two events.
CloseOpenTools(items) ==
  LET open   == OpenItems(items, "function_call")
      nth(i) == CHOOSE p \in open : Cardinality({q \in open : q < p}) = i - 1
  IN  [items |-> Closed(items, open),
       out   |-> [k \in 1 .. 2 * Cardinality(open) |->
                    CallDone(items[nth((k + 1) \div 2)])[2 - (k % 2)]]]

\* Text opens a message when none is open.
ItemContent(enc, value) ==
  LET fresh  == OpenMessage(enc.items) = {}
      opened == IF fresh
                THEN [enc EXCEPT !.items = Append(@, Message(enc.next)), !.next = @ + 1]
                ELSE enc
      pos    == Max(OpenMessage(opened.items))
      index  == opened.items[pos].index
  IN  IF value = <<>> THEN [enc |-> enc, out |-> <<>>]
      ELSE Sending([opened EXCEPT !.items[pos].body = @ \o value],
                   Append(IF fresh THEN <<Event("item.added", index, <<"message">>),
                                          Event("part.added", index, <<>>)>> ELSE <<>>,
                          Event("text.delta", index, value)))

ItemToolStart(enc, call) ==
  LET before == CloseOpenMessage(enc.items)
  IN  Sending([enc EXCEPT !.items = Append(before.items, FunctionCall(call, enc.next)),
                          !.next = @ + 1],
              Append(before.out, Event("item.added", enc.next, <<"function_call">>)))

\* Arguments of a call that is not open are dropped.
ItemToolArgs(enc, call, value) ==
  LET open == {i \in OpenItems(enc.items, "function_call") : enc.items[i].call = call}
  IN  IF open = {} THEN [enc |-> enc, out |-> <<>>]
      ELSE Sending([enc EXCEPT !.items[Min(open)].body = @ \o value],
                   <<Event("args.delta", enc.items[Min(open)].index, value)>>)

ItemJson(items) == [i \in DOMAIN items |-> [type |-> items[i].type, body |-> items[i].body]]

\* Everything is closed; an answer without items gets an empty message.
ItemFinal(enc, reason, tokens) ==
  LET text  == CloseOpenMessage(enc.items)
      tools == CloseOpenTools(text.items)
      bare  == tools.items = <<>>
      items == IF bare THEN <<[Message(0) EXCEPT !.closed = TRUE]>> ELSE tools.items
      last  == [ev     |-> IF reason = "length" THEN "incomplete" ELSE "completed",
                items  |-> ItemJson(items),
                tokens |-> tokens,
                seq    |-> 0]
  IN  Sending([enc EXCEPT !.items = items, !.next = IF bare THEN 1 ELSE @],
              Append(text.out \o tools.out, last))

\* The events of an emission, each a frame of its own.
ResponsesRender(enc, em) ==
  CASE em.k = "role"    -> Sending(enc, <<Event("created", -1, <<>>),
                                          Event("in_progress", -1, <<>>)>>)
    [] em.k = "content" -> ItemContent(enc, em.value)
    [] em.k = "start"   -> ItemToolStart(enc, em.index)
    [] em.k = "args"    -> ItemToolArgs(enc, em.index, em.value)
    [] em.k = "final"   -> ItemFinal(enc, em.reason, em.tokens)
    [] em.k = "error"   -> Sending(enc, <<Event("error", -1, <<>>)>>)
=============================================================================
