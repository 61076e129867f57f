----------------------------- MODULE Generation -----------------------------
(***************************************************************************)
(* The generation loop that every endpoint shares: tokens become text, the *)
(* text is cut at a stop string and parsed for tool calls, and what comes  *)
(* out is emitted. One action is one event of the scheduler, handled to    *)
(* the end. The client's side is left to the module Server.                *)
(*                                                                         *)
(* A script is the bytes the model would generate; a token takes any piece *)
(* of it, so a run covers every way to cut every script into tokens.       *)
(***************************************************************************)
EXTENDS SequencesExt, Utf8, StreamDecoder, StopState, ToolCallGrammar, ToolArgStream

CONSTANTS
  Inputs,     \* pairs of the bytes the model would generate and the set of
              \* stop strings of the request
  MaxToken    \* bytes of the longest token

ASSUME TokenAssumption == MaxToken \in Nat \ {0}

VARIABLES
  script,     \* what is still to be generated
  loop,       \* the loop's locals
  log,        \* what the client has put together from the emissions
  batch,      \* the emissions of the last step
  phase       \* "run", then "ended", "failed" or "panicked"

vars == <<script, loop, log, batch, phase>>

Emissions == INSTANCE EmissionSource WITH
  inCall <- loop.prs.state # "text",
  calls  <- Len(log.calls),
  ended  <- phase # "run"

NewLoop(strings) ==
  [dec |-> NewDecoder, stp |-> NewStop(strings), prs |-> NewParser,
   args |-> NewArgs, emitted |-> 0]

Init ==
  /\ \E input \in Inputs : script = input[1] /\ loop = NewLoop(input[2])
  /\ log = Emissions!Silence
  /\ batch = <<>>
  /\ phase = "run"

Chunks(index, chunks) == [i \in DOMAIN chunks |-> Emissions!ToolArgs(index, chunks[i])]

\* One event of the parser as emissions.
PushToolEvent(a, ev) ==
  LET param == ArgsParam(a, ev.name, ev.value)
      end   == EndCall(a)
  IN  CASE ev.t = "text"  -> [args |-> a, out |-> <<Emissions!Content(ev.value)>>]
        [] ev.t = "start" -> [args |-> BeginCall(a, a.next),
                              out  |-> <<Emissions!ToolStart(a.next, ev.name)>>]
        [] ev.t = "param" -> [args |-> param.args, out |-> Chunks(a.index, param.chunks)]
        [] ev.t = "end"   -> [args |-> end.args, out |-> Chunks(a.index, end.chunks)]

RECURSIVE PushToolEvents(_, _, _)
PushToolEvents(a, events, out) ==
  IF events = <<>> THEN [args |-> a, out |-> out]
  ELSE LET one == PushToolEvent(a, Head(events))
       IN  PushToolEvents(one.args, Tail(events), out \o one.out)

\* The loop after the parser has produced these events.
Emitting(l, parsed) ==
  LET pushed == PushToolEvents(l.args, parsed.events, <<>>)
  IN  [loop |-> [l EXCEPT !.prs = parsed.parser, !.args = pushed.args], out |-> pushed.out]

\* Text up to this length goes through the parser; what went before does not
\* go again.
Forward(l, len) ==
  IF len > l.emitted
  THEN Emitting([l EXCEPT !.emitted = len],
                ParserPush(l.prs, SubSeq(l.stp.text, l.emitted + 1, len)))
  ELSE [loop |-> l, out |-> <<>>]

\* A new fragment: nothing but the stop scan happens when it is empty.
Decoded(d) ==
  LET stp == PushText(loop.stp, d.delta)
      l   == [loop EXCEPT !.dec = d.decoder, !.stp = stp]
  IN  IF d.delta = <<>> \/ stp.panicked THEN [loop |-> l, out |-> <<>>]
      ELSE Forward(l, SafeLen(stp))

\* The final flush: withheld text, then what the parser holds.
FlushText(l, d) ==
  LET stp == StopFinish(PushText(l.stp, d.delta))
      q   == [l EXCEPT !.dec = d.decoder, !.stp = stp]
  IN  IF stp.panicked THEN [loop |-> q, out |-> <<>>] ELSE Forward(q, FinalLen(stp))

Flush(l) ==
  LET text == FlushText(l, DecoderFinish(l.dec))
      rest == Emitting(text.loop, ParserFinish(text.loop.prs))
  IN  IF text.loop.stp.panicked THEN text
      ELSE [loop |-> rest.loop, out |-> text.out \o rest.out]

\* The step's emissions leave; a panic drops the task with what it held.
Settle(result, ending) ==
  /\ loop' = result.loop
  /\ IF result.loop.stp.panicked
     THEN batch' = <<>> /\ log' = log /\ phase' = "panicked"
     ELSE batch' = result.out /\ log' = Emissions!HearAll(log, result.out) /\ phase' = ending

\* A token that is no stop token.
Token(n) ==
  LET fed == Decoded(DecoderPush(loop.dec, SubSeq(script, 1, n)))
      end == Flush(fed.loop)
  IN  /\ phase = "run"
      /\ script' = Drop(script, n)
      /\ IF fed.loop.stp.stopped
         THEN Settle([end EXCEPT !.out = fed.out \o @], "ended")
         ELSE Settle(fed, "run")

\* The scheduler's Done, or a channel that closed without one. (The loop knows
\* stop tokens, too; the scheduler ends a job at one and forwards none.)
Ends ==
  /\ phase = "run"
  /\ Settle(Flush(loop), "ended")
  /\ UNCHANGED script

\* Failed, or text that does not decode: nothing is flushed.
Fails ==
  /\ phase = "run"
  /\ phase' = "failed"
  /\ batch' = <<>>
  /\ UNCHANGED <<script, loop, log>>

Next ==
  \/ \E n \in 1 .. Min({MaxToken, Len(script)}) : Token(n)
  \/ Ends
  \/ Fails

Spec == Init /\ [][Next]_vars

-----------------------------------------------------------------------------
(* Properties.                                                             *)

\* Text the decoder has handed out is final: no later token changes how the
\* bytes before it read, whatever characters the tokens cut in two; and at the
\* end nothing is left behind.
DecoderExact ==
  /\ phase = "run" => IsPrefix(loop.stp.text, Lossy(loop.dec.ids \o script))
  /\ phase = "ended" /\ ~ loop.stp.stopped => loop.stp.text = Lossy(loop.dec.ids)

StopStarts == Starts(loop.stp, 0)

\* No byte of a stop string that appears in the text is ever sent, also when
\* the stop string arrives in pieces; and a generation that ends has sent
\* everything before the first stop string.
StopExact ==
  /\ \A p \in StopStarts : loop.emitted <= p
  /\ phase = "ended" => loop.emitted = Min(StopStarts \cup {Len(loop.stp.text)})

\* The text that went through the parser.
Forwarded == SubSeq(loop.stp.text, 1, loop.emitted)

\* The client reads the texts and the calls that stand in the whole text,
\* however it was cut into tokens and whatever was held back in between.
ParserExact ==
  phase = "ended" =>
    LET reading == Reading(Forwarded)
    IN  reading.mixed \/
        /\ log.texts = reading.texts
        /\ Len(log.calls) = Len(reading.calls)
        /\ loop.prs.calls = [i \in DOMAIN reading.calls |->
             FinalizeCall(reading.calls[i].name, reading.calls[i].params)]

\* The JSON text of a call's arguments, in the order the names arrived.
RECURSIVE Members(_)
Members(params) ==
  IF params = <<>> THEN <<>>
  ELSE (IF Len(params) > 1 THEN Members(Front(params)) \o <<",">> ELSE <<>>)
       \o JsonKey(Last(params)[1]) \o JsonString(Last(params)[2])

JsonObject(params) == <<"{">> \o Members(params) \o <<"}">>

\* Fragments that need no care at their joints: distinct names, and values
\* that are not empty and have no quotation mark.
Plain(params) ==
  /\ \A i, k \in DOMAIN params : params[i][1] = params[k][1] => i = k
  /\ \A i \in DOMAIN params :
       params[i][2] # <<>> /\ \A k \in DOMAIN params[i][2] : params[i][2][k] # "q"

\* The streamed fragments of a call join to the JSON object of its arguments,
\* for arguments whose fragments need no care at their joints.
PlainArgsCompose ==
  phase = "ended" /\ ~ Reading(Forwarded).mixed =>
    LET calls == Reading(Forwarded).calls
    IN  \A i \in DOMAIN calls :
          Plain(calls[i].params) => log.calls[i].json = JsonObject(calls[i].params)

\* Every step's emissions keep the contract the encoders rely on.
EmissionsLegal == Emissions!Spec

\* The scan for stop strings never stops the task that runs it.
ScanIsTotal == phase # "panicked"
=============================================================================
