--------------------------- MODULE ToolCallParser ---------------------------
(***************************************************************************)
(* The streaming parser of tool calls. The markup is shortened to          *)
(* <f N> <p N> </f> </p> <![ ]]>, which keeps what the parser's choices    *)
(* depend on: all tags but the last start with "<", an opening tag has a   *)
(* body that may lack its name, and a tag may arrive in pieces. A name     *)
(* attribute is one symbol of Names.                                       *)
(***************************************************************************)
EXTENDS Utf8

Names == {"N", "K", "J"}

FnOpen     == <<"<", "f">>
FnClose    == <<"<", "/", "f", ">">>
ParamOpen  == <<"<", "p">>
ParamClose == <<"<", "/", "p", ">">>
CdataOpen  == <<"<", "!", "[">>
CdataClose == <<"]", "]", ">">>

NoName == "none"

NewParser ==
  [state |-> "text", buf |-> <<>>, name |-> NoName, params |-> <<>>,
   pname |-> NoName, pvalue |-> <<>>, calls |-> <<>>]

TextEvent(v)     == [t |-> "text", value |-> v]
StartEvent(n)    == [t |-> "start", name |-> n]
ParamEvent(n, v) == [t |-> "param", name |-> n, value |-> v]
EndEvent         == [t |-> "end"]

\* The offset of the first c in s, or -1.
Find(s, c) ==
  LET at == {i \in 0 .. Len(s) - 1 : s[i + 1] = c}
  IN  IF at = {} THEN -1 ELSE Min(at)

StartsWith(s, lit)   == HasAt(s, 0, lit)
ViablePrefix(s, lit) == Len(s) < Len(lit) /\ HasAt(lit, 0, s)

\* The name in the tag that s starts with, NoName when there is none, or the
\* tag is not complete.
ParseTag(s, tag) ==
  LET named == {i \in Len(tag) + 1 .. Find(s, ">") : s[i] \in Names}
  IN  IF StartsWith(s, tag) /\ named # {} THEN s[Min(named)] ELSE NoName

TagLen(s) == Find(s, ">") + 1

\* Outcomes of one pass of the parser: it goes on, or waits for more text.
Continue(p, events) == [parser |-> p, events |-> events, more |-> TRUE]
Wait(p, events)     == [parser |-> p, events |-> events, more |-> FALSE]

Skip(p, n) == [p EXCEPT !.buf = Drop(@, n)]

EmitParamValue(p, v) ==
  [parser |-> [p EXCEPT !.pvalue = @ \o v], events |-> <<ParamEvent(p.pname, v)>>]

CloseParam(p) ==
  [p EXCEPT !.params = Append(@, <<p.pname, p.pvalue>>),
            !.pname = NoName, !.pvalue = <<>>]

\* The arguments of a call: the last value of each name.
FinalizeCall(name, params) ==
  [name |-> name,
   args |-> [n \in {params[i][1] : i \in DOMAIN params} |->
               params[Max({i \in DOMAIN params : params[i][1] = n})][2]]]

\* Mutant: the parameters of a call are left to the next one.
CloseKeeping(p) ==
  [p EXCEPT !.calls = Append(@, FinalizeCall(p.name, p.params)),
            !.name = NoName, !.state = "text"]

CloseFunction(p) ==
  [p EXCEPT !.calls = Append(@, FinalizeCall(p.name, p.params)),
            !.name = NoName, !.params = <<>>, !.state = "text"]

StepText(p) ==
  LET i      == Find(p.buf, "<")
      before == IF i > 0 THEN <<TextEvent(SubSeq(p.buf, 1, i))>> ELSE <<>>
      q      == Skip(p, i)
      name   == ParseTag(q.buf, FnOpen)
  IN  CASE p.buf = <<>> -> Wait(p, <<>>)
        [] i = -1       -> Continue([p EXCEPT !.buf = <<>>], <<TextEvent(p.buf)>>)
        [] OTHER        ->
             CASE name # NoName ->
                    Continue([Skip(q, TagLen(q.buf)) EXCEPT !.state = "function", !.name = name],
                             Append(before, StartEvent(name)))
               [] StartsWith(q.buf, FnOpen) /\ Find(q.buf, ">") = -1 -> Wait(q, before)
               [] ViablePrefix(q.buf, FnOpen) -> Wait(q, before)
               [] OTHER -> Continue(Skip(q, 1), Append(before, TextEvent(<<"<">>)))

StepFunction(p) ==
  LET i    == Find(p.buf, "<")
      name == ParseTag(p.buf, ParamOpen)
  IN  CASE i = -1 -> Wait([p EXCEPT !.buf = <<>>], <<>>)
        [] i > 0  -> Continue(Skip(p, i), <<>>)
        [] StartsWith(p.buf, FnClose) ->
             Continue(CloseFunction(Skip(p, Len(FnClose))), <<EndEvent>>)
        [] name # NoName ->
             Continue([Skip(p, TagLen(p.buf)) EXCEPT !.state = "param", !.pname = name,
                                                     !.pvalue = <<>>], <<>>)
        [] StartsWith(p.buf, ParamOpen) /\ Find(p.buf, ">") = -1 -> Wait(p, <<>>)
        [] ViablePrefix(p.buf, FnClose) \/ ViablePrefix(p.buf, ParamOpen) -> Wait(p, <<>>)
        [] OTHER -> Continue(Skip(p, 1), <<>>)

StepParam(p) ==
  LET i      == Find(p.buf, "<")
      before == EmitParamValue(p, SubSeq(p.buf, 1, i))
      events == IF i > 0 THEN before.events ELSE <<>>
      q      == Skip(IF i > 0 THEN before.parser ELSE p, i)
      all    == EmitParamValue(p, p.buf)
      angle  == EmitParamValue(q, <<"<">>)
  IN  CASE StartsWith(p.buf, CdataOpen) ->
             Continue([Skip(p, Len(CdataOpen)) EXCEPT !.state = "cdata"], <<>>)
        [] ViablePrefix(p.buf, CdataOpen) -> Wait(p, <<>>)
        [] i = -1 -> Continue([all.parser EXCEPT !.buf = <<>>], all.events)
        [] OTHER  ->
             CASE StartsWith(q.buf, ParamClose) ->
                    Continue([CloseParam(Skip(q, Len(ParamClose))) EXCEPT !.state = "function"],
                             events)
               [] ViablePrefix(q.buf, ParamClose) -> Wait(q, events)
               [] OTHER -> Continue(Skip(angle.parser, 1), events \o angle.events)

\* Until the section closes, the text that may belong to its end is held.
StepCdata(p) ==
  LET closes == Occurrences(p.buf, CdataClose)
      cut    == Floor(p.buf, Max({0, Len(p.buf) - (Len(CdataClose) - 1)}))
      value(n) == EmitParamValue(p, SubSeq(p.buf, 1, n))
  IN  CASE closes # {} ->
             Continue([Skip(value(Min(closes)).parser, Min(closes) + Len(CdataClose))
                         EXCEPT !.state = "param"],
                      value(Min(closes)).events)
        [] cut > 0 -> Wait(Skip(value(cut).parser, cut), value(cut).events)
        [] OTHER   -> Wait(p, <<>>)

Step(p) ==
  CASE p.state = "text"     -> StepText(p)
    [] p.state = "function" -> StepFunction(p)
    [] p.state = "param"    -> StepParam(p)
    [] p.state = "cdata"    -> StepCdata(p)

RECURSIVE StepAll(_, _)
StepAll(p, events) ==
  LET step == Step(p)
  IN  IF step.more THEN StepAll(step.parser, events \o step.events)
      ELSE [parser |-> step.parser, events |-> events \o step.events]

ParserPush(p, fragment) == StepAll([p EXCEPT !.buf = @ \o fragment], <<>>)

\* Text and values that were held back are released, an open call is closed,
\* and what an open call holds between its parameters is dropped.
ParserFinish(p) ==
  LET held == EmitParamValue(p, p.buf)
      last == CASE p.state = "text"     -> [parser |-> p, events |-> <<TextEvent(p.buf)>>]
                [] p.state = "function" -> [parser |-> p, events |-> <<>>]
                [] p.buf # <<>>         -> [held EXCEPT !.parser = CloseParam(@)]
                [] OTHER                -> [parser |-> CloseParam(p), events |-> <<>>]
      q    == [last.parser EXCEPT !.buf = <<>>, !.state = "text"]
  IN  IF p.state = "text" THEN [parser |-> q, events |-> last.events]
      ELSE [parser |-> CloseFunction(q), events |-> Append(last.events, EndEvent)]
=============================================================================
