-------------------------- MODULE ToolCallGrammar --------------------------
(***************************************************************************)
(* What a complete text with tool calls means, read in one piece: the      *)
(* reference for the streaming parser. The reading is the texts between    *)
(* the calls and the calls with their parameters. A call that is not       *)
(* closed ends with the text.                                              *)
(***************************************************************************)
EXTENDS ToolCallParser

\* The first offset at or behind i where P holds, or the length of s.
FirstAt(s, i, P(_)) == Min({Len(s)} \cup {j \in i .. Len(s) - 1 : P(j)})

\* An opening tag with its name starts behind i bytes, and ends there.
IsOpening(s, i, tag) == ParseTag(Drop(s, i), tag) # NoName
TagEnd(s, i)         == i + TagLen(Drop(s, i))
TagName(s, i, tag)   == ParseTag(Drop(s, i), tag)

\* A value from i: what it is and where it ends. A section of raw text is
\* recognised only where a value, or the rest of one, starts; mixed says that
\* there is one elsewhere.
RECURSIVE ReadValue(_, _, _)
ReadValue(s, i, value) ==
  IF HasAt(s, i, CdataOpen)
  THEN LET start == i + Len(CdataOpen)
           close == FirstAt(s, start, LAMBDA j : HasAt(s, j, CdataClose))
           raw   == value \o SubSeq(s, start + 1, close)
       IN  IF close = Len(s) THEN [value |-> raw, next |-> Len(s), mixed |-> FALSE]
           ELSE ReadValue(s, close + Len(CdataClose), raw)
  ELSE LET close == FirstAt(s, i, LAMBDA j : HasAt(s, j, ParamClose))
       IN  [value |-> value \o SubSeq(s, i + 1, close),
            next  |-> Min({Len(s), close + Len(ParamClose)}),
            mixed |-> \E j \in i .. close : HasAt(s, j, CdataOpen)]

\* The parameters of a call from i on: up to its closing tag, or the end.
RECURSIVE ReadParams(_, _, _, _)
ReadParams(s, i, params, mixed) ==
  LET at    == FirstAt(s, i, LAMBDA j : HasAt(s, j, FnClose) \/ IsOpening(s, j, ParamOpen))
      value == ReadValue(s, TagEnd(s, at), <<>>)
      end(next) == [params |-> params, next |-> next, mixed |-> mixed]
  IN  CASE at = Len(s)           -> end(Len(s))
        [] HasAt(s, at, FnClose) -> end(at + Len(FnClose))
        [] OTHER -> ReadParams(s, value.next,
                               Append(params, <<TagName(s, at, ParamOpen), value.value>>),
                               mixed \/ value.mixed)

RECURSIVE ReadFrom(_, _, _)
ReadFrom(s, i, reading) ==
  LET at   == FirstAt(s, i, LAMBDA j : IsOpening(s, j, FnOpen))
      body == ReadParams(s, TagEnd(s, at), <<>>, reading.mixed)
      call == [name |-> TagName(s, at, FnOpen), params |-> body.params]
      read == [reading EXCEPT !.texts = Append(@, SubSeq(s, i + 1, at))]
  IN  IF at = Len(s) THEN read
      ELSE ReadFrom(s, body.next, [read EXCEPT !.calls = Append(@, call), !.mixed = body.mixed])

\* mixed: a section of raw text starts in the middle of a value. How the
\* streaming parser reads it depends on how the text was cut.
Reading(s) == ReadFrom(s, 0, [texts |-> <<>>, calls |-> <<>>, mixed |-> FALSE])
=============================================================================
