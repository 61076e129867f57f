--------------------------- MODULE ToolArgStream ---------------------------
(***************************************************************************)
(* The arguments of a streamed call, built fragment by fragment as the     *)
(* text of a JSON object. In JSON text "q" is a quotation mark, "b" a      *)
(* backslash, and a name stands for its characters.                        *)
(***************************************************************************)
EXTENDS Utf8

NoParam == "none"

NewArgs == [index |-> 0, next |-> 0, open |-> FALSE, cur |-> NoParam]

\* Mutant: calls are not counted.
BeginSame(a, index) ==
  [index |-> index, next |-> index, open |-> FALSE, cur |-> NoParam]

BeginCall(a, index) ==
  [index |-> index, next |-> index + 1, open |-> FALSE, cur |-> NoParam]

\* Whatever has to be escaped inside a JSON string.
EscapeByte(x) == IF x \in {"q", "b"} THEN <<"b", x>> ELSE <<x>>

RECURSIVE EscapeFrom(_, _)
EscapeFrom(s, i) ==
  IF i > Len(s) THEN <<>> ELSE EscapeByte(s[i]) \o EscapeFrom(s, i + 1)

JsonString(s) == <<"q">> \o EscapeFrom(s, 1) \o <<"q">>

\* All quotation marks at either end go, the string's own and any other.
TrimQuotes(s) ==
  LET kept == {i \in DOMAIN s : s[i] # "q"}
  IN  IF kept = {} THEN <<>> ELSE SubSeq(s, Min(kept), Max(kept))

EscapeFragment(s) == TrimQuotes(JsonString(s))

JsonKey(name) == <<"q", name, "q", ":">>

\* Mutant: the string of the parameter before is not closed.
ArgsParamOpen(a, name, value) ==
  IF a.cur = name
  THEN [args |-> a, chunks |-> <<EscapeFragment(value)>>]
  ELSE [args   |-> [a EXCEPT !.open = TRUE, !.cur = name],
        chunks |-> << <<IF a.open THEN "," ELSE "{">>, JsonKey(name), <<"q">>,
                      EscapeFragment(value) >>]

\* The fragments for one chunk of a parameter's value.
ArgsParam(a, name, value) ==
  IF a.cur = name
  THEN [args |-> a, chunks |-> <<EscapeFragment(value)>>]
  ELSE [args   |-> [a EXCEPT !.open = TRUE, !.cur = name],
        chunks |-> (IF a.cur # NoParam THEN <<<<"q">>>> ELSE <<>>)
                   \o << <<IF a.open THEN "," ELSE "{">>, JsonKey(name), <<"q">>,
                         EscapeFragment(value) >>]

EndCall(a) ==
  [args   |-> [a EXCEPT !.open = FALSE, !.cur = NoParam],
   chunks |-> (IF a.cur # NoParam THEN <<<<"q">>>> ELSE <<>>)
              \o <<IF a.open THEN <<"}">> ELSE <<"{", "}">> >>]
=============================================================================
