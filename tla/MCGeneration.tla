---------------------------- MODULE MCGeneration ----------------------------
(* Instances of Generation for TLC. *)
EXTENDS Generation

Joined(parts) == FlattenSeq(parts)

\* Pieces of markup; two of them open a call, or a call and a parameter.
Fn     == <<"<", "f", "N", ">">>
FnArg  == <<"<", "f", "N", ">", "<", "p", "K", ">">>
Arg    == <<"<", "p", "J", ">">>
ArgEnd == <<"<", "/", "p", ">">>
CallEnd == <<"<", "/", "f", ">">>
TwoArgs == FnArg \o <<"v">> \o ArgEnd \o Arg

MarkupPieces ==
  {Fn, FnArg, Arg, ArgEnd, ArgEnd \o CallEnd, CdataOpen \o <<"v">>, CdataClose,
   <<"<">>, <<"v">>, <<"q">>}

Markup == {Joined(parts) : parts \in SeqOf(MarkupPieces, 3)}
          \cup {FnArg \o Joined(parts) : parts \in SeqOf(MarkupPieces, 3)}
          \cup {TwoArgs \o Joined(parts) : parts \in SeqOf(MarkupPieces, 2)}

\* Characters and stop strings, whole and cut.
Plains == {Joined(parts) : parts \in
             SeqOf({<<"L", "M">>, <<"L">>, <<"M">>, <<"s">>, <<"t">>}, 4)}

MCInputs ==
  (Markup \X {{}, {<<"<", "p">>}})
  \cup (Plains \X {{<<"s", "t">>}, {<<"t">>, <<"s", "s", "t">>}})
=============================================================================
