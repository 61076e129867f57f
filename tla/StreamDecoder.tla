--------------------------- MODULE StreamDecoder ---------------------------
(***************************************************************************)
(* The incremental detokenizer: every push decodes the whole window of     *)
(* tokens again and hands out what lies beyond the bytes handed out        *)
(* before, except a U+FFFD at the end, which the next token may complete.  *)
(* A token is the bytes it stands for.                                     *)
(***************************************************************************)
EXTENDS Utf8

NewDecoder == [ids |-> <<>>, emitted |-> 0, withheld |-> FALSE]

\* Mutant: a replacement character at the end is not withheld.
SyncNever(d, text) == d

SyncEmission(d, text) ==
  [d EXCEPT !.withheld = HasAt(text, Len(text) - 3, Replacement)]

\* The text handed out now, <<>> for none, and the decoder afterwards.
TakeDelta(d, text) ==
  LET limit == Len(text) - (IF d.withheld THEN Len(Replacement) ELSE 0)
      fresh == {e \in d.emitted + 1 .. limit : IsCharBoundary(text, e)}
  IN  IF fresh = {} THEN [decoder |-> d, delta |-> <<>>]
      ELSE [decoder |-> [d EXCEPT !.emitted = Max(fresh)],
            delta   |-> SubSeq(text, d.emitted + 1, Max(fresh))]

DecoderPush(d, token) ==
  LET fed  == [d EXCEPT !.ids = @ \o token]
      text == Lossy(fed.ids)
  IN  TakeDelta(SyncEmission(fed, text), text)

DecoderFinish(d) == TakeDelta([d EXCEPT !.withheld = FALSE], Lossy(d.ids))
=============================================================================
