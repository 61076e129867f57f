-------------------------------- MODULE Utf8 --------------------------------
(***************************************************************************)
(* Text as the code handles it: bytes, with offsets that count the bytes   *)
(* before them. A one-byte character is a symbol of its own; one character *)
(* has the two bytes "L" and "M"; U+FFFD has three. What the standard      *)
(* library and the tokenizer's byte decoder do with text is external.      *)
(***************************************************************************)
EXTENDS Integers, Sequences, FiniteSetsExt

TwoByte     == <<"L", "M">>
Replacement == <<"F1", "F2", "F3">>

\* Bytes that continue a character.
Continuations == {"M", "F2", "F3"}

IsCharBoundary(s, i) ==
  i \in {0, Len(s)} \/ (i \in 1 .. Len(s) - 1 /\ s[i + 1] \notin Continuations)

Floor(s, i) == Max({b \in 0 .. i : IsCharBoundary(s, b)})

Drop(s, n) == SubSeq(s, n + 1, Len(s))

\* Whether lit stands in s behind the first i bytes.
HasAt(s, i, lit) ==
  /\ i \in 0 .. Len(s) - Len(lit)
  /\ \A k \in 1 .. Len(lit) : s[i + k] = lit[k]

Occurrences(s, lit) == {i \in 0 .. Len(s) : HasAt(s, i, lit)}

\* How a byte string reads: a whole character, or U+FFFD for bytes that are
\* no part of one.
Piece(bytes, i) ==
  CASE bytes[i] = "L" -> IF HasAt(bytes, i - 1, TwoByte) THEN TwoByte ELSE Replacement
    [] bytes[i] = "M" -> IF i > 1 /\ bytes[i - 1] = "L" THEN <<>> ELSE Replacement
    [] OTHER          -> <<bytes[i]>>

RECURSIVE LossyFrom(_, _)
LossyFrom(bytes, i) ==
  IF i > Len(bytes) THEN <<>> ELSE Piece(bytes, i) \o LossyFrom(bytes, i + 1)

Lossy(bytes) == LossyFrom(bytes, 1)
=============================================================================
