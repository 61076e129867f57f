----------------------------- MODULE StopState -----------------------------
(***************************************************************************)
(* Stop strings: which prefix of the generated text may be shown. strings  *)
(* is the request's set of stop strings; matched is the offset of the one  *)
(* found, or NoMatch.                                                      *)
(***************************************************************************)
EXTENDS Utf8

NoMatch == -1

NewStop(strings) ==
  [strings |-> strings, text |-> <<>>, matched |-> NoMatch,
   stopped |-> FALSE, panicked |-> FALSE]

MaxPatternLen(s) == Max({0} \cup {Len(p) : p \in s.strings})

\* Offsets at or behind from where some stop string starts.
Starts(s, from) ==
  UNION {{i \in Occurrences(s.text, p) : i >= from} : p \in s.strings}

FindMatch(s, from) ==
  IF Starts(s, from) = {} THEN s
  ELSE [s EXCEPT !.matched = Min(Starts(s, from)), !.stopped = TRUE]

\* Slicing the text inside a character panics.
PushText(s, fragment) ==
  LET from  == Max({0, Len(s.text) - MaxPatternLen(s)})
      grown == [s EXCEPT !.text = @ \o fragment]
  IN  CASE s.stopped \/ fragment = <<>>       -> s
        [] ~ IsCharBoundary(grown.text, from) -> [grown EXCEPT !.panicked = TRUE]
        [] OTHER                              -> FindMatch(grown, from)

\* Mutant: one byte too few is held back.
SafeLenShort(s) ==
  IF s.matched # NoMatch THEN s.matched
  ELSE Floor(s.text, Max({0, Len(s.text) - Max({0, MaxPatternLen(s) - 2})}))

\* A match that is still to come overlaps the text by less than a pattern.
SafeLen(s) ==
  IF s.matched # NoMatch THEN s.matched
  ELSE Floor(s.text, Max({0, Len(s.text) - Max({0, MaxPatternLen(s) - 1})}))

StopFinish(s) == IF s.matched # NoMatch THEN s ELSE FindMatch(s, 0)

FinalLen(s) == IF s.matched # NoMatch THEN s.matched ELSE Len(s.text)

VisibleText(s, len) == SubSeq(s.text, 1, len)
=============================================================================
