--------------------------- MODULE EmissionSource ---------------------------
(***************************************************************************)
(* What the generation loop promises to the encoders, whatever the text    *)
(* was: batches of emissions in which calls are numbered from 0 as they    *)
(* start, arguments belong to the call that is open, text comes between    *)
(* calls only, and a call is closed before the stream ends.                *)
(***************************************************************************)
EXTENDS Integers, FiniteSets, SequencesExt

VARIABLES
  inCall,   \* a call is open
  calls,    \* calls started
  ended,    \* nothing follows
  batch     \* the emissions of the last step

Content(v)         == [k |-> "content", value |-> v]
ToolStart(i, name) == [k |-> "start", index |-> i, name |-> name]
ToolArgs(i, chunk) == [k |-> "args", index |-> i, value |-> chunk]

\* The fragment that closes the JSON object of a call.
Closes(em) == em.k = "args" /\ em.value # <<>> /\ em.value[Len(em.value)] = "}"

\* What a listener puts together: texts between the calls, and the calls.
Silence == [texts |-> <<<<>>>>, calls |-> <<>>]

Hear(heard, em) ==
  CASE em.k = "content" -> [heard EXCEPT !.texts[Len(heard.texts)] = @ \o em.value]
    [] em.k = "start"   -> [texts |-> Append(heard.texts, <<>>),
                            calls |-> Append(heard.calls, [name |-> em.name, json |-> <<>>])]
    [] em.k = "args"    -> [heard EXCEPT !.calls[em.index + 1].json = @ \o em.value]
    [] OTHER            -> heard

HearAll(heard, emissions) == FoldLeft(Hear, heard, emissions)

Legal(open, n, em) ==
  \/ em.k = "content" /\ ~ open
  \/ em.k = "start" /\ ~ open /\ em.index = n
  \/ em.k = "args" /\ open /\ em.index = n - 1

\* The calls started, and whether one is open, after the first i emissions of b.
Started(n, b, i) == n + Cardinality({k \in 1 .. i : b[k].k = "start"})

Unclosed(b, k, i) == \A l \in k + 1 .. i : ~ Closes(b[l])

Opened(open, b, i) ==
  \/ open /\ Unclosed(b, 0, i)
  \/ \E k \in 1 .. i : b[k].k = "start" /\ Unclosed(b, k, i)

\* From (open, n) the emissions b lead to (open2, n2), each one legal.
Produces(open, n, b, open2, n2) ==
  /\ \A i \in DOMAIN b : Legal(Opened(open, b, i - 1), Started(n, b, i - 1), b[i])
  /\ open2 = Opened(open, b, Len(b))
  /\ n2 = Started(n, b, Len(b))

Init == ~ inCall /\ calls = 0 /\ ~ ended /\ batch = <<>>

Produce ==
  /\ ~ ended
  /\ Produces(inCall, calls, batch', inCall', calls')
  /\ ended' = FALSE

\* The last batch closes what is open.
Finish ==
  /\ ~ ended
  /\ Produces(inCall, calls, batch', inCall', calls')
  /\ ~ inCall'
  /\ ended' = TRUE

\* A failure leaves an open call open.
Abort ==
  /\ ~ ended
  /\ ended' = TRUE
  /\ batch' = <<>>
  /\ UNCHANGED <<inCall, calls>>

Next == Produce \/ Finish \/ Abort

vars == <<inCall, calls, ended, batch>>

Spec == Init /\ [][Next]_vars
=============================================================================
