---------------------------- MODULE ServerEndings ----------------------------
(***************************************************************************)
(* What holds of the end of every answer of the server, whatever its body, *)
(* the text that is generated and the sizes of the channels: a stream      *)
(* tells it once and last, and it tells what the scheduler said.           *)
(***************************************************************************)
EXTENDS ServerProofs

-----------------------------------------------------------------------------
(* Sequences of whatever *)

IsSeq(s) == s \in Seq({s[i] : i \in DOMAIN s})

LEMMA SeqIsSeq == ASSUME NEW S, NEW s \in Seq(S) PROVE IsSeq(s)
<1> DEFINE T == {s[i] : i \in DOMAIN s}
<1>1. s \in [1 .. Len(s) -> T] /\ Len(s) \in Nat
  OBVIOUS
<1>2. s \in Seq(T)
  BY <1>1
<1>3. QED BY <1>2 DEF IsSeq

LEMMA SeqFacts ==
  ASSUME NEW s, IsSeq(s)
  PROVE  /\ Len(s) \in Nat /\ DOMAIN s = 1 .. Len(s)
         /\ s # <<>> <=> Len(s) > 0
         /\ s # <<>> => /\ Head(s) = s[1] /\ IsSeq(Tail(s)) /\ Len(Tail(s)) = Len(s) - 1
                        /\ \A i \in 1 .. Len(s) - 1 : Tail(s)[i] = s[i + 1]
<1> DEFINE T == {s[i] : i \in DOMAIN s}
<1>1. s \in Seq(T)
  BY DEF IsSeq
<1>2. s # <<>> => Tail(s) \in Seq(T)
  BY <1>1
<1>3. s # <<>> => IsSeq(Tail(s))
  BY <1>2, SeqIsSeq
<1> HIDE DEF T
<1>4. QED BY <1>1, <1>3

LEMMA TailLast ==
  ASSUME NEW s, IsSeq(s), s # <<>>, Len(s) # 1
  PROVE  Tail(s)[Len(Tail(s))] = s[Len(s)]
<1> DEFINE T == {s[i] : i \in DOMAIN s}
<1>1. s \in Seq(T)
  BY DEF IsSeq
<1> HIDE DEF T
<1>2. /\ Len(s) \in Nat \ {0, 1} /\ Tail(s) \in Seq(T) /\ Len(Tail(s)) = Len(s) - 1
      /\ \A i \in 1 .. Len(Tail(s)) : Tail(s)[i] = s[i + 1]
  BY <1>1
<1>3. Len(Tail(s)) \in 1 .. Len(Tail(s)) /\ Len(Tail(s)) + 1 = Len(s)
  BY <1>2
<1>4. QED BY <1>2, <1>3

LEMMA AppendFacts ==
  ASSUME NEW s, IsSeq(s), NEW x
  PROVE  /\ IsSeq(Append(s, x)) /\ Len(Append(s, x)) = Len(s) + 1
         /\ \A i \in 1 .. Len(s) : Append(s, x)[i] = s[i]
         /\ Append(s, x)[Len(s) + 1] = x
<1> DEFINE T == {s[i] : i \in DOMAIN s} \cup {x}
<1>1. s \in Seq({s[i] : i \in DOMAIN s})
  BY DEF IsSeq
<1>2. s \in Seq(T)
  BY <1>1
<1>3. x \in T
  OBVIOUS
<1> HIDE DEF T
<1>4. Append(s, x) \in Seq(T)
  BY <1>2, <1>3
<1>5. IsSeq(Append(s, x))
  BY <1>4, SeqIsSeq
<1>6. QED BY <1>2, <1>3, <1>5

LEMMA ConcatFacts ==
  ASSUME NEW s, IsSeq(s), NEW t, IsSeq(t)
  PROVE  /\ IsSeq(s \o t) /\ Len(s \o t) = Len(s) + Len(t)
         /\ Len(s) \in Nat /\ Len(t) \in Nat
         /\ \A i \in 1 .. Len(s) : (s \o t)[i] = s[i]
         /\ \A i \in 1 .. Len(t) : (s \o t)[Len(s) + i] = t[i]
<1> DEFINE T == {s[i] : i \in DOMAIN s} \cup {t[i] : i \in DOMAIN t}
<1>1. s \in Seq({s[i] : i \in DOMAIN s}) /\ t \in Seq({t[i] : i \in DOMAIN t})
  BY DEF IsSeq
<1>2. s \in Seq(T) /\ t \in Seq(T)
  BY <1>1
<1> HIDE DEF T
<1>3. s \o t \in Seq(T)
  BY <1>2
<1>4. IsSeq(s \o t)
  BY <1>3, SeqIsSeq
<1>5. QED BY <1>2, <1>4

\* The provers take no sequence that is written out for an operand of \o.
Joined(s, t) == s \o t

LEMMA PairFacts ==
  ASSUME NEW s, IsSeq(s), NEW v, NEW w
  PROVE  LET t == Joined(s, <<v, w>>) IN
           /\ IsSeq(t) /\ Len(t) = Len(s) + 2 /\ Len(s) \in Nat
           /\ \A i \in 1 .. Len(s) : t[i] = s[i]
           /\ t[Len(s) + 1] = v /\ t[Len(s) + 2] = w
<1> DEFINE T == {s[i] : i \in DOMAIN s} \cup {v, w}
<1>1. s \in Seq({s[i] : i \in DOMAIN s})
  BY DEF IsSeq
<1>2. s \in Seq(T) /\ <<v, w>> \in Seq(T)
  BY <1>1
<1> HIDE DEF T
<1>3. s \o <<v, w>> \in Seq(T)
  BY <1>2
<1>4. IsSeq(s \o <<v, w>>)
  BY <1>3, SeqIsSeq
<1>5. QED BY <1>2, <1>4 DEF Joined

LEMMA TableFacts ==
  ASSUME NEW n \in Nat, NEW s, s = [i \in 1 .. n |-> s[i]]
  PROVE  IsSeq(s) /\ Len(s) = n
<1>1. s \in [1 .. n -> {s[i] : i \in DOMAIN s}]
  OBVIOUS
<1>2. s \in Seq({s[i] : i \in DOMAIN s})
  BY <1>1
<1>3. Len(s) = n
  BY <1>1, <1>2
<1>4. QED BY <1>2, <1>3 DEF IsSeq

-----------------------------------------------------------------------------
(* What the encoders say of the end *)

\* A frame that does not tell how the answer ended.
Silent(frame) == \A i \in DOMAIN frame : ~ Tells(frame[i])

\* What a loop with this reason, this number of tokens and this failure may tell.
Honest(e, reason, tokens, failed) ==
  HowTold(e) # "error" =>
    /\ TokensTold(e) = tokens
    /\ HowTold(e) # "tool_use" =>
         (reason = "length" <=> HowTold(e) \in CutShort)
    /\ ~ failed

\* What it may answer when it does not stream.
HonestReply(answer, reason, tokens, failed) ==
  answer.status = 200 =>
    /\ answer.tokens = tokens
    /\ answer.ending # "tool_use" => (reason = "length" <=> answer.ending \in CutShort)
    /\ ~ failed

\* A frame that tells it, once, and ends the surfaces that have no other last word.
Telling(surface, frame, reason, tokens, failed) ==
  /\ IsSeq(frame) /\ frame # <<>>
  /\ \E i \in DOMAIN frame :
       /\ Tells(frame[i]) /\ Honest(frame[i], reason, tokens, failed)
       /\ \A k \in DOMAIN frame : Tells(frame[k]) => k = i
  /\ surface # "chat" => frame[Len(frame)].ev \in LastWords(surface)

\* The emission that ends an answer.
Closing(reason, tokens, failed) ==
  IF failed THEN Failure ELSE Final(AsStr(reason), tokens)

LEMMA AsStrIs ==
  ASSUME NEW r \in Endings \cup {"none"}
  PROVE  /\ AsStr(r) \in {"stop", "length"}
         /\ r = "length" <=> AsStr(r) = "length"
BY DEF AsStr, Endings

LEMMA ClosingIs ==
  ASSUME NEW r, NEW n, NEW failed \in BOOLEAN
  PROVE  /\ failed => Closing(r, n, failed).k = "error"
         /\ ~ failed => /\ Closing(r, n, failed).k = "final"
                        /\ Closing(r, n, failed).reason = AsStr(r)
                        /\ Closing(r, n, failed).tokens = n
BY DEF Closing, Failure, Final

\* An event alone in its frame.
LEMMA TellsAlone ==
  ASSUME NEW e, Tells(e), NEW r, NEW n, NEW failed, Honest(e, r, n, failed), NEW a,
         a # "chat" => e.ev \in LastWords(a)
  PROVE  Telling(a, <<e>>, r, n, failed)
<1>1. <<e>> \in Seq({e}) /\ Len(<<e>>) = 1 /\ DOMAIN <<e>> = {1} /\ <<e>>[1] = e
  OBVIOUS
<1>2. IsSeq(<<e>>)
  BY <1>1, SeqIsSeq
<1>3. QED BY <1>1, <1>2 DEF Telling

LEMMA ChatIsSilent ==
  ASSUME NEW em, em.k \in {"role", "content", "start", "args"}
  PROVE  ~ Tells(ChatRender(em))
BY DEF Tells, ChatRender, ChatChunk, NoFinish

LEMMA ChatTells ==
  ASSUME NEW r \in Endings \cup {"none"}, NEW n, NEW failed \in BOOLEAN
  PROVE  Telling("chat", <<ChatRender(Closing(r, n, failed))>>, r, n, failed)
<1> DEFINE e == ChatRender(Closing(r, n, failed))
<1>1. CASE failed
  <2>0. Closing(r, n, failed).k = "error"
    BY <1>1 DEF Closing, Failure
  <2>1. e = [ev |-> "error"]
    BY <2>0 DEF ChatRender
  <2>2. e.ev = "error" /\ HowTold(e) = "error"
    BY <2>1 DEF HowTold
  <2>3. Tells(e) /\ Honest(e, r, n, failed)
    BY <2>2 DEF Tells, Honest
  <2>4. QED BY <2>3, TellsAlone
<1>2. CASE ~ failed
  <2>1. e = ChatChunk([t |-> "nothing"], [reason |-> AsStr(r), tokens |-> n])
    BY <1>2, ClosingIs DEF ChatRender
  <2>2. e.ev = "chunk" /\ e.finish.reason = AsStr(r) /\ e.finish.tokens = n
    BY <2>1 DEF ChatChunk
  <2>3. HowTold(e) = AsStr(r) /\ TokensTold(e) = n
    BY <2>2 DEF HowTold, TokensTold
  <2>4. Tells(e) /\ Honest(e, r, n, failed)
    BY <1>2, <2>2, <2>3, AsStrIs DEF Tells, Honest, CutShort
  <2>5. QED BY <2>4, TellsAlone
<1>3. QED BY <1>1, <1>2

LEMMA AnthropicIsSilent ==
  ASSUME NEW e, GoesOn(e), NEW em, em.k \in {"role", "content", "start", "args"}
  PROVE  Silent(AnthropicRender(e, em).out)
<1> USE DEF GoesOn, Silent, Tells
<1> DEFINE out == AnthropicRender(e, em).out
<1>1. CASE em.k = "role"
  <2>1. out = <<[ev |-> "message_start"]>>
    BY <1>1 DEF AnthropicRender
  <2>2. QED BY <2>1
<1>2. CASE em.k = "content"
  <2>1. out = RenderContent(e, em.value).out
    BY <1>2 DEF AnthropicRender
  <2>2. \/ out = <<BlockDelta(e.text, em.value)>>
        \/ out = <<BlockStart(e.next, "text"), BlockDelta(e.next, em.value)>>
    BY <2>1 DEF RenderContent
  <2>3. QED BY <2>2 DEF BlockStart, BlockDelta
<1>3. CASE em.k = "start"
  <2>1. out = RenderToolStart(e, em.index).out
    BY <1>3 DEF AnthropicRender
  <2>2. \/ out = <<BlockStart(e.next, "tool_use")>>
        \/ out = <<BlockStop(e.text), BlockStart(e.next, "tool_use")>>
    BY <2>1 DEF RenderToolStart
  <2>3. QED BY <2>2 DEF BlockStart, BlockStop
<1>4. CASE em.k = "args"
  <2>1. out = RenderToolArgs(e, em.index, em.value).out
    BY <1>4 DEF AnthropicRender
  <2>2. out = <<>> \/ out = <<BlockDelta(e.tools[em.index], em.value)>>
    BY <2>1 DEF RenderToolArgs
  <2>3. QED BY <2>2 DEF BlockDelta
<1>5. QED BY <1>1, <1>2, <1>3, <1>4

LEMMA StopsFacts ==
  ASSUME NEW blocks, IsFiniteSet(blocks)
  PROVE  IsSeq(Stops(blocks)) /\ Silent(Stops(blocks))
<1>1. Cardinality(blocks) \in Nat
  BY FS_CardinalityType
<1>2. PICK n \in Nat : n = Cardinality(blocks)
  BY <1>1
<1> DEFINE nth(i) == CHOOSE b \in blocks : Cardinality({c \in blocks : c < b}) = i - 1
<1>3. Stops(blocks) = [i \in 1 .. n |-> BlockStop(nth(i))]
  BY <1>2 DEF Stops
<1> HIDE DEF nth
<1>4. IsSeq(Stops(blocks))
  BY <1>3, TableFacts
<1>5. Silent(Stops(blocks))
  BY <1>3 DEF Silent, Tells, BlockStop
<1>6. QED BY <1>4, <1>5

LEMMA AnthropicTells ==
  ASSUME NEW e, GoesOn(e), IsFiniteSet(DOMAIN e.tools),
         NEW r \in Endings \cup {"none"}, NEW n, NEW failed \in BOOLEAN
  PROVE  Telling("anthropic", AnthropicRender(e, Closing(r, n, failed)).out, r, n, failed)
<1> DEFINE out == AnthropicRender(e, Closing(r, n, failed)).out
<1>1. CASE failed
  <2> DEFINE v == [ev |-> "error"]
  <2>0. Closing(r, n, failed).k = "error"
    BY <1>1 DEF Closing, Failure
  <2>1. out = <<v>>
    BY <2>0 DEF AnthropicRender, GoesOn
  <2>2. v.ev = "error" /\ HowTold(v) = "error"
    BY DEF HowTold
  <2> HIDE DEF v
  <2>3. Tells(v) /\ Honest(v, r, n, failed) /\ v.ev \in LastWords("anthropic")
    BY <2>2 DEF Tells, Honest, LastWords
  <2>4. QED BY <2>1, <2>3, TellsAlone
<1>2. CASE ~ failed
  <2> DEFINE stops  == Stops(TextBlock(e) \cup ToolBlocks(e))
             reason == StopReason(e.sawTool, AsStr(r))
             v      == MessageDelta(reason, n)
             w      == [ev |-> "message_stop"]
  <2>1. out = Joined(stops, <<v, w>>)
    BY <1>2, ClosingIs DEF AnthropicRender, RenderFinal, GoesOn, Joined
  <2>2. IsSeq(stops) /\ Silent(stops)
    <3>1. IsFiniteSet(TextBlock(e))
      BY FS_EmptySet, FS_Singleton DEF TextBlock
    <3>2. IsFiniteSet(ToolBlocks(e))
      <4> DEFINE f == [c \in DOMAIN e.tools |-> e.tools[c]]
      <4>1. f \in Surjection(DOMAIN e.tools, ToolBlocks(e))
        BY DEF Surjection, ToolBlocks
      <4>2. QED BY <4>1, FS_Surjection
    <3>3. IsFiniteSet(TextBlock(e) \cup ToolBlocks(e))
      BY <3>1, <3>2, FS_Union
    <3>4. QED BY <3>3, StopsFacts
  <2>3. v.ev = "message_delta" /\ v.reason = reason /\ v.tokens = n /\ w.ev = "message_stop"
    BY DEF MessageDelta
  <2>4. HowTold(v) = reason /\ TokensTold(v) = n
    BY <2>3 DEF HowTold, TokensTold
  <2>5. /\ reason \in {"tool_use", "max_tokens", "end_turn"}
        /\ reason # "tool_use" => (AsStr(r) = "length" <=> reason = "max_tokens")
    BY DEF StopReason
  <2>6. Tells(v) /\ Honest(v, r, n, failed) /\ ~ Tells(w)
    BY <1>2, <2>3, <2>4, <2>5, AsStrIs DEF Tells, Honest, CutShort
  <2> HIDE DEF v, w, stops
  <2> HIDE DEF out
  <2>9. /\ IsSeq(out) /\ Len(out) = Len(stops) + 2 /\ Len(stops) \in Nat
        /\ \A i \in 1 .. Len(stops) : out[i] = stops[i]
        /\ out[Len(stops) + 1] = v /\ out[Len(stops) + 2] = w
    BY <2>1, <2>2, PairFacts
  <2>10. DOMAIN out = 1 .. Len(stops) + 2 /\ out # <<>> /\ DOMAIN stops = 1 .. Len(stops)
    BY <2>2, <2>9, SeqFacts
  <2>11. ASSUME NEW k \in DOMAIN out, Tells(out[k]) PROVE k = Len(stops) + 1
    <3>1. CASE k \in 1 .. Len(stops)
      BY <2>2, <2>9, <2>10, <2>11, <3>1 DEF Silent
    <3>2. CASE k = Len(stops) + 2
      BY <2>6, <2>9, <2>11, <3>2
    <3>3. QED BY <2>9, <2>10, <3>1, <3>2
  <2>12. Len(stops) + 1 \in DOMAIN out
    BY <2>9, <2>10
  <2>13. out[Len(out)].ev \in LastWords("anthropic")
    BY <2>3, <2>9 DEF LastWords
  <2>14. /\ Tells(out[Len(stops) + 1]) /\ Honest(out[Len(stops) + 1], r, n, failed)
         /\ \A k \in DOMAIN out : Tells(out[k]) => k = Len(stops) + 1
    BY <2>6, <2>9, <2>11
  <2>15. Telling("anthropic", out, r, n, failed)
    BY <2>9, <2>10, <2>12, <2>13, <2>14 DEF Telling
  <2>16. QED BY <2>15 DEF out
<1>3. QED BY <1>1, <1>2

\* Events of the responses surface that end nothing.
Mute(events) ==
  /\ IsSeq(events)
  /\ \A i \in DOMAIN events :
       /\ "ev" \in DOMAIN events[i]
       /\ events[i].ev \notin {"message_delta", "completed", "incomplete", "error", "chunk"}

ItemFields == {"seq", "items", "next"}

ItemsOK(e) == DOMAIN e = ItemFields /\ IsSeq(e.items)

LEMMA SendingFacts ==
  ASSUME NEW e, NEW events, IsSeq(events)
  PROVE  LET s == Sending(e, events) IN
           /\ ItemsOK(e) => ItemsOK(s.enc)
           /\ IsSeq(s.out) /\ Len(s.out) = Len(events)
           /\ \A i \in 1 .. Len(events) :
                s.out[i] = [events[i] EXCEPT !.seq = e.seq + i - 1]
<1> DEFINE s == Sending(e, events)
<1>1. /\ s.enc = [e EXCEPT !.seq = @ + Len(events)]
      /\ s.out = [i \in DOMAIN events |-> [events[i] EXCEPT !.seq = e.seq + i - 1]]
  BY DEF Sending
<1>2. ItemsOK(e) => ItemsOK(s.enc)
  BY <1>1 DEF ItemsOK, ItemFields
<1>3. Len(events) \in Nat /\ DOMAIN events = 1 .. Len(events)
  BY SeqFacts
<1> HIDE DEF s
<1>4. s.out = [i \in 1 .. Len(events) |-> s.out[i]]
  BY <1>1, <1>3
<1>5. IsSeq(s.out) /\ Len(s.out) = Len(events)
  BY <1>3, <1>4, TableFacts
<1>6. \A i \in 1 .. Len(events) : s.out[i] = [events[i] EXCEPT !.seq = e.seq + i - 1]
  BY <1>1, <1>3
<1>7. QED BY <1>2, <1>5, <1>6 DEF s

LEMMA SendingIsSilent ==
  ASSUME NEW e, NEW events, Mute(events)
  PROVE  Silent(Sending(e, events).out)
<1> DEFINE out == Sending(e, events).out
<1>1. IsSeq(events) /\ Len(events) \in Nat /\ DOMAIN events = 1 .. Len(events)
  BY SeqFacts DEF Mute
<1>2. /\ IsSeq(out) /\ Len(out) = Len(events)
      /\ \A i \in 1 .. Len(events) : out[i] = [events[i] EXCEPT !.seq = e.seq + i - 1]
  BY <1>1, SendingFacts
<1> HIDE DEF out
<1>3. DOMAIN out = 1 .. Len(events)
  BY <1>2, SeqFacts
<1>4. ASSUME NEW i \in DOMAIN out PROVE ~ Tells(out[i])
  <2>1. out[i].ev = events[i].ev
    BY <1>1, <1>2, <1>3 DEF Mute
  <2>2. QED BY <1>1, <1>3, <2>1 DEF Mute, Tells
<1>5. Silent(out)
  BY <1>4 DEF Silent
<1>6. QED BY <1>5 DEF out

\* One more mute event.
LEMMA MuteAppend ==
  ASSUME NEW events, Mute(events), NEW type,
         type \notin {"message_delta", "completed", "incomplete", "error", "chunk"},
         NEW index, NEW value
  PROVE  Mute(Append(events, Event(type, index, value)))
<1> DEFINE x == Event(type, index, value)
           more == Append(events, x)
<1>1. "ev" \in DOMAIN x /\ x.ev = type
  BY DEF Event
<1> HIDE DEF x
<1>2. IsSeq(events) /\ Len(events) \in Nat /\ DOMAIN events = 1 .. Len(events)
  BY SeqFacts DEF Mute
<1>3. /\ IsSeq(more) /\ Len(more) = Len(events) + 1
      /\ \A i \in 1 .. Len(events) : more[i] = events[i]
      /\ more[Len(events) + 1] = x
  BY <1>2, AppendFacts
<1> HIDE DEF more
<1>4. DOMAIN more = 1 .. Len(events) + 1
  BY <1>3, SeqFacts
<1>5. ASSUME NEW i \in DOMAIN more
      PROVE  /\ "ev" \in DOMAIN more[i]
             /\ more[i].ev \notin {"message_delta", "completed", "incomplete", "error", "chunk"}
  <2>1. CASE i \in 1 .. Len(events)
    BY <1>2, <1>3, <2>1 DEF Mute
  <2>2. CASE i = Len(events) + 1
    BY <1>1, <1>3, <2>2
  <2>3. QED BY <1>2, <1>4, <2>1, <2>2
<1>6. Mute(more)
  BY <1>3, <1>5 DEF Mute
<1>7. QED BY <1>6 DEF more, x

LEMMA MuteNothing == Mute(<<>>)
<1>1. <<>> \in Seq({}) /\ DOMAIN <<>> = {}
  OBVIOUS
<1>2. IsSeq(<<>>)
  BY <1>1, SeqIsSeq
<1>3. QED BY <1>1, <1>2 DEF Mute

LEMMA MuteConcat ==
  ASSUME NEW a, Mute(a), NEW b, Mute(b) PROVE Mute(a \o b)
<1>1. /\ IsSeq(a) /\ DOMAIN a = 1 .. Len(a) /\ IsSeq(b) /\ DOMAIN b = 1 .. Len(b)
      /\ Len(a) \in Nat /\ Len(b) \in Nat
  BY SeqFacts DEF Mute
<1> DEFINE c == a \o b
<1>2. /\ IsSeq(c) /\ Len(c) = Len(a) + Len(b)
      /\ \A i \in 1 .. Len(a) : c[i] = a[i]
      /\ \A i \in 1 .. Len(b) : c[Len(a) + i] = b[i]
  BY <1>1, ConcatFacts
<1> HIDE DEF c
<1>3. DOMAIN c = 1 .. Len(a) + Len(b)
  BY <1>2, SeqFacts
<1>4. ASSUME NEW i \in DOMAIN c
      PROVE  /\ "ev" \in DOMAIN c[i]
             /\ c[i].ev \notin {"message_delta", "completed", "incomplete", "error", "chunk"}
  <2>1. CASE i \in 1 .. Len(a)
    BY <1>1, <1>2, <2>1 DEF Mute
  <2>2. CASE i > Len(a)
    <3>1. i - Len(a) \in 1 .. Len(b) /\ Len(a) + (i - Len(a)) = i
      BY <1>1, <1>3, <2>2
    <3>2. c[i] = b[i - Len(a)]
      BY <1>2, <3>1
    <3>3. QED BY <1>1, <3>1, <3>2 DEF Mute
  <2>3. QED BY <1>1, <1>3, <2>1, <2>2
<1>5. Mute(c)
  BY <1>2, <1>4 DEF Mute
<1>6. QED BY <1>5 DEF c

LEMMA MuteEvent ==
  ASSUME NEW type, NEW index, NEW value,
         type \notin {"message_delta", "completed", "incomplete", "error", "chunk"}
  PROVE  "ev" \in DOMAIN Event(type, index, value)
         /\ Event(type, index, value).ev
              \notin {"message_delta", "completed", "incomplete", "error", "chunk"}
BY DEF Event

LEMMA MutePair ==
  ASSUME NEW a, NEW b,
         \A e \in {a, b} : "ev" \in DOMAIN e
           /\ e.ev \notin {"message_delta", "completed", "incomplete", "error", "chunk"}
  PROVE  Mute(<<a, b>>)
<1>1. <<a, b>> \in Seq({a, b}) /\ DOMAIN <<a, b>> = {1, 2} /\ <<a, b>>[1] = a /\ <<a, b>>[2] = b
  OBVIOUS
<1>2. IsSeq(<<a, b>>)
  BY <1>1, SeqIsSeq
<1>3. QED BY <1>1, <1>2 DEF Mute

LEMMA MuteSingle ==
  ASSUME NEW a, "ev" \in DOMAIN a,
         a.ev \notin {"message_delta", "completed", "incomplete", "error", "chunk"}
  PROVE  Mute(<<a>>)
<1>1. <<a>> \in Seq({a}) /\ DOMAIN <<a>> = {1} /\ <<a>>[1] = a
  OBVIOUS
<1>2. IsSeq(<<a>>)
  BY <1>1, SeqIsSeq
<1>3. QED BY <1>1, <1>2 DEF Mute

LEMMA MessageDoneIsMute == ASSUME NEW item PROVE Mute(MessageDone(item))
<1> DEFINE a == Event("text.done", item.index, item.body)
           b == Event("part.done", item.index, item.body)
           c == Event("item.done", item.index, item.body)
<1>1. MessageDone(item) = <<a, b, c>>
  BY DEF MessageDone
<1>2. \A e \in {a, b, c} : "ev" \in DOMAIN e
        /\ e.ev \notin {"message_delta", "completed", "incomplete", "error", "chunk"}
  BY MuteEvent
<1> HIDE DEF a, b, c
<1>3. /\ <<a, b, c>> \in Seq({a, b, c}) /\ DOMAIN <<a, b, c>> = {1, 2, 3}
      /\ <<a, b, c>>[1] = a /\ <<a, b, c>>[2] = b /\ <<a, b, c>>[3] = c
  OBVIOUS
<1>4. IsSeq(<<a, b, c>>)
  BY <1>3, SeqIsSeq
<1>5. QED BY <1>1, <1>2, <1>3, <1>4 DEF Mute

LEMMA ClosedIsSeq ==
  ASSUME NEW items, IsSeq(items), NEW which
  PROVE  IsSeq(Closed(items, which)) /\ Len(Closed(items, which)) = Len(items)
<1> DEFINE c == Closed(items, which)
<1>1. Len(items) \in Nat /\ DOMAIN items = 1 .. Len(items)
  BY SeqFacts
<1>2. c = [i \in DOMAIN items |-> IF i \in which THEN [items[i] EXCEPT !.closed = TRUE]
                                  ELSE items[i]]
  BY DEF Closed
<1> HIDE DEF c
<1>3. c = [i \in 1 .. Len(items) |-> c[i]]
  BY <1>1, <1>2
<1>4. IsSeq(c) /\ Len(c) = Len(items)
  BY <1>1, <1>3, TableFacts
<1>5. QED BY <1>4 DEF c

LEMMA CloseOpenMessageFacts ==
  ASSUME NEW items, IsSeq(items)
  PROVE  /\ IsSeq(CloseOpenMessage(items).items) /\ Mute(CloseOpenMessage(items).out)
<1>1. CloseOpenMessage(items).items = Closed(items, OpenMessage(items))
  BY DEF CloseOpenMessage
<1>2. \/ CloseOpenMessage(items).out = <<>>
      \/ CloseOpenMessage(items).out = MessageDone(items[Max(OpenMessage(items))])
  BY DEF CloseOpenMessage
<1>3. QED BY <1>1, <1>2, ClosedIsSeq, MuteNothing, MessageDoneIsMute

LEMMA CloseOpenToolsFacts ==
  ASSUME NEW items, IsSeq(items)
  PROVE  /\ IsSeq(CloseOpenTools(items).items) /\ Mute(CloseOpenTools(items).out)
<1> DEFINE open   == OpenItems(items, "function_call")
           nth(i) == CHOOSE p \in open : Cardinality({q \in open : q < p}) = i - 1
           out    == CloseOpenTools(items).out
<1>1. /\ CloseOpenTools(items).items = Closed(items, open)
      /\ out = [k \in 1 .. 2 * Cardinality(open) |->
                  CallDone(items[nth((k + 1) \div 2)])[2 - (k % 2)]]
  BY DEF CloseOpenTools
<1>2. Cardinality(open) \in Nat
  <2>1. open \subseteq 1 .. Len(items) /\ Len(items) \in Nat
    BY SeqFacts DEF OpenItems
  <2>2. IsFiniteSet(1 .. Len(items))
    BY <2>1, FS_Interval
  <2>3. QED BY <2>1, <2>2, FS_Subset, FS_CardinalityType
<1>3. PICK n \in Nat : n = 2 * Cardinality(open)
  BY <1>2
<1> HIDE DEF open, out, nth
<1>4. \A k \in 1 .. n : out[k] = CallDone(items[nth((k + 1) \div 2)])[2 - (k % 2)]
  BY <1>1, <1>3
<1>5. out = [k \in 1 .. n |-> out[k]]
  BY <1>1, <1>3
<1>6. IsSeq(out) /\ DOMAIN out = 1 .. n
  BY <1>5, TableFacts
<1>7. ASSUME NEW item, NEW b \in {1, 2}
      PROVE  /\ "ev" \in DOMAIN CallDone(item)[b]
             /\ CallDone(item)[b].ev
                  \notin {"message_delta", "completed", "incomplete", "error", "chunk"}
  <2>1. CASE b = 1
    <3>1. CallDone(item)[b] = Event("args.done", item.index, item.body)
      BY <2>1 DEF CallDone
    <3>2. QED BY <3>1, MuteEvent
  <2>2. CASE b = 2
    <3>1. CallDone(item)[b] = Event("item.done", item.index, item.body)
      BY <2>2 DEF CallDone
    <3>2. QED BY <3>1, MuteEvent
  <2>3. QED BY <2>1, <2>2
<1>8. ASSUME NEW k \in 1 .. n
      PROVE  /\ "ev" \in DOMAIN out[k]
             /\ out[k].ev \notin {"message_delta", "completed", "incomplete", "error", "chunk"}
  <2>1. 2 - (k % 2) \in {1, 2}
    <3>1. k % 2 \in 0 .. 1
      OBVIOUS
    <3>2. QED BY <3>1
  <2> DEFINE item == items[nth((k + 1) \div 2)]
             b    == 2 - (k % 2)
  <2>2. out[k] = CallDone(item)[b]
    BY <1>4
  <2> HIDE DEF item, b
  <2>3. b \in {1, 2}
    BY <2>1 DEF b
  <2>4. QED BY <1>7, <2>2, <2>3
<1>9. Mute(out)
  BY <1>6, <1>8 DEF Mute
<1>10. QED BY <1>1, <1>9, ClosedIsSeq DEF out

LEMMA ResponsesIsSilent ==
  ASSUME NEW e, ItemsOK(e), NEW em, em.k \in {"role", "content", "start", "args"}
  PROVE  LET r == ResponsesRender(e, em) IN
           /\ ItemsOK(r.enc)
           /\ IsSeq(r.out) /\ Silent(r.out)
<1> DEFINE r == ResponsesRender(e, em)
<1>1. ASSUME NEW d, ItemsOK(d), NEW events, Mute(events), r = Sending(d, events)
      PROVE  ItemsOK(r.enc) /\ IsSeq(r.out) /\ Silent(r.out)
  <2>1. IsSeq(events)
    BY <1>1 DEF Mute
  <2> HIDE DEF r
  <2>2. QED BY <1>1, <2>1, SendingFacts, SendingIsSilent
<1>2. ASSUME r = [enc |-> e, out |-> <<>>]
      PROVE  ItemsOK(r.enc) /\ IsSeq(r.out) /\ Silent(r.out)
  <2>1. r.enc = e /\ r.out = <<>>
    BY <1>2
  <2>2. IsSeq(<<>>) /\ Silent(<<>>)
    BY MuteNothing DEF Mute, Silent
  <2> HIDE DEF r
  <2>3. QED BY <2>1, <2>2
<1>3. CASE em.k = "role"
  <2> DEFINE a == Event("created", -1, <<>>)
             b == Event("in_progress", -1, <<>>)
  <2>1. r = Sending(e, <<a, b>>)
    BY <1>3 DEF ResponsesRender
  <2>2. \A x \in {a, b} : "ev" \in DOMAIN x
          /\ x.ev \notin {"message_delta", "completed", "incomplete", "error", "chunk"}
    BY MuteEvent
  <2> HIDE DEF a, b
  <2>3. Mute(<<a, b>>)
    BY <2>2, MutePair
  <2>4. QED BY <1>1, <2>1, <2>3
<1>4. CASE em.k = "content"
  <2> DEFINE fresh  == OpenMessage(e.items) = {}
             opened == IF fresh
                       THEN [e EXCEPT !.items = Append(@, Message(e.next)), !.next = @ + 1]
                       ELSE e
             pos    == Max(OpenMessage(opened.items))
             index  == opened.items[pos].index
             filled == [opened EXCEPT !.items[pos].body = @ \o em.value]
             before == IF fresh THEN <<Event("item.added", index, <<"message">>),
                                       Event("part.added", index, <<>>)>> ELSE <<>>
  <2>1. r = ItemContent(e, em.value)
    BY <1>4 DEF ResponsesRender
  <2>2. \/ r = [enc |-> e, out |-> <<>>]
        \/ r = Sending(filled, Append(before, Event("text.delta", index, em.value)))
    BY <2>1 DEF ItemContent
  <2>3. ItemsOK(opened)
    <3>1. CASE fresh
      <4>1. opened = [e EXCEPT !.items = Append(@, Message(e.next)), !.next = @ + 1]
        BY <3>1
      <4>2. /\ DOMAIN opened = ItemFields
            /\ opened.items = Append(e.items, Message(e.next))
        BY <4>1 DEF ItemsOK, ItemFields
      <4>3. IsSeq(Append(e.items, Message(e.next)))
        BY AppendFacts DEF ItemsOK
      <4>4. QED BY <4>2, <4>3 DEF ItemsOK
    <3>2. CASE ~ fresh
      BY <3>2
    <3>3. QED BY <3>1, <3>2
  <2> HIDE DEF opened, pos
  <2>4. ItemsOK(filled)
    <3>1. /\ DOMAIN filled = ItemFields
          /\ filled.items = [opened.items EXCEPT ![pos].body = @ \o em.value]
      BY <2>3 DEF ItemsOK, ItemFields
    <3> DEFINE items == filled.items
    <3>2. Len(opened.items) \in Nat /\ DOMAIN opened.items = 1 .. Len(opened.items)
      BY <2>3, SeqFacts DEF ItemsOK
    <3> HIDE DEF items
    <3>3. items = [i \in 1 .. Len(opened.items) |-> items[i]]
      BY <3>1, <3>2 DEF items
    <3>4. IsSeq(items)
      BY <3>2, <3>3, TableFacts
    <3>5. QED BY <3>1, <3>4 DEF ItemsOK, items
  <2> HIDE DEF filled
  <2>5. Mute(before)
    <3> DEFINE a == Event("item.added", index, <<"message">>)
               b == Event("part.added", index, <<>>)
    <3>1. \A x \in {a, b} : "ev" \in DOMAIN x
            /\ x.ev \notin {"message_delta", "completed", "incomplete", "error", "chunk"}
      BY MuteEvent
    <3>2. before = <<a, b>> \/ before = <<>>
      OBVIOUS
    <3> HIDE DEF a, b, before
    <3>3. Mute(<<a, b>>)
      BY <3>1, MutePair
    <3>4. QED BY <3>2, <3>3, MuteNothing
  <2> HIDE DEF before, index
  <2>6. Mute(Append(before, Event("text.delta", index, em.value)))
    BY <2>5, MuteAppend
  <2>7. QED BY <1>1, <1>2, <2>2, <2>4, <2>6
<1>5. CASE em.k = "start"
  <2> DEFINE before == CloseOpenMessage(e.items)
             event  == Event("item.added", e.next, <<"function_call">>)
             d      == [e EXCEPT !.items = Append(before.items, FunctionCall(em.index, e.next)),
                                 !.next = @ + 1]
  <2>1. r = Sending(d, Append(before.out, event))
    BY <1>5 DEF ResponsesRender, ItemToolStart
  <2>2. IsSeq(before.items) /\ Mute(before.out)
    BY CloseOpenMessageFacts DEF ItemsOK
  <2> HIDE DEF before
  <2>3. ItemsOK(d)
    <3>1. IsSeq(Append(before.items, FunctionCall(em.index, e.next)))
      BY <2>2, AppendFacts
    <3>2. /\ DOMAIN d = ItemFields
          /\ d.items = Append(before.items, FunctionCall(em.index, e.next))
      BY DEF ItemsOK, ItemFields
    <3>3. QED BY <3>1, <3>2 DEF ItemsOK
  <2> HIDE DEF d
  <2>4. Mute(Append(before.out, event))
    BY <2>2, MuteAppend
  <2>5. QED BY <1>1, <2>1, <2>3, <2>4
<1>6. CASE em.k = "args"
  <2> DEFINE open  == {i \in OpenItems(e.items, "function_call") : e.items[i].call = em.index}
             pos   == Min(open)
             d     == [e EXCEPT !.items[pos].body = @ \o em.value]
             event == Event("args.delta", e.items[pos].index, em.value)
  <2>1. \/ r = [enc |-> e, out |-> <<>>]
        \/ r = Sending(d, <<event>>)
    BY <1>6 DEF ResponsesRender, ItemToolArgs
  <2> HIDE DEF pos
  <2>2. ItemsOK(d)
    <3>1. /\ DOMAIN d = ItemFields
          /\ d.items = [e.items EXCEPT ![pos].body = @ \o em.value]
      BY DEF ItemsOK, ItemFields
    <3> DEFINE items == d.items
    <3>2. Len(e.items) \in Nat /\ DOMAIN e.items = 1 .. Len(e.items)
      BY SeqFacts DEF ItemsOK
    <3> HIDE DEF items
    <3>3. items = [i \in 1 .. Len(e.items) |-> items[i]]
      BY <3>1, <3>2 DEF items
    <3>4. IsSeq(items)
      BY <3>2, <3>3, TableFacts
    <3>5. QED BY <3>1, <3>4 DEF ItemsOK, items
  <2>3. "ev" \in DOMAIN event
        /\ event.ev \notin {"message_delta", "completed", "incomplete", "error", "chunk"}
    BY MuteEvent
  <2> HIDE DEF d, event
  <2>4. Mute(<<event>>)
    BY <2>3, MuteSingle
  <2>5. QED BY <1>1, <1>2, <2>1, <2>2, <2>4
<1>7. QED BY <1>3, <1>4, <1>5, <1>6

LEMMA ResponsesTells ==
  ASSUME NEW e, ItemsOK(e),
         NEW r \in Endings \cup {"none"}, NEW n, NEW failed \in BOOLEAN
  PROVE  LET out == ResponsesRender(e, Closing(r, n, failed)).out IN
           /\ IsSeq(out) /\ Len(out) \in Nat \ {0}
           /\ \A i \in 1 .. Len(out) - 1 : ~ Tells(out[i])
           /\ Telling("responses", <<out[Len(out)]>>, r, n, failed)
<1> DEFINE out == ResponsesRender(e, Closing(r, n, failed)).out
<1>1. ASSUME NEW d, NEW events, Mute(events), NEW last,
             {"ev", "tokens"} \subseteq DOMAIN last \/ (last.ev = "error" /\ "ev" \in DOMAIN last),
             last.ev \in {"completed", "incomplete", "error"},
             last.ev # "error" => last.tokens = n /\ ~ failed
                                  /\ (r = "length" <=> last.ev = "incomplete"),
             out = Sending(d, Append(events, last)).out
      PROVE  /\ IsSeq(out) /\ Len(out) \in Nat \ {0}
             /\ \A i \in 1 .. Len(out) - 1 : ~ Tells(out[i])
             /\ Telling("responses", <<out[Len(out)]>>, r, n, failed)
  <2> DEFINE all == Append(events, last)
  <2>1. IsSeq(events) /\ Len(events) \in Nat /\ DOMAIN events = 1 .. Len(events)
    BY <1>1, SeqFacts DEF Mute
  <2>2. /\ IsSeq(all) /\ Len(all) = Len(events) + 1
        /\ \A i \in 1 .. Len(events) : all[i] = events[i]
        /\ all[Len(events) + 1] = last
    BY <2>1, AppendFacts
  <2> HIDE DEF all
  <2>3. out = Sending(d, all).out
    BY <1>1 DEF all
  <2> HIDE DEF out
  <2>4. /\ IsSeq(out) /\ Len(out) = Len(all)
        /\ \A i \in 1 .. Len(all) : out[i] = [all[i] EXCEPT !.seq = d.seq + i - 1]
    BY <2>2, <2>3, SendingFacts
  <2>5. ASSUME NEW i \in 1 .. Len(out) - 1 PROVE ~ Tells(out[i])
    <3>1. i \in 1 .. Len(events) /\ i \in 1 .. Len(all)
      BY <2>1, <2>2, <2>4
    <3>2. out[i] = [events[i] EXCEPT !.seq = d.seq + i - 1]
      BY <2>2, <2>4, <3>1
    <3>3. out[i].ev = events[i].ev
      BY <1>1, <2>1, <3>1, <3>2 DEF Mute
    <3>4. QED BY <1>1, <2>1, <3>1, <3>3 DEF Mute, Tells
  <2> DEFINE v == out[Len(out)]
  <2>6. v = [last EXCEPT !.seq = d.seq + Len(out) - 1]
    BY <2>1, <2>2, <2>4
  <2>7. v.ev = last.ev /\ (last.ev # "error" => v.tokens = last.tokens)
    BY <1>1, <2>6
  <2> HIDE DEF v
  <2>8. HowTold(v) = last.ev /\ (last.ev # "error" => TokensTold(v) = last.tokens)
    BY <1>1, <2>7 DEF HowTold, TokensTold
  <2>9. Tells(v) /\ Honest(v, r, n, failed)
    BY <1>1, <2>7, <2>8 DEF Tells, Honest, CutShort
  <2>10. v.ev \in LastWords("responses")
    BY <1>1, <2>7 DEF LastWords
  <2>11. Telling("responses", <<v>>, r, n, failed)
    BY <2>9, <2>10, TellsAlone
  <2>12. Len(out) \in Nat \ {0}
    BY <2>1, <2>2, <2>4
  <2>13. QED BY <2>4, <2>5, <2>11, <2>12 DEF v
<1>2. CASE failed
  <2> DEFINE last == Event("error", -1, <<>>)
  <2>1. Closing(r, n, failed).k = "error"
    BY <1>2 DEF Closing, Failure
  <2>2. out = Sending(e, <<last>>).out
    BY <2>1 DEF ResponsesRender
  <2>3. last.ev = "error" /\ "ev" \in DOMAIN last
    BY DEF Event
  <2> HIDE DEF last
  <2>4. Append(<<>>, last) = <<last>>
    OBVIOUS
  <2>5. out = Sending(e, Append(<<>>, last)).out
    BY <2>2, <2>4
  <2> HIDE DEF out
  <2>6. /\ IsSeq(out) /\ Len(out) \in Nat \ {0}
        /\ \A i \in 1 .. Len(out) - 1 : ~ Tells(out[i])
        /\ Telling("responses", <<out[Len(out)]>>, r, n, failed)
    BY <1>1, <2>3, <2>5, MuteNothing
  <2>7. QED BY <2>6 DEF out
<1>3. CASE ~ failed
  <2> DEFINE text  == CloseOpenMessage(e.items)
             tools == CloseOpenTools(text.items)
             bare  == tools.items = <<>>
             items == IF bare THEN <<[Message(0) EXCEPT !.closed = TRUE]>> ELSE tools.items
             last  == [ev     |-> IF AsStr(r) = "length" THEN "incomplete" ELSE "completed",
                       items  |-> ItemJson(items),
                       tokens |-> n,
                       seq    |-> 0]
             d     == [e EXCEPT !.items = items, !.next = IF bare THEN 1 ELSE @]
  <2>1. /\ Closing(r, n, failed).k = "final" /\ Closing(r, n, failed).reason = AsStr(r)
        /\ Closing(r, n, failed).tokens = n
    BY <1>3 DEF Closing, Final
  <2>2. ResponsesRender(e, Closing(r, n, failed)) = ItemFinal(e, AsStr(r), n)
    BY <2>1 DEF ResponsesRender
  <2>3. out = Sending(d, Append(text.out \o tools.out, last)).out
    BY <2>2 DEF ItemFinal
  <2>4. Mute(text.out) /\ IsSeq(text.items)
    BY CloseOpenMessageFacts DEF ItemsOK
  <2>5. Mute(tools.out)
    BY <2>4, CloseOpenToolsFacts
  <2>6. /\ {"ev", "tokens"} \subseteq DOMAIN last /\ last.tokens = n
        /\ last.ev \in {"completed", "incomplete"}
        /\ AsStr(r) = "length" <=> last.ev = "incomplete"
    OBVIOUS
  <2> HIDE DEF text, tools, last, d
  <2>7. Mute(text.out \o tools.out)
    BY <2>4, <2>5, MuteConcat
  <2>8. last.ev # "error" => last.tokens = n /\ ~ failed
                             /\ (r = "length" <=> last.ev = "incomplete")
    BY <1>3, <2>6, AsStrIs
  <2> HIDE DEF out
  <2>9. /\ IsSeq(out) /\ Len(out) \in Nat \ {0}
        /\ \A i \in 1 .. Len(out) - 1 : ~ Tells(out[i])
        /\ Telling("responses", <<out[Len(out)]>>, r, n, failed)
    BY <1>1, <2>3, <2>6, <2>7, <2>8
  <2>10. QED BY <2>9 DEF out
<1>4. QED BY <1>2, <1>3

\* The frames of an emission that ends nothing are silent.
LEMMA FramesAreSilent ==
  ASSUME api \in Apis, NEW em, em.k \in {"role", "content", "start", "args"},
         api = "anthropic" => GoesOn(enc), api = "responses" => ItemsOK(enc)
  PROVE  LET r == Rendered(em) IN
           /\ IsSeq(r.frames) /\ \A i \in 1 .. Len(r.frames) : Silent(r.frames[i])
           /\ api = "responses" => ItemsOK(r.enc)
<1> DEFINE r == Rendered(em)
<1>1. CASE api = "chat"
  <2> DEFINE e == ChatRender(em)
  <2>1. r.frames = <<<<e>>>>
    BY <1>1 DEF Rendered
  <2>2. ~ Tells(e)
    BY ChatIsSilent
  <2> HIDE DEF e, r
  <2>3. Silent(<<e>>)
    BY <2>2 DEF Silent
  <2>4. <<<<e>>>> \in Seq({<<e>>}) /\ Len(<<<<e>>>>) = 1 /\ <<<<e>>>>[1] = <<e>>
    OBVIOUS
  <2>5. IsSeq(<<<<e>>>>)
    BY <2>4, SeqIsSeq
  <2>6. QED BY <1>1, <2>1, <2>3, <2>4, <2>5 DEF r
<1>2. CASE api = "anthropic"
  <2> DEFINE out == AnthropicRender(enc, em).out
  <2>1. r.frames = IF out = <<>> THEN <<>> ELSE <<out>>
    BY <1>2 DEF Rendered
  <2>2. Silent(out)
    BY <1>2, AnthropicIsSilent
  <2> HIDE DEF out, r
  <2>3. <<out>> \in Seq({out}) /\ Len(<<out>>) = 1 /\ <<out>>[1] = out
    OBVIOUS
  <2>4. IsSeq(<<out>>) /\ IsSeq(<<>>) /\ Len(<<>>) = 0
    BY <2>3, SeqIsSeq, MuteNothing DEF Mute
  <2>5. QED BY <1>2, <2>1, <2>2, <2>3, <2>4 DEF r
<1>3. CASE api = "responses"
  <2> DEFINE out == ResponsesRender(enc, em).out
  <2>1. r.frames = [i \in DOMAIN out |-> <<out[i]>>] /\ r.enc = ResponsesRender(enc, em).enc
    BY <1>3 DEF Rendered
  <2>2. IsSeq(out) /\ Silent(out) /\ ItemsOK(ResponsesRender(enc, em).enc)
    BY <1>3, ResponsesIsSilent
  <2> DEFINE frames == r.frames
  <2> HIDE DEF out, r, frames
  <2>3. Len(out) \in Nat /\ DOMAIN out = 1 .. Len(out)
    BY <2>2, SeqFacts
  <2>4. frames = [i \in 1 .. Len(out) |-> frames[i]] /\ \A i \in 1 .. Len(out) : frames[i] = <<out[i]>>
    BY <2>1, <2>3 DEF frames
  <2>5. IsSeq(frames) /\ Len(frames) = Len(out)
    BY <2>3, <2>4, TableFacts
  <2>6. \A i \in 1 .. Len(out) : Silent(<<out[i]>>)
    BY <2>2, <2>3 DEF Silent
  <2>7. QED BY <2>1, <2>2, <2>4, <2>5, <2>6 DEF frames, r
<1>4. QED BY <1>1, <1>2, <1>3 DEF Apis

\* The frames of the emission that ends an answer tell it, the last of them.
LEMMA FramesTell ==
  ASSUME api \in Apis,
         api = "anthropic" => GoesOn(enc) /\ IsFiniteSet(DOMAIN enc.tools),
         api = "responses" => ItemsOK(enc),
         NEW r \in Endings \cup {"none"}, NEW n, NEW failed \in BOOLEAN
  PROVE  LET frames == Rendered(Closing(r, n, failed)).frames IN
           /\ IsSeq(frames) /\ Len(frames) \in Nat \ {0}
           /\ \A i \in 1 .. Len(frames) - 1 : Silent(frames[i])
           /\ Telling(api, frames[Len(frames)], r, n, failed)
<1> DEFINE em     == Closing(r, n, failed)
           frames == Rendered(em).frames
<1>1. ASSUME NEW frame, Telling(api, frame, r, n, failed), frames = <<frame>>
      PROVE  /\ IsSeq(frames) /\ Len(frames) \in Nat \ {0}
             /\ \A i \in 1 .. Len(frames) - 1 : Silent(frames[i])
             /\ Telling(api, frames[Len(frames)], r, n, failed)
  <2>1. <<frame>> \in Seq({frame}) /\ Len(<<frame>>) = 1 /\ <<frame>>[1] = frame
    OBVIOUS
  <2>2. IsSeq(<<frame>>)
    BY <2>1, SeqIsSeq
  <2> HIDE DEF frames
  <2>3. QED BY <1>1, <2>1, <2>2
<1>2. CASE api = "chat"
  <2>1. frames = <<<<ChatRender(em)>>>>
    BY <1>2 DEF Rendered
  <2>2. Telling(api, <<ChatRender(em)>>, r, n, failed)
    BY <1>2, ChatTells
  <2> HIDE DEF frames, em
  <2>3. QED BY <1>1, <2>1, <2>2 DEF frames, em
<1>3. CASE api = "anthropic"
  <2> DEFINE out == AnthropicRender(enc, em).out
  <2>1. frames = IF out = <<>> THEN <<>> ELSE <<out>>
    BY <1>3 DEF Rendered
  <2>2. Telling(api, out, r, n, failed)
    BY <1>3, AnthropicTells
  <2>3. out # <<>>
    BY <2>2 DEF Telling
  <2> HIDE DEF out
  <2>4. frames = <<out>>
    BY <2>1, <2>3
  <2>5. QED BY <1>1, <2>2, <2>4
<1>4. CASE api = "responses"
  <2> DEFINE out == ResponsesRender(enc, em).out
  <2>1. frames = [i \in DOMAIN out |-> <<out[i]>>]
    BY <1>4 DEF Rendered
  <2>2. /\ IsSeq(out) /\ Len(out) \in Nat \ {0}
        /\ \A i \in 1 .. Len(out) - 1 : ~ Tells(out[i])
        /\ Telling(api, <<out[Len(out)]>>, r, n, failed)
    BY <1>4, ResponsesTells
  <2> HIDE DEF out, frames
  <2>3. DOMAIN out = 1 .. Len(out)
    BY <2>2, SeqFacts
  <2>4. frames = [i \in 1 .. Len(out) |-> frames[i]] /\ \A i \in 1 .. Len(out) : frames[i] = <<out[i]>>
    BY <2>1, <2>3
  <2>5. IsSeq(frames) /\ Len(frames) = Len(out)
    BY <2>2, <2>4, TableFacts
  <2>6. \A i \in 1 .. Len(out) - 1 : Silent(<<out[i]>>)
    BY <2>2 DEF Silent
  <2>7. QED BY <2>2, <2>4, <2>5, <2>6 DEF frames
<1>5. QED BY <1>2, <1>3, <1>4 DEF Apis

-----------------------------------------------------------------------------
(* The inductive invariant *)

\* What the loop knows of the end is what the job's events said.
Counted ==
  /\ task.tokens = Carried
  /\ task.reason = "length" <=> Ended("length")
  /\ Ended("failed") => task.failed
  /\ task.at \in {"new", "translated", "loop"} => task.reason = "none"
  /\ reply.status = 200 => task.at = "answered"
  /\ HonestReply(reply, task.reason, task.tokens, task.failed)

\* The first n frames tell nothing of the end.
Quiet(frames, n) == \A f \in 1 .. n : Silent(frames[f])

\* The n-th frame is the first to tell it.
ToldAt(surface, frames, n, reason, tokens, failed) ==
  /\ n \in 1 .. Len(frames)
  /\ Quiet(frames, n - 1)
  /\ Telling(surface, frames[n], reason, tokens, failed)

Past == {"cancel", "sentinel", "closed"}

\* The end is told, and for the chat surface its last word follows; or nobody
\* is there to be told.
Settled ==
  \/ Quiet(wire, Len(wire)) /\ client = "gone"
  \/ /\ ToldAt(api, wire, Len(wire), task.reason, task.tokens, task.failed)
     /\ task.at = "closed" /\ api = "chat" => client = "gone"
  \/ /\ ToldAt(api, wire, Len(wire) - 1, task.reason, task.tokens, task.failed)
     /\ api = "chat" /\ task.at = "closed"
     /\ wire[Len(wire)] = <<ChatDone>>

\* The encoder has yet to render: the loop goes on, or its ending waits.
ToRender == Rendering \/ task.at \notin Past \cup {"return"}

CanEncode ==
  stream /\ ToRender => /\ api = "responses" => ItemsOK(enc)
                        /\ api = "anthropic" => IsFiniteSet(DOMAIN enc.tools)

\* What stands on the wire and what is about to, by the stage of the loop.
Wired ==
  /\ api \in Apis /\ stream \in BOOLEAN
  /\ IsSeq(wire) /\ IsSeq(task.frames)
  /\ ~ stream => wire = <<>> /\ task.frames = <<>>
  /\ task.at \notin Past \cup {"return"} =>
       Quiet(wire, Len(wire)) /\ Quiet(task.frames, Len(task.frames))
  /\ task.at = "return" /\ task.todo # <<>> =>
       /\ Quiet(wire, Len(wire))
       /\ task.todo[1] = Closing(task.reason, task.tokens, task.failed)
       /\ task.frames # <<>> =>
            ToldAt(api, task.frames, Len(task.frames), task.reason, task.tokens, task.failed)
  /\ stream /\ (task.at \in Past \/ (task.at = "return" /\ task.todo = <<>>)) => Settled
  /\ task.at \in {"sentinel", "closed"} => stream
  /\ task.at = "sentinel" => api = "chat"

LEMMA CountedInitially == Init => Counted
<1> SUFFICES ASSUME Init PROVE Counted
  OBVIOUS
<1>1. /\ task.at = "new" /\ task.tokens = 0 /\ task.reason = "none" /\ task.failed = FALSE
      /\ seen[R] = <<>> /\ reply.status = 0
  BY DEF Init, NewTask, Events!Init, NoReply
<1>2. Carried = 0
  <2>1. {i \in DOMAIN seen[R] : seen[R][i].kind = "token"} = {}
    BY <1>1
  <2>2. QED BY <2>1, FS_EmptySet DEF Carried
<1>3. ~ Ended("length") /\ ~ Ended("failed")
  BY <1>1 DEF Ended
<1>4. QED BY <1>1, <1>2, <1>3 DEF Counted, HonestReply

LEMMA WiredInitially == Init => Wired /\ CanEncode
<1> SUFFICES ASSUME Init PROVE Wired /\ CanEncode
  OBVIOUS
<1>1. /\ task.at = "new" /\ task.frames = <<>> /\ wire = <<>>
      /\ api \in Apis /\ stream \in BOOLEAN /\ enc = NewEncoder(api)
  BY DEF Init, NewTask
<1>2. IsSeq(<<>>) /\ Len(<<>>) = 0
  BY MuteNothing DEF Mute
<1>3. api = "responses" => ItemsOK(enc)
  <2>1. SUFFICES ASSUME api = "responses" PROVE ItemsOK(enc)
    OBVIOUS
  <2>2. enc = NewResponses
    BY <1>1, <2>1 DEF NewEncoder
  <2>3. DOMAIN enc = ItemFields /\ enc.items = <<>>
    BY <2>2 DEF NewResponses, ItemFields
  <2>4. QED BY <1>2, <2>3 DEF ItemsOK
<1>4. api = "anthropic" => IsFiniteSet(DOMAIN enc.tools)
  <2>1. SUFFICES ASSUME api = "anthropic" PROVE IsFiniteSet(DOMAIN enc.tools)
    OBVIOUS
  <2>2. enc = NewAnthropic
    BY <1>1, <2>1 DEF NewEncoder
  <2>3. enc.tools = <<>>
    BY <2>2 DEF NewAnthropic
  <2>4. DOMAIN enc.tools = {}
    BY <2>3
  <2>5. QED BY <2>4, FS_EmptySet
<1>5. Quiet(wire, Len(wire)) /\ Quiet(task.frames, Len(task.frames))
  BY <1>1, <1>2 DEF Quiet
<1>6. QED BY <1>1, <1>2, <1>3, <1>4, <1>5 DEF Wired, CanEncode, Past

-----------------------------------------------------------------------------
(* The count of the loop *)

\* An event of the job is read.
LEMMA ReadCounts ==
  ASSUME JobType, Events!Read(R)
  PROVE  LET e == Head(chan[R]) IN
           /\ e \in JobEvents
           /\ \A k : Ended(k)' <=> e.kind = k
           /\ e.kind = "token" => Carried' = Carried + 1
           /\ e.kind # "token" => Carried' = Carried
<1> DEFINE e == Head(chan[R])
           s == seen[R]
           tokens(q) == {i \in DOMAIN q : q[i].kind = "token"}
<1>1. /\ s \in Seq(JobEvents) /\ chan[R] \in Seq(JobEvents) /\ chan[R] # <<>>
      /\ seen'[R] = Append(s, e)
  BY DEF JobType, Events!Read
<1>2. e \in JobEvents
  BY <1>1
<1> HIDE DEF e, s
<1>3. /\ Len(s) \in Nat /\ DOMAIN s = 1 .. Len(s)
      /\ Append(s, e) # <<>> /\ Len(Append(s, e)) = Len(s) + 1
      /\ DOMAIN Append(s, e) = 1 .. Len(s) + 1
      /\ Append(s, e)[Len(s) + 1] = e
      /\ \A i \in 1 .. Len(s) : Append(s, e)[i] = s[i]
  BY <1>1, <1>2
<1>4. ASSUME NEW k PROVE Ended(k)' <=> e.kind = k
  <2>1. Ended(k)' <=> Append(s, e) # <<>> /\ Append(s, e)[Len(Append(s, e))].kind = k
    BY <1>1 DEF Ended, Last
  <2>2. QED BY <1>3, <2>1
<1>5. Carried = Cardinality(tokens(s)) /\ Carried' = Cardinality(tokens(Append(s, e)))
  BY <1>1 DEF Carried, s
<1>6. IsFiniteSet(tokens(s))
  <2>1. IsFiniteSet(1 .. Len(s)) /\ tokens(s) \subseteq 1 .. Len(s)
    BY <1>3, FS_Interval
  <2>2. QED BY <2>1, FS_Subset
<1>7. CASE e.kind = "token"
  <2>1. tokens(Append(s, e)) = tokens(s) \cup {Len(s) + 1} /\ Len(s) + 1 \notin tokens(s)
    BY <1>3, <1>7
  <2> HIDE DEF tokens
  <2>2. Cardinality(tokens(Append(s, e))) = Cardinality(tokens(s)) + 1
    BY <1>6, <2>1, FS_AddElement
  <2>3. QED BY <1>2, <1>4, <1>5, <1>7, <2>2 DEF e
<1>8. CASE e.kind # "token"
  <2>1. tokens(Append(s, e)) = tokens(s)
    BY <1>3, <1>8
  <2>2. QED BY <1>2, <1>4, <1>5, <1>8, <2>1 DEF e
<1>9. QED BY <1>7, <1>8

\* Nothing is read, and the loop's count stays.
LEMMA CountedStays ==
  ASSUME Answering, Counted, Answering', seen' = seen,
         task'.tokens = task.tokens, task'.reason = task.reason,
         task.failed => task'.failed,
         task'.at \in {"new", "translated", "loop"} => task.at \in {"new", "translated", "loop"},
         \/ reply' = reply /\ (task.at = "answered" => task' = task)
         \/ /\ task.at # "answered" /\ task'.at = "answered"
            /\ HonestReply(reply', task'.reason, task'.tokens, task'.failed)
  PROVE  Counted'
<1>1. Carried' = Carried /\ (Ended("length")' <=> Ended("length"))
      /\ (Ended("failed")' <=> Ended("failed"))
  BY DEF Carried, Ended
<1>2. task.failed \in BOOLEAN /\ task'.failed \in BOOLEAN
  BY DEF Answering, TaskType
<1>3. /\ reply'.status = 200 => task'.at = "answered"
      /\ HonestReply(reply', task'.reason, task'.tokens, task'.failed)
  BY <1>2 DEF Counted, HonestReply
<1>4. (Ended("failed") => task.failed) /\ (Ended("failed")' => task'.failed)
  BY <1>1, <1>2 DEF Counted
<1>5. QED BY <1>1, <1>3, <1>4 DEF Counted

LEMMA ReadsKeepCount ==
  ASSUME Answering, Counted, Answering',
         TakeToken \/ TakeGarbage \/ TakeFailed \/ TakeDone
  PROVE  Counted'
<1> DEFINE e == Head(chan[R])
<1>1. /\ Events!Read(R) /\ task.at = "loop" /\ task.reason = "none" /\ reply' = reply
      /\ reply.status # 200 /\ JobType /\ DOMAIN task = Fields
      /\ task.tokens = Carried /\ task.tokens \in Nat
  BY DEF TakeToken, TakeGarbage, TakeFailed, TakeDone, AtLoop, Counted, Answering, TaskType
<1>2. /\ e \in JobEvents
      /\ \A k : Ended(k)' <=> e.kind = k
      /\ e.kind = "token" => Carried' = Carried + 1
      /\ e.kind # "token" => Carried' = Carried
  BY <1>1, ReadCounts
<1>3. ASSUME task'.tokens = Carried', task'.reason = "length" <=> e.kind = "length",
             e.kind = "failed" => task'.failed, task'.at = "loop" => task'.reason = "none",
             task'.at \in {"loop", "flush", "final"}
      PROVE  Counted'
  BY <1>1, <1>2, <1>3 DEF Counted, HonestReply
<1>4. CASE TakeToken
  <2>1. PICK b \in SeqOf(Kinds, MaxBatch), hit \in BOOLEAN :
          task' = [task EXCEPT !.todo = b, !.tokens = @ + 1,
                               !.reason = IF hit THEN "stop" ELSE @,
                               !.at = IF hit THEN "flush" ELSE "loop"]
    BY <1>4 DEF TakeToken
  <2>2. /\ task'.tokens = task.tokens + 1
        /\ task'.reason = IF hit THEN "stop" ELSE "none"
        /\ task'.at = IF hit THEN "flush" ELSE "loop"
    BY <1>1, <2>1 DEF Fields
  <2>3. e.kind = "token"
    BY <1>4 DEF TakeToken
  <2> HIDE DEF e
  <2>4. QED BY <1>1, <1>2, <1>3, <2>2, <2>3
<1>5. CASE TakeGarbage
  <2>1. task' = [task EXCEPT !.failed = TRUE, !.tokens = @ + 1, !.at = "final"]
        /\ e.kind = "token"
    BY <1>5 DEF TakeGarbage
  <2>2. task'.tokens = task.tokens + 1 /\ task'.at = "final" /\ task'.reason = task.reason
    BY <1>1, <2>1 DEF Fields
  <2> HIDE DEF e
  <2>3. QED BY <1>1, <1>2, <1>3, <2>1, <2>2
<1>6. CASE TakeFailed
  <2>1. task' = [task EXCEPT !.failed = TRUE, !.at = "final"] /\ e.kind = "failed"
    BY <1>6 DEF TakeFailed
  <2>2. /\ task'.tokens = task.tokens /\ task'.at = "final" /\ task'.reason = task.reason
        /\ task'.failed
    BY <1>1, <2>1 DEF Fields
  <2> HIDE DEF e
  <2>3. QED BY <1>1, <1>2, <1>3, <2>1, <2>2
<1>7. CASE TakeDone
  <2>1. /\ task' = [task EXCEPT !.reason = e.kind, !.at = "flush"]
        /\ e.kind \notin {"token", "failed"}
    BY <1>7 DEF TakeDone
  <2>2. task'.tokens = task.tokens /\ task'.at = "flush" /\ task'.reason = e.kind
    BY <1>1, <2>1 DEF Fields
  <2> HIDE DEF e
  <2>3. QED BY <1>1, <1>2, <1>3, <2>1, <2>2
<1>8. QED BY <1>4, <1>5, <1>6, <1>7

\* The loop passes from one stage to the next.
LEMMA StagesKeepCount ==
  ASSUME Answering, Counted, Answering',
         \/ TakeClosed \/ Flush \/ Finish \/ Return \/ Cancel \/ Sentinel \/ DropHandler
         \/ Submitted
  PROVE  Counted'
<1>1. /\ seen' = seen /\ reply' = reply /\ DOMAIN task = Fields
      /\ task.at \in {"loop", "flush", "final", "return", "cancel", "sentinel", "translated"}
  BY DEF TakeClosed, Flush, Finish, Return, Cancel, Sentinel, DropHandler, Submitted, AtLoop,
         job, Events!Drop, Events!Open, Answering, TaskType
<1>2. ASSUME task'.tokens = task.tokens, task'.reason = task.reason,
             task'.failed = task.failed \/ task'.failed = TRUE,
             task'.at \in {"flush", "final", "return", "cancel", "sentinel", "closed", "dropped"}
             \/ task.at = "translated"
      PROVE  Counted'
  BY <1>1, <1>2, CountedStays
<1>3. CASE TakeClosed
  BY <1>1, <1>2, <1>3 DEF TakeClosed, Fields
<1>4. CASE Flush
  <2>1. \/ \E b : task' = [task EXCEPT !.todo = b, !.at = "final"]
        \/ task' = [task EXCEPT !.failed = TRUE, !.at = "final"]
    BY <1>4 DEF Flush
  <2>2. QED BY <1>1, <1>2, <2>1 DEF Fields
<1>5. CASE Finish
  BY <1>1, <1>2, <1>5 DEF Finish, Fields
<1>6. CASE Return \/ DropHandler
  BY <1>1, <1>2, <1>6 DEF Return, DropHandler, Fields
<1>7. CASE Cancel
  BY <1>1, <1>2, <1>7 DEF Cancel, Fields
<1>8. CASE Sentinel
  BY <1>1, <1>2, <1>8 DEF Sentinel, Fields
<1>9. CASE Submitted
  BY <1>1, <1>2, <1>9 DEF Submitted, Fields
<1>10. QED BY <1>3, <1>4, <1>5, <1>6, <1>7, <1>8, <1>9

\* The answers of the three surfaces are honest.
LEMMA AnswerIsHonest ==
  ASSUME api \in Apis, task.reason \in Endings \cup {"none"}, ~ task.failed
  PROVE  HonestReply(NonStreamJson, task.reason, task.tokens, task.failed)
<1> DEFINE reason == AsStr(task.reason)
<1>1. Result.reason = reason /\ Result.tokens = task.tokens
  BY DEF Result
<1>2. reason \in {"stop", "length"} /\ (task.reason = "length" <=> reason = "length")
  BY AsStrIs
<1> HIDE DEF reason
<1>3. CASE api = "chat"
  <2>1. NonStreamJson.ending = reason /\ NonStreamJson.tokens = task.tokens
    BY <1>1, <1>3 DEF NonStreamJson, ChatJson
  <2>2. QED BY <1>2, <2>1 DEF HonestReply, CutShort
<1>4. CASE api = "anthropic"
  <2>1. /\ NonStreamJson.ending = StopReason(Result.calls > 0, reason)
        /\ NonStreamJson.tokens = task.tokens
    BY <1>1, <1>4 DEF NonStreamJson, AnthropicJson
  <2>2. NonStreamJson.ending # "tool_use" =>
          NonStreamJson.ending = IF reason = "length" THEN "max_tokens" ELSE "end_turn"
    BY <2>1 DEF StopReason
  <2>3. QED BY <1>2, <2>1, <2>2 DEF HonestReply, CutShort
<1>5. CASE api = "responses"
  <2>1. /\ NonStreamJson.ending = IF reason = "length" THEN "incomplete" ELSE "completed"
        /\ NonStreamJson.tokens = task.tokens
    BY <1>1, <1>5 DEF NonStreamJson, ResponsesJson
  <2>2. QED BY <1>2, <2>1 DEF HonestReply, CutShort
<1>6. QED BY <1>3, <1>4, <1>5 DEF Apis

\* An answer that is no stream tells what the loop counted, or refuses.
LEMMA AnswersKeepCount ==
  ASSUME Answering, Counted, api \in Apis, Answering',
         Translate \/ NoPrompt \/ Rejected \/ Respond
  PROVE  Counted'
<1>1. /\ seen' = seen /\ DOMAIN task = Fields /\ task.at \in {"new", "translated", "cancel"}
  BY DEF Translate, NoPrompt, Rejected, Respond, job, Answering, TaskType
<1>2. ASSUME task'.tokens = task.tokens, task'.reason = task.reason,
             task'.failed = task.failed,
             \/ task'.at = "translated" /\ task.at = "new" /\ reply' = reply
             \/ /\ task'.at = "answered"
                /\ HonestReply(reply', task.reason, task.tokens, task.failed)
      PROVE  Counted'
  BY <1>1, <1>2, CountedStays
<1>3. CASE Translate \/ NoPrompt \/ Rejected
  <2>1. \/ task.at = "new" /\ task' = [task EXCEPT !.at = "translated"] /\ reply' = reply
        \/ \E n \in {400, 429, 500} :
             task' = [task EXCEPT !.at = "answered"] /\ reply' = Refusal(n)
    BY <1>3 DEF Translate, NoPrompt, Rejected, Answer
  <2>2. \A n \in {400, 429, 500} :
          HonestReply(Refusal(n), task.reason, task.tokens, task.failed)
    BY DEF Refusal, HonestReply
  <2>3. QED BY <1>1, <1>2, <2>1, <2>2 DEF Fields
<1>4. CASE Respond
  <2>1. /\ task' = [task EXCEPT !.at = "answered", !.cancelled = TRUE]
        /\ reply' = IF task.failed THEN Refusal(500) ELSE NonStreamJson
    BY <1>4 DEF Respond
  <2>2. HonestReply(Refusal(500), task.reason, task.tokens, task.failed)
    BY DEF Refusal, HonestReply
  <2>3. ~ task.failed => HonestReply(NonStreamJson, task.reason, task.tokens, task.failed)
    BY AnswerIsHonest DEF Answering, TaskType
  <2>4. HonestReply(reply', task.reason, task.tokens, task.failed)
    BY <2>1, <2>2, <2>3
  <2>5. QED BY <1>1, <1>2, <2>1, <2>4 DEF Fields
<1>5. QED BY <1>3, <1>4

\* Frames are made and sent.
LEMMA SendsKeepCount ==
  ASSUME Answering, Counted, Answering', Render \/ SendFrame \/ SendFails
  PROVE  Counted'
<1>1. /\ seen' = seen /\ reply' = reply /\ DOMAIN task = Fields /\ task.at # "answered"
      /\ task' \in {Left(task), Unheard(task)} \/ \E f : task' = [task EXCEPT !.frames = f]
  <2>1. task.todo # <<>>
    BY DEF Render, Rendering, SendFrame, SendFails
  <2>2. task.at # "answered"
    BY <2>1 DEF Answering, Stages, Busy, Idle
  <2>3. task' \in {Left(task), Unheard(task)} \/ \E f : task' = [task EXCEPT !.frames = f]
    BY DEF Render, SendFrame, SendFails
  <2>4. seen' = seen /\ reply' = reply
    BY DEF Render, SendFrame, SendFails, job
  <2>5. QED BY <2>2, <2>3, <2>4 DEF Answering, TaskType
<1>2. /\ task'.tokens = task.tokens /\ task'.reason = task.reason
      /\ task'.failed = task.failed /\ task'.at \in {task.at, "return"}
  BY <1>1 DEF Left, Unheard, Fields
<1>3. QED BY <1>1, <1>2, CountedStays

LEMMA CountedKept ==
  ASSUME Answering, Counted, api \in Apis, [Next]_vars, Answering' PROVE Counted'
<1>1. CASE UNCHANGED <<task, seen, reply>>
  BY <1>1, CountedStays
<1>2. CASE Worker \/ WorkerBreaks \/ ReadFrame \/ Disconnect \/ UNCHANGED vars
  <2>1. UNCHANGED <<task, seen, reply>>
    BY <1>2 DEF Worker, WorkerToken, WorkerEnds, WorkerBreaks, Aside, ReadFrame, Disconnect,
                vars, job, Events!Emit, Events!End, Events!Break
  <2>2. QED BY <1>1, <2>1
<1>3. QED
  BY <1>2, ReadsKeepCount, StagesKeepCount, AnswersKeepCount, SendsKeepCount
     DEF Next, Handler, Loop

-----------------------------------------------------------------------------
(* What is told *)

LEMMA QuietNothing == IsSeq(<<>>) /\ Len(<<>>) = 0 /\ Quiet(<<>>, Len(<<>>))
BY MuteNothing DEF Mute, Quiet

\* One more frame.
LEMMA QuietAppend ==
  ASSUME NEW s, IsSeq(s), Quiet(s, Len(s)), NEW x
  PROVE  /\ IsSeq(Append(s, x)) /\ Len(Append(s, x)) = Len(s) + 1 /\ Len(s) \in Nat
         /\ Append(s, x)[Len(s) + 1] = x
         /\ Quiet(Append(s, x), Len(s))
         /\ Silent(x) => Quiet(Append(s, x), Len(s) + 1)
<1> DEFINE t == Append(s, x)
<1>1. /\ IsSeq(t) /\ Len(t) = Len(s) + 1
      /\ \A i \in 1 .. Len(s) : t[i] = s[i]
      /\ t[Len(s) + 1] = x /\ Len(s) \in Nat
  BY AppendFacts, SeqFacts
<1> HIDE DEF t
<1>2. Quiet(t, Len(s)) /\ (Silent(x) => Quiet(t, Len(s) + 1))
  BY <1>1 DEF Quiet
<1>3. QED BY <1>1, <1>2 DEF t

\* One frame less.
LEMMA QuietTail ==
  ASSUME NEW s, IsSeq(s), s # <<>>, NEW n \in Nat, n <= Len(s), Quiet(s, n)
  PROVE  Quiet(Tail(s), n - 1)
BY SeqFacts DEF Quiet

\* The loop goes on.
LEMMA WorkGoesOn ==
  ASSUME Wired, task.at \notin Past \cup {"return"}, UNCHANGED <<api, stream, wire>>,
         IsSeq(task'.frames), Quiet(task'.frames, Len(task'.frames)),
         ~ stream => task'.frames = <<>>,
         task'.at \notin Past \cup {"return"}
  PROVE  Wired'
BY DEF Wired, Past

LEMMA SettledStays ==
  ASSUME Settled, UNCHANGED <<api, wire>>, client' \in {client, "gone"},
         task'.reason = task.reason, task'.tokens = task.tokens, task'.failed = task.failed,
         task'.at = "closed" /\ api = "chat" => task.at = "closed",
         task.at = "closed" => task'.at = "closed"
  PROVE  Settled'
BY DEF Settled

LEMMA AnthropicToolsFinite ==
  ASSUME NEW e, GoesOn(e), IsFiniteSet(DOMAIN e.tools),
         NEW em, em.k \in {"role", "content", "start", "args"}
  PROVE  IsFiniteSet(DOMAIN AnthropicRender(e, em).enc.tools)
<1> USE DEF GoesOn
<1> DEFINE d == AnthropicRender(e, em).enc
<1>1. CASE em.k = "start"
  <2>1. d = [e EXCEPT !.text = NoBlock, !.next = @ + 1, !.sawTool = TRUE,
                      !.tools = WithBlock(e, em.index)]
    BY <1>1 DEF AnthropicRender, RenderToolStart
  <2>2. d.tools = WithBlock(e, em.index)
    BY <2>1 DEF BlockFields
  <2>3. DOMAIN d.tools = DOMAIN e.tools \cup {em.index}
    BY <2>2 DEF WithBlock
  <2>4. QED BY <2>3, FS_AddElement
<1>2. CASE em.k # "start"
  <2>1. d = e \/ d = [e EXCEPT !.text = e.next, !.next = @ + 1]
    BY <1>2 DEF AnthropicRender, RenderContent, RenderToolArgs
  <2>2. d.tools = e.tools
    BY <2>1 DEF BlockFields
  <2>3. QED BY <2>2
<1>3. QED BY <1>1, <1>2

-----------------------------------------------------------------------------
(* The steps of the loop and the wire *)

LEMMA RenderWires ==
  ASSUME Answering, Wired, CanEncode, Render, Answering'
  PROVE  Wired' /\ CanEncode'
<1> DEFINE em == Head(task.todo)
           r  == Rendered(em)
<1>1. /\ task.todo # <<>> /\ task.frames = <<>> /\ Rendering /\ DOMAIN task = Fields
      /\ UNCHANGED <<api, stream, wire, client>>
  BY DEF Render, Rendering, asked, theirs, Answering, TaskType
<1>2. /\ task.at \in Busy \cup {"return"} /\ task.todo \in Seq(Emission)
      /\ 1 \in 1 .. Len(task.todo) /\ em = task.todo[1]
  BY <1>1 DEF Answering, TaskType, Stages, Idle
<1>3. ASSUME task' = Left(task)
      PROVE  /\ task'.at = task.at /\ task'.todo = Tail(task.todo) /\ task'.frames = <<>>
             /\ task'.reason = task.reason /\ task'.tokens = task.tokens
             /\ task'.failed = task.failed
  BY <1>1, <1>3 DEF Left, Fields
<1>4. task.at = "return" => Tail(task.todo) = <<>>
  BY <1>1, <1>2 DEF Answering, Stages
<1>5. CASE ~ stream
  <2>1. task' = Left(task)
    BY <1>5 DEF Render
  <2>2. CanEncode'
    BY <1>1, <1>5 DEF CanEncode
  <2>3. CASE task.at \in Busy
    <3>1. task'.at = task.at /\ task'.frames = <<>> /\ task.at \notin Past \cup {"return"}
      BY <1>3, <2>1, <2>3 DEF Busy, Past
    <3>2. QED BY <1>1, <2>2, <3>1, WorkGoesOn, QuietNothing
  <2>4. CASE task.at = "return"
    <3>1. task'.at = "return" /\ task'.todo = <<>> /\ task'.frames = <<>>
      BY <1>3, <1>4, <2>1, <2>4
    <3>2. Wired'
      BY <1>1, <1>5, <3>1, QuietNothing DEF Wired, Past
    <3>3. QED BY <2>2, <3>2
  <2>5. QED BY <1>2, <2>3, <2>4
<1>6. ASSUME stream
      PROVE  /\ api \in Apis /\ enc' = r.enc
             /\ r.frames # <<>> => task' = [task EXCEPT !.frames = r.frames]
             /\ r.frames = <<>> => task' \in {Left(task), Unheard(task)}
             /\ api = "anthropic" => GoesOn(enc) /\ IsFiniteSet(DOMAIN enc.tools)
             /\ api = "responses" => ItemsOK(enc)
  <2>1. api = "anthropic" => GoesOn(enc)
    BY <1>1, <1>6 DEF GoesOn, Answering, Encoded, InBlocks, Rendering
  <2>2. /\ api \in Apis
        /\ api = "anthropic" => IsFiniteSet(DOMAIN enc.tools)
        /\ api = "responses" => ItemsOK(enc)
    BY <1>1, <1>6 DEF Wired, CanEncode, ToRender
  <2>3. /\ enc' = r.enc
        /\ r.frames # <<>> => task' = [task EXCEPT !.frames = r.frames]
        /\ r.frames = <<>> => task' \in {Left(task), Unheard(task)}
    BY <1>6 DEF Render
  <2>4. QED BY <2>1, <2>2, <2>3
<1>7. CASE stream /\ task.at \in Busy
  <2>1. em.k \in {"role", "content", "start", "args"} /\ task.at \notin Past \cup {"return"}
    BY <1>2, <1>7 DEF Answering, Stages, Busy, Past
  <2>2. /\ IsSeq(r.frames) /\ Quiet(r.frames, Len(r.frames))
        /\ api = "responses" => ItemsOK(r.enc)
    BY <1>6, <1>7, <2>1, FramesAreSilent DEF Quiet
  <2>3. CanEncode'
    <3>1. ASSUME api = "anthropic" PROVE IsFiniteSet(DOMAIN r.enc.tools)
      <4>1. r.enc = AnthropicRender(enc, em).enc
        BY <3>1 DEF Rendered
      <4>2. QED BY <1>6, <1>7, <2>1, <3>1, <4>1, AnthropicToolsFinite
    <3> HIDE DEF r
    <3>2. QED BY <1>1, <1>6, <1>7, <2>2, <3>1 DEF CanEncode
  <2> HIDE DEF r
  <2>4. CASE r.frames # <<>>
    <3>1. task'.frames = r.frames /\ task'.at = task.at
      BY <1>1, <1>6, <1>7, <2>4 DEF Fields
    <3>2. QED BY <1>1, <1>7, <2>1, <2>2, <2>3, <3>1, WorkGoesOn
  <2>5. CASE task' = Left(task)
    <3>1. task'.frames = <<>> /\ task'.at = task.at
      BY <1>3, <2>5
    <3>2. QED BY <1>1, <2>1, <2>3, <3>1, WorkGoesOn, QuietNothing
  <2>6. CASE r.frames = <<>> /\ task' # Left(task)
    <3>1. task' = [task EXCEPT !.gone = TRUE, !.todo = <<>>, !.frames = <<>>, !.at = "return"]
      BY <1>6, <1>7, <2>6 DEF Unheard
    <3>2. task'.at = "return" /\ task'.todo = <<>> /\ task'.frames = <<>> /\ task'.gone = TRUE
      BY <1>1, <3>1 DEF Fields
    <3>3. client' = "gone"
      BY <3>2 DEF Answering, GivesUpOnlyOnTheGone
    <3>4. Quiet(wire, Len(wire))
      BY <2>1 DEF Wired
    <3>5. Settled'
      BY <1>1, <3>3, <3>4 DEF Settled
    <3>6. Wired'
      BY <1>1, <1>7, <3>2, <3>5, QuietNothing DEF Wired, Past
    <3>7. QED BY <2>3, <3>6
  <2>7. QED BY <2>4, <2>5, <2>6
<1>8. CASE stream /\ task.at = "return"
  <2> DEFINE reason == task.reason
             tokens == task.tokens
             failed == task.failed
  <2>1. em = Closing(reason, tokens, failed) /\ Quiet(wire, Len(wire))
    BY <1>1, <1>2, <1>8 DEF Wired
  <2>2. reason \in Endings \cup {"none"} /\ failed \in BOOLEAN
    BY DEF Answering, TaskType
  <2>3. LET frames == Rendered(Closing(reason, tokens, failed)).frames IN
          /\ IsSeq(frames) /\ Len(frames) \in Nat \ {0}
          /\ \A i \in 1 .. Len(frames) - 1 : Silent(frames[i])
          /\ Telling(api, frames[Len(frames)], reason, tokens, failed)
    <3> HIDE DEF reason, tokens, failed
    <3>1. QED BY <1>6, <1>8, <2>2, FramesTell
  <2>4. /\ IsSeq(r.frames) /\ Len(r.frames) \in Nat \ {0}
        /\ ToldAt(api, r.frames, Len(r.frames), reason, tokens, failed)
    BY <2>1, <2>3 DEF ToldAt, Quiet
  <2> HIDE DEF r
  <2>5. r.frames # <<>>
    BY <2>4, QuietNothing
  <2>6. task' = [task EXCEPT !.frames = r.frames]
    BY <1>6, <1>8, <2>5
  <2>7. /\ task'.frames = r.frames /\ task'.at = "return" /\ task'.todo = task.todo
        /\ task'.reason = reason /\ task'.tokens = tokens /\ task'.failed = failed
    BY <1>1, <1>8, <2>6 DEF Fields
  <2>8. ~ ToRender'
    BY <2>5, <2>7 DEF ToRender, Rendering, Past
  <2>9. CanEncode'
    BY <2>8 DEF CanEncode
  <2>10. task.todo[1] = Closing(reason, tokens, failed)
    BY <1>2, <2>1
  <2>11. Wired'
    BY <1>1, <1>8, <2>1, <2>4, <2>7, <2>10 DEF Wired, Past
  <2>12. QED BY <2>9, <2>11
<1>9. QED BY <1>2, <1>5, <1>7, <1>8

LEMMA SendFrameWires ==
  ASSUME Answering, Wired, SendFrame
  PROVE  Wired'
<1> DEFINE frame == task.frames[1]
<1>1. /\ task.todo # <<>> /\ task.frames # <<>> /\ DOMAIN task = Fields
      /\ UNCHANGED <<api, stream, client>>
      /\ wire' = Append(wire, Head(task.frames))
      /\ api \in Apis /\ stream \in BOOLEAN /\ stream /\ IsSeq(wire) /\ IsSeq(task.frames)
  BY DEF SendFrame, asked, theirs, Answering, TaskType, Wired
<1>2. task.at \in Busy \cup {"return"}
  BY <1>1 DEF Answering, Stages, Idle
<1>3. task.at = "return" => Tail(task.todo) = <<>>
  BY <1>1 DEF Answering, TaskType, Stages
<1>4. /\ Len(task.frames) \in Nat \ {0} /\ Head(task.frames) = frame
      /\ IsSeq(Tail(task.frames)) /\ Len(Tail(task.frames)) = Len(task.frames) - 1
      /\ \A i \in 1 .. Len(task.frames) - 1 : Tail(task.frames)[i] = task.frames[i + 1]
  BY <1>1, SeqFacts
<1>5. Quiet(wire, Len(wire))
  BY <1>1, <1>2 DEF Wired, Past, Busy
<1>6. /\ IsSeq(wire') /\ Len(wire') = Len(wire) + 1 /\ Len(wire) \in Nat
      /\ wire'[Len(wire')] = frame
      /\ Quiet(wire', Len(wire') - 1)
      /\ Silent(frame) => Quiet(wire', Len(wire'))
  BY <1>1, <1>4, <1>5, QuietAppend
<1> HIDE DEF frame
<1>7. /\ task'.at = task.at
      /\ task'.reason = task.reason /\ task'.tokens = task.tokens /\ task'.failed = task.failed
      /\ Len(task.frames) = 1 => task'.frames = <<>> /\ task'.todo = Tail(task.todo)
      /\ Len(task.frames) # 1 => task'.frames = Tail(task.frames) /\ task'.todo = task.todo
  <2>1. CASE Len(task.frames) = 1
    <3>1. task' = Left(task)
      BY <2>1 DEF SendFrame
    <3>2. QED BY <1>1, <2>1, <3>1 DEF Left, Fields
  <2>2. CASE Len(task.frames) # 1
    <3>1. task' = [task EXCEPT !.frames = Tail(@)]
      BY <2>2 DEF SendFrame
    <3>2. QED BY <1>1, <2>2, <3>1 DEF Fields
  <2>3. QED BY <2>1, <2>2
<1>8. CASE task.at \in Busy
  <2>1. task.at \notin Past \cup {"return"}
    BY <1>8 DEF Busy, Past
  <2>2. Quiet(task.frames, Len(task.frames))
    BY <2>1 DEF Wired
  <2>3. Silent(frame)
    BY <1>4, <2>2 DEF Quiet, frame
  <2>4. IsSeq(task'.frames) /\ Quiet(task'.frames, Len(task'.frames))
    <3>1. Quiet(Tail(task.frames), Len(Tail(task.frames)))
      BY <1>1, <1>4, <2>2, QuietTail
    <3>2. QED BY <1>4, <1>7, <3>1, QuietNothing
  <2>5. QED BY <1>1, <1>6, <1>7, <2>1, <2>3, <2>4 DEF Wired, Past
<1>9. CASE task.at = "return"
  <2>1. /\ ToldAt(api, task.frames, Len(task.frames), task.reason, task.tokens, task.failed)
        /\ task.todo[1] = Closing(task.reason, task.tokens, task.failed)
    BY <1>1, <1>9 DEF Wired
  <2>2. CASE Len(task.frames) = 1
    <3>1. ToldAt(api', wire', Len(wire'), task'.reason, task'.tokens, task'.failed)
      BY <1>1, <1>6, <1>7, <2>1, <2>2 DEF ToldAt, frame
    <3>2. task'.at = "return" /\ task'.todo = <<>> /\ task'.frames = <<>>
      BY <1>3, <1>7, <1>9, <2>2
    <3>3. Settled'
      BY <3>1, <3>2 DEF Settled
    <3>4. QED BY <1>1, <1>6, <3>2, <3>3, QuietNothing DEF Wired, Past
  <2>3. CASE Len(task.frames) # 1
    <3>0. PICK n \in Nat \ {0, 1} : n = Len(task.frames)
      BY <1>4, <2>3
    <3>1. Silent(frame)
      <4>1. Quiet(task.frames, Len(task.frames) - 1)
        BY <2>1 DEF ToldAt
      <4>2. \A i \in 1 .. n - 1 : Silent(task.frames[i])
        BY <3>0, <4>1 DEF Quiet
      <4>3. 1 \in 1 .. n - 1
        OBVIOUS
      <4>4. QED BY <4>2, <4>3 DEF frame
    <3>2. Quiet(Tail(task.frames), Len(Tail(task.frames)) - 1)
      <4>1. Len(task.frames) - 1 \in Nat /\ Len(task.frames) - 1 <= Len(task.frames)
        BY <1>4
      <4>2. Quiet(task.frames, Len(task.frames) - 1)
        BY <2>1 DEF ToldAt
      <4>3. Quiet(Tail(task.frames), Len(task.frames) - 1 - 1)
        BY <1>1, <4>1, <4>2, QuietTail
      <4>4. QED BY <1>4, <4>3
    <3>3. ToldAt(api, Tail(task.frames), Len(Tail(task.frames)),
                 task.reason, task.tokens, task.failed)
      <4>0. Len(Tail(task.frames)) \in Nat \ {0}
        BY <1>4, <2>3
      <4>1. Len(Tail(task.frames)) \in 1 .. Len(Tail(task.frames))
        <5>1. \A k \in Nat \ {0} : k \in 1 .. k
          OBVIOUS
        <5>2. QED BY <4>0, <5>1, Zenon
      <4>2. Tail(task.frames)[Len(Tail(task.frames))] = task.frames[Len(task.frames)]
        BY <1>1, <2>3, TailLast
      <4>3. QED BY <2>1, <3>2, <4>1, <4>2 DEF ToldAt
    <3>4. QED BY <1>1, <1>4, <1>6, <1>7, <1>9, <2>1, <2>3, <3>1, <3>3 DEF Wired, Past
  <2>4. QED BY <2>2, <2>3
<1>10. QED BY <1>2, <1>8, <1>9

LEMMA SendFailsWires ==
  ASSUME Answering, Wired, SendFails
  PROVE  Wired'
<1>1. /\ task.todo # <<>> /\ task.frames # <<>> /\ DOMAIN task = Fields
      /\ UNCHANGED <<api, stream, client, wire>> /\ client = "gone"
      /\ api \in Apis /\ stream \in BOOLEAN /\ stream /\ IsSeq(wire)
  BY DEF SendFails, asked, theirs, output, Answering, TaskType, Wired
<1>2. task.at \in Busy \cup {"return"}
  BY <1>1 DEF Answering, Stages, Idle
<1>3. Quiet(wire, Len(wire))
  BY <1>1, <1>2 DEF Wired, Past, Busy
<1>4. Settled'
  BY <1>1, <1>3 DEF Settled
<1>5. task.at = "return" => Tail(task.todo) = <<>>
  BY <1>1 DEF Answering, TaskType, Stages
<1>6. task'.frames = <<>> /\ (task'.at = task.at \/ (task'.at = "return" /\ task'.todo = <<>>))
      /\ (task.at = "return" => task'.todo = <<>>)
  <2>1. CASE task' = Left(task)
    BY <1>1, <1>5, <2>1 DEF Left, Fields
  <2>2. CASE task' # Left(task)
    <3>1. task' = [task EXCEPT !.gone = TRUE, !.todo = <<>>, !.frames = <<>>, !.at = "return"]
      BY <2>2 DEF SendFails, Unheard
    <3>2. QED BY <1>1, <3>1 DEF Fields
  <2>3. QED BY <2>1, <2>2
<1>7. QED BY <1>1, <1>2, <1>3, <1>4, <1>6, QuietNothing DEF Wired, Past, Busy

LEMMA WorkWires ==
  ASSUME Answering, Wired, CanEncode,
         \/ Translate \/ NoPrompt \/ Rejected \/ Submitted
         \/ TakeToken \/ TakeGarbage \/ TakeFailed \/ TakeDone \/ TakeClosed \/ Flush
         \/ DropHandler
  PROVE  Wired' /\ CanEncode'
<1>1. /\ UNCHANGED <<api, stream, wire, enc>> /\ DOMAIN task = Fields
      /\ task.at \in {"new", "translated", "loop", "flush"} /\ task.frames = <<>>
  <2>1. /\ UNCHANGED <<api, stream, wire, enc>>
        /\ task.at \in {"new", "translated", "loop", "flush"}
        /\ task.at \in {"loop", "flush"} => Idle
    BY DEF Translate, NoPrompt, Rejected, Submitted, TakeToken, TakeGarbage, TakeFailed,
           TakeDone, TakeClosed, Flush, DropHandler, AtLoop, asked, output
  <2>2. task.at \in {"new", "translated"} => Idle
    BY DEF Answering, Stages, Busy
  <2>3. QED BY <2>1, <2>2 DEF Idle, Answering, TaskType
<1>2. ASSUME task'.frames = task.frames, task'.at \notin Past \cup {"return"}
      PROVE  Wired' /\ CanEncode'
  <2>1. task.at \notin Past \cup {"return"}
    BY <1>1 DEF Past
  <2>2. Wired'
    BY <1>1, <1>2, <2>1, WorkGoesOn, QuietNothing
  <2>3. CanEncode'
    BY <1>1, <2>1 DEF CanEncode, ToRender
  <2>4. QED BY <2>2, <2>3
<1>3. CASE Translate \/ NoPrompt \/ Rejected
  <2>1. \/ task' = [task EXCEPT !.at = "translated"]
        \/ task' = [task EXCEPT !.at = "answered"]
    BY <1>3 DEF Translate, NoPrompt, Rejected, Answer
  <2>2. QED BY <1>1, <1>2, <2>1 DEF Fields, Past
<1>4. CASE Submitted
  <2>1. task' = [task EXCEPT !.at = "loop", !.todo = <<Role>>]
    BY <1>4 DEF Submitted
  <2>2. QED BY <1>1, <1>2, <2>1 DEF Fields, Past
<1>5. CASE TakeToken
  <2>1. PICK b \in SeqOf(Kinds, MaxBatch), hit \in BOOLEAN :
          task' = [task EXCEPT !.todo = b, !.tokens = @ + 1,
                               !.reason = IF hit THEN "stop" ELSE @,
                               !.at = IF hit THEN "flush" ELSE "loop"]
    BY <1>5 DEF TakeToken
  <2>2. QED BY <1>1, <1>2, <2>1 DEF Fields, Past
<1>6. CASE TakeGarbage
  <2>1. task' = [task EXCEPT !.failed = TRUE, !.tokens = @ + 1, !.at = "final"]
    BY <1>6 DEF TakeGarbage
  <2>2. QED BY <1>1, <1>2, <2>1 DEF Fields, Past
<1>7. CASE TakeFailed
  <2>1. task' = [task EXCEPT !.failed = TRUE, !.at = "final"]
    BY <1>7 DEF TakeFailed
  <2>2. QED BY <1>1, <1>2, <2>1 DEF Fields, Past
<1>8. CASE TakeDone
  <2>1. task' = [task EXCEPT !.reason = Head(chan[R]).kind, !.at = "flush"]
    BY <1>8 DEF TakeDone
  <2>2. QED BY <1>1, <1>2, <2>1 DEF Fields, Past
<1>9. CASE TakeClosed
  <2>1. task' = [task EXCEPT !.at = "flush"]
    BY <1>9 DEF TakeClosed
  <2>2. QED BY <1>1, <1>2, <2>1 DEF Fields, Past
<1>10. CASE Flush
  <2>1. \/ \E b : task' = [task EXCEPT !.todo = b, !.at = "final"]
        \/ task' = [task EXCEPT !.failed = TRUE, !.at = "final"]
    BY <1>10 DEF Flush
  <2>2. QED BY <1>1, <1>2, <2>1 DEF Fields, Past
<1>11. CASE DropHandler
  <2>1. task' = [task EXCEPT !.at = "dropped"]
    BY <1>11 DEF DropHandler
  <2>2. QED BY <1>1, <1>2, <2>1 DEF Fields, Past
<1>12. QED BY <1>3, <1>4, <1>5, <1>6, <1>7, <1>8, <1>9, <1>10, <1>11

LEMMA FinishWires ==
  ASSUME Answering, Wired, CanEncode, Finish
  PROVE  Wired' /\ CanEncode'
<1> DEFINE em == Closing(task.reason, task.tokens, task.failed)
<1>1. /\ UNCHANGED <<api, stream, wire, enc>> /\ DOMAIN task = Fields
      /\ task.at = "final" /\ task.frames = <<>>
      /\ task' = [task EXCEPT !.at = "return", !.todo = <<em>>]
  BY DEF Finish, Idle, asked, output, Answering, TaskType, Closing
<1> HIDE DEF em
<1>2. /\ task'.at = "return" /\ task'.todo = <<em>> /\ task'.frames = <<>>
      /\ task'.reason = task.reason /\ task'.tokens = task.tokens /\ task'.failed = task.failed
  BY <1>1 DEF Fields
<1>3. <<em>>[1] = em
  OBVIOUS
<1>4. em' = em /\ task'.todo[1] = Closing(task'.reason, task'.tokens, task'.failed)
  BY <1>2, <1>3 DEF em
<1>5. Quiet(wire, Len(wire))
  BY <1>1 DEF Wired, Past
<1>6. Wired'
  BY <1>1, <1>2, <1>4, <1>5, QuietNothing DEF Wired, Past
<1>7. CanEncode'
  BY <1>1 DEF CanEncode, ToRender, Past
<1>8. QED BY <1>6, <1>7

LEMMA SentinelSettles ==
  ASSUME Answering, Wired, Sentinel, Settled PROVE Settled'
<1>1. /\ task.at = "sentinel" /\ task' = [task EXCEPT !.at = "closed"] /\ DOMAIN task = Fields
      /\ api = "chat" /\ UNCHANGED <<api, client>> /\ IsSeq(wire)
  BY DEF Sentinel, Answering, TaskType, Wired, asked, theirs
<1>2. /\ task'.at = "closed" /\ task'.reason = task.reason /\ task'.tokens = task.tokens
      /\ task'.failed = task.failed
  BY <1>1 DEF Fields
<1>3. CASE client = "gone" /\ UNCHANGED wire
  BY <1>1, <1>2, <1>3 DEF Settled
<1>4. CASE client = "here" /\ wire' = Append(wire, <<ChatDone>>)
  <2> DEFINE n == Len(wire)
  <2>1. ToldAt(api, wire, n, task.reason, task.tokens, task.failed)
    BY <1>1, <1>4 DEF Settled
  <2>2. n \in 1 .. n /\ n \in Nat
    BY <2>1, <1>1, SeqFacts DEF ToldAt
  <2>3. /\ Len(wire') = n + 1 /\ wire'[n + 1] = <<ChatDone>>
        /\ \A i \in 1 .. n : wire'[i] = wire[i]
    BY <1>1, <1>4, AppendFacts
  <2> HIDE DEF n
  <2>4. ToldAt(api, wire', n, task'.reason, task'.tokens, task'.failed)
    <3>1. Quiet(wire', n - 1)
      BY <2>1, <2>2, <2>3 DEF ToldAt, Quiet
    <3>2. n \in 1 .. n + 1 /\ wire'[n] = wire[n]
      BY <2>2, <2>3
    <3>3. QED BY <1>2, <2>1, <2>3, <3>1, <3>2 DEF ToldAt
  <2>5. Len(wire') - 1 = n
    BY <2>2, <2>3
  <2>6. QED BY <1>1, <1>2, <2>3, <2>4, <2>5 DEF Settled
<1>5. QED BY <1>3, <1>4 DEF Sentinel

\* The loop has returned, and the response comes to its end.
LEMMA EndingWires ==
  ASSUME Answering, Wired, Answering', Return \/ Cancel \/ Sentinel \/ Respond
  PROVE  Wired' /\ CanEncode'
<1>1. /\ UNCHANGED <<api, stream, client, enc>> /\ DOMAIN task = Fields
      /\ task.todo = <<>> /\ task.frames = <<>>
      /\ \/ task.at = "return"
         \/ task.at \in {"cancel", "sentinel"}
  <2>1. /\ UNCHANGED <<api, stream, client, enc>>
        /\ \/ task.at = "return" /\ Idle
           \/ task.at \in {"cancel", "sentinel"}
    BY DEF Return, Cancel, Sentinel, Respond, asked, output, theirs
  <2>2. Idle
    BY <2>1 DEF Answering, Stages, Busy
  <2>3. QED BY <2>1, <2>2 DEF Idle, Answering, TaskType
<1>2. stream => Settled
  BY <1>1 DEF Wired, Past
<1>3. ASSUME NEW to,
             \/ task' = [task EXCEPT !.at = to]
             \/ task' = [task EXCEPT !.at = to, !.cancelled = TRUE]
      PROVE  /\ task'.at = to /\ task'.todo = <<>> /\ task'.frames = <<>>
             /\ task'.reason = task.reason /\ task'.tokens = task.tokens
             /\ task'.failed = task.failed
  BY <1>1, <1>3 DEF Fields
<1>4. CASE Respond
  <2>1. task' = [task EXCEPT !.at = "answered", !.cancelled = TRUE] /\ ~ stream /\ wire' = wire
    BY <1>4 DEF Respond, output
  <2>2. wire = <<>> /\ task'.at = "answered" /\ task'.frames = <<>>
    BY <1>3, <2>1 DEF Wired
  <2>3. Wired'
    BY <1>1, <2>1, <2>2, QuietNothing DEF Wired, Past
  <2>4. CanEncode'
    BY <1>1, <2>1 DEF CanEncode
  <2>5. QED BY <2>3, <2>4
<1>5. ASSUME NEW to \in Past,
             \/ task' = [task EXCEPT !.at = to]
             \/ task' = [task EXCEPT !.at = to, !.cancelled = TRUE],
             stream => Settled', IsSeq(wire'), ~ stream => wire' = <<>>,
             to \in {"sentinel", "closed"} => stream,
             to = "sentinel" => api = "chat"
      PROVE  Wired' /\ CanEncode'
  <2>1. task'.at = to /\ task'.todo = <<>> /\ task'.frames = <<>>
    BY <1>3, <1>5
  <2>2. Wired'
    BY <1>1, <1>5, <2>1, QuietNothing DEF Wired, Past
  <2>3. CanEncode'
    BY <1>5, <2>1 DEF CanEncode, ToRender, Rendering
  <2>4. QED BY <2>2, <2>3
<1>6. CASE Return
  <2>1. task' = [task EXCEPT !.at = "cancel"] /\ task.at = "return" /\ wire' = wire
    BY <1>6 DEF Return, output
  <2>2. stream => Settled'
    BY <1>1, <1>2, <1>3, <2>1, SettledStays
  <2>3. QED BY <1>5, <2>1, <2>2 DEF Wired, Past
<1>7. CASE Cancel
  <2> DEFINE to == IF api = "chat" THEN "sentinel" ELSE "closed"
  <2>1. /\ task' = [task EXCEPT !.at = to, !.cancelled = TRUE] /\ task.at = "cancel"
        /\ stream /\ wire' = wire
    BY <1>7 DEF Cancel, output
  <2>2. task'.at = "closed" => api # "chat"
    BY <1>3, <2>1
  <2>3. Settled'
    BY <1>1, <1>2, <1>3, <2>1, <2>2, SettledStays
  <2>4. to \in Past /\ (to = "sentinel" => api = "chat")
    BY DEF Past
  <2> HIDE DEF to
  <2>5. QED BY <1>5, <2>1, <2>3, <2>4 DEF Wired
<1>8. CASE Sentinel
  <2>1. task' = [task EXCEPT !.at = "closed"] /\ stream
    BY <1>8 DEF Sentinel, Wired
  <2>2. Settled'
    BY <1>2, <1>8, <2>1, SentinelSettles
  <2>3. IsSeq(wire')
    <3>1. IsSeq(wire)
      BY DEF Wired
    <3>2. wire' = wire \/ wire' = Append(wire, <<ChatDone>>)
      BY <1>8 DEF Sentinel
    <3>3. QED BY <3>1, <3>2, AppendFacts
  <2>4. "closed" \in Past
    BY DEF Past
  <2>5. QED BY <1>5, <2>1, <2>2, <2>3, <2>4
<1>9. QED BY <1>4, <1>6, <1>7, <1>8

\* The others leave the loop and what it sent alone.
LEMMA OthersWire ==
  ASSUME Wired, CanEncode, UNCHANGED <<api, stream, task, enc, wire>>,
         client' \in {client, "gone"}
  PROVE  Wired' /\ CanEncode'
<1>1. CanEncode'
  BY DEF CanEncode, ToRender, Rendering
<1>2. Settled => Settled'
  BY SettledStays
<1>3. Wired'
  BY <1>2 DEF Wired
<1>4. QED BY <1>1, <1>3

LEMMA WiredKept ==
  ASSUME Answering, Wired, CanEncode, [Next]_vars, Answering'
  PROVE  Wired' /\ CanEncode'
<1>1. CASE SendFrame \/ SendFails
  <2>1. Wired'
    BY <1>1, SendFrameWires, SendFailsWires
  <2>2. UNCHANGED <<api, stream, enc>> /\ DOMAIN task = Fields /\ task.todo # <<>>
        /\ task.frames # <<>>
    BY <1>1 DEF SendFrame, SendFails, asked, output, Answering, TaskType
  <2>3. ToRender' => task.at \notin Past \cup {"return"}
    <3>1. task.at \in Busy \cup {"return"}
      BY <2>2 DEF Answering, Stages, Idle
    <3>2. SUFFICES ASSUME task.at = "return" PROVE ~ ToRender'
      BY <3>1 DEF Busy, Past
    <3>3. Tail(task.todo) = <<>> /\ Head(task.todo).k \in {"final", "error"}
      BY <2>2, <3>2 DEF Answering, TaskType, Stages
    <3>4. \/ task' = Left(task)
          \/ task' = [task EXCEPT !.frames = Tail(@)] /\ Len(task.frames) # 1
      BY <1>1, <3>3 DEF SendFrame, SendFails, Unheard
    <3>5. task'.at = "return" /\ (task'.todo = <<>> \/ task'.frames # <<>>)
      <4>1. CASE task' = Left(task)
        BY <2>2, <3>2, <3>3, <4>1 DEF Left, Fields
      <4>2. CASE task' = [task EXCEPT !.frames = Tail(@)] /\ Len(task.frames) # 1
        <5>1. IsSeq(task.frames)
          BY DEF Wired
        <5>2. Tail(task.frames) # <<>>
          <6>1. /\ Len(task.frames) \in Nat \ {0, 1}
                /\ Len(Tail(task.frames)) = Len(task.frames) - 1
            BY <2>2, <4>2, <5>1, SeqFacts
          <6>2. Len(Tail(task.frames)) # 0
            BY <6>1
          <6>3. QED BY <6>2, QuietNothing
        <5>3. QED BY <2>2, <3>2, <4>2, <5>2 DEF Fields
      <4>3. QED BY <3>4, <4>1, <4>2
    <3>6. QED BY <3>5 DEF ToRender, Rendering, Past
  <2>4. CanEncode'
    BY <2>2, <2>3 DEF CanEncode, ToRender
  <2>5. QED BY <2>1, <2>4
<1>2. CASE Worker \/ WorkerBreaks \/ ReadFrame \/ Disconnect \/ UNCHANGED vars
  <2>1. UNCHANGED <<api, stream, task, enc, wire>> /\ client' \in {client, "gone"}
    BY <1>2 DEF Worker, WorkerToken, WorkerEnds, WorkerBreaks, Aside, ReadFrame, Disconnect,
                vars, asked, output, theirs
  <2>2. QED BY <2>1, OthersWire
<1>3. CASE Handler
  BY <1>3, WorkWires DEF Handler
<1>4. CASE Loop
  BY <1>1, <1>4, WorkWires, FinishWires, EndingWires DEF Loop
<1>5. CASE Render
  BY <1>5, RenderWires
<1>6. CASE DropHandler
  BY <1>6, WorkWires
<1>7. QED BY <1>2, <1>3, <1>4, <1>5, <1>6 DEF Next

-----------------------------------------------------------------------------
(* The properties *)

Ends == Answering /\ Counted /\ Wired /\ CanEncode

LEMMA EndsInitially == Init => Ends
BY AnsweringInitially, CountedInitially, WiredInitially DEF Ends

LEMMA EndsKept == Ends /\ [Next]_vars => Ends'
<1> SUFFICES ASSUME Ends, [Next]_vars PROVE Ends'
  OBVIOUS
<1>1. Answering /\ Counted /\ Wired /\ CanEncode
  BY DEF Ends
<1>2. Answering'
  BY <1>1, AnsweringKept
<1>3. api \in Apis
  BY <1>1 DEF Wired
<1>4. Counted'
  BY <1>1, <1>2, <1>3, CountedKept
<1>5. Wired' /\ CanEncode'
  BY <1>1, <1>2, WiredKept
<1>6. QED BY <1>2, <1>4, <1>5 DEF Ends

LEMMA TellingsAre ==
  \A p : p \in Tellings <=>
           \E f \in DOMAIN wire : \E i \in DOMAIN wire[f] : p = <<f, i>> /\ Tells(wire[f][i])
<1>1. ASSUME NEW p
      PROVE  p \in UNION {{f} \X DOMAIN wire[f] : f \in DOMAIN wire} <=>
               \E f \in DOMAIN wire : \E i \in DOMAIN wire[f] : p = <<f, i>>
  OBVIOUS
<1>2. \A f, i : <<f, i>>[1] = f /\ <<f, i>>[2] = i
  OBVIOUS
<1>3. QED BY <1>1, <1>2 DEF Tellings

\* The end is told in one frame, once, and nothing behind it tells anything.
LEMMA ToldOnce ==
  ASSUME IsSeq(wire), NEW n, NEW r, NEW t, NEW failed, ToldAt(api, wire, n, r, t, failed),
         \A f \in n + 1 .. Len(wire) : Silent(wire[f])
  PROVE  /\ \E p \in Tellings : Tellings = {p}
         /\ \A p \in Tellings : Honest(wire[p[1]][p[2]], r, t, failed)
<1>1. /\ n \in 1 .. Len(wire) /\ Len(wire) \in Nat /\ DOMAIN wire = 1 .. Len(wire)
      /\ Quiet(wire, n - 1) /\ Telling(api, wire[n], r, t, failed)
  BY SeqFacts DEF ToldAt
<1>2. PICK i \in DOMAIN wire[n] :
        /\ Tells(wire[n][i]) /\ Honest(wire[n][i], r, t, failed)
        /\ \A k \in DOMAIN wire[n] : Tells(wire[n][k]) => k = i
  BY <1>1 DEF Telling
<1>3. <<n, i>> \in Tellings
  BY <1>1, <1>2, TellingsAre
<1>4. ASSUME NEW f \in DOMAIN wire, NEW k \in DOMAIN wire[f], Tells(wire[f][k])
      PROVE  f = n /\ k = i
  <2>1. f \notin 1 .. n - 1
    BY <1>1, <1>4 DEF Quiet, Silent
  <2>2. f \notin n + 1 .. Len(wire)
    BY <1>4 DEF Silent
  <2>3. f = n
    BY <1>1, <1>4, <2>1, <2>2
  <2>4. QED BY <1>2, <1>4, <2>3
<1>5. \A p \in Tellings : p = <<n, i>>
  BY <1>4, TellingsAre
<1>6. Tellings = {<<n, i>>}
  BY <1>3, <1>5
<1>7. <<n, i>>[1] = n /\ <<n, i>>[2] = i
  OBVIOUS
<1>8. QED BY <1>2, <1>3, <1>5, <1>6, <1>7

LEMMA NothingTold ==
  ASSUME IsSeq(wire), Quiet(wire, Len(wire)) PROVE Tellings = {}
<1>1. DOMAIN wire = 1 .. Len(wire)
  BY SeqFacts
<1>2. QED BY <1>1, TellingsAre DEF Quiet, Silent

\* The last word of the chat surface tells nothing.
LEMMA SettledTells ==
  ASSUME IsSeq(wire), Settled
  PROVE  \/ client = "gone" /\ Tellings = {}
         \/ /\ \E p \in Tellings : Tellings = {p}
            /\ \A p \in Tellings :
                 Honest(wire[p[1]][p[2]], task.reason, task.tokens, task.failed)
<1>1. Len(wire) \in Nat
  BY SeqFacts
<1>2. CASE Quiet(wire, Len(wire)) /\ client = "gone"
  BY <1>2, NothingTold
<1>3. CASE ToldAt(api, wire, Len(wire), task.reason, task.tokens, task.failed)
  <2>1. \A f \in Len(wire) + 1 .. Len(wire) : Silent(wire[f])
    BY <1>1
  <2>2. QED BY <1>3, <2>1, ToldOnce
<1>4. CASE /\ ToldAt(api, wire, Len(wire) - 1, task.reason, task.tokens, task.failed)
           /\ wire[Len(wire)] = <<ChatDone>>
  <2>1. Silent(<<ChatDone>>)
    BY DEF Silent, Tells, ChatDone
  <2>2. \A f \in (Len(wire) - 1) + 1 .. Len(wire) : Silent(wire[f])
    BY <1>1, <1>4, <2>1
  <2>3. QED BY <1>4, <2>2, ToldOnce
<1>5. QED BY <1>2, <1>3, <1>4 DEF Settled

LEMMA EndsAnswer == Ends => AnswerEnds
<1> SUFFICES ASSUME Ends, task.at = "closed", client = "here"
             PROVE  /\ \E p \in Tellings : Tellings = {p}
                    /\ Last(Last(wire)).ev \in LastWords(api)
  BY DEF AnswerEnds
<1>1. IsSeq(wire) /\ Settled /\ client # "gone"
  BY DEF Ends, Wired, Past
<1>2. \E p \in Tellings : Tellings = {p}
  BY <1>1, SettledTells
<1>3. Last(wire) = wire[Len(wire)]
  BY DEF Last
<1>4. CASE /\ ToldAt(api, wire, Len(wire), task.reason, task.tokens, task.failed)
           /\ api # "chat"
  <2>1. wire[Len(wire)][Len(wire[Len(wire)])].ev \in LastWords(api)
    BY <1>4 DEF ToldAt, Telling
  <2>2. QED BY <1>2, <1>3, <2>1 DEF Last
<1>5. CASE api = "chat" /\ wire[Len(wire)] = <<ChatDone>>
  <2>1. Last(<<ChatDone>>) = ChatDone
    BY DEF Last
  <2>2. ChatDone.ev \in LastWords("chat")
    BY DEF ChatDone, LastWords
  <2>3. QED BY <1>2, <1>3, <1>5, <2>1, <2>2
<1>6. QED BY <1>1, <1>4, <1>5 DEF Settled

LEMMA EndsAgree == Ends => EndingAgrees
<1> SUFFICES ASSUME Ends PROVE EndingAgrees
  OBVIOUS
<1>1. /\ IsSeq(wire) /\ stream \in BOOLEAN
      /\ task.tokens = Carried
      /\ task.reason = "length" <=> Ended("length")
      /\ Ended("failed") => task.failed
      /\ HonestReply(reply, task.reason, task.tokens, task.failed)
  BY DEF Ends, Wired, Counted
<1>2. \A p \in Tellings : Honest(wire[p[1]][p[2]], task.reason, task.tokens, task.failed)
  <2>1. CASE Quiet(wire, Len(wire))
    BY <1>1, <2>1, NothingTold
  <2>2. CASE Settled
    BY <1>1, <2>2, SettledTells
  <2>3. CASE ~ stream
    <3>1. wire = <<>>
      BY <2>3 DEF Ends, Wired
    <3>2. QED BY <2>1, <3>1, QuietNothing
  <2>4. stream => Quiet(wire, Len(wire)) \/ Settled
    BY DEF Ends, Wired
  <2>5. QED BY <1>1, <2>1, <2>2, <2>3, <2>4
<1>3. ASSUME NEW e, Honest(e, task.reason, task.tokens, task.failed), HowTold(e) # "error"
      PROVE  /\ TokensTold(e) = Carried
             /\ HowTold(e) # "tool_use" => (Ended("length") <=> HowTold(e) \in CutShort)
             /\ ~ Ended("failed")
  BY <1>1, <1>3 DEF Honest
<1>4. reply.status = 200 =>
        /\ reply.tokens = Carried
        /\ reply.ending # "tool_use" => (Ended("length") <=> reply.ending \in CutShort)
        /\ ~ Ended("failed")
  BY <1>1 DEF HonestReply
<1>5. QED BY <1>1, <1>2, <1>3, <1>4 DEF EndingAgrees

\* AnswerEnds: a stream that closes on a client that listens has told it once how the
\* answer ended, and closed with the last word of its surface - on every path through
\* the loop, a failure and an empty answer among them.
THEOREM AnswerEndsHolds == Spec => []AnswerEnds
BY EndsInitially, EndsKept, EndsAnswer, PTL DEF Spec

\* EndingAgrees: what a client is told of the end, streaming or not, is what the
\* scheduler said of the job: the tokens it read, a cut at the limit, and a failure as
\* nothing but a failure.
THEOREM EndingAgreesHolds == Spec => []EndingAgrees
BY EndsInitially, EndsKept, EndsAgree, PTL DEF Spec
=============================================================================
