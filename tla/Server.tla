------------------------------- MODULE Server -------------------------------
(***************************************************************************)
(* One request on its way through the HTTP server: the handler translates  *)
(* it and submits a job, the task reads the job's events, turns them into  *)
(* emissions and these into frames, and the client reads the frames or     *)
(* leaves. The scheduler is what EventStream promises, the text pipeline   *)
(* what EmissionSource promises.                                           *)
(***************************************************************************)
EXTENDS ChatEncoder, AnthropicEncoder, ResponsesEncoder, AnthropicRequest, ResponsesRequest,
        JobRequest, ClientView

CONSTANTS
  Bodies,         \* api -> the bodies of its requests
  Capacity,       \* events the job's channel holds
  FrameCapacity,  \* frames the response's channel holds
  MaxTokens,      \* bound: tokens of a job
  MaxBatch,       \* bound: emissions a token gives rise to
  MaxCalls        \* bound: tool calls of a generation

Apis == {"chat", "anthropic", "responses"}

ASSUME ServerAssumption ==
  /\ DOMAIN Bodies = Apis
  /\ {Capacity, FrameCapacity} \subseteq Nat \ {0}
  /\ {MaxTokens, MaxBatch, MaxCalls} \subseteq Nat

VARIABLES
  api, stream,               \* the endpoint, and whether the client streams
  body, messages,            \* the request and its translation, until the prompt is built
  given,                     \* what else the job and the prompt are given, until then
  counted,                   \* what the registry counts: requests and streams
  phase, chan, seen, alive,  \* the job's events, as in EventStream
  inCall, calls,             \* where the generation stands
  task,                      \* the locals of the generation loop
  enc,                       \* the encoder
  told,                      \* history: the emissions that left
  wire, nread,               \* frames sent, and how many the client has read
  client,                    \* "here" or "gone"
  reply                      \* the answer when it is no stream

job    == <<phase, chan, seen, alive>>
source == <<inCall, calls>>
output == <<enc, told, wire>>
asked  == <<api, stream, body, messages, given, counted>>
theirs == <<nread, client>>
vars   == <<asked, job, source, task, output, theirs, reply>>

R == "request"

Events == INSTANCE EventStream WITH Streams <- {R}

Emissions == INSTANCE EmissionSource WITH
  ended <- task.at = "return", batch <- task.todo

Role                 == [k |-> "role"]
Final(reason, tokens) == [k |-> "final", reason |-> reason, tokens |-> tokens]
Failure              == [k |-> "error"]

NoReply == [status |-> 0]
Refusal(status) == [status |-> status]

\* The loop stands at a point of its text; what it has to emit comes first.
NewTask ==
  [at |-> "new", todo |-> <<>>, frames |-> <<>>, gone |-> FALSE, failed |-> FALSE,
   reason |-> "none", tokens |-> 0, cancelled |-> FALSE]

NewEncoder(a) ==
  CASE a = "chat" -> [k |-> "stateless"] [] a = "anthropic" -> NewAnthropic
    [] a = "responses" -> NewResponses

Init ==
  /\ api \in Apis /\ stream \in BOOLEAN
  /\ body \in Bodies[api]
  /\ messages = <<>> /\ given = None
  /\ counted = [requests |-> 0, streams |-> 0]
  /\ Events!Init
  /\ inCall = FALSE /\ calls = 0
  /\ task = NewTask
  /\ enc = NewEncoder(api)
  /\ told = <<>> /\ wire = <<>> /\ nread = 0
  /\ client = "here"
  /\ reply = NoReply

-----------------------------------------------------------------------------
(* The handlers. *)

Idle == task.todo = <<>> /\ task.frames = <<>>

\* The request as chat messages; nothing to translate is a client's error.
Translation ==
  CASE api = "chat"      -> body.messages
    [] api = "anthropic" -> AnthropicMessages(body)
    [] api = "responses" -> InputToMessages(body)

Given ==
  CASE api = "chat"      -> ChatGiven(body)
    [] api = "anthropic" -> AnthropicGiven(body)
    [] api = "responses" -> ResponsesGiven(body)

Empty ==
  IF api = "responses" THEN Translation = <<>> ELSE body.messages = <<>>

Answer(status) ==
  /\ reply' = Refusal(status)
  /\ task' = [task EXCEPT !.at = "answered"]

Translate ==
  /\ task.at = "new"
  /\ IF Empty
     THEN /\ Answer(400)
          /\ UNCHANGED <<messages, given>>
     ELSE /\ messages' = Translation /\ given' = Given
          /\ task' = [task EXCEPT !.at = "translated"]
          /\ UNCHANGED reply
  /\ UNCHANGED <<api, stream, body, counted, job, source, output, theirs>>

Forget == body' = <<>> /\ messages' = <<>> /\ given' = None

Count == counted' = [requests |-> counted.requests + 1,
                     streams  |-> counted.streams + IF stream THEN 1 ELSE 0]

\* No prompt: a failure of the server's, or a conversation without tokens.
NoPrompt ==
  /\ task.at = "translated"
  /\ \/ "error" \in PromptIds(messages) /\ Answer(500)
     \/ "nothing" \in PromptIds(messages) /\ Answer(400)
  /\ Forget
  /\ UNCHANGED <<api, stream, counted, job, source, output, theirs>>

\* The queue of the scheduler is full.
Rejected ==
  /\ task.at = "translated"
  /\ "tokens" \in PromptIds(messages)
  /\ Count /\ Forget
  /\ Answer(429)
  /\ UNCHANGED <<api, stream, job, source, output, theirs>>

\* The job is accepted; the loop starts with the role.
Submitted ==
  /\ task.at = "translated"
  /\ "tokens" \in PromptIds(messages)
  /\ Count /\ Forget
  /\ Events!Open(R)
  /\ task' = [task EXCEPT !.at = "loop", !.todo = <<Role>>]
  /\ UNCHANGED <<api, stream, source, output, theirs, reply>>

-----------------------------------------------------------------------------
(* The generation loop. *)

\* Texts and fragments that the surfaces tell apart.
Words  == {<<>>, <<"v">>}
Chunks == {<<"v">>, <<"}">>}
Kinds == {Emissions!Content(v) : v \in Words}
         \cup {Emissions!ToolStart(c, "f") : c \in 0 .. MaxCalls - 1}
         \cup {Emissions!ToolArgs(c, v) : c \in 0 .. MaxCalls - 1, v \in Chunks}

\* Any emissions the text pipeline may produce.
Generates(batch) ==
  /\ inCall' \in BOOLEAN
  /\ calls' \in 0 .. MaxCalls
  /\ Emissions!Produces(inCall, calls, batch, inCall', calls')

AtLoop == task.at = "loop" /\ Idle

\* A token, with or without the end of a stop string.
TakeToken ==
  /\ AtLoop
  /\ Events!Read(R) /\ Head(chan[R]).kind = "token"
  /\ \E batch \in SeqOf(Kinds, MaxBatch), hit \in BOOLEAN :
       /\ Generates(batch)
       /\ task' = [task EXCEPT !.todo = batch, !.tokens = @ + 1,
                               !.reason = IF hit THEN "stop" ELSE @,
                               !.at = IF hit THEN "flush" ELSE "loop"]
  /\ UNCHANGED <<asked, output, theirs, reply>>

\* A token whose text does not decode.
TakeGarbage ==
  /\ AtLoop
  /\ Events!Read(R) /\ Head(chan[R]).kind = "token"
  /\ task' = [task EXCEPT !.failed = TRUE, !.tokens = @ + 1, !.at = "final"]
  /\ UNCHANGED <<asked, source, output, theirs, reply>>

TakeFailed ==
  /\ AtLoop
  /\ Events!Read(R) /\ Head(chan[R]).kind = "failed"
  /\ task' = [task EXCEPT !.failed = TRUE, !.at = "final"]
  /\ UNCHANGED <<asked, source, output, theirs, reply>>

\* Mutant: whatever did not stop by itself counts as cut at the limit.
AsLength(reason) == IF reason \in {"none", "stop"} THEN "stop" ELSE "length"

\* Clients know no reason "cancelled".
AsStr(reason) == IF reason \in {"none", "cancelled"} THEN "stop" ELSE reason

TakeDone ==
  /\ AtLoop
  /\ Events!Read(R) /\ Head(chan[R]).kind \notin {"token", "failed"}
  /\ task' = [task EXCEPT !.reason = Head(chan[R]).kind, !.at = "flush"]
  /\ UNCHANGED <<asked, source, output, theirs, reply>>

\* The scheduler is gone without a word.
TakeClosed ==
  /\ AtLoop
  /\ chan[R] = <<>> /\ phase[R] = "ended"
  /\ task' = [task EXCEPT !.at = "flush"]
  /\ UNCHANGED <<asked, job, source, output, theirs, reply>>

\* What was held back, and the end of an open call.
Flush ==
  /\ task.at = "flush" /\ Idle
  /\ \/ \E batch \in SeqOf(Kinds, MaxBatch) :
          /\ Generates(batch)
          /\ ~ inCall'
          /\ task' = [task EXCEPT !.todo = batch, !.at = "final"]
     \/ /\ task' = [task EXCEPT !.failed = TRUE, !.at = "final"]
        /\ UNCHANGED source
  /\ UNCHANGED <<asked, job, output, theirs, reply>>

Finish ==
  /\ task.at = "final" /\ Idle
  /\ task' = [task EXCEPT !.at = "return",
                          !.todo = <<IF task.failed THEN Failure
                                     ELSE Final(AsStr(task.reason), task.tokens)>>]
  /\ UNCHANGED <<asked, job, source, output, theirs, reply>>

\* Mutant: the receiver outlives the loop.
ReturnHolding ==
  /\ task.at = "return" /\ Idle
  /\ task' = [task EXCEPT !.at = "cancel"]
  /\ UNCHANGED <<asked, job, source, output, theirs, reply>>

\* The loop returns and drops the job's receiver.
Return ==
  /\ task.at = "return" /\ Idle
  /\ Events!Drop(R)
  /\ task' = [task EXCEPT !.at = "cancel"]
  /\ UNCHANGED <<asked, source, output, theirs, reply>>

-----------------------------------------------------------------------------
(* Emitting. *)

\* What the encoder makes of an emission: frames, each a list of events.
Rendered(em) ==
  LET anthropic == AnthropicRender(enc, em)
      responses == ResponsesRender(enc, em)
  IN  CASE api = "chat"      -> [enc |-> enc, frames |-> <<<<ChatRender(em)>>>>]
        [] api = "anthropic" -> [enc |-> anthropic.enc,
                                 frames |-> IF anthropic.out = <<>> THEN <<>>
                                            ELSE <<anthropic.out>>]
        [] api = "responses" -> [enc |-> responses.enc,
                                 frames |-> [i \in DOMAIN responses.out |-> <<responses.out[i]>>]]

\* The emission has left; the next one follows.
Left(t) == [t EXCEPT !.todo = Tail(@), !.frames = <<>>]

\* The loop hears that nobody listens. The role and the ending do not ask.
Unheard(t) ==
  IF Head(t.todo).k \in {"role", "final", "error"} THEN Left(t)
  ELSE [t EXCEPT !.gone = TRUE, !.todo = <<>>, !.frames = <<>>, !.at = "return"]

\* An emission waits for its encoder.
Rendering == task.todo # <<>> /\ task.frames = <<>>

\* Without frames there is nothing to wait for; to the Anthropic surface an
\* emission without frames is a client that is gone.
Render ==
  /\ Rendering
  /\ IF stream
     THEN LET rendered == Rendered(Head(task.todo))
          IN  /\ enc' = rendered.enc
              /\ task' = IF rendered.frames # <<>> THEN [task EXCEPT !.frames = rendered.frames]
                         ELSE IF api = "anthropic" THEN Unheard(task) ELSE Left(task)
              /\ told' = IF rendered.frames = <<>> THEN Append(told, Head(task.todo)) ELSE told
     ELSE /\ task' = Left(task)
          /\ told' = Append(told, Head(task.todo))
          /\ UNCHANGED enc
  /\ UNCHANGED <<asked, job, source, wire, theirs, reply>>

\* The next frame enters the channel when there is room.
SendFrame ==
  /\ task.todo # <<>> /\ task.frames # <<>>
  /\ client = "here" /\ Len(wire) - nread < FrameCapacity
  /\ wire' = Append(wire, Head(task.frames))
  /\ IF Len(task.frames) = 1
     THEN task' = Left(task) /\ told' = Append(told, Head(task.todo))
     ELSE task' = [task EXCEPT !.frames = Tail(@)] /\ UNCHANGED told
  /\ UNCHANGED <<asked, job, source, enc, theirs, reply>>

\* The response's receiver is gone.
SendFails ==
  /\ task.todo # <<>> /\ task.frames # <<>>
  /\ client = "gone"
  /\ task' = Unheard(task)
  /\ UNCHANGED <<asked, job, source, output, theirs, reply>>

-----------------------------------------------------------------------------
(* The end of a response. *)

\* Mutant: no surface has a last word.
CancelQuietly ==
  /\ task.at = "cancel" /\ stream
  /\ task' = [task EXCEPT !.at = "closed", !.cancelled = TRUE]
  /\ UNCHANGED <<asked, job, source, output, theirs, reply>>

\* The worker is told; only the chat surface has a last word.
Cancel ==
  /\ task.at = "cancel" /\ stream
  /\ task' = [task EXCEPT !.at = IF api = "chat" THEN "sentinel" ELSE "closed",
                          !.cancelled = TRUE]
  /\ UNCHANGED <<asked, job, source, output, theirs, reply>>

\* Mutant: the last word waits for room, whoever listens.
SentinelWaits ==
  /\ task.at = "sentinel"
  /\ client = "here" /\ Len(wire) - nread < FrameCapacity
  /\ wire' = Append(wire, <<ChatDone>>)
  /\ task' = [task EXCEPT !.at = "closed"]
  /\ UNCHANGED <<asked, job, source, enc, told, theirs, reply>>

Sentinel ==
  /\ task.at = "sentinel"
  /\ \/ /\ client = "here" /\ Len(wire) - nread < FrameCapacity
        /\ wire' = Append(wire, <<ChatDone>>)
     \/ client = "gone" /\ UNCHANGED wire
  /\ task' = [task EXCEPT !.at = "closed"]
  /\ UNCHANGED <<asked, job, source, enc, told, theirs, reply>>

\* The generated text behind an emission: the text, and for a call its markup.
Forwarded(em) ==
  CASE em.k = "content" -> em.value [] em.k = "start" -> <<"markup">> [] OTHER -> <<>>

\* The result of a generation nobody streamed: all that was forwarded, the
\* markup included, and the calls that were closed.
Result ==
  [content |-> FlattenSeq([i \in DOMAIN told |-> Forwarded(told[i])]),
   calls   |-> IF inCall THEN calls - 1 ELSE calls,
   reason  |-> AsStr(task.reason),
   tokens  |-> task.tokens]

TextPart(text) == [k |-> "text", text |-> text]
CallPart       == [k |-> "call"]

Times(n, x) == [i \in 1 .. n |-> x]

\* Mutant: an answer always stops by itself.
ChatStopJson(result) ==
  [status |-> 200, parts |-> <<TextPart(result.content)>> \o Times(result.calls, CallPart),
   ending |-> "stop", tokens |-> result.tokens]

ChatJson(result) ==
  [status |-> 200, parts |-> <<TextPart(result.content)>> \o Times(result.calls, CallPart),
   ending |-> result.reason, tokens |-> result.tokens]

\* Mutant: next to a call there is no text.
CallsOnly(result) ==
  IF result.calls = 0 THEN <<TextPart(result.content)>> ELSE Times(result.calls, CallPart)

\* There is always a part.
Parts(result) ==
  LET parts == (IF result.content # <<>> THEN <<TextPart(result.content)>> ELSE <<>>)
                 \o Times(result.calls, CallPart)
  IN  IF parts = <<>> THEN <<TextPart(<<>>)>> ELSE parts

\* Mutant: calls do not show in the reason.
AnthropicPlainJson(result) ==
  [status |-> 200, parts |-> Parts(result),
   ending |-> StopReason(FALSE, result.reason), tokens |-> result.tokens]

AnthropicJson(result) ==
  [status |-> 200, parts |-> Parts(result),
   ending |-> StopReason(result.calls > 0, result.reason), tokens |-> result.tokens]

ResponsesJson(result) ==
  [status |-> 200, parts |-> Parts(result),
   ending |-> IF result.reason = "length" THEN "incomplete" ELSE "completed",
   tokens |-> result.tokens]

NonStreamJson ==
  CASE api = "chat" -> ChatJson(Result) [] api = "anthropic" -> AnthropicJson(Result)
    [] api = "responses" -> ResponsesJson(Result)

Respond ==
  /\ task.at = "cancel" /\ ~ stream
  /\ task' = [task EXCEPT !.at = "answered", !.cancelled = TRUE]
  /\ reply' = IF task.failed THEN Refusal(500) ELSE NonStreamJson
  /\ UNCHANGED <<asked, job, source, output, theirs>>

-----------------------------------------------------------------------------
(* The client and the scheduler. *)

Open == task.at \notin {"answered", "dropped"}

ReadFrame ==
  /\ client = "here" /\ nread < Len(wire)
  /\ nread' = nread + 1
  /\ UNCHANGED <<asked, job, source, task, output, client, reply>>

Disconnect ==
  /\ client = "here" /\ phase[R] # "none" /\ Open
  /\ client' = "gone"
  /\ UNCHANGED <<asked, job, source, task, output, nread, reply>>

\* The handler of a client that is gone is dropped where it waits.
DropHandler ==
  /\ client = "gone" /\ ~ stream /\ AtLoop
  /\ Events!Drop(R)
  /\ task' = [task EXCEPT !.at = "dropped"]
  /\ UNCHANGED <<asked, source, output, theirs, reply>>

Aside == UNCHANGED <<asked, source, task, output, theirs, reply>>

WorkerToken  == Events!Carried(R) < MaxTokens /\ Events!Emit(R) /\ Aside
WorkerEnds   == Events!End(R) /\ Aside
WorkerBreaks == Events!Break({R}) /\ Aside

Loop ==
  \/ TakeToken \/ TakeGarbage \/ TakeFailed \/ TakeDone \/ TakeClosed
  \/ Flush \/ Finish \/ Return
  \/ SendFrame \/ SendFails
  \/ Cancel \/ Sentinel \/ Respond

Handler == Translate \/ NoPrompt \/ Rejected \/ Submitted

Worker == WorkerToken \/ WorkerEnds

Next ==
  \/ Handler \/ Loop \/ Render \/ Worker \/ WorkerBreaks
  \/ ReadFrame \/ Disconnect \/ DropHandler

Spec == Init /\ [][Next]_vars

\* Tasks that can run do, and rendering, a computation, does not last (which is
\* WF_vars(Render), without an ENABLED over the encoders); the scheduler goes on
\* with a job whose channel has room and gives up one whose receiver is gone; the
\* runtime drops a handler without a client; and a client that stays reads.
FairSpec ==
  /\ Spec
  /\ WF_vars(Handler) /\ WF_vars(Loop) /\ WF_vars(DropHandler)
  /\ []<> ~ Rendering
  /\ WF_vars(Worker) /\ WF_vars(WorkerBreaks /\ ~ alive[R])
  /\ WF_vars(ReadFrame)

-----------------------------------------------------------------------------
(* Properties.                                                             *)

Sees(view, e) ==
  CASE api = "chat" -> ChatSees(view, e) [] api = "anthropic" -> AnthropicSees(view, e)
    [] api = "responses" -> ResponsesSees(view, e)

\* What a client that reads everything sent so far knows.
View == FoldLeft(Sees, NewView, FlattenSeq(wire))

\* The answer by the emissions that left.
Heard == Emissions!HearAll(Emissions!Silence, told)

\* The frames of every surface follow its protocol, and between two emissions
\* they have told a client that listens the texts and the calls that were
\* emitted, nothing more, less or out of order.
ClientUnderstands ==
  stream =>
    /\ View.ok
    /\ client = "here" /\ task.frames = <<>> =>
         /\ TextsBetween(View) = Heard.texts
         /\ CallBodies(View) = [c \in DOMAIN Heard.calls |-> Heard.calls[c].json]

\* The loop gives up only on a client that has left: no emission of the text
\* pipeline comes out of an encoder without a frame.
GivesUpOnlyOnTheGone == task.gone => client = "gone"

\* The events that tell how an answer ended, and what they tell.
Tells(e) ==
  \/ e.ev \in {"message_delta", "completed", "incomplete", "error"}
  \/ e.ev = "chunk" /\ e.finish.reason # "none"

HowTold(e) ==
  CASE e.ev = "chunk" -> e.finish.reason [] e.ev = "message_delta" -> e.reason [] OTHER -> e.ev

TokensTold(e) == IF e.ev = "chunk" THEN e.finish.tokens ELSE e.tokens

\* The events that end a stream, by the protocol of its surface.
LastWords(surface) ==
  CASE surface = "chat"      -> {"[DONE]"}
    [] surface = "anthropic" -> {"message_stop", "error"}
    [] surface = "responses" -> {"completed", "incomplete", "error"}

\* Where on the wire the end is told: frame and event.
Tellings ==
  {p \in UNION {{f} \X DOMAIN wire[f] : f \in DOMAIN wire} : Tells(wire[p[1]][p[2]])}

\* A stream that closes on a client that listens has told it once how the
\* answer ended, and its last event is the last word of its surface.
AnswerEnds ==
  task.at = "closed" /\ client = "here" =>
    /\ \E p \in Tellings : Tellings = {p}
    /\ Last(Last(wire)).ev \in LastWords(api)

Carried == Cardinality({i \in DOMAIN seen[R] : seen[R][i].kind = "token"})
Ended(kind) == seen[R] # <<>> /\ Last(seen[R]).kind = kind

\* An ending that says the limit cut the answer, on the three surfaces.
CutShort == {"length", "max_tokens", "incomplete"}

\* What a client is told of the end, by a stream or in an answer, is what the
\* scheduler said of the job: the tokens it counted, a cut at the limit (a call
\* hides it on /v1/messages), and a failure as nothing but a failure.
EndingAgrees ==
  /\ \A p \in Tellings :
       LET e == wire[p[1]][p[2]]
       IN  HowTold(e) # "error" =>
             /\ TokensTold(e) = Carried
             /\ HowTold(e) # "tool_use" => (Ended("length") <=> HowTold(e) \in CutShort)
             /\ ~ Ended("failed")
  /\ reply.status = 200 =>
       /\ reply.tokens = Carried
       /\ reply.ending # "tool_use" => (Ended("length") <=> reply.ending \in CutShort)
       /\ ~ Ended("failed")

\* How a stream of the same emissions would have told the end.
Streamed ==
  LET step(s, em) == CASE api = "chat"      -> [s EXCEPT !.out = <<ChatRender(em)>>]
                       [] api = "anthropic" -> AnthropicRender(s.enc, em)
                       [] api = "responses" -> ResponsesRender(s.enc, em)
      last == FoldLeft(step, [enc |-> NewEncoder(api), out |-> <<>>], told)
  IN  SelectSeq(last.out, Tells)[1]

\* The answer's text and its calls.
TextsOf(parts) == SelectSeq(parts, LAMBDA p : p.k = "text")
CallsOf(parts) == SelectSeq(parts, LAMBDA p : p.k = "call")

\* The text of an answer but for the markup of calls.
Plain(parts) ==
  SelectSeq(FlattenSeq([i \in DOMAIN TextsOf(parts) |-> TextsOf(parts)[i].text]),
            LAMBDA w : w # "markup")

\* The answer to a client that does not stream has, on every surface, what the
\* stream would have had: the ending and the usage, as many calls, and, behind
\* one another, the same texts. Besides them it may have only the markup of the
\* calls, which TextsOnlyIfHeard is about.
NonStreamAgrees ==
  reply.status = 200 =>
    /\ reply.ending = HowTold(Streamed) /\ reply.tokens = TokensTold(Streamed)
    /\ reply.parts # <<>>
    /\ reply.parts = TextsOf(reply.parts) \o CallsOf(reply.parts)
    /\ Len(CallsOf(reply.parts)) = Len(Heard.calls)
    /\ Plain(reply.parts) = FlattenSeq(Heard.texts)

\* A generation that was calls and no text is answered with the calls alone, on
\* the two surfaces whose answers are lists of parts.
TextsOnlyIfHeard ==
  reply.status = 200 /\ api # "chat" /\ Heard.calls # <<>> /\ FlattenSeq(Heard.texts) = <<>> =>
    TextsOf(reply.parts) = <<>>

-----------------------------------------------------------------------------
(* What a translation keeps.                                               *)

\* Words with the role that says them.
Said(role, text) ==
  LET words == SelectSeq(text, LAMBDA w : w # "nl") IN [i \in DOMAIN words |-> <<role, words[i]>>]

SaidIn(content, role) == Said(role, JoinWith(Texts(content, {"text", "input_text"}), <<>>))

\* The conversation by the request: who says what, in order; what calls are
\* made; which results come.
Asked ==
  CASE api = "anthropic" ->
         [said  |-> SaidIn(body.system, "system") \o
                    FlattenSeq([i \in DOMAIN body.messages |->
                      SaidIn(body.messages[i].content, body.messages[i].role)]),
          calls |-> FlattenSeq([i \in DOMAIN body.messages |->
                      LET uses == BlocksOf(Blocks(body.messages[i].content), {"tool_use"})
                      IN  [k \in DOMAIN uses |-> uses[k].id]])]
    [] api = "responses" ->
         LET items == Blocks(body.input)
         IN  [said  |-> Said("system", body.instructions) \o
                        IF body.input.k = "string" THEN Said("user", body.input.text)
                        ELSE FlattenSeq([i \in DOMAIN items |->
                          CASE items[i].type = "message" ->
                                 SaidIn(items[i].content, ItemRole(items[i].role))
                            [] items[i].type = "text" -> Said("user", items[i].text)
                            [] OTHER -> <<>>]),
              calls |-> LET made == BlocksOf(items, {"function_call"})
                        IN  [k \in DOMAIN made |-> made[k].id]]

Translated ==
  [said  |-> FlattenSeq([i \in DOMAIN messages |->
               IF messages[i].role # "tool" /\ messages[i].content.k = "string"
               THEN Said(messages[i].role, messages[i].content.text) ELSE <<>>]),
   calls |-> FlattenSeq([i \in DOMAIN messages |-> messages[i].calls])]

\* A translation neither loses nor reorders what was said and called, also
\* when it drops, joins and folds parts of the request.
HistoryKept == task.at = "translated" /\ api # "chat" => Translated = Asked

\* The places in items before i of elements that are of no type given.
Before(items, i, types) == {k \in 1 .. i - 1 : items[k].type \notin types}

\* The request gives the results of calls right after the calls.
Orderly ==
  CASE api = "anthropic" ->
         \A i \in DOMAIN body.messages :
           \A b \in Range(BlocksOf(Blocks(body.messages[i].content), {"tool_result"})) :
             /\ i > 1 /\ body.messages[i - 1].role = "assistant"
             /\ b.id \in {u.id : u \in Range(BlocksOf(Blocks(body.messages[i - 1].content),
                                                       {"tool_use"}))}
    [] api = "responses" ->
         LET items == BlocksOf(Blocks(body.input), {"message", "text", "function_call",
                                                    "function_call_output"})
         IN  \A i \in DOMAIN items : items[i].type = "function_call_output" =>
               LET end   == Max({0} \cup Before(items, i, {"function_call_output"}))
                   start == Max({0} \cup Before(items, end + 1, {"function_call"}))
               IN  items[i].id \in {items[k].id : k \in start + 1 .. end}
    [] OTHER -> FALSE

\* The result of a call stands, with nothing but other results between, after
\* the message that makes the call: the shape the chat template expects.
ResultsFollowCalls ==
  task.at = "translated" /\ Orderly =>
    \A i \in DOMAIN messages : messages[i].role = "tool" =>
      LET before == {k \in 1 .. i - 1 : messages[k].role # "tool"}
      IN  before # {} /\ messages[i].id \in Range(messages[Max(before)].calls)

\* The names of the limit, the newest first.
Limits ==
  CASE api = "chat"      -> <<body.max_completion_tokens, body.max_tokens>>
    [] api = "anthropic" -> <<body.max_tokens>>
    [] api = "responses" -> <<body.max_output_tokens, body.max_tokens>>

\* The functions of a request: custom tools have no type on /v1/messages.
Functions ==
  SelectSeq(body.tools, LAMBDA t : t.name # None /\ t.type \in {"function", None})

\* A job never gets more tokens than its client asked for under the newest name
\* it used, and fewer only when the number does not fit; and the prompt offers
\* the client's functions, each with its schema, in their order.
LimitAndToolsHonoured ==
  task.at = "translated" =>
    /\ LET named == SelectSeq(Limits, LAMBDA n : n # None)
       IN  named # <<>> => given.limit = Min({Head(named), MaxU32})
    /\ [k \in DOMAIN Functions |-> Function(Functions[k])] =
         SelectSeq(given.tools, LAMBDA t : \E f \in Range(Functions) : f.name = t.name)

\* Every translated message can be read by the prompt builder. The code breaks
\* this for the messages that push_tool_call makes; no instance relies on it.
HistoryReadable ==
  task.at = "translated" => \A i \in DOMAIN messages : Readable(messages[i])

-----------------------------------------------------------------------------
(* Liveness. *)

\* A client that is gone frees the job's receiver, which stops the job.
Released == client = "gone" ~> ~ alive[R]

\* Every request comes to its end.
Answered == <>(task.at \in {"closed", "answered", "dropped"})
=============================================================================
