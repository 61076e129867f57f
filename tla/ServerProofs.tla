---------------------------- MODULE ServerProofs ----------------------------
(***************************************************************************)
(* What holds of every request to the server, whatever its body, the text  *)
(* that is generated and the sizes of the channels: no encoder drops an    *)
(* emission of the text pipeline.                                          *)
(***************************************************************************)
EXTENDS Server, FiniteSetTheorems, TLAPS

-----------------------------------------------------------------------------
(* Batches of emissions *)

LEMMA OneCardinality == \A S : Emissions!Cardinality(S) = Cardinality(S)
BY DEF Emissions!Cardinality, Cardinality

LEMMA StartedCounts ==
  ASSUME NEW n, NEW b, NEW i
  PROVE  Emissions!Started(n, b, i) = n + Cardinality({k \in 1 .. i : b[k].k = "start"})
BY OneCardinality DEF Emissions!Started

\* The calls started are counted.
LEMMA StartedIs ==
  ASSUME NEW n \in Nat, NEW b, NEW i \in Nat
  PROVE  /\ Emissions!Started(n, b, 0) = n
         /\ Emissions!Started(n, b, i) \in Nat
         /\ b[i + 1].k = "start" =>
              Emissions!Started(n, b, i + 1) = Emissions!Started(n, b, i) + 1
         /\ b[i + 1].k # "start" =>
              Emissions!Started(n, b, i + 1) = Emissions!Started(n, b, i)
<1> DEFINE S(k) == {l \in 1 .. k : b[l].k = "start"}
<1>1. IsFiniteSet(S(i)) /\ Cardinality(S(i)) \in Nat
  <2>1. IsFiniteSet(1 .. i)
    BY FS_Interval
  <2>2. QED BY <2>1, FS_Subset, FS_CardinalityType
<1>2. Cardinality(S(0)) = 0
  <2>1. S(0) = {}
    OBVIOUS
  <2>2. QED BY <2>1, FS_EmptySet
<1>3. CASE b[i + 1].k = "start"
  <2>1. S(i + 1) = S(i) \cup {i + 1} /\ i + 1 \notin S(i)
    BY <1>3
  <2>2. Cardinality(S(i + 1)) = Cardinality(S(i)) + 1
    BY <1>1, <2>1, FS_AddElement
  <2>3. QED BY <1>1, <1>2, <1>3, <2>2, StartedCounts
<1>4. CASE b[i + 1].k # "start"
  <2>1. S(i + 1) = S(i)
    BY <1>4
  <2>2. Cardinality(S(i + 1)) = Cardinality(S(i))
    BY <2>1
  <2>3. QED BY <1>1, <1>2, <1>4, <2>2, StartedCounts
<1>5. QED BY <1>3, <1>4

\* The calls started do not change where none starts.
LEMMA NoneStarted ==
  ASSUME NEW n \in Nat, NEW b, NEW k \in Nat, NEW i \in Nat, k <= i,
         \A l \in k + 1 .. i : b[l].k # "start"
  PROVE  Emissions!Started(n, b, i) = Emissions!Started(n, b, k)
<1>1. {l \in 1 .. i : b[l].k = "start"} = {l \in 1 .. k : b[l].k = "start"}
  OBVIOUS
<1>2. QED BY <1>1 DEF Emissions!Started

\* Each of the first m emissions is legal where it comes.
Lawful(open, n, b, m) ==
  \A l \in 1 .. m : Emissions!Legal(Emissions!Opened(open, b, l - 1),
                                    Emissions!Started(n, b, l - 1), b[l])

\* A call that is open was open before the batch, or the batch started it.
LEMMA OpenCall ==
  ASSUME NEW open \in BOOLEAN, NEW n \in Nat, NEW m \in Nat, NEW b \in [1 .. m -> Kinds],
         NEW i \in 0 .. m, Emissions!Opened(open, b, i), Lawful(open, n, b, m)
  PROVE  \/ open /\ Emissions!Started(n, b, i) = n
         \/ \E k \in 1 .. i : b[k].k = "start" /\ b[k].index = Emissions!Started(n, b, i) - 1
<1> USE DEF Lawful
<1>1. CASE open /\ Emissions!Unclosed(b, 0, i)
  <2>1. ASSUME NEW l \in 1 .. i, b[l].k = "start" PROVE FALSE
    <3>1. Emissions!Opened(open, b, l - 1)
      BY <1>1 DEF Emissions!Opened, Emissions!Unclosed
    <3>2. QED BY <2>1, <3>1 DEF Emissions!Legal
  <2>2. Emissions!Started(n, b, i) = Emissions!Started(n, b, 0)
    <3>1. 0 \in Nat /\ i \in Nat /\ 0 <= i /\ \A l \in 0 + 1 .. i : b[l].k # "start"
      BY <2>1
    <3>2. QED BY <3>1, NoneStarted
  <2>3. QED BY <1>1, <2>2, StartedIs
<1>2. ASSUME NEW k \in 1 .. i, b[k].k = "start", Emissions!Unclosed(b, k, i)
      PROVE  b[k].index = Emissions!Started(n, b, i) - 1
  <2>1. ASSUME NEW l \in k + 1 .. i, b[l].k = "start" PROVE FALSE
    <3>1. Emissions!Opened(open, b, l - 1)
      BY <1>2 DEF Emissions!Opened, Emissions!Unclosed
    <3>2. QED BY <2>1, <3>1 DEF Emissions!Legal
  <2>2. Emissions!Started(n, b, i) = Emissions!Started(n, b, k)
    <3>1. k \in Nat /\ i \in Nat /\ k <= i /\ \A l \in k + 1 .. i : b[l].k # "start"
      BY <2>1
    <3>2. QED BY <3>1, NoneStarted
  <2>3. Emissions!Started(n, b, k) = Emissions!Started(n, b, k - 1) + 1
    BY <1>2, StartedIs, k - 1 \in Nat, (k - 1) + 1 = k
  <2>4. b[k].index = Emissions!Started(n, b, k - 1)
    BY <1>2 DEF Emissions!Legal
  <2>5. Emissions!Started(n, b, k - 1) \in Nat
    BY StartedIs, k - 1 \in Nat
  <2>6. QED BY <2>2, <2>3, <2>4, <2>5
<1>3. QED BY <1>1, <1>2 DEF Emissions!Opened

\* The arguments in a batch belong to the call that was open, or to one the batch
\* has started before; and so does the call that it leaves open.
LEMMA Batches ==
  ASSUME inCall \in BOOLEAN, calls \in Nat,
         NEW b \in SeqOf(Kinds, MaxBatch), Generates(b)
  PROVE  /\ b \in Seq(Kinds) /\ inCall' \in BOOLEAN /\ calls' \in Nat
         /\ \A i \in 1 .. Len(b) : b[i].k = "args" =>
              \/ inCall /\ b[i].index = calls - 1
              \/ \E k \in 1 .. i - 1 : b[k].k = "start" /\ b[k].index = b[i].index
         /\ inCall' =>
              \/ inCall /\ calls' = calls
              \/ \E k \in 1 .. Len(b) : b[k].k = "start" /\ b[k].index = calls' - 1
<1>1. PICK m \in 0 .. MaxBatch : b \in [1 .. m -> Kinds]
  BY DEF SeqOf
<1>2. m \in Nat /\ b \in Seq(Kinds) /\ Len(b) = m /\ DOMAIN b = 1 .. m
  BY <1>1, ServerAssumption
<1>3. /\ inCall' \in BOOLEAN /\ calls' \in Nat
      /\ inCall' = Emissions!Opened(inCall, b, m)
      /\ calls' = Emissions!Started(calls, b, m)
  BY <1>2, ServerAssumption DEF Generates, Emissions!Produces
<1>4. Lawful(inCall, calls, b, m)
  BY <1>2 DEF Generates, Emissions!Produces, Lawful
<1>5. \A i \in 0 .. m : Emissions!Opened(inCall, b, i) =>
        \/ inCall /\ Emissions!Started(calls, b, i) = calls
        \/ \E k \in 1 .. i : b[k].k = "start" /\ b[k].index = Emissions!Started(calls, b, i) - 1
  <2>1. SUFFICES ASSUME NEW i \in 0 .. m, Emissions!Opened(inCall, b, i)
                 PROVE  \/ inCall /\ Emissions!Started(calls, b, i) = calls
                        \/ \E k \in 1 .. i : /\ b[k].k = "start"
                                            /\ b[k].index = Emissions!Started(calls, b, i) - 1
    OBVIOUS
  <2>2. inCall \in BOOLEAN /\ calls \in Nat /\ m \in Nat
    BY <1>2
  <2>3. QED BY <1>1, <1>4, <2>1, <2>2, OpenCall
<1>6. ASSUME NEW i \in 1 .. m, b[i].k = "args"
      PROVE  \/ inCall /\ b[i].index = calls - 1
             \/ \E k \in 1 .. i - 1 : b[k].k = "start" /\ b[k].index = b[i].index
  <2>1. /\ Emissions!Opened(inCall, b, i - 1)
        /\ b[i].index = Emissions!Started(calls, b, i - 1) - 1
    BY <1>4, <1>6 DEF Lawful, Emissions!Legal
  <2>2. i - 1 \in 0 .. m
    OBVIOUS
  <2>3. QED BY <1>5, <2>1, <2>2
<1>7. inCall' => \/ inCall /\ calls' = calls
                 \/ \E k \in 1 .. m : b[k].k = "start" /\ b[k].index = calls' - 1
  <2>1. SUFFICES ASSUME inCall'
                 PROVE  \/ inCall /\ calls' = calls
                        \/ \E k \in 1 .. m : b[k].k = "start" /\ b[k].index = calls' - 1
    OBVIOUS
  <2>2. Emissions!Opened(inCall, b, m) /\ m \in 0 .. m
    BY <1>2, <1>3, <2>1
  <2>3. QED BY <1>3, <1>5, <2>2
<1>8. QED BY <1>2, <1>3, <1>6, <1>7

-----------------------------------------------------------------------------
(* The inductive invariant *)

Fields == {"at", "todo", "frames", "gone", "failed", "reason", "tokens", "cancelled"}
BlockFields == {"text", "next", "tools", "sawTool", "done"}

Busy == {"loop", "flush", "final"}
Over == {"return", "cancel", "sentinel", "closed", "answered", "dropped"}

Endings   == {"stop", "length", "cancelled"}
JobEvents == [kind : Endings \cup {"token", "failed"}, n : Nat]

Emission ==
  Kinds \cup {Role, Failure} \cup {Final(AsStr(r), n) : r \in Endings \cup {"none"}, n \in Nat}

JobType ==
  /\ phase \in [{R} -> {"none", "open", "ended"}]
  /\ chan \in [{R} -> Seq(JobEvents)]
  /\ seen \in [{R} -> Seq(JobEvents)]
  /\ alive \in [{R} -> BOOLEAN]

TaskType ==
  /\ DOMAIN task = Fields
  /\ task.at \in Busy \cup Over \cup {"new", "translated"}
  /\ task.todo \in Seq(Emission)
  /\ task.gone \in BOOLEAN /\ task.failed \in BOOLEAN
  /\ task.reason \in Endings \cup {"none"} /\ task.tokens \in Nat
  /\ inCall \in BOOLEAN /\ calls \in Nat

\* What is to be emitted is of the text, until the loop returns, and then the
\* ending; before and after that it is nothing.
Stages ==
  /\ task.at \in Busy =>
       \A i \in 1 .. Len(task.todo) : task.todo[i].k \in {"role", "content", "start", "args"}
  /\ task.at = "return" =>
       Len(task.todo) <= 1 /\ \A i \in 1 .. Len(task.todo) : task.todo[i].k \in {"final", "error"}
  /\ task.at \notin Busy \cup {"return"} => Idle
  /\ task.at \in {"new", "translated"} => ~ inCall

\* A call has a block, or starts among the emissions before the place given.
Known(tools, todo, call, place) ==
  \/ call \in DOMAIN tools
  \/ \E k \in 1 .. place - 1 : todo[k].k = "start" /\ todo[k].index = call

\* The blocks of the Anthropic surface keep up with the calls of the text.
InBlocks ==
  /\ DOMAIN enc = BlockFields
  /\ enc.done \in BOOLEAN
  /\ enc.done => task.at \in Over /\ ~ Rendering
  /\ task.frames # <<>> => Len(task.frames) = 1
  /\ task.at \in Busy =>
       /\ \A i \in 1 .. Len(task.todo) :
            task.todo[i].k = "args" => Known(enc.tools, task.todo, task.todo[i].index, i)
       /\ task.todo # <<>> /\ task.frames # <<>> /\ task.todo[1].k = "start" =>
            task.todo[1].index \in DOMAIN enc.tools
  /\ task.at \in {"loop", "flush"} /\ inCall =>
       Known(enc.tools, task.todo, calls - 1, Len(task.todo) + 1)

Encoded == api = "anthropic" /\ stream => InBlocks

Answering == JobType /\ TaskType /\ Stages /\ Encoded /\ GivesUpOnlyOnTheGone

LEMMA EmissionKinds ==
  /\ \A e \in Kinds : e.k \in {"content", "start", "args"}
  /\ Role.k = "role" /\ Failure.k = "error"
  /\ \A r, n : Final(r, n).k = "final"
  /\ Kinds \subseteq Emission /\ Role \in Emission /\ Failure \in Emission
  /\ \A r \in Endings \cup {"none"}, n \in Nat : Final(AsStr(r), n) \in Emission
<1>1. \A e \in Kinds : e.k \in {"content", "start", "args"}
  <2>1. ASSUME NEW e \in Kinds
        PROVE  \/ \E v \in Words : e = Emissions!Content(v)
               \/ \E c \in 0 .. MaxCalls - 1 : e = Emissions!ToolStart(c, "f")
               \/ \E c \in 0 .. MaxCalls - 1, v \in Chunks : e = Emissions!ToolArgs(c, v)
    BY DEF Kinds
  <2>2. /\ \A v : Emissions!Content(v).k = "content"
        /\ \A c, v : Emissions!ToolStart(c, v).k = "start"
        /\ \A c, v : Emissions!ToolArgs(c, v).k = "args"
    BY DEF Emissions!Content, Emissions!ToolStart, Emissions!ToolArgs
  <2>3. QED BY <2>1, <2>2
<1>2. Role.k = "role" /\ Failure.k = "error" /\ \A r, n : Final(r, n).k = "final"
  BY DEF Role, Failure, Final
<1>3. QED BY <1>1, <1>2 DEF Emission

LEMMA AnsweringInitially == Init => Answering
<1> SUFFICES ASSUME Init PROVE Answering
  OBVIOUS
<1>1. JobType
  BY DEF Init, Events!Init, JobType
<1>2. TaskType /\ task.at = "new" /\ task.todo = <<>> /\ task.frames = <<>> /\ ~ task.gone
  <2>1. task = NewTask /\ inCall = FALSE /\ calls = 0
    BY DEF Init
  <2>2. DOMAIN task = Fields
    BY <2>1 DEF NewTask, Fields
  <2>3. /\ task.at = "new" /\ task.todo = <<>> /\ task.frames = <<>>
        /\ task.gone = FALSE /\ task.failed = FALSE /\ task.reason = "none" /\ task.tokens = 0
    BY <2>1 DEF NewTask
  <2>4. <<>> \in Seq(Emission)
    OBVIOUS
  <2>5. task.todo \in Seq(Emission)
    BY <2>3, <2>4
  <2>6. task.gone \in BOOLEAN /\ task.failed \in BOOLEAN /\ inCall \in BOOLEAN
    BY <2>1, <2>3
  <2>7. /\ task.at \in Busy \cup Over \cup {"new", "translated"}
        /\ task.reason \in Endings \cup {"none"} /\ task.tokens \in Nat /\ calls \in Nat
    BY <2>1, <2>3
  <2>8. ~ task.gone
    BY <2>3
  <2>9. QED BY <2>2, <2>3, <2>5, <2>6, <2>7, <2>8 DEF TaskType
<1>3. Stages
  BY <1>2 DEF Init, Stages, Idle, Busy
<1>4. Encoded
  <2>1. api = "anthropic" => enc = NewAnthropic
    BY DEF Init, NewEncoder
  <2>2. SUFFICES ASSUME api = "anthropic" PROVE InBlocks
    BY DEF Encoded
  <2>3. DOMAIN enc = BlockFields /\ enc.done = FALSE
    BY <2>1, <2>2 DEF NewAnthropic, BlockFields
  <2>4. QED BY <1>2, <2>3 DEF InBlocks, Busy
<1>5. QED BY <1>1, <1>2, <1>3, <1>4 DEF Answering, GivesUpOnlyOnTheGone

\* The job's events stay events.
LEMMA JobTyped ==
  ASSUME JobType, [Next]_vars PROVE JobType'
<1> USE DEF JobType
<1>1. CASE UNCHANGED job
  BY <1>1 DEF job
<1>2. CASE Events!Open(R)
  BY <1>2 DEF Events!Open
<1>3. CASE Events!Read(R)
  <2>1. Head(chan[R]) \in JobEvents /\ Tail(chan[R]) \in Seq(JobEvents)
    BY <1>3 DEF Events!Read
  <2>2. QED BY <1>3, <2>1 DEF Events!Read
<1>4. CASE Events!Drop(R)
  <2>1. <<>> \in Seq(JobEvents)
    OBVIOUS
  <2>2. QED BY <1>4, <2>1 DEF Events!Drop
<1>5. CASE Events!Emit(R)
  <2>1. Events!Carried(R) + 1 \in Nat
    BY DEF Events!Carried
  <2>2. Events!Token(Events!Carried(R) + 1) \in JobEvents
    BY <2>1 DEF Events!Token, JobEvents
  <2>3. QED BY <1>5, <2>2 DEF Events!Emit
<1>6. CASE Events!End(R)
  <2>1. Events!Carried(R) \in Nat
    BY DEF Events!Carried
  <2>2. PICK e \in {Events!Ending(k, Events!Carried(R)) : k \in {"stop", "length", "cancelled"}}
                   \cup {Events!Ending("failed", 0)} :
          chan' = [chan EXCEPT ![R] = Append(@, e)]
    BY <1>6 DEF Events!End
  <2>3. e \in JobEvents
    BY <2>1, <2>2 DEF Events!Ending, JobEvents, Endings
  <2>4. QED BY <1>6, <2>2, <2>3 DEF Events!End
<1>7. CASE Events!Break({R})
  BY <1>7 DEF Events!Break
<1>8. UNCHANGED job \/ Events!Open(R) \/ Events!Read(R) \/ Events!Drop(R) \/ Events!Emit(R)
      \/ Events!End(R) \/ Events!Break({R})
  BY DEF Next, Handler, Loop, Worker, Translate, NoPrompt, Rejected, Submitted, TakeToken,
         TakeGarbage, TakeFailed, TakeDone, TakeClosed, Flush, Finish, Return, SendFrame,
         SendFails, Cancel, Sentinel, Respond, Render, WorkerToken, WorkerEnds, WorkerBreaks,
         ReadFrame, Disconnect, DropHandler, Aside, theirs, vars
<1>9. QED BY <1>1, <1>2, <1>3, <1>4, <1>5, <1>6, <1>7, <1>8

-----------------------------------------------------------------------------
(* The steps of the loop *)

\* A step that moves the task on with nothing left to emit.
LEMMA MovesOn ==
  ASSUME Answering, Idle, NEW to \in Over \cup {"translated"},
         task' = [task EXCEPT !.at = to] \/ task' = [task EXCEPT !.at = to, !.cancelled = TRUE],
         to = "translated" => task.at = "new",
         UNCHANGED <<api, stream, source, enc>>,
         client' = client
  PROVE  TaskType' /\ Stages' /\ Encoded' /\ GivesUpOnlyOnTheGone'
<1>1. /\ task'.at = to /\ task'.todo = task.todo /\ task'.frames = task.frames
      /\ task'.gone = task.gone /\ task'.failed = task.failed /\ task'.reason = task.reason
      /\ task'.tokens = task.tokens /\ DOMAIN task' = DOMAIN task
  BY DEF Answering, TaskType, Fields
<1>2. TaskType'
  BY <1>1 DEF Answering, TaskType, source
<1>3. Idle' /\ to \notin Busy
  BY <1>1 DEF Idle, Busy, Over
<1>4. Stages'
  BY <1>1, <1>3 DEF Answering, Stages, Idle, source, Over
<1>5. Encoded'
  <2>1. SUFFICES ASSUME api = "anthropic", stream PROVE InBlocks'
    BY DEF Encoded
  <2>2. InBlocks
    BY <2>1 DEF Answering, Encoded
  <2>3. enc' = enc /\ to \notin {"loop", "flush"}
    BY DEF Over
  <2>4. enc.done => to \in Over
    BY <2>2 DEF InBlocks, Over
  <2>5. QED BY <1>1, <1>3, <2>2, <2>3, <2>4 DEF InBlocks, Rendering, Idle, Busy
<1>6. GivesUpOnlyOnTheGone'
  BY <1>1 DEF Answering, GivesUpOnlyOnTheGone
<1>7. QED BY <1>2, <1>4, <1>5, <1>6

\* An encoder that goes on.
GoesOn(e) == DOMAIN e = BlockFields /\ e.done = FALSE
IsOver(e) == DOMAIN e = BlockFields /\ e.done = TRUE

\* What the Anthropic encoder makes of an emission before the ending: a frame, if
\* arguments have a call with a block, and no block is forgotten.
LEMMA AnthropicFrames ==
  ASSUME NEW e, GoesOn(e),
         NEW em, em.k \in {"role", "content", "start", "args"},
         em.k = "args" => em.index \in DOMAIN e.tools
  PROVE  LET r == AnthropicRender(e, em) IN
           /\ r.out # <<>>
           /\ GoesOn(r.enc)
           /\ DOMAIN e.tools \subseteq DOMAIN r.enc.tools
           /\ em.k = "start" => em.index \in DOMAIN r.enc.tools
<1> USE DEF GoesOn
<1> DEFINE r == AnthropicRender(e, em)
<1>1. CASE em.k = "role"
  <2>1. r = [enc |-> e, out |-> <<[ev |-> "message_start"]>>]
    BY <1>1 DEF AnthropicRender
  <2>2. QED BY <1>1, <2>1
<1>2. CASE em.k = "content"
  <2>1. r = RenderContent(e, em.value)
    BY <1>2 DEF AnthropicRender
  <2>2. CASE e.text # NoBlock
    BY <1>2, <2>1, <2>2 DEF RenderContent
  <2>3. CASE e.text = NoBlock
    <3>1. /\ r.enc = [e EXCEPT !.text = e.next, !.next = @ + 1]
          /\ r.out = <<BlockStart(e.next, "text"), BlockDelta(e.next, em.value)>>
      BY <2>1, <2>3 DEF RenderContent
    <3>2. DOMAIN r.enc = BlockFields /\ r.enc.done = e.done /\ r.enc.tools = e.tools
      BY <3>1 DEF BlockFields
    <3>3. QED BY <1>2, <3>1, <3>2
  <2>4. QED BY <2>2, <2>3
<1>3. CASE em.k = "start"
  <2>1. r = RenderToolStart(e, em.index)
    BY <1>3 DEF AnthropicRender
  <2>2. /\ r.enc = [e EXCEPT !.text = NoBlock, !.next = @ + 1, !.sawTool = TRUE,
                               !.tools = WithBlock(e, em.index)]
        /\ r.out # <<>>
    BY <2>1 DEF RenderToolStart
  <2>3. DOMAIN r.enc = BlockFields /\ r.enc.done = e.done /\ r.enc.tools = WithBlock(e, em.index)
    BY <2>2 DEF BlockFields
  <2>4. DOMAIN r.enc.tools = DOMAIN e.tools \cup {em.index}
    BY <2>3 DEF WithBlock
  <2>5. QED BY <2>2, <2>3, <2>4
<1>4. CASE em.k = "args"
  <2>1. r = RenderToolArgs(e, em.index, em.value)
    BY <1>4 DEF AnthropicRender
  <2>2. r = [enc |-> e, out |-> <<BlockDelta(e.tools[em.index], em.value)>>]
    BY <1>4, <2>1 DEF RenderToolArgs
  <2>3. QED BY <1>4, <2>2
<1>5. QED BY <1>1, <1>2, <1>3, <1>4

\* The ending leaves the encoder done.
LEMMA AnthropicDone ==
  ASSUME NEW e, GoesOn(e),
         NEW em, em.k \in {"final", "error"}
  PROVE  IsOver(AnthropicRender(e, em).enc)
<1> USE DEF GoesOn, IsOver
<1>1. CASE em.k = "final"
  <2>1. AnthropicRender(e, em).enc = [e EXCEPT !.text = NoBlock, !.done = TRUE]
    BY <1>1 DEF AnthropicRender, RenderFinal
  <2>2. QED BY <2>1 DEF BlockFields
<1>2. CASE em.k = "error"
  <2>1. AnthropicRender(e, em).enc = [e EXCEPT !.done = TRUE]
    BY <1>2 DEF AnthropicRender
  <2>2. QED BY <2>1 DEF BlockFields
<1>3. QED BY <1>1, <1>2

\* The first emission has left, with its frames.
LEMMA Leaves ==
  ASSUME Answering, task.todo # <<>>, task' = Left(task),
         UNCHANGED <<api, stream, source, client>>,
         api = "anthropic" /\ stream =>
           /\ enc' = enc
           /\ task.at \in Busy => task.frames # <<>>
  PROVE  TaskType' /\ Stages' /\ Encoded' /\ GivesUpOnlyOnTheGone'
<1>1. /\ task'.at = task.at /\ task'.todo = Tail(task.todo) /\ task'.frames = <<>>
      /\ task'.gone = task.gone /\ task'.failed = task.failed /\ task'.reason = task.reason
      /\ task'.tokens = task.tokens /\ DOMAIN task' = DOMAIN task
  BY DEF Answering, TaskType, Fields, Left
<1>2. /\ task.todo \in Seq(Emission) /\ Tail(task.todo) \in Seq(Emission)
      /\ Len(task.todo) \in Nat \ {0} /\ Len(Tail(task.todo)) = Len(task.todo) - 1
      /\ \A i \in 1 .. Len(task.todo) - 1 : Tail(task.todo)[i] = task.todo[i + 1]
  BY DEF Answering, TaskType
<1>3. TaskType'
  BY <1>1, <1>2 DEF Answering, TaskType, source
<1>4. task.at \in Busy \cup {"return"}
  BY DEF Answering, Stages, Idle
<1>5. Stages'
  BY <1>1, <1>2, <1>4 DEF Answering, Stages, Idle, source, Busy
<1>6. Encoded'
  <2>1. SUFFICES ASSUME api = "anthropic", stream PROVE InBlocks'
    BY DEF Encoded
  <2>2. InBlocks /\ enc' = enc /\ (task.at \in Busy => task.frames # <<>>)
    BY <2>1 DEF Answering, Encoded
  <2>3. enc.done => task.at \in Over /\ ~ Rendering'
    <3>1. SUFFICES ASSUME enc.done PROVE task.at \in Over /\ ~ Rendering'
      OBVIOUS
    <3>2. task.at \in Over
      BY <2>2, <3>1 DEF InBlocks
    <3>3. task.at = "return"
      BY <1>4, <3>2 DEF Over, Busy
    <3>4. Len(task.todo) <= 1
      BY <3>3 DEF Answering, Stages
    <3>5. task'.todo = <<>>
      BY <1>1, <1>2, <3>4
    <3>6. QED BY <3>2, <3>5 DEF Rendering
  <2>4. ASSUME task.at \in Busy, NEW c, NEW i \in 2 .. Len(task.todo) + 1,
               Known(enc.tools, task.todo, c, i)
        PROVE  Known(enc.tools, task'.todo, c, i - 1)
    <3>1. CASE c \in DOMAIN enc.tools
      BY <3>1 DEF Known
    <3>2. ASSUME NEW k \in 1 .. i - 1, task.todo[k].k = "start", task.todo[k].index = c
          PROVE  Known(enc.tools, task'.todo, c, i - 1)
      <4>1. CASE k = 1
        <5>1. c \in DOMAIN enc.tools
          BY <2>2, <2>4, <3>2, <4>1 DEF InBlocks
        <5>2. QED BY <5>1 DEF Known
      <4>2. CASE k # 1
        <5>1. k - 1 \in 1 .. (i - 1) - 1 /\ task'.todo[k - 1] = task.todo[k]
          BY <1>1, <1>2, <4>2
        <5>2. QED BY <3>2, <5>1 DEF Known
      <4>3. QED BY <4>1, <4>2
    <3>3. QED BY <2>4, <3>1, <3>2 DEF Known
  <2>5. ASSUME task.at \in Busy, NEW i \in 1 .. Len(task'.todo), task'.todo[i].k = "args"
        PROVE  Known(enc.tools, task'.todo, task'.todo[i].index, i)
    <3>1. /\ i + 1 \in 1 .. Len(task.todo) /\ i + 1 \in 2 .. Len(task.todo) + 1
          /\ task'.todo[i] = task.todo[i + 1] /\ (i + 1) - 1 = i
      BY <1>1, <1>2
    <3>2. Known(enc.tools, task.todo, task.todo[i + 1].index, i + 1)
      BY <2>2, <2>5, <3>1 DEF InBlocks
    <3>3. QED BY <2>4, <2>5, <3>1, <3>2
  <2>6. ASSUME task.at \in {"loop", "flush"}, inCall
        PROVE  Known(enc.tools, task'.todo, calls - 1, Len(task'.todo) + 1)
    <3>1. Known(enc.tools, task.todo, calls - 1, Len(task.todo) + 1) /\ task.at \in Busy
      BY <2>2, <2>6 DEF InBlocks, Busy
    <3>2. /\ Len(task.todo) + 1 \in 2 .. Len(task.todo) + 1
          /\ (Len(task.todo) + 1) - 1 = Len(task'.todo) + 1
      BY <1>1, <1>2
    <3>3. QED BY <2>4, <3>1, <3>2
  <2>7. task'.frames = <<>> /\ inCall' = inCall /\ calls' = calls
    BY <1>1 DEF source
  <2>8. QED BY <1>1, <2>2, <2>3, <2>5, <2>6, <2>7 DEF InBlocks
<1>7. GivesUpOnlyOnTheGone'
  BY <1>1 DEF Answering, GivesUpOnlyOnTheGone
<1>8. QED BY <1>3, <1>5, <1>6, <1>7

\* A call that is known stays known when the encoder learns of more.
LEMMA KnownStays ==
  ASSUME NEW tools, NEW more, DOMAIN tools \subseteq DOMAIN more,
         NEW todo, NEW c, NEW i, Known(tools, todo, c, i)
  PROVE  Known(more, todo, c, i)
BY DEF Known

LEMMA RenderKeeps ==
  ASSUME Answering, Render
  PROVE  TaskType' /\ Stages' /\ Encoded' /\ GivesUpOnlyOnTheGone'
<1> DEFINE em == Head(task.todo)
<1>1. /\ task.todo # <<>> /\ task.frames = <<>>
      /\ UNCHANGED <<api, stream, source, client>>
  BY DEF Render, Rendering, asked, theirs
<1>2. task.at \in Busy \cup {"return"} /\ task.todo \in Seq(Emission)
      /\ 1 \in 1 .. Len(task.todo) /\ em = task.todo[1]
  BY <1>1 DEF Answering, TaskType, Stages, Idle
<1>3. CASE ~ stream
  BY <1>1, <1>3, Leaves DEF Render
<1>4. ASSUME stream, NEW f, task' = [task EXCEPT !.frames = f], f # <<>>
      PROVE  /\ TaskType' /\ Stages' /\ GivesUpOnlyOnTheGone'
             /\ task'.at = task.at /\ task'.todo = task.todo /\ task'.frames = f
  <2>1. /\ task'.at = task.at /\ task'.todo = task.todo /\ task'.frames = f
        /\ task'.gone = task.gone /\ task'.failed = task.failed /\ task'.reason = task.reason
        /\ task'.tokens = task.tokens /\ DOMAIN task' = DOMAIN task
    BY <1>4 DEF Answering, TaskType, Fields
  <2>2. TaskType'
    BY <1>1, <2>1 DEF Answering, TaskType, source
  <2>3. Stages'
    BY <1>1, <1>2, <2>1 DEF Answering, Stages, source
  <2>4. QED BY <1>1, <2>1, <2>2, <2>3 DEF Answering, GivesUpOnlyOnTheGone
<1>5. CASE stream /\ api # "anthropic"
  <2>1. \/ task' = Left(task)
        \/ \E f : f # <<>> /\ task' = [task EXCEPT !.frames = f]
    BY <1>5 DEF Render
  <2>2. Encoded'
    BY <1>1, <1>5 DEF Encoded
  <2>3. QED BY <1>1, <1>4, <1>5, <2>1, <2>2, Leaves
<1>6. CASE stream /\ api = "anthropic"
  <2> DEFINE r == AnthropicRender(enc, em)
  <2>1. InBlocks /\ GoesOn(enc)
    BY <1>1, <1>6 DEF GoesOn, Answering, Encoded, InBlocks, Rendering
  <2>2. /\ Rendered(em).enc = r.enc
        /\ Rendered(em).frames = IF r.out = <<>> THEN <<>> ELSE <<r.out>>
    BY <1>6 DEF Rendered
  <2>3. /\ enc' = r.enc
        /\ r.out # <<>> => task' = [task EXCEPT !.frames = <<r.out>>]
        /\ r.out = <<>> => task' = Unheard(task)
    <3> DEFINE f == Rendered(em).frames
    <3>1. /\ enc' = Rendered(em).enc
          /\ f # <<>> => task' = [task EXCEPT !.frames = f]
          /\ f = <<>> => task' = Unheard(task)
      BY <1>6 DEF Render
    <3>2. r.out # <<>> => f = <<r.out>>
      BY <2>2
    <3>3. r.out = <<>> => f = <<>>
      BY <2>2
    <3>4. <<r.out>> # <<>>
      OBVIOUS
    <3> HIDE DEF f, r
    <3>5. QED BY <2>2, <3>1, <3>2, <3>3, <3>4
  <2>4. CASE task.at \in Busy
    <3>1. em.k \in {"role", "content", "start", "args"}
      BY <1>2, <2>4 DEF Answering, Stages
    <3>2. em.k = "args" => em.index \in DOMAIN enc.tools
      BY <1>2, <2>1, <2>4 DEF InBlocks, Known
    <3>3. /\ r.out # <<>>
          /\ GoesOn(r.enc)
          /\ DOMAIN enc.tools \subseteq DOMAIN r.enc.tools
          /\ em.k = "start" => em.index \in DOMAIN r.enc.tools
      BY <2>1, <3>1, <3>2, AnthropicFrames
    <3>4. /\ TaskType' /\ Stages' /\ GivesUpOnlyOnTheGone'
          /\ task'.at = task.at /\ task'.todo = task.todo /\ task'.frames = <<r.out>>
      BY <1>4, <1>6, <2>3, <3>3
    <3>5. \A i \in 1 .. Len(task.todo) : task.todo[i].k = "args" =>
            Known(enc'.tools, task.todo, task.todo[i].index, i)
      BY <2>1, <2>3, <2>4, <3>3, KnownStays DEF InBlocks
    <3>6. task.at \in {"loop", "flush"} /\ inCall =>
            Known(enc'.tools, task.todo, calls - 1, Len(task.todo) + 1)
      BY <2>1, <2>3, <3>3, KnownStays DEF InBlocks
    <3>7. inCall' = inCall /\ calls' = calls
      BY <1>1 DEF source
    <3>8. Len(<<r.out>>) = 1
      OBVIOUS
    <3>9. InBlocks'
      BY <1>2, <2>3, <3>3, <3>4, <3>5, <3>6, <3>7, <3>8 DEF InBlocks, GoesOn
    <3>10. QED BY <3>4, <3>9 DEF Encoded
  <2>5. CASE task.at = "return"
    <3>1. em.k \in {"final", "error"} /\ Len(task.todo) <= 1
      BY <1>2, <2>5 DEF Answering, Stages
    <3>2. IsOver(enc')
      BY <2>1, <2>3, <3>1, AnthropicDone
    <3>3. ASSUME task'.at = "return", task'.frames # <<>> \/ task'.todo = <<>>,
                 task'.frames # <<>> => Len(task'.frames) = 1
          PROVE  Encoded'
      <4>1. InBlocks'
        BY <3>2, <3>3 DEF InBlocks, Rendering, Busy, Over, IsOver
      <4>2. QED BY <4>1 DEF Encoded
    <3>4. CASE r.out # <<>>
      <4>1. /\ TaskType' /\ Stages' /\ GivesUpOnlyOnTheGone'
            /\ task'.at = task.at /\ task'.frames = <<r.out>>
        BY <1>4, <1>6, <2>3, <3>4
      <4>2. <<r.out>> # <<>> /\ Len(<<r.out>>) = 1
        OBVIOUS
      <4>3. QED BY <2>5, <3>3, <4>1, <4>2
    <3>5. CASE r.out = <<>>
      <4>1. task' = Left(task)
        BY <2>3, <3>1, <3>5 DEF Unheard
      <4>2. /\ task'.at = task.at /\ task'.todo = Tail(task.todo) /\ task'.frames = <<>>
            /\ task'.gone = task.gone /\ task'.failed = task.failed
            /\ task'.reason = task.reason /\ task'.tokens = task.tokens
            /\ DOMAIN task' = DOMAIN task
        BY <4>1 DEF Answering, TaskType, Fields, Left
      <4>3. Tail(task.todo) = <<>>
        BY <1>2, <3>1
      <4>4. TaskType'
        BY <1>1, <4>2, <4>3 DEF Answering, TaskType, source
      <4>5. Stages'
        BY <1>1, <2>5, <4>2, <4>3 DEF Answering, Stages, Idle, Busy
      <4>6. QED BY <1>1, <2>5, <3>3, <4>2, <4>3, <4>4, <4>5
               DEF Answering, GivesUpOnlyOnTheGone
    <3>6. QED BY <3>4, <3>5
  <2>6. QED BY <1>2, <2>4, <2>5
<1>7. QED BY <1>3, <1>5, <1>6

LEMMA SendFrameKeeps ==
  ASSUME Answering, SendFrame
  PROVE  TaskType' /\ Stages' /\ Encoded' /\ GivesUpOnlyOnTheGone'
<1>1. /\ task.todo # <<>> /\ task.frames # <<>>
      /\ UNCHANGED <<api, stream, source, client, enc>>
  BY DEF SendFrame, asked, theirs
<1>2. CASE Len(task.frames) = 1
  BY <1>1, <1>2, Leaves DEF SendFrame
<1>3. CASE Len(task.frames) # 1
  <2>1. task' = [task EXCEPT !.frames = Tail(@)]
    BY <1>3 DEF SendFrame
  <2>2. /\ task'.at = task.at /\ task'.todo = task.todo
        /\ task'.gone = task.gone /\ task'.failed = task.failed /\ task'.reason = task.reason
        /\ task'.tokens = task.tokens /\ DOMAIN task' = DOMAIN task
    BY <2>1 DEF Answering, TaskType, Fields
  <2>3. TaskType'
    BY <1>1, <2>2 DEF Answering, TaskType, source
  <2>4. Stages'
    BY <1>1, <2>2 DEF Answering, Stages, Idle, source
  <2>5. ~ (api = "anthropic" /\ stream)
    BY <1>1, <1>3 DEF Answering, Encoded, InBlocks
  <2>6. Encoded'
    BY <1>1, <2>5 DEF Encoded
  <2>7. QED BY <1>1, <2>2, <2>3, <2>4, <2>6 DEF Answering, GivesUpOnlyOnTheGone
<1>4. QED BY <1>2, <1>3

LEMMA SendFailsKeeps ==
  ASSUME Answering, SendFails
  PROVE  TaskType' /\ Stages' /\ Encoded' /\ GivesUpOnlyOnTheGone'
<1>1. /\ task.todo # <<>> /\ task.frames # <<>> /\ client' = "gone"
      /\ UNCHANGED <<api, stream, source, client, enc>>
  BY DEF SendFails, asked, theirs, output
<1>2. CASE Head(task.todo).k \in {"role", "final", "error"}
  <2>1. task' = Left(task)
    BY <1>2 DEF SendFails, Unheard
  <2>2. QED BY <1>1, <2>1, Leaves
<1>3. CASE Head(task.todo).k \notin {"role", "final", "error"}
  <2>1. task' = [task EXCEPT !.gone = TRUE, !.todo = <<>>, !.frames = <<>>, !.at = "return"]
    BY <1>3 DEF SendFails, Unheard
  <2>2. /\ task'.at = "return" /\ task'.todo = <<>> /\ task'.frames = <<>>
        /\ task'.gone = TRUE /\ task'.failed = task.failed /\ task'.reason = task.reason
        /\ task'.tokens = task.tokens /\ DOMAIN task' = DOMAIN task
    BY <2>1 DEF Answering, TaskType, Fields
  <2>3. <<>> \in Seq(Emission) /\ Len(<<>>) = 0
    OBVIOUS
  <2>4. TaskType'
    BY <1>1, <2>2, <2>3 DEF Answering, TaskType, source, Over
  <2>5. Stages'
    BY <2>2, <2>3 DEF Stages, Idle, Busy
  <2>6. Encoded'
    BY <1>1, <2>2 DEF Answering, Encoded, InBlocks, Rendering, Busy, Over
  <2>7. QED BY <1>1, <2>4, <2>5, <2>6 DEF GivesUpOnlyOnTheGone
<1>4. QED BY <1>2, <1>3

\* The loop goes on with a batch, or with nothing more to emit.
LEMMA Emits ==
  ASSUME Answering, Idle, task.at \in {"loop", "flush"}, TaskType',
         task'.at \in Busy, task'.frames = <<>>, task'.gone = task.gone,
         \/ task'.todo \in SeqOf(Kinds, MaxBatch) /\ Generates(task'.todo)
         \/ task'.todo = <<>> /\ UNCHANGED source,
         UNCHANGED <<api, stream, client, enc>>
  PROVE  TaskType' /\ Stages' /\ Encoded' /\ GivesUpOnlyOnTheGone'
<1> DEFINE b == task'.todo
<1>1. CASE b \in SeqOf(Kinds, MaxBatch) /\ Generates(b)
  <2>1. inCall \in BOOLEAN /\ calls \in Nat
    BY DEF Answering, TaskType
  <2>2. /\ b \in Seq(Kinds) /\ inCall' \in BOOLEAN /\ calls' \in Nat
        /\ \A i \in 1 .. Len(b) : b[i].k = "args" =>
             \/ inCall /\ b[i].index = calls - 1
             \/ \E k \in 1 .. i - 1 : b[k].k = "start" /\ b[k].index = b[i].index
        /\ inCall' =>
             \/ inCall /\ calls' = calls
             \/ \E k \in 1 .. Len(b) : b[k].k = "start" /\ b[k].index = calls' - 1
    BY <1>1, <2>1, Batches
  <2>3. Stages'
    BY <2>2, EmissionKinds DEF Stages, Busy
  <2>4. ASSUME api = "anthropic", stream PROVE InBlocks'
    <3>1. InBlocks /\ ~ enc.done
      BY <2>4 DEF Answering, Encoded, InBlocks, Over
    <3>2. inCall => calls - 1 \in DOMAIN enc.tools
      BY <3>1 DEF InBlocks, Known, Idle
    <3>3. \A i \in 1 .. Len(b) : b[i].k = "args" => Known(enc.tools, b, b[i].index, i)
      BY <2>2, <3>2 DEF Known
    <3>4. inCall' => Known(enc.tools, b, calls' - 1, Len(b) + 1)
      <4>1. Len(b) + 1 - 1 = Len(b)
        BY <2>2
      <4>2. QED BY <2>2, <3>2, <4>1 DEF Known
    <3>5. QED BY <3>1, <3>3, <3>4 DEF InBlocks
  <2>5. QED BY <2>3, <2>4 DEF Answering, Encoded, GivesUpOnlyOnTheGone
<1>2. CASE b = <<>> /\ UNCHANGED source
  <2>1. Stages'
    BY <1>2 DEF Stages, Busy
  <2>2. ASSUME api = "anthropic", stream PROVE InBlocks'
    <3>1. InBlocks /\ ~ enc.done /\ task.todo = <<>>
      BY <2>2 DEF Answering, Encoded, InBlocks, Over, Idle
    <3>2. inCall' = inCall /\ calls' = calls
      BY <1>2 DEF source
    <3>3. QED BY <1>2, <3>1, <3>2 DEF InBlocks
  <2>3. QED BY <2>1, <2>2 DEF Answering, Encoded, GivesUpOnlyOnTheGone
<1>3. QED BY <1>1, <1>2

LEMMA SubmittedKeeps ==
  ASSUME Answering, Submitted
  PROVE  TaskType' /\ Stages' /\ Encoded' /\ GivesUpOnlyOnTheGone'
<1>1. /\ task.at = "translated" /\ task' = [task EXCEPT !.at = "loop", !.todo = <<Role>>]
      /\ UNCHANGED <<api, stream, source, client, enc>>
  BY DEF Submitted, theirs, output
<1>2. /\ task'.at = "loop" /\ task'.todo = <<Role>> /\ task'.frames = task.frames
      /\ task'.gone = task.gone /\ task'.failed = task.failed /\ task'.reason = task.reason
      /\ task'.tokens = task.tokens /\ DOMAIN task' = DOMAIN task
  BY <1>1 DEF Answering, TaskType, Fields
<1>3. ~ inCall /\ task.frames = <<>>
  BY <1>1 DEF Answering, Stages, Idle, Busy
<1>4. <<Role>> \in Seq(Emission) /\ Len(<<Role>>) = 1 /\ <<Role>>[1].k = "role"
  BY EmissionKinds
<1>5. TaskType'
  BY <1>1, <1>2, <1>4 DEF Answering, TaskType, source, Busy
<1>6. Stages'
  BY <1>2, <1>4 DEF Stages, Busy
<1>7. ASSUME api = "anthropic", stream PROVE InBlocks'
  <2>1. InBlocks /\ ~ enc.done
    BY <1>1, <1>7 DEF Answering, Encoded, InBlocks, Over
  <2>2. ~ inCall'
    BY <1>1, <1>3 DEF source
  <2>3. QED BY <1>1, <1>2, <1>3, <1>4, <2>1, <2>2 DEF InBlocks
<1>8. QED BY <1>1, <1>2, <1>5, <1>6, <1>7 DEF Answering, Encoded, GivesUpOnlyOnTheGone

LEMMA FinishKeeps ==
  ASSUME Answering, Finish
  PROVE  TaskType' /\ Stages' /\ Encoded' /\ GivesUpOnlyOnTheGone'
<1> DEFINE last == IF task.failed THEN Failure ELSE Final(AsStr(task.reason), task.tokens)
<1>1. /\ task.at = "final" /\ Idle
      /\ task' = [task EXCEPT !.at = "return", !.todo = <<last>>]
      /\ UNCHANGED <<api, stream, source, client, enc>>
  BY DEF Finish, theirs, output, asked
<1>2. last \in Emission /\ last.k \in {"final", "error"}
  BY EmissionKinds DEF Answering, TaskType
<1> HIDE DEF last
<1>3. /\ task'.at = "return" /\ task'.todo = <<last>> /\ task'.frames = task.frames
      /\ task'.gone = task.gone /\ task'.failed = task.failed /\ task'.reason = task.reason
      /\ task'.tokens = task.tokens /\ DOMAIN task' = DOMAIN task
  BY <1>1 DEF Answering, TaskType, Fields
<1>4. <<last>> \in Seq(Emission) /\ Len(<<last>>) = 1 /\ <<last>>[1] = last
  BY <1>2
<1>5. TaskType'
  BY <1>1, <1>3, <1>4 DEF Answering, TaskType, source, Over
<1>6. Stages'
  BY <1>2, <1>3, <1>4 DEF Stages, Busy
<1>7. ASSUME api = "anthropic", stream PROVE InBlocks'
  <2>1. InBlocks /\ ~ enc.done
    BY <1>1, <1>7 DEF Answering, Encoded, InBlocks, Over
  <2>2. QED BY <1>1, <1>3, <2>1 DEF InBlocks, Busy
<1>8. QED BY <1>1, <1>3, <1>5, <1>6, <1>7 DEF Answering, Encoded, GivesUpOnlyOnTheGone

LEMMA TakesKeep ==
  ASSUME Answering, TakeToken \/ TakeGarbage \/ TakeFailed \/ TakeDone \/ TakeClosed \/ Flush
  PROVE  TaskType' /\ Stages' /\ Encoded' /\ GivesUpOnlyOnTheGone'
<1>1. /\ task.at \in {"loop", "flush"} /\ Idle /\ DOMAIN task = Fields
      /\ task.todo = <<>> /\ task.frames = <<>>
      /\ UNCHANGED <<api, stream, client, enc>>
  BY DEF Answering, TaskType, TakeToken, TakeGarbage, TakeFailed, TakeDone, TakeClosed, Flush,
         AtLoop, Idle, asked, theirs, output
<1>2. <<>> \in Seq(Emission)
  OBVIOUS
<1>3. ASSUME UNCHANGED source,
             task'.todo = <<>>, task'.frames = <<>>, task'.gone = task.gone,
             task'.failed \in BOOLEAN, task'.reason \in Endings \cup {"none"},
             task'.tokens \in Nat, task'.at \in Busy, DOMAIN task' = Fields
      PROVE  TaskType' /\ Stages' /\ Encoded' /\ GivesUpOnlyOnTheGone'
  <2>1. TaskType'
    BY <1>2, <1>3 DEF Answering, TaskType, source
  <2>2. QED BY <1>1, <1>3, <2>1, Emits
<1>4. ASSUME NEW b \in SeqOf(Kinds, MaxBatch), Generates(b),
             task'.todo = b, task'.frames = <<>>, task'.gone = task.gone,
             task'.failed \in BOOLEAN, task'.reason \in Endings \cup {"none"},
             task'.tokens \in Nat, task'.at \in Busy, DOMAIN task' = Fields
      PROVE  TaskType' /\ Stages' /\ Encoded' /\ GivesUpOnlyOnTheGone'
  <2>1. inCall \in BOOLEAN /\ calls \in Nat
    BY DEF Answering, TaskType
  <2>2. b \in Seq(Kinds) /\ inCall' \in BOOLEAN /\ calls' \in Nat
    BY <1>4, <2>1, Batches
  <2>3. b \in Seq(Emission)
    BY <2>2, EmissionKinds
  <2>4. TaskType'
    BY <1>4, <2>2, <2>3 DEF Answering, TaskType
  <2>5. QED BY <1>1, <1>4, <2>4, Emits
<1>5. CASE TakeToken
  <2>1. PICK b \in SeqOf(Kinds, MaxBatch), hit \in BOOLEAN :
          /\ Generates(b)
          /\ task' = [task EXCEPT !.todo = b, !.tokens = @ + 1,
                                  !.reason = IF hit THEN "stop" ELSE @,
                                  !.at = IF hit THEN "flush" ELSE "loop"]
    BY <1>5 DEF TakeToken
  <2>2. /\ task'.todo = b /\ task'.frames = task.frames /\ task'.gone = task.gone
        /\ task'.failed = task.failed /\ task'.tokens = task.tokens + 1
        /\ task'.reason \in {"stop", task.reason} /\ task'.at \in {"flush", "loop"}
        /\ DOMAIN task' = Fields
    BY <1>1, <2>1 DEF Fields
  <2>3. /\ task'.failed \in BOOLEAN /\ task'.reason \in Endings \cup {"none"}
        /\ task'.tokens \in Nat /\ task'.at \in Busy /\ task'.frames = <<>>
    BY <1>1, <2>2 DEF Answering, TaskType, Endings, Busy
  <2>4. QED BY <1>4, <2>1, <2>2, <2>3
<1>6. CASE TakeGarbage \/ TakeFailed
  <2>1. /\ \/ task' = [task EXCEPT !.failed = TRUE, !.tokens = @ + 1, !.at = "final"]
           \/ task' = [task EXCEPT !.failed = TRUE, !.at = "final"]
        /\ UNCHANGED source
    BY <1>6 DEF TakeGarbage, TakeFailed
  <2>2. /\ task'.todo = task.todo /\ task'.frames = task.frames /\ task'.gone = task.gone
        /\ task'.failed = TRUE /\ task'.tokens \in {task.tokens, task.tokens + 1}
        /\ task'.reason = task.reason /\ task'.at = "final" /\ DOMAIN task' = Fields
    BY <1>1, <2>1 DEF Fields
  <2>3. task'.reason \in Endings \cup {"none"} /\ task'.tokens \in Nat
    BY <2>2 DEF Answering, TaskType
  <2>4. task'.failed \in BOOLEAN /\ task'.at \in Busy
    BY <2>2 DEF Busy
  <2>5. QED BY <1>1, <1>3, <2>1, <2>2, <2>3, <2>4
<1>7. CASE TakeDone
  <2>1. /\ task' = [task EXCEPT !.reason = Head(chan[R]).kind, !.at = "flush"]
        /\ UNCHANGED source /\ chan[R] # <<>>
        /\ Head(chan[R]).kind \notin {"token", "failed"}
    BY <1>7 DEF TakeDone, Events!Read
  <2>2. /\ task'.todo = task.todo /\ task'.frames = task.frames /\ task'.gone = task.gone
        /\ task'.failed = task.failed /\ task'.tokens = task.tokens
        /\ task'.reason = Head(chan[R]).kind /\ task'.at = "flush" /\ DOMAIN task' = Fields
    BY <1>1, <2>1 DEF Fields
  <2>3. Head(chan[R]) \in JobEvents
    BY <2>1 DEF Answering, JobType
  <2>4. task'.reason \in Endings
    BY <2>1, <2>2, <2>3 DEF JobEvents
  <2>5. /\ task'.failed \in BOOLEAN /\ task'.tokens \in Nat /\ task'.at \in Busy
    BY <2>2 DEF Answering, TaskType, Busy
  <2>6. QED BY <1>1, <1>3, <2>1, <2>2, <2>4, <2>5
<1>8. CASE TakeClosed
  <2>1. task' = [task EXCEPT !.at = "flush"] /\ UNCHANGED source
    BY <1>8 DEF TakeClosed
  <2>2. /\ task'.todo = task.todo /\ task'.frames = task.frames /\ task'.gone = task.gone
        /\ task'.failed = task.failed /\ task'.tokens = task.tokens
        /\ task'.reason = task.reason /\ task'.at = "flush" /\ DOMAIN task' = Fields
    BY <1>1, <2>1 DEF Fields
  <2>3. /\ task'.failed \in BOOLEAN /\ task'.reason \in Endings \cup {"none"}
        /\ task'.tokens \in Nat /\ task'.at \in Busy
    BY <2>2 DEF Answering, TaskType, Busy
  <2>4. QED BY <1>1, <1>3, <2>1, <2>2, <2>3
<1>9. CASE Flush
  <2>1. CASE \E b \in SeqOf(Kinds, MaxBatch) :
               Generates(b) /\ task' = [task EXCEPT !.todo = b, !.at = "final"]
    <3>1. PICK b \in SeqOf(Kinds, MaxBatch) :
            Generates(b) /\ task' = [task EXCEPT !.todo = b, !.at = "final"]
      BY <2>1
    <3>2. /\ task'.todo = b /\ task'.frames = task.frames /\ task'.gone = task.gone
          /\ task'.failed = task.failed /\ task'.tokens = task.tokens
          /\ task'.reason = task.reason /\ task'.at = "final" /\ DOMAIN task' = Fields
      BY <1>1, <3>1 DEF Fields
    <3>3. /\ task'.failed \in BOOLEAN /\ task'.reason \in Endings \cup {"none"}
          /\ task'.tokens \in Nat /\ task'.at \in Busy /\ task'.frames = <<>>
      BY <1>1, <3>2 DEF Answering, TaskType, Busy
    <3>4. QED BY <1>4, <3>1, <3>2, <3>3
  <2>2. CASE task' = [task EXCEPT !.failed = TRUE, !.at = "final"] /\ UNCHANGED source
    <3>1. /\ task'.todo = task.todo /\ task'.frames = task.frames /\ task'.gone = task.gone
          /\ task'.failed = TRUE /\ task'.tokens = task.tokens
          /\ task'.reason = task.reason /\ task'.at = "final" /\ DOMAIN task' = Fields
      BY <1>1, <2>2 DEF Fields
    <3>2. /\ task'.failed \in BOOLEAN /\ task'.reason \in Endings \cup {"none"}
          /\ task'.tokens \in Nat /\ task'.at \in Busy
      BY <3>1 DEF Answering, TaskType, Busy
    <3>3. QED BY <1>1, <1>3, <2>2, <3>1, <3>2
  <2>3. QED BY <1>9, <2>1, <2>2 DEF Flush
<1>10. QED BY <1>5, <1>6, <1>7, <1>8, <1>9

\* What moves the task on with nothing to emit.
LEMMA MovesKeep ==
  ASSUME Answering,
         \/ Translate \/ NoPrompt \/ Rejected \/ Return \/ Cancel \/ Sentinel \/ Respond
         \/ DropHandler
  PROVE  TaskType' /\ Stages' /\ Encoded' /\ GivesUpOnlyOnTheGone'
<1>1. UNCHANGED <<api, stream, source, enc>> /\ client' = client
  BY DEF Translate, NoPrompt, Rejected, Return, Cancel, Sentinel, Respond, DropHandler,
         asked, output, theirs
<1>2. PICK to \in Over \cup {"translated"} :
        /\ task' = [task EXCEPT !.at = to] \/ task' = [task EXCEPT !.at = to, !.cancelled = TRUE]
        /\ to = "translated" => task.at = "new"
  <2> DEFINE Moves(to) ==
        /\ to \in Over \cup {"translated"}
        /\ task' = [task EXCEPT !.at = to] \/ task' = [task EXCEPT !.at = to, !.cancelled = TRUE]
        /\ to = "translated" => task.at = "new"
  <2>1. CASE Translate
    <3>1. Moves("answered") \/ Moves("translated")
      BY <2>1 DEF Translate, Answer, Over
    <3>2. QED BY <3>1
  <2>2. CASE NoPrompt \/ Rejected
    <3>1. Moves("answered")
      BY <2>2 DEF NoPrompt, Rejected, Answer, Over
    <3>2. QED BY <3>1
  <2>3. CASE Return
    <3>1. Moves("cancel")
      BY <2>3 DEF Return, Over
    <3>2. QED BY <3>1
  <2>4. CASE Cancel
    <3>1. Moves("sentinel") \/ Moves("closed")
      BY <2>4 DEF Cancel, Over
    <3>2. QED BY <3>1
  <2>5. CASE Sentinel
    <3>1. Moves("closed")
      BY <2>5 DEF Sentinel, Over
    <3>2. QED BY <3>1
  <2>6. CASE Respond
    <3>1. Moves("answered")
      BY <2>6 DEF Respond, Over
    <3>2. QED BY <3>1
  <2>7. CASE DropHandler
    <3>1. Moves("dropped")
      BY <2>7 DEF DropHandler, Over
    <3>2. QED BY <3>1
  <2>8. QED BY <2>1, <2>2, <2>3, <2>4, <2>5, <2>6, <2>7
<1>3. Idle
  BY DEF Translate, NoPrompt, Rejected, Return, Cancel, Sentinel, Respond, DropHandler, AtLoop,
         Answering, Stages, Busy
<1>4. QED BY <1>1, <1>2, <1>3, MovesOn

\* The others leave the task and its encoder alone.
LEMMA OthersKeep ==
  ASSUME Answering, UNCHANGED <<api, stream, source, task, enc>>, client' \in {client, "gone"}
  PROVE  TaskType' /\ Stages' /\ Encoded' /\ GivesUpOnlyOnTheGone'
<1>1. inCall' = inCall /\ calls' = calls
  BY DEF source
<1>2. TaskType' /\ Stages'
  BY <1>1 DEF Answering, TaskType, Stages, Idle
<1>3. Encoded'
  BY <1>1 DEF Answering, Encoded, InBlocks, Rendering
<1>4. QED BY <1>2, <1>3 DEF Answering, GivesUpOnlyOnTheGone

LEMMA AnsweringKept == Answering /\ [Next]_vars => Answering'
<1> SUFFICES ASSUME Answering, [Next]_vars PROVE Answering'
  OBVIOUS
<1>1. JobType'
  BY JobTyped DEF Answering
<1>2. CASE Handler
  BY <1>1, <1>2, MovesKeep, SubmittedKeeps DEF Handler, Answering
<1>3. CASE Loop
  BY <1>1, <1>3, TakesKeep, FinishKeeps, MovesKeep, SendFrameKeeps, SendFailsKeeps
     DEF Loop, Answering
<1>4. CASE Render
  BY <1>1, <1>4, RenderKeeps DEF Answering
<1>5. CASE DropHandler
  BY <1>1, <1>5, MovesKeep DEF Answering
<1>6. CASE Worker \/ WorkerBreaks \/ ReadFrame \/ Disconnect \/ UNCHANGED vars
  <2>1. UNCHANGED <<api, stream, source, task, enc>> /\ client' \in {client, "gone"}
    BY <1>6 DEF Worker, WorkerToken, WorkerEnds, WorkerBreaks, Aside, ReadFrame, Disconnect,
                vars, asked, output, theirs
  <2>2. QED BY <1>1, <2>1, OthersKeep DEF Answering
<1>7. QED BY <1>2, <1>3, <1>4, <1>5, <1>6 DEF Next

\* GivesUpOnlyOnTheGone: when the loop takes an emission without a frame for a client
\* that has left, a client has left. No emission of the text pipeline comes out of the
\* Anthropic encoder empty, since its blocks keep up with the calls of the text.
THEOREM GivesUpOnlyOnTheGoneHolds == Spec => []GivesUpOnlyOnTheGone
<1>1. Answering => GivesUpOnlyOnTheGone
  BY DEF Answering
<1>2. QED BY <1>1, AnsweringInitially, AnsweringKept, PTL DEF Spec
=============================================================================
