# A verification project for MiniCPM5-5080Fast

The repository serves one language model on one GPU. A Rust server turns HTTP
requests into generation jobs; a scheduler with a single GPU worker thread
interleaves the jobs; a native C++/CUDA runtime runs prefill and decode steps.
This directory holds TLA+ models of the parts whose correctness depends on the
order of events, TLC configurations that check them on small instances, and
TLAPS proofs of the results that should hold for every instance.

`PROJECT.json` ties every definition to the source lines it stands for, every
hazard to the properties that would catch it, and every property to a plausible
bug that violates it. Line numbers below are of
`src/rust/minicpm-scheduler/src/lib.rs` unless another file is named.

## 1. Inventory

| Component | State | Operations | Interacts with | What makes it correct |
|---|---|---|---|---|
| Scheduler worker (`minicpm-scheduler`) | active deque, session pool, batch group, per-stream `generated`, `pending_tok`, `slot_id`, `batch_held` | admit a job, sort, step, merged step, retire, shut down | handles (job channel, `waiting`, `closing`), clients (event channel, cancel flag), engine | no session lost or used by two owners; a stream is delivered in order and ends once; every stream advances each quantum; shutdown ends |
| Admission control (same file) | `waiting`, gauge `queue_depth` | `try_generate`, `generate`, intake's decrement | worker, metrics | the counter is exact, the limit holds, the gauge settles |
| Engine traits, mock, FFI binding (`minicpm-runtime`, `-sys`) | shared ownership of library, model, sessions, group | load, create, drop, forward calls | worker, native runtime | each destructor runs once and finds what it touches |
| Native session (`session.cpp`, `decode_executor.cpp`, `prefill_executor.cpp`, `kv_cache.*`, `memory_arena.*`) | position (host and device), next token, random state, sampling configuration, page table, decode graph | create, reset, prefill, decode one, destroy | batch group, model | the host mirrors the device; every step computes on the right tokens and samples as asked, also after a failed call |
| Native batch group (`batch_group.cpp`) | slots, step tables, events, arena | create, add, remove, step, destroy | sessions | work is ordered across streams; a failed step leaves the members usable; the blocks of the arena do not overlap |
| Model and kernel selection (`model.cpp`, `weight_loader.cpp`, `gemm.cpp`, `gemv_tactic.cpp`, `cuda_graph.cpp`, `forward.cpp`) | weights, session quota, plan and graph caches | load, plan, capture, replay | sessions | the quota counts live sessions |
| Text pipeline (`minicpm-generation`, `run_generation` in `chat.rs`) | held-back text, pending bytes, tool-call parse state | push a token or fragment, finish | server | how the text is cut into tokens does not show: nothing is lost, repeated or sent past a stop string |
| Server (`minicpm-server`) | per-request translation, loop, encoder, response channel | translate, submit, stream, answer, cancel | scheduler handle, text pipeline, metrics | the conversation survives translation; the frames follow the protocol of the endpoint; every request ends, with one ending; a client that leaves frees its job |
| Metrics (`minicpm-metrics`) | counters, gauges, histograms, ring of recent requests | observe, snapshot | all Rust parts | gauges agree with what they measure |
| Tokenizer, chat template | tables | encode, decode, render | server | pure functions on text |
| CUDA kernels, tools, benchmarks | none shared | | | numerics and offline scripts |

How the parts interact: a handle counts a job in `waiting` and sends it on an
unbounded channel; the worker takes at most one job per quantum, borrows a
session from its pool, prefills it synchronously and adds the stream to its
active deque. Each quantum it sorts the streams into a solo and a batch segment,
steps the solo ones one by one, and advances the batch by one call of the native
group. Tokens leave through a bounded channel per job. The server's task reads
that channel, and may drop it or set the cancel flag at any moment. When the last
handle is dropped, `closing` is set, the job channel is disconnected, and the
drop joins the worker.

A request arrives on one of three endpoints (`/v1/chat/completions`,
`/v1/messages`, `/v1/responses`) as JSON of that endpoint's shape. The handler
translates it to chat messages and a job, and one task then reads the job's
events, decodes tokens to text, scans for stop strings, parses tool calls, and
sends frames through a bounded channel to the client's connection.

What is hard: the handles, the clients and the worker interleave at every atomic
operation; a full event channel makes a token wait (`pending_tok`) while the
stream keeps changing segment; each engine call may fail, with a different
clean-up; a session may be a member of the native group while the scheduler
moves its stream between collections; terminal events are sent with a blocking
send in service and a best-effort send at shutdown. On
the device, the host only enqueues: what a call finds when it runs depends on
events between streams, and a call that fails leaves behind what was enqueued
before. In the server, what a client sees depends on how its text was cut.

## 2. Plan

Written in this order, the most important behaviour first.

1. `Scheduler`, with the abstract `EventStream` (what a client may observe) and
   `AdmissionGate` (what admission control promises), both shown to be
   implemented; `Admission`, the submission path one atomic operation at a time.
2. `AdmissionProofs`, `SchedulerStructure`, `SchedulerProofs`, `SchedulerStreams`:
   the invariants and the refinements for every number of jobs, sessions and batch
   slots (section 6).
3. `Native` and `GroupArena`: sessions, the merged step, the arena.
4. The text pipeline (`Generation` and the modules it composes), shown to be an
   `EmissionSource`.
5. `Server`, composed of the translations, the encoders, `EventStream` and
   `EmissionSource`.
6. `ServerProofs`, `ServerEndings`: how the loop gives up, and how an answer ends,
   for every request and every text.
7. `Handles`: ownership and the order of destruction; `HandlesProofs`, for every
   set of sessions and every quota.
8. `NativeProofs`: the sampling of every token decided alone, for every number of
   sessions and jobs. *Left:* `TokensInOrder`, which needs an invariant on what the
   work of every stream, the group's included, still has to do to the cache.

## 3. Modules

### Scheduler

One action is the longest stretch of worker code that reads no state another
thread writes after its first read: each load of a cancel flag, each channel send
and each native call that may fail begins an action of its own. `pc` says where
the worker is, `cur` which stream is in its hands, `ret` where it goes on
afterwards, `togo` how many iterations of the current loop are left.

| Code | Actions |
|---|---|
| `admit`, `generate`, `try_generate`, `submit_raw` | `Reject`, `Admit`, `Submit` |
| `SchedulerInner::drop` | `Close`, `Disconnect` |
| receiver and `CancelToken` | `Receive`, `DropReceiver`, `Cancel` |
| admission (539-580), `intake`, `fail_intake` | `IntakeWithoutSession`, `IntakeFails`, `Intake`, `Refuse`, `SkipIntake` |
| sorting (582-628) | `SortIntoBatch`, `SortIntoSolo`, `HoldLone`, `LoneToSolo`, `EndSort` |
| solo segment, `step`, `feed_token` | `NextSolo`, `StepCancelled`, `ResendClosed`, `ResendFull`, `Resend`, `StepOn`, `DecodeOne`, `DecodeFails`, `EndSolo` |
| batch segment (647-797) | `ScanKeep`, `ScanCancelled`, `EndScan`, `CreateGroup`, `AddMember`, `Fallback`, `BatchStep`, `FeedNext`, `NextUnbatched`, `EndBatch` |
| end of the quantum (799-803) | `Tidy` |
| `retire` | `StartRetire` (the opening, shared), `FlushOwed`, `FinishRetire` |
| `shutdown_active`, exit | `BeginShutdown`, `ShutdownNext`, `Exit` |

Data: a job is a model value; a token is its position in the job's output; an
event is a kind and a number (the token's position, or the usage of a `Done`
event); a session is the order of its creation. The worker's blocking send is an
action that is disabled while the channel is full and the receiver alive; a
`try_send` is never disabled. Two loops of the code that step the members of a
batch alone (after a fallback, and with fewer than two members) are the same code
in the source and one action here; the third copy, for an engine without a batch
capability, is unreachable there (`WantBatch` is false) and not modelled. The
native group is the part of `batch_group.cpp` the scheduler can see: which
session each slot holds, lowest free slot first, a second add of the same session
refused, a failing remove leaving the member in place (520-560, 573-611 there).

`Faults` names the calls that may fail in an instance: `"timeout"` (the job
waited too long), `"create"`, `"reset"`, `"prefill"`, `"decode"`, `"group"`
(`create_batch_group`), `"add"`, `"step"` (the merged step), `"remove"`. The reset
of a retiring session may fail too: the code ignores it, and so does the model.

`skips` and `late` are history variables, read by properties only.

Assumed: `max_new_tokens >= 1` (a request with 0 produces one token; the server
does not refuse it), and handles' operations are over before the last one is
dropped, which ownership guarantees.

### EventStream, AdmissionGate

Abstract specifications. `EventStream`: per job, a bounded stream that opens,
carries tokens 1, 2, ..., ends with at most one terminal event whose usage is the
number of tokens before it, or ends silently. `AdmissionGate`: a counter that a
strict submission enters only below the limit and is refused by only at it.

### Admission

The compare-and-swap loop of `admit`, `waiting_add_unchecked`, the load and the
store of `mirror_queue_depth`, the send, and on the worker's side the receive, the
`fetch_sub`, the load and the store of the gauge (898-901), an action each.
`Relaxed` loads of a single atomic may be modelled as sequentially consistent
here: no property relates the order of two different atomics beyond the
program order the gauge itself exposes.

### Native

Two machines. The host runs a call of the ABI step by step (`InNative`): checks
that return early, writes to the host's own record of a session, and work it
enqueues on a stream. The device (`Device`) runs each stream in order, and the
streams against each other, held only by events. Between two calls the worker
decides what comes next, from its own lists: who is still to be stepped alone
(`solo`), whom it merges (`batch`), whose streams have moved on and who of them
retires (`leaving`). `Quantum` fills the lists or starts a job; `Retire`, `Alone`
and `Together` begin the calls, out of the group first (`Demote`); `Returns` is what
the worker does with each answer, the fallback of a failed batch included.

A token is the job it belongs to and its position, so a step that reads the
wrong page, a position ahead of the host's or another job's row yields a token
that is visibly wrong (`Decided`, `Holds`), and the key-value cache holds tokens.
A kernel is modelled by what it reads and writes. `Breakable` names the places
where a call may fail with an error the worker recovers from; `Poison` adds the
out-of-range token of a merged step.

### GroupArena

The sizes and the order of the blocks in `mc_batch_group_create`, translated as
arithmetic, and the ranges the attention kernels write during a step
(`attention_decode.cu`), for real dimensions of the model. Blocks a step writes
must not contain the tables the rest of the step reads.

### Text pipeline

`Utf8` (boundaries, and the lossy decoding of cut characters), `StreamDecoder`,
`StopState`, `ToolCallParser`, `ToolArgStream` are the algorithms of the crate as
operators on sequences of bytes. An alphabet of single bytes stands for the real
one: `L M` is a character of two bytes, and the letters of the tags are cut to one
each. `ToolCallGrammar` is the reference for what a whole text means, written
without the parser's states. `Generation` is the loop of `run_generation` over any
cut of a text into tokens; `EmissionSource` is what the server may rely on.

### Server

| Code | Actions |
|---|---|
| `chat_completions`, `messages`, `responses` up to the submission | `Translate`, `NoPrompt`, `Rejected`, `Submitted` |
| `run_generation` | `TakeToken`, `TakeGarbage`, `TakeFailed`, `TakeDone`, `TakeClosed`, `Flush`, `Finish`, `Return` |
| the `emit` closures and the encoders | `Render`, `SendFrame`, `SendFails` |
| the end of `stream_response`, the plain answer | `Cancel`, `Sentinel`, `Respond` |
| scheduler, client, runtime | `WorkerToken`, `WorkerEnds`, `WorkerBreaks`, `ReadFrame`, `Disconnect`, `DropHandler` |

`AnthropicRequest`, `ResponsesRequest` and `JobRequest` translate requests,
`ChatMessages` says what the prompt builder makes of the result, and
`ChatEncoder`, `AnthropicEncoder`, `ResponsesEncoder` turn emissions into events,
an event each for the data a client tells apart. `ClientView` is no code of the
repository: it is a client of each protocol, which notes every frame that its
protocol does not allow at that point, and what it has been told. The scheduler is
an instance of `EventStream` (which `Scheduler` implements) and the text pipeline
any sequence of emissions `EmissionSource` allows (which `Generation` implements).
`counted` records the request counters the handlers write.

### Handles

Dropping a value is a list of steps (`todo`): its destructor, then its fields in
the order of declaration; whoever releases the last share of the model or of the
library goes on with their destructors. The worker's pool is one step of its end,
which drops the sessions the worker still has one after the other (`DropPool`). Two threads, the one that loaded the
engine and the worker, drop and create concurrently; the quota is counted,
checked and given back as `session.cpp` does. A panic of the worker is not
modelled: then the sessions of the quantum would be dropped before the group.

### MC modules

`MCScheduler`, `MCAdmission`, `MCGeneration`, `MCServer` and `MCNative` name the
model values and the inputs of the runs; `GroupArena` and `Handles` are checked
directly.

## 4. Runs

| Run | Instance | Shows |
|---|---|---|
| `Scheduler_faults` | 2 batchable jobs, one strict, 2 tokens, channels of 1, 2 sessions, queue limit 1, every fault except `remove` | `TypeOK`, `PoolConserved`, `NoSoloUseInGroup`, `StreamInOrder`, `EndingTold`, `NoDecodePastLimit`, `EveryQuantumServes`, `CancelWithinOneStep`, `StreamGaugeExact`, the refinements `StreamProtocol` and `AdmissionGated` |
| `Scheduler_live` | 2 jobs, either client may stop reading | `EveryJobEnds` (while all read), `ShutdownCompletes` (if all read until the shutdown) |
| `Admission_mixed` | 3 strict submissions and a forced one, limit 2 | `TypeOK`, `WaitingExact`, `LimitKept`, `GaugeSettles`, `AdmissionIsAtomic`, `SubmissionReturns` |
| `Native` | 2 sessions (one with a decode graph), 3 jobs (one sampled), a context of 4, pages of 2, up to 2 failing steps | `TokensInOrder`, `SampledAsAsked` |
| `Handles` | a quota of 2, 3 sessions, 2 threads | `CallsLegal`, `QuotaExact`, `OwnQuotaSuffices`, `NothingLeaks` |
| `Generation` | texts of up to five pieces of markup, or four characters, tokens of 1 to 4 bytes | `DecoderExact`, `StopExact`, `ParserExact`, `PlainArgsCompose`, the refinement `EmissionsLegal` |
| `Server` | one request of each endpoint, streamed or not; conversations of up to 3 turns or 4 items; 3 tokens, 2 calls, channels of 1 | `ClientUnderstands`, `GivesUpOnlyOnTheGone`, `AnswerEnds`, `EndingAgrees`, `NonStreamAgrees`, `HistoryKept`, `ResultsFollowCalls`, `LimitAndToolsHonoured`, `Released`, `Answered` |
| `Scheduler_slow_consumer` | one reading client, one silent | *violated*: `ReadersAreServed` |
| `Native_lost_token` | as `Native`, with the out-of-range token | *violated*: `TokensInOrder` |
| `GroupArena_overlap` | the real sizes, two tiers, 2 and 4 rows | *violated*: `TablesKept` |
| `Generation_stop_scan` | as `Generation` | *violated*: `ScanIsTotal` |
| `Server_markup` | as `Server` | *violated*: `TextsOnlyIfHeard` |

Bounds. Channels of capacity 1 make the full channel, the owed token and the
blocked terminal send happen at once. `MaxNew` 2 lets the last token be the one
that found the channel full, and lets an earlier one be. Two sessions for two jobs
make the full active set, the reused session and the merged batch reachable. Three
native jobs on two sessions make a session serve two requests of different
configuration, a page be taken while decoding, while prefilling and while merged,
and the context be exhausted; two faults make a failing retry of a failed call.
Five pieces of markup are two parameters of a call, or a call and what follows it.
Three turns are a call, its result and the answer. A quota of 2 with 3 sessions
makes both threads compete for the last place. The limit on tokens `MaxU32` is 3
in the instance: numbers below, at and above it are asked for. The values that
grow in the code without bound (`generated`, sessions created) are bounded by the
code itself: the limit on tokens, the pool. The history variable `skips` is counted
up to `SkipBound` (3): a stream that was passed over more often violates
`EveryQuantumServes` as one passed over three times does.

Deadlock is checked in the Scheduler runs and in `Native` (`Finished` is its only
stuttering state). The workloads of Admission, Generation and Server are finite and
end, and the threads of `Handles` may drop everything and stop, so their
configurations turn the check off.

Fairness. `FairSpec` of Scheduler: the worker runs (a thread that only its own
blocking calls stop); a drop that has begun disconnects; a submission that was
counted is sent; the clients in `Readers` keep reading. `Readers` is empty in
`Scheduler_live`, and the properties say for themselves what clients have to do:
`AllRead`, that every client that can read eventually does, `ReadUntilShutdown`,
the same until `closing` is set. Nothing makes a client drop its receiver or
cancel, or a handle close. `FairSpec` of Admission: each submitting thread and the
worker are scheduled. `FairSpec` of Server: a task that can run does, and
rendering an emission does not last (`[]<> ~Rendering`, which is the fairness of
`Render` without an `ENABLED` over the encoders); the scheduler goes on with a job
whose channel has room and gives up one whose receiver is gone, which
`Scheduler_live` shows for its worker while no other client holds it; the runtime
drops a handler whose connection is closed; a client that stays reads. `FairSpec`
of Handles: a drop that has begun goes on, a creation returns, a closed worker
ends. Nobody has to drop anything.

## 5. Findings

Each has a run that TLC finds violated.

- **A slow consumer can stop everyone** (`Scheduler_slow_consumer`). Tokens are
  sent with `try_send`, terminal events and the owed token before them with
  `blocking_send` (1145, 1187, 1210, 1223). A client that keeps its receiver and
  does not read a full channel holds the only worker. The documentation (36-37)
  says a slow consumer delays only itself. The same send, when it was begun
  before the shutdown, keeps the last handle's drop waiting. An SSE client that
  stops reading blocks its task on the frame channel, and so becomes such a one.
- **The group's arena overlaps itself** (`GroupArena_overlap`).
  `batch_group.cpp:324` allocates `act_bytes` and then cuts the attention partials,
  the merge partials and the RoPE table from beyond that block (333-339), where the
  next allocations begin. With a context of 131072 and four rows, a member at
  position 2560 or later overwrites the step tables in the middle of a step (from
  1792 on it overwrites the slot tables, which no kernel reads). With a
  smaller tier the RoPE table lies within the workspace of the matrix products.
- **A healthy member loses a token** (`Native_lost_token`). When a merged step
  returns an out-of-range token for one member, the device has advanced everyone
  and the host nobody (`batch_group.cpp:833`); the scheduler falls back to solo
  steps without a reset.
- **The stop scan may slice within a character** (`Generation_stop_scan`,
  `stop.rs:73`), which panics: the stream closes without an ending.
- **A call is answered with its markup as text** (`Server_markup`). The content of a
  result is the text that was generated, markup included (`chat.rs:379`), where a
  stream has the markup removed. A generation that is one call and nothing else is
  therefore answered with a text part, the raw markup, before the call
  (`anthropic.rs:658`, `responses.rs:389`). The tests feed such a generation and
  expect the call alone: `tests/anthropic_http.rs:163` "pure tool call → single
  tool_use block", `tests/responses_http.rs:200` "no text → function_call comes
  first". `/v1/chat/completions` answers with the markup in `content`, which no test
  looks at. `NonStreamAgrees` compares the answers in everything else.

Divergences without a run:

- A history with a function call cannot be rendered on `/v1/responses`:
  `push_tool_call` makes a message without `content` (`responses.rs:191`), which the
  template requires (`minicpm-template/src/lib.rs:83`), and the request is answered
  with 500; the comment at `responses.rs:178` says the folded message is what the
  template wants. `HistoryReadable` in `Server.tla` states what should hold, and
  `Server.cfg` with that invariant shows it violated by a history of one call.
- `active_sessions` is stale: `retire` stores `active.len()` (1264) while the
  streams of the current quantum are in other vectors.
- A failed `group.remove` is forgotten (821): the slot is taken before the call and
  its error ignored, so invariant 4 of `worker_loop` (511-513) fails when the
  native event chain does.
- `queue_depth` is refreshed by a load and a store that overtake each other (292);
  it settles when the queue drains (`GaugeSettles`).
- After the last handle is dropped the worker still admits and prefills jobs left
  in the channel, one per quantum, before it sees the disconnection (558-572); a
  shutdown may retire as `Failed` a stream that owes a token, which the comment at
  1099 excludes; with a full active set, jobs still queued at shutdown end without
  a terminal event.
- `max_tokens: 0` produces one token. A request refused with 429 is counted in
  `requests_total`.
- Argument fragments do not always add up to the JSON of the call
  (`chat.rs:471-473, 530-534`): a quoted value sent in pieces, two parameters of
  one name, an empty value. `PlainArgsCompose` is the property without these.
- A CDATA opener in the middle of a value is recognised or not by where the text
  is cut; a text that ends within a function tag loses the rest of the tag.
- On `/v1/messages` and `/v1/responses` an error leaves blocks and items open; tool
  blocks stay open until the end; the reason `tool_use` hides a cut at the limit;
  an empty text at the end opens an empty block. A job channel that closes without
  a word is reported as `stop`.
- Hosted tools of `/v1/messages` are offered to the model as functions;
  `tool_choice` is translated and used nowhere.

## 6. Proofs

Proved with TLAPS for every value of the constants that satisfies
`JobsAssumption` (the jobs are finitely many) and `ConfigAssumption` (at least one
session, one place in a channel and one token), or their counterparts in
`Admission`. The proofs are of safety: of what no reachable state or step does.

| Module | Theorem | States |
|---|---|---|
| `AdmissionProofs` | `WaitingIsExact`, `TypeCorrect`, `LimitIsKept` | `WaitingExact`, `TypeOK`, `LimitKept` of `Admission` |
| `AdmissionProofs` | `GaugeIsSettled` | `GaugeSettles` |
| `AdmissionProofs` | `GateImplemented` | the compare-and-swap loop implements `AdmissionGate` |
| `SchedulerStructure` | `StructureHolds` | the structural invariant below |
| `SchedulerStructure` | `TypeCorrect`, `StreamGaugeIsExact` | `TypeOK`, `StreamGaugeExact` of `Scheduler` |
| `SchedulerStructure` | `GateImplemented` | the handles and the worker implement `AdmissionGate` |
| `SchedulerProofs` | `PoolIsConserved` | `PoolConserved`, and no session has two owners |
| `SchedulerProofs` | `GroupIsExclusive` | `NoSoloUseInGroup`, if `group.remove` never fails |
| `SchedulerProofs` | `RoundRobin`, `LimitIsRespected`, `CancelIsPrompt` | `EveryQuantumServes`, `NoDecodePastLimit`, `CancelWithinOneStep` |
| `SchedulerStreams` | `StreamsAreInOrder`, `EndingIsTold` | `StreamInOrder`, `EndingTold` |
| `SchedulerStreams` | `ProtocolImplemented` | the scheduler implements `EventStream`, for every job |
| `HandlesProofs` | `CallsAreLegal` | `CallsLegal` |
| `HandlesProofs` | `QuotaIsExact`, `PoolHasItsPlaces` | `QuotaExact`, `OwnQuotaSuffices` |
| `ServerProofs` | `GivesUpOnlyOnTheGoneHolds` | `GivesUpOnlyOnTheGone` of `Server` |
| `ServerEndings` | `AnswerEndsHolds`, `EndingAgreesHolds` | `AnswerEnds`, `EndingAgrees` |
| `NativeProofs` | `SampledAsAskedHolds` | `SampledAsAsked` of `Native` |

`HandlesAssumption` asks that the sessions be finitely many, that no name be used
for two things, and that the quota be at least one. `ServerAssumption` asks
for bodies of the three endpoints, of whatever kind, and a place in each channel.
`NativeAssumption` asks for finitely many sessions, names that are not used for two
things, prompts of at least one token that fit the context, and positive sizes. Which
steps may be refused (`Breakable`), how many are, and whether a pass may go wrong
(`Poison`) is left open.

**Admission.** `waiting` is a cardinality: of the jobs between their increment and
the worker's decrement (`CountedJobs`). `IInv` holds what that argument needs: the
types without the sign of the counters (`Shape`), that a job is in the channel at
most once, and only after its submission (`InTransit`), and what a thread may rely
on between its load and its next step (`Loaded`: a strict job that goes on to the
compare-and-swap has seen a value below the limit). That no counter goes negative
then follows from the count, and the limit from the compare-and-swap, which
succeeds only on the value that was compared with it. The gauge is stored after
the counter, by several threads, and a store may be late. But a submission stores
while its job still counts (`SomeoneWaits`), so when nothing waits the last store
was the worker's own: it found 0, or the worker is about to look (`Drained`).

**Structure.** `waiting` and `active_streams` are decremented, so `TypeOK` alone
is not inductive: that they stay natural numbers has to be known from what they
count. `Structure` is `TypeOK` with four parts that are inductive together:
`Control` (which of the worker's collections may be non-empty at which point, and
where a retirement returns to), `StreamTally` (`activeStreams` is the number of
streams in all three collections and in the worker's hands), `WaitingTally`
(`waiting` is the number of jobs counted and not taken) and `Placement` (a job is
in one collection, once, and its stage agrees). The steps of a quantum move one
stream at a time; `QuantumMoves` sorts them into four kinds of move, and the
tallies and `Placement` are argued once per kind.

**Safety.** Each property gets the strengthening its argument needs.
`Sessions`: streams own different sessions, the pool holds others, and every
stream has one; `PoolConserved` counts on it. `Membership`: a stream with a slot
is in the active set or the batch segment and the group has its session in that
slot; every occupied slot has such a stream. With `Sessions` it excludes solo use.
It breaks when `remove` fails (section 5), which is why the theorem assumes
`"remove" \notin Faults`.
`Served`: how often each stream was passed over, by the collection it is in.
`Limits`: a stream that owes no token is below its limit wherever it can be decoded
from. `Lateness`: in the cancel scan, the members already examined are the last
`Len(batch) - togo`, and none of them has had a token since its cancel.

**Streams.** What a client sees of a job, `Stream(j)`, is what it received and what
its channel still holds. `StreamStep` says what one step of the scheduler may do to
it: nothing; a token goes out (`Sends`) or is kept back (`Keeps`); the terminal event
(`Finishes`); the client reads or leaves. Every action is shown to be one of these,
with what it then does to `generated` and `pending`. `Account` is the invariant that
closes the argument: for a client that stays, the tokens generated are those in its
stream and the one it is owed (`pending`), which is the last. A stream that a shutdown
cuts short may lose the token it is owed; it is then told that it failed, which is
what `Orderly` keeps. `ProtocolImplemented` follows: each kind of step is a step of
`EventStream` or a stutter under the refinement mapping.

**Handles.** `CallsLegal` alone says nothing about a drop half-way. `Ownership`
ties what each thread is about to do (`now`, the head of its `todo`) to the shares:
`Script` says which lists of steps a thread can have left; `SessionsOwned` that a
session lives as long as it has an owner, and that one that was destroyed keeps its
share of the model, and its name, until its own drop gives the share back;
`GroupOwned` that the group goes before its members, and the worker's end begins
with it; `Creations` and `EngineHeld` that who creates a session, or still has a
group or a pool, holds the engine, and the engine the model; `ModelHeld` that the
model lives while anyone has a share, and at most one thread destroys it. The lists
are reasoned about once (`DropTurns`, `DropsBegin`: how a thread goes on), each step
then about `now` only. The quota adds `Places`: the creations that are not over the
quota have a place, so that ending one and beginning another cannot exceed it.

**Server.** `GivesUpOnlyOnTheGone` is about the encoder of `/v1/messages`, to whose
caller an emission without a frame is a client that is gone. The encoder is silent
on the arguments of a call it gave no block, and after its ending. `Answering` rules
both out. `Stages` says which kinds of emissions can wait at which stage of the loop.
`InBlocks` says that a call whose arguments may come, now or in a later batch, has a
block or is started by an emission that waits before them (`Known`). That a batch
keeps it so is a fact about `EmissionSource` alone (`Batches`: arguments belong to the
call that is open, and an open call was open before the batch or started by it).

The ending is one emission, but what becomes of it depends on the surface: the number
of its frames, the events in each, what follows. `Telling` is a frame that tells the
end once, truly, and last where the surface has no other last word; `FramesTell` shows
that the frames of the ending emission are silent ones and then such a frame, for
every state the three encoders can be in, and `FramesAreSilent` that no other emission
says anything of the end. `Wired` follows these frames to the wire by the stage of the
loop: nothing is told before `Finish`; then the ending waits, whole or in part
(`ToldAt`); and when the loop has returned it stands on the wire, with nothing but the
`[DONE]` of the chat surface behind it, or there is no client (`Settled`). `CanEncode`
is what the encoders need of their own state. `Counted` ties what the loop will say to
the events it has read: their tokens by cardinality, the reason and the failure by the
last of them, and an answer that was given to these (`HonestReply`). `AnswerEnds`
follows from `Settled`, `EndingAgrees` from `Counted` and the honesty of every frame
that tells.

**Native.** To save copies the host keeps flags of what the device already has: the
seed of a session (`rng_seeded`) and its sampling configuration (`cfg_dirty` and the
last one copied). The flags are set when a copy is enqueued, so they say nothing of the
device itself, only of the device once it has run its queue. `Fresh` says that: no zero is
queued behind the copies, and what the host believes is on the device or, while a copy
is queued, in the pinned buffer that the copy reads. It holds of every session with a
running job, except within its reset and after a decode that was refused half-way, when the flag is
set and the copy is not enqueued (`Believes`); such a job is over, and `Forgets` says
that a session is given to the next one with nothing believed. `Settles` is the
host's side of a decode: past the seed and the configuration both are believed, and
the latter is the one the request asks for. `Waits` is why the device cannot be a step
behind: a pass is the last work of its stream, and the host waits for it. `Orderly` has
what the four need of the control: the shape of a call's remaining steps (`StepAt`),
that the worker's lists share no session (`Lists`), and no two sessions a job
(`JobsApart`). The steps of the device are argued by what they take from a queue
(`Taken`, `Ran`), those of a call by what they put there (`Put`), and those of the worker, all
alike, by `WorkerStep`: only a reset changes what the host believes, and who runs after
the step ran before it.

The runs and the proofs read the same definitions: no configuration replaces one.
The mutants of a proved property are still run: they show that the property
depends on the code it is about.

## 7. Only model-checked, and not modelled

Liveness (`EveryJobEnds`, `ShutdownCompletes`, `SubmissionReturns`, `Released`,
`Answered`, `NothingLeaks`) rests on fairness and `ENABLED`, which TLAPS does not
reason about. `TokensInOrder` is model-checked only: it is checked for the refusals the
worker recovers from (`MCBreakable`) and without `Poison`, and a proof needs to know
what the work left on every stream does to the cache and the page table. What the
text pipeline computes for every input (`DecoderExact`, `StopExact`, `ParserExact`, `PlainArgsCompose`,
`EmissionsLegal`), and what the server's frames add up to for a client, or its
translations keep of a request (`ClientUnderstands`, `NonStreamAgrees`, `HistoryKept`,
`ResultsFollowCalls`, `LimitAndToolsHonoured`), is said with folds and recursion over
data: only induction over data could show it, which the prover cannot do, and it
stays with TLC.

Not modelled, and why:

- token values and numerics, timings, identifiers, error texts, the monotone
  metrics counters, histograms and the ring of recent requests, the sampling knobs
  a request copies: data no decision depends on;
- the read-only endpoints (`/health`, `/v1/models`, `/v1/stats`);
- a stop token within the server's loop: the scheduler never forwards one;
- jobs that are not batchable, in `Scheduler`'s runs: the proofs cover any mix, and
  `Native` has a sampled job;
- failures after which CUDA has lost the context (a launch, a synchronisation), a
  failing remove on the native side (a step of a reset that is refused is skipped,
  as its status is in the code), other statuses the code ignores, the sequence
  buffer `d_seq`, the `d_slot_*` tables no kernel reads, the chunks of a long
  prefill, and the environment override of the attention chunk;
- weight formats, plan caches, tactic timing, kernels' arithmetic, offline tools
  and benchmarks: numerics and I/O, out of a model checker's reach.
