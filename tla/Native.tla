------------------------------- MODULE Native -------------------------------
(***************************************************************************)
(* The native runtime under the worker of the scheduler: sessions and the  *)
(* batch group of native/runtime, called through the Rust wrappers of      *)
(* minicpm-runtime.                                                        *)
(*                                                                         *)
(* Every session and the group own a CUDA stream: a queue of work that the *)
(* device runs in order and by itself, until the host synchronizes.  A     *)
(* call of the host enqueues its work step by step, any step may be        *)
(* refused, and a call that fails returns at once: what it had enqueued is *)
(* still run.  Pinned buffers are read when the device gets to the copy,   *)
(* pageable ones when the copy is enqueued.                                *)
(*                                                                         *)
(* A token is named by its job and its position: the forward pass at       *)
(* position p decides the token of p + 1 if the cache of the session holds *)
(* the tokens of 0 .. p of that job, and a wrong one otherwise.            *)
(***************************************************************************)
EXTENDS Integers, Sequences, FiniteSets, SequencesExt

CONSTANTS
  Sessions, Jobs, None,
  Prompt,      \* prompt tokens of a job
  Config,      \* its sampling configuration; "greedy" may be merged
  Graphs,      \* sessions whose decode step was captured as a CUDA graph
  MaxNew,      \* max_new_tokens
  Context,     \* max_context_tokens
  PageTokens,  \* kTokensPerPage
  Breakable,   \* <<call, step>>: the steps that may be refused
  MaxFaults,   \* bound: how many are
  Poison       \* a forward pass may decide a token out of range

ASSUME NativeAssumption ==
  /\ None \notin Jobs \cup Sessions \cup {"group"} /\ "group" \notin Sessions
  /\ Prompt \in [Jobs -> 1 .. Context]
  /\ Graphs \subseteq Sessions
  /\ {MaxNew, Context, PageTokens} \subseteq Nat \ {0}
  /\ IsFiniteSet(Sessions) /\ MaxFaults \in Nat /\ Poison \in BOOLEAN

Streams == Sessions \cup {"group"}

Token(j, p) == [job |-> j, pos |-> p]
Wrong == Token(None, 0)
OutOfRange == Token(None, 1)
Eos == Token(None, 2)          \* kEosStreamId: the limit was already reached

VARIABLES
  host,     \* SessionImpl: what the host keeps of a session
  dev,      \* d_state, d_next_token, d_page_table and the KV pool of a session
  queue,    \* the streams
  open,     \* there is a batch group
  members,  \* BatchGroupImpl::members
  staged,   \* h_stage: the pinned source of the step tables
  group,    \* the step tables, logits and harvest buffer of the group
  call,     \* the native call the worker is in
  solo,     \* the sessions of the quantum still to be stepped alone
  batch,    \* those it merges
  leaving,  \* those whose streams have moved on: who is over goes back
  job,      \* the job that a session serves
  stage,    \* where a job is in its life
  emitted,  \* the tokens its client was given
  faults

lists == <<solo, batch, leaving>>
callers == <<call, lists, job, stage, emitted>>
vars == <<host, dev, queue, open, members, staged, group, callers, faults>>

PagesFor(n) == (n + PageTokens - 1) \div PageTokens
Positions == 0 .. PagesFor(Context) * PageTokens - 1

FreshHost ==
  [len |-> 0, owned |-> 0, synced |-> 0, pinned |-> "zero", last |-> "zero",
   dirty |-> TRUE, seeded |-> FALSE, made |-> 0, got |-> Wrong]

FreshDevice ==
  [len |-> 0, next |-> Wrong, table |-> 0, kv |-> [p \in Positions |-> Wrong],
   cfg |-> "zero", seed |-> None, ids |-> None]

FreshGroup == [rows |-> <<>>, logits |-> <<>>, got |-> <<>>]

NoCall == [c |-> "none", s |-> None, b |-> <<>>, todo |-> <<>>, failed |-> FALSE,
           out |-> Wrong]

Call(c, s) == [NoCall EXCEPT !.c = c, !.s = s]
StepCall(b) == [NoCall EXCEPT !.c = "step", !.b = b]

Init ==
  /\ host = [s \in Sessions |-> FreshHost]
  /\ dev = [s \in Sessions |-> FreshDevice]
  /\ queue = [x \in Streams |-> <<>>]
  /\ open = FALSE /\ members = {} /\ staged = <<>> /\ group = FreshGroup
  /\ call = NoCall /\ solo = <<>> /\ batch = <<>> /\ leaving = <<>>
  /\ job = [s \in Sessions |-> None]
  /\ stage = [j \in Jobs |-> "new"]
  /\ emitted = [j \in Jobs |-> <<>>]
  /\ faults = 0

-----------------------------------------------------------------------------
(* The device. *)

\* An event that x waits for is one piece of work of the other stream nearer.
Nearer(o, x) == IF o.op = "wait" /\ o.s = x /\ o.n > 0 THEN [o EXCEPT !.n = @ - 1] ELSE o

Take(x, op) ==
  /\ queue[x] # <<>> /\ Head(queue[x]).op = op
  /\ queue' = [y \in Streams |->
                 LET rest == IF y = x THEN Tail(queue[y]) ELSE queue[y]
                 IN  [i \in DOMAIN rest |-> Nearer(rest[i], x)]]
  /\ UNCHANGED <<open, members, staged, callers, faults>>

Only(x, op, new) ==
  /\ Take(x, op)
  /\ LET o == Head(queue[x]) IN dev' = [dev EXCEPT ![o.s] = new[o.s]]
  /\ UNCHANGED <<host, group>>

\* cudaStreamWaitEvent: n pieces of the other stream come first.
RunWait(x) ==
  /\ Take(x, "wait") /\ Head(queue[x]).n = 0
  /\ UNCHANGED <<host, dev, group>>

RunZero(x) ==
  Only(x, "zero", [s \in Sessions |->
    [dev[s] EXCEPT !.len = 0, !.cfg = "zero", !.seed = None]])

RunMirror(x) ==
  Only(x, "mirror", [s \in Sessions |-> [dev[s] EXCEPT !.len = Head(queue[x]).n]])

RunIds(x) ==
  Only(x, "ids", [s \in Sessions |-> [dev[s] EXCEPT !.ids = job[s]]])

RunSeed(x) ==
  Only(x, "seed", [s \in Sessions |-> [dev[s] EXCEPT !.seed = job[s]]])

RunConfig(x) ==
  Only(x, "cfg", [s \in Sessions |-> [dev[s] EXCEPT !.cfg = host[s].pinned]])

\* Page k of a sequence is page k of the pool: the table is a prefix of it.
RunTable(x) ==
  Only(x, "table", [s \in Sessions |->
    [dev[s] EXCEPT !.table = Max({@, Head(queue[x]).n})]])

\* A position whose page is not in the table is looked up in page 0.
Place(d, p) == IF p < d.table * PageTokens THEN p ELSE p % PageTokens

Holds(d, j, n) == \A p \in 0 .. n - 1 : d.kv[Place(d, p)] = Token(j, p)

Decided(d, j, n) ==
  IF Holds(d, j, n) THEN {Token(j, n)} \cup (IF Poison THEN {OutOfRange} ELSE {})
  ELSE {Wrong}

\* The prompt at the positions after d.len; its last row decides.
RunPrefill(x) ==
  /\ Take(x, "prefill")
  /\ LET s == Head(queue[x]).s
         n == Head(queue[x]).n
         d == dev[s]
         filled == [d EXCEPT !.kv = [p \in Positions |->
                      IF \E q \in d.len .. d.len + n - 1 : Place(d, q) = p
                      THEN Token(d.ids, p - d.len) ELSE d.kv[p]]]
     IN  \E t \in Decided(filled, d.ids, d.len + n) :
           dev' = [dev EXCEPT ![s] = [filled EXCEPT !.next = t]]
  /\ UNCHANGED <<host, group>>

\* The current token enters the cache at d.len.
Cached(d) == [d EXCEPT !.kv[Place(d, d.len)] = d.next]

RunRead(x) ==
  /\ Take(x, "read")
  /\ host' = [host EXCEPT ![x].got = dev[x].next]
  /\ UNCHANGED <<dev, group>>

RunForward(x) ==
  /\ Take(x, "forward")
  /\ LET d == Cached(dev[x]) IN
       \E t \in Decided(d, d.next.job, d.len + 1) :
         dev' = [dev EXCEPT ![x] = [d EXCEPT !.next = t]]
  /\ UNCHANGED <<host, group>>

\* The captured graph: read the old token, forward, append, advance.
RunGraph(x) ==
  /\ Take(x, "graph")
  /\ host' = [host EXCEPT ![x].got = dev[x].next]
  /\ LET d == Cached(dev[x]) IN
       \E t \in Decided(d, d.next.job, d.len + 1) :
         dev' = [dev EXCEPT ![x] = [d EXCEPT !.next = t, !.len = @ + 1]]
  /\ UNCHANGED group

\* The work of a merged step goes through the step tables.
Rows == 1 .. Len(group.rows)

RunRows ==
  /\ Take("group", "rows")
  /\ group' = [group EXCEPT !.rows = staged]
  /\ UNCHANGED <<host, dev>>

RunReads ==
  /\ Take("group", "reads")
  /\ group' = [group EXCEPT !.got = [i \in DOMAIN Head(queue["group"]).b |->
                                       dev[Head(queue["group"]).b[i]].next]]
  /\ UNCHANGED <<host, dev>>

RunLayers ==
  /\ Take("group", "layers")
  /\ dev' = [s \in Sessions |->
               IF \E i \in Rows : group.rows[i] = s THEN Cached(dev[s]) ELSE dev[s]]
  /\ \E logits \in [Rows -> UNION {Decided(dev'[s], dev[s].next.job, dev[s].len + 1) :
                                     s \in Sessions}] :
       /\ \A i \in Rows : LET s == group.rows[i] IN
            logits[i] \in Decided(dev'[s], dev[s].next.job, dev[s].len + 1)
       /\ group' = [group EXCEPT !.logits = logits]
  /\ UNCHANGED host

RunArgmax ==
  /\ Take("group", "argmax")
  /\ dev' = [s \in Sessions |->
               IF \E i \in Rows : group.rows[i] = s
               THEN [dev[s] EXCEPT !.next =
                       group.logits[CHOOSE i \in Rows : group.rows[i] = s]]
               ELSE dev[s]]
  /\ UNCHANGED <<host, group>>

RunAdvance ==
  /\ Take("group", "advance")
  /\ dev' = [s \in Sessions |->
               IF \E i \in Rows : group.rows[i] = s
               THEN [dev[s] EXCEPT !.len = @ + 1] ELSE dev[s]]
  /\ UNCHANGED <<host, group>>

Device ==
  \/ \E x \in Streams : RunWait(x) \/ RunTable(x)
  \/ \E x \in Sessions : \/ RunZero(x) \/ RunMirror(x) \/ RunIds(x) \/ RunSeed(x)
                         \/ RunConfig(x) \/ RunPrefill(x) \/ RunRead(x)
                         \/ RunForward(x) \/ RunGraph(x)
  \/ RunRows \/ RunReads \/ RunLayers \/ RunArgmax \/ RunAdvance

-----------------------------------------------------------------------------
(* A call of the host, step by step. *)

Asked(s) == Config[job[s]]

Work(op, s, n) == [op |-> op, s |-> s, n |-> n, b |-> <<>>]

\* ensure_pages_for: nothing to do while the table covers the pages.
NeedsPages(h, n) == Max({h.owned, PagesFor(n)}) > h.synced

ResetSteps(s) == <<Work("zero", s, 0), Work("sync", s, 0)>>

PrefillSteps(s) ==
  LET n == Prompt[job[s]] IN
    <<Work("ids", s, n), Work("table", s, host[s].len + n), Work("prefill", s, n),
      Work("mirror", s, host[s].len + n), Work("sync", s, 0)>>

Reseeds(s) == ~ host[s].seeded
Reconfigures(s) == host[s].dirty \/ host[s].last # Asked(s)

DecodeSteps(s) ==
  LET n == host[s].len + 1 IN
    IF s \in Graphs
    THEN <<Work("seed", s, 0), Work("cfg", s, 0), Work("table", s, n), Work("graph", s, 0),
           Work("sync", s, 0)>>
    ELSE <<Work("seed", s, 0), Work("cfg", s, 0), Work("read", s, 0), Work("table", s, n),
           Work("forward", s, 0), Work("sync", s, 0), Work("mirror", s, n)>>

\* Mutant: the streams are not ordered.
Unchained(x, y) == <<>>

\* The group waits for all the member has in flight, and the other way round.
Chain(x, y) == <<[Work("wait", y, 0) EXCEPT !.b = <<x>>]>>
AddSteps(s) == Chain("group", s) \o <<Work("pointers", s, 0)>>
RemoveSteps(s) == Chain(s, "group") \o <<Work("pointers", s, 0)>>

BatchSteps(b) ==
  [i \in DOMAIN b |-> Work("table", b[i], host[b[i]].len + 1)]
  \o <<[Work("rows", None, 0) EXCEPT !.b = b], [Work("reads", None, 0) EXCEPT !.b = b],
       Work("layers", None, 0), Work("argmax", None, 0), Work("advance", None, 0),
       Work("sync", None, 0)>>

\* The validations at the head of a call. For a merged step the code takes the
\* pages of a member before it looks at the length of the next; the pages a
\* refused step has taken are those the member's next step takes.
Refused(c) ==
  CASE c.c = "prefill" -> Prompt[job[c.s]] > Context - host[c.s].len
    [] c.c = "decode"  -> host[c.s].len = 0 \/ host[c.s].len >= Context
    [] c.c = "add"     -> c.s \in members
    [] c.c = "remove"  -> c.s \notin members
    [] c.c = "step"    -> \/ c.b = <<>>
                          \/ \E i \in DOMAIN c.b : \/ c.b[i] \notin members
                                                   \/ Asked(c.b[i]) # "greedy"
                                                   \/ host[c.b[i]].len = 0
                                                   \/ host[c.b[i]].len >= Context
                          \/ \E i, k \in DOMAIN c.b : i # k /\ c.b[i] = c.b[k]
    [] OTHER           -> FALSE

\* decode_one past the limit of its round answers with the sentinel.
AtLimit(c) == c.c = "decode" /\ host[c.s].made >= MaxNew

StepsOf(c) ==
  CASE c.c = "reset"   -> ResetSteps(c.s)
    [] c.c = "prefill" -> PrefillSteps(c.s)
    [] c.c = "decode"  -> DecodeSteps(c.s)
    [] c.c = "add"     -> AddSteps(c.s)
    [] c.c = "remove"  -> RemoveSteps(c.s)
    [] c.c = "step"    -> BatchSteps(c.b)
    [] c.c = "create"  -> <<Work("carve", None, 0)>>
    [] c.c = "destroy" -> <<Work("sync", None, 0)>>

\* Mutant: a reset leaves the copy of the sampling configuration valid.
ForgottenClean(h) ==
  [h EXCEPT !.owned = 0, !.synced = 0, !.len = 0, !.seeded = FALSE, !.made = 0,
            !.dirty = FALSE]

\* reset clears the host's side before it touches the device.
Forgotten(h) ==
  [h EXCEPT !.owned = 0, !.synced = 0, !.len = 0, !.seeded = FALSE, !.made = 0,
            !.dirty = TRUE]

Begin(c) ==
  /\ call' = IF Refused(c) THEN [c EXCEPT !.failed = TRUE]
             ELSE IF AtLimit(c) THEN [c EXCEPT !.out = Eos]
             ELSE [c EXCEPT !.todo = StepsOf(c)]
  /\ host' = IF c.c = "reset" THEN [host EXCEPT ![c.s] = Forgotten(@)] ELSE host

InCall(k) == call.todo # <<>> /\ Head(call.todo).op = k
Now == Head(call.todo)

\* The stream of a call: that of the group for the calls of the group.
Stream == IF call.c \in {"create", "destroy", "add", "remove", "step"} THEN "group" ELSE call.s

Advance == call' = [call EXCEPT !.todo = Tail(@)]
Skip == Advance /\ UNCHANGED <<host, queue, faults>>

\* A reset drops the status of its copy and goes on.
Break ==
  /\ <<call.c, Now.op>> \in Breakable /\ faults < MaxFaults
  /\ faults' = faults + 1
  /\ IF call.c = "reset" THEN Advance
     ELSE call' = [call EXCEPT !.todo = <<>>, !.failed = TRUE]
  /\ UNCHANGED queue

Enqueue(x, o) ==
  /\ Advance
  /\ queue' = [queue EXCEPT ![x] = Append(@, o)]
  /\ UNCHANGED faults

Issue(x, o) == Enqueue(x, o) \/ Break

Kept == UNCHANGED <<dev, open, members, group, lists, job, stage, emitted>>

\* Work that leaves the host's side alone.
Submit ==
  /\ call.todo # <<>>
  /\ Now.op \in {"zero", "ids", "prefill", "read", "forward", "graph", "reads",
                 "layers", "argmax", "advance"}
  /\ Issue(Stream, Now)
  /\ Kept /\ UNCHANGED <<host, staged>>

\* The pages are taken before the copy, and recorded as copied after it.
Owning(h, n) == [h EXCEPT !.owned = Max({@, PagesFor(n)})]
Synced(h) == [h EXCEPT !.synced = h.owned]

EnsurePages ==
  /\ InCall("table")
  /\ LET s == Now.s
         h == Owning(host[s], Now.n)
     IN  \/ /\ NeedsPages(host[s], Now.n)
            /\ \/ /\ Enqueue(Stream, Work("table", s, h.owned))
                  /\ host' = [host EXCEPT ![s] = Synced(h)]
               \/ /\ Break
                  /\ host' = [host EXCEPT ![s] = h]
         \/ ~ NeedsPages(host[s], Now.n) /\ Skip
  /\ Kept /\ UNCHANGED staged

\* The flags of the host are set before the copies are enqueued.
SeedRng ==
  /\ InCall("seed")
  /\ \/ /\ Reseeds(call.s)
        /\ host' = [host EXCEPT ![call.s].seeded = TRUE]
        /\ Issue(call.s, Now)
     \/ ~ Reseeds(call.s) /\ Skip
  /\ Kept /\ UNCHANGED staged

CopyConfig ==
  /\ InCall("cfg")
  /\ \/ /\ Reconfigures(call.s)
        /\ host' = [host EXCEPT ![call.s].pinned = Asked(call.s), ![call.s].last = Asked(call.s),
                                ![call.s].dirty = FALSE]
        /\ Issue(call.s, Now)
     \/ ~ Reconfigures(call.s) /\ Skip
  /\ Kept /\ UNCHANGED staged

\* The length of the host is the authority; the device gets a copy.
MirrorState ==
  /\ InCall("mirror")
  /\ host' = [host EXCEPT ![call.s].len = Now.n]
  /\ Issue(call.s, Now)
  /\ Kept /\ UNCHANGED staged

StepTables ==
  /\ InCall("rows")
  /\ staged' = Now.b
  /\ Issue("group", Now)
  /\ Kept /\ UNCHANGED host

\* Record on one stream, wait on the other.
EventChain ==
  /\ InCall("wait")
  /\ Issue(Now.b[1], [Work("wait", Now.s, Len(queue[Now.s])) EXCEPT !.b = <<>>])
  /\ Kept /\ UNCHANGED <<host, staged>>

\* Steps that put nothing on a stream the model reads.
Quietly ==
  /\ InCall("pointers") \/ InCall("carve")
  /\ \/ Advance /\ UNCHANGED <<queue, faults>>
     \/ Break
  /\ Kept /\ UNCHANGED <<host, staged>>

\* cudaStreamSynchronize, and the tokens that have arrived.
Landed == IF call.c = "step" THEN group.got ELSE <<host[call.s].got>>
Arrives == call.c \in {"decode", "step"}

Generated(h) == [h EXCEPT !.len = @ + 1, !.made = @ + 1]

Stepped(h) == [h EXCEPT !.len = @ + 1]

Synchronize ==
  /\ InCall("sync")
  /\ queue[Stream] = <<>>
  /\ LET broken == Arrives /\ OutOfRange \in ToSet(Landed)
     IN  /\ call' = IF broken THEN [call EXCEPT !.todo = <<>>, !.failed = TRUE]
                    ELSE [call EXCEPT !.todo = Tail(@),
                                      !.out = IF call.c = "decode" THEN Landed[1] ELSE @]
         /\ host' = IF broken THEN host
                    ELSE [s \in Sessions |->
                            IF call.c = "decode" /\ s = call.s THEN Generated(host[s])
                            ELSE IF call.c = "step" /\ s \in ToSet(call.b) THEN Stepped(host[s])
                            ELSE host[s]]
  /\ Kept /\ UNCHANGED <<queue, staged, faults>>

InNative ==
  \/ Submit \/ EnsurePages \/ SeedRng \/ CopyConfig \/ MirrorState \/ StepTables
  \/ EventChain \/ Quietly \/ Synchronize

-----------------------------------------------------------------------------
(* The worker: what the scheduler does with the answers. *)

Returned(c) == call.c = c /\ call.todo = <<>>

Settle == UNCHANGED <<dev, queue, staged, faults>>
Answered == call' = NoCall /\ UNCHANGED host

Over(s) == stage' = [stage EXCEPT ![job[s]] = "over"]

\* Out of the group first: remove goes before what the session is needed for.
Demote(s, c) == Begin(Call(IF s \in members THEN "remove" ELSE c, s))

\* The reset that admits a job is followed by its prefill; the one that retires
\* it gives the session back.
ResetReturns ==
  /\ Returned("reset")
  /\ \/ /\ stage[job[call.s]] # "over"
        /\ Begin(Call("prefill", call.s))
        /\ UNCHANGED job
     \/ /\ stage[job[call.s]] = "over"
        /\ Answered
        /\ job' = [job EXCEPT ![call.s] = None]
  /\ Settle /\ UNCHANGED <<open, members, group, lists, stage, emitted>>

PrefillReturns ==
  /\ Returned("prefill")
  /\ Answered
  /\ IF call.failed THEN Over(call.s) /\ leaving' = <<call.s>> ELSE UNCHANGED <<stage, leaving>>
  /\ Settle /\ UNCHANGED <<open, members, group, solo, batch, job, emitted>>

\* The members of a batch that failed are stepped alone.
Fallback == IF call.failed THEN solo' = batch /\ batch' = <<>> ELSE UNCHANGED <<solo, batch>>

CreateReturns ==
  /\ Returned("create")
  /\ Answered /\ Fallback
  /\ open' = ~ call.failed
  /\ Settle /\ UNCHANGED <<members, group, leaving, job, stage, emitted>>

AddReturns ==
  /\ Returned("add")
  /\ Answered /\ Fallback
  /\ members' = IF call.failed THEN members ELSE members \cup {call.s}
  /\ Settle /\ UNCHANGED <<open, group, leaving, job, stage, emitted>>

RemoveReturns ==
  /\ Returned("remove")
  /\ members' = IF call.failed THEN members ELSE members \ {call.s}
  /\ Begin(Call(IF stage[job[call.s]] = "over" THEN "reset" ELSE "decode", call.s))
  /\ Settle /\ UNCHANGED <<open, group, lists, job, stage, emitted>>

\* Every member of b gets its token; who has its last one is over.
Feed(b, tokens) ==
  LET Fed(s) == IF s \in ToSet(b)
                THEN Append(emitted[job[s]], tokens[CHOOSE i \in DOMAIN b : b[i] = s])
                ELSE <<>>
      full == {s \in ToSet(b) : Len(Fed(s)) >= MaxNew}
  IN  /\ emitted' = [j \in Jobs |->
                       IF \E s \in ToSet(b) : job[s] = j
                       THEN Fed(CHOOSE s \in ToSet(b) : job[s] = j) ELSE emitted[j]]
      /\ stage' = [j \in Jobs |-> IF \E s \in full : job[s] = j THEN "over" ELSE stage[j]]
      /\ leaving' = IF full = {} THEN <<>> ELSE b

DecodeReturns ==
  /\ Returned("decode")
  /\ Answered
  /\ IF call.failed
     THEN Over(call.s) /\ leaving' = <<call.s>> /\ UNCHANGED emitted
     ELSE Feed(<<call.s>>, <<call.out>>)
  /\ Settle /\ UNCHANGED <<open, members, group, solo, batch, job>>

StepReturns ==
  /\ Returned("step")
  /\ Answered
  /\ batch' = <<>>
  /\ IF call.failed
     THEN solo' = batch /\ UNCHANGED <<leaving, stage, emitted>>
     ELSE Feed(batch, group.got) /\ UNCHANGED solo
  /\ Settle /\ UNCHANGED <<open, members, group, job>>

DestroyReturns ==
  /\ Returned("destroy")
  /\ Answered /\ open' = FALSE
  /\ group' = FreshGroup /\ staged' = <<>>
  /\ UNCHANGED <<dev, queue, members, lists, job, stage, emitted, faults>>

Returns ==
  \/ ResetReturns \/ PrefillReturns \/ CreateReturns \/ AddReturns \/ RemoveReturns
  \/ DecodeReturns \/ StepReturns \/ DestroyReturns

Calling == Settle /\ UNCHANGED <<open, members, group, job, stage, emitted>>

\* Who is over leaves the group and is reset before the worker goes on.
Retire ==
  /\ call = NoCall /\ leaving # <<>>
  /\ leaving' = Tail(leaving)
  /\ IF stage[job[Head(leaving)]] = "over" THEN Demote(Head(leaving), "reset")
     ELSE UNCHANGED <<call, host>>
  /\ Calling /\ UNCHANGED <<solo, batch>>

Alone ==
  /\ call = NoCall /\ leaving = <<>> /\ solo # <<>>
  /\ solo' = Tail(solo)
  /\ Demote(Head(solo), "decode")
  /\ Calling /\ UNCHANGED <<batch, leaving>>

\* The group is created when it is needed, who is not in it is added, and then
\* it is stepped.
Missing == {i \in DOMAIN batch : batch[i] \notin members}

Together ==
  /\ call = NoCall /\ leaving = <<>> /\ batch # <<>>
  /\ \/ ~ open /\ Begin(Call("create", None))
     \/ open /\ Missing # {} /\ Begin(Call("add", batch[Min(Missing)]))
     \/ open /\ Missing = {} /\ Begin(StepCall(batch))
  /\ Calling /\ UNCHANGED lists

Idle == call = NoCall /\ solo = <<>> /\ batch = <<>> /\ leaving = <<>>
Running(s) == job[s] # None /\ stage[job[s]] = "running"

\* An empty group is destroyed before the next quantum.
Tidied == ~ (open /\ members = {})

\* Nothing is called before the quantum is decided.
Decide == Idle /\ Tidied /\ Settle /\ UNCHANGED <<open, members, group, emitted>>

StartJob(j, s) ==
  /\ Decide
  /\ job[s] = None /\ stage[j] = "new"
  /\ job' = [job EXCEPT ![s] = j]
  /\ stage' = [stage EXCEPT ![j] = "running"]
  /\ Begin(Call("reset", s))
  /\ UNCHANGED lists

StepAlone(s) ==
  /\ Decide /\ Running(s)
  /\ solo' = <<s>>
  /\ UNCHANGED <<host, call, batch, leaving, job, stage>>

Merge(b) ==
  /\ Decide
  /\ \A i \in DOMAIN b : Running(b[i]) /\ Asked(b[i]) = "greedy"
  /\ \A i, k \in DOMAIN b : i # k => b[i] # b[k]
  /\ batch' = b
  /\ UNCHANGED <<host, call, solo, leaving, job, stage>>

\* Cancelled, or its end decided by the worker.
Cancel(s) ==
  /\ Decide /\ Running(s)
  /\ Over(s)
  /\ leaving' = <<s>>
  /\ UNCHANGED <<host, call, solo, batch, job>>

DestroyGroup ==
  /\ Idle /\ open /\ members = {}
  /\ Begin(Call("destroy", None))
  /\ Settle /\ UNCHANGED <<open, members, group, lists, job, stage, emitted>>

Quantum ==
  \/ \E j \in Jobs, s \in Sessions : StartJob(j, s)
  \/ \E s \in Sessions : StepAlone(s) \/ Cancel(s)
  \/ \E n \in 2 .. Cardinality(Sessions) : \E b \in [1 .. n -> Sessions] : Merge(b)
  \/ DestroyGroup

\* Every job is over and its session is back.
Finished ==
  /\ Idle /\ ~ open
  /\ \A j \in Jobs : stage[j] = "over"
  /\ \A x \in Streams : queue[x] = <<>>
  /\ UNCHANGED vars

Next == Device \/ InNative \/ Returns \/ Retire \/ Alone \/ Together \/ Quantum \/ Finished

Spec == Init /\ [][Next]_vars

-----------------------------------------------------------------------------
(* Properties. *)

\* A client is given the tokens of its own job from the end of the prompt on,
\* none twice and none left out, whichever way each of them was computed, alone,
\* in a graph or merged, and whatever was refused in between.
TokensInOrder ==
  \A j \in Jobs : \A i \in DOMAIN emitted[j] :
    emitted[j][i] = Token(j, Prompt[j] + i - 1)

\* A pass that decides a token alone does so under the sampling configuration
\* and the seed of the request the session serves at the moment.
SampledAsAsked ==
  \A s \in Sessions :
    queue[s] # <<>> /\ Head(queue[s]).op \in {"forward", "graph"}
      => dev[s].cfg = Asked(s) /\ dev[s].seed = job[s]

=============================================================================
