----------------------------- MODULE Scheduler -----------------------------
(***************************************************************************)
(* The GPU worker of rust/minicpm-scheduler: handles that submit jobs, the *)
(* single worker thread that admits them, advances every active stream     *)
(* once per quantum (alone or merged in the native batch group), delivers  *)
(* tokens through a bounded channel per job, and retires jobs into a pool  *)
(* of reusable sessions; the clients that read, drop or cancel; and the    *)
(* orderly shutdown when the last handle is dropped.                       *)
(*                                                                         *)
(* A worker action is the longest stretch of worker code that reads no     *)
(* state another thread writes after its first read: every load of a       *)
(* cancel flag, every channel send and every native call that can fail     *)
(* starts an action of its own.  Token values, timings, error texts and    *)
(* the monotone counters of the metrics registry are abstracted away; a    *)
(* content token is named by its position in the job's output.             *)
(***************************************************************************)
EXTENDS Integers, Sequences, FiniteSets

CONSTANTS
  Jobs,         \* generation jobs that may be submitted
  Greedy,       \* those whose sampling configuration is greedy
  Strict,       \* those submitted by try_generate, the others by generate
  Readers,      \* those whose client keeps reading its stream
  MaxNew,       \* max_new_tokens of every job
  Capacity,     \* SchedulerConfig::event_channel_capacity
  MaxSessions,  \* SchedulerConfig::max_sessions
  QueueLimit,   \* SchedulerConfig::queue_limit
  Batching,     \* config.batching and the engine has a batch capability
  Faults,       \* the calls that may fail in this instance
  NoJob

FaultKinds ==
  {"timeout", "create", "reset", "prefill", "decode", "group", "add", "step",
   "remove"}

ASSUME JobsAssumption ==
  /\ IsFiniteSet(Jobs)
  /\ NoJob \notin Jobs
  /\ Greedy \subseteq Jobs
  /\ Strict \subseteq Jobs
  /\ Readers \subseteq Jobs
ASSUME ConfigAssumption ==
  /\ MaxSessions \in Nat \ {0}   \* asserted by Scheduler::with_config
  /\ Capacity \in Nat \ {0}      \* asserted by Scheduler::with_config
  /\ MaxNew \in Nat \ {0}
  /\ QueueLimit \in Nat
  /\ Batching \in BOOLEAN
  /\ Faults \subseteq FaultKinds

MAX_BATCH_SLOTS == 8

\* max_batch_slots: the capacity asked of the native batch group.
BatchSlots == IF MaxSessions < MAX_BATCH_SLOTS THEN MaxSessions ELSE MAX_BATCH_SLOTS

VARIABLES
  stage,           \* where a job is in its life
  waiting,         \* SchedulerInner::waiting
  queue,           \* the job channel
  closing,         \* SchedulerInner::closing
  txOpen,          \* SchedulerInner::tx is Some
  chan,            \* per job, the events in its channel
  rx,              \* per job, whether the receiver is alive
  cancel,          \* per job, the cancel flag
  seen,            \* per job, the events its client has read
  sess,            \* ActiveGen::session (0: none)
  generated,       \* ActiveGen::generated
  pending,         \* ActiveGen::pending_tok (0: None)
  slot,            \* ActiveGen::slot_id (0: None)
  held,            \* ActiveGen::batch_held
  pc,              \* where the worker is
  togo,            \* iterations left in the loop the worker is in
  active, solo, batch,   \* worker_loop's collections of streams
  cur,             \* the stream being stepped or retired
  ret,             \* where the worker goes on after that
  fin,             \* how the stream being retired ended
  idle,            \* the idle session pool, a stack
  made,            \* sessions created so far
  group,           \* whether the batch group exists
  slots,           \* native group: session in each slot (0: free)
  activeStreams,   \* gauge MetricsRegistry::active_streams
  activeSessions,  \* gauge MetricsRegistry::active_sessions
  skips,           \* history: quanta a stream entered minus quanta it advanced
  late             \* history: tokens decoded for a job after its cancel

handleVars == <<stage, waiting, queue, closing, txOpen>>
clientVars == <<rx, cancel, seen>>
genVars    == <<sess, generated, pending, held>>
loopVars   == <<togo, solo, batch>>
poolVars   == <<idle, made>>
gaugeVars  == <<activeStreams, activeSessions>>
history    == <<skips, late>>
retireVars == <<cur, ret, fin>>
memberVars == <<slot, slots, group>>
workerVars == <<genVars, memberVars, pc, loopVars, active, retireVars, poolVars,
                gaugeVars, history>>
vars == <<handleVars, chan, clientVars, workerVars>>

Stages == {"new", "admitted", "rejected", "queued", "running", "done", "dropped"}
Finals == {"stop", "length", "cancelled", "failed"}
Events == [kind : {"token"} \cup Finals, n : Nat]
PCs    == {"admit", "sort", "solo", "scan", "form", "feed", "unbatch", "tidy",
           "step", "decode", "retire", "refuse", "shutdown", "exited"}

Event(k, n) == [kind |-> k, n |-> n]

Init ==
  /\ stage = [j \in Jobs |-> "new"]
  /\ waiting = 0
  /\ queue = <<>>
  /\ closing = FALSE
  /\ txOpen = TRUE
  /\ chan = [j \in Jobs |-> <<>>]
  /\ rx = [j \in Jobs |-> TRUE]
  /\ cancel = [j \in Jobs |-> FALSE]
  /\ seen = [j \in Jobs |-> <<>>]
  /\ sess = [j \in Jobs |-> 0]
  /\ generated = [j \in Jobs |-> 0]
  /\ pending = [j \in Jobs |-> 0]
  /\ slot = [j \in Jobs |-> 0]
  /\ held = [j \in Jobs |-> FALSE]
  /\ pc = "admit"
  /\ togo = 0
  /\ active = <<>>
  /\ solo = <<>>
  /\ batch = <<>>
  /\ cur = NoJob
  /\ ret = "admit"
  /\ fin = "stop"
  /\ idle = <<>>
  /\ made = 0
  /\ group = FALSE
  /\ slots = [k \in 1..BatchSlots |-> 0]
  /\ activeStreams = 0
  /\ activeSessions = 0
  /\ skips = [j \in Jobs |-> 0]
  /\ late = [j \in Jobs |-> 0]

-----------------------------------------------------------------------------
(* Handles *)

\* Mutated form: one place too many.
QueueHasOneMore == QueueLimit # 0 /\ waiting <= QueueLimit
\* admit()'s guard: a limit of zero refuses everything.
QueueHasRoom == QueueLimit # 0 /\ waiting < QueueLimit

\* try_generate refused: nothing is counted, nothing is queued.
Reject(j) ==
  /\ ~closing
  /\ stage[j] = "new"
  /\ j \in Strict
  /\ ~QueueHasRoom
  /\ stage' = [stage EXCEPT ![j] = "rejected"]
  /\ UNCHANGED <<waiting, queue, closing, txOpen, chan, clientVars, workerVars>>

\* Mutated form: the compatibility path forgets waiting_add_unchecked.
ForgetUnchecked(w) == IF QueueHasRoom THEN w + 1 ELSE w
Counted(w) == w + 1

\* The +1 of an accepted submission: admit() for try_generate; admit() or,
\* beyond the limit, waiting_add_unchecked() for generate.
Admit(j) ==
  /\ ~closing
  /\ stage[j] = "new"
  /\ j \in Strict => QueueHasRoom
  /\ stage' = [stage EXCEPT ![j] = "admitted"]
  /\ waiting' = Counted(waiting)
  /\ UNCHANGED <<queue, closing, txOpen, chan, clientVars, workerVars>>

\* submit_raw: the job enters the channel.
Submit(j) ==
  /\ stage[j] = "admitted"
  /\ stage' = [stage EXCEPT ![j] = "queued"]
  /\ queue' = Append(queue, j)
  /\ UNCHANGED <<waiting, closing, txOpen, chan, clientVars, workerVars>>

\* SchedulerInner::drop, first store: only the last handle runs it, so no
\* submission is under way.
Close ==
  /\ ~closing
  /\ \A j \in Jobs : stage[j] # "admitted"
  /\ closing' = TRUE
  /\ UNCHANGED <<stage, waiting, queue, txOpen, chan, clientVars, workerVars>>

\* SchedulerInner::drop, second store: the job channel is disconnected.
Disconnect ==
  /\ closing
  /\ txOpen
  /\ txOpen' = FALSE
  /\ UNCHANGED <<stage, waiting, queue, closing, chan, clientVars, workerVars>>

-----------------------------------------------------------------------------
(* Clients: the owner of the receiver and of the CancelToken *)

HasStream(j) == stage[j] \in {"queued", "running", "done", "dropped"}

Receive(j) ==
  /\ HasStream(j)
  /\ rx[j]
  /\ chan[j] # <<>>
  /\ seen' = [seen EXCEPT ![j] = Append(@, Head(chan[j]))]
  /\ chan' = [chan EXCEPT ![j] = Tail(@)]
  /\ UNCHANGED <<handleVars, rx, cancel, workerVars>>

\* Dropping the receiver discards what it has not read.
DropReceiver(j) ==
  /\ HasStream(j)
  /\ rx[j]
  /\ rx' = [rx EXCEPT ![j] = FALSE]
  /\ chan' = [chan EXCEPT ![j] = <<>>]
  /\ UNCHANGED <<handleVars, cancel, seen, workerVars>>

Cancel(j) ==
  /\ HasStream(j)
  /\ ~cancel[j]
  /\ cancel' = [cancel EXCEPT ![j] = TRUE]
  /\ UNCHANGED <<handleVars, chan, rx, seen, workerVars>>

-----------------------------------------------------------------------------
(* Event channel *)

HasRoom(j) == Len(chan[j]) < Capacity

\* Mutated forms: every terminal event is sent with try_send; none is.
NeverBlock == TRUE
AlwaysBlock == FALSE
\* RetireMode::Shutdown: nothing blocks the worker any more.
Stopping == ret = "shutdown"

\* A send may return: the channel has room or is closed; a try_send always.
CanSend(j) == Stopping \/ HasRoom(j) \/ ~rx[j]

\* The channel after the send: the event is lost when the receiver is gone, or
\* when a try_send finds no room.
Sent(j, e) ==
  IF rx[j] /\ HasRoom(j) THEN [chan EXCEPT ![j] = Append(@, e)] ELSE chan

-----------------------------------------------------------------------------
(* Native batch group *)

\* slot_id.take() and group.remove(slot), whose error is ignored: the stream
\* forgets its slot even when the group keeps the session.
LeaveGroup(j) ==
  /\ slot' = [slot EXCEPT ![j] = 0]
  /\ \/ slots' = IF slot[j] = 0 THEN slots ELSE [slots EXCEPT ![slot[j]] = 0]
     \/ "remove" \in Faults /\ slots' = slots

FreeSlots == {k \in 1..BatchSlots : slots[k] = 0}
FirstFree == CHOOSE k \in FreeSlots : \A m \in FreeSlots : k <= m
InGroup(s) == \E k \in 1..BatchSlots : slots[k] = s

-----------------------------------------------------------------------------
(* Session pool *)

LastOf(s) == s[Len(s)]
AllButLast(s) == SubSeq(s, 1, Len(s) - 1)

\* Mutated form: the guard loses one place.
TightPoolHasRoom == Len(idle) + Len(active) + 1 < MaxSessions
PoolHasRoom == Len(idle) + Len(active) < MaxSessions

\* return_session: a session the pool has no room for is destroyed.
ReturnSession(s) ==
  idle' = IF PoolHasRoom THEN Append(idle, s) ELSE idle

-----------------------------------------------------------------------------
(* Admission: once per quantum, at most one job *)

\* recv and try_recv report that every sender is gone.
Disconnected == ~txOpen

CanIntake == pc = "admit" /\ Len(active) < MaxSessions /\ queue # <<>>

\* intake's opening: the job leaves the queue, is counted out of `waiting`
\* and into active_streams.
TakeJob ==
  /\ queue' = Tail(queue)
  /\ waiting' = waiting - 1
  /\ activeStreams' = activeStreams + 1
  /\ stage' = [stage EXCEPT ![Head(queue)] = "running"]
  /\ UNCHANGED <<closing, txOpen, chan, clientVars, memberVars, solo, batch>>

\* idle.pop(), or create_session when the pool is empty.
TakeSession ==
  IF idle # <<>>
  THEN /\ sess' = [sess EXCEPT ![Head(queue)] = LastOf(idle)]
       /\ idle' = AllButLast(idle)
       /\ UNCHANGED made
  ELSE /\ sess' = [sess EXCEPT ![Head(queue)] = made + 1]
       /\ made' = made + 1
       /\ UNCHANGED idle

\* The job goes to fail_intake.
RefuseJob ==
  /\ pc' = "refuse"
  /\ cur' = Head(queue)
  /\ UNCHANGED <<active, togo, activeSessions>>

\* The job waited longer than queue_timeout, or no session could be created:
\* it never holds a session.
IntakeWithoutSession ==
  /\ CanIntake
  /\ \/ "timeout" \in Faults
     \/ "create" \in Faults /\ idle = <<>>
  /\ TakeJob
  /\ RefuseJob
  /\ UNCHANGED <<genVars, ret, fin, poolVars, skips, late>>

\* The admission reset, or the prefill, failed.
IntakeFails ==
  /\ CanIntake
  /\ Faults \cap {"reset", "prefill"} # {}
  /\ TakeJob
  /\ TakeSession
  /\ RefuseJob
  /\ UNCHANGED <<generated, pending, held, ret, fin, skips, late>>

\* Reset and prefill succeed: the stream joins the active set, and the quantum
\* starts.
Intake ==
  /\ CanIntake
  /\ TakeJob
  /\ TakeSession
  /\ active' = Append(active, Head(queue))
  /\ activeSessions' = Len(active')
  /\ pc' = "sort"
  /\ togo' = Len(active')
  /\ UNCHANGED <<generated, pending, held, retireVars, skips, late>>

\* Mutated form: a job refused at admission stays in the gauge.
StillStreaming(n) == n
StreamOver(n) == n - 1

\* fail_intake: the Failed event is sent with blocking_send.
Refuse ==
  /\ pc = "refuse"
  /\ CanSend(cur)
  /\ activeStreams' = StreamOver(activeStreams)
  /\ chan' = Sent(cur, Event("failed", 0))
  /\ IF sess[cur] # 0 THEN ReturnSession(sess[cur]) ELSE UNCHANGED idle
  /\ sess' = [sess EXCEPT ![cur] = 0]
  /\ stage' = [stage EXCEPT ![cur] = "done"]
  /\ cur' = NoJob
  /\ pc' = "sort"
  /\ togo' = Len(active)
  /\ UNCHANGED <<waiting, queue, closing, txOpen, clientVars, generated, pending,
                 held, memberVars, solo, batch, active, ret, fin, made,
                 activeSessions, skips, late>>

\* Nothing to admit, or no place for it: the quantum starts at once.
SkipIntake ==
  /\ pc = "admit"
  /\ active # <<>>
  /\ IF Len(active) < MaxSessions THEN queue = <<>> /\ ~Disconnected ELSE ~closing
  /\ pc' = "sort"
  /\ togo' = Len(active)
  /\ UNCHANGED <<handleVars, chan, clientVars, genVars, memberVars, solo, batch,
                 active, retireVars, poolVars, gaugeVars, history>>

-----------------------------------------------------------------------------
(* Quantum: sort the active streams *)

\* The history of skipped quanta is kept up to a bound no stream may reach.
SkipBound == 3
Entered(n) == IF n < SkipBound THEN n + 1 ELSE n

WantBatch(j) == Batching /\ pending[j] = 0 /\ j \in Greedy

\* One iteration of the sorting loop: into the batch segment, or out of the
\* group and into the solo segment.
SortIntoBatch ==
  /\ pc = "sort"
  /\ togo > 0
  /\ WantBatch(Head(active))
  /\ Len(batch) < BatchSlots
  /\ batch' = Append(batch, Head(active))
  /\ active' = Tail(active)
  /\ togo' = togo - 1
  /\ skips' = [skips EXCEPT ![Head(active)] = Entered(@)]
  /\ UNCHANGED <<handleVars, chan, clientVars, genVars, memberVars, pc, solo,
                 retireVars, poolVars, gaugeVars, late>>

SortIntoSolo ==
  /\ pc = "sort"
  /\ togo > 0
  /\ ~(WantBatch(Head(active)) /\ Len(batch) < BatchSlots)
  /\ LeaveGroup(Head(active))
  /\ solo' = Append(solo, Head(active))
  /\ active' = Tail(active)
  /\ togo' = togo - 1
  /\ skips' = [skips EXCEPT ![Head(active)] = Entered(@)]
  /\ UNCHANGED <<handleVars, chan, clientVars, genVars, group, pc, batch,
                 retireVars, poolVars, gaugeVars, late>>

\* Mutated form: the quantum a stream sat out is not recorded.
ForgetHeld(j) == UNCHANGED held
MarkHeld(j) == held' = [held EXCEPT ![j] = TRUE]

\* A lone batchable stream that never waited sits this quantum out.
HoldLone ==
  /\ pc = "sort"
  /\ togo = 0
  /\ Len(batch) = 1
  /\ ~held[Head(batch)]
  /\ MarkHeld(Head(batch))
  /\ active' = Append(active, Head(batch))
  /\ batch' = <<>>
  /\ pc' = "solo"
  /\ UNCHANGED <<handleVars, chan, clientVars, sess, generated, pending, memberVars,
                 togo, solo, retireVars, poolVars, gaugeVars, history>>

\* One that did wait goes alone.
LoneToSolo ==
  /\ pc = "sort"
  /\ togo = 0
  /\ Len(batch) = 1
  /\ held[Head(batch)]
  /\ LeaveGroup(Head(batch))
  /\ solo' = Append(solo, Head(batch))
  /\ batch' = <<>>
  /\ pc' = "solo"
  /\ UNCHANGED <<handleVars, chan, clientVars, genVars, group, togo, active,
                 retireVars, poolVars, gaugeVars, history>>

EndSort ==
  /\ pc = "sort"
  /\ togo = 0
  /\ Len(batch) # 1
  /\ pc' = "solo"
  /\ UNCHANGED <<handleVars, chan, clientVars, genVars, memberVars, loopVars,
                 active, retireVars, poolVars, gaugeVars, history>>

-----------------------------------------------------------------------------
(* One step of one stream *)

\* The stream goes back to the end of the active set (Continue and Yield).
PushBack(j, back) ==
  /\ active' = Append(active, j)
  /\ cur' = NoJob
  /\ ret' = "admit"
  /\ fin' = "stop"
  /\ pc' = back
  /\ UNCHANGED memberVars

\* retire's opening: the stream leaves the group before anything else.
StartRetire(j, why, back) ==
  /\ LeaveGroup(j)
  /\ cur' = j
  /\ fin' = why
  /\ ret' = back
  /\ pc' = "retire"
  /\ UNCHANGED <<active, group>>

\* The length limit, checked after each token that was sent.
AtLimit(n) == n >= MaxNew

\* Mutated form: a token that finds the channel full is thrown away.
ForgetToken(j, n) == pending' = pending
\* pending_tok: the token that found the channel full waits for the next quantum.
StashToken(j, n) == pending' = [pending EXCEPT ![j] = n]

\* feed_token: what becomes of the token that a decode step of j produced.
FeedToken(j, back) ==
  \/ \* an eos token: neither sent nor counted
     /\ StartRetire(j, "stop", back)
     /\ UNCHANGED <<chan, generated, pending, late>>
  \/ \* a content token
     /\ generated' = [generated EXCEPT ![j] = @ + 1]
     /\ late' = [late EXCEPT ![j] = IF cancel[j] THEN @ + 1 ELSE @]
     /\ \/ /\ ~rx[j]
           /\ StartRetire(j, "cancelled", back)
           /\ UNCHANGED <<chan, pending>>
        \/ /\ rx[j]
           /\ ~HasRoom(j)
           /\ StashToken(j, generated'[j])
           /\ PushBack(j, back)
           /\ UNCHANGED chan
        \/ /\ rx[j]
           /\ HasRoom(j)
           /\ chan' = [chan EXCEPT ![j] = Append(@, Event("token", generated'[j]))]
           /\ UNCHANGED pending
           /\ IF AtLimit(generated'[j]) THEN StartRetire(j, "length", back)
                                        ELSE PushBack(j, back)

\* The solo segment, one stream at a time.
NextSolo ==
  /\ pc = "solo"
  /\ solo # <<>>
  /\ cur' = Head(solo)
  /\ solo' = Tail(solo)
  /\ skips' = [skips EXCEPT ![Head(solo)] = @ - 1]
  /\ ret' = "solo"
  /\ pc' = "step"
  /\ UNCHANGED <<handleVars, chan, clientVars, genVars, memberVars, togo, batch,
                 active, fin, poolVars, gaugeVars, late>>

\* step(), the cancel check.
StepCancelled ==
  /\ pc = "step"
  /\ cancel[cur]
  /\ StartRetire(cur, "cancelled", ret)
  /\ UNCHANGED <<handleVars, chan, clientVars, genVars, loopVars, poolVars,
                 gaugeVars, history>>

\* step(), the token owed from an earlier quantum: the receiver is gone, the
\* channel is still full, or the token goes out and the limit is checked.
ResendClosed ==
  /\ pc = "step"
  /\ ~cancel[cur]
  /\ pending[cur] # 0
  /\ ~rx[cur]
  /\ pending' = [pending EXCEPT ![cur] = 0]
  /\ StartRetire(cur, "cancelled", ret)
  /\ UNCHANGED <<handleVars, chan, clientVars, sess, generated, held, loopVars,
                 poolVars, gaugeVars, history>>

ResendFull ==
  /\ pc = "step"
  /\ ~cancel[cur]
  /\ pending[cur] # 0
  /\ rx[cur]
  /\ ~HasRoom(cur)
  /\ PushBack(cur, ret)
  /\ UNCHANGED <<handleVars, chan, clientVars, genVars, loopVars, poolVars,
                 gaugeVars, history>>

\* Mutated form: the limit is not checked again once the owed token is sent.
NoRecheck(j) == FALSE
\* The limit, checked again once the owed token is sent.
OwedWasLast(j) == AtLimit(generated[j])

Resend ==
  /\ pc = "step"
  /\ ~cancel[cur]
  /\ pending[cur] # 0
  /\ rx[cur]
  /\ HasRoom(cur)
  /\ chan' = [chan EXCEPT ![cur] = Append(@, Event("token", pending[cur]))]
  /\ pending' = [pending EXCEPT ![cur] = 0]
  /\ IF OwedWasLast(cur)
     THEN StartRetire(cur, "length", ret)
     ELSE pc' = "decode" /\ UNCHANGED <<active, retireVars, memberVars>>
  /\ UNCHANGED <<handleVars, clientVars, sess, generated, held, loopVars, poolVars,
                 gaugeVars, history>>

\* Not cancelled, nothing owed: on to decode_one.
StepOn ==
  /\ pc = "step"
  /\ ~cancel[cur]
  /\ pending[cur] = 0
  /\ pc' = "decode"
  /\ UNCHANGED <<handleVars, chan, clientVars, genVars, memberVars, loopVars,
                 active, retireVars, poolVars, gaugeVars, history>>

DecodeOne ==
  /\ pc = "decode"
  /\ FeedToken(cur, ret)
  /\ UNCHANGED <<handleVars, clientVars, sess, held, loopVars, poolVars, gaugeVars,
                 skips>>

DecodeFails ==
  /\ pc = "decode"
  /\ "decode" \in Faults
  /\ StartRetire(cur, "failed", ret)
  /\ UNCHANGED <<handleVars, chan, clientVars, genVars, loopVars, poolVars,
                 gaugeVars, history>>

\* The solo segment is over.  The cancel scan walks the batch only when it has
\* two members or more.
EndSolo ==
  /\ pc = "solo"
  /\ solo = <<>>
  /\ IF Len(batch) >= 2 THEN pc' = "scan" /\ togo' = Len(batch)
                        ELSE pc' = "unbatch" /\ UNCHANGED togo
  /\ UNCHANGED <<handleVars, chan, clientVars, genVars, memberVars, solo, batch,
                 active, retireVars, poolVars, gaugeVars, history>>

-----------------------------------------------------------------------------
(* The batch segment *)

\* Mutated form: the batch path never looks at the cancel flag.
BlindToCancel(j) == FALSE
CancelSeen(j) == cancel[j]

\* One iteration of the cancel scan.  Every member is examined once, so moving
\* the ones that stay to the back keeps their order.
ScanKeep ==
  /\ pc = "scan"
  /\ togo > 0
  /\ ~CancelSeen(Head(batch))
  /\ batch' = Append(Tail(batch), Head(batch))
  /\ togo' = togo - 1
  /\ UNCHANGED <<handleVars, chan, clientVars, genVars, memberVars, pc, solo, active,
                 retireVars, poolVars, gaugeVars, history>>

ScanCancelled ==
  /\ pc = "scan"
  /\ togo > 0
  /\ CancelSeen(Head(batch))
  /\ StartRetire(Head(batch), "cancelled", "scan")
  /\ batch' = Tail(batch)
  /\ togo' = togo - 1
  /\ UNCHANGED <<handleVars, chan, clientVars, genVars, solo, poolVars, gaugeVars,
                 history>>

EndScan ==
  /\ pc = "scan"
  /\ togo = 0
  /\ pc' = IF Len(batch) >= 2 THEN "form" ELSE "unbatch"
  /\ UNCHANGED <<handleVars, chan, clientVars, genVars, memberVars, loopVars,
                 active, retireVars, poolVars, gaugeVars, history>>

\* The group is created when it is first needed.
CreateGroup ==
  /\ pc = "form"
  /\ ~group
  /\ group' = TRUE
  /\ UNCHANGED <<handleVars, chan, clientVars, genVars, slot, slots, pc, loopVars,
                 active, retireVars, poolVars, gaugeVars, history>>

Outside == {i \in 1..Len(batch) : slot[batch[i]] = 0}
NextToAdd == batch[CHOOSE i \in Outside : \A m \in Outside : i <= m]

\* BatchGroup::add gives the lowest free slot; it refuses a session that is in
\* a group already, and refuses everything when the group is full.
AddMember ==
  /\ pc = "form"
  /\ group
  /\ Outside # {}
  /\ ~InGroup(sess[NextToAdd])
  /\ FreeSlots # {}
  /\ slot' = [slot EXCEPT ![NextToAdd] = FirstFree]
  /\ slots' = [slots EXCEPT ![FirstFree] = sess[NextToAdd]]
  /\ UNCHANGED <<handleVars, chan, clientVars, genVars, group, pc, loopVars, active,
                 retireVars, poolVars, gaugeVars, history>>

\* create_batch_group, an add or the merged step failed: every member falls
\* back to a solo step in this quantum.
Fallback ==
  /\ pc = "form"
  /\ \/ ~group /\ "group" \in Faults
     \/ /\ group
        /\ Outside # {}
        /\ \/ "add" \in Faults
           \/ InGroup(sess[NextToAdd])
           \/ FreeSlots = {}
     \/ group /\ Outside = {} /\ "step" \in Faults
  /\ pc' = "unbatch"
  /\ UNCHANGED <<handleVars, chan, clientVars, genVars, memberVars, loopVars,
                 active, retireVars, poolVars, gaugeVars, history>>

\* BatchGroup::step advances every member by one token.
BatchStep ==
  /\ pc = "form"
  /\ group
  /\ Outside = {}
  /\ pc' = "feed"
  /\ UNCHANGED <<handleVars, chan, clientVars, genVars, memberVars, loopVars,
                 active, retireVars, poolVars, gaugeVars, history>>

FeedNext ==
  /\ pc = "feed"
  /\ batch # <<>>
  /\ batch' = Tail(batch)
  /\ skips' = [skips EXCEPT ![Head(batch)] = @ - 1]
  /\ FeedToken(Head(batch), "feed")
  /\ UNCHANGED <<handleVars, clientVars, sess, held, togo, solo, poolVars, gaugeVars>>

\* Mutated form: the fallback forgets demote_from_group.
StayInGroup(j) == UNCHANGED <<slot, slots>>
Demote(j) == LeaveGroup(j)

\* The members of a batch that did not run: fallback, or fewer than two left.
NextUnbatched ==
  /\ pc = "unbatch"
  /\ batch # <<>>
  /\ Demote(Head(batch))
  /\ cur' = Head(batch)
  /\ batch' = Tail(batch)
  /\ skips' = [skips EXCEPT ![Head(batch)] = @ - 1]
  /\ ret' = "unbatch"
  /\ pc' = "step"
  /\ UNCHANGED <<handleVars, chan, clientVars, genVars, group, togo, solo, active,
                 fin, poolVars, gaugeVars, late>>

EndBatch ==
  /\ pc \in {"feed", "unbatch"}
  /\ batch = <<>>
  /\ pc' = "tidy"
  /\ UNCHANGED <<handleVars, chan, clientVars, genVars, memberVars, loopVars,
                 active, retireVars, poolVars, gaugeVars, history>>

NoMembers == \A i \in 1..Len(active) : slot[active[i]] = 0

\* End of the quantum: a group no stream belongs to is destroyed.
Tidy ==
  /\ pc = "tidy"
  /\ IF group /\ NoMembers
     THEN group' = FALSE /\ slots' = [k \in 1..BatchSlots |-> 0]
     ELSE UNCHANGED <<group, slots>>
  /\ pc' = "admit"
  /\ UNCHANGED <<handleVars, chan, clientVars, genVars, slot, loopVars, active,
                 retireVars, poolVars, gaugeVars, history>>

-----------------------------------------------------------------------------
(* Retirement *)

\* The owed token goes out before the terminal event.
FlushOwed ==
  /\ pc = "retire"
  /\ pending[cur] # 0
  /\ CanSend(cur)
  /\ chan' = Sent(cur, Event("token", pending[cur]))
  /\ pending' = [pending EXCEPT ![cur] = 0]
  /\ UNCHANGED <<handleVars, clientVars, sess, generated, held, memberVars, pc,
                 loopVars, active, retireVars, poolVars, gaugeVars, history>>

\* Usage::completion_tokens of the Done event; Failed carries none.
FinalEvent(j) == Event(fin, IF fin = "failed" THEN 0 ELSE generated[j])

\* Mutated form: nothing is owed when a stream retires.
NothingOwed(j) == TRUE
Settled(j) == pending[j] = 0

\* The terminal event, the second reset, the session's return to the pool.
FinishRetire ==
  /\ pc = "retire"
  /\ Settled(cur)
  /\ CanSend(cur)
  /\ chan' = Sent(cur, FinalEvent(cur))
  /\ activeStreams' = activeStreams - 1
  /\ ReturnSession(sess[cur])
  /\ sess' = [sess EXCEPT ![cur] = 0]
  /\ activeSessions' = Len(active)
  /\ stage' = [stage EXCEPT ![cur] = "done"]
  /\ cur' = NoJob
  /\ pc' = ret
  /\ ret' = IF ret = "shutdown" THEN ret ELSE "admit"
  /\ fin' = "stop"
  /\ UNCHANGED <<waiting, queue, closing, txOpen, clientVars, generated, pending,
                 held, memberVars, loopVars, active, made, skips, late>>

-----------------------------------------------------------------------------
(* Orderly shutdown *)

\* The channel is disconnected, or the active set is full and the closing flag
\* is up: the active streams are ended one by one.
BeginShutdown ==
  /\ pc = "admit"
  /\ active # <<>>
  /\ IF Len(active) < MaxSessions THEN queue = <<>> /\ Disconnected ELSE closing
  /\ pc' = "shutdown"
  /\ ret' = "shutdown"
  /\ UNCHANGED <<handleVars, chan, clientVars, genVars, memberVars, loopVars, active,
                 cur, fin, poolVars, gaugeVars, history>>

ShutdownNext ==
  /\ pc = "shutdown"
  /\ active # <<>>
  /\ LeaveGroup(Head(active))
  /\ active' = Tail(active)
  /\ cur' = Head(active)
  /\ fin' = "failed"
  /\ pc' = "retire"
  /\ UNCHANGED <<handleVars, chan, clientVars, genVars, group, loopVars, ret,
                 poolVars, gaugeVars, history>>

\* The worker destroys the group and the sessions; jobs still in the channel
\* are dropped with it, and their clients see the stream end.
Exit ==
  /\ \/ pc = "shutdown" /\ active = <<>>
     \/ pc = "admit" /\ active = <<>> /\ queue = <<>> /\ Disconnected
  /\ group' = FALSE
  /\ slots' = [k \in 1..BatchSlots |-> 0]
  /\ idle' = <<>>
  /\ queue' = <<>>
  /\ stage' = [j \in Jobs |-> IF stage[j] = "queued" THEN "dropped" ELSE stage[j]]
  /\ activeSessions' = 0
  /\ pc' = "exited"
  /\ UNCHANGED <<waiting, closing, txOpen, chan, clientVars, genVars, slot, loopVars,
                 active, retireVars, made, activeStreams, history>>

\* The process goes on without the worker: nothing is left to do.
Exited == pc = "exited" /\ UNCHANGED vars

-----------------------------------------------------------------------------
Handles == Close \/ Disconnect \/ \E j \in Jobs : Reject(j) \/ Admit(j) \/ Submit(j)

Clients == \E j \in Jobs : Receive(j) \/ DropReceiver(j) \/ Cancel(j)

Worker ==
  \/ IntakeWithoutSession \/ IntakeFails \/ Intake \/ Refuse \/ SkipIntake
  \/ SortIntoBatch \/ SortIntoSolo \/ HoldLone \/ LoneToSolo \/ EndSort
  \/ NextSolo \/ StepCancelled \/ ResendClosed \/ ResendFull \/ Resend \/ StepOn
  \/ DecodeOne \/ DecodeFails \/ EndSolo
  \/ ScanKeep \/ ScanCancelled \/ EndScan
  \/ CreateGroup \/ AddMember \/ Fallback \/ BatchStep \/ FeedNext
  \/ NextUnbatched \/ EndBatch \/ Tidy
  \/ FlushOwed \/ FinishRetire
  \/ BeginShutdown \/ ShutdownNext \/ Exit

Next == Handles \/ Clients \/ Worker \/ Exited

Spec == Init /\ [][Next]_vars

\* The worker is a thread that only its own blocking calls stop; a submission
\* and a drop, once begun, are finished; the clients in Readers keep reading.
Fairness ==
  /\ WF_vars(Worker)
  /\ WF_vars(Disconnect)
  /\ \A j \in Jobs : WF_vars(Submit(j))
  /\ \A j \in Readers : WF_vars(Receive(j))

FairSpec == Spec /\ Fairness

-----------------------------------------------------------------------------
(* Refinement: an event stream per job, behind an admission gate *)

Phase ==
  [j \in Jobs |->
     CASE stage[j] \in {"new", "admitted", "rejected"} -> "none"
       [] stage[j] \in {"queued", "running"}           -> "open"
       [] stage[j] \in {"done", "dropped"}             -> "ended"]

ES == INSTANCE EventStream WITH Streams <- Jobs, phase <- Phase, alive <- rx

\* The handles, the worker and the clients together implement the protocol of
\* one bounded event stream per job, and nothing else about them can be seen
\* through the receivers.
StreamProtocol == ES!Spec

Verdict ==
  [j \in Jobs |->
     CASE stage[j] = "new"                              -> "none"
       [] stage[j] = "rejected"                         -> "refused"
       [] stage[j] \in {"admitted", "queued", "dropped"} -> "counted"
       [] stage[j] \in {"running", "done"}              -> "taken"]

Gate == INSTANCE AdmissionGate WITH verdict <- Verdict

\* The handles' side and the worker's intake, on every path through it, keep
\* the counter as the admission gate does.
AdmissionGated == Gate!Spec

-----------------------------------------------------------------------------
(* Properties *)

Members(s) == {s[i] : i \in 1..Len(s)}

\* The type of the state: in particular the atomic counters never go negative.
TypeOK ==
  /\ stage \in [Jobs -> Stages]
  /\ waiting \in Nat
  /\ queue \in Seq(Jobs)
  /\ closing \in BOOLEAN
  /\ txOpen \in BOOLEAN
  /\ chan \in [Jobs -> Seq(Events)]
  /\ rx \in [Jobs -> BOOLEAN]
  /\ cancel \in [Jobs -> BOOLEAN]
  /\ seen \in [Jobs -> Seq(Events)]
  /\ sess \in [Jobs -> Nat]
  /\ generated \in [Jobs -> Nat]
  /\ pending \in [Jobs -> Nat]
  /\ slot \in [Jobs -> 0..BatchSlots]
  /\ held \in [Jobs -> BOOLEAN]
  /\ pc \in PCs
  /\ togo \in Nat
  /\ active \in Seq(Jobs)
  /\ solo \in Seq(Jobs)
  /\ batch \in Seq(Jobs)
  /\ cur \in Jobs \cup {NoJob}
  /\ ret \in {"admit", "solo", "scan", "feed", "unbatch", "shutdown"}
  /\ fin \in Finals
  /\ idle \in Seq(Nat)
  /\ made \in Nat
  /\ group \in BOOLEAN
  /\ slots \in [1..BatchSlots -> Nat]
  /\ activeStreams \in Nat
  /\ activeSessions \in Nat
  /\ skips \in [Jobs -> Int]
  /\ late \in [Jobs -> Nat]

\* The sessions that some stream holds: in the active set, in a segment of the
\* quantum under way, or in the worker's hands.
HeldSessions ==
  Len(active) + Len(solo) + Len(batch)
    + (IF cur # NoJob /\ (pc = "refuse" => sess[cur] # 0) THEN 1 ELSE 0)

\* Every session ever created is in the pool or held by one stream, and there
\* are at most max_sessions of them: no path of intake, fail_intake, retire or
\* shutdown loses a session or creates one too many, whatever fails.
PoolConserved ==
  pc # "exited" => /\ made <= MaxSessions
                   /\ Len(idle) + HeldSessions = made

\* Invariant 4 of worker_loop: a session the native group holds is never used
\* alone (decoded, reset, returned to the pool), nor kept by a stream that is
\* about to be.
NoSoloUseInGroup ==
  /\ cur # NoJob /\ sess[cur] # 0 => ~InGroup(sess[cur])
  /\ \A j \in Members(solo) : ~InGroup(sess[j])
  /\ \A s \in Members(idle) : ~InGroup(s)

Stream(j) == seen[j] \o chan[j]

\* What a client that stays has been sent is the tokens 1, 2, ... without a gap
\* or a repetition, then at most one terminal event; the usage a Done event
\* reports is the number of tokens that precede it (counted => delivered).
StreamInOrder ==
  \A j \in Jobs : rx[j] =>
    \A i \in 1..Len(Stream(j)) :
      IF Stream(j)[i].kind = "token"
      THEN Stream(j)[i].n = i
      ELSE /\ i = Len(Stream(j))
           /\ stage[j] = "done"
           /\ Stream(j)[i].kind # "failed" => Stream(j)[i].n = i - 1

\* A job retired in service has told its client how it ended.
EndingTold ==
  \A j \in Jobs :
    stage[j] = "done" /\ rx[j] /\ ~closing =>
      Stream(j) # <<>> /\ LastOf(Stream(j)).kind \in Finals

\* No decode step is spent on a stream that has its max_new_tokens, whichever
\* path sent the last of them.
NoDecodePastLimit ==
  /\ pc = "decode" => generated[cur] < MaxNew
  /\ pc = "feed" => \A j \in Members(batch) : generated[j] < MaxNew

\* Round robin: each quantum advances every active stream by one step, except
\* that a lone batchable stream may sit out one quantum in its whole life.
EveryQuantumServes ==
  pc = "admit" => \A j \in Members(active) : skips[j] = IF held[j] THEN 1 ELSE 0

\* A cancelled job costs at most the decode step that was under way.
CancelWithinOneStep == \A j \in Jobs : late[j] <= 1

\* Between quanta the active_streams gauge counts the active set.
StreamGaugeExact == pc = "admit" => activeStreams = Len(active)

\* Every client goes on reading its events.
AllRead == \A j \in Jobs : WF_vars(Receive(j))

\* Among clients that read, a job that was queued ends, or the worker has gone.
EveryJobEnds ==
  AllRead => \A j \in Jobs : stage[j] = "queued" ~> stage[j] \in {"done", "dropped"}

\* The clients read as long as the worker is not in its orderly shutdown.
InShutdown == pc = "shutdown" \/ (pc = "retire" /\ ret = "shutdown")
ReadUntilShutdown == \A j \in Jobs : WF_vars(~InShutdown /\ Receive(j))

\* The last handle's drop, which joins the worker, returns: clients that have
\* stopped reading cannot hold up a worker that has begun to shut down.
ShutdownCompletes == ReadUntilShutdown => (closing ~> pc = "exited")

\* A slow consumer delays only itself: the streams of the clients that read end,
\* whatever the other clients do.
ReadersAreServed ==
  \A j \in Readers : stage[j] = "running" ~> stage[j] \in {"done", "dropped"}

=============================================================================
