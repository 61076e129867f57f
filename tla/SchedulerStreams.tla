------------------------- MODULE SchedulerStreams -------------------------
(***************************************************************************)
(* What the clients of Scheduler see, proved for every number of jobs,     *)
(* every channel capacity and every set of faults: the events of a job     *)
(* come in order, counted and with an ending, and the scheduler as a whole *)
(* implements the protocol of one bounded event stream per job.            *)
(***************************************************************************)
EXTENDS SchedulerProofs, SequenceTheorems

-----------------------------------------------------------------------------
(* The invariant *)

\* The token a stream owes: decoded, and not yet sent.
Owes(j) == IF pending[j] = 0 THEN 0 ELSE 1

\* The orderly shutdown ends the stream; what it owes may be lost.
CutShort(j) == pc = "retire" /\ cur = j /\ ret = "shutdown"
GivenUp(j)  == CutShort(j) /\ pending[j] = 0

\* What was decoded for a job whose client stays was sent or is owed, and what
\* is owed is the last that was decoded.
Account ==
  /\ \A j \in Jobs : pending[j] # 0 => pending[j] = generated[j]
  /\ \A j \in Jobs : rx[j] /\ stage[j] # "done" /\ ~GivenUp(j) =>
       generated[j] = Len(seen[j]) + Len(chan[j]) + Owes(j)
  /\ pc = "decode" => pending[cur] = 0

\* The worker shuts down once the last handle is gone, and tells the streams
\* it cuts short that they failed.
Orderly ==
  /\ ret = "shutdown" => closing
  /\ \A j \in Jobs : CutShort(j) => fin = "failed"
  /\ ~txOpen => closing

-----------------------------------------------------------------------------
(* What a step does to a stream *)

\* No event is sent and none is read; a job may be submitted, admitted to
\* service, or dropped with the queue.
Quiet ==
  /\ UNCHANGED <<chan, seen, rx, generated, pending>>
  /\ \A j \in Jobs : stage'[j] = "done" <=> stage[j] = "done"

\* A token was decoded, or was owed, and goes out.
Sends(j) ==
  /\ stage[j] = "running" /\ rx[j] /\ HasRoom(j) /\ ~GivenUp(j)
  /\ chan' = [chan EXCEPT ![j] = Append(chan[j], Event("token", generated'[j]))]
  /\ generated'[j] = generated[j] + 1 - Owes(j)
  /\ pending'[j] = 0
  /\ \A i \in Jobs \ {j} : generated'[i] = generated[i] /\ pending'[i] = pending[i]
  /\ UNCHANGED <<seen, rx, stage>>

\* A token was decoded, or was owed, and does not go out: the channel is full, or
\* has no receiver any more, or the stream is cut short.
Keeps(j) ==
  /\ stage[j] = "running"
  /\ \/ /\ rx[j] /\ pending[j] = 0
        /\ generated'[j] = generated[j] + 1 /\ pending'[j] = generated'[j]
     \/ ~rx[j] /\ (pending'[j] = 0 \/ pending'[j] = generated'[j])
     \/ CutShort(j) /\ pending'[j] = 0
  /\ \A i \in Jobs \ {j} : generated'[i] = generated[i] /\ pending'[i] = pending[i]
  /\ UNCHANGED <<chan, seen, rx, stage>>

\* The terminal event, which a receiver that stays misses at most in a shutdown.
Finishes(j, e) ==
  /\ stage[j] = "running"
  /\ stage' = [stage EXCEPT ![j] = "done"]
  /\ e \in {Event(k, generated[j]) : k \in {"stop", "length", "cancelled"}}
           \cup {Event("failed", 0)}
  /\ e.kind # "failed" => pending[j] = 0 /\ ~CutShort(j)
  /\ chan' = Sent(j, e)
  /\ rx[j] /\ ~HasRoom(j) => closing
  /\ UNCHANGED <<seen, rx, generated, pending>>

Reads(j) ==
  /\ HasStream(j) /\ rx[j] /\ chan[j] # <<>>
  /\ seen' = [seen EXCEPT ![j] = Append(seen[j], Head(chan[j]))]
  /\ chan' = [chan EXCEPT ![j] = Tail(chan[j])]
  /\ UNCHANGED <<rx, generated, pending, stage>>

Leaves(j) ==
  /\ HasStream(j) /\ rx[j]
  /\ rx' = [rx EXCEPT ![j] = FALSE]
  /\ chan' = [chan EXCEPT ![j] = <<>>]
  /\ UNCHANGED <<seen, generated, pending, stage>>

StreamStep ==
  \/ Quiet
  \/ \E j \in Jobs : Sends(j) \/ Keeps(j) \/ Reads(j) \/ Leaves(j)
  \/ \E j \in Jobs, e \in Events : Finishes(j, e)

\* A decode step of a stream that owes nothing.
LEMMA FeedStep ==
  ASSUME TypeOK, NEW j \in Jobs, NEW back, FeedToken(j, back), pending[j] = 0,
         stage[j] = "running", pc # "retire", UNCHANGED <<seen, rx, stage>>
  PROVE  StreamStep
<1>1. generated \in [Jobs -> Nat] /\ pending \in [Jobs -> Nat] /\ chan \in [Jobs -> Seq(Events)]
  BY DEF TypeOK
<1>2. Owes(j) = 0
  BY DEF Owes
<1>3. CASE UNCHANGED <<chan, generated, pending>>
  BY <1>3 DEF StreamStep, Quiet
<1>4. CASE /\ generated' = [generated EXCEPT ![j] = generated[j] + 1]
           /\ ~rx[j] /\ UNCHANGED <<chan, pending>>
  BY <1>1, <1>4 DEF StreamStep, Keeps
<1>5. CASE /\ generated' = [generated EXCEPT ![j] = generated[j] + 1]
           /\ rx[j] /\ pending' = [pending EXCEPT ![j] = generated'[j]] /\ UNCHANGED chan
  BY <1>1, <1>5 DEF StreamStep, Keeps
<1>6. CASE /\ generated' = [generated EXCEPT ![j] = generated[j] + 1]
           /\ rx[j] /\ HasRoom(j) /\ UNCHANGED pending
           /\ chan' = [chan EXCEPT ![j] = Append(chan[j], Event("token", generated'[j]))]
  <2>1. /\ generated'[j] = generated[j] + 1 - Owes(j) /\ pending'[j] = 0
        /\ \A i \in Jobs \ {j} : generated'[i] = generated[i] /\ pending'[i] = pending[i]
    BY <1>1, <1>2, <1>6
  <2>2. Sends(j)
    BY <1>6, <2>1 DEF Sends, GivenUp, CutShort
  <2>3. QED BY <2>2 DEF StreamStep
<1>7. QED BY <1>3, <1>4, <1>5, <1>6 DEF FeedToken, StashToken

\* Every step of the program is one of these.
LEMMA StepsOfStreams ==
  ASSUME Structure, Limits, Account, Orderly, [Next]_vars
  PROVE  StreamStep
<1>1. TypeOK /\ Control /\ Placement
  BY DEF Structure
<1>2. /\ generated \in [Jobs -> Nat] /\ pending \in [Jobs -> Nat]
      /\ chan \in [Jobs -> Seq(Events)] /\ stage \in [Jobs -> Stages]
      /\ batch \in Seq(Jobs) /\ fin \in Finals
  BY <1>1 DEF TypeOK
<1>3. pc \in {"step", "decode", "retire", "refuse"} => cur \in Jobs /\ stage[cur] = "running"
  BY <1>1, HandsFull, JobsAssumption DEF Control, Placement
<1>4. CASE Handles \/ UNCHANGED vars
  <2>1. UNCHANGED <<chan, seen, rx, generated, pending>>
    BY <1>4 DEF Handles, Close, Disconnect, Reject, Admit, Submit, vars, clientVars,
         workerVars, genVars
  <2>2. \A j \in Jobs : stage'[j] = "done" <=> stage[j] = "done"
    BY <1>2, <1>4 DEF Handles, Close, Disconnect, Reject, Admit, Submit, vars, handleVars
  <2>3. QED BY <2>1, <2>2 DEF StreamStep, Quiet
<1>5. CASE Clients
  <2>1. PICK j \in Jobs : Receive(j) \/ DropReceiver(j) \/ Cancel(j)
    BY <1>5 DEF Clients
  <2>2. UNCHANGED <<generated, pending, stage>>
    BY <2>1 DEF Receive, DropReceiver, Cancel, handleVars, workerVars, genVars
  <2>3. CASE Receive(j)
    BY <2>2, <2>3 DEF Receive, StreamStep, Reads
  <2>4. CASE DropReceiver(j)
    BY <2>2, <2>4 DEF DropReceiver, StreamStep, Leaves
  <2>5. CASE Cancel(j)
    BY <2>2, <2>5 DEF Cancel, StreamStep, Quiet
  <2>6. QED BY <2>1, <2>3, <2>4, <2>5
<1>6. CASE \/ SkipIntake \/ SortIntoBatch \/ SortIntoSolo \/ HoldLone \/ LoneToSolo \/ EndSort
           \/ NextSolo \/ StepCancelled \/ ResendFull \/ StepOn \/ DecodeFails \/ EndSolo
           \/ ScanKeep \/ ScanCancelled \/ EndScan
           \/ CreateGroup \/ AddMember \/ Fallback \/ BatchStep
           \/ NextUnbatched \/ EndBatch \/ Tidy \/ BeginShutdown \/ ShutdownNext
  <2>1. UNCHANGED <<chan, seen, rx, generated, pending, stage>>
    BY <1>6 DEF SkipIntake, SortIntoBatch, SortIntoSolo, HoldLone, LoneToSolo, EndSort,
         NextSolo, StepCancelled, ResendFull, StepOn, DecodeFails, EndSolo, ScanKeep,
         ScanCancelled, EndScan, CreateGroup, AddMember, Fallback, BatchStep,
         NextUnbatched, EndBatch, Tidy, BeginShutdown, ShutdownNext, handleVars,
         clientVars, genVars
  <2>2. QED BY <2>1 DEF StreamStep, Quiet
<1>7. CASE IntakeWithoutSession \/ IntakeFails \/ Intake
  <2>1. UNCHANGED <<generated, pending>> /\ TakeJob /\ CanIntake
    BY <1>7 DEF IntakeWithoutSession, IntakeFails, Intake, genVars
  <2>2. Head(queue) \in Jobs /\ stage[Head(queue)] = "queued"
    BY <1>1, <2>1, WaitingPositive, TypesOfSequences DEF CanIntake
  <2>3. /\ UNCHANGED <<chan, seen, rx>>
        /\ stage' = [stage EXCEPT ![Head(queue)] = "running"]
    BY <2>1 DEF TakeJob, clientVars
  <2>4. QED BY <1>2, <2>1, <2>2, <2>3 DEF StreamStep, Quiet
<1>8. CASE Exit
  <2>1. /\ UNCHANGED <<chan, seen, rx, generated, pending>>
        /\ stage' = [j \in Jobs |-> IF stage[j] = "queued" THEN "dropped" ELSE stage[j]]
    BY <1>8 DEF Exit, clientVars, genVars
  <2>2. QED BY <1>2, <2>1 DEF StreamStep, Quiet
<1>9. CASE ResendClosed
  <2>1. /\ cur \in Jobs /\ stage[cur] = "running" /\ ~rx[cur]
        /\ pending' = [pending EXCEPT ![cur] = 0]
        /\ UNCHANGED <<chan, seen, rx, generated, stage>>
    BY <1>3, <1>9 DEF ResendClosed, handleVars, clientVars
  <2>2. QED BY <1>2, <2>1 DEF StreamStep, Keeps
<1>10. ASSUME /\ cur \in Jobs /\ stage[cur] = "running" /\ rx[cur] /\ HasRoom(cur)
              /\ pending[cur] # 0 /\ pending' = [pending EXCEPT ![cur] = 0]
              /\ chan' = [chan EXCEPT ![cur] = Append(chan[cur], Event("token", pending[cur]))]
              /\ UNCHANGED <<seen, rx, generated, stage>>
       PROVE  StreamStep
  <2>1. Owes(cur) = 1 /\ pending[cur] = generated[cur]
    BY <1>10 DEF Owes, Account
  <2>2. generated'[cur] = generated[cur] + 1 - Owes(cur) /\ pending[cur] = generated'[cur]
    BY <1>2, <1>10, <2>1
  <2>3. Sends(cur)
    BY <1>2, <1>10, <2>2 DEF Sends, GivenUp
  <2>4. QED BY <1>10, <2>3 DEF StreamStep
<1>11. CASE Resend
  BY <1>3, <1>10, <1>11 DEF Resend, handleVars, clientVars
<1>12. CASE FlushOwed
  <2>1. /\ cur \in Jobs /\ stage[cur] = "running" /\ pending[cur] # 0
        /\ pending' = [pending EXCEPT ![cur] = 0]
        /\ UNCHANGED <<seen, rx, generated, stage>>
        /\ pc = "retire" /\ CanSend(cur) /\ chan' = Sent(cur, Event("token", pending[cur]))
    BY <1>3, <1>12 DEF FlushOwed, handleVars, clientVars
  <2>2. CASE rx[cur] /\ HasRoom(cur)
    BY <1>10, <2>1, <2>2 DEF Sent
  <2>3. CASE ~(rx[cur] /\ HasRoom(cur))
    <3>1. chan' = chan /\ (~rx[cur] \/ CutShort(cur))
      BY <2>1, <2>3 DEF Sent, CanSend, Stopping, CutShort
    <3>2. Keeps(cur)
      BY <1>2, <2>1, <3>1 DEF Keeps
    <3>3. QED BY <2>1, <3>2 DEF StreamStep
  <2>4. QED BY <2>2, <2>3
<1>13. CASE DecodeOne
  <2>1. /\ cur \in Jobs /\ stage[cur] = "running" /\ pending[cur] = 0 /\ FeedToken(cur, ret)
        /\ pc # "retire"
    BY <1>3, <1>13 DEF DecodeOne, Account
  <2>2. UNCHANGED <<seen, rx, stage>>
    BY <1>13 DEF DecodeOne, handleVars, clientVars
  <2>3. QED BY <1>1, <2>1, <2>2, FeedStep
<1>14. CASE FeedNext
  <2>1. /\ batch # <<>> /\ FeedToken(Head(batch), "feed") /\ pc # "retire"
        /\ UNCHANGED <<seen, rx, stage>>
    BY <1>14 DEF FeedNext, handleVars, clientVars
  <2>2. Head(batch) \in Jobs /\ Head(batch) \in Members(batch)
    BY <1>2, <2>1, HeadTail, MembersTail
  <2>3. pending[Head(batch)] = 0 /\ stage[Head(batch)] = "running"
    BY <1>1, <2>2 DEF Limits, Placement
  <2>4. QED BY <1>1, <2>1, <2>2, <2>3, FeedStep
<1>15. CASE Refuse
  <2>1. /\ cur \in Jobs /\ stage[cur] = "running"
        /\ CanSend(cur) /\ chan' = Sent(cur, Event("failed", 0))
        /\ stage' = [stage EXCEPT ![cur] = "done"]
        /\ UNCHANGED <<seen, rx, generated, pending>>
    BY <1>3, <1>15 DEF Refuse, clientVars
  <2>2. rx[cur] /\ ~HasRoom(cur) => closing
    BY <2>1 DEF CanSend, Stopping, Orderly
  <2>3. Event("failed", 0) \in Events /\ Event("failed", 0).kind = "failed"
    BY TypeOfEvents, <2>1 DEF Event, Finals
  <2>4. Finishes(cur, Event("failed", 0))
    BY <2>1, <2>2, <2>3 DEF Finishes
  <2>5. QED BY <2>1, <2>3, <2>4 DEF StreamStep
<1>16. CASE FinishRetire
  <2> DEFINE e == FinalEvent(cur)
  <2>1. /\ cur \in Jobs /\ stage[cur] = "running" /\ Settled(cur)
        /\ CanSend(cur) /\ chan' = Sent(cur, e)
        /\ stage' = [stage EXCEPT ![cur] = "done"]
        /\ UNCHANGED <<seen, rx, generated, pending>>
    BY <1>3, <1>16 DEF FinishRetire, clientVars
  <2>2. rx[cur] /\ ~HasRoom(cur) => closing
    BY <2>1 DEF CanSend, Stopping, Orderly
  <2>3. e \in {Event(k, generated[cur]) : k \in {"stop", "length", "cancelled"}}
              \cup {Event("failed", 0)}
    BY <1>2 DEF FinalEvent, Finals
  <2>4. e.kind = fin
    BY DEF FinalEvent, Event
  <2>5. e.kind # "failed" => pending[cur] = 0 /\ ~CutShort(cur)
    BY <2>1, <2>4 DEF Settled, Orderly
  <2>6. e \in Events
    BY <1>2, <2>1, <2>3, TypeOfEvents DEF Finals
  <2>7. Finishes(cur, e)
    BY <2>1, <2>2, <2>3, <2>5 DEF Finishes
  <2>8. QED BY <2>1, <2>6, <2>7 DEF StreamStep
<1>17. QED
  BY <1>4, <1>5, <1>6, <1>7, <1>8, <1>9, <1>11, <1>12, <1>13, <1>14, <1>15, <1>16
     DEF Next, Worker, Exited

-----------------------------------------------------------------------------
(* The invariant is inductive *)

\* A stream is decoded only when it owes nothing.
LEMMA DecodesSettled ==
  ASSUME Structure, pc = "decode" => pending[cur] = 0, [Next]_vars, pc' = "decode"
  PROVE  pending'[cur'] = 0
<1>1. TypeOK /\ Control
  BY DEF Structure
<1>2. pending \in [Jobs -> Nat]
  BY <1>1 DEF TypeOK
<1>3. CASE Handles \/ Clients \/ CreateGroup \/ AddMember \/ UNCHANGED vars
  <2>1. UNCHANGED <<pc, cur>>
    BY <1>3, StillHands DEF Still
  <2>2. pending' = pending
    BY <1>3 DEF Handles, Clients, CreateGroup, AddMember, Reject, Admit, Submit, Receive,
         DropReceiver, Cancel, Close, Disconnect, vars, workerVars, genVars
  <2>3. QED BY <2>1, <2>2
<1>4. CASE StepOn
  BY <1>4 DEF StepOn, genVars, retireVars
<1>5. CASE Resend
  <2>1. cur \in Jobs
    BY <1>5, HandsFull DEF Resend
  <2>2. pending' = [pending EXCEPT ![cur] = 0] /\ cur' = cur
    BY <1>5 DEF Resend, StartRetire, retireVars
  <2>3. QED BY <1>2, <2>1, <2>2
<1>6. CASE DecodeOne \/ FeedNext
  BY <1>1, <1>6, FeedOutcome DEF DecodeOne, FeedNext, Control
<1>7. CASE \/ IntakeWithoutSession \/ IntakeFails \/ Intake \/ Refuse \/ SkipIntake
           \/ SortIntoBatch \/ SortIntoSolo \/ HoldLone \/ LoneToSolo \/ EndSort
           \/ NextSolo \/ StepCancelled \/ ResendClosed \/ ResendFull \/ DecodeFails
           \/ EndSolo \/ ScanKeep \/ ScanCancelled \/ EndScan \/ Fallback \/ BatchStep
           \/ NextUnbatched \/ EndBatch \/ Tidy \/ FlushOwed \/ FinishRetire
           \/ BeginShutdown \/ ShutdownNext \/ Exit
  <2>1. pc' # "decode"
    BY <1>1, <1>7 DEF IntakeWithoutSession, IntakeFails, Intake, RefuseJob, Refuse, SkipIntake,
         SortIntoBatch, SortIntoSolo, HoldLone, LoneToSolo, EndSort, NextSolo, StepCancelled,
         ResendClosed, ResendFull, DecodeFails, EndSolo, ScanKeep, ScanCancelled, EndScan,
         Fallback, BatchStep, NextUnbatched, EndBatch, Tidy, FlushOwed, FinishRetire,
         BeginShutdown, ShutdownNext, Exit, StartRetire, PushBack, Control
  <2>2. QED BY <2>1
<1>8. QED BY <1>3, <1>4, <1>5, <1>6, <1>7 DEF Next, Worker, Exited

\* What the worker does not do while it retires a stream.
LEMMA OnlyRetires ==
  ASSUME pc = "retire"
  PROVE  ~ \/ IntakeWithoutSession \/ IntakeFails \/ Intake \/ Refuse \/ SkipIntake
           \/ SortIntoBatch \/ SortIntoSolo \/ HoldLone \/ LoneToSolo \/ EndSort
           \/ NextSolo \/ StepCancelled \/ ResendClosed \/ ResendFull \/ Resend \/ StepOn
           \/ DecodeOne \/ DecodeFails
           \/ EndSolo \/ ScanKeep \/ ScanCancelled \/ EndScan \/ Fallback \/ BatchStep
           \/ FeedNext \/ NextUnbatched \/ EndBatch \/ Tidy
           \/ BeginShutdown \/ ShutdownNext \/ Exit
BY DEF IntakeWithoutSession, IntakeFails, Intake, CanIntake, Refuse, SkipIntake,
   SortIntoBatch, SortIntoSolo, HoldLone, LoneToSolo, EndSort, NextSolo, StepCancelled,
   ResendClosed, ResendFull, Resend, StepOn, DecodeOne, DecodeFails, EndSolo, ScanKeep,
   ScanCancelled, EndScan, Fallback, BatchStep, FeedNext, NextUnbatched, EndBatch, Tidy,
   BeginShutdown, ShutdownNext, Exit

\* The shutdown lets go of a stream with its last event only.
LEMMA CutShortStays ==
  ASSUME Structure, NEW j \in Jobs, CutShort(j), [Next]_vars
  PROVE  CutShort(j)' \/ stage'[j] = "done"
<1>1. pc = "retire" /\ cur = j /\ ret = "shutdown"
  BY DEF CutShort
<1>2. CASE Handles \/ Clients \/ CreateGroup \/ AddMember \/ FlushOwed \/ UNCHANGED vars
  BY <1>1, <1>2, StillHands DEF Still, CutShort
<1>3. CASE FinishRetire
  <2>1. stage' = [stage EXCEPT ![cur] = "done"] /\ stage \in [Jobs -> Stages]
    BY <1>3 DEF FinishRetire, Structure, TypeOK
  <2>2. QED BY <1>1, <2>1
<1>4. ~ \/ IntakeWithoutSession \/ IntakeFails \/ Intake \/ Refuse \/ SkipIntake
        \/ SortIntoBatch \/ SortIntoSolo \/ HoldLone \/ LoneToSolo \/ EndSort
        \/ NextSolo \/ StepCancelled \/ ResendClosed \/ ResendFull \/ Resend \/ StepOn
        \/ DecodeOne \/ DecodeFails
        \/ EndSolo \/ ScanKeep \/ ScanCancelled \/ EndScan \/ Fallback \/ BatchStep
        \/ FeedNext \/ NextUnbatched \/ EndBatch \/ Tidy
        \/ BeginShutdown \/ ShutdownNext \/ Exit
  BY <1>1, OnlyRetires
<1>5. QED BY <1>2, <1>3, <1>4 DEF Next, Worker, Exited

LEMMA GivenUpStays ==
  ASSUME Structure, NEW j \in Jobs, GivenUp(j), [Next]_vars
  PROVE  GivenUp(j)' \/ stage'[j] = "done"
<1>1. pc = "retire" /\ cur = j /\ pending[cur] = 0 /\ CutShort(j)
  BY DEF GivenUp, CutShort
<1>2. CASE stage'[j] = "done"
  BY <1>2
<1>3. CASE CutShort(j)'
  <2>1. pc' = "retire"
    BY <1>3 DEF CutShort
  <2>2. pending' = pending
    <3>1. CASE Handles \/ Clients \/ CreateGroup \/ AddMember \/ FinishRetire \/ UNCHANGED vars
      BY <3>1 DEF Handles, Clients, CreateGroup, AddMember, FinishRetire, Reject, Admit, Submit,
           Receive, DropReceiver, Cancel, Close, Disconnect, vars, workerVars, genVars
    <3>2. ~FlushOwed
      BY <1>1 DEF FlushOwed
    <3>3. ~ \/ IntakeWithoutSession \/ IntakeFails \/ Intake \/ Refuse \/ SkipIntake
            \/ SortIntoBatch \/ SortIntoSolo \/ HoldLone \/ LoneToSolo \/ EndSort
            \/ NextSolo \/ StepCancelled \/ ResendClosed \/ ResendFull \/ Resend \/ StepOn
            \/ DecodeOne \/ DecodeFails
            \/ EndSolo \/ ScanKeep \/ ScanCancelled \/ EndScan \/ Fallback \/ BatchStep
            \/ FeedNext \/ NextUnbatched \/ EndBatch \/ Tidy
            \/ BeginShutdown \/ ShutdownNext \/ Exit
      BY <1>1, OnlyRetires
    <3>4. QED BY <3>1, <3>2, <3>3 DEF Next, Worker, Exited
  <2>3. QED BY <1>1, <1>3, <2>2 DEF GivenUp
<1>4. QED BY <1>1, <1>2, <1>3, CutShortStays

LEMMA AccountInductive ==
  ASSUME Structure, Limits, Account, Orderly, [Next]_vars
  PROVE  Account'
<1>1. /\ generated \in [Jobs -> Nat] /\ pending \in [Jobs -> Nat]
      /\ chan \in [Jobs -> Seq(Events)] /\ stage \in [Jobs -> Stages]
      /\ seen \in [Jobs -> Seq(Events)] /\ rx \in [Jobs -> BOOLEAN]
  BY DEF Structure, TypeOK
<1>2. StreamStep
  BY StepsOfStreams
<1>3. pc' = "decode" => pending'[cur'] = 0
  BY DecodesSettled DEF Account
<1>4. \A j \in Jobs : GivenUp(j) => GivenUp(j)' \/ stage'[j] = "done"
  BY GivenUpStays
<1> DEFINE Told(i) == /\ pending[i] # 0 => pending[i] = generated[i]
                      /\ rx[i] /\ stage[i] # "done" /\ ~GivenUp(i) =>
                           generated[i] = Len(seen[i]) + Len(chan[i]) + Owes(i)
<1>5. \A i \in Jobs : Told(i)
  BY DEF Account
<1>6. SUFFICES ASSUME NEW i \in Jobs PROVE Told(i)'
  BY <1>3 DEF Account
<1>7. /\ Len(chan[i]) \in Nat /\ Len(seen[i]) \in Nat
      /\ generated[i] \in Nat /\ pending[i] \in Nat
  BY <1>1
\* A step that leaves the stream of i alone.
<1>8. ASSUME chan'[i] = chan[i], seen'[i] = seen[i], rx'[i] = rx[i], pending'[i] = pending[i],
             generated'[i] = generated[i], stage[i] = "done" => stage'[i] = "done"
      PROVE  Told(i)'
  BY <1>4, <1>5, <1>8 DEF Owes
<1>9. CASE Quiet
  BY <1>8, <1>9 DEF Quiet
<1>10. ASSUME NEW j \in Jobs, Sends(j) PROVE Told(i)'
  <2>1. CASE i # j
    BY <1>1, <1>8, <1>10, <2>1 DEF Sends
  <2>2. CASE i = j
    <3>1. /\ stage'[i] = "running" /\ stage[i] = "running" /\ seen'[i] = seen[i] /\ rx[i]
          /\ pending'[i] = 0 /\ generated'[i] = generated[i] + 1 - Owes(i)
      BY <1>10, <2>2 DEF Sends
    <3>2. Len(chan'[i]) = Len(chan[i]) + 1
      BY <1>1, <1>10, <2>2 DEF Sends
    <3>3. CASE GivenUp(i)
      BY <1>4, <3>1, <3>3
    <3>4. CASE ~GivenUp(i)
      <4>1. generated[i] = Len(seen[i]) + Len(chan[i]) + Owes(i)
        BY <1>5, <3>1, <3>4
      <4>2. generated'[i] = Len(seen[i]) + Len(chan[i]) + 1
        BY <1>1, <1>7, <3>1, <4>1 DEF Owes
      <4>3. QED BY <1>1, <1>7, <3>1, <3>2, <4>2 DEF Owes
    <3>5. QED BY <3>3, <3>4
  <2>3. QED BY <2>1, <2>2
<1>11. ASSUME NEW j \in Jobs, Keeps(j) PROVE Told(i)'
  <2>1. CASE i # j
    BY <1>1, <1>8, <1>11, <2>1 DEF Keeps
  <2>2. CASE i = j
    <3>1. /\ stage'[i] = stage[i] /\ UNCHANGED <<chan, seen, rx>> /\ stage[i] = "running"
      BY <1>11, <2>2 DEF Keeps
    <3>2. CASE /\ rx[i] /\ pending[i] = 0
               /\ generated'[i] = generated[i] + 1 /\ pending'[i] = generated'[i]
      <4>1. CASE GivenUp(i)
        BY <1>4, <3>1, <3>2, <4>1
      <4>2. CASE ~GivenUp(i)
        <5>1. generated[i] = Len(seen[i]) + Len(chan[i]) + Owes(i)
          BY <1>5, <3>1, <3>2, <4>2
        <5>2. generated'[i] = Len(seen'[i]) + Len(chan'[i]) + 1
          <6>1. generated[i] = Len(seen[i]) + Len(chan[i])
            BY <1>1, <1>7, <3>2, <5>1 DEF Owes
          <6>2. QED BY <1>1, <1>7, <3>1, <3>2, <6>1
        <5>3. pending'[i] # 0 /\ pending'[i] = generated'[i]
          BY <1>7, <3>2
        <5>4. QED BY <1>7, <5>2, <5>3 DEF Owes
      <4>3. QED BY <4>1, <4>2
    <3>3. CASE ~rx[i] /\ (pending'[i] = 0 \/ pending'[i] = generated'[i])
      BY <2>2, <3>1, <3>3
    <3>4. CASE CutShort(i) /\ pending'[i] = 0
      <4>1. CutShort(i)'
        BY <3>1, <3>4, CutShortStays
      <4>2. GivenUp(i)'
        BY <3>4, <4>1 DEF GivenUp
      <4>3. QED BY <3>4, <4>2
    <3>5. QED BY <1>11, <3>2, <3>3, <3>4, <2>2 DEF Keeps
  <2>3. QED BY <2>1, <2>2
<1>12. ASSUME NEW j \in Jobs, Reads(j) PROVE Told(i)'
  <2>1. CASE i # j
    BY <1>1, <1>8, <1>12, <2>1 DEF Reads
  <2>2. CASE i = j
    <3>1. UNCHANGED <<rx, generated, pending, stage>> /\ chan[i] # <<>>
      BY <1>12, <2>2 DEF Reads
    <3>2. Len(chan'[i]) = Len(chan[i]) - 1
      BY <1>1, <1>12, HeadTail, <2>2 DEF Reads
    <3>3. Len(seen'[i]) = Len(seen[i]) + 1
      <4>1. Head(chan[i]) \in Events
        BY <1>1, <3>1, HeadTail
      <4>2. QED BY <1>1, <1>12, <4>1, <2>2 DEF Reads
    <3>4. Len(seen'[i]) + Len(chan'[i]) = Len(seen[i]) + Len(chan[i])
      BY <1>1, <1>7, <3>2, <3>3
    <3>5. Owes(i)' = Owes(i)
      BY <3>1 DEF Owes
    <3>6. CASE GivenUp(i)
      BY <1>4, <1>5, <3>1, <3>6
    <3>7. CASE ~GivenUp(i)
      BY <1>1, <1>7, <1>5, <3>1, <3>4, <3>7 DEF Owes
    <3>8. QED BY <3>6, <3>7
  <2>3. QED BY <2>1, <2>2
<1>13. ASSUME NEW j \in Jobs, Leaves(j) PROVE Told(i)'
  <2>1. CASE i # j
    BY <1>1, <1>8, <1>13, <2>1 DEF Leaves
  <2>2. CASE i = j
    <3>1. ~rx'[i] /\ UNCHANGED <<generated, pending>>
      BY <1>1, <1>13, <2>2 DEF Leaves
    <3>2. QED BY <1>5, <2>2, <3>1
  <2>3. QED BY <2>1, <2>2
<1>14. ASSUME NEW j \in Jobs, NEW e \in Events, Finishes(j, e) PROVE Told(i)'
  <2>1. CASE i # j
    BY <1>1, <1>8, <1>14, <2>1 DEF Finishes, Sent
  <2>2. CASE i = j
    <3>1. stage'[i] = "done" /\ UNCHANGED <<generated, pending>>
      BY <1>1, <1>14, <2>2 DEF Finishes
    <3>2. QED BY <1>5, <2>2, <3>1
  <2>3. QED BY <2>1, <2>2
<1>15. QED BY <1>2, <1>9, <1>10, <1>11, <1>12, <1>13, <1>14 DEF StreamStep

LEMMA OrderlyInductive ==
  ASSUME Structure, Orderly, [Next]_vars
  PROVE  Orderly'
<1>1. TypeOK /\ Control
  BY DEF Structure
<1> DEFINE Cut == pc = "retire" /\ ret = "shutdown" => fin = "failed"
<1>2. Cut
  BY <1>1, HandsFull DEF Structure, Orderly, CutShort
<1>3. SUFFICES (ret' = "shutdown" => closing') /\ (~txOpen' => closing') /\ Cut'
  BY DEF Orderly, CutShort
<1>4. CASE Handles \/ Clients \/ CreateGroup \/ AddMember \/ FlushOwed \/ UNCHANGED vars
  <2>1. UNCHANGED <<pc, ret, fin>>
    BY <1>4, StillHands DEF Still, Handles, Clients, CreateGroup, AddMember, FlushOwed, Reject,
         Admit, Submit, Receive, DropReceiver, Cancel, Close, Disconnect, vars, workerVars,
         retireVars
  <2>2. (closing => closing') /\ (txOpen' = txOpen \/ closing)
    BY <1>4 DEF Handles, Clients, CreateGroup, AddMember, FlushOwed, Reject, Admit, Submit,
         Receive, DropReceiver, Cancel, Close, Disconnect, vars, handleVars
  <2>3. QED BY <1>2, <2>1, <2>2 DEF Orderly
<1>5. CASE Worker /\ ~(CreateGroup \/ AddMember \/ FlushOwed)
  <2>1. UNCHANGED <<closing, txOpen>>
    BY <1>5 DEF Worker, IntakeWithoutSession, IntakeFails, Intake, TakeJob, Refuse, SkipIntake,
         SortIntoBatch, SortIntoSolo, HoldLone, LoneToSolo, EndSort, NextSolo, StepCancelled,
         ResendClosed, ResendFull, Resend, StepOn, DecodeOne, DecodeFails, EndSolo, ScanKeep,
         ScanCancelled, EndScan, Fallback, BatchStep, FeedNext, NextUnbatched, EndBatch, Tidy,
         FinishRetire, BeginShutdown, ShutdownNext, Exit, handleVars
  <2>2. CASE BeginShutdown
    BY <2>1, <2>2 DEF BeginShutdown, Disconnected, Orderly
  <2>3. CASE ShutdownNext
    BY <2>1, <2>3 DEF ShutdownNext, Orderly
  <2>4. CASE FinishRetire
    <3>1. pc' = ret /\ (ret' = ret \/ ret' = "admit") /\ fin' = "stop" /\ pc = "retire"
      BY <2>4 DEF FinishRetire
    <3>2. pc' # "retire"
      BY <1>1, <3>1 DEF Control
    <3>3. QED BY <2>1, <3>1, <3>2 DEF Orderly
  <2>5. CASE DecodeOne \/ FeedNext
    <3>1. ret' # "shutdown"
      BY <1>1, <2>5, FeedOutcome DEF DecodeOne, FeedNext, Control
    <3>2. QED BY <2>1, <3>1 DEF Orderly
  <2>6. CASE \/ NextSolo \/ StepCancelled \/ ResendClosed \/ ResendFull
             \/ DecodeFails \/ ScanCancelled \/ NextUnbatched
    <3>1. ret' # "shutdown"
      BY <1>1, <2>6 DEF NextSolo, StepCancelled, ResendClosed, ResendFull, DecodeFails,
           ScanCancelled, NextUnbatched, StartRetire, PushBack, Control
    <3>2. QED BY <2>1, <3>1 DEF Orderly
  <2>7. CASE Resend
    <3>1. ret \in {"solo", "unbatch"} /\ (ret' = ret)
      BY <1>1, <2>7 DEF Resend, StartRetire, retireVars, Control
    <3>2. QED BY <2>1, <3>1 DEF Orderly
  <2>8. CASE \/ IntakeWithoutSession \/ IntakeFails \/ Intake \/ Refuse \/ SkipIntake
             \/ SortIntoBatch \/ SortIntoSolo \/ HoldLone \/ LoneToSolo \/ EndSort \/ StepOn
             \/ EndSolo \/ ScanKeep \/ EndScan \/ Fallback \/ BatchStep \/ EndBatch \/ Tidy
             \/ Exit
    <3>1. UNCHANGED <<ret, fin>> /\ pc' # "retire"
      BY <2>8 DEF IntakeWithoutSession, IntakeFails, Intake, RefuseJob, Refuse, SkipIntake,
           SortIntoBatch, SortIntoSolo, HoldLone, LoneToSolo, EndSort, StepOn, EndSolo, ScanKeep,
           EndScan, Fallback, BatchStep, EndBatch, Tidy, Exit, retireVars
    <3>2. QED BY <2>1, <3>1 DEF Orderly
  <2>9. QED
    BY <1>5, <2>2, <2>3, <2>4, <2>5, <2>6, <2>7, <2>8 DEF Worker
<1>6. QED BY <1>4, <1>5 DEF Next, Exited

\* The conditions under which a client can trust its stream, in every state.
LEMMA AccountHolds == Spec => [](Account /\ Orderly)
<1>1. Init => Account /\ Orderly
  <2>1. SUFFICES ASSUME Init PROVE Account /\ Orderly
    OBVIOUS
  <2>2. \A j \in Jobs : /\ generated[j] = 0 /\ pending[j] = 0 /\ seen[j] = <<>> /\ chan[j] = <<>>
    BY <2>1 DEF Init
  <2>3. ASSUME NEW j \in Jobs PROVE generated[j] = Len(seen[j]) + Len(chan[j]) + Owes(j)
    <3>1. Owes(j) = 0 /\ Len(seen[j]) = 0 /\ Len(chan[j]) = 0
      BY <2>2, EmptySeq DEF Owes
    <3>2. QED BY <2>2, <3>1
  <2>4. pc = "admit" /\ ret = "admit" /\ txOpen
    BY <2>1 DEF Init
  <2>5. QED BY <2>2, <2>3, <2>4 DEF Account, Orderly, CutShort
<1>2. Structure /\ Limits /\ Account /\ Orderly /\ [Next]_vars => Account' /\ Orderly'
  BY AccountInductive, OrderlyInductive
<1>3. QED BY <1>1, <1>2, StructureHolds, LimitsHold, PTL DEF Spec

-----------------------------------------------------------------------------
(* The order of events *)

\* Tokens 1, 2, ... and then, if the stream is over, at most one terminal event
\* whose usage counts them.
InOrder(s, over) ==
  \A i \in 1..Len(s) :
    IF s[i].kind = "token"
    THEN s[i].n = i
    ELSE /\ i = Len(s)
         /\ over
         /\ s[i].kind # "failed" => s[i].n = i - 1

LEMMA OrderGrows ==
  ASSUME NEW s \in Seq(Events), NEW e \in Events, NEW over \in BOOLEAN, InOrder(s, FALSE),
         \/ e.kind = "token" /\ e.n = Len(s) + 1
         \/ e.kind # "token" /\ over /\ (e.kind # "failed" => e.n = Len(s))
  PROVE  InOrder(Append(s, e), over)
<1>1. /\ Len(s) \in Nat
      /\ Len(Append(s, e)) = Len(s) + 1
      /\ Append(s, e)[Len(s) + 1] = e
      /\ \A i \in 1..Len(s) : Append(s, e)[i] = s[i]
  BY AppendOne
<1>2. \A i \in 1..Len(s) : s[i].kind = "token" /\ s[i].n = i
  BY DEF InOrder
<1>3. SUFFICES ASSUME NEW i \in 1..Len(s) + 1
               PROVE  IF Append(s, e)[i].kind = "token"
                      THEN Append(s, e)[i].n = i
                      ELSE /\ i = Len(s) + 1
                           /\ over
                           /\ Append(s, e)[i].kind # "failed" => Append(s, e)[i].n = i - 1
  BY <1>1 DEF InOrder
<1>4. CASE i = Len(s) + 1
  BY <1>1, <1>4
<1>5. CASE i \in 1..Len(s)
  BY <1>1, <1>2, <1>5
<1>6. QED BY <1>1, <1>4, <1>5

LEMMA OrderOver ==
  ASSUME NEW s, InOrder(s, FALSE) PROVE InOrder(s, TRUE)
BY DEF InOrder

\* A send makes the stream longer, and a read leaves it as it is.
LEMMA SendAppends ==
  ASSUME NEW s \in Seq(Events), NEW c \in Seq(Events), NEW e \in Events
  PROVE  /\ s \o c \in Seq(Events) /\ Len(s \o c) = Len(s) + Len(c)
         /\ s \o Append(c, e) = Append(s \o c, e)
<1>1. s \o c \in Seq(Events) /\ Len(s \o c) = Len(s) + Len(c)
  BY ConcatProperties
<1>2. Append(c, e) = c \o <<e>> /\ Append(s \o c, e) = (s \o c) \o <<e>> /\ <<e>> \in Seq(Events)
  BY <1>1
<1>3. QED BY <1>1, <1>2, ConcatAssociative

LEMMA ReadKeeps ==
  ASSUME NEW s \in Seq(Events), NEW c \in Seq(Events), c # <<>>
  PROVE  Append(s, Head(c)) \o Tail(c) = s \o c
<1>1. Head(c) \in Events /\ Tail(c) \in Seq(Events)
  BY HeadTail
<1>2. <<Head(c)>> \in Seq(Events) /\ Append(s, Head(c)) = s \o <<Head(c)>>
  BY <1>1
<1>3. <<Head(c)>> \o Tail(c) = c
  BY <1>1, HeadTail, SeqEqual, ConcatProperties
<1>4. QED BY <1>1, <1>2, <1>3, ConcatAssociative

\* Tokens count from one, without a gap or a repetition, and the ending comes last.
LEMMA OrderInductive ==
  ASSUME Structure, Limits, Account, Orderly, StreamInOrder, [Next]_vars
  PROVE  StreamInOrder'
<1>1. /\ generated \in [Jobs -> Nat] /\ pending \in [Jobs -> Nat]
      /\ chan \in [Jobs -> Seq(Events)] /\ stage \in [Jobs -> Stages]
      /\ seen \in [Jobs -> Seq(Events)] /\ rx \in [Jobs -> BOOLEAN]
  BY DEF Structure, TypeOK
<1> DEFINE Ordered(i) == rx[i] => InOrder(Stream(i), stage[i] = "done")
<1>2. \A i \in Jobs : Ordered(i)
  BY DEF StreamInOrder, InOrder
<1>3. SUFFICES ASSUME NEW i \in Jobs PROVE Ordered(i)'
  BY DEF StreamInOrder, InOrder
<1>4. /\ chan[i] \in Seq(Events) /\ seen[i] \in Seq(Events)
      /\ Stream(i) \in Seq(Events) /\ Len(Stream(i)) = Len(seen[i]) + Len(chan[i])
      /\ Len(seen[i]) \in Nat /\ Len(chan[i]) \in Nat
      /\ \A e \in Events : seen[i] \o Append(chan[i], e) = Append(Stream(i), e)
  BY <1>1, SendAppends DEF Stream
\* A step that leaves the stream of i alone.
<1>5. ASSUME chan'[i] = chan[i], seen'[i] = seen[i], rx'[i] = rx[i],
             stage'[i] = "done" <=> stage[i] = "done"
      PROVE  Ordered(i)'
  <2>1. Stream(i)' = Stream(i)
    BY <1>5 DEF Stream
  <2>2. (stage[i] = "done")' = (stage[i] = "done")
    BY <1>5
  <2>3. InOrder(Stream(i), stage[i] = "done")' = InOrder(Stream(i), stage[i] = "done")
    BY <2>1, <2>2 DEF InOrder
  <2>4. QED BY <1>2, <1>5, <2>3
<1>6. CASE Quiet
  BY <1>5, <1>6 DEF Quiet
<1>7. ASSUME NEW j \in Jobs, Sends(j) PROVE Ordered(i)'
  <2>1. CASE i # j
    BY <1>1, <1>5, <1>7, <2>1 DEF Sends
  <2>2. CASE i = j
    <3> DEFINE e == Event("token", generated'[i])
    <3>1. /\ stage[i] = "running" /\ stage' = stage /\ seen' = seen /\ rx[i] /\ rx' = rx
          /\ generated'[i] = generated[i] + 1 - Owes(i) /\ ~GivenUp(i)
          /\ chan'[i] = Append(chan[i], e)
      BY <1>1, <1>7, <2>2 DEF Sends
    <3>2. generated[i] = Len(Stream(i)) + Owes(i)
      BY <1>4, <3>1 DEF Account
    <3>3. Owes(i) = 0 \/ Owes(i) = 1
      BY DEF Owes
    <3>4. generated'[i] = Len(Stream(i)) + 1
      BY <1>1, <1>4, <3>1, <3>2, <3>3
    <3>5. e \in Events /\ e.kind = "token" /\ e.n = Len(Stream(i)) + 1
      BY <1>1, <1>4, <3>4 DEF Event, Events
    <3>6. Stream(i)' = Append(Stream(i), e)
      BY <1>4, <3>1, <3>5 DEF Stream
    <3>7. InOrder(Stream(i), FALSE)
      BY <1>2, <3>1 DEF InOrder
    <3> HIDE DEF e
    <3>8. InOrder(Append(Stream(i), e), FALSE)
      BY <1>4, <3>5, <3>7, OrderGrows
    <3>9. QED BY <3>1, <3>6, <3>8 DEF InOrder
  <2>3. QED BY <2>1, <2>2
<1>8. ASSUME NEW j \in Jobs, Keeps(j) PROVE Ordered(i)'
  BY <1>5, <1>8 DEF Keeps
<1>9. ASSUME NEW j \in Jobs, Reads(j) PROVE Ordered(i)'
  <2>1. CASE i # j
    BY <1>1, <1>5, <1>9, <2>1 DEF Reads
  <2>2. CASE i = j
    <3>1. Stream(i)' = Stream(i) /\ UNCHANGED <<rx, stage>>
      BY <1>1, <1>4, <1>9, <2>2, ReadKeeps DEF Reads, Stream
    <3>2. QED BY <1>2, <3>1 DEF InOrder
  <2>3. QED BY <2>1, <2>2
<1>10. ASSUME NEW j \in Jobs, Leaves(j) PROVE Ordered(i)'
  BY <1>1, <1>5, <1>10 DEF Leaves
<1>11. ASSUME NEW j \in Jobs, NEW e \in Events, Finishes(j, e) PROVE Ordered(i)'
  <2>1. CASE i # j
    BY <1>1, <1>5, <1>11, <2>1 DEF Finishes, Sent
  <2>2. CASE i = j
    <3>1. /\ stage[i] = "running" /\ stage'[i] = "done" /\ seen' = seen /\ rx' = rx
          /\ chan' = Sent(i, e) /\ e.kind # "token"
          /\ e.kind # "failed" => pending[i] = 0 /\ ~CutShort(i) /\ e.n = generated[i]
      BY <1>1, <1>11, <2>2 DEF Finishes, Event
    <3>2. rx[i] => InOrder(Stream(i), FALSE)
      BY <1>2, <3>1 DEF InOrder
    <3>3. CASE ~rx[i]
      BY <3>1, <3>3
    <3>4. CASE rx[i] /\ ~HasRoom(i)
      <4>1. Stream(i)' = Stream(i)
        BY <3>1, <3>4 DEF Sent, Stream
      <4>2. InOrder(Stream(i), TRUE)
        BY <3>2, <3>4, OrderOver
      <4>3. QED BY <3>1, <4>1, <4>2 DEF InOrder
    <3>5. CASE rx[i] /\ HasRoom(i)
      <4>1. chan'[i] = Append(chan[i], e)
        BY <1>1, <3>1, <3>5 DEF Sent
      <4>2. Stream(i)' = Append(Stream(i), e)
        BY <1>4, <3>1, <4>1 DEF Stream
      <4>3. e.kind # "failed" => e.n = Len(Stream(i))
        <5>1. SUFFICES ASSUME e.kind # "failed" PROVE e.n = Len(Stream(i))
          OBVIOUS
        <5>2. ~GivenUp(i) /\ Owes(i) = 0 /\ stage[i] # "done"
          BY <3>1, <5>1 DEF GivenUp, Owes
        <5>3. generated[i] = Len(seen[i]) + Len(chan[i]) + Owes(i)
          BY <3>5, <5>2 DEF Account
        <5>4. e.n = generated[i]
          BY <3>1, <5>1
        <5>5. QED BY <1>4, <5>2, <5>3, <5>4
      <4>4. InOrder(Append(Stream(i), e), TRUE)
        BY <1>4, <3>1, <3>2, <3>5, <4>3, OrderGrows
      <4>5. QED BY <3>1, <4>2, <4>4 DEF InOrder
    <3>6. QED BY <3>3, <3>4, <3>5
  <2>3. QED BY <2>1, <2>2
<1>12. StreamStep
  BY StepsOfStreams
<1>13. QED BY <1>6, <1>7, <1>8, <1>9, <1>10, <1>11, <1>12 DEF StreamStep

\* StreamInOrder: what reaches a client that stays is the tokens 1, 2, ... with
\* no gap and no repetition, then at most one ending, whose usage counts them:
\* whichever paths sent them (a decode step alone or in the batch group, a resend
\* after a full channel, the flush at retirement), and whatever failed.
THEOREM StreamsAreInOrder == Spec => []StreamInOrder
<1>1. Init => StreamInOrder
  <2>1. SUFFICES ASSUME Init, NEW j \in Jobs PROVE Len(Stream(j)) = 0
    BY DEF StreamInOrder
  <2>2. seen[j] = <<>> /\ chan[j] = <<>>
    BY <2>1 DEF Init
  <2>3. QED BY <2>2, EmptySeq, ConcatProperties DEF Stream
<1>2. Structure /\ Limits /\ Account /\ Orderly /\ StreamInOrder /\ [Next]_vars => StreamInOrder'
  BY OrderInductive
<1>3. QED BY <1>1, <1>2, StructureHolds, LimitsHold, AccountHolds, PTL DEF Spec

-----------------------------------------------------------------------------
(* The ending *)

\* The last handle is dropped once and for all.
LEMMA ClosingStays ==
  ASSUME closing, [Next]_vars PROVE closing'
<1>1. CASE Handles \/ Clients \/ UNCHANGED vars
  BY <1>1 DEF Handles, Clients, Reject, Admit, Submit, Receive, DropReceiver, Cancel, Close,
     Disconnect, vars, handleVars
<1>2. CASE Worker
  BY <1>2 DEF Worker, IntakeWithoutSession, IntakeFails, Intake, TakeJob, Refuse, SkipIntake,
     SortIntoBatch, SortIntoSolo, HoldLone, LoneToSolo, EndSort, NextSolo, StepCancelled,
     ResendClosed, ResendFull, Resend, StepOn, DecodeOne, DecodeFails, EndSolo, ScanKeep,
     ScanCancelled, EndScan, CreateGroup, AddMember, Fallback, BatchStep, FeedNext,
     NextUnbatched, EndBatch, Tidy, FlushOwed, FinishRetire, BeginShutdown, ShutdownNext, Exit,
     handleVars
<1>3. QED BY <1>1, <1>2 DEF Next, Exited

LEMMA EndingInductive ==
  ASSUME Structure, Limits, Account, Orderly, EndingTold, [Next]_vars
  PROVE  EndingTold'
<1>1. /\ chan \in [Jobs -> Seq(Events)] /\ stage \in [Jobs -> Stages]
      /\ seen \in [Jobs -> Seq(Events)] /\ rx \in [Jobs -> BOOLEAN]
  BY DEF Structure, TypeOK
<1> DEFINE Told(i) == stage[i] = "done" /\ rx[i] =>
                        Stream(i) # <<>> /\ LastOf(Stream(i)).kind \in Finals
<1>2. SUFFICES ASSUME ~closing', NEW i \in Jobs PROVE Told(i)'
  BY DEF EndingTold
<1>3. ~closing /\ Told(i)
  BY <1>2, ClosingStays DEF EndingTold
<1>4. /\ chan[i] \in Seq(Events) /\ seen[i] \in Seq(Events) /\ Stream(i) \in Seq(Events)
      /\ \A e \in Events : seen[i] \o Append(chan[i], e) = Append(Stream(i), e)
  BY <1>1, SendAppends DEF Stream
<1>5. ASSUME Stream(i)' = Stream(i), rx'[i] = rx[i],
             stage'[i] = "done" => stage[i] = "done"
      PROVE  Told(i)'
  BY <1>3, <1>5 DEF LastOf
<1>6. CASE Quiet
  BY <1>5, <1>6 DEF Quiet, Stream
<1>7. ASSUME NEW j \in Jobs, Sends(j) PROVE Told(i)'
  <2>1. CASE i # j
    BY <1>1, <1>5, <1>7, <2>1 DEF Sends, Stream
  <2>2. QED BY <1>7, <2>1 DEF Sends
<1>8. ASSUME NEW j \in Jobs, Keeps(j) PROVE Told(i)'
  BY <1>5, <1>8 DEF Keeps, Stream
<1>9. ASSUME NEW j \in Jobs, Reads(j) PROVE Told(i)'
  <2>1. Stream(i)' = Stream(i)
    BY <1>1, <1>4, <1>9, ReadKeeps DEF Reads, Stream
  <2>2. QED BY <1>5, <1>9, <2>1 DEF Reads
<1>10. ASSUME NEW j \in Jobs, Leaves(j) PROVE Told(i)'
  <2>1. CASE i # j
    BY <1>1, <1>5, <1>10, <2>1 DEF Leaves, Stream
  <2>2. CASE i = j
    BY <1>1, <1>10, <2>2 DEF Leaves
  <2>3. QED BY <2>1, <2>2
<1>11. ASSUME NEW j \in Jobs, NEW e \in Events, Finishes(j, e) PROVE Told(i)'
  <2>1. CASE i # j
    BY <1>1, <1>5, <1>11, <2>1 DEF Finishes, Sent, Stream
  <2>2. CASE i = j
    <3>1. SUFFICES ASSUME rx[i] PROVE Told(i)'
      BY <1>11 DEF Finishes
    <3>2. HasRoom(i) /\ e.kind \in Finals
      BY <1>3, <1>11, <2>2, <3>1 DEF Finishes, Event, Finals
    <3>3. chan'[i] = Append(chan[i], e) /\ seen' = seen
      BY <1>1, <1>11, <2>2, <3>1, <3>2 DEF Finishes, Sent
    <3>4. Stream(i)' = Append(Stream(i), e)
      BY <1>4, <3>3 DEF Stream
    <3>5. Append(Stream(i), e) # <<>> /\ LastOf(Append(Stream(i), e)) = e
      BY <1>4, AppendOne, EmptySeq DEF LastOf
    <3>6. QED BY <3>2, <3>4, <3>5 DEF LastOf
  <2>3. QED BY <2>1, <2>2
<1>12. StreamStep
  BY StepsOfStreams
<1>13. QED BY <1>6, <1>7, <1>8, <1>9, <1>10, <1>11, <1>12 DEF StreamStep

\* EndingTold: as long as a handle is left, a job retired after service has told
\* a client that stays how it ended, however full its channel was.
THEOREM EndingIsTold == Spec => []EndingTold
<1>1. Init => EndingTold
  BY DEF Init, EndingTold
<1>2. Structure /\ Limits /\ Account /\ Orderly /\ EndingTold /\ [Next]_vars => EndingTold'
  BY EndingInductive
<1>3. QED BY <1>1, <1>2, StructureHolds, LimitsHold, AccountHolds, PTL DEF Spec

-----------------------------------------------------------------------------
(* Refinement of the event streams *)

\* The phase of a stream whose job is at a stage.
PhaseAt(st) ==
  CASE st \in {"new", "admitted", "rejected"} -> "none"
    [] st \in {"queued", "running"}           -> "open"
    [] st \in {"done", "dropped"}             -> "ended"

LEMMA PhasesAt ==
  /\ PhaseAt("new") = "none" /\ PhaseAt("admitted") = "none" /\ PhaseAt("rejected") = "none"
  /\ PhaseAt("queued") = "open" /\ PhaseAt("running") = "open"
  /\ PhaseAt("done") = "ended" /\ PhaseAt("dropped") = "ended"
BY DEF PhaseAt

LEMMA PhaseIs == Phase = [j \in Jobs |-> PhaseAt(stage[j])]
BY Zenon DEF Phase, PhaseAt

\* A job that goes to another stage changes the phase of its own stream.
LEMMA PhaseMoves ==
  ASSUME stage \in [Jobs -> Stages], NEW j \in Jobs, NEW st,
         stage' = [stage EXCEPT ![j] = st]
  PROVE  /\ Phase[j] = PhaseAt(stage[j])
         /\ Phase' = [Phase EXCEPT ![j] = PhaseAt(st)]
<1>1. Phase' = [i \in Jobs |-> PhaseAt(stage'[i])]
  BY Zenon DEF Phase, PhaseAt
<1>2. QED BY <1>1, PhaseIs

LEMMA PhaseStays ==
  ASSUME stage \in [Jobs -> Stages], NEW j \in Jobs, NEW st,
         stage' = [stage EXCEPT ![j] = st], PhaseAt(stage[j]) = PhaseAt(st)
  PROVE  Phase' = Phase
<1>1. Phase' = [Phase EXCEPT ![j] = Phase[j]]
  BY PhaseMoves
<1>2. QED BY <1>1, PhaseIs

LEMMA PhaseStill == ASSUME UNCHANGED stage PROVE UNCHANGED Phase
BY DEF Phase

LEMMA PhaseKnown ==
  ASSUME NEW j \in Jobs PROVE Phase[j] = PhaseAt(stage[j])
BY PhaseIs

\* A quiet step opens the stream of the job it submits, breaks those of the jobs
\* it drops with the queue, or is not seen at all.
LEMMA QuietProtocol ==
  ASSUME Structure, Quiet, [Next]_vars
  PROVE  [ES!Next]_ES!vars
<1>1. TypeOK /\ Control /\ Placement /\ stage \in [Jobs -> Stages]
  BY DEF Structure, TypeOK
<1>2. UNCHANGED <<chan, seen, rx>>
  BY DEF Quiet
<1>3. CASE Phase' = Phase
  BY <1>2, <1>3 DEF ES!vars
<1>4. ASSUME NEW j \in Jobs, Reject(j) \/ Admit(j) PROVE Phase' = Phase
  <2>1. PICK st \in {"rejected", "admitted"} : stage' = [stage EXCEPT ![j] = st]
    BY <1>4 DEF Reject, Admit
  <2>2. stage[j] = "new"
    BY <1>4 DEF Reject, Admit
  <2>3. QED BY <1>1, <2>1, <2>2, PhaseStays, PhasesAt
<1>5. ASSUME NEW j \in Jobs, Submit(j) PROVE ES!Open(j)
  <2>1. stage[j] = "admitted" /\ stage' = [stage EXCEPT ![j] = "queued"]
    BY <1>5 DEF Submit
  <2>2. /\ Phase[j] = PhaseAt(stage[j])
        /\ Phase' = [Phase EXCEPT ![j] = PhaseAt("queued")]
    BY <1>1, <2>1, PhaseMoves
  <2>3. PhaseAt("admitted") = "none" /\ PhaseAt("queued") = "open"
    BY PhasesAt
  <2>4. Phase[j] = "none" /\ Phase' = [Phase EXCEPT ![j] = "open"]
    BY <2>1, <2>2, <2>3
  <2>5. QED BY <1>2, <2>4 DEF ES!Open
<1>6. CASE IntakeWithoutSession \/ IntakeFails \/ Intake
  <2>1. Head(queue) \in Jobs /\ stage[Head(queue)] = "queued"
    BY <1>1, <1>6, TypesOfSequences, WaitingPositive
       DEF IntakeWithoutSession, IntakeFails, Intake, CanIntake
  <2>2. stage' = [stage EXCEPT ![Head(queue)] = "running"]
    BY <1>6 DEF IntakeWithoutSession, IntakeFails, Intake, TakeJob
  <2>3. QED BY <1>1, <1>3, <2>1, <2>2, PhaseStays, PhasesAt
<1>7. CASE Exit
  <2> DEFINE S == {j \in Jobs : stage[j] = "queued"}
  <2>1. stage' = [j \in Jobs |-> IF stage[j] = "queued" THEN "dropped" ELSE stage[j]]
    BY <1>7 DEF Exit
  <2>2. \A j \in S : Phase[j] = "open"
    BY PhaseKnown, PhasesAt
  <2>3. Phase' = [j \in Jobs |-> PhaseAt(stage'[j])]
    BY Zenon DEF Phase, PhaseAt
  <2>4. \A j \in Jobs : PhaseAt(stage'[j]) = IF j \in S THEN "ended" ELSE Phase[j]
    BY <2>1, PhaseKnown, PhasesAt
  <2>5. Phase' = [j \in Jobs |-> IF j \in S THEN "ended" ELSE Phase[j]]
    BY <2>3, <2>4, Zenon
  <2>6. ES!Break(S) /\ S \in SUBSET Jobs
    BY <1>2, <2>2, <2>5 DEF ES!Break
  <2>7. QED BY <2>6 DEF ES!Next
<1>8. CASE Refuse \/ FinishRetire
  <2>1. cur \in Jobs /\ stage[cur] = "running"
    BY <1>1, <1>8, HandsFull, JobsAssumption DEF Refuse, FinishRetire, Control, Placement
  <2>2. stage'[cur] = "done"
    BY <1>1, <1>8, <2>1 DEF Refuse, FinishRetire
  <2>3. QED BY <2>1, <2>2 DEF Quiet
<1>9. CASE Close \/ Disconnect \/ Clients \/ UNCHANGED vars
  BY <1>3, <1>9, PhaseStill DEF Close, Disconnect, Clients, Receive, DropReceiver, Cancel,
     vars, handleVars
<1>10. CASE \/ SkipIntake \/ SortIntoBatch \/ SortIntoSolo \/ HoldLone \/ LoneToSolo \/ EndSort
            \/ NextSolo \/ StepCancelled \/ ResendClosed \/ ResendFull \/ Resend \/ StepOn
            \/ DecodeOne \/ DecodeFails \/ EndSolo \/ ScanKeep \/ ScanCancelled \/ EndScan
            \/ CreateGroup \/ AddMember \/ Fallback \/ BatchStep \/ FeedNext
            \/ NextUnbatched \/ EndBatch \/ Tidy \/ FlushOwed \/ BeginShutdown \/ ShutdownNext
  <2>1. stage' = stage
    BY <1>10 DEF SkipIntake, SortIntoBatch, SortIntoSolo, HoldLone, LoneToSolo, EndSort,
         NextSolo, StepCancelled, ResendClosed, ResendFull, Resend, StepOn, DecodeOne,
         DecodeFails, EndSolo, ScanKeep, ScanCancelled, EndScan, CreateGroup, AddMember,
         Fallback, BatchStep, FeedNext, NextUnbatched, EndBatch, Tidy, FlushOwed,
         BeginShutdown, ShutdownNext, handleVars
  <2>2. QED BY <1>3, <2>1, PhaseStill
<1>11. QED
  BY <1>3, <1>4, <1>5, <1>6, <1>7, <1>8, <1>9, <1>10 DEF Next, Handles, Worker, Exited, ES!Next

\* Every step of the program is a step of the protocol, or is not seen by it.
LEMMA StepKeepsProtocol ==
  ASSUME Structure, Limits, Account, Orderly, [Next]_vars
  PROVE  [ES!Next]_ES!vars
<1>1. /\ generated \in [Jobs -> Nat] /\ pending \in [Jobs -> Nat]
      /\ chan \in [Jobs -> Seq(Events)] /\ stage \in [Jobs -> Stages]
      /\ seen \in [Jobs -> Seq(Events)] /\ rx \in [Jobs -> BOOLEAN]
  BY DEF Structure, TypeOK
<1>2. \A j \in Jobs : Len(seen[j]) \in Nat /\ Len(chan[j]) \in Nat
  BY <1>1
<1>3. CASE Quiet
  BY <1>3, QuietProtocol
<1>4. ASSUME NEW j \in Jobs, Sends(j) PROVE ES!Emit(j)
  <2>1. /\ stage[j] = "running" /\ rx[j] /\ HasRoom(j) /\ ~GivenUp(j)
        /\ chan' = [chan EXCEPT ![j] = Append(chan[j], Event("token", generated'[j]))]
        /\ generated'[j] = generated[j] + 1 - Owes(j)
        /\ UNCHANGED <<seen, rx, stage>>
    BY <1>4 DEF Sends
  <2>2. generated[j] = Len(seen[j]) + Len(chan[j]) + Owes(j)
    BY <2>1 DEF Account
  <2>3. Owes(j) = 0 \/ Owes(j) = 1
    BY DEF Owes
  <2>4. generated'[j] = Len(seen[j]) + Len(chan[j]) + 1
    BY <1>1, <1>2, <2>1, <2>2, <2>3
  <2>5. Event("token", generated'[j]) = ES!Token(ES!Carried(j) + 1)
    BY <2>4 DEF Event, ES!Token, ES!Carried
  <2>6. Phase[j] = "open" /\ Phase' = Phase
    BY <2>1, PhaseKnown, PhasesAt, PhaseStill
  <2>7. QED BY <2>1, <2>5, <2>6 DEF ES!Emit, HasRoom
<1>5. ASSUME NEW j \in Jobs, Keeps(j) PROVE UNCHANGED ES!vars
  BY <1>5, PhaseStill DEF Keeps, ES!vars
<1>6. ASSUME NEW j \in Jobs, Reads(j) PROVE ES!Read(j)
  <2>1. Phase[j] # "none" /\ Phase' = Phase
    BY <1>6, PhaseKnown, PhasesAt, PhaseStill DEF Reads, HasStream
  <2>2. QED BY <1>6, <2>1 DEF Reads, ES!Read
<1>7. ASSUME NEW j \in Jobs, Leaves(j) PROVE ES!Drop(j)
  <2>1. Phase[j] # "none" /\ Phase' = Phase
    BY <1>7, PhaseKnown, PhasesAt, PhaseStill DEF Leaves, HasStream
  <2>2. QED BY <1>7, <2>1 DEF Leaves, ES!Drop
<1>8. ASSUME NEW j \in Jobs, NEW e \in Events, Finishes(j, e)
      PROVE  ES!End(j) \/ ES!Break({j})
  <2>1. /\ stage[j] = "running" /\ stage' = [stage EXCEPT ![j] = "done"]
        /\ chan' = Sent(j, e) /\ UNCHANGED <<seen, rx>>
    BY <1>8 DEF Finishes
  <2>2. Phase[j] = "open" /\ Phase' = [Phase EXCEPT ![j] = "ended"]
    <3>1. Phase[j] = PhaseAt("running") /\ Phase' = [Phase EXCEPT ![j] = PhaseAt("done")]
      BY <1>1, <2>1, PhaseMoves
    <3>2. QED BY <3>1, PhasesAt
  <2>3. CASE rx[j] /\ HasRoom(j)
    <3>1. chan' = [chan EXCEPT ![j] = Append(chan[j], e)]
      BY <2>1, <2>3 DEF Sent
    <3>2. e \in {ES!Ending(k, ES!Carried(j)) : k \in {"stop", "length", "cancelled"}}
                \cup {ES!Ending("failed", 0)}
      <4>1. CASE e = Event("failed", 0)
        BY <4>1 DEF Event, ES!Ending
      <4>2. ASSUME NEW k \in {"stop", "length", "cancelled"}, e = Event(k, generated[j])
            PROVE  e = ES!Ending(k, ES!Carried(j))
        <5>1. e.kind # "failed"
          BY <4>2 DEF Event
        <5>2. pending[j] = 0 /\ ~CutShort(j)
          BY <1>8, <5>1 DEF Finishes
        <5>3. generated[j] = Len(seen[j]) + Len(chan[j]) + Owes(j) /\ Owes(j) = 0
          BY <2>1, <2>3, <5>2 DEF Account, GivenUp, Owes
        <5>4. generated[j] = Len(seen[j]) + Len(chan[j])
          BY <1>1, <1>2, <5>3
        <5>5. QED BY <4>2, <5>4 DEF Event, ES!Ending, ES!Carried
      <4>3. QED BY <1>8, <4>1, <4>2 DEF Finishes
    <3>3. QED BY <2>1, <2>2, <2>3, <3>1, <3>2 DEF ES!End, HasRoom
  <2>4. CASE ~(rx[j] /\ HasRoom(j))
    <3>1. UNCHANGED <<chan, seen, rx>>
      BY <2>1, <2>4 DEF Sent
    <3>2. Phase' = [i \in Jobs |-> IF i \in {j} THEN "ended" ELSE Phase[i]]
      BY <2>2, PhaseIs
    <3>3. QED BY <2>2, <3>1, <3>2 DEF ES!Break
  <2>5. QED BY <2>3, <2>4
<1>9. StreamStep
  BY StepsOfStreams
<1>10. QED BY <1>3, <1>4, <1>5, <1>6, <1>7, <1>8, <1>9 DEF StreamStep, ES!Next

\* StreamProtocol: the handles, the worker and the clients implement one bounded
\* event stream per job.  Whatever is batched, refused, cancelled or failed behind
\* the receivers, they see tokens emitted in order into a channel with room, one
\* ending, or a stream that breaks.
THEOREM ProtocolImplemented == Spec => StreamProtocol
<1>1. Init => ES!Init
  BY DEF Init, ES!Init, Phase
<1>2. Structure /\ Limits /\ Account /\ Orderly /\ [Next]_vars => [ES!Next]_ES!vars
  BY StepKeepsProtocol
<1>3. QED
  BY <1>1, <1>2, StructureHolds, LimitsHold, AccountHolds, PTL DEF Spec, StreamProtocol, ES!Spec

=============================================================================
