-------------------------- MODULE SchedulerProofs --------------------------
(***************************************************************************)
(* Safety of Scheduler, proved on top of its structural invariant for      *)
(* every number of jobs, sessions and batch slots: no session is lost or   *)
(* shared, the native batch group never holds a session that is used       *)
(* alone, every quantum serves every stream, and the two limits on decode  *)
(* steps.                                                                  *)
(***************************************************************************)
EXTENDS SchedulerStructure

-----------------------------------------------------------------------------
(* Sessions *)

\* The streams the worker keeps from one of its actions to the next.
Streams == Members(active) \cup Members(solo) \cup Members(batch)

\* Those and the stream in the worker's hands, once it was admitted.
Hands == Streams \cup {j \in Jobs : j = cur /\ pc # "refuse"}

\* No session has two owners: streams have sessions of their own, and the pool
\* has others, each once.
Apart ==
  /\ \A j \in Jobs : sess[j] \in 0..made
  /\ \A i, j \in Jobs : sess[i] = sess[j] /\ sess[i] # 0 => i = j
  /\ Members(idle) \subseteq 1..made
  /\ Once(idle)
  /\ \A j \in Jobs : sess[j] \notin Members(idle)

\* A session belongs to a running stream, and every stream has one.
Owned ==
  /\ \A j \in Jobs : sess[j] # 0 => stage[j] = "running"
  /\ \A j \in Hands : sess[j] # 0

Sessions == Apart /\ Owned

LEMMA StreamsAreJobs ==
  ASSUME TypeOK PROVE Streams \subseteq Jobs
<1>1. active \in Seq(Jobs) /\ solo \in Seq(Jobs) /\ batch \in Seq(Jobs)
  BY DEF TypeOK
<1>2. QED BY <1>1, MembersIn DEF Streams

\* Inside a quantum no stream comes from nowhere.
LEMMA QuantumHands ==
  ASSUME Structure, Quantum PROVE Hands' \subseteq Hands
<1>1. /\ active \in Seq(Jobs) /\ solo \in Seq(Jobs) /\ batch \in Seq(Jobs)
      /\ Streams \subseteq Jobs
  BY StreamsAreJobs DEF Structure, TypeOK
<1>2. pc # "refuse"
  BY QuantumMoves
<1>3. \A s \in Seq(Jobs), e \in Jobs : Members(Append(s, e)) = Members(s) \cup {e}
  BY MembersAppend
<1>4. \A s \in Seq(Jobs) : s # <<>> =>
        /\ Head(s) \in Jobs /\ Tail(s) \in Seq(Jobs)
        /\ Members(s) = {Head(s)} \cup Members(Tail(s))
  BY MembersTail, HeadTail
<1>5. CASE StayPut
  BY <1>2, <1>5 DEF StayPut, Hands, Streams
<1>6. CASE PushedBack
  <2>1. Members(active') = Members(active) \cup {cur} /\ cur \in Hands
    BY <1>1, <1>2, <1>3, <1>6 DEF PushedBack, Hands
  <2>2. Streams' \subseteq Hands /\ cur' \notin Jobs
    BY <1>6, <2>1, JobsAssumption DEF PushedBack, Hands, Streams
  <2>3. QED BY <2>2 DEF Hands
<1>7. CASE Taken
  <2>1. Streams' \subseteq Streams /\ cur' \in Streams
    BY <1>1, <1>4, <1>7 DEF Taken, Streams
  <2>2. QED BY <2>1 DEF Hands
<1>8. CASE Moved
  <2>1. /\ active # <<>> => \A s \in Seq(Jobs) :
             /\ Members(Append(s, Head(active))) = Members(s) \cup {Head(active)}
             /\ Members(active) = {Head(active)} \cup Members(Tail(active))
        /\ batch # <<>> => \A s \in Seq(Jobs) :
             /\ Members(Append(s, Head(batch))) = Members(s) \cup {Head(batch)}
             /\ Members(batch) = {Head(batch)} \cup Members(Tail(batch))
    <3>1. /\ active # <<>> => Head(active) \in Jobs
          /\ batch # <<>> => Head(batch) \in Jobs
      BY <1>1, <1>4
    <3>2. /\ active # <<>> => Members(active) = {Head(active)} \cup Members(Tail(active))
          /\ batch # <<>> => Members(batch) = {Head(batch)} \cup Members(Tail(batch))
      BY <1>1, <1>4
    <3>3. QED BY <1>3, <3>1, <3>2
  <2>2. Streams' \subseteq Streams
    <3>1. batch # <<>> => Tail(batch) \in Seq(Jobs)
      BY <1>1, <1>4
    <3>2. CASE active # <<>> /\ active' = Tail(active) /\ solo' = solo
                /\ batch' = Append(batch, Head(active))
      BY <1>1, <2>1, <3>2 DEF Streams
    <3>3. CASE active # <<>> /\ active' = Tail(active) /\ batch' = batch
                /\ solo' = Append(solo, Head(active))
      BY <1>1, <2>1, <3>3 DEF Streams
    <3>4. CASE batch # <<>> /\ batch' = Tail(batch) /\ solo' = solo
                /\ active' = Append(active, Head(batch))
      BY <1>1, <2>1, <3>4 DEF Streams
    <3>5. CASE batch # <<>> /\ batch' = Tail(batch) /\ active' = active
                /\ solo' = Append(solo, Head(batch))
      BY <1>1, <2>1, <3>5 DEF Streams
    <3>6. CASE batch # <<>> /\ batch' = Append(Tail(batch), Head(batch))
                /\ UNCHANGED <<active, solo>>
      <4>1. Members(batch') = Members(Tail(batch)) \cup {Head(batch)}
        BY <2>1, <3>1, <3>6
      <4>2. QED BY <1>1, <2>1, <3>6, <4>1 DEF Streams
    <3>7. QED BY <1>8, <3>2, <3>3, <3>4, <3>5, <3>6 DEF Moved
  <2>3. cur' = cur
    BY <1>8 DEF Moved
  <2>4. QED BY <1>2, <2>2, <2>3 DEF Hands
<1>9. QED BY <1>5, <1>6, <1>7, <1>8, QuantumMoves

LEMMA QuantumSessions ==
  ASSUME Quantum PROVE UNCHANGED <<sess, idle, made>>
<1>1. CASE SkipIntake \/ SortIntoBatch \/ SortIntoSolo \/ HoldLone \/ LoneToSolo \/ EndSort
  BY <1>1 DEF SkipIntake, SortIntoBatch, SortIntoSolo, HoldLone, LoneToSolo, EndSort,
       genVars, poolVars
<1>2. CASE NextSolo \/ StepCancelled \/ ResendClosed \/ ResendFull \/ Resend \/ StepOn
           \/ DecodeOne \/ DecodeFails \/ EndSolo
  BY <1>2 DEF NextSolo, StepCancelled, ResendClosed, ResendFull, Resend, StepOn, DecodeOne,
       DecodeFails, EndSolo, genVars, poolVars
<1>3. CASE ScanKeep \/ ScanCancelled \/ EndScan \/ CreateGroup \/ AddMember \/ Fallback
           \/ BatchStep \/ FeedNext \/ NextUnbatched \/ EndBatch
  BY <1>3 DEF ScanKeep, ScanCancelled, EndScan, CreateGroup, AddMember, Fallback, BatchStep,
       FeedNext, NextUnbatched, EndBatch, genVars, poolVars
<1>4. CASE Tidy \/ FlushOwed \/ BeginShutdown \/ ShutdownNext
  BY <1>4 DEF Tidy, FlushOwed, BeginShutdown, ShutdownNext, genVars, poolVars
<1>5. QED BY <1>1, <1>2, <1>3, <1>4 DEF Quantum

\* TakeSession gives a job that has none a session of its own.
LEMMA SessionTaken ==
  ASSUME TypeOK, Apart, queue # <<>>, sess[Head(queue)] = 0, TakeSession
  PROVE  Apart' /\ sess'[Head(queue)] # 0
                /\ \A j \in Jobs : j # Head(queue) => sess'[j] = sess[j]
<1>1. /\ Head(queue) \in Jobs /\ sess \in [Jobs -> Nat] /\ made \in Nat
      /\ idle \in Seq(Nat)
  BY TypesOfSequences DEF TypeOK
<1>2. CASE idle # <<>>
  <2>1. /\ sess' = [sess EXCEPT ![Head(queue)] = LastOf(idle)]
        /\ idle' = AllButLast(idle) /\ made' = made
    BY <1>2 DEF TakeSession
  <2>2. /\ Members(idle) = Members(AllButLast(idle)) \cup {LastOf(idle)}
        /\ Once(AllButLast(idle)) /\ LastOf(idle) \notin Members(AllButLast(idle))
    BY <1>1, <1>2, MembersButLast DEF Apart
  <2>3. LastOf(idle) \in 1..made /\ \A j \in Jobs : sess[j] # LastOf(idle)
    BY <2>2 DEF Apart
  <2>4. /\ sess'[Head(queue)] = LastOf(idle)
        /\ \A j \in Jobs : j # Head(queue) => sess'[j] = sess[j]
    BY <1>1, <2>1
  <2>5. Apart'
    BY <1>1, <2>1, <2>2, <2>3, <2>4 DEF Apart
  <2>6. QED BY <1>1, <2>3, <2>4, <2>5
<1>3. CASE idle = <<>>
  <2>1. /\ sess' = [sess EXCEPT ![Head(queue)] = made + 1]
        /\ idle' = idle /\ made' = made + 1
    BY <1>3 DEF TakeSession
  <2>2. /\ sess'[Head(queue)] = made + 1
        /\ \A j \in Jobs : j # Head(queue) => sess'[j] = sess[j]
    BY <1>1, <2>1
  <2>3. \A j \in Jobs : sess[j] \in 0..made /\ sess[j] # made + 1
    BY <1>1 DEF Apart
  <2>4. Members(idle) = {}
    BY <1>3, MembersEmpty
  <2>5. Apart'
    BY <1>1, <2>1, <2>2, <2>3, <2>4 DEF Apart
  <2>6. QED BY <1>1, <2>2, <2>5
<1>4. QED BY <1>2, <1>3

\* A session goes back to the pool, or is destroyed, and its stream has none.
LEMMA SessionReturned ==
  ASSUME TypeOK, Apart, NEW c \in Jobs, sess' = [sess EXCEPT ![c] = 0], made' = made,
         \/ idle' = idle
         \/ sess[c] # 0 /\ idle' = Append(idle, sess[c])
  PROVE  Apart'
<1>1. sess \in [Jobs -> Nat] /\ made \in Nat /\ idle \in Seq(Nat)
  BY DEF TypeOK
<1>2. sess'[c] = 0 /\ \A j \in Jobs : j # c => sess'[j] = sess[j]
  BY <1>1
<1>3. 0 \notin Members(idle) /\ \A j \in Jobs : sess[j] \in 0..made
  BY <1>1 DEF Apart
<1>4. CASE idle' = idle
  BY <1>1, <1>2, <1>3, <1>4 DEF Apart
<1>5. CASE sess[c] # 0 /\ idle' = Append(idle, sess[c])
  <2>1. sess[c] \in 1..made /\ sess[c] \notin Members(idle)
    BY <1>1, <1>3, <1>5 DEF Apart
  <2>2. Members(idle') = Members(idle) \cup {sess[c]} /\ Once(idle')
    BY <1>1, <1>5, <2>1, MembersAppend DEF Apart
  <2>3. QED BY <1>1, <1>2, <1>3, <1>5, <2>1, <2>2 DEF Apart
<1>6. QED BY <1>4, <1>5

LEMMA SessionsInductive ==
  ASSUME Structure, Sessions, [Next]_vars PROVE Sessions'
<1>1. TypeOK /\ Control /\ Placement /\ Apart /\ Owned
  BY DEF Structure, Sessions
<1>2. /\ stage \in [Jobs -> Stages] /\ sess \in [Jobs -> Nat] /\ made \in Nat
      /\ active \in Seq(Jobs)
  BY <1>1 DEF TypeOK
<1>3. ASSUME NEW j \in Jobs, Reject(j) \/ Admit(j) \/ Submit(j) PROVE Sessions'
  <2>1. UNCHANGED <<sess, idle, made, active, solo, batch, cur, pc>>
    BY <1>3 DEF Reject, Admit, Submit, workerVars, genVars, poolVars, loopVars, retireVars
  <2>2. stage[j] # "running" /\ \A i \in Jobs : i # j => stage'[i] = stage[i]
    BY <1>2, <1>3 DEF Reject, Admit, Submit
  <2>3. Apart' /\ Hands' = Hands
    BY <1>1, <2>1 DEF Apart, Hands, Streams
  <2>4. QED BY <1>1, <2>1, <2>2, <2>3 DEF Owned, Sessions
<1>4. CASE Clients \/ Close \/ Disconnect \/ UNCHANGED vars
  <2>1. UNCHANGED <<stage, sess, idle, made, active, solo, batch, cur, pc>>
    BY <1>4 DEF Clients, Receive, DropReceiver, Cancel, Close, Disconnect, vars, handleVars,
         workerVars, genVars, poolVars, loopVars, retireVars
  <2>2. QED BY <1>1, <2>1 DEF Apart, Owned, Hands, Streams, Sessions
<1>5. CASE Quantum
  <2>1. UNCHANGED <<stage, sess, idle, made>> /\ Hands' \subseteq Hands
    BY <1>5, QuantumMoves, QuantumSessions, QuantumHands
  <2>2. QED BY <1>1, <2>1 DEF Apart, Owned, Sessions
<1>6. ASSUME TakeJob, CanIntake
      PROVE  /\ Head(queue) \in Jobs /\ sess[Head(queue)] = 0 /\ queue # <<>>
             /\ stage' = [stage EXCEPT ![Head(queue)] = "running"]
             /\ UNCHANGED <<solo, batch>> /\ cur = NoJob /\ pc # "refuse"
  <2>1. queue # <<>> /\ pc = "admit"
    BY <1>6 DEF CanIntake
  <2>2. stage[Head(queue)] = "queued" /\ Head(queue) \in Jobs
    BY <1>1, <2>1, WaitingPositive, TypesOfSequences
  <2>3. QED BY <1>1, <1>6, <2>1, <2>2 DEF Owned, TakeJob, Control
<1>7. CASE IntakeWithoutSession
  <2>1. /\ TakeJob /\ CanIntake /\ RefuseJob
        /\ UNCHANGED <<sess, idle, made>>
    BY <1>7 DEF IntakeWithoutSession, genVars, poolVars
  <2>2. Hands' \subseteq Hands
    BY <1>6, <2>1 DEF RefuseJob, Hands, Streams
  <2>3. QED BY <1>1, <1>2, <1>6, <2>1, <2>2 DEF Apart, Owned, Sessions
<1>8. CASE IntakeFails \/ Intake
  <2>1. TakeJob /\ CanIntake /\ TakeSession
    BY <1>8 DEF IntakeFails, Intake
  <2>2. /\ Apart' /\ sess'[Head(queue)] # 0
        /\ \A j \in Jobs : j # Head(queue) => sess'[j] = sess[j]
    BY <1>1, <1>6, <2>1, SessionTaken
  <2>3. Hands' \subseteq Hands \cup {Head(queue)}
    <3>1. CASE IntakeFails
      BY <1>6, <2>1, <3>1 DEF IntakeFails, RefuseJob, Hands, Streams
    <3>2. CASE Intake
      <4>1. active' = Append(active, Head(queue)) /\ cur' = cur
        BY <3>2 DEF Intake, retireVars
      <4>2. Members(active') = Members(active) \cup {Head(queue)}
        BY <1>2, <1>6, <2>1, <4>1, MembersAppend
      <4>3. QED BY <1>6, <2>1, <4>1, <4>2, JobsAssumption DEF Hands, Streams
    <3>3. QED BY <1>8, <3>1, <3>2
  <2>4. Hands \subseteq Jobs
    BY <1>1, StreamsAreJobs DEF Hands
  <2>5. QED BY <1>1, <1>2, <1>6, <2>1, <2>2, <2>3, <2>4 DEF Owned, Sessions
<1>9. CASE Refuse \/ FinishRetire
  <2>1. cur \in Jobs
    BY <1>9, HandsFull DEF Refuse, FinishRetire
  <2>2. /\ sess' = [sess EXCEPT ![cur] = 0] /\ made' = made
        /\ cur' = NoJob /\ stage' = [stage EXCEPT ![cur] = "done"]
        /\ UNCHANGED <<active, solo, batch>>
    BY <1>9 DEF Refuse, FinishRetire, loopVars
  <2>3. pc = "retire" => sess[cur] # 0
    BY <1>1, <2>1 DEF Owned, Hands
  <2>4. \/ idle' = idle
        \/ sess[cur] # 0 /\ idle' = Append(idle, sess[cur])
    BY <1>9, <2>3 DEF Refuse, FinishRetire, ReturnSession
  <2>5. Apart'
    BY <1>1, <2>1, <2>2, <2>4, SessionReturned
  <2>6. cur \notin Hands' /\ Hands' \subseteq Hands
    BY <1>1, <2>2, JobsAssumption DEF Hands, Streams, Placement
  <2>7. Hands \subseteq Jobs
    BY <1>1, StreamsAreJobs DEF Hands
  <2>8. QED BY <1>1, <1>2, <2>1, <2>2, <2>5, <2>6, <2>7 DEF Owned, Sessions
<1>10. CASE Exit
  <2>1. /\ idle' = <<>> /\ UNCHANGED <<sess, made, active, solo, batch, cur>>
        /\ \A j \in Jobs : stage[j] = "running" => stage'[j] = "running"
    BY <1>2, <1>10 DEF Exit, genVars, loopVars, retireVars
  <2>2. Members(idle') = {} /\ Once(idle')
    BY <2>1, MembersEmpty
  <2>3. pc # "refuse" /\ Hands' \subseteq Hands
    BY <1>10, <2>1 DEF Exit, Hands, Streams
  <2>4. QED BY <1>1, <2>1, <2>2, <2>3 DEF Apart, Owned, Sessions
<1>11. QED
  BY <1>3, <1>4, <1>5, <1>7, <1>8, <1>9, <1>10
     DEF Next, Handles, Worker, Quantum, Exited

\* The pool's conservation law, over TakeSession.
LEMMA PoolTaken ==
  ASSUME TypeOK, queue # <<>>, TakeSession, Len(idle) + Len(active) = made,
         made <= MaxSessions, Len(active) < MaxSessions
  PROVE  /\ made' <= MaxSessions
         /\ Len(idle') + Len(active) + 1 = made'
<1>1. made \in Nat /\ idle \in Seq(Nat) /\ Len(active) \in Nat /\ MaxSessions \in Nat
  BY Lengths, ConfigAssumption DEF TypeOK
<1>2. CASE idle # <<>>
  <2>1. Len(AllButLast(idle)) = Len(idle) - 1
    BY <1>1, <1>2, LastButLast
  <2>2. Len(idle) \in Nat
    BY <1>1
  <2>3. QED BY <1>1, <1>2, <2>1, <2>2 DEF TakeSession
<1>3. CASE idle = <<>>
  <2>1. Len(idle) = 0
    BY <1>3
  <2>2. QED BY <1>1, <1>3, <2>1 DEF TakeSession
<1>4. QED BY <1>2, <1>3

LEMMA PoolInductive ==
  ASSUME Structure, Sessions, PoolConserved, [Next]_vars PROVE PoolConserved'
<1>1. TypeOK /\ Control /\ Placement /\ Apart /\ Owned
  BY DEF Structure, Sessions
<1>2. /\ Len(active) \in Nat /\ Len(solo) \in Nat /\ Len(batch) \in Nat /\ Len(idle) \in Nat
      /\ made \in Nat /\ MaxSessions \in Nat /\ idle \in Seq(Nat) /\ sess \in [Jobs -> Nat]
  BY <1>1, Lengths, TypesOfSequences, ConfigAssumption DEF TypeOK
<1>3. NoJob \notin Jobs
  BY JobsAssumption
<1>4. CASE Handles \/ Clients \/ UNCHANGED vars
  <2>1. UNCHANGED <<sess, idle, made, active, solo, batch, cur, pc>>
    BY <1>4 DEF Handles, Clients, Reject, Admit, Submit, Receive, DropReceiver, Cancel,
         Close, Disconnect, vars, workerVars, genVars, poolVars, loopVars, retireVars
  <2>2. QED BY <2>1 DEF PoolConserved, HeldSessions
<1>5. CASE Quantum
  <2>1. /\ UNCHANGED <<idle, made>> /\ pc \notin {"refuse", "exited"} /\ pc' # "refuse"
        /\ StayPut \/ PushedBack \/ Taken \/ Moved
    BY <1>5, QuantumSessions, QuantumMoves
  <2>2. Total' = Total
    BY <1>1, <2>1, MovesKeepTotal
  <2>3. HeldSessions = Total /\ HeldSessions' = Total'
    BY <2>1 DEF HeldSessions, Total
  <2>4. QED BY <2>1, <2>2, <2>3 DEF PoolConserved
<1>6. ASSUME TakeJob, CanIntake
      PROVE  /\ queue # <<>> /\ Head(queue) \in Jobs /\ sess[Head(queue)] = 0
             /\ Len(active) < MaxSessions
             /\ UNCHANGED <<solo, batch>> /\ Len(solo) = 0 /\ Len(batch) = 0 /\ cur = NoJob
             /\ Len(idle) + Len(active) = made /\ made <= MaxSessions
  <2>1. queue # <<>> /\ pc = "admit" /\ Len(active) < MaxSessions
    BY <1>6 DEF CanIntake
  <2>2. stage[Head(queue)] = "queued" /\ Head(queue) \in Jobs
    BY <1>1, <2>1, WaitingPositive, TypesOfSequences
  <2>3. cur = NoJob /\ Len(solo) = 0 /\ Len(batch) = 0
    BY <1>1, <2>1, Lengths DEF Control
  <2>4. Len(idle) + Len(active) = made /\ made <= MaxSessions
    BY <1>2, <2>1, <2>3 DEF PoolConserved, HeldSessions
  <2>5. QED BY <1>1, <1>6, <2>1, <2>2, <2>3, <2>4 DEF Owned, TakeJob
<1>7. CASE IntakeWithoutSession
  <2>1. /\ TakeJob /\ CanIntake /\ RefuseJob
        /\ UNCHANGED <<sess, idle, made>>
    BY <1>7 DEF IntakeWithoutSession, genVars, poolVars
  <2>2. HeldSessions' = Len(active)
    BY <1>2, <1>6, <2>1 DEF RefuseJob, HeldSessions
  <2>3. QED BY <1>6, <2>1, <2>2 DEF PoolConserved
<1>8. CASE IntakeFails \/ Intake
  <2>1. TakeJob /\ CanIntake /\ TakeSession
    BY <1>8 DEF IntakeFails, Intake
  <2>2. made' <= MaxSessions /\ Len(idle') + Len(active) + 1 = made'
    BY <1>1, <1>6, <2>1, PoolTaken
  <2>3. HeldSessions' = Len(active) + 1
    <3>1. CASE IntakeFails
      <4>1. /\ active' = active /\ cur' = Head(queue) /\ sess'[cur'] # 0
        BY <1>1, <1>6, <2>1, <3>1, SessionTaken DEF IntakeFails, RefuseJob
      <4>2. QED BY <1>2, <1>3, <1>6, <2>1, <4>1 DEF HeldSessions
    <3>2. CASE Intake
      <4>1. active' = Append(active, Head(queue)) /\ cur' = NoJob
        BY <1>6, <2>1, <3>2 DEF Intake, retireVars
      <4>2. Len(active') = Len(active) + 1
        BY <1>1, <1>6, <2>1, <4>1, Lengths
      <4>3. QED BY <1>2, <1>6, <2>1, <4>1, <4>2 DEF HeldSessions
    <3>3. QED BY <1>8, <3>1, <3>2
  <2>4. QED BY <2>2, <2>3, <1>2, TypeInductive DEF PoolConserved, TypeOK
<1>9. CASE Refuse \/ FinishRetire
  <2>1. cur \in Jobs /\ pc # "exited" /\ cur' = NoJob /\ made' = made
    BY <1>9, HandsFull DEF Refuse, FinishRetire
  <2>2. UNCHANGED <<active, solo, batch>>
    BY <1>9 DEF Refuse, FinishRetire, loopVars
  <2>3. HeldSessions' = Len(active) + Len(solo) + Len(batch)
    BY <1>2, <2>1, <2>2 DEF HeldSessions
  <2>4. CASE sess[cur] = 0
    <3>1. pc = "refuse"
      BY <1>1, <1>9, <2>1, <2>4 DEF Owned, Hands, FinishRetire, Refuse
    <3>2. idle' = idle
      BY <1>9, <2>4, <3>1 DEF Refuse, FinishRetire
    <3>3. HeldSessions = Len(active) + Len(solo) + Len(batch)
      BY <1>2, <2>4, <3>1 DEF HeldSessions
    <3>4. QED BY <2>1, <2>3, <3>2, <3>3 DEF PoolConserved
  <2>5. CASE sess[cur] # 0
    <3>1. HeldSessions = Len(active) + Len(solo) + Len(batch) + 1
      BY <1>2, <1>3, <2>1, <2>5 DEF HeldSessions
    <3>2. made <= MaxSessions /\ Len(idle) + HeldSessions = made
      BY <2>1 DEF PoolConserved
    <3>3. PoolHasRoom
      BY <1>2, <3>1, <3>2 DEF PoolHasRoom
    <3>4. idle' = Append(idle, sess[cur])
      BY <1>9, <2>5, <3>3 DEF Refuse, FinishRetire, ReturnSession
    <3>5. Len(idle') = Len(idle) + 1
      BY <1>2, <2>1, <3>4, AppendOne
    <3>6. QED BY <1>2, <2>1, <2>3, <3>1, <3>2, <3>5 DEF PoolConserved
  <2>6. QED BY <2>4, <2>5
<1>10. CASE Exit
  BY <1>10 DEF Exit, PoolConserved
<1>11. QED
  BY <1>4, <1>5, <1>7, <1>8, <1>9, <1>10 DEF Next, Worker, Quantum, Exited

\* No session is lost, shared or created beyond max_sessions, on any path of
\* intake, fail_intake, a quantum, retire or shutdown, whatever fails.
THEOREM PoolIsConserved == Spec => [](Sessions /\ PoolConserved)
<1>1. Init => Sessions /\ PoolConserved
  <2>1. SUFFICES ASSUME Init PROVE Sessions /\ PoolConserved
    OBVIOUS
  <2>2. /\ active = <<>> /\ solo = <<>> /\ batch = <<>> /\ idle = <<>> /\ cur = NoJob
        /\ made = 0 /\ sess = [j \in Jobs |-> 0]
    BY <2>1 DEF Init
  <2>3. Hands = {} /\ Members(idle) = {} /\ Once(idle)
    BY <2>2, MembersEmpty, JobsAssumption DEF Hands, Streams
  <2>4. QED BY <2>2, <2>3, ConfigAssumption
       DEF Sessions, Apart, Owned, PoolConserved, HeldSessions
<1>2. Structure /\ Sessions /\ PoolConserved /\ [Next]_vars => (Sessions /\ PoolConserved)'
  BY SessionsInductive, PoolInductive
<1>3. QED BY <1>1, <1>2, StructureHolds, PTL DEF Spec

-----------------------------------------------------------------------------
(* The native batch group *)

\* The streams that may keep their place in the group.
Joined == Members(active) \cup Members(batch)

\* A stream that has a slot is one of them and the group has its session there;
\* every session in the group is there for such a stream.
Membership ==
  /\ \A j \in Jobs : slot[j] # 0 => j \in Joined /\ slots[slot[j]] = sess[j]
  /\ \A k \in 1..BatchSlots : slots[k] # 0 => \E j \in Jobs : slot[j] = k

LEMMA MembershipSafe ==
  ASSUME Structure, Sessions, Membership PROVE NoSoloUseInGroup
<1>1. TypeOK /\ Control /\ Placement /\ Apart /\ Owned
  BY DEF Structure, Sessions
<1>2. /\ slot \in [Jobs -> 0..BatchSlots] /\ sess \in [Jobs -> Nat]
      /\ solo \in Seq(Jobs) /\ made \in Nat
  BY <1>1 DEF TypeOK
<1>3. ASSUME NEW s \in Nat, s # 0, InGroup(s)
      PROVE  \E j \in Joined : j \in Jobs /\ sess[j] = s
  <2>1. PICK k \in 1..BatchSlots : slots[k] = s
    BY <1>3 DEF InGroup
  <2>2. PICK j \in Jobs : slot[j] = k
    BY <1>3, <2>1 DEF Membership
  <2>3. slot[j] # 0
    BY <2>1, <2>2
  <2>4. QED BY <2>1, <2>2, <2>3 DEF Membership
<1>4. cur # NoJob /\ sess[cur] # 0 => ~InGroup(sess[cur])
  <2>1. SUFFICES ASSUME cur # NoJob, sess[cur] # 0, InGroup(sess[cur]) PROVE FALSE
    OBVIOUS
  <2>2. cur \in Jobs /\ cur \notin Joined
    BY <1>1, <2>1, HandsFull DEF Placement, Joined
  <2>3. PICK j \in Joined : j \in Jobs /\ sess[j] = sess[cur]
    BY <1>2, <1>3, <2>1, <2>2
  <2>4. QED BY <1>1, <2>1, <2>2, <2>3 DEF Apart
<1>5. \A j \in Members(solo) : ~InGroup(sess[j])
  <2>1. SUFFICES ASSUME NEW i \in Members(solo), InGroup(sess[i]) PROVE FALSE
    OBVIOUS
  <2>2. i \in Jobs /\ i \notin Joined /\ sess[i] # 0
    BY <1>1, <1>2, <2>1, MembersIn DEF Placement, Joined, Owned, Hands, Streams
  <2>3. PICK j \in Joined : j \in Jobs /\ sess[j] = sess[i]
    BY <1>2, <1>3, <2>1, <2>2
  <2>4. QED BY <1>1, <2>2, <2>3 DEF Apart
<1>6. \A s \in Members(idle) : ~InGroup(s)
  <2>1. SUFFICES ASSUME NEW s \in Members(idle), InGroup(s) PROVE FALSE
    OBVIOUS
  <2>2. s \in Nat /\ s # 0
    BY <1>1, <1>2, <2>1 DEF Apart
  <2>3. QED BY <1>1, <1>3, <2>1, <2>2 DEF Apart
<1>7. QED BY <1>4, <1>5, <1>6 DEF NoSoloUseInGroup

\* Steps that touch no slot and take no member away.
LEMMA MembershipKept ==
  ASSUME Membership, UNCHANGED <<slot, slots>>,
         \A j \in Jobs : slot[j] # 0 => j \in Joined' /\ sess'[j] = sess[j]
  PROVE  Membership'
BY DEF Membership

\* Steps that take one stream out of the group and away from its members.
LEMMA MembershipLeft ==
  ASSUME TypeOK, Sessions, Membership, "remove" \notin Faults, NEW c \in Jobs,
         LeaveGroup(c), sess' = sess, Joined \subseteq Joined' \cup {c}
  PROVE  Membership'
<1>1. /\ slot \in [Jobs -> 0..BatchSlots] /\ slots \in [1..BatchSlots -> Nat]
      /\ sess \in [Jobs -> Nat] /\ Joined \subseteq Streams
  BY DEF TypeOK, Joined, Streams
<1>2. /\ slot' = [slot EXCEPT ![c] = 0]
      /\ slots' = IF slot[c] = 0 THEN slots ELSE [slots EXCEPT ![slot[c]] = 0]
  BY DEF LeaveGroup
<1>3. slot'[c] = 0 /\ \A j \in Jobs : j # c => slot'[j] = slot[j]
  BY <1>1, <1>2
<1>4. CASE slot[c] = 0
  BY <1>2, <1>3, <1>4 DEF Membership
<1>5. CASE slot[c] # 0
  <2>1. \A k \in 1..BatchSlots : slots'[k] = IF k = slot[c] THEN 0 ELSE slots[k]
    BY <1>1, <1>2, <1>5
  <2>2. c \in Joined /\ slots[slot[c]] = sess[c] /\ sess[c] # 0
    BY <1>1, <1>5 DEF Membership, Sessions, Owned, Hands
  <2>3. ASSUME NEW j \in Jobs, slot'[j] # 0
        PROVE  j \in Joined' /\ slots'[slot'[j]] = sess'[j]
    <3>1. j # c /\ slot'[j] = slot[j] /\ slot[j] \in 1..BatchSlots
      BY <1>1, <1>3, <2>3
    <3>2. j \in Joined /\ slots[slot[j]] = sess[j]
      BY <2>3, <3>1 DEF Membership
    <3>3. slot[j] # slot[c]
      BY <2>2, <3>1, <3>2 DEF Sessions, Apart
    <3>4. QED BY <2>1, <3>1, <3>2, <3>3
  <2>4. ASSUME NEW k \in 1..BatchSlots, slots'[k] # 0 PROVE \E j \in Jobs : slot'[j] = k
    <3>1. k # slot[c] /\ slots[k] # 0
      BY <2>1, <2>4
    <3>2. PICK j \in Jobs : slot[j] = k
      BY <3>1 DEF Membership
    <3>3. QED BY <1>3, <3>1, <3>2
  <2>5. QED BY <2>3, <2>4 DEF Membership
<1>6. QED BY <1>4, <1>5

\* AddMember: the lowest free slot, for a stream that has none.
LEMMA MembershipAdded ==
  ASSUME Structure, Sessions, Membership, AddMember PROVE Membership'
<1>1. TypeOK /\ Owned
  BY DEF Structure, Sessions
<1>2. /\ slot \in [Jobs -> 0..BatchSlots] /\ slots \in [1..BatchSlots -> Nat]
      /\ sess \in [Jobs -> Nat] /\ batch \in Seq(Jobs)
  BY <1>1 DEF TypeOK
<1>3. /\ slot' = [slot EXCEPT ![NextToAdd] = FirstFree]
      /\ slots' = [slots EXCEPT ![FirstFree] = sess[NextToAdd]]
      /\ FreeSlots # {} /\ Outside # {}
      /\ UNCHANGED <<sess, active, batch>>
  BY DEF AddMember, genVars, loopVars
<1>4. NextToAdd \in Members(batch) /\ NextToAdd \in Jobs
  BY <1>2, <1>3, NextToAddExists, MembersIn
<1>5. FirstFree \in 1..BatchSlots /\ slots[FirstFree] = 0
  BY <1>3, FirstFreeExists
<1>6. Joined' = Joined /\ NextToAdd \in Joined
  BY <1>3, <1>4 DEF Joined
<1>7. ASSUME NEW j \in Jobs, slot'[j] # 0 PROVE j \in Joined' /\ slots'[slot'[j]] = sess'[j]
  <2>1. CASE j = NextToAdd
    BY <1>2, <1>3, <1>4, <1>5, <1>6, <2>1
  <2>2. CASE j # NextToAdd
    <3>1. slot'[j] = slot[j] /\ slot[j] \in 1..BatchSlots
      BY <1>2, <1>3, <1>7, <2>2
    <3>2. j \in Joined /\ slots[slot[j]] = sess[j]
      BY <1>7, <3>1 DEF Membership
    <3>3. sess[j] # 0
      BY <1>1, <3>2 DEF Owned, Hands, Streams, Joined
    <3>4. slot[j] # FirstFree
      BY <1>5, <3>2, <3>3
    <3>5. slots'[slot[j]] = slots[slot[j]]
      BY <1>2, <1>3, <3>1, <3>4
    <3>6. QED BY <1>3, <1>6, <3>1, <3>2, <3>5
  <2>3. QED BY <2>1, <2>2
<1>8. ASSUME NEW k \in 1..BatchSlots, slots'[k] # 0 PROVE \E j \in Jobs : slot'[j] = k
  <2>1. CASE k = FirstFree
    BY <1>2, <1>3, <1>4, <1>5, <2>1
  <2>2. CASE k # FirstFree
    <3>1. slots[k] # 0
      BY <1>2, <1>3, <1>8, <2>2
    <3>2. PICK j \in Jobs : slot[j] = k
      BY <3>1 DEF Membership
    <3>3. slot[NextToAdd] = 0
      BY <1>2, <1>3, NextToAddExists
    <3>4. j # NextToAdd
      BY <3>2, <3>3
    <3>5. QED BY <1>2, <1>3, <3>2, <3>4
  <2>3. QED BY <2>1, <2>2
<1>9. QED BY <1>7, <1>8 DEF Membership

\* A decode step either retires the stream, out of the group, or pushes it back.
LEMMA FeedGroup ==
  ASSUME NEW j, NEW back, FeedToken(j, back)
  PROVE  \/ active' = active /\ LeaveGroup(j)
         \/ active' = Append(active, j) /\ UNCHANGED <<slot, slots>>
BY DEF FeedToken, StartRetire, PushBack, memberVars

LEMMA MembershipInductive ==
  ASSUME Structure, Sessions, Membership, "remove" \notin Faults, [Next]_vars
  PROVE  Membership'
<1>1. TypeOK /\ Control /\ Placement /\ Owned
  BY DEF Structure, Sessions
<1>2. /\ active \in Seq(Jobs) /\ batch \in Seq(Jobs) /\ solo \in Seq(Jobs)
      /\ sess \in [Jobs -> Nat] /\ slot \in [Jobs -> 0..BatchSlots]
      /\ slots \in [1..BatchSlots -> Nat]
  BY <1>1 DEF TypeOK
<1>3. \A s \in Seq(Jobs), e \in Jobs : Members(Append(s, e)) = Members(s) \cup {e}
  BY MembersAppend
<1>4. \A s \in Seq(Jobs) : s # <<>> =>
        /\ Head(s) \in Jobs /\ Tail(s) \in Seq(Jobs)
        /\ Members(s) = {Head(s)} \cup Members(Tail(s))
  BY MembersTail, HeadTail
<1>5. ASSUME UNCHANGED <<slot, slots, sess>>, Joined \subseteq Joined' PROVE Membership'
  BY <1>5, MembershipKept DEF Membership
<1>6. ASSUME NEW c \in Jobs, LeaveGroup(c), sess' = sess, Joined \subseteq Joined' \cup {c}
      PROVE  Membership'
  BY <1>1, <1>6, MembershipLeft
<1>7. CASE Handles \/ Clients \/ UNCHANGED vars
  <2>1. UNCHANGED <<sess, slot, slots, active, batch>>
    BY <1>7 DEF Handles, Clients, Reject, Admit, Submit, Receive, DropReceiver, Cancel,
         Close, Disconnect, vars, workerVars, genVars, memberVars, loopVars
  <2>2. QED BY <1>5, <2>1 DEF Joined
<1>8. CASE SkipIntake \/ EndSort \/ StepOn \/ EndSolo \/ EndScan \/ Fallback \/ BatchStep
           \/ EndBatch \/ FlushOwed \/ BeginShutdown \/ CreateGroup
  <2>1. UNCHANGED <<sess, slot, slots, active, batch>>
    BY <1>8 DEF SkipIntake, EndSort, StepOn, EndSolo, EndScan, Fallback, BatchStep, EndBatch,
         FlushOwed, BeginShutdown, CreateGroup, genVars, memberVars, loopVars
  <2>2. QED BY <1>5, <2>1 DEF Joined
<1>9. CASE NextSolo
  <2>1. UNCHANGED <<sess, slot, slots, active, batch>>
    BY <1>9 DEF NextSolo, genVars, memberVars
  <2>2. QED BY <1>5, <2>1 DEF Joined
<1>10. CASE SortIntoBatch
  <2>1. /\ UNCHANGED <<sess, slot, slots>> /\ active # <<>>
        /\ active' = Tail(active) /\ batch' = Append(batch, Head(active))
    BY <1>10, HandsFull DEF SortIntoBatch, genVars, memberVars
  <2>2. /\ Members(active) = {Head(active)} \cup Members(active')
        /\ Members(batch') = Members(batch) \cup {Head(active)}
    BY <1>2, <1>3, <1>4, <2>1
  <2>3. Joined' = Joined
    BY <2>2 DEF Joined
  <2>4. QED BY <1>5, <2>1, <2>3
<1>11. CASE SortIntoSolo
  <2>1. /\ sess' = sess /\ active # <<>> /\ LeaveGroup(Head(active))
        /\ active' = Tail(active) /\ batch' = batch
    BY <1>11, HandsFull DEF SortIntoSolo, genVars
  <2>2. Head(active) \in Jobs /\ Members(active) = {Head(active)} \cup Members(active')
    BY <1>2, <1>4, <2>1
  <2>3. Joined \subseteq Joined' \cup {Head(active)}
    BY <2>1, <2>2 DEF Joined
  <2>4. QED BY <1>6, <2>1, <2>2, <2>3
<1>12. CASE HoldLone
  <2>1. /\ UNCHANGED <<sess, slot, slots>> /\ batch # <<>> /\ Tail(batch) = <<>>
        /\ active' = Append(active, Head(batch)) /\ batch' = <<>>
    BY <1>2, <1>12, TailOfOne DEF HoldLone, memberVars
  <2>2. /\ Members(batch) = {Head(batch)} \cup Members(batch')
        /\ Members(active') = Members(active) \cup {Head(batch)}
    BY <1>2, <1>3, <1>4, <2>1
  <2>3. Joined' = Joined
    BY <2>1, <2>2, MembersEmpty DEF Joined
  <2>4. QED BY <1>5, <2>1, <2>3
<1>13. CASE LoneToSolo
  <2>1. /\ sess' = sess /\ batch # <<>> /\ Tail(batch) = <<>> /\ LeaveGroup(Head(batch))
        /\ active' = active /\ batch' = <<>>
    BY <1>2, <1>13, TailOfOne DEF LoneToSolo, genVars
  <2>2. Head(batch) \in Jobs /\ Members(batch) = {Head(batch)} \cup Members(batch')
    BY <1>2, <1>4, <2>1
  <2>3. Joined \subseteq Joined' \cup {Head(batch)}
    BY <2>1, <2>2 DEF Joined
  <2>4. QED BY <1>6, <2>1, <2>2, <2>3
<1>14. CASE StepCancelled \/ ResendClosed \/ DecodeFails
  <2>1. cur \in Jobs /\ LeaveGroup(cur) /\ UNCHANGED <<sess, active, batch>>
    BY <1>14, HandsFull
       DEF StepCancelled, ResendClosed, DecodeFails, StartRetire, genVars, loopVars
  <2>2. QED BY <1>6, <2>1 DEF Joined
<1>15. CASE ResendFull \/ DecodeOne \/ Resend
  <2>1. cur \in Jobs /\ UNCHANGED <<sess, batch>>
    BY <1>15, HandsFull DEF ResendFull, DecodeOne, Resend, genVars, loopVars
  <2>2. \/ active' = active /\ LeaveGroup(cur)
        \/ active' = active /\ UNCHANGED <<slot, slots>>
        \/ active' = Append(active, cur) /\ UNCHANGED <<slot, slots>>
    BY <1>15, FeedGroup DEF ResendFull, DecodeOne, Resend, StartRetire, PushBack, memberVars
  <2>3. Members(active) \subseteq Members(active')
    BY <1>2, <1>3, <2>1, <2>2
  <2>4. Joined \subseteq Joined'
    BY <2>1, <2>3 DEF Joined
  <2>5. QED BY <1>5, <1>6, <2>1, <2>2, <2>4
<1>16. CASE ScanKeep
  <2>1. /\ UNCHANGED <<sess, slot, slots, active>> /\ batch # <<>>
        /\ batch' = Append(Tail(batch), Head(batch))
    BY <1>16, HandsFull DEF ScanKeep, genVars, memberVars
  <2>2. /\ Head(batch) \in Jobs /\ Tail(batch) \in Seq(Jobs)
        /\ Members(batch) = {Head(batch)} \cup Members(Tail(batch))
    BY <1>2, <1>4, <2>1
  <2>3. Members(batch') = Members(batch)
    BY <1>3, <2>1, <2>2
  <2>4. QED BY <1>5, <2>1, <2>3 DEF Joined
<1>17. CASE ScanCancelled \/ NextUnbatched
  <2>1. /\ sess' = sess /\ batch # <<>> /\ LeaveGroup(Head(batch))
        /\ batch' = Tail(batch) /\ active' = active
    BY <1>17, HandsFull DEF ScanCancelled, NextUnbatched, StartRetire, Demote, genVars
  <2>2. Head(batch) \in Jobs /\ Members(batch) = {Head(batch)} \cup Members(batch')
    BY <1>2, <1>4, <2>1
  <2>3. Joined \subseteq Joined' \cup {Head(batch)}
    BY <2>1, <2>2 DEF Joined
  <2>4. QED BY <1>6, <2>1, <2>2, <2>3
<1>18. CASE FeedNext
  <2>1. sess' = sess /\ batch # <<>> /\ batch' = Tail(batch)
    BY <1>18 DEF FeedNext
  <2>2. \/ active' = active /\ LeaveGroup(Head(batch))
        \/ active' = Append(active, Head(batch)) /\ UNCHANGED <<slot, slots>>
    BY <1>18, FeedGroup DEF FeedNext
  <2>3. Head(batch) \in Jobs /\ Members(batch) = {Head(batch)} \cup Members(batch')
    BY <1>2, <1>4, <2>1
  <2>4. CASE active' = active /\ LeaveGroup(Head(batch))
    <3>1. Joined \subseteq Joined' \cup {Head(batch)}
      BY <2>3, <2>4 DEF Joined
    <3>2. QED BY <1>6, <2>1, <2>3, <2>4, <3>1
  <2>5. CASE active' = Append(active, Head(batch)) /\ UNCHANGED <<slot, slots>>
    <3>1. Members(active') = Members(active) \cup {Head(batch)}
      BY <1>2, <1>3, <2>3, <2>5
    <3>2. Joined' = Joined
      BY <2>3, <3>1 DEF Joined
    <3>3. QED BY <1>5, <2>1, <2>5, <3>2
  <2>6. QED BY <2>2, <2>4, <2>5
<1>19. CASE AddMember
  BY <1>19, MembershipAdded
<1>20. CASE Tidy
  <2>1. UNCHANGED <<sess, slot, active, batch>> /\ pc = "tidy"
    BY <1>20 DEF Tidy, genVars, loopVars
  <2>2. CASE ~(group /\ NoMembers)
    BY <1>5, <1>20, <2>1, <2>2 DEF Tidy, Joined
  <2>3. CASE group /\ NoMembers
    <3>1. batch = <<>>
      BY <1>1, <2>1 DEF Control
    <3>2. \A j \in Joined : slot[j] = 0
      BY <2>3, <3>1 DEF NoMembers, Joined, Members
    <3>3. \A j \in Jobs : slot[j] = 0
      BY <3>2 DEF Membership
    <3>4. slots' = [k \in 1..BatchSlots |-> 0]
      BY <1>20, <2>3 DEF Tidy
    <3>5. QED BY <2>1, <3>3, <3>4 DEF Membership
  <2>4. QED BY <2>2, <2>3
<1>21. CASE ShutdownNext
  <2>1. /\ sess' = sess /\ active # <<>> /\ LeaveGroup(Head(active))
        /\ active' = Tail(active) /\ batch' = batch
    BY <1>21 DEF ShutdownNext, genVars, loopVars
  <2>2. Head(active) \in Jobs /\ Members(active) = {Head(active)} \cup Members(active')
    BY <1>2, <1>4, <2>1
  <2>3. Joined \subseteq Joined' \cup {Head(active)}
    BY <2>1, <2>2 DEF Joined
  <2>4. QED BY <1>6, <2>1, <2>2, <2>3
<1>22. CASE IntakeWithoutSession \/ IntakeFails \/ Intake
  <2>1. TakeJob /\ CanIntake
    BY <1>22 DEF IntakeWithoutSession, IntakeFails, Intake
  <2>2. /\ Head(queue) \in Jobs /\ stage[Head(queue)] = "queued"
        /\ UNCHANGED <<slot, slots, batch>>
    BY <1>1, <2>1, WaitingPositive, TypesOfSequences DEF TakeJob, CanIntake, memberVars
  <2>3. \A j \in Jobs : j # Head(queue) => sess'[j] = sess[j]
    BY <1>2, <1>22, <2>2 DEF IntakeWithoutSession, IntakeFails, Intake, TakeSession, genVars
  <2>4. Head(queue) \notin Joined
    BY <1>1, <2>2 DEF Placement, Joined
  <2>5. active' = active \/ active' = Append(active, Head(queue))
    BY <1>22 DEF IntakeWithoutSession, IntakeFails, Intake, RefuseJob
  <2>6. Joined \subseteq Joined'
    BY <1>2, <1>3, <2>2, <2>5 DEF Joined
  <2>7. QED BY <2>2, <2>3, <2>4, <2>6, MembershipKept DEF Membership
<1>23. CASE Refuse \/ FinishRetire
  <2>1. cur \in Jobs /\ cur \notin Joined
    BY <1>1, <1>23, HandsFull, JobsAssumption DEF Refuse, FinishRetire, Placement, Joined
  <2>2. /\ UNCHANGED <<slot, slots, active, batch>>
        /\ sess' = [sess EXCEPT ![cur] = 0]
    BY <1>23 DEF Refuse, FinishRetire, memberVars, loopVars
  <2>3. Joined' = Joined
    BY <2>2 DEF Joined
  <2>4. \A j \in Jobs : j # cur => sess'[j] = sess[j]
    BY <1>2, <2>2
  <2>5. QED BY <2>1, <2>2, <2>3, <2>4, MembershipKept DEF Membership
<1>24. CASE Exit
  <2>1. slot' = slot /\ slots' = [k \in 1..BatchSlots |-> 0] /\ active = <<>> /\ batch = <<>>
    BY <1>1, <1>24 DEF Exit, Control
  <2>2. Joined = {}
    BY <2>1, MembersEmpty DEF Joined
  <2>3. \A j \in Jobs : slot[j] = 0
    BY <2>2 DEF Membership
  <2>4. QED BY <2>1, <2>3 DEF Membership
<1>25. QED
  BY <1>7, <1>8, <1>9, <1>10, <1>11, <1>12, <1>13, <1>14, <1>15, <1>16, <1>17, <1>18,
     <1>19, <1>20, <1>21, <1>22, <1>23, <1>24 DEF Next, Worker, Exited

\* As long as BatchGroup::remove does not fail, no session the native group
\* holds is decoded alone, reset, returned to the pool or kept by a stream that
\* is about to run alone.
THEOREM GroupIsExclusive ==
  ASSUME "remove" \notin Faults PROVE Spec => []NoSoloUseInGroup
<1>1. Init => Membership
  BY DEF Init, Membership
<1>2. Structure /\ Sessions /\ Membership /\ [Next]_vars => Membership'
  BY MembershipInductive
<1>3. Structure /\ Sessions /\ Membership => NoSoloUseInGroup
  BY MembershipSafe
<1>4. Spec => []Sessions
  BY PoolIsConserved, PTL
<1>5. QED BY <1>1, <1>2, <1>3, <1>4, StructureHolds, PTL DEF Spec

-----------------------------------------------------------------------------
(* Round robin *)

\* The quantum a stream may have sat out.
SatOut(j) == IF held[j] THEN 1 ELSE 0

Fresh == {"new", "admitted", "rejected", "queued"}

\* A stream in the active set, or being stepped, has been served in every
\* quantum it entered but the one it sat out; one in a segment has entered a
\* quantum more.
Served ==
  /\ \A j \in Members(active) : skips[j] = SatOut(j)
  /\ pc \in {"step", "decode"} => skips[cur] = SatOut(cur)
  /\ \A j \in Members(solo) \cup Members(batch) : skips[j] = SatOut(j) + 1
  /\ \A j \in Jobs : stage[j] \in Fresh => skips[j] = 0 /\ ~held[j]

LEMMA ServedInductive ==
  ASSUME Structure, Served, [Next]_vars PROVE Served'
<1>1. TypeOK /\ Control /\ Placement
  BY DEF Structure
<1>2. /\ active \in Seq(Jobs) /\ batch \in Seq(Jobs) /\ solo \in Seq(Jobs)
      /\ queue \in Seq(Jobs) /\ skips \in [Jobs -> Int] /\ held \in [Jobs -> BOOLEAN]
      /\ stage \in [Jobs -> Stages]
  BY <1>1 DEF TypeOK
<1>3. \A s \in Seq(Jobs), e \in Jobs : Members(Append(s, e)) = Members(s) \cup {e}
  BY MembersAppend
<1>4. \A s \in Seq(Jobs) : s # <<>> =>
        /\ Head(s) \in Jobs /\ Tail(s) \in Seq(Jobs)
        /\ Members(s) = {Head(s)} \cup Members(Tail(s))
        /\ Once(s) => Head(s) \notin Members(Tail(s))
  BY MembersTail, HeadTail
<1>5. /\ Members(active) \subseteq Jobs /\ Members(solo) \subseteq Jobs
      /\ Members(batch) \subseteq Jobs
  BY <1>2, MembersIn
<1>6. \A j \in Jobs : SatOut(j) \in {0, 1}
  BY DEF SatOut
<1>7. /\ Once(active) /\ Once(solo) /\ Once(batch)
      /\ Members(active) \cap Members(solo) = {}
      /\ Members(active) \cap Members(batch) = {}
      /\ Members(solo) \cap Members(batch) = {}
      /\ cur \notin Members(active) \cup Members(solo) \cup Members(batch)
      /\ \A j \in Members(active) \cup Members(solo) \cup Members(batch) : stage[j] \notin Fresh
      /\ cur # NoJob => stage[cur] \notin Fresh
  BY <1>1 DEF Placement, Fresh
<1>8. ASSUME UNCHANGED <<skips, held, active, solo, batch, cur>>,
             \A j \in Jobs : stage'[j] \in Fresh => stage[j] \in Fresh,
             pc' \in {"step", "decode"} => pc \in {"step", "decode"}
      PROVE  Served'
  BY <1>8 DEF Served, SatOut
<1>9. CASE Handles \/ Clients \/ UNCHANGED vars
  <2>1. UNCHANGED <<skips, held, active, solo, batch, cur, pc>>
    BY <1>9 DEF Handles, Clients, Reject, Admit, Submit, Receive, DropReceiver, Cancel,
         Close, Disconnect, vars, workerVars, genVars, loopVars, retireVars, history
  <2>2. \A j \in Jobs : stage'[j] \in Fresh => stage[j] \in Fresh
    BY <1>2, <1>9 DEF Handles, Clients, Reject, Admit, Submit, Receive, DropReceiver, Cancel,
         Close, Disconnect, vars, handleVars, Fresh
  <2>3. QED BY <1>8, <2>1, <2>2
<1>10. CASE SkipIntake \/ EndSort \/ StepOn \/ EndSolo \/ EndScan \/ Fallback \/ BatchStep
            \/ EndBatch \/ FlushOwed \/ BeginShutdown \/ CreateGroup \/ AddMember \/ Tidy
  <2>1. UNCHANGED <<skips, held, active, solo, batch, cur, stage>>
    BY <1>10 DEF SkipIntake, EndSort, StepOn, EndSolo, EndScan, Fallback, BatchStep, EndBatch,
         FlushOwed, BeginShutdown, CreateGroup, AddMember, Tidy, handleVars, genVars, loopVars,
         retireVars, history
  <2>2. pc' \in {"step", "decode"} => pc \in {"step", "decode"}
    BY <1>10 DEF SkipIntake, EndSort, StepOn, EndSolo, EndScan, Fallback, BatchStep, EndBatch,
         FlushOwed, BeginShutdown, CreateGroup, AddMember, Tidy
  <2>3. QED BY <1>8, <2>1, <2>2
<1>11. CASE StepCancelled \/ ResendClosed \/ DecodeFails \/ Resend
  <2>1. UNCHANGED <<skips, held, active, solo, batch, cur, stage>>
    BY <1>11 DEF StepCancelled, ResendClosed, DecodeFails, Resend, StartRetire, handleVars,
         genVars, loopVars, retireVars, history
  <2>2. pc' \in {"step", "decode"} => pc \in {"step", "decode"}
    BY <1>11 DEF StepCancelled, ResendClosed, DecodeFails, Resend
  <2>3. QED BY <1>8, <2>1, <2>2
<1>12. CASE ResendFull \/ DecodeOne
  <2>1. /\ cur \in Jobs /\ skips[cur] = SatOut(cur)
        /\ UNCHANGED <<skips, held, solo, batch, stage>>
    BY <1>12, HandsFull DEF ResendFull, DecodeOne, Served, handleVars, genVars, loopVars,
       history
  <2>2. ret \in {"solo", "unbatch"}
    BY <1>1, <1>12 DEF ResendFull, DecodeOne, Control
  <2>3. pc' \notin {"step", "decode"}
    BY <1>12, <2>2, FeedOutcome DEF ResendFull, DecodeOne, PushBack
  <2>4. active' = active \/ active' = Append(active, cur)
    BY <1>12, FeedOutcome DEF ResendFull, DecodeOne, PushBack
  <2>5. Members(active') \subseteq Members(active) \cup {cur}
    BY <1>2, <1>3, <2>1, <2>4
  <2>6. QED BY <2>1, <2>3, <2>5 DEF Served, SatOut
<1>13. CASE SortIntoBatch \/ SortIntoSolo
  <2>1. active # <<>>
    BY <1>13, HandsFull DEF SortIntoBatch, SortIntoSolo
  <2>2. /\ active' = Tail(active) /\ pc' = "sort" /\ UNCHANGED <<held, stage>>
        /\ skips' = [skips EXCEPT ![Head(active)] = Entered(skips[Head(active)])]
    BY <1>13 DEF SortIntoBatch, SortIntoSolo, handleVars, genVars
  <2>3. /\ Head(active) \in Jobs /\ Head(active) \notin Members(active')
        /\ Members(active) = {Head(active)} \cup Members(active')
    BY <1>2, <1>4, <1>7, <2>1, <2>2
  <2>4. /\ Members(solo') \subseteq Members(solo) \cup {Head(active)}
        /\ Members(batch') \subseteq Members(batch) \cup {Head(active)}
    BY <1>2, <1>3, <1>13, <2>3 DEF SortIntoBatch, SortIntoSolo
  <2>5. skips[Head(active)] = SatOut(Head(active))
    BY <2>3 DEF Served
  <2>6. skips'[Head(active)] = SatOut(Head(active)) + 1
    <3>1. skips'[Head(active)] = Entered(skips[Head(active)])
      BY <1>2, <2>2, <2>3
    <3>2. SatOut(Head(active)) \in {0, 1}
      BY <1>6, <2>3
    <3>3. QED BY <2>5, <3>1, <3>2 DEF Entered, SkipBound
  <2>7. \A j \in Jobs : j # Head(active) => skips'[j] = skips[j]
    BY <1>2, <2>2, <2>3
  <2>8. \A j \in Jobs : SatOut(j)' = SatOut(j)
    BY <2>2 DEF SatOut
  <2>9. QED BY <1>5, <1>7, <2>2, <2>3, <2>4, <2>6, <2>7, <2>8 DEF Served
<1>14. CASE HoldLone
  <2>1. /\ batch # <<>> /\ active' = Append(active, Head(batch)) /\ batch' = <<>>
        /\ pc' = "solo" /\ UNCHANGED <<skips, solo, stage>>
        /\ held' = [held EXCEPT ![Head(batch)] = TRUE] /\ ~held[Head(batch)]
    BY <1>2, <1>14, TailOfOne DEF HoldLone, MarkHeld, handleVars, history
  <2>2. PICK h \in Jobs : h = Head(batch)
    BY <1>2, <1>4, <2>1
  <2>3. /\ h \in Members(batch)
        /\ Members(active') = Members(active) \cup {h} /\ Members(batch') = {}
    BY <1>2, <1>3, <1>4, <2>1, <2>2, MembersEmpty
  <2>4. held'[h] = TRUE /\ \A j \in Jobs : j # h => held'[j] = held[j]
    BY <1>2, <2>1, <2>2
  <2>5. skips[h] = 1
    BY <2>1, <2>2, <2>3 DEF Served, SatOut
  <2>6. SatOut(h)' = 1 /\ \A j \in Jobs : j # h => SatOut(j)' = SatOut(j)
    BY <2>4 DEF SatOut
  <2>7. h \notin Members(active) \cup Members(solo) /\ stage[h] \notin Fresh
    BY <1>7, <2>3
  <2>8. \A j \in Members(active') : skips'[j] = SatOut(j)'
    BY <1>5, <2>1, <2>3, <2>5, <2>6, <2>7 DEF Served
  <2>9. \A j \in Members(solo') \cup Members(batch') : skips'[j] = SatOut(j)' + 1
    BY <1>5, <2>1, <2>3, <2>6, <2>7 DEF Served
  <2>10. \A j \in Jobs : stage'[j] \in Fresh => skips'[j] = 0 /\ ~held'[j]
    BY <2>1, <2>4, <2>7 DEF Served
  <2>11. QED BY <2>1, <2>8, <2>9, <2>10 DEF Served
<1>15. CASE LoneToSolo
  <2>1. /\ batch # <<>> /\ solo' = Append(solo, Head(batch)) /\ batch' = <<>>
        /\ pc' = "solo" /\ UNCHANGED <<skips, held, active, stage>>
    BY <1>2, <1>15, TailOfOne DEF LoneToSolo, handleVars, genVars, history
  <2>2. /\ Head(batch) \in Members(batch)
        /\ Members(solo') = Members(solo) \cup {Head(batch)} /\ Members(batch') = {}
    BY <1>2, <1>3, <1>4, <2>1, MembersEmpty
  <2>3. QED BY <2>1, <2>2 DEF Served, SatOut
<1>16. CASE NextSolo
  <2>1. /\ solo # <<>> /\ cur' = Head(solo) /\ solo' = Tail(solo) /\ pc' = "step"
        /\ UNCHANGED <<held, active, batch, stage>>
        /\ skips' = [skips EXCEPT ![Head(solo)] = skips[Head(solo)] - 1]
    BY <1>16 DEF NextSolo, handleVars, genVars
  <2>2. /\ Head(solo) \in Jobs /\ Head(solo) \notin Members(solo')
        /\ Members(solo) = {Head(solo)} \cup Members(solo')
    BY <1>2, <1>4, <1>7, <2>1
  <2>3. skips'[Head(solo)] = SatOut(Head(solo))
    <3>1. skips'[Head(solo)] = skips[Head(solo)] - 1
      BY <1>2, <2>1, <2>2
    <3>2. skips[Head(solo)] = SatOut(Head(solo)) + 1
      BY <2>2 DEF Served
    <3>3. SatOut(Head(solo)) \in {0, 1}
      BY <1>6, <2>2
    <3>4. QED BY <3>1, <3>2, <3>3
  <2>4. \A j \in Jobs : j # Head(solo) => skips'[j] = skips[j]
    BY <1>2, <2>1, <2>2
  <2>5. \A j \in Jobs : SatOut(j)' = SatOut(j)
    BY <2>1 DEF SatOut
  <2>6. SatOut(cur)' = SatOut(Head(solo))
    BY <2>1 DEF SatOut
  <2>7. QED BY <1>5, <1>7, <2>1, <2>2, <2>3, <2>4, <2>5, <2>6 DEF Served
<1>17. CASE NextUnbatched
  <2>1. /\ batch # <<>> /\ cur' = Head(batch) /\ batch' = Tail(batch) /\ pc' = "step"
        /\ UNCHANGED <<held, active, solo, stage>>
        /\ skips' = [skips EXCEPT ![Head(batch)] = skips[Head(batch)] - 1]
    BY <1>17 DEF NextUnbatched, handleVars, genVars
  <2>2. /\ Head(batch) \in Jobs /\ Head(batch) \notin Members(batch')
        /\ Members(batch) = {Head(batch)} \cup Members(batch')
    BY <1>2, <1>4, <1>7, <2>1
  <2>3. skips'[Head(batch)] = SatOut(Head(batch))
    <3>1. skips'[Head(batch)] = skips[Head(batch)] - 1
      BY <1>2, <2>1, <2>2
    <3>2. skips[Head(batch)] = SatOut(Head(batch)) + 1
      BY <2>2 DEF Served
    <3>3. SatOut(Head(batch)) \in {0, 1}
      BY <1>6, <2>2
    <3>4. QED BY <3>1, <3>2, <3>3
  <2>4. \A j \in Jobs : j # Head(batch) => skips'[j] = skips[j]
    BY <1>2, <2>1, <2>2
  <2>5. \A j \in Jobs : SatOut(j)' = SatOut(j)
    BY <2>1 DEF SatOut
  <2>6. SatOut(cur)' = SatOut(Head(batch))
    BY <2>1 DEF SatOut
  <2>7. QED BY <1>5, <1>7, <2>1, <2>2, <2>3, <2>4, <2>5, <2>6 DEF Served
<1>18. CASE FeedNext
  <2>1. /\ batch # <<>> /\ batch' = Tail(batch) /\ UNCHANGED <<held, solo, stage>>
        /\ skips' = [skips EXCEPT ![Head(batch)] = skips[Head(batch)] - 1]
    BY <1>18 DEF FeedNext, handleVars
  <2>2. /\ Head(batch) \in Jobs /\ Head(batch) \notin Members(batch')
        /\ Members(batch) = {Head(batch)} \cup Members(batch')
    BY <1>2, <1>4, <1>7, <2>1
  <2>3. skips'[Head(batch)] = SatOut(Head(batch))
    <3>1. skips'[Head(batch)] = skips[Head(batch)] - 1
      BY <1>2, <2>1, <2>2
    <3>2. skips[Head(batch)] = SatOut(Head(batch)) + 1
      BY <2>2 DEF Served
    <3>3. SatOut(Head(batch)) \in {0, 1}
      BY <1>6, <2>2
    <3>4. QED BY <3>1, <3>2, <3>3
  <2>4. \A j \in Jobs : j # Head(batch) => skips'[j] = skips[j]
    BY <1>2, <2>1, <2>2
  <2>5. \A j \in Jobs : SatOut(j)' = SatOut(j)
    BY <2>1 DEF SatOut
  <2>6. /\ pc' \notin {"step", "decode"}
        /\ active' = active \/ active' = Append(active, Head(batch))
    BY <1>18, FeedOutcome DEF FeedNext
  <2>7. Members(active') \subseteq Members(active) \cup {Head(batch)}
    BY <1>2, <1>3, <2>2, <2>6
  <2>8. QED BY <1>5, <1>7, <2>1, <2>2, <2>3, <2>4, <2>5, <2>6, <2>7 DEF Served
<1>19. CASE ScanKeep
  <2>1. /\ batch # <<>> /\ batch' = Append(Tail(batch), Head(batch)) /\ pc' = "scan"
        /\ UNCHANGED <<skips, held, active, solo, stage>>
    BY <1>19, HandsFull DEF ScanKeep, handleVars, genVars, history
  <2>2. /\ Head(batch) \in Jobs /\ Tail(batch) \in Seq(Jobs)
        /\ Members(batch) = {Head(batch)} \cup Members(Tail(batch))
    BY <1>2, <1>4, <2>1
  <2>3. Members(batch') = Members(batch)
    BY <1>3, <2>1, <2>2
  <2>4. QED BY <2>1, <2>3 DEF Served, SatOut
<1>20. CASE ScanCancelled \/ ShutdownNext
  <2>1. /\ pc' = "retire" /\ UNCHANGED <<skips, held, solo, stage>>
        /\ \/ batch # <<>> /\ batch' = Tail(batch) /\ active' = active
           \/ active # <<>> /\ active' = Tail(active) /\ batch' = batch
    BY <1>20, HandsFull DEF ScanCancelled, ShutdownNext, StartRetire, handleVars, genVars,
         loopVars, history
  <2>2. Members(active') \subseteq Members(active) /\ Members(batch') \subseteq Members(batch)
    <3>1. batch # <<>> => Members(Tail(batch)) \subseteq Members(batch)
      BY <1>2, <1>4
    <3>2. active # <<>> => Members(Tail(active)) \subseteq Members(active)
      BY <1>2, <1>4
    <3>3. QED BY <2>1, <3>1, <3>2
  <2>3. QED BY <2>1, <2>2 DEF Served, SatOut
<1>21. CASE IntakeWithoutSession \/ IntakeFails \/ Intake
  <2>1. TakeJob /\ CanIntake
    BY <1>21 DEF IntakeWithoutSession, IntakeFails, Intake
  <2>2. /\ Head(queue) \in Jobs /\ stage[Head(queue)] = "queued"
        /\ stage' = [stage EXCEPT ![Head(queue)] = "running"] /\ UNCHANGED <<solo, batch>>
    BY <1>1, <2>1, WaitingPositive, TypesOfSequences DEF TakeJob, CanIntake
  <2>3. skips[Head(queue)] = SatOut(Head(queue))
    BY <2>2 DEF Served, SatOut, Fresh
  <2>4. UNCHANGED <<skips, held>> /\ pc' \notin {"step", "decode"}
    BY <1>21 DEF IntakeWithoutSession, IntakeFails, Intake, RefuseJob, genVars
  <2>5. active' = active \/ active' = Append(active, Head(queue))
    BY <1>21 DEF IntakeWithoutSession, IntakeFails, Intake, RefuseJob
  <2>6. Members(active') \subseteq Members(active) \cup {Head(queue)}
    BY <1>2, <1>3, <2>2, <2>5
  <2>7. \A j \in Jobs : stage'[j] \in Fresh => stage[j] \in Fresh
    BY <1>2, <2>2 DEF Fresh
  <2>8. QED BY <2>2, <2>3, <2>4, <2>6, <2>7 DEF Served, SatOut
<1>22. CASE Refuse \/ FinishRetire
  <2>1. /\ UNCHANGED <<skips, held, active, solo, batch>> /\ cur \in Jobs
        /\ stage' = [stage EXCEPT ![cur] = "done"]
    BY <1>22, HandsFull DEF Refuse, FinishRetire, loopVars
  <2>2. pc' \notin {"step", "decode"}
    BY <1>1, <1>22 DEF Refuse, FinishRetire, Control
  <2>3. \A j \in Jobs : stage'[j] \in Fresh => stage[j] \in Fresh
    BY <1>2, <2>1 DEF Fresh
  <2>4. QED BY <2>1, <2>2, <2>3 DEF Served, SatOut
<1>23. CASE Exit
  <2>1. UNCHANGED <<skips, held, active, solo, batch, cur>> /\ pc' = "exited"
    BY <1>23 DEF Exit, genVars, loopVars, retireVars, history
  <2>2. \A j \in Jobs : stage'[j] \in Fresh => stage[j] \in Fresh
    BY <1>2, <1>23 DEF Exit, Fresh
  <2>3. QED BY <1>8, <2>1, <2>2
<1>24. QED
  BY <1>9, <1>10, <1>11, <1>12, <1>13, <1>14, <1>15, <1>16, <1>17, <1>18, <1>19, <1>20,
     <1>21, <1>22, <1>23 DEF Next, Worker, Exited

\* Every quantum advances every active stream by one step, except that a lone
\* batchable stream may sit out one quantum in its whole life.
THEOREM RoundRobin == Spec => []EveryQuantumServes
<1>1. Init => Served
  BY MembersEmpty DEF Init, Served
<1>2. Structure /\ Served /\ [Next]_vars => Served'
  BY ServedInductive
<1>3. Served => EveryQuantumServes
  BY DEF Served, SatOut, EveryQuantumServes
<1>4. QED BY <1>1, <1>2, <1>3, StructureHolds, PTL DEF Spec

-----------------------------------------------------------------------------
(* The length limit *)

\* A stream with nothing owed is below its limit wherever it may be decoded
\* from, and the batch segment holds none that owes a token.
Limits ==
  /\ \A j \in Jobs : stage[j] \in Fresh => generated[j] = 0 /\ pending[j] = 0
  /\ \A j \in Streams : pending[j] = 0 => generated[j] < MaxNew
  /\ pc = "step" /\ pending[cur] = 0 => generated[cur] < MaxNew
  /\ pc = "decode" => generated[cur] < MaxNew
  /\ \A j \in Members(batch) : pending[j] = 0

\* What a decode step does to the stream's counters.
LEMMA FeedLimits ==
  ASSUME TypeOK, NEW j \in Jobs, NEW back, FeedToken(j, back)
  PROVE  /\ \A i \in Jobs : i # j => generated'[i] = generated[i] /\ pending'[i] = pending[i]
         /\ \/ cur' = j /\ pc' = "retire" /\ active' = active
            \/ /\ cur' = NoJob /\ pc' = back /\ active' = Append(active, j)
               /\ pending'[j] = 0 => generated'[j] < MaxNew
<1>1. /\ generated \in [Jobs -> Nat] /\ pending \in [Jobs -> Nat] /\ MaxNew \in Nat
  BY ConfigAssumption DEF TypeOK
<1>2. \/ UNCHANGED <<generated, pending>>
      \/ /\ generated' = [generated EXCEPT ![j] = generated[j] + 1]
         /\ pending' = pending \/ pending' = [pending EXCEPT ![j] = generated'[j]]
  BY DEF FeedToken, StashToken
<1>3. \A i \in Jobs : i # j => generated'[i] = generated[i] /\ pending'[i] = pending[i]
  BY <1>1, <1>2
<1>4. CASE UNCHANGED generated
  <2>1. generated'[j] # generated[j] + 1
    BY <1>1, <1>4
  <2>2. StartRetire(j, "stop", back)
    <3>1. generated' # [generated EXCEPT ![j] = generated[j] + 1]
      BY <1>1, <2>1
    <3>2. QED BY <3>1 DEF FeedToken
  <2>3. QED BY <1>3, <2>2 DEF StartRetire
<1>5. CASE generated' = [generated EXCEPT ![j] = generated[j] + 1]
  <2>1. generated'[j] = generated[j] + 1 /\ generated'[j] # 0
    BY <1>1, <1>5
  <2>2. \/ StartRetire(j, "stop", back) \/ StartRetire(j, "cancelled", back)
        \/ StartRetire(j, "length", back)
        \/ PushBack(j, back) /\ pending' = [pending EXCEPT ![j] = generated'[j]]
        \/ PushBack(j, back) /\ ~AtLimit(generated'[j])
    BY DEF FeedToken, StashToken
  <2>3. CASE \/ StartRetire(j, "stop", back) \/ StartRetire(j, "cancelled", back)
             \/ StartRetire(j, "length", back)
    BY <1>3, <2>3 DEF StartRetire
  <2>4. CASE PushBack(j, back) /\ pending' = [pending EXCEPT ![j] = generated'[j]]
    <3>1. pending'[j] # 0
      BY <1>1, <2>1, <2>4
    <3>2. QED BY <1>3, <2>4, <3>1 DEF PushBack
  <2>5. CASE PushBack(j, back) /\ ~AtLimit(generated'[j])
    <3>1. generated'[j] < MaxNew
      BY <1>1, <2>1, <2>5 DEF AtLimit
    <3>2. QED BY <1>3, <2>5, <3>1 DEF PushBack
  <2>6. QED BY <2>2, <2>3, <2>4, <2>5
<1>6. QED BY <1>2, <1>4, <1>5

LEMMA LimitsInductive ==
  ASSUME Structure, Limits, [Next]_vars PROVE Limits'
<1>1. TypeOK /\ Control /\ Placement
  BY DEF Structure
<1>2. /\ active \in Seq(Jobs) /\ batch \in Seq(Jobs) /\ solo \in Seq(Jobs)
      /\ generated \in [Jobs -> Nat] /\ pending \in [Jobs -> Nat]
      /\ stage \in [Jobs -> Stages] /\ MaxNew \in Nat \ {0}
  BY <1>1, ConfigAssumption DEF TypeOK
<1>3. \A s \in Seq(Jobs), e \in Jobs : Members(Append(s, e)) = Members(s) \cup {e}
  BY MembersAppend
<1>4. \A s \in Seq(Jobs) : s # <<>> =>
        /\ Head(s) \in Jobs /\ Tail(s) \in Seq(Jobs)
        /\ Members(s) = {Head(s)} \cup Members(Tail(s))
        /\ Once(s) => Head(s) \notin Members(Tail(s))
  BY MembersTail, HeadTail
<1>5. Streams \subseteq Jobs
  BY <1>1, StreamsAreJobs
<1>6. /\ \A j \in Streams : stage[j] \notin Fresh
      /\ cur # NoJob => stage[cur] \notin Fresh /\ cur \notin Streams
      /\ Once(batch) /\ Once(solo) /\ Once(active)
      /\ Members(batch) \cap (Members(active) \cup Members(solo)) = {}
  BY <1>1 DEF Placement, Fresh, Streams
<1>7. ASSUME UNCHANGED <<generated, pending, active, solo, batch, cur>>,
             \A j \in Jobs : stage'[j] \in Fresh => stage[j] \in Fresh,
             pc' = "step" => pc = "step", pc' = "decode" => pc = "decode"
      PROVE  Limits'
  BY <1>7 DEF Limits, Streams
<1>8. CASE Handles \/ Clients \/ UNCHANGED vars
  <2>1. UNCHANGED <<generated, pending, active, solo, batch, cur, pc>>
    BY <1>8 DEF Handles, Clients, Reject, Admit, Submit, Receive, DropReceiver, Cancel,
         Close, Disconnect, vars, workerVars, genVars, loopVars, retireVars
  <2>2. \A j \in Jobs : stage'[j] \in Fresh => stage[j] \in Fresh
    BY <1>2, <1>8 DEF Handles, Clients, Reject, Admit, Submit, Receive, DropReceiver, Cancel,
         Close, Disconnect, vars, handleVars, Fresh
  <2>3. QED BY <1>7, <2>1, <2>2
<1>9. CASE SkipIntake \/ EndSort \/ EndSolo \/ EndScan \/ Fallback \/ BatchStep
            \/ EndBatch \/ BeginShutdown \/ CreateGroup \/ AddMember \/ Tidy
            \/ StepCancelled \/ DecodeFails
  <2>1. UNCHANGED <<generated, pending, active, solo, batch, cur, stage>>
    BY <1>9 DEF SkipIntake, EndSort, EndSolo, EndScan, Fallback, BatchStep, EndBatch,
         BeginShutdown, CreateGroup, AddMember, Tidy, StepCancelled, DecodeFails, StartRetire,
         handleVars, genVars, loopVars, retireVars
  <2>2. pc' \notin {"step", "decode"}
    BY <1>9 DEF SkipIntake, EndSort, EndSolo, EndScan, Fallback, BatchStep, EndBatch,
         BeginShutdown, CreateGroup, AddMember, Tidy, StepCancelled, DecodeFails, StartRetire
  <2>3. QED BY <1>7, <2>1, <2>2
<1>10. CASE StepOn
  <2>1. /\ UNCHANGED <<generated, pending, active, solo, batch, cur, stage>>
        /\ pc' = "decode" /\ pc = "step" /\ pending[cur] = 0
    BY <1>10 DEF StepOn, handleVars, genVars, loopVars, retireVars
  <2>2. QED BY <2>1 DEF Limits, Streams
<1>11. CASE ResendClosed \/ Resend \/ FlushOwed
  <2>1. /\ cur \in Jobs /\ UNCHANGED <<generated, active, solo, batch, cur, stage>>
        /\ pending' = [pending EXCEPT ![cur] = 0]
    BY <1>11, HandsFull DEF ResendClosed, Resend, FlushOwed, StartRetire, handleVars, loopVars,
         retireVars
  <2>2. \A j \in Jobs : j # cur => pending'[j] = pending[j]
    BY <1>2, <2>1
  <2>3. pc' = "retire" \/ (pc' = "decode" /\ ~AtLimit(generated[cur]))
    BY <1>11 DEF ResendClosed, Resend, FlushOwed, StartRetire, OwedWasLast
  <2>4. pc' = "retire" \/ (pc' = "decode" /\ generated[cur] < MaxNew)
    BY <1>2, <2>1, <2>3 DEF AtLimit
  <2>5. cur \notin Streams /\ stage[cur] \notin Fresh
    BY <1>6, <2>1, JobsAssumption
  <2>6. Members(batch) \subseteq Streams /\ Streams' = Streams
    BY <2>1 DEF Streams
  <2>7. QED BY <1>5, <2>1, <2>2, <2>4, <2>5, <2>6 DEF Limits
<1>12. CASE ResendFull
  <2>1. /\ cur \in Jobs /\ UNCHANGED <<generated, pending, solo, batch, stage>>
        /\ pending[cur] # 0 /\ active' = Append(active, cur)
    BY <1>12, HandsFull DEF ResendFull, PushBack, handleVars, genVars, loopVars
  <2>2. pc' \notin {"step", "decode"}
    BY <1>1, <1>12 DEF ResendFull, PushBack, Control
  <2>3. Streams' = Streams \cup {cur}
    <3>1. Members(active') = Members(active) \cup {cur}
      BY <1>2, <1>3, <2>1
    <3>2. QED BY <2>1, <3>1 DEF Streams
  <2>4. QED BY <2>1, <2>2, <2>3 DEF Limits
<1>13. CASE DecodeOne \/ FeedNext
  <2>1. PICK j \in Jobs, back \in {"solo", "unbatch", "feed"} :
          /\ FeedToken(j, back) /\ stage[j] \notin Fresh
          /\ UNCHANGED <<solo, stage>> /\ Members(batch') \subseteq Members(batch)
          /\ j \notin Members(active) \cup Members(solo) \cup Members(batch')
    <3>1. CASE DecodeOne
      <4>1. cur \in Jobs /\ ret \in {"solo", "unbatch"} /\ UNCHANGED <<solo, batch, stage>>
        BY <1>1, <3>1, HandsFull DEF DecodeOne, Control, handleVars, loopVars
      <4>2. cur \notin Streams /\ stage[cur] \notin Fresh
        BY <1>6, <4>1, JobsAssumption
      <4>3. QED BY <3>1, <4>1, <4>2 DEF DecodeOne, Streams
    <3>2. CASE FeedNext
      <4>1. batch # <<>> /\ batch' = Tail(batch) /\ UNCHANGED <<solo, stage>>
        BY <3>2 DEF FeedNext, handleVars
      <4>2. /\ Head(batch) \in Jobs /\ Head(batch) \notin Members(batch')
            /\ Members(batch) = {Head(batch)} \cup Members(batch')
        BY <1>2, <1>4, <1>6, <4>1
      <4>3. /\ Head(batch) \notin Members(active) \cup Members(solo)
            /\ stage[Head(batch)] \notin Fresh
        BY <1>6, <4>2 DEF Streams
      <4>4. QED BY <3>2, <4>1, <4>2, <4>3 DEF FeedNext
    <3>3. QED BY <1>13, <3>1, <3>2
  <2>2. /\ \A i \in Jobs : i # j => generated'[i] = generated[i] /\ pending'[i] = pending[i]
        /\ \/ cur' = j /\ pc' = "retire" /\ active' = active
           \/ /\ cur' = NoJob /\ pc' = back /\ active' = Append(active, j)
              /\ pending'[j] = 0 => generated'[j] < MaxNew
    BY <1>1, <2>1, FeedLimits
  <2>3. Members(active') = Members(active) \/ Members(active') = Members(active) \cup {j}
    BY <1>2, <1>3, <2>1, <2>2
  <2>4. \A i \in Streams' : i = j \/ i \in Streams
    BY <2>1, <2>3 DEF Streams
  <2>5. \A i \in Streams' : pending'[i] = 0 => generated'[i] < MaxNew
    <3>1. CASE active' = active
      <4>1. j \notin Streams'
        BY <2>1, <3>1 DEF Streams
      <4>2. QED BY <1>5, <2>2, <2>4, <4>1 DEF Limits
    <3>2. CASE active' # active
      BY <1>5, <2>2, <2>4, <3>2 DEF Limits
    <3>3. QED BY <3>1, <3>2
  <2>6. \A i \in Jobs : stage'[i] \in Fresh => generated'[i] = 0 /\ pending'[i] = 0
    BY <2>1, <2>2 DEF Limits
  <2>7. \A i \in Members(batch') : pending'[i] = 0
    BY <1>5, <2>1, <2>2 DEF Limits, Streams
  <2>8. pc' \notin {"step", "decode"}
    BY <2>1, <2>2
  <2>9. QED BY <2>5, <2>6, <2>7, <2>8 DEF Limits
<1>14. CASE SortIntoBatch \/ SortIntoSolo
  <2>1. /\ active # <<>> /\ active' = Tail(active) /\ pc' = "sort"
        /\ UNCHANGED <<generated, pending, stage>>
        /\ \/ batch' = batch /\ solo' = Append(solo, Head(active))
           \/ /\ batch' = Append(batch, Head(active)) /\ solo' = solo
              /\ pending[Head(active)] = 0
    BY <1>14, HandsFull DEF SortIntoBatch, SortIntoSolo, WantBatch, handleVars, genVars
  <2>2. /\ Head(active) \in Jobs /\ Members(active) = {Head(active)} \cup Members(active')
    BY <1>2, <1>4, <2>1
  <2>3. \/ Members(solo') = Members(solo) \cup {Head(active)} /\ batch' = batch
        \/ Members(batch') = Members(batch) \cup {Head(active)} /\ pending[Head(active)] = 0
           /\ solo' = solo
    BY <1>2, <1>3, <2>1, <2>2
  <2>4. Streams' = Streams
    BY <2>2, <2>3 DEF Streams
  <2>5. QED BY <2>1, <2>3, <2>4 DEF Limits
<1>15. CASE HoldLone \/ LoneToSolo
  <2>1. /\ batch # <<>> /\ batch' = <<>> /\ Tail(batch) = <<>> /\ pc' = "solo"
        /\ UNCHANGED <<generated, pending, stage>>
        /\ \/ solo' = solo /\ active' = Append(active, Head(batch))
           \/ active' = active /\ solo' = Append(solo, Head(batch))
    BY <1>2, <1>15, TailOfOne DEF HoldLone, LoneToSolo, handleVars, genVars
  <2>2. Head(batch) \in Jobs /\ Members(batch) = {Head(batch)} /\ Members(batch') = {}
    BY <1>2, <1>4, <2>1, MembersEmpty
  <2>3. \/ Members(active') = Members(active) \cup {Head(batch)} /\ solo' = solo
        \/ Members(solo') = Members(solo) \cup {Head(batch)} /\ active' = active
    BY <1>2, <1>3, <2>1, <2>2
  <2>4. Streams' = Streams
    BY <2>2, <2>3 DEF Streams
  <2>5. QED BY <2>1, <2>2, <2>4 DEF Limits
<1>16. CASE NextSolo \/ NextUnbatched
  <2>1. /\ pc' = "step" /\ UNCHANGED <<generated, pending, stage, active>>
        /\ \/ solo # <<>> /\ cur' = Head(solo) /\ solo' = Tail(solo) /\ batch' = batch
           \/ batch # <<>> /\ cur' = Head(batch) /\ batch' = Tail(batch) /\ solo' = solo
    BY <1>16 DEF NextSolo, NextUnbatched, handleVars, genVars
  <2>2. /\ solo # <<>> => Members(solo) = {Head(solo)} \cup Members(Tail(solo))
        /\ batch # <<>> => Members(batch) = {Head(batch)} \cup Members(Tail(batch))
    BY <1>2, <1>4
  <2>3. Streams' \subseteq Streams /\ cur' \in Streams
        /\ Members(batch') \subseteq Members(batch)
    BY <2>1, <2>2 DEF Streams
  <2>4. QED BY <2>1, <2>3 DEF Limits
<1>17. CASE ScanKeep \/ ScanCancelled \/ ShutdownNext
  <2>1. /\ pc' \notin {"step", "decode"} /\ UNCHANGED <<generated, pending, stage, solo>>
        /\ \/ /\ batch # <<>> /\ active' = active
              /\ batch' = Tail(batch) \/ batch' = Append(Tail(batch), Head(batch))
           \/ active # <<>> /\ batch' = batch /\ active' = Tail(active)
    BY <1>17, HandsFull DEF ScanKeep, ScanCancelled, ShutdownNext, StartRetire, handleVars,
         genVars, loopVars
  <2>2. /\ active # <<>> => Members(active) = {Head(active)} \cup Members(Tail(active))
        /\ batch # <<>> => Members(batch) = {Head(batch)} \cup Members(Tail(batch))
    BY <1>2, <1>4
  <2>3. batch # <<>> =>
          Members(Append(Tail(batch), Head(batch))) = Members(Tail(batch)) \cup {Head(batch)}
    <3>1. batch # <<>> => Head(batch) \in Jobs /\ Tail(batch) \in Seq(Jobs)
      BY <1>2, <1>4
    <3>2. QED BY <1>3, <3>1
  <2>4. Members(active') \subseteq Members(active) /\ Members(batch') \subseteq Members(batch)
    BY <2>1, <2>2, <2>3
  <2>5. Streams' \subseteq Streams
    BY <2>1, <2>4 DEF Streams
  <2>6. QED BY <2>1, <2>4, <2>5 DEF Limits
<1>18. CASE IntakeWithoutSession \/ IntakeFails \/ Intake
  <2>1. TakeJob /\ CanIntake
    BY <1>18 DEF IntakeWithoutSession, IntakeFails, Intake
  <2>2. /\ Head(queue) \in Jobs /\ stage[Head(queue)] = "queued"
        /\ stage' = [stage EXCEPT ![Head(queue)] = "running"] /\ UNCHANGED <<solo, batch>>
    BY <1>1, <2>1, WaitingPositive, TypesOfSequences DEF TakeJob, CanIntake
  <2>3. generated[Head(queue)] < MaxNew
    BY <1>2, <2>2 DEF Limits, Fresh
  <2>4. UNCHANGED <<generated, pending>> /\ pc' \notin {"step", "decode"}
    BY <1>18 DEF IntakeWithoutSession, IntakeFails, Intake, RefuseJob, genVars
  <2>5. active' = active \/ active' = Append(active, Head(queue))
    BY <1>18 DEF IntakeWithoutSession, IntakeFails, Intake, RefuseJob
  <2>6. Members(active') \subseteq Members(active) \cup {Head(queue)}
    BY <1>2, <1>3, <2>2, <2>5
  <2>7. Streams' \subseteq Streams \cup {Head(queue)}
    BY <2>2, <2>6 DEF Streams
  <2>8. \A j \in Jobs : stage'[j] \in Fresh => stage[j] \in Fresh
    BY <1>2, <2>2 DEF Fresh
  <2>9. QED BY <2>2, <2>3, <2>4, <2>7, <2>8 DEF Limits
<1>19. CASE Refuse \/ FinishRetire
  <2>1. /\ UNCHANGED <<generated, pending, active, solo, batch>> /\ cur \in Jobs
        /\ stage' = [stage EXCEPT ![cur] = "done"]
    BY <1>19, HandsFull DEF Refuse, FinishRetire, loopVars
  <2>2. pc' \notin {"step", "decode"}
    BY <1>1, <1>19 DEF Refuse, FinishRetire, Control
  <2>3. \A j \in Jobs : stage'[j] \in Fresh => stage[j] \in Fresh
    BY <1>2, <2>1 DEF Fresh
  <2>4. QED BY <2>1, <2>2, <2>3 DEF Limits, Streams
<1>20. CASE Exit
  <2>1. UNCHANGED <<generated, pending, active, solo, batch, cur>> /\ pc' = "exited"
    BY <1>20 DEF Exit, genVars, loopVars, retireVars
  <2>2. \A j \in Jobs : stage'[j] \in Fresh => stage[j] \in Fresh
    BY <1>2, <1>20 DEF Exit, Fresh
  <2>3. QED BY <1>7, <2>1, <2>2
<1>21. QED
  BY <1>8, <1>9, <1>10, <1>11, <1>12, <1>13, <1>14, <1>15, <1>16, <1>17, <1>18, <1>19,
     <1>20 DEF Next, Worker, Exited

LEMMA LimitsHold == Spec => []Limits
<1>1. Init => Limits
  <2>1. SUFFICES ASSUME Init PROVE Limits
    OBVIOUS
  <2>2. Streams = {} /\ Members(batch) = {}
    BY <2>1, MembersEmpty DEF Init, Streams
  <2>3. QED BY <2>1, <2>2 DEF Init, Limits
<1>2. Structure /\ Limits /\ [Next]_vars => Limits'
  BY LimitsInductive
<1>3. QED BY <1>1, <1>2, StructureHolds, PTL DEF Spec

\* No decode step is spent on a stream that has its max_new_tokens, whichever
\* path (solo step, owed token, merged step) sent the last of them.
THEOREM LimitIsRespected == Spec => []NoDecodePastLimit
<1>1. Limits => NoDecodePastLimit
  BY DEF Limits, NoDecodePastLimit, Streams
<1>2. QED BY <1>1, LimitsHold, PTL

-----------------------------------------------------------------------------
(* Cancellation *)

\* A token decoded for a job after its cancel is its last: the stream is in no
\* place from which it is decoded again without its flag being read first.  In
\* the cancel scan the members examined so far are the last Len(batch) - togo.
Lateness ==
  /\ \A j \in Jobs : late[j] \in {0, 1} /\ (late[j] = 1 => cancel[j])
  /\ pc = "decode" => late[cur] = 0
  /\ pc \in {"form", "feed"} \/ (pc = "retire" /\ ret = "feed") =>
       \A i \in 1..Len(batch) : late[batch[i]] = 0
  /\ pc = "scan" \/ (pc = "retire" /\ ret = "scan") =>
       \A i \in togo + 1..Len(batch) : late[batch[i]] = 0

LEMMA FeedLate ==
  ASSUME TypeOK, Lateness, NEW j \in Jobs, NEW back, FeedToken(j, back), late[j] = 0,
         cancel' = cancel
  PROVE  /\ \A i \in Jobs : late'[i] \in {0, 1} /\ (late'[i] = 1 => cancel'[i])
         /\ \A i \in Jobs : i # j => late'[i] = late[i]
<1>1. late \in [Jobs -> Nat]
  BY DEF TypeOK
<1>2. \/ late' = late
      \/ late' = [late EXCEPT ![j] = IF cancel[j] THEN late[j] + 1 ELSE late[j]]
  BY DEF FeedToken
<1>3. /\ \A i \in Jobs : i # j => late'[i] = late[i]
      /\ late'[j] = 0 \/ (late'[j] = 1 /\ cancel[j])
  BY <1>1, <1>2
<1>4. QED BY <1>3 DEF Lateness

LEMMA LatenessInductive ==
  ASSUME Structure, Lateness, [Next]_vars PROVE Lateness'
<1>1. TypeOK /\ Control /\ Placement
  BY DEF Structure
<1>2. /\ batch \in Seq(Jobs) /\ late \in [Jobs -> Nat] /\ cancel \in [Jobs -> BOOLEAN]
      /\ togo \in Nat /\ Len(batch) \in Nat
  BY <1>1 DEF TypeOK
<1>3. batch # <<>> =>
        /\ Head(batch) \in Jobs /\ Head(batch) = batch[1]
        /\ Tail(batch) \in Seq(Jobs) /\ Len(Tail(batch)) = Len(batch) - 1
        /\ \A i \in 1..Len(batch) - 1 : Tail(batch)[i] = batch[i + 1]
  BY <1>2, HeadTail
<1>4. \A i \in 1..Len(batch) : batch[i] \in Jobs
  BY <1>2
<1>5. ASSUME UNCHANGED <<late, cancel, batch, cur, togo, pc, ret>> PROVE Lateness'
  BY <1>5 DEF Lateness
<1>6. ASSUME UNCHANGED <<late, cancel>>,
             pc' \notin {"decode", "form", "feed", "scan"},
             pc' = "retire" => ret' \notin {"feed", "scan"}
      PROVE  Lateness'
  BY <1>6 DEF Lateness
<1>7. CASE Close \/ Disconnect \/ UNCHANGED vars
           \/ \E j \in Jobs : Reject(j) \/ Admit(j) \/ Submit(j) \/ Receive(j) \/ DropReceiver(j)
  BY <1>5, <1>7
     DEF Close, Disconnect, Reject, Admit, Submit, Receive, DropReceiver, vars, clientVars,
         workerVars, loopVars, retireVars, history
<1>8. ASSUME NEW j \in Jobs, Cancel(j) PROVE Lateness'
  <2>1. UNCHANGED <<late, batch, cur, togo, pc, ret>> /\ cancel' = [cancel EXCEPT ![j] = TRUE]
    BY <1>8 DEF Cancel, workerVars, loopVars, retireVars, history
  <2>2. \A i \in Jobs : cancel[i] => cancel'[i]
    BY <1>2, <2>1
  <2>3. QED BY <2>1, <2>2 DEF Lateness
<1>9. CASE SkipIntake \/ IntakeWithoutSession \/ IntakeFails \/ Intake \/ Refuse
  BY <1>6, <1>9
     DEF SkipIntake, IntakeWithoutSession, IntakeFails, Intake, Refuse, RefuseJob, TakeJob,
         clientVars, history
<1>10. CASE SortIntoBatch \/ SortIntoSolo \/ HoldLone \/ LoneToSolo \/ EndSort
  BY <1>6, <1>10
     DEF SortIntoBatch, SortIntoSolo, HoldLone, LoneToSolo, EndSort, clientVars, history
<1>11. CASE NextSolo \/ NextUnbatched \/ EndBatch \/ Tidy \/ Exit \/ Fallback
  BY <1>6, <1>11
     DEF NextSolo, NextUnbatched, EndBatch, Tidy, Exit, Fallback, clientVars, history
<1>12. CASE BeginShutdown \/ ShutdownNext
  BY <1>1, <1>6, <1>12 DEF BeginShutdown, ShutdownNext, Control, clientVars, history
<1>13. CASE StepCancelled \/ ResendClosed \/ ResendFull \/ DecodeFails
  <2>1. ret \in {"solo", "unbatch"}
    BY <1>1, <1>13 DEF StepCancelled, ResendClosed, ResendFull, DecodeFails, Control
  <2>2. QED BY <1>6, <1>13, <2>1
       DEF StepCancelled, ResendClosed, ResendFull, DecodeFails, StartRetire, PushBack,
           clientVars, history
<1>14. CASE Resend \/ StepOn
  <2>1. /\ cur \in Jobs /\ cur' = cur /\ ~cancel[cur] /\ UNCHANGED <<late, cancel>>
        /\ ret \in {"solo", "unbatch"} /\ ret' = ret /\ pc' \in {"decode", "retire"}
    BY <1>1, <1>14, HandsFull
       DEF Resend, StepOn, StartRetire, Control, clientVars, retireVars, history
  <2>2. late[cur] = 0
    BY <2>1 DEF Lateness
  <2>3. QED BY <2>1, <2>2 DEF Lateness
<1>15. CASE DecodeOne
  <2>1. /\ cur \in Jobs /\ cancel' = cancel /\ FeedToken(cur, ret) /\ late[cur] = 0
        /\ ret \in {"solo", "unbatch"}
    BY <1>1, <1>15, HandsFull DEF DecodeOne, Control, Lateness, clientVars
  <2>2. /\ pc' \notin {"decode", "form", "feed", "scan"}
        /\ pc' = "retire" => ret' \notin {"feed", "scan"}
    BY <2>1, FeedOutcome
  <2>3. \A i \in Jobs : late'[i] \in {0, 1} /\ (late'[i] = 1 => cancel'[i])
    BY <1>1, <2>1, FeedLate
  <2>4. QED BY <2>2, <2>3 DEF Lateness
<1>16. CASE EndSolo
  <2>1. UNCHANGED <<late, cancel, batch>>
        /\ (pc' = "unbatch" \/ (pc' = "scan" /\ togo' = Len(batch)))
    BY <1>16 DEF EndSolo, clientVars, history
  <2>2. \A i \in Len(batch) + 1..Len(batch) : late[batch[i]] = 0
    BY <1>2
  <2>3. QED BY <2>1, <2>2 DEF Lateness
<1>17. CASE ScanKeep
  <2>1. /\ UNCHANGED <<late, cancel>> /\ pc' = "scan" /\ pc = "scan" /\ togo > 0
        /\ togo' = togo - 1 /\ batch # <<>> /\ ~cancel[Head(batch)]
        /\ batch' = Append(Tail(batch), Head(batch))
    BY <1>17, HandsFull DEF ScanKeep, CancelSeen, clientVars, history
  <2>2. late[Head(batch)] = 0
    BY <1>3, <2>1 DEF Lateness
  <2>3. /\ Len(batch') = Len(batch) /\ batch'[Len(batch)] = Head(batch)
        /\ \A i \in 1..Len(batch) - 1 : batch'[i] = batch[i + 1]
    <3>1. /\ Len(batch') = Len(Tail(batch)) + 1
          /\ batch'[Len(Tail(batch)) + 1] = Head(batch)
          /\ \A i \in 1..Len(Tail(batch)) : batch'[i] = Tail(batch)[i]
      BY <1>3, <2>1, AppendOne
    <3>2. Len(Tail(batch)) = Len(batch) - 1
      BY <1>3, <2>1
    <3>3. QED BY <1>2, <1>3, <2>1, <3>1, <3>2
  <2>4. ASSUME NEW i \in togo..Len(batch) PROVE late[batch'[i]] = 0
    <3>1. CASE i = Len(batch)
      BY <2>2, <2>3, <3>1
    <3>2. CASE i # Len(batch)
      <4>1. i + 1 \in togo + 1..Len(batch) /\ i \in 1..Len(batch) - 1
        BY <1>2, <2>1, <3>2
      <4>2. late[batch[i + 1]] = 0
        BY <2>1, <4>1 DEF Lateness
      <4>3. QED BY <2>3, <4>1, <4>2
    <3>3. QED BY <3>1, <3>2
  <2>5. togo' + 1 = togo
    BY <1>2, <2>1
  <2>6. QED BY <2>1, <2>3, <2>4, <2>5 DEF Lateness
<1>18. CASE ScanCancelled
  <2>1. /\ UNCHANGED <<late, cancel>> /\ pc' = "retire" /\ ret' = "scan" /\ pc = "scan"
        /\ togo > 0 /\ togo' = togo - 1 /\ batch # <<>> /\ batch' = Tail(batch)
    BY <1>18, HandsFull DEF ScanCancelled, StartRetire, clientVars, history
  <2>2. Len(batch') = Len(batch) - 1 /\ togo' + 1 = togo
    BY <1>2, <1>3, <2>1
  <2>3. ASSUME NEW i \in togo..Len(batch) - 1 PROVE late[batch'[i]] = 0
    <3>1. i + 1 \in togo + 1..Len(batch) /\ i \in 1..Len(batch) - 1
      BY <1>2, <2>1
    <3>2. late[batch[i + 1]] = 0
      BY <2>1, <3>1 DEF Lateness
    <3>3. QED BY <1>3, <2>1, <3>1, <3>2
  <2>4. QED BY <2>1, <2>2, <2>3 DEF Lateness
<1>19. CASE EndScan
  <2>1. /\ UNCHANGED <<late, cancel, batch>> /\ pc = "scan" /\ togo = 0
        /\ pc' \in {"form", "unbatch"}
    BY <1>19 DEF EndScan, clientVars, history, loopVars
  <2>2. \A i \in 1..Len(batch) : late[batch[i]] = 0
    BY <2>1 DEF Lateness
  <2>3. QED BY <2>1, <2>2 DEF Lateness
<1>20. CASE CreateGroup \/ AddMember \/ BatchStep
  <2>1. UNCHANGED <<late, cancel, batch>> /\ pc = "form" /\ pc' \in {"form", "feed"}
    BY <1>20 DEF CreateGroup, AddMember, BatchStep, clientVars, history, loopVars
  <2>2. QED BY <2>1 DEF Lateness
<1>21. CASE FeedNext
  <2>1. /\ batch # <<>> /\ batch' = Tail(batch) /\ FeedToken(Head(batch), "feed")
        /\ cancel' = cancel /\ pc = "feed"
    BY <1>21 DEF FeedNext, clientVars
  <2>2. late[Head(batch)] = 0
    <3>1. 1 \in 1..Len(batch)
      BY <1>2, <2>1, HeadTail
    <3>2. QED BY <1>3, <2>1, <3>1 DEF Lateness
  <2>3. /\ \A i \in Jobs : late'[i] \in {0, 1} /\ (late'[i] = 1 => cancel'[i])
        /\ \A i \in Jobs : i # Head(batch) => late'[i] = late[i]
    BY <1>1, <1>3, <2>1, <2>2, FeedLate
  <2>4. ASSUME NEW i \in 1..Len(batch') PROVE late'[batch'[i]] = 0
    <3>1. i + 1 \in 1..Len(batch) /\ batch'[i] = batch[i + 1]
      BY <1>2, <1>3, <2>1
    <3>2. batch[i + 1] # Head(batch) /\ late[batch[i + 1]] = 0
      <4>1. 1 \in 1..Len(batch) /\ i + 1 # 1
        BY <1>2, <2>1, HeadTail
      <4>2. QED BY <1>1, <1>3, <2>1, <3>1, <4>1 DEF Placement, Once, Lateness
    <3>3. QED BY <1>4, <2>3, <3>1, <3>2
  <2>5. pc' = "feed" \/ (pc' = "retire" /\ ret' = "feed")
    BY <2>1, FeedOutcome
  <2>6. QED BY <2>3, <2>4, <2>5 DEF Lateness
<1>22. CASE FlushOwed
  BY <1>5, <1>22 DEF FlushOwed, clientVars, loopVars, retireVars, history
<1>23. CASE FinishRetire
  <2>1. UNCHANGED <<late, cancel, batch, togo>> /\ pc = "retire" /\ pc' = ret
    BY <1>23 DEF FinishRetire, clientVars, loopVars
  <2>2. ret \in {"solo", "scan", "feed", "unbatch", "shutdown"}
    BY <1>1, <2>1 DEF Control
  <2>3. QED BY <2>1, <2>2 DEF Lateness
<1>24. QED
  BY <1>7, <1>8, <1>9, <1>10, <1>11, <1>12, <1>13, <1>14, <1>15, <1>16, <1>17, <1>18, <1>19,
     <1>20, <1>21, <1>22, <1>23 DEF Next, Handles, Clients, Worker, Exited

\* A cancelled job costs at most the decode step that was under way, on the
\* solo path and on the merged one, whenever the flag is raised.
THEOREM CancelIsPrompt == Spec => []CancelWithinOneStep
<1>1. Init => Lateness
  BY DEF Init, Lateness
<1>2. Structure /\ Lateness /\ [Next]_vars => Lateness'
  BY LatenessInductive
<1>3. Lateness => CancelWithinOneStep
  BY DEF Lateness, CancelWithinOneStep
<1>4. QED BY <1>1, <1>2, <1>3, StructureHolds, PTL DEF Spec

=============================================================================
