-------------------------- MODULE AdmissionProofs --------------------------
(***************************************************************************)
(* Proofs about Admission for any set of jobs and any queue limit.         *)
(***************************************************************************)
EXTENDS Admission, FiniteSetTheorems, TLAPS

CountedJobs == {j \in Jobs : Counted(j)}

Shape ==
  /\ waiting \in Int
  /\ gauge \in Int
  /\ queue \in Seq(Jobs)
  /\ pc \in [Jobs -> {"load", "cas", "add", "mirror", "store", "send", "sent",
                      "refused"}]
  /\ copy \in [Jobs -> Int]
  /\ wpc \in {"recv", "sub", "load", "store"}
  /\ wjob \in Jobs \cup {NoJob}
  /\ wcopy \in Int

\* A job is in the channel once, after its submission and before its intake.
InTransit ==
  /\ \A i \in 1..Len(queue) : pc[queue[i]] = "sent"
  /\ \A i, k \in 1..Len(queue) : queue[i] = queue[k] => i = k
  /\ wpc = "sub" => /\ wjob \in Jobs
                    /\ pc[wjob] = "sent"
                    /\ \A i \in 1..Len(queue) : queue[i] # wjob

\* What a thread may rely on between its load and its next step.
Loaded ==
  \A j \in Jobs : /\ pc[j] = "cas" => copy[j] < QueueLimit
                  /\ pc[j] = "add" => j \notin Strict

IInv == Shape /\ InTransit /\ Loaded

\* The structural part of the invariant is inductive.  Only Send and Recv move
\* a job through the channel; the other actions leave InTransit to pc.
LEMMA StructureInductive ==
  ASSUME IInv, [Next]_vars PROVE IInv'
<1> USE JobsAssumption, LimitAssumption DEF IInv, Shape, InTransit, Loaded, Goto,
        workerVars
<1>1. ASSUME NEW j \in Jobs, Load(j) PROVE IInv'
  BY <1>1 DEF Load
<1>2. ASSUME NEW j \in Jobs, CompareExchange(j) PROVE IInv'
  <2>1. /\ waiting' \in Int
        /\ pc' = [pc EXCEPT ![j] = "mirror"] \/ pc' = [pc EXCEPT ![j] = "load"]
        /\ pc[j] = "cas"
        /\ UNCHANGED <<gauge, queue, copy, workerVars>>
    BY <1>2 DEF CompareExchange, Retry
  <2>2. Shape' /\ Loaded'
    BY <2>1
  <2>3. InTransit'
    BY <2>1
  <2>4. QED BY <2>2, <2>3
<1>3. ASSUME NEW j \in Jobs, AddUnchecked(j) PROVE IInv'
  BY <1>3 DEF AddUnchecked, Compensated
<1>4. ASSUME NEW j \in Jobs, MirrorLoad(j) PROVE IInv'
  BY <1>4 DEF MirrorLoad
<1>5. ASSUME NEW j \in Jobs, MirrorStore(j) PROVE IInv'
  BY <1>5 DEF MirrorStore
<1>6. ASSUME NEW j \in Jobs, Send(j) PROVE IInv'
  <2>1. /\ Len(queue') = Len(queue) + 1
        /\ queue'[Len(queue) + 1] = j
        /\ \A i \in 1..Len(queue) : queue'[i] = queue[i]
    BY <1>6 DEF Send
  <2>2. Shape'
    BY <1>6 DEF Send
  <2>3. InTransit'
    BY <1>6, <2>1 DEF Send
  <2>4. Loaded'
    BY <1>6 DEF Send
  <2>5. QED BY <2>2, <2>3, <2>4
<1>7. CASE Recv
  <2>1. /\ Len(queue) >= 1
        /\ wjob' = queue[1]
        /\ Len(queue') = Len(queue) - 1
        /\ \A i \in 1..Len(queue') : queue'[i] = queue[i + 1]
    BY <1>7 DEF Recv
  <2>2. Shape'
    BY <1>7, <2>1 DEF Recv
  <2>3. InTransit'
    BY <1>7, <2>1 DEF Recv
  <2>4. Loaded'
    BY <1>7 DEF Recv
  <2>5. QED BY <2>2, <2>3, <2>4
<1>8. CASE IntakeSub
  BY <1>8 DEF IntakeSub, MinusOne
<1>9. CASE IntakeLoad
  BY <1>9 DEF IntakeLoad
<1>10. CASE IntakeStore
  BY <1>10 DEF IntakeStore, AfterSub
<1>11. CASE UNCHANGED vars
  BY <1>11 DEF vars
<1>12. QED
  BY <1>1, <1>2, <1>3, <1>4, <1>5, <1>6, <1>7, <1>8, <1>9, <1>10, <1>11
     DEF Next, Submitter, Worker

-----------------------------------------------------------------------------
(* `waiting` counts the jobs between their increment and their decrement *)

\* How each step changes the set of counted jobs: the two increments add the
\* job that makes them, the worker's fetch_sub removes the job it holds, and no
\* other step, though it moves jobs about, changes who is counted.
LEMMA CountedByStep ==
  ASSUME IInv, [Next]_vars
  PROVE  \/ waiting' = waiting /\ CountedJobs' = CountedJobs
         \/ \E j \in Jobs \ CountedJobs :
              /\ j \in Strict => waiting < QueueLimit
              /\ waiting' = waiting + 1 /\ CountedJobs' = CountedJobs \cup {j}
         \/ \E j \in CountedJobs :
              waiting' = waiting - 1 /\ CountedJobs' = CountedJobs \ {j}
<1> DEFINE Same == waiting' = waiting /\ CountedJobs' = CountedJobs
           More == \E j \in Jobs \ CountedJobs :
                     /\ j \in Strict => waiting < QueueLimit
                     /\ waiting' = waiting + 1 /\ CountedJobs' = CountedJobs \cup {j}
           Less == \E j \in CountedJobs :
                     waiting' = waiting - 1 /\ CountedJobs' = CountedJobs \ {j}
<1> USE JobsAssumption DEF IInv, Shape, InTransit, Goto, workerVars, CountedJobs, Counted
<1>1. ASSUME NEW j \in Jobs, Load(j) PROVE Same
  BY <1>1 DEF Load
<1>2. ASSUME NEW j \in Jobs, CompareExchange(j) PROVE Same \/ More
  <2>1. CASE Unmoved(j)
    <3>1. j \notin CountedJobs
      BY <1>2 DEF CompareExchange, Retry
    <3>2. waiting' = waiting + 1 /\ CountedJobs' = CountedJobs \cup {j}
      BY <1>2, <2>1 DEF CompareExchange, Retry
    <3>3. waiting < QueueLimit
      BY <1>2, <2>1 DEF CompareExchange, Unmoved, Loaded
    <3>4. QED BY <3>1, <3>2, <3>3
  <2>2. CASE ~Unmoved(j)
    BY <1>2, <2>2 DEF CompareExchange, Retry
  <2>3. QED BY <2>1, <2>2
<1>3. ASSUME NEW j \in Jobs, AddUnchecked(j) PROVE More
  <2>1. j \notin CountedJobs
    BY <1>3 DEF AddUnchecked, Compensated
  <2>2. waiting' = waiting + 1 /\ CountedJobs' = CountedJobs \cup {j}
    BY <1>3 DEF AddUnchecked, Compensated
  <2>3. j \notin Strict
    BY <1>3 DEF AddUnchecked, Loaded
  <2>4. QED BY <2>1, <2>2, <2>3
<1>4. ASSUME NEW j \in Jobs, MirrorLoad(j) PROVE Same
  BY <1>4 DEF MirrorLoad
<1>5. ASSUME NEW j \in Jobs, MirrorStore(j) PROVE Same
  BY <1>5 DEF MirrorStore
<1>6. ASSUME NEW j \in Jobs, Send(j) PROVE Same
  <2>1. /\ Len(queue') = Len(queue) + 1
        /\ queue'[Len(queue) + 1] = j
        /\ \A i \in 1..Len(queue) : queue'[i] = queue[i]
    BY <1>6 DEF Send
  <2>2. \A k \in Jobs : Counted(k)' <=> Counted(k)
    BY <1>6, <2>1 DEF Send
  <2>3. QED BY <1>6, <2>2 DEF Send
<1>7. CASE Recv
  <2>1. /\ Len(queue) >= 1
        /\ wjob' = queue[1]
        /\ Len(queue') = Len(queue) - 1
        /\ \A i \in 1..Len(queue') : queue'[i] = queue[i + 1]
        /\ wpc = "recv" /\ wpc' = "sub"
        /\ pc' = pc /\ waiting' = waiting
    BY <1>7 DEF Recv
  <2>2. ASSUME NEW k \in Jobs PROVE Counted(k)' <=> Counted(k)
    <3>1. (\E i \in 1..Len(queue) : queue[i] = k)
            <=> (wjob' = k \/ \E i \in 1..Len(queue') : queue'[i] = k)
      <4>1. ASSUME NEW i \in 1..Len(queue), queue[i] = k, i # 1
            PROVE  i - 1 \in 1..Len(queue') /\ queue'[i - 1] = k
        BY <2>1, <4>1
      <4>2. QED BY <2>1, <4>1
    <3>2. QED BY <2>1, <3>1
  <2>3. QED BY <2>1, <2>2
<1>8. CASE IntakeSub
  <2>1. wjob \in CountedJobs
    BY <1>8 DEF IntakeSub
  <2>2. waiting' = waiting - 1 /\ CountedJobs' = CountedJobs \ {wjob}
    BY <1>8 DEF IntakeSub, MinusOne
  <2>3. QED BY <2>1, <2>2
<1>9. CASE IntakeLoad
  BY <1>9 DEF IntakeLoad
<1>10. CASE IntakeStore
  BY <1>10 DEF IntakeStore, AfterSub
<1>11. CASE UNCHANGED vars
  BY <1>11 DEF vars
<1>12. QED
  BY <1>1, <1>2, <1>3, <1>4, <1>5, <1>6, <1>7, <1>8, <1>9, <1>10, <1>11
     DEF Next, Submitter, Worker

LEMMA CountInductive ==
  ASSUME IInv, WaitingExact, [Next]_vars PROVE WaitingExact'
<1>1. IsFiniteSet(CountedJobs)
  BY FS_Subset, JobsAssumption DEF CountedJobs
<1>2. Cardinality(CountedJobs) \in Nat /\ waiting = Cardinality(CountedJobs)
  BY <1>1, FS_CardinalityType DEF WaitingExact, CountedJobs
<1>3. CASE waiting' = waiting /\ CountedJobs' = CountedJobs
  BY <1>2, <1>3 DEF WaitingExact, CountedJobs
<1>4. ASSUME NEW j \in Jobs \ CountedJobs,
             waiting' = waiting + 1, CountedJobs' = CountedJobs \cup {j}
      PROVE  WaitingExact'
  <2>1. Cardinality(CountedJobs \cup {j}) = Cardinality(CountedJobs) + 1
    BY <1>1, FS_AddElement
  <2>2. QED BY <1>2, <1>4, <2>1 DEF WaitingExact, CountedJobs
<1>5. ASSUME NEW j \in CountedJobs,
             waiting' = waiting - 1, CountedJobs' = CountedJobs \ {j}
      PROVE  WaitingExact'
  <2>1. Cardinality(CountedJobs \ {j}) = Cardinality(CountedJobs) - 1
    BY <1>1, FS_RemoveElement
  <2>2. QED BY <1>2, <1>5, <2>1 DEF WaitingExact, CountedJobs
<1>6. QED BY <1>3, <1>4, <1>5, CountedByStep

LEMMA Inductive == Spec => [](IInv /\ WaitingExact)
<1>1. Init => IInv /\ WaitingExact
  <2> SUFFICES ASSUME Init PROVE IInv /\ WaitingExact
    OBVIOUS
  <2>1. IInv
    BY JobsAssumption DEF Init, IInv, Shape, InTransit, Loaded
  <2>2. {j \in Jobs : Counted(j)} = {}
    BY DEF Init, Counted
  <2>3. QED BY <2>1, <2>2, FS_EmptySet DEF WaitingExact, Init
<1>2. IInv /\ WaitingExact /\ [Next]_vars => IInv' /\ WaitingExact'
  BY StructureInductive, CountInductive
<1>3. QED BY <1>1, <1>2, PTL DEF Spec

\* The counter is exact, for any number of jobs and any interleaving: each job
\* is counted once, from its increment to the worker's fetch_sub.
THEOREM WaitingIsExact == Spec => []WaitingExact
BY Inductive, PTL

\* The state has its type; in particular `waiting` is never negative, nor is any
\* copy of it that a thread, the worker or the gauge holds.
THEOREM TypeCorrect == Spec => []TypeOK
<1>1. Init => TypeOK
  BY JobsAssumption DEF Init, TypeOK
<1>2. IInv /\ WaitingExact => waiting \in Nat
  <2>1. IsFiniteSet({j \in Jobs : Counted(j)})
    BY FS_Subset, JobsAssumption
  <2>2. QED BY <2>1, FS_CardinalityType DEF WaitingExact
<1>3. TypeOK /\ IInv /\ (waiting \in Nat)' /\ IInv' /\ [Next]_vars => TypeOK'
  <2> SUFFICES ASSUME TypeOK, IInv, waiting' \in Nat, IInv', [Next]_vars
               PROVE  TypeOK'
    OBVIOUS
  <2>1. gauge' \in Nat /\ copy' \in [Jobs -> Nat] /\ wcopy' \in Nat
    BY DEF TypeOK, Next, Submitter, Worker, vars, workerVars, Load,
           CompareExchange, Retry, AddUnchecked, Compensated, MirrorLoad, MirrorStore,
           Send, Recv, IntakeSub, IntakeLoad, IntakeStore, AfterSub
  <2>2. QED BY <2>1 DEF TypeOK, IInv, Shape
<1>4. QED BY <1>1, <1>2, <1>3, Inductive, PTL DEF Spec

\* The number of waiting jobs exceeds queue_limit by no more than the jobs that
\* generate forced in and that still wait: the value compared is the value
\* incremented.
THEOREM LimitIsKept == Spec => []LimitKept
<1> DEFINE Forced == {j \in Jobs \ Strict : Counted(j)}
<1>1. Init => LimitKept
  <2> SUFFICES ASSUME Init PROVE LimitKept
    OBVIOUS
  <2>1. Forced = {}
    BY DEF Init, Counted
  <2>2. QED BY <2>1, FS_EmptySet, LimitAssumption DEF Init, LimitKept
<1>2. IInv /\ LimitKept /\ [Next]_vars => LimitKept'
  <2> SUFFICES ASSUME IInv, LimitKept, [Next]_vars PROVE LimitKept'
    OBVIOUS
  <2>1. IsFiniteSet(Forced)
    BY FS_Subset, JobsAssumption
  <2>2. Forced = CountedJobs \ Strict /\ Forced' = CountedJobs' \ Strict
    BY DEF CountedJobs
  <2>3. Cardinality(Forced) \in Nat /\ waiting \in Int
    BY <2>1, FS_CardinalityType DEF IInv, Shape
  <2>4. waiting <= QueueLimit + Cardinality(Forced)
    BY DEF LimitKept
  <2>5. SUFFICES waiting' <= QueueLimit + Cardinality(Forced')
    BY DEF LimitKept
  <2> HIDE DEF Forced
  <2>6. CASE waiting' = waiting /\ CountedJobs' = CountedJobs
    BY <2>2, <2>4, <2>6
  <2>7. ASSUME NEW j \in Jobs \ CountedJobs, j \in Strict => waiting < QueueLimit,
               waiting' = waiting + 1, CountedJobs' = CountedJobs \cup {j}
        PROVE  waiting' <= QueueLimit + Cardinality(Forced')
    <3>1. CASE j \in Strict
      <4>1. Forced' = Forced
        BY <2>2, <2>7, <3>1
      <4>2. QED BY <2>3, <2>7, <3>1, <4>1, LimitAssumption
    <3>2. CASE j \notin Strict
      <4>1. Forced' = Forced \cup {j} /\ j \notin Forced
        BY <2>2, <2>7, <3>2
      <4>2. Cardinality(Forced') = Cardinality(Forced) + 1
        BY <2>1, <4>1, FS_AddElement
      <4>3. QED BY <2>3, <2>4, <2>7, <4>2, LimitAssumption
    <3>3. QED BY <3>1, <3>2
  <2>8. ASSUME NEW j \in CountedJobs,
               waiting' = waiting - 1, CountedJobs' = CountedJobs \ {j}
        PROVE  waiting' <= QueueLimit + Cardinality(Forced')
    <3>1. CASE j \in Strict
      <4>1. Forced' = Forced
        BY <2>2, <2>8, <3>1
      <4>2. QED BY <2>3, <2>4, <2>8, <4>1, LimitAssumption
    <3>2. CASE j \notin Strict
      <4>1. Forced' = Forced \ {j} /\ j \in Forced
        BY <2>2, <2>8, <3>2
      <4>2. Cardinality(Forced') = Cardinality(Forced) - 1
        BY <2>1, <4>1, FS_RemoveElement
      <4>3. QED BY <2>3, <2>4, <2>8, <4>2, LimitAssumption
    <3>3. QED BY <3>1, <3>2
  <2>9. QED BY <2>6, <2>7, <2>8, CountedByStep
<1>3. QED BY <1>1, <1>2, Inductive, PTL DEF Spec

-----------------------------------------------------------------------------
(* The gauge *)

\* When nothing waits, no thread is between its increment and its store, and the
\* worker is the last to have touched the gauge: it found 0, or is about to look.
Drained ==
  waiting = 0 => /\ wpc = "recv" => gauge = 0
                 /\ wpc = "store" => wcopy = 0

\* A job that is counted keeps `waiting` above zero.
LEMMA SomeoneWaits ==
  ASSUME WaitingExact, NEW j \in Jobs, Counted(j) PROVE waiting # 0
<1>1. IsFiniteSet({i \in Jobs : Counted(i)})
  BY FS_Subset, JobsAssumption
<1>2. QED BY <1>1, FS_EmptySet DEF WaitingExact

LEMMA DrainedInductive ==
  ASSUME TypeOK, WaitingExact, Drained, [Next]_vars PROVE Drained'
<1> USE DEF Drained, TypeOK, Goto, workerVars
<1>1. ASSUME NEW j \in Jobs, Load(j) \/ MirrorLoad(j) \/ Send(j) PROVE Drained'
  BY <1>1 DEF Load, MirrorLoad, Send
<1>2. ASSUME NEW j \in Jobs, CompareExchange(j) \/ AddUnchecked(j) PROVE Drained'
  <2>1. /\ waiting' = waiting + 1 \/ waiting' = waiting
        /\ UNCHANGED <<gauge, wpc, wcopy>>
    BY <1>2 DEF CompareExchange, AddUnchecked, Compensated
  <2>2. QED BY <2>1
<1>3. ASSUME NEW j \in Jobs, MirrorStore(j) PROVE Drained'
  <2>1. Counted(j) /\ waiting' = waiting
    BY <1>3 DEF MirrorStore, Counted
  <2>2. QED BY <2>1, SomeoneWaits
<1>4. CASE Recv \/ IntakeSub
  BY <1>4 DEF Recv, IntakeSub
<1>5. CASE IntakeLoad
  BY <1>5 DEF IntakeLoad
<1>6. CASE IntakeStore
  BY <1>6 DEF IntakeStore, AfterSub
<1>7. CASE UNCHANGED vars
  BY <1>7 DEF vars
<1>8. QED BY <1>1, <1>2, <1>3, <1>4, <1>5, <1>6, <1>7 DEF Next, Submitter, Worker

\* GaugeSettles: a handle may overwrite the gauge with a stale copy while others
\* submit, but once the queue has drained the worker's last store is the last of
\* all, and it says 0, as the counter does.
THEOREM GaugeIsSettled == Spec => []GaugeSettles
<1>1. Init => Drained
  BY DEF Init, Drained
<1>2. TypeOK /\ WaitingExact /\ Drained /\ [Next]_vars => Drained'
  BY DrainedInductive
<1>3. WaitingExact /\ Drained => GaugeSettles
  <2> SUFFICES ASSUME WaitingExact, Drained, Still, queue = <<>> PROVE gauge = waiting
    BY DEF GaugeSettles
  <2>1. {j \in Jobs : Counted(j)} = {}
    BY DEF Still, Counted
  <2>2. waiting = 0
    BY <2>1, FS_EmptySet DEF WaitingExact
  <2>3. QED BY <2>2 DEF Drained, Still
<1>4. QED BY <1>1, <1>2, <1>3, TypeCorrect, WaitingIsExact, PTL DEF Spec

-----------------------------------------------------------------------------
(* Admission implements AdmissionGate *)

\* A step that moves no job across a line of the gate leaves its verdicts alone.
LEMMA SameVerdict ==
  ASSUME \A k \in Jobs : /\ Counted(k)' <=> Counted(k)
                         /\ pc[k] = "refused" <=> pc'[k] = "refused"
                         /\ ~Counted(k) => (pc[k] = "sent" <=> pc'[k] = "sent")
  PROVE  Verdict' = Verdict
BY DEF Verdict

\* One job crosses: only its verdict changes.
LEMMA NewVerdict ==
  ASSUME NEW j \in Jobs, NEW v,
         \A k \in Jobs \ {j} :
            /\ Counted(k)' <=> Counted(k)
            /\ pc[k] = "refused" <=> pc'[k] = "refused"
            /\ ~Counted(k) => (pc[k] = "sent" <=> pc'[k] = "sent"),
         Verdict[j]' = v
  PROVE  Verdict' = [Verdict EXCEPT ![j] = v]
BY DEF Verdict

\* Every step of the submission path is a step of the gate or none at all.
LEMMA StepImplementsGate ==
  ASSUME IInv, TypeOK, [Next]_vars
  PROVE  [Gate!Next]_<<waiting, Verdict>>
<1> USE JobsAssumption, LimitAssumption
    DEF IInv, Shape, InTransit, Loaded, TypeOK, Goto, workerVars, Counted
<1>1. ASSUME NEW j \in Jobs, Load(j)
      PROVE  [Gate!Next]_<<waiting, Verdict>>
  <2>1. CASE pc'[j] = "refused"
    <3>1. ~Gate!BelowLimit /\ j \in Strict
      BY <1>1, <2>1 DEF Load, Gate!BelowLimit
    <3>2. Verdict[j] = "none" /\ Verdict[j]' = "refused"
      BY <1>1, <2>1 DEF Load, Verdict
    <3>3. Verdict' = [Verdict EXCEPT ![j] = "refused"]
      <4>1. \A k \in Jobs \ {j} : pc'[k] = pc[k] /\ (Counted(k)' <=> Counted(k))
        BY <1>1 DEF Load
      <4>2. QED BY <3>2, <4>1, NewVerdict
    <3>4. Gate!Refuse(j)
      BY <1>1, <3>1, <3>2, <3>3 DEF Gate!Refuse, Load
    <3>5. QED BY <3>4 DEF Gate!Next
  <2>2. CASE pc'[j] # "refused"
    <3>1. Verdict' = Verdict
      BY <1>1, <2>2, SameVerdict DEF Load
    <3>2. QED BY <1>1, <3>1 DEF Load
  <2>3. QED BY <2>1, <2>2
<1>2. ASSUME NEW j \in Jobs, pc[j] \in {"cas", "add"},
             pc[j] = "cas" => Unmoved(j),
             waiting' = waiting + 1, Goto(j, "mirror"),
             UNCHANGED <<queue, wpc, wjob>>
      PROVE  Gate!Next
  <2>1. j \in Strict => Gate!BelowLimit
    BY <1>2 DEF Gate!BelowLimit, Unmoved
  <2>2. Verdict[j] = "none" /\ Verdict[j]' = "counted"
    BY <1>2 DEF Verdict
  <2>3. Verdict' = [Verdict EXCEPT ![j] = "counted"]
    <3>1. \A k \in Jobs \ {j} : pc'[k] = pc[k] /\ (Counted(k)' <=> Counted(k))
      BY <1>2
    <3>2. QED BY <2>2, <3>1, NewVerdict
  <2>4. Gate!Count(j)
    BY <1>2, <2>1, <2>2, <2>3 DEF Gate!Count
  <2>5. QED BY <2>4 DEF Gate!Next
<1>3. ASSUME NEW j \in Jobs, CompareExchange(j)
      PROVE  [Gate!Next]_<<waiting, Verdict>>
  <2>1. CASE Unmoved(j)
    BY <1>2, <1>3, <2>1 DEF CompareExchange, Retry
  <2>2. CASE ~Unmoved(j)
    <3>1. Verdict' = Verdict
      BY <1>3, <2>2, SameVerdict DEF CompareExchange, Retry
    <3>2. QED BY <1>3, <2>2, <3>1 DEF CompareExchange, Retry
  <2>3. QED BY <2>1, <2>2
<1>4. ASSUME NEW j \in Jobs, AddUnchecked(j)
      PROVE  [Gate!Next]_<<waiting, Verdict>>
  BY <1>2, <1>4 DEF AddUnchecked, Compensated
<1>5. ASSUME NEW j \in Jobs, MirrorLoad(j) \/ MirrorStore(j)
      PROVE  [Gate!Next]_<<waiting, Verdict>>
  <2>1. Verdict' = Verdict
    BY <1>5, SameVerdict DEF MirrorLoad, MirrorStore
  <2>2. QED BY <1>5, <2>1 DEF MirrorLoad, MirrorStore
<1>6. ASSUME NEW j \in Jobs, Send(j)
      PROVE  [Gate!Next]_<<waiting, Verdict>>
  <2>1. /\ Len(queue') = Len(queue) + 1
        /\ queue'[Len(queue) + 1] = j
        /\ \A i \in 1..Len(queue) : queue'[i] = queue[i]
    BY <1>6 DEF Send
  <2>2. \A k \in Jobs : /\ Counted(k)' <=> Counted(k)
                        /\ ~Counted(k) => pc'[k] = pc[k]
                        /\ pc[k] = "refused" <=> pc'[k] = "refused"
    BY <1>6, <2>1 DEF Send
  <2>3. Verdict' = Verdict
    BY <2>2, SameVerdict
  <2>4. QED BY <1>6, <2>3 DEF Send
<1>7. CASE Recv
  <2>1. /\ Len(queue) >= 1
        /\ wjob' = queue[1]
        /\ Len(queue') = Len(queue) - 1
        /\ \A i \in 1..Len(queue') : queue'[i] = queue[i + 1]
        /\ wpc = "recv" /\ wpc' = "sub"
        /\ pc' = pc /\ waiting' = waiting
    BY <1>7 DEF Recv
  <2>2. CountedJobs' = CountedJobs
    BY <1>7, <2>1, CountedByStep DEF Next, Worker
  <2>3. \A k \in Jobs : Counted(k)' <=> Counted(k)
    BY <2>2 DEF CountedJobs
  <2>4. Verdict' = Verdict
    BY <2>1, <2>3, SameVerdict
  <2>5. QED BY <2>1, <2>4
<1>8. CASE IntakeSub
  <2>1. Verdict[wjob] = "counted" /\ Verdict[wjob]' = "taken"
    BY <1>8 DEF IntakeSub, Verdict
  <2>2. \A k \in Jobs \ {wjob} : pc'[k] = pc[k] /\ (Counted(k)' <=> Counted(k))
    BY <1>8 DEF IntakeSub
  <2>3. Verdict' = [Verdict EXCEPT ![wjob] = "taken"]
    BY <1>8, <2>1, <2>2, NewVerdict DEF IntakeSub
  <2>4. Gate!Take(wjob)
    BY <1>8, <2>1, <2>3 DEF Gate!Take, IntakeSub, MinusOne
  <2>5. QED BY <1>8, <2>4 DEF Gate!Next, IntakeSub
<1>9. CASE IntakeLoad \/ IntakeStore \/ UNCHANGED vars
  <2>1. \A k \in Jobs : pc'[k] = pc[k] /\ (Counted(k)' <=> Counted(k))
    BY <1>9 DEF IntakeLoad, IntakeStore, AfterSub, vars
  <2>2. Verdict' = Verdict
    BY <2>1, SameVerdict
  <2>3. QED BY <1>9, <2>2 DEF IntakeLoad, IntakeStore, AfterSub, vars
<1>10. QED
  BY <1>1, <1>3, <1>4, <1>5, <1>6, <1>7, <1>8, <1>9
     DEF Next, Submitter, Worker

\* The compare-and-swap loop, the channel and the worker's subtraction together
\* are the atomic gate: strict submissions pass below the limit and are refused
\* only at it, for any number of threads.
THEOREM GateImplemented == Spec => AdmissionIsAtomic
<1>1. Init => Gate!Init
  BY JobsAssumption DEF Init, Gate!Init, Verdict, Counted
<1>2. IInv /\ TypeOK /\ [Next]_vars => [Gate!Next]_Gate!vars
  BY StepImplementsGate DEF Gate!vars
<1>3. QED
  BY <1>1, <1>2, Inductive, TypeCorrect, PTL DEF Spec, AdmissionIsAtomic, Gate!Spec
=============================================================================
