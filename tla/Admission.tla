----------------------------- MODULE Admission -----------------------------
(***************************************************************************)
(* The submission path of SchedulerHandle and the opening of the worker's  *)
(* intake, one atomic operation at a time: the compare-and-swap loop on    *)
(* `waiting`, the job channel, and the queue_depth gauge that both sides   *)
(* refresh with a separate load and store.  Each job is submitted once, by *)
(* a thread of its own.                                                    *)
(***************************************************************************)
EXTENDS Integers, Sequences, FiniteSets

CONSTANTS
  Jobs,        \* jobs, and the threads that submit them
  Strict,      \* submitted by try_generate; the others by generate
  QueueLimit,  \* SchedulerConfig::queue_limit
  NoJob

ASSUME JobsAssumption ==
  /\ IsFiniteSet(Jobs)
  /\ Strict \subseteq Jobs
  /\ NoJob \notin Jobs
ASSUME LimitAssumption == QueueLimit \in Nat

VARIABLES
  waiting,     \* SchedulerInner::waiting
  gauge,       \* MetricsRegistry::queue_depth
  queue,       \* the job channel
  pc,          \* per job, where its submission is
  copy,        \* per job, what its thread last loaded from `waiting`
  wpc,         \* where the worker's intake is
  wjob,        \* the job it has taken
  wcopy        \* what it last loaded from `waiting`

vars == <<waiting, gauge, queue, pc, copy, wpc, wjob, wcopy>>
workerVars == <<wpc, wjob, wcopy>>

Init ==
  /\ waiting = 0
  /\ gauge = 0
  /\ queue = <<>>
  /\ pc = [j \in Jobs |-> "load"]
  /\ copy = [j \in Jobs |-> 0]
  /\ wpc = "recv"
  /\ wjob = NoJob
  /\ wcopy = 0

Goto(j, to) == pc' = [pc EXCEPT ![j] = to]

-----------------------------------------------------------------------------
(* Handles *)

\* admit(): load, then the guard on the value loaded.  try_generate returns
\* QueueFull; generate goes on to waiting_add_unchecked.
Load(j) ==
  /\ pc[j] = "load"
  /\ copy' = [copy EXCEPT ![j] = waiting]
  /\ IF QueueLimit = 0 \/ waiting >= QueueLimit
     THEN Goto(j, IF j \in Strict THEN "refused" ELSE "add")
     ELSE Goto(j, "cas")
  /\ UNCHANGED <<waiting, gauge, queue, workerVars>>

\* Mutated form: the increment does not compare.
BlindAdd(j) == TRUE
Unmoved(j) == waiting = copy[j]

\* Mutated form: the retry keeps the value it lost with.
RetryBlind == "cas"
Retry == "load"

\* admit(): compare_exchange(cur, cur + 1), or around the loop again.
CompareExchange(j) ==
  /\ pc[j] = "cas"
  /\ IF Unmoved(j)
     THEN waiting' = waiting + 1 /\ Goto(j, "mirror")
     ELSE Goto(j, Retry) /\ UNCHANGED waiting
  /\ UNCHANGED <<gauge, queue, copy, workerVars>>

\* Mutated form: generate queues beyond the limit without counting.
NotCompensated(w) == w
Compensated(w) == w + 1

\* generate, beyond the limit: waiting_add_unchecked.
AddUnchecked(j) ==
  /\ pc[j] = "add"
  /\ waiting' = Compensated(waiting)
  /\ Goto(j, "mirror")
  /\ UNCHANGED <<gauge, queue, copy, workerVars>>

\* mirror_queue_depth: the load and the store of two atomics.
MirrorLoad(j) ==
  /\ pc[j] = "mirror"
  /\ copy' = [copy EXCEPT ![j] = waiting]
  /\ Goto(j, "store")
  /\ UNCHANGED <<waiting, gauge, queue, workerVars>>

MirrorStore(j) ==
  /\ pc[j] = "store"
  /\ gauge' = copy[j]
  /\ Goto(j, "send")
  /\ UNCHANGED <<waiting, queue, copy, workerVars>>

\* submit_raw.
Send(j) ==
  /\ pc[j] = "send"
  /\ queue' = Append(queue, j)
  /\ Goto(j, "sent")
  /\ UNCHANGED <<waiting, gauge, copy, workerVars>>

-----------------------------------------------------------------------------
(* Worker *)

Recv ==
  /\ wpc = "recv"
  /\ queue # <<>>
  /\ wjob' = Head(queue)
  /\ queue' = Tail(queue)
  /\ wpc' = "sub"
  /\ UNCHANGED <<waiting, gauge, pc, copy, wcopy>>

\* Mutated form: the worker writes back what it knew instead of subtracting.
StoreBack(w) == wcopy - 1
MinusOne(w) == w - 1

IntakeSub ==
  /\ wpc = "sub"
  /\ waiting' = MinusOne(waiting)
  /\ wpc' = "load"
  /\ UNCHANGED <<gauge, queue, pc, copy, wjob, wcopy>>

IntakeLoad ==
  /\ wpc = "load"
  /\ wcopy' = waiting
  /\ wpc' = "store"
  /\ UNCHANGED <<waiting, gauge, queue, pc, copy, wjob>>

\* Mutated form: the gauge gets what fetch_sub returned, the value before it.
BeforeSub == wcopy + 1
AfterSub == wcopy

IntakeStore ==
  /\ wpc = "store"
  /\ gauge' = AfterSub
  /\ wjob' = NoJob
  /\ wpc' = "recv"
  /\ UNCHANGED <<waiting, queue, pc, copy, wcopy>>

-----------------------------------------------------------------------------
Submitter(j) ==
  Load(j) \/ CompareExchange(j) \/ AddUnchecked(j) \/ MirrorLoad(j)
    \/ MirrorStore(j) \/ Send(j)

Worker == Recv \/ IntakeSub \/ IntakeLoad \/ IntakeStore

Next == Worker \/ \E j \in Jobs : Submitter(j)

Spec == Init /\ [][Next]_vars

\* Submitting threads and the worker are scheduled.
FairSpec == Spec /\ WF_vars(Worker) /\ \A j \in Jobs : WF_vars(Submitter(j))

-----------------------------------------------------------------------------
(* Refinement: the compare-and-swap loop is an atomic gate *)

\* Jobs counted in `waiting`: from the increment to the worker's fetch_sub.
Counted(j) ==
  \/ pc[j] \in {"mirror", "store", "send"}
  \/ wpc = "sub" /\ wjob = j
  \/ \E i \in 1..Len(queue) : queue[i] = j

Verdict ==
  [j \in Jobs |->
     IF pc[j] = "refused" THEN "refused"
     ELSE IF Counted(j) THEN "counted"
     ELSE IF pc[j] = "sent" THEN "taken"
     ELSE "none"]

Gate == INSTANCE AdmissionGate WITH verdict <- Verdict

\* Whatever the interleaving of loads, swaps and the worker's subtractions,
\* admission is the atomic gate: a strict submission is counted only below the
\* limit, and refused only when the limit was reached at that very moment.
AdmissionIsAtomic == Gate!Spec

-----------------------------------------------------------------------------
(* Properties *)

TypeOK ==
  /\ waiting \in Nat
  /\ gauge \in Nat
  /\ queue \in Seq(Jobs)
  /\ pc \in [Jobs -> {"load", "cas", "add", "mirror", "store", "send", "sent",
                      "refused"}]
  /\ copy \in [Jobs -> Nat]
  /\ wpc \in {"recv", "sub", "load", "store"}
  /\ wjob \in Jobs \cup {NoJob}
  /\ wcopy \in Nat

\* `waiting` counts exactly the jobs between their +1 and their -1.
WaitingExact == waiting = Cardinality({j \in Jobs : Counted(j)})

\* Only the submissions that generate forces in can lift the queue above its
\* limit, each by one place, and no longer than it waits itself.
LimitKept ==
  waiting <= QueueLimit + Cardinality({j \in Jobs \ Strict : Counted(j)})

\* Every submission returns, whatever the contention on the counter.
SubmissionReturns == \A j \in Jobs : <>(pc[j] \in {"sent", "refused"})

\* No increment, decrement or mirror is under way.
Still ==
  /\ \A j \in Jobs : pc[j] \in {"load", "sent", "refused"}
  /\ wpc = "recv"

\* Once the queue has drained, the queue_depth gauge agrees with the
\* authoritative counter, however the loads and stores of the handles and the
\* worker were interleaved.
GaugeSettles == Still /\ queue = <<>> => gauge = waiting
=============================================================================
