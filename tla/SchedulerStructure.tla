------------------------ MODULE SchedulerStructure ------------------------
(***************************************************************************)
(* The structural invariant of Scheduler, proved for every number of jobs, *)
(* sessions and batch slots, every event capacity and every set of faults: *)
(* types, the worker's control, where each stream is, and the two counters *)
(* of jobs.  Scheduler's safety properties rest on it (SchedulerProofs).   *)
(***************************************************************************)
EXTENDS Scheduler, FiniteSetTheorems, WellFoundedInduction, TLAPS

-----------------------------------------------------------------------------
(* Sequences *)

\* No value occurs twice in s.
Once(s) == \A i, k \in 1..Len(s) : s[i] = s[k] => i = k

LEMMA HeadTail ==
  ASSUME NEW S, NEW s \in Seq(S), s # <<>>
  PROVE  /\ Len(s) \in Nat \ {0}
         /\ Head(s) \in S
         /\ Head(s) = s[1]
         /\ Tail(s) \in Seq(S)
         /\ Len(Tail(s)) = Len(s) - 1
         /\ \A i \in 1..Len(s) - 1 : Tail(s)[i] = s[i + 1]
OBVIOUS

LEMMA AppendOne ==
  ASSUME NEW S, NEW s \in Seq(S), NEW e \in S
  PROVE  /\ Append(s, e) \in Seq(S)
         /\ Len(Append(s, e)) = Len(s) + 1
         /\ Append(s, e)[Len(s) + 1] = e
         /\ \A i \in 1..Len(s) : Append(s, e)[i] = s[i]
OBVIOUS

LEMMA LastButLast ==
  ASSUME NEW S, NEW s \in Seq(S), s # <<>>
  PROVE  /\ Len(s) \in Nat \ {0}
         /\ LastOf(s) \in S
         /\ LastOf(s) = s[Len(s)]
         /\ AllButLast(s) \in Seq(S)
         /\ Len(AllButLast(s)) = Len(s) - 1
         /\ \A i \in 1..Len(s) - 1 : AllButLast(s)[i] = s[i]
<1>1. Len(s) \in Nat \ {0}
  OBVIOUS
<1>2. LastOf(s) \in S /\ LastOf(s) = s[Len(s)]
  BY <1>1 DEF LastOf
<1>3. AllButLast(s) = [i \in 1..Len(s) - 1 |-> s[i]]
  BY <1>1 DEF AllButLast
<1>4. \A i \in 1..Len(s) - 1 : s[i] \in S
  BY <1>1
<1>5. AllButLast(s) \in Seq(S)
  BY <1>1, <1>3, <1>4
<1>6. Len(AllButLast(s)) = Len(s) - 1
  BY <1>1, <1>3
<1> QED BY <1>1, <1>2, <1>3, <1>5, <1>6

\* The members of a sequence and of what is left when its head is taken.
LEMMA MembersTail ==
  ASSUME NEW S, NEW s \in Seq(S), s # <<>>
  PROVE  /\ Members(s) = {Head(s)} \cup Members(Tail(s))
         /\ Once(s) => Once(Tail(s)) /\ Head(s) \notin Members(Tail(s))
<1>1. /\ Len(s) \in Nat \ {0}
      /\ Head(s) = s[1]
      /\ Len(Tail(s)) = Len(s) - 1
      /\ \A i \in 1..Len(s) - 1 : Tail(s)[i] = s[i + 1]
  BY HeadTail
<1>2. ASSUME NEW i \in 1..Len(s) PROVE s[i] \in {Head(s)} \cup Members(Tail(s))
  <2>1. CASE i = 1
    BY <1>1, <2>1
  <2>2. CASE i # 1
    <3>1. i - 1 \in 1..Len(Tail(s)) /\ Tail(s)[i - 1] = s[i]
      BY <1>1, <2>2
    <3>2. QED BY <3>1 DEF Members
  <2>3. QED BY <2>1, <2>2
<1>3. \A i \in 1..Len(Tail(s)) : i + 1 \in 1..Len(s) /\ Tail(s)[i] = s[i + 1]
  BY <1>1
<1>4. Head(s) \in Members(s) /\ Members(Tail(s)) \subseteq Members(s)
  BY <1>1, <1>3 DEF Members
<1>5. Members(s) = {Head(s)} \cup Members(Tail(s))
  BY <1>2, <1>4 DEF Members
<1>6. ASSUME Once(s) PROVE Once(Tail(s)) /\ Head(s) \notin Members(Tail(s))
  <2>1. ASSUME NEW i \in 1..Len(Tail(s)), NEW k \in 1..Len(Tail(s)),
               Tail(s)[i] = Tail(s)[k]
        PROVE  i = k
    BY <1>1, <1>3, <1>6, <2>1 DEF Once
  <2>2. ASSUME NEW i \in 1..Len(Tail(s)) PROVE Tail(s)[i] # Head(s)
    BY <1>1, <1>3, <1>6 DEF Once
  <2>3. QED BY <2>1, <2>2 DEF Once, Members
<1>7. QED BY <1>5, <1>6

LEMMA MembersAppend ==
  ASSUME NEW S, NEW s \in Seq(S), NEW e \in S
  PROVE  /\ Members(Append(s, e)) = Members(s) \cup {e}
         /\ Once(s) /\ e \notin Members(s) => Once(Append(s, e))
<1>1. /\ Len(s) \in Nat
      /\ Len(Append(s, e)) = Len(s) + 1
      /\ Append(s, e)[Len(s) + 1] = e
      /\ \A i \in 1..Len(s) : Append(s, e)[i] = s[i]
  BY AppendOne
<1>2. \A i \in 1..Len(s) + 1 : i \in 1..Len(s) \/ i = Len(s) + 1
  BY <1>1
<1>3. 1..Len(s) \subseteq 1..Len(s) + 1 /\ Len(s) + 1 \in 1..Len(s) + 1
  BY <1>1
<1>4. Members(Append(s, e)) = Members(s) \cup {e}
  BY <1>1, <1>2, <1>3 DEF Members
<1>5. ASSUME Once(s), e \notin Members(s) PROVE Once(Append(s, e))
  BY <1>1, <1>2, <1>5 DEF Once, Members
<1>6. QED BY <1>4, <1>5

LEMMA MembersButLast ==
  ASSUME NEW S, NEW s \in Seq(S), s # <<>>
  PROVE  /\ Members(s) = Members(AllButLast(s)) \cup {LastOf(s)}
         /\ Once(s) => Once(AllButLast(s)) /\ LastOf(s) \notin Members(AllButLast(s))
<1>1. /\ Len(s) \in Nat \ {0}
      /\ LastOf(s) = s[Len(s)]
      /\ Len(AllButLast(s)) = Len(s) - 1
      /\ \A i \in 1..Len(s) - 1 : AllButLast(s)[i] = s[i]
  BY LastButLast
<1>2. \A i \in 1..Len(s) : i \in 1..Len(s) - 1 \/ i = Len(s)
  BY <1>1
<1>3. 1..Len(s) - 1 \subseteq 1..Len(s) /\ Len(s) \in 1..Len(s) /\ Len(s) \notin 1..Len(s) - 1
  BY <1>1
<1>4. QED BY <1>1, <1>2, <1>3 DEF Members, Once

LEMMA MembersEmpty == Members(<<>>) = {} /\ Once(<<>>)
BY DEF Members, Once

\* A non-empty set of numbers has a least element: what FirstFree and NextToAdd
\* choose exists.
LEMMA Least ==
  ASSUME NEW S, S \subseteq Nat, S # {}
  PROVE  \E k \in S : \A m \in S : k <= m
<1>1. PICK k \in S : \A m \in S : ~ (<<m, k>> \in OpToRel(<, Nat))
  BY WFMin, NatLessThanWellFounded
<1>2. \A m \in S : ~ (m < k)
  BY <1>1 DEF OpToRel
<1>3. QED BY <1>2

LEMMA SlotsExist == BatchSlots \in Nat \ {0}
BY ConfigAssumption DEF BatchSlots, MAX_BATCH_SLOTS

LEMMA FirstFreeExists ==
  ASSUME FreeSlots # {} PROVE FirstFree \in 1..BatchSlots /\ slots[FirstFree] = 0
<1>1. FreeSlots \subseteq Nat
  BY SlotsExist DEF FreeSlots
<1>2. FirstFree \in FreeSlots
  BY <1>1, Least DEF FirstFree
<1>3. QED BY <1>2 DEF FreeSlots

LEMMA NextToAddExists ==
  ASSUME batch \in Seq(Jobs), Outside # {}
  PROVE  NextToAdd \in Members(batch) /\ slot[NextToAdd] = 0
<1>1. Outside \subseteq Nat
  BY DEF Outside
<1>2. (CHOOSE i \in Outside : \A m \in Outside : i <= m) \in Outside
  BY <1>1, Least
<1>3. QED BY <1>2 DEF NextToAdd, Outside, Members

-----------------------------------------------------------------------------
(* The invariant *)

\* Which collections may hold streams at each place of the worker's code, and
\* how far its loops may still run.
Control ==
  /\ cur # NoJob <=> pc \in {"step", "decode", "retire", "refuse"}
  /\ pc \in {"step", "decode"} => ret \in {"solo", "unbatch"}
  /\ pc = "retire" => ret \in {"solo", "scan", "feed", "unbatch", "shutdown"}
  /\ solo # <<>> =>
       \/ pc \in {"sort", "solo"}
       \/ pc \in {"step", "decode", "retire"} /\ ret = "solo"
  /\ batch # <<>> =>
       \/ pc \in {"sort", "solo", "scan", "form", "feed", "unbatch"}
       \/ pc \in {"step", "decode", "retire"} /\ ret # "shutdown"
  /\ pc = "sort" => togo <= Len(active)
  /\ pc = "scan" \/ (pc = "retire" /\ ret = "scan") => togo <= Len(batch)
  /\ pc = "shutdown" => ret = "shutdown"
  /\ pc = "exited" => active = <<>>

\* active_streams counts the streams the worker has anywhere.
StreamTally ==
  activeStreams =
    Len(active) + Len(solo) + Len(batch) + (IF cur = NoJob THEN 0 ELSE 1)

\* Jobs that were counted and not yet taken, those the exit dropped included.
Waiters == {j \in Jobs : stage[j] \in {"admitted", "queued", "dropped"}}
WaitingTally == waiting = Cardinality(Waiters)

\* Every job the worker holds is in one place, and the channel holds each
\* queued job once.
Placement ==
  /\ Once(queue) /\ Once(active) /\ Once(solo) /\ Once(batch)
  /\ Members(active) \cap Members(solo) = {}
  /\ Members(active) \cap Members(batch) = {}
  /\ Members(solo) \cap Members(batch) = {}
  /\ cur \notin Members(active) \cup Members(solo) \cup Members(batch)
  /\ \A j \in Members(queue) : stage[j] = "queued"
  /\ \A j \in Members(active) \cup Members(solo) \cup Members(batch) : stage[j] = "running"
  /\ cur # NoJob => stage[cur] = "running"

Structure == TypeOK /\ Control /\ StreamTally /\ WaitingTally /\ Placement

-----------------------------------------------------------------------------
(* Types *)

LEMMA TypesOfSequences ==
  ASSUME TypeOK
  PROVE  /\ queue # <<>> => Head(queue) \in Jobs /\ Tail(queue) \in Seq(Jobs)
         /\ active # <<>> => Head(active) \in Jobs /\ Tail(active) \in Seq(Jobs)
         /\ solo # <<>> => Head(solo) \in Jobs /\ Tail(solo) \in Seq(Jobs)
         /\ batch # <<>> => Head(batch) \in Jobs /\ Tail(batch) \in Seq(Jobs)
         /\ idle # <<>> => LastOf(idle) \in Nat /\ AllButLast(idle) \in Seq(Nat)
         /\ Len(active) \in Nat /\ Len(solo) \in Nat /\ Len(batch) \in Nat
         /\ Len(idle) \in Nat
         /\ \A j \in Jobs : /\ Append(queue, j) \in Seq(Jobs)
                            /\ Append(active, j) \in Seq(Jobs)
                            /\ Append(solo, j) \in Seq(Jobs)
                            /\ Append(batch, j) \in Seq(Jobs)
<1>1. /\ queue \in Seq(Jobs) /\ active \in Seq(Jobs) /\ solo \in Seq(Jobs)
      /\ batch \in Seq(Jobs) /\ idle \in Seq(Nat)
  BY DEF TypeOK
<1>2. queue # <<>> => Head(queue) \in Jobs /\ Tail(queue) \in Seq(Jobs)
  BY <1>1, HeadTail
<1>3. active # <<>> => Head(active) \in Jobs /\ Tail(active) \in Seq(Jobs)
  BY <1>1, HeadTail
<1>4. solo # <<>> => Head(solo) \in Jobs /\ Tail(solo) \in Seq(Jobs)
  BY <1>1, HeadTail
<1>5. batch # <<>> => Head(batch) \in Jobs /\ Tail(batch) \in Seq(Jobs)
  BY <1>1, HeadTail
<1>6. idle # <<>> => LastOf(idle) \in Nat /\ AllButLast(idle) \in Seq(Nat)
  BY <1>1, LastButLast
<1>7. /\ Len(active) \in Nat /\ Len(solo) \in Nat /\ Len(batch) \in Nat
      /\ Len(idle) \in Nat
  BY <1>1
<1>8. \A j \in Jobs : /\ Append(queue, j) \in Seq(Jobs)
                     /\ Append(active, j) \in Seq(Jobs)
                     /\ Append(solo, j) \in Seq(Jobs)
                     /\ Append(batch, j) \in Seq(Jobs)
  BY <1>1
<1>9. QED BY <1>2, <1>3, <1>4, <1>5, <1>6, <1>7, <1>8

LEMMA TypeOfEvents ==
  \A j \in Jobs, n \in Nat : /\ Event("token", n) \in Events
                             /\ \A k \in Finals : Event(k, n) \in Events
BY DEF Event, Events, Finals

LEMMA TypeOfSent ==
  ASSUME TypeOK, NEW j \in Jobs, NEW e \in Events
  PROVE  Sent(j, e) \in [Jobs -> Seq(Events)]
<1>1. Append(chan[j], e) \in Seq(Events)
  BY DEF TypeOK
<1>2. QED BY <1>1 DEF Sent, TypeOK

LEMMA TypeOfReturn ==
  ASSUME TypeOK, NEW s \in Nat, ReturnSession(s)
  PROVE  idle' \in Seq(Nat)
<1>1. Append(idle, s) \in Seq(Nat)
  BY DEF TypeOK
<1>2. QED BY <1>1 DEF ReturnSession, TypeOK

LEMMA TypeOfLeave ==
  ASSUME TypeOK, NEW j \in Jobs, LeaveGroup(j)
  PROVE  slot' \in [Jobs -> 0..BatchSlots] /\ slots' \in [1..BatchSlots -> Nat]
<1>1. slot \in [Jobs -> 0..BatchSlots] /\ slots \in [1..BatchSlots -> Nat]
  BY DEF TypeOK
<1>2. slot' \in [Jobs -> 0..BatchSlots]
  BY <1>1, SlotsExist DEF LeaveGroup
<1>3. slots' \in [1..BatchSlots -> Nat]
  BY <1>1, SlotsExist DEF LeaveGroup
<1>4. QED BY <1>2, <1>3

LEMMA TypeOfRetire ==
  ASSUME TypeOK, NEW j \in Jobs, NEW why \in Finals, NEW back,
         back \in {"solo", "scan", "feed", "unbatch"}, StartRetire(j, why, back)
  PROVE  /\ slot' \in [Jobs -> 0..BatchSlots] /\ slots' \in [1..BatchSlots -> Nat]
         /\ cur' \in Jobs /\ fin' \in Finals /\ pc' \in PCs
         /\ ret' \in {"admit", "solo", "scan", "feed", "unbatch", "shutdown"}
         /\ active' \in Seq(Jobs) /\ group' \in BOOLEAN
BY TypeOfLeave DEF StartRetire, PCs, TypeOK

LEMMA TypeOfPushBack ==
  ASSUME TypeOK, NEW j \in Jobs, NEW back,
         back \in {"solo", "scan", "feed", "unbatch"}, PushBack(j, back)
  PROVE  /\ slot' \in [Jobs -> 0..BatchSlots] /\ slots' \in [1..BatchSlots -> Nat]
         /\ cur' \in Jobs \cup {NoJob} /\ fin' \in Finals /\ pc' \in PCs
         /\ ret' \in {"admit", "solo", "scan", "feed", "unbatch", "shutdown"}
         /\ active' \in Seq(Jobs) /\ group' \in BOOLEAN
BY TypesOfSequences DEF PushBack, PCs, TypeOK, Finals, memberVars

LEMMA TypeOfFeed ==
  ASSUME TypeOK, NEW j \in Jobs, NEW back,
         back \in {"solo", "scan", "feed", "unbatch"}, FeedToken(j, back)
  PROVE  /\ slot' \in [Jobs -> 0..BatchSlots] /\ slots' \in [1..BatchSlots -> Nat]
         /\ cur' \in Jobs \cup {NoJob} /\ fin' \in Finals /\ pc' \in PCs
         /\ ret' \in {"admit", "solo", "scan", "feed", "unbatch", "shutdown"}
         /\ active' \in Seq(Jobs) /\ group' \in BOOLEAN
         /\ chan' \in [Jobs -> Seq(Events)] /\ generated' \in [Jobs -> Nat]
         /\ pending' \in [Jobs -> Nat] /\ late' \in [Jobs -> Nat]
<1> DEFINE Worker1 ==
         /\ slot' \in [Jobs -> 0..BatchSlots] /\ slots' \in [1..BatchSlots -> Nat]
         /\ cur' \in Jobs \cup {NoJob} /\ fin' \in Finals /\ pc' \in PCs
         /\ ret' \in {"admit", "solo", "scan", "feed", "unbatch", "shutdown"}
         /\ active' \in Seq(Jobs) /\ group' \in BOOLEAN
<1>1. \/ \E why \in {"stop", "length", "cancelled"} : StartRetire(j, why, back)
      \/ PushBack(j, back)
  BY DEF FeedToken
<1>2. Worker1
  BY <1>1, TypeOfRetire, TypeOfPushBack DEF Finals
<1>3. generated' \in [Jobs -> Nat] /\ late' \in [Jobs -> Nat]
  <2>1. generated \in [Jobs -> Nat] /\ late \in [Jobs -> Nat]
    BY DEF TypeOK
  <2>2. \/ UNCHANGED <<generated, late>>
        \/ /\ generated' = [generated EXCEPT ![j] = @ + 1]
           /\ late' = [late EXCEPT ![j] = IF cancel[j] THEN @ + 1 ELSE @]
    BY DEF FeedToken
  <2>3. QED BY <2>1, <2>2
<1>4. pending' \in [Jobs -> Nat]
  BY <1>3 DEF FeedToken, StashToken, TypeOK
<1>5. Append(chan[j], Event("token", generated'[j])) \in Seq(Events)
  BY <1>3, TypeOfEvents DEF TypeOK
<1>6. chan' \in [Jobs -> Seq(Events)]
  <2>1. \/ chan' = chan
        \/ chan' = [chan EXCEPT ![j] = Append(chan[j], Event("token", generated'[j]))]
    BY DEF FeedToken
  <2>2. chan \in [Jobs -> Seq(Events)]
    BY DEF TypeOK
  <2>3. QED BY <1>5, <2>1, <2>2
<1>7. QED BY <1>2, <1>3, <1>4, <1>6

LEMMA WaitingPositive ==
  ASSUME Structure, queue # <<>>
  PROVE  waiting \in Nat \ {0} /\ stage[Head(queue)] = "queued"
<1>1. Head(queue) \in Jobs /\ Head(queue) \in Members(queue)
  <2>1. queue \in Seq(Jobs)
    BY DEF Structure, TypeOK
  <2>2. QED BY <2>1, HeadTail, MembersTail
<1>2. stage[Head(queue)] = "queued"
  BY <1>1 DEF Structure, Placement
<1>3. Waiters # {} /\ IsFiniteSet(Waiters)
  <2>1. Waiters \subseteq Jobs /\ Head(queue) \in Waiters
    BY <1>1, <1>2 DEF Waiters
  <2>2. QED BY <2>1, FS_Subset, JobsAssumption
<1>4. Cardinality(Waiters) \in Nat /\ Cardinality(Waiters) # 0
  BY <1>3, FS_EmptySet, FS_CardinalityType
<1>5. QED BY <1>2, <1>4 DEF Structure, WaitingTally

LEMMA TypeOfTake ==
  ASSUME Structure, queue # <<>>, TakeJob
  PROVE  /\ queue' \in Seq(Jobs) /\ waiting' \in Nat /\ activeStreams' \in Nat
         /\ stage' \in [Jobs -> Stages]
<1>1. TypeOK
  BY DEF Structure
<1>2. Head(queue) \in Jobs /\ queue' \in Seq(Jobs)
  BY <1>1, TypesOfSequences DEF TakeJob
<1>3. waiting' \in Nat
  BY WaitingPositive DEF TakeJob
<1>4. activeStreams' \in Nat
  BY <1>1 DEF TypeOK, TakeJob
<1>5. stage' \in [Jobs -> Stages]
  BY <1>1, <1>2 DEF TypeOK, TakeJob, Stages
<1>6. QED BY <1>2, <1>3, <1>4, <1>5

LEMMA TypeOfTakeSession ==
  ASSUME TypeOK, queue # <<>>, TakeSession
  PROVE  sess' \in [Jobs -> Nat] /\ idle' \in Seq(Nat) /\ made' \in Nat
<1>1. Head(queue) \in Jobs /\ sess \in [Jobs -> Nat] /\ made \in Nat /\ idle \in Seq(Nat)
  BY TypesOfSequences DEF TypeOK
<1>2. CASE idle # <<>>
  BY <1>1, <1>2, TypesOfSequences DEF TakeSession
<1>3. CASE idle = <<>>
  BY <1>1, <1>3 DEF TakeSession
<1>4. QED BY <1>2, <1>3

LEMMA TypeInductive ==
  ASSUME Structure, [Next]_vars PROVE TypeOK'
<1> USE DEF handleVars, clientVars, genVars, loopVars, poolVars, gaugeVars, history,
            retireVars, memberVars, workerVars
<1>1. TypeOK /\ Control
  BY DEF Structure
<1>2. cur # NoJob => cur \in Jobs
  BY <1>1 DEF TypeOK
<1>3. ASSUME NEW j \in Jobs, Reject(j) PROVE TypeOK'
  BY <1>1, <1>3 DEF TypeOK, Reject, Stages
<1>4. ASSUME NEW j \in Jobs, Admit(j) PROVE TypeOK'
  <2>1. stage' \in [Jobs -> Stages] /\ waiting' \in Nat
    BY <1>1, <1>4 DEF TypeOK, Admit, Stages, Counted
  <2>2. QED BY <1>1, <1>4, <2>1 DEF TypeOK, Admit
<1>5. ASSUME NEW j \in Jobs, Submit(j) PROVE TypeOK'
  <2>1. stage' \in [Jobs -> Stages] /\ queue' \in Seq(Jobs)
    BY <1>1, <1>5, TypesOfSequences DEF TypeOK, Submit, Stages
  <2>2. QED BY <1>1, <1>5, <2>1 DEF TypeOK, Submit
<1>6. ASSUME NEW j \in Jobs, Receive(j) PROVE TypeOK'
  <2>1. Head(chan[j]) \in Events /\ Tail(chan[j]) \in Seq(Events)
    BY <1>1, <1>6, HeadTail DEF TypeOK, Receive
  <2>2. Append(seen[j], Head(chan[j])) \in Seq(Events)
    BY <1>1, <1>6, <2>1 DEF TypeOK
  <2>3. seen' \in [Jobs -> Seq(Events)] /\ chan' \in [Jobs -> Seq(Events)]
    BY <1>1, <1>6, <2>1, <2>2 DEF TypeOK, Receive
  <2>4. QED BY <1>1, <1>6, <2>1, <2>2, <2>3 DEF TypeOK, Receive
<1>7. ASSUME NEW j \in Jobs, DropReceiver(j) PROVE TypeOK'
  <2>1. <<>> \in Seq(Events)
    BY <1>1, <1>7
  <2>2. rx' \in [Jobs -> BOOLEAN] /\ chan' \in [Jobs -> Seq(Events)]
    BY <1>1, <1>7, <2>1 DEF TypeOK, DropReceiver
  <2>3. QED BY <1>1, <1>7, <2>1, <2>2 DEF TypeOK, DropReceiver
<1>8. ASSUME NEW j \in Jobs, Cancel(j) PROVE TypeOK'
  <2>1. cancel' \in [Jobs -> BOOLEAN]
    BY <1>1, <1>8 DEF TypeOK, Cancel
  <2>2. QED BY <1>1, <1>8, <2>1 DEF TypeOK, Cancel
<1>9. CASE Close
  BY <1>1, <1>9 DEF TypeOK, Close
<1>10. CASE Disconnect
  BY <1>1, <1>10, TypesOfSequences DEF TypeOK, Disconnect, PCs
<1>11. CASE EndSort
  BY <1>1, <1>11, TypesOfSequences DEF TypeOK, EndSort, PCs
<1>12. CASE StepOn
  BY <1>1, <1>12, TypesOfSequences DEF TypeOK, StepOn, PCs
<1>13. CASE EndSolo
  BY <1>1, <1>13, TypesOfSequences DEF TypeOK, EndSolo, PCs
<1>14. CASE EndScan
  BY <1>1, <1>14, TypesOfSequences DEF TypeOK, EndScan, PCs
<1>15. CASE CreateGroup
  BY <1>1, <1>15, TypesOfSequences DEF TypeOK, CreateGroup, PCs
<1>16. CASE Fallback
  BY <1>1, <1>16, TypesOfSequences DEF TypeOK, Fallback, PCs
<1>17. CASE BatchStep
  BY <1>1, <1>17, TypesOfSequences DEF TypeOK, BatchStep, PCs
<1>18. CASE EndBatch
  BY <1>1, <1>18, TypesOfSequences DEF TypeOK, EndBatch, PCs
<1>19. CASE BeginShutdown
  BY <1>1, <1>19, TypesOfSequences DEF TypeOK, BeginShutdown, PCs
<1>20. CASE SkipIntake
  BY <1>1, <1>20, TypesOfSequences DEF TypeOK, SkipIntake, PCs
<1>21. CASE IntakeWithoutSession
  <2>1. queue' \in Seq(Jobs) /\ waiting' \in Nat /\ activeStreams' \in Nat
        /\ stage' \in [Jobs -> Stages] /\ Head(queue) \in Jobs
    BY <1>1, <1>21, TypeOfTake, TypesOfSequences DEF IntakeWithoutSession, CanIntake
  <2>2. QED BY <1>1, <1>21, <2>1 DEF TypeOK, IntakeWithoutSession, RefuseJob, PCs, TakeJob
<1>22. CASE IntakeFails
  <2>1. queue' \in Seq(Jobs) /\ waiting' \in Nat /\ activeStreams' \in Nat
        /\ stage' \in [Jobs -> Stages] /\ Head(queue) \in Jobs
    BY <1>1, <1>22, TypeOfTake, TypesOfSequences DEF IntakeFails, CanIntake
  <2>2. sess' \in [Jobs -> Nat] /\ idle' \in Seq(Nat) /\ made' \in Nat
    BY <1>1, <1>22, TypeOfTakeSession DEF IntakeFails, CanIntake
  <2>3. QED BY <1>1, <1>22, <2>1, <2>2 DEF TypeOK, IntakeFails, RefuseJob, PCs, TakeJob
<1>23. CASE Intake
  <2>1. queue' \in Seq(Jobs) /\ waiting' \in Nat /\ activeStreams' \in Nat
        /\ stage' \in [Jobs -> Stages] /\ Head(queue) \in Jobs
    BY <1>1, <1>23, TypeOfTake, TypesOfSequences DEF Intake, CanIntake
  <2>2. sess' \in [Jobs -> Nat] /\ idle' \in Seq(Nat) /\ made' \in Nat
    BY <1>1, <1>23, TypeOfTakeSession DEF Intake, CanIntake
  <2>3. active' \in Seq(Jobs)
    BY <1>1, <1>23, <2>1, TypesOfSequences DEF Intake
  <2>4. togo' \in Nat /\ activeSessions' \in Nat
    BY <1>1, <1>23, <2>3 DEF Intake
  <2>5. QED BY <1>1, <1>23, <2>1, <2>2, <2>3, <2>4 DEF TypeOK, Intake, PCs, TakeJob
<1>24. CASE Refuse
  <2>1. cur \in Jobs /\ activeStreams' \in Nat
    BY <1>1, <1>24, TypesOfSequences DEF Refuse, StreamOver, Control, TypeOK, Structure,
       StreamTally
  <2>2. Event("failed", 0) \in Events
    BY <1>1, <1>24, TypeOfEvents DEF Finals, Events, Event
  <2>3. chan' \in [Jobs -> Seq(Events)]
    BY <1>1, <1>24, <2>1, <2>2, TypeOfSent DEF Refuse
  <2>4. idle' \in Seq(Nat)
    BY <1>1, <1>24, <2>1, TypeOfReturn DEF Refuse, TypeOK
  <2>5. sess' \in [Jobs -> Nat] /\ stage' \in [Jobs -> Stages]
    BY <1>1, <1>24, <2>1 DEF Refuse, TypeOK, Stages
  <2>6. togo' \in Nat
    BY <1>1, <1>24, TypesOfSequences DEF Refuse
  <2>7. QED BY <1>1, <1>24, <2>1, <2>2, <2>3, <2>4, <2>5, <2>6 DEF TypeOK, Refuse, PCs
<1>25. CASE SortIntoBatch
  <2>1. active # <<>> /\ Head(active) \in Jobs
    BY <1>1, <1>25, TypesOfSequences DEF SortIntoBatch, Control, TypeOK
  <2>2. \A m \in Int : Entered(m) \in Int
    BY <1>1, <1>25 DEF Entered
  <2>3. skips' = [skips EXCEPT ![Head(active)] = Entered(skips[Head(active)])]
    BY <1>1, <1>25 DEF SortIntoBatch
  <2>4. skips' \in [Jobs -> Int]
    BY <1>1, <1>25, <2>1, <2>2, <2>3 DEF TypeOK
  <2>5. active' \in Seq(Jobs) /\ togo' \in Nat
    BY <1>1, <1>25, <2>1, TypesOfSequences DEF SortIntoBatch, TypeOK
  <2>6. batch' \in Seq(Jobs)
    BY <1>1, <1>25, <2>1, TypesOfSequences DEF SortIntoBatch
  <2>7. QED BY <1>1, <1>25, <2>1, <2>2, <2>3, <2>4, <2>5, <2>6 DEF TypeOK, SortIntoBatch
<1>26. CASE SortIntoSolo
  <2>1. active # <<>> /\ Head(active) \in Jobs
    BY <1>1, <1>26, TypesOfSequences DEF SortIntoSolo, Control, TypeOK
  <2>2. \A m \in Int : Entered(m) \in Int
    BY <1>1, <1>26 DEF Entered
  <2>3. skips' = [skips EXCEPT ![Head(active)] = Entered(skips[Head(active)])]
    BY <1>1, <1>26 DEF SortIntoSolo
  <2>4. skips' \in [Jobs -> Int]
    BY <1>1, <1>26, <2>1, <2>2, <2>3 DEF TypeOK
  <2>5. active' \in Seq(Jobs) /\ togo' \in Nat
    BY <1>1, <1>26, <2>1, TypesOfSequences DEF SortIntoSolo, TypeOK
  <2>6. solo' \in Seq(Jobs)
    BY <1>1, <1>26, <2>1, TypesOfSequences DEF SortIntoSolo
  <2>7. slot' \in [Jobs -> 0..BatchSlots] /\ slots' \in [1..BatchSlots -> Nat]
    BY <1>1, <1>26, <2>1, TypeOfLeave DEF SortIntoSolo
  <2>8. QED BY <1>1, <1>26, <2>1, <2>2, <2>3, <2>4, <2>5, <2>6, <2>7 DEF TypeOK, SortIntoSolo
<1>27. CASE HoldLone
  <2>1. batch # <<>> /\ Head(batch) \in Jobs
    <3>1. Len(batch) = 1
      BY <1>27 DEF HoldLone
    <3>2. batch # <<>>
      BY <3>1
    <3>3. QED BY <1>1, <3>2, TypesOfSequences
  <2>2. active' \in Seq(Jobs)
    BY <1>1, <1>27, <2>1, TypesOfSequences DEF HoldLone
  <2>3. held' \in [Jobs -> BOOLEAN]
    BY <1>1, <1>27, <2>1 DEF HoldLone, MarkHeld, TypeOK
  <2>4. batch' \in Seq(Jobs) /\ pc' \in PCs
    BY <1>27 DEF HoldLone, PCs
  <2>5. QED BY <1>1, <1>27, <2>1, <2>2, <2>3, <2>4 DEF TypeOK, HoldLone
<1>28. CASE LoneToSolo
  <2>1. batch # <<>> /\ Head(batch) \in Jobs
    <3>1. Len(batch) = 1
      BY <1>28 DEF LoneToSolo
    <3>2. batch # <<>>
      BY <3>1
    <3>3. QED BY <1>1, <3>2, TypesOfSequences
  <2>2. solo' \in Seq(Jobs)
    BY <1>1, <1>28, <2>1, TypesOfSequences DEF LoneToSolo
  <2>3. slot' \in [Jobs -> 0..BatchSlots] /\ slots' \in [1..BatchSlots -> Nat]
    BY <1>1, <1>28, <2>1, TypeOfLeave DEF LoneToSolo
  <2>4. batch' \in Seq(Jobs) /\ pc' \in PCs
    BY <1>28 DEF LoneToSolo, PCs
  <2>5. QED BY <1>1, <1>28, <2>1, <2>2, <2>3, <2>4 DEF TypeOK, LoneToSolo
<1>29. CASE NextSolo
  <2>1. Head(solo) \in Jobs /\ solo' \in Seq(Jobs)
    BY <1>1, <1>29, TypesOfSequences DEF NextSolo
  <2>2. skips' \in [Jobs -> Int]
    <3>1. skips \in [Jobs -> Int]
      BY <1>1 DEF TypeOK
    <3>2. skips' = [skips EXCEPT ![Head(solo)] = skips[Head(solo)] - 1]
      BY <1>29 DEF NextSolo
    <3>3. QED BY <2>1, <3>1, <3>2
  <2>3. QED BY <1>1, <1>29, <2>1, <2>2 DEF TypeOK, NextSolo, PCs
<1>30. CASE StepCancelled
  <2>1. cur \in Jobs /\ ret \in {"solo", "unbatch"}
    BY <1>1, <1>30, <1>2 DEF StepCancelled, Control
  <2>2. /\ slot' \in [Jobs -> 0..BatchSlots] /\ slots' \in [1..BatchSlots -> Nat]
        /\ cur' \in Jobs \cup {NoJob} /\ fin' \in Finals /\ pc' \in PCs
        /\ ret' \in {"admit", "solo", "scan", "feed", "unbatch", "shutdown"}
        /\ active' \in Seq(Jobs) /\ group' \in BOOLEAN
    BY <1>1, <1>30, <2>1, TypeOfRetire DEF StepCancelled, Finals
  <2>3. QED BY <1>1, <1>30, <2>1, <2>2 DEF TypeOK, StepCancelled
<1>31. CASE ResendClosed
  <2>1. cur \in Jobs /\ ret \in {"solo", "unbatch"}
    BY <1>1, <1>31, <1>2 DEF ResendClosed, Control
  <2>2. /\ slot' \in [Jobs -> 0..BatchSlots] /\ slots' \in [1..BatchSlots -> Nat]
        /\ cur' \in Jobs \cup {NoJob} /\ fin' \in Finals /\ pc' \in PCs
        /\ ret' \in {"admit", "solo", "scan", "feed", "unbatch", "shutdown"}
        /\ active' \in Seq(Jobs) /\ group' \in BOOLEAN
    BY <1>1, <1>31, <2>1, TypeOfRetire DEF ResendClosed, Finals
  <2>3. pending' \in [Jobs -> Nat]
    BY <1>1, <1>31, <2>1 DEF ResendClosed, TypeOK
  <2>4. QED BY <1>1, <1>31, <2>1, <2>2, <2>3 DEF TypeOK, ResendClosed
<1>32. CASE ResendFull
  <2>1. cur \in Jobs /\ ret \in {"solo", "unbatch"}
    BY <1>1, <1>32, <1>2 DEF ResendFull, Control
  <2>2. /\ slot' \in [Jobs -> 0..BatchSlots] /\ slots' \in [1..BatchSlots -> Nat]
        /\ cur' \in Jobs \cup {NoJob} /\ fin' \in Finals /\ pc' \in PCs
        /\ ret' \in {"admit", "solo", "scan", "feed", "unbatch", "shutdown"}
        /\ active' \in Seq(Jobs) /\ group' \in BOOLEAN
    BY <1>1, <1>32, <2>1, TypeOfPushBack DEF ResendFull, Finals
  <2>3. QED BY <1>1, <1>32, <2>1, <2>2 DEF TypeOK, ResendFull
<1>33. CASE Resend
  <2>1. cur \in Jobs /\ ret \in {"solo", "unbatch"}
    BY <1>1, <1>33, <1>2 DEF Resend, Control
  <2>2. /\ slot' \in [Jobs -> 0..BatchSlots] /\ slots' \in [1..BatchSlots -> Nat]
        /\ cur' \in Jobs \cup {NoJob} /\ fin' \in Finals /\ pc' \in PCs
        /\ ret' \in {"admit", "solo", "scan", "feed", "unbatch", "shutdown"}
        /\ active' \in Seq(Jobs) /\ group' \in BOOLEAN
    BY <1>1, <1>33, <2>1, TypeOfRetire DEF Resend, Finals, PCs, TypeOK
  <2>3. pending[cur] \in Nat /\ Event("token", pending[cur]) \in Events
    BY <1>1, <1>33, <2>1, TypeOfEvents DEF TypeOK
  <2>4. Append(chan[cur], Event("token", pending[cur])) \in Seq(Events)
    BY <1>1, <1>33, <2>1, <2>3 DEF TypeOK
  <2>5. chan' \in [Jobs -> Seq(Events)] /\ pending' \in [Jobs -> Nat]
    BY <1>1, <1>33, <2>1, <2>4 DEF Resend, TypeOK
  <2>6. QED BY <1>1, <1>33, <2>1, <2>2, <2>3, <2>4, <2>5 DEF TypeOK, Resend
<1>34. CASE DecodeOne
  <2>1. cur \in Jobs /\ ret \in {"solo", "unbatch"}
    BY <1>1, <1>34, <1>2 DEF DecodeOne, Control
  <2>2. /\ slot' \in [Jobs -> 0..BatchSlots] /\ slots' \in [1..BatchSlots -> Nat]
        /\ cur' \in Jobs \cup {NoJob} /\ fin' \in Finals /\ pc' \in PCs
        /\ ret' \in {"admit", "solo", "scan", "feed", "unbatch", "shutdown"}
        /\ active' \in Seq(Jobs) /\ group' \in BOOLEAN
        /\ chan' \in [Jobs -> Seq(Events)] /\ generated' \in [Jobs -> Nat]
        /\ pending' \in [Jobs -> Nat] /\ late' \in [Jobs -> Nat]
    BY <1>1, <1>34, <2>1, TypeOfFeed DEF DecodeOne
  <2>3. QED BY <1>1, <1>34, <2>1, <2>2 DEF TypeOK, DecodeOne
<1>35. CASE DecodeFails
  <2>1. cur \in Jobs /\ ret \in {"solo", "unbatch"}
    BY <1>1, <1>35, <1>2 DEF DecodeFails, Control
  <2>2. /\ slot' \in [Jobs -> 0..BatchSlots] /\ slots' \in [1..BatchSlots -> Nat]
        /\ cur' \in Jobs \cup {NoJob} /\ fin' \in Finals /\ pc' \in PCs
        /\ ret' \in {"admit", "solo", "scan", "feed", "unbatch", "shutdown"}
        /\ active' \in Seq(Jobs) /\ group' \in BOOLEAN
    BY <1>1, <1>35, <2>1, TypeOfRetire DEF DecodeFails, Finals
  <2>3. QED BY <1>1, <1>35, <2>1, <2>2 DEF TypeOK, DecodeFails
<1>36. CASE ScanKeep
  <2>1. batch # <<>> /\ Head(batch) \in Jobs /\ Tail(batch) \in Seq(Jobs)
    <3>1. pc = "scan" /\ togo > 0
      BY <1>36 DEF ScanKeep
    <3>2. togo \in Nat
      BY <1>1 DEF TypeOK
    <3>3. togo <= Len(batch)
      BY <1>1, <3>1 DEF Control
    <3>4. batch # <<>>
      BY <3>1, <3>2, <3>3
    <3>5. QED BY <1>1, <3>4, TypesOfSequences
  <2>2. Append(Tail(batch), Head(batch)) \in Seq(Jobs)
    BY <1>1, <1>36, <2>1
  <2>3. batch' \in Seq(Jobs) /\ togo' \in Nat
    BY <1>1, <1>36, <2>2 DEF ScanKeep, TypeOK
  <2>4. QED BY <1>1, <1>36, <2>1, <2>2, <2>3 DEF TypeOK, ScanKeep
<1>37. CASE ScanCancelled
  <2>1. batch # <<>> /\ Head(batch) \in Jobs /\ Tail(batch) \in Seq(Jobs)
    <3>1. pc = "scan" /\ togo > 0
      BY <1>37 DEF ScanCancelled
    <3>2. togo \in Nat
      BY <1>1 DEF TypeOK
    <3>3. togo <= Len(batch)
      BY <1>1, <3>1 DEF Control
    <3>4. batch # <<>>
      BY <3>1, <3>2, <3>3
    <3>5. QED BY <1>1, <3>4, TypesOfSequences
  <2>2. /\ slot' \in [Jobs -> 0..BatchSlots] /\ slots' \in [1..BatchSlots -> Nat]
        /\ cur' \in Jobs \cup {NoJob} /\ fin' \in Finals /\ pc' \in PCs
        /\ ret' \in {"admit", "solo", "scan", "feed", "unbatch", "shutdown"}
        /\ active' \in Seq(Jobs) /\ group' \in BOOLEAN
    BY <1>1, <1>37, <2>1, TypeOfRetire DEF ScanCancelled, Finals
  <2>3. batch' \in Seq(Jobs) /\ togo' \in Nat
    BY <1>1, <1>37, <2>1 DEF ScanCancelled, TypeOK
  <2>4. QED BY <1>1, <1>37, <2>1, <2>2, <2>3 DEF TypeOK, ScanCancelled
<1>38. CASE AddMember
  <2>1. NextToAdd \in Jobs
    <3>1. batch \in Seq(Jobs) /\ Outside # {}
      BY <1>1, <1>38 DEF TypeOK, AddMember
    <3>2. NextToAdd \in Members(batch)
      BY <3>1, NextToAddExists
    <3>3. QED BY <3>1, <3>2 DEF Members
  <2>2. FirstFree \in 1..BatchSlots
    BY <1>1, <1>38, FirstFreeExists DEF AddMember
  <2>3. slot' \in [Jobs -> 0..BatchSlots] /\ slots' \in [1..BatchSlots -> Nat]
    <3>1. /\ slot \in [Jobs -> 0..BatchSlots] /\ slots \in [1..BatchSlots -> Nat]
          /\ sess \in [Jobs -> Nat]
      BY <1>1 DEF TypeOK
    <3>2. /\ slot' = [slot EXCEPT ![NextToAdd] = FirstFree]
          /\ slots' = [slots EXCEPT ![FirstFree] = sess[NextToAdd]]
      BY <1>38 DEF AddMember
    <3>3. FirstFree \in 0..BatchSlots
      BY <2>2, SlotsExist
    <3>4. QED BY <2>1, <2>2, <3>1, <3>2, <3>3
  <2>4. QED BY <1>1, <1>38, <2>1, <2>2, <2>3 DEF TypeOK, AddMember
<1>39. CASE FeedNext
  <2>1. Head(batch) \in Jobs /\ batch' \in Seq(Jobs)
    BY <1>1, <1>39, TypesOfSequences DEF FeedNext
  <2>2. /\ slot' \in [Jobs -> 0..BatchSlots] /\ slots' \in [1..BatchSlots -> Nat]
        /\ cur' \in Jobs \cup {NoJob} /\ fin' \in Finals /\ pc' \in PCs
        /\ ret' \in {"admit", "solo", "scan", "feed", "unbatch", "shutdown"}
        /\ active' \in Seq(Jobs) /\ group' \in BOOLEAN
        /\ chan' \in [Jobs -> Seq(Events)] /\ generated' \in [Jobs -> Nat]
        /\ pending' \in [Jobs -> Nat] /\ late' \in [Jobs -> Nat]
    BY <1>1, <1>39, <2>1, TypeOfFeed DEF FeedNext
  <2>3. skips' \in [Jobs -> Int]
    <3>1. skips \in [Jobs -> Int]
      BY <1>1 DEF TypeOK
    <3>2. skips' = [skips EXCEPT ![Head(batch)] = skips[Head(batch)] - 1]
      BY <1>39 DEF FeedNext
    <3>3. QED BY <2>1, <3>1, <3>2
  <2>4. QED BY <1>1, <1>39, <2>1, <2>2, <2>3 DEF TypeOK, FeedNext
<1>40. CASE NextUnbatched
  <2>1. Head(batch) \in Jobs /\ batch' \in Seq(Jobs)
    BY <1>1, <1>40, TypesOfSequences DEF NextUnbatched
  <2>2. slot' \in [Jobs -> 0..BatchSlots] /\ slots' \in [1..BatchSlots -> Nat]
    BY <1>1, <1>40, <2>1, TypeOfLeave DEF NextUnbatched, Demote
  <2>3. skips' \in [Jobs -> Int]
    <3>1. skips \in [Jobs -> Int]
      BY <1>1 DEF TypeOK
    <3>2. skips' = [skips EXCEPT ![Head(batch)] = skips[Head(batch)] - 1]
      BY <1>40 DEF NextUnbatched
    <3>3. QED BY <2>1, <3>1, <3>2
  <2>4. QED BY <1>1, <1>40, <2>1, <2>2, <2>3 DEF TypeOK, NextUnbatched, PCs
<1>41. CASE Tidy
  <2>1. slots' \in [1..BatchSlots -> Nat] /\ group' \in BOOLEAN
    <3>1. slots \in [1..BatchSlots -> Nat] /\ group \in BOOLEAN
      BY <1>1 DEF TypeOK
    <3>2. \/ group' = FALSE /\ slots' = [k \in 1..BatchSlots |-> 0]
          \/ group' = group /\ slots' = slots
      BY <1>41 DEF Tidy
    <3>3. [k \in 1..BatchSlots |-> 0] \in [1..BatchSlots -> Nat]
      OBVIOUS
    <3>4. QED BY <3>1, <3>2, <3>3
  <2>2. QED BY <1>1, <1>41, <2>1 DEF TypeOK, Tidy, PCs
<1>42. CASE FlushOwed
  <2>1. cur \in Jobs
    BY <1>1, <1>42, <1>2 DEF FlushOwed, Control
  <2>2. pending[cur] \in Nat /\ Event("token", pending[cur]) \in Events
    BY <1>1, <1>42, <2>1, TypeOfEvents DEF TypeOK
  <2>3. chan' \in [Jobs -> Seq(Events)]
    BY <1>1, <1>42, <2>1, <2>2, TypeOfSent DEF FlushOwed
  <2>4. pending' \in [Jobs -> Nat]
    BY <1>1, <1>42, <2>1 DEF FlushOwed, TypeOK
  <2>5. QED BY <1>1, <1>42, <2>1, <2>2, <2>3, <2>4 DEF TypeOK, FlushOwed
<1>43. CASE FinishRetire
  <2>1. cur \in Jobs /\ activeStreams' \in Nat
    BY <1>1, <1>43, <1>2, TypesOfSequences DEF FinishRetire, Control, TypeOK, Structure,
       StreamTally
  <2>2. FinalEvent(cur) \in Events
    BY <1>1, <1>43, <2>1, TypeOfEvents DEF FinalEvent, TypeOK
  <2>3. chan' \in [Jobs -> Seq(Events)]
    BY <1>1, <1>43, <2>1, <2>2, TypeOfSent DEF FinishRetire
  <2>4. sess[cur] \in Nat /\ idle' \in Seq(Nat)
    BY <1>1, <1>43, <2>1, TypeOfReturn DEF FinishRetire, TypeOK
  <2>5. sess' \in [Jobs -> Nat] /\ stage' \in [Jobs -> Stages]
    BY <1>1, <1>43, <2>1 DEF FinishRetire, TypeOK, Stages
  <2>6. activeSessions' \in Nat
    BY <1>1, <1>43, TypesOfSequences DEF FinishRetire
  <2>7. QED BY <1>1, <1>43, <2>1, <2>2, <2>3, <2>4, <2>5, <2>6 DEF TypeOK, FinishRetire,
     PCs, Finals, Control
<1>44. CASE ShutdownNext
  <2>1. Head(active) \in Jobs /\ active' \in Seq(Jobs)
    BY <1>1, <1>44, TypesOfSequences DEF ShutdownNext
  <2>2. slot' \in [Jobs -> 0..BatchSlots] /\ slots' \in [1..BatchSlots -> Nat]
    BY <1>1, <1>44, <2>1, TypeOfLeave DEF ShutdownNext
  <2>3. QED BY <1>1, <1>44, <2>1, <2>2 DEF TypeOK, ShutdownNext, PCs, Finals
<1>45. CASE Exit
  <2>1. stage' \in [Jobs -> Stages] /\ slots' \in [1..BatchSlots -> Nat]
    BY <1>1, <1>45 DEF Exit, TypeOK, Stages
  <2>2. queue' \in Seq(Jobs) /\ idle' \in Seq(Nat)
    BY <1>1, <1>45 DEF Exit
  <2>3. QED BY <1>1, <1>45, <2>1, <2>2 DEF TypeOK, Exit, PCs
<1>46. CASE UNCHANGED vars
  BY <1>1, <1>46 DEF TypeOK, vars
<1>47. QED
  BY <1>3, <1>4, <1>5, <1>6, <1>7, <1>8, <1>9, <1>10, <1>11, <1>12, <1>13, <1>14, <1>15,
     <1>16, <1>17, <1>18, <1>19, <1>20, <1>21, <1>22, <1>23, <1>24, <1>25, <1>26, <1>27,
     <1>28, <1>29, <1>30, <1>31, <1>32, <1>33, <1>34, <1>35, <1>36, <1>37, <1>38, <1>39,
     <1>40, <1>41, <1>42, <1>43, <1>44, <1>45, <1>46
     DEF Next, Handles, Clients, Worker, Exited

-----------------------------------------------------------------------------
(* Steps *)

\* The steps that leave the worker's hands alone.
Still == Handles \/ Clients \/ CreateGroup \/ AddMember \/ FlushOwed

LEMMA StillHands ==
  ASSUME Still \/ UNCHANGED vars
  PROVE  UNCHANGED <<pc, cur, ret, togo, active, solo, batch, activeStreams>>
<1>1. CASE Handles
  BY <1>1 DEF Handles, Close, Disconnect, Reject, Admit, Submit, workerVars, loopVars,
       retireVars, gaugeVars
<1>2. CASE Clients
  BY <1>2 DEF Clients, Receive, DropReceiver, Cancel, workerVars, loopVars,
       retireVars, gaugeVars
<1>3. CASE CreateGroup
  BY <1>3 DEF CreateGroup, loopVars, retireVars, gaugeVars
<1>4. CASE AddMember
  BY <1>4 DEF AddMember, loopVars, retireVars, gaugeVars
<1>5. CASE FlushOwed
  BY <1>5 DEF FlushOwed, loopVars, retireVars, gaugeVars
<1>6. CASE UNCHANGED vars
  BY <1>6 DEF vars, workerVars, loopVars, retireVars, gaugeVars
<1>7. QED BY <1>1, <1>2, <1>3, <1>4, <1>5, <1>6 DEF Still

\* The two ways a stream leaves the worker's hands after a decode step.
LEMMA FeedOutcome ==
  ASSUME NEW j, NEW back, FeedToken(j, back)
  PROVE  \/ cur' = j /\ pc' = "retire" /\ ret' = back /\ active' = active
         \/ cur' = NoJob /\ pc' = back /\ ret' = "admit" /\ active' = Append(active, j)
BY DEF FeedToken, StartRetire, PushBack

LEMMA Lengths ==
  ASSUME TypeOK
  PROVE  /\ Len(active) \in Nat /\ Len(solo) \in Nat /\ Len(batch) \in Nat
         /\ active # <<>> => Len(active) > 0 /\ Len(Tail(active)) = Len(active) - 1
         /\ solo # <<>> => Len(solo) > 0 /\ Len(Tail(solo)) = Len(solo) - 1
         /\ batch # <<>> => Len(batch) > 0 /\ Len(Tail(batch)) = Len(batch) - 1
         /\ active = <<>> => Len(active) = 0
         /\ solo = <<>> => Len(solo) = 0
         /\ batch = <<>> => Len(batch) = 0
         /\ \A j \in Jobs : /\ Len(Append(active, j)) = Len(active) + 1
                            /\ Len(Append(solo, j)) = Len(solo) + 1
                            /\ Len(Append(batch, j)) = Len(batch) + 1
<1>1. active \in Seq(Jobs) /\ solo \in Seq(Jobs) /\ batch \in Seq(Jobs)
  BY DEF TypeOK
<1>2. ASSUME NEW s \in Seq(Jobs)
      PROVE  /\ Len(s) \in Nat
             /\ s # <<>> => Len(s) > 0 /\ Len(Tail(s)) = Len(s) - 1
             /\ s = <<>> => Len(s) = 0
             /\ \A j \in Jobs : Len(Append(s, j)) = Len(s) + 1
  OBVIOUS
<1>3. QED BY <1>1, <1>2

\* Where the worker finds a stream to work on, there is one.
LEMMA HandsFull ==
  ASSUME Structure
  PROVE  /\ cur # NoJob => cur \in Jobs
         /\ pc \in {"step", "decode", "retire", "refuse"} => cur \in Jobs
         /\ pc = "sort" /\ togo > 0 => active # <<>>
         /\ pc = "scan" /\ togo > 0 => batch # <<>>
<1>1. TypeOK /\ Control
  BY DEF Structure
<1>2. cur # NoJob => cur \in Jobs
  BY <1>1 DEF TypeOK
<1>3. pc \in {"step", "decode", "retire", "refuse"} => cur \in Jobs
  BY <1>1, <1>2 DEF Control
<1>4. togo \in Nat
  BY <1>1 DEF TypeOK
<1>5. pc = "sort" /\ togo > 0 => active # <<>>
  BY <1>1, <1>4, Lengths DEF Control
<1>6. pc = "scan" /\ togo > 0 => batch # <<>>
  BY <1>1, <1>4, Lengths DEF Control
<1>7. QED BY <1>2, <1>3, <1>5, <1>6

LEMMA ControlInductive ==
  ASSUME Structure, [Next]_vars PROVE Control'
<1>1. TypeOK /\ Control
  BY DEF Structure
<1>2. NoJob \notin Jobs
  BY JobsAssumption
<1>3. CASE Still \/ UNCHANGED vars
  BY <1>1, <1>3, StillHands DEF Control
<1>4. CASE IntakeWithoutSession
  BY <1>1, <1>2, <1>4, HandsFull, Lengths, TypesOfSequences
     DEF IntakeWithoutSession, RefuseJob, TakeJob, CanIntake, Control, loopVars, retireVars
<1>5. CASE IntakeFails
  BY <1>1, <1>2, <1>5, HandsFull, Lengths, TypesOfSequences
     DEF IntakeFails, RefuseJob, TakeJob, CanIntake, Control, loopVars, retireVars
<1>6. CASE Intake
  BY <1>1, <1>2, <1>6, HandsFull, Lengths, TypesOfSequences
     DEF Intake, TakeJob, CanIntake, Control, loopVars, retireVars
<1>7. CASE Refuse
  BY <1>1, <1>2, <1>7, HandsFull, Lengths
     DEF Refuse, Control, loopVars, retireVars
<1>8. CASE SkipIntake
  BY <1>1, <1>2, <1>8, HandsFull, Lengths
     DEF SkipIntake, Control, loopVars, retireVars
<1>9. CASE SortIntoBatch
  <2>1. active # <<>> /\ togo \in Nat /\ pc = "sort" /\ togo > 0
    BY <1>1, <1>9, HandsFull DEF SortIntoBatch, TypeOK
  <2>2. togo' <= Len(active')
    BY <1>1, <1>9, <2>1, Lengths DEF SortIntoBatch, Control
  <2>3. QED BY <1>1, <1>9, <2>1, <2>2 DEF SortIntoBatch, Control, retireVars
<1>10. CASE SortIntoSolo
  <2>1. active # <<>> /\ togo \in Nat /\ pc = "sort" /\ togo > 0
    BY <1>1, <1>10, HandsFull DEF SortIntoSolo, TypeOK
  <2>2. togo' <= Len(active')
    BY <1>1, <1>10, <2>1, Lengths DEF SortIntoSolo, Control
  <2>3. QED BY <1>1, <1>10, <2>1, <2>2 DEF SortIntoSolo, Control, retireVars
<1>11. CASE HoldLone
  BY <1>1, <1>2, <1>11, HandsFull, Lengths
     DEF HoldLone, Control, loopVars, retireVars
<1>12. CASE LoneToSolo
  BY <1>1, <1>2, <1>12, HandsFull, Lengths
     DEF LoneToSolo, Control, loopVars, retireVars
<1>13. CASE EndSort
  BY <1>1, <1>2, <1>13, HandsFull, Lengths
     DEF EndSort, Control, loopVars, retireVars
<1>14. CASE NextSolo
  <2>1. Head(solo) \in Jobs
    BY <1>1, <1>14, TypesOfSequences DEF NextSolo
  <2>2. QED BY <1>1, <1>2, <1>14, <2>1 DEF NextSolo, Control
<1>15. CASE StepCancelled
  BY <1>1, <1>2, <1>15, HandsFull, Lengths
     DEF StepCancelled, StartRetire, Control, loopVars, retireVars
<1>16. CASE ResendClosed
  BY <1>1, <1>2, <1>16, HandsFull, Lengths
     DEF ResendClosed, StartRetire, Control, loopVars, retireVars
<1>17. CASE ResendFull
  BY <1>1, <1>2, <1>17, HandsFull, Lengths
     DEF ResendFull, PushBack, Control, loopVars, retireVars
<1>18. CASE Resend
  BY <1>1, <1>2, <1>18, HandsFull, Lengths
     DEF Resend, StartRetire, Control, loopVars, retireVars
<1>19. CASE StepOn
  BY <1>1, <1>2, <1>19, HandsFull, Lengths
     DEF StepOn, Control, loopVars, retireVars
<1>20. CASE DecodeOne
  BY <1>1, <1>2, <1>20, HandsFull, Lengths, FeedOutcome
     DEF DecodeOne, Control, loopVars, retireVars
<1>21. CASE DecodeFails
  BY <1>1, <1>2, <1>21, HandsFull, Lengths
     DEF DecodeFails, StartRetire, Control, loopVars, retireVars
<1>22. CASE EndSolo
  BY <1>1, <1>2, <1>22, HandsFull, Lengths
     DEF EndSolo, Control, loopVars, retireVars
<1>23. CASE ScanKeep
  <2>1. batch # <<>> /\ togo \in Nat /\ pc = "scan" /\ togo > 0
    BY <1>1, <1>23, HandsFull DEF ScanKeep, TypeOK
  <2>2. togo' <= Len(batch')
    <3>1. Head(batch) \in Jobs /\ Tail(batch) \in Seq(Jobs)
      BY <1>1, <2>1, TypesOfSequences
    <3>2. Len(batch') = Len(Tail(batch)) + 1
      BY <1>23, <3>1, AppendOne DEF ScanKeep
    <3>3. QED BY <1>1, <1>23, <2>1, <3>2, Lengths DEF ScanKeep, Control
  <2>3. QED BY <1>1, <1>23, <2>1, <2>2 DEF ScanKeep, Control, retireVars
<1>24. CASE ScanCancelled
  <2>1. batch # <<>> /\ togo \in Nat /\ pc = "scan" /\ togo > 0
    BY <1>1, <1>24, HandsFull DEF ScanCancelled, TypeOK
  <2>2. togo' <= Len(batch')
    BY <1>1, <1>24, <2>1, Lengths DEF ScanCancelled, Control
  <2>3. Head(batch) \in Jobs
    BY <1>1, <2>1, TypesOfSequences
  <2>4. QED BY <1>1, <1>2, <1>24, <2>1, <2>2, <2>3 DEF ScanCancelled, StartRetire, Control
<1>25. CASE EndScan
  BY <1>1, <1>2, <1>25, HandsFull, Lengths
     DEF EndScan, Control, loopVars, retireVars
<1>26. CASE Fallback
  BY <1>1, <1>2, <1>26, HandsFull, Lengths
     DEF Fallback, Control, loopVars, retireVars
<1>27. CASE BatchStep
  BY <1>1, <1>2, <1>27, HandsFull, Lengths
     DEF BatchStep, Control, loopVars, retireVars
<1>28. CASE FeedNext
  <2>1. Head(batch) \in Jobs
    BY <1>1, <1>28, TypesOfSequences DEF FeedNext
  <2>2. \/ cur' = Head(batch) /\ pc' = "retire" /\ ret' = "feed" /\ active' = active
        \/ cur' = NoJob /\ pc' = "feed" /\ ret' = "admit"
    BY <1>28, FeedOutcome DEF FeedNext
  <2>3. pc = "feed" /\ togo' = togo /\ solo' = solo
    BY <1>28 DEF FeedNext
  <2>4. QED BY <1>1, <1>2, <2>1, <2>2, <2>3 DEF Control
<1>29. CASE NextUnbatched
  <2>1. Head(batch) \in Jobs
    BY <1>1, <1>29, TypesOfSequences DEF NextUnbatched
  <2>2. QED BY <1>1, <1>2, <1>29, <2>1 DEF NextUnbatched, Control
<1>30. CASE EndBatch
  BY <1>1, <1>2, <1>30, HandsFull, Lengths
     DEF EndBatch, Control, loopVars, retireVars
<1>31. CASE Tidy
  BY <1>1, <1>2, <1>31, HandsFull, Lengths
     DEF Tidy, Control, loopVars, retireVars
<1>32. CASE FinishRetire
  BY <1>1, <1>2, <1>32, HandsFull, Lengths
     DEF FinishRetire, Control, loopVars, retireVars
<1>33. CASE BeginShutdown
  BY <1>1, <1>2, <1>33, HandsFull, Lengths
     DEF BeginShutdown, Control, loopVars, retireVars
<1>34. CASE ShutdownNext
  <2>1. Head(active) \in Jobs
    BY <1>1, <1>34, TypesOfSequences DEF ShutdownNext
  <2>2. QED BY <1>1, <1>2, <1>34, <2>1 DEF ShutdownNext, Control, loopVars
<1>35. CASE Exit
  BY <1>1, <1>2, <1>35, HandsFull, Lengths
     DEF Exit, Control, loopVars, retireVars
<1>36. QED
  BY <1>3, <1>4, <1>5, <1>6, <1>7, <1>8, <1>9, <1>10, <1>11, <1>12, <1>13, <1>14, <1>15,
     <1>16, <1>17, <1>18, <1>19, <1>20, <1>21, <1>22, <1>23, <1>24, <1>25, <1>26, <1>27,
     <1>28, <1>29, <1>30, <1>31, <1>32, <1>33, <1>34, <1>35 DEF Next, Still, Worker, Exited

LEMMA TailOfOne ==
  ASSUME NEW S, NEW s \in Seq(S), Len(s) = 1 PROVE s # <<>> /\ Tail(s) = <<>>
<1>1. s # <<>>
  OBVIOUS
<1>2. Tail(s) \in Seq(S)
  BY <1>1, HeadTail
<1>3. Len(Tail(s)) = Len(s) - 1
  BY <1>1, HeadTail
<1>4. \A t \in Seq(S) : t # <<>> => Len(t) \in Nat \ {0}
  BY HeadTail
<1>5. Len(Tail(s)) \notin Nat \ {0}
  BY <1>3
<1>6. Tail(s) = <<>>
  BY <1>2, <1>4, <1>5
<1>7. QED BY <1>1, <1>6

\* The ways in which a worker's step moves a stream it keeps.
StayPut == UNCHANGED <<active, solo, batch, cur>>
PushedBack ==
  /\ cur \in Jobs /\ cur' = NoJob
  /\ active' = Append(active, cur) /\ UNCHANGED <<solo, batch>>
Taken ==
  /\ cur = NoJob
  /\ \/ /\ active # <<>> /\ cur' = Head(active)
        /\ active' = Tail(active) /\ UNCHANGED <<solo, batch>>
     \/ /\ solo # <<>> /\ cur' = Head(solo)
        /\ solo' = Tail(solo) /\ UNCHANGED <<active, batch>>
     \/ /\ batch # <<>> /\ cur' = Head(batch)
        /\ batch' = Tail(batch) /\ UNCHANGED <<active, solo>>
Moved ==
  /\ cur' = cur
  /\ \/ /\ active # <<>> /\ active' = Tail(active)
        /\ batch' = Append(batch, Head(active)) /\ solo' = solo
     \/ /\ active # <<>> /\ active' = Tail(active)
        /\ solo' = Append(solo, Head(active)) /\ batch' = batch
     \/ /\ batch # <<>> /\ batch' = Tail(batch)
        /\ active' = Append(active, Head(batch)) /\ solo' = solo
     \/ /\ batch # <<>> /\ batch' = Tail(batch)
        /\ solo' = Append(solo, Head(batch)) /\ active' = active
     \/ /\ batch # <<>> /\ batch' = Append(Tail(batch), Head(batch))
        /\ UNCHANGED <<active, solo>>

\* The steps of a quantum: those of the worker that neither admit nor end a job.
Quantum ==
  \/ SkipIntake
  \/ SortIntoBatch \/ SortIntoSolo \/ HoldLone \/ LoneToSolo \/ EndSort
  \/ NextSolo \/ StepCancelled \/ ResendClosed \/ ResendFull \/ Resend \/ StepOn
  \/ DecodeOne \/ DecodeFails \/ EndSolo
  \/ ScanKeep \/ ScanCancelled \/ EndScan
  \/ CreateGroup \/ AddMember \/ Fallback \/ BatchStep \/ FeedNext
  \/ NextUnbatched \/ EndBatch \/ Tidy \/ FlushOwed \/ BeginShutdown \/ ShutdownNext

LEMMA QuantumMoves ==
  ASSUME Structure, Quantum
  PROVE  /\ UNCHANGED <<stage, queue, waiting, activeStreams>>
         /\ StayPut \/ PushedBack \/ Taken \/ Moved
         /\ pc \notin {"refuse", "exited"} /\ pc' # "refuse"
<1>1. TypeOK /\ Control
  BY DEF Structure
<1>2. batch \in Seq(Jobs)
  BY <1>1 DEF TypeOK
<1>3. CASE SkipIntake \/ BeginShutdown \/ EndSort \/ StepOn \/ EndSolo
  BY <1>3
     DEF SkipIntake, BeginShutdown, EndSort, StepOn, EndSolo, handleVars, gaugeVars, loopVars,
         retireVars, StayPut
<1>4. CASE EndScan \/ CreateGroup \/ AddMember \/ Fallback \/ BatchStep \/ EndBatch
            \/ Tidy \/ FlushOwed
  BY <1>4
     DEF EndScan, CreateGroup, AddMember, Fallback, BatchStep, EndBatch, Tidy, FlushOwed,
         handleVars, gaugeVars, loopVars, retireVars, StayPut
<1>5. CASE StepCancelled \/ ResendClosed \/ Resend \/ DecodeFails
  <2>1. UNCHANGED <<cur, active>> /\ pc \notin {"refuse", "exited"} /\ pc' # "refuse"
    BY <1>5 DEF StepCancelled, ResendClosed, Resend, DecodeFails, StartRetire, retireVars
  <2>2. UNCHANGED <<stage, queue, waiting, activeStreams, solo, batch>>
    BY <1>5 DEF StepCancelled, ResendClosed, Resend, DecodeFails, handleVars, gaugeVars,
       loopVars
  <2>3. QED BY <2>1, <2>2 DEF StayPut
<1>6. CASE ResendFull \/ DecodeOne
  <2>1. UNCHANGED <<stage, queue, waiting, activeStreams, solo, batch>>
        /\ cur \in Jobs /\ pc \notin {"refuse", "exited"}
    BY <1>6, HandsFull DEF ResendFull, DecodeOne, handleVars, gaugeVars, loopVars
  <2>2. ret \in {"solo", "unbatch"}
    BY <1>1, <1>6 DEF ResendFull, DecodeOne, Control
  <2>3. /\ \/ cur' = cur /\ active' = active
           \/ cur' = NoJob /\ active' = Append(active, cur)
        /\ pc' # "refuse"
    BY <1>6, <2>2, FeedOutcome DEF ResendFull, DecodeOne, PushBack
  <2>4. QED BY <2>1, <2>3 DEF StayPut, PushedBack
<1>7. CASE SortIntoBatch
  BY <1>7, HandsFull DEF SortIntoBatch, handleVars, gaugeVars, retireVars, Moved
<1>8. CASE SortIntoSolo
  BY <1>8, HandsFull DEF SortIntoSolo, handleVars, gaugeVars, retireVars, Moved
<1>9. CASE HoldLone \/ LoneToSolo
  <2>1. batch # <<>> /\ batch' = Tail(batch)
    BY <1>2, <1>9, TailOfOne DEF HoldLone, LoneToSolo
  <2>2. QED BY <1>9, <2>1 DEF HoldLone, LoneToSolo, handleVars, gaugeVars, retireVars, Moved
<1>10. CASE NextSolo
  BY <1>1, <1>10 DEF NextSolo, Control, handleVars, gaugeVars, Taken
<1>11. CASE ScanKeep
  BY <1>11, HandsFull DEF ScanKeep, handleVars, gaugeVars, retireVars, Moved
<1>12. CASE ScanCancelled
  BY <1>1, <1>12, HandsFull
     DEF ScanCancelled, StartRetire, Control, handleVars, gaugeVars, Taken
<1>13. CASE NextUnbatched
  BY <1>1, <1>13 DEF NextUnbatched, Control, handleVars, gaugeVars, Taken
<1>14. CASE ShutdownNext
  BY <1>1, <1>14 DEF ShutdownNext, Control, handleVars, gaugeVars, loopVars, Taken
<1>15. CASE FeedNext
  <2>1. /\ batch # <<>> /\ batch' = Tail(batch) /\ cur = NoJob /\ pc \notin {"refuse", "exited"}
        /\ UNCHANGED <<stage, queue, waiting, activeStreams, solo>>
    BY <1>1, <1>15 DEF FeedNext, Control, handleVars, gaugeVars
  <2>2. /\ \/ cur' = Head(batch) /\ active' = active
           \/ cur' = NoJob /\ active' = Append(active, Head(batch))
        /\ pc' # "refuse"
    BY <1>15, FeedOutcome DEF FeedNext
  <2>3. QED BY <2>1, <2>2 DEF Taken, Moved
<1>16. QED
  BY <1>3, <1>4, <1>5, <1>6, <1>7, <1>8, <1>9, <1>10, <1>11, <1>12, <1>13, <1>14, <1>15
     DEF Quantum

\* The sum that active_streams keeps, over any move inside a quantum.
Total == Len(active) + Len(solo) + Len(batch) + (IF cur = NoJob THEN 0 ELSE 1)

LEMMA MovesKeepTotal ==
  ASSUME TypeOK, StayPut \/ PushedBack \/ Taken \/ Moved PROVE Total' = Total
<1>1. NoJob \notin Jobs
  BY JobsAssumption
<1>2. /\ active # <<>> => Head(active) \in Jobs
      /\ solo # <<>> => Head(solo) \in Jobs
      /\ batch # <<>> => Head(batch) \in Jobs /\ Tail(batch) \in Seq(Jobs)
  BY TypesOfSequences
<1>3. CASE StayPut
  BY <1>3 DEF StayPut, Total
<1>4. CASE PushedBack
  BY <1>1, <1>4, Lengths DEF PushedBack, Total
<1>5. CASE Taken
  BY <1>1, <1>2, <1>5, Lengths DEF Taken, Total
<1>6. CASE Moved
  <2>1. batch # <<>> => Len(Append(Tail(batch), Head(batch))) = Len(batch)
    BY <1>2, Lengths, AppendOne
  <2>2. Len(active') + Len(solo') + Len(batch') = Len(active) + Len(solo) + Len(batch)
    BY <1>2, <1>6, <2>1, Lengths DEF Moved
  <2>3. cur' = cur
    BY <1>6 DEF Moved
  <2>4. QED BY <2>2, <2>3 DEF Total
<1>7. QED BY <1>3, <1>4, <1>5, <1>6

LEMMA StreamTallyInductive ==
  ASSUME Structure, [Next]_vars PROVE StreamTally'
<1>1. TypeOK /\ Control /\ activeStreams = Total
  BY DEF Structure, StreamTally, Total
<1>2. SUFFICES activeStreams' = Total'
  BY DEF StreamTally, Total
<1>3. NoJob \notin Jobs /\ activeStreams \in Nat
  BY <1>1, JobsAssumption DEF TypeOK
<1>4. CASE Still \/ UNCHANGED vars
  BY <1>1, <1>4, StillHands DEF Total
<1>5. CASE IntakeWithoutSession \/ IntakeFails
  <2>1. CanIntake /\ TakeJob /\ RefuseJob
    BY <1>5 DEF IntakeWithoutSession, IntakeFails
  <2>2. cur = NoJob /\ cur' \in Jobs
    BY <1>1, <2>1, TypesOfSequences DEF CanIntake, RefuseJob, Control
  <2>3. /\ UNCHANGED <<active, solo, batch>>
        /\ activeStreams' = activeStreams + 1
    BY <2>1 DEF TakeJob, RefuseJob
  <2>4. QED BY <1>1, <1>3, <2>2, <2>3, Lengths DEF Total
<1>6. CASE Intake
  <2>1. CanIntake /\ TakeJob /\ active' = Append(active, Head(queue)) /\ cur' = cur
    BY <1>6 DEF Intake, retireVars
  <2>2. Len(active') = Len(active) + 1
    BY <1>1, <2>1, TypesOfSequences, Lengths DEF CanIntake
  <2>3. UNCHANGED <<solo, batch>> /\ activeStreams' = activeStreams + 1
    BY <2>1 DEF TakeJob
  <2>4. QED BY <1>1, <1>3, <2>1, <2>2, <2>3, Lengths DEF Total
<1>7. CASE Refuse \/ FinishRetire
  <2>1. cur \in Jobs
    BY <1>7, HandsFull DEF Refuse, FinishRetire
  <2>2. /\ cur' = NoJob /\ activeStreams' = activeStreams - 1
        /\ UNCHANGED <<active, solo, batch>>
    BY <1>7 DEF Refuse, FinishRetire, StreamOver, loopVars
  <2>3. QED BY <1>1, <1>3, <2>1, <2>2, Lengths DEF Total
<1>8. CASE Quantum
  <2>1. activeStreams' = activeStreams /\ (StayPut \/ PushedBack \/ Taken \/ Moved)
    BY <1>8, QuantumMoves
  <2>2. QED BY <1>1, <2>1, MovesKeepTotal
<1>9. CASE Exit
  BY <1>1, <1>9 DEF Exit, Total, loopVars, retireVars
<1>10. QED
  BY <1>4, <1>5, <1>6, <1>7, <1>8, <1>9 DEF Next, Still, Worker, Quantum, Exited

\* The steps that move no job and end none.
LEMMA WaitersStill ==
  ASSUME UNCHANGED <<stage, waiting>>, WaitingTally PROVE WaitingTally'
BY DEF WaitingTally, Waiters

LEMMA WaitersTaken ==
  ASSUME Structure, queue # <<>>, TakeJob PROVE WaitingTally'
<1>1. TypeOK /\ WaitingTally
  BY DEF Structure
<1>2. Head(queue) \in Jobs /\ stage[Head(queue)] = "queued"
  BY <1>1, TypesOfSequences, WaitingPositive
<1>3. Waiters' = Waiters \ {Head(queue)}
  BY <1>1, <1>2 DEF Waiters, TakeJob, TypeOK
<1>4. IsFiniteSet(Waiters) /\ Head(queue) \in Waiters
  <2>1. Waiters \subseteq Jobs
    BY DEF Waiters
  <2>2. QED BY <1>2, <2>1, FS_Subset, JobsAssumption DEF Waiters
<1>5. Cardinality(Waiters \ {Head(queue)}) = Cardinality(Waiters) - 1
  BY <1>4, FS_RemoveElement
<1>6. QED BY <1>1, <1>3, <1>5 DEF WaitingTally, TakeJob

LEMMA WaitingTallyInductive ==
  ASSUME Structure, [Next]_vars PROVE WaitingTally'
<1>1. TypeOK /\ Control /\ WaitingTally /\ Placement
  BY DEF Structure
<1>2. stage \in [Jobs -> Stages]
  BY <1>1 DEF TypeOK
<1>3. ASSUME NEW j \in Jobs, Reject(j) \/ Submit(j) PROVE WaitingTally'
  <2>1. Waiters' = Waiters /\ waiting' = waiting
    BY <1>2, <1>3 DEF Reject, Submit, Waiters
  <2>2. QED BY <1>1, <2>1 DEF WaitingTally
<1>4. ASSUME NEW j \in Jobs, Admit(j) PROVE WaitingTally'
  <2>1. Waiters' = Waiters \cup {j} /\ j \notin Waiters /\ waiting' = waiting + 1
    BY <1>2, <1>4 DEF Admit, Counted, Waiters
  <2>2. IsFiniteSet(Waiters)
    <3>1. Waiters \subseteq Jobs
      BY DEF Waiters
    <3>2. QED BY <3>1, FS_Subset, JobsAssumption
  <2>3. Cardinality(Waiters \cup {j}) = Cardinality(Waiters) + 1
    BY <2>1, <2>2, FS_AddElement
  <2>4. QED BY <1>1, <2>1, <2>3 DEF WaitingTally
<1>5. ASSUME NEW j \in Jobs, Receive(j) \/ DropReceiver(j) \/ Cancel(j) PROVE WaitingTally'
  BY <1>1, <1>5, WaitersStill DEF Receive, DropReceiver, Cancel, handleVars
<1>6. CASE IntakeWithoutSession \/ IntakeFails \/ Intake
  <2>1. TakeJob /\ queue # <<>>
    BY <1>6 DEF IntakeWithoutSession, IntakeFails, Intake, CanIntake
  <2>2. QED BY <2>1, WaitersTaken
<1>7. CASE Refuse \/ FinishRetire
  <2>1. cur \in Jobs /\ stage[cur] = "running"
    BY <1>1, <1>7, HandsFull DEF Refuse, FinishRetire, Control, Placement
  <2>2. stage' = [stage EXCEPT ![cur] = "done"] /\ waiting' = waiting
    BY <1>7 DEF Refuse, FinishRetire
  <2>3. Waiters' = Waiters
    BY <1>2, <2>1, <2>2 DEF Waiters
  <2>4. QED BY <1>1, <2>2, <2>3 DEF WaitingTally
<1>8. CASE Exit
  <2>1. Waiters' = Waiters /\ waiting' = waiting
    BY <1>2, <1>8 DEF Exit, Waiters
  <2>2. QED BY <1>1, <2>1 DEF WaitingTally
<1>9. CASE Close \/ Disconnect
  BY <1>1, <1>9, WaitersStill DEF Close, Disconnect
<1>10. CASE Quantum
  BY <1>1, <1>10, QuantumMoves, WaitersStill
<1>11. CASE UNCHANGED vars
  BY <1>1, <1>11, WaitersStill DEF vars, handleVars
<1>12. QED
  BY <1>3, <1>4, <1>5, <1>6, <1>7, <1>8, <1>9, <1>10, <1>11
     DEF Next, Handles, Clients, Worker, Quantum, Exited

LEMMA MembersIn ==
  ASSUME NEW S, NEW s \in Seq(S) PROVE Members(s) \subseteq S
BY DEF Members

\* Steps that leave every job where it is.
LEMMA PlacementStill ==
  ASSUME UNCHANGED <<stage, queue, active, solo, batch, cur>>, Placement
  PROVE  Placement'
BY DEF Placement

\* A stream back to the active set, from the worker's hands.
LEMMA PlacementBack ==
  ASSUME Structure, cur \in Jobs, active' = Append(active, cur), cur' = NoJob,
         UNCHANGED <<stage, queue, solo, batch>>
  PROVE  Placement'
<1>1. Placement /\ TypeOK
  BY DEF Structure
<1>2. active \in Seq(Jobs) /\ solo \in Seq(Jobs) /\ batch \in Seq(Jobs)
  BY <1>1 DEF TypeOK
<1>3. /\ Members(active') = Members(active) \cup {cur}
      /\ Once(active) /\ cur \notin Members(active) => Once(active')
  BY <1>2, MembersAppend
<1>4. NoJob \notin Members(active') \cup Members(solo) \cup Members(batch)
  BY <1>2, <1>3, MembersIn, JobsAssumption
<1>5. QED BY <1>1, <1>3, <1>4 DEF Placement

\* The head of a segment into the worker's hands.
LEMMA PlacementTake ==
  ASSUME Structure, cur = NoJob, UNCHANGED <<stage, queue>>,
         \/ /\ active # <<>> /\ cur' = Head(active) /\ active' = Tail(active)
            /\ UNCHANGED <<solo, batch>>
         \/ /\ solo # <<>> /\ cur' = Head(solo) /\ solo' = Tail(solo)
            /\ UNCHANGED <<active, batch>>
         \/ /\ batch # <<>> /\ cur' = Head(batch) /\ batch' = Tail(batch)
            /\ UNCHANGED <<active, solo>>
  PROVE  Placement'
<1>1. Placement /\ TypeOK
  BY DEF Structure
<1>2. active \in Seq(Jobs) /\ solo \in Seq(Jobs) /\ batch \in Seq(Jobs)
  BY <1>1 DEF TypeOK
<1>3. CASE active # <<>> /\ cur' = Head(active) /\ active' = Tail(active)
           /\ UNCHANGED <<solo, batch>>
  <2>1. /\ Members(active) = {Head(active)} \cup Members(Tail(active))
        /\ Once(active) => Once(Tail(active)) /\ Head(active) \notin Members(Tail(active))
    BY <1>2, <1>3, MembersTail
  <2>2. QED BY <1>1, <1>3, <2>1 DEF Placement
<1>4. CASE solo # <<>> /\ cur' = Head(solo) /\ solo' = Tail(solo) /\ UNCHANGED <<active, batch>>
  <2>1. /\ Members(solo) = {Head(solo)} \cup Members(Tail(solo))
        /\ Once(solo) => Once(Tail(solo)) /\ Head(solo) \notin Members(Tail(solo))
    BY <1>2, <1>4, MembersTail
  <2>2. QED BY <1>1, <1>4, <2>1 DEF Placement
<1>5. CASE batch # <<>> /\ cur' = Head(batch) /\ batch' = Tail(batch)
           /\ UNCHANGED <<active, solo>>
  <2>1. /\ Members(batch) = {Head(batch)} \cup Members(Tail(batch))
        /\ Once(batch) => Once(Tail(batch)) /\ Head(batch) \notin Members(Tail(batch))
    BY <1>2, <1>5, MembersTail
  <2>2. QED BY <1>1, <1>5, <2>1 DEF Placement
<1>6. QED BY <1>3, <1>4, <1>5

\* The head of one collection to the end of another.
LEMMA PlacementMove ==
  ASSUME Structure, cur' = cur, UNCHANGED <<stage, queue>>,
         \/ /\ active # <<>> /\ active' = Tail(active)
            /\ batch' = Append(batch, Head(active)) /\ solo' = solo
         \/ /\ active # <<>> /\ active' = Tail(active)
            /\ solo' = Append(solo, Head(active)) /\ batch' = batch
         \/ /\ batch # <<>> /\ batch' = Tail(batch)
            /\ active' = Append(active, Head(batch)) /\ solo' = solo
         \/ /\ batch # <<>> /\ batch' = Tail(batch)
            /\ solo' = Append(solo, Head(batch)) /\ active' = active
         \/ /\ batch # <<>> /\ batch' = Append(Tail(batch), Head(batch))
            /\ UNCHANGED <<active, solo>>
  PROVE  Placement'
<1>1. Placement /\ TypeOK
  BY DEF Structure
<1>2. active \in Seq(Jobs) /\ solo \in Seq(Jobs) /\ batch \in Seq(Jobs)
  BY <1>1 DEF TypeOK
<1>3. \A s \in Seq(Jobs), e \in Jobs :
         /\ Members(Append(s, e)) = Members(s) \cup {e}
         /\ Once(s) /\ e \notin Members(s) => Once(Append(s, e))
  BY MembersAppend
<1>4. \A s \in Seq(Jobs) : s # <<>> =>
         /\ Head(s) \in Jobs
         /\ Members(s) = {Head(s)} \cup Members(Tail(s))
         /\ Once(s) => Once(Tail(s)) /\ Head(s) \notin Members(Tail(s))
  BY MembersTail, HeadTail
<1>5. CASE active # <<>> /\ active' = Tail(active) /\ batch' = Append(batch, Head(active))
           /\ solo' = solo
  <2>1. /\ Members(active) = {Head(active)} \cup Members(active')
        /\ Members(batch') = Members(batch) \cup {Head(active)}
        /\ Head(active) \in Members(active)
    BY <1>2, <1>3, <1>4, <1>5
  <2>2. Once(active') /\ Once(batch') /\ Head(active) \notin Members(active')
    BY <1>1, <1>2, <1>3, <1>4, <1>5, <2>1 DEF Placement
  <2>3. QED BY <1>1, <1>5, <2>1, <2>2 DEF Placement
<1>6. CASE active # <<>> /\ active' = Tail(active) /\ solo' = Append(solo, Head(active))
           /\ batch' = batch
  <2>1. /\ Members(active) = {Head(active)} \cup Members(active')
        /\ Members(solo') = Members(solo) \cup {Head(active)}
        /\ Head(active) \in Members(active)
    BY <1>2, <1>3, <1>4, <1>6
  <2>2. Once(active') /\ Once(solo') /\ Head(active) \notin Members(active')
    BY <1>1, <1>2, <1>3, <1>4, <1>6, <2>1 DEF Placement
  <2>3. QED BY <1>1, <1>6, <2>1, <2>2 DEF Placement
<1>7. CASE batch # <<>> /\ batch' = Tail(batch) /\ active' = Append(active, Head(batch))
           /\ solo' = solo
  <2>1. /\ Members(batch) = {Head(batch)} \cup Members(batch')
        /\ Members(active') = Members(active) \cup {Head(batch)}
        /\ Head(batch) \in Members(batch)
    BY <1>2, <1>3, <1>4, <1>7
  <2>2. Once(batch') /\ Once(active') /\ Head(batch) \notin Members(batch')
    BY <1>1, <1>2, <1>3, <1>4, <1>7, <2>1 DEF Placement
  <2>3. QED BY <1>1, <1>7, <2>1, <2>2 DEF Placement
<1>8. CASE batch # <<>> /\ batch' = Tail(batch) /\ solo' = Append(solo, Head(batch))
           /\ active' = active
  <2>1. /\ Members(batch) = {Head(batch)} \cup Members(batch')
        /\ Members(solo') = Members(solo) \cup {Head(batch)}
        /\ Head(batch) \in Members(batch)
    BY <1>2, <1>3, <1>4, <1>8
  <2>2. Once(batch') /\ Once(solo') /\ Head(batch) \notin Members(batch')
    BY <1>1, <1>2, <1>3, <1>4, <1>8, <2>1 DEF Placement
  <2>3. QED BY <1>1, <1>8, <2>1, <2>2 DEF Placement
<1>9. CASE /\ batch # <<>> /\ batch' = Append(Tail(batch), Head(batch))
           /\ UNCHANGED <<active, solo>>
  <2>1. /\ Members(batch) = {Head(batch)} \cup Members(Tail(batch))
        /\ Once(Tail(batch)) /\ Head(batch) \notin Members(Tail(batch))
        /\ Head(batch) \in Jobs /\ Tail(batch) \in Seq(Jobs)
    BY <1>1, <1>2, <1>4, <1>9, HeadTail DEF Placement
  <2>2. Members(batch') = Members(batch) /\ Once(batch')
    BY <1>3, <1>9, <2>1
  <2>3. QED BY <1>1, <1>9, <2>2 DEF Placement
<1>10. QED BY <1>5, <1>6, <1>7, <1>8, <1>9

\* A job out of the queue, into the worker's hands or the active set.
LEMMA PlacementTaken ==
  ASSUME Structure, cur = NoJob, queue # <<>>, TakeJob,
         \/ cur' = Head(queue) /\ active' = active
         \/ cur' = cur /\ active' = Append(active, Head(queue))
  PROVE  Placement'
<1>1. Placement /\ TypeOK
  BY DEF Structure
<1>2. /\ active \in Seq(Jobs) /\ queue \in Seq(Jobs) /\ stage \in [Jobs -> Stages]
      /\ solo \in Seq(Jobs) /\ batch \in Seq(Jobs)
  BY <1>1 DEF TypeOK
<1>3. /\ Members(queue) = {Head(queue)} \cup Members(Tail(queue))
      /\ Once(Tail(queue)) /\ Head(queue) \notin Members(Tail(queue))
      /\ Head(queue) \in Jobs
  BY <1>1, <1>2, MembersTail, HeadTail DEF Placement
<1>4. stage[Head(queue)] = "queued"
  BY WaitingPositive
<1>5. Head(queue) \notin Members(active) \cup Members(solo) \cup Members(batch)
  BY <1>1, <1>4 DEF Placement
<1>6. /\ stage' = [stage EXCEPT ![Head(queue)] = "running"]
      /\ queue' = Tail(queue) /\ solo' = solo /\ batch' = batch
  BY DEF TakeJob
<1>7. /\ Members(queue) \subseteq Jobs /\ Members(active) \subseteq Jobs
      /\ Members(solo) \subseteq Jobs /\ Members(batch) \subseteq Jobs
  BY <1>2, MembersIn
<1>8. /\ \A j \in Members(queue') : stage'[j] = "queued"
      /\ \A j \in Members(active) \cup Members(solo) \cup Members(batch) : stage'[j] = "running"
      /\ stage'[Head(queue)] = "running"
  BY <1>1, <1>2, <1>3, <1>5, <1>6, <1>7 DEF Placement
<1>9. CASE cur' = Head(queue) /\ active' = active
  BY <1>1, <1>3, <1>5, <1>6, <1>8, <1>9 DEF Placement
<1>10. CASE cur' = cur /\ active' = Append(active, Head(queue))
  <2>1. Members(active') = Members(active) \cup {Head(queue)} /\ Once(active')
    BY <1>1, <1>2, <1>3, <1>5, <1>10, MembersAppend DEF Placement
  <2>2. NoJob \notin Members(active') \cup Members(solo) \cup Members(batch)
    BY <1>3, <1>7, <2>1, JobsAssumption
  <2>3. QED BY <1>1, <1>3, <1>5, <1>6, <1>8, <1>10, <2>1, <2>2 DEF Placement
<1>11. QED BY <1>9, <1>10

\* The stream in the worker's hands ends.
LEMMA PlacementDone ==
  ASSUME Structure, cur \in Jobs, cur' = NoJob, stage' = [stage EXCEPT ![cur] = "done"],
         UNCHANGED <<queue, active, solo, batch>>
  PROVE  Placement'
<1>1. Placement /\ TypeOK
  BY DEF Structure
<1>2. /\ active \in Seq(Jobs) /\ queue \in Seq(Jobs) /\ stage \in [Jobs -> Stages]
      /\ solo \in Seq(Jobs) /\ batch \in Seq(Jobs)
  BY <1>1 DEF TypeOK
<1>3. /\ Members(queue) \subseteq Jobs /\ Members(active) \subseteq Jobs
      /\ Members(solo) \subseteq Jobs /\ Members(batch) \subseteq Jobs
  BY <1>2, MembersIn
<1>4. stage[cur] = "running" /\ cur \notin Members(queue)
  BY <1>1, JobsAssumption DEF Placement
<1>5. /\ \A j \in Members(queue) : stage'[j] = "queued"
      /\ \A j \in Members(active) \cup Members(solo) \cup Members(batch) : stage'[j] = "running"
  BY <1>1, <1>2, <1>3, <1>4 DEF Placement
<1>6. NoJob \notin Members(active) \cup Members(solo) \cup Members(batch)
  BY <1>3, JobsAssumption
<1>7. QED BY <1>1, <1>5, <1>6 DEF Placement

LEMMA PlacementInductive ==
  ASSUME Structure, [Next]_vars PROVE Placement'
<1>1. TypeOK /\ Control /\ Placement
  BY DEF Structure
<1>2. /\ stage \in [Jobs -> Stages] /\ queue \in Seq(Jobs) /\ active \in Seq(Jobs)
      /\ solo \in Seq(Jobs) /\ batch \in Seq(Jobs)
  BY <1>1 DEF TypeOK
<1>3. /\ Members(queue) \subseteq Jobs /\ Members(active) \subseteq Jobs
      /\ Members(solo) \subseteq Jobs /\ Members(batch) \subseteq Jobs
  BY <1>2, MembersIn
<1>4. cur # NoJob => cur \in Jobs
  BY HandsFull
<1>5. ASSUME NEW j \in Jobs, Reject(j) \/ Admit(j) PROVE Placement'
  <2>1. stage[j] = "new"
    BY <1>5 DEF Reject, Admit
  <2>2. \A i \in Jobs : i # j => stage'[i] = stage[i]
    BY <1>2, <1>5 DEF Reject, Admit
  <2>3. UNCHANGED <<queue, active, solo, batch, cur>>
    BY <1>5 DEF Reject, Admit, workerVars, loopVars, retireVars
  <2>4. QED BY <1>1, <1>3, <1>4, <2>1, <2>2, <2>3 DEF Placement
<1>6. ASSUME NEW j \in Jobs, Submit(j) PROVE Placement'
  <2>1. stage[j] = "admitted" /\ stage' = [stage EXCEPT ![j] = "queued"]
    BY <1>6 DEF Submit
  <2>2. UNCHANGED <<active, solo, batch, cur>> /\ queue' = Append(queue, j)
    BY <1>6 DEF Submit, workerVars, loopVars, retireVars
  <2>3. j \notin Members(queue)
    BY <1>1, <2>1 DEF Placement
  <2>4. Members(queue') = Members(queue) \cup {j} /\ Once(queue')
    BY <1>1, <1>2, <2>2, <2>3, MembersAppend DEF Placement
  <2>5. \A i \in Members(queue') : stage'[i] = "queued"
    BY <1>1, <1>2, <1>3, <2>1, <2>4 DEF Placement
  <2>6. j \notin Members(active) \cup Members(solo) \cup Members(batch) /\ j # cur
    BY <1>1, <2>1, JobsAssumption DEF Placement
  <2>7. /\ \A i \in Members(active) \cup Members(solo) \cup Members(batch) :
             stage'[i] = "running"
        /\ cur # NoJob => stage'[cur] = "running"
    BY <1>1, <1>2, <1>3, <1>4, <2>1, <2>6 DEF Placement
  <2>8. QED BY <1>1, <2>2, <2>4, <2>5, <2>7 DEF Placement
<1>7. ASSUME NEW j \in Jobs, Receive(j) \/ DropReceiver(j) \/ Cancel(j) PROVE Placement'
  BY <1>1, <1>7, PlacementStill
     DEF Receive, DropReceiver, Cancel, handleVars, workerVars, loopVars, retireVars
<1>8. CASE Close \/ Disconnect
  BY <1>1, <1>8, PlacementStill
     DEF Close, Disconnect, workerVars, loopVars, retireVars
<1>9. CASE IntakeWithoutSession \/ IntakeFails
  <2>1. TakeJob /\ RefuseJob /\ CanIntake
    BY <1>9 DEF IntakeWithoutSession, IntakeFails
  <2>2. queue # <<>> /\ cur = NoJob /\ cur' = Head(queue) /\ active' = active
    BY <1>1, <2>1 DEF RefuseJob, CanIntake, Control
  <2>3. QED BY <2>1, <2>2, PlacementTaken
<1>10. CASE Intake
  <2>1. TakeJob /\ CanIntake /\ cur' = cur /\ active' = Append(active, Head(queue))
    BY <1>10 DEF Intake, retireVars
  <2>2. queue # <<>> /\ cur = NoJob
    BY <1>1, <2>1 DEF CanIntake, Control
  <2>3. QED BY <2>1, <2>2, PlacementTaken
<1>11. CASE Refuse \/ FinishRetire
  <2>1. cur \in Jobs /\ cur' = NoJob /\ stage' = [stage EXCEPT ![cur] = "done"]
    BY <1>11, HandsFull DEF Refuse, FinishRetire
  <2>2. UNCHANGED <<queue, active, solo, batch>>
    BY <1>11 DEF Refuse, FinishRetire, loopVars
  <2>3. QED BY <2>1, <2>2, PlacementDone
<1>12. CASE Quantum
  <2>1. UNCHANGED <<stage, queue>>
    BY <1>12, QuantumMoves
  <2>2. StayPut => Placement'
    BY <1>1, <2>1, PlacementStill DEF StayPut
  <2>3. PushedBack => Placement'
    BY <2>1, PlacementBack DEF PushedBack
  <2>4. Taken => Placement'
    BY <2>1, PlacementTake DEF Taken
  <2>5. Moved => Placement'
    BY <2>1, PlacementMove DEF Moved
  <2>6. QED BY <1>12, <2>2, <2>3, <2>4, <2>5, QuantumMoves
<1>13. CASE Exit
  <2>1. queue' = <<>> /\ UNCHANGED <<active, solo, batch, cur>>
    BY <1>13 DEF Exit, loopVars, retireVars
  <2>2. \A i \in Jobs : stage[i] = "running" => stage'[i] = "running"
    BY <1>2, <1>13 DEF Exit
  <2>3. Members(queue') = {} /\ Once(queue')
    BY <2>1, MembersEmpty
  <2>4. QED BY <1>1, <1>3, <1>4, <2>1, <2>2, <2>3 DEF Placement
<1>14. CASE UNCHANGED vars
  BY <1>1, <1>14, PlacementStill DEF vars, handleVars, workerVars, loopVars, retireVars
<1>15. QED
  BY <1>5, <1>6, <1>7, <1>8, <1>9, <1>10, <1>11, <1>12, <1>13, <1>14
     DEF Next, Handles, Clients, Worker, Quantum, Exited

-----------------------------------------------------------------------------
(* The structural invariant *)

LEMMA StructureInitially ==
  ASSUME Init PROVE Structure
<1>1. TypeOK
  <2>1. /\ [j \in Jobs |-> <<>>] \in [Jobs -> Seq(Events)]
        /\ [j \in Jobs |-> 0] \in [Jobs -> 0..BatchSlots]
        /\ [k \in 1..BatchSlots |-> 0] \in [1..BatchSlots -> Nat]
    BY SlotsExist
  <2>2. <<>> \in Seq(Jobs) /\ <<>> \in Seq(Nat)
    OBVIOUS
  <2>3. /\ stage \in [Jobs -> Stages] /\ rx \in [Jobs -> BOOLEAN]
        /\ cancel \in [Jobs -> BOOLEAN] /\ held \in [Jobs -> BOOLEAN]
        /\ sess \in [Jobs -> Nat] /\ generated \in [Jobs -> Nat]
        /\ pending \in [Jobs -> Nat] /\ late \in [Jobs -> Nat]
        /\ skips \in [Jobs -> Int]
    BY DEF Init, Stages
  <2>4. /\ chan \in [Jobs -> Seq(Events)] /\ seen \in [Jobs -> Seq(Events)]
        /\ slot \in [Jobs -> 0..BatchSlots] /\ slots \in [1..BatchSlots -> Nat]
    BY <2>1 DEF Init
  <2>5. /\ queue \in Seq(Jobs) /\ active \in Seq(Jobs) /\ solo \in Seq(Jobs)
        /\ batch \in Seq(Jobs) /\ idle \in Seq(Nat)
    BY <2>2 DEF Init
  <2>6. QED BY <2>3, <2>4, <2>5 DEF Init, TypeOK, PCs, Finals
<1>2. Control /\ StreamTally
  BY DEF Init, Control, StreamTally
<1>3. WaitingTally
  <2>1. Waiters = {} /\ waiting = 0
    BY DEF Init, Waiters
  <2>2. QED BY <2>1, FS_EmptySet DEF WaitingTally
<1>4. Placement
  BY MembersEmpty DEF Init, Placement
<1>5. QED BY <1>1, <1>2, <1>3, <1>4 DEF Structure

LEMMA StructureInductive ==
  ASSUME Structure, [Next]_vars PROVE Structure'
BY TypeInductive, ControlInductive, StreamTallyInductive, WaitingTallyInductive,
   PlacementInductive DEF Structure

\* The structural invariant holds in every reachable state.
THEOREM StructureHolds == Spec => []Structure
<1>1. Init => Structure
  BY StructureInitially
<1>2. Structure /\ [Next]_vars => Structure'
  BY StructureInductive
<1>3. QED BY <1>1, <1>2, PTL DEF Spec

\* The worker's counters never go below zero and every piece of state keeps its
\* type, for every number of jobs and sessions and every set of faults.
THEOREM TypeCorrect == Spec => []TypeOK
<1>1. Structure => TypeOK
  BY DEF Structure
<1>2. QED BY <1>1, StructureHolds, PTL

\* Between quanta the active_streams gauge is the length of the active set: no
\* path through intake, fail_intake, a quantum or a retirement counts a stream
\* twice or forgets one.
THEOREM StreamGaugeIsExact == Spec => []StreamGaugeExact
<1>1. Structure => StreamGaugeExact
  <2>1. SUFFICES ASSUME Structure, pc = "admit" PROVE activeStreams = Len(active)
    BY DEF StreamGaugeExact
  <2>2. TypeOK /\ Control /\ StreamTally
    BY <2>1 DEF Structure
  <2>3. cur = NoJob /\ solo = <<>> /\ batch = <<>>
    BY <2>1, <2>2 DEF Control
  <2>4. QED BY <2>2, <2>3, Lengths DEF StreamTally
<1>2. QED BY <1>1, StructureHolds, PTL

-----------------------------------------------------------------------------
(* Refinement of the admission gate *)

\* What the gate has said to a job at a stage.
VerdictAt(st) ==
  CASE st = "new"                               -> "none"
    [] st = "rejected"                          -> "refused"
    [] st \in {"admitted", "queued", "dropped"} -> "counted"
    [] st \in {"running", "done"}               -> "taken"

LEMMA VerdictsAt ==
  /\ VerdictAt("new") = "none"
  /\ VerdictAt("rejected") = "refused"
  /\ VerdictAt("admitted") = "counted" /\ VerdictAt("queued") = "counted"
  /\ VerdictAt("dropped") = "counted"
  /\ VerdictAt("running") = "taken" /\ VerdictAt("done") = "taken"
BY DEF VerdictAt

LEMMA VerdictIs == Verdict = [j \in Jobs |-> VerdictAt(stage[j])]
BY Zenon DEF Verdict, VerdictAt

\* A job that goes to another stage changes its own verdict.
LEMMA VerdictMoves ==
  ASSUME stage \in [Jobs -> Stages], NEW j \in Jobs, NEW st,
         stage' = [stage EXCEPT ![j] = st]
  PROVE  /\ Verdict[j] = VerdictAt(stage[j])
         /\ Verdict' = [Verdict EXCEPT ![j] = VerdictAt(st)]
<1>1. Verdict' = [i \in Jobs |-> VerdictAt(stage'[i])]
  BY Zenon DEF Verdict, VerdictAt
<1>2. QED BY <1>1, VerdictIs

LEMMA VerdictStill == ASSUME UNCHANGED stage PROVE UNCHANGED Verdict
BY DEF Verdict

\* Every step keeps the counter and the verdicts, or is one of the gate's.
LEMMA StepKeepsGate ==
  ASSUME Structure, [Next]_vars
  PROVE  [Gate!Next]_Gate!vars
<1>1. TypeOK /\ Control /\ Placement
  BY DEF Structure
<1>2. stage \in [Jobs -> Stages]
  BY <1>1 DEF TypeOK
<1>3. ASSUME NEW j \in Jobs, Reject(j) PROVE Gate!Refuse(j)
  <2>1. j \in Strict /\ ~QueueHasRoom /\ waiting' = waiting /\ stage[j] = "new"
    BY <1>3 DEF Reject
  <2>2. Verdict[j] = "none" /\ Verdict' = [Verdict EXCEPT ![j] = "refused"]
    <3>1. stage' = [stage EXCEPT ![j] = "rejected"]
      BY <1>3 DEF Reject
    <3>2. /\ Verdict[j] = VerdictAt(stage[j])
          /\ Verdict' = [Verdict EXCEPT ![j] = VerdictAt("rejected")]
      BY <1>2, <3>1, VerdictMoves
    <3>3. VerdictAt("new") = "none" /\ VerdictAt("rejected") = "refused"
      BY VerdictsAt
    <3>4. QED BY <2>1, <3>2, <3>3
  <2>3. ~(waiting < QueueLimit)
    BY <1>1, <2>1, ConfigAssumption DEF QueueHasRoom, TypeOK
  <2>4. QED BY <2>1, <2>2, <2>3 DEF Gate!Refuse, Gate!BelowLimit
<1>4. ASSUME NEW j \in Jobs, Admit(j) PROVE Gate!Count(j)
  <2>1. stage[j] = "new" /\ waiting' = waiting + 1 /\ (j \in Strict => QueueHasRoom)
    BY <1>4 DEF Admit, Counted
  <2>2. Verdict[j] = "none" /\ Verdict' = [Verdict EXCEPT ![j] = "counted"]
    <3>1. stage' = [stage EXCEPT ![j] = "admitted"]
      BY <1>4 DEF Admit
    <3>2. /\ Verdict[j] = VerdictAt("new")
          /\ Verdict' = [Verdict EXCEPT ![j] = VerdictAt("admitted")]
      BY <1>2, <1>4, <2>1, <3>1, VerdictMoves
    <3>3. QED BY <3>2, VerdictsAt
  <2>3. QED BY <2>1, <2>2 DEF Gate!Count, Gate!BelowLimit, QueueHasRoom
<1>5. ASSUME NEW j \in Jobs, Submit(j) PROVE UNCHANGED <<waiting, Verdict>>
  <2>1. stage[j] = "admitted" /\ stage' = [stage EXCEPT ![j] = "queued"]
    BY <1>5 DEF Submit
  <2>2. Verdict' = [Verdict EXCEPT ![j] = Verdict[j]]
    <3>1. /\ Verdict[j] = VerdictAt("admitted")
          /\ Verdict' = [Verdict EXCEPT ![j] = VerdictAt("queued")]
      BY <1>2, <1>5, <2>1, VerdictMoves
    <3>2. QED BY <3>1, VerdictsAt
  <2>3. Verdict' = Verdict
    BY <2>2, VerdictIs
  <2>4. QED BY <1>5, <2>3 DEF Submit
<1>6. ASSUME NEW j \in Jobs, Receive(j) \/ DropReceiver(j) \/ Cancel(j)
      PROVE  UNCHANGED <<waiting, Verdict>>
  BY <1>6, VerdictStill DEF Receive, DropReceiver, Cancel, handleVars
<1>7. CASE IntakeWithoutSession \/ IntakeFails \/ Intake
  <2>1. TakeJob /\ Head(queue) \in Jobs /\ stage[Head(queue)] = "queued"
    BY <1>1, <1>7, TypesOfSequences, WaitingPositive
       DEF Structure, IntakeWithoutSession, IntakeFails, Intake, CanIntake
  <2>2. /\ waiting' = waiting - 1 /\ Verdict[Head(queue)] = "counted"
        /\ Verdict' = [Verdict EXCEPT ![Head(queue)] = "taken"]
    <3>1. stage' = [stage EXCEPT ![Head(queue)] = "running"] /\ waiting' = waiting - 1
      BY <2>1 DEF TakeJob
    <3>2. /\ Verdict[Head(queue)] = VerdictAt("queued")
          /\ Verdict' = [Verdict EXCEPT ![Head(queue)] = VerdictAt("running")]
      BY <1>2, <2>1, <3>1, VerdictMoves
    <3>3. QED BY <3>1, <3>2, VerdictsAt
  <2>3. QED BY <2>1, <2>2 DEF Gate!Next, Gate!Take
<1>8. CASE Refuse \/ FinishRetire
  <2>1. cur \in Jobs /\ stage[cur] = "running"
    BY <1>1, <1>8, HandsFull DEF Refuse, FinishRetire, Control, Placement
  <2>2. stage' = [stage EXCEPT ![cur] = "done"] /\ waiting' = waiting
    BY <1>8 DEF Refuse, FinishRetire
  <2>3. Verdict' = [Verdict EXCEPT ![cur] = Verdict[cur]]
    <3>1. /\ Verdict[cur] = VerdictAt("running")
          /\ Verdict' = [Verdict EXCEPT ![cur] = VerdictAt("done")]
      BY <1>2, <2>1, <2>2, VerdictMoves
    <3>2. QED BY <3>1, VerdictsAt
  <2>4. Verdict' = Verdict
    BY <2>3, VerdictIs
  <2>5. QED BY <2>2, <2>4 DEF Gate!vars
<1>9. CASE Exit
  <2>1. /\ stage' = [j \in Jobs |-> IF stage[j] = "queued" THEN "dropped" ELSE stage[j]]
        /\ waiting' = waiting
    BY <1>9 DEF Exit
  <2>2. \A j \in Jobs : VerdictAt(stage'[j]) = VerdictAt(stage[j])
    BY <2>1, VerdictsAt
  <2>3. Verdict' = [j \in Jobs |-> VerdictAt(stage'[j])]
    BY Zenon DEF Verdict, VerdictAt
  <2>4. QED BY <2>1, <2>2, <2>3, VerdictIs DEF Gate!vars
<1>10. CASE Close \/ Disconnect
  BY <1>10, VerdictStill DEF Close, Disconnect, Gate!vars
<1>11. CASE Quantum
  BY <1>1, <1>11, QuantumMoves, VerdictStill DEF Structure, Gate!vars
<1>12. CASE UNCHANGED vars
  BY <1>12, VerdictStill DEF vars, handleVars, Gate!vars
<1>13. QED
  BY <1>3, <1>4, <1>5, <1>6, <1>7, <1>8, <1>9, <1>10, <1>11, <1>12
     DEF Next, Handles, Clients, Worker, Quantum, Exited, Gate!Next, Gate!vars

\* The handles and the worker's intake, on every path through it, implement the
\* admission gate.
THEOREM GateImplemented == Spec => AdmissionGated
<1>1. Init => Gate!Init
  BY DEF Init, Gate!Init, Verdict
<1>2. Structure /\ [Next]_vars => [Gate!Next]_Gate!vars
  BY StepKeepsGate
<1>3. QED BY <1>1, <1>2, StructureHolds, PTL DEF Spec, AdmissionGated, Gate!Spec

=============================================================================
