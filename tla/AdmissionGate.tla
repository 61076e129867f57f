--------------------------- MODULE AdmissionGate ---------------------------
(***************************************************************************)
(* What admission control promises: a counter of waiting jobs that strict  *)
(* submissions enter only below the limit, and are refused only at it.     *)
(***************************************************************************)
EXTENDS Integers

CONSTANTS Jobs, Strict, QueueLimit

VARIABLES waiting, verdict

vars == <<waiting, verdict>>

Init ==
  /\ waiting = 0
  /\ verdict = [j \in Jobs |-> "none"]

BelowLimit == waiting < QueueLimit

Count(j) ==
  /\ verdict[j] = "none"
  /\ j \in Strict => BelowLimit
  /\ waiting' = waiting + 1
  /\ verdict' = [verdict EXCEPT ![j] = "counted"]

Refuse(j) ==
  /\ verdict[j] = "none"
  /\ j \in Strict
  /\ ~BelowLimit
  /\ verdict' = [verdict EXCEPT ![j] = "refused"]
  /\ UNCHANGED waiting

\* The worker takes a job that was counted.
Take(j) ==
  /\ verdict[j] = "counted"
  /\ waiting' = waiting - 1
  /\ verdict' = [verdict EXCEPT ![j] = "taken"]

Next == \E j \in Jobs : Count(j) \/ Refuse(j) \/ Take(j)

Spec == Init /\ [][Next]_vars
=============================================================================
