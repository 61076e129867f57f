---------------------------- MODULE EventStream ----------------------------
(***************************************************************************)
(* What a submitted job promises to whoever holds its receiver, whatever   *)
(* the scheduler does behind it: a bounded stream that carries the content *)
(* tokens in order, then at most one terminal event, whose usage counts    *)
(* exactly the tokens before it.                                           *)
(***************************************************************************)
EXTENDS Integers, Sequences

CONSTANTS Streams, Capacity

VARIABLES
  phase,   \* "none" before submission, "open", then "ended"
  chan,    \* events sent and not yet read
  seen,    \* events read
  alive    \* the receiver exists

vars == <<phase, chan, seen, alive>>

Ending(k, n) == [kind |-> k, n |-> n]
Token(n)     == [kind |-> "token", n |-> n]

Init ==
  /\ phase = [j \in Streams |-> "none"]
  /\ chan = [j \in Streams |-> <<>>]
  /\ seen = [j \in Streams |-> <<>>]
  /\ alive = [j \in Streams |-> TRUE]

\* The number of tokens the stream has carried.
Carried(j) == Len(seen[j]) + Len(chan[j])

Open(j) ==
  /\ phase[j] = "none"
  /\ phase' = [phase EXCEPT ![j] = "open"]
  /\ UNCHANGED <<chan, seen, alive>>

Emit(j) ==
  /\ phase[j] = "open"
  /\ alive[j]
  /\ Len(chan[j]) < Capacity
  /\ chan' = [chan EXCEPT ![j] = Append(@, Token(Carried(j) + 1))]
  /\ UNCHANGED <<phase, seen, alive>>

\* A stream ends with its terminal event.
End(j) ==
  /\ phase[j] = "open"
  /\ alive[j]
  /\ Len(chan[j]) < Capacity
  /\ \E e \in {Ending(k, Carried(j)) : k \in {"stop", "length", "cancelled"}}
              \cup {Ending("failed", 0)} :
       chan' = [chan EXCEPT ![j] = Append(@, e)]
  /\ phase' = [phase EXCEPT ![j] = "ended"]
  /\ UNCHANGED <<seen, alive>>

\* Streams that end together without a word: their receiver is gone, or the
\* scheduler shuts down.
Break(S) ==
  /\ \A j \in S : phase[j] = "open"
  /\ phase' = [j \in Streams |-> IF j \in S THEN "ended" ELSE phase[j]]
  /\ UNCHANGED <<chan, seen, alive>>

Read(j) ==
  /\ phase[j] # "none"
  /\ alive[j]
  /\ chan[j] # <<>>
  /\ seen' = [seen EXCEPT ![j] = Append(@, Head(chan[j]))]
  /\ chan' = [chan EXCEPT ![j] = Tail(@)]
  /\ UNCHANGED <<phase, alive>>

Drop(j) ==
  /\ phase[j] # "none"
  /\ alive[j]
  /\ alive' = [alive EXCEPT ![j] = FALSE]
  /\ chan' = [chan EXCEPT ![j] = <<>>]
  /\ UNCHANGED <<phase, seen>>

Next ==
  \/ \E j \in Streams : Open(j) \/ Emit(j) \/ End(j) \/ Read(j) \/ Drop(j)
  \/ \E S \in SUBSET Streams : Break(S)

Spec == Init /\ [][Next]_vars
=============================================================================
