--------------------------- MODULE HandlesProofs ---------------------------
(***************************************************************************)
(* Ownership of the native handles, proved for every set of sessions and   *)
(* every quota: whichever thread drops what, and in whichever order, each  *)
(* destructor finds what it touches, and the model's quota is exact.       *)
(***************************************************************************)
EXTENDS Handles, FiniteSetTheorems, SequenceTheorems, TLAPS

-----------------------------------------------------------------------------
(* The invariant *)

Whats == {"session_destroy", "group_destroy", "model_destroy", "api", "model",
          "engine", "pool"}
Names == Sessions \cup Owners \cup Threads
Steps == [what : Whats, of : Names]

\* The next step of each thread.
now == [t \in Threads |-> IF todo[t] = <<>> THEN Step("none", None) ELSE Head(todo[t])]

\* The thread is about to take the step `what` of x.
At(t, what, x) == now[t].what = what /\ now[t].of = x

Rests(t) == now[t].what = "none"

\* The engine or the model is going.
EngineGoes(t) == now[t].of \in {"engine", "model"}

\* x was destroyed, and is not done with its shares.
Leaving(t, x) == At(t, "api", x) \/ At(t, "model", x)

Created == {t \in Threads : making[t] # Idle}

HandlesType ==
  /\ library \in {"closed", "loaded", "unloaded"}
  /\ model \in {"none", "live", "destroyed"}
  /\ live \subseteq Sessions /\ members \subseteq Sessions
  /\ quota \in Int /\ grouped \in BOOLEAN
  /\ apiOwners \subseteq Sessions \cup Owners
  /\ modelOwners \subseteq Sessions \cup Owners
  /\ engineHolders \subseteq Threads
  /\ owner \in [Sessions -> Threads \cup {None}]
  /\ making \in [Threads -> [of : Sessions \cup {None}, over : BOOLEAN]]
  /\ todo \in [Threads -> Seq(Steps)]
  /\ worker \in {"none", "running", "closing", "gone"}

\* What a thread does after the drop of a session or of the group: the worker
\* that has ended goes on to its pool and its engine.
After(t) == IF t = "worker" /\ worker = "gone"
            THEN <<Pool, Step("engine", "worker")>> ELSE <<>>

\* The rest of a drop, after its next step.
Script(t) ==
  \/ todo[t] = <<>>
  \/ \E s \in Sessions :
       \/ At(t, "session_destroy", s)
            /\ Tail(todo[t]) = <<Step("api", s), Step("model", s)>> \o After(t)
       \/ At(t, "api", s) /\ Tail(todo[t]) = <<Step("model", s)>> \o After(t)
       \/ At(t, "model", s) /\ Tail(todo[t]) = After(t)
  \/ /\ t = "worker"
     /\ \/ At(t, "group_destroy", "group")
             /\ Tail(todo[t]) = <<Step("api", "group"), Step("model", "group")>> \o After(t)
        \/ At(t, "api", "group") /\ Tail(todo[t]) = <<Step("model", "group")>> \o After(t)
        \/ At(t, "model", "group") /\ Tail(todo[t]) = After(t)
        \/ /\ At(t, "pool", "worker") /\ worker = "gone"
           /\ Tail(todo[t]) = <<Step("engine", "worker")>>
  \/ At(t, "engine", t) /\ (t = "worker" => worker = "gone") /\ Tail(todo[t]) = <<>>
  \/ At(t, "model", "engine") /\ Tail(todo[t]) = <<>>
  \/ At(t, "model_destroy", "model") /\ Tail(todo[t]) = <<Step("api", "model")>>
  \/ At(t, "api", "model") /\ Tail(todo[t]) = <<>>
  \/ t = "caller" /\ At(t, "api", "runtime") /\ Tail(todo[t]) = <<>>

\* A session that lives has an owner and its share of the model; so has one that
\* was destroyed until it gives the share back, and no other is made under its
\* name meanwhile.
SessionsOwned ==
  /\ live = {s \in Sessions : owner[s] # None}
  /\ live \subseteq modelOwners
  /\ \A t \in Threads, s \in Sessions :
       /\ At(t, "session_destroy", s) => owner[s] = t /\ s \notin members
       /\ Leaving(t, s) => s \in modelOwners \ live
  /\ \A t \in Threads, x \in Sessions \cup Owners :
       Leaving(t, x) => \A u \in Threads \ {t} : ~ Leaving(u, x)

\* A creation holds the engine.
Creations ==
  /\ \A t \in Threads : making[t] # Idle =>
       /\ t \in engineHolders /\ Rests(t)
       /\ making[t].of \in Sessions \ (live \cup modelOwners)
  /\ \A t, u \in Threads : making[t] # Idle /\ making[t].of = making[u].of => t = u

\* The group has only sessions of the worker, and goes before them.
GroupOwned ==
  /\ members \subseteq Owned("worker")
  /\ ~ grouped => members = {}
  /\ grouped => "group" \in modelOwners
  /\ grouped /\ worker = "gone" => At("worker", "group_destroy", "group")
  /\ At("worker", "group_destroy", "group") => grouped
  /\ Leaving("worker", "group") => ~ grouped /\ "group" \in modelOwners

\* The worker holds the engine until it is done with its group and its pool.
EngineHeld ==
  /\ worker = "none" => Rests("worker") /\ "worker" \notin engineHolders
  /\ worker \in {"running", "closing"} => "worker" \in engineHolders
  /\ ~ Rests("worker") =>
       "worker" \in engineHolders \/ EngineGoes("worker")
  /\ \A t \in Threads :
       /\ At(t, "engine", t) => t \in engineHolders
       /\ At(t, "model", "engine") => engineHolders = {} /\ "engine" \in modelOwners
  /\ engineHolders # {} => "engine" \in modelOwners

\* The model lives as long as a share of it, and the library as long as it.
ModelHeld ==
  /\ modelOwners # {} => model = "live"
  /\ model = "live" => "model" \in apiOwners
  /\ apiOwners # {} => library = "loaded"
  /\ \A t \in Threads :
       /\ At(t, "model_destroy", "model") =>
            /\ model = "live" /\ modelOwners = {}
            /\ \A u \in Threads \ {t} : ~ At(u, "model_destroy", "model")
       /\ At(t, "api", "model") => model = "destroyed"

Order == SessionsOwned /\ Creations /\ GroupOwned /\ EngineHeld /\ ModelHeld

Ownership ==
  /\ HandlesType
  /\ \A t \in Threads : Script(t)
  /\ Order

\* The creations that are not over the quota have their place.
Fitting == {t \in Created : ~ making[t].over}

Places ==
  /\ quota = Cardinality(live) + Cardinality(Created)
  /\ Cardinality(live) + Cardinality(Fitting) <= MaxSessions

-----------------------------------------------------------------------------
(* Scripts *)

LEMMA Front ==
  ASSUME NEW S, NEW a \in S, NEW r \in Seq(S)
  PROVE  /\ <<a>> \o r \in Seq(S) /\ <<a>> \o r # <<>>
         /\ Head(<<a>> \o r) = a /\ Tail(<<a>> \o r) = r
OBVIOUS

LEMMA Nothing ==
  ASSUME NEW S, NEW r \in Seq(S) PROVE <<>> \o r = r /\ r \o <<>> = r
OBVIOUS

LEMMA PairIs ==
  ASSUME NEW S, NEW a \in S, NEW b \in S
  PROVE  <<a, b>> = <<a>> \o <<b>> /\ <<a>> \in Seq(S) /\ <<b>> \in Seq(S) /\ <<a, b>> \in Seq(S)
<1> DEFINE d == <<a>>
           e == <<b>>
<1>1. Len(d) = 1 /\ Len(e) = 1 /\ d[1] = a /\ e[1] = b /\ d \in Seq(S) /\ e \in Seq(S)
  OBVIOUS
<1>2. Len(<<a, b>>) = 2 /\ <<a, b>>[1] = a /\ <<a, b>>[2] = b /\ <<a, b>> \in Seq(S)
  OBVIOUS
<1> HIDE DEF d, e
<1>3. d \o e \in Seq(S) /\ Len(d \o e) = 2 /\ (d \o e)[1] = a /\ (d \o e)[2] = b
  BY <1>1, ConcatProperties, SMTT(30)
<1>4. \A i \in 1..2 : i = 1 \/ i = 2
  OBVIOUS
<1>5. \A i \in 1..2 : <<a, b>>[i] = (d \o e)[i]
  BY <1>2, <1>3, <1>4
<1>6. <<a, b>> = d \o e
  BY <1>2, <1>3, <1>5, SeqEqual
<1>7. QED BY <1>1, <1>2, <1>6 DEF d, e

LEMMA Alone ==
  ASSUME NEW S, NEW a \in S
  PROVE  <<a>> = <<a>> \o <<>> /\ <<a>> \in Seq(S) /\ <<>> \in Seq(S)
<1>1. <<a>> \in Seq(S) /\ <<>> \in Seq(S)
  OBVIOUS
<1>2. QED BY <1>1, Nothing

LEMMA SplitTwo ==
  ASSUME NEW S, NEW a \in S, NEW b \in S, NEW r \in Seq(S)
  PROVE  <<a, b>> \o r = <<a>> \o (<<b>> \o r) /\ <<b>> \o r \in Seq(S)
BY PairIs, ConcatAssociative, ConcatProperties

LEMMA SplitThree ==
  ASSUME NEW S, NEW a \in S, NEW b \in S, NEW c \in S, NEW r \in Seq(S)
  PROVE  <<a, b, c>> \o r = <<a>> \o (<<b, c>> \o r) /\ <<b, c>> \o r \in Seq(S)
<1>1. <<b, c>> \in Seq(S) /\ <<a>> \in Seq(S)
  BY PairIs
<1>2. <<a, b, c>> = <<a>> \o <<b, c>>
  OBVIOUS
<1> DEFINE d == <<b, c>>
           e == <<a>>
<1>3. d \in Seq(S) /\ e \in Seq(S) /\ <<a, b, c>> = e \o d
  BY <1>1, <1>2
<1> HIDE DEF d, e
<1>4. (e \o d) \o r = e \o (d \o r)
  BY <1>3, ConcatAssociative, SMTT(30)
<1>5. d \o r \in Seq(S)
  BY <1>3, ConcatProperties
<1>6. QED BY <1>3, <1>4, <1>5 DEF d, e

LEMMA StepsSplit ==
  \A a, b, c \in Steps : \A r \in Seq(Steps) :
    <<a, b, c>> \o r = <<a>> \o (<<b, c>> \o r) /\ <<b, c>> \o r \in Seq(Steps)
<1> DEFINE S == Steps
<1> HIDE DEF S
<1>1. \A a, b, c \in S : \A r \in Seq(S) :
        <<a, b, c>> \o r = <<a>> \o (<<b, c>> \o r) /\ <<b, c>> \o r \in Seq(S)
  BY SplitThree, Zenon
<1>2. QED BY <1>1 DEF S

LEMMA Pair ==
  ASSUME NEW S, NEW a \in S, NEW b \in S, NEW r \in Seq(S),
         r # <<>>, Head(r) = a, Tail(r) = <<b>>
  PROVE  r = <<a, b>>
<1>1. /\ Len(r) \in Nat \ {0} /\ Len(Tail(r)) = Len(r) - 1 /\ r[1] = Head(r)
      /\ \A i \in 1..Len(r) - 1 : Tail(r)[i] = r[i + 1]
      /\ Tail(r) \in Seq(S)
  OBVIOUS
<1>2. Len(<<a>>) = 1 /\ <<a>>[1] = a /\ <<a>> \in Seq(S)
  OBVIOUS
<1>3. r = <<a>> \o Tail(r)
  BY <1>1, <1>2, SeqEqual, ConcatProperties
<1>4. QED BY <1>3, PairIs

LEMMA StepsAreSteps ==
  /\ \A w \in Whats, x \in Names : Step(w, x) \in Steps /\ Step(w, x).what = w /\ Step(w, x).of = x
  /\ \A t \in Threads : After(t) \in Seq(Steps)
<1>1. \A w \in Whats, x \in Names : Step(w, x) \in Steps /\ Step(w, x).what = w /\ Step(w, x).of = x
  BY DEF Steps, Step
<1>2. Step("pool", "worker") \in Steps /\ Step("engine", "worker") \in Steps
  BY <1>1 DEF Whats, Names, Threads
<1>3. <<Step("pool", "worker"), Step("engine", "worker")>> \in Seq(Steps) /\ <<>> \in Seq(Steps)
  BY <1>2
<1>4. QED BY <1>1, <1>3 DEF After, Pool

LEMMA NamesDiffer ==
  /\ \A z \in Sessions : z \notin Owners /\ z # None /\ z \in Names
  /\ \A x \in Owners \cup Threads : x \in Names
  /\ None \notin Threads
BY HandlesAssumption DEF Names

\* The next step, after a step that leaves or makes r behind it.
LEMMA Turned ==
  ASSUME NEW t \in Threads, NEW w \in Whats, NEW x \in Names, NEW r \in Seq(Steps),
         todo \in [Threads -> Seq(Steps)],
         todo' = [todo EXCEPT ![t] = <<Step(w, x)>> \o r]
  PROVE  /\ At(t, w, x)' /\ Tail(todo'[t]) = r
         /\ \A u \in Threads \ {t} : todo'[u] = todo[u]
         /\ todo' \in [Threads -> Seq(Steps)]
<1>1. Step(w, x) \in Steps /\ Step(w, x).what = w /\ Step(w, x).of = x
  BY StepsAreSteps
<1>2. todo'[t] = <<Step(w, x)>> \o r
  OBVIOUS
<1>3. todo'[t] # <<>> /\ Head(todo'[t]) = Step(w, x) /\ Tail(todo'[t]) = r
  BY <1>1, <1>2, Front
<1>4. At(t, w, x)'
  BY <1>1, <1>3 DEF At, now, Step, Begins, Of
<1>5. QED BY <1>1, <1>3, <1>4, Front

\* How a drop goes on.
Turn(t) ==
  \/ \E s \in Sessions : At(t, "session_destroy", s) /\ At(t, "api", s)'
  \/ t = "worker" /\ At(t, "group_destroy", "group") /\ At(t, "api", "group")'
  \/ \E x \in Sessions \cup {"group"} : At(t, "api", x) /\ At(t, "model", x)'
  \/ \E x \in Sessions \cup {"group", "engine"} :
       /\ At(t, "model", x)
       /\ IF modelOwners' = {} THEN At(t, "model_destroy", "model")'
          ELSE \/ todo'[t] = <<>>
               \/ t = "worker" /\ worker = "gone" /\ x # "engine" /\ At(t, "pool", "worker")'
  \/ /\ t = "worker" /\ worker = "gone" /\ At(t, "pool", "worker")
     /\ IF Owned(t) = {} THEN At(t, "engine", t)'
        ELSE \E s \in Owned(t) : At(t, "session_destroy", s)'
  \/ /\ At(t, "engine", t)
     /\ IF engineHolders' = {} THEN At(t, "model", "engine")' ELSE todo'[t] = <<>>
  \/ At(t, "model_destroy", "model") /\ At(t, "api", "model")'
  \/ \E x \in {"model", "runtime"} : At(t, "api", x) /\ todo'[t] = <<>>

\* A thread takes the next step of its drop, and keeps to its script.
Advances(t) ==
  /\ Turn(t) /\ Script(t)'
  /\ \A u \in Threads \ {t} : todo'[u] = todo[u]
  /\ todo' \in [Threads -> Seq(Steps)]

LEMMA DropTurns ==
  ASSUME Ownership, NEW t \in Threads, Drops(t)
  PROVE  Advances(t)
<1> DEFINE q == todo[t]
<1>1. /\ todo \in [Threads -> Seq(Steps)] /\ q \in Seq(Steps) /\ Script(t)
      /\ SessionsOwned /\ EngineHeld
  BY DEF Ownership, Order, HandlesType
<1>2. After(t)' = After(t) /\ After(t) \in Seq(Steps) /\ worker' = worker
  BY StepsAreSteps DEF Drops, DestroySession, DestroyGroup, DestroyModel, ReleaseApi,
     ReleaseModel, ReleaseEngine, DropPool, After
<1>3. q # <<>>
  BY DEF Drops, DestroySession, DestroyGroup, DestroyModel, ReleaseApi,
     ReleaseModel, ReleaseEngine, DropPool, Begins
<1>4. Tail(q) \in Seq(Steps) /\ <<>> \o Tail(q) = Tail(q)
  BY <1>1, <1>3, Nothing
<1>5. \A w \in Whats, x \in Names : Step(w, x) \in Steps
  BY StepsAreSteps
<1>6. /\ \A s \in Sessions : s \in Names /\ s \notin Owners
      /\ \A x \in Owners \cup Threads : x \in Names
  BY NamesDiffer
\* The forms of the rest of a drop.
<1>7. ASSUME NEW w \in Whats, NEW x \in Names, NEW r \in Seq(Steps),
             todo' = [todo EXCEPT ![t] = <<Step(w, x)>> \o r]
      PROVE  /\ At(t, w, x)' /\ Tail(todo'[t]) = r
             /\ \A u \in Threads \ {t} : todo'[u] = todo[u]
             /\ todo' \in [Threads -> Seq(Steps)]
  BY <1>1, <1>7, Turned
\* Which step it is.
<1>8. /\ Begins(t, "model") => ReleaseModel(t)
      /\ Begins(t, "engine") => ReleaseEngine(t)
      /\ Begins(t, "pool") => DropPool(t)
      /\ ~ Begins(t, "model") /\ ~ Begins(t, "engine") /\ ~ Begins(t, "pool") =>
           todo' = [todo EXCEPT ![t] = Tail(q)]
  <2>1. Do(t, <<>>) => todo' = [todo EXCEPT ![t] = Tail(q)]
    BY <1>1, <1>4 DEF Do
  <2>2. QED
    BY <2>1 DEF Begins, Drops, DestroySession, DestroyGroup, DestroyModel, ReleaseApi,
       ReleaseModel, ReleaseEngine, DropPool
<1>9. ASSUME NEW s \in Sessions, At(t, "session_destroy", s),
             Tail(q) = <<Step("api", s), Step("model", s)>> \o After(t)
      PROVE  Advances(t)
  <2>1. todo' = [todo EXCEPT ![t] = Tail(q)]
    BY <1>8, <1>9 DEF At, now, Step, Of, Begins
  <2>2. Step("api", s) \in Steps /\ Step("model", s) \in Steps
    BY <1>5, <1>6 DEF Whats
  <2>3. /\ Tail(q) = <<Step("api", s)>> \o (<<Step("model", s)>> \o After(t))
        /\ <<Step("model", s)>> \o After(t) \in Seq(Steps)
    <3> DEFINE a == Step("api", s)
               b == Step("model", s)
               r == After(t)
    <3>1. a \in Steps /\ b \in Steps /\ r \in Seq(Steps) /\ Tail(q) = <<a, b>> \o r
      BY <1>2, <1>9, <2>2
    <3> HIDE DEF a, b, r
    <3>2. <<a, b>> \o r = <<a>> \o (<<b>> \o r) /\ <<b>> \o r \in Seq(Steps)
      BY <3>1, SplitTwo
    <3>3. QED BY <3>1, <3>2 DEF a, b, r
  <2>4. /\ At(t, "api", s)' /\ Tail(todo'[t]) = <<Step("model", s)>> \o After(t)
        /\ \A u \in Threads \ {t} : todo'[u] = todo[u]
        /\ todo' \in [Threads -> Seq(Steps)]
    BY <1>6, <1>7, <2>1, <2>3 DEF Whats
  <2>5. Turn(t)
    BY <1>9, <2>4 DEF Turn
  <2>6. Script(t)'
    BY <1>2, <2>4 DEF Script
  <2>7. QED BY <2>4, <2>5, <2>6 DEF Advances
<1>10. ASSUME t = "worker", At(t, "group_destroy", "group"),
              Tail(q) = <<Step("api", "group"), Step("model", "group")>> \o After(t)
       PROVE  Advances(t)
  <2>1. todo' = [todo EXCEPT ![t] = Tail(q)]
    BY <1>8, <1>10 DEF At, now, Step, Of, Begins
  <2>2. Step("api", "group") \in Steps /\ Step("model", "group") \in Steps
    BY <1>5, <1>6 DEF Whats, Owners
  <2>3. /\ Tail(q) = <<Step("api", "group")>> \o (<<Step("model", "group")>> \o After(t))
        /\ <<Step("model", "group")>> \o After(t) \in Seq(Steps)
    <3> DEFINE a == Step("api", "group")
               b == Step("model", "group")
               r == After(t)
    <3>1. a \in Steps /\ b \in Steps /\ r \in Seq(Steps) /\ Tail(q) = <<a, b>> \o r
      BY <1>2, <1>10, <2>2
    <3> HIDE DEF a, b, r
    <3>2. <<a, b>> \o r = <<a>> \o (<<b>> \o r) /\ <<b>> \o r \in Seq(Steps)
      BY <3>1, SplitTwo
    <3>3. QED BY <3>1, <3>2 DEF a, b, r
  <2>4. /\ At(t, "api", "group")' /\ Tail(todo'[t]) = <<Step("model", "group")>> \o After(t)
        /\ \A u \in Threads \ {t} : todo'[u] = todo[u]
        /\ todo' \in [Threads -> Seq(Steps)]
    BY <1>6, <1>7, <2>1, <2>3 DEF Whats, Owners
  <2>5. Turn(t)
    BY <1>10, <2>4 DEF Turn
  <2>6. Script(t)'
    BY <1>2, <1>10, <2>4 DEF Script
  <2>7. QED BY <2>4, <2>5, <2>6 DEF Advances
<1>11. ASSUME NEW x \in Sessions \cup {"group"}, x = "group" => t = "worker", At(t, "api", x),
              Tail(q) = <<Step("model", x)>> \o After(t)
       PROVE  Advances(t)
  <2>1. todo' = [todo EXCEPT ![t] = Tail(q)]
    BY <1>8, <1>11 DEF At, now, Step, Of, Begins
  <2>2. /\ At(t, "model", x)' /\ Tail(todo'[t]) = After(t)
        /\ \A u \in Threads \ {t} : todo'[u] = todo[u]
        /\ todo' \in [Threads -> Seq(Steps)]
    BY <1>2, <1>6, <1>7, <1>11, <2>1 DEF Whats, Owners
  <2>3. Turn(t)
    BY <1>11, <2>2 DEF Turn
  <2>4. Script(t)'
    BY <1>2, <1>11, <2>2 DEF Script
  <2>5. QED BY <2>2, <2>3, <2>4 DEF Advances
\* The last share of the model takes the model with it.
<1>12. ASSUME NEW x \in Sessions \cup {"group", "engine"}, At(t, "model", x), modelOwners' = {},
              Tail(q) = <<>>
       PROVE  Advances(t)
  <2>1. Do(t, ModelDrop)
    BY <1>8, <1>12 DEF At, now, Step, Of, Begins, ReleaseModel
  <2>2. /\ Step("model_destroy", "model") \in Steps /\ Step("api", "model") \in Steps
    BY <1>5, <1>6 DEF Whats, Owners
  <2>3. todo' = [todo EXCEPT ![t] = <<Step("model_destroy", "model")>> \o <<Step("api", "model")>>]
    <3>1. /\ ModelDrop = <<Step("model_destroy", "model")>> \o <<Step("api", "model")>>
          /\ ModelDrop \in Seq(Steps)
      BY <1>4, <2>2, PairIs DEF ModelDrop
    <3>2. ModelDrop \o Tail(q) = ModelDrop
      BY <1>12, <3>1, Nothing
    <3>3. QED BY <1>1, <2>1, <3>1, <3>2 DEF Do
  <2>4. /\ At(t, "model_destroy", "model")' /\ Tail(todo'[t]) = <<Step("api", "model")>>
        /\ \A u \in Threads \ {t} : todo'[u] = todo[u]
        /\ todo' \in [Threads -> Seq(Steps)]
    <3>1. <<Step("api", "model")>> \in Seq(Steps)
      BY <1>4, <2>2, Alone
    <3>2. QED BY <1>6, <1>7, <2>3, <3>1 DEF Whats, Owners
  <2>5. Turn(t)
    BY <1>12, <2>4 DEF Turn
  <2>6. Script(t)'
    BY <1>2, <2>4 DEF Script
  <2>7. QED BY <2>4, <2>5, <2>6 DEF Advances
<1>13. ASSUME NEW x \in Sessions \cup {"group", "engine"}, At(t, "model", x),
              x = "engine" => Tail(q) = <<>>,
              x # "engine" => Tail(q) = After(t)
       PROVE  Advances(t)
  <2>1. CASE Tail(q) = <<>> /\ modelOwners' = {}
    BY <1>12, <1>13, <2>1
  <2>2. CASE Tail(q) # <<>>
    <3>1. t = "worker" /\ worker = "gone" /\ x # "engine"
          /\ Tail(q) = <<Pool, Step("engine", "worker")>>
      BY <1>13, <2>2 DEF After
    <3>2. "engine" \in modelOwners
      BY <1>1, <1>6, <1>13, <3>1 DEF EngineHeld, EngineGoes, Rests, At, Owners
    <3>3. modelOwners' = modelOwners \ {x} /\ Do(t, IF modelOwners' = {} THEN ModelDrop ELSE <<>>)
      BY <1>8, <1>13 DEF At, now, Step, Of, Begins, ReleaseModel
    <3>4. modelOwners' # {}
      BY <3>1, <3>2, <3>3
    <3>5. todo' = [todo EXCEPT ![t] = <<Step("pool", "worker")>> \o <<Step("engine", "worker")>>]
      <4>1. Step("pool", "worker") \in Steps /\ Step("engine", "worker") \in Steps
        BY <1>5, <1>6 DEF Whats, Threads
      <4>2. Tail(q) = <<Step("pool", "worker")>> \o <<Step("engine", "worker")>>
        BY <1>4, <3>1, <4>1, PairIs DEF Pool
      <4>3. QED BY <1>1, <1>4, <3>3, <3>4, <4>2 DEF Do
    <3>6. /\ At(t, "pool", "worker")' /\ Tail(todo'[t]) = <<Step("engine", "worker")>>
          /\ \A u \in Threads \ {t} : todo'[u] = todo[u]
          /\ todo' \in [Threads -> Seq(Steps)]
      <4>1. Step("engine", "worker") \in Steps
        BY <1>5, <1>6 DEF Whats, Threads
      <4>2. <<Step("engine", "worker")>> \in Seq(Steps)
        BY <1>4, <4>1, Alone
      <4>3. QED BY <1>6, <1>7, <3>5, <4>2 DEF Whats, Threads
    <3>7. Turn(t)
      BY <1>13, <3>1, <3>4, <3>6 DEF Turn
    <3>8. Script(t)'
      BY <1>2, <3>1, <3>6 DEF Script
    <3>9. QED BY <3>6, <3>7, <3>8 DEF Advances
  <2>3. CASE Tail(q) = <<>> /\ modelOwners' # {}
    <3>1. Do(t, <<>>)
      BY <1>8, <1>13, <2>3 DEF At, now, Step, Of, Begins, ReleaseModel
    <3>2. /\ todo'[t] = <<>> /\ \A u \in Threads \ {t} : todo'[u] = todo[u]
          /\ todo' \in [Threads -> Seq(Steps)]
      BY <1>1, <1>4, <2>3, <3>1 DEF Do
    <3>3. Turn(t)
      BY <1>13, <2>3, <3>2 DEF Turn
    <3>4. QED BY <3>2, <3>3 DEF Advances, Script
  <2>4. QED BY <2>1, <2>2, <2>3
\* The pool goes a session at a time, and stays behind it.
<1>14. ASSUME t = "worker", worker = "gone", At(t, "pool", "worker"),
              Tail(q) = <<Step("engine", "worker")>>
       PROVE  Advances(t)
  <2>1. DropPool(t)
    BY <1>8, <1>14 DEF At, now, Step, Of, Begins
  <2>2. Step("pool", "worker") \in Steps /\ Step("engine", "worker") \in Steps
    BY <1>5, <1>6 DEF Whats, Threads
  <2>3. CASE Owned(t) = {}
    <3>1. todo' = [todo EXCEPT ![t] = <<Step("engine", "worker")>> \o <<>>]
      <4>1. Tail(q) = <<Step("engine", "worker")>> \o <<>>
        BY <1>4, <1>14, <2>2, Alone
      <4>2. QED BY <1>1, <1>4, <2>1, <2>3, <4>1 DEF DropPool, Do
    <3>2. /\ At(t, "engine", "worker")' /\ Tail(todo'[t]) = <<>>
          /\ \A u \in Threads \ {t} : todo'[u] = todo[u]
          /\ todo' \in [Threads -> Seq(Steps)]
      BY <1>6, <1>7, <2>2, <3>1, Alone DEF Whats, Threads
    <3>3. Turn(t) /\ Script(t)'
      BY <1>2, <1>14, <2>3, <3>2 DEF Turn, Script
    <3>4. QED BY <3>2, <3>3 DEF Advances
  <2>4. CASE Owned(t) # {}
    <3>1. PICK s \in Owned(t) : todo' = [todo EXCEPT ![t] = SessionDrop(s) \o q]
      BY <1>1, <2>1, <2>4 DEF DropPool
    <3>2. s \in Sessions /\ s \in Names
      BY <1>6 DEF Owned
    <3>3. q = After(t)
      <4>1. Head(q) = Step("pool", "worker")
        <5>1. Head(q) \in Steps /\ Head(q).what = "pool" /\ Head(q).of = "worker"
          BY <1>1, <1>3, <1>14 DEF At, now, Step, Begins, Of
        <5>2. QED BY <5>1 DEF Steps, Step
      <4>2. q = <<Step("pool", "worker"), Step("engine", "worker")>>
        BY <1>1, <1>3, <1>14, <2>2, <4>1, Pair
      <4>3. QED BY <1>14, <4>2 DEF After, Pool
    <3> DEFINE r == <<Step("api", s), Step("model", s)>> \o After(t)
    <3>4. /\ Step("session_destroy", s) \in Steps
          /\ Step("api", s) \in Steps /\ Step("model", s) \in Steps
      BY <1>5, <3>2 DEF Whats
    <3>5. SessionDrop(s) \o q = <<Step("session_destroy", s)>> \o r /\ r \in Seq(Steps)
      <4> DEFINE a == Step("session_destroy", s)
                 b == Step("api", s)
                 c == Step("model", s)
                 e == After(t)
      <4>1. /\ a \in Steps /\ b \in Steps /\ c \in Steps /\ e \in Seq(Steps)
            /\ SessionDrop(s) \o q = <<a, b, c>> \o e /\ r = <<b, c>> \o e
        BY <1>2, <3>3, <3>4 DEF SessionDrop
      <4> HIDE DEF a, b, c, e, r
      <4>2. <<a, b, c>> \o e = <<a>> \o (<<b, c>> \o e) /\ <<b, c>> \o e \in Seq(Steps)
        BY <4>1, StepsSplit, Zenon
      <4>3. QED BY <4>1, <4>2 DEF a
    <3> HIDE DEF r
    <3>6. /\ At(t, "session_destroy", s)' /\ Tail(todo'[t]) = r
          /\ \A u \in Threads \ {t} : todo'[u] = todo[u]
          /\ todo' \in [Threads -> Seq(Steps)]
      BY <1>7, <3>1, <3>2, <3>5 DEF Whats
    <3>7. Turn(t)
      BY <1>14, <2>4, <3>6 DEF Turn
    <3>8. Script(t)'
      BY <1>2, <3>2, <3>6 DEF Script, r
    <3>9. QED BY <3>6, <3>7, <3>8 DEF Advances
  <2>5. QED BY <2>3, <2>4
<1>15. ASSUME At(t, "engine", t), Tail(q) = <<>> PROVE Advances(t)
  <2>1. Do(t, IF engineHolders' = {} THEN EngineDrop ELSE <<>>)
    BY <1>8, <1>15 DEF At, now, Step, Of, Begins, ReleaseEngine
  <2>2. CASE engineHolders' = {}
    <3>1. Step("model", "engine") \in Steps
      BY <1>5, <1>6 DEF Whats, Owners
    <3>2. todo' = [todo EXCEPT ![t] = <<Step("model", "engine")>> \o <<>>]
      <4>1. EngineDrop = <<Step("model", "engine")>> \o <<>> /\ EngineDrop \in Seq(Steps)
        BY <1>4, <3>1, Alone DEF EngineDrop
      <4>2. EngineDrop \o Tail(q) = EngineDrop
        BY <1>15, <4>1, Nothing
      <4>3. QED BY <1>1, <2>1, <2>2, <4>1, <4>2 DEF Do
    <3>3. /\ At(t, "model", "engine")' /\ Tail(todo'[t]) = <<>>
          /\ \A u \in Threads \ {t} : todo'[u] = todo[u]
          /\ todo' \in [Threads -> Seq(Steps)]
      BY <1>4, <1>6, <1>7, <1>15, <3>2 DEF Whats, Owners
    <3>4. Turn(t) /\ Script(t)'
      BY <1>15, <2>2, <3>3 DEF Turn, Script
    <3>5. QED BY <3>3, <3>4 DEF Advances
  <2>3. CASE engineHolders' # {}
    <3>1. /\ todo'[t] = <<>> /\ \A u \in Threads \ {t} : todo'[u] = todo[u]
          /\ todo' \in [Threads -> Seq(Steps)]
      BY <1>1, <1>4, <1>15, <2>1, <2>3 DEF Do
    <3>2. Turn(t)
      BY <1>15, <2>3, <3>1 DEF Turn
    <3>3. QED BY <3>1, <3>2 DEF Advances, Script
  <2>4. QED BY <2>2, <2>3
<1>16. ASSUME At(t, "model_destroy", "model"), Tail(q) = <<Step("api", "model")>>
       PROVE  Advances(t)
  <2>1. todo' = [todo EXCEPT ![t] = <<Step("api", "model")>> \o <<>>]
    <3>1. Step("api", "model") \in Steps
      BY <1>5, <1>6 DEF Whats, Owners
    <3>2. Tail(q) = <<Step("api", "model")>> \o <<>>
      BY <1>4, <1>16, <3>1, Alone
    <3>3. QED BY <1>8, <1>16, <3>2 DEF At, now, Step, Of, Begins
  <2>2. /\ At(t, "api", "model")' /\ Tail(todo'[t]) = <<>>
        /\ \A u \in Threads \ {t} : todo'[u] = todo[u]
        /\ todo' \in [Threads -> Seq(Steps)]
    <3>1. <<>> \in Seq(Steps)
      OBVIOUS
    <3>2. QED BY <1>6, <1>7, <2>1, <3>1 DEF Whats, Owners
  <2>3. Turn(t) /\ Script(t)'
    BY <1>16, <2>2 DEF Turn, Script
  <2>4. QED BY <2>2, <2>3 DEF Advances
<1>17. ASSUME NEW x \in {"model", "runtime"}, At(t, "api", x), Tail(q) = <<>>
       PROVE  Advances(t)
  <2>1. /\ todo'[t] = <<>> /\ \A u \in Threads \ {t} : todo'[u] = todo[u]
        /\ todo' \in [Threads -> Seq(Steps)]
    BY <1>1, <1>4, <1>8, <1>17 DEF At, now, Step, Of, Begins
  <2>2. Turn(t)
    BY <1>17, <2>1 DEF Turn
  <2>3. QED BY <2>1, <2>2 DEF Advances, Script
<1>18. \A s \in Sessions : s # "engine" /\ s # "group"
  BY <1>6 DEF Owners
<1>19. CASE \E s \in Sessions :
              \/ At(t, "session_destroy", s)
                   /\ Tail(q) = <<Step("api", s), Step("model", s)>> \o After(t)
              \/ At(t, "api", s) /\ Tail(q) = <<Step("model", s)>> \o After(t)
              \/ At(t, "model", s) /\ Tail(q) = After(t)
  BY <1>9, <1>11, <1>13, <1>18, <1>19
<1>20. CASE t = "worker" /\ At(t, "model", "group") /\ Tail(q) = After(t)
  BY <1>13, <1>20
<1>21. CASE At(t, "model", "engine") /\ Tail(q) = <<>>
  BY <1>13, <1>21
<1>22. QED
  BY <1>1, <1>3, <1>10, <1>11, <1>14, <1>15, <1>16, <1>17, <1>19, <1>20, <1>21 DEF Script

\* A drop that begins.
Begun(t, w, x) ==
  /\ At(t, w, x)' /\ Script(t)'
  /\ \A u \in Threads \ {t} : todo'[u] = todo[u]
  /\ todo' \in [Threads -> Seq(Steps)]

LEMMA DropsBegin ==
  ASSUME Ownership
  PROVE  /\ Load => Begun("caller", "api", "runtime")
         /\ \A s \in Sessions : DropSession(s) => Begun("caller", "session_destroy", s)
         /\ DropEngine => Begun("caller", "engine", "caller")
         /\ DropGroup => Begun("worker", "group_destroy", "group")
         /\ Exit => IF grouped THEN Begun("worker", "group_destroy", "group")
                    ELSE Begun("worker", "pool", "worker")
<1>1. todo \in [Threads -> Seq(Steps)]
  BY DEF Ownership, HandlesType
<1>2. \A w \in Whats, x \in Names : Step(w, x) \in Steps
  BY StepsAreSteps
<1>3. \A x \in Sessions \cup Owners \cup Threads : x \in Names
  BY DEF Names
<1>4. ASSUME NEW t \in Threads, NEW w \in Whats, NEW x \in Names, NEW r \in Seq(Steps),
             todo' = [todo EXCEPT ![t] = <<Step(w, x)>> \o r]
      PROVE  /\ At(t, w, x)' /\ Tail(todo'[t]) = r
             /\ \A u \in Threads \ {t} : todo'[u] = todo[u]
             /\ todo' \in [Threads -> Seq(Steps)]
  BY <1>1, <1>4, Turned
<1>5. ASSUME NEW w \in Whats, NEW x \in Names
      PROVE  <<Step(w, x)>> = <<Step(w, x)>> \o <<>> /\ <<>> \in Seq(Steps)
  BY <1>2, Alone
<1>6. ASSUME NEW x \in Sessions \cup {"group"}, NEW w \in Whats, NEW r \in Seq(Steps)
      PROVE  <<Step(w, x), Step("api", x), Step("model", x)>> \o r
               = <<Step(w, x)>> \o (<<Step("api", x), Step("model", x)>> \o r)
             /\ <<Step("api", x), Step("model", x)>> \o r \in Seq(Steps)
  <2> DEFINE a == Step(w, x)
             b == Step("api", x)
             c == Step("model", x)
  <2>1. a \in Steps /\ b \in Steps /\ c \in Steps
    BY <1>2, <1>3 DEF Whats, Owners
  <2> HIDE DEF a, b, c
  <2>2. <<a, b, c>> \o r = <<a>> \o (<<b, c>> \o r) /\ <<b, c>> \o r \in Seq(Steps)
    BY <2>1, StepsSplit, Zenon
  <2>3. QED BY <2>2 DEF a, b, c
<1>7. ASSUME NEW x \in Sessions \cup {"group"}, NEW w \in Whats
      PROVE  LET d == <<Step(w, x), Step("api", x), Step("model", x)>> IN d = d \o <<>>
  <2> DEFINE d == <<Step(w, x), Step("api", x), Step("model", x)>>
  <2>1. Step(w, x) \in Steps /\ Step("api", x) \in Steps /\ Step("model", x) \in Steps
    BY <1>2, <1>3 DEF Whats, Owners
  <2>2. d \in Seq(Steps)
    BY <2>1
  <2> HIDE DEF d
  <2>3. d = d \o <<>>
    BY <2>2, Nothing
  <2>4. QED BY <2>3 DEF d
<1>8. ASSUME Load PROVE Begun("caller", "api", "runtime")
  <2>1. "api" \in Whats /\ "runtime" \in Names /\ "caller" \in Threads
    BY <1>3 DEF Whats, Owners, Threads
  <2>2. todo' = [todo EXCEPT !["caller"] = <<Step("api", "runtime")>> \o <<>>]
    BY <1>5, <1>8, <2>1 DEF Load, RuntimeDrop
  <2>3. /\ At("caller", "api", "runtime")' /\ Tail(todo'["caller"]) = <<>>
        /\ \A u \in Threads \ {"caller"} : todo'[u] = todo[u]
        /\ todo' \in [Threads -> Seq(Steps)]
    BY <1>4, <1>5, <2>1, <2>2
  <2>4. QED BY <2>3 DEF Begun, Script
<1>9. ASSUME NEW s \in Sessions, DropSession(s) PROVE Begun("caller", "session_destroy", s)
  <2>1. "session_destroy" \in Whats /\ s \in Names /\ "caller" \in Threads
    BY <1>3 DEF Whats, Threads
  <2>2. After("caller")' = <<>> /\ <<>> \in Seq(Steps)
    BY DEF After
  <2> DEFINE r == <<Step("api", s), Step("model", s)>> \o <<>>
  <2>3. SessionDrop(s) = <<Step("session_destroy", s)>> \o r /\ r \in Seq(Steps)
    <3> DEFINE d == <<Step("session_destroy", s), Step("api", s), Step("model", s)>>
    <3>1. d = d \o <<>>
      BY <1>7, <2>1
    <3>2. d \o <<>> = <<Step("session_destroy", s)>> \o r /\ r \in Seq(Steps)
      BY <1>6, <2>1, <2>2
    <3>3. SessionDrop(s) = d
      BY DEF SessionDrop
    <3> HIDE DEF d, r
    <3>4. QED BY <3>1, <3>2, <3>3
  <2>4. todo' = [todo EXCEPT !["caller"] = <<Step("session_destroy", s)>> \o r]
    BY <1>9, <2>3 DEF DropSession
  <2> HIDE DEF r
  <2>5. /\ At("caller", "session_destroy", s)' /\ Tail(todo'["caller"]) = r
        /\ \A u \in Threads \ {"caller"} : todo'[u] = todo[u]
        /\ todo' \in [Threads -> Seq(Steps)]
    BY <1>4, <2>1, <2>3, <2>4
  <2>6. Script("caller")'
    BY <2>2, <2>5 DEF Script, r
  <2>7. QED BY <2>5, <2>6 DEF Begun
<1>10. ASSUME DropEngine PROVE Begun("caller", "engine", "caller")
  <2>1. "engine" \in Whats /\ "caller" \in Names /\ "caller" \in Threads
    BY <1>3 DEF Whats, Threads
  <2>2. todo' = [todo EXCEPT !["caller"] = <<Step("engine", "caller")>> \o <<>>]
    BY <1>5, <1>10, <2>1 DEF DropEngine
  <2>3. /\ At("caller", "engine", "caller")' /\ Tail(todo'["caller"]) = <<>>
        /\ \A u \in Threads \ {"caller"} : todo'[u] = todo[u]
        /\ todo' \in [Threads -> Seq(Steps)]
    BY <1>4, <1>5, <2>1, <2>2
  <2>4. QED BY <2>3 DEF Begun, Script
<1>11. ASSUME DropGroup PROVE Begun("worker", "group_destroy", "group")
  <2>1. "group_destroy" \in Whats /\ "group" \in Names /\ "worker" \in Threads
    BY <1>3 DEF Whats, Threads, Owners
  <2>2. After("worker")' = <<>> /\ <<>> \in Seq(Steps)
    BY <1>11 DEF After, DropGroup, Running
  <2> DEFINE r == <<Step("api", "group"), Step("model", "group")>> \o <<>>
  <2>3. GroupDrop = <<Step("group_destroy", "group")>> \o r /\ r \in Seq(Steps)
    <3> DEFINE d == <<Step("group_destroy", "group"), Step("api", "group"), Step("model", "group")>>
    <3>1. d = d \o <<>>
      BY <1>7, <2>1
    <3>2. d \o <<>> = <<Step("group_destroy", "group")>> \o r /\ r \in Seq(Steps)
      BY <1>6, <2>1, <2>2
    <3>3. GroupDrop = d
      BY DEF GroupDrop
    <3> HIDE DEF d, r
    <3>4. QED BY <3>1, <3>2, <3>3
  <2>4. todo' = [todo EXCEPT !["worker"] = <<Step("group_destroy", "group")>> \o r]
    BY <1>11, <2>3 DEF DropGroup
  <2> HIDE DEF r
  <2>5. /\ At("worker", "group_destroy", "group")' /\ Tail(todo'["worker"]) = r
        /\ \A u \in Threads \ {"worker"} : todo'[u] = todo[u]
        /\ todo' \in [Threads -> Seq(Steps)]
    BY <1>4, <2>1, <2>3, <2>4
  <2>6. Script("worker")'
    BY <2>2, <2>5 DEF Script, r
  <2>7. QED BY <2>5, <2>6 DEF Begun
<1>12. ASSUME Exit PROVE IF grouped THEN Begun("worker", "group_destroy", "group")
                         ELSE Begun("worker", "pool", "worker")
  <2> DEFINE e == <<Pool, Step("engine", "worker")>>
  <2>1. /\ {"group_destroy", "pool", "engine"} \subseteq Whats /\ {"group", "worker"} \subseteq Names
        /\ "worker" \in Threads
    BY <1>3 DEF Whats, Threads, Owners
  <2>2. After("worker")' = e /\ worker' = "gone"
    BY <1>12 DEF After, Exit
  <2>3. /\ e = <<Pool>> \o <<Step("engine", "worker")>> /\ e \in Seq(Steps)
        /\ <<Step("engine", "worker")>> \in Seq(Steps)
    <3>1. Pool \in Steps /\ Step("engine", "worker") \in Steps
      BY <1>2, <2>1 DEF Pool
    <3>2. QED BY <3>1, PairIs
  <2>4. todo' = [todo EXCEPT !["worker"] = (IF grouped THEN GroupDrop ELSE <<>>) \o e]
    BY <1>12 DEF Exit, Teardown
  <2>5. CASE grouped
    <3> DEFINE r == <<Step("api", "group"), Step("model", "group")>> \o e
    <3> HIDE DEF e
    <3>1. GroupDrop \o e = <<Step("group_destroy", "group")>> \o r /\ r \in Seq(Steps)
      BY <1>6, <2>1, <2>3 DEF GroupDrop
    <3> HIDE DEF r
    <3>2. todo' = [todo EXCEPT !["worker"] = <<Step("group_destroy", "group")>> \o r]
      BY <2>4, <2>5, <3>1
    <3>3. /\ At("worker", "group_destroy", "group")' /\ Tail(todo'["worker"]) = r
          /\ \A u \in Threads \ {"worker"} : todo'[u] = todo[u]
          /\ todo' \in [Threads -> Seq(Steps)]
      BY <1>4, <2>1, <3>1, <3>2
    <3>4. Script("worker")'
      BY <2>2, <3>3 DEF Script, r
    <3>5. QED BY <2>5, <3>3, <3>4 DEF Begun
  <2>6. CASE ~ grouped
    <3>1. todo' = [todo EXCEPT !["worker"] = <<Step("pool", "worker")>> \o <<Step("engine", "worker")>>]
      <4>1. <<>> \o e = e
        BY <2>3, Nothing
      <4>2. QED BY <2>3, <2>4, <2>6, <4>1 DEF Pool
    <3>2. /\ At("worker", "pool", "worker")'
          /\ Tail(todo'["worker"]) = <<Step("engine", "worker")>>
          /\ \A u \in Threads \ {"worker"} : todo'[u] = todo[u]
          /\ todo' \in [Threads -> Seq(Steps)]
      BY <1>4, <2>1, <2>3, <3>1
    <3>3. Script("worker")'
      BY <2>2, <3>2 DEF Script
    <3>4. QED BY <2>6, <3>2, <3>3 DEF Begun
  <2>7. QED BY <2>5, <2>6
<1>13. QED BY <1>8, <1>9, <1>10, <1>11, <1>12

-----------------------------------------------------------------------------
(* What a thread is about to do *)

\* The steps a script has.
Kind(t) ==
  \/ Rests(t)
  \/ \E s \in Sessions, w \in {"session_destroy", "api", "model"} : At(t, w, s)
  \/ t = "worker" /\ \E w \in {"group_destroy", "api", "model"} : At(t, w, "group")
  \/ t = "worker" /\ At(t, "pool", "worker")
  \/ At(t, "engine", t) /\ (t = "worker" => worker = "gone")
  \/ At(t, "model", "engine")
  \/ At(t, "model_destroy", "model") \/ At(t, "api", "model")
  \/ t = "caller" /\ At(t, "api", "runtime")

LEMMA Kinds ==
  ASSUME NEW t \in Threads
  PROVE  (Script(t) => Kind(t)) /\ (Script(t)' => Kind(t)')
<1>1. (todo[t] = <<>> => Rests(t)) /\ (todo'[t] = <<>> => Rests(t)')
  BY DEF Rests, now, Step
<1>2. Script(t) => Kind(t)
  BY <1>1 DEF Script, Kind
<1>3. Script(t)' => Kind(t)'
  BY <1>1 DEF Script, Kind
<1>4. QED BY <1>2, <1>3

LEMMA NowIs ==
  ASSUME todo \in [Threads -> Seq(Steps)], NEW t \in Threads
  PROVE  /\ todo[t] = <<>> <=> Rests(t)
         /\ \A w \in Whats : Begins(t, w) <=> now[t].what = w
         /\ ~ Rests(t) => Of(t) = now[t].of
<1>1. todo[t] \in Seq(Steps)
  OBVIOUS
<1>2. todo[t] # <<>> => Head(todo[t]) \in Steps
  BY <1>1
<1>3. todo[t] # <<>> => now[t] = Head(todo[t]) /\ now[t].what \in Whats
  BY <1>2 DEF now, Steps
<1>4. todo[t] = <<>> => now[t].what = "none"
  BY DEF now, Step
<1>5. "none" \notin Whats
  BY DEF Whats
<1>6. QED BY <1>3, <1>4, <1>5 DEF Rests, Begins, Of

\* The other threads stay where they are.
LEMMA OthersStay ==
  ASSUME NEW u \in Threads, todo'[u] = todo[u] PROVE now'[u] = now[u]
BY DEF now

\* What a step leaves to be shown: the rest is the script.
Others(t) == \A u \in Threads \ {t} : now'[u] = now[u]

\* How a thread goes on, its next steps alone.
Goes(t) ==
  /\ \A u \in Threads : Kind(u) /\ Kind(u)' /\ Script(u)'
  /\ Others(t)
  /\ HandlesType' /\ HandlesType
  /\ \/ \E s \in Sessions : At(t, "session_destroy", s) /\ At(t, "api", s)'
     \/ t = "worker" /\ At(t, "group_destroy", "group") /\ At(t, "api", "group")'
     \/ \E x \in Sessions \cup {"group"} : At(t, "api", x) /\ At(t, "model", x)'
     \/ \E x \in Sessions \cup {"group", "engine"} :
          /\ At(t, "model", x)
          /\ IF modelOwners' = {} THEN At(t, "model_destroy", "model")'
             ELSE \/ Rests(t)'
                  \/ t = "worker" /\ worker = "gone" /\ x # "engine" /\ At(t, "pool", "worker")'
     \/ /\ t = "worker" /\ worker = "gone" /\ At(t, "pool", "worker")
        /\ IF Owned(t) = {} THEN At(t, "engine", t)'
           ELSE \E s \in Owned(t) : At(t, "session_destroy", s)'
     \/ /\ At(t, "engine", t)
        /\ IF engineHolders' = {} THEN At(t, "model", "engine")' ELSE Rests(t)'
     \/ At(t, "model_destroy", "model") /\ At(t, "api", "model")'
     \/ \E x \in {"model", "runtime"} : At(t, "api", x) /\ Rests(t)'

LEMMA ScriptsStay ==
  ASSUME todo \in [Threads -> Seq(Steps)], worker' = worker,
         NEW u \in Threads, todo'[u] = todo[u], Script(u)
  PROVE  Script(u)'
<1>1. now'[u] = now[u]
  BY OthersStay
<1>2. After(u)' = After(u)
  BY DEF After
<1>3. QED BY <1>1, <1>2 DEF Script, At

LEMMA TypesKept ==
  ASSUME HandlesType, Creations, [Next]_vars, todo' \in [Threads -> Seq(Steps)]
  PROVE  HandlesType'
<1> USE DEF HandlesType
<1>1. ASSUME NEW t \in Threads, Drops(t) PROVE HandlesType'
  <2>1. CASE DestroySession(t)
    <3>1. owner' \in [Sessions -> Threads \cup {None}]
      BY <2>1 DEF DestroySession
    <3>2. live' = live \ {Of(t)} /\ quota' = quota - 1
      BY <2>1 DEF DestroySession
    <3>3. live' \subseteq Sessions
      BY <3>2
    <3>4. quota' \in Int
      BY <3>2
    <3>5. QED BY <2>1, <3>1, <3>3, <3>4 DEF DestroySession, shares
  <2>2. CASE DestroyGroup(t)   BY <2>2 DEF DestroyGroup, shares
  <2>3. CASE DestroyModel(t)   BY <2>3 DEF DestroyModel, shares
  <2>4. CASE ReleaseApi(t)     BY <2>4 DEF ReleaseApi
  <2>5. CASE ReleaseModel(t)   BY <2>5 DEF ReleaseModel, nativeVars
  <2>6. CASE ReleaseEngine(t)  BY <2>6 DEF ReleaseEngine, nativeVars
  <2>7. CASE DropPool(t)       BY <2>7 DEF DropPool, nativeVars, shares
  <2>8. QED BY <1>1, <2>1, <2>2, <2>3, <2>4, <2>5, <2>6, <2>7 DEF Drops
<1>2. ASSUME NEW t \in Threads, Reserve(t) PROVE HandlesType'
  <2>1. PICK s \in Sessions :
          making' = [making EXCEPT ![t] = [of |-> s, over |-> quota + 1 > MaxSessions]]
    BY <1>2 DEF Reserve
  <2>2. making' \in [Threads -> [of : Sessions \cup {None}, over : BOOLEAN]]
    BY <2>1
  <2>3. QED BY <1>2, <2>2 DEF Reserve, shares
<1>3. ASSUME NEW t \in Threads, ReserveFails(t) PROVE HandlesType'
  BY <1>3 DEF ReserveFails, GiveBack, Idle, shares
<1>4. ASSUME NEW t \in Threads, Build(t) PROVE HandlesType'
  <2>1. making[t].of \in Sessions
    BY <1>4 DEF Build, Creations
  <2>2. QED BY <1>4, <2>1 DEF Build, Idle
<1>5. CASE Open BY <1>5 DEF Open, Owners
<1>6. CASE Load BY <1>6 DEF Load, Owners, Threads, shares
<1>7. CASE Spawn BY <1>7 DEF Spawn, Threads, nativeVars
<1>8. CASE DropEngine BY <1>8 DEF DropEngine, nativeVars, shares
<1>9. ASSUME NEW s \in Sessions, DropSession(s) PROVE HandlesType'
  BY <1>9 DEF DropSession, nativeVars, shares
<1>10. ASSUME NEW s \in Sessions, AddMember(s) PROVE HandlesType'
  BY <1>10 DEF AddMember, shares
<1>11. ASSUME NEW s \in Sessions, RemoveMember(s) PROVE HandlesType'
  BY <1>11 DEF RemoveMember, shares
<1>12. CASE CreateGroup BY <1>12 DEF CreateGroup, Owners
<1>13. CASE DropGroup BY <1>13 DEF DropGroup, nativeVars, shares
<1>14. CASE Close BY <1>14 DEF Close, nativeVars, shares
<1>15. CASE Exit BY <1>15 DEF Exit, nativeVars, shares
<1>16. CASE UNCHANGED vars BY <1>16 DEF vars, nativeVars, shares
<1>17. QED
  BY <1>1, <1>2, <1>3, <1>4, <1>5, <1>6, <1>7, <1>8, <1>9, <1>10, <1>11, <1>12, <1>13,
     <1>14, <1>15, <1>16 DEF Next

LEMMA DropGoes ==
  ASSUME Ownership, NEW t \in Threads, Drops(t)
  PROVE  Goes(t)
<1>1. HandlesType /\ Creations /\ \A u \in Threads : Script(u)
  BY DEF Ownership, Order
<1>2. Advances(t)
  BY DropTurns
<1>3. todo \in [Threads -> Seq(Steps)] /\ todo' \in [Threads -> Seq(Steps)]
  BY <1>1, <1>2 DEF HandlesType, Advances
<1>4. HandlesType'
  BY <1>1, <1>3, TypesKept DEF Next
<1>5. worker' = worker
  BY DEF Drops, DestroySession, DestroyGroup, DestroyModel, ReleaseApi,
     ReleaseModel, ReleaseEngine, DropPool
<1>6. \A u \in Threads : Script(u)'
  BY <1>1, <1>2, <1>3, <1>5, ScriptsStay DEF Advances
<1>7. \A u \in Threads : Kind(u) /\ Kind(u)'
  BY <1>1, <1>6, Kinds
<1>8. Others(t)
  BY <1>2, OthersStay DEF Others, Advances
<1>9. todo'[t] = <<>> => Rests(t)'
  BY <1>3 DEF Rests, now, Step
<1>10. QED BY <1>1, <1>2, <1>4, <1>6, <1>7, <1>8, <1>9 DEF Goes, Advances, Turn

-----------------------------------------------------------------------------
(* Each step keeps the ownership in order *)

LEMMA Which ==
  ASSUME HandlesType, NEW t \in Threads
  PROVE  /\ DestroySession(t) => now[t].what = "session_destroy" /\ Of(t) = now[t].of
         /\ DestroyGroup(t) => now[t].what = "group_destroy"
         /\ DestroyModel(t) => now[t].what = "model_destroy"
         /\ ReleaseApi(t) => now[t].what = "api" /\ Of(t) = now[t].of
         /\ ReleaseModel(t) => now[t].what = "model" /\ Of(t) = now[t].of
         /\ ReleaseEngine(t) => now[t].what = "engine" /\ Of(t) = now[t].of
         /\ DropPool(t) => now[t].what = "pool"
<1>1. todo \in [Threads -> Seq(Steps)]
  BY DEF HandlesType
<1>2. \A w \in Whats : Begins(t, w) => now[t].what = w /\ Of(t) = now[t].of
  BY <1>1, NowIs DEF Whats, Rests
<1>3. QED
  BY <1>2 DEF Whats, DestroySession, DestroyGroup, DestroyModel, ReleaseApi,
     ReleaseModel, ReleaseEngine, DropPool

LEMMA SessionDestroyed ==
  ASSUME Ownership, NEW t \in Threads, Goes(t), DestroySession(t)
  PROVE  Order'
<1>1. PICK s \in Sessions : At(t, "session_destroy", s) /\ At(t, "api", s)' /\ Of(t) = s
  BY Which DEF Goes, At
<1>2. /\ live' = live \ {s} /\ owner' = [owner EXCEPT ![s] = None]
      /\ UNCHANGED <<library, model, grouped, members, shares, making, worker>>
  BY <1>1 DEF DestroySession
<1>3. /\ Others(t) /\ owner \in [Sessions -> Threads \cup {None}] /\ None \notin Threads
      /\ s \notin Owners /\ "worker" \in Threads
  BY NamesDiffer DEF Goes, HandlesType, Threads
<1>4. SessionsOwned /\ Creations /\ GroupOwned /\ EngineHeld /\ ModelHeld
  BY DEF Ownership, Order
<1>5. SessionsOwned'
  BY <1>1, <1>2, <1>3, <1>4 DEF SessionsOwned, At, Leaving, Others, shares
<1>6. Creations'
  BY <1>1, <1>2, <1>3, <1>4 DEF Creations, At, Rests, Others, shares
<1>7. GroupOwned'
  BY <1>1, <1>2, <1>3, <1>4 DEF GroupOwned, SessionsOwned, Owned, At, Leaving, Owners, Others, shares
<1>8. EngineHeld'
  BY <1>1, <1>2, <1>3, <1>4 DEF EngineHeld, EngineGoes, At, Rests, Owners, Others, shares
<1>9. ModelHeld'
  BY <1>1, <1>2, <1>3, <1>4 DEF ModelHeld, At, Owners, Others, shares
<1>10. QED BY <1>5, <1>6, <1>7, <1>8, <1>9 DEF Order

LEMMA GroupDestroyed ==
  ASSUME Ownership, NEW t \in Threads, Goes(t), DestroyGroup(t)
  PROVE  Order'
<1>1. t = "worker" /\ At(t, "group_destroy", "group") /\ At(t, "api", "group")'
  BY Which, NamesDiffer DEF Goes, At, Owners
<1>2. /\ grouped' = FALSE /\ members' = {}
      /\ UNCHANGED <<library, model, live, quota, shares, owner, making, worker>>
  BY <1>1 DEF DestroyGroup
<1>3. /\ Others(t) /\ owner \in [Sessions -> Threads \cup {None}] /\ None \notin Threads
      /\ \A s \in Sessions : s \notin Owners
      /\ "worker" \in Threads /\ \A u \in Threads : Kind(u)
  BY NamesDiffer DEF Goes, HandlesType, Threads
<1>4. SessionsOwned /\ Creations /\ GroupOwned /\ EngineHeld /\ ModelHeld
  BY DEF Ownership, Order
<1>5. SessionsOwned'
  BY <1>1, <1>2, <1>3, <1>4 DEF SessionsOwned, Kind, Rests, At, Leaving, Owners, Others, shares
<1>6. Creations'
  BY <1>1, <1>2, <1>3, <1>4 DEF Creations, At, Rests, Others, shares
<1>7. GroupOwned'
  BY <1>1, <1>2, <1>3, <1>4 DEF GroupOwned, Owned, At, Leaving, Owners, Others, shares
<1>8. EngineHeld'
  BY <1>1, <1>2, <1>3, <1>4 DEF EngineHeld, EngineGoes, At, Rests, Owners, Others, shares
<1>9. ModelHeld'
  BY <1>1, <1>2, <1>3, <1>4, ZenonT(60) DEF ModelHeld, At, Owners, Others, shares
<1>10. QED BY <1>5, <1>6, <1>7, <1>8, <1>9 DEF Order

LEMMA ModelDestroyed ==
  ASSUME Ownership, NEW t \in Threads, Goes(t), DestroyModel(t)
  PROVE  Order'
<1>1. At(t, "model_destroy", "model") /\ At(t, "api", "model")'
  BY Which, NamesDiffer DEF Goes, At, Owners
<1>2. /\ model' = "destroyed"
      /\ UNCHANGED <<library, live, quota, grouped, members, shares, owner, making, worker>>
  BY <1>1 DEF DestroyModel
<1>3. /\ Others(t) /\ owner \in [Sessions -> Threads \cup {None}] /\ None \notin Threads
      /\ \A s \in Sessions : s \notin Owners
      /\ "worker" \in Threads /\ \A u \in Threads : Kind(u)
  BY NamesDiffer DEF Goes, HandlesType, Threads
<1>4. SessionsOwned /\ Creations /\ GroupOwned /\ EngineHeld /\ ModelHeld
  BY DEF Ownership, Order
<1>5. SessionsOwned'
  BY <1>1, <1>2, <1>3, <1>4 DEF SessionsOwned, ModelHeld, Kind, Rests, At, Leaving, Owners, Others, shares
<1>6. Creations'
  BY <1>1, <1>2, <1>3, <1>4 DEF Creations, EngineHeld, ModelHeld, At, Rests, Others, shares
<1>7. GroupOwned'
  BY <1>1, <1>2, <1>3, <1>4 DEF GroupOwned, Owned, At, Leaving, Owners, Others, shares
<1>8. EngineHeld'
  BY <1>1, <1>2, <1>3, <1>4 DEF EngineHeld, EngineGoes, At, Rests, Owners, Others, shares
<1>9. ModelHeld'
  BY <1>1, <1>2, <1>3, <1>4 DEF ModelHeld, At, Owners, Others, shares
<1>10. QED BY <1>5, <1>6, <1>7, <1>8, <1>9 DEF Order

LEMMA ApiReleased ==
  ASSUME Ownership, NEW t \in Threads, Goes(t), ReleaseApi(t)
  PROVE  Order'
<1>1. PICK x :
        /\ Of(t) = x /\ At(t, "api", x)
        /\ \/ x \in Sessions \cup {"group"} /\ At(t, "model", x)'
           \/ x \in {"model", "runtime"} /\ Rests(t)'
  BY Which, NamesDiffer DEF Goes, At, Owners
<1>2. /\ apiOwners' = apiOwners \ {x}
      /\ library' = IF apiOwners' = {} THEN "unloaded" ELSE library
      /\ UNCHANGED <<model, live, quota, grouped, members, modelOwners, engineHolders,
                      owner, making, worker>>
  BY <1>1 DEF ReleaseApi
<1>3. /\ Others(t) /\ owner \in [Sessions -> Threads \cup {None}] /\ None \notin Threads
      /\ \A s \in Sessions : s \notin Owners
      /\ "worker" \in Threads /\ \A u \in Threads : Kind(u)
  BY NamesDiffer DEF Goes, HandlesType, Threads
<1>4. SessionsOwned /\ Creations /\ GroupOwned /\ EngineHeld /\ ModelHeld
  BY DEF Ownership, Order
<1>5. SessionsOwned'
  BY <1>1, <1>2, <1>3, <1>4 DEF SessionsOwned, Rests, At, Leaving, Owners, Others, shares
<1>6. Creations'
  BY <1>1, <1>2, <1>3, <1>4 DEF Creations, At, Rests, Others, shares
<1>7. GroupOwned'
  BY <1>1, <1>2, <1>3, <1>4 DEF GroupOwned, Rests, Owned, At, Leaving, Owners, Others, shares
<1>8. EngineHeld'
  BY <1>1, <1>2, <1>3, <1>4 DEF EngineHeld, EngineGoes, At, Rests, Owners, Others, shares
<1>9. ModelHeld'
  BY <1>1, <1>2, <1>3, <1>4 DEF ModelHeld, Rests, At, Owners, Others, shares
<1>10. QED BY <1>5, <1>6, <1>7, <1>8, <1>9 DEF Order

LEMMA ModelReleased ==
  ASSUME Ownership, NEW t \in Threads, Goes(t), ReleaseModel(t)
  PROVE  Order'
<1>1. PICK x \in Sessions \cup {"group", "engine"} :
        /\ Of(t) = x /\ At(t, "model", x)
        /\ IF modelOwners' = {} THEN At(t, "model_destroy", "model")'
           ELSE \/ Rests(t)'
                \/ t = "worker" /\ worker = "gone" /\ x # "engine" /\ At(t, "pool", "worker")'
  BY Which, NamesDiffer DEF Goes, At, Owners
<1>2. /\ modelOwners' = modelOwners \ {x}
      /\ UNCHANGED <<nativeVars, apiOwners, engineHolders, owner, making, worker>>
  BY <1>1 DEF ReleaseModel
<1>3. /\ Others(t) /\ owner \in [Sessions -> Threads \cup {None}] /\ None \notin Threads
      /\ \A s \in Sessions : s \notin Owners
      /\ "worker" \in Threads /\ \A u \in Threads : Kind(u)
  BY NamesDiffer DEF Goes, HandlesType, Threads
<1>4. SessionsOwned /\ Creations /\ GroupOwned /\ EngineHeld /\ ModelHeld
  BY DEF Ownership, Order
<1>5. SessionsOwned'
  BY <1>1, <1>2, <1>3, <1>4 DEF SessionsOwned, Rests, nativeVars, At, Leaving, Owners, Others, shares
<1>6. Creations'
  BY <1>1, <1>2, <1>3, <1>4 DEF Creations, SessionsOwned, EngineHeld, nativeVars, At, Rests, Others, shares
<1>7. GroupOwned'
  BY <1>1, <1>2, <1>3, <1>4 DEF GroupOwned, Kind, Rests, nativeVars, Owned, At, Leaving, Owners, Others, shares
<1>8. EngineHeld'
  BY <1>1, <1>2, <1>3, <1>4 DEF EngineHeld, Leaving, SessionsOwned, nativeVars, EngineGoes, At, Rests, Owners, Others, shares
<1>9. ModelHeld'
  BY <1>1, <1>2, <1>3, <1>4 DEF ModelHeld, Rests, nativeVars, SessionsOwned, GroupOwned, EngineHeld, Leaving, Kind, At, Owners, Others, shares
<1>10. QED BY <1>5, <1>6, <1>7, <1>8, <1>9 DEF Order

LEMMA EngineReleased ==
  ASSUME Ownership, NEW t \in Threads, Goes(t), ReleaseEngine(t)
  PROVE  Order'
<1>1. /\ Of(t) = t /\ At(t, "engine", t)
      /\ IF engineHolders' = {} THEN At(t, "model", "engine")' ELSE Rests(t)'
  BY Which, NamesDiffer DEF Goes, At, Owners
<1>2. /\ engineHolders' = engineHolders \ {t}
      /\ UNCHANGED <<nativeVars, apiOwners, modelOwners, owner, making, worker>>
  BY <1>1 DEF ReleaseEngine
<1>3. /\ Others(t) /\ owner \in [Sessions -> Threads \cup {None}] /\ None \notin Threads
      /\ \A s \in Sessions : s \notin Owners
      /\ "worker" \in Threads /\ \A u \in Threads : Kind(u)
  BY NamesDiffer DEF Goes, HandlesType, Threads
<1>4. SessionsOwned /\ Creations /\ GroupOwned /\ EngineHeld /\ ModelHeld
  BY DEF Ownership, Order
<1>5. SessionsOwned'
  BY <1>1, <1>2, <1>3, <1>4 DEF SessionsOwned, Kind, Rests, nativeVars, EngineHeld, At, Leaving, Owners, Others, shares
<1>6. Creations'
  BY <1>1, <1>2, <1>3, <1>4 DEF Creations, nativeVars, At, Rests, Others, shares
<1>7. GroupOwned'
  BY <1>1, <1>2, <1>3, <1>4 DEF GroupOwned, Rests, nativeVars, Owned, At, Leaving, Owners, Others, shares
<1>8. EngineHeld'
  BY <1>1, <1>2, <1>3, <1>4 DEF EngineHeld, Kind, nativeVars, EngineGoes, At, Rests, Owners, Others, shares
<1>9. ModelHeld'
  BY <1>1, <1>2, <1>3, <1>4 DEF ModelHeld, Rests, nativeVars, At, Owners, Others, shares
<1>10. QED BY <1>5, <1>6, <1>7, <1>8, <1>9 DEF Order

LEMMA PoolDropped ==
  ASSUME Ownership, NEW t \in Threads, Goes(t), DropPool(t)
  PROVE  Order'
<1>1. /\ t = "worker" /\ worker = "gone" /\ At(t, "pool", "worker")
      /\ IF Owned(t) = {} THEN At(t, "engine", t)'
         ELSE \E s \in Owned(t) : At(t, "session_destroy", s)'
  BY Which, NamesDiffer DEF Goes, At, Owners
<1>2. UNCHANGED <<nativeVars, shares, owner, making, worker>>
  BY <1>1 DEF DropPool
<1>3. /\ Others(t) /\ owner \in [Sessions -> Threads \cup {None}] /\ None \notin Threads
      /\ \A s \in Sessions : s \notin Owners
      /\ "worker" \in Threads /\ \A u \in Threads : Kind(u)
  BY NamesDiffer DEF Goes, HandlesType, Threads
<1>4. SessionsOwned /\ Creations /\ GroupOwned /\ EngineHeld /\ ModelHeld
  BY DEF Ownership, Order
<1>5. SessionsOwned'
  BY <1>1, <1>2, <1>3, <1>4 DEF SessionsOwned, GroupOwned, Owned, nativeVars, At, Leaving, Owners, Others, shares
<1>6. Creations'
  BY <1>1, <1>2, <1>3, <1>4 DEF Creations, nativeVars, At, Rests, Others, shares
<1>7. GroupOwned'
  BY <1>1, <1>2, <1>3, <1>4 DEF GroupOwned, nativeVars, Owned, At, Leaving, Owners, Others, shares
<1>8. EngineHeld'
  BY <1>1, <1>2, <1>3, <1>4 DEF EngineHeld, nativeVars, Threads, Owned, EngineGoes, At, Rests, Owners, Others, shares
<1>9. ModelHeld'
  BY <1>1, <1>2, <1>3, <1>4 DEF ModelHeld, nativeVars, Owned, At, Owners, Others, shares
<1>10. QED BY <1>5, <1>6, <1>7, <1>8, <1>9 DEF Order

\* What stays when no thread turns to another step.
LEMMA Still ==
  ASSUME HandlesType, Creations, [Next]_vars, todo' = todo,
         worker' = "gone" <=> worker = "gone", \A u \in Threads : Script(u)
  PROVE  HandlesType' /\ now' = now /\ \A u \in Threads : Script(u)'
<1>1. HandlesType'
  <2>1. todo' \in [Threads -> Seq(Steps)]
    BY DEF HandlesType
  <2>2. QED BY <2>1, TypesKept
<1>2. now' = now
  BY DEF now
<1>3. \A u \in Threads : After(u)' = After(u)
  BY DEF After
<1>4. ASSUME NEW u \in Threads PROVE Script(u)'
  <2>1. Script(u) /\ After(u)' = After(u) /\ todo'[u] = todo[u] /\ now'[u] = now[u]
    BY <1>2, <1>3
  <2>2. CASE worker = "gone"
    <3>1. worker' = worker
      BY <2>2
    <3>2. todo \in [Threads -> Seq(Steps)]
      BY DEF HandlesType
    <3>3. QED BY <2>1, <3>1, <3>2, ScriptsStay
  <2>3. CASE worker # "gone"
    <3>1. worker # "gone" /\ worker' # "gone"
      BY <2>3
    <3>2. CASE todo[u] = <<>>
      BY <2>1, <3>2 DEF Script
    <3>3. ASSUME NEW s \in Sessions,
                 \/ At(u, "session_destroy", s)
                      /\ Tail(todo[u]) = <<Step("api", s), Step("model", s)>> \o After(u)
                 \/ At(u, "api", s) /\ Tail(todo[u]) = <<Step("model", s)>> \o After(u)
                 \/ At(u, "model", s) /\ Tail(todo[u]) = After(u)
          PROVE  Script(u)'
      <4>1. CASE At(u, "session_destroy", s)
                   /\ Tail(todo[u]) = <<Step("api", s), Step("model", s)>> \o After(u)
        <5>1. /\ At(u, "session_destroy", s)'
              /\ Tail(todo'[u]) = <<Step("api", s), Step("model", s)>> \o After(u)'
          BY <2>1, <4>1 DEF At
        <5>2. QED BY <5>1, Zenon DEF Script
      <4>2. CASE At(u, "api", s) /\ Tail(todo[u]) = <<Step("model", s)>> \o After(u)
        <5>1. At(u, "api", s)' /\ Tail(todo'[u]) = <<Step("model", s)>> \o After(u)'
          BY <2>1, <4>2 DEF At
        <5>2. QED BY <5>1, Zenon DEF Script
      <4>3. CASE At(u, "model", s) /\ Tail(todo[u]) = After(u)
        BY <2>1, <4>3, Zenon DEF Script, At
      <4>4. QED BY <3>3, <4>1, <4>2, <4>3
    <3>4. CASE /\ u = "worker"
               /\ \/ At(u, "group_destroy", "group")
                       /\ Tail(todo[u]) = <<Step("api", "group"), Step("model", "group")>> \o After(u)
                  \/ At(u, "api", "group") /\ Tail(todo[u]) = <<Step("model", "group")>> \o After(u)
                  \/ At(u, "model", "group") /\ Tail(todo[u]) = After(u)
      BY <2>1, <3>4, Zenon DEF Script, At
    <3>5. CASE \/ At(u, "engine", u) /\ u # "worker" /\ Tail(todo[u]) = <<>>
               \/ At(u, "model", "engine") /\ Tail(todo[u]) = <<>>
               \/ At(u, "model_destroy", "model") /\ Tail(todo[u]) = <<Step("api", "model")>>
               \/ At(u, "api", "model") /\ Tail(todo[u]) = <<>>
               \/ u = "caller" /\ At(u, "api", "runtime") /\ Tail(todo[u]) = <<>>
      BY <2>1, <3>5, Zenon DEF Script, At
    <3>6. QED BY <2>1, <3>1, <3>2, <3>3, <3>4, <3>5, Zenon DEF Script
  <2>4. QED BY <2>2, <2>3
<1>5. QED BY <1>1, <1>2, <1>4

\* A thread between two operations rests.
LEMMA Freed ==
  ASSUME HandlesType, NEW t \in Threads, Free(t)
  PROVE  Rests(t) /\ making[t] = Idle
<1>1. todo \in [Threads -> Seq(Steps)]
  BY DEF HandlesType
<1>2. QED BY <1>1, NowIs DEF Free

LEMMA Reserved ==
  ASSUME Ownership, now' = now, NEW t \in Threads, Reserve(t)
  PROVE  Order'
<1>1. PICK s \in Sessions :
        /\ s \notin live /\ s \notin modelOwners
        /\ \A u \in Threads : making[u].of # s
        /\ making' = [making EXCEPT ![t] = [of |-> s, over |-> quota + 1 > MaxSessions]]
  BY Freed DEF Ownership, Reserve
<1>2. /\ Rests(t) /\ t \in engineHolders
      /\ UNCHANGED <<library, model, live, grouped, members, shares, owner, worker>>
  BY <1>1, Freed DEF Ownership, Reserve
<1>3. /\ owner \in [Sessions -> Threads \cup {None}] /\ None \notin Threads
      /\ making \in [Threads -> [of : Sessions \cup {None}, over : BOOLEAN]]
      /\ engineHolders \subseteq Threads
      /\ \A z \in Sessions : z \notin Owners /\ z # None
      /\ Threads = {"caller", "worker"} /\ "group" \in Owners
  BY NamesDiffer DEF Ownership, HandlesType, Threads, Owners
<1>4. SessionsOwned /\ Creations /\ GroupOwned /\ EngineHeld /\ ModelHeld
  BY DEF Ownership, Order
<1>5. SessionsOwned'
  BY <1>1, <1>2, <1>3, <1>4 DEF SessionsOwned, At, Leaving, shares
<1>6. Creations'
  <2>1. \A u \in Threads : making'[u] # Idle =>
          /\ u \in engineHolders' /\ Rests(u)'
          /\ making'[u].of \in Sessions \ (live' \cup modelOwners')
    BY <1>1, <1>2, <1>3, <1>4 DEF Creations, Idle, Rests, shares
  <2>2. \A v, u \in Threads : making'[v] # Idle /\ making'[v].of = making'[u].of => v = u
    BY <1>1, <1>2, <1>3, <1>4 DEF Creations, Idle, shares
  <2>3. QED BY <2>1, <2>2 DEF Creations
<1>7. GroupOwned'
  BY <1>1, <1>2, <1>3, <1>4 DEF GroupOwned, Owned, At, Leaving, shares
<1>8. EngineHeld'
  BY <1>1, <1>2, <1>3, <1>4 DEF EngineHeld, EngineGoes, At, Rests, shares
<1>9. ModelHeld'
  BY <1>1, <1>2, <1>3, <1>4 DEF ModelHeld, At, shares
<1>10. QED BY <1>5, <1>6, <1>7, <1>8, <1>9 DEF Order

LEMMA Refused ==
  ASSUME Ownership, now' = now, NEW t \in Threads, ReserveFails(t)
  PROVE  Order'
<1>1. making' = [making EXCEPT ![t] = Idle]
  BY Freed DEF Ownership, ReserveFails
<1>2. UNCHANGED <<library, model, live, grouped, members, shares, owner, worker>>
  BY <1>1, Freed DEF Ownership, ReserveFails
<1>3. /\ owner \in [Sessions -> Threads \cup {None}] /\ None \notin Threads
      /\ making \in [Threads -> [of : Sessions \cup {None}, over : BOOLEAN]]
      /\ engineHolders \subseteq Threads
      /\ \A z \in Sessions : z \notin Owners /\ z # None
      /\ Threads = {"caller", "worker"} /\ "group" \in Owners
  BY NamesDiffer DEF Ownership, HandlesType, Threads, Owners
<1>4. SessionsOwned /\ Creations /\ GroupOwned /\ EngineHeld /\ ModelHeld
  BY DEF Ownership, Order
<1>5. SessionsOwned'
  BY <1>1, <1>2, <1>3, <1>4 DEF SessionsOwned, At, Leaving, shares
<1>6. Creations'
  <2>1. \A u \in Threads : making'[u] # Idle =>
          /\ u \in engineHolders' /\ Rests(u)'
          /\ making'[u].of \in Sessions \ (live' \cup modelOwners')
    BY <1>1, <1>2, <1>3, <1>4 DEF Creations, Idle, Rests, shares
  <2>2. \A v, u \in Threads : making'[v] # Idle /\ making'[v].of = making'[u].of => v = u
    BY <1>1, <1>2, <1>3, <1>4 DEF Creations, Idle, shares
  <2>3. QED BY <2>1, <2>2 DEF Creations
<1>7. GroupOwned'
  BY <1>1, <1>2, <1>3, <1>4 DEF GroupOwned, Owned, At, Leaving, shares
<1>8. EngineHeld'
  BY <1>1, <1>2, <1>3, <1>4 DEF EngineHeld, EngineGoes, At, Rests, shares
<1>9. ModelHeld'
  BY <1>1, <1>2, <1>3, <1>4 DEF ModelHeld, At, shares
<1>10. QED BY <1>5, <1>6, <1>7, <1>8, <1>9 DEF Order

LEMMA Built ==
  ASSUME Ownership, now' = now, NEW t \in Threads, Build(t)
  PROVE  Order'
<1>1. PICK s \in Sessions :
        /\ s = making[t].of /\ s \notin live \cup modelOwners /\ t \in engineHolders /\ Rests(t)
  BY Freed DEF Ownership, Order, Creations, Build
<1>2. /\ live' = live \cup {s} /\ owner' = [owner EXCEPT ![s] = t]
      /\ apiOwners' = apiOwners \cup {s} /\ modelOwners' = modelOwners \cup {s}
      /\ making[t] # Idle /\ making' = [making EXCEPT ![t] = Idle]
      /\ UNCHANGED <<library, model, grouped, members, engineHolders, worker>>
  BY <1>1, Freed DEF Ownership, Build
<1>3. /\ owner \in [Sessions -> Threads \cup {None}] /\ None \notin Threads
      /\ making \in [Threads -> [of : Sessions \cup {None}, over : BOOLEAN]]
      /\ engineHolders \subseteq Threads
      /\ \A z \in Sessions : z \notin Owners /\ z # None
      /\ Threads = {"caller", "worker"} /\ "group" \in Owners
  BY NamesDiffer DEF Ownership, HandlesType, Threads, Owners
<1>4. SessionsOwned /\ Creations /\ GroupOwned /\ EngineHeld /\ ModelHeld
  BY DEF Ownership, Order
<1>5. SessionsOwned'
  BY <1>1, <1>2, <1>3, <1>4 DEF SessionsOwned, At, Leaving, shares
<1>6. Creations'
  <2>1. \A u \in Threads : making'[u] # Idle =>
          /\ u \in engineHolders' /\ Rests(u)'
          /\ making'[u].of \in Sessions \ (live' \cup modelOwners')
    BY <1>1, <1>2, <1>3, <1>4 DEF Creations, Idle, Rests, shares
  <2>2. \A v, u \in Threads : making'[v] # Idle /\ making'[v].of = making'[u].of => v = u
    BY <1>1, <1>2, <1>3, <1>4 DEF Creations, Idle, shares
  <2>3. QED BY <2>1, <2>2 DEF Creations
<1>7. GroupOwned'
  BY <1>1, <1>2, <1>3, <1>4 DEF GroupOwned, SessionsOwned, Owned, At, Leaving, shares
<1>8. EngineHeld'
  BY <1>1, <1>2, <1>3, <1>4 DEF EngineHeld, EngineGoes, At, Rests, shares
<1>9. ModelHeld'
  BY <1>1, <1>2, <1>3, <1>4 DEF ModelHeld, EngineHeld, Idle, At, shares
<1>10. QED BY <1>5, <1>6, <1>7, <1>8, <1>9 DEF Order

LEMMA Opened ==
  ASSUME Ownership, now' = now, Open
  PROVE  Order'
<1>1. library = "closed" /\ library' = "loaded"
  BY Freed DEF Ownership, Open
<1>2. /\ apiOwners' = {"runtime"}
      /\ UNCHANGED <<model, live, grouped, members, modelOwners, engineHolders, owner,
                      making, worker>>
  BY <1>1, Freed DEF Ownership, Open
<1>3. /\ owner \in [Sessions -> Threads \cup {None}] /\ None \notin Threads
      /\ making \in [Threads -> [of : Sessions \cup {None}, over : BOOLEAN]]
      /\ engineHolders \subseteq Threads
      /\ \A z \in Sessions : z \notin Owners /\ z # None
      /\ Threads = {"caller", "worker"} /\ "group" \in Owners
  BY NamesDiffer DEF Ownership, HandlesType, Threads, Owners
<1>4. SessionsOwned /\ Creations /\ GroupOwned /\ EngineHeld /\ ModelHeld
  BY DEF Ownership, Order
<1>5. SessionsOwned'
  BY <1>1, <1>2, <1>3, <1>4 DEF SessionsOwned, At, Leaving, shares
<1>6. Creations'
  BY <1>1, <1>2, <1>3, <1>4 DEF Creations, At, Rests, shares
<1>7. GroupOwned'
  BY <1>1, <1>2, <1>3, <1>4 DEF GroupOwned, Owned, At, Leaving, shares
<1>8. EngineHeld'
  BY <1>1, <1>2, <1>3, <1>4 DEF EngineHeld, EngineGoes, At, Rests, shares
<1>9. ModelHeld'
  BY <1>1, <1>2, <1>3, <1>4 DEF ModelHeld, At, shares
<1>10. QED BY <1>5, <1>6, <1>7, <1>8, <1>9 DEF Order

LEMMA Spawned ==
  ASSUME Ownership, now' = now, Spawn
  PROVE  Order'
<1>1. /\ worker = "none" /\ worker' = "running" /\ Rests("caller") /\ making["caller"] = Idle
      /\ "caller" \in engineHolders
      /\ engineHolders' = {"worker"} \/ engineHolders' = {"caller", "worker"}
  BY Freed DEF Ownership, Threads, Spawn
<1>2. UNCHANGED <<nativeVars, apiOwners, modelOwners, owner, making>>
  BY <1>1, Freed DEF Ownership, Spawn
<1>3. /\ owner \in [Sessions -> Threads \cup {None}] /\ None \notin Threads
      /\ making \in [Threads -> [of : Sessions \cup {None}, over : BOOLEAN]]
      /\ engineHolders \subseteq Threads
      /\ \A z \in Sessions : z \notin Owners /\ z # None
      /\ Threads = {"caller", "worker"} /\ "group" \in Owners
  BY NamesDiffer DEF Ownership, HandlesType, Threads, Owners
<1>4. SessionsOwned /\ Creations /\ GroupOwned /\ EngineHeld /\ ModelHeld
  BY DEF Ownership, Order
<1>5. SessionsOwned'
  BY <1>1, <1>2, <1>3, <1>4 DEF SessionsOwned, nativeVars, At, Leaving, shares
<1>6. Creations'
  BY <1>1, <1>2, <1>3, <1>4 DEF Creations, EngineHeld, nativeVars, At, Rests, shares
<1>7. GroupOwned'
  BY <1>1, <1>2, <1>3, <1>4 DEF GroupOwned, nativeVars, Owned, At, Leaving, shares
<1>8. EngineHeld'
  BY <1>1, <1>2, <1>3, <1>4 DEF EngineHeld, nativeVars, EngineGoes, At, Rests, shares
<1>9. ModelHeld'
  BY <1>1, <1>2, <1>3, <1>4 DEF ModelHeld, nativeVars, At, shares
<1>10. QED BY <1>5, <1>6, <1>7, <1>8, <1>9 DEF Order

LEMMA GroupCreated ==
  ASSUME Ownership, now' = now, CreateGroup
  PROVE  Order'
<1>1. /\ worker \in {"running", "closing"} /\ Rests("worker") /\ ~ grouped
  BY Freed DEF Ownership, Threads, CreateGroup, Running
<1>2. /\ grouped' = TRUE
      /\ apiOwners' = apiOwners \cup {"group"} /\ modelOwners' = modelOwners \cup {"group"}
      /\ UNCHANGED <<library, model, live, members, engineHolders, owner, making, worker>>
  BY <1>1, Freed DEF Ownership, CreateGroup, Running
<1>3. /\ owner \in [Sessions -> Threads \cup {None}] /\ None \notin Threads
      /\ making \in [Threads -> [of : Sessions \cup {None}, over : BOOLEAN]]
      /\ engineHolders \subseteq Threads
      /\ \A z \in Sessions : z \notin Owners /\ z # None
      /\ Threads = {"caller", "worker"} /\ "group" \in Owners
  BY NamesDiffer DEF Ownership, HandlesType, Threads, Owners
<1>4. SessionsOwned /\ Creations /\ GroupOwned /\ EngineHeld /\ ModelHeld
  BY DEF Ownership, Order
<1>5. SessionsOwned'
  BY <1>1, <1>2, <1>3, <1>4 DEF SessionsOwned, At, Leaving, shares
<1>6. Creations'
  BY <1>1, <1>2, <1>3, <1>4 DEF Creations, At, Rests, shares
<1>7. GroupOwned'
  BY <1>1, <1>2, <1>3, <1>4 DEF GroupOwned, Rests, Owned, At, Leaving, shares
<1>8. EngineHeld'
  BY <1>1, <1>2, <1>3, <1>4 DEF EngineHeld, EngineGoes, At, Rests, shares
<1>9. ModelHeld'
  BY <1>1, <1>2, <1>3, <1>4 DEF ModelHeld, EngineHeld, At, shares
<1>10. QED BY <1>5, <1>6, <1>7, <1>8, <1>9 DEF Order

LEMMA MemberAdded ==
  ASSUME Ownership, now' = now, NEW s \in Sessions, AddMember(s)
  PROVE  Order'
<1>1. /\ Rests("worker") /\ grouped /\ owner[s] = "worker" /\ members' = members \cup {s}
  BY Freed DEF Ownership, Threads, Owned, AddMember, Running
<1>2. UNCHANGED <<library, model, live, grouped, shares, owner, making, worker>>
  BY <1>1, Freed DEF Ownership, AddMember, Running
<1>3. /\ owner \in [Sessions -> Threads \cup {None}] /\ None \notin Threads
      /\ making \in [Threads -> [of : Sessions \cup {None}, over : BOOLEAN]]
      /\ engineHolders \subseteq Threads
      /\ \A z \in Sessions : z \notin Owners /\ z # None
      /\ Threads = {"caller", "worker"} /\ "group" \in Owners
  BY NamesDiffer DEF Ownership, HandlesType, Threads, Owners
<1>4. SessionsOwned /\ Creations /\ GroupOwned /\ EngineHeld /\ ModelHeld
  BY DEF Ownership, Order
<1>5. SessionsOwned'
  BY <1>1, <1>2, <1>3, <1>4 DEF SessionsOwned, Rests, At, Leaving, shares
<1>6. Creations'
  BY <1>1, <1>2, <1>3, <1>4 DEF Creations, At, Rests, shares
<1>7. GroupOwned'
  BY <1>1, <1>2, <1>3, <1>4 DEF GroupOwned, Owned, At, Leaving, shares
<1>8. EngineHeld'
  BY <1>1, <1>2, <1>3, <1>4 DEF EngineHeld, EngineGoes, At, Rests, shares
<1>9. ModelHeld'
  BY <1>1, <1>2, <1>3, <1>4 DEF ModelHeld, At, shares
<1>10. QED BY <1>5, <1>6, <1>7, <1>8, <1>9 DEF Order

LEMMA MemberRemoved ==
  ASSUME Ownership, now' = now, NEW s \in Sessions, RemoveMember(s)
  PROVE  Order'
<1>1. members' = members \ {s}
  BY Freed DEF Ownership, RemoveMember
<1>2. UNCHANGED <<library, model, live, grouped, shares, owner, making, worker>>
  BY <1>1, Freed DEF Ownership, RemoveMember
<1>3. /\ owner \in [Sessions -> Threads \cup {None}] /\ None \notin Threads
      /\ making \in [Threads -> [of : Sessions \cup {None}, over : BOOLEAN]]
      /\ engineHolders \subseteq Threads
      /\ \A z \in Sessions : z \notin Owners /\ z # None
      /\ Threads = {"caller", "worker"} /\ "group" \in Owners
  BY NamesDiffer DEF Ownership, HandlesType, Threads, Owners
<1>4. SessionsOwned /\ Creations /\ GroupOwned /\ EngineHeld /\ ModelHeld
  BY DEF Ownership, Order
<1>5. SessionsOwned'
  BY <1>1, <1>2, <1>3, <1>4 DEF SessionsOwned, At, Leaving, shares
<1>6. Creations'
  BY <1>1, <1>2, <1>3, <1>4 DEF Creations, At, Rests, shares
<1>7. GroupOwned'
  BY <1>1, <1>2, <1>3, <1>4 DEF GroupOwned, Owned, At, Leaving, shares
<1>8. EngineHeld'
  BY <1>1, <1>2, <1>3, <1>4 DEF EngineHeld, EngineGoes, At, Rests, shares
<1>9. ModelHeld'
  BY <1>1, <1>2, <1>3, <1>4 DEF ModelHeld, At, shares
<1>10. QED BY <1>5, <1>6, <1>7, <1>8, <1>9 DEF Order

LEMMA Closed ==
  ASSUME Ownership, now' = now, Close
  PROVE  Order'
<1>1. worker = "running" /\ worker' = "closing"
  BY Freed DEF Ownership, Close
<1>2. UNCHANGED <<nativeVars, shares, owner, making>>
  BY <1>1, Freed DEF Ownership, Close
<1>3. /\ owner \in [Sessions -> Threads \cup {None}] /\ None \notin Threads
      /\ making \in [Threads -> [of : Sessions \cup {None}, over : BOOLEAN]]
      /\ engineHolders \subseteq Threads
      /\ \A z \in Sessions : z \notin Owners /\ z # None
      /\ Threads = {"caller", "worker"} /\ "group" \in Owners
  BY NamesDiffer DEF Ownership, HandlesType, Threads, Owners
<1>4. SessionsOwned /\ Creations /\ GroupOwned /\ EngineHeld /\ ModelHeld
  BY DEF Ownership, Order
<1>5. SessionsOwned'
  BY <1>1, <1>2, <1>3, <1>4 DEF SessionsOwned, nativeVars, At, Leaving, shares
<1>6. Creations'
  BY <1>1, <1>2, <1>3, <1>4 DEF Creations, nativeVars, At, Rests, shares
<1>7. GroupOwned'
  BY <1>1, <1>2, <1>3, <1>4 DEF GroupOwned, nativeVars, Owned, At, Leaving, shares
<1>8. EngineHeld'
  BY <1>1, <1>2, <1>3, <1>4 DEF EngineHeld, nativeVars, EngineGoes, At, Rests, shares
<1>9. ModelHeld'
  BY <1>1, <1>2, <1>3, <1>4 DEF ModelHeld, nativeVars, At, shares
<1>10. QED BY <1>5, <1>6, <1>7, <1>8, <1>9 DEF Order

LEMMA Unchanged ==
  ASSUME Ownership, now' = now, UNCHANGED vars
  PROVE  Order'
<1>1. UNCHANGED <<live, members, grouped>>
  BY Freed DEF Ownership, vars, nativeVars
<1>2. UNCHANGED <<library, model, shares, owner, making, worker>>
  BY <1>1, Freed DEF Ownership, vars, nativeVars
<1>3. /\ owner \in [Sessions -> Threads \cup {None}] /\ None \notin Threads
      /\ making \in [Threads -> [of : Sessions \cup {None}, over : BOOLEAN]]
      /\ engineHolders \subseteq Threads
      /\ \A z \in Sessions : z \notin Owners /\ z # None
      /\ Threads = {"caller", "worker"} /\ "group" \in Owners
  BY NamesDiffer DEF Ownership, HandlesType, Threads, Owners
<1>4. SessionsOwned /\ Creations /\ GroupOwned /\ EngineHeld /\ ModelHeld
  BY DEF Ownership, Order
<1>5. SessionsOwned'
  BY <1>1, <1>2, <1>3, <1>4 DEF SessionsOwned, At, Leaving, shares
<1>6. Creations'
  BY <1>1, <1>2, <1>3, <1>4 DEF Creations, At, Rests, shares
<1>7. GroupOwned'
  BY <1>1, <1>2, <1>3, <1>4 DEF GroupOwned, Owned, At, Leaving, shares
<1>8. EngineHeld'
  BY <1>1, <1>2, <1>3, <1>4 DEF EngineHeld, EngineGoes, At, Rests, shares
<1>9. ModelHeld'
  BY <1>1, <1>2, <1>3, <1>4 DEF ModelHeld, At, shares
<1>10. QED BY <1>5, <1>6, <1>7, <1>8, <1>9 DEF Order

LEMMA SessionDropped ==
  ASSUME Ownership, NEW s \in Sessions, DropSession(s)
  PROVE  Order'
<1>1. /\ Begun("caller", "session_destroy", s) /\ At("caller", "session_destroy", s)'
      /\ Rests("caller") /\ making["caller"] = Idle /\ owner[s] = "caller"
  BY DropsBegin, Freed DEF Begun, Ownership, Threads, DropSession
<1>2. UNCHANGED <<nativeVars, shares, owner, making, worker>>
  BY <1>1 DEF DropSession
<1>3. /\ \A u \in Threads \ {"caller"} : now'[u] = now[u]
      /\ owner \in [Sessions -> Threads \cup {None}] /\ None \notin Threads
      /\ \A z \in Sessions : z \notin {"group", "engine", "model", "runtime"} /\ z # None
      /\ Threads = {"caller", "worker"}
  BY <1>1, OthersStay, DropsBegin, NamesDiffer DEF Begun, Ownership, HandlesType, Threads, Owners
<1>4. SessionsOwned /\ Creations /\ GroupOwned /\ EngineHeld /\ ModelHeld
  BY DEF Ownership, Order
<1>5. SessionsOwned'
  BY <1>1, <1>2, <1>3, <1>4 DEF SessionsOwned, GroupOwned, Owned, At, Rests, Leaving, shares, nativeVars
<1>6. Creations'
  BY <1>1, <1>2, <1>3, <1>4 DEF Creations, At, Rests, shares, nativeVars
<1>7. GroupOwned'
  BY <1>1, <1>2, <1>3, <1>4 DEF GroupOwned, Owned, At, Rests, Leaving, shares, nativeVars
<1>8. EngineHeld'
  BY <1>1, <1>2, <1>3, <1>4 DEF EngineHeld, EngineGoes, At, Rests, shares, nativeVars
<1>9. ModelHeld'
  BY <1>1, <1>2, <1>3, <1>4 DEF ModelHeld, At, Rests, shares, nativeVars
<1>10. QED BY <1>5, <1>6, <1>7, <1>8, <1>9 DEF Order

LEMMA EngineDropped ==
  ASSUME Ownership, DropEngine
  PROVE  Order'
<1>1. /\ Begun("caller", "engine", "caller") /\ At("caller", "engine", "caller")'
      /\ Rests("caller") /\ making["caller"] = Idle /\ "caller" \in engineHolders
  BY DropsBegin, Freed DEF Begun, Ownership, Threads, DropEngine
<1>2. UNCHANGED <<nativeVars, shares, owner, making, worker>>
  BY <1>1 DEF DropEngine
<1>3. /\ \A u \in Threads \ {"caller"} : now'[u] = now[u]
      /\ owner \in [Sessions -> Threads \cup {None}] /\ None \notin Threads
      /\ \A z \in Sessions : z \notin {"group", "engine", "model", "runtime"} /\ z # None
      /\ Threads = {"caller", "worker"}
  BY <1>1, OthersStay, DropsBegin, NamesDiffer DEF Begun, Ownership, HandlesType, Threads, Owners
<1>4. SessionsOwned /\ Creations /\ GroupOwned /\ EngineHeld /\ ModelHeld
  BY DEF Ownership, Order
<1>5. SessionsOwned'
  BY <1>1, <1>2, <1>3, <1>4 DEF SessionsOwned, At, Rests, Leaving, shares, nativeVars
<1>6. Creations'
  BY <1>1, <1>2, <1>3, <1>4 DEF Creations, At, Rests, shares, nativeVars
<1>7. GroupOwned'
  BY <1>1, <1>2, <1>3, <1>4 DEF GroupOwned, Owned, At, Rests, Leaving, shares, nativeVars
<1>8. EngineHeld'
  BY <1>1, <1>2, <1>3, <1>4 DEF EngineHeld, EngineGoes, At, Rests, shares, nativeVars
<1>9. ModelHeld'
  BY <1>1, <1>2, <1>3, <1>4 DEF ModelHeld, At, Rests, shares, nativeVars
<1>10. QED BY <1>5, <1>6, <1>7, <1>8, <1>9 DEF Order

LEMMA GroupDropped ==
  ASSUME Ownership, DropGroup
  PROVE  Order'
<1>1. /\ Begun("worker", "group_destroy", "group") /\ At("worker", "group_destroy", "group")'
      /\ Rests("worker") /\ making["worker"] = Idle /\ grouped
      /\ worker \in {"running", "closing"}
  BY DropsBegin, Freed DEF Begun, Ownership, Threads, DropGroup, Running
<1>2. UNCHANGED <<nativeVars, shares, owner, making, worker>>
  BY <1>1 DEF DropGroup, Running
<1>3. /\ \A u \in Threads \ {"worker"} : now'[u] = now[u]
      /\ owner \in [Sessions -> Threads \cup {None}] /\ None \notin Threads
      /\ \A z \in Sessions : z \notin {"group", "engine", "model", "runtime"} /\ z # None
      /\ Threads = {"caller", "worker"}
  BY <1>1, OthersStay, DropsBegin, NamesDiffer DEF Begun, Ownership, HandlesType, Threads, Owners
<1>4. SessionsOwned /\ Creations /\ GroupOwned /\ EngineHeld /\ ModelHeld
  BY DEF Ownership, Order
<1>5. SessionsOwned'
  BY <1>1, <1>2, <1>3, <1>4 DEF SessionsOwned, At, Rests, Leaving, shares, nativeVars
<1>6. Creations'
  BY <1>1, <1>2, <1>3, <1>4 DEF Creations, At, Rests, shares, nativeVars
<1>7. GroupOwned'
  BY <1>1, <1>2, <1>3, <1>4 DEF GroupOwned, Owned, At, Rests, Leaving, shares, nativeVars
<1>8. EngineHeld'
  BY <1>1, <1>2, <1>3, <1>4 DEF EngineHeld, EngineGoes, At, Rests, shares, nativeVars
<1>9. ModelHeld'
  BY <1>1, <1>2, <1>3, <1>4 DEF ModelHeld, At, Rests, shares, nativeVars
<1>10. QED BY <1>5, <1>6, <1>7, <1>8, <1>9 DEF Order

LEMMA Loaded ==
  ASSUME Ownership, Load
  PROVE  Order'
<1>1. /\ Begun("caller", "api", "runtime") /\ At("caller", "api", "runtime")'
      /\ Rests("caller") /\ making["caller"] = Idle /\ model = "none" /\ library = "loaded"
  BY DropsBegin, Freed DEF Begun, Ownership, Threads, Load
<1>2. /\ \/ /\ model' = "live" /\ apiOwners' = apiOwners \cup {"model"}
            /\ modelOwners' = {"engine"} /\ engineHolders' = {"caller"}
         \/ UNCHANGED <<model, shares>>
      /\ UNCHANGED <<library, live, quota, grouped, members, owner, making, worker>>
  BY <1>1 DEF Load
<1>3. /\ \A u \in Threads \ {"caller"} : now'[u] = now[u]
      /\ owner \in [Sessions -> Threads \cup {None}] /\ None \notin Threads
      /\ \A z \in Sessions : z \notin {"group", "engine", "model", "runtime"} /\ z # None
      /\ Threads = {"caller", "worker"}
  BY <1>1, OthersStay, DropsBegin, NamesDiffer DEF Begun, Ownership, HandlesType, Threads, Owners
<1>4. SessionsOwned /\ Creations /\ GroupOwned /\ EngineHeld /\ ModelHeld
  BY DEF Ownership, Order
<1>11. Kind("worker")
  BY <1>3, Kinds DEF Ownership
<1>5. SessionsOwned'
  BY <1>1, <1>2, <1>3, <1>4, <1>11 DEF Kind, SessionsOwned, ModelHeld, At, Rests, Leaving, shares, nativeVars
<1>6. Creations'
  BY <1>1, <1>2, <1>3, <1>4 DEF Creations, EngineHeld, ModelHeld, At, Rests, shares, nativeVars
<1>7. GroupOwned'
  BY <1>1, <1>2, <1>3, <1>4 DEF GroupOwned, ModelHeld, Owned, At, Rests, Leaving, shares, nativeVars
<1>8. EngineHeld'
  BY <1>1, <1>2, <1>3, <1>4 DEF EngineHeld, ModelHeld, EngineGoes, At, Rests, shares, nativeVars
<1>9. ModelHeld'
  BY <1>1, <1>2, <1>3, <1>4 DEF ModelHeld, At, Rests, shares, nativeVars
<1>10. QED BY <1>5, <1>6, <1>7, <1>8, <1>9 DEF Order

LEMMA Exited ==
  ASSUME Ownership, Exit
  PROVE  Order'
<1>1. /\ IF grouped THEN Begun("worker", "group_destroy", "group") /\ At("worker", "group_destroy", "group")'
         ELSE Begun("worker", "pool", "worker") /\ At("worker", "pool", "worker")'
      /\ Rests("worker") /\ making["worker"] = Idle /\ worker = "closing"
  BY DropsBegin, Freed DEF Begun, Ownership, Threads, Exit
<1>2. worker' = "gone" /\ UNCHANGED <<nativeVars, shares, owner, making>>
  BY <1>1 DEF Exit
<1>3. /\ \A u \in Threads \ {"worker"} : now'[u] = now[u]
      /\ owner \in [Sessions -> Threads \cup {None}] /\ None \notin Threads
      /\ \A z \in Sessions : z \notin {"group", "engine", "model", "runtime"} /\ z # None
      /\ Threads = {"caller", "worker"}
  BY <1>1, OthersStay, DropsBegin, NamesDiffer DEF Begun, Ownership, HandlesType, Threads, Owners
<1>4. SessionsOwned /\ Creations /\ GroupOwned /\ EngineHeld /\ ModelHeld
  BY DEF Ownership, Order
<1>5. SessionsOwned'
  BY <1>1, <1>2, <1>3, <1>4 DEF SessionsOwned, At, Rests, Leaving, shares, nativeVars
<1>6. Creations'
  BY <1>1, <1>2, <1>3, <1>4 DEF Creations, At, Rests, shares, nativeVars
<1>7. GroupOwned'
  BY <1>1, <1>2, <1>3, <1>4 DEF GroupOwned, Owned, At, Rests, Leaving, shares, nativeVars
<1>8. EngineHeld'
  BY <1>1, <1>2, <1>3, <1>4 DEF EngineHeld, EngineGoes, At, Rests, shares, nativeVars
<1>9. ModelHeld'
  BY <1>1, <1>2, <1>3, <1>4 DEF ModelHeld, At, Rests, shares, nativeVars
<1>10. QED BY <1>5, <1>6, <1>7, <1>8, <1>9 DEF Order

-----------------------------------------------------------------------------
(* Every call is legal *)

LEMMA OwnershipInit == Init => Ownership
<1> SUFFICES ASSUME Init PROVE Ownership
  OBVIOUS
<1>1. HandlesType
  <2>1. todo \in [Threads -> Seq(Steps)]
    BY DEF Init
  <2>2. making \in [Threads -> [of : Sessions \cup {None}, over : BOOLEAN]]
    BY DEF Init, Idle
  <2>3. owner \in [Sessions -> Threads \cup {None}]
    BY DEF Init
  <2>4. /\ library = "closed" /\ model = "none" /\ live = {} /\ members = {} /\ quota = 0
        /\ grouped = FALSE /\ apiOwners = {} /\ modelOwners = {} /\ engineHolders = {}
        /\ worker = "none"
    BY DEF Init
  <2>5. quota \in Int /\ grouped \in BOOLEAN
    <3>1. quota = 0 /\ grouped = FALSE
      BY DEF Init
    <3>2. quota \in Int
      BY <3>1
    <3>3. QED BY <3>1, <3>2
  <2>6. QED BY <2>1, <2>2, <2>3, <2>4, <2>5 DEF HandlesType
<1>2. \A t \in Threads : todo[t] = <<>> /\ making[t] = Idle
  BY DEF Init
<1>3. \A t \in Threads : Script(t) /\ Rests(t)
  BY <1>1, <1>2, NowIs DEF Script, HandlesType
<1>4. SessionsOwned
  BY <1>3 DEF Init, SessionsOwned, Rests, At, Leaving
<1>5. Creations
  BY <1>2 DEF Creations
<1>6. GroupOwned
  BY <1>3 DEF Init, GroupOwned, Rests, At, Leaving, Threads, Owned
<1>7. EngineHeld
  BY <1>3 DEF Init, EngineHeld, Rests, At, Threads
<1>8. ModelHeld
  BY <1>3 DEF Init, ModelHeld, Rests, At
<1>9. QED BY <1>1, <1>3, <1>4, <1>5, <1>6, <1>7, <1>8 DEF Ownership, Order

LEMMA OwnershipInductive == Ownership /\ [Next]_vars => Ownership'
<1> SUFFICES ASSUME Ownership, [Next]_vars PROVE Ownership'
  OBVIOUS
<1> USE DEF Ownership
<1>1. HandlesType /\ Creations /\ \A u \in Threads : Script(u)
  BY DEF Order
<1>2. ASSUME NEW t \in Threads, Drops(t) PROVE Ownership'
  <2>1. Goes(t)
    BY <1>2, DropGoes
  <2>2. Order'
    BY <1>2, <2>1, SessionDestroyed, GroupDestroyed, ModelDestroyed, ApiReleased,
       ModelReleased, EngineReleased, PoolDropped DEF Drops
  <2>3. QED BY <2>1, <2>2 DEF Goes
<1>3. ASSUME UNCHANGED todo, worker' = "gone" <=> worker = "gone", now' = now => Order'
      PROVE  Ownership'
  BY <1>1, <1>3, Still
<1>4. ASSUME NEW t \in Threads, Reserve(t) \/ ReserveFails(t) \/ Build(t) PROVE Ownership'
  <2>1. UNCHANGED <<todo, worker>>
    BY <1>4 DEF Reserve, ReserveFails, Build
  <2>2. QED BY <1>3, <1>4, <2>1, Reserved, Refused, Built
<1>5. CASE Open \/ CreateGroup
  <2>1. UNCHANGED <<todo, worker>>
    BY <1>5 DEF Open, CreateGroup
  <2>2. QED BY <1>3, <1>5, <2>1, Opened, GroupCreated
<1>6. CASE Spawn \/ Close
  <2>1. UNCHANGED todo /\ worker' # "gone" /\ worker # "gone"
    BY <1>6 DEF Spawn, Close
  <2>2. QED BY <1>3, <1>6, <2>1, Spawned, Closed
<1>7. ASSUME NEW s \in Sessions, AddMember(s) \/ RemoveMember(s) PROVE Ownership'
  <2>1. UNCHANGED <<todo, worker>>
    BY <1>7 DEF AddMember, RemoveMember
  <2>2. QED BY <1>3, <1>7, <2>1, MemberAdded, MemberRemoved
<1>8. CASE UNCHANGED vars
  <2>1. UNCHANGED <<todo, worker>>
    BY <1>8 DEF vars
  <2>2. QED BY <1>3, <1>8, <2>1, Unchanged
\* The drops that begin, the worker's end among them.
<1>9. ASSUME NEW t \in Threads, NEW w, NEW x, Begun(t, w, x), Order',
             \A u \in Threads \ {t} : After(u)' = After(u) /\ (u = "worker" => worker' = worker)
      PROVE  Ownership'
  <2>1. HandlesType'
    BY <1>1, <1>9, TypesKept DEF Begun
  <2>2. ASSUME NEW u \in Threads \ {t} PROVE Script(u)'
    <3>1. Script(u) /\ todo'[u] = todo[u] /\ now'[u] = now[u] /\ After(u)' = After(u)
      BY <1>1, <1>9, OthersStay DEF Begun
    <3>2. CASE u = "worker"
      BY <1>1, <1>9, <3>1, <3>2, ScriptsStay DEF HandlesType
    <3>3. CASE u # "worker"
      BY <3>1, <3>3, ZenonT(60) DEF Script, At
    <3>4. QED BY <3>2, <3>3
  <2>3. QED BY <1>9, <2>1, <2>2 DEF Begun
<1>10. ASSUME NEW s \in Sessions, DropSession(s) PROVE Ownership'
  <2>1. Begun("caller", "session_destroy", s) /\ Order' /\ worker' = worker
    BY <1>10, DropsBegin, SessionDropped DEF DropSession
  <2>2. QED BY <1>9, <2>1 DEF Threads, After
<1>11. CASE DropEngine
  <2>1. Begun("caller", "engine", "caller") /\ Order' /\ worker' = worker
    BY <1>11, DropsBegin, EngineDropped DEF DropEngine
  <2>2. QED BY <1>9, <2>1 DEF Threads, After
<1>12. CASE Load
  <2>1. Begun("caller", "api", "runtime") /\ Order' /\ worker' = worker
    BY <1>12, DropsBegin, Loaded DEF Load
  <2>2. QED BY <1>9, <2>1 DEF Threads, After
<1>13. CASE DropGroup
  <2>1. Begun("worker", "group_destroy", "group") /\ Order'
    BY <1>13, DropsBegin, GroupDropped
  <2>2. QED BY <1>9, <2>1 DEF Threads, After
<1>14. CASE Exit
  <2>1. /\ \/ Begun("worker", "group_destroy", "group")
           \/ Begun("worker", "pool", "worker")
        /\ Order'
    BY <1>14, DropsBegin, Exited
  <2>2. QED BY <1>9, <2>1 DEF Threads, After
<1>15. QED
  BY <1>2, <1>4, <1>5, <1>6, <1>7, <1>8, <1>10, <1>11, <1>12, <1>13, <1>14 DEF Next

LEMMA CallsHold == Ownership => CallsLegal
<1> SUFFICES ASSUME Ownership, NEW t \in Threads
             PROVE  /\ Begins(t, "session_destroy") => Of(t) \in live \ members /\ Usable
                    /\ Begins(t, "group_destroy") => grouped /\ members \subseteq live /\ Usable
                    /\ Begins(t, "model_destroy") => live = {} /\ ~ grouped /\ Usable
                    /\ making[t] # Idle => Usable
  BY DEF CallsLegal
<1>1. /\ SessionsOwned /\ Creations /\ GroupOwned /\ EngineHeld /\ ModelHeld
      /\ HandlesType /\ Kind(t)
  BY Kinds DEF Ownership, Order
<1>2. \A w \in Whats : Begins(t, w) => now[t].what = w /\ Of(t) = now[t].of
  BY <1>1, NowIs DEF Whats, Rests, HandlesType
<1>3. modelOwners # {} => Usable
  BY <1>1 DEF ModelHeld, Usable
<1>4. Begins(t, "session_destroy") => Of(t) \in live \ members /\ Usable
  <2>1. SUFFICES ASSUME NEW s \in Sessions, Of(t) = s, At(t, "session_destroy", s)
                 PROVE  s \in live \ members /\ modelOwners # {}
    BY <1>1, <1>2, <1>3 DEF Kind, Rests, At, Whats
  <2>2. QED BY <1>1, <2>1, NamesDiffer DEF SessionsOwned
<1>5. Begins(t, "group_destroy") => grouped /\ members \subseteq live /\ Usable
  <2>1. SUFFICES ASSUME At("worker", "group_destroy", "group")
                 PROVE  grouped /\ members \subseteq live /\ Usable
    BY <1>1, <1>2 DEF Kind, Rests, At, Whats
  <2>2. grouped /\ "group" \in modelOwners /\ members \subseteq Owned("worker")
    BY <1>1, <2>1 DEF GroupOwned
  <2>3. QED BY <1>1, <1>3, <2>2, NamesDiffer DEF SessionsOwned, Owned, Threads
<1>6. Begins(t, "model_destroy") => live = {} /\ ~ grouped /\ Usable
  <2>1. SUFFICES ASSUME At(t, "model_destroy", "model")
                 PROVE  live = {} /\ ~ grouped /\ Usable
    BY <1>1, <1>2 DEF Kind, Rests, At, Whats
  <2>2. modelOwners = {} /\ Usable
    BY <1>1, <2>1 DEF ModelHeld, Usable
  <2>3. QED BY <1>1, <2>2 DEF SessionsOwned, GroupOwned
<1>7. making[t] # Idle => Usable
  BY <1>1, <1>3 DEF Creations, EngineHeld
<1>8. QED BY <1>4, <1>5, <1>6, <1>7

\* Every native call finds what it touches (src/rust/minicpm-runtime/src/native.rs,
\* the Drop implementations), whichever thread drops what, in whichever order.
THEOREM CallsAreLegal == Spec => []CallsLegal
BY OwnershipInit, OwnershipInductive, CallsHold, PTL DEF Spec

-----------------------------------------------------------------------------
(* The quota *)

LEMMA AllFinite ==
  ASSUME HandlesType
  PROVE  /\ IsFiniteSet(live) /\ Cardinality(live) \in Nat
         /\ IsFiniteSet(Created) /\ Cardinality(Created) \in Nat
         /\ IsFiniteSet(Fitting) /\ Cardinality(Fitting) \in Nat
         /\ Cardinality(Fitting) <= Cardinality(Created)
<1>1. IsFiniteSet(live)
  BY HandlesAssumption, FS_Subset DEF HandlesType
<1>2. IsFiniteSet(Threads)
  <2>1. IsFiniteSet({"caller"})
    BY FS_Singleton
  <2>2. IsFiniteSet({"caller"} \cup {"worker"})
    BY <2>1, FS_AddElement
  <2>3. {"caller"} \cup {"worker"} = Threads
    BY DEF Threads
  <2>4. QED BY <2>2, <2>3
<1>3. IsFiniteSet(Created) /\ IsFiniteSet(Fitting) /\ Cardinality(Fitting) <= Cardinality(Created)
  <2>1. Created \subseteq Threads /\ Fitting \subseteq Created
    BY DEF Created, Fitting
  <2>2. QED BY <1>2, <2>1, FS_Subset
<1>4. QED BY <1>1, <1>3, FS_CardinalityType

\* One more, one less.
LEMMA OneMore ==
  ASSUME NEW S, IsFiniteSet(S), NEW x, x \notin S
  PROVE  Cardinality(S \cup {x}) = Cardinality(S) + 1
BY FS_AddElement

LEMMA OneLess ==
  ASSUME NEW S, IsFiniteSet(S), NEW x, x \in S
  PROVE  Cardinality(S \ {x}) = Cardinality(S) - 1
BY FS_RemoveElement

LEMMA PlacesInductive == Ownership /\ Places /\ [Next]_vars => Places'
<1> SUFFICES ASSUME Ownership, Places, [Next]_vars PROVE Places'
  OBVIOUS
<1>1. HandlesType /\ SessionsOwned /\ Creations
  BY DEF Ownership, Order
<1>2. /\ IsFiniteSet(live) /\ Cardinality(live) \in Nat
      /\ IsFiniteSet(Created) /\ Cardinality(Created) \in Nat
      /\ IsFiniteSet(Fitting) /\ Cardinality(Fitting) \in Nat
      /\ Cardinality(Fitting) <= Cardinality(Created)
      /\ quota \in Int /\ MaxSessions \in Nat
  BY <1>1, AllFinite, HandlesAssumption DEF HandlesType
<1>3. making \in [Threads -> [of : Sessions \cup {None}, over : BOOLEAN]]
  BY <1>1 DEF HandlesType
<1>4. CASE UNCHANGED <<live, quota, making>>
  BY <1>4 DEF Places, Created, Fitting
<1>5. ASSUME NEW t \in Threads, DestroySession(t) PROVE Places'
  <2>1. Of(t) \in live
    BY <1>1, <1>5, CallsHold DEF CallsLegal, DestroySession
  <2>2. live' = live \ {Of(t)} /\ quota' = quota - 1 /\ making' = making
    BY <1>5 DEF DestroySession
  <2>3. Cardinality(live') = Cardinality(live) - 1
    BY <1>2, <2>1, <2>2, OneLess
  <2>4. Created' = Created /\ Fitting' = Fitting
    BY <2>2 DEF Created, Fitting
  <2>5. QED BY <1>2, <2>2, <2>3, <2>4 DEF Places
<1>6. ASSUME NEW t \in Threads, Reserve(t) PROVE Places'
  <2>1. PICK s \in Sessions :
          making' = [making EXCEPT ![t] = [of |-> s, over |-> quota + 1 > MaxSessions]]
    BY <1>6 DEF Reserve
  <2>2. live' = live /\ quota' = quota + 1 /\ making[t] = Idle
    BY <1>6 DEF Reserve, Free
  <2>3. /\ making'[t].of = s /\ making'[t].over = (quota + 1 > MaxSessions)
        /\ \A u \in Threads \ {t} : making'[u] = making[u]
        /\ making'[t] # Idle
    BY <1>3, <2>1, NamesDiffer DEF Idle
  <2>4. Created' = Created \cup {t} /\ t \notin Created /\ t \notin Fitting
    BY <2>2, <2>3 DEF Created, Fitting
  <2>5. Cardinality(Created') = Cardinality(Created) + 1
    BY <1>2, <2>4, OneMore
  <2>6. CASE quota + 1 > MaxSessions
    <3>1. Fitting' = Fitting
      <4>1. making'[t].over
        BY <2>3, <2>6
      <4>2. \A u : u \in Fitting' <=> u \in Fitting
        BY <2>3, <2>4, <4>1 DEF Fitting, Created
      <4>3. QED BY <4>2
    <3>2. QED BY <1>2, <2>2, <2>5, <3>1 DEF Places
  <2>7. CASE ~ (quota + 1 > MaxSessions)
    <3>1. Fitting' = Fitting \cup {t}
      <4>1. ~ making'[t].over
        BY <2>3, <2>7
      <4>2. \A u : u \in Fitting' <=> u \in Fitting \cup {t}
        BY <2>3, <2>4, <4>1 DEF Fitting, Created
      <4>3. QED BY <4>2
    <3>2. Cardinality(Fitting') = Cardinality(Fitting) + 1
      BY <1>2, <2>4, <3>1, OneMore
    <3>3. QED BY <1>2, <2>2, <2>5, <2>7, <3>2 DEF Places
  <2>8. QED BY <2>6, <2>7
\* A creation ends, and gives its place back or to the session.
<1>7. ASSUME NEW t \in Threads, making[t] # Idle, making' = [making EXCEPT ![t] = Idle]
      PROVE  /\ Cardinality(Created') = Cardinality(Created) - 1
             /\ Cardinality(Fitting') <= Cardinality(Fitting)
             /\ ~ making[t].over => Cardinality(Fitting') = Cardinality(Fitting) - 1
             /\ Cardinality(Fitting') \in Nat
  <2>1. making'[t] = Idle /\ \A u \in Threads \ {t} : making'[u] = making[u]
    BY <1>3, <1>7
  <2>2. Created' = Created \ {t} /\ t \in Created
    BY <1>7, <2>1 DEF Created
  <2>3. Fitting' = Fitting \ {t} /\ (~ making[t].over => t \in Fitting)
    <3>1. \A u : u \in Fitting' <=> u \in Fitting \ {t}
      BY <2>1, <2>2 DEF Fitting, Created
    <3>2. ~ making[t].over => t \in Fitting
      BY <2>2 DEF Fitting
    <3>3. QED BY <3>1, <3>2
  <2>4. t \notin Fitting => Fitting' = Fitting
    BY <2>3
  <2>5. t \in Fitting => Cardinality(Fitting') = Cardinality(Fitting) - 1
    BY <1>2, <2>3, OneLess
  <2>6. Cardinality(Created') = Cardinality(Created) - 1
    BY <1>2, <2>2, OneLess
  <2>7. Cardinality(Fitting') \in Nat
    BY <1>2, <2>3, FS_RemoveElement, FS_CardinalityType
  <2>8. Cardinality(Fitting') <= Cardinality(Fitting)
    <3>1. CASE t \in Fitting
      BY <1>2, <2>5, <3>1
    <3>2. CASE t \notin Fitting
      BY <1>2, <2>4, <3>2
    <3>3. QED BY <3>1, <3>2
  <2>9. QED BY <2>3, <2>5, <2>6, <2>7, <2>8
<1>8. ASSUME NEW t \in Threads, ReserveFails(t) PROVE Places'
  <2>1. /\ live' = live /\ quota' = quota - 1
        /\ making[t] # Idle /\ making' = [making EXCEPT ![t] = Idle]
    BY <1>8 DEF ReserveFails, GiveBack
  <2>2. /\ Cardinality(Created') = Cardinality(Created) - 1
        /\ Cardinality(Fitting') <= Cardinality(Fitting) /\ Cardinality(Fitting') \in Nat
    BY <1>7, <2>1
  <2>3. QED BY <1>2, <2>1, <2>2 DEF Places
<1>9. ASSUME NEW t \in Threads, Build(t) PROVE Places'
  <2>1. /\ live' = live \cup {making[t].of} /\ quota' = quota
        /\ making[t] # Idle /\ ~ making[t].over /\ making' = [making EXCEPT ![t] = Idle]
    BY <1>9 DEF Build
  <2>2. making[t].of \notin live
    BY <1>1, <2>1 DEF Creations
  <2>3. Cardinality(live') = Cardinality(live) + 1
    BY <1>2, <2>1, <2>2, OneMore
  <2>4. /\ Cardinality(Created') = Cardinality(Created) - 1
        /\ Cardinality(Fitting') = Cardinality(Fitting) - 1
    BY <1>7, <2>1
  <2>5. QED BY <1>2, <2>1, <2>3, <2>4 DEF Places
<1>10. ASSUME NEW t \in Threads, Drops(t) PROVE Places'
  <2>1. DestroySession(t) \/ UNCHANGED <<live, quota, making>>
    BY <1>10 DEF Drops, DestroyGroup, DestroyModel, ReleaseApi, ReleaseModel,
       ReleaseEngine, DropPool, nativeVars
  <2>2. QED BY <1>4, <1>5, <1>10, <2>1
<1>11. CASE Open \/ Load \/ Spawn \/ DropEngine \/ CreateGroup \/ DropGroup \/ Close \/ Exit
  BY <1>4, <1>11 DEF Open, Load, Spawn, DropEngine, CreateGroup, DropGroup, Close, Exit, nativeVars
<1>12. ASSUME NEW s \in Sessions, DropSession(s) \/ AddMember(s) \/ RemoveMember(s)
       PROVE  Places'
  BY <1>4, <1>12 DEF DropSession, AddMember, RemoveMember, nativeVars
<1>13. CASE UNCHANGED vars
  BY <1>4, <1>13 DEF vars, nativeVars
<1>14. QED
  BY <1>6, <1>8, <1>9, <1>10, <1>11, <1>12, <1>13 DEF Next

LEMMA PlacesHold == Spec => [](Ownership /\ Places)
<1>1. Init => Places
  <2> SUFFICES ASSUME Init PROVE Places
    OBVIOUS
  <2>1. live = {} /\ quota = 0 /\ \A t \in Threads : making[t] = Idle
    BY DEF Init
  <2>2. Created = {} /\ Fitting = {}
    BY <2>1 DEF Created, Fitting
  <2>3. QED BY <2>1, <2>2, FS_EmptySet, HandlesAssumption DEF Places
<1>2. QED BY <1>1, OwnershipInit, OwnershipInductive, PlacesInductive, PTL DEF Spec

\* The model counts its sessions, those being made included, and never lets more
\* than its quota live (native.rs and the native model's session count).
THEOREM QuotaIsExact == Spec => []QuotaExact
<1>1. Ownership /\ Places => QuotaExact
  <2> SUFFICES ASSUME Ownership, Places PROVE QuotaExact
    OBVIOUS
  <2>1. /\ Cardinality(live) \in Nat /\ Cardinality(Fitting) \in Nat /\ MaxSessions \in Nat
    BY AllFinite, HandlesAssumption DEF Ownership
  <2>2. QED BY <2>1 DEF Places, QuotaExact, Created
<1>2. QED BY <1>1, PlacesHold, PTL

\* With the quota the size of its pool (main.rs sets both to the same value), the
\* worker is refused a session only while the caller has one or is making one.
THEOREM PoolHasItsPlaces == Spec => OwnQuotaSuffices
<1> DEFINE Refusal == making' # making /\ making'["worker"].over =>
                        making["worker"].over \/ Owned("caller") # {} \/ making["caller"] # Idle
<1>1. Ownership /\ Places /\ [Next]_vars => [Refusal]_vars
  <2> SUFFICES ASSUME Ownership, Places, [Next]_vars, making' # making, making'["worker"].over,
                      ~ making["worker"].over, Owned("caller") = {}, making["caller"] = Idle
               PROVE  FALSE
    OBVIOUS
  <2>1. /\ HandlesType /\ SessionsOwned /\ Threads = {"caller", "worker"}
        /\ making \in [Threads -> [of : Sessions \cup {None}, over : BOOLEAN]]
        /\ owner \in [Sessions -> Threads \cup {None}]
    BY DEF Ownership, Order, HandlesType, Threads
  <2>2. PICK t \in Threads : Reserve(t) \/ ReserveFails(t) \/ Build(t)
    BY DEF Next, Drops, DestroySession, DestroyGroup, DestroyModel, ReleaseApi, ReleaseModel,
       ReleaseEngine, DropPool, Open, Load, Spawn, DropEngine, CreateGroup, DropGroup, Close,
       Exit, DropSession, AddMember, RemoveMember, vars
  <2>3. Reserve(t)
    <3>1. ASSUME making' = [making EXCEPT ![t] = Idle] PROVE FALSE
      BY <2>1, <3>1 DEF Idle
    <3>2. QED BY <2>2, <3>1 DEF ReserveFails, Build
  <2>4. PICK s \in Sessions :
          making' = [making EXCEPT ![t] = [of |-> s, over |-> quota + 1 > MaxSessions]]
    BY <2>3 DEF Reserve
  <2>5. t = "worker" /\ quota + 1 > MaxSessions
    BY <2>1, <2>4
  <2>6. making[t] = Idle /\ Cardinality(Owned("worker")) < MaxSessions
    BY <2>3, <2>5 DEF Reserve, Free, Wants
  <2>7. Created = {}
    BY <2>1, <2>5, <2>6 DEF Created
  <2>8. live = Owned("worker")
    <3>1. \A z \in Sessions : owner[z] # None <=> owner[z] = "worker"
      BY <2>1, NamesDiffer DEF Owned
    <3>2. QED BY <2>1, <3>1 DEF SessionsOwned, Owned
  <2>9. quota = Cardinality(live) + 0 /\ Cardinality(live) \in Nat
    BY <2>1, <2>7, FS_EmptySet, AllFinite DEF Places
  <2>10. QED BY <2>5, <2>6, <2>8, <2>9, HandlesAssumption
<1>2. QED BY <1>1, PlacesHold, PTL DEF Spec, OwnQuotaSuffices

=============================================================================
