------------------------------ MODULE Handles -------------------------------
(***************************************************************************)
(* Who owns the native handles, and in which order they go. A session and  *)
(* a group share the ownership of their model, everything shares the       *)
(* ownership of the library, and the engine is shared by the thread that   *)
(* loaded it and the scheduler's worker. Dropping a value runs its         *)
(* destructor, then releases its fields in the order of their declaration; *)
(* whoever releases the last share runs the destructor of what was shared. *)
(***************************************************************************)
EXTENDS Integers, FiniteSets, Sequences

CONSTANTS
  Sessions,      \* the sessions that may be created
  MaxSessions,   \* the quota of the model, and the size of the worker's pool
  None

Threads == {"caller", "worker"}

\* The other owners of a share.
Owners == {"runtime", "model", "engine", "group"}

ASSUME HandlesAssumption ==
  /\ IsFiniteSet(Sessions)
  /\ Sessions \cap Owners = {}
  /\ None \notin Sessions \cup Threads
  /\ MaxSessions \in Nat \ {0}

VARIABLES
  library,         \* "closed", "loaded" or "unloaded"
  model,           \* "none", "live" or "destroyed"
  live, quota,     \* native sessions, and how many the model counts
  grouped,         \* is there a native group
  members,         \* its sessions
  apiOwners, modelOwners, engineHolders,   \* who has a share
  owner,           \* the thread that has a session in its hands
  making,          \* by thread: the session being created, and whether over quota
  todo,            \* by thread: the rest of a drop
  worker           \* "none", "running", "closing" or "gone"

nativeVars == <<library, model, live, quota, grouped, members>>
shares     == <<apiOwners, modelOwners, engineHolders>>
vars       == <<nativeVars, shares, owner, making, todo, worker>>

\* The sessions a thread has.
Owned(t) == {s \in Sessions : owner[s] = t}

Idle == [of |-> None, over |-> FALSE]

Init ==
  /\ library = "closed" /\ model = "none"
  /\ live = {} /\ quota = 0
  /\ grouped = FALSE /\ members = {}
  /\ apiOwners = {} /\ modelOwners = {} /\ engineHolders = {}
  /\ owner = [s \in Sessions |-> None]
  /\ making = [t \in Threads |-> Idle]
  /\ todo = [t \in Threads |-> <<>>]
  /\ worker = "none"

-----------------------------------------------------------------------------
(* What a drop does, a step after the other. *)

Step(what, of) == [what |-> what, of |-> of]

SessionDrop(s) == <<Step("session_destroy", s), Step("api", s), Step("model", s)>>

\* Mutant: the destructor of a group forgets its fields.
GroupDropLeaks == <<Step("group_destroy", "group")>>

GroupDrop == <<Step("group_destroy", "group"), Step("api", "group"), Step("model", "group")>>
RuntimeDrop == <<Step("api", "runtime")>>
EngineDrop == <<Step("model", "engine")>>
ModelDrop == <<Step("model_destroy", "model"), Step("api", "model")>>

\* A thread between two operations.
Free(t) == todo[t] = <<>> /\ making[t] = Idle

Begins(t, what) == todo[t] # <<>> /\ Head(todo[t]).what = what
Of(t)          == Head(todo[t]).of

Do(t, more) == todo' = [todo EXCEPT ![t] = more \o Tail(@)]

DestroySession(t) ==
  /\ Begins(t, "session_destroy")
  /\ live' = live \ {Of(t)}
  /\ quota' = quota - 1
  /\ owner' = [owner EXCEPT ![Of(t)] = None]
  /\ Do(t, <<>>)
  /\ UNCHANGED <<library, model, grouped, members, shares, making, worker>>

\* The members still in the group leave it.
DestroyGroup(t) ==
  /\ Begins(t, "group_destroy")
  /\ grouped' = FALSE /\ members' = {}
  /\ Do(t, <<>>)
  /\ UNCHANGED <<library, model, live, quota, shares, owner, making, worker>>

DestroyModel(t) ==
  /\ Begins(t, "model_destroy")
  /\ model' = "destroyed"
  /\ Do(t, <<>>)
  /\ UNCHANGED <<library, live, quota, grouped, members, shares, owner, making, worker>>

ReleaseApi(t) ==
  /\ Begins(t, "api")
  /\ apiOwners' = apiOwners \ {Of(t)}
  /\ library' = IF apiOwners' = {} THEN "unloaded" ELSE library
  /\ Do(t, <<>>)
  /\ UNCHANGED <<model, live, quota, grouped, members, modelOwners, engineHolders,
                 owner, making, worker>>

ReleaseModel(t) ==
  /\ Begins(t, "model")
  /\ modelOwners' = modelOwners \ {Of(t)}
  /\ Do(t, IF modelOwners' = {} THEN ModelDrop ELSE <<>>)
  /\ UNCHANGED <<nativeVars, apiOwners, engineHolders, owner, making, worker>>

ReleaseEngine(t) ==
  /\ Begins(t, "engine")
  /\ engineHolders' = engineHolders \ {Of(t)}
  /\ Do(t, IF engineHolders' = {} THEN EngineDrop ELSE <<>>)
  /\ UNCHANGED <<nativeVars, apiOwners, modelOwners, owner, making, worker>>

\* The destructor of the pool: its sessions, one after the other.
DropPool(t) ==
  /\ Begins(t, "pool")
  /\ IF Owned(t) = {}
     THEN Do(t, <<>>)
     ELSE \E s \in Owned(t) : todo' = [todo EXCEPT ![t] = SessionDrop(s) \o @]
  /\ UNCHANGED <<nativeVars, shares, owner, making, worker>>

-----------------------------------------------------------------------------
(* Loading. *)

Open ==
  /\ library = "closed"
  /\ library' = "loaded" /\ apiOwners' = {"runtime"}
  /\ UNCHANGED <<model, live, quota, grouped, members, modelOwners, engineHolders,
                 owner, making, todo, worker>>

\* The runtime was needed for loading only.
Load ==
  /\ library = "loaded" /\ model = "none" /\ Free("caller") /\ "runtime" \in apiOwners
  /\ todo' = [todo EXCEPT !["caller"] = RuntimeDrop]
  /\ \/ /\ model' = "live"
        /\ apiOwners' = apiOwners \cup {"model"}
        /\ modelOwners' = {"engine"} /\ engineHolders' = {"caller"}
     \/ UNCHANGED <<model, shares>>
  /\ UNCHANGED <<library, live, quota, grouped, members, owner, making, worker>>

\* The scheduler takes the engine, or a share of it.
Spawn ==
  /\ worker = "none" /\ Free("caller") /\ "caller" \in engineHolders
  /\ worker' = "running"
  /\ \/ engineHolders' = {"worker"}
     \/ engineHolders' = {"caller", "worker"}
  /\ UNCHANGED <<nativeVars, apiOwners, modelOwners, owner, making, todo>>

-----------------------------------------------------------------------------
(* Sessions. *)

\* Mutant: the pool may hold one more.
WantsOneMore(t) ==
  t = "worker" => worker \in {"running", "closing"} /\ Cardinality(Owned(t)) <= MaxSessions

\* The worker keeps to its pool; nothing keeps the caller.
Wants(t) ==
  t = "worker" => worker \in {"running", "closing"} /\ Cardinality(Owned(t)) < MaxSessions

Reserve(t) ==
  /\ Free(t) /\ t \in engineHolders /\ Wants(t)
  /\ \E s \in Sessions :
       /\ s \notin live /\ s \notin modelOwners \cup apiOwners
       /\ \A u \in Threads : making[u].of # s
       /\ making' = [making EXCEPT ![t] = [of |-> s, over |-> quota + 1 > MaxSessions]]
  /\ quota' = quota + 1
  /\ UNCHANGED <<library, model, live, grouped, members, shares, owner, todo, worker>>

\* Mutant: a session that could not be made keeps its place.
KeepPlace == quota' = quota

GiveBack == quota' = quota - 1

\* Over the quota, or out of some resource.
ReserveFails(t) ==
  /\ making[t] # Idle
  /\ GiveBack
  /\ making' = [making EXCEPT ![t] = Idle]
  /\ UNCHANGED <<library, model, live, grouped, members, shares, owner, todo, worker>>

Build(t) ==
  LET s == making[t].of IN
  /\ making[t] # Idle /\ ~ making[t].over
  /\ live' = live \cup {s}
  /\ owner' = [owner EXCEPT ![s] = t]
  /\ apiOwners' = apiOwners \cup {s} /\ modelOwners' = modelOwners \cup {s}
  /\ making' = [making EXCEPT ![t] = Idle]
  /\ UNCHANGED <<library, model, quota, grouped, members, engineHolders, todo, worker>>

DropSession(s) ==
  /\ owner[s] = "caller" /\ Free("caller")
  /\ todo' = [todo EXCEPT !["caller"] = SessionDrop(s)]
  /\ UNCHANGED <<nativeVars, shares, owner, making, worker>>

DropEngine ==
  /\ "caller" \in engineHolders /\ Free("caller")
  /\ todo' = [todo EXCEPT !["caller"] = <<Step("engine", "caller")>>]
  /\ UNCHANGED <<nativeVars, shares, owner, making, worker>>

-----------------------------------------------------------------------------
(* The worker's group and its end. *)

Running == worker \in {"running", "closing"} /\ Free("worker")

CreateGroup ==
  /\ Running /\ ~ grouped /\ Cardinality(Owned("worker")) > 1
  /\ grouped' = TRUE
  /\ apiOwners' = apiOwners \cup {"group"} /\ modelOwners' = modelOwners \cup {"group"}
  /\ UNCHANGED <<library, model, live, quota, members, engineHolders, owner, making,
                 todo, worker>>

AddMember(s) ==
  /\ Running /\ grouped /\ s \in Owned("worker") \ members
  /\ members' = members \cup {s}
  /\ UNCHANGED <<library, model, live, quota, grouped, shares, owner, making, todo, worker>>

RemoveMember(s) ==
  /\ Running /\ s \in members
  /\ members' = members \ {s}
  /\ UNCHANGED <<library, model, live, quota, grouped, shares, owner, making, todo, worker>>

DropGroup ==
  /\ Running /\ grouped /\ members = {}
  /\ todo' = [todo EXCEPT !["worker"] = GroupDrop]
  /\ UNCHANGED <<nativeVars, shares, owner, making, worker>>

Close ==
  /\ worker = "running" /\ Free("caller")
  /\ worker' = "closing"
  /\ UNCHANGED <<nativeVars, shares, owner, making, todo>>

Pool == Step("pool", "worker")

\* Mutant: the sessions go before the group.
PoolFirst == <<Pool>> \o (IF grouped THEN GroupDrop ELSE <<>>) \o <<Step("engine", "worker")>>

\* The group first, then the sessions, the engine last.
Teardown == (IF grouped THEN GroupDrop ELSE <<>>) \o <<Pool, Step("engine", "worker")>>

Exit ==
  /\ worker = "closing" /\ Free("worker")
  /\ todo' = [todo EXCEPT !["worker"] = Teardown]
  /\ worker' = "gone"
  /\ UNCHANGED <<nativeVars, shares, owner, making>>

-----------------------------------------------------------------------------

Drops(t) == \/ DestroySession(t) \/ DestroyGroup(t) \/ DestroyModel(t)
            \/ ReleaseApi(t) \/ ReleaseModel(t) \/ ReleaseEngine(t)
            \/ DropPool(t)

Next ==
  \/ \E t \in Threads : Drops(t) \/ Reserve(t) \/ ReserveFails(t) \/ Build(t)
  \/ Open \/ Load \/ Spawn \/ DropEngine
  \/ \E s \in Sessions : DropSession(s) \/ AddMember(s) \/ RemoveMember(s)
  \/ CreateGroup \/ DropGroup \/ Close \/ Exit

Spec == Init /\ [][Next]_vars

\* A drop that has begun goes on, a creation comes back, a worker that was
\* closed ends. Nobody has to drop anything.
FairSpec ==
  /\ Spec
  /\ \A t \in Threads : WF_vars(Drops(t)) /\ WF_vars(ReserveFails(t) \/ Build(t))
  /\ WF_vars(Exit)

-----------------------------------------------------------------------------
(* Properties.                                                             *)

Usable == model = "live" /\ library = "loaded"

\* Every native call finds what it touches (src/rust/minicpm-runtime/src/native.rs,
\* the Drop implementations): a session is destroyed once, outside the group, and
\* a group while its members live, both before their model; a model after all of
\* them; and everything, creations too, while the library is loaded.
CallsLegal ==
  \A t \in Threads :
    /\ Begins(t, "session_destroy") => Of(t) \in live \ members /\ Usable
    /\ Begins(t, "group_destroy")   => grouped /\ members \subseteq live /\ Usable
    /\ Begins(t, "model_destroy")   => live = {} /\ ~ grouped /\ Usable
    /\ making[t] # Idle            => Usable

\* The model counts its sessions, those being made included, and never lets
\* more than its quota live, whoever fails to make one at the same time.
QuotaExact ==
  /\ quota = Cardinality(live) + Cardinality({t \in Threads : making[t] # Idle})
  /\ Cardinality(live) <= MaxSessions

\* With the quota the size of its pool (main.rs sets both to the same value), the
\* worker is refused a session only while the caller has one or is making one.
OwnQuotaSuffices ==
  [][making' # making /\ making'["worker"].over =>
       making["worker"].over \/ Owned("caller") # {} \/ making["caller"] # Idle]_vars

\* When the last holder of a loaded engine and the caller's last session are
\* gone, nothing native stays.
NothingLeaks ==
  (model # "none" /\ engineHolders = {} /\ Owned("caller") = {})
    ~> (live = {} /\ ~ grouped /\ model = "destroyed" /\ library = "unloaded")
=============================================================================
