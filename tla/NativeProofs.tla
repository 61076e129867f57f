---------------------------- MODULE NativeProofs ----------------------------
(***************************************************************************)
(* Proofs about Native: every pass that decides a token alone does so      *)
(* under the sampling configuration and the seed of its request, for any   *)
(* number of sessions and jobs, whatever is refused and however far the    *)
(* device lags behind the host.                                            *)
(***************************************************************************)
EXTENDS Native, FiniteSetTheorems, WellFoundedInduction, TLAPS

-----------------------------------------------------------------------------
(* The inductive invariant. *)

OpNames == {"zero", "sync", "ids", "table", "prefill", "mirror", "seed", "cfg", "read",
            "forward", "graph", "wait", "pointers", "rows", "reads", "layers", "argmax",
            "advance", "carve"}
Ops == [op : OpNames, s : Streams \cup {None}, n : Int, b : Seq(Streams)]

\* The calls that serve one session, and those that serve the group.
OwnCalls == {"reset", "prefill", "decode", "remove"}
GroupCalls == {"create", "add", "step", "destroy"}

HostTyped(h) ==
  /\ {"len", "owned", "synced", "pinned", "last", "dirty", "seeded", "made", "got"}
       \subseteq DOMAIN h
  /\ h.len \in Int /\ h.owned \in Int
  /\ h.seeded \in BOOLEAN /\ h.dirty \in BOOLEAN

CallTyped(c) ==
  /\ {"c", "s", "b", "todo", "failed", "out"} \subseteq DOMAIN c
  /\ c.c \in OwnCalls \cup GroupCalls \cup {"none"}
  /\ c.todo \in Seq(Ops)
  /\ c.failed \in BOOLEAN

Typed ==
  /\ DOMAIN host = Sessions /\ \A s \in Sessions : HostTyped(host[s])
  /\ DOMAIN dev = Sessions /\ \A s \in Sessions : {"cfg", "seed"} \subseteq DOMAIN dev[s]
  /\ queue \in [Streams -> Seq(Ops)]
  /\ CallTyped(call)
  /\ job \in [Sessions -> Jobs \cup {None}]
  /\ stage \in [Jobs -> {"new", "running", "over"}]
  /\ solo \in Seq(Sessions) /\ batch \in Seq(Sessions) /\ leaving \in Seq(Sessions)

\* The work of a session's stream that touches its sampling is its own.
OwnWork ==
  \A x \in Sessions : \A i \in DOMAIN queue[x] :
    queue[x][i].op \in {"zero", "seed", "cfg"} => queue[x][i].s = x

\* What a call has still to do.
StepAt(c, i) ==
  LET o == c.todo[i] IN
  /\ o.op \in {"zero", "seed", "cfg"} => o.s = c.s
  /\ o.op = "zero" => c.c = "reset" /\ i = 1
  /\ o.op \in {"seed", "cfg", "forward", "graph"} => c.c = "decode"
  /\ o.op = "wait" => o.s \in Streams
  /\ o.op = "table" => o.s \in Sessions
  /\ o.op = "seed" => i = 1
  /\ o.op = "cfg" => i = 1 \/ (i = 2 /\ c.todo[1].op = "seed")
  /\ o.op \in {"zero", "forward", "graph"} =>
       i + 1 \in DOMAIN c.todo /\ c.todo[i + 1].op = "sync"
  /\ c.c = "reset" => o.op \in {"zero", "sync"}

StepsOK(c) ==
  /\ \A i \in DOMAIN c.todo : StepAt(c, i)
  /\ c.c = "reset" \/ c.todo # <<>> => c.failed = FALSE
  /\ c.c = "none" => c.todo = <<>>

Served(s) ==
  /\ s \in Sessions /\ job[s] # None
  /\ batch = <<>>
  /\ \A i \in DOMAIN solo : solo[i] # s
  /\ \A i \in DOMAIN leaving : leaving[i] # s

Lists ==
  /\ \A i, k \in DOMAIN solo : i # k => solo[i] # solo[k]
  /\ \A i, k \in DOMAIN batch : i # k => batch[i] # batch[k]
  /\ \A i, k \in DOMAIN leaving : i # k => leaving[i] # leaving[k]
  /\ \A i \in DOMAIN solo : Running(solo[i])
  /\ \A i \in DOMAIN batch : Running(batch[i])
  /\ \A i \in DOMAIN leaving : job[leaving[i]] # None
  /\ \A i \in DOMAIN solo : \A k \in DOMAIN leaving : solo[i] # leaving[k]
  /\ batch # <<>> => solo = <<>> /\ leaving = <<>>
  /\ call.c \in OwnCalls => Served(call.s)
  /\ call.c \in {"prefill", "decode"} => Running(call.s)
  /\ call.c \in {"create", "add", "step"} => solo = <<>> /\ leaving = <<>>

JobsApart ==
  /\ \A s \in Sessions : job[s] # None => stage[job[s]] # "new"
  /\ \A s, t \in Sessions : s # t /\ job[s] # None => job[s] # job[t]

Orderly == Typed /\ OwnWork /\ StepsOK(call) /\ Lists /\ JobsApart

Has(s, op) == \E i \in DOMAIN queue[s] : queue[s][i].op = op
Left(op) == \E i \in DOMAIN call.todo : call.todo[i].op = op

Seeded(s) == host[s].seeded = TRUE
Dirty(s) == host[s].dirty = TRUE

\* What the host believes of the seed and of the configuration of a session is
\* what the device has, or will have once it has run what is queued.
SeedFresh(s) == Seeded(s) => Has(s, "seed") \/ dev[s].seed = job[s]
ConfigFresh(s) ==
  ~ Dirty(s) => IF Has(s, "cfg") THEN host[s].pinned = host[s].last
                ELSE dev[s].cfg = host[s].last
Fresh(s) == ~ Has(s, "zero") /\ SeedFresh(s) /\ ConfigFresh(s)

In(c, s) == call.c = c /\ call.s = s
Failed == call.failed = TRUE

\* Nothing is believed of a session that is reset or has no job.
Forgets(s) ==
  /\ In("reset", s) \/ job[s] = None => ~ Seeded(s) /\ Dirty(s)
  /\ In("reset", s) /\ call.todo = <<>> => ~ Has(s, "zero")
  /\ job[s] = None => ~ Has(s, "zero")

Believes(s) == Running(s) /\ ~ In("reset", s) /\ ~ (In("decode", s) /\ Failed) => Fresh(s)

\* Seed and configuration are settled before the pass is enqueued.
Settles(s) ==
  In("decode", s) /\ ~ Failed /\ call.todo # <<>> =>
    /\ ~ Left("seed") => Seeded(s)
    /\ ~ Left("cfg") => ~ Dirty(s) /\ host[s].last = Asked(s)

\* A pass is the last work of its stream, and the host waits for it.
Waits(s) ==
  \A i \in DOMAIN queue[s] : queue[s][i].op \in {"forward", "graph"} =>
    /\ In("decode", s) /\ ~ Failed
    /\ i = Len(queue[s])
    /\ call.todo # <<>> /\ Head(call.todo).op = "sync"

Sampling == \A s \in Sessions : Forgets(s) /\ Believes(s) /\ Settles(s) /\ Waits(s)

NInv == Orderly /\ Sampling

-----------------------------------------------------------------------------
(* Initial states, and the operators of the model. *)

USE DEF Streams

LEMMA StringsApart == None \notin Sessions /\ "group" \notin Sessions /\ None # "group"
BY NativeAssumption DEF NativeAssumption

LEMMA InitNInv == Init => NInv
<1> SUFFICES ASSUME Init PROVE NInv
  OBVIOUS
<1> USE DEF Init
<1>1. Typed
  <2>1. \A s \in Sessions : HostTyped(host[s])
    <3>1. /\ {"len", "owned", "synced", "pinned", "last", "dirty", "seeded", "made", "got"}
               \subseteq DOMAIN FreshHost
          /\ FreshHost.len = 0 /\ FreshHost.owned = 0
          /\ FreshHost.seeded = FALSE /\ FreshHost.dirty = TRUE
      BY DEF FreshHost
    <3>2. HostTyped(FreshHost)
      <4>1. FreshHost.len \in Int /\ FreshHost.owned \in Int
        BY <3>1
      <4>2. FreshHost.seeded \in BOOLEAN /\ FreshHost.dirty \in BOOLEAN
        BY <3>1, Zenon
      <4>3. QED BY <3>1, <4>1, <4>2, Zenon DEF HostTyped
    <3>3. QED BY <3>2
  <2>2. \A s \in Sessions : {"cfg", "seed"} \subseteq DOMAIN dev[s]
    BY DEF FreshDevice
  <2>3. CallTyped(call)
    BY DEF NoCall, CallTyped
  <2>4. QED BY <2>1, <2>2, <2>3 DEF Typed
<1>2. OwnWork
  BY DEF OwnWork
<1>3. StepsOK(call)
  BY DEF StepsOK, NoCall
<1>4. Lists
  BY DEF Lists, NoCall, OwnCalls
<1>5. JobsApart
  BY DEF JobsApart
<1>6. Sampling
  <2> SUFFICES ASSUME NEW s \in Sessions
               PROVE  Forgets(s) /\ Believes(s) /\ Settles(s) /\ Waits(s)
    BY DEF Sampling
  <2>1. call.c = "none" /\ job[s] = None /\ queue[s] = <<>> /\ host[s] = FreshHost
    BY DEF NoCall
  <2>2. ~ Seeded(s) /\ Dirty(s)
    BY <2>1 DEF Seeded, Dirty, FreshHost
  <2>3. ~ In("reset", s) /\ ~ In("decode", s)
    BY <2>1 DEF In
  <2>4. QED BY <2>1, <2>2, <2>3 DEF Forgets, Believes, Settles, Waits, Running, Has
<1>7. QED BY <1>1, <1>2, <1>3, <1>4, <1>5, <1>6 DEF NInv, Orderly

\* The maximum of two integers is an integer.
LEMMA MaxOfTwo == \A a, b \in Int : Max({a, b}) \in {a, b}
<1> TAKE a, b \in Int
<1>1. \E x \in {a, b} : \A y \in {a, b} : x >= y
  <2>1. CASE a >= b
    BY <2>1
  <2>2. CASE ~ a >= b
    BY <2>2
  <2>3. QED BY <2>1, <2>2
<1>2. QED BY <1>1 DEF Max

LEMMA PagesAreInt == \A n \in Int : PagesFor(n) \in Int
BY NativeAssumption DEF PagesFor, NativeAssumption

LEMMA OwningTyped ==
  ASSUME NEW h, HostTyped(h), NEW n \in Int
  PROVE  /\ HostTyped(Owning(h, n)) /\ HostTyped(Synced(Owning(h, n)))
         /\ Owning(h, n).owned \in Int
         /\ \A f \in {"seeded", "dirty", "pinned", "last"} :
              Owning(h, n)[f] = h[f] /\ Synced(Owning(h, n))[f] = h[f]
<1>1. Max({h.owned, PagesFor(n)}) \in Int
  BY MaxOfTwo, PagesAreInt DEF HostTyped
<1>2. QED BY <1>1 DEF HostTyped, Owning, Synced

LEMMA GrownTyped ==
  ASSUME NEW h, HostTyped(h)
  PROVE  /\ HostTyped(Generated(h)) /\ HostTyped(Stepped(h))
         /\ \A f \in {"seeded", "dirty", "pinned", "last"} :
              Generated(h)[f] = h[f] /\ Stepped(h)[f] = h[f]
<1>1. HostTyped(Generated(h)) /\ \A f \in {"seeded", "dirty", "pinned", "last"} :
        Generated(h)[f] = h[f]
  BY DEF HostTyped, Generated
<1>2. HostTyped(Stepped(h)) /\ \A f \in {"seeded", "dirty", "pinned", "last"} :
        Stepped(h)[f] = h[f]
  BY DEF HostTyped, Stepped
<1>3. QED BY <1>1, <1>2

LEMMA WorkTyped ==
  ASSUME NEW op \in OpNames, NEW s \in Streams \cup {None}, NEW n \in Int
  PROVE  /\ Work(op, s, n) \in Ops
         /\ Work(op, s, n).op = op /\ Work(op, s, n).s = s /\ Work(op, s, n).n = n
BY DEF Work, Ops

-----------------------------------------------------------------------------
(* What a call has to do when it begins. *)

\* Work that is no reset and decides no token alone.
PlainWork == {o \in Ops : /\ o.op \notin {"zero", "seed", "cfg", "forward", "graph"}
                          /\ o.op = "wait" => o.s \in Streams
                          /\ o.op = "table" => o.s \in Sessions}

LEMMA PlainSteps ==
  ASSUME NEW c, c.todo \in Seq(PlainWork), c.c \notin {"reset", "none"}, c.failed = FALSE
  PROVE  c.todo \in Seq(Ops) /\ StepsOK(c)
<1>1. \A i \in DOMAIN c.todo : c.todo[i] \in PlainWork
  OBVIOUS
<1>2. c.todo \in Seq(Ops)
  BY DEF PlainWork
<1>3. ASSUME NEW i \in DOMAIN c.todo
      PROVE  StepAt(c, i)
  BY <1>1 DEF StepAt, PlainWork
<1>4. QED BY <1>2, <1>3 DEF StepsOK

PlainNames == OpNames \ {"zero", "seed", "cfg", "forward", "graph", "wait", "table"}

LEMMA PlainIs ==
  ASSUME NEW op \in PlainNames, NEW s \in Streams \cup {None}, NEW n \in Int
  PROVE  Work(op, s, n) \in PlainWork
<1>1. op \in OpNames /\ op \notin {"zero", "seed", "cfg", "forward", "graph", "wait", "table"}
  BY DEF PlainNames
<1>2. Work(op, s, n) \in Ops /\ Work(op, s, n).op = op
  BY <1>1, WorkTyped
<1>3. QED BY <1>1, <1>2 DEF PlainWork

LEMMA PlainWith ==
  ASSUME NEW op \in PlainNames, NEW s \in Streams \cup {None}, NEW n \in Int,
         NEW b \in Seq(Streams)
  PROVE  [Work(op, s, n) EXCEPT !.b = b] \in PlainWork
<1>1. op \in OpNames /\ op \notin {"zero", "seed", "cfg", "forward", "graph", "wait", "table"}
  BY DEF PlainNames
<1> DEFINE W == [Work(op, s, n) EXCEPT !.b = b]
<1>2. W \in Ops /\ W.op = op
  BY <1>1 DEF Work, Ops
<1> HIDE DEF W
<1>3. W \in PlainWork
  BY <1>1, <1>2 DEF PlainWork
<1>4. QED BY <1>3 DEF W

LEMMA NamesPlain ==
  {"ids", "prefill", "mirror", "sync", "rows", "reads", "layers", "argmax", "advance",
   "pointers", "carve"} \subseteq PlainNames
BY DEF PlainNames, OpNames

LEMMA TablePlain ==
  ASSUME NEW s \in Sessions, NEW n \in Int
  PROVE  Work("table", s, n) \in PlainWork
<1>1. "table" \in OpNames /\ s \in Streams \cup {None}
  BY DEF OpNames
<1>2. Work("table", s, n) \in Ops /\ Work("table", s, n).op = "table"
      /\ Work("table", s, n).s = s
  BY <1>1, WorkTyped
<1>3. QED BY <1>2 DEF PlainWork

LEMMA PrefillPlain ==
  ASSUME NEW s \in Sessions, job[s] \in Jobs, Typed
  PROVE  PrefillSteps(s) \in Seq(PlainWork)
<1>1. Prompt[job[s]] \in Int /\ host[s].len + Prompt[job[s]] \in Int
  BY NativeAssumption DEF NativeAssumption, Typed, HostTyped
<1>2. \A n \in Int : /\ \A op \in {"ids", "prefill", "mirror", "sync"} :
                          Work(op, s, n) \in PlainWork
                     /\ Work("table", s, n) \in PlainWork
  BY PlainIs, NamesPlain, TablePlain
<1>3. QED BY <1>1, <1>2 DEF PrefillSteps

LEMMA GroupPlain ==
  ASSUME NEW s \in Sessions
  PROVE  AddSteps(s) \in Seq(PlainWork) /\ RemoveSteps(s) \in Seq(PlainWork)
<1> DEFINE W(x, y) == [Work("wait", y, 0) EXCEPT !.b = <<x>>]
<1>1. \A x, y \in Streams : W(x, y) \in PlainWork
  <2> TAKE x, y \in Streams
  <2>1. <<x>> \in Seq(Streams)
    OBVIOUS
  <2>2. W(x, y) \in Ops /\ W(x, y).op = "wait" /\ W(x, y).s = y
    <3>1. "wait" \in OpNames /\ y \in Streams \cup {None} /\ 0 \in Int
      BY DEF OpNames
    <3>2. QED BY <2>1, <3>1 DEF Work, Ops
  <2>3. QED BY <2>2 DEF PlainWork
<1>2. Work("pointers", s, 0) \in PlainWork
  BY PlainIs, NamesPlain
<1> HIDE DEF W
<1>3. \A x, y \in Streams : Chain(x, y) \in Seq(PlainWork)
  BY <1>1 DEF Chain, W
<1>4. <<Work("pointers", s, 0)>> \in Seq(PlainWork)
  BY <1>2
<1>5. QED BY <1>3, <1>4 DEF AddSteps, RemoveSteps

LEMMA BatchPlain ==
  ASSUME NEW b \in Seq(Sessions), Typed
  PROVE  BatchSteps(b) \in Seq(PlainWork)
<1>1. [i \in DOMAIN b |-> Work("table", b[i], host[b[i]].len + 1)] \in Seq(PlainWork)
  <2>1. ASSUME NEW i \in DOMAIN b
        PROVE  Work("table", b[i], host[b[i]].len + 1) \in PlainWork
    <3>1. b[i] \in Sessions /\ host[b[i]].len + 1 \in Int
      BY DEF Typed, HostTyped
    <3>2. QED BY <3>1, TablePlain
  <2>2. QED BY <2>1
<1> DEFINE R == [Work("rows", None, 0) EXCEPT !.b = b]
           D == [Work("reads", None, 0) EXCEPT !.b = b]
<1>2. R \in PlainWork /\ D \in PlainWork
  <2>1. b \in Seq(Streams)
    OBVIOUS
  <2>2. "rows" \in PlainNames /\ "reads" \in PlainNames /\ None \in Streams \cup {None}
        /\ 0 \in Int
    BY NamesPlain
  <2>3. QED BY <2>1, <2>2, PlainWith
<1>3. \A op \in {"layers", "argmax", "advance", "sync"} : Work(op, None, 0) \in PlainWork
  <2>1. None \in Streams \cup {None} /\ 0 \in Int
    OBVIOUS
  <2>2. QED BY <2>1, PlainIs, NamesPlain
<1> HIDE DEF R, D
<1>4. <<R, D, Work("layers", None, 0), Work("argmax", None, 0), Work("advance", None, 0),
        Work("sync", None, 0)>> \in Seq(PlainWork)
  BY <1>2, <1>3
<1>5. QED BY <1>1, <1>4 DEF BatchSteps, R, D

LEMMA ResetShape ==
  ASSUME NEW c, NEW s \in Sessions, c.c = "reset", c.s = s, c.failed = FALSE,
         c.todo = ResetSteps(s)
  PROVE  c.todo \in Seq(Ops) /\ StepsOK(c) /\ c.todo # <<>>
<1> DEFINE Z == Work("zero", s, 0)
           Y == Work("sync", s, 0)
<1>1. Z \in Ops /\ Z.op = "zero" /\ Z.s = s /\ Y \in Ops /\ Y.op = "sync"
  BY WorkTyped DEF OpNames
<1>2. c.todo = <<Z, Y>>
  BY DEF ResetSteps
<1> HIDE DEF Z, Y
<1>3. QED BY <1>1, <1>2 DEF StepsOK, StepAt

LEMMA DecodeShape ==
  ASSUME NEW c, NEW s \in Sessions, c.c = "decode", c.s = s, c.failed = FALSE,
         c.todo = DecodeSteps(s), Typed
  PROVE  /\ c.todo \in Seq(Ops) /\ StepsOK(c)
         /\ \E i \in DOMAIN c.todo : c.todo[i].op = "seed"
         /\ \E i \in DOMAIN c.todo : c.todo[i].op = "cfg"
<1> DEFINE n == host[s].len + 1
           W(op) == Work(op, s, 0)
           N(op) == Work(op, s, n)
<1>1. n \in Int
  BY DEF Typed, HostTyped
<1>2. \A op \in OpNames : /\ W(op) \in Ops /\ W(op).op = op /\ W(op).s = s
                          /\ N(op) \in Ops /\ N(op).op = op /\ N(op).s = s
  BY <1>1, WorkTyped
<1>3. c.todo = IF s \in Graphs
               THEN <<W("seed"), W("cfg"), N("table"), W("graph"), W("sync")>>
               ELSE <<W("seed"), W("cfg"), W("read"), N("table"), W("forward"), W("sync"),
                      N("mirror")>>
  BY DEF DecodeSteps
<1> HIDE DEF W, N, n
<1>4. CASE s \in Graphs
  <2>1. c.todo = <<W("seed"), W("cfg"), N("table"), W("graph"), W("sync")>>
    BY <1>3, <1>4
  <2>2. /\ c.todo \in Seq(Ops) /\ Len(c.todo) = 5 /\ DOMAIN c.todo = 1 .. 5
        /\ c.todo[1].op = "seed" /\ c.todo[2].op = "cfg" /\ c.todo[3].op = "table"
        /\ c.todo[4].op = "graph" /\ c.todo[5].op = "sync"
        /\ \A i \in 1 .. 5 : c.todo[i].s = s
    BY <1>2, <2>1 DEF OpNames
  <2>3. ASSUME NEW i \in 1 .. 5
        PROVE  StepAt(c, i)
    BY <2>2 DEF StepAt
  <2>4. QED BY <2>2, <2>3 DEF StepsOK
<1>5. CASE s \notin Graphs
  <2>1. c.todo = <<W("seed"), W("cfg"), W("read"), N("table"), W("forward"), W("sync"),
                   N("mirror")>>
    BY <1>3, <1>5
  <2>2. /\ c.todo \in Seq(Ops) /\ Len(c.todo) = 7 /\ DOMAIN c.todo = 1 .. 7
        /\ c.todo[1].op = "seed" /\ c.todo[2].op = "cfg" /\ c.todo[3].op = "read"
        /\ c.todo[4].op = "table" /\ c.todo[5].op = "forward" /\ c.todo[6].op = "sync"
        /\ c.todo[7].op = "mirror" /\ \A i \in 1 .. 7 : c.todo[i].s = s
    BY <1>2, <2>1 DEF OpNames
  <2>3. ASSUME NEW i \in 1 .. 7
        PROVE  StepAt(c, i)
    BY <2>2 DEF StepAt
  <2>4. QED BY <2>2, <2>3 DEF StepsOK
<1>6. QED BY <1>4, <1>5

\* A call that may begin.
Callable(c) ==
  /\ CallTyped(c) /\ c.todo = <<>> /\ c.failed = FALSE /\ c.c # "none"
  /\ c.c \in OwnCalls \cup {"add"} => c.s \in Sessions
  /\ c.c = "prefill" => job[c.s] \in Jobs
  /\ c.c = "step" => c.b \in Seq(Sessions)

LEMMA CallIs ==
  ASSUME NEW k \in OwnCalls \cup GroupCalls, k # "step", NEW s,
         k \in OwnCalls \cup {"add"} => s \in Sessions,
         k = "prefill" => job[s] \in Jobs
  PROVE  Callable(Call(k, s)) /\ Call(k, s).c = k /\ Call(k, s).s = s
BY DEF Callable, CallTyped, Call, NoCall, OwnCalls, GroupCalls

LEMMA StepCallIs ==
  ASSUME NEW b \in Seq(Sessions)
  PROVE  Callable(StepCall(b)) /\ StepCall(b).c = "step"
BY DEF Callable, CallTyped, StepCall, NoCall, OwnCalls, GroupCalls

LEMMA StepsOfShape ==
  ASSUME Typed, NEW c, Callable(c),
         NEW d, d.c = c.c, d.s = c.s, d.failed = FALSE, d.todo = StepsOf(c)
  PROVE  /\ d.todo \in Seq(Ops) /\ StepsOK(d)
         /\ c.c = "reset" => d.todo # <<>>
         /\ c.c = "decode" => /\ \E i \in DOMAIN d.todo : d.todo[i].op = "seed"
                              /\ \E i \in DOMAIN d.todo : d.todo[i].op = "cfg"
<1>1. c.c \in OwnCalls \cup GroupCalls
  BY DEF Callable, CallTyped
<1>2. CASE c.c = "reset"
  <2>1. d.todo = ResetSteps(c.s) /\ c.s \in Sessions
    BY <1>2 DEF StepsOf, Callable, OwnCalls
  <2>2. QED BY <1>2, <2>1, ResetShape
<1>3. CASE c.c = "decode"
  <2>1. d.todo = DecodeSteps(c.s) /\ c.s \in Sessions
    BY <1>3 DEF StepsOf, Callable, OwnCalls
  <2>2. QED BY <1>3, <2>1, DecodeShape
<1>4. CASE c.c \notin {"reset", "decode"}
  <2>1. d.todo \in Seq(PlainWork)
    <3>1. CASE c.c = "prefill"
      <4>1. d.todo = PrefillSteps(c.s) /\ c.s \in Sessions /\ job[c.s] \in Jobs
        BY <3>1 DEF StepsOf, Callable, OwnCalls
      <4>2. QED BY <4>1, PrefillPlain
    <3>2. CASE c.c = "add"
      <4>1. d.todo = AddSteps(c.s) /\ c.s \in Sessions
        BY <3>2 DEF StepsOf, Callable
      <4>2. QED BY <4>1, GroupPlain
    <3>3. CASE c.c = "remove"
      <4>1. d.todo = RemoveSteps(c.s) /\ c.s \in Sessions
        BY <3>3 DEF StepsOf, Callable, OwnCalls
      <4>2. QED BY <4>1, GroupPlain
    <3>4. CASE c.c = "step"
      <4>1. d.todo = BatchSteps(c.b) /\ c.b \in Seq(Sessions)
        BY <3>4 DEF StepsOf, Callable
      <4>2. QED BY <4>1, BatchPlain
    <3>5. CASE c.c \in {"create", "destroy"}
      <4>1. d.todo = <<Work("carve", None, 0)>> \/ d.todo = <<Work("sync", None, 0)>>
        BY <3>5 DEF StepsOf
      <4>2. None \in Streams \cup {None} /\ 0 \in Int
        OBVIOUS
      <4>3. Work("carve", None, 0) \in PlainWork /\ Work("sync", None, 0) \in PlainWork
        BY <4>2, PlainIs, NamesPlain
      <4>4. \A w \in PlainWork : <<w>> \in Seq(PlainWork)
        OBVIOUS
      <4>5. QED BY <4>1, <4>3, <4>4
    <3>6. QED BY <1>1, <1>4, <3>1, <3>2, <3>3, <3>4, <3>5 DEF OwnCalls, GroupCalls
  <2>2. d.c \notin {"reset", "none"}
    BY <1>4 DEF Callable
  <2>3. QED BY <1>4, <2>1, <2>2, PlainSteps
<1>5. QED BY <1>2, <1>3, <1>4

\* A call with nothing left to do.
LEMMA Nothing ==
  ASSUME NEW d, {"c", "s", "b", "todo", "failed", "out"} \subseteq DOMAIN d,
         d.c \in OwnCalls \cup GroupCalls \cup {"none"}, d.todo = <<>>, d.failed \in BOOLEAN,
         d.c = "reset" => d.failed = FALSE
  PROVE  CallTyped(d) /\ StepsOK(d)
<1>1. d.todo \in Seq(Ops) /\ DOMAIN d.todo = {}
  OBVIOUS
<1>2. CallTyped(d)
  BY <1>1 DEF CallTyped
<1>3. StepsOK(d)
  BY <1>1 DEF StepsOK
<1>4. QED BY <1>2, <1>3

\* The call that begins.
LEMMA BeginMakes ==
  ASSUME Typed, NEW c, Callable(c), Begin(c)
  PROVE  /\ CallTyped(call') /\ StepsOK(call') /\ call'.c = c.c /\ call'.s = c.s
         /\ c.c = "reset" => call'.todo # <<>>
         /\ c.c = "decode" /\ call'.failed = FALSE /\ call'.todo # <<>> =>
              /\ \E i \in DOMAIN call'.todo : call'.todo[i].op = "seed"
              /\ \E i \in DOMAIN call'.todo : call'.todo[i].op = "cfg"
<1> DEFINE d == [c EXCEPT !.todo = StepsOf(c)]
<1>1. {"c", "s", "b", "todo", "failed", "out"} \subseteq DOMAIN c /\ c.todo = <<>> /\ c.failed = FALSE
      /\ c.c \in OwnCalls \cup GroupCalls \cup {"none"} /\ c.c # "none"
  BY DEF Callable, CallTyped
<1>2. CASE Refused(c)
  <2>1. call' = [c EXCEPT !.failed = TRUE] /\ c.c # "reset"
    BY <1>2 DEF Begin, Refused
  <2>2. call'.todo = <<>> /\ call'.failed = TRUE /\ call'.c = c.c /\ call'.s = c.s
        /\ {"c", "s", "b", "todo", "failed", "out"} \subseteq DOMAIN call'
    BY <1>1, <2>1
  <2>3. CallTyped(call') /\ StepsOK(call')
    BY <1>1, <2>1, <2>2, Nothing
  <2>4. QED BY <1>1, <2>1, <2>2, <2>3
<1>3. CASE ~ Refused(c) /\ AtLimit(c)
  <2>1. call' = [c EXCEPT !.out = Eos] /\ c.c = "decode"
    BY <1>3 DEF Begin, AtLimit
  <2>2. call'.todo = <<>> /\ call'.failed = FALSE /\ call'.c = c.c /\ call'.s = c.s
        /\ {"c", "s", "b", "todo", "failed", "out"} \subseteq DOMAIN call'
    BY <1>1, <2>1
  <2>3. CallTyped(call') /\ StepsOK(call')
    BY <1>1, <2>1, <2>2, Nothing
  <2>4. QED BY <1>1, <2>1, <2>2, <2>3
<1>4. CASE ~ Refused(c) /\ ~ AtLimit(c)
  <2>1. call' = d
    BY <1>4 DEF Begin
  <2>2. d.todo = StepsOf(c) /\ d.failed = FALSE /\ d.c = c.c /\ d.s = c.s
        /\ {"c", "s", "b", "todo", "failed", "out"} \subseteq DOMAIN d
    BY <1>1
  <2> HIDE DEF d
  <2>3. /\ d.todo \in Seq(Ops) /\ StepsOK(d)
        /\ c.c = "reset" => d.todo # <<>>
        /\ c.c = "decode" => /\ \E i \in DOMAIN d.todo : d.todo[i].op = "seed"
                             /\ \E i \in DOMAIN d.todo : d.todo[i].op = "cfg"
    BY <2>2, StepsOfShape
  <2>4. CallTyped(d)
    BY <1>1, <2>2, <2>3 DEF CallTyped
  <2>5. QED BY <2>1, <2>2, <2>3, <2>4
<1>5. QED BY <1>2, <1>3, <1>4

\* What the host remembers after it.
LEMMA BeginForgets ==
  ASSUME Typed, NEW c, Callable(c), Begin(c)
  PROVE  /\ DOMAIN host' = Sessions /\ \A s \in Sessions : HostTyped(host'[s])
         /\ c.c # "reset" => host' = host
         /\ c.c = "reset" => /\ host'[c.s].seeded = FALSE /\ host'[c.s].dirty = TRUE
                             /\ \A s \in Sessions \ {c.s} : host'[s] = host[s]
<1>1. DOMAIN host = Sessions /\ \A s \in Sessions : HostTyped(host[s])
  BY DEF Typed
<1>2. CASE c.c = "reset"
  <2>1. host' = [host EXCEPT ![c.s] = Forgotten(@)] /\ c.s \in Sessions
    BY <1>2 DEF Begin, Callable, OwnCalls
  <2>2. host'[c.s] = Forgotten(host[c.s]) /\ DOMAIN host' = Sessions
        /\ \A s \in Sessions \ {c.s} : host'[s] = host[s]
    BY <1>1, <2>1
  <2>3. HostTyped(Forgotten(host[c.s])) /\ Forgotten(host[c.s]).seeded = FALSE
        /\ Forgotten(host[c.s]).dirty = TRUE
    BY <1>1, <2>1 DEF HostTyped, Forgotten
  <2>4. QED BY <1>1, <1>2, <2>2, <2>3
<1>3. CASE c.c # "reset"
  BY <1>1, <1>3 DEF Begin
<1>4. QED BY <1>2, <1>3

-----------------------------------------------------------------------------
(* What the device does. *)

\* The head of a stream is gone, every other piece of work is where it was.
Taken(x) ==
  /\ x \in Streams /\ queue[x] # <<>>
  /\ queue' \in [Streams -> Seq(Ops)]
  /\ \A y \in Streams \ {x} :
       /\ Len(queue'[y]) = Len(queue[y])
       /\ \A i \in 1 .. Len(queue[y]) :
            queue'[y][i].op = queue[y][i].op /\ queue'[y][i].s = queue[y][i].s
  /\ Len(queue'[x]) = Len(queue[x]) - 1
  /\ \A i \in 1 .. Len(queue[x]) - 1 :
       queue'[x][i].op = queue[x][i + 1].op /\ queue'[x][i].s = queue[x][i + 1].s

LEMMA NearerKeeps ==
  ASSUME NEW o \in Ops, NEW x
  PROVE  Nearer(o, x) \in Ops /\ Nearer(o, x).op = o.op /\ Nearer(o, x).s = o.s
BY DEF Nearer, Ops

LEMMA TakeShifts ==
  ASSUME Typed, NEW x \in Streams, NEW op, Take(x, op)
  PROVE  /\ Taken(x) /\ queue[x][1].op = op /\ Head(queue[x]) = queue[x][1]
         /\ queue[x][1] \in Ops
         /\ UNCHANGED <<open, members, callers>>
<1>1. queue \in [Streams -> Seq(Ops)] /\ queue[x] # <<>>
  BY DEF Typed, Take
<1> DEFINE rest(y) == IF y = x THEN Tail(queue[y]) ELSE queue[y]
<1>2. \A y \in Streams : rest(y) \in Seq(Ops)
  BY <1>1
<1>3. \A y \in Streams \ {x} : rest(y) = queue[y]
  OBVIOUS
<1>4. Len(rest(x)) = Len(queue[x]) - 1
      /\ \A i \in 1 .. Len(queue[x]) - 1 : rest(x)[i] = queue[x][i + 1]
  BY <1>1
<1>5. queue' = [y \in Streams |-> [i \in DOMAIN rest(y) |-> Nearer(rest(y)[i], x)]]
  BY DEF Take
<1> HIDE DEF rest
<1>6. \A y \in Streams :
        /\ queue'[y] \in Seq(Ops) /\ Len(queue'[y]) = Len(rest(y))
        /\ \A i \in 1 .. Len(rest(y)) :
             queue'[y][i].op = rest(y)[i].op /\ queue'[y][i].s = rest(y)[i].s
  <2> TAKE y \in Streams
  <2>1. queue'[y] = [i \in 1 .. Len(rest(y)) |-> Nearer(rest(y)[i], x)]
    BY <1>2, <1>5
  <2>2. \A i \in 1 .. Len(rest(y)) : rest(y)[i] \in Ops
    BY <1>2
  <2>3. \A i \in 1 .. Len(rest(y)) :
          /\ queue'[y][i] \in Ops
          /\ queue'[y][i].op = rest(y)[i].op /\ queue'[y][i].s = rest(y)[i].s
    BY <2>1, <2>2, NearerKeeps
  <2>4. Len(rest(y)) \in Nat
    BY <1>2
  <2>5. QED BY <2>1, <2>3, <2>4
<1>7. queue' \in [Streams -> Seq(Ops)]
  BY <1>5, <1>6
<1>8. Taken(x)
  <2>1. \A y \in Streams \ {x} :
          /\ Len(queue'[y]) = Len(queue[y])
          /\ \A i \in 1 .. Len(queue[y]) :
               queue'[y][i].op = queue[y][i].op /\ queue'[y][i].s = queue[y][i].s
    BY <1>3, <1>6
  <2>2. \A i \in 1 .. Len(queue[x]) - 1 :
          queue'[x][i].op = queue[x][i + 1].op /\ queue'[x][i].s = queue[x][i + 1].s
    BY <1>4, <1>6
  <2>3. QED BY <1>1, <1>4, <1>6, <1>7, <2>1, <2>2 DEF Taken
<1>9. QED BY <1>1, <1>8 DEF Take

SameBelief(s) == \A f \in {"seeded", "dirty", "pinned", "last"} : host'[s][f] = host[s][f]

HostsKept ==
  /\ DOMAIN host' = Sessions
  /\ \A s \in Sessions : HostTyped(host'[s]) /\ SameBelief(s)

DevTyped ==
  /\ DOMAIN dev' = Sessions
  /\ \A s \in Sessions : {"cfg", "seed"} \subseteq DOMAIN dev'[s]

\* What one piece of work does to the seeds and the configurations.
Sets(o, s) ==
  /\ o.op = "seed" /\ o.s = s => dev'[s].seed = job[s]
  /\ o.op = "cfg" /\ o.s = s => dev'[s].cfg = host[s].pinned
  /\ ~ (o.op = "zero" /\ o.s = s) =>
       /\ dev'[s].seed \in {dev[s].seed, job[s]}
       /\ dev'[s].cfg = dev[s].cfg \/ (o.op = "cfg" /\ o.s = s)

Ran(x) ==
  /\ HostsKept /\ DevTyped
  /\ queue[x][1].op \in {"zero", "seed", "cfg"} => x \in Sessions
  /\ \A s \in Sessions : Sets(queue[x][1], s)

DevKept ==
  /\ DevTyped
  /\ \A s \in Sessions : dev'[s].seed = dev[s].seed /\ dev'[s].cfg = dev[s].cfg

LEMMA QuietRan ==
  ASSUME NEW x, HostsKept, DevKept, queue[x][1].op \notin {"zero", "seed", "cfg"}
  PROVE  Ran(x)
BY DEF Ran, DevKept, Sets

LEMMA HostSame ==
  ASSUME Typed, host' = host
  PROVE  HostsKept
BY DEF Typed, HostsKept, SameBelief

LEMMA DevSame ==
  ASSUME Typed, dev' = dev
  PROVE  DevKept
BY DEF Typed, DevKept, DevTyped

LEMMA CachedKeeps ==
  ASSUME NEW d, {"cfg", "seed"} \subseteq DOMAIN d
  PROVE  {"cfg", "seed"} \subseteq DOMAIN Cached(d)
         /\ Cached(d).cfg = d.cfg /\ Cached(d).seed = d.seed
BY DEF Cached

LEMMA OnlyRan ==
  ASSUME Typed, NEW x \in Streams, NEW op, NEW new, Only(x, op, new)
  PROVE  /\ Taken(x) /\ queue[x][1].op = op /\ UNCHANGED <<open, members, callers>>
         /\ HostsKept
         /\ DOMAIN dev' = Sessions
         /\ \A s \in Sessions : dev'[s] = IF s = queue[x][1].s THEN new[s] ELSE dev[s]
<1>1. Taken(x) /\ queue[x][1].op = op /\ Head(queue[x]) = queue[x][1]
      /\ UNCHANGED <<open, members, callers>>
  BY TakeShifts DEF Only
<1>2. dev' = [dev EXCEPT ![queue[x][1].s] = new[queue[x][1].s]] /\ host' = host
  BY <1>1 DEF Only
<1>3. DOMAIN dev = Sessions
  BY DEF Typed
<1>4. QED BY <1>1, <1>2, <1>3, HostSame

\* The work of a session alone.
LEMMA OwnRuns ==
  ASSUME Typed, NEW x \in Sessions,
         RunZero(x) \/ RunMirror(x) \/ RunIds(x) \/ RunSeed(x) \/ RunConfig(x)
  PROVE  Taken(x) /\ Ran(x) /\ UNCHANGED <<open, members, callers>>
<1>1. x \in Streams /\ \A s \in Sessions : {"cfg", "seed"} \subseteq DOMAIN dev[s]
  BY DEF Typed
<1> DEFINE o == queue[x][1]
<1>2. CASE RunZero(x)
  <2> DEFINE new == [s \in Sessions |-> [dev[s] EXCEPT !.len = 0, !.cfg = "zero", !.seed = None]]
  <2>1. \A s \in Sessions : {"cfg", "seed"} \subseteq DOMAIN new[s]
    BY <1>1
  <2>2. Only(x, "zero", new)
    BY <1>2 DEF RunZero
  <2> HIDE DEF new
  <2>3. /\ Taken(x) /\ o.op = "zero" /\ UNCHANGED <<open, members, callers>> /\ HostsKept
        /\ DOMAIN dev' = Sessions
        /\ \A s \in Sessions : dev'[s] = IF s = o.s THEN new[s] ELSE dev[s]
    BY <1>1, <2>2, OnlyRan
  <2>4. DevTyped
    BY <1>1, <2>1, <2>3 DEF DevTyped
  <2>5. \A s \in Sessions : Sets(o, s)
    BY <2>3 DEF Sets
  <2>6. QED BY <2>3, <2>4, <2>5 DEF Ran
<1>3. CASE RunSeed(x)
  <2> DEFINE new == [s \in Sessions |-> [dev[s] EXCEPT !.seed = job[s]]]
  <2>1. \A s \in Sessions : {"cfg", "seed"} \subseteq DOMAIN new[s]
          /\ new[s].seed = job[s] /\ new[s].cfg = dev[s].cfg
    BY <1>1
  <2>2. Only(x, "seed", new)
    BY <1>3 DEF RunSeed
  <2> HIDE DEF new
  <2>3. /\ Taken(x) /\ o.op = "seed" /\ UNCHANGED <<open, members, callers>> /\ HostsKept
        /\ DOMAIN dev' = Sessions
        /\ \A s \in Sessions : dev'[s] = IF s = o.s THEN new[s] ELSE dev[s]
    BY <1>1, <2>2, OnlyRan
  <2>4. DevTyped
    BY <1>1, <2>1, <2>3 DEF DevTyped
  <2>5. \A s \in Sessions : Sets(o, s)
    BY <2>1, <2>3 DEF Sets
  <2>6. QED BY <2>3, <2>4, <2>5 DEF Ran
<1>4. CASE RunConfig(x)
  <2> DEFINE new == [s \in Sessions |-> [dev[s] EXCEPT !.cfg = host[s].pinned]]
  <2>1. \A s \in Sessions : {"cfg", "seed"} \subseteq DOMAIN new[s]
          /\ new[s].seed = dev[s].seed /\ new[s].cfg = host[s].pinned
    BY <1>1
  <2>2. Only(x, "cfg", new)
    BY <1>4 DEF RunConfig
  <2> HIDE DEF new
  <2>3. /\ Taken(x) /\ o.op = "cfg" /\ UNCHANGED <<open, members, callers>> /\ HostsKept
        /\ DOMAIN dev' = Sessions
        /\ \A s \in Sessions : dev'[s] = IF s = o.s THEN new[s] ELSE dev[s]
    BY <1>1, <2>2, OnlyRan
  <2>4. DevTyped
    BY <1>1, <2>1, <2>3 DEF DevTyped
  <2>5. \A s \in Sessions : Sets(o, s)
    BY <2>1, <2>3 DEF Sets
  <2>6. QED BY <2>3, <2>4, <2>5 DEF Ran
<1>5. ASSUME NEW op, op \notin {"zero", "seed", "cfg"}, NEW new, Only(x, op, new),
             \A s \in Sessions : {"cfg", "seed"} \subseteq DOMAIN new[s]
                                 /\ new[s].seed = dev[s].seed /\ new[s].cfg = dev[s].cfg
      PROVE  Taken(x) /\ Ran(x) /\ UNCHANGED <<open, members, callers>>
  <2>1. /\ Taken(x) /\ o.op = op /\ UNCHANGED <<open, members, callers>> /\ HostsKept
        /\ DOMAIN dev' = Sessions
        /\ \A s \in Sessions : dev'[s] = IF s = o.s THEN new[s] ELSE dev[s]
    BY <1>1, <1>5, OnlyRan
  <2>2. DevKept
    BY <1>1, <1>5, <2>1 DEF DevKept, DevTyped
  <2>3. QED BY <1>5, <2>1, <2>2, QuietRan
<1>6. CASE RunMirror(x)
  <2> DEFINE new == [s \in Sessions |-> [dev[s] EXCEPT !.len = Head(queue[x]).n]]
  <2>1. \A s \in Sessions : {"cfg", "seed"} \subseteq DOMAIN new[s]
          /\ new[s].seed = dev[s].seed /\ new[s].cfg = dev[s].cfg
    BY <1>1
  <2>2. Only(x, "mirror", new)
    BY <1>6 DEF RunMirror
  <2> HIDE DEF new
  <2>3. QED BY <1>5, <2>1, <2>2
<1>7. CASE RunIds(x)
  <2> DEFINE new == [s \in Sessions |-> [dev[s] EXCEPT !.ids = job[s]]]
  <2>1. \A s \in Sessions : {"cfg", "seed"} \subseteq DOMAIN new[s]
          /\ new[s].seed = dev[s].seed /\ new[s].cfg = dev[s].cfg
    BY <1>1
  <2>2. Only(x, "ids", new)
    BY <1>7 DEF RunIds
  <2> HIDE DEF new
  <2>3. QED BY <1>5, <2>1, <2>2
<1>8. QED BY <1>2, <1>3, <1>4, <1>6, <1>7

LEMMA TableRuns ==
  ASSUME Typed, NEW x \in Streams, RunTable(x)
  PROVE  Taken(x) /\ Ran(x) /\ UNCHANGED <<open, members, callers>>
<1> DEFINE o == queue[x][1]
           new == [s \in Sessions |-> [dev[s] EXCEPT !.table = Max({@, Head(queue[x]).n})]]
<1>1. \A s \in Sessions : {"cfg", "seed"} \subseteq DOMAIN dev[s]
  BY DEF Typed
<1>2. \A s \in Sessions : {"cfg", "seed"} \subseteq DOMAIN new[s]
        /\ new[s].seed = dev[s].seed /\ new[s].cfg = dev[s].cfg
  BY <1>1
<1>3. Only(x, "table", new)
  BY DEF RunTable
<1> HIDE DEF new
<1>4. /\ Taken(x) /\ o.op = "table" /\ UNCHANGED <<open, members, callers>> /\ HostsKept
      /\ DOMAIN dev' = Sessions
      /\ \A s \in Sessions : dev'[s] = IF s = o.s THEN new[s] ELSE dev[s]
  BY <1>3, OnlyRan
<1>5. DevKept
  BY <1>1, <1>2, <1>4 DEF DevKept, DevTyped
<1>6. QED BY <1>4, <1>5, QuietRan

\* The passes and the reads of a session alone.
LEMMA PassRuns ==
  ASSUME Typed, NEW x \in Sessions,
         RunPrefill(x) \/ RunRead(x) \/ RunForward(x) \/ RunGraph(x)
  PROVE  Taken(x) /\ Ran(x) /\ UNCHANGED <<open, members, callers>>
<1>1. /\ x \in Streams /\ DOMAIN dev = Sessions /\ DOMAIN host = Sessions
      /\ \A s \in Sessions : {"cfg", "seed"} \subseteq DOMAIN dev[s]
      /\ \A s \in Sessions : HostTyped(host[s])
  BY DEF Typed
<1>2. ASSUME NEW s, NEW d, NEW v, NEW n,
             s \in Sessions => {"cfg", "seed"} \subseteq DOMAIN d
                               /\ d.seed = dev[s].seed /\ d.cfg = dev[s].cfg,
             \/ dev' = [dev EXCEPT ![s] = [d EXCEPT !.next = v]]
             \/ dev' = [dev EXCEPT ![s] = [d EXCEPT !.next = v, !.len = n]]
      PROVE  DevKept
  BY <1>1, <1>2 DEF DevKept, DevTyped
<1>3. ASSUME NEW v, host' = [host EXCEPT ![x].got = v]
      PROVE  HostsKept
  BY <1>1, <1>3 DEF HostsKept, SameBelief, HostTyped
<1>4. CASE RunPrefill(x)
  <2>1. Taken(x) /\ queue[x][1].op = "prefill" /\ UNCHANGED <<open, members, callers>>
        /\ host' = host
    BY <1>1, <1>4, TakeShifts DEF RunPrefill
  <2> DEFINE s == Head(queue[x]).s
             n == Head(queue[x]).n
             d == dev[s]
             kv == [p \in Positions |->
                      IF \E q \in d.len .. d.len + n - 1 : Place(d, q) = p
                      THEN Token(d.ids, p - d.len) ELSE d.kv[p]]
             filled == [d EXCEPT !.kv = kv]
  <2>2. \E t \in Decided(filled, d.ids, d.len + n) :
          dev' = [dev EXCEPT ![s] = [filled EXCEPT !.next = t]]
    BY <1>4 DEF RunPrefill
  <2> HIDE DEF kv
  <2>3. s \in Sessions => {"cfg", "seed"} \subseteq DOMAIN filled
          /\ filled.seed = dev[s].seed /\ filled.cfg = dev[s].cfg
    BY <1>1
  <2> HIDE DEF filled, s, n, d
  <2>4. PICK t : dev' = [dev EXCEPT ![s] = [filled EXCEPT !.next = t]]
    BY <2>2
  <2>5. DevKept
    BY <1>2, <2>3, <2>4
  <2>6. QED BY <2>1, <2>5, HostSame, QuietRan
<1>5. CASE RunRead(x)
  <2>1. Taken(x) /\ queue[x][1].op = "read" /\ UNCHANGED <<open, members, callers>>
        /\ dev' = dev /\ host' = [host EXCEPT ![x].got = dev[x].next]
    BY <1>1, <1>5, TakeShifts DEF RunRead
  <2>2. HostsKept
    BY <1>3, <2>1
  <2>3. QED BY <2>1, <2>2, DevSame, QuietRan
<1>6. {"cfg", "seed"} \subseteq DOMAIN Cached(dev[x])
      /\ Cached(dev[x]).cfg = dev[x].cfg /\ Cached(dev[x]).seed = dev[x].seed
  BY <1>1, CachedKeeps
<1>7. CASE RunForward(x)
  <2>1. Taken(x) /\ queue[x][1].op = "forward" /\ UNCHANGED <<open, members, callers>>
        /\ host' = host
    BY <1>1, <1>7, TakeShifts DEF RunForward
  <2>2. PICK t : dev' = [dev EXCEPT ![x] = [Cached(dev[x]) EXCEPT !.next = t]]
    BY <1>7 DEF RunForward
  <2>3. DevKept
    BY <1>2, <1>6, <2>2
  <2>4. QED BY <2>1, <2>3, HostSame, QuietRan
<1>8. CASE RunGraph(x)
  <2>1. Taken(x) /\ queue[x][1].op = "graph" /\ UNCHANGED <<open, members, callers>>
        /\ host' = [host EXCEPT ![x].got = dev[x].next]
    BY <1>1, <1>8, TakeShifts DEF RunGraph
  <2>2. PICK t : dev' = [dev EXCEPT ![x] = [Cached(dev[x]) EXCEPT !.next = t,
                                                 !.len = Cached(dev[x]).len + 1]]
    BY <1>8 DEF RunGraph
  <2>3. DevKept
    BY <1>2, <1>6, <2>2
  <2>4. HostsKept
    BY <1>3, <2>1
  <2>5. QED BY <2>1, <2>3, <2>4, QuietRan
<1>9. QED BY <1>4, <1>5, <1>7, <1>8

\* The work of the group, and the waits.
LEMMA GroupRuns ==
  ASSUME Typed,
         RunRows \/ RunReads \/ RunLayers \/ RunArgmax \/ RunAdvance
  PROVE  Taken("group") /\ Ran("group") /\ UNCHANGED <<open, members, callers>>
<1>1. \A s \in Sessions : {"cfg", "seed"} \subseteq DOMAIN dev[s]
  BY DEF Typed
<1>2. \A op : Take("group", op) =>
        Taken("group") /\ queue["group"][1].op = op /\ UNCHANGED <<open, members, callers>>
  BY TakeShifts
<1>3. CASE RunRows \/ RunReads
  <2>1. /\ Taken("group") /\ queue["group"][1].op \in {"rows", "reads"}
        /\ UNCHANGED <<open, members, callers>> /\ dev' = dev /\ host' = host
    BY <1>2, <1>3 DEF RunRows, RunReads
  <2>2. QED BY <2>1, HostSame, DevSame, QuietRan
<1>4. CASE RunLayers
  <2>1. Taken("group") /\ queue["group"][1].op = "layers"
        /\ UNCHANGED <<open, members, callers>> /\ host' = host
    BY <1>2, <1>4 DEF RunLayers
  <2>2. dev' = [s \in Sessions |->
                  IF \E i \in Rows : group.rows[i] = s THEN Cached(dev[s]) ELSE dev[s]]
    BY <1>4 DEF RunLayers
  <2>3. DevKept
    BY <1>1, <2>2, CachedKeeps DEF DevKept, DevTyped
  <2>4. QED BY <2>1, <2>3, HostSame, QuietRan
<1>5. CASE RunArgmax
  <2>1. Taken("group") /\ queue["group"][1].op = "argmax"
        /\ UNCHANGED <<open, members, callers>> /\ host' = host
    BY <1>2, <1>5 DEF RunArgmax
  <2> DEFINE in(s) == \E i \in Rows : group.rows[i] = s
             v(s) == group.logits[CHOOSE i \in Rows : group.rows[i] = s]
  <2>2. dev' = [s \in Sessions |-> IF in(s) THEN [dev[s] EXCEPT !.next = v(s)] ELSE dev[s]]
    BY <1>5 DEF RunArgmax
  <2> HIDE DEF in, v
  <2>3. DevKept
    BY <1>1, <2>2 DEF DevKept, DevTyped
  <2>4. QED BY <2>1, <2>3, HostSame, QuietRan
<1>6. CASE RunAdvance
  <2>1. Taken("group") /\ queue["group"][1].op = "advance"
        /\ UNCHANGED <<open, members, callers>> /\ host' = host
    BY <1>2, <1>6 DEF RunAdvance
  <2> DEFINE in(s) == \E i \in Rows : group.rows[i] = s
  <2>2. dev' = [s \in Sessions |-> IF in(s) THEN [dev[s] EXCEPT !.len = @ + 1] ELSE dev[s]]
    BY <1>6 DEF RunAdvance
  <2> HIDE DEF in
  <2>3. DevKept
    BY <1>1, <2>2 DEF DevKept, DevTyped
  <2>4. QED BY <2>1, <2>3, HostSame, QuietRan
<1>7. QED BY <1>3, <1>4, <1>5, <1>6

LEMMA DeviceRuns ==
  ASSUME Typed, Device
  PROVE  \E x \in Streams : Taken(x) /\ Ran(x) /\ UNCHANGED <<open, members, callers>>
<1>1. ASSUME NEW x \in Streams, RunWait(x)
      PROVE  Taken(x) /\ Ran(x) /\ UNCHANGED <<open, members, callers>>
  <2>1. Taken(x) /\ queue[x][1].op = "wait" /\ UNCHANGED <<open, members, callers>>
        /\ dev' = dev /\ host' = host
    BY <1>1, TakeShifts DEF RunWait
  <2>2. QED BY <2>1, HostSame, DevSame, QuietRan
<1>2. Sessions \subseteq Streams /\ "group" \in Streams
  OBVIOUS
<1>3. QED BY <1>1, <1>2, OwnRuns, TableRuns, PassRuns, GroupRuns DEF Device

\* What is queued after a step of the device was queued before it.
LEMMA TakenHas ==
  ASSUME Typed, NEW x, Taken(x), NEW s \in Sessions, NEW op
  PROVE  /\ Has(s, op)' => Has(s, op)
         /\ Has(s, op) => Has(s, op)' \/ (x = s /\ queue[s][1].op = op)
<1>1. /\ s \in Streams /\ queue[s] \in Seq(Ops) /\ queue'[s] \in Seq(Ops)
      /\ DOMAIN queue[s] = 1 .. Len(queue[s]) /\ DOMAIN queue'[s] = 1 .. Len(queue'[s])
      /\ Len(queue[s]) \in Nat /\ Len(queue'[s]) \in Nat
  BY DEF Typed, Taken
<1>2. CASE x # s
  <2>1. Len(queue'[s]) = Len(queue[s])
        /\ \A i \in 1 .. Len(queue[s]) : queue'[s][i].op = queue[s][i].op
    BY <1>1, <1>2 DEF Taken
  <2>2. QED BY <1>1, <1>2, <2>1 DEF Has
<1>3. CASE x = s
  <2>1. Len(queue'[s]) = Len(queue[s]) - 1
        /\ \A i \in 1 .. Len(queue[s]) - 1 : queue'[s][i].op = queue[s][i + 1].op
    BY <1>3 DEF Taken
  <2>2. ASSUME NEW i \in 1 .. Len(queue'[s]), queue'[s][i].op = op
        PROVE  Has(s, op)
    <3>1. i + 1 \in 1 .. Len(queue[s]) /\ queue[s][i + 1].op = op
      BY <1>1, <2>1, <2>2
    <3>2. QED BY <1>1, <3>1 DEF Has
  <2>3. ASSUME NEW i \in 1 .. Len(queue[s]), queue[s][i].op = op, i # 1
        PROVE  Has(s, op)'
    <3>1. i - 1 \in 1 .. Len(queue'[s]) /\ queue'[s][i - 1].op = queue[s][(i - 1) + 1].op
          /\ (i - 1) + 1 = i
      BY <1>1, <2>1, <2>3
    <3>2. QED BY <1>1, <2>3, <3>1 DEF Has
  <2>4. Has(s, op) => Has(s, op)' \/ queue[s][1].op = op
    BY <1>1, <2>3 DEF Has
  <2>5. Has(s, op)' => Has(s, op)
    BY <1>1, <2>2 DEF Has
  <2>6. QED BY <1>3, <2>4, <2>5
<1>4. QED BY <1>2, <1>3

LEMMA DeviceOrderly ==
  ASSUME NInv, Device
  PROVE  Orderly'
<1>1. PICK x \in Streams : Taken(x) /\ Ran(x) /\ UNCHANGED <<open, members, callers>>
  BY DeviceRuns DEF NInv, Orderly
<1>2. UNCHANGED <<call, solo, batch, leaving, job, stage>>
  BY <1>1 DEF callers, lists
<1>3. Typed'
  BY <1>1, <1>2 DEF NInv, Orderly, Typed, Taken, Ran, HostsKept, DevTyped
<1>4. OwnWork'
  <2> SUFFICES ASSUME NEW y \in Sessions, NEW i \in DOMAIN queue'[y],
                      queue'[y][i].op \in {"zero", "seed", "cfg"}
               PROVE  queue'[y][i].s = y
    BY DEF OwnWork
  <2>1. /\ y \in Streams /\ queue[y] \in Seq(Ops) /\ queue'[y] \in Seq(Ops)
        /\ DOMAIN queue[y] = 1 .. Len(queue[y]) /\ i \in 1 .. Len(queue'[y])
        /\ Len(queue[y]) \in Nat /\ Len(queue'[y]) \in Nat
    BY <1>1 DEF NInv, Orderly, Typed, Taken
  <2>2. \A k \in 1 .. Len(queue[y]) :
          queue[y][k].op \in {"zero", "seed", "cfg"} => queue[y][k].s = y
    BY <2>1 DEF NInv, Orderly, OwnWork
  <2>3. CASE x # y
    BY <1>1, <2>1, <2>2, <2>3 DEF Taken
  <2>4. CASE x = y
    <3>1. i \in 1 .. Len(queue[y]) - 1 /\ i + 1 \in 1 .. Len(queue[y])
      BY <1>1, <2>1, <2>4 DEF Taken
    <3>2. queue'[y][i].op = queue[y][i + 1].op /\ queue'[y][i].s = queue[y][i + 1].s
      BY <1>1, <2>4, <3>1 DEF Taken
    <3>3. QED BY <2>2, <3>1, <3>2
  <2>5. QED BY <2>3, <2>4
<1>5. StepsOK(call)' /\ Lists' /\ JobsApart'
  BY <1>2 DEF NInv, Orderly, StepsOK, StepAt, Lists, Served, Running, JobsApart
<1>6. QED BY <1>3, <1>4, <1>5 DEF Orderly

LEMMA DeviceFresh ==
  ASSUME Typed, OwnWork, NEW x, Taken(x), Ran(x), NEW s \in Sessions, Fresh(s),
         job' = job
  PROVE  Fresh(s)'
<1> DEFINE o == queue[x][1]
<1>1. \A f \in {"seeded", "dirty", "pinned", "last"} : host'[s][f] = host[s][f]
  BY DEF Ran, HostsKept, SameBelief
<1>2. ~ Has(s, "zero")
  BY DEF Fresh
<1>3. o.op \in {"zero", "seed", "cfg"} => x \in Sessions /\ o.s = x
  <2>1. 1 \in DOMAIN queue[x] /\ (o.op \in {"zero", "seed", "cfg"} => x \in Sessions)
    BY DEF Taken, Ran, Typed
  <2>2. QED BY <2>1 DEF OwnWork
<1>4. ~ (o.op = "zero" /\ o.s = s)
  <2>1. 1 \in DOMAIN queue[x]
    BY DEF Taken, Typed
  <2>2. QED BY <1>2, <1>3, <2>1 DEF Has
<1>5. Sets(o, s)
  BY DEF Ran
<1>6. ~ Has(s, "zero")'
  BY <1>2, TakenHas
<1>7. SeedFresh(s)'
  <2>1. Has(s, "seed") => Has(s, "seed")' \/ (x = s /\ o.op = "seed")
    BY TakenHas
  <2>2. SeedFresh(s)
    BY DEF Fresh
  <2>3. Seeded(s)' => Seeded(s)
    BY <1>1 DEF Seeded
  <2>4. x = s /\ o.op = "seed" => dev'[s].seed = job'[s]
    BY <1>3, <1>5 DEF Sets
  <2>5. dev[s].seed = job[s] => dev'[s].seed = job'[s]
    BY <1>4, <1>5 DEF Sets
  <2>6. QED BY <2>1, <2>2, <2>3, <2>4, <2>5 DEF SeedFresh
<1>8. ConfigFresh(s)'
  <2>1. (Has(s, "cfg")' => Has(s, "cfg"))
        /\ (Has(s, "cfg") => Has(s, "cfg")' \/ (x = s /\ o.op = "cfg"))
    BY TakenHas
  <2>2. ConfigFresh(s)
    BY DEF Fresh
  <2>3. Dirty(s) => Dirty(s)'
    BY <1>1 DEF Dirty
  <2>4. host'[s].pinned = host[s].pinned /\ host'[s].last = host[s].last
    BY <1>1
  <2>5. x = s /\ o.op = "cfg" => dev'[s].cfg = host[s].pinned
    BY <1>3, <1>5 DEF Sets
  <2>6. o.op = "cfg" /\ o.s = s => Has(s, "cfg")
    <3>1. 1 \in DOMAIN queue[x]
      BY DEF Taken, Typed
    <3>2. QED BY <1>3, <3>1 DEF Has
  <2>7. ~ Has(s, "cfg") => dev'[s].cfg = dev[s].cfg
    BY <1>4, <1>5, <2>6 DEF Sets
  <2>8. QED BY <2>1, <2>2, <2>3, <2>4, <2>5, <2>7 DEF ConfigFresh
<1>9. QED BY <1>6, <1>7, <1>8 DEF Fresh

LEMMA DeviceSampling ==
  ASSUME NInv, Device
  PROVE  Sampling'
<1>1. PICK x \in Streams : Taken(x) /\ Ran(x) /\ UNCHANGED <<open, members, callers>>
  BY DeviceRuns DEF NInv, Orderly
<1>2. UNCHANGED <<call, job, stage>> /\ Typed /\ OwnWork
  BY <1>1 DEF callers, lists, NInv, Orderly
<1> SUFFICES ASSUME NEW s \in Sessions
             PROVE  Forgets(s)' /\ Believes(s)' /\ Settles(s)' /\ Waits(s)'
  BY DEF Sampling
<1>3. \A f \in {"seeded", "dirty", "pinned", "last"} : host'[s][f] = host[s][f]
  BY <1>1 DEF Ran, HostsKept, SameBelief
<1>4. (Seeded(s)' <=> Seeded(s)) /\ (Dirty(s)' <=> Dirty(s))
  BY <1>3 DEF Seeded, Dirty
<1>5. Forgets(s) /\ Believes(s) /\ Settles(s) /\ Waits(s)
  BY DEF NInv, Sampling
<1>6. \A c : In(c, s)' <=> In(c, s)
  BY <1>2 DEF In
<1>7. Forgets(s)'
  <2>1. Has(s, "zero")' => Has(s, "zero")
    BY <1>1, <1>2, TakenHas
  <2>2. QED BY <1>2, <1>4, <1>5, <1>6, <2>1 DEF Forgets
<1>8. Believes(s)'
  <2>1. (Running(s)' <=> Running(s)) /\ (Failed' <=> Failed)
    BY <1>2 DEF Running, Failed
  <2>2. Fresh(s) => Fresh(s)'
    BY <1>1, <1>2, DeviceFresh
  <2>3. QED BY <1>5, <1>6, <2>1, <2>2 DEF Believes
<1>9. Settles(s)'
  <2>1. /\ Failed' <=> Failed
        /\ Left("seed")' <=> Left("seed")
        /\ Left("cfg")' <=> Left("cfg")
        /\ Asked(s)' = Asked(s) /\ host'[s].last = host[s].last
    BY <1>2, <1>3 DEF Failed, Left, Asked
  <2>2. QED BY <1>2, <1>4, <1>5, <1>6, <2>1 DEF Settles
<1>10. Waits(s)'
  <2> SUFFICES ASSUME NEW i \in DOMAIN queue'[s], queue'[s][i].op \in {"forward", "graph"}
               PROVE  /\ In("decode", s) /\ ~ Failed
                      /\ i = Len(queue'[s])
                      /\ call.todo # <<>> /\ Head(call.todo).op = "sync"
    BY <1>2 DEF Waits, In, Failed
  <2>1. /\ s \in Streams /\ queue[s] \in Seq(Ops) /\ queue'[s] \in Seq(Ops)
        /\ DOMAIN queue[s] = 1 .. Len(queue[s]) /\ i \in 1 .. Len(queue'[s])
        /\ Len(queue[s]) \in Nat /\ Len(queue'[s]) \in Nat
    BY <1>1, <1>2 DEF Typed, Taken
  <2>2. \A k \in 1 .. Len(queue[s]) : queue[s][k].op \in {"forward", "graph"} =>
          /\ In("decode", s) /\ ~ Failed
          /\ k = Len(queue[s])
          /\ call.todo # <<>> /\ Head(call.todo).op = "sync"
    BY <1>5, <2>1 DEF Waits
  <2>3. CASE x # s
    BY <1>1, <2>1, <2>2, <2>3 DEF Taken
  <2>4. CASE x = s
    <3>1. /\ Len(queue'[s]) = Len(queue[s]) - 1 /\ i + 1 \in 1 .. Len(queue[s])
          /\ queue'[s][i].op = queue[s][i + 1].op
      BY <1>1, <2>1, <2>4 DEF Taken
    <3>2. QED BY <2>1, <2>2, <3>1
  <2>5. QED BY <2>3, <2>4
<1>11. QED BY <1>7, <1>8, <1>9, <1>10

-----------------------------------------------------------------------------
(* What a step of a call does. *)

Special == {"zero", "seed", "cfg", "forward", "graph"}

\* The call goes on, or it ends and has failed.
CallMoved ==
  /\ CallTyped(call') /\ call'.c = call.c /\ call'.s = call.s
  /\ \/ call'.todo = Tail(call.todo) /\ call'.failed = FALSE
     \/ call'.todo = <<>> /\ call'.failed = TRUE /\ call.c # "reset"

PutOK(x, o) ==
  /\ o.op \in Special => x = call.s /\ o.op = Now.op
  /\ o.op \in {"zero", "seed", "cfg"} => o.s = call.s

Put(x, o) ==
  /\ queue' = [queue EXCEPT ![x] = Append(@, o)]
  /\ PutOK(x, o)
  /\ call'.todo = Tail(call.todo) /\ call'.failed = FALSE

QueueMoved == queue' = queue \/ \E x \in Streams, o \in Ops : Put(x, o)

\* A step of a call that is under way.
UnderWay == CallTyped(call) /\ StepsOK(call) /\ call.todo # <<>>

LEMMA UnderWayIs ==
  ASSUME UnderWay
  PROVE  /\ call.failed = FALSE /\ call.c \in OwnCalls \cup GroupCalls
         /\ {"c", "s", "b", "todo", "failed", "out"} \subseteq DOMAIN call
         /\ call.todo \in Seq(Ops) /\ Now = call.todo[1] /\ Now \in Ops
         /\ 1 \in DOMAIN call.todo /\ StepAt(call, 1)
         /\ Tail(call.todo) \in Seq(Ops) /\ Len(Tail(call.todo)) = Len(call.todo) - 1
         /\ \A i \in 1 .. Len(call.todo) - 1 : Tail(call.todo)[i] = call.todo[i + 1]
<1>1. /\ call.failed \in BOOLEAN /\ call.c \in OwnCalls \cup GroupCalls \cup {"none"}
      /\ {"c", "s", "b", "todo", "failed", "out"} \subseteq DOMAIN call
      /\ call.todo \in Seq(Ops) /\ call.todo # <<>>
  BY DEF UnderWay, CallTyped
<1>2. call.failed = FALSE /\ call.c # "none"
  BY <1>1 DEF UnderWay, StepsOK
<1>3. Now = call.todo[1] /\ Now \in Ops /\ 1 \in DOMAIN call.todo
  BY <1>1 DEF Now
<1>4. StepAt(call, 1)
  BY <1>3 DEF UnderWay, StepsOK
<1>5. /\ Tail(call.todo) \in Seq(Ops) /\ Len(Tail(call.todo)) = Len(call.todo) - 1
      /\ \A i \in 1 .. Len(call.todo) - 1 : Tail(call.todo)[i] = call.todo[i + 1]
  BY <1>1
<1>6. QED BY <1>1, <1>2, <1>3, <1>4, <1>5

LEMMA AdvanceMoves ==
  ASSUME UnderWay, Advance
  PROVE  CallMoved /\ call'.todo = Tail(call.todo) /\ call'.failed = FALSE
<1>1. call' = [call EXCEPT !.todo = Tail(call.todo)]
  BY DEF Advance
<1>2. QED BY <1>1, UnderWayIs DEF CallMoved, CallTyped

LEMMA BreakMoves ==
  ASSUME UnderWay, Break
  PROVE  CallMoved /\ queue' = queue
<1>1. CASE call.c = "reset"
  BY <1>1, AdvanceMoves DEF Break
<1>2. CASE call.c # "reset"
  <2>1. call' = [call EXCEPT !.todo = <<>>, !.failed = TRUE] /\ queue' = queue
    BY <1>2 DEF Break
  <2>2. call'.todo = <<>> /\ call'.failed = TRUE /\ call'.c = call.c /\ call'.s = call.s
        /\ {"c", "s", "b", "todo", "failed", "out"} \subseteq DOMAIN call'
    BY <2>1, UnderWayIs
  <2>3. <<>> \in Seq(Ops)
    OBVIOUS
  <2>4. QED BY <1>2, <2>1, <2>2, <2>3, UnderWayIs DEF CallMoved, CallTyped
<1>3. QED BY <1>1, <1>2

LEMMA EnqueueMoves ==
  ASSUME UnderWay, NEW x, NEW o \in Ops, PutOK(x, o), Enqueue(x, o),
         DOMAIN queue = Streams, queue \in [Streams -> Seq(Ops)]
  PROVE  CallMoved /\ QueueMoved /\ call'.todo = Tail(call.todo) /\ call'.failed = FALSE
         /\ (x \in Streams => Put(x, o))
<1>1. CallMoved /\ call'.todo = Tail(call.todo) /\ call'.failed = FALSE
      /\ queue' = [queue EXCEPT ![x] = Append(@, o)]
  BY AdvanceMoves DEF Enqueue
<1>2. CASE x \in Streams
  BY <1>1, <1>2 DEF QueueMoved, Put
<1>3. CASE x \notin Streams
  BY <1>1, <1>3 DEF QueueMoved
<1>4. QED BY <1>1, <1>2, <1>3

LEMMA IssueMoves ==
  ASSUME UnderWay, NEW x, NEW o \in Ops, PutOK(x, o), Issue(x, o),
         queue \in [Streams -> Seq(Ops)]
  PROVE  CallMoved /\ QueueMoved
BY BreakMoves, EnqueueMoves DEF Issue, QueueMoved

LEMMA LengthIs ==
  ASSUME NEW q \in Seq(Ops)
  PROVE  Len(q) \in Nat /\ (q = <<>> <=> Len(q) = 0) /\ (q # <<>> => Head(q) = q[1])
OBVIOUS

\* Every step but those that settle the seed and the configuration.
Plain == HostsKept /\ Now.op \notin {"seed", "cfg"}

Empties == Now.op = "sync" => queue[Stream] = <<>> /\ queue' = queue

LEMMA StreamIs ==
  ASSUME UnderWay
  PROVE  /\ call.c \in {"reset", "prefill", "decode"} => Stream = call.s
         /\ Now.op \in Special => call.c \in {"reset", "decode"} /\ Stream = call.s
<1>1. call.c \in {"reset", "prefill", "decode"} => Stream = call.s
  BY DEF Stream
<1>2. Now.op \in Special => call.c \in {"reset", "decode"}
  BY UnderWayIs DEF StepAt, Special
<1>3. QED BY <1>1, <1>2

LEMMA NowPut ==
  ASSUME UnderWay
  PROVE  PutOK(Stream, Now) /\ (Now.op \in Special => PutOK(call.s, Now))
BY StreamIs, UnderWayIs DEF PutOK, StepAt, Special

LEMMA PlainMoves ==
  ASSUME Typed, StepsOK(call), call.c \in OwnCalls => call.s \in Sessions,
         Submit \/ EnsurePages \/ MirrorState \/ StepTables \/ EventChain \/ Quietly \/ Synchronize
  PROVE  UnderWay /\ CallMoved /\ QueueMoved /\ Plain /\ Empties /\ Kept
<1>1. UnderWay
  BY DEF Typed, UnderWay, Submit, EnsurePages, MirrorState, StepTables, EventChain, Quietly,
         Synchronize, InCall
<1>2. /\ queue \in [Streams -> Seq(Ops)] /\ DOMAIN queue = Streams
      /\ DOMAIN host = Sessions /\ \A s \in Sessions : HostTyped(host[s])
  BY DEF Typed
<1>3. Now \in Ops /\ Now.n \in Int /\ Now.op \in OpNames
  BY <1>1, UnderWayIs DEF Ops
<1>4. CASE Submit
  <2>1. Issue(Stream, Now) /\ host' = host /\ Kept /\ Now.op \notin {"seed", "cfg", "sync"}
    BY <1>4 DEF Submit
  <2>2. QED BY <1>1, <1>2, <1>3, <2>1, NowPut, IssueMoves, HostSame DEF Plain, Empties
<1>5. CASE EnsurePages
  <2> DEFINE s == Now.s
             h == Owning(host[s], Now.n)
  <2>1. Now.op = "table" /\ Kept
    BY <1>5 DEF EnsurePages, InCall, Now
  <2>2. ASSUME s \in Sessions
        PROVE  /\ HostTyped(h) /\ HostTyped(Synced(h))
               /\ \A f \in {"seeded", "dirty", "pinned", "last"} :
                    h[f] = host[s][f] /\ Synced(h)[f] = host[s][f]
    BY <1>2, <1>3, <2>2, OwningTyped
  <2>3. ASSUME NEW g, host' = [host EXCEPT ![s] = g],
               s \in Sessions => HostTyped(g) /\ \A f \in {"seeded", "dirty", "pinned", "last"} :
                                   g[f] = host[s][f]
        PROVE  HostsKept
    BY <1>2, <2>3 DEF HostsKept, SameBelief
  <2>4. CASE Enqueue(Stream, Work("table", s, h.owned)) /\ host' = [host EXCEPT ![s] = Synced(h)]
    <3>1. s \in Sessions
      BY <1>1, <2>1, UnderWayIs DEF StepAt
    <3>2. Work("table", s, h.owned) \in Ops
      <4>1. h.owned \in Int /\ s \in Streams \cup {None} /\ "table" \in OpNames
        BY <2>2, <3>1 DEF HostTyped, OpNames
      <4>2. QED BY <4>1, WorkTyped
    <3>3. PutOK(Stream, Work("table", s, h.owned))
      BY DEF PutOK, Special, Work
    <3> HIDE DEF h, s
    <3>4. HostsKept
      BY <2>2, <2>3, <2>4
    <3>5. QED BY <1>1, <1>2, <2>1, <2>4, <3>2, <3>3, <3>4, EnqueueMoves DEF Plain, Empties
  <2>5. CASE Break /\ host' = [host EXCEPT ![s] = h]
    <3>1. HostsKept
      <4> HIDE DEF h, s
      <4>1. QED BY <2>2, <2>3, <2>5
    <3>2. QED BY <1>1, <2>1, <2>5, <3>1, BreakMoves DEF Plain, Empties, QueueMoved
  <2>6. CASE Skip
    <3>1. CallMoved /\ queue' = queue /\ host' = host
      BY <1>1, <2>6, AdvanceMoves DEF Skip
    <3>2. QED BY <1>1, <2>1, <3>1, HostSame DEF Plain, Empties, QueueMoved
  <2>7. QED BY <1>5, <2>4, <2>5, <2>6 DEF EnsurePages
<1>6. CASE MirrorState
  <2>1. Issue(call.s, Now) /\ Kept /\ Now.op = "mirror"
        /\ host' = [host EXCEPT ![call.s].len = Now.n]
    BY <1>6 DEF MirrorState, InCall, Now
  <2>2. HostsKept
    BY <1>2, <1>3, <2>1 DEF HostsKept, SameBelief, HostTyped
  <2>3. PutOK(call.s, Now)
    BY <2>1 DEF PutOK, Special
  <2>4. QED BY <1>1, <1>2, <1>3, <2>1, <2>2, <2>3, IssueMoves DEF Plain, Empties
<1>7. CASE StepTables
  <2>1. Issue("group", Now) /\ Kept /\ Now.op = "rows" /\ host' = host
    BY <1>7 DEF StepTables, InCall, Now
  <2>2. PutOK("group", Now)
    BY <2>1 DEF PutOK, Special
  <2>3. QED BY <1>1, <1>2, <1>3, <2>1, <2>2, IssueMoves, HostSame DEF Plain, Empties
<1>8. CASE EventChain
  <2> DEFINE n == Len(queue[Now.s])
             o == [Work("wait", Now.s, n) EXCEPT !.b = <<>>]
  <2>1. Issue(Now.b[1], o) /\ Kept /\ Now.op = "wait" /\ host' = host
    BY <1>8 DEF EventChain, InCall, Now
  <2>2. Now.s \in Streams
    BY <1>1, <2>1, UnderWayIs DEF StepAt
  <2>3. n \in Int
    BY <1>2, <2>2
  <2> HIDE DEF n
  <2>4. o \in Ops /\ o.op = "wait"
    <3>1. <<>> \in Seq(Streams) /\ "wait" \in OpNames /\ Now.s \in Streams \cup {None}
      BY <2>2 DEF OpNames
    <3>2. QED BY <2>3, <3>1 DEF Work, Ops
  <2> HIDE DEF o
  <2>5. PutOK(Now.b[1], o)
    BY <2>4 DEF PutOK, Special
  <2>6. QED BY <1>1, <1>2, <2>1, <2>4, <2>5, IssueMoves, HostSame DEF Plain, Empties
<1>9. CASE Quietly
  <2>1. Kept /\ Now.op \in {"pointers", "carve"} /\ host' = host
        /\ ((Advance /\ queue' = queue) \/ Break)
    BY <1>9 DEF Quietly, InCall, Now
  <2>2. CallMoved /\ queue' = queue
    BY <1>1, <2>1, AdvanceMoves, BreakMoves
  <2>3. QED BY <1>1, <2>1, <2>2, HostSame DEF Plain, Empties, QueueMoved
<1>10. CASE Synchronize
  <2> DEFINE broken == Arrives /\ OutOfRange \in ToSet(Landed)
  <2>1. Now.op = "sync" /\ queue[Stream] = <<>> /\ queue' = queue /\ Kept
    BY <1>10 DEF Synchronize, InCall, Now
  <2>2. CASE broken
    <3>1. call' = [call EXCEPT !.todo = <<>>, !.failed = TRUE] /\ host' = host
      BY <1>10, <2>2 DEF Synchronize
    <3>2. call'.todo = <<>> /\ call'.failed = TRUE /\ call'.c = call.c /\ call'.s = call.s
          /\ {"c", "s", "b", "todo", "failed", "out"} \subseteq DOMAIN call'
      BY <1>1, <3>1, UnderWayIs
    <3>3. call.c # "reset" /\ <<>> \in Seq(Ops)
      BY <2>2 DEF Arrives
    <3>4. CallMoved
      BY <1>1, <3>2, <3>3, UnderWayIs DEF CallMoved, CallTyped
    <3>5. QED BY <1>1, <2>1, <3>1, <3>4, HostSame DEF Plain, Empties, QueueMoved
  <2>3. CASE ~ broken
    <3>1. /\ call' = [call EXCEPT !.todo = Tail(call.todo),
                                  !.out = IF call.c = "decode" THEN Landed[1] ELSE call.out]
          /\ host' = [s \in Sessions |->
                        IF call.c = "decode" /\ s = call.s THEN Generated(host[s])
                        ELSE IF call.c = "step" /\ s \in ToSet(call.b) THEN Stepped(host[s])
                        ELSE host[s]]
      BY <1>10, <2>3 DEF Synchronize
    <3>2. call'.todo = Tail(call.todo) /\ call'.failed = FALSE /\ call'.c = call.c
          /\ call'.s = call.s
          /\ {"c", "s", "b", "todo", "failed", "out"} \subseteq DOMAIN call'
      BY <1>1, <3>1, UnderWayIs
    <3>3. CallMoved
      BY <1>1, <3>2, UnderWayIs DEF CallMoved, CallTyped
    <3>4. HostsKept
      <4>1. ASSUME NEW s \in Sessions
            PROVE  /\ HostTyped(host'[s])
                   /\ \A f \in {"seeded", "dirty", "pinned", "last"} :
                        host'[s][f] = host[s][f]
        <5>1. host'[s] \in {Generated(host[s]), Stepped(host[s]), host[s]}
          BY <3>1
        <5>2. HostTyped(host[s])
          BY <1>2
        <5>3. QED BY <5>1, <5>2, GrownTyped
      <4>2. QED BY <3>1, <4>1 DEF HostsKept, SameBelief
    <3>5. QED BY <1>1, <2>1, <3>3, <3>4 DEF Plain, Empties, QueueMoved
  <2>4. QED BY <2>2, <2>3
<1>11. QED BY <1>4, <1>5, <1>6, <1>7, <1>8, <1>9, <1>10

\* The seed is drawn again unless the device has it.
LEMMA SeedMoves ==
  ASSUME Typed, StepsOK(call), call.c \in OwnCalls => call.s \in Sessions, SeedRng
  PROVE  /\ UnderWay /\ CallMoved /\ QueueMoved /\ Kept /\ Now.op = "seed"
         /\ call.c = "decode" /\ call.s \in Sessions
         /\ DOMAIN host' = Sessions /\ \A s \in Sessions : HostTyped(host'[s])
         /\ \A s \in Sessions \ {call.s} : host'[s] = host[s]
         /\ \A f \in {"dirty", "pinned", "last"} : host'[call.s][f] = host[call.s][f]
         /\ \/ call'.failed = TRUE
            \/ Put(call.s, Now) /\ host'[call.s].seeded = TRUE
            \/ host' = host /\ queue' = queue /\ host[call.s].seeded = TRUE
<1>1. UnderWay /\ Now.op = "seed" /\ Kept
  BY DEF Typed, UnderWay, SeedRng, InCall, Now
<1>2. call.c = "decode" /\ call.s \in Sessions /\ call.s \in Streams
  BY <1>1, UnderWayIs DEF StepAt, OwnCalls
<1>3. /\ queue \in [Streams -> Seq(Ops)] /\ DOMAIN queue = Streams
      /\ DOMAIN host = Sessions /\ \A s \in Sessions : HostTyped(host[s])
  BY DEF Typed
<1>4. PutOK(call.s, Now) /\ Now \in Ops
  BY <1>1, NowPut, UnderWayIs DEF Special
<1>5. CASE host' = [host EXCEPT ![call.s].seeded = TRUE] /\ Issue(call.s, Now)
  <2>1. DOMAIN host' = Sessions /\ (\A s \in Sessions \ {call.s} : host'[s] = host[s])
        /\ host'[call.s] = [host[call.s] EXCEPT !.seeded = TRUE]
    BY <1>2, <1>3, <1>5
  <2>2. HostTyped(host[call.s])
    BY <1>2, <1>3
  <2>3. HostTyped(host'[call.s]) /\ host'[call.s].seeded = TRUE
        /\ \A f \in {"dirty", "pinned", "last"} : host'[call.s][f] = host[call.s][f]
    BY <2>1, <2>2 DEF HostTyped
  <2>4. CallMoved /\ QueueMoved
    BY <1>1, <1>3, <1>4, <1>5, IssueMoves
  <2>5. call'.failed = TRUE \/ Put(call.s, Now)
    <3>1. CASE Enqueue(call.s, Now)
      BY <1>1, <1>2, <1>3, <1>4, <3>1, EnqueueMoves
    <3>2. CASE Break
      <4>1. call' = [call EXCEPT !.todo = <<>>, !.failed = TRUE]
        BY <1>2, <3>2 DEF Break
      <4>2. QED BY <1>1, <4>1, UnderWayIs
    <3>3. QED BY <1>5, <3>1, <3>2 DEF Issue
  <2>6. \A s \in Sessions : HostTyped(host'[s])
    BY <1>3, <2>1, <2>3
  <2>7. QED BY <1>1, <1>2, <2>1, <2>3, <2>4, <2>5, <2>6
<1>6. CASE ~ Reseeds(call.s) /\ Skip
  <2>1. CallMoved /\ queue' = queue /\ host' = host
    BY <1>1, <1>6, AdvanceMoves DEF Skip
  <2>2. HostTyped(host[call.s])
    BY <1>2, <1>3
  <2>3. host[call.s].seeded = TRUE
    BY <1>6, <2>2 DEF Reseeds, HostTyped
  <2>4. QED BY <1>1, <1>2, <1>3, <2>1, <2>3 DEF QueueMoved
<1>7. QED BY <1>5, <1>6 DEF SeedRng

\* The configuration is copied again unless the device has it.
LEMMA ConfigMoves ==
  ASSUME Typed, StepsOK(call), call.c \in OwnCalls => call.s \in Sessions, CopyConfig
  PROVE  /\ UnderWay /\ CallMoved /\ QueueMoved /\ Kept /\ Now.op = "cfg"
         /\ call.c = "decode" /\ call.s \in Sessions
         /\ DOMAIN host' = Sessions /\ \A s \in Sessions : HostTyped(host'[s])
         /\ \A s \in Sessions \ {call.s} : host'[s] = host[s]
         /\ host'[call.s].seeded = host[call.s].seeded
         /\ \/ call'.failed = TRUE
            \/ /\ Put(call.s, Now)
               /\ host'[call.s].dirty = FALSE /\ host'[call.s].pinned = Asked(call.s)
               /\ host'[call.s].last = Asked(call.s)
            \/ /\ host' = host /\ queue' = queue
               /\ host[call.s].dirty = FALSE /\ host[call.s].last = Asked(call.s)
<1>1. UnderWay /\ Now.op = "cfg" /\ Kept
  BY DEF Typed, UnderWay, CopyConfig, InCall, Now
<1>2. call.c = "decode" /\ call.s \in Sessions /\ call.s \in Streams
  BY <1>1, UnderWayIs DEF StepAt, OwnCalls
<1>3. /\ queue \in [Streams -> Seq(Ops)] /\ DOMAIN queue = Streams
      /\ DOMAIN host = Sessions /\ \A s \in Sessions : HostTyped(host[s])
  BY DEF Typed
<1>4. PutOK(call.s, Now) /\ Now \in Ops
  BY <1>1, NowPut, UnderWayIs DEF Special
<1>5. CASE /\ host' = [host EXCEPT ![call.s].pinned = Asked(call.s), ![call.s].last = Asked(call.s),
                                   ![call.s].dirty = FALSE]
           /\ Issue(call.s, Now)
  <2> DEFINE a == Asked(call.s)
  <2> HIDE DEF a
  <2>1. DOMAIN host' = Sessions /\ (\A s \in Sessions \ {call.s} : host'[s] = host[s])
        /\ host'[call.s] = [host[call.s] EXCEPT !.pinned = a, !.last = a, !.dirty = FALSE]
    BY <1>2, <1>3, <1>5 DEF a
  <2>2. HostTyped(host[call.s])
    BY <1>2, <1>3
  <2>3. HostTyped(host'[call.s]) /\ host'[call.s].seeded = host[call.s].seeded
        /\ host'[call.s].dirty = FALSE /\ host'[call.s].pinned = a /\ host'[call.s].last = a
    BY <2>1, <2>2 DEF HostTyped
  <2>4. CallMoved /\ QueueMoved
    BY <1>1, <1>3, <1>4, <1>5, IssueMoves
  <2>5. call'.failed = TRUE \/ Put(call.s, Now)
    <3>1. CASE Enqueue(call.s, Now)
      BY <1>1, <1>2, <1>3, <1>4, <3>1, EnqueueMoves
    <3>2. CASE Break
      <4>1. call' = [call EXCEPT !.todo = <<>>, !.failed = TRUE]
        BY <1>2, <3>2 DEF Break
      <4>2. QED BY <1>1, <4>1, UnderWayIs
    <3>3. QED BY <1>5, <3>1, <3>2 DEF Issue
  <2>6. \A s \in Sessions : HostTyped(host'[s])
    BY <1>3, <2>1, <2>3
  <2>7. QED BY <1>1, <1>2, <2>1, <2>3, <2>4, <2>5, <2>6 DEF a
<1>6. CASE ~ Reconfigures(call.s) /\ Skip
  <2>1. CallMoved /\ queue' = queue /\ host' = host
    BY <1>1, <1>6, AdvanceMoves DEF Skip
  <2>2. HostTyped(host[call.s])
    BY <1>2, <1>3
  <2>3. host[call.s].dirty = FALSE /\ host[call.s].last = Asked(call.s)
    BY <1>6, <2>2 DEF Reconfigures, HostTyped
  <2>4. QED BY <1>1, <1>2, <1>3, <2>1, <2>3 DEF QueueMoved
<1>7. QED BY <1>5, <1>6 DEF CopyConfig

\* A step of any kind.
LEMMA NativeMoves ==
  ASSUME NInv, InNative
  PROVE  /\ UnderWay /\ CallMoved /\ QueueMoved /\ Kept /\ Empties
         /\ DOMAIN host' = Sessions /\ \A s \in Sessions : HostTyped(host'[s])
<1>1. Typed /\ StepsOK(call) /\ (call.c \in OwnCalls => call.s \in Sessions)
  BY DEF NInv, Orderly, Lists, Served
<1>2. CASE SeedRng
  BY <1>1, <1>2, SeedMoves DEF Empties
<1>3. CASE CopyConfig
  BY <1>1, <1>3, ConfigMoves DEF Empties
<1>4. CASE ~ SeedRng /\ ~ CopyConfig
  BY <1>1, <1>4, PlainMoves DEF InNative, Plain, HostsKept
<1>5. QED BY <1>2, <1>3, <1>4

LEMMA StepsMove ==
  ASSUME UnderWay, CallMoved
  PROVE  StepsOK(call')
<1>1. /\ call.c \in OwnCalls \cup GroupCalls /\ call.todo \in Seq(Ops)
      /\ Len(Tail(call.todo)) = Len(call.todo) - 1 /\ Tail(call.todo) \in Seq(Ops)
      /\ \A i \in 1 .. Len(call.todo) - 1 : Tail(call.todo)[i] = call.todo[i + 1]
  BY UnderWayIs
<1>2. call'.c = call.c /\ call'.s = call.s /\ call.c # "none"
  BY <1>1 DEF CallMoved, OwnCalls, GroupCalls
<1>3. CASE call'.todo = Tail(call.todo) /\ call'.failed = FALSE
  <2>1. ASSUME NEW i \in 1 .. Len(call.todo) - 1
        PROVE  StepAt(call', i)
    <3>1. i + 1 \in 1 .. Len(call.todo) /\ i + 1 \in DOMAIN call.todo
          /\ call'.todo[i] = call.todo[i + 1] /\ StepAt(call, i + 1)
      BY <1>1, <1>3, <2>1 DEF UnderWay, StepsOK
    <3>2. (i + 1) + 1 \in DOMAIN call.todo => i + 1 \in 1 .. Len(call.todo) - 1
            /\ call'.todo[i + 1] = call.todo[(i + 1) + 1]
      BY <1>1, <1>3, <2>1
    <3>3. DOMAIN call'.todo = 1 .. Len(call.todo) - 1
      BY <1>1, <1>3
    <3>4. QED BY <1>2, <3>1, <3>2, <3>3 DEF StepAt
  <2>2. DOMAIN call'.todo = 1 .. Len(call.todo) - 1
    BY <1>1, <1>3
  <2>3. QED BY <1>2, <1>3, <2>1, <2>2 DEF StepsOK
<1>4. CASE call'.todo = <<>> /\ call'.failed = TRUE /\ call.c # "reset"
  <2>1. DOMAIN call'.todo = {}
    BY <1>4
  <2>2. QED BY <1>2, <1>4, <2>1 DEF StepsOK
<1>5. QED BY <1>3, <1>4 DEF CallMoved

LEMMA PutIs ==
  ASSUME Typed, NEW x \in Streams, NEW o \in Ops, queue' = [queue EXCEPT ![x] = Append(@, o)]
  PROVE  /\ queue' \in [Streams -> Seq(Ops)]
         /\ \A y \in Streams \ {x} : queue'[y] = queue[y]
         /\ Len(queue'[x]) = Len(queue[x]) + 1 /\ Len(queue[x]) \in Nat
         /\ DOMAIN queue'[x] = 1 .. Len(queue[x]) + 1
         /\ \A i \in 1 .. Len(queue[x]) : queue'[x][i] = queue[x][i]
         /\ queue'[x][Len(queue[x]) + 1] = o
<1>1. queue \in [Streams -> Seq(Ops)]
  BY DEF Typed
<1>2. queue[x] \in Seq(Ops) /\ queue'[x] = Append(queue[x], o)
  BY <1>1
<1>3. \A y \in Streams \ {x} : queue'[y] = queue[y]
  BY <1>1
<1>4. Append(queue[x], o) \in Seq(Ops)
  BY <1>2
<1>5. queue' \in [Streams -> Seq(Ops)]
  BY <1>1, <1>2, <1>4
<1>6. /\ Len(Append(queue[x], o)) = Len(queue[x]) + 1 /\ Len(queue[x]) \in Nat
      /\ DOMAIN Append(queue[x], o) = 1 .. Len(queue[x]) + 1
      /\ \A i \in 1 .. Len(queue[x]) : Append(queue[x], o)[i] = queue[x][i]
      /\ Append(queue[x], o)[Len(queue[x]) + 1] = o
  BY <1>2
<1>7. QED BY <1>2, <1>3, <1>5, <1>6

LEMMA PutHas ==
  ASSUME Typed, NEW x \in Streams, NEW o \in Ops, Put(x, o), NEW s \in Sessions, NEW op
  PROVE  Has(s, op)' <=> Has(s, op) \/ (x = s /\ o.op = op)
<1>1. s \in Streams /\ queue[s] \in Seq(Ops) /\ DOMAIN queue[s] = 1 .. Len(queue[s])
  BY DEF Typed
<1>2. CASE x # s
  <2>1. queue'[s] = queue[s]
    BY <1>1, <1>2, PutIs DEF Put
  <2>2. QED BY <1>2, <2>1 DEF Has
<1>3. CASE x = s
  <2>1. /\ Len(queue[s]) \in Nat
        /\ DOMAIN queue'[s] = 1 .. Len(queue[s]) + 1
        /\ \A i \in 1 .. Len(queue[s]) : queue'[s][i] = queue[s][i]
        /\ queue'[s][Len(queue[s]) + 1] = o
    BY <1>3, PutIs DEF Put
  <2>2. Has(s, op)' => Has(s, op) \/ o.op = op
    BY <1>1, <2>1 DEF Has
  <2>3. o.op = op => Has(s, op)'
    <3>1. Len(queue[s]) + 1 \in DOMAIN queue'[s]
      BY <2>1
    <3>2. QED BY <2>1, <3>1 DEF Has
  <2>4. Has(s, op) => Has(s, op)'
    <3>1. \A i \in 1 .. Len(queue[s]) : i \in DOMAIN queue'[s]
      BY <2>1
    <3>2. QED BY <1>1, <2>1, <3>1 DEF Has
  <2>5. QED BY <1>3, <2>2, <2>3, <2>4
<1>4. QED BY <1>2, <1>3

LEMMA NativeOrderly ==
  ASSUME NInv, InNative
  PROVE  Orderly'
<1>1. /\ UnderWay /\ CallMoved /\ QueueMoved /\ Kept /\ Typed /\ OwnWork
      /\ DOMAIN host' = Sessions /\ \A s \in Sessions : HostTyped(host'[s])
  BY NativeMoves DEF NInv, Orderly
<1>2. UNCHANGED <<dev, solo, batch, leaving, job, stage>> /\ call'.c = call.c /\ call'.s = call.s
      /\ CallTyped(call')
  BY <1>1 DEF Kept, lists, CallMoved
<1>3. queue' \in [Streams -> Seq(Ops)]
  BY <1>1, PutIs DEF QueueMoved, Put, Typed
<1>4. Typed'
  BY <1>1, <1>2, <1>3 DEF Typed
<1>5. OwnWork'
  <2>1. CASE queue' = queue
    BY <1>1, <2>1 DEF OwnWork
  <2>2. ASSUME NEW x \in Streams, NEW o \in Ops, Put(x, o)
        PROVE  OwnWork'
    <3> SUFFICES ASSUME NEW y \in Sessions, NEW i \in DOMAIN queue'[y],
                        queue'[y][i].op \in {"zero", "seed", "cfg"}
                 PROVE  queue'[y][i].s = y
      BY DEF OwnWork
    <3>1. y \in Streams /\ queue[y] \in Seq(Ops) /\ DOMAIN queue[y] = 1 .. Len(queue[y])
      BY <1>1 DEF Typed
    <3>2. \A k \in 1 .. Len(queue[y]) :
            queue[y][k].op \in {"zero", "seed", "cfg"} => queue[y][k].s = y
      BY <1>1, <3>1 DEF OwnWork
    <3>3. CASE x # y
      <4>1. queue'[y] = queue[y]
        BY <1>1, <2>2, <3>1, <3>3, PutIs DEF Put
      <4>2. QED BY <3>1, <3>2, <4>1
    <3>4. CASE x = y
      <4>1. /\ Len(queue[y]) \in Nat /\ i \in 1 .. Len(queue[y]) + 1
            /\ \A k \in 1 .. Len(queue[y]) : queue'[y][k] = queue[y][k]
            /\ queue'[y][Len(queue[y]) + 1] = o
        <5>1. queue' = [queue EXCEPT ![y] = Append(@, o)]
          BY <2>2, <3>4 DEF Put
        <5>2. QED BY <1>1, <3>1, <5>1, PutIs
      <4>2. CASE i \in 1 .. Len(queue[y])
        BY <3>2, <4>1, <4>2
      <4>3. CASE i = Len(queue[y]) + 1
        BY <2>2, <3>4, <4>1, <4>3 DEF Put, PutOK, Special
      <4>4. QED BY <4>1, <4>2, <4>3
    <3>5. QED BY <3>3, <3>4
  <2>3. QED BY <1>1, <2>1, <2>2 DEF QueueMoved
<1>6. StepsOK(call)'
  BY <1>1, StepsMove
<1>7. Lists' /\ JobsApart'
  BY <1>2 DEF NInv, Orderly, Lists, Served, Running, JobsApart
<1>8. QED BY <1>4, <1>5, <1>6, <1>7 DEF Orderly

\* Work is added to the streams, and special work to that of the call.
LEMMA MovedHas ==
  ASSUME Typed, QueueMoved, NEW s \in Sessions, NEW op
  PROVE  /\ Has(s, op) => Has(s, op)'
         /\ Has(s, op)' /\ op \in Special => Has(s, op) \/ (s = call.s /\ Now.op = op)
<1>1. CASE queue' = queue
  BY <1>1 DEF Has
<1>2. ASSUME NEW x \in Streams, NEW o \in Ops, Put(x, o)
      PROVE  /\ Has(s, op) => Has(s, op)'
             /\ Has(s, op)' /\ op \in Special => Has(s, op) \/ (s = call.s /\ Now.op = op)
  <2>1. Has(s, op)' <=> Has(s, op) \/ (x = s /\ o.op = op)
    BY <1>2, PutHas
  <2>2. QED BY <1>2, <2>1 DEF Put, PutOK
<1>3. QED BY <1>1, <1>2 DEF QueueMoved

\* Only the step at hand is taken from what is left.
LEMMA MovedLeft ==
  ASSUME UnderWay, call'.todo = Tail(call.todo), NEW op, Now.op # op, Left(op)
  PROVE  Left(op)'
<1>1. /\ call.todo \in Seq(Ops) /\ Now = call.todo[1] /\ Tail(call.todo) \in Seq(Ops)
      /\ Len(Tail(call.todo)) = Len(call.todo) - 1
      /\ \A i \in 1 .. Len(call.todo) - 1 : Tail(call.todo)[i] = call.todo[i + 1]
  BY UnderWayIs
<1>2. PICK i \in DOMAIN call.todo : call.todo[i].op = op
  BY DEF Left
<1>3. i \in 1 .. Len(call.todo) /\ i # 1
  BY <1>1, <1>2
<1>4. i - 1 \in 1 .. Len(call.todo) - 1 /\ (i - 1) + 1 = i
  BY <1>1, <1>3
<1>5. Tail(call.todo)[i - 1] = call.todo[i]
  BY <1>1, <1>4
<1>6. i - 1 \in DOMAIN call'.todo /\ call'.todo[i - 1].op = op
  BY <1>1, <1>2, <1>4, <1>5
<1>7. QED BY <1>6 DEF Left

LEMMA NativeWaits ==
  ASSUME NInv, InNative, NEW s \in Sessions
  PROVE  Waits(s)'
<1>1. UnderWay /\ CallMoved /\ QueueMoved /\ Empties /\ Typed
  BY NativeMoves DEF NInv, Orderly
<1>2. s \in Streams /\ queue[s] \in Seq(Ops) /\ DOMAIN queue[s] = 1 .. Len(queue[s])
  BY <1>1 DEF Typed
<1>3. \A i \in 1 .. Len(queue[s]) : queue[s][i].op \notin {"forward", "graph"}
  <2> SUFFICES ASSUME NEW i \in 1 .. Len(queue[s]), queue[s][i].op \in {"forward", "graph"}
               PROVE  FALSE
    OBVIOUS
  <2>1. In("decode", s) /\ Head(call.todo).op = "sync"
    BY <1>2 DEF NInv, Sampling, Waits
  <2>2. queue[Stream] = <<>> /\ Stream = s
    BY <1>1, <2>1, StreamIs DEF Empties, Now, In
  <2>3. QED BY <1>2, <2>2
<1>4. CASE queue' = queue
  BY <1>2, <1>3, <1>4 DEF Waits
<1>5. ASSUME NEW x \in Streams, NEW o \in Ops, Put(x, o)
      PROVE  Waits(s)'
  <2> SUFFICES ASSUME NEW i \in DOMAIN queue'[s], queue'[s][i].op \in {"forward", "graph"}
               PROVE  /\ call'.c = "decode" /\ call'.s = s /\ call'.failed = FALSE
                      /\ i = Len(queue'[s])
                      /\ call'.todo # <<>> /\ Head(call'.todo).op = "sync"
    BY DEF Waits, In, Failed
  <2>1. x = s
    <3>1. queue' = [queue EXCEPT ![x] = Append(@, o)]
      BY <1>5 DEF Put
    <3>2. CASE x # s
      <4>1. queue'[s] = queue[s]
        BY <1>1, <1>2, <3>1, <3>2 DEF Typed
      <4>2. QED BY <1>2, <1>3, <4>1
    <3>3. QED BY <3>2
  <2>2. /\ Len(queue'[s]) = Len(queue[s]) + 1 /\ Len(queue[s]) \in Nat
        /\ i \in 1 .. Len(queue[s]) + 1
        /\ \A k \in 1 .. Len(queue[s]) : queue'[s][k] = queue[s][k]
        /\ queue'[s][Len(queue[s]) + 1] = o
    <3>1. queue' = [queue EXCEPT ![s] = Append(@, o)]
      BY <1>5, <2>1 DEF Put
    <3>2. QED BY <1>1, <1>2, <3>1, PutIs
  <2>3. i = Len(queue[s]) + 1 /\ o.op \in {"forward", "graph"}
    <3>1. CASE i \in 1 .. Len(queue[s])
      BY <1>3, <2>2, <3>1
    <3>2. CASE i = Len(queue[s]) + 1
      BY <2>2, <3>2
    <3>3. QED BY <2>2, <3>1, <3>2
  <2>4. s = call.s /\ Now.op \in {"forward", "graph"} /\ call'.todo = Tail(call.todo)
        /\ call'.failed = FALSE
    BY <1>5, <2>1, <2>3 DEF Put, PutOK, Special
  <2>5. call.c = "decode" /\ 2 \in DOMAIN call.todo /\ call.todo[2].op = "sync"
    BY <1>1, <2>4, UnderWayIs DEF StepAt
  <2>6. call'.todo # <<>> /\ Head(call'.todo).op = "sync"
    <3>1. /\ call.todo \in Seq(Ops) /\ Len(Tail(call.todo)) = Len(call.todo) - 1
          /\ \A k \in 1 .. Len(call.todo) - 1 : Tail(call.todo)[k] = call.todo[k + 1]
      BY <1>1, UnderWayIs
    <3>2. 1 \in 1 .. Len(call.todo) - 1 /\ Tail(call.todo) \in Seq(Ops)
          /\ Len(Tail(call.todo)) > 0
      BY <1>1, <2>5, <3>1, UnderWayIs
    <3>4. Tail(call.todo)[1] = call.todo[2]
      BY <3>1, <3>2
    <3> DEFINE t == Tail(call.todo)
    <3>5. t \in Seq(Ops) /\ Len(t) > 0 /\ t[1] = call.todo[2] /\ call'.todo = t
      BY <2>4, <3>2, <3>4
    <3> HIDE DEF t
    <3>6. t # <<>> /\ Head(t) = t[1]
      BY <3>5, LengthIs
    <3>7. QED BY <2>5, <3>5, <3>6
  <2>7. call'.c = call.c /\ call'.s = call.s
    BY <1>1 DEF CallMoved
  <2>8. QED BY <2>2, <2>3, <2>4, <2>5, <2>6, <2>7
<1>6. QED BY <1>1, <1>4, <1>5 DEF QueueMoved

LEMMA NativeForgets ==
  ASSUME NInv, InNative, NEW s \in Sessions, job' = job,
         job[s] = None \/ call.c = "reset" => (Seeded(s)' => Seeded(s)) /\ (Dirty(s) => Dirty(s)')
  PROVE  Forgets(s)'
<1>1. UnderWay /\ CallMoved /\ QueueMoved /\ Empties /\ Typed /\ Forgets(s)
  BY NativeMoves DEF NInv, Orderly, Sampling
<1>2. call'.c = call.c /\ call'.s = call.s
  BY <1>1 DEF CallMoved
<1>3. In("reset", s)' <=> In("reset", s)
  BY <1>2 DEF In
<1>4. In("reset", s) \/ job[s] = None => ~ Seeded(s)' /\ Dirty(s)'
  BY <1>1 DEF Forgets, In
<1>5. job[s] = None => ~ Has(s, "zero")'
  <2> SUFFICES ASSUME job[s] = None, Has(s, "zero")'
               PROVE  FALSE
    OBVIOUS
  <2>1. ~ Has(s, "zero")
    BY <1>1 DEF Forgets
  <2>2. s = call.s /\ Now.op = "zero"
    BY <1>1, <2>1, MovedHas DEF Special
  <2>3. call.c \in OwnCalls
    BY <1>1, <2>2, UnderWayIs DEF StepAt, OwnCalls
  <2>4. job[call.s] # None
    BY <2>3 DEF NInv, Orderly, Lists, Served
  <2>5. QED BY <2>2, <2>4
<1>6. In("reset", s) /\ call'.todo = <<>> => ~ Has(s, "zero")'
  <2> SUFFICES ASSUME call.c = "reset", call.s = s, call'.todo = <<>>
               PROVE  ~ Has(s, "zero")'
    BY DEF In
  <2>1. call'.todo = Tail(call.todo) /\ call.todo \in Seq(Ops)
        /\ Len(Tail(call.todo)) = Len(call.todo) - 1
    BY <1>1, UnderWayIs DEF CallMoved
  <2>2. Len(call.todo) = 1
    <3>1. Tail(call.todo) = <<>> /\ Tail(call.todo) \in Seq(Ops)
      BY <1>1, <2>1, UnderWayIs
    <3>2. Len(Tail(call.todo)) = 0 /\ Len(call.todo) \in Nat
      BY <2>1, <3>1, LengthIs
    <3>3. QED BY <2>1, <3>2
  <2>3. 2 \notin DOMAIN call.todo
    BY <2>1, <2>2
  <2>4. Now.op = "sync"
    BY <1>1, <2>3, UnderWayIs DEF StepAt
  <2>5. queue'[s] = <<>>
    BY <1>1, <2>4, StreamIs DEF Empties
  <2>6. QED BY <2>5 DEF Has
<1>7. QED BY <1>2, <1>3, <1>4, <1>5, <1>6 DEF Forgets

LEMMA NativeSampling ==
  ASSUME NInv, InNative
  PROVE  Sampling'
<1>1. /\ UnderWay /\ CallMoved /\ QueueMoved /\ Kept /\ Empties /\ Typed /\ StepsOK(call)
      /\ call.c \in OwnCalls => call.s \in Sessions /\ job[call.s] # None
  BY NativeMoves DEF NInv, Orderly, Lists, Served
<1>2. UNCHANGED <<dev, job, stage>> /\ call'.c = call.c /\ call'.s = call.s
  BY <1>1 DEF Kept, CallMoved
<1>3. call.failed = FALSE
  BY <1>1, UnderWayIs
<1> SUFFICES ASSUME NEW s \in Sessions
             PROVE  Forgets(s)' /\ Believes(s)' /\ Settles(s)' /\ Waits(s)'
  BY DEF Sampling
<1>4. /\ \A c : In(c, s)' <=> In(c, s)
      /\ Running(s)' <=> Running(s)
      /\ Asked(s)' = Asked(s)
  BY <1>2 DEF In, Running, Asked
<1>5. Forgets(s) /\ Believes(s) /\ Settles(s)
  BY DEF NInv, Sampling
<1>6. Waits(s)'
  BY NativeWaits
<1>7. Running(s) /\ ~ In("reset", s) => Fresh(s)
  BY <1>3, <1>5 DEF Believes, Failed
<1>8. Settles(s)' <=> (In("decode", s) /\ ~ Failed' /\ call'.todo # <<>> =>
                         /\ ~ Left("seed")' => Seeded(s)'
                         /\ ~ Left("cfg")' => ~ Dirty(s)' /\ host'[s].last = Asked(s))
  BY <1>4 DEF Settles
<1>9. Believes(s)' <=> (Running(s) /\ ~ In("reset", s) /\ ~ (In("decode", s) /\ Failed') => Fresh(s)')
  BY <1>4 DEF Believes
<1>10. ~ Failed' /\ call'.todo # <<>> =>
         \A op : Now.op # op /\ Left(op) => Left(op)'
  BY <1>1, MovedLeft DEF CallMoved, Failed
<1>11. ~ In("reset", s) /\ ~ Has(s, "zero") => ~ Has(s, "zero")'
  <2> SUFFICES ASSUME ~ In("reset", s), ~ Has(s, "zero"), Has(s, "zero")'
               PROVE  FALSE
    OBVIOUS
  <2>1. s = call.s /\ Now.op = "zero"
    BY <1>1, MovedHas DEF Special
  <2>2. QED BY <1>1, <2>1, UnderWayIs DEF StepAt, In
<1>12. Has(s, "seed") => Has(s, "seed")'
  BY <1>1, MovedHas
<1>13. (Has(s, "cfg") => Has(s, "cfg")')
       /\ (Has(s, "cfg")' => Has(s, "cfg") \/ (s = call.s /\ Now.op = "cfg"))
  BY <1>1, MovedHas DEF Special
\* A step that leaves what the host believes of s.
<1>14. ASSUME SameBelief(s), s # call.s \/ Now.op \notin {"seed", "cfg"}
       PROVE  Forgets(s)' /\ Believes(s)' /\ Settles(s)'
  <2>1. (Seeded(s)' <=> Seeded(s)) /\ (Dirty(s)' <=> Dirty(s))
        /\ host'[s].pinned = host[s].pinned /\ host'[s].last = host[s].last
    BY <1>14 DEF SameBelief, Seeded, Dirty
  <2>2. Forgets(s)'
    BY <1>2, <2>1, NativeForgets
  <2>3. Fresh(s) /\ ~ In("reset", s) => Fresh(s)'
    BY <1>2, <1>11, <1>12, <1>13, <1>14, <2>1 DEF Fresh, SeedFresh, ConfigFresh
  <2>4. Believes(s)'
    BY <1>7, <1>9, <2>3
  <2>5. Settles(s)'
    <3>1. CASE s # call.s
      BY <1>8, <3>1 DEF In
    <3>2. CASE Now.op \notin {"seed", "cfg"}
      <4>1. In("decode", s) /\ ~ Failed' /\ call'.todo # <<>> =>
              /\ ~ Left("seed") => Seeded(s)
              /\ ~ Left("cfg") => ~ Dirty(s) /\ host[s].last = Asked(s)
        BY <1>1, <1>3, <1>5 DEF Settles, Failed, UnderWay
      <4>2. ~ Failed' /\ call'.todo # <<>> =>
              (Left("seed") => Left("seed")') /\ (Left("cfg") => Left("cfg")')
        BY <1>10, <3>2
      <4>3. QED BY <1>8, <2>1, <4>1, <4>2
    <3>3. QED BY <1>14, <3>1, <3>2
  <2>6. QED BY <2>2, <2>4, <2>5
<1>15. CASE ~ SeedRng /\ ~ CopyConfig
  <2>1. Plain
    BY <1>1, <1>15, PlainMoves DEF InNative
  <2>2. QED BY <1>6, <1>14, <2>1 DEF Plain, HostsKept
<1>16. ASSUME host'[s] = host[s], s # call.s
       PROVE  Forgets(s)' /\ Believes(s)' /\ Settles(s)'
  BY <1>14, <1>16 DEF SameBelief
<1>17. CASE SeedRng
  <2>1. /\ Now.op = "seed" /\ call.c = "decode" /\ call.s \in Sessions
        /\ \A t \in Sessions \ {call.s} : host'[t] = host[t]
        /\ \A f \in {"dirty", "pinned", "last"} : host'[call.s][f] = host[call.s][f]
        /\ \/ call'.failed = TRUE
           \/ Put(call.s, Now) /\ host'[call.s].seeded = TRUE
           \/ host' = host /\ queue' = queue /\ host[call.s].seeded = TRUE
    BY <1>1, <1>17, SeedMoves
  <2>2. CASE s # call.s
    BY <1>6, <1>16, <2>1, <2>2
  <2>3. CASE s = call.s
    <3>1. In("decode", s) /\ ~ In("reset", s) /\ job[s] # None /\ call.c # "reset"
      BY <1>1, <2>1, <2>3 DEF In, OwnCalls
    <3>2. Forgets(s)'
      BY <1>2, <3>1, NativeForgets
    <3>3. (Dirty(s)' <=> Dirty(s)) /\ host'[s].pinned = host[s].pinned
          /\ host'[s].last = host[s].last
      BY <2>1, <2>3 DEF Dirty
    <3>4. ~ Failed' => Seeded(s)'
      BY <2>1, <2>3 DEF Failed, Seeded
    <3>5. Fresh(s) /\ ~ Failed' => Fresh(s)'
      <4>1. ASSUME Fresh(s), ~ Failed'
            PROVE  SeedFresh(s)'
        <5>1. CASE Put(call.s, Now)
          <6>1. Has(s, "seed")'
            BY <1>1, <2>1, <2>3, <5>1, PutHas, UnderWayIs
          <6>2. QED BY <6>1 DEF SeedFresh
        <5>2. CASE host' = host /\ queue' = queue
          BY <1>2, <4>1, <5>2 DEF Fresh, SeedFresh, Seeded, Has
        <5>3. QED BY <2>1, <4>1, <5>1, <5>2 DEF Failed
      <4>2. ASSUME Fresh(s)
            PROVE  ConfigFresh(s)'
        BY <1>2, <1>13, <2>1, <3>3, <4>2 DEF Fresh, ConfigFresh
      <4>3. QED BY <1>11, <3>1, <4>1, <4>2 DEF Fresh
    <3>6. Believes(s)'
      BY <1>7, <1>9, <3>1, <3>5
    <3>7. Settles(s)'
      <4>1. ~ Failed' /\ call'.todo # <<>> => (Left("cfg") => Left("cfg")')
        BY <1>10, <2>1
      <4>2. ~ Left("cfg") => ~ Dirty(s) /\ host[s].last = Asked(s)
        BY <1>1, <1>3, <1>5, <3>1 DEF Settles, Failed, UnderWay
      <4>3. QED BY <1>8, <3>3, <3>4, <4>1, <4>2
    <3>8. QED BY <1>6, <3>2, <3>6, <3>7
  <2>4. QED BY <2>2, <2>3
<1>18. CASE CopyConfig
  <2>1. /\ Now.op = "cfg" /\ call.c = "decode" /\ call.s \in Sessions
        /\ \A t \in Sessions \ {call.s} : host'[t] = host[t]
        /\ host'[call.s].seeded = host[call.s].seeded
        /\ \/ call'.failed = TRUE
           \/ /\ Put(call.s, Now)
              /\ host'[call.s].dirty = FALSE /\ host'[call.s].pinned = Asked(call.s)
              /\ host'[call.s].last = Asked(call.s)
           \/ /\ host' = host /\ queue' = queue
              /\ host[call.s].dirty = FALSE /\ host[call.s].last = Asked(call.s)
    BY <1>1, <1>18, ConfigMoves
  <2>2. CASE s # call.s
    BY <1>6, <1>16, <2>1, <2>2
  <2>3. CASE s = call.s
    <3>1. In("decode", s) /\ ~ In("reset", s) /\ job[s] # None /\ call.c # "reset"
      BY <1>1, <2>1, <2>3 DEF In, OwnCalls
    <3>2. Forgets(s)'
      BY <1>2, <3>1, NativeForgets
    <3>3. Seeded(s)' <=> Seeded(s)
      BY <2>1, <2>3 DEF Seeded
    <3>4. ~ Failed' => ~ Dirty(s)' /\ host'[s].last = Asked(s)
      BY <2>1, <2>3 DEF Failed, Dirty
    <3>5. Fresh(s) /\ ~ Failed' => Fresh(s)'
      <4>1. ASSUME Fresh(s), ~ Failed'
            PROVE  ConfigFresh(s)'
        <5>1. CASE Put(call.s, Now) /\ host'[s].pinned = Asked(s) /\ host'[s].last = Asked(s)
          <6>1. Has(s, "cfg")'
            BY <1>1, <2>1, <2>3, <5>1, PutHas, UnderWayIs
          <6>2. QED BY <5>1, <6>1 DEF ConfigFresh
        <5>2. CASE host' = host /\ queue' = queue
          BY <1>2, <4>1, <5>2 DEF Fresh, ConfigFresh, Dirty, Has
        <5>3. QED BY <2>1, <2>3, <4>1, <5>1, <5>2 DEF Failed
      <4>2. ASSUME Fresh(s)
            PROVE  SeedFresh(s)'
        BY <1>2, <1>12, <3>3, <4>2 DEF Fresh, SeedFresh
      <4>3. QED BY <1>11, <3>1, <4>1, <4>2 DEF Fresh
    <3>6. Believes(s)'
      BY <1>7, <1>9, <3>1, <3>5
    <3>7. Settles(s)'
      <4>1. ~ Failed' /\ call'.todo # <<>> => (Left("seed") => Left("seed")')
        BY <1>10, <2>1
      <4>2. ~ Left("seed") => Seeded(s)
        BY <1>1, <1>3, <1>5, <3>1 DEF Settles, Failed, UnderWay
      <4>3. QED BY <1>8, <3>3, <3>4, <4>1, <4>2
    <3>8. QED BY <1>6, <3>2, <3>6, <3>7
  <2>4. QED BY <2>2, <2>3
<1>19. QED BY <1>15, <1>17, <1>18

-----------------------------------------------------------------------------
(* What the worker does between two calls. *)

\* A call ends or begins: only a reset changes what the host believes.
Starts ==
  /\ CallTyped(call') /\ StepsOK(call')
  /\ DOMAIN host' = Sessions /\ \A s \in Sessions : HostTyped(host'[s])
  /\ call'.c = "decode" /\ call'.failed = FALSE /\ call'.todo # <<>> =>
       Left("seed")' /\ Left("cfg")'
  /\ \A s \in Sessions :
       /\ In("reset", s)' => call'.todo # <<>> /\ ~ Seeded(s)' /\ Dirty(s)'
       /\ ~ In("reset", s)' => host'[s] = host[s]

LEMMA NoCallIs ==
  /\ NoCall.c = "none" /\ NoCall.todo = <<>> /\ NoCall.failed = FALSE
  /\ {"c", "s", "b", "todo", "failed", "out"} \subseteq DOMAIN NoCall
BY DEF NoCall

LEMMA RestStarts ==
  ASSUME Typed, call' = NoCall, host' = host
  PROVE  Starts /\ call'.c = "none"
<1>1. CallTyped(call') /\ StepsOK(call')
  BY NoCallIs, Nothing
<1>2. QED BY <1>1, NoCallIs DEF Starts, Typed, In

LEMMA BeginStarts ==
  ASSUME Typed, NEW c, Callable(c), Begin(c)
  PROVE  Starts /\ call'.c = c.c /\ call'.s = c.s
<1>1. /\ CallTyped(call') /\ StepsOK(call') /\ call'.c = c.c /\ call'.s = c.s
      /\ c.c = "reset" => call'.todo # <<>>
      /\ c.c = "decode" /\ call'.failed = FALSE /\ call'.todo # <<>> =>
           /\ \E i \in DOMAIN call'.todo : call'.todo[i].op = "seed"
           /\ \E i \in DOMAIN call'.todo : call'.todo[i].op = "cfg"
  BY BeginMakes
<1>2. /\ DOMAIN host' = Sessions /\ \A s \in Sessions : HostTyped(host'[s])
      /\ c.c # "reset" => host' = host
      /\ c.c = "reset" => /\ host'[c.s].seeded = FALSE /\ host'[c.s].dirty = TRUE
                          /\ \A s \in Sessions \ {c.s} : host'[s] = host[s]
  BY BeginForgets
<1>3. call'.c = "decode" /\ call'.failed = FALSE /\ call'.todo # <<>> =>
        Left("seed")' /\ Left("cfg")'
  BY <1>1 DEF Left
<1>4. ASSUME NEW s \in Sessions
      PROVE  /\ In("reset", s)' => call'.todo # <<>> /\ ~ Seeded(s)' /\ Dirty(s)'
             /\ ~ In("reset", s)' => host'[s] = host[s]
  BY <1>1, <1>2 DEF In, Seeded, Dirty
<1>5. QED BY <1>1, <1>2, <1>3, <1>4 DEF Starts

\* Who is running after the step was running before, and its decode was fine.
Carries(s) ==
  /\ job'[s] = None => job[s] = None \/ In("reset", s)
  /\ Running(s)' /\ ~ In("reset", s)' =>
       Running(s) /\ job'[s] = job[s] /\ ~ (In("decode", s) /\ Failed)

WorkerStep ==
  /\ Starts /\ UNCHANGED <<dev, queue>> /\ call.todo = <<>>
  /\ job' \in [Sessions -> Jobs \cup {None}]
  /\ stage' \in [Jobs -> {"new", "running", "over"}]
  /\ solo' \in Seq(Sessions) /\ batch' \in Seq(Sessions) /\ leaving' \in Seq(Sessions)
  /\ Lists' /\ JobsApart'
  /\ \A s \in Sessions : Carries(s)

LEMMA WorkerKeeps ==
  ASSUME NInv, WorkerStep
  PROVE  NInv'
<1>1. Typed'
  BY DEF NInv, Orderly, Typed, WorkerStep, Starts
<1>2. OwnWork'
  BY DEF NInv, Orderly, OwnWork, WorkerStep
<1>3. StepsOK(call)' /\ Lists' /\ JobsApart'
  BY DEF WorkerStep, Starts
<1>4. ASSUME NEW s \in Sessions
      PROVE  Forgets(s)' /\ Believes(s)' /\ Settles(s)' /\ Waits(s)'
  <2>1. /\ call.todo = <<>> /\ dev' = dev /\ queue' = queue /\ Carries(s)
        /\ In("reset", s)' => call'.todo # <<>> /\ ~ Seeded(s)' /\ Dirty(s)'
        /\ ~ In("reset", s)' => host'[s] = host[s]
    BY DEF WorkerStep, Starts
  <2>2. Forgets(s) /\ Believes(s) /\ Waits(s)
    BY DEF NInv, Sampling
  <2>3. \A op : Has(s, op)' <=> Has(s, op)
    BY <2>1 DEF Has
  <2>4. host'[s] = host[s] => (Seeded(s)' <=> Seeded(s)) /\ (Dirty(s)' <=> Dirty(s))
    BY DEF Seeded, Dirty
  <2>5. job'[s] = None => ~ Seeded(s) /\ Dirty(s) /\ ~ Has(s, "zero")
    BY <2>1, <2>2 DEF Forgets, Carries
  <2>6. Forgets(s)'
    BY <2>1, <2>3, <2>4, <2>5 DEF Forgets
  <2>7. Believes(s)'
    <3> SUFFICES ASSUME Running(s)', ~ In("reset", s)'
                 PROVE  Fresh(s)'
      BY DEF Believes
    <3>1. Running(s) /\ job'[s] = job[s] /\ ~ (In("decode", s) /\ Failed) /\ host'[s] = host[s]
      BY <2>1 DEF Carries
    <3>2. Fresh(s)
      <4>1. CASE In("reset", s)
        BY <2>1, <2>2, <4>1 DEF Forgets, Fresh, SeedFresh, ConfigFresh
      <4>2. CASE ~ In("reset", s)
        BY <2>2, <3>1, <4>2 DEF Believes
      <4>3. QED BY <4>1, <4>2
    <3>3. QED BY <2>1, <2>3, <2>4, <3>1, <3>2 DEF Fresh, SeedFresh, ConfigFresh
  <2>8. Settles(s)'
    <3> SUFFICES ASSUME In("decode", s)', ~ Failed', call'.todo # <<>>
                 PROVE  Left("seed")' /\ Left("cfg")'
      BY DEF Settles
    <3>1. call'.failed \in BOOLEAN
      BY DEF WorkerStep, Starts, CallTyped
    <3>2. QED BY <3>1 DEF WorkerStep, Starts, In, Failed
  <2>9. Waits(s)'
    BY <2>1, <2>2 DEF Waits
  <2>10. QED BY <2>6, <2>7, <2>8, <2>9
<1>5. QED BY <1>1, <1>2, <1>3, <1>4 DEF NInv, Orderly, Sampling

LEMMA TailIs ==
  ASSUME NEW q \in Seq(Sessions), q # <<>>
  PROVE  /\ Tail(q) \in Seq(Sessions) /\ Head(q) = q[1] /\ 1 \in DOMAIN q /\ q[1] \in Sessions
         /\ \A i \in DOMAIN Tail(q) : i + 1 \in DOMAIN q /\ i + 1 # 1 /\ Tail(q)[i] = q[i + 1]
OBVIOUS

LEMMA OneIs ==
  ASSUME NEW s \in Sessions
  PROVE  /\ <<s>> \in Seq(Sessions) /\ DOMAIN <<s>> = {1} /\ <<s>>[1] = s
         /\ <<>> \in Seq(Sessions)
OBVIOUS

\* Jobs end, and no session changes hands.
LEMMA JobsEnd ==
  ASSUME NInv, job' = job, stage' \in [Jobs -> {"new", "running", "over"}],
         \A j \in Jobs : stage'[j] = stage[j] \/ stage'[j] = "over"
  PROVE  /\ JobsApart' /\ job' \in [Sessions -> Jobs \cup {None}]
         /\ \A s \in Sessions : Running(s)' => Running(s)
         /\ \A s \in Sessions : Running(s) /\ stage'[job[s]] = stage[job[s]] => Running(s)'
<1>1. job \in [Sessions -> Jobs \cup {None}] /\ JobsApart
  BY DEF NInv, Orderly, Typed
<1>2. \A s \in Sessions : job[s] # None => job[s] \in Jobs
  BY <1>1
<1>3. QED BY <1>1, <1>2 DEF JobsApart, Running

\* A call of one session begins.
LEMMA OwnBegins ==
  ASSUME NInv, NEW k \in OwnCalls, NEW s \in Sessions, Begin(Call(k, s)), job[s] # None
  PROVE  Starts /\ call'.c = k /\ call'.s = s
<1>1. k \in OwnCalls \cup GroupCalls /\ k # "step"
  BY DEF OwnCalls
<1>2. job[s] \in Jobs
  BY DEF NInv, Orderly, Typed
<1>3. Callable(Call(k, s)) /\ Call(k, s).c = k /\ Call(k, s).s = s
  BY <1>1, <1>2, CallIs
<1>4. QED BY <1>3, BeginStarts DEF NInv, Orderly

LEMMA ResetEnds ==
  ASSUME NInv, ResetReturns
  PROVE  WorkerStep
<1> DEFINE s == call.s
<1>1. /\ call.c = "reset" /\ call.todo = <<>> /\ s \in Sessions /\ job[s] # None /\ job[s] \in Jobs
      /\ Served(s) /\ JobsApart /\ Lists /\ Typed
  BY DEF NInv, Orderly, Lists, Served, OwnCalls, Typed, ResetReturns, Returned
<1>2. UNCHANGED <<dev, queue, stage, solo, batch, leaving>>
  BY DEF ResetReturns, Settle, lists
<1>3. /\ stage \in [Jobs -> {"new", "running", "over"}] /\ job \in [Sessions -> Jobs \cup {None}]
      /\ solo \in Seq(Sessions) /\ batch \in Seq(Sessions) /\ leaving \in Seq(Sessions)
  BY <1>1 DEF Typed
<1>4. In("reset", s) /\ \A t \in Sessions : ~ In("decode", t)
  BY <1>1 DEF In
<1>5. CASE stage[job[s]] # "over" /\ Begin(Call("prefill", s)) /\ job' = job
  <2>1. Starts /\ call'.c = "prefill" /\ call'.s = s
    BY <1>1, <1>5, OwnBegins DEF OwnCalls
  <2>2. Running(s)
    BY <1>1, <1>3, <1>5 DEF JobsApart, Running
  <2>3. Lists'
    BY <1>1, <1>2, <1>5, <2>1, <2>2 DEF Lists, Served, Running
  <2>4. JobsApart' /\ \A t \in Sessions : Carries(t)
    BY <1>1, <1>2, <1>4, <1>5 DEF JobsApart, Carries, Running
  <2>5. QED BY <1>1, <1>2, <1>3, <1>5, <2>1, <2>3, <2>4 DEF WorkerStep
<1>6. CASE stage[job[s]] = "over" /\ Answered /\ job' = [job EXCEPT ![s] = None]
  <2>1. Starts /\ call'.c = "none"
    BY <1>1, <1>6, RestStarts DEF Answered
  <2>2. /\ job'[s] = None /\ job' \in [Sessions -> Jobs \cup {None}]
        /\ \A t \in Sessions \ {s} : job'[t] = job[t]
    BY <1>1, <1>3, <1>6
  <2>3. /\ \A i \in DOMAIN solo : solo[i] \in Sessions /\ solo[i] # s
        /\ \A i \in DOMAIN leaving : leaving[i] \in Sessions /\ leaving[i] # s
        /\ batch = <<>>
    BY <1>1, <1>3 DEF Served
  <2>4. Lists'
    BY <1>1, <1>2, <2>1, <2>2, <2>3 DEF Lists, Running, OwnCalls
  <2>5. JobsApart'
    BY <1>1, <1>2, <2>2 DEF JobsApart
  <2>6. \A t \in Sessions : Carries(t)
    BY <1>2, <1>4, <2>2 DEF Carries, Running
  <2>7. QED BY <1>1, <1>2, <1>3, <2>1, <2>2, <2>4, <2>5, <2>6 DEF WorkerStep
<1>7. QED BY <1>5, <1>6 DEF ResetReturns

\* The stream of a session moves on: nobody, or the session, is left to retire.
LEMMA AnswerEnds ==
  ASSUME NInv, NEW s \in Sessions, call.s = s, call.c \in {"prefill", "decode"},
         call.todo = <<>>, Answered, UNCHANGED <<dev, queue, solo, batch, job>>,
         stage' \in [Jobs -> {"new", "running", "over"}],
         \A j \in Jobs : stage'[j] = stage[j] \/ (stage'[j] = "over" /\ j = job[s]),
         leaving' \in {<<>>, <<s>>, leaving},
         call.c = "decode" /\ call.failed = TRUE => stage'[job[s]] = "over"
  PROVE  WorkerStep
<1>1. Typed /\ Lists /\ JobsApart /\ Served(s)
  BY DEF NInv, Orderly, Lists, OwnCalls
<1>2. /\ job \in [Sessions -> Jobs \cup {None}] /\ job[s] # None /\ batch = <<>>
      /\ solo \in Seq(Sessions) /\ leaving \in Seq(Sessions)
      /\ \A i \in DOMAIN solo : solo[i] # s /\ solo[i] \in Sessions
  BY <1>1 DEF Typed, Served
<1>3. Starts /\ call'.c = "none"
  BY <1>1, RestStarts DEF Answered
<1>4. /\ JobsApart' /\ job' \in [Sessions -> Jobs \cup {None}]
      /\ \A t \in Sessions : Running(t)' => Running(t)
      /\ \A t \in Sessions : Running(t) /\ stage'[job[t]] = stage[job[t]] => Running(t)'
  BY JobsEnd
<1>5. leaving' \in Seq(Sessions)
  BY <1>2, OneIs
<1>6. Lists'
  <2>1. \A i \in DOMAIN solo : Running(solo[i])'
    <3> TAKE i \in DOMAIN solo
    <3>1. solo[i] \in Sessions /\ Running(solo[i]) /\ job[solo[i]] # job[s]
      BY <1>1, <1>2 DEF Lists, JobsApart
    <3>2. job[solo[i]] \in Jobs
      BY <1>2, <3>1 DEF Running
    <3>3. QED BY <1>4, <3>1, <3>2
  <2>2. /\ \A i, k \in DOMAIN leaving' : i # k => leaving'[i] # leaving'[k]
        /\ \A i \in DOMAIN leaving' : job[leaving'[i]] # None
        /\ \A i \in DOMAIN solo : \A k \in DOMAIN leaving' : solo[i] # leaving'[k]
    <3>1. CASE leaving' = leaving
      BY <1>1, <3>1 DEF Lists
    <3>2. CASE leaving' = <<s>>
      BY <1>2, <3>2, OneIs
    <3>3. CASE leaving' = <<>>
      BY <3>3
    <3>4. QED BY <3>1, <3>2, <3>3
  <2>3. QED BY <1>1, <1>2, <1>3, <2>1, <2>2 DEF Lists, OwnCalls
<1>7. \A t \in Sessions : Carries(t)
  <2> TAKE t \in Sessions
  <2>1. In("decode", t) /\ Failed => ~ Running(t)'
    BY DEF In, Failed, Running
  <2>2. QED BY <1>4, <2>1 DEF Carries
<1>8. batch \in Seq(Sessions)
  BY <1>1 DEF Typed
<1>9. QED BY <1>2, <1>3, <1>4, <1>5, <1>6, <1>7, <1>8 DEF WorkerStep

LEMMA PrefillEnds ==
  ASSUME NInv, PrefillReturns
  PROVE  WorkerStep
<1>1. call.c = "prefill" /\ call.todo = <<>> /\ call.s \in Sessions /\ Typed
      /\ job[call.s] \in Jobs
  BY DEF NInv, Orderly, Lists, Served, OwnCalls, Typed, PrefillReturns, Returned
<1>2. Answered /\ UNCHANGED <<dev, queue, solo, batch, job>>
  BY DEF PrefillReturns, Settle
<1>3. stage \in [Jobs -> {"new", "running", "over"}] /\ call.failed \in BOOLEAN
  BY <1>1 DEF Typed, CallTyped
<1>4. CASE call.failed = TRUE
  <2>1. stage' = [stage EXCEPT ![job[call.s]] = "over"] /\ leaving' = <<call.s>>
    BY <1>4 DEF PrefillReturns, Over
  <2>2. QED BY <1>1, <1>2, <1>3, <2>1, AnswerEnds
<1>5. CASE call.failed = FALSE
  <2>1. stage' = stage /\ leaving' = leaving
    BY <1>5 DEF PrefillReturns
  <2>2. QED BY <1>1, <1>2, <1>3, <2>1, AnswerEnds
<1>6. QED BY <1>3, <1>4, <1>5

LEMMA FeedMakes ==
  ASSUME Typed, NEW b \in Seq(Sessions), NEW tokens, Feed(b, tokens)
  PROVE  /\ stage' \in [Jobs -> {"new", "running", "over"}]
         /\ \A j \in Jobs : stage'[j] = stage[j]
                            \/ (stage'[j] = "over" /\ \E i \in DOMAIN b : job[b[i]] = j)
         /\ leaving' \in {<<>>, b}
<1> DEFINE Fed(s) == IF s \in ToSet(b)
                     THEN Append(emitted[job[s]], tokens[CHOOSE i \in DOMAIN b : b[i] = s])
                     ELSE <<>>
           full == {s \in ToSet(b) : Len(Fed(s)) >= MaxNew}
<1>1. /\ stage' = [j \in Jobs |-> IF \E s \in full : job[s] = j THEN "over" ELSE stage[j]]
      /\ leaving' = IF full = {} THEN <<>> ELSE b
  BY DEF Feed
<1>2. \A s \in full : \E i \in DOMAIN b : b[i] = s
  BY DEF ToSet
<1> HIDE DEF full
<1>3. stage \in [Jobs -> {"new", "running", "over"}]
  BY DEF Typed
<1>4. QED BY <1>1, <1>2, <1>3

LEMMA DecodeEnds ==
  ASSUME NInv, DecodeReturns
  PROVE  WorkerStep
<1>1. call.c = "decode" /\ call.todo = <<>> /\ call.s \in Sessions /\ Typed
      /\ job[call.s] \in Jobs
  BY DEF NInv, Orderly, Lists, Served, OwnCalls, Typed, DecodeReturns, Returned
<1>2. Answered /\ UNCHANGED <<dev, queue, solo, batch, job>>
  BY DEF DecodeReturns, Settle
<1>3. stage \in [Jobs -> {"new", "running", "over"}] /\ call.failed \in BOOLEAN
  BY <1>1 DEF Typed, CallTyped
<1>4. CASE call.failed = TRUE
  <2>1. stage' = [stage EXCEPT ![job[call.s]] = "over"] /\ leaving' = <<call.s>>
    BY <1>4 DEF DecodeReturns, Over
  <2>2. QED BY <1>1, <1>2, <1>3, <2>1, AnswerEnds
<1>5. CASE call.failed = FALSE
  <2> DEFINE b == <<call.s>>
  <2>1. b \in Seq(Sessions) /\ \A i \in DOMAIN b : b[i] = call.s
    BY <1>1, OneIs
  <2>2. Feed(b, <<call.out>>)
    BY <1>5 DEF DecodeReturns
  <2>3. /\ stage' \in [Jobs -> {"new", "running", "over"}]
        /\ \A j \in Jobs : stage'[j] = stage[j]
                           \/ (stage'[j] = "over" /\ \E i \in DOMAIN b : job[b[i]] = j)
        /\ leaving' \in {<<>>, b}
    BY <1>1, <2>1, <2>2, FeedMakes
  <2>4. \A j \in Jobs : stage'[j] = stage[j] \/ (stage'[j] = "over" /\ j = job[call.s])
    BY <2>1, <2>3
  <2>5. leaving' \in {<<>>, <<call.s>>, leaving}
    BY <2>3
  <2> HIDE DEF b
  <2>6. QED BY <1>1, <1>2, <1>5, <2>3, <2>4, <2>5, AnswerEnds
<1>6. QED BY <1>3, <1>4, <1>5

\* Nobody changes hands: the calls of the group, and what begins one.
LEMMA OthersStart ==
  ASSUME NInv, Starts, UNCHANGED <<dev, queue, job>>, call.todo = <<>>, call.c # "decode",
         stage' \in [Jobs -> {"new", "running", "over"}],
         \A j \in Jobs : stage'[j] = stage[j] \/ stage'[j] = "over",
         solo' \in Seq(Sessions), batch' \in Seq(Sessions), leaving' \in Seq(Sessions),
         Lists'
  PROVE  WorkerStep
<1>1. /\ JobsApart' /\ job' \in [Sessions -> Jobs \cup {None}]
      /\ \A s \in Sessions : Running(s)' => Running(s)
  BY JobsEnd
<1>2. \A s \in Sessions : Carries(s)
  BY <1>1 DEF Carries, In
<1>3. QED BY <1>1, <1>2 DEF WorkerStep

LEMMA Apart ==
  ASSUME NInv
  PROVE  /\ Typed /\ Lists /\ JobsApart
         /\ job \in [Sessions -> Jobs \cup {None}]
         /\ stage \in [Jobs -> {"new", "running", "over"}]
         /\ solo \in Seq(Sessions) /\ batch \in Seq(Sessions) /\ leaving \in Seq(Sessions)
         /\ call.failed \in BOOLEAN
BY DEF NInv, Orderly, Typed, CallTyped

\* The members of a batch that cannot be stepped are stepped alone.
LEMMA GroupFallsBack ==
  ASSUME NInv, call.c \in {"create", "add"}, call.todo = <<>>, Answered, Fallback,
         UNCHANGED <<dev, queue, job, stage, leaving>>
  PROVE  WorkerStep
<1>1. Starts /\ call'.c = "none"
  BY Apart, RestStarts DEF Answered
<1>2. solo = <<>> /\ leaving = <<>>
  BY Apart DEF Lists
<1>3. CASE call.failed = TRUE
  <2>1. solo' = batch /\ batch' = <<>> /\ leaving' = <<>>
    BY <1>2, <1>3 DEF Fallback
  <2>2. batch' \in Seq(Sessions) /\ leaving' \in Seq(Sessions) /\ DOMAIN leaving' = {}
    BY <2>1
  <2>3. Lists'
    BY Apart, <1>1, <2>1, <2>2 DEF Lists, Running, OwnCalls
  <2>4. QED BY Apart, <1>1, <2>1, <2>2, <2>3, OthersStart
<1>4. CASE call.failed = FALSE
  <2>1. solo' = solo /\ batch' = batch
    BY <1>4 DEF Fallback
  <2>2. Lists'
    BY Apart, <1>1, <2>1 DEF Lists, Running, OwnCalls
  <2>3. QED BY Apart, <1>1, <2>1, <2>2, OthersStart
<1>5. QED BY Apart, <1>3, <1>4

LEMMA CreateEnds ==
  ASSUME NInv, CreateReturns
  PROVE  WorkerStep
<1>1. /\ call.c \in {"create", "add"} /\ call.todo = <<>> /\ Answered /\ Fallback
      /\ UNCHANGED <<dev, queue, job, stage, leaving>>
  BY DEF CreateReturns, Returned, Settle
<1>2. QED BY <1>1, GroupFallsBack

LEMMA AddEnds ==
  ASSUME NInv, AddReturns
  PROVE  WorkerStep
<1>1. /\ call.c \in {"create", "add"} /\ call.todo = <<>> /\ Answered /\ Fallback
      /\ UNCHANGED <<dev, queue, job, stage, leaving>>
  BY DEF AddReturns, Returned, Settle
<1>2. QED BY <1>1, GroupFallsBack

LEMMA RemoveEnds ==
  ASSUME NInv, RemoveReturns
  PROVE  WorkerStep
<1> DEFINE s == call.s
           k == IF stage[job[s]] = "over" THEN "reset" ELSE "decode"
<1>1. call.c = "remove" /\ call.todo = <<>> /\ Begin(Call(k, s))
      /\ UNCHANGED <<dev, queue, solo, batch, leaving, job, stage>>
  BY DEF RemoveReturns, Returned, Settle, lists
<1>2. Served(s) /\ s \in Sessions /\ job[s] # None
  BY <1>1, Apart DEF Lists, Served, OwnCalls
<1>3. k \in {"reset", "decode"} /\ k \in OwnCalls
  BY DEF OwnCalls
<1>4. k = "decode" => Running(s)
  BY <1>2, Apart DEF Running, JobsApart
<1> HIDE DEF k
<1>5. Starts /\ call'.c = k /\ call'.s = s
  BY <1>1, <1>2, <1>3, OwnBegins
<1>6. Lists'
  BY Apart, <1>1, <1>2, <1>3, <1>4, <1>5 DEF Lists, Served, Running
<1>7. QED BY Apart, <1>1, <1>5, <1>6, OthersStart

LEMMA StepEnds ==
  ASSUME NInv, StepReturns
  PROVE  WorkerStep
<1>1. /\ call.c = "step" /\ call.todo = <<>> /\ Answered /\ batch' = <<>>
      /\ UNCHANGED <<dev, queue, job>>
  BY DEF StepReturns, Returned, Settle
<1>2. solo = <<>> /\ leaving = <<>>
  BY Apart, <1>1 DEF Lists
<1>3. Starts /\ call'.c = "none"
  BY Apart, <1>1, RestStarts DEF Answered
<1>4. batch' \in Seq(Sessions) /\ <<>> \in Seq(Sessions) /\ DOMAIN <<>> = {}
  BY <1>1
<1>5. CASE call.failed = TRUE
  <2>1. solo' = batch /\ leaving' = <<>> /\ stage' = stage
    BY <1>2, <1>5 DEF StepReturns
  <2>2. Lists'
    BY Apart, <1>1, <1>3, <1>4, <2>1 DEF Lists, Running, OwnCalls
  <2>3. QED BY Apart, <1>1, <1>3, <1>4, <2>1, <2>2, OthersStart
<1>6. CASE call.failed = FALSE
  <2>1. Feed(batch, group.got) /\ solo' = <<>>
    BY <1>2, <1>6 DEF StepReturns
  <2>2. /\ stage' \in [Jobs -> {"new", "running", "over"}]
        /\ \A j \in Jobs : stage'[j] = stage[j] \/ stage'[j] = "over"
        /\ leaving' \in {<<>>, batch}
    BY Apart, <2>1, FeedMakes
  <2>3. /\ \A i, k \in DOMAIN leaving' : i # k => leaving'[i] # leaving'[k]
        /\ \A i \in DOMAIN leaving' : job[leaving'[i]] # None
    BY Apart, <1>4, <2>2 DEF Lists, Running
  <2>4. Lists'
    BY <1>1, <1>3, <1>4, <2>1, <2>3 DEF Lists, OwnCalls
  <2>5. QED BY Apart, <1>1, <1>3, <1>4, <2>1, <2>2, <2>4, OthersStart
<1>7. QED BY Apart, <1>5, <1>6

LEMMA DestroyEnds ==
  ASSUME NInv, DestroyReturns
  PROVE  WorkerStep
<1>1. call.c = "destroy" /\ call.todo = <<>> /\ Answered
      /\ UNCHANGED <<dev, queue, solo, batch, leaving, job, stage>>
  BY DEF DestroyReturns, Returned, lists
<1>2. Starts /\ call'.c = "none"
  BY Apart, <1>1, RestStarts DEF Answered
<1>3. Lists'
  BY Apart, <1>1, <1>2 DEF Lists, Running, OwnCalls
<1>4. QED BY Apart, <1>1, <1>2, <1>3, OthersStart

LEMMA ReturnsKeep ==
  ASSUME NInv, Returns
  PROVE  WorkerStep
BY ResetEnds, PrefillEnds, CreateEnds, AddEnds, RemoveEnds, DecodeEnds, StepEnds, DestroyEnds
   DEF Returns

LEMMA DemoteStarts ==
  ASSUME NInv, NEW s \in Sessions, NEW k \in {"reset", "decode"}, Demote(s, k), job[s] # None
  PROVE  Starts /\ call'.c \in {"remove", k} /\ call'.s = s
<1> DEFINE c == IF s \in members THEN "remove" ELSE k
<1>1. c \in {"remove", k} /\ c \in OwnCalls /\ Begin(Call(c, s))
  BY DEF OwnCalls, Demote
<1> HIDE DEF c
<1>2. QED BY <1>1, OwnBegins

LEMMA RetireStarts ==
  ASSUME NInv, Retire
  PROVE  WorkerStep
<1> DEFINE s == Head(leaving)
<1>1. /\ call = NoCall /\ leaving # <<>> /\ leaving' = Tail(leaving)
      /\ UNCHANGED <<dev, queue, solo, batch, job, stage>>
  BY DEF Retire, Calling, Settle
<1>2. /\ leaving' \in Seq(Sessions) /\ s = leaving[1] /\ 1 \in DOMAIN leaving /\ s \in Sessions
      /\ \A i \in DOMAIN leaving' : /\ i + 1 \in DOMAIN leaving /\ i + 1 # 1
                                    /\ leaving'[i] = leaving[i + 1]
  BY Apart, <1>1, TailIs
<1>3. /\ batch = <<>> /\ job[s] # None
      /\ \A i \in DOMAIN solo : solo[i] # s
      /\ \A i \in DOMAIN leaving' : leaving'[i] # s
  BY Apart, <1>1, <1>2 DEF Lists
<1>4. /\ \A i, k \in DOMAIN leaving' : i # k => leaving'[i] # leaving'[k]
      /\ \A i \in DOMAIN leaving' : job[leaving'[i]] # None
      /\ \A i \in DOMAIN solo : \A k \in DOMAIN leaving' : solo[i] # leaving'[k]
  <2>1. \A i, k \in DOMAIN leaving' : i # k => i + 1 # k + 1
    BY <1>2
  <2>2. QED BY Apart, <1>2, <2>1 DEF Lists
<1>5. call.c = "none" /\ call.todo = <<>>
  BY <1>1, NoCallIs
<1> HIDE DEF s
<1>6. CASE stage[job[s]] = "over"
  <2>1. Demote(s, "reset")
    BY <1>6 DEF Retire, s
  <2>2. Starts /\ call'.c \in {"remove", "reset"} /\ call'.s = s
    BY <1>2, <1>3, <2>1, DemoteStarts
  <2>3. Lists'
    BY Apart, <1>1, <1>2, <1>3, <1>4, <2>2 DEF Lists, Served, Running
  <2>4. QED BY Apart, <1>1, <1>2, <1>5, <2>2, <2>3, OthersStart
<1>7. CASE stage[job[s]] # "over"
  <2>1. call' = NoCall /\ host' = host
    BY <1>1, <1>7 DEF Retire, s
  <2>2. Starts /\ call'.c = "none"
    BY Apart, <2>1, RestStarts
  <2>3. Lists'
    BY Apart, <1>1, <1>3, <1>4, <2>2 DEF Lists, Running, OwnCalls
  <2>4. QED BY Apart, <1>1, <1>2, <1>5, <2>2, <2>3, OthersStart
<1>8. QED BY <1>6, <1>7

LEMMA AloneStarts ==
  ASSUME NInv, Alone
  PROVE  WorkerStep
<1> DEFINE s == Head(solo)
<1>1. /\ call = NoCall /\ leaving = <<>> /\ solo # <<>> /\ solo' = Tail(solo)
      /\ Demote(s, "decode")
      /\ UNCHANGED <<dev, queue, batch, leaving, job, stage>>
  BY DEF Alone, Calling, Settle
<1>2. /\ solo' \in Seq(Sessions) /\ s = solo[1] /\ 1 \in DOMAIN solo /\ s \in Sessions
      /\ \A i \in DOMAIN solo' : /\ i + 1 \in DOMAIN solo /\ i + 1 # 1
                                 /\ solo'[i] = solo[i + 1]
  BY Apart, <1>1, TailIs
<1>3. /\ batch = <<>> /\ Running(s) /\ job[s] # None
      /\ \A i \in DOMAIN solo' : solo'[i] # s
  BY Apart, <1>1, <1>2 DEF Lists, Running
<1>4. /\ \A i, k \in DOMAIN solo' : i # k => solo'[i] # solo'[k]
      /\ \A i \in DOMAIN solo' : Running(solo'[i])
  <2>1. \A i, k \in DOMAIN solo' : i # k => i + 1 # k + 1
    BY <1>2
  <2>2. QED BY Apart, <1>2, <2>1 DEF Lists
<1>5. call.c = "none" /\ call.todo = <<>>
  BY <1>1, NoCallIs
<1> HIDE DEF s
<1>6. Starts /\ call'.c \in {"remove", "decode"} /\ call'.s = s
  BY <1>1, <1>2, <1>3, DemoteStarts
<1>7. DOMAIN leaving' = {}
  BY <1>1
<1>8. Lists'
  BY Apart, <1>1, <1>2, <1>3, <1>4, <1>6, <1>7 DEF Lists, Served, Running
<1>9. QED BY Apart, <1>1, <1>2, <1>5, <1>6, <1>8, OthersStart

\* A non-empty set of numbers has a least element: who is added next exists.
LEMMA Least ==
  ASSUME NEW S, S \subseteq Nat, S # {}
  PROVE  Min(S) \in S
<1>1. PICK k \in S : \A m \in S : ~ (<<m, k>> \in OpToRel(<, Nat))
  BY WFMin, NatLessThanWellFounded
<1>2. \A m \in S : ~ (m < k)
  BY <1>1 DEF OpToRel
<1>3. \A m \in S : k =< m
  BY <1>2
<1>4. QED BY <1>3 DEF Min

LEMMA GroupStarts ==
  ASSUME NInv, NEW c, Callable(c), Begin(c), c.c \in GroupCalls,
         call = NoCall, solo = <<>> /\ leaving = <<>>,
         UNCHANGED <<dev, queue, solo, batch, leaving, job, stage>>
  PROVE  WorkerStep
<1>1. Starts /\ call'.c = c.c
  BY Apart, BeginStarts
<1>2. call.c = "none" /\ call.todo = <<>>
  BY NoCallIs
<1>3. Lists'
  BY Apart, <1>1 DEF Lists, Running, OwnCalls, GroupCalls
<1>4. QED BY Apart, <1>1, <1>2, <1>3, OthersStart

LEMMA TogetherStarts ==
  ASSUME NInv, Together
  PROVE  WorkerStep
<1>1. /\ call = NoCall /\ leaving = <<>> /\ batch # <<>>
      /\ UNCHANGED <<dev, queue, solo, batch, leaving, job, stage>>
  BY DEF Together, Calling, Settle, lists
<1>2. solo = <<>>
  BY Apart, <1>1 DEF Lists
<1>3. ASSUME NEW c, Callable(c), Begin(c), c.c \in GroupCalls
      PROVE  WorkerStep
  BY <1>1, <1>2, <1>3, GroupStarts
<1>4. {"create", "add", "step"} \subseteq GroupCalls
      /\ "create" \notin OwnCalls \cup {"add"} /\ "add" # "prefill"
  BY DEF GroupCalls, OwnCalls
<1>5. CASE Begin(Call("create", None))
  BY <1>3, <1>4, <1>5, CallIs
<1>6. CASE Missing # {} /\ Begin(Call("add", batch[Min(Missing)]))
  <2>1. Missing \subseteq Nat /\ Missing \subseteq DOMAIN batch
    BY Apart DEF Missing
  <2>2. Min(Missing) \in DOMAIN batch
    <3>1. Min(Missing) \in Missing
      BY <1>6, <2>1, Least
    <3>2. QED BY <2>1, <3>1
  <2>3. batch[Min(Missing)] \in Sessions
    BY Apart, <2>2
  <2>4. QED BY <1>3, <1>4, <1>6, <2>3, CallIs
<1>7. CASE Begin(StepCall(batch))
  BY Apart, <1>3, <1>4, <1>7, StepCallIs
<1>8. QED BY <1>5, <1>6, <1>7 DEF Together

LEMMA IdleIs ==
  ASSUME NInv, Idle
  PROVE  /\ call.c = "none" /\ call.todo = <<>>
         /\ solo = <<>> /\ batch = <<>> /\ leaving = <<>>
BY NoCallIs DEF Idle

LEMMA JobStarts ==
  ASSUME NInv, NEW j \in Jobs, NEW s \in Sessions, StartJob(j, s)
  PROVE  WorkerStep
<1>1. /\ call.c = "none" /\ call.todo = <<>> /\ solo' = <<>> /\ batch' = <<>> /\ leaving' = <<>>
      /\ UNCHANGED <<dev, queue>> /\ job[s] = None /\ stage[j] = "new"
      /\ job' = [job EXCEPT ![s] = j] /\ stage' = [stage EXCEPT ![j] = "running"]
      /\ Begin(Call("reset", s))
  BY IdleIs DEF StartJob, Decide, Settle, lists
<1>2. j # None
  BY NativeAssumption DEF NativeAssumption
<1>3. Callable(Call("reset", s)) /\ Call("reset", s).c = "reset" /\ Call("reset", s).s = s
  BY CallIs DEF OwnCalls
<1>4. Starts /\ call'.c = "reset" /\ call'.s = s
  BY Apart, <1>1, <1>3, BeginStarts
<1>5. /\ job'[s] = j /\ \A t \in Sessions \ {s} : job'[t] = job[t]
      /\ stage'[j] = "running" /\ \A i \in Jobs \ {j} : stage'[i] = stage[i]
      /\ job' \in [Sessions -> Jobs \cup {None}]
      /\ stage' \in [Jobs -> {"new", "running", "over"}]
  BY Apart, <1>1
<1>6. \A t \in Sessions : job[t] # None => job[t] \in Jobs /\ job[t] # j /\ t # s
  BY Apart, <1>1 DEF JobsApart
<1>7. JobsApart'
  <2>1. \A t \in Sessions : job'[t] # None => stage'[job'[t]] # "new"
    BY Apart, <1>5, <1>6 DEF JobsApart
  <2>2. \A t, u \in Sessions : t # u /\ job'[t] # None => job'[t] # job'[u]
    BY Apart, <1>2, <1>5, <1>6 DEF JobsApart
  <2>3. QED BY <2>1, <2>2 DEF JobsApart
<1>8. \A t \in Sessions : Carries(t)
  <2> TAKE t \in Sessions
  <2>1. In("reset", s)' /\ ~ In("decode", t)
    BY <1>1, <1>4 DEF In
  <2>2. t # s /\ job[t] # None => stage'[job[t]] = stage[job[t]]
    BY <1>5, <1>6
  <2>3. QED BY <1>1, <1>2, <1>5, <2>1, <2>2 DEF Carries, Running
<1>9. DOMAIN solo' = {} /\ DOMAIN batch' = {} /\ DOMAIN leaving' = {}
      /\ solo' \in Seq(Sessions) /\ batch' \in Seq(Sessions) /\ leaving' \in Seq(Sessions)
  BY <1>1
<1>10. Lists'
  BY <1>1, <1>2, <1>4, <1>5, <1>9 DEF Lists, Served, OwnCalls
<1>11. QED BY <1>1, <1>4, <1>5, <1>7, <1>8, <1>9, <1>10 DEF WorkerStep

\* The quantum is decided, and no call is begun.
LEMMA DecideStarts ==
  ASSUME NInv, Decide, UNCHANGED <<host, call, job>>,
         stage' \in [Jobs -> {"new", "running", "over"}],
         \A j \in Jobs : stage'[j] = stage[j] \/ stage'[j] = "over",
         solo' \in Seq(Sessions), batch' \in Seq(Sessions), leaving' \in Seq(Sessions),
         \A i, k \in DOMAIN batch' : i # k => batch'[i] # batch'[k],
         \A i, k \in DOMAIN solo' : i # k => solo'[i] # solo'[k],
         \A i, k \in DOMAIN leaving' : i # k => leaving'[i] # leaving'[k],
         (\A i \in DOMAIN solo : Running(solo[i]))',
         (\A i \in DOMAIN batch : Running(batch[i]))',
         \A i \in DOMAIN leaving' : job[leaving'[i]] # None,
         solo' = <<>> \/ leaving' = <<>>,
         batch' # <<>> => solo' = <<>> /\ leaving' = <<>>
  PROVE  WorkerStep
<1>1. call = NoCall /\ call.c = "none" /\ call.todo = <<>> /\ UNCHANGED <<dev, queue>>
  BY IdleIs DEF Decide, Settle, Idle
<1>2. Starts /\ call'.c = "none"
  BY Apart, <1>1, RestStarts
<1>3. \A i \in DOMAIN solo' : \A k \in DOMAIN leaving' : solo'[i] # leaving'[k]
  OBVIOUS
<1>4. job' = job /\ call'.c \notin OwnCalls \cup {"prefill", "decode", "create", "add", "step"}
  BY <1>2 DEF OwnCalls
<1>5. Lists'
  BY <1>3, <1>4 DEF Lists
<1>6. QED BY <1>1, <1>2, <1>5, OthersStart

LEMMA StepAloneStarts ==
  ASSUME NInv, NEW s \in Sessions, StepAlone(s)
  PROVE  WorkerStep
<1>1. Decide /\ Running(s) /\ solo' = <<s>> /\ batch' = <<>> /\ leaving' = <<>>
      /\ UNCHANGED <<host, call, job, stage>>
  BY IdleIs DEF StepAlone, Decide
<1>2. DOMAIN batch' = {} /\ DOMAIN leaving' = {} /\ DOMAIN solo' = {1} /\ solo'[1] = s
      /\ solo' \in Seq(Sessions) /\ batch' \in Seq(Sessions) /\ leaving' \in Seq(Sessions)
  BY <1>1
<1>3. (\A i \in DOMAIN solo : Running(solo[i]))'
  BY <1>1, <1>2 DEF Running
<1>4. QED BY Apart, <1>1, <1>2, <1>3, DecideStarts

LEMMA CancelStarts ==
  ASSUME NInv, NEW s \in Sessions, Cancel(s)
  PROVE  WorkerStep
<1>1. Decide /\ Running(s) /\ leaving' = <<s>> /\ batch' = <<>> /\ solo' = <<>>
      /\ UNCHANGED <<host, call, job>> /\ stage' = [stage EXCEPT ![job[s]] = "over"]
  BY IdleIs DEF Cancel, Decide, Over
<1>2. DOMAIN batch' = {} /\ DOMAIN solo' = {} /\ DOMAIN leaving' = {1} /\ leaving'[1] = s
      /\ solo' \in Seq(Sessions) /\ batch' \in Seq(Sessions) /\ leaving' \in Seq(Sessions)
  BY <1>1
<1>3. stage' \in [Jobs -> {"new", "running", "over"}]
      /\ \A j \in Jobs : stage'[j] = stage[j] \/ stage'[j] = "over"
  BY Apart, <1>1
<1>4. job[s] # None
  BY <1>1 DEF Running
<1>5. QED BY <1>1, <1>2, <1>3, <1>4, DecideStarts

LEMMA MergeStarts ==
  ASSUME NInv, NEW n \in 2 .. Cardinality(Sessions), NEW b \in [1 .. n -> Sessions], Merge(b)
  PROVE  WorkerStep
<1>1. /\ Decide /\ batch' = b /\ solo' = <<>> /\ leaving' = <<>>
      /\ UNCHANGED <<host, call, job, stage>>
      /\ \A i \in DOMAIN b : Running(b[i])
      /\ \A i, k \in DOMAIN b : i # k => b[i] # b[k]
  BY IdleIs DEF Merge, Decide
<1>2. n \in Nat
  <2>1. Cardinality(Sessions) \in Nat
    BY FS_CardinalityType, NativeAssumption DEF NativeAssumption
  <2>2. QED BY <2>1
<1>3. b \in Seq(Sessions)
  BY <1>2
<1>4. DOMAIN solo' = {} /\ DOMAIN leaving' = {}
      /\ solo' \in Seq(Sessions) /\ leaving' \in Seq(Sessions)
  BY <1>1
<1>5. (\A i \in DOMAIN batch : Running(batch[i]))'
  BY <1>1 DEF Running
<1>6. QED BY Apart, <1>1, <1>3, <1>4, <1>5, DecideStarts

LEMMA DestroyStarts ==
  ASSUME NInv, DestroyGroup
  PROVE  WorkerStep
<1>1. /\ call = NoCall /\ solo = <<>> /\ leaving = <<>> /\ Begin(Call("destroy", None))
      /\ UNCHANGED <<dev, queue, solo, batch, leaving, job, stage>>
  BY DEF DestroyGroup, Idle, Settle, lists
<1>2. Callable(Call("destroy", None)) /\ Call("destroy", None).c = "destroy"
  BY CallIs DEF GroupCalls, OwnCalls
<1>3. QED BY <1>1, <1>2, GroupStarts DEF GroupCalls

LEMMA QuantumStarts ==
  ASSUME NInv, Quantum
  PROVE  WorkerStep
BY JobStarts, StepAloneStarts, CancelStarts, MergeStarts, DestroyStarts DEF Quantum

-----------------------------------------------------------------------------
(* Every step keeps the invariant. *)

LEMMA NextNInv == NInv /\ [Next]_vars => NInv'
<1> SUFFICES ASSUME NInv, [Next]_vars PROVE NInv'
  OBVIOUS
<1>1. CASE Device
  BY <1>1, DeviceOrderly, DeviceSampling DEF NInv
<1>2. CASE InNative
  BY <1>2, NativeOrderly, NativeSampling DEF NInv
<1>3. CASE Returns \/ Retire \/ Alone \/ Together \/ Quantum
  BY <1>3, ReturnsKeep, RetireStarts, AloneStarts, TogetherStarts, QuantumStarts, WorkerKeeps
<1>4. CASE UNCHANGED vars
  <2>1. UNCHANGED <<host, dev, queue, call, job, stage, solo, batch, leaving>>
    BY <1>4 DEF vars, callers, lists
  <2>2. Orderly'
    <3>1. Typed' /\ OwnWork'
      BY <2>1 DEF NInv, Orderly, Typed, OwnWork, CallTyped
    <3>2. StepsOK(call)'
      BY <2>1 DEF NInv, Orderly
    <3>3. Lists' /\ JobsApart'
      BY <2>1 DEF NInv, Orderly, Lists, Served, Running, JobsApart
    <3>4. QED BY <3>1, <3>2, <3>3 DEF Orderly
  <2>3. Sampling'
    BY <2>1 DEF NInv, Sampling, Forgets, Believes, Settles, Waits, Fresh, SeedFresh,
                ConfigFresh, Has, Left, Seeded, Dirty, In, Failed, Running, Asked
  <2>4. QED BY <2>2, <2>3 DEF NInv
<1>5. QED BY <1>1, <1>2, <1>3, <1>4 DEF Next, Finished

-----------------------------------------------------------------------------
(* What the invariant says of a pass. *)

LEMMA NInvSampled == NInv => SampledAsAsked
<1> SUFFICES ASSUME NInv, NEW s \in Sessions, queue[s] # <<>>,
                    Head(queue[s]).op \in {"forward", "graph"}
             PROVE  dev[s].cfg = Asked(s) /\ dev[s].seed = job[s]
  BY DEF SampledAsAsked
<1>1. 1 \in DOMAIN queue[s] /\ Len(queue[s]) \in Nat /\ DOMAIN queue[s] = 1 .. Len(queue[s])
      /\ queue[s][1].op \in {"forward", "graph"}
  <2>1. queue[s] \in Seq(Ops)
    BY DEF NInv, Orderly, Typed
  <2>2. QED BY <2>1
<1>2. /\ In("decode", s) /\ ~ Failed /\ Len(queue[s]) = 1
      /\ call.todo # <<>> /\ Head(call.todo).op = "sync"
  BY <1>1 DEF NInv, Sampling, Waits
<1>3. ~ Has(s, "seed") /\ ~ Has(s, "cfg")
  BY <1>1, <1>2 DEF Has
<1>4. ~ Left("seed") /\ ~ Left("cfg")
  <2>1. call.todo \in Seq(Ops) /\ \A i \in DOMAIN call.todo : StepAt(call, i)
    BY DEF NInv, Orderly, Typed, CallTyped, StepsOK
  <2>2. call.todo[1].op = "sync"
    BY <1>2, <2>1
  <2>3. QED BY <2>1, <2>2 DEF Left, StepAt
<1>5. Seeded(s) /\ ~ Dirty(s) /\ host[s].last = Asked(s)
  BY <1>2, <1>4 DEF NInv, Sampling, Settles
<1>6. Running(s) /\ ~ In("reset", s)
  BY <1>2, Apart DEF Lists, In
<1>7. Fresh(s)
  BY <1>2, <1>6 DEF NInv, Sampling, Believes
<1>8. QED BY <1>3, <1>5, <1>7 DEF Fresh, SeedFresh, ConfigFresh

\* Every pass that decides a token alone, whether it is about to be run or was
\* captured in a graph, finds on the device the sampling configuration and the
\* seed of the request that the session serves at the moment: the host's flags
\* that save a copy (rng_seeded, cfg_dirty, last_cfg) are never trusted past a reset,
\* a change of job or a refused call.
THEOREM SampledAsAskedHolds == Spec => []SampledAsAsked
<1>1. Init => NInv
  BY InitNInv
<1>2. NInv /\ [Next]_vars => NInv'
  BY NextNInv
<1>3. NInv => SampledAsAsked
  BY NInvSampled
<1>4. QED BY <1>1, <1>2, <1>3, PTL DEF Spec
=============================================================================
