----------------------------- MODULE GroupArena -----------------------------
(***************************************************************************)
(* The device memory of one batch group: mc_batch_group_create carves all   *)
(* of it once from a bump arena, and mc_batch_step then reads and writes    *)
(* the buffers.  Addresses are byte offsets from the arena's base, with the *)
(* sizes the code computes; a buffer's contents are abstracted to who wrote *)
(* them last.                                                               *)
(***************************************************************************)
EXTENDS Integers, Sequences, FiniteSetsExt

CONSTANTS
  SlotCounts,   \* values of options->max_slots, 2 to 8
  Tiers,        \* values of options->max_context_tokens
  Limits        \* positions the members of a step are at

VARIABLES
  arena,        \* [rows, tier], or <<>> before the group is created
  content,      \* per buffer that is read later, what it holds
  phase         \* "none", "idle", "layer" (a step is between two layers)

vars == <<arena, content, phase>>

Heads    == 16
Stride   == 130 * 4                \* kAttnPartialStride floats
Split2   == 32                     \* kMergeSplit2
Vocab    == 130560
PoolSize == 32 * 512 * 42 * 2      \* the parking page, one per layer

\* attention_decode_chunk_pos, without its diagnostic override, and
\* attention_decode_max_chunks.
ChunkPos(ctx) == IF ctx <= 16384 THEN 64 ELSE IF ctx <= 49152 THEN 128 ELSE 256
MaxChunks(ctx) == (ctx + ChunkPos(ctx) - 1) \div ChunkPos(ctx)

-----------------------------------------------------------------------------
(* The carve *)

ActBytes(R)           == R * (5 * 2048 + 2560 + 12288 + 6144) * 2 + R * Vocab * 2
PartialBytes(R, ctx)  == R * Heads * MaxChunks(ctx) * Stride
Partial2Bytes(R)      == R * Heads * Split2 * Stride

StepTables == {"step_pos", "step_pt", "step_kv", "step_tok", "step_seq"}

\* The buffers taken with DeviceArena::alloc, in order.
Requests(R) ==
  <<[name |-> "act", bytes |-> ActBytes(R)],
    [name |-> "gemm_ws", bytes |-> 16 * 1048576],
    [name |-> "slot_pos", bytes |-> 64], [name |-> "slot_pt", bytes |-> 64],
    [name |-> "slot_kv", bytes |-> 64], [name |-> "slot_tok", bytes |-> 64],
    [name |-> "slot_seq", bytes |-> 64],
    [name |-> "step_pos", bytes |-> 64], [name |-> "step_pt", bytes |-> 64],
    [name |-> "step_kv", bytes |-> 64], [name |-> "step_tok", bytes |-> 64],
    [name |-> "step_seq", bytes |-> 64],
    [name |-> "dummy_pos", bytes |-> 4], [name |-> "dummy_tok", bytes |-> 4],
    [name |-> "dummy_pt", bytes |-> 4], [name |-> "dummy_kv", bytes |-> PoolSize],
    [name |-> "dummy_seq", bytes |-> 256]>>

\* DeviceArena::alloc's rounding.
AlignUp(x) == ((x + 255) \div 256) * 256

\* Where alloc places the i-th request.
Start(R) ==
  LET req == Requests(R)
      at[i \in 1..Len(req)] ==
        IF i = 1 THEN 0 ELSE AlignUp(at[i - 1] + req[i - 1].bytes)
  IN at

Need(R, ctx) ==
  ActBytes(R) + PartialBytes(R, ctx) + Partial2Bytes(R) + 16 * 1048576 + 256
    + 640 + 12 + PoolSize + 256 + 2048

\* alloc returns null past the arena's end.
Fits(R, ctx) ==
  LET req == Requests(R)
  IN Start(R)[Len(req)] + req[Len(req)].bytes <= Need(R, ctx)

\* What `p` has been advanced to when the partials, the second-level partials
\* and the RoPE table are cut from it.
PartialsAt(R)      == ActBytes(R)
Partials2At(R, ctx) == PartialsAt(R) + PartialBytes(R, ctx)
RopeAt(R, ctx)     == Partials2At(R, ctx) + Partial2Bytes(R)

\* The extent [from, to) of a buffer that is written once and read later.
Extent(b) ==
  LET R == arena.rows
      req == Requests(R)
      i == CHOOSE k \in 1..Len(req) : req[k].name = b
  IN IF b = "rope"
     THEN [from |-> RopeAt(R, arena.tier), to |-> RopeAt(R, arena.tier) + 256]
     ELSE [from |-> Start(R)[i], to |-> Start(R)[i] + req[i].bytes]

Kept == StepTables \cup {"rope"}

Init ==
  /\ arena = <<>>
  /\ content = [b \in Kept |-> "nothing"]
  /\ phase = "none"

\* mc_batch_group_create: one carve, then the RoPE table is written.
Create ==
  /\ phase = "none"
  /\ \E R \in SlotCounts, ctx \in Tiers :
       /\ Fits(R, ctx)
       /\ arena' = [rows |-> R, tier |-> ctx]
  /\ content' = [content EXCEPT !["rope"] = "inv_freq"]
  /\ phase' = "idle"

-----------------------------------------------------------------------------
(* A step *)

\* mc_batch_step copies the members' addresses into the step tables.
WriteStepTables ==
  /\ phase = "idle"
  /\ content' = [b \in Kept |-> IF b \in StepTables THEN "members" ELSE content[b]]
  /\ phase' = "layer"
  /\ UNCHANGED arena

Overlap(a, b) == a.from < b.to /\ b.from < a.to

\* The partials of head h of row r, one for each of n chunks.
Partials(r, h, n) ==
  LET at == PartialsAt(arena.rows) + (r * Heads + h) * MaxChunks(arena.tier) * Stride
  IN [from |-> at, to |-> at + n * Stride]

\* The second level: a split without a chunk gets an empty header of two floats.
Splits(r, h, n) ==
  LET at == Partials2At(arena.rows, arena.tier) + (r * Heads + h) * Split2 * Stride
  IN {[from |-> at + k * Stride, to |-> at + k * Stride + IF k < n THEN Stride ELSE 8] :
        k \in 0..Split2 - 1}

\* What the attention of one layer writes for row r at position limit: nothing
\* when there is one chunk only (the direct branch).
Written(r, limit) ==
  LET n == limit \div ChunkPos(arena.tier) + 1
  IN IF n = 1 THEN {}
     ELSE UNION {{Partials(r, h, n)} \cup Splits(r, h, n) : h \in 0..Heads - 1}

\* One layer: the attention kernel reads through the tables and the RoPE table
\* and leaves its partials.
Layer ==
  /\ phase = "layer"
  /\ \E n \in 1..arena.rows : \E limit \in [0..n - 1 -> {l \in Limits : l < arena.tier}] :
       LET w == UNION {Written(r, limit[r]) : r \in 0..n - 1}
       IN content' = [b \in Kept |->
            IF \E s \in w : Overlap(s, Extent(b)) THEN "partials" ELSE content[b]]
  /\ UNCHANGED <<arena, phase>>

\* mc_batch_step returns.
EndStep ==
  /\ phase = "layer"
  /\ phase' = "idle"
  /\ UNCHANGED <<arena, content>>

Next == Create \/ WriteStepTables \/ Layer \/ EndStep

Spec == Init /\ [][Next]_vars

-----------------------------------------------------------------------------
(* Properties *)

\* Between two layers of a step the tables the kernels address the members
\* through are those the step wrote, and the RoPE table, written once when the
\* group is created, is still the RoPE table.
TablesKept ==
  phase = "layer" => /\ \A b \in StepTables : content[b] = "members"
                     /\ content["rope"] = "inv_freq"
=============================================================================
