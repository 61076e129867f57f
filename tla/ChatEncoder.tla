---------------------------- MODULE ChatEncoder ----------------------------
(***************************************************************************)
(* The frames of /v1/chat/completions: one chunk for every emission, drawn *)
(* from nothing but the emission. An emission is a record whose field k is *)
(* role, content, start, args, final or error.                             *)
(***************************************************************************)
EXTENDS Integers, Sequences

ChatChunk(delta, finish) == [ev |-> "chunk", delta |-> delta, finish |-> finish]

NoFinish == [reason |-> "none", tokens |-> 0]

\* The chunk of an emission.
ChatRender(em) ==
  CASE em.k = "role"    -> ChatChunk([t |-> "role"], NoFinish)
    [] em.k = "content" -> ChatChunk([t |-> "content", value |-> em.value], NoFinish)
    [] em.k = "start"   -> ChatChunk([t |-> "call", index |-> em.index, name |-> em.name],
                                     NoFinish)
    [] em.k = "args"    -> ChatChunk([t |-> "args", index |-> em.index, value |-> em.value],
                                     NoFinish)
    [] em.k = "final"   -> ChatChunk([t |-> "nothing"],
                                     [reason |-> em.reason, tokens |-> em.tokens])
    [] em.k = "error"   -> [ev |-> "error"]

ChatDone == [ev |-> "[DONE]"]
=============================================================================
