------------------------------ MODULE MCNative ------------------------------
(* Instances of Native for TLC. *)
EXTENDS Native

CONSTANTS s1, s2, j1, j2, j3

\* A page holds two tokens: j1 takes its second page while it decodes, j2 while
\* it is prefilled; j2 reaches the end of the context.
MCPrompt == j1 :> 1 @@ j2 :> 2 @@ j3 :> 1
MCConfig == j1 :> "greedy" @@ j2 :> "greedy" @@ j3 :> "warm"

\* What the worker recovers from.
MCBreakable ==
  ({"prefill"} \X {"ids", "table", "prefill", "mirror"})
  \cup ({"decode"} \X {"seed", "cfg", "read", "table", "forward", "graph", "mirror"})
  \cup ({"create"} \X {"carve"}) \cup ({"add"} \X {"wait", "pointers"})
  \cup ({"step"} \X {"table", "rows", "reads", "layers", "argmax"})
=============================================================================
