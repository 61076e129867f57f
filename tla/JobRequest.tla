----------------------------- MODULE JobRequest -----------------------------
(***************************************************************************)
(* What else of a request reaches the job and its prompt: the limit on the *)
(* tokens, the stop strings and the tools. A field the request does not    *)
(* have is None; the sampling knobs are copied and left out.               *)
(***************************************************************************)
EXTENDS ChatMessages

CONSTANTS
  None,
  MaxU32,          \* the largest limit of a job
  DefaultLimit     \* the limit of a job whose request names none

ASSUME JobRequestAssumption ==
  /\ MaxU32 \in Nat /\ DefaultLimit \in 0 .. MaxU32
  /\ None \notin Nat

\* The first of two fields that is there.
Or(field, other) == IF field # None THEN field ELSE other

\* Mutant: the limit is cut to the low half of the number.
MergeWrapping(completion, tokens) ==
  IF Or(completion, tokens) = None THEN DefaultLimit
  ELSE Or(completion, tokens) % (MaxU32 + 1)

\* A limit that does not fit is the largest there is.
MergeConfig(completion, tokens) ==
  IF Or(completion, tokens) = None THEN DefaultLimit
  ELSE IF Or(completion, tokens) > MaxU32 THEN MaxU32 ELSE Or(completion, tokens)

\* One stop string, or several.
StopStrings(stop) ==
  CASE stop = None     -> <<>>
    [] stop # None /\ stop.k = "one"  -> <<stop.text>>
    [] stop # None /\ stop.k = "many" -> stop.texts

\* A tool as the template takes it.
Function(tool) == [name |-> tool.name, schema |-> tool.schema]

\* Every tool is taken for a function.
AnthropicTools(tools) == [i \in DOMAIN tools |-> Function(tools[i])]

\* The hosted tools have no counterpart, and a function needs a name.
ResponsesTools(tools) ==
  LET functions == SelectSeq(tools, LAMBDA t : t.type = "function" /\ t.name # None)
  IN  [i \in DOMAIN functions |-> Function(functions[i])]

\* The newer name of the limit wins.
EffectiveMaxTokens(body) == Or(body.max_output_tokens, body.max_tokens)

ChatGiven(body) ==
  [limit |-> MergeConfig(body.max_completion_tokens, body.max_tokens),
   stops |-> StopStrings(body.stop),
   tools |-> [i \in DOMAIN body.tools |-> Function(body.tools[i])]]

AnthropicGiven(body) ==
  [limit |-> MergeConfig(None, body.max_tokens),
   stops |-> StopStrings(body.stop_sequences),
   tools |-> AnthropicTools(body.tools)]

ResponsesGiven(body) ==
  [limit |-> MergeConfig(None, EffectiveMaxTokens(body)),
   stops |-> <<>>,
   tools |-> ResponsesTools(body.tools)]
=============================================================================
