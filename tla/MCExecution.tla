----------------------------- MODULE MCExecution -----------------------------
(***************************************************************************)
(* An instance of ExecutionPipeline for TLC.                               *)
(***************************************************************************)
EXTENDS ExecutionPipeline

CONSTANTS w, t,     \* tokens
          s1, s2    \* simulator workers

\* One cycle: both workers may hold the same path, with the same tokens.
OneCycle == {<<w, t>>}
FreshFile == {[toml |-> TRUE, entries |-> {}]}
=============================================================================
