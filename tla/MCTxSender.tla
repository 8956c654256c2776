----------------------------- MODULE MCTxSender -----------------------------
(***************************************************************************)
(* Instances of TxSender for TLC: the start tokens w and s, and the tokens *)
(* t and u.                                                                *)
(***************************************************************************)
EXTENDS TxSender

CONSTANTS w, s, t, u  \* tokens

\* Two cycles through w that share the token t.
SharedToken == {<<w, t>>, <<w, u, t>>}

\* The file that main.rs creates, and one that an earlier process left.
Fresh == [toml |-> TRUE, entries |-> {}]
FreshFile == {Fresh}
ListedFile == {[toml |-> TRUE, entries |-> {u}]}
AnyFile == {Fresh, [toml |-> TRUE, entries |-> {u}], [toml |-> FALSE, entries |-> {u}]}
=============================================================================
