------------------------------ MODULE Mempool ------------------------------
(***************************************************************************)
(* The mempool listener of a running process (src/src/mempool.rs), started *)
(* by start_pipeline over the pools that the startup left.                 *)
(*                                                                         *)
(* A pending transaction to a known router is decoded for the token pairs  *)
(* it trades, and the pools of these pairs are sent to the searcher as an  *)
(* event of block 0 (Searcher takes it up, see SearchPipeline).  Calldata  *)
(* is a call of some kind with the tokens it trades, in their order.       *)
(***************************************************************************)
EXTENDS Startup, SequencesExt

CONSTANTS
    NoToken,        \* what calldata that holds no address is read as
    OtherRouters,   \* configured routers that the registry does not know
    Pending,        \* transactions: [to, multicall, calls]
    MaxPath,        \* longest V2 path that is decoded, 10 in the code
    MaxCalls        \* longest multicall that is decoded, 20 in the code

Kinds == {"v2", "single", "multihop", "unlisted"}

ASSUME MempoolAssumption ==
    /\ NoToken \notin Tokens
    /\ {MaxPath, MaxCalls} \subseteq Nat
    /\ \A tx \in Pending :
         /\ tx.multicall \in BOOLEAN
         /\ tx.calls \in Seq([kind : Kinds, path : Seq(Tokens)])
         /\ tx.calls # << >>
         /\ ~tx.multicall => Len(tx.calls) = 1

VARIABLES
    listener,   \* the task: not subscribed yet, subscribed, or over
    seen,       \* the transaction it received last, {} if none
    touched     \* the pools of the event it sent for it, {} if it sent none

listenerVars == <<listener, seen, touched>>
vars == <<startupVars, listenerVars>>

TypeOK ==
    /\ StartupTypeOK
    /\ listener \in {"idle", "on", "over"}
    /\ seen \subseteq Pending
    /\ touched \subseteq Pools

\* router_set: every address under [revm_filter.routers].
RouterSet == Range(Routers) \cup OtherRouters

Init ==
    /\ StartupInit
    /\ listener = "idle"
    /\ seen = {}
    /\ touched = {}

-----------------------------------------------------------------------------
(* Decoding *)

\* decode_any_swap on one call.  exactInput and exactOutput take one dynamic
\* tuple: the first word of their arguments is the offset of that tuple, but
\* decode_v3_multi_swap takes it for the offset of the path, and reads the
\* recipient and the amounts as addresses.
Decoded(call) ==
    CASE call.kind = "v2" -> IF Len(call.path) \in 2 .. MaxPath THEN call.path ELSE << >>
      [] call.kind = "single" -> call.path
      [] call.kind = "multihop" -> <<NoToken, NoToken>>
      [] call.kind = "unlisted" -> << >>

\* decode_multicall_swaps strings the tokens of all sub-calls together.
TokenPath(tx) ==
    IF tx.multicall /\ Len(tx.calls) > MaxCalls THEN << >>
    ELSE FlattenSeq([i \in DOMAIN tx.calls |-> Decoded(tx.calls[i])])

\* Mutant of Pairs: chunks instead of windows.
PairsDisjoint(path) ==
    {{path[i], path[i + 1]} : i \in {j \in 1 .. Len(path) - 1 : j % 2 = 1}}

\* The neighbours in a path, in either order.
Pairs(path) == {{path[i], path[i + 1]} : i \in 1 .. Len(path) - 1}

\* build_token_pair_lookup, looked up for every pair.
Lookup(pairs) == {p \in pools : TokenSet(p) \in pairs}

-----------------------------------------------------------------------------
(* stream_pending_swaps *)

Subscribe ==
    /\ pc = "serving"
    /\ listener = "idle"
    /\ RouterSet # {}
    /\ listener' = "on"
    /\ UNCHANGED <<startupVars, seen, touched>>

\* The connection fails, or the stream ends: there is no second attempt.
StreamEnds ==
    /\ pc = "serving"
    /\ listener # "over"
    /\ listener' = "over"
    /\ UNCHANGED <<startupVars, seen, touched>>

\* A pending transaction.
Receive ==
    /\ pc = "serving"
    /\ listener = "on"
    /\ \E tx \in Pending :
         /\ seen' = {tx}
         /\ touched' = IF tx.to \in RouterSet THEN Lookup(Pairs(TokenPath(tx))) ELSE {}
    /\ UNCHANGED <<startupVars, listener>>

\* A step of the startup; the listener lives and dies with the process.
Main ==
    /\ StartupStep
    /\ listener' = "idle"
    /\ seen' = {}
    /\ touched' = {}

Outside == World /\ UNCHANGED listenerVars

Next ==
    \/ Main
    \/ Outside
    \/ Subscribe
    \/ StreamEnds
    \/ Receive

Spec == Init /\ [][Next]_vars

-----------------------------------------------------------------------------
(* Properties *)

\* The served pools between tokens that a call of the transaction trades.
TradedPools(tx) ==
    {p \in pools : \E i \in DOMAIN tx.calls :
        LET path == tx.calls[i].path
        IN  \E k \in 2 .. Len(path) : TokenSet(p) = {path[k - 1], path[k]}}

\* Calls that the listener is meant to understand, within its limits, and those
\* that it does understand: not the packed paths of multi-hop V3 swaps.
Meant(call) == call.kind # "unlisted" /\ Len(call.path) \in 2 .. MaxPath
Understood(tx) ==
    /\ tx.to \in RouterSet
    /\ Len(tx.calls) <= MaxCalls
    /\ \A i \in DOMAIN tx.calls : Meant(tx.calls[i]) /\ tx.calls[i].kind # "multihop"

\* A pending swap reaches the searcher with every served pool on a pair that it
\* trades, in whichever order the tokens are named.  Pools that it does not
\* trade are named only for multicalls, whose sub-calls are strung together.
PendingSeen ==
    \A tx \in seen :
        /\ Understood(tx) => TradedPools(tx) \subseteq touched
        /\ ~tx.multicall => touched \subseteq TradedPools(tx)

=============================================================================
