----------------------------- MODULE Simulator -----------------------------
(***************************************************************************)
(* The simulator workers: the run loop of src/src/simulator_pipeline.rs.   *)
(*                                                                         *)
(* The workers share the receiving end of the ArbPath channel, the two     *)
(* blacklists that TxSender fills, and the highest block any of them or    *)
(* the searcher has seen.  A worker takes a path, drops it if it is stale  *)
(* or blacklisted, simulates it, and passes it on if it is profitable.     *)
(* Each lock is taken and released on its own, so the checks are separate  *)
(* steps.                                                                  *)
(***************************************************************************)
EXTENDS TxSender

CONSTANTS
    Workers,  \* num_sims workers
    SimMode,  \* SIM: compare and log, submit nothing
    MaxArbs   \* bound: ArbPaths queued by the searcher

ASSUME SimulatorAssumption == SimMode \in BOOLEAN /\ MaxArbs \in Nat

VARIABLES
    arbQ,          \* ArbPath channel from the searcher
    sharedLatest,  \* shared_latest_block
    queued,        \* ArbPaths queued so far
    simPc,         \* where each worker is
    simArb,        \* the path each works on
    simBlock,      \* each worker's current_block
    simHead        \* each worker's cached_head

simVars == <<arbQ, sharedLatest, queued, simPc, simArb, simBlock, simHead>>

ArbPaths == [path : Paths, block : Nat]
NoArb == [path |-> << >>, block |-> 0]
Larger(a, b) == IF a >= b THEN a ELSE b

SimTypeOK ==
    /\ arbQ \in Seq(ArbPaths)
    /\ sharedLatest \in Nat
    /\ queued \in Nat
    /\ simPc \in [Workers -> {"start", "recv", "note", "latest", "paths", "tokens", "simulate",
                              "send"}]
    /\ simArb \in [Workers -> ArbPaths \cup {NoArb}]
    /\ simBlock \in [Workers -> Nat]
    /\ simHead \in [Workers -> Nat]

SimInit ==
    /\ arbQ = << >>
    /\ sharedLatest = 0
    /\ queued = 0
    /\ simPc = [w \in Workers |-> "start"]
    /\ simArb = [w \in Workers |-> NoArb]
    /\ simBlock = [w \in Workers |-> 0]
    /\ simHead = [w \in Workers |-> 0]

-----------------------------------------------------------------------------
(* run *)

\* The worker goes to step pc with its path, or drops the path.
Pass(w, pc) == simPc' = [simPc EXCEPT ![w] = pc] /\ UNCHANGED simArb
Drop(w) ==
    /\ simPc' = [simPc EXCEPT ![w] = "recv"]
    /\ simArb' = [simArb EXCEPT ![w] = NoArb]

\* The head is read once at the start; 0 if the request fails.
SimStart(w) ==
    /\ simPc[w] = "start"
    /\ simHead' \in {[simHead EXCEPT ![w] = h] :
                        h \in {rpcHead} \cup (IF RpcMayFail THEN {0} ELSE {})}
    /\ Pass(w, "recv")
    /\ UNCHANGED <<txVars, arbQ, sharedLatest, queued, simBlock>>

\* Whichever worker has the receiver's lock takes the next path.
SimRecv(w) ==
    /\ simPc[w] = "recv"
    /\ arbQ # << >>
    /\ arbQ' = Tail(arbQ)
    /\ simArb' = [simArb EXCEPT ![w] = Head(arbQ)]
    /\ simPc' = [simPc EXCEPT ![w] = "note"]
    /\ UNCHANGED <<txVars, sharedLatest, queued, simBlock, simHead>>

\* The shared latest block is raised.  At a block boundary the head may be
\* refreshed.  A path too far behind the head is dropped.
SimNote(w) ==
    LET b == simArb[w].block IN
    /\ simPc[w] = "note"
    /\ sharedLatest' = Larger(sharedLatest, b)
    /\ simBlock' = [simBlock EXCEPT ![w] = b]
    /\ simHead' \in {simHead} \cup
                    {[simHead EXCEPT ![w] = h] : h \in IF b # simBlock[w] THEN {rpcHead} ELSE {}}
    /\ IF simHead'[w] > 0 /\ b + MaxStaleBlocks < simHead'[w]
         THEN Drop(w)
         ELSE Pass(w, "latest")
    /\ UNCHANGED <<txVars, arbQ, queued>>

\* Mutant of SimLatest: a stale path is looked at again.
SimLatestRetries(w) ==
    /\ simPc[w] = "latest"
    /\ IF simArb[w].block + MaxStaleBlocks < sharedLatest THEN Pass(w, "note") ELSE Pass(w, "paths")
    /\ UNCHANGED <<txVars, arbQ, sharedLatest, queued, simBlock, simHead>>

\* So is one too far behind the newest block seen by any worker.
SimLatest(w) ==
    /\ simPc[w] = "latest"
    /\ IF simArb[w].block + MaxStaleBlocks < sharedLatest THEN Drop(w) ELSE Pass(w, "paths")
    /\ UNCHANGED <<txVars, arbQ, sharedLatest, queued, simBlock, simHead>>

SimPaths(w) ==
    /\ simPc[w] = "paths"
    /\ IF simArb[w].path \in blPaths THEN Drop(w) ELSE Pass(w, "tokens")
    /\ UNCHANGED <<txVars, arbQ, sharedLatest, queued, simBlock, simHead>>

\* Mutant of SimTokens: only the path's first token is looked up.
SimTokensFirst(w) ==
    /\ simPc[w] = "tokens"
    /\ ~Persisting
    /\ IF SimMode \/ Head(simArb[w].path) \in blTokens THEN Drop(w) ELSE Pass(w, "simulate")
    /\ UNCHANGED <<txVars, arbQ, sharedLatest, queued, simBlock, simHead>>

\* The token blacklist is locked while TxSender rewrites its file.  In SIM mode
\* the path goes no further.
SimTokens(w) ==
    /\ simPc[w] = "tokens"
    /\ ~Persisting
    /\ IF SimMode \/ Range(simArb[w].path) \cap blTokens # {}
         THEN Drop(w)
         ELSE Pass(w, "simulate")
    /\ UNCHANGED <<txVars, arbQ, sharedLatest, queued, simBlock, simHead>>

\* simulate_and_optimize finds a net profit or not.
SimSimulate(w) ==
    /\ simPc[w] = "simulate"
    /\ Drop(w) \/ Pass(w, "send")
    /\ UNCHANGED <<txVars, arbQ, sharedLatest, queued, simBlock, simHead>>

\* The worker waits for room in the ValidPath channel.
SimSend(w) ==
    /\ simPc[w] = "send"
    /\ \E worth \in BOOLEAN :
         Deliver([path |-> simArb[w].path, block |-> simArb[w].block, worth |-> worth])
    /\ Drop(w)
    /\ UNCHANGED <<rpcHead, mined, pool, crashes, work, lists, history, txPc, cachedHead,
                   nonce, file, arbQ, sharedLatest, queued, simBlock, simHead>>

SimStep(w) ==
    \/ SimStart(w)
    \/ SimRecv(w)
    \/ SimNote(w)
    \/ SimLatest(w)
    \/ SimPaths(w)
    \/ SimTokens(w)
    \/ SimSimulate(w)
    \/ SimSend(w)

-----------------------------------------------------------------------------
(* The searcher publishes the block of a path and queues the path. *)

SearcherSends ==
    /\ queued < MaxArbs
    /\ Len(arbQ) < ChannelBuffer
    /\ \E q \in Paths, b \in {rpcHead, rpcHead + 1} :
         /\ arbQ' = Append(arbQ, [path |-> q, block |-> b])
         /\ sharedLatest' = Larger(sharedLatest, b)
    /\ queued' = queued + 1
    /\ UNCHANGED <<txVars, simPc, simArb, simBlock, simHead>>
=============================================================================
