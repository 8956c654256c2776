---------------------------- MODULE SharedState ----------------------------
(***************************************************************************)
(* State that the workers of the pipeline share: the chain and the HTTP    *)
(* RPC node through which they read it (both external), the in-memory      *)
(* BlockStateDB (src/src/state_db.rs) behind its RwLock, and the bounded   *)
(* PoolsTouched channel (src/src/ignition.rs, pipeline_events.rs).         *)
(*                                                                         *)
(* The storage of a pool is abstracted to the exchange rate it gives in    *)
(* the direction its paths use: equal rates are equal storage.             *)
(***************************************************************************)
EXTENDS Integers, Sequences, FiniteSets

CONSTANTS
    Pools,          \* tracked pools, fixed after startup
    V3Pools,        \* those with a Uniswap V3 layout (slots 0 and 4)
    ExoticPools,    \* Balancer, Curve and Maverick pools: no log is traced
    Rates,          \* the rates that pool storage can give
    ChannelBuffer,  \* channel_buffer of the pipeline's mpsc channels
    RpcMayFail,     \* whether a request to the RPC node may fail
    MaxBlock        \* bound: length of the chain

ASSUME SharedAssumption ==
    /\ V3Pools \subseteq Pools
    /\ ExoticPools \subseteq Pools
    /\ V3Pools \cap ExoticPools = {}
    /\ Rates \subseteq Nat \ {0}
    /\ ChannelBuffer \in Nat \ {0}
    /\ RpcMayFail \in BOOLEAN
    /\ MaxBlock \in Nat

VARIABLES
    chain,    \* blocks from 1: the pools with a log, and the state after it
    rpcHead,  \* the block that "latest" means to the RPC node
    db,       \* BlockStateDB: the storage held of each pool, 0 if none
    dbBlock,  \* BlockStateDB.block_number
    poolsQ    \* PoolsTouched events in flight to the searcher

shared == <<chain, rpcHead, db, dbBlock, poolsQ>>

V2Pools == Pools \ (V3Pools \cup ExoticPools)
States == [Pools -> Rates]
Storage == [Pools -> Rates \cup {0}]
BlockRecords == [touched : SUBSET Pools, state : States]
Events == [block : Nat, pools : SUBSET Pools]

\* What eth_getStorageAt answers for block tag "latest".
Latest == chain[rpcHead].state

\* An event is queued: both senders wait for room, so none is ever dropped.
SendPools(ev) ==
    /\ Len(poolsQ) < ChannelBuffer
    /\ poolsQ' = Append(poolsQ, ev)

\* update_slot for every pool that has a value.
UpdateSlots(vals) == db' = [p \in Pools |-> IF vals[p] # 0 THEN vals[p] ELSE db[p]]

SharedTypeOK ==
    /\ chain \in Seq(BlockRecords)
    /\ rpcHead \in 1 .. Len(chain)
    /\ db \in Storage
    /\ dbBlock \in Nat
    /\ poolsQ \in Seq(Events)

\* The chain stands at block 1 when the workers start.  prefetch_v3_slots has
\* loaded the V3 pools, except those whose request failed.
SharedInit ==
    /\ \E s \in States :
         /\ chain = <<[touched |-> {}, state |-> s]>>
         /\ \E missed \in SUBSET V3Pools :
              /\ missed # {} => RpcMayFail
              /\ db = [p \in Pools |-> IF p \in V3Pools \ missed THEN s[p] ELSE 0]
    /\ rpcHead = 1
    /\ dbBlock = 0
    /\ poolsQ = << >>

-----------------------------------------------------------------------------
(* External: the chain grows, the RPC node follows. *)

\* A block with swaps in the pools of a set, which may move their state.
Mine ==
    /\ Len(chain) < MaxBlock
    /\ \E ts \in SUBSET (Pools \ ExoticPools), s \in States :
         /\ \A p \in Pools \ ts : s[p] = chain[Len(chain)].state[p]
         /\ chain' = Append(chain, [touched |-> ts, state |-> s])
    /\ UNCHANGED <<rpcHead, db, dbBlock, poolsQ>>

RpcSync ==
    /\ rpcHead < Len(chain)
    /\ rpcHead' = rpcHead + 1
    /\ UNCHANGED <<chain, db, dbBlock, poolsQ>>
=============================================================================
