---------------------------- MODULE MarketState ----------------------------
(***************************************************************************)
(* The MarketState worker: src/src/market_state.rs together with           *)
(* trace_block_diffs of src/src/tracing_revm.rs.                           *)
(*                                                                         *)
(* For each announced block it asks the RPC node for the block's logs      *)
(* (three attempts), fetches the storage of the pools that have one at     *)
(* "latest", writes it into the BlockStateDB and queues one PoolsTouched   *)
(* event.  Announced blocks come through the broadcast channel fed by      *)
(* BlockGossip: each number at most once, not necessarily in order, and    *)
(* the oldest are lost when the worker lags.                               *)
(***************************************************************************)
EXTENDS SharedState

CONSTANTS
    BroadcastCap,  \* broadcast_capacity
    InOrder,       \* whether blocks are announced in the order of the chain
    LastSynced     \* last_synced_block; 0 turns the catch-up off

ASSUME MarketAssumption ==
    /\ BroadcastCap \in Nat \ {0}
    /\ InOrder \in BOOLEAN
    /\ LastSynced \in Nat

VARIABLES
    announced,  \* blocks that were broadcast
    blockQ,     \* broadcast messages the worker has not read
    lagged,     \* whether messages were lost since its last read
    gasBlock,   \* the block whose header the gas station holds
    msPc,       \* where the worker is
    msCatchUp,  \* whether it still replays missed blocks
    msEnd,      \* last block of the replay
    msBlock,    \* the block it works on
    msAttempt,  \* attempts at eth_getLogs made for it
    msTodo,     \* pools whose storage is still to be fetched
    msVals,     \* fetched storage, 0 where none
    msTouched,  \* pools for which some slot was fetched
    missed      \* history: blocks lost to a lag or a failed request, or whose
                \* logs were asked for before the RPC node had them

broadcast == <<announced, blockQ, lagged>>
msWork == <<msCatchUp, msEnd, msBlock, msAttempt, msTodo, msVals, msTouched>>
msVars == <<broadcast, gasBlock, msPc, msWork, missed>>

\* eth_getLogs is tried after 0, 250 and 500 ms.
GetLogsAttempts == 3

NoVals == [p \in Pools |-> 0]

MarketTypeOK ==
    /\ announced \subseteq 2 .. Len(chain)
    /\ blockQ \in Seq(announced)
    /\ lagged \in BOOLEAN
    /\ gasBlock \in Nat
    /\ msPc \in {"start", "recv", "logs", "fetch", "send"}
    /\ msCatchUp \in BOOLEAN
    /\ msEnd \in Nat
    /\ msBlock \in Nat
    /\ msAttempt \in 0 .. GetLogsAttempts
    /\ msTodo \in SUBSET Pools
    /\ msVals \in Storage
    /\ msTouched \in SUBSET Pools
    /\ missed \subseteq 2 .. Len(chain)

MarketInit ==
    /\ announced = {}
    /\ blockQ = << >>
    /\ lagged = FALSE
    /\ gasBlock = 0
    /\ msPc = "start"
    /\ msCatchUp = FALSE
    /\ msEnd = 0
    /\ msBlock = 0
    /\ msAttempt = 0
    /\ msTodo = {}
    /\ msVals = NoVals
    /\ msTouched = {}
    /\ missed = {}

-----------------------------------------------------------------------------
(* The block stream, as BlockGossip delivers it (tokio's broadcast channel). *)

\* A block is broadcast; a full channel forgets its oldest message.
Announce(n) ==
    /\ n \in 2 .. Len(chain)
    /\ n \notin announced
    /\ InOrder => \A m \in 2 .. n - 1 : m \in announced
    /\ announced' = announced \cup {n}
    /\ IF Len(blockQ) < BroadcastCap
         THEN /\ blockQ' = Append(blockQ, n)
              /\ UNCHANGED <<lagged, missed>>
         ELSE /\ blockQ' = Append(Tail(blockQ), n)
              /\ lagged' = TRUE
              /\ missed' = missed \cup {Head(blockQ)}
    /\ UNCHANGED <<shared, gasBlock, msPc, msWork>>

-----------------------------------------------------------------------------
(* run *)

\* Work on block n begins with the first attempt at its logs.
TraceBlock(n) ==
    /\ msPc' = "logs"
    /\ msBlock' = n
    /\ msAttempt' = 1
    /\ UNCHANGED <<msTodo, msVals, msTouched>>

\* Work on a block is over: the replay goes on to the next block, a streaming
\* worker returns to the channel.
EndBlock ==
    /\ msTodo' = {} /\ msVals' = NoVals /\ msTouched' = {}
    /\ msEnd' = msEnd
    /\ IF msCatchUp /\ msBlock < msEnd
         THEN msPc' = "logs" /\ msBlock' = msBlock + 1 /\ msAttempt' = 1
                /\ msCatchUp' = TRUE
         ELSE msPc' = "recv" /\ msBlock' = msBlock /\ msAttempt' = 0
                /\ msCatchUp' = FALSE

\* Catch-up replays the blocks from last_synced_block to the RPC node's head.
MsCatchUp ==
    /\ msPc = "start"
    /\ LastSynced > 0
    /\ rpcHead > LastSynced
    /\ TraceBlock(LastSynced + 1)
    /\ msCatchUp' = TRUE
    /\ msEnd' = rpcHead
    /\ UNCHANGED <<shared, broadcast, gasBlock, missed>>

\* No catch-up wanted or needed, or the head could not be read.
MsNoCatchUp ==
    /\ msPc = "start"
    /\ LastSynced = 0 \/ rpcHead <= LastSynced \/ RpcMayFail
    /\ msPc' = "recv"
    /\ UNCHANGED <<shared, broadcast, gasBlock, msWork, missed>>

\* recv reports lost messages; the worker goes on with what is left.
MsLagged ==
    /\ msPc = "recv"
    /\ lagged
    /\ lagged' = FALSE
    /\ UNCHANGED <<shared, announced, blockQ, gasBlock, msPc, msWork, missed>>

\* recv returns a block: the gas station takes its header, tracing begins.
MsRecv ==
    /\ msPc = "recv"
    /\ ~lagged
    /\ blockQ # << >>
    /\ blockQ' = Tail(blockQ)
    /\ gasBlock' = Head(blockQ)
    /\ TraceBlock(Head(blockQ))
    /\ UNCHANGED <<shared, announced, lagged, msCatchUp, msEnd, missed>>

\* eth_getLogs answers with the pools that have a log in the block.  A node that
\* does not have the block yet may answer with an empty list, which passes for
\* a block without any.
MsGetLogs ==
    /\ msPc = "logs"
    /\ msPc' = "fetch"
    /\ \/ /\ msBlock <= rpcHead
          /\ msTodo' = chain[msBlock].touched
          /\ UNCHANGED missed
       \/ /\ msBlock > rpcHead
          /\ msTodo' = {}
          /\ missed' = missed \cup {msBlock}
    /\ UNCHANGED <<shared, broadcast, gasBlock, msCatchUp, msEnd, msBlock, msAttempt,
                   msVals, msTouched>>

\* Or the node answers with an error when it lags behind the block stream, and
\* a request may fail for any reason at all: try again, or give up on the block.
MsGetLogsFail ==
    /\ msPc = "logs"
    /\ msBlock > rpcHead \/ RpcMayFail
    /\ IF msAttempt < GetLogsAttempts
         THEN /\ msAttempt' = msAttempt + 1
              /\ UNCHANGED <<msPc, msCatchUp, msEnd, msBlock, msTodo, msVals, msTouched,
                             missed>>
         ELSE /\ EndBlock
              /\ missed' = missed \cup {msBlock}
    /\ UNCHANGED <<shared, broadcast, gasBlock>>

\* Mutant of MsFetch: the storage is read at the announced block.
FetchAtBlock(p) ==
    /\ msPc = "fetch"
    /\ p \in msTodo
    /\ msTodo' = msTodo \ {p}
    /\ msVals' = [msVals EXCEPT ![p] = chain[msBlock].state[p]]
    /\ msTouched' = msTouched \cup {p}
    /\ UNCHANGED <<shared, broadcast, gasBlock, msPc, msCatchUp, msEnd, msBlock, msAttempt,
                   missed>>

\* The storage of one pool is read at "latest".  A failed slot is left out: of
\* a V3 pool the liquidity slot may arrive without slot 0, which leaves the
\* pool touched and its rate as it was.
MsFetch(p) ==
    /\ msPc = "fetch"
    /\ p \in msTodo
    /\ msTodo' = msTodo \ {p}
    /\ \/ /\ msVals' = [msVals EXCEPT ![p] = Latest[p]]
          /\ msTouched' = msTouched \cup {p}
          /\ UNCHANGED missed
       \/ /\ RpcMayFail
          /\ msTouched' \in {msTouched} \cup {msTouched \cup {q} : q \in V3Pools \cap {p}}
          /\ missed' = missed \cup {msBlock}
          /\ UNCHANGED msVals
    /\ UNCHANGED <<shared, broadcast, gasBlock, msPc, msCatchUp, msEnd, msBlock, msAttempt>>

\* Mutant of MsApply: a pool whose block is not newer than the database's is
\* not reported.
ApplyNewerOnly ==
    /\ msPc = "fetch"
    /\ msTodo = {}
    /\ UpdateSlots(msVals)
    /\ dbBlock' = msBlock
    /\ IF ~msCatchUp /\ msTouched # {} /\ msBlock <= dbBlock
         THEN msPc' = "send" /\ UNCHANGED msWork
         ELSE EndBlock
    /\ UNCHANGED <<chain, rpcHead, poolsQ, broadcast, gasBlock, missed>>

\* The diffs are written under the lock.  Only the streaming worker tells the
\* searcher, and only if some pool was touched.
MsApply ==
    /\ msPc = "fetch"
    /\ msTodo = {}
    /\ UpdateSlots(msVals)
    /\ dbBlock' = msBlock
    /\ IF ~msCatchUp /\ msTouched # {}
         THEN msPc' = "send" /\ UNCHANGED msWork
         ELSE EndBlock
    /\ UNCHANGED <<chain, rpcHead, poolsQ, broadcast, gasBlock, missed>>

\* Mutant of MsSend: the event is dropped when the channel is full.
SendOrDrop ==
    /\ msPc = "send"
    /\ \/ SendPools([block |-> msBlock, pools |-> msTouched])
       \/ Len(poolsQ) = ChannelBuffer /\ UNCHANGED poolsQ
    /\ EndBlock
    /\ UNCHANGED <<chain, rpcHead, db, dbBlock, broadcast, gasBlock, missed>>

\* The worker waits for room in the channel.
MsSend ==
    /\ msPc = "send"
    /\ SendPools([block |-> msBlock, pools |-> msTouched])
    /\ EndBlock
    /\ UNCHANGED <<chain, rpcHead, db, dbBlock, broadcast, gasBlock, missed>>

MsStep ==
    \/ MsCatchUp
    \/ MsNoCatchUp
    \/ MsLagged
    \/ MsRecv
    \/ MsGetLogs
    \/ MsGetLogsFail
    \/ \E p \in Pools : MsFetch(p)
    \/ MsApply
    \/ MsSend
=============================================================================
