-------------------------- MODULE SearchPipeline --------------------------
(***************************************************************************)
(* The MarketState and searcher workers running side by side over the      *)
(* shared BlockStateDB and the PoolsTouched channel, with the mempool      *)
(* listener (src/src/mempool.rs) as second sender on that channel.         *)
(***************************************************************************)
EXTENDS MarketState, Searcher

CONSTANT MaxMempool  \* bound: pending swaps the mempool listener forwards

ASSUME MempoolAssumption == MaxMempool \in Nat

VARIABLE mempoolSeen  \* pending swaps forwarded so far

vars == <<shared, msVars, srVars, mempoolSeen>>

\* stream_pending_swaps: a pending swap through known pools is queued as an
\* event for block 0; the send waits for room.
MempoolTouch ==
    /\ mempoolSeen < MaxMempool
    /\ mempoolSeen' = mempoolSeen + 1
    /\ \E ps \in (SUBSET Pools) \ {{}} : SendPools([block |-> 0, pools |-> ps])
    /\ UNCHANGED <<chain, rpcHead, db, dbBlock, msVars, srVars>>

Init ==
    /\ SharedInit
    /\ MarketInit
    /\ SearcherInit
    /\ mempoolSeen = 0

\* The chain, the RPC node and the block stream.
World ==
    /\ Mine \/ RpcSync
    /\ UNCHANGED <<msVars, srVars, mempoolSeen>>

BlockStream ==
    /\ \E n \in 2 .. MaxBlock : Announce(n)
    /\ UNCHANGED <<srVars, mempoolSeen>>

MarketStateWorker == MsStep /\ UNCHANGED <<srVars, mempoolSeen>>
SearcherWorker == SrStep /\ UNCHANGED <<msVars, mempoolSeen>>
Simulators == TakeArb /\ UNCHANGED <<msVars, mempoolSeen>>

\* Nothing is left to do: every worker waits on an empty channel.
Idle ==
    /\ msPc = "recv" /\ blockQ = << >> /\ ~lagged
    /\ srPc = "recv" /\ poolsQ = << >>

Resting ==
    /\ Idle
    /\ arbQ = << >>
    /\ UNCHANGED vars

Next ==
    \/ World
    \/ BlockStream
    \/ MarketStateWorker
    \/ SearcherWorker
    \/ Simulators
    \/ MempoolTouch
    \/ Resting

Spec == Init /\ [][Next]_vars

\* The runtime schedules each worker that can run; the simulators keep polling.
FairSpec ==
    /\ Spec
    /\ WF_vars(MarketStateWorker)
    /\ WF_vars(SearcherWorker)
    /\ WF_vars(Simulators)

-----------------------------------------------------------------------------
(* Properties *)

TypeOK == SharedTypeOK /\ MarketTypeOK /\ SearcherTypeOK /\ mempoolSeen \in Nat

Seeding == srPc \in {"seedV3", "seedFetch", "seedWrite", "seedRates"}

\* Pool p is in an event that is queued, or that MarketState is about to queue.
EventPending(p) ==
    \/ msPc = "send" /\ p \in msTouched
    \/ \E i \in DOMAIN poolsQ : p \in poolsQ[i].pools

\* Seeding has yet to compute the rate of pool p.
SeedPending(p) ==
    \/ srPc = "seedV3"
    \/ Seeding /\ p \in V2Pools

\* Every rate is the one its pool's storage gives, unless an event for the pool
\* or its seeding is still to come.
RatesMatchDb ==
    \A p \in Pools : rates[p] = RateOf(p, db[p]) \/ EventPending(p) \/ SeedPending(p)

\* A catch-up ran: it writes the BlockStateDB without telling the searcher.
Replayed == msEnd # 0

\* The searcher's rates never silently diverge from the BlockStateDB that
\* MarketState and the seeding write under it, but for the blocks of a catch-up.
RatesFollowDb == ~Replayed => RatesMatchDb

\* The block of every path on its way to the simulators has been published
\* before, so that no worker can take it for a path from the future
\* (shared_latest_block is raised before evaluation).
PublishedFirst ==
    /\ \A i \in DOMAIN arbQ : arbQ[i].block <= sharedLatest
    /\ \A r \in results : r.block <= sharedLatest

\* The searcher's notion of the current block never runs ahead of the chain by
\* more than the one block that it predicts for mempool events.
NeverAheadOfChain ==
    /\ latestBlock <= Len(chain)
    /\ finalBlock <= Len(chain) + 1
    /\ sharedLatest <= Len(chain) + 1

\* When the searcher waits for its next event, every path with a rate that an
\* event moved has been evaluated on the rates in force.
MovedPathsEvaluated == srPc = "recv" => dirty = {}

\* "... carry the fresh merged-pool set forward and re-evaluate instead of
\* sending stale paths": what is offered to the simulators has the rate that
\* the rates in force give.
EmittedIsCurrent ==
    srPc = "emit" => \A r \in results : r.rate = EvaluatePath(r.path)

\* The rate cache never drifts on its own: a cached rate is the one that the
\* rates in force give, unless an event moved a rate of the path and the path
\* was not evaluated since, whatever order events and blocks come in.
CacheIsExact ==
    \A q \in Paths :
        cache[q].block # 0 /\ q \notin dirty => cache[q].rate = EvaluatePath(q)

\* "when a pool's state changes, we evict all entries referencing that pool":
\* the rate cache never hides a path that the rates in force make profitable.
\* The code does not keep it: nothing is evicted, and a second event for the
\* same block (a mempool event before, for the block that was predicted) moves
\* the rate of a path that stays suppressed.
NoStaleSuppression ==
    srPc = "eval" => \A q \in affected : Suppressed(q) => EvaluatePath(q) < Scale

\* "Retry with increasing delays -- HTTP RPC may lag behind WS gossip": the pools
\* of a block are not fetched before the node has its logs.  The code does not
\* keep it: an empty list of a node that lags is no reason to retry.
LogsAwaitNode == msPc = "fetch" => msBlock <= rpcHead

\* "In-memory REVM database that mirrors on-chain state for tracked pools":
\* once every block was announced, read and handled without a failed request
\* or a lag, and the RPC node is at the head, the BlockStateDB holds the head's
\* state of every V3 pool that was touched since the start, in whatever order
\* the blocks came.  (Of V2 pools it may not: the seeding can write reserves
\* that it fetched before MarketState wrote newer ones.)
DbMirrorsHead ==
    Idle /\ rpcHead = Len(chain) /\ announced = 2 .. Len(chain) /\ missed = {} =>
        \A n \in announced : \A p \in chain[n].touched \cap V3Pools :
            db[p] = chain[Len(chain)].state[p]

\* An event always reaches the rates: after a pool is queued as touched its
\* rate is recomputed from the storage of that time or a later one.
TouchReachesRates ==
    \A p \in Pools : EventPending(p) ~> rates[p] = RateOf(p, db[p])

\* MarketState, blocked on a full channel, is always released by the searcher.
SendUnblocks == msPc = "send" ~> msPc # "send"

=============================================================================
