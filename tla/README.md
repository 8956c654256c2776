# A TLA+ model of arb-bot

arb-bot searches decentralised exchanges for cyclic arbitrage. A Rust process
follows new blocks, keeps a copy of the storage of the pools it tracks,
estimates the rate of every cycle through a pool that moved, simulates the
promising ones on revm, and submits a transaction for those that stay
profitable. Everything happens in tokio tasks and threads that share a few
locks, atomics and bounded channels; all input comes over RPC connections that
lag, fail and disagree with each other.

This directory models the process and its components: modules `*.tla`,
their TLC instances `MC*.tla` and `MC*.cfg`, and proofs `*Proofs.tla`.
`PROJECT.json` lists the runs, the source lines behind every definition, the
hazards the properties are aimed at, and the theorems. Paths below are relative
to the repository; the Rust code is under `src/src/`.

    tlc -workers 2 -config MCSearch.cfg MCSearchPipeline   # a run
    tlapm SearchPipelineProofs.tla                         # a proof

## 1. Inventory

| Component | State | Operations | Talks to |
|---|---|---|---|
| Block stream (`block_stream.rs`) | one task per WebSocket endpoint (connecting, sleeping, streaming, forwarding), its backoff; the shared `BlockDedup` (set, ring, head) | connect, subscribe, header, try_insert, forward, back off | broadcast channel to MarketState |
| MarketState (`market_state.rs`, `tracing_revm.rs`) | the block being traced, attempts, diffs | catch-up, receive, getLogs (3 attempts), getStorageAt at "latest", apply, send | BlockStateDB (write lock), GasStation, PoolsTouched channel |
| BlockStateDB (`state_db.rs`) | storage slots per account, block number | prefetch, update_slot, inject_slot, set_block, reads | shared by MarketState, searcher, simulators |
| Searcher (`searcher_pipeline.rs`, `cache_v2.rs`, `calculation/rates.rs`) | rates, latest block, carried-forward pools, rate cache | seed, drain, publish, select, evaluate, drain again, carry forward or emit | `shared_latest_block`, ArbPath channel |
| Mempool listener (`mempool.rs`) | its subscription | subscribe, decode a pending transaction to token pairs, look up their pools, send them with block 0 | PoolsTouched channel |
| Simulators (`simulator_pipeline.rs`, `quoter_revm.rs`, `sim_db.rs`) | path at hand, cached head, a SimDb | receive (shared), stale checks, blacklist checks, snapshot, quote, optimise, write back, send | BlockStateDB, blacklists, ValidPath channel |
| Transaction sender (`tx_sender_pipeline.rs`) | nonce, cached head, strike counts, both blacklists, toxic-token file | seed nonce, stale check, preflight over providers, strike, blacklist, persist, sign, submit | sequencer, RPC providers, disk |
| Gas station (`gas_station.rs`) | three atomics | update, predict, priority fee | written by MarketState, read by the sender |
| Path builder (`path_builder.rs`, `swap_types.rs`) | DFS stack, visited set, emitted cycles | find_cycles | runs once, before the searcher |
| Wiring (`ignition.rs`, `main.rs`) | channels and their sizes, start tokens, toxic tokens loaded | start, shutdown (aborts every task) | all |
| Startup filter and pool loader (`filter_revm.rs`, `pool_loader.rs`, `main.rs`) | pool list, balance slots, the cache file of safe pools | load, blacklist, use the cache or filter (GeckoTerminal, balance slots, round trip in revm), write the cache, build paths | disk, RPC; runs once, before the workers |
| Formulas (`calculation/*.rs`) | none | get_amount_out per exchange | searcher, quoter |
| Contracts (`contracts/src/*.sol`) | owner, executors | flash loan, swaps, repayment | on chain |

What is hard, and for each part what makes it correct:

* **Block stream.** Endpoints race on the dedup set, and the lock is released
  before the block is sent. Correct: no number twice within the window, no
  number swallowed, every endpoint comes back.
* **MarketState and searcher.** Blocks arrive out of order, late or never; logs
  are those of the announced block, storage that of "latest"; seeding runs while
  MarketState writes; events arrive while paths are evaluated; mempool events
  carry a predicted block. Correct: rates follow the database, the database
  reaches the head's state, stale results are not sent, nothing that moved is
  forgotten, nobody blocks for ever.
* **BlockStateDB and simulations.** A simulation works on a snapshot, fills its
  gaps from a node that has moved on, and writes them back later. Correct: what
  MarketState wrote is never undone by them, and a simulation sees the block its
  path comes from; seeding, which runs beside MarketState, breaks both.
* **Simulators and sender.** Blacklists grow while paths are under way, the
  token blacklist is locked during file writes, the process dies at any point.
  Correct: a blacklisting takes effect at once, file and memory agree, only real
  failures count, nonces have no gaps; that start tokens are safe and that only
  reverts count is what the code means and misses (section 5).
* **Startup.** What a run serves depends on files and settings of earlier runs,
  on requests that fail, and on where an earlier process was killed. Correct:
  nothing blacklisted and nothing unvetted is served, a good pool is not lost.
* **Mempool listener.** Calldata of many kinds, nested in multicalls. Correct:
  a pending swap names the served pools it trades.
* **Optimiser.** Few quotes, integer brackets, quotes that revert, and fees
  rounded in the bot's favour. Correct: the best amount is not lost, and what
  is sent repays its loan and pays.
* **Gas station.** Three relaxed stores against three relaxed loads. Correct:
  what is signed still pays for the next block.
* **Path builder.** One set and one vector shared by all frames of a recursion
  with several ways out. Correct: exactly the simple cycles, and a bound at the
  cap.

## 2. Modules

    SharedState ── MarketState ── Searcher ── SearchPipeline ── SearchPipelineProofs
    TxSender ── Simulator ── ExecutionPipeline ── ExecutionProofs
    BlockFeed ··· BlockGossip ── BlockGossipProofs
    Startup ── Mempool ── LaunchProofs
    SlotStore ── SlotStoreProofs
    PathBuilder ── PathBuilderProofs
    Optimizer ── OptimizerProofs
    GasStation ── GasStationProofs

`──` is EXTENDS; `BlockGossip` implements `BlockFeed` (`INSTANCE ... WITH`).

| Module | Models | Abstracted |
|---|---|---|
| `BlockGossip` | `gossip_endpoint`, `BlockDedup`, the broadcast channel with lag, the receiver's drop | headers are block numbers; time is left out, the delay is kept |
| `BlockFeed` | what the block stream promises MarketState: announcements that do not repeat within the window and reach a queue that forgets its oldest entry | endpoints, lock, dedup set |
| `SharedState` | chain, RPC node that lags behind it, BlockStateDB, PoolsTouched channel | a pool's storage is the rate it gives, 0 if there is none |
| `MarketState` | the worker and `trace_block_diffs` | one fetch per pool; of a V3 pool the liquidity slot may arrive without slot 0 |
| `Searcher` | seeding, both drains, publishing, selection, rate cache, evaluation, `try_send` | rates are small integers over `Scale`; sorting by rate keeps the best `MaxPathsPerBlock` |
| `SearchPipeline` | the two workers, the mempool listener and receiving simulators | |
| `SlotStore` | BlockStateDB slot by slot, the searcher's seeding beside MarketState's trace, `SimDb` | the value of a slot is the block that wrote it |
| `Simulator` | the workers' run loop | whether a simulation finds a profit is a choice |
| `Optimizer` | `simulate_and_optimize` after the snapshot, `optimize_input_with_db` iteration by iteration, the choice of the flash-loan provider, price conversion over V2 reserves and V3 prices | a quote is a chain of constant-product swaps that reverts above a limit; small integers instead of wei |
| `Startup` | `main` up to `start_pipeline`, loading of pools, the filter and its cache file, over several runs of the process | a pool's behaviour in revm is one of a few natures (sound, thin, shallow, drained, taxed, honeypot, frozen); a balance slot is found or not |
| `Mempool` | the listener of a running process | calldata is a call of some kind with the tokens it trades |
| `TxSender` | the sender with strikes, blacklists, file, nonces; restart | a path is its sequence of tokens; an error text is the class `is_instant_blacklist_error` and the marginal check put it in; the file is its syntax and its entries |
| `ExecutionPipeline` | simulators and sender in one process that may restart | |
| `GasStation` | the atomics, `calc_next_base_fee`, the fees signed | small integers instead of wei |
| `PathBuilder` | `build_arb_paths` and `find_cycles` with an explicit stack | the order of a token's pools is any order |

Each worker's control state is a program counter (`msPc`, `srPc`, `simPc[w]`,
`txPc`, `pc[e]`). A step is what happens between two points at which another
task can interfere: an await, a lock, a channel operation, an atomic access. In
`Startup` it is what happens between two points at which the process can be
killed with a different outcome. Code under one lock is one action (`MsApply`, `WriteBack`), and so is
everything that only touches the task's own variables. `PROJECT.json` gives
the source lines of each definition. Definitions named "Mutant of ..." are
faulty variants of the one that follows; no specification uses them. They
show that the properties can fail: with the variant in place of the original,
TLC finds the property it is listed for violated.

Variables marked "history" in a module record the past for a property and
influence no action: `accepted` in `BlockGossip`, `missed` and `dirty` in the
search pipeline, `fails`, `unanswered`,
`failures`, `blocked` and `refused` in `TxSender`, `source` and
`origin` in `GasStation`, `vetted`, `misread`, `whole`, `verdict` and `judged` in `Startup`.

External parts: the chain (`Mine`, `Execute`), the RPC node (`RpcSync`; any
request may fail if `RpcMayFail`), tokio's channels. They may do whatever the
code has to cope with; the chain does not reorganise (see section 6).

## 3. Runs

Deadlock is checked in all of them; states in which everybody waits for input
are explicit (`Resting`, `Stopped`, `TxRest`, `Finished`).

| Run | Bounds | What it shows |
|---|---|---|
| `MCBlockGossip` | 2 endpoints, window 2, 3 blocks, 5 acceptances, delays 500 and 1000, broadcast capacity 1 | the dedup properties, `SeenIsForwarded`, with fairness `EndpointRecovers` and `AcceptedIsConsumed`, and that it implements `BlockFeed` with its fairness (`ImplementsFeed`). Three numbers through a window of two make the ring wrap and evict twice |
| `MCSearch` | a V3 pool and an exotic one, 1 path, a chain of 3 blocks announced in any order, 2 mempool events, failing requests, channels of 1 | `RatesFollowDb`, `PublishedFirst`, `NeverAheadOfChain`, `DbMirrorsHead`, `CacheIsExact` |
| `MCSearchOrdered` | a V2 and a V3 pool, 2 paths, 3 blocks in order, catch-up from block 2, no mempool, no failures, fairness | `EmittedIsCurrent`, `MovedPathsEvaluated`: the conditions under which the searcher does what its comments say; `RatesFollowDb` beside the seeding of V2 pools; `TouchReachesRates`, `SendUnblocks`: two events are what it takes to block MarketState on a channel of one while the searcher still seeds |
| `MCTxStrikes` | 2 paths that share a token, 2 start tokens, 2 providers, threshold 3, 4 paths delivered, 1 restart, three initial files, requests without answer | `FileIsBlacklist`, `BlacklistedForFailures`, `TokenHalfThreshold` |
| `MCExecution` | 2 simulators, 1 path, threshold 1, 2 ArbPaths, 1 restart, requests and disk fail, fairness | `BlacklistHolds`, `NonceGapFree`, `WorkersReturn`, `SenderReturns` |
| `MCGas` | 4 blocks, gas limits 20 and 40, elasticity 2, denominator 8 | `CoversNextBlock` for all torn reads |
| `MCPaths` | all multigraphs of 5 pools on 4 tokens, 2 start tokens, max_hops 3, cap 3 | `FindsAllCycles`, `CapNearlyHolds` |
| `MCSlots` | 2 simulators, 2 pools with 3 slots (one traced and prefetched, one traced and seeded, one neither), 3 blocks in any order, failing requests | `AppliedStays`, `SeesItsBlock` |
| `MCLaunch` | 3 runs of the process, a V2 and a V3 pool of one pair and a pool of a protocol without router key, 5 behaviours over them (to the filter taxed and frozen pools are as honeypots), 2 tokens to blacklist, a list of 2 pages, failing requests, 10 kinds of pending transactions | `NothingBlacklisted`, `ServedWasVetted`, `CacheReplays`, `NoneFalselyRejected`, `PendingSeen` |
| `MCOptimizer` | all cycles of 2 pools, and of 3 with an even one, over reserves 1000, 1500, 4000; amounts from 10 to 400, 12 steps as in `config/bsc.toml`, limits of 12, 90 and 1000 above which quotes revert (at once, amid the search, never), 8 states of the price pool (none, V2, empty, V3 of either order, overflowing, zero), 5 settings of the flash loan (unknown, missing and dearer providers, none), 2 gas costs | `BracketHoldsPeak`, `HalfOfPeak`, `GivenUpEarnsNothing`, `AcceptedPays` |

Two more runs, on the bounds of `MCPaths` and `MCLaunch`, end in a
counterexample. Each checks one property, which states a comment of the
repository that the code does not keep (`findings` in `PROJECT.json` quotes it):
`MCPathsHops` violates `FindsDocumentedCycles` (cycles of 2 to max_hops swaps),
`MCLaunchNew` violates `NewPoolsTested` (only new pools are re-tested).

The modules state more such properties. They are in no run; each is violated
when it is the one INVARIANT of the instance named here (section 5 says where
code and text disagree):

| Property | Instance |
|---|---|
| `CapHolds` | `MCPaths` |
| `LogsAwaitNode` | `MCSearch` |
| `EmittedIsCurrent`, `NoStaleSuppression` | `MCSearchOrdered` with `MaxMempool = 1` |
| `RatesMatchDb` | `MCSearchOrdered` |
| `SeesNothingStale` | `MCSlots` |
| `BlacklistedForReverts` | `MCTxStrikes` |
| `StartTokensSafe` | `MCTxStrikes` with `ConfiguredStarts = {w, t}` |
| `ListedSurvive` | `MCTxStrikes` with `InitialFiles <- ListedFile` |
| `LowLiquidityKept` | `MCLaunch` |
| `LoanRepaid` | `MCOptimizer` |

The bounds are chosen so that the interesting case occurs with one to spare:
two actors that race, a channel that is full with one message, a chain of
three blocks so that two can be announced in the wrong order, a threshold that strikes
of two paths reach together, one restart in each step of a file write, three runs
of the process so that one can write the cache, one tear it and one read it. A second
restart or a third simulator adds no new pair of conflicting steps. Every bound
is a CONSTANT (`MaxBlock`, `MaxMempool`, `MaxArbs`, `MaxJobs`, `MaxCrashes`,
`MaxHead`, `MaxAccepts`, `MaxBlocks`, `MaxRuns`, `MaxTurns`). `TypeOK` of a module
names the type of each variable; where a proof needs it, it is proved, and in
`MCBlockGossip` it is checked as well.

Symmetry is used where only safety is checked: pools and non-start tokens in
`MCPaths`.

Some branches are constants that the runs fix: `DryRun`, `SkipPreflight` and
`SimMode` are FALSE (TRUE removes steps and adds none), and `HeadersCarryFee` is TRUE (without a fee in the
header there is nothing for `CoversNextBlock` to cover).

In `MCOptimizer` half of the 12 steps are probes, which double from 10 to 320: a
search ends at a worse probe or with its probes used up. The latter is the usual
end in the configuration, whose amounts (0.01 to 50, `config/*.toml`) are further
apart than its probes reach (section 5); `HalfOfPeak` speaks of the amounts the
probes reach. The third end, a probe at max_input itself, does not occur in this
instance: it needs amounts closer together.

### Fairness

* `SearchPipeline`, `ExecutionPipeline`: weak fairness of each worker's steps.
  Each is a tokio task; the multi-threaded runtime polls a task that is ready,
  and every request ends, with an answer, an error or the client's timeout, so
  a worker that waits for one is never stuck. Nothing is assumed about
  the chain, the mempool or restarts.
* `Simulators` (in `SearchPipeline`): the simulators keep receiving, which
  `WorkersReturn` establishes in `ExecutionPipeline`.
* `BlockGossip`: weak fairness of a task's own steps, strong fairness of
  `ConnectOk` and `SubscribeOk`: an endpoint that is tried for ever is reached at
  some time. That is an assumption on the network; without it nothing could be
  said of reconnecting, and a loop that gives up fails with it too.
* `BlockFeed`: weak fairness of publishing or discarding a block at hand. The
  refinement run establishes it from the fairness of `BlockGossip`.

## 4. Proofs

TLC checks the instances above; these theorems hold for every value of the
constants that satisfies the named assumptions of the modules.

| Theorem | Says | Inductive invariant |
|---|---|---|
| `GossipTypeCorrect`, `DedupConsistent`, `RingIsHistory`, `DedupNoRepeat` | the stream is well formed; the set is exactly the ring, each entry once; the ring is the last insertions in order; no number repeats within the window | `DedupInv`: all of them, and that a task about to send has a header. "No repeat" alone concerns a history of any length and is not inductive: a number outside the set differs from the last insertions because the ring is that history's end and the set is the ring |
| `HeadersAreForwarded`, `GossipImplementsFeed` | a block taken up by the dedup set is being forwarded or was broadcast; the stream's initial states and steps are those of `BlockFeed` (the safety part of `ImplementsFeed`) | `FeedInv`: `DedupInv`, and what each task that forwards has at hand |
| `RatesFollow` | the searcher's rates follow the BlockStateDB as long as no catch-up ran | `RatesInv`: besides types, that MarketState reports every pool it holds a value for, and that seeding holds values of V2 pools only. It holds until a replay writes without an event, and a replay is not forgotten (`ReplayIsFinal`) |
| `NoBlockFromTheFuture`, `OffersArePublished` | the searcher is at most one block ahead of the chain, catch-up included; no path waits for the simulators for an unpublished block | `BlocksInv`: every number in a queue or variable is a block of the chain, evaluated or final blocks at most the next one, and from publishing to the next event what is offered has a published block |
| `DatabaseMirrorsHead` | the BlockStateDB holds the head's storage of touched V3 pools once all blocks are handled and none was missed | `MirrorInv`, on top of `BlocksInv`: the storage held, or fetched and not yet written, is that of some block at the RPC node, and no block that is done and touches the pool is later (`RecentAt`). A pool's storage changes only in blocks that touch it, so that at the end no later block differs. Seeding never writes V3 pools |
| `WhatIsAppliedStays`, `SimulationsSeeTheirBlock` | a late write-back never undoes what MarketState applied; a simulation sees the traced slots of its block; in both, but for values that seeding fetched before the block and wrote after it | `SlotInv`: `SeedOnce`, each slot is seeded at most once, so that the exception is about one value; blocks are applied one at a time, what is fetched for one is as new as the block, and a path is simulated only after its block was applied |
| `TxTypeCorrect` | the sender's state is well formed | `TxTypeOK` itself, proved variable by variable (`StepWork`, `StepLists`, `StepWorld`, `StepHistory`) |
| `FileAgrees` | file and memory agree while the lock is free, if `DiskMayFail = FALSE` | `FileInv`: during the rewrite the file read, the token being added and the blacklist fit together in each of its steps |
| `NoncesLeaveNoGap` | nonces leave no gap unless a transaction was refused or lost | the property and the types |
| `OnlyFailuresBlacklist` | only failed preflights of its own, unanswered ones included, or a failed transfer blacklist a path | `StrikeInv`: a path's strikes are at most its failed preflights, counting the one about to be struck |
| `TokensNeedHalfThreshold` | a token is blacklisted only after failures of paths through it that, counted twice, reach the threshold, if no path passes a token twice (the path builder's cycles do not: `PathIsSimple`) | `JobInv`, `CountInv`: the strikes a token has, with those the job at hand still owes it, are at most two for each failure. The loop strikes both ends of every hop, so that a token is struck at most twice (`AtMostTwice`, by counting its places on the path) |
| `BlacklistsTakeEffect` | the action property `BlacklistHolds` | `Wired`: a worker past its channel has a path, and the channels hold paths. Each way to a step behind a check leads through that check |
| `NoBlacklistedPoolServed`, `OnlyVettedServed`, `CacheRepeatsVerdict`, `GoodPoolsKept` | `NothingBlacklisted`, `ServedWasVetted`, `CacheReplays` and `NoneFalselyRejected`, for all pools, flags, crashes and edits in between, with the mempool listener running. The cache repeats a verdict only on pools that a filter looked at, and the good pools are those that give back what they take for each amount they take: not the shallow ones, which are dropped (section 5) | `LaunchInv`: what is in memory at each place is clean and, past the filter, vetted; a torn file is part of what was vetted; before the cache is written nothing good has been dropped |
| `PendingSwapsReachSearcher` | a pending swap that the decoders understand names every served pool it trades, a single call no other | `ListenerInv`: the event is the look-up of the transaction received last, in pools that come from the files. The rest is about `FlattenSeq`: each sub-call's path is a stretch of the joined one, for any number of sub-calls (`FlattenKeeps`) |
| `PathTypeCorrect`, `CapExceededByDepth` | the search is well formed; one start token gets at most `MaxPathsPerToken + MaxHops - 2` cycles | `CapInv`: the type, the bound, and `FramesPayForCycles`: at the cap `count` is at most `MaxPathsPerToken + MaxHops - 1 - Len(path)`, since each frame that emits beyond it returns at once |
| `SearchIsComplete` | below the cap the search emits exactly the simple cycles of 3 to `MaxHops + 1` hops, at the cap no other | `SearchInv`: the path is simple and leads from the start to the node at hand; what a frame has still to look at are pools of its node; what is emitted are such cycles; and `NoneLost`: every such cycle is emitted, or goes on from an open frame through a pool still to be looked at. `visited` and `current_path` must be restored on every way out for it to survive a return |
| `CacheStaysExact` | a cached rate is the one the rates in force give, or an event moved the path and it was not evaluated since; no hypotheses | `CacheInv`: nothing is cached while seeding. A path whose rates did not move has an unmoved product (`SameRates`), and each event marks every path it moves |
| `EmittedStaysCurrent`, `MovedPathsAreEvaluated` | what is offered has the rate of the rates in force; no path with a moved rate is left when the searcher waits. If `InOrder = TRUE` and `MaxMempool = 0`, the last one if `SelectionFits` as well | `OrderInv`: events carry rising block numbers and the searcher's block is below those still to come (`InSequence`, `SearcherBehind`), so that entries of the cache for the block at hand and results at hand have current rates. `DirtyIsAhead`: paths with a moved rate go through pools merged for the next selection, or are selected, and no entry of the cache for the block at hand hides them. Without the hypotheses the first does not hold (section 5); `SelectionFits` says that `max_paths_per_block` leaves no path out, as it may on purpose |
| `FeeCoversNextBlock` | a fee signed with the base fee of one of the last `Slack + 1` blocks covers the next one, if `SteadyFees` | `GasInv`: the chain obeys EIP-1559, and the base fee that is stored, loaded and predicted from is that of one of its blocks, whatever gas use and limit it is paired with. A step raises the fee by 3/20 at most (`RisesByThreeTwentieths`: an eighth, and the rounding, with the remainder of the gas limit by the elasticity), the prediction from mixed fields loses an eighth at most (`FallsByEighth`), and the fee is doubled. `SteadyFees` asks for a header with a fee, for a denominator of at least 8 and 8 * (elasticity - 1), as on all chains of `config.rs` (6 and 50, 2 and 8), for a base fee of at least 7 units and gas limits of at least 5 times the elasticity, so that rounding does not outweigh the rest |
| `AcceptedAlwaysPays` | what a simulator sends repays a loan, with the fee rounded up, from the selected provider and any no dearer one, and pays for gas and `min_profit_wei` within a unit's value, if `WideRange` | `SearchInv`: the best trial so far is a quote of an amount of at least `MinInput`, probes and bracket stay in reach. `CeilFloor`, `FeeRounding`, `InNativeMonotone`: what rounding the fee down instead of up and converting by an integer price, in one step or in the two of a V3 price, can lose. A dearer Aave is left out, as the code does not provide for it (`LoanRepaid`). `WideRange` excludes a `max_input` between two and four times `min_input`, where a quarter of the last probe lies below `min_input`; the configured ranges are 1 to 5000 |
| `GivenUpNeverEarns`, `AnswerIsHalfOfPeak`, `BracketAlwaysHoldsPeak` | the three properties of the search, `GivenUpEarnsNothing`, `HalfOfPeak` and `BracketHoldsPeak`, for cycles of any length, if `Steps >= 2`, the last one if `Steps` is even as well (20 by default, 12 in `config/bsc.toml`) | `OptimumInv`: the last probe but one earned no more than the best so far and everything up to it at most twice that (`Doubled`); from the probe that closes the bracket on, nothing in reach earns more than twice the best (`Seen`) and the bracket holds the peak, with an allowance that grows by two roundings for each third dropped (`Bracketed`) |

The proofs start from `Init => Inv` and `Inv /\ [Next]_vars => Inv'`, with a
step per action and lemmas for what several actions share (`SendFacts`,
`AbsorbFacts`, `InsertKeepsDedup`, `NextTokenTypes`, `ReturnFacts`). Some of
them need an induction over data: that a quote through any number of pools is a
number (`AmountsType`) and follows a concave curve (`QuotesAlong`), and that
joined sequences contain their parts (`FlattenKeeps`). The induction theorems of the library take predicates and
cannot be used; instead, the set of numbers for which the claim fails has a
least element because `<` is well founded (`LeastNatural`, from `WFMin`), and
that element leads to a contradiction (`UpTo`, `FromOneTo`). For a recursive
function the same induction first shows that a function with its equation
exists (`RecursionExists`).

The optimiser's theorems rest on the shape of the profit as a function of the
amount. A chain of constant-product swaps without rounding is a curve
N x / (B + C x), which is concave. Each swap rounds down, and what that costs is
carried on by the swaps behind it: `Losses`, hop by hop, bounds how far a quote
is below the curve (`QuotesAlong`), so that the profits of a path are concave up
to `Rounding`, its last member, wherever they are not cut off by the limit
(`GainNearConcave`). From this follow, as lemmas about any function with that
property, what a worse probe, a dropped third and a tie say about the amounts
that are no longer looked at (`BeyondClosing`, `DropRightThird`,
`DropLeftThird`, `DropAtTie`). The allowances of the three properties are what
these lemmas need. `Rounding` depends on the reserves only through their ratios:
a few units between tokens of like value and decimals, some 10^9 wei where a
token of six decimals is passed through, against configured amounts from 10^16
wei on. In `MCOptimizer` it is a few units against amounts of up to 400; that no
allowance hides the property there is what its mutants show.

Only model-checked:

* All liveness (`EndpointRecovers`, `AcceptedIsConsumed`, `TouchReachesRates`,
  `SendUnblocks`, `WorkersReturn`, `SenderReturns`), and with it the fairness of
  `BlockFeed`: the prover has no ENABLED and no fairness.

## 5. Where code and text disagree

Met while modelling, and visible in the definitions. Where an item names a
property as violated, that property states what the text says, and TLC shows a
behaviour of the code that breaks it (section 3).

* Results are discarded only if a later block arrived during the evaluation
  (`searcher_pipeline.rs:239`). An event for the same block changes the rates
  and the results from before are sent, against the comment at 213-216. Hence
  `EmittedIsCurrent` is checked without mempool events (`MCSearchOrdered`); with
  one it is violated.
* A request that fails in transport is wrapped as a revert
  (`tx_sender_pipeline.rs:506`) and counts as a strike (298), against 88-89.
  A path is blacklisted with fewer reverts than the threshold
  (`BlacklistedForReverts` is violated). What does hold counts unanswered requests as failures (`BlacklistedForFailures`).
* The replay of missed blocks sends no event, so rates keep their old values
  until the next log (`market_state.rs:80`; its header says that each traced
  block is reported): `RatesMatchDb` is violated, and `RatesFollowDb` excepts what comes
  after a replay.
* Seeding may overwrite newer V2 reserves with those it fetched earlier
  (`searcher_pipeline.rs:410`), as it runs beside MarketState (`ignition.rs:293`,
  319), against 130 ("before the first block arrives"): `SeesNothingStale` is violated. Hence
  `DbMirrorsHead` speaks of V3 pools, and `AppliedStays` and `SeesItsBlock` of all
  values but the seeded ones.
* A node that is behind answers getLogs with an empty list, which ends the
  attempts and the block (`tracing_revm.rs:147-151`, 209-211), against 121
  ("Retry with increasing delays"): `LogsAwaitNode` is violated. The block counts as missed in
  `DbMirrorsHead`.
* The rate cache is keyed by block number and never evicts; a path evaluated for
  the predicted block is skipped when that block comes with other rates
  (`searcher_pipeline.rs:565`, against `cache_v2.rs:7-8`): `NoStaleSuppression` is violated.
  What holds is that cached rates are those of the last evaluation that saw
  every event for the path (`CacheIsExact`).
* Paths that do not fit into the channel are not evaluated again on the next
  block (`searcher_pipeline.rs:255-264`, against 258-259).
* Strikes are never reset by a success, so failures need not be consecutive
  (`tx_sender_pipeline.rs:293`), and a token in the middle of a path gets two
  strikes for one failure (347). Hence `TokenHalfThreshold`.
* A configured start token without a price pool is not protected
  (`ignition.rs:384`, `main.rs:62-73`), against 383 ("should NEVER be
  blacklisted"): `StartTokensSafe` is violated. So it is with USDC of `config/base.toml`, and the
  file is loaded without looking at the start tokens.
* The toxic-token file is truncated before it is written; a crash in between
  loses its tokens (`tx_sender_pipeline.rs:442`, against 97): `ListedSurvive` is violated. The first token
  persisted into the empty list that `main.rs:161` seeds brings two lines of
  the list's own syntax with it as addresses (413).
* On a chain whose headers report base fee 0 the first header overwrites the
  live price (`gas_station.rs:48`, against `ignition.rs:197-198`); with the
  parameters of Base a full block raises the fee by ten percent and not by the
  two of `config/base.toml:115`.
* The path builder finds cycles of 3 to max_hops + 1 hops, not of 2 to max_hops
  (`path_builder.rs:119`, against 4, 12-15, 30, 93 and 118): `MCPathsHops`. It may
  exceed the cap by max_hops - 2 (124, against 31): `CapHolds` is violated.
  `FindsAllCycles` and `CapNearlyHolds` state what the code does.
* A failed `eth_getStorageAt` is taken for zero, cached and written back
  (`sim_db.rs:183-185`); only slots that MarketState refreshes recover.
* For PancakeSwap V3 pools slot 4 is refreshed where the liquidity is in slot 5
  (`tracing_revm.rs:229`, `state_db.rs:30-31`).
* With a filter cache, pools added since are dropped untested
  (`main.rs:306-309`), against 258-259 ("only new pools are re-tested"):
  `MCLaunchNew`. They wait for `FORCE_REFILTER`. `CacheReplays` is about pools that
  a filter has looked at.
* A pool that serves a large test amount but gives back less than 95% of it fails
  at once (`filter_revm.rs:809-817`), against 427 and 777-778: the smaller amounts
  are tried only after an amount that reverts. A shallow pool,
  which would pass with a smaller one, is dropped (`LowLiquidityKept` is violated). `NoneFalselyRejected` is about
  pools that give back what they take for each amount they take.
* The flash-loan fee that is deducted is the selected provider's
  (`simulator_pipeline.rs:387-394`); the sender falls back to Aave
  (`tx_sender_pipeline.rs:466-468`), which the contract requires anyway
  (`main.rs:173-175`). With a cheaper provider selected, what is
  sent need not repay a loan from Aave (`LoanRepaid` is violated).
* Slot 8 of a V3 price pool, once a simulation has fetched it and written it back,
  is taken for V2 reserves (`simulator_pipeline.rs:416`, `state_db.rs:803-812`).
* In the filter a request that fails reads as zero (`filter_revm.rs:1164`); the
  verdict it leads to is cached with the others. Hence `misread` in
  `NoneFalselyRejected`.
* `filter_revm.rs:1050` speaks of one `BlockStateDB` for all tests; each rayon
  worker has a copy of its own.
* For an unknown chain `main.rs:140` logs a cache directory of its own and then
  uses that of Base.
* `decode_v3_multi_swap` takes the first word of the arguments, the offset of
  the tuple, for the offset of the path (`mempool.rs:153-164`): multi-hop V3
  swaps are never matched. Hence `Understood` in `PendingSeen`. Multicalls are
  decoded as one path, so that pools between two sub-calls are named as well
  (304). `swapETHForExactTokens` is among the calls that are not decoded.
* The mempool listener has no second attempt: once the stream ends no pending
  swap is seen any more (`mempool.rs:395`).
* The configured search never gets to `max_input`: half of the steps are probes,
  which from 0.01 reach 5.12 with 20 steps and 0.32 with the 12 of
  `config/bsc.toml`, of a maximum of 50; a probing that uses them all up
  leaves no step to refine with (`quoter_revm.rs:256`, 284). The lower end of
  the bracket, a quarter of the last probe, may lie below `min_input` only if
  `max_input` is less than four times that.
* When the second probe is already worse, because the peak or the limit from
  which the path reverts is close to `min_input`, the bracket is `min_input` to
  twice that. If both of its inner points revert they tie, and the tie drops the
  left third, where the peak is (`quoter_revm.rs:295-301`); the first probe stays
  the answer, which is what `HalfOfPeak` promises and no more. Hence
  `probe > 2 * MinInput` in `BracketHoldsPeak`, which without it is violated in
  `MCOptimizer`. Later brackets begin at a quarter of their last probe, left of
  which a peak cannot be.
* With an odd number of steps and all probes used up, one step is left to refine
  the whole range from `min_input` to `max_input`, and a tie of reverting quotes
  drops the peak in the same way. Hence the even `Steps` of
  `BracketAlwaysHoldsPeak`; all configured values are even, but nothing asks for
  that (`config.rs:353`). With `Steps = 9` `BracketHoldsPeak` is violated.
* "If the path loses money at tiny size, it will lose at every size"
  (`simulator_pipeline.rs:346-347`) holds up to the rounding of the quote at that
  size, which counts once for each `min_input` put in (`GivenUpEarnsNothing`).
* Without a price pool, or before its storage is known, gas is compared to a
  profit in units of the start token (`simulator_pipeline.rs:404-445`). Where a
  V3 price cannot be converted the path is dropped (430), and not judged in raw
  units as 499-500 say.
* On a header without a base fee the gas station stores zero
  (`gas_station.rs:48`); an error text is cut by bytes, which panics inside a
  character (`tx_sender_pipeline.rs:501`, not modelled).

## 6. Plan

Done: every component that runs in the process, from the startup to the
submission of a transaction, with a refinement for the block stream and proofs
for all safety properties that the runs check. Left:

1. The on-chain executor `V2ArbBot.sol`: an abstract specification (a call
   either repays the loan and keeps a profit or changes nothing) and the
   contract's steps as a refinement of it. It shares nothing with the process
   but the transaction, which `TxSender` models up to its outcome.
2. Reorganisations: a replaced block has a number the dedup set already holds,
   so that the storage changes of the new branch are not traced.
3. `BlockFeed` in place of `Announce` in `MarketState`, which restates it.

## 7. Not modelled

EVM execution (revm's), calldata encoding and
signing, TOML and JSON parsing, logging, generated bindings, the formulas that
use floating point or iterate on 256-bit numbers, code nothing calls
(`block_tracing.rs`, `history_db.rs`, `CalcCache`, `stream_new_blocks`, the log
crawler and CSV writer of `pool_loader.rs`,
`estimate_l1_data_fee`), and the offline scripts that collect pools. Collisions
of the 64-bit path hash (`swap_types.rs:148`) are ignored: models compare paths.
Tests that share a rayon worker share its state copy, and the storage one test
changes may be seen by the next; `Startup` takes them as independent.
