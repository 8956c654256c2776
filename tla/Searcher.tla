----------------------------- MODULE Searcher -----------------------------
(***************************************************************************)
(* The searcher worker: src/src/searcher_pipeline.rs with the parts of     *)
(* src/src/calculation/rates.rs (RateEstimator) and src/src/cache_v2.rs    *)
(* (PathRateCache) that it calls.                                          *)
(*                                                                         *)
(* At startup it seeds the rates.  Then, for each PoolsTouched event: take *)
(* up the event and every other one already queued, publish the block,     *)
(* select the affected paths, evaluate them, and take up what was queued   *)
(* meanwhile.  If that belongs to a later block the results are discarded  *)
(* and everything is evaluated again, else they are offered to the         *)
(* simulators' channel.                                                    *)
(***************************************************************************)
EXTENDS SharedState, SequencesExt

CONSTANTS
    Paths,            \* arbitrage paths, each the sequence of its pools
    Scale,            \* RATE_SCALE, the break-even rate
    Unquoted,         \* the fee-discounted rate of a V3 pool without storage
    MaxPathsPerBlock  \* max_paths_per_block

ASSUME SearcherAssumption ==
    /\ Paths \subseteq Seq(Pools)
    /\ Scale \in Nat \ {0}
    /\ Unquoted \in Nat
    /\ MaxPathsPerBlock \in Nat

VARIABLES
    srPc,          \* where the worker is
    seedVals,      \* V2 storage fetched by the seeding, not yet written
    rates,         \* RateEstimator.rates, 0 where there is no entry
    cache,         \* PathRateCache: rate and block per path, block 0 if none
    latestBlock,   \* latest_block
    finalBlock,    \* final_block
    preFinal,      \* pre_final
    merged,        \* merged_pools, then merged_vec
    postMerged,    \* post_merged
    affected,      \* affected_indices
    results,       \* evaluated paths at or above break-even
    sharedLatest,  \* shared_latest_block, read by the simulators
    arbQ,          \* ArbPath channel to the simulators
    dirty          \* history: paths with a rate that an event moved and that
                   \* have not been evaluated since

srVars == <<srPc, seedVals, rates, cache, latestBlock, finalBlock, preFinal, merged,
            postMerged, affected, results, sharedLatest, arbQ, dirty>>

Through(ps) == {q \in Paths : \E i \in DOMAIN q : q[i] \in ps}
Larger(a, b) == IF a >= b THEN a ELSE b
ArbPaths == [path : Paths, rate : Nat, block : Nat]

-----------------------------------------------------------------------------
(* RateEstimator *)

\* The rate that update_rates_for_pools stores for a pool, given its storage:
\* exotic pools pass through at break-even, a V3 pool without storage passes
\* through at its fee, a V2 pool without storage has no entry.
RateOf(p, storage) ==
    IF p \in ExoticPools THEN Scale
    ELSE IF storage # 0 THEN storage
    ELSE IF p \in V3Pools THEN Unquoted ELSE 0

\* Rates of a set of pools recomputed from the BlockStateDB, both locks held.
RatesAfter(ps) == [p \in Pools |-> IF p \in ps THEN RateOf(p, db[p]) ELSE rates[p]]

\* evaluate_path: the product of the rates along the path, 0 if one is missing.
Product(rs) == FoldLeft(LAMBDA c, r : (c * r) \div Scale, Scale, rs)
EvaluatePath(q) == Product([i \in DOMAIN q |-> rates[q[i]]])

-----------------------------------------------------------------------------
(* seed_initial_rates *)

\* V3 and exotic rates come from what is already in the BlockStateDB.
SeedV3 ==
    /\ srPc = "seedV3"
    /\ rates' = RatesAfter(V3Pools \cup ExoticPools)
    /\ srPc' = "seedFetch"
    /\ UNCHANGED <<shared, seedVals, cache, latestBlock, finalBlock, preFinal, merged,
                   postMerged, affected, results, sharedLatest, arbQ, dirty>>

\* V2 reserves are requested at "latest"; a request may fail.
SeedFetch ==
    /\ srPc = "seedFetch"
    /\ \E failed \in SUBSET V2Pools :
         /\ failed # {} => RpcMayFail
         /\ seedVals' = [p \in Pools |-> IF p \in V2Pools \ failed THEN Latest[p] ELSE 0]
    /\ srPc' = "seedWrite"
    /\ UNCHANGED <<shared, rates, cache, latestBlock, finalBlock, preFinal, merged,
                   postMerged, affected, results, sharedLatest, arbQ, dirty>>

\* The answers are written later, over whatever is there by then.
SeedWrite ==
    /\ srPc = "seedWrite"
    /\ UpdateSlots(seedVals)
    /\ seedVals' = [p \in Pools |-> 0]
    /\ srPc' = "seedRates"
    /\ UNCHANGED <<chain, rpcHead, dbBlock, poolsQ, rates, cache, latestBlock, finalBlock,
                   preFinal, merged, postMerged, affected, results, sharedLatest, arbQ, dirty>>

\* Mutant of SeedRates: the seeding is repeated until no event is waiting.
SeedUntilQuiet ==
    /\ srPc = "seedRates"
    /\ rates' = RatesAfter(V2Pools)
    /\ srPc' = IF poolsQ = << >> THEN "recv" ELSE "seedFetch"
    /\ UNCHANGED <<shared, seedVals, cache, latestBlock, finalBlock, preFinal, merged,
                   postMerged, affected, results, sharedLatest, arbQ, dirty>>

SeedRates ==
    /\ srPc = "seedRates"
    /\ rates' = RatesAfter(V2Pools)
    /\ srPc' = "recv"
    /\ UNCHANGED <<shared, seedVals, cache, latestBlock, finalBlock, preFinal, merged,
                   postMerged, affected, results, sharedLatest, arbQ, dirty>>

-----------------------------------------------------------------------------
(* run *)

\* The block an event stands for: block 0 marks a mempool event, evaluated for
\* the block after the latest one.
BlockOf(ev) == IF ev.block = 0 THEN latestBlock + 1 ELSE ev.block

\* Mutant of Absorb: a mempool event advances latest_block.
AbsorbAdvances ==
    LET ev == Head(poolsQ) IN
    /\ poolsQ # << >>
    /\ poolsQ' = Tail(poolsQ)
    /\ latestBlock' = Larger(latestBlock, BlockOf(ev))
    /\ rates' = RatesAfter(ev.pools)
    /\ dirty' = dirty \cup Through({p \in ev.pools : RateOf(p, db[p]) # rates[p]})
    /\ UNCHANGED <<chain, rpcHead, db, dbBlock, seedVals, cache, sharedLatest, arbQ, results>>

\* The next event is taken from the channel: latest_block advances and the
\* rates of its pools are recomputed.
Absorb ==
    LET ev == Head(poolsQ) IN
    /\ poolsQ # << >>
    /\ poolsQ' = Tail(poolsQ)
    /\ latestBlock' = IF ev.block = 0 THEN latestBlock ELSE Larger(latestBlock, ev.block)
    /\ rates' = RatesAfter(ev.pools)
    /\ dirty' = dirty \cup Through({p \in ev.pools : RateOf(p, db[p]) # rates[p]})
    /\ UNCHANGED <<chain, rpcHead, db, dbBlock, seedVals, cache, sharedLatest, arbQ, results>>

\* Wait for an event.
SrRecv ==
    /\ srPc = "recv"
    /\ Absorb
    /\ merged' = Head(poolsQ).pools
    /\ finalBlock' = BlockOf(Head(poolsQ))
    /\ srPc' = "drain"
    /\ UNCHANGED <<preFinal, postMerged, affected>>

\* Pre-evaluation drain: one try_recv that returns an event.
SrPreDrain ==
    /\ srPc = "drain"
    /\ Absorb
    /\ merged' = merged \cup Head(poolsQ).pools
    /\ finalBlock' = Larger(finalBlock, BlockOf(Head(poolsQ)))
    /\ UNCHANGED <<srPc, preFinal, postMerged, affected>>

\* Mutant of SrSelect: the block is not published.
SelectUnpublished ==
    /\ srPc = "drain"
    /\ poolsQ = << >>
    /\ \E sel \in SUBSET Through(merged) :
         /\ \/ sel = Through(merged) /\ Cardinality(sel) <= MaxPathsPerBlock
            \/ Cardinality(sel) = MaxPathsPerBlock
         /\ affected' = sel
         /\ srPc' = IF sel = {} THEN "recv" ELSE "eval"
    /\ UNCHANGED <<shared, seedVals, rates, cache, latestBlock, finalBlock, preFinal, merged,
                   postMerged, results, sharedLatest, arbQ, dirty>>

\* The channel is empty: publish the block, then get_affected_paths, which keeps
\* an arbitrary choice of at most max_paths_per_block paths.
SrSelect ==
    /\ srPc = "drain"
    /\ poolsQ = << >>
    /\ sharedLatest' = Larger(sharedLatest, finalBlock)
    /\ \E sel \in SUBSET Through(merged) :
         /\ \/ sel = Through(merged) /\ Cardinality(sel) <= MaxPathsPerBlock
            \/ Cardinality(sel) = MaxPathsPerBlock
         /\ affected' = sel
         /\ srPc' = IF sel = {} THEN "recv" ELSE "eval"
    /\ UNCHANGED <<shared, seedVals, rates, cache, latestBlock, finalBlock, preFinal, merged,
                   postMerged, results, arbQ, dirty>>

\* A path is skipped when this block's cached rate is below break-even.
Suppressed(q) == cache[q].block = finalBlock /\ cache[q].rate < Scale

\* Mutant of SrEvaluate: only what is worth simulating is cached.
EvaluateCachesResults ==
    LET evaluated == {q \in affected : ~Suppressed(q)} IN
    /\ srPc = "eval"
    /\ cache' = [q \in Paths |-> IF q \in evaluated /\ EvaluatePath(q) >= Scale
                                   THEN [rate |-> EvaluatePath(q), block |-> finalBlock]
                                   ELSE cache[q]]
    /\ results' = {[path |-> q, rate |-> EvaluatePath(q), block |-> finalBlock] :
                      q \in {r \in evaluated : EvaluatePath(r) >= Scale}}
    /\ dirty' = dirty \ evaluated
    /\ preFinal' = finalBlock
    /\ postMerged' = {}
    /\ srPc' = "post"
    /\ UNCHANGED <<shared, seedVals, rates, latestBlock, finalBlock, merged, affected,
                   sharedLatest, arbQ>>

\* evaluate_paths_parallel: the estimator is read-locked throughout.
SrEvaluate ==
    LET evaluated == {q \in affected : ~Suppressed(q)} IN
    /\ srPc = "eval"
    /\ cache' = [q \in Paths |-> IF q \in evaluated
                                   THEN [rate |-> EvaluatePath(q), block |-> finalBlock]
                                   ELSE cache[q]]
    /\ results' = {[path |-> q, rate |-> EvaluatePath(q), block |-> finalBlock] :
                      q \in {r \in evaluated : EvaluatePath(r) >= Scale}}
    /\ dirty' = dirty \ evaluated
    /\ preFinal' = finalBlock
    /\ postMerged' = {}
    /\ srPc' = "post"
    /\ UNCHANGED <<shared, seedVals, rates, latestBlock, finalBlock, merged, affected,
                   sharedLatest, arbQ>>

\* Post-evaluation drain: one try_recv that returns an event.
SrPostDrain ==
    /\ srPc = "post"
    /\ Absorb
    /\ postMerged' = postMerged \cup Head(poolsQ).pools
    /\ finalBlock' = Larger(finalBlock, BlockOf(Head(poolsQ)))
    /\ UNCHANGED <<srPc, preFinal, merged, affected>>

\* Mutant of SrCarryForward: the pools that arrived meanwhile are lost.
CarryWithoutMerge ==
    /\ srPc = "post"
    /\ poolsQ = << >>
    /\ finalBlock > preFinal
    /\ merged' = merged
    /\ results' = {}
    /\ postMerged' = {}
    /\ srPc' = "drain"
    /\ UNCHANGED <<shared, seedVals, rates, cache, latestBlock, finalBlock, preFinal, affected,
                   sharedLatest, arbQ, dirty>>

\* Later blocks arrived: drop the results and carry all the pools forward.
SrCarryForward ==
    /\ srPc = "post"
    /\ poolsQ = << >>
    /\ finalBlock > preFinal
    /\ merged' = merged \cup postMerged
    /\ results' = {}
    /\ postMerged' = {}
    /\ srPc' = "drain"
    /\ UNCHANGED <<shared, seedVals, rates, cache, latestBlock, finalBlock, preFinal, affected,
                   sharedLatest, arbQ, dirty>>

\* Mutant of SrKeepResults: the results stand even if a later block came.
KeepStaleResults ==
    /\ srPc = "post"
    /\ poolsQ = << >>
    /\ postMerged' = {}
    /\ srPc' = "emit"
    /\ UNCHANGED <<shared, seedVals, rates, cache, latestBlock, finalBlock, preFinal, merged,
                   affected, results, sharedLatest, arbQ, dirty>>

\* No later block: the results stand.
SrKeepResults ==
    /\ srPc = "post"
    /\ poolsQ = << >>
    /\ finalBlock <= preFinal
    /\ postMerged' = {}
    /\ srPc' = "emit"
    /\ UNCHANGED <<shared, seedVals, rates, cache, latestBlock, finalBlock, preFinal, merged,
                   affected, results, sharedLatest, arbQ, dirty>>

\* try_send, best path first; a path that does not fit is dropped.
SrEmit ==
    /\ srPc = "emit"
    /\ \E r \in results :
         /\ \A s \in results : s.rate <= r.rate
         /\ results' = results \ {r}
         /\ arbQ' = IF Len(arbQ) < ChannelBuffer THEN Append(arbQ, r) ELSE arbQ
    /\ UNCHANGED <<shared, srPc, seedVals, rates, cache, latestBlock, finalBlock, preFinal,
                   merged, postMerged, affected, sharedLatest, dirty>>

SrEmitDone ==
    /\ srPc = "emit"
    /\ results = {}
    /\ srPc' = "recv"
    /\ UNCHANGED <<shared, seedVals, rates, cache, latestBlock, finalBlock, preFinal, merged,
                   postMerged, affected, results, sharedLatest, arbQ, dirty>>

SrStep ==
    \/ SeedV3
    \/ SeedFetch
    \/ SeedWrite
    \/ SeedRates
    \/ SrRecv
    \/ SrPreDrain
    \/ SrSelect
    \/ SrEvaluate
    \/ SrPostDrain
    \/ SrCarryForward
    \/ SrKeepResults
    \/ SrEmit
    \/ SrEmitDone

-----------------------------------------------------------------------------
(* The receiving end of the ArbPath channel: a simulator takes the next path. *)

TakeArb ==
    /\ arbQ # << >>
    /\ arbQ' = Tail(arbQ)
    /\ UNCHANGED <<shared, srPc, seedVals, rates, cache, latestBlock, finalBlock, preFinal,
                   merged, postMerged, affected, results, sharedLatest, dirty>>

SearcherInit ==
    /\ srPc = "seedV3"
    /\ seedVals = [p \in Pools |-> 0]
    /\ rates = [p \in Pools |-> 0]
    /\ cache = [q \in Paths |-> [rate |-> 0, block |-> 0]]
    /\ latestBlock = 0
    /\ finalBlock = 0
    /\ preFinal = 0
    /\ merged = {}
    /\ postMerged = {}
    /\ affected = {}
    /\ results = {}
    /\ sharedLatest = 0
    /\ arbQ = << >>
    /\ dirty = {}

SearcherTypeOK ==
    /\ srPc \in {"seedV3", "seedFetch", "seedWrite", "seedRates", "recv", "drain", "eval",
                 "post", "emit"}
    /\ seedVals \in Storage
    /\ rates \in [Pools -> Nat]
    /\ cache \in [Paths -> [rate : Nat, block : Nat]]
    /\ latestBlock \in Nat
    /\ finalBlock \in Nat
    /\ preFinal \in Nat
    /\ merged \in SUBSET Pools
    /\ postMerged \in SUBSET Pools
    /\ affected \in SUBSET Paths
    /\ results \in SUBSET ArbPaths
    /\ sharedLatest \in Nat
    /\ arbQ \in Seq(ArbPaths)
    /\ dirty \in SUBSET Paths
=============================================================================
