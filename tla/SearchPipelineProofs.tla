----------------------- MODULE SearchPipelineProofs -----------------------
(***************************************************************************)
(* For every set of pools and paths, every channel size and every order of *)
(* blocks, mempool events, failures and lags: the searcher's rates follow  *)
(* the BlockStateDB as long as no catch-up ran; with or without one, no    *)
(* block number runs ahead of the chain and no path ahead of the published *)
(* block.                                                                  *)
(* With the blocks in order and no mempool events, what is evaluated and   *)
(* emitted is what the rates in force give; in any case a cached rate is   *)
(* that of the last evaluation, and an event that moves it is on record.   *)
(* The BlockStateDB mirrors the chain's head, in whatever order the blocks *)
(* are announced: the logs tell MarketState only which pools to fetch, and *)
(* "latest" is never older than the block at hand, so that a late block    *)
(* writes what is new, not what it saw.                                    *)
(***************************************************************************)
EXTENDS SearchPipeline, FiniteSetTheorems, TLAPS

\* MarketState does not replay, and reports every pool it has a value for.
MarketReports ==
    /\ ~msCatchUp
    /\ \A p \in Pools : msVals[p] # 0 => p \in msTouched

\* Seeding holds fetched values for V2 pools only.
SeedsV2Only == \A p \in Pools : seedVals[p] # 0 => p \in V2Pools

\* The types that the argument needs.
PipelineTypes ==
    /\ db \in Storage
    /\ poolsQ \in Seq(Events)
    /\ rates \in [Pools -> Nat]
    /\ blockQ \in Seq(Nat)
    /\ msBlock \in Nat
    /\ msVals \in Storage
    /\ msTouched \in SUBSET Pools
    /\ seedVals \in Storage

\* What the RPC node serves is a state of the chain.
ChainTypes ==
    /\ chain \in Seq(BlockRecords)
    /\ rpcHead \in 1 .. Len(chain)

RatesInv ==
    /\ ChainTypes
    /\ PipelineTypes
    /\ MarketReports
    /\ SeedsV2Only
    /\ RatesMatchDb

-----------------------------------------------------------------------------

\* A rate is a natural number.
LEMMA RateOfType ==
    ASSUME NEW p \in Pools, NEW v \in Rates \cup {0}
    PROVE  RateOf(p, v) \in Nat
  BY SharedAssumption, SearcherAssumption DEF RateOf

\* Recomputing the rates of a set of pools: its members get the rate that
\* their storage gives, the others keep theirs.
LEMMA RatesAfterFacts ==
    ASSUME RatesInv, NEW ps \in SUBSET Pools
    PROVE  /\ RatesAfter(ps) \in [Pools -> Nat]
           /\ \A p \in Pools : RatesAfter(ps)[p] = IF p \in ps THEN RateOf(p, db[p]) ELSE rates[p]
  BY RateOfType DEF RatesInv, PipelineTypes, RatesAfter, Storage

\* A step that changes none of the variables the invariant speaks of.
LEMMA RatesInvFrame ==
    ASSUME RatesInv,
           UNCHANGED <<chain, rpcHead, db, poolsQ, rates, blockQ, msPc, msBlock, msVals,
                       msTouched, msCatchUp, seedVals, srPc>>
    PROVE  RatesInv'
  BY DEF RatesInv, ChainTypes, PipelineTypes, MarketReports, SeedsV2Only, RatesMatchDb,
         EventPending, SeedPending, Seeding

\* Initially every rate is still to be seeded.
LEMMA InitRates == ASSUME Init PROVE RatesInv
  <1>1. PipelineTypes
    <2>1. db \in Storage
      BY DEF Init, SharedInit, Storage, States
    <2> QED BY <2>1, SharedAssumption
            DEF Init, SharedInit, MarketInit, SearcherInit, PipelineTypes, Storage, NoVals
  <1>3. ChainTypes
    BY DEF Init, SharedInit, ChainTypes, BlockRecords
  <1>2. MarketReports /\ SeedsV2Only /\ RatesMatchDb
    BY DEF Init, MarketInit, SearcherInit, MarketReports, SeedsV2Only, RatesMatchDb,
           SeedPending, NoVals
  <1> QED BY <1>1, <1>2, <1>3 DEF RatesInv

\* An event joins the queue: nothing that was pending is lost, and its pools
\* are pending.
LEMMA SendFacts ==
    ASSUME RatesInv, NEW ev \in Events, SendPools(ev)
    PROVE  /\ poolsQ' \in Seq(Events)
           /\ \A p \in Pools :
                (\E i \in DOMAIN poolsQ : p \in poolsQ[i].pools) \/ p \in ev.pools =>
                  \E i \in DOMAIN poolsQ' : p \in poolsQ'[i].pools
  <1>1. poolsQ \in Seq(Events) /\ poolsQ' = Append(poolsQ, ev)
    BY DEF RatesInv, PipelineTypes, SendPools
  <1>2. /\ Len(poolsQ) \in Nat
        /\ DOMAIN poolsQ = 1 .. Len(poolsQ)
        /\ DOMAIN poolsQ' = 1 .. Len(poolsQ) + 1
        /\ poolsQ'[Len(poolsQ) + 1] = ev
        /\ \A i \in 1 .. Len(poolsQ) : poolsQ'[i] = poolsQ[i]
    BY <1>1
  <1>3. poolsQ' \in Seq(Events)
    BY <1>1
  <1>4. ASSUME NEW p \in Pools, p \in ev.pools
        PROVE  \E i \in DOMAIN poolsQ' : p \in poolsQ'[i].pools
    <2>1. Len(poolsQ) + 1 \in DOMAIN poolsQ'
      BY <1>2
    <2> QED BY <1>2, <1>4, <2>1
  <1>5. ASSUME NEW p \in Pools, NEW i \in DOMAIN poolsQ, p \in poolsQ[i].pools
        PROVE  \E j \in DOMAIN poolsQ' : p \in poolsQ'[j].pools
    <2>1. i \in DOMAIN poolsQ' /\ poolsQ'[i] = poolsQ[i]
      BY <1>2, <1>5
    <2> QED BY <1>5, <2>1
  <1> QED BY <1>3, <1>4, <1>5

\* Taking an event from the queue and recomputing the rates of its pools.
LEMMA AbsorbFacts ==
    ASSUME RatesInv, Absorb, ~Seeding, srPc' \notin {"seedV3", "seedFetch", "seedWrite", "seedRates"},
           UNCHANGED <<blockQ, msPc, msBlock, msVals, msTouched, msCatchUp>>
    PROVE  RatesInv'
  <1>1. /\ poolsQ \in Seq(Events) /\ poolsQ # << >> /\ poolsQ' = Tail(poolsQ)
        /\ UNCHANGED <<chain, rpcHead, db, seedVals>>
        /\ rates' = RatesAfter(Head(poolsQ).pools)
    BY DEF RatesInv, PipelineTypes, Absorb
  <1>2. Head(poolsQ) \in Events /\ poolsQ' \in Seq(Events)
    BY <1>1
  <1>3. Head(poolsQ).pools \in SUBSET Pools
    BY <1>2 DEF Events
  <1>4. /\ rates' \in [Pools -> Nat]
        /\ \A p \in Pools : rates'[p] = IF p \in Head(poolsQ).pools THEN RateOf(p, db[p]) ELSE rates[p]
    BY <1>1, <1>3, RatesAfterFacts
  <1>5. ASSUME NEW p \in Pools, p \notin Head(poolsQ).pools, NEW i \in DOMAIN poolsQ,
               p \in poolsQ[i].pools
        PROVE  \E j \in DOMAIN poolsQ' : p \in poolsQ'[j].pools
    <2>1. i # 1 /\ i \in 1 .. Len(poolsQ)
      BY <1>1, <1>5
    <2>2. i - 1 \in DOMAIN poolsQ' /\ poolsQ'[i - 1] = poolsQ[i]
      BY <1>1, <2>1
    <2> QED BY <1>5, <2>2
  <1>6. RatesMatchDb'
    <2> SUFFICES ASSUME NEW p \in Pools
                 PROVE  rates'[p] = RateOf(p, db[p]) \/ EventPending(p)'
      BY <1>1 DEF RatesMatchDb
    <2>1. rates[p] = RateOf(p, db[p]) \/ EventPending(p)
      BY DEF RatesInv, RatesMatchDb, SeedPending, Seeding
    <2>2. CASE p \in Head(poolsQ).pools
      BY <2>2, <1>4
    <2>3. CASE p \notin Head(poolsQ).pools
      BY <2>1, <2>3, <1>4, <1>5 DEF EventPending
    <2> QED BY <2>2, <2>3
  <1> QED BY <1>1, <1>2, <1>4, <1>6
          DEF RatesInv, ChainTypes, PipelineTypes, MarketReports, SeedsV2Only

\* The end of a block: MarketState holds no values.
LEMMA EndBlockFacts ==
    ASSUME RatesInv, EndBlock
    PROVE  /\ msVals' \in Storage /\ msTouched' \in SUBSET Pools /\ msBlock' \in Nat
           /\ ~msCatchUp' /\ msPc' # "send"
           /\ \A p \in Pools : msVals'[p] = 0
  BY DEF RatesInv, PipelineTypes, MarketReports, EndBlock, NoVals, Storage

\* Every step of MarketState preserves the invariant when it does not replay.
LEMMA MarketKeepsRates ==
    ASSUME msEnd' = 0, RatesInv, MsStep, UNCHANGED srVars
    PROVE  RatesInv'
  <1> USE DEF srVars, shared, msWork, broadcast
  <1>1. CASE MsCatchUp
    BY <1>1, MarketAssumption DEF MsCatchUp
  <1>2. CASE MsNoCatchUp
    BY <1>2 DEF MsNoCatchUp, RatesInv, ChainTypes, PipelineTypes, MarketReports, SeedsV2Only,
                RatesMatchDb, EventPending, SeedPending, Seeding
  <1>3. CASE MsLagged
    BY <1>3, RatesInvFrame DEF MsLagged
  <1>4. CASE MsRecv
    <2>1. blockQ' \in Seq(Nat) /\ msBlock' \in Nat
      BY <1>4 DEF MsRecv, TraceBlock, RatesInv, PipelineTypes
    <2> QED BY <1>4, <2>1 DEF MsRecv, TraceBlock, RatesInv, ChainTypes, PipelineTypes, MarketReports, SeedsV2Only,
                RatesMatchDb, EventPending, SeedPending, Seeding
  <1>5. CASE MsGetLogs
    BY <1>5 DEF MsGetLogs, RatesInv, ChainTypes, PipelineTypes, MarketReports, SeedsV2Only,
                RatesMatchDb, EventPending, SeedPending, Seeding
  <1>6. CASE MsGetLogsFail
    <2>1. CASE msAttempt < GetLogsAttempts
      BY <1>6, <2>1, RatesInvFrame DEF MsGetLogsFail
    <2>2. CASE ~(msAttempt < GetLogsAttempts)
      <3>1. EndBlock /\ msPc = "logs" /\ UNCHANGED <<blockQ, chain, rpcHead, db, poolsQ, rates, seedVals, srPc>>
        BY <1>6, <2>2 DEF MsGetLogsFail
      <3> QED BY <3>1, EndBlockFacts DEF RatesInv, ChainTypes, PipelineTypes, MarketReports, SeedsV2Only,
                RatesMatchDb, EventPending, SeedPending, Seeding
    <2> QED BY <2>1, <2>2
  <1>7. ASSUME NEW p \in Pools, MsFetch(p)
        PROVE  RatesInv'
    <2>1. /\ msPc = "fetch" /\ UNCHANGED <<chain, rpcHead, db, poolsQ, rates, seedVals, srPc, msPc, msCatchUp,
                       blockQ, msBlock>>
          /\ \/ /\ msVals' = [msVals EXCEPT ![p] = Latest[p]]
                /\ msTouched' = msTouched \cup {p}
             \/ /\ msVals' = msVals
                /\ msTouched' \in {msTouched} \cup {msTouched \cup {q} : q \in V3Pools \cap {p}}
      BY <1>7 DEF MsFetch
    <2>2. Latest[p] \in Rates /\ Latest[p] # 0
      <3>1. chain[rpcHead] \in BlockRecords
        BY DEF RatesInv, ChainTypes
      <3>2. Latest \in States
        BY <3>1 DEF Latest, BlockRecords
      <3> QED BY <3>2, SharedAssumption DEF States
    <2>3. /\ msVals' \in Storage /\ msTouched' \in SUBSET Pools
          /\ \A r \in Pools : msVals'[r] # 0 => r \in msTouched'
      BY <2>1, <2>2 DEF RatesInv, PipelineTypes, MarketReports, Storage
    <2> QED BY <2>1, <2>3 DEF RatesInv, ChainTypes, PipelineTypes, MarketReports, SeedsV2Only,
                RatesMatchDb, EventPending, SeedPending, Seeding
  <1>8. CASE MsApply
    <2>1. /\ UNCHANGED <<blockQ, chain, rpcHead, poolsQ, rates, seedVals, srPc>>
          /\ msPc = "fetch"
          /\ db' \in Storage
          /\ \A p \in Pools : db'[p] = IF msVals[p] # 0 THEN msVals[p] ELSE db[p]
      BY <1>8 DEF MsApply, UpdateSlots, RatesInv, PipelineTypes, Storage
    <2>2. CASE msTouched # {}
      <3>1. msPc' = "send" /\ UNCHANGED msWork
        BY <1>8, <2>2 DEF MsApply, RatesInv, MarketReports
      <3>2. ASSUME NEW p \in Pools
            PROVE  (rates[p] = RateOf(p, db[p]) \/ EventPending(p) \/ SeedPending(p))'
        <4>1. CASE msVals[p] # 0
          BY <3>1, <4>1 DEF RatesInv, MarketReports, EventPending
        <4>2. CASE msVals[p] = 0
          <5>1. rates[p] = RateOf(p, db[p]) \/ EventPending(p) \/ SeedPending(p)
            BY DEF RatesInv, RatesMatchDb
          <5>2. db'[p] = db[p]
            BY <2>1, <4>2
          <5> QED BY <5>1, <5>2, <2>1 DEF EventPending, SeedPending, Seeding
        <4> QED BY <4>1, <4>2
      <3> QED BY <2>1, <3>1, <3>2
              DEF RatesInv, ChainTypes, PipelineTypes, MarketReports, SeedsV2Only, RatesMatchDb
    <2>3. CASE msTouched = {}
      <3>1. EndBlock
        BY <1>8, <2>3 DEF MsApply
      <3>2. \A p \in Pools : db'[p] = db[p]
        BY <2>1, <2>3 DEF RatesInv, MarketReports
      <3> QED BY <2>1, <3>1, <3>2, EndBlockFacts
              DEF RatesInv, ChainTypes, PipelineTypes, MarketReports, SeedsV2Only,
                  RatesMatchDb, EventPending, SeedPending, Seeding
    <2> QED BY <2>2, <2>3
  <1>9. CASE MsSend
    <2> DEFINE ev == [block |-> msBlock, pools |-> msTouched]
    <2>1. /\ msPc = "send" /\ SendPools(ev) /\ EndBlock
          /\ UNCHANGED <<blockQ, chain, rpcHead, db, rates, seedVals, srPc>>
      BY <1>9 DEF MsSend
    <2>2. ev \in Events /\ ev.pools = msTouched
      BY DEF RatesInv, PipelineTypes, Events
    <2> HIDE DEF ev
    <2>3. ASSUME NEW p \in Pools
          PROVE  (rates[p] = RateOf(p, db[p]) \/ EventPending(p) \/ SeedPending(p))'
      <3>1. rates[p] = RateOf(p, db[p]) \/ EventPending(p) \/ SeedPending(p)
        BY DEF RatesInv, RatesMatchDb
      <3>2. EventPending(p) => EventPending(p)'
        BY <2>1, <2>2, SendFacts DEF EventPending
      <3> QED BY <2>1, <3>1, <3>2 DEF SeedPending, Seeding
    <2>4. poolsQ' \in Seq(Events)
      BY <2>1, <2>2, SendFacts
    <2> QED BY <2>1, <2>3, <2>4, EndBlockFacts
            DEF RatesInv, ChainTypes, PipelineTypes, MarketReports, SeedsV2Only, RatesMatchDb
  <1> QED BY <1>1, <1>2, <1>3, <1>4, <1>5, <1>6, <1>7, <1>8, <1>9 DEF MsStep

\* Every step of the searcher preserves the invariant.
LEMMA SearcherKeepsRates ==
    ASSUME RatesInv, SrStep, UNCHANGED msVars
    PROVE  RatesInv'
  <1> USE DEF msVars, msWork, broadcast, shared
  <1>1. CASE SeedV3
    <2>1. /\ UNCHANGED <<chain, rpcHead, db, poolsQ, seedVals>>
          /\ rates' = RatesAfter(V3Pools \cup ExoticPools) /\ srPc' = "seedFetch"
      BY <1>1 DEF SeedV3
    <2>2. /\ rates' \in [Pools -> Nat]
          /\ \A p \in Pools \ V2Pools : rates'[p] = RateOf(p, db[p])
      BY <2>1, RatesAfterFacts, SharedAssumption DEF V2Pools
    <2>3. RatesMatchDb'
      BY <2>1, <2>2 DEF RatesMatchDb, SeedPending, Seeding
    <2> QED BY <2>1, <2>2, <2>3
            DEF RatesInv, ChainTypes, PipelineTypes, MarketReports, SeedsV2Only
  <1>2. CASE SeedFetch
    <2>1. /\ UNCHANGED <<chain, rpcHead, db, poolsQ, rates>>
          /\ srPc = "seedFetch" /\ srPc' = "seedWrite"
      BY <1>2 DEF SeedFetch
    <2>2. Latest \in States
      <3>1. chain[rpcHead] \in BlockRecords
        BY DEF RatesInv, ChainTypes
      <3> QED BY <3>1 DEF Latest, BlockRecords
    <2>3. seedVals' \in Storage /\ \A p \in Pools : seedVals'[p] # 0 => p \in V2Pools
      BY <1>2, <2>2, SharedAssumption DEF SeedFetch, Storage, States
    <2>4. RatesMatchDb'
      BY <2>1 DEF RatesInv, RatesMatchDb, EventPending, SeedPending, Seeding
    <2> QED BY <2>1, <2>3, <2>4
            DEF RatesInv, ChainTypes, PipelineTypes, MarketReports, SeedsV2Only
  <1>3. CASE SeedWrite
    <2>1. /\ UNCHANGED <<chain, rpcHead, poolsQ, rates>>
          /\ srPc = "seedWrite" /\ srPc' = "seedRates"
          /\ seedVals' = [p \in Pools |-> 0]
          /\ db' = [p \in Pools |-> IF seedVals[p] # 0 THEN seedVals[p] ELSE db[p]]
      BY <1>3 DEF SeedWrite, UpdateSlots
    <2>2. db' \in Storage /\ seedVals' \in Storage
      BY <2>1 DEF RatesInv, PipelineTypes, Storage
    <2>3. \A p \in Pools \ V2Pools : db'[p] = db[p]
      BY <2>1 DEF RatesInv, SeedsV2Only
    <2>4. RatesMatchDb'
      BY <2>1, <2>3 DEF RatesInv, RatesMatchDb, EventPending, SeedPending, Seeding
    <2> QED BY <2>1, <2>2, <2>4
            DEF RatesInv, ChainTypes, PipelineTypes, MarketReports, SeedsV2Only
  <1>4. CASE SeedRates
    <2>1. /\ UNCHANGED <<chain, rpcHead, db, poolsQ, seedVals>>
          /\ srPc = "seedRates" /\ srPc' = "recv"
          /\ rates' = RatesAfter(V2Pools)
      BY <1>4 DEF SeedRates
    <2>2. /\ rates' \in [Pools -> Nat]
          /\ \A p \in Pools : rates'[p] = IF p \in V2Pools THEN RateOf(p, db[p]) ELSE rates[p]
      BY <2>1, RatesAfterFacts DEF V2Pools
    <2>3. RatesMatchDb'
      BY <2>1, <2>2 DEF RatesInv, RatesMatchDb, EventPending, SeedPending, Seeding
    <2> QED BY <2>1, <2>2, <2>3
            DEF RatesInv, ChainTypes, PipelineTypes, MarketReports, SeedsV2Only
  <1>5. CASE SrRecv \/ SrPreDrain \/ SrPostDrain
    BY <1>5, AbsorbFacts DEF SrRecv, SrPreDrain, SrPostDrain, Seeding
  <1>6. CASE SrSelect \/ SrEvaluate \/ SrCarryForward \/ SrKeepResults \/ SrEmit \/ SrEmitDone
    <2>1. /\ UNCHANGED <<chain, rpcHead, db, poolsQ, rates, seedVals>>
          /\ ~Seeding
      BY <1>6 DEF SrSelect, SrEvaluate, SrCarryForward, SrKeepResults, SrEmit, SrEmitDone,
                  Seeding
    <2>2. RatesMatchDb'
      BY <2>1 DEF RatesInv, RatesMatchDb, EventPending, SeedPending, Seeding
    <2> QED BY <2>1, <2>2
            DEF RatesInv, ChainTypes, PipelineTypes, MarketReports, SeedsV2Only
  <1> QED BY <1>1, <1>2, <1>3, <1>4, <1>5, <1>6 DEF SrStep

\* Every step of the composition that does not replay preserves the invariant.
LEMMA StepKeepsRates ==
    ASSUME msEnd' = 0, RatesInv, [Next]_vars
    PROVE  RatesInv'
  <1>1. CASE World
    <2>1. ChainTypes'
      <3>1. CASE Mine
        <4>1. PICK ts \in SUBSET (Pools \ ExoticPools), s \in States :
                chain' = Append(chain, [touched |-> ts, state |-> s])
          BY <3>1 DEF Mine
        <4>2. [touched |-> ts, state |-> s] \in BlockRecords
          BY DEF BlockRecords
        <4>3. chain' \in Seq(BlockRecords) /\ Len(chain') = Len(chain) + 1 /\ Len(chain) \in Nat
          BY <4>1, <4>2 DEF RatesInv, ChainTypes
        <4> QED BY <3>1, <4>3 DEF Mine, RatesInv, ChainTypes
      <3>2. CASE RpcSync
        BY <3>2 DEF RpcSync, RatesInv, ChainTypes
      <3> QED BY <1>1, <3>1, <3>2 DEF World
    <2>2. UNCHANGED <<db, poolsQ, rates, blockQ, msPc, msBlock, msVals, msTouched, msCatchUp,
                      seedVals, srPc>>
      BY <1>1 DEF World, Mine, RpcSync, msVars, srVars, msWork, broadcast
    <2> QED BY <2>1, <2>2
            DEF RatesInv, PipelineTypes, MarketReports, SeedsV2Only, RatesMatchDb,
                EventPending, SeedPending, Seeding
  <1>2. CASE BlockStream
    <2>1. PICK n \in 2 .. MaxBlock : Announce(n)
      BY <1>2 DEF BlockStream
    <2>2. blockQ' \in Seq(Nat)
      <3>1. n \in Nat /\ blockQ \in Seq(Nat)
        BY SharedAssumption DEF RatesInv, PipelineTypes
      <3>2. CASE Len(blockQ) < BroadcastCap
        BY <2>1, <3>1, <3>2 DEF Announce
      <3>3. CASE ~(Len(blockQ) < BroadcastCap)
        <4>1. blockQ # << >>
          BY <3>3, MarketAssumption
        <4>2. Tail(blockQ) \in Seq(Nat)
          BY <3>1, <4>1
        <4> QED BY <2>1, <3>1, <3>3, <4>2 DEF Announce
      <3> QED BY <3>2, <3>3
    <2>3. UNCHANGED <<chain, rpcHead, db, poolsQ, rates, msPc, msBlock, msVals, msTouched,
                      msCatchUp, seedVals, srPc>>
      BY <1>2, <2>1 DEF BlockStream, Announce, shared, srVars, msWork
    <2> QED BY <2>2, <2>3
            DEF RatesInv, ChainTypes, PipelineTypes, MarketReports, SeedsV2Only, RatesMatchDb,
                EventPending, SeedPending, Seeding
  <1>3. CASE MarketStateWorker
    BY <1>3, MarketKeepsRates DEF MarketStateWorker
  <1>4. CASE SearcherWorker
    BY <1>4, SearcherKeepsRates DEF SearcherWorker
  <1>5. CASE Simulators
    BY <1>5, RatesInvFrame DEF Simulators, TakeArb, shared, msVars, msWork, broadcast
  <1>6. CASE MempoolTouch
    <2>1. PICK ps \in (SUBSET Pools) \ {{}} : SendPools([block |-> 0, pools |-> ps])
      BY <1>6 DEF MempoolTouch
    <2> DEFINE ev == [block |-> 0, pools |-> ps]
    <2>2. ev \in Events
      BY DEF Events
    <2>3. UNCHANGED <<chain, rpcHead, db, rates, blockQ, msPc, msBlock, msVals, msTouched,
                      msCatchUp, seedVals, srPc>>
      BY <1>6 DEF MempoolTouch, msVars, msWork, broadcast, srVars
    <2> HIDE DEF ev
    <2>4. poolsQ' \in Seq(Events) /\ \A p \in Pools : EventPending(p) => EventPending(p)'
      BY <2>1, <2>2, <2>3, SendFacts DEF ev, EventPending
    <2>5. RatesMatchDb'
      BY <2>3, <2>4 DEF RatesInv, RatesMatchDb, SeedPending, Seeding
    <2> QED BY <2>3, <2>4, <2>5
            DEF RatesInv, ChainTypes, PipelineTypes, MarketReports, SeedsV2Only
  <1>7. CASE Resting \/ UNCHANGED vars
    BY <1>7, RatesInvFrame DEF Resting, vars, shared, msVars, msWork, broadcast, srVars
  <1> QED BY <1>1, <1>2, <1>3, <1>4, <1>5, <1>6, <1>7 DEF Next

\* A replay is not forgotten: only its beginning sets its last block.
LEMMA ReplayIsFinal ==
    ASSUME [Next]_vars, msEnd' = 0
    PROVE  msEnd = 0
  <1> USE DEF msVars, msWork
  <1>1. CASE MarketStateWorker
    <2>1. CASE MsCatchUp
      BY <1>1, <2>1, MarketAssumption DEF MsCatchUp
    <2>2. CASE ~MsCatchUp
      BY <1>1, <2>2
         DEF MarketStateWorker, MsStep, MsNoCatchUp, MsLagged, MsRecv, MsGetLogs,
             MsGetLogsFail, MsFetch, MsApply, MsSend, EndBlock
    <2> QED BY <2>1, <2>2
  <1>2. CASE BlockStream
    BY <1>2 DEF BlockStream, Announce
  <1>3. CASE World \/ SearcherWorker \/ Simulators \/ MempoolTouch \/ Resting \/ UNCHANGED vars
    BY <1>3 DEF World, SearcherWorker, Simulators, MempoolTouch, Resting, vars
  <1> QED BY <1>1, <1>2, <1>3 DEF Next

\* For every instance and every interleaving of MarketState, the searcher (its
\* seeding included), mempool events, failed requests and lags, and as long as
\* no catch-up ran: a rate of the searcher is the one its pool's storage in
\* the BlockStateDB gives, or a PoolsTouched event for that pool is pending.
THEOREM RatesFollow == Spec => []RatesFollowDb
  <1> DEFINE Inv == ~Replayed => RatesInv
  <1>1. Init => Inv
    BY InitRates
  <1>2. Inv /\ [Next]_vars => Inv'
    BY ReplayIsFinal, StepKeepsRates DEF Replayed
  <1>3. Inv => RatesFollowDb
    BY DEF RatesInv, RatesFollowDb
  <1> QED BY <1>1, <1>2, <1>3, PTL DEF Spec

-----------------------------------------------------------------------------
(* Block numbers *)

OnChain == 0 .. Len(chain)
EventsOnChain == [block : OnChain, pools : SUBSET Pools]

\* Every block number that MarketState holds or sends is one of the chain.
MarketOnChain ==
    /\ ChainTypes
    /\ blockQ \in Seq(OnChain)
    /\ msBlock \in OnChain /\ msEnd \in OnChain
    /\ msTouched \in SUBSET Pools
    /\ poolsQ \in Seq(EventsOnChain)

\* The searcher's are at most the one after it, and what it is about to
\* evaluate is published.
SearcherOnChain ==
    /\ latestBlock \in OnChain
    /\ {finalBlock, sharedLatest} \subseteq 0 .. Len(chain) + 1
    /\ srPc = "eval" => finalBlock <= sharedLatest

\* The offers under way, queued or about to be, are for published blocks.
OffersPublished ==
    \E S : /\ arbQ \in Seq(S) /\ results \subseteq S
           /\ \A r \in S : r.block \in 0 .. sharedLatest

BlocksInv == MarketOnChain /\ SearcherOnChain /\ OffersPublished

LEMMA InitBlocks == Init => BlocksInv
  <1> SUFFICES ASSUME Init PROVE BlocksInv
    OBVIOUS
  <1>1. ChainTypes /\ Len(chain) = 1
    BY DEF Init, SharedInit, ChainTypes, BlockRecords
  <1>2. MarketOnChain
    BY <1>1 DEF Init, SharedInit, MarketInit, MarketOnChain, OnChain
  <1>3. SearcherOnChain
    BY <1>1 DEF Init, SearcherInit, SearcherOnChain, OnChain
  <1>4. OffersPublished
    <2>1. arbQ = << >> /\ results = {}
      BY DEF Init, SearcherInit
    <2>2. arbQ \in Seq({}) /\ results \subseteq {}
      BY <2>1
    <2> QED
      BY <2>2 DEF OffersPublished
  <1> QED
    BY <1>2, <1>3, <1>4 DEF BlocksInv

LEMMA OffersFrame ==
    ASSUME OffersPublished, UNCHANGED <<arbQ, results, sharedLatest>>
    PROVE  OffersPublished'
  BY DEF OffersPublished

\* A longer chain.
LEMMA ChainKeepsBlocks ==
    ASSUME BlocksInv, World
    PROVE  BlocksInv'
  <1>1. UNCHANGED <<blockQ, msBlock, msEnd, msTouched, poolsQ, latestBlock, finalBlock,
                    sharedLatest, srPc, arbQ, results>>
    BY DEF World, Mine, RpcSync, msVars, srVars, msWork, broadcast
  <1>2. Len(chain) \in Nat /\ rpcHead \in 1 .. Len(chain)
    BY DEF BlocksInv, MarketOnChain, ChainTypes
  <1>3. ChainTypes' /\ Len(chain') \in Nat /\ Len(chain) <= Len(chain')
    <2>1. CASE Mine
      <3>1. PICK ts \in SUBSET (Pools \ ExoticPools), s \in States :
              chain' = Append(chain, [touched |-> ts, state |-> s])
        BY <2>1 DEF Mine
      <3>2. [touched |-> ts, state |-> s] \in BlockRecords
        BY DEF BlockRecords
      <3>3. chain' \in Seq(BlockRecords) /\ Len(chain') = Len(chain) + 1
        BY <3>1, <3>2 DEF BlocksInv, MarketOnChain, ChainTypes
      <3> QED
        BY <1>2, <2>1, <3>3 DEF Mine, ChainTypes
    <2>2. CASE RpcSync
      BY <1>2, <2>2 DEF RpcSync, BlocksInv, MarketOnChain, ChainTypes
    <2> QED
      BY <2>1, <2>2 DEF World
  <1>4. OnChain \subseteq OnChain'
    BY <1>2, <1>3 DEF OnChain
  <1>5. EventsOnChain \subseteq EventsOnChain'
    BY <1>4 DEF EventsOnChain
  <1>6. MarketOnChain'
    <2>1. poolsQ' \in Seq(EventsOnChain)' /\ blockQ' \in Seq(OnChain)'
      BY <1>1, <1>4, <1>5 DEF BlocksInv, MarketOnChain
    <2> QED
      BY <1>1, <1>3, <1>4, <2>1 DEF BlocksInv, MarketOnChain
  <1>7. SearcherOnChain'
    BY <1>1, <1>2, <1>3, <1>4 DEF BlocksInv, SearcherOnChain
  <1> QED
    BY <1>1, <1>6, <1>7, OffersFrame DEF BlocksInv

LEMMA EventJoins ==
    ASSUME MarketOnChain, NEW ev \in EventsOnChain, SendPools(ev)
    PROVE  poolsQ' \in Seq(EventsOnChain)
  BY DEF MarketOnChain, SendPools

\* MarketState takes its blocks from the broadcast channel or from the range
\* that the RPC node has, and names them in its events.
LEMMA MarketKeepsBlocks ==
    ASSUME BlocksInv, MsStep, UNCHANGED srVars
    PROVE  BlocksInv'
  <1>1. MarketOnChain /\ Len(chain) \in Nat /\ rpcHead \in 1 .. Len(chain)
    BY DEF BlocksInv, MarketOnChain, ChainTypes
  <1>2. UNCHANGED <<chain, rpcHead, latestBlock, finalBlock, sharedLatest, srPc, arbQ, results>>
    BY DEF MsStep, MsCatchUp, MsNoCatchUp, MsLagged, MsRecv, MsGetLogs, MsGetLogsFail, MsFetch,
           MsApply, MsSend, srVars, shared
  <1>3. SearcherOnChain' /\ OffersPublished' /\ ChainTypes'
    BY <1>1, <1>2, OffersFrame
       DEF BlocksInv, SearcherOnChain, MarketOnChain, ChainTypes, OnChain
  <1>k. ASSUME blockQ' \in Seq(OnChain), msBlock' \in OnChain, msEnd' \in OnChain,
               msTouched' \in SUBSET Pools, poolsQ' \in Seq(EventsOnChain)
        PROVE  BlocksInv'
    BY <1>2, <1>3, <1>k DEF BlocksInv, MarketOnChain, OnChain, EventsOnChain
  <1>e. EndBlock => msBlock' \in OnChain /\ msEnd' \in OnChain /\ msTouched' = {}
    BY <1>1 DEF EndBlock, MarketOnChain, OnChain
  <1>4. CASE MsCatchUp
    <2>1. msBlock' = LastSynced + 1 /\ msEnd' = rpcHead /\ LastSynced < rpcHead
          /\ UNCHANGED <<blockQ, poolsQ, msTouched>>
      BY <1>4 DEF MsCatchUp, TraceBlock, shared, broadcast
    <2>2. msBlock' \in OnChain /\ msEnd' \in OnChain
      BY <1>1, <2>1, MarketAssumption DEF OnChain
    <2> QED
      BY <1>1, <1>k, <2>1, <2>2 DEF MarketOnChain
  <1>5. CASE MsRecv
    <2>1. /\ blockQ # << >> /\ blockQ' = Tail(blockQ) /\ msBlock' = Head(blockQ)
          /\ UNCHANGED <<msEnd, poolsQ, msTouched>>
      BY <1>5 DEF MsRecv, TraceBlock, shared
    <2>2. blockQ' \in Seq(OnChain) /\ msBlock' \in OnChain
      BY <1>1, <2>1 DEF MarketOnChain
    <2> QED
      BY <1>1, <1>k, <2>1, <2>2 DEF MarketOnChain
  <1>6. CASE MsSend
    <2>1. SendPools([block |-> msBlock, pools |-> msTouched]) /\ EndBlock /\ blockQ' = blockQ
      BY <1>6 DEF MsSend, broadcast
    <2> QED
      BY <1>1, <1>k, <1>e, <2>1, EventJoins DEF MarketOnChain, EventsOnChain
  <1>7. CASE MsNoCatchUp \/ MsLagged \/ MsGetLogs \/ MsGetLogsFail \/ (\E p \in Pools : MsFetch(p))
               \/ MsApply
    <2>1. UNCHANGED <<blockQ, poolsQ>>
      BY <1>7 DEF MsNoCatchUp, MsLagged, MsGetLogs, MsGetLogsFail, MsFetch, MsApply, shared,
                  broadcast
    <2>2. EndBlock \/ (UNCHANGED <<msBlock, msEnd>> /\ msTouched' \in SUBSET Pools)
      <3>1. msTouched \in SUBSET Pools
        BY <1>1 DEF MarketOnChain
      <3>2. CASE MsNoCatchUp \/ MsLagged \/ MsApply
        BY <3>1, <3>2 DEF MsNoCatchUp, MsLagged, MsApply, msWork
      <3>3. CASE MsGetLogs \/ MsGetLogsFail
        BY <3>1, <3>3 DEF MsGetLogs, MsGetLogsFail
      <3>4. ASSUME NEW p \in Pools, MsFetch(p)
            PROVE  UNCHANGED <<msBlock, msEnd>> /\ msTouched' \in SUBSET Pools
        BY <3>1, <3>4 DEF MsFetch
      <3> QED
        BY <1>7, <3>2, <3>3, <3>4
    <2> QED
      BY <1>1, <1>k, <1>e, <2>1, <2>2 DEF MarketOnChain
  <1> QED
    BY <1>4, <1>5, <1>6, <1>7 DEF MsStep

\* An event is taken up: its block is one of the chain, or the one after the
\* latest block for a mempool event.
LEMMA AbsorbBlocks ==
    ASSUME BlocksInv, Absorb
    PROVE  /\ poolsQ' \in Seq(EventsOnChain)
           /\ latestBlock' \in OnChain
           /\ BlockOf(Head(poolsQ)) \in 0 .. Len(chain) + 1
           /\ UNCHANGED <<chain, rpcHead, arbQ, results, sharedLatest>>
  <1>1. Len(chain) \in Nat /\ latestBlock \in OnChain /\ poolsQ \in Seq(EventsOnChain)
    BY DEF BlocksInv, MarketOnChain, SearcherOnChain, ChainTypes
  <1>2. /\ poolsQ # << >> /\ poolsQ' = Tail(poolsQ)
        /\ latestBlock' = IF Head(poolsQ).block = 0 THEN latestBlock
                            ELSE Larger(latestBlock, Head(poolsQ).block)
        /\ UNCHANGED <<chain, rpcHead, arbQ, results, sharedLatest>>
    BY DEF Absorb
  <1>3. Head(poolsQ) \in EventsOnChain /\ poolsQ' \in Seq(EventsOnChain)
    BY <1>1, <1>2
  <1>4. Head(poolsQ).block \in OnChain
    BY <1>3 DEF EventsOnChain
  <1>5. latestBlock' \in OnChain
    BY <1>1, <1>2, <1>4 DEF Larger
  <1>6. BlockOf(Head(poolsQ)) \in 0 .. Len(chain) + 1
    BY <1>1, <1>4 DEF BlockOf, OnChain
  <1> QED
    BY <1>2, <1>3, <1>5, <1>6

\* The searcher publishes before it evaluates, and what it evaluates is for the
\* block it published.
LEMMA SearcherKeepsBlocks ==
    ASSUME BlocksInv, SrStep, UNCHANGED msVars
    PROVE  BlocksInv'
  <1>1. /\ MarketOnChain /\ SearcherOnChain /\ OffersPublished
        /\ Len(chain) \in Nat
        /\ finalBlock \in 0 .. Len(chain) + 1 /\ sharedLatest \in 0 .. Len(chain) + 1
    BY DEF BlocksInv, MarketOnChain, SearcherOnChain, ChainTypes
  <1>2. UNCHANGED <<blockQ, msBlock, msEnd, msTouched>>
    BY DEF msVars, broadcast, msWork
  <1>m. ASSUME UNCHANGED <<chain, rpcHead>>, poolsQ' \in Seq(EventsOnChain)
        PROVE  MarketOnChain'
    BY <1>1, <1>2, <1>m DEF MarketOnChain, ChainTypes, OnChain, EventsOnChain
  <1>p. UNCHANGED poolsQ => poolsQ' \in Seq(EventsOnChain)
    BY <1>1 DEF MarketOnChain
  <1>3. CASE SeedV3 \/ SeedFetch \/ SeedWrite \/ SeedRates
    <2>1. /\ UNCHANGED <<chain, rpcHead, poolsQ, latestBlock, finalBlock, sharedLatest, arbQ,
                         results>>
          /\ srPc' # "eval"
      BY <1>3 DEF SeedV3, SeedFetch, SeedWrite, SeedRates, shared
    <2>2. SearcherOnChain'
      BY <1>1, <2>1 DEF SearcherOnChain, OnChain
    <2> QED
      BY <1>1, <1>m, <1>p, <2>1, <2>2, OffersFrame DEF BlocksInv
  <1>4. CASE SrRecv \/ SrPreDrain \/ SrPostDrain
    <2>1. /\ Absorb /\ srPc' # "eval"
          /\ \/ finalBlock' = BlockOf(Head(poolsQ))
             \/ finalBlock' = Larger(finalBlock, BlockOf(Head(poolsQ)))
      BY <1>4 DEF SrRecv, SrPreDrain, SrPostDrain
    <2>2. /\ poolsQ' \in Seq(EventsOnChain) /\ latestBlock' \in OnChain
          /\ BlockOf(Head(poolsQ)) \in 0 .. Len(chain) + 1
          /\ UNCHANGED <<chain, rpcHead, arbQ, results, sharedLatest>>
      BY <2>1, AbsorbBlocks
    <2>3. finalBlock' \in 0 .. Len(chain) + 1
      BY <1>1, <2>1, <2>2 DEF Larger
    <2>4. SearcherOnChain'
      BY <1>1, <2>1, <2>2, <2>3 DEF SearcherOnChain, OnChain
    <2> QED
      BY <1>1, <1>m, <2>2, <2>4, OffersFrame DEF BlocksInv
  <1>5. CASE SrSelect
    <2>1. /\ sharedLatest' = Larger(sharedLatest, finalBlock)
          /\ UNCHANGED <<chain, rpcHead, poolsQ, latestBlock, finalBlock, arbQ, results>>
      BY <1>5 DEF SrSelect, shared
    <2>2. /\ sharedLatest' \in 0 .. Len(chain) + 1
          /\ sharedLatest <= sharedLatest' /\ finalBlock <= sharedLatest'
      BY <1>1, <2>1 DEF Larger
    <2>3. SearcherOnChain'
      BY <1>1, <2>1, <2>2 DEF SearcherOnChain, OnChain
    <2>4. OffersPublished'
      <3>1. PICK S : /\ arbQ \in Seq(S) /\ results \subseteq S
                     /\ \A r \in S : r.block \in 0 .. sharedLatest
        BY <1>1 DEF OffersPublished
      <3>2. \A r \in S : r.block \in 0 .. sharedLatest'
        BY <1>1, <2>2, <3>1
      <3> QED
        BY <2>1, <3>1, <3>2 DEF OffersPublished
    <2> QED
      BY <1>m, <1>p, <2>1, <2>3, <2>4 DEF BlocksInv
  <1>6. CASE SrEvaluate
    <2>1. /\ srPc = "eval" /\ srPc' = "post"
          /\ UNCHANGED <<chain, rpcHead, poolsQ, latestBlock, finalBlock, sharedLatest, arbQ>>
          /\ \A r \in results' : r.block = finalBlock
      BY <1>6 DEF SrEvaluate, shared
    <2>2. finalBlock \in 0 .. sharedLatest
      BY <1>1, <2>1 DEF SearcherOnChain
    <2>3. SearcherOnChain'
      BY <1>1, <2>1 DEF SearcherOnChain, OnChain
    <2>4. OffersPublished'
      <3>1. PICK S : arbQ \in Seq(S) /\ \A r \in S : r.block \in 0 .. sharedLatest
        BY <1>1 DEF OffersPublished
      <3> DEFINE T == S \cup results'
      <3>2. arbQ' \in Seq(T) /\ results' \subseteq T
        BY <2>1, <3>1
      <3>3. \A r \in T : r.block \in 0 .. sharedLatest'
        BY <2>1, <2>2, <3>1
      <3> QED
        BY <3>2, <3>3 DEF OffersPublished
    <2> QED
      BY <1>m, <1>p, <2>1, <2>3, <2>4 DEF BlocksInv
  <1>7. CASE SrCarryForward \/ SrKeepResults \/ SrEmit \/ SrEmitDone
    <2>1. /\ UNCHANGED <<chain, rpcHead, poolsQ, latestBlock, finalBlock, sharedLatest>>
          /\ srPc' # "eval"
          /\ results' \subseteq results
          /\ arbQ' = arbQ \/ \E r \in results : arbQ' = Append(arbQ, r)
      BY <1>7 DEF SrCarryForward, SrKeepResults, SrEmit, SrEmitDone, shared
    <2>2. SearcherOnChain'
      BY <1>1, <2>1 DEF SearcherOnChain, OnChain
    <2>3. OffersPublished'
      <3>1. PICK S : /\ arbQ \in Seq(S) /\ results \subseteq S
                     /\ \A r \in S : r.block \in 0 .. sharedLatest
        BY <1>1 DEF OffersPublished
      <3>2. arbQ' \in Seq(S) /\ results' \subseteq S
        BY <2>1, <3>1
      <3> QED
        BY <2>1, <3>1, <3>2 DEF OffersPublished
    <2> QED
      BY <1>m, <1>p, <2>1, <2>2, <2>3 DEF BlocksInv
  <1> QED
    BY <1>3, <1>4, <1>5, <1>6, <1>7 DEF SrStep

LEMMA StepKeepsBlocks == BlocksInv /\ [Next]_vars => BlocksInv'
  <1> SUFFICES ASSUME BlocksInv, [Next]_vars PROVE BlocksInv'
    OBVIOUS
  <1>0. /\ MarketOnChain /\ SearcherOnChain /\ OffersPublished
        /\ Len(chain) \in Nat
    BY DEF BlocksInv, MarketOnChain, ChainTypes
  <1>1. CASE World
    BY <1>1, ChainKeepsBlocks
  <1>2. CASE BlockStream
    <2>1. PICK n \in 2 .. MaxBlock : Announce(n)
      BY <1>2 DEF BlockStream
    <2>2. /\ n \in OnChain
          /\ \/ blockQ' = Append(blockQ, n)
             \/ blockQ' = Append(Tail(blockQ), n) /\ ~(Len(blockQ) < BroadcastCap)
          /\ UNCHANGED <<chain, rpcHead, poolsQ, msBlock, msEnd, msTouched>>
      <3>1. n \in OnChain
        BY <1>0, <2>1 DEF Announce, OnChain
      <3> QED
        BY <2>1, <3>1 DEF Announce, shared, msWork
    <2>3. blockQ' \in Seq(OnChain)
      <3>1. blockQ \in Seq(OnChain)
        BY <1>0 DEF MarketOnChain
      <3>2. CASE blockQ' = Append(Tail(blockQ), n) /\ ~(Len(blockQ) < BroadcastCap)
        <4>1. blockQ # << >>
          BY <3>2, MarketAssumption
        <4>2. Tail(blockQ) \in Seq(OnChain)
          BY <3>1, <4>1
        <4> QED
          BY <2>2, <3>2, <4>2
      <3> QED
        BY <2>2, <3>1, <3>2
    <2>4. MarketOnChain'
      BY <1>0, <2>2, <2>3 DEF MarketOnChain, ChainTypes, OnChain, EventsOnChain
    <2>5. UNCHANGED <<chain, latestBlock, finalBlock, sharedLatest, srPc, arbQ, results>>
      BY <1>2, <2>2 DEF BlockStream, srVars
    <2>6. SearcherOnChain'
      BY <1>0, <2>5 DEF SearcherOnChain, OnChain
    <2> QED
      BY <1>0, <2>4, <2>5, <2>6, OffersFrame DEF BlocksInv
  <1>3. CASE MarketStateWorker
    BY <1>3, MarketKeepsBlocks DEF MarketStateWorker
  <1>4. CASE SearcherWorker
    BY <1>4, SearcherKeepsBlocks DEF SearcherWorker
  <1>5. CASE Simulators
    <2>1. /\ arbQ # << >> /\ arbQ' = Tail(arbQ)
          /\ UNCHANGED <<chain, rpcHead, poolsQ, blockQ, msBlock, msEnd, msTouched, latestBlock,
                         finalBlock, sharedLatest, srPc, results>>
      BY <1>5 DEF Simulators, TakeArb, shared, msVars, msWork, broadcast
    <2>2. MarketOnChain' /\ SearcherOnChain'
      BY <1>0, <2>1 DEF MarketOnChain, SearcherOnChain, ChainTypes, OnChain, EventsOnChain
    <2>3. OffersPublished'
      <3>1. PICK S : /\ arbQ \in Seq(S) /\ results \subseteq S
                     /\ \A r \in S : r.block \in 0 .. sharedLatest
        BY <1>0 DEF OffersPublished
      <3>2. arbQ' \in Seq(S)
        BY <2>1, <3>1
      <3> QED
        BY <2>1, <3>1, <3>2 DEF OffersPublished
    <2> QED
      BY <2>2, <2>3 DEF BlocksInv
  <1>6. CASE MempoolTouch
    <2>1. PICK ps \in (SUBSET Pools) \ {{}} : SendPools([block |-> 0, pools |-> ps])
      BY <1>6 DEF MempoolTouch
    <2>2. UNCHANGED <<chain, rpcHead, blockQ, msBlock, msEnd, msTouched, latestBlock, finalBlock,
                      sharedLatest, srPc, arbQ, results>>
      BY <1>6 DEF MempoolTouch, msVars, msWork, broadcast, srVars
    <2>3. poolsQ' \in Seq(EventsOnChain)
      <3>1. [block |-> 0, pools |-> ps] \in EventsOnChain
        BY <1>0 DEF EventsOnChain, OnChain
      <3> QED
        BY <1>0, <2>1, <3>1, EventJoins
    <2>4. MarketOnChain' /\ SearcherOnChain'
      BY <1>0, <2>2, <2>3 DEF MarketOnChain, SearcherOnChain, ChainTypes, OnChain, EventsOnChain
    <2> QED
      BY <1>0, <2>2, <2>4, OffersFrame DEF BlocksInv
  <1>7. CASE Resting \/ UNCHANGED vars
    <2>1. UNCHANGED <<chain, rpcHead, poolsQ, blockQ, msBlock, msEnd, msTouched, latestBlock,
                      finalBlock, sharedLatest, srPc, arbQ, results>>
      BY <1>7 DEF Resting, vars, shared, msVars, msWork, broadcast, srVars
    <2>2. MarketOnChain' /\ SearcherOnChain'
      BY <1>0, <2>1 DEF MarketOnChain, SearcherOnChain, ChainTypes, OnChain, EventsOnChain
    <2> QED
      BY <1>0, <2>1, <2>2, OffersFrame DEF BlocksInv
  <1> QED
    BY <1>1, <1>2, <1>3, <1>4, <1>5, <1>6, <1>7 DEF Next

\* For every instance, catch-up included: the searcher's current block is one
\* of the chain, and what it evaluates for and publishes is at most the block
\* after it, which it predicts for mempool events.
THEOREM NoBlockFromTheFuture == Spec => []NeverAheadOfChain
  <1>1. BlocksInv => NeverAheadOfChain
    BY DEF BlocksInv, MarketOnChain, ChainTypes, SearcherOnChain, OnChain, NeverAheadOfChain
  <1> QED
    BY <1>1, InitBlocks, StepKeepsBlocks, PTL DEF Spec

\* No path reaches the simulators, or waits to, for a block that the searcher
\* has not published: no carry-forward or drain gets between the two.
THEOREM OffersArePublished == Spec => []PublishedFirst
  <1>1. BlocksInv => PublishedFirst
    <2> SUFFICES ASSUME BlocksInv PROVE PublishedFirst
      OBVIOUS
    <2>1. PICK S : /\ arbQ \in Seq(S) /\ results \subseteq S
                   /\ \A r \in S : r.block \in 0 .. sharedLatest
      BY DEF BlocksInv, OffersPublished
    <2>2. \A i \in DOMAIN arbQ : arbQ[i] \in S
      BY <2>1
    <2> QED
      BY <2>1, <2>2 DEF PublishedFirst
  <1> QED
    BY <1>1, InitBlocks, StepKeepsBlocks, PTL DEF Spec

-----------------------------------------------------------------------------
(* Blocks in order *)

\* MarketState works on a block that it will report.
Busy == msPc = "send" \/ (~msCatchUp /\ msPc \in {"logs", "fetch"})

\* Block n comes before all that is on its way to the searcher.
Behind(n) ==
    /\ \A i \in DOMAIN poolsQ : n < poolsQ[i].block
    /\ Busy => n < msBlock
    /\ \A i \in DOMAIN blockQ : n < blockQ[i]

\* What was announced is a beginning of the chain; of it, the queued events,
\* the block at hand and the queued blocks follow each other in order.
InSequence ==
    /\ announced \subseteq Nat \ {0, 1}
    /\ \A n \in announced : \A m \in 2 .. n : m \in announced
    /\ blockQ \in Seq(announced)
    /\ \A i, j \in DOMAIN blockQ : i < j => blockQ[i] < blockQ[j]
    /\ Busy => /\ msBlock \in announced
               /\ \A i \in DOMAIN blockQ : msBlock < blockQ[i]
               /\ \A i \in DOMAIN poolsQ : poolsQ[i].block < msBlock
    /\ poolsQ \in Seq([block : announced, pools : SUBSET Pools])
    /\ \A i, j \in DOMAIN poolsQ : i < j => poolsQ[i].block < poolsQ[j].block
    /\ \A i \in DOMAIN poolsQ, j \in DOMAIN blockQ : poolsQ[i].block < blockQ[j]
    /\ msTouched \in SUBSET Pools
    /\ mempoolSeen = 0

\* The searcher's blocks come before what is on its way to it.
SearcherBehind ==
    /\ {finalBlock, latestBlock} \subseteq announced \cup {0}
    /\ Behind(finalBlock) /\ Behind(latestBlock)
    /\ Seeding => finalBlock = 0
    /\ srPc \in {"drain", "eval", "post"} => finalBlock # 0
    /\ srPc = "post" => preFinal \in 0 .. finalBlock

\* A cache entry for the searcher's block has the rate in force: an event that
\* moves a rate brings a later block with it.
CacheIsCurrent ==
    \A q \in Paths :
        /\ cache[q].block \in 0 .. finalBlock
        /\ cache[q].block = finalBlock /\ finalBlock # 0 => cache[q].rate = EvaluatePath(q)

\* So have the results, unless an event came since, which the post-evaluation
\* drain then has seen.
ResultsAreCurrent ==
    srPc = "emit" \/ (srPc = "post" /\ finalBlock <= preFinal) =>
        \A r \in results : r.rate = EvaluatePath(r.path)

OrderInv ==
    /\ InSequence
    /\ SearcherBehind
    /\ CacheIsCurrent
    /\ ResultsAreCurrent

\* The paths with a moved rate that were not evaluated since go through pools
\* that are still to be selected, or are selected; and the cache has no entry
\* for the block at hand that could hide them.
DirtyIsAhead ==
    /\ dirty \subseteq
         CASE srPc = "drain" -> Through(merged)
           [] srPc = "eval" -> affected
           [] srPc = "post" /\ finalBlock > preFinal -> Through(postMerged)
           [] OTHER -> {}
    /\ \A q \in dirty : cache[q].block < finalBlock

\* A channel after a message was taken from it, or has joined it.
LEMMA TailFacts ==
    ASSUME NEW S, NEW q \in Seq(S), q # << >>
    PROVE  /\ Tail(q) \in Seq(S)
           /\ 1 \in DOMAIN q /\ Head(q) = q[1] /\ Head(q) \in S
           /\ \A i \in DOMAIN Tail(q) : /\ i \in Nat \ {0} /\ i + 1 \in DOMAIN q
                                        /\ Tail(q)[i] = q[i + 1]
  OBVIOUS

LEMMA AppendFacts ==
    ASSUME NEW S, NEW q \in Seq(S), NEW x \in S
    PROVE  /\ Append(q, x) \in Seq(S)
           /\ \A i \in DOMAIN Append(q, x) :
                \/ i \in DOMAIN q /\ Append(q, x)[i] = q[i]
                \/ i = Len(q) + 1 /\ Append(q, x)[i] = x
           /\ \A i \in DOMAIN q : i \in Nat /\ i < Len(q) + 1
           /\ Len(q) \in Nat
  OBVIOUS

LEMMA ElementFacts ==
    ASSUME NEW S, NEW T, S \subseteq T, NEW q \in Seq(S)
    PROVE  q \in Seq(T) /\ \A i \in DOMAIN q : q[i] \in S
  OBVIOUS

LEMMA InitOrder ==
    ASSUME MaxMempool = 0, Init
    PROVE  OrderInv /\ DirtyIsAhead
  <1>1. /\ announced = {} /\ blockQ = << >> /\ msPc = "start" /\ poolsQ = << >>
        /\ msTouched = {} /\ mempoolSeen = 0
        /\ srPc = "seedV3" /\ finalBlock = 0 /\ latestBlock = 0
        /\ cache = [q \in Paths |-> [rate |-> 0, block |-> 0]]
        /\ dirty = {}
    BY DEF Init, SharedInit, MarketInit, SearcherInit
  <1>2. InSequence
    BY <1>1 DEF InSequence, Busy
  <1>3. SearcherBehind
    BY <1>1 DEF SearcherBehind, Behind, Busy, Seeding
  <1>4. CacheIsCurrent /\ ResultsAreCurrent /\ DirtyIsAhead
    BY <1>1 DEF CacheIsCurrent, ResultsAreCurrent, DirtyIsAhead
  <1> QED
    BY <1>2, <1>3, <1>4 DEF OrderInv

\* A step that leaves the searcher's side alone.
LEMMA SearcherFrame ==
    ASSUME UNCHANGED <<cache, finalBlock, rates, results, srPc, preFinal, merged, affected,
                       postMerged, dirty>>
    PROVE  /\ CacheIsCurrent => CacheIsCurrent'
           /\ ResultsAreCurrent => ResultsAreCurrent'
           /\ DirtyIsAhead => DirtyIsAhead'
  <1>1. CacheIsCurrent => CacheIsCurrent'
    BY DEF CacheIsCurrent, EvaluatePath
  <1>2. ResultsAreCurrent => ResultsAreCurrent'
    BY DEF ResultsAreCurrent, EvaluatePath
  <1>3. DirtyIsAhead => DirtyIsAhead'
    BY DEF DirtyIsAhead, Through
  <1> QED
    BY <1>1, <1>2, <1>3

\* A step that leaves the messages alone.
LEMMA InSequenceFrame ==
    ASSUME InSequence,
           UNCHANGED <<announced, blockQ, msPc, msCatchUp, msBlock, msTouched, poolsQ,
                       mempoolSeen>>
    PROVE  InSequence' /\ Busy' = Busy
  BY DEF InSequence, Busy

\* A block that is announced in order is later than all that were announced.
LEMMA AnnounceKeepsOrder ==
    ASSUME InOrder = TRUE, OrderInv, NEW n, Announce(n), UNCHANGED <<srVars, mempoolSeen>>
    PROVE  OrderInv'
  <1>1. /\ InSequence /\ SearcherBehind
        /\ announced \subseteq Nat \ {0, 1} /\ blockQ \in Seq(announced)
        /\ poolsQ \in Seq([block : announced, pools : SUBSET Pools])
    BY DEF OrderInv, InSequence
  <1>2. /\ n \in Nat \ {0, 1} /\ n \notin announced
        /\ announced' = announced \cup {n}
        /\ \A m \in 2 .. n - 1 : m \in announced
        /\ UNCHANGED <<poolsQ, msPc, msCatchUp, msBlock, msTouched>>
    BY DEF Announce, shared, msWork
  <1>3. \A a \in announced : a < n
    BY <1>1, <1>2 DEF InSequence
  <1>4. PICK q \in Seq(announced) :
          /\ blockQ' = Append(q, n)
          /\ \A i, j \in DOMAIN q : i < j => q[i] < q[j]
          /\ \A i \in DOMAIN q : \E j \in DOMAIN blockQ : q[i] = blockQ[j]
    <2>1. CASE blockQ' = Append(blockQ, n)
      BY <1>1, <2>1 DEF InSequence
    <2>2. CASE blockQ' = Append(Tail(blockQ), n) /\ ~(Len(blockQ) < BroadcastCap)
      <3>1. blockQ # << >>
        BY <2>2, MarketAssumption
      <3>2. /\ Tail(blockQ) \in Seq(announced)
            /\ \A i \in DOMAIN Tail(blockQ) :
                 i \in Nat /\ i + 1 \in DOMAIN blockQ /\ Tail(blockQ)[i] = blockQ[i + 1]
        BY <1>1, <3>1, TailFacts
      <3>3. \A i, j \in DOMAIN Tail(blockQ) : i < j => Tail(blockQ)[i] < Tail(blockQ)[j]
        BY <1>1, <3>2 DEF InSequence
      <3> QED
        BY <2>2, <3>2, <3>3
    <2> QED
      BY <2>1, <2>2 DEF Announce
  <1>5. n \in announced' /\ q \in Seq(announced')
    BY <1>2
  <1>6. /\ blockQ' \in Seq(announced')
        /\ \A i \in DOMAIN blockQ' :
             \/ i \in DOMAIN q /\ blockQ'[i] = q[i]
             \/ i = Len(q) + 1 /\ blockQ'[i] = n
        /\ \A i \in DOMAIN q : i \in Nat /\ i < Len(q) + 1 /\ q[i] \in announced
        /\ Len(q) \in Nat
    BY <1>4, <1>5, AppendFacts
  <1>7. \A i, j \in DOMAIN blockQ' : i < j => blockQ'[i] < blockQ'[j]
    BY <1>3, <1>4, <1>6
  \* What came before all queued blocks and was announced still does.
  <1>8. ASSUME NEW b \in announced \cup {0}, \A i \in DOMAIN blockQ : b < blockQ[i]
        PROVE  \A i \in DOMAIN blockQ' : b < blockQ'[i]
    BY <1>2, <1>3, <1>4, <1>6, <1>8
  <1>9. /\ \A i \in DOMAIN poolsQ : poolsQ[i] \in [block : announced, pools : SUBSET Pools]
        /\ \A i \in DOMAIN poolsQ : poolsQ[i].block \in announced
    <2>1. \A i \in DOMAIN poolsQ : poolsQ[i] \in [block : announced, pools : SUBSET Pools]
      BY <1>1, ElementFacts
    <2> QED
      BY <2>1
  <1>10. InSequence'
    <2>1. announced' \subseteq Nat \ {0, 1} /\ \A k \in announced' : \A m \in 2 .. k : m \in announced'
      <3>1. announced' \subseteq Nat \ {0, 1}
        BY <1>1, <1>2
      <3>2. \A k \in announced : \A m \in 2 .. k : m \in announced
        BY <1>1 DEF InSequence
      <3>3. \A m \in 2 .. n : m = n \/ m \in 2 .. n - 1
        BY <1>2
      <3>4. \A m \in 2 .. n : m \in announced'
        BY <1>2, <3>3
      <3>5. ASSUME NEW k \in announced' PROVE \A m \in 2 .. k : m \in announced'
        BY <1>2, <3>2, <3>4
      <3> QED
        BY <3>1, <3>5
    <2>2. poolsQ' \in Seq([block : announced', pools : SUBSET Pools])
      <3>1. [block : announced, pools : SUBSET Pools] \subseteq
              [block : announced', pools : SUBSET Pools]
        BY <1>2
      <3>2. poolsQ \in Seq([block : announced', pools : SUBSET Pools])
        BY <1>1, <3>1, ElementFacts
      <3> QED
        BY <1>2, <3>2
    <2>3. Busy' => /\ msBlock' \in announced'
                   /\ \A i \in DOMAIN blockQ' : msBlock' < blockQ'[i]
                   /\ \A i \in DOMAIN poolsQ' : poolsQ'[i].block < msBlock'
      BY <1>1, <1>2, <1>8 DEF InSequence, Busy
    <2>4. \A i \in DOMAIN poolsQ', j \in DOMAIN blockQ' : poolsQ'[i].block < blockQ'[j]
      BY <1>1, <1>2, <1>8, <1>9 DEF InSequence
    <2> QED
      BY <1>1, <1>2, <1>6, <1>7, <2>1, <2>2, <2>3, <2>4 DEF InSequence
  <1>11. SearcherBehind'
    <2>1. UNCHANGED <<finalBlock, latestBlock, srPc, preFinal>>
      BY DEF srVars
    <2>2. Behind(finalBlock)' /\ Behind(latestBlock)'
      BY <1>1, <1>2, <1>8, <2>1 DEF SearcherBehind, Behind, Busy
    <2> QED
      BY <1>1, <1>2, <2>1, <2>2 DEF SearcherBehind, Seeding
  <1> QED
    BY <1>10, <1>11, SearcherFrame DEF OrderInv, srVars

\* MarketState takes up the earliest queued block, and reports it after all
\* that were reported before.
LEMMA MarketKeepsOrder ==
    ASSUME OrderInv, MsStep, UNCHANGED <<srVars, mempoolSeen>>
    PROVE  OrderInv'
  <1>1. /\ InSequence /\ SearcherBehind
        /\ announced \subseteq Nat \ {0, 1} /\ blockQ \in Seq(announced)
        /\ poolsQ \in Seq([block : announced, pools : SUBSET Pools])
        /\ msTouched \in SUBSET Pools
    BY DEF OrderInv, InSequence
  <1>2. UNCHANGED <<announced, mempoolSeen, finalBlock, latestBlock, srPc, preFinal>>
    BY DEF MsStep, MsCatchUp, MsNoCatchUp, MsLagged, MsRecv, MsGetLogs, MsGetLogsFail, MsFetch,
           MsApply, MsSend, srVars, broadcast
  <1>s. InSequence' /\ Behind(finalBlock)' /\ Behind(latestBlock)' => OrderInv'
    BY <1>1, <1>2, SearcherFrame DEF OrderInv, SearcherBehind, Seeding, srVars
  \* A step that neither takes nor sends anything, and goes on with the block at
  \* hand or ends it.
  <1>k. ASSUME UNCHANGED <<blockQ, poolsQ>>, msTouched' \in SUBSET Pools,
               Busy' => Busy /\ msBlock' = msBlock
        PROVE  OrderInv'
    <2>1. InSequence'
      BY <1>1, <1>2, <1>k DEF InSequence
    <2>2. Behind(finalBlock)' /\ Behind(latestBlock)'
      BY <1>1, <1>2, <1>k DEF SearcherBehind, Behind
    <2> QED
      BY <1>s, <2>1, <2>2
  <1>e. EndBlock => ~Busy' /\ msTouched' = {}
    BY DEF EndBlock, Busy
  <1>3. CASE MsRecv
    <2>1. /\ blockQ # << >> /\ blockQ' = Tail(blockQ) /\ msBlock' = Head(blockQ)
          /\ UNCHANGED <<poolsQ, msTouched>> /\ msPc' = "logs"
      BY <1>3 DEF MsRecv, TraceBlock, shared
    <2>2. /\ Tail(blockQ) \in Seq(announced)
          /\ 1 \in DOMAIN blockQ /\ Head(blockQ) = blockQ[1] /\ Head(blockQ) \in announced
          /\ \A i \in DOMAIN Tail(blockQ) : /\ i \in Nat \ {0} /\ i + 1 \in DOMAIN blockQ
                                            /\ Tail(blockQ)[i] = blockQ[i + 1]
      BY <1>1, <2>1, TailFacts
    <2>3. InSequence'
      <3>1. \A i, j \in DOMAIN blockQ' : i < j => blockQ'[i] < blockQ'[j]
        BY <1>1, <2>1, <2>2 DEF InSequence
      <3>2. \A i \in DOMAIN blockQ' : msBlock' < blockQ'[i]
        BY <1>1, <2>1, <2>2 DEF InSequence
      <3>3. \A i \in DOMAIN poolsQ' : poolsQ'[i].block < msBlock'
        BY <1>1, <2>1, <2>2 DEF InSequence
      <3>4. \A i \in DOMAIN poolsQ', j \in DOMAIN blockQ' : poolsQ'[i].block < blockQ'[j]
        BY <1>1, <2>1, <2>2 DEF InSequence
      <3> QED
        BY <1>1, <1>2, <2>1, <2>2, <3>1, <3>2, <3>3, <3>4 DEF InSequence
    <2>4. ASSUME NEW b, Behind(b)
          PROVE  /\ \A i \in DOMAIN poolsQ' : b < poolsQ'[i].block
                 /\ b < msBlock'
                 /\ \A i \in DOMAIN blockQ' : b < blockQ'[i]
      BY <2>1, <2>2, <2>4 DEF Behind
    <2>5. Behind(finalBlock)' /\ Behind(latestBlock)'
      BY <1>1, <1>2, <2>4 DEF SearcherBehind, Behind
    <2> QED
      BY <1>s, <2>3, <2>5
  <1>4. CASE MsSend
    <2> DEFINE ev == [block |-> msBlock, pools |-> msTouched]
    <2>1. poolsQ' = Append(poolsQ, ev) /\ blockQ' = blockQ /\ Busy /\ ~Busy' /\ msTouched' = {}
      BY <1>4, <1>e DEF MsSend, SendPools, broadcast, Busy
    <2>2. ev \in [block : announced, pools : SUBSET Pools]
      BY <1>1, <2>1 DEF InSequence
    <2>3. /\ poolsQ' \in Seq([block : announced, pools : SUBSET Pools])
          /\ \A i \in DOMAIN poolsQ' :
               \/ i \in DOMAIN poolsQ /\ poolsQ'[i] = poolsQ[i]
               \/ i = Len(poolsQ) + 1 /\ poolsQ'[i] = ev
          /\ \A i \in DOMAIN poolsQ : i \in Nat /\ i < Len(poolsQ) + 1
          /\ Len(poolsQ) \in Nat
      <3> HIDE DEF ev
      <3> QED
        BY <1>1, <2>1, <2>2, AppendFacts
    <2>4. ev.block = msBlock
      OBVIOUS
    <2> HIDE DEF ev
    <2>5. InSequence'
      <3>1. \A i, j \in DOMAIN poolsQ' : i < j => poolsQ'[i].block < poolsQ'[j].block
        BY <1>1, <2>1, <2>3, <2>4 DEF InSequence
      <3>2. \A i \in DOMAIN poolsQ', j \in DOMAIN blockQ' : poolsQ'[i].block < blockQ'[j]
        BY <1>1, <2>1, <2>3, <2>4 DEF InSequence
      <3> QED
        BY <1>1, <1>2, <2>1, <2>3, <3>1, <3>2 DEF InSequence
    <2>6. Behind(finalBlock)' /\ Behind(latestBlock)'
      BY <1>1, <1>2, <2>1, <2>3, <2>4 DEF SearcherBehind, Behind
    <2> QED
      BY <1>s, <2>5, <2>6
  <1>5. CASE MsCatchUp
    BY <1>1, <1>5, <1>k DEF MsCatchUp, TraceBlock, Busy, shared, broadcast
  <1>6. CASE MsNoCatchUp \/ MsLagged
    BY <1>1, <1>6, <1>k DEF MsNoCatchUp, MsLagged, Busy, shared, broadcast, msWork
  <1>7. CASE MsGetLogs
    BY <1>1, <1>7, <1>k DEF MsGetLogs, Busy, shared, broadcast
  <1>8. CASE MsGetLogsFail
    BY <1>1, <1>8, <1>e, <1>k DEF MsGetLogsFail, Busy, shared, broadcast
  <1>9. ASSUME NEW p \in Pools, MsFetch(p)
        PROVE  OrderInv'
    BY <1>1, <1>9, <1>k DEF MsFetch, Busy, shared, broadcast
  <1>10. CASE MsApply
    BY <1>1, <1>10, <1>e, <1>k DEF MsApply, Busy, broadcast, msWork
  <1> QED
    BY <1>3, <1>4, <1>5, <1>6, <1>7, <1>8, <1>9, <1>10 DEF MsStep

\* An event that is taken up is for a later block than the searcher's, and for
\* an earlier one than all that follow.
LEMMA AbsorbInOrder ==
    ASSUME OrderInv, Absorb, UNCHANGED <<msVars, mempoolSeen>>
    PROVE  /\ InSequence'
           /\ Head(poolsQ).block \in announced
           /\ \A b : b = Head(poolsQ).block => Behind(b)'
           /\ BlockOf(Head(poolsQ)) = Head(poolsQ).block
           /\ finalBlock < Head(poolsQ).block
           /\ Larger(finalBlock, Head(poolsQ).block) = Head(poolsQ).block
           /\ latestBlock' = Head(poolsQ).block
           /\ announced' = announced /\ announced \subseteq Nat \ {0, 1}
           /\ finalBlock \in announced \cup {0}
           /\ UNCHANGED <<cache, results>>
  <1>1. /\ InSequence
        /\ announced \subseteq Nat \ {0, 1} /\ blockQ \in Seq(announced)
        /\ poolsQ \in Seq([block : announced, pools : SUBSET Pools])
        /\ finalBlock \in announced \cup {0} /\ latestBlock \in announced \cup {0}
        /\ Behind(finalBlock) /\ Behind(latestBlock)
    BY DEF OrderInv, InSequence, SearcherBehind
  <1>2. /\ poolsQ # << >> /\ poolsQ' = Tail(poolsQ)
        /\ latestBlock' = IF Head(poolsQ).block = 0 THEN latestBlock
                            ELSE Larger(latestBlock, Head(poolsQ).block)
        /\ UNCHANGED <<announced, blockQ, msPc, msCatchUp, msBlock, msTouched, mempoolSeen,
                       cache, results>>
    BY DEF Absorb, msVars, broadcast, msWork
  <1>3. /\ Tail(poolsQ) \in Seq([block : announced, pools : SUBSET Pools])
        /\ 1 \in DOMAIN poolsQ /\ Head(poolsQ) = poolsQ[1]
        /\ Head(poolsQ) \in [block : announced, pools : SUBSET Pools]
        /\ \A i \in DOMAIN Tail(poolsQ) : /\ i \in Nat \ {0} /\ i + 1 \in DOMAIN poolsQ
                                          /\ Tail(poolsQ)[i] = poolsQ[i + 1]
    BY <1>1, <1>2, TailFacts
  <1>4. /\ Head(poolsQ).block \in announced
        /\ finalBlock < Head(poolsQ).block /\ latestBlock < Head(poolsQ).block
    BY <1>1, <1>3 DEF Behind
  <1>5. Head(poolsQ).block \in Nat \ {0} /\ finalBlock \in Nat /\ latestBlock \in Nat
    <2>1. Head(poolsQ).block \in Nat \ {0, 1}
      BY <1>1, <1>4
    <2>2. announced \cup {0} \subseteq Nat
      BY <1>1
    <2> QED
      BY <1>1, <2>1, <2>2
  <1>6. /\ BlockOf(Head(poolsQ)) = Head(poolsQ).block
        /\ Larger(finalBlock, Head(poolsQ).block) = Head(poolsQ).block
        /\ latestBlock' = Head(poolsQ).block
    BY <1>2, <1>4, <1>5 DEF BlockOf, Larger
  <1>7. InSequence'
    <2>1. \A i, j \in DOMAIN poolsQ' : i < j => poolsQ'[i].block < poolsQ'[j].block
      BY <1>1, <1>2, <1>3 DEF InSequence
    <2>2. \A i \in DOMAIN poolsQ', j \in DOMAIN blockQ' : poolsQ'[i].block < blockQ'[j]
      BY <1>1, <1>2, <1>3 DEF InSequence
    <2>3. Busy' => /\ msBlock' \in announced'
                   /\ \A i \in DOMAIN blockQ' : msBlock' < blockQ'[i]
                   /\ \A i \in DOMAIN poolsQ' : poolsQ'[i].block < msBlock'
      BY <1>1, <1>2, <1>3 DEF InSequence, Busy
    <2> QED
      BY <1>1, <1>2, <1>3, <2>1, <2>2, <2>3 DEF InSequence
  <1>8. ASSUME NEW b, b = Head(poolsQ).block
        PROVE  Behind(b)'
    <2>1. /\ \A i \in DOMAIN poolsQ' : b < poolsQ'[i].block
          /\ Busy' => b < msBlock'
          /\ \A i \in DOMAIN blockQ' : b < blockQ'[i]
      BY <1>1, <1>2, <1>3, <1>8 DEF InSequence, Busy
    <2> QED
      BY <2>1 DEF Behind
  <1> QED
    BY <1>1, <1>2, <1>4, <1>6, <1>7, <1>8

\* The searcher evaluates, drops and offers on the rates in force.
LEMMA SearcherKeepsOrder ==
    ASSUME OrderInv, SrStep, UNCHANGED <<msVars, mempoolSeen>>
    PROVE  OrderInv'
  <1>1. /\ InSequence /\ SearcherBehind /\ CacheIsCurrent /\ ResultsAreCurrent
        /\ announced \subseteq Nat \ {0, 1}
        /\ finalBlock \in announced \cup {0} /\ latestBlock \in announced \cup {0}
    BY DEF OrderInv, InSequence, SearcherBehind
  <1>2. UNCHANGED <<announced, blockQ, msPc, msCatchUp, msBlock, msTouched, mempoolSeen>>
    BY DEF msVars, broadcast, msWork
  <1>3. finalBlock \in Nat
    BY <1>1
  \* A step that takes no event.
  <1>k. ASSUME UNCHANGED <<poolsQ, finalBlock, latestBlock>>,
               srPc' \in {"seedV3", "seedFetch", "seedWrite", "seedRates"} => Seeding,
               srPc' \in {"drain", "eval", "post"} => finalBlock # 0,
               srPc' = "post" => preFinal' \in 0 .. finalBlock
        PROVE  InSequence' /\ SearcherBehind'
    <2>1. InSequence' /\ Busy' = Busy
      BY <1>1, <1>2, <1>k, InSequenceFrame
    <2>2. Behind(finalBlock)' /\ Behind(latestBlock)'
      BY <1>1, <1>2, <1>k, <2>1 DEF SearcherBehind, Behind
    <2> QED
      BY <1>1, <1>2, <1>k, <2>1, <2>2 DEF SearcherBehind, Seeding
  <1>4. CASE SeedV3 \/ SeedFetch \/ SeedWrite \/ SeedRates
    <2>1. /\ Seeding /\ srPc' \notin {"drain", "eval", "post", "emit"}
          /\ UNCHANGED <<poolsQ, finalBlock, latestBlock, cache>>
      BY <1>4 DEF SeedV3, SeedFetch, SeedWrite, SeedRates, Seeding, shared
    <2>2. finalBlock = 0
      BY <1>1, <2>1 DEF SearcherBehind
    <2>3. CacheIsCurrent' /\ ResultsAreCurrent'
      BY <1>1, <2>1, <2>2 DEF CacheIsCurrent, ResultsAreCurrent
    <2> QED
      BY <1>k, <2>1, <2>3 DEF OrderInv
  <1>5. CASE SrRecv \/ SrPreDrain \/ SrPostDrain
    <2>1. /\ Absorb
          /\ \/ finalBlock' = BlockOf(Head(poolsQ))
             \/ finalBlock' = Larger(finalBlock, BlockOf(Head(poolsQ)))
          /\ \/ srPc' = "drain"
             \/ srPc = "post" /\ srPc' = "post" /\ preFinal' = preFinal
      BY <1>5 DEF SrRecv, SrPreDrain, SrPostDrain
    <2>2. /\ InSequence'
          /\ Head(poolsQ).block \in announced
          /\ \A b : b = Head(poolsQ).block => Behind(b)'
          /\ BlockOf(Head(poolsQ)) = Head(poolsQ).block
          /\ finalBlock < Head(poolsQ).block
          /\ Larger(finalBlock, Head(poolsQ).block) = Head(poolsQ).block
          /\ latestBlock' = Head(poolsQ).block
          /\ UNCHANGED <<cache, results>>
      BY <2>1, AbsorbInOrder
    <2>3. finalBlock' = Head(poolsQ).block
      BY <2>1, <2>2
    <2>4. /\ finalBlock' \in Nat \ {0} /\ finalBlock < finalBlock'
          /\ finalBlock' \in announced /\ latestBlock' = finalBlock'
      BY <1>1, <2>2, <2>3
    <2>5. Behind(finalBlock)' /\ Behind(latestBlock)'
      BY <2>2, <2>3 DEF Behind
    <2>6. srPc' = "post" => preFinal' \in 0 .. finalBlock /\ preFinal' < finalBlock'
      BY <1>1, <1>3, <2>1, <2>4 DEF SearcherBehind
    <2>7. SearcherBehind'
      BY <1>2, <1>3, <2>1, <2>4, <2>5, <2>6 DEF SearcherBehind, Seeding
    <2>8. CacheIsCurrent'
      BY <1>1, <1>3, <2>2, <2>4 DEF CacheIsCurrent
    <2>9. ResultsAreCurrent'
      BY <1>3, <2>1, <2>4, <2>6 DEF ResultsAreCurrent
    <2> QED
      BY <2>2, <2>7, <2>8, <2>9 DEF OrderInv
  <1>6. CASE SrSelect
    <2>1. /\ UNCHANGED <<poolsQ, finalBlock, latestBlock, cache, rates>>
          /\ srPc = "drain" /\ srPc' \in {"recv", "eval"}
      BY <1>6 DEF SrSelect, shared
    <2>2. CacheIsCurrent' /\ ResultsAreCurrent'
      BY <1>1, <2>1 DEF CacheIsCurrent, ResultsAreCurrent, EvaluatePath
    <2> QED
      BY <1>1, <1>k, <2>1, <2>2 DEF OrderInv, SearcherBehind
  <1>7. CASE SrEvaluate
    <2> DEFINE evaluated == {q \in affected : ~Suppressed(q)}
    <2>1. /\ UNCHANGED <<poolsQ, finalBlock, latestBlock, rates>>
          /\ srPc = "eval" /\ srPc' = "post" /\ preFinal' = finalBlock
          /\ cache' = [q \in Paths |-> IF q \in evaluated
                                         THEN [rate |-> EvaluatePath(q), block |-> finalBlock]
                                         ELSE cache[q]]
          /\ results' = {[path |-> q, rate |-> EvaluatePath(q), block |-> finalBlock] :
                            q \in {r \in evaluated : EvaluatePath(r) >= Scale}}
      BY <1>7 DEF SrEvaluate, shared
    <2>2. \A q : EvaluatePath(q)' = EvaluatePath(q)
      BY <2>1 DEF EvaluatePath
    <2> HIDE DEF evaluated
    <2>3. CacheIsCurrent'
      BY <1>1, <1>3, <2>1, <2>2 DEF CacheIsCurrent
    <2>4. \A r \in results' : r.rate = EvaluatePath(r.path)
      BY <2>1
    <2>5. ResultsAreCurrent'
      BY <2>2, <2>4 DEF ResultsAreCurrent
    <2>6. finalBlock \in 0 .. finalBlock
      BY <1>3
    <2> QED
      BY <1>1, <1>k, <2>1, <2>3, <2>5, <2>6 DEF OrderInv, SearcherBehind
  <1>8. CASE SrCarryForward
    <2>1. /\ UNCHANGED <<poolsQ, finalBlock, latestBlock, cache, rates>>
          /\ srPc = "post" /\ srPc' = "drain"
      BY <1>8 DEF SrCarryForward, shared
    <2>2. CacheIsCurrent' /\ ResultsAreCurrent'
      BY <1>1, <2>1 DEF CacheIsCurrent, ResultsAreCurrent, EvaluatePath
    <2> QED
      BY <1>1, <1>k, <2>1, <2>2 DEF OrderInv, SearcherBehind
  <1>9. CASE SrKeepResults \/ SrEmit \/ SrEmitDone
    <2>1. /\ UNCHANGED <<poolsQ, finalBlock, latestBlock, cache, rates>>
          /\ srPc = "emit" \/ (srPc = "post" /\ finalBlock <= preFinal)
          /\ srPc' \in {"emit", "recv"}
          /\ results' \subseteq results
      BY <1>9 DEF SrKeepResults, SrEmit, SrEmitDone, shared
    <2>2. CacheIsCurrent' /\ ResultsAreCurrent'
      BY <1>1, <2>1 DEF CacheIsCurrent, ResultsAreCurrent, EvaluatePath
    <2> QED
      BY <1>k, <2>1, <2>2 DEF OrderInv
  <1> QED
    BY <1>4, <1>5, <1>6, <1>7, <1>8, <1>9 DEF SrStep

LEMMA StepKeepsOrder ==
    ASSUME InOrder = TRUE, MaxMempool = 0
    PROVE  OrderInv /\ [Next]_vars => OrderInv'
  <1> SUFFICES ASSUME OrderInv, [Next]_vars PROVE OrderInv'
    OBVIOUS
  <1>1. CASE World \/ Simulators \/ UNCHANGED vars
    <2>1. /\ UNCHANGED <<announced, blockQ, msPc, msCatchUp, msBlock, msTouched, poolsQ,
                         mempoolSeen>>
          /\ UNCHANGED <<cache, finalBlock, latestBlock, rates, results, srPc, preFinal, merged,
                         affected, postMerged, dirty>>
      BY <1>1 DEF World, Mine, RpcSync, Simulators, TakeArb, vars, shared, msVars, srVars,
                  broadcast, msWork
    <2>2. InSequence' /\ Busy' = Busy
      BY <2>1, InSequenceFrame DEF OrderInv
    <2>3. SearcherBehind'
      BY <2>1, <2>2 DEF OrderInv, SearcherBehind, Behind, Seeding
    <2> QED
      BY <2>1, <2>2, <2>3, SearcherFrame DEF OrderInv
  <1>2. CASE BlockStream
    BY <1>2, AnnounceKeepsOrder DEF BlockStream
  <1>3. CASE MarketStateWorker
    BY <1>3, MarketKeepsOrder DEF MarketStateWorker
  <1>4. CASE SearcherWorker
    BY <1>4, SearcherKeepsOrder DEF SearcherWorker
  <1>5. ~MempoolTouch
    BY DEF MempoolTouch, OrderInv, InSequence
  <1> QED
    BY <1>1, <1>2, <1>3, <1>4, <1>5 DEF Next, Resting

\* Every path fits into a block's selection.
SelectionFits == IsFiniteSet(Paths) /\ Cardinality(Paths) <= MaxPathsPerBlock

\* Then get_affected_paths leaves none of the paths out.
LEMMA SelectsAll ==
    ASSUME SelectionFits, SrSelect
    PROVE  affected' = Through(merged)
  <1>1. Through(merged) \subseteq Paths /\ IsFiniteSet(Through(merged))
    BY FS_Subset DEF SelectionFits, Through
  <1>2. PICK sel \in SUBSET Through(merged) :
          /\ affected' = sel
          /\ \/ sel = Through(merged) /\ Cardinality(sel) <= MaxPathsPerBlock
             \/ Cardinality(sel) = MaxPathsPerBlock
    BY DEF SrSelect
  <1>3. CASE Cardinality(sel) = MaxPathsPerBlock
    <2>1. sel \subseteq Paths /\ IsFiniteSet(sel)
      BY <1>1, <1>2, FS_Subset
    <2>2. Cardinality(sel) <= Cardinality(Paths) /\ Cardinality(sel) \in Nat
          /\ Cardinality(Paths) \in Nat
      BY <2>1, FS_Subset, FS_CardinalityType DEF SelectionFits
    <2>3. Cardinality(sel) = Cardinality(Paths)
      BY <1>3, <2>2, SearcherAssumption DEF SelectionFits
    <2>4. sel = Paths
      BY <2>1, <2>3, FS_Subset DEF SelectionFits
    <2> QED
      BY <1>1, <1>2, <2>4
  <1> QED
    BY <1>2, <1>3

\* A moved rate is selected with its event, and evaluated in that event's block.
LEMMA SearcherKeepsDirtyAhead ==
    ASSUME SelectionFits, OrderInv, DirtyIsAhead, dirty \subseteq Paths, SrStep,
           UNCHANGED <<msVars, mempoolSeen>>
    PROVE  DirtyIsAhead'
  <1>1. /\ SearcherBehind /\ CacheIsCurrent
        /\ finalBlock \in Nat
    <2>1. finalBlock \in announced \cup {0} /\ announced \subseteq Nat \ {0, 1}
      BY DEF OrderInv, InSequence, SearcherBehind
    <2> QED
      BY <2>1 DEF OrderInv
  <1>2. \A q \in Paths : cache[q].block \in 0 .. finalBlock
    BY <1>1 DEF CacheIsCurrent
  \* A step that evaluates nothing and takes no event.
  <1>k. ASSUME UNCHANGED <<dirty, cache, finalBlock>>,
               dirty \subseteq CASE srPc' = "drain" -> Through(merged')
                                 [] srPc' = "eval" -> affected'
                                 [] srPc' = "post" /\ finalBlock > preFinal'
                                      -> Through(postMerged')
                                 [] OTHER -> {}
        PROVE  DirtyIsAhead'
    BY <1>k DEF DirtyIsAhead, Through
  <1>3. CASE SeedV3 \/ SeedFetch \/ SeedWrite \/ SeedRates \/ SrKeepResults \/ SrEmit
             \/ SrEmitDone
    <2>1. /\ UNCHANGED <<dirty, cache, finalBlock>>
          /\ srPc \notin {"drain", "eval"} /\ ~(srPc = "post" /\ finalBlock > preFinal)
          /\ srPc' \notin {"drain", "eval", "post"}
      BY <1>1, <1>3 DEF SeedV3, SeedFetch, SeedWrite, SeedRates, SrKeepResults, SrEmit,
                        SrEmitDone, SearcherBehind
    <2>2. dirty = {}
      BY <2>1 DEF DirtyIsAhead
    <2> QED
      BY <2>1, <2>2, <1>k
  <1>4. CASE SrRecv \/ SrPreDrain \/ SrPostDrain
    <2> DEFINE moved == {p \in Head(poolsQ).pools : RateOf(p, db[p]) # rates[p]}
    <2>1. /\ Absorb
          /\ \/ finalBlock' = BlockOf(Head(poolsQ))
             \/ finalBlock' = Larger(finalBlock, BlockOf(Head(poolsQ)))
      BY <1>4 DEF SrRecv, SrPreDrain, SrPostDrain
    <2>2. /\ BlockOf(Head(poolsQ)) = Head(poolsQ).block
          /\ finalBlock < Head(poolsQ).block
          /\ Larger(finalBlock, Head(poolsQ).block) = Head(poolsQ).block
          /\ Head(poolsQ).block \in announced /\ announced \subseteq Nat \ {0, 1}
          /\ UNCHANGED cache
      BY <2>1, AbsorbInOrder
    <2>3. finalBlock' \in Nat /\ finalBlock < finalBlock'
      BY <2>1, <2>2
    <2>4. dirty' = dirty \cup Through(moved) /\ Through(moved) \subseteq Paths
      BY <2>1 DEF Absorb, Through
    <2>5. \A q \in dirty' : cache'[q].block < finalBlock'
      BY <1>1, <1>2, <2>2, <2>3, <2>4
    <2>6. /\ moved \subseteq Head(poolsQ).pools
          /\ \A A, B : A \subseteq B => Through(A) \subseteq Through(B)
      BY DEF Through
    <2> HIDE DEF moved
    <2>7. CASE SrRecv
      <3>1. srPc = "recv" /\ srPc' = "drain" /\ merged' = Head(poolsQ).pools
        BY <2>7 DEF SrRecv
      <3>2. dirty' \subseteq Through(merged')
        BY <2>4, <2>6, <3>1 DEF DirtyIsAhead
      <3> QED
        BY <2>5, <3>1, <3>2 DEF DirtyIsAhead, Through
    <2>8. CASE SrPreDrain
      <3>1. /\ srPc = "drain" /\ srPc' = "drain"
            /\ merged \subseteq merged' /\ Head(poolsQ).pools \subseteq merged'
        BY <2>8 DEF SrPreDrain
      <3>2. dirty \subseteq Through(merged) /\ moved \subseteq merged'
        BY <2>6, <3>1 DEF DirtyIsAhead
      <3>3. dirty' \subseteq Through(merged')
        BY <2>4, <2>6, <3>1, <3>2
      <3> QED
        BY <2>5, <3>1, <3>3 DEF DirtyIsAhead, Through
    <2>9. CASE SrPostDrain
      <3>1. /\ srPc = "post" /\ srPc' = "post" /\ preFinal' = preFinal
            /\ postMerged \subseteq postMerged' /\ Head(poolsQ).pools \subseteq postMerged'
        BY <2>9 DEF SrPostDrain
      <3>2. preFinal \in 0 .. finalBlock /\ finalBlock' > preFinal'
        BY <1>1, <2>3, <3>1 DEF SearcherBehind
      <3>3. dirty \subseteq Through(postMerged) /\ moved \subseteq postMerged'
        BY <2>6, <3>1 DEF DirtyIsAhead
      <3>4. dirty' \subseteq Through(postMerged')
        BY <2>4, <2>6, <3>1, <3>3
      <3> QED
        BY <2>5, <3>1, <3>2, <3>4 DEF DirtyIsAhead, Through
    <2> QED
      BY <1>4, <2>7, <2>8, <2>9
  <1>5. CASE SrSelect
    <2>1. /\ UNCHANGED <<dirty, cache, finalBlock>> /\ srPc = "drain"
          /\ srPc' = IF affected' = {} THEN "recv" ELSE "eval"
      BY <1>5 DEF SrSelect
    <2>2. dirty \subseteq affected'
      BY <1>5, <2>1, SelectsAll DEF DirtyIsAhead
    <2> QED
      BY <1>k, <2>1, <2>2
  <1>6. CASE SrEvaluate
    <2>1. /\ srPc = "eval" /\ finalBlock' = finalBlock
          /\ dirty' = dirty \ {q \in affected : ~Suppressed(q)}
      BY <1>6 DEF SrEvaluate
    <2>2. \A q \in dirty : q \in affected /\ ~Suppressed(q)
      BY <1>1, <1>2, <2>1 DEF DirtyIsAhead, Suppressed
    <2>3. dirty' = {}
      BY <2>1, <2>2
    <2> QED
      BY <2>3 DEF DirtyIsAhead
  <1>7. CASE SrCarryForward
    <2>1. /\ UNCHANGED <<dirty, cache, finalBlock>> /\ srPc = "post" /\ finalBlock > preFinal
          /\ srPc' = "drain" /\ merged' = merged \cup postMerged
      BY <1>7 DEF SrCarryForward
    <2>2. dirty \subseteq Through(merged')
      BY <2>1 DEF DirtyIsAhead, Through
    <2> QED
      BY <1>k, <2>1, <2>2
  <1> QED
    BY <1>3, <1>4, <1>5, <1>6, <1>7 DEF SrStep

LEMMA StepKeepsDirtyAhead ==
    ASSUME InOrder = TRUE, MaxMempool = 0, SelectionFits
    PROVE  /\ OrderInv /\ DirtyIsAhead /\ dirty \subseteq Paths /\ [Next]_vars
                => DirtyIsAhead' /\ dirty' \subseteq Paths
  <1> SUFFICES ASSUME OrderInv, DirtyIsAhead, dirty \subseteq Paths, [Next]_vars
               PROVE  DirtyIsAhead' /\ dirty' \subseteq Paths
    OBVIOUS
  <1>1. CASE World \/ Simulators \/ BlockStream \/ MarketStateWorker \/ UNCHANGED vars
    <2>1. UNCHANGED <<cache, finalBlock, rates, results, srPc, preFinal, merged, affected,
                      postMerged, dirty>>
      BY <1>1 DEF World, Simulators, TakeArb, BlockStream, MarketStateWorker, vars, srVars
    <2> QED
      BY <2>1, SearcherFrame
  <1>2. CASE SearcherWorker
    <2>1. SrStep /\ UNCHANGED <<msVars, mempoolSeen>>
      BY <1>2 DEF SearcherWorker
    <2>2. dirty' \subseteq Paths
      BY <2>1 DEF SrStep, SeedV3, SeedFetch, SeedWrite, SeedRates, SrRecv, SrPreDrain, SrSelect,
                  SrEvaluate, SrPostDrain, SrCarryForward, SrKeepResults, SrEmit, SrEmitDone,
                  Absorb, Through
    <2> QED
      BY <2>1, <2>2, SearcherKeepsDirtyAhead
  <1>3. ~MempoolTouch
    BY DEF MempoolTouch, OrderInv, InSequence
  <1> QED
    BY <1>1, <1>2, <1>3 DEF Next, Resting

\* The paths offered to the simulators have the rates in force
\* (searcher_pipeline.rs, the post-evaluation drain), as long as the blocks come
\* in order and the mempool listener is off: an event then always brings a
\* later block, which is what the drain goes by when it drops the results.
THEOREM EmittedStaysCurrent ==
    ASSUME InOrder = TRUE, MaxMempool = 0
    PROVE  Spec => []EmittedIsCurrent
  <1>1. Init => OrderInv
    BY InitOrder
  <1>2. OrderInv /\ [Next]_vars => OrderInv'
    BY StepKeepsOrder
  <1>3. OrderInv => EmittedIsCurrent
    BY DEF OrderInv, ResultsAreCurrent, EmittedIsCurrent
  <1> QED
    BY <1>1, <1>2, <1>3, PTL DEF Spec

\* No path with a moved rate is forgotten between two events
\* (searcher_pipeline.rs, merged_pools and the carry-forward), on the same
\* conditions and if max_paths_per_block leaves no path out.
THEOREM MovedPathsAreEvaluated ==
    ASSUME InOrder = TRUE, MaxMempool = 0, SelectionFits
    PROVE  Spec => []MovedPathsEvaluated
  <1> DEFINE Inv == OrderInv /\ DirtyIsAhead /\ dirty \subseteq Paths
  <1>1. Init => Inv
    BY InitOrder DEF Init, SearcherInit
  <1>2. Inv /\ [Next]_vars => Inv'
    BY StepKeepsOrder, StepKeepsDirtyAhead
  <1>3. Inv => MovedPathsEvaluated
    BY DEF DirtyIsAhead, MovedPathsEvaluated
  <1> QED
    BY <1>1, <1>2, <1>3, PTL DEF Spec

-----------------------------------------------------------------------------
(* The rate cache *)

\* Nothing is cached before the seeding is done.
CacheInv ==
    /\ Seeding => \A q \in Paths : cache[q].block = 0
    /\ CacheIsExact

\* A path with unmoved rates has its rate unmoved.
LEMMA SameRates ==
    ASSUME NEW q \in Paths, \A i \in DOMAIN q : rates'[q[i]] = rates[q[i]]
    PROVE  EvaluatePath(q)' = EvaluatePath(q)
  <1>1. [i \in DOMAIN q |-> rates'[q[i]]] = [i \in DOMAIN q |-> rates[q[i]]]
    OBVIOUS
  <1> QED
    BY <1>1 DEF EvaluatePath

LEMMA CacheFrame ==
    ASSUME CacheInv, UNCHANGED <<rates, cache, dirty>>, Seeding' => Seeding
    PROVE  CacheInv'
  BY DEF CacheInv, CacheIsExact, EvaluatePath

\* An event leaves the cache, and marks every path that it moves.
LEMMA AbsorbKeepsCache ==
    ASSUME CacheInv, Absorb, ~Seeding'
    PROVE  CacheInv'
  <1> DEFINE ps == Head(poolsQ).pools
  <1>1. /\ rates' = RatesAfter(ps) /\ cache' = cache
        /\ dirty' = dirty \cup Through({p \in ps : RateOf(p, db[p]) # rates[p]})
    BY DEF Absorb
  <1> HIDE DEF ps
  <1> SUFFICES ASSUME NEW q \in Paths, cache[q].block # 0, q \notin dirty'
               PROVE  cache[q].rate = EvaluatePath(q)'
    BY <1>1 DEF CacheInv, CacheIsExact
  <1>2. \A i \in DOMAIN q : q[i] \in Pools
    BY SearcherAssumption
  <1>3. \A i \in DOMAIN q : ~(q[i] \in ps /\ RateOf(q[i], db[q[i]]) # rates[q[i]])
    BY <1>1 DEF Through
  <1>4. \A i \in DOMAIN q : rates'[q[i]] = rates[q[i]]
    BY <1>1, <1>2, <1>3 DEF RatesAfter
  <1> QED
    BY <1>1, <1>4, SameRates DEF CacheInv, CacheIsExact

LEMMA StepKeepsCache == CacheInv /\ [Next]_vars => CacheInv'
  <1> SUFFICES ASSUME CacheInv, [Next]_vars PROVE CacheInv'
    OBVIOUS
  <1>1. CASE World \/ BlockStream \/ MarketStateWorker \/ Simulators \/ MempoolTouch
             \/ UNCHANGED vars
    <2>1. UNCHANGED <<rates, cache, dirty, srPc>>
      BY <1>1 DEF World, BlockStream, MarketStateWorker, Simulators, TakeArb, MempoolTouch,
                  vars, srVars
    <2> QED
      BY <2>1, CacheFrame DEF Seeding
  <1>2. CASE SeedV3 \/ SeedFetch \/ SeedWrite \/ SeedRates
    <2>1. Seeding /\ cache' = cache
      BY <1>2 DEF SeedV3, SeedFetch, SeedWrite, SeedRates, Seeding
    <2> QED
      BY <2>1 DEF CacheInv, CacheIsExact
  <1>3. CASE SrRecv \/ SrPreDrain \/ SrPostDrain
    BY <1>3, AbsorbKeepsCache DEF SrRecv, SrPreDrain, SrPostDrain, Seeding
  <1>4. CASE SrSelect \/ SrCarryForward \/ SrKeepResults \/ SrEmit \/ SrEmitDone
    BY <1>4, CacheFrame DEF SrSelect, SrCarryForward, SrKeepResults, SrEmit, SrEmitDone, Seeding
  <1>5. CASE SrEvaluate
    <2> DEFINE evaluated == {q \in affected : ~Suppressed(q)}
    <2>1. /\ UNCHANGED rates /\ srPc' = "post" /\ dirty' = dirty \ evaluated
          /\ cache' = [q \in Paths |-> IF q \in evaluated
                                         THEN [rate |-> EvaluatePath(q), block |-> finalBlock]
                                         ELSE cache[q]]
      BY <1>5 DEF SrEvaluate
    <2> HIDE DEF evaluated
    <2>2. \A q : EvaluatePath(q)' = EvaluatePath(q)
      BY <2>1 DEF EvaluatePath
    <2> QED
      BY <2>1, <2>2 DEF CacheInv, CacheIsExact, Seeding
  <1> QED
    BY <1>1, <1>2, <1>3, <1>4, <1>5 DEF Next, SearcherWorker, SrStep, Resting

\* For every instance and every order of blocks, mempool events and failures: a
\* cached rate (cache_v2.rs, which evicts nothing) is the one that the rates in
\* force give, unless an event moved the path and it was not evaluated since.
THEOREM CacheStaysExact == Spec => []CacheIsExact
  <1>1. Init => CacheInv
    BY DEF Init, SearcherInit, CacheInv, CacheIsExact
  <1>2. CacheInv => CacheIsExact
    BY DEF CacheInv
  <1> QED
    BY <1>1, <1>2, StepKeepsCache, PTL DEF Spec

-----------------------------------------------------------------------------
(* The mirror of the chain's head *)

Queued(n) == \E i \in DOMAIN blockQ : blockQ[i] = n

\* MarketState is through with an announced block, without a failed request.
Done(n) ==
    /\ n \in announced \ missed
    /\ ~Queued(n)
    /\ ~(msBlock = n /\ msPc \in {"logs", "fetch"})

\* A pool's storage changes only in a block that touches it.
Frozen ==
    \A p \in Pools, k, j \in 1 .. Len(chain) :
        k <= j /\ (\A m \in k + 1 .. j : p \notin chain[m].touched) =>
            chain[k].state[p] = chain[j].state[p]

\* Storage v of pool p is that of a block the RPC node has, and no block that
\* is done and touches the pool is later.
RecentAt(p, v, k) ==
    /\ v = chain[k].state[p]
    /\ \A n \in announced : Done(n) /\ p \in chain[n].touched => n <= k

MirrorTypes ==
    /\ db \in Storage /\ msVals \in Storage /\ seedVals \in Storage
    /\ announced \subseteq 2 .. Len(chain)
    /\ \A i \in DOMAIN blockQ : blockQ[i] \in announced
    /\ msPc \in {"logs", "fetch", "send"} => msBlock >= 1

\* Seeding leaves V3 pools alone.
SeedsSpareV3 == \A p \in V3Pools : seedVals[p] = 0

\* What is done or being fetched is known to the RPC node.
DoneIsKnown ==
    /\ \A n \in announced : Done(n) => n <= rpcHead
    /\ msPc = "fetch" /\ (msTodo # {} \/ msBlock \notin missed) => msBlock <= rpcHead

\* Fetched storage is recent, and of a block without a failed request every
\* touched pool is fetched or still to be.
FetchIsRecent ==
    /\ msPc \in {"start", "recv", "logs"} => \A p \in Pools : msVals[p] = 0
    /\ msPc = "fetch" =>
         /\ \A p \in Pools : msVals[p] # 0 =>
              \E k \in msBlock .. rpcHead : RecentAt(p, msVals[p], k)
         /\ msBlock \notin missed =>
              \A p \in chain[msBlock].touched : p \in msTodo \/ msVals[p] # 0

\* The BlockStateDB holds recent storage of every V3 pool that was touched.
DbIsRecent ==
    \A p \in V3Pools :
        (\E n \in announced : Done(n) /\ p \in chain[n].touched) =>
            \E k \in 1 .. rpcHead : RecentAt(p, db[p], k)

MirrorInv ==
    /\ Frozen
    /\ MirrorTypes
    /\ SeedsSpareV3
    /\ msPc \in {"start", "recv", "logs", "fetch", "send"}
    /\ DoneIsKnown
    /\ FetchIsRecent
    /\ DbIsRecent

-----------------------------------------------------------------------------

\* At rest with everything read and nothing missed, the invariant says that the
\* database is at the head.
LEMMA MirrorSuffices == BlocksInv /\ MirrorInv => DbMirrorsHead
  <1> SUFFICES ASSUME BlocksInv, MirrorInv, Idle, rpcHead = Len(chain),
                      announced = 2 .. Len(chain), missed = {},
                      NEW n \in announced, NEW p \in chain[n].touched \cap V3Pools
               PROVE  db[p] = chain[Len(chain)].state[p]
    BY DEF DbMirrorsHead
  <1>1. Len(chain) \in Nat /\ rpcHead \in 1 .. Len(chain) /\ p \in V3Pools /\ p \in Pools
    BY SharedAssumption DEF BlocksInv, MarketOnChain, ChainTypes
  <1>2. \A m \in announced : Done(m)
    BY DEF Done, Queued, Idle
  <1>3. PICK k \in 1 .. rpcHead : RecentAt(p, db[p], k)
    BY <1>1, <1>2 DEF MirrorInv, DbIsRecent
  <1>4. \A m \in k + 1 .. Len(chain) : p \notin chain[m].touched
    BY <1>1, <1>2, <1>3 DEF RecentAt
  <1>5. chain[k].state[p] = chain[Len(chain)].state[p]
    BY <1>1, <1>3, <1>4 DEF MirrorInv, Frozen
  <1> QED
    BY <1>3, <1>5 DEF RecentAt

LEMMA InitMirror == Init => MirrorInv
  <1> SUFFICES ASSUME Init PROVE MirrorInv
    OBVIOUS
  <1>1. Len(chain) = 1 /\ announced = {} /\ blockQ = << >> /\ msPc = "start"
    BY DEF Init, SharedInit, MarketInit
  <1>2. db \in Storage
    BY DEF Init, SharedInit, Storage, States
  <1>3. msVals \in Storage /\ seedVals \in Storage /\ \A p \in Pools : msVals[p] = 0 /\ seedVals[p] = 0
    BY DEF Init, MarketInit, SearcherInit, NoVals, Storage
  <1>4. Frozen
    BY <1>1 DEF Frozen
  <1> QED
    BY <1>1, <1>2, <1>3, <1>4, SharedAssumption
       DEF MirrorInv, MirrorTypes, SeedsSpareV3, DoneIsKnown, FetchIsRecent, DbIsRecent

\* A step after which no further block is done, and which leaves the chain and
\* the database's V3 pools alone, keeps what is known and recent.
LEMMA NothingNewDone ==
    ASSUME BlocksInv, MirrorInv, UNCHANGED <<chain, rpcHead>>,
           \A n \in announced' : Done(n)' => n \in announced /\ Done(n),
           \A p \in V3Pools : db'[p] = db[p]
    PROVE  /\ \A n \in announced' : Done(n)' => n <= rpcHead'
           /\ DbIsRecent'
           /\ \A p \in Pools : \A v, k : RecentAt(p, v, k) => RecentAt(p, v, k)'
  <1>1. \A p \in Pools : \A v, k : RecentAt(p, v, k) => RecentAt(p, v, k)'
    BY DEF RecentAt
  <1>2. DbIsRecent'
    BY <1>1, SharedAssumption DEF MirrorInv, DbIsRecent
  <1> QED
    BY <1>1, <1>2 DEF MirrorInv, DoneIsKnown

\* The chain grows or the RPC node follows it.
LEMMA ChainKeepsMirror ==
    ASSUME BlocksInv, MirrorInv, World
    PROVE  MirrorInv'
  <1>1. /\ Len(chain) \in Nat /\ rpcHead \in 1 .. Len(chain)
        /\ msBlock \in 0 .. Len(chain)
        /\ announced \subseteq 2 .. Len(chain)
        /\ chain \in Seq(BlockRecords)
    BY DEF BlocksInv, MarketOnChain, ChainTypes, OnChain, MirrorInv, MirrorTypes
  <1>2. /\ UNCHANGED <<db, announced, blockQ, missed, msPc, msBlock, msTodo, msVals, seedVals>>
        /\ \A n : Done(n)' <=> Done(n)
    BY DEF World, Mine, RpcSync, msVars, msWork, srVars, broadcast, Done, Queued
  <1>3. /\ Len(chain') \in Nat /\ Len(chain) <= Len(chain')
        /\ rpcHead' \in rpcHead .. Len(chain')
        /\ \A k \in 1 .. Len(chain) : chain'[k] = chain[k]
        /\ Frozen'
    <2>1. CASE Mine
      <3>1. PICK ts \in SUBSET (Pools \ ExoticPools), st \in States :
              /\ \A p \in Pools \ ts : st[p] = chain[Len(chain)].state[p]
              /\ chain' = Append(chain, [touched |-> ts, state |-> st])
        BY <2>1 DEF Mine
      <3>2. [touched |-> ts, state |-> st] \in BlockRecords
        BY DEF BlockRecords
      <3>3. /\ Len(chain') = Len(chain) + 1
            /\ \A k \in 1 .. Len(chain) : chain'[k] = chain[k]
            /\ chain'[Len(chain) + 1] = [touched |-> ts, state |-> st]
        BY <1>1, <3>1, <3>2
      <3>4. ASSUME NEW p \in Pools, NEW k \in 1 .. Len(chain'), NEW j \in 1 .. Len(chain'),
                   k <= j, \A m \in k + 1 .. j : p \notin chain'[m].touched
            PROVE  chain'[k].state[p] = chain'[j].state[p]
        <4>1. CASE j \in 1 .. Len(chain)
          <5>1. k \in 1 .. Len(chain) /\ \A m \in k + 1 .. j : p \notin chain[m].touched
            BY <1>1, <3>3, <3>4, <4>1
          <5> QED
            BY <3>3, <3>4, <4>1, <5>1 DEF MirrorInv, Frozen
        <4>2. CASE j = Len(chain) + 1 /\ k = j
          BY <4>2
        <4>3. CASE j = Len(chain) + 1 /\ k # j
          <5>1. k \in 1 .. Len(chain) /\ Len(chain) \in 1 .. Len(chain)
            BY <1>1, <3>3, <3>4, <4>3
          <5>2. \A m \in k + 1 .. Len(chain) : p \notin chain[m].touched
            BY <1>1, <3>3, <3>4, <4>3
          <5>3. p \notin ts
            BY <1>1, <3>3, <3>4, <4>3
          <5>4. chain[k].state[p] = chain[Len(chain)].state[p]
            BY <1>1, <5>1, <5>2 DEF MirrorInv, Frozen
          <5> QED
            BY <3>1, <3>3, <4>3, <5>1, <5>3, <5>4
        <4> QED
          BY <1>1, <3>3, <4>1, <4>2, <4>3
      <3>5. Frozen'
        BY <3>4 DEF Frozen
      <3>6. rpcHead' = rpcHead
        BY <2>1 DEF Mine
      <3> QED
        BY <1>1, <3>3, <3>5, <3>6
    <2>2. CASE RpcSync
      <3>1. chain' = chain /\ rpcHead' = rpcHead + 1 /\ rpcHead < Len(chain)
        BY <2>2 DEF RpcSync
      <3>2. Frozen'
        BY <3>1 DEF MirrorInv, Frozen
      <3> QED
        BY <1>1, <3>1, <3>2
    <2> QED
      BY <2>1, <2>2 DEF World
  <1>4. \A n \in announced : chain'[n] = chain[n]
    BY <1>1, <1>3
  <1>5. ASSUME NEW p \in Pools, NEW v, NEW k \in 1 .. rpcHead, RecentAt(p, v, k)
        PROVE  RecentAt(p, v, k)'
    BY <1>1, <1>2, <1>3, <1>4, <1>5 DEF RecentAt
  <1>6. MirrorTypes'
    BY <1>1, <1>2, <1>3 DEF MirrorInv, MirrorTypes
  <1>7. DoneIsKnown'
    BY <1>1, <1>2, <1>3 DEF MirrorInv, DoneIsKnown
  <1>8. FetchIsRecent'
    <2>1. ASSUME msPc = "fetch"
          PROVE  msBlock \in 1 .. Len(chain) /\ msBlock .. rpcHead \subseteq 1 .. rpcHead
      BY <1>1, <2>1 DEF MirrorInv, MirrorTypes, DoneIsKnown
    <2>2. ASSUME msPc = "fetch", NEW p \in Pools, msVals[p] # 0
          PROVE  \E k \in msBlock .. rpcHead' : RecentAt(p, msVals[p], k)'
      <3>1. PICK k \in msBlock .. rpcHead : RecentAt(p, msVals[p], k)
        BY <2>2 DEF MirrorInv, FetchIsRecent
      <3> QED
        BY <1>1, <1>2, <1>3, <1>5, <2>1, <2>2, <3>1
    <2>3. msPc = "fetch" => chain'[msBlock] = chain[msBlock]
      BY <1>3, <2>1
    <2> QED
      BY <1>2, <2>2, <2>3 DEF MirrorInv, FetchIsRecent
  <1>9. DbIsRecent'
    <2> SUFFICES ASSUME NEW p \in V3Pools, NEW n \in announced, Done(n), p \in chain[n].touched
                 PROVE  \E k \in 1 .. rpcHead' : RecentAt(p, db[p], k)'
      BY <1>2, <1>4 DEF DbIsRecent
    <2>1. PICK k \in 1 .. rpcHead : RecentAt(p, db[p], k)
      BY DEF MirrorInv, DbIsRecent
    <2>2. p \in Pools /\ k \in 1 .. rpcHead'
      BY <1>1, <1>3, SharedAssumption
    <2> QED
      BY <1>2, <1>5, <2>1, <2>2
  <1> QED
    BY <1>2, <1>3, <1>6, <1>7, <1>8, <1>9 DEF MirrorInv, SeedsSpareV3

\* A block is announced: it is queued, and what the queue loses is missed.
LEMMA AnnounceKeepsMirror ==
    ASSUME BlocksInv, MirrorInv, BlockStream
    PROVE  MirrorInv'
  <1>1. PICK n \in 2 .. MaxBlock : Announce(n)
    BY DEF BlockStream
  <1>2. /\ n \in 2 .. Len(chain) /\ announced' = announced \cup {n}
        /\ UNCHANGED <<chain, rpcHead, db, msPc, msBlock, msTodo, msVals, seedVals>>
        /\ missed \subseteq missed'
    BY <1>1 DEF Announce, shared, msWork, srVars, BlockStream
  <1>3. Len(chain) \in Nat /\ blockQ \in Seq(OnChain)
    BY DEF BlocksInv, MarketOnChain, ChainTypes
  <1>4. /\ \A i \in DOMAIN blockQ' : blockQ'[i] \in announced'
        /\ Queued(n)'
        /\ \A m : Queued(m) => Queued(m)' \/ m \in missed'
    <2>1. n \in OnChain
      BY <1>2, <1>3 DEF OnChain
    <2>2. CASE blockQ' = Append(blockQ, n)
      <3>1. /\ Len(blockQ') = Len(blockQ) + 1 /\ blockQ'[Len(blockQ) + 1] = n
            /\ \A i \in 1 .. Len(blockQ) : blockQ'[i] = blockQ[i]
            /\ DOMAIN blockQ' = 1 .. Len(blockQ) + 1 /\ DOMAIN blockQ = 1 .. Len(blockQ)
            /\ Len(blockQ) \in Nat
        BY <1>3, <2>1, <2>2
      <3> QED
        BY <1>2, <3>1 DEF Queued, MirrorInv, MirrorTypes
    <2>3. CASE blockQ' = Append(Tail(blockQ), n) /\ ~(Len(blockQ) < BroadcastCap)
                 /\ missed' = missed \cup {Head(blockQ)}
      <3>1. blockQ # << >> /\ Len(blockQ) \in Nat \ {0}
        BY <1>3, <2>3, MarketAssumption
      <3>2. /\ DOMAIN blockQ' = 1 .. Len(blockQ) /\ blockQ'[Len(blockQ)] = n
            /\ DOMAIN blockQ = 1 .. Len(blockQ)
            /\ \A i \in 1 .. Len(blockQ) - 1 : blockQ'[i] = blockQ[i + 1]
            /\ Head(blockQ) = blockQ[1]
        BY <1>3, <2>1, <2>3, <3>1
      <3>3. \A i \in DOMAIN blockQ' : blockQ'[i] \in announced'
        BY <1>2, <3>1, <3>2 DEF MirrorInv, MirrorTypes
      <3>4. Queued(n)'
        BY <3>1, <3>2 DEF Queued
      <3>5. ASSUME NEW i \in DOMAIN blockQ, i # 1
            PROVE  \E j \in DOMAIN blockQ' : blockQ'[j] = blockQ[i]
        <4>1. i - 1 \in DOMAIN blockQ' /\ blockQ'[i - 1] = blockQ[i]
          BY <3>1, <3>2, <3>5
        <4> QED
          BY <4>1
      <3>6. \A m : Queued(m) => Queued(m)' \/ m \in missed'
        BY <2>3, <3>2, <3>5 DEF Queued
      <3> QED
        BY <3>3, <3>4, <3>6
    <2> QED
      BY <1>1, <2>2, <2>3 DEF Announce
  <1>5. \A m \in announced' : Done(m)' => m \in announced /\ Done(m)
    BY <1>2, <1>4 DEF Done
  <1>6. /\ \A m \in announced' : Done(m)' => m <= rpcHead'
        /\ DbIsRecent'
        /\ \A p \in Pools : \A v, k : RecentAt(p, v, k) => RecentAt(p, v, k)'
    BY <1>2, <1>5, NothingNewDone
  <1>7. FetchIsRecent'
    BY <1>2, <1>6 DEF MirrorInv, FetchIsRecent
  <1>8. MirrorTypes' /\ Frozen' /\ SeedsSpareV3' /\ DoneIsKnown'
    BY <1>2, <1>4, <1>6 DEF MirrorInv, MirrorTypes, Frozen, SeedsSpareV3, DoneIsKnown
  <1> QED
    BY <1>2, <1>6, <1>7, <1>8 DEF MirrorInv

\* MarketState at work on its blocks.
LEMMA MarketKeepsMirror ==
    ASSUME BlocksInv, MirrorInv, MsStep, UNCHANGED srVars
    PROVE  MirrorInv'
  <1>1. /\ Len(chain) \in Nat /\ rpcHead \in 1 .. Len(chain) /\ msBlock \in 0 .. Len(chain)
        /\ chain \in Seq(BlockRecords) /\ blockQ \in Seq(OnChain)
        /\ msEnd \in 0 .. Len(chain)
    BY DEF BlocksInv, MarketOnChain, ChainTypes, OnChain
  <1>2. /\ Frozen /\ MirrorTypes /\ SeedsSpareV3 /\ DoneIsKnown /\ FetchIsRecent /\ DbIsRecent
    BY DEF MirrorInv
  <1>3. UNCHANGED <<chain, rpcHead, announced, seedVals>>
    BY DEF MsStep, MsCatchUp, MsNoCatchUp, MsLagged, MsRecv, MsGetLogs, MsGetLogsFail, MsFetch,
           MsApply, MsSend, srVars, shared, broadcast
  <1>4. Frozen' /\ SeedsSpareV3'
    BY <1>2, <1>3 DEF Frozen, SeedsSpareV3
  <1>s. \A p \in Pools : \A k \in 1 .. Len(chain) : chain[k].state[p] \in Rates /\ chain[k].state[p] # 0
    <2> SUFFICES ASSUME NEW p \in Pools, NEW k \in 1 .. Len(chain)
                 PROVE  chain[k].state[p] \in Rates
      BY SharedAssumption
    <2>1. chain[k] \in BlockRecords
      BY <1>1
    <2> QED
      BY <2>1 DEF BlockRecords, States
  \* Steps after which nothing more is done and nothing is being fetched.
  <1>k. ASSUME \A n \in announced : Done(n)' => Done(n), db' = db,
               msPc' \in {"recv", "logs"}, msPc' = "logs" => msBlock' >= 1,
               \A p \in Pools : msVals'[p] = 0, msVals' \in Storage,
               \A i \in DOMAIN blockQ' : blockQ'[i] \in announced
        PROVE  MirrorInv'
    <2>1. (\A n \in announced' : Done(n)' => n <= rpcHead') /\ DbIsRecent'
      BY <1>3, <1>k, NothingNewDone
    <2>2. MirrorTypes'
      BY <1>2, <1>3, <1>k DEF MirrorTypes
    <2> QED
      BY <1>3, <1>4, <1>k, <2>1, <2>2 DEF MirrorInv, DoneIsKnown, FetchIsRecent
  <1>v. msPc \in {"start", "recv", "logs"} => \A p \in Pools : msVals[p] = 0
    BY <1>2 DEF FetchIsRecent
  <1>e. ASSUME EndBlock, msBlock >= 1
        PROVE  /\ msPc' \in {"recv", "logs"}
               /\ msPc' = "logs" => msBlock' >= 1
               /\ \A p \in Pools : msVals'[p] = 0
               /\ msVals' \in Storage
    BY <1>1, <1>e DEF EndBlock, NoVals, Storage
  <1>5. CASE MsCatchUp \/ MsNoCatchUp
    <2>1. /\ msPc = "start" /\ db' = db /\ blockQ' = blockQ /\ missed' = missed
          /\ msVals' = msVals /\ msPc' \in {"recv", "logs"}
          /\ msPc' = "logs" => msBlock' = LastSynced + 1
      BY <1>5 DEF MsCatchUp, MsNoCatchUp, TraceBlock, shared, broadcast, msWork
    <2>2. \A n \in announced : Done(n)' => Done(n)
      BY <1>3, <2>1 DEF Done, Queued
    <2> QED
      BY <1>2, <1>k, <1>v, <2>1, <2>2, MarketAssumption DEF MirrorTypes
  <1>6. CASE MsLagged
    <2>1. /\ msPc = "recv" /\ db' = db /\ blockQ' = blockQ /\ missed' = missed
          /\ msVals' = msVals /\ msPc' = msPc /\ msBlock' = msBlock
      BY <1>6 DEF MsLagged, shared, msWork
    <2>2. \A n \in announced : Done(n)' => Done(n)
      BY <1>3, <2>1 DEF Done, Queued
    <2> QED
      BY <1>2, <1>k, <1>v, <2>1, <2>2 DEF MirrorTypes
  <1>7. CASE MsRecv
    <2>1. /\ msPc = "recv" /\ db' = db /\ blockQ # << >> /\ blockQ' = Tail(blockQ)
          /\ missed' = missed /\ msVals' = msVals /\ msPc' = "logs" /\ msBlock' = Head(blockQ)
      BY <1>7 DEF MsRecv, TraceBlock, shared
    <2>2. /\ Len(blockQ) \in Nat \ {0} /\ DOMAIN blockQ = 1 .. Len(blockQ)
          /\ DOMAIN blockQ' = 1 .. Len(blockQ) - 1
          /\ \A i \in 1 .. Len(blockQ) - 1 : blockQ'[i] = blockQ[i + 1]
          /\ Head(blockQ) = blockQ[1]
      BY <1>1, <2>1
    <2>3. \A i \in DOMAIN blockQ' : blockQ'[i] \in announced
      BY <1>2, <2>2 DEF MirrorTypes
    <2>4. msBlock' \in announced /\ msBlock' >= 1
      <3>1. 1 \in DOMAIN blockQ /\ msBlock' = blockQ[1]
        BY <2>1, <2>2
      <3>2. msBlock' \in announced
        BY <1>2, <3>1 DEF MirrorTypes
      <3>3. msBlock' \in 2 .. Len(chain)
        BY <1>2, <3>2 DEF MirrorTypes
      <3> QED
        BY <1>1, <3>2, <3>3
    <2>5. \A n \in announced : Done(n)' => Done(n)
      <3> SUFFICES ASSUME NEW n \in announced, Done(n)' PROVE Done(n)
        OBVIOUS
      <3>1. n # Head(blockQ) /\ n \notin missed /\ ~Queued(n)'
        BY <2>1 DEF Done
      <3>2. ASSUME NEW i \in DOMAIN blockQ, blockQ[i] = n PROVE FALSE
        <4>1. i # 1
          BY <2>2, <3>1, <3>2
        <4>2. i - 1 \in DOMAIN blockQ' /\ blockQ'[i - 1] = n
          BY <2>2, <3>2, <4>1
        <4> QED
          BY <3>1, <4>2 DEF Queued
      <3> QED
        BY <2>1, <3>1, <3>2 DEF Done, Queued
    <2> QED
      BY <1>2, <1>k, <1>v, <2>1, <2>3, <2>4, <2>5 DEF MirrorTypes
  <1>8. CASE MsGetLogs
    <2>1. /\ msPc = "logs" /\ msPc' = "fetch" /\ msBlock' = msBlock
          /\ \/ msBlock <= rpcHead /\ msTodo' = chain[msBlock].touched /\ missed' = missed
             \/ msTodo' = {} /\ missed' = missed \cup {msBlock}
          /\ UNCHANGED <<db, blockQ, msVals>>
      BY <1>8 DEF MsGetLogs, shared, broadcast
    <2>2. \A n \in announced' : Done(n)' => n \in announced /\ Done(n)
      BY <1>3, <2>1 DEF Done, Queued
    <2>3. (\A n \in announced' : Done(n)' => n <= rpcHead') /\ DbIsRecent'
      BY <1>3, <2>1, <2>2, NothingNewDone
    <2>4. FetchIsRecent'
      BY <1>3, <1>v, <2>1 DEF FetchIsRecent
    <2>5. MirrorTypes' /\ DoneIsKnown'
      BY <1>2, <1>3, <2>1, <2>3 DEF MirrorTypes, DoneIsKnown
    <2> QED
      BY <1>4, <2>1, <2>3, <2>4, <2>5 DEF MirrorInv
  <1>9. CASE MsGetLogsFail
    <2>1. /\ msPc = "logs" /\ UNCHANGED <<db, blockQ>> /\ msBlock >= 1
      BY <1>2, <1>9 DEF MsGetLogsFail, shared, broadcast, MirrorTypes
    <2>2. CASE UNCHANGED <<msPc, msBlock, msVals, missed>>
      <3>1. \A n \in announced : Done(n)' => Done(n)
        BY <1>3, <2>1, <2>2 DEF Done, Queued
      <3> QED
        BY <1>2, <1>k, <1>v, <2>1, <2>2, <3>1 DEF MirrorTypes
    <2>3. CASE EndBlock /\ missed' = missed \cup {msBlock}
      <3>1. \A n \in announced : Done(n)' => Done(n)
        BY <1>3, <2>1, <2>3 DEF Done, Queued
      <3> QED
        BY <1>2, <1>k, <1>e, <2>1, <2>3, <3>1 DEF MirrorTypes
    <2> QED
      BY <1>9, <2>2, <2>3 DEF MsGetLogsFail
  <1>10. ASSUME NEW p \in Pools, MsFetch(p) PROVE MirrorInv'
    <2>1. /\ msPc = "fetch" /\ p \in msTodo /\ msTodo' = msTodo \ {p}
          /\ UNCHANGED <<db, blockQ, msPc, msBlock>>
          /\ \/ msVals' = [msVals EXCEPT ![p] = Latest[p]] /\ missed' = missed
             \/ missed' = missed \cup {msBlock} /\ msVals' = msVals
      BY <1>10 DEF MsFetch, shared, broadcast
    <2>2. \A n \in announced' : Done(n)' => n \in announced /\ Done(n)
      BY <1>3, <2>1 DEF Done, Queued
    <2>3. /\ (\A n \in announced' : Done(n)' => n <= rpcHead') /\ DbIsRecent'
          /\ \A q \in Pools : \A v, k : RecentAt(q, v, k) => RecentAt(q, v, k)'
      BY <1>3, <2>1, <2>2, NothingNewDone
    <2>4. Latest[p] \in Rates \cup {0} /\ Latest[p] # 0 /\ RecentAt(p, Latest[p], rpcHead)
      BY <1>1, <1>2, <1>s DEF Latest, RecentAt, DoneIsKnown
    <2>5. msVals' \in Storage
      BY <1>2, <2>1, <2>4 DEF MirrorTypes, Storage
    <2>6. \A q \in Pools : msVals'[q] # 0 => \E k \in msBlock .. rpcHead : RecentAt(q, msVals'[q], k)
      <3> SUFFICES ASSUME NEW q \in Pools, msVals'[q] # 0
                   PROVE  \E k \in msBlock .. rpcHead : RecentAt(q, msVals'[q], k)
        OBVIOUS
      <3>1. CASE msVals'[q] = msVals[q]
        BY <1>2, <2>1, <3>1 DEF FetchIsRecent
      <3>2. CASE q = p /\ msVals'[q] = Latest[p]
        <4>1. rpcHead \in msBlock .. rpcHead
          BY <1>1, <1>2, <2>1 DEF DoneIsKnown
        <4> QED
          BY <2>4, <3>2, <4>1
      <3> QED
        BY <1>2, <2>1, <3>1, <3>2 DEF MirrorTypes, Storage
    <2>7. msBlock \notin missed' =>
            \A q \in chain[msBlock].touched \cap Pools : q \in msTodo' \/ msVals'[q] # 0
      BY <1>2, <2>1, <2>4 DEF FetchIsRecent, MirrorTypes, Storage
    <2>8. msBlock \notin missed' => chain[msBlock].touched \subseteq Pools
      <3>1. msBlock \in 1 .. Len(chain)
        BY <1>1, <1>2, <2>1 DEF MirrorTypes
      <3>2. chain[msBlock] \in BlockRecords
        BY <1>1, <3>1
      <3> QED
        BY <3>2 DEF BlockRecords
    <2>9. FetchIsRecent'
      <3>1. ASSUME NEW q \in Pools, msVals'[q] # 0
            PROVE  \E k \in msBlock .. rpcHead : RecentAt(q, msVals[q], k)'
        <4>1. PICK k \in msBlock .. rpcHead : RecentAt(q, msVals'[q], k)
          BY <2>6, <3>1
        <4>2. RecentAt(q, msVals[q], k)'
          BY <1>3, <2>2, <4>1 DEF RecentAt
        <4> QED
          BY <4>2
      <3> QED
        BY <1>3, <2>1, <2>7, <2>8, <3>1 DEF FetchIsRecent
    <2>10. MirrorTypes' /\ DoneIsKnown'
      BY <1>2, <1>3, <2>1, <2>3, <2>5 DEF MirrorTypes, DoneIsKnown
    <2> QED
      BY <1>4, <2>1, <2>3, <2>9, <2>10 DEF MirrorInv
  <1>11. CASE MsApply
    <2>1. /\ msPc = "fetch" /\ msTodo = {} /\ UpdateSlots(msVals)
          /\ UNCHANGED <<blockQ, missed>>
          /\ \/ msPc' = "send" /\ msVals' = msVals /\ msBlock' = msBlock
             \/ EndBlock
      BY <1>11 DEF MsApply, broadcast, msWork
    <2>2. msBlock >= 1 /\ msBlock \in Nat /\ (msBlock \notin missed => msBlock <= rpcHead)
      BY <1>1, <1>2, <2>1 DEF MirrorTypes, DoneIsKnown
    <2>3. /\ db' \in Storage
          /\ \A p \in Pools : db'[p] = IF msVals[p] # 0 THEN msVals[p] ELSE db[p]
      BY <1>2, <2>1 DEF UpdateSlots, MirrorTypes, Storage
    <2>4. \A n \in announced : Done(n)' => Done(n) \/ (n = msBlock /\ n \notin missed)
      BY <1>3, <2>1 DEF Done, Queued
    <2>5. DbIsRecent'
      <3> SUFFICES ASSUME NEW p \in V3Pools, NEW n \in announced, Done(n)', p \in chain[n].touched
                   PROVE  \E k \in 1 .. rpcHead : RecentAt(p, db[p], k)'
        BY <1>3 DEF DbIsRecent
      <3>1. p \in Pools
        BY SharedAssumption
      <3>2. CASE msVals[p] # 0
        <4>1. PICK k \in msBlock .. rpcHead : RecentAt(p, msVals[p], k)
          BY <1>2, <2>1, <3>1, <3>2 DEF FetchIsRecent
        <4>2. k \in 1 .. rpcHead
          BY <1>1, <2>2, <4>1
        <4>3. db'[p] = chain[k].state[p]
          BY <2>3, <3>1, <3>2, <4>1 DEF RecentAt
        <4>4. \A m \in announced : Done(m)' /\ p \in chain[m].touched => m <= k
          BY <1>1, <2>2, <2>4, <4>1 DEF RecentAt
        <4> QED
          BY <1>3, <4>2, <4>3, <4>4 DEF RecentAt
      <3>3. CASE msVals[p] = 0
        <4>1. msBlock \in missed \/ p \notin chain[msBlock].touched
          BY <1>2, <2>1, <3>3 DEF FetchIsRecent
        <4>2. \A m \in announced : Done(m)' /\ p \in chain[m].touched => Done(m)
          BY <2>4, <4>1
        <4>3. PICK k \in 1 .. rpcHead : RecentAt(p, db[p], k)
          BY <1>2, <4>2 DEF DbIsRecent
        <4>4. db'[p] = db[p]
          BY <2>3, <3>1, <3>3
        <4> QED
          BY <1>3, <4>2, <4>3, <4>4 DEF RecentAt
      <3> QED
        BY <3>2, <3>3
    <2>6. \A n \in announced' : Done(n)' => n <= rpcHead'
      BY <1>1, <1>2, <1>3, <2>2, <2>4 DEF DoneIsKnown
    <2>7. CASE msPc' = "send" /\ msVals' = msVals /\ msBlock' = msBlock
      BY <1>1, <1>2, <1>3, <1>4, <2>1, <2>2, <2>3, <2>5, <2>6, <2>7
         DEF MirrorInv, MirrorTypes, DoneIsKnown, FetchIsRecent
    <2>8. CASE EndBlock
      <3>1. /\ msPc' \in {"recv", "logs"}
            /\ msPc' = "logs" => msBlock' >= 1
            /\ \A p \in Pools : msVals'[p] = 0
            /\ msVals' \in Storage
        BY <1>1, <1>e, <2>2, <2>8
      <3> QED
        BY <1>2, <1>3, <1>4, <2>1, <2>3, <2>5, <2>6, <3>1
           DEF MirrorInv, MirrorTypes, DoneIsKnown, FetchIsRecent
    <2> QED
      BY <2>1, <2>7, <2>8
  <1>12. CASE MsSend
    <2>1. msPc = "send" /\ EndBlock /\ UNCHANGED <<db, blockQ, missed>>
      BY <1>12 DEF MsSend, broadcast
    <2>2. msBlock >= 1
      BY <1>2, <2>1 DEF MirrorTypes
    <2>3. \A n \in announced : Done(n)' => Done(n)
      BY <1>3, <2>1 DEF Done, Queued
    <2> QED
      BY <1>2, <1>k, <1>e, <2>1, <2>2, <2>3 DEF MirrorTypes
  <1> QED
    BY <1>5, <1>6, <1>7, <1>8, <1>9, <1>10, <1>11, <1>12 DEF MsStep

\* A step that MarketState and the chain take no part in, and that leaves the
\* V3 pools of the database and of the seeding alone.
LEMMA OthersKeepMirror ==
    ASSUME BlocksInv, MirrorInv, UNCHANGED <<chain, rpcHead, msVars>>,
           db' \in Storage, \A p \in V3Pools : db'[p] = db[p],
           seedVals' \in Storage, \A p \in V3Pools : seedVals'[p] = 0
    PROVE  MirrorInv'
  <1>1. UNCHANGED <<chain, rpcHead, announced, blockQ, missed, msPc, msBlock, msTodo, msVals>>
    BY DEF msVars, msWork, broadcast
  <1>2. \A n \in announced' : Done(n)' => n \in announced /\ Done(n)
    BY <1>1 DEF Done, Queued
  <1>3. /\ \A n \in announced' : Done(n)' => n <= rpcHead'
        /\ DbIsRecent'
        /\ \A p \in Pools : \A v, k : RecentAt(p, v, k) => RecentAt(p, v, k)'
    BY <1>1, <1>2, NothingNewDone
  <1>4. FetchIsRecent'
    BY <1>1, <1>3 DEF MirrorInv, FetchIsRecent
  <1>5. MirrorTypes' /\ Frozen' /\ SeedsSpareV3' /\ DoneIsKnown'
    BY <1>1, <1>3 DEF MirrorInv, MirrorTypes, Frozen, SeedsSpareV3, DoneIsKnown
  <1> QED
    BY <1>1, <1>3, <1>4, <1>5 DEF MirrorInv

\* The searcher writes to the database only what the seeding fetched, of V2
\* pools.
LEMMA SearcherKeepsMirror ==
    ASSUME BlocksInv, MirrorInv, SrStep, UNCHANGED msVars
    PROVE  MirrorInv'
  <1>1. UNCHANGED <<chain, rpcHead>>
    BY DEF SrStep, SeedV3, SeedFetch, SeedWrite, SeedRates, SrRecv, SrPreDrain, SrSelect,
           SrEvaluate, SrPostDrain, SrCarryForward, SrKeepResults, SrEmit, SrEmitDone,
           Absorb, shared
  <1>2. /\ db \in Storage /\ seedVals \in Storage /\ \A p \in V3Pools : seedVals[p] = 0
    BY DEF MirrorInv, MirrorTypes, SeedsSpareV3
  <1>3. CASE SeedFetch
    <2>1. PICK failed \in SUBSET V2Pools :
            seedVals' = [p \in Pools |-> IF p \in V2Pools \ failed THEN Latest[p] ELSE 0]
      BY <1>3 DEF SeedFetch
    <2>2. ASSUME NEW p \in Pools PROVE Latest[p] \in Rates
      <3>1. chain \in Seq(BlockRecords) /\ rpcHead \in 1 .. Len(chain)
        BY DEF BlocksInv, MarketOnChain, ChainTypes
      <3>2. chain[rpcHead] \in BlockRecords
        BY <3>1
      <3> QED
        BY <3>2 DEF BlockRecords, States, Latest
    <2>3. seedVals' \in Storage /\ \A p \in V3Pools : seedVals'[p] = 0
      BY <2>1, <2>2, SharedAssumption DEF Storage, V2Pools
    <2>4. db' = db
      BY <1>3 DEF SeedFetch, shared
    <2> QED
      BY <1>1, <1>2, <2>3, <2>4, OthersKeepMirror
  <1>4. CASE SeedWrite
    <2>1. db' \in Storage /\ \A p \in V3Pools : db'[p] = db[p]
      BY <1>2, <1>4, SharedAssumption DEF SeedWrite, UpdateSlots, Storage
    <2>2. seedVals' \in Storage /\ \A p \in V3Pools : seedVals'[p] = 0
      BY <1>4, SharedAssumption DEF SeedWrite, Storage
    <2> QED
      BY <1>1, <2>1, <2>2, OthersKeepMirror
  <1>5. CASE ~SeedFetch /\ ~SeedWrite
    <2>1. db' = db /\ seedVals' = seedVals
      BY <1>5 DEF SrStep, SeedV3, SeedRates, SrRecv, SrPreDrain, SrSelect, SrEvaluate,
                  SrPostDrain, SrCarryForward, SrKeepResults, SrEmit, SrEmitDone, Absorb, shared
    <2> QED
      BY <1>1, <1>2, <2>1, OthersKeepMirror
  <1> QED
    BY <1>3, <1>4, <1>5

LEMMA StepKeepsMirror == BlocksInv /\ MirrorInv /\ [Next]_vars => MirrorInv'
  <1> SUFFICES ASSUME BlocksInv, MirrorInv, [Next]_vars PROVE MirrorInv'
    OBVIOUS
  <1>0. /\ db \in Storage /\ seedVals \in Storage
        /\ \A p \in V3Pools : seedVals[p] = 0
    BY DEF MirrorInv, MirrorTypes, SeedsSpareV3
  <1>1. CASE World
    BY <1>1, ChainKeepsMirror
  <1>2. CASE BlockStream
    BY <1>2, AnnounceKeepsMirror
  <1>3. CASE MarketStateWorker
    BY <1>3, MarketKeepsMirror DEF MarketStateWorker
  <1>4. CASE SearcherWorker
    BY <1>4, SearcherKeepsMirror DEF SearcherWorker
  <1>5. CASE Simulators
    BY <1>0, <1>5, OthersKeepMirror DEF Simulators, TakeArb, shared
  <1>6. CASE MempoolTouch
    BY <1>0, <1>6, OthersKeepMirror DEF MempoolTouch, srVars
  <1>7. CASE Resting \/ UNCHANGED vars
    BY <1>0, <1>7, OthersKeepMirror DEF Resting, vars, shared, srVars
  <1> QED
    BY <1>1, <1>2, <1>3, <1>4, <1>5, <1>6, <1>7 DEF Next

\* "In-memory REVM database that mirrors on-chain state for tracked pools"
\* (state_db.rs:109): whatever the order of the blocks, the lag of the RPC node
\* and the failures along the way, once all blocks are handled and none was
\* missed, every V3 pool touched since the start has the head's storage.
THEOREM DatabaseMirrorsHead == Spec => []DbMirrorsHead
  <1>1. Init => BlocksInv /\ MirrorInv
    BY InitBlocks, InitMirror
  <1>2. BlocksInv /\ MirrorInv /\ [Next]_vars => BlocksInv' /\ MirrorInv'
    BY StepKeepsBlocks, StepKeepsMirror
  <1>3. BlocksInv /\ MirrorInv => DbMirrorsHead
    BY MirrorSuffices
  <1> QED
    BY <1>1, <1>2, <1>3, PTL DEF Spec
=============================================================================
