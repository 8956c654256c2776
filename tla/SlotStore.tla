----------------------------- MODULE SlotStore -----------------------------
(***************************************************************************)
(* The BlockStateDB (src/src/state_db.rs) slot by slot, with the workers   *)
(* that share it: MarketState refreshes the slots that trace_block_diffs   *)
(* knows of (src/src/tracing_revm.rs), the searcher seeds the reserves of  *)
(* V2 pools meanwhile (src/src/searcher_pipeline.rs), and a simulator runs *)
(* on a snapshot, fetches what is missing in it, and writes that back      *)
(* (src/src/sim_db.rs, simulate_and_optimize in                            *)
(* src/src/simulator_pipeline.rs).                                         *)
(*                                                                         *)
(* The value of a slot is abstracted to the block that wrote it, so that   *)
(* an older value is a smaller one.  The model starts when the workers     *)
(* are spawned, before the first block is announced.                       *)
(***************************************************************************)
EXTENDS Integers, FiniteSets, FiniteSetsExt, Sequences

CONSTANTS
    Pools,       \* tracked pools
    Slots,       \* storage slots of all pools
    PoolOf,      \* the pool of each slot
    Traced,      \* slots fetched for a pool with a log: 8, or 0 and 4
    Prefetched,  \* slots that are loaded at startup
    Seeded,      \* slots that the searcher seeds: 8 of each V2-style pool
    Workers,     \* simulator workers
    RpcMayFail,  \* whether a request to the RPC node may fail
    MaxBlock     \* bound: length of the chain

ASSUME SlotAssumption ==
    /\ PoolOf \in [Slots -> Pools]
    /\ Traced \subseteq Slots
    /\ Prefetched \subseteq Slots
    /\ Seeded \subseteq Slots
    /\ RpcMayFail \in BOOLEAN
    /\ MaxBlock \in Nat \ {0}

Absent == -1  \* no entry
Zero == 0     \* the value taken for the answer to a request that failed

VARIABLES
    chain,    \* blocks from 1: the slots it wrote, the pools with a traced log
    rpcHead,  \* the block that "latest" means to the RPC node
    db,       \* BlockStateDB: the value held of each slot
    msPc,     \* where MarketState is
    msBlock,  \* the block it works on
    msTodo,   \* slots it has still to fetch
    diffs,    \* values fetched, not yet applied
    handled,  \* blocks it has taken up
    sent,     \* blocks whose PoolsTouched event was sent
    missed,   \* history: blocks whose logs or slots it did not get
    seedTodo, \* slots that seeding has still to ask for
    seed,     \* the values that seeding got
    seedHeld, \* slots of the chunk at hand, not yet written
    simPc,    \* where each simulator is
    simBlock, \* the block of the path it simulates
    simDb     \* its SimDb

market == <<msPc, msBlock, msTodo, diffs, handled, sent, missed>>
seeding == <<seedTodo, seed, seedHeld>>
sims == <<simPc, simBlock, simDb>>
vars == <<chain, rpcHead, db, market, seeding, sims>>

Values == {Absent, Zero} \cup 1 .. MaxBlock
Storage == [Slots -> Values]
Nothing == [s \in Slots |-> Absent]

TypeOK ==
    /\ chain \in Seq([wrote : SUBSET Slots, logs : SUBSET Pools])
    /\ rpcHead \in 1 .. Len(chain)
    /\ db \in Storage
    /\ msPc \in {"recv", "logs", "fetch", "send"}
    /\ msBlock \in 0 .. Len(chain)
    /\ msTodo \in SUBSET Traced
    /\ diffs \in Storage
    /\ {handled, sent, missed} \subseteq SUBSET (2 .. Len(chain))
    /\ {seedTodo, seedHeld} \subseteq SUBSET Seeded
    /\ seed \in Storage
    /\ simPc \in [Workers -> {"idle", "run"}]
    /\ simBlock \in [Workers -> 0 .. Len(chain)]
    /\ simDb \in [Workers -> Storage]

\* The value of slot s after block n.
At(s, n) == Max({1} \cup {m \in 2 .. n : s \in chain[m].wrote})

\* What eth_getStorageAt at "latest" is taken to answer.
Answers(s) == {At(s, rpcHead)} \cup (IF RpcMayFail THEN {Zero} ELSE {})

\* Startup: the prefetched slots are stored whatever the request gave, the
\* others are missing (the reserves of V2 pools, ticks outside the range of
\* bitmap words that is loaded).
Prefetch ==
    {d \in [Slots -> {Absent, Zero, 1}] :
        \A s \in Slots : IF s \in Prefetched THEN d[s] \in Answers(s) ELSE d[s] = Absent}

Init ==
    /\ chain = <<[wrote |-> {}, logs |-> {}]>>
    /\ rpcHead = 1
    /\ db \in Prefetch
    /\ msPc = "recv" /\ msBlock = 0 /\ msTodo = {} /\ diffs = Nothing
    /\ handled = {} /\ sent = {} /\ missed = {}
    /\ seedTodo = Seeded /\ seed = Nothing /\ seedHeld = {}
    /\ simPc = [w \in Workers |-> "idle"]
    /\ simBlock = [w \in Workers |-> 0]
    /\ simDb = [w \in Workers |-> Nothing]

-----------------------------------------------------------------------------
(* External: a swap writes slots of a pool and logs, liquidity that is added *)
(* or removed writes slots and leaves no log that is traced.                 *)

Mine ==
    /\ Len(chain) < MaxBlock
    /\ \E ws \in SUBSET Slots, ls \in SUBSET Pools :
         /\ \A p \in ls : \E s \in ws \cap Traced : PoolOf[s] = p
         /\ chain' = Append(chain, [wrote |-> ws, logs |-> ls])
    /\ UNCHANGED <<rpcHead, db, market, seeding, sims>>

RpcSync ==
    /\ rpcHead < Len(chain)
    /\ rpcHead' = rpcHead + 1
    /\ UNCHANGED <<chain, db, market, seeding, sims>>

-----------------------------------------------------------------------------
(* MarketState *)

\* A block comes from the stream, in any order.
MsRecv ==
    /\ msPc = "recv"
    /\ \E n \in (2 .. Len(chain)) \ handled :
         /\ msBlock' = n
         /\ handled' = handled \cup {n}
    /\ msPc' = "logs"
    /\ UNCHANGED <<chain, rpcHead, db, msTodo, diffs, sent, missed, seeding, sims>>

\* trace_block_diffs: the pools with a log of the block name the slots.  All
\* attempts may fail, and a node that lags behind the block answers with an
\* error or with an empty list: the block is done without any slot.
MsLogs ==
    /\ msPc = "logs"
    /\ \/ /\ msBlock <= rpcHead
          /\ msTodo' = {s \in Traced : PoolOf[s] \in chain[msBlock].logs}
          /\ msPc' = "fetch"
          /\ UNCHANGED missed
       \/ /\ msBlock > rpcHead \/ RpcMayFail
          /\ missed' = missed \cup {msBlock}
          /\ msPc' = "recv"
          /\ UNCHANGED msTodo
    /\ UNCHANGED <<chain, rpcHead, db, msBlock, diffs, handled, sent, seeding, sims>>

\* Each slot is fetched at "latest"; one whose request fails is left out.
MsFetch(s) ==
    /\ msPc = "fetch"
    /\ s \in msTodo
    /\ msTodo' = msTodo \ {s}
    /\ \/ diffs' = [diffs EXCEPT ![s] = At(s, rpcHead)] /\ UNCHANGED missed
       \/ RpcMayFail /\ missed' = missed \cup {msBlock} /\ UNCHANGED diffs
    /\ UNCHANGED <<chain, rpcHead, db, msPc, msBlock, handled, sent, seeding, sims>>

\* Mutant of MsApply: slots that are there already are kept.
ApplyMissingOnly ==
    /\ msPc = "fetch"
    /\ msTodo = {}
    /\ db' = [s \in Slots |-> IF db[s] = Absent THEN diffs[s] ELSE db[s]]
    /\ diffs' = Nothing
    /\ msPc' = IF diffs = Nothing THEN "recv" ELSE "send"
    /\ UNCHANGED <<chain, rpcHead, msBlock, msTodo, handled, sent, missed, seeding, sims>>

\* update_slot for each of them under the write lock.
MsApply ==
    /\ msPc = "fetch"
    /\ msTodo = {}
    /\ db' = [s \in Slots |-> IF diffs[s] # Absent THEN diffs[s] ELSE db[s]]
    /\ diffs' = Nothing
    /\ msPc' = IF diffs = Nothing THEN "recv" ELSE "send"
    /\ UNCHANGED <<chain, rpcHead, msBlock, msTodo, handled, sent, missed, seeding, sims>>

\* The event goes out; the searcher makes paths of it.
MsSend ==
    /\ msPc = "send"
    /\ sent' = sent \cup {msBlock}
    /\ msPc' = "recv"
    /\ UNCHANGED <<chain, rpcHead, db, msBlock, msTodo, diffs, handled, missed, seeding, sims>>

-----------------------------------------------------------------------------
(* The searcher: seed_initial_rates, before it takes its first event *)

\* A batch asks for the slots of a chunk at "latest"; what fails or is zero is
\* skipped.
SeedFetch(s) ==
    /\ s \in seedTodo
    /\ seedTodo' = seedTodo \ {s}
    /\ \/ /\ seed' = [seed EXCEPT ![s] = At(s, rpcHead)]
          /\ seedHeld' = seedHeld \cup {s}
       \/ RpcMayFail /\ UNCHANGED <<seed, seedHeld>>
    /\ UNCHANGED <<chain, rpcHead, db, market, sims>>

\* update_slot for the chunk under the write lock, over whatever is there.
SeedWrite ==
    /\ seedHeld # {}
    /\ db' = [s \in Slots |-> IF s \in seedHeld THEN seed[s] ELSE db[s]]
    /\ seedHeld' = {}
    /\ UNCHANGED <<chain, rpcHead, market, seedTodo, seed, sims>>

\* Only then does the searcher take events and make paths of them.
SeedingDone == seedTodo = {} /\ seedHeld = {}

-----------------------------------------------------------------------------
(* Simulators *)

\* simulate_and_optimize on a path of an event that was sent: SimDb::snapshot
\* under the read lock.
Snapshot(w) ==
    /\ simPc[w] = "idle"
    /\ SeedingDone
    /\ \E b \in sent : simBlock' = [simBlock EXCEPT ![w] = b]
    /\ simDb' = [simDb EXCEPT ![w] = db]
    /\ simPc' = [simPc EXCEPT ![w] = "run"]
    /\ UNCHANGED <<chain, rpcHead, db, market, seeding>>

\* A quote reads a slot that the SimDb lacks: it is fetched and kept there.
FetchMissing(w, s) ==
    /\ simPc[w] = "run"
    /\ simDb[w][s] = Absent
    /\ \E v \in Answers(s) : simDb' = [simDb EXCEPT ![w][s] = v]
    /\ UNCHANGED <<chain, rpcHead, db, market, seeding, simPc, simBlock>>

Idle(w) ==
    /\ simPc' = [simPc EXCEPT ![w] = "idle"]
    /\ simBlock' = [simBlock EXCEPT ![w] = 0]
    /\ simDb' = [simDb EXCEPT ![w] = Nothing]

\* The path loses at min_input: nothing is written back.
NotViable(w) ==
    /\ simPc[w] = "run"
    /\ Idle(w)
    /\ UNCHANGED <<chain, rpcHead, db, market, seeding>>

\* Mutant of WriteBack: the SimDb's values win.
WriteBackOverwrites(w) ==
    /\ simPc[w] = "run"
    /\ db' = [s \in Slots |-> IF simDb[w][s] # Absent THEN simDb[w][s] ELSE db[s]]
    /\ Idle(w)
    /\ UNCHANGED <<chain, rpcHead, market, seeding>>

\* After the optimiser, write_back under the write lock: slots that the
\* BlockStateDB still lacks are added.
WriteBack(w) ==
    /\ simPc[w] = "run"
    /\ db' = [s \in Slots |-> IF db[s] = Absent THEN simDb[w][s] ELSE db[s]]
    /\ Idle(w)
    /\ UNCHANGED <<chain, rpcHead, market, seeding>>

Simulate(w) ==
    \/ Snapshot(w)
    \/ \E s \in Slots : FetchMissing(w, s)
    \/ NotViable(w)
    \/ WriteBack(w)

\* Every block was handled, no path is simulated.
Resting ==
    /\ msPc = "recv" /\ handled = 2 .. Len(chain)
    /\ SeedingDone
    /\ \A w \in Workers : simPc[w] = "idle"
    /\ UNCHANGED vars

Next ==
    \/ Mine
    \/ RpcSync
    \/ MsRecv
    \/ MsLogs
    \/ \E s \in Slots : MsFetch(s)
    \/ MsApply
    \/ MsSend
    \/ \E s \in Slots : SeedFetch(s)
    \/ SeedWrite
    \/ \E w \in Workers : Simulate(w)
    \/ Resting

Spec == Init /\ [][Next]_vars

-----------------------------------------------------------------------------
(* Properties *)

\* The traced slots of the pools with a log in block n.
SlotsOf(n) == {s \in Traced : PoolOf[s] \in chain[n].logs}

\* Value v of slot s is not older than block n, but for what seeding fetched.
NewAs(v, s, n) == v >= At(s, n)
NewAsOrSeed(v, s, n) == NewAs(v, s, n) \/ (seed[s] # Absent /\ v = seed[s])

\* The blocks that MarketState is past, and of which it got all it asked for.
Applied == {n \in handled \ missed : ~(msBlock = n /\ msPc \in {"logs", "fetch"})}

\* "state_db's version is canonical; we only add cache misses": whatever the
\* simulators fetched and write back, and however late, once MarketState has
\* applied a block the traced slots of its pools are never older than it again.
\* The one exception are reserves that seeding fetched before the block and
\* wrote after it; they stay until the pool's next log.
AppliedStays ==
    \A n \in Applied : \A s \in SlotsOf(n) : NewAsOrSeed(db[s], s, n)

\* A simulation runs on the state that gave rise to its path: of the pools with
\* a log in the path's block, it sees no traced slot as it was before
\* (MarketState applies before it sends; the snapshot is taken after that), with
\* the same exception.
SeesItsBlock ==
    \A w \in Workers :
        simPc[w] = "run" /\ simBlock[w] \notin missed =>
            \A s \in SlotsOf(simBlock[w]) : NewAsOrSeed(simDb[w][s], s, simBlock[w])

\* "Prefetch all pool reserves from RPC before the first block arrives": then no
\* seeded value would replace a newer one, and the state would reflect "the
\* actual chain head, not a 1-block-stale snapshot that causes phantom arbs".
\* The code does not keep it: nothing holds MarketState back while seeding runs.
SeesNothingStale ==
    \A w \in Workers :
        simPc[w] = "run" /\ simBlock[w] \notin missed =>
            \A s \in SlotsOf(simBlock[w]) : NewAs(simDb[w][s], s, simBlock[w])
=============================================================================
