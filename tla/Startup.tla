------------------------------ MODULE Startup ------------------------------
(***************************************************************************)
(* The start of the process: main of src/src/main.rs up to start_pipeline, *)
(* with the pool loader (src/src/pool_loader.rs) and the startup filter    *)
(* (src/src/filter_revm.rs).                                               *)
(*                                                                         *)
(* Pools come from CSV files that scripts extend while the bot is down.    *)
(* The filter swaps on each pool there and back in revm, and its result is *)
(* kept in a file that later runs trust.  The process may be killed at any *)
(* step and started again with other settings.                             *)
(***************************************************************************)
EXTENDS Integers, Sequences, FiniteSets, Functions

CONSTANTS
    Tokens, Pools,
    TokensOf,       \* a pool's token0 and token1
    ProtocolOf,     \* a pool's protocol
    RouterKeyed,    \* protocols that protocol_router_key gives a key
    Routers,        \* build_router_registry: protocol to router address
    Detectable,     \* tokens whose balances are in a mapping at slot 0 to 23
    NaturesOf,      \* how each pool may behave, see SwapsForth
    Suspects,       \* tokens that the operator may blacklist
    TopPages,       \* GeckoTerminal's pages, each the tokens of its pools
    RpcMayFail,
    MaxRuns,        \* bound: starts of the process
    MaxTurns        \* bound: pools that change their behaviour

ASSUME StartupAssumption ==
    /\ TokensOf \in [Pools -> Tokens \X Tokens]
    /\ Pools \subseteq DOMAIN ProtocolOf
    /\ Pools \subseteq DOMAIN NaturesOf
    /\ {Detectable, Suspects} \subseteq SUBSET Tokens
    /\ TopPages \in Seq(SUBSET Tokens)
    /\ RpcMayFail \in BOOLEAN
    /\ {MaxRuns, MaxTurns} \subseteq Nat

VARIABLES
    rows,       \* pools in the CSV files
    readable,   \* whether every row of them parses
    nature,     \* how each pool behaves on the chain
    blacklist,  \* blacklisted_tokens of the configuration
    cache,      \* addresses in .swap-filter-safe-pools.txt, {} without a file
    pc,
    flags,      \* SKIP_POOL_FILTER, FORCE_REFILTER, ENABLE_GECKO_TERMINAL
    pools,      \* raw_pools
    slots,      \* slot_map: tokens whose balance slot was found
    pathPools,  \* pools that paths may use
    runs,       \* starts so far
    turns,      \* changes of behaviour so far
    vetted,     \* history: what some completed filter let through
    misread,    \* history: a request failed in the filter at work
    whole,      \* history: the file is the complete result of the last filter
    verdict,    \* history: ... and then what that filter let through
    judged      \* history: what the completed filters looked at

world == <<rows, readable, nature, blacklist, turns>>
process == <<pc, flags, pools, slots, pathPools, runs>>
history == <<vetted, misread, whole, verdict, judged>>
startupVars == <<world, cache, process, history>>

Places == {"off", "load", "gecko", "slots", "test", "writing", "paths", "serving"}

Natures == {n \in [Pools -> UNION {NaturesOf[p] : p \in Pools}] :
                \A p \in Pools : n[p] \in NaturesOf[p]}

StartupTypeOK ==
    /\ {rows, cache, pools, pathPools, verdict, vetted, judged} \subseteq SUBSET Pools
    /\ {readable, misread, whole} \subseteq BOOLEAN
    /\ nature \in Natures
    /\ {blacklist, slots} \subseteq SUBSET Tokens
    /\ pc \in Places
    /\ flags \in [skip : BOOLEAN, force : BOOLEAN, gecko : BOOLEAN]
    /\ runs \in 0 .. MaxRuns
    /\ turns \in 0 .. MaxTurns

TokenSet(p) == {TokensOf[p][1], TokensOf[p][2]}
Among(p, tokens) == TokenSet(p) \subseteq tokens
Clean(p) == TokenSet(p) \cap blacklist = {}

\* No environment variable is set.
Defaults == [skip |-> FALSE, force |-> FALSE, gecko |-> FALSE]

StartupInit ==
    /\ rows \in SUBSET Pools
    /\ readable = TRUE
    /\ nature \in Natures
    /\ blacklist = {}
    /\ cache = {}
    /\ pc = "off"
    /\ flags = Defaults
    /\ pools = {} /\ slots = {} /\ pathPools = {}
    /\ runs = 0 /\ turns = 0
    /\ verdict = {} /\ vetted = {} /\ judged = {} /\ misread = FALSE /\ whole = FALSE

-----------------------------------------------------------------------------
(* While the bot is down: scripts add pools, a file may be damaged, the     *)
(* configuration changes, and tokens show another face.                     *)

World ==
    /\ pc = "off"
    /\ runs > 0
    /\ \/ /\ \E p \in Pools \ rows : rows' = rows \cup {p}
          /\ UNCHANGED <<readable, nature, blacklist, turns>>
       \/ /\ readable' = ~readable
          /\ UNCHANGED <<rows, nature, blacklist, turns>>
       \/ /\ \E t \in Suspects : blacklist' = blacklist \cup {t}
          /\ UNCHANGED <<rows, readable, nature, turns>>
       \/ /\ turns < MaxTurns
          /\ turns' = turns + 1
          /\ \E p \in rows : \E n \in NaturesOf[p] : nature' = [nature EXCEPT ![p] = n]
          /\ UNCHANGED <<rows, readable, blacklist>>
    /\ UNCHANGED <<cache, process, history>>

\* The end of the process.
Gone ==
    /\ pc' = "off"
    /\ flags' = Defaults
    /\ pools' = {} /\ slots' = {} /\ pathPools' = {}
    /\ misread' = FALSE

Start ==
    /\ pc = "off"
    /\ runs < MaxRuns
    /\ runs' = runs + 1
    /\ flags' \in [skip : BOOLEAN, force : BOOLEAN, gecko : BOOLEAN]
    /\ pc' = "load"
    /\ UNCHANGED <<world, cache, pools, slots, pathPools, history>>

-----------------------------------------------------------------------------
(* Loading *)

\* load_all_pools_from_cache: one row that does not parse fails the whole
\* load, and main goes on with no pools.
Loaded == IF readable THEN rows ELSE {}

\* Mutant of Prefiltered: the static blacklist is left to the filter.
PrefilteredLater == Loaded

\* The static blacklist, before anything else looks at the pools.
Prefiltered == {p \in Loaded : Clean(p)}

\* The filter's result of an earlier run is used if there is any.
UseCache == ~flags.force /\ cache # {}

\* Mutant of FromCache: pools that the file does not list are kept untested.
FromCacheKeepsNew(ps) == ps

\* Fast path: pools that did not pass before are dropped, new ones with them.
FromCache(ps) == ps \cap cache

Load ==
    /\ pc = "load"
    /\ LET slow == Prefiltered # {} /\ ~flags.skip /\ ~UseCache
           fast == ~flags.skip /\ UseCache
       IN  /\ pools' = IF fast THEN FromCache(Prefiltered) ELSE Prefiltered
           /\ pc' = IF slow THEN "gecko" ELSE "paths"
    /\ UNCHANGED <<world, cache, flags, slots, pathPools, runs, history>>

-----------------------------------------------------------------------------
(* filter_pools_full *)

\* fetch_top_tokens: an HTTP error, an answer without pools, or three refusals
\* for the rate of requests end the collection with the pages before it; a
\* request that fails or does not parse loses them as well.
FetchTopTokens == {UNION {TopPages[i] : i \in 1 .. n} : n \in 0 .. Len(TopPages)}

\* Stages 0 and 1: the blacklist once more, and with GeckoTerminal enabled, only
\* pools between tokens of its list; an empty or failed answer filters nothing.
GeckoFilter ==
    /\ pc = "gecko"
    /\ \E top \in FetchTopTokens :
         pools' = {p \in pools : Clean(p) /\ (flags.gecko /\ top # {} => Among(p, top))}
    /\ pc' = "slots"
    /\ UNCHANGED <<world, cache, flags, slots, pathPools, runs, history>>

\* find_balance_slot: the token's balance of one holder, the first pool listed
\* with it, is looked for in the candidate slots; a holder without any balance
\* gives nothing, nor does a failed request.
Holds(p, t) == t \in TokenSet(p) /\ nature[p] # "drained"
SlotsInReach == {t \in Detectable : \E p \in pools : Holds(p, t)}
SlotsCertain == {t \in SlotsInReach : \A p \in pools : t \in TokenSet(p) => Holds(p, t)}

\* Stage 2: construct_slot_map.
DetectSlots ==
    /\ pc = "slots"
    /\ slots' \in SUBSET SlotsInReach
    /\ misread' = ~(SlotsCertain \subseteq slots')
    /\ misread' => RpcMayFail
    /\ pc' = "test"
    /\ UNCHANGED <<world, cache, flags, pools, pathPools, runs, vetted, whole, verdict, judged>>

\* TEST_AMOUNTS, by their order of magnitude
TestAmounts == <<15, 12, 9, 6>>

\* The swap of an amount of token0 for token1 gives something: not on a
\* drained pool, nor for amounts a thin one cannot serve.
SwapsForth(n, amount) == n # "drained" /\ (n = "thin" => amount <= 9)

\* The swap back: what a honeypot forbids, and a taxed token makes lossy.  A
\* shallow V3 pool serves a large amount in part, so that little comes back.
SwapsBack(n, amount) == n # "honeypot"
Recovers95(n, amount) == n # "taxed" /\ (n = "shallow" => amount <= 9)

\* Mutant of RoundTripPasses: only the largest amount is tried.
RoundTripOnce(n) ==
    /\ SwapsForth(n, TestAmounts[1])
    /\ SwapsBack(n, TestAmounts[1])
    /\ Recovers95(n, TestAmounts[1])

\* test_pool_filter_reason: both tokens must be approved, and the first amount
\* that can be swapped forth decides.
RoundTripPasses(n) ==
    /\ n # "frozen"
    /\ \E i \in DOMAIN TestAmounts :
            /\ \A j \in 1 .. i - 1 : ~SwapsForth(n, TestAmounts[j])
            /\ SwapsForth(n, TestAmounts[i])
            /\ SwapsBack(n, TestAmounts[i])
            /\ Recovers95(n, TestAmounts[i])

\* Pools that need a test, and have what it takes: the slots of both tokens and
\* a configured router.
NeedsTest(p) == ProtocolOf[p] \in RouterKeyed
Testable(p) == NeedsTest(p) /\ Among(p, slots) /\ ProtocolOf[p] \in DOMAIN Routers

\* filter_pools_by_swap: a pool that cannot be tested passes.  Storage that
\* cannot be fetched reads as zero, which may turn a verdict either way.
Survivors(lucky, unlucky) ==
    {p \in pools : \/ ~Testable(p)
                   \/ p \in lucky
                   \/ RoundTripPasses(nature[p]) /\ p \notin unlucky}

Required == {ProtocolOf[p] : p \in pools} \cap RouterKeyed

RoutersUsable ==
    /\ Routers # << >>
    /\ Required = {} \/ Required \cap DOMAIN Routers # {}

\* Stage 3 refuses to run without any router for the pools: main returns.
NoRouters ==
    /\ pc = "test"
    /\ ~RoutersUsable
    /\ Gone
    /\ UNCHANGED <<world, cache, runs, vetted, whole, verdict, judged>>

\* Stage 3: pools are tested in parallel, on copies of the prefetched state.
TestPools ==
    /\ pc = "test"
    /\ RoutersUsable
    /\ \E lucky, unlucky \in SUBSET pools :
         /\ lucky \cup unlucky # {} => RpcMayFail
         /\ pools' = Survivors(lucky, unlucky)
         /\ misread' = (misread \/ lucky \cup unlucky # {})
    /\ vetted' = vetted \cup pools'
    /\ judged' = judged \cup Prefiltered
    /\ verdict' = {}
    /\ whole' = FALSE
    /\ pc' = "writing"
    /\ UNCHANGED <<world, cache, flags, slots, pathPools, runs>>

\* Mutant of SaveCache: the result is appended to the old file.
SaveCacheAppends ==
    /\ pc = "writing"
    /\ cache' = cache \cup pools
    /\ verdict' = pools
    /\ whole' = TRUE
    /\ pc' = "paths"
    /\ UNCHANGED <<world, flags, pools, slots, pathPools, runs, vetted, misread, judged>>

\* The result is written over the old file.
SaveCache ==
    /\ pc = "writing"
    /\ cache' = pools
    /\ verdict' = pools
    /\ whole' = TRUE
    /\ pc' = "paths"
    /\ UNCHANGED <<world, flags, pools, slots, pathPools, runs, vetted, misread, judged>>

\* What may be in the file if the write breaks off: the old content if it was
\* not opened, else the lines that were written.
Torn == {cache} \cup SUBSET pools

\* A failed write is logged and forgotten.
SaveFails ==
    /\ pc = "writing"
    /\ cache' \in Torn
    /\ pc' = "paths"
    /\ UNCHANGED <<world, flags, pools, slots, pathPools, runs, history>>

-----------------------------------------------------------------------------
(* Paths, and the end of the run *)

\* Paths are built over the pools.  If the filter was skipped, GeckoTerminal's
\* list is applied to the paths instead.
BuildPaths ==
    /\ pc = "paths"
    /\ \E top \in FetchTopTokens :
         pathPools' = {p \in pools :
                         flags.skip /\ flags.gecko /\ top # {} => Among(p, top)}
    /\ pc' = "serving"
    /\ UNCHANGED <<world, cache, flags, pools, slots, runs, history>>

\* The process ends or is killed, and its memory is gone.
Stop ==
    /\ pc # "off"
    /\ cache' \in IF pc = "writing" THEN Torn ELSE {cache}
    /\ Gone
    /\ UNCHANGED <<world, runs, vetted, whole, verdict, judged>>

StartupStep ==
    \/ Start
    \/ Load
    \/ GeckoFilter
    \/ DetectSlots
    \/ NoRouters
    \/ TestPools
    \/ SaveCache
    \/ SaveFails
    \/ BuildPaths
    \/ Stop

-----------------------------------------------------------------------------
(* Properties *)

\* No pool with a token of the configured blacklist is served, whichever way
\* the pools came in: filtered, from the cache of a run before the token was
\* listed, or with the filter skipped (main.rs, "Blacklist prefilter").
NothingBlacklisted ==
    pc = "serving" => \A p \in pools \cup pathPools : Clean(p)

\* Unless the filter is skipped, only pools that it let through at some time are
\* served, even if the file was torn by a crash or is older than the pools.
ServedWasVetted ==
    pc = "serving" /\ ~flags.skip => pools \subseteq vetted

\* While the file is whole, every later run keeps to its verdict on the pools
\* that a filter has looked at, less what has been blacklisted since: none that
\* was let through is lost, and none that was turned down comes back.
CacheReplays ==
    pc = "serving" /\ whole /\ readable /\ ~flags.skip =>
        pools \cap judged = {p \in verdict \cap rows : Clean(p)}

\* "On subsequent runs the cache is loaded and only new pools are re-tested": a
\* run that does not skip the filter leaves no pool untested.  The code does not
\* keep it: its fast path drops what the file does not list.
NewPoolsTested ==
    pc = "serving" /\ readable /\ ~flags.skip =>
        \A p \in rows : Clean(p) => p \in judged

\* A filter without faults and without GeckoTerminal's list has come to its end.
FilteredWell == pc = "writing" /\ ~misread /\ ~flags.gecko /\ readable

\* A pool that gives back what it takes, whichever amount it takes at all, and
\* takes one: it may be too small for the larger amounts.
WellBehaved(n) ==
    /\ n # "frozen"
    /\ \E amount \in Range(TestAmounts) : SwapsForth(n, amount)
    /\ \A amount \in Range(TestAmounts) :
         SwapsForth(n, amount) => SwapsBack(n, amount) /\ Recovers95(n, amount)

\* Well-behaved pools are served, be they too thin for the large amounts, and so
\* are those that the filter cannot test: no slot for a balance, or no router
\* (test_pool_filter_reason, filter_pools_by_swap: "benefit of the doubt").
\* Shallow pools, which serve a large amount in part, are not among them.
NoneFalselyRejected ==
    FilteredWell => \A p \in rows : Clean(p) /\ WellBehaved(nature[p]) => p \in pools

\* A pool that passes the round trip for one of the amounts.
PassesSome(n) ==
    /\ n # "frozen"
    /\ \E amount \in Range(TestAmounts) :
         SwapsForth(n, amount) /\ SwapsBack(n, amount) /\ Recovers95(n, amount)

\* "Try progressively smaller swap amounts so low-liquidity pools aren't falsely
\* rejected when the large amount exceeds reserves."  The code does not keep it:
\* an amount that a shallow pool serves in part decides against the pool, and
\* the smaller ones are not tried.
LowLiquidityKept ==
    FilteredWell => \A p \in rows : Clean(p) /\ PassesSome(nature[p]) => p \in pools
=============================================================================
