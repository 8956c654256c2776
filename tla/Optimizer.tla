----------------------------- MODULE Optimizer -----------------------------
(***************************************************************************)
(* How a simulator sizes and judges one path: simulate_and_optimize of     *)
(* src/src/simulator_pipeline.rs and optimize_input_with_db of             *)
(* src/src/quoter_revm.rs.                                                 *)
(*                                                                         *)
(* A quote runs the whole path on the simulator's own SimDb, so quotes of  *)
(* one path are a function of the amount: a chain of constant-product      *)
(* swaps (src/src/calculation/v2.rs), which reverts above some amount.     *)
(* Each loop iteration is a step.                                          *)
(***************************************************************************)
EXTENDS Integers, Sequences, FiniteSetsExt, Functions

CONSTANTS
    Cycles,        \* the paths: sequences of hops <<reserve in, reserve out>>
    Limits,        \* amounts above which a path's quote reverts
    FeeScale,      \* 10000 in the code
    FeeFactor,     \* the part of an amount that is swapped, 9970 of 10000
    MinInput, MaxInput,
    Steps,         \* optimization_steps
    Tolerance,     \* bracket width at which the search stops, 1000 wei
    Prices,        \* what is known of the price pool, see PriceStates
    PriceOne,      \* 2^96 in the code, the scale of a V3 price
    MaxWord,       \* 2^256 - 1
    ProviderFees,  \* fee_map: the providers the bot knows, fees in bps
    Routings,      \* settings of the flash loan, see RoutingRecords
    FeeBase,       \* 10000 in the code: a fee of 1 is 1/FeeBase of the loan
    GasCosts,      \* what estimate_gas_cost_wei may answer
    MinProfit      \* min_profit_wei

\* The start token is the native one or has no price pool in the database, or
\* that pool has V2 reserves, or the sqrtPriceX96 of a V3 pool, in which the
\* start token is token0 or token1.
PriceStates ==
    [kind : {"raw"}]
        \cup [kind : {"v2"}, token : Nat, native : Nat]
        \cup [kind : {"v3"}, sqrt : Nat, isToken0 : BOOLEAN]

\* use_flashloan, flashloan_providers, default_flashloan_provider and
\* dynamic_flashloan_routing, the names in their canonical form.
RoutingRecords ==
    [use : BOOLEAN, providers : Seq(STRING), default : STRING, dynamic : BOOLEAN]

ASSUME OptimizerAssumption ==
    /\ Cycles \subseteq Seq((Nat \ {0}) \X (Nat \ {0}))
    /\ Limits \subseteq Nat
    /\ {FeeScale, FeeBase, MinInput, PriceOne} \subseteq Nat \ {0}
    /\ FeeFactor \in 0 .. FeeScale
    /\ MaxInput \in Nat /\ MinInput <= MaxInput
    /\ {Steps, Tolerance, MinProfit, MaxWord} \subseteq Nat
    /\ Prices \subseteq PriceStates
    /\ GasCosts \subseteq Nat
    /\ ProviderFees \in [DOMAIN ProviderFees -> Nat]
    /\ "AaveV3" \in DOMAIN ProviderFees /\ "none" \notin DOMAIN ProviderFees
    /\ Routings \subseteq RoutingRecords

VARIABLES
    path,    \* hops and limit of the path at hand
    pc,
    probe,   \* next amount of the exponential probing
    probes,  \* probes_used
    lo, hi,  \* the bracket
    left,    \* refinement steps left
    best,    \* best_input, best_output, best_profit
    valid    \* the ValidPath that is sent, << >> if none

search == <<probe, probes, lo, hi, left, best>>
vars == <<path, pc, search, valid>>

Places == {"viability", "probe", "probed", "refine", "gate", "done"}
None == -1

TypeOK ==
    /\ path \in [hops : Cycles, limit : Limits]
    /\ pc \in Places
    /\ {probe, probes, lo, hi, left} \subseteq Nat
    /\ best \in [in : Nat, out : Nat, profit : Nat]
    /\ valid = << >> \/ DOMAIN valid = {"in", "out", "gas", "price", "routing"}

-----------------------------------------------------------------------------
(* Quotes *)

\* get_amount_out_v2
AmountOut(in, hop) ==
    (in * FeeFactor * hop[2]) \div (hop[1] * FeeScale + in * FeeFactor)

\* The amounts before the first hop and after each.
Amounts(hops, in) ==
    LET amount[i \in 0 .. Len(hops)] ==
            IF i = 0 THEN in ELSE AmountOut(amount[i - 1], hops[i])
    IN  amount

\* quote_with_db: the amount after the last hop, None if the call reverts.
Quote(in) ==
    IF in > path.limit THEN None ELSE Amounts(path.hops, in)[Len(path.hops)]

\* The optimiser takes a reverted quote for an output of zero.
Output(in) == LET out == Quote(in) IN IF out = None THEN 0 ELSE out
Profit(in) == LET out == Output(in) IN IF out > in THEN out - in ELSE 0

\* An amount that is tried, and whether it replaces the best one so far.
Trial(in) == [in |-> in, out |-> Output(in), profit |-> Profit(in)]

\* Mutant of Better: the trial with the larger output wins.
LargerOutput(t, b) == IF t.profit > 0 /\ t.out > b.out THEN t ELSE b

Better(t, b) == IF t.profit > b.profit THEN t ELSE b

-----------------------------------------------------------------------------
(* The flash loan: the block of main before start_pipeline, and             *)
(* resolve_flashloan_provider                                               *)

Known(p) == p \in DOMAIN ProviderFees
Listed(r) == IF r.providers = << >> THEN <<r.default>> ELSE r.providers

\* Places of the list that hold a provider the bot knows, and of these, those
\* with the lowest fee.
Candidates(r) == {i \in DOMAIN Listed(r) : Known(Listed(r)[i])}
Cheapest(r) ==
    LET fee(i) == ProviderFees[Listed(r)[i]] IN
    {i \in Candidates(r) : \A j \in Candidates(r) : fee(i) <= fee(j)}

\* The provider whose fee is deducted and which the sender tries first: the
\* default one, unless routing is dynamic or the bot does not know it.
Selected(r) ==
    CASE ~r.use -> "none"
      [] r.use /\ Candidates(r) = {} -> IF Known(r.default) THEN r.default ELSE "AaveV3"
      [] r.use /\ Candidates(r) # {} /\ r.dynamic -> Listed(r)[Min(Cheapest(r))]
      [] r.use /\ Candidates(r) # {} /\ ~r.dynamic ->
           IF Known(r.default) THEN r.default ELSE Listed(r)[Min(Candidates(r))]

\* What a loan from a provider costs; "none" trades with the contract's balance.
FeeBps(p) == IF p = "none" THEN 0 ELSE ProviderFees[p]

FlashFee(loan, r) == (loan * FeeBps(Selected(r))) \div FeeBase

\* build_and_send: whom a transaction may borrow from, as the sender falls back
\* to Aave when the preflight with the selected provider fails.
Lenders(r) == {Selected(r), "AaveV3"}

-----------------------------------------------------------------------------
Init ==
    /\ path \in [hops : Cycles, limit : Limits]
    /\ pc = "viability"
    /\ probe = MinInput /\ probes = 0
    /\ lo = MinInput /\ hi = MaxInput /\ left = 0
    /\ best = [in |-> MinInput, out |-> 0, profit |-> 0]
    /\ valid = << >>

\* Mutant of Viability: the path is tried at max_input.
ViabilityAtMax ==
    /\ pc = "viability"
    /\ pc' = IF Quote(MaxInput) > MaxInput THEN "probe" ELSE "done"
    /\ UNCHANGED <<path, search, valid>>

\* Step 1: a path without profit at min_input is given up.
Viability ==
    /\ pc = "viability"
    /\ pc' = IF Quote(MinInput) > MinInput THEN "probe" ELSE "done"
    /\ UNCHANGED <<path, search, valid>>

\* Mutant of Probe: the bracket starts at the probe before the worse one.
ProbeNarrow ==
    /\ pc = "probe"
    /\ probe <= MaxInput /\ probes < Steps \div 2
    /\ probes' = probes + 1
    /\ LET t == Trial(probe)
           worse == t.profit < best.profit
       IN  /\ best' = Better(t, best)
           /\ lo' = IF worse /\ probe > 2 * MinInput THEN probe \div 2 ELSE lo
           /\ hi' = IF worse THEN probe ELSE hi
           /\ pc' = IF worse \/ probe >= MaxInput THEN "probed" ELSE "probe"
           /\ probe' = IF pc' = "probed" THEN probe ELSE Min({2 * probe, MaxInput})
    /\ UNCHANGED <<path, left, valid>>

\* Phase 1, one iteration: remember a better probe; a worse one closes the
\* bracket around the best; else double the amount, up to max_input.
Probe ==
    /\ pc = "probe"
    /\ probe <= MaxInput /\ probes < Steps \div 2
    /\ probes' = probes + 1
    /\ LET t == Trial(probe)
           worse == t.profit < best.profit
       IN  /\ best' = Better(t, best)
           /\ lo' = IF worse /\ probe > 2 * MinInput THEN probe \div 4 ELSE lo
           /\ hi' = IF worse THEN probe ELSE hi
           /\ pc' = IF worse \/ probe >= MaxInput THEN "probed" ELSE "probe"
           /\ probe' = IF pc' = "probed" THEN probe ELSE Min({2 * probe, MaxInput})
    /\ UNCHANGED <<path, left, valid>>

\* The loop's own condition ends the probing.
ProbesUsedUp ==
    /\ pc = "probe"
    /\ ~(probe <= MaxInput /\ probes < Steps \div 2)
    /\ pc' = "probed"
    /\ UNCHANGED <<path, search, valid>>

\* Without any profit the answer is (min_input, 0); else phase 2 gets the
\* steps that two for each probe leave over.
StartRefining ==
    /\ pc = "probed"
    /\ pc' = IF best.profit = 0 THEN "gate" ELSE "refine"
    /\ hi' = Min({hi, MaxInput})
    /\ left' = Max({Steps - 2 * probes, 0})
    /\ UNCHANGED <<path, probe, probes, lo, best, valid>>

\* Phase 2, one iteration: compare two inner points, drop the third of the
\* bracket beyond the worse one; equal profits drop the left third.
Refine ==
    /\ pc = "refine"
    /\ left > 0 /\ hi > lo + Tolerance
    /\ left' = left - 1
    /\ LET third == (hi - lo) \div 3
           t1 == Trial(lo + third)
           t2 == Trial(hi - third)
       IN  /\ best' = Better(t2, Better(t1, best))
           /\ hi' = IF t1.profit > t2.profit THEN t2.in ELSE hi
           /\ lo' = IF t1.profit > t2.profit THEN lo ELSE t1.in
    /\ UNCHANGED <<path, pc, probe, probes, valid>>

RefineEnds ==
    /\ pc = "refine"
    /\ ~(left > 0 /\ hi > lo + Tolerance)
    /\ pc' = "gate"
    /\ UNCHANGED <<path, search, valid>>

\* One of the two steps of v3_spot_price_convert, each rounding down.
Rescaled(amount, price) ==
    IF price.isToken0 THEN (amount * price.sqrt) \div PriceOne
                      ELSE (amount * PriceOne) \div price.sqrt

\* Step 4b: the value of an amount in native tokens, or the raw amount.
InNative(amount, price) ==
    CASE price.kind = "raw" -> amount
      [] price.kind = "v2" -> (amount * price.native) \div price.token
      [] price.kind = "v3" /\ price.sqrt = 0 -> 0
      [] price.kind = "v3" /\ price.sqrt # 0 -> Rescaled(Rescaled(amount, price), price)

\* There is such a value: not with an empty V2 pool, nor if a product for a V3
\* price exceeds a word.  (V2 reserves have 112 bits, and no product overflows.)
Convertible(amount, price) ==
    CASE price.kind = "raw" -> TRUE
      [] price.kind = "v2" -> price.token # 0
      [] price.kind = "v3" ->
           LET factor == IF price.isToken0 THEN price.sqrt ELSE PriceOne IN
           price.sqrt # 0 =>
               /\ amount * factor <= MaxWord
               /\ Rescaled(amount, price) * factor <= MaxWord

\* Mutant of AfterFee: the flash loan is taken to be free.
AfterNoFee(r) == best.out - best.in

\* Step 4a: the profit that the flash loan's fee leaves.
AfterFee(r) == best.out - best.in - FlashFee(best.in, r)

\* Steps 3 to 4c on the best amount.
Acceptable(gas, price, r) ==
    /\ best.out > best.in
    /\ AfterFee(r) > 0
    /\ Convertible(AfterFee(r), price)
    /\ InNative(AfterFee(r), price) > gas
    /\ InNative(AfterFee(r), price) - gas >= MinProfit

\* The settings of the flash loan are one of Routings since the start.
Accept ==
    /\ pc = "gate"
    /\ \E gas \in GasCosts, price \in Prices, r \in Routings :
         /\ Acceptable(gas, price, r)
         /\ valid' = [in |-> best.in, out |-> best.out, gas |-> gas,
                      price |-> price, routing |-> r]
    /\ pc' = "done"
    /\ UNCHANGED <<path, search>>

Reject ==
    /\ pc = "gate"
    /\ \E gas \in GasCosts, price \in Prices, r \in Routings : ~Acceptable(gas, price, r)
    /\ pc' = "done"
    /\ UNCHANGED <<path, search, valid>>

\* The worker waits for its next path.
Finished == pc = "done" /\ UNCHANGED vars

Next ==
    \/ Viability
    \/ Probe
    \/ ProbesUsedUp
    \/ StartRefining
    \/ Refine
    \/ RefineEnds
    \/ Accept
    \/ Reject
    \/ Finished

Spec == Init /\ [][Next]_vars
-----------------------------------------------------------------------------
(* Properties *)

Inputs == MinInput .. MaxInput

\* Each hop rounds down, which costs less than one unit of what it pays out;
\* what is lost before it costs at most its rate at zero, rounded up.
Loss(before, hop) ==
    1 + (before * FeeFactor * hop[2] + hop[1] * FeeScale - 1) \div (hop[1] * FeeScale)

Losses(hops) ==
    LET loss[i \in 0 .. Len(hops)] ==
            IF i = 0 THEN 0 ELSE Loss(loss[i - 1], hops[i])
    IN  loss

\* What a quote may fall short of the same hops without rounding.
Rounding == Losses(path.hops)[Len(path.hops)]

\* Up to the rounding of the quotes, which weighs the more the farther an
\* amount lies beyond the probe that closed the bracket: no amount earns more.
NothingBeats(profit, allowance) ==
    \A in \in Inputs : Profit(in) <= profit + Rounding * (allowance + 2 * (in \div probe))

\* The refinement steps made so far.
Refinements == Max({Steps - 2 * probes, 0}) - left

\* The bracket that probing closed and every third that refinement drops leave
\* an amount of maximal profit between lo and hi, ties and reverting quotes
\* included: the search cannot run away from the optimum, unless the second
\* probe was already worse.
BracketHoldsPeak ==
    pc \in {"refine", "gate"} /\ best.profit > 0 /\ probe > 2 * MinInput =>
        \E in \in lo .. hi : NothingBeats(Profit(in), 8 + 2 * Refinements)

\* The amounts that probing came to look at: up to max_input, or, when the
\* probes were used up before, up to the next one it would have tried.
Reach == MinInput .. (IF probes = Steps \div 2 THEN probe ELSE MaxInput)

\* Doubling comes within a factor of two of the best amount in reach, so that
\* the answer earns at least half of what any amount in reach would, whether
\* the probing ends at a worse amount, at max_input or for want of probes.
HalfOfPeak ==
    pc = "gate" =>
        \A in \in Reach : Profit(in) <= 2 * best.profit + Rounding * (2 + 2 * (in \div probe))

\* The short cut of step 1, "if the path loses money at tiny size, it will lose
\* at every size": a path given up there would earn nothing but roundings, at
\* most one quote's for each min_input put in.
GivenUpEarnsNothing ==
    pc = "done" /\ probes = 0 =>
        \A in \in Inputs : Profit(in) * MinInput <= in * Rounding

\* What a loan of some amount is to be repaid with beyond it: the lender's fee,
\* which a lender rounds up.
Owed(in, lender) == (in * FeeBps(lender) + FeeBase - 1) \div FeeBase

\* The sizing of a path deducts the fee of one provider, rounded down.  Still,
\* what is sent was quoted with that very output, repays a loan from any lender
\* no dearer than that provider, and pays for gas and min_profit_wei within the
\* value of the one unit that rounding lost.
AcceptedPays ==
    valid # << >> =>
        LET selected == Selected(valid.routing)
            rest == valid.out - valid.in - Owed(valid.in, selected)
        IN  /\ valid.out = Quote(valid.in)
            /\ valid.in \in Inputs
            /\ \A lender \in Lenders(valid.routing) :
                 FeeBps(lender) <= FeeBps(selected) =>
                     valid.out >= valid.in + Owed(valid.in, lender)
            /\ InNative(rest + 1, valid.price) >= valid.gas + MinProfit

\* "Deduct Aave (or other) flash loan fee on the borrowed amount": whoever lends,
\* the loan is repaid.  The code does not keep it: the fee is that of the
\* selected provider, also when the sender falls back to a dearer Aave.
LoanRepaid ==
    valid # << >> =>
        \A lender \in Lenders(valid.routing) :
            valid.out >= valid.in + Owed(valid.in, lender)
=============================================================================
