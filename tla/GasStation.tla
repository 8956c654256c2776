----------------------------- MODULE GasStation -----------------------------
(***************************************************************************)
(* The base fee tracker of src/src/gas_station.rs and the fees that the    *)
(* transaction sender signs with (src/src/tx_sender_pipeline.rs).          *)
(*                                                                         *)
(* MarketState stores the fields of a header in three atomics with relaxed *)
(* ordering, the sender loads them one by one: stores and loads come in    *)
(* any order, and a prediction may mix the fields of several headers.      *)
(***************************************************************************)
EXTENDS Integers, Sequences, SequencesExt

CONSTANTS
    Elasticity,       \* elasticity_multiplier
    Denominator,      \* base_fee_change_denominator
    MinBaseFee,       \* min_base_fee_wei, the chain's floor
    PriorityCap,      \* priority_fee_cap_wei
    MinEffective,     \* the least fee that is bid, 5 mwei
    LiveSeed,         \* live_base_fee_wei, 0 if the request failed
    FirstFee,         \* base fee of the first block
    GasLimits,        \* gas limits of the blocks
    InitialLimit,     \* last_gas_limit before the first header
    HeadersCarryFee,  \* FALSE on BSC, whose headers report a base fee of 0
    Shares,           \* the profit share per unit of gas that paths offer
    MaxBlocks         \* bound: blocks

ASSUME GasAssumption ==
    /\ {Elasticity, Denominator, MinBaseFee, InitialLimit} \subseteq Nat \ {0}
    /\ {PriorityCap, MinEffective, LiveSeed, FirstFee, MaxBlocks} \subseteq Nat
    /\ FirstFee >= MinBaseFee
    /\ GasLimits \subseteq Nat \ {0}
    /\ HeadersCarryFee \in BOOLEAN
    /\ Shares \subseteq Nat

VARIABLES
    headers,    \* the chain's blocks: base fee, gas used, gas limit
    cell,       \* the three atomics
    source,     \* history: the block whose field each atomic holds, 0 if none
    storing,    \* update_from_block: its block, and the fields still to store
    loaded,     \* predict_next_base_fee: the fields loaded so far ...
    origin,     \* history: ... and the block each is of
    toLoad,     \* ... and those still to load
    prediction, \* what it returned, 0 if nothing yet
    maxFee      \* max_fee_per_gas signed with that prediction, 0 if none yet

sender == <<loaded, origin, toLoad, prediction, maxFee>>
vars == <<headers, cell, source, storing, sender>>

Fields == {"fee", "used", "limit"}
Larger(a, b) == IF a >= b THEN a ELSE b
Smaller(a, b) == IF a <= b THEN a ELSE b

TypeOK ==
    /\ headers \in Seq([Fields -> Nat])
    /\ cell \in [Fields -> Nat]
    /\ source \in [Fields -> 0 .. Len(headers)]
    /\ storing \in [block : 0 .. Len(headers), left : SUBSET Fields]
    /\ loaded \in [Fields -> Nat]
    /\ origin \in [Fields -> 0 .. Len(headers)]
    /\ toLoad \in SUBSET Fields
    /\ {prediction, maxFee} \subseteq Nat

-----------------------------------------------------------------------------

\* calc_next_base_fee: the fee moves with the distance of the gas used from
\* the target, up by one at least, and stays above the floor.
CalcNextBaseFee(h) ==
    LET target == h.limit \div Elasticity
        Delta(gas) == ((h.fee * gas) \div target) \div Denominator
    IN  IF target = 0 THEN Larger(h.fee, MinBaseFee)
        ELSE Larger(MinBaseFee,
                    IF h.used > target
                      THEN h.fee + Larger(Delta(h.used - target), 1)
                      ELSE h.fee - Delta(target - h.used))

\* The tracker starts at the floor or at the price that eth_gasPrice gave.
Init ==
    /\ \E l \in GasLimits : headers = <<[fee |-> FirstFee, used |-> 0, limit |-> l]>>
    /\ cell = [fee |-> IF LiveSeed # 0 THEN LiveSeed ELSE MinBaseFee,
               used |-> 0, limit |-> InitialLimit]
    /\ source = [f \in Fields |-> 0]
    /\ storing = [block |-> 0, left |-> {}]
    /\ loaded = [f \in Fields |-> 0]
    /\ origin = [f \in Fields |-> 0]
    /\ toLoad = Fields
    /\ prediction = 0
    /\ maxFee = 0

\* External: the next block, empty or full.  EIP-1559 gives its base fee.
Mine ==
    /\ Len(headers) < MaxBlocks
    /\ \E l \in GasLimits : \E u \in {0, l} :
         headers' = Append(headers, [fee |-> CalcNextBaseFee(Last(headers)),
                                     used |-> u, limit |-> l])
    /\ UNCHANGED <<cell, source, storing, sender>>

\* MarketState receives a block, not always a later one, and calls
\* update_from_block.
Update ==
    /\ storing.left = {}
    /\ \E n \in 1 .. Len(headers) : storing' = [block |-> n, left |-> Fields]
    /\ UNCHANGED <<headers, cell, source, sender>>

\* One of its three stores.
Store(f) ==
    LET h == headers[storing.block] IN
    /\ f \in storing.left
    /\ cell' = [cell EXCEPT ![f] = IF f = "fee" /\ ~HeadersCarryFee THEN 0 ELSE h[f]]
    /\ source' = [source EXCEPT ![f] = storing.block]
    /\ storing' = [storing EXCEPT !.left = @ \ {f}]
    /\ UNCHANGED <<headers, sender>>

\* One of the three loads of predict_next_base_fee.
Load(f) ==
    /\ f \in toLoad
    /\ loaded' = [loaded EXCEPT ![f] = cell[f]]
    /\ origin' = [origin EXCEPT ![f] = source[f]]
    /\ toLoad' = toLoad \ {f}
    /\ UNCHANGED <<headers, cell, source, storing, prediction, maxFee>>

\* Mutant of MaxFeePerGas: no headroom.
MaxFeeUndoubled(base, share) ==
    LET priority == Smaller(share, PriorityCap)
    IN  base + Larger(priority, MinEffective - base)

\* build_and_send: the capped share of the profit comes on top, enough of it to
\* bid the minimum, and the sum is doubled.
MaxFeePerGas(base, share) ==
    LET priority == Smaller(share, PriorityCap)
    IN  2 * (base + Larger(priority, MinEffective - base))

\* The prediction is made, the fees are fixed.
Sign ==
    /\ toLoad = {}
    /\ prediction = 0
    /\ prediction' = CalcNextBaseFee(loaded)
    /\ \E share \in Shares : maxFee' = MaxFeePerGas(prediction', share)
    /\ UNCHANGED <<headers, cell, source, storing, loaded, origin, toLoad>>

\* The next transaction.
Again ==
    /\ prediction # 0
    /\ toLoad' = Fields
    /\ loaded' = [f \in Fields |-> 0]
    /\ origin' = [f \in Fields |-> 0]
    /\ prediction' = 0
    /\ maxFee' = 0
    /\ UNCHANGED <<headers, cell, source, storing>>

Next ==
    \/ Mine
    \/ Update
    \/ \E f \in Fields : Store(f) \/ Load(f)
    \/ Sign
    \/ Again

Spec == Init /\ [][Next]_vars

-----------------------------------------------------------------------------
(* Properties *)

\* The doubling in build_and_send keeps a transaction includable although the
\* base fee rises and the prediction is torn: a transaction signed with the
\* base fee of one of the last Slack + 1 blocks, whatever blocks the gas used
\* and the gas limit are of, pays the base fee of the block after the head.
Slack == 3
CoversNextBlock ==
    prediction # 0 /\ origin.fee # 0 /\ origin.fee + Slack >= Len(headers) =>
        maxFee >= CalcNextBaseFee(Last(headers))
=============================================================================
