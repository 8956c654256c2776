---------------------------- MODULE MCOptimizer ----------------------------
(***************************************************************************)
(* Instances of Optimizer for TLC: cycles of two and three pools between   *)
(* shallow and deep, balanced and lopsided reserves.                       *)
(***************************************************************************)
EXTENDS Optimizer, TLC

Reserves == {1000, 1500, 4000}
Hops == {<<x, y>> : x \in Reserves, y \in Reserves}
TwoHops == {<<h, k>> : h \in Hops, k \in Hops}
ThreeHops == {<<<<4000, 4000>>, h, k>> : h \in Hops, k \in Hops}
SomeCycles == TwoHops \cup ThreeHops

\* No price; an even V2 pool, one whose start token is worth a third of the
\* native one, and an empty one; V3 prices of a quarter either way, one that
\* overflows, and an unset one.
V2Price(token, native) == [kind |-> "v2", token |-> token, native |-> native]
V3Price(sqrt, isToken0) == [kind |-> "v3", sqrt |-> sqrt, isToken0 |-> isToken0]
SomePrices == {
    [kind |-> "raw"], V2Price(500, 500), V2Price(900, 300), V2Price(0, 0),
    V3Price(4, TRUE), V3Price(16, FALSE), V3Price(200, TRUE), V3Price(0, FALSE)}

\* Settings of the flash loan: the cheapest of two known providers beside an
\* unknown one; none known at all; an unknown default; without flash loans.
Fees == ("AaveV3" :> 250) @@ ("UniswapV3" :> 40)
Routing(providers, default, dynamic) ==
    [use |-> TRUE, providers |-> providers, default |-> default, dynamic |-> dynamic]
SomeRoutings == {
    Routing(<<"balancer", "AaveV3", "UniswapV3">>, "AaveV3", TRUE),
    Routing(<< >>, "balancer", TRUE),
    Routing(<<"balancer", "UniswapV3">>, "balancer", FALSE),
    Routing(<<"UniswapV3">>, "AaveV3", FALSE),
    [use |-> FALSE, providers |-> << >>, default |-> "AaveV3", dynamic |-> TRUE]}
=============================================================================
