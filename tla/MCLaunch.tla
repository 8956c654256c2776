------------------------------ MODULE MCLaunch ------------------------------
(***************************************************************************)
(* Instances of Mempool, and with it of Startup, for TLC: a V3 pool, a V2  *)
(* pool of the same pair whose router is not configured, and a pool        *)
(* without a router key between other tokens, one of which keeps its       *)
(* balances where they are not looked for.                                 *)
(***************************************************************************)
EXTENDS Mempool, TLC

CONSTANTS w0, t0, u0,    \* tokens
          pv2, pv3, pal, \* pools
          r1, r2         \* addresses: a router, and another contract

PairOf == (pv2 :> <<w0, t0>>) @@ (pv3 :> <<t0, w0>>) @@ (pal :> <<t0, u0>>)
KindOf == (pv2 :> "pancakeswapv2") @@ (pv3 :> "pancakeswapv3") @@ (pal :> "algebra")
RouterOf == "pancakeswapv3" :> r1

Behaviours ==
    (pv2 :> {"honeypot"}) @@ (pv3 :> {"thin", "shallow", "honeypot"})
        @@ (pal :> {"drained"})
TwoPages == <<{w0, t0}, {u0}>>

\* Calls of every kind, and one that trades too many tokens.
Call(k, path) == [kind |-> k, path |-> path]
Single(path) == Call("single", path)
ToRouter(multicall, calls) == [to |-> r1, multicall |-> multicall, calls |-> calls]
Transactions == {
    ToRouter(FALSE, <<Call("v2", <<w0, t0, u0>>)>>),
    ToRouter(FALSE, <<Call("v2", <<w0, t0, w0, u0>>)>>),
    ToRouter(FALSE, <<Single(<<t0, w0>>)>>),
    ToRouter(FALSE, <<Call("multihop", <<w0, t0, u0>>)>>),
    ToRouter(FALSE, <<Call("unlisted", <<w0, t0>>)>>),
    ToRouter(TRUE, <<Single(<<w0, t0>>), Call("v2", <<t0, u0>>)>>),
    ToRouter(TRUE, <<Call("multihop", <<u0, t0>>), Single(<<w0, t0>>)>>),
    ToRouter(TRUE, <<Single(<<u0, w0>>), Call("v2", <<t0, u0>>)>>),
    ToRouter(TRUE, <<Single(<<w0, t0>>), Single(<<w0, t0>>), Single(<<w0, t0>>)>>),
    [to |-> r2, multicall |-> FALSE, calls |-> <<Single(<<w0, t0>>)>>]}
=============================================================================
