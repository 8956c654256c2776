---------------------------- MODULE MCPathBuilder ----------------------------
(***************************************************************************)
(* Instances of PathBuilder for TLC: all multigraphs of a few pools over   *)
(* four tokens, searched from two start tokens.  The pools are             *)
(* interchangeable, and so are the tokens that are not start tokens.       *)
(***************************************************************************)
EXTENDS PathBuilder

CONSTANTS s, t, u, v  \* tokens

TwoStarts == <<s, t>>

PoolTokenSymmetry ==
    {f @@ g : f \in Permutations(Pools), g \in Permutations({u, v})}
=============================================================================
