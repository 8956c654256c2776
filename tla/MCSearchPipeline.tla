-------------------------- MODULE MCSearchPipeline --------------------------
(***************************************************************************)
(* Instances of SearchPipeline for TLC.  Two pools and one or two paths;   *)
(* rates of half and double break-even, so that a path through two pools   *)
(* with storage can be profitable, unprofitable or at break-even.          *)
(***************************************************************************)
EXTENDS SearchPipeline

CONSTANTS a, b  \* pools

\* One path through both pools.
OnePath == {<<a, b>>}

\* One path through both pools and one through the second only.
TwoPaths == {<<a, b>>, <<b, b>>}
=============================================================================
