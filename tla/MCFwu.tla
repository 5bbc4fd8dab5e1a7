-------------------------------- MODULE MCFwu -------------------------------
(* Fwu for TLC: two secure images that overlap, if the first one is large, *)
(* and one of the normal world.                                            *)
EXTENDS Fwu, TLC

CONSTANTS a, b, ns

MCBase == (a :> 0) @@ (b :> 2) @@ (ns :> 10)
MCMaxSize == (a :> 3) @@ (b :> 2) @@ (ns :> 2)
=============================================================================
