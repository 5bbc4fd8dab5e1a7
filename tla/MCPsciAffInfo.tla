---------------------------- MODULE MCPsciAffInfo ---------------------------
(* PsciAffInfo for TLC.                                                    *)
EXTENDS PsciAffInfo, TLC

(* The callers are interchangeable.                                        *)
Symmetry == Permutations(Caller)
=============================================================================
