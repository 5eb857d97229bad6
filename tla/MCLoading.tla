------------------------------- MODULE MCLoading -------------------------------
(* Up to MaxLoaders plugins from two libraries; any set of the four options *)
(* that name what to load.                                                  *)
EXTENDS Loading

CONSTANTS l1, l2, none, noSuite

MCLibraries == {l1, l2}
MCSymmetry == Permutations(MCLibraries)
===============================================================================
