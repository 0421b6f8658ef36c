----------------------------- MODULE MCMapCache -----------------------------
(* Model-checking instance of MapCache: two pipelines, a grace window of  *)
(* 2 clock units (standing for the code's 10 s) and builds that take at    *)
(* most one unit less than the window.                                     *)
EXTENDS MapCache, TLC

MCGrace == 2
MCBuildBound == 1
MCSlowBuildBound == 2
MCMaxTime == 5
MCMaxVersion == 2

Symmetry == Permutations(Proc)
=============================================================================
