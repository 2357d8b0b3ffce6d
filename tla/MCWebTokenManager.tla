------------------------- MODULE MCWebTokenManager -------------------------
(* The tabs are alike: exchanging them changes no invariant. *)
EXTENDS WebTokenManager, TLC

TabSymmetry == Permutations(Tabs)
=============================================================================
