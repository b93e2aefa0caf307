--------------------------- MODULE MC_OsuApiKeys ---------------------------
(* Instantiates OsuApiKeys for TLC: keys are model values. *)
EXTENDS OsuApiKeys, TLC

MCSymmetry == Permutations(Keys)
=============================================================================
