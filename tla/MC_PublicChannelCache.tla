------------------------ MODULE MC_PublicChannelCache ------------------------
(* Instantiates PublicChannelCache for TLC; calls are interchangeable.     *)
EXTENDS PublicChannelCache, TLC

MCSymmetry == Permutations(Tasks)
=============================================================================
