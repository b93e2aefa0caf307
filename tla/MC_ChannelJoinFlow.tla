------------------------- MODULE MC_ChannelJoinFlow -------------------------
(* Instantiates ChannelJoinFlow for TLC with model-value users and tasks.  *)
EXTENDS ChannelJoinFlow

MCDefaultStatus == [online |-> "Idle", mode |-> "Standard"]
MCSymmetry == Permutations(Users) \cup Permutations(Workers)
=============================================================================
