--------------------------- MODULE MC_BanchoState ---------------------------
(* Instantiates BanchoState for TLC: two users, two concurrent tasks, two  *)
(* online statuses and two modes so that two updates differ in both       *)
(* fields, three logins so a displacement and a fresh login both happen.  *)
EXTENDS BanchoState, TLC

MCDefaultStatus == [online |-> "Idle", mode |-> "Standard"]
MCSymmetry == Permutations(Users) \cup Permutations(Workers)
=============================================================================
