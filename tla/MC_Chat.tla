------------------------------ MODULE MC_Chat ------------------------------
(* Instantiates Chat for TLC: users, channels and workers are model values. *)
EXTENDS Chat, TLC

MCSymmetry == Permutations(Users) \cup Permutations(Workers)

\* Every user already logged in, before any message was posted: the state
\* the join/part runs start from (no todo!() panic on a missing session).
MCInitOnline == InitOnline(Users)

MCSpecOnline == MCInitOnline /\ [][Next]_vars /\ Fairness
=============================================================================
