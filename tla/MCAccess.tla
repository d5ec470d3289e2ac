------------------------------ MODULE MCAccess ------------------------------
(* Access for TLC: threads, browsers and people are interchangeable. *)
EXTENDS Access, TLC

Symmetry == Permutations(Threads) \cup Permutations(Browsers) \cup Permutations(Subjects)
=============================================================================
