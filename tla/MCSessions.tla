----------------------------- MODULE MCSessions -----------------------------
(* A small instance of Sessions for TLC. *)
EXTENDS Sessions, TLC

CONSTANTS r1, r2, r3, r4, s1, c1, c2

SessionOf == [r \in Runs |-> s1]

\* Runs, and clients, are interchangeable.
Symmetry == Permutations(Runs) \cup Permutations(Clients)
=============================================================================
