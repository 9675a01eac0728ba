------------------------------ MODULE MCNested ------------------------------
(* A small instance of NestedRuns for TLC. *)
EXTENDS NestedRuns

CONSTANTS r1, r2, r3, r4, r5, k1

\* r3 and r5 ask for the lock of the session, r4 for none; r1 and r2 leave it open.
LockArg == [r \in Runs |-> CASE r \in {r3, r5} -> k1 [] r = r4 -> NoKey [] OTHER -> Unset]

\* Every key is left to the manager.
AllUnset == [r \in Runs |-> Unset]
=============================================================================
