----------------------------- MODULE MCExecutor -----------------------------
(* Small instances of CommandExecutor for TLC. *)
EXTENDS CommandExecutor, TLC

CONSTANTS r1, r2, r3, r4, w1, w2, w3, w4, k1, c1, c2, noKey

\* Two runs share a lock, the third takes none.
PairKeys == [r \in Runs |-> IF r \in {r1, r2} THEN k1 ELSE noKey]

\* Three runs share a lock, the fourth takes none.
TripleKeys == [r \in Runs |-> IF r = r4 THEN noKey ELSE k1]

\* All runs share the lock.
OneKey == [r \in Runs |-> k1]

\* Each waiter waits for a run of its own.
OwnRun == [c \in Waiters |-> IF c = c1 THEN r1 ELSE r2]

NegativeOne == 0 - 1

\* Worker tasks are interchangeable.
TaskSymmetry == Permutations(Tasks)
=============================================================================
