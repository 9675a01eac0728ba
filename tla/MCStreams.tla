----------------------------- MODULE MCStreams -----------------------------
(* Small instances of EventStreams for TLC. *)
EXTENDS EventStreams, TLC

CONSTANTS r1, r2, t1, s1, s2, w1

\* The thread's run is r1; s1 and w1 follow it, s2 follows r2.
WritesTo == [t \in Threads |-> r1]
Follows == [c \in Clients |-> IF c = s2 THEN r2 ELSE r1]
\* Both streams resume after the first event of their run.
Since == [c \in Clients |-> IF c = w1 THEN 0 ELSE 1]
\* s2 reads through a queue of one event.
Sizes == [c \in Clients |-> IF c = s2 THEN 1 ELSE 0]
=============================================================================
