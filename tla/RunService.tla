----------------------------- MODULE RunService -----------------------------
(***************************************************************************)
(* What the executor promises its clients.  It accepts runs; the runs with  *)
(* one lock_key are executed one at a time, in the order they were accepted;*)
(* each ends once, or is cancelled before its turn and then not executed;   *)
(* only a run that has ended is forgotten; and who waits for a run is told  *)
(* once it has ended, and how, or nothing if it is forgotten by then.       *)
(***************************************************************************)
EXTENDS Integers, Sequences

CONSTANTS Runs, lock_key, NoKey, Waiters, waits_on

VARIABLES
    order,      \* the runs in the order they were accepted
    stage,      \* "new", and then the run's status
    forgotten,  \* runs that the service does not remember
    told        \* what each waiter got to know: "nothing", or its answer

vars == <<order, stage, forgotten, told>>

Ended == {"SUCCEEDED", "FAILED", "CANCELLED", "TIMEOUT"}

Init ==
    /\ order = <<>> /\ stage = [r \in Runs |-> "new"]
    /\ forgotten = {} /\ told = [c \in Waiters |-> "nothing"]

Accept(r) ==
    /\ stage[r] = "new"
    /\ stage' = [stage EXCEPT ![r] = "PENDING"]
    /\ order' = Append(order, r)
    /\ UNCHANGED <<forgotten, told>>

SameKey(r, s) == lock_key[r] = lock_key[s] /\ lock_key[r] # NoKey

(* Every run with the key of r that was accepted earlier has ended. *)
Turn(r) ==
    \A i, j \in 1 .. Len(order) :
        i < j /\ order[j] = r /\ SameKey(order[i], r) => stage[order[i]] \in Ended

Begin(r) ==
    /\ stage[r] = "PENDING" /\ Turn(r)
    /\ stage' = [stage EXCEPT ![r] = "RUNNING"]
    /\ UNCHANGED <<order, forgotten, told>>

(* An execution ends in one of the four ways, a pending run by cancel. *)
End(r, s) ==
    /\ stage[r] = "RUNNING" \/ (stage[r] = "PENDING" /\ s = "CANCELLED")
    /\ stage' = [stage EXCEPT ![r] = s]
    /\ UNCHANGED <<order, forgotten, told>>

Forget ==
    /\ forgotten \subseteq forgotten'
    /\ \A r \in forgotten' : stage[r] \in Ended
    /\ UNCHANGED <<order, stage, told>>

(* A waiter that comes too late is told "none". *)
Tell(c) ==
    LET r == waits_on[c] IN
    /\ told[c] = "nothing" /\ stage[r] \in Ended
    /\ \/ told' = [told EXCEPT ![c] = IF stage[r] = "SUCCEEDED" THEN "result" ELSE "error"]
       \/ r \in forgotten /\ told' = [told EXCEPT ![c] = "none"]
    /\ UNCHANGED <<order, stage, forgotten>>

Next ==
    \/ \E r \in Runs : Accept(r) \/ Begin(r) \/ \E s \in Ended : End(r, s)
    \/ Forget
    \/ \E c \in Waiters : Tell(c)

Spec == Init /\ [][Next]_vars
=============================================================================
