------------------------------ MODULE AuditLog ------------------------------
(***************************************************************************)
(* What the audit sink promises.  Threads give it records, which appear in  *)
(* the log once, each thread's in its order; when close returns, every      *)
(* record that had been accepted when it was called is in the log, and      *)
(* nothing is written any more.  A record that cannot be encoded voids the   *)
(* promise for what is not written yet.                                     *)
(***************************************************************************)
EXTENDS Integers, Sequences, SequencesExt

CONSTANTS Threads, BadRecords   \* records that cannot be encoded

VARIABLES
    given,      \* how many records each thread has come with
    accepted,   \* records whose calls have returned
    log,        \* what is written; a record is <<thread, number>>
    due,        \* what the closing of the log has to wait for
    state       \* "open", "closing", "closed"

vars == <<given, accepted, log, due, state>>

Init ==
    /\ given = [t \in Threads |-> 0] /\ accepted = {} /\ log = <<>>
    /\ due = {} /\ state = "open"

Give(t) ==
    /\ given' = [given EXCEPT ![t] = @ + 1]
    /\ UNCHANGED <<accepted, log, due, state>>

(* A call returns; its record may be written at the same moment. *)
Accept(t) ==
    /\ accepted' = accepted \cup {<<t, given[t]>>}
    /\ \/ log' = log
       \/ state # "closed" /\ log' = Append(log, <<t, given[t]>>)
    /\ UNCHANGED <<given, due, state>>

(* Some accepted records are written. *)
Write ==
    /\ state # "closed"
    /\ IsPrefix(log, log') /\ ToSet(log') \subseteq accepted
    /\ UNCHANGED <<given, accepted, due, state>>

BeginClose ==
    /\ state = "open" /\ state' = "closing" /\ due' = accepted
    /\ UNCHANGED <<given, accepted, log>>

EndClose ==
    /\ state = "closing" /\ state' = "closed"
    /\ due \subseteq ToSet(log) \/ accepted \cap BadRecords # {}
    /\ UNCHANGED <<given, accepted, log, due>>

Next ==
    \/ \E t \in Threads : Give(t) \/ Accept(t)
    \/ Write \/ BeginClose \/ EndClose

(* A record appears once, and after the same thread's earlier ones.         *)
Orderly ==
    \A i, j \in 1 .. Len(log) :
        i < j /\ log[i][1] = log[j][1] => log[i][2] < log[j][2]

Spec == Init /\ [][Next /\ Orderly']_vars
=============================================================================
