----------------------------- MODULE NestedRuns -----------------------------
(***************************************************************************)
(* Handlers that submit further runs through their session and await them   *)
(* (submit_command_and_wait, submit_callable_and_wait, result): the checks  *)
(* of SessionManager against waits through locks and through workers.       *)
(*                                                                         *)
(* The executor is reduced to what such waits see of it: a queue, workers   *)
(* and fair locks (module CommandExecutor has the rest).  A run's arguments *)
(* are constants; who submits it is up to the behaviour.                    *)
(***************************************************************************)
EXTENDS Integers, Sequences, FiniteSets, SequencesExt

CONSTANTS
    Runs,
    Keys, NoKey, Unset, \* lock keys; the empty key; no lock_key argument
    lock_arg,           \* the lock_key argument of each submission
    Awaited,            \* runs that are submitted with await_result
    TimedRuns,          \* runs with a timeout of their own
    RpcRuns,            \* runs that Invoke submits for an RPC client
    SessionKey,         \* what the session's default_lock_key_mode comes to
    Workers,            \* the number of worker tasks
    NoRun

ASSUME NestedAssumption ==
    /\ IsFiniteSet(Runs) /\ NoRun \notin Runs /\ Workers \in Nat \ {0}
    /\ NoKey \notin Runs /\ Unset \notin Keys \cup {NoKey} /\ Keys \cap Runs = {}
    /\ lock_arg \in [Runs -> Keys \cup {NoKey, Unset}]
    /\ Awaited \cup TimedRuns \cup RpcRuns \subseteq Runs
    /\ SessionKey \in Keys \cup {NoKey}

VARIABLES
    phase,          \* of each run
    parent_run_id, lock_key, origin_source,     \* of its Invocation
    awaits,         \* the run whose result a handler waits for
    queue,          \* CommandExecutor._queue
    line            \* runs whose workers wait for a lock, in order

vars == <<phase, parent_run_id, lock_key, origin_source, awaits, queue, line>>

Init ==
    /\ phase = [r \in Runs |-> "new"]
    /\ parent_run_id = [r \in Runs |-> NoRun]
    /\ lock_key = [r \in Runs |-> NoKey]
    /\ origin_source = [r \in Runs |-> "internal"]
    /\ awaits = [r \in Runs |-> NoRun]
    /\ queue = <<>> /\ line = <<>>

-----------------------------------------------------------------------------
(* Mutant of ChildKey: a nested run gets the key of its session.            *)
NoChildKey(p) == SessionKey

(* "child:<run_id>", the key derived from the submitting run. *)
ChildKey(p) == p

ResolveLockKey(r, p) ==
    IF lock_arg[r] # Unset THEN lock_arg[r]
    ELSE IF p # NoRun THEN ChildKey(p) ELSE SessionKey

(* Mutant of DetectsDeadlock: nothing is refused.                           *)
DetectsNothing(r, p) == FALSE

(* _detect_nested_deadlock: the submitter's own key is awaited. *)
DetectsDeadlock(r, p) ==
    r \in Awaited /\ ResolveLockKey(r, p) = lock_key[p] /\ lock_key[p] # NoKey

Enqueued(r, p, origin) ==
    /\ phase' = [phase EXCEPT ![r] = "queued"]
    /\ parent_run_id' = [parent_run_id EXCEPT ![r] = p]
    /\ lock_key' = [lock_key EXCEPT ![r] = ResolveLockKey(r, p)]
    /\ origin_source' = [origin_source EXCEPT ![r] = origin]
    /\ queue' = Append(queue, r)
    /\ UNCHANGED line

(* A submission outside of any handler.  Invoke always sets a key. *)
SubmitOuter(r) ==
    /\ phase[r] = "new"
    /\ r \in RpcRuns => lock_arg[r] \in Keys
    /\ Enqueued(r, NoRun, IF r \in RpcRuns THEN "rpc" ELSE "internal")
    /\ UNCHANGED awaits

Executes(p) == phase[p] = "running" /\ awaits[p] = NoRun

(* A handler submits.  The chain must not start at RPC, an awaited run needs *)
(* a second worker, and its lock must not be the submitter's.               *)
SubmitNested(p, r) ==
    /\ Executes(p)
    /\ phase[r] = "new" /\ r \notin RpcRuns
    /\ origin_source[p] # "rpc"
    /\ r \in Awaited => Workers >= 2
    /\ ~DetectsDeadlock(r, p)
    /\ Enqueued(r, p, origin_source[p])
    /\ awaits' = IF r \in Awaited THEN [awaits EXCEPT ![p] = r] ELSE awaits

(* A handler awaits result(run_id) of a run it has submitted before; it does *)
(* not come back to poll a result that is there, or a wait with a timeout.  *)
AwaitResult(p, r) ==
    /\ Executes(p)
    /\ parent_run_id[r] = p /\ phase[r] # "ended" /\ r \notin TimedRuns
    /\ awaits' = [awaits EXCEPT ![p] = r]
    /\ UNCHANGED <<phase, parent_run_id, lock_key, origin_source, queue, line>>

(* The result is there, or wait_for's time is over. *)
AwaitOver(p) ==
    /\ awaits[p] # NoRun /\ phase[p] = "running"
    /\ phase[awaits[p]] = "ended" \/ awaits[p] \in TimedRuns
    /\ awaits' = [awaits EXCEPT ![p] = NoRun]
    /\ UNCHANGED <<phase, parent_run_id, lock_key, origin_source, queue, line>>

-----------------------------------------------------------------------------
Busy == {r \in Runs : phase[r] \in {"locking", "running"}}
Holds(h, k) == phase[h] = "running" /\ lock_key[h] = k /\ k # NoKey

(* A worker takes the next run; with a lock_key it joins the line first. *)
Take ==
    /\ queue # <<>> /\ Cardinality(Busy) < Workers
    /\ LET r == Head(queue) IN
       IF lock_key[r] = NoKey
       THEN phase' = [phase EXCEPT ![r] = "running"] /\ UNCHANGED line
       ELSE phase' = [phase EXCEPT ![r] = "locking"] /\ line' = Append(line, r)
    /\ queue' = Tail(queue)
    /\ UNCHANGED <<parent_run_id, lock_key, origin_source, awaits>>

(* Mutant of Served: whoever is first in the line leaves it.                *)
HeadServed(r) == Tail(line)

Served(r) == RemoveFirst(line, r)

(* The first in line for a lock that nobody holds gets it. *)
Acquire(r) ==
    /\ phase[r] = "locking"
    /\ \A h \in Runs : ~Holds(h, lock_key[r])
    /\ r = Head(SelectSeq(line, LAMBDA x : lock_key[x] = lock_key[r]))
    /\ phase' = [phase EXCEPT ![r] = "running"]
    /\ line' = Served(r)
    /\ UNCHANGED <<parent_run_id, lock_key, origin_source, awaits, queue>>

(* The handler returns, or runs into its timeout; its lock is free. *)
End(r) ==
    /\ phase[r] = "running"
    /\ awaits[r] = NoRun \/ r \in TimedRuns
    /\ phase' = [phase EXCEPT ![r] = "ended"]
    /\ awaits' = [awaits EXCEPT ![r] = NoRun]
    /\ UNCHANGED <<parent_run_id, lock_key, origin_source, queue, line>>

RunStep(r) ==
    \/ SubmitOuter(r) \/ AwaitOver(r) \/ Acquire(r) \/ End(r)
    \/ \E c \in Runs : SubmitNested(r, c) \/ AwaitResult(r, c)

Next == Take \/ \E r \in Runs : RunStep(r)

Spec == Init /\ [][Next]_vars

(* Workers and locks are served, handlers return unless they wait.          *)
FairSpec ==
    /\ Spec /\ WF_vars(Take)
    /\ \A r \in Runs : WF_vars(Acquire(r)) /\ WF_vars(AwaitOver(r)) /\ WF_vars(End(r))

-----------------------------------------------------------------------------
(* Type invariant: the queue and the line hold the runs of their phases.    *)
TypeOK ==
    /\ phase \in [Runs -> {"new", "queued", "locking", "running", "ended"}]
    /\ parent_run_id \in [Runs -> Runs \cup {NoRun}]
    /\ lock_key \in [Runs -> Keys \cup Runs \cup {NoKey}]
    /\ origin_source \in [Runs -> {"internal", "rpc"}]
    /\ awaits \in [Runs -> Runs \cup {NoRun}]
    /\ queue \in Seq(Runs) /\ line \in Seq(Runs)
    /\ IsInjective(queue) /\ ToSet(queue) = {r \in Runs : phase[r] = "queued"}
    /\ IsInjective(line) /\ ToSet(line) = {r \in Runs : phase[r] = "locking"}

(* A nested run with a key of its own choice, unless it is the submitter's  *)
(* key and awaited: the case the manager refuses.                           *)
Unchecked(r) ==
    LET p == parent_run_id[r] IN
    p # NoRun /\ lock_arg[r] \notin {Unset, NoKey}
              /\ ~(r \in Awaited /\ lock_key[r] = lock_key[p])

(* Whom a run waits for: the run it awaits, or the one that has its lock.   *)
WaitsFor(r, h) ==
    \/ awaits[r] = h /\ phase[h] # "ended"
    \/ ~Unchecked(r) /\ phase[r] \in {"queued", "locking"} /\ Holds(h, lock_key[r])

(* Derived keys are safe at every depth: no runs wait for each other in a   *)
(* circle, over awaits and locks, unless a nested run got a key by hand.     *)
DerivedKeysSafe ==
    \A S \in (SUBSET Runs) \ {{}} : \E r \in S : \A h \in S : ~WaitsFor(r, h)

(* Workers that wait: with a handler that awaits a run, or for a lock.      *)
Held == {r \in Runs : awaits[r] # NoRun \/ phase[r] = "locking"}

(* Nested waits end as long as some worker neither holds an awaiting handler *)
(* nor waits for a lock, and no nested run has a key the manager cannot     *)
(* check.                                                                   *)
NestedWaitsEnd ==
    [](Cardinality(Held) < Workers /\ \A r \in Runs : ~Unchecked(r))
        => \A r \in Runs : phase[r] = "queued" ~> phase[r] = "ended"

(* What the checks are for: a wait for a nested run that the manager has    *)
(* admitted, with the key it derived, ends.                                 *)
AdmittedWaitsEnd ==
    \A r \in Runs : awaits[r] # NoRun ~> awaits[r] = NoRun

=============================================================================
