------------------------------ MODULE Sessions ------------------------------
(***************************************************************************)
(* SessionManager and SessionStore: threads that submit runs through        *)
(* sessions while others close and garbage-collect them.                    *)
(*                                                                         *)
(* submit_command and submit_callable share their steps: status check and   *)
(* touch, limit check, hand-over to the executor, add_run, trimming.  None  *)
(* of them excludes another thread: SessionStore._lock is held within each  *)
(* store operation only.  Of the executor's runs only the status counts.    *)
(***************************************************************************)
EXTENDS Integers, Sequences, SequencesExt, FiniteSets

CONSTANTS
    SessionIds, Runs, Clients,  \* clients: threads that submit
    session_of,     \* the session each run is submitted to
    MaxConcurrent,  \* max_concurrent_runs; 0 and less: no limit
    RetainLast,     \* retain_last_n of the store; negative stands for None
    NoRun,
    TTL             \* idle_ttl_seconds, in ticks: bounds `age`

ASSUME SessionsAssumption ==
    /\ NoRun \notin Runs
    /\ IsFiniteSet(Clients) /\ IsFiniteSet(Runs)
    /\ session_of \in [Runs -> SessionIds]
    /\ MaxConcurrent \in Int /\ RetainLast \in Int /\ TTL \in Nat

VARIABLES
    status, run_ids,    \* SessionState: "none" is a session not yet opened
    age,                \* time since last_activity_at, up to TTL
    run,                \* the executor's runs
    pc, job,            \* clients: progress in submit_*, the run in hand
    trimmed,            \* clients: runs _trim_runs has still to remove
    expired,            \* gc: sessions found idle, not yet marked
    late                \* history: <<client, run>> submitted to a session
                        \* that was open no longer

vars == <<status, run_ids, age, run, pc, job, trimmed, expired, late>>

Target(c) == session_of[job[c]]
Active == {r \in Runs : run[r] \in {"PENDING", "RUNNING"}}

Init ==
    /\ status = [s \in SessionIds |-> "none"]
    /\ run_ids = [s \in SessionIds |-> <<>>]
    /\ age = [s \in SessionIds |-> 0]
    /\ run = [r \in Runs |-> "new"]
    /\ pc = [c \in Clients |-> "idle"] /\ job = [c \in Clients |-> NoRun]
    /\ trimmed = [c \in Clients |-> {}]
    /\ expired = {} /\ late = {}

-----------------------------------------------------------------------------
(* Sessions *)

Open(s) ==
    /\ status[s] = "none"
    /\ status' = [status EXCEPT ![s] = "OPEN"]
    /\ age' = [age EXCEPT ![s] = 0]
    /\ UNCHANGED <<run_ids, run, pc, job, trimmed, expired, late>>

(* close_session; an expired session may still be closed. *)
Close(s) ==
    /\ status[s] \in {"OPEN", "EXPIRED"}
    /\ status' = [status EXCEPT ![s] = "CLOSED"]
    /\ age' = [age EXCEPT ![s] = 0]
    /\ UNCHANGED <<run_ids, run, pc, job, trimmed, expired, late>>

(* gc, first half: without the lock, which sessions are open and idle. *)
FindIdle ==
    /\ expired = {}
    /\ expired' = {s \in SessionIds : status[s] = "OPEN" /\ age[s] >= TTL}
    /\ expired' # {}
    /\ UNCHANGED <<status, run_ids, age, run, pc, job, trimmed, late>>

(* gc, second half: they are marked, whatever happened to them since. *)
MarkExpired ==
    /\ expired # {}
    /\ status' = [s \in SessionIds |-> IF s \in expired THEN "EXPIRED" ELSE status[s]]
    /\ expired' = {}
    /\ UNCHANGED <<run_ids, age, run, pc, job, trimmed, late>>

Tick(s) ==
    /\ status[s] = "OPEN" /\ age[s] < TTL
    /\ age' = [age EXCEPT ![s] = @ + 1]
    /\ UNCHANGED <<status, run_ids, run, pc, job, trimmed, expired, late>>

-----------------------------------------------------------------------------
(* submit_command, submit_callable *)

(* Mutant of Accepts: the status is not looked at.                          *)
AcceptsAny(s) == status[s] # "none"

(* _require_session, _ensure_session_open *)
Accepts(s) == status[s] = "OPEN"

Return(c) ==
    /\ pc' = [pc EXCEPT ![c] = "idle"]
    /\ job' = [job EXCEPT ![c] = NoRun]

(* The session is open and is touched; a client that finds it closed goes   *)
(* away with an exception.                                                  *)
Enter(c, r) ==
    /\ pc[c] = "idle" /\ run[r] = "new"
    /\ \A d \in Clients : job[d] # r
    /\ Accepts(session_of[r])
    /\ age' = [age EXCEPT ![session_of[r]] = 0]
    /\ job' = [job EXCEPT ![c] = r]
    /\ pc' = [pc EXCEPT ![c] = "open"]
    /\ UNCHANGED <<status, run_ids, run, trimmed, expired, late>>

(* Mutant of Counted: pending runs do not count.                            *)
CountRunning(s) == {r \in ToSet(run_ids[s]) : run[r] = "RUNNING"}

(* The runs that count against the limit of s. *)
Counted(s) == ToSet(run_ids[s]) \cap Active

(* _assert_concurrency_limit, and the checks that can refuse a submission   *)
(* for other reasons (module NestedRuns): an exception ends the call.       *)
Admit(c) ==
    /\ pc[c] = "open"
    /\ MaxConcurrent > 0 => Cardinality(Counted(Target(c))) < MaxConcurrent
    /\ pc' = [pc EXCEPT ![c] = "admitted"]
    /\ UNCHANGED <<status, run_ids, age, run, job, trimmed, expired, late>>

Refuse(c) ==
    /\ pc[c] = "open"
    /\ Return(c)
    /\ UNCHANGED <<status, run_ids, age, run, trimmed, expired, late>>

(* submit_threadsafe: from here on the run may be executed. *)
Submit(c) ==
    /\ pc[c] = "admitted"
    /\ run' = [run EXCEPT ![job[c]] = "PENDING"]
    /\ pc' = [pc EXCEPT ![c] = "submitted"]
    /\ late' = IF status[Target(c)] = "OPEN" THEN late ELSE late \cup {<<c, job[c]>>}
    /\ UNCHANGED <<status, run_ids, age, job, trimmed, expired>>

(* Mutant of WithRun: the run is listed once more.                          *)
WithRunTwice(s, r) == run_ids[s] \o <<r, r>>

WithRun(s, r) == Append(run_ids[s], r)

AddRun(c) ==
    /\ pc[c] = "submitted"
    /\ run_ids' = [run_ids EXCEPT ![Target(c)] = WithRun(Target(c), job[c])]
    /\ pc' = [pc EXCEPT ![c] = "listed"]
    /\ UNCHANGED <<status, age, run, job, trimmed, expired, late>>

(* Mutants of Trimmable: the oldest runs go, active or not; runs that the   *)
(* job store has forgotten stay.                                            *)
AnyTrimmable(s) == ToSet(run_ids[s])
KnownTrimmable(s) == {r \in ToSet(run_ids[s]) : run[r] = "ended"}

(* Runs that have ended, whether the job store still has them or not. *)
Trimmable(s) == ToSet(run_ids[s]) \ Active

(* q is in front of r in the list of s. *)
Older(s, q, r) ==
    \E i, j \in DOMAIN run_ids[s] :
        i < j /\ run_ids[s][i] = q /\ run_ids[s][j] = r

(* _trim_runs, which looks for the oldest such runs, as many as the list    *)
(* has too many of, and then removes them one by one.                       *)
FindTrimmed(c) ==
    /\ pc[c] = "listed"
    /\ LET s == Target(c)
           excess == Len(run_ids[s]) - RetainLast
           ended == Trimmable(s) IN
       \E T \in SUBSET ended :
          /\ IF RetainLast < 0 \/ excess <= 0 THEN T = {}
             ELSE /\ \/ Cardinality(T) = excess
                     \/ Cardinality(ended) <= excess /\ T = ended
                  /\ \A q \in T, r \in ended \ T : Older(s, q, r)
          /\ trimmed' = [trimmed EXCEPT ![c] = T]
          /\ IF T = {} THEN Return(c)
             ELSE pc' = [pc EXCEPT ![c] = "trimming"] /\ UNCHANGED job
    /\ UNCHANGED <<status, run_ids, age, run, expired, late>>

(* A run that another thread has removed in the meantime is passed over. *)
Trim(c) ==
    /\ pc[c] = "trimming"
    /\ \E r \in trimmed[c] :
          /\ \A q \in trimmed[c] : ~Older(Target(c), q, r)
          /\ run_ids' = [run_ids EXCEPT ![Target(c)] = RemoveFirst(@, r)]
          /\ trimmed' = [trimmed EXCEPT ![c] = @ \ {r}]
    /\ IF trimmed'[c] = {} THEN Return(c) ELSE UNCHANGED <<pc, job>>
    /\ UNCHANGED <<status, age, run, expired, late>>

-----------------------------------------------------------------------------
(* The executor: a run starts, ends (also without having started) and is    *)
(* forgotten by the job store.                                              *)
RunStep(r) ==
    /\ \/ run[r] = "PENDING" /\ run' = [run EXCEPT ![r] = "RUNNING"]
       \/ run[r] \in {"PENDING", "RUNNING"} /\ run' = [run EXCEPT ![r] = "ended"]
       \/ run[r] = "ended" /\ run' = [run EXCEPT ![r] = "gone"]
    /\ UNCHANGED <<status, run_ids, age, pc, job, trimmed, expired, late>>

ClientStep(c) ==
    \/ \E r \in Runs : Enter(c, r)
    \/ Admit(c) \/ Refuse(c) \/ Submit(c) \/ AddRun(c) \/ FindTrimmed(c) \/ Trim(c)

Next ==
    \/ \E s \in SessionIds : Open(s) \/ Close(s) \/ Tick(s)
    \/ FindIdle \/ MarkExpired
    \/ \E c \in Clients : ClientStep(c)
    \/ \E r \in Runs : RunStep(r)

Spec == Init /\ [][Next]_vars

-----------------------------------------------------------------------------
(* Type invariant; a session lists runs of its own, each of them once.      *)
TypeOK ==
    /\ status \in [SessionIds -> {"none", "OPEN", "CLOSED", "EXPIRED"}]
    /\ run_ids \in [SessionIds -> Seq(Runs)]
    /\ \A s \in SessionIds : /\ IsInjective(run_ids[s])
                             /\ \A r \in ToSet(run_ids[s]) : session_of[r] = s
    /\ age \in [SessionIds -> 0 .. TTL]
    /\ run \in [Runs -> {"new", "PENDING", "RUNNING", "ended", "gone"}]
    /\ pc \in [Clients -> {"idle", "open", "admitted", "submitted", "listed", "trimming"}]
    /\ job \in [Clients -> Runs \cup {NoRun}] /\ trimmed \in [Clients -> SUBSET Runs]
    /\ expired \subseteq SessionIds /\ late \subseteq Clients \X Runs

(* Runs that have been handed over but are not in their session's list yet. *)
Unlisted == {job[c] : c \in {d \in Clients : pc[d] = "submitted"}}

(* An active run stays in the list of its session from add_run on, however  *)
(* submissions, endings and trims interleave: the limit counts it, and      *)
(* trimming takes ended runs only.                                          *)
ActiveListed ==
    \A r \in Active \ Unlisted : r \in ToSet(run_ids[session_of[r]])

(* The limit of a session is exact for one submitting thread; each further  *)
(* thread that has passed the check at the same time adds at most one run.  *)
LimitHolds ==
    MaxConcurrent > 0 =>
        \A s \in SessionIds :
            Cardinality({r \in Active : session_of[r] = s})
                < MaxConcurrent + Cardinality(Clients)

(* The list of a session does not grow with its use: beyond what is kept or *)
(* still active it holds at most the runs whose submitters have to trim.    *)
RunListBound ==
    RetainLast >= 0 /\ MaxConcurrent > 0 =>
        \A s \in SessionIds :
            LET cap == MaxConcurrent + Cardinality(Clients) - 1
                busy == {c \in Clients : pc[c] \in {"listed", "trimming"}} IN
            Len(run_ids[s]) <= (IF cap < RetainLast THEN RetainLast ELSE cap)
                               + Cardinality(busy)

(* A session that is closed or expired gets no more runs than were being    *)
(* submitted at that moment: one for each thread.                           *)
LateOnce ==
    \A x, y \in late :
        x[1] = y[1] /\ session_of[x[2]] = session_of[y[2]] => x = y

=============================================================================
