-------------------------- MODULE CommandExecutor --------------------------
(***************************************************************************)
(* CommandExecutor (executor/executor.py) on top of JobStore               *)
(* (runtime/jobs.py): runs are created, queued, taken by a fixed number of  *)
(* asyncio worker tasks, serialised per lock_key, executed as coroutines or *)
(* in a thread pool, timed out, cancelled, waited for, cleaned up, and the  *)
(* workers are shut down.                                                  *)
(*                                                                         *)
(* Two kinds of actors interleave.  Everything on the executor's event loop *)
(* is atomic from one await to the next: LoopFree says that no task is in   *)
(* the middle of such a stretch.  Other threads (the TTY, callbacks, thread *)
(* pool handlers) run at any time; JobStore._lock is the only thing that    *)
(* keeps them apart, and Cancelling says that a cancelling thread holds it. *)
(*                                                                         *)
(* What handlers do, when clients submit, cancel, wait or shut down, and    *)
(* how long anything takes is nondeterministic.                            *)
(***************************************************************************)
EXTENDS Integers, Sequences, FiniteSets

CONSTANTS
    Runs,           \* the run ids ever submitted (each is submitted once)
    Tasks,          \* the worker tasks that can ever be created
    WorkerCount,    \* ExecutorConfig.workers
    Keys,           \* the non-empty lock keys
    NoKey,          \* an empty lock_key: the run takes no lock
    lock_key,       \* Invocation.lock_key of every run
    TimedRuns,      \* runs with a timeout_ms
    PoolRuns,       \* runs whose handler is synchronous: it runs in the pool
    PoolSize,       \* ExecutorConfig.threadpool_workers
    ThreadRuns,     \* runs submitted by submit_threadsafe from another thread
    EarlyIds,       \* of these, the runs whose id is known before enqueueing
    LoopCancels,    \* runs that code on the loop may cancel
    ThreadCancels,  \* runs that another thread may cancel
    Waiters,        \* calls of wait_result / SessionManager.result
    waits_on,       \* the run each of them waits on
    TimedWaiters,   \* the waiters that pass a timeout_ms
    RetainLast,     \* ExecutorConfig.retain_last_n; negative stands for None
    HasTTL,         \* whether ExecutorConfig.ttl_seconds is set
    PopOnWait,      \* ExecutorConfig.pop_on_wait
    EmitRunEvents,  \* ExecutorConfig.emit_run_events
    CancelExempt,   \* whether CancelledError is one of exempt_exceptions
    MayShutdown,    \* whether shutdown is called (at most once)
    WaitOnShutdown, \* the wait argument of shutdown
    NoRun, NoTask

ASSUME ConfigAssumption ==
    /\ IsFiniteSet(Runs) /\ IsFiniteSet(Tasks)
    /\ NoRun \notin Runs /\ NoTask \notin Tasks /\ NoKey \notin Keys
    /\ lock_key \in [Runs -> Keys \cup {NoKey}]
    /\ TimedRuns \subseteq Runs /\ PoolRuns \subseteq Runs
    /\ ThreadRuns \subseteq Runs /\ EarlyIds \subseteq ThreadRuns
    /\ LoopCancels \subseteq Runs /\ ThreadCancels \subseteq Runs
    /\ waits_on \in [Waiters -> Runs] /\ TimedWaiters \subseteq Waiters
    /\ WorkerCount \in Nat \ {0} /\ PoolSize \in Nat \ {0}
    /\ RetainLast \in Int
    /\ {HasTTL, PopOnWait, EmitRunEvents, CancelExempt, MayShutdown,
        WaitOnShutdown} \subseteq BOOLEAN

Statuses == {"PENDING", "RUNNING", "SUCCEEDED", "FAILED", "CANCELLED", "TIMEOUT"}
Terminal == {"SUCCEEDED", "FAILED", "CANCELLED", "TIMEOUT"}

(* The four ways an execution ends: the arms of the try statement. *)
Ends == {"success", "timeout", "cancelled", "failure"}
StatusOf == [success |-> "SUCCEEDED", timeout |-> "TIMEOUT",
             cancelled |-> "CANCELLED", failure |-> "FAILED"]
EventKinds == Ends \cup {"start", "cancel_requested"}

VARIABLES
    \* RunState objects: they outlive their removal from the store
    status, outcome, finished_at, clock,
    \* JobStore: the keys of _runs and of _run_futures, and the futures
    stored, futures, future,
    \* the asyncio queue, self._workers, each task and its run
    queue, pool, wpc, wrun,
    \* self._locks: the owner of each lock and the tasks waiting for it
    holder, waiting,
    \* handlers (in the loop or in the pool), whether the pool is open
    handler, pool_open,
    \* clients: submitters, cancellers, waiters, the caller of shutdown
    spc, cpc, wait, stop,
    \* worker tasks with an undelivered cancel(), and those shutdown awaits
    cancel_req, gathered,
    \* the state events of each run, in the order of their seq
    log,
    \* history: the order in which runs were put on the queue
    order

runVars   == <<status, outcome, finished_at, clock>>
storeVars == <<stored, futures, future>>
taskVars  == <<wpc, wrun>>
lockVars  == <<holder, waiting>>
poolVars  == <<handler, pool_open>>
queueVars == <<queue, pool, order>>
clientVars == <<spc, cpc, wait>>
stopVars  == <<stop, cancel_req, gathered>>
vars == <<runVars, storeVars, queueVars, taskVars, lockVars, poolVars,
          clientVars, stopVars, log>>

-----------------------------------------------------------------------------
(* Who may move *)

(* The program counters at which a worker is between two awaits. *)
InLoop == {"checked", "marked", "refused", "finishing", "aborting"}

(* No task is in the middle of a synchronous stretch, and the loop is not   *)
(* blocked in ThreadPoolExecutor.shutdown(wait=True).                       *)
LoopFree == /\ \A w \in Tasks : wpc[w] \notin InLoop
            /\ stop # "draining"

(* A thread is inside JobStore.cancel and holds JobStore._lock. *)
Cancelling == \E r \in Runs : cpc[r] \in {"read", "marked"}

(* The caller that has the id can cancel the run or wait for it. *)
Known(r) == \/ spc[r] = "submitted"
            \/ spc[r] = "created" /\ r \in EarlyIds

(* Mutants of Free: every run makes a lock of its own (setdefault lost); a  *)
(* newcomer overtakes the line.                                             *)
NeverLocked(k) == TRUE
Barging(k) == k # NoKey => holder[k] = NoTask

(* Nobody owns the lock or is in line for it: acquire() does not suspend. *)
Free(k) == k # NoKey => holder[k] = NoTask /\ waiting[k] = <<>>

-----------------------------------------------------------------------------
(* Helpers that stand for calls *)

(* Mutant of Emitted: the test of force is inverted. *)
Unforced(r, kind, force) ==
    IF force THEN log ELSE [log EXCEPT ![r] = Append(@, kind)]

(* _emit_run_event: start, success and the worker's own cancelled event are *)
(* suppressed by emit_run_events = False, the others are forced.            *)
Emitted(r, kind, force) ==
    IF force \/ EmitRunEvents THEN [log EXCEPT ![r] = Append(@, kind)] ELSE log

(* Mutants of Resolved: errors are not passed on; they are passed as None.  *)
ResultsOnly(r, value) == [future EXCEPT ![r] = IF value = "result" THEN value ELSE @]
NoErrors(r, value) == [future EXCEPT ![r] = "result"]

(* resolve_future: a registered future that is not done gets its value. *)
Resolved(r, value) ==
    [future EXCEPT ![r] = IF r \in futures /\ @ = "pending" THEN value ELSE @]

(* Mutant of Created: the run state is not kept. *)
NotCreated(r) == stored

(* create_run: the run state, the invocation and the cancel flag of a run   *)
(* are in the store; a second run with the id would replace them.           *)
Created(r) == stored \cup {r}

(* Mutant of PopRuns: the future stays registered.                          *)
PopRunsKeepFutures(S, fut) ==
    /\ stored' = stored \ S
    /\ UNCHANGED futures
    /\ future' = fut

(* pop_run of every run of S: a future that is not done is cancelled. *)
PopRuns(S, fut) ==
    /\ stored'  = stored \ S
    /\ futures' = futures \ S
    /\ future'  = [r \in Runs |-> IF r \in S \cap futures /\ fut[r] = "pending"
                                  THEN "cancelled" ELSE fut[r]]

(* Mutant of StartWorkers: without "if self._workers: return".              *)
StartMoreWorkers ==
    \E S \in SUBSET {w \in Tasks : wpc[w] = "unborn"} :
        /\ Cardinality(S) = WorkerCount
        /\ pool' = pool \cup S
        /\ wpc' = [w \in Tasks |-> IF w \in S THEN "idle" ELSE wpc[w]]

(* start(): workers are created when self._workers is empty. *)
StartWorkers ==
    IF pool # {}
    THEN UNCHANGED <<pool, wpc>>
    ELSE \E S \in SUBSET {w \in Tasks : wpc[w] = "unborn"} :
            /\ Cardinality(S) = WorkerCount
            /\ pool' = S
            /\ wpc' = [w \in Tasks |-> IF w \in S THEN "idle" ELSE wpc[w]]

(* set_future and put_nowait, after start(), as submit and _enqueue do. *)
EnqueueRun(r) ==
    /\ StartWorkers
    /\ futures' = futures \cup {r}
    /\ future' = [future EXCEPT ![r] = "pending"]
    /\ queue' = Append(queue, r)
    /\ order' = Append(order, r)
    /\ spc' = [spc EXCEPT ![r] = "submitted"]

(* Mutant of Enter: without the status check.                               *)
EnterUnchecked(w, r) ==
    /\ wpc' = [wpc EXCEPT ![w] = "checked"]
    /\ wrun' = [wrun EXCEPT ![w] = r]
    /\ holder' = [k \in Keys |-> IF k = lock_key[r] THEN w ELSE holder[k]]

(* The status check at the top of _execute_work_item, with the lock held. *)
Enter(w, r) ==
    IF status[r] = "CANCELLED"
    THEN /\ wpc' = [wpc EXCEPT ![w] = "idle"]
         /\ wrun' = [wrun EXCEPT ![w] = NoRun]
         /\ UNCHANGED holder
    ELSE /\ wpc' = [wpc EXCEPT ![w] = "checked"]
         /\ wrun' = [wrun EXCEPT ![w] = r]
         /\ holder' = [k \in Keys |-> IF k = lock_key[r] THEN w ELSE holder[k]]

(* Mutants of Released: the lock is kept; a value of the wrong kind.        *)
NotReleased(w) == holder
ReleasedToRun(w) == [k \in Keys |-> IF holder[k] = w THEN NoRun ELSE holder[k]]

(* Leaving "async with lock". *)
Released(w) == [k \in Keys |-> IF holder[k] = w THEN NoTask ELSE holder[k]]

(* One arm of the try statement of _execute_work_item, on the way to finally. *)
EndRun(w, end) ==
    LET r == wrun[w] IN
    /\ status' = [status EXCEPT ![r] = StatusOf[end]]
    /\ outcome' = [outcome EXCEPT ![r] =
                      IF end = "success" /\ @ # "error" THEN "result" ELSE "error"]
    /\ future' = Resolved(r, IF end = "success" THEN "result" ELSE "error")
    /\ log' = Emitted(r, end, end \in {"timeout", "failure"})
    /\ wpc' = [wpc EXCEPT ![w] = "finishing"]
    /\ UNCHANGED <<finished_at, clock, stored, futures, queueVars, wrun,
                   lockVars, pool_open, clientVars>>

(* wait_for gives up, or the task is cancelled: a coroutine is torn down, a *)
(* pool handler that waits for a thread is withdrawn, one that has a thread *)
(* goes on in it.                                                           *)
Abandoned(r) ==
    [handler EXCEPT ![r] =
        IF r \in PoolRuns /\ @ = "active" THEN "active" ELSE "over"]

-----------------------------------------------------------------------------
Init ==
    /\ status = [r \in Runs |-> "PENDING"]
    /\ outcome = [r \in Runs |-> "none"]
    /\ finished_at = [r \in Runs |-> 0]
    /\ clock = 0
    /\ stored = {} /\ futures = {}
    /\ future = [r \in Runs |-> "none"]
    /\ queue = <<>> /\ order = <<>>
    /\ pool = {}
    /\ wpc = [w \in Tasks |-> "unborn"]
    /\ wrun = [w \in Tasks |-> NoRun]
    /\ holder = [k \in Keys |-> NoTask]
    /\ waiting = [k \in Keys |-> <<>>]
    /\ handler = [r \in Runs |-> "idle"]
    /\ pool_open = TRUE
    /\ spc = [r \in Runs |-> "new"]
    /\ cpc = [r \in Runs |-> "idle"]
    /\ wait = [c \in Waiters |-> "new"]
    /\ stop = "up" /\ cancel_req = {} /\ gathered = {}
    /\ log = [r \in Runs |-> <<>>]
-----------------------------------------------------------------------------
(* Clients: submitting *)

(* submit on the loop: create_run, start, set_future, put_nowait. *)
Submit(r) ==
    /\ r \notin ThreadRuns
    /\ LoopFree /\ ~Cancelling
    /\ spc[r] = "new"
    /\ stored' = Created(r)
    /\ EnqueueRun(r)
    /\ UNCHANGED <<runVars, wrun, lockVars, poolVars, cpc, wait, stopVars, log>>

(* submit_threadsafe in the calling thread, up to the hand-over. *)
CreateRun(r) ==
    /\ r \in ThreadRuns
    /\ ~Cancelling
    /\ spc[r] = "new"
    /\ stored' = Created(r)
    /\ spc' = [spc EXCEPT ![r] = "created"]
    /\ UNCHANGED <<runVars, futures, future, queueVars, taskVars, lockVars,
                   poolVars, cpc, wait, stopVars, log>>

(* its _enqueue on the loop, after which the caller gets the run id. *)
Enqueue(r) ==
    /\ LoopFree /\ ~Cancelling
    /\ spc[r] = "created"
    /\ EnqueueRun(r)
    /\ UNCHANGED <<runVars, stored, wrun, lockVars, poolVars, cpc, wait,
                   stopVars, log>>

-----------------------------------------------------------------------------
(* Workers *)

(* queue.get() and get_run_state, then the lock of the run if it has one. *)
Take(w) ==
    /\ LoopFree /\ ~Cancelling
    /\ wpc[w] = "idle" /\ w \notin cancel_req
    /\ queue # <<>>
    /\ queue' = Tail(queue)
    /\ LET r == Head(queue)
           k == lock_key[r] IN
       \/ /\ r \notin stored
          /\ UNCHANGED <<taskVars, lockVars>>
       \/ /\ r \in stored /\ Free(k)
          /\ Enter(w, r)
          /\ UNCHANGED waiting
       \/ /\ r \in stored /\ ~Free(k)
          /\ wpc' = [wpc EXCEPT ![w] = "lock"]
          /\ wrun' = [wrun EXCEPT ![w] = r]
          /\ waiting' = [waiting EXCEPT ![k] = Append(@, w)]
          /\ UNCHANGED holder
    /\ UNCHANGED <<runVars, storeVars, pool, order, poolVars, clientVars,
                   stopVars, log>>

(* asyncio.Lock is fair: the first in line gets a released lock. *)
Acquire(w) ==
    /\ LoopFree
    /\ wpc[w] = "lock" /\ w \notin cancel_req
    /\ LET k == lock_key[wrun[w]] IN
       /\ holder[k] = NoTask
       /\ waiting[k] # <<>> /\ Head(waiting[k]) = w
       /\ waiting' = [waiting EXCEPT ![k] = Tail(@)]
    /\ Enter(w, wrun[w])
    /\ UNCHANGED <<runVars, storeVars, queueVars, poolVars, clientVars,
                   stopVars, log>>

(* status = RUNNING: written without JobStore._lock. *)
MarkRunning(w) ==
    /\ wpc[w] = "checked"
    /\ status' = [status EXCEPT ![wrun[w]] = "RUNNING"]
    /\ wpc' = [wpc EXCEPT ![w] = "marked"]
    /\ UNCHANGED <<outcome, finished_at, clock, storeVars, queueVars, wrun,
                   lockVars, poolVars, clientVars, stopVars, log>>

(* The start event, the run context, and the call of the handler: a         *)
(* coroutine begins, a synchronous handler goes to the pool unless the pool *)
(* is shut down, in which case run_in_executor raises.                      *)
Start(w) ==
    /\ wpc[w] = "marked" /\ ~Cancelling
    /\ LET r == wrun[w]
           refused == r \in PoolRuns /\ ~pool_open IN
       /\ log' = Emitted(r, "start", FALSE)
       /\ wpc' = [wpc EXCEPT ![w] = IF refused THEN "refused" ELSE "running"]
       /\ handler' = [handler EXCEPT ![r] =
                         IF refused THEN "over"
                         ELSE IF r \in PoolRuns THEN "queued" ELSE "active"]
    /\ UNCHANGED <<runVars, storeVars, queueVars, wrun, lockVars, pool_open,
                   clientVars, stopVars>>

(* The RuntimeError of a closed pool is a failure of the run. *)
Refuse(w) ==
    /\ wpc[w] = "refused" /\ ~Cancelling
    /\ EndRun(w, "failure")
    /\ UNCHANGED <<handler, stopVars>>

(* A pool thread picks up a handler, and is done with one. *)
PoolStart(r) ==
    /\ handler[r] = "queued"
    /\ Cardinality({s \in PoolRuns : handler[s] = "active"}) < PoolSize
    /\ handler' = [handler EXCEPT ![r] = "active"]
    /\ UNCHANGED <<runVars, storeVars, queueVars, taskVars, lockVars, pool_open,
                   clientVars, stopVars, log>>

PoolEnd(r) ==
    /\ r \in PoolRuns
    /\ handler[r] = "active"
    /\ handler' = [handler EXCEPT ![r] = "over"]
    /\ UNCHANGED <<runVars, storeVars, queueVars, taskVars, lockVars, pool_open,
                   clientVars, stopVars, log>>

(* The handler returned, or raised: an exempt exception, a TimeoutError of  *)
(* its own, or anything else.                                               *)
Complete(w, end) ==
    /\ LoopFree /\ ~Cancelling
    /\ wpc[w] = "running" /\ w \notin cancel_req
    /\ handler[wrun[w]] = IF wrun[w] \in PoolRuns THEN "over" ELSE "active"
    /\ handler' = [handler EXCEPT ![wrun[w]] = "over"]
    /\ EndRun(w, end)
    /\ UNCHANGED stopVars

(* asyncio.wait_for raises TimeoutError. *)
Timeout(w) ==
    /\ LoopFree /\ ~Cancelling
    /\ wpc[w] = "running" /\ w \notin cancel_req
    /\ wrun[w] \in TimedRuns
    /\ EndRun(w, "timeout")
    /\ handler' = Abandoned(wrun[w])
    /\ UNCHANGED stopVars

(* JobStore.cleanup: what it removes, oldest first, and when its sort of    *)
(* (finished_at, run_id) pairs compares None with a number and raises.      *)
Retention == HasTTL \/ RetainLast >= 0

(* Mutant of Completed: pending and running runs are not skipped. *)
AnyStatus == stored

Completed == {r \in stored : status[r] \in Terminal}

Surplus(at) ==
    IF RetainLast < 0 THEN {}
    ELSE {r \in Completed :
            Cardinality({s \in Completed : at[s] > at[r]}) >= RetainLast}

Expired(at, t) == {r \in Completed : at[r] # 0 /\ at[r] <= t}

Unsortable(at) ==
    /\ RetainLast >= 0
    /\ \E r, s \in Completed : at[r] = 0 /\ at[s] # 0

(* The finally clause: finished_at and cleanup; then the lock is released   *)
(* and the task goes back to the queue, unless an exception goes on.        *)
Finish(w) ==
    /\ wpc[w] \in {"finishing", "aborting"}
    /\ clock' = clock + 1
    /\ finished_at' = [finished_at EXCEPT ![wrun[w]] = clock + 1]
    /\ \/ /\ Unsortable(finished_at')
          /\ wpc' = [wpc EXCEPT ![w] = "dead"]
          /\ UNCHANGED storeVars
       \/ /\ ~Unsortable(finished_at')
          /\ Retention => ~Cancelling
          /\ wpc' = [wpc EXCEPT ![w] = IF @ = "aborting" THEN "done" ELSE "idle"]
          /\ \E t \in IF HasTTL THEN 0 .. clock ELSE {0} :
                PopRuns(Surplus(finished_at') \cup Expired(finished_at', t), future)
    /\ wrun' = [wrun EXCEPT ![w] = NoRun]
    /\ holder' = Released(w)
    /\ UNCHANGED <<status, outcome, queueVars, waiting, poolVars, clientVars,
                   stopVars, log>>

-----------------------------------------------------------------------------
(* Clients: cancelling.  Of all calls for a run, one that is answered       *)
(* "cancelled" or "requested" is modelled; "missing" and "noop" do nothing. *)

(* The PENDING branch of JobStore.cancel after its write of the status. *)
CommitCancel(r) ==
    /\ clock' = clock + 1
    /\ finished_at' = [finished_at EXCEPT ![r] = clock + 1]
    /\ outcome' = [outcome EXCEPT ![r] = "error"]
    /\ future' = Resolved(r, "error")

CanCancel(r, callers) ==
    r \in callers /\ Known(r) /\ cpc[r] = "idle" /\ r \in stored /\ ~Cancelling

(* A call on the loop, with its event. *)
CancelPending(r) ==
    /\ LoopFree /\ CanCancel(r, LoopCancels)
    /\ status[r] = "PENDING"
    /\ status' = [status EXCEPT ![r] = "CANCELLED"]
    /\ CommitCancel(r)
    /\ cpc' = [cpc EXCEPT ![r] = "cancelled"]
    /\ log' = Emitted(r, "cancelled", TRUE)
    /\ UNCHANGED <<stored, futures, queueVars, taskVars, lockVars, poolVars,
                   spc, wait, stopVars>>

CancelRunning(r) ==
    /\ LoopFree /\ CanCancel(r, LoopCancels)
    /\ status[r] = "RUNNING"
    /\ cpc' = [cpc EXCEPT ![r] = "requested"]
    /\ log' = Emitted(r, "cancel_requested", TRUE)
    /\ UNCHANGED <<runVars, storeVars, queueVars, taskVars, lockVars, poolVars,
                   spc, wait, stopVars>>

(* The same call in another thread: it reads the status with the store's    *)
(* lock held, writes it, completes the record and lets the lock go, and     *)
(* emits the event.                                                         *)
ThreadRead(r) ==
    /\ CanCancel(r, ThreadCancels)
    /\ \/ /\ status[r] = "PENDING"
          /\ cpc' = [cpc EXCEPT ![r] = "read"]
       \/ /\ status[r] = "RUNNING"
          /\ cpc' = [cpc EXCEPT ![r] = "requesting"]
    /\ UNCHANGED <<runVars, storeVars, queueVars, taskVars, lockVars, poolVars,
                   spc, wait, stopVars, log>>

ThreadMark(r) ==
    /\ cpc[r] = "read"
    /\ status' = [status EXCEPT ![r] = "CANCELLED"]
    /\ cpc' = [cpc EXCEPT ![r] = "marked"]
    /\ UNCHANGED <<outcome, finished_at, clock, storeVars, queueVars, taskVars,
                   lockVars, poolVars, spc, wait, stopVars, log>>

ThreadCommit(r) ==
    /\ cpc[r] = "marked"
    /\ CommitCancel(r)
    /\ cpc' = [cpc EXCEPT ![r] = "committed"]
    /\ UNCHANGED <<status, stored, futures, queueVars, taskVars, lockVars,
                   poolVars, spc, wait, stopVars, log>>

ThreadAnswer(r) ==
    /\ ~Cancelling
    /\ \/ /\ cpc[r] = "committed"
          /\ log' = Emitted(r, "cancelled", TRUE)
          /\ cpc' = [cpc EXCEPT ![r] = "cancelled"]
       \/ /\ cpc[r] = "requesting"
          /\ log' = Emitted(r, "cancel_requested", TRUE)
          /\ cpc' = [cpc EXCEPT ![r] = "requested"]
    /\ UNCHANGED <<runVars, storeVars, queueVars, taskVars, lockVars, poolVars,
                   spc, wait, stopVars>>

-----------------------------------------------------------------------------
(* Clients: waiting, by wait_result on the loop *)

(* JobStore.result without a future: what the RunState holds, or None. *)
Unawaited(r) == IF r \in stored THEN outcome[r] ELSE "none"

(* The finally clause of wait_result. *)
Answer(c, answer, fut) ==
    /\ wait' = [wait EXCEPT ![c] = answer]
    /\ PopRuns(IF PopOnWait THEN {waits_on[c]} ELSE {}, fut)

WaitStart(c) ==
    /\ LoopFree /\ ~Cancelling
    /\ wait[c] = "new" /\ Known(waits_on[c])
    /\ \/ /\ waits_on[c] \notin futures
          /\ Answer(c, Unawaited(waits_on[c]), future)
       \/ /\ waits_on[c] \in futures
          /\ wait' = [wait EXCEPT ![c] = "waiting"]
          /\ UNCHANGED storeVars
    /\ UNCHANGED <<runVars, queueVars, taskVars, lockVars, poolVars, spc, cpc,
                   stopVars, log>>

WaitEnd(c) ==
    /\ LoopFree /\ ~Cancelling
    /\ wait[c] = "waiting" /\ future[waits_on[c]] # "pending"
    /\ Answer(c, future[waits_on[c]], future)
    /\ UNCHANGED <<runVars, queueVars, taskVars, lockVars, poolVars, spc, cpc,
                   stopVars, log>>

(* SessionManager.result with a timeout: wait_for cancels wait_result, and  *)
(* the cancellation goes through to the future it awaits.                   *)
WaitTimeout(c) ==
    /\ LoopFree /\ ~Cancelling
    /\ c \in TimedWaiters
    /\ wait[c] = "waiting"
    /\ Answer(c, "timeout", [future EXCEPT ![waits_on[c]] =
                                IF @ = "pending" THEN "cancelled" ELSE @])
    /\ UNCHANGED <<runVars, queueVars, taskVars, lockVars, poolVars, spc, cpc,
                   stopVars, log>>

-----------------------------------------------------------------------------
(* Shutting down *)

(* Every task of self._workers gets cancel(); without wait the pool is      *)
(* closed at once.                                                          *)
Shutdown ==
    /\ MayShutdown /\ LoopFree
    /\ stop = "up"
    /\ cancel_req' = pool
    /\ gathered' = IF WaitOnShutdown THEN pool ELSE {}
    /\ pool' = {}
    /\ stop' = IF WaitOnShutdown THEN "gathering" ELSE "down"
    /\ pool_open' = WaitOnShutdown
    /\ UNCHANGED <<runVars, storeVars, queue, order, taskVars, lockVars,
                   handler, clientVars, log>>

(* CancelledError inside queue.get(): the task ends. *)
CancelIdle(w) ==
    /\ LoopFree
    /\ w \in cancel_req /\ wpc[w] = "idle"
    /\ wpc' = [wpc EXCEPT ![w] = "done"]
    /\ cancel_req' = cancel_req \ {w}
    /\ UNCHANGED <<runVars, storeVars, queueVars, wrun, lockVars, poolVars,
                   clientVars, stop, gathered, log>>

(* Inside lock.acquire(): the task ends, and the work item it took with it. *)
CancelLockWait(w) ==
    /\ LoopFree
    /\ w \in cancel_req /\ wpc[w] = "lock"
    /\ LET k == lock_key[wrun[w]] IN
       \E i \in 1 .. Len(waiting[k]) :
          /\ waiting[k][i] = w
          /\ waiting' = [waiting EXCEPT ![k] =
                            SubSeq(@, 1, i - 1) \o SubSeq(@, i + 1, Len(@))]
    /\ wpc' = [wpc EXCEPT ![w] = "done"]
    /\ wrun' = [wrun EXCEPT ![w] = NoRun]
    /\ cancel_req' = cancel_req \ {w}
    /\ UNCHANGED <<runVars, storeVars, queueVars, holder, poolVars, clientVars,
                   stop, gathered, log>>

(* Inside the handler: CancelledError is exempt by default, so the run ends *)
(* as cancelled and the task lives on; otherwise no arm catches it.         *)
CancelHandler(w) ==
    /\ LoopFree /\ ~Cancelling
    /\ w \in cancel_req /\ wpc[w] = "running"
    /\ cancel_req' = cancel_req \ {w}
    /\ handler' = Abandoned(wrun[w])
    /\ \/ CancelExempt /\ EndRun(w, "cancelled")
       \/ /\ ~CancelExempt
          /\ wpc' = [wpc EXCEPT ![w] = "aborting"]
          /\ UNCHANGED <<runVars, storeVars, queueVars, wrun, lockVars,
                         pool_open, clientVars, log>>
    /\ UNCHANGED <<stop, gathered>>

(* Mutants of Ended: gather is not awaited; it awaits idleness. *)
NotAwaited(w) == TRUE
Idle(w) == wpc[w] = "idle"

Ended(w) == wpc[w] \in {"done", "dead"}

(* gather() returns when every cancelled task has ended. *)
Gathered ==
    /\ LoopFree
    /\ stop = "gathering"
    /\ \A w \in gathered : Ended(w)
    /\ pool_open' = FALSE
    /\ stop' = "draining"
    /\ UNCHANGED <<runVars, storeVars, queueVars, taskVars, lockVars, handler,
                   clientVars, cancel_req, gathered, log>>

(* ThreadPoolExecutor.shutdown(wait=True) returns when the pool is empty. *)
Drained ==
    /\ stop = "draining"
    /\ \A r \in PoolRuns : handler[r] \notin {"queued", "active"}
    /\ stop' = "down"
    /\ UNCHANGED <<runVars, storeVars, queueVars, taskVars, lockVars, poolVars,
                   clientVars, cancel_req, gathered, log>>
-----------------------------------------------------------------------------
Submitters == \E r \in Runs : Submit(r) \/ CreateRun(r) \/ Enqueue(r)

WorkerStep(w) ==
    \/ Take(w) \/ Acquire(w) \/ MarkRunning(w) \/ Start(w) \/ Refuse(w)
    \/ Timeout(w) \/ Finish(w)
    \/ \E end \in Ends : Complete(w, end)
    \/ CancelIdle(w) \/ CancelLockWait(w) \/ CancelHandler(w)

PoolThreads == \E r \in Runs : PoolStart(r) \/ PoolEnd(r)

Cancellers ==
    \E r \in Runs :
        \/ CancelPending(r) \/ CancelRunning(r)
        \/ ThreadRead(r) \/ ThreadMark(r) \/ ThreadCommit(r) \/ ThreadAnswer(r)

WaiterCalls == \E c \in Waiters : WaitStart(c) \/ WaitEnd(c) \/ WaitTimeout(c)

(* Where the system may stop: every call was made and answered, workers are *)
(* idle or gone.  Any other state without a successor is a deadlock.        *)
Quiet ==
    /\ \A r \in Runs : spc[r] = "submitted"
    /\ \A w \in Tasks : wpc[w] \in {"unborn", "idle", "done", "dead"}
    /\ \A c \in Waiters : wait[c] \notin {"new", "waiting"}
    /\ stop \in {"up", "down"}

Rest == Quiet /\ UNCHANGED vars

Next == \/ Submitters \/ PoolThreads \/ Cancellers \/ WaiterCalls
        \/ \E w \in Tasks : WorkerStep(w)
        \/ Shutdown \/ Gathered \/ Drained
        \/ Rest

Spec == Init /\ [][Next]_vars

(* The loop runs its ready callbacks and tasks, threads make progress, a     *)
(* timer fires, and a handler without a timeout returns (one with a timeout *)
(* need not).  Clients need not call anything.                              *)
LoopFairness ==
    /\ \A r \in Runs : WF_vars(Enqueue(r)) /\ WF_vars(PoolStart(r))
    /\ \A w \in Tasks :
          /\ WF_vars(Take(w)) /\ WF_vars(Acquire(w)) /\ WF_vars(MarkRunning(w))
          /\ WF_vars(Start(w)) /\ WF_vars(Refuse(w)) /\ WF_vars(Timeout(w))
          /\ WF_vars(Finish(w))
          /\ WF_vars(CancelIdle(w) \/ CancelLockWait(w) \/ CancelHandler(w))
    /\ \A c \in Waiters : WF_vars(WaitEnd(c))
    /\ WF_vars(Gathered) /\ WF_vars(Drained)

ThreadFairness ==
    \A r \in Runs : WF_vars(ThreadMark(r)) /\ WF_vars(ThreadCommit(r))
                    /\ WF_vars(ThreadAnswer(r))

HandlerFairness ==
    /\ \A r \in Runs \ TimedRuns : WF_vars(PoolEnd(r))
    /\ \A w \in Tasks :
          WF_vars(wrun[w] \notin TimedRuns /\ \E end \in Ends : Complete(w, end))

FairSpec == Spec /\ LoopFairness /\ ThreadFairness /\ HandlerFairness

-----------------------------------------------------------------------------
(* Type invariant: the values the fields of the executor, of the job store  *)
(* and of the run records can have.                                         *)
TypeOK ==
    /\ status \in [Runs -> Statuses]
    /\ outcome \in [Runs -> {"none", "result", "error"}]
    /\ finished_at \in [Runs -> Nat] /\ clock \in Nat
    /\ stored \subseteq Runs /\ futures \subseteq Runs
    /\ future \in [Runs -> {"none", "pending", "result", "error", "cancelled"}]
    /\ queue \in Seq(Runs) /\ order \in Seq(Runs)
    /\ pool \subseteq Tasks
    /\ wpc \in [Tasks -> InLoop \cup {"unborn", "idle", "lock", "running",
                                       "done", "dead"}]
    /\ wrun \in [Tasks -> Runs \cup {NoRun}]
    /\ holder \in [Keys -> Tasks \cup {NoTask}]
    /\ waiting \in [Keys -> Seq(Tasks)]
    /\ handler \in [Runs -> {"idle", "queued", "active", "over"}]
    /\ pool_open \in BOOLEAN
    /\ spc \in [Runs -> {"new", "created", "submitted"}]
    /\ cpc \in [Runs -> {"idle", "read", "marked", "committed", "cancelled",
                         "requesting", "requested"}]
    /\ wait \in [Waiters -> {"new", "waiting", "result", "error", "none",
                             "cancelled", "timeout"}]
    /\ stop \in {"up", "gathering", "draining", "down"}
    /\ cancel_req \subseteq Tasks /\ gathered \subseteq Tasks
    /\ log \in [Runs -> Seq(EventKinds)]

-----------------------------------------------------------------------------
(* Safety *)

Conflict(r, s) == r # s /\ lock_key[r] = lock_key[s] /\ lock_key[r] # NoKey

(* A task that is past "async with lock" and has not left it. *)
Inside(w) == wpc[w] \in InLoop \cup {"running"}

(* No two worker tasks are inside the same lock: _locks.setdefault and       *)
(* "async with lock" serialise the execution of runs with one lock_key,     *)
(* through cancellations, timeouts, failures and shutdowns.                 *)
TaskExclusion ==
    \A v, w \in Tasks :
        v # w /\ Inside(v) /\ Inside(w) => ~Conflict(wrun[v], wrun[w])

(* The handlers of two runs with one lock_key never execute at the same     *)
(* time, which is what the lock is for ("acquire, execute the command,      *)
(* finally release"): the code of a handler is not running outside it.      *)
HandlerExclusion ==
    \A r, s \in Runs :
        Conflict(r, s) => ~(handler[r] = "active" /\ handler[s] = "active")

(* A run that was handed to the executor is in at most one place, the queue *)
(* or the hands of one worker, and it is somewhere as long as it is         *)
(* PENDING: no run is executed twice and none is forgotten.                 *)
Places(r) == Cardinality({i \in 1 .. Len(queue) : queue[i] = r})
             + Cardinality({w \in Tasks : wrun[w] = r})

NoRunLost ==
    \A r \in Runs :
        /\ Places(r) <= 1
        /\ spc[r] = "submitted" /\ status[r] = "PENDING" => Places(r) = 1

(* Runs with one lock_key start in the order they were put on the queue: no *)
(* handler is called while an earlier run with its key is still PENDING,    *)
(* with any number of workers (the queue and asyncio.Lock are both FIFO).   *)
SameKeyFIFO ==
    \A i, j \in 1 .. Len(order) :
        i < j /\ Conflict(order[i], order[j]) /\ status[order[i]] = "PENDING"
            => handler[order[j]] = "idle"

(* The future of a submitted run and its status tell the same story:        *)
(* _resolve_future and cancel set both, and nobody else touches the future. *)
FutureAgrees ==
    \A r \in Runs : spc[r] = "submitted" =>
        future[r] = CASE status[r] \in {"PENDING", "RUNNING"} -> "pending"
                      [] status[r] = "SUCCEEDED" -> "result"
                      [] OTHER -> "error"

(* What wait_result tells a caller is how the run ended, and a run that has *)
(* not ended has no answer: never None, never a cancellation of the wait.   *)
AnswerAgrees ==
    \A c \in Waiters :
        LET s == status[waits_on[c]] IN
        /\ wait[c] = "result" => s = "SUCCEEDED"
        /\ wait[c] = "error" => s \in Terminal \ {"SUCCEEDED"}
        /\ wait[c] \notin {"none", "cancelled"}

(* The state events of a run: "start" comes first and once, an end comes    *)
(* last and once and names the status, and a run that has ended has said so *)
(* unless emit_run_events is off.                                           *)
EventsTellStatus ==
    \A r \in Runs :
        LET e == log[r] IN
        /\ \A i \in 1 .. Len(e) : e[i] = "start" => i = 1
        /\ \A i \in 1 .. Len(e) :
              e[i] \in Ends => i = Len(e) /\ StatusOf[e[i]] = status[r]
        /\ EmitRunEvents /\ status[r] \in Terminal =>
              e # <<>> /\ e[Len(e)] \in Ends

(* A run whose cancel() was answered "cancelled" is never executed.         *)
CancelledNeverRuns ==
    \A r \in Runs : cpc[r] = "cancelled" =>
        status[r] = "CANCELLED" /\ handler[r] = "idle"

(* No more worker tasks consume invocations than ExecutorConfig.workers,    *)
(* not counting those that shutdown is about to end.                        *)
WorkerBound ==
    Cardinality({w \in Tasks \ cancel_req :
                    wpc[w] \notin {"unborn", "done", "dead"}}) <= WorkerCount

(* Nothing is kept for a run that is no longer in the store: pop_run and    *)
(* cleanup leave no future behind.                                          *)
FuturesStored == futures \subseteq stored

(* When shutdown(wait=True) has returned, the tasks it cancelled have ended *)
(* and no synchronous handler is executing or about to.                     *)
DownIsQuiet ==
    WaitOnShutdown /\ stop = "down" =>
        /\ \A w \in gathered : wpc[w] \in {"done", "dead"}
        /\ \A r \in PoolRuns : handler[r] \notin {"queued", "active"}

-----------------------------------------------------------------------------
(* What a step may never do *)

(* A run that has ended keeps its status.                                   *)
EndsOnce ==
    [][\A r \in Runs : status[r] \in Terminal => status'[r] = status[r]]_vars

(* Cleanup removes only runs that have ended, the oldest first, and leaves  *)
(* no more than retain_last_n behind after an execution (unless it raised). *)
CleanupKeepsNewest ==
    [][/\ \A r \in stored \ stored' :
             /\ status[r] \in Terminal
             /\ \A s \in Completed \cap stored' : finished_at'[r] < finished_at'[s]
       /\ \A w \in Tasks :
             wpc[w] = "finishing" /\ wpc'[w] = "idle" /\ RetainLast >= 0 =>
                 Cardinality({r \in stored' : status'[r] \in Terminal}) <= RetainLast
      ]_vars

-----------------------------------------------------------------------------
(* The executor implements the service that its clients see.  A run exists  *)
(* for them once it is on the queue, and is forgotten when the store has    *)
(* dropped it; a caller that still waits has been told nothing.             *)
Service == INSTANCE RunService WITH
    stage     <- [r \in Runs |-> IF spc[r] = "submitted" THEN status[r] ELSE "new"],
    forgotten <- {r \in Runs : spc[r] = "submitted" /\ r \notin stored},
    told      <- [c \in Waiters |->
                     IF wait[c] \in {"new", "waiting"} THEN "nothing" ELSE wait[c]]

ImplementsService == Service!Spec

-----------------------------------------------------------------------------
(* Liveness *)

(* Every run handed to the executor ends.                                   *)
EveryRunEnds ==
    \A r \in Runs : spc[r] = "submitted" ~> status[r] \in Terminal

(* Every call of wait_result returns.                                       *)
EveryWaitReturns ==
    \A c \in Waiters : wait[c] = "waiting" ~> wait[c] # "waiting"

(* shutdown(wait=True) returns.                                             *)
ShutdownEnds == stop = "gathering" ~> stop = "down"
=============================================================================
