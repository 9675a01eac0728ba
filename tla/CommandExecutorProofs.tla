----------------------- MODULE CommandExecutorProofs -----------------------
(***************************************************************************)
(* Theorems about CommandExecutor, for every configuration that satisfies   *)
(* the assumptions stated with each theorem, in four parts.                 *)
(*                                                                         *)
(* The locks and the tasks: who holds a lock, whose handlers execute, how    *)
(* many workers there are, and what is left when shutdown has returned.     *)
(*                                                                         *)
(* How runs end: their status, future and answers.  A run is in one place,  *)
(* the queue or one task's hands, so the task that has it is the only one   *)
(* to write its status, and a status that allows a write is known from      *)
(* where the run is.                                                        *)
(*                                                                         *)
(* In which order runs are executed, as long as shutdown has not been       *)
(* called: shutdown cancels a task that waits for a lock, and the run the   *)
(* task took from the queue goes with it.  Runs leave the queue in the      *)
(* order they were put on it, a task gets into the line of a lock with the  *)
(* newest run taken so far, and a run that is PENDING is in the queue, in a *)
(* line, or has just got in.  Then the order in which the store forgets runs *)
(* that have ended.                                                        *)
(*                                                                         *)
(* The executor as its clients see it: the service of RunService.           *)
(***************************************************************************)
EXTENDS CommandExecutor, SequenceFacts, TLAPS

Futures == [Runs -> {"none", "pending", "result", "error", "cancelled"}]
Counters == [Tasks -> InLoop \cup {"unborn", "idle", "lock", "running", "done", "dead"}]

-----------------------------------------------------------------------------
(* What the helpers return has the type of the variable it is assigned to.  *)

LEMMA EmittedType ==
    ASSUME TypeOK, NEW r \in Runs, NEW kind \in EventKinds, NEW force
    PROVE  Emitted(r, kind, force) \in [Runs -> Seq(EventKinds)]
<1>1. Append(log[r], kind) \in Seq(EventKinds)
  BY DEF TypeOK
<1>2. QED
  BY <1>1 DEF TypeOK, Emitted

LEMMA ResolvedType ==
    ASSUME TypeOK, NEW r \in Runs, NEW value \in {"result", "error"}
    PROVE  Resolved(r, value) \in Futures
BY DEF TypeOK, Resolved, Futures

LEMMA PopRunsType ==
    ASSUME TypeOK, NEW S, NEW fut \in Futures, PopRuns(S, fut)
    PROVE  stored' \subseteq Runs /\ futures' \subseteq Runs /\ future' \in Futures
<1>1. stored' \subseteq Runs /\ futures' \subseteq Runs
  BY DEF TypeOK, PopRuns
<1>2. future' \in Futures
  BY DEF PopRuns, Futures
<1>3. QED
  BY <1>1, <1>2

LEMMA StartWorkersType ==
    ASSUME TypeOK, StartWorkers
    PROVE  pool' \subseteq Tasks /\ wpc' \in Counters
<1>1. CASE pool # {}
  BY <1>1 DEF TypeOK, StartWorkers, Counters
<1>2. CASE pool = {}
  <2>1. PICK S \in SUBSET {w \in Tasks : wpc[w] = "unborn"} :
           pool' = S /\ wpc' = [w \in Tasks |-> IF w \in S THEN "idle" ELSE wpc[w]]
    BY <1>2 DEF StartWorkers
  <2>2. QED
    BY <2>1 DEF TypeOK, Counters
<1>3. QED
  BY <1>1, <1>2

LEMMA EnqueueRunType ==
    ASSUME TypeOK, NEW r \in Runs, EnqueueRun(r)
    PROVE  /\ pool' \subseteq Tasks /\ wpc' \in Counters
           /\ futures' \subseteq Runs /\ future' \in Futures
           /\ queue' \in Seq(Runs) /\ order' \in Seq(Runs)
           /\ spc' \in [Runs -> {"new", "created", "submitted"}]
<1>1. pool' \subseteq Tasks /\ wpc' \in Counters
  BY StartWorkersType DEF EnqueueRun
<1>2. futures' \subseteq Runs /\ future' \in Futures
  BY DEF TypeOK, EnqueueRun, Futures
<1>3. queue' \in Seq(Runs) /\ order' \in Seq(Runs)
  BY DEF TypeOK, EnqueueRun
<1>4. spc' \in [Runs -> {"new", "created", "submitted"}]
  BY DEF TypeOK, EnqueueRun
<1>5. QED
  BY <1>1, <1>2, <1>3, <1>4

(* The program counter of a task moves. *)
LEMMA CounterMoves ==
    ASSUME TypeOK, NEW w \in Tasks,
           NEW p \in InLoop \cup {"unborn", "idle", "lock", "running", "done", "dead"},
           wpc' = [wpc EXCEPT ![w] = p]
    PROVE  wpc' \in Counters
<1>1. wpc \in Counters
  BY DEF TypeOK, Counters
<1>2. QED
  BY <1>1 DEF Counters

LEMMA EnterType ==
    ASSUME TypeOK, NEW w \in Tasks, NEW r \in Runs, Enter(w, r)
    PROVE  /\ wpc' \in Counters
           /\ wrun' \in [Tasks -> Runs \cup {NoRun}]
           /\ holder' \in [Keys -> Tasks \cup {NoTask}]
<1>1. CASE status[r] = "CANCELLED"
  <2>1. /\ wpc' = [wpc EXCEPT ![w] = "idle"]
        /\ wrun' = [wrun EXCEPT ![w] = NoRun]
        /\ UNCHANGED holder
    BY <1>1 DEF Enter
  <2>2. wrun' \in [Tasks -> Runs \cup {NoRun}] /\ holder' \in [Keys -> Tasks \cup {NoTask}]
    BY <2>1 DEF TypeOK
  <2>3. QED
    BY <2>1, <2>2, CounterMoves
<1>2. CASE status[r] # "CANCELLED"
  <2>1. wpc' \in Counters
    <3>1. wpc' = [wpc EXCEPT ![w] = "checked"]
      BY <1>2 DEF Enter
    <3>2. QED
      BY <3>1, CounterMoves DEF InLoop
  <2>2. wrun' \in [Tasks -> Runs \cup {NoRun}]
    <3>1. wrun' = [wrun EXCEPT ![w] = r]
      BY <1>2 DEF Enter
    <3>2. QED
      BY <3>1 DEF TypeOK
  <2>3. holder' \in [Keys -> Tasks \cup {NoTask}]
    <3>1. holder' = [k \in Keys |-> IF k = lock_key[r] THEN w ELSE holder[k]]
      BY <1>2 DEF Enter
    <3>2. holder \in [Keys -> Tasks \cup {NoTask}]
      BY DEF TypeOK
    <3>3. QED
      BY <3>1, <3>2
  <2>4. QED
    BY <2>1, <2>2, <2>3
<1>3. QED
  BY <1>1, <1>2

LEMMA EndRunType ==
    ASSUME TypeOK, NEW w \in Tasks, wrun[w] \in Runs, NEW end \in Ends,
           EndRun(w, end)
    PROVE  /\ status' \in [Runs -> Statuses]
           /\ outcome' \in [Runs -> {"none", "result", "error"}]
           /\ future' \in Futures
           /\ log' \in [Runs -> Seq(EventKinds)]
           /\ wpc' \in Counters
           /\ UNCHANGED <<finished_at, clock, stored, futures, queueVars, wrun,
                          lockVars, pool_open, clientVars>>
<1>1. StatusOf[end] \in Statuses /\ end \in EventKinds
  BY DEF Ends, StatusOf, Statuses, EventKinds
<1>2. status' \in [Runs -> Statuses]
  BY <1>1 DEF EndRun, TypeOK
<1>3. outcome' \in [Runs -> {"none", "result", "error"}]
  BY DEF EndRun, TypeOK
<1>4. future' \in Futures
  BY ResolvedType DEF EndRun
<1>5. log' \in [Runs -> Seq(EventKinds)]
  BY <1>1, EmittedType DEF EndRun
<1>6. wpc' \in Counters
  BY CounterMoves DEF EndRun, InLoop
<1>7. QED
  BY <1>2, <1>3, <1>4, <1>5, <1>6 DEF EndRun

(* The same for the whole step that ends a run. *)
LEMMA EndingType ==
    ASSUME TypeOK, NEW w \in Tasks, wrun[w] \in Runs, NEW end \in Ends,
           EndRun(w, end),
           handler' \in [Runs -> {"idle", "queued", "active", "over"}],
           cancel_req' \subseteq Tasks \/ UNCHANGED cancel_req,
           UNCHANGED <<stop, gathered>>
    PROVE  TypeOK'
<1>1. /\ status' \in [Runs -> Statuses]
      /\ outcome' \in [Runs -> {"none", "result", "error"}]
      /\ future' \in Futures
      /\ log' \in [Runs -> Seq(EventKinds)]
      /\ wpc' \in Counters
  BY EndRunType
<1>2. UNCHANGED <<finished_at, clock, stored, futures, queueVars, wrun,
                  lockVars, pool_open, clientVars>>
  BY DEF EndRun
<1>3. cancel_req' \subseteq Tasks
  BY DEF TypeOK
<1>4. QED
  BY <1>1, <1>2, <1>3 DEF TypeOK, Futures, Counters, queueVars, lockVars, clientVars

LEMMA AbandonedType ==
    ASSUME TypeOK, NEW r
    PROVE  Abandoned(r) \in [Runs -> {"idle", "queued", "active", "over"}]
BY DEF TypeOK, Abandoned
-----------------------------------------------------------------------------
(* The parts of the inductive invariant *)

(* A task that is past queue.get() has a run in its hands. *)
HasRun ==
    \A w \in Tasks : Inside(w) \/ wpc[w] = "lock" => wrun[w] \in Runs

(* A task inside "async with lock" owns the lock of its run. *)
OwnsLock ==
    \A w \in Tasks :
        Inside(w) /\ lock_key[wrun[w]] # NoKey => holder[lock_key[wrun[w]]] = w

-----------------------------------------------------------------------------
(* Every step keeps the types *)

LEMMA TypeInit == Init => TypeOK
BY ConfigAssumption DEF Init, TypeOK, Statuses, InLoop

LEMMA TypeStep ==
    ASSUME TypeOK, HasRun, [Next]_vars
    PROVE  TypeOK'
<1> USE DEF Futures, Counters, runVars, storeVars, queueVars, taskVars,
            lockVars, poolVars, clientVars, stopVars
<1>1. ASSUME NEW r \in Runs, CreateRun(r) PROVE TypeOK'
  BY <1>1 DEF TypeOK, CreateRun, Created, InLoop
<1>2. ASSUME NEW w \in Tasks, MarkRunning(w) PROVE TypeOK'
  BY <1>2 DEF TypeOK, MarkRunning, InLoop, Statuses
<1>3. ASSUME NEW r \in Runs, PoolStart(r) PROVE TypeOK'
  BY <1>3 DEF TypeOK, PoolStart, InLoop
<1>4. ASSUME NEW r \in Runs, PoolEnd(r) PROVE TypeOK'
  BY <1>4 DEF TypeOK, PoolEnd, InLoop
<1>5. ASSUME NEW r \in Runs, ThreadRead(r) PROVE TypeOK'
  BY <1>5 DEF TypeOK, ThreadRead, InLoop
<1>6. ASSUME NEW r \in Runs, ThreadMark(r) PROVE TypeOK'
  BY <1>6 DEF TypeOK, ThreadMark, Statuses, InLoop
<1>7. ASSUME Shutdown PROVE TypeOK'
  BY <1>7, ConfigAssumption DEF TypeOK, Shutdown, InLoop
<1>8. ASSUME NEW w \in Tasks, CancelIdle(w) PROVE TypeOK'
  BY <1>8 DEF TypeOK, CancelIdle, InLoop
<1>9. ASSUME Gathered PROVE TypeOK'
  BY <1>9 DEF TypeOK, Gathered, InLoop
<1>10. ASSUME Drained PROVE TypeOK'
  BY <1>10 DEF TypeOK, Drained, InLoop
<1>11. ASSUME NEW r \in Runs, Submit(r) PROVE TypeOK'
  <2>1. EnqueueRun(r) /\ stored' = stored \cup {r}
    BY <1>11 DEF Submit, Created
  <2>2. QED
    BY <1>11, <2>1, EnqueueRunType DEF TypeOK, Submit
<1>12. ASSUME NEW r \in Runs, Enqueue(r) PROVE TypeOK'
  <2>1. EnqueueRun(r)
    BY <1>12 DEF Enqueue
  <2>2. QED
    BY <1>12, <2>1, EnqueueRunType DEF TypeOK, Enqueue
<1>13. ASSUME NEW w \in Tasks, Take(w) PROVE TypeOK'
  <2> DEFINE r == Head(queue)
             k == lock_key[r]
  <2>1. r \in Runs /\ queue' \in Seq(Runs)
    BY <1>13 DEF TypeOK, Take
  <2>2. CASE UNCHANGED <<taskVars, lockVars>>
    BY <1>13, <2>1, <2>2 DEF TypeOK, Take
  <2>3. CASE Enter(w, r) /\ UNCHANGED waiting
    BY <1>13, <2>1, <2>3, EnterType DEF TypeOK, Take
  <2>4. CASE /\ ~Free(k)
             /\ wpc' = [wpc EXCEPT ![w] = "lock"]
             /\ wrun' = [wrun EXCEPT ![w] = r]
             /\ waiting' = [waiting EXCEPT ![k] = Append(@, w)]
             /\ UNCHANGED holder
    <3>1. waiting' \in [Keys -> Seq(Tasks)]
      <4>1. k \in Keys
        BY <2>1, <2>4, ConfigAssumption DEF Free
      <4>2. Append(waiting[k], w) \in Seq(Tasks)
        BY <4>1 DEF TypeOK
      <4>3. QED
        BY <2>4, <4>1, <4>2 DEF TypeOK
    <3>2. wpc' \in Counters /\ wrun' \in [Tasks -> Runs \cup {NoRun}]
      BY <2>1, <2>4 DEF TypeOK
    <3>3. QED
      BY <1>13, <2>1, <2>4, <3>1, <3>2 DEF TypeOK, Take
  <2>5. QED
    BY <1>13, <2>2, <2>3, <2>4 DEF Take
<1>14. ASSUME NEW w \in Tasks, Acquire(w) PROVE TypeOK'
  <2>1. wrun[w] \in Runs
    BY <1>14 DEF HasRun, Acquire
  <2>2. Enter(w, wrun[w])
    BY <1>14 DEF Acquire
  <2>3. waiting' \in [Keys -> Seq(Tasks)]
    <3>1. PICK k : /\ waiting[k] # <<>>
                   /\ waiting' = [waiting EXCEPT ![k] = Tail(@)]
      BY <1>14 DEF Acquire
    <3>2. CASE k \in Keys
      <4>1. Tail(waiting[k]) \in Seq(Tasks)
        BY <3>1, <3>2 DEF TypeOK
      <4>2. QED
        BY <3>1, <3>2, <4>1 DEF TypeOK
    <3>3. CASE k \notin Keys
      BY <3>1, <3>3 DEF TypeOK
    <3>4. QED
      BY <3>2, <3>3
  <2>4. QED
    BY <1>14, <2>1, <2>2, <2>3, EnterType DEF TypeOK, Acquire
<1>15. ASSUME NEW w \in Tasks, Start(w) PROVE TypeOK'
  <2>1. log' \in [Runs -> Seq(EventKinds)]
    <3>1. wrun[w] \in Runs
      BY <1>15 DEF HasRun, Start, Inside, InLoop
    <3>2. QED
      BY <1>15, <3>1, EmittedType DEF Start, EventKinds
  <2>2. wpc' \in Counters
    <3>1. \E p \in {"refused", "running"} : wpc' = [wpc EXCEPT ![w] = p]
      BY <1>15 DEF Start
    <3>2. QED
      BY <3>1, CounterMoves DEF InLoop
  <2>3. handler' \in [Runs -> {"idle", "queued", "active", "over"}]
    <3>1. \E h \in {"queued", "active", "over"} :
             handler' = [handler EXCEPT ![wrun[w]] = h]
      BY <1>15 DEF Start
    <3>2. handler \in [Runs -> {"idle", "queued", "active", "over"}]
      BY DEF TypeOK
    <3>3. QED
      BY <3>1, <3>2
  <2>4. QED
    BY <1>15, <2>1, <2>2, <2>3 DEF TypeOK, Start
<1>16. ASSUME NEW w \in Tasks, Refuse(w) PROVE TypeOK'
  <2>1. wrun[w] \in Runs
    BY <1>16 DEF HasRun, Refuse, Inside, InLoop
  <2>2. EndRun(w, "failure")
    BY <1>16 DEF Refuse
  <2>3. handler' \in [Runs -> {"idle", "queued", "active", "over"}]
    BY <1>16 DEF TypeOK, Refuse
  <2>4. QED
    BY <1>16, <2>1, <2>2, <2>3, EndingType DEF Refuse, Ends
<1>17. ASSUME NEW w \in Tasks, Timeout(w) PROVE TypeOK'
  <2>1. wrun[w] \in Runs
    BY <1>17 DEF HasRun, Timeout, Inside, InLoop
  <2>2. EndRun(w, "timeout")
    BY <1>17 DEF Timeout
  <2>3. handler' \in [Runs -> {"idle", "queued", "active", "over"}]
    BY <1>17, AbandonedType DEF TypeOK, Timeout
  <2>4. QED
    BY <1>17, <2>1, <2>2, <2>3, EndingType DEF Timeout, Ends
<1>18. ASSUME NEW w \in Tasks, NEW end \in Ends, Complete(w, end) PROVE TypeOK'
  <2>1. wrun[w] \in Runs
    BY <1>18 DEF HasRun, Complete, Inside, InLoop
  <2>2. EndRun(w, end)
    BY <1>18 DEF Complete
  <2>3. handler' \in [Runs -> {"idle", "queued", "active", "over"}]
    BY <1>18 DEF TypeOK, Complete
  <2>4. QED
    BY <1>18, <2>1, <2>2, <2>3, EndingType DEF Complete, Ends
<1>19. ASSUME NEW w \in Tasks, CancelHandler(w) PROVE TypeOK'
  <2>1. wrun[w] \in Runs
    BY <1>19 DEF HasRun, CancelHandler, Inside
  <2>2. handler' \in [Runs -> {"idle", "queued", "active", "over"}]
    BY <1>19, AbandonedType DEF CancelHandler
  <2>3. CASE EndRun(w, "cancelled")
    <3>1. cancel_req' \subseteq Tasks /\ UNCHANGED <<stop, gathered>>
      BY <1>19 DEF TypeOK, CancelHandler
    <3>2. QED
      BY <2>1, <2>2, <2>3, <3>1, EndingType DEF Ends
  <2>4. CASE /\ wpc' = [wpc EXCEPT ![w] = "aborting"]
             /\ UNCHANGED <<runVars, storeVars, queueVars, wrun, lockVars,
                            pool_open, clientVars, log>>
    <3>1. wpc' \in Counters
      BY <2>4, CounterMoves DEF InLoop
    <3>2. /\ cancel_req' \subseteq Tasks
          /\ UNCHANGED <<stop, gathered>>
      BY <1>19 DEF TypeOK, CancelHandler
    <3>3. QED
      BY <2>2, <2>4, <3>1, <3>2 DEF TypeOK
  <2>5. QED
    BY <1>19, <2>3, <2>4 DEF CancelHandler
<1>20. ASSUME NEW w \in Tasks, Finish(w) PROVE TypeOK'
  <2>1. stored' \subseteq Runs /\ futures' \subseteq Runs /\ future' \in Futures
    <3>1. CASE UNCHANGED storeVars
      BY <3>1 DEF TypeOK, storeVars
    <3>2. CASE \E S : PopRuns(S, future)
      BY <3>2, PopRunsType DEF TypeOK
    <3>3. QED
      BY <1>20, <3>1, <3>2 DEF Finish
  <2>2. clock' \in Nat /\ finished_at' \in [Runs -> Nat]
    <3>1. clock' = clock + 1 /\ finished_at' = [finished_at EXCEPT ![wrun[w]] = clock + 1]
      BY <1>20 DEF Finish
    <3>2. clock + 1 \in Nat /\ finished_at \in [Runs -> Nat]
      BY DEF TypeOK
    <3>3. QED
      BY <3>1, <3>2
  <2>3. wpc' \in Counters
    <3>1. \E p \in {"dead", "done", "idle"} : wpc' = [wpc EXCEPT ![w] = p]
      BY <1>20 DEF Finish
    <3>2. QED
      BY <3>1, CounterMoves
  <2>4. wrun' \in [Tasks -> Runs \cup {NoRun}]
    <3>1. wrun' = [wrun EXCEPT ![w] = NoRun]
      BY <1>20 DEF Finish
    <3>2. QED
      BY <3>1 DEF TypeOK
  <2>5. holder' \in [Keys -> Tasks \cup {NoTask}]
    <3>1. holder' = Released(w)
      BY <1>20 DEF Finish
    <3>2. QED
      BY <3>1 DEF TypeOK, Released
  <2>6. QED
    BY <1>20, <2>1, <2>2, <2>3, <2>4, <2>5 DEF TypeOK, Finish
<1>21. ASSUME NEW r \in Runs, CancelPending(r) PROVE TypeOK'
  <2>1. future' \in Futures
    BY <1>21, ResolvedType DEF CancelPending, CommitCancel
  <2>2. log' \in [Runs -> Seq(EventKinds)]
    BY <1>21, EmittedType DEF CancelPending, EventKinds, Ends
  <2>3. /\ status' \in [Runs -> Statuses]
        /\ clock' \in Nat /\ finished_at' \in [Runs -> Nat]
        /\ outcome' \in [Runs -> {"none", "result", "error"}]
    BY <1>21 DEF TypeOK, CancelPending, CommitCancel, Statuses
  <2>4. QED
    BY <1>21, <2>1, <2>2, <2>3 DEF TypeOK, CancelPending
<1>22. ASSUME NEW r \in Runs, CancelRunning(r) PROVE TypeOK'
  <2>1. log' \in [Runs -> Seq(EventKinds)]
    BY <1>22, EmittedType DEF CancelRunning, EventKinds
  <2>2. QED
    BY <1>22, <2>1 DEF TypeOK, CancelRunning
<1>23. ASSUME NEW r \in Runs, ThreadCommit(r) PROVE TypeOK'
  <2>1. future' \in Futures
    BY <1>23, ResolvedType DEF ThreadCommit, CommitCancel
  <2>2. QED
    BY <1>23, <2>1 DEF TypeOK, ThreadCommit, CommitCancel
<1>24. ASSUME NEW r \in Runs, ThreadAnswer(r) PROVE TypeOK'
  <2>1. log' \in [Runs -> Seq(EventKinds)]
    <3>1. "cancelled" \in EventKinds /\ "cancel_requested" \in EventKinds
      BY DEF EventKinds, Ends
    <3>2. CASE log' = Emitted(r, "cancelled", TRUE)
      BY <3>1, <3>2, EmittedType
    <3>3. CASE log' = Emitted(r, "cancel_requested", TRUE)
      BY <3>1, <3>3, EmittedType
    <3>4. QED
      BY <1>24, <3>2, <3>3 DEF ThreadAnswer
  <2>2. QED
    BY <1>24, <2>1 DEF TypeOK, ThreadAnswer
<1>25. ASSUME NEW c \in Waiters, WaitStart(c) PROVE TypeOK'
  <2>1. CASE Answer(c, Unawaited(waits_on[c]), future)
    <3>1. waits_on[c] \in Runs /\ Unawaited(waits_on[c]) \in {"none", "result", "error"}
      BY ConfigAssumption DEF TypeOK, Unawaited
    <3>2. stored' \subseteq Runs /\ futures' \subseteq Runs /\ future' \in Futures
      BY <2>1, PopRunsType DEF TypeOK, Answer
    <3>3. QED
      BY <1>25, <2>1, <3>1, <3>2 DEF TypeOK, WaitStart, Answer
  <2>2. CASE UNCHANGED storeVars /\ wait' = [wait EXCEPT ![c] = "waiting"]
    BY <1>25, <2>2 DEF TypeOK, WaitStart
  <2>3. QED
    BY <1>25, <2>1, <2>2 DEF WaitStart
<1>26. ASSUME NEW c \in Waiters, WaitEnd(c) PROVE TypeOK'
  <2>1. waits_on[c] \in Runs
    BY ConfigAssumption
  <2>2. stored' \subseteq Runs /\ futures' \subseteq Runs /\ future' \in Futures
    BY <1>26, PopRunsType DEF TypeOK, WaitEnd, Answer
  <2>3. wait' \in [Waiters -> {"new", "waiting", "result", "error", "none",
                             "cancelled", "timeout"}]
    BY <1>26, <2>1 DEF TypeOK, WaitEnd, Answer
  <2>4. QED
    BY <1>26, <2>2, <2>3 DEF TypeOK, WaitEnd
<1>27. ASSUME NEW c \in Waiters, WaitTimeout(c) PROVE TypeOK'
  <2> DEFINE fut == [future EXCEPT ![waits_on[c]] =
                        IF @ = "pending" THEN "cancelled" ELSE @]
  <2>1. fut \in Futures
    BY DEF TypeOK
  <2>2. stored' \subseteq Runs /\ futures' \subseteq Runs /\ future' \in Futures
    BY <1>27, <2>1, PopRunsType DEF WaitTimeout, Answer
  <2>3. wait' \in [Waiters -> {"new", "waiting", "result", "error", "none",
                             "cancelled", "timeout"}]
    BY <1>27 DEF TypeOK, WaitTimeout, Answer
  <2>4. QED
    BY <1>27, <2>2, <2>3 DEF TypeOK, WaitTimeout
<1>28. ASSUME NEW w \in Tasks, CancelLockWait(w) PROVE TypeOK'
  <2>1. PICK i \in 1 .. Len(waiting[lock_key[wrun[w]]]) :
           waiting' = [waiting EXCEPT ![lock_key[wrun[w]]] =
                          SubSeq(@, 1, i - 1) \o SubSeq(@, i + 1, Len(@))]
    BY <1>28 DEF CancelLockWait
  <2>2. waiting' \in [Keys -> Seq(Tasks)]
    <3> DEFINE k == lock_key[wrun[w]]
               q == waiting[k]
    <3>1. CASE k \in Keys
      <4>1. q \in Seq(Tasks)
        BY <3>1 DEF TypeOK
      <4>2. SubSeq(q, 1, i - 1) \in Seq(Tasks) /\ SubSeq(q, i + 1, Len(q)) \in Seq(Tasks)
        BY <2>1, <4>1
      <4>3. SubSeq(q, 1, i - 1) \o SubSeq(q, i + 1, Len(q)) \in Seq(Tasks)
        BY <4>2
      <4>4. QED
        BY <2>1, <3>1, <4>3 DEF TypeOK
    <3>2. CASE k \notin Keys
      BY <2>1, <3>2 DEF TypeOK
    <3>3. QED
      BY <3>1, <3>2
  <2>3. QED
    BY <1>28, <2>2 DEF TypeOK, CancelLockWait
<1>29. CASE UNCHANGED vars
  BY <1>29 DEF TypeOK, vars
<1>30. QED
  BY <1>1, <1>2, <1>3, <1>4, <1>5, <1>6, <1>7, <1>8, <1>9, <1>10, <1>11, <1>12, <1>13, <1>14, <1>15, <1>16, <1>17, <1>18, <1>19, <1>20, <1>21, <1>22, <1>23, <1>24, <1>25, <1>26, <1>27, <1>28, <1>29
  DEF Next, Submitters, WorkerStep, PoolThreads, Cancellers, WaiterCalls, Rest
-----------------------------------------------------------------------------
(* Every step keeps the ownership of the locks *)

LockInv == HasRun /\ OwnsLock

(* A step that hands out no run and no lock and lets nobody in. *)
LEMMA NobodyEnters ==
    ASSUME LockInv, UNCHANGED <<wrun, holder>>,
           \A w \in Tasks : wpc'[w] # wpc[w] =>
               /\ wpc'[w] # "lock"
               /\ wpc'[w] \in InLoop \cup {"running"} => Inside(w)
    PROVE  LockInv'
<1>1. \A w \in Tasks : /\ Inside(w)' => Inside(w)
                       /\ wpc'[w] = "lock" => wpc[w] = "lock"
  BY DEF Inside, InLoop
<1>2. HasRun'
  BY <1>1 DEF LockInv, HasRun
<1>3. OwnsLock'
  BY <1>1 DEF LockInv, OwnsLock
<1>4. QED
  BY <1>2, <1>3 DEF LockInv

LEMMA StartingLetsNobodyIn ==
    ASSUME TypeOK, StartWorkers, NEW w \in Tasks, wpc'[w] # wpc[w]
    PROVE  wpc'[w] = "idle"
<1>1. CASE pool # {}
  BY <1>1 DEF StartWorkers
<1>2. CASE pool = {}
  BY <1>2 DEF StartWorkers
<1>3. QED
  BY <1>1, <1>2

(* A task enters with a run in its hands and the lock of the run free. *)
LEMMA EnterKeepsLocks ==
    ASSUME TypeOK, LockInv, NEW w \in Tasks, NEW r \in Runs, Enter(w, r),
           lock_key[r] # NoKey => holder[lock_key[r]] = NoTask
    PROVE  LockInv'
<1>1. CASE status[r] = "CANCELLED"
  <2>1. /\ wpc' = [wpc EXCEPT ![w] = "idle"]
        /\ wrun' = [wrun EXCEPT ![w] = NoRun]
        /\ UNCHANGED holder
    BY <1>1 DEF Enter
  <2>2. \A v \in Tasks : /\ Inside(v)' => Inside(v) /\ v # w
                         /\ wpc'[v] = "lock" => wpc[v] = "lock" /\ v # w
    BY <2>1 DEF TypeOK, Inside, InLoop
  <2>3. \A v \in Tasks : v # w => wrun'[v] = wrun[v]
    BY <2>1 DEF TypeOK
  <2>4. QED
    BY <2>1, <2>2, <2>3 DEF LockInv, HasRun, OwnsLock
<1>2. CASE status[r] # "CANCELLED"
  <2>1. /\ wpc' = [wpc EXCEPT ![w] = "checked"]
        /\ wrun' = [wrun EXCEPT ![w] = r]
        /\ holder' = [k \in Keys |-> IF k = lock_key[r] THEN w ELSE holder[k]]
    BY <1>2 DEF Enter
  <2>2. HasRun'
    BY <2>1 DEF TypeOK, LockInv, HasRun, Inside, InLoop
  <2>3. OwnsLock'
    <3> SUFFICES ASSUME NEW v \in Tasks, Inside(v)', lock_key[wrun'[v]] # NoKey
                 PROVE  holder'[lock_key[wrun'[v]]] = v
      BY DEF OwnsLock
    <3>1. CASE v = w
      <4>1. wrun'[v] = r /\ lock_key[r] \in Keys
        BY <2>1, <3>1, ConfigAssumption DEF TypeOK
      <4>2. QED
        BY <2>1, <3>1, <4>1
    <3>2. CASE v # w
      <4>1. wrun'[v] = wrun[v] /\ Inside(v)
        BY <2>1, <3>2 DEF TypeOK, Inside
      <4>2. wrun[v] \in Runs /\ lock_key[wrun[v]] \in Keys
        BY <4>1, ConfigAssumption DEF LockInv, HasRun
      <4>3. holder[lock_key[wrun[v]]] = v
        BY <4>1 DEF LockInv, OwnsLock
      <4>4. lock_key[wrun[v]] # lock_key[r]
        BY <4>2, <4>3, ConfigAssumption
      <4>5. QED
        BY <2>1, <4>1, <4>2, <4>3, <4>4
    <3>3. QED
      BY <3>1, <3>2
  <2>4. QED
    BY <2>2, <2>3 DEF LockInv
<1>3. QED
  BY <1>1, <1>2

LEMMA LockStep ==
    ASSUME TypeOK, LockInv, [Next]_vars
    PROVE  LockInv'
<1> USE DEF runVars, storeVars, queueVars, taskVars, lockVars, poolVars,
            clientVars, stopVars
<1>1. ASSUME NEW r \in Runs, Submit(r) PROVE LockInv'
  <2>1. StartWorkers /\ UNCHANGED <<wrun, holder>>
    BY <1>1 DEF Submit, EnqueueRun
  <2>2. QED
    BY <2>1, StartingLetsNobodyIn, NobodyEnters DEF InLoop
<1>2. ASSUME NEW r \in Runs, Enqueue(r) PROVE LockInv'
  <2>1. StartWorkers /\ UNCHANGED <<wrun, holder>>
    BY <1>2 DEF Enqueue, EnqueueRun
  <2>2. QED
    BY <2>1, StartingLetsNobodyIn, NobodyEnters DEF InLoop
<1>3. ASSUME NEW w \in Tasks, Take(w) PROVE LockInv'
  <2> DEFINE r == Head(queue)
             k == lock_key[r]
  <2>1. r \in Runs
    BY <1>3 DEF TypeOK, Take
  <2>2. CASE UNCHANGED <<taskVars, lockVars>>
    BY <2>2, NobodyEnters
  <2>3. CASE Enter(w, r) /\ Free(k)
    BY <2>1, <2>3, EnterKeepsLocks DEF Free
  <2>4. CASE /\ wpc' = [wpc EXCEPT ![w] = "lock"]
             /\ wrun' = [wrun EXCEPT ![w] = r]
             /\ UNCHANGED holder
    BY <2>1, <2>4 DEF TypeOK, LockInv, HasRun, OwnsLock, Inside, InLoop
  <2>5. QED
    BY <1>3, <2>2, <2>3, <2>4 DEF Take
<1>4. ASSUME NEW w \in Tasks, Acquire(w) PROVE LockInv'
  <2>1. /\ wrun[w] \in Runs
        /\ holder[lock_key[wrun[w]]] = NoTask
        /\ Enter(w, wrun[w])
    BY <1>4 DEF Acquire, LockInv, HasRun
  <2>2. QED
    BY <2>1, EnterKeepsLocks
<1>5. ASSUME NEW w \in Tasks, MarkRunning(w) PROVE LockInv'
  <2>1. /\ Inside(w) /\ UNCHANGED <<wrun, holder>>
        /\ wpc' = [wpc EXCEPT ![w] = "marked"]
    BY <1>5 DEF MarkRunning, Inside, InLoop
  <2>2. QED
    BY <2>1, NobodyEnters DEF TypeOK
<1>6. ASSUME NEW w \in Tasks, Start(w) PROVE LockInv'
  <2>1. /\ Inside(w) /\ UNCHANGED <<wrun, holder>>
        /\ \E pc \in {"refused", "running"} : wpc' = [wpc EXCEPT ![w] = pc]
    BY <1>6 DEF Start, Inside, InLoop
  <2>2. QED
    BY <2>1, NobodyEnters DEF TypeOK
<1>7. ASSUME NEW w \in Tasks, NEW end \in Ends, Inside(w), EndRun(w, end)
      PROVE  LockInv'
  <2>1. UNCHANGED <<wrun, holder>> /\ wpc' = [wpc EXCEPT ![w] = "finishing"]
    BY <1>7 DEF EndRun
  <2>2. QED
    BY <1>7, <2>1, NobodyEnters DEF TypeOK
<1>8. ASSUME NEW w \in Tasks, Refuse(w) PROVE LockInv'
  BY <1>7, <1>8 DEF Refuse, Inside, InLoop, Ends
<1>9. ASSUME NEW w \in Tasks, Timeout(w) PROVE LockInv'
  BY <1>7, <1>9 DEF Timeout, Inside, Ends
<1>10. ASSUME NEW w \in Tasks, NEW end \in Ends, Complete(w, end) PROVE LockInv'
  BY <1>7, <1>10 DEF Complete, Inside
<1>11. ASSUME NEW w \in Tasks, CancelHandler(w) PROVE LockInv'
  <2>1. Inside(w)
    BY <1>11 DEF CancelHandler, Inside
  <2>2. CASE EndRun(w, "cancelled")
    BY <1>7, <2>1, <2>2 DEF Ends
  <2>3. CASE UNCHANGED <<wrun, holder>> /\ wpc' = [wpc EXCEPT ![w] = "aborting"]
    BY <2>1, <2>3, NobodyEnters DEF TypeOK
  <2>4. QED
    BY <1>11, <2>2, <2>3 DEF CancelHandler
<1>12. ASSUME NEW w \in Tasks, Finish(w) PROVE LockInv'
  <2>1. /\ \E pc \in {"dead", "done", "idle"} : wpc' = [wpc EXCEPT ![w] = pc]
        /\ wrun' = [wrun EXCEPT ![w] = NoRun]
        /\ holder' = Released(w)
    BY <1>12 DEF Finish
  <2>2. HasRun'
    BY <2>1 DEF TypeOK, LockInv, HasRun, Inside, InLoop
  <2>3. OwnsLock'
    <3> SUFFICES ASSUME NEW v \in Tasks, Inside(v)', lock_key[wrun'[v]] # NoKey
                 PROVE  holder'[lock_key[wrun'[v]]] = v
      BY DEF OwnsLock
    <3>1. v # w /\ wrun'[v] = wrun[v] /\ Inside(v)
      BY <2>1 DEF TypeOK, Inside, InLoop
    <3>2. lock_key[wrun[v]] \in Keys /\ holder[lock_key[wrun[v]]] = v
      BY <3>1, ConfigAssumption DEF LockInv, HasRun, OwnsLock
    <3>3. QED
      BY <2>1, <3>1, <3>2 DEF Released
  <2>4. QED
    BY <2>2, <2>3 DEF LockInv
<1>13. ASSUME NEW w \in Tasks, CancelIdle(w) PROVE LockInv'
  <2>1. UNCHANGED <<wrun, holder>> /\ wpc' = [wpc EXCEPT ![w] = "done"]
    BY <1>13 DEF CancelIdle
  <2>2. QED
    BY <2>1, NobodyEnters DEF TypeOK, InLoop
<1>14. ASSUME NEW w \in Tasks, CancelLockWait(w) PROVE LockInv'
  <2>1. /\ wpc[w] = "lock" /\ UNCHANGED holder
        /\ wpc' = [wpc EXCEPT ![w] = "done"]
        /\ wrun' = [wrun EXCEPT ![w] = NoRun]
    BY <1>14 DEF CancelLockWait
  <2>2. QED
    BY <2>1 DEF TypeOK, LockInv, HasRun, OwnsLock, Inside, InLoop
<1>15. CASE UNCHANGED <<taskVars, holder>>
  BY <1>15, NobodyEnters
<1>16. ASSUME NEW r \in Runs,
              \/ CreateRun(r) \/ PoolStart(r) \/ PoolEnd(r)
              \/ CancelPending(r) \/ CancelRunning(r) \/ ThreadRead(r)
              \/ ThreadMark(r) \/ ThreadCommit(r) \/ ThreadAnswer(r)
       PROVE  UNCHANGED <<taskVars, holder>>
  BY <1>16 DEF CreateRun, PoolStart, PoolEnd, CancelPending, CancelRunning,
               ThreadRead, ThreadMark, ThreadCommit, ThreadAnswer
<1>17. ASSUME NEW c \in Waiters, WaitStart(c) \/ WaitEnd(c) \/ WaitTimeout(c)
       PROVE  UNCHANGED <<taskVars, holder>>
  BY <1>17 DEF WaitStart, WaitEnd, WaitTimeout
<1>18. ASSUME Shutdown \/ Gathered \/ Drained \/ UNCHANGED vars
       PROVE  UNCHANGED <<taskVars, holder>>
  BY <1>18 DEF Shutdown, Gathered, Drained, vars
<1>19. QED
  BY <1>1, <1>2, <1>3, <1>4, <1>5, <1>6, <1>8, <1>9, <1>10, <1>11, <1>12,
     <1>13, <1>14, <1>15, <1>16, <1>17, <1>18
  DEF Next, Submitters, WorkerStep, PoolThreads, Cancellers, WaiterCalls, Rest

-----------------------------------------------------------------------------
(* Type correctness.  A task that ends a run writes status, future and log  *)
(* at the run it holds, so the types rest on LockInv's HasRun.              *)
THEOREM TypeCorrect == Spec => []TypeOK
<1>1. Init => TypeOK /\ LockInv
  BY TypeInit DEF Init, LockInv, HasRun, OwnsLock, Inside, InLoop
<1>2. TypeOK /\ LockInv /\ [Next]_vars => (TypeOK /\ LockInv)'
  BY TypeStep, LockStep DEF LockInv
<1>3. QED
  BY <1>1, <1>2, PTL DEF Spec

(* The lock of a run is owned by the task that executes it, so no two tasks *)
(* of _worker_loop are inside "async with lock" with one lock_key: whatever *)
(* is cancelled, times out, fails, is cleaned up or shut down, and with any *)
(* number of workers, runs, threads and keys.                               *)
THEOREM TasksExclude == Spec => []TaskExclusion
<1>1. Init => TypeOK /\ LockInv
  BY TypeInit DEF Init, LockInv, HasRun, OwnsLock, Inside, InLoop
<1>2. TypeOK /\ LockInv /\ [Next]_vars => (TypeOK /\ LockInv)'
  BY TypeStep, LockStep DEF LockInv
<1>3. LockInv => TaskExclusion
  BY DEF LockInv, OwnsLock, TaskExclusion, Conflict
<1>4. QED
  BY <1>1, <1>2, <1>3, PTL DEF Spec
-----------------------------------------------------------------------------
(* Handlers inside the lock.  Nothing leaves a synchronous handler behind   *)
(* in the pool: none has a timeout, and shutdown cancels no worker that is  *)
(* waiting for one.  Without this the theorem is false: the worker goes on   *)
(* and gives up the lock, the handler stays in its thread.                  *)
NoneAbandoned == /\ PoolRuns \cap TimedRuns = {}
                 /\ MayShutdown => PoolRuns = {}

(* A handler that executes, or waits for a pool thread, has a task that     *)
(* awaits it; only shutdown cancels tasks.                                  *)
Awaited(r) == \E w \in Tasks : wpc[w] = "running" /\ wrun[w] = r

HandlerInv == /\ \A r \in Runs : handler[r] \in {"queued", "active"} => Awaited(r)
              /\ ~MayShutdown => cancel_req = {}

LEMMA TasksKeepRunning ==
    ASSUME HandlerInv, cancel_req' \subseteq cancel_req,
           \A r \in Runs : handler'[r] \in {"queued", "active"} =>
               handler[r] \in {"queued", "active"},
           \A w \in Tasks : wpc[w] = "running" =>
               wpc'[w] = "running" /\ wrun'[w] = wrun[w]
    PROVE  HandlerInv'
BY DEF HandlerInv, Awaited

LEMMA HandlerIsOver ==
    ASSUME TypeOK, HandlerInv, NEW w \in Tasks, wrun[w] \in Runs,
           handler' = [handler EXCEPT ![wrun[w]] = "over"],
           \A v \in Tasks \ {w} : wpc'[v] = wpc[v], UNCHANGED wrun,
           cancel_req' \subseteq cancel_req
    PROVE  HandlerInv'
<1>1. ASSUME NEW r \in Runs, handler'[r] \in {"queued", "active"}
      PROVE  Awaited(r)'
  <2>1. r # wrun[w] /\ handler[r] \in {"queued", "active"}
    BY <1>1 DEF TypeOK
  <2>2. PICK v \in Tasks : wpc[v] = "running" /\ wrun[v] = r
    BY <2>1 DEF HandlerInv, Awaited
  <2>3. QED
    BY <2>1, <2>2 DEF Awaited
<1>2. QED
  BY <1>1 DEF HandlerInv

LEMMA HandlerStep ==
    ASSUME NoneAbandoned, TypeOK, LockInv, HandlerInv, [Next]_vars
    PROVE  HandlerInv'
<1> USE DEF runVars, storeVars, queueVars, taskVars, lockVars, poolVars,
            clientVars, stopVars
<1>1. ASSUME NEW r \in Runs, Submit(r) \/ Enqueue(r) PROVE HandlerInv'
  <2>1. StartWorkers /\ UNCHANGED <<wrun, handler, cancel_req>>
    BY <1>1 DEF Submit, Enqueue, EnqueueRun
  <2>2. \A w \in Tasks : wpc[w] = "running" => wpc'[w] = "running"
    <3>1. CASE pool # {}
      BY <2>1, <3>1 DEF StartWorkers
    <3>2. CASE pool = {}
      BY <2>1, <3>2 DEF StartWorkers
    <3>3. QED
      BY <3>1, <3>2
  <2>3. QED
    BY <2>1, <2>2, TasksKeepRunning
<1>2. ASSUME NEW w \in Tasks, NEW r \in Runs, wpc[w] # "running", Enter(w, r),
             UNCHANGED <<handler, cancel_req>>
      PROVE  HandlerInv'
  <2>1. \A v \in Tasks : wpc[v] = "running" => wpc'[v] = "running" /\ wrun'[v] = wrun[v]
    <3>1. CASE status[r] = "CANCELLED"
      BY <1>2, <3>1 DEF TypeOK, Enter
    <3>2. CASE status[r] # "CANCELLED"
      BY <1>2, <3>2 DEF TypeOK, Enter
    <3>3. QED
      BY <3>1, <3>2
  <2>2. QED
    BY <1>2, <2>1, TasksKeepRunning
<1>3. ASSUME NEW w \in Tasks, Take(w) PROVE HandlerInv'
  <2> DEFINE r == Head(queue)
  <2>1. /\ r \in Runs /\ wpc[w] # "running"
        /\ UNCHANGED <<handler, cancel_req>>
    BY <1>3 DEF TypeOK, Take
  <2>2. CASE UNCHANGED taskVars
    BY <2>1, <2>2, TasksKeepRunning
  <2>3. CASE Enter(w, r)
    BY <1>2, <2>1, <2>3
  <2>4. CASE /\ wpc' = [wpc EXCEPT ![w] = "lock"]
             /\ wrun' = [wrun EXCEPT ![w] = r]
    BY <2>1, <2>4, TasksKeepRunning DEF TypeOK
  <2>5. QED
    BY <1>3, <2>2, <2>3, <2>4 DEF Take
<1>4. ASSUME NEW w \in Tasks, Acquire(w) PROVE HandlerInv'
  BY <1>2, <1>4 DEF Acquire, LockInv, HasRun
<1>5. ASSUME NEW w \in Tasks, Start(w) PROVE HandlerInv'
  <2>1. /\ wrun[w] \in Runs /\ wpc[w] = "marked"
        /\ UNCHANGED <<wrun, cancel_req>>
        /\ \A v \in Tasks \ {w} : wpc'[v] = wpc[v]
    BY <1>5 DEF TypeOK, Start, LockInv, HasRun, Inside, InLoop
  <2>2. CASE wrun[w] \in PoolRuns /\ ~pool_open
    BY <1>5, <2>1, <2>2, HandlerIsOver DEF Start
  <2>3. CASE ~(wrun[w] \in PoolRuns /\ ~pool_open)
    <3>1. wpc'[w] = "running"
      BY <1>5, <2>3 DEF TypeOK, Start
    <3>2. \A r \in Runs : r # wrun[w] => handler'[r] = handler[r]
      BY <1>5 DEF TypeOK, Start
    <3>3. QED
      BY <2>1, <3>1, <3>2 DEF HandlerInv, Awaited
  <2>4. QED
    BY <2>2, <2>3
<1>6. ASSUME NEW w \in Tasks, NEW end \in Ends, Complete(w, end) PROVE HandlerInv'
  BY <1>6, HandlerIsOver
  DEF Complete, EndRun, TypeOK, LockInv, HasRun, Inside
<1>7. ASSUME NEW w \in Tasks, Timeout(w) PROVE HandlerInv'
  <2>1. handler' = [handler EXCEPT ![wrun[w]] = "over"]
    BY <1>7 DEF Timeout, Abandoned, NoneAbandoned
  <2>2. QED
    BY <1>7, <2>1, HandlerIsOver
    DEF Timeout, EndRun, TypeOK, LockInv, HasRun, Inside
<1>8. ASSUME NEW w \in Tasks, CancelHandler(w) PROVE HandlerInv'
  <2>1. handler' = [handler EXCEPT ![wrun[w]] = "over"]
    BY <1>8 DEF CancelHandler, Abandoned, NoneAbandoned, HandlerInv
  <2>2. /\ wrun[w] \in Runs /\ UNCHANGED wrun
        /\ \A v \in Tasks \ {w} : wpc'[v] = wpc[v]
        /\ cancel_req' \subseteq cancel_req
    BY <1>8 DEF CancelHandler, EndRun, TypeOK, LockInv, HasRun, Inside
  <2>3. QED
    BY <2>1, <2>2, HandlerIsOver
<1>9. ASSUME NEW w \in Tasks,
             \/ MarkRunning(w) \/ Refuse(w) \/ Finish(w)
             \/ CancelIdle(w) \/ CancelLockWait(w)
      PROVE  HandlerInv'
  <2> DEFINE Unmoved == /\ wpc[w] # "running"
                        /\ UNCHANGED handler /\ cancel_req' \subseteq cancel_req
                        /\ \A v \in Tasks \ {w} :
                              wpc'[v] = wpc[v] /\ wrun'[v] = wrun[v]
  <2> USE DEF TypeOK
  <2>1. ASSUME MarkRunning(w) PROVE Unmoved
    BY <2>1 DEF MarkRunning
  <2>2. ASSUME Refuse(w) PROVE Unmoved
    BY <2>2 DEF Refuse, EndRun
  <2>3. ASSUME Finish(w) PROVE Unmoved
    BY <2>3 DEF Finish
  <2>4. ASSUME CancelIdle(w) PROVE Unmoved
    BY <2>4 DEF CancelIdle
  <2>5. ASSUME CancelLockWait(w) PROVE Unmoved
    BY <2>5 DEF CancelLockWait
  <2>6. Unmoved
    BY <1>9, <2>1, <2>2, <2>3, <2>4, <2>5
  <2>7. QED
    BY <2>6, TasksKeepRunning
<1>10. ASSUME NEW r \in Runs, PoolStart(r) \/ PoolEnd(r) PROVE HandlerInv'
  <2>1. /\ \A s \in Runs : handler'[s] \in {"queued", "active"} =>
                              handler[s] \in {"queued", "active"}
        /\ UNCHANGED <<taskVars, cancel_req>>
    BY <1>10 DEF PoolStart, PoolEnd, TypeOK
  <2>2. QED
    BY <2>1, TasksKeepRunning
<1>11. CASE Shutdown
  BY <1>11 DEF Shutdown, HandlerInv, Awaited
<1>12. CASE UNCHANGED <<taskVars, handler, cancel_req>>
  BY <1>12, TasksKeepRunning
<1>13. ASSUME NEW r \in Runs,
              \/ CreateRun(r) \/ CancelPending(r) \/ CancelRunning(r)
              \/ ThreadRead(r) \/ ThreadMark(r) \/ ThreadCommit(r) \/ ThreadAnswer(r)
       PROVE  UNCHANGED <<taskVars, handler, cancel_req>>
  BY <1>13 DEF CreateRun, CancelPending, CancelRunning, ThreadRead, ThreadMark,
               ThreadCommit, ThreadAnswer
<1>14. ASSUME NEW c \in Waiters, WaitStart(c) \/ WaitEnd(c) \/ WaitTimeout(c)
       PROVE  UNCHANGED <<taskVars, handler, cancel_req>>
  BY <1>14 DEF WaitStart, WaitEnd, WaitTimeout
<1>15. ASSUME Gathered \/ Drained \/ UNCHANGED vars
       PROVE  UNCHANGED <<taskVars, handler, cancel_req>>
  BY <1>15 DEF Gathered, Drained, vars
<1>16. QED
  BY <1>1, <1>3, <1>4, <1>5, <1>6, <1>7, <1>8, <1>9, <1>10, <1>11, <1>12,
     <1>13, <1>14, <1>15
  DEF Next, Submitters, WorkerStep, PoolThreads, Cancellers, WaiterCalls, Rest

(* When no synchronous handler can be abandoned in the pool, the handlers   *)
(* of runs with one lock_key never execute at the same time: a handler      *)
(* executes only while a task awaits it, and that task owns the lock.       *)
THEOREM HandlersExclude ==
    ASSUME NoneAbandoned
    PROVE  Spec => []HandlerExclusion
<1> DEFINE IInv == TypeOK /\ LockInv /\ HandlerInv
<1>1. Init => IInv
  BY TypeInit DEF Init, LockInv, HasRun, OwnsLock, HandlerInv, Inside, InLoop
<1>2. IInv /\ [Next]_vars => IInv'
  BY NoneAbandoned, TypeStep, LockStep, HandlerStep DEF LockInv
<1>3. IInv => HandlerExclusion
  <2> SUFFICES ASSUME IInv, NEW r \in Runs, NEW s \in Runs, Conflict(r, s),
                      handler[r] = "active", handler[s] = "active"
               PROVE  FALSE
    BY DEF HandlerExclusion
  <2>1. PICK v \in Tasks : wpc[v] = "running" /\ wrun[v] = r
    BY DEF HandlerInv, Awaited
  <2>2. PICK w \in Tasks : wpc[w] = "running" /\ wrun[w] = s
    BY DEF HandlerInv, Awaited
  <2>3. QED
    BY <2>1, <2>2 DEF LockInv, OwnsLock, Inside, Conflict
<1>4. QED
  BY <1>1, <1>2, <1>3, PTL DEF Spec

-----------------------------------------------------------------------------
(* Worker tasks, from start to shutdown *)

Gone == {"done", "dead"}

(* A task that has ended stays so, and no task comes to life except by       *)
(* start(), in the pool.                                                    *)
LEMMA TasksLive ==
    ASSUME TypeOK, [Next]_vars, NEW w \in Tasks
    PROVE  /\ wpc[w] \in Gone => wpc'[w] = wpc[w]
           /\ wpc[w] = "unborn" => wpc'[w] = "unborn" \/ StartWorkers
<1> USE DEF runVars, storeVars, queueVars, taskVars, lockVars, poolVars,
            clientVars, stopVars
<1> DEFINE Lives == /\ wpc[w] \in Gone => wpc'[w] = wpc[w]
                    /\ wpc[w] = "unborn" => wpc'[w] = "unborn" \/ StartWorkers
<1>1. ASSUME NEW r \in Runs, Submit(r) \/ Enqueue(r) PROVE Lives
  <2>1. StartWorkers
    BY <1>1 DEF Submit, Enqueue, EnqueueRun
  <2>2. QED
    BY <2>1 DEF StartWorkers, Gone
<1>2. ASSUME NEW v \in Tasks, WorkerStep(v) PROVE Lives
  <2>1. wpc[v] \notin Gone \cup {"unborn"}
    BY <1>2 DEF WorkerStep, Take, Acquire, MarkRunning, Start, Refuse, Timeout,
                Finish, Complete, CancelIdle, CancelLockWait, CancelHandler, Gone
  <2>2. \A u \in Tasks \ {v} : wpc'[u] = wpc[u]
    <3> DEFINE Alone == \A u \in Tasks \ {v} : wpc'[u] = wpc[u]
    <3> USE DEF TypeOK
    <3>1. ASSUME Take(v) \/ Acquire(v) PROVE Alone
      <4>1. \/ UNCHANGED wpc
            \/ \E p \in {"lock", "idle", "checked"} : wpc' = [wpc EXCEPT ![v] = p]
        BY <3>1 DEF Take, Acquire, Enter
      <4>2. QED
        BY <4>1
    <3>2. ASSUME MarkRunning(v) \/ Start(v) PROVE Alone
      <4>1. \E p \in {"marked", "refused", "running"} : wpc' = [wpc EXCEPT ![v] = p]
        BY <3>2 DEF MarkRunning, Start
      <4>2. QED
        BY <4>1
    <3>3. ASSUME Refuse(v) \/ Timeout(v) \/ \E end \in Ends : Complete(v, end)
          PROVE  Alone
      <4>1. wpc' = [wpc EXCEPT ![v] = "finishing"]
        BY <3>3 DEF Refuse, Timeout, Complete, EndRun
      <4>2. QED
        BY <4>1
    <3>4. ASSUME Finish(v) PROVE Alone
      BY <3>4 DEF Finish
    <3>5. ASSUME CancelIdle(v) \/ CancelLockWait(v) PROVE Alone
      BY <3>5 DEF CancelIdle, CancelLockWait
    <3>6. ASSUME CancelHandler(v) PROVE Alone
      BY <3>6 DEF CancelHandler, EndRun
    <3>7. QED
      BY <1>2, <3>1, <3>2, <3>3, <3>4, <3>5, <3>6 DEF WorkerStep
  <2>3. QED
    BY <2>1, <2>2
<1>3. ASSUME NEW r \in Runs,
             \/ CreateRun(r) \/ PoolStart(r) \/ PoolEnd(r)
             \/ CancelPending(r) \/ CancelRunning(r) \/ ThreadRead(r)
             \/ ThreadMark(r) \/ ThreadCommit(r) \/ ThreadAnswer(r)
      PROVE  UNCHANGED wpc
  BY <1>3 DEF CreateRun, PoolStart, PoolEnd, CancelPending, CancelRunning,
              ThreadRead, ThreadMark, ThreadCommit, ThreadAnswer
<1>4. ASSUME NEW c \in Waiters, WaitStart(c) \/ WaitEnd(c) \/ WaitTimeout(c)
      PROVE  UNCHANGED wpc
  BY <1>4 DEF WaitStart, WaitEnd, WaitTimeout
<1>5. ASSUME Shutdown \/ Gathered \/ Drained \/ UNCHANGED vars PROVE UNCHANGED wpc
  BY <1>5 DEF Shutdown, Gathered, Drained, vars
<1>6. UNCHANGED wpc => Lives
  OBVIOUS
<1>7. QED
  BY <1>1, <1>2, <1>3, <1>4, <1>5, <1>6
  DEF Next, Submitters, PoolThreads, Cancellers, WaiterCalls, Rest

(* The variables of shutdown are its own, but for the cancellations that    *)
(* the tasks receive, and self._workers changes only in start().            *)
LEMMA ShutdownOnly ==
    ASSUME [Next]_vars, ~Shutdown
    PROVE  /\ UNCHANGED gathered /\ cancel_req' \subseteq cancel_req
           /\ UNCHANGED pool \/ StartWorkers
           /\ \/ Gathered
              \/ UNCHANGED pool_open /\ (Drained \/ UNCHANGED stop)
<1> USE DEF runVars, storeVars, queueVars, taskVars, lockVars, poolVars,
            clientVars, stopVars
<1> DEFINE Apart == /\ UNCHANGED <<gathered, stop, pool_open>>
                    /\ cancel_req' \subseteq cancel_req
                    /\ UNCHANGED pool \/ StartWorkers
<1>1. ASSUME NEW r \in Runs,
             \/ Submit(r) \/ CreateRun(r) \/ Enqueue(r) \/ PoolStart(r) \/ PoolEnd(r)
             \/ CancelPending(r) \/ CancelRunning(r) \/ ThreadRead(r)
             \/ ThreadMark(r) \/ ThreadCommit(r) \/ ThreadAnswer(r)
      PROVE  Apart
  BY <1>1 DEF Submit, CreateRun, Enqueue, EnqueueRun, PoolStart, PoolEnd,
              CancelPending, CancelRunning, ThreadRead, ThreadMark,
              ThreadCommit, ThreadAnswer
<1>2. ASSUME NEW w \in Tasks, WorkerStep(w) PROVE Apart
  BY <1>2 DEF WorkerStep, Take, Acquire, MarkRunning, Start, Refuse, Timeout,
              Finish, Complete, EndRun, CancelIdle, CancelLockWait, CancelHandler
<1>3. ASSUME NEW c \in Waiters, WaitStart(c) \/ WaitEnd(c) \/ WaitTimeout(c)
      PROVE  Apart
  BY <1>3 DEF WaitStart, WaitEnd, WaitTimeout
<1>4. CASE Gathered \/ Drained
  BY <1>4 DEF Gathered, Drained
<1>5. CASE UNCHANGED vars
  BY <1>5 DEF vars
<1>6. QED
  BY <1>1, <1>2, <1>3, <1>4, <1>5
  DEF Next, Submitters, PoolThreads, Cancellers, WaiterCalls, Rest

(* Until shutdown, the tasks that live are those of self._workers.          *)
WorkersInv ==
    stop = "up" =>
        /\ cancel_req = {}
        /\ \A w \in Tasks : wpc[w] \notin Gone \cup {"unborn"} => w \in pool
        /\ pool = {} \/ Cardinality(pool) = WorkerCount

LEMMA StaysUp ==
    ASSUME TypeOK, [Next]_vars, stop' = "up"
    PROVE  stop = "up" /\ ~Shutdown /\ ~Gathered /\ ~Drained
<1>1. ~Shutdown /\ ~Gathered /\ ~Drained
  BY DEF Shutdown, Gathered, Drained
<1>2. QED
  BY <1>1, ShutdownOnly

LEMMA WorkersStep ==
    ASSUME TypeOK, WorkersInv, [Next]_vars
    PROVE  WorkersInv'
<1> SUFFICES ASSUME stop' = "up"
             PROVE  /\ cancel_req' = {}
                    /\ \A w \in Tasks : wpc'[w] \notin Gone \cup {"unborn"} => w \in pool'
                    /\ pool' = {} \/ Cardinality(pool') = WorkerCount
  BY DEF WorkersInv
<1>1. stop = "up" /\ ~Shutdown
  BY StaysUp
<1>2. cancel_req' = {} /\ (UNCHANGED pool \/ StartWorkers)
  BY <1>1, ShutdownOnly DEF WorkersInv
<1>3. CASE StartWorkers
  <2>1. CASE pool # {}
    BY <1>1, <1>2, <1>3, <2>1 DEF StartWorkers, WorkersInv
  <2>2. CASE pool = {}
    <3>1. PICK S \in SUBSET {w \in Tasks : wpc[w] = "unborn"} :
             /\ Cardinality(S) = WorkerCount /\ pool' = S
             /\ wpc' = [w \in Tasks |-> IF w \in S THEN "idle" ELSE wpc[w]]
      BY <1>3, <2>2 DEF StartWorkers
    <3>2. \A w \in Tasks : wpc[w] \in Gone \cup {"unborn"}
      BY <1>1, <2>2 DEF WorkersInv
    <3>3. QED
      BY <1>2, <3>1, <3>2
  <2>3. QED
    BY <2>1, <2>2
<1>4. CASE UNCHANGED pool /\ ~StartWorkers
  <2>1. \A w \in Tasks : wpc[w] \in Gone \cup {"unborn"} => wpc'[w] = wpc[w]
    BY <1>4, TasksLive
  <2>2. QED
    BY <1>1, <1>2, <1>4, <2>1 DEF WorkersInv
<1>5. QED
  BY <1>2, <1>3, <1>4

(* Until shutdown is called, no more worker tasks consume invocations than  *)
(* ExecutorConfig.workers: start() creates them once.  (A worker whose      *)
(* handler swallowed the cancellation of shutdown lives on beside the       *)
(* workers that a later submit creates.)                                    *)
THEOREM WorkersBounded == Spec => [](stop = "up" => WorkerBound)
<1> DEFINE IInv == TypeOK /\ LockInv /\ WorkersInv
<1>1. Init => IInv
  BY TypeInit DEF Init, LockInv, HasRun, OwnsLock, Inside, InLoop, WorkersInv
<1>2. IInv /\ [Next]_vars => IInv'
  BY TypeStep, LockStep, WorkersStep DEF LockInv
<1>3. IInv => (stop = "up" => WorkerBound)
  <2> SUFFICES ASSUME IInv, stop = "up" PROVE WorkerBound
    OBVIOUS
  <2> DEFINE S == {w \in Tasks \ cancel_req : wpc[w] \notin {"unborn", "done", "dead"}}
  <2>1. S \in SUBSET pool /\ IsFiniteSet(pool)
    <3>1. S \in SUBSET pool
      BY DEF WorkersInv, Gone
    <3>2. pool \in SUBSET Tasks
      BY DEF TypeOK
    <3>3. QED
      <4>1. IsFiniteSet(Tasks)
        BY ConfigAssumption
      <4>2. IsFiniteSet(pool)
        BY <3>2, <4>1, FS_Subset
      <4>3. QED
        BY <3>1, <4>2
  <2>2. Cardinality(pool) <= WorkerCount
    <3>1. WorkerCount \in Nat
      BY ConfigAssumption
    <3>2. CASE Cardinality(pool) = WorkerCount
      BY <3>1, <3>2
    <3>3. CASE pool = {}
      <4>1. Cardinality(pool) = 0
        BY <3>3, FS_EmptySet
      <4>2. QED
        BY <3>1, <4>1
    <3>4. QED
      BY <3>2, <3>3 DEF WorkersInv
  <2>3. Cardinality(S) <= Cardinality(pool) /\ Cardinality(S) \in Nat
        /\ Cardinality(pool) \in Nat
    <3> HIDE DEF S
    <3>1. IsFiniteSet(S) /\ Cardinality(S) <= Cardinality(pool)
      BY <2>1, FS_Subset
    <3>2. QED
      BY <2>1, <3>1, FS_CardinalityType
  <2>4. Cardinality(S) <= WorkerCount
    BY <2>2, <2>3, ConfigAssumption
  <2>5. QED
    BY <2>4 DEF WorkerBound
<1>4. QED
  BY <1>1, <1>2, <1>3, PTL DEF Spec

(* Once gather() has returned the pool is closed and the tasks it awaited   *)
(* have ended; once the pool's shutdown has returned nothing is left in it. *)
DownInv ==
    WaitOnShutdown =>
        /\ stop \in {"draining", "down"} =>
              pool_open = FALSE /\ \A w \in gathered : wpc[w] \in Gone
        /\ stop = "down" => \A r \in PoolRuns : handler[r] \notin {"queued", "active"}

(* A closed pool takes no handler. *)
LEMMA ClosedPool ==
    ASSUME TypeOK, LockInv, [Next]_vars, pool_open = FALSE,
           NEW r \in PoolRuns, handler'[r] \in {"queued", "active"}
    PROVE  handler[r] \in {"queued", "active"}
<1> USE DEF runVars, storeVars, queueVars, taskVars, lockVars, poolVars,
            clientVars, stopVars
<1>1. r \in Runs
  BY ConfigAssumption
<1>2. ASSUME NEW w \in Tasks, Start(w) PROVE handler[r] \in {"queued", "active"}
  <2>1. r # wrun[w]
    BY <1>1, <1>2 DEF Start, TypeOK
  <2>2. QED
    BY <1>1, <1>2, <2>1 DEF Start, TypeOK
<1>3. ASSUME NEW w \in Tasks, \E end \in Ends : Complete(w, end)
      PROVE  handler[r] \in {"queued", "active"}
  BY <1>1, <1>3 DEF Complete, TypeOK
<1>4. ASSUME NEW w \in Tasks, Timeout(w) \/ CancelHandler(w)
      PROVE  handler[r] \in {"queued", "active"}
  BY <1>1, <1>4 DEF Timeout, CancelHandler, Abandoned, TypeOK
<1>5. ASSUME NEW s \in Runs, PoolStart(s) \/ PoolEnd(s)
      PROVE  handler[r] \in {"queued", "active"}
  BY <1>1, <1>5 DEF PoolStart, PoolEnd, TypeOK
<1>6. CASE UNCHANGED handler
  BY <1>6
<1>7. ASSUME NEW s \in Runs,
             \/ Submit(s) \/ CreateRun(s) \/ Enqueue(s)
             \/ CancelPending(s) \/ CancelRunning(s) \/ ThreadRead(s)
             \/ ThreadMark(s) \/ ThreadCommit(s) \/ ThreadAnswer(s)
      PROVE  UNCHANGED handler
  BY <1>7 DEF Submit, CreateRun, Enqueue, CancelPending, CancelRunning,
              ThreadRead, ThreadMark, ThreadCommit, ThreadAnswer
<1>8. ASSUME NEW w \in Tasks,
             \/ Take(w) \/ Acquire(w) \/ MarkRunning(w) \/ Refuse(w) \/ Finish(w)
             \/ CancelIdle(w) \/ CancelLockWait(w)
      PROVE  UNCHANGED handler
  BY <1>8 DEF Take, Acquire, MarkRunning, Refuse, Finish, CancelIdle, CancelLockWait
<1>9. ASSUME NEW c \in Waiters, WaitStart(c) \/ WaitEnd(c) \/ WaitTimeout(c)
      PROVE  UNCHANGED handler
  BY <1>9 DEF WaitStart, WaitEnd, WaitTimeout
<1>10. ASSUME Shutdown \/ Gathered \/ Drained \/ UNCHANGED vars
       PROVE  UNCHANGED handler
  BY <1>10 DEF Shutdown, Gathered, Drained, vars
<1>11. QED
  BY <1>2, <1>3, <1>4, <1>5, <1>6, <1>7, <1>8, <1>9, <1>10
  DEF Next, Submitters, WorkerStep, PoolThreads, Cancellers, WaiterCalls, Rest

LEMMA DownStep ==
    ASSUME TypeOK, LockInv, DownInv, [Next]_vars
    PROVE  DownInv'
<1> SUFFICES ASSUME WaitOnShutdown PROVE DownInv'
  BY DEF DownInv
<1>1. CASE Shutdown
  BY <1>1 DEF Shutdown, DownInv
<1>2. CASE Gathered
  BY <1>2 DEF Gathered, Ended, DownInv, Gone, taskVars
<1>3. CASE Drained
  BY <1>3 DEF Drained, DownInv, taskVars, poolVars
<1>4. CASE ~Shutdown /\ ~Gathered /\ ~Drained
  <2>1. UNCHANGED <<gathered, pool_open, stop>>
    BY <1>4, ShutdownOnly
  <2>2. ASSUME stop \in {"draining", "down"}
        PROVE  pool_open = FALSE /\ \A w \in gathered : wpc'[w] \in Gone
    BY <2>2, TasksLive DEF DownInv, TypeOK
  <2>3. ASSUME stop = "down", NEW r \in PoolRuns
        PROVE  handler'[r] \notin {"queued", "active"}
    BY <2>3, ClosedPool DEF DownInv
  <2>4. QED
    BY <2>1, <2>2, <2>3 DEF DownInv
<1>5. QED
  BY <1>1, <1>2, <1>3, <1>4

(* When shutdown(wait=True) has returned, the workers it cancelled have     *)
(* ended and no synchronous handler is executing or waiting for a thread,   *)
(* whatever is submitted to the executor meanwhile or afterwards: a closed  *)
(* pool takes no handler.                                                   *)
THEOREM DownMeansQuiet == Spec => []DownIsQuiet
<1> DEFINE IInv == TypeOK /\ LockInv /\ DownInv
<1>1. Init => IInv
  BY TypeInit DEF Init, LockInv, HasRun, OwnsLock, Inside, InLoop, DownInv
<1>2. IInv /\ [Next]_vars => IInv'
  BY TypeStep, LockStep, DownStep DEF LockInv
<1>3. IInv => DownIsQuiet
  BY DEF DownInv, DownIsQuiet, Gone
<1>4. QED
  BY <1>1, <1>2, <1>3, PTL DEF Spec

-----------------------------------------------------------------------------
(* How runs end *)

Submitted(r) == spc[r] = "submitted"

(* Only runs that were handed over are in the queue or in a task's hands. *)
HandedOver ==
    /\ \A w \in Tasks : wrun[w] # NoRun => Submitted(wrun[w])
    /\ \A i \in 1 .. Len(queue) : Submitted(queue[i])

(* No run is in the queue twice, in two hands, or here and there. *)
OnePlace ==
    /\ \A v, w \in Tasks : v # w /\ wrun[v] = wrun[w] => wrun[v] = NoRun
    /\ \A i, j \in 1 .. Len(queue) : queue[i] = queue[j] => i = j
    /\ \A i \in 1 .. Len(queue), w \in Tasks : queue[i] # wrun[w]

PlaceInv == HandedOver /\ OnePlace

(* No thread is inside cancel. *)
CancelsOnLoop == \A r \in Runs : cpc[r] \in {"idle", "cancelled", "requested"}

(* Where a run is says what its status can be. *)
StatusFollows ==
    /\ \A w \in Tasks :
          /\ wpc[w] = "checked" => status[wrun[w]] = "PENDING"
          /\ wpc[w] \in {"marked", "refused", "running", "aborting"} =>
                status[wrun[w]] = "RUNNING"
          /\ wpc[w] = "lock" => status[wrun[w]] \in {"PENDING", "CANCELLED"}
    /\ \A i \in 1 .. Len(queue) : status[queue[i]] \in {"PENDING", "CANCELLED"}
    /\ \A r \in Runs : ~Submitted(r) => status[r] \in {"PENDING", "CANCELLED"}

(* The handler of a run is not called before the run is RUNNING. *)
PendingIdle == \A r \in Runs : status[r] = "PENDING" => handler[r] = "idle"

EndingInv == CancelsOnLoop /\ StatusFollows /\ PendingIdle /\ CancelledNeverRuns

-----------------------------------------------------------------------------
(* Places *)

(* A step that takes nothing from the queue and hands nothing out. *)
LEMMA PlacesKept ==
    ASSUME PlaceInv, UNCHANGED queue,
           \A r \in Runs : Submitted(r) => Submitted(r)',
           \A w \in Tasks : wrun'[w] \in {wrun[w], NoRun},
           queue \in Seq(Runs), wrun \in [Tasks -> Runs \cup {NoRun}]
    PROVE  PlaceInv'
<1>1. HandedOver'
  BY DEF PlaceInv, HandedOver, Submitted
<1>2. OnePlace'
  BY ConfigAssumption DEF PlaceInv, OnePlace
<1>3. QED
  BY <1>1, <1>2 DEF PlaceInv

LEMMA EnqueueKeepsPlaces ==
    ASSUME TypeOK, PlaceInv, NEW r \in Runs, ~Submitted(r), EnqueueRun(r),
           UNCHANGED wrun
    PROVE  PlaceInv'
<1>1. /\ queue \in Seq(Runs) /\ queue' = Append(queue, r)
      /\ spc' = [spc EXCEPT ![r] = "submitted"]
      /\ spc \in [Runs -> {"new", "created", "submitted"}]
      /\ wrun \in [Tasks -> Runs \cup {NoRun}]
  BY DEF TypeOK, EnqueueRun
<1>2. /\ Len(queue') = Len(queue) + 1 /\ queue'[Len(queue) + 1] = r
      /\ Len(queue) \in Nat
      /\ \A i \in 1 .. Len(queue) : queue'[i] = queue[i] /\ queue[i] \in Runs
  BY <1>1
<1>3. /\ \A i \in 1 .. Len(queue) : queue[i] # r
      /\ \A w \in Tasks : wrun[w] # r
  BY ConfigAssumption DEF PlaceInv, HandedOver
<1>4. HandedOver'
  BY <1>1, <1>2, ConfigAssumption DEF PlaceInv, HandedOver, Submitted
<1>5. OnePlace'
  BY <1>1, <1>2, <1>3 DEF PlaceInv, OnePlace
<1>6. QED
  BY <1>4, <1>5 DEF PlaceInv

LEMMA TakeKeepsPlaces ==
    ASSUME TypeOK, PlaceInv, NEW w \in Tasks, Take(w)
    PROVE  PlaceInv'
<1> DEFINE r == Head(queue)
<1>1. /\ queue \in Seq(Runs) /\ queue # <<>> /\ queue' = Tail(queue)
      /\ UNCHANGED spc /\ wrun \in [Tasks -> Runs \cup {NoRun}]
  BY DEF TypeOK, Take, clientVars
<1>2. \/ UNCHANGED wrun
      \/ \E s \in {r, NoRun} : wrun' = [wrun EXCEPT ![w] = s]
  BY DEF Take, Enter, taskVars
<1>3. /\ r = queue[1] /\ r \in Runs /\ Len(queue) \in Nat \ {0}
      /\ Len(queue') = Len(queue) - 1
      /\ \A i \in 1 .. Len(queue') : queue'[i] = queue[i + 1]
  BY <1>1
<1>4. Submitted(r) /\ \A v \in Tasks : wrun[v] # r
  BY <1>3 DEF PlaceInv, HandedOver, OnePlace
<1>5. \A i \in 1 .. Len(queue') : /\ i + 1 \in 1 .. Len(queue)
                                  /\ queue'[i] # r
  BY <1>3 DEF PlaceInv, OnePlace
<1>6. \A v \in Tasks : \/ wrun'[v] \in {wrun[v], NoRun}
                       \/ v = w /\ wrun'[v] = r
  BY <1>1, <1>2
<1>7. HandedOver'
  BY <1>1, <1>3, <1>4, <1>5, <1>6 DEF PlaceInv, HandedOver, Submitted
<1>8. OnePlace'
  <2>1. \A u, v \in Tasks : u # v /\ wrun'[u] = wrun'[v] => wrun'[u] = NoRun
    BY <1>4, <1>6 DEF PlaceInv, OnePlace
  <2>2. \A i, j \in 1 .. Len(queue') : queue'[i] = queue'[j] => i = j
    <3> SUFFICES ASSUME NEW i \in 1 .. Len(queue'), NEW j \in 1 .. Len(queue'),
                        queue'[i] = queue'[j]
                 PROVE  i = j
      OBVIOUS
    <3>1. /\ i + 1 \in 1 .. Len(queue) /\ j + 1 \in 1 .. Len(queue)
          /\ queue[i + 1] = queue[j + 1]
      BY <1>3, <1>5
    <3>2. i + 1 = j + 1
      BY <3>1 DEF PlaceInv, OnePlace
    <3>3. QED
      BY <3>2
  <2>3. \A i \in 1 .. Len(queue'), v \in Tasks : queue'[i] # wrun'[v]
    <3> SUFFICES ASSUME NEW i \in 1 .. Len(queue'), NEW v \in Tasks
                 PROVE  queue'[i] # wrun'[v]
      OBVIOUS
    <3>1. queue'[i] \in Runs /\ queue'[i] # wrun[v] /\ queue'[i] # r
      BY <1>1, <1>3, <1>5 DEF PlaceInv, OnePlace
    <3>2. QED
      BY <1>6, <3>1, ConfigAssumption
  <2>4. QED
    BY <2>1, <2>2, <2>3 DEF OnePlace
<1>9. QED
  BY <1>7, <1>8 DEF PlaceInv

LEMMA PlaceStep ==
    ASSUME TypeOK, PlaceInv, [Next]_vars
    PROVE  PlaceInv'
<1> USE DEF runVars, storeVars, queueVars, taskVars, lockVars, poolVars,
            clientVars, stopVars
<1>1. ASSUME NEW r \in Runs, Submit(r) \/ Enqueue(r) PROVE PlaceInv'
  <2>1. ~Submitted(r) /\ EnqueueRun(r) /\ UNCHANGED wrun
    BY <1>1 DEF Submit, Enqueue, Submitted
  <2>2. QED
    BY <2>1, EnqueueKeepsPlaces
<1>2. ASSUME NEW w \in Tasks, Take(w) PROVE PlaceInv'
  BY <1>2, TakeKeepsPlaces
<1> DEFINE Keeps ==
             /\ UNCHANGED queue
             /\ \A r \in Runs : Submitted(r) => Submitted(r)'
             /\ \A w \in Tasks : wrun'[w] \in {wrun[w], NoRun}
<1>3. Keeps => PlaceInv'
  BY PlacesKept DEF TypeOK
<1>4. ASSUME NEW r \in Runs, CreateRun(r) PROVE Keeps
  BY <1>4 DEF CreateRun, Submitted, TypeOK
<1>5. ASSUME NEW w \in Tasks, Acquire(w) PROVE Keeps
  <2>1. UNCHANGED <<queue, spc>>
    BY <1>5 DEF Acquire
  <2>2. \E s \in {wrun[w], NoRun} : wrun' = [wrun EXCEPT ![w] = s]
    BY <1>5 DEF Acquire, Enter
  <2>3. QED
    BY <2>1, <2>2 DEF Submitted, TypeOK
<1>6. ASSUME NEW w \in Tasks, Finish(w) \/ CancelLockWait(w) PROVE Keeps
  <2>1. UNCHANGED <<queue, spc>> /\ wrun' = [wrun EXCEPT ![w] = NoRun]
    BY <1>6 DEF Finish, CancelLockWait
  <2>2. QED
    BY <2>1 DEF Submitted, TypeOK
<1>7. ASSUME NEW w \in Tasks,
             \/ MarkRunning(w) \/ Start(w) \/ Refuse(w) \/ Timeout(w)
             \/ (\E end \in Ends : Complete(w, end))
             \/ CancelIdle(w) \/ CancelHandler(w)
      PROVE  UNCHANGED <<queue, spc, wrun>>
  BY <1>7 DEF MarkRunning, Start, Refuse, Timeout, Complete, EndRun,
              CancelIdle, CancelHandler
<1>8. ASSUME NEW r \in Runs,
             \/ PoolStart(r) \/ PoolEnd(r) \/ CancelPending(r) \/ CancelRunning(r)
             \/ ThreadRead(r) \/ ThreadMark(r) \/ ThreadCommit(r) \/ ThreadAnswer(r)
      PROVE  UNCHANGED <<queue, spc, wrun>>
  BY <1>8 DEF PoolStart, PoolEnd, CancelPending, CancelRunning, ThreadRead,
              ThreadMark, ThreadCommit, ThreadAnswer
<1>9. ASSUME NEW c \in Waiters, WaitStart(c) \/ WaitEnd(c) \/ WaitTimeout(c)
      PROVE  UNCHANGED <<queue, spc, wrun>>
  BY <1>9 DEF WaitStart, WaitEnd, WaitTimeout
<1>10. ASSUME Shutdown \/ Gathered \/ Drained \/ UNCHANGED vars
       PROVE  UNCHANGED <<queue, spc, wrun>>
  BY <1>10 DEF Shutdown, Gathered, Drained, vars
<1>11. UNCHANGED <<queue, spc, wrun>> => Keeps
  BY DEF Submitted
<1>12. QED
  BY <1>1, <1>2, <1>3, <1>4, <1>5, <1>6, <1>7, <1>8, <1>9, <1>10, <1>11
  DEF Next, Submitters, WorkerStep, PoolThreads, Cancellers, WaiterCalls, Rest

-----------------------------------------------------------------------------
(* Status *)

(* A step of the task w alone, whose run no other task has and which is not *)
(* in the queue: the others see their runs' status unchanged.               *)
LEMMA OwnStatusOnly ==
    ASSUME TypeOK, LockInv, PlaceInv, EndingInv,
           NEW w \in Tasks, Inside(w), NEW s \in Statuses \ {"PENDING"},
           status' = [status EXCEPT ![wrun[w]] = s],
           NEW p \in InLoop, wpc' = [wpc EXCEPT ![w] = p],
           p \in {"marked", "finishing"}, p = "marked" => s = "RUNNING",
           UNCHANGED <<wrun, queue, spc>>
    PROVE  StatusFollows'
<1>1. wrun[w] \in Runs /\ Submitted(wrun[w])
  BY ConfigAssumption DEF LockInv, HasRun, PlaceInv, HandedOver
<1>2. \A r \in Runs : r # wrun[w] => status'[r] = status[r]
  BY DEF TypeOK
<1>3. status'[wrun[w]] = s /\ wpc'[w] = p
  BY <1>1 DEF TypeOK
<1>4. \A v \in Tasks \ {w} :
         /\ wpc'[v] = wpc[v]
         /\ wpc[v] = "lock" \/ Inside(v) => wrun[v] \in Runs /\ wrun[v] # wrun[w]
  BY <1>1, ConfigAssumption DEF TypeOK, LockInv, HasRun, PlaceInv, OnePlace
<1>5. \A i \in 1 .. Len(queue) : queue[i] \in Runs /\ queue[i] # wrun[w]
  BY DEF TypeOK, PlaceInv, OnePlace
<1>6. QED
  BY <1>1, <1>2, <1>3, <1>4, <1>5
  DEF EndingInv, StatusFollows, Submitted, Inside, InLoop

(* A task ends a run that is RUNNING. *)
LEMMA EndRunKeeps ==
    ASSUME TypeOK, LockInv, PlaceInv, EndingInv,
           NEW w \in Tasks, NEW end \in Ends, EndRun(w, end),
           wpc[w] \in {"refused", "running"},
           handler' \in [Runs -> {"idle", "queued", "active", "over"}],
           \A r \in Runs : r # wrun[w] => handler'[r] = handler[r]
    PROVE  EndingInv' /\ status[wrun[w]] = "RUNNING"
<1>1. /\ wrun[w] \in Runs /\ Inside(w) /\ status[wrun[w]] = "RUNNING"
  BY DEF LockInv, HasRun, EndingInv, StatusFollows, Inside, InLoop
<1>2. /\ status' = [status EXCEPT ![wrun[w]] = StatusOf[end]]
      /\ wpc' = [wpc EXCEPT ![w] = "finishing"]
      /\ UNCHANGED <<wrun, queue, spc, cpc>>
  BY DEF EndRun, queueVars, clientVars
<1>3. StatusOf[end] \in Statuses \ {"PENDING"}
  BY DEF Ends, StatusOf, Statuses
<1>4. StatusFollows'
  BY <1>1, <1>2, <1>3, OwnStatusOnly DEF InLoop
<1>5. cpc[wrun[w]] # "cancelled"
  BY <1>1 DEF EndingInv, CancelledNeverRuns
<1>6. CancelsOnLoop' /\ PendingIdle' /\ CancelledNeverRuns'
  BY <1>1, <1>2, <1>3, <1>5
  DEF TypeOK, EndingInv, CancelsOnLoop, PendingIdle, CancelledNeverRuns
<1>7. QED
  BY <1>1, <1>4, <1>6 DEF EndingInv

(* No status, no answer and no handler changes, and every task that has a   *)
(* run had it before or took it from the queue.                             *)
LEMMA StatusStays ==
    ASSUME EndingInv, UNCHANGED <<status, cpc, handler>>,
           \A r \in Runs : Submitted(r) => Submitted(r)',
           \A w \in Tasks :
               \/ wpc'[w] \notin (InLoop \cup {"lock", "running"}) \ {"finishing"}
               \/ wpc'[w] = wpc[w] /\ wrun'[w] = wrun[w]
               \/ wpc'[w] = "aborting" /\ wpc[w] = "running" /\ wrun'[w] = wrun[w]
               \/ wpc'[w] = "checked" /\ status[wrun'[w]] = "PENDING"
               \/ wpc'[w] = "lock" /\ status[wrun'[w]] \in {"PENDING", "CANCELLED"},
           \A i \in 1 .. Len(queue') : status[queue'[i]] \in {"PENDING", "CANCELLED"}
    PROVE  EndingInv'
<1>1. StatusFollows'
  BY DEF EndingInv, StatusFollows, Submitted, InLoop
<1>2. QED
  BY <1>1 DEF EndingInv, CancelsOnLoop, PendingIdle, CancelledNeverRuns

LEMMA EnterKeeps ==
    ASSUME TypeOK, EndingInv, NEW w \in Tasks, NEW r \in Runs, Enter(w, r),
           status[r] \in {"PENDING", "CANCELLED"}
    PROVE  \A v \in Tasks :
               \/ wpc'[v] = "idle"
               \/ wpc'[v] = wpc[v] /\ wrun'[v] = wrun[v]
               \/ wpc'[v] = "checked" /\ status[wrun'[v]] = "PENDING"
BY DEF TypeOK, Enter

LEMMA TakeKeepsEnding ==
    ASSUME TypeOK, PlaceInv, EndingInv, NEW w \in Tasks, Take(w) \/ Acquire(w)
    PROVE  EndingInv'
<1>1. UNCHANGED <<status, cpc, handler, spc>>
  BY DEF Take, Acquire, runVars, clientVars, poolVars
<1>2. \A i \in 1 .. Len(queue') : status[queue'[i]] \in {"PENDING", "CANCELLED"}
  <2>1. CASE queue' = Tail(queue) /\ queue # <<>>
    <3>1. \A i \in 1 .. Len(queue') : /\ queue'[i] = queue[i + 1]
                                      /\ i + 1 \in 1 .. Len(queue)
      BY <2>1 DEF TypeOK
    <3>2. QED
      BY <3>1 DEF EndingInv, StatusFollows
  <2>2. CASE UNCHANGED queue
    BY <2>2 DEF EndingInv, StatusFollows
  <2>3. QED
    BY <2>1, <2>2 DEF Take, Acquire, queueVars
<1>3. \A v \in Tasks :
         \/ wpc'[v] = "idle"
         \/ wpc'[v] = wpc[v] /\ wrun'[v] = wrun[v]
         \/ wpc'[v] = "checked" /\ status[wrun'[v]] = "PENDING"
         \/ wpc'[v] = "lock" /\ status[wrun'[v]] \in {"PENDING", "CANCELLED"}
  <2>1. CASE Take(w)
    <3> DEFINE r == Head(queue)
    <3>1. r \in Runs /\ status[r] \in {"PENDING", "CANCELLED"}
      <4>1. queue \in Seq(Runs) /\ queue # <<>>
        BY <2>1 DEF Take, TypeOK
      <4>2. r = queue[1] /\ 1 \in 1 .. Len(queue) /\ r \in Runs
        BY <4>1
      <4>3. QED
        BY <4>2 DEF EndingInv, StatusFollows
    <3>2. \/ UNCHANGED <<wpc, wrun>>
          \/ Enter(w, r)
          \/ /\ wpc' = [wpc EXCEPT ![w] = "lock"]
             /\ wrun' = [wrun EXCEPT ![w] = r]
      BY <2>1 DEF Take, taskVars
    <3>3. CASE /\ wpc' = [wpc EXCEPT ![w] = "lock"]
               /\ wrun' = [wrun EXCEPT ![w] = r]
      BY <3>1, <3>3 DEF TypeOK
    <3>4. QED
      BY <3>1, <3>2, <3>3, EnterKeeps
  <2>2. CASE Acquire(w)
    <3>1. CASE wrun[w] \in Runs
      BY <2>2, <3>1, EnterKeeps DEF Acquire, EndingInv, StatusFollows
    <3>2. CASE wrun[w] \notin Runs
      BY <2>2, <3>2 DEF Acquire, Enter, TypeOK, EndingInv, StatusFollows
    <3>3. QED
      BY <3>1, <3>2
  <2>3. QED
    BY <2>1, <2>2
<1>4. QED
  BY <1>1, <1>2, <1>3, StatusStays DEF Submitted, InLoop

(* A task goes on with a run that is RUNNING. *)
LEMMA RunningGoesOn ==
    ASSUME TypeOK, EndingInv, NEW w \in Tasks, status[wrun[w]] = "RUNNING",
           NEW p \in {"refused", "running", "aborting"}, wpc' = [wpc EXCEPT ![w] = p],
           \A r \in Runs : r # wrun[w] => handler'[r] = handler[r],
           UNCHANGED <<status, wrun, queue, spc, cpc>>
    PROVE  EndingInv'
<1>1. \A v \in Tasks : wpc'[v] = IF v = w THEN p ELSE wpc[v]
  BY DEF TypeOK
<1>2. StatusFollows'
  BY <1>1 DEF EndingInv, StatusFollows, Submitted
<1>3. CancelsOnLoop' /\ PendingIdle' /\ CancelledNeverRuns'
  BY DEF EndingInv, CancelsOnLoop, PendingIdle, CancelledNeverRuns
<1>4. QED
  BY <1>2, <1>3 DEF EndingInv

LEMMA EndingStep ==
    ASSUME ThreadCancels = {}, TypeOK, LockInv, PlaceInv, EndingInv, [Next]_vars
    PROVE  /\ EndingInv'
           /\ \A r \in Runs : status[r] \in Terminal => status'[r] = status[r]
<1> DEFINE Kept == \A r \in Runs : status[r] \in Terminal => status'[r] = status[r]
<1> USE DEF runVars, storeVars, queueVars, taskVars, lockVars, poolVars,
            clientVars, stopVars
<1>1. ASSUME NEW w \in Tasks, NEW end \in Ends, EndRun(w, end),
             wpc[w] \in {"refused", "running"},
             \/ UNCHANGED handler
             \/ handler' = [handler EXCEPT ![wrun[w]] = "over"]
             \/ handler' = Abandoned(wrun[w])
      PROVE  EndingInv' /\ Kept
  <2>1. /\ handler' \in [Runs -> {"idle", "queued", "active", "over"}]
        /\ \A r \in Runs : r # wrun[w] => handler'[r] = handler[r]
    <3>1. \/ UNCHANGED handler
          \/ \E h \in {"active", "over"} : handler' = [handler EXCEPT ![wrun[w]] = h]
      BY <1>1 DEF Abandoned
    <3>2. handler \in [Runs -> {"idle", "queued", "active", "over"}]
      BY DEF TypeOK
    <3>3. QED
      BY <3>1, <3>2
  <2>2. EndingInv' /\ status[wrun[w]] = "RUNNING"
    BY <1>1, <2>1, EndRunKeeps
  <2>3. Kept
    BY <1>1, <2>2 DEF EndRun, TypeOK, Terminal
  <2>4. QED
    BY <2>2, <2>3
<1>2. ASSUME NEW w \in Tasks,
             Refuse(w) \/ Timeout(w) \/ (\E end \in Ends : Complete(w, end))
      PROVE  EndingInv' /\ Kept
  BY <1>1, <1>2 DEF Refuse, Timeout, Complete, Ends
<1>3. ASSUME NEW w \in Tasks, MarkRunning(w) PROVE EndingInv' /\ Kept
  <2>1. /\ Inside(w) /\ wrun[w] \in Runs /\ status[wrun[w]] = "PENDING"
        /\ status' = [status EXCEPT ![wrun[w]] = "RUNNING"]
        /\ wpc' = [wpc EXCEPT ![w] = "marked"]
        /\ UNCHANGED <<wrun, queue, spc, cpc, handler>>
    BY <1>3 DEF MarkRunning, LockInv, HasRun, EndingInv, StatusFollows, Inside, InLoop
  <2>2. StatusFollows'
    BY <2>1, OwnStatusOnly DEF InLoop, Statuses
  <2>3. CancelsOnLoop' /\ PendingIdle' /\ CancelledNeverRuns'
    BY <2>1 DEF TypeOK, EndingInv, CancelsOnLoop, PendingIdle, CancelledNeverRuns
  <2>4. QED
    BY <2>1, <2>2, <2>3 DEF TypeOK, EndingInv, Terminal
<1>4. ASSUME NEW w \in Tasks, Start(w) PROVE EndingInv' /\ Kept
  <2>1. wpc[w] = "marked" /\ UNCHANGED <<status, wrun, queue, spc, cpc>>
    BY <1>4 DEF Start
  <2>2. wrun[w] \in Runs
    BY <2>1 DEF LockInv, HasRun, Inside, InLoop
  <2>3. status[wrun[w]] = "RUNNING"
    BY <2>1 DEF EndingInv, StatusFollows
  <2>4. \E p \in {"refused", "running"} : wpc' = [wpc EXCEPT ![w] = p]
    BY <1>4 DEF Start
  <2>5. \A r \in Runs : r # wrun[w] => handler'[r] = handler[r]
    <3>1. \E h : handler' = [handler EXCEPT ![wrun[w]] = h]
      BY <1>4 DEF Start
    <3>2. QED
      BY <3>1 DEF TypeOK
  <2>6. EndingInv'
    BY <2>1, <2>3, <2>4, <2>5, RunningGoesOn
  <2>7. QED
    BY <2>1, <2>6
<1>5. ASSUME NEW r \in Runs, CancelPending(r) PROVE EndingInv' /\ Kept
  <2>1. /\ status[r] = "PENDING" /\ handler[r] = "idle"
        /\ status' = [status EXCEPT ![r] = "CANCELLED"]
        /\ cpc' = [cpc EXCEPT ![r] = "cancelled"]
        /\ \A w \in Tasks : wpc[w] # "checked"
        /\ UNCHANGED <<wpc, wrun, queue, spc, handler>>
    BY <1>5 DEF CancelPending, LoopFree, InLoop, EndingInv, PendingIdle
  <2>2. StatusFollows'
    BY <2>1 DEF TypeOK, EndingInv, StatusFollows, Submitted
  <2>3. CancelsOnLoop' /\ PendingIdle' /\ CancelledNeverRuns'
    BY <2>1 DEF TypeOK, EndingInv, CancelsOnLoop, PendingIdle, CancelledNeverRuns
  <2>4. QED
    BY <2>1, <2>2, <2>3 DEF TypeOK, EndingInv, Terminal
<1>6. ASSUME NEW r \in Runs, CancelRunning(r) PROVE EndingInv' /\ Kept
  <2>1. /\ cpc' = [cpc EXCEPT ![r] = "requested"]
        /\ UNCHANGED <<status, wpc, wrun, queue, spc, handler>>
    BY <1>6 DEF CancelRunning
  <2>2. QED
    BY <2>1 DEF TypeOK, EndingInv, CancelsOnLoop, StatusFollows, PendingIdle,
                CancelledNeverRuns, Submitted
<1>7. ASSUME NEW r \in Runs, PoolStart(r) \/ PoolEnd(r) PROVE EndingInv' /\ Kept
  <2>1. /\ handler[r] # "idle" /\ \A s \in Runs : s # r => handler'[s] = handler[s]
        /\ UNCHANGED <<status, wpc, wrun, queue, spc, cpc>>
    BY <1>7 DEF PoolStart, PoolEnd, TypeOK
  <2>2. QED
    BY <2>1 DEF EndingInv, CancelsOnLoop, StatusFollows, PendingIdle,
                CancelledNeverRuns, Submitted
<1>8. ASSUME NEW r \in Runs,
             ThreadRead(r) \/ ThreadMark(r) \/ ThreadCommit(r) \/ ThreadAnswer(r)
      PROVE  FALSE
  BY <1>8 DEF ThreadRead, CanCancel, ThreadMark, ThreadCommit, ThreadAnswer,
              EndingInv, CancelsOnLoop
<1>9. ASSUME NEW r \in Runs, Submit(r) \/ Enqueue(r) PROVE EndingInv' /\ Kept
  <2>1. /\ EnqueueRun(r) /\ ~Submitted(r)
        /\ UNCHANGED <<status, cpc, handler, wrun>>
    BY <1>9 DEF Submit, Enqueue, Submitted
  <2>2. \A w \in Tasks : wpc'[w] = wpc[w] \/ wpc'[w] = "idle"
    BY <2>1, StartingLetsNobodyIn DEF EnqueueRun
  <2>3. /\ queue \in Seq(Runs) /\ queue' = Append(queue, r)
        /\ status[r] \in {"PENDING", "CANCELLED"}
        /\ \A s \in Runs : Submitted(s) => Submitted(s)'
    BY <2>1 DEF TypeOK, EnqueueRun, EndingInv, StatusFollows, Submitted
  <2>4. \A i \in 1 .. Len(queue') : status[queue'[i]] \in {"PENDING", "CANCELLED"}
    <3>1. \A i \in 1 .. Len(queue') : i \in 1 .. Len(queue) \/ queue'[i] = r
      BY <2>3
    <3>2. \A i \in 1 .. Len(queue) : queue'[i] = queue[i]
      BY <2>3
    <3>3. QED
      BY <2>3, <3>1, <3>2 DEF EndingInv, StatusFollows
  <2>5. QED
    BY <2>1, <2>2, <2>3, <2>4, StatusStays DEF InLoop
<1>10. ASSUME NEW w \in Tasks, Take(w) \/ Acquire(w) PROVE EndingInv' /\ Kept
  BY <1>10, TakeKeepsEnding DEF Take, Acquire
<1>11. ASSUME NEW w \in Tasks,
              \/ Finish(w) \/ CancelIdle(w) \/ CancelLockWait(w)
       PROVE  EndingInv' /\ Kept
  <2>1. /\ UNCHANGED <<status, cpc, handler, spc, queue>>
        /\ \E p \in {"idle", "done", "dead"} : wpc' = [wpc EXCEPT ![w] = p]
        /\ \E r : wrun' = [wrun EXCEPT ![w] = r]
    <3>1. CASE Finish(w)
      BY <3>1 DEF Finish
    <3>2. CASE CancelIdle(w)
      <4>1. wrun' = [wrun EXCEPT ![w] = wrun[w]]
        BY <3>2 DEF CancelIdle, TypeOK
      <4>2. QED
        BY <3>2, <4>1 DEF CancelIdle
    <3>3. CASE CancelLockWait(w)
      BY <3>3 DEF CancelLockWait
    <3>4. QED
      BY <1>11, <3>1, <3>2, <3>3
  <2>2. \A v \in Tasks : \/ wpc'[v] \in {"idle", "done", "dead"}
                         \/ wpc'[v] = wpc[v] /\ wrun'[v] = wrun[v]
    BY <2>1 DEF TypeOK
  <2>3. \A i \in 1 .. Len(queue') : status[queue'[i]] \in {"PENDING", "CANCELLED"}
    BY <2>1 DEF EndingInv, StatusFollows
  <2>4. EndingInv'
    BY <2>1, <2>2, <2>3, StatusStays DEF Submitted, InLoop
  <2>5. QED
    BY <2>1, <2>4
<1>12. ASSUME NEW w \in Tasks, CancelHandler(w) PROVE EndingInv' /\ Kept
  <2>1. CASE EndRun(w, "cancelled")
    BY <1>1, <1>12, <2>1 DEF CancelHandler, Ends
  <2>2. CASE /\ wpc' = [wpc EXCEPT ![w] = "aborting"]
             /\ UNCHANGED <<runVars, wrun, queue, clientVars>>
    <3>1. wpc[w] = "running" /\ handler' = Abandoned(wrun[w])
      BY <1>12 DEF CancelHandler
    <3>2. status[wrun[w]] = "RUNNING"
      BY <3>1 DEF EndingInv, StatusFollows
    <3>3. \A r \in Runs : r # wrun[w] => handler'[r] = handler[r]
      BY <3>1 DEF Abandoned, TypeOK
    <3>4. EndingInv'
      BY <2>2, <3>2, <3>3, RunningGoesOn
    <3>5. QED
      BY <2>2, <3>4
  <2>3. QED
    BY <1>12, <2>1, <2>2 DEF CancelHandler
<1>13. ASSUME NEW r \in Runs, CreateRun(r) PROVE EndingInv' /\ Kept
  <2>1. /\ UNCHANGED <<status, cpc, handler, queue, wpc, wrun>>
        /\ \A s \in Runs : Submitted(s) => Submitted(s)'
    BY <1>13 DEF CreateRun, TypeOK, Submitted
  <2>2. QED
    BY <2>1, StatusStays DEF EndingInv, StatusFollows
<1>14. CASE UNCHANGED <<status, cpc, handler, queue, wpc, wrun, spc>>
  BY <1>14 DEF EndingInv, CancelsOnLoop, StatusFollows, PendingIdle,
               CancelledNeverRuns, Submitted
<1>15. ASSUME NEW c \in Waiters, WaitStart(c) \/ WaitEnd(c) \/ WaitTimeout(c)
       PROVE  UNCHANGED <<status, cpc, handler, queue, wpc, wrun, spc>>
  BY <1>15 DEF WaitStart, WaitEnd, WaitTimeout
<1>16. ASSUME Shutdown \/ Gathered \/ Drained \/ UNCHANGED vars
       PROVE  UNCHANGED <<status, cpc, handler, queue, wpc, wrun, spc>>
  BY <1>16 DEF Shutdown, Gathered, Drained, vars
<1>17. QED
  BY <1>2, <1>3, <1>4, <1>5, <1>6, <1>7, <1>8, <1>9, <1>10, <1>11, <1>12,
     <1>13, <1>14, <1>15, <1>16
  DEF Next, Submitters, WorkerStep, PoolThreads, Cancellers, WaiterCalls, Rest

-----------------------------------------------------------------------------
EndInv == TypeOK /\ LockInv /\ PlaceInv /\ EndingInv

LEMMA EndInvInit == Init => EndInv
<1>1. Init => TypeOK /\ LockInv
  BY TypeInit DEF Init, LockInv, HasRun, OwnsLock, Inside, InLoop
<1>2. Init => PlaceInv
  BY DEF Init, PlaceInv, HandedOver, OnePlace
<1>3. Init => EndingInv
  BY DEF Init, EndingInv, CancelsOnLoop, StatusFollows, PendingIdle,
         CancelledNeverRuns, InLoop
<1>4. QED
  BY <1>1, <1>2, <1>3 DEF EndInv

LEMMA EndInvStep ==
    ASSUME ThreadCancels = {}, EndInv, [Next]_vars
    PROVE  EndInv'
BY TypeStep, LockStep, PlaceStep, EndingStep DEF EndInv, LockInv

(* As long as no thread other than the loop's cancels, a run that has ended *)
(* keeps its status: neither the worker that ends it, nor cancel, nor a     *)
(* shutdown writes it again.                                                *)
THEOREM RunsEndOnce ==
    ASSUME ThreadCancels = {}
    PROVE  Spec => EndsOnce
<1> DEFINE Kept == \A r \in Runs : status[r] \in Terminal => status'[r] = status[r]
<1>1. Init => EndInv
  BY EndInvInit
<1>2. EndInv /\ [Next]_vars => EndInv'
  BY EndInvStep
<1>3. EndInv /\ [Next]_vars => [Kept]_vars
  BY EndingStep DEF EndInv
<1>4. QED
  BY <1>1, <1>2, <1>3, PTL DEF Spec, EndsOnce

(* Under the same assumption a run whose cancel was answered "cancelled" is *)
(* not executed, whichever worker has taken it or waits for its lock.       *)
THEOREM CancelledRunsStayIdle ==
    ASSUME ThreadCancels = {}
    PROVE  Spec => []CancelledNeverRuns
<1>1. Init => EndInv
  BY EndInvInit
<1>2. EndInv /\ [Next]_vars => EndInv'
  BY EndInvStep
<1>3. EndInv => CancelledNeverRuns
  BY DEF EndInv, EndingInv
<1>4. QED
  BY <1>1, <1>2, <1>3, PTL DEF Spec

-----------------------------------------------------------------------------
(***************************************************************************)
(* What callers learn about runs: the job store, the futures and the        *)
(* answers of wait_result.  Ids are known only once the run is on the queue *)
(* (EarlyIds = {}): a run that is waited for or cancelled before that has   *)
(* no future yet.                                                          *)
(***************************************************************************)

(* Nothing has happened to a run that is not handed over yet, except that   *)
(* the store has it; nobody waits for it. *)
StoredInv ==
    /\ FuturesStored
    /\ \A r \in Runs : ~Submitted(r) => status[r] = "PENDING" /\ cpc[r] = "idle"
    /\ \A r \in Runs : spc[r] = "created" => r \in stored
    /\ \A c \in Waiters : wait[c] # "new" => Submitted(waits_on[c])

-----------------------------------------------------------------------------
(* The parts of StoredInv, and what a step must keep for each.              *)
LEMMA StoredKept ==
    ASSUME TypeOK, StoredInv,
           futures' \subseteq stored',
           UNCHANGED spc,
           \A r \in Runs : ~Submitted(r) => status'[r] = status[r] /\ cpc'[r] = cpc[r],
           \A r \in stored : ~Submitted(r) => r \in stored',
           \A c \in Waiters : wait'[c] # "new" => wait[c] # "new" \/ Submitted(waits_on[c])
    PROVE  StoredInv'
BY ConfigAssumption DEF TypeOK, StoredInv, FuturesStored, Submitted

LEMMA PopKeepsStored ==
    ASSUME TypeOK, StoredInv, NEW S, NEW fut, PopRuns(S, fut),
           \A r \in Runs : r \in S => Submitted(r)
    PROVE  /\ futures' \subseteq stored'
           /\ \A r \in stored : ~Submitted(r) => r \in stored'
BY DEF TypeOK, StoredInv, FuturesStored, PopRuns

LEMMA EnqueueKeepsStored ==
    ASSUME TypeOK, StoredInv, NEW r \in Runs, EnqueueRun(r), ~Submitted(r),
           stored' = stored \cup {r}, UNCHANGED <<status, cpc, wait>>
    PROVE  StoredInv'
<1>1. /\ futures' = futures \cup {r}
      /\ spc' = [spc EXCEPT ![r] = "submitted"]
  BY DEF EnqueueRun
<1>2. QED
  BY <1>1, ConfigAssumption DEF TypeOK, StoredInv, FuturesStored, Submitted

(* A step of a task that leaves the store alone and writes no other run's   *)
(* status than its own.                                                     *)
LEMMA TaskKeepsStored ==
    ASSUME TypeOK, LockInv, PlaceInv, StoredInv, NEW w \in Tasks, Inside(w),
           NEW s \in Statuses, status' = [status EXCEPT ![wrun[w]] = s],
           UNCHANGED <<stored, futures, spc, cpc, wait>>
    PROVE  StoredInv'
<1>1. wrun[w] \in Runs /\ Submitted(wrun[w])
  BY ConfigAssumption DEF LockInv, HasRun, PlaceInv, HandedOver
<1>2. \A r \in Runs : ~Submitted(r) => status'[r] = status[r]
  BY <1>1 DEF TypeOK
<1>3. QED
  BY <1>2, StoredKept DEF StoredInv, FuturesStored

LEMMA StoredStep ==
    ASSUME EarlyIds = {}, TypeOK, LockInv, PlaceInv, StoredInv, [Next]_vars
    PROVE  StoredInv'
<1> USE DEF runVars, storeVars, queueVars, taskVars, lockVars, poolVars,
            clientVars, stopVars
<1>1. ASSUME NEW r \in Runs, Submit(r) PROVE StoredInv'
  BY <1>1, EnqueueKeepsStored DEF Submit, Created, Submitted
<1>2. ASSUME NEW r \in Runs, Enqueue(r) PROVE StoredInv'
  <2>1. stored' = stored \cup {r} /\ ~Submitted(r)
    BY <1>2 DEF Enqueue, StoredInv, Submitted
  <2>2. QED
    BY <1>2, <2>1, EnqueueKeepsStored DEF Enqueue
<1>3. ASSUME NEW r \in Runs, CreateRun(r) PROVE StoredInv'
  BY <1>3, ConfigAssumption
  DEF CreateRun, Created, TypeOK, StoredInv, FuturesStored, Submitted
<1>4. ASSUME NEW w \in Tasks, NEW end \in Ends, EndRun(w, end), Inside(w)
      PROVE  StoredInv'
  <2>1. StatusOf[end] \in Statuses
    BY DEF Ends, StatusOf, Statuses
  <2>2. QED
    BY <1>4, <2>1, TaskKeepsStored DEF EndRun
<1>5. ASSUME NEW w \in Tasks,
             Refuse(w) \/ Timeout(w) \/ (\E end \in Ends : Complete(w, end))
      PROVE  StoredInv'
  BY <1>4, <1>5 DEF Refuse, Timeout, Complete, Ends, Inside, InLoop
<1>6. ASSUME NEW w \in Tasks, MarkRunning(w) PROVE StoredInv'
  BY <1>6, TaskKeepsStored DEF MarkRunning, Inside, InLoop, Statuses
<1>7. ASSUME NEW w \in Tasks, CancelHandler(w) PROVE StoredInv'
  <2>1. CASE EndRun(w, "cancelled")
    BY <1>4, <1>7, <2>1 DEF CancelHandler, Ends, Inside
  <2>2. CASE UNCHANGED <<status, stored, futures, spc, cpc, wait>>
    BY <2>2, StoredKept DEF StoredInv, FuturesStored
  <2>3. QED
    BY <1>7, <2>1, <2>2 DEF CancelHandler
<1>8. ASSUME NEW w \in Tasks, Finish(w) PROVE StoredInv'
  <2>1. /\ UNCHANGED <<status, spc, cpc, wait>>
        /\ \/ UNCHANGED storeVars
           \/ \E t : PopRuns(Surplus(finished_at') \cup Expired(finished_at', t), future)
    BY <1>8 DEF Finish
  <2>2. \A t : \A r \in Surplus(finished_at') \cup Expired(finished_at', t) :
           Submitted(r)
    BY DEF Surplus, Expired, Completed, Terminal, StoredInv, TypeOK
  <2>3. /\ futures' \subseteq stored'
        /\ \A r \in stored : ~Submitted(r) => r \in stored'
    BY <2>1, <2>2, PopKeepsStored DEF StoredInv, FuturesStored
  <2>4. QED
    BY <2>1, <2>3, StoredKept
<1>9. ASSUME NEW r \in Runs,
             \/ CancelPending(r) \/ CancelRunning(r)
             \/ ThreadRead(r) \/ ThreadMark(r) \/ ThreadCommit(r) \/ ThreadAnswer(r)
      PROVE  StoredInv'
  <2>1. Submitted(r)
    <3>1. cpc[r] # "idle" => Submitted(r)
      BY DEF StoredInv
    <3>2. CanCancel(r, LoopCancels) \/ CanCancel(r, ThreadCancels) => Submitted(r)
      BY DEF CanCancel, Known, Submitted
    <3>3. QED
      BY <1>9, <3>1, <3>2 DEF CancelPending, CancelRunning, ThreadRead, ThreadMark,
                              ThreadCommit, ThreadAnswer
  <2>2. /\ UNCHANGED <<stored, futures, spc, wait>>
        /\ \A s \in Runs : s # r => status'[s] = status[s] /\ cpc'[s] = cpc[s]
    <3>1. UNCHANGED <<stored, futures, spc, wait>>
      BY <1>9 DEF CancelPending, CancelRunning, ThreadRead, ThreadMark, ThreadCommit,
                  ThreadAnswer
    <3>2. UNCHANGED status \/ status' = [status EXCEPT ![r] = "CANCELLED"]
      BY <1>9 DEF CancelPending, CancelRunning, ThreadRead, ThreadMark, ThreadCommit,
                  ThreadAnswer
    <3>3. \E p : cpc' = [cpc EXCEPT ![r] = p]
      BY <1>9 DEF CancelPending, CancelRunning, ThreadRead, ThreadMark, ThreadCommit,
                  ThreadAnswer
    <3>4. QED
      BY <3>1, <3>2, <3>3 DEF TypeOK
  <2>3. QED
    BY <2>1, <2>2, StoredKept DEF StoredInv, FuturesStored
<1>10. ASSUME NEW c \in Waiters, WaitStart(c) \/ WaitEnd(c) \/ WaitTimeout(c)
       PROVE  StoredInv'
  <2>1. waits_on[c] \in Runs /\ Submitted(waits_on[c])
    BY <1>10, ConfigAssumption
    DEF WaitStart, WaitEnd, WaitTimeout, Known, Submitted, StoredInv
  <2>2. /\ UNCHANGED <<status, spc, cpc>>
        /\ \A d \in Waiters : d # c => wait'[d] = wait[d]
    BY <1>10 DEF WaitStart, WaitEnd, WaitTimeout, Answer, TypeOK
  <2>3. \/ UNCHANGED storeVars
        \/ \E fut : PopRuns(IF PopOnWait THEN {waits_on[c]} ELSE {}, fut)
    BY <1>10 DEF WaitStart, WaitEnd, WaitTimeout, Answer
  <2>4. /\ futures' \subseteq stored'
        /\ \A r \in stored : ~Submitted(r) => r \in stored'
    BY <2>1, <2>3, PopKeepsStored DEF StoredInv, FuturesStored
  <2>5. QED
    BY <2>1, <2>2, <2>4, StoredKept
<1>11. CASE UNCHANGED <<status, stored, futures, spc, cpc, wait>>
  BY <1>11, StoredKept DEF StoredInv, FuturesStored
<1>12. ASSUME NEW w \in Tasks,
              \/ Take(w) \/ Acquire(w) \/ Start(w) \/ CancelIdle(w) \/ CancelLockWait(w)
       PROVE  UNCHANGED <<status, stored, futures, spc, cpc, wait>>
  BY <1>12 DEF Take, Acquire, Start, CancelIdle, CancelLockWait
<1>13. ASSUME NEW r \in Runs, PoolStart(r) \/ PoolEnd(r)
       PROVE  UNCHANGED <<status, stored, futures, spc, cpc, wait>>
  BY <1>13 DEF PoolStart, PoolEnd
<1>14. ASSUME Shutdown \/ Gathered \/ Drained \/ UNCHANGED vars
       PROVE  UNCHANGED <<status, stored, futures, spc, cpc, wait>>
  BY <1>14 DEF Shutdown, Gathered, Drained, vars
<1>15. QED
  BY <1>1, <1>2, <1>3, <1>5, <1>6, <1>7, <1>8, <1>9, <1>10, <1>11, <1>12,
     <1>13, <1>14
  DEF Next, Submitters, WorkerStep, PoolThreads, Cancellers, WaiterCalls, Rest

StoreInv == TypeOK /\ LockInv /\ PlaceInv /\ StoredInv

LEMMA StoreInvInit == Init => StoreInv
<1>1. Init => TypeOK /\ LockInv /\ PlaceInv
  BY EndInvInit DEF EndInv
<1>2. Init => StoredInv
  BY ConfigAssumption DEF Init, StoredInv, FuturesStored, Submitted
<1>3. QED
  BY <1>1, <1>2 DEF StoreInv

LEMMA StoreInvStep ==
    ASSUME EarlyIds = {}, StoreInv, [Next]_vars
    PROVE  StoreInv'
BY TypeStep, LockStep, PlaceStep, StoredStep DEF StoreInv, LockInv

(* A future is registered only for a run that the store has: whatever       *)
(* pop_run and cleanup remove, from whichever caller, their futures go too,  *)
(* and no hand-over brings one back.                                        *)
THEOREM FuturesAreStored ==
    ASSUME EarlyIds = {}
    PROVE  Spec => []FuturesStored
<1>1. Init => StoreInv
  BY StoreInvInit
<1>2. StoreInv /\ [Next]_vars => StoreInv'
  BY StoreInvStep
<1>3. StoreInv => FuturesStored
  BY DEF StoreInv, StoredInv
<1>4. QED
  BY <1>1, <1>2, <1>3, PTL DEF Spec

-----------------------------------------------------------------------------
(* Futures *)

(* The future that goes with a status, case by case. *)
Matches(s, f) ==
    /\ s \in {"PENDING", "RUNNING"} => f = "pending"
    /\ s = "SUCCEEDED" => f = "result"
    /\ s \in {"FAILED", "CANCELLED", "TIMEOUT"} => f = "error"

FutureInv ==
    \A r \in Runs : Submitted(r) =>
        /\ Matches(status[r], future[r])
        /\ status[r] \in {"PENDING", "RUNNING"} => r \in futures

LEMMA MatchesSuffice ==
    ASSUME TypeOK, FutureInv
    PROVE  FutureAgrees
BY DEF TypeOK, Statuses, FutureInv, FutureAgrees, Matches, Submitted

(* A run gets a status that ends it and its future the value for that. *)
LEMMA ResolveKeeps ==
    ASSUME TypeOK, FutureInv, NEW r \in Runs, Submitted(r),
           status[r] \in {"PENDING", "RUNNING"},
           NEW s \in Terminal, status' = [status EXCEPT ![r] = s],
           future' = Resolved(r, IF s = "SUCCEEDED" THEN "result" ELSE "error"),
           UNCHANGED <<futures, spc>>
    PROVE  FutureInv'
<1>1. future[r] = "pending" /\ r \in futures
  BY DEF FutureInv, Matches
<1>2. /\ status'[r] = s /\ future'[r] = IF s = "SUCCEEDED" THEN "result" ELSE "error"
      /\ \A t \in Runs : t # r => status'[t] = status[t] /\ future'[t] = future[t]
  BY <1>1 DEF TypeOK, Resolved
<1>3. QED
  BY <1>2 DEF FutureInv, Matches, Submitted, Terminal

(* Runs are popped that have ended, or that have no future any more. *)
LEMMA PopKeepsFutures ==
    ASSUME TypeOK, FutureInv, NEW S, PopRuns(S, future),
           \A r \in S \cap Runs : Submitted(r) => status[r] \in Terminal,
           \A r \in S \cap Runs : ~Submitted(r) => r \notin futures,
           UNCHANGED <<status, spc>>
    PROVE  FutureInv'
<1>1. \A r \in Runs : Submitted(r) => future'[r] = future[r]
  BY DEF TypeOK, PopRuns, FutureInv, Matches, Terminal
<1>2. \A r \in Runs : Submitted(r) /\ status[r] \in {"PENDING", "RUNNING"} =>
                          r \in futures'
  BY DEF PopRuns, FutureInv, Terminal
<1>3. QED
  BY <1>1, <1>2 DEF FutureInv, Submitted

LEMMA FutureStep ==
    ASSUME ThreadCancels = {}, EarlyIds = {}, TimedWaiters = {},
           EndInv, StoredInv, FutureInv, [Next]_vars
    PROVE  FutureInv'
<1> USE DEF EndInv
<1> USE DEF runVars, storeVars, queueVars, taskVars, lockVars, poolVars,
            clientVars, stopVars
<1>1. ASSUME NEW r \in Runs, Submit(r) \/ Enqueue(r) PROVE FutureInv'
  <2>1. ~Submitted(r) /\ EnqueueRun(r) /\ UNCHANGED status
    BY <1>1 DEF Submit, Enqueue, Submitted
  <2>2. status[r] = "PENDING"
    BY <2>1 DEF StoredInv
  <2>3. QED
    BY <2>1, <2>2 DEF TypeOK, EnqueueRun, FutureInv, Matches, Submitted
<1>2. ASSUME NEW w \in Tasks, NEW end \in Ends, EndRun(w, end),
             wpc[w] \in {"refused", "running"}
      PROVE  FutureInv'
  <2>1. wrun[w] \in Runs /\ Submitted(wrun[w]) /\ status[wrun[w]] = "RUNNING"
    BY <1>2, ConfigAssumption DEF LockInv, HasRun, PlaceInv, HandedOver, EndingInv,
                                  StatusFollows, Inside, InLoop
  <2>2. /\ StatusOf[end] \in Terminal
        /\ end = "success" <=> StatusOf[end] = "SUCCEEDED"
    BY DEF Ends, StatusOf, Terminal
  <2>3. QED
    BY <1>2, <2>1, <2>2, ResolveKeeps DEF EndRun
<1>3. ASSUME NEW w \in Tasks,
             Refuse(w) \/ Timeout(w) \/ (\E end \in Ends : Complete(w, end))
      PROVE  FutureInv'
  BY <1>2, <1>3 DEF Refuse, Timeout, Complete, Ends
<1>4. ASSUME NEW w \in Tasks, CancelHandler(w) PROVE FutureInv'
  <2>1. CASE EndRun(w, "cancelled")
    BY <1>2, <1>4, <2>1 DEF CancelHandler, Ends
  <2>2. CASE UNCHANGED <<status, future, futures, spc>>
    BY <2>2 DEF FutureInv, Submitted
  <2>3. QED
    BY <1>4, <2>1, <2>2 DEF CancelHandler
<1>5. ASSUME NEW w \in Tasks, MarkRunning(w) PROVE FutureInv'
  <2>1. /\ wrun[w] \in Runs /\ status[wrun[w]] = "PENDING"
        /\ status' = [status EXCEPT ![wrun[w]] = "RUNNING"]
        /\ UNCHANGED <<future, futures, spc>>
    BY <1>5 DEF MarkRunning, LockInv, HasRun, EndingInv, StatusFollows, Inside, InLoop
  <2>2. QED
    BY <2>1 DEF TypeOK, FutureInv, Matches, Submitted
<1>6. ASSUME NEW r \in Runs, CancelPending(r) PROVE FutureInv'
  <2>1. Submitted(r)
    BY <1>6 DEF CancelPending, CanCancel, Known, Submitted
  <2>2. QED
    BY <1>6, <2>1, ResolveKeeps DEF CancelPending, CommitCancel, Terminal
<1>7. ASSUME NEW w \in Tasks, Finish(w) PROVE FutureInv'
  <2>1. /\ UNCHANGED <<status, spc>>
        /\ \/ UNCHANGED storeVars
           \/ \E t : PopRuns(Surplus(finished_at') \cup Expired(finished_at', t), future)
    BY <1>7 DEF Finish
  <2>2. \A t : \A r \in Surplus(finished_at') \cup Expired(finished_at', t) :
           status[r] \in Terminal /\ Submitted(r)
    BY DEF Surplus, Expired, Completed, Terminal, StoredInv, TypeOK
  <2>3. CASE UNCHANGED storeVars
    BY <2>1, <2>3 DEF FutureInv, Submitted
  <2>4. QED
    BY <2>1, <2>2, <2>3, PopKeepsFutures
<1>8. ASSUME NEW c \in Waiters, WaitStart(c) \/ WaitEnd(c) PROVE FutureInv'
  <2> DEFINE r == waits_on[c]
  <2>1. r \in Runs /\ Submitted(r) /\ UNCHANGED <<status, spc>>
    BY <1>8, ConfigAssumption DEF WaitStart, WaitEnd, Known, Submitted, StoredInv
  <2>2. CASE UNCHANGED storeVars
    BY <2>1, <2>2 DEF FutureInv, Submitted
  <2>3. CASE /\ r \notin futures \/ future[r] # "pending"
             /\ PopRuns(IF PopOnWait THEN {r} ELSE {}, future)
    <3>1. status[r] \in Terminal
      BY <2>1, <2>3 DEF FutureInv, Matches, TypeOK, Statuses, Terminal
    <3>2. QED
      BY <2>1, <2>3, <3>1, PopKeepsFutures
  <2>4. QED
    BY <1>8, <2>2, <2>3 DEF WaitStart, WaitEnd, Answer
<1>9. ASSUME NEW c \in Waiters, WaitTimeout(c) PROVE FALSE
  BY <1>9 DEF WaitTimeout
<1>10. ASSUME NEW r \in Runs,
              ThreadRead(r) \/ ThreadMark(r) \/ ThreadCommit(r) \/ ThreadAnswer(r)
       PROVE  FALSE
  BY <1>10 DEF ThreadRead, CanCancel, ThreadMark, ThreadCommit, ThreadAnswer,
               EndingInv, CancelsOnLoop
<1>11. ASSUME NEW r \in Runs, CreateRun(r) PROVE FutureInv'
  BY <1>11 DEF CreateRun, TypeOK, FutureInv, Submitted
<1>12. CASE UNCHANGED <<status, future, futures, spc>>
  BY <1>12 DEF FutureInv, Submitted
<1>13. ASSUME NEW w \in Tasks,
              \/ Take(w) \/ Acquire(w) \/ Start(w) \/ CancelIdle(w) \/ CancelLockWait(w)
       PROVE  UNCHANGED <<status, future, futures, spc>>
  BY <1>13 DEF Take, Acquire, Start, CancelIdle, CancelLockWait
<1>14. ASSUME NEW r \in Runs, PoolStart(r) \/ PoolEnd(r) \/ CancelRunning(r)
       PROVE  UNCHANGED <<status, future, futures, spc>>
  BY <1>14 DEF PoolStart, PoolEnd, CancelRunning
<1>15. ASSUME Shutdown \/ Gathered \/ Drained \/ UNCHANGED vars
       PROVE  UNCHANGED <<status, future, futures, spc>>
  BY <1>15 DEF Shutdown, Gathered, Drained, vars
<1>16. QED
  BY <1>1, <1>3, <1>4, <1>5, <1>6, <1>7, <1>8, <1>9, <1>10, <1>11, <1>12,
     <1>13, <1>14, <1>15
  DEF Next, Submitters, WorkerStep, PoolThreads, Cancellers, WaiterCalls, Rest

TellInv == EndInv /\ StoredInv /\ FutureInv

LEMMA TellInvInit == Init => TellInv
<1>1. Init => FutureInv
  BY DEF Init, FutureInv, Submitted
<1>2. QED
  BY <1>1, EndInvInit, StoreInvInit DEF TellInv, StoreInv

LEMMA TellInvStep ==
    ASSUME ThreadCancels = {}, EarlyIds = {}, TimedWaiters = {}, TellInv, [Next]_vars
    PROVE  TellInv'
BY EndInvStep, StoredStep, FutureStep DEF TellInv, EndInv

(* While cancel is called on the loop only, and no waiter has a timeout (it *)
(* would cancel the future under the others), a run's future and its status *)
(* agree, whatever times out, is cancelled, cleaned up, popped by waiters   *)
(* or shut down.                                                            *)
THEOREM FuturesAgree ==
    ASSUME ThreadCancels = {}, EarlyIds = {}, TimedWaiters = {}
    PROVE  Spec => []FutureAgrees
<1>1. Init => TellInv
  BY TellInvInit
<1>2. TellInv /\ [Next]_vars => TellInv'
  BY TellInvStep
<1>3. TellInv => FutureAgrees
  BY MatchesSuffice DEF TellInv, EndInv
<1>4. QED
  BY <1>1, <1>2, <1>3, PTL DEF Spec

-----------------------------------------------------------------------------
(* Answers *)

(* The store forgets no run. *)
NothingForgotten == RetainLast < 0 /\ ~HasTTL /\ ~PopOnWait

AnswerInv ==
    /\ \A r \in Runs : Submitted(r) => r \in futures
    /\ \A c \in Waiters : wait[c] # "timeout"
    /\ AnswerAgrees

(* Nobody is answered, and runs that have ended keep their status.          *)
LEMMA AnswersStay ==
    ASSUME AnswerInv, UNCHANGED wait,
           \A r \in Runs : status[r] \in Terminal => status'[r] = status[r],
           \A r \in Runs : Submitted(r)' => Submitted(r) \/ r \in futures',
           futures \subseteq futures'
    PROVE  AnswerInv'
BY ConfigAssumption DEF AnswerInv, AnswerAgrees, Terminal

LEMMA AnswerStep ==
    ASSUME ThreadCancels = {}, EarlyIds = {}, TimedWaiters = {}, NothingForgotten,
           TellInv, AnswerInv, [Next]_vars
    PROVE  AnswerInv'
<1> USE DEF TellInv, EndInv
<1> USE DEF runVars, storeVars, queueVars, taskVars, lockVars, poolVars,
            clientVars, stopVars
<1>1. \A r \in Runs : status[r] \in Terminal => status'[r] = status[r]
  BY EndingStep
<1>2. ASSUME NEW r \in Runs, Submit(r) \/ Enqueue(r) PROVE AnswerInv'
  <2>1. EnqueueRun(r) /\ UNCHANGED wait
    BY <1>2 DEF Submit, Enqueue
  <2>2. /\ \A s \in Runs : Submitted(s)' => Submitted(s) \/ s \in futures'
        /\ futures \subseteq futures'
    BY <2>1 DEF EnqueueRun, TypeOK, Submitted
  <2>3. QED
    BY <1>1, <2>1, <2>2, AnswersStay
<1>3. ASSUME NEW w \in Tasks, Finish(w) PROVE AnswerInv'
  <2>1. UNCHANGED <<wait, spc>>
    BY <1>3 DEF Finish
  <2>2. Surplus(finished_at') = {} /\ Expired(finished_at', 0) = {}
    <3>1. \A r \in Runs : finished_at'[r] \in Nat
      BY <1>3 DEF Finish, TypeOK
    <3>2. QED
      BY <3>1 DEF Surplus, Expired, Completed, NothingForgotten, TypeOK
  <2>3. UNCHANGED futures
    <3>1. \/ UNCHANGED futures
          \/ PopRuns(Surplus(finished_at') \cup Expired(finished_at', 0), future)
      BY <1>3 DEF Finish, NothingForgotten
    <3>2. QED
      BY <2>2, <3>1 DEF PopRuns
  <2>4. QED
    BY <1>1, <2>1, <2>3, AnswersStay DEF Submitted
<1>4. ASSUME NEW c \in Waiters, WaitStart(c) PROVE AnswerInv'
  <2>1. waits_on[c] \in futures
    BY <1>4, ConfigAssumption DEF WaitStart, Known, AnswerInv, Submitted
  <2>2. /\ wait' = [wait EXCEPT ![c] = "waiting"]
        /\ UNCHANGED <<futures, spc, status>>
    BY <1>4, <2>1 DEF WaitStart
  <2>3. QED
    BY <2>2 DEF TypeOK, AnswerInv, AnswerAgrees, Submitted
<1>5. ASSUME NEW c \in Waiters, WaitEnd(c) PROVE AnswerInv'
  <2> DEFINE r == waits_on[c]
  <2>1. r \in Runs /\ Submitted(r) /\ future[r] # "pending"
    BY <1>5, ConfigAssumption DEF WaitEnd, StoredInv
  <2>2. /\ wait' = [wait EXCEPT ![c] = future[r]]
        /\ UNCHANGED <<spc, status, futures>>
    BY <1>5 DEF WaitEnd, Answer, PopRuns, NothingForgotten
  <2>3. \/ status[r] = "SUCCEEDED" /\ future[r] = "result"
        \/ status[r] \in Terminal \ {"SUCCEEDED"} /\ future[r] = "error"
    BY <2>1 DEF TypeOK, FutureInv, Matches, Statuses, Terminal
  <2>4. QED
    BY <2>2, <2>3 DEF TypeOK, AnswerInv, AnswerAgrees, Submitted
<1>6. ASSUME NEW c \in Waiters, WaitTimeout(c) PROVE FALSE
  BY <1>6 DEF WaitTimeout
<1> DEFINE Aside == /\ UNCHANGED <<wait, futures>>
                    /\ \A r \in Runs : Submitted(r)' => Submitted(r)
<1>7. Aside => AnswerInv'
  BY <1>1, AnswersStay
<1>8. ASSUME NEW w \in Tasks,
             \/ Take(w) \/ Acquire(w) \/ MarkRunning(w) \/ Start(w) \/ Refuse(w)
             \/ Timeout(w) \/ (\E end \in Ends : Complete(w, end))
             \/ CancelIdle(w) \/ CancelLockWait(w) \/ CancelHandler(w)
      PROVE  Aside
  BY <1>8 DEF Take, Acquire, MarkRunning, Start, Refuse, Timeout, Complete, EndRun,
              CancelIdle, CancelLockWait, CancelHandler, Submitted
<1>9. ASSUME NEW r \in Runs,
             \/ PoolStart(r) \/ PoolEnd(r) \/ CancelPending(r) \/ CancelRunning(r)
             \/ ThreadRead(r) \/ ThreadMark(r) \/ ThreadCommit(r) \/ ThreadAnswer(r)
      PROVE  Aside
  BY <1>9 DEF PoolStart, PoolEnd, CancelPending, CancelRunning, ThreadRead,
              ThreadMark, ThreadCommit, ThreadAnswer, Submitted
<1>10. ASSUME NEW r \in Runs, CreateRun(r) PROVE Aside
  BY <1>10 DEF CreateRun, TypeOK, Submitted
<1>11. ASSUME Shutdown \/ Gathered \/ Drained \/ UNCHANGED vars PROVE Aside
  BY <1>11 DEF Shutdown, Gathered, Drained, vars, Submitted
<1>12. QED
  BY <1>2, <1>3, <1>4, <1>5, <1>6, <1>7, <1>8, <1>9, <1>10, <1>11
  DEF Next, Submitters, WorkerStep, PoolThreads, Cancellers, WaiterCalls, Rest

(* If, besides, the store forgets no run, wait_result never answers None or *)
(* a cancellation of the wait, and its answer is and stays how the run ended. *)
THEOREM AnswersAgree ==
    ASSUME ThreadCancels = {}, EarlyIds = {}, TimedWaiters = {}, NothingForgotten
    PROVE  Spec => []AnswerAgrees
<1>1. Init => TellInv /\ AnswerInv
  BY TellInvInit DEF Init, AnswerInv, AnswerAgrees, Submitted
<1>2. TellInv /\ AnswerInv /\ [Next]_vars => TellInv' /\ AnswerInv'
  BY TellInvStep, AnswerStep
<1>3. AnswerInv => AnswerAgrees
  BY DEF AnswerInv
<1>4. QED
  BY <1>1, <1>2, <1>3, PTL DEF Spec

-----------------------------------------------------------------------------
(* Events *)

(* What the state events e of a run say about its status s. *)
Tells(e, s) ==
    /\ \A i \in 1 .. Len(e) : e[i] = "start" => i = 1
    /\ \A i \in 1 .. Len(e) : e[i] \in Ends => i = Len(e) /\ StatusOf[e[i]] = s
    /\ EmitRunEvents /\ s \in Terminal => e # <<>> /\ e[Len(e)] \in Ends
    /\ s = "PENDING" => e = <<>>

LogInv ==
    /\ \A r \in Runs : Tells(log[r], status[r])
    /\ \A w \in Tasks : wpc[w] = "marked" => log[wrun[w]] = <<>>

(* A run that has not ended has not said so. *)
LEMMA NotEnded ==
    ASSUME NEW e \in Seq(EventKinds), NEW s \in {"PENDING", "RUNNING"}, Tells(e, s)
    PROVE  \A i \in 1 .. Len(e) : e[i] \notin Ends
BY DEF Tells, Ends, StatusOf

LEMMA EndTells ==
    ASSUME NEW e \in Seq(EventKinds), NEW s \in {"PENDING", "RUNNING"}, Tells(e, s),
           NEW end \in Ends
    PROVE  /\ Tells(Append(e, end), StatusOf[end])
           /\ ~EmitRunEvents => Tells(e, StatusOf[end])
<1>1. \A i \in 1 .. Len(e) : e[i] \notin Ends
  BY NotEnded
<1>2. end \in EventKinds /\ end # "start" /\ StatusOf[end] # "PENDING"
  BY DEF Ends, EventKinds, StatusOf
<1>3. /\ Len(Append(e, end)) = Len(e) + 1 /\ Append(e, end)[Len(e) + 1] = end
      /\ \A i \in 1 .. Len(e) : Append(e, end)[i] = e[i]
      /\ Append(e, end) # <<>>
  BY <1>2
<1>4. \A i \in 1 .. Len(e) + 1 : i \in 1 .. Len(e) \/ i = Len(e) + 1
  OBVIOUS
<1>5. Tells(Append(e, end), StatusOf[end])
  BY <1>1, <1>2, <1>3, <1>4 DEF Tells
<1>6. ~EmitRunEvents => Tells(e, StatusOf[end])
  BY <1>1, <1>2 DEF Tells
<1>7. QED
  BY <1>5, <1>6

(* A run that goes on says that it starts, or that it was asked to end. *)
LEMMA NoteTells ==
    ASSUME NEW e \in Seq(EventKinds), Tells(e, "RUNNING"),
           NEW k \in {"start", "cancel_requested"}, k = "start" => e = <<>>
    PROVE  Tells(Append(e, k), "RUNNING")
<1>1. \A i \in 1 .. Len(e) : e[i] \notin Ends
  BY NotEnded
<1>2. k \in EventKinds /\ k \notin Ends
  BY DEF Ends, EventKinds
<1>3. /\ Len(Append(e, k)) = Len(e) + 1 /\ Append(e, k)[Len(e) + 1] = k
      /\ \A i \in 1 .. Len(e) : Append(e, k)[i] = e[i]
      /\ k = "start" => Len(e) = 0
  BY <1>2
<1>4. \A i \in 1 .. Len(e) + 1 : i \in 1 .. Len(e) \/ i = Len(e) + 1
  OBVIOUS
<1>5. QED
  BY <1>1, <1>2, <1>3, <1>4 DEF Tells, Terminal

(* A step that logs nothing and starts no run. *)
LEMMA SilentKeepsLog ==
    ASSUME LogInv, UNCHANGED <<log, status>>,
           \A w \in Tasks : wpc'[w] = "marked" => wpc[w] = "marked" /\ wrun'[w] = wrun[w]
    PROVE  LogInv'
BY DEF LogInv

LEMMA EndKeepsLog ==
    ASSUME EndInv, LogInv, NEW r \in Runs, NEW end \in Ends, NEW force \in BOOLEAN,
           status[r] \in {"PENDING", "RUNNING"},
           status' = [status EXCEPT ![r] = StatusOf[end]],
           log' = Emitted(r, end, force),
           \A w \in Tasks : wpc'[w] = "marked" =>
               wpc[w] = "marked" /\ wrun'[w] = wrun[w] /\ wrun[w] \in Runs \ {r}
    PROVE  LogInv'
<1>1. /\ Tells(log[r], status[r]) /\ log[r] \in Seq(EventKinds)
      /\ log \in [Runs -> Seq(EventKinds)] /\ status \in [Runs -> Statuses]
  BY DEF LogInv, EndInv, TypeOK
<1>2. /\ Tells(Append(log[r], end), StatusOf[end])
      /\ ~EmitRunEvents => Tells(log[r], StatusOf[end])
  BY <1>1, EndTells
<1>3. /\ status'[r] = StatusOf[end]
      /\ log'[r] = Append(log[r], end) \/ (~EmitRunEvents /\ log'[r] = log[r])
      /\ \A s \in Runs : s # r => status'[s] = status[s] /\ log'[s] = log[s]
  BY <1>1 DEF Emitted
<1>4. Tells(log'[r], status'[r])
  BY <1>2, <1>3
<1>5. QED
  BY <1>3, <1>4 DEF LogInv, Tells

LEMMA LogStep ==
    ASSUME ThreadCancels = {}, EndInv, LogInv, [Next]_vars
    PROVE  LogInv'
<1> USE DEF runVars, storeVars, queueVars, taskVars, lockVars, poolVars,
            clientVars, stopVars
<1>1. ASSUME NEW w \in Tasks, NEW end \in Ends, EndRun(w, end),
             wpc[w] \in {"refused", "running"}
      PROVE  LogInv'
  <2>1. wrun[w] \in Runs /\ status[wrun[w]] = "RUNNING"
    BY <1>1 DEF EndInv, LockInv, HasRun, EndingInv, StatusFollows, Inside, InLoop
  <2>2. \A v \in Tasks : wpc'[v] = "marked" =>
           wpc[v] = "marked" /\ wrun'[v] = wrun[v] /\ wrun[v] \in Runs \ {wrun[w]}
    BY <1>1, <2>1, ConfigAssumption
    DEF EndRun, EndInv, TypeOK, LockInv, HasRun, PlaceInv, OnePlace, Inside, InLoop
  <2>3. (end \in {"timeout", "failure"}) \in BOOLEAN
    OBVIOUS
  <2>4. QED
    BY <1>1, <2>1, <2>2, <2>3, EndKeepsLog DEF EndRun
<1>2. ASSUME NEW w \in Tasks,
             Refuse(w) \/ Timeout(w) \/ (\E end \in Ends : Complete(w, end))
      PROVE  LogInv'
  BY <1>1, <1>2 DEF Refuse, Timeout, Complete, Ends
<1>3. ASSUME NEW w \in Tasks, CancelHandler(w) PROVE LogInv'
  <2>1. CASE EndRun(w, "cancelled")
    BY <1>1, <1>3, <2>1 DEF CancelHandler, Ends
  <2>2. CASE /\ wpc' = [wpc EXCEPT ![w] = "aborting"]
             /\ UNCHANGED <<log, status, wrun>>
    BY <2>2, SilentKeepsLog DEF EndInv, TypeOK
  <2>3. QED
    BY <1>3, <2>1, <2>2 DEF CancelHandler
<1>4. ASSUME NEW w \in Tasks, MarkRunning(w) PROVE LogInv'
  <2>1. /\ wrun[w] \in Runs /\ status[wrun[w]] = "PENDING" /\ log[wrun[w]] = <<>>
        /\ status' = [status EXCEPT ![wrun[w]] = "RUNNING"]
        /\ \A v \in Tasks : wpc'[v] = "marked" => v = w \/ wpc[v] = "marked"
        /\ UNCHANGED <<log, wrun>>
    BY <1>4 DEF MarkRunning, EndInv, TypeOK, LockInv, HasRun, EndingInv,
                StatusFollows, Inside, InLoop, LogInv, Tells
  <2>2. \A r \in Runs : Tells(log[r], status'[r])
    BY <2>1 DEF EndInv, TypeOK, LogInv, Tells, Terminal
  <2>3. QED
    BY <2>1, <2>2 DEF LogInv, Tells
<1>5. ASSUME NEW w \in Tasks, Start(w) PROVE LogInv'
  <2> DEFINE r == wrun[w]
  <2>1. /\ r \in Runs /\ status[r] = "RUNNING" /\ log[r] = <<>>
        /\ log' = Emitted(r, "start", FALSE)
        /\ \A v \in Tasks : wpc'[v] = "marked" => v # w /\ wpc[v] = "marked"
        /\ UNCHANGED <<status, wrun>>
    BY <1>5 DEF Start, EndInv, TypeOK, LockInv, HasRun, EndingInv, StatusFollows,
                Inside, InLoop, LogInv
  <2>2. /\ Tells(log[r], "RUNNING") /\ log[r] \in Seq(EventKinds)
        /\ log \in [Runs -> Seq(EventKinds)]
    BY <2>1 DEF LogInv, EndInv, TypeOK
  <2>3. Tells(Append(log[r], "start"), "RUNNING")
    BY <2>1, <2>2, NoteTells
  <2>4. /\ log'[r] \in {log[r], Append(log[r], "start")}
        /\ \A s \in Runs : s # r => log'[s] = log[s]
    BY <2>1, <2>2 DEF Emitted
  <2>5. \A v \in Tasks : wpc'[v] = "marked" => wrun[v] # r /\ wrun[v] \in Runs
    BY <2>1, ConfigAssumption DEF EndInv, LockInv, HasRun, PlaceInv, OnePlace, Inside, InLoop
  <2>6. Tells(log'[r], status'[r])
    BY <2>1, <2>2, <2>3, <2>4
  <2>7. \A s \in Runs : Tells(log'[s], status'[s])
    <3>1. ASSUME NEW s \in Runs, s # r PROVE Tells(log'[s], status'[s])
      <4>1. log'[s] = log[s] /\ status'[s] = status[s] /\ Tells(log[s], status[s])
        BY <2>1, <2>4, <3>1 DEF LogInv
      <4>2. QED
        BY <4>1
    <3>2. QED
      BY <2>6, <3>1
  <2>8. \A v \in Tasks : wpc'[v] = "marked" => log'[wrun'[v]] = <<>>
    BY <2>1, <2>4, <2>5 DEF LogInv
  <2>9. QED
    BY <2>7, <2>8 DEF LogInv
<1>6. ASSUME NEW r \in Runs, CancelPending(r) PROVE LogInv'
  <2>1. /\ status[r] = "PENDING" /\ status' = [status EXCEPT ![r] = "CANCELLED"]
        /\ log' = Emitted(r, "cancelled", TRUE)
        /\ \A w \in Tasks : wpc'[w] # "marked"
    BY <1>6 DEF CancelPending, LoopFree, InLoop
  <2>2. "cancelled" \in Ends /\ StatusOf["cancelled"] = "CANCELLED"
    BY DEF Ends, StatusOf
  <2>3. QED
    BY <2>1, <2>2, EndKeepsLog
<1>7. ASSUME NEW r \in Runs, CancelRunning(r) PROVE LogInv'
  <2>1. /\ status[r] = "RUNNING" /\ UNCHANGED <<status, wpc, wrun>>
        /\ log' = [log EXCEPT ![r] = Append(@, "cancel_requested")]
        /\ \A w \in Tasks : wpc[w] # "marked"
    BY <1>7 DEF CancelRunning, Emitted, LoopFree, InLoop
  <2>2. /\ Tells(log[r], "RUNNING") /\ log[r] \in Seq(EventKinds)
        /\ log \in [Runs -> Seq(EventKinds)]
    BY <2>1 DEF LogInv, EndInv, TypeOK
  <2>3. Tells(Append(log[r], "cancel_requested"), "RUNNING")
    BY <2>2, NoteTells
  <2>4. \A s \in Runs : Tells(log'[s], status'[s])
    BY <2>1, <2>2, <2>3 DEF LogInv
  <2>5. QED
    BY <2>1, <2>4 DEF LogInv, Tells
<1>8. ASSUME NEW r \in Runs,
             ThreadRead(r) \/ ThreadMark(r) \/ ThreadCommit(r) \/ ThreadAnswer(r)
      PROVE  FALSE
  BY <1>8 DEF ThreadRead, CanCancel, ThreadMark, ThreadCommit, ThreadAnswer,
              EndInv, EndingInv, CancelsOnLoop
<1>9. ASSUME NEW w \in Tasks,
             \/ Take(w) \/ Acquire(w) \/ Finish(w) \/ CancelIdle(w) \/ CancelLockWait(w)
      PROVE  LogInv'
  <2>1. UNCHANGED <<log, status>>
    BY <1>9 DEF Take, Acquire, Finish, CancelIdle, CancelLockWait
  <2> DEFINE At(p) == wpc' = [wpc EXCEPT ![w] = p]
             Holding(r) == wrun' = [wrun EXCEPT ![w] = r]
  <2>2. /\ wpc \in [Tasks -> InLoop \cup {"unborn", "idle", "lock", "running",
                                        "done", "dead"}]
        /\ wrun \in [Tasks -> Runs \cup {NoRun}]
    BY DEF EndInv, TypeOK
  <2>3. /\ wpc' = wpc \/ At("idle") \/ At("checked") \/ At("lock") \/ At("done")
           \/ At("dead")
        /\ wrun' = wrun \/ \E r : Holding(r)
    <3>1. CASE Take(w)
      BY <3>1 DEF Take, Enter
    <3>2. CASE Acquire(w)
      BY <3>2 DEF Acquire, Enter
    <3>3. CASE Finish(w)
      BY <3>3 DEF Finish
    <3>4. CASE CancelIdle(w) \/ CancelLockWait(w)
      BY <3>4 DEF CancelIdle, CancelLockWait
    <3>5. QED
      BY <1>9, <3>1, <3>2, <3>3, <3>4
  <2>4. wpc[w] # "marked"
    BY <1>9 DEF Take, Acquire, Finish, CancelIdle, CancelLockWait
  <2>5. \A v \in Tasks : \/ wpc'[v] # "marked"
                         \/ wpc'[v] = wpc[v] /\ wrun'[v] = wrun[v]
    BY <2>2, <2>3, <2>4
  <2>6. QED
    BY <2>1, <2>5, SilentKeepsLog
<1>10. ASSUME NEW r \in Runs, Submit(r) \/ Enqueue(r) PROVE LogInv'
  <2>1. StartWorkers /\ UNCHANGED <<log, status, wrun>>
    BY <1>10 DEF Submit, Enqueue, EnqueueRun
  <2>2. QED
    BY <2>1, StartingLetsNobodyIn, SilentKeepsLog DEF EndInv
<1>11. CASE UNCHANGED <<log, status, wpc, wrun>>
  BY <1>11, SilentKeepsLog
<1>12. ASSUME NEW r \in Runs, CreateRun(r) \/ PoolStart(r) \/ PoolEnd(r)
       PROVE  UNCHANGED <<log, status, wpc, wrun>>
  BY <1>12 DEF CreateRun, PoolStart, PoolEnd
<1>13. ASSUME NEW c \in Waiters, WaitStart(c) \/ WaitEnd(c) \/ WaitTimeout(c)
       PROVE  UNCHANGED <<log, status, wpc, wrun>>
  BY <1>13 DEF WaitStart, WaitEnd, WaitTimeout
<1>14. ASSUME Shutdown \/ Gathered \/ Drained \/ UNCHANGED vars
       PROVE  UNCHANGED <<log, status, wpc, wrun>>
  BY <1>14 DEF Shutdown, Gathered, Drained, vars
<1>15. QED
  BY <1>2, <1>3, <1>4, <1>5, <1>6, <1>7, <1>8, <1>9, <1>10, <1>11, <1>12,
     <1>13, <1>14
  DEF Next, Submitters, WorkerStep, PoolThreads, Cancellers, WaiterCalls, Rest

(* The state events of a run tell its status: one start, first, and one end *)
(* that comes last, whoever emits them, as long as cancel is called on the   *)
(* loop only.                                                               *)
THEOREM EventsAgree ==
    ASSUME ThreadCancels = {}
    PROVE  Spec => []EventsTellStatus
<1>1. Init => EndInv /\ LogInv
  BY EndInvInit DEF Init, LogInv, Tells, Terminal
<1>2. EndInv /\ LogInv /\ [Next]_vars => EndInv' /\ LogInv'
  BY EndInvStep, LogStep
<1>3. LogInv => EventsTellStatus
  BY DEF LogInv, Tells, EventsTellStatus
<1>4. QED
  BY <1>1, <1>2, <1>3, PTL DEF Spec

-----------------------------------------------------------------------------
(* In which order runs are executed *)

(* How many runs have been taken from the queue. *)
TakenCount == Len(order) - Len(queue)

(* What is in the queue are the runs put on it last, in that order; the     *)
(* others are those that the tasks have in hand or had.                     *)
OrderInv ==
    /\ TakenCount \in Nat
    /\ \A i \in 1 .. Len(queue) : queue[i] = order[TakenCount + i]
    /\ \A i, j \in 1 .. Len(order) : order[i] = order[j] => i = j
    /\ \A i \in 1 .. Len(order) : Submitted(order[i])
    /\ \A w \in Tasks : wrun[w] # NoRun => \E p \in 1 .. TakenCount : order[p] = wrun[w]

(* r was put on the queue before s. *)
Before(r, s) == \A a, b \in 1 .. Len(order) : order[a] = r /\ order[b] = s => a < b

(* The tasks in line for a lock are those that say so, in the order of their runs. *)
LineInv ==
    /\ \A w \in Tasks : wpc[w] = "lock" =>
          /\ lock_key[wrun[w]] \in Keys
          /\ \E p \in 1 .. Len(waiting[lock_key[wrun[w]]]) :
                waiting[lock_key[wrun[w]]][p] = w
    /\ \A k \in Keys : \A p \in 1 .. Len(waiting[k]) :
          wpc[waiting[k][p]] = "lock" /\ lock_key[wrun[waiting[k][p]]] = k
    /\ \A k \in Keys : \A p, q \in 1 .. Len(waiting[k]) :
          p < q => Before(wrun[waiting[k][p]], wrun[waiting[k][q]])

(* A task has a run in hand only on the way to, or inside, its lock, and    *)
(* the run is PENDING only up to the status check.                          *)
HandsInv ==
    /\ \A w \in Tasks : wrun[w] # NoRun => wpc[w] = "lock" \/ Inside(w)
    /\ \A w \in Tasks : Inside(w) /\ wpc[w] # "checked" => status[wrun[w]] # "PENDING"
    /\ \A r \in Runs : handler[r] # "idle" => status[r] # "PENDING" /\ Submitted(r)

InPlace(r) == \/ \E i \in 1 .. Len(queue) : queue[i] = r
              \/ \E w \in Tasks : wrun[w] = r

(* A run that is PENDING is in the store, and somewhere. *)
PendingInv ==
    /\ \A r \in Runs : spc[r] # "new" /\ status[r] = "PENDING" => r \in stored
    /\ \A r \in Runs : Submitted(r) /\ status[r] = "PENDING" => InPlace(r)

(* While a run is PENDING no later run with its key has got into the lock. *)
FifoInv ==
    \A i, j \in 1 .. Len(order) :
        i < j /\ Conflict(order[i], order[j]) /\ status[order[i]] = "PENDING" =>
            /\ handler[order[j]] = "idle"
            /\ \A w \in Tasks : wrun[w] = order[j] => wpc[w] = "lock"

UpInv == /\ cancel_req = {}
         /\ OrderInv /\ LineInv /\ HandsInv /\ PendingInv /\ FifoInv

-----------------------------------------------------------------------------
(* What most steps do *)

(* No run becomes PENDING again, and none is taken back from the executor. *)
Onwards == \A r \in Runs : /\ status'[r] = "PENDING" => status[r] = "PENDING"
                           /\ Submitted(r) => Submitted(r)'

(* Tasks stay in line or out of it, and take no run. *)
LinesStand == \A w \in Tasks : /\ wrun'[w] \in {wrun[w], NoRun}
                               /\ wpc'[w] = "lock" <=> wpc[w] = "lock"
                               /\ wpc[w] = "lock" => wrun'[w] = wrun[w]

LEMMA OrderKept ==
    ASSUME TypeOK, OrderInv, UNCHANGED <<queue, order>>, Onwards,
           \A w \in Tasks : wrun'[w] \in {wrun[w], NoRun}
    PROVE  OrderInv'
<1>1. TakenCount' = TakenCount
  BY DEF TakenCount
<1>2. \A i \in 1 .. Len(order) : order[i] \in Runs
  BY DEF TypeOK
<1>3. QED
  BY <1>1, <1>2, ConfigAssumption DEF OrderInv, Onwards

LEMMA LinesKept ==
    ASSUME LineInv, UNCHANGED <<waiting, order>>, LinesStand,
           waiting \in [Keys -> Seq(Tasks)]
    PROVE  LineInv'
<1>1. \A k \in Keys : \A p \in 1 .. Len(waiting[k]) : waiting[k][p] \in Tasks
  OBVIOUS
<1>2. \A w \in Tasks : wpc'[w] = "lock" =>
          /\ wpc[w] = "lock" /\ wrun'[w] = wrun[w]
          /\ lock_key[wrun[w]] \in Keys
          /\ \E p \in 1 .. Len(waiting[lock_key[wrun[w]]]) :
                waiting[lock_key[wrun[w]]][p] = w
  BY DEF LineInv, LinesStand
<1>3. \A k \in Keys : \A p \in 1 .. Len(waiting[k]) :
          /\ wpc'[waiting[k][p]] = "lock"
          /\ wrun'[waiting[k][p]] = wrun[waiting[k][p]]
          /\ lock_key[wrun[waiting[k][p]]] = k
  BY <1>1 DEF LineInv, LinesStand
<1>4. \A k \in Keys : \A p, q \in 1 .. Len(waiting[k]) :
          p < q => Before(wrun[waiting[k][p]], wrun[waiting[k][q]])'
  <2> SUFFICES ASSUME NEW k \in Keys, NEW p \in 1 .. Len(waiting[k]),
                      NEW q \in 1 .. Len(waiting[k]), p < q
               PROVE  Before(wrun[waiting[k][p]], wrun[waiting[k][q]])'
    OBVIOUS
  <2>1. Before(wrun[waiting[k][p]], wrun[waiting[k][q]])
    BY DEF LineInv
  <2>2. /\ wrun'[waiting[k][p]] = wrun[waiting[k][p]]
        /\ wrun'[waiting[k][q]] = wrun[waiting[k][q]]
    BY <1>3
  <2>3. QED
    BY <2>1, <2>2 DEF Before
<1>5. QED
  BY <1>2, <1>3, <1>4 DEF LineInv

LEMMA HandsKept ==
    ASSUME HandsInv, PlaceInv, Onwards,
           \A w \in Tasks :
              \/ wrun'[w] = NoRun /\ ~Inside(w)'
              \/ wpc'[w] = "lock"
              \/ wpc'[w] = "checked"
              \/ /\ Inside(w)' /\ wrun'[w] \in Runs
                 /\ \/ status'[wrun'[w]] # "PENDING"
                    \/ Inside(w) /\ wpc[w] # "checked" /\ wrun'[w] = wrun[w],
           \A r \in Runs : handler'[r] # "idle" =>
              \/ handler[r] # "idle"
              \/ \E w \in Tasks : Inside(w) /\ wpc[w] # "checked" /\ wrun[w] = r
    PROVE  HandsInv'
<1>1. \A w \in Tasks : wrun'[w] # NoRun => wpc'[w] = "lock" \/ Inside(w)'
  BY DEF Inside, InLoop
<1>2. \A w \in Tasks : Inside(w)' /\ wpc'[w] # "checked" => status'[wrun'[w]] # "PENDING"
  BY DEF HandsInv, Onwards, Inside, InLoop
<1>3. ASSUME NEW r \in Runs, handler'[r] # "idle"
      PROVE  status'[r] # "PENDING" /\ Submitted(r)'
  <2>1. CASE handler[r] # "idle"
    BY <2>1 DEF HandsInv, Onwards
  <2>2. CASE \E w \in Tasks : Inside(w) /\ wpc[w] # "checked" /\ wrun[w] = r
    BY <2>2, ConfigAssumption
    DEF HandsInv, Onwards, Inside, InLoop, PlaceInv, HandedOver
  <2>3. QED
    BY <1>3, <2>1, <2>2
<1>4. QED
  BY <1>1, <1>2, <1>3 DEF HandsInv

(* A run that some task gave up was not PENDING any more. *)
LEMMA PendingKept ==
    ASSUME PendingInv, Onwards,
           UNCHANGED <<queue, spc>>,
           \A r \in stored \ stored' : status'[r] # "PENDING",
           \A w \in Tasks : \/ wrun'[w] = wrun[w]
                            \/ wrun[w] \in Runs => status'[wrun[w]] # "PENDING"
    PROVE  PendingInv'
<1>1. \A r \in Runs : spc'[r] # "new" /\ status'[r] = "PENDING" => r \in stored'
  BY DEF PendingInv, Onwards
<1>2. ASSUME NEW r \in Runs, Submitted(r)', status'[r] = "PENDING"
      PROVE  InPlace(r)'
  <2>1. InPlace(r)
    BY <1>2 DEF PendingInv, Onwards, Submitted
  <2>2. QED
    BY <1>2, <2>1 DEF InPlace
<1>3. QED
  BY <1>1, <1>2 DEF PendingInv

LEMMA FifoKept ==
    ASSUME TypeOK, FifoInv, UNCHANGED order, Onwards,
           \A w \in Tasks : wrun'[w] \in Runs /\ wpc'[w] # "lock" =>
              wrun[w] = wrun'[w] /\ wpc[w] # "lock",
           \A r \in Runs : handler'[r] # "idle" =>
              \/ handler[r] # "idle"
              \/ \E w \in Tasks : wpc[w] # "lock" /\ wrun[w] = r
    PROVE  FifoInv'
<1>1. \A i \in 1 .. Len(order) : order[i] \in Runs
  BY DEF TypeOK
<1>2. QED
  BY <1>1 DEF FifoInv, Onwards, Conflict

-----------------------------------------------------------------------------
(* Putting a run on the queue *)

(* What Submit and Enqueue do, as far as the order of runs goes. *)
PutsOn(r) ==
    /\ r \in Runs /\ ~Submitted(r) /\ EnqueueRun(r)
    /\ UNCHANGED <<status, wrun, waiting, handler>>
    /\ stored \subseteq stored' /\ (status[r] = "PENDING" => r \in stored')

LEMMA Appended ==
    ASSUME TypeOK, OrderInv, NEW r, PutsOn(r)
    PROVE  /\ Len(order') = Len(order) + 1 /\ order'[Len(order) + 1] = r
           /\ Len(queue') = Len(queue) + 1 /\ queue'[Len(queue) + 1] = r
           /\ Len(queue) \in Nat /\ Len(order) \in Nat
           /\ \A i \in 1 .. Len(order) : order'[i] = order[i] /\ order[i] \in Runs
                                         /\ order[i] # r
           /\ \A i \in 1 .. Len(queue) : queue'[i] = queue[i]
           /\ \A s \in Runs : Submitted(s)' <=> Submitted(s) \/ s = r
           /\ TakenCount' = TakenCount
<1>1. /\ queue \in Seq(Runs) /\ order \in Seq(Runs) /\ r \in Runs
      /\ queue' = Append(queue, r) /\ order' = Append(order, r)
  BY DEF TypeOK, PutsOn, EnqueueRun
<1>2. /\ Len(order') = Len(order) + 1 /\ order'[Len(order) + 1] = r
      /\ Len(queue') = Len(queue) + 1 /\ queue'[Len(queue) + 1] = r
      /\ Len(queue) \in Nat /\ Len(order) \in Nat
      /\ \A i \in 1 .. Len(order) : order'[i] = order[i] /\ order[i] \in Runs
      /\ \A i \in 1 .. Len(queue) : queue'[i] = queue[i]
  BY <1>1
<1>3. \A i \in 1 .. Len(order) : order[i] # r
  BY DEF OrderInv, PutsOn
<1>4. \A s \in Runs : Submitted(s)' <=> Submitted(s) \/ s = r
  <2>1. spc \in [Runs -> {"new", "created", "submitted"}]
        /\ spc' = [spc EXCEPT ![r] = "submitted"]
    BY DEF TypeOK, PutsOn, EnqueueRun
  <2>2. QED
    BY <2>1, <1>1 DEF Submitted
<1>5. TakenCount' = TakenCount
  BY <1>2 DEF TakenCount
<1>6. QED
  BY <1>2, <1>3, <1>4, <1>5

LEMMA PutKeepsOrder ==
    ASSUME TypeOK, OrderInv, NEW r, PutsOn(r)
    PROVE  OrderInv'
<1>1. /\ Len(order') = Len(order) + 1 /\ order'[Len(order) + 1] = r
      /\ Len(queue') = Len(queue) + 1 /\ queue'[Len(queue) + 1] = r
      /\ Len(queue) \in Nat /\ Len(order) \in Nat
      /\ \A i \in 1 .. Len(order) : order'[i] = order[i] /\ order[i] \in Runs
                                    /\ order[i] # r
      /\ \A i \in 1 .. Len(queue) : queue'[i] = queue[i]
      /\ \A s \in Runs : Submitted(s)' <=> Submitted(s) \/ s = r
      /\ TakenCount' = TakenCount
  BY Appended
<1>2. TakenCount \in Nat /\ Len(order) = TakenCount + Len(queue)
  BY <1>1 DEF OrderInv, TakenCount
<1> HIDE DEF TakenCount
<1>3. \A i \in 1 .. Len(queue') : queue'[i] = order'[TakenCount' + i]
  <2> SUFFICES ASSUME NEW i \in 1 .. Len(queue')
               PROVE  queue'[i] = order'[TakenCount + i]
    BY <1>1
  <2>1. CASE i = Len(queue) + 1
    BY <1>1, <1>2, <2>1
  <2>2. CASE i # Len(queue) + 1
    <3>1. i \in 1 .. Len(queue) /\ TakenCount + i \in 1 .. Len(order)
      BY <1>1, <1>2, <2>2
    <3>2. QED
      BY <1>1, <3>1 DEF OrderInv
  <2>3. QED
    BY <2>1, <2>2
<1>4. \A i, j \in 1 .. Len(order') : order'[i] = order'[j] => i = j
  <2>1. \A i \in 1 .. Len(order') : \/ i = Len(order) + 1 /\ order'[i] = r
                                    \/ /\ i \in 1 .. Len(order)
                                       /\ order'[i] = order[i] /\ order[i] # r
    BY <1>1
  <2>2. QED
    BY <2>1 DEF OrderInv
<1>5. \A i \in 1 .. Len(order') : Submitted(order[i])'
  <2> SUFFICES ASSUME NEW i \in 1 .. Len(order')
               PROVE  Submitted(order[i])'
    OBVIOUS
  <2>1. order'[i] \in Runs /\ (order'[i] = r \/ Submitted(order'[i]))
    BY <1>1 DEF OrderInv, PutsOn
  <2>2. QED
    BY <1>1, <2>1 DEF Submitted
<1>6. \A w \in Tasks : wrun'[w] # NoRun => \E p \in 1 .. TakenCount' : order'[p] = wrun'[w]
  <2> SUFFICES ASSUME NEW w \in Tasks, wrun[w] # NoRun
               PROVE  \E p \in 1 .. TakenCount : order'[p] = wrun[w]
    BY <1>1 DEF PutsOn
  <2>1. PICK p \in 1 .. TakenCount : order[p] = wrun[w]
    BY DEF OrderInv
  <2>2. p \in 1 .. Len(order)
    BY <1>1, <1>2
  <2>3. QED
    BY <1>1, <2>1, <2>2
<1>7. QED
  BY <1>1, <1>2, <1>3, <1>4, <1>5, <1>6 DEF OrderInv

LEMMA StartingKeepsLines ==
    ASSUME TypeOK, StartWorkers
    PROVE  \A w \in Tasks : \/ wpc'[w] = wpc[w]
                            \/ wpc[w] = "unborn" /\ wpc'[w] = "idle"
<1>1. CASE pool # {}
  BY <1>1 DEF StartWorkers
<1>2. CASE pool = {}
  BY <1>2 DEF StartWorkers
<1>3. QED
  BY <1>1, <1>2

LEMMA PutKeepsLines ==
    ASSUME TypeOK, LockInv, PlaceInv, OrderInv, LineInv, NEW r, PutsOn(r)
    PROVE  LineInv'
<1>1. /\ Len(order') = Len(order) + 1 /\ order'[Len(order) + 1] = r
      /\ Len(order) \in Nat
      /\ \A i \in 1 .. Len(order) : order'[i] = order[i]
      /\ Len(queue) \in Nat
  BY Appended
<1>2. \A w \in Tasks : wpc'[w] = "lock" <=> wpc[w] = "lock"
  BY StartingKeepsLines DEF PutsOn, EnqueueRun
<1>3. UNCHANGED <<wrun, waiting>>
  BY DEF PutsOn
<1>4. ASSUME NEW s, NEW t, Before(s, t), s # r, t # r PROVE Before(s, t)'
  BY <1>1, <1>4 DEF Before
<1>5. \A w \in Tasks : wpc[w] = "lock" => wrun[w] # r
  BY ConfigAssumption DEF LockInv, HasRun, PlaceInv, HandedOver, PutsOn
<1>6. QED
  BY <1>2, <1>3, <1>4, <1>5 DEF LineInv, TypeOK

LEMMA PutKeepsHands ==
    ASSUME TypeOK, OrderInv, HandsInv, NEW r, PutsOn(r)
    PROVE  HandsInv'
<1>1. \A w \in Tasks : \/ wpc'[w] = wpc[w]
                       \/ wpc[w] = "unborn" /\ wpc'[w] = "idle"
  BY StartingKeepsLines DEF PutsOn, EnqueueRun
<1>2. /\ UNCHANGED <<status, wrun, handler>>
      /\ \A s \in Runs : Submitted(s) => Submitted(s)'
  BY Appended DEF PutsOn
<1>3. QED
  BY <1>1, <1>2 DEF HandsInv, Inside, InLoop

LEMMA PutKeepsPending ==
    ASSUME TypeOK, OrderInv, PendingInv, NEW r, PutsOn(r)
    PROVE  PendingInv'
<1>1. /\ Len(queue') = Len(queue) + 1 /\ queue'[Len(queue) + 1] = r
      /\ Len(queue) \in Nat
      /\ \A i \in 1 .. Len(queue) : queue'[i] = queue[i]
      /\ \A s \in Runs : Submitted(s)' <=> Submitted(s) \/ s = r
  BY Appended
<1>2. UNCHANGED <<status, wrun>> /\ r \in Runs
  BY DEF PutsOn
<1>3. \A s \in Runs : spc'[s] # "new" /\ status'[s] = "PENDING" => s \in stored'
  BY DEF PutsOn, EnqueueRun, PendingInv, TypeOK
<1>4. ASSUME NEW s \in Runs, Submitted(s)', status'[s] = "PENDING"
      PROVE  InPlace(s)'
  <2>1. CASE s = r
    <3>1. Len(queue) + 1 \in 1 .. Len(queue')
      BY <1>1
    <3>2. QED
      BY <1>1, <2>1, <3>1 DEF InPlace
  <2>2. CASE s # r
    <3>1. InPlace(s)
      BY <1>1, <1>2, <1>4, <2>2 DEF PendingInv
    <3>2. QED
      BY <1>1, <1>2, <3>1 DEF InPlace
  <2>3. QED
    BY <2>1, <2>2
<1>5. QED
  BY <1>3, <1>4 DEF PendingInv

LEMMA PutKeepsFifo ==
    ASSUME TypeOK, PlaceInv, OrderInv, HandsInv, FifoInv, NEW r, PutsOn(r)
    PROVE  FifoInv'
<1>1. /\ Len(order') = Len(order) + 1 /\ order'[Len(order) + 1] = r
      /\ Len(order) \in Nat
      /\ \A i \in 1 .. Len(order) : order'[i] = order[i]
  BY Appended
<1>2. UNCHANGED <<status, wrun, handler>> /\ r \in Runs /\ ~Submitted(r)
  BY DEF PutsOn
<1>3. handler[r] = "idle" /\ \A w \in Tasks : wrun[w] # r
  BY <1>2, ConfigAssumption DEF HandsInv, PlaceInv, HandedOver
<1>4. \A w \in Tasks : wpc[w] = "lock" => wpc'[w] = "lock"
  BY StartingKeepsLines DEF PutsOn, EnqueueRun
<1>5. SUFFICES ASSUME NEW i \in 1 .. Len(order'), NEW j \in 1 .. Len(order'), i < j,
                      Conflict(order'[i], order'[j]), status[order'[i]] = "PENDING"
               PROVE  /\ handler[order'[j]] = "idle"
                      /\ \A w \in Tasks : wrun[w] = order'[j] => wpc'[w] = "lock"
  BY <1>2 DEF FifoInv, Conflict
<1>6. CASE j = Len(order) + 1
  BY <1>1, <1>3, <1>6
<1>7. CASE j # Len(order) + 1
  <2>1. /\ i \in 1 .. Len(order) /\ j \in 1 .. Len(order)
        /\ order'[i] = order[i] /\ order'[j] = order[j]
    BY <1>1, <1>5, <1>7
  <2>2. QED
    BY <1>4, <1>5, <2>1 DEF FifoInv
<1>8. QED
  BY <1>6, <1>7

-----------------------------------------------------------------------------
(* Getting into the lock *)

(* Nobody with the key k overtakes a run that is PENDING: it would have to  *)
(* be in the queue, where it is later, in line, where it is later too, or   *)
(* inside, where its task would own the lock.                               *)
LEMMA NobodyIsPassed ==
    ASSUME TypeOK, LockInv, OrderInv, LineInv, HandsInv, PendingInv,
           NEW j \in 1 .. Len(order), j <= TakenCount + 1,
           lock_key[order[j]] # NoKey => holder[lock_key[order[j]]] = NoTask,
           \A p \in 1 .. Len(waiting[lock_key[order[j]]]), i \in 1 .. Len(order) :
               lock_key[order[j]] # NoKey /\ i < j
                   => order[i] # wrun[waiting[lock_key[order[j]]][p]]
    PROVE  \A i \in 1 .. Len(order) :
               i < j /\ Conflict(order[i], order[j]) => status[order[i]] # "PENDING"
<1> SUFFICES ASSUME NEW i \in 1 .. Len(order), i < j, Conflict(order[i], order[j]),
                    status[order[i]] = "PENDING"
             PROVE  FALSE
  OBVIOUS
<1> DEFINE r == order[i]
           k == lock_key[order[j]]
<1>1. r \in Runs /\ k # NoKey /\ lock_key[r] = k
  BY DEF TypeOK, Conflict
<1>2. k \in Keys
  BY <1>1, ConfigAssumption
<1>3. InPlace(r)
  BY <1>1 DEF PendingInv, OrderInv
<1>4. ASSUME NEW m \in 1 .. Len(queue), queue[m] = r PROVE FALSE
  <2>1. TakenCount \in Nat /\ Len(queue) \in Nat /\ Len(order) = TakenCount + Len(queue)
    BY DEF OrderInv, TakenCount, TypeOK
  <2>2. queue[m] = order[TakenCount + m]
    BY DEF OrderInv
  <2>3. TakenCount + m \in 1 .. Len(order)
    BY <2>1
  <2>4. i = TakenCount + m
    BY <1>4, <2>2, <2>3 DEF OrderInv
  <2>5. QED
    BY <2>1, <2>4
<1>5. ASSUME NEW v \in Tasks, wrun[v] = r PROVE FALSE
  <2>1. wpc[v] = "lock" \/ Inside(v)
    BY <1>1, <1>5, ConfigAssumption DEF HandsInv
  <2>2. CASE wpc[v] = "lock"
    <3>1. PICK p \in 1 .. Len(waiting[k]) : waiting[k][p] = v
      BY <1>1, <1>5, <2>2 DEF LineInv
    <3>2. order[i] # wrun[waiting[k][p]]
      BY <1>1
    <3>3. QED
      BY <1>5, <3>1, <3>2
  <2>3. CASE Inside(v)
    <3>1. holder[k] = v
      BY <1>1, <1>5, <2>3 DEF LockInv, OwnsLock
    <3>2. QED
      BY <1>1, <3>1, ConfigAssumption
  <2>4. QED
    BY <2>1, <2>2, <2>3
<1>6. QED
  BY <1>3, <1>4, <1>5 DEF InPlace

LEMMA EnterKeepsFifo ==
    ASSUME TypeOK, OrderInv, FifoInv, NEW w \in Tasks,
           NEW j \in 1 .. Len(order), Enter(w, order[j]),
           UNCHANGED <<order, status, handler>>,
           \A i \in 1 .. Len(order) :
               i < j /\ Conflict(order[i], order[j]) => status[order[i]] # "PENDING"
    PROVE  FifoInv'
<1>1. \A v \in Tasks \ {w} : wrun'[v] = wrun[v] /\ wpc'[v] = wpc[v]
  BY DEF Enter, TypeOK
<1>2. wrun'[w] \in {NoRun, order[j]}
  BY DEF Enter, TypeOK
<1>3. \A i \in 1 .. Len(order) : order[i] \in Runs
  BY DEF TypeOK
<1>4. SUFFICES ASSUME NEW a \in 1 .. Len(order), NEW b \in 1 .. Len(order), a < b,
                      Conflict(order[a], order[b]), status[order[a]] = "PENDING"
               PROVE  /\ handler[order[b]] = "idle"
                      /\ \A v \in Tasks : wrun'[v] = order[b] => wpc'[v] = "lock"
  BY DEF FifoInv, Conflict
<1>5. b # j
  BY <1>4
<1>6. order[b] # order[j]
  BY <1>5 DEF OrderInv
<1>7. wrun'[w] # order[b]
  BY <1>2, <1>3, <1>6, ConfigAssumption
<1>8. QED
  BY <1>1, <1>4, <1>7 DEF FifoInv

-----------------------------------------------------------------------------
(* Taking a run from the queue *)

LEMMA Taken ==
    ASSUME TypeOK, OrderInv, NEW w \in Tasks, Take(w)
    PROVE  /\ UNCHANGED <<order, status, handler, spc, stored>>
           /\ wpc[w] = "idle"
           /\ Head(queue) = queue[1] /\ Head(queue) \in Runs
           /\ Len(queue) \in Nat \ {0} /\ Len(order) \in Nat
           /\ Len(queue') = Len(queue) - 1
           /\ \A i \in 1 .. Len(queue') : queue'[i] = queue[i + 1]
           /\ TakenCount' = TakenCount + 1
           /\ TakenCount + 1 \in 1 .. Len(order)
           /\ order[TakenCount + 1] = Head(queue)
<1>1. /\ queue \in Seq(Runs) /\ order \in Seq(Runs)
      /\ queue # <<>> /\ queue' = Tail(queue) /\ UNCHANGED order
  BY DEF TypeOK, Take
<1>2. /\ Head(queue) = queue[1] /\ Head(queue) \in Runs
      /\ Len(queue) \in Nat \ {0} /\ Len(order) \in Nat
      /\ Len(queue') = Len(queue) - 1
      /\ \A i \in 1 .. Len(queue') : queue'[i] = queue[i + 1]
  BY <1>1
<1>3. UNCHANGED <<status, handler, spc, stored>> /\ wpc[w] = "idle"
  BY DEF Take, runVars, poolVars, clientVars, storeVars
<1>4. TakenCount' = TakenCount + 1
  BY <1>1, <1>2 DEF TakenCount
<1>5. TakenCount + 1 \in 1 .. Len(order)
  BY <1>2 DEF TakenCount, OrderInv
<1>6. order[TakenCount + 1] = queue[1]
  <2>1. 1 \in 1 .. Len(queue)
    BY <1>2
  <2>2. QED
    BY <2>1 DEF OrderInv
<1>7. QED
  BY <1>1, <1>2, <1>3, <1>4, <1>5, <1>6

(* The three things that can become of it. *)
LEMMA TakeOutcome ==
    ASSUME TypeOK, OrderInv, NEW w \in Tasks, Take(w)
    PROVE  /\ \A v \in Tasks \ {w} : wrun'[v] = wrun[v] /\ wpc'[v] = wpc[v]
           /\ \/ /\ Head(queue) \notin stored
                 /\ UNCHANGED <<wpc, wrun, waiting>>
              \/ /\ wrun'[w] = NoRun /\ wpc'[w] = "idle"
                 /\ status[Head(queue)] = "CANCELLED" /\ UNCHANGED waiting
              \/ /\ wrun'[w] = Head(queue) /\ wpc'[w] = "checked"
                 /\ UNCHANGED waiting
              \/ /\ wrun'[w] = Head(queue) /\ wpc'[w] = "lock"
                 /\ lock_key[Head(queue)] \in Keys
                 /\ waiting' = [waiting EXCEPT ![lock_key[Head(queue)]] = Append(@, w)]
<1>1. Head(queue) \in Runs
  BY Taken
<1>2. CASE Head(queue) \notin stored /\ UNCHANGED <<taskVars, lockVars>>
  BY <1>2 DEF taskVars, lockVars
<1>3. CASE Enter(w, Head(queue)) /\ UNCHANGED waiting
  BY <1>3 DEF Enter, TypeOK
<1>4. CASE /\ ~Free(lock_key[Head(queue)])
           /\ wpc' = [wpc EXCEPT ![w] = "lock"]
           /\ wrun' = [wrun EXCEPT ![w] = Head(queue)]
           /\ waiting' = [waiting EXCEPT ![lock_key[Head(queue)]] = Append(@, w)]
  <2>1. lock_key[Head(queue)] \in Keys
    BY <1>1, <1>4, ConfigAssumption DEF Free
  <2>2. QED
    BY <1>4, <2>1 DEF TypeOK
<1>5. QED
  BY <1>2, <1>3, <1>4 DEF Take

LEMMA TakeKeepsOrder ==
    ASSUME TypeOK, OrderInv, NEW w \in Tasks, Take(w)
    PROVE  OrderInv'
<1>1. /\ UNCHANGED <<order, spc>>
      /\ Len(queue) \in Nat \ {0} /\ Len(order) \in Nat
      /\ Len(queue') = Len(queue) - 1
      /\ \A i \in 1 .. Len(queue') : queue'[i] = queue[i + 1]
      /\ TakenCount' = TakenCount + 1
      /\ TakenCount + 1 \in 1 .. Len(order)
      /\ order[TakenCount + 1] = Head(queue)
  BY Taken
<1>2. \A v \in Tasks : wrun'[v] \in {wrun[v], NoRun, Head(queue)}
  BY TakeOutcome
<1>3. TakenCount \in Nat
  BY DEF OrderInv
<1> HIDE DEF TakenCount
<1>4. \A i \in 1 .. Len(queue') : queue'[i] = order[TakenCount' + i]
  <2> SUFFICES ASSUME NEW i \in 1 .. Len(queue')
               PROVE  queue[i + 1] = order[TakenCount + (i + 1)]
    BY <1>1, <1>3
  <2>1. i + 1 \in 1 .. Len(queue)
    BY <1>1
  <2>2. QED
    BY <2>1 DEF OrderInv
<1>5. \A v \in Tasks : wrun'[v] # NoRun => \E p \in 1 .. TakenCount' : order[p] = wrun'[v]
  <2> SUFFICES ASSUME NEW v \in Tasks, wrun'[v] # NoRun
               PROVE  \E p \in 1 .. TakenCount + 1 : order[p] = wrun'[v]
    BY <1>1
  <2>1. CASE wrun'[v] = wrun[v]
    <3>1. PICK p \in 1 .. TakenCount : order[p] = wrun[v]
      BY <2>1 DEF OrderInv
    <3>2. p \in 1 .. TakenCount + 1
      BY <1>3
    <3>3. QED
      BY <2>1, <3>1, <3>2
  <2>2. CASE wrun'[v] = Head(queue)
    <3>1. TakenCount + 1 \in 1 .. TakenCount + 1
      BY <1>3
    <3>2. QED
      BY <1>1, <2>2, <3>1
  <2>3. QED
    BY <1>2, <2>1, <2>2
<1>6. QED
  BY <1>1, <1>3, <1>4, <1>5 DEF OrderInv, Submitted

LEMMA TakeKeepsHands ==
    ASSUME TypeOK, PlaceInv, OrderInv, HandsInv, NEW w \in Tasks, Take(w)
    PROVE  HandsInv'
<1>1. UNCHANGED <<status, handler, spc>> /\ wpc[w] = "idle"
  BY Taken
<1>2. /\ \A v \in Tasks \ {w} : wrun'[v] = wrun[v] /\ wpc'[v] = wpc[v]
      /\ wpc'[w] \in {"idle", "checked", "lock"}
      /\ wpc'[w] = "idle" => wrun'[w] \in {wrun[w], NoRun}
  BY <1>1, TakeOutcome
<1>3. wrun[w] = NoRun
  BY <1>1 DEF HandsInv, Inside, InLoop
<1>4. QED
  BY <1>1, <1>2, <1>3 DEF HandsInv, Inside, InLoop, Submitted

LEMMA TakeKeepsPending ==
    ASSUME TypeOK, OrderInv, HandsInv, PendingInv, NEW w \in Tasks, Take(w)
    PROVE  PendingInv'
<1>1. /\ UNCHANGED <<order, status, spc, stored>> /\ wpc[w] = "idle"
      /\ Head(queue) = queue[1] /\ Head(queue) \in Runs
      /\ Len(queue) \in Nat \ {0}
      /\ Len(queue') = Len(queue) - 1
      /\ \A i \in 1 .. Len(queue') : queue'[i] = queue[i + 1]
      /\ TakenCount + 1 \in 1 .. Len(order)
      /\ order[TakenCount + 1] = Head(queue)
  BY Taken
<1>2. /\ \A v \in Tasks \ {w} : wrun'[v] = wrun[v]
      /\ \/ Head(queue) \notin stored
         \/ status[Head(queue)] = "CANCELLED"
         \/ wrun'[w] = Head(queue)
  BY TakeOutcome
<1>3. wrun[w] = NoRun
  BY <1>1 DEF HandsInv, Inside, InLoop
<1>4. Submitted(Head(queue))
  BY <1>1 DEF OrderInv
<1>5. status[Head(queue)] = "PENDING" => \E v \in Tasks : wrun'[v] = Head(queue)
  BY <1>1, <1>2, <1>4 DEF PendingInv, Submitted
<1>6. ASSUME NEW r \in Runs, Submitted(r), status[r] = "PENDING", r # Head(queue)
      PROVE  InPlace(r)'
  <2>1. InPlace(r)
    BY <1>6 DEF PendingInv
  <2>2. ASSUME NEW i \in 1 .. Len(queue), queue[i] = r PROVE InPlace(r)'
    <3>1. i # 1
      BY <1>1, <1>6, <2>2
    <3>2. i - 1 \in 1 .. Len(queue') /\ (i - 1) + 1 = i
      BY <1>1, <3>1
    <3>3. queue'[i - 1] = r
      BY <1>1, <2>2, <3>2
    <3>4. QED
      BY <3>2, <3>3 DEF InPlace
  <2>3. ASSUME NEW v \in Tasks, wrun[v] = r PROVE InPlace(r)'
    BY <1>2, <1>3, <2>3, ConfigAssumption DEF InPlace
  <2>4. QED
    BY <2>1, <2>2, <2>3 DEF InPlace
<1>7. QED
  BY <1>1, <1>5, <1>6 DEF PendingInv, InPlace, Submitted

LEMMA TakeKeepsLines ==
    ASSUME TypeOK, LockInv, OrderInv, LineInv, NEW w \in Tasks, Take(w)
    PROVE  LineInv'
<1> DEFINE r == Head(queue)
           k == lock_key[r]
<1>1. /\ UNCHANGED order /\ wpc[w] = "idle" /\ r \in Runs
      /\ TakenCount + 1 \in 1 .. Len(order) /\ order[TakenCount + 1] = r
  BY Taken
<1>2. \A v \in Tasks \ {w} : wrun'[v] = wrun[v] /\ wpc'[v] = wpc[v]
  BY TakeOutcome
<1>3. CASE UNCHANGED waiting /\ wpc'[w] # "lock"
  <2>1. /\ \A v \in Tasks : wpc'[v] = "lock" =>
              /\ wpc[v] = "lock" /\ wrun'[v] = wrun[v]
        /\ \A h \in Keys : \A p \in 1 .. Len(waiting[h]) :
              waiting[h][p] \in Tasks \ {w}
    <3>1. waiting \in [Keys -> Seq(Tasks)]
      BY DEF TypeOK
    <3>2. \A h \in Keys : \A p \in 1 .. Len(waiting[h]) : waiting[h][p] \in Tasks
      BY <3>1
    <3>3. \A h \in Keys : \A p \in 1 .. Len(waiting[h]) : wpc[waiting[h][p]] = "lock"
      BY DEF LineInv
    <3>4. QED
      BY <1>1, <1>2, <1>3, <3>2, <3>3
  <2>2. \A h \in Keys : \A p \in 1 .. Len(waiting[h]) :
           /\ wpc'[waiting[h][p]] = wpc[waiting[h][p]]
           /\ wrun'[waiting[h][p]] = wrun[waiting[h][p]]
    BY <1>2, <2>1
  <2>3. QED
    BY <1>1, <1>3, <2>1, <2>2 DEF LineInv, Before
<1>4. CASE /\ wrun'[w] = r /\ wpc'[w] = "lock" /\ k \in Keys
           /\ waiting' = [waiting EXCEPT ![k] = Append(@, w)]
  <2>1. /\ waiting \in [Keys -> Seq(Tasks)]
        /\ \A h \in Keys : waiting[h] \in Seq(Tasks)
    BY DEF TypeOK
  <2>2. \A h \in Keys :
           /\ Len(waiting[h]) \in Nat
           /\ Len(waiting'[h]) = IF h = k THEN Len(waiting[h]) + 1 ELSE Len(waiting[h])
           /\ \A p \in 1 .. Len(waiting[h]) :
                 waiting'[h][p] = waiting[h][p] /\ waiting[h][p] \in Tasks
    BY <1>4, <2>1
  <2>3. waiting'[k][Len(waiting[k]) + 1] = w
    BY <1>4, <2>1
  <2>4. \A h \in Keys : \A p \in 1 .. Len(waiting[h]) :
           LET v == waiting[h][p] IN
           /\ wpc[v] = "lock" /\ lock_key[wrun[v]] = h /\ v # w
           /\ wpc'[v] = "lock" /\ wrun'[v] = wrun[v] /\ wrun[v] \in Runs
    BY <1>1, <1>2, <2>2 DEF LineInv, LockInv, HasRun
  <2>5. \A h \in Keys : \A p \in 1 .. Len(waiting'[h]) :
           \/ p \in 1 .. Len(waiting[h])
           \/ h = k /\ p = Len(waiting[k]) + 1
    BY <2>2
  <2>6. \A v \in Tasks : wpc'[v] = "lock" =>
           /\ lock_key[wrun'[v]] \in Keys
           /\ \E p \in 1 .. Len(waiting'[lock_key[wrun'[v]]]) :
                 waiting'[lock_key[wrun'[v]]][p] = v
    <3> SUFFICES ASSUME NEW v \in Tasks, wpc'[v] = "lock"
                 PROVE  /\ lock_key[wrun'[v]] \in Keys
                        /\ \E p \in 1 .. Len(waiting'[lock_key[wrun'[v]]]) :
                              waiting'[lock_key[wrun'[v]]][p] = v
      OBVIOUS
    <3>1. CASE v = w
      <4>1. Len(waiting[k]) + 1 \in 1 .. Len(waiting'[k])
        BY <1>4, <2>2
      <4>2. QED
        BY <1>4, <2>3, <3>1, <4>1
    <3>2. CASE v # w
      <4> DEFINE h == lock_key[wrun[v]]
      <4>1. wpc[v] = "lock" /\ wrun'[v] = wrun[v] /\ h \in Keys
        BY <1>2, <3>2 DEF LineInv
      <4>2. PICK p \in 1 .. Len(waiting[h]) : waiting[h][p] = v
        BY <4>1 DEF LineInv
      <4>3. p \in 1 .. Len(waiting'[h]) /\ waiting'[h][p] = v
        BY <2>2, <4>1, <4>2
      <4>4. QED
        BY <4>1, <4>3
    <3>3. QED
      BY <3>1, <3>2
  <2>7. \A h \in Keys : \A p \in 1 .. Len(waiting'[h]) :
           wpc'[waiting'[h][p]] = "lock" /\ lock_key[wrun'[waiting'[h][p]]] = h
    BY <1>4, <2>2, <2>3, <2>4, <2>5
  <2>8. ASSUME NEW h \in Keys, NEW p \in 1 .. Len(waiting'[h]),
               NEW q \in 1 .. Len(waiting'[h]), p < q
        PROVE  Before(wrun'[waiting'[h][p]], wrun'[waiting'[h][q]])
    <3>1. p \in 1 .. Len(waiting[h])
      BY <2>2, <2>5, <2>8
    <3>2. /\ waiting'[h][p] = waiting[h][p]
          /\ wrun'[waiting'[h][p]] = wrun[waiting[h][p]]
      BY <2>2, <2>4, <3>1
    <3>3. CASE q \in 1 .. Len(waiting[h])
      <4>1. wrun'[waiting'[h][q]] = wrun[waiting[h][q]]
        BY <2>2, <2>4, <3>3
      <4>2. QED
        BY <2>8, <3>1, <3>2, <3>3, <4>1 DEF LineInv
    <3>4. CASE q \notin 1 .. Len(waiting[h])
      <4>1. wrun'[waiting'[h][q]] = r
        BY <1>4, <2>3, <2>5, <3>4
      <4>2. /\ waiting[h][p] \in Tasks
            /\ wrun[waiting[h][p]] # NoRun
        BY <2>2, <2>4, <3>1, ConfigAssumption
      <4>3. PICK a \in 1 .. TakenCount : order[a] = wrun[waiting[h][p]]
        BY <4>2 DEF OrderInv
      <4>4. a \in 1 .. Len(order) /\ a < TakenCount + 1
        BY <1>1 DEF OrderInv
      <4>5. Before(order[a], order[TakenCount + 1])
        BY <1>1, <4>4 DEF OrderInv, Before
      <4>6. QED
        BY <1>1, <3>2, <4>1, <4>3, <4>5
    <3>5. QED
      BY <3>3, <3>4
  <2>9. \A h \in Keys : \A p, q \in 1 .. Len(waiting'[h]) :
           p < q => Before(wrun[waiting[h][p]], wrun[waiting[h][q]])'
    BY <1>1, <2>8 DEF Before
  <2>10. QED
    BY <2>6, <2>7, <2>9 DEF LineInv
<1>5. CASE UNCHANGED <<wpc, wrun, waiting>>
  BY <1>1, <1>3, <1>5
<1>6. QED
  BY <1>1, <1>3, <1>4, <1>5, TakeOutcome

LEMMA TakeKeepsFifo ==
    ASSUME TypeOK, LockInv, UpInv, NEW w \in Tasks, Take(w)
    PROVE  FifoInv'
<1> DEFINE j == TakenCount + 1
<1>1. /\ UNCHANGED <<order, status, handler>> /\ wpc[w] = "idle"
      /\ j \in 1 .. Len(order) /\ order[j] = Head(queue) /\ Head(queue) \in Runs
  BY Taken DEF UpInv
<1>2. \A i \in 1 .. Len(order) : order[i] \in Runs
  BY DEF TypeOK
<1>3. CASE Free(lock_key[Head(queue)]) /\ Enter(w, Head(queue))
  <2>1. lock_key[order[j]] # NoKey =>
           holder[lock_key[order[j]]] = NoTask /\ waiting[lock_key[order[j]]] = <<>>
    BY <1>1, <1>3 DEF Free
  <2>2. \A p \in 1 .. Len(waiting[lock_key[order[j]]]), i \in 1 .. Len(order) :
           lock_key[order[j]] # NoKey /\ i < j
               => order[i] # wrun[waiting[lock_key[order[j]]][p]]
    BY <2>1
  <2>3. \A i \in 1 .. Len(order) :
           i < j /\ Conflict(order[i], order[j]) => status[order[i]] # "PENDING"
    <3>1. j <= TakenCount + 1
      BY <1>1
    <3> HIDE DEF j
    <3>2. QED
      BY <1>1, <2>1, <2>2, <3>1, NobodyIsPassed DEF UpInv
  <2>4. Enter(w, order[j])
    BY <1>1, <1>3
  <2> HIDE DEF j
  <2>5. QED
    BY <1>1, <2>3, <2>4, EnterKeepsFifo DEF UpInv
<1>4. CASE wpc'[w] = "lock" \/ UNCHANGED <<wpc, wrun>>
  <2>1. \A v \in Tasks : wpc'[v] # "lock" => wrun'[v] = wrun[v] /\ wpc'[v] = wpc[v]
    BY <1>4, TakeOutcome DEF UpInv
  <2>2. QED
    BY <1>1, <1>2, <2>1 DEF UpInv, FifoInv, Conflict
<1>5. QED
  <2>1. \/ Free(lock_key[Head(queue)]) /\ Enter(w, Head(queue))
        \/ wpc' = [wpc EXCEPT ![w] = "lock"]
        \/ UNCHANGED <<wpc, wrun>>
    BY DEF Take, taskVars
  <2>2. wpc' = [wpc EXCEPT ![w] = "lock"] => wpc'[w] = "lock"
    BY DEF TypeOK
  <2>3. QED
    BY <1>3, <1>4, <2>1, <2>2

-----------------------------------------------------------------------------
(* Getting a released lock *)

LEMMA Acquired ==
    ASSUME TypeOK, LockInv, LineInv, NEW w \in Tasks, Acquire(w)
    PROVE  /\ UNCHANGED <<queue, order, status, handler, spc, stored>>
           /\ wpc[w] = "lock" /\ wrun[w] \in Runs
           /\ lock_key[wrun[w]] \in Keys /\ holder[lock_key[wrun[w]]] = NoTask
           /\ waiting[lock_key[wrun[w]]] # <<>> /\ waiting[lock_key[wrun[w]]][1] = w
           /\ waiting' = [waiting EXCEPT ![lock_key[wrun[w]]] = Tail(@)]
           /\ Enter(w, wrun[w])
           /\ \A v \in Tasks \ {w} : wrun'[v] = wrun[v] /\ wpc'[v] = wpc[v]
           /\ \/ wrun'[w] = NoRun /\ wpc'[w] = "idle" /\ status[wrun[w]] = "CANCELLED"
              \/ wrun'[w] = wrun[w] /\ wpc'[w] = "checked"
<1>1. /\ UNCHANGED <<queue, order, status, handler, spc, stored>>
      /\ wpc[w] = "lock" /\ holder[lock_key[wrun[w]]] = NoTask
      /\ waiting[lock_key[wrun[w]]] # <<>> /\ Head(waiting[lock_key[wrun[w]]]) = w
      /\ waiting' = [waiting EXCEPT ![lock_key[wrun[w]]] = Tail(@)]
      /\ Enter(w, wrun[w])
  BY DEF Acquire, runVars, storeVars, queueVars, poolVars, clientVars
<1>2. wrun[w] \in Runs /\ lock_key[wrun[w]] \in Keys
  BY <1>1 DEF LockInv, HasRun, LineInv
<1>3. waiting[lock_key[wrun[w]]] \in Seq(Tasks)
  BY <1>2 DEF TypeOK
<1>4. waiting[lock_key[wrun[w]]][1] = w
  BY <1>1, <1>3
<1>5. \A v \in Tasks \ {w} : wrun'[v] = wrun[v] /\ wpc'[v] = wpc[v]
  BY <1>1 DEF Enter, TypeOK
<1>6. \/ wrun'[w] = NoRun /\ wpc'[w] = "idle" /\ status[wrun[w]] = "CANCELLED"
      \/ wrun'[w] = wrun[w] /\ wpc'[w] = "checked"
  BY <1>1 DEF Enter, TypeOK
<1>7. QED
  BY <1>1, <1>2, <1>4, <1>5, <1>6

LEMMA AcquireKeepsLines ==
    ASSUME TypeOK, LockInv, OrderInv, LineInv, NEW w \in Tasks, Acquire(w)
    PROVE  LineInv'
<1> DEFINE k == lock_key[wrun[w]]
<1>1. /\ UNCHANGED order
      /\ wpc[w] = "lock" /\ wrun[w] \in Runs /\ k \in Keys
      /\ waiting[k] # <<>> /\ waiting[k][1] = w
      /\ waiting' = [waiting EXCEPT ![k] = Tail(@)]
      /\ \A v \in Tasks \ {w} : wrun'[v] = wrun[v] /\ wpc'[v] = wpc[v]
      /\ wpc'[w] # "lock"
  BY Acquired
<1>2. \A h \in Keys : waiting[h] \in Seq(Tasks)
  BY DEF TypeOK
<1>3. /\ Len(waiting[k]) \in Nat \ {0}
      /\ Len(waiting'[k]) = Len(waiting[k]) - 1
      /\ \A p \in 1 .. Len(waiting'[k]) : /\ p + 1 \in 1 .. Len(waiting[k])
                                          /\ waiting'[k][p] = waiting[k][p + 1]
      /\ \A h \in Keys \ {k} : waiting'[h] = waiting[h]
      /\ \A h \in Keys : \A p \in 1 .. Len(waiting[h]) : waiting[h][p] \in Tasks
  <2>1. /\ waiting'[k] = Tail(waiting[k])
        /\ \A h \in Keys \ {k} : waiting'[h] = waiting[h]
    BY <1>1 DEF TypeOK
  <2>2. \A h \in Keys : \A p \in 1 .. Len(waiting[h]) : waiting[h][p] \in Tasks
    BY <1>2
  <2>3. waiting[k] \in Seq(Tasks) /\ waiting[k] # <<>>
    BY <1>1, <1>2
  <2>4. /\ Len(waiting[k]) \in Nat \ {0}
        /\ Len(Tail(waiting[k])) = Len(waiting[k]) - 1
        /\ \A p \in 1 .. Len(Tail(waiting[k])) :
              /\ p + 1 \in 1 .. Len(waiting[k])
              /\ Tail(waiting[k])[p] = waiting[k][p + 1]
    BY <2>3
  <2>5. QED
    BY <2>1, <2>2, <2>4
<1>4. \A p \in 1 .. Len(waiting[k]) : p # 1 => waiting[k][p] # w
  <2> SUFFICES ASSUME NEW p \in 1 .. Len(waiting[k]), p # 1, waiting[k][p] = w
               PROVE  FALSE
    OBVIOUS
  <2>1. 1 \in 1 .. Len(waiting[k]) /\ 1 < p
    BY <1>3
  <2>2. Before(wrun[w], wrun[w])
    BY <1>1, <2>1 DEF LineInv
  <2>3. PICK a \in 1 .. TakenCount : order[a] = wrun[w]
    BY <1>1, ConfigAssumption DEF OrderInv
  <2>4. a \in 1 .. Len(order)
    BY DEF TakenCount, OrderInv, TypeOK
  <2>5. QED
    BY <2>2, <2>3, <2>4 DEF Before
<1>5. \A v \in Tasks : wpc'[v] = "lock" =>
         /\ lock_key[wrun'[v]] \in Keys
         /\ \E p \in 1 .. Len(waiting'[lock_key[wrun'[v]]]) :
               waiting'[lock_key[wrun'[v]]][p] = v
  <2> SUFFICES ASSUME NEW v \in Tasks, wpc'[v] = "lock"
               PROVE  /\ lock_key[wrun[v]] \in Keys
                      /\ \E p \in 1 .. Len(waiting'[lock_key[wrun[v]]]) :
                            waiting'[lock_key[wrun[v]]][p] = v
    BY <1>1
  <2> DEFINE h == lock_key[wrun[v]]
  <2>1. v # w /\ wpc[v] = "lock" /\ h \in Keys
    BY <1>1 DEF LineInv
  <2>2. PICK p \in 1 .. Len(waiting[h]) : waiting[h][p] = v
    BY <2>1 DEF LineInv
  <2>3. CASE h = k
    <3>1. p # 1
      BY <1>1, <2>1, <2>2, <2>3
    <3>2. p - 1 \in 1 .. Len(waiting'[k]) /\ (p - 1) + 1 = p
      BY <1>3, <2>2, <2>3, <3>1
    <3>3. waiting'[k][p - 1] = v
      BY <1>3, <2>2, <2>3, <3>2
    <3>4. QED
      BY <2>1, <2>3, <3>2, <3>3
  <2>4. CASE h # k
    BY <1>3, <2>1, <2>2, <2>4
  <2>5. QED
    BY <2>3, <2>4
(* Who stands in line now stood in line before, one place further back or   *)
(* in the same one.                                                         *)
<1>6. \A h \in Keys : \A p \in 1 .. Len(waiting'[h]) :
         \E s \in {0, 1} :
            /\ s = IF h = k THEN 1 ELSE 0
            /\ p + s \in 1 .. Len(waiting[h])
            /\ waiting'[h][p] = waiting[h][p + s]
            /\ waiting[h][p + s] \in Tasks \ {w}
  <2> SUFFICES ASSUME NEW h \in Keys, NEW p \in 1 .. Len(waiting'[h])
               PROVE  \E s \in {0, 1} :
                         /\ s = IF h = k THEN 1 ELSE 0
                         /\ p + s \in 1 .. Len(waiting[h])
                         /\ waiting'[h][p] = waiting[h][p + s]
                         /\ waiting[h][p + s] \in Tasks \ {w}
    OBVIOUS
  <2>1. CASE h = k
    <3>1. /\ p + 1 \in 1 .. Len(waiting[h]) /\ p + 1 # 1
          /\ waiting'[h][p] = waiting[h][p + 1]
      BY <1>3, <2>1
    <3>2. waiting[h][p + 1] \in Tasks \ {w}
      BY <1>3, <1>4, <2>1, <3>1
    <3>3. QED
      BY <2>1, <3>1, <3>2
  <2>2. CASE h # k
    <3>1. waiting'[h] = waiting[h] /\ p \in 1 .. Len(waiting[h])
      BY <1>3, <2>2
    <3>2. lock_key[wrun[waiting[h][p]]] = h
      BY <3>1 DEF LineInv
    <3>3. waiting[h][p] \in Tasks \ {w}
      BY <1>3, <2>2, <3>1, <3>2
    <3>4. p + 0 = p
      BY <3>1
    <3>5. QED
      BY <2>2, <3>1, <3>3, <3>4
  <2>3. QED
    BY <2>1, <2>2
<1>7. \A h \in Keys : \A p \in 1 .. Len(waiting'[h]) :
         /\ wpc'[waiting'[h][p]] = "lock" /\ lock_key[wrun'[waiting'[h][p]]] = h
         /\ wrun'[waiting'[h][p]] = wrun[waiting'[h][p]]
  <2> SUFFICES ASSUME NEW h \in Keys, NEW p \in 1 .. Len(waiting'[h])
               PROVE  /\ wpc'[waiting'[h][p]] = "lock"
                      /\ lock_key[wrun'[waiting'[h][p]]] = h
                      /\ wrun'[waiting'[h][p]] = wrun[waiting'[h][p]]
    OBVIOUS
  <2>1. PICK s \in {0, 1} :
           /\ p + s \in 1 .. Len(waiting[h])
           /\ waiting'[h][p] = waiting[h][p + s]
           /\ waiting[h][p + s] \in Tasks \ {w}
    BY <1>6
  <2>2. wpc[waiting[h][p + s]] = "lock" /\ lock_key[wrun[waiting[h][p + s]]] = h
    BY <2>1 DEF LineInv
  <2>3. QED
    BY <1>1, <2>1, <2>2
<1>8. \A h \in Keys : \A p, q \in 1 .. Len(waiting'[h]) :
         p < q => Before(wrun'[waiting'[h][p]], wrun'[waiting'[h][q]])
  <2> SUFFICES ASSUME NEW h \in Keys, NEW p \in 1 .. Len(waiting'[h]),
                      NEW q \in 1 .. Len(waiting'[h]), p < q
               PROVE  Before(wrun'[waiting'[h][p]], wrun'[waiting'[h][q]])
    OBVIOUS
  <2>1. PICK s \in {0, 1} :
           /\ p + s \in 1 .. Len(waiting[h]) /\ q + s \in 1 .. Len(waiting[h])
           /\ waiting'[h][p] = waiting[h][p + s]
           /\ waiting'[h][q] = waiting[h][q + s]
    BY <1>6
  <2>2. p + s < q + s
    OBVIOUS
  <2>3. Before(wrun[waiting[h][p + s]], wrun[waiting[h][q + s]])
    BY <2>1, <2>2 DEF LineInv
  <2>4. QED
    BY <1>7, <2>1, <2>3
<1>9. \A h \in Keys : \A p, q \in 1 .. Len(waiting'[h]) :
         p < q => Before(wrun[waiting[h][p]], wrun[waiting[h][q]])'
  <2>1. UNCHANGED order
    BY <1>1
  <2>2. QED
    BY <1>8, <2>1 DEF Before
<1>10. QED
  BY <1>5, <1>7, <1>9 DEF LineInv

LEMMA AcquireKeepsFifo ==
    ASSUME TypeOK, LockInv, UpInv, NEW w \in Tasks, Acquire(w)
    PROVE  FifoInv'
<1> DEFINE k == lock_key[wrun[w]]
<1>1. /\ UNCHANGED <<order, status, handler>>
      /\ wrun[w] \in Runs /\ k \in Keys /\ holder[k] = NoTask
      /\ waiting[k] # <<>> /\ waiting[k][1] = w
      /\ Enter(w, wrun[w])
  BY Acquired DEF UpInv
<1>2. PICK j \in 1 .. TakenCount : order[j] = wrun[w]
  BY <1>1, ConfigAssumption DEF UpInv, OrderInv
<1>3. j \in 1 .. Len(order) /\ j <= TakenCount + 1
  <2>1. TakenCount \in Nat /\ Len(order) \in Nat /\ Len(queue) \in Nat
    BY DEF UpInv, OrderInv, TypeOK
  <2>2. TakenCount <= Len(order)
    BY <2>1 DEF TakenCount
  <2>3. QED
    BY <2>1, <2>2
<1>4. ASSUME NEW p \in 1 .. Len(waiting[k]), NEW i \in 1 .. Len(order), i < j
      PROVE  order[i] # wrun[waiting[k][p]]
  <2>1. CASE p = 1
    BY <1>1, <1>2, <1>3, <1>4, <2>1 DEF UpInv, OrderInv
  <2>2. CASE p # 1
    <3>1. waiting[k] \in Seq(Tasks)
      BY <1>1 DEF TypeOK
    <3>2. 1 \in 1 .. Len(waiting[k]) /\ 1 < p
      BY <2>2, <3>1
    <3>3. Before(wrun[w], wrun[waiting[k][p]])
      BY <1>1, <3>2 DEF UpInv, LineInv
    <3>4. QED
      BY <1>2, <1>3, <1>4, <3>3 DEF Before
  <2>3. QED
    BY <2>1, <2>2
<1>5. \A i \in 1 .. Len(order) :
         i < j /\ Conflict(order[i], order[j]) => status[order[i]] # "PENDING"
  <2>1. lock_key[order[j]] # NoKey => holder[lock_key[order[j]]] = NoTask
    BY <1>1, <1>2
  <2>2. \A p \in 1 .. Len(waiting[lock_key[order[j]]]), i \in 1 .. Len(order) :
           lock_key[order[j]] # NoKey /\ i < j
               => order[i] # wrun[waiting[lock_key[order[j]]][p]]
    BY <1>2, <1>4
  <2>3. QED
    BY <1>3, <2>1, <2>2, NobodyIsPassed DEF UpInv
<1>6. QED
  BY <1>1, <1>2, <1>3, <1>5, EnterKeepsFifo DEF UpInv

-----------------------------------------------------------------------------
(* The steps that move no run to another place, except out of the executor  *)

(* A task goes on with its run inside the lock, or is done with it. *)
GoesOn(w) ==
    \/ wpc'[w] = wpc[w] /\ wrun'[w] = wrun[w]
    \/ /\ Inside(w) /\ Inside(w)' /\ wpc'[w] # "checked"
       /\ wrun'[w] = wrun[w] /\ status'[wrun[w]] # "PENDING"
    \/ /\ Inside(w) /\ wpc'[w] \in {"idle", "done", "dead"}
       /\ wrun'[w] = NoRun /\ status'[wrun[w]] # "PENDING"

MovesNoRun ==
    /\ UNCHANGED <<queue, order, waiting, spc>>
    /\ \A r \in Runs : status'[r] = "PENDING" => status[r] = "PENDING"
    /\ \A r \in stored \ stored' : status'[r] # "PENDING"
    /\ \A w \in Tasks : GoesOn(w)
    /\ \A r \in Runs : handler'[r] # "idle" =>
          \/ handler[r] # "idle"
          \/ \E w \in Tasks : Inside(w) /\ wpc[w] # "checked" /\ wrun[w] = r

LEMMA MovingNoRunKeeps ==
    ASSUME TypeOK, LockInv, PlaceInv, UpInv, MovesNoRun, cancel_req' = {}
    PROVE  UpInv'
<1>1. Onwards
  BY DEF MovesNoRun, Onwards, Submitted
<1>2. OrderInv'
  <2>1. \A w \in Tasks : wrun'[w] \in {wrun[w], NoRun}
    BY DEF MovesNoRun, GoesOn
  <2>2. QED
    BY <1>1, <2>1, OrderKept DEF UpInv, MovesNoRun
<1>3. LineInv'
  <2>1. LinesStand
    BY DEF MovesNoRun, GoesOn, LinesStand, Inside, InLoop
  <2>2. waiting \in [Keys -> Seq(Tasks)]
    BY DEF TypeOK
  <2>3. QED
    BY <2>1, <2>2, LinesKept DEF UpInv, MovesNoRun
<1>4. HandsInv'
  <2>1. \A w \in Tasks : Inside(w) => wrun[w] \in Runs
    BY DEF LockInv, HasRun
  <2>2. \A w \in Tasks : wrun[w] = NoRun \/ Inside(w) \/ wpc[w] = "lock"
    BY DEF UpInv, HandsInv
  <2>3. \A w \in Tasks : Inside(w) => wpc[w] # "lock"
    BY DEF Inside, InLoop
  <2>4. ASSUME NEW w \in Tasks
        PROVE  \/ wrun'[w] = NoRun /\ ~Inside(w)'
               \/ wpc'[w] = "lock"
               \/ wpc'[w] = "checked"
               \/ /\ Inside(w)' /\ wrun'[w] \in Runs
                  /\ \/ status'[wrun'[w]] # "PENDING"
                     \/ Inside(w) /\ wpc[w] # "checked" /\ wrun'[w] = wrun[w]
    <3>1. CASE wpc'[w] = wpc[w] /\ wrun'[w] = wrun[w]
      BY <2>1, <2>2, <3>1 DEF Inside
    <3>2. CASE wpc'[w] \in {"idle", "done", "dead"} /\ wrun'[w] = NoRun
      BY <3>2 DEF Inside, InLoop
    <3>3. CASE /\ Inside(w) /\ Inside(w)'
               /\ wrun'[w] = wrun[w] /\ status'[wrun[w]] # "PENDING"
      BY <2>1, <3>3
    <3>4. QED
      BY <3>1, <3>2, <3>3 DEF MovesNoRun, GoesOn
  <2>5. QED
    BY <1>1, <2>4, HandsKept DEF UpInv, MovesNoRun
<1>5. PendingInv'
  <2>1. \A w \in Tasks : \/ wrun'[w] = wrun[w]
                         \/ wrun[w] \in Runs => status'[wrun[w]] # "PENDING"
    BY DEF MovesNoRun, GoesOn
  <2>2. QED
    BY <1>1, <2>1, PendingKept DEF UpInv, MovesNoRun
<1>6. FifoInv'
  <2>1. \A w \in Tasks : wrun'[w] \in Runs /\ wpc'[w] # "lock" =>
           wrun[w] = wrun'[w] /\ wpc[w] # "lock"
    BY ConfigAssumption DEF MovesNoRun, GoesOn, Inside, InLoop
  <2>2. \A r \in Runs : handler'[r] # "idle" =>
           \/ handler[r] # "idle"
           \/ \E w \in Tasks : wpc[w] # "lock" /\ wrun[w] = r
    BY DEF MovesNoRun, Inside, InLoop
  <2>3. QED
    BY <1>1, <2>1, <2>2, FifoKept DEF UpInv, MovesNoRun
<1>7. QED
  BY <1>2, <1>3, <1>4, <1>5, <1>6 DEF UpInv

(* A record is made for a run that is about to be handed over. *)
LEMMA CreateKeepsUp ==
    ASSUME TypeOK, UpInv, NEW r \in Runs, CreateRun(r)
    PROVE  UpInv'
<1>1. /\ UNCHANGED <<queue, order, waiting, status, wrun, wpc, handler, cancel_req>>
      /\ spc[r] = "new" /\ spc' = [spc EXCEPT ![r] = "created"]
      /\ stored' = stored \cup {r}
  BY DEF CreateRun, Created, runVars, queueVars, taskVars, lockVars, poolVars, stopVars
<1>2. \A s \in Runs : /\ Submitted(s)' <=> Submitted(s)
                      /\ spc'[s] # "new" => spc[s] # "new" \/ s = r
  BY <1>1 DEF TypeOK, Submitted
<1>3. OrderInv'
  <2>1. Onwards
    BY <1>1, <1>2 DEF Onwards
  <2>2. QED
    BY <1>1, <2>1, OrderKept DEF UpInv
<1>4. LineInv' /\ FifoInv'
  BY <1>1 DEF UpInv, LineInv, FifoInv, Before, Conflict
<1>5. HandsInv' /\ PendingInv'
  BY <1>1, <1>2 DEF UpInv, HandsInv, PendingInv, Inside, InPlace
<1>6. QED
  BY <1>1, <1>3, <1>4, <1>5 DEF UpInv

-----------------------------------------------------------------------------
(* Every step before shutdown *)

LEMMA UpStep ==
    ASSUME ~PopOnWait, TypeOK, LockInv, PlaceInv, UpInv, [Next]_vars,
           ~Shutdown, ~Gathered, ~Drained
    PROVE  UpInv'
<1> USE DEF runVars, storeVars, queueVars, taskVars, lockVars, poolVars,
            clientVars, stopVars
<1>1. ASSUME NEW r \in Runs, Submit(r) \/ Enqueue(r) PROVE UpInv'
  <2>1. /\ ~Submitted(r) /\ EnqueueRun(r) /\ UNCHANGED cancel_req
        /\ UNCHANGED <<status, wrun, waiting, handler>>
        /\ \/ stored' = stored \cup {r}
           \/ UNCHANGED stored /\ spc[r] # "new"
    BY <1>1 DEF Submit, Enqueue, Submitted, Created
  <2>2. PutsOn(r)
    BY <2>1 DEF PutsOn, UpInv, PendingInv
  <2>3. QED
    BY <2>1, <2>2, PutKeepsOrder, PutKeepsLines, PutKeepsHands, PutKeepsPending,
       PutKeepsFifo DEF UpInv
<1>2. ASSUME NEW w \in Tasks, Take(w) PROVE UpInv'
  <2>1. UNCHANGED cancel_req
    BY <1>2 DEF Take
  <2>2. QED
    BY <1>2, <2>1, TakeKeepsOrder, TakeKeepsLines, TakeKeepsHands,
       TakeKeepsPending, TakeKeepsFifo DEF UpInv
<1>3. ASSUME NEW w \in Tasks, Acquire(w) PROVE UpInv'
  <2>1. /\ UNCHANGED <<queue, order, status, handler, spc, stored, cancel_req>>
        /\ wpc[w] = "lock" /\ wrun[w] \in Runs
        /\ \A v \in Tasks \ {w} : wrun'[v] = wrun[v] /\ wpc'[v] = wpc[v]
        /\ \/ wrun'[w] = NoRun /\ wpc'[w] = "idle" /\ status[wrun[w]] = "CANCELLED"
           \/ wrun'[w] = wrun[w] /\ wpc'[w] = "checked"
    BY <1>3, Acquired DEF UpInv, Acquire
  <2>2. Onwards
    BY <2>1 DEF Onwards, Submitted
  <2>3. OrderInv'
    BY <2>1, <2>2, OrderKept DEF UpInv
  <2>4. HandsInv'
    BY <2>1 DEF UpInv, HandsInv, Inside, InLoop, Submitted
  <2>5. PendingInv'
    BY <2>1, <2>2, PendingKept DEF UpInv
  <2>6. QED
    BY <1>3, <2>1, <2>3, <2>4, <2>5, AcquireKeepsLines, AcquireKeepsFifo DEF UpInv
<1>4. ASSUME NEW r \in Runs, CreateRun(r) PROVE UpInv'
  BY <1>4, CreateKeepsUp
<1>5. ASSUME MovesNoRun, UNCHANGED cancel_req PROVE UpInv'
  BY <1>5, MovingNoRunKeeps DEF UpInv
<1>6. ASSUME NEW w \in Tasks, MarkRunning(w) PROVE UpInv'
  <2>1. /\ wpc[w] = "checked" /\ wrun[w] \in Runs
        /\ status' = [status EXCEPT ![wrun[w]] = "RUNNING"]
        /\ wpc' = [wpc EXCEPT ![w] = "marked"]
        /\ UNCHANGED <<queue, order, waiting, spc, stored, wrun, handler, cancel_req>>
    BY <1>6 DEF MarkRunning, LockInv, HasRun, Inside, InLoop
  <2>2. \A v \in Tasks : GoesOn(v)
    BY <2>1 DEF GoesOn, TypeOK, Inside, InLoop
  <2>3. \A r \in Runs : status'[r] = "PENDING" => status[r] = "PENDING"
    BY <2>1 DEF TypeOK
  <2>4. QED
    BY <1>5, <2>1, <2>2, <2>3 DEF MovesNoRun
<1>7. ASSUME NEW w \in Tasks, Start(w) PROVE UpInv'
  <2>1. /\ wpc[w] = "marked" /\ wrun[w] \in Runs
        /\ \E p \in {"refused", "running"} : wpc' = [wpc EXCEPT ![w] = p]
        /\ \A r \in Runs : r # wrun[w] => handler'[r] = handler[r]
        /\ UNCHANGED <<queue, order, waiting, spc, stored, status, wrun, cancel_req>>
    BY <1>7 DEF Start, LockInv, HasRun, Inside, InLoop, TypeOK
  <2>2. status[wrun[w]] # "PENDING"
    BY <2>1 DEF UpInv, HandsInv, Inside, InLoop
  <2>3. \A v \in Tasks : GoesOn(v)
    BY <2>1, <2>2 DEF GoesOn, TypeOK, Inside, InLoop
  <2>4. \A r \in Runs : handler'[r] # "idle" =>
           \/ handler[r] # "idle"
           \/ \E v \in Tasks : Inside(v) /\ wpc[v] # "checked" /\ wrun[v] = r
    BY <2>1 DEF Inside, InLoop
  <2>5. QED
    BY <1>5, <2>1, <2>3, <2>4 DEF MovesNoRun
<1>8. ASSUME NEW w \in Tasks, NEW end \in Ends, EndRun(w, end),
             Refuse(w) \/ Timeout(w) \/ Complete(w, end)
      PROVE  UpInv'
  <2>1. /\ Inside(w) /\ wpc[w] # "checked"
        /\ UNCHANGED cancel_req
        /\ \A r \in Runs : r # wrun[w] => handler'[r] = handler[r]
    BY <1>8 DEF Refuse, Timeout, Complete, Abandoned, Inside, InLoop, TypeOK
  <2>2. wrun[w] \in Runs
    BY <2>1 DEF LockInv, HasRun
  <2>3. /\ status' = [status EXCEPT ![wrun[w]] = StatusOf[end]]
        /\ wpc' = [wpc EXCEPT ![w] = "finishing"]
        /\ UNCHANGED <<queue, order, waiting, spc, stored, wrun>>
    BY <1>8 DEF EndRun
  <2>4. StatusOf[end] # "PENDING"
    BY DEF Ends, StatusOf
  <2>5. \A v \in Tasks : GoesOn(v)
    BY <2>1, <2>2, <2>3, <2>4 DEF GoesOn, TypeOK, Inside, InLoop
  <2>6. \A r \in Runs : status'[r] = "PENDING" => status[r] = "PENDING"
    BY <2>3, <2>4 DEF TypeOK
  <2>7. \A r \in Runs : handler'[r] # "idle" =>
           \/ handler[r] # "idle"
           \/ \E v \in Tasks : Inside(v) /\ wpc[v] # "checked" /\ wrun[v] = r
    BY <2>1
  <2>8. QED
    BY <1>5, <2>1, <2>3, <2>5, <2>6, <2>7 DEF MovesNoRun

<1>9. ASSUME NEW w \in Tasks, Finish(w) PROVE UpInv'
  <2>1. /\ Inside(w) /\ wpc[w] # "checked" /\ wrun[w] \in Runs
        /\ wrun' = [wrun EXCEPT ![w] = NoRun]
        /\ \E p \in {"idle", "done", "dead"} : wpc' = [wpc EXCEPT ![w] = p]
        /\ UNCHANGED <<queue, order, waiting, spc, status, handler, cancel_req>>
    BY <1>9 DEF Finish, LockInv, HasRun, Inside, InLoop
  <2>2. status[wrun[w]] # "PENDING"
    BY <2>1 DEF UpInv, HandsInv
  <2>3. \A v \in Tasks : GoesOn(v)
    BY <2>1, <2>2 DEF GoesOn, TypeOK
  <2>4. \A r \in stored \ stored' : status[r] # "PENDING"
    <3>1. CASE UNCHANGED stored
      BY <3>1
    <3>2. CASE \E t : PopRuns(Surplus(finished_at') \cup Expired(finished_at', t), future)
      BY <3>2 DEF PopRuns, Surplus, Expired, Completed, Terminal
    <3>3. QED
      BY <1>9, <3>1, <3>2 DEF Finish
  <2>5. QED
    BY <1>5, <2>1, <2>3, <2>4 DEF MovesNoRun
<1>10. ASSUME NEW r \in Runs, PoolStart(r) \/ PoolEnd(r) PROVE MovesNoRun /\ UNCHANGED cancel_req
  <2>1. /\ UNCHANGED <<queue, order, waiting, spc, stored, status, wpc, wrun, cancel_req>>
        /\ \A s \in Runs : handler'[s] # "idle" => handler[s] # "idle"
    BY <1>10 DEF PoolStart, PoolEnd, TypeOK
  <2>2. QED
    BY <2>1 DEF MovesNoRun, GoesOn
<1>11. ASSUME NEW r \in Runs,
              \/ CancelPending(r) \/ CancelRunning(r) \/ ThreadRead(r)
              \/ ThreadMark(r) \/ ThreadCommit(r) \/ ThreadAnswer(r)
       PROVE  MovesNoRun /\ UNCHANGED cancel_req
  <2>1. /\ UNCHANGED <<queue, order, waiting, spc, stored, wpc, wrun, handler, cancel_req>>
        /\ \/ UNCHANGED status
           \/ status' = [status EXCEPT ![r] = "CANCELLED"]
    BY <1>11 DEF CancelPending, CancelRunning, ThreadRead, ThreadMark,
                 ThreadCommit, ThreadAnswer
  <2>2. \A s \in Runs : status'[s] = "PENDING" => status[s] = "PENDING"
    BY <2>1 DEF TypeOK
  <2>3. QED
    BY <2>1, <2>2 DEF MovesNoRun, GoesOn
<1>12. ASSUME NEW c \in Waiters, WaitStart(c) \/ WaitEnd(c) \/ WaitTimeout(c)
       PROVE  MovesNoRun /\ UNCHANGED cancel_req
  <2>1. /\ UNCHANGED <<queue, order, waiting, spc, status, wpc, wrun, handler, cancel_req>>
        /\ stored' = stored
    BY <1>12 DEF WaitStart, WaitEnd, WaitTimeout, Answer, PopRuns
  <2>2. QED
    BY <2>1 DEF MovesNoRun, GoesOn
<1>13. ASSUME NEW w \in Tasks, CancelIdle(w) \/ CancelLockWait(w) \/ CancelHandler(w)
       PROVE  FALSE
  BY <1>13 DEF UpInv, CancelIdle, CancelLockWait, CancelHandler
<1>14. ASSUME UNCHANGED vars PROVE MovesNoRun /\ UNCHANGED cancel_req
  BY <1>14 DEF MovesNoRun, GoesOn, vars
<1>15. ASSUME NEW w \in Tasks, WorkerStep(w) PROVE UpInv'
  <2>1. CASE Refuse(w)
    BY <1>8, <2>1 DEF Refuse, Ends
  <2>2. CASE Timeout(w)
    BY <1>8, <2>2 DEF Timeout, Ends
  <2>3. ASSUME NEW end \in Ends, Complete(w, end) PROVE UpInv'
    BY <1>8, <2>3 DEF Complete
  <2>4. QED
    BY <1>2, <1>3, <1>6, <1>7, <1>9, <1>13, <1>15, <2>1, <2>2, <2>3 DEF WorkerStep
<1>16. QED
  BY <1>1, <1>4, <1>5, <1>10, <1>11, <1>12, <1>14, <1>15
  DEF Next, Submitters, PoolThreads, Cancellers, WaiterCalls, Rest

-----------------------------------------------------------------------------
(* What follows from it *)

LEMMA UpInit == Init => UpInv
<1> SUFFICES ASSUME Init PROVE UpInv
  OBVIOUS
<1>1. queue = <<>> /\ order = <<>> /\ Len(<<>>) = 0
  BY DEF Init
<1>2. OrderInv
  BY <1>1 DEF Init, OrderInv, TakenCount
<1>3. LineInv
  BY DEF Init, LineInv
<1>4. HandsInv /\ PendingInv
  BY DEF Init, HandsInv, PendingInv, Submitted, Inside, InLoop
<1>5. FifoInv
  BY <1>1 DEF FifoInv
<1>6. QED
  BY <1>2, <1>3, <1>4, <1>5 DEF Init, UpInv

LEMMA PlaceInit == Init => TypeOK /\ LockInv /\ PlaceInv
<1> SUFFICES ASSUME Init PROVE LockInv /\ PlaceInv
  BY TypeInit
<1>1. LockInv
  BY DEF Init, LockInv, HasRun, OwnsLock, Inside, InLoop
<1>2. queue = <<>> /\ Len(<<>>) = 0
  BY DEF Init
<1>3. PlaceInv
  BY <1>2 DEF Init, PlaceInv, HandedOver, OnePlace
<1>4. QED
  BY <1>1, <1>3

LEMMA AtMostOne ==
    ASSUME NEW S, IsFiniteSet(S), \A x, y \in S : x = y
    PROVE  Cardinality(S) = IF S = {} THEN 0 ELSE 1
<1>1. CASE S = {}
  BY <1>1, FS_EmptySet
<1>2. CASE S # {}
  <2>1. PICK x : S = {x}
    BY <1>2
  <2>2. QED
    BY <1>2, <2>1, FS_Singleton
<1>3. QED
  BY <1>1, <1>2

LEMMA PlacesCounted ==
    ASSUME TypeOK, PlaceInv, NEW r \in Runs
    PROVE  Places(r) = IF InPlace(r) THEN 1 ELSE 0
<1> DEFINE Q == {i \in 1 .. Len(queue) : queue[i] = r}
           H == {w \in Tasks : wrun[w] = r}
<1>1. IsFiniteSet(Q)
  <2>1. Len(queue) \in Int
    BY DEF TypeOK
  <2>2. IsFiniteSet(1 .. Len(queue))
    BY <2>1, FS_Interval
  <2>3. QED
    BY <2>2, FS_Subset
<1>2. IsFiniteSet(H)
  BY ConfigAssumption, FS_Subset
<1>3. \A x, y \in Q : x = y
  BY DEF PlaceInv, OnePlace
<1>4. \A x, y \in H : x = y
  BY ConfigAssumption DEF PlaceInv, OnePlace
<1>5. Q = {} \/ H = {}
  BY DEF PlaceInv, OnePlace
<1>6. Cardinality(Q) = IF Q = {} THEN 0 ELSE 1
  <2> HIDE DEF Q
  <2>1. QED
    BY <1>1, <1>3, AtMostOne
<1>7. Cardinality(H) = IF H = {} THEN 0 ELSE 1
  <2> HIDE DEF H
  <2>1. QED
    BY <1>2, <1>4, AtMostOne
<1>8. InPlace(r) <=> Q # {} \/ H # {}
  BY DEF InPlace
<1>9. Places(r) = Cardinality(Q) + Cardinality(H)
  BY DEF Places
<1> HIDE DEF Q, H
<1>10. QED
  BY <1>5, <1>6, <1>7, <1>8, <1>9

(* No run is in two places: whatever is cancelled, times out, fails or is    *)
(* shut down, queue.get hands a run to one worker task, and nothing puts it *)
(* back.                                                                    *)
THEOREM NoRunTwice == Spec => [](\A r \in Runs : Places(r) <= 1)
<1>1. Init => TypeOK /\ LockInv /\ PlaceInv
  BY PlaceInit
<1>2. TypeOK /\ LockInv /\ PlaceInv /\ [Next]_vars => (TypeOK /\ LockInv /\ PlaceInv)'
  BY TypeStep, LockStep, PlaceStep DEF LockInv
<1>3. TypeOK /\ PlaceInv => \A r \in Runs : Places(r) <= 1
  BY PlacesCounted
<1>4. QED
  BY <1>1, <1>2, <1>3, PTL DEF Spec

BeforeShutdown == TypeOK /\ LockInv /\ PlaceInv /\ (stop = "up" => UpInv)

LEMMA BeforeShutdownInv ==
    ASSUME ~PopOnWait
    PROVE  Spec => []BeforeShutdown
<1>1. Init => BeforeShutdown
  BY UpInit, PlaceInit DEF BeforeShutdown
<1>2. BeforeShutdown /\ [Next]_vars => BeforeShutdown'
  <2> SUFFICES ASSUME BeforeShutdown, [Next]_vars PROVE BeforeShutdown'
    OBVIOUS
  <2>1. TypeOK' /\ LockInv' /\ PlaceInv'
    BY TypeStep, LockStep, PlaceStep DEF BeforeShutdown, LockInv
  <2>2. ASSUME stop' = "up" PROVE UpInv'
    <3>1. stop = "up" /\ ~Shutdown /\ ~Gathered /\ ~Drained
      BY <2>2, StaysUp DEF BeforeShutdown, TypeOK
    <3>2. QED
      BY <3>1, UpStep DEF BeforeShutdown
  <2>3. QED
    BY <2>1, <2>2 DEF BeforeShutdown
<1>3. QED
  BY <1>1, <1>2, PTL DEF Spec

(* Until shutdown is called no run is forgotten or executed twice: one that *)
(* was handed over and is PENDING is in the queue or in the hands of one     *)
(* task.  With pop_on_wait a caller whose wait times out throws the record  *)
(* of a PENDING run away and _worker_loop passes the run over.              *)
THEOREM PendingRunsKept ==
    ASSUME ~PopOnWait
    PROVE  Spec => [](stop = "up" => NoRunLost)
<1>1. BeforeShutdown => (stop = "up" => NoRunLost)
  BY PlacesCounted DEF BeforeShutdown, UpInv, PendingInv, NoRunLost, Submitted
<1>2. QED
  BY <1>1, BeforeShutdownInv, PTL

(* Until shutdown is called runs with one lock_key start in the order in    *)
(* which they were put on the queue, whatever number of workers take them    *)
(* from it: the queue, the line in front of the lock and the place inside   *)
(* it are in one order, and nobody passes a run that is still PENDING.      *)
THEOREM StartedInOrder ==
    ASSUME ~PopOnWait
    PROVE  Spec => [](stop = "up" => SameKeyFIFO)
<1>1. BeforeShutdown => (stop = "up" => SameKeyFIFO)
  BY DEF BeforeShutdown, UpInv, FifoInv, SameKeyFIFO
<1>2. QED
  BY <1>1, BeforeShutdownInv, PTL

-----------------------------------------------------------------------------
(* What the store forgets: the runs that ended first *)

(* One task at a time is in a synchronous stretch of the loop. *)
OneInLoop == \A v, w \in Tasks : wpc[v] \in InLoop /\ wpc[w] \in InLoop => v = w

(* The clock gives every end a time of its own. *)
ClockInv ==
    /\ \A r \in Runs : finished_at[r] <= clock
    /\ \A r, s \in Runs : finished_at[r] = finished_at[s] => r = s \/ finished_at[r] = 0

(* A run that has ended has its time, or whoever ended it is about to set it. *)
EndTimed(r) == \/ finished_at[r] # 0
               \/ cpc[r] = "marked"
               \/ \E w \in Tasks : wpc[w] = "finishing" /\ wrun[w] = r

TimedInv == \A r \in Runs : status[r] \in Terminal => EndTimed(r)

TimeInv == OneInLoop /\ ClockInv /\ TimedInv

(* The end of run r is now. *)
Stamped(r) == /\ clock' = clock + 1
              /\ finished_at' = [finished_at EXCEPT ![r] = clock + 1]

LEMMA ClockStep ==
    ASSUME TypeOK, LockInv, ClockInv, [Next]_vars
    PROVE  /\ UNCHANGED <<finished_at, clock>> \/ \E r \in Runs : Stamped(r)
           /\ ClockInv'
           /\ \A r \in Runs : finished_at[r] # 0 => finished_at'[r] # 0
<1> USE DEF runVars, storeVars, queueVars, taskVars, lockVars, poolVars,
            clientVars, stopVars
<1> DEFINE Moves == UNCHANGED <<finished_at, clock>> \/ \E r \in Runs : Stamped(r)
<1>1. ASSUME NEW r \in Runs,
             \/ Submit(r) \/ CreateRun(r) \/ Enqueue(r) \/ PoolStart(r) \/ PoolEnd(r)
             \/ CancelPending(r) \/ CancelRunning(r) \/ ThreadRead(r)
             \/ ThreadMark(r) \/ ThreadCommit(r) \/ ThreadAnswer(r)
      PROVE  Moves
  BY <1>1 DEF Submit, CreateRun, Enqueue, PoolStart, PoolEnd, CancelPending, CancelRunning,
              ThreadRead, ThreadMark, ThreadCommit, ThreadAnswer, CommitCancel, Stamped
<1>2. ASSUME NEW w \in Tasks, Finish(w) PROVE Moves
  <2>1. wrun[w] \in Runs
    BY <1>2 DEF Finish, LockInv, HasRun, Inside, InLoop
  <2>2. Stamped(wrun[w])
    BY <1>2 DEF Finish, Stamped
  <2>3. QED
    BY <2>1, <2>2
<1>3. ASSUME NEW w \in Tasks,
             \/ Take(w) \/ Acquire(w) \/ MarkRunning(w) \/ Start(w) \/ Refuse(w)
             \/ Timeout(w) \/ (\E end \in Ends : Complete(w, end))
             \/ CancelIdle(w) \/ CancelLockWait(w) \/ CancelHandler(w)
      PROVE  Moves
  BY <1>3 DEF Take, Acquire, MarkRunning, Start, Refuse, Timeout, Complete, EndRun,
              CancelIdle, CancelLockWait, CancelHandler
<1>4. ASSUME NEW c \in Waiters, WaitStart(c) \/ WaitEnd(c) \/ WaitTimeout(c) PROVE Moves
  BY <1>4 DEF WaitStart, WaitEnd, WaitTimeout
<1>5. ASSUME Shutdown \/ Gathered \/ Drained \/ UNCHANGED vars PROVE Moves
  BY <1>5 DEF Shutdown, Gathered, Drained, vars
<1> HIDE DEF Moves
<1>6. Moves
  BY <1>1, <1>2, <1>3, <1>4, <1>5
  DEF Next, Submitters, WorkerStep, PoolThreads, Cancellers, WaiterCalls, Rest
<1> HIDE DEF runVars, storeVars, queueVars, taskVars, lockVars, poolVars, clientVars, stopVars
<1>7. clock \in Nat /\ finished_at \in [Runs -> Nat]
  BY DEF TypeOK
<1>8. ASSUME NEW r \in Runs, Stamped(r)
      PROVE  ClockInv' /\ \A s \in Runs : finished_at[s] # 0 => finished_at'[s] # 0
  <2>1. \A s \in Runs : finished_at'[s] = IF s = r THEN clock + 1 ELSE finished_at[s]
    BY <1>7, <1>8 DEF Stamped
  <2>2. clock' = clock + 1
    BY <1>8 DEF Stamped
  <2>3. QED
    BY <1>7, <2>1, <2>2 DEF ClockInv
<1>9. QED
  BY <1>6, <1>8 DEF ClockInv, Moves

(* Tasks get into a stretch of the loop one by one, when nobody is in one. *)
LEMMA LoopStep ==
    ASSUME TypeOK, LockInv, OneInLoop, [Next]_vars
    PROVE  OneInLoop'
<1> USE DEF runVars, storeVars, queueVars, taskVars, lockVars, poolVars,
            clientVars, stopVars
<1> DEFINE NobodyIn == \A w \in Tasks : wpc'[w] \in InLoop => wpc[w] \in InLoop
           Others(w) == \A v \in Tasks \ {w} : wpc'[v] = wpc[v]
<1>1. ASSUME NEW r \in Runs, Submit(r) \/ Enqueue(r) PROVE NobodyIn
  <2>1. StartWorkers
    BY <1>1 DEF Submit, Enqueue, EnqueueRun
  <2>2. QED
    BY <2>1, StartingLetsNobodyIn DEF InLoop
<1>2. ASSUME NEW w \in Tasks,
             \/ Take(w) \/ Acquire(w) \/ Timeout(w) \/ (\E end \in Ends : Complete(w, end))
             \/ CancelHandler(w)
      PROVE  OneInLoop'
  <2>1. \A v \in Tasks : wpc[v] \notin InLoop
    BY <1>2 DEF Take, Acquire, Timeout, Complete, CancelHandler, LoopFree
  <2>2. \/ UNCHANGED wpc
        \/ \E p \in {"lock", "idle", "checked", "finishing", "aborting"} :
              wpc' = [wpc EXCEPT ![w] = p]
    <3>1. CASE Take(w) \/ Acquire(w)
      BY <3>1 DEF Take, Acquire, Enter
    <3>2. CASE Timeout(w) \/ (\E end \in Ends : Complete(w, end)) \/ CancelHandler(w)
      BY <3>2 DEF Timeout, Complete, CancelHandler, EndRun
    <3>3. QED
      BY <1>2, <3>1, <3>2
  <2>3. Others(w)
    BY <2>2 DEF TypeOK
  <2>4. QED
    BY <2>1, <2>3 DEF OneInLoop
<1>3. ASSUME NEW w \in Tasks,
             \/ MarkRunning(w) \/ Start(w) \/ Refuse(w) \/ Finish(w)
             \/ CancelIdle(w) \/ CancelLockWait(w)
      PROVE  NobodyIn
  <2>1. wpc[w] \in InLoop \/ CancelIdle(w) \/ CancelLockWait(w)
    BY <1>3 DEF MarkRunning, Start, Refuse, Finish, InLoop
  <2>2. \E p \in {"marked", "refused", "running", "finishing", "dead", "done", "idle"} :
            /\ wpc' = [wpc EXCEPT ![w] = p]
            /\ CancelIdle(w) \/ CancelLockWait(w) => p = "done"
    BY <1>3 DEF MarkRunning, Start, Refuse, Finish, EndRun, CancelIdle, CancelLockWait
  <2>3. QED
    BY <2>1, <2>2 DEF TypeOK, InLoop
<1>4. ASSUME NEW r \in Runs,
             \/ CreateRun(r) \/ PoolStart(r) \/ PoolEnd(r)
             \/ CancelPending(r) \/ CancelRunning(r) \/ ThreadRead(r)
             \/ ThreadMark(r) \/ ThreadCommit(r) \/ ThreadAnswer(r)
      PROVE  UNCHANGED wpc
  BY <1>4 DEF CreateRun, PoolStart, PoolEnd, CancelPending, CancelRunning,
              ThreadRead, ThreadMark, ThreadCommit, ThreadAnswer
<1>5. ASSUME NEW c \in Waiters, WaitStart(c) \/ WaitEnd(c) \/ WaitTimeout(c)
      PROVE  UNCHANGED wpc
  BY <1>5 DEF WaitStart, WaitEnd, WaitTimeout
<1>6. ASSUME Shutdown \/ Gathered \/ Drained \/ UNCHANGED vars PROVE UNCHANGED wpc
  BY <1>6 DEF Shutdown, Gathered, Drained, vars
<1>7. UNCHANGED wpc \/ NobodyIn => OneInLoop'
  BY DEF OneInLoop
<1>8. QED
  BY <1>1, <1>2, <1>3, <1>4, <1>5, <1>6, <1>7
  DEF Next, Submitters, WorkerStep, PoolThreads, Cancellers, WaiterCalls, Rest

(* A step that ends no run, and leaves to whoever has ended one to go on.   *)
LEMMA TimedKept ==
    ASSUME TimedInv,
           \A r \in Runs : /\ status'[r] \in Terminal => status[r] \in Terminal
                           /\ finished_at[r] # 0 => finished_at'[r] # 0
                           /\ cpc[r] = "marked" => cpc'[r] = "marked",
           \A w \in Tasks : wpc[w] = "finishing" =>
                               wpc'[w] = "finishing" /\ wrun'[w] = wrun[w]
    PROVE  TimedInv'
BY DEF TimedInv, EndTimed

LEMMA EndIsTimed ==
    ASSUME TypeOK, TimedInv, NEW w \in Tasks, wrun[w] \in Runs, NEW end \in Ends,
           EndRun(w, end), wpc[w] # "finishing"
    PROVE  TimedInv'
<1>1. /\ status' = [status EXCEPT ![wrun[w]] = StatusOf[end]]
      /\ wpc' = [wpc EXCEPT ![w] = "finishing"]
      /\ UNCHANGED <<finished_at, cpc, wrun>>
  BY DEF EndRun, clientVars
<1>2. /\ \A r \in Runs : r # wrun[w] => status'[r] = status[r]
      /\ \A v \in Tasks : v # w => wpc'[v] = wpc[v]
      /\ wpc'[w] = "finishing"
  BY <1>1 DEF TypeOK
<1>3. QED
  BY <1>1, <1>2 DEF TimedInv, EndTimed

LEMMA TimedStep ==
    ASSUME TypeOK, LockInv, TimedInv, [Next]_vars,
           \A r \in Runs : finished_at[r] # 0 => finished_at'[r] # 0
    PROVE  TimedInv'
<1> USE DEF runVars, storeVars, queueVars, taskVars, lockVars, poolVars,
            clientVars, stopVars
<1> DEFINE Goes == \A w \in Tasks : wpc[w] = "finishing" =>
                      wpc'[w] = "finishing" /\ wrun'[w] = wrun[w]
           NoEnd == \A r \in Runs :
                       /\ status'[r] \in Terminal => status[r] \in Terminal
                       /\ cpc[r] = "marked" => cpc'[r] = "marked"
<1>1. ASSUME NEW r \in Runs,
             \/ Submit(r) \/ CreateRun(r) \/ Enqueue(r) \/ PoolStart(r) \/ PoolEnd(r)
             \/ CancelRunning(r) \/ ThreadRead(r) \/ ThreadAnswer(r)
      PROVE  Goes /\ NoEnd
  <2>1. UNCHANGED status /\ (LoopFree \/ UNCHANGED <<wpc, wrun>>)
    BY <1>1 DEF Submit, CreateRun, Enqueue, EnqueueRun, PoolStart, PoolEnd,
                CancelRunning, ThreadRead, ThreadAnswer
  <2>2. \/ UNCHANGED cpc
        \/ \E p \in {"requested", "read", "requesting", "cancelled"} :
              cpc[r] # "marked" /\ cpc' = [cpc EXCEPT ![r] = p]
    BY <1>1 DEF Submit, CreateRun, Enqueue, EnqueueRun, PoolStart, PoolEnd,
                CancelRunning, ThreadRead, ThreadAnswer, CanCancel
  <2>3. Goes
    BY <2>1 DEF LoopFree, InLoop
  <2>4. QED
    BY <2>1, <2>2, <2>3 DEF TypeOK
<1>2. ASSUME NEW r \in Runs, CancelPending(r) \/ ThreadMark(r) \/ ThreadCommit(r)
      PROVE  TimedInv'
  <2>1. \/ UNCHANGED status
        \/ status' = [status EXCEPT ![r] = "CANCELLED"]
    BY <1>2 DEF CancelPending, ThreadMark, ThreadCommit
  <2>2. \E p \in {"cancelled", "marked", "committed"} : cpc' = [cpc EXCEPT ![r] = p]
    BY <1>2 DEF CancelPending, ThreadMark, ThreadCommit
  <2>3. cpc'[r] = "marked" \/ finished_at'[r] # 0
    <3>1. CASE ThreadMark(r)
      <4>1. cpc' = [cpc EXCEPT ![r] = "marked"]
        BY <3>1 DEF ThreadMark
      <4>2. QED
        BY <4>1 DEF TypeOK
    <3>2. CASE CancelPending(r) \/ ThreadCommit(r)
      <4>1. finished_at' = [finished_at EXCEPT ![r] = clock + 1]
        BY <3>2 DEF CancelPending, ThreadCommit, CommitCancel
      <4>2. clock \in Nat /\ finished_at \in [Runs -> Nat]
        BY DEF TypeOK
      <4>3. QED
        BY <4>1, <4>2
    <3>3. QED
      BY <1>2, <3>1, <3>2
  <2>4. UNCHANGED <<wpc, wrun>>
    BY <1>2 DEF CancelPending, ThreadMark, ThreadCommit
  <2>5. \A s \in Runs : s # r => status'[s] = status[s] /\ cpc'[s] = cpc[s]
    BY <2>1, <2>2 DEF TypeOK
  <2>6. QED
    BY <2>3, <2>4, <2>5 DEF TimedInv, EndTimed
<1>3. ASSUME NEW w \in Tasks,
             Refuse(w) \/ Timeout(w) \/ (\E end \in Ends : Complete(w, end))
      PROVE  TimedInv'
  <2>1. PICK end \in Ends : EndRun(w, end)
    BY <1>3 DEF Refuse, Timeout, Complete, Ends
  <2>2. wrun[w] \in Runs /\ wpc[w] # "finishing"
    BY <1>3 DEF Refuse, Timeout, Complete, LockInv, HasRun, Inside, InLoop
  <2>3. QED
    BY <2>1, <2>2, EndIsTimed
<1>4. ASSUME NEW w \in Tasks, CancelHandler(w) PROVE TimedInv'
  <2>1. wrun[w] \in Runs /\ wpc[w] # "finishing" /\ Goes
    BY <1>4 DEF CancelHandler, LockInv, HasRun, Inside, InLoop, LoopFree
  <2>2. CASE EndRun(w, "cancelled")
    BY <2>1, <2>2, EndIsTimed DEF Ends
  <2>3. CASE UNCHANGED <<status, cpc>>
    BY <2>1, <2>3, TimedKept
  <2>4. QED
    BY <1>4, <2>2, <2>3 DEF CancelHandler
<1>5. ASSUME NEW w \in Tasks,
             \/ Take(w) \/ Acquire(w) \/ MarkRunning(w) \/ Start(w)
             \/ CancelIdle(w) \/ CancelLockWait(w)
      PROVE  Goes /\ NoEnd
  <2>1. CASE MarkRunning(w)
    <3>1. /\ status' = [status EXCEPT ![wrun[w]] = "RUNNING"]
          /\ wpc[w] = "checked" /\ wpc' = [wpc EXCEPT ![w] = "marked"]
          /\ UNCHANGED <<wrun, cpc>>
      BY <2>1 DEF MarkRunning
    <3>2. \A r \in Runs : status'[r] \in Terminal => status'[r] = status[r]
      BY <3>1 DEF TypeOK, Terminal
    <3>3. QED
      BY <3>1, <3>2 DEF TypeOK
  <2>2. CASE Start(w)
    <3>1. /\ UNCHANGED <<status, wrun, cpc>> /\ wpc[w] = "marked"
          /\ \E p \in {"refused", "running"} : wpc' = [wpc EXCEPT ![w] = p]
      BY <2>2 DEF Start
    <3>2. QED
      BY <3>1 DEF TypeOK
  <2>3. CASE Take(w) \/ Acquire(w) \/ CancelIdle(w) \/ CancelLockWait(w)
    <3>1. UNCHANGED <<status, cpc>> /\ LoopFree
      BY <2>3 DEF Take, Acquire, CancelIdle, CancelLockWait
    <3>2. QED
      BY <3>1 DEF LoopFree, InLoop
  <2>4. QED
    BY <1>5, <2>1, <2>2, <2>3
<1>6. ASSUME NEW w \in Tasks, Finish(w) PROVE TimedInv'
  <2>1. wrun[w] \in Runs
    BY <1>6 DEF Finish, LockInv, HasRun, Inside, InLoop
  <2>2. finished_at'[wrun[w]] # 0
    BY <1>6, <2>1 DEF Finish, TypeOK
  <2>3. UNCHANGED <<status, cpc>> /\ wrun' = [wrun EXCEPT ![w] = NoRun]
    BY <1>6 DEF Finish
  <2>4. \A v \in Tasks : v # w => wpc'[v] = wpc[v] /\ wrun'[v] = wrun[v]
    BY <1>6 DEF Finish, TypeOK
  <2>5. QED
    BY <2>2, <2>3, <2>4 DEF TimedInv, EndTimed
<1>7. ASSUME NEW c \in Waiters, WaitStart(c) \/ WaitEnd(c) \/ WaitTimeout(c)
      PROVE  UNCHANGED <<status, cpc, wpc, wrun>>
  BY <1>7 DEF WaitStart, WaitEnd, WaitTimeout
<1>8. ASSUME Shutdown \/ Gathered \/ Drained \/ UNCHANGED vars
      PROVE  UNCHANGED <<status, cpc, wpc, wrun>>
  BY <1>8 DEF Shutdown, Gathered, Drained, vars
<1>9. (Goes /\ NoEnd) \/ UNCHANGED <<status, cpc, wpc, wrun>> => TimedInv'
  BY TimedKept
<1> HIDE DEF Goes, NoEnd
<1>10. QED
  BY <1>1, <1>2, <1>3, <1>4, <1>5, <1>6, <1>7, <1>8, <1>9
  DEF Next, Submitters, WorkerStep, PoolThreads, Cancellers, WaiterCalls, Rest

LEMMA TimeInit == Init => TimeInv
BY DEF Init, TimeInv, OneInLoop, ClockInv, TimedInv, Terminal, InLoop

LEMMA TimeAlways == Spec => [](TypeOK /\ LockInv /\ TimeInv)
<1>1. Init => TypeOK /\ LockInv /\ TimeInv
  BY TypeInit, TimeInit, PlaceInit
<1>2. TypeOK /\ LockInv /\ TimeInv /\ [Next]_vars => (TypeOK /\ LockInv /\ TimeInv)'
  BY TypeStep, LockStep, ClockStep, LoopStep, TimedStep DEF TimeInv, LockInv
<1>3. QED
  BY <1>1, <1>2, PTL DEF Spec

-----------------------------------------------------------------------------
(* The runs of the store that ended after r. *)
Later(at, r) == {s \in Completed : at[s] > at[r]}

LEMMA CompletedFinite ==
    ASSUME TypeOK
    PROVE  Completed \subseteq Runs /\ IsFiniteSet(Completed)
<1>1. Completed \subseteq Runs
  BY DEF Completed, TypeOK
<1>2. QED
  BY <1>1, FS_Subset, ConfigAssumption

LEMMA LaterFinite ==
    ASSUME TypeOK, NEW at, NEW r
    PROVE  IsFiniteSet(Later(at, r)) /\ Cardinality(Later(at, r)) \in Nat
<1>1. Later(at, r) \in SUBSET Completed
  BY DEF Later
<1>2. IsFiniteSet(Later(at, r))
  BY <1>1, CompletedFinite, FS_Subset
<1>3. QED
  BY <1>2, FS_CardinalityType

(* A run that stays has ended later than one that goes, if every run of the  *)
(* store that has ended has its time.                                       *)
LEMMA OldestGo ==
    ASSUME TypeOK, NEW at \in [Runs -> Nat], NEW t \in Nat,
           \A r \in Completed : at[r] # 0,
           NEW r \in Surplus(at) \cup Expired(at, t),
           NEW s \in Completed, s \notin Surplus(at) \cup Expired(at, t)
    PROVE  r \in Completed /\ at[r] < at[s]
<1>1. r \in Completed /\ at[r] \in Nat /\ at[s] \in Nat /\ at[s] # 0
  BY CompletedFinite DEF Surplus, Expired
<1>2. CASE r \in Expired(at, t)
  BY <1>1, <1>2 DEF Expired
<1>3. CASE r \in Surplus(at)
  <2>1. /\ ~(RetainLast < 0)
        /\ Cardinality(Later(at, r)) >= RetainLast
        /\ ~(Cardinality(Later(at, s)) >= RetainLast)
    BY <1>3 DEF Surplus, Later
  <2>2. SUFFICES ASSUME at[s] <= at[r] PROVE FALSE
    BY <1>1
  <2>3. Later(at, r) \in SUBSET Later(at, s)
    <3>1. \A x \in Completed : at[x] \in Nat
      BY CompletedFinite
    <3>2. QED
      BY <1>1, <2>2, <3>1 DEF Later
  <2>4. Cardinality(Later(at, r)) <= Cardinality(Later(at, s))
    BY <2>3, LaterFinite, FS_Subset
  <2>5. Cardinality(Later(at, r)) \in Nat /\ Cardinality(Later(at, s)) \in Nat
    BY LaterFinite
  <2>6. QED
    BY <2>1, <2>4, <2>5, ConfigAssumption
<1>4. QED
  BY <1>1, <1>2, <1>3

(* What stays is no more than retain_last_n. *)
LEMMA EnoughGo ==
    ASSUME TypeOK, NEW at \in [Runs -> Nat], RetainLast >= 0,
           \A r, s \in Completed : at[r] = at[s] => r = s,
           NEW K \in SUBSET (Completed \ Surplus(at))
    PROVE  Cardinality(K) <= RetainLast
<1>1. IsFiniteSet(K) /\ RetainLast \in Int
  BY CompletedFinite, FS_Subset, ConfigAssumption
<1>2. CASE K = {}
  BY <1>1, <1>2, FS_EmptySet
<1>3. CASE K # {}
  <2> DEFINE T == {at[r] : r \in K}
  <2>1. T \in SUBSET Nat /\ T # {}
    BY <1>3, CompletedFinite
  <2>2. Min(T) \in T /\ \A y \in T : Min(T) <= y
    <3> HIDE DEF T
    <3>1. QED
      BY <2>1, LeastExists
  <2>3. PICK m \in K : at[m] = Min(T)
    BY <2>2
  <2>4. \A r \in K : at[m] <= at[r]
    BY <2>2, <2>3
  <2> HIDE DEF T
  <2>5. K \ {m} \in SUBSET Later(at, m)
    <3>1. \A r \in K : r \in Completed /\ at[r] \in Nat
      BY CompletedFinite
    <3>2. \A r \in K \ {m} : at[r] > at[m]
      BY <2>4, <3>1
    <3>3. QED
      BY <3>1, <3>2 DEF Later
  <2>6. Cardinality(K \ {m}) <= Cardinality(Later(at, m))
    BY <2>5, LaterFinite, FS_Subset
  <2>7. ~(Cardinality(Later(at, m)) >= RetainLast)
    <3>1. m \in Completed /\ m \notin Surplus(at) /\ ~(RetainLast < 0)
      BY <1>1
    <3>2. QED
      BY <3>1 DEF Surplus, Later
  <2>8. IsFiniteSet(K \ {m}) /\ Cardinality(K \ {m}) = Cardinality(K) - 1
    BY <1>1, FS_RemoveElement
  <2>9. Cardinality(K) \in Nat /\ Cardinality(Later(at, m)) \in Nat
    BY <1>1, LaterFinite, FS_CardinalityType
  <2>10. QED
    BY <1>1, <2>6, <2>7, <2>8, <2>9
<1>4. QED
  BY <1>2, <1>3

(* Only the end of an execution removes runs, and takes a task back to the  *)
(* queue from there.                                                        *)
LEMMA OnlyFinishForgets ==
    ASSUME TypeOK, LockInv, [Next]_vars, ~PopOnWait
    PROVE  \/ \E w \in Tasks : Finish(w)
           \/ /\ stored \subseteq stored'
              /\ \A w \in Tasks : wpc[w] = "finishing" => wpc'[w] # "idle"
<1> USE DEF runVars, storeVars, queueVars, taskVars, lockVars, poolVars,
            clientVars, stopVars
<1> DEFINE Keeps == /\ stored \subseteq stored'
                    /\ \A w \in Tasks : wpc[w] = "finishing" => wpc'[w] # "idle"
<1>1. ASSUME NEW r \in Runs,
             \/ Submit(r) \/ CreateRun(r) \/ Enqueue(r) \/ PoolStart(r) \/ PoolEnd(r)
             \/ CancelPending(r) \/ CancelRunning(r) \/ ThreadRead(r)
             \/ ThreadMark(r) \/ ThreadCommit(r) \/ ThreadAnswer(r)
      PROVE  Keeps
  <2>1. stored \subseteq stored'
    BY <1>1 DEF Submit, CreateRun, Enqueue, PoolStart, PoolEnd, CancelPending,
                CancelRunning, ThreadRead, ThreadMark, ThreadCommit, ThreadAnswer, Created
  <2>2. LoopFree \/ UNCHANGED wpc
    BY <1>1 DEF Submit, CreateRun, Enqueue, PoolStart, PoolEnd, CancelPending,
                CancelRunning, ThreadRead, ThreadMark, ThreadCommit, ThreadAnswer
  <2>3. QED
    BY <2>1, <2>2 DEF LoopFree, InLoop
<1>2. ASSUME NEW w \in Tasks, WorkerStep(w), ~Finish(w) PROVE Keeps
  <2>1. UNCHANGED stored
    BY <1>2 DEF WorkerStep, Take, Acquire, MarkRunning, Start, Refuse, Timeout, Complete,
                EndRun, CancelIdle, CancelLockWait, CancelHandler
  <2>2. \/ LoopFree
        \/ wpc' = [wpc EXCEPT ![w] = "marked"]
        \/ wpc' = [wpc EXCEPT ![w] = "refused"]
        \/ wpc' = [wpc EXCEPT ![w] = "running"]
        \/ wpc' = [wpc EXCEPT ![w] = "finishing"]
    BY <1>2 DEF WorkerStep, Take, Acquire, MarkRunning, Start, Refuse, Timeout, Complete,
                EndRun, CancelIdle, CancelLockWait, CancelHandler
  <2>3. QED
    BY <2>1, <2>2 DEF LoopFree, InLoop, TypeOK
<1>3. ASSUME NEW c \in Waiters, WaitStart(c) \/ WaitEnd(c) \/ WaitTimeout(c) PROVE Keeps
  BY <1>3 DEF WaitStart, WaitEnd, WaitTimeout, Answer, PopRuns
<1>4. ASSUME Shutdown \/ Gathered \/ Drained \/ UNCHANGED vars PROVE Keeps
  BY <1>4 DEF Shutdown, Gathered, Drained, vars
<1> HIDE DEF Keeps
<1>5. Keeps \/ \E w \in Tasks : Finish(w)
  BY <1>1, <1>2, <1>3, <1>4
  DEF Next, Submitters, WorkerStep, PoolThreads, Cancellers, WaiterCalls, Rest
<1>6. QED
  BY <1>5 DEF Keeps

LEMMA TimesTyped ==
    ASSUME TypeOK, LockInv, [Next]_vars
    PROVE  finished_at' \in [Runs -> Nat]
<1>1. TypeOK'
  BY TypeStep DEF LockInv
<1>2. QED
  BY <1>1 DEF TypeOK

(* What cleanup removes when it does not raise: t is now - ttl_seconds. *)
LEMMA FinishForgets ==
    ASSUME TypeOK, LockInv, TimeInv, [Next]_vars, NEW w \in Tasks, Finish(w)
    PROVE  \/ UNCHANGED stored /\ wpc' = [wpc EXCEPT ![w] = "dead"]
           \/ \E t \in Nat :
                 LET gone == Surplus(finished_at') \cup Expired(finished_at', t) IN
                 /\ stored' = stored \ gone
                 /\ gone # {} \/ RetainLast >= 0 =>
                       \A r \in Completed : finished_at'[r] # 0
<1>1. CASE UNCHANGED storeVars /\ wpc' = [wpc EXCEPT ![w] = "dead"]
  BY <1>1 DEF storeVars
<1>2. CASE /\ Retention => ~Cancelling
           /\ \E t \in IF HasTTL THEN 0 .. clock ELSE {0} :
                 PopRuns(Surplus(finished_at') \cup Expired(finished_at', t), future)
  <2>1. PICK t \in IF HasTTL THEN 0 .. clock ELSE {0} :
                PopRuns(Surplus(finished_at') \cup Expired(finished_at', t), future)
    BY <1>2
  <2>2. t \in Nat /\ (~HasTTL => t = 0)
    BY <2>1 DEF TypeOK
  <2> DEFINE gone == Surplus(finished_at') \cup Expired(finished_at', t)
  <2>3. stored' = stored \ gone
    BY <2>1 DEF PopRuns
  <2>4. ASSUME gone # {} \/ RetainLast >= 0 PROVE Retention
    <3>1. CASE RetainLast >= 0
      BY <3>1 DEF Retention
    <3>2. CASE HasTTL
      BY <3>2 DEF Retention
    <3>3. CASE ~(RetainLast >= 0) /\ ~HasTTL
      <4>1. Surplus(finished_at') = {}
        BY <3>3, ConfigAssumption DEF Surplus
      <4>2. \A r \in Completed : finished_at'[r] \in Nat
        BY TimesTyped, CompletedFinite
      <4>3. Expired(finished_at', t) = {}
        BY <2>2, <3>3, <4>2 DEF Expired
      <4>4. QED
        BY <2>4, <3>3, <4>1, <4>3
    <3>4. QED
      BY <3>1, <3>2, <3>3
  <2>5. ASSUME Retention, NEW r \in Completed PROVE finished_at'[r] # 0
    <3>1. r \in Runs /\ status[r] \in Terminal
      BY CompletedFinite DEF Completed
    <3>2. cpc[r] # "marked"
      BY <1>2, <2>5, <3>1 DEF Cancelling
    <3>3. clock \in Nat /\ finished_at \in [Runs -> Nat]
      BY DEF TypeOK
    <3>4. finished_at' = [finished_at EXCEPT ![wrun[w]] = clock + 1] /\ wpc[w] \in InLoop
      BY DEF Finish, InLoop
    <3>5. CASE finished_at[r] # 0
      BY <3>1, <3>3, <3>4, <3>5
    <3>6. CASE \E v \in Tasks : wpc[v] = "finishing" /\ wrun[v] = r
      <4>1. wrun[w] = r
        BY <3>4, <3>6 DEF TimeInv, OneInLoop, InLoop
      <4>2. QED
        BY <3>1, <3>3, <3>4, <4>1
    <3>7. QED
      BY <3>1, <3>2, <3>5, <3>6 DEF TimeInv, TimedInv, EndTimed
  <2> HIDE DEF gone
  <2>6. gone # {} \/ RetainLast >= 0 => \A r \in Completed : finished_at'[r] # 0
    BY <2>4, <2>5
  <2>7. QED
    BY <2>2, <2>3, <2>6 DEF gone
<1>3. QED
  BY <1>1, <1>2 DEF Finish

(* The action of CleanupKeepsNewest. *)
CleanupStep ==
    /\ \A r \in stored \ stored' :
          /\ status[r] \in Terminal
          /\ \A s \in Completed \cap stored' : finished_at'[r] < finished_at'[s]
    /\ \A w \in Tasks :
          wpc[w] = "finishing" /\ wpc'[w] = "idle" /\ RetainLast >= 0 =>
              Cardinality({r \in stored' : status'[r] \in Terminal}) <= RetainLast

LEMMA FinishKeepsNewest ==
    ASSUME TypeOK, LockInv, TimeInv, [Next]_vars, NEW w \in Tasks, Finish(w)
    PROVE  CleanupStep
<1>1. CASE UNCHANGED stored /\ wpc' = [wpc EXCEPT ![w] = "dead"]
  <2>1. \A v \in Tasks : wpc[v] = "finishing" => v = w
    BY DEF TimeInv, OneInLoop, Finish, InLoop
  <2>2. wpc'[w] = "dead"
    BY <1>1 DEF TypeOK
  <2>3. QED
    BY <1>1, <2>1, <2>2 DEF CleanupStep
<1>2. CASE \E t \in Nat :
              LET gone == Surplus(finished_at') \cup Expired(finished_at', t) IN
              /\ stored' = stored \ gone
              /\ gone # {} \/ RetainLast >= 0 =>
                    \A r \in Completed : finished_at'[r] # 0
  <2>1. PICK t \in Nat :
              LET gone == Surplus(finished_at') \cup Expired(finished_at', t) IN
              /\ stored' = stored \ gone
              /\ gone # {} \/ RetainLast >= 0 =>
                    \A r \in Completed : finished_at'[r] # 0
    BY <1>2
  <2> DEFINE gone == Surplus(finished_at') \cup Expired(finished_at', t)
  <2>2. /\ stored' = stored \ gone
        /\ gone # {} \/ RetainLast >= 0 => \A r \in Completed : finished_at'[r] # 0
    BY <2>1
  <2>3. finished_at' \in [Runs -> Nat] /\ status' = status
    BY TimesTyped DEF Finish
  <2>4. ASSUME NEW r \in stored \ stored'
        PROVE  /\ status[r] \in Terminal
               /\ \A s \in Completed \cap stored' : finished_at'[r] < finished_at'[s]
    <3>1. r \in gone
      BY <2>2, <2>4
    <3>2. \A s \in Completed : finished_at'[s] # 0
      BY <2>2, <3>1
    <3>3. \A s \in Completed \cap stored' : s \in Completed /\ s \notin gone
      BY <2>2
    <3>4. r \in Completed
      BY <3>1 DEF gone, Surplus, Expired
    <3>5. \A s \in Completed : s \notin gone => finished_at'[r] < finished_at'[s]
      BY <2>3, <3>1, <3>2, OldestGo
    <3> HIDE DEF gone
    <3>6. QED
      BY <3>3, <3>4, <3>5 DEF Completed
  <2>5. ASSUME RetainLast >= 0
        PROVE  Cardinality({r \in stored' : status'[r] \in Terminal}) <= RetainLast
    <3> DEFINE K == {r \in stored' : status'[r] \in Terminal}
    <3>1. K \in SUBSET (Completed \ Surplus(finished_at'))
      BY <2>2, <2>3 DEF Completed
    <3>2. \A r, s \in Completed : finished_at'[r] = finished_at'[s] => r = s
      <4>1. ClockInv'
        BY ClockStep DEF TimeInv
      <4>2. \A r \in Completed : r \in Runs /\ finished_at'[r] # 0
        BY <2>2, <2>5, CompletedFinite
      <4>3. QED
        BY <4>1, <4>2 DEF ClockInv
    <3> HIDE DEF K
    <3>3. Cardinality(K) <= RetainLast
      BY <2>3, <2>5, <3>1, <3>2, EnoughGo
    <3>4. QED
      BY <3>3 DEF K
  <2>6. QED
    BY <2>4, <2>5 DEF CleanupStep
<1>3. QED
  BY <1>1, <1>2, FinishForgets

(* Cleanup forgets only runs that have ended, the oldest first, whatever     *)
(* other threads cancel meanwhile, and when an execution is over it leaves  *)
(* no more than retain_last_n of them in the store, unless its sort raised. *)
THEOREM OldestForgotten ==
    ASSUME ~PopOnWait
    PROVE  Spec => CleanupKeepsNewest
<1>1. TypeOK /\ LockInv /\ TimeInv /\ [Next]_vars => [CleanupStep]_vars
  <2> SUFFICES ASSUME TypeOK, LockInv, TimeInv, [Next]_vars
               PROVE  CleanupStep
    OBVIOUS
  <2>1. CASE \E w \in Tasks : Finish(w)
    BY <2>1, FinishKeepsNewest
  <2>2. CASE /\ stored \subseteq stored'
             /\ \A w \in Tasks : wpc[w] = "finishing" => wpc'[w] # "idle"
    BY <2>2 DEF CleanupStep
  <2>3. QED
    BY <2>1, <2>2, OnlyFinishForgets
<1>2. [][CleanupStep]_vars => CleanupKeepsNewest
  BY PTL DEF CleanupKeepsNewest, CleanupStep
<1>3. QED
  BY <1>1, <1>2, TimeAlways, PTL DEF Spec

-----------------------------------------------------------------------------
(* The executor implements the service *)

(* The configurations in which it does: ids are known when the run is on    *)
(* the queue, cancel is called on the loop, waiters have no timeout of      *)
(* their own and take nothing out of the store, and nobody calls shutdown.  *)
Serving == /\ EarlyIds = {} /\ ThreadCancels = {} /\ TimedWaiters = {}
           /\ ~PopOnWait /\ ~MayShutdown

(* What the clients see of a run, of the store and of a waiter. *)
Stage == [r \in Runs |-> IF spc[r] = "submitted" THEN status[r] ELSE "new"]
Forgotten == {r \in Runs : spc[r] = "submitted" /\ r \notin stored}
Told == [c \in Waiters |-> IF wait[c] \in {"new", "waiting"} THEN "nothing" ELSE wait[c]]

(* A run that is RUNNING has its task inside the lock. *)
RunningHeld ==
    \A r \in Runs : status[r] = "RUNNING" =>
        \E w \in Tasks : wrun[w] = r /\ Inside(w)

(* A task leaves a run only when it has ended. *)
FinishEnded ==
    \A w \in Tasks : /\ wpc[w] # "aborting"
                     /\ wpc[w] = "finishing" => status[wrun[w]] \in Terminal

(* A run that the store has has a future. *)
ServeInv ==
    /\ TellInv /\ UpInv /\ stop = "up"
    /\ RunningHeld /\ FinishEnded
    /\ \A r \in stored : Submitted(r) => r \in futures

LEMMA ServeInit == Init => ServeInv
<1> SUFFICES ASSUME Init PROVE ServeInv
  OBVIOUS
<1>1. TellInv /\ UpInv
  BY TellInvInit, UpInit
<1>2. RunningHeld /\ FinishEnded
  BY DEF Init, RunningHeld, FinishEnded
<1>3. QED
  BY <1>1, <1>2 DEF Init, ServeInv

(* Tasks keep the runs that are RUNNING, and no run starts to run. *)
LEMMA HeldKept ==
    ASSUME RunningHeld,
           \A r \in Runs : status'[r] = "RUNNING" => status[r] = "RUNNING",
           \A w \in Tasks : Inside(w) /\ status'[wrun[w]] = "RUNNING" =>
               wrun'[w] = wrun[w] /\ Inside(w)'
    PROVE  RunningHeld'
BY DEF RunningHeld

(* No task gets to its finally clause. *)
LEMMA EndedKept ==
    ASSUME FinishEnded, HasRun,
           \A r \in Runs : status[r] \in Terminal => status'[r] = status[r],
           \A w \in Tasks : /\ wpc'[w] # "aborting"
                            /\ wpc'[w] = "finishing" =>
                                  wpc[w] = "finishing" /\ wrun'[w] = wrun[w]
    PROVE  FinishEnded'
BY DEF FinishEnded, HasRun, Inside, InLoop

(* What the store has been given it keeps with its future. *)
LEMMA PopKeepsPairs ==
    ASSUME \A r \in stored : Submitted(r) => r \in futures, UNCHANGED spc,
           \/ UNCHANGED <<stored, futures>>
           \/ \E S : stored' = stored \ S /\ futures' = futures \ S
    PROVE  \A r \in stored' : Submitted(r)' => r \in futures'
BY DEF Submitted

LEMMA ServeStays ==
    ASSUME Serving, ServeInv, [Next]_vars
    PROVE  /\ ~Shutdown /\ ~Gathered /\ ~Drained
           /\ TellInv' /\ UpInv' /\ stop' = "up"
           /\ cancel_req = {} /\ TypeOK /\ LockInv /\ PlaceInv /\ EndingInv
<1>1. ~Shutdown /\ ~Gathered /\ ~Drained
  BY DEF Serving, ServeInv, Shutdown, Gathered, Drained
<1>2. stop' = "up"
  BY <1>1, ShutdownOnly DEF ServeInv
<1>3. TellInv'
  BY TellInvStep DEF Serving, ServeInv
<1>4. TypeOK /\ LockInv /\ PlaceInv /\ EndingInv
  BY DEF ServeInv, TellInv, EndInv
<1>5. UpInv'
  BY <1>1, <1>4, UpStep DEF Serving, ServeInv
<1>6. QED
  BY <1>1, <1>2, <1>3, <1>4, <1>5 DEF ServeInv, UpInv


LEMMA ServeStep ==
    ASSUME Serving, ServeInv, [Next]_vars
    PROVE  ServeInv'
<1> USE DEF runVars, storeVars, queueVars, taskVars, lockVars, poolVars,
            clientVars, stopVars
<1> DEFINE Pairs == \A r \in stored : Submitted(r) => r \in futures
<1>1. /\ ~Shutdown /\ ~Gathered /\ ~Drained
      /\ TellInv' /\ UpInv' /\ stop' = "up"
      /\ cancel_req = {} /\ TypeOK /\ LockInv /\ PlaceInv /\ EndingInv
  BY ServeStays
<1>2. RunningHeld /\ FinishEnded /\ Pairs
  BY DEF ServeInv
<1>3. /\ HasRun
       /\ \A r \in Runs : status[r] \in Terminal => status'[r] = status[r]
  BY <1>1, EndingStep DEF Serving, LockInv
<1> DEFINE Done == RunningHeld' /\ FinishEnded' /\ Pairs'
<1>4. ASSUME NEW r \in Runs, Submit(r) \/ Enqueue(r) PROVE Done
  <2>1. /\ EnqueueRun(r) /\ UNCHANGED <<status, wrun>>
        /\ stored' \subseteq stored \cup {r}
    BY <1>4 DEF Submit, Enqueue, Created
  <2>2. \A w \in Tasks : wpc'[w] # wpc[w] => wpc'[w] = "idle" /\ wpc[w] = "unborn"
    <3>1. CASE pool # {}
      BY <2>1, <3>1 DEF EnqueueRun, StartWorkers
    <3>2. CASE pool = {}
      BY <2>1, <3>2 DEF EnqueueRun, StartWorkers
    <3>3. QED
      BY <3>1, <3>2
  <2>3. \A w \in Tasks : Inside(w) => Inside(w)'
    BY <2>2 DEF Inside, InLoop
  <2>4. RunningHeld'
    BY <1>2, <2>1, <2>3, HeldKept
  <2>5. Pairs'
    BY <1>1, <1>2, <2>1 DEF EnqueueRun, Submitted, TypeOK
  <2>6. FinishEnded'
    BY <1>2, <1>3, <2>1, <2>2, EndedKept DEF FinishEnded
  <2>7. QED
    BY <2>4, <2>5, <2>6
<1>5. ASSUME NEW w \in Tasks, Take(w) \/ Acquire(w) PROVE Done
  <2>1. /\ UNCHANGED <<status, stored, futures, spc>>
        /\ ~Inside(w) /\ wpc[w] \in {"idle", "lock"}
    BY <1>5 DEF Take, Acquire, Inside, InLoop
  <2>2. /\ \A v \in Tasks : v # w => wpc'[v] = wpc[v] /\ wrun'[v] = wrun[v]
        /\ wpc'[w] \in {"idle", "lock", "checked"}
    BY <1>1, <1>5 DEF Take, Acquire, Enter, TypeOK
  <2>3. RunningHeld'
    BY <1>2, <2>1, <2>2, HeldKept DEF Inside
  <2>4. FinishEnded'
    BY <1>2, <1>3, <2>2, EndedKept DEF FinishEnded
  <2>5. QED
    BY <1>2, <2>1, <2>3, <2>4 DEF Submitted
<1>6. ASSUME NEW w \in Tasks, MarkRunning(w) PROVE Done
  <2>1. /\ Inside(w) /\ wrun[w] \in Runs
        /\ status' = [status EXCEPT ![wrun[w]] = "RUNNING"]
        /\ wpc' = [wpc EXCEPT ![w] = "marked"]
        /\ UNCHANGED <<wrun, stored, futures, spc>>
    BY <1>1, <1>6 DEF MarkRunning, LockInv, HasRun, Inside, InLoop
  <2>2. \A v \in Tasks : Inside(v) => Inside(v)'
    BY <1>1, <2>1 DEF Inside, InLoop, TypeOK
  <2>3. \A r \in Runs : status'[r] = "RUNNING" => status[r] = "RUNNING" \/ r = wrun[w]
    BY <1>1, <2>1 DEF TypeOK
  <2>4. RunningHeld'
    BY <1>2, <2>1, <2>2, <2>3 DEF RunningHeld
  <2>5. \A v \in Tasks : wpc'[v] = IF v = w THEN "marked" ELSE wpc[v]
    BY <1>1, <2>1 DEF TypeOK
  <2>6. FinishEnded'
    BY <1>2, <1>3, <2>1, <2>5, EndedKept DEF FinishEnded
  <2>7. QED
    BY <1>2, <2>1, <2>4, <2>6 DEF Submitted
<1>7. ASSUME NEW w \in Tasks, Start(w) PROVE Done
  <2>1. /\ Inside(w)
        /\ \E p \in {"refused", "running"} : wpc' = [wpc EXCEPT ![w] = p]
        /\ UNCHANGED <<status, wrun, stored, futures, spc>>
    BY <1>7 DEF Start, Inside, InLoop
  <2>2. \A v \in Tasks : Inside(v) => Inside(v)'
    BY <1>1, <2>1 DEF Inside, InLoop, TypeOK
  <2>3. RunningHeld'
    BY <1>2, <2>1, <2>2, HeldKept
  <2>4. \A v \in Tasks : wpc'[v] \in {wpc[v], "refused", "running"}
    BY <1>1, <2>1 DEF TypeOK
  <2>5. FinishEnded'
    BY <1>2, <1>3, <2>1, <2>4, EndedKept DEF FinishEnded
  <2>6. QED
    BY <1>2, <2>1, <2>3, <2>5 DEF Submitted
<1>8. ASSUME NEW w \in Tasks, NEW end \in Ends, EndRun(w, end),
             wpc[w] \in {"refused", "running"}
      PROVE  Done
  <2>1. /\ status' = [status EXCEPT ![wrun[w]] = StatusOf[end]]
        /\ wpc' = [wpc EXCEPT ![w] = "finishing"]
        /\ UNCHANGED <<wrun, stored, futures, spc>>
        /\ StatusOf[end] # "RUNNING" /\ StatusOf[end] \in Terminal
    BY <1>8 DEF EndRun, Ends, StatusOf, Terminal
  <2>2. \A v \in Tasks : Inside(v) => Inside(v)'
    BY <1>1, <2>1 DEF Inside, InLoop, TypeOK
  <2>3. \A r \in Runs : status'[r] = "RUNNING" => status[r] = "RUNNING"
    BY <1>1, <2>1 DEF TypeOK
  <2>4. RunningHeld'
    BY <1>2, <2>1, <2>2, <2>3, HeldKept
  <2>5. wrun[w] \in Runs
    BY <1>8, <1>3 DEF HasRun, Inside, InLoop
  <2>6. /\ status'[wrun[w]] = StatusOf[end]
        /\ \A v \in Tasks : wpc'[v] = IF v = w THEN "finishing" ELSE wpc[v]
    BY <1>1, <2>1, <2>5 DEF TypeOK
  <2>7. ASSUME NEW v \in Tasks, wpc'[v] = "finishing"
        PROVE  status'[wrun'[v]] \in Terminal
    <3>1. CASE v = w
      BY <2>1, <2>6, <3>1
    <3>2. CASE v # w
      <4>1. wpc[v] = "finishing" /\ wrun[v] \in Runs
        BY <1>3, <2>6, <2>7, <3>2 DEF HasRun, Inside, InLoop
      <4>2. status[wrun[v]] \in Terminal
        BY <1>2, <4>1 DEF FinishEnded
      <4>3. QED
        BY <1>3, <2>1, <4>1, <4>2
    <3>3. QED
      BY <3>1, <3>2
  <2>8. FinishEnded'
    BY <1>2, <2>6, <2>7 DEF FinishEnded
  <2>9. QED
    BY <1>2, <2>1, <2>4, <2>8 DEF Submitted
<1>9. ASSUME NEW w \in Tasks, Finish(w) PROVE Done
  <2>1. /\ wpc[w] = "finishing"
        /\ wrun' = [wrun EXCEPT ![w] = NoRun]
        /\ \E p \in {"idle", "done", "dead"} : wpc' = [wpc EXCEPT ![w] = p]
        /\ UNCHANGED <<status, spc>>
    BY <1>2, <1>9 DEF Finish, FinishEnded
  <2>2. \A v \in Tasks : v # w => wpc'[v] = wpc[v] /\ wrun'[v] = wrun[v]
    BY <1>1, <2>1 DEF TypeOK
  <2>3. status[wrun[w]] # "RUNNING"
    BY <1>2, <2>1 DEF FinishEnded, Terminal
  <2>4. RunningHeld'
    BY <1>2, <2>1, <2>2, <2>3, HeldKept DEF Inside
  <2>5. \/ UNCHANGED <<stored, futures>>
        \/ \E S : stored' = stored \ S /\ futures' = futures \ S
    BY <1>9 DEF Finish, PopRuns
  <2>6. Pairs'
    BY <1>2, <2>1, <2>5, PopKeepsPairs
  <2>7. wpc'[w] # "aborting" /\ wpc'[w] # "finishing"
    BY <1>1, <2>1 DEF TypeOK
  <2>8. FinishEnded'
    BY <1>2, <1>3, <2>2, <2>7, EndedKept DEF FinishEnded
  <2>9. QED
    BY <2>4, <2>6, <2>8
<1>10. ASSUME NEW r \in Runs, CancelPending(r) PROVE Done
  <2>1. /\ status' = [status EXCEPT ![r] = "CANCELLED"]
        /\ UNCHANGED <<wpc, wrun, stored, futures, spc>>
    BY <1>10 DEF CancelPending
  <2>2. \A s \in Runs : status'[s] = "RUNNING" => status[s] = "RUNNING"
    BY <1>1, <2>1 DEF TypeOK
  <2>3. RunningHeld'
    BY <1>2, <2>1, <2>2, HeldKept DEF Inside
  <2>4. FinishEnded'
    BY <1>2, <1>3, <2>1, EndedKept DEF FinishEnded
  <2>5. QED
    BY <1>2, <2>1, <2>3, <2>4 DEF Submitted
<1>11. ASSUME NEW c \in Waiters, WaitStart(c) \/ WaitEnd(c) PROVE Done
  <2>1. /\ UNCHANGED <<status, wpc, wrun, spc>>
        /\ \/ UNCHANGED <<stored, futures>>
           \/ \E S : stored' = stored \ S /\ futures' = futures \ S
    BY <1>11 DEF WaitStart, WaitEnd, Answer, PopRuns
  <2>2. Pairs'
    BY <1>2, <2>1, PopKeepsPairs
  <2>3. RunningHeld'
    BY <1>2, <2>1, HeldKept DEF Inside
  <2>4. FinishEnded'
    BY <1>2, <1>3, <2>1, EndedKept DEF FinishEnded
  <2>5. QED
    BY <2>2, <2>3, <2>4
<1>12. ASSUME NEW r \in Runs, CreateRun(r) PROVE Done
  <2>1. /\ UNCHANGED <<status, wpc, wrun, futures>>
        /\ stored' = stored \cup {r} /\ spc' = [spc EXCEPT ![r] = "created"]
    BY <1>12 DEF CreateRun, Created
  <2>2. RunningHeld'
    BY <1>2, <2>1, HeldKept DEF Inside
  <2>3. Pairs'
    BY <1>1, <1>2, <2>1 DEF Submitted, TypeOK
  <2>4. FinishEnded'
    BY <1>2, <1>3, <2>1, EndedKept DEF FinishEnded
  <2>5. QED
    BY <2>2, <2>3, <2>4
<1>13. ASSUME UNCHANGED <<status, wpc, wrun, stored, futures, spc>> PROVE Done
  <2>1. RunningHeld'
    BY <1>2, <1>13, HeldKept DEF Inside
  <2>2. FinishEnded'
    BY <1>2, <1>13, <1>3, EndedKept DEF FinishEnded
  <2>3. Pairs'
    BY <1>2, <1>13 DEF Submitted
  <2>4. QED
    BY <2>1, <2>2, <2>3
<1>14. ASSUME NEW r \in Runs, PoolStart(r) \/ PoolEnd(r) \/ CancelRunning(r)
       PROVE  UNCHANGED <<status, wpc, wrun, stored, futures, spc>>
  BY <1>14 DEF PoolStart, PoolEnd, CancelRunning
<1>15. ASSUME NEW w \in Tasks, CancelIdle(w) \/ CancelLockWait(w) \/ CancelHandler(w)
       PROVE  FALSE
  BY <1>1, <1>15 DEF CancelIdle, CancelLockWait, CancelHandler
<1>16. ASSUME NEW r \in Runs,
              ThreadRead(r) \/ ThreadMark(r) \/ ThreadCommit(r) \/ ThreadAnswer(r)
       PROVE  FALSE
  BY <1>1, <1>16 DEF Serving, ThreadRead, CanCancel, ThreadMark, ThreadCommit,
                     ThreadAnswer, EndingInv, CancelsOnLoop
<1>17. ASSUME NEW c \in Waiters, WaitTimeout(c) PROVE FALSE
  BY <1>17 DEF Serving, WaitTimeout
<1>18. ASSUME NEW w \in Tasks, WorkerStep(w) PROVE Done
  <2>1. ASSUME NEW end \in Ends, Complete(w, end) PROVE Done
    BY <1>8, <2>1 DEF Complete
  <2>2. CASE Refuse(w)
    BY <1>8, <2>2 DEF Refuse, Ends
  <2>3. CASE Timeout(w)
    BY <1>8, <2>3 DEF Timeout, Ends
  <2>4. QED
    BY <1>5, <1>6, <1>7, <1>9, <1>15, <1>18, <2>1, <2>2, <2>3 DEF WorkerStep
<1>19. Done
  <2>1. CASE UNCHANGED vars
    BY <1>13, <2>1 DEF vars
  <2>2. CASE Next
    BY <1>1, <1>4, <1>10, <1>11, <1>12, <1>13, <1>14, <1>16, <1>17, <1>18, <2>1, <2>2
    DEF Next, Submitters, PoolThreads, Cancellers, WaiterCalls, Rest
  <2>3. QED
    BY <2>1, <2>2
<1>20. QED
  BY <1>1, <1>19 DEF ServeInv

(* What the clients see of a run that is on the queue. *)
LEMMA Seen ==
    \A r \in Runs : /\ Stage[r] = (IF Submitted(r) THEN status[r] ELSE "new")
                    /\ r \in Forgotten <=> Submitted(r) /\ r \notin stored
BY DEF Stage, Forgotten, Submitted

LEMMA EndedNames == Service!Ended = Terminal
BY DEF Service!Ended, Terminal

(* A run that the store has dropped has ended. *)
LEMMA ForgottenEnded ==
    ASSUME ServeInv, NEW r \in Runs, Submitted(r), r \notin stored
    PROVE  status[r] \in Terminal
BY DEF ServeInv, TellInv, EndInv, TypeOK, StoredInv, FuturesStored, FutureInv,
       Statuses, Terminal

(* When a task marks its run RUNNING, every earlier run with the key has    *)
(* ended: none is PENDING behind it, and none is inside the lock beside it. *)
LEMMA TurnHasCome ==
    ASSUME ServeInv, NEW w \in Tasks, wpc[w] = "checked",
           NEW i \in 1 .. Len(order), NEW j \in 1 .. Len(order),
           i < j, order[j] = wrun[w],
           lock_key[order[i]] = lock_key[wrun[w]], lock_key[wrun[w]] # NoKey
    PROVE  status[order[i]] \in Terminal
<1> DEFINE r == order[i]
<1>1. TypeOK /\ LockInv /\ OrderInv /\ FifoInv /\ RunningHeld
  BY DEF ServeInv, TellInv, EndInv, UpInv
<1>2. r \in Runs /\ Inside(w)
  BY <1>1 DEF TypeOK, Inside, InLoop
<1>3. Conflict(r, order[j])
  BY <1>1 DEF OrderInv, Conflict
<1>4. status[r] # "PENDING"
  BY <1>1, <1>3 DEF FifoInv
<1>5. ASSUME status[r] = "RUNNING" PROVE FALSE
  <2>1. PICK v \in Tasks : wrun[v] = r /\ Inside(v)
    BY <1>1, <1>2, <1>5 DEF RunningHeld
  <2>2. holder[lock_key[wrun[w]]] = v /\ holder[lock_key[wrun[w]]] = w
    BY <1>1, <1>2, <2>1 DEF LockInv, OwnsLock
  <2>3. QED
    BY <1>3, <2>1, <2>2 DEF Conflict
<1>6. QED
  BY <1>1, <1>2, <1>4, <1>5 DEF TypeOK, Statuses, Terminal

(* A run on the queue that has not ended gets a status. *)
LEMMA StageMoves ==
    ASSUME TypeOK, NEW r \in Runs, Submitted(r), NEW s,
           status' = [status EXCEPT ![r] = s], UNCHANGED spc
    PROVE  Stage' = [Stage EXCEPT ![r] = s]
BY DEF TypeOK, Stage, Submitted

LEMMA ServiceStep ==
    ASSUME Serving, ServeInv, ServeInv', [Next]_vars
    PROVE  [Service!Next]_(Service!vars)
<1> USE DEF runVars, storeVars, queueVars, taskVars, lockVars, poolVars,
            clientVars, stopVars
<1> DEFINE Step == [Service!Next]_(Service!vars)
<1>1. /\ ~Shutdown /\ ~Gathered /\ ~Drained
      /\ cancel_req = {} /\ TypeOK /\ LockInv /\ PlaceInv /\ EndingInv
      /\ StoredInv /\ FutureInv
  BY ServeStays DEF ServeInv, TellInv
<1>2. ASSUME UNCHANGED <<order, Stage, Forgotten, Told>> PROVE Step
  BY <1>2 DEF Service!vars, Stage, Forgotten, Told
<1>3. ASSUME NEW r \in Runs, Submit(r) \/ Enqueue(r) PROVE Step
  <2>1. /\ ~Submitted(r) /\ status[r] = "PENDING"
        /\ stored' = stored \cup {r}
        /\ order' = Append(order, r)
        /\ spc' = [spc EXCEPT ![r] = "submitted"]
        /\ UNCHANGED <<status, wait>>
    BY <1>1, <1>3 DEF Submit, Enqueue, EnqueueRun, Created, Submitted, StoredInv
  <2>2. \A s \in Runs : Submitted(s)' <=> Submitted(s) \/ s = r
    BY <1>1, <2>1 DEF TypeOK, Submitted
  <2>3. Stage' = [Stage EXCEPT ![r] = "PENDING"] /\ Stage[r] = "new"
    BY <2>1, <2>2 DEF Stage, Submitted
  <2>4. Forgotten' = Forgotten
    BY <1>1, <2>1 DEF Forgotten, TypeOK, Submitted
  <2>5. Told' = Told
    BY <2>1 DEF Told
  <2>6. Service!Accept(r)
    BY <2>1, <2>3, <2>4, <2>5 DEF Service!Accept, Stage, Forgotten, Told
  <2>7. QED
    BY <2>6 DEF Service!Next
<1>4. ASSUME NEW r \in Runs, CreateRun(r) PROVE Step
  <2>1. /\ UNCHANGED <<order, status, wait>>
        /\ stored' = stored \cup {r} /\ ~Submitted(r)
        /\ spc' = [spc EXCEPT ![r] = "created"]
    BY <1>4 DEF CreateRun, Created, Submitted
  <2>2. \A s \in Runs : Submitted(s)' <=> Submitted(s)
    BY <1>1, <2>1 DEF TypeOK, Submitted
  <2>3. Stage' = Stage /\ Forgotten' = Forgotten /\ Told' = Told
    BY <2>1, <2>2 DEF Stage, Forgotten, Told, Submitted
  <2>4. QED
    BY <1>2, <2>1, <2>3
<1>5. ASSUME NEW w \in Tasks, MarkRunning(w) PROVE Step
  <2>1. wpc[w] = "checked" /\ wrun[w] \in Runs
    BY <1>1, <1>5 DEF MarkRunning, LockInv, HasRun, Inside, InLoop
  <2> PICK r \in Runs : r = wrun[w]
    BY <2>1
  <2>2. /\ wpc[w] = "checked"
        /\ status' = [status EXCEPT ![r] = "RUNNING"]
        /\ UNCHANGED <<order, spc, stored, wait>>
    BY <1>5 DEF MarkRunning
  <2>3. r \in Runs /\ Submitted(r) /\ status[r] = "PENDING"
    BY <1>1, <2>2, ConfigAssumption DEF PlaceInv, HandedOver, EndingInv, StatusFollows
  <2>4. Stage[r] = "PENDING"
    BY <2>3, Seen
  <2>5. Stage' = [Stage EXCEPT ![r] = "RUNNING"]
    BY <1>1, <2>2, <2>3, StageMoves
  <2>6. Forgotten' = Forgotten /\ Told' = Told
    BY <2>2 DEF Forgotten, Told
  <2>7. ASSUME NEW i \in 1 .. Len(order), NEW j \in 1 .. Len(order),
               i < j, order[j] = r, Service!SameKey(order[i], r)
        PROVE  Stage[order[i]] \in Service!Ended
    <3>1. status[order[i]] \in Terminal
      BY <2>2, <2>7, TurnHasCome DEF Service!SameKey
    <3>2. order[i] \in Runs /\ Submitted(order[i])
      <4>1. order \in Seq(Runs)
        BY <1>1 DEF TypeOK
      <4>2. OrderInv
        BY DEF ServeInv, UpInv
      <4>3. QED
        BY <4>1, <4>2 DEF OrderInv
    <3>3. QED
      BY <3>1, <3>2, Seen, EndedNames
  <2>8. Service!Turn(r)
    BY <2>7 DEF Service!Turn, Stage
  <2>9. Service!Begin(r)
    BY <2>2, <2>4, <2>5, <2>6, <2>8 DEF Service!Begin, Stage, Forgotten, Told
  <2>10. QED
    BY <2>3, <2>9 DEF Service!Next
<1>6. ASSUME NEW r \in Runs, NEW s \in Terminal, Submitted(r),
             status' = [status EXCEPT ![r] = s],
             status[r] = "RUNNING" \/ (status[r] = "PENDING" /\ s = "CANCELLED"),
             UNCHANGED <<order, spc, stored, wait>>
      PROVE  Step
  <2>1. Stage[r] = status[r] /\ s \in Service!Ended
    BY <1>6, Seen, EndedNames
  <2>2. Stage' = [Stage EXCEPT ![r] = s]
    BY <1>1, <1>6, StageMoves
  <2>3. Forgotten' = Forgotten /\ Told' = Told
    BY <1>6 DEF Forgotten, Told
  <2>4. Service!End(r, s)
    BY <1>6, <2>1, <2>2, <2>3 DEF Service!End, Stage, Forgotten, Told
  <2>5. QED
    BY <2>1, <2>4 DEF Service!Next
<1>7. ASSUME NEW w \in Tasks, NEW end \in Ends, EndRun(w, end),
             wpc[w] \in {"refused", "running"}
      PROVE  Step
  <2>1. /\ wrun[w] \in Runs /\ Submitted(wrun[w]) /\ status[wrun[w]] = "RUNNING"
    BY <1>1, <1>7, ConfigAssumption
    DEF LockInv, HasRun, PlaceInv, HandedOver, EndingInv, StatusFollows, Inside, InLoop
  <2>2. /\ status' = [status EXCEPT ![wrun[w]] = StatusOf[end]]
        /\ UNCHANGED <<order, spc, stored, wait>>
    BY <1>7 DEF EndRun
  <2>3. StatusOf[end] \in Terminal
    BY DEF Ends, StatusOf, Terminal
  <2>4. QED
    BY <1>6, <2>1, <2>2, <2>3
<1>8. ASSUME NEW r \in Runs, CancelPending(r) PROVE Step
  <2>1. /\ Submitted(r) /\ status[r] = "PENDING"
        /\ status' = [status EXCEPT ![r] = "CANCELLED"]
        /\ UNCHANGED <<order, spc, stored, wait>>
    BY <1>8 DEF CancelPending, CanCancel, Known, Serving, Submitted
  <2>2. QED
    BY <1>6, <2>1 DEF Terminal
<1>9. ASSUME NEW w \in Tasks, Finish(w) PROVE Step
  <2>1. /\ UNCHANGED <<order, spc, status, wait>>
        /\ stored' \subseteq stored
    BY <1>9 DEF Finish, PopRuns
  <2>2. Stage' = Stage /\ Told' = Told /\ Forgotten \subseteq Forgotten'
    BY <2>1 DEF Stage, Told, Forgotten
  <2>3. \A r \in Runs \ stored' : Submitted(r)' => status'[r] \in Terminal
    BY DEF ServeInv, TellInv, EndInv, TypeOK, StoredInv, FuturesStored, FutureInv,
           Statuses, Terminal
  <2>4. ASSUME NEW r \in Forgotten' PROVE Stage[r] \in Service!Ended
    <3>1. r \in Runs /\ Submitted(r)' /\ r \notin stored'
      BY <2>4 DEF Forgotten, Submitted
    <3>2. Submitted(r) /\ status[r] \in Terminal
      BY <2>1, <2>3, <3>1 DEF Submitted
    <3>3. QED
      BY <3>1, <3>2, Seen, EndedNames
  <2>5. Service!Forget
    BY <2>1, <2>2, <2>4 DEF Service!Forget, Stage, Forgotten, Told
  <2>6. QED
    BY <2>5 DEF Service!Next
<1>10. ASSUME NEW c \in Waiters, NEW answer \in {"result", "error", "none"},
              wait[c] \in {"new", "waiting"},
              wait' = [wait EXCEPT ![c] = answer],
              Submitted(waits_on[c]), status[waits_on[c]] \in Terminal,
              \/ answer = IF status[waits_on[c]] = "SUCCEEDED" THEN "result" ELSE "error"
              \/ answer = "none" /\ waits_on[c] \notin stored,
              UNCHANGED <<order, spc, status, stored>>
       PROVE  Step
  <2> DEFINE r == waits_on[c]
  <2>1. r \in Runs
    BY ConfigAssumption
  <2>2. Stage[r] = status[r] /\ Stage[r] \in Service!Ended
    BY <1>10, <2>1, Seen, EndedNames
  <2>3. Told[c] = "nothing" /\ Told' = [Told EXCEPT ![c] = answer]
    <3>1. \A d \in Waiters : wait'[d] = IF d = c THEN answer ELSE wait[d]
      BY <1>1, <1>10 DEF TypeOK
    <3>2. QED
      BY <1>10, <3>1 DEF Told
  <2>4. Stage' = Stage /\ Forgotten' = Forgotten
    BY <1>10 DEF Stage, Forgotten
  <2>5. \/ answer = IF Stage[r] = "SUCCEEDED" THEN "result" ELSE "error"
        \/ answer = "none" /\ r \in Forgotten
    BY <1>10, <2>1, <2>2, Seen
  <2>6. Service!Tell(c)
    BY <1>10, <2>2, <2>3, <2>4, <2>5 DEF Service!Tell, Stage, Forgotten, Told
  <2>7. QED
    BY <2>6 DEF Service!Next
<1>11. ASSUME NEW c \in Waiters, WaitStart(c) PROVE Step
  <2> DEFINE r == waits_on[c]
  <2>1. r \in Runs /\ Submitted(r) /\ wait[c] = "new"
    BY <1>11, ConfigAssumption DEF WaitStart, Known, Serving, Submitted
  <2>2. CASE r \in futures
    <3>1. /\ wait' = [wait EXCEPT ![c] = "waiting"]
          /\ UNCHANGED <<order, spc, status, stored>>
      BY <1>11, <2>2 DEF WaitStart
    <3>2. Stage' = Stage /\ Forgotten' = Forgotten /\ Told' = Told
      BY <1>1, <2>1, <3>1 DEF Stage, Forgotten, Told, TypeOK
    <3>3. QED
      BY <1>2, <3>1, <3>2
  <2>3. CASE r \notin futures
    <3>1. r \notin stored
      BY <2>1, <2>3 DEF ServeInv
    <3>2. status[r] \in Terminal
      BY <2>1, <3>1, ForgottenEnded
    <3>3. /\ wait' = [wait EXCEPT ![c] = "none"]
          /\ UNCHANGED <<order, spc, status, stored>>
      BY <1>11, <2>3, <3>1 DEF WaitStart, Answer, Unawaited, PopRuns, Serving
    <3>4. QED
      BY <1>10, <2>1, <3>1, <3>2, <3>3
  <2>4. QED
    BY <2>2, <2>3
<1>12. ASSUME NEW c \in Waiters, WaitEnd(c) PROVE Step
  <2> DEFINE r == waits_on[c]
  <2>1. r \in Runs /\ Submitted(r) /\ wait[c] = "waiting" /\ future[r] # "pending"
    BY <1>1, <1>12, ConfigAssumption DEF WaitEnd, StoredInv
  <2>2. /\ status[r] \in Terminal
        /\ future[r] = IF status[r] = "SUCCEEDED" THEN "result" ELSE "error"
    BY <1>1, <2>1 DEF FutureInv, Matches, TypeOK, Statuses, Terminal
  <2>3. /\ wait' = [wait EXCEPT ![c] = future[r]]
        /\ UNCHANGED <<order, spc, status, stored>>
    BY <1>12 DEF WaitEnd, Answer, PopRuns, Serving
  <2> PICK answer \in {"result", "error", "none"} : answer = future[r]
    BY <2>2
  <2>4. QED
    BY <1>10, <2>1, <2>2, <2>3
<1>13. ASSUME UNCHANGED <<order, spc, status, stored, wait>> PROVE Step
  <2>1. UNCHANGED <<Stage, Forgotten, Told>>
    BY <1>13 DEF Stage, Forgotten, Told
  <2>2. QED
    BY <1>2, <1>13, <2>1
<1>14. ASSUME NEW w \in Tasks, Take(w) \/ Acquire(w) \/ Start(w) PROVE Step
  BY <1>13, <1>14 DEF Take, Acquire, Start
<1>15. ASSUME NEW r \in Runs, PoolStart(r) \/ PoolEnd(r) \/ CancelRunning(r) PROVE Step
  BY <1>13, <1>15 DEF PoolStart, PoolEnd, CancelRunning
<1>16. ASSUME NEW w \in Tasks, CancelIdle(w) \/ CancelLockWait(w) \/ CancelHandler(w)
       PROVE  FALSE
  BY <1>1, <1>16 DEF CancelIdle, CancelLockWait, CancelHandler
<1>17. ASSUME NEW r \in Runs,
              ThreadRead(r) \/ ThreadMark(r) \/ ThreadCommit(r) \/ ThreadAnswer(r)
       PROVE  FALSE
  BY <1>1, <1>17 DEF Serving, ThreadRead, CanCancel, ThreadMark, ThreadCommit,
                     ThreadAnswer, EndingInv, CancelsOnLoop
<1>18. ASSUME NEW c \in Waiters, WaitTimeout(c) PROVE FALSE
  BY <1>18 DEF Serving, WaitTimeout
<1>19. ASSUME NEW w \in Tasks, WorkerStep(w) PROVE Step
  <2>1. ASSUME NEW end \in Ends, Complete(w, end) PROVE Step
    BY <1>7, <2>1 DEF Complete
  <2>2. CASE Refuse(w)
    BY <1>7, <2>2 DEF Refuse, Ends
  <2>3. CASE Timeout(w)
    BY <1>7, <2>3 DEF Timeout, Ends
  <2>4. QED
    BY <1>5, <1>9, <1>14, <1>16, <1>19, <2>1, <2>2, <2>3 DEF WorkerStep
<1>20. CASE UNCHANGED vars
  BY <1>13, <1>20 DEF vars
<1>21. CASE Next
  BY <1>1, <1>3, <1>4, <1>8, <1>11, <1>12, <1>15, <1>17, <1>18, <1>19, <1>20, <1>21
  DEF Next, Submitters, PoolThreads, Cancellers, WaiterCalls, Rest
<1>22. QED
  BY <1>20, <1>21

(* Seen by its clients the executor is the service of RunService, for any   *)
(* number of runs, keys, workers and waiters and any retention: runs with   *)
(* one lock_key execute one at a time in the order they were accepted, each *)
(* ends once or is cancelled before its turn, only what has ended is        *)
(* forgotten, and every waiter is told once how its run ended, or nothing   *)
(* if it asks for a run that is forgotten.                                  *)
THEOREM ExecutorServes ==
    ASSUME Serving
    PROVE  Spec => ImplementsService
<1>1. Init => Service!Init
  BY DEF Init, Service!Init
<1>2. ServeInv /\ [Next]_vars => ServeInv'
  BY ServeStep
<1>3. ServeInv /\ ServeInv' /\ [Next]_vars => [Service!Next]_(Service!vars)
  BY ServiceStep
<1>4. QED
  BY <1>1, <1>2, <1>3, ServeInit, PTL DEF Spec, ImplementsService, Service!Spec

=============================================================================
