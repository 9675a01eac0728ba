-------------------------- MODULE NestedRunsProofs --------------------------
(***************************************************************************)
(* Derived lock keys are safe at every depth, for any number of runs,       *)
(* workers and keys: no runs wait for each other in a circle.               *)
(*                                                                         *)
(* The argument: a run awaits only its children, and a child with a derived *)
(* key can only wait for the lock of a sibling.  So whoever executes in a   *)
(* circle has a child that executes in the circle, and there is no such set *)
(* of runs, because a run is submitted after its parent.                    *)
(***************************************************************************)
EXTENDS NestedRuns, SequenceFacts, TLAPS

(* A handler that awaits a run executes, and has submitted that run. *)
AwaitInv ==
    \A r \in Runs :
        awaits[r] # NoRun =>
            phase[r] = "running" /\ parent_run_id[awaits[r]] = r

(* A run that was not submitted has no parent and no key yet, and nobody has *)
(* it as a parent; the others keep the key their submission gave them.      *)
KeyInv ==
    \A r \in Runs :
        /\ phase[r] = "new" =>
              /\ parent_run_id[r] = NoRun
              /\ \A c \in Runs : parent_run_id[c] # r
        /\ phase[r] # "new" => lock_key[r] = ResolveLockKey(r, parent_run_id[r])

(* An awaited run has not the lock of the handler that submitted it. *)
OwnKeyInv ==
    \A r \in Runs :
        parent_run_id[r] # NoRun /\ r \in Awaited
        /\ lock_key[r] = lock_key[parent_run_id[r]]
            => lock_key[r] = NoKey

(* Runs form a forest: in every set of runs there is one without a child in it. *)
Forest ==
    \A S \in (SUBSET Runs) \ {{}} : \E p \in S : \A r \in S : parent_run_id[r] # p

NestedInv == TypeOK /\ AwaitInv /\ KeyInv /\ OwnKeyInv /\ Forest

-----------------------------------------------------------------------------
(* Type correctness *)

LEMMA KeyTyped ==
    ASSUME NEW r \in Runs, NEW p \in Runs \cup {NoRun}
    PROVE  ResolveLockKey(r, p) \in Keys \cup Runs \cup {NoKey}
BY NestedAssumption DEF NestedAssumption, ResolveLockKey, ChildKey

LEMMA InitTyped == Init => TypeOK
<1> SUFFICES ASSUME Init PROVE TypeOK
  OBVIOUS
<1>1. /\ phase \in [Runs -> {"new", "queued", "locking", "running", "ended"}]
      /\ parent_run_id \in [Runs -> Runs \cup {NoRun}]
      /\ lock_key \in [Runs -> Keys \cup Runs \cup {NoKey}]
      /\ origin_source \in [Runs -> {"internal", "rpc"}]
      /\ awaits \in [Runs -> Runs \cup {NoRun}]
  BY DEF Init
<1>2. /\ queue = <<>> /\ line = <<>>
      /\ {r \in Runs : phase[r] = "queued"} = {}
      /\ {r \in Runs : phase[r] = "locking"} = {}
  BY DEF Init
<1>3. <<>> \in Seq(Runs) /\ IsInjective(<<>>) /\ ToSet(<<>>) = {}
  BY EmptyElements DEF IsInjective
<1>4. QED
  BY <1>1, <1>2, <1>3 DEF TypeOK

(* What a submission does, from outside or by a handler. *)
LEMMA EnqueuedTyped ==
    ASSUME TypeOK, NEW r \in Runs, NEW p \in Runs \cup {NoRun},
           NEW origin \in {"internal", "rpc"},
           phase[r] = "new", Enqueued(r, p, origin),
           awaits' \in [Runs -> Runs \cup {NoRun}]
    PROVE  TypeOK'
<1>1. /\ phase' = [phase EXCEPT ![r] = "queued"]
      /\ queue' = Append(queue, r) /\ line' = line
      /\ phase' \in [Runs -> {"new", "queued", "locking", "running", "ended"}]
      /\ parent_run_id' \in [Runs -> Runs \cup {NoRun}]
      /\ origin_source' \in [Runs -> {"internal", "rpc"}]
  BY DEF TypeOK, Enqueued
<1>2. lock_key' \in [Runs -> Keys \cup Runs \cup {NoKey}]
  BY KeyTyped DEF TypeOK, Enqueued
<1>3. /\ queue \in Seq(Runs) /\ IsInjective(queue)
      /\ ToSet(queue) = {x \in Runs : phase[x] = "queued"}
      /\ phase \in [Runs -> {"new", "queued", "locking", "running", "ended"}]
      /\ line \in Seq(Runs) /\ IsInjective(line)
      /\ ToSet(line) = {x \in Runs : phase[x] = "locking"}
  BY DEF TypeOK
<1>4. r \notin ToSet(queue)
  BY <1>3
<1>5. IsInjective(queue')
  BY <1>1, <1>3, <1>4, AppendDistinct
<1>6. queue' \in Seq(Runs) /\ ToSet(queue') = ToSet(queue) \cup {r}
  BY <1>1, <1>3, AppendSet
<1>7. /\ {x \in Runs : phase'[x] = "queued"} = {x \in Runs : phase[x] = "queued"} \cup {r}
      /\ {x \in Runs : phase'[x] = "locking"} = {x \in Runs : phase[x] = "locking"}
  BY <1>1, <1>3
<1>8. QED
  BY <1>1, <1>2, <1>3, <1>5, <1>6, <1>7 DEF TypeOK

LEMMA TakeTyped == TypeOK /\ Take => TypeOK'
<1> SUFFICES ASSUME TypeOK, Take PROVE TypeOK'
  OBVIOUS
<1> DEFINE r == Head(queue)
<1>1. /\ queue \in Seq(Runs) /\ IsInjective(queue) /\ queue # <<>>
      /\ ToSet(queue) = {x \in Runs : phase[x] = "queued"}
      /\ phase \in [Runs -> {"new", "queued", "locking", "running", "ended"}]
      /\ line \in Seq(Runs) /\ IsInjective(line)
      /\ ToSet(line) = {x \in Runs : phase[x] = "locking"}
  BY DEF TypeOK, Take
<1>2. /\ r \in Runs /\ phase[r] = "queued" /\ queue' = Tail(queue)
      /\ queue' \in Seq(Runs) /\ ToSet(queue) = ToSet(queue') \cup {r}
  BY <1>1, TailSet DEF Take
<1>3. IsInjective(queue') /\ r \notin ToSet(queue')
  BY <1>1, <1>2, TailDistinct
<1>4. \/ phase' = [phase EXCEPT ![r] = "running"] /\ line' = line
      \/ phase' = [phase EXCEPT ![r] = "locking"] /\ line' = Append(line, r)
  BY DEF Take
<1> HIDE DEF r
<1>5. /\ phase' \in [Runs -> {"new", "queued", "locking", "running", "ended"}]
      /\ ToSet(queue') = {x \in Runs : phase'[x] = "queued"}
  BY <1>1, <1>2, <1>3, <1>4
<1>6. /\ line' \in Seq(Runs) /\ IsInjective(line')
      /\ ToSet(line') = {x \in Runs : phase'[x] = "locking"}
  <2>1. CASE phase' = [phase EXCEPT ![r] = "running"] /\ line' = line
    BY <1>1, <1>2, <2>1
  <2>2. CASE phase' = [phase EXCEPT ![r] = "locking"] /\ line' = Append(line, r)
    <3>1. r \notin ToSet(line)
      BY <1>1, <1>2
    <3>2. IsInjective(line')
      BY <1>1, <1>2, <2>2, <3>1, AppendDistinct
    <3>3. line' \in Seq(Runs) /\ ToSet(line') = ToSet(line) \cup {r}
      BY <1>1, <1>2, <2>2, AppendSet
    <3>4. {x \in Runs : phase'[x] = "locking"} = {x \in Runs : phase[x] = "locking"} \cup {r}
      BY <1>1, <1>2, <2>2
    <3>5. QED
      BY <1>1, <3>2, <3>3, <3>4
  <2>3. QED
    BY <1>4, <2>1, <2>2
<1>7. /\ parent_run_id' = parent_run_id /\ lock_key' = lock_key
      /\ origin_source' = origin_source /\ awaits' = awaits
  BY DEF Take
<1>8. QED
  BY <1>2, <1>3, <1>5, <1>6, <1>7 DEF TypeOK

LEMMA AcquireTyped ==
    ASSUME TypeOK, NEW r \in Runs, Acquire(r)
    PROVE  TypeOK'
<1>1. /\ queue \in Seq(Runs) /\ IsInjective(queue) /\ queue' = queue
      /\ ToSet(queue) = {x \in Runs : phase[x] = "queued"}
      /\ phase \in [Runs -> {"new", "queued", "locking", "running", "ended"}]
      /\ line \in Seq(Runs) /\ IsInjective(line)
      /\ ToSet(line) = {x \in Runs : phase[x] = "locking"}
  BY DEF TypeOK, Acquire
<1>2. /\ phase[r] = "locking" /\ phase' = [phase EXCEPT ![r] = "running"]
      /\ line' = RemoveFirst(line, r)
  BY DEF Acquire, Served
<1>3. line' \in Seq(Runs) /\ IsInjective(line') /\ ToSet(line') = ToSet(line) \ {r}
  BY <1>1, <1>2, RemoveFirstSet
<1>4. /\ {x \in Runs : phase'[x] = "queued"} = {x \in Runs : phase[x] = "queued"}
      /\ {x \in Runs : phase'[x] = "locking"} = {x \in Runs : phase[x] = "locking"} \ {r}
      /\ phase' \in [Runs -> {"new", "queued", "locking", "running", "ended"}]
  BY <1>1, <1>2
<1>5. /\ parent_run_id' = parent_run_id /\ lock_key' = lock_key
      /\ origin_source' = origin_source /\ awaits' = awaits
  BY DEF Acquire
<1>6. QED
  BY <1>1, <1>3, <1>4, <1>5 DEF TypeOK

LEMMA EndTyped ==
    ASSUME TypeOK, NEW r \in Runs, End(r)
    PROVE  TypeOK'
<1>1. /\ phase[r] = "running" /\ phase' = [phase EXCEPT ![r] = "ended"]
      /\ phase \in [Runs -> {"new", "queued", "locking", "running", "ended"}]
  BY DEF TypeOK, End
<1>2. /\ {x \in Runs : phase'[x] = "queued"} = {x \in Runs : phase[x] = "queued"}
      /\ {x \in Runs : phase'[x] = "locking"} = {x \in Runs : phase[x] = "locking"}
      /\ phase' \in [Runs -> {"new", "queued", "locking", "running", "ended"}]
  BY <1>1
<1>3. awaits' \in [Runs -> Runs \cup {NoRun}]
  BY DEF TypeOK, End
<1>4. /\ parent_run_id' = parent_run_id /\ lock_key' = lock_key
      /\ origin_source' = origin_source /\ queue' = queue /\ line' = line
  BY DEF End
<1>5. QED
  BY <1>2, <1>3, <1>4 DEF TypeOK

LEMMA TypeStep == TypeOK /\ [Next]_vars => TypeOK'
<1> SUFFICES ASSUME TypeOK, [Next]_vars PROVE TypeOK'
  OBVIOUS
<1>1. CASE Take
  BY <1>1, TakeTyped
<1>2. ASSUME NEW r \in Runs, SubmitOuter(r) PROVE TypeOK'
  <2>1. /\ phase[r] = "new" /\ awaits' \in [Runs -> Runs \cup {NoRun}]
        /\ \E origin \in {"internal", "rpc"} : Enqueued(r, NoRun, origin)
    BY <1>2 DEF SubmitOuter, TypeOK
  <2>2. QED
    BY <2>1, EnqueuedTyped
<1>3. ASSUME NEW p \in Runs, NEW r \in Runs, SubmitNested(p, r) PROVE TypeOK'
  <2>1. /\ phase[r] = "new" /\ awaits' \in [Runs -> Runs \cup {NoRun}]
        /\ Enqueued(r, p, origin_source[p]) /\ origin_source[p] \in {"internal", "rpc"}
    BY <1>3 DEF SubmitNested, TypeOK
  <2>2. QED
    BY <2>1, EnqueuedTyped
<1>4. ASSUME NEW p \in Runs, NEW r \in Runs, AwaitResult(p, r) PROVE TypeOK'
  <2>1. awaits' \in [Runs -> Runs \cup {NoRun}]
    BY <1>4 DEF AwaitResult, TypeOK
  <2>2. UNCHANGED <<phase, parent_run_id, lock_key, origin_source, queue, line>>
    BY <1>4 DEF AwaitResult
  <2>3. QED
    BY <2>1, <2>2 DEF TypeOK
<1>5. ASSUME NEW p \in Runs, AwaitOver(p) PROVE TypeOK'
  <2>1. awaits' \in [Runs -> Runs \cup {NoRun}]
    BY <1>5 DEF AwaitOver, TypeOK
  <2>2. UNCHANGED <<phase, parent_run_id, lock_key, origin_source, queue, line>>
    BY <1>5 DEF AwaitOver
  <2>3. QED
    BY <2>1, <2>2 DEF TypeOK
<1>6. ASSUME NEW r \in Runs, Acquire(r) PROVE TypeOK'
  BY <1>6, AcquireTyped
<1>7. ASSUME NEW r \in Runs, End(r) PROVE TypeOK'
  BY <1>7, EndTyped
<1>8. CASE UNCHANGED vars
  BY <1>8 DEF vars, TypeOK
<1>9. QED
  BY <1>1, <1>2, <1>3, <1>4, <1>5, <1>6, <1>7, <1>8 DEF Next, RunStep

-----------------------------------------------------------------------------
(* Who awaits whom, and with which keys *)

(* A run that is submitted. *)
Submits(r, p) ==
    /\ phase[r] = "new"
    /\ p = NoRun \/ (p \in Runs /\ phase[p] = "running" /\ ~DetectsDeadlock(r, p))
    /\ phase' = [phase EXCEPT ![r] = "queued"]
    /\ parent_run_id' = [parent_run_id EXCEPT ![r] = p]
    /\ lock_key' = [lock_key EXCEPT ![r] = ResolveLockKey(r, p)]
    /\ \/ awaits' = awaits
       \/ p # NoRun /\ awaits' = [awaits EXCEPT ![p] = r]

(* A step that submits nothing: parents and keys stay, and awaits changes   *)
(* only where a handler begins to await a child, ends to, or ends itself.   *)
Proceeds ==
    /\ parent_run_id' = parent_run_id /\ lock_key' = lock_key
    /\ \A r \in Runs : phase[r] = "new" <=> phase'[r] = "new"
    /\ \A r \in Runs :
          awaits'[r] # NoRun => phase'[r] = "running" /\ parent_run_id[awaits'[r]] = r

LEMMA StepKinds ==
    ASSUME NestedInv, [Next]_vars
    PROVE  (\E r \in Runs, p \in Runs \cup {NoRun} : Submits(r, p)) \/ Proceeds
<1>0. /\ phase \in [Runs -> {"new", "queued", "locking", "running", "ended"}]
      /\ awaits \in [Runs -> Runs \cup {NoRun}]
      /\ NoRun \notin Runs
      /\ \A r \in Runs :
            awaits[r] # NoRun => phase[r] = "running" /\ parent_run_id[awaits[r]] = r
  BY NestedAssumption DEF NestedAssumption, NestedInv, TypeOK, AwaitInv
<1>1. CASE Take
  <2>1. /\ Head(queue) \in Runs /\ phase[Head(queue)] = "queued"
    <3>1. /\ queue \in Seq(Runs) /\ queue # <<>>
          /\ ToSet(queue) = {x \in Runs : phase[x] = "queued"}
      BY <1>1 DEF NestedInv, TypeOK, Take
    <3>2. Head(queue) \in ToSet(queue)
      BY <3>1, TailSet
    <3>3. QED
      BY <3>1, <3>2
  <2>2. /\ \E x \in {"running", "locking"} : phase' = [phase EXCEPT ![Head(queue)] = x]
        /\ parent_run_id' = parent_run_id /\ lock_key' = lock_key /\ awaits' = awaits
    BY <1>1 DEF Take
  <2>3. Proceeds
    BY <1>0, <2>1, <2>2 DEF Proceeds
  <2>4. QED
    BY <2>3
<1>2. ASSUME NEW r \in Runs, SubmitOuter(r) PROVE Submits(r, NoRun)
  <2>1. /\ awaits' = awaits /\ phase[r] = "new"
        /\ \E origin \in {"internal", "rpc"} : Enqueued(r, NoRun, origin)
    BY <1>2 DEF SubmitOuter
  <2>2. PICK origin \in {"internal", "rpc"} : Enqueued(r, NoRun, origin)
    BY <2>1
  <2>3. /\ phase' = [phase EXCEPT ![r] = "queued"]
        /\ parent_run_id' = [parent_run_id EXCEPT ![r] = NoRun]
        /\ lock_key' = [lock_key EXCEPT ![r] = ResolveLockKey(r, NoRun)]
    BY <2>2 DEF Enqueued
  <2>4. QED
    BY <2>1, <2>3 DEF Submits
<1>3. ASSUME NEW p \in Runs, NEW r \in Runs, SubmitNested(p, r) PROVE Submits(r, p)
  <2>1. /\ awaits' = awaits \/ awaits' = [awaits EXCEPT ![p] = r]
        /\ phase[p] = "running" /\ phase[r] = "new" /\ ~DetectsDeadlock(r, p)
        /\ Enqueued(r, p, origin_source[p])
    BY <1>3 DEF SubmitNested, Executes
  <2>2. QED
    BY <1>0, <2>1 DEF Enqueued, Submits
<1>4. ASSUME NEW p \in Runs, NEW r \in Runs, AwaitResult(p, r) PROVE Proceeds
  <2>1. /\ awaits' = [awaits EXCEPT ![p] = r] /\ phase[p] = "running"
        /\ parent_run_id[r] = p
        /\ UNCHANGED <<phase, parent_run_id, lock_key>>
    BY <1>4 DEF AwaitResult, Executes
  <2>2. QED
    BY <1>0, <2>1 DEF Proceeds
<1>5. ASSUME NEW p \in Runs, AwaitOver(p) PROVE Proceeds
  <2>1. /\ awaits' = [awaits EXCEPT ![p] = NoRun]
        /\ UNCHANGED <<phase, parent_run_id, lock_key>>
    BY <1>5 DEF AwaitOver
  <2>2. QED
    BY <1>0, <2>1 DEF Proceeds
<1>6. ASSUME NEW r \in Runs, Acquire(r) PROVE Proceeds
  <2>1. /\ phase[r] = "locking" /\ phase' = [phase EXCEPT ![r] = "running"]
        /\ UNCHANGED <<awaits, parent_run_id, lock_key>>
    BY <1>6 DEF Acquire
  <2>2. QED
    BY <1>0, <2>1 DEF Proceeds
<1>7. ASSUME NEW r \in Runs, End(r) PROVE Proceeds
  <2>1. /\ phase[r] = "running" /\ phase' = [phase EXCEPT ![r] = "ended"]
        /\ awaits' = [awaits EXCEPT ![r] = NoRun]
        /\ UNCHANGED <<parent_run_id, lock_key>>
    BY <1>7 DEF End
  <2>2. QED
    BY <1>0, <2>1 DEF Proceeds
<1>8. CASE UNCHANGED vars
  BY <1>0, <1>8 DEF vars, Proceeds
<1>9. QED
  BY <1>1, <1>2, <1>3, <1>4, <1>5, <1>6, <1>7, <1>8 DEF Next, RunStep

LEMMA ProceedsKeeps ==
    ASSUME NestedInv, Proceeds
    PROVE  AwaitInv' /\ KeyInv' /\ OwnKeyInv' /\ Forest'
<1>1. AwaitInv'
  BY DEF Proceeds, AwaitInv
<1>2. KeyInv'
  BY DEF Proceeds, NestedInv, KeyInv
<1>3. OwnKeyInv'
  BY DEF Proceeds, NestedInv, OwnKeyInv
<1>4. Forest'
  BY DEF Proceeds, NestedInv, Forest
<1>5. QED
  BY <1>1, <1>2, <1>3, <1>4

LEMMA SubmitsKeeps ==
    ASSUME NestedInv, NEW r \in Runs, NEW p \in Runs \cup {NoRun}, Submits(r, p)
    PROVE  AwaitInv' /\ KeyInv' /\ OwnKeyInv' /\ Forest'
<1>1. /\ phase[r] = "new" /\ NoRun \notin Runs
      /\ p = NoRun \/ (p \in Runs /\ phase[p] = "running" /\ ~DetectsDeadlock(r, p))
      /\ phase' = [phase EXCEPT ![r] = "queued"]
      /\ parent_run_id' = [parent_run_id EXCEPT ![r] = p]
      /\ lock_key' = [lock_key EXCEPT ![r] = ResolveLockKey(r, p)]
      /\ \/ awaits' = awaits
         \/ p # NoRun /\ awaits' = [awaits EXCEPT ![p] = r]
  BY NestedAssumption DEF NestedAssumption, Submits
<1>2. /\ phase \in [Runs -> {"new", "queued", "locking", "running", "ended"}]
      /\ awaits \in [Runs -> Runs \cup {NoRun}]
      /\ parent_run_id \in [Runs -> Runs \cup {NoRun}]
      /\ lock_key \in [Runs -> Keys \cup Runs \cup {NoKey}]
  BY DEF NestedInv, TypeOK
<1>3. p # r
  BY <1>1
<1>4. \A c \in Runs : parent_run_id[c] # r
  BY <1>1 DEF NestedInv, KeyInv
<1>5. AwaitInv'
  <2> SUFFICES ASSUME NEW x \in Runs, awaits'[x] # NoRun
               PROVE  phase'[x] = "running" /\ parent_run_id'[awaits'[x]] = x
    BY DEF AwaitInv
  <2>1. CASE p # NoRun /\ x = p /\ awaits' = [awaits EXCEPT ![p] = r]
    BY <1>1, <1>2, <1>3, <2>1
  <2>2. CASE awaits'[x] = awaits[x]
    <3>1. /\ awaits[x] \in Runs /\ phase[x] = "running"
          /\ parent_run_id[awaits[x]] = x
      BY <1>2, <2>2 DEF NestedInv, AwaitInv
    <3>2. awaits[x] # r
      BY <1>1, <3>1 DEF NestedInv, KeyInv
    <3>3. QED
      BY <1>1, <1>2, <2>2, <3>1, <3>2
  <2>3. QED
    BY <1>1, <1>2, <2>1, <2>2
<1>6. KeyInv'
  <2> SUFFICES ASSUME NEW x \in Runs
               PROVE  /\ phase'[x] = "new" =>
                            /\ parent_run_id'[x] = NoRun
                            /\ \A c \in Runs : parent_run_id'[c] # x
                      /\ phase'[x] # "new" => lock_key'[x] = ResolveLockKey(x, parent_run_id'[x])
    BY DEF KeyInv, ResolveLockKey, ChildKey
  <2>1. /\ phase[x] = "new" => /\ parent_run_id[x] = NoRun
                               /\ \A c \in Runs : parent_run_id[c] # x
        /\ phase[x] # "new" => lock_key[x] = ResolveLockKey(x, parent_run_id[x])
    BY DEF NestedInv, KeyInv
  <2>2. CASE x = r
    BY <1>1, <1>2, <2>2
  <2>3. CASE x # r
    <3>1. /\ phase'[x] = phase[x] /\ parent_run_id'[x] = parent_run_id[x]
          /\ lock_key'[x] = lock_key[x]
      BY <1>1, <1>2, <2>3
    <3>2. ASSUME phase[x] = "new", NEW c \in Runs PROVE parent_run_id'[c] # x
      BY <1>1, <1>2, <2>1, <3>2
    <3>3. QED
      BY <2>1, <3>1, <3>2
  <2>4. QED
    BY <2>2, <2>3
<1>7. OwnKeyInv'
  <2> SUFFICES ASSUME NEW x \in Runs, parent_run_id'[x] # NoRun, x \in Awaited,
                      lock_key'[x] = lock_key'[parent_run_id'[x]]
               PROVE  lock_key'[x] = NoKey
    BY DEF OwnKeyInv
  <2>1. CASE x = r
    <3>1. /\ p \in Runs /\ lock_key'[r] = ResolveLockKey(r, p) /\ lock_key'[p] = lock_key[p]
          /\ parent_run_id'[r] = p
      BY <1>1, <1>2, <1>3, <2>1
    <3>2. ~(ResolveLockKey(r, p) = lock_key[p] /\ lock_key[p] # NoKey)
      BY <1>1, <2>1, <3>1 DEF DetectsDeadlock
    <3>3. QED
      BY <2>1, <3>1, <3>2
  <2>2. CASE x # r
    <3>1. /\ parent_run_id'[x] = parent_run_id[x] /\ lock_key'[x] = lock_key[x]
          /\ parent_run_id[x] \in Runs
      BY <1>1, <1>2, <2>2
    <3>2. parent_run_id[x] # r
      BY <1>4
    <3>3. lock_key'[parent_run_id[x]] = lock_key[parent_run_id[x]]
      BY <1>1, <1>2, <3>1, <3>2
    <3>4. QED
      BY <3>1, <3>3 DEF NestedInv, OwnKeyInv
  <2>3. QED
    BY <2>1, <2>2
<1>8. Forest'
  <2> SUFFICES ASSUME NEW S \in SUBSET Runs, S # {}
               PROVE  \E x \in S : \A c \in S : parent_run_id'[c] # x
    BY DEF Forest
  <2>1. \A c \in Runs : parent_run_id'[c] # r
    BY <1>1, <1>2, <1>3, <1>4
  <2>2. CASE r \in S
    BY <2>1, <2>2
  <2>3. CASE r \notin S
    <3>1. PICK x \in S : \A c \in S : parent_run_id[c] # x
      BY DEF NestedInv, Forest
    <3>2. \A c \in S : parent_run_id'[c] = parent_run_id[c]
      BY <1>1, <1>2, <2>3
    <3>3. QED
      BY <3>1, <3>2
  <2>4. QED
    BY <2>2, <2>3
<1>9. QED
  BY <1>5, <1>6, <1>7, <1>8

LEMMA NestedInit == Init => NestedInv
<1> SUFFICES ASSUME Init PROVE NestedInv
  OBVIOUS
<1>1. /\ phase = [r \in Runs |-> "new"] /\ parent_run_id = [r \in Runs |-> NoRun]
      /\ awaits = [r \in Runs |-> NoRun] /\ NoRun \notin Runs
  BY NestedAssumption DEF NestedAssumption, Init
<1>2. AwaitInv /\ KeyInv /\ OwnKeyInv
  BY <1>1 DEF AwaitInv, KeyInv, OwnKeyInv
<1>3. Forest
  BY <1>1 DEF Forest
<1>4. QED
  BY <1>2, <1>3, InitTyped DEF NestedInv

LEMMA NestedStep == NestedInv /\ [Next]_vars => NestedInv'
<1> SUFFICES ASSUME NestedInv, [Next]_vars PROVE NestedInv'
  OBVIOUS
<1>1. TypeOK'
  BY TypeStep DEF NestedInv
<1>2. AwaitInv' /\ KeyInv' /\ OwnKeyInv' /\ Forest'
  BY StepKinds, ProceedsKeeps, SubmitsKeeps
<1>3. QED
  BY <1>1, <1>2 DEF NestedInv

LEMMA NestedAlways == Spec => []NestedInv
<1>1. QED
  BY NestedInit, NestedStep, PTL DEF Spec

-----------------------------------------------------------------------------
(* Who waits for a lock *)

(* A child that waits for a lock has the key derived from its parent, and   *)
(* waits for another child of that parent.                                  *)
LEMMA LockedBySibling ==
    ASSUME NestedInv, NEW c \in Runs, NEW h \in Runs, NEW p \in Runs,
           parent_run_id[c] = p, ~Unchecked(c),
           phase[c] \in {"queued", "locking"}, Holds(h, lock_key[c])
    PROVE  parent_run_id[h] = p
<1>1. /\ lock_arg \in [Runs -> Keys \cup {NoKey, Unset}]
      /\ Keys \cap Runs = {} /\ NoKey \notin Runs /\ NoRun \notin Runs
      /\ SessionKey \in Keys \cup {NoKey}
      /\ Unset \notin Keys \cup {NoKey}
  BY NestedAssumption DEF NestedAssumption
<1>2. /\ phase[h] = "running" /\ lock_key[h] = lock_key[c] /\ lock_key[c] # NoKey
  BY DEF Holds
<1>3. /\ lock_key[c] = ResolveLockKey(c, p)
      /\ lock_key[h] = ResolveLockKey(h, parent_run_id[h])
  BY <1>2 DEF NestedInv, KeyInv
<1>4. ~(c \in Awaited /\ lock_key[c] = lock_key[p])
  BY <1>1, <1>2 DEF NestedInv, OwnKeyInv
<1>5. lock_arg[c] \in {Unset, NoKey}
  BY <1>1, <1>4 DEF Unchecked
<1>6. lock_key[c] = p
  BY <1>1, <1>2, <1>3, <1>5 DEF ResolveLockKey, ChildKey
<1>7. QED
  BY <1>1, <1>2, <1>3, <1>6 DEF ResolveLockKey, ChildKey

(* Whoever executes and waits within a set of runs that all wait within it  *)
(* has a child in the set that executes.                                    *)
LEMMA ChildExecutes ==
    ASSUME NestedInv, NEW S \in SUBSET Runs,
           \A r \in S : \E h \in S : WaitsFor(r, h),
           NEW p \in S, phase[p] = "running"
    PROVE  \E c \in S : phase[c] = "running" /\ parent_run_id[c] = p
<1>0. /\ phase \in [Runs -> {"new", "queued", "locking", "running", "ended"}]
      /\ awaits \in [Runs -> Runs \cup {NoRun}] /\ NoRun \notin Runs
  BY NestedAssumption DEF NestedAssumption, NestedInv, TypeOK
<1>1. PICK c \in S : awaits[p] = c /\ phase[c] # "ended"
  BY DEF WaitsFor
<1>2. parent_run_id[c] = p
  BY <1>0, <1>1 DEF NestedInv, AwaitInv
<1>3. phase[c] \in {"queued", "locking", "running"}
  BY <1>0, <1>1, <1>2 DEF NestedInv, KeyInv
<1>4. CASE phase[c] = "running"
  BY <1>2, <1>4
<1>5. CASE phase[c] \in {"queued", "locking"}
  <2>1. awaits[c] = NoRun
    BY <1>0, <1>5 DEF NestedInv, AwaitInv
  <2>2. PICK h \in S : WaitsFor(c, h)
    OBVIOUS
  <2>3. ~Unchecked(c) /\ Holds(h, lock_key[c])
    BY <1>0, <2>1, <2>2 DEF WaitsFor
  <2>4. parent_run_id[h] = p
    BY <1>2, <1>5, <2>3, LockedBySibling
  <2>5. QED
    BY <2>3, <2>4 DEF Holds
<1>6. QED
  BY <1>3, <1>4, <1>5

LEMMA NoCircle == NestedInv => DerivedKeysSafe
<1> SUFFICES ASSUME NestedInv, NEW S \in SUBSET Runs, S # {},
                    \A r \in S : \E h \in S : WaitsFor(r, h)
             PROVE  FALSE
  BY DEF DerivedKeysSafe
<1> DEFINE P == {p \in S : phase[p] = "running"}
<1>0. \A r \in Runs : awaits[r] # NoRun => phase[r] = "running"
  BY DEF NestedInv, AwaitInv
<1>1. P # {}
  <2>1. PICK r \in S : TRUE
    OBVIOUS
  <2>2. PICK h \in S : WaitsFor(r, h)
    OBVIOUS
  <2>3. r \in P \/ h \in P
    BY <1>0, <2>2, NestedAssumption DEF WaitsFor, Holds, NestedAssumption
  <2>4. QED
    BY <2>3
<1>2. \A p \in P : \E c \in P : parent_run_id[c] = p
  BY ChildExecutes
<1>3. P \in SUBSET Runs
  OBVIOUS
<1> HIDE DEF P
<1>4. QED
  BY <1>1, <1>2, <1>3 DEF NestedInv, Forest

(* The queue and the line hold exactly the runs of their phases, each once. *)
THEOREM NestedTypeCorrect == Spec => []TypeOK
<1>1. NestedInv => TypeOK
  BY DEF NestedInv
<1>2. QED
  BY <1>1, NestedAlways, PTL

(* Nested runs that await each other never wait in a circle, over awaits    *)
(* and locks, at any depth, as long as nested runs leave their key to the   *)
(* manager or ask for none: ChildKey and _detect_nested_deadlock suffice.   *)
THEOREM NoCircularWait == Spec => []DerivedKeysSafe
<1>1. QED
  BY NoCircle, NestedAlways, PTL

=============================================================================
