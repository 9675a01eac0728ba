--------------------------- MODULE AuditSinkProofs ---------------------------
(***************************************************************************)
(* AuditSink implements AuditLog, for any number of threads and records,    *)
(* any set of records that cannot be encoded and both modes of the sink.    *)
(*                                                                         *)
(* The argument: what has been accepted is on its way, in the file, in the  *)
(* writer's batch or in its queue, and along this way every thread's records*)
(* are in the order in which it came with them.  A writer that has ended    *)
(* has left nothing of what close waits for behind, or it died of a record. *)
(***************************************************************************)
EXTENDS AuditSink, SequenceFacts, TLAPS

(* x may come before y in a log. *)
Before(x, y) == x[1] = y[1] => x[2] < y[2]

Sorted(s) == \A i, j \in 1 .. Len(s) : i < j => Before(s[i], s[j])

AllBefore(S, T) == \A x \in S, y \in T : Before(x, y)

(* The way of a record: queue, batch, file. *)
InOrder ==
    /\ Sorted(file) /\ Sorted(pending) /\ Sorted(queue)
    /\ AllBefore(ToSet(file), ToSet(pending))
    /\ AllBefore(ToSet(file), ToSet(queue))
    /\ AllBefore(ToSet(pending), ToSet(queue))

OnTheWay == ToSet(file) \cup ToSet(pending) \cup ToSet(queue)

(* A thread that has made a record has not put it anywhere yet. *)
Fresh ==
    /\ \A t \in Threads : pc[t] = "made" => count[t] > 0
    /\ \A x \in OnTheWay :
          /\ x[2] <= count[x[1]]
          /\ pc[x[1]] = "made" => x[2] < count[x[1]]

(* Nothing is on the way that was not accepted, and what was accepted is    *)
(* on the way or in the file, as long as the sink has its stream.           *)
Accounted ==
    /\ OnTheWay \subseteq accepted
    /\ async_mode => accepted \subseteq OnTheWay
    /\ ~async_mode /\ closer = "none" => accepted \subseteq OnTheWay \cup BadRecords
    /\ ~async_mode => queue = <<>> /\ pending = <<>> /\ writer = "dead"

(* What a batch holds when the writer looks at its stop event, and what a   *)
(* writer that has ended has done.                                          *)
WriterInv ==
    /\ writer \in {"test", "get"} => pending = <<>>
    /\ async_mode /\ writer = "dead" =>
          \/ closer # "none" /\ due \subseteq ToSet(file)
          \/ accepted \cap BadRecords # {}

CloseInv ==
    /\ closer = "none" => ~stop_event
    /\ closer \in {"none", "joining"} => stream = "open"
    /\ closer = "done" => stream = "none"
    /\ closer # "none" => due \subseteq accepted
    /\ ~async_mode /\ closer # "none" =>
          due \subseteq ToSet(file) \/ accepted \cap BadRecords # {}
    /\ closer \in {"forgetting", "done"} => writer = "dead"

SinkInv == TypeOK /\ InOrder /\ Fresh /\ Accounted /\ WriterInv /\ CloseInv

-----------------------------------------------------------------------------
(* Sequences of records *)

LEMMA EmptySorted == Sorted(<<>>)
BY DEF Sorted

LEMMA AppendSorted ==
    ASSUME NEW R, NEW s \in Seq(R), NEW x \in R, Sorted(s), AllBefore(ToSet(s), {x})
    PROVE  Sorted(Append(s, x))
<1> DEFINE t == Append(s, x)
<1>1. /\ Len(t) = Len(s) + 1 /\ Len(s) \in Nat /\ t[Len(s) + 1] = x
      /\ \A i \in 1 .. Len(s) : t[i] = s[i]
      /\ DOMAIN s = 1 .. Len(s)
  OBVIOUS
<1>2. \A i \in 1 .. Len(s) : Before(s[i], x)
  BY <1>1 DEF AllBefore, ToSet
<1> SUFFICES ASSUME NEW i \in 1 .. Len(t), NEW j \in 1 .. Len(t), i < j
             PROVE  Before(t[i], t[j])
  BY DEF Sorted
<1>3. i \in 1 .. Len(s)
  BY <1>1
<1>4. CASE j \in 1 .. Len(s)
  BY <1>1, <1>3, <1>4 DEF Sorted
<1>5. CASE j = Len(s) + 1
  BY <1>1, <1>2, <1>3, <1>5
<1>6. QED
  BY <1>1, <1>4, <1>5

LEMMA ConcatSorted ==
    ASSUME NEW R, NEW s \in Seq(R), NEW u \in Seq(R), Sorted(s), Sorted(u),
           AllBefore(ToSet(s), ToSet(u))
    PROVE  Sorted(s \o u)
<1> DEFINE t == s \o u
<1>1. /\ Len(t) = Len(s) + Len(u) /\ Len(s) \in Nat /\ Len(u) \in Nat
      /\ \A i \in 1 .. Len(s) : t[i] = s[i]
      /\ \A i \in 1 .. Len(t) : i \notin 1 .. Len(s) => t[i] = u[i - Len(s)]
      /\ DOMAIN s = 1 .. Len(s) /\ DOMAIN u = 1 .. Len(u)
  OBVIOUS
<1>2. \A i \in 1 .. Len(s), j \in 1 .. Len(u) : Before(s[i], u[j])
  BY <1>1 DEF AllBefore, ToSet
<1> SUFFICES ASSUME NEW i \in 1 .. Len(t), NEW j \in 1 .. Len(t), i < j
             PROVE  Before(t[i], t[j])
  BY DEF Sorted
<1>3. CASE j \in 1 .. Len(s)
  <2>1. i \in 1 .. Len(s)
    BY <1>1, <1>3
  <2>2. QED
    BY <1>1, <1>3, <2>1 DEF Sorted
<1>4. CASE j \notin 1 .. Len(s) /\ i \in 1 .. Len(s)
  <2>1. j - Len(s) \in 1 .. Len(u)
    BY <1>1, <1>4
  <2>2. QED
    BY <1>1, <1>2, <1>4, <2>1
<1>5. CASE j \notin 1 .. Len(s) /\ i \notin 1 .. Len(s)
  <2>1. /\ i - Len(s) \in 1 .. Len(u) /\ j - Len(s) \in 1 .. Len(u)
        /\ i - Len(s) < j - Len(s)
    BY <1>1, <1>5
  <2>2. QED
    BY <1>1, <1>5, <2>1 DEF Sorted
<1>6. QED
  BY <1>3, <1>4, <1>5

LEMMA TailSorted ==
    ASSUME NEW R, NEW s \in Seq(R), s # <<>>, Sorted(s)
    PROVE  Sorted(Tail(s)) /\ AllBefore({Head(s)}, ToSet(Tail(s)))
<1> DEFINE t == Tail(s)
<1>1. /\ Head(s) = s[1] /\ Len(t) = Len(s) - 1 /\ Len(s) \in Nat \ {0}
      /\ \A i \in 1 .. Len(t) : t[i] = s[i + 1]
      /\ DOMAIN t = 1 .. Len(t)
  OBVIOUS
<1>2. \A i \in 1 .. Len(t) : i + 1 \in 1 .. Len(s) /\ 1 < i + 1 /\ 1 \in 1 .. Len(s)
  BY <1>1
<1>3. \A i \in 1 .. Len(t) : Before(s[1], t[i])
  BY <1>1, <1>2 DEF Sorted
<1>4. AllBefore({Head(s)}, ToSet(t))
  BY <1>1, <1>3 DEF AllBefore, ToSet
<1>5. Sorted(t)
  <2> SUFFICES ASSUME NEW i \in 1 .. Len(t), NEW j \in 1 .. Len(t), i < j
               PROVE  Before(t[i], t[j])
    BY DEF Sorted
  <2>1. i + 1 < j + 1
    BY <1>1
  <2>2. Before(s[i + 1], s[j + 1])
    BY <1>2, <2>1 DEF Sorted
  <2>3. QED
    BY <1>1, <2>2
<1>6. QED
  BY <1>4, <1>5

-----------------------------------------------------------------------------
(* Every step keeps the types *)

SeqType == queue \in Seq(Records) /\ pending \in Seq(Records) /\ file \in Seq(Records)

LEMMA SinkTypeInit == Init => TypeOK
<1> SUFFICES ASSUME Init PROVE TypeOK
  OBVIOUS
<1>1. SeqType
  BY DEF Init, SeqType
<1>2. 0 \in 0 .. MaxRecords
  BY AuditAssumption
<1>3. count \in [Threads -> 0 .. MaxRecords] /\ pc \in [Threads -> {"idle", "made"}]
  BY <1>2 DEF Init
<1>4. QED
  BY <1>1, <1>3 DEF Init, TypeOK, SeqType

(* A record in the hands of a thread is one of those it may come with. *)
LEMMA CurrentType ==
    ASSUME TypeOK, Fresh, NEW t \in Threads, pc[t] = "made"
    PROVE  Current(t) \in Records
<1>1. count[t] \in 1 .. MaxRecords
  BY AuditAssumption DEF TypeOK, Fresh
<1>2. QED
  BY <1>1 DEF Current, Records

LEMMA SinkTypeStep ==
    ASSUME TypeOK, Fresh, CloseInv, [Next]_vars
    PROVE  TypeOK'
<1> USE DEF config, writerVars, closeVars
<1>0. SeqType
  BY DEF TypeOK, SeqType
<1>1. ASSUME NEW t \in Threads, Make(t) PROVE TypeOK'
  <2>1. count' \in [Threads -> 0 .. MaxRecords]
    <3>1. count[t] + 1 \in 0 .. MaxRecords /\ count \in [Threads -> 0 .. MaxRecords]
      BY <1>1, AuditAssumption DEF TypeOK, Make
    <3>2. QED
      BY <1>1, <3>1 DEF Make
  <2>2. pc' \in [Threads -> {"idle", "made"}]
    <3>1. \E p \in {"idle", "made"} : pc' = [pc EXCEPT ![t] = p]
      BY <1>1 DEF Make
    <3>2. QED
      BY <3>1 DEF TypeOK
  <2>3. QED
    BY <1>1, <2>1, <2>2 DEF TypeOK, Make
<1>2. ASSUME NEW t \in Threads, Put(t) PROVE TypeOK'
  <2>1. Current(t) \in Records
    BY <1>2, CurrentType DEF Put
  <2>2. queue' \in Seq(Records)
    BY <1>0, <1>2, <2>1, AppendSet DEF SeqType, Put
  <2>3. pc' \in [Threads -> {"idle", "made"}] /\ accepted' \subseteq Records
    BY <1>2, <2>1 DEF TypeOK, Put, Returned
  <2>4. QED
    BY <1>2, <2>2, <2>3 DEF TypeOK, Put
<1>3. ASSUME NEW t \in Threads, WriteRecord(t) PROVE TypeOK'
  <2>1. Current(t) \in Records
    BY <1>3, CurrentType DEF WriteRecord
  <2>2. file' \in Seq(Records)
    <3>1. file' = file \/ file' = Append(file, Current(t))
      BY <1>3 DEF WriteRecord
    <3>2. file \in Seq(Records) /\ Append(file, Current(t)) \in Seq(Records)
      BY <1>0, <2>1, AppendSet DEF SeqType
    <3>3. QED
      BY <3>1, <3>2
  <2>3. pc' \in [Threads -> {"idle", "made"}] /\ accepted' \subseteq Records
    BY <1>3, <2>1 DEF TypeOK, WriteRecord, Returned
  <2>4. QED
    BY <1>3, <2>2, <2>3 DEF TypeOK, WriteRecord
<1>4. ASSUME Test PROVE TypeOK'
  BY <1>4 DEF TypeOK, Test
<1>5. ASSUME Get PROVE TypeOK'
  <2>1. queue' \in Seq(Records) /\ Head(queue) \in Records
    BY <1>0, <1>5, TailSet DEF SeqType, Get
  <2>2. pending' \in Seq(Records)
    BY <1>0, <1>5, <2>1, AppendSet DEF SeqType, Get
  <2>3. QED
    BY <1>5, <2>1, <2>2 DEF TypeOK, Get
<1>6. ASSUME GetTimeout PROVE TypeOK'
  BY <1>6 DEF TypeOK, GetTimeout
<1>7. ASSUME WriteBatch PROVE TypeOK'
  <2>1. file' = file \/ file' = file \o pending
    BY <1>7 DEF WriteBatch
  <2>2. file' \in Seq(Records)
    <3>1. file \in Seq(Records) /\ file \o pending \in Seq(Records)
      BY <1>0, ConcatSet DEF SeqType
    <3>2. QED
      BY <2>1, <3>1
  <2>3. pending' \in Seq(Records) /\ writer' \in {"test", "dead"}
    BY <1>7 DEF TypeOK, WriteBatch, Cleared
  <2>4. stream' # "open" => writer' = "dead"
    BY <1>7 DEF TypeOK, WriteBatch
  <2>5. QED
    BY <1>7, <2>2, <2>3, <2>4 DEF TypeOK, WriteBatch
<1>8. ASSUME Close PROVE TypeOK'
  BY <1>8 DEF TypeOK, Close, StopRequest
<1>9. ASSUME CloseStream PROVE TypeOK'
  BY <1>9 DEF TypeOK, CloseStream, Joined
<1>10. ASSUME ForgetStream PROVE TypeOK'
  BY <1>10 DEF TypeOK, ForgetStream, CloseInv
<1>11. CASE UNCHANGED vars
  BY <1>11 DEF TypeOK, vars
<1>12. QED
  BY <1>1, <1>2, <1>3, <1>4, <1>5, <1>6, <1>7, <1>8, <1>9, <1>10, <1>11
  DEF Next, Idle

-----------------------------------------------------------------------------
(* Every step keeps the rest of the invariant *)

(* What a thread that has made a record is about to put down comes after    *)
(* everything of its own that is on the way.                                *)
LEMMA CurrentIsLast ==
    ASSUME TypeOK, Fresh, NEW t \in Threads, pc[t] = "made"
    PROVE  AllBefore(OnTheWay, {Current(t)})
BY DEF Fresh, AllBefore, Before, Current

(* The call of a thread that has made a record returns. *)
LEMMA ReturnedFresh ==
    ASSUME TypeOK, Fresh, NEW t \in Threads, pc[t] = "made", Returned(t),
           UNCHANGED count, OnTheWay' \subseteq OnTheWay \cup {Current(t)}
    PROVE  Fresh'
<1>1. /\ \A u \in Threads : u # t => pc'[u] = pc[u]
      /\ pc'[t] = "idle"
  BY DEF TypeOK, Returned
<1>2. \A u \in Threads : pc'[u] = "made" => count'[u] > 0
  BY <1>1 DEF Fresh
<1>3. ASSUME NEW x \in OnTheWay'
      PROVE  x[2] <= count'[x[1]] /\ (pc'[x[1]] = "made" => x[2] < count'[x[1]])
  <2>1. CASE x \in OnTheWay
    <3>1. x[2] <= count[x[1]] /\ (pc[x[1]] = "made" => x[2] < count[x[1]])
      BY <2>1 DEF Fresh
    <3>2. pc'[x[1]] = "made" => pc[x[1]] = "made"
      BY <1>1 DEF Returned, TypeOK
    <3>3. QED
      BY <3>1, <3>2
  <2>2. CASE x = Current(t)
    <3>1. x[1] = t /\ x[2] = count[t] /\ count[t] \in Nat
      BY <2>2, AuditAssumption DEF Current, TypeOK
    <3>2. QED
      BY <1>1, <3>1
  <2>3. QED
    BY <1>3, <2>1, <2>2
<1>4. QED
  BY <1>2, <1>3 DEF Fresh

(* Nothing new is on the way and no thread moves. *)
LEMMA FreshKept ==
    ASSUME Fresh, UNCHANGED <<count, pc>>, OnTheWay' \subseteq OnTheWay
    PROVE  Fresh'
BY DEF Fresh

(* Where the records are after a step of Put. *)
LEMMA PutStep ==
    ASSUME SinkInv, NEW t \in Threads, Put(t)
    PROVE  SinkInv' /\ UNCHANGED file
<1> USE DEF config, writerVars, closeVars
<1>1. SeqType /\ Current(t) \in Records
  BY CurrentType DEF SinkInv, TypeOK, SeqType, Put
<1>2. /\ UNCHANGED <<file, pending>>
      /\ queue' = Append(queue, Current(t))
      /\ accepted' = accepted \cup {Current(t)}
      /\ UNCHANGED <<async_mode, count, writer, stop_event, stream, closer, due>>
      /\ async_mode /\ pc[t] = "made"
  BY DEF Put, Returned
<1>3. ToSet(queue') = ToSet(queue) \cup {Current(t)}
  BY <1>1, <1>2, AppendSet DEF SeqType
<1>4. OnTheWay' = OnTheWay \cup {Current(t)}
  BY <1>2, <1>3 DEF OnTheWay
<1>5. AllBefore(OnTheWay, {Current(t)})
  BY <1>2, CurrentIsLast DEF SinkInv
<1>6. Sorted(queue')
  <2>1. AllBefore(ToSet(queue), {Current(t)})
    BY <1>5 DEF AllBefore, OnTheWay
  <2>2. QED
    BY <1>1, <1>2, <2>1, AppendSorted DEF SeqType, SinkInv, InOrder
<1>7. InOrder'
  BY <1>2, <1>3, <1>5, <1>6 DEF SinkInv, InOrder, AllBefore, OnTheWay
<1>8. Fresh'
  BY <1>2, <1>4, ReturnedFresh DEF SinkInv, Put
<1>9. Accounted'
  BY <1>2, <1>4 DEF SinkInv, Accounted
<1>10. WriterInv' /\ CloseInv'
  BY <1>2 DEF SinkInv, WriterInv, CloseInv
<1>11. TypeOK'
  BY SinkTypeStep DEF SinkInv, Next
<1>12. QED
  BY <1>2, <1>7, <1>8, <1>9, <1>10, <1>11 DEF SinkInv

LEMMA WriteRecordStep ==
    ASSUME SinkInv, NEW t \in Threads, WriteRecord(t)
    PROVE  SinkInv' /\ file' \in {file, Append(file, Current(t))}
<1> USE DEF config, writerVars, closeVars
<1>1. SeqType /\ Current(t) \in Records
  BY CurrentType DEF SinkInv, TypeOK, SeqType, WriteRecord
<1>2. /\ accepted' = accepted \cup {Current(t)}
      /\ UNCHANGED <<queue, pending, async_mode, count, writer, stop_event, stream,
                     closer, due>>
      /\ ~async_mode /\ pc[t] = "made"
  BY DEF WriteRecord, Returned
<1>3. queue = <<>> /\ pending = <<>> /\ writer = "dead"
  BY <1>2 DEF SinkInv, Accounted
<1>4. ToSet(queue) = {} /\ ToSet(pending) = {}
  BY <1>3, EmptyElements
<1>5. AllBefore(ToSet(file), {Current(t)})
  BY <1>2, CurrentIsLast DEF SinkInv, OnTheWay, AllBefore
<1>6. CASE file' = Append(file, Current(t))
  <2>1. ToSet(file') = ToSet(file) \cup {Current(t)}
    BY <1>1, <1>6, AppendSet DEF SeqType
  <2>2. Sorted(file')
    BY <1>1, <1>5, <1>6, AppendSorted DEF SeqType, SinkInv, InOrder
  <2>3. InOrder'
    BY <1>2, <1>4, <2>2 DEF SinkInv, InOrder, AllBefore
  <2>4. OnTheWay' = OnTheWay \cup {Current(t)}
    BY <1>2, <2>1 DEF OnTheWay
  <2>5. Fresh'
    BY <1>2, <2>4, ReturnedFresh DEF SinkInv, WriteRecord
  <2>6. Accounted'
    BY <1>2, <1>3, <2>4 DEF SinkInv, Accounted
  <2>7. WriterInv' /\ CloseInv'
    BY <1>2, <2>1 DEF SinkInv, WriterInv, CloseInv
  <2>8. TypeOK'
    BY SinkTypeStep DEF SinkInv, Next
  <2>9. QED
    BY <1>6, <2>3, <2>5, <2>6, <2>7, <2>8 DEF SinkInv
<1>7. CASE file' = file /\ (Current(t) \in BadRecords \/ stream # "open")
  <2>1. InOrder' /\ OnTheWay' = OnTheWay
    BY <1>2, <1>7 DEF SinkInv, InOrder, OnTheWay
  <2>2. Fresh'
    BY <1>2, <2>1, ReturnedFresh DEF SinkInv, WriteRecord
  <2>3. Accounted'
    <3>1. closer = "none" => Current(t) \in BadRecords
      BY <1>7 DEF SinkInv, CloseInv
    <3>2. QED
      BY <1>2, <1>3, <2>1, <3>1 DEF SinkInv, Accounted
  <2>4. WriterInv' /\ CloseInv'
    BY <1>2, <1>7 DEF SinkInv, WriterInv, CloseInv
  <2>5. TypeOK'
    BY SinkTypeStep DEF SinkInv, Next
  <2>6. QED
    BY <1>7, <2>1, <2>2, <2>3, <2>4, <2>5 DEF SinkInv
<1>8. QED
  BY <1>6, <1>7 DEF WriteRecord

LEMMA GetStep ==
    ASSUME SinkInv, Get
    PROVE  SinkInv' /\ UNCHANGED file
<1> USE DEF config, closeVars
<1> DEFINE x == Head(queue)
<1>1. /\ queue # <<>> /\ queue' = Tail(queue) /\ pending' = Append(pending, x)
      /\ writer' = "drain" /\ writer \in {"get", "drain"}
      /\ UNCHANGED <<async_mode, count, pc, file, accepted, stop_event, stream,
                     closer, due>>
  BY DEF Get
<1>2. SeqType /\ x \in Records
  <2>1. SeqType
    BY DEF SinkInv, TypeOK, SeqType
  <2>2. QED
    BY <1>1, <2>1, TailSet DEF SeqType
<1>3. /\ ToSet(queue) = ToSet(queue') \cup {x}
      /\ ToSet(pending') = ToSet(pending) \cup {x}
  BY <1>1, <1>2, TailSet, AppendSet DEF SeqType
<1>4. OnTheWay' = OnTheWay
  BY <1>1, <1>3 DEF OnTheWay
<1>5. AllBefore(ToSet(pending), {x})
  BY <1>3 DEF SinkInv, InOrder, AllBefore
<1>6. Sorted(pending')
  BY <1>1, <1>2, <1>5, AppendSorted DEF SeqType, SinkInv, InOrder
<1>7. Sorted(queue') /\ AllBefore({x}, ToSet(queue'))
  BY <1>1, <1>2, TailSorted DEF SeqType, SinkInv, InOrder
<1>8. InOrder'
  BY <1>1, <1>3, <1>6, <1>7 DEF SinkInv, InOrder, AllBefore
<1>9. Fresh'
  BY <1>1, <1>4, FreshKept DEF SinkInv
<1>10. Accounted'
  BY <1>1, <1>4 DEF SinkInv, Accounted
<1>11. WriterInv' /\ CloseInv'
  BY <1>1 DEF SinkInv, WriterInv, CloseInv
<1>12. TypeOK'
  BY SinkTypeStep DEF SinkInv, Next
<1>13. QED
  BY <1>1, <1>8, <1>9, <1>10, <1>11, <1>12 DEF SinkInv

(* The batch goes to the file, or the writer dies of it. *)
LEMMA WriteBatchStep ==
    ASSUME SinkInv, WriteBatch
    PROVE  SinkInv' /\ file' \in {file, file \o pending}
<1> USE DEF config, closeVars
<1>1. /\ writer = "drain" /\ queue = <<>>
      /\ UNCHANGED <<queue, async_mode, count, pc, accepted, stop_event, stream,
                     closer, due>>
  BY DEF WriteBatch
<1>2. SeqType /\ ToSet(queue) = {}
  BY <1>1, EmptyElements DEF SinkInv, TypeOK, SeqType
<1>3. TypeOK'
  BY SinkTypeStep DEF SinkInv, Next
<1>4. CASE ToSet(pending) \cap BadRecords # {}
  <2>1. writer' = "dead" /\ UNCHANGED <<pending, file>>
    BY <1>4 DEF WriteBatch
  <2>2. InOrder' /\ OnTheWay' = OnTheWay
    BY <1>1, <2>1 DEF SinkInv, InOrder, OnTheWay
  <2>3. Fresh'
    BY <1>1, <2>2, FreshKept DEF SinkInv
  <2>4. Accounted'
    BY <1>1, <2>1, <2>2 DEF SinkInv, Accounted
  <2>5. accepted \cap BadRecords # {}
    BY <1>4 DEF SinkInv, Accounted, OnTheWay
  <2>6. WriterInv' /\ CloseInv'
    BY <1>1, <2>1, <2>5 DEF SinkInv, WriterInv, CloseInv
  <2>7. QED
    BY <1>3, <2>1, <2>2, <2>3, <2>4, <2>6 DEF SinkInv
<1>5. CASE ToSet(pending) \cap BadRecords = {}
  <2>1. stream = "open" /\ writer' = "test" /\ file' = file \o pending /\ pending' = <<>>
    BY <1>1, <1>5 DEF WriteBatch, Cleared, SinkInv, TypeOK
  <2>2. ToSet(file') = ToSet(file) \cup ToSet(pending) /\ ToSet(pending') = {}
    BY <1>2, <2>1, ConcatSet, EmptyElements DEF SeqType
  <2>3. OnTheWay' = OnTheWay
    BY <1>1, <2>2 DEF OnTheWay
  <2>4. Sorted(file')
    BY <1>2, <2>1, ConcatSorted DEF SeqType, SinkInv, InOrder
  <2>5. InOrder'
    BY <1>1, <1>2, <2>1, <2>2, <2>4, EmptyElements, EmptySorted DEF SinkInv, InOrder, AllBefore
  <2>6. Fresh'
    BY <1>1, <2>3, FreshKept DEF SinkInv
  <2>7. Accounted'
    BY <1>1, <2>1, <2>3 DEF SinkInv, Accounted
  <2>8. WriterInv' /\ CloseInv'
    BY <1>1, <2>1, <2>2 DEF SinkInv, WriterInv, CloseInv
  <2>9. QED
    BY <1>3, <2>1, <2>5, <2>6, <2>7, <2>8 DEF SinkInv
<1>6. QED
  BY <1>4, <1>5

LEMMA MakeStep ==
    ASSUME SinkInv, NEW t \in Threads, Make(t)
    PROVE  SinkInv' /\ UNCHANGED <<file, accepted, due, closer>>
<1> USE DEF config, writerVars, closeVars
<1>1. /\ pc[t] = "idle" /\ count' = [count EXCEPT ![t] = @ + 1]
      /\ \E p \in {"idle", "made"} : pc' = [pc EXCEPT ![t] = p]
      /\ UNCHANGED <<queue, pending, writer, stop_event, stream, closer, due, file,
                     accepted, async_mode>>
  BY DEF Make
<1>2. InOrder' /\ Accounted' /\ WriterInv' /\ CloseInv' /\ OnTheWay' = OnTheWay
  BY <1>1 DEF SinkInv, InOrder, Accounted, WriterInv, CloseInv, OnTheWay
<1>3. /\ \A u \in Threads : u # t => pc'[u] = pc[u] /\ count'[u] = count[u]
      /\ count'[t] = count[t] + 1 /\ count[t] \in Nat
  BY <1>1, AuditAssumption DEF SinkInv, TypeOK
<1>4. Fresh'
  <2>1. \A u \in Threads : pc'[u] = "made" => count'[u] > 0
    BY <1>3 DEF SinkInv, Fresh
  <2>2. ASSUME NEW x \in OnTheWay
        PROVE  x[2] <= count'[x[1]] /\ (pc'[x[1]] = "made" => x[2] < count'[x[1]])
    <3>1. x \in Records
      BY <2>2 DEF SinkInv, Accounted, TypeOK
    <3>2. x[1] \in Threads /\ x[2] \in Nat
      BY <3>1, AuditAssumption DEF Records
    <3>3. x[2] <= count[x[1]] /\ (pc[x[1]] = "made" => x[2] < count[x[1]])
      BY <2>2 DEF SinkInv, Fresh
    <3>4. CASE x[1] = t
      BY <1>3, <3>2, <3>3, <3>4
    <3>5. CASE x[1] # t
      BY <1>3, <3>2, <3>3, <3>5
    <3>6. QED
      BY <3>4, <3>5
  <2>3. QED
    BY <1>2, <2>1, <2>2 DEF Fresh
<1>5. TypeOK'
  BY SinkTypeStep DEF SinkInv, Next
<1>6. QED
  BY <1>1, <1>2, <1>4, <1>5 DEF SinkInv

LEMMA CloseStep ==
    ASSUME SinkInv, Close
    PROVE  SinkInv'
<1> USE DEF config, writerVars
<1>1. /\ closer = "none" /\ closer' = "joining" /\ due' = accepted
      /\ UNCHANGED <<count, pc, queue, pending, writer, stream, file, accepted,
                     async_mode>>
  BY DEF Close
<1>2. InOrder' /\ OnTheWay' = OnTheWay /\ Accounted'
  BY <1>1 DEF SinkInv, InOrder, Accounted, OnTheWay
<1>3. Fresh'
  BY <1>1, <1>2, FreshKept DEF SinkInv
<1>4. WriterInv'
  BY <1>1 DEF SinkInv, WriterInv
<1>5. CloseInv'
  <2>1. ~async_mode => due' \subseteq ToSet(file) \/ accepted \cap BadRecords # {}
    <3> SUFFICES ASSUME ~async_mode, accepted \cap BadRecords = {}
                 PROVE  accepted \subseteq ToSet(file)
      BY <1>1
    <3>1. ToSet(queue) = {} /\ ToSet(pending) = {}
      BY EmptyElements DEF SinkInv, Accounted
    <3>2. QED
      BY <1>1, <3>1 DEF SinkInv, Accounted, OnTheWay
  <2>2. QED
    BY <1>1, <2>1 DEF SinkInv, CloseInv
<1>6. TypeOK'
  BY SinkTypeStep DEF SinkInv, Next
<1>7. QED
  BY <1>2, <1>3, <1>4, <1>5, <1>6 DEF SinkInv

LEMMA TestStep ==
    ASSUME SinkInv, Test
    PROVE  SinkInv'
<1> USE DEF config, closeVars
<1>1. /\ writer = "test" /\ writer' = IF WriterStops THEN "dead" ELSE "get"
      /\ UNCHANGED <<count, pc, queue, pending, stop_event, stream, closer, due,
                     file, accepted, async_mode>>
  BY DEF Test
<1>2. InOrder' /\ OnTheWay' = OnTheWay
  BY <1>1 DEF SinkInv, InOrder, OnTheWay
<1>3. Fresh'
  BY <1>1, <1>2, FreshKept DEF SinkInv
<1>4. Accounted' /\ CloseInv'
  BY <1>1, <1>2 DEF SinkInv, Accounted, CloseInv
<1>5. WriterInv'
  <2>1. CASE WriterStops
    <3>1. /\ queue = <<>> /\ pending = <<>> /\ closer # "none"
      BY <1>1, <2>1 DEF WriterStops, SinkInv, WriterInv, CloseInv
    <3>2. accepted \subseteq ToSet(file)
      BY <1>1, <3>1, EmptyElements DEF SinkInv, Accounted, OnTheWay
    <3>3. due \subseteq ToSet(file)
      BY <3>1, <3>2 DEF SinkInv, CloseInv
    <3>4. QED
      BY <1>1, <2>1, <3>1, <3>3 DEF WriterInv
  <2>2. CASE ~WriterStops
    BY <1>1, <2>2 DEF SinkInv, WriterInv
  <2>3. QED
    BY <2>1, <2>2
<1>6. TypeOK'
  BY SinkTypeStep DEF SinkInv, Next
<1>7. QED
  BY <1>2, <1>3, <1>4, <1>5, <1>6 DEF SinkInv

(* A step that moves only program counters, the stream or close. *)
LEMMA CloserStep ==
    ASSUME SinkInv, GetTimeout \/ CloseStream \/ ForgetStream \/ UNCHANGED vars
    PROVE  SinkInv' /\ UNCHANGED <<count, file, accepted, due>>
<1> USE DEF config, writerVars, closeVars, vars
<1>1. UNCHANGED <<count, pc, queue, pending, due, file, accepted, async_mode>>
  BY DEF GetTimeout, CloseStream, ForgetStream
<1>2. InOrder' /\ OnTheWay' = OnTheWay
  BY <1>1 DEF SinkInv, InOrder, OnTheWay
<1>3. Fresh'
  BY <1>1, <1>2, FreshKept DEF SinkInv
<1>4. Accounted' /\ WriterInv' /\ CloseInv'
  <2>1. CASE GetTimeout
    BY <1>1, <1>2, <2>1 DEF GetTimeout, SinkInv, Accounted, WriterInv, CloseInv
  <2>2. CASE CloseStream
    BY <1>1, <1>2, <2>2
    DEF CloseStream, Joined, SinkInv, Accounted, WriterInv, CloseInv
  <2>3. CASE ForgetStream
    BY <1>1, <1>2, <2>3 DEF ForgetStream, SinkInv, Accounted, WriterInv, CloseInv
  <2>4. CASE UNCHANGED vars
    BY <1>1, <1>2, <2>4 DEF SinkInv, Accounted, WriterInv, CloseInv
  <2>5. QED
    BY <2>1, <2>2, <2>3, <2>4
<1>5. TypeOK'
  <2>1. [Next]_vars
    BY DEF Next
  <2>2. QED
    BY <2>1, SinkTypeStep DEF SinkInv
<1>6. QED
  BY <1>1, <1>2, <1>3, <1>4, <1>5 DEF SinkInv

LEMMA SinkInit == Init => SinkInv
<1> SUFFICES ASSUME Init PROVE SinkInv
  OBVIOUS
<1>1. TypeOK
  BY SinkTypeInit
<1>2. /\ file = <<>> /\ pending = <<>> /\ queue = <<>>
      /\ accepted = {} /\ closer = "none" /\ stream = "open" /\ ~stop_event
      /\ pc = [t \in Threads |-> "idle"]
      /\ writer = IF async_mode THEN "test" ELSE "dead"
  BY DEF Init
<1>3. ToSet(file) = {} /\ ToSet(pending) = {} /\ ToSet(queue) = {}
  BY <1>2, EmptyElements
<1>4. InOrder /\ Fresh
  BY <1>2, <1>3, EmptySorted DEF InOrder, AllBefore, Fresh, OnTheWay
<1>5. Accounted /\ WriterInv /\ CloseInv
  BY <1>2, <1>3 DEF Accounted, WriterInv, CloseInv, OnTheWay
<1>6. QED
  BY <1>1, <1>4, <1>5 DEF SinkInv

LEMMA SinkStep ==
    ASSUME SinkInv, [Next]_vars
    PROVE  SinkInv'
BY MakeStep, PutStep, WriteRecordStep, GetStep, WriteBatchStep, CloseStep, TestStep,
   CloserStep
DEF Next, Idle

-----------------------------------------------------------------------------
(* The sink implements the log *)

LEMMA LogStep ==
    ASSUME SinkInv, SinkInv', [Next]_vars
    PROVE  [Log!Next /\ (Log!Orderly)']_(Log!vars)
<1> USE DEF config, writerVars, closeVars
<1>1. (Log!Orderly)'
  BY DEF SinkInv, InOrder, Sorted, Before, Log!Orderly
<1>2. ASSUME NEW t \in Threads, Make(t) PROVE Log!Next
  BY <1>2 DEF Make, Log!Next, Log!Give
<1>3. ASSUME NEW t \in Threads, Put(t) PROVE Log!Next
  BY <1>3 DEF Put, Returned, Current, Log!Next, Log!Accept
<1>4. ASSUME NEW t \in Threads, WriteRecord(t) PROVE Log!Next
  <2>1. file' = file \/ (stream = "open" /\ file' = Append(file, Current(t)))
    BY <1>4 DEF WriteRecord
  <2>2. stream = "open" => closer # "done"
    BY DEF SinkInv, CloseInv
  <2>3. Log!Accept(t)
    BY <1>4, <2>1, <2>2 DEF WriteRecord, Returned, Current, Log!Accept
  <2>4. QED
    BY <2>3 DEF Log!Next
<1>5. ASSUME Test \/ Get \/ GetTimeout \/ CloseStream \/ UNCHANGED vars
      PROVE  UNCHANGED Log!vars
  BY <1>5 DEF Test, Get, GetTimeout, CloseStream, vars, Log!vars
<1>6. ASSUME WriteBatch PROVE Log!Next \/ UNCHANGED Log!vars
  <2>1. UNCHANGED <<count, accepted, due, closer>>
    BY <1>6 DEF WriteBatch
  <2>2. file' = file \/ (stream = "open" /\ file' = file \o pending)
    BY <1>6 DEF WriteBatch
  <2>3. CASE file' = file
    BY <2>1, <2>3 DEF Log!vars
  <2>4. CASE stream = "open" /\ file' = file \o pending
    <3>1. IsPrefix(file, file')
      BY <2>4, ConcatPrefix DEF SinkInv, TypeOK
    <3>2. ToSet(file') \subseteq accepted
      BY <2>1 DEF SinkInv, Accounted, OnTheWay
    <3>3. closer # "done"
      BY <2>4 DEF SinkInv, CloseInv
    <3>4. Log!Write
      BY <2>1, <3>1, <3>2, <3>3
      DEF Log!Write, Log!IsPrefix, IsPrefix, Log!ToSet, ToSet
    <3>5. QED
      BY <3>4 DEF Log!Next
  <2>5. QED
    BY <2>2, <2>3, <2>4
<1>7. ASSUME Close PROVE Log!Next
  BY <1>7 DEF Close, Log!Next, Log!BeginClose
<1>8. ASSUME ForgetStream PROVE Log!Next
  <2>1. closer = "forgetting" /\ closer' = "done" /\ UNCHANGED <<count, file, accepted, due>>
    BY <1>8 DEF ForgetStream
  <2>2. due \subseteq ToSet(file) \/ accepted \cap BadRecords # {}
    BY <2>1 DEF SinkInv, WriterInv, CloseInv, TypeOK
  <2>3. Log!EndClose
    BY <2>1, <2>2 DEF Log!EndClose, Log!ToSet, ToSet
  <2>4. QED
    BY <2>3 DEF Log!Next
<1>9. QED
  BY <1>1, <1>2, <1>3, <1>4, <1>5, <1>6, <1>7, <1>8 DEF Next, Idle

-----------------------------------------------------------------------------
(* The fields of the sink keep their types and its stream goes only after   *)
(* its writer thread has ended.                                             *)
THEOREM SinkTypeCorrect == Spec => []TypeOK
<1>1. SinkInv => TypeOK
  BY DEF SinkInv
<1>2. SinkInv /\ [Next]_vars => SinkInv'
  BY SinkStep
<1>3. QED
  BY <1>1, <1>2, SinkInit, PTL DEF Spec

(* The sink implements the log: a record is written once and after its      *)
(* thread's earlier ones, nothing is written that was not accepted, and     *)
(* close returns only when all that had been accepted before it is written  *)
(* (or the writer has met a record that it cannot encode), after which      *)
(* nothing is written.  So whatever the number of threads and records, for  *)
(* both modes, and whether the sink owns its stream or not.                 *)
THEOREM SinkImplementsLog == Spec => ImplementsLog
<1>1. Init => Log!Init
  BY DEF Init, Log!Init
<1>2. SinkInv /\ [Next]_vars => SinkInv'
  BY SinkStep
<1>3. SinkInv /\ SinkInv' /\ [Next]_vars => [Log!Next /\ (Log!Orderly)']_(Log!vars)
  BY LogStep
<1>4. QED
  BY <1>1, <1>2, <1>3, SinkInit, PTL DEF Spec, ImplementsLog, Log!Spec

=============================================================================
