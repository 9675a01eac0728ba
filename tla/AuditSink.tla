------------------------------ MODULE AuditSink ------------------------------
(***************************************************************************)
(* AuditSink: threads that record, the writer thread of the asynchronous    *)
(* mode, and close, which the executor's shutdown calls on the loop.        *)
(*                                                                         *)
(* The stream of the sink is open, closed (close has closed the file and    *)
(* not yet forgotten it) or None.  A record that json cannot encode raises   *)
(* where it is encoded: in the writer thread, or in the recording thread.   *)
(***************************************************************************)
EXTENDS Integers, Sequences, SequencesExt

CONSTANTS
    Threads,
    Quiet,      \* the loop and the pool threads shutdown(wait=True) joins:
                \* they record nothing while close runs and after it
    BadRecords, \* records that cannot be encoded
    MaxRecords  \* bound: records of a thread

ASSUME AuditAssumption == Quiet \subseteq Threads /\ MaxRecords \in Nat

VARIABLES
    async_mode, owns_stream,    \* configuration
    count, pc,                  \* threads: records so far, progress in _write
    queue, pending, writer,     \* writer thread: its queue, batch, progress
    stop_event, stream, closer, \* close: its event, the stream, progress
    file,                       \* what has been written to the stream
    accepted, due               \* history: records whose call has returned,
                                \* and those of them when close was called

vars == <<async_mode, owns_stream, count, pc, queue, pending, writer,
          stop_event, stream, closer, file, accepted, due>>

config == <<async_mode, owns_stream>>
writerVars == <<queue, pending, writer>>
closeVars == <<stop_event, stream, closer, due>>

Init ==
    /\ async_mode \in BOOLEAN /\ owns_stream \in BOOLEAN
    /\ count = [t \in Threads |-> 0] /\ pc = [t \in Threads |-> "idle"]
    /\ queue = <<>> /\ pending = <<>>
    /\ writer = IF async_mode THEN "test" ELSE "dead"
    /\ stop_event = FALSE /\ stream = "open" /\ closer = "none"
    /\ file = <<>> /\ accepted = {} /\ due = {}

-----------------------------------------------------------------------------
(* Recording threads *)

Current(t) == <<t, count[t]>>

(* The call returns, with an exception or without. *)
Returned(t) ==
    /\ pc' = [pc EXCEPT ![t] = "idle"]
    /\ accepted' = accepted \cup {Current(t)}

(* _write, up to and including the test of the stream. *)
Make(t) ==
    /\ pc[t] = "idle" /\ count[t] < MaxRecords
    /\ t \in Quiet => closer = "none"
    /\ count' = [count EXCEPT ![t] = @ + 1]
    /\ pc' = [pc EXCEPT ![t] = IF stream = "none" THEN "idle" ELSE "made"]
    /\ UNCHANGED <<config, writerVars, closeVars, file, accepted>>

Put(t) ==
    /\ pc[t] = "made" /\ async_mode
    /\ queue' = Append(queue, Current(t))
    /\ Returned(t)
    /\ UNCHANGED <<config, count, pending, writer, closeVars, file>>

(* _write_record; writing to a closed file is a ValueError. *)
WriteRecord(t) ==
    /\ pc[t] = "made" /\ ~async_mode
    /\ file' = IF Current(t) \in BadRecords \/ stream # "open" THEN file
               ELSE Append(file, Current(t))
    /\ Returned(t)
    /\ UNCHANGED <<config, count, writerVars, closeVars>>

-----------------------------------------------------------------------------
(* The writer thread *)

(* Mutant of WriterStops: what waits in the queue is not looked at.         *)
WriterStopsAtOnce == stop_event

WriterStops == stop_event /\ queue = <<>>

(* The condition of the loop. *)
Test ==
    /\ writer = "test"
    /\ writer' = IF WriterStops THEN "dead" ELSE "get"
    /\ UNCHANGED <<config, count, pc, queue, pending, closeVars, file, accepted>>

(* get, then get_nowait as long as there is something. *)
Get ==
    /\ writer \in {"get", "drain"} /\ queue # <<>>
    /\ pending' = Append(pending, Head(queue))
    /\ queue' = Tail(queue)
    /\ writer' = "drain"
    /\ UNCHANGED <<config, count, pc, closeVars, file, accepted>>

(* The flush interval has passed and nothing came. *)
GetTimeout ==
    /\ writer = "get" /\ queue = <<>>
    /\ writer' = "test"
    /\ UNCHANGED <<config, count, pc, queue, pending, closeVars, file, accepted>>

(* Mutant of Cleared: the batch is kept and written again.                  *)
NotCleared(batch) == batch

Cleared(batch) == <<>>

(* _write_batch; a record that cannot be encoded ends the thread. *)
WriteBatch ==
    /\ writer = "drain" /\ queue = <<>>
    /\ IF ToSet(pending) \cap BadRecords # {}
       THEN /\ writer' = "dead"
            /\ UNCHANGED <<pending, file>>
       ELSE /\ writer' = "test"
            /\ file' = IF stream = "open" THEN file \o pending ELSE file
            /\ pending' = Cleared(pending)
    /\ UNCHANGED <<config, count, pc, queue, closeVars, accepted>>

-----------------------------------------------------------------------------
(* close *)

(* Mutant of StopRequest: the writer thread is not told.                    *)
NoStopRequest == FALSE

StopRequest == async_mode

Close ==
    /\ closer = "none"
    /\ \A t \in Quiet : pc[t] = "idle"
    /\ stop_event' = StopRequest
    /\ due' = accepted
    /\ closer' = "joining"
    /\ UNCHANGED <<config, count, pc, writerVars, stream, file, accepted>>

(* Mutant of Joined: close does not wait for the writer thread.             *)
NotJoined == TRUE

Joined == writer = "dead"

(* The writer has ended; the sink closes its own file, and forgets it. *)
CloseStream ==
    /\ closer = "joining" /\ Joined
    /\ stream' = IF owns_stream THEN "closed" ELSE stream
    /\ closer' = "forgetting"
    /\ UNCHANGED <<config, count, pc, writerVars, stop_event, due, file, accepted>>

ForgetStream ==
    /\ closer = "forgetting"
    /\ stream' = "none"
    /\ closer' = "done"
    /\ UNCHANGED <<config, count, pc, writerVars, stop_event, due, file, accepted>>

-----------------------------------------------------------------------------
Idle == closer = "done" /\ (\A t \in Threads : pc[t] = "idle") /\ UNCHANGED vars

Next ==
    \/ \E t \in Threads : Make(t) \/ Put(t) \/ WriteRecord(t)
    \/ Test \/ Get \/ GetTimeout \/ WriteBatch
    \/ Close \/ CloseStream \/ ForgetStream
    \/ Idle

Spec == Init /\ [][Next]_vars

(* Threads run; nobody has to record or to close.                           *)
FairSpec ==
    /\ Spec /\ WF_vars(Test \/ Get \/ GetTimeout \/ WriteBatch)
    /\ WF_vars(CloseStream) /\ WF_vars(ForgetStream)

-----------------------------------------------------------------------------
Records == Threads \X (1 .. MaxRecords)

(* Type invariant; the stream goes only after the writer.                   *)
TypeOK ==
    /\ async_mode \in BOOLEAN /\ owns_stream \in BOOLEAN /\ stop_event \in BOOLEAN
    /\ count \in [Threads -> 0 .. MaxRecords]
    /\ pc \in [Threads -> {"idle", "made"}]
    /\ queue \in Seq(Records) /\ pending \in Seq(Records) /\ file \in Seq(Records)
    /\ writer \in {"test", "get", "drain", "dead"}
    /\ stream \in {"open", "closed", "none"}
    /\ closer \in {"none", "joining", "forgetting", "done"}
    /\ stream # "open" => writer = "dead"
    /\ accepted \subseteq Records /\ due \subseteq Records

(* The sink implements the log: it is open until close is called and closed *)
(* when close returns.                                                      *)
Log == INSTANCE AuditLog WITH
    given <- count, log <- file,
    state <- CASE closer = "none" -> "open" [] closer = "done" -> "closed"
               [] OTHER -> "closing"

ImplementsLog == Log!Spec

(* close returns, even if the writer thread has died of a record.           *)
CloseReturns == closer = "joining" ~> closer = "done"

=============================================================================
