---------------------------- MODULE EventStreams ----------------------------
(***************************************************************************)
(* The events of runs: CommandExecutor.publish_event and the JobStore's     *)
(* counter, RunEventBus (history, subscribers), the streams of RPC and of   *)
(* SessionManager.stream_events, and the watchers of CallbackRegistry.      *)
(*                                                                         *)
(* The loop publishes at once.  Another thread draws the number of its      *)
(* event and then leaves the delivery to the loop (call_soon_threadsafe),   *)
(* whose callbacks run in the order of `ready`.  Runs are reduced to what   *)
(* makes events: they begin, end, and leave the store.                      *)
(***************************************************************************)
EXTENDS Integers, Sequences, FiniteSets, Functions

CONSTANTS
    Runs,
    Threads,        \* threads that publish events of a run off the loop:
    writes_to,      \* its handler's and those the handler starts
    HandlerThreads, \* those that execute the synchronous handler of the run
    TimedRuns,      \* runs that may end while their handler thread goes on
    CancelRuns,     \* runs that are cancelled, on the loop
    ImpatientRuns,  \* runs popped by a wait_result_sync whose timeout is over
    Streams,        \* readers of one stream of events each
    Watchers,       \* registered callbacks: a task each, reading a stream
    follows, since_seq, maxsize,    \* of each stream and watcher
    MaxEvents,      \* event_history_max; negative stands for None
    HasTTL,         \* whether event_history_ttl is set
    MaxNotes        \* bound: events of a run besides its first and its last

Clients == Streams \cup Watchers

ASSUME StreamsAssumption ==
    /\ IsFiniteSet(Clients) /\ Streams \cap Watchers = {}
    /\ writes_to \in [Threads -> Runs] /\ HandlerThreads \subseteq Threads
    /\ TimedRuns \cup CancelRuns \cup ImpatientRuns \subseteq Runs
    /\ follows \in [Clients -> Runs] /\ since_seq \in [Clients -> Int]
    /\ maxsize \in [Clients -> Nat]
    /\ \A w \in Watchers : since_seq[w] = 0 /\ maxsize[w] = 0
    /\ MaxEvents \in Int /\ HasTTL \in BOOLEAN /\ MaxNotes \in Nat

VARIABLES
    state, stored,          \* runs: their progress, and those in the store
    seq,                    \* JobStore._event_seq
    notes,                  \* events of handlers, threads and cancellations
    tpc, drawn,             \* threads: progress, and the number in hand
    ready,                  \* callbacks waiting for the loop
    history, subscribers,   \* RunEventBus
    queue, phase,           \* clients: their asyncio.Queue, their progress
    registered,             \* CallbackRegistry._subs
    seen,                   \* what each client has taken out of its queue
    published, origin       \* history variables: every event published; how
                            \* many were out of the history at subscription

runVars == <<state, stored, seq, notes>>
threadVars == <<tpc, drawn>>
busVars == <<history, subscribers, published>>
clientVars == <<phase, registered, seen, origin>>
vars == <<runVars, threadVars, ready, busVars, queue, clientVars>>

Event(n, end) == [seq |-> n, end |-> end]

-----------------------------------------------------------------------------
(* RunEventBus *)

(* Mutants of Pruned: the oldest events are kept; one event too many goes.  *)
Oldest(h) == IF MaxEvents > 0 /\ Len(h) > MaxEvents THEN SubSeq(h, 1, MaxEvents) ELSE h
Shorter(h) == IF MaxEvents > 0 /\ Len(h) >= MaxEvents
              THEN SubSeq(h, Len(h) - MaxEvents + 2, Len(h)) ELSE h

(* del history[:-max_events], which deletes nothing when max_events is 0. *)
Pruned(h) == IF MaxEvents > 0 /\ Len(h) > MaxEvents
             THEN SubSeq(h, Len(h) - MaxEvents + 1, Len(h)) ELSE h

(* Mutants of Room: subscribers with an unbounded queue are passed over; the *)
(* bound of a queue is ignored.                                             *)
NoRoom(c) == Len(queue[c]) < maxsize[c]
AlwaysRoom(c) == TRUE

Room(c) == maxsize[c] = 0 \/ Len(queue[c]) < maxsize[c]

(* publish: the event joins the history, which is pruned by age and length, *)
(* and every subscriber's queue that is not full.  Then the runs of S are   *)
(* popped: counter, history and subscribers go, queues keep what they have. *)
PublishAndPop(r, e, counter, S) ==
    /\ published' = [published EXCEPT ![r] = Append(@, e)]
    /\ queue' = [c \in Clients |-> IF c \in subscribers[r] /\ Room(c)
                                   THEN Append(queue[c], e) ELSE queue[c]]
    /\ \E old \in IF HasTTL THEN 0 .. Len(history[r]) ELSE {0} :
          LET kept == SubSeq(history[r], old + 1, Len(history[r])) IN
          history' = [x \in Runs |-> IF x \in S THEN <<>>
                                     ELSE IF x = r THEN Pruned(Append(kept, e))
                                     ELSE history[x]]
    /\ subscribers' = [x \in Runs |-> IF x \in S THEN {} ELSE subscribers[x]]
    /\ seq' = [x \in Runs |-> IF x \in S THEN 0 ELSE counter[x]]
    /\ stored' = stored \ S

(* Mutant of NextSeq: the counter is read and not raised.                   *)
SameSeq(r) == seq[r]

(* next_event_seq; a popped run starts again at 1. *)
NextSeq(r) == seq[r] + 1

(* publish_event on the loop: the number is drawn and used at once. *)
EmitAndPop(r, end, S) ==
    LET n == NextSeq(r) IN
    PublishAndPop(r, Event(n, end), [seq EXCEPT ![r] = n], S)

(* The events of h after number n, in their order: the k-th of them is the  *)
(* one that is after number n with k - 1 others before it.                  *)
Later(h, n) == {i \in DOMAIN h : h[i].seq > n}
Place(h, n, k) == {i \in Later(h, n) : Cardinality({j \in Later(h, n) : j <= i}) = k}
After(h, n) ==
    [k \in 1 .. Cardinality(Later(h, n)) |-> h[CHOOSE i \in Place(h, n, k) : TRUE]]

(* Mutant of Replay: an event the client has seen is replayed.              *)
ReplayFrom(c) ==
    IF since_seq[c] < 0 THEN <<>> ELSE After(history[follows[c]], since_seq[c] - 1)

Replay(c) ==
    IF since_seq[c] < 0 THEN <<>> ELSE After(history[follows[c]], since_seq[c])

(* Mutant of Unsubscribed: the queue stays with the bus.                    *)
StillSubscribed(c) == subscribers

Unsubscribed(c) == [subscribers EXCEPT ![follows[c]] = @ \ {c}]

-----------------------------------------------------------------------------
Init ==
    /\ state = [r \in Runs |-> "pending"] /\ stored = Runs
    /\ seq = [r \in Runs |-> 0] /\ notes = [r \in Runs |-> 0]
    /\ tpc = [t \in Threads |-> "unborn"] /\ drawn = [t \in Threads |-> 0]
    /\ ready = <<>>
    /\ history = [r \in Runs |-> <<>>] /\ subscribers = [r \in Runs |-> {}]
    /\ published = [r \in Runs |-> <<>>]
    /\ queue = [c \in Clients |-> <<>>] /\ phase = [c \in Clients |-> "new"]
    /\ registered = {}
    /\ seen = [c \in Clients |-> <<>>] /\ origin = [c \in Clients |-> 0]

-----------------------------------------------------------------------------
(* Runs, on the loop *)

(* The worker publishes "start" and calls the handler. *)
Begin(r) ==
    /\ state[r] = "pending"
    /\ state' = [state EXCEPT ![r] = "running"]
    /\ EmitAndPop(r, FALSE, {})
    /\ tpc' = [t \in Threads |-> IF writes_to[t] = r THEN "idle" ELSE tpc[t]]
    /\ UNCHANGED <<notes, drawn, ready, clientVars>>

(* A coroutine handler emits an event, or cancel emits "cancel_requested". *)
Note(r) ==
    /\ state[r] = "running"
    /\ \/ \A t \in HandlerThreads : writes_to[t] # r
       \/ r \in CancelRuns
    /\ notes[r] < MaxNotes
    /\ notes' = [notes EXCEPT ![r] = @ + 1]
    /\ EmitAndPop(r, FALSE, {})
    /\ UNCHANGED <<state, threadVars, ready, clientVars>>

(* The run ends: its last event, then cleanup of ended runs in the same     *)
(* stretch.  A handler in a thread has returned, unless wait_for gave up.   *)
End(r) ==
    /\ state[r] = "running"
    /\ \/ r \in TimedRuns
       \/ \A t \in HandlerThreads : writes_to[t] = r => tpc[t] = "joined"
    /\ state' = [state EXCEPT ![r] = "ended"]
    /\ \E S \in SUBSET {x \in stored : x = r \/ state[x] = "ended"} :
          EmitAndPop(r, TRUE, S)
    /\ UNCHANGED <<notes, threadVars, ready, clientVars>>

(* A pending run is cancelled on the loop. *)
CancelPending(r) ==
    /\ state[r] = "pending" /\ r \in CancelRuns
    /\ state' = [state EXCEPT ![r] = "ended"]
    /\ EmitAndPop(r, TRUE, {})
    /\ UNCHANGED <<notes, threadVars, ready, clientVars>>

(* pop_on_wait: pop_run once a wait is over, though the run may go on. *)
PopRun(r) ==
    /\ r \in stored
    /\ state[r] = "ended" \/ r \in ImpatientRuns
    /\ stored' = stored \ {r}
    /\ seq' = [seq EXCEPT ![r] = 0]
    /\ history' = [history EXCEPT ![r] = <<>>]
    /\ subscribers' = [subscribers EXCEPT ![r] = {}]
    /\ UNCHANGED <<state, notes, threadVars, ready, published, queue, clientVars>>

-----------------------------------------------------------------------------
(* Threads *)

(* publish_event off the loop: first next_event_seq, then the hand-over. *)
Draw(t) ==
    LET r == writes_to[t] IN
    /\ tpc[t] = "idle"
    /\ notes[r] < MaxNotes
    /\ notes' = [notes EXCEPT ![r] = @ + 1]
    /\ seq' = [seq EXCEPT ![r] = NextSeq(r)]
    /\ drawn' = [drawn EXCEPT ![t] = NextSeq(r)]
    /\ tpc' = [tpc EXCEPT ![t] = "drawn"]
    /\ UNCHANGED <<state, stored, ready, busVars, queue, clientVars>>

Post(t) ==
    /\ tpc[t] = "drawn"
    /\ ready' = Append(ready, [do |-> "publish", for |-> writes_to[t],
                               event |-> Event(drawn[t], FALSE)])
    /\ tpc' = [tpc EXCEPT ![t] = "idle"]
    /\ UNCHANGED <<runVars, drawn, busVars, queue, clientVars>>

(* The handler returns; run_in_executor tells the loop the same way. *)
Return(t) ==
    /\ t \in HandlerThreads
    /\ tpc[t] = "idle"
    /\ ready' = Append(ready, [do |-> "join", for |-> t])
    /\ tpc' = [tpc EXCEPT ![t] = "returned"]
    /\ UNCHANGED <<runVars, drawn, busVars, queue, clientVars>>

(* The loop runs its next callback: an event is published, a handler's      *)
(* return is noticed, or a watcher is cancelled and its queue unsubscribed. *)
RunCallback ==
    /\ ready # <<>>
    /\ ready' = Tail(ready)
    /\ LET cb == Head(ready) IN
       \/ /\ cb.do = "publish"
          /\ PublishAndPop(cb.for, cb.event, seq, {})
          /\ UNCHANGED <<state, notes, threadVars, clientVars>>
       \/ /\ cb.do = "join"
          /\ tpc' = [tpc EXCEPT ![cb.for] = "joined"]
          /\ UNCHANGED <<runVars, drawn, busVars, queue, clientVars>>
       \/ /\ cb.do = "cancel"
          /\ phase' = [phase EXCEPT ![cb.for] = IF @ = "closed" THEN @ ELSE "cancelled"]
          /\ subscribers' = Unsubscribed(cb.for)
          /\ UNCHANGED <<runVars, threadVars, history, published, queue,
                         registered, seen, origin>>

-----------------------------------------------------------------------------
(* Streams and watchers *)

(* register keeps an entry for a watcher; a stream has none. *)
Registered(c) == registered \cup ({c} \cap Watchers)

(* subscribe, on the loop: a queue, filled from the history.  If it is too  *)
(* small for that, QueueFull reaches the caller and the queue stays behind. *)
(* Callers have the id of a run in the store, and resume after an event they *)
(* have received on an earlier stream that was not the terminal one.        *)
Subscribe(c) ==
    LET r == follows[c]
        fits == maxsize[c] = 0 \/ Len(Replay(c)) <= maxsize[c] IN
    /\ phase[c] = "new" /\ r \in stored
    /\ since_seq[c] > 0 =>
          \E e \in Range(published[r]) : e.seq = since_seq[c] /\ ~e.end
    /\ phase' = [phase EXCEPT ![c] = IF fits THEN "open" ELSE "failed"]
    /\ queue' = [queue EXCEPT ![c] =
                    IF fits THEN Replay(c) ELSE SubSeq(Replay(c), 1, maxsize[c])]
    /\ subscribers' = [subscribers EXCEPT ![r] = @ \cup {c}]
    /\ registered' = Registered(c)
    /\ origin' = [origin EXCEPT ![c] = Len(published[r]) - Len(history[r])]
    /\ UNCHANGED <<runVars, threadVars, ready, history, published, seen>>

Taken(c) ==
    /\ phase[c] = "open" /\ queue[c] # <<>>
    /\ queue' = [queue EXCEPT ![c] = Tail(@)]
    /\ seen' = [seen EXCEPT ![c] = Append(@, Head(queue[c]))]

(* A stream yields an event; after a terminal one it unsubscribes. *)
Receive(c) ==
    /\ c \in Streams /\ Taken(c)
    /\ LET end == Head(queue[c]).end IN
       /\ phase' = [phase EXCEPT ![c] = IF end THEN "closed" ELSE "open"]
       /\ subscribers' = IF end THEN Unsubscribed(c) ELSE subscribers
    /\ UNCHANGED <<runVars, threadVars, ready, history, published, registered,
                   origin>>

(* The reader of a stream goes away. *)
Leave(c) ==
    /\ c \in Streams /\ phase[c] = "open"
    /\ phase' = [phase EXCEPT ![c] = "closed"]
    /\ subscribers' = Unsubscribed(c)
    /\ UNCHANGED <<runVars, threadVars, ready, history, published, queue,
                   registered, seen, origin>>

(* A watcher takes an event and dispatches on_event. *)
Watch(c) ==
    /\ c \in Watchers /\ Taken(c)
    /\ phase' = [phase EXCEPT ![c] = "on_event"]
    /\ UNCHANGED <<runVars, threadVars, ready, busVars, registered, origin>>

(* on_event is over; a terminal event is given to on_done as well. *)
Watched(c) ==
    /\ phase[c] = "on_event"
    /\ phase' = [phase EXCEPT ![c] =
                    IF seen[c][Len(seen[c])].end THEN "on_done" ELSE "open"]
    /\ UNCHANGED <<runVars, threadVars, ready, busVars, queue, registered, seen,
                   origin>>

(* on_done is over, or CancelledError arrives: the finally clause. *)
Unwatch(c) ==
    /\ phase[c] \in {"on_done", "cancelled"}
    /\ phase' = [phase EXCEPT ![c] = "closed"]
    /\ subscribers' = Unsubscribed(c)
    /\ registered' = registered \ {c}
    /\ UNCHANGED <<runVars, threadVars, ready, history, published, queue, seen,
                   origin>>

(* unregister in any thread; close does the same to every subscription. *)
Unregister(c) ==
    /\ c \in registered
    /\ registered' = registered \ {c}
    /\ ready' = Append(ready, [do |-> "cancel", for |-> c])
    /\ UNCHANGED <<runVars, threadVars, busVars, queue, phase, seen, origin>>

-----------------------------------------------------------------------------
RunStep(r) == Begin(r) \/ Note(r) \/ End(r) \/ CancelPending(r) \/ PopRun(r)
ThreadStep(t) == Draw(t) \/ Post(t) \/ Return(t)
ClientStep(c) ==
    \/ Subscribe(c) \/ Receive(c) \/ Leave(c)
    \/ Watch(c) \/ Watched(c) \/ Unwatch(c) \/ Unregister(c)

(* Every run has ended and nobody reads any more. *)
Finished ==
    /\ \A r \in Runs : state[r] = "ended"
    /\ ready = <<>>
    /\ \A c \in Clients : phase[c] \in {"new", "closed", "failed"}
    /\ UNCHANGED vars

Next ==
    \/ \E r \in Runs : RunStep(r)
    \/ \E t \in Threads : ThreadStep(t)
    \/ RunCallback
    \/ \E c \in Clients : ClientStep(c)
    \/ Finished

Spec == Init /\ [][Next]_vars

(* Runs begin and end (module CommandExecutor), threads and handlers go on, *)
(* the loop runs its callbacks and tasks, callbacks return.                 *)
FairSpec ==
    /\ Spec
    /\ \A r \in Runs : WF_vars(Begin(r) \/ End(r))
    /\ \A t \in Threads : WF_vars(Post(t) \/ Return(t))
    /\ WF_vars(RunCallback)
    /\ \A c \in Streams : WF_vars(Receive(c))
    /\ \A c \in Watchers : WF_vars(Watch(c) \/ Watched(c) \/ Unwatch(c))

-----------------------------------------------------------------------------
Events == [seq : Nat, end : BOOLEAN]
Callbacks == [do : {"publish"}, for : Runs, event : Events]
             \cup [do : {"join"}, for : HandlerThreads]
             \cup [do : {"cancel"}, for : Watchers]
Phases == {"new", "open", "failed", "on_event", "on_done", "cancelled", "closed"}

(* Type invariant; a queue keeps to its size.                               *)
TypeOK ==
    /\ state \in [Runs -> {"pending", "running", "ended"}]
    /\ stored \subseteq Runs
    /\ seq \in [Runs -> Nat] /\ notes \in [Runs -> Nat]
    /\ tpc \in [Threads -> {"unborn", "idle", "drawn", "returned", "joined"}]
    /\ drawn \in [Threads -> Nat]
    /\ ready \in Seq(Callbacks)
    /\ history \in [Runs -> Seq(Events)] /\ published \in [Runs -> Seq(Events)]
    /\ subscribers \in [Runs -> SUBSET Clients]
    /\ queue \in [Clients -> Seq(Events)]
    /\ \A c \in Clients : maxsize[c] > 0 => Len(queue[c]) <= maxsize[c]
    /\ seen \in [Clients -> Seq(Events)]
    /\ phase \in [Clients -> Phases]
    /\ registered \subseteq Watchers
    /\ origin \in [Clients -> Nat]

(* What a client has taken and what waits in its queue. *)
Received(c) == seen[c] \o queue[c]

(* Replay and live delivery fit together: a subscriber whose queue has no   *)
(* bound has got, or will get, every event after since_seq that was in the  *)
(* history when it subscribed or was published later, each of them once.    *)
StreamComplete ==
    \A c \in Clients :
        LET all == published[follows[c]] IN
        c \in subscribers[follows[c]] /\ maxsize[c] = 0 /\ since_seq[c] >= 0 =>
            Received(c) = After(SubSeq(all, origin[c] + 1, Len(all)), since_seq[c])

(* seq is there for "stable replay order": a client receives the events of  *)
(* a run in the order of their numbers, and none after the terminal one.    *)
InOrder ==
    \A c \in Clients : \A i \in 1 .. Len(Received(c)) - 1 :
        /\ Received(c)[i].seq < Received(c)[i + 1].seq
        /\ ~Received(c)[i].end

(* The history of a run in the store is the newest part of what was         *)
(* published, as long as event_history_max allows.                          *)
HistoryIsTail ==
    \A r \in stored :
        LET p == published[r]
            h == history[r] IN
        /\ Len(h) <= Len(p) /\ h = SubSeq(p, Len(p) - Len(h) + 1, Len(p))
        /\ MaxEvents >= 0 => Len(h) <= MaxEvents
        /\ ~HasTTL => \/ Len(h) = Len(p)
                      \/ MaxEvents >= 0 /\ Len(h) = MaxEvents

(* A run that has left the store, not before its end, leaves nothing behind *)
(* in the bus, a subscriber is a client that still reads (or failed to),    *)
(* and a watcher that is no longer registered has ended or is about to be   *)
(* cancelled.                                                               *)
NothingLeft ==
    /\ \A r \in Runs \ (stored \cup ImpatientRuns) :
          seq[r] = 0 /\ history[r] = <<>> /\ subscribers[r] = {}
    /\ \A r \in Runs : \A c \in subscribers[r] : phase[c] \notin {"new", "closed"}
    /\ \A w \in registered : phase[w] \notin {"new", "closed", "cancelled"}
    /\ \A w \in Watchers \ registered :
          \/ phase[w] \in {"new", "closed", "cancelled"}
          \/ \E i \in 1 .. Len(ready) : ready[i].do = "cancel" /\ ready[i].for = w

(* Every stream without a bound that is opened on a run in the store ends,  *)
(* and every watcher calls on_done or is cancelled.                         *)
EveryStreamEnds ==
    \A c \in Clients :
        maxsize[c] = 0 => (phase[c] = "open" ~> phase[c] = "closed")

=============================================================================
