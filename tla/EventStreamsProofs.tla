------------------------ MODULE EventStreamsProofs -------------------------
(***************************************************************************)
(* Proofs about EventStreams.                                               *)
(*                                                                         *)
(* StoreInv says what a run that is out of the store may have in the bus,    *)
(* SubscriberInv which clients subscribe.  FlightInv follows the threads: what *)
(* one of them has handed over is delivered before the run that waits for    *)
(* the thread can end.  NumberInv orders the numbers of a run: those that    *)
(* were published, below those that wait for the loop, below the one a       *)
(* thread has just drawn.  ClientInv says what a client has received.        *)
(***************************************************************************)
EXTENDS EventStreams, SequenceFacts, TLAPS

(* The run waits for its threads: each of them executes the handler, or     *)
(* returns before it does, and no timeout ends the run before.              *)
ThreadsJoined ==
    \A t \in Threads : t \in HandlerThreads /\ writes_to[t] \notin TimedRuns

(* One thread at a time publishes the events of a run: the handler's, or    *)
(* the loop, which publishes a cancellation while the handler executes.     *)
OnePublisher ==
    /\ ThreadsJoined
    /\ \A t \in Threads : writes_to[t] \notin CancelRuns
    /\ \A t, u \in Threads : writes_to[t] = writes_to[u] => t = u

-----------------------------------------------------------------------------
(* Nobody subscribes to a run that has left the store; who subscribes       *)
(* follows the run and goes on reading, or failed to.                       *)
SubscriberInv ==
    /\ \A r \in Runs \ stored : subscribers[r] = {}
    /\ \A r \in Runs : \A c \in subscribers[r] :
          follows[c] = r /\ phase[c] \notin {"new", "closed"}

(* A run that has left the store is ended or was popped by an impatient     *)
(* waiter; if it is ended, its counter and its history stay away.           *)
StoreInv ==
    \A r \in Runs \ (stored \cup ImpatientRuns) :
        state[r] = "ended" /\ seq[r] = 0 /\ history[r] = <<>>

(* Whom a watcher's cancellation is for.                                    *)
Cancels(i, w) == ready[i].do = "cancel" /\ ready[i].for = w

(* A watcher that is registered goes on; one that is not any more has       *)
(* ended, or its cancellation is among the loop's callbacks.                *)
WatchInv ==
    /\ \A w \in registered : phase[w] \notin {"new", "closed", "cancelled"}
    /\ \A w \in Watchers, i \in DOMAIN ready :
          Cancels(i, w) => w \notin registered /\ phase[w] # "new"
    /\ \A w \in Watchers \ registered :
          \/ phase[w] \in {"new", "closed", "cancelled"}
          \/ \E i \in DOMAIN ready : Cancels(i, w)

-----------------------------------------------------------------------------
Publishes(i, r) == ready[i].do = "publish" /\ ready[i].for = r
Joins(i, t) == ready[i].do = "join" /\ ready[i].for = t

(* The event at i is there before the loop notices that thread t returned.  *)
Awaited(i, t) ==
    \/ tpc[t] \in {"idle", "drawn"}
    \/ tpc[t] = "returned" /\ \E j \in DOMAIN ready : i < j /\ Joins(j, t)

FlightInv ==
    /\ \A t \in Threads : state[writes_to[t]] = "pending" => tpc[t] = "unborn"
    /\ \A t \in Threads : state[writes_to[t]] = "ended" => tpc[t] \in {"unborn", "joined"}
    /\ \A i \in DOMAIN ready, r \in Runs :
          Publishes(i, r) => \E t \in Threads : writes_to[t] = r /\ Awaited(i, t)
    /\ \A i \in DOMAIN ready, t \in Threads : Joins(i, t) => tpc[t] = "returned"
    /\ \A i, j \in DOMAIN ready, t \in Threads : Joins(i, t) /\ Joins(j, t) => i = j

-----------------------------------------------------------------------------
(* Numbers ascend, and no event but the last one is terminal.               *)
Ascending(s) ==
    \A i, j \in DOMAIN s : i < j => s[i].seq < s[j].seq /\ ~s[i].end

(* Number n is later than all that was published of run r.                  *)
Newer(n, r) ==
    /\ n \in 1 .. seq[r]
    /\ \A k \in DOMAIN published[r] : published[r][k].seq < n

RunNumbers(r) ==
    /\ Ascending(published[r])
    /\ \A k \in DOMAIN published[r] :
          /\ published[r][k].seq \in 1 .. seq[r]
          /\ published[r][k].end => state[r] = "ended"
    /\ \A i \in DOMAIN ready : Publishes(i, r) =>
          Newer(ready[i].event.seq, r) /\ ~ready[i].event.end
    /\ \A i, j \in DOMAIN ready : i < j /\ Publishes(i, r) /\ Publishes(j, r) =>
          ready[i].event.seq < ready[j].event.seq
    /\ \A t \in Threads : writes_to[t] = r /\ tpc[t] = "drawn" =>
          /\ Newer(drawn[t], r)
          /\ \A i \in DOMAIN ready : Publishes(i, r) => ready[i].event.seq < drawn[t]

NumberInv == \A r \in stored : RunNumbers(r)

(* What a client has received ascends; as long as it subscribes, it is part  *)
(* of what was published and, without a bound, all that it is to get.       *)
Complete(c) ==
    LET all == published[follows[c]] IN
    maxsize[c] = 0 /\ since_seq[c] >= 0 =>
        Received(c) = After(SubSeq(all, origin[c] + 1, Len(all)), since_seq[c])

ClientFacts(c) ==
    /\ Ascending(Received(c))
    /\ phase[c] = "new" => seen[c] = <<>> /\ queue[c] = <<>>
    /\ c \in subscribers[follows[c]] =>
          /\ Range(Received(c)) \subseteq Range(published[follows[c]])
          /\ origin[c] <= Len(published[follows[c]])
          /\ since_seq[c] > 0 =>
                \E e \in Range(published[follows[c]]) : e.seq = since_seq[c]
          /\ Complete(c)

ClientInv == \A c \in Clients : ClientFacts(c)

TailOf(h, p) == Len(h) <= Len(p) /\ h = SubSeq(p, Len(p) - Len(h) + 1, Len(p))

(* The history of a run in the store is the newest part of what was          *)
(* published; if nothing is dropped for its age, as much of it as fits.     *)
TailInv == \A r \in stored : TailOf(history[r], published[r])

LimitInv ==
    \A r \in stored :
        /\ MaxEvents > 0 => Len(history[r]) <= MaxEvents
        /\ ~HasTTL => \/ Len(history[r]) = Len(published[r])
                      \/ MaxEvents > 0 /\ Len(history[r]) = MaxEvents

-----------------------------------------------------------------------------
(* What After returns: the events of a sequence after a number *)

LEMMA LaterFinite ==
    ASSUME NEW h \in Seq(Events), NEW n \in Int
    PROVE  /\ Later(h, n) \subseteq 1 .. Len(h)
           /\ IsFiniteSet(Later(h, n)) /\ Cardinality(Later(h, n)) \in Nat
<1>1. Later(h, n) \subseteq 1 .. Len(h) /\ Len(h) \in Nat
  BY DEF Later
<1>2. IsFiniteSet(1 .. Len(h))
  BY <1>1, FS_Interval
<1>3. IsFiniteSet(Later(h, n))
  BY <1>1, <1>2, FS_Subset
<1>4. QED
  BY <1>1, <1>3, FS_CardinalityType

(* An event that joins the sequence comes last, if it is after the number.  *)
LEMMA PlacesAppend ==
    ASSUME NEW h \in Seq(Events), NEW e \in Events, NEW n \in Int
    PROVE  LET g == Append(h, e)
               m == Cardinality(Later(h, n)) IN
           /\ e.seq <= n => /\ Later(g, n) = Later(h, n)
                            /\ \A k \in Nat : Place(g, n, k) = Place(h, n, k)
           /\ e.seq > n  => /\ Cardinality(Later(g, n)) = m + 1
                            /\ \A k \in 1 .. m : Place(g, n, k) = Place(h, n, k)
                            /\ Place(g, n, m + 1) = {Len(h) + 1}
<1> DEFINE g == Append(h, e)
           m == Cardinality(Later(h, n))
           last == Len(h) + 1
<1>1. /\ Len(h) \in Nat /\ DOMAIN g = 1 .. last /\ DOMAIN h = 1 .. Len(h)
      /\ g[last] = e /\ \A i \in 1 .. Len(h) : g[i] = h[i]
  OBVIOUS
<1>2. /\ Later(h, n) \subseteq 1 .. Len(h) /\ IsFiniteSet(Later(h, n)) /\ m \in Nat
  BY LaterFinite
<1>3. ASSUME e.seq <= n
      PROVE  Later(g, n) = Later(h, n)
  <2>1. ~(g[last].seq > n)
    BY <1>1, <1>3 DEF Events
  <2>2. QED
    BY <1>1, <2>1 DEF Later
<1>4. ASSUME e.seq <= n, NEW k \in Nat
      PROVE  Place(g, n, k) = Place(h, n, k)
  BY <1>3, <1>4 DEF Place
<1>5. ASSUME e.seq > n
      PROVE  Later(g, n) = Later(h, n) \cup {last}
  BY <1>1, <1>5 DEF Later
<1>6. last \notin Later(h, n)
  BY <1>1, <1>2
<1>7. ASSUME e.seq > n
      PROVE  Cardinality(Later(g, n)) = m + 1
  <2>1. Cardinality(Later(h, n) \cup {last}) = m + 1
    BY <1>2, <1>6, FS_AddElement
  <2>2. QED
    BY <1>5, <1>7, <2>1
<1>8. ASSUME e.seq > n, NEW i \in Later(h, n)
      PROVE  {j \in Later(g, n) : j <= i} = {j \in Later(h, n) : j <= i}
  <2>1. ~(last <= i)
    BY <1>1, <1>2
  <2>2. QED
    BY <1>5, <1>8, <2>1
<1>9. ASSUME e.seq > n
      PROVE  {j \in Later(g, n) : j <= last} = Later(g, n)
  <2>1. \A j \in Later(h, n) \cup {last} : j <= last
    BY <1>1, <1>2
  <2>2. QED
    BY <1>5, <1>9, <2>1
<1>10. ASSUME NEW i \in Later(h, n)
       PROVE  Cardinality({j \in Later(h, n) : j <= i}) <= m
  <2> DEFINE T == {j \in Later(h, n) : j <= i}
  <2>1. T \in SUBSET Later(h, n)
    OBVIOUS
  <2>2. IsFiniteSet(Later(h, n))
    BY <1>2
  <2> HIDE DEF T
  <2>3. Cardinality(T) <= Cardinality(Later(h, n))
    BY <2>1, <2>2, FS_Subset
  <2>4. QED
    BY <2>3 DEF T
<1>11. ASSUME e.seq > n, NEW k \in 1 .. m
       PROVE  Place(g, n, k) = Place(h, n, k)
  <2>1. Cardinality({j \in Later(g, n) : j <= last}) # k
    <3>1. Cardinality({j \in Later(g, n) : j <= last}) = m + 1
      BY <1>7, <1>9, <1>11
    <3> HIDE DEF last, m, g
    <3>2. QED
      BY <1>2, <3>1
  <2>2. ASSUME NEW i \in Later(h, n)
        PROVE  Cardinality({j \in Later(g, n) : j <= i})
                = Cardinality({j \in Later(h, n) : j <= i})
    <3>1. {j \in Later(g, n) : j <= i} = {j \in Later(h, n) : j <= i}
      BY <1>8, <1>11
    <3>2. QED
      BY <3>1
  <2> HIDE DEF last, m, g
  <2>3. QED
    BY <1>5, <1>11, <2>1, <2>2 DEF Place
<1>12. ASSUME e.seq > n
       PROVE  Place(g, n, m + 1) = {last}
  <2>1. \A i \in Later(h, n) : Cardinality({j \in Later(g, n) : j <= i}) # m + 1
    <3> SUFFICES ASSUME NEW i \in Later(h, n)
                 PROVE  Cardinality({j \in Later(g, n) : j <= i}) # m + 1
      OBVIOUS
    <3>1. Cardinality({j \in Later(g, n) : j <= i}) = Cardinality({j \in Later(h, n) : j <= i})
      BY <1>8, <1>12
    <3>2. Cardinality({j \in Later(h, n) : j <= i}) <= m
      BY <1>10
    <3>3. {j \in Later(h, n) : j <= i} \subseteq Later(h, n)
      OBVIOUS
    <3>4. Cardinality({j \in Later(h, n) : j <= i}) \in Nat
      BY <1>2, <3>3, FS_Subset, FS_CardinalityType
    <3> HIDE DEF m, g
    <3>5. QED
      BY <1>2, <3>1, <3>2, <3>4
  <2>2. Cardinality({j \in Later(g, n) : j <= last}) = m + 1
    BY <1>7, <1>9, <1>12
  <2> HIDE DEF last, m, g
  <2>3. QED
    BY <1>5, <1>12, <2>1, <2>2 DEF Place
<1>13. QED
  BY <1>3, <1>4, <1>7, <1>11, <1>12

LEMMA AfterAppend ==
    ASSUME NEW h \in Seq(Events), NEW e \in Events, NEW n \in Int,
           After(h, n) \in Seq(Events),
           \A k \in 1 .. Cardinality(Later(h, n)) : Place(h, n, k) # {}
    PROVE  LET g == Append(h, e) IN
           /\ After(g, n) = IF e.seq > n THEN Append(After(h, n), e) ELSE After(h, n)
           /\ \A k \in 1 .. Cardinality(Later(g, n)) : Place(g, n, k) # {}
<1> DEFINE g == Append(h, e)
           m == Cardinality(Later(h, n))
           last == Len(h) + 1
           old == [k \in 1 .. m |-> h[CHOOSE i \in Place(h, n, k) : TRUE]]
           new(k) == g[CHOOSE i \in Place(g, n, k) : TRUE]
<1>0. Len(h) \in Nat /\ g[last] = e /\ \A i \in 1 .. Len(h) : g[i] = h[i]
  OBVIOUS
<1>1. /\ Len(h) \in Nat /\ g[last] = e /\ \A i \in 1 .. Len(h) : g[i] = h[i]
      /\ m \in Nat
  BY <1>0, LaterFinite
<1>2. /\ e.seq <= n => /\ Later(g, n) = Later(h, n)
                       /\ \A k \in Nat : Place(g, n, k) = Place(h, n, k)
      /\ e.seq > n  => /\ Cardinality(Later(g, n)) = m + 1
                       /\ \A k \in 1 .. m : Place(g, n, k) = Place(h, n, k)
                       /\ Place(g, n, m + 1) = {last}
  BY PlacesAppend
<1>3. ASSUME NEW k \in 1 .. m, Place(g, n, k) = Place(h, n, k)
      PROVE  g[CHOOSE i \in Place(g, n, k) : TRUE] = h[CHOOSE i \in Place(h, n, k) : TRUE]
  <2>1. (CHOOSE i \in Place(h, n, k) : TRUE) \in Place(h, n, k)
    <3>1. Place(h, n, k) # {}
      OBVIOUS
    <3>2. QED
      BY <3>1
  <2>2. (CHOOSE i \in Place(h, n, k) : TRUE) \in 1 .. Len(h)
    BY <2>1, LaterFinite DEF Place
  <2>3. g[CHOOSE i \in Place(h, n, k) : TRUE] = h[CHOOSE i \in Place(h, n, k) : TRUE]
    BY <1>1, <2>2
  <2>4. QED
    BY <1>3, <2>3
<1>4. After(h, n) = old /\ old \in Seq(Events)
  BY DEF After
<1>5. e.seq \in Int
  BY DEF Events
<1>6. CASE e.seq <= n
  <2>1. Cardinality(Later(g, n)) = m /\ \A k \in 1 .. m : Place(g, n, k) = Place(h, n, k)
    BY <1>1, <1>2, <1>6
  <2>2. After(g, n) = [k \in 1 .. m |-> g[CHOOSE i \in Place(g, n, k) : TRUE]]
    BY <2>1 DEF After
  <2>3. \A k \in 1 .. m : g[CHOOSE i \in Place(g, n, k) : TRUE]
                            = h[CHOOSE i \in Place(h, n, k) : TRUE]
    BY <1>3, <2>1
  <2>4. After(g, n) = old
    BY <2>2, <2>3
  <2>5. ~(e.seq > n)
    BY <1>5, <1>6
  <2>6. QED
    BY <1>4, <2>1, <2>4, <2>5
<1>7. CASE e.seq > n
  <2>1. /\ Cardinality(Later(g, n)) = m + 1
        /\ \A k \in 1 .. m : Place(g, n, k) = Place(h, n, k)
        /\ Place(g, n, m + 1) = {last}
    BY <1>2, <1>7
  <2>2. After(g, n) = [k \in 1 .. m + 1 |-> g[CHOOSE i \in Place(g, n, k) : TRUE]]
    BY <2>1 DEF After
  <2>3. \A k \in 1 .. m : g[CHOOSE i \in Place(g, n, k) : TRUE]
                            = h[CHOOSE i \in Place(h, n, k) : TRUE]
    BY <1>3, <2>1
  <2>4. g[CHOOSE i \in Place(g, n, m + 1) : TRUE] = e
    <3>1. (CHOOSE i \in {last} : TRUE) = last
      OBVIOUS
    <3>2. QED
      BY <1>1, <2>1, <3>1
  <2>5. Len(old) = m /\ \A k \in 1 .. m : old[k] = h[CHOOSE i \in Place(h, n, k) : TRUE]
    BY <1>1, <1>4
  <2>6. Append(old, e) = [k \in 1 .. m + 1 |-> IF k = m + 1 THEN e ELSE old[k]]
    <3>1. old \in Seq(Events) /\ Len(old) = m /\ m \in Nat
      BY <1>1, <1>4, <2>5
    <3> HIDE DEF old, m
    <3> DEFINE t == Append(old, e)
    <3>2. /\ t \in Seq(Events) /\ Len(t) = m + 1
          /\ \A k \in 1 .. m + 1 : t[k] = IF k = m + 1 THEN e ELSE old[k]
      BY <3>1
    <3> HIDE DEF t
    <3>3. t = [k \in 1 .. Len(t) |-> t[k]]
      BY <3>2
    <3>4. t = [k \in 1 .. m + 1 |-> IF k = m + 1 THEN e ELSE old[k]]
      BY <3>2, <3>3
    <3>5. QED
      BY <3>4 DEF t
  <2>7. \A k \in 1 .. m + 1 : k = m + 1 \/ k \in 1 .. m
    BY <1>1
  <2>8. After(g, n) = Append(old, e)
    <3>1. After(g, n) = [k \in 1 .. m + 1 |-> new(k)] /\ new(m + 1) = e
      BY <2>2, <2>4
    <3>2. \A k \in 1 .. m : new(k) = old[k]
      BY <2>3, <2>5
    <3>0. m \in Nat
      BY <1>1
    <3> HIDE DEF old, m, g, new
    <3>3. \A k \in 1 .. m + 1 : new(k) = IF k = m + 1 THEN e ELSE old[k]
      <4> SUFFICES ASSUME NEW k \in 1 .. m + 1
                   PROVE  new(k) = IF k = m + 1 THEN e ELSE old[k]
        OBVIOUS
      <4>1. CASE k = m + 1
        BY <3>1, <4>1
      <4>2. CASE k # m + 1
        <5>1. k \in 1 .. m
          BY <3>0, <4>2
        <5>2. QED
          BY <3>2, <4>2, <5>1
      <4>3. QED
        BY <4>1, <4>2
    <3>4. QED
      BY <2>6, <3>1, <3>3
  <2>9. \A k \in 1 .. m + 1 : Place(g, n, k) # {}
    <3>0. \A k \in 1 .. m : Place(h, n, k) # {}
      OBVIOUS
    <3> HIDE DEF m, g, last
    <3>1. \A k \in 1 .. m : Place(g, n, k) # {}
      BY <2>1, <3>0
    <3>2. QED
      BY <2>1, <2>7, <3>1
  <2>10. QED
    BY <1>4, <1>7, <2>1, <2>8, <2>9
<1>8. QED
  BY <1>1, <1>5, <1>6, <1>7

LEMMA AscendingAppend ==
    ASSUME NEW s \in Seq(Events), NEW e \in Events, Ascending(s),
           \A i \in DOMAIN s : s[i].seq < e.seq /\ ~s[i].end
    PROVE  Ascending(Append(s, e))
<1> DEFINE t == Append(s, e)
<1>1. /\ Len(s) \in Nat /\ DOMAIN t = 1 .. Len(s) + 1 /\ DOMAIN s = 1 .. Len(s)
      /\ t[Len(s) + 1] = e /\ \A i \in 1 .. Len(s) : t[i] = s[i]
  OBVIOUS
<1> HIDE DEF t
<1>2. ASSUME NEW i \in DOMAIN t, NEW j \in DOMAIN t, i < j
      PROVE  t[i].seq < t[j].seq /\ ~t[i].end
  <2>1. i \in 1 .. Len(s)
    BY <1>1, <1>2
  <2>2. CASE j \in 1 .. Len(s)
    BY <1>1, <1>2, <2>1, <2>2 DEF Ascending
  <2>3. CASE j = Len(s) + 1
    BY <1>1, <2>1, <2>3
  <2>4. QED
    BY <1>1, <2>2, <2>3
<1>3. QED
  BY <1>2 DEF Ascending, t

(* What is said of After(g, n) below, for the beginnings g of a sequence.   *)
Selects(g, n) ==
    /\ After(g, n) \in Seq(Events)
    /\ \A k \in 1 .. Cardinality(Later(g, n)) : Place(g, n, k) # {}
    /\ Range(After(g, n)) \subseteq Range(g)
    /\ Ascending(g) => Ascending(After(g, n))

LEMMA RangeAppend ==
    ASSUME NEW R, NEW s \in Seq(R), NEW x \in R
    PROVE  Range(Append(s, x)) = Range(s) \cup {x}
<1>1. ToSet(Append(s, x)) = ToSet(s) \cup {x} /\ Append(s, x) \in Seq(R)
  BY AppendSet
<1>2. \A u \in Seq(R) : Range(u) = ToSet(u)
  BY DEF Range, ToSet
<1>3. QED
  BY <1>1, <1>2

LEMMA SelectsMore ==
    ASSUME NEW g \in Seq(Events), NEW e \in Events, NEW n \in Int, Selects(g, n)
    PROVE  Selects(Append(g, e), n)
<1> DEFINE a == After(g, n)
           b == After(Append(g, e), n)
<1>1. /\ a \in Seq(Events)
      /\ \A k \in 1 .. Cardinality(Later(g, n)) : Place(g, n, k) # {}
      /\ Range(a) \subseteq Range(g)
      /\ Ascending(g) => Ascending(a)
  BY DEF Selects
<1>2. /\ b = IF e.seq > n THEN Append(a, e) ELSE a
      /\ \A k \in 1 .. Cardinality(Later(Append(g, e), n)) : Place(Append(g, e), n, k) # {}
  BY <1>1, AfterAppend
<1> HIDE DEF a, b
<1>3. b \in Seq(Events)
  BY <1>1, <1>2
<1>4. Range(b) \subseteq Range(Append(g, e))
  <2>1. Range(Append(a, e)) = Range(a) \cup {e} /\ Range(Append(g, e)) = Range(g) \cup {e}
    BY <1>1, RangeAppend
  <2>2. QED
    BY <1>1, <1>2, <2>1
<1>5. ASSUME Ascending(Append(g, e))
      PROVE  Ascending(b)
  <2> DEFINE t == Append(g, e)
  <2>1. /\ Len(g) \in Nat /\ DOMAIN t = 1 .. Len(g) + 1 /\ DOMAIN g = 1 .. Len(g)
        /\ t[Len(g) + 1] = e /\ \A i \in 1 .. Len(g) : t[i] = g[i]
    OBVIOUS
  <2> HIDE DEF t
  <2>2. Ascending(t)
    BY <1>5 DEF t
  <2>3. Ascending(g)
    BY <2>1, <2>2 DEF Ascending
  <2>4. \A i \in DOMAIN g : g[i].seq < e.seq /\ ~g[i].end
    <3> SUFFICES ASSUME NEW i \in 1 .. Len(g)
                 PROVE  g[i].seq < e.seq /\ ~g[i].end
      BY <2>1
    <3>1. i \in DOMAIN t /\ Len(g) + 1 \in DOMAIN t /\ i < Len(g) + 1
      BY <2>1
    <3>2. t[i].seq < t[Len(g) + 1].seq /\ ~t[i].end
      BY <2>2, <3>1 DEF Ascending
    <3>3. QED
      BY <2>1, <3>2
  <2>5. Ascending(a)
    BY <1>1, <2>3
  <2>6. \A i \in DOMAIN a : a[i].seq < e.seq /\ ~a[i].end
    <3> SUFFICES ASSUME NEW i \in DOMAIN a
                 PROVE  a[i].seq < e.seq /\ ~a[i].end
      OBVIOUS
    <3>1. a[i] \in Range(g)
      BY <1>1 DEF Range
    <3>2. PICK k \in DOMAIN g : a[i] = g[k]
      BY <3>1 DEF Range
    <3>3. QED
      BY <2>4, <3>2
  <2>7. CASE e.seq > n
    BY <1>1, <1>2, <2>5, <2>6, <2>7, AscendingAppend
  <2>8. CASE ~(e.seq > n)
    BY <1>2, <2>5, <2>8
  <2>9. QED
    BY <2>7, <2>8
<1>6. QED
  BY <1>2, <1>3, <1>4, <1>5 DEF Selects, b

(* Every sequence is built by appending: the least beginning for which       *)
(* Selects failed would be the empty one, or longer by one than another.     *)
LEMMA AfterSelects ==
    ASSUME NEW h \in Seq(Events), NEW n \in Int
    PROVE  Selects(h, n)
<1> DEFINE first(m) == SubSeq(h, 1, m)
           Bad == {m \in 0 .. Len(h) : ~Selects(first(m), n)}
<1>1. Len(h) \in Nat
  OBVIOUS
<1>2. first(0) = <<>> /\ first(Len(h)) = h
  OBVIOUS
<1>3. Selects(<<>>, n)
  <2>1. Later(<<>>, n) = {}
    BY DEF Later
  <2>2. Cardinality(Later(<<>>, n)) = 0
    BY <2>1, FS_EmptySet
  <2>3. 1 .. 0 = {}
    OBVIOUS
  <2>4. After(<<>>, n) = <<>>
    <3>1. After(<<>>, n) = [k \in 1 .. 0 |-> (<<>>)[CHOOSE i \in Place(<<>>, n, k) : TRUE]]
      BY <2>2 DEF After
    <3>2. QED
      BY <2>3, <3>1
  <2>5. Ascending(<<>>)
    BY DEF Ascending
  <2>6. After(<<>>, n) \in Seq(Events)
    <3>1. <<>> \in Seq(Events)
      OBVIOUS
    <3>2. QED
      BY <2>4, <3>1, Zenon
  <2>7. \A k \in 1 .. Cardinality(Later(<<>>, n)) : Place(<<>>, n, k) # {}
    BY <2>2, <2>3
  <2>8. QED
    BY <2>4, <2>5, <2>6, <2>7 DEF Selects
<1>4. ASSUME NEW m \in 1 .. Len(h), Selects(first(m - 1), n)
      PROVE  Selects(first(m), n)
  <2>1. first(m - 1) \in Seq(Events) /\ h[m] \in Events
    BY <1>1
  <2>2. first(m) = Append(first(m - 1), h[m])
    BY <1>1
  <2> HIDE DEF first
  <2>3. QED
    BY <1>4, <2>1, <2>2, SelectsMore
<1>5. Bad = {}
  <2> SUFFICES ASSUME Bad # {}
               PROVE  FALSE
    OBVIOUS
  <2>1. Bad \in SUBSET Nat
    BY <1>1
  <2>2. Min(Bad) \in Bad /\ \A y \in Bad : Min(Bad) <= y
    <3> HIDE DEF Bad
    <3>1. QED
      BY <2>1, LeastExists
  <2> DEFINE m == Min(Bad)
  <2>3. m \in 0 .. Len(h) /\ ~Selects(first(m), n)
    BY <2>2
  <2>4. m # 0
    BY <1>2, <1>3, <2>3
  <2>5. m - 1 \in 0 .. Len(h) /\ m \in 1 .. Len(h) /\ ~(m <= m - 1)
    BY <1>1, <2>3, <2>4
  <2>6. m - 1 \notin Bad
    BY <2>2, <2>5
  <2>7. Selects(first(m - 1), n)
    BY <2>5, <2>6
  <2> HIDE DEF m, Bad, first
  <2>8. QED
    BY <1>4, <2>3, <2>5, <2>7
<1>6. QED
  <2>1. Len(h) \notin Bad /\ Len(h) \in 0 .. Len(h)
    BY <1>1, <1>5
  <2>2. QED
    BY <1>2, <2>1

-----------------------------------------------------------------------------
(* Types *)

LEMMA PrunedFacts ==
    ASSUME NEW h \in Seq(Events)
    PROVE  /\ Pruned(h) \in Seq(Events) /\ Len(Pruned(h)) <= Len(h)
           /\ Pruned(h) = SubSeq(h, Len(h) - Len(Pruned(h)) + 1, Len(h))
           /\ MaxEvents > 0 => Len(Pruned(h)) <= MaxEvents
           /\ \/ Len(Pruned(h)) = Len(h)
              \/ MaxEvents > 0 /\ Len(Pruned(h)) = MaxEvents
<1>1. MaxEvents \in Int /\ Len(h) \in Nat
  BY StreamsAssumption
<1>2. CASE MaxEvents > 0 /\ Len(h) > MaxEvents
  <2>1. Pruned(h) = SubSeq(h, Len(h) - MaxEvents + 1, Len(h))
    BY <1>2 DEF Pruned
  <2>2. Pruned(h) \in Seq(Events) /\ Len(Pruned(h)) = MaxEvents
    BY <1>1, <1>2, <2>1
  <2>3. Pruned(h) = SubSeq(h, Len(h) - Len(Pruned(h)) + 1, Len(h))
    <3>1. Len(h) - Len(Pruned(h)) + 1 = Len(h) - MaxEvents + 1
      BY <2>2
    <3>2. QED
      BY <2>1, <3>1
  <2>4. MaxEvents > 0 /\ Len(Pruned(h)) = MaxEvents /\ MaxEvents <= Len(h)
    BY <1>1, <1>2, <2>2
  <2>5. QED
    BY <1>1, <2>2, <2>3, <2>4
<1>3. CASE ~(MaxEvents > 0 /\ Len(h) > MaxEvents)
  <2>1. Pruned(h) = h
    BY <1>3 DEF Pruned
  <2>2. h = SubSeq(h, 1, Len(h)) /\ Len(h) - Len(h) + 1 = 1
    BY <1>1
  <2>3. QED
    BY <1>1, <1>3, <2>1, <2>2
<1>4. QED
  BY <1>2, <1>3

LEMMA PublishType ==
    ASSUME TypeOK, NEW r \in Runs, NEW e \in Events, NEW counter \in [Runs -> Nat],
           NEW S \in SUBSET Runs, PublishAndPop(r, e, counter, S)
    PROVE  /\ stored' \subseteq Runs /\ seq' \in [Runs -> Nat]
           /\ history' \in [Runs -> Seq(Events)] /\ published' \in [Runs -> Seq(Events)]
           /\ subscribers' \in [Runs -> SUBSET Clients]
           /\ queue' \in [Clients -> Seq(Events)]
           /\ \A c \in Clients : maxsize[c] > 0 => Len(queue'[c]) <= maxsize[c]
<1>1. /\ stored \subseteq Runs /\ history \in [Runs -> Seq(Events)]
      /\ published \in [Runs -> Seq(Events)]
      /\ subscribers \in [Runs -> SUBSET Clients] /\ queue \in [Clients -> Seq(Events)]
      /\ \A c \in Clients : maxsize[c] > 0 => Len(queue[c]) <= maxsize[c]
      /\ maxsize \in [Clients -> Nat]
  BY StreamsAssumption DEF TypeOK
<1>2. stored' \subseteq Runs
  BY <1>1 DEF PublishAndPop
<1>3. seq' \in [Runs -> Nat]
  BY DEF PublishAndPop
<1>4. published' \in [Runs -> Seq(Events)]
  <2>1. published' = [published EXCEPT ![r] = Append(@, e)]
    BY DEF PublishAndPop
  <2>2. QED
    BY <1>1, <2>1
<1>5. subscribers' \in [Runs -> SUBSET Clients]
  BY <1>1 DEF PublishAndPop
<1>6. queue' = [c \in Clients |-> IF c \in subscribers[r] /\ Room(c)
                                  THEN Append(queue[c], e) ELSE queue[c]]
  BY DEF PublishAndPop
<1>7. queue' \in [Clients -> Seq(Events)]
  BY <1>1, <1>6
<1>8. ASSUME NEW c \in Clients, maxsize[c] > 0
      PROVE  Len(queue'[c]) <= maxsize[c]
  <2>1. queue[c] \in Seq(Events) /\ maxsize[c] \in Nat /\ Len(queue[c]) <= maxsize[c]
    BY <1>1, <1>8
  <2>2. CASE c \in subscribers[r] /\ Room(c)
    <3>1. queue'[c] = Append(queue[c], e)
      BY <1>6, <2>2
    <3>2. Len(queue[c]) < maxsize[c]
      BY <1>8, <2>1, <2>2 DEF Room
    <3>3. QED
      BY <2>1, <3>1, <3>2
  <2>3. CASE ~(c \in subscribers[r] /\ Room(c))
    BY <1>6, <2>1, <2>3
  <2>4. QED
    BY <2>2, <2>3
<1>9. history' \in [Runs -> Seq(Events)]
  <2>1. PICK old \in 0 .. Len(history[r]) :
           history' = [x \in Runs |->
               IF x \in S THEN <<>>
               ELSE IF x = r
                    THEN Pruned(Append(SubSeq(history[r], old + 1, Len(history[r])), e))
                    ELSE history[x]]
    <3>1. 0 \in 0 .. Len(history[r])
      BY <1>1
    <3>2. QED
      BY <3>1 DEF PublishAndPop
  <2>2. SubSeq(history[r], old + 1, Len(history[r])) \in Seq(Events)
    BY <1>1
  <2>3. Append(SubSeq(history[r], old + 1, Len(history[r])), e) \in Seq(Events)
    BY <2>2
  <2>4. Pruned(Append(SubSeq(history[r], old + 1, Len(history[r])), e)) \in Seq(Events)
    BY <2>3, PrunedFacts
  <2>5. <<>> \in Seq(Events)
    OBVIOUS
  <2>6. QED
    BY <1>1, <2>1, <2>4, <2>5
<1>10. QED
  BY <1>2, <1>3, <1>4, <1>5, <1>7, <1>8, <1>9

(* An event on the loop takes the next number. *)
LEMMA EmitIsPublish ==
    ASSUME TypeOK, NEW r \in Runs, NEW end \in BOOLEAN, NEW S \in SUBSET Runs,
           EmitAndPop(r, end, S)
    PROVE  /\ Event(seq[r] + 1, end) \in Events
           /\ [seq EXCEPT ![r] = seq[r] + 1] \in [Runs -> Nat]
           /\ PublishAndPop(r, Event(seq[r] + 1, end), [seq EXCEPT ![r] = seq[r] + 1], S)
<1>1. seq \in [Runs -> Nat]
  BY DEF TypeOK
<1>2. Event(seq[r] + 1, end) \in Events
  BY <1>1 DEF Event, Events
<1>3. [seq EXCEPT ![r] = seq[r] + 1] \in [Runs -> Nat]
  BY <1>1
<1>4. PublishAndPop(r, Event(seq[r] + 1, end), [seq EXCEPT ![r] = seq[r] + 1], S)
  BY DEF EmitAndPop, NextSeq
<1>5. QED
  BY <1>2, <1>3, <1>4

(* The part of the types that publishing is about, and the rest. *)
BusType ==
    /\ stored \subseteq Runs /\ seq \in [Runs -> Nat]
    /\ history \in [Runs -> Seq(Events)] /\ published \in [Runs -> Seq(Events)]
    /\ subscribers \in [Runs -> SUBSET Clients]
    /\ queue \in [Clients -> Seq(Events)]
    /\ \A c \in Clients : maxsize[c] > 0 => Len(queue[c]) <= maxsize[c]

TaskType ==
    /\ state \in [Runs -> {"pending", "running", "ended"}]
    /\ notes \in [Runs -> Nat]
    /\ tpc \in [Threads -> {"unborn", "idle", "drawn", "returned", "joined"}]
    /\ drawn \in [Threads -> Nat]
    /\ ready \in Seq(Callbacks)
    /\ seen \in [Clients -> Seq(Events)]
    /\ phase \in [Clients -> Phases]
    /\ registered \subseteq Watchers
    /\ origin \in [Clients -> Nat]

LEMMA TypeParts == TypeOK <=> BusType /\ TaskType
BY DEF TypeOK, BusType, TaskType

LEMMA EmitType ==
    ASSUME TypeOK, NEW r \in Runs, NEW end \in BOOLEAN, NEW S \in SUBSET Runs,
           EmitAndPop(r, end, S)
    PROVE  BusType'
<1>1. PICK e \in Events, counter \in [Runs -> Nat] : PublishAndPop(r, e, counter, S)
  BY EmitIsPublish
<1>2. QED
  BY <1>1, PublishType DEF BusType

LEMMA RunStepType ==
    ASSUME TypeOK, NEW r \in Runs, RunStep(r)
    PROVE  TypeOK'
<1>1. TaskType
  BY TypeParts
<1>2. CASE Begin(r)
  <2>1. EmitAndPop(r, FALSE, {})
    BY <1>2 DEF Begin
  <2>2. BusType'
    BY <2>1, EmitType
  <2>3. TaskType'
    <3>1. /\ state' = [state EXCEPT ![r] = "running"]
          /\ tpc' = [t \in Threads |-> IF writes_to[t] = r THEN "idle" ELSE tpc[t]]
          /\ UNCHANGED <<notes, drawn, ready, clientVars>>
      BY <1>2 DEF Begin
    <3>2. QED
      BY <1>1, <3>1 DEF TaskType, clientVars
  <2>4. QED
    BY <2>2, <2>3 DEF BusType, TaskType, TypeOK
<1>3. CASE Note(r)
  <2>1. EmitAndPop(r, FALSE, {})
    BY <1>3 DEF Note
  <2>2. BusType'
    BY <2>1, EmitType
  <2>3. TaskType'
    <3>1. /\ notes' = [notes EXCEPT ![r] = @ + 1]
          /\ UNCHANGED <<state, threadVars, ready, clientVars>>
      BY <1>3 DEF Note
    <3>2. QED
      BY <1>1, <3>1 DEF TaskType, clientVars, threadVars
  <2>4. QED
    BY <2>2, <2>3 DEF BusType, TaskType, TypeOK
<1>4. CASE End(r)
  <2>1. PICK S \in SUBSET {x \in stored : x = r \/ state[x] = "ended"} : EmitAndPop(r, TRUE, S)
    BY <1>4 DEF End
  <2>2. S \in SUBSET Runs
    BY TypeParts DEF BusType
  <2>3. BusType'
    BY <2>1, <2>2, EmitType
  <2>4. TaskType'
    <3>1. /\ state' = [state EXCEPT ![r] = "ended"]
          /\ UNCHANGED <<notes, threadVars, ready, clientVars>>
      BY <1>4 DEF End
    <3>2. QED
      BY <1>1, <3>1 DEF TaskType, clientVars, threadVars
  <2>5. QED
    BY <2>3, <2>4 DEF BusType, TaskType, TypeOK
<1>5. CASE CancelPending(r)
  <2>1. EmitAndPop(r, TRUE, {})
    BY <1>5 DEF CancelPending
  <2>2. BusType'
    BY <2>1, EmitType
  <2>3. TaskType'
    <3>1. /\ state' = [state EXCEPT ![r] = "ended"]
          /\ UNCHANGED <<notes, threadVars, ready, clientVars>>
      BY <1>5 DEF CancelPending
    <3>2. QED
      BY <1>1, <3>1 DEF TaskType, clientVars, threadVars
  <2>4. QED
    BY <2>2, <2>3 DEF BusType, TaskType, TypeOK
<1>6. CASE PopRun(r)
  <2>1. /\ stored' = stored \ {r} /\ seq' = [seq EXCEPT ![r] = 0]
        /\ history' = [history EXCEPT ![r] = <<>>]
        /\ subscribers' = [subscribers EXCEPT ![r] = {}]
        /\ UNCHANGED <<state, notes, threadVars, ready, published, queue, clientVars>>
    BY <1>6 DEF PopRun
  <2>2. BusType'
    <3>1. <<>> \in Seq(Events)
      OBVIOUS
    <3>2. QED
      BY <2>1, <3>1, TypeParts DEF BusType
  <2>3. TaskType'
    BY <1>1, <2>1 DEF TaskType, clientVars, threadVars
  <2>4. QED
    BY <2>2, <2>3 DEF BusType, TaskType, TypeOK
<1>7. QED
  BY <1>2, <1>3, <1>4, <1>5, <1>6 DEF RunStep

LEMMA ThreadStepType ==
    ASSUME TypeOK, NEW t \in Threads, ThreadStep(t)
    PROVE  TypeOK'
<1>1. BusType /\ TaskType /\ writes_to[t] \in Runs /\ HandlerThreads \subseteq Threads
  BY TypeParts, StreamsAssumption
<1>2. CASE Draw(t)
  <2>1. /\ notes' = [notes EXCEPT ![writes_to[t]] = @ + 1]
        /\ seq' = [seq EXCEPT ![writes_to[t]] = seq[writes_to[t]] + 1]
        /\ drawn' = [drawn EXCEPT ![t] = seq[writes_to[t]] + 1]
        /\ tpc' = [tpc EXCEPT ![t] = "drawn"]
        /\ UNCHANGED <<state, stored, ready, busVars, queue, clientVars>>
    BY <1>2 DEF Draw, NextSeq
  <2>2. BusType'
    BY <1>1, <2>1 DEF BusType, busVars
  <2>3. seq[writes_to[t]] + 1 \in Nat
    BY <1>1 DEF BusType
  <2>4. TaskType'
    BY <1>1, <2>1, <2>3 DEF TaskType, clientVars
  <2>5. QED
    BY <2>2, <2>4 DEF BusType, TaskType, TypeOK
<1>3. CASE Post(t)
  <2> DEFINE cb == [do |-> "publish", for |-> writes_to[t], event |-> Event(drawn[t], FALSE)]
  <2>1. /\ ready' = Append(ready, cb)
        /\ tpc' = [tpc EXCEPT ![t] = "idle"]
        /\ UNCHANGED <<runVars, drawn, busVars, queue, clientVars>>
    BY <1>3 DEF Post
  <2>2. cb \in Callbacks
    <3>1. Event(drawn[t], FALSE) \in Events
      BY <1>1 DEF TaskType, Event, Events
    <3>2. QED
      BY <1>1, <3>1 DEF Callbacks
  <2> HIDE DEF cb
  <2>3. ready' \in Seq(Callbacks)
    BY <1>1, <2>1, <2>2 DEF TaskType
  <2>4. TaskType'
    BY <1>1, <2>1, <2>3 DEF TaskType, runVars, clientVars
  <2>5. BusType'
    BY <1>1, <2>1 DEF BusType, runVars, busVars
  <2>6. QED
    BY <2>4, <2>5 DEF BusType, TaskType, TypeOK
<1>4. CASE Return(t)
  <2> DEFINE cb == [do |-> "join", for |-> t]
  <2>1. /\ t \in HandlerThreads /\ ready' = Append(ready, cb)
        /\ tpc' = [tpc EXCEPT ![t] = "returned"]
        /\ UNCHANGED <<runVars, drawn, busVars, queue, clientVars>>
    BY <1>4 DEF Return
  <2>2. cb \in Callbacks
    BY <2>1 DEF Callbacks
  <2> HIDE DEF cb
  <2>3. ready' \in Seq(Callbacks)
    BY <1>1, <2>1, <2>2 DEF TaskType
  <2>4. TaskType'
    BY <1>1, <2>1, <2>3 DEF TaskType, runVars, clientVars
  <2>5. BusType'
    BY <1>1, <2>1 DEF BusType, runVars, busVars
  <2>6. QED
    BY <2>4, <2>5 DEF BusType, TaskType, TypeOK
<1>5. QED
  BY <1>2, <1>3, <1>4 DEF ThreadStep

(* What the loop's next callback is, by its kind. *)
LEMMA HeadFacts ==
    ASSUME TypeOK, ready # <<>>
    PROVE  /\ Len(ready) \in Nat \ {0} /\ Head(ready) = ready[1]
           /\ Tail(ready) \in Seq(Callbacks) /\ Len(Tail(ready)) = Len(ready) - 1
           /\ \A i \in 1 .. Len(ready) - 1 : Tail(ready)[i] = ready[i + 1]
           /\ ready[1].do = "publish" => ready[1].for \in Runs /\ ready[1].event \in Events
           /\ ready[1].do = "join" => ready[1].for \in HandlerThreads
           /\ ready[1].do = "cancel" => ready[1].for \in Watchers
<1>1. ready \in Seq(Callbacks)
  BY DEF TypeOK
<1>2. /\ Len(ready) \in Nat \ {0} /\ Head(ready) = ready[1] /\ ready[1] \in Callbacks
      /\ Tail(ready) \in Seq(Callbacks) /\ Len(Tail(ready)) = Len(ready) - 1
      /\ \A i \in 1 .. Len(ready) - 1 : Tail(ready)[i] = ready[i + 1]
  BY <1>1
<1>3. ASSUME NEW cb \in Callbacks
      PROVE  /\ cb.do = "publish" => cb.for \in Runs /\ cb.event \in Events
             /\ cb.do = "join" => cb.for \in HandlerThreads
             /\ cb.do = "cancel" => cb.for \in Watchers
  BY DEF Callbacks
<1>4. QED
  BY <1>2, <1>3

LEMMA CallbackType ==
    ASSUME TypeOK, RunCallback
    PROVE  TypeOK'
<1> DEFINE cb == ready[1]
<1>1. /\ ready # <<>> /\ ready' = Tail(ready)
      /\ BusType /\ TaskType /\ HandlerThreads \subseteq Threads
  BY TypeParts, StreamsAssumption DEF RunCallback
<1>2. /\ ready' \in Seq(Callbacks) /\ Head(ready) = cb
      /\ cb.do = "publish" => cb.for \in Runs /\ cb.event \in Events
      /\ cb.do = "join" => cb.for \in HandlerThreads
      /\ cb.do = "cancel" => cb.for \in Watchers
  BY <1>1, HeadFacts
<1> HIDE DEF cb
<1>3. CASE /\ cb.do = "publish" /\ PublishAndPop(cb.for, cb.event, seq, {})
           /\ UNCHANGED <<state, notes, threadVars, clientVars>>
  <2>1. seq \in [Runs -> Nat] /\ {} \in SUBSET Runs /\ cb.for \in Runs /\ cb.event \in Events
    BY <1>1, <1>2, <1>3 DEF BusType
  <2>2. BusType'
    BY <1>3, <2>1, PublishType DEF BusType
  <2>3. TaskType'
    BY <1>1, <1>2, <1>3 DEF TaskType, threadVars, clientVars
  <2>4. QED
    BY <2>2, <2>3 DEF BusType, TaskType, TypeOK
<1>4. CASE /\ cb.do = "join" /\ tpc' = [tpc EXCEPT ![cb.for] = "joined"]
           /\ UNCHANGED <<runVars, drawn, busVars, queue, clientVars>>
  <2>1. TaskType'
    BY <1>1, <1>2, <1>4 DEF TaskType, runVars, clientVars
  <2>2. BusType'
    BY <1>1, <1>4 DEF BusType, runVars, busVars
  <2>3. QED
    BY <2>1, <2>2 DEF BusType, TaskType, TypeOK
<1>5. CASE /\ cb.do = "cancel"
           /\ phase' = [phase EXCEPT ![cb.for] = IF @ = "closed" THEN @ ELSE "cancelled"]
           /\ subscribers' = Unsubscribed(cb.for)
           /\ UNCHANGED <<runVars, threadVars, history, published, queue,
                          registered, seen, origin>>
  <2>1. TaskType'
    <3>1. \A c \in Clients : phase'[c] \in Phases
      BY <1>1, <1>5 DEF TaskType, Phases
    <3>2. phase' \in [Clients -> Phases]
      BY <1>1, <1>5, <3>1 DEF TaskType
    <3>3. QED
      BY <1>1, <1>2, <1>5, <3>2 DEF TaskType, runVars, threadVars
  <2>2. BusType'
    BY <1>1, <1>5 DEF BusType, runVars, Unsubscribed
  <2>3. QED
    BY <2>1, <2>2 DEF BusType, TaskType, TypeOK
<1>6. QED
  BY <1>2, <1>3, <1>4, <1>5 DEF RunCallback

LEMMA ReplayFacts ==
    ASSUME TypeOK, NEW c \in Clients
    PROVE  /\ Replay(c) \in Seq(Events) /\ follows[c] \in Runs /\ history[follows[c]] \in Seq(Events)
           /\ Range(Replay(c)) \subseteq Range(history[follows[c]])
           /\ Ascending(history[follows[c]]) => Ascending(Replay(c))
<1>1. follows[c] \in Runs /\ since_seq[c] \in Int /\ history[follows[c]] \in Seq(Events)
  BY StreamsAssumption DEF TypeOK
<1>2. Selects(history[follows[c]], since_seq[c])
  BY <1>1, AfterSelects
<1>3. CASE since_seq[c] < 0
  <2>1. Replay(c) = <<>> /\ Range(<<>>) = {} /\ <<>> \in Seq(Events)
    BY <1>3 DEF Replay, Range
  <2>2. Ascending(<<>>)
    BY DEF Ascending
  <2>3. QED
    BY <1>1, <2>1, <2>2
<1>4. CASE ~(since_seq[c] < 0)
  <2>1. Replay(c) = After(history[follows[c]], since_seq[c])
    BY <1>4 DEF Replay
  <2>2. QED
    BY <1>1, <1>2, <2>1 DEF Selects
<1>5. QED
  BY <1>3, <1>4

LEMMA ClientStepType ==
    ASSUME TypeOK, TailInv, NEW c \in Clients, ClientStep(c)
    PROVE  TypeOK'
<1>1. /\ BusType /\ TaskType /\ follows[c] \in Runs /\ maxsize[c] \in Nat
      /\ since_seq[c] \in Int
  BY TypeParts, StreamsAssumption
<1>2. CASE Subscribe(c)
  <2> DEFINE r == follows[c]
             fits == maxsize[c] = 0 \/ Len(Replay(c)) <= maxsize[c]
             q == IF fits THEN Replay(c) ELSE SubSeq(Replay(c), 1, maxsize[c])
  <2>1. /\ phase' = [phase EXCEPT ![c] = IF fits THEN "open" ELSE "failed"]
        /\ queue' = [queue EXCEPT ![c] = q]
        /\ subscribers' = [subscribers EXCEPT ![r] = @ \cup {c}]
        /\ registered' = Registered(c)
        /\ origin' = [origin EXCEPT ![c] = Len(published[r]) - Len(history[r])]
        /\ r \in stored
        /\ UNCHANGED <<runVars, threadVars, ready, history, published, seen>>
    BY <1>2 DEF Subscribe
  <2>2. Replay(c) \in Seq(Events)
    BY ReplayFacts
  <2>3. q \in Seq(Events) /\ (maxsize[c] > 0 => Len(q) <= maxsize[c])
    <3>1. CASE fits
      BY <1>1, <2>2, <3>1
    <3>2. CASE ~fits
      <4>1. 0 < maxsize[c] /\ maxsize[c] < Len(Replay(c)) /\ Len(Replay(c)) \in Nat
        BY <1>1, <2>2, <3>2
      <4>2. q = SubSeq(Replay(c), 1, maxsize[c])
        BY <3>2
      <4>3. SubSeq(Replay(c), 1, maxsize[c]) \in Seq(Events)
            /\ Len(SubSeq(Replay(c), 1, maxsize[c])) = maxsize[c]
        BY <1>1, <2>2, <4>1
      <4> HIDE DEF q
      <4>4. q \in Seq(Events) /\ Len(q) = maxsize[c]
        BY <4>2, <4>3, Zenon
      <4>5. QED
        BY <1>1, <4>4
    <3>3. QED
      BY <3>1, <3>2
  <2> HIDE DEF fits, q
  <2>4. BusType'
    <3>1. subscribers' \in [Runs -> SUBSET Clients]
      BY <1>1, <2>1 DEF BusType
    <3>2. queue' \in [Clients -> Seq(Events)]
          /\ \A x \in Clients : maxsize[x] > 0 => Len(queue'[x]) <= maxsize[x]
      BY <1>1, <2>1, <2>3 DEF BusType
    <3>3. QED
      BY <1>1, <2>1, <3>1, <3>2 DEF BusType, runVars
  <2>5. Len(published[r]) - Len(history[r]) \in Nat
    <3>1. Len(history[r]) <= Len(published[r])
      BY <2>1 DEF TailInv, TailOf
    <3>2. Len(history[r]) \in Nat /\ Len(published[r]) \in Nat
      BY <1>1 DEF BusType
    <3>3. QED
      BY <3>1, <3>2
  <2>6. TaskType'
    <3>1. origin' \in [Clients -> Nat]
      BY <1>1, <2>1, <2>5 DEF TaskType
    <3>2. phase' \in [Clients -> Phases]
      BY <1>1, <2>1 DEF TaskType, Phases
    <3>3. registered' \subseteq Watchers
      BY <1>1, <2>1 DEF TaskType, Registered
    <3>4. QED
      BY <1>1, <2>1, <3>1, <3>2, <3>3 DEF TaskType, runVars, threadVars
  <2>7. QED
    BY <2>4, <2>6 DEF BusType, TaskType, TypeOK
<1>3. ASSUME Taken(c)
      PROVE  /\ queue' \in [Clients -> Seq(Events)] /\ seen' \in [Clients -> Seq(Events)]
             /\ \A x \in Clients : maxsize[x] > 0 => Len(queue'[x]) <= maxsize[x]
  <2>1. /\ queue[c] # <<>> /\ queue' = [queue EXCEPT ![c] = Tail(@)]
        /\ seen' = [seen EXCEPT ![c] = Append(@, Head(queue[c]))]
    BY <1>3 DEF Taken
  <2>2. queue[c] \in Seq(Events) /\ (maxsize[c] > 0 => Len(queue[c]) <= maxsize[c])
    BY <1>1 DEF BusType
  <2>3. /\ Tail(queue[c]) \in Seq(Events) /\ Head(queue[c]) \in Events
        /\ Len(Tail(queue[c])) = Len(queue[c]) - 1 /\ Len(queue[c]) \in Nat
    BY <2>1, <2>2
  <2>4. maxsize[c] > 0 => Len(Tail(queue[c])) <= maxsize[c]
    BY <1>1, <2>2, <2>3
  <2>5. queue' \in [Clients -> Seq(Events)]
    BY <1>1, <2>1, <2>3 DEF BusType
  <2>6. \A x \in Clients : maxsize[x] > 0 => Len(queue'[x]) <= maxsize[x]
    BY <1>1, <2>1, <2>4 DEF BusType
  <2>7. seen' \in [Clients -> Seq(Events)]
    BY <1>1, <2>1, <2>3 DEF TaskType
  <2>8. QED
    BY <2>5, <2>6, <2>7
<1>4. CASE Receive(c)
  <2> DEFINE end == Head(queue[c]).end
  <2>1. /\ Taken(c) /\ phase' = [phase EXCEPT ![c] = IF end THEN "closed" ELSE "open"]
        /\ subscribers' = IF end THEN Unsubscribed(c) ELSE subscribers
        /\ UNCHANGED <<runVars, threadVars, ready, history, published, registered, origin>>
    BY <1>4 DEF Receive
  <2> HIDE DEF end
  <2>2. BusType'
    <3>1. subscribers' \in [Runs -> SUBSET Clients]
      BY <1>1, <2>1 DEF BusType, Unsubscribed
    <3>2. QED
      BY <1>1, <1>3, <2>1, <3>1 DEF BusType, runVars
  <2>3. TaskType'
    <3>1. phase' \in [Clients -> Phases]
      BY <1>1, <2>1 DEF TaskType, Phases
    <3>2. QED
      BY <1>1, <1>3, <2>1, <3>1 DEF TaskType, runVars, threadVars
  <2>4. QED
    BY <2>2, <2>3 DEF BusType, TaskType, TypeOK
<1>5. CASE Leave(c)
  <2>1. /\ phase' = [phase EXCEPT ![c] = "closed"] /\ subscribers' = Unsubscribed(c)
        /\ UNCHANGED <<runVars, threadVars, ready, history, published, queue,
                       registered, seen, origin>>
    BY <1>5 DEF Leave
  <2>2. BusType'
    BY <1>1, <2>1 DEF BusType, runVars, Unsubscribed
  <2>3. TaskType'
    BY <1>1, <2>1 DEF TaskType, runVars, threadVars, Phases
  <2>4. QED
    BY <2>2, <2>3 DEF BusType, TaskType, TypeOK
<1>6. CASE Watch(c)
  <2>1. /\ Taken(c) /\ phase' = [phase EXCEPT ![c] = "on_event"]
        /\ UNCHANGED <<runVars, threadVars, ready, busVars, registered, origin>>
    BY <1>6 DEF Watch
  <2>2. BusType'
    BY <1>1, <1>3, <2>1 DEF BusType, runVars, busVars
  <2>3. TaskType'
    BY <1>1, <1>3, <2>1 DEF TaskType, runVars, threadVars, Phases
  <2>4. QED
    BY <2>2, <2>3 DEF BusType, TaskType, TypeOK
<1>7. CASE Watched(c)
  <2> DEFINE end == seen[c][Len(seen[c])].end
  <2>1. /\ phase' = [phase EXCEPT ![c] = IF end THEN "on_done" ELSE "open"]
        /\ UNCHANGED <<runVars, threadVars, ready, busVars, queue, registered, seen, origin>>
    BY <1>7 DEF Watched
  <2> HIDE DEF end
  <2>2. BusType'
    BY <1>1, <2>1 DEF BusType, runVars, busVars
  <2>3. TaskType'
    BY <1>1, <2>1 DEF TaskType, runVars, threadVars, Phases
  <2>4. QED
    BY <2>2, <2>3 DEF BusType, TaskType, TypeOK
<1>8. CASE Unwatch(c)
  <2>1. /\ phase' = [phase EXCEPT ![c] = "closed"] /\ subscribers' = Unsubscribed(c)
        /\ registered' = registered \ {c}
        /\ UNCHANGED <<runVars, threadVars, ready, history, published, queue, seen, origin>>
    BY <1>8 DEF Unwatch
  <2>2. BusType'
    BY <1>1, <2>1 DEF BusType, runVars, Unsubscribed
  <2>3. TaskType'
    BY <1>1, <2>1 DEF TaskType, runVars, threadVars, Phases
  <2>4. QED
    BY <2>2, <2>3 DEF BusType, TaskType, TypeOK
<1>9. CASE Unregister(c)
  <2> DEFINE cb == [do |-> "cancel", for |-> c]
  <2>1. /\ c \in registered /\ registered' = registered \ {c}
        /\ ready' = Append(ready, cb)
        /\ UNCHANGED <<runVars, threadVars, busVars, queue, phase, seen, origin>>
    BY <1>9 DEF Unregister
  <2>2. cb \in Callbacks
    BY <1>1, <2>1 DEF Callbacks, TaskType
  <2> HIDE DEF cb
  <2>3. ready' \in Seq(Callbacks)
    BY <1>1, <2>1, <2>2 DEF TaskType
  <2>4. BusType'
    BY <1>1, <2>1 DEF BusType, runVars, busVars
  <2>5. TaskType'
    BY <1>1, <2>1, <2>3 DEF TaskType, runVars, threadVars
  <2>6. QED
    BY <2>4, <2>5 DEF BusType, TaskType, TypeOK
<1>10. QED
  BY <1>2, <1>4, <1>5, <1>6, <1>7, <1>8, <1>9 DEF ClientStep

-----------------------------------------------------------------------------
(* The history is a tail of what was published *)

LEMMA TailByIndex ==
    ASSUME NEW h \in Seq(Events), NEW p \in Seq(Events)
    PROVE  TailOf(h, p) <=>
               /\ Len(h) <= Len(p)
               /\ \A k \in 1 .. Len(h) : h[k] = p[Len(p) - Len(h) + k]
<1> DEFINE t == SubSeq(p, Len(p) - Len(h) + 1, Len(p))
<1>1. Len(h) \in Nat /\ Len(p) \in Nat
  OBVIOUS
<1>2. ASSUME Len(h) <= Len(p)
      PROVE  /\ t \in Seq(Events) /\ Len(t) = Len(h)
             /\ \A k \in 1 .. Len(h) : t[k] = p[Len(p) - Len(h) + k]
  <2>1. Len(p) - Len(h) + 1 \in 1 .. Len(p) + 1
    BY <1>1, <1>2
  <2>2. t \in Seq(Events) /\ Len(t) = Len(p) - (Len(p) - Len(h) + 1) + 1
    BY <1>1, <2>1
  <2>3. Len(t) = Len(h)
    BY <1>1, <2>2
  <2>4. ASSUME NEW k \in 1 .. Len(h)
        PROVE  t[k] = p[Len(p) - Len(h) + k]
    <3>1. t[k] = p[(Len(p) - Len(h) + 1) + k - 1]
      BY <1>1, <1>2, <2>1, <2>3
    <3>2. (Len(p) - Len(h) + 1) + k - 1 = Len(p) - Len(h) + k
      BY <1>1
    <3>3. QED
      BY <3>1, <3>2
  <2>5. QED
    BY <2>2, <2>3, <2>4
<1> HIDE DEF t
<1>3. ASSUME Len(h) <= Len(p), \A k \in 1 .. Len(h) : h[k] = p[Len(p) - Len(h) + k]
      PROVE  h = t
  <2>1. h = [k \in 1 .. Len(h) |-> h[k]] /\ t = [k \in 1 .. Len(t) |-> t[k]]
    BY <1>2, <1>3
  <2>2. \A k \in 1 .. Len(h) : h[k] = t[k]
    BY <1>2, <1>3
  <2>3. QED
    BY <1>2, <1>3, <2>1, <2>2
<1>4. QED
  BY <1>2, <1>3 DEF TailOf, t

LEMMA TailTrans ==
    ASSUME NEW a \in Seq(Events), NEW b \in Seq(Events), NEW c \in Seq(Events),
           TailOf(a, b), TailOf(b, c)
    PROVE  TailOf(a, c)
<1>1. Len(a) \in Nat /\ Len(b) \in Nat /\ Len(c) \in Nat
  OBVIOUS
<1>2. Len(a) <= Len(b) /\ \A k \in 1 .. Len(a) : a[k] = b[Len(b) - Len(a) + k]
  BY TailByIndex
<1>3. Len(b) <= Len(c) /\ \A k \in 1 .. Len(b) : b[k] = c[Len(c) - Len(b) + k]
  BY TailByIndex
<1>4. ASSUME NEW k \in 1 .. Len(a)
      PROVE  a[k] = c[Len(c) - Len(a) + k]
  <2>1. Len(b) - Len(a) + k \in 1 .. Len(b)
    BY <1>1, <1>2
  <2>2. Len(c) - Len(b) + (Len(b) - Len(a) + k) = Len(c) - Len(a) + k
    BY <1>1
  <2>3. QED
    BY <1>2, <1>3, <2>1, <2>2
<1>5. Len(a) <= Len(c)
  BY <1>1, <1>2, <1>3
<1>6. QED
  BY <1>4, <1>5, TailByIndex

LEMMA TailAppend ==
    ASSUME NEW h \in Seq(Events), NEW p \in Seq(Events), NEW e \in Events, TailOf(h, p)
    PROVE  TailOf(Append(h, e), Append(p, e))
<1> DEFINE g == Append(h, e)
           q == Append(p, e)
<1>1. /\ Len(h) \in Nat /\ Len(p) \in Nat /\ g \in Seq(Events) /\ q \in Seq(Events)
      /\ Len(g) = Len(h) + 1 /\ Len(q) = Len(p) + 1
      /\ g[Len(h) + 1] = e /\ q[Len(p) + 1] = e
      /\ \A k \in 1 .. Len(h) : g[k] = h[k]
      /\ \A k \in 1 .. Len(p) : q[k] = p[k]
  OBVIOUS
<1>2. Len(h) <= Len(p) /\ \A k \in 1 .. Len(h) : h[k] = p[Len(p) - Len(h) + k]
  BY TailByIndex
<1> HIDE DEF g, q
<1>3. ASSUME NEW k \in 1 .. Len(g)
      PROVE  g[k] = q[Len(q) - Len(g) + k]
  <2>1. Len(q) - Len(g) + k = Len(p) - Len(h) + k
    BY <1>1
  <2>2. CASE k = Len(h) + 1
    <3>1. Len(p) - Len(h) + k = Len(p) + 1
      BY <1>1, <2>2
    <3>2. QED
      BY <1>1, <2>1, <2>2, <3>1
  <2>3. CASE k \in 1 .. Len(h)
    <3>1. Len(p) - Len(h) + k \in 1 .. Len(p)
      BY <1>1, <1>2, <2>3
    <3>2. QED
      BY <1>1, <1>2, <2>1, <2>3, <3>1
  <2>4. QED
    BY <1>1, <2>2, <2>3
<1>4. Len(g) <= Len(q)
  BY <1>1, <1>2
<1>5. TailOf(g, q)
  BY <1>1, <1>3, <1>4, TailByIndex
<1>6. QED
  BY <1>5 DEF g, q

LEMMA TailSub ==
    ASSUME NEW h \in Seq(Events), NEW old \in 0 .. Len(h)
    PROVE  /\ SubSeq(h, old + 1, Len(h)) \in Seq(Events)
           /\ Len(SubSeq(h, old + 1, Len(h))) = Len(h) - old
           /\ TailOf(SubSeq(h, old + 1, Len(h)), h)
<1> DEFINE g == SubSeq(h, old + 1, Len(h))
<1>0. Len(h) \in Nat /\ old \in Nat /\ old <= Len(h) /\ old + 1 \in 1 .. Len(h) + 1
  OBVIOUS
<1>1. /\ Len(h) \in Nat /\ old \in Nat /\ old <= Len(h)
      /\ g \in Seq(Events) /\ Len(g) = Len(h) - old
  <2>1. g \in Seq(Events) /\ Len(g) = IF old + 1 <= Len(h) THEN Len(h) - (old + 1) + 1 ELSE 0
    BY <1>0
  <2>2. Len(g) = Len(h) - old
    BY <1>0, <2>1
  <2>3. QED
    BY <1>0, <2>1, <2>2
<1> HIDE DEF g
<1>2. Len(h) - Len(g) + 1 = old + 1 /\ Len(g) <= Len(h)
  BY <1>1
<1>3. TailOf(g, h)
  BY <1>2 DEF TailOf, g
<1>4. QED
  BY <1>1, <1>3 DEF g

(* What publishing does to the history and to what was published.           *)
LEMMA PublishHistory ==
    ASSUME TypeOK, NEW r \in Runs, NEW e \in Events, NEW counter \in [Runs -> Nat],
           NEW S \in SUBSET Runs, PublishAndPop(r, e, counter, S)
    PROVE  \E old \in 0 .. Len(history[r]) :
               /\ ~HasTTL => old = 0
               /\ history' = [x \in Runs |->
                    IF x \in S THEN <<>>
                    ELSE IF x = r
                         THEN Pruned(Append(SubSeq(history[r], old + 1, Len(history[r])), e))
                         ELSE history[x]]
               /\ published' = [published EXCEPT ![r] = Append(@, e)]
               /\ stored' = stored \ S
<1>1. history[r] \in Seq(Events)
  BY DEF TypeOK
<1>2. 0 \in 0 .. Len(history[r])
  BY <1>1
<1>3. QED
  BY <1>2 DEF PublishAndPop

LEMMA PublishTail ==
    ASSUME TypeOK, TailInv, LimitInv, NEW r \in Runs, NEW e \in Events,
           NEW counter \in [Runs -> Nat],
           NEW S \in SUBSET Runs, PublishAndPop(r, e, counter, S)
    PROVE  TailInv' /\ LimitInv'
<1>1. PICK old \in 0 .. Len(history[r]) :
          /\ ~HasTTL => old = 0
          /\ history' = [x \in Runs |->
               IF x \in S THEN <<>>
               ELSE IF x = r
                    THEN Pruned(Append(SubSeq(history[r], old + 1, Len(history[r])), e))
                    ELSE history[x]]
          /\ published' = [published EXCEPT ![r] = Append(@, e)]
          /\ stored' = stored \ S
  BY PublishHistory
<1>2. /\ stored \subseteq Runs /\ history \in [Runs -> Seq(Events)]
      /\ published \in [Runs -> Seq(Events)]
  BY DEF TypeOK
<1> SUFFICES ASSUME NEW x \in stored'
             PROVE  /\ TailOf(history'[x], published'[x])
                    /\ MaxEvents > 0 => Len(history'[x]) <= MaxEvents
                    /\ ~HasTTL => \/ Len(history'[x]) = Len(published'[x])
                                  \/ MaxEvents > 0 /\ Len(history'[x]) = MaxEvents
  BY DEF TailInv, LimitInv
<1>3. x \in stored /\ x \notin S /\ x \in Runs
  BY <1>1, <1>2
<1>4. /\ TailOf(history[x], published[x])
      /\ MaxEvents > 0 => Len(history[x]) <= MaxEvents
      /\ ~HasTTL => \/ Len(history[x]) = Len(published[x])
                    \/ MaxEvents > 0 /\ Len(history[x]) = MaxEvents
  BY <1>3 DEF TailInv, LimitInv
<1>5. CASE x # r
  <2>1. history'[x] = history[x] /\ published'[x] = published[x]
    BY <1>1, <1>2, <1>3, <1>5
  <2>2. QED
    BY <1>4, <2>1
<1>6. CASE x = r
  <2> DEFINE h == history[r]
             p == published[r]
             g == SubSeq(h, old + 1, Len(h))
             q == Append(p, e)
             k == Append(g, e)
  <2>1. history'[x] = Pruned(k) /\ published'[x] = q
    BY <1>1, <1>2, <1>3, <1>6
  <2>2. h \in Seq(Events) /\ p \in Seq(Events)
    BY <1>2
  <2>3. g \in Seq(Events) /\ Len(g) = Len(h) - old /\ TailOf(g, h)
    BY <2>2, TailSub
  <2>4. TailOf(g, p)
    BY <1>4, <1>6, <2>2, <2>3, TailTrans
  <2>5. /\ k \in Seq(Events) /\ q \in Seq(Events)
        /\ Len(k) = Len(g) + 1 /\ Len(q) = Len(p) + 1
    BY <2>2, <2>3
  <2>6. TailOf(k, q)
    BY <2>2, <2>3, <2>4, TailAppend
  <2> HIDE DEF k, q
  <2>7. /\ Pruned(k) \in Seq(Events) /\ Len(Pruned(k)) <= Len(k)
        /\ Pruned(k) = SubSeq(k, Len(k) - Len(Pruned(k)) + 1, Len(k))
        /\ MaxEvents > 0 => Len(Pruned(k)) <= MaxEvents
        /\ \/ Len(Pruned(k)) = Len(k)
           \/ MaxEvents > 0 /\ Len(Pruned(k)) = MaxEvents
    BY <2>5, PrunedFacts
  <2>8. TailOf(Pruned(k), k)
    BY <2>7 DEF TailOf
  <2>9. TailOf(Pruned(k), q)
    BY <2>5, <2>6, <2>7, <2>8, TailTrans
  <2>10. ASSUME ~HasTTL
         PROVE  \/ Len(Pruned(k)) = Len(q)
                \/ MaxEvents > 0 /\ Len(Pruned(k)) = MaxEvents
    <3>1. Len(g) = Len(h)
      BY <1>1, <2>2, <2>3, <2>10
    <3>2. Len(h) \in Nat /\ Len(p) \in Nat /\ MaxEvents \in Int /\ Len(Pruned(k)) \in Nat
      BY <2>2, <2>7, StreamsAssumption
    <3>3. CASE Len(h) = Len(p)
      <4>1. Len(k) = Len(q)
        BY <2>5, <3>1, <3>3
      <4>2. QED
        BY <2>7, <4>1
    <3>4. CASE MaxEvents > 0 /\ Len(h) = MaxEvents
      <4>1. Len(k) = MaxEvents + 1
        BY <2>5, <3>1, <3>4
      <4>2. Len(Pruned(k)) <= MaxEvents
        BY <2>7, <3>4
      <4>3. Len(Pruned(k)) # Len(k)
        BY <3>2, <4>1, <4>2
      <4>4. QED
        BY <2>7, <4>3
    <3>5. QED
      BY <1>4, <1>6, <2>10, <3>3, <3>4
  <2>11. QED
    BY <2>1, <2>7, <2>9, <2>10
<1>7. QED
  BY <1>5, <1>6

LEMMA EmitTail ==
    ASSUME TypeOK, TailInv, LimitInv, NEW r \in Runs, NEW end \in BOOLEAN,
           NEW S \in SUBSET Runs, EmitAndPop(r, end, S)
    PROVE  TailInv' /\ LimitInv'
<1>1. PICK e \in Events, counter \in [Runs -> Nat] : PublishAndPop(r, e, counter, S)
  BY EmitIsPublish
<1>2. QED
  BY <1>1, PublishTail

(* A step that leaves the bus alone changes neither. *)
LEMMA TailKept ==
    ASSUME TailInv, LimitInv, UNCHANGED <<stored, history, published>>
    PROVE  TailInv' /\ LimitInv'
BY DEF TailInv, LimitInv

LEMMA TailStep ==
    ASSUME TypeOK, TailInv, LimitInv, [Next]_vars
    PROVE  TailInv' /\ LimitInv'
<1>1. ASSUME NEW r \in Runs, RunStep(r)
      PROVE  TailInv' /\ LimitInv'
  <2>1. {} \in SUBSET Runs /\ stored \subseteq Runs
    BY DEF TypeOK
  <2>2. CASE Begin(r)
    BY <2>1, <2>2, EmitTail DEF Begin
  <2>3. CASE Note(r)
    BY <2>1, <2>3, EmitTail DEF Note
  <2>4. CASE End(r)
    <3>1. PICK S \in SUBSET {x \in stored : x = r \/ state[x] = "ended"} : EmitAndPop(r, TRUE, S)
      BY <2>4 DEF End
    <3>2. S \in SUBSET Runs
      BY <2>1
    <3>3. QED
      BY <3>1, <3>2, EmitTail
  <2>5. CASE CancelPending(r)
    BY <2>1, <2>5, EmitTail DEF CancelPending
  <2>6. CASE PopRun(r)
    <3>1. /\ stored' = stored \ {r} /\ history' = [history EXCEPT ![r] = <<>>]
          /\ published' = published
      BY <2>6 DEF PopRun
    <3>2. \A x \in stored' : x \in stored /\ history'[x] = history[x]
      BY <2>1, <3>1 DEF TypeOK
    <3>3. QED
      BY <3>1, <3>2 DEF TailInv, LimitInv
  <2>7. QED
    BY <1>1, <2>2, <2>3, <2>4, <2>5, <2>6 DEF RunStep
<1>2. ASSUME NEW t \in Threads, ThreadStep(t)
      PROVE  TailInv' /\ LimitInv'
  <2>1. UNCHANGED <<stored, history, published>>
    BY <1>2 DEF ThreadStep, Draw, Post, Return, runVars, busVars
  <2>2. QED
    BY <2>1, TailKept
<1>3. ASSUME RunCallback
      PROVE  TailInv' /\ LimitInv'
  <2>1. CASE /\ ready[1].do = "publish"
             /\ PublishAndPop(ready[1].for, ready[1].event, seq, {})
    <3>1. ready # <<>>
      BY <1>3 DEF RunCallback
    <3>2. ready[1].for \in Runs /\ ready[1].event \in Events /\ {} \in SUBSET Runs
          /\ seq \in [Runs -> Nat]
      BY <2>1, <3>1, HeadFacts DEF TypeOK
    <3>3. QED
      BY <2>1, <3>2, PublishTail
  <2>2. CASE UNCHANGED <<stored, history, published>>
    BY <2>2, TailKept
  <2>3. Head(ready) = ready[1]
    BY <1>3, HeadFacts DEF RunCallback
  <2>4. QED
    BY <1>3, <2>1, <2>2, <2>3 DEF RunCallback, runVars, busVars
<1>4. ASSUME NEW c \in Clients, ClientStep(c)
      PROVE  TailInv' /\ LimitInv'
  <2>1. UNCHANGED <<stored, history, published>>
    BY <1>4 DEF ClientStep, Subscribe, Receive, Leave, Watch, Watched, Unwatch,
                Unregister, runVars, busVars
  <2>2. QED
    BY <2>1, TailKept
<1>5. CASE UNCHANGED vars
  <2>1. UNCHANGED <<stored, history, published>>
    BY <1>5 DEF vars, runVars, busVars
  <2>2. QED
    BY <2>1, TailKept
<1>6. CASE Finished
  BY <1>5, <1>6 DEF Finished
<1>7. QED
  BY <1>1, <1>2, <1>3, <1>4, <1>5, <1>6 DEF Next

LEMMA TypeStep ==
    ASSUME TypeOK, TailInv, [Next]_vars
    PROVE  TypeOK'
<1>1. CASE UNCHANGED vars
  BY <1>1 DEF TypeOK, vars, runVars, threadVars, busVars, clientVars, Callbacks, Phases
<1>2. CASE Finished
  BY <1>1, <1>2 DEF Finished
<1>3. QED
  BY <1>1, <1>2, RunStepType, ThreadStepType, CallbackType, ClientStepType DEF Next

LEMMA TypeInit == Init => TypeOK /\ TailInv /\ LimitInv
<1> SUFFICES ASSUME Init
             PROVE  TypeOK /\ TailInv /\ LimitInv
  OBVIOUS
<1>1. <<>> \in Seq(Events) /\ <<>> \in Seq(Callbacks) /\ Len(<<>>) = 0
  OBVIOUS
<1>2. TypeOK
  <2>1. \A c \in Clients : queue[c] = <<>>
    BY DEF Init
  <2>2. \A c \in Clients : maxsize[c] > 0 => Len(queue[c]) <= maxsize[c]
    <3>1. maxsize \in [Clients -> Nat]
      BY StreamsAssumption
    <3>2. \A c \in Clients : Len(queue[c]) = 0
      BY <1>1, <2>1
    <3>3. QED
      BY <3>1, <3>2
  <2>3. /\ history \in [Runs -> Seq(Events)] /\ published \in [Runs -> Seq(Events)]
        /\ queue \in [Clients -> Seq(Events)] /\ seen \in [Clients -> Seq(Events)]
        /\ ready \in Seq(Callbacks)
    BY <1>1, ZenonT(30) DEF Init
  <2>4. /\ state \in [Runs -> {"pending", "running", "ended"}] /\ stored \subseteq Runs
        /\ tpc \in [Threads -> {"unborn", "idle", "drawn", "returned", "joined"}]
        /\ subscribers \in [Runs -> SUBSET Clients]
        /\ phase \in [Clients -> Phases] /\ registered \subseteq Watchers
    BY DEF Init, Phases
  <2>5. /\ seq \in [Runs -> Nat] /\ notes \in [Runs -> Nat]
        /\ drawn \in [Threads -> Nat] /\ origin \in [Clients -> Nat]
    BY DEF Init
  <2>6. QED
    BY <2>2, <2>3, <2>4, <2>5 DEF TypeOK
<1>3. TailInv /\ LimitInv
  <2>1. \A r \in Runs : history[r] = <<>> /\ published[r] = <<>>
    BY DEF Init
  <2>2. TailOf(<<>>, <<>>)
    BY DEF TailOf
  <2>3. stored = Runs
    BY DEF Init
  <2>4. TailInv
    BY <2>1, <2>2, <2>3 DEF TailInv
  <2>5. \A r \in stored : Len(history[r]) = 0 /\ Len(published[r]) = 0
    BY <1>1, <2>1, <2>3
  <2>6. \A r \in stored : MaxEvents > 0 => Len(history[r]) <= MaxEvents
    BY <2>5, StreamsAssumption
  <2>7. QED
    BY <2>4, <2>5, <2>6 DEF LimitInv
<1>4. QED
  BY <1>2, <1>3

(* Every variable keeps to its type and every bounded queue to its size,    *)
(* whatever runs, threads and clients do (the bus and its subscribers). An   *)
(* event is counted as out of the history only if it was published.         *)
THEOREM StreamsTypeCorrect == Spec => []TypeOK
<1>1. Init => TypeOK /\ TailInv /\ LimitInv
  BY TypeInit
<1>2. TypeOK /\ TailInv /\ LimitInv /\ [Next]_vars => (TypeOK /\ TailInv /\ LimitInv)'
  BY TypeStep, TailStep
<1>3. QED
  BY <1>1, <1>2, PTL DEF Spec

(* What the history of a run in the store holds is the newest part of what   *)
(* was published, and as much of it as event_history_max allows, which is    *)
(* no limit at all if it is 0 (RunEventBus._prune_history).                 *)
THEOREM HistoryKeepsNewest ==
    ASSUME MaxEvents # 0
    PROVE  Spec => []HistoryIsTail
<1>1. Init => TypeOK /\ TailInv /\ LimitInv
  BY TypeInit
<1>2. TypeOK /\ TailInv /\ LimitInv /\ [Next]_vars => (TypeOK /\ TailInv /\ LimitInv)'
  BY TypeStep, TailStep
<1>3. TypeOK /\ TailInv /\ LimitInv => HistoryIsTail
  <2> SUFFICES ASSUME TypeOK, TailInv, LimitInv, NEW r \in stored
               PROVE  LET p == published[r]
                          h == history[r] IN
                      /\ Len(h) <= Len(p) /\ h = SubSeq(p, Len(p) - Len(h) + 1, Len(p))
                      /\ MaxEvents >= 0 => Len(h) <= MaxEvents
                      /\ ~HasTTL => \/ Len(h) = Len(p)
                                    \/ MaxEvents >= 0 /\ Len(h) = MaxEvents
    BY DEF HistoryIsTail
  <2>1. TailOf(history[r], published[r])
    BY DEF TailInv
  <2>2. MaxEvents \in Int /\ (MaxEvents >= 0 <=> MaxEvents > 0)
    BY StreamsAssumption
  <2>3. QED
    BY <2>1, <2>2 DEF TailOf, LimitInv
<1>4. QED
  BY <1>1, <1>2, <1>3, PTL DEF Spec

-----------------------------------------------------------------------------
(* The loop's callbacks: one more at the end, or one less at the front *)

LEMMA ReadyGrows ==
    ASSUME TypeOK, NEW cb \in Callbacks, ready' = Append(ready, cb)
    PROVE  /\ Len(ready) \in Nat /\ DOMAIN ready = 1 .. Len(ready)
           /\ DOMAIN ready' = 1 .. Len(ready) + 1
           /\ ready'[Len(ready) + 1] = cb
           /\ \A i \in 1 .. Len(ready) : ready'[i] = ready[i]
<1>1. ready \in Seq(Callbacks)
  BY DEF TypeOK
<1>2. QED
  BY <1>1

LEMMA ReadyShrinks ==
    ASSUME TypeOK, ready # <<>>, ready' = Tail(ready)
    PROVE  /\ Len(ready) \in Nat \ {0} /\ DOMAIN ready = 1 .. Len(ready)
           /\ DOMAIN ready' = 1 .. Len(ready) - 1
           /\ \A i \in 1 .. Len(ready) - 1 : i + 1 \in DOMAIN ready /\ ready'[i] = ready[i + 1]
           /\ \A i \in DOMAIN ready : i = 1 \/ (i - 1 \in DOMAIN ready' /\ ready'[i - 1] = ready[i])
<1>1. ready \in Seq(Callbacks)
  BY DEF TypeOK
<1>2. /\ Len(ready) \in Nat \ {0} /\ DOMAIN ready = 1 .. Len(ready)
      /\ DOMAIN ready' = 1 .. Len(ready) - 1
      /\ \A i \in 1 .. Len(ready) - 1 : ready'[i] = ready[i + 1]
  BY <1>1
<1>3. \A i \in 1 .. Len(ready) - 1 : i + 1 \in DOMAIN ready
  BY <1>2
<1>4. ASSUME NEW i \in DOMAIN ready, i # 1
      PROVE  i - 1 \in DOMAIN ready' /\ ready'[i - 1] = ready[i]
  <2>1. i - 1 \in 1 .. Len(ready) - 1 /\ (i - 1) + 1 = i
    BY <1>2, <1>4
  <2>2. ready'[i - 1] = ready[(i - 1) + 1]
    BY <1>2, <2>1
  <2>3. QED
    BY <1>2, <2>1, <2>2
<1>5. QED
  BY <1>2, <1>3, <1>4

-----------------------------------------------------------------------------
(* Who subscribes *)

(* Steps that add no subscriber. *)
LEMMA SubscribersLeave ==
    ASSUME SubscriberInv, stored' \subseteq stored,
           \A x \in Runs : subscribers'[x] \subseteq subscribers[x],
           \A x \in Runs : x \in stored /\ x \notin stored' => subscribers'[x] = {},
           \A x \in Runs : \A d \in subscribers'[x] :
               phase'[d] = phase[d] \/ phase'[d] \notin {"new", "closed"}
    PROVE  SubscriberInv'
<1>1. \A x \in Runs \ stored' : subscribers'[x] = {}
  BY DEF SubscriberInv
<1>2. \A x \in Runs : \A d \in subscribers'[x] :
          follows[d] = x /\ phase'[d] \notin {"new", "closed"}
  BY DEF SubscriberInv
<1>3. QED
  BY <1>1, <1>2 DEF SubscriberInv

LEMMA EmitSubscribers ==
    ASSUME SubscriberInv, NEW r, NEW e, NEW counter, NEW S \in SUBSET Runs,
           PublishAndPop(r, e, counter, S), phase' = phase
    PROVE  SubscriberInv'
<1>1. /\ subscribers' = [x \in Runs |-> IF x \in S THEN {} ELSE subscribers[x]]
      /\ stored' = stored \ S
  BY DEF PublishAndPop
<1>2. QED
  BY <1>1, SubscribersLeave

(* A client leaves the run it follows. *)
LEMMA OneLess ==
    ASSUME TypeOK, SubscriberInv, NEW c \in Clients, subscribers' = Unsubscribed(c),
           stored' = stored, \A d \in Clients \ {c} : phase'[d] = phase[d]
    PROVE  SubscriberInv'
<1>1. subscribers \in [Runs -> SUBSET Clients] /\ follows[c] \in Runs
  BY StreamsAssumption DEF TypeOK
<1>2. subscribers' = [subscribers EXCEPT ![follows[c]] = @ \ {c}]
  BY DEF Unsubscribed
<1>3. \A x \in Runs : subscribers'[x] \subseteq subscribers[x] /\ c \notin subscribers'[x]
  BY <1>1, <1>2 DEF SubscriberInv
<1>4. QED
  BY <1>1, <1>3, SubscribersLeave

LEMMA SubscriberStep ==
    ASSUME TypeOK, SubscriberInv, [Next]_vars
    PROVE  SubscriberInv'
<1>0. stored \subseteq Runs /\ subscribers \in [Runs -> SUBSET Clients] /\ {} \in SUBSET Runs
      /\ phase \in [Clients -> Phases]
  BY DEF TypeOK
<1>1. ASSUME NEW r \in Runs, RunStep(r)
      PROVE  SubscriberInv'
  <2>1. CASE Begin(r)
    BY <1>0, <2>1, EmitSubscribers DEF Begin, EmitAndPop, clientVars
  <2>2. CASE Note(r)
    BY <1>0, <2>2, EmitSubscribers DEF Note, EmitAndPop, clientVars
  <2>3. CASE End(r)
    <3>1. PICK S \in SUBSET {x \in stored : x = r \/ state[x] = "ended"} : EmitAndPop(r, TRUE, S)
      BY <2>3 DEF End
    <3>2. S \in SUBSET Runs /\ phase' = phase
      BY <1>0, <2>3 DEF End, clientVars
    <3>3. QED
      BY <3>1, <3>2, EmitSubscribers DEF EmitAndPop
  <2>4. CASE CancelPending(r)
    BY <1>0, <2>4, EmitSubscribers DEF CancelPending, EmitAndPop, clientVars
  <2>5. CASE PopRun(r)
    <3>1. /\ stored' = stored \ {r} /\ subscribers' = [subscribers EXCEPT ![r] = {}]
          /\ phase' = phase
      BY <2>5 DEF PopRun, clientVars
    <3>2. QED
      BY <1>0, <3>1, SubscribersLeave
  <2>6. QED
    BY <1>1, <2>1, <2>2, <2>3, <2>4, <2>5 DEF RunStep
<1>2. ASSUME UNCHANGED <<stored, subscribers, phase>>
      PROVE  SubscriberInv'
  BY <1>2 DEF SubscriberInv
<1>3. ASSUME NEW t \in Threads, ThreadStep(t)
      PROVE  SubscriberInv'
  BY <1>2, <1>3 DEF ThreadStep, Draw, Post, Return, runVars, busVars, clientVars
<1>4. ASSUME RunCallback
      PROVE  SubscriberInv'
  <2> DEFINE cb == Head(ready)
  <2>1. CASE cb.do = "publish" /\ PublishAndPop(cb.for, cb.event, seq, {}) /\ phase' = phase
    BY <1>0, <2>1, EmitSubscribers
  <2>2. CASE UNCHANGED <<stored, subscribers, phase>>
    BY <1>2, <2>2
  <2>3. CASE /\ cb.do = "cancel" /\ subscribers' = Unsubscribed(cb.for) /\ stored' = stored
             /\ phase' = [phase EXCEPT ![cb.for] = IF @ = "closed" THEN @ ELSE "cancelled"]
    <3>1. cb.for \in Clients
      BY <1>4, <2>3, HeadFacts DEF RunCallback, Clients
    <3> HIDE DEF cb
    <3>2. \A d \in Clients \ {cb.for} : phase'[d] = phase[d]
      BY <1>0, <2>3
    <3>3. QED
      BY <2>3, <3>1, <3>2, OneLess
  <2>4. QED
    BY <1>4, <2>1, <2>2, <2>3 DEF RunCallback, runVars, busVars, clientVars
<1>5. ASSUME NEW c \in Clients, ClientStep(c)
      PROVE  SubscriberInv'
  <2>0. stored' = stored
    BY <1>5 DEF ClientStep, Subscribe, Receive, Leave, Watch, Watched, Unwatch,
                Unregister, runVars
  <2>1. CASE Subscribe(c)
    <3>1. /\ follows[c] \in stored /\ phase'[c] \in {"open", "failed"}
          /\ \A d \in Clients \ {c} : phase'[d] = phase[d]
          /\ subscribers' = [subscribers EXCEPT ![follows[c]] = @ \cup {c}]
      BY <1>0, <2>1 DEF Subscribe
    <3>2. \A x \in Runs \ {follows[c]} : subscribers'[x] = subscribers[x]
      BY <1>0, <3>1
    <3>3. subscribers'[follows[c]] = subscribers[follows[c]] \cup {c}
      BY <1>0, <3>1
    <3>4. \A x \in Runs \ stored' : subscribers'[x] = {}
      BY <2>0, <3>1, <3>2 DEF SubscriberInv
    <3>5. ASSUME NEW x \in Runs, NEW d \in subscribers'[x]
          PROVE  follows[d] = x /\ phase'[d] \notin {"new", "closed"}
      <4>1. d \in subscribers[x] \/ (x = follows[c] /\ d = c)
        BY <3>2, <3>3
      <4>2. d \in Clients
        BY <1>0, <4>1
      <4>3. CASE d = c
        BY <3>1, <4>1, <4>3 DEF SubscriberInv
      <4>4. CASE d # c
        BY <3>1, <4>1, <4>2, <4>4 DEF SubscriberInv
      <4>5. QED
        BY <4>3, <4>4
    <3>6. QED
      BY <3>4, <3>5 DEF SubscriberInv
  <2>2. CASE Receive(c)
    <3>1. CASE Head(queue[c]).end
      <4>1. subscribers' = Unsubscribed(c) /\ \A d \in Clients \ {c} : phase'[d] = phase[d]
        BY <1>0, <2>2, <3>1 DEF Receive
      <4>2. QED
        BY <2>0, <4>1, OneLess
    <3>2. CASE ~Head(queue[c]).end
      <4>1. subscribers' = subscribers /\ phase' = [phase EXCEPT ![c] = "open"]
        BY <2>2, <3>2 DEF Receive
      <4>2. \A d \in Clients : phase'[d] = phase[d] \/ phase'[d] = "open"
        BY <1>0, <4>1
      <4>3. QED
        BY <1>0, <2>0, <4>1, <4>2, SubscribersLeave
    <3>3. QED
      BY <3>1, <3>2
  <2>3. CASE Leave(c) \/ Unwatch(c)
    <3>1. subscribers' = Unsubscribed(c) /\ \A d \in Clients \ {c} : phase'[d] = phase[d]
      BY <1>0, <2>3 DEF Leave, Unwatch
    <3>2. QED
      BY <2>0, <3>1, OneLess
  <2>4. CASE Watch(c) \/ Watched(c)
    <3>1. /\ subscribers' = subscribers
          /\ \A d \in Clients : phase'[d] = phase[d] \/ phase'[d] \in {"on_event", "on_done", "open"}
      BY <1>0, <2>4 DEF Watch, Watched, busVars
    <3>2. QED
      BY <1>0, <2>0, <3>1, SubscribersLeave
  <2>5. CASE Unregister(c)
    BY <1>2, <2>5 DEF Unregister, runVars, busVars
  <2>6. QED
    BY <1>5, <2>1, <2>2, <2>3, <2>4, <2>5 DEF ClientStep
<1>6. CASE UNCHANGED vars
  BY <1>2, <1>6 DEF vars, runVars, busVars, clientVars
<1>7. QED
  BY <1>1, <1>3, <1>4, <1>5, <1>6 DEF Next, Finished

-----------------------------------------------------------------------------
(* Watchers *)

LEMMA WatchKept ==
    ASSUME WatchInv, UNCHANGED <<phase, registered, ready>>
    PROVE  WatchInv'
<1>1. \A i, w : Cancels(i, w)' <=> Cancels(i, w)
  BY DEF Cancels
<1>2. QED
  BY <1>1 DEF WatchInv

(* Another callback waits; if it is a cancellation, its watcher has left.   *)
LEMMA WatchGrows ==
    ASSUME TypeOK, WatchInv, phase' = phase, NEW cb \in Callbacks, ready' = Append(ready, cb),
           \/ cb.do # "cancel" /\ registered' = registered
           \/ /\ cb.do = "cancel" /\ cb.for \in registered
              /\ registered' = registered \ {cb.for}
    PROVE  WatchInv'
<1> DEFINE last == Len(ready) + 1
<1>1. /\ Len(ready) \in Nat /\ DOMAIN ready = 1 .. Len(ready)
      /\ DOMAIN ready' = 1 .. last /\ ready'[last] = cb
      /\ \A i \in 1 .. Len(ready) : ready'[i] = ready[i]
  BY ReadyGrows
<1>2. registered' \subseteq registered /\ last \in DOMAIN ready'
      /\ \A i \in DOMAIN ready : i \in DOMAIN ready'
  BY <1>1
<1>3. \A i \in DOMAIN ready : \A w : Cancels(i, w)' <=> Cancels(i, w)
  BY <1>1 DEF Cancels
<1>4. \A i, w : i = last => (Cancels(i, w)' <=> cb.do = "cancel" /\ w = cb.for)
  BY <1>1 DEF Cancels
<1>5. \A i \in DOMAIN ready' : i \in DOMAIN ready \/ i = last
  BY <1>1
<1> HIDE DEF last
<1>6. \A w \in registered' : phase'[w] \notin {"new", "closed", "cancelled"}
  BY <1>2 DEF WatchInv
<1>7. ASSUME NEW w \in Watchers, NEW i \in DOMAIN ready', Cancels(i, w)'
      PROVE  w \notin registered' /\ phase'[w] # "new"
  <2>1. CASE i \in DOMAIN ready
    BY <1>2, <1>3, <1>7, <2>1 DEF WatchInv
  <2>2. CASE i = last
    <3>1. cb.do = "cancel" /\ w = cb.for
      BY <1>4, <1>7, <2>2
    <3>2. QED
      BY <3>1 DEF WatchInv
  <2>3. QED
    BY <1>5, <2>1, <2>2
<1>8. ASSUME NEW w \in Watchers \ registered'
      PROVE  \/ phase'[w] \in {"new", "closed", "cancelled"}
             \/ \E i \in DOMAIN ready' : Cancels(i, w)'
  <2>1. CASE w \notin registered
    BY <1>2, <1>3, <2>1 DEF WatchInv
  <2>2. CASE w \in registered
    <3>1. cb.do = "cancel" /\ w = cb.for
      BY <2>2
    <3>2. QED
      BY <1>2, <1>4, <3>1
  <2>3. QED
    BY <2>1, <2>2
<1>9. QED
  BY <1>6, <1>7, <1>8 DEF WatchInv

(* A callback has run; if it was a cancellation, its watcher is cancelled.  *)
LEMMA WatchShrinks ==
    ASSUME TypeOK, WatchInv, ready # <<>>, ready' = Tail(ready), registered' = registered,
           \/ ready[1].do # "cancel" /\ phase' = phase
           \/ /\ ready[1].do = "cancel"
              /\ phase' = [phase EXCEPT ![ready[1].for] = IF @ = "closed" THEN @ ELSE "cancelled"]
    PROVE  WatchInv'
<1>0. phase \in [Clients -> Phases] /\ registered \subseteq Watchers /\ Watchers \subseteq Clients
  BY DEF TypeOK, Clients
<1>1. /\ Len(ready) \in Nat \ {0} /\ DOMAIN ready = 1 .. Len(ready)
      /\ DOMAIN ready' = 1 .. Len(ready) - 1
      /\ \A i \in 1 .. Len(ready) - 1 : i + 1 \in DOMAIN ready /\ ready'[i] = ready[i + 1]
      /\ \A i \in DOMAIN ready : i = 1 \/ (i - 1 \in DOMAIN ready' /\ ready'[i - 1] = ready[i])
  BY ReadyShrinks
<1>2. 1 \in DOMAIN ready
  BY <1>1
<1>3. \A i \in DOMAIN ready' : \A w : i + 1 \in DOMAIN ready /\ (Cancels(i, w)' <=> Cancels(i + 1, w))
  BY <1>1 DEF Cancels
<1>4. \A i \in DOMAIN ready : \A w :
          Cancels(i, w) => i = 1 \/ (i - 1 \in DOMAIN ready' /\ Cancels(i - 1, w)')
  BY <1>1 DEF Cancels
<1>5. ASSUME NEW w \in Clients
      PROVE  \/ phase'[w] = phase[w]
             \/ phase'[w] = "cancelled" /\ Cancels(1, w)
             \/ phase'[w] = "closed" /\ Cancels(1, w)
  BY <1>0 DEF Cancels
<1>6. ASSUME NEW w \in registered'
      PROVE  phase'[w] \notin {"new", "closed", "cancelled"}
  <2>1. w \in Watchers /\ w \in registered
    BY <1>0, <1>6
  <2>2. ~Cancels(1, w) /\ phase[w] \notin {"new", "closed", "cancelled"}
    BY <1>2, <2>1 DEF WatchInv
  <2>3. QED
    BY <1>0, <1>5, <2>1, <2>2
<1>7. ASSUME NEW w \in Watchers, NEW i \in DOMAIN ready', Cancels(i, w)'
      PROVE  w \notin registered' /\ phase'[w] # "new"
  <2>1. w \notin registered /\ phase[w] # "new"
    BY <1>3, <1>7 DEF WatchInv
  <2>2. QED
    BY <1>0, <1>5, <2>1
<1>8. ASSUME NEW w \in Watchers \ registered'
      PROVE  \/ phase'[w] \in {"new", "closed", "cancelled"}
             \/ \E i \in DOMAIN ready' : Cancels(i, w)'
  <2>1. \/ phase[w] \in {"new", "closed", "cancelled"}
        \/ \E i \in DOMAIN ready : Cancels(i, w)
    BY DEF WatchInv
  <2>2. CASE phase[w] \in {"new", "closed", "cancelled"}
    BY <1>0, <1>5, <2>2
  <2>3. CASE Cancels(1, w)
    <3>1. phase'[w] = IF phase[w] = "closed" THEN "closed" ELSE "cancelled"
      BY <1>0, <2>3 DEF Cancels
    <3>2. QED
      BY <3>1
  <2>4. CASE \E i \in DOMAIN ready : i # 1 /\ Cancels(i, w)
    BY <1>4, <2>4
  <2>5. QED
    BY <2>1, <2>2, <2>3, <2>4
<1>9. QED
  BY <1>6, <1>7, <1>8 DEF WatchInv

(* A client moves on; it may register or, when it is over, leave.           *)
LEMMA WatchMoves ==
    ASSUME WatchInv, registered \subseteq Watchers, NEW c, ready' = ready,
           \A w \in Watchers \ {c} : phase'[w] = phase[w] /\ (w \in registered' <=> w \in registered),
           registered' \subseteq Watchers,
           c \in Watchers =>
               \/ phase[c] = "new" /\ c \in registered' /\ phase'[c] \in {"open", "failed"}
               \/ /\ phase[c] \notin {"new", "closed", "cancelled"}
                  /\ phase'[c] \notin {"new", "closed", "cancelled"}
                  /\ c \in registered' <=> c \in registered
               \/ phase'[c] = "closed" /\ c \notin registered'
    PROVE  WatchInv'
<1>1. \A i, w : Cancels(i, w)' <=> Cancels(i, w)
  BY DEF Cancels
<1>2. \A w \in registered' : phase'[w] \notin {"new", "closed", "cancelled"}
  BY DEF WatchInv
<1>3. ASSUME NEW w \in Watchers, NEW i \in DOMAIN ready', Cancels(i, w)'
      PROVE  w \notin registered' /\ phase'[w] # "new"
  <2>1. w \notin registered /\ phase[w] # "new"
    BY <1>1, <1>3 DEF WatchInv
  <2>2. QED
    BY <2>1
<1>4. ASSUME NEW w \in Watchers \ registered'
      PROVE  \/ phase'[w] \in {"new", "closed", "cancelled"}
             \/ \E i \in DOMAIN ready' : Cancels(i, w)'
  <2>1. w \notin registered => \/ phase[w] \in {"new", "closed", "cancelled"}
                               \/ \E i \in DOMAIN ready : Cancels(i, w)
    BY DEF WatchInv
  <2>2. QED
    BY <1>1, <2>1
<1>5. QED
  BY <1>2, <1>3, <1>4 DEF WatchInv

LEMMA WatchStep ==
    ASSUME TypeOK, WatchInv, [Next]_vars
    PROVE  WatchInv'
<1>0. /\ phase \in [Clients -> Phases] /\ registered \subseteq Watchers
      /\ Watchers \subseteq Clients /\ Streams \cap Watchers = {} /\ HandlerThreads \subseteq Threads
      /\ writes_to \in [Threads -> Runs] /\ drawn \in [Threads -> Nat]
  BY StreamsAssumption DEF TypeOK, Clients
<1>1. ASSUME NEW r \in Runs, RunStep(r)
      PROVE  WatchInv'
  BY <1>1, WatchKept DEF RunStep, Begin, Note, End, CancelPending, PopRun, clientVars
<1>2. ASSUME NEW t \in Threads, ThreadStep(t)
      PROVE  WatchInv'
  <2>1. CASE Draw(t)
    BY <2>1, WatchKept DEF Draw, clientVars
  <2>2. CASE Post(t)
    <3> DEFINE cb == [do |-> "publish", for |-> writes_to[t], event |-> Event(drawn[t], FALSE)]
    <3>1. ready' = Append(ready, cb) /\ phase' = phase /\ registered' = registered
      BY <2>2 DEF Post, clientVars
    <3>2. cb \in Callbacks
      BY <1>0 DEF Callbacks, Events, Event
    <3>3. cb.do # "cancel"
      OBVIOUS
    <3> HIDE DEF cb
    <3>4. QED
      BY <3>1, <3>2, <3>3, WatchGrows
  <2>3. CASE Return(t)
    <3> DEFINE cb == [do |-> "join", for |-> t]
    <3>1. ready' = Append(ready, cb) /\ phase' = phase /\ registered' = registered
      BY <2>3 DEF Return, clientVars
    <3>2. cb \in Callbacks
      BY <2>3 DEF Callbacks, Return
    <3>3. cb.do # "cancel"
      OBVIOUS
    <3> HIDE DEF cb
    <3>4. QED
      BY <3>1, <3>2, <3>3, WatchGrows
  <2>4. QED
    BY <1>2, <2>1, <2>2, <2>3 DEF ThreadStep
<1>3. ASSUME RunCallback
      PROVE  WatchInv'
  <2>1. ready # <<>> /\ ready' = Tail(ready) /\ registered' = registered /\ Head(ready) = ready[1]
    BY <1>3, HeadFacts DEF RunCallback, clientVars
  <2>2. \/ ready[1].do # "cancel" /\ phase' = phase
        \/ /\ ready[1].do = "cancel"
           /\ phase' = [phase EXCEPT ![ready[1].for] = IF @ = "closed" THEN @ ELSE "cancelled"]
    BY <1>3, <2>1 DEF RunCallback, clientVars
  <2>3. QED
    BY <2>1, <2>2, WatchShrinks
<1>4. ASSUME NEW c \in Clients, ClientStep(c)
      PROVE  WatchInv'
  <2>1. CASE Subscribe(c)
    <3>1. /\ ready' = ready /\ phase[c] = "new" /\ phase'[c] \in {"open", "failed"}
          /\ registered' = registered \cup ({c} \cap Watchers)
          /\ \A w \in Clients \ {c} : phase'[w] = phase[w]
      BY <1>0, <2>1 DEF Subscribe, Registered
    <3>2. QED
      BY <1>0, <3>1, WatchMoves
  <2>2. CASE Receive(c) \/ Leave(c)
    <3>1. /\ ready' = ready /\ c \notin Watchers /\ registered' = registered
          /\ \A w \in Clients \ {c} : phase'[w] = phase[w]
      BY <1>0, <2>2 DEF Receive, Leave
    <3>2. QED
      BY <1>0, <3>1, WatchMoves
  <2>3. CASE Watch(c) \/ Watched(c)
    <3>1. /\ ready' = ready /\ registered' = registered /\ phase[c] \in {"open", "on_event"}
          /\ phase'[c] \in {"on_event", "on_done", "open"}
          /\ \A w \in Clients \ {c} : phase'[w] = phase[w]
      BY <1>0, <2>3 DEF Watch, Watched, Taken
    <3>2. QED
      BY <1>0, <3>1, WatchMoves
  <2>4. CASE Unwatch(c)
    <3>1. /\ ready' = ready /\ registered' = registered \ {c} /\ phase'[c] = "closed"
          /\ \A w \in Clients \ {c} : phase'[w] = phase[w]
      BY <1>0, <2>4 DEF Unwatch
    <3>2. QED
      BY <1>0, <3>1, WatchMoves
  <2>5. CASE Unregister(c)
    <3> DEFINE cb == [do |-> "cancel", for |-> c]
    <3>1. /\ c \in registered /\ registered' = registered \ {c} /\ phase' = phase
          /\ ready' = Append(ready, cb)
      BY <2>5 DEF Unregister
    <3>2. cb \in Callbacks /\ cb.do = "cancel" /\ cb.for = c
      BY <1>0, <3>1 DEF Callbacks
    <3> HIDE DEF cb
    <3>3. QED
      BY <3>1, <3>2, WatchGrows
  <2>6. QED
    BY <1>4, <2>1, <2>2, <2>3, <2>4, <2>5 DEF ClientStep
<1>5. CASE UNCHANGED vars
  BY <1>5, WatchKept DEF vars, clientVars
<1>6. QED
  BY <1>1, <1>2, <1>3, <1>4, <1>5 DEF Next, Finished

-----------------------------------------------------------------------------
(* Threads: what they hand over is delivered before the run can end *)

StateOfThreads ==
    \A t \in Threads :
        /\ state[writes_to[t]] = "pending" => tpc[t] = "unborn"
        /\ state[writes_to[t]] = "ended" => tpc[t] \in {"unborn", "joined"}

(* No callback comes or goes; threads are born or draw a number.            *)
LEMMA FlightKept ==
    ASSUME FlightInv, ready' = ready, StateOfThreads',
           \A t \in Threads : \/ tpc'[t] = tpc[t]
                              \/ tpc[t] = "unborn" /\ tpc'[t] = "idle"
                              \/ tpc[t] = "idle" /\ tpc'[t] = "drawn"
    PROVE  FlightInv'
<1>1. /\ \A i, r : Publishes(i, r)' <=> Publishes(i, r)
      /\ \A i, t : Joins(i, t)' <=> Joins(i, t)
  BY DEF Publishes, Joins
<1>2. ASSUME NEW i, NEW t \in Threads, Awaited(i, t)
      PROVE  Awaited(i, t)'
  BY <1>1, <1>2 DEF Awaited
<1>3. \A i \in DOMAIN ready', r \in Runs :
          Publishes(i, r)' => \E t \in Threads : writes_to[t] = r /\ Awaited(i, t)'
  BY <1>1, <1>2 DEF FlightInv
<1>4. \A i \in DOMAIN ready', t \in Threads : Joins(i, t)' => tpc'[t] = "returned"
  BY <1>1 DEF FlightInv
<1>5. \A i, j \in DOMAIN ready', t \in Threads : Joins(i, t)' /\ Joins(j, t)' => i = j
  BY <1>1 DEF FlightInv
<1>6. QED
  BY <1>3, <1>4, <1>5 DEF FlightInv, StateOfThreads

(* Another callback waits: an event that a thread hands over before it goes  *)
(* on, the return of a handler, or a cancellation.                          *)
LEMMA FlightGrows ==
    ASSUME TypeOK, FlightInv, NEW cb \in Callbacks, ready' = Append(ready, cb),
           StateOfThreads', NEW u,
           \A t \in Threads \ {u} : tpc'[t] = tpc[t],
           \/ cb.do = "cancel" /\ tpc' = tpc
           \/ /\ cb.do = "publish" /\ u \in Threads /\ cb.for = writes_to[u]
              /\ tpc[u] = "drawn" /\ tpc'[u] = "idle"
           \/ /\ cb.do = "join" /\ u \in Threads /\ cb.for = u
              /\ tpc[u] = "idle" /\ tpc'[u] = "returned"
    PROVE  FlightInv'
<1> DEFINE last == Len(ready) + 1
<1>1. /\ Len(ready) \in Nat /\ DOMAIN ready = 1 .. Len(ready)
      /\ DOMAIN ready' = 1 .. last /\ ready'[last] = cb
      /\ \A i \in 1 .. Len(ready) : ready'[i] = ready[i]
  BY ReadyGrows
<1>2. /\ \A i \in DOMAIN ready : \A r : Publishes(i, r)' <=> Publishes(i, r)
      /\ \A i \in DOMAIN ready : \A t : Joins(i, t)' <=> Joins(i, t)
  BY <1>1 DEF Publishes, Joins
<1>3. /\ \A i, r : i = last => (Publishes(i, r)' <=> cb.do = "publish" /\ cb.for = r)
      /\ \A i, t : i = last => (Joins(i, t)' <=> cb.do = "join" /\ cb.for = t)
  BY <1>1 DEF Publishes, Joins
<1>4. /\ last \in DOMAIN ready' /\ \A i \in DOMAIN ready : i \in DOMAIN ready' /\ i < last
      /\ \A i \in DOMAIN ready' : i \in DOMAIN ready \/ i = last
  BY <1>1
<1> HIDE DEF last
<1>5. ASSUME NEW i \in DOMAIN ready, NEW t \in Threads, Awaited(i, t)
      PROVE  Awaited(i, t)'
  <2>1. CASE tpc'[t] \in {"idle", "drawn"}
    BY <2>1 DEF Awaited
  <2>2. CASE tpc[t] = "returned" /\ tpc'[t] = "returned"
    <3>1. PICK j \in DOMAIN ready : i < j /\ Joins(j, t)
      BY <1>5, <2>2 DEF Awaited
    <3>2. QED
      BY <1>2, <1>4, <2>2, <3>1 DEF Awaited
  <2>3. CASE tpc[t] = "idle" /\ tpc'[t] = "returned" /\ cb.do = "join" /\ cb.for = t
    BY <1>3, <1>4, <2>3 DEF Awaited
  <2>4. QED
    BY <1>5, <2>1, <2>2, <2>3 DEF Awaited
<1>6. ASSUME NEW i \in DOMAIN ready', NEW r \in Runs, Publishes(i, r)'
      PROVE  \E t \in Threads : writes_to[t] = r /\ Awaited(i, t)'
  <2>1. CASE i \in DOMAIN ready
    <3>1. PICK t \in Threads : writes_to[t] = r /\ Awaited(i, t)
      BY <1>2, <1>6, <2>1 DEF FlightInv
    <3>2. QED
      BY <1>5, <2>1, <3>1
  <2>2. CASE i = last
    <3>1. cb.do = "publish" /\ cb.for = r
      BY <1>3, <1>6, <2>2
    <3>2. u \in Threads /\ writes_to[u] = r /\ tpc'[u] = "idle"
      BY <3>1
    <3>3. QED
      BY <3>2 DEF Awaited
  <2>3. QED
    BY <1>4, <2>1, <2>2
<1>7. ASSUME NEW i \in DOMAIN ready, NEW t \in Threads, Joins(i, t)'
      PROVE  tpc[t] = "returned" /\ tpc'[t] = "returned" /\ ~(cb.do = "join" /\ cb.for = t)
  <2>1. tpc[t] = "returned"
    BY <1>2, <1>7 DEF FlightInv
  <2>2. QED
    BY <2>1
<1>8. \A i \in DOMAIN ready', t \in Threads : Joins(i, t)' => tpc'[t] = "returned"
  BY <1>3, <1>4, <1>7
<1>9. ASSUME NEW i \in DOMAIN ready', NEW j \in DOMAIN ready', NEW t \in Threads,
             Joins(i, t)', Joins(j, t)'
      PROVE  i = j
  <2>1. CASE i \in DOMAIN ready /\ j \in DOMAIN ready
    BY <1>2, <1>9, <2>1 DEF FlightInv
  <2>2. CASE i = last
    BY <1>3, <1>4, <1>7, <1>9, <2>2
  <2>3. CASE j = last
    BY <1>3, <1>4, <1>7, <1>9, <2>3
  <2>4. QED
    BY <1>4, <2>1, <2>2, <2>3
<1>10. QED
  BY <1>6, <1>8, <1>9 DEF FlightInv, StateOfThreads

(* The first callback has run; if it was a return, the thread is joined.     *)
LEMMA FlightShrinks ==
    ASSUME TypeOK, FlightInv, ready # <<>>, ready' = Tail(ready), state' = state,
           \/ ready[1].do # "join" /\ tpc' = tpc
           \/ ready[1].do = "join" /\ tpc' = [tpc EXCEPT ![ready[1].for] = "joined"]
    PROVE  FlightInv'
<1>0. tpc \in [Threads -> {"unborn", "idle", "drawn", "returned", "joined"}]
  BY DEF TypeOK
<1>1. /\ Len(ready) \in Nat \ {0} /\ DOMAIN ready = 1 .. Len(ready)
      /\ DOMAIN ready' = 1 .. Len(ready) - 1
      /\ \A i \in 1 .. Len(ready) - 1 : i + 1 \in DOMAIN ready /\ ready'[i] = ready[i + 1]
      /\ \A i \in DOMAIN ready : i = 1 \/ (i - 1 \in DOMAIN ready' /\ ready'[i - 1] = ready[i])
  BY ReadyShrinks
<1>2. 1 \in DOMAIN ready
  BY <1>1
<1>3. \A i \in DOMAIN ready' : i + 1 \in DOMAIN ready /\ i + 1 # 1
  BY <1>1
<1>4. \A i \in DOMAIN ready' : \A r : Publishes(i, r)' <=> Publishes(i + 1, r)
  BY <1>1 DEF Publishes
<1>5. \A i \in DOMAIN ready' : \A t : Joins(i, t)' <=> Joins(i + 1, t)
  BY <1>1 DEF Joins
<1>6. \A t \in Threads : tpc'[t] = tpc[t] \/ (Joins(1, t) /\ tpc'[t] = "joined")
  BY <1>0 DEF Joins
<1>7. \A i \in DOMAIN ready, t \in Threads : Joins(i, t) /\ Joins(1, t) => i = 1
  BY <1>2 DEF FlightInv
<1>8. ASSUME NEW i \in DOMAIN ready', NEW t \in Threads, Awaited(i + 1, t)
      PROVE  Awaited(i, t)'
  <2>1. ~Joins(1, t) \/ tpc[t] = "returned"
    BY <1>2 DEF FlightInv
  <2>2. CASE tpc[t] \in {"idle", "drawn"}
    BY <1>6, <2>1, <2>2 DEF Awaited
  <2>3. CASE tpc[t] = "returned"
    <3>1. PICK j \in DOMAIN ready : i + 1 < j /\ Joins(j, t)
      BY <1>8, <2>3 DEF Awaited
    <3>2. j # 1 /\ j - 1 \in DOMAIN ready' /\ i < j - 1 /\ (j - 1) + 1 = j
      BY <1>1, <3>1
    <3>3. Joins(j - 1, t)'
      BY <1>5, <3>1, <3>2
    <3>4. tpc'[t] = "returned"
      BY <1>6, <1>7, <2>3, <3>1, <3>2
    <3>5. QED
      BY <3>2, <3>3, <3>4 DEF Awaited
  <2>4. QED
    BY <1>8, <2>2, <2>3 DEF Awaited
<1>9. ASSUME NEW i \in DOMAIN ready', NEW r \in Runs, Publishes(i, r)'
      PROVE  \E t \in Threads : writes_to[t] = r /\ Awaited(i, t)'
  <2>1. PICK t \in Threads : writes_to[t] = r /\ Awaited(i + 1, t)
    BY <1>3, <1>4, <1>9 DEF FlightInv
  <2>2. QED
    BY <1>8, <2>1
<1>10. ASSUME NEW i \in DOMAIN ready', NEW t \in Threads, Joins(i, t)'
       PROVE  tpc'[t] = "returned"
  <2>1. Joins(i + 1, t) /\ tpc[t] = "returned" /\ i + 1 # 1
    BY <1>3, <1>5, <1>10 DEF FlightInv
  <2>2. ~Joins(1, t)
    BY <1>3, <1>7, <2>1
  <2>3. QED
    BY <1>6, <2>1, <2>2
<1>11. ASSUME NEW i \in DOMAIN ready', NEW j \in DOMAIN ready', NEW t \in Threads,
              Joins(i, t)', Joins(j, t)'
       PROVE  i = j
  <2>1. i + 1 = j + 1
    BY <1>3, <1>5, <1>11 DEF FlightInv
  <2>2. i \in Int /\ j \in Int
    BY <1>1
  <2>3. QED
    BY <2>1, <2>2
<1>12. ASSUME NEW t \in Threads
       PROVE  /\ state'[writes_to[t]] = "pending" => tpc'[t] = "unborn"
              /\ state'[writes_to[t]] = "ended" => tpc'[t] \in {"unborn", "joined"}
  <2>1. Joins(1, t) => tpc[t] = "returned"
    BY <1>2 DEF FlightInv
  <2>2. QED
    BY <1>6, <2>1 DEF FlightInv
<1>13. QED
  BY <1>9, <1>10, <1>11, <1>12 DEF FlightInv

LEMMA FlightStep ==
    ASSUME ThreadsJoined, TypeOK, FlightInv, [Next]_vars
    PROVE  FlightInv'
<1>0. /\ state \in [Runs -> {"pending", "running", "ended"}]
      /\ tpc \in [Threads -> {"unborn", "idle", "drawn", "returned", "joined"}]
      /\ writes_to \in [Threads -> Runs] /\ drawn \in [Threads -> Nat]
      /\ registered \subseteq Watchers /\ HandlerThreads \subseteq Threads
  BY StreamsAssumption DEF TypeOK
<1>1. ASSUME UNCHANGED <<state, tpc, ready>>
      PROVE  FlightInv'
  <2>1. StateOfThreads'
    BY <1>1 DEF FlightInv, StateOfThreads
  <2>2. QED
    BY <1>1, <2>1, FlightKept
<1>2. ASSUME NEW r \in Runs, RunStep(r)
      PROVE  FlightInv'
  <2>1. CASE Begin(r)
    <3>1. /\ state[r] = "pending" /\ state' = [state EXCEPT ![r] = "running"]
          /\ tpc' = [t \in Threads |-> IF writes_to[t] = r THEN "idle" ELSE tpc[t]]
          /\ ready' = ready
      BY <2>1 DEF Begin
    <3>2. \A t \in Threads : IF writes_to[t] = r
                             THEN tpc[t] = "unborn" /\ tpc'[t] = "idle" ELSE tpc'[t] = tpc[t]
      BY <3>1 DEF FlightInv
    <3>3. StateOfThreads'
      BY <1>0, <3>1, <3>2 DEF FlightInv, StateOfThreads
    <3>4. QED
      BY <3>1, <3>2, <3>3, FlightKept
  <2>2. CASE Note(r) \/ PopRun(r)
    BY <1>1, <2>2 DEF Note, PopRun, threadVars
  <2>3. CASE End(r)
    <3>1. /\ state' = [state EXCEPT ![r] = "ended"] /\ tpc' = tpc /\ ready' = ready
          /\ \A t \in Threads : writes_to[t] = r => tpc[t] = "joined"
      BY <2>3 DEF End, ThreadsJoined, threadVars
    <3>2. StateOfThreads'
      BY <1>0, <3>1 DEF FlightInv, StateOfThreads
    <3>3. QED
      BY <3>1, <3>2, FlightKept
  <2>4. CASE CancelPending(r)
    <3>1. /\ state[r] = "pending" /\ state' = [state EXCEPT ![r] = "ended"]
          /\ tpc' = tpc /\ ready' = ready
      BY <2>4 DEF CancelPending, threadVars
    <3>2. StateOfThreads'
      BY <1>0, <3>1 DEF FlightInv, StateOfThreads
    <3>3. QED
      BY <3>1, <3>2, FlightKept
  <2>5. QED
    BY <1>2, <2>1, <2>2, <2>3, <2>4 DEF RunStep
<1>3. ASSUME NEW t \in Threads, ThreadStep(t)
      PROVE  FlightInv'
  <2>0. state' = state
    BY <1>3 DEF ThreadStep, Draw, Post, Return, runVars
  <2>1. CASE Draw(t)
    <3>1. tpc[t] = "idle" /\ tpc' = [tpc EXCEPT ![t] = "drawn"] /\ ready' = ready
      BY <2>1 DEF Draw
    <3>2. StateOfThreads'
      BY <1>0, <2>0, <3>1 DEF FlightInv, StateOfThreads
    <3>3. QED
      BY <1>0, <3>1, <3>2, FlightKept
  <2>2. CASE Post(t)
    <3> DEFINE cb == [do |-> "publish", for |-> writes_to[t], event |-> Event(drawn[t], FALSE)]
    <3>1. ready' = Append(ready, cb) /\ tpc[t] = "drawn" /\ tpc' = [tpc EXCEPT ![t] = "idle"]
      BY <2>2 DEF Post
    <3>2. cb \in Callbacks /\ cb.do = "publish" /\ cb.for = writes_to[t]
      BY <1>0 DEF Callbacks, Events, Event
    <3> HIDE DEF cb
    <3>3. StateOfThreads'
      BY <1>0, <2>0, <3>1 DEF FlightInv, StateOfThreads
    <3>4. tpc'[t] = "idle" /\ \A u \in Threads \ {t} : tpc'[u] = tpc[u]
      BY <1>0, <3>1
    <3>5. QED
      BY <3>1, <3>2, <3>3, <3>4, FlightGrows
  <2>3. CASE Return(t)
    <3> DEFINE cb == [do |-> "join", for |-> t]
    <3>1. ready' = Append(ready, cb) /\ tpc[t] = "idle" /\ tpc' = [tpc EXCEPT ![t] = "returned"]
      BY <2>3 DEF Return
    <3>2. cb \in Callbacks /\ cb.do = "join" /\ cb.for = t
      BY <2>3 DEF Callbacks, Return
    <3> HIDE DEF cb
    <3>3. StateOfThreads'
      BY <1>0, <2>0, <3>1 DEF FlightInv, StateOfThreads
    <3>4. tpc'[t] = "returned" /\ \A u \in Threads \ {t} : tpc'[u] = tpc[u]
      BY <1>0, <3>1
    <3>5. QED
      BY <3>1, <3>2, <3>3, <3>4, FlightGrows
  <2>4. QED
    BY <1>3, <2>1, <2>2, <2>3 DEF ThreadStep
<1>4. ASSUME RunCallback
      PROVE  FlightInv'
  <2>1. ready # <<>> /\ ready' = Tail(ready) /\ state' = state /\ Head(ready) = ready[1]
    BY <1>4, HeadFacts DEF RunCallback, runVars
  <2>2. \/ ready[1].do # "join" /\ tpc' = tpc
        \/ ready[1].do = "join" /\ tpc' = [tpc EXCEPT ![ready[1].for] = "joined"]
    BY <1>4, <2>1 DEF RunCallback, threadVars
  <2>3. QED
    BY <2>1, <2>2, FlightShrinks
<1>5. ASSUME NEW c \in Clients, ClientStep(c)
      PROVE  FlightInv'
  <2>1. CASE Unregister(c)
    <3> DEFINE cb == [do |-> "cancel", for |-> c]
    <3>1. ready' = Append(ready, cb) /\ tpc' = tpc /\ state' = state
      BY <2>1 DEF Unregister, runVars, threadVars
    <3>2. cb \in Callbacks /\ cb.do = "cancel"
      BY <1>0, <2>1 DEF Callbacks, Unregister
    <3> HIDE DEF cb
    <3>3. StateOfThreads'
      BY <3>1 DEF FlightInv, StateOfThreads
    <3>4. QED
      BY <3>1, <3>2, <3>3, FlightGrows
  <2>2. CASE UNCHANGED <<state, tpc, ready>>
    BY <1>1, <2>2
  <2>3. QED
    BY <1>5, <2>1, <2>2 DEF ClientStep, Subscribe, Receive, Leave, Watch, Watched,
                            Unwatch, runVars, threadVars
<1>6. CASE UNCHANGED vars
  BY <1>1, <1>6 DEF vars, runVars, threadVars
<1>7. QED
  BY <1>2, <1>3, <1>4, <1>5, <1>6 DEF Next, Finished

-----------------------------------------------------------------------------
(* Runs that are out of the store *)

(* An event of a run that has not ended, and runs that are popped with it.  *)
LEMMA StorePublish ==
    ASSUME TypeOK, StoreInv, NEW r \in Runs, state[r] # "ended", NEW e,
           NEW counter \in [Runs -> Nat], \A x \in Runs \ {r} : counter[x] = seq[x],
           NEW S \in SUBSET Runs, PublishAndPop(r, e, counter, S),
           \A x \in Runs \ {r} : state'[x] = state[x] \/ state'[x] = "ended",
           \A x \in S : state'[x] = "ended"
    PROVE  StoreInv'
<1>1. \E old \in Nat :
          history' = [x \in Runs |->
             IF x \in S THEN <<>>
             ELSE IF x = r
                  THEN Pruned(Append(SubSeq(history[r], old + 1, Len(history[r])), e))
                  ELSE history[x]]
  <2>1. Len(history[r]) \in Nat
    BY DEF TypeOK
  <2>2. QED
    BY <2>1 DEF PublishAndPop
<1>2. /\ seq' = [x \in Runs |-> IF x \in S THEN 0 ELSE counter[x]]
      /\ stored' = stored \ S
  BY DEF PublishAndPop
<1>3. r \in stored \cup ImpatientRuns
  BY DEF StoreInv
<1> SUFFICES ASSUME NEW x \in Runs \ (stored' \cup ImpatientRuns)
             PROVE  state'[x] = "ended" /\ seq'[x] = 0 /\ history'[x] = <<>>
  BY DEF StoreInv
<1>4. CASE x \in S
  BY <1>1, <1>2, <1>4
<1>5. CASE x \notin S
  <2>1. x \in Runs \ (stored \cup ImpatientRuns) /\ x # r
    BY <1>2, <1>3, <1>5
  <2>2. state[x] = "ended" /\ seq[x] = 0 /\ history[x] = <<>>
    BY <2>1 DEF StoreInv
  <2>3. history'[x] = history[x] /\ seq'[x] = seq[x]
    BY <1>1, <1>2, <1>5, <2>1
  <2>4. QED
    BY <2>2, <2>3
<1>6. QED
  BY <1>4, <1>5

LEMMA StoreEmit ==
    ASSUME TypeOK, StoreInv, NEW r \in Runs, state[r] # "ended", NEW end \in BOOLEAN,
           NEW S \in SUBSET Runs, EmitAndPop(r, end, S),
           \A x \in Runs \ {r} : state'[x] = state[x] \/ state'[x] = "ended",
           \A x \in S : state'[x] = "ended"
    PROVE  StoreInv'
<1> DEFINE e == Event(seq[r] + 1, end)
           counter == [seq EXCEPT ![r] = seq[r] + 1]
<1>1. counter \in [Runs -> Nat] /\ PublishAndPop(r, e, counter, S)
  BY EmitIsPublish
<1>2. \A x \in Runs \ {r} : counter[x] = seq[x]
  BY DEF TypeOK
<1> HIDE DEF e, counter
<1>3. QED
  BY <1>1, <1>2, StorePublish

LEMMA StoreStep ==
    ASSUME TypeOK, StoreInv, FlightInv, [Next]_vars
    PROVE  StoreInv'
<1>0. /\ state \in [Runs -> {"pending", "running", "ended"}] /\ stored \subseteq Runs
      /\ seq \in [Runs -> Nat] /\ writes_to \in [Threads -> Runs] /\ {} \in SUBSET Runs
  BY StreamsAssumption DEF TypeOK
<1>1. ASSUME UNCHANGED <<state, stored, seq, history>>
      PROVE  StoreInv'
  BY <1>1 DEF StoreInv
<1>2. ASSUME NEW r \in Runs, RunStep(r)
      PROVE  StoreInv'
  <2>1. CASE Begin(r)
    <3>1. /\ state[r] # "ended" /\ EmitAndPop(r, FALSE, {})
          /\ \A x \in Runs \ {r} : state'[x] = state[x]
      BY <1>0, <2>1 DEF Begin
    <3>2. QED
      BY <1>0, <3>1, StoreEmit
  <2>2. CASE Note(r)
    <3>1. state[r] # "ended" /\ EmitAndPop(r, FALSE, {}) /\ state' = state
      BY <2>2 DEF Note
    <3>2. QED
      BY <1>0, <3>1, StoreEmit
  <2>3. CASE End(r)
    <3>1. PICK S \in SUBSET {x \in stored : x = r \/ state[x] = "ended"} : EmitAndPop(r, TRUE, S)
      BY <2>3 DEF End
    <3>2. state[r] # "ended" /\ state' = [state EXCEPT ![r] = "ended"]
      BY <2>3 DEF End
    <3>3. /\ \A x \in Runs \ {r} : state'[x] = state[x]
          /\ S \in SUBSET Runs /\ \A x \in S : state'[x] = "ended"
      BY <1>0, <3>2
    <3>4. QED
      BY <3>1, <3>2, <3>3, StoreEmit
  <2>4. CASE CancelPending(r)
    <3>1. /\ state[r] # "ended" /\ EmitAndPop(r, TRUE, {})
          /\ \A x \in Runs \ {r} : state'[x] = state[x]
      BY <1>0, <2>4 DEF CancelPending
    <3>2. QED
      BY <1>0, <3>1, StoreEmit
  <2>5. CASE PopRun(r)
    <3>1. /\ state' = state /\ stored' = stored \ {r} /\ seq' = [seq EXCEPT ![r] = 0]
          /\ history' = [history EXCEPT ![r] = <<>>]
          /\ state[r] = "ended" \/ r \in ImpatientRuns
      BY <2>5 DEF PopRun
    <3>2. history \in [Runs -> Seq(Events)]
      BY DEF TypeOK
    <3>3. ASSUME NEW x \in Runs \ (stored' \cup ImpatientRuns)
          PROVE  state'[x] = "ended" /\ seq'[x] = 0 /\ history'[x] = <<>>
      <4>1. CASE x = r
        BY <1>0, <3>1, <3>2, <4>1
      <4>2. CASE x # r
        BY <1>0, <3>1, <3>2, <4>2 DEF StoreInv
      <4>3. QED
        BY <4>1, <4>2
    <3>4. QED
      BY <3>3 DEF StoreInv
  <2>6. QED
    BY <1>2, <2>1, <2>2, <2>3, <2>4, <2>5 DEF RunStep
<1>3. ASSUME NEW t \in Threads, ThreadStep(t)
      PROVE  StoreInv'
  <2>1. CASE Draw(t)
    <3>1. /\ UNCHANGED <<state, stored, history>> /\ state[writes_to[t]] # "ended"
          /\ \A x \in Runs \ {writes_to[t]} : seq'[x] = seq[x]
      BY <1>0, <2>1 DEF Draw, FlightInv, busVars
    <3>2. QED
      BY <1>0, <3>1 DEF StoreInv
  <2>2. CASE Post(t) \/ Return(t)
    BY <1>1, <2>2 DEF Post, Return, runVars, busVars
  <2>3. QED
    BY <1>3, <2>1, <2>2 DEF ThreadStep
<1>4. ASSUME RunCallback
      PROVE  StoreInv'
  <2> DEFINE r == ready[1].for
  <2>1. ready # <<>> /\ Head(ready) = ready[1]
    BY <1>4, HeadFacts DEF RunCallback
  <2>2. CASE /\ ready[1].do = "publish" /\ state' = state
             /\ PublishAndPop(r, ready[1].event, seq, {})
    <3>1. r \in Runs /\ 1 \in DOMAIN ready /\ Publishes(1, r)
      <4>1. r \in Runs /\ Len(ready) \in Nat \ {0}
        BY <2>1, <2>2, HeadFacts
      <4>2. ready \in Seq(Callbacks)
        BY DEF TypeOK
      <4>3. QED
        BY <2>2, <4>1, <4>2 DEF Publishes
    <3>2. PICK t \in Threads : writes_to[t] = r /\ Awaited(1, t)
      BY <3>1 DEF FlightInv
    <3>3. state[r] # "ended"
      BY <3>2 DEF Awaited, FlightInv
    <3> HIDE DEF r
    <3>4. QED
      BY <1>0, <2>2, <3>1, <3>3, StorePublish
  <2>3. CASE UNCHANGED <<state, stored, seq, history>>
    BY <1>1, <2>3
  <2>4. QED
    BY <1>4, <2>1, <2>2, <2>3 DEF RunCallback, runVars, busVars
<1>5. ASSUME NEW c \in Clients, ClientStep(c)
      PROVE  StoreInv'
  BY <1>1, <1>5 DEF ClientStep, Subscribe, Receive, Leave, Watch, Watched, Unwatch,
                    Unregister, runVars, busVars
<1>6. CASE UNCHANGED vars
  BY <1>1, <1>6 DEF vars, runVars, busVars
<1>7. QED
  BY <1>2, <1>3, <1>4, <1>5, <1>6 DEF Next, Finished

(* What holds whatever runs, threads and clients do.                        *)
BusInv == TypeOK /\ TailInv /\ LimitInv /\ SubscriberInv /\ WatchInv

LEMMA BusStep == BusInv /\ [Next]_vars => BusInv'
BY TypeStep, TailStep, SubscriberStep, WatchStep DEF BusInv

LEMMA BusStart == Init => BusInv
<1> SUFFICES ASSUME Init
             PROVE  SubscriberInv /\ WatchInv
  BY TypeInit DEF BusInv
<1>1. SubscriberInv
  BY DEF Init, SubscriberInv
<1>2. WatchInv
  <2>1. ready = <<>> /\ registered = {} /\ \A w \in Watchers : phase[w] = "new"
    BY DEF Init, Clients
  <2>2. DOMAIN ready = {}
    BY <2>1
  <2>3. QED
    BY <2>1, <2>2 DEF WatchInv
<1>3. QED
  BY <1>1, <1>2

LEMMA FlightStart == Init => FlightInv /\ StoreInv
<1> SUFFICES ASSUME Init
             PROVE  FlightInv /\ StoreInv
  OBVIOUS
<1>1. /\ ready = <<>> /\ stored = Runs /\ \A t \in Threads : tpc[t] = "unborn"
  BY DEF Init
<1>2. DOMAIN ready = {}
  BY <1>1
<1>3. QED
  BY <1>1, <1>2 DEF FlightInv, StoreInv

(* A run leaves nothing behind when it leaves the store: if its handler's    *)
(* thread is waited for, every event it handed over to the loop is delivered *)
(* before the run can be popped, so no late event brings back a counter or a *)
(* history (JobStore.pop_run, RunEventBus).  Subscribers are clients that    *)
(* go on, and a watcher that was unregistered ends.                         *)
THEOREM RunsLeaveNothing ==
    ASSUME ThreadsJoined
    PROVE  Spec => []NothingLeft
<1>1. Init => BusInv /\ FlightInv /\ StoreInv
  BY BusStart, FlightStart
<1>2. BusInv /\ FlightInv /\ StoreInv /\ [Next]_vars => (BusInv /\ FlightInv /\ StoreInv)'
  BY BusStep, FlightStep, StoreStep DEF BusInv
<1>3. BusInv /\ FlightInv /\ StoreInv => NothingLeft
  <2> SUFFICES ASSUME BusInv, StoreInv
               PROVE  NothingLeft
    OBVIOUS
  <2>1. DOMAIN ready = 1 .. Len(ready)
    <3>1. ready \in Seq(Callbacks)
      BY DEF BusInv, TypeOK
    <3>2. QED
      BY <3>1
  <2>2. \A r \in Runs \ (stored \cup ImpatientRuns) :
            seq[r] = 0 /\ history[r] = <<>> /\ subscribers[r] = {}
    BY DEF BusInv, StoreInv, SubscriberInv
  <2>3. \A r \in Runs : \A c \in subscribers[r] : phase[c] \notin {"new", "closed"}
    BY DEF BusInv, SubscriberInv
  <2>4. \A w \in registered : phase[w] \notin {"new", "closed", "cancelled"}
    BY DEF BusInv, WatchInv
  <2>5. \A w \in Watchers \ registered :
            \/ phase[w] \in {"new", "closed", "cancelled"}
            \/ \E i \in 1 .. Len(ready) : ready[i].do = "cancel" /\ ready[i].for = w
    BY <2>1 DEF BusInv, WatchInv, Cancels
  <2>6. QED
    BY <2>2, <2>3, <2>4, <2>5 DEF NothingLeft
<1>4. QED
  BY <1>1, <1>2, <1>3, PTL DEF Spec

-----------------------------------------------------------------------------
(* The numbers of a run: published, handed over to the loop, drawn *)

(* Another event is published, later than those before it; none of them was  *)
(* the last one of an ended run.                                            *)
LEMMA PublishedAscends ==
    ASSUME NEW p \in Seq(Events), NEW e \in Events, Ascending(p), NEW m \in Nat,
           \A k \in DOMAIN p : p[k].seq \in 1 .. m /\ p[k].seq < e.seq /\ ~p[k].end,
           NEW n \in Nat, m <= n, e.seq \in 1 .. n, NEW over \in BOOLEAN, e.end => over
    PROVE  /\ Ascending(Append(p, e))
           /\ \A k \in DOMAIN Append(p, e) :
                 Append(p, e)[k].seq \in 1 .. n /\ (Append(p, e)[k].end => over)
<1> DEFINE q == Append(p, e)
<1>1. /\ Len(p) \in Nat /\ DOMAIN q = 1 .. Len(p) + 1 /\ DOMAIN p = 1 .. Len(p)
      /\ q[Len(p) + 1] = e /\ \A k \in 1 .. Len(p) : q[k] = p[k]
  OBVIOUS
<1>2. Ascending(q)
  BY AscendingAppend
<1> HIDE DEF q
<1>3. ASSUME NEW k \in DOMAIN q
      PROVE  q[k].seq \in 1 .. n /\ (q[k].end => over)
  <2>1. CASE k = Len(p) + 1
    BY <1>1, <2>1
  <2>2. CASE k \in 1 .. Len(p)
    <3>1. q[k] = p[k] /\ p[k].seq \in 1 .. m /\ ~p[k].end
      BY <1>1, <2>2
    <3>2. q[k].seq \in 1 .. n
      BY <3>1
    <3>3. QED
      BY <3>1, <3>2
  <2>3. QED
    BY <1>1, <2>1, <2>2
<1>4. QED
  BY <1>2, <1>3 DEF q

LEMMA NumbersKept ==
    ASSUME NEW x, RunNumbers(x), published'[x] = published[x], seq'[x] = seq[x],
           ready' = ready, state[x] = "ended" => state'[x] = "ended",
           \A t \in Threads : writes_to[t] = x /\ tpc'[t] = "drawn" =>
               tpc[t] = "drawn" /\ drawn'[t] = drawn[t]
    PROVE  RunNumbers(x)'
<1>1. \A n : Newer(n, x)' <=> Newer(n, x)
  BY DEF Newer
<1>2. \A i : Publishes(i, x)' <=> Publishes(i, x)
  BY DEF Publishes
<1>3. Ascending(published[x])' /\ \A k \in DOMAIN published'[x] :
          /\ published'[x][k].seq \in 1 .. seq'[x]
          /\ published'[x][k].end => state'[x] = "ended"
  BY DEF RunNumbers
<1>4. \A i \in DOMAIN ready' : Publishes(i, x)' =>
          Newer(ready[i].event.seq, x)' /\ ~ready'[i].event.end
  BY <1>2 DEF RunNumbers, Newer
<1>5. \A i, j \in DOMAIN ready' : i < j /\ Publishes(i, x)' /\ Publishes(j, x)' =>
          ready'[i].event.seq < ready'[j].event.seq
  BY <1>2 DEF RunNumbers
<1>6. \A t \in Threads : writes_to[t] = x /\ tpc'[t] = "drawn" =>
          /\ Newer(drawn[t], x)'
          /\ \A i \in DOMAIN ready' : Publishes(i, x)' => ready'[i].event.seq < drawn'[t]
  BY <1>2 DEF RunNumbers, Newer
<1>7. QED
  BY <1>3, <1>4, <1>5, <1>6 DEF RunNumbers

(* The loop publishes an event of a run with no event on its way.           *)
LEMMA NumbersEmit ==
    ASSUME TypeOK, NEW r \in Runs, RunNumbers(r), state[r] # "ended", NEW end \in BOOLEAN,
           NEW S \in SUBSET Runs, EmitAndPop(r, end, S), r \notin S, ready' = ready,
           \A i \in DOMAIN ready : ~Publishes(i, r),
           \A t \in Threads : writes_to[t] = r => tpc'[t] # "drawn",
           end => state'[r] = "ended"
    PROVE  RunNumbers(r)'
<1> DEFINE e == Event(seq[r] + 1, end)
           p == published[r]
           over == state'[r] = "ended"
<1>1. seq[r] \in Nat /\ p \in Seq(Events) /\ seq \in [Runs -> Nat]
      /\ published \in [Runs -> Seq(Events)]
  BY DEF TypeOK
<1>2. e \in Events /\ e.seq = seq[r] + 1 /\ e.end = end
  BY <1>1 DEF Event, Events
<1>3. published'[r] = Append(p, e) /\ seq'[r] = seq[r] + 1
  <2>1. PublishAndPop(r, e, [seq EXCEPT ![r] = seq[r] + 1], S)
    BY EmitIsPublish
  <2> HIDE DEF e
  <2>2. published' = [published EXCEPT ![r] = Append(@, e)]
        /\ seq' = [y \in Runs |-> IF y \in S THEN 0 ELSE [seq EXCEPT ![r] = seq[r] + 1][y]]
    BY <2>1 DEF PublishAndPop
  <2>3. QED
    BY <1>1, <2>2
<1>4. Ascending(p) /\ \A k \in DOMAIN p : p[k].seq \in 1 .. seq[r] /\ ~p[k].end
  BY DEF RunNumbers
<1>5. \A k \in DOMAIN p : p[k].seq < e.seq
  BY <1>1, <1>2, <1>4
<1>6. over \in BOOLEAN /\ (e.end => over) /\ e.seq \in 1 .. seq[r] + 1
      /\ seq[r] + 1 \in Nat /\ seq[r] <= seq[r] + 1
  BY <1>1, <1>2
<1> HIDE DEF e, p, over
<1>7. /\ Ascending(Append(p, e))
      /\ \A k \in DOMAIN Append(p, e) :
            Append(p, e)[k].seq \in 1 .. seq[r] + 1 /\ (Append(p, e)[k].end => over)
  BY <1>1, <1>2, <1>4, <1>5, <1>6, PublishedAscends
<1>8. /\ Ascending(published'[r])
      /\ \A k \in DOMAIN published'[r] :
            /\ published'[r][k].seq \in 1 .. seq'[r]
            /\ published'[r][k].end => state'[r] = "ended"
  BY <1>3, <1>7 DEF over
<1>9. \A i \in DOMAIN ready' : ~Publishes(i, r)'
  BY DEF Publishes
<1>10. QED
  BY <1>8, <1>9 DEF RunNumbers, Ascending

(* Another callback waits; if it is an event of the run, it was drawn last.  *)
LEMMA NumbersGrow ==
    ASSUME TypeOK, NEW x, RunNumbers(x), NEW cb \in Callbacks, ready' = Append(ready, cb),
           published' = published, seq' = seq, state' = state, drawn' = drawn,
           \A t \in Threads : writes_to[t] = x /\ tpc'[t] = "drawn" => tpc[t] = "drawn",
           cb.do = "publish" /\ cb.for = x =>
               /\ Newer(cb.event.seq, x) /\ ~cb.event.end
               /\ \A i \in DOMAIN ready : Publishes(i, x) => ready[i].event.seq < cb.event.seq
               /\ \A t \in Threads : writes_to[t] = x => tpc'[t] # "drawn"
    PROVE  RunNumbers(x)'
<1> DEFINE last == Len(ready) + 1
<1>1. /\ Len(ready) \in Nat /\ DOMAIN ready = 1 .. Len(ready)
      /\ DOMAIN ready' = 1 .. last /\ ready'[last] = cb
      /\ \A i \in 1 .. Len(ready) : ready'[i] = ready[i]
  BY ReadyGrows
<1>2. \A i \in DOMAIN ready : ready'[i] = ready[i] /\ (Publishes(i, x)' <=> Publishes(i, x))
  BY <1>1 DEF Publishes
<1>3. \A i : i = last => (Publishes(i, x)' <=> cb.do = "publish" /\ cb.for = x)
  BY <1>1 DEF Publishes
<1>4. /\ \A i \in DOMAIN ready' : i \in DOMAIN ready \/ i = last
      /\ \A i \in DOMAIN ready' : ~(last < i)
  BY <1>1
<1>5. ready'[last] = cb
  BY <1>1
<1> HIDE DEF last
<1>6. \A n : Newer(n, x)' <=> Newer(n, x)
  BY DEF Newer
<1>7. Ascending(published[x])' /\ \A k \in DOMAIN published'[x] :
          /\ published'[x][k].seq \in 1 .. seq'[x]
          /\ published'[x][k].end => state'[x] = "ended"
  BY DEF RunNumbers
<1>8. ASSUME NEW i \in DOMAIN ready', Publishes(i, x)'
      PROVE  Newer(ready[i].event.seq, x)' /\ ~ready'[i].event.end
  <2>1. CASE i \in DOMAIN ready
    BY <1>2, <1>8, <2>1 DEF RunNumbers, Newer
  <2>2. CASE i = last
    <3>1. Newer(cb.event.seq, x) /\ ~cb.event.end /\ ready'[i] = cb
      BY <1>3, <1>5, <1>8, <2>2
    <3>2. QED
      BY <3>1 DEF Newer
  <2>3. QED
    BY <1>4, <2>1, <2>2
<1>9. ASSUME NEW i \in DOMAIN ready', NEW j \in DOMAIN ready', i < j,
             Publishes(i, x)', Publishes(j, x)'
      PROVE  ready'[i].event.seq < ready'[j].event.seq
  <2>1. i \in DOMAIN ready
    BY <1>4, <1>9
  <2>2. CASE j \in DOMAIN ready
    BY <1>2, <1>9, <2>1, <2>2 DEF RunNumbers
  <2>3. CASE j = last
    BY <1>2, <1>3, <1>5, <1>9, <2>1, <2>3
  <2>4. QED
    BY <1>4, <2>2, <2>3
<1>10. ASSUME NEW t \in Threads, writes_to[t] = x, tpc'[t] = "drawn"
       PROVE  /\ Newer(drawn[t], x)'
              /\ \A i \in DOMAIN ready' : Publishes(i, x)' => ready'[i].event.seq < drawn'[t]
  <2>1. ~(cb.do = "publish" /\ cb.for = x) /\ tpc[t] = "drawn"
    BY <1>10
  <2>2. Newer(drawn[t], x)'
    BY <1>10, <2>1 DEF RunNumbers, Newer
  <2>3. \A i \in DOMAIN ready' : Publishes(i, x)' => i \in DOMAIN ready
    BY <1>3, <1>4, <2>1
  <2>4. QED
    BY <1>2, <1>10, <2>1, <2>2, <2>3 DEF RunNumbers
<1>11. QED
  BY <1>7, <1>8, <1>9, <1>10 DEF RunNumbers

(* The first callback has run: its event, if it is one of the run, is later  *)
(* than those published and earlier than those still on their way.          *)
LEMMA NumbersShrink ==
    ASSUME TypeOK, NEW x \in Runs, RunNumbers(x), ready # <<>>, ready' = Tail(ready),
           seq'[x] = seq[x], state' = state, drawn' = drawn,
           \A t \in Threads : tpc'[t] = "drawn" => tpc[t] = "drawn",
           Publishes(1, x) => /\ state[x] # "ended" /\ ready[1].event \in Events
                              /\ published'[x] = Append(published[x], ready[1].event),
           ~Publishes(1, x) => published'[x] = published[x]
    PROVE  RunNumbers(x)'
<1> DEFINE e == ready[1].event
           p == published[x]
<1>1. /\ Len(ready) \in Nat \ {0} /\ DOMAIN ready = 1 .. Len(ready)
      /\ DOMAIN ready' = 1 .. Len(ready) - 1
      /\ \A i \in 1 .. Len(ready) - 1 : i + 1 \in DOMAIN ready /\ ready'[i] = ready[i + 1]
  BY ReadyShrinks
<1>2. 1 \in DOMAIN ready /\ p \in Seq(Events) /\ seq[x] \in Nat
  BY <1>1 DEF TypeOK
<1>3. \A i \in DOMAIN ready' : i + 1 \in DOMAIN ready /\ ready'[i] = ready[i + 1] /\ 1 < i + 1
  BY <1>1
<1>4. \A i \in DOMAIN ready' : Publishes(i, x)' <=> Publishes(i + 1, x)
  BY <1>1 DEF Publishes
<1>5. /\ Ascending(p) /\ \A k \in DOMAIN p : /\ p[k].seq \in 1 .. seq[x]
                                             /\ p[k].end => state[x] = "ended"
  BY DEF RunNumbers
<1>6. CASE ~Publishes(1, x)
  <2>1. \A n : Newer(n, x)' <=> Newer(n, x)
    BY <1>6 DEF Newer
  <2>2. Ascending(published[x])' /\ \A k \in DOMAIN published'[x] :
            /\ published'[x][k].seq \in 1 .. seq'[x]
            /\ published'[x][k].end => state'[x] = "ended"
    BY <1>5, <1>6
  <2>3. \A i \in DOMAIN ready' : Publishes(i, x)' =>
            Newer(ready[i].event.seq, x)' /\ ~ready'[i].event.end
    BY <1>3, <1>4, <1>6 DEF RunNumbers, Newer
  <2>4. \A i, j \in DOMAIN ready' : i < j => i + 1 < j + 1
    BY <1>1
  <2>5. \A i, j \in DOMAIN ready' : i < j /\ Publishes(i, x)' /\ Publishes(j, x)' =>
            ready'[i].event.seq < ready'[j].event.seq
    BY <1>3, <1>4, <2>4 DEF RunNumbers
  <2>6. \A t \in Threads : writes_to[t] = x /\ tpc'[t] = "drawn" =>
            /\ Newer(drawn[t], x)'
            /\ \A i \in DOMAIN ready' : Publishes(i, x)' => ready'[i].event.seq < drawn'[t]
    BY <1>3, <1>4, <1>6 DEF RunNumbers, Newer
  <2>7. QED
    BY <2>2, <2>3, <2>5, <2>6 DEF RunNumbers
<1>7. CASE Publishes(1, x)
  <2> DEFINE q == Append(p, e)
  <2>1. /\ e \in Events /\ published'[x] = q /\ ~e.end
        /\ e.seq \in 1 .. seq[x] /\ \A k \in DOMAIN p : p[k].seq < e.seq
    BY <1>2, <1>7 DEF RunNumbers, Newer
  <2>2. \A k \in DOMAIN p : ~p[k].end
    BY <1>5, <1>7
  <2>3. FALSE \in BOOLEAN /\ seq[x] <= seq[x]
    BY <1>2
  <2>4. /\ DOMAIN q = 1 .. Len(p) + 1 /\ DOMAIN p = 1 .. Len(p) /\ q[Len(p) + 1] = e
        /\ \A k \in 1 .. Len(p) : q[k] = p[k]
    BY <1>2, <2>1
  <2> HIDE DEF e, p
  <2>5. /\ Ascending(q) /\ \A k \in DOMAIN q : q[k].seq \in 1 .. seq[x] /\ (q[k].end => FALSE)
    BY <1>2, <1>5, <2>1, <2>2, <2>3, PublishedAscends
  <2> HIDE DEF q
  <2>6. Ascending(published'[x]) /\ \A k \in DOMAIN published'[x] :
            /\ published'[x][k].seq \in 1 .. seq'[x]
            /\ published'[x][k].end => state'[x] = "ended"
    BY <2>1, <2>5
  <2>7. \A n : Newer(n, x) /\ e.seq < n => Newer(n, x)'
    <3>1. \A k \in DOMAIN q : k \in DOMAIN p \/ k = Len(p) + 1
      BY <1>2, <2>4
    <3>2. QED
      BY <2>1, <2>4, <3>1 DEF Newer, p
  <2>8. ASSUME NEW i \in DOMAIN ready', Publishes(i, x)'
        PROVE  Newer(ready[i].event.seq, x)' /\ ~ready'[i].event.end
    <3>1. Publishes(i + 1, x) /\ i + 1 \in DOMAIN ready /\ 1 < i + 1 /\ ready'[i] = ready[i + 1]
      BY <1>3, <1>4, <2>8
    <3>2. Newer(ready[i + 1].event.seq, x) /\ ~ready[i + 1].event.end
      BY <3>1 DEF RunNumbers
    <3>3. e.seq < ready[i + 1].event.seq
      BY <1>2, <1>7, <3>1 DEF RunNumbers, e
    <3>4. Newer(ready[i + 1].event.seq, x) /\ e.seq < ready[i + 1].event.seq
            => (\A k \in DOMAIN published'[x] : published'[x][k].seq < ready[i + 1].event.seq)
               /\ ready[i + 1].event.seq \in 1 .. seq'[x]
      BY <2>7 DEF Newer
    <3>5. QED
      BY <3>1, <3>2, <3>3, <3>4 DEF Newer
  <2>9. \A i, j \in DOMAIN ready' : i < j => i + 1 < j + 1
    BY <1>1
  <2>10. \A i, j \in DOMAIN ready' : i < j /\ Publishes(i, x)' /\ Publishes(j, x)' =>
            ready'[i].event.seq < ready'[j].event.seq
    BY <1>3, <1>4, <2>9 DEF RunNumbers
  <2>11. ASSUME NEW t \in Threads, writes_to[t] = x, tpc'[t] = "drawn"
         PROVE  /\ Newer(drawn[t], x)'
                /\ \A i \in DOMAIN ready' : Publishes(i, x)' => ready'[i].event.seq < drawn'[t]
    <3>1. /\ Newer(drawn[t], x) /\ drawn'[t] = drawn[t]
          /\ \A i \in DOMAIN ready : Publishes(i, x) => ready[i].event.seq < drawn[t]
      BY <2>11 DEF RunNumbers
    <3>2. e.seq < drawn[t]
      BY <1>2, <1>7, <3>1 DEF e
    <3>3. \A i \in DOMAIN ready' : Publishes(i, x)' => ready'[i].event.seq < drawn'[t]
      BY <1>3, <1>4, <3>1
    <3>4. \A n : n = drawn[t] => (\A k \in DOMAIN published'[x] : published'[x][k].seq < n)
                                 /\ n \in 1 .. seq'[x]
      BY <2>7, <3>1, <3>2 DEF Newer
    <3>5. QED
      BY <3>1, <3>3, <3>4 DEF Newer
  <2>12. QED
    BY <2>6, <2>8, <2>10, <2>11 DEF RunNumbers, Ascending
<1>8. QED
  BY <1>6, <1>7

(* Nothing of a run is on its way to the loop when none of its threads       *)
(* executes the handler.                                                    *)
LEMMA NoneInFlight ==
    ASSUME FlightInv, NEW r \in Runs,
           \A t \in Threads : writes_to[t] = r => tpc[t] \in {"unborn", "joined"}
    PROVE  \A i \in DOMAIN ready : ~Publishes(i, r)
<1> SUFFICES ASSUME NEW i \in DOMAIN ready, Publishes(i, r)
             PROVE  FALSE
  OBVIOUS
<1>1. PICK t \in Threads : writes_to[t] = r /\ Awaited(i, t)
  BY DEF FlightInv
<1>2. QED
  BY <1>1 DEF Awaited

LEMMA NumberStep ==
    ASSUME OnePublisher, TypeOK, FlightInv, NumberInv, [Next]_vars
    PROVE  NumberInv'
<1>0. /\ state \in [Runs -> {"pending", "running", "ended"}] /\ stored \subseteq Runs
      /\ seq \in [Runs -> Nat] /\ writes_to \in [Threads -> Runs] /\ {} \in SUBSET Runs
      /\ tpc \in [Threads -> {"unborn", "idle", "drawn", "returned", "joined"}]
      /\ drawn \in [Threads -> Nat] /\ published \in [Runs -> Seq(Events)]
      /\ registered \subseteq Watchers /\ HandlerThreads \subseteq Threads
  BY StreamsAssumption DEF TypeOK
<1>1. ASSUME UNCHANGED <<state, published, seq, ready, tpc, drawn>>, stored' \subseteq stored
      PROVE  NumberInv'
  <2> SUFFICES ASSUME NEW x \in stored'
               PROVE  RunNumbers(x)'
    BY DEF NumberInv
  <2>1. RunNumbers(x)
    BY <1>1 DEF NumberInv
  <2>2. QED
    BY <1>1, <2>1, NumbersKept
<1>2. ASSUME NEW r \in Runs, NEW end \in BOOLEAN, NEW S \in SUBSET Runs, EmitAndPop(r, end, S),
             state[r] # "ended", ready' = ready, drawn' = drawn,
             \A x \in Runs \ {r} : state'[x] = state[x],
             \A t \in Threads : tpc'[t] = tpc[t] \/ tpc'[t] = "idle",
             \A t \in Threads : writes_to[t] = r => tpc[t] \in {"unborn", "joined"},
             end => state'[r] = "ended"
      PROVE  NumberInv'
  <2> DEFINE e == Event(seq[r] + 1, end)
             counter == [seq EXCEPT ![r] = seq[r] + 1]
  <2>1. PublishAndPop(r, e, counter, S)
    BY <1>2, EmitIsPublish
  <2>2. /\ published' = [published EXCEPT ![r] = Append(@, e)]
        /\ seq' = [x \in Runs |-> IF x \in S THEN 0 ELSE counter[x]]
        /\ stored' = stored \ S
    BY <2>1 DEF PublishAndPop
  <2>3. \A i \in DOMAIN ready : ~Publishes(i, r)
    BY <1>2, NoneInFlight
  <2> SUFFICES ASSUME NEW x \in stored'
               PROVE  RunNumbers(x)'
    BY DEF NumberInv
  <2>4. x \in stored /\ x \notin S /\ x \in Runs /\ RunNumbers(x)
    BY <1>0, <2>2 DEF NumberInv
  <2>5. CASE x = r
    <3>1. \A t \in Threads : writes_to[t] = r => tpc'[t] # "drawn"
      BY <1>2
    <3>2. QED
      BY <1>2, <2>3, <2>4, <2>5, <3>1, NumbersEmit
  <2>6. CASE x # r
    <3>1. published'[x] = published[x] /\ seq'[x] = seq[x] /\ state'[x] = state[x]
      BY <1>0, <1>2, <2>2, <2>4, <2>6
    <3>2. \A t \in Threads : writes_to[t] = x /\ tpc'[t] = "drawn" =>
              tpc[t] = "drawn" /\ drawn'[t] = drawn[t]
      BY <1>2
    <3>3. QED
      BY <1>2, <2>4, <3>1, <3>2, NumbersKept
  <2>7. QED
    BY <2>5, <2>6
<1>3. ASSUME NEW r \in Runs, RunStep(r)
      PROVE  NumberInv'
  <2>1. CASE Begin(r)
    <3>1. /\ EmitAndPop(r, FALSE, {}) /\ state[r] = "pending" /\ ready' = ready /\ drawn' = drawn
          /\ state' = [state EXCEPT ![r] = "running"]
          /\ tpc' = [t \in Threads |-> IF writes_to[t] = r THEN "idle" ELSE tpc[t]]
      BY <2>1 DEF Begin
    <3>2. /\ \A x \in Runs \ {r} : state'[x] = state[x]
          /\ \A t \in Threads : tpc'[t] = tpc[t] \/ tpc'[t] = "idle"
          /\ \A t \in Threads : writes_to[t] = r => tpc[t] \in {"unborn", "joined"}
      BY <1>0, <3>1 DEF FlightInv
    <3>3. QED
      BY <1>0, <1>2, <3>1, <3>2
  <2>2. CASE Note(r)
    <3>1. /\ EmitAndPop(r, FALSE, {}) /\ state[r] = "running" /\ state' = state /\ tpc' = tpc
          /\ ready' = ready /\ drawn' = drawn
          /\ (\A t \in HandlerThreads : writes_to[t] # r) \/ r \in CancelRuns
      BY <2>2 DEF Note, threadVars
    <3>2. \A t \in Threads : writes_to[t] # r
      BY <3>1 DEF OnePublisher, ThreadsJoined
    <3>3. QED
      BY <1>0, <1>2, <3>1, <3>2
  <2>3. CASE End(r)
    <3>1. PICK S \in SUBSET {x \in stored : x = r \/ state[x] = "ended"} : EmitAndPop(r, TRUE, S)
      BY <2>3 DEF End
    <3>2. /\ state[r] = "running" /\ state' = [state EXCEPT ![r] = "ended"] /\ tpc' = tpc
          /\ ready' = ready /\ drawn' = drawn
          /\ \A t \in Threads : writes_to[t] = r => tpc[t] = "joined"
      BY <2>3 DEF End, threadVars, OnePublisher, ThreadsJoined
    <3>3. S \in SUBSET Runs /\ state'[r] = "ended" /\ \A x \in Runs \ {r} : state'[x] = state[x]
      BY <1>0, <3>2
    <3>4. QED
      BY <1>2, <3>1, <3>2, <3>3
  <2>4. CASE CancelPending(r)
    <3>1. /\ EmitAndPop(r, TRUE, {}) /\ state[r] = "pending" /\ tpc' = tpc
          /\ state' = [state EXCEPT ![r] = "ended"] /\ ready' = ready /\ drawn' = drawn
      BY <2>4 DEF CancelPending, threadVars
    <3>2. /\ state'[r] = "ended" /\ \A x \in Runs \ {r} : state'[x] = state[x]
          /\ \A t \in Threads : writes_to[t] = r => tpc[t] \in {"unborn", "joined"}
      BY <1>0, <3>1 DEF FlightInv
    <3>3. QED
      BY <1>0, <1>2, <3>1, <3>2
  <2>5. CASE PopRun(r)
    <3>1. /\ UNCHANGED <<state, published, ready, tpc, drawn>> /\ stored' = stored \ {r}
          /\ seq' = [seq EXCEPT ![r] = 0]
      BY <2>5 DEF PopRun, threadVars
    <3> SUFFICES ASSUME NEW x \in stored'
                 PROVE  RunNumbers(x)'
      BY DEF NumberInv
    <3>2. x \in stored /\ x # r /\ seq'[x] = seq[x] /\ RunNumbers(x)
      BY <1>0, <3>1 DEF NumberInv
    <3>3. QED
      BY <3>1, <3>2, NumbersKept
  <2>6. QED
    BY <1>3, <2>1, <2>2, <2>3, <2>4, <2>5 DEF RunStep
<1>4. ASSUME NEW t \in Threads, ThreadStep(t)
      PROVE  NumberInv'
  <2> DEFINE r == writes_to[t]
  <2>0. r \in Runs /\ stored' = stored /\ UNCHANGED <<state, published>>
    BY <1>0, <1>4 DEF ThreadStep, Draw, Post, Return, runVars, busVars
  <2>1. CASE Draw(t)
    <3>1. /\ seq' = [seq EXCEPT ![r] = seq[r] + 1] /\ drawn' = [drawn EXCEPT ![t] = seq[r] + 1]
          /\ tpc' = [tpc EXCEPT ![t] = "drawn"] /\ ready' = ready
      BY <2>1 DEF Draw, NextSeq
    <3> SUFFICES ASSUME NEW x \in stored
                 PROVE  RunNumbers(x)'
      BY <2>0 DEF NumberInv
    <3>2. RunNumbers(x) /\ x \in Runs
      BY <1>0 DEF NumberInv
    <3>3. CASE x # r
      <4>1. seq'[x] = seq[x] /\ \A u \in Threads : writes_to[u] = x =>
                tpc'[u] = tpc[u] /\ drawn'[u] = drawn[u]
        BY <1>0, <2>0, <3>1, <3>3
      <4>2. QED
        BY <2>0, <3>1, <3>2, <4>1, NumbersKept
    <3>4. CASE x = r
      <4>1. /\ seq[x] \in Nat /\ seq'[x] = seq[x] + 1 /\ drawn'[t] = seq[x] + 1
            /\ \A u \in Threads : writes_to[u] = x => u = t
        BY <1>0, <2>0, <3>1, <3>4 DEF OnePublisher
      <4>2. \A n \in Nat : n \in 1 .. seq[x] => n \in 1 .. seq'[x] /\ n < seq[x] + 1
        BY <4>1
      <4>3. \A k \in DOMAIN published[x] : published[x][k].seq \in 1 .. seq[x]
        BY <3>2 DEF RunNumbers
      <4>4. \A k \in DOMAIN published[x] :
                published[x][k].seq \in 1 .. seq'[x] /\ published[x][k].seq < seq[x] + 1
        BY <4>1, <4>3
      <4>5. \A i \in DOMAIN ready : Publishes(i, x) =>
                /\ Newer(ready[i].event.seq, x) /\ ~ready[i].event.end
                /\ ready[i].event.seq \in 1 .. seq'[x] /\ ready[i].event.seq < seq[x] + 1
        <5>1. \A i \in DOMAIN ready : Publishes(i, x) =>
                  Newer(ready[i].event.seq, x) /\ ~ready[i].event.end
          BY <3>2 DEF RunNumbers
        <5>2. \A n : Newer(n, x) => n \in 1 .. seq[x]
          BY DEF Newer
        <5>3. QED
          BY <4>1, <5>1, <5>2
      <4>6. \A i : Publishes(i, x)' <=> Publishes(i, x)
        BY <3>1 DEF Publishes
      <4>7. Ascending(published[x])' /\ \A k \in DOMAIN published'[x] :
                /\ published'[x][k].seq \in 1 .. seq'[x]
                /\ published'[x][k].end => state'[x] = "ended"
        BY <2>0, <3>2, <4>4 DEF RunNumbers
      <4>8. \A i \in DOMAIN ready' : Publishes(i, x)' =>
                Newer(ready[i].event.seq, x)' /\ ~ready'[i].event.end
        BY <2>0, <3>1, <4>5, <4>6 DEF Newer
      <4>9. \A i, j \in DOMAIN ready' : i < j /\ Publishes(i, x)' /\ Publishes(j, x)' =>
                ready'[i].event.seq < ready'[j].event.seq
        BY <3>1, <3>2, <4>6 DEF RunNumbers
      <4>10. ASSUME NEW u \in Threads, writes_to[u] = x, tpc'[u] = "drawn"
             PROVE  /\ Newer(drawn[u], x)'
                    /\ \A i \in DOMAIN ready' : Publishes(i, x)' =>
                          ready'[i].event.seq < drawn'[u]
        <5>1. drawn'[u] = seq[x] + 1 /\ seq[x] + 1 \in 1 .. seq'[x]
          BY <4>1, <4>10
        <5>2. QED
          BY <2>0, <3>1, <4>4, <4>5, <4>6, <5>1 DEF Newer
      <4>11. QED
        BY <4>7, <4>8, <4>9, <4>10 DEF RunNumbers
    <3>5. QED
      BY <3>3, <3>4
  <2>2. CASE Post(t)
    <3> DEFINE cb == [do |-> "publish", for |-> r, event |-> Event(drawn[t], FALSE)]
    <3>1. /\ ready' = Append(ready, cb) /\ tpc[t] = "drawn" /\ tpc' = [tpc EXCEPT ![t] = "idle"]
          /\ seq' = seq /\ drawn' = drawn
      BY <2>2 DEF Post, runVars
    <3>2. /\ cb \in Callbacks /\ cb.for = r
          /\ cb.event.seq = drawn[t] /\ ~cb.event.end
      BY <1>0, <2>0 DEF Callbacks, Events, Event
    <3> HIDE DEF cb
    <3> SUFFICES ASSUME NEW x \in stored
                 PROVE  RunNumbers(x)'
      BY <2>0 DEF NumberInv
    <3>3. RunNumbers(x)
      BY DEF NumberInv
    <3>4. /\ \A u \in Threads : tpc'[u] = "drawn" => tpc[u] = "drawn"
          /\ \A u \in Threads : writes_to[u] = r => tpc'[u] # "drawn"
      BY <1>0, <3>1 DEF OnePublisher
    <3>5. x = r => /\ Newer(drawn[t], x)
                   /\ \A i \in DOMAIN ready : Publishes(i, x) => ready[i].event.seq < drawn[t]
      BY <3>1, <3>3 DEF RunNumbers
    <3>6. cb.do = "publish" /\ cb.for = x =>
               /\ Newer(cb.event.seq, x) /\ ~cb.event.end
               /\ \A i \in DOMAIN ready : Publishes(i, x) => ready[i].event.seq < cb.event.seq
               /\ \A u \in Threads : writes_to[u] = x => tpc'[u] # "drawn"
      BY <3>2, <3>4, <3>5
    <3>7. QED
      BY <2>0, <3>1, <3>2, <3>3, <3>4, <3>6, NumbersGrow
  <2>3. CASE Return(t)
    <3> DEFINE cb == [do |-> "join", for |-> t]
    <3>1. /\ ready' = Append(ready, cb) /\ tpc' = [tpc EXCEPT ![t] = "returned"]
          /\ seq' = seq /\ drawn' = drawn
      BY <2>3 DEF Return, runVars
    <3>2. cb \in Callbacks /\ cb.do # "publish"
      BY <2>3 DEF Callbacks, Return
    <3> HIDE DEF cb
    <3>3. \A u \in Threads : tpc'[u] = "drawn" => tpc[u] = "drawn"
      BY <1>0, <3>1
    <3>4. QED
      BY <2>0, <3>1, <3>2, <3>3, NumbersGrow DEF NumberInv
  <2>4. QED
    BY <1>4, <2>1, <2>2, <2>3 DEF ThreadStep
<1>5. ASSUME RunCallback
      PROVE  NumberInv'
  <2>1. /\ ready # <<>> /\ ready' = Tail(ready) /\ Head(ready) = ready[1]
        /\ state' = state /\ drawn' = drawn
    BY <1>5, HeadFacts DEF RunCallback, runVars, threadVars
  <2>2. \A t \in Threads : tpc'[t] = "drawn" => tpc[t] = "drawn"
    BY <1>0, <1>5 DEF RunCallback, threadVars
  <2>3. CASE /\ ready[1].do = "publish"
             /\ PublishAndPop(ready[1].for, ready[1].event, seq, {})
    <3>1. ready[1].for \in Runs /\ ready[1].event \in Events
      BY <2>1, <2>3, HeadFacts
    <3>2. /\ published' = [published EXCEPT ![ready[1].for] = Append(@, ready[1].event)]
          /\ seq' = [x \in Runs |-> seq[x]] /\ stored' = stored
      BY <2>3 DEF PublishAndPop
    <3> SUFFICES ASSUME NEW x \in stored
                 PROVE  RunNumbers(x)'
      BY <3>2 DEF NumberInv
    <3>3. x \in Runs /\ RunNumbers(x) /\ seq'[x] = seq[x]
      BY <1>0, <3>2 DEF NumberInv
    <3>4. ASSUME Publishes(1, x)
          PROVE  state[x] # "ended" /\ published'[x] = Append(published[x], ready[1].event)
      <4>1. 1 \in DOMAIN ready
        BY <2>1, ReadyShrinks
      <4>2. PICK t \in Threads : writes_to[t] = x /\ Awaited(1, t)
        BY <3>3, <3>4, <4>1 DEF FlightInv
      <4>3. state[x] # "ended"
        BY <4>2 DEF Awaited, FlightInv
      <4>4. QED
        BY <1>0, <3>2, <3>3, <3>4, <4>3 DEF Publishes
    <3>5. ~Publishes(1, x) => published'[x] = published[x]
      BY <1>0, <2>3, <3>2, <3>3 DEF Publishes
    <3>6. QED
      BY <2>1, <2>2, <3>1, <3>3, <3>4, <3>5, NumbersShrink
  <2>4. CASE ready[1].do # "publish" /\ UNCHANGED <<seq, published, stored>>
    <3> SUFFICES ASSUME NEW x \in stored
                 PROVE  RunNumbers(x)'
      BY <2>4 DEF NumberInv
    <3>1. x \in Runs /\ RunNumbers(x) /\ ~Publishes(1, x)
      BY <1>0, <2>4 DEF NumberInv, Publishes
    <3>2. QED
      BY <2>1, <2>2, <2>4, <3>1, NumbersShrink
  <2>5. QED
    BY <1>5, <2>1, <2>3, <2>4 DEF RunCallback, runVars, busVars
<1>6. ASSUME NEW c \in Clients, ClientStep(c)
      PROVE  NumberInv'
  <2>1. CASE Unregister(c)
    <3> DEFINE cb == [do |-> "cancel", for |-> c]
    <3>1. /\ ready' = Append(ready, cb)
          /\ UNCHANGED <<state, stored, seq, tpc, drawn, published>>
      BY <2>1 DEF Unregister, runVars, threadVars, busVars
    <3>2. cb \in Callbacks /\ cb.do # "publish"
      BY <1>0, <2>1 DEF Callbacks, Unregister
    <3> HIDE DEF cb
    <3>3. QED
      BY <3>1, <3>2, NumbersGrow DEF NumberInv
  <2>2. CASE UNCHANGED <<runVars, threadVars, published, ready>>
    BY <1>1, <2>2 DEF runVars, threadVars
  <2>3. QED
    BY <1>6, <2>1, <2>2 DEF ClientStep, Subscribe, Receive, Leave, Watch, Watched,
                            Unwatch, busVars
<1>7. CASE UNCHANGED vars
  BY <1>1, <1>7 DEF vars, runVars, threadVars, busVars
<1>8. QED
  BY <1>3, <1>4, <1>5, <1>6, <1>7 DEF Next, Finished

-----------------------------------------------------------------------------
(* Sequences in two parts *)

LEMMA ConcatFacts ==
    ASSUME NEW R, NEW s \in Seq(R), NEW q \in Seq(R)
    PROVE  /\ s \o q \in Seq(R) /\ Len(s \o q) = Len(s) + Len(q)
           /\ \A k \in 1 .. Len(s) + Len(q) :
                 (s \o q)[k] = IF k <= Len(s) THEN s[k] ELSE q[k - Len(s)]
OBVIOUS

LEMMA ConcatAppend ==
    ASSUME NEW R, NEW s \in Seq(R), NEW q \in Seq(R), NEW e \in R
    PROVE  s \o Append(q, e) = Append(s \o q, e)
<1> DEFINE t == s \o Append(q, e)
           u == Append(s \o q, e)
           last == Len(s) + Len(q) + 1
<1>1. Len(s) \in Nat /\ Len(q) \in Nat /\ s \o q \in Seq(R) /\ Append(q, e) \in Seq(R)
      /\ Len(s \o q) = Len(s) + Len(q) /\ Len(Append(q, e)) = Len(q) + 1
  OBVIOUS
<1>2. /\ t \in Seq(R) /\ Len(t) = last
      /\ \A k \in 1 .. last : t[k] = IF k <= Len(s) THEN s[k] ELSE Append(q, e)[k - Len(s)]
  BY <1>1
<1>3. /\ u \in Seq(R) /\ Len(u) = last
      /\ \A k \in 1 .. last : u[k] = IF k = last THEN e ELSE (s \o q)[k]
  BY <1>1
<1>4. ASSUME NEW k \in 1 .. last
      PROVE  t[k] = u[k]
  <2>1. CASE k = last
    <3>1. k - Len(s) = Len(q) + 1 /\ ~(k <= Len(s))
      BY <1>1, <2>1
    <3>2. Append(q, e)[Len(q) + 1] = e
      BY <1>1
    <3>3. QED
      BY <1>2, <1>3, <2>1, <3>1, <3>2
  <2>2. CASE k <= Len(s)
    <3>1. k # last /\ k \in 1 .. Len(s)
      BY <1>1, <2>2
    <3>2. (s \o q)[k] = s[k]
      BY <1>1, <3>1
    <3> HIDE DEF t, u, last
    <3>3. QED
      BY <1>2, <1>3, <2>2, <3>1, <3>2
  <2>3. CASE ~(k <= Len(s)) /\ k # last
    <3>1. k - Len(s) \in 1 .. Len(q) /\ k \in 1 .. Len(s) + Len(q)
      BY <1>1, <2>3
    <3>2. (s \o q)[k] = q[k - Len(s)] /\ Append(q, e)[k - Len(s)] = q[k - Len(s)]
      BY <1>1, <2>3, <3>1
    <3> HIDE DEF t, u, last
    <3>3. QED
      BY <1>2, <1>3, <2>3, <3>2
  <2>4. QED
    BY <2>1, <2>2, <2>3
<1> HIDE DEF t, u, last
<1>5. t = [k \in 1 .. Len(t) |-> t[k]] /\ u = [k \in 1 .. Len(u) |-> u[k]]
  BY <1>2, <1>3
<1>6. t = u
  BY <1>2, <1>3, <1>4, <1>5
<1>7. QED
  BY <1>6 DEF t, u

LEMMA TakeOne ==
    ASSUME NEW R, NEW s \in Seq(R), NEW q \in Seq(R), q # <<>>
    PROVE  Append(s, Head(q)) \o Tail(q) = s \o q
<1> DEFINE t == Append(s, Head(q)) \o Tail(q)
           u == s \o q
           total == Len(s) + Len(q)
<1>1. /\ Len(s) \in Nat /\ Len(q) \in Nat \ {0} /\ Head(q) = q[1] /\ Head(q) \in R
      /\ Append(s, Head(q)) \in Seq(R) /\ Len(Append(s, Head(q))) = Len(s) + 1
      /\ Tail(q) \in Seq(R) /\ Len(Tail(q)) = Len(q) - 1
      /\ \A k \in 1 .. Len(q) - 1 : Tail(q)[k] = q[k + 1]
      /\ \A k \in 1 .. Len(s) + 1 :
            Append(s, Head(q))[k] = IF k = Len(s) + 1 THEN q[1] ELSE s[k]
  OBVIOUS
<1> DEFINE a == Append(s, Head(q))
           b == Tail(q)
<1>2. /\ t \in Seq(R) /\ Len(t) = total
      /\ \A k \in 1 .. total : t[k] = IF k <= Len(s) + 1 THEN a[k] ELSE b[k - (Len(s) + 1)]
  <2>1. a \in Seq(R) /\ b \in Seq(R) /\ Len(a) = Len(s) + 1 /\ Len(b) = Len(q) - 1 /\ t = a \o b
    BY <1>1
  <2> HIDE DEF a, b, t
  <2>2. /\ a \o b \in Seq(R) /\ Len(a \o b) = Len(a) + Len(b)
        /\ \A k \in 1 .. Len(a) + Len(b) :
              (a \o b)[k] = IF k <= Len(a) THEN a[k] ELSE b[k - Len(a)]
    BY <2>1, ConcatFacts
  <2>3. Len(a) + Len(b) = total
    BY <1>1, <2>1
  <2> DEFINE v == a \o b
  <2>4. t = v
    BY <2>1
  <2> HIDE DEF v, total
  <2>5. v \in Seq(R) /\ Len(v) = total
        /\ \A k \in 1 .. total : v[k] = IF k <= Len(a) THEN a[k] ELSE b[k - Len(a)]
    BY <2>2, <2>3 DEF v
  <2>6. QED
    BY <2>1, <2>4, <2>5
<1>3. /\ u \in Seq(R) /\ Len(u) = total
      /\ \A k \in 1 .. total : u[k] = IF k <= Len(s) THEN s[k] ELSE q[k - Len(s)]
  BY <1>1
<1>4. ASSUME NEW k \in 1 .. total
      PROVE  t[k] = u[k]
  <2>1. CASE k <= Len(s)
    <3>1. k \in 1 .. Len(s) + 1 /\ k # Len(s) + 1 /\ k <= Len(s) + 1
      BY <1>1, <2>1
    <3>2. a[k] = s[k]
      BY <1>1, <3>1
    <3> HIDE DEF t, u, total, a, b
    <3>3. QED
      BY <1>2, <1>3, <2>1, <3>1, <3>2
  <2>2. CASE k = Len(s) + 1
    <3>1. k - Len(s) = 1 /\ ~(k <= Len(s)) /\ k <= Len(s) + 1 /\ k \in 1 .. Len(s) + 1
      BY <1>1, <2>2
    <3>2. a[k] = q[1]
      BY <1>1, <2>2, <3>1
    <3> HIDE DEF t, u, total, a, b
    <3>3. QED
      BY <1>2, <1>3, <3>1, <3>2
  <2>3. CASE k > Len(s) + 1
    <3>1. /\ k - (Len(s) + 1) \in 1 .. Len(q) - 1 /\ (k - (Len(s) + 1)) + 1 = k - Len(s)
          /\ ~(k <= Len(s)) /\ ~(k <= Len(s) + 1)
      BY <1>1, <2>3
    <3>2. b[k - (Len(s) + 1)] = q[k - Len(s)]
      BY <1>1, <3>1
    <3> HIDE DEF t, u, total, a, b
    <3>3. QED
      BY <1>2, <1>3, <3>1, <3>2
  <2>4. QED
    BY <1>1, <2>1, <2>2, <2>3
<1> HIDE DEF t, u, total, a, b
<1>5. t = [k \in 1 .. Len(t) |-> t[k]] /\ u = [k \in 1 .. Len(u) |-> u[k]]
  BY <1>2, <1>3
<1>6. t = u
  BY <1>2, <1>3, <1>4, <1>5
<1>7. QED
  BY <1>6 DEF t, u

(* The end of a sequence grows with it. *)
LEMMA SuffixAppend ==
    ASSUME NEW p \in Seq(Events), NEW e \in Events, NEW n \in Nat, n <= Len(p)
    PROVE  /\ SubSeq(p, n + 1, Len(p)) \in Seq(Events)
           /\ SubSeq(Append(p, e), n + 1, Len(Append(p, e))) = Append(SubSeq(p, n + 1, Len(p)), e)
<1> DEFINE g == SubSeq(p, n + 1, Len(p))
           q == Append(p, e)
           h == Append(g, e)
<1>1. n \in 0 .. Len(p) /\ Len(p) \in Nat
  OBVIOUS
<1>2. g \in Seq(Events) /\ Len(g) = Len(p) - n /\ TailOf(g, p)
  BY <1>1, TailSub
<1>3. TailOf(h, q)
  BY <1>2, TailAppend
<1>4. Len(h) = Len(g) + 1 /\ Len(q) = Len(p) + 1
  BY <1>2
<1> HIDE DEF g
<1>5. Len(q) - Len(h) + 1 = n + 1
  BY <1>1, <1>2, <1>4
<1> HIDE DEF q, h
<1>6. h = SubSeq(q, n + 1, Len(q))
  BY <1>3, <1>5 DEF TailOf
<1>7. QED
  BY <1>2, <1>6 DEF g, q, h

(* Parts of an ascending sequence ascend. *)
LEMMA TailAscends ==
    ASSUME NEW h \in Seq(Events), NEW p \in Seq(Events), TailOf(h, p)
    PROVE  Range(h) \subseteq Range(p) /\ (Ascending(p) => Ascending(h))
<1>1. Len(h) <= Len(p) /\ \A k \in 1 .. Len(h) : h[k] = p[Len(p) - Len(h) + k]
  BY TailByIndex
<1>2. Len(h) \in Nat /\ Len(p) \in Nat /\ DOMAIN h = 1 .. Len(h) /\ DOMAIN p = 1 .. Len(p)
  OBVIOUS
<1>3. \A k \in 1 .. Len(h) : Len(p) - Len(h) + k \in 1 .. Len(p)
  BY <1>1, <1>2
<1>4. \A j, k \in 1 .. Len(h) : j < k => Len(p) - Len(h) + j < Len(p) - Len(h) + k
  BY <1>2
<1>5. Range(h) \subseteq Range(p)
  BY <1>1, <1>2, <1>3 DEF Range
<1>6. ASSUME Ascending(p), NEW j \in DOMAIN h, NEW k \in DOMAIN h, j < k
      PROVE  h[j].seq < h[k].seq /\ ~h[j].end
  <2>1. h[j] = p[Len(p) - Len(h) + j] /\ h[k] = p[Len(p) - Len(h) + k]
    BY <1>1, <1>2
  <2>2. QED
    BY <1>2, <1>3, <1>4, <1>6, <2>1 DEF Ascending
<1>7. QED
  BY <1>5, <1>6 DEF Ascending

LEMMA PrefixAscends ==
    ASSUME NEW p \in Seq(Events), NEW n \in Nat, n <= Len(p)
    PROVE  LET h == SubSeq(p, 1, n) IN
           h \in Seq(Events) /\ Range(h) \subseteq Range(p) /\ (Ascending(p) => Ascending(h))
<1> DEFINE h == SubSeq(p, 1, n)
<1>1. /\ h \in Seq(Events) /\ DOMAIN h = 1 .. n /\ DOMAIN p = 1 .. Len(p) /\ Len(p) \in Nat
      /\ \A k \in 1 .. n : h[k] = p[k]
  OBVIOUS
<1> HIDE DEF h
<1>2. \A k \in 1 .. n : k \in 1 .. Len(p)
  BY <1>1
<1>3. QED
  BY <1>1, <1>2 DEF Range, Ascending, h

-----------------------------------------------------------------------------
(* What clients receive *)

LEMMA ReceivedType ==
    ASSUME TypeOK, NEW c \in Clients
    PROVE  /\ seen[c] \in Seq(Events) /\ queue[c] \in Seq(Events)
           /\ Received(c) \in Seq(Events) /\ follows[c] \in Runs
           /\ published[follows[c]] \in Seq(Events) /\ history[follows[c]] \in Seq(Events)
<1>1. seen[c] \in Seq(Events) /\ queue[c] \in Seq(Events)
  BY DEF TypeOK
<1>2. follows[c] \in Runs
  BY StreamsAssumption
<1>3. QED
  BY <1>1, <1>2, ConcatFacts DEF TypeOK, Received

LEMMA ClientKept ==
    ASSUME NEW c, ClientFacts(c), Received(c)' = Received(c), origin'[c] = origin[c],
           phase'[c] = "new" => phase[c] = "new" /\ seen'[c] = seen[c] /\ queue'[c] = queue[c],
           c \in subscribers'[follows[c]] =>
               c \in subscribers[follows[c]] /\ published'[follows[c]] = published[follows[c]]
    PROVE  ClientFacts(c)'
<1>1. Ascending(Received(c))'
  <2>1. Ascending(Received(c))
    BY DEF ClientFacts
  <2>2. QED
    BY <2>1 DEF Ascending
<1>2. phase'[c] = "new" => seen'[c] = <<>> /\ queue'[c] = <<>>
  BY DEF ClientFacts
<1>3. ASSUME c \in subscribers'[follows[c]]
      PROVE  /\ Range(Received(c)') \subseteq Range(published'[follows[c]])
             /\ origin'[c] <= Len(published'[follows[c]])
             /\ since_seq[c] > 0 =>
                   \E e \in Range(published'[follows[c]]) : e.seq = since_seq[c]
             /\ Complete(c)'
  <2>1. c \in subscribers[follows[c]] /\ published'[follows[c]] = published[follows[c]]
    BY <1>3
  <2>2. /\ Range(Received(c)) \subseteq Range(published[follows[c]])
        /\ origin[c] <= Len(published[follows[c]])
        /\ since_seq[c] > 0 => \E e \in Range(published[follows[c]]) : e.seq = since_seq[c]
        /\ Complete(c)
    BY <2>1 DEF ClientFacts
  <2>3. Complete(c)'
    <3> DEFINE all == published[follows[c]]
               a == After(SubSeq(all, origin[c] + 1, Len(all)), since_seq[c])
    <3>1. maxsize[c] = 0 /\ since_seq[c] >= 0 => Received(c) = a
      BY <2>2 DEF Complete
    <3>2. After(SubSeq(published[follows[c]], origin[c] + 1, Len(published[follows[c]])),
                since_seq[c])' = a
      BY <2>1 DEF After, Later, Place
    <3> HIDE DEF a
    <3>3. QED
      BY <3>1, <3>2 DEF Complete
  <2>4. QED
    BY <2>1, <2>2, <2>3
<1>4. QED
  BY <1>1, <1>2, <1>3 DEF ClientFacts

(* An event that is later than all that was published of its run, which was  *)
(* not over.                                                                *)
NewEvent(e, r) ==
    /\ e.seq \in Nat \ {0}
    /\ \A k \in DOMAIN published[r] : published[r][k].seq < e.seq /\ ~published[r][k].end

LEMMA ClientPublish ==
    ASSUME TypeOK, SubscriberInv, NEW c \in Clients, ClientFacts(c),
           NEW r \in Runs, NEW e \in Events, NEW counter, NEW S \in SUBSET Runs,
           PublishAndPop(r, e, counter, S), UNCHANGED <<phase, seen, origin>>,
           c \in subscribers[r] => NewEvent(e, r)
    PROVE  ClientFacts(c)'
<1> DEFINE all == published[follows[c]]
           got == Received(c)
<1>1. /\ published' = [published EXCEPT ![r] = Append(@, e)]
      /\ queue' = [d \in Clients |-> IF d \in subscribers[r] /\ Room(d)
                                     THEN Append(queue[d], e) ELSE queue[d]]
      /\ subscribers' = [x \in Runs |-> IF x \in S THEN {} ELSE subscribers[x]]
  BY DEF PublishAndPop
<1>2. /\ seen[c] \in Seq(Events) /\ queue[c] \in Seq(Events) /\ got \in Seq(Events)
      /\ follows[c] \in Runs /\ all \in Seq(Events)
      /\ published \in [Runs -> Seq(Events)] /\ maxsize[c] \in Nat /\ since_seq[c] \in Int
      /\ origin[c] \in Nat
  BY ReceivedType, StreamsAssumption DEF TypeOK
<1>3. c \in subscribers'[follows[c]] => c \in subscribers[follows[c]]
  BY <1>1, <1>2
<1>4. CASE c \notin subscribers[r]
  <2>1. queue'[c] = queue[c]
    BY <1>1, <1>4
  <2>2. Received(c)' = Received(c)
    BY <2>1 DEF Received
  <2>3. c \in subscribers'[follows[c]] => published'[follows[c]] = published[follows[c]]
    BY <1>1, <1>2, <1>3, <1>4
  <2>4. QED
    BY <1>3, <2>1, <2>2, <2>3, ClientKept
<1>5. CASE c \in subscribers[r]
  <2>1. follows[c] = r /\ phase'[c] # "new"
    BY <1>5 DEF SubscriberInv
  <2>2. /\ Ascending(got) /\ Range(got) \subseteq Range(all) /\ origin[c] <= Len(all)
        /\ since_seq[c] > 0 => \E f \in Range(all) : f.seq = since_seq[c]
        /\ Complete(c)
    BY <1>5, <2>1 DEF ClientFacts
  <2>3. published'[follows[c]] = Append(all, e)
    BY <1>1, <1>2, <2>1
  <2>4. /\ Range(Append(all, e)) = Range(all) \cup {e}
        /\ Range(Append(got, e)) = Range(got) \cup {e}
        /\ Len(Append(all, e)) = Len(all) + 1 /\ Len(all) \in Nat
    BY <1>2, RangeAppend
  <2>5. \A f \in Range(all) : f.seq < e.seq /\ ~f.end
    BY <1>5, <2>1 DEF NewEvent, Range
  <2>6. Received(c)' = IF Room(c) THEN Append(got, e) ELSE got
    <3>1. queue'[c] = IF Room(c) THEN Append(queue[c], e) ELSE queue[c]
      BY <1>1, <1>5
    <3>2. seen[c] \o Append(queue[c], e) = Append(seen[c] \o queue[c], e)
      <4>1. \A s, q \in Seq(Events), x \in Events : s \o Append(q, x) = Append(s \o q, x)
        BY ConcatAppend
      <4>2. seen[c] \in Seq(Events) /\ queue[c] \in Seq(Events)
        BY <1>2
      <4>3. QED
        BY <4>1, <4>2, Zenon
    <3>3. QED
      BY <3>1, <3>2 DEF Received
  <2>7. Ascending(Append(got, e))
    <3>1. \A i \in DOMAIN got : got[i] \in Range(all)
      BY <2>2 DEF Range
    <3>2. \A i \in DOMAIN got : got[i].seq < e.seq /\ ~got[i].end
      BY <2>5, <3>1
    <3> HIDE DEF got
    <3>3. QED
      BY <1>2, <2>2, <3>2, AscendingAppend
  <2>8. maxsize[c] = 0 => Room(c)
    BY DEF Room
  <2>9. ASSUME maxsize[c] = 0, since_seq[c] >= 0
        PROVE  Append(got, e) = After(SubSeq(Append(all, e), origin[c] + 1, Len(Append(all, e))),
                                      since_seq[c])
    <3> DEFINE g == SubSeq(all, origin[c] + 1, Len(all))
    <3>1. /\ g \in Seq(Events)
          /\ SubSeq(Append(all, e), origin[c] + 1, Len(Append(all, e))) = Append(g, e)
      <4> HIDE DEF all
      <4>1. QED
        BY <1>2, <2>2, SuffixAppend
    <3>2. got = After(g, since_seq[c])
      BY <2>2, <2>9 DEF Complete
    <3> HIDE DEF g
    <3>3. Selects(g, since_seq[c])
      BY <1>2, <3>1, AfterSelects
    <3>4. e.seq > since_seq[c]
      <4>1. e.seq \in Nat \ {0}
        BY <1>5 DEF NewEvent
      <4>2. CASE since_seq[c] > 0
        BY <2>2, <2>5, <4>1, <4>2
      <4>3. CASE ~(since_seq[c] > 0)
        BY <1>2, <4>1, <4>3
      <4>4. QED
        BY <4>2, <4>3
    <3>5. After(Append(g, e), since_seq[c]) = Append(After(g, since_seq[c]), e)
      <4>1. /\ After(g, since_seq[c]) \in Seq(Events)
            /\ \A k \in 1 .. Cardinality(Later(g, since_seq[c])) : Place(g, since_seq[c], k) # {}
        BY <3>3 DEF Selects
      <4>2. After(Append(g, e), since_seq[c])
              = IF e.seq > since_seq[c] THEN Append(After(g, since_seq[c]), e)
                ELSE After(g, since_seq[c])
        BY <1>2, <3>1, <4>1, AfterAppend
      <4>3. QED
        BY <3>4, <4>2
    <3>6. QED
      BY <3>1, <3>2, <3>5
  <2> HIDE DEF all, got
  <2>10. Ascending(Received(c)')
    BY <2>2, <2>6, <2>7
  <2>11. Range(Received(c)') \subseteq Range(published'[follows[c]])
    BY <2>2, <2>3, <2>4, <2>6
  <2>12. origin'[c] <= Len(published'[follows[c]])
    BY <1>2, <2>2, <2>3, <2>4
  <2>13. since_seq[c] > 0 => \E f \in Range(published'[follows[c]]) : f.seq = since_seq[c]
    BY <2>2, <2>3, <2>4
  <2>14. Complete(c)'
    <3>1. maxsize[c] = 0 /\ since_seq[c] >= 0 => Received(c)' = Append(got, e)
      BY <2>6, <2>8
    <3>2. maxsize[c] = 0 /\ since_seq[c] >= 0 =>
             Received(c)' = After(SubSeq(published'[follows[c]], origin'[c] + 1,
                                         Len(published'[follows[c]])), since_seq[c])
      BY <2>3, <2>9, <3>1
    <3>3. QED
      BY <3>2 DEF Complete, After, Later, Place
  <2>15. QED
    BY <2>1, <2>10, <2>11, <2>12, <2>13, <2>14 DEF ClientFacts, Ascending
<1>6. QED
  BY <1>4, <1>5

(* Publishing gives every subscriber an event later than those before it.    *)
LEMMA PublishedIsNew ==
    ASSUME TypeOK, SubscriberInv, NumberInv, NEW r \in Runs, state[r] # "ended", NEW c,
           c \in subscribers[r]
    PROVE  /\ \A e \in Events : e.seq = seq[r] + 1 => NewEvent(e, r)
           /\ \A e \in Events : Newer(e.seq, r) => NewEvent(e, r)
<1>1. r \in stored
  BY DEF SubscriberInv
<1>2. /\ seq[r] \in Nat
      /\ \A k \in DOMAIN published[r] : published[r][k].seq \in 1 .. seq[r] /\ ~published[r][k].end
  BY <1>1 DEF NumberInv, RunNumbers, TypeOK
<1>3. ASSUME NEW e \in Events, e.seq = seq[r] + 1
      PROVE  NewEvent(e, r)
  BY <1>2, <1>3 DEF NewEvent
<1>4. ASSUME NEW e \in Events, Newer(e.seq, r)
      PROVE  NewEvent(e, r)
  BY <1>2, <1>4 DEF NewEvent, Newer
<1>5. QED
  BY <1>3, <1>4

LEMMA SubscribeFacts ==
    ASSUME TypeOK, TailInv, NumberInv, NEW c \in Clients, ClientFacts(c), Subscribe(c)
    PROVE  ClientFacts(c)'
<1> DEFINE all == published[follows[c]]
           h == history[follows[c]]
           got == Replay(c)
           fits == maxsize[c] = 0 \/ Len(got) <= maxsize[c]
           q == IF fits THEN got ELSE SubSeq(got, 1, maxsize[c])
<1>1. /\ phase[c] = "new" /\ follows[c] \in stored
      /\ since_seq[c] > 0 => \E e \in Range(all) : e.seq = since_seq[c] /\ ~e.end
      /\ phase' = [phase EXCEPT ![c] = IF fits THEN "open" ELSE "failed"]
      /\ queue' = [queue EXCEPT ![c] = q]
      /\ origin' = [origin EXCEPT ![c] = Len(all) - Len(h)]
      /\ published' = published /\ seen' = seen
  BY DEF Subscribe
<1>2. /\ phase \in [Clients -> Phases] /\ queue \in [Clients -> Seq(Events)]
      /\ origin \in [Clients -> Nat] /\ maxsize[c] \in Nat /\ since_seq[c] \in Int
      /\ all \in Seq(Events) /\ h \in Seq(Events)
  BY ReceivedType, StreamsAssumption DEF TypeOK
<1>3. seen[c] = <<>> /\ queue'[c] = q /\ phase'[c] # "new" /\ origin'[c] = Len(all) - Len(h)
  BY <1>1, <1>2 DEF ClientFacts
<1>4. /\ got \in Seq(Events) /\ Range(got) \subseteq Range(h) /\ (Ascending(h) => Ascending(got))
  BY ReplayFacts
<1>5. TailOf(h, all) /\ Ascending(all)
  BY <1>1 DEF TailInv, NumberInv, RunNumbers
<1>6. Range(h) \subseteq Range(all) /\ Ascending(h) /\ Len(h) <= Len(all)
      /\ Len(h) \in Nat /\ Len(all) \in Nat
  <2>1. Range(h) \subseteq Range(all) /\ Ascending(h)
    BY <1>2, <1>5, TailAscends
  <2>2. Len(h) <= Len(all) /\ Len(h) \in Nat /\ Len(all) \in Nat
    BY <1>2, <1>5 DEF TailOf
  <2>3. QED
    BY <2>1, <2>2
<1>7. q \in Seq(Events) /\ Range(q) \subseteq Range(got) /\ Ascending(q)
  <2>1. CASE fits
    BY <1>4, <1>6, <2>1
  <2>2. CASE ~fits
    <3>1. maxsize[c] <= Len(got) /\ q = SubSeq(got, 1, maxsize[c])
      BY <1>2, <1>4, <2>2
    <3> HIDE DEF got, q
    <3>2. QED
      BY <1>2, <1>4, <1>6, <3>1, PrefixAscends
  <2>3. QED
    BY <2>1, <2>2
<1>8. Received(c)' = q
  <2> HIDE DEF q
  <2>1. <<>> \o q = q
    BY <1>7
  <2>2. QED
    BY <1>1, <1>3, <2>1 DEF Received
<1>9. ASSUME maxsize[c] = 0, since_seq[c] >= 0
      PROVE  q = After(SubSeq(all, origin'[c] + 1, Len(all)), since_seq[c])
  <2>1. q = After(h, since_seq[c])
    <3>1. ~(since_seq[c] < 0)
      BY <1>2, <1>9
    <3>2. QED
      BY <1>9, <3>1 DEF Replay
  <2>2. h = SubSeq(all, origin'[c] + 1, Len(all))
    BY <1>3, <1>5 DEF TailOf
  <2>3. QED
    BY <2>1, <2>2
<1>10. origin'[c] <= Len(all)
  <2>1. \A m, n \in Nat : m - n <= m
    OBVIOUS
  <2>2. Len(all) - Len(h) <= Len(all)
    BY <1>6, <2>1
  <2>3. QED
    BY <1>3, <2>2, Zenon
<1> HIDE DEF q, got, h, fits
<1>11. Range(Received(c)') \subseteq Range(all) /\ Ascending(Received(c)')
  <2>1. Range(q) \subseteq Range(all)
    BY <1>4, <1>6, <1>7
  <2>2. Ascending(q)
    BY <1>7
  <2> HIDE DEF all
  <2>3. QED
    BY <1>8, <2>1, <2>2
<1>12. Complete(c)'
  <2> HIDE DEF all
  <2>1. maxsize[c] = 0 /\ since_seq[c] >= 0 =>
           Received(c)' = After(SubSeq(all, origin'[c] + 1, Len(all)), since_seq[c])
    BY <1>8, <1>9
  <2>2. maxsize[c] = 0 /\ since_seq[c] >= 0 =>
           Received(c)' = After(SubSeq(published'[follows[c]], origin'[c] + 1,
                                       Len(published'[follows[c]])), since_seq[c])
    BY <1>1, <2>1 DEF all
  <2>3. QED
    BY <2>2 DEF Complete, After, Later, Place
<1>13. since_seq[c] > 0 => \E e \in Range(all) : e.seq = since_seq[c]
  BY <1>1
<1>14. QED
  BY <1>1, <1>3, <1>10, <1>11, <1>12, <1>13 DEF ClientFacts, Ascending

LEMMA ClientInvStep ==
    ASSUME OnePublisher, BusInv, FlightInv, NumberInv, ClientInv, [Next]_vars
    PROVE  ClientInv'
<1>0. /\ TypeOK /\ TailInv /\ SubscriberInv /\ stored \subseteq Runs /\ {} \in SUBSET Runs
      /\ subscribers \in [Runs -> SUBSET Clients] /\ phase \in [Clients -> Phases]
      /\ follows \in [Clients -> Runs]
  BY StreamsAssumption DEF BusInv, TypeOK
<1> SUFFICES ASSUME NEW d \in Clients
             PROVE  ClientFacts(d)'
  BY DEF ClientInv
<1>1. ClientFacts(d) /\ follows[d] \in Runs
  BY <1>0 DEF ClientInv
<1>2. ASSUME UNCHANGED <<seen, origin, published>>, queue'[d] = queue[d],
             phase'[d] = "new" => phase[d] = "new",
             d \in subscribers'[follows[d]] => d \in subscribers[follows[d]]
      PROVE  ClientFacts(d)'
  BY <1>1, <1>2, ClientKept DEF Received
<1>3. ASSUME NEW r \in Runs, NEW end \in BOOLEAN, NEW S \in SUBSET Runs, EmitAndPop(r, end, S),
             state[r] # "ended", UNCHANGED <<phase, seen, origin>>
      PROVE  ClientFacts(d)'
  <2> DEFINE e == Event(seq[r] + 1, end)
             counter == [seq EXCEPT ![r] = seq[r] + 1]
  <2>1. e \in Events /\ PublishAndPop(r, e, counter, S)
    BY <1>0, <1>3, EmitIsPublish
  <2>2. e.seq = seq[r] + 1
    BY DEF Event
  <2> HIDE DEF e, counter
  <2>3. d \in subscribers[r] => NewEvent(e, r)
    BY <1>0, <1>3, <2>1, <2>2, PublishedIsNew
  <2>4. QED
    BY <1>0, <1>1, <1>3, <2>1, <2>3, ClientPublish
<1>4. ASSUME NEW r \in Runs, RunStep(r)
      PROVE  ClientFacts(d)'
  <2>1. CASE Begin(r)
    BY <1>0, <1>3, <2>1 DEF Begin, clientVars
  <2>2. CASE Note(r)
    BY <1>0, <1>3, <2>2 DEF Note, clientVars
  <2>3. CASE End(r)
    <3>1. PICK S \in SUBSET {x \in stored : x = r \/ state[x] = "ended"} : EmitAndPop(r, TRUE, S)
      BY <2>3 DEF End
    <3>2. S \in SUBSET Runs /\ state[r] # "ended" /\ UNCHANGED <<phase, seen, origin>>
      BY <1>0, <2>3 DEF End, clientVars
    <3>3. QED
      BY <1>3, <3>1, <3>2
  <2>4. CASE CancelPending(r)
    BY <1>0, <1>3, <2>4 DEF CancelPending, clientVars
  <2>5. CASE PopRun(r)
    <3>1. /\ UNCHANGED <<seen, origin, published, queue, phase>>
          /\ subscribers' = [subscribers EXCEPT ![r] = {}]
      BY <2>5 DEF PopRun, clientVars
    <3>2. QED
      BY <1>0, <1>1, <1>2, <3>1
  <2>6. QED
    BY <1>4, <2>1, <2>2, <2>3, <2>4, <2>5 DEF RunStep
<1>5. ASSUME NEW t \in Threads, ThreadStep(t)
      PROVE  ClientFacts(d)'
  BY <1>2, <1>5 DEF ThreadStep, Draw, Post, Return, busVars, clientVars
<1>6. ASSUME RunCallback
      PROVE  ClientFacts(d)'
  <2>1. ready # <<>> /\ Head(ready) = ready[1] /\ 1 \in DOMAIN ready
    BY <1>0, <1>6, HeadFacts, ReadyShrinks DEF RunCallback
  <2>2. CASE /\ ready[1].do = "publish" /\ UNCHANGED <<phase, seen, origin>>
             /\ PublishAndPop(ready[1].for, ready[1].event, seq, {})
    <3>1. ready[1].for \in Runs /\ ready[1].event \in Events
      BY <1>0, <2>1, <2>2, HeadFacts
    <3>2. PICK r \in Runs : r = ready[1].for
      BY <3>1
    <3>3. PICK e \in Events : e = ready[1].event
      BY <3>1
    <3>4. Publishes(1, r)
      BY <2>2, <3>2 DEF Publishes
    <3>5. PICK t \in Threads : writes_to[t] = r /\ Awaited(1, t)
      BY <2>1, <3>4 DEF FlightInv
    <3>6. state[r] # "ended"
      BY <3>5 DEF Awaited, FlightInv
    <3>7. d \in subscribers[r] => NewEvent(e, r)
      <4>1. d \in subscribers[r] => r \in stored
        BY <1>0 DEF SubscriberInv
      <4>2. r \in stored => Newer(e.seq, r)
        BY <2>1, <3>3, <3>4 DEF NumberInv, RunNumbers
      <4>3. QED
        BY <1>0, <3>6, <4>1, <4>2, PublishedIsNew
    <3>8. PublishAndPop(r, e, seq, {})
      BY <2>2, <3>2, <3>3
    <3>9. QED
      BY <1>0, <1>1, <2>2, <3>7, <3>8, ClientPublish
  <2>3. CASE UNCHANGED <<phase, seen, origin, queue, published, subscribers>>
    BY <1>2, <2>3
  <2>4. CASE /\ ready[1].do = "cancel" /\ subscribers' = Unsubscribed(ready[1].for)
             /\ phase' = [phase EXCEPT ![ready[1].for] = IF @ = "closed" THEN @ ELSE "cancelled"]
             /\ UNCHANGED <<seen, origin, queue, published>>
    <3>1. ready[1].for \in Clients
      BY <1>0, <2>1, <2>4, HeadFacts DEF Clients
    <3>2. subscribers'[follows[d]] \subseteq subscribers[follows[d]]
      BY <1>0, <1>1, <2>4, <3>1 DEF Unsubscribed
    <3>3. phase'[d] = "new" => phase[d] = "new"
      BY <1>0, <2>4, <3>1
    <3>4. QED
      BY <1>2, <2>4, <3>2, <3>3
  <2>5. QED
    BY <1>6, <2>1, <2>2, <2>3, <2>4 DEF RunCallback, busVars, clientVars
<1>7. ASSUME NEW c \in Clients, ClientStep(c)
      PROVE  ClientFacts(d)'
  <2>0. published' = published
    BY <1>7 DEF ClientStep, Subscribe, Receive, Leave, Watch, Watched, Unwatch,
                Unregister, busVars
  <2>1. Unsubscribed(c) = [subscribers EXCEPT ![follows[c]] = @ \ {c}]
    BY DEF Unsubscribed
  <2>2. CASE Subscribe(c)
    <3>1. CASE c = d
      BY <1>0, <1>1, <2>2, <3>1, SubscribeFacts
    <3>2. CASE c # d
      <4>1. /\ UNCHANGED <<seen, published>> /\ queue'[d] = queue[d] /\ origin'[d] = origin[d]
            /\ phase'[d] = phase[d]
            /\ subscribers' = [subscribers EXCEPT ![follows[c]] = @ \cup {c}]
        BY <1>0, <2>2, <3>2 DEF Subscribe, TypeOK
      <4>2. d \in subscribers'[follows[d]] => d \in subscribers[follows[d]]
        BY <1>0, <1>1, <3>2, <4>1
      <4>3. QED
        BY <1>1, <4>1, <4>2, ClientKept DEF Received
    <3>3. QED
      BY <3>1, <3>2
  <2>3. ASSUME Taken(c), origin' = origin, phase'[c] # "new",
               \A x \in Clients \ {c} : phase'[x] = phase[x],
               \A x \in Runs : subscribers'[x] \subseteq subscribers[x]
        PROVE  ClientFacts(d)'
    <3>1. /\ queue[c] # <<>> /\ queue' = [queue EXCEPT ![c] = Tail(@)]
          /\ seen' = [seen EXCEPT ![c] = Append(@, Head(queue[c]))]
      BY <2>3 DEF Taken
    <3>2. queue \in [Clients -> Seq(Events)] /\ seen \in [Clients -> Seq(Events)]
      BY <1>0 DEF TypeOK
    <3>3. CASE c = d
      <4>1. queue'[d] = Tail(queue[d]) /\ seen'[d] = Append(seen[d], Head(queue[d]))
        BY <3>1, <3>2, <3>3
      <4>2. \A s, q \in Seq(Events) : q # <<>> => Append(s, Head(q)) \o Tail(q) = s \o q
        BY TakeOne
      <4>3. seen[d] \in Seq(Events) /\ queue[d] \in Seq(Events) /\ queue[d] # <<>>
        BY <3>1, <3>2, <3>3
      <4>4. Append(seen[d], Head(queue[d])) \o Tail(queue[d]) = seen[d] \o queue[d]
        BY <4>2, <4>3, Zenon
      <4>5. Received(d)' = Received(d)
        BY <4>1, <4>4 DEF Received
      <4>6. QED
        BY <1>1, <2>0, <2>3, <3>3, <4>5, ClientKept
    <3>4. CASE c # d
      <4>1. queue'[d] = queue[d] /\ seen'[d] = seen[d]
        BY <3>1, <3>2, <3>4
      <4>2. QED
        BY <1>1, <2>0, <2>3, <3>4, <4>1, ClientKept DEF Received
    <3>5. QED
      BY <3>3, <3>4
  <2>4. CASE Receive(c)
    <3>1. /\ Taken(c) /\ origin' = origin
          /\ phase' = [phase EXCEPT ![c] = IF Head(queue[c]).end THEN "closed" ELSE "open"]
          /\ subscribers' = Unsubscribed(c) \/ subscribers' = subscribers
      BY <2>4 DEF Receive
    <3>2. /\ phase'[c] # "new" /\ \A x \in Clients \ {c} : phase'[x] = phase[x]
          /\ \A x \in Runs : subscribers'[x] \subseteq subscribers[x]
      BY <1>0, <2>1, <3>1
    <3>3. QED
      BY <2>3, <3>1, <3>2
  <2>5. CASE Watch(c)
    <3>1. /\ Taken(c) /\ origin' = origin /\ phase' = [phase EXCEPT ![c] = "on_event"]
          /\ subscribers' = subscribers
      BY <2>5 DEF Watch, busVars
    <3>2. phase'[c] # "new" /\ \A x \in Clients \ {c} : phase'[x] = phase[x]
      BY <1>0, <3>1
    <3>3. QED
      BY <2>3, <3>1, <3>2
  <2>6. CASE Leave(c) \/ Unwatch(c)
    <3>1. /\ UNCHANGED <<seen, origin, queue>> /\ subscribers' = Unsubscribed(c)
          /\ phase' = [phase EXCEPT ![c] = "closed"]
      BY <2>6 DEF Leave, Unwatch
    <3>2. /\ phase'[d] = "new" => phase[d] = "new"
          /\ subscribers'[follows[d]] \subseteq subscribers[follows[d]]
      BY <1>0, <1>1, <2>1, <3>1
    <3>3. QED
      BY <1>2, <2>0, <3>1, <3>2
  <2>7. CASE Watched(c)
    <3>1. /\ UNCHANGED <<seen, origin, queue, subscribers>>
          /\ phase' = [phase EXCEPT ![c] =
                          IF seen[c][Len(seen[c])].end THEN "on_done" ELSE "open"]
      BY <2>7 DEF Watched, busVars
    <3>2. phase'[d] = "new" => phase[d] = "new"
      BY <1>0, <3>1
    <3>3. QED
      BY <1>2, <2>0, <3>1, <3>2
  <2>8. CASE Unregister(c)
    BY <1>2, <2>8 DEF Unregister, busVars
  <2>9. QED
    BY <1>7, <2>2, <2>4, <2>5, <2>6, <2>7, <2>8 DEF ClientStep
<1>8. CASE UNCHANGED vars
  BY <1>2, <1>8 DEF vars, busVars, clientVars
<1>9. QED
  BY <1>4, <1>5, <1>6, <1>7, <1>8 DEF Next, Finished

LEMMA NumberStart == Init => NumberInv /\ ClientInv
<1> SUFFICES ASSUME Init
             PROVE  NumberInv /\ ClientInv
  OBVIOUS
<1>1. /\ ready = <<>> /\ \A r \in Runs : published[r] = <<>> /\ subscribers[r] = {}
      /\ \A c \in Clients : seen[c] = <<>> /\ queue[c] = <<>>
      /\ \A t \in Threads : tpc[t] = "unborn"
      /\ stored = Runs
  BY DEF Init
<1>2. DOMAIN <<>> = {} /\ <<>> \o <<>> = <<>> /\ Ascending(<<>>)
  BY DEF Ascending
<1>3. \A r \in Runs : RunNumbers(r)
  BY <1>1, <1>2 DEF RunNumbers
<1>4. \A c \in Clients : ClientFacts(c)
  <2>1. \A c \in Clients : Received(c) = <<>> /\ c \notin subscribers[follows[c]]
    BY <1>1, <1>2, StreamsAssumption DEF Received
  <2>2. QED
    BY <1>1, <1>2, <2>1 DEF ClientFacts
<1>5. QED
  BY <1>1, <1>3, <1>4 DEF NumberInv, ClientInv

LEMMA PublisherInvariant ==
    ASSUME OnePublisher
    PROVE  Spec => [](BusInv /\ FlightInv /\ NumberInv /\ ClientInv)
<1> DEFINE Inv == BusInv /\ FlightInv /\ NumberInv /\ ClientInv
<1>1. Init => Inv
  BY BusStart, FlightStart, NumberStart
<1>2. Inv /\ [Next]_vars => Inv'
  <2> SUFFICES ASSUME Inv, [Next]_vars
               PROVE  Inv'
    OBVIOUS
  <2>1. TypeOK /\ ThreadsJoined
    BY DEF BusInv, OnePublisher
  <2>2. QED
    BY <2>1, BusStep, FlightStep, NumberStep, ClientInvStep
<1>3. QED
  BY <1>1, <1>2, PTL DEF Spec

(* A client gets the events of its run in the order of their numbers, each   *)
(* once, and nothing after the terminal one, whether they are replayed from  *)
(* the history or delivered as they come, as long as one thread at a time    *)
(* publishes them (RunEventBus.subscribe and publish, next_event_seq).      *)
THEOREM ClientsReadInOrder ==
    ASSUME OnePublisher
    PROVE  Spec => []InOrder
<1>1. ClientInv /\ BusInv => InOrder
  <2> SUFFICES ASSUME ClientInv, BusInv, NEW c \in Clients,
                      NEW i \in 1 .. Len(Received(c)) - 1
               PROVE  /\ Received(c)[i].seq < Received(c)[i + 1].seq
                      /\ ~Received(c)[i].end
    BY DEF InOrder
  <2>1. Received(c) \in Seq(Events) /\ Ascending(Received(c))
    BY ReceivedType DEF ClientInv, ClientFacts, BusInv
  <2>2. i \in DOMAIN Received(c) /\ i + 1 \in DOMAIN Received(c) /\ i < i + 1
    BY <2>1
  <2>3. QED
    BY <2>1, <2>2 DEF Ascending
<1>2. QED
  BY <1>1, PublisherInvariant, PTL

(* A subscriber whose queue has no bound misses nothing: replay and live     *)
(* delivery join without a gap and without a repeated event, under the same  *)
(* condition (RunEventBus.subscribe and publish).                           *)
THEOREM StreamsMissNothing ==
    ASSUME OnePublisher
    PROVE  Spec => []StreamComplete
<1>1. ClientInv => StreamComplete
  BY DEF ClientInv, ClientFacts, Complete, StreamComplete
<1>2. QED
  BY <1>1, PublisherInvariant, PTL

=============================================================================
