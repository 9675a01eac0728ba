--------------------------- MODULE SessionsProofs ---------------------------
(***************************************************************************)
(* Theorems about Sessions, for any number of sessions, runs and threads    *)
(* and every limit and retention.                                           *)
(*                                                                         *)
(* The argument: a thread that was admitted counts against the limit from   *)
(* the check on, and when it is admitted only threads that have not listed  *)
(* their runs yet can be missing from the count.  A thread that is about to *)
(* trim a list has in hand what brings the list back into its bound,        *)
(* whoever else trims it before.                                            *)
(***************************************************************************)
EXTENDS Sessions, SequenceFacts, FiniteSetTheorems, TLAPS

Listed(s) == ToSet(run_ids[s])

(* A client has a run in hand while it is in submit_*, no two the same one, *)
(* and its session has been opened.                                         *)
JobsInv ==
    /\ \A c \in Clients : pc[c] # "idle" => job[c] \in Runs
    /\ \A c, d \in Clients : c # d /\ job[c] = job[d] => job[c] = NoRun
    /\ \A c \in Clients : pc[c] \in {"open", "admitted"} => status[Target(c)] # "none"

(* What has become of the run in hand, and of the runs of a list. *)
RunsInv ==
    /\ \A c \in Clients :
          /\ pc[c] \in {"open", "admitted"} => run[job[c]] = "new"
          /\ pc[c] \in {"submitted", "listed", "trimming"} => run[job[c]] # "new"
    /\ \A s \in SessionIds : \A r \in Listed(s) :
          run[r] # "new" /\ r \notin Unlisted

(* Runs that a client is going to remove have ended. *)
TrimInv ==
    \A c \in Clients :
        /\ pc[c] # "trimming" => trimmed[c] = {}
        /\ \A r \in trimmed[c] : run[r] \in {"ended", "gone"}

ListInv == JobsInv /\ RunsInv /\ TrimInv /\ ActiveListed

(* The active runs of a session and the clients that are about to add one. *)
ActiveOf(s) == {r \in Active : session_of[r] = s}
Admitted(s) == {c \in Clients : pc[c] = "admitted" /\ Target(c) = s}
Cap == MaxConcurrent + Cardinality(Clients) - 1

AdmitInv ==
    MaxConcurrent > 0 =>
        \A s \in SessionIds :
            Cardinality(ActiveOf(s)) + Cardinality(Admitted(s)) <= Cap

(* When any of the clients that trim a list are through with it, it is      *)
(* within its bound for the others.                                         *)
Kept == IF Cap < RetainLast THEN RetainLast ELSE Cap
Busy(s) == {c \in Clients : pc[c] \in {"listed", "trimming"} /\ Target(c) = s}
Trimmers(s) == {c \in Clients : pc[c] = "trimming" /\ Target(c) = s}
Leaving(D) == UNION {trimmed[c] : c \in D}

LengthInv ==
    RetainLast >= 0 /\ MaxConcurrent > 0 =>
        \A s \in SessionIds : \A D \in SUBSET Trimmers(s) :
            Cardinality(Listed(s) \ Leaving(D)) <= Kept + Cardinality(Busy(s) \ D)

(* A client that was late for a session does not come back to it. *)
LateInv ==
    /\ LateOnce
    /\ \A x \in late :
          /\ status[session_of[x[2]]] \in {"CLOSED", "EXPIRED"}
          /\ pc[x[1]] \in {"open", "admitted"} => Target(x[1]) # session_of[x[2]]

SessInv == TypeOK /\ ListInv /\ AdmitInv /\ LengthInv /\ LateInv

-----------------------------------------------------------------------------
(* Every step keeps the types *)

Places == [Clients -> {"idle", "open", "admitted", "submitted", "listed", "trimming"}]
Jobs == [Clients -> Runs \cup {NoRun}]

LEMMA ReturnType ==
    ASSUME TypeOK, NEW c \in Clients, Return(c)
    PROVE  pc' \in Places /\ job' \in Jobs
BY DEF TypeOK, Return, Places, Jobs

LEMMA SessTypeStep ==
    ASSUME TypeOK, ListInv, [Next]_vars
    PROVE  TypeOK'
<1> USE DEF Places, Jobs
<1>1. ASSUME NEW s \in SessionIds, Open(s) PROVE TypeOK'
  BY <1>1, SessionsAssumption DEF TypeOK, Open
<1>2. ASSUME NEW s \in SessionIds, Close(s) PROVE TypeOK'
  BY <1>2, SessionsAssumption DEF TypeOK, Close
<1>3. ASSUME NEW s \in SessionIds, Tick(s) PROVE TypeOK'
  <2>1. age' \in [SessionIds -> 0 .. TTL]
    <3>1. age[s] + 1 \in 0 .. TTL
      BY <1>3, SessionsAssumption DEF TypeOK, Tick
    <3>2. QED
      BY <1>3, <3>1 DEF TypeOK, Tick
  <2>2. QED
    BY <1>3, <2>1 DEF TypeOK, Tick
<1>4. ASSUME FindIdle PROVE TypeOK'
  BY <1>4 DEF TypeOK, FindIdle
<1>5. ASSUME MarkExpired PROVE TypeOK'
  BY <1>5 DEF TypeOK, MarkExpired
<1>6. ASSUME NEW c \in Clients, NEW r \in Runs, Enter(c, r) PROVE TypeOK'
  <2>1. age' \in [SessionIds -> 0 .. TTL]
    BY <1>6, SessionsAssumption DEF TypeOK, Enter
  <2>2. pc' \in Places /\ job' \in Jobs
    BY <1>6 DEF TypeOK, Enter
  <2>3. QED
    BY <1>6, <2>1, <2>2 DEF TypeOK, Enter
<1>7. ASSUME NEW c \in Clients, Admit(c) PROVE TypeOK'
  <2>1. pc' \in Places
    BY <1>7 DEF TypeOK, Admit
  <2>2. QED
    BY <1>7, <2>1 DEF TypeOK, Admit
<1>8. ASSUME NEW c \in Clients, Refuse(c) PROVE TypeOK'
  <2>1. pc' \in Places /\ job' \in Jobs
    BY <1>8, ReturnType DEF Refuse
  <2>2. QED
    BY <1>8, <2>1 DEF TypeOK, Refuse
<1>9. ASSUME NEW c \in Clients, Submit(c) PROVE TypeOK'
  <2>1. job[c] \in Runs
    BY <1>9 DEF Submit, ListInv, JobsInv
  <2>2. run' \in [Runs -> {"new", "PENDING", "RUNNING", "ended", "gone"}]
    BY <1>9 DEF TypeOK, Submit
  <2>3. pc' \in Places
    BY <1>9 DEF TypeOK, Submit
  <2>4. late' \subseteq Clients \X Runs
    BY <1>9, <2>1 DEF TypeOK, Submit
  <2>5. QED
    BY <1>9, <2>2, <2>3, <2>4 DEF TypeOK, Submit
<1>10. ASSUME NEW c \in Clients, AddRun(c) PROVE TypeOK'
  <2> DEFINE s == Target(c)
             l == Append(run_ids[s], job[c])
  <2>1. job[c] \in Runs /\ s \in SessionIds
    BY <1>10, SessionsAssumption DEF AddRun, ListInv, JobsInv, Target
  <2>2. run_ids' = [run_ids EXCEPT ![s] = l] /\ run_ids \in [SessionIds -> Seq(Runs)]
    BY <1>10 DEF AddRun, WithRun, TypeOK
  <2>3. l \in Seq(Runs) /\ ToSet(l) = Listed(s) \cup {job[c]}
    BY <2>1, <2>2, AppendSet DEF Listed
  <2>4. job[c] \notin Listed(s)
    BY <1>10, <2>1 DEF AddRun, ListInv, RunsInv, Unlisted
  <2>5. IsInjective(l)
    <3>1. run_ids[s] \in Seq(Runs) /\ IsInjective(run_ids[s])
      BY <2>1 DEF TypeOK
    <3>2. l = Append(run_ids[s], job[c])
      OBVIOUS
    <3> HIDE DEF l
    <3>3. QED
      BY <2>1, <2>4, <3>1, <3>2, AppendDistinct DEF Listed
  <2>6. \A r \in ToSet(l) : session_of[r] = s
    BY <2>1, <2>3 DEF TypeOK, Listed, Target
  <2> HIDE DEF l
  <2>7. run_ids' \in [SessionIds -> Seq(Runs)]
    BY <2>2, <2>3
  <2>8. \A q \in SessionIds : /\ IsInjective(run_ids'[q])
                              /\ \A r \in ToSet(run_ids'[q]) : session_of[r] = q
    <3> SUFFICES ASSUME NEW q \in SessionIds
                 PROVE  /\ IsInjective(run_ids'[q])
                        /\ \A r \in ToSet(run_ids'[q]) : session_of[r] = q
      OBVIOUS
    <3>1. CASE q = s
      <4>1. run_ids'[q] = l
        BY <2>2, <3>1
      <4>2. QED
        BY <2>5, <2>6, <3>1, <4>1
    <3>2. CASE q # s
      <4>1. run_ids'[q] = run_ids[q]
        BY <2>2, <3>2
      <4>2. QED
        BY <4>1 DEF TypeOK
    <3>3. QED
      BY <3>1, <3>2
  <2>9. pc' \in Places
    BY <1>10 DEF TypeOK, AddRun
  <2>10. QED
    BY <1>10, <2>7, <2>8, <2>9 DEF TypeOK, AddRun
<1>11. ASSUME NEW c \in Clients, FindTrimmed(c) PROVE TypeOK'
  <2>1. PICK T \in SUBSET Listed(Target(c)) :
           /\ trimmed' = [trimmed EXCEPT ![c] = T]
           /\ \/ Return(c)
              \/ pc' = [pc EXCEPT ![c] = "trimming"] /\ UNCHANGED job
    BY <1>11 DEF FindTrimmed, Trimmable, Listed
  <2>2. Target(c) \in SessionIds
    BY <1>11, SessionsAssumption DEF FindTrimmed, ListInv, JobsInv, Target
  <2>3. T \in SUBSET Runs
    <3>1. run_ids[Target(c)] \in Seq(Runs)
      BY <2>2 DEF TypeOK
    <3>2. QED
      BY <2>1, <3>1 DEF Listed, ToSet
  <2>4. trimmed' \in [Clients -> SUBSET Runs]
    BY <2>1, <2>3 DEF TypeOK
  <2>5. pc' \in Places /\ job' \in Jobs
    BY <2>1, ReturnType DEF TypeOK
  <2>6. QED
    BY <1>11, <2>4, <2>5 DEF TypeOK, FindTrimmed
<1>12. ASSUME NEW c \in Clients, Trim(c) PROVE TypeOK'
  <2>1. PICK r \in trimmed[c] :
           /\ run_ids' = [run_ids EXCEPT ![Target(c)] = RemoveFirst(@, r)]
           /\ trimmed' = [trimmed EXCEPT ![c] = @ \ {r}]
    BY <1>12 DEF Trim
  <2> DEFINE s == Target(c)
             l == RemoveFirst(run_ids[s], r)
  <2>2. s \in SessionIds
    BY <1>12, SessionsAssumption DEF Trim, ListInv, JobsInv, Target
  <2>3. run_ids[s] \in Seq(Runs) /\ IsInjective(run_ids[s])
    BY <2>2 DEF TypeOK
  <2>4. l \in Seq(Runs) /\ IsInjective(l) /\ ToSet(l) = Listed(s) \ {r}
    BY <2>3, RemoveFirstSet DEF Listed
  <2> HIDE DEF l
  <2>5. run_ids' = [run_ids EXCEPT ![s] = l] /\ run_ids \in [SessionIds -> Seq(Runs)]
    BY <2>1 DEF TypeOK, l
  <2>6. \A q \in SessionIds : /\ IsInjective(run_ids'[q])
                              /\ \A x \in ToSet(run_ids'[q]) : session_of[x] = q
    <3> SUFFICES ASSUME NEW q \in SessionIds
                 PROVE  /\ IsInjective(run_ids'[q])
                        /\ \A x \in ToSet(run_ids'[q]) : session_of[x] = q
      OBVIOUS
    <3>1. CASE q = s
      <4>1. run_ids'[q] = l
        BY <2>5, <3>1
      <4>2. QED
        BY <2>4, <3>1, <4>1 DEF TypeOK, Listed
    <3>2. CASE q # s
      <4>1. run_ids'[q] = run_ids[q]
        BY <2>5, <3>2
      <4>2. QED
        BY <4>1 DEF TypeOK
    <3>3. QED
      BY <3>1, <3>2
  <2>7. run_ids' \in [SessionIds -> Seq(Runs)]
    BY <2>4, <2>5
  <2>8. trimmed' \in [Clients -> SUBSET Runs]
    BY <2>1 DEF TypeOK
  <2>9. pc' \in Places /\ job' \in Jobs
    BY <1>12, ReturnType DEF Trim, TypeOK
  <2>10. QED
    BY <1>12, <2>6, <2>7, <2>8, <2>9 DEF TypeOK, Trim
<1>13. ASSUME NEW r \in Runs, RunStep(r) PROVE TypeOK'
  <2>1. \E x \in {"RUNNING", "ended", "gone"} : run' = [run EXCEPT ![r] = x]
    BY <1>13 DEF RunStep
  <2>2. run' \in [Runs -> {"new", "PENDING", "RUNNING", "ended", "gone"}]
    BY <2>1 DEF TypeOK
  <2>3. QED
    BY <1>13, <2>2 DEF TypeOK, RunStep
<1>14. CASE UNCHANGED vars
  BY <1>14 DEF TypeOK, vars
<1>15. QED
  BY <1>1, <1>2, <1>3, <1>4, <1>5, <1>6, <1>7, <1>8, <1>9, <1>10, <1>11, <1>12,
     <1>13, <1>14
  DEF Next, ClientStep

-----------------------------------------------------------------------------
(* Who has which run in hand *)

(* A step of a client leaves the other clients alone. *)
LEMMA OthersStay ==
    ASSUME TypeOK, NEW c \in Clients, ClientStep(c), NEW d \in Clients, d # c
    PROVE  pc'[d] = pc[d] /\ job'[d] = job[d] /\ trimmed'[d] = trimmed[d]
<1>1. /\ \E x \in {"open", "admitted", "submitted", "listed", "trimming", "idle"} :
            pc' = pc \/ pc' = [pc EXCEPT ![c] = x]
      /\ job' = job \/ \E x \in Runs \cup {NoRun} : job' = [job EXCEPT ![c] = x]
  BY DEF ClientStep, Enter, Admit, Refuse, Submit, AddRun, FindTrimmed, Trim, Return
<1>2. trimmed' = trimmed \/ \E x : trimmed' = [trimmed EXCEPT ![c] = x]
  BY DEF ClientStep, Enter, Admit, Refuse, Submit, AddRun, FindTrimmed, Trim
<1>3. QED
  BY <1>1, <1>2 DEF TypeOK

(* How a client gets on; on its way out it has no run any more. *)
LEMMA ClientMoves ==
    ASSUME TypeOK, NEW c \in Clients
    PROVE  /\ \A r \in Runs : Enter(c, r) =>
                 pc[c] = "idle" /\ pc'[c] = "open" /\ job'[c] = r
           /\ Admit(c) => pc[c] = "open" /\ pc'[c] = "admitted" /\ job'[c] = job[c]
           /\ Submit(c) => pc[c] = "admitted" /\ pc'[c] = "submitted" /\ job'[c] = job[c]
           /\ AddRun(c) => pc[c] = "submitted" /\ pc'[c] = "listed" /\ job'[c] = job[c]
           /\ FindTrimmed(c) =>
                 /\ pc[c] = "listed"
                 /\ \/ pc'[c] = "trimming" /\ job'[c] = job[c]
                    \/ pc'[c] = "idle" /\ job'[c] = NoRun
           /\ Trim(c) =>
                 /\ pc[c] = "trimming"
                 /\ \/ pc'[c] = "trimming" /\ job'[c] = job[c]
                    \/ pc'[c] = "idle" /\ job'[c] = NoRun
           /\ Refuse(c) => pc[c] = "open" /\ pc'[c] = "idle" /\ job'[c] = NoRun
<1>1. ASSUME Return(c) PROVE pc'[c] = "idle" /\ job'[c] = NoRun
  BY <1>1 DEF TypeOK, Return
<1>2. QED
  BY <1>1 DEF TypeOK, Enter, Admit, Refuse, Submit, AddRun, FindTrimmed, Trim

(* A session that was opened once stays so. *)
LEMMA SessionsStay ==
    ASSUME TypeOK, [Next]_vars, NEW s \in SessionIds, status[s] # "none"
    PROVE  status'[s] # "none"
<1>1. ASSUME NEW q \in SessionIds, Open(q) \/ Close(q) PROVE status'[s] # "none"
  BY <1>1 DEF TypeOK, Open, Close
<1>2. ASSUME MarkExpired PROVE status'[s] # "none"
  BY <1>2 DEF MarkExpired
<1>3. ASSUME status' = status PROVE status'[s] # "none"
  BY <1>3
<1>4. QED
  BY <1>1, <1>2, <1>3 DEF Next, ClientStep, Enter, Admit, Refuse, Submit, AddRun,
     FindTrimmed, Trim, Tick, FindIdle, RunStep, vars

LEMMA JobsStep ==
    ASSUME TypeOK, JobsInv, TypeOK', [Next]_vars
    PROVE  JobsInv'
<1>1. ASSUME NEW c \in Clients, NEW r \in Runs, Enter(c, r) PROVE JobsInv'
  <2>1. /\ pc'[c] = "open" /\ job'[c] = r
        /\ \A d \in Clients : d # c => pc'[d] = pc[d] /\ job'[d] = job[d]
    BY <1>1, ClientMoves, OthersStay DEF ClientStep
  <2>2. /\ r # NoRun /\ status' = status /\ status[session_of[r]] = "OPEN"
        /\ \A d \in Clients : job[d] # r
    BY <1>1, SessionsAssumption DEF Enter, Accepts
  <2>3. QED
    BY <2>1, <2>2 DEF JobsInv, Target
<1>2. ASSUME NEW c \in Clients, ClientStep(c), pc[c] # "idle",
             \/ job'[c] = job[c] /\ (pc'[c] = "admitted" => pc[c] = "open")
                                 /\ pc'[c] # "open"
             \/ job'[c] = NoRun /\ pc'[c] = "idle"
      PROVE  JobsInv'
  <2>1. \A d \in Clients : d # c => pc'[d] = pc[d] /\ job'[d] = job[d]
    BY <1>2, OthersStay
  <2>2. /\ \A d \in Clients : pc'[d] # "idle" => job'[d] = job[d] /\ pc[d] # "idle"
        /\ \A d \in Clients : job'[d] = job[d] \/ job'[d] = NoRun
        /\ \A d \in Clients : pc'[d] \in {"open", "admitted"} =>
              pc[d] \in {"open", "admitted"}
    BY <1>2, <2>1
  <2>3. ASSUME NEW d \in Clients, pc'[d] \in {"open", "admitted"}
        PROVE  (status[Target(d)])' # "none"
    <3>1. job'[d] = job[d] /\ job[d] \in Runs /\ status[session_of[job[d]]] # "none"
      BY <2>2, <2>3 DEF JobsInv, Target
    <3>2. session_of[job[d]] \in SessionIds
      BY <3>1, SessionsAssumption
    <3>3. status'[session_of[job[d]]] # "none"
      BY <3>1, <3>2, SessionsStay
    <3>4. QED
      BY <3>1, <3>3 DEF Target
  <2>4. \A d \in Clients : pc'[d] # "idle" => job'[d] \in Runs
    BY <2>2 DEF JobsInv
  <2>5. \A d, e \in Clients : d # e /\ job'[d] = job'[e] => job'[d] = NoRun
    BY <2>2 DEF JobsInv
  <2>6. QED
    BY <2>3, <2>4, <2>5 DEF JobsInv
<1>3. ASSUME pc' = pc, job' = job PROVE JobsInv'
  <2>1. ASSUME NEW d \in Clients, pc[d] \in {"open", "admitted"}
        PROVE  (status[Target(d)])' # "none"
    <3>1. job[d] \in Runs /\ status[session_of[job[d]]] # "none"
      BY <2>1 DEF JobsInv, Target
    <3>2. session_of[job[d]] \in SessionIds
      BY <3>1, SessionsAssumption
    <3>3. QED
      BY <1>3, <3>1, <3>2, SessionsStay DEF Target
  <2>2. QED
    BY <1>3, <2>1 DEF JobsInv
<1>4. ASSUME NEW c \in Clients, ClientStep(c) PROVE JobsInv'
  <2>1. ASSUME \A r \in Runs : ~Enter(c, r)
        PROVE  /\ pc[c] # "idle"
               /\ \/ job'[c] = job[c] /\ (pc'[c] = "admitted" => pc[c] = "open")
                                      /\ pc'[c] # "open"
                  \/ job'[c] = NoRun /\ pc'[c] = "idle"
    BY <1>4, <2>1, ClientMoves DEF ClientStep
  <2>2. QED
    BY <1>1, <1>2, <1>4, <2>1
<1>5. QED
  BY <1>3, <1>4 DEF Next, Open, Close, Tick, FindIdle, MarkExpired, RunStep, vars

-----------------------------------------------------------------------------
(* The lists, and the runs that are on their way into one *)

LEMMA AddRunLists ==
    ASSUME TypeOK, JobsInv, NEW c \in Clients, AddRun(c)
    PROVE  /\ job[c] \in Runs /\ Target(c) \in SessionIds
           /\ \A s \in SessionIds :
                 Listed(s)' = IF s = Target(c) THEN Listed(s) \cup {job[c]} ELSE Listed(s)
<1>1. job[c] \in Runs /\ Target(c) \in SessionIds
  BY SessionsAssumption DEF AddRun, JobsInv, Target
<1>2. /\ run_ids \in [SessionIds -> Seq(Runs)]
      /\ run_ids' = [run_ids EXCEPT ![Target(c)] = Append(run_ids[Target(c)], job[c])]
  BY DEF TypeOK, AddRun, WithRun
<1>3. ToSet(Append(run_ids[Target(c)], job[c])) = ToSet(run_ids[Target(c)]) \cup {job[c]}
  <2>1. run_ids[Target(c)] \in Seq(Runs)
    BY <1>1, <1>2
  <2>2. QED
    BY <1>1, <2>1, AppendSet
<1>4. ASSUME NEW s \in SessionIds
      PROVE  Listed(s)' = IF s = Target(c) THEN Listed(s) \cup {job[c]} ELSE Listed(s)
  BY <1>1, <1>2, <1>3 DEF Listed
<1>5. QED
  BY <1>1, <1>4

LEMMA TrimLists ==
    ASSUME TypeOK, JobsInv, NEW c \in Clients, Trim(c)
    PROVE  /\ job[c] \in Runs /\ Target(c) \in SessionIds
           /\ \E r \in trimmed[c] :
                 /\ trimmed' = [trimmed EXCEPT ![c] = @ \ {r}]
                 /\ \A s \in SessionIds :
                       Listed(s)' = IF s = Target(c) THEN Listed(s) \ {r} ELSE Listed(s)
<1>1. job[c] \in Runs /\ Target(c) \in SessionIds
  BY SessionsAssumption DEF Trim, JobsInv, Target
<1>2. PICK r \in trimmed[c] :
         /\ run_ids' = [run_ids EXCEPT ![Target(c)] = RemoveFirst(@, r)]
         /\ trimmed' = [trimmed EXCEPT ![c] = @ \ {r}]
  BY DEF Trim
<1>3. run_ids \in [SessionIds -> Seq(Runs)]
  BY DEF TypeOK
<1>4. ToSet(RemoveFirst(run_ids[Target(c)], r)) = ToSet(run_ids[Target(c)]) \ {r}
  <2>1. run_ids[Target(c)] \in Seq(Runs) /\ IsInjective(run_ids[Target(c)])
    BY <1>1 DEF TypeOK
  <2>2. QED
    BY <2>1, RemoveFirstSet
<1>5. ASSUME NEW s \in SessionIds
      PROVE  Listed(s)' = IF s = Target(c) THEN Listed(s) \ {r} ELSE Listed(s)
  BY <1>1, <1>2, <1>3, <1>4 DEF Listed
<1>6. QED
  BY <1>1, <1>2, <1>5

LEMMA UnlistedMoves ==
    ASSUME TypeOK, JobsInv, NEW c \in Clients, ClientStep(c)
    PROVE  /\ ~Submit(c) /\ ~AddRun(c) => Unlisted' = Unlisted
           /\ Submit(c) => Unlisted' = Unlisted \cup {job[c]}
           /\ AddRun(c) => Unlisted' = Unlisted \ {job[c]}
<1>1. \A d \in Clients : d # c => pc'[d] = pc[d] /\ job'[d] = job[d]
  BY OthersStay
<1>2. ASSUME ~Submit(c), ~AddRun(c) PROVE Unlisted' = Unlisted
  <2>1. pc[c] # "submitted" /\ pc'[c] # "submitted"
    BY <1>2, ClientMoves DEF ClientStep
  <2>2. QED
    BY <1>1, <2>1 DEF Unlisted
<1>3. ASSUME Submit(c) PROVE Unlisted' = Unlisted \cup {job[c]}
  <2>1. pc[c] # "submitted" /\ pc'[c] = "submitted" /\ job'[c] = job[c]
    BY <1>3, ClientMoves
  <2>2. QED
    BY <1>1, <2>1 DEF Unlisted
<1>4. ASSUME AddRun(c) PROVE Unlisted' = Unlisted \ {job[c]}
  <2>1. pc[c] = "submitted" /\ pc'[c] = "listed"
    BY <1>4, ClientMoves
  <2>2. \A d \in Clients : d # c => job[d] # job[c]
    BY <2>1, SessionsAssumption DEF JobsInv
  <2>3. QED
    BY <1>1, <2>1, <2>2 DEF Unlisted
<1>5. QED
  BY <1>2, <1>3, <1>4

(* A list changes in AddRun and Trim only, a run in Submit and RunStep. *)
LEMMA ListsStay ==
    ASSUME run_ids' = run_ids, NEW s
    PROVE  Listed(s)' = Listed(s)
BY DEF Listed

LEMMA RunsStep ==
    ASSUME TypeOK, ListInv, [Next]_vars
    PROVE  RunsInv'
<1> USE DEF ListInv
<1>1. ASSUME NEW c \in Clients, Submit(c) PROVE RunsInv'
  <2>1. /\ job[c] \in Runs /\ run[job[c]] = "new" /\ run' = [run EXCEPT ![job[c]] = "PENDING"]
        /\ pc'[c] = "submitted" /\ job'[c] = job[c] /\ run_ids' = run_ids
        /\ \A d \in Clients : d # c => pc'[d] = pc[d] /\ job'[d] = job[d]
        /\ Unlisted' = Unlisted \cup {job[c]}
    <3>1. ClientStep(c)
      BY <1>1 DEF ClientStep
    <3>2. pc[c] = "admitted" /\ pc'[c] = "submitted" /\ job'[c] = job[c]
      BY <1>1, ClientMoves
    <3>3. job[c] \in Runs /\ run[job[c]] = "new"
      BY <3>2 DEF JobsInv, RunsInv
    <3>4. run' = [run EXCEPT ![job[c]] = "PENDING"] /\ run_ids' = run_ids
      BY <1>1 DEF Submit
    <3>5. \A d \in Clients : d # c => pc'[d] = pc[d] /\ job'[d] = job[d]
      BY <3>1, OthersStay
    <3>6. Unlisted' = Unlisted \cup {job[c]}
      BY <1>1, <3>1, UnlistedMoves
    <3>7. QED
      BY <3>2, <3>3, <3>4, <3>5, <3>6
  <2>2. /\ run'[job[c]] = "PENDING"
        /\ \A r \in Runs : r # job[c] => run'[r] = run[r]
    BY <2>1 DEF TypeOK
  <2>3. ASSUME NEW d \in Clients
        PROVE  /\ pc'[d] \in {"open", "admitted"} => run'[job'[d]] = "new"
               /\ pc'[d] \in {"submitted", "listed", "trimming"} => run'[job'[d]] # "new"
    <3>1. CASE d = c
      BY <2>1, <2>2, <3>1
    <3>2. CASE d # c
      <4>1. pc[d] # "idle" => job[d] \in Runs /\ job[d] # job[c]
        BY <2>1, <3>2, SessionsAssumption DEF JobsInv
      <4>2. pc[d] # "idle" => run'[job'[d]] = run[job[d]]
        BY <2>1, <2>2, <3>2, <4>1
      <4>3. QED
        BY <2>1, <3>2, <4>2 DEF RunsInv
    <3>3. QED
      BY <3>1, <3>2
  <2>4. ASSUME NEW s \in SessionIds, NEW r \in Listed(s)'
        PROVE  run'[r] # "new" /\ r \notin Unlisted'
    <3>1. r \in Listed(s)
      BY <2>1, <2>4, ListsStay
    <3>2. run[r] # "new" /\ r \notin Unlisted
      BY <3>1 DEF RunsInv
    <3>3. r \in Runs
      <4>1. run_ids[s] \in Seq(Runs)
        BY DEF TypeOK
      <4>2. QED
        BY <3>1, <4>1 DEF Listed, ToSet
    <3>4. QED
      BY <2>1, <2>2, <3>2, <3>3
  <2>5. QED
    BY <2>3, <2>4 DEF RunsInv
<1>2. ASSUME NEW c \in Clients, ClientStep(c), ~Submit(c) PROVE RunsInv'
  <2>1. /\ run' = run
        /\ \A d \in Clients : d # c => pc'[d] = pc[d] /\ job'[d] = job[d]
    <3>1. run' = run
      BY <1>2 DEF ClientStep, Enter, Admit, Refuse, AddRun, FindTrimmed, Trim
    <3>2. QED
      BY <1>2, <3>1, OthersStay
  <2>2. ASSUME NEW d \in Clients
        PROVE  /\ pc'[d] \in {"open", "admitted"} => run'[job'[d]] = "new"
               /\ pc'[d] \in {"submitted", "listed", "trimming"} => run'[job'[d]] # "new"
    <3>1. CASE d # c
      BY <2>1, <3>1 DEF RunsInv
    <3>2. ASSUME NEW r \in Runs, Enter(c, r)
          PROVE  pc'[c] = "open" /\ run'[job'[c]] = "new"
      <4>1. pc'[c] = "open" /\ job'[c] = r
        BY <3>2, ClientMoves
      <4>2. run[r] = "new"
        BY <3>2 DEF Enter
      <4>3. QED
        BY <2>1, <4>1, <4>2
    <3>3. ASSUME \A r \in Runs : ~Enter(c, r)
          PROVE  \/ pc'[c] = "idle"
                 \/ /\ job'[c] = job[c]
                    /\ \/ {pc[c], pc'[c]} \subseteq {"open", "admitted"}
                       \/ {pc[c], pc'[c]} \subseteq {"submitted", "listed", "trimming"}
      <4>1. CASE Admit(c) \/ Refuse(c)
        BY <4>1, ClientMoves
      <4>2. CASE AddRun(c)
        BY <4>2, ClientMoves
      <4>3. CASE FindTrimmed(c)
        BY <4>3, ClientMoves
      <4>4. CASE Trim(c)
        BY <4>4, ClientMoves
      <4>5. QED
        BY <1>2, <3>3, <4>1, <4>2, <4>3, <4>4 DEF ClientStep
    <3>4. CASE d = c /\ \A r \in Runs : ~Enter(c, r)
      <4>1. CASE pc'[c] = "idle"
        BY <3>4, <4>1
      <4>2. CASE job'[c] = job[c] /\ {pc[c], pc'[c]} \subseteq {"open", "admitted"}
        BY <2>1, <3>4, <4>2 DEF RunsInv
      <4>3. CASE /\ job'[c] = job[c]
                 /\ {pc[c], pc'[c]} \subseteq {"submitted", "listed", "trimming"}
        BY <2>1, <3>4, <4>3 DEF RunsInv
      <4>4. QED
        BY <3>3, <3>4, <4>1, <4>2, <4>3
    <3>5. QED
      BY <3>1, <3>2, <3>4
  <2>3. ASSUME NEW s \in SessionIds, NEW r \in Listed(s)'
        PROVE  run'[r] # "new" /\ r \notin Unlisted'
    <3>1. CASE AddRun(c)
      <4>1. /\ Unlisted' = Unlisted \ {job[c]} /\ run[job[c]] # "new"
            /\ r \in Listed(s) \/ r = job[c]
        <5>1. Unlisted' = Unlisted \ {job[c]}
          BY <1>2, <3>1, UnlistedMoves
        <5>2. run[job[c]] # "new"
          BY <3>1 DEF RunsInv, AddRun
        <5>3. r \in Listed(s) \/ r = job[c]
          BY <2>3, <3>1, AddRunLists
        <5>4. QED
          BY <5>1, <5>2, <5>3
      <4>2. QED
        BY <2>1, <4>1 DEF RunsInv
    <3>2. CASE Trim(c)
      <4>1. r \in Listed(s)
        BY <2>3, <3>2, TrimLists
      <4>2. Unlisted' = Unlisted
        BY <1>2, <3>2, UnlistedMoves DEF Trim, AddRun
      <4>3. QED
        BY <2>1, <4>1, <4>2 DEF RunsInv
    <3>3. CASE ~AddRun(c) /\ ~Trim(c)
      <4>1. run_ids' = run_ids
        BY <1>2, <3>3 DEF ClientStep, Enter, Admit, Refuse, FindTrimmed
      <4>2. r \in Listed(s) /\ Unlisted' = Unlisted
        BY <1>2, <2>3, <3>3, <4>1, ListsStay, UnlistedMoves
      <4>3. QED
        BY <2>1, <4>2 DEF RunsInv
    <3>4. QED
      BY <3>1, <3>2, <3>3
  <2>4. QED
    BY <2>2, <2>3 DEF RunsInv
<1>3. ASSUME pc' = pc, job' = job, run_ids' = run_ids,
             \A r \in Runs : run'[r] = "new" <=> run[r] = "new"
      PROVE  RunsInv'
  <2>1. Unlisted' = Unlisted
    BY <1>3 DEF Unlisted
  <2>2. \A s \in SessionIds : Listed(s)' = Listed(s) /\ Listed(s) \subseteq Runs
    <3>1. \A s \in SessionIds : run_ids[s] \in Seq(Runs)
      BY DEF TypeOK
    <3>2. QED
      BY <1>3, <3>1, ListsStay DEF Listed, ToSet
  <2>3. \A s \in SessionIds : \A r \in Listed(s)' : run'[r] # "new" /\ r \notin Unlisted'
    BY <1>3, <2>1, <2>2 DEF RunsInv
  <2>4. \A c \in Clients :
          /\ pc'[c] \in {"open", "admitted"} => run'[job'[c]] = "new"
          /\ pc'[c] \in {"submitted", "listed", "trimming"} => run'[job'[c]] # "new"
    BY <1>3 DEF RunsInv, JobsInv
  <2>5. QED
    BY <2>3, <2>4 DEF RunsInv
<1>4. ASSUME NEW r \in Runs, RunStep(r) PROVE RunsInv'
  <2>1. \A q \in Runs : run'[q] = "new" <=> run[q] = "new"
    BY <1>4 DEF TypeOK, RunStep
  <2>2. QED
    BY <1>3, <1>4, <2>1 DEF RunStep
<1>5. QED
  BY <1>1, <1>2, <1>3, <1>4 DEF Next, Open, Close, Tick, FindIdle, MarkExpired, vars

LEMMA TrimStep ==
    ASSUME TypeOK, ListInv, [Next]_vars
    PROVE  TrimInv'
<1> USE DEF ListInv
<1>1. ASSUME NEW c \in Clients, ClientStep(c) PROVE TrimInv'
  <2>1. \A d \in Clients : d # c => pc'[d] = pc[d] /\ trimmed'[d] = trimmed[d]
    BY <1>1, OthersStay
  <2>2. \A r \in Runs : run[r] \in {"ended", "gone"} => run'[r] \in {"ended", "gone"}
    <3>1. CASE Submit(c)
      <4>1. job[c] \in Runs /\ run[job[c]] = "new" /\ run' = [run EXCEPT ![job[c]] = "PENDING"]
        BY <3>1 DEF Submit, JobsInv, RunsInv
      <4>2. QED
        BY <4>1 DEF TypeOK
    <3>2. CASE run' = run
      BY <3>2
    <3>3. QED
      BY <1>1, <3>1, <3>2
      DEF ClientStep, Enter, Admit, Refuse, AddRun, FindTrimmed, Trim
  <2>3. \A d \in Clients : trimmed[d] \subseteq Runs
    BY DEF TypeOK
  <2>4. /\ pc'[c] # "trimming" => trimmed'[c] = {}
        /\ \A r \in trimmed'[c] : r \in Runs /\ run[r] \in {"ended", "gone"}
    <3>1. CASE FindTrimmed(c)
      <4>1. PICK T \in SUBSET (Listed(Target(c)) \ Active) :
               /\ trimmed' = [trimmed EXCEPT ![c] = T]
               /\ T # {} => pc' = [pc EXCEPT ![c] = "trimming"]
        BY <3>1 DEF FindTrimmed, Trimmable, Listed
      <4>2. Target(c) \in SessionIds
        BY <3>1, SessionsAssumption DEF FindTrimmed, JobsInv, Target
      <4>3. \A r \in T : r \in Runs /\ run[r] \in {"ended", "gone"}
        <5>1. run_ids[Target(c)] \in Seq(Runs)
          BY <4>2 DEF TypeOK
        <5>2. \A r \in T : r \in Runs /\ r \notin Active
          BY <4>1, <5>1 DEF Listed, ToSet
        <5>3. \A r \in T : run[r] # "new"
          BY <4>1, <4>2 DEF RunsInv
        <5>4. QED
          BY <5>2, <5>3 DEF TypeOK, Active
      <4>4. trimmed'[c] = T /\ (T # {} => pc'[c] = "trimming")
        BY <4>1 DEF TypeOK
      <4>5. QED
        BY <4>3, <4>4
    <3>2. CASE Trim(c)
      <4>1. trimmed'[c] \subseteq trimmed[c]
        <5>1. \E r \in trimmed[c] : trimmed' = [trimmed EXCEPT ![c] = @ \ {r}]
          BY <3>2 DEF Trim
        <5>2. QED
          BY <5>1 DEF TypeOK
      <4>2. trimmed'[c] # {} => pc'[c] = "trimming"
        BY <3>2 DEF Trim
      <4>3. QED
        BY <2>3, <4>1, <4>2 DEF TrimInv
    <3>3. CASE ~FindTrimmed(c) /\ ~Trim(c)
      <4>1. trimmed' = trimmed
        BY <1>1, <3>3 DEF ClientStep, Enter, Admit, Refuse, Submit, AddRun
      <4>2. pc[c] # "trimming"
        BY <1>1, <3>3, ClientMoves DEF ClientStep
      <4>3. QED
        BY <4>1, <4>2 DEF TrimInv
    <3>4. QED
      BY <3>1, <3>2, <3>3
  <2>5. ASSUME NEW d \in Clients
        PROVE  /\ pc'[d] # "trimming" => trimmed'[d] = {}
               /\ \A r \in trimmed'[d] : run'[r] \in {"ended", "gone"}
    <3>1. CASE d = c
      BY <2>2, <2>4, <3>1
    <3>2. CASE d # c
      BY <2>1, <2>2, <2>3, <3>2 DEF TrimInv
    <3>3. QED
      BY <3>1, <3>2
  <2>6. QED
    BY <2>5 DEF TrimInv
<1>2. ASSUME NEW r \in Runs, RunStep(r) PROVE TrimInv'
  <2>1. \A q \in Runs : run[q] \in {"ended", "gone"} => run'[q] \in {"ended", "gone"}
    BY <1>2 DEF TypeOK, RunStep
  <2>2. pc' = pc /\ trimmed' = trimmed /\ trimmed \in [Clients -> SUBSET Runs]
    BY <1>2 DEF TypeOK, RunStep
  <2>3. QED
    BY <2>1, <2>2 DEF TrimInv
<1>3. ASSUME pc' = pc, trimmed' = trimmed, run' = run PROVE TrimInv'
  BY <1>3 DEF TrimInv
<1>4. QED
  BY <1>1, <1>2, <1>3 DEF Next, Open, Close, Tick, FindIdle, MarkExpired, vars

(* An active run gets into its list and is not taken out of it. *)
LEMMA ActiveStep ==
    ASSUME TypeOK, ListInv, [Next]_vars
    PROVE  ActiveListed'
<1> USE DEF ListInv
<1>0. ActiveListed' <=>
         \A r \in Active' \ Unlisted' : r \in Listed(session_of[r])'
  BY DEF ActiveListed, Listed
<1>1. \A r \in Active \ Unlisted : r \in Listed(session_of[r])
  BY DEF ActiveListed, Listed
<1>2. \A r \in Active : session_of[r] \in SessionIds
  BY SessionsAssumption DEF Active
<1>3. ASSUME NEW c \in Clients, Submit(c) PROVE ActiveListed'
  <2>1. /\ run' = [run EXCEPT ![job[c]] = "PENDING"] /\ run_ids' = run_ids
        /\ Unlisted' = Unlisted \cup {job[c]}
    BY <1>3, UnlistedMoves DEF ClientStep, Submit
  <2>2. Active' \ Unlisted' \subseteq Active \ Unlisted
    BY <2>1 DEF Active, TypeOK
  <2>3. \A r \in Active' \ Unlisted' : Listed(session_of[r])' = Listed(session_of[r])
    BY <2>1 DEF Listed
  <2>4. QED
    BY <1>0, <1>1, <2>2, <2>3
<1>4. ASSUME NEW c \in Clients, AddRun(c) PROVE ActiveListed'
  <2>1. /\ Unlisted' = Unlisted \ {job[c]}
        /\ \A s \in SessionIds :
              Listed(s)' = IF s = Target(c) THEN Listed(s) \cup {job[c]} ELSE Listed(s)
    BY <1>4, AddRunLists, UnlistedMoves DEF ClientStep
  <2>2. Active' = Active
    BY <1>4 DEF Active, AddRun
  <2>3. ASSUME NEW r \in Active, r \notin Unlisted' PROVE r \in Listed(session_of[r])'
    <3>1. r \in Listed(session_of[r]) \/ r = job[c]
      BY <1>1, <2>1, <2>3
    <3>2. QED
      BY <1>2, <2>1, <3>1 DEF Target
  <2>4. QED
    BY <1>0, <2>2, <2>3
<1>5. ASSUME NEW c \in Clients, Trim(c) PROVE ActiveListed'
  <2>1. PICK x \in trimmed[c] :
           \A s \in SessionIds :
              Listed(s)' = IF s = Target(c) THEN Listed(s) \ {x} ELSE Listed(s)
    BY <1>5, TrimLists
  <2>2. Active' = Active /\ Unlisted' = Unlisted
    BY <1>5, UnlistedMoves DEF ClientStep, Active, Trim, Submit, AddRun
  <2>3. x \notin Active
    BY DEF TrimInv, Active
  <2>4. \A r \in Active' \ Unlisted' : r \in Listed(session_of[r])'
    BY <1>1, <1>2, <2>1, <2>2, <2>3
  <2>5. QED
    BY <1>0, <2>4
<1>6. ASSUME run_ids' = run_ids, Active' \subseteq Active, Unlisted' = Unlisted
      PROVE  ActiveListed'
  <2>1. \A r : Listed(session_of[r])' = Listed(session_of[r])
    BY <1>6 DEF Listed
  <2>2. QED
    BY <1>0, <1>1, <1>6, <2>1
<1>7. ASSUME NEW r \in Runs, RunStep(r) PROVE ActiveListed'
  <2>1. Active' \subseteq Active
    BY <1>7 DEF Active, RunStep, TypeOK
  <2>2. Unlisted' = Unlisted
    BY <1>7 DEF Unlisted, RunStep
  <2>3. QED
    BY <1>6, <1>7, <2>1, <2>2 DEF RunStep
<1>8. ASSUME run' = run, run_ids' = run_ids, pc' = pc, job' = job PROVE ActiveListed'
  BY <1>6, <1>8 DEF Active, Unlisted
<1>9. ASSUME NEW c \in Clients, ClientStep(c), ~Submit(c), ~AddRun(c), ~Trim(c)
      PROVE  ActiveListed'
  <2>1. run' = run /\ run_ids' = run_ids
    BY <1>9 DEF ClientStep, Enter, Admit, Refuse, FindTrimmed
  <2>2. Unlisted' = Unlisted
    BY <1>9, UnlistedMoves
  <2>3. QED
    BY <1>6, <2>1, <2>2 DEF Active
<1>10. QED
  BY <1>3, <1>4, <1>5, <1>7, <1>8, <1>9
  DEF Next, ClientStep, Open, Close, Tick, FindIdle, MarkExpired, vars

LEMMA ListStep ==
    ASSUME TypeOK, ListInv, TypeOK', [Next]_vars
    PROVE  ListInv'
BY JobsStep, RunsStep, TrimStep, ActiveStep DEF ListInv

-----------------------------------------------------------------------------
(* The limit *)

LEMMA SessionsAreFinite ==
    ASSUME NEW s
    PROVE  /\ IsFiniteSet(ActiveOf(s)) /\ Cardinality(ActiveOf(s)) \in Nat
           /\ IsFiniteSet(Admitted(s)) /\ Cardinality(Admitted(s)) \in Nat
           /\ IsFiniteSet(Clients) /\ Cardinality(Clients) \in Nat
<1>1. ActiveOf(s) \subseteq Runs /\ Admitted(s) \subseteq Clients
  BY DEF ActiveOf, Active, Admitted
<1>2. QED
  BY <1>1, SessionsAssumption, FS_Subset, FS_CardinalityType

(* What the count of a session can miss: the runs not listed yet, of which  *)
(* each client that has submitted has one.                                  *)
LEMMA CountMisses ==
    ASSUME TypeOK, ListInv, NEW s \in SessionIds,
           NEW W, W = {d \in Clients : pc[d] = "submitted" /\ Target(d) = s}
    PROVE  /\ IsFiniteSet(W) /\ Cardinality(W) \in Nat
           /\ IsFiniteSet(Counted(s)) /\ Cardinality(Counted(s)) \in Nat
           /\ Cardinality(ActiveOf(s)) <= Cardinality(Counted(s)) + Cardinality(W)
<1> DEFINE f == [d \in W |-> job[d]]
           J == {job[d] : d \in W}
<1>1. IsFiniteSet(W) /\ Cardinality(W) \in Nat
  BY SessionsAssumption, FS_Subset, FS_CardinalityType
<1>2. IsFiniteSet(J) /\ Cardinality(J) <= Cardinality(W)
  <2>1. f \in Surjection(W, J)
    BY DEF Surjection
  <2>2. QED
    BY <1>1, <2>1, FS_Surjection
<1>3. IsFiniteSet(Counted(s)) /\ Cardinality(Counted(s)) \in Nat
  BY SessionsAssumption, FS_Subset, FS_CardinalityType DEF Counted, Active
<1>4. ActiveOf(s) \subseteq Counted(s) \cup J
  <2> SUFFICES ASSUME NEW r \in ActiveOf(s), r \notin J PROVE r \in Counted(s)
    OBVIOUS
  <2>1. r \in Active /\ session_of[r] = s
    BY DEF ActiveOf
  <2>2. r \notin Unlisted
    BY <2>1 DEF Unlisted, Target
  <2>3. QED
    BY <2>1, <2>2 DEF ListInv, ActiveListed, Counted
<1> HIDE DEF J
<1>5. Cardinality(Counted(s) \cup J) <= Cardinality(Counted(s)) + Cardinality(J)
      /\ IsFiniteSet(Counted(s) \cup J)
  <2>1. /\ IsFiniteSet(Counted(s) \cup J)
        /\ Cardinality(Counted(s) \cup J) =
              Cardinality(Counted(s)) + Cardinality(J) - Cardinality(Counted(s) \cap J)
    BY <1>2, <1>3, FS_Union
  <2>2. Cardinality(Counted(s) \cap J) \in Nat /\ Cardinality(J) \in Nat
    BY <1>2, <1>3, FS_Intersection, FS_CardinalityType
  <2>3. QED
    BY <1>3, <2>1, <2>2
<1>6. Cardinality(ActiveOf(s)) <= Cardinality(Counted(s) \cup J)
  BY <1>4, <1>5, FS_Subset
<1>7. QED
  <2>1. Cardinality(J) \in Nat /\ Cardinality(Counted(s) \cup J) \in Nat
    BY <1>2, <1>5, FS_CardinalityType
  <2>2. Cardinality(ActiveOf(s)) \in Nat
    BY SessionsAreFinite
  <2>3. QED
    BY <1>1, <1>2, <1>3, <1>5, <1>6, <2>1, <2>2

LEMMA AdmitKeeps ==
    ASSUME TypeOK, ListInv, MaxConcurrent > 0, NEW c \in Clients, Admit(c),
           NEW s \in SessionIds, s = Target(c)
    PROVE  Cardinality(ActiveOf(s)') + Cardinality(Admitted(s)') <= Cap
<1> DEFINE W == {d \in Clients : pc[d] = "submitted" /\ Target(d) = s}
<1>1. /\ IsFiniteSet(W) /\ Cardinality(W) \in Nat /\ Cardinality(Counted(s)) \in Nat
      /\ Cardinality(ActiveOf(s)) <= Cardinality(Counted(s)) + Cardinality(W)
  BY CountMisses
<1>2. Cardinality(Counted(s)) < MaxConcurrent
  BY DEF Admit
<1>3. ActiveOf(s)' = ActiveOf(s)
  BY DEF ActiveOf, Active, Admit
<1> DEFINE A == {d \in Clients : pc'[d] = "admitted" /\ Target(d)' = s}
<1>4. Admitted(s)' = A
  BY DEF Admitted
<1>5. IsFiniteSet(A) /\ Cardinality(A) \in Nat
  BY SessionsAssumption, FS_Subset, FS_CardinalityType
<1>6. W \cap A = {}
  BY ClientMoves, OthersStay DEF ClientStep
<1>7. W \cup A \subseteq Clients
  OBVIOUS
<1> HIDE DEF A, W
<1>8. Cardinality(W) + Cardinality(A) <= Cardinality(Clients)
  <2>1. /\ IsFiniteSet(W \cup A)
        /\ Cardinality(W \cup A) = Cardinality(W) + Cardinality(A) - Cardinality(W \cap A)
    BY <1>1, <1>5, FS_Union
  <2>2. Cardinality(W \cap A) = 0
    BY <1>6, FS_EmptySet
  <2>3. Cardinality(W \cup A) <= Cardinality(Clients)
    BY <1>7, SessionsAssumption, FS_Subset
  <2>4. QED
    BY <1>1, <1>5, <2>1, <2>2, <2>3
<1>9. Cardinality(ActiveOf(s)) \in Nat /\ Cardinality(Clients) \in Nat
  BY SessionsAreFinite
<1>10. Cardinality(ActiveOf(s)) + Cardinality(A) <= Cap
  BY <1>1, <1>2, <1>5, <1>8, <1>9, SessionsAssumption DEF Cap
<1>11. QED
  BY <1>3, <1>4, <1>10

LEMMA SubmitKeeps ==
    ASSUME TypeOK, ListInv, AdmitInv, MaxConcurrent > 0, NEW c \in Clients, Submit(c),
           NEW s \in SessionIds
    PROVE  Cardinality(ActiveOf(s)') + Cardinality(Admitted(s)') <= Cap
<1>1. /\ job[c] \in Runs /\ pc[c] = "admitted"
      /\ run' = [run EXCEPT ![job[c]] = "PENDING"]
      /\ pc'[c] = "submitted" /\ job'[c] = job[c]
      /\ \A d \in Clients : d # c => pc'[d] = pc[d] /\ job'[d] = job[d]
  BY ClientMoves, OthersStay DEF ClientStep, Submit, ListInv, JobsInv
<1>2. Active' = Active \cup {job[c]}
  BY <1>1 DEF TypeOK, Active
<1>3. /\ IsFiniteSet(ActiveOf(s)) /\ Cardinality(ActiveOf(s)) \in Nat
      /\ IsFiniteSet(Admitted(s)) /\ Cardinality(Admitted(s)) \in Nat
  BY SessionsAreFinite
<1>4. Cardinality(ActiveOf(s)) + Cardinality(Admitted(s)) <= Cap
  BY DEF AdmitInv
<1>5. CASE Target(c) = s
  <2>1. ActiveOf(s)' = ActiveOf(s) \cup {job[c]}
    BY <1>2, <1>5 DEF ActiveOf, Target
  <2>2. Admitted(s)' = Admitted(s) \ {c} /\ c \in Admitted(s)
    BY <1>1, <1>5 DEF Admitted, Target
  <2>3. Cardinality(ActiveOf(s)') <= Cardinality(ActiveOf(s)) + 1
        /\ Cardinality(ActiveOf(s)') \in Nat
    <3>1. Cardinality(ActiveOf(s) \cup {job[c]}) =
             IF job[c] \in ActiveOf(s) THEN Cardinality(ActiveOf(s))
             ELSE Cardinality(ActiveOf(s)) + 1
      BY <1>3, FS_AddElement
    <3>2. QED
      BY <1>3, <2>1, <3>1
  <2>4. Cardinality(Admitted(s)') = Cardinality(Admitted(s)) - 1
    BY <1>3, <2>2, FS_RemoveElement
  <2>5. Cap \in Int
    BY SessionsAreFinite, SessionsAssumption DEF Cap
  <2>6. QED
    BY <1>3, <1>4, <2>3, <2>4, <2>5
<1>6. CASE Target(c) # s
  <2>1. ActiveOf(s)' = ActiveOf(s)
    BY <1>2, <1>6 DEF ActiveOf, Target
  <2>2. Admitted(s)' = Admitted(s)
    BY <1>1, <1>6 DEF Admitted, Target
  <2>3. QED
    BY <1>4, <2>1, <2>2
<1>7. QED
  BY <1>5, <1>6

LEMMA AdmitStep ==
    ASSUME TypeOK, ListInv, AdmitInv, [Next]_vars
    PROVE  AdmitInv'
<1> SUFFICES ASSUME MaxConcurrent > 0, NEW s \in SessionIds
             PROVE  Cardinality(ActiveOf(s)') + Cardinality(Admitted(s)') <= Cap
  BY DEF AdmitInv
<1>1. ASSUME ActiveOf(s)' \subseteq ActiveOf(s), Admitted(s)' \subseteq Admitted(s)
      PROVE  Cardinality(ActiveOf(s)') + Cardinality(Admitted(s)') <= Cap
  <2>1. /\ IsFiniteSet(ActiveOf(s)) /\ Cardinality(ActiveOf(s)) \in Nat
        /\ IsFiniteSet(Admitted(s)) /\ Cardinality(Admitted(s)) \in Nat
        /\ Cardinality(Clients) \in Nat
    BY SessionsAreFinite
  <2>2. Cardinality(ActiveOf(s)) + Cardinality(Admitted(s)) <= Cap
    BY DEF AdmitInv
  <2>3. /\ Cardinality(ActiveOf(s)') <= Cardinality(ActiveOf(s))
        /\ Cardinality(ActiveOf(s)') \in Nat
    BY <1>1, <2>1, FS_Subset, FS_CardinalityType
  <2>4. /\ Cardinality(Admitted(s)') <= Cardinality(Admitted(s))
        /\ Cardinality(Admitted(s)') \in Nat
    BY <1>1, <2>1, FS_Subset, FS_CardinalityType
  <2>5. QED
    BY <2>1, <2>2, <2>3, <2>4, SessionsAssumption DEF Cap
<1>2. ASSUME NEW c \in Clients, Admit(c), Target(c) # s
      PROVE  ActiveOf(s)' \subseteq ActiveOf(s) /\ Admitted(s)' \subseteq Admitted(s)
  <2>1. run' = run /\ job' = job /\ pc' = [pc EXCEPT ![c] = "admitted"]
    BY <1>2 DEF Admit
  <2>2. QED
    BY <1>2, <2>1 DEF TypeOK, ActiveOf, Active, Admitted, Target
<1>3. ASSUME NEW c \in Clients, ClientStep(c), ~Admit(c), ~Submit(c)
      PROVE  ActiveOf(s)' \subseteq ActiveOf(s) /\ Admitted(s)' \subseteq Admitted(s)
  <2>1. run' = run
    BY <1>3 DEF ClientStep, Enter, Refuse, AddRun, FindTrimmed, Trim
  <2>2. pc'[c] # "admitted"
    BY <1>3, ClientMoves DEF ClientStep
  <2>3. \A d \in Clients : d # c => pc'[d] = pc[d] /\ job'[d] = job[d]
    BY <1>3, OthersStay
  <2>4. QED
    BY <2>1, <2>2, <2>3 DEF ActiveOf, Active, Admitted, Target
<1>4. ASSUME NEW r \in Runs, RunStep(r)
      PROVE  ActiveOf(s)' \subseteq ActiveOf(s) /\ Admitted(s)' \subseteq Admitted(s)
  BY <1>4 DEF TypeOK, RunStep, ActiveOf, Active, Admitted, Target
<1>5. ASSUME run' = run, pc' = pc, job' = job
      PROVE  ActiveOf(s)' \subseteq ActiveOf(s) /\ Admitted(s)' \subseteq Admitted(s)
  BY <1>5 DEF ActiveOf, Active, Admitted, Target
<1>6. ASSUME NEW c \in Clients, ClientStep(c)
      PROVE  Cardinality(ActiveOf(s)') + Cardinality(Admitted(s)') <= Cap
  <2>1. CASE Admit(c) /\ Target(c) = s
    BY <2>1, AdmitKeeps
  <2>2. CASE Submit(c)
    BY <2>2, SubmitKeeps
  <2>3. QED
    BY <1>1, <1>2, <1>3, <1>6, <2>1, <2>2
<1>7. QED
  BY <1>1, <1>4, <1>5, <1>6 DEF Next, Open, Close, Tick, FindIdle, MarkExpired, vars

-----------------------------------------------------------------------------
(* The length of a list *)

LEMMA ListsAreFinite ==
    ASSUME TypeOK, NEW s \in SessionIds
    PROVE  /\ Listed(s) \subseteq Runs /\ IsFiniteSet(Listed(s))
           /\ Cardinality(Listed(s)) = Len(run_ids[s]) /\ Len(run_ids[s]) \in Nat
<1>1. run_ids[s] \in Seq(Runs) /\ IsInjective(run_ids[s])
  BY DEF TypeOK
<1>2. IsFiniteSet(ToSet(run_ids[s])) /\ Cardinality(ToSet(run_ids[s])) = Len(run_ids[s])
  BY <1>1, LengthIsSize
<1>3. ToSet(run_ids[s]) \subseteq Runs /\ Len(run_ids[s]) \in Nat
  BY <1>1 DEF ToSet
<1>4. QED
  BY <1>2, <1>3 DEF Listed

LEMMA KeptType ==
    Kept \in Int /\ Cap \in Int /\ Cap <= Kept /\ RetainLast <= Kept
BY SessionsAreFinite, SessionsAssumption DEF Kept, Cap

LEMMA BusyIsFinite ==
    ASSUME NEW s, NEW D
    PROVE  /\ IsFiniteSet(Busy(s) \ D) /\ Cardinality(Busy(s) \ D) \in Nat
           /\ IsFiniteSet(Busy(s)' \ D) /\ Cardinality(Busy(s)' \ D) \in Nat
<1>1. Busy(s) \ D \subseteq Clients /\ Busy(s)' \ D \subseteq Clients
  BY DEF Busy
<1>2. QED
  BY <1>1, SessionsAssumption, FS_Subset, FS_CardinalityType

(* What is found brings the list back to what is kept: the excess, or all   *)
(* that has ended, which leaves active runs.                                *)
LEMMA FoundIsEnough ==
    ASSUME TypeOK, ListInv, AdmitInv, RetainLast >= 0, MaxConcurrent > 0,
           NEW c \in Clients, FindTrimmed(c), NEW s \in SessionIds, s = Target(c)
    PROVE  \E T \in SUBSET Listed(s) :
              /\ trimmed' = [trimmed EXCEPT ![c] = T]
              /\ Cardinality(Listed(s) \ T) <= Kept
              /\ pc'[c] = (IF T = {} THEN "idle" ELSE "trimming")
<1> DEFINE excess == Len(run_ids[s]) - RetainLast
           ended == Listed(s) \ Active
<1>1. PICK T \in SUBSET ended :
         /\ IF RetainLast < 0 \/ excess <= 0 THEN T = {}
            ELSE Cardinality(T) = excess \/ T = ended
         /\ trimmed' = [trimmed EXCEPT ![c] = T]
         /\ IF T = {} THEN Return(c) ELSE pc' = [pc EXCEPT ![c] = "trimming"]
  BY DEF FindTrimmed, Trimmable, Listed
<1>2. /\ IsFiniteSet(Listed(s)) /\ Listed(s) \subseteq Runs
      /\ Cardinality(Listed(s)) = Len(run_ids[s]) /\ Len(run_ids[s]) \in Nat
  BY ListsAreFinite
<1>3. Cardinality(Listed(s) \ T) <= Kept
  <2>1. CASE excess <= 0
    <3>1. Cardinality(Listed(s)) <= RetainLast
      BY <1>2, <2>1, SessionsAssumption
    <3>2. Cardinality(Listed(s) \ T) <= Cardinality(Listed(s))
          /\ Cardinality(Listed(s) \ T) \in Nat
      BY <1>2, FS_Subset, FS_CardinalityType
    <3>3. QED
      BY <1>2, <3>1, <3>2, KeptType, SessionsAssumption
  <2>2. CASE T = ended
    <3>1. Listed(s) \ T \subseteq ActiveOf(s)
      BY <1>2, <2>2 DEF TypeOK, ActiveOf, Listed
    <3>2. /\ IsFiniteSet(ActiveOf(s)) /\ Cardinality(ActiveOf(s)) \in Nat
          /\ Cardinality(Admitted(s)) \in Nat
      BY SessionsAreFinite
    <3>3. Cardinality(ActiveOf(s)) <= Cap
      BY <3>2, KeptType DEF AdmitInv
    <3>4. Cardinality(Listed(s) \ T) <= Cardinality(ActiveOf(s))
          /\ Cardinality(Listed(s) \ T) \in Nat
      BY <3>1, <3>2, FS_Subset, FS_CardinalityType
    <3>5. QED
      BY <3>2, <3>3, <3>4, KeptType
  <2>3. CASE ~(excess <= 0) /\ Cardinality(T) = excess
    <3>1. Cardinality(Listed(s) \ T) = Cardinality(Listed(s)) - Cardinality(Listed(s) \cap T)
      BY <1>2, FS_Difference
    <3>2. Cardinality(Listed(s) \cap T) = Len(run_ids[s]) - RetainLast
      <4>1. Listed(s) \cap T = T
        BY <1>1
      <4>2. QED
        BY <2>3, <4>1
    <3>3. Cardinality(Listed(s) \ T) = RetainLast
      <4>1. RetainLast \in Int
        BY SessionsAssumption
      <4>2. QED
        BY <1>2, <3>1, <3>2, <4>1
    <3>4. QED
      BY <3>3, KeptType
  <2>4. QED
    BY <1>1, <1>2, <2>1, <2>2, <2>3, SessionsAssumption
<1>4. pc'[c] = (IF T = {} THEN "idle" ELSE "trimming")
  BY <1>1 DEF TypeOK, Return
<1>5. QED
  BY <1>1, <1>3, <1>4

(* A list with its clients that is no longer, for D, than it was for E. *)
LEMMA NoLonger ==
    ASSUME TypeOK, LengthInv, RetainLast >= 0, MaxConcurrent > 0, NEW s \in SessionIds,
           NEW D, NEW E \in SUBSET Trimmers(s),
           Listed(s)' \ Leaving(D)' \subseteq Listed(s) \ Leaving(E),
           Busy(s) \ E \subseteq Busy(s)' \ D
    PROVE  Cardinality(Listed(s)' \ Leaving(D)') <= Kept + Cardinality(Busy(s)' \ D)
<1>1. Cardinality(Listed(s) \ Leaving(E)) <= Kept + Cardinality(Busy(s) \ E)
  BY DEF LengthInv
<1>2. IsFiniteSet(Listed(s) \ Leaving(E)) /\ Cardinality(Listed(s) \ Leaving(E)) \in Nat
  BY ListsAreFinite, FS_Subset, FS_CardinalityType
<1>3. /\ Cardinality(Listed(s)' \ Leaving(D)') <= Cardinality(Listed(s) \ Leaving(E))
      /\ Cardinality(Listed(s)' \ Leaving(D)') \in Nat
  BY <1>2, FS_Subset, FS_CardinalityType
<1>4. /\ Cardinality(Busy(s) \ E) <= Cardinality(Busy(s)' \ D)
      /\ Cardinality(Busy(s) \ E) \in Nat /\ Cardinality(Busy(s)' \ D) \in Nat
  BY BusyIsFinite, FS_Subset
<1>5. QED
  BY <1>1, <1>2, <1>3, <1>4, KeptType

(* Clients that look for what to trim, or trim, are busy with the session    *)
(* they were busy with, unless they are the one that makes the step.        *)
LEMMA BusyOthers ==
    ASSUME TypeOK, NEW c \in Clients, ClientStep(c), NEW s \in SessionIds
    PROVE  /\ Trimmers(s)' \ {c} = Trimmers(s) \ {c} /\ Busy(s)' \ {c} = Busy(s) \ {c}
           /\ \A D : c \notin D /\ D \subseteq Clients => Leaving(D)' = Leaving(D)
<1>1. \A d \in Clients : d # c =>
         pc'[d] = pc[d] /\ job'[d] = job[d] /\ trimmed'[d] = trimmed[d]
  BY OthersStay
<1>2. \A D : c \notin D /\ D \subseteq Clients => Leaving(D)' = Leaving(D)
  BY <1>1 DEF Leaving
<1>3. QED
  BY <1>1, <1>2 DEF Trimmers, Busy, Target

LEMMA AddRunLength ==
    ASSUME TypeOK, ListInv, LengthInv, RetainLast >= 0, MaxConcurrent > 0,
           NEW c \in Clients, AddRun(c), NEW s \in SessionIds,
           NEW D \in SUBSET Trimmers(s)'
    PROVE  Cardinality(Listed(s)' \ Leaving(D)') <= Kept + Cardinality(Busy(s)' \ D)
<1>1. /\ pc[c] = "submitted" /\ pc'[c] = "listed" /\ job'[c] = job[c]
      /\ ClientStep(c)
  BY ClientMoves DEF ClientStep
<1>2. c \notin Trimmers(s) /\ c \notin Trimmers(s)' /\ c \notin Busy(s)
  BY <1>1 DEF Trimmers, Busy
<1>3. D \subseteq Trimmers(s) /\ D \subseteq Clients /\ c \notin D /\ Leaving(D)' = Leaving(D)
  <2>1. D \subseteq Trimmers(s) /\ D \subseteq Clients /\ c \notin D
    BY <1>1, <1>2, BusyOthers DEF Trimmers
  <2>2. QED
    BY <1>1, <2>1, BusyOthers
<1>4. CASE s # Target(c)
  <2>1. Listed(s)' = Listed(s)
    BY <1>4, AddRunLists DEF ListInv
  <2>2. Busy(s) \subseteq Busy(s)'
    BY <1>1, <1>2, BusyOthers
  <2>3. QED
    BY <1>3, <2>1, <2>2, NoLonger
<1>5. CASE s = Target(c)
  <2>1. Listed(s)' = Listed(s) \cup {job[c]}
    BY <1>5, AddRunLists DEF ListInv
  <2>2. Busy(s)' \ D = (Busy(s) \ D) \cup {c} /\ c \notin Busy(s) \ D
    <3>1. c \in Busy(s)'
      BY <1>1, <1>5 DEF Busy, Target
    <3>2. QED
      BY <1>1, <1>2, <1>3, <3>1, BusyOthers
  <2> DEFINE L == Listed(s) \ Leaving(D)
             B == Busy(s) \ D
  <2>3. IsFiniteSet(L) /\ Cardinality(L) \in Nat
    BY ListsAreFinite, FS_Subset, FS_CardinalityType
  <2>4. IsFiniteSet(B) /\ Cardinality(B) \in Nat
    BY BusyIsFinite
  <2>5. Cardinality(L) <= Kept + Cardinality(B)
    BY <1>3 DEF LengthInv
  <2>6. Listed(s)' \ Leaving(D)' \subseteq L \cup {job[c]}
    BY <1>3, <2>1
  <2>7. Cardinality(Busy(s)' \ D) = Cardinality(B) + 1
    <3>1. Cardinality(B \cup {c}) = Cardinality(B) + 1
      BY <2>2, <2>4, FS_AddElement
    <3>2. QED
      BY <2>2, <3>1
  <2> HIDE DEF L, B
  <2>8. /\ IsFiniteSet(L \cup {job[c]})
        /\ Cardinality(L \cup {job[c]}) = IF job[c] \in L THEN Cardinality(L)
                                          ELSE Cardinality(L) + 1
    BY <2>3, FS_AddElement
  <2>9. /\ Cardinality(Listed(s)' \ Leaving(D)') <= Cardinality(L \cup {job[c]})
        /\ Cardinality(Listed(s)' \ Leaving(D)') \in Nat
    BY <2>6, <2>8, FS_Subset, FS_CardinalityType
  <2>10. QED
    BY <2>3, <2>4, <2>5, <2>7, <2>8, <2>9, KeptType
<1>6. QED
  BY <1>4, <1>5

LEMMA FindLength ==
    ASSUME TypeOK, ListInv, AdmitInv, LengthInv, RetainLast >= 0, MaxConcurrent > 0,
           NEW c \in Clients, FindTrimmed(c), NEW s \in SessionIds,
           NEW D \in SUBSET Trimmers(s)'
    PROVE  Cardinality(Listed(s)' \ Leaving(D)') <= Kept + Cardinality(Busy(s)' \ D)
<1>1. /\ pc[c] = "listed" /\ ClientStep(c) /\ run_ids' = run_ids /\ job[c] \in Runs
      /\ \/ pc'[c] = "idle"
         \/ pc'[c] = "trimming" /\ job'[c] = job[c]
  <2>1. ClientStep(c)
    BY DEF ClientStep
  <2>2. pc[c] = "listed" /\ run_ids' = run_ids
    BY DEF FindTrimmed
  <2>3. job[c] \in Runs
    BY <2>2 DEF ListInv, JobsInv
  <2>4. QED
    BY <2>1, <2>2, <2>3, ClientMoves
<1>2. Listed(s)' = Listed(s) /\ D \subseteq Clients
  BY <1>1 DEF Listed, Trimmers
<1>3. ASSUME c \notin D, Busy(s) \ {c} = Busy(s) \/ Busy(s)' = Busy(s)
      PROVE  Cardinality(Listed(s)' \ Leaving(D)') <= Kept + Cardinality(Busy(s)' \ D)
  <2>1. D \subseteq Trimmers(s) /\ Leaving(D)' = Leaving(D)
    BY <1>1, <1>2, <1>3, BusyOthers
  <2>2. Busy(s) \ D \subseteq Busy(s)' \ D
    BY <1>1, <1>3, BusyOthers
  <2>3. QED
    BY <1>2, <2>1, <2>2, NoLonger
<1>4. CASE s # Target(c)
  <2>1. c \notin Busy(s) /\ c \notin D
    BY <1>1, <1>4 DEF Busy, Trimmers, Target
  <2>2. QED
    BY <1>3, <2>1
<1>5. CASE s = Target(c)
  <2>1. PICK T \in SUBSET Listed(s) :
           /\ trimmed' = [trimmed EXCEPT ![c] = T]
           /\ Cardinality(Listed(s) \ T) <= Kept
           /\ pc'[c] = (IF T = {} THEN "idle" ELSE "trimming")
    BY <1>5, FoundIsEnough
  <2>2. CASE T \subseteq Leaving(D)'
    <3>1. Listed(s)' \ Leaving(D)' \subseteq Listed(s) \ T
      BY <1>2, <2>2
    <3>2. IsFiniteSet(Listed(s) \ T) /\ Cardinality(Listed(s) \ T) \in Nat
      BY ListsAreFinite, FS_Subset, FS_CardinalityType
    <3>3. /\ Cardinality(Listed(s)' \ Leaving(D)') <= Cardinality(Listed(s) \ T)
          /\ Cardinality(Listed(s)' \ Leaving(D)') \in Nat
      BY <3>1, <3>2, FS_Subset, FS_CardinalityType
    <3>4. Cardinality(Busy(s)' \ D) \in Nat
      BY BusyIsFinite
    <3>5. QED
      BY <2>1, <3>2, <3>3, <3>4, KeptType
  <2>3. CASE ~(T \subseteq Leaving(D)')
    <3>1. trimmed'[c] = T
      BY <2>1 DEF TypeOK
    <3>2. c \notin D
      BY <2>3, <3>1 DEF Leaving
    <3>3. pc'[c] = "trimming"
      BY <2>1, <2>3
    <3>4. c \in Busy(s) /\ c \in Busy(s)'
      BY <1>1, <1>5, <3>3 DEF Busy, Target
    <3>5. Busy(s)' = Busy(s)
      BY <1>1, <3>4, BusyOthers
    <3>6. QED
      BY <1>3, <3>2, <3>5
  <2>4. QED
    BY <2>2, <2>3
<1>6. QED
  BY <1>4, <1>5

LEMMA TrimLength ==
    ASSUME TypeOK, ListInv, LengthInv, RetainLast >= 0, MaxConcurrent > 0,
           NEW c \in Clients, Trim(c), NEW s \in SessionIds,
           NEW D \in SUBSET Trimmers(s)'
    PROVE  Cardinality(Listed(s)' \ Leaving(D)') <= Kept + Cardinality(Busy(s)' \ D)
<1>1. PICK r \in trimmed[c] :
         /\ trimmed' = [trimmed EXCEPT ![c] = @ \ {r}]
         /\ \A q \in SessionIds :
               Listed(q)' = IF q = Target(c) THEN Listed(q) \ {r} ELSE Listed(q)
  BY TrimLists DEF ListInv
<1>2. trimmed'[c] = trimmed[c] \ {r}
  BY <1>1 DEF TypeOK
<1>3. /\ pc[c] = "trimming" /\ ClientStep(c)
      /\ \/ pc'[c] = "trimming" /\ job'[c] = job[c] /\ trimmed'[c] # {}
         \/ pc'[c] = "idle" /\ trimmed'[c] = {}
  <2>1. ClientStep(c)
    BY DEF ClientStep
  <2>2. trimmed'[c] = {} => Return(c)
    BY DEF Trim
  <2>3. trimmed'[c] # {} => pc' = pc /\ job' = job
    BY DEF Trim
  <2>4. QED
    BY <2>1, <2>2, <2>3, ClientMoves DEF TypeOK, Return
<1>4. D \subseteq Clients /\ D \ {c} \subseteq Trimmers(s)
  BY <1>3, BusyOthers DEF Trimmers
<1>5. \A d \in D : trimmed[d] \ {r} \subseteq trimmed'[d]
  BY <1>2, <1>3, <1>4, OthersStay
<1>6. Leaving(D) \ {r} \subseteq Leaving(D)'
  BY <1>5 DEF Leaving
<1>7. CASE s # Target(c)
  <2>1. c \notin Busy(s) /\ c \notin D
    BY <1>3, <1>7 DEF Busy, Trimmers, Target
  <2>2. D \subseteq Trimmers(s) /\ Leaving(D)' = Leaving(D)
    BY <1>3, <1>4, <2>1, BusyOthers
  <2>3. Busy(s) \ D \subseteq Busy(s)' \ D
    BY <1>3, <2>1, BusyOthers
  <2>4. Listed(s)' = Listed(s)
    BY <1>1, <1>7
  <2>5. QED
    BY <2>2, <2>3, <2>4, NoLonger
<1>8. CASE s = Target(c) /\ pc'[c] = "trimming"
  <2>1. c \in Trimmers(s) /\ c \in Busy(s) /\ c \in Busy(s)'
    BY <1>3, <1>8 DEF Trimmers, Busy, Target
  <2>2. D \subseteq Trimmers(s) /\ Busy(s) \ D \subseteq Busy(s)' \ D
    BY <1>3, <1>4, <2>1, BusyOthers
  <2>3. Listed(s)' \ Leaving(D)' \subseteq Listed(s) \ Leaving(D)
    BY <1>1, <1>6, <1>8
  <2>4. QED
    BY <2>2, <2>3, NoLonger
<1>9. CASE s = Target(c) /\ pc'[c] = "idle"
  <2> DEFINE E == D \cup {c}
  <2>1. c \in Trimmers(s) /\ c \notin D /\ trimmed[c] \subseteq {r}
    BY <1>2, <1>3, <1>9 DEF Trimmers
  <2>2. E \in SUBSET Trimmers(s)
    BY <1>4, <2>1
  <2>3. Leaving(D)' = Leaving(D) /\ Leaving(E) \subseteq Leaving(D) \cup {r}
    BY <1>3, <1>4, <2>1, BusyOthers DEF Leaving
  <2>4. Listed(s)' \ Leaving(D)' \subseteq Listed(s) \ Leaving(E)
    BY <1>1, <1>9, <2>3
  <2>5. Busy(s) \ E \subseteq Busy(s)' \ D
    BY <1>3, BusyOthers
  <2>6. QED
    BY <2>2, <2>4, <2>5, NoLonger
<1>10. QED
  BY <1>3, <1>7, <1>8, <1>9

LEMMA LengthStep ==
    ASSUME TypeOK, ListInv, AdmitInv, LengthInv, [Next]_vars
    PROVE  LengthInv'
<1> SUFFICES ASSUME RetainLast >= 0, MaxConcurrent > 0, NEW s \in SessionIds,
                    NEW D \in SUBSET Trimmers(s)'
             PROVE  Cardinality(Listed(s)' \ Leaving(D)') <=
                       Kept + Cardinality(Busy(s)' \ D)
  BY DEF LengthInv
<1>1. ASSUME NEW c \in Clients, ClientStep(c), ~AddRun(c), ~FindTrimmed(c), ~Trim(c)
      PROVE  Cardinality(Listed(s)' \ Leaving(D)') <= Kept + Cardinality(Busy(s)' \ D)
  <2>1. pc[c] \notin {"listed", "trimming"} /\ pc'[c] \notin {"listed", "trimming"}
    BY <1>1, ClientMoves DEF ClientStep
  <2>2. run_ids' = run_ids
    BY <1>1 DEF ClientStep, Enter, Admit, Refuse, Submit
  <2>3. c \notin D /\ c \notin Busy(s) /\ D \subseteq Clients
    BY <2>1 DEF Busy, Trimmers
  <2>4. D \subseteq Trimmers(s) /\ Leaving(D)' = Leaving(D)
    BY <1>1, <2>3, BusyOthers
  <2>5. Busy(s) \ D \subseteq Busy(s)' \ D
    BY <1>1, <2>3, BusyOthers
  <2>6. QED
    BY <2>2, <2>4, <2>5, ListsStay, NoLonger
<1>2. ASSUME run_ids' = run_ids, pc' = pc, job' = job, trimmed' = trimmed
      PROVE  Cardinality(Listed(s)' \ Leaving(D)') <= Kept + Cardinality(Busy(s)' \ D)
  <2>1. Trimmers(s)' = Trimmers(s) /\ Busy(s)' = Busy(s) /\ Leaving(D)' = Leaving(D)
    BY <1>2 DEF Trimmers, Busy, Leaving, Target
  <2>2. QED
    BY <1>2, <2>1, ListsStay, NoLonger
<1>3. QED
  BY <1>1, <1>2, AddRunLength, FindLength, TrimLength
  DEF Next, Open, Close, Tick, FindIdle, MarkExpired, RunStep, vars

-----------------------------------------------------------------------------
(* Late submissions *)

(* A session does not open again. *)
LEMMA OverStays ==
    ASSUME TypeOK, [Next]_vars, NEW s \in SessionIds, status[s] \in {"CLOSED", "EXPIRED"}
    PROVE  status'[s] \in {"CLOSED", "EXPIRED"}
<1>1. ASSUME NEW q \in SessionIds, Open(q) \/ Close(q)
      PROVE  status'[s] \in {"CLOSED", "EXPIRED"}
  BY <1>1 DEF TypeOK, Open, Close
<1>2. ASSUME MarkExpired PROVE status'[s] \in {"CLOSED", "EXPIRED"}
  BY <1>2 DEF MarkExpired
<1>3. ASSUME status' = status PROVE status'[s] \in {"CLOSED", "EXPIRED"}
  BY <1>3
<1>4. QED
  BY <1>1, <1>2, <1>3 DEF Next, ClientStep, Enter, Admit, Refuse, Submit, AddRun,
     FindTrimmed, Trim, Tick, FindIdle, RunStep, vars

LEMMA LateStep ==
    ASSUME TypeOK, ListInv, LateInv, [Next]_vars
    PROVE  LateInv'
<1>1. \A x \in late :
         /\ x[1] \in Clients /\ x[2] \in Runs /\ session_of[x[2]] \in SessionIds
         /\ status'[session_of[x[2]]] \in {"CLOSED", "EXPIRED"}
  <2> SUFFICES ASSUME NEW x \in late
               PROVE  /\ x[1] \in Clients /\ x[2] \in Runs
                      /\ session_of[x[2]] \in SessionIds
                      /\ status'[session_of[x[2]]] \in {"CLOSED", "EXPIRED"}
    OBVIOUS
  <2>1. x \in Clients \X Runs
    BY DEF TypeOK
  <2>2. x[1] \in Clients /\ x[2] \in Runs /\ session_of[x[2]] \in SessionIds
    BY <2>1, SessionsAssumption
  <2>3. status[session_of[x[2]]] \in {"CLOSED", "EXPIRED"}
    BY DEF LateInv
  <2>4. QED
    BY <2>2, <2>3, OverStays
<1>2. ASSUME late' = late,
             \A x \in late : pc'[x[1]] \in {"open", "admitted"} =>
                                Target(x[1])' # session_of[x[2]]
      PROVE  LateInv'
  BY <1>1, <1>2 DEF LateInv, LateOnce
<1>3. ASSUME NEW c \in Clients, ClientStep(c), ~Submit(c) PROVE LateInv'
  <2>1. late' = late
    BY <1>3 DEF ClientStep, Enter, Admit, Refuse, AddRun, FindTrimmed, Trim
  <2>2. ASSUME NEW x \in late, pc'[x[1]] \in {"open", "admitted"}
        PROVE  Target(x[1])' # session_of[x[2]]
    <3>1. CASE x[1] # c
      <4>1. pc'[x[1]] = pc[x[1]] /\ job'[x[1]] = job[x[1]]
        BY <1>1, <1>3, <3>1, OthersStay
      <4>2. QED
        BY <2>2, <4>1 DEF LateInv, Target
    <3>2. CASE x[1] = c /\ \E r \in Runs : Enter(c, r)
      <4>1. PICK r \in Runs : Enter(c, r)
        BY <3>2
      <4>2. job'[c] = r /\ status' = status /\ status[session_of[r]] = "OPEN"
        BY <4>1, ClientMoves DEF Enter, Accepts
      <4>3. QED
        BY <1>1, <3>2, <4>2 DEF Target
    <3>3. CASE x[1] = c /\ \A r \in Runs : ~Enter(c, r)
      <4>1. pc[c] \in {"open", "admitted"} /\ job'[c] = job[c]
        BY <1>3, <2>2, <3>3, ClientMoves DEF ClientStep
      <4>2. QED
        BY <3>3, <4>1 DEF LateInv, Target
    <3>4. QED
      BY <3>1, <3>2, <3>3
  <2>3. QED
    BY <1>2, <2>1, <2>2
<1>4. ASSUME NEW c \in Clients, Submit(c) PROVE LateInv'
  <2>1. /\ pc[c] = "admitted" /\ pc'[c] = "submitted" /\ status' = status
        /\ \/ late' = late
           \/ late' = late \cup {<<c, job[c]>>} /\ status[Target(c)] # "OPEN"
        /\ job[c] \in Runs /\ Target(c) \in SessionIds /\ status[Target(c)] # "none"
    BY <1>4, ClientMoves, SessionsAssumption DEF Submit, ListInv, JobsInv, Target
  <2>2. \A x \in late : pc'[x[1]] \in {"open", "admitted"} =>
                           Target(x[1])' # session_of[x[2]]
    <3> SUFFICES ASSUME NEW x \in late, pc'[x[1]] \in {"open", "admitted"}
                 PROVE  Target(x[1])' # session_of[x[2]]
      OBVIOUS
    <3>1. x[1] # c
      BY <2>1
    <3>2. pc'[x[1]] = pc[x[1]] /\ job'[x[1]] = job[x[1]]
      BY <1>1, <1>4, <3>1, OthersStay DEF ClientStep
    <3>3. QED
      BY <3>2 DEF LateInv, Target
  <2>3. CASE late' = late
    BY <1>2, <2>2, <2>3
  <2>4. CASE late' = late \cup {<<c, job[c]>>} /\ status[Target(c)] # "OPEN"
    <3> DEFINE y == <<c, job[c]>>
    <3>1. y[1] = c /\ y[2] = job[c]
      OBVIOUS
    <3>2. status'[session_of[y[2]]] \in {"CLOSED", "EXPIRED"}
      BY <2>1, <2>4 DEF TypeOK, Target
    <3>3. pc'[y[1]] \notin {"open", "admitted"}
      BY <2>1
    <3>4. \A x \in late : ~(x[1] = y[1] /\ session_of[x[2]] = session_of[y[2]])
      BY <2>1 DEF LateInv, Target
    <3>5. late' = late \cup {y}
      BY <2>4
    <3> HIDE DEF y
    <3>6. LateOnce'
      BY <3>4, <3>5 DEF LateInv, LateOnce
    <3>7. \A x \in late' :
             /\ status'[session_of[x[2]]] \in {"CLOSED", "EXPIRED"}
             /\ pc'[x[1]] \in {"open", "admitted"} => Target(x[1])' # session_of[x[2]]
      BY <1>1, <2>2, <3>2, <3>3, <3>5
    <3>8. QED
      BY <3>6, <3>7 DEF LateInv
  <2>5. QED
    BY <2>1, <2>3, <2>4
<1>5. ASSUME late' = late, pc' = pc, job' = job PROVE LateInv'
  BY <1>2, <1>5 DEF LateInv, Target
<1>6. QED
  BY <1>3, <1>4, <1>5
  DEF Next, Open, Close, Tick, FindIdle, MarkExpired, RunStep, vars

-----------------------------------------------------------------------------
(* The theorems *)

LEMMA SessInit == Init => SessInv
<1> SUFFICES ASSUME Init PROVE SessInv
  OBVIOUS
<1>1. \A s \in SessionIds : run_ids[s] = <<>> /\ Listed(s) = {}
  BY EmptyElements DEF Init, Listed
<1>2. TypeOK
  <2>1. <<>> \in Seq(Runs) /\ IsInjective(<<>>) /\ ToSet(<<>>) = {}
    BY EmptyElements DEF IsInjective
  <2>2. run_ids \in [SessionIds -> Seq(Runs)]
    BY <2>1 DEF Init
  <2>3. \A s \in SessionIds : /\ IsInjective(run_ids[s])
                              /\ \A r \in ToSet(run_ids[s]) : session_of[r] = s
    BY <1>1, <2>1
  <2>4. QED
    BY <2>2, <2>3, SessionsAssumption DEF Init, TypeOK
<1>3. Active = {} /\ Unlisted = {}
  BY DEF Init, Active, Unlisted
<1>4. ListInv
  BY <1>1, <1>3 DEF Init, ListInv, JobsInv, RunsInv, TrimInv, ActiveListed
<1>5. AdmitInv
  <2>1. ASSUME MaxConcurrent > 0, NEW s \in SessionIds
        PROVE  Cardinality(ActiveOf(s)) + Cardinality(Admitted(s)) <= Cap
    <3>1. ActiveOf(s) = {} /\ Admitted(s) = {}
      BY <1>3 DEF Init, ActiveOf, Admitted
    <3>2. Cardinality(ActiveOf(s)) = 0 /\ Cardinality(Admitted(s)) = 0
      BY <3>1, FS_EmptySet
    <3>3. Cap >= 0
      BY <2>1, SessionsAreFinite, SessionsAssumption DEF Cap
    <3>4. QED
      BY <3>2, <3>3
  <2>2. QED
    BY <2>1 DEF AdmitInv
<1>6. LengthInv
  <2>1. ASSUME RetainLast >= 0, MaxConcurrent > 0, NEW s \in SessionIds, NEW D
        PROVE  Cardinality(Listed(s) \ Leaving(D)) <= Kept + Cardinality(Busy(s) \ D)
    <3>1. Listed(s) \ Leaving(D) = {}
      BY <1>1
    <3>2. Cardinality(Listed(s) \ Leaving(D)) = 0
      BY <3>1, FS_EmptySet
    <3>3. Kept >= 0 /\ Kept \in Int
      BY <2>1, KeptType, SessionsAssumption
    <3>4. Cardinality(Busy(s) \ D) \in Nat
      BY BusyIsFinite
    <3>5. QED
      BY <3>2, <3>3, <3>4
  <2>2. QED
    BY <2>1 DEF LengthInv
<1>7. LateInv
  BY DEF Init, LateInv, LateOnce
<1>8. QED
  BY <1>2, <1>4, <1>5, <1>6, <1>7 DEF SessInv

LEMMA SessInvariant == Spec => []SessInv
<1>1. SessInv /\ [Next]_vars => SessInv'
  BY SessTypeStep, ListStep, AdmitStep, LengthStep, LateStep DEF SessInv
<1>2. QED
  BY SessInit, <1>1, PTL DEF Spec

(* A session lists runs of its own, each of them once, however submissions,  *)
(* removals by other threads, closing and collection interleave.            *)
THEOREM SessTypeCorrect == Spec => []TypeOK
<1>1. SessInv => TypeOK
  BY DEF SessInv
<1>2. QED
  BY <1>1, SessInvariant, PTL

(* An active run is in the list of its session, where the limit counts it,  *)
(* from add_run on.                                                         *)
THEOREM ActiveRunsListed == Spec => []ActiveListed
<1>1. SessInv => ActiveListed
  BY DEF SessInv, ListInv
<1>2. QED
  BY <1>1, SessInvariant, PTL

(* Each thread that has passed the limit check together with others adds at *)
(* most one run beyond max_concurrent_runs.                                 *)
THEOREM LimitKept == Spec => []LimitHolds
<1>1. ASSUME SessInv PROVE LimitHolds
  <2>1. ASSUME MaxConcurrent > 0, NEW s \in SessionIds
        PROVE  Cardinality(ActiveOf(s)) < MaxConcurrent + Cardinality(Clients)
    <3>1. Cardinality(ActiveOf(s)) + Cardinality(Admitted(s)) <= Cap
      BY <1>1, <2>1 DEF SessInv, AdmitInv
    <3>2. /\ Cardinality(ActiveOf(s)) \in Nat /\ Cardinality(Admitted(s)) \in Nat
          /\ Cardinality(Clients) \in Nat
      BY SessionsAreFinite
    <3>3. QED
      BY <3>1, <3>2, SessionsAssumption DEF Cap
  <2>2. QED
    BY <2>1 DEF LimitHolds, ActiveOf
<1>2. QED
  BY <1>1, SessInvariant, PTL

(* The list of a session is within what is kept, or may be active, and one  *)
(* run for each thread that has still to trim.                              *)
THEOREM ListsBounded == Spec => []RunListBound
<1>1. ASSUME SessInv PROVE RunListBound
  <2> DEFINE busy == {c \in Clients : pc[c] \in {"listed", "trimming"}}
  <2>1. ASSUME RetainLast >= 0, MaxConcurrent > 0, NEW s \in SessionIds
        PROVE  Len(run_ids[s]) <= Kept + Cardinality(busy)
    <3>1. Cardinality(Listed(s) \ Leaving({})) <= Kept + Cardinality(Busy(s) \ {})
      BY <1>1, <2>1 DEF SessInv, LengthInv
    <3>2. Listed(s) \ Leaving({}) = Listed(s) /\ Busy(s) \ {} = Busy(s)
      BY DEF Leaving
    <3>3. Cardinality(Listed(s)) = Len(run_ids[s]) /\ Len(run_ids[s]) \in Nat
      BY <1>1, ListsAreFinite DEF SessInv
    <3>4. Busy(s) \subseteq busy /\ IsFiniteSet(busy) /\ Cardinality(busy) \in Nat
      BY SessionsAssumption, FS_Subset, FS_CardinalityType DEF Busy
    <3>5. Cardinality(Busy(s)) <= Cardinality(busy) /\ Cardinality(Busy(s)) \in Nat
      BY <3>4, FS_Subset, FS_CardinalityType
    <3>6. Cardinality(Listed(s)) <= Kept + Cardinality(Busy(s))
      BY <3>1, <3>2
    <3>7. QED
      BY <3>3, <3>4, <3>5, <3>6, KeptType
  <2>2. QED
    BY <2>1 DEF RunListBound, Kept, Cap
<1>2. QED
  BY <1>1, SessInvariant, PTL

(* A thread hands over at most one run to a session that is closed or has   *)
(* expired: the one it was submitting at that moment.                       *)
THEOREM LateOnlyOnce == Spec => []LateOnce
<1>1. SessInv => LateOnce
  BY DEF SessInv, LateInv
<1>2. QED
  BY <1>1, SessInvariant, PTL

=============================================================================
