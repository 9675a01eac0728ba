--------------------------- MODULE TerminalProofs ---------------------------
(***************************************************************************)
(* Theorems about Terminal, for every set of kinds of commands, whether or  *)
(* not CancelledError is an outcome, and for any number of commands.        *)
(*                                                                         *)
(* The argument: from the moment the root console is pushed until the       *)
(* terminal cleans up, the stack is not empty, and every change of it moves *)
(* the router and forward_console along; and from the moment the loop was   *)
(* seen to run, the sink is there until the terminal stops the loop, which  *)
(* it does not do while it waits for a command.                             *)
(***************************************************************************)
EXTENDS Terminal, TLAPS

Consoles == [id : Nat, parent : Nat]

(* The variables' types, as far as the arguments below need them. *)
TermType ==
    /\ stack \in Seq(Consoles)
    /\ fresh \in Consoles
    /\ count \in Nat
    /\ cmd.id \in Nat
    /\ direct \in BOOLEAN

(* The terminal has a console on top, from its start to its cleaning up. *)
Live == {"prompt", "typed", "handover", "direct", "inline", "waiting"}

(* Every console leads back to the one below it. *)
Chain(s) == \A i \in 1 .. Len(s) : s[i].parent = Current(SubSeq(s, 1, i - 1))

(* Between the two halves of a remote push the events go to the console that *)
(* is not on the stack yet, and that will be above the one that is on top.  *)
Agreement ==
    /\ bound = Current(stack)
    /\ Chain(stack)
    /\ remote # "pushing" => forward = Current(stack)
    /\ remote = "pushing" => forward = fresh.id /\ fresh.parent = Current(stack)

ConsoleInv ==
    /\ tty \in Live => stack # <<>>
    /\ tty \in Live \cup {"start"} /\ ~raced => Agreement

(* Without the sink a server's loop is closed, and so the terminal left; a   *)
(* run waits for a worker only while the terminal waits for it; one that was *)
(* handed to a running loop finds the sink there.                           *)
OutputInv ==
    /\ mode = "rpc" /\ ~subscribed => loop = "closed" /\ tty \in {"stopping", "done"}
    /\ run \in {"queued", "running"} => tty = "waiting" /\ (direct \/ subscribed)
    /\ tty \in {"direct", "inline"} => direct
    /\ lost \subseteq {TRUE}
    /\ lost # {} => mode # "rpc"

TermInv == TermType /\ ConsoleInv /\ OutputInv

-----------------------------------------------------------------------------
(* The stack *)

(* append: the new console is on top, and what was below it is still there. *)
LEMMA Stacked ==
    ASSUME NEW s \in Seq(Consoles), NEW c \in Consoles
    PROVE  /\ Append(s, c) \in Seq(Consoles) /\ Append(s, c) # <<>>
           /\ Current(Append(s, c)) = c.id
           /\ Chain(s) /\ c.parent = Current(s) => Chain(Append(s, c))
<1> DEFINE t == Append(s, c)
<1>1. /\ t \in Seq(Consoles) /\ Len(t) = Len(s) + 1 /\ Len(s) \in Nat
      /\ t[Len(s) + 1] = c
      /\ \A i \in 1 .. Len(s) : t[i] = s[i]
  OBVIOUS
<1>2. t # <<>> /\ Last(t) = c
  BY <1>1 DEF Last
<1>3. \A i \in 1 .. Len(s) + 1 : SubSeq(t, 1, i - 1) = SubSeq(s, 1, i - 1)
  <2> SUFFICES ASSUME NEW i \in 1 .. Len(s) + 1
               PROVE  SubSeq(t, 1, i - 1) = SubSeq(s, 1, i - 1)
    OBVIOUS
  <2>1. /\ SubSeq(t, 1, i - 1) = [k \in 1 .. i - 1 |-> t[k]]
        /\ SubSeq(s, 1, i - 1) = [k \in 1 .. i - 1 |-> s[k]]
    BY <1>1
  <2>2. \A k \in 1 .. i - 1 : t[k] = s[k]
    BY <1>1
  <2>3. QED
    BY <2>1, <2>2
<1>4. SubSeq(s, 1, Len(s)) = s
  OBVIOUS
<1> HIDE DEF t
<1>5. ASSUME Chain(s), c.parent = Current(s) PROVE Chain(t)
  <2> SUFFICES ASSUME NEW i \in 1 .. Len(t)
               PROVE  t[i].parent = Current(SubSeq(t, 1, i - 1))
    BY DEF Chain
  <2>1. CASE i \in 1 .. Len(s)
    BY <1>1, <1>3, <1>5, <2>1 DEF Chain
  <2>2. CASE i = Len(s) + 1
    <3>1. i - 1 = Len(s) /\ i \in 1 .. Len(s) + 1
      BY <1>1, <2>2
    <3>2. SubSeq(t, 1, i - 1) = s
      BY <1>3, <1>4, <3>1
    <3>3. QED
      BY <1>1, <1>5, <2>2, <3>2
  <2>3. QED
    BY <1>1, <2>1, <2>2
<1>6. Current(t) = c.id
  BY <1>2 DEF Current
<1>7. QED
  BY <1>1, <1>2, <1>5, <1>6 DEF t

(* pop: what the topmost console leads back to is on top now. *)
LEMMA Unstacked ==
    ASSUME NEW s \in Seq(Consoles), s # <<>>
    PROVE  /\ Front(s) \in Seq(Consoles) /\ Last(s) \in Consoles
           /\ Current(s) = Last(s).id
           /\ Chain(s) => Chain(Front(s)) /\ Last(s).parent = Current(Front(s))
<1> DEFINE t == Front(s)
           n == Len(s)
<1>1. n \in Nat /\ n >= 1 /\ Last(s) \in Consoles /\ Last(s) = s[n]
  BY DEF Last
<1>2. /\ t \in Seq(Consoles) /\ Len(t) = n - 1
      /\ \A i \in 1 .. n - 1 : t[i] = s[i]
  <2> DEFINE u == SubSeq(s, 1, n - 1)
  <2>1. u \in Seq(Consoles)
    BY <1>1
  <2>2. Len(u) = n - 1
    <3>1. \A m \in 0 .. Len(s) : Len(SubSeq(s, 1, m)) = m
      BY <1>1
    <3>2. n - 1 \in 0 .. Len(s)
      BY <1>1
    <3>3. QED
      BY <3>1, <3>2, Zenon
  <2>3. \A i \in 1 .. n - 1 : u[i] = s[i]
    BY <1>1
  <2>4. QED
    BY <2>1, <2>2, <2>3 DEF Front
<1>3. t = SubSeq(s, 1, n - 1)
  BY DEF Front
<1>4. \A i \in 1 .. n - 1 : SubSeq(t, 1, i - 1) = SubSeq(s, 1, i - 1)
  <2> SUFFICES ASSUME NEW i \in 1 .. n - 1
               PROVE  SubSeq(t, 1, i - 1) = SubSeq(s, 1, i - 1)
    OBVIOUS
  <2> HIDE DEF t, n
  <2>1. SubSeq(t, 1, i - 1) = [k \in 1 .. i - 1 |-> t[k]]
    BY <1>1, <1>2
  <2>2. SubSeq(s, 1, i - 1) = [k \in 1 .. i - 1 |-> s[k]]
    BY <1>1 DEF n
  <2>3. \A k \in 1 .. i - 1 : t[k] = s[k]
    BY <1>1, <1>2
  <2>4. QED
    BY <2>1, <2>2, <2>3
<1>5. ASSUME Chain(s) PROVE Chain(t) /\ Last(s).parent = Current(t)
  <2>1. \A i \in 1 .. n : s[i].parent = Current(SubSeq(s, 1, i - 1))
    BY <1>5 DEF Chain
  <2> HIDE DEF t, n
  <2>2. ASSUME NEW i \in 1 .. n - 1
        PROVE  t[i].parent = Current(SubSeq(t, 1, i - 1))
    <3>1. i \in 1 .. n
      BY <1>1
    <3>2. s[i].parent = Current(SubSeq(s, 1, i - 1))
      BY <2>1, <3>1
    <3>3. SubSeq(t, 1, i - 1) = SubSeq(s, 1, i - 1) /\ t[i] = s[i]
      BY <1>2, <1>4
    <3>4. QED
      BY <3>2, <3>3
  <2>3. Chain(t)
    BY <1>2, <2>2 DEF Chain
  <2>4. s[n].parent = Current(SubSeq(s, 1, n - 1))
    BY <1>1, <2>1
  <2>5. QED
    BY <1>1, <1>3, <2>3, <2>4
<1>6. Current(s) = Last(s).id
  BY DEF Current
<1>7. QED
  BY <1>1, <1>2, <1>5, <1>6

LEMMA EmptyStack == <<>> \in Seq(Consoles) /\ Current(<<>>) = None /\ Chain(<<>>)
<1>1. <<>> \in Seq(Consoles)
  OBVIOUS
<1>2. QED
  BY <1>1 DEF Current, Chain

LEMMA CurrentIsNumber ==
    ASSUME NEW s \in Seq(Consoles) PROVE Current(s) \in Nat
<1>1. CASE s = <<>>
  BY <1>1 DEF Current, None
<1>2. CASE s # <<>>
  <2>1. Current(s) = Last(s).id /\ Last(s) \in Consoles
    BY <1>2, Unstacked
  <2>2. QED
    BY <2>1 DEF Consoles
<1>3. QED
  BY <1>1, <1>2

-----------------------------------------------------------------------------
(* What the steps do to the consoles *)

Kept == TermType' /\ ((~raced => Agreement) => (~raced' => Agreement'))

(* What the parts of TermType not about consoles are after most steps. *)
Others == count' \in Nat /\ cmd'.id \in Nat /\ direct' \in BOOLEAN

LEMMA PushKeeps ==
    ASSUME TermType, NEW id \in Nat, Push(id), Others, UNCHANGED remoteVars
    PROVE  stack' # <<>> /\ Kept
<1> DEFINE c == Console(id, Current(stack))
<1>1. stack \in Seq(Consoles) /\ fresh' \in Consoles
  BY DEF TermType, remoteVars
<1>2. c \in Consoles /\ c.id = id /\ c.parent = Current(stack)
  BY <1>1, CurrentIsNumber DEF Console, Consoles
<1>3. /\ stack' = Append(stack, c) /\ forward' = id /\ bound' = id
      /\ ~raced' => ~raced /\ remote # "pushing"
      /\ remote' = remote
  BY DEF Push, Bind, remoteVars
<1> HIDE DEF c
<1>4. /\ stack' \in Seq(Consoles) /\ stack' # <<>> /\ Current(stack') = id
      /\ Chain(stack) => Chain(stack')
  BY <1>1, <1>2, <1>3, Stacked
<1>5. TermType'
  BY <1>1, <1>4 DEF TermType, Others
<1>6. ASSUME ~raced => Agreement, ~raced' PROVE Agreement'
  <2>1. Chain(stack) /\ remote' # "pushing"
    BY <1>3, <1>6 DEF Agreement
  <2>2. QED
    BY <1>3, <1>4, <2>1 DEF Agreement
<1>7. QED
  BY <1>4, <1>5, <1>6 DEF Kept

LEMMA PopKeeps ==
    ASSUME TermType, stack # <<>>, Pop, Others, UNCHANGED remoteVars
    PROVE  Kept
<1>1. stack \in Seq(Consoles) /\ fresh' \in Consoles
  BY DEF TermType, remoteVars
<1>2. /\ stack' = Front(stack) /\ bound' = Current(stack')
      /\ forward' = ForwardAfter(Last(stack), forward)
      /\ ~raced' => ~raced /\ remote # "pushing"
      /\ remote' = remote
  BY DEF Pop, Bind, remoteVars
<1>3. /\ stack' \in Seq(Consoles) /\ Current(stack) = Last(stack).id
      /\ Chain(stack) => Chain(stack') /\ Last(stack).parent = Current(stack')
  BY <1>1, <1>2, Unstacked
<1>4. TermType'
  BY <1>1, <1>3 DEF TermType, Others
<1>5. ASSUME ~raced => Agreement, ~raced' PROVE Agreement'
  <2>1. Chain(stack) /\ remote' # "pushing" /\ forward = Last(stack).id
    BY <1>2, <1>3, <1>5 DEF Agreement
  <2>2. forward' = Current(stack')
    BY <1>2, <1>3, <2>1 DEF ForwardAfter
  <2>3. QED
    BY <1>2, <1>3, <2>1, <2>2 DEF Agreement
<1>6. QED
  BY <1>4, <1>5 DEF Kept

LEMMA NoneLeft ==
    ASSUME TermType, PopAll, Others, UNCHANGED remoteVars
    PROVE  TermType'
<1>1. stack' \in Seq(Consoles) /\ fresh' \in Consoles
  BY EmptyStack DEF TermType, PopAll, remoteVars
<1>2. QED
  BY <1>1 DEF TermType, Others

(* A step that leaves the consoles alone, and a remote push under way, too. *)
LEMMA Untouched ==
    ASSUME TermType, UNCHANGED consoles, Others, fresh' \in Consoles,
           UNCHANGED remoteVars \/ (remote # "pushing" /\ remote' # "pushing")
    PROVE  stack' = stack /\ Kept
<1>1. stack' = stack /\ forward' = forward /\ bound' = bound /\ raced' = raced
  BY DEF consoles
<1>2. TermType'
  BY <1>1 DEF TermType, Others
<1>3. ASSUME Agreement PROVE Agreement'
  <2>1. CASE UNCHANGED remoteVars
    BY <1>1, <1>3, <2>1 DEF Agreement, remoteVars, Chain
  <2>2. CASE remote # "pushing" /\ remote' # "pushing"
    BY <1>1, <1>3, <2>2 DEF Agreement, Chain
  <2>3. QED
    BY <2>1, <2>2
<1>4. QED
  BY <1>1, <1>2, <1>3 DEF Kept

(* The two halves of a remote push, and a remote run that opens nothing. *)
LEMMA RemoteKeeps ==
    ASSUME TermType, RemoteEnd
    PROVE  (stack # <<>> => stack' # <<>>) /\ Kept
<1>1. Others
  BY DEF TermType, RemoteEnd, command, Others
<1>2. stack \in Seq(Consoles) /\ fresh \in Consoles
  BY DEF TermType
<1>3. CASE remote = "running" /\ remote' = "none" /\ UNCHANGED <<consoles, fresh>>
  <2>1. stack' = stack /\ Kept
    BY <1>1, <1>2, <1>3, Untouched
  <2>2. QED
    BY <2>1
<1>4. CASE /\ remote = "running"
           /\ remote' = "pushing" /\ fresh' = [fresh EXCEPT !.parent = Current(stack)]
           /\ forward' = fresh.id /\ UNCHANGED <<stack, bound, raced>>
  <2>1. /\ fresh' \in Consoles /\ fresh'.id = fresh.id
        /\ fresh'.parent = Current(stack)
    BY <1>2, <1>4, CurrentIsNumber DEF Consoles
  <2>2. TermType'
    BY <1>1, <1>2, <1>4, <2>1 DEF TermType, Others
  <2>3. ASSUME Agreement PROVE Agreement'
    BY <1>4, <2>1, <2>3 DEF Agreement, Chain
  <2>4. QED
    BY <1>4, <2>2, <2>3 DEF Kept
<1>5. CASE /\ remote = "pushing"
           /\ remote' = "none" /\ stack' = Append(stack, fresh) /\ Bind(fresh.id)
           /\ UNCHANGED <<forward, fresh, raced>>
  <2>1. /\ stack' \in Seq(Consoles) /\ stack' # <<>> /\ Current(stack') = fresh.id
        /\ Chain(stack) /\ fresh.parent = Current(stack) => Chain(stack')
    BY <1>2, <1>5, Stacked
  <2>2. TermType'
    BY <1>1, <1>2, <1>5, <2>1 DEF TermType, Others
  <2>3. ASSUME Agreement PROVE Agreement'
    <3>1. Chain(stack) /\ fresh.parent = Current(stack) /\ forward = fresh.id
      BY <1>5, <2>3 DEF Agreement
    <3>2. QED
      BY <1>5, <2>1, <3>1 DEF Agreement, Bind
  <2>4. QED
    BY <1>5, <2>1, <2>2, <2>3 DEF Kept
<1>6. QED
  BY <1>3, <1>4, <1>5 DEF RemoteEnd

(* Goes on: a terminal that is live now was live or had not started, and a   *)
(* terminal that has not started had not.                                   *)
GoesOn == (tty' \in Live => tty \in Live) /\ (tty' = "start" => tty = "start")

LEMMA StillTogether ==
    ASSUME ConsoleInv, Kept, stack # <<>> => stack' # <<>>, GoesOn
    PROVE  (TermType /\ ConsoleInv)'
<1>1. tty' \in Live => stack' # <<>>
  BY DEF ConsoleInv, GoesOn
<1>2. tty' \in Live \cup {"start"} => tty \in Live \cup {"start"}
  BY DEF GoesOn
<1>3. TermType' /\ (tty' \in Live \cup {"start"} /\ ~raced' => Agreement')
  BY <1>2 DEF ConsoleInv, Kept
<1>4. QED
  BY <1>1, <1>3 DEF ConsoleInv

(* A terminal that is not live any more has no promise to keep. *)
LEMMA NotLive ==
    ASSUME TermType', tty' \notin Live \cup {"start"}
    PROVE  (TermType /\ ConsoleInv)'
BY DEF ConsoleInv

LEMMA ConsoleStep ==
    ASSUME TermType, ConsoleInv, [Next]_vars
    PROVE  (TermType /\ ConsoleInv)'
<1>0. stack \in Seq(Consoles) /\ fresh \in Consoles /\ cmd.id \in Nat /\ count \in Nat
  BY DEF TermType
<1>1. CASE Start
  <2>1. Others /\ UNCHANGED remoteVars /\ Push(1) /\ tty' = "prompt"
    BY <1>1 DEF Start, Others, TermType, command
  <2>2. stack' # <<>> /\ Kept
    BY <2>1, PushKeeps
  <2>3. ~raced' => Agreement'
    BY <1>1, <2>1, <2>2 DEF Kept, ConsoleInv, Start, Push
  <2>4. QED
    BY <2>2, <2>3 DEF Kept, ConsoleInv
<1>2. ASSUME NEW k \in Kinds, Type(k)
      PROVE  (TermType /\ ConsoleInv)'
  <2>1. Others /\ UNCHANGED remoteVars /\ GoesOn /\ UNCHANGED <<stack, forward, raced>>
    BY <1>0, <1>2 DEF Type, Others, TermType, GoesOn, Live
  <2>2. bound' = Current(stack)
    BY <1>2 DEF Type, Bind
  <2>3. TermType'
    BY <2>1 DEF TermType, Others, remoteVars
  <2>4. Agreement => Agreement'
    BY <2>1, <2>2 DEF Agreement, remoteVars, Chain
  <2>5. QED
    BY <2>1, <2>3, <2>4, StillTogether DEF Kept
<1>3. CASE Interrupt
  <2>1. Others /\ UNCHANGED remoteVars /\ tty' = "clean"
    BY <1>3 DEF Interrupt, Others, TermType, command
  <2>2. CASE PopAll
    BY <2>1, <2>2, NoneLeft, NotLive DEF Live
  <2>3. CASE UNCHANGED consoles
    <3>1. fresh' \in Consoles
      BY <1>0, <2>1 DEF remoteVars
    <3>2. Kept
      BY <2>1, <2>3, <3>1, Untouched
    <3>3. QED
      BY <2>1, <3>2, NotLive DEF Kept, Live
  <2>4. QED
    BY <1>3, <2>2, <2>3 DEF Interrupt
<1>4. CASE Execute \/ HandOver \/ Submit \/ Take
  <2>1. UNCHANGED <<consoles, remoteVars, count, cmd>> /\ GoesOn /\ direct' \in BOOLEAN
    BY <1>4 DEF Execute, HandOver, Submit, Take, GoesOn, Live, command, TermType
  <2>2. Others /\ fresh' \in Consoles
    BY <1>0, <2>1 DEF Others, remoteVars
  <2>3. stack' = stack /\ Kept
    BY <2>1, <2>2, Untouched
  <2>4. QED
    BY <2>1, <2>3, StillTogether
<1>5. CASE Inline \/ EndRun
  <2>1. PICK onLoop \in BOOLEAN : Effect(onLoop)
    BY <1>5 DEF Inline, EndRun
  <2>2. UNCHANGED <<remoteVars, count, command>> /\ GoesOn
    BY <1>5 DEF Inline, EndRun, GoesOn, Live
  <2>3. Others /\ fresh' \in Consoles
    BY <1>0, <2>2 DEF Others, remoteVars, command, TermType
  <2>4. CASE Push(cmd.id)
    BY <1>0, <2>2, <2>3, <2>4, PushKeeps, StillTogether
  <2>5. CASE UNCHANGED consoles
    BY <2>2, <2>3, <2>5, Untouched, StillTogether
  <2>6. QED
    BY <2>1, <2>4, <2>5 DEF Effect
<1>6. CASE Outcome
  <2>1. UNCHANGED <<remoteVars, count, command>> /\ tty = "waiting"
    BY <1>6 DEF Outcome
  <2>2. Others /\ fresh' \in Consoles /\ stack # <<>>
    BY <1>0, <2>1 DEF Others, remoteVars, command, TermType, ConsoleInv, Live
  <2>3. CASE tty' \in {"prompt", "clean"} /\ UNCHANGED consoles
    <3>1. GoesOn
      BY <2>1, <2>3 DEF GoesOn, Live
    <3>2. QED
      BY <2>1, <2>2, <2>3, <3>1, Untouched, StillTogether
  <2>4. CASE Pop /\ tty' = IF stack' = <<>> THEN "clean" ELSE "prompt"
    <3>1. Kept
      BY <2>1, <2>2, <2>4, PopKeeps
    <3>2. CASE stack' = <<>>
      BY <2>4, <3>1, <3>2, NotLive DEF Kept, Live
    <3>3. CASE stack' # <<>>
      <4>1. GoesOn
        BY <2>1, <2>4, <3>3 DEF GoesOn, Live
      <4>2. QED
        BY <3>1, <3>3, <4>1, StillTogether
    <3>4. QED
      BY <3>2, <3>3
  <2>5. CASE PopAll /\ tty' = "clean"
    BY <2>1, <2>2, <2>5, NoneLeft, NotLive DEF Live
  <2>6. QED
    BY <1>6, <2>3, <2>4, <2>5 DEF Outcome
<1>7. CASE StartExecutor \/ RunForever \/ Subscribe \/ StopLoop
  <2>1. UNCHANGED <<consoles, remoteVars, count, command, tty>>
    BY <1>7 DEF StartExecutor, RunForever, Subscribe, StopLoop
  <2>2. Others /\ fresh' \in Consoles /\ GoesOn
    BY <1>0, <2>1 DEF Others, remoteVars, command, TermType, GoesOn
  <2>3. QED
    BY <2>1, <2>2, Untouched, StillTogether
<1>8. CASE Invoke \/ StartRemote
  <2>1. /\ UNCHANGED <<consoles, command, tty>>
        /\ remote # "pushing" /\ remote' # "pushing"
    BY <1>8 DEF Invoke, StartRemote
  <2>2. count' \in Nat /\ fresh' \in Consoles
    BY <1>0, <1>8 DEF Invoke, StartRemote, Console, Consoles, None
  <2>3. Others /\ GoesOn
    BY <1>0, <2>1, <2>2 DEF Others, command, TermType, GoesOn
  <2>4. QED
    BY <2>1, <2>2, <2>3, Untouched, StillTogether
<1>9. CASE RemoteEnd
  <2>1. GoesOn
    BY <1>9 DEF RemoteEnd, GoesOn
  <2>2. QED
    BY <1>9, <2>1, RemoteKeeps, StillTogether
<1>10. CASE Clean
  <2>1. TermType'
    BY <1>10 DEF Clean, TermType, command
  <2>2. tty' \in {"hung", "stopping", "left"}
    BY <1>10 DEF Clean
  <2>3. QED
    BY <2>1, <2>2, NotLive DEF Live
<1>11. CASE Leave \/ Done
  <2>1. TermType'
    BY <1>11 DEF Leave, Done, TermType, command, consoles, remoteVars
  <2>2. tty' \in {"done", "gone"}
    BY <1>11 DEF Leave, Done
  <2>3. QED
    BY <2>1, <2>2, NotLive DEF Live
<1>12. CASE UNCHANGED vars
  <2>1. UNCHANGED <<consoles, remoteVars, count, command, tty>>
    BY <1>12 DEF vars, consoles, remoteVars, command
  <2>2. Others /\ fresh' \in Consoles /\ GoesOn
    BY <1>0, <2>1 DEF Others, remoteVars, command, TermType, GoesOn
  <2>3. QED
    BY <2>1, <2>2, Untouched, StillTogether
<1>13. QED
  BY <1>1, <1>2, <1>3, <1>4, <1>5, <1>6, <1>7, <1>8, <1>9, <1>10, <1>11, <1>12
     DEF Next

LEMMA ConsoleInit == Init => TermType /\ ConsoleInv
<1> SUFFICES ASSUME Init PROVE TermType /\ ConsoleInv
  OBVIOUS
<1>1. /\ stack = <<>> /\ forward = None /\ bound = None /\ tty = "start"
      /\ remote = "none"
  BY DEF Init
<1>2. TermType
  BY <1>1, EmptyStack DEF Init, TermType, Console, Consoles, None
<1>3. Agreement
  BY <1>1, EmptyStack DEF Agreement
<1>4. QED
  BY <1>1, <1>2, <1>3 DEF ConsoleInv, Live

-----------------------------------------------------------------------------
(* What the steps do to the output *)

LEMMA OutputInit == Init => OutputInv
BY DEF Init, OutputInv, HasServer

(* What a handler prints is seen, unless the terminal executes it itself, or *)
(* had found the loop not running.                                          *)
LEMMA SeenOrDirect ==
    ASSUME direct \in BOOLEAN, OutputInv, NEW onLoop, Effect(onLoop),
           direct \/ subscribed,
           mode = "rpc" => subscribed
    PROVE  lost' \subseteq {TRUE} /\ (lost' # {} => mode # "rpc")
<1>1. lost' = lost \/ (~subscribed /\ lost' = lost \cup {direct})
  BY DEF Effect, Seen
<1>2. CASE lost' = lost
  BY <1>2 DEF OutputInv
<1>3. CASE ~subscribed /\ lost' = lost \cup {direct}
  <2>1. direct = TRUE /\ mode # "rpc"
    BY <1>3
  <2>2. QED
    BY <1>3, <2>1 DEF OutputInv
<1>4. QED
  BY <1>1, <1>2, <1>3

LEMMA OutputStep ==
    ASSUME direct \in BOOLEAN, OutputInv, [Next]_vars
    PROVE  OutputInv'
<1>1. CASE Start \/ Interrupt \/ Leave \/ Done
  BY <1>1 DEF Start, Interrupt, Leave, Done, OutputInv, command
<1>2. ASSUME NEW k \in Kinds, Type(k)
      PROVE  OutputInv'
  BY <1>2 DEF Type, OutputInv
<1>3. CASE Execute
  BY <1>3 DEF Execute, OutputInv
<1>4. CASE HandOver \/ Submit
  BY <1>4 DEF HandOver, Submit, OutputInv, command
<1>5. CASE Inline
  <2>1. direct /\ (mode = "rpc" => subscribed) /\ Effect(FALSE)
    BY <1>5 DEF Inline, OutputInv
  <2>2. lost' \subseteq {TRUE} /\ (lost' # {} => mode # "rpc")
    BY <2>1, SeenOrDirect
  <2>3. run' = "ended" /\ UNCHANGED <<mode, loop, subscribed, direct>> /\ tty' = "waiting"
    BY <1>5 DEF Inline, Effect, command
  <2>4. QED
    BY <1>5, <2>1, <2>2, <2>3 DEF OutputInv
<1>6. CASE EndRun
  <2>1. PICK onLoop \in BOOLEAN : Effect(onLoop)
    BY <1>6 DEF EndRun
  <2>2. (direct \/ subscribed) /\ (mode = "rpc" => subscribed) /\ tty = "waiting"
    BY <1>6 DEF EndRun, OutputInv
  <2>3. lost' \subseteq {TRUE} /\ (lost' # {} => mode # "rpc")
    BY <2>1, <2>2, SeenOrDirect
  <2>4. run' = "ended" /\ UNCHANGED <<mode, loop, subscribed, direct, tty>>
    BY <1>6, <2>1 DEF EndRun, Effect, command
  <2>5. QED
    BY <2>2, <2>3, <2>4 DEF OutputInv
<1>7. CASE Take
  BY <1>7 DEF Take, OutputInv, command
<1>8. CASE Outcome
  <2>1. tty = "waiting" /\ run' = "none" /\ UNCHANGED <<mode, loop, subscribed, direct, lost>>
    BY <1>8 DEF Outcome, command
  <2>2. tty' \in {"prompt", "clean"}
    BY <1>8 DEF Outcome
  <2>3. QED
    BY <2>1, <2>2 DEF OutputInv
<1>9. CASE StartExecutor \/ RunForever \/ Subscribe
  BY <1>9 DEF StartExecutor, RunForever, Subscribe, OutputInv, command
<1>10. CASE Invoke \/ StartRemote \/ RemoteEnd
  BY <1>10 DEF Invoke, StartRemote, RemoteEnd, OutputInv, command
<1>11. CASE Clean
  BY <1>11 DEF Clean, OutputInv, command
<1>12. CASE StopLoop
  BY <1>12 DEF StopLoop, MustStop, OutputInv, command
<1>13. CASE UNCHANGED vars
  BY <1>13 DEF vars, OutputInv
<1>14. QED
  BY <1>1, <1>2, <1>3, <1>4, <1>5, <1>6, <1>7, <1>8, <1>9, <1>10, <1>11, <1>12, <1>13
     DEF Next

-----------------------------------------------------------------------------
LEMMA TermInvHolds == Spec => []TermInv
<1>1. Init => TermInv
  BY ConsoleInit, OutputInit DEF TermInv
<1>2. TermInv /\ [Next]_vars => TermInv'
  <2> SUFFICES ASSUME TermInv, [Next]_vars PROVE TermInv'
    OBVIOUS
  <2>1. TermType /\ ConsoleInv /\ OutputInv /\ direct \in BOOLEAN
    BY DEF TermInv, TermType
  <2>2. (TermType /\ ConsoleInv)'
    BY <2>1, ConsoleStep
  <2>3. OutputInv'
    BY <2>1, OutputStep
  <2>4. QED
    BY <2>2, <2>3 DEF TermInv
<1>3. QED
  BY <1>1, <1>2, PTL DEF Spec

(* At every prompt the stack, the router and forward_console agree on which  *)
(* console is on top, and each console leads back to the one below it: push, *)
(* pop, clean_console and a remote push keep them together, however many     *)
(* consoles are open, unless the stack changed under a remote push.          *)
THEOREM ConsolesStayTogether == Spec => []ConsolesAgree
<1>1. TermInv => ConsolesAgree
  <2> SUFFICES ASSUME TermInv, tty = "prompt", remote # "pushing", ~raced
               PROVE  /\ forward = Current(stack) /\ bound = forward
                      /\ Chain(stack)
    BY DEF ConsolesAgree, Chain
  <2>1. Agreement
    BY DEF TermInv, ConsoleInv, Live
  <2>2. QED
    BY <2>1 DEF Agreement
<1>2. QED
  BY <1>1, TermInvHolds, PTL

(* The output of a command that BaseConsole.execute handed to a running      *)
(* executor is always seen; with the server, whose start made the sink       *)
(* subscribe, that of a command the terminal executes itself is, too.        *)
THEOREM OutputLostOnlyAtStart == Spec => []LostOnlyAtStart
<1>1. TermInv => LostOnlyAtStart
  BY DEF TermInv, OutputInv, LostOnlyAtStart
<1>2. QED
  BY <1>1, TermInvHolds, PTL

=============================================================================
