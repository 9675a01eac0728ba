------------------------------ MODULE Terminal ------------------------------
(***************************************************************************)
(* The terminal: ConsoleFactory's start and shutdown, the ConsoleManager's  *)
(* stack and loop, BaseConsole.execute, and the way output takes to the     *)
(* screen (TTYEventSink, OutputRouter).                                     *)
(*                                                                         *)
(* Two threads meet here: the terminal's, and the one with the executor's   *)
(* loop.  In run_mode "tty" the terminal starts the other one and goes on   *)
(* at once; in "concurrent" the loop has already run for the RPC server to   *)
(* start when the terminal's thread is born, and runs again after that.  A  *)
(* command that finds the loop not running is executed by the terminal's    *)
(* thread itself.  RPC clients are one remote run at a time, which keeps the *)
(* default lock_key; it may open a console on the terminal's stack.         *)
(***************************************************************************)
EXTENDS Integers, Sequences, SequencesExt

CONSTANTS
    Kinds,          \* what a command may do: "plain" prints, "push" opens a
                    \* console, "back" raises SubConsoleExit, "quit" raises
                    \* ConsoleExit, "invalid" ValueError, "fail" anything else
    CancelExempt,   \* CancelledError is among exempt_exceptions
    MaxCommands     \* bound: commands, typed or remote

VARIABLES
    mode,                   \* run_mode; "rpc" is "concurrent" with the server
    loop,                   \* executor._loop: not set, set, running, closed
    subscribed,             \* whether the sink's task has begun
    stack, forward, bound,  \* consoles: the stack, BaseConsole.forward_console,
                            \* and the console the router is bound to
    count,                  \* commands so far; it names new consoles
    tty, cmd, run,          \* the terminal: its progress, command and run
    remote, fresh,          \* the remote run, and the console it constructs
    lost, direct,           \* history: how commands went whose output nobody
                            \* saw; how the present one goes
    raced                   \* history: the stack changed under a remote push

vars == <<mode, loop, subscribed, stack, forward, bound, count, tty, cmd,
          run, remote, fresh, lost, direct, raced>>

consoles == <<stack, forward, bound, raced>>
command == <<cmd, direct>>
remoteVars == <<remote, fresh>>

None == 0
Console(id, parent) == [id |-> id, parent |-> parent]
Current(s) == IF s = <<>> THEN None ELSE Last(s).id

(* _start_rpc_server: the loop runs until the server is up. *)
HasServer == mode = "rpc"

Init ==
    /\ mode \in {"tty", "concurrent", "rpc"}
    /\ loop = IF mode = "tty" THEN "none" ELSE "set"
    /\ subscribed = HasServer
    /\ stack = <<>> /\ forward = None /\ bound = None /\ count = 0
    /\ tty = "start" /\ cmd = [kind |-> "none", id |-> None] /\ run = "none"
    /\ remote = "none" /\ fresh = Console(None, None)
    /\ lost = {} /\ direct = FALSE /\ raced = FALSE

-----------------------------------------------------------------------------
(* ConsoleManager *)

(* bind_session and clear_session of the router. *)
Bind(id) == bound' = id

(* push: __init__ makes the console the one to forward to. *)
Push(id) ==
    /\ stack' = Append(stack, Console(id, Current(stack)))
    /\ forward' = id
    /\ Bind(id)
    /\ raced' = (raced \/ remote = "pushing")

(* Mutant of ForwardAfter: the console that goes is left as it is.          *)
ForwardKept(c, f) == f

(* clean_console of c, where events went to f. *)
ForwardAfter(c, f) == IF f = c.id THEN c.parent ELSE f

(* pop; the router is bound to what is left. *)
Pop ==
    /\ stack' = Front(stack)
    /\ forward' = ForwardAfter(Last(stack), forward)
    /\ Bind(Current(stack'))
    /\ raced' = (raced \/ remote = "pushing")

(* pop as long as there are consoles, the topmost first. *)
PopAll ==
    /\ stack' = <<>>
    /\ forward' = FoldRight(ForwardAfter, stack, forward)
    /\ Bind(None)
    /\ raced' = (raced \/ remote = "pushing")

(* run: the root console. *)
Start ==
    /\ tty = "start"
    /\ Push(1) /\ count' = 1
    /\ tty' = "prompt"
    /\ UNCHANGED <<mode, loop, subscribed, command, run, remoteVars, lost>>

(* _prompt, at the console on top. *)
Type(k) ==
    /\ tty = "prompt" /\ count < MaxCommands
    /\ cmd' = [kind |-> k, id |-> count + 1]
    /\ Bind(Current(stack))
    /\ count' = count + 1
    /\ tty' = "typed"
    /\ UNCHANGED <<mode, loop, subscribed, stack, forward, run, direct, raced,
                   remoteVars, lost>>

(* Ctrl-C or the end of the input at the prompt. *)
Interrupt ==
    /\ tty = "prompt"
    /\ \/ PopAll
       \/ UNCHANGED consoles
    /\ tty' = "clean"
    /\ UNCHANGED <<mode, loop, subscribed, count, command, run, remoteVars, lost>>

-----------------------------------------------------------------------------
(* BaseConsole.execute: submit_threadsafe looks whether the loop runs. *)
Execute ==
    /\ tty = "typed"
    /\ direct' = (loop # "running")
    /\ tty' = IF loop = "running" THEN "handover" ELSE "direct"
    /\ UNCHANGED <<mode, loop, subscribed, consoles, count, cmd, run, remoteVars, lost>>

(* Mutant of HandOver: the sink is not started with the executor.           *)
HandOverUnseen ==
    /\ tty = "handover" /\ loop = "running"
    /\ run' = "queued" /\ tty' = "waiting"
    /\ UNCHANGED <<mode, loop, subscribed, consoles, count, command, remoteVars, lost>>

(* _enqueue is a callback of the loop, whose first ones start the sink. *)
HandOver ==
    /\ tty = "handover" /\ loop = "running" /\ subscribed
    /\ run' = "queued" /\ tty' = "waiting"
    /\ UNCHANGED <<mode, loop, subscribed, consoles, count, command, remoteVars, lost>>

(* submit looks again: the run is queued after all, or executed at once. *)
Submit ==
    /\ tty = "direct"
    /\ IF loop = "running" THEN run' = "queued" /\ tty' = "waiting"
                           ELSE run' = "inline" /\ tty' = "inline"
    /\ UNCHANGED <<mode, loop, subscribed, consoles, count, command, remoteVars, lost>>

(* An event reaches the screen if the sink is there when the bus gets it; a *)
(* running loop gets it from another thread as a callback, after the sink.  *)
Seen(onLoop) == subscribed \/ (~onLoop /\ loop = "running")

(* The handler: it prints, opens a console, or raises. *)
Effect(onLoop) ==
    /\ IF cmd.kind = "push" THEN Push(cmd.id) ELSE UNCHANGED consoles
    /\ lost' = IF cmd.kind = "plain" /\ ~Seen(onLoop) THEN lost \cup {direct} ELSE lost
    /\ run' = "ended"

Inline ==
    /\ tty = "inline"
    /\ Effect(FALSE)
    /\ tty' = "waiting"
    /\ UNCHANGED <<mode, loop, subscribed, count, command, remoteVars>>

(* A worker takes the run, whose lock_key "global" it shares with remote    *)
(* runs, and ends it; the handler may execute on the loop or in the pool.   *)
Take ==
    /\ run = "queued" /\ loop = "running" /\ remote \notin {"running", "pushing"}
    /\ run' = "running"
    /\ UNCHANGED <<mode, loop, subscribed, consoles, count, tty, command, remoteVars, lost>>

EndRun ==
    /\ run = "running" /\ loop = "running"
    /\ \E onLoop \in BOOLEAN : Effect(onLoop)
    /\ UNCHANGED <<mode, loop, subscribed, count, tty, command, remoteVars>>

(* wait_result_sync, and what the loop of the manager does with exceptions. *)
Outcome ==
    /\ tty = "waiting" /\ run = "ended"
    /\ run' = "none"
    /\ \/ /\ cmd.kind \in {"plain", "push", "invalid"}
          /\ tty' = "prompt" /\ UNCHANGED consoles
       \/ /\ cmd.kind = "back"
          /\ Pop /\ tty' = IF stack' = <<>> THEN "clean" ELSE "prompt"
       \/ /\ cmd.kind = "quit"
          /\ PopAll /\ tty' = "clean"
       \/ /\ cmd.kind = "fail"
          /\ tty' = "clean" /\ UNCHANGED consoles
    /\ UNCHANGED <<mode, loop, subscribed, count, command, remoteVars, lost>>

-----------------------------------------------------------------------------
(* The thread of the executor's loop *)

(* start_executor: workers and the sink's task are created. *)
StartExecutor ==
    /\ loop = "none"
    /\ loop' = "set"
    /\ UNCHANGED <<mode, subscribed, consoles, count, tty, command, run, remoteVars, lost>>

RunForever ==
    /\ loop = "set"
    /\ loop' = "running"
    /\ UNCHANGED <<mode, subscribed, consoles, count, tty, command, run, remoteVars, lost>>

(* The first step of the sink's task. *)
Subscribe ==
    /\ loop = "running" /\ ~subscribed
    /\ subscribed' = TRUE
    /\ UNCHANGED <<mode, loop, consoles, count, tty, command, run, remoteVars, lost>>

(* A remote run comes in, starts and ends; a console that it opens is made   *)
(* with the present one as its parent and pushed after that.                *)
Invoke ==
    /\ HasServer /\ loop = "running" /\ remote = "none"
    /\ count > 0 /\ count < MaxCommands
    /\ remote' = "queued" /\ count' = count + 1 /\ fresh' = Console(count', None)
    /\ UNCHANGED <<mode, loop, subscribed, consoles, tty, command, run, lost>>

StartRemote ==
    /\ remote = "queued" /\ run # "running" /\ loop = "running"
    /\ remote' = "running"
    /\ UNCHANGED <<mode, loop, subscribed, consoles, count, tty, command, run, fresh, lost>>

RemoteEnd ==
    /\ loop = "running"
    /\ \/ /\ remote = "running"
          /\ remote' = "none" /\ UNCHANGED <<consoles, fresh>>
       \/ /\ remote = "running"
          /\ remote' = "pushing" /\ fresh' = [fresh EXCEPT !.parent = Current(stack)]
          /\ forward' = fresh.id /\ UNCHANGED <<stack, bound, raced>>
       \/ /\ remote = "pushing"
          /\ remote' = "none" /\ stack' = Append(stack, fresh) /\ Bind(fresh.id)
          /\ UNCHANGED <<forward, fresh, raced>>
    /\ UNCHANGED <<mode, loop, subscribed, count, tty, command, run, lost>>

-----------------------------------------------------------------------------
(* clean, on the terminal's thread: the executor is shut down and its loop  *)
(* stopped, if it runs.  A remote run is cancelled; if CancelledError counts *)
(* as its outcome its worker goes on, and shutdown waits for ever.          *)
Clean ==
    /\ tty = "clean"
    /\ Bind(None)
    /\ IF loop = "running"
       THEN /\ tty' = IF remote \in {"running", "pushing"} /\ CancelExempt
                      THEN "hung" ELSE "stopping"
            /\ remote' = "none"
       ELSE /\ tty' = "left"
            /\ UNCHANGED remote
    /\ UNCHANGED <<mode, loop, subscribed, stack, forward, raced, count, command, run,
                   fresh, lost>>

(* _run_tty, at last: the loop is stopped if it runs by now. *)
Leave ==
    /\ tty = "left" /\ mode # "tty"
    /\ tty' = IF loop = "running" THEN "done" ELSE "gone"
    /\ UNCHANGED <<mode, loop, subscribed, consoles, count, command, run, remoteVars, lost>>

(* Mutant of MustStop: the loop is stopped only where a thread is joined.   *)
StopsOwnThread == tty \in {"stopping", "done"} /\ mode = "tty"

MustStop == tty \in {"stopping", "done"}

(* loop.stop: pending tasks, the sink's too, are cancelled, the loop closed. *)
StopLoop ==
    /\ MustStop /\ loop = "running"
    /\ loop' = "closed" /\ subscribed' = FALSE
    /\ UNCHANGED <<mode, consoles, count, tty, command, run, remoteVars, lost>>

(* In "tty" mode the executor's thread is joined; "concurrent" has none. *)
Done ==
    /\ tty = "stopping"
    /\ mode = "tty" => loop = "closed"
    /\ tty' = "done"
    /\ UNCHANGED <<mode, loop, subscribed, consoles, count, command, run, remoteVars, lost>>

Next ==
    \/ Start \/ (\E k \in Kinds : Type(k)) \/ Interrupt
    \/ Execute \/ HandOver \/ Submit \/ Inline \/ Take \/ EndRun \/ Outcome
    \/ StartExecutor \/ RunForever \/ Subscribe
    \/ Invoke \/ StartRemote \/ RemoteEnd
    \/ Clean \/ Leave \/ StopLoop \/ Done

(* Typing is up to the user and calls are up to the clients; both loops of   *)
(* the program go on while they have something to do.                       *)
Program ==
    \/ Start \/ Execute \/ HandOver \/ Submit \/ Inline \/ Outcome \/ Clean \/ Leave \/ Done

LoopStep == StartExecutor \/ RunForever \/ Subscribe \/ StopLoop

Spec == Init /\ [][Next]_vars

FairSpec ==
    /\ Spec
    /\ WF_vars(Program) /\ WF_vars(LoopStep)
    /\ WF_vars(Take) /\ WF_vars(EndRun) /\ WF_vars(StartRemote) /\ WF_vars(RemoteEnd)

-----------------------------------------------------------------------------
(* At the prompt the service's events go to the console that prompts, the   *)
(* output to its session, and every console leads back to the one below it: *)
(* push, pop and clean_console keep forward_console, the router and the     *)
(* stack together, whatever thread they are called on.  Only a remote push  *)
(* under which the terminal changes the stack takes them apart.             *)
ConsolesAgree ==
    tty = "prompt" /\ remote # "pushing" /\ ~raced =>
        /\ forward = Current(stack) /\ bound = forward
        /\ \A i \in 1..Len(stack) :
               stack[i].parent = Current(SubSeq(stack, 1, i - 1))

(* A command's output can only get lost where the terminal found the loop   *)
(* not running and nobody had started the sink: once submit_threadsafe has  *)
(* seen the loop run, TTYEventSink is subscribed before the command.        *)
LostOnlyAtStart == lost # {} => mode # "rpc" /\ lost = {TRUE}

(* Leaving the terminal while the executor's loop runs ends the program:    *)
(* shutdown returns and the loop is closed, in either run_mode, unless a    *)
(* remote command was executing that takes CancelledError for its outcome.  *)
TerminalEnds ==
    (tty = "clean" /\ loop = "running") ~>
        (tty = "done" /\ loop = "closed") \/ (CancelExempt /\ tty = "hung")
=============================================================================
