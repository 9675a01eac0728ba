--------------------------- MODULE CommandLookup ---------------------------
(***************************************************************************)
(* The registries and the commands found in them: decorators fill the       *)
(* ConsoleRegistry and the CommandRegistry in whatever order the modules     *)
(* are imported, register_all hands the consoles over to the manager, and    *)
(* an RPC call looks its command up twice: Invoke does, to check that the    *)
(* caller may execute it, and ExecutionBinding does again when a worker      *)
(* gets there, by a route of its own.  Modules may be imported in between.   *)
(*                                                                         *)
(* A console name is a sequence of words, joined by "_" in the code; a       *)
(* command_id "cmd:<console>:<command>" is a pair.                          *)
(***************************************************************************)
EXTENDS Integers, Sequences, FiniteSets, SequencesExt, Functions

CONSTANTS
    ConsoleName,    \* console class -> its name
    RootClass,      \* the class decorated with @root
    Parents,        \* parent names given to @sub and @multi
    Instances,      \* instance names given to @multi
    CommandLists,   \* what a commands class may hold: sequences of command
                    \* definitions [name, alias, rpc]
    DefaultCommands,\* the sequence that DefaultCommands holds
    Requests,       \* calls: [console, id, name], each None where left empty
    Principals,     \* who calls
    Configs,        \* RPCConfig: [require, allowed, admins, mtls, trust]
    MaxSubs,        \* bound: sub consoles
    None

(* None is nothing else; the default commands are decorated without exposure. *)
ASSUME LookupAssumption ==
    /\ None \notin DOMAIN ConsoleName /\ RootClass \in DOMAIN ConsoleName
    /\ \A ds \in CommandLists \cup {DefaultCommands} :
          ds \in Seq(Range(ds)) /\ None \notin Range(ds)
    /\ \A d \in Range(DefaultCommands) : ~d.rpc

VARIABLES
    config,
    root, subs,     \* ConsoleRegistry: whether @root was there; _subs in order
    early,          \* how many of those were there before @root
    up, table,      \* register_all: "no", "yes", "failed"; manager._registry
    defs,           \* CommandRegistry: what each class' commands are
    call            \* the call: [stage, request, principal, checked, executed]

Classes == DOMAIN ConsoleName

vars == <<config, root, subs, early, up, table, defs, call>>

NoCall == [stage |-> "none", request |-> None, principal |-> None,
           checked |-> None, executed |-> None]

Unbound == <<None>>

Init ==
    /\ config \in Configs
    /\ root = FALSE /\ subs = <<>> /\ early = 0
    /\ up = "no" /\ table = <<>>
    /\ defs = [c \in Classes |-> Unbound]
    /\ call = NoCall

-----------------------------------------------------------------------------
(* Decorators *)

(* Mutant of Taken: only the names of sub consoles count.                   *)
TakenBySub(n) == \E i \in DOMAIN subs : subs[i].name = n

Taken(n) ==
    \/ root /\ n = ConsoleName[RootClass]
    \/ \E i \in DOMAIN subs : subs[i].name = n

Entry(n, c, p) == [name |-> n, cls |-> c, parent |-> p]

(* @root; it does not look at the names of those already there. *)
SetRoot ==
    /\ ~root
    /\ root' = TRUE /\ early' = Len(subs)
    /\ UNCHANGED <<config, subs, up, table, defs, call>>

AddSub(c, p) ==
    /\ Len(subs) < MaxSubs /\ ~Taken(ConsoleName[c])
    /\ subs' = Append(subs, Entry(ConsoleName[c], c, p))
    /\ UNCHANGED <<config, root, early, up, table, defs, call>>

(* An instance's name gets its parent's in front, if it is not there. *)
InstanceName(p, n) == IF IsStrictPrefix(p, n) THEN n ELSE p \o n

(* @multi for one pair of the mapping: a pair whose name is taken raises,    *)
(* and those before it stay.                                                *)
AddMulti(c, p, n) ==
    /\ Len(subs) < MaxSubs /\ ~Taken(InstanceName(p, n))
    /\ subs' = Append(subs, Entry(InstanceName(p, n), c, p))
    /\ UNCHANGED <<config, root, early, up, table, defs, call>>

(* @commands: a class is bound once, to a commands class and its commands. *)
Bind(c, ds) ==
    /\ defs[c] = Unbound
    /\ defs' = [defs EXCEPT ![c] = ds]
    /\ UNCHANGED <<config, root, subs, early, up, table, call>>

-----------------------------------------------------------------------------
First(ds, T) ==
    LET i == SelectInSeq(ds, LAMBDA d : d \in T) IN IF i = 0 THEN None ELSE ds[i]
Latest(ds, T) ==
    LET i == SelectLastInSeq(ds, LAMBDA d : d \in T) IN IF i = 0 THEN None ELSE ds[i]

(* register_all: the root first, and a sub of its name replaces it. *)
Consoles == (IF root THEN <<Entry(ConsoleName[RootClass], RootClass, None)>> ELSE <<>>) \o subs

(* The consoles of a name. *)
Called(n) == {e \in Range(Consoles) : e.name = n}

RegisterAll ==
    /\ up = "no" /\ root
    /\ table' = [n \in {Consoles[i].name : i \in DOMAIN Consoles} |->
                    Latest(Consoles, Called(n)).cls]
    /\ up' = IF \A i \in DOMAIN subs : subs[i].parent \in DOMAIN table'
             THEN "yes" ELSE "failed"
    /\ UNCHANGED <<config, root, subs, early, defs, call>>

-----------------------------------------------------------------------------
(* _resolve_console_cls: the first console of the name. *)
ClassAt(n) == IF Called(n) = {} THEN None ELSE First(Consoles, Called(n)).cls

DefsOf(c) == IF defs[c] \in {Unbound, <<>>} THEN DefaultCommands ELSE defs[c]

AllNames(d) == {d.name} \cup d.alias

(* _normalize_console_command *)
Normalized(r) ==
    IF r.id = None THEN r
    ELSE [r EXCEPT !.console = IF @ = None THEN r.id[1] ELSE @,
                   !.name = IF @ = None THEN r.id[2] ELSE @]

(* The definitions that match a command_id, and those that match a name. *)
WithId(ds, console, id) ==
    {d \in Range(ds) : id # None /\ id = <<console, d.name>>}
Named(ds, n) == {d \in Range(ds) : n \in AllNames(d)}

(* Mutant of Checked: the name is looked up first.                          *)
CheckedByName(r) ==
    IF ClassAt(r.console) = None THEN None
    ELSE LET ds == DefsOf(ClassAt(r.console))
             named == First(ds, Named(ds, r.name))
         IN  IF named # None THEN named
             ELSE First(ds, WithId(ds, r.console, r.id))

(* _resolve_command_def: by id, then by name, the first in the list. *)
Checked(r) ==
    IF ClassAt(r.console) = None THEN None
    ELSE LET ds == DefsOf(ClassAt(r.console))
             byId == First(ds, WithId(ds, r.console, r.id))
         IN  IF byId # None THEN byId
             ELSE First(ds, Named(ds, r.name))

(* ExecutionBinding: the id is completed from the name, the maps of          *)
(* BaseCommands keep the last definition of an id and of a name, and a       *)
(* class bound without commands has none.                                   *)
Executed(r) ==
    IF ClassAt(r.console) = None THEN None
    ELSE LET c == ClassAt(r.console)
             ds == IF defs[c] = <<>> THEN <<>> ELSE DefsOf(c)
             id == IF r.id = None THEN <<r.console, r.name>> ELSE r.id
             byId == Latest(ds, WithId(ds, r.console, id))
         IN  IF byId # None THEN byId
             ELSE Latest(ds, Named(ds, r.name))

(* _resolve_principal: the certificate's, or the one the caller states. *)
Principal(certified, stated) ==
    IF ~config.mtls /\ config.trust /\ stated # None THEN stated ELSE certified

(* Mutant of Allowed: an administrator may execute whatever there is.       *)
AllowedToAdmin(d, p) ==
    \/ p \in config.admins
    \/ /\ config.allowed = {} \/ p \in config.allowed
       /\ config.require => d.rpc

(* _is_rpc_allowed *)
Allowed(d, p) ==
    /\ p \in config.admins \/ config.allowed = {} \/ p \in config.allowed
    /\ config.require => d.rpc

(* Invoke: the run is submitted; a call that is aborted changes nothing.    *)
Invoke(r, certified, stated) ==
    LET n == Normalized(r)
        p == Principal(certified, stated)
    IN  /\ call.stage = "none" /\ up = "yes"
        /\ Checked(n) # None /\ Allowed(Checked(n), p)
        /\ call' = [stage |-> "submitted", request |-> n, principal |-> p,
                    checked |-> Checked(n), executed |-> None]
        /\ UNCHANGED <<config, root, subs, early, up, table, defs>>

(* A worker executes the command, or fails the run if there is none. *)
Execute ==
    /\ call.stage = "submitted"
    /\ call' = [call EXCEPT !.stage = "executed", !.executed = Executed(call.request)]
    /\ UNCHANGED <<config, root, subs, early, up, table, defs>>

Next ==
    \/ SetRoot \/ RegisterAll \/ Execute
    \/ \E c \in Classes \ {RootClass}, p \in Parents :
          AddSub(c, p) \/ \E n \in Instances : AddMulti(c, p, n)
    \/ \E c \in Classes, ds \in CommandLists : Bind(c, ds)
    \/ \E r \in Requests, certified, stated \in Principals \cup {None} :
          Invoke(r, certified, stated)

Spec == Init /\ [][Next]_vars

-----------------------------------------------------------------------------
(* A sub console got the root's name while @root was not there yet. *)
Clash == \E i \in 1..early : subs[i].name = ConsoleName[RootClass]

Distinct(ds) ==
    \A i, j \in DOMAIN ds : i # j => AllNames(ds[i]) \cap AllNames(ds[j]) = {}

(* Once register_all is through, the manager opens under a name the console *)
(* that a call of that name is resolved to, and every console's parent can   *)
(* be opened, in whatever order the decorators came; unless a sub console   *)
(* took the root's name before there was a root.                            *)
LookupAgrees ==
    up = "yes" /\ ~Clash =>
        /\ \A n \in DOMAIN table : table[n] = ClassAt(n)
        /\ \A i \in DOMAIN subs :
              i < Cardinality(DOMAIN table) => subs[i].parent \in DOMAIN table

(* A worker executes the very command whose exposure Invoke has checked, or *)
(* none, though the two look it up differently; unless two commands of the   *)
(* console share a name, or the console was bound to commands of its own     *)
(* after the call was checked against the default ones.                     *)
ExecutesWhatItChecked ==
    call.executed # None
    /\ Distinct(DefsOf(ClassAt(call.request.console))) =>
        \/ call.executed = call.checked
        \/ call.checked \in Range(DefaultCommands)

(* What a client gets executed is exposed, if the configuration asks for     *)
(* that, and the client is among those it admits, whatever was imported      *)
(* between the check and the execution.                                     *)
RunsOnlyAllowed ==
    call.executed # None
    /\ Distinct(DefsOf(ClassAt(call.request.console))) =>
        /\ config.require => call.executed.rpc
        /\ config.allowed # {} => call.principal \in config.allowed \cup config.admins
=============================================================================
