------------------------ MODULE CommandLookupProofs ------------------------
(***************************************************************************)
(* The two look-ups of an RPC call find the same command, and the manager   *)
(* opens the consoles they look in, for any consoles, command lists, calls  *)
(* and configurations, in whatever order the decorators come.               *)
(*                                                                         *)
(* The argument: the names of consoles stay distinct, and the first console *)
(* of a name stays the first, because decorators only append.  A console    *)
(* class is bound once, so its commands change after the check only if they *)
(* were the default ones then.                                              *)
(***************************************************************************)
EXTENDS CommandLookup, SequenceFacts, TLAPS

Names ==
    {ConsoleName[c] : c \in Classes}
    \cup {InstanceName(x[1], x[2]) : x \in Parents \X Instances}

Entries == [name : Names, cls : Classes, parent : Parents \cup {None}]

RegistryType ==
    /\ root \in BOOLEAN /\ subs \in Seq(Entries)
    /\ early \in 0 .. Len(subs)
    /\ defs \in [Classes -> CommandLists \cup {Unbound}]
    /\ up \in {"no", "yes", "failed"}
    /\ up # "no" => root

(* The names of sub consoles, and the root's, unless it was not there yet. *)
NamesDiffer ==
    /\ \A i, j \in 1 .. Len(subs) : subs[i].name = subs[j].name => i = j
    /\ root => \A i \in 1 .. Len(subs) : i > early => subs[i].name # ConsoleName[RootClass]

(* The manager has the root and the first k sub consoles, and what was      *)
(* registered under a name, with every parent.                              *)
Holds(t, cs, ss, k) ==
    /\ Cardinality(DOMAIN t) = k + 1
    /\ DOMAIN t = {cs[i].name : i \in 1 .. k + 1}
    /\ \A i \in 1 .. k + 1 : t[cs[i].name] = cs[i].cls
    /\ \A i \in 1 .. k : ss[i].parent \in DOMAIN t

TableInv ==
    up = "yes" /\ ~Clash => \E k \in 0 .. Len(subs) : Holds(table, Consoles, subs, k)

(* The class whose commands the call asks for, and whether it has its own. *)
Target == ClassAt(call.request.console)
OwnCommands(c) == defs[c] \notin {Unbound, <<>>}

(* What was checked is still what the check would find, or a default command. *)
CallInv ==
    /\ call = [stage |-> call.stage, request |-> call.request, principal |-> call.principal,
               checked |-> call.checked, executed |-> call.executed]
    /\ call.stage = "none" => call.executed = None
    /\ call.stage # "none" =>
          /\ up = "yes" /\ Target # None
          /\ call.checked # None /\ Allowed(call.checked, call.principal)
          /\ \/ call.checked \in Range(DefaultCommands)
             \/ OwnCommands(Target) /\ call.checked = Checked(call.request)
          /\ call.executed # None /\ Distinct(DefsOf(Target)) =>
                call.executed = call.checked \/ call.checked \in Range(DefaultCommands)

LookupInv == RegistryType /\ NamesDiffer /\ TableInv /\ CallInv

-----------------------------------------------------------------------------
(* The first and the last of a list *)

LEMMA FirstFacts ==
    ASSUME NEW R, NEW ds \in Seq(R), NEW T
    PROVE  \/ (\A i \in DOMAIN ds : ds[i] \notin T) /\ First(ds, T) = None
           \/ \E i \in DOMAIN ds :
                 /\ ds[i] \in T /\ First(ds, T) = ds[i]
                 /\ \A j \in DOMAIN ds : j < i => ds[j] \notin T
<1> DEFINE I == {i \in 1 .. Len(ds) : ds[i] \in T}
           f == SelectInSeq(ds, LAMBDA d : d \in T)
<1>1. f = IF I # {} THEN Min(I) ELSE 0
  BY DEF SelectInSeq
<1>2. First(ds, T) = IF f = 0 THEN None ELSE ds[f]
  BY DEF First
<1>3. DOMAIN ds = 1 .. Len(ds) /\ I \in SUBSET Nat
  OBVIOUS
<1>4. \A i \in DOMAIN ds : i \in I <=> ds[i] \in T
  BY <1>3
<1>5. \A i \in I : i \in DOMAIN ds /\ i # 0 /\ i \in Nat
  BY <1>3
<1> HIDE DEF I, f
<1>6. CASE I = {}
  BY <1>1, <1>2, <1>4, <1>6
<1>7. CASE I # {}
  <2>1. Min(I) \in I /\ \A y \in I : Min(I) <= y
    BY <1>3, <1>7, LeastExists
  <2>2. f = Min(I) /\ f # 0 /\ First(ds, T) = ds[f]
    BY <1>1, <1>2, <1>5, <1>7, <2>1
  <2>3. f \in DOMAIN ds /\ ds[f] \in T /\ f \in Nat
    BY <1>4, <1>5, <2>1, <2>2
  <2>4. \A j \in DOMAIN ds : j < f => ds[j] \notin T
    BY <1>3, <1>4, <2>1, <2>2, <2>3
  <2>5. QED
    BY <2>2, <2>3, <2>4
<1>8. QED
  BY <1>6, <1>7

LEMMA LatestFacts ==
    ASSUME NEW R, NEW ds \in Seq(R), NEW T
    PROVE  \/ (\A i \in DOMAIN ds : ds[i] \notin T) /\ Latest(ds, T) = None
           \/ \E i \in DOMAIN ds : ds[i] \in T /\ Latest(ds, T) = ds[i]
<1> DEFINE I == {i \in 1 .. Len(ds) : ds[i] \in T}
           f == SelectLastInSeq(ds, LAMBDA d : d \in T)
<1>1. f = IF I # {} THEN Max(I) ELSE 0
  BY DEF SelectLastInSeq
<1>2. Latest(ds, T) = IF f = 0 THEN None ELSE ds[f]
  BY DEF Latest
<1>3. DOMAIN ds = 1 .. Len(ds) /\ Len(ds) \in Nat /\ I \in SUBSET (0 .. Len(ds))
  OBVIOUS
<1>4. \A i \in DOMAIN ds : i \in I <=> ds[i] \in T
  BY <1>3
<1>5. \A i \in I : i \in DOMAIN ds /\ i # 0
  BY <1>3
<1> HIDE DEF I, f
<1>6. CASE I = {}
  BY <1>1, <1>2, <1>4, <1>6
<1>7. CASE I # {}
  <2>1. Max(I) \in I
    BY <1>3, <1>7, GreatestExists
  <2>2. f = Max(I) /\ f # 0 /\ Latest(ds, T) = ds[f]
    BY <1>1, <1>2, <1>5, <1>7, <2>1
  <2>3. QED
    BY <1>4, <1>5, <2>1, <2>2
<1>8. QED
  BY <1>6, <1>7

(* Where at most one member of a list matches, both find it. *)
LEMMA OnlyOne ==
    ASSUME NEW R, NEW ds \in Seq(R), NEW T,
           \A i, j \in DOMAIN ds : ds[i] \in T /\ ds[j] \in T => i = j
    PROVE  First(ds, T) = Latest(ds, T)
<1>1. \/ (\A i \in DOMAIN ds : ds[i] \notin T) /\ First(ds, T) = None
      \/ \E i \in DOMAIN ds : ds[i] \in T /\ First(ds, T) = ds[i]
  BY FirstFacts
<1>2. \/ (\A i \in DOMAIN ds : ds[i] \notin T) /\ Latest(ds, T) = None
      \/ \E i \in DOMAIN ds : ds[i] \in T /\ Latest(ds, T) = ds[i]
  BY LatestFacts
<1>3. QED
  BY <1>1, <1>2

-----------------------------------------------------------------------------
(* The same command twice *)

LEMMA ListTyped ==
    ASSUME NEW ds \in CommandLists \cup {DefaultCommands}
    PROVE  ds \in Seq(Range(ds)) /\ None \notin Range(ds)
BY LookupAssumption DEF LookupAssumption

(* In a list without ambiguous names, look-up by id and by name each have one *)
(* answer, and agree where the id is made of the name.                      *)
LEMMA SameCommand ==
    ASSUME RegistryType, NEW r, ClassAt(r.console) \in Classes,
           OwnCommands(ClassAt(r.console)), Distinct(DefsOf(ClassAt(r.console)))
    PROVE  Executed(r) = Checked(r)
<1> DEFINE c == ClassAt(r.console)
           ds == defs[c]
           id == IF r.id = None THEN <<r.console, r.name>> ELSE r.id
           W(i) == WithId(ds, r.console, i)
           N == Named(ds, r.name)
<1>1. /\ ds \in CommandLists /\ DefsOf(c) = ds /\ ds # <<>> /\ c # None
      /\ Distinct(ds)
  <2>1. defs[c] \in CommandLists \cup {Unbound} /\ defs[c] \notin {Unbound, <<>>}
    BY DEF RegistryType, OwnCommands
  <2>2. DefsOf(c) = ds
    BY <2>1 DEF DefsOf
  <2>3. None \notin Classes
    BY LookupAssumption DEF LookupAssumption, Classes
  <2>4. QED
    BY <2>1, <2>2, <2>3
<1>2. ds \in Seq(Range(ds)) /\ None \notin Range(ds)
  BY <1>1, ListTyped
<1>3. DOMAIN ds = 1 .. Len(ds) /\ \A i \in DOMAIN ds : ds[i] \in Range(ds) /\ ds[i] # None
  BY <1>2 DEF Range
<1>4. Checked(r) = IF First(ds, W(r.id)) # None THEN First(ds, W(r.id)) ELSE First(ds, N)
  BY <1>1 DEF Checked
<1>5. Executed(r) = IF Latest(ds, W(id)) # None THEN Latest(ds, W(id)) ELSE Latest(ds, N)
  BY <1>1 DEF Executed
<1>6. \A i, j \in DOMAIN ds :
         (\E n : n \in AllNames(ds[i]) /\ n \in AllNames(ds[j])) => i = j
  BY <1>1 DEF Distinct
<1>7. \A i \in DOMAIN ds : ds[i].name \in AllNames(ds[i])
  BY DEF AllNames
<1>8. \A i \in DOMAIN ds : ds[i] \in N <=> r.name \in AllNames(ds[i])
  BY <1>3 DEF Named
<1>9. \A x : \A i \in DOMAIN ds : ds[i] \in W(x) <=> x # None /\ x = <<r.console, ds[i].name>>
  BY <1>3 DEF WithId
<1>10. First(ds, N) = Latest(ds, N)
  <2>1. \A i, j \in DOMAIN ds : ds[i] \in N /\ ds[j] \in N => i = j
    BY <1>6, <1>8
  <2> HIDE DEF N, ds
  <2>2. QED
    BY <1>2, <2>1, OnlyOne
<1>11. \A x : First(ds, W(x)) = Latest(ds, W(x))
  <2> SUFFICES ASSUME NEW x PROVE First(ds, W(x)) = Latest(ds, W(x))
    OBVIOUS
  <2>1. \A i, j \in DOMAIN ds : ds[i] \in W(x) /\ ds[j] \in W(x) => ds[i].name = ds[j].name
    BY <1>9
  <2>2. \A i, j \in DOMAIN ds : ds[i] \in W(x) /\ ds[j] \in W(x) => i = j
    BY <1>6, <1>7, <2>1
  <2> HIDE DEF W, ds
  <2>3. QED
    BY <1>2, <2>2, OnlyOne
<1>12. CASE r.id # None
  BY <1>4, <1>5, <1>10, <1>11, <1>12
<1>13. CASE r.id = None
  <2>1. id = <<r.console, r.name>>
    BY <1>13
  <2>2. First(ds, W(r.id)) = None
    <3>1. \A i \in DOMAIN ds : ds[i] \notin W(r.id)
      BY <1>9, <1>13
    <3> HIDE DEF W, ds
    <3>2. QED
      BY <1>2, <3>1, FirstFacts
  <2>3. Checked(r) = First(ds, N)
    BY <1>4, <2>2
  <2>4. CASE Latest(ds, W(id)) = None
    BY <1>5, <1>10, <2>3, <2>4
  <2>5. CASE Latest(ds, W(id)) # None
    <3>1. PICK i \in DOMAIN ds : ds[i] \in W(id) /\ Latest(ds, W(id)) = ds[i]
      <4> HIDE DEF W, ds, id
      <4>1. QED
        BY <1>2, <2>5, LatestFacts
    <3>2. ds[i].name = r.name
      BY <1>9, <2>1, <3>1
    <3>3. ds[i] \in N
      BY <1>7, <1>8, <3>2
    <3>4. PICK j \in DOMAIN ds : ds[j] \in N /\ First(ds, N) = ds[j]
      <4> HIDE DEF N, ds
      <4>1. QED
        BY <1>2, <3>3, FirstFacts
    <3>5. i = j
      BY <1>6, <1>8, <3>3, <3>4
    <3>6. QED
      BY <1>5, <2>3, <2>5, <3>1, <3>4, <3>5
  <2>6. QED
    BY <2>4, <2>5
<1>14. QED
  BY <1>12, <1>13

(* What the check finds is in the list it looks in. *)
LEMMA CheckedInList ==
    ASSUME NEW r, NEW ds \in CommandLists \cup {DefaultCommands},
           Checked(r) # None, DefsOf(ClassAt(r.console)) = ds
    PROVE  Checked(r) \in Range(ds)
<1>1. ds \in Seq(Range(ds)) /\ None \notin Range(ds)
  BY ListTyped
<1>2. \A T : First(ds, T) # None => First(ds, T) \in Range(ds)
  BY <1>1, FirstFacts DEF Range
<1>3. \E T : Checked(r) = First(ds, T)
  BY DEF Checked
<1>4. QED
  BY <1>2, <1>3

-----------------------------------------------------------------------------
(* Consoles and their names *)

Root == Entry(ConsoleName[RootClass], RootClass, None)

LEMMA ConsoleFacts ==
    ASSUME RegistryType
    PROVE  /\ Consoles \in Seq(Entries) /\ subs \in Seq(Entries) /\ Len(subs) \in Nat
           /\ root => /\ Len(Consoles) = Len(subs) + 1 /\ Consoles[1] = Root
                      /\ \A i \in 1 .. Len(subs) : Consoles[i + 1] = subs[i]
           /\ ~root => Consoles = subs
<1>1. subs \in Seq(Entries) /\ Len(subs) \in Nat
  BY DEF RegistryType
<1>2. Root \in Entries
  <2>1. RootClass \in Classes
    BY LookupAssumption DEF LookupAssumption, Classes
  <2>2. QED
    BY <2>1 DEF Root, Entry, Entries, Names
<1>3. CASE root
  <2>1. Consoles = <<Root>> \o subs
    BY <1>3 DEF Consoles, Root
  <2> HIDE DEF Entries, Root
  <2>2. <<Root>> \in Seq(Entries) /\ Len(<<Root>>) = 1 /\ <<Root>>[1] = Root
    BY <1>2
  <2>3. QED
    BY <1>1, <1>3, <2>1, <2>2
<1>4. CASE ~root
  <2>1. Consoles = <<>> \o subs
    BY <1>4 DEF Consoles
  <2> HIDE DEF Entries
  <2>2. QED
    BY <1>1, <1>4, <2>1
<1>5. QED
  BY <1>3, <1>4, <1>1

(* The first of a name stays the first where consoles are appended. *)
Extends(t, s) == Len(s) <= Len(t) /\ \A i \in 1 .. Len(s) : t[i] = s[i]

Selects(S, s, n) == \A e : e \in S <=> e \in Range(s) /\ e.name = n

LEMMA FirstStays ==
    ASSUME NEW R, NEW s \in Seq(R), NEW t \in Seq(R), Extends(t, s),
           NEW n, NEW S, Selects(S, s, n), S # {}, NEW T, Selects(T, t, n)
    PROVE  T # {} /\ First(t, T) = First(s, S)
<1>1. /\ DOMAIN s = 1 .. Len(s) /\ DOMAIN t = 1 .. Len(t)
      /\ Len(s) \in Nat /\ Len(t) \in Nat
      /\ Len(s) <= Len(t) /\ \A i \in 1 .. Len(s) : t[i] = s[i]
  BY DEF Extends
<1>2. /\ \A i \in DOMAIN s : s[i] \in S <=> s[i].name = n
      /\ \A i \in DOMAIN t : t[i] \in T <=> t[i].name = n
      /\ \E i \in DOMAIN s : s[i] \in S
  BY DEF Range, Selects
<1>3. PICK i \in DOMAIN s : /\ s[i] \in S /\ First(s, S) = s[i]
                            /\ \A j \in DOMAIN s : j < i => s[j] \notin S
  BY <1>2, FirstFacts
<1>4. i \in DOMAIN t /\ t[i] = s[i] /\ t[i] \in T
  BY <1>1, <1>2, <1>3
<1>5. PICK k \in DOMAIN t : /\ t[k] \in T /\ First(t, T) = t[k]
                            /\ \A j \in DOMAIN t : j < k => t[j] \notin T
  BY <1>4, FirstFacts
<1>6. k <= i
  BY <1>1, <1>4, <1>5
<1>7. k \in DOMAIN s /\ t[k] = s[k] /\ s[k] \in S
  BY <1>1, <1>2, <1>5, <1>6
<1>8. k = i
  BY <1>1, <1>3, <1>6, <1>7
<1>9. QED
  BY <1>3, <1>4, <1>5, <1>8

LEMMA ClassTyped ==
    ASSUME RegistryType, NEW n
    PROVE  /\ ClassAt(n) \in Classes \cup {None}
           /\ ClassAt(n) = None <=> Called(n) = {}
<1>1. Consoles \in Seq(Entries)
  BY ConsoleFacts
<1>2. None \notin Classes
  BY LookupAssumption DEF LookupAssumption, Classes
<1>3. CASE Called(n) = {}
  BY <1>3 DEF ClassAt
<1>4. CASE Called(n) # {}
  <2>1. \E i \in DOMAIN Consoles : Consoles[i] \in Called(n)
    BY <1>4 DEF Called, Range
  <2>2. PICK i \in DOMAIN Consoles : First(Consoles, Called(n)) = Consoles[i]
    <3> HIDE DEF Entries
    <3>1. QED
      BY <1>1, <2>1, FirstFacts
  <2>3. Consoles[i] \in Entries
    BY <1>1
  <2>4. QED
    BY <1>2, <1>4, <2>2, <2>3 DEF ClassAt, Entries
<1>5. QED
  BY <1>3, <1>4

-----------------------------------------------------------------------------
(* Steps *)

LEMMA ConsFacts ==
    ASSUME NEW R, NEW s \in Seq(R), NEW x \in R
    PROVE  /\ <<x>> \o s \in Seq(R) /\ Len(<<x>> \o s) = Len(s) + 1
           /\ (<<x>> \o s)[1] = x
           /\ \A i \in 1 .. Len(s) : (<<x>> \o s)[i + 1] = s[i]
<1>1. <<x>> \in Seq(R) /\ Len(<<x>>) = 1 /\ <<x>>[1] = x
  OBVIOUS
<1>2. QED
  BY <1>1

(* What a decorator of a sub console does. *)
Adds(e) ==
    /\ e \in Entries /\ ~Taken(e.name)
    /\ subs' = Append(subs, e)
    /\ UNCHANGED <<config, root, early, up, table, defs, call>>

LEMMA AddSubAdds ==
    ASSUME NEW c \in Classes, NEW p \in Parents, AddSub(c, p)
    PROVE  \E e \in Entries : Adds(e)
<1>1. Entry(ConsoleName[c], c, p) \in Entries
  BY DEF Entry, Entries, Names
<1>2. Entry(ConsoleName[c], c, p).name = ConsoleName[c]
  BY DEF Entry
<1>3. QED
  BY <1>1, <1>2 DEF AddSub, Adds

LEMMA AddMultiAdds ==
    ASSUME NEW c \in Classes, NEW p \in Parents, NEW n \in Instances, AddMulti(c, p, n)
    PROVE  \E e \in Entries : Adds(e)
<1>1. InstanceName(p, n) \in Names
  <2>1. <<p, n>> \in Parents \X Instances /\ <<p, n>>[1] = p /\ <<p, n>>[2] = n
    OBVIOUS
  <2>2. QED
    BY <2>1 DEF Names
<1>2. Entry(InstanceName(p, n), c, p) \in Entries
  BY <1>1 DEF Entry, Entries
<1>3. Entry(InstanceName(p, n), c, p).name = InstanceName(p, n)
  BY DEF Entry
<1>4. QED
  BY <1>2, <1>3 DEF AddMulti, Adds

(* Consoles after a sub console is added. *)
LEMMA ConsolesGrow ==
    ASSUME RegistryType, NEW e \in Entries, Adds(e)
    PROVE  /\ subs' \in Seq(Entries) /\ Len(subs') = Len(subs) + 1
           /\ \A i \in 1 .. Len(subs) : subs'[i] = subs[i]
           /\ subs'[Len(subs) + 1] = e
           /\ Consoles' \in Seq(Entries) /\ Len(Consoles) <= Len(Consoles')
           /\ \A i \in 1 .. Len(Consoles) : Consoles'[i] = Consoles[i]
<1>1. /\ Consoles \in Seq(Entries) /\ subs \in Seq(Entries) /\ Len(subs) \in Nat
      /\ root => /\ Len(Consoles) = Len(subs) + 1 /\ Consoles[1] = Root
                 /\ \A i \in 1 .. Len(subs) : Consoles[i + 1] = subs[i]
      /\ ~root => Consoles = subs
  BY ConsoleFacts
<1>2. subs' = Append(subs, e) /\ root' = root
  BY DEF Adds
<1>3. Root \in Entries
  <2>1. RootClass \in Classes
    BY LookupAssumption DEF LookupAssumption, Classes
  <2>2. QED
    BY <2>1 DEF Root, Entry, Entries, Names
<1> HIDE DEF Entries, Root
<1>4. /\ subs' \in Seq(Entries) /\ Len(subs') = Len(subs) + 1
      /\ \A i \in 1 .. Len(subs) : subs'[i] = subs[i]
      /\ subs'[Len(subs) + 1] = e
  BY <1>1, <1>2
<1>5. CASE root
  <2>1. Consoles' = <<Root>> \o subs'
    BY <1>2, <1>5 DEF Consoles, Root
  <2>2. /\ Consoles' \in Seq(Entries) /\ Len(Consoles') = Len(subs') + 1
        /\ Consoles'[1] = Root
        /\ \A i \in 1 .. Len(subs') : Consoles'[i + 1] = subs'[i]
    BY <1>3, <1>4, <2>1, ConsFacts
  <2>3. ASSUME NEW i \in 1 .. Len(Consoles) PROVE Consoles'[i] = Consoles[i]
    <3>1. CASE i = 1
      BY <1>1, <1>5, <2>2, <3>1
    <3>2. CASE i # 1
      <4>1. i - 1 \in 1 .. Len(subs) /\ i - 1 \in 1 .. Len(subs') /\ i = (i - 1) + 1
        BY <1>1, <1>4, <1>5, <3>2
      <4>2. Consoles'[(i - 1) + 1] = subs'[i - 1] /\ Consoles[(i - 1) + 1] = subs[i - 1]
        BY <1>1, <1>5, <2>2, <4>1
      <4>3. QED
        BY <1>4, <4>1, <4>2
    <3>3. QED
      BY <3>1, <3>2
  <2>4. QED
    BY <1>1, <1>4, <1>5, <2>2, <2>3
<1>6. CASE ~root
  <2>1. Consoles' = <<>> \o subs'
    BY <1>2, <1>6 DEF Consoles
  <2>2. Consoles' = subs'
    BY <1>4, <2>1
  <2>3. QED
    BY <1>1, <1>4, <1>6, <2>2
<1>7. QED
  BY <1>5, <1>6

(* The call's class stays, or gets commands of its own after the default ones. *)
LEMMA CallKept ==
    ASSUME CallInv, call' = call, config' = config, up' = up,
           call.stage # "none" =>
               /\ Target' = Target
               /\ defs'[Target] = defs[Target] \/ defs[Target] = Unbound
    PROVE  CallInv'
<1>1. CASE call.stage = "none"
  BY <1>1 DEF CallInv
<1>2. CASE call.stage # "none"
  <2>1. /\ up = "yes" /\ Target # None /\ Target' = Target
        /\ call.checked # None /\ Allowed(call.checked, call.principal)
    BY <1>2 DEF CallInv
  <2>2. Allowed(call.checked, call.principal)'
    BY <2>1 DEF Allowed
  <2>3. CASE call.checked \in Range(DefaultCommands)
    BY <1>2, <2>1, <2>2, <2>3 DEF CallInv
  <2>4. CASE call.checked \notin Range(DefaultCommands)
    <3>1. OwnCommands(Target) /\ call.checked = Checked(call.request)
      BY <1>2, <2>4 DEF CallInv
    <3>2. defs'[Target] = defs[Target]
      BY <1>2, <3>1 DEF OwnCommands
    <3>3. OwnCommands(Target)' /\ DefsOf(Target)' = DefsOf(Target)
      BY <2>1, <3>1, <3>2 DEF OwnCommands, DefsOf
    <3>4. Checked(call.request)' = Checked(call.request)
      BY <2>1, <3>3 DEF Checked, Target
    <3>5. call.executed # None /\ Distinct(DefsOf(Target)) =>
             call.executed = call.checked \/ call.checked \in Range(DefaultCommands)
      BY <1>2 DEF CallInv
    <3>6. Distinct(DefsOf(Target))' <=> Distinct(DefsOf(Target))
      BY <3>3
    <3>7. QED
      BY <1>2, <2>1, <2>2, <3>1, <3>3, <3>4, <3>5, <3>6 DEF CallInv
  <2>5. QED
    BY <2>3, <2>4
<1>3. QED
  BY <1>1, <1>2

LEMMA TargetStays ==
    ASSUME RegistryType, NEW e \in Entries, Adds(e), Target # None
    PROVE  Target' = Target
<1> DEFINE n == call.request.console
           S == {x \in Range(Consoles) : x.name = n}
           T == {x \in Range(Consoles') : x.name = n}
<1>1. /\ Consoles \in Seq(Entries) /\ Consoles' \in Seq(Entries)
      /\ Len(Consoles) <= Len(Consoles')
      /\ \A i \in 1 .. Len(Consoles) : Consoles'[i] = Consoles[i]
  BY ConsoleFacts, ConsolesGrow
<1>2. call' = call
  BY DEF Adds
<1>3. Called(n) = S /\ Called(n)' = T
  BY <1>2 DEF Called
<1>4. S # {}
  BY <1>3 DEF Target, ClassAt
<1>5. T # {} /\ First(Consoles', T) = First(Consoles, S)
  <2>1. Selects(S, Consoles, n) /\ Selects(T, Consoles', n)
    BY DEF Selects
  <2>2. Extends(Consoles', Consoles)
    BY <1>1 DEF Extends
  <2> HIDE DEF Entries, n, S, T
  <2>3. QED
    BY <1>1, <1>4, <2>1, <2>2, FirstStays
<1>6. Target = First(Consoles, S).cls
  BY <1>3, <1>4 DEF Target, ClassAt
<1>7. Target' = First(Consoles', T).cls
  BY <1>2, <1>3, <1>5 DEF Target, ClassAt
<1>8. QED
  BY <1>5, <1>6, <1>7

LEMMA AddsKeeps ==
    ASSUME LookupInv, NEW e \in Entries, Adds(e)
    PROVE  LookupInv'
<1>0. RegistryType /\ NamesDiffer /\ TableInv /\ CallInv
  BY DEF LookupInv
<1>1. UNCHANGED <<config, root, early, up, table, defs, call>> /\ ~Taken(e.name)
  BY DEF Adds
<1>2. /\ subs \in Seq(Entries) /\ Len(subs) \in Nat
      /\ root => /\ Len(Consoles) = Len(subs) + 1 /\ Consoles[1] = Root
                 /\ \A i \in 1 .. Len(subs) : Consoles[i + 1] = subs[i]
  BY <1>0, ConsoleFacts
<1>3. /\ subs' \in Seq(Entries) /\ Len(subs') = Len(subs) + 1
      /\ \A i \in 1 .. Len(subs) : subs'[i] = subs[i]
      /\ subs'[Len(subs) + 1] = e
      /\ \A i \in 1 .. Len(Consoles) : Consoles'[i] = Consoles[i]
  BY <1>0, ConsolesGrow
<1>4. /\ early \in 0 .. Len(subs) /\ root \in BOOLEAN
      /\ DOMAIN subs = 1 .. Len(subs)
      /\ \A i \in 1 .. Len(subs) : subs[i].name # e.name
      /\ root => e.name # ConsoleName[RootClass]
  BY <1>0, <1>1, <1>2 DEF RegistryType, Taken
<1>5. RegistryType'
  BY <1>0, <1>1, <1>2, <1>3, <1>4 DEF RegistryType
<1>6. NamesDiffer'
  <2>1. \A i \in 1 .. Len(subs') : i \in 1 .. Len(subs) \/ i = Len(subs) + 1
    BY <1>2, <1>3
  <2>2. \A i, j \in 1 .. Len(subs') : subs'[i].name = subs'[j].name => i = j
    BY <1>0, <1>3, <1>4, <2>1 DEF NamesDiffer
  <2>3. root => \A i \in 1 .. Len(subs') : i > early => subs'[i].name # ConsoleName[RootClass]
    BY <1>0, <1>3, <1>4, <2>1 DEF NamesDiffer
  <2>4. QED
    BY <1>1, <2>2, <2>3 DEF NamesDiffer
<1>7. TableInv'
  <2> SUFFICES ASSUME up' = "yes", ~Clash'
               PROVE  \E k \in 0 .. Len(subs') : Holds(table', Consoles', subs', k)
    BY DEF TableInv
  <2>1. up = "yes" /\ root
    BY <1>0, <1>1 DEF RegistryType
  <2>2. ~Clash
    <3>1. \A i \in 1 .. early : i \in 1 .. Len(subs)
      BY <1>2, <1>4
    <3>2. QED
      BY <1>1, <1>3, <3>1 DEF Clash
  <2>3. PICK k \in 0 .. Len(subs) : Holds(table, Consoles, subs, k)
    BY <1>0, <2>1, <2>2 DEF TableInv
  <2>4. /\ k \in 0 .. Len(subs')
        /\ \A i \in 1 .. k + 1 : i \in 1 .. Len(Consoles)
        /\ \A i \in 1 .. k : i \in 1 .. Len(subs)
    BY <1>2, <1>3, <2>1, <2>3
  <2>5. \A i \in 1 .. k + 1 : Consoles'[i] = Consoles[i]
    BY <1>3, <2>4
  <2>6. {Consoles'[i].name : i \in 1 .. k + 1} = {Consoles[i].name : i \in 1 .. k + 1}
    BY <2>5
  <2>7. \A i \in 1 .. k : subs'[i] = subs[i]
    BY <1>3, <2>4
  <2>8. Holds(table, Consoles', subs', k)
    BY <2>3, <2>5, <2>6, <2>7 DEF Holds
  <2>9. QED
    BY <1>1, <2>4, <2>8
<1>8. CallInv'
  <2>1. call.stage # "none" => Target' = Target
    BY <1>0, TargetStays DEF CallInv
  <2>2. QED
    BY <1>0, <1>1, <2>1, CallKept
<1>9. QED
  BY <1>5, <1>6, <1>7, <1>8 DEF LookupInv

(* @root makes the root's the first of the consoles. *)
LEMMA SetRootKeeps ==
    ASSUME LookupInv, SetRoot
    PROVE  LookupInv'
<1>0. RegistryType /\ NamesDiffer /\ CallInv
  BY DEF LookupInv
<1>1. /\ ~root /\ root' = TRUE /\ early' = Len(subs)
      /\ UNCHANGED <<config, subs, up, table, defs, call>>
  BY DEF SetRoot
<1>2. up = "no" /\ subs \in Seq(Entries)
  BY <1>0, <1>1 DEF RegistryType
<1>3. Len(subs) \in 0 .. Len(subs)
  BY <1>2
<1>4. RegistryType'
  BY <1>0, <1>1, <1>3 DEF RegistryType
<1>5. NamesDiffer'
  <2>1. ~\E i \in 1 .. Len(subs) : i > Len(subs)
    BY <1>2
  <2>2. QED
    BY <1>0, <1>1, <2>1 DEF NamesDiffer
<1>6. TableInv'
  BY <1>1, <1>2 DEF TableInv
<1>7. CallInv'
  <2>1. call.stage = "none"
    BY <1>0, <1>2 DEF CallInv
  <2>2. QED
    BY <1>0, <1>1, <2>1, CallKept
<1>8. QED
  BY <1>4, <1>5, <1>6, <1>7 DEF LookupInv

(* Where no name was taken before the root's, the consoles' names differ. *)
LEMMA ConsolesDiffer ==
    ASSUME RegistryType, NamesDiffer, root, ~Clash
    PROVE  \A i, j \in 1 .. Len(Consoles) : Consoles[i].name = Consoles[j].name => i = j
<1>1. /\ Consoles \in Seq(Entries) /\ subs \in Seq(Entries) /\ Len(subs) \in Nat
      /\ Len(Consoles) = Len(subs) + 1 /\ Consoles[1] = Root
      /\ \A i \in 1 .. Len(subs) : Consoles[i + 1] = subs[i]
  BY ConsoleFacts
<1>2. Root.name = ConsoleName[RootClass]
  BY DEF Root, Entry
<1>3. \A i \in 1 .. Len(subs) : subs[i].name # Root.name
  <2> SUFFICES ASSUME NEW i \in 1 .. Len(subs), subs[i].name = Root.name PROVE FALSE
    OBVIOUS
  <2>1. ~(i > early) /\ early \in 0 .. Len(subs)
    BY <1>2 DEF NamesDiffer, RegistryType
  <2>2. i \in 1 .. early
    BY <1>1, <2>1
  <2>3. QED
    BY <1>2, <2>2 DEF Clash
<1>4. \A i \in 1 .. Len(Consoles) :
         i = 1 \/ (i - 1 \in 1 .. Len(subs) /\ Consoles[i] = subs[i - 1])
  <2> SUFFICES ASSUME NEW i \in 1 .. Len(Consoles), i # 1
               PROVE  i - 1 \in 1 .. Len(subs) /\ Consoles[i] = subs[i - 1]
    OBVIOUS
  <2>1. i - 1 \in 1 .. Len(subs) /\ i = (i - 1) + 1
    BY <1>1
  <2>2. Consoles[(i - 1) + 1] = subs[i - 1]
    BY <1>1, <2>1
  <2>3. QED
    BY <2>1, <2>2
<1>5. QED
  <2> SUFFICES ASSUME NEW i \in 1 .. Len(Consoles), NEW j \in 1 .. Len(Consoles),
                      Consoles[i].name = Consoles[j].name
               PROVE  i = j
    OBVIOUS
  <2>1. CASE i = 1
    BY <1>1, <1>3, <1>4, <2>1
  <2>2. CASE j = 1
    BY <1>1, <1>3, <1>4, <2>2
  <2>3. CASE i # 1 /\ j # 1
    <3>1. subs[i - 1].name = subs[j - 1].name
      BY <1>4, <2>3
    <3>2. i - 1 = j - 1
      BY <1>4, <2>3, <3>1 DEF NamesDiffer
    <3>3. QED
      BY <3>2
  <2>4. QED
    BY <2>1, <2>2, <2>3

(* As many names as consoles, and one console for each. *)
LEMMA TableOfAll ==
    ASSUME RegistryType, NamesDiffer, root, ~Clash,
           NEW i \in 1 .. Len(Consoles)
    PROVE  /\ Latest(Consoles, Called(Consoles[i].name)) = Consoles[i]
           /\ First(Consoles, Called(Consoles[i].name)) = Consoles[i]
           /\ Called(Consoles[i].name) # {}
<1> DEFINE T == Called(Consoles[i].name)
<1>1. Consoles \in Seq(Entries) /\ DOMAIN Consoles = 1 .. Len(Consoles)
  BY ConsoleFacts
<1>2. \A j \in DOMAIN Consoles : Consoles[j] \in T => j = i
  BY <1>1, ConsolesDiffer DEF Called
<1>3. Consoles[i] \in T /\ i \in DOMAIN Consoles
  BY <1>1 DEF Called, Range
<1> HIDE DEF T, Entries, Consoles
<1>4. \E j \in DOMAIN Consoles : Consoles[j] \in T /\ Latest(Consoles, T) = Consoles[j]
  BY <1>1, <1>3, LatestFacts
<1>5. \E j \in DOMAIN Consoles : Consoles[j] \in T /\ First(Consoles, T) = Consoles[j]
  BY <1>1, <1>3, FirstFacts
<1>6. QED
  BY <1>2, <1>3, <1>4, <1>5 DEF T

LEMMA RegisterAllKeeps ==
    ASSUME LookupInv, RegisterAll
    PROVE  LookupInv'
<1>0. RegistryType /\ NamesDiffer /\ CallInv
  BY DEF LookupInv
<1>1. /\ up = "no" /\ root
      /\ table' = [n \in {Consoles[i].name : i \in DOMAIN Consoles} |->
                      Latest(Consoles, Called(n)).cls]
      /\ up' \in {"yes", "failed"}
      /\ up' = "yes" => \A i \in DOMAIN subs : subs[i].parent \in DOMAIN table'
      /\ UNCHANGED <<config, root, subs, early, defs, call>>
  BY DEF RegisterAll
<1>2. RegistryType'
  BY <1>0, <1>1 DEF RegistryType
<1>3. NamesDiffer'
  BY <1>0, <1>1 DEF NamesDiffer
<1>4. CallInv'
  <2>1. call.stage = "none"
    BY <1>0, <1>1 DEF CallInv
  <2>2. QED
    BY <1>1, <2>1 DEF LookupInv, CallInv
<1>5. TableInv'
  <2> SUFFICES ASSUME up' = "yes", ~Clash
               PROVE  \E k \in 0 .. Len(subs) : Holds(table', Consoles, subs, k)
    <3>1. Clash' <=> Clash
      BY <1>1 DEF Clash
    <3>2. Consoles' = Consoles
      BY <1>1 DEF Consoles
    <3>3. QED
      BY <1>1, <3>1, <3>2 DEF TableInv
  <2> DEFINE t == [i \in 1 .. Len(Consoles) |-> Consoles[i].name]
             D == {Consoles[i].name : i \in DOMAIN Consoles}
  <2>1. /\ Consoles \in Seq(Entries) /\ subs \in Seq(Entries) /\ Len(subs) \in Nat
        /\ Len(Consoles) = Len(subs) + 1
        /\ DOMAIN Consoles = 1 .. Len(Consoles) /\ DOMAIN subs = 1 .. Len(subs)
    BY <1>0, <1>1, ConsoleFacts
  <2>2. DOMAIN table' = D
    BY <1>1
  <2>3. Cardinality(D) = Len(subs) + 1
    <3>1. t \in Seq(D) /\ Len(t) = Len(Consoles) /\ DOMAIN t = 1 .. Len(Consoles)
      BY <2>1
    <3>2. IsInjective(t)
      <4>1. \A i, j \in 1 .. Len(Consoles) : t[i] = t[j] => i = j
        BY <1>0, <1>1, ConsolesDiffer
      <4>2. QED
        BY <3>1, <4>1 DEF IsInjective
    <3>3. ToSet(t) = D
      <4>1. ToSet(t) = {t[i] : i \in 1 .. Len(Consoles)}
        BY <3>1 DEF ToSet
      <4>2. \A i \in 1 .. Len(Consoles) : t[i] = Consoles[i].name
        OBVIOUS
      <4>3. QED
        BY <2>1, <4>1, <4>2
    <3> HIDE DEF t, D
    <3>4. Cardinality(ToSet(t)) = Len(t)
      BY <3>1, <3>2, LengthIsSize
    <3>5. QED
      BY <2>1, <3>1, <3>3, <3>4
  <2>4. D = {Consoles[i].name : i \in 1 .. Len(subs) + 1}
    BY <2>1
  <2>5. ASSUME NEW i \in 1 .. Len(subs) + 1
        PROVE  table'[Consoles[i].name] = Consoles[i].cls
    <3>1. Latest(Consoles, Called(Consoles[i].name)) = Consoles[i]
      BY <1>0, <1>1, <2>1, TableOfAll
    <3>2. Consoles[i].name \in D
      BY <2>1
    <3>3. table'[Consoles[i].name] = Latest(Consoles, Called(Consoles[i].name)).cls
      BY <1>1, <3>2
    <3>4. QED
      BY <3>1, <3>3
  <2>6. \A i \in 1 .. Len(subs) : subs[i].parent \in DOMAIN table'
    BY <1>1, <2>1
  <2>7. Len(subs) \in 0 .. Len(subs)
    BY <2>1
  <2>8. Holds(table', Consoles, subs, Len(subs))
    BY <2>2, <2>3, <2>4, <2>5, <2>6 DEF Holds
  <2>9. QED
    BY <2>7, <2>8
<1>6. QED
  BY <1>2, <1>3, <1>4, <1>5 DEF LookupInv

(* The registry and the manager's table stay as they are. *)
LEMMA RegistryKept ==
    ASSUME NamesDiffer, TableInv, UNCHANGED <<root, subs, early, up, table>>
    PROVE  NamesDiffer' /\ TableInv' /\ Consoles' = Consoles
<1>1. NamesDiffer'
  BY DEF NamesDiffer
<1>2. Consoles' = Consoles
  BY DEF Consoles
<1>3. TableInv'
  <2>1. Clash' <=> Clash
    BY DEF Clash
  <2>2. QED
    BY <1>2, <2>1 DEF TableInv
<1>4. QED
  BY <1>1, <1>2, <1>3

LEMMA BindKeeps ==
    ASSUME LookupInv, NEW c \in Classes, NEW ds \in CommandLists, Bind(c, ds)
    PROVE  LookupInv'
<1>0. RegistryType /\ NamesDiffer /\ TableInv /\ CallInv
  BY DEF LookupInv
<1>1. /\ defs[c] = Unbound /\ defs' = [defs EXCEPT ![c] = ds]
      /\ UNCHANGED <<config, root, subs, early, up, table, call>>
  BY DEF Bind
<1>2. RegistryType'
  BY <1>0, <1>1 DEF RegistryType
<1>3. NamesDiffer' /\ TableInv' /\ Consoles' = Consoles
  BY <1>0, <1>1, RegistryKept
<1>4. NamesDiffer' /\ TableInv'
  BY <1>3
<1>5. Target' = Target
  BY <1>1, <1>3 DEF Target, ClassAt, Called
<1>6. \A x : defs'[x] = defs[x] \/ defs[x] = Unbound \/ x \notin Classes
  BY <1>0, <1>1 DEF RegistryType
<1>7. call.stage # "none" => Target \in Classes
  <2>1. Target \in Classes \cup {None}
    BY <1>0, ClassTyped DEF Target
  <2>2. QED
    BY <1>0, <2>1 DEF CallInv
<1>8. CallInv'
  BY <1>0, <1>1, <1>5, <1>6, <1>7, CallKept
<1>9. QED
  BY <1>2, <1>4, <1>8 DEF LookupInv

LEMMA InvokeKeeps ==
    ASSUME LookupInv, NEW r, NEW certified, NEW stated, Invoke(r, certified, stated)
    PROVE  LookupInv'
<1> DEFINE n == Normalized(r)
           p == Principal(certified, stated)
           k == ClassAt(n.console)
<1>0. RegistryType /\ NamesDiffer /\ TableInv /\ CallInv
  BY DEF LookupInv
<1>1. /\ up = "yes" /\ Checked(n) # None /\ Allowed(Checked(n), p)
      /\ call' = [stage |-> "submitted", request |-> n, principal |-> p,
                  checked |-> Checked(n), executed |-> None]
      /\ UNCHANGED <<config, root, subs, early, up, table, defs>>
  BY DEF Invoke
<1> HIDE DEF n, p
<1>2. RegistryType'
  BY <1>0, <1>1 DEF RegistryType
<1>3. NamesDiffer' /\ TableInv' /\ Consoles' = Consoles
  BY <1>0, <1>1, RegistryKept
<1>4. NamesDiffer' /\ TableInv'
  BY <1>3
<1>5. /\ call'.stage = "submitted" /\ call'.request = n /\ call'.principal = p
      /\ call'.checked = Checked(n) /\ call'.executed = None
      /\ call' = [stage |-> call'.stage, request |-> call'.request, principal |-> call'.principal,
                  checked |-> call'.checked, executed |-> call'.executed]
  BY <1>1
<1>6. k # None
  BY <1>1 DEF Checked
<1>7. k \in Classes
  BY <1>0, <1>6, ClassTyped
<1>8. Target' = k
  BY <1>1, <1>3, <1>5 DEF Target, ClassAt, Called
<1>9. Allowed(call'.checked, call'.principal)
  BY <1>1, <1>5
<1>10. \/ Checked(n) \in Range(DefaultCommands)
       \/ OwnCommands(k)
  <2>1. CASE defs[k] \in {Unbound, <<>>}
    <3>1. DefsOf(k) = DefaultCommands
      BY <2>1 DEF DefsOf
    <3> HIDE DEF k
    <3>2. Checked(n) \in Range(DefaultCommands)
      BY <1>1, <3>1, CheckedInList DEF k
    <3>3. QED
      BY <3>2
  <2>2. QED
    BY <2>1 DEF OwnCommands
<1>11. OwnCommands(Target)' <=> OwnCommands(k)
  BY <1>1, <1>8 DEF OwnCommands
<1>12. Checked(call.request)' = Checked(n)
  <2>1. ClassAt(call.request.console)' = k
    BY <1>8 DEF Target
  <2>2. DefsOf(k)' = DefsOf(k)
    BY <1>1, <1>3 DEF DefsOf, ClassAt, Called
  <2>3. QED
    BY <1>5, <2>1, <2>2 DEF Checked
<1>13. Allowed(call.checked, call.principal)'
  BY <1>1, <1>9 DEF Allowed
<1>14. CallInv'
  BY <1>1, <1>5, <1>6, <1>8, <1>10, <1>11, <1>12, <1>13 DEF CallInv
<1>15. QED
  BY <1>2, <1>4, <1>14 DEF LookupInv

LEMMA ExecuteKeeps ==
    ASSUME LookupInv, Execute
    PROVE  LookupInv'
<1>0. RegistryType /\ NamesDiffer /\ TableInv /\ CallInv
  BY DEF LookupInv
<1> DEFINE x == Executed(call.request)
<1>1. /\ call.stage = "submitted"
      /\ call' = [call EXCEPT !.stage = "executed", !.executed = x]
      /\ UNCHANGED <<config, root, subs, early, up, table, defs>>
  BY DEF Execute
<1>2. RegistryType'
  BY <1>0, <1>1 DEF RegistryType
<1>3. NamesDiffer' /\ TableInv' /\ Consoles' = Consoles
  BY <1>0, <1>1, RegistryKept
<1>4. NamesDiffer' /\ TableInv'
  BY <1>3
<1>5. Distinct(DefsOf(Target)) => x = call.checked \/ call.checked \in Range(DefaultCommands)
  <2>1. CASE call.checked \notin Range(DefaultCommands)
    <3>1. Target # None /\ OwnCommands(Target) /\ call.checked = Checked(call.request)
      BY <1>0, <1>1, <2>1 DEF CallInv
    <3>2. Target \in Classes
      BY <1>0, <3>1, ClassTyped DEF Target
    <3>3. QED
      BY <1>0, <3>1, <3>2, SameCommand DEF Target
  <2>2. QED
    BY <2>1
<1> HIDE DEF x
<1>6. call = [stage |-> call.stage, request |-> call.request, principal |-> call.principal,
              checked |-> call.checked, executed |-> call.executed]
  BY <1>0 DEF CallInv
<1>7. /\ call'.stage = "executed" /\ call'.request = call.request
      /\ call'.principal = call.principal
      /\ call'.checked = call.checked /\ call'.executed = x
      /\ call' = [stage |-> call'.stage, request |-> call'.request, principal |-> call'.principal,
                  checked |-> call'.checked, executed |-> call'.executed]
  BY <1>1, <1>6
<1>8. Target' = Target
  BY <1>1, <1>3, <1>7 DEF Target, ClassAt, Called
<1>9. DefsOf(Target)' = DefsOf(Target) /\ (OwnCommands(Target)' <=> OwnCommands(Target))
  BY <1>1, <1>8 DEF DefsOf, OwnCommands
<1>10. Checked(call.request)' = Checked(call.request)
  BY <1>7, <1>8, <1>9 DEF Checked, Target
<1>11. Allowed(call.checked, call.principal)' <=> Allowed(call.checked, call.principal)
  BY <1>1, <1>7 DEF Allowed
<1>12. Distinct(DefsOf(Target))' <=> Distinct(DefsOf(Target))
  BY <1>9
<1>13. CallInv'
  BY <1>0, <1>1, <1>5, <1>7, <1>8, <1>9, <1>10, <1>11, <1>12 DEF CallInv
<1>14. QED
  BY <1>2, <1>4, <1>13 DEF LookupInv

LEMMA LookupInit == Init => LookupInv
<1> SUFFICES ASSUME Init PROVE LookupInv
  OBVIOUS
<1>1. /\ root = FALSE /\ subs = <<>> /\ early = 0 /\ up = "no"
      /\ defs = [c \in Classes |-> Unbound] /\ call = NoCall
  BY DEF Init
<1>2. RegistryType
  <2>1. <<>> \in Seq(Entries) /\ 0 \in 0 .. Len(<<>>)
    OBVIOUS
  <2>2. QED
    BY <1>1, <2>1 DEF RegistryType
<1>3. NamesDiffer /\ TableInv
  BY <1>1 DEF NamesDiffer, TableInv
<1>4. CallInv
  BY <1>1 DEF CallInv, NoCall
<1>5. QED
  BY <1>2, <1>3, <1>4 DEF LookupInv

LEMMA LookupStep == LookupInv /\ [Next]_vars => LookupInv'
<1> SUFFICES ASSUME LookupInv, [Next]_vars PROVE LookupInv'
  OBVIOUS
<1>1. ASSUME NEW c \in Classes \ {RootClass}, NEW p \in Parents, AddSub(c, p)
      PROVE  LookupInv'
  BY <1>1, AddSubAdds, AddsKeeps
<1>2. ASSUME NEW c \in Classes \ {RootClass}, NEW p \in Parents, NEW n \in Instances,
             AddMulti(c, p, n)
      PROVE  LookupInv'
  BY <1>2, AddMultiAdds, AddsKeeps
<1>3. CASE SetRoot
  BY <1>3, SetRootKeeps
<1>4. CASE RegisterAll
  BY <1>4, RegisterAllKeeps
<1>5. ASSUME NEW c \in Classes, NEW ds \in CommandLists, Bind(c, ds)
      PROVE  LookupInv'
  BY <1>5, BindKeeps
<1>6. ASSUME NEW r, NEW certified, NEW stated, Invoke(r, certified, stated)
      PROVE  LookupInv'
  BY <1>6, InvokeKeeps
<1>7. CASE Execute
  BY <1>7, ExecuteKeeps
<1>8. CASE UNCHANGED vars
  <2>1. UNCHANGED <<config, root, subs, early, up, table, defs, call>>
    BY <1>8 DEF vars
  <2>2. NamesDiffer' /\ TableInv' /\ Consoles' = Consoles
    BY <2>1, RegistryKept DEF LookupInv
  <2>3. RegistryType'
    BY <2>1 DEF LookupInv, RegistryType
  <2>4. Target' = Target
    BY <2>1, <2>2 DEF Target, ClassAt, Called
  <2>5. CallInv'
    BY <2>1, <2>4, CallKept DEF LookupInv
  <2>6. QED
    BY <2>2, <2>3, <2>5 DEF LookupInv
<1>9. QED
  BY <1>1, <1>2, <1>3, <1>4, <1>5, <1>6, <1>7, <1>8 DEF Next

LEMMA LookupAlways == Spec => []LookupInv
<1>1. QED
  BY LookupInit, LookupStep, PTL DEF Spec

-----------------------------------------------------------------------------
(* What follows *)

LEMMA TableAgrees == LookupInv => LookupAgrees
<1> SUFFICES ASSUME LookupInv, up = "yes", ~Clash
             PROVE  /\ \A n \in DOMAIN table : table[n] = ClassAt(n)
                    /\ \A i \in DOMAIN subs :
                          i < Cardinality(DOMAIN table) => subs[i].parent \in DOMAIN table
  BY DEF LookupAgrees
<1>1. RegistryType /\ NamesDiffer /\ TableInv /\ root
  BY DEF LookupInv, RegistryType
<1>2. PICK k \in 0 .. Len(subs) : Holds(table, Consoles, subs, k)
  BY <1>1 DEF TableInv
<1>3. /\ Cardinality(DOMAIN table) = k + 1
      /\ DOMAIN table = {Consoles[i].name : i \in 1 .. k + 1}
      /\ \A i \in 1 .. k + 1 : table[Consoles[i].name] = Consoles[i].cls
      /\ \A i \in 1 .. k : subs[i].parent \in DOMAIN table
  BY <1>2 DEF Holds
<1>4. Len(subs) \in Nat /\ Len(Consoles) = Len(subs) + 1 /\ DOMAIN subs = 1 .. Len(subs)
  BY <1>1, ConsoleFacts
<1>5. ASSUME NEW n \in DOMAIN table PROVE table[n] = ClassAt(n)
  <2>1. PICK i \in 1 .. k + 1 : n = Consoles[i].name
    BY <1>3
  <2>2. i \in 1 .. Len(Consoles)
    BY <1>4
  <2>3. Called(n) # {} /\ First(Consoles, Called(n)) = Consoles[i]
    BY <1>1, <2>1, <2>2, TableOfAll
  <2>4. QED
    BY <1>3, <2>1, <2>3 DEF ClassAt
<1>6. \A i \in DOMAIN subs : i < k + 1 => i \in 1 .. k
  BY <1>4
<1>7. QED
  BY <1>3, <1>5, <1>6

(* Once register_all is through, the manager opens under a name the console *)
(* that a call of that name is resolved to, and every console registered     *)
(* has its parent, in whatever order the decorators came (LookupAgrees).     *)
THEOREM ManagerAgrees == Spec => []LookupAgrees
<1>1. QED
  BY TableAgrees, LookupAlways, PTL

(* A worker executes the command that Invoke has checked, or the check was   *)
(* of a default command, although one takes the first and the other the last *)
(* of the matching definitions, and modules may be imported in between.     *)
THEOREM ChecksWhatRuns == Spec => []ExecutesWhatItChecked
<1>1. LookupInv => ExecutesWhatItChecked
  BY DEF LookupInv, CallInv, ExecutesWhatItChecked, Target
<1>2. QED
  BY <1>1, LookupAlways, PTL

(* What a client gets executed is exposed and the client is admitted, as the *)
(* configuration asks, whatever is imported between check and execution: no *)
(* default command is exposed.                                              *)
THEOREM OnlyAllowedRuns == Spec => []RunsOnlyAllowed
<1>1. LookupInv => RunsOnlyAllowed
  <2> SUFFICES ASSUME LookupInv, call.executed # None, Distinct(DefsOf(Target))
               PROVE  /\ config.require => call.executed.rpc
                      /\ config.allowed # {} =>
                            call.principal \in config.allowed \cup config.admins
    BY DEF RunsOnlyAllowed, Target
  <2>1. /\ Allowed(call.checked, call.principal)
        /\ call.executed = call.checked \/ call.checked \in Range(DefaultCommands)
    BY DEF LookupInv, CallInv
  <2>2. /\ call.principal \in config.admins \/ config.allowed = {}
           \/ call.principal \in config.allowed
        /\ config.require => call.checked.rpc
    BY <2>1 DEF Allowed
  <2>3. call.checked \in Range(DefaultCommands) => ~call.checked.rpc
    BY LookupAssumption DEF LookupAssumption
  <2>4. QED
    BY <2>1, <2>2, <2>3
<1>2. QED
  BY <1>1, LookupAlways, PTL

=============================================================================
