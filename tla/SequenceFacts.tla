---------------------------- MODULE SequenceFacts ----------------------------
(* What the operators on sequences do to the set of their elements, and the  *)
(* least and the greatest number of a set.                                  *)
EXTENDS Integers, Sequences, SequencesExt, FiniteSetTheorems, WellFoundedInduction, TLAPS

(* append, extend and popleft of a queue *)

LEMMA EmptyElements == ToSet(<<>>) = {}
BY DEF ToSet

LEMMA AppendSet ==
    ASSUME NEW R, NEW s \in Seq(R), NEW x \in R
    PROVE  /\ Append(s, x) \in Seq(R)
           /\ ToSet(Append(s, x)) = ToSet(s) \cup {x}
<1> DEFINE t == Append(s, x)
<1>1. /\ t \in Seq(R) /\ Len(t) = Len(s) + 1 /\ Len(s) \in Nat
      /\ t[Len(s) + 1] = x
      /\ \A i \in 1 .. Len(s) : t[i] = s[i]
      /\ DOMAIN t = 1 .. Len(t) /\ DOMAIN s = 1 .. Len(s)
  OBVIOUS
<1>2. ToSet(s) \cup {x} \subseteq ToSet(t)
  BY <1>1 DEF ToSet
<1>3. ToSet(t) \subseteq ToSet(s) \cup {x}
  <2>1. \A i \in 1 .. Len(t) : i \in 1 .. Len(s) \/ i = Len(s) + 1
    BY <1>1
  <2>2. QED
    BY <1>1, <2>1 DEF ToSet
<1>4. QED
  BY <1>1, <1>2, <1>3

LEMMA ConcatSet ==
    ASSUME NEW R, NEW s \in Seq(R), NEW u \in Seq(R)
    PROVE  /\ s \o u \in Seq(R)
           /\ ToSet(s \o u) = ToSet(s) \cup ToSet(u)
<1> DEFINE t == s \o u
<1>1. /\ t \in Seq(R) /\ Len(t) = Len(s) + Len(u) /\ Len(s) \in Nat /\ Len(u) \in Nat
      /\ \A i \in 1 .. Len(s) : t[i] = s[i]
      /\ \A i \in 1 .. Len(u) : t[Len(s) + i] = u[i]
      /\ DOMAIN t = 1 .. Len(t) /\ DOMAIN s = 1 .. Len(s) /\ DOMAIN u = 1 .. Len(u)
  OBVIOUS
<1>2. ToSet(s) \subseteq ToSet(t)
  BY <1>1 DEF ToSet
<1>3. ToSet(u) \subseteq ToSet(t)
  <2>1. \A i \in 1 .. Len(u) : Len(s) + i \in 1 .. Len(t)
    BY <1>1
  <2>2. QED
    BY <1>1, <2>1 DEF ToSet
<1>4. ToSet(t) \subseteq ToSet(s) \cup ToSet(u)
  <2>1. \A i \in 1 .. Len(t) :
           \/ i \in 1 .. Len(s)
           \/ i - Len(s) \in 1 .. Len(u) /\ t[i] = u[i - Len(s)]
    BY <1>1
  <2>2. QED
    BY <1>1, <2>1 DEF ToSet
<1>5. QED
  BY <1>1, <1>2, <1>3, <1>4

LEMMA TailSet ==
    ASSUME NEW R, NEW s \in Seq(R), s # <<>>
    PROVE  /\ Tail(s) \in Seq(R) /\ Head(s) \in R
           /\ ToSet(s) = ToSet(Tail(s)) \cup {Head(s)}
<1> DEFINE t == Tail(s)
<1>1. /\ t \in Seq(R) /\ Head(s) = s[1] /\ s[1] \in R
      /\ Len(t) = Len(s) - 1 /\ Len(s) \in Nat \ {0}
      /\ \A i \in 1 .. Len(t) : t[i] = s[i + 1]
      /\ DOMAIN t = 1 .. Len(t) /\ DOMAIN s = 1 .. Len(s)
  OBVIOUS
<1>2. ToSet(t) \cup {Head(s)} \subseteq ToSet(s)
  <2>1. \A i \in 1 .. Len(t) : i + 1 \in 1 .. Len(s)
    BY <1>1
  <2>2. QED
    BY <1>1, <2>1 DEF ToSet
<1>3. ToSet(s) \subseteq ToSet(t) \cup {Head(s)}
  <2>1. \A i \in 1 .. Len(s) :
           i = 1 \/ (i - 1 \in 1 .. Len(t) /\ t[i - 1] = s[i])
    <3> SUFFICES ASSUME NEW i \in 1 .. Len(s), i # 1
                 PROVE  i - 1 \in 1 .. Len(t) /\ t[i - 1] = s[i]
      OBVIOUS
    <3>1. i - 1 \in 1 .. Len(t) /\ (i - 1) + 1 = i
      BY <1>1
    <3>2. t[i - 1] = s[(i - 1) + 1]
      BY <1>1, <3>1
    <3>3. QED
      BY <3>1, <3>2
  <2>2. QED
    <3> SUFFICES ASSUME NEW x \in ToSet(s) PROVE x \in ToSet(t) \cup {Head(s)}
      OBVIOUS
    <3>1. PICK i \in 1 .. Len(s) : x = s[i]
      BY <1>1 DEF ToSet
    <3>2. QED
      BY <1>1, <2>1, <3>1 DEF ToSet
<1>4. QED
  BY <1>1, <1>2, <1>3

(* What is appended to leaves its old contents as its beginning. *)
LEMMA ConcatPrefix ==
    ASSUME NEW R, NEW s \in Seq(R), NEW u \in Seq(R)
    PROVE  IsPrefix(s, s \o u)
<1> DEFINE t == s \o u
<1>1. /\ t \in Seq(R) /\ Len(t) = Len(s) + Len(u) /\ Len(s) \in Nat /\ Len(u) \in Nat
      /\ \A i \in 1 .. Len(s) : t[i] = s[i]
  OBVIOUS
<1>2. /\ SubSeq(s, 1, Len(s)) = SubSeq(t, 1, Len(s))
  <2>1. /\ SubSeq(s, 1, Len(s)) = [i \in 1 .. Len(s) |-> s[i]]
        /\ SubSeq(t, 1, Len(s)) = [i \in 1 .. Len(s) |-> t[i]]
    BY <1>1
  <2>2. QED
    BY <1>1, <2>1
<1>3. QED
  BY <1>1, <1>2 DEF IsPrefix

(* remove of a list whose elements are all different *)

LEMMA RemoveAtFacts ==
    ASSUME NEW R, NEW s \in Seq(R), NEW k \in 1 .. Len(s)
    PROVE  /\ RemoveAt(s, k) \in Seq(R)
           /\ Len(RemoveAt(s, k)) = Len(s) - 1
           /\ \A i \in 1 .. Len(s) - 1 :
                 RemoveAt(s, k)[i] = IF i < k THEN s[i] ELSE s[i + 1]
<1> DEFINE u == SubSeq(s, 1, k - 1)
           v == SubSeq(s, k + 1, Len(s))
<1>1. Len(s) \in Nat /\ k \in Nat /\ 1 <= k /\ k <= Len(s)
  OBVIOUS
<1>2. u \in Seq(R) /\ Len(u) = k - 1 /\ \A i \in 1 .. k - 1 : u[i] = s[i]
  BY <1>1
<1>3. /\ v \in Seq(R) /\ Len(v) = Len(s) - k
      /\ \A i \in 1 .. Len(s) - k : v[i] = s[k + i]
  <2>1. v \in Seq(R)
    BY <1>1
  <2>2. Len(v) = Len(s) - k
    BY <1>1
  <2>3. \A i \in 1 .. Len(s) - k : v[i] = s[k + i]
    <3> SUFFICES ASSUME NEW i \in 1 .. Len(s) - k
                 PROVE  v[i] = s[k + i]
      OBVIOUS
    <3>1. v[i] = s[(k + 1) + i - 1] /\ (k + 1) + i - 1 = k + i
      BY <1>1
    <3>2. QED
      BY <3>1
  <2>4. QED
    BY <2>1, <2>2, <2>3
<1> HIDE DEF u, v
<1>4. /\ u \o v \in Seq(R) /\ Len(u \o v) = Len(s) - 1
      /\ \A i \in 1 .. Len(s) - 1 : (u \o v)[i] = IF i <= k - 1 THEN u[i] ELSE v[i - (k - 1)]
  BY <1>1, <1>2, <1>3
<1>5. ASSUME NEW i \in 1 .. Len(s) - 1
      PROVE  (u \o v)[i] = IF i < k THEN s[i] ELSE s[i + 1]
  <2>1. CASE i < k
    BY <1>1, <1>2, <1>4, <2>1
  <2>2. CASE ~(i < k)
    <3>1. i - (k - 1) \in 1 .. Len(s) - k /\ k + (i - (k - 1)) = i + 1 /\ ~(i <= k - 1)
      BY <1>1, <2>2
    <3>2. v[i - (k - 1)] = s[k + (i - (k - 1))]
      BY <1>3, <3>1
    <3>3. QED
      BY <1>4, <2>2, <3>1, <3>2
  <2>3. QED
    BY <2>1, <2>2
<1>6. RemoveAt(s, k) = u \o v
  BY DEF RemoveAt, u, v
<1>7. QED
  BY <1>4, <1>5, <1>6

LEMMA RemoveFirstSet ==
    ASSUME NEW R, NEW s \in Seq(R), IsInjective(s), NEW e
    PROVE  /\ RemoveFirst(s, e) \in Seq(R)
           /\ IsInjective(RemoveFirst(s, e))
           /\ ToSet(RemoveFirst(s, e)) = ToSet(s) \ {e}
<1>0. DOMAIN s = 1 .. Len(s) /\ Len(s) \in Nat
  OBVIOUS
<1>1. CASE ~\E i \in 1 .. Len(s) : s[i] = e
  <2>1. RemoveFirst(s, e) = s
    BY <1>1 DEF RemoveFirst
  <2>2. e \notin ToSet(s)
    BY <1>0, <1>1 DEF ToSet
  <2>3. QED
    BY <2>1, <2>2
<1>2. ASSUME NEW k \in 1 .. Len(s), s[k] = e
      PROVE  /\ RemoveFirst(s, e) \in Seq(R)
             /\ IsInjective(RemoveFirst(s, e))
             /\ ToSet(RemoveFirst(s, e)) = ToSet(s) \ {e}
  <2> DEFINE t == RemoveAt(s, k)
  <2>1. {i \in 1 .. Len(s) : s[i] = e} = {k}
    BY <1>0, <1>2 DEF IsInjective
  <2>2. Min({k}) = k
    <3>1. \E x \in {k} : \A y \in {k} : x <= y
      BY <1>0
    <3>2. QED
      BY <3>1 DEF Min
  <2>3. SelectInSeq(s, LAMBDA v : v = e) = k
    BY <2>1, <2>2 DEF SelectInSeq
  <2>4. RemoveFirst(s, e) = t
    BY <1>2, <2>3 DEF RemoveFirst
  <2>5. /\ t \in Seq(R) /\ Len(t) = Len(s) - 1
        /\ \A i \in 1 .. Len(t) : t[i] = IF i < k THEN s[i] ELSE s[i + 1]
    BY RemoveAtFacts
  <2> HIDE DEF t
  <2>6. DOMAIN t = 1 .. Len(t) /\ k \in Nat
    BY <2>5
  <2>7. \A i \in 1 .. Len(t) : \E m \in 1 .. Len(s) \ {k} :
           m = (IF i < k THEN i ELSE i + 1) /\ t[i] = s[m]
    BY <1>0, <2>5, <2>6
  <2>8. IsInjective(t)
    <3> SUFFICES ASSUME NEW i \in 1 .. Len(t), NEW j \in 1 .. Len(t), t[i] = t[j]
                 PROVE  i = j
      BY <2>6 DEF IsInjective
    <3>1. PICK m \in 1 .. Len(s) : m = (IF i < k THEN i ELSE i + 1) /\ t[i] = s[m]
      BY <2>7
    <3>2. PICK n \in 1 .. Len(s) : n = (IF j < k THEN j ELSE j + 1) /\ t[j] = s[n]
      BY <2>7
    <3>3. m = n
      BY <1>0, <3>1, <3>2 DEF IsInjective
    <3>4. i \in Nat /\ j \in Nat
      BY <2>5
    <3>5. QED
      BY <2>6, <3>1, <3>2, <3>3, <3>4
  <2>9. ToSet(t) \subseteq ToSet(s) \ {e}
    <3> SUFFICES ASSUME NEW i \in 1 .. Len(t) PROVE t[i] \in ToSet(s) /\ t[i] # e
      BY <2>6 DEF ToSet
    <3>1. PICK m \in 1 .. Len(s) \ {k} : t[i] = s[m]
      BY <2>7
    <3>2. s[m] # s[k]
      BY <1>0, <3>1 DEF IsInjective
    <3>3. QED
      BY <1>0, <1>2, <3>1, <3>2 DEF ToSet
  <2>10. ASSUME NEW x \in ToSet(s), x # e PROVE x \in ToSet(t)
    <3>1. PICK m \in 1 .. Len(s) : x = s[m]
      BY <1>0 DEF ToSet
    <3>2. CASE m < k
      <4>1. m \in 1 .. Len(t)
        BY <1>0, <2>5, <2>6, <3>2
      <4>2. t[m] = x
        BY <2>5, <3>1, <3>2, <4>1
      <4>3. QED
        BY <2>6, <4>1, <4>2 DEF ToSet
    <3>3. CASE m > k
      <4>1. m - 1 \in 1 .. Len(t) /\ ~(m - 1 < k) /\ (m - 1) + 1 = m
        BY <1>0, <2>5, <2>6, <3>3
      <4>2. t[m - 1] = x
        BY <2>5, <3>1, <4>1
      <4>3. QED
        BY <2>6, <4>1, <4>2 DEF ToSet
    <3>4. m # k
      BY <1>2, <2>10, <3>1
    <3>5. QED
      BY <1>0, <2>6, <3>2, <3>3, <3>4
  <2>11. QED
    BY <2>4, <2>5, <2>8, <2>9, <2>10
<1>3. QED
  BY <1>1, <1>2

(* append to a list that does not have the element yet *)
LEMMA AppendDistinct ==
    ASSUME NEW R, NEW s \in Seq(R), IsInjective(s), NEW x \in R, x \notin ToSet(s)
    PROVE  IsInjective(Append(s, x))
<1> DEFINE t == Append(s, x)
<1>1. /\ Len(s) \in Nat /\ DOMAIN s = 1 .. Len(s) /\ DOMAIN t = 1 .. Len(s) + 1
      /\ t[Len(s) + 1] = x
      /\ \A i \in 1 .. Len(s) : t[i] = s[i]
  OBVIOUS
<1> HIDE DEF t
<1>2. \A i \in 1 .. Len(s) : t[i] # x
  BY <1>1 DEF ToSet
<1>3. \A i, j \in DOMAIN t : t[i] = t[j] => i = j
  <2> SUFFICES ASSUME NEW i \in DOMAIN t, NEW j \in DOMAIN t, t[i] = t[j]
               PROVE  i = j
    OBVIOUS
  <2>1. CASE i \in 1 .. Len(s) /\ j \in 1 .. Len(s)
    BY <1>1, <2>1 DEF IsInjective
  <2>2. CASE ~(i \in 1 .. Len(s) /\ j \in 1 .. Len(s))
    <3>1. i = Len(s) + 1 \/ j = Len(s) + 1
      BY <1>1, <2>2
    <3>2. QED
      BY <1>1, <1>2, <3>1
  <2>3. QED
    BY <2>1, <2>2
<1>4. IsInjective(t)
  BY <1>3 DEF IsInjective
<1>5. QED
  BY <1>4 DEF t

(* A list whose elements are all different is as long as it has elements. *)
LEMMA LengthIsSize ==
    ASSUME NEW R, NEW s \in Seq(R), IsInjective(s)
    PROVE  IsFiniteSet(ToSet(s)) /\ Cardinality(ToSet(s)) = Len(s)
<1>1. DOMAIN s = 1 .. Len(s) /\ Len(s) \in Nat
  OBVIOUS
<1>2. s \in Bijection(1 .. Len(s), ToSet(s))
  <2>1. s \in [1 .. Len(s) -> ToSet(s)]
    BY <1>1 DEF ToSet
  <2>2. \A i, j \in 1 .. Len(s) : s[i] = s[j] => i = j
    BY <1>1 DEF IsInjective
  <2>3. \A x \in ToSet(s) : \E i \in 1 .. Len(s) : s[i] = x
    BY <1>1 DEF ToSet
  <2>4. QED
    BY <2>1, <2>2, <2>3 DEF Bijection, Injection, Surjection
<1>3. IsFiniteSet(1 .. Len(s)) /\ Cardinality(1 .. Len(s)) = Len(s)
  BY <1>1, FS_Interval
<1>4. QED
  BY <1>2, <1>3, FS_Bijection DEF ExistsBijection

(* The head of a sequence without repetitions does not come again. *)
LEMMA TailDistinct ==
    ASSUME NEW R, NEW s \in Seq(R), s # <<>>, IsInjective(s)
    PROVE  IsInjective(Tail(s)) /\ Head(s) \notin ToSet(Tail(s))
<1> DEFINE t == Tail(s)
<1>1. /\ Head(s) = s[1] /\ Len(s) \in Nat \ {0}
      /\ \A i \in 1 .. Len(s) - 1 : t[i] = s[i + 1]
      /\ DOMAIN t = 1 .. Len(s) - 1 /\ DOMAIN s = 1 .. Len(s)
  OBVIOUS
<1> HIDE DEF t
<1>2. \A i, j \in 1 .. Len(s) : s[i] = s[j] => i = j
  BY <1>1 DEF IsInjective
<1>3. \A i, j \in 1 .. Len(s) - 1 : t[i] = t[j] => i = j
  <2> SUFFICES ASSUME NEW i \in 1 .. Len(s) - 1, NEW j \in 1 .. Len(s) - 1, t[i] = t[j]
               PROVE  i = j
    OBVIOUS
  <2>1. i + 1 \in 1 .. Len(s) /\ j + 1 \in 1 .. Len(s) /\ s[i + 1] = s[j + 1]
    BY <1>1
  <2>2. i + 1 = j + 1
    BY <1>2, <2>1
  <2>3. QED
    BY <2>2
<1>4. \A i \in 1 .. Len(s) - 1 : t[i] # s[1]
  <2> SUFFICES ASSUME NEW i \in 1 .. Len(s) - 1, t[i] = s[1] PROVE FALSE
    OBVIOUS
  <2>1. i + 1 \in 1 .. Len(s) /\ 1 \in 1 .. Len(s) /\ s[i + 1] = s[1] /\ i + 1 # 1
    BY <1>1
  <2>2. QED
    BY <1>2, <2>1
<1>5. IsInjective(t)
  BY <1>1, <1>3 DEF IsInjective
<1>6. s[1] \notin ToSet(t)
  BY <1>1, <1>4 DEF ToSet
<1>7. QED
  BY <1>1, <1>5, <1>6 DEF t

-----------------------------------------------------------------------------
(* What Min and Max of a set of numbers are, where the set has one. *)

LEMMA LeastExists ==
    ASSUME NEW S \in SUBSET Nat, S # {}
    PROVE  Min(S) \in S /\ \A y \in S : Min(S) <= y
<1> DEFINE L == {p \in Nat \X Nat : p[1] < p[2]}
<1>1. L = OpToRel(<, Nat)
  BY Zenon DEF OpToRel
<1>2. IsWellFoundedOn(L, Nat)
  BY <1>1, NatLessThanWellFounded
<1>3. PICK x \in S : \A y \in S : <<y, x>> \notin L
  <2> HIDE DEF L
  <2>1. QED
    BY <1>2, WFMin
<1>4. ASSUME NEW y \in S PROVE x <= y
  <2>1. x \in Nat /\ y \in Nat
    OBVIOUS
  <2>2. <<y, x>> \in L <=> y < x
    BY <2>1
  <2>3. ~(y < x)
    BY <1>3, <2>2
  <2>4. QED
    BY <2>1, <2>3
<1>5. QED
  BY <1>4 DEF Min

LEMMA GreatestExists ==
    ASSUME NEW n \in Nat, NEW S \in SUBSET (0 .. n), S # {}
    PROVE  Max(S) \in S /\ \A y \in S : Max(S) >= y
<1> DEFINE T == {n - i : i \in S}
<1>0. \A i \in S : i \in Nat /\ i <= n
  OBVIOUS
<1>1. T \in SUBSET Nat /\ T # {}
  <2>1. \A i \in S : n - i \in Nat
    BY <1>0
  <2>2. QED
    BY <2>1
<1>2. Min(T) \in T /\ \A y \in T : Min(T) <= y
  <2> HIDE DEF T
  <2>1. QED
    BY <1>1, LeastExists
<1>3. PICK x \in S : Min(T) = n - x
  BY <1>2
<1>4. ASSUME NEW y \in S PROVE x >= y
  <2>1. n - x <= n - y
    BY <1>2, <1>3
  <2>2. QED
    BY <1>0, <2>1
<1>5. QED
  BY <1>4 DEF Max

=============================================================================
