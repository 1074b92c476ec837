---------------------------- MODULE FoldLemmas ----------------------------
(***************************************************************************)
(* What the sums and the concatenations of the models return, for every    *)
(* finite set and every sequence.  The library's induction theorems take a *)
(* predicate as a parameter; here induction is over a SET of naturals or   *)
(* of subsets, which comes to the same and can be used by every prover.    *)
(***************************************************************************)
EXTENDS Integers, FiniteSets, FiniteSetsExt, SequencesExt,
        WellFoundedInduction, FiniteSetTheorems, SequenceTheorems, TLAPS

-----------------------------------------------------------------------------
(* Induction *)

LessThan == {ss \in Nat \X Nat : ss[1] < ss[2]}

(* A set of naturals that has 0 and, with every number, the next one, has  *)
(* them all.                                                               *)
LEMMA NatInductionOnSet ==
  ASSUME NEW T, 0 \in T, \A n \in Nat : n \in T => n + 1 \in T
  PROVE  Nat \subseteq T
<1> DEFINE B == Nat \ T
<1> SUFFICES ASSUME B # {} PROVE FALSE
  OBVIOUS
<1>1. IsWellFoundedOn(LessThan, Nat)
  <2>1. OpToRel(<, Nat) = LessThan
    BY Zenon DEF OpToRel, LessThan
  <2> QED BY <2>1, NatLessThanWellFounded, Zenon
<1>2. B \subseteq Nat
  OBVIOUS
<1> HIDE DEF B
<1>3. PICK n \in B : \A m \in B : <<m, n>> \notin LessThan
  BY <1>1, <1>2, WFMin
<1> USE DEF B
<1>4. \A m \in Nat : m < n => m \in T
  BY <1>3 DEF LessThan
<1>5. n \in Nat /\ n # 0
  OBVIOUS
<1>6. n - 1 \in T /\ n - 1 \in Nat /\ (n - 1) + 1 = n
  BY <1>4, <1>5
<1> QED BY <1>5, <1>6

(* A set of indices that has the first and with every one the next.        *)
LEMMA IndexInduction ==
  ASSUME NEW m \in Nat, NEW T, m > 0 => 1 \in T,
         \A i \in 1..m : i < m /\ i \in T => i + 1 \in T
  PROVE  \A i \in 1..m : i \in T
<1> DEFINE G == {n \in Nat : n \in 1..m => n \in T}
<1>1. 0 \in G
  OBVIOUS
<1>2. \A n \in Nat : n \in G => n + 1 \in G
  <2> SUFFICES ASSUME NEW n \in Nat, n \in G, n + 1 \in 1..m PROVE n + 1 \in T
    OBVIOUS
  <2>1. CASE n = 0
    BY <2>1
  <2>2. CASE n # 0
    BY <2>2
  <2> QED BY <2>1, <2>2
<1> HIDE DEF G
<1>3. Nat \subseteq G
  BY <1>1, <1>2, NatInductionOnSet
<1> QED BY <1>3 DEF G

(* A set of subsets of a finite set that has the empty one and, with every *)
(* subset, those with one more element, has the finite set.                *)
LEMMA SubsetInduction ==
  ASSUME NEW S, IsFiniteSet(S), NEW T, {} \in T,
         \A s \in SUBSET S, x \in S : s \in T /\ x \notin s => s \cup {x} \in T
  PROVE  S \in T
<1> DEFINE G == {n \in Nat : \A s \in SUBSET S : Cardinality(s) = n => s \in T}
<1>1. 0 \in G
  BY FS_EmptySet, FS_Subset
<1>2. \A n \in Nat : n \in G => n + 1 \in G
  <2> SUFFICES ASSUME NEW n \in Nat, n \in G, NEW s \in SUBSET S, Cardinality(s) = n + 1
               PROVE  s \in T
    OBVIOUS
  <2>1. IsFiniteSet(s)
    BY FS_Subset
  <2>2. PICK x \in s : TRUE
    <3>1. Cardinality({}) = 0 /\ n + 1 # 0
      BY FS_EmptySet
    <3>2. s # {}
      BY <3>1
    <3> QED BY <3>2
  <2>3. Cardinality(s \ {x}) = n
    <3>1. Cardinality(s \ {x}) = Cardinality(s) - 1
      BY <2>1, FS_RemoveElement
    <3> QED BY <3>1
  <2>4. s = (s \ {x}) \cup {x} /\ x \notin s \ {x} /\ s \ {x} \in SUBSET S /\ x \in S
    OBVIOUS
  <2>5. s \ {x} \in T
    BY <2>3
  <2> QED BY <2>4, <2>5, Zenon
<1> HIDE DEF G
<1>3. Nat \subseteq G
  BY <1>1, <1>2, NatInductionOnSet
<1>4. Cardinality(S) \in Nat
  BY FS_CardinalityType
<1> QED BY <1>3, <1>4 DEF G

-----------------------------------------------------------------------------
(* Sums *)

SumOver(f, S) == MapThenSumSet(LAMBDA x : f[x], S)

(* The table MapThenSumSet fills in: the sum over every subset. *)
Pick(s) == CHOOSE x \in s : TRUE
Rule(it, f, s) == IF s = {} THEN 0 ELSE f[Pick(s)] + it[s \ {Pick(s)}]
IsTable(it, f, S) == it = [s \in SUBSET S |-> Rule(it, f, s)]

LEMMA TableExists ==
  ASSUME NEW S, IsFiniteSet(S), NEW f
  PROVE  \E it : IsTable(it, f, S)
<1> DEFINE T == {n \in Nat : \E it : \A s \in SUBSET S :
                               Cardinality(s) <= n => it[s] = Rule(it, f, s)}
<1>1. 0 \in T
  <2> DEFINE it == [s \in SUBSET S |-> 0]
  <2>1. \A s \in SUBSET S : Cardinality(s) <= 0 => it[s] = Rule(it, f, s)
    BY FS_Subset, FS_EmptySet, FS_CardinalityType DEF Rule
  <2> HIDE DEF it
  <2> QED BY <2>1
<1>2. \A n \in Nat : n \in T => n + 1 \in T
  <2> SUFFICES ASSUME NEW n \in Nat, n \in T PROVE n + 1 \in T
    OBVIOUS
  <2>1. PICK it : \A s \in SUBSET S : Cardinality(s) <= n => it[s] = Rule(it, f, s)
    OBVIOUS
  <2> DEFINE jt == [s \in SUBSET S |-> Rule(it, f, s)]
  <2>2. ASSUME NEW s \in SUBSET S, Cardinality(s) <= n + 1
        PROVE  jt[s] = Rule(jt, f, s)
    <3>1. CASE s = {}
      BY <3>1 DEF Rule
    <3>2. CASE s # {}
      <4> DEFINE r == s \ {Pick(s)}
      <4>1. Pick(s) \in s
        BY <3>2 DEF Pick
      <4>2. r \in SUBSET S /\ Cardinality(r) <= n
        BY <2>2, <4>1, FS_Subset, FS_RemoveElement, FS_CardinalityType
      <4>3. jt[r] = it[r]
        BY <2>1, <4>2
      <4> HIDE DEF r, jt
      <4>4. jt[s] = f[Pick(s)] + it[r]
        BY <3>2 DEF Rule, r, jt
      <4> QED BY <3>2, <4>3, <4>4 DEF Rule, r
    <3> QED BY <3>1, <3>2
  <2> HIDE DEF jt
  <2> QED BY <2>2
<1> HIDE DEF T
<1>3. Cardinality(S) \in T
  BY <1>1, <1>2, NatInductionOnSet, FS_CardinalityType
<1>4. PICK it : \A s \in SUBSET S : it[s] = Rule(it, f, s)
  BY <1>3, FS_Subset DEF T
<1> DEFINE jt == [s \in SUBSET S |-> it[s]]
<1>5. \A s \in SUBSET S : Rule(it, f, s) = Rule(jt, f, s)
  <2> SUFFICES ASSUME NEW s \in SUBSET S, s # {} PROVE it[s \ {Pick(s)}] = jt[s \ {Pick(s)}]
    BY DEF Rule
  <2> QED OBVIOUS
<1>6. IsTable(jt, f, S)
  BY <1>4, <1>5, Zenon DEF IsTable
<1> QED BY <1>6

LEMMA SumIsInTable ==
  ASSUME NEW S, IsFiniteSet(S), NEW f
  PROVE  \E it : IsTable(it, f, S) /\ SumOver(f, S) = it[S]
<1> DEFINE it == CHOOSE it : IsTable(it, f, S)
<1>1. IsTable(it, f, S)
  BY TableExists
<1>2. SumOver(f, S) = it[S]
  BY Zenon DEF SumOver, MapThenSumSet, MapThenFoldSet, IsTable, Rule, Pick
<1> QED BY <1>1, <1>2, Zenon
(* The sum over a set does not depend on the order in which its elements   *)
(* are taken.                                                              *)
LEMMA TableRemove ==
  ASSUME NEW S, IsFiniteSet(S), NEW f, \A x \in S : f[x] \in Nat,
         NEW it, IsTable(it, f, S)
  PROVE  \A s \in SUBSET S :
           /\ it[s] \in Nat
           /\ \A x \in s : it[s] = f[x] + it[s \ {x}]
<1> DEFINE Good(s) == it[s] \in Nat /\ \A x \in s : it[s] = f[x] + it[s \ {x}]
           T == {n \in Nat : \A s \in SUBSET S : Cardinality(s) <= n => Good(s)}
<1>1. \A s \in SUBSET S : it[s] = Rule(it, f, s)
  BY DEF IsTable
<1>2. \A s \in SUBSET S : IsFiniteSet(s) /\ Cardinality(s) \in Nat
  BY FS_Subset, FS_CardinalityType
<1>3. Good({})
  <2>1. it[{}] = Rule(it, f, {})
    BY <1>1
  <2>2. it[{}] = 0
    BY <2>1 DEF Rule
  <2> QED BY <2>2
<1>4. 0 \in T
  <2> SUFFICES ASSUME NEW s \in SUBSET S, Cardinality(s) <= 0 PROVE Good(s)
    OBVIOUS
  <2>1. s = {}
    BY <1>2, FS_EmptySet
  <2> QED BY <1>3, <2>1
<1>5. \A n \in Nat : n \in T => n + 1 \in T
  <2> HIDE DEF Good
  <2> SUFFICES ASSUME NEW n \in Nat, n \in T, NEW s \in SUBSET S, Cardinality(s) <= n + 1
               PROVE  Good(s)
    OBVIOUS
  <2> USE DEF Good
  <2> SUFFICES ASSUME s # {} PROVE Good(s)
    BY <1>3
  <2> DEFINE y == Pick(s)
  <2>1. y \in s
    BY DEF Pick
  <2> HIDE DEF y
  <2>2. ASSUME NEW r \in SUBSET s, r # s PROVE Good(r) /\ r \in SUBSET S
    <3>1. Cardinality(r) <= n
      <4>1. Cardinality(r) <= Cardinality(s) /\ Cardinality(r) # Cardinality(s)
        BY <1>2, <2>2, FS_Subset
      <4>2. Cardinality(r) \in Nat /\ Cardinality(s) \in Nat
        BY <1>2
      <4> QED BY <4>1, <4>2
    <3> HIDE DEF Good
    <3> QED BY <3>1
  <2>3. it[s] = f[y] + it[s \ {y}]
    BY <1>1 DEF Rule, y
  <2>4. it[s] \in Nat
    BY <2>1, <2>2, <2>3
  <2>5. ASSUME NEW x \in s, x # y PROVE it[s] = f[x] + it[s \ {x}]
    <3> DEFINE a == s \ {x}   b == s \ {y}   c == s \ {x, y}
    <3>1. Good(a) /\ Good(b) /\ it[c] \in Nat
      <4>1. a # s /\ b # s /\ c # s
        BY <2>1
      <4> HIDE DEF Good
      <4>2. Good(a) /\ Good(b) /\ Good(c)
        BY <2>2, <4>1
      <4> QED BY <4>2 DEF Good
    <3>2. y \in a /\ x \in b /\ a \ {y} = c /\ b \ {x} = c
      BY <2>1, <2>5
    <3>3. f[x] \in Nat /\ f[y] \in Nat
      BY <2>1
    <3>4. it[s] = f[y] + it[b]
      BY <2>3
    <3> HIDE DEF a, b, c
    <3>5. it[a] = f[y] + it[c] /\ it[b] = f[x] + it[c]
      BY <3>1, <3>2
    <3>6. it[s] = f[x] + it[a]
      BY <3>1, <3>3, <3>4, <3>5
    <3> QED BY <3>6 DEF a
  <2> QED BY <2>3, <2>4, <2>5
<1> HIDE DEF T
<1>6. Nat \subseteq T
  BY <1>4, <1>5, NatInductionOnSet
<1> QED
  <2> TAKE s \in SUBSET S
  <2>1. Cardinality(s) \in Nat
    BY <1>2
  <2> QED BY <1>6, <2>1 DEF T

(* What is added under equal weights is the same. *)
LEMMA SameTable ==
  ASSUME NEW S, IsFiniteSet(S), NEW f, NEW it, IsTable(it, f, S),
         NEW R, IsFiniteSet(R), NEW g, NEW jt, IsTable(jt, g, R),
         NEW r \in SUBSET (S \cap R), \A x \in r : f[x] = g[x] /\ f[x] \in Nat
  PROVE  it[r] = jt[r]
<1> DEFINE T == {n \in Nat : \A s \in SUBSET r : Cardinality(s) <= n => it[s] = jt[s]}
<1>1. \A s \in SUBSET r : it[s] = Rule(it, f, s) /\ jt[s] = Rule(jt, g, s)
  BY DEF IsTable
<1>2. \A s \in SUBSET r : IsFiniteSet(s) /\ Cardinality(s) \in Nat
  BY FS_Subset, FS_CardinalityType
<1>3. it[{}] = jt[{}]
  BY <1>1 DEF Rule
<1>4. 0 \in T
  BY <1>2, <1>3, FS_EmptySet
<1>5. \A n \in Nat : n \in T => n + 1 \in T
  <2> SUFFICES ASSUME NEW n \in Nat, n \in T, NEW s \in SUBSET r, Cardinality(s) <= n + 1
               PROVE  it[s] = jt[s]
    OBVIOUS
  <2> SUFFICES ASSUME s # {} PROVE it[s] = jt[s]
    BY <1>3
  <2>1. Pick(s) \in s
    BY DEF Pick
  <2>2. s \ {Pick(s)} \in SUBSET r /\ Cardinality(s \ {Pick(s)}) <= n
    <3>1. Cardinality(s \ {Pick(s)}) = Cardinality(s) - 1
      BY <1>2, <2>1, FS_RemoveElement
    <3>2. Cardinality(s) \in Nat
      BY <1>2
    <3> QED BY <3>1, <3>2
  <2>3. it[s \ {Pick(s)}] = jt[s \ {Pick(s)}]
    BY <2>2
  <2>4. f[Pick(s)] = g[Pick(s)]
    BY <2>1
  <2> QED BY <1>1, <2>3, <2>4 DEF Rule
<1> HIDE DEF T
<1>6. Cardinality(r) \in T
  BY <1>2, <1>4, <1>5, NatInductionOnSet
<1> QED BY <1>2, <1>6 DEF T

-----------------------------------------------------------------------------
(* The facts about sums that the proofs of the models cite. *)

LEMMA SumEmpty == \A f : SumOver(f, {}) = 0
<1> TAKE f
<1>1. PICK it : IsTable(it, f, {}) /\ SumOver(f, {}) = it[{}]
  BY FS_EmptySet, SumIsInTable
<1> QED BY <1>1 DEF IsTable, Rule

LEMMA SumSame ==
  ASSUME NEW S, IsFiniteSet(S), NEW f, NEW g, \A x \in S : f[x] = g[x] /\ f[x] \in Nat
  PROVE  SumOver(f, S) = SumOver(g, S)
<1>1. PICK it : IsTable(it, f, S) /\ SumOver(f, S) = it[S]
  BY SumIsInTable
<1>2. PICK jt : IsTable(jt, g, S) /\ SumOver(g, S) = jt[S]
  BY SumIsInTable
<1> QED BY <1>1, <1>2, SameTable

LEMMA SumRemove ==
  ASSUME NEW S, IsFiniteSet(S), NEW f, \A x \in S : f[x] \in Nat, NEW x \in S
  PROVE  SumOver(f, S) = f[x] + SumOver(f, S \ {x})
<1>1. PICK it : IsTable(it, f, S) /\ SumOver(f, S) = it[S]
  BY SumIsInTable
<1>2. IsFiniteSet(S \ {x})
  BY FS_RemoveElement
<1>3. PICK jt : IsTable(jt, f, S \ {x}) /\ SumOver(f, S \ {x}) = jt[S \ {x}]
  BY <1>2, SumIsInTable
<1>4. it[S \ {x}] = jt[S \ {x}]
  BY <1>1, <1>2, <1>3, SameTable
<1>5. it[S] = f[x] + it[S \ {x}]
  BY <1>1, TableRemove
<1> QED BY <1>1, <1>3, <1>4, <1>5

LEMMA SumAdd ==
  ASSUME NEW S, IsFiniteSet(S), NEW x, x \notin S, NEW f, \A y \in S \cup {x} : f[y] \in Nat
  PROVE  SumOver(f, S \cup {x}) = f[x] + SumOver(f, S)
<1>1. IsFiniteSet(S \cup {x}) /\ (S \cup {x}) \ {x} = S
  BY FS_AddElement
<1> QED BY <1>1, SumRemove

LEMMA SumIsNat ==
  ASSUME NEW S, IsFiniteSet(S), NEW f, \A x \in S : f[x] \in Nat
  PROVE  SumOver(f, S) \in Nat
<1>1. PICK it : IsTable(it, f, S) /\ SumOver(f, S) = it[S]
  BY SumIsInTable
<1> QED BY <1>1, TableRemove

(* A sum of numbers up to m is at most m for every element. *)
LEMMA SumIsBounded ==
  ASSUME NEW S, IsFiniteSet(S), NEW f, NEW m \in Nat, \A x \in S : f[x] \in 0..m
  PROVE  SumOver(f, S) <= Cardinality(S) * m
<1> DEFINE T == {s \in SUBSET S : SumOver(f, s) <= Cardinality(s) * m}
<1>1. {} \in T
  BY SumEmpty, FS_EmptySet
<1>2. ASSUME NEW s \in SUBSET S, NEW x \in S, s \in T, x \notin s PROVE s \cup {x} \in T
  <2>1. IsFiniteSet(s)
    BY FS_Subset
  <2>2. Cardinality(s) \in Nat /\ Cardinality(s \cup {x}) = Cardinality(s) + 1
    BY <1>2, <2>1, FS_AddElement, FS_CardinalityType
  <2>3. SumOver(f, s \cup {x}) = f[x] + SumOver(f, s)
    <3>1. \A y \in s \cup {x} : f[y] \in Nat
      OBVIOUS
    <3> QED BY <1>2, <2>1, <3>1, SumAdd
  <2>4. SumOver(f, s) \in Nat
    BY <2>1, SumIsNat
  <2>5. (Cardinality(s) + 1) * m = Cardinality(s) * m + m
    BY <2>2
  <2>6. Cardinality(s) * m \in Nat
    BY <2>2
  <2> QED BY <1>2, <2>2, <2>3, <2>4, <2>5, <2>6
<1> HIDE DEF T
<1>3. S \in T
  BY <1>1, <1>2, SubsetInduction
<1> QED BY <1>3 DEF T

-----------------------------------------------------------------------------
(* Concatenations *)

(* The table FlattenSeq fills in: the concatenation of every prefix. *)
FlatAt(it, ss, i) == IF i = 1 THEN ss[i] ELSE it[i - 1] \o ss[i]
IsFlat(it, ss) == it = [i \in 1..Len(ss) |-> FlatAt(it, ss, i)]

LEMMA FlatExists ==
  ASSUME NEW ss, Len(ss) \in Nat
  PROVE  \E it : IsFlat(it, ss)
<1> DEFINE T == {n \in Nat : \E it : \A i \in 1..Len(ss) : i <= n => it[i] = FlatAt(it, ss, i)}
<1>1. 0 \in T
  OBVIOUS
<1>2. \A n \in Nat : n \in T => n + 1 \in T
  <2> SUFFICES ASSUME NEW n \in Nat, n \in T PROVE n + 1 \in T
    OBVIOUS
  <2>1. PICK it : \A i \in 1..Len(ss) : i <= n => it[i] = FlatAt(it, ss, i)
    OBVIOUS
  <2> DEFINE jt == [i \in 1..Len(ss) |-> FlatAt(it, ss, i)]
  <2>2. ASSUME NEW i \in 1..Len(ss), i <= n + 1 PROVE jt[i] = FlatAt(jt, ss, i)
    <3>1. i # 1 => i - 1 \in 1..Len(ss) /\ i - 1 <= n
      BY <2>2
    <3>2. i # 1 => jt[i - 1] = it[i - 1]
      BY <2>1, <3>1
    <3>3. jt[i] = FlatAt(it, ss, i)
      OBVIOUS
    <3> HIDE DEF jt
    <3> QED BY <3>2, <3>3 DEF FlatAt
  <2> HIDE DEF jt
  <2> QED BY <2>2
<1> HIDE DEF T
<1>3. Len(ss) \in T
  BY <1>1, <1>2, NatInductionOnSet
<1>4. PICK it : \A i \in 1..Len(ss) : it[i] = FlatAt(it, ss, i)
  BY <1>3 DEF T
<1> DEFINE jt == [i \in 1..Len(ss) |-> it[i]]
<1>5. \A i \in 1..Len(ss) : FlatAt(it, ss, i) = FlatAt(jt, ss, i)
  BY DEF FlatAt
<1>6. IsFlat(jt, ss)
  BY <1>4, <1>5, Zenon DEF IsFlat
<1> QED BY <1>6

LEMMA FlattenIsInTable ==
  ASSUME NEW ss, Len(ss) \in Nat \ {0}
  PROVE  \E it : IsFlat(it, ss) /\ FlattenSeq(ss) = it[Len(ss)]
<1> DEFINE it == CHOOSE it : IsFlat(it, ss)
<1>1. IsFlat(it, ss)
  BY FlatExists
<1>2. Len(ss) # 0
  OBVIOUS
<1>3. FlattenSeq(ss) = it[Len(ss)]
  BY <1>2, Zenon DEF FlattenSeq, IsFlat, FlatAt
<1> QED BY <1>1, <1>3, Zenon

LEMMA FlatRule ==
  ASSUME NEW ss, NEW it, IsFlat(it, ss), NEW i \in 1..Len(ss)
  PROVE  it[i] = FlatAt(it, ss, i)
BY Zenon DEF IsFlat

(* The tables of a sequence and of one that is longer by one agree. *)
IsLonger(tt, ss) ==
  /\ Len(ss) \in Nat \ {0} /\ Len(tt) = Len(ss) + 1
  /\ \A i \in 1..Len(ss) : ss[i] = tt[i]

LEMMA SameFlat ==
  ASSUME NEW ss, NEW it, IsFlat(it, ss), NEW tt, NEW jt, IsFlat(jt, tt), IsLonger(tt, ss)
  PROVE  it[Len(ss)] = jt[Len(ss)]
<1> DEFINE T == {i \in 1..Len(ss) : it[i] = jt[i]}
<1>1. Len(ss) \in Nat \ {0} /\ Len(tt) = Len(ss) + 1
  BY DEF IsLonger
<1>2. ASSUME NEW i \in 1..Len(ss)
      PROVE  it[i] = FlatAt(it, ss, i) /\ jt[i] = FlatAt(jt, tt, i) /\ ss[i] = tt[i]
  <2>1. i \in 1..Len(tt)
    BY <1>1
  <2> QED BY <2>1, FlatRule DEF IsLonger
<1>3. 1 \in T
  <2>1. 1 \in 1..Len(ss)
    BY <1>1
  <2>2. it[1] = FlatAt(it, ss, 1) /\ jt[1] = FlatAt(jt, tt, 1) /\ ss[1] = tt[1]
    BY <1>2, <2>1
  <2>3. it[1] = jt[1]
    BY <2>2 DEF FlatAt
  <2> QED BY <2>1, <2>3
<1>4. ASSUME NEW i \in 1..Len(ss), i < Len(ss), i \in T PROVE i + 1 \in T
  <2>1. i + 1 \in 1..Len(ss) /\ i + 1 # 1 /\ (i + 1) - 1 = i
    BY <1>1, <1>4
  <2>2. it[i] = jt[i]
    BY <1>4
  <2> QED BY <1>2, <2>1, <2>2 DEF FlatAt
<1> HIDE DEF T
<1>5. \A i \in 1..Len(ss) : i \in T
  BY <1>1, <1>3, <1>4, IndexInduction
<1> QED BY <1>1, <1>5 DEF T

LEMMA FlattenEmpty == FlattenSeq(<< >>) = << >>
BY DEF FlattenSeq

LEMMA FlattenIsSeq ==
  ASSUME NEW S, NEW ss \in Seq(Seq(S))
  PROVE  FlattenSeq(ss) \in Seq(S)
<1>1. CASE ss = << >>
  <2>1. << >> \in Seq(S)
    BY EmptySeq
  <2> QED BY <1>1, <2>1, FlattenEmpty
<1>2. CASE ss # << >>
  <2>1. Len(ss) \in Nat \ {0}
    BY <1>2, EmptySeq
  <2>2. PICK it : IsFlat(it, ss) /\ FlattenSeq(ss) = it[Len(ss)]
    BY <2>1, FlattenIsInTable
  <2> DEFINE T == {i \in 1..Len(ss) : it[i] \in Seq(S)}
  <2>3. \A i \in 1..Len(ss) : it[i] = FlatAt(it, ss, i)
    BY <2>2, FlatRule
  <2>4. \A i \in 1..Len(ss) : ss[i] \in Seq(S)
    BY ElementOfSeq
  <2>5. 1 \in T
    BY <2>1, <2>3, <2>4 DEF FlatAt
  <2>6. ASSUME NEW i \in 1..Len(ss), i < Len(ss), i \in T PROVE i + 1 \in T
    <3>1. i + 1 \in 1..Len(ss) /\ i + 1 # 1 /\ (i + 1) - 1 = i
      BY <2>1, <2>6
    <3>2. it[i + 1] = it[i] \o ss[i + 1]
      BY <2>3, <3>1 DEF FlatAt
    <3>3. it[i] \in Seq(S) /\ ss[i + 1] \in Seq(S)
      BY <2>4, <2>6, <3>1
    <3>4. it[i + 1] \in Seq(S)
      BY <3>2, <3>3, ConcatProperties
    <3> QED BY <3>1, <3>4
  <2> HIDE DEF T
  <2>7. \A i \in 1..Len(ss) : i \in T
    BY <2>1, <2>5, <2>6, IndexInduction
  <2> QED BY <2>1, <2>2, <2>7 DEF T
<1> QED BY <1>1, <1>2

LEMMA FlattenAppend ==
  ASSUME NEW S, NEW ss \in Seq(Seq(S)), NEW s \in Seq(S)
  PROVE  FlattenSeq(Append(ss, s)) = FlattenSeq(ss) \o s
<1> DEFINE tt == Append(ss, s)   n == Len(ss)
<1>1. /\ n \in Nat /\ Len(tt) = n + 1 /\ tt[n + 1] = s
      /\ \A i \in 1..n : tt[i] = ss[i]
  BY AppendProperties, LenProperties
<1> HIDE DEF tt, n
<1>2. PICK jt : IsFlat(jt, tt) /\ FlattenSeq(tt) = jt[n + 1]
  BY <1>1, FlattenIsInTable
<1>3. jt[n + 1] = IF n = 0 THEN s ELSE jt[n] \o s
  <2>1. jt[n + 1] = FlatAt(jt, tt, n + 1)
    BY <1>1, <1>2, FlatRule
  <2> QED BY <1>1, <2>1 DEF FlatAt
<1>4. CASE n = 0
  <2>1. ss = << >>
    BY <1>4, EmptySeq DEF n
  <2> QED BY <1>2, <1>3, <1>4, <2>1, FlattenEmpty, ConcatEmptySeq DEF tt
<1>5. CASE n # 0
  <2>1. PICK it : IsFlat(it, ss) /\ FlattenSeq(ss) = it[n]
    BY <1>1, <1>5, FlattenIsInTable DEF n
  <2>2. IsLonger(tt, ss)
    BY <1>1, <1>5 DEF n, IsLonger
  <2>3. it[n] = jt[n]
    BY <1>2, <2>1, <2>2, SameFlat DEF n
  <2> QED BY <1>2, <1>3, <1>5, <2>1, <2>3 DEF tt
<1> QED BY <1>4, <1>5

(* Joining three sequences takes no account of which two come first. *)
Regroups(S) ==
  \A front, middle, back \in Seq(S) :
    (front \o middle) \o back = front \o (middle \o back)

LEMMA JoinsRegroup == \A S : Regroups(S)
BY ConcatAssociative DEF Regroups

(* The same of five, the last four of which were joined first.             *)
AllRegroup(l1, l2, l3, l4, l5) ==
  l1 \o (((l2 \o l3) \o l4) \o l5) = (((l1 \o l2) \o l3) \o l4) \o l5

LEMMA JoinsOfFive ==
  ASSUME NEW S, NEW l1 \in Seq(S), NEW l2 \in Seq(S), NEW l3 \in Seq(S),
         NEW l4 \in Seq(S), NEW l5 \in Seq(S)
  PROVE  AllRegroup(l1, l2, l3, l4, l5)
<1>1. Regroups(S)
  BY JoinsRegroup
<1>2. PICK two \in Seq(S) : two = l2 \o l3
  BY ConcatProperties
<1>3. PICK three \in Seq(S) : three = two \o l4
  BY ConcatProperties
<1>4. \A middle, back \in Seq(S) : (l1 \o middle) \o back = l1 \o (middle \o back)
  BY <1>1, Zenon DEF Regroups
<1>5. \A back \in Seq(S) : (l1 \o three) \o back = l1 \o (three \o back)
  BY <1>4, Zenon
<1>6. \A back \in Seq(S) : (l1 \o two) \o back = l1 \o (two \o back)
  BY <1>4, Zenon
<1>7. \A back \in Seq(S) : (l1 \o l2) \o back = l1 \o (l2 \o back)
  BY <1>4, Zenon
<1>8. l1 \o (three \o l5) = (l1 \o three) \o l5
  BY <1>5, Zenon
<1>9. l1 \o (two \o l4) = (l1 \o two) \o l4
  BY <1>6, Zenon
<1>10. l1 \o (l2 \o l3) = (l1 \o l2) \o l3
  BY <1>7, Zenon
<1> QED BY <1>2, <1>3, <1>8, <1>9, <1>10, Zenon DEF AllRegroup

LEMMA FlattenHeadTail ==
  ASSUME NEW S, NEW ss \in Seq(Seq(S)), ss # << >>
  PROVE  FlattenSeq(ss) = Head(ss) \o FlattenSeq(Tail(ss))
<1> DEFINE tt == Tail(ss)   n == Len(tt)
<1>1. /\ n \in Nat /\ Len(ss) = n + 1 /\ tt \in Seq(Seq(S))
      /\ Head(ss) = ss[1] /\ Head(ss) \in Seq(S)
      /\ \A i \in 1..n : tt[i] = ss[i + 1] /\ tt[i] \in Seq(S)
  BY HeadTailProperties, LenProperties, ElementOfSeq
<1>2. PICK it : IsFlat(it, ss) /\ FlattenSeq(ss) = it[n + 1]
  BY <1>1, FlattenIsInTable
<1> HIDE DEF tt
<1>3. \A i \in 1..n + 1 : it[i] = FlatAt(it, ss, i)
  BY <1>1, <1>2, FlatRule
<1>4. CASE n = 0
  <2>1. tt = << >>
    BY <1>1, <1>4, EmptySeq
  <2>2. it[n + 1] = ss[1]
    BY <1>3, <1>4 DEF FlatAt
  <2>3. ss[1] \o << >> = ss[1]
    BY <1>1, ConcatEmptySeq
  <2> QED BY <1>1, <1>2, <2>1, <2>2, <2>3, FlattenEmpty DEF tt
<1>5. CASE n # 0
  <2>1. PICK jt : IsFlat(jt, tt) /\ FlattenSeq(tt) = jt[n]
    BY <1>1, <1>5, FlattenIsInTable
  <2>2. \A i \in 1..n : jt[i] = FlatAt(jt, tt, i)
    BY <2>1, FlatRule
  <2> HIDE DEF n
  <2> DEFINE T == {i \in 1..n : jt[i] \in Seq(S) /\ it[i + 1] = ss[1] \o jt[i]}
  <2>3. 1 \in T
    <3>1. jt[1] = tt[1]
      BY <1>1, <1>5, <2>2 DEF FlatAt
    <3>2. 1 \in 1..n + 1 /\ 2 \in 1..n + 1 /\ 1 \in 1..n
      BY <1>1, <1>5
    <3>3. it[1] = ss[1] /\ it[2] = it[1] \o ss[2]
      <4>1. it[1] = FlatAt(it, ss, 1) /\ it[2] = FlatAt(it, ss, 2)
        BY <1>3, <3>2
      <4>2. 2 - 1 = 1 /\ 2 # 1
        OBVIOUS
      <4> QED BY <4>1, <4>2 DEF FlatAt
    <3>4. tt[1] = ss[2] /\ tt[1] \in Seq(S)
      BY <1>1, <3>2
    <3>5. 1 + 1 = 2
      OBVIOUS
    <3> QED BY <3>1, <3>2, <3>3, <3>4, <3>5
  <2>4. ASSUME NEW i \in 1..n, i < n, i \in T PROVE i + 1 \in T
    <3>1. i + 1 \in 1..n /\ i + 2 \in 1..n + 1 /\ i + 1 # 1 /\ (i + 1) - 1 = i
          /\ i + 2 # 1 /\ (i + 2) - 1 = i + 1 /\ (i + 1) + 1 = i + 2
      BY <1>1, <2>4
    <3>2. jt[i + 1] = jt[i] \o tt[i + 1]
      BY <2>2, <3>1 DEF FlatAt
    <3>3. it[i + 2] = it[i + 1] \o ss[i + 2]
      BY <1>3, <3>1 DEF FlatAt
    <3>4. tt[i + 1] = ss[i + 2] /\ tt[i + 1] \in Seq(S)
      BY <1>1, <3>1
    <3>5. jt[i] \in Seq(S) /\ it[i + 1] = ss[1] \o jt[i] /\ ss[1] \in Seq(S)
      BY <1>1, <2>4
    <3>6. (ss[1] \o jt[i]) \o tt[i + 1] = ss[1] \o (jt[i] \o tt[i + 1])
      <4>1. Regroups(S)
        BY JoinsRegroup
      <4> HIDE DEF T
      <4> QED BY <3>4, <3>5, <4>1 DEF Regroups
    <3>7. jt[i] \o tt[i + 1] \in Seq(S)
      BY <3>4, <3>5, ConcatProperties
    <3> QED BY <3>1, <3>2, <3>3, <3>4, <3>5, <3>6, <3>7
  <2> HIDE DEF T
  <2>5. \A i \in 1..n : i \in T
    BY <1>1, <2>3, <2>4, IndexInduction
  <2>6. it[n + 1] = ss[1] \o jt[n]
    <3>1. n \in 1..n
      BY <1>1, <1>5
    <3> QED BY <2>5, <3>1 DEF T
  <2> QED BY <1>1, <1>2, <2>1, <2>6 DEF tt
<1> QED BY <1>4, <1>5

-----------------------------------------------------------------------------
(* Parts of sequences *)

(* Sequences of one element, and over more elements. *)
LEMMA OneIsSeq ==
  ASSUME NEW S, NEW u \in S
  PROVE  << u >> \in Seq(S) /\ Len(<< u >>) = 1 /\ << u >>[1] = u
OBVIOUS

LEMMA SeqOfMore ==
  ASSUME NEW S, NEW R, S \subseteq R
  PROVE  /\ \A s \in Seq(S) : s \in Seq(R)
         /\ \A ss \in Seq(Seq(S)) : ss \in Seq(Seq(R))
<1>1. \A s \in Seq(S) : s \in Seq(R)
  OBVIOUS
<1>2. Seq(S) \subseteq Seq(R)
  BY <1>1
<1>3. ASSUME NEW X, NEW Y, X \subseteq Y PROVE \A s \in Seq(X) : s \in Seq(Y)
  BY <1>3
<1>4. \A ss \in Seq(Seq(S)) : ss \in Seq(Seq(R))
  BY <1>2, <1>3
<1> QED BY <1>1, <1>4

LEMMA RestIsSeq ==
  ASSUME NEW S, NEW l \in Seq(S), NEW n \in Nat
  PROVE  SubSeq(l, n + 1, Len(l)) \in Seq(S)
<1>1. \A i \in n + 1..Len(l) : l[i] \in S
  BY ElementOfSeq, LenProperties
<1> QED BY <1>1, LenProperties, SubSeqProperties

(* What follows the first n of a sequence, when it grows at its end. *)
LEMMA RestOfMore ==
  ASSUME NEW S, NEW s \in Seq(S), NEW t \in Seq(S), NEW n \in 0..Len(s)
  PROVE  SubSeq(s \o t, n + 1, Len(s \o t)) = SubSeq(s, n + 1, Len(s)) \o t
<1>1. /\ s \o t \in Seq(S) /\ Len(s \o t) = Len(s) + Len(t)
      /\ Len(s) \in Nat /\ Len(t) \in Nat
      /\ \A i \in 1..Len(s) + Len(t) : (s \o t)[i] = IF i <= Len(s) THEN s[i] ELSE t[i - Len(s)]
  BY ConcatProperties, LenProperties
<1> DEFINE l == SubSeq(s \o t, n + 1, Len(s \o t))
           r == SubSeq(s, n + 1, Len(s))
           k == Len(s) - n
<1>2. k \in Nat
  BY <1>1
<1>3. /\ r \in Seq(S) /\ Len(r) = k
      /\ \A i \in 1..k : r[i] = s[n + i]
  <2>1. \A i \in n + 1..Len(s) : s[i] \in S
    BY <1>1, ElementOfSeq
  <2>2. /\ r \in Seq(S) /\ Len(r) = IF n + 1 <= Len(s) THEN Len(s) - (n + 1) + 1 ELSE 0
        /\ \A i \in 1..Len(s) - (n + 1) + 1 : r[i] = s[n + 1 + i - 1]
    BY <1>1, <2>1, SubSeqProperties
  <2> HIDE DEF r
  <2> QED BY <1>1, <2>2
<1>4. /\ l \in Seq(S) /\ Len(l) = k + Len(t)
      /\ \A i \in 1..k + Len(t) : l[i] = (s \o t)[n + i]
  <2> DEFINE st == s \o t
  <2>0. st \in Seq(S) /\ Len(st) = Len(s) + Len(t)
    BY <1>1
  <2> HIDE DEF st
  <2>1. \A i \in n + 1..Len(st) : st[i] \in S
    BY <1>1, <2>0, ElementOfSeq
  <2> DEFINE m == SubSeq(st, n + 1, Len(st))
  <2>2. /\ m \in Seq(S) /\ Len(m) = IF n + 1 <= Len(st) THEN Len(st) - (n + 1) + 1 ELSE 0
        /\ \A i \in 1..Len(st) - (n + 1) + 1 : m[i] = st[n + 1 + i - 1]
    BY <1>1, <2>0, <2>1, SubSeqProperties
  <2>3. m = l
    BY DEF st
  <2> HIDE DEF m, l
  <2>4. l \in Seq(S) /\ Len(l) = k + Len(t) /\ \A i \in 1..k + Len(t) : l[i] = st[n + i]
    <3>1. \A i \in 1..k + Len(t) : n + 1 + i - 1 = n + i /\ i \in 1..Len(st) - (n + 1) + 1
      BY <1>1, <2>0
    <3>2. Len(m) = k + Len(t)
      BY <1>1, <2>0, <2>2
    <3> HIDE DEF k
    <3> QED BY <2>2, <2>3, <3>1, <3>2
  <2> QED BY <2>4 DEF st
<1> HIDE DEF l, r
<1>5. /\ r \o t \in Seq(S) /\ Len(r \o t) = k + Len(t)
      /\ \A i \in 1..k + Len(t) : (r \o t)[i] = IF i <= k THEN r[i] ELSE t[i - k]
  <2> HIDE DEF k
  <2> QED BY <1>3, ConcatProperties
<1>6. \A i \in 1..Len(l) : l[i] = (r \o t)[i]
  <2> SUFFICES ASSUME NEW i \in 1..k + Len(t) PROVE l[i] = (r \o t)[i]
    BY <1>4
  <2>1. n + i \in 1..Len(s) + Len(t)
    BY <1>1, <1>2
  <2>2. l[i] = IF n + i <= Len(s) THEN s[n + i] ELSE t[n + i - Len(s)]
    BY <1>1, <1>4, <2>1
  <2>3. (r \o t)[i] = IF i <= k THEN s[n + i] ELSE t[i - k]
    <3>1. CASE i <= k
      BY <1>1, <1>2, <1>3, <1>5, <3>1
    <3>2. CASE ~ (i <= k)
      BY <1>5, <3>2
    <3> QED BY <3>1, <3>2
  <2>4. (n + i <= Len(s) <=> i <= k) /\ n + i - Len(s) = i - k
    BY <1>1
  <2> HIDE DEF k
  <2> QED BY <2>2, <2>3, <2>4
<1>7. l = r \o t
  <2> DEFINE rt == r \o t
  <2>1. l \in Seq(S) /\ rt \in Seq(S) /\ Len(l) = Len(rt) /\ \A i \in 1..Len(l) : l[i] = rt[i]
    BY <1>4, <1>5, <1>6
  <2> HIDE DEF rt
  <2>2. l = rt
    BY <2>1, SeqEqual
  <2> QED BY <2>2 DEF rt
<1> QED BY <1>7 DEF l, r

(* The first n of a sequence, when it grows at its end. *)
LEMMA StartOfMore ==
  ASSUME NEW S, NEW s \in Seq(S), NEW x \in S, NEW n \in 0..Len(s)
  PROVE  SubSeq(Append(s, x), 1, n) = SubSeq(s, 1, n)
<1>1. /\ Append(s, x) \in Seq(S) /\ Len(s) \in Nat /\ Len(Append(s, x)) = Len(s) + 1
      /\ \A i \in 1..Len(s) : Append(s, x)[i] = s[i]
  BY AppendProperties, LenProperties
<1> DEFINE t == Append(s, x)
<1> HIDE DEF t
<1>2. /\ SubSeq(s, 1, n) \in Seq(S) /\ SubSeq(t, 1, n) \in Seq(S)
      /\ Len(SubSeq(s, 1, n)) = n /\ Len(SubSeq(t, 1, n)) = n
      /\ \A i \in 1..n : SubSeq(s, 1, n)[i] = s[i] /\ SubSeq(t, 1, n)[i] = t[i]
  <2>1. ASSUME NEW l \in Seq(S), n <= Len(l)
        PROVE  /\ SubSeq(l, 1, n) \in Seq(S) /\ Len(SubSeq(l, 1, n)) = n
               /\ \A i \in 1..n : SubSeq(l, 1, n)[i] = l[i]
    <3>1. \A i \in 1..n : l[i] \in S
      BY <2>1, ElementOfSeq, LenProperties
    <3>2. /\ SubSeq(l, 1, n) \in Seq(S) /\ Len(SubSeq(l, 1, n)) = IF 1 <= n THEN n - 1 + 1 ELSE 0
          /\ \A i \in 1..n - 1 + 1 : SubSeq(l, 1, n)[i] = l[1 + i - 1]
      BY <3>1, <1>1, SubSeqProperties
    <3> QED BY <1>1, <3>2
  <2> QED BY <1>1, <2>1 DEF t
<1>3. SubSeq(s, 1, n) = SubSeq(t, 1, n)
  <2>1. \A i \in 1..n : SubSeq(s, 1, n)[i] = SubSeq(t, 1, n)[i]
    BY <1>1, <1>2 DEF t
  <2> QED BY <1>2, <2>1, SeqEqual
<1> QED BY <1>3 DEF t

(* The end of a sequence is a suffix of it. *)
LEMMA EndIsSuffix ==
  ASSUME NEW S, NEW s \in Seq(S), NEW t \in Seq(S)
  PROVE  IsSuffix(t, s \o t)
<1> DEFINE st == s \o t
<1>1. /\ Len(s) \in Nat /\ Len(t) \in Nat /\ Len(st) = Len(s) + Len(t)
      /\ \A i \in 1..Len(s) + Len(t) : st[i] = IF i <= Len(s) THEN s[i] ELSE t[i - Len(s)]
      /\ st \in Seq(S)
  BY ConcatProperties, LenProperties
<1> HIDE DEF st
<1> DEFINE rt == Reverse(t)   rst == Reverse(st)
<1>2. \A l \in Seq(S) : Reverse(l) \in Seq(S) /\ Len(Reverse(l)) = Len(l)
        /\ \A i \in 1..Len(l) : Reverse(l)[i] = l[(Len(l) - i) + 1]
  <2> TAKE l \in Seq(S)
  <2>1. Len(l) \in Nat /\ \A i \in 1..Len(l) : l[i] \in S
    BY LenProperties, ElementOfSeq
  <2>2. \A i \in 1..Len(l) : (Len(l) - i) + 1 \in 1..Len(l)
    BY <2>1
  <2>3. Reverse(l) = [i \in 1..Len(l) |-> l[(Len(l) - i) + 1]]
    BY DEF Reverse
  <2>4. Reverse(l) \in [1..Len(l) -> S]
    BY <2>1, <2>2, <2>3
  <2>5. Reverse(l) \in Seq(S) /\ Len(Reverse(l)) = Len(l)
    BY <2>1, <2>4, SeqDef, LenProperties
  <2> QED BY <2>3, <2>5
<1>3. rt \in Seq(S) /\ rst \in Seq(S) /\ Len(rt) = Len(t) /\ Len(rst) = Len(st)
  BY <1>1, <1>2
<1>4. \A i \in 1..Len(t) : rt[i] = rst[i]
  <2> TAKE i \in 1..Len(t)
  <2>1. rt[i] = t[(Len(t) - i) + 1] /\ rst[i] = st[(Len(st) - i) + 1]
    <3>1. i \in 1..Len(st)
      BY <1>1
    <3> HIDE DEF rt, rst
    <3>2. \A j \in 1..Len(t) : rt[j] = t[(Len(t) - j) + 1]
      BY <1>2 DEF rt
    <3>3. \A j \in 1..Len(st) : rst[j] = st[(Len(st) - j) + 1]
      BY <1>1, <1>2 DEF rst
    <3> QED BY <3>1, <3>2, <3>3
  <2> HIDE DEF rt, rst
  <2>2. /\ (Len(st) - i) + 1 \in 1..Len(s) + Len(t) /\ ~ ((Len(st) - i) + 1 <= Len(s))
        /\ (Len(st) - i) + 1 - Len(s) = (Len(t) - i) + 1
    BY <1>1
  <2> QED BY <1>1, <2>1, <2>2
<1> HIDE DEF rt, rst
<1>5. /\ SubSeq(rt, 1, Len(t)) \in Seq(S) /\ SubSeq(rst, 1, Len(t)) \in Seq(S)
      /\ Len(SubSeq(rt, 1, Len(t))) = Len(t) /\ Len(SubSeq(rst, 1, Len(t))) = Len(t)
      /\ \A i \in 1..Len(t) : SubSeq(rt, 1, Len(t))[i] = rt[i] /\ SubSeq(rst, 1, Len(t))[i] = rst[i]
  <2>1. ASSUME NEW l \in Seq(S), Len(t) <= Len(l)
        PROVE  /\ SubSeq(l, 1, Len(t)) \in Seq(S) /\ Len(SubSeq(l, 1, Len(t))) = Len(t)
               /\ \A i \in 1..Len(t) : SubSeq(l, 1, Len(t))[i] = l[i]
    <3>1. \A i \in 1..Len(t) : l[i] \in S
      BY <1>1, <2>1, ElementOfSeq, LenProperties
    <3>2. /\ SubSeq(l, 1, Len(t)) \in Seq(S)
          /\ Len(SubSeq(l, 1, Len(t))) = IF 1 <= Len(t) THEN Len(t) - 1 + 1 ELSE 0
          /\ \A i \in 1..Len(t) - 1 + 1 : SubSeq(l, 1, Len(t))[i] = l[1 + i - 1]
      BY <1>1, <3>1, SubSeqProperties
    <3> QED BY <1>1, <3>2
  <2> QED BY <1>1, <1>3, <2>1
<1>6. SubSeq(rt, 1, Len(t)) = SubSeq(rst, 1, Len(t))
  BY <1>4, <1>5, SeqEqual
<1>7. IsPrefix(rt, rst)
  BY <1>1, <1>3, <1>6 DEF IsPrefix
<1> QED BY <1>7 DEF IsSuffix, rt, rst, st
=============================================================================
