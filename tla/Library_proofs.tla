---------------------------- MODULE Library_proofs ----------------------------
(***************************************************************************)
(* What the proofs need of the community modules, and these do not prove.  *)
(*                                                                         *)
(* Sums: SumFunctionOnSet adds up the values f[x], x \in S, taking the     *)
(* members of S in an order it chooses.  SumRemove says that the order does*)
(* not matter; the rest follows from it by induction on the set            *)
(* (FiniteInduction).                                                      *)
(*                                                                         *)
(* Sequences: that a function defined by recursion on the numbers up to n  *)
(* exists (RecursionExists), and what FlattenSeq makes of a sequence of    *)
(* sequences.  An induction takes a set for its predicate (CountUp).       *)
(***************************************************************************)
EXTENDS Integers, Functions, FiniteSetsExt, SequencesExt, FiniteSetTheorems, SequenceTheorems,
        WellFoundedInduction, TLAPS

-----------------------------------------------------------------------------
(* Induction *)

LEMMA LeastOf ==
    ASSUME NEW S, S \subseteq Nat, S # {}
    PROVE  \E n \in S : \A m \in S : n <= m
<1>1. IsWellFoundedOn(OpToRel(<, Nat), Nat)
  BY NatLessThanWellFounded
<1>2. PICK n \in S : \A m \in S : ~ (<<m, n>> \in OpToRel(<, Nat))
  BY <1>1, WFMin
<1>3. \A m \in S : ~ (m < n)
  BY <1>2 DEF OpToRel
<1> QED BY <1>3

\* A set of subsets of a finite set has one of which no smaller subset is a member.
LEMMA SmallestOf ==
    ASSUME NEW S, IsFiniteSet(S), NEW D, D \subseteq SUBSET S, D # {}
    PROVE  \E t \in D : \A x \in t : t \ {x} \notin D
<1> DEFINE Sizes == {n \in Nat : \E t \in D : Cardinality(t) = n}
<1>1. \A t \in D : IsFiniteSet(t) /\ Cardinality(t) \in Nat
  BY FS_Subset, FS_CardinalityType
<1>2. Sizes # {} /\ Sizes \subseteq Nat
  BY <1>1
<1>3. PICK n \in Sizes : \A m \in Sizes : n <= m
  BY <1>2, LeastOf
<1>4. PICK t \in D : Cardinality(t) = n
  BY <1>3
<1>5. ASSUME NEW x \in t, t \ {x} \in D PROVE FALSE
  <2>1. Cardinality(t \ {x}) = n - 1 /\ n \in Nat
    BY <1>1, <1>4, FS_RemoveElement
  <2>2. n - 1 \in Sizes
    BY <1>1, <1>5, <2>1
  <2> QED BY <1>3, <2>1, <2>2
<1> QED BY <1>5

\* What holds of the empty set, and of a subset with one more member when it holds of the
\* subset, holds of a finite set.  P is the set of the subsets of which it holds.
LEMMA FiniteInduction ==
    ASSUME NEW S, IsFiniteSet(S), NEW P, {} \in P,
           \A T \in SUBSET S : \A x \in S \ T : T \in P => T \cup {x} \in P
    PROVE  S \in P
<1> DEFINE D == {T \in SUBSET S : T \notin P}
<1> SUFFICES ASSUME D # {} PROVE FALSE
  OBVIOUS
<1>1. PICK t \in D : \A x \in t : t \ {x} \notin D
  <2>1. D \subseteq SUBSET S
    OBVIOUS
  <2> HIDE DEF D
  <2> QED BY <2>1, SmallestOf
<1>2. PICK x \in t : TRUE
  OBVIOUS
<1>3. t \ {x} \in P /\ t \ {x} \in SUBSET S /\ x \in S \ (t \ {x}) /\ (t \ {x}) \cup {x} = t
  BY <1>1, <1>2
<1> QED BY <1>3

-----------------------------------------------------------------------------
(* The recursion behind a sum *)

Chosen(s) == CHOOSE x \in s : TRUE
Adds(h, f, S) ==
    h = [s \in SUBSET S |-> IF s = {} THEN 0 ELSE f[Chosen(s)] + h[s \ {Chosen(s)}]]

LEMMA SumIs == ASSUME NEW S, NEW f PROVE SumFunctionOnSet(f, S) = (CHOOSE h : Adds(h, f, S))[S]
BY DEF SumFunctionOnSet, FoldFunctionOnSet, MapThenFoldSet, Adds, Chosen

LEMMA ChosenIn == ASSUME NEW s, s # {} PROVE Chosen(s) \in s
BY DEF Chosen

LEMMA AddsOf ==
    ASSUME NEW S, NEW f, NEW h, Adds(h, f, S)
    PROVE  /\ S = {} => h[S] = 0
           /\ \A s \in SUBSET S : h[s] = IF s = {} THEN 0 ELSE f[Chosen(s)] + h[s \ {Chosen(s)}]
BY DEF Adds

LEMMA SumExists ==
    ASSUME NEW S, IsFiniteSet(S), NEW f, \A x \in S : f[x] \in Int
    PROVE  \E h \in [SUBSET S -> Int] : Adds(h, f, S)
<1> DEFINE Upto(h, n) == \A s \in SUBSET S : Cardinality(s) <= n =>
                            h[s] = IF s = {} THEN 0 ELSE f[Chosen(s)] + h[s \ {Chosen(s)}]
           Bad == {n \in Nat : ~ \E h \in [SUBSET S -> Int] : Upto(h, n)}
<1>1. \A s \in SUBSET S : IsFiniteSet(s) /\ Cardinality(s) \in Nat
  BY FS_Subset, FS_CardinalityType
<1>2. \A s \in SUBSET S : s # {} =>
        /\ Chosen(s) \in s /\ s \ {Chosen(s)} \in SUBSET S
        /\ Cardinality(s \ {Chosen(s)}) = Cardinality(s) - 1
  BY <1>1, ChosenIn, FS_RemoveElement
<1>3. Bad = {}
  <2> SUFFICES ASSUME Bad # {} PROVE FALSE
    OBVIOUS
  <2>1. PICK n \in Bad : \A m \in Bad : n <= m
    BY LeastOf
  <2>2. n # 0
    <3> DEFINE h == [s \in SUBSET S |-> 0]
    <3>1. \A s \in SUBSET S : Cardinality(s) <= 0 => s = {}
      BY <1>1, FS_EmptySet
    <3>2. h \in [SUBSET S -> Int] /\ Upto(h, 0)
      BY <3>1
    <3> HIDE DEF h, Upto
    <3> QED BY <3>2, <2>1
  <2>3. n - 1 \in Nat /\ n \in Nat
    BY <2>1, <2>2
  <2>4. PICK h \in [SUBSET S -> Int] : Upto(h, n - 1)
    <3> HIDE DEF Upto
    <3>1. n - 1 \notin Bad
      BY <2>1, <2>3
    <3> QED BY <3>1, <2>3
  <2> DEFINE Value(s) == IF s = {} THEN 0 ELSE f[Chosen(s)] + h[s \ {Chosen(s)}]
             k == [s \in SUBSET S |-> IF Cardinality(s) = n THEN Value(s) ELSE h[s]]
  <2>5. ASSUME NEW s \in SUBSET S PROVE Value(s) \in Int
    <3>1. CASE s = {}
      BY <3>1
    <3>2. CASE s # {}
      <4>1. Chosen(s) \in S /\ s \ {Chosen(s)} \in SUBSET S
        BY <1>2, <3>2
      <4>2. f[Chosen(s)] \in Int /\ h[s \ {Chosen(s)}] \in Int
        BY <4>1, <2>4
      <4> QED BY <4>2, <3>2
    <3> QED BY <3>1, <3>2
  <2>6. k \in [SUBSET S -> Int]
    <3> HIDE DEF Value
    <3> QED BY <2>5, <2>4
  <2>7. Upto(k, n)
    <3> SUFFICES ASSUME NEW s \in SUBSET S, Cardinality(s) <= n
                 PROVE  k[s] = IF s = {} THEN 0 ELSE f[Chosen(s)] + k[s \ {Chosen(s)}]
      OBVIOUS
    <3>1. s # {} => k[s \ {Chosen(s)}] = h[s \ {Chosen(s)}]
      <4> SUFFICES ASSUME s # {} PROVE k[s \ {Chosen(s)}] = h[s \ {Chosen(s)}]
        OBVIOUS
      <4>1. s \ {Chosen(s)} \in SUBSET S /\ Cardinality(s \ {Chosen(s)}) # n
        BY <1>1, <1>2, <2>3
      <4> HIDE DEF Value
      <4> QED BY <4>1
    <3>2. k[s] = Value(s)
      <4>1. CASE Cardinality(s) = n
        BY <4>1
      <4>2. CASE Cardinality(s) # n
        <5>1. Cardinality(s) <= n - 1
          BY <4>2, <1>1, <2>3
        <5>2. h[s] = Value(s)
          BY <5>1, <2>4
        <5> HIDE DEF Value
        <5> QED BY <5>2, <4>2
      <4> QED BY <4>1, <4>2
    <3> HIDE DEF k
    <3> QED BY <3>1, <3>2
  <2> HIDE DEF k, Upto
  <2> QED BY <2>1, <2>6, <2>7
<1> HIDE DEF Upto
<1>4. PICK h \in [SUBSET S -> Int] : Upto(h, Cardinality(S))
  BY <1>1, <1>3
<1>5. \A s \in SUBSET S : Cardinality(s) <= Cardinality(S)
  BY FS_Subset
<1>6. \A s \in SUBSET S : h[s] = IF s = {} THEN 0 ELSE f[Chosen(s)] + h[s \ {Chosen(s)}]
  BY <1>4, <1>5 DEF Upto
<1>7. Adds(h, f, S)
  BY <1>4, <1>6 DEF Adds
<1> QED BY <1>4, <1>7

\* All recursions over the same values agree, on whatever sets they are.
LEMMA AddsAgree ==
    ASSUME NEW S, IsFiniteSet(S), NEW R, NEW T, S \subseteq R, S \subseteq T,
           NEW f, NEW g, \A x \in S : f[x] = g[x],
           NEW h, NEW k, Adds(h, f, R), Adds(k, g, T)
    PROVE  h[S] = k[S]
<1> DEFINE Differ == {t \in SUBSET S : h[t] # k[t]}
<1> SUFFICES ASSUME Differ # {} PROVE FALSE
  OBVIOUS
<1>1. PICK t \in Differ : \A x \in t : t \ {x} \notin Differ
  <2>1. Differ \subseteq SUBSET S
    OBVIOUS
  <2> HIDE DEF Differ
  <2> QED BY <2>1, SmallestOf
<1> DEFINE c == Chosen(t)
<1>2. /\ h[t] = IF t = {} THEN 0 ELSE f[c] + h[t \ {c}]
      /\ k[t] = IF t = {} THEN 0 ELSE g[c] + k[t \ {c}]
  <2>1. t \in SUBSET R /\ t \in SUBSET T
    OBVIOUS
  <2> HIDE DEF Differ
  <2>2. \A s \in SUBSET R : h[s] = IF s = {} THEN 0 ELSE f[Chosen(s)] + h[s \ {Chosen(s)}]
    BY AddsOf
  <2>3. \A s \in SUBSET T : k[s] = IF s = {} THEN 0 ELSE g[Chosen(s)] + k[s \ {Chosen(s)}]
    BY ONLY Adds(k, g, T), AddsOf
  <2> QED BY <2>1, <2>2, <2>3
<1>3. t # {}
  BY <1>1, <1>2
<1>4. c \in t /\ t \ {c} \in SUBSET S
  BY <1>3, ChosenIn
<1>5. h[t \ {c}] = k[t \ {c}] /\ f[c] = g[c]
  BY <1>1, <1>4
<1> QED BY <1>1, <1>2, <1>3, <1>5

-----------------------------------------------------------------------------
(* Sums *)

LEMMA SumAdds ==
    ASSUME NEW S, IsFiniteSet(S), NEW f, \A x \in S : f[x] \in Int
    PROVE  \E h : Adds(h, f, S) /\ SumFunctionOnSet(f, S) = h[S]
<1>1. Adds(CHOOSE h : Adds(h, f, S), f, S)
  BY SumExists
<1> QED BY <1>1, SumIs

\* A sum depends on its values only.
LEMMA SumSame ==
    ASSUME NEW S, IsFiniteSet(S), NEW f, NEW g, \A x \in S : f[x] \in Int /\ f[x] = g[x]
    PROVE  SumFunctionOnSet(f, S) = SumFunctionOnSet(g, S)
<1>1. PICK h : Adds(h, f, S) /\ SumFunctionOnSet(f, S) = h[S]
  BY SumAdds
<1>2. PICK k : Adds(k, g, S) /\ SumFunctionOnSet(g, S) = k[S]
  <2>1. \A x \in S : g[x] \in Int
    OBVIOUS
  <2> QED BY <2>1, SumAdds
<1> QED BY <1>1, <1>2, AddsAgree

LEMMA SumEmpty == ASSUME NEW f PROVE SumFunctionOnSet(f, {}) = 0
<1>1. PICK h : Adds(h, f, {}) /\ SumFunctionOnSet(f, {}) = h[{}]
  <2>1. IsFiniteSet({}) /\ \A x \in {} : f[x] \in Int
    BY FS_EmptySet
  <2> QED BY <2>1, SumAdds
<1> QED BY <1>1, AddsOf

LEMMA SumChosen ==
    ASSUME NEW S, IsFiniteSet(S), S # {}, NEW f, \A x \in S : f[x] \in Int
    PROVE  SumFunctionOnSet(f, S) = f[Chosen(S)] + SumFunctionOnSet(f, S \ {Chosen(S)})
<1> DEFINE R == S \ {Chosen(S)}
<1>1. PICK h : Adds(h, f, S) /\ SumFunctionOnSet(f, S) = h[S]
  BY SumAdds
<1>2. PICK k : Adds(k, f, R) /\ SumFunctionOnSet(f, R) = k[R]
  <2>1. IsFiniteSet(R) /\ \A x \in R : f[x] \in Int
    BY FS_Subset
  <2> HIDE DEF R
  <2> QED BY <2>1, SumAdds
<1>3. h[S] = f[Chosen(S)] + h[R]
  BY <1>1, AddsOf
<1>4. h[R] = k[R]
  <2>1. R \subseteq S /\ IsFiniteSet(R)
    BY FS_Subset
  <2> HIDE DEF R
  <2> QED BY <2>1, <1>1, <1>2, AddsAgree
<1> QED BY <1>1, <1>2, <1>3, <1>4

LEMMA SumInt ==
    ASSUME NEW S, IsFiniteSet(S), NEW f, \A x \in S : f[x] \in Int
    PROVE  SumFunctionOnSet(f, S) \in Int
<1>1. PICK h \in [SUBSET S -> Int] : Adds(h, f, S)
  BY SumExists
<1>2. PICK k : Adds(k, f, S) /\ SumFunctionOnSet(f, S) = k[S]
  BY SumAdds
<1>3. k[S] = h[S]
  BY <1>1, <1>2, AddsAgree
<1> QED BY <1>1, <1>2, <1>3

\* The order does not matter: any member may be taken out first.
LEMMA SumRemove ==
    ASSUME NEW S, IsFiniteSet(S), NEW f, \A x \in S : f[x] \in Int, NEW x \in S
    PROVE  SumFunctionOnSet(f, S) = f[x] + SumFunctionOnSet(f, S \ {x})
<1> DEFINE Sum(T) == SumFunctionOnSet(f, T)
           D == {T \in SUBSET S : \E y \in T : Sum(T) # f[y] + Sum(T \ {y})}
<1>1. \A T \in SUBSET S : IsFiniteSet(T) /\ Sum(T) \in Int
  BY FS_Subset, SumInt
<1>2. \A T \in SUBSET S : T # {} => Chosen(T) \in T /\ Sum(T) = f[Chosen(T)] + Sum(T \ {Chosen(T)})
  BY <1>1, SumChosen, ChosenIn
<1> HIDE DEF Sum
<1>3. D = {}
  <2> SUFFICES ASSUME D # {} PROVE FALSE
    OBVIOUS
  <2>1. PICK t \in D : \A y \in t : t \ {y} \notin D
    <3>1. D \subseteq SUBSET S
      OBVIOUS
    <3> HIDE DEF D
    <3> QED BY <3>1, SmallestOf
  <2>2. PICK y \in t : Sum(t) # f[y] + Sum(t \ {y})
    BY <2>1
  <2> DEFINE c == Chosen(t)
  <2>3. c \in t /\ Sum(t) = f[c] + Sum(t \ {c})
    BY <1>2, <2>2
  <2> HIDE DEF c
  <2>4. c # y
    BY <2>2, <2>3
  <2>5. Sum(t \ {c}) = f[y] + Sum((t \ {c}) \ {y})
    <3>1. t \ {c} \in SUBSET S /\ t \ {c} \notin D /\ y \in t \ {c}
      BY <2>1, <2>2, <2>3, <2>4
    <3> QED BY <3>1
  <2>6. Sum(t \ {y}) = f[c] + Sum((t \ {y}) \ {c})
    <3>1. t \ {y} \in SUBSET S /\ t \ {y} \notin D /\ c \in t \ {y}
      BY <2>1, <2>2, <2>3, <2>4
    <3> QED BY <3>1
  <2>7. (t \ {c}) \ {y} = (t \ {y}) \ {c}
    OBVIOUS
  <2>8. /\ f[c] \in Int /\ f[y] \in Int /\ Sum((t \ {c}) \ {y}) \in Int
    BY <1>1, <2>2, <2>3
  <2>9. Sum(t) = f[c] + (f[y] + Sum((t \ {c}) \ {y})) /\ Sum(t \ {y}) = f[c] + Sum((t \ {c}) \ {y})
    BY <2>3, <2>5, <2>6, <2>7
  <2>10. Sum(t) = f[y] + Sum(t \ {y})
    BY <2>8, <2>9
  <2> QED BY <2>2, <2>10
<1>4. Sum(S) = f[x] + Sum(S \ {x})
  BY <1>3
<1> QED BY <1>4 DEF Sum

LEMMA SumInsert ==
    ASSUME NEW S, IsFiniteSet(S), NEW x, x \notin S, NEW f, \A y \in S \cup {x} : f[y] \in Int
    PROVE  SumFunctionOnSet(f, S \cup {x}) = f[x] + SumFunctionOnSet(f, S)
<1>1. IsFiniteSet(S \cup {x}) /\ (S \cup {x}) \ {x} = S
  BY FS_AddElement
<1> QED BY <1>1, SumRemove

\* Sums of sums, multiples and differences.
LEMMA SumPlus ==
    ASSUME NEW S, IsFiniteSet(S), NEW f, NEW g, NEW h,
           \A x \in S : f[x] \in Int /\ g[x] \in Int /\ h[x] = f[x] + g[x]
    PROVE  SumFunctionOnSet(h, S) = SumFunctionOnSet(f, S) + SumFunctionOnSet(g, S)
<1> DEFINE P == {T \in SUBSET S : SumFunctionOnSet(h, T) = SumFunctionOnSet(f, T) + SumFunctionOnSet(g, T)}
<1>1. {} \in P
  BY SumEmpty
<1>2. ASSUME NEW T \in SUBSET S, NEW x \in S \ T, T \in P PROVE T \cup {x} \in P
  <2>1. IsFiniteSet(T) /\ \A y \in T \cup {x} : f[y] \in Int /\ g[y] \in Int /\ h[y] \in Int
    BY FS_Subset
  <2>2. /\ SumFunctionOnSet(f, T) \in Int /\ SumFunctionOnSet(g, T) \in Int
        /\ SumFunctionOnSet(h, T \cup {x}) = h[x] + SumFunctionOnSet(h, T)
        /\ SumFunctionOnSet(f, T \cup {x}) = f[x] + SumFunctionOnSet(f, T)
        /\ SumFunctionOnSet(g, T \cup {x}) = g[x] + SumFunctionOnSet(g, T)
    BY <2>1, SumInsert, SumInt
  <2> QED BY <1>2, <2>1, <2>2
<1>3. S \in P
  <2> HIDE DEF P
  <2> QED BY <1>1, <1>2, FiniteInduction
<1> QED BY <1>3

LEMMA SumTimes ==
    ASSUME NEW S, IsFiniteSet(S), NEW k \in Int, NEW f, NEW g,
           \A x \in S : f[x] \in Int /\ g[x] = f[x] * k
    PROVE  SumFunctionOnSet(g, S) = SumFunctionOnSet(f, S) * k
<1> DEFINE Q(T) == SumFunctionOnSet(g, T) = SumFunctionOnSet(f, T) * k
           P == {T \in SUBSET S : Q(T)}
<1>1. {} \in P
  <2>1. SumFunctionOnSet(g, {}) = 0 /\ SumFunctionOnSet(f, {}) = 0
    BY SumEmpty
  <2> QED BY <2>1
<1>2. ASSUME NEW T \in SUBSET S, NEW x \in S \ T, T \in P PROVE T \cup {x} \in P
  <2>1. IsFiniteSet(T) /\ \A y \in T \cup {x} : f[y] \in Int /\ g[y] \in Int
    BY FS_Subset
  <2>2. /\ SumFunctionOnSet(f, T) \in Int
        /\ SumFunctionOnSet(g, T \cup {x}) = g[x] + SumFunctionOnSet(g, T)
        /\ SumFunctionOnSet(f, T \cup {x}) = f[x] + SumFunctionOnSet(f, T)
    BY <2>1, SumInsert, SumInt
  <2>3. \A a, b \in Int : (a + b) * k = a * k + b * k
    OBVIOUS
  <2>4. SumFunctionOnSet(f, T \cup {x}) * k = f[x] * k + SumFunctionOnSet(f, T) * k
    BY <2>1, <2>2, <2>3
  <2>5. SumFunctionOnSet(g, T) = SumFunctionOnSet(f, T) * k /\ g[x] = f[x] * k
    BY <1>2
  <2>6. SumFunctionOnSet(g, T \cup {x}) = SumFunctionOnSet(f, T \cup {x}) * k
    BY <2>2, <2>4, <2>5
  <2>7. T \cup {x} \in SUBSET S
    OBVIOUS
  <2>8. Q(T \cup {x})
    BY <2>6
  <2> HIDE DEF Q
  <2> QED BY ONLY <2>7, <2>8
<1>3. S \in P
  <2> HIDE DEF P
  <2> QED BY <1>1, <1>2, FiniteInduction
<1> QED BY <1>3

\* What adds nothing may be left out.
LEMMA SumOnly ==
    ASSUME NEW S, IsFiniteSet(S), NEW R, R \subseteq S, NEW f, NEW g,
           \A x \in S : f[x] \in Int,
           \A x \in R : g[x] = f[x], \A x \in S \ R : f[x] = 0
    PROVE  SumFunctionOnSet(g, R) = SumFunctionOnSet(f, S)
<1> DEFINE P == {T \in SUBSET S : SumFunctionOnSet(g, T \cap R) = SumFunctionOnSet(f, T)}
<1>1. {} \in P
  <2>1. {} \cap R = {}
    OBVIOUS
  <2> QED BY <2>1, SumEmpty
<1>2. ASSUME NEW T \in SUBSET S, NEW x \in S \ T, T \in P PROVE T \cup {x} \in P
  <2>1. /\ IsFiniteSet(T) /\ IsFiniteSet(T \cap R)
        /\ \A y \in T \cup {x} : f[y] \in Int /\ (y \in R => g[y] \in Int)
    BY FS_Subset
  <2>2. SumFunctionOnSet(f, T \cup {x}) = f[x] + SumFunctionOnSet(f, T) /\ SumFunctionOnSet(f, T) \in Int
    BY <2>1, SumInsert, SumInt
  <2>5. T \cup {x} \in SUBSET S
    OBVIOUS
  <2>3. CASE x \in R
    <3>1. (T \cup {x}) \cap R = (T \cap R) \cup {x} /\ x \notin T \cap R
      BY <2>3
    <3>2. SumFunctionOnSet(g, (T \cap R) \cup {x}) = g[x] + SumFunctionOnSet(g, T \cap R)
      BY <2>1, <2>3, <3>1, SumInsert
    <3>3. SumFunctionOnSet(g, T \cap R) = SumFunctionOnSet(f, T) /\ g[x] = f[x]
      BY <1>2, <2>3
    <3>4. SumFunctionOnSet(g, (T \cup {x}) \cap R) = SumFunctionOnSet(f, T \cup {x})
      BY <2>2, <3>1, <3>2, <3>3
    <3> QED BY <3>4, <2>5
  <2>4. CASE x \notin R
    <3>1. (T \cup {x}) \cap R = T \cap R /\ f[x] = 0
      BY <2>4
    <3>2. SumFunctionOnSet(g, T \cap R) = SumFunctionOnSet(f, T)
      BY <1>2
    <3>3. SumFunctionOnSet(f, T) = SumFunctionOnSet(f, T \cup {x})
      BY <2>2, <3>1
    <3>4. SumFunctionOnSet(g, (T \cup {x}) \cap R) = SumFunctionOnSet(f, T \cup {x})
      BY <3>1, <3>2, <3>3
    <3> QED BY <3>4, <2>5
  <2> QED BY <2>3, <2>4
<1>3. S \in P
  <2> HIDE DEF P
  <2> QED BY <1>1, <1>2, FiniteInduction
<1>4. S \cap R = R
  OBVIOUS
<1> QED BY <1>3, <1>4

LEMMA SumZero ==
    ASSUME NEW S, IsFiniteSet(S), NEW f, \A x \in S : f[x] = 0
    PROVE  SumFunctionOnSet(f, S) = 0
<1>1. SumFunctionOnSet(f, {}) = SumFunctionOnSet(f, S)
  BY SumOnly
<1> QED BY <1>1, SumEmpty

LEMMA SumNat ==
    ASSUME NEW S, IsFiniteSet(S), NEW f, \A x \in S : f[x] \in Nat
    PROVE  SumFunctionOnSet(f, S) \in Nat
<1> DEFINE P == {T \in SUBSET S : SumFunctionOnSet(f, T) \in Nat}
<1>1. {} \in P
  BY SumEmpty
<1>2. ASSUME NEW T \in SUBSET S, NEW x \in S \ T, T \in P PROVE T \cup {x} \in P
  <2>1. IsFiniteSet(T) /\ \A y \in T \cup {x} : f[y] \in Int
    BY FS_Subset
  <2>2. SumFunctionOnSet(f, T \cup {x}) = f[x] + SumFunctionOnSet(f, T)
    BY <2>1, SumInsert
  <2>3. SumFunctionOnSet(f, T \cup {x}) \in Nat
    BY <1>2, <2>2
  <2> QED BY <2>3
<1>3. S \in P
  <2> HIDE DEF P
  <2> QED BY <1>1, <1>2, FiniteInduction
<1> QED BY <1>3

\* Two sums with no member in common are one.
LEMMA SumUnion ==
    ASSUME NEW S, IsFiniteSet(S), NEW R, IsFiniteSet(R), S \cap R = {},
           NEW f, \A x \in S \cup R : f[x] \in Int
    PROVE  SumFunctionOnSet(f, S \cup R) = SumFunctionOnSet(f, S) + SumFunctionOnSet(f, R)
<1> DEFINE P == {T \in SUBSET S : SumFunctionOnSet(f, T \cup R)
                                     = SumFunctionOnSet(f, T) + SumFunctionOnSet(f, R)}
<1>1. {} \in P
  <2>1. {} \cup R = R /\ SumFunctionOnSet(f, R) \in Int
    BY SumInt
  <2>2. SumFunctionOnSet(f, {} \cup R) = SumFunctionOnSet(f, {}) + SumFunctionOnSet(f, R)
    BY <2>1, SumEmpty
  <2> QED BY <2>2
<1>2. ASSUME NEW T \in SUBSET S, NEW x \in S \ T, T \in P PROVE T \cup {x} \in P
  <2>1. IsFiniteSet(T) /\ IsFiniteSet(T \cup R)
    BY FS_Subset, FS_Union
  <2>2. (T \cup {x}) \cup R = (T \cup R) \cup {x} /\ x \notin T \cup R
    OBVIOUS
  <2>3. /\ SumFunctionOnSet(f, T \cup {x}) = f[x] + SumFunctionOnSet(f, T)
        /\ SumFunctionOnSet(f, (T \cup R) \cup {x}) = f[x] + SumFunctionOnSet(f, T \cup R)
        /\ SumFunctionOnSet(f, T) \in Int /\ SumFunctionOnSet(f, R) \in Int /\ f[x] \in Int
    BY <2>1, <2>2, SumInsert, SumInt
  <2>4. SumFunctionOnSet(f, T \cup R) = SumFunctionOnSet(f, T) + SumFunctionOnSet(f, R)
    BY <1>2
  <2>7. SumFunctionOnSet(f, (T \cup {x}) \cup R) = SumFunctionOnSet(f, (T \cup R) \cup {x})
    BY <2>2, Zenon
  <2>8. SumFunctionOnSet(f, (T \cup {x}) \cup R)
           = SumFunctionOnSet(f, T \cup {x}) + SumFunctionOnSet(f, R)
    BY ONLY <2>3, <2>4, <2>7
  <2>6. T \cup {x} \in SUBSET S
    OBVIOUS
  <2> QED BY <2>6, <2>8
<1>3. S \in P
  <2> HIDE DEF P
  <2> QED BY <1>1, <1>2, FiniteInduction
<1> QED BY <1>3

LEMMA ImageFinite == ASSUME NEW S, IsFiniteSet(S), NEW m PROVE IsFiniteSet({m[x] : x \in S})
<1> DEFINE Image == {m[x] : x \in S}
           f == [x \in S |-> m[x]]
<1>1. f \in Surjection(S, Image)
  BY DEF Surjection
<1> HIDE DEF f
<1> QED BY <1>1, FS_Surjection

\* A sum over what the members are mapped to, when no two are mapped to the same.
LEMMA SumImage ==
    ASSUME NEW S, IsFiniteSet(S), NEW m, NEW f, NEW g,
           \A x, y \in S : m[x] = m[y] => x = y,
           \A x \in S : g[m[x]] \in Int /\ f[x] = g[m[x]]
    PROVE  SumFunctionOnSet(g, {m[x] : x \in S}) = SumFunctionOnSet(f, S)
<1> DEFINE Image(T) == {m[x] : x \in T}
           P == {T \in SUBSET S : SumFunctionOnSet(g, Image(T)) = SumFunctionOnSet(f, T)}
<1>1. {} \in P
  <2>1. Image({}) = {}
    OBVIOUS
  <2>2. SumFunctionOnSet(g, Image({})) = SumFunctionOnSet(f, {})
    BY <2>1, SumEmpty
  <2> QED BY <2>2
<1>2. ASSUME NEW T \in SUBSET S, NEW x \in S \ T, T \in P PROVE T \cup {x} \in P
  <2>1. IsFiniteSet(T) /\ \A y \in T \cup {x} : f[y] \in Int
    BY FS_Subset
  <2>2. IsFiniteSet(Image(T))
    BY <2>1, ImageFinite
  <2>3. Image(T \cup {x}) = Image(T) \cup {m[x]} /\ m[x] \notin Image(T)
    OBVIOUS
  <2>4. \A z \in Image(T) \cup {m[x]} : g[z] \in Int
    OBVIOUS
  <2>5. SumFunctionOnSet(g, Image(T)) = SumFunctionOnSet(f, T) /\ f[x] = g[m[x]]
    BY <1>2
  <2>6. T \cup {x} \in SUBSET S
    OBVIOUS
  <2> HIDE DEF Image
  <2>7. SumFunctionOnSet(g, Image(T \cup {x})) = g[m[x]] + SumFunctionOnSet(g, Image(T))
    BY <2>2, <2>3, <2>4, SumInsert
  <2>8. SumFunctionOnSet(f, T \cup {x}) = f[x] + SumFunctionOnSet(f, T)
    BY <2>1, SumInsert
  <2>9. SumFunctionOnSet(g, Image(T \cup {x})) = SumFunctionOnSet(f, T \cup {x})
    BY <2>5, <2>7, <2>8
  <2> QED BY <2>6, <2>9
<1>3. S \in P
  <2> HIDE DEF P
  <2> QED BY <1>1, <1>2, FiniteInduction
<1> QED BY <1>3

Group(S, key, k) == {x \in S : key[x] = k}

\* The members of S add up to g[k] in the group of each key k.
Grouped(g, K, f, S, key) ==
    /\ \A x \in S : f[x] \in Int /\ key[x] \in K
    /\ \A k \in K : g[k] = SumFunctionOnSet(f, Group(S, key, k))

\* A sum by groups: every member is in the group of its key, and of no other.
LEMMA SumGroup ==
    ASSUME NEW K, IsFiniteSet(K), NEW S, IsFiniteSet(S), NEW key, NEW f, NEW g,
           Grouped(g, K, f, S, key)
    PROVE  SumFunctionOnSet(g, K) = SumFunctionOnSet(f, S)
<1>0. /\ \A x \in S : f[x] \in Int /\ key[x] \in K
      /\ \A k \in K : g[k] = SumFunctionOnSet(f, Group(S, key, k))
  BY DEF Grouped
<1> DEFINE In(L) == {x \in S : key[x] \in L}
           Q(L) == SumFunctionOnSet(g, L) = SumFunctionOnSet(f, In(L))
           P == {L \in SUBSET K : Q(L)}
<1>1. {} \in P
  <2>1. In({}) = {}
    OBVIOUS
  <2> HIDE DEF In
  <2>2. Q({})
    BY <2>1, SumEmpty
  <2> HIDE DEF Q
  <2> QED BY <2>2
<1>2. ASSUME NEW L \in SUBSET K, NEW k \in K \ L, L \in P PROVE L \cup {k} \in P
  <2> DEFINE One == Group(S, key, k)
  <2>1. In(L \cup {k}) = In(L) \cup One /\ In(L) \cap One = {}
    BY DEF Group
  <2>2. IsFiniteSet(In(L)) /\ IsFiniteSet(One) /\ \A x \in In(L) \cup One : f[x] \in Int
    BY <1>0, FS_Subset DEF Group
  <2>3. IsFiniteSet(L)
    BY FS_Subset
  <2>4. \A j \in K : g[j] \in Int
    <3> SUFFICES ASSUME NEW j \in K PROVE SumFunctionOnSet(f, Group(S, key, j)) \in Int
      BY <1>0
    <3> DEFINE J == Group(S, key, j)
    <3>1. IsFiniteSet(J) /\ \A x \in J : f[x] \in Int
      BY <1>0, FS_Subset DEF Group
    <3> HIDE DEF J
    <3>2. SumFunctionOnSet(f, J) \in Int
      BY <3>1, SumInt
    <3> QED BY <3>2 DEF J
  <2>5. g[k] = SumFunctionOnSet(f, One)
    BY <1>0
  <2>6. SumFunctionOnSet(g, L \cup {k}) = g[k] + SumFunctionOnSet(g, L)
    BY <2>3, <2>4, SumInsert
  <2>7. Q(L)
    BY <1>2
  <2> HIDE DEF In, One
  <2>8. SumFunctionOnSet(f, In(L) \cup One) = SumFunctionOnSet(f, In(L)) + SumFunctionOnSet(f, One)
    BY <2>1, <2>2, SumUnion
  <2>9. SumFunctionOnSet(f, In(L)) \in Int /\ SumFunctionOnSet(f, One) \in Int
    BY <2>2, SumInt
  <2>10. SumFunctionOnSet(f, In(L \cup {k})) = SumFunctionOnSet(f, In(L)) + SumFunctionOnSet(f, One)
    BY <2>1, <2>8
  <2>12. Q(L \cup {k})
    BY ONLY <2>5, <2>6, <2>7, <2>9, <2>10
  <2> HIDE DEF Q
  <2>11. L \cup {k} \in SUBSET K
    OBVIOUS
  <2> QED BY <2>11, <2>12
<1>3. K \in P
  <2> HIDE DEF P
  <2> QED BY <1>1, <1>2, FiniteInduction
<1>4. In(K) = S /\ Q(K)
  BY <1>0, <1>3
<1> QED BY <1>4

\* The rows and the columns of a table f[s][k] add up to rows[s] and to columns[k].
Column(f, S, k) == [s \in S |-> f[s][k]]

Table(f, rows, S, columns, K) ==
    /\ \A s \in S : \A k \in K : f[s][k] \in Int
    /\ \A s \in S : rows[s] = SumFunctionOnSet(f[s], K)
    /\ \A k \in K : columns[k] = SumFunctionOnSet(Column(f, S, k), S)

\* Row by row or column by column, a table adds up to the same.
LEMMA SumSwap ==
    ASSUME NEW S, IsFiniteSet(S), NEW K, IsFiniteSet(K), NEW f, NEW rows, NEW columns,
           Table(f, rows, S, columns, K)
    PROVE  SumFunctionOnSet(columns, K) = SumFunctionOnSet(rows, S)
<1> USE DEF Table
<1> DEFINE Col(T) == [k \in K |-> SumFunctionOnSet(Column(f, S, k), T)]
           Q(T) == SumFunctionOnSet(Col(T), K) = SumFunctionOnSet(rows, T)
           P == {T \in SUBSET S : Q(T)}
<1>0. ASSUME NEW T \in SUBSET S PROVE IsFiniteSet(T) /\ \A k \in K : Col(T)[k] \in Int
  <2>1. IsFiniteSet(T)
    BY FS_Subset
  <2>2. ASSUME NEW k \in K PROVE SumFunctionOnSet(Column(f, S, k), T) \in Int
    <3> DEFINE c == Column(f, S, k)
    <3>1. \A s \in T : c[s] \in Int
      BY DEF Column
    <3> HIDE DEF c
    <3>2. SumFunctionOnSet(c, T) \in Int
      BY <3>1, <2>1, SumInt
    <3> QED BY <3>2 DEF c
  <2> QED BY <2>1, <2>2
<1>1. {} \in P
  <2>1. \A k \in K : Col({})[k] = 0
    BY SumEmpty
  <2> HIDE DEF Col
  <2>2. Q({})
    BY <2>1, SumEmpty, SumZero
  <2> HIDE DEF Q
  <2> QED BY <2>2
<1>2. ASSUME NEW T \in SUBSET S, NEW x \in S \ T, T \in P PROVE T \cup {x} \in P
  <2>1. T \cup {x} \in SUBSET S /\ x \in S
    OBVIOUS
  <2>2. ASSUME NEW k \in K PROVE Col(T \cup {x})[k] = f[x][k] + Col(T)[k]
    <3> DEFINE c == Column(f, S, k)
    <3>1. (\A s \in T \cup {x} : c[s] \in Int) /\ c[x] = f[x][k]
      BY DEF Column
    <3> HIDE DEF c
    <3>2. SumFunctionOnSet(c, T \cup {x}) = c[x] + SumFunctionOnSet(c, T)
      BY <3>1, <1>0, SumInsert
    <3> QED BY <3>1, <3>2 DEF c
  <2>3. \A s \in S : rows[s] \in Int
    <3> SUFFICES ASSUME NEW s \in S PROVE SumFunctionOnSet(f[s], K) \in Int
      OBVIOUS
    <3> QED BY SumInt
  <2>4. Q(T)
    BY <1>2
  <2> HIDE DEF Col
  <2>8. \A k \in K : f[x][k] \in Int /\ Col(T)[k] \in Int /\ Col(T \cup {x})[k] = f[x][k] + Col(T)[k]
    BY <1>0, <2>1, <2>2
  <2>5. SumFunctionOnSet(Col(T \cup {x}), K)
           = SumFunctionOnSet(f[x], K) + SumFunctionOnSet(Col(T), K)
    BY ONLY <2>8, IsFiniteSet(K), SumPlus
  <2>6. SumFunctionOnSet(rows, T \cup {x}) = rows[x] + SumFunctionOnSet(rows, T)
    BY <1>0, <2>1, <2>3, SumInsert
  <2>7. Q(T \cup {x})
    BY <2>1, <2>4, <2>5, <2>6
  <2> HIDE DEF Q
  <2> QED BY <2>1, <2>7
<1>3. S \in P
  <2> HIDE DEF P
  <2> QED BY <1>1, <1>2, FiniteInduction
<1>4. SumFunctionOnSet(Col(S), K) = SumFunctionOnSet(rows, S)
  BY <1>3
<1>5. SumFunctionOnSet(columns, K) = SumFunctionOnSet(Col(S), K)
  <2>1. \A k \in K : Col(S)[k] \in Int /\ Col(S)[k] = columns[k]
    BY <1>0
  <2> HIDE DEF Col
  <2> QED BY <2>1, SumSame
<1> QED BY <1>4, <1>5

-----------------------------------------------------------------------------
(* Least and greatest *)

LEMMA Ends ==
    ASSUME NEW S, S \subseteq Int, S # {}, IsFiniteSet(S)
    PROVE  /\ Min(S) \in S /\ Max(S) \in S
           /\ \A x \in S : Min(S) <= x /\ x <= Max(S)
<1> DEFINE Ended(T) == /\ \E n \in T : \A m \in T : n <= m
                       /\ \E n \in T : \A m \in T : n >= m
           P == {T \in SUBSET S : T # {} => Ended(T)}
<1>1. {} \in P
  OBVIOUS
<1>2. ASSUME NEW T \in SUBSET S, NEW x \in S \ T, T \in P PROVE T \cup {x} \in P
  <2>1. T \cup {x} \in SUBSET S /\ T \subseteq Int /\ x \in Int
    OBVIOUS
  <2>2. CASE T = {}
    <3>1. Ended({x})
      BY <2>1
    <3>2. T \cup {x} = {x}
      BY <2>2
    <3> QED BY <2>1, <3>1, <3>2
  <2>3. CASE T # {}
    <3>1. PICK n \in T : \A m \in T : n <= m
      BY <1>2, <2>3
    <3>2. PICK o \in T : \A m \in T : o >= m
      BY <1>2, <2>3
    <3>3. \E k \in T \cup {x} : \A m \in T \cup {x} : k <= m
      <4>1. CASE n <= x
        BY <4>1, <3>1
      <4>2. CASE ~(n <= x)
        BY <4>2, <3>1, <2>1
      <4> QED BY <4>1, <4>2
    <3>4. \E k \in T \cup {x} : \A m \in T \cup {x} : k >= m
      <4>1. CASE o >= x
        BY <4>1, <3>2
      <4>2. CASE ~(o >= x)
        BY <4>2, <3>2, <2>1
      <4> QED BY <4>1, <4>2
    <3>5. Ended(T \cup {x})
      BY <3>3, <3>4
    <3> HIDE DEF Ended
    <3> QED BY <2>1, <3>5
  <2> QED BY <2>2, <2>3
<1>3. S \in P
  <2> HIDE DEF P
  <2> QED BY <1>1, <1>2, FiniteInduction
<1>4. (\E n \in S : \A m \in S : n <= m) /\ \E n \in S : \A m \in S : n >= m
  BY <1>3
<1> QED BY <1>4 DEF Min, Max

-----------------------------------------------------------------------------
(* Recursion on numbers *)

\* What holds of 0, and of i + 1 when of i, holds up to n.  P is the set of what it holds of.
LEMMA CountUp ==
    ASSUME NEW n \in Nat, NEW P, 0 \in P, \A i \in 0 .. n - 1 : i \in P => i + 1 \in P
    PROVE  \A i \in 0 .. n : i \in P
<1> DEFINE Bad == {i \in 0 .. n : i \notin P}
<1> SUFFICES ASSUME Bad # {} PROVE FALSE
  OBVIOUS
<1>1. PICK m \in Bad : \A i \in Bad : m <= i
  <2>1. Bad \subseteq Nat
    OBVIOUS
  <2> HIDE DEF Bad
  <2> QED BY <2>1, LeastOf
<1>2. m # 0 /\ m \in 0 .. n /\ m \notin P
  OBVIOUS
<1>3. m - 1 \in 0 .. n - 1 /\ ~(m <= m - 1) /\ (m - 1) + 1 = m /\ m - 1 \in 0 .. n
  BY <1>2
<1>4. m - 1 \notin Bad
  BY <1>1, <1>3
<1> QED BY <1>2, <1>3, <1>4

Recursion(h, n, a, G) == h = [i \in 0 .. n |-> IF i = 0 THEN a ELSE G[<<i, h[i - 1]>>]]

\* A recursion on numbers, one step of which keeps to A, has a solution.
LEMMA RecursionExists ==
    ASSUME NEW n \in Nat, NEW A, NEW a \in A, NEW G, \A i \in 1 .. n : \A x \in A : G[<<i, x>>] \in A
    PROVE  \E h \in [0 .. n -> A] : Recursion(h, n, a, G)
<1> DEFINE Upto(h, m) == h[0] = a /\ \A i \in 1 .. m : h[i] = G[<<i, h[i - 1]>>]
           P == {m \in 0 .. n : \E h \in [0 .. n -> A] : Upto(h, m)}
<1>1. 0 \in P
  <2>1. [i \in 0 .. n |-> a] \in [0 .. n -> A] /\ Upto([i \in 0 .. n |-> a], 0)
    OBVIOUS
  <2> HIDE DEF Upto
  <2> QED BY <2>1
<1>2. ASSUME NEW m \in 0 .. n - 1, m \in P PROVE m + 1 \in P
  <2>1. PICK h \in [0 .. n -> A] : Upto(h, m)
    BY <1>2
  <2> DEFINE k == [h EXCEPT ![m + 1] = G[<<m + 1, h[m]>>]]
  <2>2. m + 1 \in 1 .. n /\ m \in 0 .. n /\ m + 1 \in 0 .. n /\ m \in Int
    OBVIOUS
  <2>3. k \in [0 .. n -> A]
    <3>1. G[<<m + 1, h[m]>>] \in A
      BY <2>2
    <3> QED BY <3>1
  <2>4. k[0] = a
    BY <2>1
  <2>5. ASSUME NEW i \in 1 .. m + 1 PROVE k[i] = G[<<i, k[i - 1]>>]
    <3>1. i \in 0 .. n /\ i - 1 \in 0 .. n /\ i - 1 # m + 1 /\ k[i - 1] = h[i - 1]
      OBVIOUS
    <3>2. CASE i = m + 1
      <4>1. k[i] = G[<<m + 1, h[m]>>] /\ i - 1 = m
        BY <3>1, <3>2
      <4> HIDE DEF k
      <4> QED BY <4>1, <3>1, <3>2
    <3>3. CASE i # m + 1
      <4>1. i \in 1 .. m /\ k[i] = h[i]
        BY <3>1, <3>3
      <4> HIDE DEF k
      <4> QED BY <4>1, <3>1, <2>1
    <3> QED BY <3>2, <3>3
  <2> HIDE DEF k
  <2>6. Upto(k, m + 1)
    BY <2>4, <2>5
  <2> HIDE DEF Upto
  <2> QED BY <2>2, <2>3, <2>6
<1>3. n \in P
  <2> HIDE DEF P
  <2>1. \A i \in 0 .. n : i \in P
    BY <1>1, <1>2, CountUp
  <2> QED BY <2>1
<1>4. PICK h \in [0 .. n -> A] : Upto(h, n)
  BY <1>3
<1>5. h = [i \in 0 .. n |-> IF i = 0 THEN a ELSE G[<<i, h[i - 1]>>]]
  BY <1>4
<1> QED BY <1>5 DEF Recursion

-----------------------------------------------------------------------------
(* FlattenSeq *)

Flattens(h, s) ==
    h = [i \in 1 .. Len(s) |-> IF i = 1 THEN s[i] ELSE h[i - 1] \o s[i]]

LEMMA FlattenIs ==
    ASSUME NEW s, Len(s) # 0 PROVE FlattenSeq(s) = (CHOOSE h : Flattens(h, s))[Len(s)]
BY DEF FlattenSeq, Flattens

\* FlattenSeq has the entries of all sequences of s, each once, those of an earlier sequence
\* first: entry i is number c[i] of sequence b[i].
Layout(b, c, p, s) ==
    /\ \A i \in 1 .. Len(p) : /\ b[i] \in 1 .. Len(s) /\ c[i] \in 1 .. Len(s[b[i]])
                              /\ p[i] = s[b[i]][c[i]]
    /\ \A i, j \in 1 .. Len(p) : i < j => b[i] < b[j] \/ (b[i] = b[j] /\ c[i] < c[j])
    /\ \A x \in 1 .. Len(s) : \A y \in 1 .. Len(s[x]) : \E i \in 1 .. Len(p) : b[i] = x /\ c[i] = y

LEMMA LayoutMore ==
    ASSUME NEW T, NEW s \in Seq(Seq(T)), NEW t \in Seq(T), NEW p \in Seq(T), NEW b, NEW c,
           Layout(b, c, p, s)
    PROVE  \E e, d : Layout(e, d, p \o t, Append(s, t))
<1>1. PICK m \in Nat, n \in Nat, l \in Nat : m = Len(p) /\ n = Len(s) /\ l = Len(t)
  OBVIOUS
<1> DEFINE q == p \o t
           r == Append(s, t)
           e == [i \in 1 .. m + l |-> IF i <= m THEN b[i] ELSE n + 1]
           d == [i \in 1 .. m + l |-> IF i <= m THEN c[i] ELSE i - m]
<1>2. /\ Len(q) = m + l /\ Len(r) = n + 1
      /\ \A i \in 1 .. m : q[i] = p[i] /\ i \in 1 .. m + l
      /\ \A i \in 1 .. l : q[m + i] = t[i]
      /\ \A x \in 1 .. n : r[x] = s[x] /\ Len(r[x]) = Len(s[x]) /\ Len(s[x]) \in Nat
      /\ r[n + 1] = t
  BY <1>1
<1>3. /\ \A i \in 1 .. m : e[i] = b[i] /\ d[i] = c[i] /\ b[i] \in 1 .. n /\ c[i] \in 1 .. Len(s[b[i]])
                           /\ p[i] = s[b[i]][c[i]] /\ c[i] \in Int
      /\ \A i \in 1 .. m + l : i \in 1 .. m \/ (~(i <= m) /\ i - m \in 1 .. l /\ m + (i - m) = i)
      /\ \A i \in 1 .. m + l : ~(i <= m) => e[i] = n + 1 /\ d[i] = i - m
  <2>1. \A i \in 1 .. m : b[i] \in 1 .. n /\ c[i] \in 1 .. Len(s[b[i]]) /\ p[i] = s[b[i]][c[i]]
    BY <1>1 DEF Layout
  <2>2. \A i \in 1 .. m : c[i] \in Int
    <3> SUFFICES ASSUME NEW i \in 1 .. m PROVE c[i] \in Int
      OBVIOUS
    <3>1. c[i] \in 1 .. Len(s[b[i]])
      BY <2>1
    <3> QED BY <3>1
  <2> QED BY <1>1, <2>1, <2>2
<1> HIDE DEF q, r, e, d
<1>4. ASSUME NEW i \in 1 .. m + l
      PROVE  e[i] \in 1 .. n + 1 /\ d[i] \in 1 .. Len(r[e[i]]) /\ q[i] = r[e[i]][d[i]]
  <2>1. CASE i \in 1 .. m
    <3>1. /\ e[i] = b[i] /\ d[i] = c[i] /\ b[i] \in 1 .. n /\ c[i] \in 1 .. Len(s[b[i]])
          /\ p[i] = s[b[i]][c[i]]
      BY <1>3, <2>1
    <3>2. r[b[i]] = s[b[i]] /\ q[i] = p[i]
      BY <1>2, <2>1, <3>1
    <3>3. b[i] \in 1 .. n + 1
      BY <3>1
    <3> QED BY <3>1, <3>2, <3>3
  <2>2. CASE ~(i <= m)
    <3>1. e[i] = n + 1 /\ d[i] = i - m /\ i - m \in 1 .. l /\ m + (i - m) = i
      BY <1>3, <2>2
    <3>3. q[m + (i - m)] = t[i - m]
      BY <1>2, <3>1
    <3>2. q[i] = t[i - m] /\ n + 1 \in 1 .. n + 1
      BY <3>1, <3>3
    <3>4. r[e[i]] = t /\ Len(r[e[i]]) = l
      BY <1>1, <1>2, <3>1
    <3> QED BY <3>1, <3>2, <3>4
  <2>3. i \in 1 .. m \/ ~(i <= m)
    BY <1>3
  <2> QED BY <2>1, <2>2, <2>3
<1>5. ASSUME NEW i \in 1 .. m + l, NEW j \in 1 .. m + l, i < j
      PROVE  e[i] < e[j] \/ (e[i] = e[j] /\ d[i] < d[j])
  <2>1. CASE i \in 1 .. m /\ j \in 1 .. m
    <3>1. b[i] < b[j] \/ (b[i] = b[j] /\ c[i] < c[j])
      BY <1>1, <1>5, <2>1 DEF Layout
    <3> QED BY <1>3, <2>1, <3>1
  <2>2. CASE i \in 1 .. m /\ ~(j <= m)
    <3>1. e[i] \in 1 .. n /\ e[j] = n + 1
      BY <1>3, <2>2
    <3> QED BY <3>1
  <2>3. CASE ~(i <= m)
    <3>1. ~(j <= m) /\ e[i] = n + 1 /\ e[j] = n + 1 /\ d[i] = i - m /\ d[j] = j - m
      BY <1>3, <1>5, <2>3
    <3> QED BY <3>1, <1>5
  <2> QED BY <1>3, <2>1, <2>2, <2>3
<1>6. ASSUME NEW x \in 1 .. n + 1, NEW y \in 1 .. Len(r[x])
      PROVE  \E i \in 1 .. m + l : e[i] = x /\ d[i] = y
  <2>1. CASE x = n + 1
    <3>1. y \in 1 .. l /\ m + y \in 1 .. m + l /\ ~(m + y <= m) /\ (m + y) - m = y
      BY <1>1, <1>2, <2>1
    <3> QED BY <1>3, <2>1, <3>1
  <2>2. CASE x # n + 1
    <3>1. x \in 1 .. n /\ y \in 1 .. Len(s[x])
      BY <1>2, <2>2
    <3>2. PICK i \in 1 .. m : b[i] = x /\ c[i] = y
      BY <1>1, <3>1 DEF Layout
    <3> QED BY <1>2, <1>3, <3>2
  <2> QED BY <2>1, <2>2
<1>7. Layout(e, d, q, r)
  BY <1>2, <1>4, <1>5, <1>6 DEF Layout
<1> QED BY <1>7 DEF q, r

LEMMA FlattenInOrder ==
    ASSUME NEW T, NEW s \in Seq(Seq(T)), s # <<>>
    PROVE  FlattenSeq(s) \in Seq(T) /\ \E b, c : Layout(b, c, FlattenSeq(s), s)
<1>1. PICK n \in Nat : n = Len(s) /\ n # 0 /\ \A i \in 1 .. n : s[i] \in Seq(T)
  OBVIOUS
<1>2. PICK h : Flattens(h, s) /\ \A i \in 1 .. n : h[i] \in Seq(T)
  <2> DEFINE A == Seq(T)
             start == <<>>
             G == [x \in (1 .. n) \X A |-> x[2] \o s[x[1]]]
  <2>1. \A i \in 1 .. n : \A x \in A : G[<<i, x>>] = x \o s[i]
    OBVIOUS
  <2>2. start \in A /\ \A i \in 1 .. n : \A x \in A : x \o s[i] \in A
    BY <1>1
  <2>3. \A i \in 1 .. n : \A x \in A : G[<<i, x>>] \in A
    <3> HIDE DEF G, A
    <3> QED BY <2>1, <2>2
  <2> HIDE DEF G
  <2>4. PICK k \in [0 .. n -> A] : Recursion(k, n, start, G)
    <3> HIDE DEF A, start
    <3> QED BY <2>2, <2>3, RecursionExists
  <2> DEFINE g == [i \in 1 .. n |-> k[i]]
  <2>5. \A i \in 1 .. n : i \in 0 .. n /\ i # 0 /\ i - 1 \in 0 .. n /\ (i # 1 => i - 1 \in 1 .. n)
    OBVIOUS
  <2>6. \A i \in 1 .. n : k[i] = k[i - 1] \o s[i]
    <3> HIDE DEF A
    <3>1. \A i \in 0 .. n : k[i] = IF i = 0 THEN start ELSE G[<<i, k[i - 1]>>]
      BY <2>4 DEF Recursion
    <3>2. \A i \in 0 .. n : k[i] \in A
      OBVIOUS
    <3> HIDE DEF start
    <3> QED BY <2>1, <2>5, <3>1, <3>2
  <2>7. k[0] = <<>>
    BY <2>4 DEF Recursion
  <2>8. ASSUME NEW i \in 1 .. n PROVE g[i] = IF i = 1 THEN s[i] ELSE g[i - 1] \o s[i]
    <3>1. CASE i = 1
      <4>1. k[i] = k[i - 1] \o s[i] /\ i - 1 = 0 /\ s[i] \in Seq(T)
        <5>1. k[i] = k[i - 1] \o s[i] /\ s[i] \in Seq(T)
          BY <1>1, <2>6
        <5> QED BY <3>1, <5>1
      <4>2. k[i] = <<>> \o s[i]
        BY <2>7, <4>1
      <4>3. <<>> \o s[i] = s[i]
        BY <4>1
      <4> QED BY <3>1, <4>2, <4>3
    <3>2. CASE i # 1
      BY <2>5, <2>6, <3>2
    <3> QED BY <3>1, <3>2
  <2> HIDE DEF A
  <2>9. g = [i \in 1 .. n |-> IF i = 1 THEN s[i] ELSE g[i - 1] \o s[i]]
    <3>1. \A i \in 1 .. n : g[i] = [j \in 1 .. n |-> IF j = 1 THEN s[j] ELSE g[j - 1] \o s[j]][i]
      BY <2>8
    <3> QED BY <3>1
  <2>10. Flattens(g, s)
    BY <1>1, <2>9 DEF Flattens
  <2>11. \A i \in 1 .. n : g[i] \in Seq(T)
    BY <2>5 DEF A
  <2> QED BY <2>10, <2>11
<1>3. PICK f : Flattens(f, s) /\ FlattenSeq(s) = f[n]
  BY <1>1, <1>2, FlattenIs
<1>4. \A i \in 1 .. n : f[i] = IF i = 1 THEN s[i] ELSE f[i - 1] \o s[i]
  BY <1>1, <1>3 DEF Flattens
<1> DEFINE F(i) == IF i = 0 THEN <<>> ELSE f[i]
           Prefix(i) == F(i) \in Seq(T) /\ \E b, c : Layout(b, c, F(i), SubSeq(s, 1, i))
           P == {i \in 0 .. n : Prefix(i)}
<1>5. ASSUME NEW i \in 0 .. n - 1, i \in P PROVE i + 1 \in P
  <2>1. /\ i \in Nat /\ i + 1 \in 1 .. n /\ i + 1 \in 0 .. n /\ i + 1 # 0 /\ s[i + 1] \in Seq(T)
        /\ (i + 1) - 1 = i
    BY <1>1
  <2>2. /\ SubSeq(s, 1, i) \in Seq(Seq(T))
        /\ SubSeq(s, 1, i + 1) = Append(SubSeq(s, 1, i), s[i + 1])
    <3>1. i + 1 \in 1 .. Len(s)
      BY <1>1, <2>1
    <3> QED BY <2>1, <3>1
  <2>3. F(i + 1) = F(i) \o s[i + 1]
    <3>1. f[i + 1] = IF i + 1 = 1 THEN s[i + 1] ELSE f[(i + 1) - 1] \o s[i + 1]
      BY <1>4, <2>1
    <3>2. <<>> \o s[i + 1] = s[i + 1]
      BY <2>1
    <3>3. CASE i = 0
      BY <2>1, <3>1, <3>2, <3>3
    <3>4. CASE i # 0
      <4>1. i + 1 # 1
        BY <2>1, <3>4
      <4> QED BY <2>1, <3>1, <3>4, <4>1
    <3> QED BY <3>3, <3>4
  <2>4. PICK b, c : F(i) \in Seq(T) /\ Layout(b, c, F(i), SubSeq(s, 1, i))
    BY <1>5
  <2> DEFINE u == SubSeq(s, 1, i)
             v == SubSeq(s, 1, i + 1)
             p == F(i)
             t == s[i + 1]
  <2>5. u \in Seq(Seq(T)) /\ t \in Seq(T) /\ p \in Seq(T) /\ Layout(b, c, p, u) /\ v = Append(u, t)
    BY <2>1, <2>2, <2>4
  <2>6. p \o t \in Seq(T) /\ \E x, y : Layout(x, y, p \o t, v)
    <3> HIDE DEF u, v, p, t
    <3> QED BY <2>5, LayoutMore
  <2>7. Prefix(i + 1)
    BY <2>3, <2>6
  <2> HIDE DEF Prefix
  <2> QED BY <2>1, <2>7
<1>6. 0 \in P
  <2>1. SubSeq(s, 1, 0) = <<>> /\ Layout(<<>>, <<>>, <<>>, <<>>)
    BY DEF Layout
  <2>2. <<>> \in Seq(T) /\ F(0) = <<>>
    OBVIOUS
  <2>3. \E b, c : Layout(b, c, <<>>, <<>>)
    BY <2>1
  <2>4. \E b, c : Layout(b, c, F(0), SubSeq(s, 1, 0))
    BY <2>1, <2>2, <2>3, Zenon
  <2>5. Prefix(0)
    BY <2>2, <2>4, Zenon
  <2> HIDE DEF Prefix
  <2> QED BY <1>1, <2>5
<1>7. n \in P
  <2> HIDE DEF P
  <2>1. \A i \in 0 .. n : i \in P
    BY <1>1, <1>5, <1>6, CountUp
  <2> QED BY <1>1, <2>1
<1>8. SubSeq(s, 1, n) = s
  BY <1>1
<1>9. Prefix(n) /\ F(n) = f[n]
  BY <1>1, <1>7
<1> QED BY <1>3, <1>8, <1>9

=============================================================================
