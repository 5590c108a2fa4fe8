-------------------------------- MODULE Sums --------------------------------
(***************************************************************************)
(* What the other proof modules need of induction and of sums. The         *)
(* induction principles are stated with a set in place of a predicate.     *)
(***************************************************************************)
EXTENDS Integers, FiniteSets, Sequences, FiniteSetsExt, FiniteSetTheorems,
        WellFoundedInduction, TLAPS

\* A set of naturals that is not empty has a least element.
LEMMA LeastNatural ==
    ASSUME NEW T, T \subseteq Nat, T # {}
    PROVE  \E n \in T : \A m \in T : n <= m
<1> DEFINE R == {ss \in Nat \X Nat : ss[1] < ss[2]}
<1>1. IsWellFoundedOn(R, Nat)
  BY NatLessThanWellFounded DEF OpToRel
<1>2. ASSUME NEW m \in Nat, NEW n \in Nat, <<m, n>> \notin R
      PROVE  n <= m
  <2>1. ~(m < n) BY <1>2
  <2> QED BY <2>1
<1> HIDE DEF R
<1>3. PICK n \in T : \A m \in T : ~ (<<m, n>> \in R)
  BY <1>1, WFMin
<1>4. ASSUME NEW m \in T PROVE n <= m
  <2>1. <<m, n>> \notin R BY <1>3
  <2> QED BY <2>1, <1>2
<1> QED BY <1>4

\* Induction on the naturals.
LEMMA NaturalInduction ==
    ASSUME NEW T, 0 \in T, \A n \in Nat : n \in T => n + 1 \in T
    PROVE  \A n \in Nat : n \in T
<1> SUFFICES ASSUME Nat \ T # {} PROVE FALSE
  OBVIOUS
<1>1. PICK n \in Nat \ T : \A m \in Nat \ T : n <= m
  BY LeastNatural
<1>2. n # 0
  OBVIOUS
<1>3. n - 1 \in Nat /\ ~(n <= n - 1)
  BY <1>2
<1>4. n - 1 \in T
  BY <1>1, <1>3
<1> QED BY <1>3, <1>4

\* Induction on the finite sets, from all smaller ones to a set.
LEMMA SubsetInduction ==
    ASSUME NEW S, IsFiniteSet(S), NEW C,
           \A s \in SUBSET S : (\A t \in SUBSET s : t # s => t \in C) => s \in C
    PROVE  \A s \in SUBSET S : s \in C
<1> SUFFICES ASSUME (SUBSET S) \ C # {} PROVE FALSE
  OBVIOUS
<1> DEFINE N == {Cardinality(s) : s \in (SUBSET S) \ C}
<1>1. \A s \in SUBSET S : IsFiniteSet(s) /\ Cardinality(s) \in Nat
  BY FS_Subset, FS_CardinalityType
<1>2. N \subseteq Nat /\ N # {}
  BY <1>1
<1>3. PICK n \in N : \A m \in N : n <= m
  BY <1>2, LeastNatural
<1>4. PICK s \in (SUBSET S) \ C : n = Cardinality(s)
  BY <1>3
<1>5. ASSUME NEW t \in SUBSET s, t # s
      PROVE  t \in C
  <2>1. Cardinality(t) < Cardinality(s)
    BY <1>1, <1>5, FS_Subset
  <2>2. Cardinality(t) \in Nat /\ Cardinality(s) \in Nat /\ t \in SUBSET S
    BY <1>1
  <2>3. t \notin C => Cardinality(t) \in N
    BY <2>2
  <2>4. t \notin C => Cardinality(s) <= Cardinality(t)
    BY <1>3, <1>4, <2>3
  <2> QED BY <2>1, <2>2, <2>4
<1> QED BY <1>5

-----------------------------------------------------------------------------
(* Sums over finite sets *)

SumOf(w, S) == MapThenSumSet(LAMBDA x : w[x], S)

Some(s) == CHOOSE x \in s : TRUE

\* h is the function that the fold evaluates, for the sets in D.
IsSum(h, w, D) ==
    h = [s \in D |-> IF s = {} THEN 0 ELSE w[Some(s)] + h[s \ {Some(s)}]]

LEMMA SomeIsIn ==
    ASSUME NEW s, s # {}
    PROVE  Some(s) \in s
BY DEF Some

\* The fold is the value at S of any such function.
LEMMA SumUnfold ==
    ASSUME NEW w, NEW S
    PROVE  SumOf(w, S) = (CHOOSE h : IsSum(h, w, SUBSET S))[S]
BY DEF SumOf, MapThenSumSet, MapThenFoldSet, IsSum, Some

\* There is such a function.
LEMMA SumExists ==
    ASSUME NEW w, NEW S, IsFiniteSet(S)
    PROVE  \E h : IsSum(h, w, SUBSET S)
<1> DEFINE D(n) == {s \in SUBSET S : Cardinality(s) <= n}
           T == {n \in Nat : \E h : IsSum(h, w, D(n))}
<1>1. \A s \in SUBSET S : IsFiniteSet(s) /\ Cardinality(s) \in Nat
  BY FS_Subset, FS_CardinalityType
<1>2. 0 \in T
  <2> DEFINE h == [s \in D(0) |-> 0]
  <2>1. \A s \in D(0) : s = {}
    BY <1>1, FS_EmptySet
  <2>2. IsSum(h, w, D(0))
    BY <2>1 DEF IsSum
  <2> QED BY <2>2
<1>3. ASSUME NEW n \in Nat, n \in T
      PROVE  n + 1 \in T
  <2>1. PICK h : IsSum(h, w, D(n))
    BY <1>3
  <2> DEFINE g == [s \in D(n + 1) |->
                     IF s = {} THEN 0 ELSE w[Some(s)] + h[s \ {Some(s)}]]
  <2>2. ASSUME NEW s \in D(n + 1), s # {}
        PROVE  /\ s \ {Some(s)} \in D(n)
               /\ s \ {Some(s)} \in D(n + 1)
    <3>1. Cardinality(s \ {Some(s)}) = Cardinality(s) - 1
      BY <1>1, <2>2, SomeIsIn, FS_RemoveElement
    <3>2. Cardinality(s) <= n + 1 /\ s \ {Some(s)} \in SUBSET S
      OBVIOUS
    <3> QED BY <1>1, <3>1, <3>2
  <2>3. D(n) \subseteq D(n + 1)
    BY <1>1
  <2>4. ASSUME NEW s \in D(n)
        PROVE  g[s] = h[s]
    <3>1. h[s] = IF s = {} THEN 0 ELSE w[Some(s)] + h[s \ {Some(s)}]
      BY <2>1, <2>4 DEF IsSum
    <3> QED BY <3>1, <2>3, <2>4
  <2>5. ASSUME NEW s \in D(n + 1)
        PROVE  (IF s = {} THEN 0 ELSE w[Some(s)] + h[s \ {Some(s)}])
             = (IF s = {} THEN 0 ELSE w[Some(s)] + g[s \ {Some(s)}])
    <3> HIDE DEF g, D
    <3> QED BY <2>2, <2>4
  <2>6. IsSum(g, w, D(n + 1))
    <3>1. g = [s \in D(n + 1) |->
                 IF s = {} THEN 0 ELSE w[Some(s)] + g[s \ {Some(s)}]]
      <4> DEFINE a(s) == IF s = {} THEN 0 ELSE w[Some(s)] + h[s \ {Some(s)}]
                 b(s) == IF s = {} THEN 0 ELSE w[Some(s)] + g[s \ {Some(s)}]
      <4>1. \A s \in D(n + 1) : a(s) = b(s)
        BY <2>5
      <4>2. g = [s \in D(n + 1) |-> a(s)]
        OBVIOUS
      <4> HIDE DEF a, b, g, D
      <4>3. g = [s \in D(n + 1) |-> b(s)]
        BY <4>1, <4>2
      <4> QED BY <4>3 DEF b
    <3> QED BY <3>1 DEF IsSum
  <2> HIDE DEF D, g
  <2> QED BY <2>6
<1>4. Cardinality(S) \in T
  <2> HIDE DEF T
  <2>1. \A n \in Nat : n \in T
    BY <1>2, <1>3, NaturalInduction
  <2> QED BY <1>1, <2>1
<1>5. D(Cardinality(S)) = SUBSET S
  BY <1>1, FS_Subset
<1> QED BY <1>4, <1>5

\* The value at s does not depend on the set the function is made for.
LEMMA SumUnique ==
    ASSUME NEW w, NEW S, NEW s, NEW g, NEW h,
           IsFiniteSet(S), s \subseteq S,
           IsSum(g, w, SUBSET S), IsSum(h, w, SUBSET s)
    PROVE  g[s] = h[s]
<1> DEFINE C == {t \in SUBSET s : g[t] = h[t]}
<1>1. ASSUME NEW t \in SUBSET s, \A r \in SUBSET t : r # t => r \in C
      PROVE  t \in C
  <2>1. g[t] = IF t = {} THEN 0 ELSE w[Some(t)] + g[t \ {Some(t)}]
    BY DEF IsSum
  <2>2. h[t] = IF t = {} THEN 0 ELSE w[Some(t)] + h[t \ {Some(t)}]
    BY DEF IsSum
  <2>3. t # {} => g[t \ {Some(t)}] = h[t \ {Some(t)}]
    BY <1>1, SomeIsIn
  <2> QED BY <2>1, <2>2, <2>3
<1>2. IsFiniteSet(s)
  BY FS_Subset
<1> HIDE DEF C
<1>3. s \in C
  BY <1>1, <1>2, SubsetInduction
<1> QED BY <1>3 DEF C

LEMMA SumValue ==
    ASSUME NEW w, NEW S, IsFiniteSet(S)
    PROVE  \E h : IsSum(h, w, SUBSET S) /\ SumOf(w, S) = h[S]
<1> DEFINE g == CHOOSE h : IsSum(h, w, SUBSET S)
<1>1. IsSum(g, w, SUBSET S) /\ SumOf(w, S) = g[S]
  BY SumExists, SumUnfold
<1> QED BY <1>1

LEMMA SumStep ==
    ASSUME NEW w, NEW S, IsFiniteSet(S)
    PROVE  SumOf(w, S) = IF S = {} THEN 0
                         ELSE w[Some(S)] + SumOf(w, S \ {Some(S)})
<1> DEFINE r == S \ {Some(S)}
<1>1. IsFiniteSet(r) /\ r \in SUBSET S
  BY FS_Subset
<1>2. PICK g : IsSum(g, w, SUBSET S) /\ SumOf(w, S) = g[S]
  BY SumValue
<1>3. SumOf(w, S) = IF S = {} THEN 0 ELSE w[Some(S)] + g[r]
  BY <1>2 DEF IsSum
<1> HIDE DEF r
<1>4. PICK k : IsSum(k, w, SUBSET r) /\ SumOf(w, r) = k[r]
  BY <1>1, SumValue
<1>5. g[r] = k[r]
  <2>1. IsSum(g, w, SUBSET S)
    BY <1>2
  <2>2. IsSum(k, w, SUBSET r)
    BY <1>4
  <2>3. r \subseteq S
    BY <1>1
  <2> QED BY <2>1, <2>2, <2>3, SumUnique
<1>6. SumOf(w, S) = IF S = {} THEN 0 ELSE w[Some(S)] + SumOf(w, r)
  BY <1>3, <1>4, <1>5
<1> QED BY <1>6 DEF r

\* A sum of integers is one, and of naturals a natural.
LEMMA SumType ==
    ASSUME NEW w, NEW S, IsFiniteSet(S), \A x \in S : w[x] \in Int
    PROVE  /\ SumOf(w, S) \in Int
           /\ (\A x \in S : w[x] \in Nat) => SumOf(w, S) \in Nat
<1> DEFINE C == {s \in SUBSET S :
                   /\ SumOf(w, s) \in Int
                   /\ (\A x \in S : w[x] \in Nat) => SumOf(w, s) \in Nat}
<1>1. ASSUME NEW s \in SUBSET S, \A t \in SUBSET s : t # s => t \in C
      PROVE  s \in C
  <2>1. IsFiniteSet(s)
    BY FS_Subset
  <2>2. CASE s = {}
    <3>1. SumOf(w, s) = 0
      BY <2>1, <2>2, SumStep
    <3> QED BY <3>1
  <2>3. CASE s # {}
    <3>1. Some(s) \in s
      BY <2>3, SomeIsIn
    <3>2. s \ {Some(s)} \in C
      BY <1>1, <3>1
    <3>3. SumOf(w, s) = w[Some(s)] + SumOf(w, s \ {Some(s)})
      BY <2>1, <2>3, SumStep
    <3>4. w[Some(s)] \in Int
      BY <3>1
    <3> QED BY <3>1, <3>2, <3>3, <3>4
  <2> QED BY <2>2, <2>3
<1> HIDE DEF C
<1>2. S \in C
  BY <1>1, SubsetInduction
<1> QED BY <1>2 DEF C

LEMMA SumEmpty == ASSUME NEW w PROVE SumOf(w, {}) = 0
BY SumStep, FS_EmptySet

\* Whichever element is taken out, the sum of the others and it make the sum.
LEMMA SumAdd ==
    ASSUME NEW w, NEW S, IsFiniteSet(S), NEW u, u \notin S,
           \A x \in S \cup {u} : w[x] \in Int
    PROVE  SumOf(w, S \cup {u}) = SumOf(w, S) + w[u]
<1> DEFINE U == S \cup {u}
           C == {s \in SUBSET U :
                   \A x \in U \ s : SumOf(w, s \cup {x}) = SumOf(w, s) + w[x]}
<1>1. IsFiniteSet(U)
  BY FS_AddElement
<1>2. ASSUME NEW s \in SUBSET U, IsFiniteSet(s)
      PROVE  SumOf(w, s) \in Int
  BY <1>2, SumType
<1>3. ASSUME NEW s \in SUBSET U, \A t \in SUBSET s : t # s => t \in C
      PROVE  s \in C
  <2> SUFFICES ASSUME NEW x \in U \ s
               PROVE  SumOf(w, s \cup {x}) = SumOf(w, s) + w[x]
    OBVIOUS
  <2> DEFINE T == s \cup {x}
             y == Some(T)
  <2>1. IsFiniteSet(s) /\ IsFiniteSet(T)
    BY <1>1, FS_Subset
  <2>2. SumOf(w, T) = w[y] + SumOf(w, T \ {y}) /\ y \in T
    BY <2>1, SumStep, SomeIsIn
  <2>3. w[x] \in Int /\ SumOf(w, s) \in Int /\ w[y] \in Int
    BY <1>2, <2>1, <2>2
  <2>4. CASE y = x
    <3>1. T \ {y} = s
      BY <2>4
    <3>2. SumOf(w, T) = w[x] + SumOf(w, s)
      BY <2>2, <2>4, <3>1
    <3> QED BY <2>3, <3>2
  <2>5. CASE y # x
    <3> DEFINE t == s \ {y}
    <3>1. y \in s /\ t \in C
      BY <1>3, <2>2, <2>5
    <3>2. SumOf(w, t \cup {x}) = SumOf(w, t) + w[x]
      BY <3>1
    <3>3. SumOf(w, t \cup {y}) = SumOf(w, t) + w[y]
      BY <3>1
    <3>4. T \ {y} = t \cup {x} /\ s = t \cup {y}
      BY <2>5, <3>1
    <3>5. SumOf(w, t) \in Int
      <4>1. IsFiniteSet(t) BY <2>1, FS_Subset
      <4> QED BY <1>2, <4>1
    <3>6. SumOf(w, T) = w[y] + (SumOf(w, t) + w[x])
      BY <2>2, <3>2, <3>4
    <3>7. SumOf(w, s) = SumOf(w, t) + w[y]
      BY <3>3, <3>4
    <3> HIDE DEF t, y
    <3> QED BY <2>3, <3>5, <3>6, <3>7
  <2> QED BY <2>4, <2>5
<1> HIDE DEF C
<1>4. S \in C
  BY <1>1, <1>3, SubsetInduction
<1> QED BY <1>4 DEF C

\* The sum over a set is that over a part and that over the rest.
LEMMA SumSplit ==
    ASSUME NEW w, NEW S, IsFiniteSet(S), \A x \in S : w[x] \in Int, NEW s \in SUBSET S
    PROVE  SumOf(w, S) = SumOf(w, s) + SumOf(w, S \ s)
<1> DEFINE C == {t \in SUBSET S : SumOf(w, S) = SumOf(w, t) + SumOf(w, S \ t)}
<1>1. \A t \in SUBSET S :
        IsFiniteSet(t) /\ IsFiniteSet(S \ t) /\ SumOf(w, t) \in Int
        /\ SumOf(w, S \ t) \in Int
  <2> SUFFICES ASSUME NEW t \in SUBSET S
               PROVE  /\ IsFiniteSet(t) /\ IsFiniteSet(S \ t)
                      /\ SumOf(w, t) \in Int /\ SumOf(w, S \ t) \in Int
    OBVIOUS
  <2>1. IsFiniteSet(t) /\ IsFiniteSet(S \ t)
    BY FS_Subset
  <2>2. SumOf(w, t) \in Int
    BY <2>1, SumType
  <2>3. SumOf(w, S \ t) \in Int
    BY <2>1, SumType
  <2> QED BY <2>1, <2>2, <2>3
<1>2. ASSUME NEW t \in SUBSET S, \A r \in SUBSET t : r # t => r \in C
      PROVE  t \in C
  <2>1. CASE t = {}
    <3>1. SumOf(w, t) = 0 /\ S \ t = S
      BY <2>1, SumEmpty
    <3>2. SumOf(w, S) \in Int
      BY <1>1
    <3> QED BY <3>1, <3>2
  <2>2. CASE t # {}
    <3>1. PICK x \in t : TRUE
      BY <2>2
    <3> DEFINE r == t \ {x}
    <3>2. r \in SUBSET t /\ r # t /\ r \in SUBSET S /\ x \notin r
      BY <3>1
    <3>3. SumOf(w, S) = SumOf(w, r) + SumOf(w, S \ r)
      BY <1>2, <3>2
    <3>4. r \cup {x} = t /\ (S \ t) \cup {x} = S \ r /\ x \notin S \ t
      BY <3>1
    <3>5. \A y \in S : w[y] \in Int
      OBVIOUS
    <3> HIDE DEF r
    <3>6. SumOf(w, t) = SumOf(w, r) + w[x]
      BY <1>1, <3>2, <3>4, <3>5, SumAdd
    <3>7. SumOf(w, S \ r) = SumOf(w, S \ t) + w[x]
      BY <1>1, <3>4, <3>5, SumAdd
    <3>8. w[x] \in Int
      BY <3>1
    <3>9. SumOf(w, r) \in Int /\ SumOf(w, S \ t) \in Int
      BY <1>1, <3>2
    <3>10. SumOf(w, S) = SumOf(w, t) + SumOf(w, S \ t)
      BY <3>3, <3>6, <3>7, <3>8, <3>9
    <3> QED BY <3>10
  <2> QED BY <2>1, <2>2
<1> HIDE DEF C
<1>3. s \in C
  BY <1>2, SubsetInduction
<1> QED BY <1>3 DEF C

\* A sum of naturals does not shrink when the set grows.
LEMMA SumMonotone ==
    ASSUME NEW w, NEW S, IsFiniteSet(S), \A x \in S : w[x] \in Nat, NEW s \in SUBSET S
    PROVE  SumOf(w, s) <= SumOf(w, S)
<1>1. IsFiniteSet(s) /\ IsFiniteSet(S \ s)
  BY FS_Subset
<1>2. SumOf(w, s) \in Nat
  BY <1>1, SumType
<1>3. SumOf(w, S \ s) \in Nat
  BY <1>1, SumType
<1>4. SumOf(w, S) = SumOf(w, s) + SumOf(w, S \ s)
  <2>1. \A x \in S : w[x] \in Int
    OBVIOUS
  <2> QED BY <2>1, SumSplit
<1> QED BY <1>2, <1>3, <1>4

\* Only the values at the elements of the set matter.
LEMMA SumSame ==
    ASSUME NEW v, NEW w, NEW S, IsFiniteSet(S), \A x \in S : v[x] = w[x]
    PROVE  SumOf(v, S) = SumOf(w, S)
<1> DEFINE C == {t \in SUBSET S : SumOf(v, t) = SumOf(w, t)}
<1>1. ASSUME NEW t \in SUBSET S, \A r \in SUBSET t : r # t => r \in C
      PROVE  t \in C
  <2>1. IsFiniteSet(t)
    BY FS_Subset
  <2>2. /\ SumOf(v, t) = IF t = {} THEN 0 ELSE v[Some(t)] + SumOf(v, t \ {Some(t)})
        /\ SumOf(w, t) = IF t = {} THEN 0 ELSE w[Some(t)] + SumOf(w, t \ {Some(t)})
    BY <2>1, SumStep
  <2>3. t # {} => Some(t) \in t /\ t \ {Some(t)} \in C
    BY <1>1, SomeIsIn
  <2> QED BY <2>2, <2>3
<1> HIDE DEF C
<1>2. S \in C
  BY <1>1, SubsetInduction
<1> QED BY <1>2 DEF C

-----------------------------------------------------------------------------
(* Sums over sequences *)

\* An append adds its element to the sum.
LEMMA SumAppend ==
    ASSUME NEW W, W \subseteq Int, NEW es \in Seq(W), NEW x \in W
    PROVE  SumOf(Append(es, x), DOMAIN Append(es, x)) = SumOf(es, DOMAIN es) + x
<1> DEFINE fs == Append(es, x)
           n == Len(es)
<1>1. DOMAIN es = 1 .. n /\ DOMAIN fs = (1 .. n) \cup {n + 1} /\ n \in Nat
  OBVIOUS
<1>2. \A i \in 1 .. n : fs[i] = es[i]
  OBVIOUS
<1>3. fs[n + 1] = x /\ \A i \in 1 .. n : fs[i] \in W
  OBVIOUS
<1> HIDE DEF fs, n
<1>4. IsFiniteSet(1 .. n) /\ n + 1 \notin 1 .. n
  BY <1>1, FS_Interval
<1>5. SumOf(fs, (1 .. n) \cup {n + 1}) = SumOf(fs, 1 .. n) + x
  <2>1. \A i \in (1 .. n) \cup {n + 1} : fs[i] \in Int
    BY <1>3
  <2> QED BY <1>3, <1>4, <2>1, SumAdd
<1>6. SumOf(fs, 1 .. n) = SumOf(es, 1 .. n)
  BY <1>2, <1>4, SumSame
<1>7. SumOf(fs, DOMAIN fs) = SumOf(es, DOMAIN es) + x
  BY <1>1, <1>5, <1>6
<1> QED BY <1>7 DEF fs

=============================================================================
