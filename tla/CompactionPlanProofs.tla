------------------------ MODULE CompactionPlanProofs ------------------------
(***************************************************************************)
(* What flush, compaction and a query make of the files' metadata, proved  *)
(* for any events, batches, sizes and thresholds: a query finds all of its *)
(* window, a split obeys the target, the statistics of a bucket of one     *)
(* partition see no duplicate that is none, and a compaction leaves none.  *)
(*                                                                         *)
(* PlanInv says that every file has the bounds of its rows and that the    *)
(* files hold what was flushed. That a compaction keeps it rests on what   *)
(* its operators compute: InOrder lists each event once, since the number  *)
(* of earlier events is a bijection; Batched cuts a sequence into pieces   *)
(* that are not empty and join to it; and Split joins to what it was       *)
(* given, by an invariant of its loop.                                     *)
(***************************************************************************)
EXTENDS CompactionPlan, Sums, FunctionTheorems, SequenceTheorems, TLAPS

-----------------------------------------------------------------------------
(* Sets of numbers, images of sets, functions by recursion *)

LEMMA LargestExists ==
    ASSUME NEW S, S \subseteq Int, IsFiniteSet(S), S # {}
    PROVE  \E x \in S : \A y \in S : x >= y
<1> DEFINE C == {s \in SUBSET S : s # {} => \E x \in s : \A y \in s : x >= y}
<1>1. ASSUME NEW s \in SUBSET S, \A t \in SUBSET s : t # s => t \in C
      PROVE  s \in C
  <2> SUFFICES ASSUME s # {} PROVE \E x \in s : \A y \in s : x >= y
    OBVIOUS
  <2>1. PICK z \in s : TRUE
    OBVIOUS
  <2>2. s \ {z} \in C
    BY <1>1
  <2>3. CASE s \ {z} = {}
    BY <2>3
  <2>4. CASE s \ {z} # {}
    <3>1. PICK x \in s \ {z} : \A y \in s \ {z} : x >= y
      BY <2>2, <2>4
    <3>2. CASE x >= z BY <3>1, <3>2
    <3>3. CASE ~(x >= z)
      <4>1. \A y \in s : z >= y
        BY <3>1, <3>3
      <4> QED BY <4>1
    <3> QED BY <3>2, <3>3
  <2> QED BY <2>3, <2>4
<1> HIDE DEF C
<1>2. \A s \in SUBSET S : s \in C
  BY <1>1, SubsetInduction
<1> QED BY <1>2 DEF C

LEMMA MaxIs ==
    ASSUME NEW S, S \subseteq Int, IsFiniteSet(S), S # {}
    PROVE  Max(S) \in S /\ \A y \in S : y <= Max(S)
<1>1. PICK x \in S : \A y \in S : x >= y
  BY LargestExists
<1>2. Max(S) \in S /\ \A y \in S : Max(S) >= y
  BY <1>1 DEF Max
<1> QED BY <1>2

LEMMA ImageIsFinite ==
    ASSUME NEW S, IsFiniteSet(S), NEW f, DOMAIN f = S
    PROVE  /\ IsFiniteSet({f[x] : x \in S})
           /\ Cardinality({f[x] : x \in S}) <= Cardinality(S)
<1> DEFINE g == [x \in S |-> f[x]]
           T == {f[x] : x \in S}
<1>1. g \in Surjection(S, T)
  BY DEF Surjection
<1> HIDE DEF g, T
<1>2. IsFiniteSet(T) /\ Cardinality(T) <= Cardinality(S)
  BY <1>1, FS_Surjection
<1> QED BY <1>2 DEF T

LEMMA MinIs ==
    ASSUME NEW S, S \subseteq Int, IsFiniteSet(S), S # {}
    PROVE  Min(S) \in S /\ \A y \in S : Min(S) <= y
<1> DEFINE f == [x \in S |-> -x]
           T == {f[x] : x \in S}
<1>1. IsFiniteSet(T)
  BY ImageIsFinite
<1>2. T \subseteq Int /\ T # {}
  OBVIOUS
<1> HIDE DEF f, T
<1>3. PICK z \in T : \A y \in T : z >= y
  BY <1>1, <1>2, LargestExists
<1>4. PICK x \in S : z = -x
  BY <1>3 DEF T, f
<1>5. ASSUME NEW y \in S PROVE x <= y
  <2>1. -y \in T
    BY DEF T, f
  <2>2. -x >= -y
    BY <2>1, <1>3, <1>4
  <2> QED BY <2>2
<1>6. Min(S) \in S /\ \A y \in S : Min(S) <= y
  BY <1>5 DEF Min
<1> QED BY <1>6

\* f starts with v and goes on with step, which stays in V.
Stays(step, V, n, v) == n \in Nat /\ v \in V /\ step \in [V \X (1 .. n) -> V]
Solution(f, step, V, n, v) ==
    /\ f \in [0 .. n -> V] /\ f[0] = v
    /\ \A i \in 1 .. n : f[i] = step[<<f[i - 1], i>>]

LEMMA RecursionExists ==
    ASSUME NEW V, NEW n, NEW v, NEW step, Stays(step, V, n, v)
    PROVE  \E f : Solution(f, step, V, n, v)
<1>0. n \in Nat /\ v \in V /\ step \in [V \X (1 .. n) -> V]
  BY DEF Stays
<1> DEFINE Solves(m, f) ==
             /\ f \in [0 .. m -> V] /\ f[0] = v
             /\ \A i \in 1 .. m : f[i] = step[<<f[i - 1], i>>]
           T == {m \in Nat : m <= n => \E f : Solves(m, f)}
<1>1. 0 \in T
  <2>1. Solves(0, [i \in 0 .. 0 |-> v])
    BY <1>0
  <2> QED BY <2>1
<1>2. ASSUME NEW m \in Nat, m \in T PROVE m + 1 \in T
  <2> SUFFICES ASSUME m + 1 <= n PROVE \E f : Solves(m + 1, f)
    OBVIOUS
  <2>1. PICK f : Solves(m, f)
    <3>1. m <= n
      BY <1>0
    <3> QED BY <3>1, <1>2
  <2> DEFINE w == step[<<f[m], m + 1>>]
             g == [i \in 0 .. m + 1 |-> IF i = m + 1 THEN w ELSE f[i]]
  <2>2. f[m] \in V /\ m + 1 \in 1 .. n
    BY <2>1, <1>0
  <2>3. w \in V
    BY <2>2, <1>0
  <2>4. \A i \in 0 .. m : f[i] \in V /\ g[i] = f[i]
    BY <2>1
  <2>5. g[m + 1] = w
    OBVIOUS
  <2>6. g \in [0 .. m + 1 -> V]
    BY <2>1, <2>3
  <2> HIDE DEF g
  <2>7. ASSUME NEW i \in 1 .. m + 1 PROVE g[i] = step[<<g[i - 1], i>>]
    <3>1. CASE i = m + 1
      BY <3>1, <2>4, <2>5
    <3>2. CASE i \in 1 .. m
      <4>1. i - 1 \in 0 .. m /\ i \in 0 .. m
        BY <3>2
      <4> QED BY <4>1, <3>2, <2>1, <2>4
    <3> QED BY <3>1, <3>2
  <2>8. g[0] = v
    BY <2>4, <2>1
  <2> QED BY <2>6, <2>7, <2>8
<1> HIDE DEF T
<1>3. n \in T
  BY <1>0, <1>1, <1>2, NaturalInduction
<1>4. PICK f : Solves(n, f)
  BY <1>3 DEF T
<1>5. Solution(f, step, V, n, v)
  BY <1>4 DEF Solution
<1> QED BY <1>5

-----------------------------------------------------------------------------
(* Joining sequences *)

LEMMA AppendInduction ==
    ASSUME NEW X, NEW D, <<>> \in D,
           \A s \in Seq(X) : s \in D => \A x \in X : Append(s, x) \in D
    PROVE  \A s \in Seq(X) : s \in D
<1> DEFINE T == {n \in Nat : \A s \in Seq(X) : Len(s) = n => s \in D}
<1>1. 0 \in T
  <2>1. \A s \in Seq(X) : Len(s) = 0 => s = <<>>
    OBVIOUS
  <2> QED BY <2>1
<1>2. ASSUME NEW n \in Nat, n \in T PROVE n + 1 \in T
  <2> SUFFICES ASSUME NEW s \in Seq(X), Len(s) = n + 1 PROVE s \in D
    OBVIOUS
  <2>1. s # <<>>
    OBVIOUS
  <2>2. PICK t \in Seq(X), x \in X : s = Append(t, x)
    BY <2>1, SequenceEmptyOrAppend
  <2>3. Len(t) = n
    BY <2>2
  <2> QED BY <2>2, <2>3, <1>2
<1> HIDE DEF T
<1>3. \A n \in Nat : n \in T
  BY <1>1, <1>2, NaturalInduction
<1>4. ASSUME NEW s \in Seq(X) PROVE s \in D
  <2>1. Len(s) \in T
    BY <1>3
  <2> QED BY <2>1 DEF T
<1> QED BY <1>4

\* f[i] is the first i sequences of cs, joined.
Joins(f, cs) ==
    f = [i \in 1 .. Len(cs) |-> IF i = 1 THEN cs[i] ELSE f[i - 1] \o cs[i]]

LEMMA FlattenUnfold ==
    ASSUME NEW cs
    PROVE  FlattenSeq(cs) = IF Len(cs) = 0 THEN cs
                            ELSE (CHOOSE f : Joins(f, cs))[Len(cs)]
BY DEF FlattenSeq, Joins

LEMMA FlattenValue ==
    ASSUME NEW V, NEW cs \in Seq(Seq(V)), cs # <<>>
    PROVE  \E f : Joins(f, cs) /\ FlattenSeq(cs) = f[Len(cs)]
<1> DEFINE n == Len(cs)
           step == [p \in Seq(V) \X (1 .. n) |-> p[1] \o cs[p[2]]]
<1>1. n \in Nat /\ n # 0
  OBVIOUS
<1>2. step \in [Seq(V) \X (1 .. n) -> Seq(V)]
  <2>1. ASSUME NEW s \in Seq(V), NEW i \in 1 .. n PROVE s \o cs[i] \in Seq(V)
    <3>1. cs[i] \in Seq(V)
      OBVIOUS
    <3> QED BY <3>1, ConcatProperties
  <2> QED BY <2>1
<1>3. <<>> \in Seq(V)
  OBVIOUS
<1>4. \A s \in Seq(V), i \in 1 .. n : step[<<s, i>>] = s \o cs[i]
  OBVIOUS
<1> HIDE DEF step, n
<1>5. PICK h \in [0 .. n -> Seq(V)] :
        h[0] = <<>> /\ \A i \in 1 .. n : h[i] = step[<<h[i - 1], i>>]
  <2>1. Stays(step, Seq(V), n, <<>>)
    BY <1>1, <1>2, <1>3 DEF Stays
  <2>2. PICK h : Solution(h, step, Seq(V), n, <<>>)
    BY <2>1, RecursionExists
  <2> QED BY <2>2 DEF Solution
<1> DEFINE f == [i \in 1 .. n |-> h[i]]
<1>6. ASSUME NEW i \in 1 .. n
      PROVE  f[i] = IF i = 1 THEN cs[i] ELSE f[i - 1] \o cs[i]
  <2>1. h[i - 1] \in Seq(V) /\ f[i] = h[i - 1] \o cs[i]
    <3>1. i - 1 \in 0 .. n
      BY <1>1
    <3>2. h[i - 1] \in Seq(V)
      BY <3>1, <1>5
    <3>3. f[i] = step[<<h[i - 1], i>>]
      BY <1>5
    <3> QED BY <3>2, <3>3, <1>4
  <2>2. CASE i = 1
    <3>1. cs[i] \in Seq(V)
      BY DEF n
    <3>2. f[i] = <<>> \o cs[i]
      <4>1. i - 1 = 0 /\ h[0] = <<>>
        BY <2>2, <1>5
      <4>2. f[i] = h[i - 1] \o cs[i]
        BY <2>1
      <4> HIDE DEF f
      <4> QED BY <4>1, <4>2
    <3> QED BY <3>1, <3>2, <2>2, ConcatEmptySeq
  <2>3. CASE i # 1
    <3>1. f[i - 1] = h[i - 1]
      BY <2>3, <1>1
    <3> QED BY <3>1, <2>1, <2>3
  <2> QED BY <2>2, <2>3
<1>7. Joins(f, cs)
  BY <1>6 DEF Joins, n
<1> HIDE DEF f
<1> DEFINE g == CHOOSE k : Joins(k, cs)
<1>8. Joins(g, cs) /\ FlattenSeq(cs) = g[Len(cs)]
  BY <1>7, <1>1, FlattenUnfold DEF n
<1> QED BY <1>8

LEMMA JoinsAgree ==
    ASSUME NEW V, NEW cs \in Seq(Seq(V)), NEW ds \in Seq(Seq(V)), NEW f, NEW g,
           Joins(f, cs), Joins(g, ds), NEW m \in Nat, m <= Len(cs), m <= Len(ds),
           \A i \in 1 .. m : cs[i] = ds[i]
    PROVE  \A i \in 1 .. m : f[i] = g[i] /\ f[i] \in Seq(V)
<1> DEFINE T == {i \in Nat : i \in 1 .. m => f[i] = g[i] /\ f[i] \in Seq(V)}
<1>1. 0 \in T
  OBVIOUS
<1>2. ASSUME NEW i \in Nat, i \in T PROVE i + 1 \in T
  <2> SUFFICES ASSUME i + 1 \in 1 .. m
               PROVE  f[i + 1] = g[i + 1] /\ f[i + 1] \in Seq(V)
    OBVIOUS
  <2>1. cs[i + 1] \in Seq(V) /\ cs[i + 1] = ds[i + 1]
    OBVIOUS
  <2>2. i + 1 \in 1 .. Len(cs) /\ i + 1 \in 1 .. Len(ds) /\ (i + 1) - 1 = i
    OBVIOUS
  <2>3. /\ f[i + 1] = IF i + 1 = 1 THEN cs[i + 1] ELSE f[i] \o cs[i + 1]
        /\ g[i + 1] = IF i + 1 = 1 THEN ds[i + 1] ELSE g[i] \o ds[i + 1]
    BY <2>2 DEF Joins
  <2>4. CASE i = 0
    BY <2>1, <2>3, <2>4
  <2>5. CASE i # 0
    <3>1. f[i] = g[i] /\ f[i] \in Seq(V)
      BY <1>2, <2>5
    <3>2. f[i] \o cs[i + 1] \in Seq(V)
      BY <3>1, <2>1, ConcatProperties
    <3> QED BY <3>1, <3>2, <2>1, <2>3, <2>5
  <2> QED BY <2>4, <2>5
<1> HIDE DEF T
<1>3. \A i \in Nat : i \in T
  BY <1>1, <1>2, NaturalInduction
<1> QED BY <1>3 DEF T

LEMMA FlattenType ==
    ASSUME NEW V, NEW cs \in Seq(Seq(V))
    PROVE  FlattenSeq(cs) \in Seq(V)
<1>1. CASE cs = <<>>
  <2>1. Len(cs) = 0 /\ cs \in Seq(V)
    BY <1>1
  <2> QED BY <2>1, FlattenUnfold
<1>2. CASE cs # <<>>
  <2>1. PICK f : Joins(f, cs) /\ FlattenSeq(cs) = f[Len(cs)]
    BY <1>2, FlattenValue
  <2>2. Len(cs) \in Nat /\ Len(cs) \in 1 .. Len(cs)
    BY <1>2
  <2>3. \A i \in 1 .. Len(cs) : f[i] \in Seq(V)
    BY <2>1, <2>2, JoinsAgree
  <2> QED BY <2>1, <2>2, <2>3
<1> QED BY <1>1, <1>2

LEMMA FlattenNone == FlattenSeq(<<>>) = <<>>
<1>1. Len(<<>>) = 0
  OBVIOUS
<1> QED BY <1>1, FlattenUnfold

LEMMA FlattenAppend ==
    ASSUME NEW V, NEW cs \in Seq(Seq(V)), NEW c \in Seq(V)
    PROVE  FlattenSeq(Append(cs, c)) = FlattenSeq(cs) \o c
<1> DEFINE ds == Append(cs, c)
           n == Len(cs)
<1>1. /\ ds \in Seq(Seq(V)) /\ ds # <<>> /\ Len(ds) = n + 1 /\ n \in Nat
      /\ ds[n + 1] = c /\ \A i \in 1 .. n : ds[i] = cs[i]
  BY AppendProperties
<1> HIDE DEF ds, n
<1>2. PICK g : Joins(g, ds) /\ FlattenSeq(ds) = g[n + 1]
  BY <1>1, FlattenValue
<1>3. g[n + 1] = IF n + 1 = 1 THEN c ELSE g[n] \o c
  <2>1. n + 1 \in 1 .. Len(ds) /\ (n + 1) - 1 = n
    BY <1>1
  <2> QED BY <2>1, <1>2, <1>1 DEF Joins
<1>4. CASE cs = <<>>
  <2>1. n = 0
    BY <1>4 DEF n
  <2>2. FlattenSeq(cs) \o c = c
    BY <1>4, FlattenNone, ConcatEmptySeq
  <2> QED BY <2>1, <2>2, <1>2, <1>3 DEF ds
<1>5. CASE cs # <<>>
  <2>1. n # 0
    BY <1>5 DEF n
  <2>2. PICK f : Joins(f, cs) /\ FlattenSeq(cs) = f[n]
    BY <1>5, FlattenValue DEF n
  <2>3. \A i \in 1 .. n : cs[i] = ds[i]
    BY <1>1
  <2>4. n <= Len(cs) /\ n <= Len(ds)
    BY <1>1 DEF n
  <2>5. Joins(f, cs)
    BY <2>2
  <2>6. Joins(g, ds)
    BY <1>2
  <2>7. ds \in Seq(Seq(V)) /\ n \in Nat
    BY <1>1
  <2>8. \A i \in 1 .. n : f[i] = g[i] /\ f[i] \in Seq(V)
    BY <2>3, <2>4, <2>5, <2>6, <2>7, JoinsAgree
  <2>9. f[n] = g[n]
    BY <2>1, <2>7, <2>8
  <2> QED BY <2>1, <2>2, <2>9, <1>1, <1>2, <1>3 DEF ds
<1> QED BY <1>4, <1>5

LEMMA JoinedSet ==
    ASSUME NEW V, NEW s \in Seq(V), NEW t \in Seq(V)
    PROVE  ToSet(s \o t) = ToSet(s) \cup ToSet(t)
<1> DEFINE u == s \o t
<1>1. /\ Len(u) = Len(s) + Len(t) /\ DOMAIN u = 1 .. Len(s) + Len(t)
      /\ DOMAIN s = 1 .. Len(s) /\ DOMAIN t = 1 .. Len(t)
      /\ Len(s) \in Nat /\ Len(t) \in Nat
      /\ \A i \in 1 .. Len(s) + Len(t) : u[i] = IF i <= Len(s) THEN s[i] ELSE t[i - Len(s)]
  BY ConcatProperties, LenProperties
<1> HIDE DEF u
<1>2. ASSUME NEW i \in DOMAIN u PROVE u[i] \in ToSet(s) \cup ToSet(t)
  BY <1>1 DEF ToSet
<1>3. ASSUME NEW i \in DOMAIN s PROVE s[i] \in ToSet(u)
  BY <1>1 DEF ToSet
<1>4. ASSUME NEW i \in DOMAIN t PROVE t[i] \in ToSet(u)
  <2>1. /\ i + Len(s) \in DOMAIN u /\ ~(i + Len(s) <= Len(s))
        /\ (i + Len(s)) - Len(s) = i
    BY <1>1
  <2>2. u[i + Len(s)] = t[i]
    BY <2>1, <1>1
  <2> QED BY <2>1, <2>2 DEF ToSet
<1>5. ToSet(u) \subseteq ToSet(s) \cup ToSet(t)
  BY <1>2 DEF ToSet
<1>6. ToSet(s) \subseteq ToSet(u) /\ ToSet(t) \subseteq ToSet(u)
  BY <1>3, <1>4 DEF ToSet
<1> QED BY <1>5, <1>6 DEF u

LEMMA AppendedSet ==
    ASSUME NEW V, NEW s \in Seq(V), NEW x \in V
    PROVE  ToSet(Append(s, x)) = ToSet(s) \cup {x}
<1> DEFINE u == Append(s, x)
<1>1. /\ DOMAIN u = (DOMAIN s) \cup {Len(s) + 1} /\ u[Len(s) + 1] = x
      /\ \A i \in DOMAIN s : u[i] = s[i]
  OBVIOUS
<1> HIDE DEF u
<1>2. ToSet(u) = ToSet(s) \cup {x}
  BY <1>1 DEF ToSet
<1> QED BY <1>2 DEF u

LEMMA FlattenedSet ==
    ASSUME NEW V, NEW cs \in Seq(Seq(V))
    PROVE  ToSet(FlattenSeq(cs)) = UNION {ToSet(c) : c \in ToSet(cs)}
<1> DEFINE D == {ds \in Seq(Seq(V)) :
                   ToSet(FlattenSeq(ds)) = UNION {ToSet(c) : c \in ToSet(ds)}}
<1>1. <<>> \in D
  BY FlattenNone DEF ToSet
<1>2. ASSUME NEW ds \in Seq(Seq(V)), ds \in D, NEW c \in Seq(V)
      PROVE  Append(ds, c) \in D
  <2>1. FlattenSeq(Append(ds, c)) = FlattenSeq(ds) \o c
    BY FlattenAppend
  <2>2. FlattenSeq(ds) \in Seq(V)
    BY FlattenType
  <2>3. ToSet(FlattenSeq(Append(ds, c))) = ToSet(FlattenSeq(ds)) \cup ToSet(c)
    BY <2>1, <2>2, JoinedSet
  <2>4. ToSet(Append(ds, c)) = ToSet(ds) \cup {c}
    BY AppendedSet
  <2> QED BY <1>2, <2>3, <2>4
<1> HIDE DEF D
<1>3. \A ds \in Seq(Seq(V)) : ds \in D
  BY <1>1, <1>2, AppendInduction
<1> QED BY <1>3 DEF D

LEMMA ConcatAppend ==
    ASSUME NEW X, NEW s \in Seq(X), NEW t \in Seq(X), NEW x \in X
    PROVE  s \o t \in Seq(X) /\ s \o Append(t, x) = Append(s \o t, x)
<1> DEFINE m == Len(s)
           n == Len(t)
           u == s \o t
           tx == Append(t, x)
           v == s \o tx
           w == Append(u, x)
<1>1. m \in Nat /\ n \in Nat
  OBVIOUS
<1>2. /\ tx \in Seq(X) /\ Len(tx) = n + 1 /\ tx[n + 1] = x
      /\ \A i \in 1 .. n : tx[i] = t[i]
  BY AppendProperties
<1>3. /\ u \in Seq(X) /\ Len(u) = m + n
      /\ \A i \in 1 .. m + n : u[i] = IF i <= m THEN s[i] ELSE t[i - m]
  BY ConcatProperties
<1> HIDE DEF tx, u
<1>4. /\ v \in Seq(X) /\ Len(v) = m + (n + 1)
      /\ \A i \in 1 .. m + (n + 1) : v[i] = IF i <= m THEN s[i] ELSE tx[i - m]
  <2>1. /\ s \o tx \in Seq(X) /\ Len(s \o tx) = Len(s) + Len(tx)
        /\ \A i \in 1 .. Len(s) + Len(tx) :
             (s \o tx)[i] = IF i <= Len(s) THEN s[i] ELSE tx[i - Len(s)]
    BY <1>2, ConcatProperties
  <2>2. Len(tx) = n + 1
    BY <1>2
  <2> HIDE DEF n
  <2> QED BY <2>1, <2>2
<1>5. /\ w \in Seq(X) /\ Len(w) = m + n + 1 /\ w[m + n + 1] = x
      /\ \A i \in 1 .. m + n : w[i] = u[i]
  <2>1. /\ w \in Seq(X) /\ Len(w) = Len(u) + 1 /\ w[Len(u) + 1] = x
        /\ \A i \in 1 .. Len(u) : w[i] = u[i]
    <3>1. u \in Seq(X)
      BY <1>3
    <3> QED BY <3>1, AppendProperties
  <2>2. Len(u) = m + n
    BY <1>3
  <2> HIDE DEF w, m, n
  <2> QED BY <2>1, <2>2
<1> HIDE DEF v, w, m, n
<1>6. ASSUME NEW i \in 1 .. m + (n + 1) PROVE v[i] = w[i]
  <2>1. CASE i = m + n + 1
    <3>1. ~(i <= m) /\ i - m = n + 1
      BY <2>1, <1>1
    <3> QED BY <3>1, <2>1, <1>2, <1>4, <1>5
  <2>2. CASE i # m + n + 1
    <3>1. i \in 1 .. m + n
      BY <2>2, <1>1
    <3>2. CASE i <= m
      BY <3>1, <3>2, <1>3, <1>4, <1>5
    <3>3. CASE ~(i <= m)
      <4>1. i - m \in 1 .. n
        BY <3>1, <3>3, <1>1
      <4>2. tx[i - m] = t[i - m]
        BY <4>1, <1>2
      <4> QED BY <3>1, <3>3, <4>2, <1>3, <1>4, <1>5
    <3> QED BY <3>2, <3>3
  <2> QED BY <2>1, <2>2
<1>7. Len(v) = Len(w)
  BY <1>1, <1>4, <1>5
<1>8. v = w
  BY <1>4, <1>5, <1>6, <1>7, SeqEqual
<1> QED BY <1>3, <1>8 DEF u, v, w, tx

LEMMA FlattenConcat ==
    ASSUME NEW V, NEW cs \in Seq(Seq(V)), NEW ds \in Seq(Seq(V))
    PROVE  FlattenSeq(cs \o ds) = FlattenSeq(cs) \o FlattenSeq(ds)
<1> DEFINE D == {es \in Seq(Seq(V)) :
                   FlattenSeq(cs \o es) = FlattenSeq(cs) \o FlattenSeq(es)}
<1>1. FlattenSeq(cs) \in Seq(V)
  BY FlattenType
<1>2. <<>> \in D
  <2>1. cs \o <<>> = cs
    BY ConcatEmptySeq
  <2>2. FlattenSeq(cs) \o <<>> = FlattenSeq(cs)
    BY <1>1, ConcatEmptySeq
  <2>3. <<>> \in Seq(Seq(V))
    OBVIOUS
  <2> QED BY <2>1, <2>2, <2>3, FlattenNone
<1>3. ASSUME NEW es \in Seq(Seq(V)), es \in D, NEW c \in Seq(V)
      PROVE  Append(es, c) \in D
  <2>1. cs \o Append(es, c) = Append(cs \o es, c) /\ cs \o es \in Seq(Seq(V))
    <3> DEFINE W == Seq(V)
    <3>1. cs \in Seq(W) /\ es \in Seq(W) /\ c \in W
      OBVIOUS
    <3> HIDE DEF W, D
    <3>2. cs \o Append(es, c) = Append(cs \o es, c) /\ cs \o es \in Seq(W)
      BY <3>1, ConcatAppend
    <3> QED BY <3>2 DEF W
  <2>2. FlattenSeq(es) \in Seq(V)
    BY FlattenType
  <2>3. FlattenSeq(Append(cs \o es, c)) = FlattenSeq(cs \o es) \o c
    BY <2>1, FlattenAppend
  <2>4. FlattenSeq(Append(es, c)) = FlattenSeq(es) \o c
    BY FlattenAppend
  <2>5. (FlattenSeq(cs) \o FlattenSeq(es)) \o c = FlattenSeq(cs) \o (FlattenSeq(es) \o c)
    BY <1>1, <2>2, ConcatAssociative
  <2>6. FlattenSeq(cs \o Append(es, c)) = FlattenSeq(cs) \o FlattenSeq(Append(es, c))
    BY <1>3, <2>1, <2>3, <2>4, <2>5
  <2>7. Append(es, c) \in Seq(Seq(V))
    OBVIOUS
  <2> QED BY <2>6, <2>7
<1> HIDE DEF D
<1>4. \A es \in Seq(Seq(V)) : es \in D
  BY <1>2, <1>3, AppendInduction
<1> QED BY <1>4 DEF D

\* Each of the sequences, joined.
Joined(cs) == [i \in DOMAIN cs |-> FlattenSeq(cs[i])]

LEMMA JoinedType ==
    ASSUME NEW V, NEW cs \in Seq(Seq(Seq(V)))
    PROVE  /\ Joined(cs) \in Seq(Seq(V)) /\ Len(Joined(cs)) = Len(cs)
           /\ \A i \in 1 .. Len(cs) : Joined(cs)[i] = FlattenSeq(cs[i])
<1>1. DOMAIN cs = 1 .. Len(cs) /\ Len(cs) \in Nat
  OBVIOUS
<1>2. ASSUME NEW i \in 1 .. Len(cs) PROVE FlattenSeq(cs[i]) \in Seq(V)
  <2>1. cs[i] \in Seq(Seq(V))
    OBVIOUS
  <2> QED BY <2>1, FlattenType
<1>3. Joined(cs) \in [1 .. Len(cs) -> Seq(V)]
  BY <1>1, <1>2 DEF Joined
<1>4. Joined(cs) \in Seq(Seq(V)) /\ Len(Joined(cs)) = Len(cs)
  BY <1>1, <1>3
<1> QED BY <1>1, <1>4 DEF Joined

LEMMA FlattenTwice ==
    ASSUME NEW V, NEW cs \in Seq(Seq(Seq(V)))
    PROVE  FlattenSeq(FlattenSeq(cs)) = FlattenSeq(Joined(cs))
<1> DEFINE D == {ds \in Seq(Seq(Seq(V))) :
                   FlattenSeq(FlattenSeq(ds)) = FlattenSeq(Joined(ds))}
<1>1. <<>> \in D
  <2>1. Joined(<<>>) = <<>>
    BY DEF Joined
  <2> QED BY <2>1, FlattenNone
<1>2. ASSUME NEW ds \in Seq(Seq(Seq(V))), ds \in D, NEW c \in Seq(Seq(V))
      PROVE  Append(ds, c) \in D
  <2>1. Joined(Append(ds, c)) = Append(Joined(ds), FlattenSeq(c))
    <3> DEFINE es == Append(ds, c)
               s == Joined(es)
               t == Append(Joined(ds), FlattenSeq(c))
               n == Len(ds)
    <3>1. /\ es \in Seq(Seq(Seq(V))) /\ Len(es) = n + 1 /\ n \in Nat
          /\ es[n + 1] = c /\ \A i \in 1 .. n : es[i] = ds[i]
      BY AppendProperties
    <3>2. /\ Joined(ds) \in Seq(Seq(V)) /\ Len(Joined(ds)) = n
          /\ \A i \in 1 .. n : Joined(ds)[i] = FlattenSeq(ds[i])
      BY JoinedType
    <3>3. FlattenSeq(c) \in Seq(V)
      BY FlattenType
    <3>4. /\ t \in Seq(Seq(V)) /\ Len(t) = n + 1 /\ t[n + 1] = FlattenSeq(c)
          /\ \A i \in 1 .. n : t[i] = Joined(ds)[i]
      <4> DEFINE js == Joined(ds)
                 x == FlattenSeq(c)
      <4>1. js \in Seq(Seq(V)) /\ x \in Seq(V) /\ Len(js) = n /\ t = Append(js, x)
        BY <3>2, <3>3
      <4> HIDE DEF js, x, t, n
      <4>2. /\ t \in Seq(Seq(V)) /\ Len(t) = n + 1 /\ t[n + 1] = x
            /\ \A i \in 1 .. n : t[i] = js[i]
        BY <4>1, <3>1, AppendProperties
      <4> QED BY <4>2 DEF js, x
    <3> HIDE DEF es, t, n
    <3>5. /\ s \in Seq(Seq(V)) /\ Len(s) = n + 1
          /\ \A i \in 1 .. n + 1 : s[i] = FlattenSeq(es[i])
      BY <3>1, JoinedType
    <3> HIDE DEF s
    <3>6. ASSUME NEW i \in 1 .. n + 1 PROVE s[i] = t[i]
      <4>1. i = n + 1 \/ i \in 1 .. n
        BY <3>1
      <4> QED BY <4>1, <3>1, <3>2, <3>4, <3>5
    <3>7. s = t
      BY <3>4, <3>5, <3>6, SeqEqual
    <3> QED BY <3>7 DEF s, t, es
  <2>2. FlattenSeq(Append(ds, c)) = FlattenSeq(ds) \o c
    BY FlattenAppend
  <2>3. FlattenSeq(ds) \in Seq(Seq(V)) /\ FlattenSeq(c) \in Seq(V)
    BY FlattenType
  <2>4. FlattenSeq(FlattenSeq(ds) \o c) = FlattenSeq(FlattenSeq(ds)) \o FlattenSeq(c)
    BY <2>3, FlattenConcat
  <2>5. Joined(ds) \in Seq(Seq(V))
    BY JoinedType
  <2>6. FlattenSeq(Append(Joined(ds), FlattenSeq(c)))
          = FlattenSeq(Joined(ds)) \o FlattenSeq(c)
    BY <2>3, <2>5, FlattenAppend
  <2>7. FlattenSeq(FlattenSeq(Append(ds, c))) = FlattenSeq(Joined(Append(ds, c)))
    BY <1>2, <2>1, <2>2, <2>4, <2>6
  <2>8. Append(ds, c) \in Seq(Seq(Seq(V)))
    OBVIOUS
  <2> QED BY <2>7, <2>8
<1> HIDE DEF D
<1>3. \A ds \in Seq(Seq(Seq(V))) : ds \in D
  BY <1>1, <1>2, AppendInduction
<1> QED BY <1>3 DEF D

Lengths(cs) == [i \in DOMAIN cs |-> Len(cs[i])]

\* The length of what is joined.
LEMMA FlattenLength ==
    ASSUME NEW V, NEW cs \in Seq(Seq(V))
    PROVE  Len(FlattenSeq(cs)) = SumOf(Lengths(cs), DOMAIN cs)
<1> DEFINE D == {ds \in Seq(Seq(V)) :
                   Len(FlattenSeq(ds)) = SumOf(Lengths(ds), DOMAIN ds)}
<1>1. <<>> \in D
  <2>1. DOMAIN <<>> = {} /\ Len(<<>>) = 0
    OBVIOUS
  <2> QED BY <2>1, FlattenNone, SumEmpty
<1>2. ASSUME NEW ds \in Seq(Seq(V)), ds \in D, NEW c \in Seq(V)
      PROVE  Append(ds, c) \in D
  <2> DEFINE es == Append(ds, c)
             n == Len(ds)
  <2>1. /\ es \in Seq(Seq(V)) /\ n \in Nat
        /\ DOMAIN es = (1 .. n) \cup {n + 1} /\ DOMAIN ds = 1 .. n
        /\ es[n + 1] = c /\ \A i \in 1 .. n : es[i] = ds[i]
    BY AppendProperties
  <2>2. FlattenSeq(es) = FlattenSeq(ds) \o c
    BY FlattenAppend
  <2>3. FlattenSeq(ds) \in Seq(V)
    BY FlattenType
  <2>4. Len(FlattenSeq(es)) = Len(FlattenSeq(ds)) + Len(c)
    BY <2>2, <2>3, ConcatProperties
  <2>0. \A i \in 1 .. n : Len(ds[i]) \in Nat
    OBVIOUS
  <2>00. Len(c) \in Nat
    OBVIOUS
  <2> HIDE DEF es, n
  <2>5. IsFiniteSet(1 .. n) /\ n + 1 \notin 1 .. n
    BY <2>1, FS_Interval
  <2>6. \A i \in (1 .. n) \cup {n + 1} : Lengths(es)[i] \in Int
    BY <2>0, <2>00, <2>1 DEF Lengths
  <2>7. SumOf(Lengths(es), (1 .. n) \cup {n + 1})
          = SumOf(Lengths(es), 1 .. n) + Lengths(es)[n + 1]
    BY <2>5, <2>6, SumAdd
  <2>8. \A i \in 1 .. n : Lengths(es)[i] = Lengths(ds)[i]
    BY <2>1 DEF Lengths
  <2>9. SumOf(Lengths(es), 1 .. n) = SumOf(Lengths(ds), 1 .. n)
    BY <2>5, <2>8, SumSame
  <2>10. Lengths(es)[n + 1] = Len(c)
    BY <2>1 DEF Lengths
  <2>11. Len(FlattenSeq(es)) = SumOf(Lengths(es), DOMAIN es)
    BY <1>2, <2>1, <2>4, <2>7, <2>9, <2>10
  <2> QED BY <2>1, <2>11 DEF es
<1> HIDE DEF D
<1>3. \A ds \in Seq(Seq(V)) : ds \in D
  BY <1>1, <1>2, AppendInduction
<1> QED BY <1>3 DEF D

-----------------------------------------------------------------------------
(* The order of a merge *)

LEMMA BeforeIsStrict ==
    ASSUME NEW d \in Event, NEW e \in Event
    PROVE  ~Before(d, d) /\ (d # e => Before(d, e) \/ Before(e, d))
<1>1. /\ d.ts \in Int /\ d.part \in Int /\ d.off \in Int
      /\ e.ts \in Int /\ e.part \in Int /\ e.off \in Int
  BY PlanAssumption
<1>2. d # e => d.part # e.part \/ d.off # e.off
  BY PlanAssumption
<1> QED BY <1>1, <1>2 DEF Before

LEMMA BeforeIsTransitive ==
    ASSUME NEW c \in Event, NEW d \in Event, NEW e \in Event, Before(c, d), Before(d, e)
    PROVE  Before(c, e)
<1>1. /\ c.ts \in Int /\ c.part \in Int /\ c.off \in Int
      /\ d.ts \in Int /\ d.part \in Int /\ d.off \in Int
      /\ e.ts \in Int /\ e.part \in Int /\ e.off \in Int
  BY PlanAssumption
<1> QED BY <1>1 DEF Before

EarlierIn(S, e) == {d \in S : Before(d, e)}

LEMMA RankGrows ==
    ASSUME NEW S, S \subseteq Event, NEW d \in S, NEW e \in S, Before(d, e)
    PROVE  /\ Cardinality(EarlierIn(S, d)) \in Nat /\ Cardinality(EarlierIn(S, e)) \in Nat
           /\ Cardinality(EarlierIn(S, d)) < Cardinality(EarlierIn(S, e))
<1>1. IsFiniteSet(S)
  BY PlanAssumption, FS_Subset
<1>2. IsFiniteSet(EarlierIn(S, d)) /\ IsFiniteSet(EarlierIn(S, e))
  BY <1>1, FS_Subset DEF EarlierIn
<1>3. EarlierIn(S, d) \subseteq EarlierIn(S, e)
  BY BeforeIsTransitive DEF EarlierIn
<1>4. EarlierIn(S, d) # EarlierIn(S, e)
  <2>1. d \in EarlierIn(S, e) /\ d \notin EarlierIn(S, d)
    BY BeforeIsStrict DEF EarlierIn
  <2> QED BY <2>1
<1>5. /\ Cardinality(EarlierIn(S, d)) <= Cardinality(EarlierIn(S, e))
      /\ Cardinality(EarlierIn(S, d)) # Cardinality(EarlierIn(S, e))
  BY <1>2, <1>3, <1>4, FS_Subset
<1>6. /\ Cardinality(EarlierIn(S, d)) \in Nat /\ Cardinality(EarlierIn(S, e)) \in Nat
  BY <1>2, FS_CardinalityType
<1> QED BY <1>5, <1>6

\* The rank is a bijection, so that each place in the order is taken once.
LEMMA RankIsBijection ==
    ASSUME NEW S, S \subseteq Event
    PROVE  /\ IsFiniteSet(S) /\ Cardinality(S) \in Nat
           /\ \A i \in 1 .. Cardinality(S) :
                \E e \in S : Cardinality(EarlierIn(S, e)) = i - 1
           /\ \A e \in S : Cardinality(EarlierIn(S, e)) + 1 \in 1 .. Cardinality(S)
           /\ \A d, e \in S :
                Cardinality(EarlierIn(S, d)) = Cardinality(EarlierIn(S, e)) => d = e
<1> DEFINE n == Cardinality(S)
           r == [e \in S |-> Cardinality(EarlierIn(S, e)) + 1]
<1>1. IsFiniteSet(S) /\ n \in Nat
  BY PlanAssumption, FS_Subset, FS_CardinalityType
<1>2. ASSUME NEW e \in S
      PROVE  Cardinality(EarlierIn(S, e)) \in Nat /\ Cardinality(EarlierIn(S, e)) < n
  <2>1. EarlierIn(S, e) \subseteq S /\ e \notin EarlierIn(S, e)
    BY BeforeIsStrict DEF EarlierIn
  <2>2. IsFiniteSet(EarlierIn(S, e)) /\ EarlierIn(S, e) # S
    BY <1>1, <2>1, FS_Subset
  <2>3. Cardinality(EarlierIn(S, e)) \in Nat
    BY <2>2, FS_CardinalityType
  <2>4. Cardinality(EarlierIn(S, e)) <= n /\ Cardinality(EarlierIn(S, e)) # n
    BY <1>1, <2>1, <2>2, FS_Subset
  <2> QED BY <1>1, <2>3, <2>4
<1>3. ASSUME NEW d \in S, NEW e \in S,
             Cardinality(EarlierIn(S, d)) = Cardinality(EarlierIn(S, e))
      PROVE  d = e
  <2> SUFFICES ASSUME d # e PROVE FALSE
    OBVIOUS
  <2>1. Before(d, e) \/ Before(e, d)
    BY BeforeIsStrict
  <2>2. CASE Before(d, e)
    BY <2>2, <1>3, RankGrows
  <2>3. CASE Before(e, d)
    BY <2>3, <1>3, RankGrows
  <2> QED BY <2>1, <2>2, <2>3
<1>4. \A e \in S : r[e] = Cardinality(EarlierIn(S, e)) + 1 /\ r[e] \in 1 .. n
  BY <1>1, <1>2
<1>5. r \in [S -> 1 .. n]
  BY <1>1, <1>2
<1> HIDE DEF r, n
<1>6. \A d, e \in S : r[d] = r[e] => d = e
  BY <1>2, <1>3, <1>4
<1>7. r \in Injection(S, 1 .. n)
  BY <1>5, <1>6 DEF Injection, IsInjective
<1>8. IsFiniteSet(1 .. n) /\ Cardinality(1 .. n) = n
  BY <1>1, FS_Interval
<1>9. r \in Surjection(S, 1 .. n)
  BY <1>7, <1>8, FS_Injection DEF n
<1>10. ASSUME NEW i \in 1 .. n PROVE \E e \in S : Cardinality(EarlierIn(S, e)) = i - 1
  <2>1. PICK e \in S : r[e] = i
    BY <1>9 DEF Surjection
  <2> QED BY <2>1, <1>2, <1>4
<1>11. \A e \in S : Cardinality(EarlierIn(S, e)) + 1 \in 1 .. n
  BY <1>4
<1> QED BY <1>1, <1>3, <1>10, <1>11 DEF n

LEMMA InOrderIs ==
    ASSUME NEW S, S \subseteq Event
    PROVE  /\ InOrder(S) \in Seq(Event) /\ ToSet(InOrder(S)) = S
           /\ Len(InOrder(S)) = Cardinality(S)
<1> DEFINE n == Cardinality(S)
           At(i) == CHOOSE e \in S : Cardinality(EarlierIn(S, e)) = i - 1
<1>1. n \in Nat
  BY RankIsBijection
<1>2. \A i \in 1 .. n : At(i) \in S /\ Cardinality(EarlierIn(S, At(i))) = i - 1
  BY RankIsBijection
<1>3. InOrder(S) = [i \in 1 .. n |-> At(i)]
  BY DEF InOrder, EarlierIn
<1> HIDE DEF At
<1>4. InOrder(S) \in [1 .. n -> S]
  BY <1>2, <1>3
<1>5. InOrder(S) \in Seq(Event) /\ Len(InOrder(S)) = n
  BY <1>4, <1>1
<1>6. DOMAIN InOrder(S) = 1 .. n /\ \A i \in 1 .. n : InOrder(S)[i] = At(i)
  BY <1>3
<1> HIDE DEF n
<1>7. ToSet(InOrder(S)) \subseteq S
  BY <1>2, <1>6 DEF ToSet
<1>8. ASSUME NEW e \in S PROVE e \in ToSet(InOrder(S))
  <2> DEFINE i == Cardinality(EarlierIn(S, e)) + 1
  <2>1. i \in 1 .. n
    BY RankIsBijection DEF n
  <2>2. Cardinality(EarlierIn(S, At(i))) = i - 1 /\ At(i) \in S
    BY <2>1, <1>2
  <2>3. i - 1 = Cardinality(EarlierIn(S, e))
    <3>1. Cardinality(EarlierIn(S, e)) \in Int
      <4>1. IsFiniteSet(EarlierIn(S, e))
        BY RankIsBijection, FS_Subset DEF EarlierIn
      <4> QED BY <4>1, FS_CardinalityType
    <3> QED BY <3>1
  <2> HIDE DEF i
  <2>4. At(i) = e
    BY <2>2, <2>3, RankIsBijection
  <2> QED BY <2>1, <2>4, <1>6 DEF ToSet
<1> QED BY <1>5, <1>7, <1>8 DEF n

\* Copies of an event are the same, so that each has a place in the order.
LEMMA MergedIs ==
    ASSUME NEW S, S \subseteq Event
    PROVE  /\ Merged(S) \in Seq(Event) /\ ToSet(Merged(S)) = S
           /\ Len(Merged(S)) = Cardinality(S)
<1>1. {e \in S : \A d \in S : d.part = e.part /\ d.off = e.off => e.ts <= d.ts} = S
  BY PlanAssumption
<1>2. Merged(S) = InOrder(S)
  BY <1>1 DEF Merged
<1> QED BY <1>2, InOrderIs

-----------------------------------------------------------------------------
(* Batches and chunks *)

Batch == Seq(Event) \ {<<>>}
Chunk == Seq(Batch)

LEMMA Quotient ==
    ASSUME NEW a \in Nat, NEW d \in Nat, d # 0
    PROVE  /\ a \div d \in Nat /\ (a \div d) * d <= a
           /\ a < (a \div d) * d + d
OBVIOUS

LEMMA TimesGrows ==
    ASSUME NEW d \in Nat, NEW i \in Int, NEW j \in Int, i <= j
    PROVE  /\ i * d \in Int /\ j * d \in Int /\ i * d <= j * d
           /\ (i + 1) * d = i * d + d /\ (i - 1) * d = i * d - d
OBVIOUS

\* The batches are the rows, cut in pieces of which none is empty.
LEMMA BatchedIs ==
    ASSUME NEW rows \in Seq(Event)
    PROVE  Batched(rows) \in Chunk /\ FlattenSeq(Batched(rows)) = rows
<1> DEFINE n == Len(rows)
           m == (n + BatchRows - 1) \div BatchRows
           first(i) == (i - 1) * BatchRows + 1
           last(i) == Min({i * BatchRows, n})
<1>1. n \in Nat /\ BatchRows \in Nat /\ BatchRows # 0 /\ DOMAIN rows = 1 .. n
  BY PlanAssumption
<1>2. m \in Nat /\ m * BatchRows <= n + BatchRows - 1 /\ n < m * BatchRows + 1
  <2>1. n + BatchRows - 1 \in Nat
    BY <1>1
  <2>2. /\ m \in Nat /\ m * BatchRows <= n + BatchRows - 1
        /\ n + BatchRows - 1 < m * BatchRows + BatchRows
    BY <2>1, <1>1, Quotient
  <2>3. m * BatchRows \in Int
    BY <2>2, <1>1
  <2> HIDE DEF m, n
  <2> QED BY <2>2, <2>3, <1>1
<1> HIDE DEF m
<1>3. ASSUME NEW i \in 1 .. m
      PROVE  /\ first(i) \in 1 .. n /\ last(i) \in first(i) .. n
             /\ last(i) = IF i * BatchRows <= n THEN i * BatchRows ELSE n
  <2>1. i * BatchRows \in Int /\ i * BatchRows <= m * BatchRows /\ m * BatchRows \in Int
    BY <1>1, <1>2, TimesGrows
  <2>2. (i - 1) * BatchRows = i * BatchRows - BatchRows
    BY <1>1, TimesGrows
  <2>3. (i - 1) * BatchRows >= 0
    BY <1>1, TimesGrows
  <2>4. last(i) \in {i * BatchRows, n} /\ \A y \in {i * BatchRows, n} : last(i) <= y
    <3>1. IsFiniteSet({i * BatchRows, n})
      <4>1. IsFiniteSet({i * BatchRows}) /\ IsFiniteSet({n})
        BY FS_Singleton
      <4>2. {i * BatchRows, n} = {i * BatchRows} \cup {n}
        OBVIOUS
      <4> QED BY <4>1, <4>2, FS_Union
    <3>2. {i * BatchRows, n} \subseteq Int /\ {i * BatchRows, n} # {}
      BY <2>1, <1>1
    <3> QED BY <3>1, <3>2, MinIs
  <2>5. last(i) = IF i * BatchRows <= n THEN i * BatchRows ELSE n
    BY <2>1, <2>4, <1>1
  <2> DEFINE k == i * BatchRows
  <2>6. k \in Int /\ k <= n + BatchRows - 1
    BY <2>1, <1>1, <1>2
  <2>7. first(i) = k - BatchRows + 1 /\ k - BatchRows >= 0
    BY <2>2, <2>3
  <2> HIDE DEF k, first, last, n
  <2>8. first(i) \in 1 .. n
    BY <2>6, <2>7, <1>1
  <2>9. last(i) \in first(i) .. n
    BY <2>5, <2>6, <2>7, <2>8, <1>1 DEF k
  <2> QED BY <2>5, <2>8, <2>9
<1>4. ASSUME NEW i \in 1 .. m
      PROVE  SubSeq(rows, first(i), last(i)) \in Batch
  <2> DEFINE p == first(i)
             q == last(i)
  <2>1. p \in 1 .. n /\ q \in p .. n
    BY <1>3
  <2> HIDE DEF p, q
  <2> DEFINE s == SubSeq(rows, p, q)
  <2>2. \A j \in p .. q : rows[j] \in Event
    BY <1>1, <2>1
  <2>3. s \in Seq(Event) /\ Len(s) = q - p + 1
    BY <2>1, <2>2, SubSeqProperties
  <2>4. s # <<>>
    BY <2>1, <2>3
  <2> QED BY <2>3, <2>4 DEF Batch, p, q
<1>5. Batched(rows) = [i \in 1 .. m |-> SubSeq(rows, first(i), last(i))]
  BY DEF Batched, m
<1> HIDE DEF first, last
<1>6. Batched(rows) \in [1 .. m -> Batch]
  BY <1>4, <1>5
<1>7. Batched(rows) \in Chunk
  BY <1>2, <1>6 DEF Chunk
<1> DEFINE bs == Batched(rows)
           cut(i) == IF i * BatchRows <= n THEN i * BatchRows ELSE n
           T == {i \in Nat : i <= m => FlattenSeq(SubSeq(bs, 1, i)) = SubSeq(rows, 1, cut(i))}
<1>8. /\ bs \in Seq(Seq(Event)) /\ Len(bs) = m
      /\ \A i \in 1 .. m : bs[i] = SubSeq(rows, first(i), last(i)) /\ bs[i] \in Seq(Event)
  <2>1. \A i \in 1 .. m : bs[i] = SubSeq(rows, first(i), last(i))
    BY <1>5
  <2>2. bs \in [1 .. m -> Batch]
    BY <1>6
  <2> HIDE DEF bs
  <2>3. bs \in [1 .. m -> Seq(Event)]
    BY <2>2 DEF Batch
  <2>4. bs \in Seq(Seq(Event)) /\ Len(bs) = m
    BY <2>3, <1>2
  <2> QED BY <2>1, <2>3, <2>4
<1> HIDE DEF bs
<1>9. 0 \in T
  <2>1. cut(0) = 0
    BY <1>1
  <2>2. SubSeq(bs, 1, 0) = <<>> /\ SubSeq(rows, 1, 0) = <<>>
    BY SubSeqEmpty
  <2> QED BY <2>1, <2>2, FlattenNone
<1>10. ASSUME NEW i \in Nat, i \in T PROVE i + 1 \in T
  <2> SUFFICES ASSUME i + 1 <= m
               PROVE  FlattenSeq(SubSeq(bs, 1, i + 1)) = SubSeq(rows, 1, cut(i + 1))
    OBVIOUS
  <2> DEFINE so_far == SubSeq(bs, 1, i)
             k == cut(i)
             l == cut(i + 1)
  <2>1. i + 1 \in 1 .. m /\ (i + 1) - 1 = i
    BY <1>2
  <2>2. FlattenSeq(so_far) = SubSeq(rows, 1, k)
    BY <1>10, <1>2
  <2>3. first(i + 1) = k + 1 /\ last(i + 1) = l /\ k \in 0 .. n /\ l \in k .. n
    <3>1. first(i + 1) = i * BatchRows + 1
      BY <2>1 DEF first
    <3>2. first(i + 1) \in 1 .. n /\ last(i + 1) \in first(i + 1) .. n /\ last(i + 1) = l
      BY <2>1, <1>3
    <3>3. i * BatchRows \in Nat
      BY <1>1
    <3>4. k = i * BatchRows
      BY <3>1, <3>2, <3>3, <1>1
    <3> HIDE DEF k, l, n
    <3> QED BY <3>1, <3>2, <3>3, <3>4, <1>1
  <2> HIDE DEF T, k, l
  <2>4. /\ so_far \in Seq(Seq(Event)) /\ bs[i + 1] \in Seq(Event)
        /\ SubSeq(bs, 1, i + 1) = Append(so_far, bs[i + 1])
    <3>1. \A j \in 1 .. i : bs[j] \in Seq(Event)
      BY <1>8, <2>1
    <3>2. so_far \in Seq(Seq(Event))
      BY <3>1, SubSeqProperties
    <3>3. 1 \in 1 .. Len(bs) /\ i + 1 \in 1 .. Len(bs)
      BY <2>1, <1>8, <1>2
    <3>4. SubSeq(bs, 1, i + 1) = so_far \o <<bs[i + 1]>>
      BY <3>3, <2>1, <1>8, SubSeqRecursiveSecond
    <3>5. bs[i + 1] \in Seq(Event)
      BY <2>1, <1>8
    <3> HIDE DEF so_far
    <3>6. so_far \o <<bs[i + 1]>> = Append(so_far, bs[i + 1])
      BY <3>2, <3>5
    <3> QED BY <3>2, <3>4, <3>5, <3>6
  <2> HIDE DEF so_far
  <2>5. FlattenSeq(SubSeq(bs, 1, i + 1)) = SubSeq(rows, 1, k) \o SubSeq(rows, k + 1, l)
    <3>1. FlattenSeq(Append(so_far, bs[i + 1])) = FlattenSeq(so_far) \o bs[i + 1]
      BY <2>4, FlattenAppend
    <3>2. bs[i + 1] = SubSeq(rows, k + 1, l)
      BY <2>1, <2>3, <1>8
    <3> QED BY <3>1, <3>2, <2>2, <2>4
  <2>6. SubSeq(rows, 1, k) \o SubSeq(rows, k + 1, l) = SubSeq(rows, 1, l)
    <3>1. 1 \in 1 .. Len(rows) + 1 /\ k \in 1 - 1 .. Len(rows) /\ l \in k .. Len(rows)
      BY <2>3, <1>1
    <3> QED BY <3>1, ConcatAdjacentSubSeq
  <2> QED BY <2>5, <2>6 DEF l
<1>11. m \in T
  <2> HIDE DEF T
  <2>1. \A i \in Nat : i \in T
    BY <1>9, <1>10, NaturalInduction
  <2> QED BY <2>1, <1>2
<1>12. SubSeq(bs, 1, m) = bs /\ SubSeq(rows, 1, n) = rows
  BY <1>8, SubSeqFull
<1>13. cut(m) = n
  <2>1. m * BatchRows \in Nat
    BY <1>1, <1>2
  <2> HIDE DEF n
  <2> QED BY <2>1, <1>1, <1>2
<1>14. FlattenSeq(bs) = rows
  <2>1. FlattenSeq(SubSeq(bs, 1, m)) = SubSeq(rows, 1, cut(m))
    BY <1>2, <1>11
  <2> QED BY <2>1, <1>12, <1>13
<1> QED BY <1>7, <1>14 DEF bs

LEMMA TotalIsSum == \A sizes : Total(sizes) = SumOf(sizes, DOMAIN sizes)
  BY DEF Total, FoldSeq, FoldFunction, FoldFunctionOnSet, SumOf, MapThenSumSet

LEMMA TotalType ==
    ASSUME NEW sizes \in Seq(Nat)
    PROVE  Total(sizes) \in Nat
<1>1. DOMAIN sizes = 1 .. Len(sizes) /\ Len(sizes) \in Nat
  OBVIOUS
<1>2. IsFiniteSet(DOMAIN sizes)
  BY <1>1, FS_Interval
<1>3. \A i \in DOMAIN sizes : sizes[i] \in Int /\ sizes[i] \in Nat
  OBVIOUS
<1>4. SumOf(sizes, DOMAIN sizes) \in Nat
  BY <1>2, <1>3, SumType
<1> QED BY <1>4, TotalIsSum

LEMMA IpcSizeType ==
    ASSUME NEW batch \in Batch
    PROVE  IpcSize(batch) \in Nat
<1> DEFINE sizes == [i \in DOMAIN batch |-> batch[i].size]
<1>1. \A i \in DOMAIN batch : batch[i].size \in Nat
  <2> SUFFICES ASSUME NEW i \in DOMAIN batch PROVE batch[i].size \in Nat
    OBVIOUS
  <2>1. batch[i] \in Event
    BY DEF Batch
  <2> QED BY <2>1, PlanAssumption
<1>2. DOMAIN batch = 1 .. Len(batch) /\ Len(batch) \in Nat
  BY DEF Batch
<1>3. sizes \in [1 .. Len(batch) -> Nat]
  BY <1>1, <1>2
<1>4. sizes \in Seq(Nat)
  BY <1>2, <1>3
<1>5. Total(sizes) \in Nat
  BY <1>4, TotalType
<1> QED BY <1>5, PlanAssumption DEF IpcSize

Sizes(chunk) == [i \in DOMAIN chunk |-> IpcSize(chunk[i])]

LEMMA SizesType ==
    ASSUME NEW chunk \in Chunk
    PROVE  /\ Sizes(chunk) \in Seq(Nat) /\ Len(Sizes(chunk)) = Len(chunk)
           /\ \A i \in 1 .. Len(chunk) : Sizes(chunk)[i] = IpcSize(chunk[i])
<1>1. DOMAIN chunk = 1 .. Len(chunk) /\ Len(chunk) \in Nat
  BY DEF Chunk
<1>2. \A i \in 1 .. Len(chunk) : IpcSize(chunk[i]) \in Nat
  <2> SUFFICES ASSUME NEW i \in 1 .. Len(chunk) PROVE IpcSize(chunk[i]) \in Nat
    OBVIOUS
  <2>1. chunk[i] \in Batch
    BY DEF Chunk
  <2> QED BY <2>1, IpcSizeType
<1>3. Sizes(chunk) \in [1 .. Len(chunk) -> Nat]
  BY <1>1, <1>2 DEF Sizes
<1>4. Sizes(chunk) \in Seq(Nat) /\ Len(Sizes(chunk)) = Len(chunk)
  BY <1>1, <1>3
<1> QED BY <1>1, <1>4 DEF Sizes

LEMMA ChunkSizeType ==
    ASSUME NEW chunk \in Chunk
    PROVE  ChunkSize(chunk) \in Nat
BY SizesType, TotalType DEF ChunkSize, Sizes

LEMMA ChunkSizeOfNone == ChunkSize(<<>>) = 0
<1>1. DOMAIN Sizes(<<>>) = {}
  BY DEF Sizes
<1>2. ChunkSize(<<>>) = SumOf(Sizes(<<>>), {})
  BY <1>1, TotalIsSum DEF ChunkSize, Sizes
<1> QED BY <1>2, SumEmpty

LEMMA ChunkSizeAppend ==
    ASSUME NEW chunk \in Chunk, NEW batch \in Batch
    PROVE  ChunkSize(Append(chunk, batch)) = ChunkSize(chunk) + IpcSize(batch)
<1> DEFINE longer == Append(chunk, batch)
           es == Sizes(chunk)
           x == IpcSize(batch)
           fs == Append(es, x)
<1>1. longer \in Chunk /\ Len(longer) = Len(chunk) + 1 /\ Len(chunk) \in Nat
  BY AppendProperties DEF Chunk
<1>2. /\ es \in Seq(Nat) /\ Len(es) = Len(chunk) /\ x \in Nat
      /\ \A i \in 1 .. Len(chunk) : es[i] = IpcSize(chunk[i])
  BY SizesType, IpcSizeType
<1>3. \A i \in 1 .. Len(chunk) : longer[i] = chunk[i]
  BY AppendProperties DEF Chunk
<1>4. longer[Len(chunk) + 1] = batch
  BY AppendProperties DEF Chunk
<1> HIDE DEF longer, es, x
<1>5. /\ Sizes(longer) \in Seq(Nat) /\ Len(Sizes(longer)) = Len(chunk) + 1
      /\ \A i \in 1 .. Len(chunk) + 1 : Sizes(longer)[i] = IpcSize(longer[i])
  BY <1>1, SizesType
<1>6. /\ fs \in Seq(Nat) /\ Len(fs) = Len(chunk) + 1
      /\ \A i \in 1 .. Len(chunk) : fs[i] = es[i]
      /\ fs[Len(chunk) + 1] = x
  BY <1>2, AppendProperties
<1> HIDE DEF fs
<1>7. \A i \in 1 .. Len(chunk) + 1 : Sizes(longer)[i] = fs[i]
  <2> SUFFICES ASSUME NEW i \in 1 .. Len(chunk) + 1 PROVE Sizes(longer)[i] = fs[i]
    OBVIOUS
  <2>1. CASE i = Len(chunk) + 1
    BY <2>1, <1>4, <1>5, <1>6 DEF x
  <2>2. CASE i # Len(chunk) + 1
    <3>1. i \in 1 .. Len(chunk)
      BY <2>2, <1>1
    <3> QED BY <3>1, <1>2, <1>3, <1>5, <1>6
  <2> QED BY <2>1, <2>2
<1>8. Sizes(longer) = fs
  BY <1>5, <1>6, <1>7, SeqEqual
<1>9. SumOf(fs, DOMAIN fs) = SumOf(es, DOMAIN es) + x
  BY <1>2, SumAppend DEF fs
<1>10. ChunkSize(longer) = SumOf(fs, DOMAIN fs)
  BY <1>8, TotalIsSum DEF ChunkSize, Sizes
<1>11. ChunkSize(chunk) = SumOf(es, DOMAIN es)
  BY TotalIsSum DEF ChunkSize, Sizes, es
<1> QED BY <1>9, <1>10, <1>11 DEF longer, x

-----------------------------------------------------------------------------
(* The loop of the split *)

\* What SplitSound says of a chunk, and of two that follow each other.
Fits(chunk) ==
    chunk # <<>> /\ (ChunkSize(chunk) <= TargetBytes \/ Len(chunk) = 1)
Apart(chunk, next) == ChunkSize(chunk) + IpcSize(next[1]) > TargetBytes

Sound(chunks) ==
    \A i \in 1 .. Len(chunks) :
      Fits(chunks[i]) /\ (i < Len(chunks) => Apart(chunks[i], chunks[i + 1]))

LEMMA SoundAppend ==
    ASSUME NEW chunks \in Seq(Chunk), NEW chunk \in Chunk
    PROVE  Sound(Append(chunks, chunk)) <=>
             /\ Sound(chunks) /\ Fits(chunk)
             /\ chunks # <<>> => Apart(chunks[Len(chunks)], chunk)
<1> DEFINE longer == Append(chunks, chunk)
           n == Len(chunks)
<1>1. /\ n \in Nat /\ Len(longer) = n + 1 /\ longer[n + 1] = chunk
      /\ \A i \in 1 .. n : longer[i] = chunks[i]
      /\ chunks # <<>> <=> n # 0
  BY AppendProperties
<1> HIDE DEF longer, n
<1>2. ASSUME Sound(longer)
      PROVE  /\ Sound(chunks) /\ Fits(chunk)
             /\ chunks # <<>> => Apart(chunks[n], chunk)
  <2>1. ASSUME NEW i \in 1 .. n
        PROVE  Fits(chunks[i]) /\ (i < n => Apart(chunks[i], chunks[i + 1]))
    <3>1. i \in 1 .. n + 1 /\ i < n + 1
      BY <1>1
    <3>2. Fits(longer[i]) /\ Apart(longer[i], longer[i + 1])
      BY <3>1, <1>1, <1>2 DEF Sound
    <3>3. i < n => longer[i + 1] = chunks[i + 1]
      BY <1>1
    <3> QED BY <3>2, <3>3, <1>1
  <2>2. Fits(chunk)
    <3>1. n + 1 \in 1 .. n + 1
      BY <1>1
    <3> QED BY <3>1, <1>1, <1>2 DEF Sound
  <2>3. ASSUME n # 0 PROVE Apart(chunks[n], chunk)
    <3>1. n \in 1 .. n + 1 /\ n < n + 1 /\ n \in 1 .. n
      BY <1>1, <2>3
    <3> QED BY <3>1, <1>1, <1>2 DEF Sound
  <2>4. Sound(chunks)
    BY <2>1 DEF Sound, n
  <2> QED BY <2>2, <2>3, <2>4, <1>1
<1>3. ASSUME Sound(chunks), Fits(chunk), chunks # <<>> => Apart(chunks[n], chunk)
      PROVE  Sound(longer)
  <2> SUFFICES ASSUME NEW i \in 1 .. n + 1
               PROVE  /\ Fits(longer[i])
                      /\ i < n + 1 => Apart(longer[i], longer[i + 1])
    BY <1>1 DEF Sound
  <2>1. CASE i = n + 1
    BY <2>1, <1>1, <1>3
  <2>2. CASE i = n
    <3>1. i \in 1 .. n /\ n # 0 /\ i \in 1 .. Len(chunks)
      BY <2>2, <1>1 DEF n
    <3>2. Fits(chunks[i])
      BY <3>1, <1>3 DEF Sound
    <3> QED BY <3>1, <3>2, <2>2, <1>1, <1>3
  <2>3. CASE i < n
    <3>1. i \in 1 .. n /\ i + 1 \in 1 .. n
      BY <2>3, <1>1
    <3>2. Fits(chunks[i]) /\ Apart(chunks[i], chunks[i + 1])
      BY <3>1, <2>3, <1>3 DEF Sound, n
    <3> QED BY <3>1, <3>2, <1>1
  <2> QED BY <2>1, <2>2, <2>3, <1>1
<1> QED BY <1>2, <1>3 DEF longer, n

Acc == [chunks : Seq(Chunk), current : Chunk, bytes : Nat]
NoneYet == [chunks |-> <<>>, current |-> <<>>, bytes |-> 0]

\* After i batches: they are in acc in their order, and but for its last chunk,
\* which may still grow, the chunks are as they will be.
AccInv(acc, batches, i) ==
    /\ acc \in Acc
    /\ FlattenSeq(acc.chunks) \o acc.current = SubSeq(batches, 1, i)
    /\ acc.bytes = ChunkSize(acc.current)
    /\ IF acc.current = <<>> THEN acc.chunks = <<>> ELSE Sound(Closed(acc))

LEMMA NoneYetInv ==
    ASSUME NEW batches
    PROVE  AccInv(NoneYet, batches, 0)
<1>1. NoneYet \in Acc
  BY DEF NoneYet, Acc, Chunk
<1>2. <<>> \o <<>> = <<>> /\ SubSeq(batches, 1, 0) = <<>>
  BY SubSeqEmpty
<1> QED BY <1>1, <1>2, FlattenNone, ChunkSizeOfNone DEF AccInv, NoneYet

LEMMA WithBatchType ==
    ASSUME NEW acc \in Acc, NEW batch \in Batch
    PROVE  WithBatch(acc, batch) \in Acc
<1>1. acc.chunks \in Seq(Chunk) /\ acc.current \in Chunk /\ acc.bytes \in Nat
  BY DEF Acc
<1>2. IpcSize(batch) \in Nat /\ <<batch>> \in Chunk /\ Append(acc.current, batch) \in Chunk
  BY <1>1, IpcSizeType, AppendProperties DEF Chunk
<1>3. Append(acc.chunks, acc.current) \in Seq(Chunk)
  BY <1>1, AppendProperties
<1>4. acc.bytes + IpcSize(batch) \in Nat
  BY <1>1, <1>2
<1>5. CASE Full(acc, IpcSize(batch))
  BY <1>2, <1>3, <1>5 DEF WithBatch, Closed, Acc
<1>6. CASE ~Full(acc, IpcSize(batch))
  <2>1. WithBatch(acc, batch) =
          [chunks |-> acc.chunks, current |-> Append(acc.current, batch),
           bytes |-> acc.bytes + IpcSize(batch)]
    BY <1>6 DEF WithBatch, Acc
  <2> QED BY <2>1, <1>1, <1>2, <1>4 DEF Acc
<1> QED BY <1>5, <1>6

LEMMA WithBatchInv ==
    ASSUME NEW batches \in Seq(Batch), NEW i \in 1 .. Len(batches), NEW acc,
           AccInv(acc, batches, i - 1)
    PROVE  AccInv(WithBatch(acc, batches[i]), batches, i)
<1> DEFINE batch == batches[i]
           size == IpcSize(batch)
           new == WithBatch(acc, batch)
           chunks == acc.chunks
           current == acc.current
           so_far == FlattenSeq(chunks)
<1>1. batch \in Batch
  OBVIOUS
<1>2. acc \in Acc
  BY DEF AccInv
<1>3. chunks \in Seq(Chunk) /\ current \in Chunk /\ acc.bytes \in Nat
  BY <1>2 DEF Acc
<1>4. so_far \in Seq(Batch)
  <2>1. chunks \in Seq(Seq(Batch))
    BY <1>3 DEF Chunk
  <2> HIDE DEF chunks
  <2> QED BY <2>1, FlattenType
<1>5. size \in Nat /\ ChunkSize(current) \in Nat /\ acc.bytes = ChunkSize(current)
  BY <1>1, <1>3, IpcSizeType, ChunkSizeType DEF AccInv
<1>6. (so_far \o current) \o <<batch>> = SubSeq(batches, 1, i)
  <2>1. so_far \o current = SubSeq(batches, 1, i - 1)
    BY DEF AccInv
  <2>2. SubSeq(batches, 1, i) = SubSeq(batches, 1, i - 1) \o <<batch>>
    <3>1. 1 \in 1 .. Len(batches) /\ i \in 1 .. Len(batches)
      OBVIOUS
    <3> QED BY <3>1, SubSeqRecursiveSecond
  <2> QED BY <2>1, <2>2
<1>7. new \in Acc
  BY <1>1, <1>2, WithBatchType
<1>8. <<batch>> \in Chunk /\ Len(<<batch>>) = 1 /\ <<batch>>[1] = batch
  BY <1>1 DEF Chunk
<1>9. CASE Full(acc, size)
  <2>1. /\ new.chunks = Append(chunks, current) /\ new.current = <<batch>>
        /\ new.bytes = size
    BY <1>9 DEF WithBatch, Closed
  <2>2. current # <<>> /\ ChunkSize(current) + size > TargetBytes
    BY <1>9, <1>5 DEF Full
  <2>3. ChunkSize(<<batch>>) = size
    <3>1. Append(<<>>, batch) = <<batch>> /\ <<>> \in Chunk
      BY DEF Chunk
    <3>2. ChunkSize(<<batch>>) = 0 + size
      BY <3>1, <1>1, ChunkSizeAppend, ChunkSizeOfNone
    <3> QED BY <3>2, <1>5
  <2>4. Sound(Append(chunks, current))
    BY <2>2 DEF AccInv, Closed
  <2>5. Sound(Append(Append(chunks, current), <<batch>>))
    <3> DEFINE cs == Append(chunks, current)
    <3>1. cs \in Seq(Chunk) /\ cs # <<>> /\ cs[Len(cs)] = current
      BY <1>3, AppendProperties
    <3>2. Fits(<<batch>>)
      BY <1>8 DEF Fits
    <3>3. Apart(current, <<batch>>)
      BY <2>2, <1>8 DEF Apart
    <3> HIDE DEF cs, current, chunks
    <3>4. Sound(cs)
      BY <2>4 DEF cs
    <3>5. Sound(Append(cs, <<batch>>))
      BY <3>1, <3>2, <3>3, <3>4, <1>8, SoundAppend
    <3> QED BY <3>5 DEF cs
  <2>6. FlattenSeq(Append(chunks, current)) = so_far \o current
    <3>1. chunks \in Seq(Seq(Batch)) /\ current \in Seq(Batch)
      BY <1>3 DEF Chunk
    <3> HIDE DEF chunks, current
    <3> QED BY <3>1, FlattenAppend DEF so_far
  <2>7. FlattenSeq(new.chunks) \o new.current = SubSeq(batches, 1, i)
    BY <2>1, <2>6, <1>6
  <2>8. new.bytes = ChunkSize(new.current) /\ new.current # <<>>
    BY <2>1, <2>3, <1>8
  <2>9. Closed(new) = Append(Append(chunks, current), <<batch>>)
    BY <2>1 DEF Closed
  <2> QED BY <2>5, <2>7, <2>8, <2>9, <1>7 DEF AccInv
<1>10. CASE ~Full(acc, size)
  <2> DEFINE longer == Append(current, batch)
  <2>1. new.chunks = chunks /\ new.current = longer /\ new.bytes = acc.bytes + size
    BY <1>10, <1>2 DEF WithBatch, Acc
  <2>2. /\ longer \in Chunk /\ longer # <<>> /\ Len(longer) = Len(current) + 1
        /\ ChunkSize(longer) = ChunkSize(current) + size
    BY <1>1, <1>3, AppendProperties, ChunkSizeAppend DEF Chunk
  <2>3. so_far \o longer = (so_far \o current) \o <<batch>>
    <3>1. longer = current \o <<batch>> /\ current \in Seq(Batch) /\ <<batch>> \in Seq(Batch)
      BY <1>1, <1>3, AppendIsConcat DEF Chunk
    <3> HIDE DEF so_far, current, longer
    <3> QED BY <3>1, <1>4, ConcatAssociative
  <2>4. Sound(Append(chunks, longer))
    <3>1. CASE current = <<>>
      <4>1. chunks = <<>>
        BY <3>1 DEF AccInv
      <4>2. Fits(longer)
        BY <3>1, <2>2 DEF Fits
      <4>3. Sound(<<>>)
        BY DEF Sound
      <4> HIDE DEF longer, chunks
      <4> QED BY <4>1, <4>2, <4>3, <2>2, <1>3, SoundAppend
    <3>2. CASE current # <<>>
      <4>1. Sound(Append(chunks, current))
        BY <3>2 DEF AccInv, Closed
      <4>2. ChunkSize(current) + size <= TargetBytes
        <5>1. ~(ChunkSize(current) + size > TargetBytes)
          BY <3>2, <1>10, <1>5 DEF Full
        <5> QED BY <5>1, <1>5, PlanAssumption
      <4>3. Fits(longer)
        BY <4>2, <2>2 DEF Fits
      <4>4. longer[1] = current[1]
        <5>1. 1 \in 1 .. Len(current)
          BY <3>2, <1>3 DEF Chunk
        <5> QED BY <5>1, <1>1, <1>3, AppendProperties DEF Chunk
      <4> HIDE DEF longer, chunks, current
      <4>5. Sound(chunks) /\ (chunks # <<>> => Apart(chunks[Len(chunks)], current))
        BY <4>1, <1>3, SoundAppend
      <4>6. chunks # <<>> => Apart(chunks[Len(chunks)], longer)
        BY <4>4, <4>5 DEF Apart
      <4> QED BY <4>3, <4>5, <4>6, <2>2, <1>3, SoundAppend
    <3> QED BY <3>1, <3>2
  <2>5. FlattenSeq(new.chunks) \o new.current = SubSeq(batches, 1, i)
    BY <2>1, <2>3, <1>6
  <2>6. new.bytes = ChunkSize(new.current) /\ new.current # <<>>
    BY <2>1, <2>2, <1>5
  <2>7. Closed(new) = Append(chunks, longer)
    BY <2>1 DEF Closed
  <2> QED BY <2>4, <2>5, <2>6, <2>7, <1>7 DEF AccInv
<1> QED BY <1>9, <1>10

\* acc is the function that Split evaluates.
Accumulates(acc, batches) ==
    acc = [i \in 0 .. Len(batches) |->
             IF i = 0 THEN [chunks |-> <<>>, current |-> <<>>, bytes |-> 0]
             ELSE WithBatch(acc[i - 1], batches[i])]

LEMMA SplitUnfold ==
    ASSUME NEW batches
    PROVE  LET last == (CHOOSE acc : Accumulates(acc, batches))[Len(batches)]
           IN  Split(batches) = IF last.current # <<>> THEN Closed(last) ELSE last.chunks
BY DEF Split, Accumulates

LEMMA AccumulatesExists ==
    ASSUME NEW batches \in Seq(Batch)
    PROVE  \E acc : Accumulates(acc, batches)
<1> DEFINE n == Len(batches)
           step == [p \in Acc \X (1 .. n) |-> WithBatch(p[1], batches[p[2]])]
<1>1. n \in Nat
  OBVIOUS
<1>2. NoneYet \in Acc
  BY NoneYetInv DEF AccInv
<1>3. step \in [Acc \X (1 .. n) -> Acc]
  <2>1. ASSUME NEW acc \in Acc, NEW i \in 1 .. n
        PROVE  WithBatch(acc, batches[i]) \in Acc
    <3>1. batches[i] \in Batch
      OBVIOUS
    <3> QED BY <3>1, WithBatchType
  <2> QED BY <2>1
<1>4. \A acc \in Acc, i \in 1 .. n : step[<<acc, i>>] = WithBatch(acc, batches[i])
  OBVIOUS
<1> HIDE DEF step
<1>5. Stays(step, Acc, n, NoneYet)
  BY <1>1, <1>2, <1>3 DEF Stays
<1>6. PICK f : Solution(f, step, Acc, n, NoneYet)
  BY <1>5, RecursionExists
<1>7. ASSUME NEW i \in 0 .. n
      PROVE  f[i] = IF i = 0 THEN NoneYet ELSE WithBatch(f[i - 1], batches[i])
  <2>1. CASE i = 0
    BY <2>1, <1>6 DEF Solution
  <2>2. CASE i # 0
    <3>1. i \in 1 .. n /\ i - 1 \in 0 .. n
      BY <2>2, <1>1
    <3>2. f[i] = step[<<f[i - 1], i>>] /\ f[i - 1] \in Acc
      BY <3>1, <1>6 DEF Solution
    <3> QED BY <3>1, <3>2, <2>2, <1>4
  <2> QED BY <2>1, <2>2
<1>8. f = [i \in 0 .. n |-> f[i]]
  BY <1>6 DEF Solution
<1>9. Accumulates(f, batches)
  BY <1>7, <1>8 DEF Accumulates, NoneYet
<1> QED BY <1>9

LEMMA SplitIs ==
    ASSUME NEW batches \in Seq(Batch)
    PROVE  /\ Split(batches) \in Seq(Chunk) /\ Sound(Split(batches))
           /\ FlattenSeq(Split(batches)) = batches
<1> DEFINE acc == CHOOSE f : Accumulates(f, batches)
           n == Len(batches)
           last == acc[n]
           T == {i \in Nat : i <= n => AccInv(acc[i], batches, i)}
<1>1. n \in Nat
  OBVIOUS
<1>2. Accumulates(acc, batches)
  BY AccumulatesExists
<1>3. Split(batches) = IF last.current # <<>> THEN Closed(last) ELSE last.chunks
  BY SplitUnfold
<1> HIDE DEF acc
<1>4. 0 \in T
  <2>1. acc[0] = NoneYet
    BY <1>1, <1>2 DEF Accumulates, NoneYet
  <2> QED BY <2>1, NoneYetInv
<1>5. ASSUME NEW i \in Nat, i \in T PROVE i + 1 \in T
  <2> SUFFICES ASSUME i + 1 <= n PROVE AccInv(acc[i + 1], batches, i + 1)
    OBVIOUS
  <2> DEFINE j == i + 1
  <2>1. j \in 1 .. Len(batches) /\ j - 1 = i /\ j # 0 /\ j \in 0 .. Len(batches)
    BY <1>1
  <2>2. AccInv(acc[i], batches, i)
    BY <1>5, <1>1
  <2> HIDE DEF j
  <2>3. acc[j] = WithBatch(acc[j - 1], batches[j])
    BY <2>1, <1>2 DEF Accumulates
  <2>4. AccInv(acc[j - 1], batches, j - 1)
    BY <2>1, <2>2
  <2>5. AccInv(WithBatch(acc[j - 1], batches[j]), batches, j)
    BY <2>1, <2>4, WithBatchInv
  <2>6. AccInv(acc[j], batches, j)
    BY <2>3, <2>5
  <2> QED BY <2>6 DEF j
<1> HIDE DEF T
<1>6. n \in T
  BY <1>1, <1>4, <1>5, NaturalInduction
<1>7. AccInv(last, batches, n)
  BY <1>1, <1>6 DEF T
<1> HIDE DEF last
<1>8. SubSeq(batches, 1, n) = batches
  BY SubSeqFull
<1>9. last.chunks \in Seq(Chunk) /\ last.current \in Chunk
  BY <1>7 DEF AccInv, Acc
<1>10. FlattenSeq(last.chunks) \o last.current = batches
  BY <1>7, <1>8 DEF AccInv
<1>11. CASE last.current # <<>>
  <2>1. Split(batches) = Append(last.chunks, last.current)
    BY <1>3, <1>11 DEF Closed
  <2>2. Split(batches) \in Seq(Chunk)
    BY <2>1, <1>9, AppendProperties
  <2>3. Sound(Split(batches))
    BY <2>1, <1>7, <1>11 DEF AccInv, Closed
  <2>4. FlattenSeq(Split(batches)) = FlattenSeq(last.chunks) \o last.current
    BY <2>1, <1>9, FlattenAppend DEF Chunk
  <2> QED BY <2>2, <2>3, <2>4, <1>10
<1>12. CASE last.current = <<>>
  <2>1. Split(batches) = <<>> /\ last.chunks = <<>>
    BY <1>3, <1>7, <1>12 DEF AccInv
  <2>2. batches = <<>>
    BY <2>1, <1>10, <1>12, FlattenNone
  <2>3. Sound(<<>>)
    BY DEF Sound
  <2> QED BY <2>1, <2>2, <2>3, FlattenNone
<1> QED BY <1>11, <1>12

-----------------------------------------------------------------------------
(* The files *)

\* Bags by their domains.
LEMMA BagsTogether ==
    ASSUME NEW B, NEW C, IsABag(B), IsABag(C)
    PROVE  IsABag(B (+) C) /\ DOMAIN (B (+) C) = (DOMAIN B) \cup (DOMAIN C)
BY DEF IsABag, (+)

LEMMA BagOfSet == \A S : IsABag(SetToBag(S)) /\ DOMAIN SetToBag(S) = S
BY DEF IsABag, SetToBag

LEMMA BagRestricted ==
    ASSUME NEW B, IsABag(B), NEW S, S \subseteq DOMAIN B
    PROVE  IsABag(Restrict(B, S)) /\ DOMAIN Restrict(B, S) = S
BY DEF IsABag, Restrict

\* What flush and compaction write.
IsFile(f) == f.bucket \in Bucket /\ f.rows \in Batch /\ f = FileOf(f.rows, f.bucket)

LEMMA FileIsFile ==
    ASSUME NEW rows \in Batch, NEW b \in Bucket
    PROVE  IsFile(FileOf(rows, b)) /\ FileOf(rows, b).rows = rows
BY DEF IsFile, FileOf

\* The bounds are taken by rows of the file, and all its rows are within them.
LEMMA Bounds ==
    ASSUME NEW f, IsFile(f)
    PROVE  /\ \A e \in ToSet(f.rows) :
                /\ e \in Event
                /\ f.minTs <= e.ts /\ e.ts <= f.maxTs
                /\ f.minOff <= e.off /\ e.off <= f.maxOff
           /\ f.minTs \in Times(f.rows) /\ f.minTs <= f.maxTs /\ f.minOff <= f.maxOff
           /\ f.minTs \in Int /\ f.maxTs \in Int /\ f.minOff \in Int /\ f.maxOff \in Int
<1> DEFINE rows == f.rows
           D == DOMAIN rows
<1>1. rows \in Seq(Event) /\ rows # <<>>
  BY DEF IsFile, Batch
<1>2. D = 1 .. Len(rows) /\ Len(rows) \in Nat /\ Len(rows) # 0
  BY <1>1
<1>3. IsFiniteSet(D) /\ D # {}
  <2>1. 1 \in D
    BY <1>2
  <2>2. IsFiniteSet(1 .. Len(rows))
    BY <1>2, FS_Interval
  <2> HIDE DEF D, rows
  <2> QED BY <2>1, <2>2, <1>2
<1>4. \A i \in D : rows[i] \in Event /\ rows[i].ts \in Int /\ rows[i].off \in Int
  BY <1>1, PlanAssumption
<1>5. /\ f.minTs = Min(Times(rows)) /\ f.maxTs = Max(Times(rows))
      /\ f.minOff = Min(Offsets(rows)) /\ f.maxOff = Max(Offsets(rows))
  BY DEF IsFile, FileOf
<1> HIDE DEF rows, D
<1>6. IsFiniteSet(Times(rows)) /\ Times(rows) # {} /\ Times(rows) \subseteq Int
  <2> DEFINE g == [i \in D |-> rows[i].ts]
  <2>1. Times(rows) = {g[i] : i \in D}
    BY DEF Times, D
  <2>2. DOMAIN g = D
    OBVIOUS
  <2> HIDE DEF g
  <2>3. IsFiniteSet(Times(rows))
    BY <2>1, <2>2, <1>3, ImageIsFinite
  <2> QED BY <2>3, <1>3, <1>4 DEF Times, D
<1>7. IsFiniteSet(Offsets(rows)) /\ Offsets(rows) # {} /\ Offsets(rows) \subseteq Int
  <2> DEFINE g == [i \in D |-> rows[i].off]
  <2>1. Offsets(rows) = {g[i] : i \in D}
    BY DEF Offsets, D
  <2>2. DOMAIN g = D
    OBVIOUS
  <2> HIDE DEF g
  <2>3. IsFiniteSet(Offsets(rows))
    BY <2>1, <2>2, <1>3, ImageIsFinite
  <2> QED BY <2>3, <1>3, <1>4 DEF Offsets, D
<1>8. /\ f.minTs \in Times(rows) /\ f.maxTs \in Times(rows)
      /\ \A t \in Times(rows) : f.minTs <= t /\ t <= f.maxTs
  BY <1>5, <1>6, MinIs, MaxIs
<1>9. /\ f.minOff \in Offsets(rows) /\ f.maxOff \in Offsets(rows)
      /\ \A o \in Offsets(rows) : f.minOff <= o /\ o <= f.maxOff
  BY <1>5, <1>7, MinIs, MaxIs
<1>10. ASSUME NEW e \in ToSet(rows)
       PROVE  e \in Event /\ e.ts \in Times(rows) /\ e.off \in Offsets(rows)
  BY <1>4 DEF ToSet, Times, Offsets, D
<1> QED BY <1>6, <1>7, <1>8, <1>9, <1>10 DEF rows

LEMMA BucketOfType ==
    ASSUME NEW rows \in Batch
    PROVE  BucketOf(rows) \in Bucket
<1>1. rows \in Seq(Event) /\ rows # <<>>
  BY DEF Batch
<1>2. 1 \in DOMAIN rows /\ \A i \in DOMAIN rows : rows[i] \in Event
  BY <1>1
<1>3. IsFiniteSet(Times(rows)) /\ Times(rows) # {} /\ Times(rows) \subseteq Int
  <2> DEFINE g == [i \in DOMAIN rows |-> rows[i].ts]
  <2>1. Times(rows) = {g[i] : i \in DOMAIN rows} /\ DOMAIN g = DOMAIN rows
    BY DEF Times
  <2> HIDE DEF g
  <2>2. IsFiniteSet(DOMAIN rows)
    <3>1. DOMAIN rows = 1 .. Len(rows) /\ Len(rows) \in Nat
      BY <1>1
    <3> QED BY <3>1, FS_Interval
  <2>3. IsFiniteSet(Times(rows))
    BY <2>1, <2>2, ImageIsFinite
  <2> QED BY <2>3, <1>2, PlanAssumption DEF Times
<1>4. Min(Times(rows)) \in Times(rows)
  BY <1>3, MinIs
<1>5. PICK i \in DOMAIN rows : Min(Times(rows)) = rows[i].ts
  BY <1>4 DEF Times
<1>6. /\ rows[1].svc \in {e.svc : e \in Event}
      /\ rows[i].ts \div HourLen \in {e.ts \div HourLen : e \in Event}
  BY <1>2
<1> QED BY <1>5, <1>6 DEF BucketOf, Bucket

\* A compaction writes the rows of the files that it replaces.
LEMMA CompactedIs ==
    ASSUME NEW b \in Bucket, \A f \in DOMAIN files : IsFile(f)
    PROVE  /\ IsFiniteSet(Compacted(b)) /\ \A f \in Compacted(b) : IsFile(f)
           /\ RowsOf(Compacted(b)) = RowsOf(FilesOf(b))
           /\ ChunksOf(b) \in Seq(Chunk) /\ Sound(ChunksOf(b))
           /\ FlattenSeq(ChunksOf(b)) = Batched(Merged(RowsOf(FilesOf(b))))
<1> DEFINE rows == RowsOf(FilesOf(b))
           batches == Batched(Merged(rows))
           chunks == Split(batches)
<1>1. rows \subseteq Event
  <2> SUFFICES ASSUME NEW f \in FilesOf(b) PROVE ToSet(f.rows) \subseteq Event
    BY DEF RowsOf
  <2>1. IsFile(f)
    BY DEF FilesOf
  <2> QED BY <2>1, Bounds
<1> HIDE DEF rows
<1>2. Merged(rows) \in Seq(Event) /\ ToSet(Merged(rows)) = rows
  BY <1>1, MergedIs
<1>3. batches \in Chunk /\ UNION {ToSet(batch) : batch \in ToSet(batches)} = rows
  <2>1. batches \in Chunk /\ FlattenSeq(batches) = Merged(rows)
    BY <1>2, BatchedIs
  <2>2. batches \in Seq(Seq(Event))
    BY <2>1 DEF Chunk, Batch
  <2> HIDE DEF batches
  <2> QED BY <2>1, <2>2, <1>2, FlattenedSet
<1> HIDE DEF batches
<1>4. /\ chunks \in Seq(Chunk) /\ Sound(chunks) /\ FlattenSeq(chunks) = batches
  BY <1>3, SplitIs DEF Chunk
<1>5. chunks = ChunksOf(b)
  BY DEF ChunksOf, batches, rows
<1> HIDE DEF chunks
<1>6. ASSUME NEW chunk \in ToSet(chunks)
      PROVE  /\ chunk \in Seq(Seq(Event)) /\ FlattenSeq(chunk) \in Batch
             /\ ToSet(FlattenSeq(chunk)) = UNION {ToSet(batch) : batch \in ToSet(chunk)}
  <2>1. PICK i \in 1 .. Len(chunks) : chunk = chunks[i]
    BY <1>4 DEF ToSet
  <2>2. chunk \in Chunk /\ chunk # <<>>
    BY <2>1, <1>4 DEF Sound, Fits
  <2>3. chunk \in Seq(Seq(Event))
    BY <2>2 DEF Chunk, Batch
  <2>4. FlattenSeq(chunk) \in Seq(Event)
    BY <2>3, FlattenType
  <2>5. ToSet(FlattenSeq(chunk)) = UNION {ToSet(batch) : batch \in ToSet(chunk)}
    BY <2>3, FlattenedSet
  <2>6. FlattenSeq(chunk) # <<>>
    <3>1. chunk[1] \in Batch /\ chunk[1] \in ToSet(chunk)
      BY <2>2 DEF Chunk, ToSet
    <3>2. chunk[1][1] \in ToSet(chunk[1])
      BY <3>1 DEF Batch, ToSet
    <3>3. ToSet(FlattenSeq(chunk)) # {}
      BY <2>5, <3>1, <3>2
    <3>4. ToSet(<<>>) = {}
      BY DEF ToSet
    <3> QED BY <3>3, <3>4
  <2> QED BY <2>3, <2>4, <2>5, <2>6 DEF Batch
<1>7. \A f \in Compacted(b) : IsFile(f)
  BY <1>5, <1>6, FileIsFile DEF Compacted
<1>8. IsFiniteSet(Compacted(b))
  <2> DEFINE D == DOMAIN chunks
             g == [i \in D |-> FileOf(FlattenSeq(chunks[i]), b)]
  <2>1. D = 1 .. Len(chunks) /\ Len(chunks) \in Nat
    BY <1>4
  <2>2. IsFiniteSet(D)
    BY <2>1, FS_Interval
  <2>3. Compacted(b) = {g[i] : i \in D} /\ DOMAIN g = D
    BY <1>5 DEF Compacted, ToSet
  <2> HIDE DEF D, g
  <2> QED BY <2>2, <2>3, ImageIsFinite
<1>9. RowsOf(Compacted(b)) = UNION {ToSet(FlattenSeq(chunk)) : chunk \in ToSet(chunks)}
  <2>1. \A chunk \in ToSet(chunks) : FileOf(FlattenSeq(chunk), b).rows = FlattenSeq(chunk)
    BY <1>6, FileIsFile
  <2> QED BY <2>1, <1>5 DEF RowsOf, Compacted
<1>10. ToSet(batches) = UNION {ToSet(chunk) : chunk \in ToSet(chunks)}
  <2>1. chunks \in Seq(Seq(Batch))
    BY <1>4 DEF Chunk
  <2> QED BY <2>1, <1>4, FlattenedSet
<1>11. RowsOf(Compacted(b)) = rows
  BY <1>3, <1>6, <1>9, <1>10
<1> QED BY <1>4, <1>5, <1>7, <1>8, <1>11 DEF batches, rows

-----------------------------------------------------------------------------
(* The invariant: the files are as flush and compaction write them, and     *)
(* their rows are the events that were ever flushed.                        *)

PlanInv ==
    /\ IsABag(files) /\ IsFiniteSet(DOMAIN files)
    /\ \A f \in DOMAIN files : IsFile(f)
    /\ stored = RowsOf(DOMAIN files)
    /\ todo \subseteq Bucket /\ flushes \in 0 .. MaxFlushes

LEMMA InitPlan == Init => PlanInv
<1> SUFFICES ASSUME Init PROVE PlanInv
  OBVIOUS
<1>1. IsABag(files) /\ DOMAIN files = {}
  BY BagOfSet DEF Init, EmptyBag
<1>2. RowsOf({}) = {}
  BY DEF RowsOf
<1> QED BY <1>1, <1>2, FS_EmptySet, PlanAssumption DEF Init, PlanInv

LEMMA RowsOfBoth ==
    ASSUME NEW S, NEW T
    PROVE  RowsOf(S \cup T) = RowsOf(S) \cup RowsOf(T)
BY DEF RowsOf

LEMMA FlushPlan ==
    ASSUME PlanInv, NEW batch \in Batches, Flush(batch)
    PROVE  PlanInv'
<1> DEFINE f == FileOf(batch, BucketOf(batch))
<1>1. batch \in Batch
  BY PlanAssumption DEF Batch
<1>2. IsFile(f) /\ f.rows = batch
  BY <1>1, BucketOfType, FileIsFile
<1>3. files' = files (+) SetToBag({f}) /\ stored' = stored \cup ToSet(batch)
  BY DEF Flush
<1> HIDE DEF f
<1>4. IsABag(files') /\ DOMAIN files' = (DOMAIN files) \cup {f}
  BY <1>3, BagsTogether, BagOfSet DEF PlanInv
<1>5. IsFiniteSet(DOMAIN files')
  BY <1>4, FS_AddElement DEF PlanInv
<1>6. \A g \in DOMAIN files' : IsFile(g)
  BY <1>2, <1>4 DEF PlanInv
<1>7. stored' = RowsOf(DOMAIN files')
  <2>1. RowsOf({f}) = ToSet(batch)
    BY <1>2 DEF RowsOf
  <2> QED BY <2>1, <1>3, <1>4, RowsOfBoth DEF PlanInv
<1>8. todo' \subseteq Bucket /\ flushes' \in 0 .. MaxFlushes
  BY PlanAssumption DEF Flush, PlanInv
<1> QED BY <1>4, <1>5, <1>6, <1>7, <1>8 DEF PlanInv

LEMMA CompactPlan ==
    ASSUME PlanInv, NEW b \in Bucket, Compact(b)
    PROVE  PlanInv'
<1>1. todo' \subseteq Bucket /\ UNCHANGED <<flushes, stored>>
  BY DEF Compact, PlanInv
<1>2. CASE FileCount(b) < 2
  <2>1. files' = files
    BY <1>2 DEF Compact
  <2> QED BY <2>1, <1>1 DEF PlanInv
<1>3. CASE ~(FileCount(b) < 2)
  <2> DEFINE rest == DOMAIN files \ FilesOf(b)
             new == Compacted(b)
  <2>1. files' = Restrict(files, rest) (+) SetToBag(new)
    BY <1>3 DEF Compact
  <2>2. IsABag(files) /\ rest \subseteq DOMAIN files
    BY DEF PlanInv
  <2>3. /\ IsFiniteSet(new) /\ \A f \in new : IsFile(f)
        /\ RowsOf(new) = RowsOf(FilesOf(b))
    BY CompactedIs DEF PlanInv
  <2>4. rest \cup FilesOf(b) = DOMAIN files
    BY DEF FilesOf
  <2> HIDE DEF rest, new
  <2>5. IsABag(Restrict(files, rest)) /\ DOMAIN Restrict(files, rest) = rest
    BY <2>2, BagRestricted
  <2>6. IsABag(SetToBag(new)) /\ DOMAIN SetToBag(new) = new
    BY BagOfSet
  <2>7. IsABag(files') /\ DOMAIN files' = rest \cup new
    BY <2>1, <2>5, <2>6, BagsTogether
  <2>8. IsFiniteSet(DOMAIN files')
    <3>1. IsFiniteSet(rest)
      BY <2>2, FS_Subset DEF PlanInv
    <3> QED BY <3>1, <2>3, <2>7, FS_Union
  <2>9. \A f \in DOMAIN files' : IsFile(f)
    BY <2>2, <2>3, <2>7 DEF PlanInv
  <2>10. RowsOf(DOMAIN files') = RowsOf(DOMAIN files)
    <3>1. RowsOf(DOMAIN files') = RowsOf(rest) \cup RowsOf(new)
      BY <2>7, RowsOfBoth
    <3>2. RowsOf(DOMAIN files) = RowsOf(rest) \cup RowsOf(FilesOf(b))
      BY <2>4, RowsOfBoth
    <3> QED BY <3>1, <3>2, <2>3
  <2> QED BY <2>7, <2>8, <2>9, <2>10, <1>1 DEF PlanInv
<1> QED BY <1>2, <1>3

LEMMA NextPlan == PlanInv /\ [Next]_vars => PlanInv'
<1> SUFFICES ASSUME PlanInv, [Next]_vars PROVE PlanInv'
  OBVIOUS
<1>1. CASE \E batch \in Batches : Flush(batch)
  BY <1>1, FlushPlan
<1>2. CASE ThresholdTick
  BY <1>2 DEF ThresholdTick, PlanInv
<1>3. CASE ScheduleTick
  BY <1>3 DEF ScheduleTick, PlanInv
<1>4. CASE \E b \in Bucket : Compact(b)
  BY <1>4, CompactPlan
<1>5. CASE \E b \in Bucket : CompactFails(b)
  BY <1>5 DEF CompactFails, PlanInv
<1>6. CASE UNCHANGED vars
  BY <1>6 DEF vars, PlanInv
<1> QED BY <1>1, <1>2, <1>3, <1>4, <1>5, <1>6 DEF Next

LEMMA PlanInvariance == Spec => []PlanInv
<1> QED BY InitPlan, NextPlan, PTL DEF Spec

\* The state of the manifest has its type, and the bounds of a file are in
\* order.
THEOREM PlanTypeCorrect == Spec => []TypeOK
<1>1. ASSUME PlanInv PROVE TypeOK
  <2>1. ASSUME NEW f \in DOMAIN files
        PROVE  /\ f.bucket \in Bucket /\ f.rows \in Seq(Event) \ {<<>>}
               /\ f.minTs <= f.maxTs /\ f.minOff <= f.maxOff
    <3>1. IsFile(f)
      BY <1>1 DEF PlanInv
    <3> QED BY <3>1, Bounds DEF IsFile, Batch
  <2>2. stored \subseteq Event
    <3> SUFFICES ASSUME NEW f \in DOMAIN files PROVE ToSet(f.rows) \subseteq Event
      BY <1>1 DEF PlanInv, RowsOf
    <3>1. IsFile(f)
      BY <1>1 DEF PlanInv
    <3> QED BY <3>1, Bounds
  <2> QED BY <1>1, <2>1, <2>2 DEF PlanInv, TypeOK
<1> QED BY <1>1, PlanInvariance, PTL

\* Whatever the events, the batches and the sizes: a query finds every event
\* of its window that was ever flushed, and none that was not.
THEOREM QueriesFindAll == Spec => []AnswerComplete
<1>1. ASSUME PlanInv PROVE AnswerComplete
  <2> SUFFICES ASSUME NEW from \in {e.ts : e \in Event}, NEW to \in {e.ts : e \in Event}
               PROVE  /\ {e \in stored : from <= e.ts /\ e.ts <= to}
                           \subseteq Answer(from, to)
                      /\ Answer(from, to) \subseteq stored
    BY DEF AnswerComplete
  <2>1. from \in Int /\ to \in Int
    BY PlanAssumption
  <2>2. stored = RowsOf(DOMAIN files)
    BY <1>1 DEF PlanInv
  <2>3. RowsOf(Scanned(from, to)) \subseteq RowsOf(DOMAIN files)
    BY DEF RowsOf, Scanned
  <2>4. ASSUME NEW e \in RowsOf(DOMAIN files), from <= e.ts, e.ts <= to
        PROVE  e \in RowsOf(Scanned(from, to))
    <3>1. PICK f \in DOMAIN files : e \in ToSet(f.rows)
      BY DEF RowsOf
    <3>2. IsFile(f)
      BY <1>1 DEF PlanInv
    <3>3. e \in Event /\ f.minTs <= e.ts /\ e.ts <= f.maxTs
      BY <3>1, <3>2, Bounds
    <3>4. f.minTs \in Int /\ f.maxTs \in Int
      BY <3>2, Bounds
    <3>5. e.ts \in Int
      BY <3>3, PlanAssumption
    <3>6. Overlaps(f, from, to)
      BY <2>1, <2>4, <3>3, <3>4, <3>5 DEF Overlaps
    <3> QED BY <3>1, <3>6 DEF RowsOf, Scanned
  <2> QED BY <2>2, <2>3, <2>4 DEF Answer
<1> QED BY <1>1, PlanInvariance, PTL

\* Whatever the sizes and the target: the split of a bucket that is to be
\* compacted is its merged rows in their order, in chunks that are not empty,
\* within the target if they can be, and not closed before they must.
THEOREM SplitIsSound == Spec => []SplitSound
<1>1. ASSUME PlanInv PROVE SplitSound
  <2> SUFFICES ASSUME NEW b \in todo
      PROVE  /\ FlattenSeq(ChunksOf(b)) = Batched(Merged(RowsOf(FilesOf(b))))
             /\ \A i \in DOMAIN ChunksOf(b) :
                  /\ ChunksOf(b)[i] # <<>>
                  /\ \/ ChunkSize(ChunksOf(b)[i]) <= TargetBytes
                     \/ Len(ChunksOf(b)[i]) = 1
                  /\ i < Len(ChunksOf(b)) =>
                       ChunkSize(ChunksOf(b)[i]) + IpcSize(ChunksOf(b)[i + 1][1])
                         > TargetBytes
    BY DEF SplitSound
  <2>1. b \in Bucket /\ \A f \in DOMAIN files : IsFile(f)
    BY <1>1 DEF PlanInv
  <2>2. /\ ChunksOf(b) \in Seq(Chunk) /\ Sound(ChunksOf(b))
        /\ FlattenSeq(ChunksOf(b)) = Batched(Merged(RowsOf(FilesOf(b))))
    BY <2>1, CompactedIs
  <2> DEFINE chunks == ChunksOf(b)
  <2>3. DOMAIN chunks = 1 .. Len(chunks)
    BY <2>2
  <2>4. chunks = ChunksOf(b)
    OBVIOUS
  <2> HIDE DEF chunks
  <2>5. \A i \in 1 .. Len(chunks) :
          /\ chunks[i] # <<>>
          /\ ChunkSize(chunks[i]) <= TargetBytes \/ Len(chunks[i]) = 1
          /\ i < Len(chunks) => ChunkSize(chunks[i]) + IpcSize(chunks[i + 1][1]) > TargetBytes
    BY <2>2, <2>4 DEF Sound, Fits, Apart
  <2> QED BY <2>2, <2>3, <2>4, <2>5
<1> QED BY <1>1, PlanInvariance, PTL

-----------------------------------------------------------------------------
(* What hot_bucket_stats takes for duplicates *)

\* A sum over an image counts no element twice.
LEMMA SumImage ==
    ASSUME NEW I, IsFiniteSet(I), NEW g, DOMAIN g = I, NEW w,
           \A i \in I : w[g[i]] \in Nat
    PROVE  SumOf(w, {g[i] : i \in I}) <= SumOf([i \in I |-> w[g[i]]], I)
<1> DEFINE v == [i \in I |-> w[g[i]]]
           Image(s) == {g[i] : i \in s}
           C == {s \in SUBSET I : SumOf(w, Image(s)) <= SumOf(v, s)}
<1>1. \A i \in I : v[i] = w[g[i]] /\ v[i] \in Nat /\ v[i] \in Int
  OBVIOUS
<1> HIDE DEF v
<1>2. ASSUME NEW s \in SUBSET I, \A t \in SUBSET s : t # s => t \in C
      PROVE  SumOf(w, Image(s)) <= SumOf(v, s)
  <2>1. CASE s = {}
    <3>1. Image(s) = {}
      BY <2>1
    <3>2. SumOf(w, Image(s)) = 0 /\ SumOf(v, s) = 0
      BY <2>1, <3>1, SumEmpty
    <3> QED BY <3>2
  <2>2. CASE s # {}
    <3>1. PICK i \in s : TRUE
      BY <2>2
    <3> DEFINE t == s \ {i}
               A == Image(t)
    <3>2. t \in SUBSET s /\ t # s /\ i \notin t /\ s = t \cup {i} /\ t \subseteq I
      BY <3>1
    <3>3. Image(s) = A \cup {g[i]}
      BY <3>2
    <3>4. SumOf(w, A) <= SumOf(v, t)
      BY <3>2, <1>2
    <3>5. IsFiniteSet(t)
      BY <3>2, FS_Subset
    <3>6. IsFiniteSet(A)
      <4> DEFINE h == [j \in t |-> g[j]]
      <4>1. A = {h[j] : j \in t} /\ DOMAIN h = t
        OBVIOUS
      <4> HIDE DEF h, A
      <4> QED BY <4>1, <3>5, ImageIsFinite
    <3>7. \A x \in A \cup {g[i]} : w[x] \in Int /\ w[x] \in Nat
      BY <3>1, <3>2
    <3>8. \A j \in t \cup {i} : v[j] \in Int
      BY <3>1, <3>2, <1>1
    <3> HIDE DEF t, A, Image
    <3>9. SumOf(v, s) = SumOf(v, t) + v[i]
      BY <3>2, <3>5, <3>8, SumAdd
    <3>10. SumOf(w, A) \in Int
      BY <3>6, <3>7, SumType
    <3>11. SumOf(v, t) \in Int
      BY <3>5, <3>2, <3>8, SumType
    <3>12. v[i] = w[g[i]] /\ v[i] \in Nat
      BY <3>1, <1>1
    <3>13. CASE g[i] \in A
      <4>1. Image(s) = A
        BY <3>3, <3>13
      <4> QED BY <4>1, <3>4, <3>9, <3>10, <3>11, <3>12
    <3>14. CASE g[i] \notin A
      <4>1. SumOf(w, A \cup {g[i]}) = SumOf(w, A) + w[g[i]]
        BY <3>6, <3>7, <3>14, SumAdd
      <4> QED BY <4>1, <3>3, <3>4, <3>9, <3>10, <3>11, <3>12
    <3> QED BY <3>13, <3>14
  <2> QED BY <2>1, <2>2
<1>3. \A s \in SUBSET I : (\A t \in SUBSET s : t # s => t \in C) => s \in C
  BY <1>2
<1> HIDE DEF C
<1>4. \A s \in SUBSET I : s \in C
  BY <1>3, SubsetInduction
<1> QED BY <1>4 DEF C, v

LEMMA RowsInFile ==
    ASSUME NEW rows \in Seq(Event)
    PROVE  /\ IsFiniteSet(ToSet(rows)) /\ Cardinality(ToSet(rows)) \in Nat
           /\ Cardinality(ToSet(rows)) <= Len(rows)
<1> DEFINE D == DOMAIN rows
<1>1. D = 1 .. Len(rows) /\ Len(rows) \in Nat
  OBVIOUS
<1>2. IsFiniteSet(D) /\ Cardinality(D) = Len(rows)
  BY <1>1, FS_Interval
<1>3. ToSet(rows) = {rows[i] : i \in D}
  BY DEF ToSet
<1> HIDE DEF D
<1>4. IsFiniteSet(ToSet(rows)) /\ Cardinality(ToSet(rows)) <= Cardinality(D)
  BY <1>2, <1>3, ImageIsFinite DEF D
<1> QED BY <1>2, <1>4, FS_CardinalityType

\* Files hold at most as many events as their record counts say.
LEMMA RowsInFiles ==
    ASSUME NEW fs, IsFiniteSet(fs), NEW w,
           \A f \in fs : /\ f.rows \in Seq(Event)
                         /\ w[f] \in Nat /\ Len(f.rows) <= w[f]
    PROVE  /\ IsFiniteSet(RowsOf(fs)) /\ Cardinality(RowsOf(fs)) \in Nat
           /\ SumOf(w, fs) \in Nat /\ Cardinality(RowsOf(fs)) <= SumOf(w, fs)
<1> DEFINE C == {s \in SUBSET fs : /\ IsFiniteSet(RowsOf(s))
                                   /\ Cardinality(RowsOf(s)) <= SumOf(w, s)}
<1>1. \A s \in SUBSET fs : IsFiniteSet(s) /\ SumOf(w, s) \in Nat
  <2> SUFFICES ASSUME NEW s \in SUBSET fs
               PROVE  IsFiniteSet(s) /\ SumOf(w, s) \in Nat
    OBVIOUS
  <2>1. IsFiniteSet(s)
    BY FS_Subset
  <2>2. \A f \in s : w[f] \in Int /\ w[f] \in Nat
    OBVIOUS
  <2>3. SumOf(w, s) \in Nat
    BY <2>1, <2>2, SumType
  <2> QED BY <2>1, <2>3
<1>2. ASSUME NEW s \in SUBSET fs, \A t \in SUBSET s : t # s => t \in C
      PROVE  IsFiniteSet(RowsOf(s)) /\ Cardinality(RowsOf(s)) <= SumOf(w, s)
  <2>1. CASE s = {}
    <3>1. RowsOf(s) = {}
      BY <2>1 DEF RowsOf
    <3>2. SumOf(w, s) = 0
      BY <2>1, SumEmpty
    <3> QED BY <3>1, <3>2, FS_EmptySet
  <2>2. CASE s # {}
    <3>1. PICK f \in s : TRUE
      BY <2>2
    <3> DEFINE t == s \ {f}
               R == RowsOf(t)
               Q == ToSet(f.rows)
    <3>2. t \in SUBSET fs /\ t \in SUBSET s /\ t # s /\ f \notin t /\ s = t \cup {f}
      BY <3>1
    <3>3. IsFiniteSet(R) /\ Cardinality(R) <= SumOf(w, t)
      BY <3>2, <1>2
    <3>4. IsFiniteSet(t) /\ SumOf(w, t) \in Nat
      BY <3>2, <1>1
    <3>5. f.rows \in Seq(Event) /\ w[f] \in Nat /\ Len(f.rows) <= w[f]
      BY <3>1
    <3>6. /\ IsFiniteSet(Q) /\ Cardinality(Q) \in Nat /\ Len(f.rows) \in Nat
          /\ Cardinality(Q) <= Len(f.rows)
      BY <3>5, RowsInFile
    <3>7. RowsOf(s) = R \cup Q
      BY <3>2 DEF RowsOf
    <3>8. \A x \in t \cup {f} : w[x] \in Int
      BY <3>2
    <3> HIDE DEF t, R, Q
    <3>9. SumOf(w, s) = SumOf(w, t) + w[f]
      BY <3>2, <3>4, <3>8, SumAdd
    <3>10. /\ IsFiniteSet(R \cup Q)
           /\ Cardinality(R \cup Q) = Cardinality(R) + Cardinality(Q) - Cardinality(R \cap Q)
      BY <3>3, <3>6, FS_Union
    <3>11. Cardinality(R) \in Nat /\ Cardinality(R \cap Q) \in Nat
      <4>1. IsFiniteSet(R \cap Q)
        BY <3>3, FS_Intersection
      <4> QED BY <4>1, <3>3, FS_CardinalityType
    <3>12. Cardinality(RowsOf(s)) <= SumOf(w, s)
      BY <3>3, <3>4, <3>5, <3>6, <3>7, <3>9, <3>10, <3>11
    <3> QED BY <3>7, <3>10, <3>12
  <2> QED BY <2>1, <2>2
<1>3. \A s \in SUBSET fs : (\A t \in SUBSET s : t # s => t \in C) => s \in C
  BY <1>2
<1> HIDE DEF C
<1>4. fs \in C
  BY <1>3, SubsetInduction
<1>5. IsFiniteSet(RowsOf(fs)) /\ Cardinality(RowsOf(fs)) <= SumOf(w, fs)
  BY <1>4 DEF C
<1> QED BY <1>1, <1>5, FS_CardinalityType

\* Events of one partition have offsets of their own.
LEMMA RowsInSpan ==
    ASSUME NEW R, R \subseteq Event, \A d, e \in R : d.part = e.part,
           NEW lo \in Int, NEW hi \in Int, lo <= hi,
           \A e \in R : lo <= e.off /\ e.off <= hi
    PROVE  Cardinality(R) <= hi - lo + 1
<1> DEFINE g == [e \in R |-> e.off]
<1>1. g \in [R -> lo .. hi]
  BY PlanAssumption
<1>2. \A d, e \in R : g[d] = g[e] => d = e
  BY PlanAssumption
<1>3. DOMAIN g = R
  OBVIOUS
<1> HIDE DEF g
<1>4. g \in Injection(R, lo .. hi)
  BY <1>1, <1>2, <1>3 DEF Injection, IsInjective
<1>5. IsFiniteSet(lo .. hi) /\ Cardinality(lo .. hi) = hi - lo + 1
  BY FS_Interval
<1>6. Cardinality(R) <= Cardinality(lo .. hi)
  BY <1>4, <1>5, FS_Injection
<1> QED BY <1>5, <1>6

\* Whatever the events and the batches: with one partition in a bucket no
\* event is taken for a duplicate that is none.
THEOREM SurplusIsDuplicates == Spec => []SurplusAreDuplicates
<1>1. ASSUME PlanInv PROVE SurplusAreDuplicates
  <2> SUFFICES ASSUME NEW b \in Bucket,
                      Cardinality({e.part : e \in RowsOf(FilesOf(b))}) = 1
               PROVE  Surplus(b) <= TotalRecords(b) - Cardinality(RowsOf(FilesOf(b)))
    BY DEF SurplusAreDuplicates
  <2> DEFINE fs == FilesOf(b)
             R == RowsOf(fs)
             Parts == {e.part : e \in R}
             los == {f.minOff : f \in fs}
             his == {f.maxOff : f \in fs}
  <2>1. IsFiniteSet(fs) /\ fs \subseteq DOMAIN files /\ \A f \in fs : IsFile(f)
    BY <1>1, FS_Subset DEF PlanInv, FilesOf
  <2>2. \A f \in fs : /\ f.rows \in Seq(Event) /\ Len(f.rows) \in Nat
                      /\ Records[f] \in Nat /\ Len(f.rows) <= Records[f]
    <3> SUFFICES ASSUME NEW f \in fs
                 PROVE  /\ f.rows \in Seq(Event) /\ Len(f.rows) \in Nat
                        /\ Records[f] \in Nat /\ Len(f.rows) <= Records[f]
      OBVIOUS
    <3>1. f.rows \in Seq(Event) /\ Len(f.rows) \in Nat
      BY <2>1 DEF IsFile, Batch
    <3>2. f \in DOMAIN files /\ files[f] \in Nat /\ files[f] > 0
      BY <2>1, <1>1 DEF PlanInv, IsABag
    <3>3. Records[f] = files[f] * Len(f.rows)
      BY <3>2 DEF Records
    <3> DEFINE m == files[f]
               n == Len(f.rows)
    <3>4. m \in Nat /\ m > 0 /\ n \in Nat
      BY <3>1, <3>2
    <3> HIDE DEF m, n
    <3>5. m * n \in Nat /\ n <= m * n
      BY <3>4
    <3> QED BY <3>1, <3>3, <3>5 DEF m, n
  <2> HIDE DEF fs
  <2>3. /\ IsFiniteSet(R) /\ Cardinality(R) \in Nat
        /\ SumOf(Records, fs) \in Nat /\ Cardinality(R) <= SumOf(Records, fs)
    BY <2>1, <2>2, RowsInFiles
  <2>4. TotalRecords(b) = SumOf(Records, fs)
    BY DEF TotalRecords, SumOf, fs
  <2>5. R \subseteq Event
    <3> SUFFICES ASSUME NEW f \in fs PROVE ToSet(f.rows) \subseteq Event
      BY DEF RowsOf
    <3> QED BY <2>1, Bounds
  <2> HIDE DEF R
  <2>6. \A d, e \in R : d.part = e.part
    <3>1. IsFiniteSet(Parts)
      <4> DEFINE g == [e \in R |-> e.part]
      <4>1. Parts = {g[e] : e \in R} /\ DOMAIN g = R
        OBVIOUS
      <4> HIDE DEF g, Parts
      <4> QED BY <4>1, <2>3, ImageIsFinite
    <3>2. Cardinality(Parts) = 1
      BY DEF R, fs
    <3>3. \A d \in R : d.part \in Parts
      OBVIOUS
    <3> HIDE DEF Parts
    <3>4. PICK p : Parts = {p}
      BY <3>1, <3>2, FS_Singleton
    <3> QED BY <3>3, <3>4
  <2>7. fs # {}
    <3> SUFFICES ASSUME fs = {} PROVE FALSE
      OBVIOUS
    <3>1. Parts = {}
      BY DEF R, RowsOf
    <3>2. Cardinality(Parts) = 1
      BY DEF R, fs
    <3> QED BY <3>1, <3>2, FS_EmptySet
  <2> HIDE DEF Parts
  <2>8. los \subseteq Int /\ his \subseteq Int /\ los # {} /\ his # {}
    BY <2>1, <2>7, Bounds
  <2>9. IsFiniteSet(los) /\ IsFiniteSet(his)
    <3> DEFINE g == [f \in fs |-> f.minOff]
               h == [f \in fs |-> f.maxOff]
    <3>1. /\ los = {g[f] : f \in fs} /\ DOMAIN g = fs
          /\ his = {h[f] : f \in fs} /\ DOMAIN h = fs
      OBVIOUS
    <3> HIDE DEF g, h, los, his
    <3> QED BY <3>1, <2>1, ImageIsFinite
  <2> DEFINE lo == Min(los)
             hi == Max(his)
  <2>10. /\ lo \in los /\ lo \in Int /\ \A x \in los : lo <= x
         /\ hi \in his /\ hi \in Int /\ \A x \in his : x <= hi
    <3> HIDE DEF los, his
    <3> QED BY <2>8, <2>9, MinIs, MaxIs
  <2>11. OffsetSpan(FilesOf(b)) = hi - lo + 1
    BY DEF OffsetSpan, fs
  <2>12. ASSUME NEW f \in fs PROVE f.minOff \in los /\ f.maxOff \in his
    OBVIOUS
  <2> HIDE DEF lo, hi, los, his
  <2>13. ASSUME NEW f \in fs
         PROVE  /\ lo <= f.minOff /\ f.maxOff <= hi /\ f.minOff <= f.maxOff
                /\ f.minOff \in Int /\ f.maxOff \in Int
    BY <2>1, <2>10, <2>12, Bounds
  <2>14. lo <= hi
    <3>1. PICK f \in fs : TRUE
      BY <2>7
    <3>2. /\ lo <= f.minOff /\ f.maxOff <= hi /\ f.minOff <= f.maxOff
          /\ f.minOff \in Int /\ f.maxOff \in Int
      BY <2>13
    <3> QED BY <3>2, <2>10
  <2>15. ASSUME NEW e \in R PROVE lo <= e.off /\ e.off <= hi
    <3>1. PICK f \in fs : e \in ToSet(f.rows)
      BY DEF R, RowsOf
    <3>2. e \in Event /\ f.minOff <= e.off /\ e.off <= f.maxOff
      BY <3>1, <2>1, Bounds
    <3>3. e.off \in Int
      BY <3>2, PlanAssumption
    <3> QED BY <3>2, <3>3, <2>10, <2>13
  <2>16. Cardinality(R) <= hi - lo + 1
    BY <2>5, <2>6, <2>10, <2>14, <2>15, RowsInSpan
  <2> DEFINE total == TotalRecords(b)
             span == OffsetSpan(FilesOf(b))
             n == Cardinality(R)
  <2>17. total \in Nat /\ span \in Int /\ n \in Nat /\ n <= total /\ n <= span
    BY <2>3, <2>4, <2>10, <2>11, <2>16
  <2>18. Surplus(b) \in {total - span, 0}
    <3>1. IsFiniteSet({total - span, 0})
      <4> DEFINE x == total - span
      <4>1. {x, 0} = {0} \cup {x} /\ IsFiniteSet({0})
        BY FS_Singleton
      <4> HIDE DEF x
      <4>2. IsFiniteSet({0} \cup {x})
        BY <4>1, FS_AddElement
      <4>3. IsFiniteSet({x, 0})
        BY <4>1, <4>2
      <4> QED BY <4>3 DEF x
    <3>2. {total - span, 0} \subseteq Int /\ {total - span, 0} # {}
      BY <2>17
    <3>3. Surplus(b) = Max({total - span, 0})
      BY DEF Surplus
    <3> QED BY <3>1, <3>2, <3>3, MaxIs
  <2>19. n = Cardinality(RowsOf(FilesOf(b)))
    BY DEF R, fs
  <2> HIDE DEF total, span, n
  <2>20. Surplus(b) <= total - n
    BY <2>17, <2>18
  <2> QED BY <2>19, <2>20 DEF total
<1> QED BY <1>1, PlanInvariance, PTL

-----------------------------------------------------------------------------
(* What a compaction leaves of duplicates *)

\* The files are the merged rows, cut in pieces.
LEMMA CompactedPieces ==
    ASSUME NEW b \in Bucket, \A f \in DOMAIN files : IsFile(f)
    PROVE  LET pieces == Joined(ChunksOf(b))
               rows   == RowsOf(FilesOf(b))
           IN  /\ pieces \in Seq(Seq(Event)) /\ FlattenSeq(pieces) = Merged(rows)
               /\ Len(Merged(rows)) = Cardinality(rows)
               /\ Compacted(b) = {FileOf(pieces[i], b) : i \in DOMAIN pieces}
<1> DEFINE rows == RowsOf(FilesOf(b))
           chunks == ChunksOf(b)
           pieces == Joined(chunks)
<1>1. rows \subseteq Event
  <2> SUFFICES ASSUME NEW f \in FilesOf(b) PROVE ToSet(f.rows) \subseteq Event
    BY DEF RowsOf
  <2>1. IsFile(f)
    BY DEF FilesOf
  <2> QED BY <2>1, Bounds
<1>2. chunks \in Seq(Chunk) /\ FlattenSeq(chunks) = Batched(Merged(rows))
  BY CompactedIs
<1>3. Compacted(b) = {FileOf(FlattenSeq(chunks[i]), b) : i \in DOMAIN chunks}
  BY DEF Compacted, ToSet
<1>4. rows = RowsOf(FilesOf(b)) /\ chunks = ChunksOf(b)
  OBVIOUS
<1> HIDE DEF rows, chunks
<1>5. Merged(rows) \in Seq(Event) /\ Len(Merged(rows)) = Cardinality(rows)
  BY <1>1, MergedIs
<1>6. FlattenSeq(Batched(Merged(rows))) = Merged(rows)
  BY <1>5, BatchedIs
<1>7. chunks \in Seq(Seq(Seq(Event)))
  BY <1>2 DEF Chunk, Batch
<1>8. /\ pieces \in Seq(Seq(Event)) /\ DOMAIN pieces = DOMAIN chunks
      /\ \A i \in DOMAIN pieces : pieces[i] = FlattenSeq(chunks[i])
  BY <1>7, JoinedType DEF Joined
<1>9. FlattenSeq(pieces) = Merged(rows)
  BY <1>2, <1>6, <1>7, FlattenTwice
<1>10. Compacted(b) = {FileOf(pieces[i], b) : i \in DOMAIN pieces}
  BY <1>3, <1>8
<1> HIDE DEF pieces
<1> QED BY <1>4, <1>5, <1>8, <1>9, <1>10 DEF pieces

\* So the files have no more rows than events; and never fewer.
LEMMA CompactedCount ==
    ASSUME NEW b \in Bucket, \A f \in DOMAIN files : IsFile(f),
           NEW w, \A f \in Compacted(b) : w[f] = Len(f.rows)
    PROVE  SumOf(w, Compacted(b)) = Cardinality(RowsOf(Compacted(b)))
<1> DEFINE pieces == Joined(ChunksOf(b))
           I == DOMAIN pieces
           new == Compacted(b)
           rows == RowsOf(FilesOf(b))
           g == [i \in I |-> FileOf(pieces[i], b)]
<1>1. /\ pieces \in Seq(Seq(Event)) /\ FlattenSeq(pieces) = Merged(rows)
      /\ Len(Merged(rows)) = Cardinality(rows)
      /\ new = {g[i] : i \in I}
  BY CompactedPieces
<1>2. /\ IsFiniteSet(new) /\ \A f \in new : IsFile(f)
      /\ RowsOf(new) = rows
  BY CompactedIs
<1>3. \A f \in new : w[f] = Len(f.rows)
  OBVIOUS
<1>4. DOMAIN g = I /\ \A i \in I : g[i] = FileOf(pieces[i], b)
  OBVIOUS
<1> HIDE DEF pieces, new, rows, g
<1>5. IsFiniteSet(I)
  <2>1. I = 1 .. Len(pieces) /\ Len(pieces) \in Nat
    BY <1>1
  <2> QED BY <2>1, FS_Interval
<1>6. \A i \in I : w[g[i]] = Lengths(pieces)[i] /\ w[g[i]] \in Nat
  <2> SUFFICES ASSUME NEW i \in I
               PROVE  w[g[i]] = Lengths(pieces)[i] /\ w[g[i]] \in Nat
    OBVIOUS
  <2>1. g[i].rows = pieces[i]
    BY <1>4 DEF FileOf
  <2>2. w[g[i]] = Len(pieces[i])
    BY <2>1, <1>1, <1>3
  <2>3. pieces[i] \in Seq(Event)
    BY <1>1
  <2> QED BY <2>2, <2>3 DEF Lengths
<1>7. SumOf(w, new) <= Cardinality(rows)
  <2> DEFINE v == [i \in I |-> w[g[i]]]
  <2>1. SumOf(w, {g[i] : i \in I}) <= SumOf(v, I)
    BY <1>4, <1>5, <1>6, SumImage
  <2>2. \A i \in I : v[i] = Lengths(pieces)[i]
    BY <1>6
  <2> HIDE DEF v, I
  <2>3. SumOf(v, I) = SumOf(Lengths(pieces), I)
    BY <2>2, <1>5, SumSame
  <2>4. SumOf(Lengths(pieces), I) = Len(FlattenSeq(pieces))
    BY <1>1, FlattenLength DEF I
  <2> QED BY <2>1, <2>3, <2>4, <1>1
<1>8. \A f \in new : f.rows \in Seq(Event) /\ w[f] \in Nat /\ Len(f.rows) <= w[f]
  <2> SUFFICES ASSUME NEW f \in new
               PROVE  f.rows \in Seq(Event) /\ w[f] \in Nat /\ Len(f.rows) <= w[f]
    OBVIOUS
  <2>1. f.rows \in Seq(Event)
    BY <1>2 DEF IsFile, Batch
  <2>2. Len(f.rows) \in Nat
    BY <2>1
  <2> QED BY <2>1, <2>2, <1>3
<1>9. /\ Cardinality(RowsOf(new)) \in Nat /\ SumOf(w, new) \in Nat
      /\ Cardinality(RowsOf(new)) <= SumOf(w, new)
  BY <1>2, <1>8, RowsInFiles
<1>10. SumOf(w, new) = Cardinality(RowsOf(new))
  BY <1>2, <1>7, <1>9
<1> QED BY <1>10 DEF new

LEMMA FileCountType ==
    ASSUME PlanInv, NEW b
    PROVE  FileCount(b) \in Nat
<1>1. FileCount(b) = SumOf(files, FilesOf(b))
  BY DEF FileCount, SumOf
<1>2. IsFiniteSet(FilesOf(b))
  BY FS_Subset DEF PlanInv, FilesOf
<1>3. \A f \in FilesOf(b) : files[f] \in Int /\ files[f] \in Nat
  BY DEF PlanInv, IsABag, FilesOf
<1>4. SumOf(files, FilesOf(b)) \in Nat
  BY <1>2, <1>3, SumType
<1> QED BY <1>1, <1>4

\* The files of the bucket are then the ones that were written, each once.
LEMMA CompactReplaces ==
    ASSUME PlanInv, NEW b \in Bucket, Compact(b), FileCount(b) >= 2
    PROVE  /\ FilesOf(b)' = Compacted(b)
           /\ \A f \in Compacted(b) : Records'[f] = Len(f.rows)
<1> DEFINE new == Compacted(b)
           rest == DOMAIN files \ FilesOf(b)
<1>1. \A f \in DOMAIN files : IsFile(f)
  BY DEF PlanInv
<1>2. IsFiniteSet(new) /\ \A f \in new : IsFile(f) /\ f.bucket = b
  <2>1. \A f \in new : f.bucket = b
    BY DEF Compacted, FileOf
  <2> QED BY <2>1, <1>1, CompactedIs
<1>3. files' = Restrict(files, rest) (+) SetToBag(new)
  <2>1. FileCount(b) < 2 => ~(FileCount(b) >= 2)
    <3>1. FileCount(b) \in Int
      BY FileCountType
    <3> QED BY <3>1
  <2> QED BY <2>1 DEF Compact
<1>4. \A f \in rest : f.bucket # b
  BY DEF FilesOf
<1> HIDE DEF new, rest
<1>5. DOMAIN files' = rest \cup new
  BY <1>3 DEF (+), SetToBag, Restrict
<1>6. FilesOf(b)' = new
  BY <1>2, <1>4, <1>5 DEF FilesOf
<1>7. ASSUME NEW f \in new PROVE Records'[f] = Len(f.rows)
  <2>1. f \notin rest
    BY <1>2, <1>4
  <2>2. files'[f] = 1
    BY <2>1, <1>3 DEF (+), SetToBag, Restrict
  <2>3. Records'[f] = 1 * Len(f.rows)
    BY <2>2, <1>5 DEF Records
  <2>4. f.rows \in Seq(Event)
    BY <1>2 DEF IsFile, Batch
  <2>5. Len(f.rows) \in Nat
    BY <2>4
  <2> QED BY <2>3, <2>5
<1> QED BY <1>6, <1>7 DEF new

\* No event is in the files of the bucket twice, not even in one file.
EachOnce(b) == TotalRecords(b) = Cardinality(RowsOf(FilesOf(b)))

\* Whatever was flushed and delivered again: a compaction of a bucket that has
\* two files or more leaves each of its events in one place. (A bucket of one
\* file is skipped, and may hold an event twice.)
THEOREM CompactionLeavesNoDuplicate ==
    Spec => [][\A b \in Bucket : Compact(b) /\ FileCount(b) >= 2 => EachOnce(b)']_vars
<1>1. ASSUME PlanInv, NEW b \in Bucket, Compact(b), FileCount(b) >= 2
      PROVE  EachOnce(b)'
  <2> DEFINE new == Compacted(b)
  <2>1. FilesOf(b)' = new /\ \A f \in new : Records'[f] = Len(f.rows)
    BY <1>1, CompactReplaces
  <2>2. \A f \in DOMAIN files : IsFile(f)
    BY <1>1 DEF PlanInv
  <2>3. SumOf(Records', new) = Cardinality(RowsOf(new))
    BY <2>1, <2>2, CompactedCount
  <2> HIDE DEF new
  <2>4. TotalRecords(b)' = SumOf(Records', new)
    <3>1. TotalRecords(b)' = SumOf(Records', FilesOf(b)')
      BY DEF TotalRecords, SumOf, MapThenSumSet, MapThenFoldSet
    <3> QED BY <3>1, <2>1
  <2>5. RowsOf(FilesOf(b))' = RowsOf(new)
    BY <2>1 DEF RowsOf
  <2> QED BY <2>3, <2>4, <2>5 DEF EachOnce
<1>2. PlanInv /\ [Next]_vars
        => [\A b \in Bucket : Compact(b) /\ FileCount(b) >= 2 => EachOnce(b)']_vars
  BY <1>1
<1> QED BY <1>2, PlanInvariance, PTL DEF Spec

\* Whatever the events and the sizes: compacting again what a compaction has
\* written writes the same files, so that a bucket of several, which meets
\* the thresholds for ever, is rewritten but not changed.
THEOREM CompactionIsStable ==
    Spec => [][\A b \in Bucket :
                 Compact(b) /\ FileCount(b) >= 2
                   => FilesOf(b)' = Compacted(b) /\ Compacted(b)' = Compacted(b)]_vars
<1>1. ASSUME PlanInv, NEW b \in Bucket, Compact(b), FileCount(b) >= 2
      PROVE  FilesOf(b)' = Compacted(b) /\ Compacted(b)' = Compacted(b)
  <2>1. FilesOf(b)' = Compacted(b)
    BY <1>1, CompactReplaces
  <2>2. RowsOf(Compacted(b)) = RowsOf(FilesOf(b))
    BY <1>1, CompactedIs DEF PlanInv
  <2>3. RowsOf(FilesOf(b))' = RowsOf(FilesOf(b))
    <3>1. RowsOf(FilesOf(b))' = RowsOf(FilesOf(b)')
      BY DEF RowsOf
    <3> QED BY <3>1, <2>1, <2>2
  <2>4. ChunksOf(b)' = ChunksOf(b)
    <3>1. ChunksOf(b)' = Split(Batched(Merged(RowsOf(FilesOf(b))')))
      BY DEF ChunksOf
    <3> QED BY <3>1, <2>3 DEF ChunksOf
  <2>5. Compacted(b)' = Compacted(b)
    BY <2>4 DEF Compacted
  <2> QED BY <2>1, <2>5
<1>2. PlanInv /\ [Next]_vars
        => [\A b \in Bucket :
              Compact(b) /\ FileCount(b) >= 2
                => FilesOf(b)' = Compacted(b) /\ Compacted(b)' = Compacted(b)]_vars
  BY <1>1
<1> QED BY <1>2, PlanInvariance, PTL DEF Spec

=============================================================================
