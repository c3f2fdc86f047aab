----------------------------- MODULE FoldLemmas -----------------------------
(***************************************************************************)
(* Facts about the folds the modules are built from, FlattenSeq over a     *)
(* sequence of sequences and MapThenSumSet over a finite set.  Both are    *)
(* defined by a recursive function, so each fact is an induction: there is *)
(* no least number, or no smallest set, without it.                        *)
(***************************************************************************)
EXTENDS Naturals, Sequences, SequencesExt, FiniteSetTheorems,
        WellFoundedInduction, TLAPS

-----------------------------------------------------------------------------
(* Least counterexamples.                                                  *)

\* A set of naturals that is not empty has a least element.
LEMMA Least ==
  ASSUME NEW S \in SUBSET Nat, S # {}
  PROVE  \E n \in S : \A m \in S : n <= m
<1> DEFINE R == OpToRel(<, Nat)
<1>1. IsWellFoundedOn(R, Nat)
  BY NatLessThanWellFounded
<1> HIDE DEF R
<1>2. PICK n \in S : \A m \in S : ~ (<<m, n>> \in R)
  BY <1>1, WFMin
<1>3. \A m, k \in Nat : m < k => <<m, k>> \in R
  BY DEF OpToRel, R
<1>4. \A m \in S : m \in Nat /\ ~(m < n)
  BY <1>2, <1>3
<1> QED
  BY <1>4

\* Among some subsets of a finite set there is one that is left as soon as an
\* element of it is taken away.
LEMMA Smallest ==
  ASSUME NEW S, IsFiniteSet(S), NEW Bad \in SUBSET (SUBSET S), Bad # {}
  PROVE  \E T \in Bad : \A x \in T : T \ {x} \notin Bad
<1> DEFINE N == {Cardinality(T) : T \in Bad}
<1>1. \A T \in Bad : IsFiniteSet(T) /\ Cardinality(T) \in Nat
  BY FS_Subset, FS_CardinalityType
<1>2. N \in SUBSET Nat /\ N # {}
  BY <1>1
<1>3. PICK n \in N : \A m \in N : n <= m
  BY <1>2, Least
<1>4. PICK T \in Bad : Cardinality(T) = n
  OBVIOUS
<1>5. ASSUME NEW x \in T, T \ {x} \in Bad PROVE FALSE
  <2>1. Cardinality(T \ {x}) = Cardinality(T) - 1
    BY <1>1, FS_RemoveElement
  <2>2. n <= Cardinality(T \ {x})
    BY <1>3, <1>5
  <2> QED
    BY <1>1, <1>4, <2>1, <2>2
<1> QED
  BY <1>5

-----------------------------------------------------------------------------
(* Concatenations.                                                         *)

\* f concatenates the first sequences of s, one more at every step.
Concatenates(f, s, n) ==
  f = [i \in 1..n |-> IF i = 1 THEN s[i] ELSE f[i - 1] \o s[i]]

\* Such a function exists up to every length: there is no least n without.
LEMMA ConcatenationExists ==
  ASSUME NEW s, NEW L \in Nat, L > 0
  PROVE  \E f : Concatenates(f, s, L)
<1> DEFINE Bad == {n \in Nat : n > 0 /\ ~\E f : Concatenates(f, s, n)}
<1> SUFFICES ASSUME Bad # {} PROVE FALSE
  OBVIOUS
<1>1. PICK n \in Bad : \A m \in Bad : n <= m
  BY Least
<1>2. n \in Nat /\ n > 0 /\ ~\E f : Concatenates(f, s, n)
  OBVIOUS
<1>3. CASE n = 1
  <2> DEFINE g == [i \in 1..1 |-> s[1]]
  <2>1. g = [i \in 1..1 |-> IF i = 1 THEN s[i] ELSE g[i - 1] \o s[i]]
    OBVIOUS
  <2> HIDE DEF g
  <2> QED
    BY <1>2, <1>3, <2>1 DEF Concatenates
<1>4. CASE n # 1
  <2>1. n - 1 \in Nat /\ n - 1 > 0 /\ n - 1 \notin Bad
    BY <1>1, <1>2, <1>4
  <2>2. PICK f : Concatenates(f, s, n - 1)
    BY <2>1
  <2> DEFINE g == [i \in 1..n |-> IF i = n THEN f[n - 1] \o s[n] ELSE f[i]]
  <2>3. \A i \in 1..n - 1 : g[i] = f[i] /\ i \in 1..n
    BY <1>2
  <2>4. \A i \in 1..n - 1 : f[i] = IF i = 1 THEN s[i] ELSE f[i - 1] \o s[i]
    BY <2>2 DEF Concatenates
  <2>5. g[n] = f[n - 1] \o s[n]
    <3>1. n \in 1..n
      BY <1>2
    <3> QED
      BY <3>1
  <2>6. DOMAIN g = 1..n
    OBVIOUS
  <2> DEFINE h == [i \in 1..n |-> IF i = 1 THEN s[i] ELSE g[i - 1] \o s[i]]
  <2>7. \A i \in 1..n : g[i] = h[i]
    <3> HIDE DEF g
    <3>1. ASSUME NEW i \in 1..n PROVE g[i] = h[i]
      <4>1. CASE i = n
        <5>1. n - 1 \in 1..n - 1
          BY <2>1
        <5> QED
          BY <1>2, <1>4, <2>3, <2>5, <4>1, <5>1
      <4>2. CASE i # n
        <5>1. i \in 1..n - 1 /\ (i # 1 => i - 1 \in 1..n - 1)
          BY <1>2, <4>2
        <5> QED
          BY <2>3, <2>4, <5>1
      <4> QED
        BY <4>1, <4>2
    <3> QED
      BY <3>1
  <2>8. g = h
    BY <2>7
  <2> HIDE DEF g
  <2>9. Concatenates(g, s, n)
    BY <2>8 DEF Concatenates
  <2> QED
    BY <1>2, <2>9
<1> QED
  BY <1>3, <1>4

\* Its values are sequences: there is no least place where one is not.
LEMMA ConcatenationTyped ==
  ASSUME NEW A, NEW L \in Nat, NEW s, NEW f, Concatenates(f, s, L),
         \A i \in 1..L : s[i] \in Seq(A)
  PROVE  \A i \in 1..L : f[i] \in Seq(A)
<1> DEFINE Bad == {i \in 1..L : f[i] \notin Seq(A)}
<1> SUFFICES ASSUME Bad # {} PROVE FALSE
  OBVIOUS
<1>0. Bad \in SUBSET Nat
  OBVIOUS
<1>1. PICK i \in Bad : \A m \in Bad : i <= m
  BY <1>0, Least
<1>2. i \in 1..L /\ f[i] \notin Seq(A)
  OBVIOUS
<1>3. f[i] = IF i = 1 THEN s[i] ELSE f[i - 1] \o s[i]
  BY <1>2 DEF Concatenates
<1>4. i # 1 => i - 1 \in 1..L /\ i - 1 \notin Bad
  BY <1>1, <1>2
<1> QED
  BY <1>2, <1>3, <1>4

\* Flattening sequences over A gives a sequence over A.
LEMMA FlattenTyped ==
  ASSUME NEW A, NEW s \in Seq(Seq(A))
  PROVE  FlattenSeq(s) \in Seq(A)
<1>1. CASE Len(s) = 0
  <2>1. s = <<>>
    BY <1>1
  <2> QED
    BY <1>1, <2>1 DEF FlattenSeq
<1>2. CASE Len(s) # 0
  <2> DEFINE L == Len(s)
             f == CHOOSE g : Concatenates(g, s, L)
  <2>1. L \in Nat /\ L > 0
    BY <1>2
  <2>2. Concatenates(f, s, L)
    BY <2>1, ConcatenationExists
  <2>3. \A i \in 1..L : s[i] \in Seq(A)
    OBVIOUS
  <2>4. FlattenSeq(s) = f[L]
    BY <1>2 DEF FlattenSeq, Concatenates
  <2> HIDE DEF f, L
  <2>5. \A i \in 1..L : f[i] \in Seq(A)
    BY <2>1, <2>2, <2>3, ConcatenationTyped
  <2> QED
    BY <2>1, <2>4, <2>5
<1> QED
  BY <1>1, <1>2

-----------------------------------------------------------------------------
(* Sums over a finite set.                                                 *)

\* The element that MapThenSumSet takes from a set.
Some(s) == CHOOSE x \in s : TRUE

\* f[s] is the sum of w over s, for the subsets s in D.
SumsOver(f, w, D) ==
  f = [s \in D |-> IF s = {} THEN 0 ELSE w[Some(s)] + f[s \ {Some(s)}]]

Sums(f, w, S) == SumsOver(f, w, SUBSET S)

\* There is such a function, of the subsets up to every size.
LEMMA SumsExists ==
  ASSUME NEW S, IsFiniteSet(S), NEW w
  PROVE  \E f : Sums(f, w, S)
<1> DEFINE Sub(n) == {s \in SUBSET S : Cardinality(s) <= n}
           Bad    == {n \in Nat : ~\E f : SumsOver(f, w, Sub(n))}
<1>0. /\ \A s \in SUBSET S : IsFiniteSet(s) /\ Cardinality(s) \in Nat
                             /\ Cardinality(s) <= Cardinality(S)
      /\ Cardinality(S) \in Nat
  BY FS_Subset, FS_CardinalityType
<1>1. ASSUME NEW s \in SUBSET S, s # {}
      PROVE  /\ s \ {Some(s)} \in SUBSET S
             /\ Cardinality(s \ {Some(s)}) = Cardinality(s) - 1
  <2>1. Some(s) \in s
    BY <1>1 DEF Some
  <2> QED
    BY <1>0, <2>1, FS_RemoveElement
<1>2. ASSUME Bad # {} PROVE FALSE
  <2>1. PICK n \in Bad : \A m \in Bad : n <= m
    BY <1>2, Least
  <2>2. n \in Nat /\ ~\E f : SumsOver(f, w, Sub(n))
    OBVIOUS
  <2>3. PICK f : n # 0 => SumsOver(f, w, Sub(n - 1))
    <3>1. CASE n = 0
      BY <3>1
    <3>2. CASE n # 0
      <4>1. n - 1 \in Nat /\ n - 1 \notin Bad
        <5> HIDE DEF Bad
        <5> QED
          BY <2>1, <2>2, <3>2
      <4> QED
        BY <4>1
    <3> QED
      BY <3>1, <3>2
  <2> DEFINE g == [s \in Sub(n) |->
                     IF s = {} THEN 0 ELSE w[Some(s)] + f[s \ {Some(s)}]]
             h == [s \in Sub(n) |->
                     IF s = {} THEN 0 ELSE w[Some(s)] + g[s \ {Some(s)}]]
  <2>4. ASSUME NEW s \in Sub(n) PROVE g[s] = h[s]
    <3>1. CASE s = {}
      BY <3>1
    <3>2. CASE s # {}
      <4> DEFINE t == s \ {Some(s)}
      <4>1. n # 0 /\ t \in Sub(n - 1) /\ t \in Sub(n)
        BY <1>0, <1>1, <2>2, <3>2
      <4>2. f[t] = IF t = {} THEN 0 ELSE w[Some(t)] + f[t \ {Some(t)}]
        BY <2>3, <4>1 DEF SumsOver
      <4>3. g[t] = IF t = {} THEN 0 ELSE w[Some(t)] + f[t \ {Some(t)}]
        BY <4>1
      <4>4. f[t] = g[t]
        BY <4>2, <4>3
      <4>5. g[s] = w[Some(s)] + f[t] /\ h[s] = w[Some(s)] + g[t]
        BY <3>2
      <4> QED
        BY <4>4, <4>5
    <3> QED
      BY <3>1, <3>2
  <2>5. g = h
    BY <2>4
  <2> HIDE DEF g
  <2>6. SumsOver(g, w, Sub(n))
    BY <2>5 DEF SumsOver
  <2> QED
    BY <2>2, <2>6
<1>3. PICK f : SumsOver(f, w, Sub(Cardinality(S)))
  BY <1>0, <1>2
<1>4. Sub(Cardinality(S)) = SUBSET S
  BY <1>0
<1> QED
  BY <1>3, <1>4 DEF Sums

\* What the function's equation says of one set.
LEMMA SumsStep ==
  ASSUME NEW S, NEW w, NEW f, Sums(f, w, S), NEW T \in SUBSET S
  PROVE  /\ T = {} => f[T] = 0
         /\ T # {} => /\ Some(T) \in T /\ f[T] = w[Some(T)] + f[T \ {Some(T)}]
<1>1. f[T] = IF T = {} THEN 0 ELSE w[Some(T)] + f[T \ {Some(T)}]
  BY DEF Sums, SumsOver
<1> QED
  BY <1>1 DEF Some

\* A sum of naturals is one, and at most the bound of the terms for each.
LEMMA SumsBounded ==
  ASSUME NEW S, IsFiniteSet(S), NEW B \in Nat, NEW w, NEW f, Sums(f, w, S),
         \A x \in S : w[x] \in Nat /\ w[x] <= B
  PROVE  \A T \in SUBSET S : f[T] \in Nat /\ f[T] <= B * Cardinality(T)
<1> DEFINE Bad == {T \in SUBSET S : ~(f[T] \in Nat /\ f[T] <= B * Cardinality(T))}
<1> SUFFICES ASSUME Bad # {} PROVE FALSE
  OBVIOUS
<1>1. PICK T \in Bad : \A x \in T : T \ {x} \notin Bad
  <2>1. Bad \in SUBSET (SUBSET S)
    OBVIOUS
  <2> HIDE DEF Bad
  <2> QED
    BY <2>1, Smallest
<1>2. T \in SUBSET S /\ ~(f[T] \in Nat /\ f[T] <= B * Cardinality(T))
  OBVIOUS
<1>3. IsFiniteSet(T) /\ Cardinality(T) \in Nat
  BY <1>2, FS_Subset, FS_CardinalityType
<1>4. CASE T = {}
  <2>1. f[T] = 0 /\ Cardinality(T) = 0
    BY <1>2, <1>4, SumsStep, FS_EmptySet
  <2> QED
    BY <1>2, <2>1
<1>5. CASE T # {}
  <2> DEFINE x == Some(T)
             U == T \ {x}
  <2>1. x \in T /\ f[T] = w[x] + f[U]
    BY <1>2, <1>5, SumsStep
  <2>2. U \in SUBSET S /\ U \notin Bad
    BY <1>1, <1>2, <2>1
  <2>3. f[U] \in Nat /\ f[U] <= B * Cardinality(U)
    BY <2>2
  <2>4. Cardinality(U) = Cardinality(T) - 1
    BY <1>3, <2>1, FS_RemoveElement
  <2>5. w[x] \in Nat /\ w[x] <= B
    BY <1>2, <2>1
  <2> HIDE DEF x, U
  <2>6. B * Cardinality(T) = B * (Cardinality(T) - 1) + B
    BY <1>3
  <2>7. B * (Cardinality(T) - 1) \in Int /\ B * Cardinality(T) \in Int
    BY <1>3
  <2> QED
    BY <1>2, <2>1, <2>3, <2>4, <2>5, <2>6, <2>7
<1> QED
  BY <1>4, <1>5

\* The term of any element can be taken out first.
LEMMA SumsTake ==
  ASSUME NEW S, IsFiniteSet(S), NEW w, NEW f, Sums(f, w, S),
         \A x \in S : w[x] \in Nat, \A T \in SUBSET S : f[T] \in Nat
  PROVE  \A T \in SUBSET S : \A a \in T : f[T] = w[a] + f[T \ {a}]
<1> DEFINE Bad == {T \in SUBSET S : ~\A a \in T : f[T] = w[a] + f[T \ {a}]}
<1> SUFFICES ASSUME Bad # {} PROVE FALSE
  OBVIOUS
<1>1. PICK T \in Bad : \A x \in T : T \ {x} \notin Bad
  <2>1. Bad \in SUBSET (SUBSET S)
    OBVIOUS
  <2> HIDE DEF Bad
  <2> QED
    BY <2>1, Smallest
<1>2. T \in SUBSET S
  OBVIOUS
<1>3. PICK a \in T : f[T] # w[a] + f[T \ {a}]
  OBVIOUS
<1> DEFINE c == Some(T)
<1>4. c \in T /\ f[T] = w[c] + f[T \ {c}]
  BY <1>2, <1>3, SumsStep
<1>5. c # a
  BY <1>3, <1>4
<1>6. f[T \ {c}] = w[a] + f[(T \ {c}) \ {a}]
  <2>1. T \ {c} \in SUBSET S /\ T \ {c} \notin Bad /\ a \in T \ {c}
    BY <1>1, <1>2, <1>4, <1>5
  <2> QED
    BY <2>1
<1>7. f[T \ {a}] = w[c] + f[(T \ {a}) \ {c}]
  <2>1. T \ {a} \in SUBSET S /\ T \ {a} \notin Bad /\ c \in T \ {a}
    BY <1>1, <1>2, <1>4, <1>5
  <2> QED
    BY <2>1
<1>8. (T \ {a}) \ {c} = (T \ {c}) \ {a}
  OBVIOUS
<1>9. /\ w[a] \in Nat /\ w[c] \in Nat /\ f[(T \ {c}) \ {a}] \in Nat
  BY <1>2, <1>4
<1> DEFINE X == f[(T \ {c}) \ {a}]
<1>10. f[T] = w[c] + (w[a] + X) /\ f[T \ {a}] = w[c] + X
  BY <1>4, <1>6, <1>7, <1>8
<1>11. w[a] \in Nat /\ w[c] \in Nat /\ X \in Nat
  BY <1>9
<1> HIDE DEF c, X
<1>12. w[c] + (w[a] + X) = w[a] + (w[c] + X)
  BY <1>11
<1> QED
  BY <1>3, <1>10, <1>12

\* A sum depends on the terms of its elements only.
LEMMA SumsSame ==
  ASSUME NEW S, NEW R, IsFiniteSet(S), NEW w, NEW v, NEW f, NEW g,
         Sums(f, w, S), Sums(g, v, R), S \subseteq R, \A x \in S : w[x] = v[x]
  PROVE  \A T \in SUBSET S : f[T] = g[T]
<1> DEFINE Bad == {T \in SUBSET S : f[T] # g[T]}
<1> SUFFICES ASSUME Bad # {} PROVE FALSE
  OBVIOUS
<1>1. PICK T \in Bad : \A x \in T : T \ {x} \notin Bad
  <2>1. Bad \in SUBSET (SUBSET S)
    OBVIOUS
  <2> HIDE DEF Bad
  <2> QED
    BY <2>1, Smallest
<1>2. T \in SUBSET S /\ T \in SUBSET R /\ f[T] # g[T]
  OBVIOUS
<1>3. CASE T = {}
  BY <1>2, <1>3, SumsStep
<1>4. CASE T # {}
  <2>1. Some(T) \in T /\ f[T] = w[Some(T)] + f[T \ {Some(T)}]
    BY <1>2, <1>4, SumsStep
  <2>2. g[T] = v[Some(T)] + g[T \ {Some(T)}]
    BY <1>2, <1>4, SumsStep
  <2>3. f[T \ {Some(T)}] = g[T \ {Some(T)}]
    BY <1>1, <1>2, <2>1
  <2> QED
    BY <1>2, <2>1, <2>2, <2>3
<1> QED
  BY <1>3, <1>4

\* MapThenSumSet of a function is its sum.
SumOf(w, S) == MapThenSumSet(LAMBDA x : w[x], S)

\* The facts about sums, in the form their users need.
LEMMA SumByFunction ==
  ASSUME NEW S, IsFiniteSet(S), NEW w
  PROVE  \E f : Sums(f, w, S) /\ SumOf(w, S) = f[S]
<1> DEFINE f == CHOOSE g : Sums(g, w, S)
<1>1. Sums(f, w, S)
  BY SumsExists
<1>2. SumOf(w, S) = f[S]
  BY DEF SumOf, MapThenSumSet, MapThenFoldSet, Sums, SumsOver, Some
<1> QED
  BY <1>1, <1>2

\* The bounds of a sum.
LEMMA SumBounded ==
  ASSUME NEW S, IsFiniteSet(S), NEW B \in Nat, NEW w,
         \A x \in S : w[x] \in Nat /\ w[x] <= B
  PROVE  SumOf(w, S) \in Nat /\ SumOf(w, S) <= B * Cardinality(S)
<1>1. PICK f : Sums(f, w, S) /\ SumOf(w, S) = f[S]
  BY SumByFunction
<1> QED
  BY <1>1, SumsBounded

\* Sums of naturals are naturals.
LEMMA SumsNat ==
  ASSUME NEW S, IsFiniteSet(S), NEW w, NEW f, Sums(f, w, S),
         \A x \in S : w[x] \in Nat
  PROVE  \A T \in SUBSET S : f[T] \in Nat
<1> DEFINE Bad == {T \in SUBSET S : f[T] \notin Nat}
<1> SUFFICES ASSUME Bad # {} PROVE FALSE
  OBVIOUS
<1>1. PICK T \in Bad : \A x \in T : T \ {x} \notin Bad
  <2>1. Bad \in SUBSET (SUBSET S)
    OBVIOUS
  <2> HIDE DEF Bad
  <2> QED
    BY <2>1, Smallest
<1>2. T \in SUBSET S /\ f[T] \notin Nat
  OBVIOUS
<1>3. CASE T = {}
  <2>1. f[T] = 0
    BY <1>2, <1>3, SumsStep
  <2> QED
    BY <1>2, <2>1
<1>4. CASE T # {}
  <2>1. Some(T) \in T /\ f[T] = w[Some(T)] + f[T \ {Some(T)}]
    BY <1>2, <1>4, SumsStep
  <2>2. f[T \ {Some(T)}] \in Nat /\ w[Some(T)] \in Nat
    BY <1>1, <1>2, <2>1
  <2> QED
    BY <1>2, <2>1, <2>2
<1> QED
  BY <1>3, <1>4

\* A sum is one term and the sum of the others.
LEMMA SumSplits ==
  ASSUME NEW S, IsFiniteSet(S), NEW w, \A x \in S : w[x] \in Nat, NEW a \in S
  PROVE  /\ SumOf(w, S \ {a}) \in Nat
         /\ SumOf(w, S) = w[a] + SumOf(w, S \ {a})
<1> DEFINE U == S \ {a}
<1>1. U \in SUBSET S /\ IsFiniteSet(U) /\ U \in SUBSET U /\ U \subseteq S
  BY FS_Subset
<1>2. PICK f : Sums(f, w, S) /\ SumOf(w, S) = f[S]
  BY SumByFunction
<1> HIDE DEF U
<1>3. PICK h : Sums(h, w, U) /\ SumOf(w, U) = h[U]
  BY <1>1, SumByFunction
<1>4. \A T \in SUBSET S : f[T] \in Nat
  BY <1>2, SumsNat
<1>5. f[S] = w[a] + f[S \ {a}]
  BY <1>2, <1>4, SumsTake
<1>6. \A x \in U : w[x] = w[x]
  OBVIOUS
<1>7. \A T \in SUBSET U : h[T] = f[T]
  BY <1>1, <1>2, <1>3, <1>6, SumsSame
<1> QED
  BY <1>1, <1>2, <1>3, <1>4, <1>5, <1>7 DEF U

\* A sum depends on the terms of its elements only.
LEMMA SumSame ==
  ASSUME NEW S, IsFiniteSet(S), NEW w, NEW v, \A x \in S : w[x] = v[x]
  PROVE  SumOf(w, S) = SumOf(v, S)
<1>1. PICK f : Sums(f, w, S) /\ SumOf(w, S) = f[S]
  BY SumByFunction
<1>2. PICK g : Sums(g, v, S) /\ SumOf(v, S) = g[S]
  BY SumByFunction
<1>3. \A T \in SUBSET S : f[T] = g[T]
  BY <1>1, <1>2, SumsSame
<1> QED
  BY <1>1, <1>2, <1>3

\* One term changes, and the sum with it.
LEMMA SumChanges ==
  ASSUME NEW S, IsFiniteSet(S), NEW w, NEW v, NEW a \in S, NEW d \in Int,
         \A x \in S : w[x] \in Nat /\ v[x] \in Nat,
         v[a] = w[a] + d, \A x \in S \ {a} : v[x] = w[x]
  PROVE  SumOf(w, S) \in Nat /\ SumOf(v, S) = SumOf(w, S) + d
<1> DEFINE U == S \ {a}
<1>1. SumOf(w, U) = SumOf(v, U)
  <2>1. IsFiniteSet(U) /\ \A x \in U : w[x] = v[x]
    BY FS_Subset
  <2> HIDE DEF U
  <2> QED
    BY <2>1, SumSame
<1>2. SumOf(w, U) \in Nat /\ SumOf(w, S) = w[a] + SumOf(w, U)
  BY SumSplits
<1>3. SumOf(v, S) = v[a] + SumOf(v, U)
  BY SumSplits
<1>4. w[a] \in Nat
  OBVIOUS
<1> HIDE DEF U
<1> QED
  BY <1>1, <1>2, <1>3, <1>4

\* No sum has smaller terms and is greater.
LEMMA SumMonotone ==
  ASSUME NEW S, IsFiniteSet(S), NEW w, NEW v,
         \A x \in S : w[x] \in Nat /\ v[x] \in Nat /\ w[x] <= v[x]
  PROVE  /\ SumOf(w, S) \in Nat /\ SumOf(v, S) \in Nat
         /\ SumOf(w, S) <= SumOf(v, S)
<1>1. PICK f : Sums(f, w, S) /\ SumOf(w, S) = f[S]
  BY SumByFunction
<1>2. PICK g : Sums(g, v, S) /\ SumOf(v, S) = g[S]
  BY SumByFunction
<1>3. \A T \in SUBSET S : f[T] \in Nat /\ g[T] \in Nat
  <2>1. \A T \in SUBSET S : f[T] \in Nat
    BY <1>1, SumsNat
  <2>2. \A T \in SUBSET S : g[T] \in Nat
    BY <1>2, SumsNat
  <2> QED
    BY <2>1, <2>2
<1> DEFINE Bad == {T \in SUBSET S : ~(f[T] <= g[T])}
<1>4. ASSUME Bad # {} PROVE FALSE
  <2>1. PICK T \in Bad : \A x \in T : T \ {x} \notin Bad
    <3>1. Bad \in SUBSET (SUBSET S)
      OBVIOUS
    <3> HIDE DEF Bad
    <3> QED
      BY <1>4, <3>1, Smallest
  <2>2. T \in SUBSET S /\ ~(f[T] <= g[T])
    OBVIOUS
  <2>3. CASE T = {}
    <3>1. f[T] = 0 /\ g[T] = 0
      BY <1>1, <1>2, <2>2, <2>3, SumsStep
    <3> QED
      BY <2>2, <3>1
  <2>4. CASE T # {}
    <3>8. Some(T) \in T /\ f[T] = w[Some(T)] + f[T \ {Some(T)}]
      <4> HIDE DEF Bad
      <4>1. Sums(f, w, S) /\ T \in SUBSET S
        BY <1>1, <2>2
      <4> QED
        BY <4>1, <2>4, SumsStep
    <3>9. g[T] = v[Some(T)] + g[T \ {Some(T)}]
      BY <1>2, <2>2, <2>4, SumsStep
    <3> DEFINE x == Some(T)
               U == T \ {x}
    <3>1. x \in T /\ f[T] = w[x] + f[U]
      BY <3>8
    <3>2. g[T] = v[x] + g[U]
      BY <3>9
    <3>3. U \in SUBSET S /\ U \notin Bad
      BY <2>1, <2>2, <3>1
    <3>4. f[U] <= g[U] /\ f[U] \in Nat /\ g[U] \in Nat
      BY <1>3, <3>3
    <3>5. w[x] \in Nat /\ v[x] \in Nat /\ w[x] <= v[x]
      BY <2>2, <3>1
    <3> HIDE DEF x, U
    <3> QED
      BY <2>2, <3>1, <3>2, <3>4, <3>5
  <2> QED
    BY <2>3, <2>4
<1> QED
  BY <1>1, <1>2, <1>3, <1>4
=============================================================================
