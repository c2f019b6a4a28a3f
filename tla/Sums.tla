-------------------------------- MODULE Sums --------------------------------
(***************************************************************************)
(* Laws of SumFunctionOnSet(f, T), the sum of f[x] over a finite set T, on *)
(* which the accounting proofs rest.  The fold that defines it picks the   *)
(* elements of T in an order of its own; the laws say that the order does  *)
(* not matter.  Each is proved from a smallest subset that breaks it.      *)
(***************************************************************************)
EXTENDS Integers, FiniteSets, Functions, FiniteSetTheorems, TLAPS

Pick(s) == CHOOSE x \in s : TRUE

\* g is the table of partial sums that the fold builds for the subsets of S.
PartialSums(f, S, g) ==
    g = [s \in SUBSET S |-> IF s = {} THEN 0 ELSE f[Pick(s)] + g[s \ {Pick(s)}]]

Integral(f, T) == \A x \in T : f[x] \in Int

-----------------------------------------------------------------------------

\* A non-empty collection of subsets of a finite set has a smallest member.
LEMMA SmallestSubset ==
    ASSUME NEW S, IsFiniteSet(S), NEW C \in SUBSET SUBSET S, C # {}
    PROVE  \E T \in C : \A U \in C : ~(U \subseteq T /\ U # T)
<1>1. IsWellFoundedOn(StrictSubsetOrdering(S), FiniteSubsetsOf(S))
  BY FS_StrictSubsetOrderingWellFounded
<1>2. C \subseteq FiniteSubsetsOf(S)
  BY FS_Subset DEF FiniteSubsetsOf
<1>3. \E T \in C : \A U \in C : ~(<<U, T>> \in StrictSubsetOrdering(S))
  BY <1>1, <1>2, WFMin
<1> QED
  BY <1>3 DEF StrictSubsetOrdering

\* What SumFunctionOnSet is.
LEMMA SumIsPartialSum ==
    ASSUME NEW f, NEW S
    PROVE  SumFunctionOnSet(f, S) = (CHOOSE g : PartialSums(f, S, g))[S]
  BY DEF SumFunctionOnSet, FoldFunctionOnSet, MapThenFoldSet, PartialSums, Pick

\* The partial sums of a set do not depend on the superset they were built for.
LEMMA PartialSumsAgree ==
    ASSUME NEW f, NEW S, NEW R, NEW g, NEW h, PartialSums(f, S, g), PartialSums(f, R, h),
           NEW T, T \subseteq S, T \subseteq R, IsFiniteSet(T)
    PROVE  g[T] = h[T]
<1> DEFINE C == {U \in SUBSET T : g[U] # h[U]}
<1>1. CASE C = {}
  BY <1>1
<1>2. CASE C # {}
  <2>1. PICK U \in C : \A V \in C : ~(V \subseteq U /\ V # U)
    <3>1. C \in SUBSET SUBSET T
      OBVIOUS
    <3> HIDE DEF C
    <3> QED
      BY <1>2, <3>1, SmallestSubset
  <2>2. /\ g[U] = IF U = {} THEN 0 ELSE f[Pick(U)] + g[U \ {Pick(U)}]
        /\ h[U] = IF U = {} THEN 0 ELSE f[Pick(U)] + h[U \ {Pick(U)}]
    BY DEF PartialSums
  <2>3. U # {}
    BY <2>2
  <2>4. Pick(U) \in U
    BY <2>3 DEF Pick
  <2>5. g[U \ {Pick(U)}] = h[U \ {Pick(U)}]
    BY <2>1, <2>4
  <2> QED
    BY <2>2, <2>3, <2>5
<1> QED
  BY <1>1, <1>2

\* The recursion of the fold defines a function.
LEMMA PartialSumsExist ==
    ASSUME NEW f, NEW S, IsFiniteSet(S)
    PROVE  \E g : PartialSums(f, S, g)
<1> DEFINE C == {T \in SUBSET S : ~\E g : PartialSums(f, T, g)}
           Sum(T) == SumFunctionOnSet(f, T)
<1>1. CASE C = {}
  BY <1>1
<1>2. CASE C # {}
  <2>1. PICK T \in C : \A U \in C : ~(U \subseteq T /\ U # T)
    <3>1. C \in SUBSET SUBSET S
      OBVIOUS
    <3> HIDE DEF C
    <3> QED
      BY <1>2, <3>1, SmallestSubset
  <2> DEFINE Below(s) == s \subseteq T /\ s # T
             G == [s \in SUBSET T |->
                      IF s = T THEN IF T = {} THEN 0 ELSE f[Pick(T)] + Sum(T \ {Pick(T)})
                      ELSE Sum(s)]
  <2>2. ASSUME NEW s, Below(s)
        PROVE  /\ s = {} => Sum(s) = 0
               /\ s # {} => Sum(s) = f[Pick(s)] + Sum(s \ {Pick(s)})
    <3>1. \A u : Below(u) => PartialSums(f, u, CHOOSE g : PartialSums(f, u, g))
      BY <2>1
    <3>2. \A u : Sum(u) = (CHOOSE g : PartialSums(f, u, g))[u]
      BY SumIsPartialSum
    <3>3. PICK g : PartialSums(f, s, g) /\ Sum(s) = g[s]
      BY <2>2, <3>1, <3>2
    <3>4. g[s] = IF s = {} THEN 0 ELSE f[Pick(s)] + g[s \ {Pick(s)}]
      BY <3>3 DEF PartialSums
    <3>5. ASSUME s # {} PROVE g[s \ {Pick(s)}] = Sum(s \ {Pick(s)})
      <4> DEFINE r == s \ {Pick(s)}
      <4>1. Pick(s) \in s
        BY <3>5 DEF Pick
      <4>2. Below(r) /\ r \subseteq s
        BY <4>1, <2>2
      <4>3. PICK h : PartialSums(f, r, h) /\ Sum(r) = h[r]
        BY <4>2, <3>1, <3>2
      <4>4. IsFiniteSet(r)
        <5>1. r \subseteq S
          BY <4>2
        <5> QED
          BY <5>1, FS_Subset
      <4> HIDE DEF r
      <4>5. g[r] = h[r]
        BY <3>3, <4>2, <4>3, <4>4, PartialSumsAgree
      <4> QED
        BY <4>3, <4>5 DEF r
    <3> QED
      BY <3>3, <3>4, <3>5
  <2>3. ASSUME NEW s \in SUBSET T
        PROVE  G[s] = IF s = {} THEN 0 ELSE f[Pick(s)] + G[s \ {Pick(s)}]
    <3>1. CASE s = {}
      BY <3>1, <2>2
    <3>2. CASE s # {}
      <4>1. Pick(s) \in s
        BY <3>2 DEF Pick
      <4>2. G[s \ {Pick(s)}] = Sum(s \ {Pick(s)})
        BY <4>1
      <4> QED
        BY <3>2, <4>2, <2>2
    <3> QED
      BY <3>1, <3>2
  <2>4. PartialSums(f, T, G)
    <3> DEFINE H == [s \in SUBSET T |-> IF s = {} THEN 0 ELSE f[Pick(s)] + G[s \ {Pick(s)}]]
    <3>1. DOMAIN G = SUBSET T /\ G = [s \in SUBSET T |-> G[s]]
      OBVIOUS
    <3>2. \A s \in SUBSET T : G[s] = H[s]
      BY <2>3
    <3>3. G = H
      BY <3>1, <3>2
    <3> QED
      BY <3>3 DEF PartialSums
  <2> QED
    BY <2>1, <2>4
<1> QED
  BY <1>1, <1>2

\* How the fold computes a sum: from the element it picks and the others.
LEMMA SumStep ==
    ASSUME NEW f, NEW T, IsFiniteSet(T)
    PROVE  /\ T = {} => SumFunctionOnSet(f, T) = 0
           /\ T # {} => /\ Pick(T) \in T
                        /\ SumFunctionOnSet(f, T)
                              = f[Pick(T)] + SumFunctionOnSet(f, T \ {Pick(T)})
<1>1. PICK g : PartialSums(f, T, g) /\ SumFunctionOnSet(f, T) = g[T]
  <2>1. PartialSums(f, T, CHOOSE g : PartialSums(f, T, g))
    BY PartialSumsExist
  <2> QED
    BY <2>1, SumIsPartialSum
<1>2. g[T] = IF T = {} THEN 0 ELSE f[Pick(T)] + g[T \ {Pick(T)}]
  BY <1>1 DEF PartialSums
<1>3. ASSUME T # {}
      PROVE  Pick(T) \in T /\ g[T \ {Pick(T)}] = SumFunctionOnSet(f, T \ {Pick(T)})
  <2> DEFINE r == T \ {Pick(T)}
  <2>1. Pick(T) \in T
    BY <1>3 DEF Pick
  <2>2. r \subseteq T
    OBVIOUS
  <2>3. IsFiniteSet(r)
    BY <2>2, FS_Subset
  <2> HIDE DEF r
  <2>4. PICK h : PartialSums(f, r, h) /\ SumFunctionOnSet(f, r) = h[r]
    <3>1. PartialSums(f, r, CHOOSE h : PartialSums(f, r, h))
      BY <2>3, PartialSumsExist
    <3> QED
      BY <3>1, SumIsPartialSum
  <2>5. g[r] = h[r]
    BY <1>1, <2>2, <2>3, <2>4, PartialSumsAgree
  <2> QED
    BY <2>1, <2>4, <2>5 DEF r
<1> QED
  BY <1>1, <1>2, <1>3

-----------------------------------------------------------------------------

\* A sum of integers is an integer.
LEMMA SumType ==
    ASSUME NEW f, NEW S, IsFiniteSet(S), Integral(f, S)
    PROVE  SumFunctionOnSet(f, S) \in Int
<1> DEFINE C == {T \in SUBSET S : SumFunctionOnSet(f, T) \notin Int}
<1>1. CASE C = {}
  BY <1>1
<1>2. CASE C # {}
  <2>1. PICK T \in C : \A U \in C : ~(U \subseteq T /\ U # T)
    <3>1. C \in SUBSET SUBSET S
      OBVIOUS
    <3> HIDE DEF C
    <3> QED
      BY <1>2, <3>1, SmallestSubset
  <2>2. IsFiniteSet(T)
    BY FS_Subset
  <2>3. /\ T # {} /\ Pick(T) \in T
        /\ SumFunctionOnSet(f, T) = f[Pick(T)] + SumFunctionOnSet(f, T \ {Pick(T)})
    BY <2>2, SumStep
  <2>4. SumFunctionOnSet(f, T \ {Pick(T)}) \in Int
    BY <2>1, <2>3
  <2> QED
    BY <2>3, <2>4 DEF Integral
<1> QED
  BY <1>1, <1>2

\* Any element can be taken out of a sum first.
LEMMA SumRemove ==
    ASSUME NEW f, NEW S, IsFiniteSet(S), Integral(f, S), NEW x \in S
    PROVE  SumFunctionOnSet(f, S) = f[x] + SumFunctionOnSet(f, S \ {x})
<1> DEFINE Sum(T) == SumFunctionOnSet(f, T)
           C == {T \in SUBSET S : \E y \in T : Sum(T) # f[y] + Sum(T \ {y})}
<1>1. CASE C = {}
  BY <1>1
<1>2. CASE C # {}
  <2>1. PICK T \in C : \A U \in C : ~(U \subseteq T /\ U # T)
    <3>1. C \in SUBSET SUBSET S
      OBVIOUS
    <3> HIDE DEF C
    <3> QED
      BY <1>2, <3>1, SmallestSubset
  <2>2. PICK y \in T : Sum(T) # f[y] + Sum(T \ {y})
    OBVIOUS
  <2>3. \A U \in SUBSET S : IsFiniteSet(U)
    BY FS_Subset
  <2>4. Pick(T) \in T /\ Sum(T) = f[Pick(T)] + Sum(T \ {Pick(T)})
    BY <2>2, <2>3, SumStep
  <2>5. y # Pick(T)
    BY <2>2, <2>4
  <2>6. T \ {Pick(T)} \notin C /\ T \ {y} \notin C
    BY <2>1, <2>2, <2>4
  <2>7. /\ Sum(T \ {Pick(T)}) = f[y] + Sum((T \ {Pick(T)}) \ {y})
        /\ Sum(T \ {y}) = f[Pick(T)] + Sum((T \ {y}) \ {Pick(T)})
    BY <2>2, <2>4, <2>5, <2>6
  <2>8. (T \ {Pick(T)}) \ {y} = (T \ {y}) \ {Pick(T)}
    OBVIOUS
  <2>9. PICK v \in Int : v = Sum((T \ {y}) \ {Pick(T)})
    <3> DEFINE r == (T \ {y}) \ {Pick(T)}
    <3>1. r \in SUBSET S
      OBVIOUS
    <3>2. IsFiniteSet(r) /\ Integral(f, r)
      BY <2>3, <3>1 DEF Integral
    <3> HIDE DEF r
    <3>3. Sum(r) \in Int
      BY <3>2, SumType
    <3> QED
      BY <3>3 DEF r
  <2>10. f[y] \in Int /\ f[Pick(T)] \in Int
    BY <2>2, <2>4 DEF Integral
  <2>11. Sum(T) = f[Pick(T)] + (f[y] + v) /\ Sum(T \ {y}) = f[Pick(T)] + v
    BY <2>4, <2>7, <2>8, <2>9
  <2> QED
    BY <2>2, <2>9, <2>10, <2>11
<1> QED
  BY <1>1, <1>2

\* A sum is monotonic in its terms.
LEMMA SumMonotonic ==
    ASSUME NEW f, NEW g, NEW S, IsFiniteSet(S), Integral(f, S), Integral(g, S),
           \A x \in S : f[x] <= g[x]
    PROVE  SumFunctionOnSet(f, S) <= SumFunctionOnSet(g, S)
<1> DEFINE C == {T \in SUBSET S : ~(SumFunctionOnSet(f, T) <= SumFunctionOnSet(g, T))}
<1>1. CASE C = {}
  BY <1>1
<1>2. CASE C # {}
  <2>1. PICK T \in C : \A U \in C : ~(U \subseteq T /\ U # T)
    <3>1. C \in SUBSET SUBSET S
      OBVIOUS
    <3> HIDE DEF C
    <3> QED
      BY <1>2, <3>1, SmallestSubset
  <2>2. \A U \in SUBSET S : IsFiniteSet(U) /\ Integral(f, U) /\ Integral(g, U)
    BY FS_Subset DEF Integral
  <2>3. CASE T = {}
    <3>1. SumFunctionOnSet(f, T) = 0 /\ SumFunctionOnSet(g, T) = 0
      BY <2>2, <2>3, SumStep
    <3> QED
      BY <3>1
  <2>4. CASE T # {}
    <3>1. /\ Pick(T) \in T
          /\ SumFunctionOnSet(f, T) = f[Pick(T)] + SumFunctionOnSet(f, T \ {Pick(T)})
          /\ SumFunctionOnSet(g, T) = g[Pick(T)] + SumFunctionOnSet(g, T \ {Pick(T)})
      BY <2>2, <2>4, SumStep
    <3> DEFINE r == T \ {Pick(T)}
    <3>2. r \in SUBSET S /\ r \notin C
      BY <2>1, <3>1
    <3>3. SumFunctionOnSet(f, r) <= SumFunctionOnSet(g, r)
      BY <3>2
    <3>4. f[Pick(T)] \in Int /\ g[Pick(T)] \in Int /\ f[Pick(T)] <= g[Pick(T)]
      BY <3>1 DEF Integral
    <3> HIDE DEF r
    <3>5. SumFunctionOnSet(f, r) \in Int /\ SumFunctionOnSet(g, r) \in Int
      BY <2>2, <3>2, SumType
    <3>6. SumFunctionOnSet(f, T) <= SumFunctionOnSet(g, T)
      BY <3>1, <3>3, <3>4, <3>5 DEF r
    <3> QED
      BY <3>6
  <2> QED
    BY <2>3, <2>4
<1> QED
  BY <1>1, <1>2

\* A sum depends on its terms only.
LEMMA SumSame ==
    ASSUME NEW f, NEW g, NEW S, IsFiniteSet(S), Integral(f, S), \A x \in S : f[x] = g[x]
    PROVE  SumFunctionOnSet(f, S) = SumFunctionOnSet(g, S)
<1>1. Integral(g, S) /\ \A x \in S : f[x] <= g[x] /\ g[x] <= f[x]
  BY DEF Integral
<1>2. /\ SumFunctionOnSet(f, S) <= SumFunctionOnSet(g, S)
      /\ SumFunctionOnSet(g, S) <= SumFunctionOnSet(f, S)
  BY <1>1, SumMonotonic
<1>3. SumFunctionOnSet(f, S) \in Int /\ SumFunctionOnSet(g, S) \in Int
  BY <1>1, SumType
<1> QED
  BY <1>2, <1>3

\* One term changes.
LEMMA SumUpdate ==
    ASSUME NEW f, NEW g, NEW S, IsFiniteSet(S), Integral(f, S), NEW x \in S, g[x] \in Int,
           \A y \in S : y # x => g[y] = f[y]
    PROVE  /\ SumFunctionOnSet(g, S) = SumFunctionOnSet(f, S) + (g[x] - f[x])
           /\ SumFunctionOnSet(f, S) \in Int /\ SumFunctionOnSet(g, S) \in Int
<1> DEFINE r == S \ {x}
<1>1. Integral(g, S) /\ Integral(f, r) /\ IsFiniteSet(r) /\ (\A y \in r : f[y] = g[y])
  BY FS_Subset DEF Integral
<1>2. /\ SumFunctionOnSet(f, S) = f[x] + SumFunctionOnSet(f, r)
      /\ SumFunctionOnSet(g, S) = g[x] + SumFunctionOnSet(g, r)
  BY <1>1, SumRemove
<1> HIDE DEF r
<1>3. SumFunctionOnSet(f, r) = SumFunctionOnSet(g, r) /\ SumFunctionOnSet(f, r) \in Int
  BY <1>1, SumSame, SumType
<1>4. f[x] \in Int
  BY DEF Integral
<1> QED
  BY <1>2, <1>3, <1>4

\* A sum of zeros.
LEMMA SumZero ==
    ASSUME NEW f, NEW S, IsFiniteSet(S), \A x \in S : f[x] = 0
    PROVE  SumFunctionOnSet(f, S) = 0
<1> DEFINE C == {T \in SUBSET S : SumFunctionOnSet(f, T) # 0}
<1>1. CASE C = {}
  BY <1>1
<1>2. CASE C # {}
  <2>1. PICK T \in C : \A U \in C : ~(U \subseteq T /\ U # T)
    <3>1. C \in SUBSET SUBSET S
      OBVIOUS
    <3> HIDE DEF C
    <3> QED
      BY <1>2, <3>1, SmallestSubset
  <2>2. IsFiniteSet(T)
    BY FS_Subset
  <2>3. /\ T # {} /\ Pick(T) \in T
        /\ SumFunctionOnSet(f, T) = f[Pick(T)] + SumFunctionOnSet(f, T \ {Pick(T)})
    BY <2>2, SumStep
  <2>4. SumFunctionOnSet(f, T \ {Pick(T)}) = 0 /\ f[Pick(T)] = 0
    BY <2>1, <2>3
  <2> QED
    BY <2>3, <2>4
<1> QED
  BY <1>1, <1>2

\* No term of a sum of naturals exceeds the sum.
LEMMA SumBoundsTerms ==
    ASSUME NEW f, NEW S, IsFiniteSet(S), \A x \in S : f[x] \in Nat
    PROVE  /\ SumFunctionOnSet(f, S) \in Nat
           /\ \A x \in S : f[x] <= SumFunctionOnSet(f, S)
<1> DEFINE zero == [x \in S |-> 0]
<1>1. \A T \in SUBSET S : /\ IsFiniteSet(T) /\ Integral(f, T) /\ Integral(zero, T)
                          /\ \A x \in T : zero[x] = 0 /\ zero[x] <= f[x]
  BY FS_Subset DEF Integral
<1> HIDE DEF zero
<1>2. ASSUME NEW T \in SUBSET S PROVE SumFunctionOnSet(f, T) \in Nat
  <2>1. SumFunctionOnSet(zero, T) = 0
    BY <1>1, SumZero
  <2>2. SumFunctionOnSet(zero, T) <= SumFunctionOnSet(f, T)
    BY <1>1, SumMonotonic
  <2>3. SumFunctionOnSet(f, T) \in Int
    BY <1>1, SumType
  <2> QED
    BY <2>1, <2>2, <2>3
<1>3. ASSUME NEW x \in S PROVE f[x] <= SumFunctionOnSet(f, S)
  <2> DEFINE r == S \ {x}
  <2>1. SumFunctionOnSet(f, S) = f[x] + SumFunctionOnSet(f, r)
    BY <1>1, SumRemove
  <2>2. SumFunctionOnSet(f, r) \in Nat /\ f[x] \in Nat
    BY <1>2
  <2> QED
    BY <2>1, <2>2
<1> QED
  BY <1>2, <1>3

\* Terms that are zero can be left out.
LEMMA SumSupport ==
    ASSUME NEW f, NEW S, IsFiniteSet(S), Integral(f, S), NEW R \in SUBSET S,
           \A x \in S \ R : f[x] = 0
    PROVE  SumFunctionOnSet(f, S) = SumFunctionOnSet(f, R)
<1> DEFINE Sum(T) == SumFunctionOnSet(f, T)
           C == {T \in SUBSET S : R \subseteq T /\ Sum(T) # Sum(R)}
<1>1. CASE C = {}
  BY <1>1
<1>2. CASE C # {}
  <2>1. PICK T \in C : \A U \in C : ~(U \subseteq T /\ U # T)
    <3>1. C \in SUBSET SUBSET S
      OBVIOUS
    <3> HIDE DEF C
    <3> QED
      BY <1>2, <3>1, SmallestSubset
  <2>2. PICK x \in T : x \notin R
    <3>1. R \subseteq T /\ Sum(T) # Sum(R)
      OBVIOUS
    <3>2. T # R
      BY <3>1
    <3> QED
      BY <3>1, <3>2
  <2>3. IsFiniteSet(T) /\ Integral(f, T) /\ f[x] = 0
    BY <2>2, FS_Subset DEF Integral
  <2>4. Sum(T) = f[x] + Sum(T \ {x})
    BY <2>3, SumRemove
  <2>5. Sum(T \ {x}) = Sum(R)
    BY <2>1, <2>2
  <2>6. Sum(R) \in Int
    <3>1. IsFiniteSet(R) /\ Integral(f, R)
      BY FS_Subset DEF Integral
    <3> QED
      BY <3>1, SumType
  <2> QED
    BY <2>3, <2>4, <2>5, <2>6
<1> QED
  BY <1>1, <1>2

\* Sums add up term by term.
LEMMA SumAdds ==
    ASSUME NEW f, NEW g, NEW h, NEW S, IsFiniteSet(S), Integral(f, S), Integral(g, S),
           \A x \in S : h[x] = f[x] + g[x]
    PROVE  SumFunctionOnSet(h, S) = SumFunctionOnSet(f, S) + SumFunctionOnSet(g, S)
<1> DEFINE F(T) == SumFunctionOnSet(f, T)
           G(T) == SumFunctionOnSet(g, T)
           H(T) == SumFunctionOnSet(h, T)
           C == {T \in SUBSET S : H(T) # F(T) + G(T)}
<1>1. CASE C = {}
  BY <1>1
<1>2. CASE C # {}
  <2>1. PICK T \in C : \A U \in C : ~(U \subseteq T /\ U # T)
    <3>1. C \in SUBSET SUBSET S
      OBVIOUS
    <3> HIDE DEF C
    <3> QED
      BY <1>2, <3>1, SmallestSubset
  <2>2. \A U \in SUBSET S : IsFiniteSet(U) /\ Integral(f, U) /\ Integral(g, U)
    BY FS_Subset DEF Integral
  <2>3. CASE T = {}
    <3>1. F(T) = 0 /\ G(T) = 0 /\ H(T) = 0
      BY <2>2, <2>3, SumStep
    <3> QED
      BY <3>1
  <2>4. CASE T # {}
    <3> DEFINE x == Pick(T)
               r == T \ {x}
    <3>1. x \in T /\ F(T) = f[x] + F(r) /\ G(T) = g[x] + G(r) /\ H(T) = h[x] + H(r)
      BY <2>2, <2>4, SumStep
    <3>2. r \in SUBSET S /\ r \notin C
      BY <2>1, <3>1
    <3>3. H(r) = F(r) + G(r)
      BY <3>2
    <3>4. f[x] \in Int /\ g[x] \in Int /\ h[x] = f[x] + g[x]
      BY <3>1 DEF Integral
    <3>5. F(r) \in Int /\ G(r) \in Int
      BY <2>2, <3>2, SumType
    <3> HIDE DEF r, x, F, G, H
    <3>6. H(T) = F(T) + G(T)
      BY <3>1, <3>3, <3>4, <3>5
    <3> QED
      BY <3>6
  <2> QED
    BY <2>3, <2>4
<1> QED
  BY <1>1, <1>2

\* The elements of D by the class k assigns them, summed class by class.
ByClass(f, k, D, W) == [w \in W |-> SumFunctionOnSet(f, {x \in D : k[x] = w})]

\* A sum can be taken class by class.
LEMMA SumPartition ==
    ASSUME NEW f, NEW k, NEW D, NEW W, IsFiniteSet(D), IsFiniteSet(W), Integral(f, D),
           \A x \in D : k[x] \in W
    PROVE  /\ SumFunctionOnSet(ByClass(f, k, D, W), W) = SumFunctionOnSet(f, D)
           /\ \A w \in W : SumFunctionOnSet(f, {x \in D : k[x] = w}) \in Int
<1> DEFINE Sum(T) == SumFunctionOnSet(f, T)
           By(T) == ByClass(f, k, T, W)
           Total(T) == SumFunctionOnSet(By(T), W)
           Class(T, w) == {x \in T : k[x] = w}
           C == {T \in SUBSET D : Total(T) # Sum(T)}
<1>1. \A T \in SUBSET D : IsFiniteSet(T) /\ Integral(f, T)
  BY FS_Subset DEF Integral
<1>2. \A T \in SUBSET D, w \in W : Sum(Class(T, w)) \in Int
  <2> SUFFICES ASSUME NEW T \in SUBSET D, NEW w \in W PROVE Sum(Class(T, w)) \in Int
    OBVIOUS
  <2>1. Class(T, w) \in SUBSET D
    OBVIOUS
  <2> HIDE DEF Class
  <2> QED
    BY <1>1, <2>1, SumType
<1>3. \A T \in SUBSET D : Integral(By(T), W) /\ \A w \in W : By(T)[w] = Sum(Class(T, w))
  BY <1>2 DEF ByClass, Integral
<1>4. CASE C # {}
  <2>1. PICK T \in C : \A U \in C : ~(U \subseteq T /\ U # T)
    <3>1. C \in SUBSET SUBSET D
      OBVIOUS
    <3> HIDE DEF C
    <3> QED
      BY <1>4, <3>1, SmallestSubset
  <2>2. CASE T = {}
    <3>1. Sum({}) = 0
      BY FS_EmptySet, SumStep
    <3>2. \A w \in W : Class(T, w) = {}
      BY <2>2
    <3>3. \A w \in W : By(T)[w] = 0
      BY <1>3, <3>1, <3>2
    <3> HIDE DEF By
    <3>4. Total(T) = 0
      BY <3>3, SumZero
    <3> QED
      BY <2>1, <2>2, <3>1, <3>4
  <2>3. CASE T # {}
    <3>0. Pick(T) \in T /\ Sum(T) = f[Pick(T)] + Sum(T \ {Pick(T)})
      BY <1>1, <2>3, SumStep
    <3>1. PICK x \in T : Sum(T) = f[x] + Sum(T \ {x})
      BY <3>0
    <3> DEFINE r == T \ {x}
               v == k[x]
    <3>2. r \in SUBSET D /\ Total(r) = Sum(r)
      BY <2>1, <3>1
    <3>3. v \in W /\ f[x] \in Int
      BY <3>1 DEF Integral
    <3>4. \A w \in W : w # v => By(T)[w] = By(r)[w]
      <4> SUFFICES ASSUME NEW w \in W, w # v PROVE By(T)[w] = By(r)[w]
        OBVIOUS
      <4>1. Class(T, w) = Class(r, w)
        OBVIOUS
      <4> QED
        BY <4>1, <3>2, <1>3
    <3>5. By(T)[v] = f[x] + By(r)[v]
      <4> DEFINE c == Class(T, v)
      <4>1. c \in SUBSET D /\ x \in c /\ c \ {x} = Class(r, v)
        OBVIOUS
      <4> HIDE DEF c
      <4>2. Sum(c) = f[x] + Sum(c \ {x})
        BY <4>1, <1>1, SumRemove
      <4> QED
        BY <4>1, <4>2, <3>2, <3>3, <1>3 DEF c
    <3>6. By(r)[v] \in Int /\ By(T)[v] \in Int
      BY <3>2, <3>3, <1>3 DEF Integral
    <3>7. Integral(By(r), W)
      BY <3>2, <1>3
    <3> HIDE DEF By, v, r
    <3>8. /\ Total(T) = Total(r) + (By(T)[v] - By(r)[v])
          /\ Total(r) \in Int
      BY <3>3, <3>4, <3>6, <3>7, SumUpdate
    <3>9. Total(T) = Sum(T)
      BY <3>1, <3>2, <3>3, <3>5, <3>6, <3>8 DEF r
    <3> QED
      BY <3>9
  <2> QED
    BY <2>2, <2>3
<1> QED
  BY <1>2, <1>4

=============================================================================
