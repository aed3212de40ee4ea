---------------------------- MODULE SumTheorems ----------------------------
(***************************************************************************)
(* What a sum over a finite set is: SumFunctionOnSet of the community      *)
(* modules, a fold that takes the elements one by one.  The models count   *)
(* connections, guesses and prices with it, the proofs need that it is     *)
(* defined, whichever element comes first, and what one change does to it. *)
(* Sums are shown to exist (SumsExist) by the least size for which none    *)
(* does, and to have a property by the set of sets that have it (GrowUp).  *)
(***************************************************************************)
EXTENDS FiniteSetTheorems, TLAPS

Least(s) == CHOOSE x \in s : TRUE

\* g sums f over the subsets of S, the elements taken one by one.
Sums(g, f, S) ==
    g = [s \in SUBSET S |-> IF s = {} THEN 0 ELSE f[Least(s)] + g[s \ {Least(s)}]]

\* What SumFunctionOnSet computes with.
LEMMA SumIs == ASSUME NEW f, NEW S PROVE SumFunctionOnSet(f, S) = (CHOOSE g : Sums(g, f, S))[S]
  BY DEF SumFunctionOnSet, FoldFunctionOnSet, MapThenFoldSet, Sums, Least

\* A set of numbers that is not empty has a least one.
LEMMA LeastNumber == ASSUME NEW T \in SUBSET Nat, T # {} PROVE \E k \in T : \A m \in T : k <= m
<1> DEFINE R == {p \in Nat \X Nat : p[1] < p[2]}
<1>1. IsWellFoundedOn(R, Nat)
  BY NatLessThanWellFounded DEF OpToRel
<1>2. T \subseteq Nat /\ T # {}
  OBVIOUS
<1> HIDE DEF R
<1>3. PICK x \in T : \A y \in T : ~(<<y, x>> \in R)
  BY <1>1, <1>2, WFMin
<1>4. \A y \in T : ~(y < x)
  BY <1>3 DEF R
<1> QED
  BY <1>4

\* There is such a g for every finite set.
LEMMA SumsExist == ASSUME NEW S, IsFiniteSet(S), NEW f PROVE \E g : Sums(g, f, S)
<1> DEFINE D(n) == {s \in SUBSET S : Cardinality(s) <= n}
           Upto(g, n) == g = [s \in D(n) |-> IF s = {} THEN 0 ELSE f[Least(s)] + g[s \ {Least(s)}]]
           Bad == {n \in Nat : ~\E g : Upto(g, n)}
<1>1. \A s \in SUBSET S : IsFiniteSet(s) /\ Cardinality(s) \in Nat /\ Cardinality(s) <= Cardinality(S)
  BY FS_Subset, FS_CardinalityType
<1>2. \A s \in SUBSET S : s # {} => /\ Least(s) \in s /\ s \ {Least(s)} \in SUBSET S
                                  /\ Cardinality(s \ {Least(s)}) = Cardinality(s) - 1
  <2> SUFFICES ASSUME NEW s \in SUBSET S, s # {}
               PROVE  Least(s) \in s /\ Cardinality(s \ {Least(s)}) = Cardinality(s) - 1
    OBVIOUS
  <2>1. Least(s) \in s
    BY DEF Least
  <2>2. QED
    BY <2>1, <1>1, FS_RemoveElement
<1>3. \A s \in SUBSET S : Cardinality(s) = 0 <=> s = {}
  BY <1>1, FS_EmptySet
<1>4. \E g : Upto(g, 0)
  <2> DEFINE g == [s \in D(0) |-> 0]
  <2>1. \A s \in D(0) : s = {}
    BY <1>1, <1>3
  <2>2. Upto(g, 0)
    BY <2>1
  <2> QED
    BY <2>2
<1>5. ASSUME NEW n \in Nat, NEW g, Upto(g, n) PROVE \E h : Upto(h, n + 1)
  <2> DEFINE h == [s \in D(n + 1) |-> IF s = {} THEN 0 ELSE f[Least(s)] + g[s \ {Least(s)}]]
  <2>1. ASSUME NEW s \in D(n + 1), s # {} PROVE g[s \ {Least(s)}] = h[s \ {Least(s)}]
    <3> DEFINE r == s \ {Least(s)}
    <3>1. r \in D(n) /\ r \in D(n + 1)
      BY <2>1, <1>2, <1>1
    <3>2. g[r] = IF r = {} THEN 0 ELSE f[Least(r)] + g[r \ {Least(r)}]
      BY <3>1, <1>5
    <3>3. h[r] = IF r = {} THEN 0 ELSE f[Least(r)] + g[r \ {Least(r)}]
      BY <3>1
    <3> QED
      BY <3>2, <3>3
  <2>2. h = [s \in D(n + 1) |-> IF s = {} THEN 0 ELSE f[Least(s)] + h[s \ {Least(s)}]]
    <3> HIDE DEF D
    <3>1. \A s \in D(n + 1) : (IF s = {} THEN 0 ELSE f[Least(s)] + g[s \ {Least(s)}])
                              = (IF s = {} THEN 0 ELSE f[Least(s)] + h[s \ {Least(s)}])
      BY <2>1
    <3> QED
      BY <3>1, Zenon
  <2> QED
    BY <2>2
<1> HIDE DEF Upto
<1>6. \A n \in Nat : \E g : Upto(g, n)
  <2>1. SUFFICES ASSUME Bad # {} PROVE FALSE
    OBVIOUS
  <2>2. Bad \in SUBSET Nat
    OBVIOUS
  <2>3. PICK n \in Bad : \A m \in Bad : n <= m
    BY <2>1, <2>2, LeastNumber
  <2>4. n \in Nat /\ n # 0
    BY <1>4
  <2>5. n - 1 \in Nat /\ (n - 1) + 1 = n
    BY <2>4
  <2>6. n - 1 \notin Bad
    <3> HIDE DEF Bad
    <3> QED
      BY <2>3, <2>4, <2>5
  <2>7. PICK g : Upto(g, n - 1)
    BY <2>5, <2>6
  <2>8. \E h : Upto(h, (n - 1) + 1)
    BY <1>5, <2>5, <2>7
  <2> QED
    BY <2>5, <2>8
<1>7. D(Cardinality(S)) = SUBSET S
  BY <1>1
<1>8. PICK g : Upto(g, Cardinality(S))
  <2>1. Cardinality(S) \in Nat
    BY FS_CardinalityType
  <2> QED
    BY <2>1, <1>6
<1>9. Sums(g, f, S)
  BY <1>7, <1>8, Zenon DEF Sums, Upto
<1> QED
  BY <1>9

\* Induction over numbers and over finite sets, for a set G of the good ones.
LEMMA CountUp ==
    ASSUME NEW G, 0 \in G, \A n \in Nat : n \in G => n + 1 \in G
    PROVE  Nat \subseteq G
<1>1. SUFFICES ASSUME Nat \ G # {} PROVE FALSE
  OBVIOUS
<1>2. PICK n \in Nat \ G : \A m \in Nat \ G : n <= m
  BY <1>1, LeastNumber
<1>3. n \in Nat /\ n # 0
  BY <1>2
<1>4. n - 1 \in Nat /\ n - 1 \in G /\ (n - 1) + 1 = n
  BY <1>2, <1>3
<1> QED
  BY <1>2, <1>4

\* What holds of nothing, and of a set once it holds of it less any one element, holds of every finite set.
LEMMA GrowUp ==
    ASSUME NEW T, IsFiniteSet(T), NEW G, {} \in G,
           \A s \in SUBSET T : s # {} /\ (\A x \in s : s \ {x} \in G) => s \in G
    PROVE  SUBSET T \subseteq G
<1> DEFINE H == {n \in Nat : \A s \in SUBSET T : Cardinality(s) = n => s \in G}
<1>1. \A s \in SUBSET T : IsFiniteSet(s) /\ Cardinality(s) \in Nat
  BY FS_Subset, FS_CardinalityType
<1>2. 0 \in H
  BY <1>1, FS_EmptySet
<1>3. ASSUME NEW n \in Nat, n \in H PROVE n + 1 \in H
  <2>1. SUFFICES ASSUME NEW s \in SUBSET T, Cardinality(s) = n + 1 PROVE s \in G
    OBVIOUS
  <2>2. s # {}
    BY <2>1, FS_EmptySet
  <2>3. ASSUME NEW x \in s PROVE s \ {x} \in G
    <3>1. Cardinality(s \ {x}) = n
      BY <1>1, <2>1, FS_RemoveElement
    <3> QED
      BY <1>3, <3>1
  <2> QED
    BY <2>2, <2>3
<1>4. Nat \subseteq H
  <2> HIDE DEF H
  <2> QED
    BY <1>2, <1>3, CountUp
<1> QED
  BY <1>1, <1>4

\* What a sum is depends on the numbers summed alone.
LEMMA SumsAgree ==
    ASSUME NEW T, IsFiniteSet(T), NEW S, NEW R, T \subseteq S, T \subseteq R,
           NEW f, NEW e, \A x \in T : f[x] = e[x], NEW g, NEW h, Sums(g, f, S), Sums(h, e, R)
    PROVE  g[T] = h[T]
<1> DEFINE G == {s \in SUBSET T : g[s] = h[s]}
<1>1. ASSUME NEW s \in SUBSET T
      PROVE  /\ g[s] = IF s = {} THEN 0 ELSE f[Least(s)] + g[s \ {Least(s)}]
             /\ h[s] = IF s = {} THEN 0 ELSE e[Least(s)] + h[s \ {Least(s)}]
  <2>1. s \in SUBSET S /\ s \in SUBSET R
    OBVIOUS
  <2> QED
    BY <2>1 DEF Sums
<1>2. {} \in G
  BY <1>1
<1>3. ASSUME NEW s \in SUBSET T, s # {}, \A x \in s : s \ {x} \in G PROVE s \in G
  <2>1. Least(s) \in s
    BY <1>3 DEF Least
  <2>2. g[s \ {Least(s)}] = h[s \ {Least(s)}] /\ f[Least(s)] = e[Least(s)]
    BY <2>1, <1>3
  <2>3. g[s] = h[s]
    BY <1>1, <1>3, <2>2
  <2> QED
    BY <2>3
<1>4. SUBSET T \subseteq G
  <2> HIDE DEF G
  <2> QED
    BY <1>2, <1>3, GrowUp
<1> QED
  BY <1>4

\* Two functions that agree on a set have the same sum over it.
LEMMA SumAgrees ==
    ASSUME NEW T, IsFiniteSet(T), NEW f, NEW e, \A x \in T : f[x] = e[x]
    PROVE  SumFunctionOnSet(f, T) = SumFunctionOnSet(e, T)
<1>1. Sums(CHOOSE g : Sums(g, f, T), f, T) /\ Sums(CHOOSE g : Sums(g, e, T), e, T)
  BY SumsExist, Zenon
<1> QED
  BY <1>1, SumIs, SumsAgree

\* Of nothing it is zero, and one element more adds its number.
LEMMA SumOfNothing == ASSUME NEW f PROVE SumFunctionOnSet(f, {}) = 0
<1>1. Sums(CHOOSE g : Sums(g, f, {}), f, {})
  BY SumsExist, FS_EmptySet, Zenon
<1> QED
  BY <1>1, SumIs DEF Sums

\* A set that is not empty: the first element and the others.
LEMMA SumTakesLeast ==
    ASSUME NEW T, IsFiniteSet(T), T # {}, NEW f
    PROVE  SumFunctionOnSet(f, T) = f[Least(T)] + SumFunctionOnSet(f, T \ {Least(T)})
<1> DEFINE g == CHOOSE g : Sums(g, f, T)
           R == T \ {Least(T)}
           h == CHOOSE h : Sums(h, f, R)
<1>1. IsFiniteSet(R) /\ R \subseteq T
  BY FS_RemoveElement
<1>2. Sums(g, f, T) /\ Sums(h, f, R)
  BY <1>1, SumsExist, Zenon
<1> HIDE DEF g, h
<1>3. g[R] = h[R]
  BY <1>1, <1>2, SumsAgree
<1>4. g[T] = f[Least(T)] + g[R]
  BY <1>2 DEF Sums
<1> QED
  BY <1>3, <1>4, SumIs DEF g, h

\* A sum of integers is one.
LEMMA SumIsNumber ==
    ASSUME NEW T, IsFiniteSet(T), NEW f, \A x \in T : f[x] \in Int
    PROVE  SumFunctionOnSet(f, T) \in Int
<1> DEFINE G == {s \in SUBSET T : SumFunctionOnSet(f, s) \in Int}
<1>1. {} \in G
  BY SumOfNothing
<1>2. ASSUME NEW s \in SUBSET T, s # {}, \A x \in s : s \ {x} \in G PROVE s \in G
  <2>1. Least(s) \in s /\ IsFiniteSet(s)
    BY <1>2, FS_Subset DEF Least
  <2>2. SumFunctionOnSet(f, s) = f[Least(s)] + SumFunctionOnSet(f, s \ {Least(s)})
    BY <1>2, <2>1, SumTakesLeast
  <2> QED
    BY <1>2, <2>1, <2>2
<1>3. SUBSET T \subseteq G
  <2> HIDE DEF G
  <2> QED
    BY <1>1, <1>2, GrowUp
<1> QED
  BY <1>3

\* Whichever element is taken first.
LEMMA SumTakes ==
    ASSUME NEW T, IsFiniteSet(T), NEW f, \A x \in T : f[x] \in Int, NEW y \in T
    PROVE  SumFunctionOnSet(f, T) = f[y] + SumFunctionOnSet(f, T \ {y})
<1> DEFINE Sum(s) == SumFunctionOnSet(f, s)
           G == {s \in SUBSET T : \A x \in s : Sum(s) = f[x] + Sum(s \ {x})}
<1>1. {} \in G
  OBVIOUS
<1>2. \A s \in SUBSET T : IsFiniteSet(s) /\ Sum(s) \in Int
  <2>1. ASSUME NEW s \in SUBSET T PROVE IsFiniteSet(s)
    BY FS_Subset
  <2> QED
    BY <2>1, SumIsNumber
<1>3. ASSUME NEW s \in SUBSET T, s # {}, \A x \in s : s \ {x} \in G PROVE s \in G
  <2>1. SUFFICES ASSUME NEW x \in s PROVE Sum(s) = f[x] + Sum(s \ {x})
    OBVIOUS
  <2> DEFINE l == Least(s)
             r == s \ {l}
  <2>2. l \in s
    BY <1>3 DEF Least
  <2>3. Sum(s) = f[l] + Sum(r)
    BY <1>2, <1>3, SumTakesLeast
  <2>4. CASE x = l
    BY <2>3, <2>4
  <2>5. CASE x # l
    <3>1. x \in r /\ l \in s \ {x} /\ r \ {x} = (s \ {x}) \ {l}
      BY <2>2, <2>5
    <3>2. Sum(r) = f[x] + Sum(r \ {x})
      BY <1>3, <2>2, <3>1
    <3>3. Sum(s \ {x}) = f[l] + Sum((s \ {x}) \ {l})
      BY <1>3, <3>1
    <3>4. f[x] \in Int /\ f[l] \in Int /\ Sum(r \ {x}) \in Int
      BY <1>2, <2>2
    <3>5. Sum((s \ {x}) \ {l}) = Sum(r \ {x})
      BY <3>1
    <3>6. Sum(s) = f[l] + (f[x] + Sum(r \ {x}))
      BY <2>3, <3>2
    <3>7. Sum(s \ {x}) = f[l] + Sum(r \ {x})
      BY <3>3, <3>5
    <3> HIDE DEF Sum, l, r
    <3> QED
      BY <3>4, <3>6, <3>7
  <2> QED
    BY <2>4, <2>5
<1>4. SUBSET T \subseteq G
  <2> HIDE DEF G
  <2> QED
    BY <1>1, <1>3, GrowUp
<1> QED
  BY <1>4

\* One number changed.
LEMMA SumChanges ==
    ASSUME NEW T, IsFiniteSet(T), NEW f, NEW e, NEW y \in T,
           \A x \in T : f[x] \in Int /\ e[x] \in Int, \A x \in T \ {y} : e[x] = f[x]
    PROVE  SumFunctionOnSet(e, T) = SumFunctionOnSet(f, T) - f[y] + e[y]
<1>1. IsFiniteSet(T \ {y})
  BY FS_RemoveElement
<1>2. SumFunctionOnSet(f, T) = f[y] + SumFunctionOnSet(f, T \ {y})
  BY SumTakes
<1>3. SumFunctionOnSet(e, T) = e[y] + SumFunctionOnSet(e, T \ {y})
  BY SumTakes
<1>4. SumFunctionOnSet(e, T \ {y}) = SumFunctionOnSet(f, T \ {y})
  BY <1>1, SumAgrees
<1>5. SumFunctionOnSet(f, T \ {y}) \in Int
  BY <1>1, SumIsNumber
<1> QED
  BY <1>2, <1>3, <1>4, <1>5

\* Sums of larger numbers are larger.
LEMMA SumGrows ==
    ASSUME NEW T, IsFiniteSet(T), NEW f, NEW e,
           \A x \in T : f[x] \in Int /\ e[x] \in Int /\ f[x] <= e[x]
    PROVE  SumFunctionOnSet(f, T) <= SumFunctionOnSet(e, T)
<1> DEFINE G == {s \in SUBSET T : SumFunctionOnSet(f, s) <= SumFunctionOnSet(e, s)}
<1>1. {} \in G
  BY SumOfNothing
<1>2. ASSUME NEW s \in SUBSET T, s # {}, \A x \in s : s \ {x} \in G PROVE s \in G
  <2> DEFINE l == Least(s)
             r == s \ {l}
  <2>1. l \in s /\ l \in T /\ IsFiniteSet(s) /\ IsFiniteSet(r)
    BY <1>2, FS_Subset DEF Least
  <2>2. SumFunctionOnSet(f, s) = f[l] + SumFunctionOnSet(f, r)
    BY <1>2, <2>1, SumTakesLeast
  <2>3. SumFunctionOnSet(e, s) = e[l] + SumFunctionOnSet(e, r)
    BY <1>2, <2>1, SumTakesLeast
  <2>4. SumFunctionOnSet(f, r) \in Int /\ SumFunctionOnSet(e, r) \in Int
    <3>1. r \subseteq T
      OBVIOUS
    <3> QED
      BY <2>1, <3>1, SumIsNumber
  <2>5. SumFunctionOnSet(f, r) <= SumFunctionOnSet(e, r)
    BY <1>2, <2>1
  <2>6. SumFunctionOnSet(f, s) <= SumFunctionOnSet(e, s)
    <3> HIDE DEF l, r
    <3> QED
      BY <2>1, <2>2, <2>3, <2>4, <2>5
  <2> QED
    BY <2>6
<1>3. SUBSET T \subseteq G
  <2> HIDE DEF G
  <2> QED
    BY <1>1, <1>2, GrowUp
<1> QED
  BY <1>3

\* A sum of zeros is zero.
LEMMA SumOfZeros ==
    ASSUME NEW T, IsFiniteSet(T), NEW f, \A x \in T : f[x] = 0
    PROVE  SumFunctionOnSet(f, T) = 0
<1> DEFINE G == {s \in SUBSET T : SumFunctionOnSet(f, s) = 0}
<1>1. {} \in G
  BY SumOfNothing
<1>2. ASSUME NEW s \in SUBSET T, s # {}, \A x \in s : s \ {x} \in G PROVE s \in G
  <2>1. Least(s) \in s /\ IsFiniteSet(s)
    BY <1>2, FS_Subset DEF Least
  <2>2. SumFunctionOnSet(f, s) = f[Least(s)] + SumFunctionOnSet(f, s \ {Least(s)})
    BY <1>2, <2>1, SumTakesLeast
  <2> QED
    BY <1>2, <2>1, <2>2
<1>3. SUBSET T \subseteq G
  <2> HIDE DEF G
  <2> QED
    BY <1>1, <1>2, GrowUp
<1> QED
  BY <1>3

\* A sum of naturals is one.
LEMMA SumOfNats ==
    ASSUME NEW T, IsFiniteSet(T), NEW f, \A x \in T : f[x] \in Nat
    PROVE  SumFunctionOnSet(f, T) \in Nat
<1> DEFINE e == [x \in T |-> 0]
<1>1. SumFunctionOnSet(e, T) = 0
  BY SumOfZeros
<1>2. \A x \in T : e[x] \in Int /\ f[x] \in Int /\ e[x] <= f[x]
  OBVIOUS
<1>3. SumFunctionOnSet(e, T) <= SumFunctionOnSet(f, T)
  <2> HIDE DEF e
  <2> QED
    BY <1>2, SumGrows
<1>4. SumFunctionOnSet(f, T) \in Int
  BY SumIsNumber
<1> QED
  BY <1>1, <1>3, <1>4

\* Two numbers for each element.
LEMMA SumOfTwo ==
    ASSUME NEW T, IsFiniteSet(T), NEW f, NEW e, NEW h,
           \A x \in T : f[x] \in Int /\ e[x] \in Int /\ h[x] = f[x] + e[x]
    PROVE  SumFunctionOnSet(h, T) = SumFunctionOnSet(f, T) + SumFunctionOnSet(e, T)
<1> DEFINE G == {s \in SUBSET T : SumFunctionOnSet(h, s) = SumFunctionOnSet(f, s) + SumFunctionOnSet(e, s)}
<1>1. {} \in G
  BY SumOfNothing
<1>2. ASSUME NEW s \in SUBSET T, s # {}, \A x \in s : s \ {x} \in G PROVE s \in G
  <2> DEFINE l == Least(s)
             r == s \ {l}
  <2>1. l \in s /\ l \in T /\ IsFiniteSet(s) /\ IsFiniteSet(r) /\ r \subseteq T
    BY <1>2, FS_Subset DEF Least
  <2>2. SumFunctionOnSet(f, s) = f[l] + SumFunctionOnSet(f, r)
    BY <1>2, <2>1, SumTakesLeast
  <2>3. SumFunctionOnSet(e, s) = e[l] + SumFunctionOnSet(e, r)
    BY <1>2, <2>1, SumTakesLeast
  <2>4. SumFunctionOnSet(h, s) = h[l] + SumFunctionOnSet(h, r)
    BY <1>2, <2>1, SumTakesLeast
  <2>5. SumFunctionOnSet(f, r) \in Int /\ SumFunctionOnSet(e, r) \in Int
    BY <2>1, SumIsNumber
  <2>6. SumFunctionOnSet(h, r) = SumFunctionOnSet(f, r) + SumFunctionOnSet(e, r)
    BY <1>2, <2>1
  <2>7. SumFunctionOnSet(h, s) = SumFunctionOnSet(f, s) + SumFunctionOnSet(e, s)
    <3>1. f[l] \in Int /\ e[l] \in Int /\ h[l] = f[l] + e[l]
      BY <2>1
    <3> HIDE DEF l, r
    <3> QED
      BY <2>2, <2>3, <2>4, <2>5, <2>6, <3>1
  <2> QED
    BY <2>7
<1>3. SUBSET T \subseteq G
  <2> HIDE DEF G
  <2> QED
    BY <1>1, <1>2, GrowUp
<1> QED
  BY <1>3

\* Elements whose number is zero need not be summed.
LEMMA SumWithin ==
    ASSUME NEW T, IsFiniteSet(T), NEW A \in SUBSET T, NEW e, NEW f,
           \A x \in A : e[x] = f[x] /\ f[x] \in Int, \A x \in T \ A : f[x] = 0
    PROVE  SumFunctionOnSet(e, A) = SumFunctionOnSet(f, T)
<1> DEFINE G == {s \in SUBSET T : SumFunctionOnSet(e, s \cap A) = SumFunctionOnSet(f, s)}
<1>1. {} \in G
  <2>1. {} \cap A = {}
    OBVIOUS
  <2> QED
    BY <2>1, SumOfNothing
<1>2. ASSUME NEW s \in SUBSET T, s # {}, \A x \in s : s \ {x} \in G PROVE s \in G
  <2> DEFINE l == Least(s)
             r == s \ {l}
  <2>1. l \in s /\ IsFiniteSet(s) /\ IsFiniteSet(s \cap A)
    BY <1>2, FS_Subset DEF Least
  <2>2. SumFunctionOnSet(f, s) = f[l] + SumFunctionOnSet(f, r)
    BY <1>2, <2>1, SumTakesLeast
  <2>3. SumFunctionOnSet(e, r \cap A) = SumFunctionOnSet(f, r)
    BY <1>2, <2>1
  <2>4. SumFunctionOnSet(e, r \cap A) \in Int
    <3>1. IsFiniteSet(r \cap A) /\ \A x \in r \cap A : e[x] \in Int
      BY FS_Subset
    <3> QED
      BY <3>1, SumIsNumber
  <2>5. CASE l \in A
    <3>1. l \in s \cap A /\ (s \cap A) \ {l} = r \cap A /\ e[l] = f[l] /\ f[l] \in Int
      BY <2>1, <2>5
    <3>2. \A x \in s \cap A : e[x] \in Int
      OBVIOUS
    <3>3. SumFunctionOnSet(e, s \cap A) = e[l] + SumFunctionOnSet(e, (s \cap A) \ {l})
      BY <2>1, <3>1, <3>2, SumTakes
    <3>4. SumFunctionOnSet(e, s \cap A) = SumFunctionOnSet(f, s)
      <4> HIDE DEF l, r
      <4> QED
        BY <2>2, <2>3, <2>4, <3>1, <3>3
    <3> QED
      BY <3>4
  <2>6. CASE l \notin A
    <3>1. s \cap A = r \cap A /\ f[l] = 0
      BY <2>1, <2>6
    <3>2. SumFunctionOnSet(e, s \cap A) = SumFunctionOnSet(e, r \cap A)
      BY <3>1, Zenon
    <3>3. SumFunctionOnSet(e, r \cap A) = SumFunctionOnSet(f, s)
      <4> HIDE DEF l, r
      <4> QED
        BY <2>2, <2>3, <2>4, <3>1
    <3> QED
      BY <3>2, <3>3
  <2> QED
    BY <2>5, <2>6
<1>3. SUBSET T \subseteq G
  <2> HIDE DEF G
  <2> QED
    BY <1>1, <1>2, GrowUp
<1>4. T \in G /\ T \cap A = A
  BY <1>3
<1> QED
  BY <1>4

\* Over an interval, the last one added to the sum of those before it.
LEMMA SumUpTo ==
    ASSUME NEW f, NEW k \in Nat, \A i \in 0..k + 1 : f[i] \in Int
    PROVE  SumFunctionOnSet(f, 0..k + 1) = f[k + 1] + SumFunctionOnSet(f, 0..k)
<1> DEFINE T == 0..k + 1
           y == k + 1
<1>1. IsFiniteSet(T) /\ y \in T /\ T \ {y} = 0..k
  <2>1. k + 1 \in Int /\ 0 \in Int /\ k + 1 \in 0..k + 1 /\ (0..k + 1) \ {k + 1} = 0..k
    OBVIOUS
  <2> QED
    BY <2>1, FS_Interval
<1>2. \A i \in T : f[i] \in Int
  OBVIOUS
<1> HIDE DEF T, y
<1>3. SumFunctionOnSet(f, T) = f[y] + SumFunctionOnSet(f, T \ {y})
  BY <1>1, <1>2, SumTakes
<1> QED
  BY <1>1, <1>3 DEF T, y

\* As one window begins, another one ends: numbers one further along.
LEMMA SumShifts ==
    ASSUME NEW f, NEW e, NEW n \in Nat, \A i \in 0..n : f[i] \in Nat,
           e[0] = 0, \A i \in 1..n : e[i] = f[i - 1]
    PROVE  SumFunctionOnSet(e, 0..n) = SumFunctionOnSet(f, 0..n) - f[n]
<1> DEFINE S(k) == SumFunctionOnSet(f, 0..k)
           G == {k \in Nat : k <= n => SumFunctionOnSet(e, 0..k) = S(k) - f[k]}
<1>1. 0 \in G
  <2>0. 0..0 = {0} /\ {0} \ {0} = {} /\ Least({0}) = 0
    BY DEF Least
  <2>1. IsFiniteSet({0}) /\ {0} # {} /\ 0..0 = {0} /\ {0} \ {0} = {} /\ Least({0}) = 0
    BY <2>0, FS_Singleton
  <2>2. SumFunctionOnSet(e, {0}) = e[0] + SumFunctionOnSet(e, {})
    BY <2>1, SumTakesLeast
  <2>3. SumFunctionOnSet(f, {0}) = f[0] + SumFunctionOnSet(f, {})
    BY <2>1, SumTakesLeast
  <2>4. f[0] \in Nat
    OBVIOUS
  <2> QED
    BY <2>1, <2>2, <2>3, <2>4, SumOfNothing
<1>2. ASSUME NEW k \in Nat, k \in G PROVE k + 1 \in G
  <2>1. SUFFICES ASSUME k + 1 <= n
                 PROVE  SumFunctionOnSet(e, 0..k + 1) = S(k + 1) - f[k + 1]
    OBVIOUS
  <2>3. \A i \in 0..k + 1 : f[i] \in Int /\ e[i] \in Int
    <3>1. ASSUME NEW i \in 0..k + 1 PROVE f[i] \in Int /\ e[i] \in Int
      <4>1. i = 0 \/ (i \in 1..n /\ i - 1 \in 0..n)
        BY <2>1
      <4> QED
        BY <2>1, <4>1
    <3> QED
      BY <3>1
  <2>4. SumFunctionOnSet(e, 0..k + 1) = e[k + 1] + SumFunctionOnSet(e, 0..k)
    BY <2>3, SumUpTo
  <2>5. SumFunctionOnSet(f, 0..k + 1) = f[k + 1] + SumFunctionOnSet(f, 0..k)
    BY <2>3, SumUpTo
  <2>6. e[k + 1] = f[k] /\ f[k] \in Int /\ f[k + 1] \in Int
    <3>1. k + 1 \in 1..n /\ (k + 1) - 1 = k /\ k \in 0..n /\ k + 1 \in 0..n
      BY <2>1
    <3> QED
      BY <3>1
  <2>7. SumFunctionOnSet(e, 0..k) = S(k) - f[k]
    BY <1>2, <2>1
  <2>8. S(k) \in Int
    <3>1. IsFiniteSet(0..k) /\ 0..k \subseteq 0..k + 1
      BY FS_Interval
    <3> QED
      BY <2>3, <3>1, SumIsNumber
  <2> QED
    BY <2>4, <2>5, <2>6, <2>7, <2>8
<1>3. Nat \subseteq G
  <2> HIDE DEF G
  <2> QED
    BY <1>1, <1>2, CountUp
<1> QED
  BY <1>3
=============================================================================
