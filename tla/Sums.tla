---------------------------------- MODULE Sums ----------------------------------
(* What MapThenSumSet and FoldSet of the community modules return, used for   *)
(* sums and products. They are folds that take the elements in the order      *)
(* CHOOSE gives; the lemmas of this module show that the order does not       *)
(* matter, and what sums and products are made of. The lemmas at the end      *)
(* find the least and the largest of a set, and follow a recursion along a    *)
(* sequence: with them the other proofs argue where they cannot use           *)
(* induction.                                                                 *)
EXTENDS Integers, FiniteSetsExt, FiniteSetTheorems, WellFoundedInduction, TLAPS

\* The sum of f over S, and the table the fold fills to compute it.
SumOver(f, S) == MapThenSumSet(LAMBDA x : f[x], S)

First(T) == CHOOSE x \in T : TRUE
Folded(g, f, T) == IF T = {} THEN 0 ELSE f[First(T)] + g[T \ {First(T)}]
IsTable(g, f, S) == g = [T \in SUBSET S |-> Folded(g, f, T)]

\* CHOOSE takes an element of the set.
LEMMA FirstIn ==
  ASSUME NEW T, T # {}
  PROVE  First(T) \in T
BY DEF First

\* A set of subsets of a finite set that is not empty has a minimal member.
LEMMA MinimalSubset ==
  ASSUME NEW S, IsFiniteSet(S), NEW C \in SUBSET SUBSET S, C # {}
  PROVE  \E T \in C : \A U \in C : U \subseteq T => U = T
<1>1. IsWellFoundedOn(StrictSubsetOrdering(S), SUBSET S)
  BY FS_StrictSubsetOrderingWellFounded, FS_FiniteSubsetsOfFinite
<1>2. PICK T \in C : \A U \in C : ~ (<<U, T>> \in StrictSubsetOrdering(S))
  BY <1>1, WFMin, Zenon
<1>3. ASSUME NEW U \in C, U \subseteq T, U # T
      PROVE  FALSE
  <2>1. <<U, T>> \in (SUBSET S) \X (SUBSET S)
    BY <1>3
  <2>2. <<U, T>>[1] = U /\ <<U, T>>[2] = T
    OBVIOUS
  <2>3. <<U, T>> \in StrictSubsetOrdering(S)
    BY <1>3, <2>1, <2>2 DEF StrictSubsetOrdering
  <2>. QED  BY <1>2, <2>3
<1>. QED  BY <1>3

\* Two tables agree wherever both are defined.
LEMMA SameEntries ==
  ASSUME NEW f, NEW S, NEW g, NEW S2, NEW h, IsTable(g, f, S), IsTable(h, f, S2),
         NEW T, T \subseteq S, T \subseteq S2, IsFiniteSet(T)
  PROVE  g[T] = h[T]
<1>. DEFINE C == {U \in SUBSET T : g[U] # h[U]}
<1>1. SUFFICES ASSUME C # {} PROVE FALSE
  OBVIOUS
<1>2. PICK U \in C : \A V \in C : V \subseteq U => V = U
  <2>1. C \in SUBSET SUBSET T
    OBVIOUS
  <2>. HIDE DEF C
  <2>. QED  BY <1>1, <2>1, MinimalSubset
<1>3. U \in SUBSET S /\ U \in SUBSET S2 /\ U \in SUBSET T
  OBVIOUS
<1>4. g[U] = Folded(g, f, U) /\ h[U] = Folded(h, f, U)
  BY <1>3 DEF IsTable
<1>5. U # {}
  BY <1>4 DEF Folded
<1>6. First(U) \in U
  BY <1>5, FirstIn
<1>7. U \ {First(U)} \notin C
  BY <1>2, <1>6
<1>8. g[U \ {First(U)}] = h[U \ {First(U)}]
  BY <1>3, <1>7
<1>. QED  BY <1>4, <1>5, <1>8 DEF Folded

\* What the fold returns, of whatever table it has.
LEMMA SumOfTable ==
  ASSUME NEW f, NEW S, IsFiniteSet(S), NEW g, IsTable(g, f, S),
         NEW T \in SUBSET S
  PROVE  SumOver(f, T) = g[T]
<1>. DEFINE h == [U \in SUBSET T |-> g[U]]
            k == CHOOSE k : IsTable(k, f, T)
<1>1. IsTable(h, f, T)
  <2>1. ASSUME NEW U \in SUBSET T
        PROVE  h[U] = Folded(h, f, U)
    <3>1. g[U] = Folded(g, f, U)
      BY DEF IsTable
    <3>2. h[U] = g[U] /\ h[U \ {First(U)}] = g[U \ {First(U)}]
      OBVIOUS
    <3>. QED  BY <3>1, <3>2 DEF Folded
  <2>. QED  BY <2>1, Zenon DEF IsTable
<1>2. IsTable(k, f, T)
  BY <1>1
<1>3. SumOver(f, T) = k[T]
  BY DEF SumOver, MapThenSumSet, MapThenFoldSet, IsTable, Folded, First
<1>4. IsFiniteSet(T)
  BY FS_Subset
<1>. HIDE DEF k, h
<1>. QED  BY <1>2, <1>3, <1>4, SameEntries

\* A finite set has a table.
LEMMA TableExists ==
  ASSUME NEW f, NEW S, IsFiniteSet(S)
  PROVE  \E g : IsTable(g, f, S)
<1>. DEFINE C == {T \in SUBSET S : ~ \E g : IsTable(g, f, T)}
<1>1. SUFFICES ASSUME C # {} PROVE FALSE
  OBVIOUS
<1>2. PICK T \in C : \A U \in C : U \subseteq T => U = T
  <2>1. C \in SUBSET SUBSET S
    OBVIOUS
  <2>. HIDE DEF C
  <2>. QED  BY <1>1, <2>1, MinimalSubset
<1>3. ASSUME NEW U \in SUBSET T, U # T
      PROVE  \E g : IsTable(g, f, U)
  BY <1>2, <1>3
<1>. DEFINE h == [U \in SUBSET T |-> Folded([V \in SUBSET T |-> SumOver(f, V)], f, U)]
<1>4. ASSUME NEW U \in SUBSET T, U # T
      PROVE  h[U] = SumOver(f, U)
  <2>1. IsFiniteSet(U)
    BY FS_Subset
  <2>2. PICK g : IsTable(g, f, U)
    BY <1>3, <1>4
  <2>3. \A V \in SUBSET U : SumOver(f, V) = g[V]
    BY <2>1, <2>2, SumOfTable
  <2>4. g[U] = Folded(g, f, U)
    BY <2>2 DEF IsTable
  <2>5. h[U] = Folded([V \in SUBSET T |-> SumOver(f, V)], f, U)
    OBVIOUS
  <2>6. [V \in SUBSET T |-> SumOver(f, V)][U \ {First(U)}] = SumOver(f, U \ {First(U)})
    OBVIOUS
  <2>. QED  BY <2>3, <2>4, <2>5, <2>6 DEF Folded
<1>5. ASSUME NEW U \in SUBSET T
      PROVE  h[U] = Folded(h, f, U)
  <2>1. h[U] = Folded([V \in SUBSET T |-> SumOver(f, V)], f, U)
    OBVIOUS
  <2>2. CASE U = {}
    BY <2>1, <2>2 DEF Folded
  <2>3. CASE U # {}
    <3>1. First(U) \in U
      BY <2>3, FirstIn
    <3>2. U \ {First(U)} \in SUBSET T /\ U \ {First(U)} # T
      BY <3>1
    <3>3. h[U \ {First(U)}] = [V \in SUBSET T |-> SumOver(f, V)][U \ {First(U)}]
      BY <1>4, <3>2
    <3>. HIDE DEF h
    <3>. QED  BY <2>1, <3>3 DEF Folded
  <2>. QED  BY <2>2, <2>3
<1>6. h = [U \in SUBSET T |-> h[U]]
  OBVIOUS
<1>. HIDE DEF h
<1>7. IsTable(h, f, T)
  BY <1>5, <1>6, Zenon DEF IsTable
<1>. QED  BY <1>7

\* The fold takes its first element and goes on with the others.
LEMMA SumStep ==
  ASSUME NEW f, NEW S, IsFiniteSet(S)
  PROVE  SumOver(f, S) = IF S = {} THEN 0
                         ELSE f[First(S)] + SumOver(f, S \ {First(S)})
<1>1. PICK g : IsTable(g, f, S)
  BY TableExists
<1>2. g[S] = Folded(g, f, S)
  BY <1>1 DEF IsTable
<1>3. SumOver(f, S) = g[S] /\ SumOver(f, S \ {First(S)}) = g[S \ {First(S)}]
  BY <1>1, SumOfTable
<1>. QED  BY <1>2, <1>3 DEF Folded

\* A sum of integers is an integer.
LEMMA SumInt ==
  ASSUME NEW f, NEW S, IsFiniteSet(S), \A x \in S : f[x] \in Int
  PROVE  SumOver(f, S) \in Int
<1>. DEFINE C == {T \in SUBSET S : SumOver(f, T) \notin Int}
<1>1. SUFFICES ASSUME C # {} PROVE FALSE
  OBVIOUS
<1>2. PICK T \in C : \A U \in C : U \subseteq T => U = T
  <2>1. C \in SUBSET SUBSET S
    OBVIOUS
  <2>. HIDE DEF C
  <2>. QED  BY <1>1, <2>1, MinimalSubset
<1>3. IsFiniteSet(T)
  BY FS_Subset
<1>4. T # {}
  <2>1. SumOver(f, {}) = 0
    BY FS_EmptySet, SumStep
  <2>. QED  BY <2>1
<1>5. First(T) \in T
  BY <1>4, FirstIn
<1>6. SumOver(f, T \ {First(T)}) \in Int
  BY <1>2, <1>5
<1>. QED  BY <1>3, <1>4, <1>5, <1>6, SumStep

\* Any element may be taken first.
LEMMA SumTakesOut ==
  ASSUME NEW f, NEW S, IsFiniteSet(S), \A x \in S : f[x] \in Int, NEW x \in S
  PROVE  SumOver(f, S) = f[x] + SumOver(f, S \ {x})
<1>. DEFINE C == {T \in SUBSET S :
                    \E y \in T : SumOver(f, T) # f[y] + SumOver(f, T \ {y})}
<1>1. SUFFICES ASSUME C # {} PROVE FALSE
  BY Zenon
<1>2. PICK T \in C : \A U \in C : U \subseteq T => U = T
  <2>1. C \in SUBSET SUBSET S
    OBVIOUS
  <2>. HIDE DEF C
  <2>. QED  BY <1>1, <2>1, MinimalSubset
<1>3. PICK y \in T : SumOver(f, T) # f[y] + SumOver(f, T \ {y})
  OBVIOUS
<1>. DEFINE p == First(T)
<1>4. p \in T
  BY FirstIn
<1>5. IsFiniteSet(T)
  BY FS_Subset
<1>6. SumOver(f, T) = f[p] + SumOver(f, T \ {p})
  BY <1>4, <1>5, SumStep
<1>. HIDE DEF p
<1>7. y # p
  BY <1>3, <1>6
<1>8. T \ {p} \notin C /\ T \ {y} \notin C
  BY <1>2, <1>3, <1>4
<1>9. SumOver(f, T \ {p}) = f[y] + SumOver(f, (T \ {p}) \ {y})
  BY <1>7, <1>8
<1>10. SumOver(f, T \ {y}) = f[p] + SumOver(f, (T \ {y}) \ {p})
  BY <1>4, <1>7, <1>8
<1>11. (T \ {p}) \ {y} = (T \ {y}) \ {p}
  OBVIOUS
<1>12. SumOver(f, (T \ {p}) \ {y}) \in Int
  BY <1>5, FS_Subset, SumInt
<1>13. f[p] \in Int /\ f[y] \in Int
  BY <1>4
<1>14. \A a, b, c \in Int : a + (b + c) = b + (a + c)
  OBVIOUS
<1>15. SumOver(f, T) = f[p] + (f[y] + SumOver(f, (T \ {p}) \ {y}))
  BY <1>6, <1>9, Zenon
<1>16. f[y] + SumOver(f, T \ {y}) = f[y] + (f[p] + SumOver(f, (T \ {p}) \ {y}))
  BY <1>10, <1>11, Zenon
<1>. QED  BY <1>3, <1>12, <1>13, <1>14, <1>15, <1>16, Zenon

\* The sum depends on what f gives to the elements only.
LEMMA SumsAgree ==
  ASSUME NEW f, NEW g, NEW S, IsFiniteSet(S), \A x \in S : f[x] = g[x]
  PROVE  SumOver(f, S) = SumOver(g, S)
<1>. DEFINE C == {T \in SUBSET S : SumOver(f, T) # SumOver(g, T)}
<1>1. SUFFICES ASSUME C # {} PROVE FALSE
  OBVIOUS
<1>2. PICK T \in C : \A U \in C : U \subseteq T => U = T
  <2>1. C \in SUBSET SUBSET S
    OBVIOUS
  <2>. HIDE DEF C
  <2>. QED  BY <1>1, <2>1, MinimalSubset
<1>3. IsFiniteSet(T)
  BY FS_Subset
<1>4. T # {}
  BY <1>3, SumStep
<1>5. First(T) \in T
  BY <1>4, FirstIn
<1>6. SumOver(f, T \ {First(T)}) = SumOver(g, T \ {First(T)})
  BY <1>2, <1>5
<1>. QED  BY <1>3, <1>4, <1>5, <1>6, SumStep

\* What is not negative does not add up to less than any part of it.
LEMMA SumNat ==
  ASSUME NEW f, NEW S, IsFiniteSet(S), \A x \in S : f[x] \in Nat
  PROVE  SumOver(f, S) \in Nat
<1>. DEFINE C == {T \in SUBSET S : SumOver(f, T) \notin Nat}
<1>1. SUFFICES ASSUME C # {} PROVE FALSE
  OBVIOUS
<1>2. PICK T \in C : \A U \in C : U \subseteq T => U = T
  <2>1. C \in SUBSET SUBSET S
    OBVIOUS
  <2>. HIDE DEF C
  <2>. QED  BY <1>1, <2>1, MinimalSubset
<1>3. IsFiniteSet(T)
  BY FS_Subset
<1>4. T # {}
  <2>1. SumOver(f, {}) = 0
    BY FS_EmptySet, SumStep
  <2>. QED  BY <2>1
<1>5. First(T) \in T
  BY <1>4, FirstIn
<1>6. SumOver(f, T \ {First(T)}) \in Nat
  BY <1>2, <1>5
<1>. QED  BY <1>3, <1>4, <1>5, <1>6, SumStep

\* A sum of positive numbers is positive.
LEMMA SumPositive ==
  ASSUME NEW f, NEW S, IsFiniteSet(S), \A x \in S : f[x] \in Nat \ {0}, S # {}
  PROVE  SumOver(f, S) > 0
<1>1. First(S) \in S
  BY FirstIn
<1>2. SumOver(f, S) = f[First(S)] + SumOver(f, S \ {First(S)})
  BY SumStep
<1>3. SumOver(f, S \ {First(S)}) \in Nat
  BY FS_Subset, SumNat
<1>. QED  BY <1>1, <1>2, <1>3

\* A sum of negative numbers is negative.
LEMMA SumNegative ==
  ASSUME NEW f, NEW S, IsFiniteSet(S), S # {},
         \A x \in S : f[x] \in Int, \A x \in S : f[x] < 0
  PROVE  SumOver(f, S) < 0
<1>. DEFINE C == {T \in SUBSET S : T # {} /\ ~ SumOver(f, T) < 0}
<1>1. SUFFICES ASSUME C # {} PROVE FALSE
  OBVIOUS
<1>2. PICK T \in C : \A U \in C : U \subseteq T => U = T
  <2>1. C \in SUBSET SUBSET S
    OBVIOUS
  <2>. HIDE DEF C
  <2>. QED  BY <1>1, <2>1, MinimalSubset
<1>3. First(T) \in T
  BY FirstIn
<1>4. SumOver(f, T) = f[First(T)] + SumOver(f, T \ {First(T)})
  BY FS_Subset, SumStep
<1>5. SumOver(f, T \ {First(T)}) \in Int
  BY FS_Subset, SumInt
<1>6. SumOver(f, T \ {First(T)}) =< 0
  <2>1. CASE T \ {First(T)} = {}
    <3>1. SumOver(f, {}) = 0
      BY FS_EmptySet, SumStep, Zenon
    <3>. QED  BY <2>1, <3>1
  <2>2. CASE T \ {First(T)} # {}
    <3>. DEFINE U == T \ {First(T)}
    <3>1. U \in SUBSET S /\ U \subseteq T /\ U # T
      BY <1>2, <1>3
    <3>2. U \notin C
      <4>. HIDE DEF C, U
      <4>. QED  BY <1>2, <3>1
    <3>3. SumOver(f, U) < 0
      BY <2>2, <3>1, <3>2
    <3>. QED  BY <1>5, <3>3
  <2>. QED  BY <2>1, <2>2
<1>. QED  BY <1>3, <1>4, <1>5, <1>6

\* Sums are added element by element.
LEMMA SumAdds ==
  ASSUME NEW f, NEW g, NEW S, IsFiniteSet(S),
         \A x \in S : f[x] \in Int /\ g[x] \in Int,
         NEW h, \A x \in S : h[x] = f[x] + g[x]
  PROVE  SumOver(h, S) = SumOver(f, S) + SumOver(g, S)
<1>. DEFINE C == {T \in SUBSET S : SumOver(h, T) # SumOver(f, T) + SumOver(g, T)}
<1>1. SUFFICES ASSUME C # {} PROVE FALSE
  OBVIOUS
<1>2. PICK T \in C : \A U \in C : U \subseteq T => U = T
  <2>1. C \in SUBSET SUBSET S
    OBVIOUS
  <2>. HIDE DEF C
  <2>. QED  BY <1>1, <2>1, MinimalSubset
<1>3. IsFiniteSet(T)
  BY FS_Subset
<1>4. T # {}
  <2>1. SumOver(f, {}) = 0 /\ SumOver(g, {}) = 0 /\ SumOver(h, {}) = 0
    BY FS_EmptySet, SumStep
  <2>. QED  BY <2>1
<1>. DEFINE p == First(T)
            r == T \ {p}
<1>5. p \in T
  BY <1>4, FirstIn
<1>6. SumOver(h, r) = SumOver(f, r) + SumOver(g, r)
  BY <1>2, <1>5
<1>7. /\ SumOver(f, T) = f[p] + SumOver(f, r)
      /\ SumOver(g, T) = g[p] + SumOver(g, r)
      /\ SumOver(h, T) = h[p] + SumOver(h, r)
  BY <1>3, <1>4, SumStep
<1>8. SumOver(f, r) \in Int /\ SumOver(g, r) \in Int
  <2>1. IsFiniteSet(r) /\ \A x \in r : f[x] \in Int /\ g[x] \in Int
    BY <1>3, FS_Subset
  <2>. HIDE DEF r
  <2>. QED  BY <2>1, SumInt
<1>9. f[p] \in Int /\ g[p] \in Int /\ h[p] = f[p] + g[p]
  BY <1>5
<1>10. SumOver(h, T) = SumOver(f, T) + SumOver(g, T)
  <2>. HIDE DEF p, r, C
  <2>. QED  BY <1>6, <1>7, <1>8, <1>9
<1>. QED  BY <1>10

\* A common factor of the summands is one of the sum.
LEMMA SumScales ==
  ASSUME NEW f, NEW S, IsFiniteSet(S), NEW a \in Int,
         \A x \in S : f[x] \in Int,
         NEW h, \A x \in S : h[x] = a * f[x]
  PROVE  SumOver(h, S) = a * SumOver(f, S)
<1>. DEFINE C == {T \in SUBSET S : SumOver(h, T) # a * SumOver(f, T)}
<1>1. SUFFICES ASSUME C # {} PROVE FALSE
  OBVIOUS
<1>2. PICK T \in C : \A U \in C : U \subseteq T => U = T
  <2>1. C \in SUBSET SUBSET S
    OBVIOUS
  <2>. HIDE DEF C
  <2>. QED  BY <1>1, <2>1, MinimalSubset
<1>3. IsFiniteSet(T)
  BY FS_Subset
<1>4. T # {}
  <2>1. SumOver(f, {}) = 0 /\ SumOver(h, {}) = 0
    BY FS_EmptySet, SumStep
  <2>2. a * 0 = 0
    OBVIOUS
  <2>. QED  BY <2>1, <2>2
<1>. DEFINE p == First(T)
            r == T \ {p}
<1>5. p \in T
  BY <1>4, FirstIn
<1>6. SumOver(h, r) = a * SumOver(f, r)
  BY <1>2, <1>5
<1>7. /\ SumOver(f, T) = f[p] + SumOver(f, r)
      /\ SumOver(h, T) = h[p] + SumOver(h, r)
  BY <1>3, <1>4, SumStep
<1>8. SumOver(f, r) \in Int
  <2>1. IsFiniteSet(r) /\ \A x \in r : f[x] \in Int
    BY <1>3, FS_Subset
  <2>. HIDE DEF r
  <2>. QED  BY <2>1, SumInt
<1>9. f[p] \in Int /\ h[p] = a * f[p]
  BY <1>5
<1>10. SumOver(h, T) = a * SumOver(f, T)
  <2>. HIDE DEF p, r, C
  <2>1. SumOver(h, T) = a * f[p] + a * SumOver(f, r)
    BY <1>6, <1>7, <1>9
  <2>2. \A u, v \in Int : a * u + a * v = a * (u + v)
    OBVIOUS
  <2>. QED  BY <1>7, <1>8, <1>9, <2>1, <2>2
<1>. QED  BY <1>10

\* A sum of zeros is zero.
LEMMA SumZero ==
  ASSUME NEW f, NEW S, IsFiniteSet(S), \A x \in S : f[x] = 0
  PROVE  SumOver(f, S) = 0
<1>1. SumOver(f, S) = 0 * SumOver(f, S)
  BY SumScales
<1>2. SumOver(f, S) \in Int
  BY SumInt
<1>. QED  BY <1>1, <1>2

\* The sums of the rows of a table f.
SumOfEach(f, S, T) == [x \in S |-> SumOver(f[x], T)]

\* The order of two sums does not matter.
LEMMA SumsSwap ==
  ASSUME NEW f, NEW g, NEW S, IsFiniteSet(S), NEW T, IsFiniteSet(T),
         \A x \in S : \A y \in T : f[x][y] \in Int /\ g[y][x] = f[x][y]
  PROVE  SumOver(SumOfEach(f, S, T), S) = SumOver(SumOfEach(g, T, S), T)
<1>. DEFINE a == SumOfEach(f, S, T)
            b == SumOfEach(g, T, S)
<1>0. /\ \A x \in S : a[x] = SumOver(f[x], T)
      /\ \A y \in T : b[y] = SumOver(g[y], S)
  BY DEF SumOfEach
<1>. HIDE DEF a, b
<1>. DEFINE cols(U) == [y \in T |-> SumOver(g[y], U)]
            C == {U \in SUBSET S : SumOver(a, U) # SumOver(cols(U), T)}
<1>1. SUFFICES ASSUME C # {} PROVE FALSE
  <2>1. ASSUME C = {} PROVE SumOver(a, S) = SumOver(b, T)
    <3>1. SumOver(a, S) = SumOver(cols(S), T)
      BY <2>1
    <3>2. \A y \in T : cols(S)[y] = b[y]
      BY <1>0
    <3>. HIDE DEF cols
    <3>3. SumOver(cols(S), T) = SumOver(b, T)
      BY <3>2, SumsAgree
    <3>. QED  BY <3>1, <3>3
  <2>. QED  BY <2>1 DEF a, b
<1>2. PICK U \in C : \A V \in C : V \subseteq U => V = U
  <2>1. C \in SUBSET SUBSET S
    OBVIOUS
  <2>. HIDE DEF C
  <2>. QED  BY <1>1, <2>1, MinimalSubset
<1>3. IsFiniteSet(U) /\ U \in SUBSET S
  BY FS_Subset
<1>4. \A V \in SUBSET U : \A y \in T : cols(V)[y] = SumOver(g[y], V) /\ cols(V)[y] \in Int
  <2>. SUFFICES ASSUME NEW V \in SUBSET U, NEW y \in T
                PROVE  cols(V)[y] = SumOver(g[y], V) /\ cols(V)[y] \in Int
    OBVIOUS
  <2>1. IsFiniteSet(V) /\ \A x \in V : g[y][x] \in Int
    BY <1>3, FS_Subset
  <2>. QED  BY <2>1, SumInt
<1>5. SumOver(a, U) # SumOver(cols(U), T)
  OBVIOUS
<1>6. \A V \in SUBSET U : V # U => SumOver(a, V) = SumOver(cols(V), T)
  <2>. HIDE DEF cols
  <2>. QED  BY <1>2, <1>3
<1>. HIDE DEF C, cols
<1>7. U # {}
  <2>1. SUFFICES ASSUME U = {} PROVE FALSE
    OBVIOUS
  <2>2. SumOver(a, {}) = 0 /\ \A y \in T : SumOver(g[y], {}) = 0
    BY FS_EmptySet, SumStep
  <2>3. \A y \in T : cols({})[y] = 0
    BY <1>4, <2>1, <2>2
  <2>4. SumOver(cols({}), T) = 0
    BY <2>3, SumZero
  <2>. QED  BY <1>5, <2>1, <2>2, <2>4
<1>. DEFINE p == First(U)
            V == U \ {p}
<1>8. p \in U /\ p \in S /\ V \in SUBSET U /\ V # U
  BY <1>3, <1>7, FirstIn
<1>9. SumOver(a, U) = a[p] + SumOver(a, V)
  BY <1>3, <1>7, SumStep
<1>10. SumOver(cols(U), T) = a[p] + SumOver(cols(V), T)
  <2>1. ASSUME NEW y \in T
        PROVE  f[p][y] \in Int /\ cols(V)[y] \in Int /\ cols(U)[y] = f[p][y] + cols(V)[y]
    <3>1. SumOver(g[y], U) = g[y][p] + SumOver(g[y], V)
      BY <1>3, <1>7, SumStep
    <3>. HIDE DEF p, V
    <3>2. cols(V)[y] = SumOver(g[y], V) /\ cols(V)[y] \in Int /\ cols(U)[y] = SumOver(g[y], U)
      BY <1>4, <1>8
    <3>3. g[y][p] = f[p][y] /\ f[p][y] \in Int
      BY <1>8
    <3>. QED  BY <3>1, <3>2, <3>3
  <2>2. a[p] = SumOver(f[p], T)
    BY <1>0, <1>8
  <2>. HIDE DEF p, V
  <2>3. SumOver(cols(U), T) = SumOver(f[p], T) + SumOver(cols(V), T)
    BY <2>1, SumAdds
  <2>. QED  BY <2>2, <2>3
<1>11. SumOver(a, V) = SumOver(cols(V), T)
  <2>. HIDE DEF p, V
  <2>. QED  BY <1>6, <1>8
<1>. QED  BY <1>5, <1>9, <1>10, <1>11

-------------------------------------------------------------------------------
(* Products.                                                                  *)

\* The product of f over S, and the table the fold fills to compute it.
ProductOver(f, S) == FoldSet(LAMBDA x, product : f[x] * product, 1, S)

Multiplied(g, f, T) == IF T = {} THEN 1 ELSE f[First(T)] * g[T \ {First(T)}]
IsProduct(g, f, S) == g = [T \in SUBSET S |-> Multiplied(g, f, T)]

\* Two tables agree wherever both are defined.
LEMMA SameFactors ==
  ASSUME NEW f, NEW S, NEW g, NEW S2, NEW h, IsProduct(g, f, S), IsProduct(h, f, S2),
         NEW T, T \subseteq S, T \subseteq S2, IsFiniteSet(T)
  PROVE  g[T] = h[T]
<1>. DEFINE C == {U \in SUBSET T : g[U] # h[U]}
<1>1. SUFFICES ASSUME C # {} PROVE FALSE
  OBVIOUS
<1>2. PICK U \in C : \A V \in C : V \subseteq U => V = U
  <2>1. C \in SUBSET SUBSET T
    OBVIOUS
  <2>. HIDE DEF C
  <2>. QED  BY <1>1, <2>1, MinimalSubset
<1>3. U \in SUBSET S /\ U \in SUBSET S2 /\ U \in SUBSET T
  OBVIOUS
<1>4. g[U] = Multiplied(g, f, U) /\ h[U] = Multiplied(h, f, U)
  BY <1>3 DEF IsProduct
<1>5. U # {}
  BY <1>4 DEF Multiplied
<1>6. First(U) \in U
  BY <1>5, FirstIn
<1>7. U \ {First(U)} \notin C
  BY <1>2, <1>6
<1>8. g[U \ {First(U)}] = h[U \ {First(U)}]
  BY <1>3, <1>7
<1>. QED  BY <1>4, <1>5, <1>8 DEF Multiplied

\* What the fold returns, of whatever table it has.
LEMMA ProductOfTable ==
  ASSUME NEW f, NEW S, IsFiniteSet(S), NEW g, IsProduct(g, f, S),
         NEW T \in SUBSET S
  PROVE  ProductOver(f, T) = g[T]
<1>. DEFINE h == [U \in SUBSET T |-> g[U]]
            k == CHOOSE k : IsProduct(k, f, T)
<1>1. IsProduct(h, f, T)
  <2>1. ASSUME NEW U \in SUBSET T
        PROVE  h[U] = Multiplied(h, f, U)
    <3>1. g[U] = Multiplied(g, f, U)
      BY DEF IsProduct
    <3>2. h[U] = g[U] /\ h[U \ {First(U)}] = g[U \ {First(U)}]
      OBVIOUS
    <3>. QED  BY <3>1, <3>2 DEF Multiplied
  <2>. QED  BY <2>1, Zenon DEF IsProduct
<1>2. IsProduct(k, f, T)
  BY <1>1
<1>3. ProductOver(f, T) = k[T]
  BY DEF ProductOver, FoldSet, MapThenFoldSet, IsProduct, Multiplied, First
<1>4. IsFiniteSet(T)
  BY FS_Subset
<1>. HIDE DEF k, h
<1>. QED  BY <1>2, <1>3, <1>4, SameFactors

\* A finite set has a table.
LEMMA FactorsExist ==
  ASSUME NEW f, NEW S, IsFiniteSet(S)
  PROVE  \E g : IsProduct(g, f, S)
<1>. DEFINE C == {T \in SUBSET S : ~ \E g : IsProduct(g, f, T)}
<1>1. SUFFICES ASSUME C # {} PROVE FALSE
  OBVIOUS
<1>2. PICK T \in C : \A U \in C : U \subseteq T => U = T
  <2>1. C \in SUBSET SUBSET S
    OBVIOUS
  <2>. HIDE DEF C
  <2>. QED  BY <1>1, <2>1, MinimalSubset
<1>3. ASSUME NEW U \in SUBSET T, U # T
      PROVE  \E g : IsProduct(g, f, U)
  BY <1>2, <1>3
<1>. DEFINE h == [U \in SUBSET T |-> Multiplied([V \in SUBSET T |-> ProductOver(f, V)], f, U)]
<1>4. ASSUME NEW U \in SUBSET T, U # T
      PROVE  h[U] = ProductOver(f, U)
  <2>1. IsFiniteSet(U)
    BY FS_Subset
  <2>2. PICK g : IsProduct(g, f, U)
    BY <1>3, <1>4
  <2>3. \A V \in SUBSET U : ProductOver(f, V) = g[V]
    BY <2>1, <2>2, ProductOfTable
  <2>4. g[U] = Multiplied(g, f, U)
    BY <2>2 DEF IsProduct
  <2>5. h[U] = Multiplied([V \in SUBSET T |-> ProductOver(f, V)], f, U)
    OBVIOUS
  <2>6. [V \in SUBSET T |-> ProductOver(f, V)][U \ {First(U)}] = ProductOver(f, U \ {First(U)})
    OBVIOUS
  <2>. QED  BY <2>3, <2>4, <2>5, <2>6 DEF Multiplied
<1>5. ASSUME NEW U \in SUBSET T
      PROVE  h[U] = Multiplied(h, f, U)
  <2>1. h[U] = Multiplied([V \in SUBSET T |-> ProductOver(f, V)], f, U)
    OBVIOUS
  <2>2. CASE U = {}
    BY <2>1, <2>2 DEF Multiplied
  <2>3. CASE U # {}
    <3>1. First(U) \in U
      BY <2>3, FirstIn
    <3>2. U \ {First(U)} \in SUBSET T /\ U \ {First(U)} # T
      BY <3>1
    <3>3. h[U \ {First(U)}] = [V \in SUBSET T |-> ProductOver(f, V)][U \ {First(U)}]
      BY <1>4, <3>2
    <3>. HIDE DEF h
    <3>. QED  BY <2>1, <3>3 DEF Multiplied
  <2>. QED  BY <2>2, <2>3
<1>6. h = [U \in SUBSET T |-> h[U]]
  OBVIOUS
<1>. HIDE DEF h
<1>7. IsProduct(h, f, T)
  BY <1>5, <1>6, Zenon DEF IsProduct
<1>. QED  BY <1>7

\* The fold takes its first element and goes on with the others.
LEMMA ProductStep ==
  ASSUME NEW f, NEW S, IsFiniteSet(S)
  PROVE  ProductOver(f, S) = IF S = {} THEN 1
                         ELSE f[First(S)] * ProductOver(f, S \ {First(S)})
<1>1. PICK g : IsProduct(g, f, S)
  BY FactorsExist
<1>2. g[S] = Multiplied(g, f, S)
  BY <1>1 DEF IsProduct
<1>3. ProductOver(f, S) = g[S] /\ ProductOver(f, S \ {First(S)}) = g[S \ {First(S)}]
  BY <1>1, ProductOfTable
<1>. QED  BY <1>2, <1>3 DEF Multiplied

\* A product of integers is an integer.
LEMMA ProductInt ==
  ASSUME NEW f, NEW S, IsFiniteSet(S), \A x \in S : f[x] \in Int
  PROVE  ProductOver(f, S) \in Int
<1>. DEFINE C == {T \in SUBSET S : ProductOver(f, T) \notin Int}
<1>1. SUFFICES ASSUME C # {} PROVE FALSE
  OBVIOUS
<1>2. PICK T \in C : \A U \in C : U \subseteq T => U = T
  <2>1. C \in SUBSET SUBSET S
    OBVIOUS
  <2>. HIDE DEF C
  <2>. QED  BY <1>1, <2>1, MinimalSubset
<1>3. IsFiniteSet(T)
  BY FS_Subset
<1>4. T # {}
  <2>1. ProductOver(f, {}) = 1
    BY FS_EmptySet, ProductStep
  <2>. QED  BY <2>1
<1>5. First(T) \in T
  BY <1>4, FirstIn
<1>6. ProductOver(f, T \ {First(T)}) \in Int
  BY <1>2, <1>5
<1>. QED  BY <1>3, <1>4, <1>5, <1>6, ProductStep

\* Any element may be taken first.
LEMMA ProductTakesOut ==
  ASSUME NEW f, NEW S, IsFiniteSet(S), \A x \in S : f[x] \in Int, NEW x \in S
  PROVE  ProductOver(f, S) = f[x] * ProductOver(f, S \ {x})
<1>. DEFINE C == {T \in SUBSET S :
                    \E y \in T : ProductOver(f, T) # f[y] * ProductOver(f, T \ {y})}
<1>1. SUFFICES ASSUME C # {} PROVE FALSE
  BY Zenon
<1>2. PICK T \in C : \A U \in C : U \subseteq T => U = T
  <2>1. C \in SUBSET SUBSET S
    OBVIOUS
  <2>. HIDE DEF C
  <2>. QED  BY <1>1, <2>1, MinimalSubset
<1>3. PICK y \in T : ProductOver(f, T) # f[y] * ProductOver(f, T \ {y})
  OBVIOUS
<1>. DEFINE p == First(T)
<1>4. p \in T
  BY FirstIn
<1>5. IsFiniteSet(T)
  BY FS_Subset
<1>6. ProductOver(f, T) = f[p] * ProductOver(f, T \ {p})
  BY <1>4, <1>5, ProductStep
<1>. HIDE DEF p
<1>7. y # p
  BY <1>3, <1>6
<1>8. T \ {p} \notin C /\ T \ {y} \notin C
  BY <1>2, <1>3, <1>4
<1>9. ProductOver(f, T \ {p}) = f[y] * ProductOver(f, (T \ {p}) \ {y})
  BY <1>7, <1>8
<1>10. ProductOver(f, T \ {y}) = f[p] * ProductOver(f, (T \ {y}) \ {p})
  BY <1>4, <1>7, <1>8
<1>11. (T \ {p}) \ {y} = (T \ {y}) \ {p}
  OBVIOUS
<1>12. ProductOver(f, (T \ {p}) \ {y}) \in Int
  BY <1>5, FS_Subset, ProductInt
<1>13. f[p] \in Int /\ f[y] \in Int
  BY <1>4
<1>14. \A a, b, c \in Int : a * (b * c) = b * (a * c)
  OBVIOUS
<1>15. ProductOver(f, T) = f[p] * (f[y] * ProductOver(f, (T \ {p}) \ {y}))
  BY <1>6, <1>9, Zenon
<1>16. f[y] * ProductOver(f, T \ {y}) = f[y] * (f[p] * ProductOver(f, (T \ {p}) \ {y}))
  BY <1>10, <1>11, Zenon
<1>. QED  BY <1>3, <1>12, <1>13, <1>14, <1>15, <1>16, Zenon

-------------------------------------------------------------------------------
(* The least and the largest of a set of numbers.                             *)

\* A set of naturals that is not empty has a least element.
LEMMA LeastExists ==
  ASSUME NEW C \in SUBSET Nat, C # {}
  PROVE  \E n \in C : \A m \in C : n =< m
<1>1. PICK n \in C : \A m \in C : ~ (<<m, n>> \in OpToRel(<, Nat))
  BY NatLessThanWellFounded, WFMin, Zenon
<1>2. ASSUME NEW m \in C PROVE n =< m
  <2>1. <<m, n>> \in Nat \X Nat
    OBVIOUS
  <2>2. ~ (m < n)
    BY <1>1, <2>1, Zenon DEF OpToRel
  <2>. QED  BY <2>2
<1>. QED  BY <1>2

\* A set of places that is not empty has a last one.
LEMMA LastExists ==
  ASSUME NEW n \in Nat, NEW T \in SUBSET (1 .. n), T # {}
  PROVE  Max(T) \in T /\ \A x \in T : x =< Max(T)
<1>. DEFINE D == {n - x : x \in T}
<1>1. D \in SUBSET Nat /\ D # {}
  <2>1. \A x \in T : n - x \in Nat
    OBVIOUS
  <2>2. D # {}
    OBVIOUS
  <2>. QED  BY <2>1, <2>2
<1>2. PICK d \in D : \A e \in D : d =< e
  <2>. HIDE DEF D
  <2>. QED  BY <1>1, LeastExists
<1>3. PICK x \in T : d = n - x
  OBVIOUS
<1>4. \A y \in T : x >= y
  <2>. SUFFICES ASSUME NEW y \in T PROVE x >= y
    OBVIOUS
  <2>1. d =< n - y
    BY <1>2
  <2>. QED  BY <1>3, <2>1
<1>. QED  BY <1>4 DEF Max

-------------------------------------------------------------------------------
(* Recursion along a sequence.                                                *)

\* What holds at the start and from each place to the next holds everywhere.
LEMMA Climb ==
  ASSUME NEW n \in Nat, NEW T, 0 \in T, \A i \in 1 .. n : i - 1 \in T => i \in T
  PROVE  0 .. n \subseteq T
<1>. DEFINE C == {i \in 0 .. n : i \notin T}
<1>1. SUFFICES ASSUME C # {} PROVE FALSE
  OBVIOUS
<1>2. PICK k \in C : \A m \in C : k =< m
  <2>1. C \in SUBSET Nat
    OBVIOUS
  <2>. HIDE DEF C
  <2>. QED  BY <1>1, <2>1, LeastExists
<1>3. k \in 1 .. n /\ k \notin T
  OBVIOUS
<1>4. k - 1 \in 0 .. n /\ ~ (k =< k - 1)
  BY <1>3
<1>5. k - 1 \in T
  BY <1>2, <1>4
<1>. QED  BY <1>3, <1>5

\* A table that starts with x and goes on by f.
Goes(g, x, f, n) == g = [i \in 0 .. n |-> IF i = 0 THEN x ELSE f[<<g[i - 1], i>>]]
LEMMA TableGoesOn ==
  ASSUME NEW n \in Nat, NEW S, NEW x \in S, NEW f \in [S \X (1 .. n) -> S]
  PROVE  \E g \in [0 .. n -> S] : Goes(g, x, f, n)
<1>. DEFINE T == {k \in 0 .. n : \E g \in [0 .. k -> S] : Goes(g, x, f, k)}
<1>1. 0 \in T
  <2>. DEFINE g == [i \in 0 .. 0 |-> x]
  <2>1. g \in [0 .. 0 -> S] /\ Goes(g, x, f, 0)
    BY DEF Goes
  <2>. QED  BY <2>1
<1>2. ASSUME NEW k \in 1 .. n, k - 1 \in T
      PROVE  k \in T
  <2>1. PICK g \in [0 .. (k - 1) -> S] : Goes(g, x, f, k - 1)
    BY <1>2
  <2>2. /\ k - 1 \in 0 .. (k - 1) /\ k \notin 0 .. (k - 1) /\ k # 0
        /\ 0 .. k = (0 .. (k - 1)) \cup {k}
        /\ \A i \in 0 .. (k - 1) : i # 0 => i - 1 \in 0 .. (k - 1)
    BY <1>2
  <2>. DEFINE h == [i \in 0 .. k |-> IF i = k THEN f[<<g[k - 1], k>>] ELSE g[i]]
  <2>3. g[k - 1] \in S /\ f[<<g[k - 1], k>>] \in S
    BY <1>2, <2>1, <2>2
  <2>4. \A i \in 0 .. (k - 1) : h[i] = g[i]
    BY <2>2
  <2>5. h[k] = f[<<h[k - 1], k>>]
    BY <2>2, <2>4
  <2>6. h \in [0 .. k -> S]
    BY <2>1, <2>2, <2>3
  <2>7. \A i \in 0 .. (k - 1) : g[i] = IF i = 0 THEN x ELSE f[<<g[i - 1], i>>]
    BY <2>1 DEF Goes
  <2>8. \A i \in 0 .. k : h[i] = IF i = 0 THEN x ELSE f[<<h[i - 1], i>>]
    <3>. HIDE DEF h
    <3>. QED  BY <2>2, <2>4, <2>5, <2>7
  <2>9. Goes(h, x, f, k)
    <3>1. h = [i \in 0 .. k |-> h[i]]
      OBVIOUS
    <3>. HIDE DEF h
    <3>. QED  BY <2>8, <3>1 DEF Goes
  <2>. QED  BY <2>6, <2>9
<1>3. 0 .. n \subseteq T
  <2>. HIDE DEF T
  <2>. QED  BY <1>1, <1>2, Climb
<1>. QED  BY <1>3

=================================================================================
