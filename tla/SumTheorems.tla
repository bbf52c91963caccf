------------------------------ MODULE SumTheorems ------------------------------
(***************************************************************************)
(* What SumOver computes, for every finite set and every function to the   *)
(* integers.  The definition is recursive over subsets; facts about it are *)
(* proved by looking at a smallest set that would refute them.             *)
(***************************************************************************)
EXTENDS Sums, FiniteSetTheorems, TLAPS

Pick(S) == CHOOSE x \in S : TRUE
Rest(S) == S \ {Pick(S)}
\* The equation that the recursive function of the definition solves.
Solution(S, f, g) == [s \in SUBSET S |-> IF s = {} THEN 0 ELSE f[Pick(s)] + g[Rest(s)]]

\* Of the sets of a nonempty family of finite sets, one contains no other.
LEMMA Smallest ==
  ASSUME NEW S, IsFiniteSet(S), NEW F \in SUBSET SUBSET S, F # {}
  PROVE  \E T \in F : \A U \in F : U \subseteq T => U = T
<1>1. IsWellFoundedOn(StrictSubsetOrdering(S), SUBSET S)
  BY FS_StrictSubsetOrderingWellFounded, FS_FiniteSubsetsOfFinite
<1>2. PICK T \in F : \A U \in F : ~(<<U, T>> \in StrictSubsetOrdering(S))
  BY <1>1, WFMin
<1>3. QED
  BY <1>2 DEF StrictSubsetOrdering

\* The definition, when the recursive function exists.
LEMMA Unfold ==
  ASSUME NEW S, NEW f, NEW g, g = Solution(S, f, g)
  PROVE  \E h : h = Solution(S, f, h) /\ SumOver(S, f) = h[S]
  BY DEF SumOver, MapThenSumSet, MapThenFoldSet, Solution, Pick, Rest

\* What is picked of a set belongs to it.
LEMMA PickIn == ASSUME NEW S, S # {} PROVE Pick(S) \in S
  BY DEF Pick

Peeled(S, f) == IF S = {} THEN 0 ELSE f[Pick(S)] + SumOver(Rest(S), f)

\* One step of the recursion, in terms of the sum itself.
LEMMA SumStep ==
  ASSUME NEW S, IsFiniteSet(S), NEW f
  PROVE  SumOver(S, f) = Peeled(S, f)
<1> DEFINE Bad == {T \in SUBSET S : SumOver(T, f) # Peeled(T, f)}
<1>1. SUFFICES ASSUME Bad # {} PROVE FALSE
  OBVIOUS
<1>2. PICK T \in Bad : \A U \in Bad : U \subseteq T => U = T
  <2>1. Bad \in SUBSET SUBSET S
    OBVIOUS
  <2> HIDE DEF Bad
  <2>2. QED
    BY <1>1, <2>1, Smallest
<1>3. \A U \in SUBSET T : U # T => SumOver(U, f) = Peeled(U, f)
  BY <1>2
<1> DEFINE g == [s \in SUBSET T |-> IF s = T THEN Peeled(T, f) ELSE SumOver(s, f)]
<1>4. \A s \in SUBSET T : s # {} => Rest(s) \in SUBSET T /\ Rest(s) # T
  BY PickIn DEF Rest
<1>5. g = Solution(T, f, g)
  <2>1. ASSUME NEW s \in SUBSET T
        PROVE  g[s] = IF s = {} THEN 0 ELSE f[Pick(s)] + g[Rest(s)]
    <3>1. g[s] = Peeled(s, f)
      BY <1>3
    <3>2. s # {} => g[Rest(s)] = SumOver(Rest(s), f)
      BY <1>4
    <3> HIDE DEF g
    <3>3. QED
      BY <3>1, <3>2 DEF Peeled
  <2>2. g = [s \in SUBSET T |-> g[s]]
    OBVIOUS
  <2> HIDE DEF g
  <2>3. QED
    BY <2>1, <2>2 DEF Solution
<1>6. PICK h : h = Solution(T, f, h) /\ SumOver(T, f) = h[T]
  <2> HIDE DEF g
  <2>1. QED
    BY <1>5, Unfold
<1>7. \A s \in SUBSET T : h[s] = IF s = {} THEN 0 ELSE f[Pick(s)] + h[Rest(s)]
  BY <1>6 DEF Solution
<1>8. \A s \in SUBSET T : s # T => h[s] = SumOver(s, f)
  <2> DEFINE Off == {s \in SUBSET T : s # T /\ h[s] # SumOver(s, f)}
  <2>1. SUFFICES ASSUME Off # {} PROVE FALSE
    OBVIOUS
  <2>2. IsFiniteSet(T)
    BY <1>2, FS_Subset
  <2>3. PICK s \in Off : \A u \in Off : u \subseteq s => u = s
    <3>1. Off \in SUBSET SUBSET T
      OBVIOUS
    <3> HIDE DEF Off
    <3>2. QED
      BY <2>1, <2>2, <3>1, Smallest
  <2>4. s # {} => h[Rest(s)] = SumOver(Rest(s), f)
    <3>1. s # {} => Rest(s) \subseteq s /\ Rest(s) # s
      BY PickIn DEF Rest
    <3>2. QED
      BY <2>3, <3>1, <1>4
  <2>5. SumOver(s, f) = Peeled(s, f)
    BY <1>3, <2>3
  <2>6. h[s] = Peeled(s, f)
    BY <1>7, <2>3, <2>4 DEF Peeled
  <2>7. QED
    BY <2>3, <2>5, <2>6
<1>9. h[T] = Peeled(T, f)
  <2>1. T # {} => h[Rest(T)] = SumOver(Rest(T), f)
    BY <1>4, <1>8
  <2>2. QED
    BY <1>7, <2>1 DEF Peeled
<1>10. QED
  BY <1>2, <1>6, <1>9

-----------------------------------------------------------------------------
\* The sum over nothing is zero.
LEMMA SumEmpty == ASSUME NEW f PROVE SumOver({}, f) = 0
  BY SumStep, FS_EmptySet DEF Peeled

\* A sum of integers is an integer.
LEMMA SumInt ==
  ASSUME NEW S, IsFiniteSet(S), NEW f, \A x \in S : f[x] \in Int
  PROVE  SumOver(S, f) \in Int
<1> DEFINE Bad == {T \in SUBSET S : SumOver(T, f) \notin Int}
<1>1. SUFFICES ASSUME Bad # {} PROVE FALSE
  OBVIOUS
<1>2. PICK T \in Bad : \A U \in Bad : U \subseteq T => U = T
  <2>1. Bad \in SUBSET SUBSET S
    OBVIOUS
  <2> HIDE DEF Bad
  <2> QED BY <1>1, <2>1, Smallest
<1>3. SumOver(T, f) = Peeled(T, f)
  BY <1>2, FS_Subset, SumStep
<1>4. T # {} => Pick(T) \in T /\ SumOver(Rest(T), f) \in Int
  BY <1>2, PickIn DEF Rest
<1> QED BY <1>2, <1>3, <1>4 DEF Peeled

\* A sum of naturals is a natural.
LEMMA SumNat ==
  ASSUME NEW S, IsFiniteSet(S), NEW f, \A x \in S : f[x] \in Nat
  PROVE  SumOver(S, f) \in Nat
<1> DEFINE Bad == {T \in SUBSET S : SumOver(T, f) \notin Nat}
<1>1. SUFFICES ASSUME Bad # {} PROVE FALSE
  OBVIOUS
<1>2. PICK T \in Bad : \A U \in Bad : U \subseteq T => U = T
  <2>1. Bad \in SUBSET SUBSET S
    OBVIOUS
  <2> HIDE DEF Bad
  <2> QED BY <1>1, <2>1, Smallest
<1>3. SumOver(T, f) = Peeled(T, f)
  BY <1>2, FS_Subset, SumStep
<1>4. T # {} => Pick(T) \in T /\ SumOver(Rest(T), f) \in Nat
  BY <1>2, PickIn DEF Rest
<1> QED BY <1>2, <1>3, <1>4 DEF Peeled

\* The order in which the definition goes through the set does not matter.
LEMMA SumRemove ==
  ASSUME NEW S, IsFiniteSet(S), NEW f, \A y \in S : f[y] \in Int, NEW x \in S
  PROVE  SumOver(S, f) = f[x] + SumOver(S \ {x}, f)
<1> DEFINE Bad == {T \in SUBSET S : \E z \in T : SumOver(T, f) # f[z] + SumOver(T \ {z}, f)}
<1>1. SUFFICES ASSUME Bad # {} PROVE FALSE
  OBVIOUS
<1>2. PICK T \in Bad : \A U \in Bad : U \subseteq T => U = T
  <2>1. Bad \in SUBSET SUBSET S
    OBVIOUS
  <2> HIDE DEF Bad
  <2> QED BY <1>1, <2>1, Smallest
<1>3. PICK z \in T : SumOver(T, f) # f[z] + SumOver(T \ {z}, f)
  BY <1>2
<1> DEFINE c == Pick(T)
<1>4. c \in T
  BY <1>3, PickIn
<1>5. \A U \in SUBSET T : U # T => \A w \in U : SumOver(U, f) = f[w] + SumOver(U \ {w}, f)
  BY <1>2
<1>6. SumOver(T, f) = f[c] + SumOver(T \ {c}, f)
  BY <1>2, <1>3, FS_Subset, SumStep DEF Peeled, Rest
<1>7. z # c
  BY <1>3, <1>6
<1> HIDE DEF c
<1> DEFINE U == T \ {z, c}
<1>8. SumOver(T \ {c}, f) = f[z] + SumOver(U, f)
  <2>1. (T \ {c}) \ {z} = U
    OBVIOUS
  <2> QED BY <1>3, <1>4, <1>5, <1>7, <2>1
<1>9. SumOver(T \ {z}, f) = f[c] + SumOver(U, f)
  <2>1. (T \ {z}) \ {c} = U
    OBVIOUS
  <2> QED BY <1>3, <1>4, <1>5, <1>7, <2>1
<1>11. SumOver(U, f) \in Int /\ f[z] \in Int /\ f[c] \in Int
  <2>1. U \subseteq S /\ z \in S /\ c \in S
    BY <1>2, <1>3, <1>4
  <2> QED BY <2>1, FS_Subset, SumInt
<1> HIDE DEF U
<1> QED BY <1>3, <1>6, <1>8, <1>9, <1>11

\* One element more adds its value, whatever order the sum was taken in.
LEMMA SumAdd ==
  ASSUME NEW S, IsFiniteSet(S), NEW f, NEW x, x \notin S, \A y \in S \cup {x} : f[y] \in Int
  PROVE  SumOver(S \cup {x}, f) = f[x] + SumOver(S, f)
<1>1. IsFiniteSet(S \cup {x}) /\ (S \cup {x}) \ {x} = S
  BY FS_AddElement
<1> QED BY <1>1, SumRemove

\* Two functions that agree on the set have the same sum.
LEMMA SumSame ==
  ASSUME NEW S, IsFiniteSet(S), NEW f, NEW g, \A x \in S : f[x] = g[x]
  PROVE  SumOver(S, f) = SumOver(S, g)
<1> DEFINE Bad == {T \in SUBSET S : SumOver(T, f) # SumOver(T, g)}
<1>1. SUFFICES ASSUME Bad # {} PROVE FALSE
  OBVIOUS
<1>2. PICK T \in Bad : \A U \in Bad : U \subseteq T => U = T
  <2>1. Bad \in SUBSET SUBSET S
    OBVIOUS
  <2> HIDE DEF Bad
  <2> QED BY <1>1, <2>1, Smallest
<1>3. SumOver(T, f) = Peeled(T, f) /\ SumOver(T, g) = Peeled(T, g)
  BY <1>2, FS_Subset, SumStep
<1>4. T # {} => Pick(T) \in T /\ SumOver(Rest(T), f) = SumOver(Rest(T), g)
  BY <1>2, PickIn DEF Rest
<1> QED BY <1>2, <1>3, <1>4 DEF Peeled

\* Functions that agree everywhere else differ in their sums by what they differ at x.
LEMMA SumUpdate ==
  ASSUME NEW S, IsFiniteSet(S), NEW f, NEW g, NEW x \in S,
         \A y \in S : f[y] \in Int /\ g[y] \in Int, \A y \in S \ {x} : g[y] = f[y]
  PROVE  SumOver(S, g) = SumOver(S, f) - f[x] + g[x]
<1>1. IsFiniteSet(S \ {x})
  BY FS_Subset
<1>2. SumOver(S \ {x}, f) = SumOver(S \ {x}, g) /\ SumOver(S \ {x}, f) \in Int
  BY <1>1, SumSame, SumInt
<1>3. SumOver(S, f) = f[x] + SumOver(S \ {x}, f) /\ SumOver(S, g) = g[x] + SumOver(S \ {x}, g)
  BY SumRemove
<1> QED BY <1>2, <1>3

\* A sum of zeros is zero.
LEMMA SumZero ==
  ASSUME NEW S, IsFiniteSet(S), NEW f, \A x \in S : f[x] = 0
  PROVE  SumOver(S, f) = 0
<1> DEFINE Bad == {T \in SUBSET S : SumOver(T, f) # 0}
<1>1. SUFFICES ASSUME Bad # {} PROVE FALSE
  OBVIOUS
<1>2. PICK T \in Bad : \A U \in Bad : U \subseteq T => U = T
  <2>1. Bad \in SUBSET SUBSET S
    OBVIOUS
  <2> HIDE DEF Bad
  <2> QED BY <1>1, <2>1, Smallest
<1>3. SumOver(T, f) = Peeled(T, f)
  BY <1>2, FS_Subset, SumStep
<1>4. T # {} => Pick(T) \in T /\ SumOver(Rest(T), f) = 0
  BY <1>2, PickIn DEF Rest
<1> QED BY <1>2, <1>3, <1>4 DEF Peeled

\* Of two disjoint sets the sums add up.
LEMMA SumUnion ==
  ASSUME NEW S, NEW R, IsFiniteSet(S), IsFiniteSet(R), S \cap R = {}, NEW f,
         \A x \in S \cup R : f[x] \in Int
  PROVE  SumOver(S \cup R, f) = SumOver(S, f) + SumOver(R, f)
<1> DEFINE Bad == {T \in SUBSET S : SumOver(T \cup R, f) # SumOver(T, f) + SumOver(R, f)}
<1>1. SUFFICES ASSUME Bad # {} PROVE FALSE
  OBVIOUS
<1>2. PICK T \in Bad : \A U \in Bad : U \subseteq T => U = T
  <2>1. Bad \in SUBSET SUBSET S
    OBVIOUS
  <2> HIDE DEF Bad
  <2> QED BY <1>1, <2>1, Smallest
<1>3. SumOver(R, f) \in Int
  BY SumInt
<1>4. PICK x : x \in T
  <2> SUFFICES ASSUME T = {} PROVE FALSE
    OBVIOUS
  <2>1. T \cup R = R
    OBVIOUS
  <2>2. SumOver(T \cup R, f) = SumOver(R, f) /\ SumOver(T, f) = 0
    BY <2>1, SumEmpty
  <2> QED BY <1>2, <1>3, <2>2
<1> DEFINE U == T \ {x}
<1>5. SumOver(U \cup R, f) = SumOver(U, f) + SumOver(R, f)
  BY <1>2, <1>4
<1>6. SumOver(T, f) = f[x] + SumOver(U, f)
  BY <1>2, <1>4, FS_Subset, SumRemove
<1>7. SumOver(T \cup R, f) = f[x] + SumOver(U \cup R, f)
  <2>1. IsFiniteSet(T \cup R) /\ (T \cup R) \ {x} = U \cup R /\ x \in T \cup R
    BY <1>2, <1>4, FS_Subset, FS_Union
  <2>2. \A y \in T \cup R : f[y] \in Int
    BY <1>2
  <2> HIDE DEF U
  <2> QED BY <2>1, <2>2, SumRemove
<1>8. SumOver(U, f) \in Int /\ f[x] \in Int
  BY <1>2, <1>4, FS_Subset, SumInt
<1> HIDE DEF U
<1> QED BY <1>2, <1>3, <1>5, <1>6, <1>7, <1>8

\* A part of a sum of naturals is no more than the whole.
LEMMA SumPart ==
  ASSUME NEW S, IsFiniteSet(S), NEW R \in SUBSET S, NEW f, \A x \in S : f[x] \in Nat
  PROVE  SumOver(R, f) <= SumOver(S, f)
<1>1. IsFiniteSet(R) /\ IsFiniteSet(S \ R) /\ R \cap (S \ R) = {} /\ S = R \cup (S \ R)
  BY FS_Subset
<1>2. SumOver(S, f) = SumOver(R, f) + SumOver(S \ R, f)
  <2> DEFINE Q == S \ R
  <2>1. IsFiniteSet(Q) /\ R \cap Q = {} /\ S = R \cup Q /\ \A x \in R \cup Q : f[x] \in Int
    BY <1>1
  <2> HIDE DEF Q
  <2>2. SumOver(R \cup Q, f) = SumOver(R, f) + SumOver(Q, f)
    BY <1>1, <2>1, SumUnion
  <2> QED BY <2>1, <2>2 DEF Q
<1>3. SumOver(R, f) \in Nat /\ SumOver(S \ R, f) \in Nat
  BY <1>1, SumNat
<1> QED BY <1>2, <1>3

\* The sum of a sum.
LEMMA SumPlus ==
  ASSUME NEW S, IsFiniteSet(S), NEW f, NEW g, NEW h,
         \A x \in S : f[x] \in Int /\ g[x] \in Int /\ h[x] = f[x] + g[x]
  PROVE  SumOver(S, h) = SumOver(S, f) + SumOver(S, g)
<1> DEFINE Bad == {T \in SUBSET S : SumOver(T, h) # SumOver(T, f) + SumOver(T, g)}
<1>1. SUFFICES ASSUME Bad # {} PROVE FALSE
  OBVIOUS
<1>2. PICK T \in Bad : \A U \in Bad : U \subseteq T => U = T
  <2>1. Bad \in SUBSET SUBSET S
    OBVIOUS
  <2> HIDE DEF Bad
  <2> QED BY <1>1, <2>1, Smallest
<1>3. IsFiniteSet(T)
  BY <1>2, FS_Subset
<1>4. PICK x : x \in T
  <2>1. SumOver({}, f) = 0 /\ SumOver({}, g) = 0 /\ SumOver({}, h) = 0
    BY SumEmpty
  <2> QED BY <1>2, <2>1
<1> DEFINE U == T \ {x}
<1>5. SumOver(U, h) = SumOver(U, f) + SumOver(U, g)
  BY <1>2, <1>4
<1>6. \A y \in T : f[y] \in Int /\ g[y] \in Int /\ h[y] \in Int
  BY <1>2
<1>7. /\ SumOver(T, f) = f[x] + SumOver(U, f)
      /\ SumOver(T, g) = g[x] + SumOver(U, g)
      /\ SumOver(T, h) = h[x] + SumOver(U, h)
  BY <1>3, <1>4, <1>6, SumRemove
<1>8. SumOver(U, f) \in Int /\ SumOver(U, g) \in Int
  BY <1>3, <1>6, FS_Subset, SumInt
<1>9. f[x] \in Int /\ g[x] \in Int /\ h[x] = f[x] + g[x]
  BY <1>2, <1>4
<1> HIDE DEF U
<1> QED BY <1>2, <1>5, <1>7, <1>8, <1>9

\* A sum over part of a set is a sum over the set of what is zero elsewhere.
LEMMA SumWhere ==
  ASSUME NEW S, IsFiniteSet(S), NEW R \in SUBSET S, NEW f, NEW g,
         \A x \in R : f[x] \in Int /\ g[x] = f[x], \A x \in S \ R : g[x] = 0
  PROVE  SumOver(S, g) = SumOver(R, f)
<1> DEFINE Q == S \ R
<1>1. IsFiniteSet(R) /\ IsFiniteSet(Q) /\ R \cap Q = {} /\ S = R \cup Q
  BY FS_Subset
<1>2. \A x \in Q : g[x] = 0
  OBVIOUS
<1> HIDE DEF Q
<1>3. SumOver(R \cup Q, g) = SumOver(R, g) + SumOver(Q, g)
  BY <1>1, <1>2, SumUnion
<1>4. SumOver(Q, g) = 0
  BY <1>1, <1>2, SumZero
<1>5. SumOver(R, g) = SumOver(R, f) /\ SumOver(R, f) \in Int
  BY <1>1, SumSame, SumInt
<1> QED BY <1>1, <1>3, <1>4, <1>5
===============================================================================
