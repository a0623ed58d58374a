------------------------------ MODULE SumTheorems ------------------------------
(***************************************************************************)
(* Sums over finite sets: SumFunctionOnSet, the fold that the books of     *)
(* Entitlements, Billing and Partners are stated with.                     *)
(*                                                                         *)
(* A fold is a recursive function that CHOOSE picks, and it takes the      *)
(* elements in an order nobody knows. The lemmas say that the function     *)
(* exists, that its value does not depend on the order, and how a sum      *)
(* moves when an element comes, goes or changes. They rest on induction    *)
(* over the subsets of a finite set, which is taken in its set form: the   *)
(* sets for which a statement holds are given as a set, Good.              *)
(***************************************************************************)
EXTENDS Integers, Functions, FiniteSetTheorems, TLAPS

-----------------------------------------------------------------------------
(***************************************************************************)
(* Induction over the subsets of a finite set.                             *)
(***************************************************************************)

LEMMA SmallestSet ==
    ASSUME NEW S, IsFiniteSet(S), NEW Sets \in SUBSET SUBSET S, Sets # {}
    PROVE  \E T \in Sets : \A U \in Sets : U \subseteq T => U = T
<1>1. IsWellFoundedOn(StrictSubsetOrdering(S), SUBSET S)
  BY FS_StrictSubsetOrderingWellFounded, FS_FiniteSubsetsOfFinite
<1>2. PICK T \in Sets : \A U \in Sets : <<U, T>> \notin StrictSubsetOrdering(S)
  BY <1>1, WFMin
<1>. QED  BY <1>2 DEF StrictSubsetOrdering

\* A set is good when the goodness of all its smaller subsets makes it so.
LEMMA SubsetInduction ==
    ASSUME NEW S, IsFiniteSet(S), NEW Good,
           \A T \in SUBSET S : (\A U \in SUBSET T : U # T => U \in Good) => T \in Good
    PROVE  \A T \in SUBSET S : T \in Good
<1>. DEFINE Bad == (SUBSET S) \ Good
<1>1. SUFFICES ASSUME Bad # {} PROVE FALSE
  OBVIOUS
<1>2. PICK T \in Bad : \A U \in Bad : U \subseteq T => U = T
  <2>1. Bad \in SUBSET SUBSET S
    OBVIOUS
  <2>. HIDE DEF Bad
  <2>. QED  BY <1>1, <2>1, SmallestSet
<1>3. \A U \in SUBSET T : U # T => U \in Good
  BY <1>2
<1>. QED  BY <1>3

\* The element that a fold takes first, and what it leaves.
Some(S) == CHOOSE x \in S : TRUE
Rest(S) == S \ {Some(S)}

LEMMA SomeElement ==
    ASSUME NEW S, S # {}
    PROVE  /\ Some(S) \in S
           /\ Rest(S) \subseteq S
           /\ Rest(S) # S
  BY DEF Some, Rest

\* A set is good when it is empty or what the fold leaves of it is good.
LEMMA FoldInduction ==
    ASSUME NEW S, IsFiniteSet(S), NEW Good, {} \in Good,
           \A T \in SUBSET S : T # {} /\ Rest(T) \in Good => T \in Good
    PROVE  \A T \in SUBSET S : T \in Good
<1>1. ASSUME NEW T \in SUBSET S, \A U \in SUBSET T : U # T => U \in Good
      PROVE  T \in Good
  BY <1>1, SomeElement
<1>. QED  BY <1>1, SubsetInduction

-----------------------------------------------------------------------------
(***************************************************************************)
(* The recursive function of a sum.                                        *)
(***************************************************************************)

\* total holds the sum of f over every subset of S.
Sums(total, f, S) ==
    total = [T \in SUBSET S |-> IF T = {} THEN 0
                                ELSE f[Some(T)] + total[Rest(T)]]

LEMMA SumsBase ==
    ASSUME NEW f, NEW S, NEW total, Sums(total, f, S)
    PROVE  total[{}] = 0
  BY DEF Sums

LEMMA SumsUnfold ==
    ASSUME NEW f, NEW S, NEW total, Sums(total, f, S), NEW T \in SUBSET S, T # {}
    PROVE  total[T] = f[Some(T)] + total[Rest(T)]
  BY DEF Sums

\* Two of them agree wherever both are defined.
LEMMA SumsAgree ==
    ASSUME NEW f, NEW S, IsFiniteSet(S), NEW R, NEW one, NEW other,
           Sums(one, f, S), Sums(other, f, R)
    PROVE  \A T \in SUBSET (S \cap R) : one[T] = other[T]
<1>. DEFINE Good == {T \in SUBSET (S \cap R) : one[T] = other[T]}
<1>1. {} \in Good
  BY SumsBase
<1>2. ASSUME NEW T \in SUBSET (S \cap R), T # {}, Rest(T) \in Good
      PROVE  T \in Good
  <2>1. T \in SUBSET S /\ T \in SUBSET R
    OBVIOUS
  <2>2. one[T] = f[Some(T)] + one[Rest(T)] /\ other[T] = f[Some(T)] + other[Rest(T)]
    <3>. HIDE DEF Good
    <3>. QED  BY <1>2, <2>1, SumsUnfold
  <2>. QED  BY <1>2, <2>2
<1>3. IsFiniteSet(S \cap R)
  BY FS_Intersection
<1>4. \A T \in SUBSET (S \cap R) : T \in Good
  <2>. HIDE DEF Good
  <2>. QED  BY <1>1, <1>2, <1>3, FoldInduction
<1>. QED  BY <1>4

\* There is one.
LEMMA SumsExist ==
    ASSUME NEW f, NEW S, IsFiniteSet(S)
    PROVE  \E total : Sums(total, f, S)
<1>. DEFINE Good == {T \in SUBSET S : \E total : Sums(total, f, T)}
<1>1. ASSUME NEW T \in SUBSET S, \A U \in SUBSET T : U # T => U \in Good
      PROVE  T \in Good
  <2>1. \A U \in SUBSET T : IsFiniteSet(U)
    BY FS_Subset
  <2>. DEFINE below[U \in SUBSET T] == CHOOSE total : Sums(total, f, U)
              sum(U) == IF U = {} THEN 0 ELSE f[Some(U)] + below[Rest(U)][Rest(U)]
              total == [U \in SUBSET T |-> sum(U)]
  <2>2. \A U \in SUBSET T : U # T => Sums(below[U], f, U)
    BY <1>1
  <2>3. \A U \in SUBSET T : U # {} => Rest(U) \in SUBSET T /\ Rest(U) # T
    BY SomeElement
  <2>4. ASSUME NEW U \in SUBSET T, U # T, U # {}
        PROVE  below[U][U] = sum(U)
    <3>. DEFINE g == below[U]
                h == below[Rest(U)]
    <3>1. Sums(g, f, U) /\ Sums(h, f, Rest(U)) /\ IsFiniteSet(U)
      BY <2>1, <2>2, <2>3, <2>4
    <3>2. U \in SUBSET U /\ Rest(U) \in SUBSET (U \cap Rest(U))
      BY <2>4, SomeElement
    <3>. HIDE DEF below, g, h
    <3>3. g[U] = f[Some(U)] + g[Rest(U)]
      BY <2>4, <3>1, <3>2, SumsUnfold
    <3>4. g[Rest(U)] = h[Rest(U)]
      BY <3>1, <3>2, SumsAgree
    <3>. QED  BY <2>4, <3>3, <3>4 DEF g, h
  <2>5. T # {} => below[{}][{}] = 0
    BY <2>2, SumsBase
  <2>6. \A U \in SUBSET T : U # T => below[U][U] = sum(U)
    BY <2>4, <2>5
  <2>7. \A U \in SUBSET T : sum(U) = IF U = {} THEN 0 ELSE f[Some(U)] + total[Rest(U)]
    <3>1. \A U \in SUBSET T : U # {} => total[Rest(U)] = sum(Rest(U))
      BY <2>3
    <3>. HIDE DEF below, total
    <3>. QED  BY <2>3, <2>6, <3>1
  <2>8. total = [U \in SUBSET T |-> IF U = {} THEN 0 ELSE f[Some(U)] + total[Rest(U)]]
    <3>. HIDE DEF sum
    <3>. QED  BY <2>7
  <2>9. Sums(total, f, T)
    <3>. HIDE DEF total
    <3>. QED  BY <2>8 DEF Sums
  <2>. QED  BY <2>9
<1>2. \A T \in SUBSET S : T \in Good
  <2>. HIDE DEF Good
  <2>. QED  BY <1>1, SubsetInduction
<1>. QED  BY <1>2

LEMMA SumIsSums ==
    ASSUME NEW f, NEW S, IsFiniteSet(S), NEW total, Sums(total, f, S)
    PROVE  SumFunctionOnSet(f, S) = total[S]
<1>1. SumFunctionOnSet(f, S) = (CHOOSE g : Sums(g, f, S))[S]
  BY DEF SumFunctionOnSet, FoldFunctionOnSet, MapThenFoldSet, Sums, Some, Rest
<1>. DEFINE g == CHOOSE g : Sums(g, f, S)
<1>2. Sums(g, f, S) /\ S \in SUBSET (S \cap S)
  OBVIOUS
<1>. HIDE DEF g
<1>3. g[S] = total[S]
  BY <1>2, SumsAgree
<1>. QED  BY <1>1, <1>3 DEF g

-----------------------------------------------------------------------------
(***************************************************************************)
(* What a sum is.                                                          *)
(***************************************************************************)

LEMMA SumEmpty ==
    ASSUME NEW f
    PROVE  SumFunctionOnSet(f, {}) = 0
<1>1. IsFiniteSet({})
  BY FS_EmptySet
<1>2. PICK total : Sums(total, f, {})
  BY <1>1, SumsExist
<1>. QED  BY <1>1, <1>2, SumIsSums, SumsBase

LEMMA SumUnfold ==
    ASSUME NEW f, NEW S, IsFiniteSet(S), S # {}
    PROVE  SumFunctionOnSet(f, S) = f[Some(S)] + SumFunctionOnSet(f, Rest(S))
<1>1. IsFiniteSet(Rest(S)) /\ S \in SUBSET S /\ Rest(S) \in SUBSET (S \cap Rest(S))
  BY FS_Subset, SomeElement
<1>2. PICK total : Sums(total, f, S)
  BY SumsExist
<1>3. PICK below : Sums(below, f, Rest(S))
  BY <1>1, SumsExist
<1>4. total[Rest(S)] = below[Rest(S)]
  BY <1>1, <1>2, <1>3, SumsAgree
<1>5. total[S] = f[Some(S)] + total[Rest(S)]
  BY <1>1, <1>2, SumsUnfold
<1>6. SumFunctionOnSet(f, S) = total[S]
  BY <1>2, SumIsSums
<1>7. SumFunctionOnSet(f, Rest(S)) = below[Rest(S)]
  BY <1>1, <1>3, SumIsSums
<1>. QED  BY <1>4, <1>5, <1>6, <1>7

\* A sum of integers is one, and a sum of naturals is one.
LEMMA SumType ==
    ASSUME NEW Numbers \in {Int, Nat},
           NEW f, NEW S, IsFiniteSet(S), \A x \in S : f[x] \in Numbers
    PROVE  SumFunctionOnSet(f, S) \in Numbers
<1>. DEFINE Good == {T \in SUBSET S : SumFunctionOnSet(f, T) \in Numbers}
<1>1. {} \in Good
  BY SumEmpty
<1>2. ASSUME NEW T \in SUBSET S, T # {}, Rest(T) \in Good
      PROVE  T \in Good
  <2>1. IsFiniteSet(T) /\ Some(T) \in S
    BY <1>2, FS_Subset, SomeElement
  <2>2. SumFunctionOnSet(f, T) = f[Some(T)] + SumFunctionOnSet(f, Rest(T))
    BY <1>2, <2>1, SumUnfold
  <2>3. \A a, b \in Numbers : a + b \in Numbers
    OBVIOUS
  <2>. QED  BY <1>2, <2>1, <2>2, <2>3
<1>3. \A T \in SUBSET S : T \in Good
  <2>. HIDE DEF Good
  <2>. QED  BY <1>1, <1>2, FoldInduction
<1>. QED  BY <1>3

\* A sum over a set depends on the values there alone.
LEMMA SumSame ==
    ASSUME NEW f, NEW g, NEW S, IsFiniteSet(S), \A x \in S : f[x] = g[x]
    PROVE  SumFunctionOnSet(f, S) = SumFunctionOnSet(g, S)
<1>. DEFINE Good == {T \in SUBSET S : SumFunctionOnSet(f, T) = SumFunctionOnSet(g, T)}
<1>1. {} \in Good
  BY SumEmpty
<1>2. ASSUME NEW T \in SUBSET S, T # {}, Rest(T) \in Good
      PROVE  T \in Good
  <2>1. IsFiniteSet(T) /\ Some(T) \in S
    BY <1>2, FS_Subset, SomeElement
  <2>2. SumFunctionOnSet(f, T) = f[Some(T)] + SumFunctionOnSet(f, Rest(T))
    BY <1>2, <2>1, SumUnfold
  <2>3. SumFunctionOnSet(g, T) = g[Some(T)] + SumFunctionOnSet(g, Rest(T))
    BY <1>2, <2>1, SumUnfold
  <2>. QED  BY <1>2, <2>1, <2>2, <2>3
<1>3. \A T \in SUBSET S : T \in Good
  <2>. HIDE DEF Good
  <2>. QED  BY <1>1, <1>2, FoldInduction
<1>. QED  BY <1>3

\* Nothing, however often, is nothing.
LEMMA SumZero ==
    ASSUME NEW f, NEW S, IsFiniteSet(S), \A x \in S : f[x] = 0
    PROVE  SumFunctionOnSet(f, S) = 0
<1>. DEFINE Good == {T \in SUBSET S : SumFunctionOnSet(f, T) = 0}
<1>1. {} \in Good
  BY SumEmpty
<1>2. ASSUME NEW T \in SUBSET S, T # {}, Rest(T) \in Good
      PROVE  T \in Good
  <2>1. IsFiniteSet(T) /\ Some(T) \in S
    BY <1>2, FS_Subset, SomeElement
  <2>. QED  BY <1>2, <2>1, SumUnfold
<1>3. \A T \in SUBSET S : T \in Good
  <2>. HIDE DEF Good
  <2>. QED  BY <1>1, <1>2, FoldInduction
<1>. QED  BY <1>3

-----------------------------------------------------------------------------
(***************************************************************************)
(* How a sum of integers moves. The order of the fold does not matter: any *)
(* element may be taken out first.                                         *)
(***************************************************************************)

Whole(f, S) == \A x \in S : f[x] \in Int

LEMMA SumRemove ==
    ASSUME NEW f, NEW S, IsFiniteSet(S), Whole(f, S), NEW x \in S
    PROVE  SumFunctionOnSet(f, S) = f[x] + SumFunctionOnSet(f, S \ {x})
<1>. DEFINE Splits(T, y) == SumFunctionOnSet(f, T) = f[y] + SumFunctionOnSet(f, T \ {y})
            Good == {T \in SUBSET S : \A y \in T : Splits(T, y)}
<1>1. ASSUME NEW T \in SUBSET S, \A U \in SUBSET T : U # T => U \in Good, NEW y \in T
      PROVE  Splits(T, y)
  <2>. DEFINE z == Some(T)
              both == T \ {y, z}
  <2>1. IsFiniteSet(T) /\ T # {} /\ z \in T
    BY FS_Subset, SomeElement
  <2>2. SumFunctionOnSet(f, T) = f[z] + SumFunctionOnSet(f, T \ {z})
    BY <2>1, SumUnfold DEF Rest
  <2>3. CASE z = y
    BY <2>2, <2>3
  <2>4. CASE z # y
    <3>. HIDE DEF z
    <3>1. Splits(T \ {z}, y) /\ Splits(T \ {y}, z)
      BY <1>1, <2>1, <2>4
    <3>2. (T \ {z}) \ {y} = both /\ (T \ {y}) \ {z} = both
      OBVIOUS
    <3>3. /\ SumFunctionOnSet(f, T \ {z}) = f[y] + SumFunctionOnSet(f, both)
          /\ SumFunctionOnSet(f, T \ {y}) = f[z] + SumFunctionOnSet(f, both)
      BY <3>1, <3>2
    <3>4. SumFunctionOnSet(f, both) \in Int /\ f[y] \in Int /\ f[z] \in Int
      <4>1. IsFiniteSet(both) /\ \A v \in both : f[v] \in Int
        BY <2>1, FS_Subset DEF Whole
      <4>. QED  BY <2>1, <4>1, SumType DEF Whole
    <3>. HIDE DEF both
    <3>. QED  BY <2>2, <3>3, <3>4
  <2>. QED  BY <2>3, <2>4
<1>2. \A T \in SUBSET S : (\A U \in SUBSET T : U # T => U \in Good) => T \in Good
  BY <1>1
<1>3. \A T \in SUBSET S : T \in Good
  <2>. HIDE DEF Good
  <2>. QED  BY <1>2, SubsetInduction
<1>. QED  BY <1>3

\* An element comes.
LEMMA SumAdd ==
    ASSUME NEW f, NEW S, IsFiniteSet(S), NEW x, x \notin S,
           NEW T, T = S \cup {x}, Whole(f, T)
    PROVE  SumFunctionOnSet(f, T) = SumFunctionOnSet(f, S) + f[x]
<1>1. IsFiniteSet(T) /\ T \ {x} = S /\ x \in T
  BY FS_AddElement
<1>2. SumFunctionOnSet(f, S) \in Int /\ f[x] \in Int
  BY SumType DEF Whole
<1>3. SumFunctionOnSet(f, T) = f[x] + SumFunctionOnSet(f, T \ {x})
  BY <1>1, SumRemove
<1>4. SumFunctionOnSet(f, T) = f[x] + SumFunctionOnSet(f, S)
  BY <1>1, <1>3
<1>. QED  BY <1>2, <1>4

\* One value changes.
LEMMA SumChange ==
    ASSUME NEW f, NEW g, NEW S, IsFiniteSet(S), Whole(f, S), Whole(g, S), NEW x \in S,
           \A y \in S : y # x => g[y] = f[y]
    PROVE  SumFunctionOnSet(g, S) = SumFunctionOnSet(f, S) + (g[x] - f[x])
<1>. DEFINE R == S \ {x}
<1>1. IsFiniteSet(R) /\ \A y \in R : f[y] \in Int /\ f[y] = g[y]
  BY FS_RemoveElement DEF Whole
<1>2. SumFunctionOnSet(f, S) = f[x] + SumFunctionOnSet(f, R)
  BY SumRemove
<1>3. SumFunctionOnSet(g, S) = g[x] + SumFunctionOnSet(g, R)
  BY SumRemove
<1>. HIDE DEF R
<1>4. SumFunctionOnSet(f, R) \in Int /\ SumFunctionOnSet(f, R) = SumFunctionOnSet(g, R)
  BY <1>1, SumType, SumSame
<1>. QED  BY <1>2, <1>3, <1>4 DEF Whole

\* Two sets that share nothing are taken together.
LEMMA SumUnion ==
    ASSUME NEW f, NEW S, NEW R, IsFiniteSet(S), IsFiniteSet(R), S \cap R = {},
           Whole(f, S \cup R)
    PROVE  SumFunctionOnSet(f, S \cup R) = SumFunctionOnSet(f, S) + SumFunctionOnSet(f, R)
<1>. DEFINE Adds(T) == SumFunctionOnSet(f, S \cup T) = SumFunctionOnSet(f, S)
                                                       + SumFunctionOnSet(f, T)
            Good == {T \in SUBSET R : Adds(T)}
<1>1. {} \in Good
  <2>1. S \cup {} = S /\ SumFunctionOnSet(f, S) \in Int
    BY SumType DEF Whole
  <2>. QED  BY <2>1, SumEmpty
<1>2. ASSUME NEW T \in SUBSET R, T # {}, Rest(T) \in Good
      PROVE  T \in Good
  <2>. DEFINE x == Some(T)
              U == Rest(T)
  <2>1. x \in T /\ U = T \ {x}
    BY <1>2, SomeElement DEF Rest
  <2>2. IsFiniteSet(T) /\ IsFiniteSet(U)
    BY <2>1, FS_Subset
  <2>3. IsFiniteSet(S \cup U)
    BY <2>2, FS_Union
  <2>. HIDE DEF x, U
  <2>4. /\ T = U \cup {x} /\ x \notin U
        /\ S \cup T = (S \cup U) \cup {x} /\ x \notin S \cup U
    BY <2>1
  <2>5. Whole(f, T) /\ Whole(f, S \cup T) /\ f[x] \in Int
    BY <2>1 DEF Whole
  <2>6. SumFunctionOnSet(f, T) = SumFunctionOnSet(f, U) + f[x]
    BY <2>2, <2>4, <2>5, SumAdd
  <2>7. SumFunctionOnSet(f, S \cup T) = SumFunctionOnSet(f, S \cup U) + f[x]
    BY <2>3, <2>4, <2>5, SumAdd
  <2>8. SumFunctionOnSet(f, U) \in Int /\ SumFunctionOnSet(f, S) \in Int
    BY <2>2, <2>4, SumType DEF Whole
  <2>9. Adds(U)
    BY <1>2 DEF U
  <2>. QED  BY <2>5, <2>6, <2>7, <2>8, <2>9
<1>3. \A T \in SUBSET R : T \in Good
  <2>. HIDE DEF Good
  <2>. QED  BY <1>1, <1>2, FoldInduction
<1>. QED  BY <1>3

\* Where nothing is negative, fewer elements come to no more.
LEMMA SumShrinks ==
    ASSUME NEW f, NEW g, NEW S, IsFiniteSet(S), \A x \in S : f[x] \in Nat,
           NEW T \in SUBSET S, \A x \in T : g[x] = f[x]
    PROVE  /\ SumFunctionOnSet(f, S) \in Nat
           /\ SumFunctionOnSet(g, T) \in Nat
           /\ SumFunctionOnSet(g, T) <= SumFunctionOnSet(f, S)
<1>. DEFINE R == S \ T
<1>1. IsFiniteSet(T) /\ IsFiniteSet(R) /\ T \cap R = {} /\ T \cup R = S
  BY FS_Subset
<1>. HIDE DEF R
<1>2. \A x \in T \cup R : f[x] \in Nat
  BY <1>1
<1>3. SumFunctionOnSet(f, T) \in Nat
  BY <1>1, <1>2, SumType
<1>4. SumFunctionOnSet(f, R) \in Nat
  BY <1>1, <1>2, SumType
<1>5. SumFunctionOnSet(f, T \cup R) = SumFunctionOnSet(f, T) + SumFunctionOnSet(f, R)
  <2>1. Whole(f, T \cup R)
    BY <1>2 DEF Whole
  <2>. QED  BY <1>1, <2>1, SumUnion
<1>6. SumFunctionOnSet(g, T) = SumFunctionOnSet(f, T)
  BY <1>1, SumSame
<1>7. SumFunctionOnSet(f, S) = SumFunctionOnSet(f, T) + SumFunctionOnSet(f, R)
  BY <1>1, <1>5
<1>. QED  BY <1>3, <1>4, <1>6, <1>7
=============================================================================
