---------------------------- MODULE SumTheorems ----------------------------
(***************************************************************************)
(* Induction over numbers and finite sets, and what the community modules' *)
(* sum of a function over a finite set does when its set or its function   *)
(* changes.                                                                *)
(*                                                                         *)
(* The induction principles are stated over the set of the cases that      *)
(* hold, so that a citation instantiates sets only.                        *)
(***************************************************************************)
EXTENDS Integers, Functions, FiniteSetTheorems, TLAPS

-----------------------------------------------------------------------------
(***************************************************************************)
(* Induction.                                                              *)
(***************************************************************************)
\* A set of numbers that has an element has a least one.
LEMMA LeastNumber ==
  ASSUME NEW T \in SUBSET Nat, T # {}
  PROVE  \E n \in T : \A m \in T : n <= m
<1> DEFINE R == {ss \in Nat \X Nat : ss[1] < ss[2]}
<1>1. IsWellFoundedOn(R, Nat)
  BY NatLessThanWellFounded DEF OpToRel
<1> HIDE DEF R
<1>2. PICK n \in T : \A m \in T : <<m, n>> \notin R
  BY <1>1, WFMin
<1>3. ASSUME NEW m \in T, m < n
      PROVE  FALSE
  <2>1. <<m, n>> \in R
    BY <1>3 DEF R
  <2>2. QED
    BY <1>2, <2>1
<1>4. QED
  BY <1>3

\* What holds of 0, and of n + 1 whenever it holds of n, holds of every number.
LEMMA NumbersByInduction ==
  ASSUME NEW G, 0 \in G, \A n \in Nat : n \in G => n + 1 \in G
  PROVE  Nat \subseteq G
<1> SUFFICES ASSUME Nat \ G # {} PROVE FALSE
  OBVIOUS
<1>1. PICK n \in Nat \ G : \A m \in Nat \ G : n <= m
  BY LeastNumber
<1>2. n - 1 \in Nat /\ (n - 1) + 1 = n /\ ~(n <= n - 1)
  <2>1. n # 0
    OBVIOUS
  <2>2. QED
    BY <2>1
<1>3. n - 1 \in G
  BY <1>1, <1>2
<1>4. QED
  BY <1>2, <1>3

LEMMA StrictSubsetsWellFounded ==
  ASSUME NEW S, IsFiniteSet(S)
  PROVE  IsWellFoundedOn(StrictSubsetOrdering(S), SUBSET S)
  BY FS_StrictSubsetOrderingWellFounded, FS_FiniteSubsetsOfFinite

\* What holds of a finite set whenever it holds of its strict subsets holds.
LEMMA SubsetsByInduction ==
  ASSUME NEW S, IsFiniteSet(S), NEW G,
         \A T \in SUBSET S : (\A U \in SUBSET T : U # T => U \in G) => T \in G
  PROVE  SUBSET S \subseteq G
<1> DEFINE Bad == (SUBSET S) \ G
<1> SUFFICES ASSUME Bad # {} PROVE FALSE
  OBVIOUS
<1>1. Bad \subseteq SUBSET S
  OBVIOUS
<1>0. IsWellFoundedOn(StrictSubsetOrdering(S), SUBSET S)
  BY StrictSubsetsWellFounded
<1> HIDE DEF Bad
<1>2. PICK T \in Bad : \A U \in Bad : <<U, T>> \notin StrictSubsetOrdering(S)
  BY <1>0, <1>1, WFMin
<1> USE DEF Bad
<1>3. ASSUME NEW U \in SUBSET T, U # T
      PROVE  U \in G
  <2>1. <<U, T>> \in StrictSubsetOrdering(S)
    BY <1>3 DEF StrictSubsetOrdering
  <2>2. QED
    BY <1>2, <2>1
<1>4. QED
  BY <1>3

\* A finite set of numbers that has an element has a greatest one.
LEMMA GreatestNumber ==
  ASSUME NEW T \in SUBSET Int, T # {}, IsFiniteSet(T)
  PROVE  \E n \in T : \A m \in T : m <= n
<1> DEFINE G == {U \in SUBSET T : U # {} => \E n \in U : \A m \in U : m <= n}
<1>1. ASSUME NEW U \in SUBSET T, \A V \in SUBSET U : V # U => V \in G
      PROVE  U \in G
  <2>1. CASE U = {}
    BY <2>1
  <2>2. CASE U # {}
    <3>1. PICK x \in U : TRUE
      BY <2>2
    <3>2. U \ {x} \in G
      BY <1>1, <3>1
    <3>3. CASE U \ {x} = {}
      BY <3>1, <3>3
    <3>4. CASE U \ {x} # {}
      <4>1. PICK n \in U \ {x} : \A m \in U \ {x} : m <= n
        BY <3>2, <3>4
      <4>2. (\A m \in U : m <= n) \/ (\A m \in U : m <= x)
        BY <4>1
      <4>3. QED
        BY <3>1, <4>1, <4>2
    <3>5. QED
      BY <3>3, <3>4
  <2>3. QED
    BY <2>1, <2>2
<1> HIDE DEF G
<1>2. T \in G
  BY <1>1, SubsetsByInduction
<1>3. QED
  BY <1>2 DEF G

-----------------------------------------------------------------------------
(***************************************************************************)
(* The sum, as the community modules define it: an element is chosen, its  *)
(* value added to the sum over the others.                                 *)
(***************************************************************************)
Some(s) == CHOOSE x \in s : TRUE
Others(s) == s \ {Some(s)}
Sums(g, f, D) == g = [s \in D |-> IF s = {} THEN 0 ELSE f[Some(s)] + g[Others(s)]]

LEMMA SumUnfolded ==
  ASSUME NEW f, NEW S
  PROVE  SumFunctionOnSet(f, S) = (CHOOSE g : Sums(g, f, SUBSET S))[S]
  BY DEF SumFunctionOnSet, FoldFunctionOnSet, MapThenFoldSet, Sums, Others, Some

LEMMA SomeOther ==
  ASSUME NEW s, s # {}
  PROVE  Some(s) \in s /\ Others(s) \subseteq s /\ Others(s) # s
  BY DEF Some, Others

\* There is a function that satisfies the equation.
LEMMA SumsExist ==
  ASSUME NEW S, IsFiniteSet(S), NEW f, \A x \in S : f[x] \in Int
  PROVE  \E g \in [SUBSET S -> Int] : Sums(g, f, SUBSET S)
<1> DEFINE Upto(n) == {s \in SUBSET S : Cardinality(s) <= n}
           G == {n \in Nat : \E g \in [Upto(n) -> Int] : Sums(g, f, Upto(n))}
<1>1. \A s \in SUBSET S : IsFiniteSet(s) /\ Cardinality(s) \in Nat
  BY FS_Subset, FS_CardinalityType
<1>2. 0 \in G
  <2>1. Upto(0) = {{}}
    BY <1>1, FS_EmptySet
  <2>2. [s \in {{}} |-> 0] \in [Upto(0) -> Int] /\ Sums([s \in {{}} |-> 0], f, Upto(0))
    BY <2>1 DEF Sums
  <2>3. QED
    BY <2>2
<1>3. ASSUME NEW n \in Nat, n \in G
      PROVE  n + 1 \in G
  <2>1. PICK g \in [Upto(n) -> Int] : Sums(g, f, Upto(n))
    BY <1>3
  <2> DEFINE h == [s \in Upto(n + 1) |->
                     IF s = {} THEN 0 ELSE f[Some(s)] + g[Others(s)]]
  <2>2. Upto(n) \subseteq Upto(n + 1)
    BY <1>1
  <2>3. ASSUME NEW s \in Upto(n + 1), s # {}
        PROVE  Others(s) \in Upto(n) /\ Some(s) \in S
    <3>1. Cardinality(Others(s)) = Cardinality(s) - 1
      BY <1>1, <2>3, SomeOther, FS_RemoveElement DEF Others
    <3>2. QED
      BY <1>1, <2>3, <3>1, SomeOther
  <2>4. \A s \in Upto(n) : h[s] = g[s]
    BY <2>1, <2>2 DEF Sums
  <2>5. h \in [Upto(n + 1) -> Int]
    BY <2>3
  <2>6. Sums(h, f, Upto(n + 1))
    BY <2>3, <2>4 DEF Sums
  <2> HIDE DEF h, Upto
  <2>7. \E e \in [Upto(n + 1) -> Int] : Sums(e, f, Upto(n + 1))
    BY <2>5, <2>6
  <2>8. QED
    BY <2>7
<1>4. Cardinality(S) \in Nat /\ Upto(Cardinality(S)) = SUBSET S
  BY <1>1, FS_Subset
<1>5. Cardinality(S) \in G
  <2> HIDE DEF G
  <2>1. QED
    BY <1>2, <1>3, <1>4, NumbersByInduction
<1>6. QED
  BY <1>4, <1>5

\* It is the same one on every set it is taken over.
LEMMA SumsAgree ==
  ASSUME NEW S, IsFiniteSet(S), NEW f, NEW g, Sums(g, f, SUBSET S),
         NEW T \in SUBSET S, NEW h, Sums(h, f, SUBSET T)
  PROVE  g[T] = h[T]
<1> DEFINE G == {U \in SUBSET T : g[U] = h[U]}
<1>1. ASSUME NEW U \in SUBSET T, \A V \in SUBSET U : V # U => V \in G
      PROVE  U \in G
  <2>1. CASE U = {}
    BY <2>1 DEF Sums
  <2>2. CASE U # {}
    <3>1. Others(U) \in G
      BY <1>1, <2>2, SomeOther
    <3>2. g[U] = f[Some(U)] + g[Others(U)] /\ h[U] = f[Some(U)] + h[Others(U)]
      BY <2>2 DEF Sums
    <3>3. QED
      BY <3>1, <3>2
  <2>3. QED
    BY <2>1, <2>2
<1> HIDE DEF G
<1>2. IsFiniteSet(T)
  BY FS_Subset
<1>3. T \in G
  BY <1>1, <1>2, SubsetsByInduction
<1>4. QED
  BY <1>3 DEF G

\* The equation, for the sum itself.
LEMMA SumSome ==
  ASSUME NEW S, IsFiniteSet(S), NEW f, \A x \in S : f[x] \in Int
  PROVE  /\ SumFunctionOnSet(f, S) \in Int
         /\ S = {} => SumFunctionOnSet(f, S) = 0
         /\ S # {} => SumFunctionOnSet(f, S)
                        = f[Some(S)] + SumFunctionOnSet(f, Others(S))
<1> DEFINE g == CHOOSE g : Sums(g, f, SUBSET S)
<1>1. PICK e \in [SUBSET S -> Int] : Sums(e, f, SUBSET S)
  BY SumsExist
<1>2. Sums(g, f, SUBSET S)
  BY <1>1
<1>3. SumFunctionOnSet(f, S) = g[S]
  BY SumUnfolded
<1> HIDE DEF g
<1>4. g[S] = e[S]
  BY <1>1, <1>2, SumsAgree
<1>5. SumFunctionOnSet(f, S) \in Int
  BY <1>1, <1>3, <1>4
<1>6. S = {} => g[S] = 0
  BY <1>2 DEF Sums
<1>7. ASSUME S # {}
      PROVE  SumFunctionOnSet(f, S) = f[Some(S)] + SumFunctionOnSet(f, Others(S))
  <2> DEFINE h == CHOOSE h : Sums(h, f, SUBSET Others(S))
  <2>1. Others(S) \in SUBSET S /\ IsFiniteSet(Others(S)) /\ Some(S) \in S
    BY <1>7, SomeOther, FS_Subset
  <2>2. \E o \in [SUBSET Others(S) -> Int] : Sums(o, f, SUBSET Others(S))
    BY <2>1, SumsExist
  <2>3. Sums(h, f, SUBSET Others(S))
    BY <2>2
  <2>4. SumFunctionOnSet(f, Others(S)) = h[Others(S)]
    BY SumUnfolded
  <2> HIDE DEF h
  <2>5. g[Others(S)] = h[Others(S)]
    BY <1>2, <2>1, <2>3, SumsAgree
  <2>6. g[S] = f[Some(S)] + g[Others(S)]
    BY <1>2, <1>7 DEF Sums
  <2>7. QED
    BY <1>3, <2>4, <2>5, <2>6
<1>8. QED
  BY <1>3, <1>5, <1>6, <1>7

-----------------------------------------------------------------------------
(***************************************************************************)
(* What is cited elsewhere.                                                *)
(***************************************************************************)
\* A sum of integers is an integer, and over nothing it is 0.
LEMMA SumType ==
  ASSUME NEW S, IsFiniteSet(S), NEW f, \A x \in S : f[x] \in Int
  PROVE  /\ SumFunctionOnSet(f, S) \in Int
         /\ S = {} => SumFunctionOnSet(f, S) = 0
  BY SumSome

\* A sum of numbers that are not negative is not negative.
LEMMA SumNat ==
  ASSUME NEW S, IsFiniteSet(S), NEW f, \A x \in S : f[x] \in Nat
  PROVE  SumFunctionOnSet(f, S) \in Nat
<1> DEFINE G == {T \in SUBSET S : SumFunctionOnSet(f, T) \in Nat}
<1>1. ASSUME NEW T \in SUBSET S, \A U \in SUBSET T : U # T => U \in G
      PROVE  T \in G
  <2>1. IsFiniteSet(T) /\ \A x \in T : f[x] \in Int /\ f[x] \in Nat
    BY FS_Subset
  <2>2. T # {} => Others(T) \in G /\ Some(T) \in T
    BY <1>1, SomeOther
  <2>3. QED
    BY <2>1, <2>2, SumSome
<1> HIDE DEF G
<1>2. S \in G
  BY <1>1, SubsetsByInduction
<1>3. QED
  BY <1>2 DEF G

\* Any element may be taken out first.
LEMMA SumRemove ==
  ASSUME NEW S, IsFiniteSet(S), NEW f, \A x \in S : f[x] \in Int, NEW e \in S
  PROVE  SumFunctionOnSet(f, S) = f[e] + SumFunctionOnSet(f, S \ {e})
<1> DEFINE G == {T \in SUBSET S :
                   \A x \in T : SumFunctionOnSet(f, T) = f[x] + SumFunctionOnSet(f, T \ {x})}
<1>1. \A T \in SUBSET S : IsFiniteSet(T) /\ SumFunctionOnSet(f, T) \in Int
  BY FS_Subset, SumSome
<1>2. ASSUME NEW T \in SUBSET S, \A U \in SUBSET T : U # T => U \in G, NEW x \in T
      PROVE  SumFunctionOnSet(f, T) = f[x] + SumFunctionOnSet(f, T \ {x})
  <2> DEFINE y == Some(T)
             rest == T \ {x, y}
  <2>1. /\ y \in T
        /\ SumFunctionOnSet(f, T) = f[y] + SumFunctionOnSet(f, T \ {y})
    BY <1>1, SomeOther, SumSome DEF Others
  <2>2. CASE x = y
    BY <2>1, <2>2
  <2>3. CASE x # y
    <3> HIDE DEF y
    <3>1. T \ {y} \in G /\ T \ {x} \in G
      BY <1>2, <2>1
    <3>2. SumFunctionOnSet(f, T \ {y}) = f[x] + SumFunctionOnSet(f, (T \ {y}) \ {x})
      BY <2>3, <3>1
    <3>3. SumFunctionOnSet(f, T \ {x}) = f[y] + SumFunctionOnSet(f, (T \ {x}) \ {y})
      BY <2>1, <2>3, <3>1
    <3>4. (T \ {y}) \ {x} = rest /\ (T \ {x}) \ {y} = rest
      OBVIOUS
    <3>5. f[x] \in Int /\ f[y] \in Int /\ SumFunctionOnSet(f, rest) \in Int
      BY <1>1, <2>1
    <3> HIDE DEF rest, G
    <3>6. /\ SumFunctionOnSet(f, T \ {y}) = f[x] + SumFunctionOnSet(f, rest)
          /\ SumFunctionOnSet(f, T \ {x}) = f[y] + SumFunctionOnSet(f, rest)
      BY <3>2, <3>3, <3>4
    <3>7. QED
      BY <2>1, <3>5, <3>6
  <2>4. QED
    BY <2>2, <2>3
<1>3. S \in G
  <2>1. ASSUME NEW T \in SUBSET S, \A U \in SUBSET T : U # T => U \in G
        PROVE  T \in G
    BY <1>2, <2>1
  <2> HIDE DEF G
  <2>2. QED
    BY <2>1, SubsetsByInduction
<1>4. QED
  BY <1>3

LEMMA SumAdd ==
  ASSUME NEW S, IsFiniteSet(S), NEW f, NEW e, e \notin S,
         \A x \in S \cup {e} : f[x] \in Int
  PROVE  SumFunctionOnSet(f, S \cup {e}) = SumFunctionOnSet(f, S) + f[e]
<1>1. IsFiniteSet(S \cup {e}) /\ (S \cup {e}) \ {e} = S
  BY FS_AddElement
<1>2. SumFunctionOnSet(f, S \cup {e}) = f[e] + SumFunctionOnSet(f, S)
  BY <1>1, SumRemove
<1>3. f[e] \in Int /\ SumFunctionOnSet(f, S) \in Int
  BY SumType
<1>4. QED
  BY <1>2, <1>3

\* A sum depends on the function's values on its set only.
LEMMA SumSame ==
  ASSUME NEW S, IsFiniteSet(S), NEW f, NEW h,
         \A x \in S : f[x] \in Int /\ h[x] = f[x]
  PROVE  SumFunctionOnSet(h, S) = SumFunctionOnSet(f, S)
<1> DEFINE G == {T \in SUBSET S : SumFunctionOnSet(h, T) = SumFunctionOnSet(f, T)}
<1>1. ASSUME NEW T \in SUBSET S, \A U \in SUBSET T : U # T => U \in G
      PROVE  T \in G
  <2>1. IsFiniteSet(T) /\ \A x \in T : f[x] \in Int /\ h[x] \in Int /\ h[x] = f[x]
    BY FS_Subset
  <2>2. CASE T = {}
    BY <2>1, <2>2, SumType
  <2>3. CASE T # {}
    <3>1. Others(T) \in G /\ Some(T) \in T
      BY <1>1, <2>3, SomeOther
    <3>2. QED
      BY <2>1, <2>3, <3>1, SumSome
  <2>4. QED
    BY <2>2, <2>3
<1> HIDE DEF G
<1>2. S \in G
  BY <1>1, SubsetsByInduction
<1>3. QED
  BY <1>2 DEF G

\* A change of the function at one element changes the sum by as much.
LEMMA SumChange ==
  ASSUME NEW S, IsFiniteSet(S), NEW f, NEW h, NEW e \in S,
         \A x \in S : f[x] \in Int /\ h[x] \in Int,
         \A x \in S \ {e} : h[x] = f[x]
  PROVE  SumFunctionOnSet(h, S) = SumFunctionOnSet(f, S) - f[e] + h[e]
<1>1. IsFiniteSet(S \ {e})
  BY FS_RemoveElement
<1>2. SumFunctionOnSet(h, S \ {e}) = SumFunctionOnSet(f, S \ {e})
  BY <1>1, SumSame
<1>3. /\ SumFunctionOnSet(h, S) = h[e] + SumFunctionOnSet(h, S \ {e})
      /\ SumFunctionOnSet(f, S) = f[e] + SumFunctionOnSet(f, S \ {e})
  BY SumRemove
<1>4. f[e] \in Int /\ h[e] \in Int /\ SumFunctionOnSet(f, S \ {e}) \in Int
  BY <1>1, SumType
<1>5. QED
  BY <1>2, <1>3, <1>4

\* A part may be taken out at once.
LEMMA SumSplit ==
  ASSUME NEW S, IsFiniteSet(S), NEW f, \A x \in S : f[x] \in Int, NEW P \in SUBSET S
  PROVE  SumFunctionOnSet(f, S) = SumFunctionOnSet(f, P) + SumFunctionOnSet(f, S \ P)
<1> DEFINE total == SumFunctionOnSet(f, S)
           G == {T \in SUBSET P : total = SumFunctionOnSet(f, T) + SumFunctionOnSet(f, S \ T)}
<1>1. IsFiniteSet(P) /\ total \in Int
  BY FS_Subset, SumType
<1>2. ASSUME NEW T \in SUBSET P, \A U \in SUBSET T : U # T => U \in G
      PROVE  T \in G
  <2>1. CASE T = {}
    <3>1. S \ T = S /\ IsFiniteSet(T)
      BY <2>1, FS_EmptySet
    <3>2. SumFunctionOnSet(f, T) = 0
      BY <2>1, <3>1, SumType
    <3>3. total = 0 + SumFunctionOnSet(f, S \ T)
      BY <1>1, <3>1
    <3>4. QED
      BY <3>2, <3>3
  <2>2. CASE T # {}
    <3>1. PICK x \in T : TRUE
      BY <2>2
    <3> DEFINE U == T \ {x}
    <3>2. U \in G
      BY <1>2, <3>1
    <3>3. /\ IsFiniteSet(T) /\ IsFiniteSet(U) /\ IsFiniteSet(S \ T) /\ IsFiniteSet(S \ U)
          /\ x \in S \ U /\ (S \ U) \ {x} = S \ T
      BY <3>1, FS_Subset
    <3>4. /\ SumFunctionOnSet(f, T) = f[x] + SumFunctionOnSet(f, U)
          /\ SumFunctionOnSet(f, S \ U) = f[x] + SumFunctionOnSet(f, S \ T)
      BY <3>1, <3>3, SumRemove
    <3>5. /\ f[x] \in Int
          /\ SumFunctionOnSet(f, U) \in Int
          /\ SumFunctionOnSet(f, S \ T) \in Int
      BY <3>1, <3>3, SumType
    <3>6. total = SumFunctionOnSet(f, U) + SumFunctionOnSet(f, S \ U)
      BY <3>2
    <3> HIDE DEF U, total
    <3>7. QED
      BY <1>1, <3>4, <3>5, <3>6
  <2>3. QED
    BY <2>1, <2>2
<1> HIDE DEF G
<1>3. P \in G
  BY <1>1, <1>2, SubsetsByInduction
<1>4. QED
  BY <1>3 DEF G

\* Nothing adds up to nothing.
LEMMA SumZero ==
  ASSUME NEW S, IsFiniteSet(S), NEW f, \A x \in S : f[x] = 0
  PROVE  SumFunctionOnSet(f, S) = 0
<1> DEFINE G == {T \in SUBSET S : SumFunctionOnSet(f, T) = 0}
<1>1. ASSUME NEW T \in SUBSET S, \A U \in SUBSET T : U # T => U \in G
      PROVE  T \in G
  <2>1. IsFiniteSet(T) /\ \A x \in T : f[x] \in Int
    BY FS_Subset
  <2>2. CASE T = {}
    BY <2>1, <2>2, SumType
  <2>3. CASE T # {}
    <3>1. PICK x \in T : TRUE
      BY <2>3
    <3>2. SumFunctionOnSet(f, T) = f[x] + SumFunctionOnSet(f, T \ {x})
      BY <2>1, SumRemove
    <3>3. SumFunctionOnSet(f, T \ {x}) = 0
      BY <1>1, <3>1
    <3>4. QED
      BY <3>2, <3>3
  <2>4. QED
    BY <2>2, <2>3
<1> HIDE DEF G
<1>2. S \in G
  BY <1>1, SubsetsByInduction
<1>3. QED
  BY <1>2 DEF G

\* A sum over fewer numbers is no greater.
LEMMA SumPart ==
  ASSUME NEW S, IsFiniteSet(S), NEW f, \A x \in S : f[x] \in Nat, NEW P \in SUBSET S
  PROVE  /\ SumFunctionOnSet(f, P) \in Nat /\ SumFunctionOnSet(f, S) \in Nat
         /\ SumFunctionOnSet(f, P) <= SumFunctionOnSet(f, S)
<1>1. IsFiniteSet(P) /\ IsFiniteSet(S \ P)
  BY FS_Subset
<1>2. /\ SumFunctionOnSet(f, P) \in Nat /\ SumFunctionOnSet(f, S) \in Nat
      /\ SumFunctionOnSet(f, S \ P) \in Nat
  BY <1>1, SumNat
<1>3. \A x \in S : f[x] \in Int
  OBVIOUS
<1>4. SumFunctionOnSet(f, S) = SumFunctionOnSet(f, P) + SumFunctionOnSet(f, S \ P)
  BY <1>3, SumSplit
<1>5. QED
  BY <1>2, <1>4

\* The sum of one number taken for each of several.
LEMMA SumConstant ==
  ASSUME NEW S, IsFiniteSet(S), NEW k \in Int, NEW f, \A x \in S : f[x] = k
  PROVE  SumFunctionOnSet(f, S) = k * Cardinality(S)
<1> DEFINE G == {T \in SUBSET S : SumFunctionOnSet(f, T) = k * Cardinality(T)}
<1>1. ASSUME NEW T \in SUBSET S, \A U \in SUBSET T : U # T => U \in G
      PROVE  T \in G
  <2>1. IsFiniteSet(T) /\ (\A x \in T : f[x] \in Int) /\ Cardinality(T) \in Nat
    BY FS_Subset, FS_CardinalityType
  <2>2. CASE T = {}
    <3>1. SumFunctionOnSet(f, T) = 0 /\ Cardinality(T) = 0
      BY <2>1, <2>2, SumType, FS_EmptySet
    <3>2. QED
      BY <3>1
  <2>3. CASE T # {}
    <3>1. PICK x \in T : TRUE
      BY <2>3
    <3>2. SumFunctionOnSet(f, T) = f[x] + SumFunctionOnSet(f, T \ {x})
      BY <2>1, SumRemove
    <3>3. T \ {x} \in G
      BY <1>1, <3>1
    <3>4. Cardinality(T \ {x}) = Cardinality(T) - 1
      BY <2>1, <3>1, FS_RemoveElement
    <3>5. PICK n \in Int : n = Cardinality(T)
      BY <2>1
    <3>6. k + k * (n - 1) = k * n
      BY <3>5
    <3>7. QED
      BY <3>1, <3>2, <3>3, <3>4, <3>5, <3>6
  <2>4. QED
    BY <2>2, <2>3
<1> HIDE DEF G
<1>2. S \in G
  BY <1>1, SubsetsByInduction
<1>3. QED
  BY <1>2 DEF G
=============================================================================
