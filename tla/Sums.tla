-------------------------------- MODULE Sums --------------------------------
(***************************************************************************)
(* What SumFunctionOnSet of the community modules computes, for every      *)
(* finite set.  The induction theorems of the library take a predicate;    *)
(* here the predicate is the set of the arguments that satisfy it, and the *)
(* induction is the well-foundedness of the naturals.  Then the bounds of  *)
(* products and of quotients that round down.                              *)
(***************************************************************************)
EXTENDS Integers, FiniteSets, Functions, FiniteSetTheorems, WellFoundedInduction, TLAPS

-----------------------------------------------------------------------------
(* Induction *)

\* A set of naturals that is not empty has a least element.
LEMMA NatMinimum ==
  ASSUME NEW T \in SUBSET Nat, T # {}
  PROVE  \E x \in T : \A y \in T : x <= y
<1> DEFINE R == OpToRel(<, Nat)
<1>1. IsWellFoundedOn(R, Nat)
  BY NatLessThanWellFounded
<1>2. \A x, y \in Nat : <<y, x>> \in R <=> y < x
  BY DEF OpToRel
<1> HIDE DEF R
<1>3. PICK x \in T : \A y \in T : ~ (<<y, x>> \in R)
  BY <1>1, WFMin
<1>4. ASSUME NEW y \in T PROVE x <= y
  <2>1. x \in Nat /\ y \in Nat /\ ~ (y < x)
    BY <1>2, <1>3
  <2> QED
    BY <2>1
<1> QED
  BY <1>4

\* A set of naturals that holds 0 and every successor holds them all.
LEMMA NatSetInduction ==
  ASSUME NEW P \in SUBSET Nat, 0 \in P, \A n \in P : n + 1 \in P
  PROVE  P = Nat
<1> DEFINE T == Nat \ P
<1> SUFFICES ASSUME T # {} PROVE FALSE
  OBVIOUS
<1>1. PICK x \in T : \A y \in T : x <= y
  BY NatMinimum
<1>2. x # 0 /\ x - 1 \in Nat
  OBVIOUS
<1>3. x - 1 \in T
  BY <1>2
<1> QED
  BY <1>1, <1>3

\* A set of sets that holds the empty set, and each subset of a finite set that
\* it holds without any one of its elements, holds all subsets.
LEMMA SubsetInduction ==
  ASSUME NEW S, IsFiniteSet(S), NEW P, {} \in P,
         \A T \in SUBSET S : T # {} /\ (\A x \in T : T \ {x} \in P) => T \in P
  PROVE  \A T \in SUBSET S : T \in P
<1> DEFINE N == {n \in Nat : \A T \in SUBSET S : Cardinality(T) = n => T \in P}
<1>0. \A T \in SUBSET S : IsFiniteSet(T) /\ Cardinality(T) \in Nat
  BY FS_Subset, FS_CardinalityType
<1>1. 0 \in N
  BY <1>0, FS_EmptySet
<1>2. ASSUME NEW n \in N PROVE n + 1 \in N
  <2> SUFFICES ASSUME NEW T \in SUBSET S, Cardinality(T) = n + 1 PROVE T \in P
    OBVIOUS
  <2>1. T # {}
    <3>1. Cardinality({}) = 0 /\ n + 1 # 0
      BY FS_EmptySet
    <3> QED
      BY <3>1
  <2>2. ASSUME NEW x \in T PROVE T \ {x} \in P
    <3>1. Cardinality(T \ {x}) = n
      BY <1>0, FS_RemoveElement
    <3> QED
      BY <3>1
  <2> QED
    BY <2>1, <2>2
<1>3. N = Nat
  <2> HIDE DEF N
  <2>1. N \in SUBSET Nat
    BY DEF N
  <2> QED
    BY <1>1, <1>2, <2>1, NatSetInduction
<1> QED
  BY <1>0, <1>3

\* A finite set of integers that is not empty has a greatest element.
LEMMA FiniteMaximum ==
  ASSUME NEW S \in SUBSET Int, IsFiniteSet(S), S # {}
  PROVE  \E x \in S : \A y \in S : y <= x
<1> DEFINE P == {T \in SUBSET S : T # {} => \E v \in T : \A w \in T : w <= v}
<1>1. {} \in P
  OBVIOUS
<1>2. ASSUME NEW T \in SUBSET S, T # {}, \A x \in T : T \ {x} \in P
      PROVE  T \in P
  <2>1. PICK x \in T : TRUE
    BY <1>2
  <2>2. T \ {x} \in P
    BY <1>2
  <2>3. CASE T \ {x} = {}
    <3>1. \A w \in T : w = x
      BY <2>3
    <3>2. x \in T /\ x <= x
      BY SMT
    <3> QED
      BY <3>1, <3>2
  <2>4. CASE T \ {x} # {}
    <3>1. PICK v \in T \ {x} : \A w \in T \ {x} : w <= v
      BY <2>2, <2>4
    <3>2. x \in Int /\ v \in Int /\ T \subseteq Int
      OBVIOUS
    <3>3. CASE x <= v
      BY <3>1, <3>3
    <3>4. CASE v < x
      <4>1. \A w \in T : w <= x
        BY <3>1, <3>2, <3>4
      <4> QED
        BY <4>1
    <3> QED
      BY <3>2, <3>3, <3>4
  <2> QED
    BY <2>3, <2>4
<1> HIDE DEF P
<1>3. \A T \in SUBSET S : T \in P
  BY <1>1, <1>2, SubsetInduction
<1>4. S \in P
  BY <1>3
<1> QED
  BY <1>4 DEF P

\* The values of a function on a finite set are finitely many.
LEMMA ImageFinite ==
  ASSUME NEW S, IsFiniteSet(S), NEW f, f = [x \in S |-> f[x]]
  PROVE  IsFiniteSet({f[x] : x \in S})
<1> DEFINE T == {f[x] : x \in S}
<1>1. f \in [S -> T]
  OBVIOUS
<1>2. f \in Surjection(S, T)
  BY <1>1 DEF Surjection
<1> QED
  BY <1>2, FS_Surjection

\* ... and a least one.
LEMMA FiniteMinimum ==
  ASSUME NEW S \in SUBSET Int, IsFiniteSet(S), S # {}
  PROVE  \E x \in S : \A y \in S : x <= y
<1> DEFINE f == [x \in S |-> -x]
           T == {f[x] : x \in S}
<1>1. IsFiniteSet(T)
  BY ImageFinite
<1>2. T \in SUBSET Int
  OBVIOUS
<1>n. T # {}
  <2>1. PICK x \in S : TRUE
    OBVIOUS
  <2>2. f[x] \in T
    OBVIOUS
  <2> QED
    BY <2>2
<1>3. PICK v \in T : \A w \in T : w <= v
  BY <1>1, <1>2, <1>n, FiniteMaximum
<1>4. PICK x \in S : v = -x
  OBVIOUS
<1>5. ASSUME NEW y \in S PROVE x <= y
  <2>1. -y \in T /\ x \in Int /\ y \in Int
    OBVIOUS
  <2> HIDE DEF T
  <2> QED
    BY <1>3, <1>4, <2>1
<1> QED
  BY <1>5

-----------------------------------------------------------------------------
(* The recursion behind the fold *)

Element(s) == CHOOSE x \in s : TRUE

\* One step of the recursion: the value at s, from the function g of the rest.
FoldStep(f, g, s) == IF s = {} THEN 0 ELSE f[Element(s)] + g[s \ {Element(s)}]

Partial(f, S) == CHOOSE g : g = [s \in SUBSET S |->
   IF s = {} THEN 0 ELSE f[Element(s)] + g[s \ {Element(s)}]]

LEMMA FoldIsPartial ==
  ASSUME NEW f, NEW S
  PROVE  SumFunctionOnSet(f, S) = Partial(f, S)[S]
  BY DEF SumFunctionOnSet, FoldFunctionOnSet, MapThenFoldSet, Partial, Element

\* The recursion has a solution: it is defined on the sets of at most n elements
\* for every n, each time from the sets of at most n - 1.
LEMMA PartialDefined ==
  ASSUME NEW f, NEW S, IsFiniteSet(S)
  PROVE  \A s \in SUBSET S : Partial(f, S)[s] = FoldStep(f, Partial(f, S), s)
<1> DEFINE Small(n) == {s \in SUBSET S : Cardinality(s) <= n}
           N == {n \in Nat : \E g : g = [s \in Small(n) |-> FoldStep(f, g, s)]}
<1>0. \A T \in SUBSET S : IsFiniteSet(T) /\ Cardinality(T) \in Nat
  BY FS_Subset, FS_CardinalityType
<1>e. \A s : s # {} => Element(s) \in s
  BY DEF Element
<1>1. 0 \in N
  <2> DEFINE g == [s \in Small(0) |-> 0]
  <2>1. \A s \in Small(0) : s = {}
    BY <1>0, FS_EmptySet
  <2>2. g = [s \in Small(0) |-> FoldStep(f, g, s)]
    BY <2>1 DEF FoldStep
  <2> QED
    BY <2>2
<1>2. ASSUME NEW n \in N PROVE n + 1 \in N
  <2>1. PICK g : g = [s \in Small(n) |-> FoldStep(f, g, s)]
    OBVIOUS
  <2> DEFINE h == [s \in Small(n + 1) |-> FoldStep(f, g, s)]
  <2>2. Small(n) \subseteq Small(n + 1)
    BY <1>0
  <2>3. \A s \in Small(n) : h[s] = g[s]
    BY <2>1, <2>2
  <2>4. ASSUME NEW s \in Small(n + 1) PROVE FoldStep(f, h, s) = FoldStep(f, g, s)
    <3>1. CASE s = {}
      BY <3>1 DEF FoldStep
    <3>2. CASE s # {}
      <4> DEFINE t == s \ {Element(s)}
      <4>1. t \in SUBSET S /\ Cardinality(t) = Cardinality(s) - 1
        BY <1>0, <1>e, <3>2, FS_RemoveElement
      <4>2. t \in Small(n)
        BY <1>0, <4>1
      <4>3. h[t] = g[t]
        BY <2>3, <4>2
      <4> QED
        BY <3>2, <4>3 DEF FoldStep
    <3> QED
      BY <3>1, <3>2
  <2>5. h = [s \in Small(n + 1) |-> FoldStep(f, h, s)]
    BY <2>4
  <2>6. \E k : k = [s \in Small(n + 1) |-> FoldStep(f, k, s)]
    <3> HIDE DEF h
    <3> QED
      BY <2>5
  <2>7. n + 1 \in Nat
    OBVIOUS
  <2> HIDE DEF Small
  <2> QED
    BY <2>6, <2>7, Zenon
<1>3. N = Nat
  <2> HIDE DEF N
  <2>1. N \in SUBSET Nat
    BY DEF N
  <2> QED
    BY <1>1, <1>2, <2>1, NatSetInduction
<1>4. Cardinality(S) \in N
  BY <1>0, <1>3
<1>5. Small(Cardinality(S)) = SUBSET S
  BY FS_Subset
<1>6. \E g : g = [s \in SUBSET S |-> FoldStep(f, g, s)]
  BY <1>4, <1>5
<1>7. Partial(f, S) = [s \in SUBSET S |-> FoldStep(f, Partial(f, S), s)]
  BY <1>6 DEF Partial, FoldStep
<1> QED
  BY <1>7

\* The partial sums do not depend on the set they are taken in.
LEMMA PartialAgrees ==
  ASSUME NEW f, NEW S, IsFiniteSet(S)
  PROVE  \A T \in SUBSET S : Partial(f, S)[T] = Partial(f, T)[T]
<1> DEFINE P == {T \in SUBSET S : \A U \in SUBSET S : T \subseteq U =>
                                     Partial(f, U)[T] = Partial(f, T)[T]}
<1>0. \A T \in SUBSET S : IsFiniteSet(T)
  BY FS_Subset
<1>e. \A s : s # {} => Element(s) \in s
  BY DEF Element
<1>1. {} \in P
  <2>1. \A U \in SUBSET S : Partial(f, U)[{}] = 0
    BY <1>0, PartialDefined DEF FoldStep
  <2> QED
    BY <2>1
<1>2. ASSUME NEW T \in SUBSET S, T # {}, \A x \in T : T \ {x} \in P
      PROVE  T \in P
  <2> DEFINE e == Element(T)
             R == T \ {e}
  <2>1. e \in T /\ R \in P /\ R \subseteq T
    BY <1>e, <1>2
  <2>2. ASSUME NEW U \in SUBSET S, T \subseteq U
        PROVE  Partial(f, U)[T] = f[e] + Partial(f, R)[R]
    <3>0. \A s \in SUBSET U : Partial(f, U)[s] = FoldStep(f, Partial(f, U), s)
      BY <1>0, PartialDefined
    <3>1. Partial(f, U)[T] = f[e] + Partial(f, U)[R]
      BY <1>2, <2>2, <3>0 DEF FoldStep
    <3>2. Partial(f, U)[R] = Partial(f, R)[R]
      BY <2>1, <2>2
    <3> QED
      BY <3>1, <3>2
  <2>3. Partial(f, T)[T] = f[e] + Partial(f, R)[R]
    BY <2>2
  <2> QED
    BY <2>2, <2>3
<1>3. \A T \in SUBSET S : T \in P
  <2> HIDE DEF P
  <2> QED
    BY <1>1, <1>2, SubsetInduction
<1> QED
  BY <1>3

-----------------------------------------------------------------------------
(* Sums *)

LEMMA SumEmpty ==
  ASSUME NEW f
  PROVE  SumFunctionOnSet(f, {}) = 0
<1>1. IsFiniteSet({})
  BY FS_EmptySet
<1>2. Partial(f, {})[{}] = FoldStep(f, Partial(f, {}), {})
  BY <1>1, PartialDefined
<1> QED
  BY <1>2, FoldIsPartial DEF FoldStep

\* Some element can be taken out.
LEMMA SumStep ==
  ASSUME NEW f, NEW S, IsFiniteSet(S), S # {}
  PROVE  \E e \in S : SumFunctionOnSet(f, S) = f[e] + SumFunctionOnSet(f, S \ {e})
<1> DEFINE e == Element(S)
<1>1. e \in S
  BY DEF Element
<1>2. Partial(f, S)[S] = f[e] + Partial(f, S)[S \ {e}]
  BY PartialDefined DEF FoldStep
<1>3. Partial(f, S)[S \ {e}] = Partial(f, S \ {e})[S \ {e}]
  BY PartialAgrees
<1> QED
  BY <1>1, <1>2, <1>3, FoldIsPartial

\* Sums of integers are integers.
LEMMA SumType ==
  ASSUME NEW f, NEW S, IsFiniteSet(S), \A s \in S : f[s] \in Int
  PROVE  SumFunctionOnSet(f, S) \in Int
<1> DEFINE P == {T \in SUBSET S : SumFunctionOnSet(f, T) \in Int}
<1>1. {} \in P
  BY SumEmpty
<1>2. ASSUME NEW T \in SUBSET S, T # {}, \A x \in T : T \ {x} \in P
      PROVE  T \in P
  <2>1. IsFiniteSet(T)
    BY FS_Subset
  <2>2. PICK e \in T : SumFunctionOnSet(f, T) = f[e] + SumFunctionOnSet(f, T \ {e})
    BY <1>2, <2>1, SumStep
  <2>3. f[e] \in Int /\ SumFunctionOnSet(f, T \ {e}) \in Int
    BY <1>2
  <2> QED
    BY <2>2, <2>3
<1>3. \A T \in SUBSET S : T \in P
  <2> HIDE DEF P
  <2> QED
    BY <1>1, <1>2, SubsetInduction
<1> QED
  BY <1>3

\* Any element can be taken out.
LEMMA SumSplit ==
  ASSUME NEW f, NEW S, IsFiniteSet(S), \A s \in S : f[s] \in Int, NEW x \in S
  PROVE  SumFunctionOnSet(f, S) = f[x] + SumFunctionOnSet(f, S \ {x})
<1> DEFINE Sum(T) == SumFunctionOnSet(f, T)
           P == {T \in SUBSET S : \A y \in T : Sum(T) = f[y] + Sum(T \ {y})}
<1>0. \A T \in SUBSET S : IsFiniteSet(T) /\ Sum(T) \in Int
  BY FS_Subset, SumType
<1>1. {} \in P
  OBVIOUS
<1>2. ASSUME NEW T \in SUBSET S, T # {}, \A y \in T : T \ {y} \in P
      PROVE  T \in P
  <2>1. PICK e \in T : Sum(T) = f[e] + Sum(T \ {e})
    BY <1>0, <1>2, SumStep
  <2>2. ASSUME NEW y \in T, y # e PROVE Sum(T) = f[y] + Sum(T \ {y})
    <3>1. Sum(T \ {e}) = f[y] + Sum((T \ {e}) \ {y})
      BY <1>2, <2>2
    <3>2. Sum(T \ {y}) = f[e] + Sum((T \ {y}) \ {e})
      BY <1>2, <2>2
    <3>3. (T \ {e}) \ {y} = (T \ {y}) \ {e}
      OBVIOUS
    <3>4. Sum((T \ {y}) \ {e}) \in Int /\ f[e] \in Int /\ f[y] \in Int
      BY <1>0
    <3>5. Sum((T \ {e}) \ {y}) = Sum((T \ {y}) \ {e})
      BY <3>3
    <3> HIDE DEF Sum
    <3>6. Sum(T) = f[e] + (f[y] + Sum((T \ {y}) \ {e}))
      BY <2>1, <3>1, <3>5
    <3>7. f[e] + (f[y] + Sum((T \ {y}) \ {e})) = f[y] + (f[e] + Sum((T \ {y}) \ {e}))
      BY <3>4
    <3> QED
      BY <3>2, <3>6, <3>7
  <2> QED
    BY <2>1, <2>2
<1>3. \A T \in SUBSET S : T \in P
  <2> HIDE DEF P
  <2> QED
    BY <1>1, <1>2, SubsetInduction
<1> QED
  BY <1>3

\* The sum of a combination is the combination of the sums.
LEMMA SumLinear ==
  ASSUME NEW f, NEW g, NEW h, NEW a \in Int, NEW S, IsFiniteSet(S),
         \A s \in S : f[s] \in Int /\ g[s] \in Int /\ h[s] = a * f[s] + g[s]
  PROVE  SumFunctionOnSet(h, S) = a * SumFunctionOnSet(f, S) + SumFunctionOnSet(g, S)
<1> DEFINE Sum(k, T) == SumFunctionOnSet(k, T)
           P == {T \in SUBSET S : Sum(h, T) = a * Sum(f, T) + Sum(g, T)}
<1>h. \A s \in S : h[s] \in Int
  OBVIOUS
<1>0. \A T \in SUBSET S : /\ IsFiniteSet(T)
                          /\ Sum(f, T) \in Int /\ Sum(g, T) \in Int /\ Sum(h, T) \in Int
  BY <1>h, FS_Subset, SumType
<1>1. {} \in P
  <2>1. Sum(f, {}) = 0 /\ Sum(g, {}) = 0 /\ Sum(h, {}) = 0
    BY SumEmpty
  <2> HIDE DEF Sum
  <2> QED
    BY <2>1
<1>2. ASSUME NEW T \in SUBSET S, T # {}, \A y \in T : T \ {y} \in P
      PROVE  T \in P
  <2>1. PICK y \in T : TRUE
    BY <1>2
  <2> DEFINE R == T \ {y}
  <2>2. /\ Sum(f, T) = f[y] + Sum(f, R)
        /\ Sum(g, T) = g[y] + Sum(g, R)
        /\ Sum(h, T) = h[y] + Sum(h, R)
    BY <1>0, <1>h, SumSplit
  <2>3. Sum(h, R) = a * Sum(f, R) + Sum(g, R)
    BY <1>2
  <2>4. /\ Sum(f, R) \in Int /\ Sum(g, R) \in Int
        /\ f[y] \in Int /\ g[y] \in Int /\ h[y] = a * f[y] + g[y]
    BY <1>0
  <2>5. Sum(h, T) = a * Sum(f, T) + Sum(g, T)
    <3> HIDE DEF Sum
    <3>1. a * (f[y] + Sum(f, R)) = a * f[y] + a * Sum(f, R)
      BY <2>4
    <3>2. a * f[y] \in Int /\ a * Sum(f, R) \in Int
      BY <2>4
    <3> QED
      BY <2>2, <2>3, <2>4, <3>1, <3>2
  <2> QED
    BY <2>5
<1>3. \A T \in SUBSET S : T \in P
  <2> HIDE DEF P
  <2> QED
    BY <1>1, <1>2, SubsetInduction
<1> QED
  BY <1>3

\* A function that is nowhere larger has no larger sum.
LEMMA SumMonotone ==
  ASSUME NEW f, NEW g, NEW S, IsFiniteSet(S),
         \A s \in S : f[s] \in Int /\ g[s] \in Int /\ f[s] <= g[s]
  PROVE  SumFunctionOnSet(f, S) <= SumFunctionOnSet(g, S)
<1> DEFINE Sum(k, T) == SumFunctionOnSet(k, T)
           P == {T \in SUBSET S : Sum(f, T) <= Sum(g, T)}
<1>0. \A T \in SUBSET S : /\ IsFiniteSet(T)
                          /\ Sum(f, T) \in Int /\ Sum(g, T) \in Int
  BY FS_Subset, SumType
<1>1. {} \in P
  <2>1. Sum(f, {}) = 0 /\ Sum(g, {}) = 0
    BY SumEmpty
  <2> HIDE DEF Sum
  <2> QED
    BY <2>1
<1>2. ASSUME NEW T \in SUBSET S, T # {}, \A y \in T : T \ {y} \in P
      PROVE  T \in P
  <2>1. PICK y \in T : TRUE
    BY <1>2
  <2> DEFINE R == T \ {y}
  <2>2. Sum(f, T) = f[y] + Sum(f, R) /\ Sum(g, T) = g[y] + Sum(g, R)
    BY <1>0, SumSplit
  <2>3. Sum(f, R) <= Sum(g, R)
    BY <1>2
  <2>4. Sum(f, R) \in Int /\ Sum(g, R) \in Int /\ f[y] <= g[y]
    BY <1>0
  <2>5. Sum(f, T) <= Sum(g, T)
    <3> HIDE DEF Sum
    <3> QED
      BY <2>2, <2>3, <2>4
  <2> QED
    BY <2>5
<1>3. \A T \in SUBSET S : T \in P
  <2> HIDE DEF P
  <2> QED
    BY <1>1, <1>2, SubsetInduction
<1> QED
  BY <1>3

\* Functions that agree on a set have one sum.
LEMMA SumSame ==
  ASSUME NEW f, NEW g, NEW S, IsFiniteSet(S), \A s \in S : f[s] \in Int /\ g[s] = f[s]
  PROVE  SumFunctionOnSet(f, S) = SumFunctionOnSet(g, S)
<1>1. SumFunctionOnSet(f, S) <= SumFunctionOnSet(g, S)
  BY SumMonotone
<1>2. SumFunctionOnSet(g, S) <= SumFunctionOnSet(f, S)
  BY SumMonotone
<1> QED
  BY <1>1, <1>2, SumType

\* A sum of naturals is a natural, no smaller than any of them.
LEMMA SumNat ==
  ASSUME NEW f, NEW S, IsFiniteSet(S), \A s \in S : f[s] \in Nat
  PROVE  /\ SumFunctionOnSet(f, S) \in Nat
         /\ \A s \in S : f[s] <= SumFunctionOnSet(f, S)
<1> DEFINE zero == [s \in S |-> 0]
<1>1. ASSUME NEW T \in SUBSET S PROVE SumFunctionOnSet(f, T) \in Nat
  <2>0. IsFiniteSet(T)
    BY FS_Subset
  <2>1. SumFunctionOnSet(zero, T) = 0 * SumFunctionOnSet(f, T) + SumFunctionOnSet(zero, T)
    BY <2>0, SumLinear
  <2>2. SumFunctionOnSet(zero, T) = 1 * SumFunctionOnSet(zero, T) + SumFunctionOnSet(zero, T)
    BY <2>0, SumLinear
  <2>3. SumFunctionOnSet(zero, T) \in Int /\ SumFunctionOnSet(f, T) \in Int
    BY <2>0, SumType
  <2>4. SumFunctionOnSet(zero, T) <= SumFunctionOnSet(f, T)
    BY <2>0, SumMonotone
  <2> QED
    BY <2>2, <2>3, <2>4
<1>2. ASSUME NEW s \in S PROVE f[s] <= SumFunctionOnSet(f, S)
  <2>1. SumFunctionOnSet(f, S) = f[s] + SumFunctionOnSet(f, S \ {s})
    BY SumSplit
  <2>2. SumFunctionOnSet(f, S \ {s}) \in Nat
    BY <1>1
  <2> QED
    BY <2>1, <2>2
<1> QED
  BY <1>1, <1>2

\* The sum of a constant counts the elements.
LEMMA SumConstant ==
  ASSUME NEW f, NEW c \in Int, NEW S, IsFiniteSet(S), \A s \in S : f[s] = c
  PROVE  SumFunctionOnSet(f, S) = c * Cardinality(S)
<1> DEFINE Sum(T) == SumFunctionOnSet(f, T)
           P == {T \in SUBSET S : Sum(T) = c * Cardinality(T)}
<1>0. \A T \in SUBSET S : IsFiniteSet(T) /\ Sum(T) \in Int /\ Cardinality(T) \in Nat
  BY FS_Subset, SumType, FS_CardinalityType
<1>1. {} \in P
  <2>1. Sum({}) = 0 /\ Cardinality({}) = 0
    BY SumEmpty, FS_EmptySet
  <2> HIDE DEF Sum
  <2> QED
    BY <2>1
<1>2. ASSUME NEW T \in SUBSET S, T # {}, \A y \in T : T \ {y} \in P
      PROVE  T \in P
  <2>1. PICK y \in T : TRUE
    BY <1>2
  <2> DEFINE R == T \ {y}
  <2>2. Sum(T) = c + Sum(R)
    BY <1>0, SumSplit
  <2>3. Cardinality(R) = Cardinality(T) - 1
    BY <1>0, FS_RemoveElement
  <2>4. Sum(R) = c * Cardinality(R)
    BY <1>2
  <2>5. c * (Cardinality(T) - 1) = c * Cardinality(T) - c
    BY <1>0
  <2>6. c * Cardinality(T) \in Int /\ c * Cardinality(R) \in Int
    BY <1>0
  <2>7. Sum(T) = c * Cardinality(T)
    <3> HIDE DEF Sum
    <3> QED
      BY <2>2, <2>3, <2>4, <2>5, <2>6
  <2> QED
    BY <2>7
<1>3. \A T \in SUBSET S : T \in P
  <2> HIDE DEF P
  <2> QED
    BY <1>1, <1>2, SubsetInduction
<1> QED
  BY <1>3

\* One value more or less.
LEMMA SumChange ==
  ASSUME NEW f, NEW g, NEW S, IsFiniteSet(S), NEW x \in S, g[x] \in Int,
         \A s \in S : f[s] \in Int, \A s \in S \ {x} : g[s] = f[s]
  PROVE  SumFunctionOnSet(g, S) = SumFunctionOnSet(f, S) + g[x] - f[x]
<1>0. IsFiniteSet(S \ {x})
  BY FS_Subset
<1>1. SumFunctionOnSet(f, S \ {x}) = SumFunctionOnSet(g, S \ {x})
  BY <1>0, SumSame
<1>2. \A s \in S : g[s] \in Int
  OBVIOUS
<1>3. SumFunctionOnSet(f, S) = f[x] + SumFunctionOnSet(f, S \ {x})
  BY SumSplit
<1>4. SumFunctionOnSet(g, S) = g[x] + SumFunctionOnSet(g, S \ {x})
  BY <1>2, SumSplit
<1>5. SumFunctionOnSet(f, S \ {x}) \in Int
  BY <1>0, SumType
<1> QED
  BY <1>1, <1>3, <1>4, <1>5

\* What a function is outside a set it vanishes outside of adds nothing.
LEMMA SumRestrict ==
  ASSUME NEW f, NEW S, IsFiniteSet(S), NEW T \in SUBSET S,
         \A s \in S : f[s] \in Int, \A s \in S \ T : f[s] = 0
  PROVE  SumFunctionOnSet(f, S) = SumFunctionOnSet(f, T)
<1> DEFINE Sum(U) == SumFunctionOnSet(f, U)
           P == {U \in SUBSET (S \ T) : Sum(T \cup U) = Sum(T)}
<1>0. IsFiniteSet(S \ T)
  BY FS_Subset
<1>1. {} \in P
  <2>1. T \cup {} = T
    OBVIOUS
  <2> QED
    BY <2>1
<1>2. ASSUME NEW U \in SUBSET (S \ T), U # {}, \A x \in U : U \ {x} \in P
      PROVE  U \in P
  <2>1. PICK x \in U : TRUE
    BY <1>2
  <2>2. Sum(T \cup (U \ {x})) = Sum(T)
    BY <1>2, <2>1
  <2>3. (T \cup U) \ {x} = T \cup (U \ {x}) /\ x \in T \cup U
    BY <2>1
  <2>4. IsFiniteSet(T \cup U) /\ IsFiniteSet(T) /\ \A s \in T \cup U : f[s] \in Int
    <3>1. T \cup U \subseteq S
      OBVIOUS
    <3> QED
      BY <3>1, FS_Subset
  <2>5. Sum(T \cup U) = f[x] + Sum((T \cup U) \ {x})
    BY <2>3, <2>4, SumSplit
  <2>6. f[x] = 0 /\ Sum(T) \in Int
    BY <2>4, SumType
  <2>7. Sum((T \cup U) \ {x}) = Sum(T)
    BY <2>2, <2>3, Zenon
  <2>8. Sum(T \cup U) = 0 + Sum(T)
    BY <2>5, <2>6, <2>7, Zenon
  <2> QED
    BY <2>6, <2>8
<1>3. \A U \in SUBSET (S \ T) : U \in P
  <2> DEFINE D == S \ T
  <2>1. IsFiniteSet(D) /\ {} \in P
    BY <1>0, <1>1
  <2>2. \A U \in SUBSET D : U # {} /\ (\A x \in U : U \ {x} \in P) => U \in P
    BY <1>2
  <2> HIDE DEF P, D
  <2>3. \A U \in SUBSET D : U \in P
    BY <2>1, <2>2, SubsetInduction
  <2> QED
    BY <2>3 DEF D
<1>4. S \ T \in P /\ T \cup (S \ T) = S
  BY <1>3
<1> QED
  BY <1>4

\* A part of the terms, where none is negative, adds up to no more.
LEMMA SumPart ==
  ASSUME NEW f, NEW S, IsFiniteSet(S), NEW T \in SUBSET S, \A s \in S : f[s] \in Nat
  PROVE  SumFunctionOnSet(f, T) <= SumFunctionOnSet(f, S)
<1> DEFINE g == [s \in S |-> IF s \in T THEN f[s] ELSE 0]
<1>1. IsFiniteSet(T)
  BY FS_Subset
<1>2. \A s \in S : g[s] \in Int /\ f[s] \in Int /\ g[s] <= f[s]
  OBVIOUS
<1>3. \A s \in T : f[s] \in Int /\ g[s] = f[s]
  OBVIOUS
<1>4. \A s \in S \ T : g[s] = 0
  OBVIOUS
<1> HIDE DEF g
<1>5. SumFunctionOnSet(g, S) <= SumFunctionOnSet(f, S)
  BY <1>2, SumMonotone
<1>6. SumFunctionOnSet(g, S) = SumFunctionOnSet(g, T)
  BY <1>2, <1>4, SumRestrict
<1>7. SumFunctionOnSet(f, T) = SumFunctionOnSet(g, T)
  BY <1>1, <1>3, SumSame
<1> QED
  BY <1>5, <1>6, <1>7

-----------------------------------------------------------------------------
(* Products and quotients *)

\* A product with a natural number keeps the order of the other factors.
LEMMA MulMono ==
  ASSUME NEW a \in Int, NEW b \in Int, NEW c \in Nat, a <= b
  PROVE  a * c <= b * c /\ a * c \in Int /\ b * c \in Int
<1>1. (b - a) * c >= 0
  OBVIOUS
<1>2. (b - a) * c = b * c - a * c
  OBVIOUS
<1>3. a * c \in Int /\ b * c \in Int
  OBVIOUS
<1> QED
  BY <1>1, <1>2, <1>3

\* A quotient is the last multiple not above the dividend.
LEMMA DivRange ==
  ASSUME NEW a \in Int, NEW b \in Nat \ {0}
  PROVE  /\ a \div b \in Int
         /\ (a \div b) * b <= a
         /\ a < (a \div b) * b + b
  OBVIOUS

\* What bounds a dividend by a multiple bounds the quotient.
LEMMA DivBound ==
  ASSUME NEW a \in Int, NEW b \in Nat \ {0}, NEW c \in Int, a <= c * b
  PROVE  a \div b <= c
<1> DEFINE q == a \div b
<1>1. q \in Int /\ q * b <= a
  BY DivRange
<1> HIDE DEF q
<1>2. SUFFICES ASSUME q >= c + 1 PROVE FALSE
  BY <1>1 DEF q
<1>3. (c + 1) * b <= q * b /\ (c + 1)*b \in Int
  BY <1>1, <1>2, MulMono
<1>4. (c + 1) * b = c * b + b /\ c * b \in Int
  OBVIOUS
<1> QED
  BY <1>1, <1>3, <1>4

\* ... from below as well.
LEMMA DivFloor ==
  ASSUME NEW a \in Int, NEW b \in Nat \ {0}, NEW c \in Int, c * b <= a
  PROVE  c <= a \div b
<1> DEFINE q == a \div b
<1>1. q \in Int /\ a < q * b + b
  BY DivRange
<1> HIDE DEF q
<1>2. SUFFICES ASSUME q + 1 <= c PROVE FALSE
  BY <1>1 DEF q
<1>3. (q + 1) * b <= c * b /\ (q + 1)*b \in Int /\ c * b \in Int
  BY <1>1, <1>2, MulMono
<1>4. (q + 1) * b = q * b + b
  BY <1>1
<1> QED
  BY <1>1, <1>3, <1>4
=============================================================================
