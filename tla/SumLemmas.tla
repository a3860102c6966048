------------------------------ MODULE SumLemmas ------------------------------
(***************************************************************************)
(* What the proofs need to know of SumFunction, the sum of the values of a *)
(* function with a finite domain: it is an integer, it is what its parts   *)
(* add up to in any order, it follows the change of one value, and it      *)
(* grows with the domain.                                                  *)
(*                                                                         *)
(* The fold behind it is a recursive function.  That the recursion has a   *)
(* solution, and what the solution is, is shown by induction on the size   *)
(* of a set, as the absence of a least counterexample (LeastNat).  And that*)
(* powers of two, which the trees are laid out by, are numbers.            *)
(***************************************************************************)
EXTENDS Functions, Integers, WellFoundedInduction, FiniteSetTheorems, TLAPS

LEMMA LeastNat ==
    ASSUME NEW T, T \subseteq Nat, T # {}
    PROVE  \E n \in T : \A m \in T : n <= m
<1>1. PICK n \in T : \A m \in T : ~ (<<m, n>> \in OpToRel(<, Nat))
  BY WFMin, NatLessThanWellFounded, Zenon
<1>2. \A m \in T : ~(m < n)
  BY <1>1 DEF OpToRel
<1> QED
  BY <1>2

\* Induction up to a bound, for a collection of numbers.
LEMMA Climb ==
    ASSUME NEW D \in Nat, NEW C, 0 \in C,
           \A i \in 0..D : i # D /\ i \in C => i + 1 \in C
    PROVE  0..D \subseteq C
<1> DEFINE T == (0..D) \ C
<1> SUFFICES ASSUME T # {} PROVE FALSE
  OBVIOUS
<1>1. PICK n \in T : \A m \in T : n <= m
  <2>1. T \subseteq Nat
    OBVIOUS
  <2> QED
    BY <2>1, LeastNat
<1>2. n # 0 /\ n - 1 \in 0..D /\ n - 1 # D /\ n - 1 \notin T
  BY <1>1
<1>3. (n - 1) + 1 \in C
  BY <1>2
<1> QED
  BY <1>1, <1>3

\* A set without one of its elements is smaller.
LEMMA Without ==
    ASSUME NEW s, IsFiniteSet(s), NEW x \in s
    PROVE  /\ IsFiniteSet(s \ {x})
           /\ Cardinality(s) \in Nat /\ Cardinality(s \ {x}) \in Nat
           /\ Cardinality(s \ {x}) = Cardinality(s) - 1
BY FS_RemoveElement, FS_CardinalityType

\* Induction on the subsets of a finite set: a collection has them all, if it
\* has every one whose subsets with an element less it has.
LEMMA SetInduction ==
    ASSUME NEW D, IsFiniteSet(D), NEW C,
           \A s \in SUBSET D : (\A x \in s : s \ {x} \in C) => s \in C
    PROVE  SUBSET D \subseteq C
<1> DEFINE T == {Cardinality(s) : s \in (SUBSET D) \ C}
<1>1. \A s \in SUBSET D : IsFiniteSet(s) /\ Cardinality(s) \in Nat
  BY FS_Subset, FS_CardinalityType
<1> SUFFICES ASSUME T # {} PROVE FALSE
  OBVIOUS
<1>2. T \subseteq Nat
  BY <1>1
<1>3. PICK n \in T : \A m \in T : n <= m
  BY <1>2, LeastNat
<1>4. PICK s \in (SUBSET D) \ C : n = Cardinality(s)
  OBVIOUS
<1>5. PICK x \in s : s \ {x} \notin C
  BY <1>4
<1>6. Cardinality(s \ {x}) \in T
  BY <1>5
<1>7. n <= Cardinality(s \ {x})
  BY <1>3, <1>6
<1>8. Cardinality(s) \in Nat /\ Cardinality(s \ {x}) = Cardinality(s) - 1
  BY <1>1, Without
<1> QED
  BY <1>4, <1>7, <1>8

-----------------------------------------------------------------------------
(* The iterator of the fold.                                               *)

Picked(s) == CHOOSE x \in s : TRUE

FoldStep(f, it) == [s \in SUBSET DOMAIN f |->
                   IF s = {} THEN 0 ELSE f[Picked(s)] + it[s \ {Picked(s)}]]

FoldIterator(f) == CHOOSE it : it = FoldStep(f, it)

LEMMA SumIsIterated ==
    ASSUME NEW f
    PROVE  SumFunction(f) = FoldIterator(f)[DOMAIN f]
BY DEF SumFunction, SumFunctionOnSet, FoldFunctionOnSet, MapThenFoldSet,
       FoldIterator, FoldStep, Picked

SumsUpTo(f, it, n) ==
    \A s \in SUBSET DOMAIN f : Cardinality(s) <= n => it[s] = FoldStep(f, it)[s]

\* One round of the recursion takes sets of one element more.
LEMMA OneRound ==
    ASSUME NEW f, IsFiniteSet(DOMAIN f), NEW n \in Nat, NEW it, SumsUpTo(f, it, n)
    PROVE  SumsUpTo(f, FoldStep(f, it), n + 1)
<1> DEFINE next == FoldStep(f, it)
<1> SUFFICES ASSUME NEW s \in SUBSET DOMAIN f, Cardinality(s) <= n + 1
             PROVE  next[s] = FoldStep(f, next)[s]
  BY DEF SumsUpTo
<1>1. CASE s = {}
  BY <1>1 DEF FoldStep
<1>2. CASE s # {}
  <2> DEFINE x == Picked(s)
  <2>1. x \in s
    BY <1>2 DEF Picked
  <2>2. IsFiniteSet(s)
    BY FS_Subset
  <2>3. s \ {x} \in SUBSET DOMAIN f /\ Cardinality(s \ {x}) <= n
    BY <2>1, <2>2, Without
  <2>4. next[s \ {x}] = it[s \ {x}]
    BY <2>3 DEF SumsUpTo, FoldStep
  <2>5. next[s] = f[x] + it[s \ {x}]
    BY <1>2 DEF FoldStep
  <2>6. FoldStep(f, next)[s] = f[x] + next[s \ {x}]
    BY <1>2 DEF FoldStep
  <2> QED
    BY <2>4, <2>5, <2>6
<1> QED
  BY <1>1, <1>2

LEMMA AnyRounds ==
    ASSUME NEW f, IsFiniteSet(DOMAIN f), NEW n \in Nat
    PROVE  \E it : SumsUpTo(f, it, n)
<1> DEFINE Not == {k \in Nat : ~ \E it : SumsUpTo(f, it, k)}
<1> SUFFICES ASSUME Not # {} PROVE FALSE
  OBVIOUS
<1>1. PICK k \in Not : \A j \in Not : k <= j
  BY LeastNat
<1>2. k \in Nat /\ ~ \E it : SumsUpTo(f, it, k)
  OBVIOUS
<1>3. CASE k = 0
  <2> DEFINE zero == [s \in SUBSET DOMAIN f |-> 0]
  <2>1. ASSUME NEW s \in SUBSET DOMAIN f, Cardinality(s) <= 0 PROVE s = {}
    <3>1. IsFiniteSet(s)
      BY FS_Subset
    <3> QED
      BY <2>1, <3>1, FS_CardinalityType, FS_EmptySet
  <2>2. SumsUpTo(f, zero, 0)
    BY <2>1 DEF SumsUpTo, FoldStep
  <2> QED
    BY <1>2, <1>3, <2>2
<1>4. CASE k # 0
  <2>1. k - 1 \in Nat /\ k - 1 \notin Not
    BY <1>1, <1>2, <1>4
  <2>2. PICK it : SumsUpTo(f, it, k - 1)
    BY <2>1
  <2>3. SumsUpTo(f, FoldStep(f, it), (k - 1) + 1)
    BY <2>1, <2>2, OneRound
  <2>4. (k - 1) + 1 = k
    BY <1>2
  <2> QED
    BY <1>2, <2>3, <2>4
<1> QED
  BY <1>3, <1>4

LEMMA IteratorSolves ==
    ASSUME NEW f, IsFiniteSet(DOMAIN f)
    PROVE  FoldIterator(f) = FoldStep(f, FoldIterator(f))
<1> DEFINE n == Cardinality(DOMAIN f)
<1>1. n \in Nat
  BY FS_CardinalityType
<1>2. PICK it : SumsUpTo(f, it, n)
  BY <1>1, AnyRounds
<1> DEFINE g == FoldStep(f, it)
<1>3. \A s \in SUBSET DOMAIN f : it[s] = g[s]
  <2> SUFFICES ASSUME NEW s \in SUBSET DOMAIN f PROVE it[s] = g[s]
    OBVIOUS
  <2>1. Cardinality(s) <= n
    BY FS_Subset
  <2> QED
    BY <1>2, <2>1 DEF SumsUpTo
<1>4. g = FoldStep(f, g)
  <2>1. \A s \in SUBSET DOMAIN f : s # {} => s \ {Picked(s)} \in SUBSET DOMAIN f
    OBVIOUS
  <2>2. \A s \in SUBSET DOMAIN f :
           (IF s = {} THEN 0 ELSE f[Picked(s)] + it[s \ {Picked(s)}])
              = (IF s = {} THEN 0 ELSE f[Picked(s)] + g[s \ {Picked(s)}])
    BY <1>3, <2>1
  <2> QED
    BY <2>2 DEF FoldStep
<1> QED
  BY <1>4 DEF FoldIterator

-----------------------------------------------------------------------------
(* Sums of integers.                                                       *)

\* it[s] is the sum over s, taken in any order.
Adds(D, f, it) ==
    /\ it \in [SUBSET D -> Int]
    /\ it[{}] = 0
    /\ \A s \in SUBSET D : \A x \in s : it[s] = f[x] + it[s \ {x}]

LEMMA IteratorAdds ==
    ASSUME NEW D, IsFiniteSet(D), NEW f \in [D -> Int]
    PROVE  Adds(D, f, FoldIterator(f))
<1> DEFINE it == FoldIterator(f)
<1>1. it = [s \in SUBSET D |->
               IF s = {} THEN 0 ELSE f[Picked(s)] + it[s \ {Picked(s)}]]
  BY IteratorSolves DEF FoldStep
<1> HIDE DEF it
<1>2. it[{}] = 0
  BY <1>1
<1>3. ASSUME NEW s \in SUBSET D, s # {}
      PROVE  /\ Picked(s) \in s /\ s \ {Picked(s)} \in SUBSET D
             /\ it[s] = f[Picked(s)] + it[s \ {Picked(s)}]
  <2>1. Picked(s) \in s
    BY <1>3 DEF Picked
  <2> QED
    BY <1>1, <1>3, <2>1
<1>4. \A s \in SUBSET D : it[s] \in Int
  <2> DEFINE C == {s \in SUBSET D : it[s] \in Int}
  <2>1. ASSUME NEW s \in SUBSET D, \A x \in s : s \ {x} \in C PROVE s \in C
    <3>1. CASE s = {}
      BY <1>2, <3>1
    <3>2. CASE s # {}
      <4>1. /\ Picked(s) \in s
            /\ it[s] = f[Picked(s)] + it[s \ {Picked(s)}]
        BY <1>3, <3>2
      <4>2. f[Picked(s)] \in Int /\ it[s \ {Picked(s)}] \in Int
        BY <2>1, <4>1
      <4> QED
        BY <4>1, <4>2
    <3> QED
      BY <3>1, <3>2
  <2> HIDE DEF C
  <2>2. SUBSET D \subseteq C
    BY <2>1, SetInduction
  <2> QED
    BY <2>2 DEF C
<1>5. \A s \in SUBSET D : \A x \in s : it[s] = f[x] + it[s \ {x}]
  <2> DEFINE C == {s \in SUBSET D : \A x \in s : it[s] = f[x] + it[s \ {x}]}
  <2>1. ASSUME NEW s \in SUBSET D, \A x \in s : s \ {x} \in C PROVE s \in C
    <3> SUFFICES ASSUME NEW x \in s PROVE it[s] = f[x] + it[s \ {x}]
      OBVIOUS
    <3> DEFINE y == Picked(s)
    <3>1. y \in s /\ it[s] = f[y] + it[s \ {y}]
      BY <1>3
    <3> HIDE DEF y
    <3>2. CASE x = y
      BY <3>1, <3>2
    <3>3. CASE x # y
      <4>1. it[s \ {y}] = f[x] + it[(s \ {y}) \ {x}]
        BY <2>1, <3>1, <3>3
      <4>2. it[s \ {x}] = f[y] + it[(s \ {x}) \ {y}]
        BY <2>1, <3>1, <3>3
      <4>3. (s \ {y}) \ {x} = (s \ {x}) \ {y}
        OBVIOUS
      <4>4. f[x] \in Int /\ f[y] \in Int /\ it[(s \ {x}) \ {y}] \in Int
        BY <1>4, <3>1
      <4> DEFINE z == it[(s \ {x}) \ {y}]
      <4>5. it[s] = f[y] + (f[x] + z) /\ f[x] + it[s \ {x}] = f[x] + (f[y] + z)
        BY <3>1, <4>1, <4>2, <4>3
      <4>6. f[y] + (f[x] + z) = f[x] + (f[y] + z)
        <5> HIDE DEF z
        <5> QED
          BY <4>4 DEF z
      <4> QED
        BY <4>5, <4>6
    <3> QED
      BY <3>2, <3>3
  <2> HIDE DEF C
  <2>2. SUBSET D \subseteq C
    BY <2>1, SetInduction
  <2> QED
    BY <2>2 DEF C
<1>6. it \in [SUBSET D -> Int]
  BY <1>1, <1>4
<1> QED
  BY <1>2, <1>5, <1>6 DEF Adds, it

LEMMA SumAdds ==
    ASSUME NEW D, IsFiniteSet(D), NEW f \in [D -> Int]
    PROVE  \E it : Adds(D, f, it) /\ SumFunction(f) = it[D]
BY IteratorAdds, SumIsIterated

LEMMA SumInt ==
    ASSUME NEW D, IsFiniteSet(D), NEW f \in [D -> Int]
    PROVE  SumFunction(f) \in Int
<1>1. PICK it : Adds(D, f, it) /\ SumFunction(f) = it[D]
  BY SumAdds
<1> QED
  BY <1>1 DEF Adds

\* Functions that agree on a set have the same sum over it.
LEMMA SameSums ==
    ASSUME NEW D, IsFiniteSet(D), NEW f \in [D -> Int], NEW g \in [D -> Int],
           NEW it, Adds(D, f, it), NEW jt, Adds(D, g, jt),
           NEW S \in SUBSET D, \A x \in S : f[x] = g[x]
    PROVE  it[S] = jt[S]
<1> DEFINE C == {s \in SUBSET S : it[s] = jt[s]}
<1>1. ASSUME NEW s \in SUBSET S, \A x \in s : s \ {x} \in C PROVE s \in C
  <2>1. CASE s = {}
    BY <2>1 DEF Adds
  <2>2. CASE s # {}
    <3>1. PICK x \in s : TRUE
      BY <2>2
    <3>2. it[s] = f[x] + it[s \ {x}] /\ jt[s] = g[x] + jt[s \ {x}]
      BY DEF Adds
    <3> QED
      BY <1>1, <3>2
  <2> QED
    BY <2>1, <2>2
<1>2. IsFiniteSet(S)
  BY FS_Subset
<1> HIDE DEF C
<1>3. SUBSET S \subseteq C
  BY <1>1, <1>2, SetInduction
<1> QED
  BY <1>3 DEF C

\* One value changes, and the sum by as much.
LEMMA SumChange ==
    ASSUME NEW D, IsFiniteSet(D), NEW f \in [D -> Int], NEW g \in [D -> Int],
           NEW x \in D, \A y \in D \ {x} : g[y] = f[y]
    PROVE  SumFunction(g) = SumFunction(f) + (g[x] - f[x])
<1>1. PICK it : Adds(D, f, it) /\ SumFunction(f) = it[D]
  BY SumAdds
<1>2. PICK jt : Adds(D, g, jt) /\ SumFunction(g) = jt[D]
  BY SumAdds
<1>3. it[D \ {x}] = jt[D \ {x}]
  BY <1>1, <1>2, SameSums
<1>4. it[D] = f[x] + it[D \ {x}] /\ jt[D] = g[x] + jt[D \ {x}] /\ it[D \ {x}] \in Int
  BY <1>1, <1>2 DEF Adds
<1>5. f[x] \in Int /\ g[x] \in Int
  OBVIOUS
<1> QED
  BY <1>1, <1>2, <1>3, <1>4, <1>5

LEMMA SumZero ==
    ASSUME NEW D, IsFiniteSet(D), NEW f \in [D -> Int], \A x \in D : f[x] = 0
    PROVE  SumFunction(f) = 0
<1>1. PICK it : Adds(D, f, it) /\ SumFunction(f) = it[D]
  BY SumAdds
<1> DEFINE C == {s \in SUBSET D : it[s] = 0}
<1>2. ASSUME NEW s \in SUBSET D, \A x \in s : s \ {x} \in C PROVE s \in C
  <2>1. CASE s = {}
    BY <1>1, <2>1 DEF Adds
  <2>2. CASE s # {}
    <3>1. PICK x \in s : TRUE
      BY <2>2
    <3>2. it[s] = f[x] + it[s \ {x}]
      BY <1>1 DEF Adds
    <3> QED
      BY <1>2, <3>2
  <2> QED
    BY <2>1, <2>2
<1> HIDE DEF C
<1>3. SUBSET D \subseteq C
  BY <1>2, SetInduction
<1> QED
  BY <1>1, <1>3 DEF C

\* A value is no more than a sum without negative ones.
LEMMA SumBounds ==
    ASSUME NEW D, IsFiniteSet(D), NEW f \in [D -> Nat]
    PROVE  SumFunction(f) \in Nat /\ \A x \in D : f[x] <= SumFunction(f)
<1>0. f \in [D -> Int]
  OBVIOUS
<1>1. PICK it : Adds(D, f, it) /\ SumFunction(f) = it[D]
  BY <1>0, SumAdds
<1> DEFINE C == {s \in SUBSET D : it[s] \in Nat}
<1>2. ASSUME NEW s \in SUBSET D, \A x \in s : s \ {x} \in C PROVE s \in C
  <2>1. CASE s = {}
    BY <1>1, <2>1 DEF Adds
  <2>2. CASE s # {}
    <3>1. PICK x \in s : TRUE
      BY <2>2
    <3>2. it[s] = f[x] + it[s \ {x}]
      BY <1>1 DEF Adds
    <3>3. f[x] \in Nat /\ it[s \ {x}] \in Nat
      BY <1>2
    <3> QED
      BY <3>2, <3>3
  <2> QED
    BY <2>1, <2>2
<1> HIDE DEF C
<1>3. SUBSET D \subseteq C
  BY <1>2, SetInduction
<1>4. \A s \in SUBSET D : it[s] \in Nat
  BY <1>3 DEF C
<1>5. ASSUME NEW x \in D PROVE f[x] <= it[D]
  <2>1. it[D] = f[x] + it[D \ {x}] /\ it[D \ {x}] \in Nat /\ f[x] \in Nat
    BY <1>1, <1>4 DEF Adds
  <2> QED
    BY <2>1
<1> QED
  BY <1>1, <1>4, <1>5

\* g is f with a value more, at x.
Widened(D, f, x, E, g) ==
    /\ IsFiniteSet(D) /\ x \notin D /\ E = D \cup {x}
    /\ f \in [D -> Int] /\ g \in [E -> Int]
    /\ \A y \in D : g[y] = f[y]

LEMMA SumGrows ==
    ASSUME NEW D, NEW f, NEW x, NEW E, NEW g, Widened(D, f, x, E, g)
    PROVE  SumFunction(g) = SumFunction(f) + g[x]
<1> USE DEF Widened
<1>0. IsFiniteSet(E)
  BY FS_AddElement
<1>1. PICK it : Adds(D, f, it) /\ SumFunction(f) = it[D]
  BY SumAdds
<1>2. PICK jt : Adds(E, g, jt) /\ SumFunction(g) = jt[E]
  BY <1>0, SumAdds
<1> DEFINE h == [y \in D |-> g[y]]
           kt == [s \in SUBSET D |-> jt[s]]
<1>3. Adds(D, h, kt)
  <2>1. SUBSET D \subseteq SUBSET E
    OBVIOUS
  <2>2. kt \in [SUBSET D -> Int]
    BY <1>2, <2>1 DEF Adds
  <2>3. kt[{}] = 0
    BY <1>2 DEF Adds
  <2>4. ASSUME NEW s \in SUBSET D, NEW y \in s PROVE kt[s] = h[y] + kt[s \ {y}]
    <3>1. jt[s] = g[y] + jt[s \ {y}]
      BY <1>2, <2>1 DEF Adds
    <3>2. s \ {y} \in SUBSET D /\ y \in D
      OBVIOUS
    <3> QED
      BY <3>1, <3>2
  <2> HIDE DEF h, kt
  <2> QED
    BY <2>2, <2>3, <2>4 DEF Adds
<1>4. h \in [D -> Int] /\ D \in SUBSET D /\ \A y \in D : f[y] = h[y]
  OBVIOUS
<1>5. it[D] = kt[D]
  <2> HIDE DEF h, kt
  <2> QED
    BY <1>1, <1>3, <1>4, SameSums
<1>6. kt[D] = jt[D]
  BY <1>4
<1>7. jt[E] = g[x] + jt[E \ {x}] /\ E \ {x} = D
  BY <1>2 DEF Adds
<1>8. it[D] \in Int /\ g[x] \in Int
  BY <1>1 DEF Adds
<1> HIDE DEF h, kt
<1>9. E \ {x} = D
  BY <1>7
<1>10. jt[E] = g[x] + it[D]
  BY <1>5, <1>6, <1>7, <1>9
<1> QED
  BY <1>1, <1>2, <1>8, <1>10

LEMMA SumLess ==
    ASSUME NEW D, IsFiniteSet(D), NEW f \in [D -> Int], NEW g \in [D -> Int],
           \A y \in D : f[y] <= g[y]
    PROVE  SumFunction(f) <= SumFunction(g)
<1>1. PICK it : Adds(D, f, it) /\ SumFunction(f) = it[D]
  BY SumAdds
<1>2. PICK jt : Adds(D, g, jt) /\ SumFunction(g) = jt[D]
  BY SumAdds
<1> DEFINE C == {s \in SUBSET D : it[s] <= jt[s]}
<1>3. ASSUME NEW s \in SUBSET D, \A x \in s : s \ {x} \in C PROVE s \in C
  <2>1. CASE s = {}
    BY <1>1, <1>2, <2>1 DEF Adds
  <2>2. CASE s # {}
    <3>1. PICK x \in s : TRUE
      BY <2>2
    <3>2. /\ it[s] = f[x] + it[s \ {x}] /\ jt[s] = g[x] + jt[s \ {x}]
          /\ it[s \ {x}] \in Int /\ jt[s \ {x}] \in Int
      BY <1>1, <1>2 DEF Adds
    <3>3. it[s \ {x}] <= jt[s \ {x}] /\ f[x] <= g[x] /\ f[x] \in Int /\ g[x] \in Int
      BY <1>3
    <3> QED
      BY <3>2, <3>3
  <2> QED
    BY <2>1, <2>2
<1> HIDE DEF C
<1>4. SUBSET D \subseteq C
  BY <1>3, SetInduction
<1> QED
  BY <1>1, <1>2, <1>4 DEF C

\* Where one value is smaller by v, so is the sum.
LEMMA SumDrops ==
    ASSUME NEW D, IsFiniteSet(D), NEW f \in [D -> Int], NEW g \in [D -> Int],
           \A y \in D : f[y] <= g[y], NEW x \in D, NEW v \in Int, f[x] + v <= g[x]
    PROVE  SumFunction(f) + v <= SumFunction(g)
<1> DEFINE h == [f EXCEPT ![x] = f[x] + v]
<1>1. h \in [D -> Int] /\ h[x] = f[x] + v /\ \A y \in D \ {x} : h[y] = f[y]
  OBVIOUS
<1> HIDE DEF h
<1>2. SumFunction(h) = SumFunction(f) + (h[x] - f[x])
  BY <1>1, SumChange
<1>3. \A y \in D : h[y] <= g[y]
  BY <1>1
<1>4. SumFunction(h) <= SumFunction(g)
  BY <1>1, <1>3, SumLess
<1>5. SumFunction(f) \in Int /\ SumFunction(g) \in Int /\ f[x] \in Int
  BY SumInt
<1> QED
  BY <1>1, <1>2, <1>4, <1>5

\* Powers of two, as the number of subsets.
LEMMA PowNat ==
    ASSUME NEW n \in Nat
    PROVE  2^n \in Nat /\ Cardinality(SUBSET (1..n)) = 2^n /\ IsFiniteSet(SUBSET (1..n))
<1>1. IsFiniteSet(1..n) /\ Cardinality(1..n) = n
  <2>1. 1 \in Int /\ n \in Int
    OBVIOUS
  <2>2. Cardinality(1..n) = IF 1 > n THEN 0 ELSE n - 1 + 1
    BY <2>1, FS_Interval
  <2> QED
    BY <2>1, <2>2, FS_Interval
<1> QED
  BY <1>1, FS_SUBSET, FS_CardinalityType
=============================================================================
