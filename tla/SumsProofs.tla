------------------------------ MODULE SumsProofs ------------------------------
(***************************************************************************)
(* What the sum of a finite function is.  The fold that computes it takes  *)
(* an element chosen of each set; induction over the sets, by the smallest *)
(* counterexample of a well-founded order, shows that the order in which   *)
(* elements are taken does not matter, and what a change of an entry does. *)
(***************************************************************************)
EXTENDS Sums, FiniteSetTheorems, WellFoundedInduction, TLAPS

--------------------------------------------------------------------------------
(* The fold *)

\* The element that the fold takes next.
Pick(s) == CHOOSE x \in s : TRUE

\* The fold's recursion, on the subsets given.
Folded(g, f, subsets) ==
  g = [s \in subsets |-> IF s = {} THEN 0 ELSE f[Pick(s)] + g[s \ {Pick(s)}]]

\* A sum for each set of elements: it can be taken in any order.
Adds(g, f, D) ==
  /\ g \in [SUBSET D -> Int]
  /\ g[{}] = 0
  /\ \A s \in SUBSET D : \A x \in s : g[s] = f[x] + g[s \ {x}]

\* A set of numbers that has 0 and each successor is all of Nat.
LEMMA Induction ==
  ASSUME NEW N \in SUBSET Nat, 0 \in N, \A n \in N : n + 1 \in N
  PROVE  N = Nat
<1> SUFFICES ASSUME N # Nat PROVE FALSE
  OBVIOUS
<1>1. Nat \ N \subseteq Nat /\ Nat \ N # {}
  OBVIOUS
<1>2. PICK m \in Nat \ N : \A k \in Nat \ N : ~(<<k, m>> \in OpToRel(<, Nat))
  BY <1>1, NatLessThanWellFounded, WFMin, Zenon
<1>3. \A k \in Nat : k < m => <<k, m>> \in OpToRel(<, Nat)
  BY DEF OpToRel
<1>4. m # 0 /\ m - 1 \in Nat /\ m - 1 < m
  OBVIOUS
<1>5. m - 1 \in N
  BY <1>2, <1>3, <1>4
<1> QED
  BY <1>5, <1>4

\* A family of finite sets that has a set whenever it has all that are one smaller.
LEMMA SetInduction ==
  ASSUME NEW D, IsFiniteSet(D), NEW F \in SUBSET (SUBSET D),
         \A T \in SUBSET D : (\A x \in T : T \ {x} \in F) => T \in F
  PROVE  F = SUBSET D
<1> SUFFICES ASSUME F # SUBSET D PROVE FALSE
  OBVIOUS
<1> DEFINE Bad == (SUBSET D) \ F
<1>1. Bad \subseteq SUBSET D /\ Bad # {}
  OBVIOUS
<1>2. IsWellFoundedOn(StrictSubsetOrdering(D), SUBSET D)
  <2>1. FiniteSubsetsOf(D) = SUBSET D
    BY FS_FiniteSubsetsOfFinite
  <2>2. IsWellFoundedOn(StrictSubsetOrdering(D), FiniteSubsetsOf(D))
    BY FS_StrictSubsetOrderingWellFounded
  <2> QED
    BY <2>1, <2>2, Zenon
<1>3. PICK T \in Bad : \A U \in Bad : ~(<<U, T>> \in StrictSubsetOrdering(D))
  <2> HIDE DEF Bad
  <2> QED
    BY <1>1, <1>2, WFMin, Zenon
<1>4. \A x \in T : <<T \ {x}, T>> \in StrictSubsetOrdering(D)
  BY DEF StrictSubsetOrdering
<1>5. \A x \in T : T \ {x} \in F
  BY <1>3, <1>4
<1> QED
  BY <1>3, <1>5

\* The recursion has a solution.
LEMMA FoldExists ==
  ASSUME NEW D, IsFiniteSet(D), NEW f \in [D -> Int]
  PROVE  \E g : Folded(g, f, SUBSET D)
<1> DEFINE Level(n) == {s \in SUBSET D : Cardinality(s) <= n}
           Solved == {n \in Nat : \E g \in [Level(n) -> Int] : Folded(g, f, Level(n))}
<1>0. \A s \in SUBSET D : IsFiniteSet(s) /\ Cardinality(s) \in Nat
  BY FS_Subset, FS_CardinalityType
<1>p. \A s \in SUBSET D : s # {} => Pick(s) \in s
  BY DEF Pick
<1>1. 0 \in Solved
  <2>1. Level(0) = {{}}
    BY <1>0, FS_EmptySet
  <2>2. [s \in {{}} |-> 0] \in [{{}} -> Int] /\ Folded([s \in {{}} |-> 0], f, {{}})
    BY DEF Folded
  <2> QED
    BY <2>1, <2>2
<1>2. \A n \in Solved : n + 1 \in Solved
  <2> TAKE n \in Solved
  <2>1. PICK g \in [Level(n) -> Int] : Folded(g, f, Level(n))
    OBVIOUS
  <2>2. \A s \in Level(n + 1) : s # {} => s \ {Pick(s)} \in Level(n)
    <3> TAKE s \in Level(n + 1)
    <3> HAVE s # {}
    <3>1. Cardinality(s \ {Pick(s)}) = Cardinality(s) - 1
      BY <1>0, <1>p, FS_RemoveElement
    <3> QED
      BY <3>1, <1>0
  <2> DEFINE h == [s \in Level(n + 1) |-> IF s = {} THEN 0 ELSE f[Pick(s)] + g[s \ {Pick(s)}]]
  <2>3. h \in [Level(n + 1) -> Int]
    BY <2>2, <1>p
  <2>4. \A s \in Level(n) : s \in Level(n + 1) /\ h[s] = g[s]
    <3> TAKE s \in Level(n)
    <3>1. s \in Level(n + 1)
      BY <1>0
    <3>2. g[s] = IF s = {} THEN 0 ELSE f[Pick(s)] + g[s \ {Pick(s)}]
      BY <2>1, Zenon DEF Folded
    <3>3. h[s] = IF s = {} THEN 0 ELSE f[Pick(s)] + g[s \ {Pick(s)}]
      BY <3>1, Zenon
    <3> QED
      BY <3>1, <3>2, <3>3, Zenon
  <2>5. Folded(h, f, Level(n + 1))
    BY <2>2, <2>4 DEF Folded
  <2> HIDE DEF h, Level
  <2> QED
    BY <2>3, <2>5
<1>3. Solved = Nat
  BY <1>1, <1>2, Induction
<1>4. Level(Cardinality(D)) = SUBSET D
  BY <1>0, FS_Subset
<1>5. Cardinality(D) \in Solved
  BY <1>0, <1>3
<1>6. \E g \in [Level(Cardinality(D)) -> Int] : Folded(g, f, Level(Cardinality(D)))
  <2> HIDE DEF Level
  <2> QED
    BY <1>5
<1> QED
  BY <1>4, <1>6, Zenon

\* What the fold gives does not depend on the order in which it takes the elements.
LEMMA FoldDrops ==
  ASSUME NEW D, IsFiniteSet(D), NEW f \in [D -> Int], NEW g, Folded(g, f, SUBSET D)
  PROVE  Adds(g, f, D)
<1>p. \A s \in SUBSET D : s # {} => Pick(s) \in s
  BY DEF Pick
<1>0. \A s \in SUBSET D : g[s] = IF s = {} THEN 0 ELSE f[Pick(s)] + g[s \ {Pick(s)}]
  BY Zenon DEF Folded
<1>1. g[{}] = 0
  BY <1>0
<1>2. \A s \in SUBSET D : g[s] \in Int
  <2> DEFINE Whole == {s \in SUBSET D : g[s] \in Int}
  <2>1. ASSUME NEW T \in SUBSET D, \A x \in T : T \ {x} \in Whole
        PROVE  T \in Whole
    <3>1. CASE T = {}
      BY <1>1, <3>1
    <3>2. CASE T # {}
      <4>1. Pick(T) \in T /\ f[Pick(T)] \in Int /\ g[T] = f[Pick(T)] + g[T \ {Pick(T)}]
        BY <1>0, <1>p, <3>2
      <4>2. g[T \ {Pick(T)}] \in Int
        BY <2>1, <4>1
      <4> QED
        BY <4>1, <4>2
    <3> QED
      BY <3>1, <3>2
  <2>2. Whole = SUBSET D
    <3> HIDE DEF Whole
    <3>1. Whole \in SUBSET (SUBSET D)
      BY DEF Whole
    <3> QED
      BY <2>1, <3>1, SetInduction, Zenon
  <2> QED
    BY <2>2
<1>3. \A s \in SUBSET D : \A x \in s : g[s] = f[x] + g[s \ {x}]
  <2> DEFINE Free == {s \in SUBSET D : \A x \in s : g[s] = f[x] + g[s \ {x}]}
  <2>1. ASSUME NEW T \in SUBSET D, \A x \in T : T \ {x} \in Free
        PROVE  T \in Free
    <3> SUFFICES ASSUME NEW x \in T PROVE g[T] = f[x] + g[T \ {x}]
      OBVIOUS
    <3> DEFINE p == Pick(T)
    <3>1. p \in T /\ g[T] = f[p] + g[T \ {p}]
      BY <1>0, <1>p
    <3>2. CASE p = x
      BY <3>1, <3>2
    <3>3. CASE p # x
      <4> HIDE DEF p
      <4>1. g[T \ {p}] = f[x] + g[(T \ {p}) \ {x}]
        BY <2>1, <3>1, <3>3
      <4>2. g[T \ {x}] = f[p] + g[(T \ {x}) \ {p}]
        BY <2>1, <3>1, <3>3
      <4>3. g[(T \ {p}) \ {x}] = g[(T \ {x}) \ {p}]
        <5>1. (T \ {p}) \ {x} = (T \ {x}) \ {p}
          OBVIOUS
        <5> QED
          BY <5>1, Zenon
      <4>4. f[p] \in Int /\ f[x] \in Int /\ g[(T \ {x}) \ {p}] \in Int
        BY <1>2, <3>1
      <4> QED
        BY <3>1, <4>1, <4>2, <4>3, <4>4
    <3> QED
      BY <3>2, <3>3
  <2>2. Free = SUBSET D
    <3> HIDE DEF Free
    <3>1. Free \in SUBSET (SUBSET D)
      BY DEF Free
    <3> QED
      BY <2>1, <3>1, SetInduction, Zenon
  <2> QED
    BY <2>2
<1>4. g = [s \in SUBSET D |-> g[s]]
  BY Zenon DEF Folded
<1> QED
  BY <1>1, <1>2, <1>3, <1>4 DEF Adds

\* SumOver is what the fold gives for all of the domain.
LEMMA SumIsFold ==
  ASSUME NEW D, IsFiniteSet(D), NEW f \in [D -> Int]
  PROVE  \E g : Folded(g, f, SUBSET D) /\ SumOver(f) = g[D]
<1> DEFINE Fold == CHOOSE g : Folded(g, f, SUBSET D)
<1>1. Folded(Fold, f, SUBSET D)
  BY FoldExists, Zenon
<1>2. SumOver(f) = Fold[D]
  BY Zenon DEF SumOver, MapThenSumSet, MapThenFoldSet, Folded, Pick
<1> QED
  BY <1>1, <1>2, Zenon

--------------------------------------------------------------------------------
(* The sum *)

\* A sum of whole numbers is one.
LEMMA SumInt ==
  ASSUME NEW D, IsFiniteSet(D), NEW f \in [D -> Int]
  PROVE  SumOver(f) \in Int
<1>1. PICK g : Folded(g, f, SUBSET D) /\ SumOver(f) = g[D]
  BY SumIsFold, Zenon
<1>2. Adds(g, f, D)
  BY <1>1, FoldDrops, Zenon
<1> QED
  BY <1>1, <1>2 DEF Adds

\* Nothing adds up to 0.
LEMMA SumEmpty ==
  ASSUME NEW f \in [{} -> Int]
  PROVE  SumOver(f) = 0
<1>1. IsFiniteSet({})
  BY FS_EmptySet
<1>2. PICK g : Folded(g, f, SUBSET {}) /\ SumOver(f) = g[{}]
  BY <1>1, SumIsFold, Zenon
<1>3. Adds(g, f, {})
  BY <1>1, <1>2, FoldDrops, Zenon
<1> QED
  BY <1>2, <1>3 DEF Adds

\* An element can be taken out of a sum.
LEMMA SumDrop ==
  ASSUME NEW D, IsFiniteSet(D), NEW f \in [D -> Int], NEW d \in D
  PROVE  SumOver(f) = f[d] + SumOver([x \in D \ {d} |-> f[x]])
<1> DEFINE E == D \ {d}
           h == [x \in E |-> f[x]]
<1>1. IsFiniteSet(E) /\ E \subseteq D
  BY FS_RemoveElement
<1>2. h \in [E -> Int] /\ \A x \in E : f[x] = h[x]
  OBVIOUS
<1>3. PICK g : Folded(g, f, SUBSET D) /\ SumOver(f) = g[D]
  BY SumIsFold, Zenon
<1> HIDE DEF E, h
<1>4. PICK k : Folded(k, h, SUBSET E) /\ SumOver(h) = k[E]
  BY <1>1, <1>2, SumIsFold, Zenon
<1>5. Adds(g, f, D) /\ Adds(k, h, E)
  <2>1. Adds(g, f, D)
    BY <1>3, FoldDrops, Zenon
  <2>2. Adds(k, h, E)
    BY <1>1, <1>2, <1>4, FoldDrops, Zenon
  <2> QED
    BY <2>1, <2>2
<1>6. g[D] = f[d] + g[E]
  BY <1>5 DEF Adds, E
<1>7. g[E] = k[E]
  <2> DEFINE Same == {s \in SUBSET E : g[s] = k[s]}
  <2>1. ASSUME NEW T \in SUBSET E, \A x \in T : T \ {x} \in Same
        PROVE  T \in Same
    <3>1. CASE T = {}
      BY <3>1, <1>5 DEF Adds
    <3>2. CASE T # {}
      <4>1. PICK x \in T : TRUE
        BY <3>2
      <4>2. g[T] = f[x] + g[T \ {x}]
        BY <1>1, <1>5 DEF Adds
      <4>3. k[T] = h[x] + k[T \ {x}]
        BY <1>5 DEF Adds
      <4> QED
        BY <4>2, <4>3, <1>2, <2>1
    <3> QED
      BY <3>1, <3>2
  <2>2. Same = SUBSET E
    <3> HIDE DEF Same
    <3>1. Same \in SUBSET (SUBSET E)
      BY DEF Same
    <3> QED
      BY <1>1, <2>1, <3>1, SetInduction, Zenon
  <2> QED
    BY <2>2
<1> QED
  BY <1>3, <1>4, <1>6, <1>7 DEF E, h

\* A change of one entry changes the sum by as much.
LEMMA SumChange ==
  ASSUME NEW D, IsFiniteSet(D), NEW f \in [D -> Int], NEW h \in [D -> Int], NEW d \in D,
         \A x \in D \ {d} : h[x] = f[x]
  PROVE  SumOver(h) = SumOver(f) - f[d] + h[d]
<1>1. \A e \in [D -> Int] : SumOver(e) = e[d] + SumOver([x \in D \ {d} |-> e[x]])
  BY ONLY IsFiniteSet(D), d \in D, SumDrop, Zenon
<1>2. SumOver(f) = f[d] + SumOver([x \in D \ {d} |-> f[x]])
  BY <1>1, Zenon
<1>3. SumOver(h) = h[d] + SumOver([x \in D \ {d} |-> h[x]])
  BY <1>1, Zenon
<1>4. [x \in D \ {d} |-> f[x]] = [x \in D \ {d} |-> h[x]]
  OBVIOUS
<1>5. IsFiniteSet(D \ {d}) /\ [x \in D \ {d} |-> f[x]] \in [D \ {d} -> Int]
  BY FS_RemoveElement
<1>6. SumOver([x \in D \ {d} |-> f[x]]) \in Int
  BY <1>5, SumInt, Zenon
<1> QED
  BY <1>2, <1>3, <1>4, <1>6

\* The sum over some of the entries, with an entry taken.
LEMMA SumPart ==
  ASSUME NEW D, IsFiniteSet(D), NEW f \in [D -> Int], NEW T \in SUBSET D
  PROVE  /\ SumOver([x \in T |-> f[x]]) \in Int
         /\ T = {} => SumOver([x \in T |-> f[x]]) = 0
         /\ \A d \in T : SumOver([x \in T |-> f[x]]) = f[d] + SumOver([x \in T \ {d} |-> f[x]])
<1> DEFINE e == [x \in T |-> f[x]]
<1>1. IsFiniteSet(T) /\ e \in [T -> Int]
  BY FS_Subset
<1>2. ASSUME NEW d \in T PROVE SumOver(e) = f[d] + SumOver([x \in T \ {d} |-> f[x]])
  <2>1. SumOver(e) = e[d] + SumOver([x \in T \ {d} |-> e[x]])
    <3> HIDE DEF e
    <3> QED
      BY <1>1, SumDrop, Zenon
  <2>2. [x \in T \ {d} |-> e[x]] = [x \in T \ {d} |-> f[x]]
    OBVIOUS
  <2> QED
    BY <2>1, <2>2
<1>3. T = {} => e \in [{} -> Int]
  BY <1>1
<1>4. SumOver(e) \in Int /\ (T = {} => SumOver(e) = 0)
  <2> HIDE DEF e
  <2> QED
    BY <1>1, <1>3, SumInt, SumEmpty, Zenon
<1> QED
  BY <1>2, <1>4

\* A sum of natural numbers is one, and no entry exceeds it.
LEMMA SumNat ==
  ASSUME NEW D, IsFiniteSet(D), NEW f \in [D -> Nat]
  PROVE  SumOver(f) \in Nat /\ \A d \in D : f[d] <= SumOver(f)
<1> DEFINE Part(T) == SumOver([x \in T |-> f[x]])
           Good == {T \in SUBSET D : Part(T) \in Nat}
<1>1. f \in [D -> Int]
  OBVIOUS
<1>2. \A T \in SUBSET D : /\ T = {} => Part(T) = 0
                          /\ \A d \in T : Part(T) = f[d] + Part(T \ {d})
  <2>1. \A e \in [D -> Int] : \A T \in SUBSET D :
          /\ SumOver([x \in T |-> e[x]]) \in Int
          /\ T = {} => SumOver([x \in T |-> e[x]]) = 0
          /\ \A d \in T : SumOver([x \in T |-> e[x]]) = e[d] + SumOver([x \in T \ {d} |-> e[x]])
    BY ONLY IsFiniteSet(D), SumPart, Zenon
  <2> QED
    BY <1>1, <2>1, Zenon
<1>3. ASSUME NEW T \in SUBSET D, \A x \in T : T \ {x} \in Good
      PROVE  T \in Good
  <2> SUFFICES Part(T) \in Nat
    OBVIOUS
  <2> HIDE DEF Part
  <2>1. CASE T = {}
    BY <1>2, <2>1
  <2>2. CASE T # {}
    <3>1. PICK d \in T : TRUE
      BY <2>2
    <3>2. Part(T) = f[d] + Part(T \ {d}) /\ Part(T \ {d}) \in Nat
      BY <1>2, <1>3
    <3> QED
      BY <3>2
  <2> QED
    BY <2>1, <2>2
<1>4. Good = SUBSET D
  <2> HIDE DEF Good
  <2>1. Good \in SUBSET (SUBSET D)
    BY DEF Good
  <2> QED
    BY <1>3, <2>1, SetInduction, Zenon
<1>5. [x \in D |-> f[x]] = f
  OBVIOUS
<1>6. Part(D) \in Nat /\ \A d \in D : Part(D) = f[d] + Part(D \ {d}) /\ Part(D \ {d}) \in Nat
  <2> HIDE DEF Part
  <2> QED
    BY <1>2, <1>4
<1>7. Part(D) = SumOver(f)
  BY <1>5, Zenon
<1> HIDE DEF Part
<1>8. ASSUME NEW d \in D PROVE f[d] <= SumOver(f)
  <2>1. Part(D) = f[d] + Part(D \ {d}) /\ Part(D \ {d}) \in Nat
    BY <1>6, Zenon
  <2> QED
    BY <1>7, <2>1
<1> QED
  BY <1>6, <1>7, <1>8

\* The sum of two functions.
LEMMA SumPlus ==
  ASSUME NEW D, IsFiniteSet(D), NEW f \in [D -> Int], NEW g \in [D -> Int]
  PROVE  SumOver([x \in D |-> f[x] + g[x]]) = SumOver(f) + SumOver(g)
<1> DEFINE h == [x \in D |-> f[x] + g[x]]
           F(T) == SumOver([x \in T |-> f[x]])
           G(T) == SumOver([x \in T |-> g[x]])
           H(T) == SumOver([x \in T |-> h[x]])
           Good == {T \in SUBSET D : H(T) = F(T) + G(T)}
<1>1. h \in [D -> Int] /\ \A x \in D : h[x] = f[x] + g[x]
  OBVIOUS
<1>2. \A e \in [D -> Int] : \A T \in SUBSET D :
        /\ SumOver([x \in T |-> e[x]]) \in Int
        /\ T = {} => SumOver([x \in T |-> e[x]]) = 0
        /\ \A d \in T : SumOver([x \in T |-> e[x]]) = e[d] + SumOver([x \in T \ {d} |-> e[x]])
  BY ONLY IsFiniteSet(D), SumPart, Zenon
<1> HIDE DEF h
<1>3. \A T \in SUBSET D : /\ F(T) \in Int /\ G(T) \in Int /\ H(T) \in Int
                          /\ T = {} => F(T) = 0 /\ G(T) = 0 /\ H(T) = 0
                          /\ \A d \in T : /\ F(T) = f[d] + F(T \ {d})
                                          /\ G(T) = g[d] + G(T \ {d})
                                          /\ H(T) = h[d] + H(T \ {d})
  BY <1>1, <1>2, Zenon
<1>4. ASSUME NEW T \in SUBSET D, \A x \in T : T \ {x} \in Good
      PROVE  T \in Good
  <2> SUFFICES H(T) = F(T) + G(T)
    OBVIOUS
  <2>1. \A x \in T : H(T \ {x}) = F(T \ {x}) + G(T \ {x})
    BY <1>4
  <2> HIDE DEF F, G, H
  <2>2. CASE T = {}
    BY <1>3, <2>2
  <2>3. CASE T # {}
    <3>1. PICK d \in T : TRUE
      BY <2>3
    <3>2. T \ {d} \in SUBSET D /\ d \in D
      OBVIOUS
    <3>3. F(T \ {d}) \in Int /\ G(T \ {d}) \in Int /\ f[d] \in Int /\ g[d] \in Int
      BY <1>3, <3>2
    <3>4. F(T) = f[d] + F(T \ {d}) /\ G(T) = g[d] + G(T \ {d}) /\ H(T) = h[d] + H(T \ {d})
      BY <1>3
    <3> QED
      BY <1>1, <2>1, <3>2, <3>3, <3>4
  <2> QED
    BY <2>2, <2>3
<1>5. Good = SUBSET D
  <2> HIDE DEF Good
  <2>1. Good \in SUBSET (SUBSET D)
    BY DEF Good
  <2> QED
    BY <1>4, <2>1, SetInduction, Zenon
<1>6. H(D) = F(D) + G(D)
  <2> HIDE DEF F, G, H
  <2> QED
    BY <1>5
<1>7. [x \in D |-> f[x]] = f /\ [x \in D |-> g[x]] = g /\ [x \in D |-> h[x]] = h
  BY <1>1
<1> QED
  BY <1>6, <1>7, Zenon DEF h

\* A sum of zeros.
LEMMA SumZero ==
  ASSUME NEW D, IsFiniteSet(D)
  PROVE  SumOver([x \in D |-> 0]) = 0
<1> DEFINE zero == [x \in D |-> 0]
<1>1. zero \in [D -> Int] /\ [x \in D |-> zero[x] + zero[x]] = zero
  OBVIOUS
<1> HIDE DEF zero
<1>2. SumOver(zero) \in Int
  BY <1>1, SumInt, Zenon
<1>3. SumOver([x \in D |-> zero[x] + zero[x]]) = SumOver(zero) + SumOver(zero)
  BY <1>1, SumPlus, Zenon
<1>4. SumOver(zero) = SumOver(zero) + SumOver(zero)
  BY <1>1, <1>3, Zenon
<1>5. \A n \in Int : n = n + n => n = 0
  OBVIOUS
<1> QED
  BY <1>2, <1>4, <1>5, Zenon DEF zero

\* A sum is no larger than one whose entries are as large.
LEMMA SumLe ==
  ASSUME NEW D, IsFiniteSet(D), NEW f \in [D -> Int], NEW g \in [D -> Int],
         \A x \in D : f[x] <= g[x]
  PROVE  SumOver(f) <= SumOver(g)
<1> DEFINE r == [x \in D |-> g[x] - f[x]]
<1>1. r \in [D -> Nat] /\ r \in [D -> Int]
  OBVIOUS
<1>2. [x \in D |-> f[x] + r[x]] = g
  OBVIOUS
<1>3. SumOver(f) \in Int
  BY SumInt, Zenon
<1> HIDE DEF r
<1>4. SumOver(r) \in Nat
  BY <1>1, SumNat, Zenon
<1>5. SumOver([x \in D |-> f[x] + r[x]]) = SumOver(f) + SumOver(r)
  BY <1>1, SumPlus, Zenon
<1> QED
  BY <1>2, <1>3, <1>4, <1>5
================================================================================
