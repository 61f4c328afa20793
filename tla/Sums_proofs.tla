----------------------------- MODULE Sums_proofs -----------------------------
(***************************************************************************)
(* Lemmas about the sums that several modules state their properties with: *)
(* SumFunctionOnSet(f, S), the sum of f[x] for the x of a finite set S.    *)
(*                                                                         *)
(* The sum is a function on the subsets of S, which takes away one element *)
(* after the other.  That there is such a function, and that the order     *)
(* does not matter, is by induction on the number of elements: a least     *)
(* counterexample leads to a smaller one.                                  *)
(***************************************************************************)
EXTENDS Functions, Integers, FiniteSets, FiniteSetTheorems, WellFoundedInduction, TLAPS

(* The element that is taken away from s, and what g must be to add up f.  *)
Chosen(s)     == CHOOSE x \in s : TRUE
Added(f, g, s) == IF s = {} THEN 0 ELSE f[Chosen(s)] + g[s \ {Chosen(s)}]
Adds(f, S, g)  == g = [s \in SUBSET S |-> Added(f, g, s)]

LEMMA SumUnfolds ==
    ASSUME NEW f, NEW S
    PROVE  SumFunctionOnSet(f, S) = (CHOOSE g : Adds(f, S, g))[S]
  BY DEF SumFunctionOnSet, FoldFunctionOnSet, MapThenFoldSet, Adds, Added, Chosen

LEMMA TakenIn ==
    ASSUME NEW s, s # {}
    PROVE  Chosen(s) \in s
  BY DEF Chosen

LEMMA LeastNatural ==
    ASSUME NEW B \in SUBSET Nat, B # {}
    PROVE  \E m \in B : \A k \in B : m <= k
  <1>1. PICK x \in B : \A y \in B : ~ (<<y, x>> \in OpToRel(<, Nat))
    BY NatLessThanWellFounded, WFMin
  <1>2. ASSUME NEW y \in B, ~ (x <= y) PROVE FALSE
    <2>1. y \in Nat /\ x \in Nat /\ y < x
      BY <1>2
    <2>2. <<y, x>> \in OpToRel(<, Nat)
      BY <2>1 DEF OpToRel
    <2> QED
      BY <1>1, <2>2
  <1> QED
    BY <1>2

(* Subsets are finite, and smaller without one of their elements.          *)
LEMMA Smaller ==
    ASSUME NEW S, IsFiniteSet(S), NEW s \in SUBSET S
    PROVE  /\ IsFiniteSet(s) /\ Cardinality(s) \in Nat /\ Cardinality(s) <= Cardinality(S)
           /\ \A x \in s : /\ Cardinality(s \ {x}) \in Nat
                           /\ Cardinality(s \ {x}) = Cardinality(s) - 1
           /\ Cardinality(s) = 0 <=> s = {}
  <1>1. IsFiniteSet(s) /\ Cardinality(s) <= Cardinality(S)
    BY FS_Subset
  <1>2. Cardinality(s) \in Nat
    BY <1>1, FS_CardinalityType
  <1>3. Cardinality(s) = 0 <=> s = {}
    BY <1>1, FS_EmptySet
  <1>4. ASSUME NEW x \in s
        PROVE  Cardinality(s \ {x}) \in Nat /\ Cardinality(s \ {x}) = Cardinality(s) - 1
    <2>1. IsFiniteSet(s \ {x}) /\ Cardinality(s \ {x}) = Cardinality(s) - 1
      BY <1>1, FS_RemoveElement
    <2> QED
      BY <2>1, FS_CardinalityType
  <1> QED
    BY <1>1, <1>2, <1>3, <1>4

(* There is a function that adds up f.                                     *)
LEMMA SumExists ==
    ASSUME NEW S, IsFiniteSet(S), NEW f, \A x \in S : f[x] \in Int
    PROVE  \E g \in [SUBSET S -> Int] : Adds(f, S, g)
  <1> DEFINE Upto(n, g) == \A s \in SUBSET S : Cardinality(s) <= n => g[s] = Added(f, g, s)
             Bad == {n \in Nat : ~ \E g \in [SUBSET S -> Int] : Upto(n, g)}
  <1>1. Bad = {}
    <2> SUFFICES ASSUME Bad # {} PROVE FALSE
      OBVIOUS
    <2>1. PICK n \in Bad : \A k \in Bad : n <= k
      <3>1. Bad \in SUBSET Nat
        OBVIOUS
      <3> HIDE DEF Bad
      <3> QED
        BY <3>1, LeastNatural
    <2>2. n # 0
      <3> SUFFICES ASSUME n = 0 PROVE FALSE
        OBVIOUS
      <3> DEFINE g == [s \in SUBSET S |-> 0]
      <3>1. g \in [SUBSET S -> Int]
        OBVIOUS
      <3>2. ASSUME NEW s \in SUBSET S, Cardinality(s) <= 0 PROVE g[s] = Added(f, g, s)
        <4>1. s = {}
          BY <3>2, Smaller
        <4> QED
          BY <4>1 DEF Added
      <3>3. Upto(0, g)
        BY <3>2
      <3> HIDE DEF g, Upto
      <3> QED
        BY <3>1, <3>3
    <2>3. n \in Nat /\ n - 1 \in Nat /\ n - 1 \notin Bad
      <3>1. n \in Nat /\ n - 1 \in Nat
        BY <2>2
      <3> HIDE DEF Bad
      <3> QED
        BY <2>1, <3>1
    <2>4. PICK g \in [SUBSET S -> Int] : Upto(n - 1, g)
      BY <2>3
    <2> DEFINE h == [s \in SUBSET S |-> Added(f, g, s)]
    <2>5. h \in [SUBSET S -> Int]
      <3> SUFFICES ASSUME NEW s \in SUBSET S PROVE Added(f, g, s) \in Int
        OBVIOUS
      <3>1. CASE s = {}
        BY <3>1 DEF Added
      <3>2. CASE s # {}
        <4>1. Chosen(s) \in S /\ s \ {Chosen(s)} \in SUBSET S
          BY <3>2, TakenIn
        <4>2. f[Chosen(s)] \in Int /\ g[s \ {Chosen(s)}] \in Int
          BY <4>1
        <4> QED
          BY <3>2, <4>2 DEF Added
      <3> QED
        BY <3>1, <3>2
    <2>6. Upto(n, h)
      <3> SUFFICES ASSUME NEW s \in SUBSET S, Cardinality(s) <= n
                   PROVE  Added(f, g, s) = Added(f, h, s)
        OBVIOUS
      <3>1. CASE s = {}
        BY <3>1 DEF Added
      <3>2. CASE s # {}
        <4> DEFINE t == s \ {Chosen(s)}
        <4>1. t \in SUBSET S /\ Chosen(s) \in s
          BY <3>2, TakenIn
        <4>2. Cardinality(t) = Cardinality(s) - 1 /\ Cardinality(s) \in Nat
          BY <4>1, Smaller
        <4>3. Cardinality(t) <= n - 1
          BY <2>3, <4>2
        <4>4. g[t] = Added(f, g, t)
          BY <2>4, <4>1, <4>3
        <4>5. h[t] = g[t]
          BY <4>1, <4>4
        <4> QED
          BY <3>2, <4>5 DEF Added
      <3> QED
        BY <3>1, <3>2
    <2> HIDE DEF h, Upto
    <2>7. n \notin Bad
      BY <2>5, <2>6
    <2> QED
      BY <2>1, <2>7
  <1>2. Cardinality(S) \in Nat
    BY FS_CardinalityType
  <1>3. PICK g \in [SUBSET S -> Int] : Upto(Cardinality(S), g)
    BY <1>1, <1>2
  <1>4. \A s \in SUBSET S : g[s] = Added(f, g, s)
    BY <1>3, Smaller
  <1>5. Adds(f, S, g)
    BY <1>4 DEF Adds
  <1> QED
    BY <1>5

(* It is unique, and a larger set does not matter.                         *)
LEMMA SumUnique ==
    ASSUME NEW S, IsFiniteSet(S), NEW T \in SUBSET S, NEW f, NEW e, NEW g, NEW h,
           \A x \in T : f[x] = e[x], Adds(f, S, g), Adds(e, T, h)
    PROVE  \A s \in SUBSET T : g[s] = h[s]
  <1> DEFINE Bad == {n \in Nat : \E s \in SUBSET T : Cardinality(s) = n /\ g[s] # h[s]}
  <1>0. \A s \in SUBSET T : g[s] = Added(f, g, s) /\ h[s] = Added(e, h, s)
    <2>1. /\ g = [s \in SUBSET S |-> Added(f, g, s)]
          /\ h = [s \in SUBSET T |-> Added(e, h, s)]
      BY DEF Adds
    <2>2. \A s \in SUBSET S : g[s] = Added(f, g, s)
      BY <2>1
    <2>3. \A s \in SUBSET T : h[s] = Added(e, h, s)
      BY <2>1
    <2> QED
      BY <2>2, <2>3
  <1>1. Bad = {}
    <2> SUFFICES ASSUME Bad # {} PROVE FALSE
      OBVIOUS
    <2>1. PICK n \in Bad : \A k \in Bad : n <= k
      <3>1. Bad \in SUBSET Nat
        OBVIOUS
      <3> HIDE DEF Bad
      <3> QED
        BY <3>1, LeastNatural
    <2>2. PICK s \in SUBSET T : Cardinality(s) = n /\ g[s] # h[s]
      BY <2>1
    <2>3. s # {}
      BY <1>0, <2>2 DEF Added
    <2> DEFINE t == s \ {Chosen(s)}
    <2>4. Chosen(s) \in s /\ t \in SUBSET T /\ s \in SUBSET S
      BY <2>3, TakenIn
    <2>5. Cardinality(t) = n - 1 /\ Cardinality(t) \in Nat
      BY <2>2, <2>4, Smaller
    <2>6. g[t] # h[t]
      BY <1>0, <2>2, <2>3, <2>4 DEF Added
    <2>7. n - 1 \in Bad
      BY <2>4, <2>5, <2>6
    <2> QED
      BY <2>1, <2>5, <2>7
  <1> SUFFICES ASSUME NEW s \in SUBSET T, g[s] # h[s] PROVE FALSE
    OBVIOUS
  <1>2. Cardinality(s) \in Nat
    BY Smaller
  <1> QED
    BY <1>1, <1>2

(* The sum is what any such function says.                                 *)
LEMMA SumIs ==
    ASSUME NEW S, IsFiniteSet(S), NEW T \in SUBSET S, NEW f, NEW e,
           \A x \in S : f[x] \in Int, \A x \in T : e[x] = f[x], NEW g, Adds(f, S, g)
    PROVE  SumFunctionOnSet(e, T) = g[T]
  <1>1. IsFiniteSet(T) /\ \A x \in T : e[x] \in Int
    BY FS_Subset
  <1>2. \E h : Adds(e, T, h)
    BY <1>1, SumExists
  <1> DEFINE h == CHOOSE h : Adds(e, T, h)
  <1>3. Adds(e, T, h)
    BY <1>2
  <1>4. SumFunctionOnSet(e, T) = h[T]
    BY SumUnfolds
  <1> HIDE DEF h
  <1>5. g[T] = h[T]
    BY <1>3, SumUnique
  <1> QED
    BY <1>4, <1>5

-----------------------------------------------------------------------------
(* What a sum is.                                                          *)

LEMMA SumType ==
    ASSUME NEW S, IsFiniteSet(S), NEW f, \A x \in S : f[x] \in Int
    PROVE  SumFunctionOnSet(f, S) \in Int
  <1>1. PICK g \in [SUBSET S -> Int] : Adds(f, S, g)
    BY SumExists
  <1>2. SumFunctionOnSet(f, S) = g[S]
    BY <1>1, SumIs
  <1> QED
    BY <1>1, <1>2

LEMMA SumEmpty ==
    ASSUME NEW f
    PROVE  SumFunctionOnSet(f, {}) = 0
  <1>1. IsFiniteSet({}) /\ {} \in SUBSET {}
    BY FS_EmptySet
  <1>2. PICK g \in [SUBSET {} -> Int] : Adds(f, {}, g)
    BY <1>1, SumExists
  <1>3. SumFunctionOnSet(f, {}) = g[{}]
    BY <1>1, <1>2, SumIs
  <1>4. g[{}] = 0
    BY <1>2 DEF Adds, Added
  <1> QED
    BY <1>3, <1>4

(* Functions that agree on a set have the same sum.                        *)
LEMMA SumSame ==
    ASSUME NEW S, IsFiniteSet(S), NEW f, NEW e, \A x \in S : f[x] \in Int /\ e[x] = f[x]
    PROVE  SumFunctionOnSet(e, S) = SumFunctionOnSet(f, S)
  <1>1. PICK g \in [SUBSET S -> Int] : Adds(f, S, g)
    BY SumExists
  <1>2. SumFunctionOnSet(f, S) = g[S] /\ SumFunctionOnSet(e, S) = g[S]
    BY <1>1, SumIs
  <1> QED
    BY <1>2

(* An element is added to the sum of the others, whichever it is.          *)
LEMMA SumOne ==
    ASSUME NEW S, IsFiniteSet(S), NEW f, \A x \in S : f[x] \in Int, NEW x \in S
    PROVE  SumFunctionOnSet(f, S) = f[x] + SumFunctionOnSet(f, S \ {x})
  <1>1. PICK g \in [SUBSET S -> Int] : Adds(f, S, g)
    BY SumExists
  <1>2. \A s \in SUBSET S : g[s] = Added(f, g, s)
    BY <1>1 DEF Adds
  <1> DEFINE Bad == {n \in Nat : \E s \in SUBSET S, y \in S :
                        Cardinality(s) = n /\ y \in s /\ g[s] # f[y] + g[s \ {y}]}
  <1>3. Bad = {}
    <2> SUFFICES ASSUME Bad # {} PROVE FALSE
      OBVIOUS
    <2>1. PICK n \in Bad : \A k \in Bad : n <= k
      <3>1. Bad \in SUBSET Nat
        OBVIOUS
      <3> HIDE DEF Bad
      <3> QED
        BY <3>1, LeastNatural
    <2>2. PICK s \in SUBSET S, y \in S :
             Cardinality(s) = n /\ y \in s /\ g[s] # f[y] + g[s \ {y}]
      BY <2>1
    <2> DEFINE z == Chosen(s)
    <2>3. z \in s /\ z \in S
      BY <2>2, TakenIn
    <2>4. g[s] = f[z] + g[s \ {z}]
      BY <1>2, <2>2 DEF Added
    <2>5. z # y
      BY <2>2, <2>4
    <2>6. /\ s \ {z} \in SUBSET S /\ s \ {y} \in SUBSET S /\ y \in s \ {z} /\ z \in s \ {y}
          /\ (s \ {z}) \ {y} = (s \ {y}) \ {z}
      BY <2>2, <2>3, <2>5
    <2>7. /\ Cardinality(s \ {z}) = n - 1 /\ Cardinality(s \ {y}) = n - 1
          /\ n - 1 \in Nat
      BY <2>2, <2>3, Smaller
    <2>8. n - 1 \notin Bad
      <3>1. n \in Nat
        OBVIOUS
      <3> HIDE DEF Bad
      <3> QED
        BY <2>1, <2>7, <3>1
    <2>9. g[s \ {z}] = f[y] + g[(s \ {z}) \ {y}] /\ g[s \ {y}] = f[z] + g[(s \ {y}) \ {z}]
      BY <2>3, <2>6, <2>7, <2>8
    <2> DEFINE rest == g[(s \ {z}) \ {y}]
    <2>10. f[y] \in Int /\ f[z] \in Int /\ rest \in Int
      BY <1>1, <2>3, <2>6
    <2>11. g[s] = f[z] + (f[y] + rest) /\ g[s \ {y}] = f[z] + rest
      BY <2>4, <2>6, <2>9
    <2> HIDE DEF rest, z
    <2> QED
      BY <2>2, <2>10, <2>11
  <1>4. Cardinality(S) \in Nat /\ S \in SUBSET S
    BY FS_CardinalityType
  <1>5. g[S] = f[x] + g[S \ {x}]
    BY <1>3, <1>4
  <1>6. SumFunctionOnSet(f, S) = g[S] /\ SumFunctionOnSet(f, S \ {x}) = g[S \ {x}]
    BY <1>1, SumIs
  <1> QED
    BY <1>5, <1>6

(* A function that differs in one place.                                   *)
LEMMA SumChange ==
    ASSUME NEW S, IsFiniteSet(S), NEW x \in S, NEW f, NEW e,
           \A y \in S : f[y] \in Int /\ e[y] \in Int, \A y \in S \ {x} : e[y] = f[y]
    PROVE  SumFunctionOnSet(e, S) = SumFunctionOnSet(f, S) + e[x] - f[x]
  <1>1. IsFiniteSet(S \ {x})
    BY FS_Subset
  <1>2. SumFunctionOnSet(e, S \ {x}) = SumFunctionOnSet(f, S \ {x})
    BY <1>1, SumSame
  <1>3. /\ SumFunctionOnSet(f, S) = f[x] + SumFunctionOnSet(f, S \ {x})
        /\ SumFunctionOnSet(e, S) = e[x] + SumFunctionOnSet(e, S \ {x})
    BY SumOne
  <1>4. SumFunctionOnSet(f, S \ {x}) \in Int
    BY <1>1, SumType
  <1> QED
    BY <1>2, <1>3, <1>4

(* What is nothing everywhere adds up to nothing, and a smaller function   *)
(* to no more.                                                             *)
LEMMA SumZero ==
    ASSUME NEW S, IsFiniteSet(S), NEW f, \A x \in S : f[x] = 0
    PROVE  SumFunctionOnSet(f, S) = 0
  <1>0. \A x \in S : f[x] \in Int
    OBVIOUS
  <1>1. PICK g \in [SUBSET S -> Int] : Adds(f, S, g)
    BY <1>0, SumExists
  <1>2. \A s \in SUBSET S : g[s] = Added(f, g, s)
    BY <1>1 DEF Adds
  <1> DEFINE Bad == {n \in Nat : \E s \in SUBSET S : Cardinality(s) = n /\ g[s] # 0}
  <1>3. Bad = {}
    <2> SUFFICES ASSUME Bad # {} PROVE FALSE
      OBVIOUS
    <2>1. PICK n \in Bad : \A k \in Bad : n <= k
      <3>1. Bad \in SUBSET Nat
        OBVIOUS
      <3> HIDE DEF Bad
      <3> QED
        BY <3>1, LeastNatural
    <2>2. PICK s \in SUBSET S : Cardinality(s) = n /\ g[s] # 0
      OBVIOUS
    <2>3. s # {}
      BY <1>2, <2>2 DEF Added
    <2> DEFINE x == Chosen(s)
    <2>4. x \in s /\ g[s] = f[x] + g[s \ {x}]
      BY <1>2, <2>3, TakenIn DEF Added
    <2> HIDE DEF x
    <2>5. Cardinality(s \ {x}) \in Nat /\ Cardinality(s \ {x}) = n - 1 /\ n \in Nat
      BY <2>2, <2>4, Smaller
    <2>6. g[s \ {x}] = 0
      <3>1. ~ (n <= n - 1)
        BY <2>5
      <3>2. n - 1 \notin Bad
        <4> HIDE DEF Bad
        <4> QED
          BY <2>1, <3>1
      <3> QED
        BY <2>5, <3>2
    <2> QED
      BY <2>2, <2>4, <2>6
  <1>4. IsFiniteSet(S) /\ Cardinality(S) \in Nat
    BY FS_CardinalityType
  <1>5. g[S] = 0
    BY <1>3, <1>4
  <1>6. SumFunctionOnSet(f, S) = g[S]
    BY <1>0, <1>1, SumIs
  <1> QED
    BY <1>5, <1>6

LEMMA SumAtMost ==
    ASSUME NEW S, IsFiniteSet(S), NEW f, NEW e, \A x \in S : f[x] \in Int /\ e[x] \in Int,
           \A x \in S : f[x] <= e[x]
    PROVE  SumFunctionOnSet(f, S) <= SumFunctionOnSet(e, S)
  <1>1. PICK g \in [SUBSET S -> Int] : Adds(f, S, g)
    BY SumExists
  <1>2. PICK h \in [SUBSET S -> Int] : Adds(e, S, h)
    BY SumExists
  <1>3. \A s \in SUBSET S : g[s] = Added(f, g, s) /\ h[s] = Added(e, h, s)
    BY <1>1, <1>2 DEF Adds
  <1> DEFINE Bad == {n \in Nat : \E s \in SUBSET S : Cardinality(s) = n /\ ~ (g[s] <= h[s])}
  <1>4. Bad = {}
    <2> SUFFICES ASSUME Bad # {} PROVE FALSE
      OBVIOUS
    <2>1. PICK n \in Bad : \A k \in Bad : n <= k
      <3>1. Bad \in SUBSET Nat
        OBVIOUS
      <3> HIDE DEF Bad
      <3> QED
        BY <3>1, LeastNatural
    <2>2. PICK s \in SUBSET S : Cardinality(s) = n /\ ~ (g[s] <= h[s])
      OBVIOUS
    <2>3. s # {}
      <3>1. SUFFICES ASSUME s = {} PROVE FALSE
        OBVIOUS
      <3>2. g[s] = 0 /\ h[s] = 0
        BY <1>3, <3>1 DEF Added
      <3> QED
        BY <2>2, <3>2
    <2> DEFINE x == Chosen(s)
    <2>4. x \in s /\ g[s] = f[x] + g[s \ {x}] /\ h[s] = e[x] + h[s \ {x}]
      BY <1>3, <2>3, TakenIn DEF Added
    <2> HIDE DEF x
    <2>5. Cardinality(s \ {x}) \in Nat /\ Cardinality(s \ {x}) = n - 1 /\ n \in Nat
      BY <2>2, <2>4, Smaller
    <2>6. g[s \ {x}] <= h[s \ {x}]
      <3>1. ~ (n <= n - 1)
        BY <2>5
      <3>2. n - 1 \notin Bad
        <4> HIDE DEF Bad
        <4> QED
          BY <2>1, <3>1
      <3> QED
        BY <2>5, <3>2
    <2>7. s \ {x} \in SUBSET S /\ x \in S
      BY <2>4
    <2>8. g[s \ {x}] \in Int /\ h[s \ {x}] \in Int /\ f[x] \in Int /\ e[x] \in Int /\ f[x] <= e[x]
      BY <2>7
    <2> HIDE DEF Bad
    <2> QED
      BY <2>2, <2>4, <2>6, <2>8
  <1>5. Cardinality(S) \in Nat
    BY FS_CardinalityType
  <1>6. g[S] <= h[S]
    BY <1>4, <1>5
  <1>7. SumFunctionOnSet(f, S) = g[S] /\ SumFunctionOnSet(e, S) = h[S]
    BY <1>1, <1>2, SumIs
  <1> QED
    BY <1>6, <1>7

(* Sums of functions that are added, or subtracted.                        *)
LEMMA SumPlus ==
    ASSUME NEW S, IsFiniteSet(S), NEW f, NEW a, NEW b, NEW c,
           \A x \in S : a[x] \in Int /\ b[x] \in Int /\ c[x] \in Int,
           \A x \in S : f[x] = a[x] + b[x] - c[x]
    PROVE  SumFunctionOnSet(f, S) =
               SumFunctionOnSet(a, S) + SumFunctionOnSet(b, S) - SumFunctionOnSet(c, S)
  <1>0. \A x \in S : f[x] \in Int
    OBVIOUS
  <1>1. PICK g \in [SUBSET S -> Int] : Adds(f, S, g)
    BY <1>0, SumExists
  <1>2. PICK ga \in [SUBSET S -> Int] : Adds(a, S, ga)
    BY SumExists
  <1>3. PICK gb \in [SUBSET S -> Int] : Adds(b, S, gb)
    BY SumExists
  <1>4. PICK gc \in [SUBSET S -> Int] : Adds(c, S, gc)
    BY SumExists
  <1>5. \A s \in SUBSET S : /\ g[s] = Added(f, g, s) /\ ga[s] = Added(a, ga, s)
                            /\ gb[s] = Added(b, gb, s) /\ gc[s] = Added(c, gc, s)
    BY <1>1, <1>2, <1>3, <1>4 DEF Adds
  <1> DEFINE Bad == {n \in Nat : \E s \in SUBSET S :
                       Cardinality(s) = n /\ g[s] # ga[s] + gb[s] - gc[s]}
  <1>6. Bad = {}
    <2> SUFFICES ASSUME Bad # {} PROVE FALSE
      OBVIOUS
    <2>1. PICK n \in Bad : \A k \in Bad : n <= k
      <3>1. Bad \in SUBSET Nat
        OBVIOUS
      <3> HIDE DEF Bad
      <3> QED
        BY <3>1, LeastNatural
    <2>2. PICK s \in SUBSET S : Cardinality(s) = n /\ g[s] # ga[s] + gb[s] - gc[s]
      OBVIOUS
    <2>3. s # {}
      <3>1. SUFFICES ASSUME s = {} PROVE FALSE
        OBVIOUS
      <3>2. g[s] = 0 /\ ga[s] = 0 /\ gb[s] = 0 /\ gc[s] = 0
        BY <1>5, <3>1 DEF Added
      <3> QED
        BY <2>2, <3>2
    <2> DEFINE x == Chosen(s)
    <2>4. /\ x \in s /\ g[s] = f[x] + g[s \ {x}] /\ ga[s] = a[x] + ga[s \ {x}]
          /\ gb[s] = b[x] + gb[s \ {x}] /\ gc[s] = c[x] + gc[s \ {x}]
      BY <1>5, <2>3, TakenIn DEF Added
    <2> HIDE DEF x
    <2>5. Cardinality(s \ {x}) \in Nat /\ Cardinality(s \ {x}) = n - 1 /\ n \in Nat
      BY <2>2, <2>4, Smaller
    <2>6. g[s \ {x}] = ga[s \ {x}] + gb[s \ {x}] - gc[s \ {x}]
      <3>1. ~ (n <= n - 1)
        BY <2>5
      <3>2. n - 1 \notin Bad
        <4> HIDE DEF Bad
        <4> QED
          BY <2>1, <3>1
      <3> QED
        BY <2>5, <3>2
    <2>7. s \ {x} \in SUBSET S /\ x \in S
      BY <2>4
    <2>8. /\ g[s \ {x}] \in Int /\ ga[s \ {x}] \in Int /\ gb[s \ {x}] \in Int /\ gc[s \ {x}] \in Int
          /\ f[x] \in Int /\ a[x] \in Int /\ b[x] \in Int /\ c[x] \in Int /\ f[x] = a[x] + b[x] - c[x]
      BY <1>0, <2>7
    <2> HIDE DEF Bad
    <2> QED
      BY <2>2, <2>4, <2>6, <2>8
  <1>7. Cardinality(S) \in Nat
    BY FS_CardinalityType
  <1>8. g[S] = ga[S] + gb[S] - gc[S]
    BY <1>6, <1>7
  <1>9. /\ SumFunctionOnSet(f, S) = g[S] /\ SumFunctionOnSet(a, S) = ga[S]
        /\ SumFunctionOnSet(b, S) = gb[S] /\ SumFunctionOnSet(c, S) = gc[S]
    BY <1>0, <1>1, <1>2, <1>3, <1>4, SumIs
  <1> QED
    BY <1>8, <1>9

-----------------------------------------------------------------------------
(* Recursion over the subsets of a finite set, one element at a time.      *)

(* A finite set of numbers that is not empty has a greatest one.           *)
LEMMA GreatestNatural ==
    ASSUME NEW S \in SUBSET Nat, IsFiniteSet(S), S # {}
    PROVE  \E m \in S : \A k \in S : k <= m
  <1> DEFINE Greatest(T) == \E m \in T : \A k \in T : k <= m
             Bad == {n \in Nat : \E T \in SUBSET S : Cardinality(T) = n /\ T # {} /\ ~ Greatest(T)}
  <1>1. Bad = {}
    <2> SUFFICES ASSUME Bad # {} PROVE FALSE
      OBVIOUS
    <2>1. PICK n \in Bad : \A k \in Bad : n <= k
      <3>1. Bad \in SUBSET Nat
        OBVIOUS
      <3> HIDE DEF Bad
      <3> QED
        BY <3>1, LeastNatural
    <2>2. PICK T \in SUBSET S : Cardinality(T) = n /\ T # {} /\ ~ Greatest(T)
      OBVIOUS
    <2>3. PICK x : x \in T
      BY <2>2
    <2>4. Cardinality(T \ {x}) \in Nat /\ Cardinality(T \ {x}) = n - 1 /\ n \in Nat
      BY <2>2, <2>3, Smaller
    <2>5. T \ {x} = {} \/ Greatest(T \ {x})
      <3>1. ~ (n <= n - 1)
        BY <2>4
      <3>2. n - 1 \notin Bad
        <4> HIDE DEF Bad
        <4> QED
          BY <2>1, <3>1
      <3> HIDE DEF Greatest
      <3> QED
        BY <2>4, <3>2
    <2>6. CASE T \ {x} = {}
      <3>1. \A k \in T : k = x /\ k \in Nat
        BY <2>6
      <3> QED
        BY <2>2, <2>3, <3>1
    <2>7. CASE Greatest(T \ {x})
      <3>1. PICK m \in T \ {x} : \A k \in T \ {x} : k <= m
        BY <2>7
      <3>2. m \in Nat /\ x \in Nat /\ \A k \in T : k \in Nat
        BY <2>3
      <3> QED
        BY <2>2, <2>3, <3>1, <3>2
    <2> QED
      BY <2>5, <2>6, <2>7
  <1>2. Cardinality(S) \in Nat
    BY FS_CardinalityType
  <1>3. Greatest(S)
    <2> HIDE DEF Greatest
    <2> QED
      BY <1>1, <1>2
  <1> QED
    BY <1>3

(* g begins with what is there and takes one element more at a time.       *)
Stepped(first, take, step, g, s) ==
    IF s = {} THEN first ELSE step[take[s], g[s \ {take[s]}]]
Steps(first, take, step, S, g) == g = [s \in SUBSET S |-> Stepped(first, take, step, g, s)]

(* There is such a g, with its values where the steps stay.                *)
LEMMA StepsExist ==
    ASSUME NEW S, IsFiniteSet(S), NEW D, NEW first \in D, NEW take, NEW step \in [S \X D -> D],
           \A s \in SUBSET S : s # {} => take[s] \in s
    PROVE  \E g \in [SUBSET S -> D] : Steps(first, take, step, S, g)
  <1> DEFINE Upto(n, g) == \A s \in SUBSET S :
                              Cardinality(s) <= n => g[s] = Stepped(first, take, step, g, s)
             Bad == {n \in Nat : ~ \E g \in [SUBSET S -> D] : Upto(n, g)}
  <1>1. Bad = {}
    <2> SUFFICES ASSUME Bad # {} PROVE FALSE
      OBVIOUS
    <2>1. PICK n \in Bad : \A k \in Bad : n <= k
      <3>1. Bad \in SUBSET Nat
        OBVIOUS
      <3> HIDE DEF Bad
      <3> QED
        BY <3>1, LeastNatural
    <2>2. n \in Nat
      OBVIOUS
    <2>3. \E g \in [SUBSET S -> D] : \A s \in SUBSET S :
             Cardinality(s) < n => g[s] = Stepped(first, take, step, g, s)
      <3>1. CASE n = 0
        <4>1. [s \in SUBSET S |-> first] \in [SUBSET S -> D]
          OBVIOUS
        <4>2. \A s \in SUBSET S : ~ (Cardinality(s) < 0)
          BY Smaller
        <4> QED
          BY <3>1, <4>1, <4>2
      <3>2. CASE n # 0
        <4>1. n - 1 \in Nat /\ ~ (n <= n - 1)
          BY <2>2, <3>2
        <4>2. n - 1 \notin Bad
          <5> HIDE DEF Bad
          <5> QED
            BY <2>1, <4>1
        <4>3. PICK g \in [SUBSET S -> D] : Upto(n - 1, g)
          BY <4>1, <4>2
        <4>4. \A s \in SUBSET S : Cardinality(s) < n => Cardinality(s) <= n - 1
          BY <2>2, Smaller
        <4> QED
          BY <4>3, <4>4
      <3> QED
        BY <3>1, <3>2
    <2>4. PICK g \in [SUBSET S -> D] : \A s \in SUBSET S :
             Cardinality(s) < n => g[s] = Stepped(first, take, step, g, s)
      BY <2>3
    <2> DEFINE h == [s \in SUBSET S |-> Stepped(first, take, step, g, s)]
    <2>5. h \in [SUBSET S -> D]
      <3>1. ASSUME NEW s \in SUBSET S PROVE Stepped(first, take, step, g, s) \in D
        <4>1. CASE s = {}
          BY <4>1 DEF Stepped
        <4>2. CASE s # {}
          <5>1. take[s] \in S /\ s \ {take[s]} \in SUBSET S
            BY <4>2
          <5>2. g[s \ {take[s]}] \in D
            BY <5>1
          <5> QED
            BY <4>2, <5>1, <5>2 DEF Stepped
        <4> QED
          BY <4>1, <4>2
      <3> QED
        BY <3>1
    <2>6. ASSUME NEW s \in SUBSET S, Cardinality(s) <= n
          PROVE  h[s] = Stepped(first, take, step, h, s)
      <3>1. CASE s = {}
        BY <3>1 DEF Stepped
      <3>2. CASE s # {}
        <4>1. take[s] \in s
          BY <3>2
        <4>2. Cardinality(s \ {take[s]}) \in Nat /\ Cardinality(s \ {take[s]}) = Cardinality(s) - 1
              /\ Cardinality(s) \in Nat
          BY <4>1, Smaller
        <4>3. Cardinality(s \ {take[s]}) < n /\ s \ {take[s]} \in SUBSET S
          BY <2>2, <2>6, <4>2
        <4>4. h[s \ {take[s]}] = g[s \ {take[s]}]
          BY <2>4, <4>3
        <4>5. h[s] = Stepped(first, take, step, g, s)
          OBVIOUS
        <4> HIDE DEF h
        <4> QED
          BY <3>2, <4>4, <4>5 DEF Stepped
      <3> QED
        BY <3>1, <3>2
    <2> HIDE DEF h
    <2>7. Upto(n, h)
      BY <2>6
    <2>8. n \notin Bad
      <3> HIDE DEF Upto
      <3> QED
        BY <2>5, <2>7
    <2> QED
      BY <2>8
  <1>2. Cardinality(S) \in Nat /\ \A s \in SUBSET S : Cardinality(s) <= Cardinality(S)
    BY FS_CardinalityType, Smaller
  <1>3. PICK g \in [SUBSET S -> D] : Upto(Cardinality(S), g)
    BY <1>1, <1>2
  <1>4. g = [s \in SUBSET S |-> Stepped(first, take, step, g, s)]
    <2>1. \A s \in SUBSET S : g[s] = Stepped(first, take, step, g, s)
      BY <1>2, <1>3
    <2> QED
      BY <2>1
  <1> QED
    BY <1>4 DEF Steps

=============================================================================
