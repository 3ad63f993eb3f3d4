-------------------------- MODULE Earnings_proofs --------------------------
(***************************************************************************)
(* What gifts take and hosts earn.  A draw pays what its steps show and    *)
(* steers the pool to its target, and what a host earns is shown on one    *)
(* day: for any weights, clock and number of streams.  A gift that is      *)
(* tried again happens once, and what the room is told was paid: for any   *)
(* number of tries, nodes and rewards, whatever the network loses.         *)
(* The sums of the first two are folds: a family of sets with no smallest  *)
(* set outside it holds them all, which stands in for induction over data. *)
(***************************************************************************)
EXTENDS Gifts, LuckyDraw, HostStats, FiniteSetTheorems, WellFoundedInduction, TLAPS

-----------------------------------------------------------------------------
(* Sums over finite sets *)

\* Induction over the subsets of a finite set, with a family of sets for the induction
\* hypothesis.
LEMMA SmallerFirst ==
    ASSUME NEW S, IsFiniteSet(S), NEW F,
           ASSUME NEW T \in SUBSET S, \A U \in SUBSET T : U # T => U \in F
           PROVE  T \in F
    PROVE  S \in F
<1> SUFFICES ASSUME S \notin F PROVE FALSE
  OBVIOUS
<1> DEFINE Bad == {T \in SUBSET S : T \notin F}
<1>1. Bad # {} /\ Bad \subseteq FiniteSubsetsOf(S)
  BY FS_FiniteSubsetsOfFinite
<1>2. PICK B \in Bad : \A T \in Bad : <<T, B>> \notin StrictSubsetOrdering(S)
  <2> HIDE DEF Bad
  <2> QED
    BY <1>1, FS_StrictSubsetOrderingWellFounded, WFMin
<1>3. \A U \in SUBSET B : U # B => U \in F
  <2> SUFFICES ASSUME NEW U \in SUBSET B, U # B PROVE U \in F
    OBVIOUS
  <2>1. <<U, B>> \in StrictSubsetOrdering(S)
    BY DEF StrictSubsetOrdering
  <2> QED
    BY <1>2, <2>1
<1> QED
  BY <1>3

LEMMA OneMore ==
    ASSUME NEW S, IsFiniteSet(S), NEW F, {} \in F,
           ASSUME NEW T \in SUBSET S, NEW x \in S \ T, T \in F
           PROVE  T \cup {x} \in F
    PROVE  S \in F
<1>1. ASSUME NEW T \in SUBSET S, \A U \in SUBSET T : U # T => U \in F
      PROVE  T \in F
  <2>1. CASE T = {}
    BY <2>1
  <2>2. ASSUME NEW x \in T PROVE T \in F
    <3>1. T \ {x} \in F /\ T \ {x} \in SUBSET S /\ x \in S \ (T \ {x})
      BY <1>1, <2>2
    <3>2. (T \ {x}) \cup {x} \in F
      BY <3>1
    <3>3. (T \ {x}) \cup {x} = T
      BY <2>2
    <3> QED
      BY <3>2, <3>3
  <2> QED
    BY <2>1, <2>2
<1> QED
  BY <1>1, SmallerFirst

LEMMA Upwards ==
    ASSUME NEW N, 0 \in N, \A n \in Nat : n \in N => n + 1 \in N, NEW k \in Nat
    PROVE  k \in N
<1> DEFINE F == {T \in SUBSET (1..k) : IsFiniteSet(T) /\ Cardinality(T) \in N}
<1>1. IsFiniteSet(1..k) /\ Cardinality(1..k) = k
  BY FS_Interval
<1>2. {} \in F
  BY FS_EmptySet
<1>3. ASSUME NEW T \in SUBSET (1..k), NEW x \in (1..k) \ T, T \in F
      PROVE  T \cup {x} \in F
  <2>1. IsFiniteSet(T \cup {x}) /\ Cardinality(T \cup {x}) = Cardinality(T) + 1
    BY <1>3, FS_AddElement
  <2>2. Cardinality(T) \in Nat
    BY <1>3, FS_CardinalityType
  <2> QED
    BY <1>3, <2>1, <2>2
<1>4. 1..k \in F
  <2> HIDE DEF F
  <2> QED
    BY <1>1, <1>2, <1>3, OneMore
<1> QED
  BY <1>1, <1>4

-----------------------------------------------------------------------------
Chosen(s) == CHOOSE x \in s : TRUE

\* What the fold of a sum computes for a set whose smaller sets it has in it.
FoldNext(f, it, s) == IF s = {} THEN 0 ELSE f[Chosen(s)] + it[s \ {Chosen(s)}]
FoldsSum(f, S, it) == it = [s \in SUBSET S |-> FoldNext(f, it, s)]

LEMMA SumIs ==
    ASSUME NEW f, NEW S
    PROVE  SumFunctionOnSet(f, S) = (CHOOSE it : FoldsSum(f, S, it))[S]
BY DEF SumFunctionOnSet, FoldFunctionOnSet, MapThenFoldSet, FoldsSum, FoldNext, Chosen

\* There is such a function: it is built for ever larger sets.
LEMMA FoldExists ==
    ASSUME NEW f, NEW S, IsFiniteSet(S)
    PROVE  \E it : FoldsSum(f, S, it)
<1> DEFINE Upto(n) == {s \in SUBSET S : Cardinality(s) <= n}
           N == {n \in Nat : \E it : it = [s \in Upto(n) |-> FoldNext(f, it, s)]}
<1>1. \A s \in SUBSET S : /\ IsFiniteSet(s) /\ Cardinality(s) \in Nat
                          /\ s # {} => /\ s \ {Chosen(s)} \in SUBSET S
                                       /\ Cardinality(s \ {Chosen(s)}) = Cardinality(s) - 1
  <2> TAKE s \in SUBSET S
  <2>1. IsFiniteSet(s) /\ Cardinality(s) \in Nat
    BY FS_Subset, FS_CardinalityType
  <2>2. s # {} => Chosen(s) \in s
    BY DEF Chosen
  <2> QED
    BY <2>1, <2>2, FS_RemoveElement
<1>0. \A s \in SUBSET S : IsFiniteSet(s) /\ Cardinality(s) \in Nat
  BY <1>1
<1>2. 0 \in N
  <2>1. Upto(0) = {{}}
    <3>1. {} \in Upto(0)
      BY FS_EmptySet
    <3>2. ASSUME NEW s \in Upto(0) PROVE s = {}
      <4>1. IsFiniteSet(s) /\ Cardinality(s) = 0
        BY <1>0
      <4> QED
        BY <4>1, FS_EmptySet
    <3> QED
      BY <3>1, <3>2
  <2> DEFINE it == [s \in Upto(0) |-> 0]
  <2>2. it = [s \in Upto(0) |-> FoldNext(f, it, s)]
    BY <2>1 DEF FoldNext
  <2> QED
    BY <2>2
<1>3. ASSUME NEW n \in Nat, n \in N PROVE n + 1 \in N
  <2>1. PICK it : it = [s \in Upto(n) |-> FoldNext(f, it, s)]
    BY <1>3
  <2> DEFINE more == [s \in Upto(n + 1) |-> FoldNext(f, it, s)]
  <2>2. \A s \in Upto(n + 1) : s # {} => s \ {Chosen(s)} \in Upto(n) /\ s \ {Chosen(s)} \in Upto(n + 1)
    BY <1>1
  <2>3. \A s \in Upto(n) : s \in Upto(n + 1) /\ more[s] = it[s]
    <3>1. \A s \in Upto(n) : s \in Upto(n + 1)
      BY <1>0
    <3> HIDE DEF Upto, FoldNext
    <3> QED
      BY <2>1, <3>1
  <2>4. \A s \in Upto(n + 1) : FoldNext(f, it, s) = FoldNext(f, more, s)
    <3> HIDE DEF more, Upto
    <3> QED
      BY <2>2, <2>3 DEF FoldNext
  <2>5. more = [s \in Upto(n + 1) |-> FoldNext(f, more, s)]
    <3> DEFINE again == [s \in Upto(n + 1) |-> FoldNext(f, more, s)]
    <3> HIDE DEF Upto, FoldNext
    <3>1. \A s \in Upto(n + 1) : more[s] = again[s]
      BY <2>4
    <3> QED
      BY <3>1
  <2>6. \E g : g = [s \in Upto(n + 1) |-> FoldNext(f, g, s)]
    <3> HIDE DEF more, Upto
    <3> QED
      BY <2>5
  <2> QED
    BY <2>6
<1>4. Cardinality(S) \in N
  <2> HIDE DEF N
  <2> QED
    BY <1>2, <1>3, Upwards, FS_CardinalityType
<1>5. Upto(Cardinality(S)) = SUBSET S
  BY <1>1, FS_Subset
<1> QED
  BY <1>4, <1>5 DEF FoldsSum

\* Two such functions agree where both are defined.
LEMMA FoldUnique ==
    ASSUME NEW f, NEW g, NEW S, NEW T, NEW a, NEW b, FoldsSum(f, S, a), FoldsSum(g, T, b),
           NEW U, IsFiniteSet(U), U \subseteq S, U \subseteq T, \A x \in U : f[x] = g[x]
    PROVE  a[U] = b[U]
<1> DEFINE F == {s \in SUBSET U : a[s] = b[s]}
<1>1. ASSUME NEW s \in SUBSET U, \A r \in SUBSET s : r # s => r \in F
      PROVE  s \in F
  <2>1. a[s] = FoldNext(f, a, s) /\ b[s] = FoldNext(g, b, s)
    <3>1. s \in SUBSET S /\ s \in SUBSET T
      OBVIOUS
    <3> QED
      BY <3>1 DEF FoldsSum
  <2>2. s # {} => Chosen(s) \in s
    BY DEF Chosen
  <2>3. s # {} => s \ {Chosen(s)} \in F /\ f[Chosen(s)] = g[Chosen(s)]
    BY <1>1, <2>2
  <2> QED
    BY <2>1, <2>3 DEF FoldNext
<1>2. U \in F
  <2> HIDE DEF F
  <2> QED
    BY <1>1, SmallerFirst
<1> QED
  BY <1>2

\* The equation of the sum.
LEMMA SumStep ==
    ASSUME NEW f, NEW S, IsFiniteSet(S)
    PROVE  /\ SumFunctionOnSet(f, {}) = 0
           /\ S # {} => /\ Chosen(S) \in S
                        /\ SumFunctionOnSet(f, S)
                           = f[Chosen(S)] + SumFunctionOnSet(f, S \ {Chosen(S)})
<1> DEFINE It(T) == CHOOSE it : FoldsSum(f, T, it)
<1>1. ASSUME NEW T, IsFiniteSet(T) PROVE FoldsSum(f, T, It(T))
  BY <1>1, FoldExists
<1> HIDE DEF It
<1>2. \A T : SumFunctionOnSet(f, T) = It(T)[T]
  BY SumIs DEF It
<1>3. It({})[{}] = 0
  BY <1>1, FS_EmptySet DEF FoldsSum, FoldNext
<1>4. ASSUME S # {}
      PROVE  /\ Chosen(S) \in S
             /\ It(S)[S] = f[Chosen(S)] + It(S \ {Chosen(S)})[S \ {Chosen(S)}]
  <2>1. Chosen(S) \in S
    BY <1>4 DEF Chosen
  <2>2. IsFiniteSet(S \ {Chosen(S)})
    BY FS_RemoveElement
  <2>3. It(S)[S \ {Chosen(S)}] = It(S \ {Chosen(S)})[S \ {Chosen(S)}]
    BY <1>1, <2>2, FoldUnique
  <2>4. It(S)[S] = FoldNext(f, It(S), S)
    BY <1>1 DEF FoldsSum
  <2> QED
    BY <1>4, <2>1, <2>3, <2>4 DEF FoldNext
<1> QED
  BY <1>2, <1>3, <1>4

Ints(f, S) == \A x \in S : f[x] \in Int

LEMMA SumType ==
    ASSUME NEW f, NEW S, IsFiniteSet(S), Ints(f, S)
    PROVE  SumFunctionOnSet(f, S) \in Int
<1> DEFINE F == {s \in SUBSET S : SumFunctionOnSet(f, s) \in Int}
<1>1. ASSUME NEW T \in SUBSET S, \A U \in SUBSET T : U # T => U \in F
      PROVE  T \in F
  <2>1. CASE T = {}
    <3>1. SumFunctionOnSet(f, {}) = 0
      BY SumStep
    <3> QED
      BY <2>1, <3>1
  <2>2. CASE T # {}
    <3>1. IsFiniteSet(T)
      BY FS_Subset
    <3>2. /\ Chosen(T) \in T
          /\ SumFunctionOnSet(f, T) = f[Chosen(T)] + SumFunctionOnSet(f, T \ {Chosen(T)})
      BY <2>2, <3>1, SumStep
    <3>3. SumFunctionOnSet(f, T \ {Chosen(T)}) \in Int
      BY <1>1, <3>2
    <3> QED
      BY <3>2, <3>3 DEF Ints
  <2> QED
    BY <2>1, <2>2
<1>2. S \in F
  <2> HIDE DEF F
  <2> QED
    BY <1>1, SmallerFirst
<1> QED
  BY <1>2

\* Any element may be taken out first.
LEMMA SumTakes ==
    ASSUME NEW f, NEW S, IsFiniteSet(S), Ints(f, S), NEW x \in S
    PROVE  SumFunctionOnSet(f, S) = f[x] + SumFunctionOnSet(f, S \ {x})
<1> DEFINE Takes(s, y) == SumFunctionOnSet(f, s) = f[y] + SumFunctionOnSet(f, s \ {y})
           F == {s \in SUBSET S : \A y \in s : Takes(s, y)}
<1>1. ASSUME NEW T \in SUBSET S, \A U \in SUBSET T : U # T => U \in F
      PROVE  T \in F
  <2> SUFFICES ASSUME NEW y \in T PROVE Takes(T, y)
    OBVIOUS
  <2> DEFINE c == Chosen(T)
  <2>1. IsFiniteSet(T)
    BY FS_Subset
  <2>2. c \in T /\ Takes(T, c)
    BY <2>1, SumStep
  <2>3. CASE y = c
    BY <2>2, <2>3
  <2>4. CASE y # c
    <3> DEFINE R == (T \ {c}) \ {y}
    <3>1. Takes(T \ {c}, y) /\ Takes(T \ {y}, c)
      BY <1>1, <2>2, <2>4
    <3>2. (T \ {y}) \ {c} = R
      OBVIOUS
    <3>3. SumFunctionOnSet(f, R) \in Int /\ f[c] \in Int /\ f[y] \in Int
      <4>1. IsFiniteSet(R) /\ Ints(f, R)
        BY <2>1, FS_Subset DEF Ints
      <4> QED
        BY <2>2, <4>1, SumType DEF Ints
    <3> HIDE DEF R, c
    <3>4. SumFunctionOnSet(f, T) = f[c] + (f[y] + SumFunctionOnSet(f, R))
      BY <2>2, <3>1 DEF R
    <3>5. SumFunctionOnSet(f, T \ {y}) = f[c] + SumFunctionOnSet(f, R)
      BY <3>1, <3>2
    <3> QED
      BY <3>3, <3>4, <3>5
  <2> QED
    BY <2>3, <2>4
<1>2. S \in F
  <2> HIDE DEF F
  <2> QED
    BY <1>1, SmallerFirst
<1> QED
  BY <1>2

LEMMA SumAgrees ==
    ASSUME NEW f, NEW g, NEW S, IsFiniteSet(S), \A x \in S : f[x] = g[x]
    PROVE  SumFunctionOnSet(f, S) = SumFunctionOnSet(g, S)
<1>1. PICK a : a = CHOOSE it : FoldsSum(f, S, it)
  OBVIOUS
<1>2. PICK b : b = CHOOSE it : FoldsSum(g, S, it)
  OBVIOUS
<1>3. FoldsSum(f, S, a) /\ FoldsSum(g, S, b)
  BY <1>1, <1>2, FoldExists
<1>4. a[S] = b[S]
  BY <1>3, FoldUnique
<1> QED
  BY <1>1, <1>2, <1>4, SumIs

LEMMA SumUnion ==
    ASSUME NEW f, NEW S, NEW T, IsFiniteSet(S), IsFiniteSet(T), S \cap T = {},
           Ints(f, S \cup T)
    PROVE  SumFunctionOnSet(f, S \cup T) = SumFunctionOnSet(f, S) + SumFunctionOnSet(f, T)
<1> DEFINE F == {s \in SUBSET T : SumFunctionOnSet(f, S \cup s)
                                  = SumFunctionOnSet(f, S) + SumFunctionOnSet(f, s)}
<1>1. {} \in F
  <2>1. S \cup {} = S /\ SumFunctionOnSet(f, {}) = 0
    BY SumStep
  <2>2. SumFunctionOnSet(f, S) \in Int
    BY SumType DEF Ints
  <2> QED
    BY <2>1, <2>2
<1>2. ASSUME NEW s \in SUBSET T, NEW x \in T \ s, s \in F
      PROVE  s \cup {x} \in F
  <2>1. IsFiniteSet(s) /\ IsFiniteSet(s \cup {x}) /\ IsFiniteSet(S \cup s)
        /\ IsFiniteSet(S \cup (s \cup {x}))
    <3>1. IsFiniteSet(s) /\ IsFiniteSet(s \cup {x})
      BY FS_Subset
    <3> QED
      BY <3>1, FS_Union
  <2>2. SumFunctionOnSet(f, S \cup (s \cup {x})) = f[x] + SumFunctionOnSet(f, S \cup s)
    <3>1. (S \cup (s \cup {x})) \ {x} = S \cup s
      OBVIOUS
    <3>2. Ints(f, S \cup (s \cup {x})) /\ x \in S \cup (s \cup {x})
      BY DEF Ints
    <3> QED
      BY <2>1, <3>1, <3>2, SumTakes
  <2>3. SumFunctionOnSet(f, s \cup {x}) = f[x] + SumFunctionOnSet(f, s)
    <3>1. (s \cup {x}) \ {x} = s
      BY <1>2
    <3>2. Ints(f, s \cup {x}) /\ x \in s \cup {x}
      BY DEF Ints
    <3> QED
      BY <2>1, <3>1, <3>2, SumTakes
  <2>4. SumFunctionOnSet(f, s) \in Int /\ SumFunctionOnSet(f, S) \in Int /\ f[x] \in Int
    BY <2>1, SumType DEF Ints
  <2> QED
    BY <1>2, <2>2, <2>3, <2>4
<1>3. T \in F
  <2> HIDE DEF F
  <2> QED
    BY <1>1, <1>2, OneMore
<1> QED
  BY <1>3

\* A sum of naturals is a natural number, and at least as large as each of them.
LEMMA SumIsNat ==
    ASSUME NEW f, NEW S, IsFiniteSet(S), \A x \in S : f[x] \in Nat
    PROVE  SumFunctionOnSet(f, S) \in Nat
<1> DEFINE F == {s \in SUBSET S : SumFunctionOnSet(f, s) \in Nat}
<1>1. {} \in F
  <2>1. SumFunctionOnSet(f, {}) = 0
    BY SumStep
  <2> QED
    BY <2>1
<1>2. ASSUME NEW s \in SUBSET S, NEW x \in S \ s, s \in F
      PROVE  s \cup {x} \in F
  <2>1. IsFiniteSet(s \cup {x}) /\ Ints(f, s \cup {x}) /\ (s \cup {x}) \ {x} = s
    BY FS_Subset DEF Ints
  <2>2. SumFunctionOnSet(f, s \cup {x}) = f[x] + SumFunctionOnSet(f, s)
    BY <2>1, SumTakes
  <2> QED
    BY <1>2, <2>2
<1>3. S \in F
  <2> HIDE DEF F
  <2> QED
    BY <1>1, <1>2, OneMore
<1> QED
  BY <1>3

LEMMA SumNat ==
    ASSUME NEW f, NEW S, IsFiniteSet(S), \A x \in S : f[x] \in Nat
    PROVE  /\ SumFunctionOnSet(f, S) \in Nat
           /\ \A x \in S : f[x] <= SumFunctionOnSet(f, S)
<1>1. ASSUME NEW x \in S PROVE f[x] <= SumFunctionOnSet(f, S)
  <2>1. SumFunctionOnSet(f, S) = f[x] + SumFunctionOnSet(f, S \ {x})
    BY SumTakes DEF Ints
  <2>2. IsFiniteSet(S \ {x}) /\ \A y \in S \ {x} : f[y] \in Nat
    BY FS_RemoveElement
  <2>3. SumFunctionOnSet(f, S \ {x}) \in Nat
    BY <2>2, SumIsNat
  <2> QED
    BY <2>1, <2>3
<1> QED
  BY <1>1, SumIsNat

LEMMA SumOfZeros ==
    ASSUME NEW f, NEW S, IsFiniteSet(S), \A x \in S : f[x] = 0
    PROVE  SumFunctionOnSet(f, S) = 0
<1> DEFINE F == {s \in SUBSET S : SumFunctionOnSet(f, s) = 0}
<1>1. {} \in F
  <2>1. SumFunctionOnSet(f, {}) = 0
    BY SumStep
  <2> QED
    BY <2>1
<1>2. ASSUME NEW s \in SUBSET S, NEW x \in S \ s, s \in F
      PROVE  s \cup {x} \in F
  <2>1. IsFiniteSet(s \cup {x}) /\ Ints(f, s \cup {x}) /\ (s \cup {x}) \ {x} = s
    BY FS_Subset DEF Ints
  <2>2. SumFunctionOnSet(f, s \cup {x}) = f[x] + SumFunctionOnSet(f, s)
    BY <2>1, SumTakes
  <2> QED
    BY <1>2, <2>2
<1>3. S \in F
  <2> HIDE DEF F
  <2> QED
    BY <1>1, <1>2, OneMore
<1> QED
  BY <1>3

-----------------------------------------------------------------------------
(* Lucky draws: the steps of a combo *)

Last == MaxSteps - 1

\* What is left of the reward after each step, and the steps it makes.
Leaves(coins, w, left) ==
    left = [i \in 0..MaxSteps - 1 |->
               IF i = 0 THEN coins
               ELSE left[i - 1] - Least(Share(coins, w, i), left[i - 1])]
StepsOf(left) ==
    [i \in 1..MaxSteps |-> IF i < MaxSteps THEN left[i - 1] - left[i]
                           ELSE Most(0, left[MaxSteps - 1])]

LEMMA BreakdownIs ==
    ASSUME NEW coins, NEW w
    PROVE  Breakdown(coins, w) = StepsOf(CHOOSE left : Leaves(coins, w, left))
BY DEF Breakdown, StepsOf, Leaves

\* The recursion has a solution: it is built one step at a time.
LEMMA LeavesExists ==
    ASSUME NEW coins, NEW w
    PROVE  \E left : Leaves(coins, w, left)
<1> DEFINE After(l, i) == IF i = 0 THEN coins ELSE l[i - 1] - Least(Share(coins, w, i), l[i - 1])
           N == {n \in Nat : \E l : l = [i \in 0..n |-> After(l, i)]}
<1>1. 0 \in N
  <2> DEFINE l == [i \in 0..0 |-> coins]
  <2>1. l = [i \in 0..0 |-> After(l, i)]
    OBVIOUS
  <2> QED
    BY <2>1
<1>2. ASSUME NEW n \in Nat, n \in N PROVE n + 1 \in N
  <2>1. PICK l : l = [i \in 0..n |-> After(l, i)]
    BY <1>2
  <2> DEFINE more == [i \in 0..n + 1 |-> After(l, i)]
             again == [i \in 0..n + 1 |-> After(more, i)]
  <2>2. \A i \in 0..n : more[i] = l[i]
    <3> HIDE DEF After
    <3> QED
      BY <2>1
  <2>3. \A i \in 0..n + 1 : After(l, i) = After(more, i)
    <3> HIDE DEF more
    <3> QED
      BY <2>2
  <2>4. more = again
    <3> HIDE DEF After
    <3> QED
      BY <2>3
  <2>5. \E g : g = [i \in 0..n + 1 |-> After(g, i)]
    <3> HIDE DEF After, more
    <3> QED
      BY <2>4
  <2> QED
    BY <2>5
<1>3. Last \in N
  <2>1. Last \in Nat
    BY DrawAssumption DEF Last
  <2> HIDE DEF N
  <2> QED
    BY <1>1, <1>2, <2>1, Upwards
<1> QED
  BY <1>3 DEF Leaves, Last

\* Each step takes its rounded share, or what is left.
LEMMA ShareIsNat ==
    ASSUME NEW coins \in Nat, NEW w \in [1..MaxSteps -> Weights], NEW i \in 1..MaxSteps
    PROVE  Share(coins, w, i) \in Nat
<1>1. \A k \in 1..MaxSteps : w[k] \in Nat \ {0}
  BY DrawAssumption
<1>2. SumFunction(w) \in Nat /\ w[i] <= SumFunction(w)
  <2>1. IsFiniteSet(1..MaxSteps) /\ DOMAIN w = 1..MaxSteps
    BY FS_Interval, DrawAssumption
  <2> QED
    BY <1>1, <2>1, SumNat DEF SumFunction
<1>3. w[i] * coins \in Nat
  BY <1>1
<1>4. \A a \in Nat, b \in Nat \ {0} : a \div b \in Nat
  OBVIOUS
<1>5. 2 * (w[i] * coins) + SumFunction(w) \in Nat /\ 2 * SumFunction(w) \in Nat \ {0}
  BY <1>1, <1>2, <1>3
<1> QED
  BY <1>4, <1>5 DEF Share, Round

LEMMA LeavesNat ==
    ASSUME NEW coins \in Nat, NEW w \in [1..MaxSteps -> Weights],
           NEW left, Leaves(coins, w, left)
    PROVE  /\ left[0] = coins
           /\ \A i \in 0..Last : left[i] \in Nat
           /\ \A i \in 1..Last : left[i] <= left[i - 1]
<1>1. Last \in Nat /\ \A i \in 0..Last : left[i] =
         IF i = 0 THEN coins ELSE left[i - 1] - Least(Share(coins, w, i), left[i - 1])
  BY DrawAssumption DEF Leaves, Last
<1>2. \A i \in 1..Last : Share(coins, w, i) \in Nat
  BY ShareIsNat, DrawAssumption DEF Last
<1> DEFINE N == {n \in Nat : n <= Last => left[n] \in Nat}
<1>3. 0 \in N
  BY <1>1
<1>4. ASSUME NEW n \in Nat, n \in N PROVE n + 1 \in N
  <2> SUFFICES ASSUME n + 1 <= Last PROVE left[n + 1] \in Nat
    OBVIOUS
  <2>1. left[n + 1] = left[n] - Least(Share(coins, w, n + 1), left[n])
    BY <1>1
  <2>2. left[n] \in Nat /\ Share(coins, w, n + 1) \in Nat
    BY <1>1, <1>2, <1>4
  <2> QED
    BY <2>1, <2>2 DEF Least
<1>5. \A n \in Nat : n \in N
  <2> HIDE DEF N
  <2> QED
    BY <1>3, <1>4, Upwards
<1>6. \A i \in 0..Last : left[i] \in Nat
  BY <1>1, <1>5
<1>7. ASSUME NEW i \in 1..Last PROVE left[i] <= left[i - 1]
  <2>1. left[i] = left[i - 1] - Least(Share(coins, w, i), left[i - 1])
    BY <1>1
  <2>2. left[i - 1] \in Nat /\ Share(coins, w, i) \in Nat
    BY <1>1, <1>2, <1>6
  <2> QED
    BY <2>1, <2>2 DEF Least
<1> QED
  BY <1>1, <1>6, <1>7

\* The steps add up to the reward, and none is negative.
LEMMA BreakdownSumsUp ==
    ASSUME NEW coins \in Nat, NEW w \in [1..MaxSteps -> Weights]
    PROVE  /\ DOMAIN Breakdown(coins, w) = 1..MaxSteps
           /\ \A i \in 1..MaxSteps : Breakdown(coins, w)[i] \in Nat
           /\ SumFunction(Breakdown(coins, w)) = coins
<1>1. PICK left : left = CHOOSE l : Leaves(coins, w, l)
  OBVIOUS
<1>2. Leaves(coins, w, left) /\ Breakdown(coins, w) = StepsOf(left)
  BY <1>1, LeavesExists, BreakdownIs
<1> DEFINE s == StepsOf(left)
<1>3. MaxSteps \in Nat \ {0} /\ Last \in Nat /\ Last = MaxSteps - 1
  BY DrawAssumption DEF Last
<1>4. /\ left[0] = coins
      /\ \A i \in 0..Last : left[i] \in Nat
      /\ \A i \in 1..Last : left[i] <= left[i - 1]
  BY <1>2, LeavesNat
<1>5. /\ DOMAIN s = 1..MaxSteps
      /\ \A i \in 1..Last : s[i] = left[i - 1] - left[i]
      /\ s[MaxSteps] = left[Last]
  BY <1>3, <1>4 DEF StepsOf, Most
<1>6. \A i \in 1..MaxSteps : s[i] \in Nat
  <2> SUFFICES ASSUME NEW i \in 1..MaxSteps PROVE s[i] \in Nat
    OBVIOUS
  <2> HIDE DEF s
  <2>1. CASE i = MaxSteps
    BY <1>3, <1>4, <1>5, <2>1
  <2>2. CASE i # MaxSteps
    <3>1. i \in 1..Last /\ i \in 0..Last /\ i - 1 \in 0..Last
      BY <1>3, <2>2
    <3>2. left[i] \in Nat /\ left[i - 1] \in Nat /\ left[i] <= left[i - 1]
      BY <1>4, <3>1
    <3> QED
      BY <1>5, <3>1, <3>2
  <2> QED
    BY <2>1, <2>2
<1> HIDE DEF s
<1>7. ASSUME NEW n \in Nat, n < MaxSteps
      PROVE  SumFunctionOnSet(s, 1..n + 1) = SumFunctionOnSet(s, 1..n) + s[n + 1]
  <2>1. IsFiniteSet(1..n + 1) /\ (1..n + 1) \ {n + 1} = 1..n /\ n + 1 \in 1..n + 1
    BY FS_Interval
  <2>2. Ints(s, 1..n + 1)
    BY <1>3, <1>6, <1>7 DEF Ints
  <2>3. SumFunctionOnSet(s, 1..n + 1) = s[n + 1] + SumFunctionOnSet(s, 1..n)
    BY <2>1, <2>2, SumTakes
  <2>4. SumFunctionOnSet(s, 1..n) \in Int /\ s[n + 1] \in Int
    <3>1. IsFiniteSet(1..n) /\ Ints(s, 1..n)
      BY <2>2, FS_Interval DEF Ints
    <3> QED
      BY <2>1, <2>2, <3>1, SumType DEF Ints
  <2> QED
    BY <2>3, <2>4
<1> DEFINE N == {n \in Nat : n <= Last => SumFunctionOnSet(s, 1..n) = coins - left[n]}
<1>8. 0 \in N
  <2>1. 1..0 = {}
    OBVIOUS
  <2>2. SumFunctionOnSet(s, 1..0) = 0
    BY <2>1, SumStep, FS_EmptySet
  <2> QED
    BY <1>4, <2>2
<1>9. ASSUME NEW n \in Nat, n \in N PROVE n + 1 \in N
  <2> SUFFICES ASSUME n + 1 <= Last
               PROVE  SumFunctionOnSet(s, 1..n + 1) = coins - left[n + 1]
    OBVIOUS
  <2>1. SumFunctionOnSet(s, 1..n + 1) = SumFunctionOnSet(s, 1..n) + s[n + 1]
    BY <1>3, <1>7
  <2>2. SumFunctionOnSet(s, 1..n) = coins - left[n] /\ s[n + 1] = left[n] - left[n + 1]
    BY <1>3, <1>5, <1>9
  <2>3. left[n] \in Nat /\ left[n + 1] \in Nat
    BY <1>3, <1>4
  <2> QED
    BY <2>1, <2>2, <2>3
<1>10. SumFunctionOnSet(s, 1..Last) = coins - left[Last]
  <2>1. Last \in N
    <3> HIDE DEF N
    <3> QED
      BY <1>3, <1>8, <1>9, Upwards
  <2> QED
    BY <1>3, <2>1
<1>11. SumFunctionOnSet(s, 1..MaxSteps) = coins
  <2>1. SumFunctionOnSet(s, 1..Last + 1) = SumFunctionOnSet(s, 1..Last) + s[Last + 1]
    BY <1>3, <1>7
  <2>2. left[Last] \in Nat
    BY <1>3, <1>4
  <2> QED
    BY <1>3, <1>5, <1>10, <2>1, <2>2
<1> QED
  BY <1>2, <1>5, <1>6, <1>11 DEF SumFunction, s

-----------------------------------------------------------------------------
\* One more element adds its value.
LEMMA SumAdds ==
    ASSUME NEW f, NEW S, IsFiniteSet(S), Ints(f, S), NEW x, x \notin S, f[x] \in Int
    PROVE  /\ IsFiniteSet(S \cup {x}) /\ Ints(f, S \cup {x})
           /\ SumFunctionOnSet(f, S \cup {x}) = SumFunctionOnSet(f, S) + f[x]
<1>1. IsFiniteSet(S \cup {x}) /\ Ints(f, S \cup {x}) /\ (S \cup {x}) \ {x} = S
  BY FS_AddElement DEF Ints
<1>2. SumFunctionOnSet(f, S \cup {x}) = f[x] + SumFunctionOnSet(f, S)
  BY <1>1, SumTakes
<1>3. SumFunctionOnSet(f, S) \in Int
  BY SumType
<1> QED
  BY <1>1, <1>2, <1>3

\* The sum of a function with five arguments.
LEMMA SumOfFive ==
    ASSUME NEW f, NEW a, NEW b, NEW c, NEW d, NEW e,
           DOMAIN f = {a, b, c, d, e}, Ints(f, {a, b, c, d, e}),
           b # a, c \notin {a, b}, d \notin {a, b, c}, e \notin {a, b, c, d}
    PROVE  SumFunction(f) = f[a] + f[b] + f[c] + f[d] + f[e]
<1>0. f[a] \in Int /\ f[b] \in Int /\ f[c] \in Int /\ f[d] \in Int /\ f[e] \in Int
  BY DEF Ints
<1>1. /\ IsFiniteSet({}) /\ Ints(f, {}) /\ SumFunctionOnSet(f, {}) = 0
  BY SumStep, FS_EmptySet DEF Ints
<1>2. IsFiniteSet({} \cup {a}) /\ Ints(f, {} \cup {a}) /\ SumFunctionOnSet(f, {} \cup {a}) = 0 + f[a]
  BY <1>0, <1>1, SumAdds
<1>3. /\ IsFiniteSet({a} \cup {b}) /\ Ints(f, {a} \cup {b})
      /\ SumFunctionOnSet(f, {a} \cup {b}) = f[a] + f[b]
  <2>1. {} \cup {a} = {a} /\ 0 + f[a] = f[a]
    BY <1>0
  <2>2. IsFiniteSet({a}) /\ Ints(f, {a}) /\ SumFunctionOnSet(f, {a}) = f[a]
    BY <1>2, <2>1
  <2> QED
    BY <1>0, <2>2, SumAdds
<1>4. /\ IsFiniteSet({a, b} \cup {c}) /\ Ints(f, {a, b} \cup {c})
      /\ SumFunctionOnSet(f, {a, b} \cup {c}) = f[a] + f[b] + f[c]
  <2>1. {a} \cup {b} = {a, b}
    OBVIOUS
  <2>2. IsFiniteSet({a, b}) /\ Ints(f, {a, b}) /\ SumFunctionOnSet(f, {a, b}) = f[a] + f[b]
    BY <1>3, <2>1
  <2> QED
    BY <1>0, <2>2, SumAdds
<1>5. /\ IsFiniteSet({a, b, c} \cup {d}) /\ Ints(f, {a, b, c} \cup {d})
      /\ SumFunctionOnSet(f, {a, b, c} \cup {d}) = f[a] + f[b] + f[c] + f[d]
  <2>1. {a, b} \cup {c} = {a, b, c}
    OBVIOUS
  <2>2. /\ IsFiniteSet({a, b, c}) /\ Ints(f, {a, b, c})
        /\ SumFunctionOnSet(f, {a, b, c}) = f[a] + f[b] + f[c]
    BY <1>4, <2>1
  <2> QED
    BY <1>0, <2>2, SumAdds
<1>6. SumFunctionOnSet(f, {a, b, c, d} \cup {e}) = f[a] + f[b] + f[c] + f[d] + f[e]
  <2>1. {a, b, c} \cup {d} = {a, b, c, d}
    OBVIOUS
  <2>2. /\ IsFiniteSet({a, b, c, d}) /\ Ints(f, {a, b, c, d})
        /\ SumFunctionOnSet(f, {a, b, c, d}) = f[a] + f[b] + f[c] + f[d]
    BY <1>5, <2>1
  <2> QED
    BY <1>0, <2>2, SumAdds
<1>7. {a, b, c, d} \cup {e} = DOMAIN f
  OBVIOUS
<1> QED
  BY <1>6, <1>7 DEF SumFunction

-----------------------------------------------------------------------------
(* Lucky draws: the odds *)

\* What the two tables return, in numbers.
LEMMA StepsReturn ==
    ASSUME NEW miss \in Int, NEW medium \in Int, NEW jackpot \in Int
    PROVE  Return(Steps(miss, medium, jackpot))
           = [num |-> 3500 + 25 * medium + 100 * jackpot, den |-> 500 + miss + medium + jackpot]
<1> DEFINE o == Steps(miss, medium, jackpot)
           n == [k \in DOMAIN o |-> o[k].weight * o[k].pays]
           w == [k \in DOMAIN o |-> o[k].weight]
           All == {"MISS", "SMALL", "EQUAL", "MEDIUM", "JACKPOT"}
<1>1. DOMAIN n = All /\ DOMAIN w = All
  BY DEF Steps
<1>2. /\ n["MISS"] = 0 /\ n["SMALL"] = 1500 /\ n["EQUAL"] = 2000
      /\ n["MEDIUM"] = medium * 25 /\ n["JACKPOT"] = jackpot * 100
  BY DEF Steps
<1>3. /\ w["MISS"] = miss /\ w["SMALL"] = 300 /\ w["EQUAL"] = 200
      /\ w["MEDIUM"] = medium /\ w["JACKPOT"] = jackpot
  BY DEF Steps
<1> HIDE DEF n, w
<1>4. Ints(n, All) /\ Ints(w, All)
  BY <1>2, <1>3 DEF Ints
<1>5. /\ SumFunction(n) = n["MISS"] + n["SMALL"] + n["EQUAL"] + n["MEDIUM"] + n["JACKPOT"]
      /\ SumFunction(w) = w["MISS"] + w["SMALL"] + w["EQUAL"] + w["MEDIUM"] + w["JACKPOT"]
  BY <1>1, <1>4, SumOfFive
<1>6. SumFunction(n) = 3500 + 25 * medium + 100 * jackpot
  BY <1>2, <1>5
<1>7. SumFunction(w) = 500 + miss + medium + jackpot
  BY <1>3, <1>5
<1>8. Return(o) = [num |-> SumFunction(n), den |-> SumFunction(w)]
  BY DEF Return, n, w
<1> QED
  BY <1>6, <1>7, <1>8

LEMMA ComboReturn ==
    ASSUME NEW w, NEW nudge \in Int,
           w[1] \in Int, w[2] \in Int, w[3] \in Int, w[4] \in Int, w[5] \in Int
    PROVE  Return(Combo(w, nudge))
           = [num |-> w[1] * (0 + nudge) + w[2] * (50 + nudge) + w[3] * (90 + nudge)
                      + w[4] * (100 + nudge) + w[5] * (150 + nudge),
              den |-> w[1] + w[2] + w[3] + w[4] + w[5]]
<1> DEFINE o == Combo(w, nudge)
           n == [k \in DOMAIN o |-> o[k].weight * o[k].pays]
           u == [k \in DOMAIN o |-> o[k].weight]
           All == {"MISS", "UNLUCKY", "NORMAL", "BREAK_EVEN", "WINNER"}
<1>1. DOMAIN n = All /\ DOMAIN u = All
  BY DEF Combo
<1>2. /\ n["MISS"] = w[1] * (0 + nudge) /\ n["UNLUCKY"] = w[2] * (50 + nudge)
      /\ n["NORMAL"] = w[3] * (90 + nudge) /\ n["BREAK_EVEN"] = w[4] * (100 + nudge)
      /\ n["WINNER"] = w[5] * (150 + nudge)
  BY DEF Combo
<1>3. /\ u["MISS"] = w[1] /\ u["UNLUCKY"] = w[2] /\ u["NORMAL"] = w[3]
      /\ u["BREAK_EVEN"] = w[4] /\ u["WINNER"] = w[5]
  BY DEF Combo
<1> HIDE DEF n, u
<1>4. Ints(n, All) /\ Ints(u, All)
  BY <1>2, <1>3 DEF Ints
<1>5. /\ SumFunction(n) = n["MISS"] + n["UNLUCKY"] + n["NORMAL"] + n["BREAK_EVEN"] + n["WINNER"]
      /\ SumFunction(u) = u["MISS"] + u["UNLUCKY"] + u["NORMAL"] + u["BREAK_EVEN"] + u["WINNER"]
  BY <1>1, <1>4, SumOfFive
<1>6. Return(o) = [num |-> SumFunction(n), den |-> SumFunction(u)]
  BY DEF Return, n, u
<1> QED
  BY <1>2, <1>3, <1>5, <1>6

\* A pool off its target bends the odds of a single gift the right way.
LEMMA SinglesFollow ==
    ASSUME NEW d \in Int
    PROVE  /\ d > 4 => Below(Return(SingleOdds(0)), Return(SingleOdds(d)))
           /\ d < -4 => Below(Return(SingleOdds(d)), Return(SingleOdds(0)))
<1>1. Return(SingleOdds(0)) = [num |-> 6750, den |-> 1000]
  <2>1. SingleOdds(0) = Steps(400, 90, 10)
    BY DEF SingleOdds
  <2> QED
    BY <2>1, StepsReturn
<1>2. ASSUME d > 4 PROVE Below(Return(SingleOdds(0)), Return(SingleOdds(d)))
  <2> DEFINE b == Least(10, d)
             miss == Most(100, 400 - 10 * b)
             medium == 90 + 10 * Round(3 * b, 4)
             jackpot == 10 + 10 * Round(b, 4)
  <2>1. SingleOdds(d) = Steps(miss, medium, jackpot)
    BY <1>2 DEF SingleOdds
  <2>2. b \in 5..10
    BY <1>2 DEF Least
  <2>3. /\ miss = 400 - 10 * b
        /\ medium \in Int /\ medium >= 130
        /\ jackpot \in Int /\ jackpot >= 20
        /\ medium <= 170 /\ jackpot <= 40
    <3> HIDE DEF b
    <3> QED
      BY <2>2 DEF Most, Round
  <2>4. Return(SingleOdds(d))
        = [num |-> 3500 + 25 * medium + 100 * jackpot, den |-> 500 + miss + medium + jackpot]
    <3>1. miss \in Int /\ medium \in Int /\ jackpot \in Int
      BY <2>2, <2>3
    <3> HIDE DEF b, miss, medium, jackpot
    <3> QED
      BY <2>1, <3>1, StepsReturn
  <2> HIDE DEF b, miss, medium, jackpot
  <2> QED
    BY <1>1, <2>2, <2>3, <2>4 DEF Below
<1>3. ASSUME d < -4 PROVE Below(Return(SingleOdds(d)), Return(SingleOdds(0)))
  <2> DEFINE r == Least(10, -d)
             miss == 400 + 10 * Round(8 * r, 10)
             medium == Most(20, 90 - 10 * Round(6 * r, 10))
             jackpot == Most(1, 10 - 10 * Round(2 * r, 10))
  <2>1. SingleOdds(d) = Steps(miss, medium, jackpot)
    BY <1>3 DEF SingleOdds
  <2>2. r \in 5..10
    BY <1>3 DEF Least
  <2>3. /\ miss \in Int /\ miss >= 440
        /\ medium \in Int /\ medium <= 60 /\ medium >= 20
        /\ jackpot = 1
    <3> HIDE DEF r
    <3> QED
      BY <2>2 DEF Most, Round
  <2>4. Return(SingleOdds(d))
        = [num |-> 3500 + 25 * medium + 100 * jackpot, den |-> 500 + miss + medium + jackpot]
    <3>1. jackpot \in Int
      BY <2>3
    <3> HIDE DEF r, miss, medium, jackpot
    <3> QED
      BY <2>1, <2>3, <3>1, StepsReturn
  <2> HIDE DEF r, miss, medium, jackpot
  <2> QED
    BY <1>1, <2>3, <2>4 DEF Below
<1> QED
  BY <1>2, <1>3

LEMMA CombosFollow ==
    ASSUME NEW d \in Int
    PROVE  /\ d > 4 => Below(Return(ComboOdds(0)), Return(ComboOdds(d)))
           /\ d < -4 => Below(Return(ComboOdds(d)), Return(ComboOdds(0)))
<1>1. Return(ComboOdds(0)) = [num |-> 6650, den |-> 100]
  <2>1. ComboOdds(0) = Combo(NeutralWeights, 0)
    BY DEF ComboOdds
  <2> QED
    BY <2>1, ComboReturn DEF NeutralWeights
<1>2. ASSUME d > 4 PROVE Return(ComboOdds(d)) = [num |-> 7150, den |-> 100]
  <2>1. ComboOdds(d) = Combo(NeutralWeights, 5)
    BY <1>2 DEF ComboOdds
  <2> QED
    BY <2>1, ComboReturn DEF NeutralWeights
<1>3. ASSUME d < -4 PROVE Return(ComboOdds(d)) = [num |-> 5630, den |-> 100]
  <2>1. ComboOdds(d) = Combo(<<28, 27, 32, 11, 2>>, 0)
    BY <1>3 DEF ComboOdds
  <2> QED
    BY <2>1, ComboReturn
<1> QED
  BY <1>1, <1>2, <1>3 DEF Below

-----------------------------------------------------------------------------
(* Lucky draws *)

DrawInv ==
    /\ diff \in Int
    /\ BreakdownSums

LEMMA DrawInitHolds == DrawInit => DrawInv
<1> SUFFICES ASSUME DrawInit PROVE DrawInv
  OBVIOUS
<1>1. diff \in Int
  BY DrawAssumption DEF DrawInit
<1>2. IsFiniteSet(1..MaxSteps) /\ DOMAIN steps = 1..MaxSteps /\ \A i \in 1..MaxSteps : steps[i] = 0
  BY FS_Interval, DrawAssumption DEF DrawInit
<1>3. SumFunction(steps) = 0
  BY <1>2, SumOfZeros DEF SumFunction
<1> QED
  BY <1>1, <1>2, <1>3 DEF DrawInit, DrawInv, BreakdownSums

LEMMA DrawKeeps == DrawInv /\ [Draw]_drawVars => DrawInv'
<1> SUFFICES ASSUME DrawInv, [Draw]_drawVars PROVE DrawInv'
  OBVIOUS
<1>1. CASE Draw
  <2>1. PICK w \in [1..MaxSteps -> Weights] : steps' = Breakdown(reward', w)
    BY <1>1 DEF Draw
  <2>2. reward' \in Nat /\ diff' \in Int
    BY <1>1, DrawAssumption DEF Draw, DrawInv
  <2>3. /\ \A i \in 1..MaxSteps : steps'[i] \in Nat
        /\ SumFunction(steps') = reward'
    BY <2>1, <2>2, BreakdownSumsUp
  <2> QED
    BY <2>2, <2>3 DEF DrawInv, BreakdownSums
<1>2. CASE UNCHANGED drawVars
  BY <1>2 DEF drawVars, DrawInv, BreakdownSums
<1> QED
  BY <1>1, <1>2

\* What a draw pays is what the steps it shows come to, whatever the weights that are drawn,
\* and its odds steer the pool to its target, however far off it is.
THEOREM DrawsAreSound == DrawSpec => []DrawIsSound
<1>1. DrawInit => DrawInv
  BY DrawInitHolds
<1>2. DrawInv /\ [Draw]_drawVars => DrawInv'
  BY DrawKeeps
<1>3. DrawInv => DrawIsSound
  BY SinglesFollow, CombosFollow DEF DrawInv, DrawIsSound, DrawFollowsTarget
<1> QED
  BY <1>1, <1>2, <1>3, PTL DEF DrawSpec

-----------------------------------------------------------------------------
(* Days *)

\* A nonempty set of natural numbers has a least one.
LEMMA LeastExists ==
    ASSUME NEW S, S \subseteq Nat, S # {}
    PROVE  Min(S) \in S /\ \A y \in S : Min(S) <= y
<1>1. \E x \in S : \A y \in S : x <= y
  <2> SUFFICES ASSUME \A x \in S : \E y \in S : ~(x <= y) PROVE FALSE
    OBVIOUS
  <2> DEFINE N == {n \in Nat : \A m \in 0..n : m \notin S}
  <2>1. 0 \in N
    <3>1. \A m \in 0..0 : m \notin S
      OBVIOUS
    <3> QED
      BY <3>1
  <2>2. ASSUME NEW n \in Nat, n \in N PROVE n + 1 \in N
    <3>1. n + 1 \notin S
      <4> SUFFICES ASSUME n + 1 \in S PROVE FALSE
        OBVIOUS
      <4>1. PICK y \in S : ~(n + 1 <= y)
        OBVIOUS
      <4> QED
        BY <2>2, <4>1
    <3> QED
      BY <2>2, <3>1
  <2>3. ASSUME NEW n \in S PROVE FALSE
    <3>1. n \in N
      <4> HIDE DEF N
      <4> QED
        BY <2>1, <2>2, Upwards
    <3> QED
      BY <3>1
  <2> QED
    BY <2>3
<1> QED
  BY <1>1 DEF Min

\* The day something happens on begins at most two days' clocks before it, at 23:30 in India.
LEMMA TodayIs ==
    ASSUME NEW t \in Int
    PROVE  /\ Today(t).start \in Int /\ Today(t).start % 48 = 36
           /\ Today(t).start <= t /\ t < Today(t).start + 48
           /\ Today(t) = [start |-> Today(t).start, end |-> Today(t).start + 48]
BY DEF Today, IstDay, At, HalfHours, IstOffset, AnchorUtc

\* The clock goes forward by a day at most.
LEMMA NextIs ==
    ASSUME now \in Int
    PROVE  NextInstant \in Int /\ now < NextInstant /\ NextInstant <= now + 48
<1> DEFINE midnight == 48 * (now \div 48)
           later == {c \in Clock : midnight + c > now}
<1>1. midnight \in Int /\ midnight <= now /\ now < midnight + 48
  OBVIOUS
<1> HIDE DEF midnight
<1>2. Clock \subseteq 0..47 /\ Clock \subseteq Nat /\ Clock # {}
  BY StatsAssumption
<1>3. CASE later # {}
  <2>1. NextInstant = midnight + Min(later)
    BY <1>3 DEF NextInstant, midnight, HalfHours
  <2>2. later \subseteq Nat
    BY <1>2
  <2>3. Min(later) \in later
    <3> HIDE DEF later
    <3> QED
      BY <1>3, <2>2, LeastExists
  <2>4. Min(later) \in 0..47 /\ midnight + Min(later) > now
    BY <1>2, <2>3
  <2> HIDE DEF later
  <2> QED
    BY <1>1, <2>1, <2>4
<1>4. CASE later = {}
  <2>1. NextInstant = midnight + 48 + Min(Clock)
    BY <1>4 DEF NextInstant, midnight, HalfHours
  <2>2. Min(Clock) \in Clock
    BY <1>2, LeastExists
  <2>3. Min(Clock) \in 0..47
    BY <1>2, <2>2
  <2>4. ~(midnight + Min(Clock) > now)
    BY <1>4, <2>2
  <2> QED
    BY <1>1, <2>1, <2>3, <2>4
<1> QED
  BY <1>3, <1>4

\* The next instant is on the same day or on the next.
LEMMA NextDay ==
    ASSUME now \in Int, now' = NextInstant
    PROVE  /\ now' \in Int /\ now < now'
           /\ Today(now') = Today(now) \/ Today(now').start = Today(now).start + 48
<1>1. now' \in Int /\ now < now' /\ now' <= now + 48
  BY NextIs
<1> DEFINE a == Today(now).start
           b == Today(now').start
<1>2. /\ a \in Int /\ a % 48 = 36 /\ a <= now /\ now < a + 48
      /\ Today(now) = [start |-> a, end |-> a + 48]
  BY TodayIs
<1>3. /\ b \in Int /\ b % 48 = 36 /\ b <= now' /\ now' < b + 48
      /\ Today(now') = [start |-> b, end |-> b + 48]
  BY <1>1, TodayIs
<1> HIDE DEF a, b
<1>4. b = a \/ b = a + 48
  BY <1>1, <1>2, <1>3
<1>5. CASE b = a
  BY <1>1, <1>2, <1>3, <1>5
<1>6. CASE b = a + 48
  BY <1>1, <1>6 DEF a, b
<1> QED
  BY <1>4, <1>5, <1>6

-----------------------------------------------------------------------------
(* The figures of a host *)

Before(start) == {t \in entries : t < start}
EndedBefore(start) == {s \in ended : s.to < start}

StatsTyped ==
    /\ now \in Int
    /\ IsFiniteSet(entries) /\ entries \subseteq Int /\ \A t \in entries : t <= now
    /\ IsFiniteSet(ended) /\ ended \subseteq [from : Int, to : Int, effective : Int]
    /\ \A s \in ended : s.to <= now

\* The figures of the closed days are those of everything before today.
ClosedSoFar ==
    /\ closed.points = Cardinality(Before(Today(now).start))
    /\ closed.seconds = SumFunctionOnSet(Seconds, EndedBefore(Today(now).start))

StatsInv == StatsTyped /\ ClosedSoFar

LEMMA SecondsInts == StatsTyped => Ints(Seconds, ended)
BY DEF StatsTyped, Ints, Seconds

\* The figures of a day, added to those of the days before it.
LEMMA DayAdds ==
    ASSUME StatsTyped, NEW a \in Int, NEW S, S = [start |-> a, end |-> a + 48]
    PROVE  /\ Cardinality(Before(a)) + Metrics(S).points = Cardinality(Before(a + 48))
           /\ SumFunctionOnSet(Seconds, EndedBefore(a)) + Metrics(S).seconds
              = SumFunctionOnSet(Seconds, EndedBefore(a + 48))
<1> DEFINE day == {t \in entries : Within(t, S)}
           done == {s \in ended : Within(s.to, S)}
<1>1. Metrics(S).points = Cardinality(day) /\ Metrics(S).seconds = SumFunctionOnSet(Seconds, done)
  BY DEF Metrics
<1>0. S.start = a /\ S.end = a + 48
  OBVIOUS
<1>2. Before(a + 48) = Before(a) \cup day /\ Before(a) \cap day = {}
  <2>1. \A t \in entries : t \in Int
    BY DEF StatsTyped
  <2>2. \A t \in entries : Within(t, S) <=> a <= t /\ t < a + 48
    BY <1>0 DEF Within
  <2>3. \A t \in entries : t < a + 48 <=> t < a \/ (a <= t /\ t < a + 48)
    BY <2>1
  <2>4. \A t \in entries : ~(t < a /\ a <= t)
    BY <2>1
  <2> QED
    BY <2>2, <2>3, <2>4 DEF Before
<1>3. EndedBefore(a + 48) = EndedBefore(a) \cup done /\ EndedBefore(a) \cap done = {}
  <2>1. \A s \in ended : s.to \in Int
    BY DEF StatsTyped
  <2>2. \A s \in ended : Within(s.to, S) <=> a <= s.to /\ s.to < a + 48
    BY <1>0 DEF Within
  <2>3. \A s \in ended : s.to < a + 48 <=> s.to < a \/ (a <= s.to /\ s.to < a + 48)
    BY <2>1
  <2>4. \A s \in ended : ~(s.to < a /\ a <= s.to)
    BY <2>1
  <2> QED
    BY <2>2, <2>3, <2>4 DEF EndedBefore
<1>4. IsFiniteSet(Before(a)) /\ IsFiniteSet(day)
  BY FS_Subset DEF StatsTyped, Before
<1>5. IsFiniteSet(EndedBefore(a)) /\ IsFiniteSet(done)
  BY FS_Subset DEF StatsTyped, EndedBefore
<1>6. Cardinality(Before(a + 48)) = Cardinality(Before(a)) + Cardinality(day)
  <2> HIDE DEF day
  <2>1. Cardinality(Before(a) \cap day) = 0
    BY <1>2, FS_EmptySet
  <2>2. Cardinality(Before(a) \cup day)
        = Cardinality(Before(a)) + Cardinality(day) - Cardinality(Before(a) \cap day)
    BY <1>4, FS_Union
  <2>3. Cardinality(Before(a)) \in Nat /\ Cardinality(day) \in Nat
    BY <1>4, FS_CardinalityType
  <2>4. Cardinality(Before(a) \cup day) = Cardinality(Before(a)) + Cardinality(day)
    BY <2>1, <2>2, <2>3
  <2>5. Before(a + 48) = Before(a) \cup day
    BY <1>2
  <2> QED
    BY <2>4, <2>5
<1>7. SumFunctionOnSet(Seconds, EndedBefore(a + 48))
      = SumFunctionOnSet(Seconds, EndedBefore(a)) + SumFunctionOnSet(Seconds, done)
  <2>1. Ints(Seconds, EndedBefore(a) \cup done)
    BY SecondsInts DEF Ints, EndedBefore
  <2> QED
    BY <1>3, <1>5, <2>1, SumUnion
<1> QED
  BY <1>1, <1>6, <1>7

LEMMA StatsInitHolds == StatsInit => StatsInv
<1> SUFFICES ASSUME StatsInit PROVE StatsInv
  OBVIOUS
<1>1. StatsTyped
  BY FS_EmptySet DEF StatsInit, StatsTyped, At, HalfHours, AnchorUtc
<1>2. Before(Today(now).start) = {} /\ EndedBefore(Today(now).start) = {}
  BY DEF StatsInit, Before, EndedBefore
<1>3. Cardinality({}) = 0 /\ SumFunctionOnSet(Seconds, {}) = 0
  BY FS_EmptySet, SumStep
<1>4. closed.points = 0 /\ closed.seconds = 0
  BY DEF StatsInit
<1> QED
  BY <1>1, <1>2, <1>3, <1>4 DEF StatsInv, ClosedSoFar

LEMMA EarnKeeps == ASSUME StatsInv, EarnPoints PROVE StatsInv'
<1>1. StatsTyped'
  BY FS_AddElement DEF StatsInv, StatsTyped, EarnPoints
<1>2. Before(Today(now).start)' = Before(Today(now).start)
  <2>1. Today(now).start \in Int /\ Today(now).start <= now /\ now \in Int
    BY TodayIs DEF StatsInv, StatsTyped
  <2> HIDE DEF Today
  <2>2. Today(now)' = Today(now) /\ entries' = entries \cup {now}
    BY DEF EarnPoints, Today
  <2> QED
    BY <2>1, <2>2 DEF Before
<1>3. EndedBefore(Today(now).start)' = EndedBefore(Today(now).start) /\ Seconds' = Seconds
  BY DEF EarnPoints, EndedBefore, Seconds, Today
<1>4. closed' = closed
  BY DEF EarnPoints
<1> QED
  BY <1>1, <1>2, <1>3, <1>4 DEF StatsInv, ClosedSoFar

LEMMA StreamCountsKeeps ==
    ASSUME StatsInv, NEW hours \in {1, 5}, NEW recorded \in BOOLEAN, StreamCounts(hours, recorded)
    PROVE  StatsInv'
<1> DEFINE s == [from |-> now - 2 * hours, to |-> now, effective |-> IF recorded THEN hours ELSE 0]
           a == Today(now).start
<1>1. ended' = ended \cup {s} /\ UNCHANGED <<now, entries, closed>>
  BY DEF StreamCounts
<1>2. s \in [from : Int, to : Int, effective : Int] /\ s.to = now
  BY DEF StatsInv, StatsTyped
<1> HIDE DEF s
<1>3. StatsTyped'
  BY <1>1, <1>2, FS_AddElement DEF StatsInv, StatsTyped
<1>4. Today(now)' = Today(now)
  BY <1>1
<1>5. Before(a)' = Before(a)
  BY <1>1, <1>4 DEF Before
<1>6. EndedBefore(a)' = EndedBefore(a)
  <2>1. a \in Int /\ a <= now /\ now \in Int
    BY TodayIs DEF StatsInv, StatsTyped
  <2>2. a' = a
    BY <1>4
  <2> HIDE DEF a
  <2> QED
    BY <1>1, <1>2, <2>1, <2>2 DEF EndedBefore
<1>7. SumFunctionOnSet(Seconds', EndedBefore(a)) = SumFunctionOnSet(Seconds, EndedBefore(a))
  <2>1. \A x \in EndedBefore(a) : x \in ended /\ x \in ended'
    BY <1>1 DEF EndedBefore
  <2>2. \A x \in EndedBefore(a) : Seconds'[x] = Seconds[x]
    BY <2>1 DEF Seconds
  <2>3. IsFiniteSet(EndedBefore(a))
    BY FS_Subset DEF StatsInv, StatsTyped, EndedBefore
  <2> QED
    BY <2>2, <2>3, SumAgrees
<1> QED
  BY <1>1, <1>3, <1>5, <1>6, <1>7 DEF StatsInv, ClosedSoFar

LEMMA StatsTickKeeps == ASSUME StatsInv, StatsTick PROVE StatsInv'
<1> DEFINE a == Today(now).start
<1>1. /\ now \in Int /\ now' = NextInstant /\ entries' = entries /\ ended' = ended
      /\ Seconds' = Seconds
  BY DEF StatsInv, StatsTyped, StatsTick, Seconds
<1>2. /\ now' \in Int /\ now < now'
      /\ Today(now') = Today(now) \/ Today(now').start = a + 48
  BY <1>1, NextDay
<1>3. StatsTyped'
  <2>1. \A t \in entries : t <= now'
    BY <1>1, <1>2 DEF StatsInv, StatsTyped
  <2>2. \A s \in ended : s.to <= now'
    BY <1>1, <1>2 DEF StatsInv, StatsTyped
  <2> QED
    BY <1>1, <1>2, <2>1, <2>2 DEF StatsInv, StatsTyped
<1>4. CASE Today(now') = Today(now)
  BY <1>1, <1>3, <1>4 DEF StatsTick, StatsInv, ClosedSoFar, Before, EndedBefore
<1>5. CASE Today(now') # Today(now)
  <2>1. /\ closed'.seconds = closed.seconds + Metrics(Today(now)).seconds
        /\ closed'.points = closed.points + Metrics(Today(now)).points
    BY <1>5 DEF StatsTick
  <2>2. a \in Int /\ Today(now) = [start |-> a, end |-> a + 48]
    BY <1>1, TodayIs
  <2>3. /\ closed.points = Cardinality(Before(a))
        /\ closed.seconds = SumFunctionOnSet(Seconds, EndedBefore(a))
    BY DEF StatsInv, ClosedSoFar
  <2>4. Today(now').start = a + 48
    BY <1>2, <1>5
  <2> HIDE DEF a
  <2>5. /\ Cardinality(Before(a)) + Metrics(Today(now)).points = Cardinality(Before(a + 48))
        /\ SumFunctionOnSet(Seconds, EndedBefore(a)) + Metrics(Today(now)).seconds
           = SumFunctionOnSet(Seconds, EndedBefore(a + 48))
    BY <2>2, DayAdds DEF StatsInv
  <2>6. /\ closed'.points = Cardinality(Before(a + 48))
        /\ closed'.seconds = SumFunctionOnSet(Seconds, EndedBefore(a + 48))
    BY <2>1, <2>3, <2>5
  <2> QED
    BY <1>1, <1>3, <2>4, <2>6 DEF StatsInv, ClosedSoFar, Before, EndedBefore
<1> QED
  BY <1>4, <1>5

LEMMA StatsNextKeeps == StatsInv /\ [StatsNext]_statsVars => StatsInv'
<1> SUFFICES ASSUME StatsInv, [StatsNext]_statsVars PROVE StatsInv'
  OBVIOUS
<1>1. CASE EarnPoints
  BY <1>1, EarnKeeps
<1>2. CASE StatsTick
  BY <1>2, StatsTickKeeps
<1>3. ASSUME NEW hours \in {1, 5}, NEW recorded \in BOOLEAN, StreamCounts(hours, recorded)
      PROVE  StatsInv'
  BY <1>3, StreamCountsKeeps
<1>4. CASE UNCHANGED statsVars
  <2>1. UNCHANGED <<now, entries, ended, closed>>
    BY <1>4 DEF statsVars
  <2>2. Seconds' = Seconds
    BY <2>1 DEF Seconds
  <2> QED
    BY <2>1, <2>2 DEF StatsInv, StatsTyped, ClosedSoFar, Before, EndedBefore
<1> QED
  BY <1>1, <1>2, <1>3, <1>4 DEF StatsNext

\* Whatever a host earns, at 23:30 or at midnight in India too, is shown on one day and not on
\* two: for any clock and any number of days, credits and streams.
THEOREM EarningsOnOneDay == StatsSpec => []EverythingOnOneDay
<1>1. StatsInit => StatsInv
  BY StatsInitHolds
<1>2. StatsInv /\ [StatsNext]_statsVars => StatsInv'
  BY StatsNextKeeps
<1>3. StatsInv => EverythingOnOneDay
  <2> SUFFICES ASSUME StatsInv PROVE EverythingOnOneDay
    OBVIOUS
  <2> DEFINE a == Today(now).start
  <2>1. /\ a \in Int /\ now < a + 48 /\ now \in Int
        /\ Today(now) = [start |-> a, end |-> a + 48]
    BY TodayIs DEF StatsInv, StatsTyped
  <2>2. /\ closed.points = Cardinality(Before(a))
        /\ closed.seconds = SumFunctionOnSet(Seconds, EndedBefore(a))
    BY DEF StatsInv, ClosedSoFar
  <2> HIDE DEF a
  <2>3. Before(a + 48) = entries /\ EndedBefore(a + 48) = ended
    <3>1. \A t \in entries : t \in Int /\ t <= now
      BY DEF StatsInv, StatsTyped
    <3>2. \A s \in ended : s.to \in Int /\ s.to <= now
      BY DEF StatsInv, StatsTyped
    <3>3. (\A t \in entries : t < a + 48) /\ \A s \in ended : s.to < a + 48
      BY <2>1, <3>1, <3>2
    <3> QED
      BY <3>3 DEF Before, EndedBefore
  <2>4. /\ closed.points + Metrics(Today(now)).points = Cardinality(entries)
        /\ closed.seconds + Metrics(Today(now)).seconds = SumFunctionOnSet(Seconds, ended)
    BY <2>1, <2>2, <2>3, DayAdds DEF StatsInv
  <2>5. DOMAIN Seconds = ended
    BY DEF Seconds
  <2> QED
    BY <2>4, <2>5 DEF EverythingOnOneDay, SumFunction
<1> QED
  BY <1>1, <1>2, <1>3, PTL DEF StatsSpec

-----------------------------------------------------------------------------
(* Gifts *)

Places == {"new", "call", "wait", "failed", "store", "names", "claim", "emit", "done"}
Draws == Rewards \cup {0}
Try == [pc : Places, draw : Draws, show : SUBSET Draws]
Answers == {NoAnswer} \cup [r : {"used", "refused"}] \cup [r : {"ok"}, reward : Draws]

Typed ==
    /\ kind \in Kinds /\ keyed \in BOOLEAN /\ claimed \in BOOLEAN
    /\ redis \in BOOLEAN /\ faulty \in BOOLEAN
    /\ try \in [Tries -> Try]
    /\ answer \in [Tries -> Answers] /\ snap \subseteq Draws
    /\ debits \in Nat /\ emits \in Nat
    /\ pool \in [seeded : BOOLEAN, total : Nat]

\* Whatever a handler may show, replay or has shown was paid.
Backed ==
    /\ said \subseteq paid /\ snap \subseteq paid
    /\ \A t \in Tries : try[t].show \subseteq paid
    /\ \A t \in Tries : answer[t].r = "ok" => answer[t].reward \in paid

\* While Redis answers, one try at most has won the claim of a transaction that is named, and
\* the room has not been told before it is.
OneTeller ==
    keyed /\ IsLucky /\ ~faulty =>
        /\ redis
        /\ emits > 0 => claimed /\ emits = 1
        /\ \A t \in Tries : try[t].pc = "emit" =>
              /\ claimed /\ emits = 0
              /\ \A s \in Tries : try[s].pc = "emit" => s = t

IInv == Typed /\ ChargedOnce /\ PoolIsExact /\ Backed /\ OneTeller

-----------------------------------------------------------------------------
LEMMA InitHolds == GiftsInit => IInv
<1> SUFFICES ASSUME GiftsInit
             PROVE  Typed /\ ChargedOnce /\ PoolIsExact /\ Backed /\ OneTeller
  BY DEF IInv
<1>1. Typed
  <2>1. kind \in Kinds /\ keyed \in BOOLEAN /\ claimed \in BOOLEAN
        /\ redis \in BOOLEAN /\ faulty \in BOOLEAN
    BY DEF GiftsInit
  <2>2. try \in [Tries -> Try] /\ answer \in [Tries -> Answers] /\ snap \subseteq Draws
    BY DEF GiftsInit, Try, Places, Draws, Answers
  <2>3. debits \in Nat /\ emits \in Nat /\ pool \in [seeded : BOOLEAN, total : Nat]
    BY DEF GiftsInit
  <2> QED
    BY <2>1, <2>2, <2>3 DEF Typed
<1>2. ChargedOnce /\ PoolIsExact
  BY DEF GiftsInit, ChargedOnce, PoolIsExact
<1>3. Backed
  BY DEF GiftsInit, Backed, NoAnswer
<1>4. OneTeller
  BY DEF GiftsInit, OneTeller
<1> QED
  BY <1>1, <1>2, <1>3, <1>4

\* A handler's own step: the ledger, the snapshot, the claim and the room stay as they are, and
\* the handler does not get to "emit".
OwnStep(t) ==
    /\ UNCHANGED <<kind, keyed, redis, faulty, answer, debits, paid, pool, snap, claimed, emits, said>>
    /\ \E e \in Try :
          /\ try' = [try EXCEPT ![t] = e]
          /\ e.show \subseteq paid
          /\ e.pc = "emit" => try[t].pc = "emit" \/ ~IsLucky

LEMMA OwnStepKeeps ==
    ASSUME IInv, NEW t \in Tries, OwnStep(t)
    PROVE  IInv'
<1> PICK e \in Try : try' = [try EXCEPT ![t] = e] /\ e.show \subseteq paid
                     /\ (e.pc = "emit" => try[t].pc = "emit" \/ ~IsLucky)
  BY DEF OwnStep
<1>1. Typed'
  BY DEF IInv, Typed, OwnStep
<1>2. ChargedOnce' /\ PoolIsExact'
  BY DEF IInv, OwnStep, ChargedOnce, PoolIsExact, IsLucky
<1>3. \A s \in Tries : try'[s] = IF s = t THEN e ELSE try[s]
  BY DEF IInv, Typed
<1>4. Backed'
  BY <1>3 DEF IInv, OwnStep, Backed
<1>5. OneTeller'
  BY <1>3 DEF IInv, OwnStep, OneTeller, IsLucky
<1> QED
  BY <1>1, <1>2, <1>4, <1>5 DEF IInv

LEMMA SendKeeps ==
    ASSUME IInv, NEW t \in Tries,
           SendStreamGift(t) \/ SendCallGift(t) \/ SendGlobalMessage(t) \/ SendLuckyGift(t)
    PROVE  IInv'
<1>1. PICK place \in {"call", "names"}, d \in Draws, show \in {{}, snap} :
          Goes(t, place, d, show)
  BY DEF SendStreamGift, SendCallGift, SendGlobalMessage, SendLuckyGift, Draws
<1>2. show \subseteq paid /\ show \subseteq Draws
  BY <1>1 DEF IInv, Backed, Typed
<1> DEFINE e == [pc |-> place, draw |-> d, show |-> show]
<1>3. e \in Try /\ e.show \subseteq paid /\ e.pc # "emit"
  BY <1>1, <1>2 DEF Try, Places
<1>4. try' = [try EXCEPT ![t] = e]
  BY <1>1 DEF Goes
<1>5. UNCHANGED <<kind, keyed, redis, faulty, answer, debits, paid, pool, snap, claimed, emits, said>>
  BY <1>1 DEF Goes, ledgerVars, roomTold, rest
<1>6. OwnStep(t)
  <2> HIDE DEF e
  <2> QED
    BY <1>3, <1>4, <1>5 DEF OwnStep
<1> QED
  BY <1>6, OwnStepKeeps

\* A handler that moves to another place with what it knows.
LEMMA Moves ==
    ASSUME IInv, NEW t \in Tries, NEW place \in Places, place = "emit" => ~IsLucky,
           try' = [try EXCEPT ![t].pc = place],
           UNCHANGED <<kind, keyed, redis, faulty, answer, debits, paid, pool, snap, claimed, emits, said>>
    PROVE  IInv'
<1> DEFINE e == [try[t] EXCEPT !.pc = place]
<1>1. try[t] \in Try /\ try[t].show \subseteq paid
  BY DEF IInv, Typed, Backed
<1>2. e \in Try /\ e.show = try[t].show /\ e.pc = place
  BY <1>1 DEF Try
<1>3. try' = [try EXCEPT ![t] = e]
  OBVIOUS
<1> HIDE DEF e
<1> QED
  BY <1>1, <1>2, <1>3, OwnStepKeeps DEF OwnStep

LEMMA LedgerCallKeeps ==
    ASSUME IInv, NEW t \in Tries, Request(t) \/ Retry(t) \/ TimeOut(t) \/ LookUpNames(t)
    PROVE  IInv'
<1>1. \E place \in {"wait", "call", "failed", "claim"} : try' = [try EXCEPT ![t].pc = place]
  BY DEF Request, Retry, TimeOut, LookUpNames
<1>2. UNCHANGED <<kind, keyed, redis, faulty, answer, debits, paid, pool, snap, claimed, emits, said>>
  BY DEF Request, Retry, TimeOut, LookUpNames, ledgerVars, roomTold, rest
<1> QED
  BY <1>1, <1>2, Moves DEF Places

LEMMA AnsweredKeeps == ASSUME IInv, NEW t \in Tries, Answered(t) PROVE IInv'
<1> DEFINE place == IF answer[t].r # "ok" THEN "failed"
                    ELSE IF IsLucky /\ keyed THEN "store"
                    ELSE IF IsLucky THEN "names" ELSE "emit"
           show == IF answer[t].r = "ok" THEN {Shown(t)} ELSE {}
           e == [try[t] EXCEPT !.pc = place, !.show = show]
<1>1. try[t] \in Try /\ answer[t] \in Answers
  BY DEF IInv, Typed
<1>2. answer[t].r = "ok" => answer[t].reward \in Draws
  BY <1>1 DEF Answers, NoAnswer
<1>3. show \subseteq Draws /\ show \subseteq paid
  BY <1>2 DEF Shown, IInv, Backed
<1>4. place \in Places /\ (place = "emit" => ~IsLucky)
  BY DEF Places
<1>5. try' = [try EXCEPT ![t] = e]
  BY DEF Answered
<1> HIDE DEF place, show
<1>6. e \in Try /\ e.show = show /\ e.pc = place
  BY <1>1, <1>3, <1>4 DEF Try
<1> HIDE DEF e
<1>7. OwnStep(t)
  BY <1>3, <1>4, <1>5, <1>6 DEF OwnStep, Answered, ledgerVars, roomTold, rest
<1> QED
  BY <1>7, OwnStepKeeps

\* The replay snapshot is what the handler shows.
LEMMA StoreKeeps == ASSUME IInv, NEW t \in Tries, Store(t) PROVE IInv'
<1>1. \A s \in Tries : /\ try'[s] \in Try /\ try'[s].show = try[s].show
                       /\ try'[s].pc = "emit" => try[s].pc = "emit"
  <2>1. try[t] \in Try
    BY DEF IInv, Typed
  <2> QED
    BY <2>1 DEF IInv, Typed, Store, Try, Places
<1>2. UNCHANGED <<kind, keyed, redis, faulty, answer, debits, paid, pool, claimed, emits, said>>
  BY DEF Store, ledgerVars, roomTold, rest
<1>3. snap' \subseteq Draws /\ snap' \subseteq paid
  <2>1. try[t].show \subseteq Draws /\ try[t].show \subseteq paid
    BY DEF IInv, Typed, Backed, Try
  <2> QED
    BY <2>1 DEF Store, IInv, Typed, Backed
<1>4. try' \in [Tries -> Try]
  <2>1. DOMAIN try' = Tries /\ try' = [s \in Tries |-> try'[s]]
    BY DEF IInv, Typed, Store
  <2> QED
    BY <1>1, <2>1
<1>5. Typed'
  BY <1>2, <1>3, <1>4 DEF IInv, Typed
<1>6. ChargedOnce' /\ PoolIsExact'
  BY <1>2 DEF IInv, ChargedOnce, PoolIsExact, IsLucky
<1>7. Backed'
  BY <1>1, <1>2, <1>3 DEF IInv, Backed
<1>8. OneTeller'
  BY <1>1, <1>2 DEF IInv, OneTeller, IsLucky
<1> QED
  BY <1>5, <1>6, <1>7, <1>8 DEF IInv

\* Whoever wins the claim is the first.
LEMMA ClaimKeeps == ASSUME IInv, NEW t \in Tries, ClaimEmit(t) PROVE IInv'
<1> DEFINE place == IF keyed /\ redis /\ claimed THEN "done" ELSE "emit"
<1>1. UNCHANGED <<kind, keyed, redis, faulty, answer, debits, paid, pool, snap, emits, said>>
  BY DEF ClaimEmit, ledgerVars, roomTold, rest
<1>2. claimed' \in BOOLEAN /\ (claimed => claimed') /\ (keyed /\ redis => claimed')
  BY DEF ClaimEmit, IInv, Typed
<1>3. \A s \in Tries : try'[s] = IF s = t THEN [try[t] EXCEPT !.pc = place] ELSE try[s]
  BY DEF ClaimEmit, IInv, Typed
<1>4. try[t] \in Try
  BY DEF IInv, Typed
<1>5. [try[t] EXCEPT !.pc = place] \in Try /\ [try[t] EXCEPT !.pc = place].show = try[t].show
      /\ [try[t] EXCEPT !.pc = place].pc = place
  BY <1>4 DEF Try, Places
<1>6. Typed'
  <2>1. try' \in [Tries -> Try]
    BY <1>5 DEF ClaimEmit, IInv, Typed
  <2> QED
    BY <1>1, <1>2, <2>1 DEF IInv, Typed
<1>7. ChargedOnce' /\ PoolIsExact'
  BY <1>1 DEF IInv, ChargedOnce, PoolIsExact, IsLucky
<1>8. Backed'
  BY <1>1, <1>3, <1>5 DEF IInv, Backed
<1>9. OneTeller'
  <2> SUFFICES ASSUME keyed, IsLucky, ~faulty
               PROVE  /\ redis'
                      /\ emits' > 0 => claimed' /\ emits' = 1
                      /\ \A s \in Tries : try'[s].pc = "emit" =>
                            /\ claimed' /\ emits' = 0
                            /\ \A r \in Tries : try'[r].pc = "emit" => r = s
    BY <1>1 DEF OneTeller, IsLucky
  <2>1. redis /\ claimed'
    BY <1>2 DEF IInv, OneTeller
  <2>2. emits > 0 => emits = 1 /\ claimed
    BY DEF IInv, OneTeller
  <2>3. CASE claimed
    <3>1. place = "done"
      BY <2>1, <2>3
    <3>2. \A s \in Tries : try'[s].pc = "emit" => try[s].pc = "emit"
      BY <1>3, <1>5, <3>1
    <3> QED
      BY <1>1, <2>1, <2>2, <3>2 DEF IInv, OneTeller
  <2>4. CASE ~claimed
    <3>1. emits = 0 /\ \A s \in Tries : try[s].pc # "emit"
      BY <2>2, <2>4 DEF IInv, OneTeller, Typed
    <3>2. \A s \in Tries : try'[s].pc = "emit" => s = t
      BY <1>3, <3>1
    <3> QED
      BY <1>1, <2>1, <3>1, <3>2
  <2> QED
    BY <2>3, <2>4
<1> QED
  BY <1>6, <1>7, <1>8, <1>9 DEF IInv

\* The one who was to tell the room has told it.
LEMMA EmitKeeps == ASSUME IInv, NEW t \in Tries, Emit(t) PROVE IInv'
<1> DEFINE e == [try[t] EXCEPT !.pc = "done"]
<1>1. UNCHANGED <<kind, keyed, redis, faulty, answer, debits, paid, pool, snap, claimed>>
      /\ emits' = emits + 1 /\ said' = said \cup try[t].show /\ try[t].pc = "emit"
  BY DEF Emit, ledgerVars, rest
<1>2. \A s \in Tries : try'[s] = IF s = t THEN e ELSE try[s]
  BY DEF Emit, IInv, Typed
<1>3. try[t] \in Try
  BY DEF IInv, Typed
<1>4. e \in Try /\ e.show = try[t].show /\ e.pc = "done"
  BY <1>3 DEF Try, Places
<1>5. Typed'
  <2>1. try' \in [Tries -> Try]
    BY <1>4 DEF Emit, IInv, Typed
  <2> QED
    BY <1>1, <2>1 DEF IInv, Typed
<1>6. ChargedOnce' /\ PoolIsExact'
  BY <1>1 DEF IInv, ChargedOnce, PoolIsExact, IsLucky
<1>7. Backed'
  BY <1>1, <1>2, <1>4 DEF IInv, Backed
<1>8. OneTeller'
  <2> SUFFICES ASSUME keyed, IsLucky, ~faulty
               PROVE  /\ redis' /\ claimed' /\ emits' = 1
                      /\ \A s \in Tries : try'[s].pc # "emit"
    BY <1>1 DEF OneTeller, IsLucky
  <2>1. redis /\ claimed /\ emits = 0 /\ \A s \in Tries : try[s].pc = "emit" => s = t
    BY <1>1 DEF IInv, OneTeller
  <2>2. emits' = 1
    BY <1>1, <2>1
  <2>3. redis' /\ claimed'
    BY <1>1, <2>1
  <2>4. \A s \in Tries : try'[s].pc # "emit"
    BY <1>2, <1>4, <2>1
  <2> QED
    BY <2>2, <2>3, <2>4
<1> QED
  BY <1>5, <1>6, <1>7, <1>8 DEF IInv

-----------------------------------------------------------------------------
(* The ledger, Redis and the pool *)

\* No handler is concerned.
LEMMA HandlersRest ==
    ASSUME IInv, UNCHANGED <<kind, keyed, redis, faulty, try, snap, claimed, emits, said>>,
           answer' \in [Tries -> Answers], debits' \in Nat,
           pool' \in [seeded : BOOLEAN, total : Nat],
           paid \subseteq paid',
           \A t \in Tries : answer'[t].r = "ok" => answer'[t].reward \in paid',
           ChargedOnce', PoolIsExact'
    PROVE  IInv'
<1>1. Typed' /\ OneTeller'
  BY DEF IInv, Typed, OneTeller, IsLucky
<1>2. Backed'
  BY DEF IInv, Backed
<1> QED
  BY <1>1, <1>2 DEF IInv

LEMMA ServeKeeps == ASSUME IInv, NEW t \in Tries, Serve(t) PROVE IInv'
<1>1. UNCHANGED <<kind, keyed, redis, faulty, try, snap, claimed, emits, said>>
  BY DEF Serve, roomTold, rest
<1>2. answer[t] \in Answers /\ debits \in Nat /\ pool \in [seeded : BOOLEAN, total : Nat]
  BY DEF IInv, Typed
<1>3. CASE UNCHANGED <<debits, paid, pool>>
  <2>1. PICK a \in {answer[t], [r |-> "used"], [r |-> "refused"]} : answer' = [answer EXCEPT ![t] = a]
    <3>1. CASE answer' = [answer EXCEPT ![t] = IF @.r = "none" THEN [r |-> "used"] ELSE @]
      BY <3>1
    <3>2. CASE answer' = [answer EXCEPT ![t] = [r |-> "refused"]]
      BY <3>2
    <3>3. debits' # debits + 1
      BY <1>2, <1>3
    <3> QED
      BY <3>1, <3>2, <3>3 DEF Serve
  <2>2. a \in Answers /\ (a.r = "ok" => a = answer[t])
    BY <1>2, <2>1 DEF Answers
  <2>3. answer' \in [Tries -> Answers]
    BY <2>1, <2>2 DEF IInv, Typed
  <2>4. \A s \in Tries : answer'[s].r = "ok" => answer'[s].reward \in paid'
    BY <1>3, <2>1, <2>2 DEF IInv, Typed, Backed
  <2>5. ChargedOnce' /\ PoolIsExact'
    BY <1>1, <1>3 DEF IInv, ChargedOnce, PoolIsExact, IsLucky
  <2> QED
    BY <1>1, <1>2, <1>3, <2>3, <2>4, <2>5, HandlersRest
<1>4. ASSUME NEW w \in Draws, ~KeyUsed(t),
             answer' = [answer EXCEPT ![t] = [r |-> "ok", reward |-> w]],
             paid' = paid \cup {w}, debits' = debits + 1,
             pool' = IF IsLucky THEN [pool EXCEPT !.total = @ + 1] ELSE pool
      PROVE  IInv'
  <2>1. answer' \in [Tries -> Answers]
    BY <1>4 DEF IInv, Typed, Answers
  <2>2. \A s \in Tries : answer'[s].r = "ok" => answer'[s].reward \in paid'
    BY <1>4 DEF IInv, Typed, Backed
  <2>3. debits' \in Nat /\ pool' \in [seeded : BOOLEAN, total : Nat]
        /\ pool'.seeded = pool.seeded
        /\ pool'.total = IF IsLucky THEN pool.total + 1 ELSE pool.total
    BY <1>2, <1>4
  <2>4. ChargedOnce'
    BY <1>1, <1>2, <1>4 DEF KeyUsed, ChargedOnce
  <2>5. PoolIsExact'
    BY <1>1, <1>2, <1>4, <2>3, GiftsAssumption DEF IInv, PoolIsExact, IsLucky
  <2> QED
    BY <1>1, <1>4, <2>1, <2>2, <2>3, <2>4, <2>5, HandlersRest
<1> QED
  <2>1. try[t].draw \in Draws /\ Rewards \subseteq Draws
    BY DEF IInv, Typed, Try, Draws
  <2> QED
    BY <1>3, <1>4, <2>1 DEF Serve

LEMMA SeedKeeps ==
    ASSUME IInv, NEW n \in Nodes, SeedRead(n) \/ SeedInsert(n)
    PROVE  IInv'
<1>1. UNCHANGED <<kind, keyed, redis, faulty, try, snap, claimed, emits, said, answer, debits, paid>>
  BY DEF SeedRead, SeedInsert, ledgerVars, roomTold
<1>2. pool' = pool \/ (~pool.seeded /\ pool' = [seeded |-> TRUE, total |-> pool.total + Legacy])
  BY DEF SeedRead, SeedInsert, ledgerVars
<1>3. pool' \in [seeded : BOOLEAN, total : Nat]
  <2>1. pool \in [seeded : BOOLEAN, total : Nat] /\ pool.total + Legacy \in Nat
    BY GiftsAssumption DEF IInv, Typed
  <2>2. CASE pool' = [seeded |-> TRUE, total |-> pool.total + Legacy]
    <3>1. TRUE \in BOOLEAN
      OBVIOUS
    <3> QED
      BY <2>1, <2>2, <3>1
  <2> QED
    BY <1>2, <2>1, <2>2
<1>4. PoolIsExact'
  BY <1>1, <1>2, GiftsAssumption DEF IInv, Typed, PoolIsExact, IsLucky
<1>5. ChargedOnce'
  BY <1>1 DEF IInv, ChargedOnce
<1> QED
  BY <1>1, <1>3, <1>4, <1>5, HandlersRest DEF IInv, Typed, Backed

LEMMA StepKeeps == IInv /\ [GiftsNext]_giftVars => IInv'
<1> SUFFICES ASSUME IInv, [GiftsNext]_giftVars
             PROVE  IInv'
  OBVIOUS
<1>1. ASSUME NEW t \in Tries, Lose(t)
      PROVE  IInv'
  BY <1>1 DEF Lose, roomTold, rest, IInv, Typed, ChargedOnce, PoolIsExact, Backed, OneTeller, IsLucky
<1>2. CASE RedisTurns
  <2>1. UNCHANGED <<kind, keyed, try, answer, debits, paid, pool, snap, claimed, emits, said>>
        /\ faulty' = TRUE /\ redis' = ~redis
    BY <1>2 DEF RedisTurns, ledgerVars, roomTold
  <2>2. Typed'
    BY <2>1 DEF IInv, Typed
  <2>3. ChargedOnce' /\ PoolIsExact' /\ Backed' /\ OneTeller'
    BY <2>1 DEF IInv, ChargedOnce, PoolIsExact, Backed, OneTeller, IsLucky
  <2> QED
    BY <2>2, <2>3 DEF IInv
<1>3. CASE UNCHANGED giftVars
  BY <1>3 DEF giftVars, IInv, Typed, ChargedOnce, PoolIsExact, Backed, OneTeller, IsLucky
<1>4. ASSUME NEW t \in Tries,
             \/ TellRoomByRest(t) \/ TellRoomBySocket(t) \/ TellRoomOfLucky(t)
             \/ TellCall(t) \/ TellAllRooms(t)
      PROVE  IInv'
  BY <1>4, EmitKeeps DEF TellRoomByRest, TellRoomBySocket, TellRoomOfLucky, TellCall, TellAllRooms
<1> QED
  BY <1>1, <1>2, <1>3, <1>4, SendKeeps, LedgerCallKeeps, AnsweredKeeps, StoreKeeps, ClaimKeeps,
     ServeKeeps, SeedKeeps DEF GiftsNext

-----------------------------------------------------------------------------
\* However often a client tries a gift again, and however late a request the server gave up on
\* arrives, the gift is paid once, counted once in the pool and, while Redis answers, a lucky
\* one is told once in the room (callLedger, withLuckyEmitOnce, ensureSeeded).
THEOREM GiftHappensOnce == GiftsSpec => []HappensOnce
<1>1. IInv => HappensOnce
  <2>1. IInv => LuckyShownOnce
    <3> SUFFICES ASSUME IInv, keyed, IsLucky, ~faulty
                 PROVE  emits <= 1
      BY DEF LuckyShownOnce
    <3>1. emits \in Nat /\ (emits > 0 => emits = 1)
      BY DEF IInv, Typed, OneTeller
    <3> QED
      BY <3>1
  <2> QED
    BY <2>1 DEF IInv, HappensOnce
<1> QED
  BY <1>1, InitHolds, StepKeeps, PTL DEF GiftsSpec

\* What the room is told of a gift is what the ledger paid, though each try draws anew and the
\* ledger may draw itself (sendLuckyGiftService and its replay snapshot).
THEOREM OnlyPaidIsShown == GiftsSpec => []ShownIsPaid
<1>1. IInv => ShownIsPaid
  BY DEF IInv, Backed, ShownIsPaid
<1> QED
  BY <1>1, InitHolds, StepKeeps, PTL DEF GiftsSpec
=============================================================================
