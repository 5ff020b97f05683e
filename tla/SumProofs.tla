----------------------------- MODULE SumProofs ------------------------------
(***************************************************************************)
(* Induction over numbers and over finite sets, and sums of the values of  *)
(* a function over a finite set.                                           *)
(***************************************************************************)
EXTENDS Integers, Functions, FiniteSetTheorems, WellFoundedInduction, TLAPS

(* A set of naturals has a least one.                                      *)
LEMMA LeastOne ==
    ASSUME NEW T \in SUBSET Nat, T # {}
    PROVE  \E k \in T : \A j \in T : k <= j
<1> DEFINE R == OpToRel(<, Nat)
<1>1. IsWellFoundedOn(R, Nat)
  BY NatLessThanWellFounded
<1>2. PICK k \in T : \A j \in T : ~(<<j, k>> \in R)
  BY <1>1, WFMin
<1>3. \A j \in T : ~(j < k)
  BY <1>2 DEF OpToRel
<1> QED
  BY <1>3, SMT

(* What a sum does with the subsets of S: the table it is read from.       *)
Table(f, S, g) ==
    g = [s \in SUBSET S |-> IF s = {} THEN 0
                            ELSE LET x == CHOOSE x \in s : TRUE IN f[x] + g[s \ {x}]]

LEMMA SumIsChosen ==
    ASSUME NEW f, NEW S
    PROVE  SumFunctionOnSet(f, S) = (CHOOSE g : Table(f, S, g))[S]
BY DEF SumFunctionOnSet, FoldFunctionOnSet, MapThenFoldSet, Table

(* Induction over the subsets of a finite set, the property being the set  *)
(* of the subsets that have it: one that holds of a subset when it holds   *)
(* of all that have one element less holds of every subset.                *)
LEMMA SubsetsOneByOne ==
    ASSUME NEW S, IsFiniteSet(S), NEW Good,
           \A T \in SUBSET S : (\A x \in T : T \ {x} \in Good) => T \in Good
    PROVE  SUBSET S \subseteq Good
<1> SUFFICES ASSUME NEW B \in SUBSET S, B \notin Good PROVE FALSE
  OBVIOUS
<1> DEFINE Sizes == {Cardinality(T) : T \in {U \in SUBSET S : U \notin Good}}
<1>1. \A T \in SUBSET S : IsFiniteSet(T) /\ Cardinality(T) \in Nat
  BY FS_Subset, FS_CardinalityType
<1>2. Sizes \in SUBSET Nat /\ Sizes # {}
  BY <1>1
<1>3. PICK n \in Sizes : \A k \in Sizes : n <= k
  BY <1>2, LeastOne
<1>4. PICK T \in SUBSET S : T \notin Good /\ n = Cardinality(T)
  BY <1>3
<1>5. ASSUME NEW x \in T PROVE T \ {x} \in Good
  <2> SUFFICES ASSUME T \ {x} \notin Good PROVE FALSE
    OBVIOUS
  <2>1. Cardinality(T \ {x}) = Cardinality(T) - 1 /\ T \ {x} \in SUBSET S
    BY <1>1, FS_RemoveElement
  <2>2. Cardinality(T \ {x}) \in Sizes
    BY <2>1
  <2>3. n <= Cardinality(T \ {x}) /\ n \in Nat
    BY <1>2, <1>3, <2>2
  <2> HIDE DEF Sizes
  <2> QED
    BY <1>4, <2>1, <2>3
<1> QED
  BY <1>4, <1>5

(* There is a table ...                                                    *)
LEMMA TableExists ==
    ASSUME NEW f, NEW S, IsFiniteSet(S)
    PROVE  \E g : Table(f, S, g)
<1> DEFINE Entry(g, s) == IF s = {} THEN 0 ELSE LET x == CHOOSE x \in s : TRUE IN f[x] + g[s \ {x}]
           Small(n) == {s \in SUBSET S : Cardinality(s) <= n}
           Bad == {n \in Nat : ~\E g : g = [s \in Small(n) |-> Entry(g, s)]}
<1>1. \A s \in SUBSET S : IsFiniteSet(s) /\ Cardinality(s) \in Nat /\ (Cardinality(s) = 0 <=> s = {})
  BY FS_Subset, FS_CardinalityType, FS_EmptySet
<1>2. 0 \notin Bad
  <2>1. [s \in Small(0) |-> 0] = [s \in Small(0) |-> Entry([u \in Small(0) |-> 0], s)]
    BY <1>1
  <2> QED
    BY <2>1
<1>3. ASSUME NEW n \in Nat, n + 1 \in Bad PROVE n \in Bad
  <2> SUFFICES ASSUME NEW g, g = [s \in Small(n) |-> Entry(g, s)] PROVE FALSE
    BY <1>3
  <2> DEFINE h == [s \in Small(n + 1) |-> Entry(g, s)]
  <2>1. ASSUME NEW s \in Small(n + 1) PROVE Entry(g, s) = Entry(h, s)
    <3>1. CASE s = {}
      BY <3>1
    <3>2. CASE s # {}
      <4> DEFINE x == CHOOSE x \in s : TRUE
                 r == s \ {x}
      <4>1. x \in s
        BY <3>2
      <4>2. r \in SUBSET S /\ Cardinality(r) = Cardinality(s) - 1
        BY <1>1, <4>1, FS_RemoveElement
      <4>3. r \in Small(n) /\ r \in Small(n + 1)
        BY <4>2, <1>1
      <4>4. g[r] = Entry(g, r) /\ h[r] = Entry(g, r)
        <5> HIDE DEF r, Entry, Small
        <5> QED
          BY <4>3
      <4> QED
        BY <3>2, <4>4
    <3> QED
      BY <3>1, <3>2
  <2>2. h = [s \in Small(n + 1) |-> Entry(h, s)]
    <3> HIDE DEF Entry, Small
    <3> QED
      BY <2>1
  <2> HIDE DEF h
  <2> QED
    BY <1>3, <2>2
<1>4. Bad = {}
  <2> SUFFICES ASSUME Bad # {} PROVE FALSE
    OBVIOUS
  <2>1. PICK k \in Bad : \A j \in Bad : k <= j
    BY LeastOne
  <2>2. k \in Nat /\ k # 0
    BY <1>2, <2>1
  <2>3. k - 1 \in Nat /\ k = (k - 1) + 1
    BY <2>2
  <2> HIDE DEF Bad
  <2>4. k - 1 \in Bad
    <3>1. (k - 1) + 1 \in Bad
      BY <2>1, <2>3
    <3> QED
      BY <1>3, <2>3, <3>1
  <2> QED
    BY <2>1, <2>3, <2>4
<1>5. Small(Cardinality(S)) = SUBSET S /\ Cardinality(S) \in Nat
  BY FS_Subset, FS_CardinalityType
<1>6. PICK g : g = [s \in Small(Cardinality(S)) |-> Entry(g, s)]
  <2> HIDE DEF Entry, Small
  <2> QED
    BY <1>4, <1>5
<1>7. g = [s \in SUBSET S |-> Entry(g, s)]
  <2> HIDE DEF Entry, Small
  <2> QED
    BY <1>5, <1>6
<1> QED
  BY <1>7 DEF Table

(* ... and it is read the same from any finite set that it is made for.    *)
LEMMA TablesAgree ==
    ASSUME NEW f, NEW S, IsFiniteSet(S), NEW T \in SUBSET S, NEW g, NEW h, Table(f, S, g), Table(f, T, h)
    PROVE  h[T] = g[T]
<1> DEFINE Bad == {n \in Nat : \E s \in SUBSET T : Cardinality(s) = n /\ h[s] # g[s]}
<1>1. \A s \in SUBSET S : IsFiniteSet(s) /\ Cardinality(s) \in Nat
  BY FS_Subset, FS_CardinalityType
<1>2. ASSUME NEW s \in SUBSET T, h[s] # g[s] PROVE \E x \in s : h[s \ {x}] # g[s \ {x}]
  <2>1. s \in SUBSET S /\ h[s] = (IF s = {} THEN 0 ELSE LET x == CHOOSE x \in s : TRUE IN f[x] + h[s \ {x}])
    BY DEF Table
  <2>2. g[s] = (IF s = {} THEN 0 ELSE LET x == CHOOSE x \in s : TRUE IN f[x] + g[s \ {x}])
    BY <2>1 DEF Table
  <2>3. s # {}
    BY <1>2, <2>1, <2>2
  <2> QED
    BY <1>2, <2>1, <2>2, <2>3
<1>3. Bad = {}
  <2> SUFFICES ASSUME Bad # {} PROVE FALSE
    OBVIOUS
  <2>1. PICK k \in Bad : \A j \in Bad : k <= j
    BY LeastOne
  <2>2. PICK s \in SUBSET T : Cardinality(s) = k /\ h[s] # g[s]
    BY <2>1
  <2>3. PICK x \in s : h[s \ {x}] # g[s \ {x}]
    BY <1>2, <2>2
  <2>4. Cardinality(s \ {x}) = k - 1 /\ s \ {x} \in SUBSET T
    BY <1>1, <2>2, <2>3, FS_RemoveElement
  <2>5. k - 1 \in Bad
    BY <1>1, <2>3, <2>4
  <2> QED
    BY <2>1, <2>5
<1> QED
  BY <1>1, <1>3

LEMMA SumStep ==
    ASSUME NEW f, NEW S, IsFiniteSet(S)
    PROVE  /\ S = {} => SumFunctionOnSet(f, S) = 0
           /\ S # {} => \E x \in S : SumFunctionOnSet(f, S) = f[x] + SumFunctionOnSet(f, S \ {x})
           /\ \A g : S # {} /\ (\A x \in S : g[x] = f[x])
                     => \E x \in S : /\ SumFunctionOnSet(f, S) = f[x] + SumFunctionOnSet(f, S \ {x})
                                     /\ SumFunctionOnSet(g, S) = f[x] + SumFunctionOnSet(g, S \ {x})
<1> DEFINE Chosen(T) == CHOOSE x \in T : TRUE
<1>1. ASSUME NEW k, S # {}
      PROVE  SumFunctionOnSet(k, S) = k[Chosen(S)] + SumFunctionOnSet(k, S \ {Chosen(S)})
  <2> DEFINE t == CHOOSE g : Table(k, S, g)
             r == S \ {Chosen(S)}
             u == CHOOSE g : Table(k, r, g)
  <2>1. Table(k, S, t)
    BY TableExists
  <2>2. IsFiniteSet(r) /\ r \in SUBSET S
    BY FS_Subset
  <2>3. Table(k, r, u)
    BY <2>2, TableExists
  <2>4. t[S] = k[Chosen(S)] + t[r]
    <3> HIDE DEF t
    <3> QED
      BY <1>1, <2>1 DEF Table
  <2>5. t[r] = u[r]
    <3> HIDE DEF t, u, r
    <3> QED
      BY <2>1, <2>2, <2>3, TablesAgree
  <2> QED
    BY <2>4, <2>5, SumIsChosen
<1>2. S = {} => SumFunctionOnSet(f, S) = 0
  <2> DEFINE t == CHOOSE g : Table(f, S, g)
  <2>1. Table(f, S, t)
    BY TableExists
  <2>2. S = {} => t[S] = 0
    <3> HIDE DEF t
    <3> QED
      BY <2>1 DEF Table
  <2> QED
    BY <2>2, SumIsChosen
<1>3. S # {} => Chosen(S) \in S
  OBVIOUS
<1> HIDE DEF Chosen
<1> QED
  BY <1>1, <1>2, <1>3

LEMMA SumEmpty ==
    ASSUME NEW f
    PROVE  SumFunctionOnSet(f, {}) = 0
BY SumStep, FS_EmptySet

(* Two functions with the same values have the same sum.                   *)
LEMMA SumSame ==
    ASSUME NEW S, IsFiniteSet(S), NEW f, NEW g, \A x \in S : g[x] = f[x]
    PROVE  SumFunctionOnSet(g, S) = SumFunctionOnSet(f, S)
<1> DEFINE Good == {T \in SUBSET S : SumFunctionOnSet(g, T) = SumFunctionOnSet(f, T)}
<1>1. ASSUME NEW T \in SUBSET S, \A x \in T : T \ {x} \in Good PROVE T \in Good
  <2>1. IsFiniteSet(T)
    BY FS_Subset
  <2>2. CASE T = {}
    BY <2>2, SumEmpty
  <2>3. CASE T # {}
    <3>1. PICK x \in T : /\ SumFunctionOnSet(f, T) = f[x] + SumFunctionOnSet(f, T \ {x})
                         /\ SumFunctionOnSet(g, T) = f[x] + SumFunctionOnSet(g, T \ {x})
      BY <2>1, <2>3, SumStep
    <3> QED
      BY <1>1, <3>1
  <2> QED
    BY <2>2, <2>3
<1> HIDE DEF Good
<1>2. S \in Good
  BY <1>1, SubsetsOneByOne
<1> QED
  BY <1>2 DEF Good

LEMMA SumType ==
    ASSUME NEW S, IsFiniteSet(S), NEW f, \A x \in S : f[x] \in Int
    PROVE  /\ SumFunctionOnSet(f, S) \in Int
           /\ (\A x \in S : f[x] >= 0) => SumFunctionOnSet(f, S) >= 0
<1> DEFINE Good == {T \in SUBSET S : /\ SumFunctionOnSet(f, T) \in Int
                                     /\ (\A x \in S : f[x] >= 0) => SumFunctionOnSet(f, T) >= 0}
<1>1. ASSUME NEW T \in SUBSET S, \A x \in T : T \ {x} \in Good PROVE T \in Good
  <2>1. IsFiniteSet(T)
    BY FS_Subset
  <2>2. CASE T = {}
    BY <2>2, SumEmpty
  <2>3. CASE T # {}
    <3>1. PICK x \in T : SumFunctionOnSet(f, T) = f[x] + SumFunctionOnSet(f, T \ {x})
      BY <2>1, <2>3, SumStep
    <3>2. SumFunctionOnSet(f, T \ {x}) \in Int
      BY <1>1
    <3>3. (\A y \in S : f[y] >= 0) => SumFunctionOnSet(f, T \ {x}) >= 0
      BY <1>1
    <3> QED
      BY <3>1, <3>2, <3>3
  <2> QED
    BY <2>2, <2>3
<1> HIDE DEF Good
<1>2. S \in Good
  BY <1>1, SubsetsOneByOne
<1> QED
  BY <1>2 DEF Good

(* Any element can be taken out of a sum.                                  *)
LEMMA SumRemove ==
    ASSUME NEW S, IsFiniteSet(S), NEW f, \A x \in S : f[x] \in Int, NEW y \in S
    PROVE  SumFunctionOnSet(f, S) = f[y] + SumFunctionOnSet(f, S \ {y})
<1> DEFINE Sum(T) == SumFunctionOnSet(f, T)
           Good == {T \in SUBSET S : \A x \in T : Sum(T) = f[x] + Sum(T \ {x})}
<1>1. \A T \in SUBSET S : IsFiniteSet(T) /\ Sum(T) \in Int
  BY FS_Subset, SumType
<1>2. \A T \in SUBSET S : T # {} => \E x \in T : Sum(T) = f[x] + Sum(T \ {x})
  BY <1>1, SumStep
<1> HIDE DEF Sum
<1>3. ASSUME NEW T \in SUBSET S, \A x \in T : T \ {x} \in Good PROVE T \in Good
  <2> SUFFICES ASSUME NEW x \in T PROVE Sum(T) = f[x] + Sum(T \ {x})
    OBVIOUS
  <2>1. PICK c \in T : Sum(T) = f[c] + Sum(T \ {c})
    BY <1>2
  <2>2. CASE x = c
    BY <2>1, <2>2
  <2>3. CASE x # c
    <3>1. Sum(T \ {c}) = f[x] + Sum((T \ {c}) \ {x})
      BY <1>3, <2>3
    <3>2. Sum(T \ {x}) = f[c] + Sum((T \ {x}) \ {c})
      BY <1>3, <2>3
    <3>3. (T \ {c}) \ {x} = (T \ {x}) \ {c} /\ (T \ {c}) \ {x} \in SUBSET S
      OBVIOUS
    <3>4. Sum((T \ {c}) \ {x}) \in Int /\ f[x] \in Int /\ f[c] \in Int
      BY <1>1, <3>3
    <3>5. /\ Sum(T) = f[c] + (f[x] + Sum((T \ {c}) \ {x}))
          /\ Sum(T \ {x}) = f[c] + Sum((T \ {c}) \ {x})
      BY <2>1, <3>1, <3>2, <3>3
    <3>6. \A a, b, d \in Int : a + (b + d) = b + (a + d)
      OBVIOUS
    <3> QED
      BY <3>4, <3>5, <3>6
  <2> QED
    BY <2>2, <2>3
<1> HIDE DEF Good
<1>4. S \in Good
  BY <1>3, SubsetsOneByOne
<1> QED
  BY <1>4 DEF Good, Sum

(* A sum over S is that over a part of S and that over the rest.           *)
LEMMA SumSplit ==
    ASSUME NEW S, IsFiniteSet(S), NEW f, \A x \in S : f[x] \in Int, NEW R \in SUBSET S
    PROVE  SumFunctionOnSet(f, S) = SumFunctionOnSet(f, R) + SumFunctionOnSet(f, S \ R)
<1> DEFINE Sum(T) == SumFunctionOnSet(f, T)
           Good == {T \in SUBSET S : Sum(S) = Sum(T) + Sum(S \ T)}
<1>1. \A T \in SUBSET S : IsFiniteSet(T) /\ Sum(T) \in Int
  BY FS_Subset, SumType
<1>2. \A T \in SUBSET S : \A x \in T : Sum(T) = f[x] + Sum(T \ {x})
  BY <1>1, SumRemove
<1>3. Sum({}) = 0
  BY SumEmpty
<1> HIDE DEF Sum
<1>4. ASSUME NEW T \in SUBSET S, \A x \in T : T \ {x} \in Good PROVE T \in Good
  <2>1. CASE T = {}
    BY <1>1, <1>3, <2>1
  <2>2. CASE T # {}
    <3>1. PICK x \in T : TRUE
      BY <2>2
    <3>2. Sum(S) = Sum(T \ {x}) + Sum(S \ (T \ {x}))
      BY <1>4
    <3>3. Sum(T) = f[x] + Sum(T \ {x})
      BY <1>2
    <3>4. Sum(S \ (T \ {x})) = f[x] + Sum(S \ T)
      <4>1. (S \ (T \ {x})) \ {x} = S \ T /\ x \in S \ (T \ {x})
        OBVIOUS
      <4> QED
        BY <1>2, <4>1
    <3>5. Sum(T) \in Int /\ Sum(S \ T) \in Int /\ Sum(T \ {x}) \in Int /\ f[x] \in Int
      BY <1>1
    <3> QED
      BY <3>2, <3>3, <3>4, <3>5
  <2> QED
    BY <2>1, <2>2
<1> HIDE DEF Good
<1>5. R \in Good
  BY <1>4, SubsetsOneByOne
<1> QED
  BY <1>5 DEF Good, Sum

(* A sum grows with its terms ...                                          *)
LEMMA SumMonotone ==
    ASSUME NEW S, IsFiniteSet(S), NEW f, NEW g,
           \A x \in S : f[x] \in Int /\ g[x] \in Int /\ f[x] <= g[x]
    PROVE  SumFunctionOnSet(f, S) <= SumFunctionOnSet(g, S)
<1> DEFINE Good == {T \in SUBSET S : SumFunctionOnSet(f, T) <= SumFunctionOnSet(g, T)}
<1>1. ASSUME NEW T \in SUBSET S, \A x \in T : T \ {x} \in Good PROVE T \in Good
  <2>1. IsFiniteSet(T)
    BY FS_Subset
  <2>2. CASE T = {}
    BY <2>2, SumEmpty
  <2>3. CASE T # {}
    <3>1. PICK x \in T : TRUE
      BY <2>3
    <3>2. /\ SumFunctionOnSet(f, T) = f[x] + SumFunctionOnSet(f, T \ {x})
          /\ SumFunctionOnSet(g, T) = g[x] + SumFunctionOnSet(g, T \ {x})
      BY <2>1, SumRemove
    <3>3. SumFunctionOnSet(f, T \ {x}) <= SumFunctionOnSet(g, T \ {x})
      BY <1>1
    <3>4. SumFunctionOnSet(f, T \ {x}) \in Int /\ SumFunctionOnSet(g, T \ {x}) \in Int
      BY FS_Subset, SumType
    <3> QED
      BY <3>2, <3>3, <3>4
  <2> QED
    BY <2>2, <2>3
<1> HIDE DEF Good
<1>2. S \in Good
  BY <1>1, SubsetsOneByOne
<1> QED
  BY <1>2 DEF Good

(* ... and the sum of two functions is that of their term by term sum.     *)
LEMMA SumPlus ==
    ASSUME NEW S, IsFiniteSet(S), NEW f, NEW g, NEW h,
           \A x \in S : f[x] \in Int /\ g[x] \in Int /\ h[x] = f[x] + g[x]
    PROVE  SumFunctionOnSet(h, S) = SumFunctionOnSet(f, S) + SumFunctionOnSet(g, S)
<1> DEFINE Good == {T \in SUBSET S : SumFunctionOnSet(h, T) = SumFunctionOnSet(f, T) + SumFunctionOnSet(g, T)}
<1>1. ASSUME NEW T \in SUBSET S, \A x \in T : T \ {x} \in Good PROVE T \in Good
  <2>1. IsFiniteSet(T)
    BY FS_Subset
  <2>2. CASE T = {}
    BY <2>2, SumEmpty
  <2>3. CASE T # {}
    <3>1. PICK x \in T : TRUE
      BY <2>3
    <3>2. /\ SumFunctionOnSet(f, T) = f[x] + SumFunctionOnSet(f, T \ {x})
          /\ SumFunctionOnSet(g, T) = g[x] + SumFunctionOnSet(g, T \ {x})
          /\ SumFunctionOnSet(h, T) = h[x] + SumFunctionOnSet(h, T \ {x})
      <4>1. \A y \in S : h[y] \in Int
        OBVIOUS
      <4> QED
        BY <2>1, <4>1, SumRemove
    <3>3. SumFunctionOnSet(h, T \ {x}) = SumFunctionOnSet(f, T \ {x}) + SumFunctionOnSet(g, T \ {x})
      BY <1>1
    <3>4. SumFunctionOnSet(f, T \ {x}) \in Int /\ SumFunctionOnSet(g, T \ {x}) \in Int
      BY FS_Subset, SumType
    <3> QED
      BY <3>2, <3>3, <3>4
  <2> QED
    BY <2>2, <2>3
<1> HIDE DEF Good
<1>2. S \in Good
  BY <1>1, SubsetsOneByOne
<1> QED
  BY <1>2 DEF Good

LEMMA SumZero ==
    ASSUME NEW S, IsFiniteSet(S), NEW f, \A x \in S : f[x] = 0
    PROVE  SumFunctionOnSet(f, S) = 0
<1>1. SumFunctionOnSet(f, S) = SumFunctionOnSet(f, S) + SumFunctionOnSet(f, S)
  BY SumPlus
<1>2. SumFunctionOnSet(f, S) \in Int
  BY SumType
<1>3. \A z \in Int : z = z + z => z = 0
  OBVIOUS
<1> QED
  BY <1>1, <1>2, <1>3, Zenon

(* One term that changes changes the sum by as much.                       *)
LEMMA SumChange ==
    ASSUME NEW S, IsFiniteSet(S), NEW f, NEW g, NEW y \in S,
           \A x \in S : f[x] \in Int /\ g[x] \in Int,
           \A x \in S \ {y} : g[x] = f[x]
    PROVE  SumFunctionOnSet(g, S) = SumFunctionOnSet(f, S) + (g[y] - f[y])
<1>1. /\ SumFunctionOnSet(f, S) = f[y] + SumFunctionOnSet(f, S \ {y})
      /\ SumFunctionOnSet(g, S) = g[y] + SumFunctionOnSet(g, S \ {y})
  BY SumRemove
<1>2. IsFiniteSet(S \ {y})
  BY FS_Subset
<1>3. SumFunctionOnSet(g, S \ {y}) = SumFunctionOnSet(f, S \ {y})
  BY <1>2, SumSame
<1>4. SumFunctionOnSet(f, S \ {y}) \in Int
  BY <1>2, SumType
<1> QED
  BY <1>1, <1>3, <1>4

(* One term that is raised raises the sum of a set that it belongs to.     *)
LEMMA SumRaised ==
    ASSUME NEW S, IsFiniteSet(S), NEW f, NEW g, \A x \in S : f[x] \in Int /\ g[x] \in Int,
           NEW j, NEW n \in Int, j \in S => g[j] = f[j] + n, \A x \in S \ {j} : g[x] = f[x]
    PROVE  /\ SumFunctionOnSet(f, S) \in Int
           /\ SumFunctionOnSet(g, S) = SumFunctionOnSet(f, S) + (IF j \in S THEN n ELSE 0)
<1>1. SumFunctionOnSet(f, S) \in Int /\ SumFunctionOnSet(g, S) \in Int
  BY SumType
<1>2. CASE j \in S
  <2>1. SumFunctionOnSet(g, S) = SumFunctionOnSet(f, S) + (g[j] - f[j])
    BY <1>2, SumChange
  <2>2. f[j] \in Int /\ g[j] - f[j] = n
    BY <1>2
  <2> QED
    BY <1>1, <1>2, <2>1, <2>2
<1>3. CASE j \notin S
  <2>1. \A x \in S : g[x] = f[x]
    BY <1>3
  <2>2. SumFunctionOnSet(g, S) = SumFunctionOnSet(f, S)
    BY <2>1, SumSame
  <2> QED
    BY <1>1, <1>3, <2>2
<1> QED
  BY <1>2, <1>3

(* The sum of what is not negative is no less than a part of it.           *)
LEMMA SumPart ==
    ASSUME NEW S, IsFiniteSet(S), NEW f, \A x \in S : f[x] \in Nat, NEW R \in SUBSET S
    PROVE  SumFunctionOnSet(f, R) <= SumFunctionOnSet(f, S)
<1>1. SumFunctionOnSet(f, S) = SumFunctionOnSet(f, R) + SumFunctionOnSet(f, S \ R)
  BY SumSplit
<1>2. IsFiniteSet(R) /\ IsFiniteSet(S \ R)
  BY FS_Subset
<1>3. SumFunctionOnSet(f, R) \in Int /\ SumFunctionOnSet(f, S \ R) \in Int /\ SumFunctionOnSet(f, S \ R) >= 0
  BY <1>2, SumType
<1> QED
  BY <1>1, <1>3

-----------------------------------------------------------------------------
(* The same of the sum of all the values of a function.                    *)
LEMMA TotalType ==
    ASSUME NEW S, IsFiniteSet(S), NEW f \in [S -> Int]
    PROVE  /\ SumFunction(f) \in Int
           /\ (\A x \in S : f[x] >= 0) => SumFunction(f) >= 0
BY SumType DEF SumFunction

LEMMA TotalChange ==
    ASSUME NEW S, IsFiniteSet(S), NEW f \in [S -> Int], NEW g \in [S -> Int], NEW y \in S,
           \A x \in S \ {y} : g[x] = f[x]
    PROVE  SumFunction(g) = SumFunction(f) + (g[y] - f[y])
BY SumChange DEF SumFunction

LEMMA TotalPlus ==
    ASSUME NEW S, IsFiniteSet(S), NEW f \in [S -> Int], NEW g \in [S -> Int], NEW h \in [S -> Int],
           \A x \in S : h[x] = f[x] + g[x]
    PROVE  SumFunction(h) = SumFunction(f) + SumFunction(g)
BY SumPlus DEF SumFunction

LEMMA TotalZero ==
    ASSUME NEW S, IsFiniteSet(S), NEW f \in [S -> Int], \A x \in S : f[x] = 0
    PROVE  SumFunction(f) = 0
BY SumZero DEF SumFunction

LEMMA TotalMonotone ==
    ASSUME NEW S, IsFiniteSet(S), NEW f \in [S -> Int], NEW g \in [S -> Int], \A x \in S : f[x] <= g[x]
    PROVE  SumFunction(f) <= SumFunction(g)
BY SumMonotone DEF SumFunction

LEMMA TotalExtend ==
    ASSUME NEW S, IsFiniteSet(S), NEW y, y \notin S, NEW T, T = S \cup {y},
           NEW f \in [S -> Int], NEW g \in [T -> Int], \A x \in S : g[x] = f[x]
    PROVE  SumFunction(g) = SumFunction(f) + g[y]
<1>1. IsFiniteSet(T) /\ T \ {y} = S
  BY FS_AddElement
<1>2. SumFunctionOnSet(g, T) = g[y] + SumFunctionOnSet(g, S)
  BY <1>1, SumRemove
<1>3. SumFunctionOnSet(g, S) = SumFunctionOnSet(f, S) /\ SumFunctionOnSet(f, S) \in Int
  BY SumSame, SumType
<1> QED
  BY <1>2, <1>3 DEF SumFunction

LEMMA TermInTotal ==
    ASSUME NEW S, IsFiniteSet(S), NEW f \in [S -> Int], \A x \in S : f[x] >= 0, NEW y \in S
    PROVE  f[y] <= SumFunction(f)
<1>1. SumFunctionOnSet(f, S) = f[y] + SumFunctionOnSet(f, S \ {y})
  BY SumRemove
<1>2. IsFiniteSet(S \ {y})
  BY FS_Subset
<1>3. SumFunctionOnSet(f, S \ {y}) \in Int /\ SumFunctionOnSet(f, S \ {y}) >= 0
  BY <1>2, SumType
<1> QED
  BY <1>1, <1>3 DEF SumFunction

(* Fewer terms, and none of them larger.                                   *)
LEMMA TotalLess ==
    ASSUME NEW S, IsFiniteSet(S), NEW R \in SUBSET S,
           NEW f \in [S -> Nat], NEW g \in [R -> Nat], \A x \in R : g[x] <= f[x]
    PROVE  SumFunction(g) <= SumFunction(f)
<1>1. IsFiniteSet(R)
  BY FS_Subset
<1>2. SumFunctionOnSet(f, R) <= SumFunctionOnSet(f, S)
  BY SumPart
<1>3. SumFunctionOnSet(g, R) <= SumFunctionOnSet(f, R)
  BY <1>1, SumMonotone
<1>4. /\ SumFunctionOnSet(f, R) \in Int /\ SumFunctionOnSet(f, S) \in Int
      /\ SumFunctionOnSet(g, R) \in Int
  BY <1>1, SumType
<1>5. SumFunction(g) = SumFunctionOnSet(g, R) /\ SumFunction(f) = SumFunctionOnSet(f, S)
  BY DEF SumFunction
<1> QED
  BY <1>2, <1>3, <1>4, <1>5

(* More terms, but only zeros besides.                                     *)
LEMMA TotalSupport ==
    ASSUME NEW S, IsFiniteSet(S), NEW R \in SUBSET S,
           NEW f \in [R -> Nat], NEW g \in [S -> Nat],
           \A x \in R : g[x] <= f[x], \A x \in S \ R : g[x] = 0
    PROVE  SumFunction(g) <= SumFunction(f)
<1>1. IsFiniteSet(R) /\ IsFiniteSet(S \ R)
  BY FS_Subset
<1>2. SumFunctionOnSet(g, S) = SumFunctionOnSet(g, R) + SumFunctionOnSet(g, S \ R)
  BY SumSplit
<1>3. SumFunctionOnSet(g, S \ R) = 0
  BY <1>1, SumZero
<1>4. SumFunctionOnSet(g, R) <= SumFunctionOnSet(f, R)
  BY <1>1, SumMonotone
<1>5. SumFunctionOnSet(g, R) \in Int /\ SumFunctionOnSet(f, R) \in Int
  BY <1>1, SumType
<1>6. SumFunction(g) = SumFunctionOnSet(g, S) /\ SumFunction(f) = SumFunctionOnSet(f, R)
  BY DEF SumFunction
<1> QED
  BY <1>2, <1>3, <1>4, <1>5, <1>6
=============================================================================
