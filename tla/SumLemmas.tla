------------------------------ MODULE SumLemmas ------------------------------
(***************************************************************************)
(* Facts about SumFunctionOnSet, the sum of f[x] over the x of a finite    *)
(* set, that the accounts of the shop are stated with.  The library        *)
(* computes it by taking one element after the other, in an order of its   *)
(* own; SumOne says that the order does not matter, and every later lemma  *)
(* follows from it.  The inductions name the set of the good subsets and   *)
(* look at a smallest one that is not in it.                               *)
(***************************************************************************)
EXTENDS Integers, Functions, FiniteSets, FiniteSetTheorems, WellFoundedInduction, TLAPS

(* What passes from the subsets one smaller to a subset holds of them all. *)
LEMMA SubsetInduction ==
  ASSUME NEW S, IsFiniteSet(S), NEW G, {} \in G,
         \A s \in SUBSET S : s # {} /\ (\A x \in s : s \ {x} \in G) => s \in G
  PROVE  \A s \in SUBSET S : s \in G
<1> DEFINE Bad == {s \in SUBSET S : s \notin G}
<1> SUFFICES ASSUME Bad # {} PROVE FALSE OBVIOUS
<1>1. IsWellFoundedOn(StrictSubsetOrdering(S), SUBSET S)
  BY FS_StrictSubsetOrderingWellFounded, FS_FiniteSubsetsOfFinite
<1>2. PICK s \in Bad : \A t \in Bad : ~ (<<t, s>> \in StrictSubsetOrdering(S))
  <2> HIDE DEF Bad
  <2>1. Bad \subseteq SUBSET S BY DEF Bad
  <2> QED BY <1>1, <2>1, WFMin
<1>3. \A x \in s : s \ {x} \in G
  <2> TAKE x \in s
  <2>1. <<s \ {x}, s>> \in StrictSubsetOrdering(S) BY DEF StrictSubsetOrdering
  <2> QED BY <1>2, <2>1
<1> QED BY <1>3

(* F is the sum of f over each of the sets in D, taken as the library does. *)
IsSum(F, f, D) ==
  F = [s \in D |-> IF s = {} THEN 0 ELSE LET x == CHOOSE x \in s : TRUE IN f[x] + F[s \ {x}]]


(* The definition, with the recursion named. *)
LEMMA SumUnfold ==
  ASSUME NEW f, NEW S
  PROVE  SumFunctionOnSet(f, S) = (CHOOSE F : IsSum(F, f, SUBSET S))[S]
BY DEF SumFunctionOnSet, FoldFunctionOnSet, MapThenFoldSet, IsSum

(* The subsets of at most n elements. *)
UpTo(n, S) == {s \in SUBSET S : Cardinality(s) <= n}

(* The recursion defines a function: level by level of the size of the sets. *)
LEMMA SumExists ==
  ASSUME NEW S, IsFiniteSet(S), NEW f
  PROVE  \E F : IsSum(F, f, SUBSET S)
<1> DEFINE Bad == {n \in Nat : ~ \E F : IsSum(F, f, UpTo(n, S))}
           Pick(s) == CHOOSE x \in s : TRUE
<1>1. Bad = {}
  <2> SUFFICES ASSUME Bad # {} PROVE FALSE OBVIOUS
  <2>1. PICK n \in Bad : \A m \in Bad : ~ (<<m, n>> \in OpToRel(<, Nat))
    <3>1. Bad \subseteq Nat OBVIOUS
    <3> HIDE DEF Bad
    <3> QED BY <3>1, NatLessThanWellFounded, WFMin
  <2>2. n \in Nat /\ ~ \E F : IsSum(F, f, UpTo(n, S))
    OBVIOUS
  <2>3. CASE n = 0
    <3>1. \A s \in UpTo(0, S) : s = {}
      <4> TAKE s \in UpTo(0, S)
      <4>1. s \in SUBSET S /\ Cardinality(s) <= 0 BY DEF UpTo
      <4>2. IsFiniteSet(s) BY <4>1, FS_Subset
      <4>3. Cardinality(s) = 0 BY <4>1, <4>2, FS_CardinalityType
      <4> QED BY <4>2, <4>3, FS_EmptySet
    <3>2. IsSum([s \in UpTo(0, S) |-> 0], f, UpTo(0, S))
      BY <3>1 DEF IsSum
    <3> QED BY <2>2, <2>3, <3>2
  <2>4. CASE n # 0
    <3>1. n - 1 \in Nat /\ n - 1 \notin Bad
      <4>1. n - 1 \in Nat /\ n - 1 < n BY <2>2, <2>4
      <4>2. <<n - 1, n>> \in OpToRel(<, Nat) BY <2>2, <4>1 DEF OpToRel
      <4> HIDE DEF Bad
      <4> QED BY <2>1, <4>1, <4>2
    <3>2. PICK F : IsSum(F, f, UpTo(n - 1, S))
      BY <3>1
    <3> DEFINE G == [s \in UpTo(n, S) |-> IF s = {} THEN 0 ELSE f[Pick(s)] + F[s \ {Pick(s)}]]
    <3>3. \A s \in UpTo(n, S) : s # {} => Pick(s) \in s /\ s \ {Pick(s)} \in UpTo(n - 1, S) /\ s \ {Pick(s)} \in UpTo(n, S)
      <4> TAKE s \in UpTo(n, S)
      <4> HAVE s # {}
      <4>1. Pick(s) \in s OBVIOUS
      <4> HIDE DEF Pick
      <4>2. s \in SUBSET S /\ Cardinality(s) <= n BY DEF UpTo
      <4>3. IsFiniteSet(s) BY <4>2, FS_Subset
      <4>4. Cardinality(s \ {Pick(s)}) = Cardinality(s) - 1 /\ Cardinality(s) \in Nat BY <4>1, <4>3, FS_RemoveElement, FS_CardinalityType
      <4> QED BY <2>2, <4>1, <4>2, <4>4 DEF UpTo
    <3>4. \A t \in UpTo(n - 1, S) : t \in UpTo(n, S) /\ G[t] = F[t]
      <4> TAKE t \in UpTo(n - 1, S)
      <4>1. t \in UpTo(n, S)
        <5>1. t \in SUBSET S /\ Cardinality(t) <= n - 1 BY DEF UpTo
        <5>2. Cardinality(t) \in Nat BY <5>1, FS_Subset, FS_CardinalityType
        <5> QED BY <2>2, <5>1, <5>2 DEF UpTo
      <4>2. F[t] = IF t = {} THEN 0 ELSE f[Pick(t)] + F[t \ {Pick(t)}]
        BY <3>2 DEF IsSum
      <4> HIDE DEF Pick
      <4> QED BY <4>1, <4>2
    <3>5. G = [s \in UpTo(n, S) |-> IF s = {} THEN 0 ELSE f[Pick(s)] + G[s \ {Pick(s)}]]
      <4>1. \A s \in UpTo(n, S) : s # {} => G[s \ {Pick(s)}] = F[s \ {Pick(s)}]
        BY <3>3, <3>4
      <4> HIDE DEF Pick
      <4> QED BY <4>1
    <3>6. IsSum(G, f, UpTo(n, S))
      BY <3>5 DEF IsSum
    <3> QED BY <2>2, <3>6
  <2> QED BY <2>3, <2>4
<1>2. Cardinality(S) \in Nat BY FS_CardinalityType
<1>3. UpTo(Cardinality(S), S) = SUBSET S BY FS_Subset DEF UpTo
<1>4. \E F : IsSum(F, f, UpTo(Cardinality(S), S)) BY <1>1, <1>2
<1> QED BY <1>3, <1>4

(* The sum over a set is the value there of a function that recursion defines. *)
LEMMA SumIsSum ==
  ASSUME NEW S, IsFiniteSet(S), NEW f
  PROVE  \E F : IsSum(F, f, SUBSET S) /\ SumFunctionOnSet(f, S) = F[S]
<1> DEFINE F == CHOOSE F : IsSum(F, f, SUBSET S)
<1>1. IsSum(F, f, SUBSET S) BY SumExists
<1> QED BY <1>1, SumUnfold

(* Sums of integers are integers. *)
LEMMA SumRecursionInt ==
  ASSUME NEW S, IsFiniteSet(S), NEW f, \A x \in S : f[x] \in Int,
         NEW F, IsSum(F, f, SUBSET S)
  PROVE  \A s \in SUBSET S : F[s] \in Int
<1> DEFINE G == {s \in SUBSET S : F[s] \in Int}
           Pick(s) == CHOOSE x \in s : TRUE
<1>1. {} \in G BY DEF IsSum
<1>2. \A s \in SUBSET S : s # {} /\ (\A x \in s : s \ {x} \in G) => s \in G
  <2> SUFFICES ASSUME NEW s \in SUBSET S, s # {}, \A x \in s : s \ {x} \in G PROVE F[s] \in Int
    OBVIOUS
  <2>1. F[s] = f[Pick(s)] + F[s \ {Pick(s)}] /\ Pick(s) \in s BY DEF IsSum
  <2> HIDE DEF Pick
  <2>2. F[s \ {Pick(s)}] \in Int BY <2>1
  <2>3. f[Pick(s)] \in Int BY <2>1
  <2> QED BY <2>1, <2>2, <2>3
<1>3. \A s \in SUBSET S : s \in G
  <2> HIDE DEF G
  <2> QED BY <1>1, <1>2, SubsetInduction
<1> QED BY <1>3

(* Any element may be the one that is taken first. *)
Splits(F, f, s) == \A x \in s : F[s] = f[x] + F[s \ {x}]

(* The order in which the elements are taken does not matter. *)
LEMMA SumRecursion ==
  ASSUME NEW S, IsFiniteSet(S), NEW f, \A x \in S : f[x] \in Int,
         NEW F, IsSum(F, f, SUBSET S)
  PROVE  \A s \in SUBSET S : Splits(F, f, s)
<1> DEFINE G == {s \in SUBSET S : \A x \in s : F[s] = f[x] + F[s \ {x}]}
           Pick(s) == CHOOSE x \in s : TRUE
<1>1. {} \in G OBVIOUS
<1>2. \A s \in SUBSET S : s # {} /\ (\A x \in s : s \ {x} \in G) => s \in G
  <2> SUFFICES ASSUME NEW s \in SUBSET S, s # {}, \A y \in s : s \ {y} \in G,
                      NEW x \in s
               PROVE  F[s] = f[x] + F[s \ {x}]
    OBVIOUS
  <2> DEFINE c == Pick(s)
  <2>1. F[s] = f[c] + F[s \ {c}] /\ c \in s BY DEF IsSum
  <2> HIDE DEF c
  <2>2. CASE x = c BY <2>1, <2>2
  <2>3. CASE x # c
    <3>1. s \ {c} \in G /\ s \ {x} \in G /\ x \in s \ {c} /\ c \in s \ {x} BY <2>1, <2>3
    <3>2. F[s \ {c}] = f[x] + F[(s \ {c}) \ {x}] BY <3>1
    <3>3. F[s \ {x}] = f[c] + F[(s \ {x}) \ {c}] BY <3>1
    <3>4. (s \ {x}) \ {c} = (s \ {c}) \ {x} OBVIOUS
    <3> DEFINE r == F[(s \ {c}) \ {x}]
    <3>5. f[x] \in Int /\ f[c] \in Int /\ r \in Int
      <4>1. (s \ {c}) \ {x} \in SUBSET S OBVIOUS
      <4> QED BY <2>1, <4>1, SumRecursionInt
    <3>6. F[s \ {c}] = f[x] + r /\ F[s \ {x}] = f[c] + r BY <3>2, <3>3, <3>4
    <3> HIDE DEF r
    <3> QED BY <2>1, <3>5, <3>6
  <2> QED BY <2>2, <2>3
<1>3. \A s \in SUBSET S : s \in G
  <2> HIDE DEF G
  <2> QED BY <1>1, <1>2, SubsetInduction
<1> QED BY <1>3 DEF Splits

(* The recursion gives a subset the same sum wherever it starts. *)
LEMMA SumsAgree ==
  ASSUME NEW S, IsFiniteSet(S), NEW f, \A x \in S : f[x] \in Int, NEW T \in SUBSET S,
         NEW F, IsSum(F, f, SUBSET S), NEW H, IsSum(H, f, SUBSET T)
  PROVE  \A s \in SUBSET T : H[s] = F[s]
<1> DEFINE G == {s \in SUBSET T : H[s] = F[s]}
<1>1. {} \in G BY DEF IsSum
<1>2. \A s \in SUBSET T : s # {} /\ (\A x \in s : s \ {x} \in G) => s \in G
  <2> SUFFICES ASSUME NEW s \in SUBSET T, NEW x \in s, \A y \in s : s \ {y} \in G PROVE H[s] = F[s]
    OBVIOUS
  <2>1. IsFiniteSet(T) BY FS_Subset
  <2>2. F[s] = f[x] + F[s \ {x}] 
    <3>1. s \in SUBSET S OBVIOUS
    <3>2. Splits(F, f, s) BY <3>1, SumRecursion
    <3> QED BY <3>2 DEF Splits
  <2>3. H[s] = f[x] + H[s \ {x}] 
    <3>1. \A y \in T : f[y] \in Int OBVIOUS
    <3>2. Splits(H, f, s) BY <2>1, <3>1, SumRecursion
    <3> QED BY <3>2 DEF Splits
  <2> QED BY <2>2, <2>3
<1>3. IsFiniteSet(T) BY FS_Subset
<1>4. \A s \in SUBSET T : s \in G
  <2> HIDE DEF G
  <2> QED BY <1>1, <1>2, <1>3, SubsetInduction
<1> QED BY <1>4

(* Nothing sums to zero. *)
LEMMA SumEmpty == ASSUME NEW f PROVE SumFunctionOnSet(f, {}) = 0
<1>1. PICK F : IsSum(F, f, SUBSET {}) /\ SumFunctionOnSet(f, {}) = F[{}] BY SumIsSum, FS_EmptySet
<1> QED BY <1>1 DEF IsSum

(* A sum is any of its terms and the sum of the others. *)
LEMMA SumOne ==
  ASSUME NEW S, IsFiniteSet(S), NEW f, \A x \in S : f[x] \in Int
  PROVE  /\ SumFunctionOnSet(f, S) \in Int
         /\ \A x \in S : SumFunctionOnSet(f, S) = f[x] + SumFunctionOnSet(f, S \ {x})
<1>1. PICK F : IsSum(F, f, SUBSET S) /\ SumFunctionOnSet(f, S) = F[S] BY SumIsSum
<1>2. F[S] \in Int BY <1>1, SumRecursionInt
<1>4. ASSUME NEW y \in S PROVE F[S] = f[y] + F[S \ {y}]
  <2>1. S \in SUBSET S OBVIOUS
  <2>2. Splits(F, f, S) BY <1>1, <2>1, SumRecursion
  <2> QED BY <2>2 DEF Splits
<1>3. ASSUME NEW x \in S PROVE F[S] = f[x] + SumFunctionOnSet(f, S \ {x})
  <2> DEFINE T == S \ {x}
  <2>1. T \in SUBSET S /\ IsFiniteSet(T) BY FS_Subset
  <2>2. PICK H : IsSum(H, f, SUBSET T) /\ SumFunctionOnSet(f, T) = H[T] BY <2>1, SumIsSum
  <2>3. H[T] = F[T] 
    <3>1. T \in SUBSET T OBVIOUS
    <3> HIDE DEF T
    <3> QED BY <1>1, <2>1, <2>2, <3>1, SumsAgree, Z3
  <2>4. F[S] = f[x] + F[T]
    BY <1>4
  <2> QED BY <2>2, <2>3, <2>4
<1> QED BY <1>1, <1>2, <1>3

-----------------------------------------------------------------------------
(* Equal terms have equal sums. *)
LEMMA SumSame ==
  ASSUME NEW S, IsFiniteSet(S), NEW f, NEW g, \A x \in S : f[x] \in Int /\ g[x] = f[x]
  PROVE  SumFunctionOnSet(g, S) = SumFunctionOnSet(f, S)
<1> DEFINE G == {s \in SUBSET S : SumFunctionOnSet(g, s) = SumFunctionOnSet(f, s)}
<1>1. {} \in G BY SumEmpty
<1>2. \A s \in SUBSET S : s # {} /\ (\A x \in s : s \ {x} \in G) => s \in G
  <2> SUFFICES ASSUME NEW s \in SUBSET S, NEW x \in s, s \ {x} \in G
               PROVE  SumFunctionOnSet(g, s) = SumFunctionOnSet(f, s)
    OBVIOUS
  <2>1. IsFiniteSet(s) /\ \A y \in s : f[y] \in Int /\ g[y] \in Int BY FS_Subset
  <2>2. SumFunctionOnSet(f, s) = f[x] + SumFunctionOnSet(f, s \ {x}) BY <2>1, SumOne
  <2>3. SumFunctionOnSet(g, s) = g[x] + SumFunctionOnSet(g, s \ {x}) BY <2>1, SumOne
  <2> QED BY <2>2, <2>3
<1>3. \A s \in SUBSET S : s \in G
  <2> HIDE DEF G
  <2> QED BY <1>1, <1>2, SubsetInduction
<1> QED BY <1>3

(* A change of one term changes the sum by the difference. *)
LEMMA SumUpdate ==
  ASSUME NEW S, IsFiniteSet(S), NEW f, NEW g, \A y \in S : f[y] \in Int,
         NEW x \in S, g[x] \in Int, \A y \in S \ {x} : g[y] = f[y]
  PROVE  /\ SumFunctionOnSet(f, S) \in Int
         /\ SumFunctionOnSet(g, S) = SumFunctionOnSet(f, S) - f[x] + g[x]
<1>1. IsFiniteSet(S \ {x}) BY FS_RemoveElement
<1>2. \A y \in S : g[y] \in Int OBVIOUS
<1>3. SumFunctionOnSet(g, S \ {x}) = SumFunctionOnSet(f, S \ {x})
  <2>1. \A y \in S \ {x} : f[y] \in Int /\ g[y] = f[y] OBVIOUS
  <2> QED BY <1>1, <2>1, SumSame
<1>4. SumFunctionOnSet(f, S) = f[x] + SumFunctionOnSet(f, S \ {x}) /\ SumFunctionOnSet(f, S) \in Int BY SumOne
<1>5. SumFunctionOnSet(g, S) = g[x] + SumFunctionOnSet(g, S \ {x}) BY <1>2, SumOne
<1>6. SumFunctionOnSet(f, S \ {x}) \in Int /\ f[x] \in Int
  <2>1. \A y \in S \ {x} : f[y] \in Int OBVIOUS
  <2> QED BY <1>1, <2>1, SumOne
<1> QED BY <1>3, <1>4, <1>5, <1>6

(* The sum of two functions, term by term, is the sum of their sums. *)
LEMMA SumAdd ==
  ASSUME NEW S, IsFiniteSet(S), NEW f, NEW g, NEW h,
         \A x \in S : f[x] \in Int /\ g[x] \in Int /\ h[x] = f[x] + g[x]
  PROVE  /\ SumFunctionOnSet(f, S) \in Int /\ SumFunctionOnSet(g, S) \in Int
         /\ SumFunctionOnSet(h, S) = SumFunctionOnSet(f, S) + SumFunctionOnSet(g, S)
<1> DEFINE G == {s \in SUBSET S : SumFunctionOnSet(h, s) = SumFunctionOnSet(f, s) + SumFunctionOnSet(g, s)}
<1>1. {} \in G BY SumEmpty
<1>2. \A s \in SUBSET S : s # {} /\ (\A x \in s : s \ {x} \in G) => s \in G
  <2> SUFFICES ASSUME NEW s \in SUBSET S, NEW x \in s, s \ {x} \in G
               PROVE  SumFunctionOnSet(h, s) = SumFunctionOnSet(f, s) + SumFunctionOnSet(g, s)
    OBVIOUS
  <2>1. /\ IsFiniteSet(s) /\ IsFiniteSet(s \ {x})
        /\ \A y \in s : f[y] \in Int /\ g[y] \in Int /\ h[y] \in Int
        /\ \A y \in s \ {x} : f[y] \in Int /\ g[y] \in Int
    BY FS_Subset
  <2>2. SumFunctionOnSet(f, s) = f[x] + SumFunctionOnSet(f, s \ {x}) BY <2>1, SumOne
  <2>3. SumFunctionOnSet(g, s) = g[x] + SumFunctionOnSet(g, s \ {x}) BY <2>1, SumOne
  <2>4. SumFunctionOnSet(h, s) = h[x] + SumFunctionOnSet(h, s \ {x}) BY <2>1, SumOne
  <2>5. SumFunctionOnSet(f, s \ {x}) \in Int /\ SumFunctionOnSet(g, s \ {x}) \in Int BY <2>1, SumOne
  <2>6. f[x] \in Int /\ g[x] \in Int /\ h[x] = f[x] + g[x] OBVIOUS
  <2>7. SumFunctionOnSet(h, s \ {x}) = SumFunctionOnSet(f, s \ {x}) + SumFunctionOnSet(g, s \ {x}) OBVIOUS
  <2> QED BY <2>2, <2>3, <2>4, <2>5, <2>6, <2>7
<1>3. \A s \in SUBSET S : s \in G
  <2> HIDE DEF G
  <2> QED BY <1>1, <1>2, SubsetInduction
<1>4. S \in G BY <1>3
<1>5. SumFunctionOnSet(f, S) \in Int /\ SumFunctionOnSet(g, S) \in Int BY SumOne
<1> QED BY <1>4, <1>5

(* A sum of naturals is a natural, and no term is above it. *)
LEMMA SumNat ==
  ASSUME NEW S, IsFiniteSet(S), NEW f, \A x \in S : f[x] \in Nat
  PROVE  /\ SumFunctionOnSet(f, S) \in Nat
         /\ \A x \in S : f[x] <= SumFunctionOnSet(f, S)
<1> DEFINE G == {s \in SUBSET S : SumFunctionOnSet(f, s) \in Nat}
<1>1. {} \in G BY SumEmpty
<1>2. \A s \in SUBSET S : s # {} /\ (\A x \in s : s \ {x} \in G) => s \in G
  <2> SUFFICES ASSUME NEW s \in SUBSET S, NEW x \in s, s \ {x} \in G
               PROVE  SumFunctionOnSet(f, s) \in Nat
    OBVIOUS
  <2>1. IsFiniteSet(s) /\ \A y \in s : f[y] \in Int BY FS_Subset
  <2>2. SumFunctionOnSet(f, s) = f[x] + SumFunctionOnSet(f, s \ {x}) BY <2>1, SumOne
  <2>3. f[x] \in Nat /\ SumFunctionOnSet(f, s \ {x}) \in Nat OBVIOUS
  <2> QED BY <2>2, <2>3
<1>3. \A s \in SUBSET S : s \in G
  <2> HIDE DEF G
  <2> QED BY <1>1, <1>2, SubsetInduction
<1>4. ASSUME NEW x \in S PROVE f[x] <= SumFunctionOnSet(f, S)
  <2>1. \A y \in S : f[y] \in Int OBVIOUS
  <2>2. SumFunctionOnSet(f, S) = f[x] + SumFunctionOnSet(f, S \ {x}) BY <2>1, SumOne
  <2>3. SumFunctionOnSet(f, S \ {x}) \in Nat /\ f[x] \in Nat BY <1>3
  <2> QED BY <2>2, <2>3
<1> QED BY <1>3, <1>4

(* Zeros sum to zero. *)
LEMMA SumZero ==
  ASSUME NEW S, IsFiniteSet(S), NEW f, \A x \in S : f[x] = 0
  PROVE  SumFunctionOnSet(f, S) = 0
<1>1. SumFunctionOnSet(f, S) = SumFunctionOnSet(f, S) + SumFunctionOnSet(f, S) /\ SumFunctionOnSet(f, S) \in Int
  <2>1. \A x \in S : f[x] \in Int /\ f[x] \in Int /\ f[x] = f[x] + f[x] OBVIOUS
  <2> QED BY <2>1, SumAdd
<1> DEFINE n == SumFunctionOnSet(f, S)
<1>2. n = n + n /\ n \in Int BY <1>1
<1> HIDE DEF n
<1>3. n = 0 BY <1>2
<1> QED BY <1>3 DEF n

(* Terms that are zero may be left out. *)
LEMMA SumSupport ==
  ASSUME NEW S, IsFiniteSet(S), NEW T \in SUBSET S, NEW f,
         \A x \in S : f[x] \in Int, \A x \in S \ T : f[x] = 0
  PROVE  SumFunctionOnSet(f, S) = SumFunctionOnSet(f, T)
<1> DEFINE U(s) == (s \cap T)
           G == {s \in SUBSET S : SumFunctionOnSet(f, s) = SumFunctionOnSet(f, U(s))}
<1>1. {} \in G
  <2>1. U({}) = {} OBVIOUS
  <2> QED BY <2>1
<1>2. \A s \in SUBSET S : s # {} /\ (\A x \in s : s \ {x} \in G) => s \in G
  <2> SUFFICES ASSUME NEW s \in SUBSET S, NEW x \in s, s \ {x} \in G
               PROVE  SumFunctionOnSet(f, s) = SumFunctionOnSet(f, U(s))
    OBVIOUS
  <2>1. /\ IsFiniteSet(s) /\ IsFiniteSet(U(s)) /\ IsFiniteSet(s \ {x})
        /\ \A y \in s : f[y] \in Int
        /\ \A y \in U(s) : f[y] \in Int
        /\ \A y \in s \ {x} : f[y] \in Int
    BY FS_Subset
  <2>2. SumFunctionOnSet(f, s) = f[x] + SumFunctionOnSet(f, s \ {x}) /\ SumFunctionOnSet(f, s \ {x}) \in Int
    BY <2>1, SumOne
  <2>3. SumFunctionOnSet(f, s \ {x}) = SumFunctionOnSet(f, U(s \ {x})) OBVIOUS
  <2>4. CASE x \in T
    <3>1. U(s \ {x}) = U(s) \ {x} /\ x \in U(s) BY <2>4
    <3> HIDE DEF U
    <3>2. SumFunctionOnSet(f, U(s)) = f[x] + SumFunctionOnSet(f, U(s) \ {x}) BY <2>1, <3>1, SumOne
    <3> QED BY <2>2, <2>3, <3>1, <3>2
  <2>5. CASE x \notin T
    <3>1. U(s \ {x}) = U(s) /\ f[x] = 0 BY <2>5
    <3> HIDE DEF U
    <3> QED BY <2>2, <2>3, <3>1
  <2> QED BY <2>4, <2>5
<1>3. \A s \in SUBSET S : s \in G
  <2> HIDE DEF G
  <2> QED BY <1>1, <1>2, SubsetInduction
<1>4. S \in G BY <1>3
<1>5. U(S) = T OBVIOUS
<1> QED BY <1>4, <1>5

(* A sum does not change when its terms are carried over to other indices. *)
LEMMA SumInjected ==
  ASSUME NEW S, IsFiniteSet(S), NEW f, \A x \in S : f[x] \in Int, NEW g, NEW t,
         \A x \in S : g[t[x]] = f[x],
         \A x, y \in S : t[x] = t[y] => x = y
  PROVE  SumFunctionOnSet(g, {t[x] : x \in S}) = SumFunctionOnSet(f, S)
<1> DEFINE I(s) == {t[x] : x \in s}
           G == {s \in SUBSET S : IsFiniteSet(I(s)) /\ SumFunctionOnSet(g, I(s)) = SumFunctionOnSet(f, s)}
<1>1. {} \in G
  <2>1. I({}) = {} OBVIOUS
  <2> QED BY <2>1, SumEmpty, FS_EmptySet
<1>2. \A s \in SUBSET S : s # {} /\ (\A x \in s : s \ {x} \in G) => s \in G
  <2> SUFFICES ASSUME NEW s \in SUBSET S, NEW x \in s, s \ {x} \in G
               PROVE  IsFiniteSet(I(s)) /\ SumFunctionOnSet(g, I(s)) = SumFunctionOnSet(f, s)
    OBVIOUS
  <2>1. IsFiniteSet(s) /\ \A y \in s : f[y] \in Int BY FS_Subset
  <2>2. SumFunctionOnSet(f, s) = f[x] + SumFunctionOnSet(f, s \ {x}) BY <2>1, SumOne
  <2>3. I(s \ {x}) = I(s) \ {t[x]} /\ t[x] \in I(s) /\ I(s) = I(s \ {x}) \cup {t[x]} OBVIOUS
  <2>4. IsFiniteSet(I(s \ {x})) /\ SumFunctionOnSet(g, I(s \ {x})) = SumFunctionOnSet(f, s \ {x}) OBVIOUS
  <2>5. \A y \in I(s) : g[y] \in Int OBVIOUS
  <2> HIDE DEF I
  <2>6. IsFiniteSet(I(s))
    <3>1. IsFiniteSet(I(s \ {x}) \cup {t[x]}) BY <2>4, FS_AddElement
    <3> QED BY <2>3, <3>1
  <2>7. SumFunctionOnSet(g, I(s)) = g[t[x]] + SumFunctionOnSet(g, I(s) \ {t[x]}) BY <2>3, <2>5, <2>6, SumOne
  <2> QED BY <2>2, <2>3, <2>4, <2>6, <2>7
<1>3. \A s \in SUBSET S : s \in G
  <2> HIDE DEF G
  <2> QED BY <1>1, <1>2, SubsetInduction
<1> QED BY <1>3
==============================================================================
