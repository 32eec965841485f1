------------------------------ MODULE SumProofs ------------------------------
(***************************************************************************)
(* Sums over finite functions, for every function: what SumFunction, a     *)
(* fold that takes the elements in an order of its own, returns whatever   *)
(* that order is.  Induction is stated over sets, of naturals and of       *)
(* subsets, so that its uses are instances of a set.                       *)
(***************************************************************************)
EXTENDS Functions, FiniteSetTheorems, TLAPS

-----------------------------------------------------------------------------
(* Induction. *)

LEMMA NaturalSetInduction ==
    ASSUME NEW G, 0 \in G, \A n \in Nat : n \in G => n + 1 \in G
    PROVE  \A n \in Nat : n \in G
<1> DEFINE T == {n \in Nat : n \notin G}
<1> SUFFICES ASSUME T # {} PROVE FALSE
  OBVIOUS
<1>1. IsWellFoundedOn(OpToRel(<, Nat), Nat)
  BY NatLessThanWellFounded
<1>2. PICK x \in T : \A y \in T : ~ (<<y, x>> \in OpToRel(<, Nat))
  BY <1>1, WFMin
<1>3. \A y \in T : ~(y < x)
  BY <1>2 DEF OpToRel
<1>4. x \in Nat /\ x # 0
  OBVIOUS
<1>5. x - 1 \in Nat /\ x - 1 \notin T
  BY <1>3, <1>4
<1>6. x \in G
  BY <1>4, <1>5
<1>7. QED
  BY <1>6

(* A set of subsets that has each one whose smaller neighbours it has, has all. *)
LEMMA SubsetInduction ==
    ASSUME NEW S, IsFiniteSet(S), NEW G,
           \A s \in SUBSET S : (\A x \in s : s \ {x} \in G) => s \in G
    PROVE  \A s \in SUBSET S : s \in G
<1> DEFINE N == {n \in Nat : \A s \in SUBSET S : Cardinality(s) = n => s \in G}
<1>1. \A s \in SUBSET S : IsFiniteSet(s) /\ Cardinality(s) \in Nat
  BY FS_Subset, FS_CardinalityType
<1>2. 0 \in N
  <2>1. \A s \in SUBSET S : Cardinality(s) = 0 => s = {}
    BY <1>1, FS_EmptySet
  <2>2. QED
    BY <2>1
<1>3. ASSUME NEW n \in Nat, n \in N PROVE n + 1 \in N
  <2>1. ASSUME NEW s \in SUBSET S, Cardinality(s) = n + 1 PROVE s \in G
    <3>1. ASSUME NEW x \in s PROVE s \ {x} \in G
      <4>1. Cardinality(s \ {x}) = n
        BY <1>1, <2>1, FS_RemoveElement
      <4>2. QED
        BY <1>3, <4>1
    <3>2. QED
      BY <3>1
  <2>2. QED
    BY <2>1
<1>4. \A n \in Nat : n \in N
  <2> HIDE DEF N
  <2>1. QED
    BY <1>2, <1>3, NaturalSetInduction
<1>5. QED
  BY <1>1, <1>4

-----------------------------------------------------------------------------
(* The function a sum is computed by, over the subsets of a domain. *)

Pick(s) == CHOOSE x \in s : TRUE

SumsOver(f, U, g) ==
    g = [s \in U |-> IF s = {} THEN 0 ELSE f[Pick(s)] + g[s \ {Pick(s)}]]

IsSum(f, g) == SumsOver(f, SUBSET DOMAIN f, g)

LEMMA PickIsMember ==
    ASSUME NEW s, s # {}
    PROVE  Pick(s) \in s
BY DEF Pick

LEMMA SumExtends ==
    ASSUME NEW f, NEW U, NEW V, U \subseteq V, \A s \in V : s # {} => s \ {Pick(s)} \in U,
           NEW g, SumsOver(f, U, g)
    PROVE  \E h : SumsOver(f, V, h)
<1>1. PICK h : h = [s \in V |-> IF s = {} THEN 0 ELSE f[Pick(s)] + g[s \ {Pick(s)}]]
  OBVIOUS
<1>2. \A s \in U : h[s] = g[s]
  BY <1>1 DEF SumsOver
<1>3. \A s \in V : s # {} => h[s \ {Pick(s)}] = g[s \ {Pick(s)}]
  BY <1>2
<1>4. SumsOver(f, V, h)
  BY <1>1, <1>3 DEF SumsOver
<1>5. QED
  BY <1>4

(* It is built by the size of the subsets. *)
LEMMA SumExists ==
    ASSUME NEW f, IsFiniteSet(DOMAIN f)
    PROVE  \E g : IsSum(f, g)
<1> DEFINE D == DOMAIN f
           Up(n) == {s \in SUBSET D : Cardinality(s) <= n}
           N == {n \in Nat : \E g : SumsOver(f, Up(n), g)}
<1>1. \A s \in SUBSET D : IsFiniteSet(s) /\ Cardinality(s) \in Nat /\ Cardinality(s) <= Cardinality(D)
  BY FS_Subset, FS_CardinalityType
<1>2. 0 \in N
  <2> DEFINE g == [s \in Up(0) |-> 0]
  <2>1. \A s \in Up(0) : s = {}
    BY <1>1, FS_EmptySet
  <2>2. SumsOver(f, Up(0), g)
    BY <2>1 DEF SumsOver
  <2>3. QED
    BY <2>2
<1>3. ASSUME NEW n \in Nat, n \in N PROVE n + 1 \in N
  <2>1. PICK g : SumsOver(f, Up(n), g)
    BY <1>3
  <2>2. Up(n) \subseteq Up(n + 1)
    BY <1>1
  <2>3. ASSUME NEW s \in Up(n + 1), s # {}
        PROVE  s \ {Pick(s)} \in Up(n)
    <3>1. Pick(s) \in s /\ IsFiniteSet(s)
      BY <1>1, <2>3, PickIsMember
    <3>2. Cardinality(s \ {Pick(s)}) = Cardinality(s) - 1
      BY <3>1, FS_RemoveElement
    <3>3. QED
      BY <1>1, <3>2
  <2>4. \E h : SumsOver(f, Up(n + 1), h)
    <3> HIDE DEF Up
    <3>1. QED
      BY <2>1, <2>2, <2>3, SumExtends
  <2> HIDE DEF Up
  <2>5. n + 1 \in Nat
    OBVIOUS
  <2>6. QED
    BY <2>4, <2>5
<1>4. \A n \in Nat : n \in N
  <2> HIDE DEF N
  <2>1. QED
    BY <1>2, <1>3, NaturalSetInduction
<1>5. PICK g : SumsOver(f, Up(Cardinality(D)), g)
  <2>1. Cardinality(D) \in Nat
    BY FS_CardinalityType
  <2>2. QED
    BY <1>4, <2>1
<1>6. Up(Cardinality(D)) = SUBSET D
  BY <1>1
<1>7. QED
  BY <1>5, <1>6 DEF IsSum

LEMMA SumIsSum ==
    ASSUME NEW f, IsFiniteSet(DOMAIN f)
    PROVE  \E g : IsSum(f, g) /\ SumFunction(f) = g[DOMAIN f]
BY SumExists DEF IsSum, SumsOver, Pick, SumFunction, SumFunctionOnSet, FoldFunctionOnSet, MapThenFoldSet

LEMMA PartialSumType ==
    ASSUME NEW S, IsFiniteSet(S), NEW f \in [S -> Int], NEW g, IsSum(f, g)
    PROVE  \A s \in SUBSET S : g[s] \in Int
<1> DEFINE G == {s \in SUBSET S : g[s] \in Int}
<1>1. ASSUME NEW s \in SUBSET S, \A x \in s : s \ {x} \in G PROVE s \in G
  <2>1. g[s] = IF s = {} THEN 0 ELSE f[Pick(s)] + g[s \ {Pick(s)}]
    BY DEF IsSum, SumsOver
  <2>2. s # {} => f[Pick(s)] \in Int /\ g[s \ {Pick(s)}] \in Int
    BY <1>1, PickIsMember
  <2>3. QED
    BY <2>1, <2>2
<1>2. \A s \in SUBSET S : s \in G
  <2> HIDE DEF G
  <2>1. QED
    BY <1>1, SubsetInduction
<1>3. QED
  BY <1>2

(* Any element may be the first to be taken. *)
LEMMA AnyOrder ==
    ASSUME NEW S, IsFiniteSet(S), NEW f \in [S -> Int], NEW g, IsSum(f, g)
    PROVE  \A s \in SUBSET S : \A x \in s : g[s] = f[x] + g[s \ {x}]
<1> DEFINE G == {s \in SUBSET S : \A x \in s : g[s] = f[x] + g[s \ {x}]}
<1>1. ASSUME NEW s \in SUBSET S, \A x \in s : s \ {x} \in G PROVE s \in G
  <2> SUFFICES ASSUME NEW x \in s PROVE g[s] = f[x] + g[s \ {x}]
    OBVIOUS
  <2> DEFINE y == Pick(s)
  <2>1. y \in s /\ g[s] = f[y] + g[s \ {y}]
    BY PickIsMember DEF IsSum, SumsOver
  <2> HIDE DEF y
  <2>2. CASE x = y
    BY <2>1, <2>2
  <2>3. CASE x # y
    <3>1. g[s \ {y}] = f[x] + g[(s \ {y}) \ {x}]
      BY <1>1, <2>1, <2>3
    <3>2. g[s \ {x}] = f[y] + g[(s \ {x}) \ {y}]
      BY <1>1, <2>1, <2>3
    <3>3. (s \ {y}) \ {x} = (s \ {x}) \ {y}
      OBVIOUS
    <3> DEFINE rest == g[(s \ {x}) \ {y}]
    <3>4. f[x] \in Int /\ f[y] \in Int /\ rest \in Int
      BY <2>1, PartialSumType
    <3>5. g[s] = f[y] + (f[x] + rest) /\ g[s \ {x}] = f[y] + rest
      BY <2>1, <3>1, <3>2, <3>3
    <3> HIDE DEF rest
    <3>6. QED
      BY <3>4, <3>5
  <2>4. QED
    BY <2>2, <2>3
<1>2. \A s \in SUBSET S : s \in G
  <2> HIDE DEF G
  <2>1. QED
    BY <1>1, SubsetInduction
<1>3. QED
  BY <1>2

(* The sum over a subset depends on the values there only. *)
LEMMA SumsAgree ==
    ASSUME NEW S, IsFiniteSet(S), NEW f, NEW g, NEW e, NEW h, IsSum(f, g), IsSum(e, h),
           S \subseteq DOMAIN f, S \subseteq DOMAIN e, \A x \in S : f[x] = e[x]
    PROVE  g[S] = h[S]
<1> DEFINE G == {s \in SUBSET S : g[s] = h[s]}
<1>1. ASSUME NEW s \in SUBSET S, \A x \in s : s \ {x} \in G PROVE s \in G
  <2>1. /\ g[s] = IF s = {} THEN 0 ELSE f[Pick(s)] + g[s \ {Pick(s)}]
        /\ h[s] = IF s = {} THEN 0 ELSE e[Pick(s)] + h[s \ {Pick(s)}]
    BY DEF IsSum, SumsOver
  <2>2. s # {} => f[Pick(s)] = e[Pick(s)] /\ g[s \ {Pick(s)}] = h[s \ {Pick(s)}]
    BY <1>1, PickIsMember
  <2>3. QED
    BY <2>1, <2>2
<1>2. \A s \in SUBSET S : s \in G
  <2> HIDE DEF G
  <2>1. QED
    BY <1>1, SubsetInduction
<1>3. QED
  BY <1>2

-----------------------------------------------------------------------------
(* What a sum is. *)

LEMMA SumOfNone ==
    ASSUME NEW f, DOMAIN f = {}
    PROVE  SumFunction(f) = 0
<1>1. IsFiniteSet(DOMAIN f)
  BY FS_EmptySet
<1>2. PICK g : IsSum(f, g) /\ SumFunction(f) = g[DOMAIN f]
  BY <1>1, SumIsSum
<1>3. QED
  BY <1>2 DEF IsSum, SumsOver

LEMMA SumType ==
    ASSUME NEW S, IsFiniteSet(S), NEW f \in [S -> Int]
    PROVE  SumFunction(f) \in Int
<1>1. DOMAIN f = S
  OBVIOUS
<1>2. PICK g : IsSum(f, g) /\ SumFunction(f) = g[DOMAIN f]
  BY <1>1, SumIsSum
<1>3. QED
  BY <1>1, <1>2, PartialSumType

(* The part of a sum over a subset of the domain. *)
Part(f, s) == SumFunction([x \in s |-> f[x]])

LEMMA SumTakeOne ==
    ASSUME NEW S, IsFiniteSet(S), NEW f \in [S -> Int], NEW x \in S
    PROVE  SumFunction(f) = f[x] + Part(f, S \ {x})
<1> DEFINE e == [y \in S \ {x} |-> f[y]]
<1>1. DOMAIN f = S /\ DOMAIN e = S \ {x} /\ IsFiniteSet(S \ {x})
  BY FS_RemoveElement
<1>2. \A y \in S \ {x} : f[y] = e[y]
  OBVIOUS
<1> HIDE DEF e
<1>3. PICK g : IsSum(f, g) /\ SumFunction(f) = g[S]
  BY <1>1, SumIsSum
<1>4. PICK h : IsSum(e, h) /\ SumFunction(e) = h[S \ {x}]
  BY <1>1, SumIsSum
<1>5. g[S] = f[x] + g[S \ {x}]
  BY <1>3, AnyOrder
<1>6. g[S \ {x}] = h[S \ {x}]
  BY <1>1, <1>2, <1>3, <1>4, SumsAgree
<1>7. QED
  BY <1>3, <1>4, <1>5, <1>6 DEF e, Part

LEMMA PartSteps ==
    ASSUME NEW S, IsFiniteSet(S), NEW f \in [S -> Int], NEW s \in SUBSET S
    PROVE  /\ Part(f, s) \in Int
           /\ Part(f, {}) = 0
           /\ \A x \in s : Part(f, s) = f[x] + Part(f, s \ {x})
<1> DEFINE e == [x \in s |-> f[x]]
<1>1. IsFiniteSet(s) /\ e \in [s -> Int]
  BY FS_Subset
<1>2. Part(f, s) \in Int
  <2> HIDE DEF e
  <2>1. SumFunction(e) \in Int
    BY <1>1, SumType
  <2>2. QED
    BY <2>1 DEF Part, e
<1>3. Part(f, {}) = 0
  <2>1. DOMAIN [x \in {} |-> f[x]] = {}
    OBVIOUS
  <2>2. QED
    BY <2>1, SumOfNone DEF Part
<1>4. ASSUME NEW x \in s PROVE Part(f, s) = f[x] + Part(f, s \ {x})
  <2>1. [y \in s \ {x} |-> e[y]] = [y \in s \ {x} |-> f[y]] /\ e[x] = f[x]
    OBVIOUS
  <2> HIDE DEF e
  <2>2. SumFunction(e) = e[x] + Part(e, s \ {x})
    BY <1>1, SumTakeOne
  <2>3. Part(e, s \ {x}) = Part(f, s \ {x})
    BY <2>1 DEF Part
  <2>4. QED
    BY <2>1, <2>2, <2>3 DEF Part, e
<1>5. QED
  BY <1>2, <1>3, <1>4

LEMMA SumIsPart ==
    ASSUME NEW S, NEW f \in [S -> Int]
    PROVE  SumFunction(f) = Part(f, S)
<1>1. f = [x \in S |-> f[x]]
  OBVIOUS
<1>2. QED
  BY <1>1 DEF Part

LEMMA SumOfDisjoint ==
    ASSUME NEW S, IsFiniteSet(S), NEW f \in [S -> Int],
           NEW A \in SUBSET S, NEW B \in SUBSET S, A \cap B = {}
    PROVE  Part(f, A \union B) = Part(f, A) + Part(f, B)
<1> DEFINE G == {b \in SUBSET B : Part(f, A \union b) = Part(f, A) + Part(f, b)}
<1>1. IsFiniteSet(B)
  BY FS_Subset
<1>2. ASSUME NEW b \in SUBSET B, \A x \in b : b \ {x} \in G PROVE b \in G
  <2>1. CASE b = {}
    <3>1. A \union b = A /\ Part(f, b) = 0 /\ Part(f, A) \in Int
      BY <2>1, PartSteps
    <3>2. Part(f, A \union b) = Part(f, A)
      BY <3>1, Zenon
    <3>3. Part(f, A \union b) = Part(f, A) + Part(f, b)
      BY <3>1, <3>2
    <3>4. QED
      BY <3>3
  <2>2. CASE b # {}
    <3>1. PICK x : x \in b
      BY <2>2
    <3>2. x \notin A /\ x \in S /\ A \union b \in SUBSET S /\ b \in SUBSET S /\ b \ {x} \in SUBSET S
      BY <3>1
    <3>3. /\ Part(f, A \union b) = f[x] + Part(f, (A \union b) \ {x})
          /\ Part(f, b) = f[x] + Part(f, b \ {x})
      BY <3>1, <3>2, PartSteps
    <3>4. (A \union b) \ {x} = A \union (b \ {x})
      BY <3>2
    <3>5. Part(f, A \union (b \ {x})) = Part(f, A) + Part(f, b \ {x})
      BY <1>2, <3>1
    <3>6. f[x] \in Int /\ Part(f, A) \in Int /\ Part(f, b \ {x}) \in Int
      BY <3>2, PartSteps
    <3>7. Part(f, A \union b) = f[x] + (Part(f, A) + Part(f, b \ {x}))
      BY <3>3, <3>4, <3>5
    <3>8. QED
      BY <3>3, <3>6, <3>7
  <2>3. QED
    BY <2>1, <2>2
<1>3. \A b \in SUBSET B : b \in G
  <2> HIDE DEF G
  <2>1. QED
    BY <1>1, <1>2, SubsetInduction
<1>4. QED
  BY <1>3

(* A sum by groups is the sum: rows w, into which h sorts what f values. *)
LEMMA SumByGroups ==
    ASSUME NEW S, IsFiniteSet(S), NEW f \in [S -> Int],
           NEW R, IsFiniteSet(R), NEW w \in [R -> Int], NEW h \in [S -> R],
           \A r \in R : w[r] = Part(f, {s \in S : h[s] = r})
    PROVE  SumFunction(w) = SumFunction(f)
<1> DEFINE In(T) == {s \in S : h[s] \in T}
           G == {T \in SUBSET R : Part(w, T) = Part(f, In(T))}
<1>1. ASSUME NEW T \in SUBSET R, \A r \in T : T \ {r} \in G PROVE T \in G
  <2>1. CASE T = {}
    <3>1. In(T) = {}
      BY <2>1
    <3>2. Part(w, T) = 0 /\ Part(f, In(T)) = 0
      <4>1. Part(w, {}) = 0
        BY PartSteps
      <4>2. Part(f, {}) = 0
        BY PartSteps
      <4>3. QED
        BY <2>1, <3>1, <4>1, <4>2
    <3>3. QED
      BY <3>2
  <2>2. CASE T # {}
    <3>1. PICK r : r \in T
      BY <2>2
    <3> DEFINE one == {s \in S : h[s] = r}
               rest == In(T \ {r})
    <3>2. In(T) = one \union rest /\ one \cap rest = {}
      BY <3>1
    <3>3. one \in SUBSET S /\ rest \in SUBSET S
      OBVIOUS
    <3>4. Part(w, T) = w[r] + Part(w, T \ {r})
      BY <3>1, PartSteps
    <3>5. Part(w, T \ {r}) = Part(f, rest) /\ w[r] = Part(f, one)
      BY <1>1, <3>1
    <3> HIDE DEF one, rest
    <3>6. Part(f, one \union rest) = Part(f, one) + Part(f, rest)
      BY <3>2, <3>3, SumOfDisjoint
    <3>7. Part(w, T) = Part(f, In(T))
      BY <3>2, <3>4, <3>5, <3>6
    <3>8. QED
      BY <3>7
  <2>3. QED
    BY <2>1, <2>2
<1>2. \A T \in SUBSET R : T \in G
  <2> HIDE DEF G
  <2>1. QED
    BY <1>1, SubsetInduction
<1>3. Part(w, R) = Part(f, In(R)) /\ In(R) = S
  BY <1>2
<1>4. QED
  BY <1>3, SumIsPart

(* Sums differ, each scaled, by what their values differ. *)
LEMMA SumsStayClose ==
    ASSUME NEW S, IsFiniteSet(S), NEW f \in [S -> Int], NEW e \in [S -> Int],
           NEW c \in Nat, NEW d \in Nat, NEW k \in Nat,
           \A x \in S : -k <= c * f[x] - d * e[x] /\ c * f[x] - d * e[x] <= k
    PROVE  /\ -(k * Cardinality(S)) <= c * SumFunction(f) - d * SumFunction(e)
           /\ c * SumFunction(f) - d * SumFunction(e) <= k * Cardinality(S)
<1> DEFINE Close(s) == /\ -(k * Cardinality(s)) <= c * Part(f, s) - d * Part(e, s)
                       /\ c * Part(f, s) - d * Part(e, s) <= k * Cardinality(s)
           G == {s \in SUBSET S : Close(s)}
<1>1. ASSUME NEW s \in SUBSET S, \A x \in s : s \ {x} \in G PROVE Close(s)
  <2>0. IsFiniteSet(s) /\ Cardinality(s) \in Nat
    BY FS_Subset, FS_CardinalityType
  <2>1. CASE s = {}
    <3>1. Part(f, s) = 0 /\ Part(e, s) = 0 /\ Cardinality(s) = 0
      <4>1. Part(f, {}) = 0 /\ Part(e, {}) = 0
        BY PartSteps
      <4>2. QED
        BY <2>1, <4>1, FS_EmptySet
    <3>2. QED
      BY <3>1
  <2>2. CASE s # {}
    <3>1. PICK x : x \in s
      BY <2>2
    <3> DEFINE n == Cardinality(s \ {x})
               F == Part(f, s \ {x})
               E == Part(e, s \ {x})
               u == f[x]
               v == e[x]
    <3>2. n \in Nat /\ Cardinality(s) = n + 1
      <4>1. IsFiniteSet(s \ {x}) /\ n = Cardinality(s) - 1
        BY <2>0, <3>1, FS_RemoveElement
      <4>2. n \in Nat
        BY <4>1, FS_CardinalityType
      <4> HIDE DEF n
      <4>3. QED
        BY <2>0, <4>1, <4>2
    <3>3. Part(f, s) = u + F /\ Part(e, s) = v + E
      BY <3>1, PartSteps
    <3>4. F \in Int /\ E \in Int /\ u \in Int /\ v \in Int
      BY <3>1, PartSteps
    <3>5. -(k * n) <= c * F - d * E /\ c * F - d * E <= k * n
      BY <1>1, <3>1
    <3>6. -k <= c * u - d * v /\ c * u - d * v <= k
      BY <3>1
    <3> HIDE DEF n, F, E, u, v
    <3>7. c * (u + F) = c * u + c * F /\ d * (v + E) = d * v + d * E /\ k * (n + 1) = k * n + k
      BY <3>2, <3>4
    <3>8. {c * u, c * F, d * v, d * E, k * n} \subseteq Int
      BY <3>2, <3>4
    <3>9. /\ -(k * (n + 1)) <= c * (u + F) - d * (v + E)
          /\ c * (u + F) - d * (v + E) <= k * (n + 1)
      BY <3>4, <3>5, <3>6, <3>7, <3>8
    <3>10. QED
      BY <3>2, <3>3, <3>9
  <2>3. QED
    BY <2>1, <2>2
<1>2. \A s \in SUBSET S : s \in G
  <2> HIDE DEF Close
  <2>1. \A s \in SUBSET S : (\A x \in s : s \ {x} \in G) => s \in G
    BY <1>1
  <2> HIDE DEF G
  <2>2. QED
    BY <2>1, SubsetInduction
<1>3. Close(S)
  BY <1>2
<1>4. SumFunction(f) = Part(f, S) /\ SumFunction(e) = Part(e, S)
  BY SumIsPart
<1>5. QED
  BY <1>3, <1>4
=============================================================================
