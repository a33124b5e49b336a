---------------------------- MODULE WellFounded ----------------------------
(***************************************************************************)
(* Induction and recursion without operators as parameters: a least        *)
(* element stands for an induction hypothesis, and a function on functions *)
(* for the body of a recursive definition.  The proofs about sequences,    *)
(* commits and policy trees rest on these lemmas.                          *)
(***************************************************************************)
EXTENDS FiniteSetTheorems, FiniteSetsExt, TLAPS

(* Every nonempty set of naturals has a least element.                      *)
LEMMA LeastNumber ==
  ASSUME NEW T, T \subseteq Nat, T # {}
  PROVE  \E n \in T : \A m \in T : n <= m
<1>1. PICK n \in T : \A m \in T : ~ (<<m, n>> \in OpToRel(<, Nat))
  BY NatLessThanWellFounded, WFMin, Zenon
<1>2. \A m \in T : ~ (m < n)
  <2>1. ASSUME NEW m \in T PROVE ~ (m < n)
    <3>1. <<m, n>> \in Nat \X Nat
      OBVIOUS
    <3>2. QED
      BY <1>1, <3>1, Zenon DEF OpToRel
  <2>2. QED
    BY <2>1
<1>3. QED
  BY <1>2

(* What holds of 0 and passes from each number to the next holds up to N.   *)
LEMMA CountingUp ==
  ASSUME NEW N \in Nat, NEW T, 0 \in T, \A n \in 1..N : n - 1 \in T => n \in T
  PROVE  0..N \subseteq T
<1> DEFINE missing == (0..N) \ T
<1>1. SUFFICES ASSUME missing # {} PROVE FALSE
  OBVIOUS
<1>2. PICK n \in missing : \A m \in missing : n <= m
  <2>1. missing \subseteq Nat
    OBVIOUS
  <2>2. QED
    BY <1>1, <2>1, LeastNumber
<1>3. n \in 1..N /\ n - 1 \in 0..N /\ ~ (n <= n - 1)
  OBVIOUS
<1>4. n - 1 \in T
  BY <1>2, <1>3
<1>5. QED
  BY <1>3, <1>4

(* Of what has a rank, something has the least.                             *)
LEMMA LeastRank ==
  ASSUME NEW D, NEW rank \in [D -> Nat], NEW T, T \subseteq D, T # {}
  PROVE  \E x \in T : \A y \in T : rank[x] <= rank[y]
<1> DEFINE ranks == {rank[x] : x \in T}
<1>1. ranks \subseteq Nat /\ ranks # {}
  OBVIOUS
<1>2. PICK n \in ranks : \A m \in ranks : n <= m
  BY <1>1, LeastNumber
<1>3. QED
  BY <1>2

LEMMA MinOfNaturals ==
  ASSUME NEW T, T \subseteq Nat, T # {}
  PROVE  Min(T) \in T /\ \A m \in T : Min(T) <= m
<1>1. \E n \in T : \A m \in T : n <= m
  BY LeastNumber
<1>2. QED
  BY <1>1 DEF Min

(* A finite set of naturals is bounded, and so has a greatest element.      *)
LEMMA FiniteSetIsBounded ==
  ASSUME NEW S, S \subseteq Nat, IsFiniteSet(S)
  PROVE  \E b \in Nat : \A m \in S : m <= b
<1> DEFINE Unbounded(s) == s \subseteq Nat /\ IsFiniteSet(s) /\ ~ \E b \in Nat : \A m \in s : m <= b
           bad == {n \in Nat : \E s \in SUBSET Nat : Unbounded(s) /\ Cardinality(s) = n}
<1>1. SUFFICES ASSUME Unbounded(S) PROVE FALSE
  OBVIOUS
<1>2. bad # {}
  <2>1. Cardinality(S) \in Nat
    BY FS_CardinalityType
  <2>2. S \in SUBSET Nat
    OBVIOUS
  <2>3. QED
    BY <1>1, <2>1, <2>2
<1>3. PICK n \in bad : \A m \in bad : n <= m
  BY <1>2, LeastNumber
<1>4. PICK s \in SUBSET Nat : Unbounded(s) /\ Cardinality(s) = n
  BY <1>3
<1>5. PICK x \in s : TRUE
  <2>1. s # {}
    BY <1>4
  <2>2. QED
    BY <2>1
<1>6. /\ IsFiniteSet(s \ {x})
      /\ Cardinality(s \ {x}) = n - 1
  BY <1>4, <1>5, FS_RemoveElement
<1>7. Cardinality(s \ {x}) \in Nat
  BY <1>6, FS_CardinalityType
<1>8. n - 1 \notin bad
  BY <1>3, <1>6, <1>7
<1>9. PICK b \in Nat : \A m \in s \ {x} : m <= b
  BY <1>6, <1>7, <1>8
<1>10. PICK c \in Nat : c = IF x <= b THEN b ELSE x
  BY <1>5
<1>11. \A m \in s : m <= c
  BY <1>9, <1>10
<1>12. QED
  BY <1>4, <1>11

LEMMA ImageIsFinite ==
  ASSUME NEW S, IsFiniteSet(S), NEW f
  PROVE  IsFiniteSet({f[x] : x \in S})
<1> DEFINE T == {f[x] : x \in S}
           g == [x \in S |-> f[x]]
<1>1. g \in Surjection(S, T)
  BY DEF Surjection
<1>2. QED
  BY <1>1, FS_Surjection

LEMMA MaxOfNaturals ==
  ASSUME NEW S, S \subseteq Nat, S # {}, IsFiniteSet(S)
  PROVE  Max(S) \in S /\ \A m \in S : m <= Max(S)
<1> DEFINE bounds == {b \in Nat : \A m \in S : m <= b}
<1>1. bounds # {} /\ bounds \subseteq Nat
  BY FiniteSetIsBounded
<1>2. PICK b \in bounds : \A c \in bounds : b <= c
  BY <1>1, LeastNumber
<1>3. b \in S
  <2>1. SUFFICES ASSUME b \notin S PROVE FALSE
    OBVIOUS
  <2>2. \A m \in S : m <= b - 1
    BY <2>1
  <2>3. b - 1 \in Nat
    <3>1. PICK m \in S : m \in Nat /\ m <= b - 1
      BY <2>2
    <3>2. b \in Nat
      OBVIOUS
    <3>3. QED
      BY <3>1, <3>2
  <2>4. b - 1 \in bounds
    BY <2>2, <2>3
  <2>5. QED
    BY <1>2, <2>3, <2>4
<1>4. \E n \in S : \A m \in S : n >= m
  BY <1>3
<1>5. Max(S) \in S /\ \A m \in S : Max(S) >= m
  BY <1>4 DEF Max
<1>6. QED
  BY <1>5

-----------------------------------------------------------------------------
(***************************************************************************)
(* A definition f[x \in D] == body(f, x), in which the body looks f up     *)
(* below x only, has a solution.  step[x] is the body at x, as a function  *)
(* of f; rank says what is below what.                                     *)
(***************************************************************************)
LooksBelow(step, D, V, rank) ==
  \A x \in D : \A g, h \in [D -> V] :
    (\A y \in D : rank[y] < rank[x] => g[y] = h[y]) => step[x][g] = step[x][h]

IsRecursion(step, D, V, rank, N) ==
  /\ N \in Nat
  /\ rank \in [D -> 0..N]
  /\ V # {}
  /\ step \in [D -> [[D -> V] -> V]]
  /\ LooksBelow(step, D, V, rank)

Solution(f, step, D, V) == f \in [D -> V] /\ \A x \in D : f[x] = step[x][f]

LEMMA RecursionHasSolution ==
  ASSUME NEW D, NEW V, NEW N, NEW rank, NEW step, IsRecursion(step, D, V, rank, N)
  PROVE  \E f : Solution(f, step, D, V)
<1>0. /\ N \in Nat
      /\ rank \in [D -> 0..N]
      /\ V # {}
      /\ step \in [D -> [[D -> V] -> V]]
      /\ LooksBelow(step, D, V, rank)
  BY DEF IsRecursion
<1> DEFINE Solves(f, n) == \A x \in D : rank[x] < n => f[x] = step[x][f]
           bad == {n \in Nat : ~ \E f \in [D -> V] : Solves(f, n)}
<1>1. bad = {}
  <2>1. SUFFICES ASSUME bad # {} PROVE FALSE
    OBVIOUS
  <2>2. PICK n \in bad : \A m \in bad : n <= m
    BY <2>1, LeastNumber
  <2>3. n # 0
    <3>1. PICK v \in V : TRUE
      BY <1>0
    <3>2. [x \in D |-> v] \in [D -> V]
      OBVIOUS
    <3>3. Solves([x \in D |-> v], 0)
      BY <1>0
    <3>4. QED
      BY <3>2, <3>3, <2>2
  <2>4. PICK f \in [D -> V] : Solves(f, n - 1)
    <3>1. n - 1 \in Nat /\ n - 1 \notin bad
      BY <2>2, <2>3
    <3>2. QED
      BY <3>1
  <2> DEFINE g == [x \in D |-> IF rank[x] = n - 1 THEN step[x][f] ELSE f[x]]
  <2>5. g \in [D -> V]
    BY <1>0
  <2>6. ASSUME NEW x \in D, rank[x] < n PROVE g[x] = step[x][g]
    <3>1. rank[x] \in Nat /\ n \in Nat /\ rank[x] < n
      BY <1>0, <2>6
    <3>2. \A y \in D : rank[y] < rank[x] => f[y] = g[y]
      BY <2>6, <3>1
    <3>3. step[x][f] = step[x][g]
      BY <1>0, <2>5, <3>2, ZenonT(30) DEF LooksBelow
    <3>4. CASE rank[x] = n - 1
      BY <3>3, <3>4
    <3>5. CASE rank[x] < n - 1
      <4>1. g[x] = f[x]
        BY <3>5
      <4>2. f[x] = step[x][f]
        BY <2>4, <3>5
      <4>3. QED
        BY <3>3, <4>1, <4>2
    <3>6. rank[x] = n - 1 \/ rank[x] < n - 1
      <4>1. \A a, b \in Nat : a < b => a = b - 1 \/ a < b - 1
        OBVIOUS
      <4>2. QED
        BY <3>1, <4>1, Zenon
    <3>7. QED
      BY <3>4, <3>5, <3>6
  <2>7. QED
    BY <2>2, <2>5, <2>6
<1>2. N + 1 \in Nat
  BY <1>0
<1>3. PICK f \in [D -> V] : Solves(f, N + 1)
  BY <1>1, <1>2
<1>4. \A x \in D : rank[x] < N + 1
  BY <1>0
<1>5. QED
  BY <1>3, <1>4 DEF Solution
=============================================================================
