------------------------- MODULE ApprovalRuleProofs -------------------------
(***************************************************************************)
(* Who approves a pull request, for any commits, people, rules and order   *)
(* of what they do.                                                        *)
(***************************************************************************)
EXTENDS ApprovalEvents, SequenceTheorems, WellFounded, TLAPS

-----------------------------------------------------------------------------
(***************************************************************************)
(* Commits.                                                                *)
(***************************************************************************)
LEMMA PlaceIs ==
  ASSUME NEW s \in Shas
  PROVE  Place(s) \in 1..Len(Listing) /\ Listing[Place(s)] = s
<1>1. \E i \in 1..Len(Listing) : Listing[i] = s
  BY CommitsAssumption DEF Shas, ToSet
<1>2. QED
  BY <1>1 DEF Place

LEMMA ParentsArePlacedBelow ==
  ASSUME NEW s \in Shas
  PROVE  /\ Parents[s] \in Seq(Shas)
         /\ ToSet(Parents[s]) \subseteq Shas
         /\ \A p \in ToSet(Parents[s]) : Place(p) < Place(s)
BY CommitsAssumption DEF ToSet

(* Induction from the oldest commits on. *)
LEMMA FromParents ==
  ASSUME NEW T, \A s \in Shas : ToSet(Parents[s]) \subseteq T => s \in T
  PROVE  Shas \subseteq T
<1> DEFINE rank == [s \in Shas |-> Place(s)]
           bad == Shas \ T
<1>1. SUFFICES ASSUME bad # {} PROVE FALSE
  OBVIOUS
<1>2. rank \in [Shas -> Nat]
  BY PlaceIs
<1>3. PICK s \in bad : \A t \in bad : rank[s] <= rank[t]
  BY <1>1, <1>2, LeastRank
<1>4. PICK p \in ToSet(Parents[s]) : p \notin T
  BY <1>3
<1>5. p \in bad /\ Place(p) < Place(s) /\ s \in Shas
  BY <1>3, <1>4, ParentsArePlacedBelow
<1>6. rank[p] < rank[s] /\ rank[p] \in Nat /\ rank[s] \in Nat
  BY <1>2, <1>5
<1>7. QED
  BY <1>3, <1>5, <1>6

LEMMA HistoryIs ==
  /\ History \in [Shas -> SUBSET Shas]
  /\ \A s \in Shas : History[s] = {s} \union UNION {History[p] : p \in ToSet(Parents[s])}
<1> DEFINE unfold(f, s) == {s} \union UNION {f[p] : p \in ToSet(Parents[s])}
           V == SUBSET Shas
           rank == [s \in Shas |-> Place(s)]
           step == [s \in Shas |-> [f \in [Shas -> V] |-> unfold(f, s)]]
<1>1. \A s \in Shas : \A f \in [Shas -> V] : unfold(f, s) \in V
  BY ParentsArePlacedBelow
<1>2. step \in [Shas -> [[Shas -> V] -> V]]
  BY <1>1
<1>3. rank \in [Shas -> 0..Len(Listing)] /\ Len(Listing) \in Nat
  BY PlaceIs, CommitsAssumption
<1>4. LooksBelow(step, Shas, V, rank)
  <2> SUFFICES ASSUME NEW s \in Shas, NEW g \in [Shas -> V], NEW h \in [Shas -> V],
                      \A t \in Shas : rank[t] < rank[s] => g[t] = h[t]
               PROVE  step[s][g] = step[s][h]
    BY DEF LooksBelow
  <2>1. \A p \in ToSet(Parents[s]) : g[p] = h[p]
    BY ParentsArePlacedBelow
  <2>2. {g[p] : p \in ToSet(Parents[s])} = {h[p] : p \in ToSet(Parents[s])}
    BY <2>1
  <2>3. QED
    BY <2>2
<1>5. IsRecursion(step, Shas, V, rank, Len(Listing))
  <2> HIDE DEF step, rank
  <2>1. V # {}
    OBVIOUS
  <2>2. QED
    BY <1>2, <1>3, <1>4, <2>1 DEF IsRecursion
<1>6. PICK f : Solution(f, step, Shas, V)
  <2> HIDE DEF step, rank, V
  <2>1. QED
    BY <1>5, RecursionHasSolution, Zenon
<1>7. f \in [Shas -> V] /\ \A s \in Shas : f[s] = unfold(f, s)
  BY <1>6 DEF Solution
<1> DEFINE solves(g) == g = [s \in Shas |-> {s} \union UNION {g[p] : p \in ToSet(Parents[s])}]
<1>8. solves(f)
  BY <1>7
<1>9. History = CHOOSE g : solves(g)
  BY Zenon DEF History
<1>10. solves(History)
  <2> HIDE DEF solves
  <2>1. QED
    BY <1>8, <1>9, Zenon
<1> DEFINE T == {s \in Shas : History[s] \subseteq Shas}
<1>11. \A s \in Shas : History[s] = {s} \union UNION {History[p] : p \in ToSet(Parents[s])}
  BY <1>10
<1>12. \A s \in Shas : ToSet(Parents[s]) \subseteq T => s \in T
  BY <1>11
<1>13. Shas \subseteq T
  BY <1>12, FromParents
<1>14. QED
  BY <1>10, <1>11, <1>13

LEMMA HistoryHas ==
  ASSUME NEW h \in Shas
  PROVE  /\ h \in History[h] /\ History[h] \subseteq Shas
         /\ \A p \in ToSet(Parents[h]) : History[p] \subseteq History[h]
         /\ \A s \in History[h] : s = h \/ \E p \in ToSet(Parents[h]) : s \in History[p]
BY HistoryIs

LEMMA HistoryIsTransitive ==
  ASSUME NEW h \in Shas, NEW s \in History[h]
  PROVE  History[s] \subseteq History[h]
<1> DEFINE T == {t \in Shas : \A u \in History[t] : History[u] \subseteq History[t]}
<1>1. ASSUME NEW t \in Shas, ToSet(Parents[t]) \subseteq T PROVE t \in T
  <2> SUFFICES ASSUME NEW u \in History[t] PROVE History[u] \subseteq History[t]
    OBVIOUS
  <2>1. CASE u = t
    BY <2>1
  <2>2. CASE u # t
    <3>1. PICK p \in ToSet(Parents[t]) : u \in History[p]
      BY <2>2, HistoryHas
    <3>2. History[u] \subseteq History[p] /\ History[p] \subseteq History[t]
      BY <1>1, <3>1, HistoryHas
    <3>3. QED
      BY <3>2
  <2>3. QED
    BY <2>1, <2>2
<1>2. Shas \subseteq T
  <2> HIDE DEF T
  <2>1. QED
    BY <1>1, FromParents
<1>3. QED
  BY <1>2

LEMMA BaseIsClosed ==
  ASSUME NEW s \in Base
  PROVE  History[s] \subseteq Base
<1> DEFINE T == {t \in Shas : t \in Base => History[t] \subseteq Base}
<1>1. ASSUME NEW t \in Shas, ToSet(Parents[t]) \subseteq T PROVE t \in T
  BY <1>1, HistoryHas, CommitsAssumption
<1>2. Shas \subseteq T
  <2> HIDE DEF T
  <2>1. QED
    BY <1>1, FromParents
<1>3. QED
  BY <1>2, CommitsAssumption

(* What sortCommits collects from each commit on. *)
IsSort(f, commits) ==
  /\ f \in [Shas -> Seq(Shas)]
  /\ \A s \in Shas :
       f[s] = IF s \notin commits THEN <<>>
              ELSE IF Parents[s] = <<>> THEN <<s>> ELSE <<s>> \o f[Parents[s][1]]

LEMMA FirstParent ==
  ASSUME NEW s \in Shas, Parents[s] # <<>>
  PROVE  Parents[s][1] \in ToSet(Parents[s]) /\ Parents[s][1] \in Shas
BY ParentsArePlacedBelow DEF ToSet

LEMMA SortIs ==
  ASSUME NEW commits
  PROVE  \E f : IsSort(f, commits) /\ \A h : SortCommits(commits, h) = f[h]
<1> DEFINE unfold(f, s) == IF s \notin commits THEN <<>>
                         ELSE IF Parents[s] = <<>> THEN <<s>> ELSE <<s>> \o f[Parents[s][1]]
           V == Seq(Shas)
           rank == [s \in Shas |-> Place(s)]
           step == [s \in Shas |-> [f \in [Shas -> V] |-> unfold(f, s)]]
<1>1. \A s \in Shas : \A f \in [Shas -> V] : unfold(f, s) \in V
  BY FirstParent
<1>2. step \in [Shas -> [[Shas -> V] -> V]]
  BY <1>1
<1>3. rank \in [Shas -> 0..Len(Listing)] /\ Len(Listing) \in Nat
  BY PlaceIs, CommitsAssumption
<1>4. LooksBelow(step, Shas, V, rank)
  <2> SUFFICES ASSUME NEW s \in Shas, NEW g \in [Shas -> V], NEW h \in [Shas -> V],
                      \A t \in Shas : rank[t] < rank[s] => g[t] = h[t]
               PROVE  step[s][g] = step[s][h]
    BY DEF LooksBelow
  <2>1. Parents[s] # <<>> => g[Parents[s][1]] = h[Parents[s][1]]
    BY ParentsArePlacedBelow, FirstParent
  <2>2. QED
    BY <2>1
<1>5. IsRecursion(step, Shas, V, rank, Len(Listing))
  <2> HIDE DEF step, rank
  <2>1. <<>> \in V
    OBVIOUS
  <2>2. QED
    BY <1>2, <1>3, <1>4, <2>1 DEF IsRecursion
<1>6. PICK f : Solution(f, step, Shas, V)
  <2> HIDE DEF step, rank, V
  <2>1. QED
    BY <1>5, RecursionHasSolution, Zenon
<1>7. f \in [Shas -> V] /\ \A s \in Shas : f[s] = unfold(f, s)
  BY <1>6 DEF Solution
<1> DEFINE solves(g) ==
      g = [s \in Shas |-> IF s \notin commits THEN <<>>
                          ELSE IF Parents[s] = <<>> THEN <<s>> ELSE <<s>> \o g[Parents[s][1]]]
           from == CHOOSE g : solves(g)
<1>8. solves(f)
  BY <1>7
<1>9. \A h : SortCommits(commits, h) = from[h]
  BY Zenon DEF SortCommits
<1>10. solves(from)
  <2> HIDE DEF solves
  <2>1. QED
    BY <1>8, Zenon
<1> HIDE DEF from
<1>11. \A s \in Shas : from[s] = unfold(from, s)
  BY <1>10
<1> DEFINE T == {s \in Shas : from[s] \in Seq(Shas)}
<1>12. ASSUME NEW s \in Shas, ToSet(Parents[s]) \subseteq T PROVE s \in T
  <2>1. Parents[s] # <<>> => from[Parents[s][1]] \in Seq(Shas)
    BY <1>12, FirstParent
  <2>2. <<>> \in Seq(Shas) /\ <<s>> \in Seq(Shas)
    OBVIOUS
  <2>3. from[s] \in Seq(Shas)
    <3>1. CASE s \notin commits
      BY <1>11, <2>2, <3>1
    <3>2. CASE s \in commits /\ Parents[s] = <<>>
      BY <1>11, <2>2, <3>2
    <3>3. CASE s \in commits /\ Parents[s] # <<>>
      <4> DEFINE q == from[Parents[s][1]]
      <4>1. from[s] = <<s>> \o q /\ q \in Seq(Shas)
        BY <1>11, <2>1, <3>3
      <4> HIDE DEF q
      <4>2. QED
        BY <2>2, <4>1
    <3>4. QED
      BY <3>1, <3>2, <3>3
  <2>4. QED
    BY <2>3
<1>13. Shas \subseteq T
  <2> HIDE DEF T
  <2>1. QED
    BY <1>12, FromParents
<1>14. from \in [Shas -> Seq(Shas)]
  BY <1>10, <1>13
<1>15. IsSort(from, commits)
  <2> HIDE DEF solves
  <2>1. QED
    BY <1>11, <1>14 DEF IsSort
<1>16. QED
  BY <1>9, <1>15

(* The parents of merges, but the first, are in the base branch already. *)
NoFeatureMerges == \A s \in Shas : \A i \in 2..Len(Parents[s]) : Parents[s][i] \in Base

LEMMA CommitsAre ==
  ASSUME NEW h \in Shas
  PROVE  /\ CommitsOf(h) \subseteq Shas
         /\ h \notin Base => h \in CommitsOf(h)
         /\ \A s \in History[h] : CommitsOf(s) \subseteq CommitsOf(h)
         /\ h \in Base => CommitsOf(h) = {}
BY HistoryHas, HistoryIsTransitive, BaseIsClosed DEF CommitsOf

(* Sorting follows a line of history and stops at the base branch. *)
LEMMA SortedLine ==
  ASSUME NEW h \in Shas, NEW f, IsSort(f, CommitsOf(h)), NEW s \in Shas
  PROVE  /\ \A i \in 1..Len(f[s]) : f[s][i] \in CommitsOf(h) /\ f[s][i] \in History[s]
         /\ \A i, j \in 1..Len(f[s]) : i < j => f[s][j] \in History[f[s][i]]
         /\ \A i \in 1..Len(f[s]) :
              Parents[f[s][i]] # <<>> /\ Parents[f[s][i]][1] \in CommitsOf(h)
              => \E j \in 1..Len(f[s]) : f[s][j] = Parents[f[s][i]][1]
<1> DEFINE commits == CommitsOf(h)
           Line(t, q) ==
             /\ \A i \in 1..Len(q) : q[i] \in commits /\ q[i] \in History[t]
             /\ \A i, j \in 1..Len(q) : i < j => q[j] \in History[q[i]]
             /\ \A i \in 1..Len(q) :
                  Parents[q[i]] # <<>> /\ Parents[q[i]][1] \in commits
                  => \E j \in 1..Len(q) : q[j] = Parents[q[i]][1]
           T == {t \in Shas : Line(t, f[t])}
<1>1. ASSUME NEW t \in Shas, ToSet(Parents[t]) \subseteq T PROVE Line(t, f[t])
  <2>1. f[t] = IF t \notin commits THEN <<>>
               ELSE IF Parents[t] = <<>> THEN <<t>> ELSE <<t>> \o f[Parents[t][1]]
    BY DEF IsSort
  <2>2. CASE t \notin commits
    BY <2>1, <2>2
  <2>3. CASE t \in commits /\ Parents[t] = <<>>
    <3>1. f[t] = <<t>> /\ Len(f[t]) = 1 /\ f[t][1] = t
      BY <2>1, <2>3
    <3>2. QED
      BY <2>3, <3>1, HistoryHas
  <2>4. CASE t \in commits /\ Parents[t] # <<>>
    <3> DEFINE p == Parents[t][1]
               q == f[p]
               r == f[t]
    <3>1. p \in Shas /\ Line(p, q) /\ p \in ToSet(Parents[t])
      BY <1>1, <2>4, FirstParent
    <3>2. q \in Seq(Shas) /\ Len(q) \in Nat
      BY <3>1 DEF IsSort
    <3>3. /\ r \in Seq(Shas) /\ Len(r) = Len(q) + 1 /\ r[1] = t
          /\ \A i \in 2..Len(r) : r[i] = q[i - 1] /\ i - 1 \in 1..Len(q)
          /\ \A i \in 1..Len(q) : r[i + 1] = q[i] /\ i + 1 \in 1..Len(r)
      <4>1. r = <<t>> \o q
        BY <2>1, <2>4
      <4> HIDE DEF r, q
      <4>2. QED
        BY <3>2, <4>1
    <3>4. History[p] \subseteq History[t] /\ t \in History[t]
      BY <3>1, HistoryHas
    <3>5. Parents[t][1] \in commits => Len(q) > 0 /\ q[1] = p
      <4>1. q = IF p \notin commits THEN <<>>
               ELSE IF Parents[p] = <<>> THEN <<p>> ELSE <<p>> \o f[Parents[p][1]]
        BY <3>1 DEF IsSort
      <4>2. Parents[p] # <<>> => f[Parents[p][1]] \in Seq(Shas)
        BY <3>1, FirstParent DEF IsSort
      <4> HIDE DEF q, p, commits
      <4>3. CASE p \notin commits
        BY <4>3 DEF p
      <4>4. CASE p \in commits /\ Parents[p] = <<>>
        BY <4>1, <4>4
      <4>5. CASE p \in commits /\ Parents[p] # <<>>
        <5> DEFINE u == f[Parents[p][1]]
        <5>1. q = <<p>> \o u /\ u \in Seq(Shas)
          BY <4>1, <4>2, <4>5
        <5> HIDE DEF u
        <5>2. QED
          BY <5>1
      <4>6. QED
        BY <4>3, <4>4, <4>5
    <3> HIDE DEF q, r, p, commits
    <3>6. \A i \in 1..Len(r) : i = 1 \/ i \in 2..Len(r)
      BY <3>2, <3>3
    <3>7. \A i \in 1..Len(r) : r[i] \in commits /\ r[i] \in History[t]
      BY <2>4, <3>1, <3>3, <3>4, <3>6
    <3>8. \A i, j \in 1..Len(r) : i < j => r[j] \in History[r[i]]
      <4> SUFFICES ASSUME NEW i \in 1..Len(r), NEW j \in 1..Len(r), i < j
                   PROVE  r[j] \in History[r[i]]
        OBVIOUS
      <4>1. j \in 2..Len(r)
        BY <3>2, <3>3
      <4>2. r[j] = q[j - 1] /\ j - 1 \in 1..Len(q)
        BY <3>3, <4>1
      <4>3. CASE i = 1
        BY <3>1, <3>3, <3>4, <4>2, <4>3
      <4>4. CASE i # 1
        <5>1. i \in 2..Len(r) /\ i - 1 < j - 1
          BY <4>4, <3>2, <3>3
        <5>2. r[i] = q[i - 1] /\ i - 1 \in 1..Len(q)
          BY <3>3, <5>1
        <5>3. QED
          BY <3>1, <4>2, <5>1, <5>2
      <4>5. QED
        BY <4>3, <4>4
    <3>9. ASSUME NEW i \in 1..Len(r), Parents[r[i]] # <<>>, Parents[r[i]][1] \in commits
          PROVE  \E j \in 1..Len(r) : r[j] = Parents[r[i]][1]
      <4>1. CASE i = 1
        <5>1. Len(q) > 0 /\ q[1] = p /\ Parents[r[i]][1] = p
          BY <3>3, <3>5, <3>9, <4>1 DEF p
        <5>2. 1 \in 1..Len(q)
          BY <3>2, <5>1
        <5>3. r[1 + 1] = p /\ 1 + 1 \in 1..Len(r)
          BY <3>3, <5>1, <5>2
        <5>4. QED
          BY <5>1, <5>3
      <4>2. CASE i \in 2..Len(r)
        <5>1. r[i] = q[i - 1] /\ i - 1 \in 1..Len(q)
          BY <3>3, <4>2
        <5>2. PICK k \in 1..Len(q) : q[k] = Parents[r[i]][1]
          BY <3>1, <3>9, <5>1
        <5>3. QED
          BY <3>3, <5>2
      <4>3. QED
        BY <3>6, <4>1, <4>2
    <3>10. QED
      BY <3>7, <3>8, <3>9 DEF r
  <2>5. QED
    BY <2>2, <2>3, <2>4
<1>2. Shas \subseteq T
  <2> HIDE DEF Line
  <2>1. \A t \in Shas : ToSet(Parents[t]) \subseteq T => t \in T
    BY <1>1
  <2> HIDE DEF T
  <2>2. QED
    BY <2>1, FromParents
<1>3. QED
  BY <1>2

(* It misses nothing unless branches were merged. *)
LEMMA SortedIsComplete ==
  ASSUME NoFeatureMerges, NEW h \in Shas, NEW f, IsSort(f, CommitsOf(h)), NEW s \in History[h]
  PROVE  \A c \in CommitsOf(s) : \E i \in 1..Len(f[s]) : f[s][i] = c
<1> DEFINE commits == CommitsOf(h)
           T == {t \in Shas : t \in History[h] =>
                                \A c \in CommitsOf(t) : \E i \in 1..Len(f[t]) : f[t][i] = c}
<1>1. ASSUME NEW t \in Shas, ToSet(Parents[t]) \subseteq T, t \in History[h],
             NEW c \in CommitsOf(t)
      PROVE  \E i \in 1..Len(f[t]) : f[t][i] = c
  <2>1. t \in commits
    BY <1>1, BaseIsClosed DEF CommitsOf
  <2>2. f[t] = IF Parents[t] = <<>> THEN <<t>> ELSE <<t>> \o f[Parents[t][1]]
    BY <2>1 DEF IsSort
  <2>3. Parents[t] # <<>> => f[Parents[t][1]] \in Seq(Shas)
    BY FirstParent DEF IsSort
  <2>4. Len(f[t]) \in Nat /\ 1 \in 1..Len(f[t]) /\ f[t][1] = t
    BY <2>2, <2>3
  <2>5. CASE c = t
    BY <2>4, <2>5
  <2>6. CASE c # t
    <3>1. PICK p \in ToSet(Parents[t]) : c \in History[p]
      BY <1>1, <2>6, HistoryHas DEF CommitsOf
    <3>2. p \notin Base
      BY <1>1, <3>1, BaseIsClosed DEF CommitsOf
    <3>3. p = Parents[t][1] /\ Parents[t] # <<>>
      BY <3>1, <3>2, ParentsArePlacedBelow DEF NoFeatureMerges, ToSet
    <3>4. p \in Shas /\ p \in History[h]
      BY <1>1, <3>1, HistoryHas, HistoryIsTransitive, ParentsArePlacedBelow
    <3>5. PICK i \in 1..Len(f[p]) : f[p][i] = c
      BY <1>1, <3>1, <3>4 DEF CommitsOf
    <3> DEFINE q == f[p]
    <3>6. q \in Seq(Shas) /\ f[t] = <<t>> \o q
      BY <2>2, <2>3, <3>3
    <3>7. i \in 1..Len(q) /\ q[i] = c
      BY <3>5
    <3> HIDE DEF q
    <3>8. i + 1 \in 1..Len(<<t>> \o q) /\ (<<t>> \o q)[i + 1] = c
      BY <3>6, <3>7
    <3>9. QED
      BY <3>6, <3>8
  <2>7. QED
    BY <2>5, <2>6
<1>2. \A t \in Shas : ToSet(Parents[t]) \subseteq T => t \in T
  BY <1>1
<1>3. Shas \subseteq T
  <2> HIDE DEF T
  <2>1. QED
    BY <1>2, FromParents
<1>4. QED
  BY <1>3, HistoryHas

LEMMA SortedIs ==
  ASSUME NEW h \in Shas
  PROVE  /\ Sorted(h) \in Seq(Shas) /\ ToSet(Sorted(h)) \subseteq CommitsOf(h)
         /\ \A i, j \in 1..Len(Sorted(h)) : i < j => Sorted(h)[j] \in History[Sorted(h)[i]]
         /\ \A c \in ToSet(Sorted(h)) :
              Parents[c] # <<>> /\ Parents[c][1] \in CommitsOf(h)
              => Parents[c][1] \in ToSet(Sorted(h))
         /\ NoFeatureMerges => ToSet(Sorted(h)) = CommitsOf(h)
<1>1. PICK f : IsSort(f, CommitsOf(h)) /\ \A x : SortCommits(CommitsOf(h), x) = f[x]
  BY SortIs
<1>2. Sorted(h) = f[h]
  BY <1>1 DEF Sorted
<1>3. Sorted(h) \in Seq(Shas)
  BY <1>1, <1>2 DEF IsSort
<1>4. ToSet(Sorted(h)) = {Sorted(h)[i] : i \in 1..Len(Sorted(h))}
  BY <1>3 DEF ToSet
<1>5. /\ \A i \in 1..Len(f[h]) : f[h][i] \in CommitsOf(h)
      /\ \A i, j \in 1..Len(f[h]) : i < j => f[h][j] \in History[f[h][i]]
      /\ \A i \in 1..Len(f[h]) :
           Parents[f[h][i]] # <<>> /\ Parents[f[h][i]][1] \in CommitsOf(h)
           => \E j \in 1..Len(f[h]) : f[h][j] = Parents[f[h][i]][1]
  BY <1>1, SortedLine
<1>6. NoFeatureMerges => \A c \in CommitsOf(h) : \E i \in 1..Len(f[h]) : f[h][i] = c
  BY <1>1, SortedIsComplete, HistoryHas
<1>7. QED
  BY <1>2, <1>3, <1>4, <1>5, <1>6

(* The commits that count are those the options promise: none is ignored    *)
(* wrongly, and none is forgotten unless branches were merged.              *)
LEMMA FilteredAreRelevant ==
  ASSUME NEW h \in Shas, NEW o
  PROVE  /\ FilteredCommits(o, h) \subseteq Relevant(o, h)
         /\ NoFeatureMerges => FilteredCommits(o, h) = Relevant(o, h)
<1> DEFINE sorted == Sorted(h)
<1>1. /\ ToSet(sorted) \subseteq CommitsOf(h) /\ CommitsOf(h) \subseteq Shas \ Base
      /\ \A c \in ToSet(sorted) : Parents[c] # <<>> /\ Parents[c][1] \in CommitsOf(h)
           => Parents[c][1] \in ToSet(sorted)
      /\ NoFeatureMerges => ToSet(sorted) = CommitsOf(h)
  BY SortedIs, CommitsAre DEF CommitsOf
<1>2. FilteredCommits(o, h) =
        {c \in ToSet(sorted) : /\ o.ignoreUpdateMerges => ~IsUpdateMerge(sorted, c)
                               /\ ~IsIgnoredCommit(o.ignoreCommitsBy, c)}
  BY DEF FilteredCommits
<1> HIDE DEF sorted
<1>3. ASSUME NEW c \in ToSet(sorted), MergesBase(h, c) PROVE IsUpdateMerge(sorted, c)
  <2>1. Parents[c] # <<>>
    BY <1>3 DEF MergesBase
  <2>2. Parents[c][2] \notin ToSet(sorted)
    BY <1>1, <1>3 DEF MergesBase
  <2>3. QED
    BY <1>1, <1>3, <2>1, <2>2 DEF MergesBase, IsUpdateMerge
<1>4. ASSUME NoFeatureMerges, NEW c \in ToSet(sorted), IsUpdateMerge(sorted, c)
      PROVE  MergesBase(h, c)
  <2>1. c \in Shas /\ 2 \in 2..Len(Parents[c])
    BY <1>1, <1>4 DEF IsUpdateMerge
  <2>2. Parents[c][2] \in Base
    BY <1>4, <2>1 DEF NoFeatureMerges
  <2>3. QED
    BY <1>1, <1>4, <2>2 DEF MergesBase, IsUpdateMerge
<1>5. QED
  BY <1>1, <1>2, <1>3, <1>4 DEF Relevant

LEMMA MostRecentIs ==
  ASSUME NEW h \in Shas, NEW o, FilteredCommits(o, h) # {}
  PROVE  /\ MostRecent(o, h) \in FilteredCommits(o, h)
         /\ \A c \in FilteredCommits(o, h) : c \in History[MostRecent(o, h)]
<1> DEFINE sorted == Sorted(h)
           commits == FilteredCommits(o, h)
           I == {i \in 1..Len(sorted) : sorted[i] \in commits}
<1>1. /\ sorted \in Seq(Shas)
      /\ \A i, j \in 1..Len(sorted) : i < j => sorted[j] \in History[sorted[i]]
  BY SortedIs
<1>2. commits \subseteq ToSet(sorted)
  BY DEF FilteredCommits
<1>3. MostRecent(o, h) = sorted[IF I # {} THEN Min(I) ELSE 0]
  BY DEF MostRecent, SelectInSeq
<1> HIDE DEF sorted, commits
<1>4. \A c \in commits : \E i \in I : sorted[i] = c
  BY <1>1, <1>2 DEF ToSet
<1>5. I # {} /\ I \subseteq Nat
  BY <1>4 DEF commits
<1>6. Min(I) \in I /\ \A i \in I : Min(I) <= i
  BY <1>5, MinOfNaturals
<1>7. \A i \in I : sorted[i] \in History[sorted[Min(I)]]
  <2> SUFFICES ASSUME NEW i \in I PROVE sorted[i] \in History[sorted[Min(I)]]
    OBVIOUS
  <2>1. CASE i = Min(I)
    <3>1. sorted[i] \in Shas
      BY <1>1
    <3>2. QED
      BY <2>1, <3>1, HistoryHas
  <2>2. CASE i # Min(I)
    <3>1. Min(I) < i
      BY <1>6, <2>2
    <3>2. QED
      BY <1>1, <1>6, <3>1
  <2>3. QED
    BY <2>1, <2>2
<1>8. MostRecent(o, h) = sorted[Min(I)]
  BY <1>3, <1>5
<1>9. QED
  BY <1>4, <1>6, <1>7, <1>8 DEF commits

-----------------------------------------------------------------------------
(***************************************************************************)
(* When commits were pushed.                                               *)
(***************************************************************************)
Child(hd, c) == SelectInSeq(Listing, LAMBDA d : d \in CommitsOf(hd) /\ c \in ToSet(Parents[d]))

LEMMA ChildIs ==
  ASSUME NEW hd \in Shas, NEW c \in Shas, Child(hd, c) # 0
  PROVE  LET d == Listing[Child(hd, c)]
         IN  /\ d \in Shas /\ d \in CommitsOf(hd)
             /\ Place(c) < Place(d) /\ c \in History[d]
<1> DEFINE I == {i \in 1..Len(Listing) :
                   Listing[i] \in CommitsOf(hd) /\ c \in ToSet(Parents[Listing[i]])}
           d == Listing[Child(hd, c)]
<1>1. Child(hd, c) = IF I # {} THEN Min(I) ELSE 0
  BY DEF Child, SelectInSeq
<1>2. I \subseteq Nat
  OBVIOUS
<1>3. Child(hd, c) \in I
  BY <1>1, <1>2, MinOfNaturals
<1>4. d \in CommitsOf(hd) /\ c \in ToSet(Parents[d]) /\ d \in Shas
  BY <1>3, CommitsAre
<1> HIDE DEF d
<1>5. c \in History[d]
  BY <1>4, HistoryHas
<1>6. QED
  BY <1>4, <1>5, ParentsArePlacedBelow DEF d

(* Induction from the head down. *)
LEMMA FromChildren ==
  ASSUME NEW hd \in Shas, NEW T,
         \A c \in Shas : (Child(hd, c) # 0 => Listing[Child(hd, c)] \in T) => c \in T
  PROVE  Shas \subseteq T
<1> DEFINE rank == [s \in Shas |-> Len(Listing) - Place(s)]
           bad == Shas \ T
<1>1. SUFFICES ASSUME bad # {} PROVE FALSE
  OBVIOUS
<1>2. rank \in [Shas -> Nat] /\ \A s \in Shas : Place(s) \in Nat /\ Len(Listing) \in Nat
  BY PlaceIs, CommitsAssumption
<1>3. PICK s \in bad : \A t \in bad : rank[s] <= rank[t]
  BY <1>1, <1>2, LeastRank
<1>4. Child(hd, s) # 0 /\ Listing[Child(hd, s)] \notin T
  BY <1>3
<1> DEFINE d == Listing[Child(hd, s)]
<1>5. d \in bad /\ Place(s) < Place(d)
  BY <1>3, <1>4, ChildIs
<1> HIDE DEF d
<1>6. rank[d] < rank[s] /\ rank[d] \in Nat /\ rank[s] \in Nat
  BY <1>2, <1>3, <1>5
<1>7. QED
  BY <1>3, <1>5, <1>6

(* PushedAt of all commits at once. *)
TimeOf(at, hd, st, cl, c) ==
  IF st[c] # 0 THEN st[c]
  ELSE IF c = hd \/ Child(hd, c) = 0 THEN cl
  ELSE at[Listing[Child(hd, c)]]

Times(hd, st, cl) == CHOOSE at : at = [c \in Shas |-> TimeOf(at, hd, st, cl, c)]

LEMMA TimesAre ==
  ASSUME NEW hd \in Shas, NEW st \in [Shas -> Nat], NEW cl \in Nat
  PROVE  /\ Times(hd, st, cl) \in [Shas -> Nat]
         /\ \A c \in Shas : Times(hd, st, cl)[c] = TimeOf(Times(hd, st, cl), hd, st, cl, c)
<1> DEFINE rank == [s \in Shas |-> Len(Listing) - Place(s)]
           step == [c \in Shas |-> [f \in [Shas -> Nat] |-> TimeOf(f, hd, st, cl, c)]]
<1>1. \A c \in Shas : \A f \in [Shas -> Nat] : TimeOf(f, hd, st, cl, c) \in Nat
  BY ChildIs DEF TimeOf
<1>2. step \in [Shas -> [[Shas -> Nat] -> Nat]]
  BY <1>1
<1>3. rank \in [Shas -> 0..Len(Listing)] /\ Len(Listing) \in Nat
      /\ \A s \in Shas : Place(s) \in 1..Len(Listing)
  BY PlaceIs, CommitsAssumption, SMTT(30)
<1>4. LooksBelow(step, Shas, Nat, rank)
  <2> SUFFICES ASSUME NEW c \in Shas, NEW g \in [Shas -> Nat], NEW h \in [Shas -> Nat],
                      \A t \in Shas : rank[t] < rank[c] => g[t] = h[t]
               PROVE  step[c][g] = step[c][h]
    BY DEF LooksBelow
  <2>1. Child(hd, c) # 0 => g[Listing[Child(hd, c)]] = h[Listing[Child(hd, c)]]
    <3>1. SUFFICES ASSUME Child(hd, c) # 0
                   PROVE  g[Listing[Child(hd, c)]] = h[Listing[Child(hd, c)]]
      OBVIOUS
    <3> DEFINE d == Listing[Child(hd, c)]
    <3>2. d \in Shas /\ Place(c) < Place(d)
      BY <3>1, ChildIs
    <3> HIDE DEF d
    <3>3. rank[d] = Len(Listing) - Place(d) /\ rank[c] = Len(Listing) - Place(c)
      BY <3>2
    <3>4. Place(d) \in Nat /\ Place(c) \in Nat /\ Len(Listing) \in Nat
      BY <1>3, <3>2, SMTT(30)
    <3> HIDE DEF rank
    <3>5. rank[d] < rank[c]
      BY <3>2, <3>3, <3>4
    <3>6. g[d] = h[d]
      BY <3>2, <3>5
    <3>7. QED
      BY <3>6 DEF d
  <2>2. TimeOf(g, hd, st, cl, c) = TimeOf(h, hd, st, cl, c)
    BY <2>1 DEF TimeOf
  <2>3. QED
    BY <2>2
<1>5. IsRecursion(step, Shas, Nat, rank, Len(Listing))
  <2> HIDE DEF step, rank
  <2>1. Nat # {}
    OBVIOUS
  <2>2. QED
    BY <1>2, <1>3, <1>4, <2>1 DEF IsRecursion
<1>6. PICK f : Solution(f, step, Shas, Nat)
  <2> HIDE DEF step, rank
  <2>1. QED
    BY <1>5, RecursionHasSolution, Zenon
<1>7. f \in [Shas -> Nat] /\ \A c \in Shas : f[c] = TimeOf(f, hd, st, cl, c)
  BY <1>6 DEF Solution
<1> DEFINE solves(g) == g = [c \in Shas |-> TimeOf(g, hd, st, cl, c)]
           at == Times(hd, st, cl)
<1>8. solves(f)
  BY <1>7
<1>9. solves(at)
  <2>1. at = CHOOSE g : solves(g)
    BY Zenon DEF Times
  <2> HIDE DEF solves, at
  <2>2. QED
    BY <1>8, <2>1, Zenon
<1> HIDE DEF at
<1>10. \A c \in Shas : at[c] = TimeOf(at, hd, st, cl, c)
  BY <1>9
<1> DEFINE T == {c \in Shas : at[c] \in Nat}
<1>11. \A c \in Shas : (Child(hd, c) # 0 => Listing[Child(hd, c)] \in T) => c \in T
  BY <1>10 DEF TimeOf
<1>12. Shas \subseteq T
  <2> HIDE DEF T
  <2>1. QED
    BY <1>11, FromChildren
<1>13. QED
  BY <1>9, <1>10, <1>12 DEF at

(* A commit was pushed with one that has a status, or just now. *)
LEMMA TimesComeFromStatuses ==
  ASSUME NEW hd \in Shas, NEW st \in [Shas -> Nat], NEW cl \in Nat, NEW s \in CommitsOf(hd)
  PROVE  \/ Times(hd, st, cl)[s] = cl
         \/ \E d \in CommitsOf(hd) : s \in History[d] /\ st[d] # 0 /\ Times(hd, st, cl)[s] = st[d]
<1> DEFINE at == Times(hd, st, cl)
           From(c) == at[c] = cl \/ \E d \in CommitsOf(hd) :
                                      c \in History[d] /\ st[d] # 0 /\ at[c] = st[d]
           T == {c \in Shas : c \in CommitsOf(hd) => From(c)}
<1>1. ASSUME NEW c \in Shas, Child(hd, c) # 0 => Listing[Child(hd, c)] \in T,
             c \in CommitsOf(hd)
      PROVE  From(c)
  <2>1. at[c] = TimeOf(at, hd, st, cl, c)
    BY TimesAre
  <2> HIDE DEF at
  <2>2. CASE st[c] # 0
    BY <1>1, <2>1, <2>2, HistoryHas DEF TimeOf
  <2>3. CASE st[c] = 0 /\ (c = hd \/ Child(hd, c) = 0)
    BY <2>1, <2>3 DEF TimeOf
  <2>4. CASE st[c] = 0 /\ c # hd /\ Child(hd, c) # 0
    <3> DEFINE d == Listing[Child(hd, c)]
    <3>1. d \in Shas /\ d \in CommitsOf(hd) /\ c \in History[d] /\ d \in T
      BY <1>1, <2>4, ChildIs
    <3>2. at[c] = at[d]
      BY <2>1, <2>4 DEF TimeOf
    <3> HIDE DEF d
    <3>3. From(d)
      BY <3>1
    <3>4. \A x \in CommitsOf(hd) : d \in History[x] => c \in History[x]
      BY <3>1, HistoryIsTransitive, CommitsAre
    <3>5. QED
      BY <3>2, <3>3, <3>4
  <2>5. QED
    BY <2>2, <2>3, <2>4
<1>2. \A c \in Shas : (Child(hd, c) # 0 => Listing[Child(hd, c)] \in T) => c \in T
  BY <1>1
<1>3. Shas \subseteq T
  <2> HIDE DEF T
  <2>1. QED
    BY <1>2, FromChildren
<1>4. s \in Shas
  BY CommitsAre
<1>5. QED
  BY <1>3, <1>4

LEMMA PushedAtIs == \A s : PushedAt(s) = Times(head, statusAt, clock)[s]
BY Zenon DEF PushedAt, Times, TimeOf, Child

-----------------------------------------------------------------------------
(***************************************************************************)
(* What people do keeps the types and the order of times: nothing is dated *)
(* in the future, a commit comes with everything it was made from, and     *)
(* gets its status once it has come.                                       *)
(***************************************************************************)
UpTo(S, t) == {c \in S : c.at <= t}

RuleInv ==
  /\ TypeOK
  /\ clock >= 1
  /\ comments \in Seq(UpTo(Comments, clock)) /\ reviews \in Seq(UpTo(Reviews, clock))
  /\ \A s \in CommitsOf(head) : arrivedAt[s] # 0
  /\ \A c \in Shas : arrivedAt[c] # 0 =>
       \A s \in CommitsOf(c) : arrivedAt[s] # 0 /\ arrivedAt[s] <= arrivedAt[c]
  /\ \A s \in Shas \ SharedCommits : statusAt[s] # 0 =>
       arrivedAt[s] # 0 /\ arrivedAt[s] <= statusAt[s]

LEMMA RemoveAtKeepsType ==
  ASSUME NEW S, NEW s \in Seq(S), NEW i \in 1..Len(s)
  PROVE  RemoveAt(s, i) \in Seq(S)
<1>1. Len(s) \in Nat /\ i \in Nat
  OBVIOUS
<1>2. SubSeq(s, 1, i - 1) \in Seq(S) /\ SubSeq(s, i + 1, Len(s)) \in Seq(S)
  BY <1>1, SubSeqProperties
<1>3. QED
  BY <1>2, ConcatProperties DEF RemoveAt

LEMMA InitRule == Init => RuleInv
<1> SUFFICES ASSUME Init PROVE RuleInv
  OBVIOUS
<1>1. /\ rule \in Rules /\ head = FirstHead /\ comments = <<>> /\ reviews = <<>>
      /\ body \in [text : Texts, edited : {FALSE}] /\ facts \in [Kinds -> BOOLEAN]
      /\ clock = 1 /\ steps = 0
      /\ statusAt = [s \in Shas |-> IF s \in SharedCommits THEN 1 ELSE 0]
      /\ arrivedAt = [s \in Shas |-> IF s \in CommitsOf(head) THEN 1 ELSE 0]
  BY DEF Init
<1>2. head \in Shas \ Base
  BY <1>1, RuleAssumption
<1>3. TypeOK
  <2>1. body \in [text : Texts, edited : BOOLEAN]
    BY <1>1
  <2>2. statusAt \in [Shas -> 0..clock] /\ arrivedAt \in [Shas -> 0..clock]
    BY <1>1
  <2>3. QED
    BY <1>1, <1>2, <2>1, <2>2 DEF TypeOK
<1>4. \A s \in CommitsOf(head) : arrivedAt[s] # 0
  BY <1>1, <1>2, CommitsAre
<1>5. \A c \in Shas : arrivedAt[c] # 0 =>
        \A s \in CommitsOf(c) : arrivedAt[s] # 0 /\ arrivedAt[s] <= arrivedAt[c]
  <2> SUFFICES ASSUME NEW c \in Shas, arrivedAt[c] # 0, NEW s \in CommitsOf(c)
               PROVE  arrivedAt[s] # 0 /\ arrivedAt[s] <= arrivedAt[c]
    OBVIOUS
  <2>1. c \in CommitsOf(head)
    BY <1>1
  <2>2. s \in CommitsOf(head) /\ s \in Shas
    BY <1>2, <2>1, CommitsAre DEF CommitsOf
  <2>3. arrivedAt[c] = 1 /\ arrivedAt[s] = 1
    BY <1>1, <2>1, <2>2
  <2>4. QED
    BY <2>3
<1>6. comments \in Seq(UpTo(Comments, clock)) /\ reviews \in Seq(UpTo(Reviews, clock))
  BY <1>1
<1>7. \A s \in Shas \ SharedCommits : statusAt[s] = 0
  BY <1>1
<1>8. QED
  BY <1>1, <1>3, <1>4, <1>5, <1>6, <1>7 DEF RuleInv

(* A step that pushes no commit and reports on none. *)
LEMMA QuietSteps ==
  ASSUME RuleInv, UNCHANGED <<rule, head, statusAt, arrivedAt, clock>>, steps' \in Nat,
         comments' \in Seq(UpTo(Comments, clock)), reviews' \in Seq(UpTo(Reviews, clock)),
         body' \in [text : Texts, edited : BOOLEAN], facts' \in [Kinds -> BOOLEAN]
  PROVE  RuleInv'
<1>1. comments' \in Seq(Comments) /\ reviews' \in Seq(Reviews)
  BY DEF UpTo
<1>2. TypeOK'
  BY <1>1 DEF RuleInv, TypeOK
<1>3. QED
  BY <1>2 DEF RuleInv

LEMMA RuleTypes ==
  ASSUME RuleInv
  PROVE  /\ steps \in Nat /\ steps + 1 \in Nat /\ clock \in Nat /\ clock >= 1
         /\ comments \in Seq(UpTo(Comments, clock)) /\ reviews \in Seq(UpTo(Reviews, clock))
         /\ body \in [text : Texts, edited : BOOLEAN] /\ facts \in [Kinds -> BOOLEAN]
         /\ Speakers \subseteq Users /\ Submissions \subseteq ReviewStates
BY RuleAssumption DEF RuleInv, TypeOK, Submitted

LEMMA PushKeepsRule == ASSUME RuleInv, NEW h, Push(h) PROVE RuleInv'
<1>1. /\ h \in Shas \ Base /\ head' = h
      /\ arrivedAt' = [s \in Shas |-> IF arrivedAt[s] = 0 /\ s \in CommitsOf(h) THEN clock
                                      ELSE arrivedAt[s]]
      /\ UNCHANGED <<rule, statusAt, clock, comments, reviews, body, facts>>
      /\ steps' = steps + 1
  BY DEF Push, Step
<1>2. /\ arrivedAt \in [Shas -> 0..clock] /\ clock \in Nat /\ clock >= 1 /\ steps \in Nat
      /\ statusAt \in [Shas -> 0..clock]
  BY DEF RuleInv, TypeOK
<1>3. arrivedAt' \in [Shas -> 0..clock]
  BY <1>1, <1>2
<1>4. TypeOK'
  BY <1>1, <1>2, <1>3 DEF RuleInv, TypeOK
<1>5. CommitsOf(h) \subseteq Shas /\ \A c \in CommitsOf(h) : CommitsOf(c) \subseteq CommitsOf(h)
  BY <1>1, CommitsAre DEF CommitsOf
<1>6. \A s \in CommitsOf(head') : arrivedAt'[s] # 0
  BY <1>1, <1>2, <1>5
<1>7. ASSUME NEW c \in Shas, arrivedAt'[c] # 0, NEW s \in CommitsOf(c)
      PROVE  arrivedAt'[s] # 0 /\ arrivedAt'[s] <= arrivedAt'[c]
  <2>1. s \in Shas
    BY CommitsAre
  <2>2. CASE arrivedAt[c] # 0
    <3>1. arrivedAt[s] # 0 /\ arrivedAt[s] <= arrivedAt[c]
      BY <2>2 DEF RuleInv
    <3>2. arrivedAt'[s] = arrivedAt[s] /\ arrivedAt'[c] = arrivedAt[c]
      BY <1>1, <2>1, <2>2, <3>1
    <3>3. QED
      BY <3>1, <3>2
  <2>3. CASE arrivedAt[c] = 0
    <3>1. c \in CommitsOf(h) /\ arrivedAt'[c] = clock
      BY <1>1, <1>7, <2>3
    <3>2. s \in CommitsOf(h)
      BY <1>5, <3>1
    <3>3. arrivedAt'[s] # 0 /\ arrivedAt'[s] \in 0..clock
      BY <1>1, <1>3, <1>6, <2>1, <3>2
    <3>4. QED
      BY <1>2, <3>1, <3>3
  <2>4. QED
    BY <2>2, <2>3
<1>8. \A s \in Shas \ SharedCommits : statusAt'[s] # 0 =>
        arrivedAt'[s] # 0 /\ arrivedAt'[s] <= statusAt'[s]
  BY <1>1, <1>2 DEF RuleInv
<1>9. comments' \in Seq(UpTo(Comments, clock')) /\ reviews' \in Seq(UpTo(Reviews, clock'))
  BY <1>1 DEF RuleInv
<1>10. clock' >= 1
  BY <1>1, <1>2
<1>11. QED
  BY <1>4, <1>6, <1>7, <1>8, <1>9, <1>10 DEF RuleInv

LEMMA ReportKeepsRule == ASSUME RuleInv, NEW s \in Shas, Report(s) PROVE RuleInv'
<1>1. /\ s \in CommitsOf(head) /\ statusAt[s] = 0
      /\ statusAt' = [statusAt EXCEPT ![s] = clock]
      /\ UNCHANGED <<rule, head, comments, reviews, body, facts, arrivedAt, clock, steps>>
  BY DEF Report, content
<1>2. /\ arrivedAt \in [Shas -> 0..clock] /\ clock \in Nat /\ clock >= 1
      /\ statusAt \in [Shas -> 0..clock]
  BY DEF RuleInv, TypeOK
<1>3. statusAt' \in [Shas -> 0..clock]
  BY <1>1, <1>2
<1>4. TypeOK'
  BY <1>1, <1>3 DEF RuleInv, TypeOK
<1>5. arrivedAt[s] # 0 /\ arrivedAt[s] <= clock
  BY <1>1, <1>2 DEF RuleInv
<1>6. \A t \in Shas \ SharedCommits : statusAt'[t] # 0 =>
        arrivedAt[t] # 0 /\ arrivedAt[t] <= statusAt'[t]
  BY <1>1, <1>2, <1>5 DEF RuleInv
<1>7. QED
  BY <1>1, <1>4, <1>6 DEF RuleInv

LEMMA TickKeepsRule == ASSUME RuleInv, Tick PROVE RuleInv'
<1>1. /\ clock' = clock + 1
      /\ UNCHANGED <<rule, head, comments, reviews, body, facts, statusAt, arrivedAt, steps>>
  BY DEF Tick, content
<1>2. /\ arrivedAt \in [Shas -> 0..clock] /\ clock \in Nat /\ clock >= 1
      /\ statusAt \in [Shas -> 0..clock]
  BY DEF RuleInv, TypeOK
<1>3. 0..clock \subseteq 0..clock' /\ clock' \in Nat /\ clock' >= 1
  BY <1>1, <1>2
<1>4. statusAt' \in [Shas -> 0..clock'] /\ arrivedAt' \in [Shas -> 0..clock']
  BY <1>1, <1>2, <1>3
<1>5. TypeOK'
  BY <1>1, <1>3, <1>4 DEF RuleInv, TypeOK
<1>6. UpTo(Comments, clock) \subseteq UpTo(Comments, clock')
      /\ UpTo(Reviews, clock) \subseteq UpTo(Reviews, clock')
  BY <1>1, <1>2 DEF UpTo, Comments, Reviews
<1>7. comments' \in Seq(UpTo(Comments, clock')) /\ reviews' \in Seq(UpTo(Reviews, clock'))
  BY <1>1, <1>6 DEF RuleInv
<1>8. QED
  BY <1>1, <1>3, <1>5, <1>7 DEF RuleInv

LEMMA DiscussKeepsRule == ASSUME RuleInv, NEW u \in Speakers, Discuss(u) PROVE RuleInv'
<1> USE RuleTypes
<1>1. ASSUME NEW t \in Texts, Comment(u, t) PROVE RuleInv'
  <2> DEFINE c == [user |-> u, at |-> clock, edited |-> FALSE, text |-> t]
  <2>1. c \in UpTo(Comments, clock)
    BY DEF UpTo, Comments
  <2>2. comments' = Append(comments, c)
    BY <1>1 DEF Comment
  <2> HIDE DEF c
  <2>3. comments' \in Seq(UpTo(Comments, clock))
    BY <2>1, <2>2
  <2>4. QED
    BY <1>1, <2>3, QuietSteps DEF Comment, Step
<1>2. ASSUME NEW i \in 1..Len(comments), NEW t \in Texts, EditComment(u, i, t) PROVE RuleInv'
  <2> DEFINE c == [comments[i] EXCEPT !.text = t, !.edited = TRUE]
  <2>1. c \in UpTo(Comments, clock)
    <3>1. comments[i] \in UpTo(Comments, clock)
      OBVIOUS
    <3>2. QED
      BY <3>1 DEF UpTo, Comments
  <2>2. comments' = [comments EXCEPT ![i] = c]
    BY <1>2 DEF EditComment
  <2> HIDE DEF c
  <2>3. comments' \in Seq(UpTo(Comments, clock))
    BY <2>1, <2>2
  <2>4. QED
    BY <1>2, <2>3, QuietSteps DEF EditComment, Step
<1>3. ASSUME NEW i \in 1..Len(comments), DeleteComment(u, i) PROVE RuleInv'
  <2>1. comments' \in Seq(UpTo(Comments, clock))
    BY <1>3, RemoveAtKeepsType DEF DeleteComment
  <2>2. QED
    BY <1>3, <2>1, QuietSteps DEF DeleteComment, Step
<1>4. ASSUME NEW state \in Submissions, NEW t \in Texts, Review(u, state, t) PROVE RuleInv'
  <2> DEFINE r == [user |-> u, at |-> clock, edited |-> FALSE, text |-> t, state |-> state]
  <2>1. r \in UpTo(Reviews, clock)
    BY DEF UpTo, Reviews
  <2>2. reviews' = Append(reviews, r)
    BY <1>4 DEF Review
  <2> HIDE DEF r
  <2>3. reviews' \in Seq(UpTo(Reviews, clock))
    BY <2>1, <2>2
  <2>4. QED
    BY <1>4, <2>3, QuietSteps DEF Review, Step
<1>5. ASSUME NEW i \in 1..Len(reviews), DismissReview(u, i) PROVE RuleInv'
  <2> DEFINE r == [reviews[i] EXCEPT !.state = "dismissed"]
  <2>1. r \in UpTo(Reviews, clock)
    <3>1. reviews[i] \in UpTo(Reviews, clock)
      OBVIOUS
    <3>2. QED
      BY <3>1 DEF UpTo, Reviews, ReviewStates
  <2>2. reviews' = [reviews EXCEPT ![i] = r]
    BY <1>5 DEF DismissReview
  <2> HIDE DEF r
  <2>3. reviews' \in Seq(UpTo(Reviews, clock))
    BY <2>1, <2>2
  <2>4. QED
    BY <1>5, <2>3, QuietSteps DEF DismissReview, Step
<1>6. QED
  BY <1>1, <1>2, <1>3, <1>4, <1>5 DEF Discuss

LEMMA OtherStepsKeepRule ==
  ASSUME RuleInv,
         \/ \E i \in 1..Len(reviews), t \in Texts : EditReview(i, t)
         \/ EditBody \/ \E k \in Kinds : ChangeFact(k)
         \/ \E i \in 1..Len(reviews) : DismissStale(i)
  PROVE  RuleInv'
<1> USE RuleTypes
<1>1. ASSUME NEW i \in 1..Len(reviews), NEW t \in Texts, EditReview(i, t) PROVE RuleInv'
  <2> DEFINE r == [reviews[i] EXCEPT !.text = t, !.edited = TRUE]
  <2>1. r \in UpTo(Reviews, clock)
    <3>1. reviews[i] \in UpTo(Reviews, clock)
      OBVIOUS
    <3>2. QED
      BY <3>1 DEF UpTo, Reviews
  <2>2. reviews' = [reviews EXCEPT ![i] = r]
    BY <1>1 DEF EditReview
  <2> HIDE DEF r
  <2>3. reviews' \in Seq(UpTo(Reviews, clock))
    BY <2>1, <2>2
  <2>4. QED
    BY <1>1, <2>3, QuietSteps DEF EditReview, Step
<1>2. CASE EditBody
  <2>1. body' \in [text : Texts, edited : BOOLEAN]
    BY <1>2 DEF EditBody
  <2>2. QED
    BY <1>2, <2>1, QuietSteps DEF EditBody, Step
<1>3. ASSUME NEW k \in Kinds, ChangeFact(k) PROVE RuleInv'
  <2>1. facts' \in [Kinds -> BOOLEAN]
    BY <1>3 DEF ChangeFact
  <2>2. QED
    BY <1>3, <2>1, QuietSteps DEF ChangeFact, Step
<1>4. ASSUME NEW i \in 1..Len(reviews), DismissStale(i) PROVE RuleInv'
  <2> DEFINE r == [reviews[i] EXCEPT !.state = "dismissed"]
  <2>1. r \in UpTo(Reviews, clock)
    <3>1. reviews[i] \in UpTo(Reviews, clock)
      OBVIOUS
    <3>2. QED
      BY <3>1 DEF UpTo, Reviews, ReviewStates
  <2>2. reviews' = [reviews EXCEPT ![i] = r]
    BY <1>4 DEF DismissStale
  <2> HIDE DEF r
  <2>3. reviews' \in Seq(UpTo(Reviews, clock))
    BY <2>1, <2>2
  <2>4. QED
    BY <1>4, <2>3, QuietSteps DEF DismissStale
<1>5. QED
  BY <1>1, <1>2, <1>3, <1>4

LEMMA StepKeepsRule == RuleInv /\ [EventNext]_vars => RuleInv'
<1> SUFFICES ASSUME RuleInv, [EventNext]_vars PROVE RuleInv'
  OBVIOUS
<1>1. CASE \E s \in Shas : Push(s) \/ Report(s)
  BY <1>1, PushKeepsRule, ReportKeepsRule
<1>2. CASE \E u \in Speakers : Discuss(u)
  BY <1>2, DiscussKeepsRule
<1>3. CASE Tick
  BY <1>3, TickKeepsRule
<1>4. CASE \/ \E i \in 1..Len(reviews), t \in Texts : EditReview(i, t)
           \/ EditBody \/ \E k \in Kinds : ChangeFact(k)
           \/ \E i \in 1..Len(reviews) : DismissStale(i)
  BY <1>4, OtherStepsKeepRule
<1>5. CASE UNCHANGED vars
  BY <1>5, RuleTypes, QuietSteps DEF vars
<1>6. QED
  BY <1>1, <1>2, <1>3, <1>4, <1>5 DEF EventNext, Next

LEMMA RuleInvAlways == Spec => []RuleInv
<1>1. [Next]_vars => [EventNext]_vars
  BY DEF EventNext
<1>2. QED
  BY <1>1, InitRule, StepKeepsRule, PTL DEF Spec

LEMMA RuleInvWithDismissals == EventSpec => []RuleInv
BY InitRule, StepKeepsRule, PTL DEF EventSpec

(* Every variable keeps its type (TypeOK): no head is a commit of the base   *)
(* branch and nothing is dated in the future.                                *)
THEOREM RuleKeepsTypes == Spec => []TypeOK
<1>1. RuleInv => TypeOK
  BY DEF RuleInv
<1>2. QED
  BY <1>1, RuleInvAlways, PTL

-----------------------------------------------------------------------------
(***************************************************************************)
(* Candidates.                                                             *)
(***************************************************************************)
Candidates(t) ==
  [kind : DOMAIN Turn, id : Nat, user : Users, at : 0..t, edited : BOOLEAN]

(* A list of candidates: each has a place of its own. *)
IsList(all, t) ==
  /\ t \in Nat /\ all \subseteq Candidates(t) /\ IsFiniteSet(all)
  /\ \A c, d \in all : c.kind = d.kind /\ c.id = d.id => c = d

LEMMA TurnIs ==
  /\ DOMAIN Turn = {"comment", "commented", "body", "review"}
  /\ Turn.comment = 1 /\ Turn.commented = 2 /\ Turn.body = 3 /\ Turn.review = 4
BY DEF Turn

LEMMA ChosenIs ==
  ASSUME NEW kind \in DOMAIN Turn, NEW t \in Nat, NEW S, NEW s \in Seq(S), NEW matching,
         \A x \in S : x.user \in Users /\ x.at \in 0..t /\ x.edited \in BOOLEAN
  PROVE  /\ IsList(Chosen(kind, s, matching), t)
         /\ \A c \in Chosen(kind, s, matching) : c.kind = kind
<1> DEFINE candidate(i) == Candidate(kind, i, s[i])
           at == [i \in 1..Len(s) |-> candidate(i)]
           all == Chosen(kind, s, matching)
<1>1. \A c \in all : \E i \in 1..Len(s) : c = candidate(i)
  BY DEF Chosen
<1>2. \A i \in 1..Len(s) : /\ candidate(i) \in Candidates(t)
                           /\ candidate(i).kind = kind /\ candidate(i).id = i
  <2> SUFFICES ASSUME NEW i \in 1..Len(s)
               PROVE  /\ candidate(i) \in Candidates(t)
                      /\ candidate(i).kind = kind /\ candidate(i).id = i
    OBVIOUS
  <2>1. s[i] \in S /\ i \in Nat
    OBVIOUS
  <2>2. QED
    BY <2>1 DEF Candidate, Candidates
<1>3. IsFiniteSet(all)
  <2>1. \A i \in 1..Len(s) : at[i] = candidate(i)
    OBVIOUS
  <2>2. IsFiniteSet(1..Len(s))
    BY FS_Interval
  <2> HIDE DEF at, candidate, all
  <2>3. IsFiniteSet({at[i] : i \in 1..Len(s)})
    BY <2>2, ImageIsFinite
  <2>4. all \subseteq {at[i] : i \in 1..Len(s)}
    BY <1>1, <2>1
  <2>5. QED
    BY <2>3, <2>4, FS_Subset
<1> HIDE DEF candidate, at, all
<1>4. \A c, d \in all : c.kind = d.kind /\ c.id = d.id => c = d
  BY <1>1, <1>2
<1>5. QED
  BY <1>1, <1>2, <1>3, <1>4 DEF IsList, all

LEMMA ListsCombine ==
  ASSUME NEW t, NEW A, NEW B, IsList(A, t), IsList(B, t), \A c \in A, d \in B : c.kind # d.kind
  PROVE  IsList(A \union B, t)
<1>1. IsFiniteSet(A \union B)
  BY FS_Union DEF IsList
<1>2. QED
  BY <1>1 DEF IsList

LEMMA MatchingIs == RuleInv => IsList(Matching, clock)
<1> SUFFICES ASSUME RuleInv PROVE IsList(Matching, clock)
  OBVIOUS
<1> DEFINE matching(s) == {c \in ToSet(s) : c.text = "approval"}
           description == [user |-> Author, at |-> 1, edited |-> body.edited, text |-> body.text]
           A == IF rule.comments THEN Chosen("comment", comments, matching(comments)) ELSE {}
           B == IF rule.comments
                THEN Chosen("commented", reviews,
                            {r \in matching(reviews) : r.state = "commented"}) ELSE {}
           C == IF rule.bodyPatterns
                THEN Chosen("body", <<description>>, matching(<<description>>)) ELSE {}
           D == IF rule.githubReview \/ rule.reviewPatterns
                THEN Chosen("review", reviews, {r \in ToSet(reviews) : Approves(r)}) ELSE {}
<1>1. Matching = (A \union B) \union C \union D
  BY DEF Matching
<1>2. /\ clock \in Nat /\ clock >= 1 /\ Author \in Users
      /\ comments \in Seq(Comments) /\ comments \in Seq(UpTo(Comments, clock))
      /\ reviews \in Seq(UpTo(Reviews, clock)) /\ body \in [text : Texts, edited : BOOLEAN]
  BY RuleAssumption DEF RuleInv, TypeOK
<1>3. /\ \A x \in UpTo(Comments, clock) :
           x.user \in Users /\ x.at \in 0..clock /\ x.edited \in BOOLEAN
      /\ \A x \in UpTo(Reviews, clock) :
           x.user \in Users /\ x.at \in 0..clock /\ x.edited \in BOOLEAN
  BY <1>2 DEF UpTo, Comments, Reviews
<1>4. <<description>> \in Seq({description}) /\
      \A x \in {description} : x.user \in Users /\ x.at \in 0..clock /\ x.edited \in BOOLEAN
  BY <1>2
<1>5. /\ "comment" \in DOMAIN Turn /\ "commented" \in DOMAIN Turn
      /\ "body" \in DOMAIN Turn /\ "review" \in DOMAIN Turn
  BY TurnIs
<1> HIDE DEF description, matching
<1>6. IsList({}, clock)
  BY <1>2, FS_EmptySet DEF IsList
<1>7. IsList(A, clock) /\ \A c \in A : c.kind = "comment"
  BY <1>2, <1>3, <1>5, <1>6, ChosenIs
<1>8. IsList(B, clock) /\ \A c \in B : c.kind = "commented"
  BY <1>2, <1>3, <1>5, <1>6, ChosenIs
<1>9. IsList(C, clock) /\ \A c \in C : c.kind = "body"
  <2> DEFINE chosen == Chosen("body", <<description>>, matching(<<description>>))
             one == <<description>>
  <2>1. one \in Seq({description})
    BY <1>4
  <2>2. chosen = Chosen("body", one, matching(one))
    OBVIOUS
  <2> HIDE DEF chosen, one
  <2>3. IsList(chosen, clock) /\ \A c \in chosen : c.kind = "body"
    BY <1>2, <1>4, <1>5, <2>1, <2>2, ChosenIs
  <2>4. C = IF rule.bodyPatterns THEN chosen ELSE {}
    BY DEF chosen
  <2>5. QED
    BY <1>6, <2>3, <2>4
<1>10. IsList(D, clock) /\ \A c \in D : c.kind = "review"
  BY <1>2, <1>3, <1>5, <1>6, ChosenIs
<1> HIDE DEF A, B, C, D
<1>11. IsList(A \union B, clock) /\ \A c \in A \union B : c.kind \in {"comment", "commented"}
  BY <1>7, <1>8, ListsCombine
<1>12. IsList(A \union B \union C, clock)
       /\ \A c \in A \union B \union C : c.kind # "review"
  BY <1>9, <1>11, ListsCombine
<1>13. IsList((A \union B \union C) \union D, clock)
  BY <1>10, <1>12, ListsCombine
<1>14. QED
  BY <1>1, <1>13

LEMMA BeforeIsStrict ==
  ASSUME NEW t, NEW c \in Candidates(t), NEW d \in Candidates(t)
  PROVE  /\ ~(Before(c, d) /\ Before(d, c))
         /\ Before(c, d) \/ Before(d, c) \/ (c.kind = d.kind /\ c.id = d.id)
<1>1. c.kind \in DOMAIN Turn /\ d.kind \in DOMAIN Turn /\ c.id \in Nat /\ d.id \in Nat
  BY DEF Candidates
<1>2. \A k, l \in DOMAIN Turn : Turn[k] \in Nat /\ (Turn[k] = Turn[l] => k = l)
  BY TurnIs
<1>3. QED
  BY <1>1, <1>2 DEF Before

LEMMA OnePerUser ==
  ASSUME NEW t, NEW all, IsList(all, t),
         NEW c \in Deduplicate(all), NEW d \in Deduplicate(all), c.user = d.user
  PROVE  c = d
<1>1. SUFFICES ASSUME c # d PROVE FALSE
  OBVIOUS
<1>2. c \in all /\ d \in all /\ c.at \in Nat /\ d.at \in Nat
  BY DEF IsList, Deduplicate, Candidates
<1>3. /\ d.at < c.at \/ (d.at = c.at /\ Before(c, d))
      /\ c.at < d.at \/ (c.at = d.at /\ Before(d, c))
  BY <1>1, <1>2 DEF Deduplicate
<1>4. Before(c, d) /\ Before(d, c)
  BY <1>2, <1>3
<1>5. QED
  BY <1>2, <1>4, BeforeIsStrict DEF IsList

LEMMA LatestIsKept ==
  ASSUME NEW t, NEW all, IsList(all, t), NEW c \in all
  PROVE  \E w \in Deduplicate(all) : w.user = c.user /\ w.at >= c.at
<1> DEFINE mine == {d \in all : d.user = c.user}
           age == [d \in all |-> t - d.at]
           turn == [d \in all |-> Turn[d.kind]]
           id == [d \in all |-> d.id]
<1>1. age \in [all -> Nat] /\ turn \in [all -> Nat] /\ id \in [all -> Nat]
  <2>1. \A d \in all : d.at \in 0..t /\ d.kind \in DOMAIN Turn /\ d.id \in Nat
    BY DEF IsList, Candidates
  <2>2. \A k \in DOMAIN Turn : Turn[k] \in Nat
    BY TurnIs
  <2>3. t \in Nat
    BY DEF IsList
  <2>4. QED
    BY <2>1, <2>2, <2>3
<1>2. PICK x \in mine : \A d \in mine : age[x] <= age[d]
  BY <1>1, LeastRank
<1> DEFINE latest == {d \in mine : age[d] = age[x]}
<1>3. PICK y \in latest : \A d \in latest : turn[y] <= turn[d]
  <2>1. latest \subseteq all /\ latest # {}
    OBVIOUS
  <2> HIDE DEF latest, turn
  <2>2. QED
    BY <1>1, <2>1, LeastRank
<1> DEFINE first == {d \in latest : turn[d] = turn[y]}
<1>4. PICK w \in first : \A d \in first : id[w] <= id[d]
  <2>1. first \subseteq all /\ first # {}
    OBVIOUS
  <2> HIDE DEF first, id
  <2>2. QED
    BY <1>1, <2>1, LeastRank
<1>5. w \in all /\ w.user = c.user /\ age[w] = age[x] /\ turn[w] = turn[y]
  OBVIOUS
<1>6. ASSUME NEW d \in all PROVE age[d] = t - d.at /\ turn[d] = Turn[d.kind] /\ id[d] = d.id
                                  /\ d.at \in Nat /\ d \in Candidates(t)
  BY DEF IsList, Candidates
<1>7. t \in Nat
  BY DEF IsList
<1>8. \A d \in mine : d.at <= w.at
  BY <1>2, <1>5, <1>6, <1>7
<1>9. ASSUME NEW d \in mine, d # w PROVE d.at < w.at \/ (d.at = w.at /\ Before(w, d))
  <2>1. d.at <= w.at /\ d.at \in Nat /\ w.at \in Nat
    BY <1>5, <1>6, <1>8
  <2>2. SUFFICES ASSUME d.at = w.at, ~Before(w, d) PROVE FALSE
    BY <2>1
  <2>3. d \in latest
    BY <1>5, <1>6, <2>2
  <2>4. turn[w] <= turn[d]
    BY <1>3, <1>5, <2>3
  <2>5. w.kind # d.kind \/ w.id # d.id
    BY <1>5, <1>9 DEF IsList
  <2>6. Before(d, w)
    BY <1>5, <1>6, <2>2, <2>5, BeforeIsStrict
  <2>7. Turn[d.kind] < Turn[w.kind] \/ (d.kind = w.kind /\ d.id < w.id)
    BY <2>6 DEF Before
  <2>8. turn[w] = Turn[w.kind] /\ turn[d] = Turn[d.kind] /\ id[w] = w.id /\ id[d] = d.id
        /\ turn[w] \in Nat /\ turn[d] \in Nat /\ id[w] \in Nat /\ id[d] \in Nat
    BY <1>1, <1>5, <1>6
  <2>9. d.kind = w.kind /\ d.id < w.id
    BY <2>4, <2>7, <2>8
  <2>10. d \in first
    BY <1>5, <2>3, <2>8, <2>9
  <2>11. id[w] <= id[d]
    BY <1>4, <2>10
  <2>12. QED
    BY <2>8, <2>9, <2>11
<1>10. w \in Deduplicate(all)
  BY <1>5, <1>9 DEF Deduplicate
<1>11. QED
  BY <1>5, <1>8, <1>10

LEMMA PeopleAreFewer ==
  ASSUME NEW S, IsFiniteSet(S)
  PROVE  /\ IsFiniteSet(People(S)) /\ Cardinality(People(S)) <= Cardinality(S)
         /\ (\A c, d \in S : c.user = d.user => c = d)
              => Cardinality(People(S)) = Cardinality(S)
<1> DEFINE f == [c \in S |-> c.user]
<1>1. f \in Surjection(S, People(S))
  BY DEF Surjection, People
<1>2. ASSUME \A c, d \in S : c.user = d.user => c = d PROVE f \in Injection(S, People(S))
  <2>1. f \in [S -> People(S)]
    BY DEF People
  <2>2. \A c, d \in S : f[c] = f[d] => c = d
    BY <1>2
  <2> HIDE DEF f
  <2>3. QED
    BY <2>1, <2>2 DEF Injection, IsInjective
<1> HIDE DEF f
<1>3. QED
  BY <1>1, <1>2, FS_Surjection

-----------------------------------------------------------------------------
(***************************************************************************)
(* What the verdict promises.                                              *)
(***************************************************************************)
LEMMA ApproversAreFiltered ==
  RuleInv =>
         /\ Approvers \subseteq Deduplicate(Matching) /\ IsFiniteSet(Approvers)
         /\ Cardinality(People(Approvers)) = Cardinality(Approvers)
         /\ Deduplicate(Matching) \subseteq Matching
         /\ \A c \in Approvers : rule.ignoreEditedComments => ~c.edited
<1> SUFFICES ASSUME RuleInv
             PROVE  /\ Approvers \subseteq Deduplicate(Matching) /\ IsFiniteSet(Approvers)
                    /\ Cardinality(People(Approvers)) = Cardinality(Approvers)
                    /\ Deduplicate(Matching) \subseteq Matching
                    /\ \A c \in Approvers : rule.ignoreEditedComments => ~c.edited
  OBVIOUS
<1>1. /\ FilteredCandidates \subseteq Deduplicate(Matching)
      /\ \A c \in FilteredCandidates : rule.ignoreEditedComments => ~c.edited
  BY DEF FilteredCandidates, KeptByPushes, KeptByEdits
<1>2. Approvers \subseteq FilteredCandidates
  BY DEF Approvers
<1>3. Deduplicate(Matching) \subseteq Matching
  BY DEF Deduplicate
<1>4. IsFiniteSet(Approvers)
  BY <1>1, <1>2, <1>3, MatchingIs, FS_Subset DEF IsList
<1>5. \A c, d \in Approvers : c.user = d.user => c = d
  BY <1>1, <1>2, MatchingIs, OnePerUser
<1>6. QED
  BY <1>1, <1>2, <1>3, <1>4, <1>5, PeopleAreFewer

LEMMA HeadIs == RuleInv => head \in Shas /\ head \notin Base
BY DEF RuleInv, TypeOK

(* Who is not banned may approve, unless branches were merged; and who may  *)
(* approve is not banned.                                                   *)
LEMMA BannedMayNot ==
  ASSUME RuleInv, NEW u
  PROVE  /\ MayApprove(u) => u \in rule.actors /\ u \notin Banned
         /\ NoFeatureMerges /\ u \in rule.actors /\ u \notin Banned => MayApprove(u)
<1>1. /\ FilteredCommits(rule, head) \subseteq Relevant(rule, head)
      /\ NoFeatureMerges => FilteredCommits(rule, head) = Relevant(rule, head)
  BY HeadIs, FilteredAreRelevant
<1> DEFINE committers == UNION {UsersOf[c] : c \in FilteredCommits(rule, head)}
<1>2. committers \subseteq Contributors /\ (NoFeatureMerges => committers = Contributors)
  BY <1>1 DEF Contributors
<1>3. Banned = (IF rule.allowAuthor \/ rule.allowContributor THEN {} ELSE {Author})
               \union (IF rule.allowContributor \/ rule.allowNonAuthorContributor THEN {}
                       ELSE committers \ {Author})
  BY DEF Banned
<1> HIDE DEF committers
<1>4. QED
  BY <1>2, <1>3 DEF MayApprove

LEMMA ApprovedIs ==
  ASSUME RuleInv
  PROVE  /\ rule.count \in Nat
         /\ ByActors => Cardinality(Approvers) >= rule.count
         /\ /\ \A k \in rule.predicates \union rule.conditions : facts[k]
            /\ Cardinality(Approvers) >= rule.count
            => Verdict = "approved"
<1>1. rule.count \in Nat
  BY RuleAssumption DEF RuleInv, TypeOK, RuleType
<1>2. QED
  BY <1>1 DEF ByActors, Verdict, IsApproved

LEMMA EnoughOf ==
  ASSUME RuleInv, ByActors, NEW S, IsFiniteSet(S), Approvers \subseteq S
  PROVE  Cardinality(People(S)) >= rule.count
<1>1. IsFiniteSet(People(S)) /\ People(Approvers) \subseteq People(S)
  BY PeopleAreFewer DEF People
<1>2. Cardinality(People(Approvers)) <= Cardinality(People(S))
  BY <1>1, FS_Subset
<1>3. /\ Cardinality(People(Approvers)) \in Nat /\ Cardinality(People(S)) \in Nat
      /\ rule.count \in Nat /\ Cardinality(People(Approvers)) >= rule.count
  BY <1>1, FS_Subset, FS_CardinalityType, ApproversAreFiltered, ApprovedIs
<1>4. QED
  BY <1>2, <1>3

LEMMA ApproversApprove ==
  ASSUME RuleInv, NoFeatureMerges
  PROVE  Approvers \subseteq Approvals /\ IsFiniteSet(Approvals)
<1>1. \A c \in Approvers : c.user \in rule.actors /\ c.user \notin Banned
  BY DEF Approvers
<1>2. Approvers \subseteq Approvals
  BY <1>1, ApproversAreFiltered, BannedMayNot DEF Approvals
<1>3. IsFiniteSet(Approvals)
  BY MatchingIs, FS_Subset DEF Approvals, IsList
<1>4. QED
  BY <1>2, <1>3

(* An approved rule has its number of approvals of people who may approve,  *)
(* for any rules, people and commits of which no branch was merged but the  *)
(* base branch (Rule.isApprovedByActors).                                   *)
THEOREM EnoughPeopleMayApprove == NoFeatureMerges /\ Spec => []EnoughMayApprove
<1>1. NoFeatureMerges /\ RuleInv => EnoughMayApprove
  BY ApproversApprove, EnoughOf DEF EnoughMayApprove
<1>2. ASSUME NoFeatureMerges PROVE Spec => []EnoughMayApprove
  BY <1>1, <1>2, RuleInvAlways, PTL
<1>3. QED
  BY <1>2

LEMMA FilteredAreCommits ==
  ASSUME RuleInv, FilteredCommits(rule, head) # {}
  PROVE  /\ MostRecent(rule, head) \in FilteredCommits(rule, head)
         /\ MostRecent(rule, head) \in CommitsOf(head) /\ MostRecent(rule, head) \in Shas
         /\ \A c \in FilteredCommits(rule, head) :
              c \in History[MostRecent(rule, head)] /\ c \notin Base
<1>1. head \in Shas
  BY HeadIs
<1>2. FilteredCommits(rule, head) \subseteq CommitsOf(head)
  BY <1>1, SortedIs DEF FilteredCommits
<1>3. CommitsOf(head) \subseteq Shas \ Base
  BY <1>1, CommitsAre DEF CommitsOf
<1>4. QED
  BY <1>1, <1>2, <1>3, MostRecentIs

LEMMA TimesOfRule ==
  ASSUME RuleInv
  PROVE  head \in Shas /\ statusAt \in [Shas -> Nat] /\ clock \in Nat
<1>1. statusAt \in [Shas -> 0..clock] /\ clock \in Nat
  BY DEF RuleInv, TypeOK
<1>2. QED
  BY <1>1, HeadIs

(* With invalidate_on_push, the approvals of an approved rule follow every   *)
(* commit that counts, for any commits of which no branch was merged but the *)
(* base branch and none is on another branch (filterInvalidCandidates).      *)
THEOREM ApprovalsAlwaysFollowPushes ==
  NoFeatureMerges /\ SharedCommits = {} /\ Spec => []ApprovalsFollowPushes
<1>1. ASSUME NoFeatureMerges, SharedCommits = {}, RuleInv, ByActors, rule.invalidateOnPush,
             NEW w \in Approvers, NEW s \in Relevant(rule, head)
      PROVE  arrivedAt[s] < w.at
  <2> DEFINE m == MostRecent(rule, head)
             at == Times(head, statusAt, clock)[m]
  <2>1. s \in FilteredCommits(rule, head)
    BY <1>1, HeadIs, FilteredAreRelevant
  <2>2. m \in CommitsOf(head) /\ s \in History[m] /\ s \notin Base /\ m \in Shas
    BY <1>1, <2>1, FilteredAreCommits
  <2>3. w \in KeptByPushes(KeptByEdits(Deduplicate(Matching)))
    BY DEF Approvers, FilteredCandidates
  <2>4. w.at > PushedAt(m)
    BY <1>1, <2>1, <2>3 DEF KeptByPushes
  <2>5. w.at > at
    BY <2>4, PushedAtIs
  <2>6. w.at \in 0..clock /\ clock \in Nat
    BY <1>1, ApproversAreFiltered, MatchingIs DEF IsList, Candidates
  <2>7. at = clock \/ \E d \in CommitsOf(head) : m \in History[d] /\ statusAt[d] # 0
                                                 /\ at = statusAt[d]
    BY <1>1, <2>2, TimesOfRule, TimesComeFromStatuses
  <2> HIDE DEF at, m
  <2>8. PICK d \in CommitsOf(head) : m \in History[d] /\ statusAt[d] # 0 /\ at = statusAt[d]
    BY <2>5, <2>6, <2>7
  <2>9. d \in Shas /\ s \in CommitsOf(d) /\ s \in Shas
    BY <1>1, <2>2, <2>8, HeadIs, CommitsAre, HistoryIsTransitive, HistoryHas DEF CommitsOf
  <2>10. arrivedAt[d] # 0 /\ arrivedAt[d] <= statusAt[d] /\ arrivedAt[s] <= arrivedAt[d]
    BY <1>1, <2>8, <2>9 DEF RuleInv
  <2>11. arrivedAt[d] \in Nat /\ arrivedAt[s] \in Nat /\ statusAt[d] \in Nat
    BY <1>1, <2>9 DEF RuleInv, TypeOK
  <2>12. QED
    BY <2>5, <2>6, <2>8, <2>10, <2>11
<1>2. ASSUME NoFeatureMerges, SharedCommits = {} PROVE RuleInv => ApprovalsFollowPushes
  <2> DEFINE S == {c \in Approvals : \A s \in Relevant(rule, head) : arrivedAt[s] < c.at}
  <2> SUFFICES ASSUME RuleInv, ByActors, rule.invalidateOnPush
               PROVE  Cardinality(People(S)) >= rule.count
    BY DEF ApprovalsFollowPushes
  <2>1. Approvers \subseteq S
    BY <1>1, <1>2, ApproversApprove
  <2>2. IsFiniteSet(S)
    BY <1>2, ApproversApprove, FS_Subset
  <2> HIDE DEF S
  <2>3. QED
    BY <2>1, <2>2, EnoughOf
<1>3. ASSUME NoFeatureMerges, SharedCommits = {} PROVE Spec => []ApprovalsFollowPushes
  <2>1. RuleInv => ApprovalsFollowPushes
    BY <1>2, <1>3
  <2>2. QED
    BY <2>1, RuleInvAlways, PTL
<1>4. QED
  BY <1>3

(* Nobody's approval is overlooked, for any commits, people and rules but    *)
(* those that ignore edited comments: of these, an edited approval hides the *)
(* user's earlier ones (deduplicateCandidates comes before the filters).     *)
THEOREM NobodysApprovalIsOverlooked ==
  (\A r \in Rules : ~r.ignoreEditedComments) /\ Spec => []NothingIsOverlooked
<1> DEFINE cleared == {c \in Approvals : rule.invalidateOnPush =>
                         \A s \in CommitsOf(head) : statusAt[s] \in 1..(c.at - 1)}
<1>1. ASSUME \A r \in Rules : ~r.ignoreEditedComments, RuleInv, NEW c \in cleared
      PROVE  \E w \in Approvers : w.user = c.user
  <2>1. /\ c \in Matching /\ MayApprove(c.user) /\ c.at \in Nat
        /\ rule.invalidateOnPush => \A s \in CommitsOf(head) : statusAt[s] \in 1..(c.at - 1)
    BY <1>1, MatchingIs DEF Approvals, IsList, Candidates
  <2>2. PICK w \in Deduplicate(Matching) : w.user = c.user /\ w.at >= c.at
    BY <1>1, <2>1, MatchingIs, LatestIsKept
  <2>3. w.at \in Nat
    BY <1>1, MatchingIs DEF Deduplicate, IsList, Candidates
  <2>4. ~rule.ignoreEditedComments
    BY <1>1 DEF RuleInv, TypeOK
  <2>5. ASSUME rule.invalidateOnPush, FilteredCommits(rule, head) # {}
        PROVE  w.at > PushedAt(MostRecent(rule, head))
    <3> DEFINE m == MostRecent(rule, head)
    <3>1. m \in CommitsOf(head) /\ m \in Shas
      BY <1>1, <2>5, FilteredAreCommits
    <3> HIDE DEF m
    <3>2. statusAt[m] \in 1..(c.at - 1)
      BY <2>1, <2>5, <3>1
    <3>3. statusAt[m] # 0
      BY <2>1, <3>2
    <3>4. Times(head, statusAt, clock)[m]
          = TimeOf(Times(head, statusAt, clock), head, statusAt, clock, m)
      BY <1>1, <3>1, TimesOfRule, TimesAre
    <3>5. Times(head, statusAt, clock)[m] = statusAt[m]
      BY <3>3, <3>4 DEF TimeOf
    <3>6. PushedAt(m) = statusAt[m]
      BY <1>1, <3>1, <3>5, PushedAtIs
    <3>7. QED
      BY <2>1, <2>2, <2>3, <3>2, <3>6 DEF m
  <2>6. w \in FilteredCandidates
    BY <2>4, <2>5 DEF FilteredCandidates, KeptByPushes, KeptByEdits
  <2>7. w.user \in rule.actors /\ w.user \notin Banned
    BY <1>1, <2>1, <2>2, BannedMayNot
  <2>8. QED
    BY <2>2, <2>6, <2>7 DEF Approvers
<1>2. ASSUME \A r \in Rules : ~r.ignoreEditedComments PROVE RuleInv => NothingIsOverlooked
  <2> SUFFICES ASSUME RuleInv, \A k \in rule.predicates \union rule.conditions : facts[k],
                      Cardinality(People(cleared)) >= rule.count
               PROVE  Verdict = "approved"
    BY DEF NothingIsOverlooked
  <2>1. People(cleared) \subseteq People(Approvers)
    BY <1>1, <1>2 DEF People
  <2> HIDE DEF cleared
  <2>2. IsFiniteSet(Approvers) /\ Cardinality(People(Approvers)) = Cardinality(Approvers)
    BY ApproversAreFiltered
  <2>3. IsFiniteSet(People(Approvers))
    BY <2>2, PeopleAreFewer
  <2>4. /\ Cardinality(People(cleared)) <= Cardinality(People(Approvers))
        /\ Cardinality(People(cleared)) \in Nat /\ Cardinality(People(Approvers)) \in Nat
    BY <2>1, <2>3, FS_Subset, FS_CardinalityType
  <2>5. rule.count \in Nat
    BY ApprovedIs
  <2>6. Cardinality(Approvers) >= rule.count
    BY <2>2, <2>4, <2>5
  <2>7. QED
    BY <2>6, ApprovedIs
<1>3. ASSUME \A r \in Rules : ~r.ignoreEditedComments PROVE Spec => []NothingIsOverlooked
  <2>1. RuleInv => NothingIsOverlooked
    BY <1>2, <1>3
  <2>2. QED
    BY <2>1, RuleInvAlways, PTL
<1>4. QED
  BY <1>3

-----------------------------------------------------------------------------
(***************************************************************************)
(* What takes no approval away.                                            *)
(***************************************************************************)
(* A second later, what has a status was pushed when it was, the rest now. *)
LEMMA TickKeepsTimes ==
  ASSUME NEW hd \in Shas, NEW st \in [Shas -> Nat], NEW cl \in Nat, NEW s \in Shas
  PROVE  \/ Times(hd, st, cl + 1)[s] = Times(hd, st, cl)[s]
         \/ Times(hd, st, cl)[s] = cl /\ Times(hd, st, cl + 1)[s] = cl + 1
<1> DEFINE old == Times(hd, st, cl)
           new == Times(hd, st, cl + 1)
           T == {c \in Shas : new[c] = old[c] \/ (old[c] = cl /\ new[c] = cl + 1)}
<1>1. /\ \A c \in Shas : old[c] = TimeOf(old, hd, st, cl, c)
      /\ \A c \in Shas : new[c] = TimeOf(new, hd, st, cl + 1, c)
  <2>1. \A c \in Shas : old[c] = TimeOf(old, hd, st, cl, c)
    BY TimesAre
  <2>2. \A c \in Shas : new[c] = TimeOf(new, hd, st, cl + 1, c)
    BY TimesAre
  <2>3. QED
    BY <2>1, <2>2
<1> HIDE DEF old, new
<1>2. \A c \in Shas : (Child(hd, c) # 0 => Listing[Child(hd, c)] \in T) => c \in T
  BY <1>1 DEF TimeOf
<1>3. Shas \subseteq T
  <2> HIDE DEF T
  <2>1. QED
    BY <1>2, FromChildren
<1>4. QED
  BY <1>3 DEF old, new

(* A status of a commit changes nothing if no commit after it has one. *)
LEMMA FirstReportKeepsTimes ==
  ASSUME NEW hd \in Shas, NEW st \in [Shas -> Nat], NEW cl \in Nat, NEW s \in CommitsOf(hd),
         st[s] = 0, \A c \in CommitsOf(hd) \ {s} : s \in History[c] => st[c] = 0,
         NEW c \in Shas
  PROVE  Times(hd, [st EXCEPT ![s] = cl], cl)[c] = Times(hd, st, cl)[c]
<1> DEFINE with == [st EXCEPT ![s] = cl]
           old == Times(hd, st, cl)
           new == Times(hd, with, cl)
           T == {d \in Shas : new[d] = old[d]}
<1>1. s \in Shas /\ with \in [Shas -> Nat]
  BY CommitsAre
<1>2. /\ \A d \in Shas : old[d] = TimeOf(old, hd, st, cl, d)
      /\ \A d \in Shas : new[d] = TimeOf(new, hd, with, cl, d)
  <2>1. \A d \in Shas : old[d] = TimeOf(old, hd, st, cl, d)
    BY TimesAre
  <2> HIDE DEF with
  <2>2. \A d \in Shas : new[d] = TimeOf(new, hd, with, cl, d)
    BY <1>1, TimesAre
  <2>3. QED
    BY <2>1, <2>2
<1>3. old[s] = cl
  BY TimesComeFromStatuses
<1>4. \A d \in Shas \ {s} : with[d] = st[d]
  BY <1>1
<1>5. with[s] = cl
  BY <1>1
<1> HIDE DEF old, new, with
<1>6. ASSUME NEW d \in Shas, Child(hd, d) # 0 => Listing[Child(hd, d)] \in T
      PROVE  new[d] = old[d]
  <2>1. CASE d # s
    BY <1>2, <1>4, <1>6, <2>1 DEF TimeOf
  <2>2. CASE d = s /\ cl # 0
    BY <1>2, <1>3, <1>5, <2>2 DEF TimeOf
  <2>3. CASE d = s /\ cl = 0
    BY <1>2, <1>5, <1>6, <2>3 DEF TimeOf
  <2>4. QED
    BY <2>1, <2>2, <2>3
<1>7. \A d \in Shas : (Child(hd, d) # 0 => Listing[Child(hd, d)] \in T) => d \in T
  BY <1>6
<1>8. Shas \subseteq T
  <2> HIDE DEF T
  <2>1. QED
    BY <1>7, FromChildren
<1>9. QED
  BY <1>8 DEF old, new, with

(* The filters of a rule: filterEditedCandidates and filterInvalidCandidates. *)
Survives(w) ==
  /\ rule.ignoreEditedComments => ~w.edited
  /\ rule.invalidateOnPush /\ FilteredCommits(rule, head) # {} =>
       w.at > Times(head, statusAt, clock)[MostRecent(rule, head)]

Survivors == {w \in Deduplicate(Matching) : Survives(w)}

LEMMA FilteredAre == FilteredCandidates = Survivors
<1>1. PushedAt(MostRecent(rule, head)) = Times(head, statusAt, clock)[MostRecent(rule, head)]
  BY PushedAtIs
<1>2. QED
  BY <1>1 DEF FilteredCandidates, KeptByPushes, KeptByEdits, Survivors, Survives

(* What is written at the end of a list adds a candidate, or none. *)
LEMMA ChosenGrows ==
  ASSUME NEW kind, NEW S, NEW s \in Seq(S), NEW x \in S, NEW M, NEW N,
         \A y \in ToSet(s) : y \in M <=> y \in N
  PROVE  /\ Chosen(kind, s, M) \subseteq Chosen(kind, Append(s, x), N)
         /\ \A c \in Chosen(kind, Append(s, x), N) :
              c \in Chosen(kind, s, M) \/ c.edited = x.edited
         /\ x \notin N => Chosen(kind, Append(s, x), N) = Chosen(kind, s, M)
<1> DEFINE long == Append(s, x)
<1>1. /\ long \in Seq(S) /\ Len(s) \in Nat /\ Len(long) = Len(s) + 1 /\ long[Len(s) + 1] = x
      /\ \A i \in 1..Len(s) : i \in 1..Len(long) /\ long[i] = s[i] /\ s[i] \in ToSet(s)
  BY DEF ToSet
<1> HIDE DEF long
<1>2. Chosen(kind, s, M) \subseteq Chosen(kind, long, N)
  BY <1>1 DEF Chosen
<1>3. ASSUME NEW c \in Chosen(kind, long, N)
      PROVE  c \in Chosen(kind, s, M) \/ (c.edited = x.edited /\ x \in N)
  <2>1. PICK i \in 1..Len(long) : long[i] \in N /\ c = Candidate(kind, i, long[i])
    BY DEF Chosen
  <2>2. CASE i \in 1..Len(s)
    BY <1>1, <2>1, <2>2 DEF Chosen
  <2>3. CASE i = Len(s) + 1
    BY <1>1, <2>1, <2>3 DEF Candidate
  <2>4. QED
    BY <1>1, <2>2, <2>3
<1>4. QED
  BY <1>2, <1>3 DEF long

(* The lists of candidates, in the order of the code. *)
ByComment == IF rule.comments
             THEN Chosen("comment", comments, {c \in ToSet(comments) : c.text = "approval"})
             ELSE {}
ByCommenting ==
  IF rule.comments
  THEN Chosen("commented", reviews,
              {r \in ToSet(reviews) : r.text = "approval" /\ r.state = "commented"})
  ELSE {}
Description == <<[user |-> Author, at |-> 1, edited |-> body.edited, text |-> body.text]>>
ByBody == IF rule.bodyPatterns
          THEN Chosen("body", Description, {d \in ToSet(Description) : d.text = "approval"})
          ELSE {}
ByReview == IF rule.githubReview \/ rule.reviewPatterns
            THEN Chosen("review", reviews, {r \in ToSet(reviews) : Approves(r)}) ELSE {}

LEMMA MatchingHas == Matching = ((ByComment \union ByCommenting) \union ByBody) \union ByReview
<1>1. {r \in {c \in ToSet(reviews) : c.text = "approval"} : r.state = "commented"}
      = {r \in ToSet(reviews) : r.text = "approval" /\ r.state = "commented"}
  OBVIOUS
<1>2. QED
  BY <1>1 DEF Matching, ByComment, ByCommenting, ByBody, ByReview, Description

LEMMA CommentsAdd ==
  ASSUME RuleInv, NEW u \in Speakers, NEW t \in Texts, Comment(u, t)
  PROVE  /\ Matching \subseteq Matching' /\ \A c \in Matching' : c \in Matching \/ ~c.edited
         /\ Matching' # Matching => rule.comments /\ t = "approval"
<1> DEFINE x == [user |-> u, at |-> clock, edited |-> FALSE, text |-> t]
           M == {c \in ToSet(comments) : c.text = "approval"}
           N == {c \in ToSet(comments') : c.text = "approval"}
<1>1. /\ comments \in Seq(Comments) /\ comments' = Append(comments, x) /\ x \in Comments
      /\ UNCHANGED <<rule, reviews, body>>
  BY RuleTypes, RuleAssumption DEF RuleInv, TypeOK, Comment, Step, Comments
<1>2. x.edited = FALSE /\ (x \in N => t = "approval")
  OBVIOUS
<1> HIDE DEF x
<1>3. ToSet(comments) \subseteq ToSet(comments')
  BY <1>1 DEF ToSet
<1>4. /\ Chosen("comment", comments, M) \subseteq Chosen("comment", comments', N)
      /\ \A c \in Chosen("comment", comments', N) :
           c \in Chosen("comment", comments, M) \/ c.edited = x.edited
      /\ x \notin N => Chosen("comment", comments', N) = Chosen("comment", comments, M)
  <2>1. \A y \in ToSet(comments) : y \in M <=> y \in N
    BY <1>3
  <2> HIDE DEF M, N
  <2>2. QED
    BY <1>1, <2>1, ChosenGrows
<1>5. /\ ByComment \subseteq ByComment' /\ \A c \in ByComment' : c \in ByComment \/ ~c.edited
      /\ ByComment' # ByComment => rule.comments /\ t = "approval"
  BY <1>1, <1>2, <1>4 DEF ByComment
<1>6. UNCHANGED <<ByCommenting, ByBody, ByReview>>
  BY <1>1 DEF ByCommenting, ByBody, ByReview, Description, Approves
<1>7. (Matching = ((ByComment \union ByCommenting) \union ByBody) \union ByReview)'
  BY MatchingHas, PTL
<1>8. QED
  BY <1>5, <1>6, <1>7, MatchingHas

LEMMA ReviewsAdd ==
  ASSUME RuleInv, NEW u \in Speakers, NEW state \in Submissions, NEW t \in Texts,
         Review(u, state, t)
  PROVE  /\ Matching \subseteq Matching' /\ \A c \in Matching' : c \in Matching \/ ~c.edited
         /\ Matching' # Matching =>
              \/ rule.comments /\ t = "approval" /\ state = "commented"
              \/ (rule.githubReview \/ rule.reviewPatterns) /\ state = "approved"
<1> DEFINE x == [user |-> u, at |-> clock, edited |-> FALSE, text |-> t, state |-> state]
           M == {r \in ToSet(reviews) : r.text = "approval" /\ r.state = "commented"}
           N == {r \in ToSet(reviews') : r.text = "approval" /\ r.state = "commented"}
           approves(r) == r.state = "approved" /\ (rule.reviewPatterns => r.text = "approval")
           K == {r \in ToSet(reviews) : approves(r)}
           L == {r \in ToSet(reviews') : approves(r)}
<1>1. /\ reviews \in Seq(Reviews) /\ reviews' = Append(reviews, x) /\ x \in Reviews
      /\ UNCHANGED <<rule, comments, body>>
  BY RuleTypes, RuleAssumption DEF RuleInv, TypeOK, Review, Step, Reviews, Submitted
<1>2. /\ x.edited = FALSE /\ (x \in N => t = "approval" /\ state = "commented")
      /\ x \in L => state = "approved"
  OBVIOUS
<1> HIDE DEF x
<1>3. ToSet(reviews) \subseteq ToSet(reviews')
  BY <1>1 DEF ToSet
<1>4. /\ Chosen("commented", reviews, M) \subseteq Chosen("commented", reviews', N)
      /\ \A c \in Chosen("commented", reviews', N) :
           c \in Chosen("commented", reviews, M) \/ c.edited = x.edited
      /\ x \notin N => Chosen("commented", reviews', N) = Chosen("commented", reviews, M)
  <2>1. \A y \in ToSet(reviews) : y \in M <=> y \in N
    BY <1>3
  <2> HIDE DEF M, N
  <2>2. QED
    BY <1>1, <2>1, ChosenGrows
<1>5. /\ Chosen("review", reviews, K) \subseteq Chosen("review", reviews', L)
      /\ \A c \in Chosen("review", reviews', L) :
           c \in Chosen("review", reviews, K) \/ c.edited = x.edited
      /\ x \notin L => Chosen("review", reviews', L) = Chosen("review", reviews, K)
  <2>1. \A y \in ToSet(reviews) : y \in K <=> y \in L
    BY <1>3
  <2> HIDE DEF K, L
  <2>2. QED
    BY <1>1, <2>1, ChosenGrows
<1>6. /\ ByCommenting \subseteq ByCommenting'
      /\ \A c \in ByCommenting' : c \in ByCommenting \/ ~c.edited
      /\ ByCommenting' # ByCommenting =>
           rule.comments /\ t = "approval" /\ state = "commented"
  BY <1>1, <1>2, <1>4 DEF ByCommenting
<1>7. /\ ByReview \subseteq ByReview' /\ \A c \in ByReview' : c \in ByReview \/ ~c.edited
      /\ ByReview' # ByReview =>
           (rule.githubReview \/ rule.reviewPatterns) /\ state = "approved"
  <2>1. ByReview = IF rule.githubReview \/ rule.reviewPatterns
                   THEN Chosen("review", reviews, K) ELSE {}
    BY DEF ByReview, Approves
  <2>2. ByReview' = IF rule.githubReview \/ rule.reviewPatterns
                    THEN Chosen("review", reviews', L) ELSE {}
    BY <1>1 DEF ByReview, Approves
  <2> HIDE DEF K, L
  <2>3. QED
    BY <1>2, <1>5, <2>1, <2>2
<1>8. UNCHANGED <<ByComment, ByBody>>
  BY <1>1 DEF ByComment, ByBody, Description
<1>9. (Matching = ((ByComment \union ByCommenting) \union ByBody) \union ByReview)'
  BY MatchingHas, PTL
<1>10. QED
  BY <1>6, <1>7, <1>8, <1>9, MatchingHas

LEMMA HarmlessIs ==
  ASSUME RuleInv, Harmless
  PROVE  /\ UNCHANGED <<rule, head, facts, body>>
         /\ Matching \subseteq Matching' /\ \A c \in Matching' : c \in Matching \/ ~c.edited
<1>1. ASSUME UNCHANGED <<rule, comments, reviews, body>> PROVE UNCHANGED Matching
  <2>1. UNCHANGED <<ByComment, ByCommenting, ByBody, ByReview>>
    BY <1>1 DEF ByComment, ByCommenting, ByBody, ByReview, Description, Approves
  <2>2. (Matching = ((ByComment \union ByCommenting) \union ByBody) \union ByReview)'
    BY MatchingHas, PTL
  <2>3. QED
    BY <2>1, <2>2, MatchingHas
<1>2. CASE Tick
  BY <1>1, <1>2 DEF Tick, content
<1>3. CASE \E s \in Shas : Report(s)
  BY <1>1, <1>3 DEF Report, content
<1>4. ASSUME NEW u \in Speakers, NEW t \in Texts, Comment(u, t)
      PROVE  /\ UNCHANGED <<rule, head, facts, body>>
             /\ Matching \subseteq Matching' /\ \A c \in Matching' : c \in Matching \/ ~c.edited
  <2>1. UNCHANGED <<rule, head, facts, body>>
    BY <1>4 DEF Comment, Step
  <2>2. QED
    BY <1>4, <2>1, CommentsAdd
<1>5. ASSUME NEW u \in Speakers, NEW t \in Texts, NEW state \in Submissions,
             Review(u, state, t)
      PROVE  /\ UNCHANGED <<rule, head, facts, body>>
             /\ Matching \subseteq Matching' /\ \A c \in Matching' : c \in Matching \/ ~c.edited
  <2>1. UNCHANGED <<rule, head, facts, body>>
    BY <1>5 DEF Review, Step
  <2>2. QED
    BY <1>5, <2>1, ReviewsAdd
<1>6. QED
  BY <1>2, <1>3, <1>4, <1>5 DEF Harmless

(* A candidate that followed a commit still does. *)
LEMMA HarmlessKeepsTimes ==
  ASSUME RuleInv, Harmless, NEW s \in Shas, NEW at \in Nat, at <= clock,
         at > Times(head, statusAt, clock)[s]
  PROVE  at > Times(head, statusAt', clock')[s]
<1>1. head \in Shas /\ statusAt \in [Shas -> Nat] /\ clock \in Nat
  BY TimesOfRule
<1>2. CASE Tick
  <2>1. statusAt' = statusAt /\ clock' = clock + 1
    BY <1>2 DEF Tick
  <2>2. \/ Times(head, statusAt, clock + 1)[s] = Times(head, statusAt, clock)[s]
        \/ Times(head, statusAt, clock)[s] = clock
    BY <1>1, TickKeepsTimes
  <2>3. QED
    BY <1>1, <2>1, <2>2
<1>3. ASSUME NEW d \in Shas, Report(d),
             \A c \in CommitsOf(head) \ {d} : d \in History[c] => statusAt[c] = 0
      PROVE  at > Times(head, statusAt', clock')[s]
  <2>1. /\ d \in CommitsOf(head) /\ statusAt[d] = 0 /\ clock' = clock
        /\ statusAt' = [statusAt EXCEPT ![d] = clock]
    BY <1>3 DEF Report
  <2>2. Times(head, [statusAt EXCEPT ![d] = clock], clock)[s] = Times(head, statusAt, clock)[s]
    BY <1>1, <1>3, <2>1, FirstReportKeepsTimes
  <2>3. QED
    BY <2>1, <2>2
<1>4. CASE \E u \in Speakers, t \in Texts :
             Comment(u, t) \/ \E state \in Submissions : Review(u, state, t)
  BY <1>4 DEF Comment, Review, Step
<1>5. QED
  BY <1>2, <1>3, <1>4 DEF Harmless

LEMMA HarmlessKeepsApprovers ==
  ASSUME RuleInv, RuleInv', Harmless, NEW w \in Approvers
  PROVE  \E v \in Approvers' : v.user = w.user
<1>1. /\ UNCHANGED <<rule, head>>
      /\ Matching \subseteq Matching' /\ \A c \in Matching' : c \in Matching \/ ~c.edited
  BY HarmlessIs
<1>2. IsList(Matching, clock)
  BY MatchingIs
<1>3. IsList(Matching', clock')
  <2>1. (RuleInv => IsList(Matching, clock))'
    BY MatchingIs, PTL
  <2>2. QED
    BY <2>1
<1>4. /\ w \in Deduplicate(Matching) /\ Survives(w)
      /\ w.user \notin Banned /\ w.user \in rule.actors
  BY FilteredAre DEF Approvers, Survivors
<1>5. w \in Matching /\ w \in Matching' /\ w.at \in 0..clock
  BY <1>1, <1>2, <1>4 DEF Deduplicate, IsList, Candidates
<1>6. PICK v \in Deduplicate(Matching') : v.user = w.user /\ v.at >= w.at
  BY <1>3, <1>5, LatestIsKept
<1>7. v \in Matching' /\ v.at \in Nat /\ clock' \in Nat /\ clock \in Nat
  BY <1>2, <1>3 DEF Deduplicate, IsList, Candidates
<1>8. ~v.edited \/ v = w
  <2>1. SUFFICES ASSUME v \in Matching, v # w PROVE FALSE
    BY <1>1, <1>7
  <2>2. /\ v.at < w.at \/ (v.at = w.at /\ Before(w, v))
        /\ w.at < v.at \/ (w.at = v.at /\ Before(v, w))
    BY <1>4, <1>5, <1>6, <2>1 DEF Deduplicate
  <2>3. Before(w, v) /\ Before(v, w)
    BY <1>5, <1>7, <2>2
  <2>4. v \in Candidates(clock) /\ w \in Candidates(clock)
    BY <1>2, <1>5, <2>1 DEF IsList
  <2>5. QED
    BY <2>3, <2>4, BeforeIsStrict
<1>9. Survives(v)'
  <2>1. rule.ignoreEditedComments => ~v.edited
    BY <1>4, <1>8 DEF Survives
  <2>2. ASSUME rule.invalidateOnPush, FilteredCommits(rule, head) # {}
        PROVE  v.at > Times(head, statusAt', clock')[MostRecent(rule, head)]
    <3> DEFINE m == MostRecent(rule, head)
    <3>1. m \in Shas
      BY <2>2, FilteredAreCommits
    <3>2. w.at > Times(head, statusAt, clock)[m]
      BY <1>4, <2>2 DEF Survives
    <3> HIDE DEF m
    <3>3. w.at > Times(head, statusAt', clock')[m]
      BY <1>5, <1>7, <3>1, <3>2, HarmlessKeepsTimes
    <3>4. Times(head, statusAt', clock')[m] \in Nat
      <4>1. statusAt' \in [Shas -> Nat]
        <5>1. (RuleInv => head \in Shas /\ statusAt \in [Shas -> Nat] /\ clock \in Nat)'
          BY TimesOfRule, PTL
        <5>2. QED
          BY <5>1
      <4>2. head \in Shas
        BY TimesOfRule
      <4>3. Times(head, statusAt', clock') \in [Shas -> Nat]
        BY <1>7, <4>1, <4>2, TimesAre
      <4>4. QED
        BY <3>1, <4>3 DEF m
    <3>5. QED
      BY <1>5, <1>6, <1>7, <3>3, <3>4 DEF m
  <2>3. QED
    BY <1>1, <2>1, <2>2 DEF Survives
<1>10. v \in FilteredCandidates'
  <2>1. (FilteredCandidates = Survivors)'
    BY FilteredAre, PTL
  <2>2. QED
    BY <1>6, <1>9, <2>1 DEF Survivors
<1>11. Banned' = Banned
  BY <1>1 DEF Banned
<1>12. QED
  BY <1>1, <1>4, <1>6, <1>10, <1>11 DEF Approvers

OneEach(S) == IsFiniteSet(S) /\ Cardinality(People(S)) = Cardinality(S)

LEMMA ApproversAreCounted == RuleInv => OneEach(Approvers)
BY ApproversAreFiltered DEF OneEach

(* Time, reports, new comments and new reviews that do not request changes  *)
(* never take an approval away, for any commits, people and rules           *)
(* (Rule.Evaluate).                                                         *)
THEOREM RevocationsHaveACause == Spec => RevocationHasACause
<1>1. ASSUME RuleInv, RuleInv', Verdict = "approved", Harmless
      PROVE  Verdict' = "approved"
  <2>1. /\ UNCHANGED <<rule, head, facts>> /\ rule.count \in Nat
        /\ \A k \in rule.predicates \union rule.conditions : facts[k]
        /\ rule.count > 0 => Cardinality(Approvers) >= rule.count
    BY <1>1, HarmlessIs, ApprovedIs DEF Verdict, IsApproved
  <2>2. People(Approvers) \subseteq People(Approvers')
    BY <1>1, HarmlessKeepsApprovers DEF People
  <2>3. IsFiniteSet(Approvers') /\ Cardinality(People(Approvers')) = Cardinality(Approvers')
    <3>1. (RuleInv => OneEach(Approvers))'
      BY ApproversAreCounted, PTL
    <3>2. QED
      BY <1>1, <3>1 DEF OneEach
  <2>4. Cardinality(People(Approvers)) = Cardinality(Approvers)
    BY <1>1, ApproversAreFiltered
  <2>5. IsFiniteSet(People(Approvers'))
    BY <2>3, PeopleAreFewer
  <2>6. /\ Cardinality(People(Approvers)) <= Cardinality(People(Approvers'))
        /\ Cardinality(People(Approvers)) \in Nat /\ Cardinality(People(Approvers')) \in Nat
    BY <2>2, <2>5, FS_Subset, FS_CardinalityType
  <2>7. rule.count > 0 => Cardinality(Approvers') >= rule.count
    BY <2>1, <2>3, <2>4, <2>6
  <2>8. QED
    BY <2>1, <2>7 DEF Verdict, IsApproved
<1>2. RuleInv /\ RuleInv' => (Verdict = "approved" /\ Verdict' # "approved" => ~Harmless)
  BY <1>1
<1>3. QED
  BY <1>2, RuleInvAlways, PTL DEF RevocationHasACause

-----------------------------------------------------------------------------
(***************************************************************************)
(* What policy-bot dismisses.                                              *)
(***************************************************************************)
(* Reviews that do more than comment do not count as comments. *)
LEMMA OthersComment ==
  ASSUME reviews \in Seq(Reviews), NEW i \in 1..Len(reviews), Len(reviews') = Len(reviews),
         \A j \in 1..Len(reviews) : j # i => reviews'[j] = reviews[j],
         reviews[i].state # "commented", reviews'[i].state # "commented", UNCHANGED rule
  PROVE  UNCHANGED ByCommenting
<1> DEFINE commented(r) == r.text = "approval" /\ r.state = "commented"
<1>1. /\ ToSet(reviews') = {reviews'[j] : j \in 1..Len(reviews)}
      /\ ToSet(reviews) = {reviews[j] : j \in 1..Len(reviews)}
  BY DEF ToSet
<1>2. \A j \in 1..Len(reviews) : /\ commented(reviews[j]) <=> commented(reviews'[j])
                                 /\ commented(reviews[j]) => reviews'[j] = reviews[j]
  OBVIOUS
<1>3. ByCommenting =
        IF rule.comments THEN {Candidate("commented", j, reviews[j]) :
                                 j \in {k \in 1..Len(reviews) : commented(reviews[k])}}
        ELSE {}
  BY <1>1 DEF ByCommenting, Chosen
<1>4. ByCommenting' =
        IF rule.comments THEN {Candidate("commented", j, reviews'[j]) :
                                 j \in {k \in 1..Len(reviews) : commented(reviews'[k])}}
        ELSE {}
  BY <1>1 DEF ByCommenting, Chosen
<1> HIDE DEF commented
<1>5. QED
  BY <1>2, <1>3, <1>4

(* A dismissed review is the one candidate that goes. *)
LEMMA DismissalsRemoveOne ==
  ASSUME RuleInv, NEW i \in 1..Len(reviews), NEW c \in Matching, c.kind = "review", c.id = i,
         reviews' = [reviews EXCEPT ![i].state = "dismissed"],
         UNCHANGED <<rule, comments, body>>
  PROVE  Matching' = Matching \ {c}
<1> DEFINE approves(r) == r.state = "approved" /\ (rule.reviewPatterns => r.text = "approval")
<1>1. /\ reviews \in Seq(Reviews) /\ Len(reviews') = Len(reviews)
      /\ \A j \in 1..Len(reviews) : j # i => reviews'[j] = reviews[j]
      /\ reviews'[i].state = "dismissed"
      /\ ToSet(reviews') = {reviews'[j] : j \in 1..Len(reviews)}
      /\ ToSet(reviews) = {reviews[j] : j \in 1..Len(reviews)}
  <2>1. reviews \in Seq(Reviews) /\ reviews[i] \in Reviews
    BY RuleTypes DEF RuleInv, TypeOK
  <2>2. Len(reviews') = Len(reviews) /\ DOMAIN reviews' = 1..Len(reviews)
        /\ \A j \in 1..Len(reviews) : j # i => reviews'[j] = reviews[j]
    BY <2>1
  <2>3. reviews'[i].state = "dismissed"
    BY <2>1 DEF Reviews
  <2>4. QED
    BY <2>1, <2>2, <2>3 DEF ToSet
<1>2. /\ Matching = ((ByComment \union ByCommenting) \union ByBody) \union ByReview
      /\ Matching' = ((ByComment' \union ByCommenting') \union ByBody') \union ByReview'
  <2>1. (Matching = ((ByComment \union ByCommenting) \union ByBody) \union ByReview)'
    BY MatchingHas, PTL
  <2>2. QED
    BY <2>1, MatchingHas
<1>3. UNCHANGED <<ByComment, ByBody>>
  BY DEF ByComment, ByBody, Description
<1>4. /\ \A d \in ByComment : d.kind = "comment"
      /\ \A d \in ByCommenting : d.kind = "commented"
      /\ \A d \in ByBody : d.kind = "body"
  BY DEF ByComment, ByCommenting, ByBody, Chosen, Candidate
<1>5. c \in ByReview
  BY <1>2, <1>4
<1>6. /\ rule.githubReview \/ rule.reviewPatterns
      /\ reviews[i].state = "approved" /\ c = Candidate("review", i, reviews[i])
  BY <1>5 DEF ByReview, Chosen, Candidate, Approves
<1>7. ByCommenting' = ByCommenting
  BY <1>1, <1>6, OthersComment
<1>8. ByReview' = ByReview \ {c}
  <2>1. \A j \in 1..Len(reviews) :
          /\ j # i => reviews'[j] = reviews[j]
          /\ j # i => (approves(reviews[j]) <=> approves(reviews'[j]))
    BY <1>1
  <2>2. ~approves(reviews'[i])
    BY <1>1
  <2>3. ByReview = {Candidate("review", j, reviews[j]) :
                      j \in {k \in 1..Len(reviews) : approves(reviews[k])}}
    BY <1>1, <1>6 DEF ByReview, Chosen, Approves
  <2>4. ByReview' = {Candidate("review", j, reviews'[j]) :
                       j \in {k \in 1..Len(reviews) : approves(reviews'[k])}}
    <3>1. ByReview' = Chosen("review", reviews', {r \in ToSet(reviews') : approves(r)})
      BY <1>6 DEF ByReview, Approves
    <3> HIDE DEF approves
    <3>2. QED
      BY <1>1, <3>1 DEF Chosen
  <2>5. \A j \in 1..Len(reviews) : Candidate("review", j, reviews[j]).id = j
    BY DEF Candidate
  <2> HIDE DEF approves
  <2>6. QED
    BY <1>6, <2>1, <2>2, <2>3, <2>4, <2>5
<1>9. QED
  BY <1>2, <1>3, <1>4, <1>6, <1>7, <1>8

(* Without the user's latest candidate, which a push made stale, the        *)
(* user's older ones, which are as stale, change nothing.                   *)
LEMMA StaleDismissals ==
  ASSUME RuleInv, RuleInv', ~rule.ignoreEditedComments, NEW i \in 1..Len(reviews), DismissStale(i)
  PROVE  Approvers' = Approvers
<1>1. /\ UNCHANGED <<rule, head, comments, body, statusAt, clock>>
      /\ reviews' = [reviews EXCEPT ![i].state = "dismissed"]
  BY DEF DismissStale
<1>2. PICK c \in Deduplicate(Matching) :
        c \notin FilteredCandidates /\ c.kind = "review" /\ c.id = i
  BY DEF DismissStale, Dismissals
<1>3. c \in Matching /\ Matching' = Matching \ {c}
  <2>1. c \in Matching
    BY <1>2 DEF Deduplicate
  <2>2. QED
    BY <1>1, <1>2, <2>1, DismissalsRemoveOne
<1> DEFINE pushed == Times(head, statusAt, clock)[MostRecent(rule, head)]
<1>4. FilteredCandidates = Survivors /\ FilteredCandidates' = Survivors'
  <2>1. (FilteredCandidates = Survivors)'
    BY FilteredAre, PTL
  <2>2. QED
    BY <2>1, FilteredAre
<1>5. ~Survives(c)
  BY <1>2, <1>4 DEF Survivors
<1>6. /\ rule.invalidateOnPush /\ FilteredCommits(rule, head) # {} /\ ~(c.at > pushed)
      /\ \A w : Survives(w)' <=> Survives(w)
      /\ \A w : Survives(w) => w.at > pushed
  BY <1>1, <1>5 DEF Survives
<1>7. pushed \in Nat
  <2> DEFINE m == MostRecent(rule, head)
  <2>1. m \in Shas
    BY <1>6, FilteredAreCommits
  <2> HIDE DEF m
  <2>2. Times(head, statusAt, clock)[m] \in Nat
    BY <2>1, TimesOfRule, TimesAre
  <2>3. QED
    BY <2>2 DEF m
<1>8. \A d \in Matching : d.at \in Nat
  BY MatchingIs DEF IsList, Candidates
<1> HIDE DEF pushed
<1>9. Survivors' = Survivors
  <2>1. ASSUME NEW w \in Survivors PROVE w \in Survivors'
    <3>1. w # c /\ w \in Deduplicate(Matching) /\ Survives(w)
      BY <1>5, <2>1 DEF Survivors
    <3>2. w \in Deduplicate(Matching')
      BY <1>3, <3>1 DEF Deduplicate
    <3>3. QED
      BY <1>6, <3>1, <3>2 DEF Survivors
  <2>2. ASSUME NEW v \in Survivors' PROVE v \in Survivors
    <3>1. v \in Deduplicate(Matching') /\ v \in Matching /\ v # c /\ Survives(v)
      BY <1>3, <1>6, <2>2 DEF Survivors, Deduplicate
    <3>2. v.user # c.user
      <4>1. SUFFICES ASSUME v.user = c.user PROVE FALSE
        OBVIOUS
      <4>2. v.at <= c.at
        BY <1>2, <1>3, <1>8, <3>1, <4>1 DEF Deduplicate
      <4>3. v.at > pushed
        BY <1>6, <3>1
      <4>4. QED
        BY <1>3, <1>6, <1>7, <1>8, <3>1, <4>2, <4>3
    <3>3. v \in Deduplicate(Matching)
      BY <1>3, <3>1, <3>2 DEF Deduplicate
    <3>4. QED
      BY <3>1, <3>3 DEF Survivors
  <2>3. QED
    BY <2>1, <2>2
<1>10. Banned' = Banned
  BY <1>1 DEF Banned
<1>11. QED
  BY <1>1, <1>4, <1>9, <1>10 DEF Approvers

(* Dismissing stale reviews changes nobody's approval, for any commits,     *)
(* people and rules but those that ignore edited comments: of these, an     *)
(* edited approval that is dismissed no longer hides the user's earlier     *)
(* ones (dismissStaleReviewsForResult).                                     *)
THEOREM DismissalsLeaveApprovalsAlone ==
  (\A r \in Rules : ~r.ignoreEditedComments) /\ EventSpec => DismissalsChangeNoApproval
<1>1. ASSUME \A r \in Rules : ~r.ignoreEditedComments, RuleInv, RuleInv',
             NEW i \in 1..Len(reviews), DismissStale(i)
      PROVE  Approvers' = Approvers
  <2>1. ~rule.ignoreEditedComments
    BY <1>1 DEF RuleInv, TypeOK
  <2>2. QED
    BY <1>1, <2>1, StaleDismissals
<1>2. ASSUME \A r \in Rules : ~r.ignoreEditedComments
      PROVE  EventSpec => DismissalsChangeNoApproval
  <2>1. RuleInv /\ RuleInv' => ((\E i \in 1..Len(reviews) : DismissStale(i)) =>
                                 {c.user : c \in Approvers'} = {c.user : c \in Approvers})
    BY <1>1, <1>2
  <2>2. QED
    BY <2>1, RuleInvWithDismissals, PTL DEF DismissalsChangeNoApproval
<1>3. QED
  BY <1>2

-----------------------------------------------------------------------------
(***************************************************************************)
(* Which webhooks policy-bot may skip.                                     *)
(***************************************************************************)
LEMMA SameApprovers ==
  ASSUME UNCHANGED <<rule, head>>, Matching' = Matching,
         \A w \in Matching : Survives(w)' <=> Survives(w)
  PROVE  Approvers' = Approvers
<1>1. FilteredCandidates = Survivors /\ FilteredCandidates' = Survivors'
  <2>1. (FilteredCandidates = Survivors)'
    BY FilteredAre, PTL
  <2>2. QED
    BY <2>1, FilteredAre
<1>2. Survivors' = Survivors
  <2>1. Deduplicate(Matching) \subseteq Matching
    BY DEF Deduplicate
  <2>2. Deduplicate(Matching') = Deduplicate(Matching)
    OBVIOUS
  <2>3. QED
    BY <2>1, <2>2 DEF Survivors
<1>3. Banned' = Banned
  BY DEF Banned
<1>4. QED
  BY <1>1, <1>2, <1>3 DEF Approvers

(* The verdict depends on the facts and the number of people who approve. *)
LEMMA SameVerdict ==
  ASSUME RuleInv, RuleInv', UNCHANGED rule,
         \A k \in rule.predicates \union rule.conditions : facts'[k] <=> facts[k],
         rule.count > 0 => People(Approvers') = People(Approvers)
  PROVE  Verdict' = Verdict
<1>1. OneEach(Approvers) /\ OneEach(Approvers')
  <2>1. (RuleInv => OneEach(Approvers))'
    BY ApproversAreCounted, PTL
  <2>2. QED
    BY <2>1, ApproversAreCounted
<1>2. rule.count > 0 => Cardinality(Approvers') = Cardinality(Approvers)
  BY <1>1 DEF OneEach
<1>3. IsApproved' <=> IsApproved
  BY <1>2 DEF IsApproved
<1>4. QED
  BY <1>3 DEF Verdict

(* So it does not change with what gives nobody an approval. *)
LEMMA SameMatching ==
  ASSUME RuleInv, RuleInv', UNCHANGED <<rule, head, facts, statusAt, clock>>,
         rule.count > 0 => Matching' = Matching
  PROVE  Verdict' = Verdict
<1>1. \A w : Survives(w)' <=> Survives(w)
  BY DEF Survives
<1>2. rule.count > 0 => Approvers' = Approvers
  BY <1>1, SameApprovers
<1>3. QED
  BY <1>2, SameVerdict

LEMMA SameLists ==
  ASSUME UNCHANGED <<ByComment, ByCommenting, ByBody, ByReview>>
  PROVE  Matching' = Matching
<1>1. (Matching = ((ByComment \union ByCommenting) \union ByBody) \union ByReview)'
  BY MatchingHas, PTL
<1>2. QED
  BY <1>1, MatchingHas

(* What the rule must be for the handlers to hear of all that changes it:   *)
(* one that takes comments takes reviews too and says so, and one with      *)
(* invalidate_on_push ignores no commits.                                   *)
Hears(r) ==
  /\ r.comments => ~r.defaulted /\ (r.githubReview \/ r.reviewPatterns)
  /\ r.invalidateOnPush => ~r.ignoreUpdateMerges /\ r.ignoreCommitsBy = {}

LEMMA CommentsAreHandled ==
  ASSUME RuleInv, RuleInv', NEW u \in Speakers, NEW t \in Texts, Comment(u, t),
         Verdict' # Verdict
  PROVE  HandlesComment(u, u, t, t)
<1>1. UNCHANGED <<rule, head, facts, statusAt, clock>>
  BY DEF Comment, Step
<1>2. ~(rule.count > 0 => Matching' = Matching)
  BY <1>1, SameMatching
<1>3. rule.count > 0 /\ rule.comments /\ t = "approval"
  BY <1>2, CommentsAdd
<1>4. QED
  BY <1>3 DEF HandlesComment, Evaluates, Trigger, Affects

LEMMA ReviewsAreHandled ==
  ASSUME RuleInv, RuleInv', Hears(rule), NEW u \in Speakers, NEW state \in Submissions,
         NEW t \in Texts, Review(u, state, t), Verdict' # Verdict
  PROVE  HandlesReview(state, t)
<1>1. UNCHANGED <<rule, head, facts, statusAt, clock>>
  BY DEF Review, Step
<1>2. ~(rule.count > 0 => Matching' = Matching)
  BY <1>1, SameMatching
<1>3. /\ rule.count > 0 /\ (rule.githubReview \/ rule.reviewPatterns)
      /\ \/ rule.comments /\ t = "approval" /\ state = "commented"
         \/ state = "approved"
  BY <1>2, ReviewsAdd DEF Hears
<1>4. QED
  BY <1>3 DEF HandlesReview, Evaluates, Trigger, Affects

(* An edit of a comment changes its text, and one of two texts matches. *)
LEMMA EditsAreHandled ==
  ASSUME RuleInv, RuleInv', Hears(rule), NEW u \in Speakers, NEW i \in 1..Len(comments),
         NEW t \in Texts, EditComment(u, i, t), Verdict' # Verdict
  PROVE  HandlesComment(u, comments[i].user, t, comments[i].text)
<1>1. /\ UNCHANGED <<rule, head, facts, statusAt, clock, reviews, body>>
      /\ t # comments[i].text /\ comments[i].text \in Texts
  BY RuleTypes DEF EditComment, Step, RuleInv, TypeOK, Comments
<1>2. ~(rule.count > 0 => Matching' = Matching)
  BY <1>1, SameMatching
<1>3. UNCHANGED <<ByCommenting, ByBody, ByReview>>
  BY <1>1 DEF ByCommenting, ByBody, ByReview, Description, Approves
<1>4. ~rule.comments => UNCHANGED ByComment
  BY <1>1 DEF ByComment
<1>5. rule.count > 0 /\ rule.comments
  BY <1>2, <1>3, <1>4, SameLists
<1>6. "approval" \in {t, comments[i].text}
  BY <1>1 DEF Texts
<1>7. QED
  BY <1>5, <1>6 DEF HandlesComment, Evaluates, Trigger, Affects, Hears

LEMMA BodyEditsAreHandled ==
  ASSUME RuleInv, RuleInv', EditBody, Verdict' # Verdict
  PROVE  Evaluates("pull_request")
<1>1. UNCHANGED <<rule, head, facts, statusAt, clock, comments, reviews>>
  BY DEF EditBody, Step
<1>2. ~(rule.count > 0 => Matching' = Matching)
  BY <1>1, SameMatching
<1>3. UNCHANGED <<ByComment, ByCommenting, ByReview>>
  BY <1>1 DEF ByComment, ByCommenting, ByReview, Approves
<1>4. ~rule.bodyPatterns => UNCHANGED ByBody
  BY <1>1 DEF ByBody
<1>5. rule.count > 0 /\ rule.bodyPatterns
  BY <1>2, <1>3, <1>4, SameLists
<1>6. QED
  BY <1>5 DEF Evaluates, Trigger

LEMMA FactsAreHandled ==
  ASSUME RuleInv, RuleInv', NEW k \in Kinds, ChangeFact(k), Verdict' # Verdict
  PROVE  Evaluates(k)
<1>1. /\ UNCHANGED <<rule, head, statusAt, clock, comments, reviews, body>>
      /\ facts' = [facts EXCEPT ![k] = ~facts[k]]
  BY DEF ChangeFact, Step
<1>2. UNCHANGED <<ByComment, ByCommenting, ByBody, ByReview>>
  BY <1>1 DEF ByComment, ByCommenting, ByBody, ByReview, Description, Approves
<1>3. \A w : Survives(w)' <=> Survives(w)
  BY <1>1 DEF Survives
<1>4. Approvers' = Approvers
  BY <1>1, <1>2, <1>3, SameLists, SameApprovers
<1>5. SUFFICES ASSUME k \notin rule.predicates \union rule.conditions PROVE FALSE
  BY DEF Evaluates, Trigger
<1>6. facts \in [Kinds -> BOOLEAN] /\ rule.predicates \union rule.conditions \subseteq Kinds
  BY RuleAssumption DEF RuleInv, TypeOK, RuleType
<1>7. \A j \in rule.predicates \union rule.conditions : facts'[j] <=> facts[j]
  BY <1>1, <1>5, <1>6
<1>8. QED
  BY <1>1, <1>4, <1>7, SameVerdict

(* Another state or text of a review that does not comment.                 *)
LEMMA OthersApprove ==
  ASSUME RuleInv, NEW i \in 1..Len(reviews), NEW r,
         reviews' = [reviews EXCEPT ![i] = r], UNCHANGED <<rule, comments, body>>,
         reviews[i].state # "commented", r.state # "commented",
         \/ ~(rule.githubReview \/ rule.reviewPatterns)
         \/ reviews[i].state # "approved" /\ r.state # "approved"
  PROVE  Matching' = Matching
<1> DEFINE approves(x) == x.state = "approved" /\ (rule.reviewPatterns => x.text = "approval")
<1>1. /\ reviews \in Seq(Reviews) /\ Len(reviews') = Len(reviews) /\ reviews'[i] = r
      /\ \A j \in 1..Len(reviews) : j # i => reviews'[j] = reviews[j]
      /\ ToSet(reviews') = {reviews'[j] : j \in 1..Len(reviews)}
      /\ ToSet(reviews) = {reviews[j] : j \in 1..Len(reviews)}
  <2>1. reviews \in Seq(Reviews)
    BY RuleTypes DEF RuleInv, TypeOK
  <2>2. /\ Len(reviews') = Len(reviews) /\ DOMAIN reviews' = 1..Len(reviews)
        /\ reviews'[i] = r
        /\ \A j \in 1..Len(reviews) : j # i => reviews'[j] = reviews[j]
    BY <2>1
  <2>3. QED
    BY <2>1, <2>2 DEF ToSet
<1>2. UNCHANGED <<ByComment, ByBody>>
  BY DEF ByComment, ByBody, Description
<1>3. UNCHANGED ByCommenting
  BY <1>1, OthersComment
<1>4. CASE ~(rule.githubReview \/ rule.reviewPatterns)
  <2>1. UNCHANGED ByReview
    BY <1>4 DEF ByReview
  <2>2. QED
    BY <1>2, <1>3, <2>1, SameLists
<1>5. CASE /\ rule.githubReview \/ rule.reviewPatterns
           /\ reviews[i].state # "approved" /\ r.state # "approved"
  <2>1. \A j \in 1..Len(reviews) : /\ approves(reviews[j]) <=> approves(reviews'[j])
                                   /\ approves(reviews[j]) => reviews'[j] = reviews[j]
    BY <1>1, <1>5
  <2>2. ByReview = {Candidate("review", j, reviews[j]) :
                      j \in {k \in 1..Len(reviews) : approves(reviews[k])}}
    BY <1>1, <1>5 DEF ByReview, Chosen, Approves
  <2>3. ByReview' = {Candidate("review", j, reviews'[j]) :
                       j \in {k \in 1..Len(reviews) : approves(reviews'[k])}}
    <3>1. ByReview' = Chosen("review", reviews', {x \in ToSet(reviews') : approves(x)})
      BY <1>5 DEF ByReview, Approves
    <3> HIDE DEF approves
    <3>2. QED
      BY <1>1, <3>1 DEF Chosen
  <2> HIDE DEF approves
  <2>4. UNCHANGED ByReview
    BY <2>1, <2>2, <2>3
  <2>5. QED
    BY <1>2, <1>3, <2>4, SameLists
<1>6. QED
  BY <1>4, <1>5

LEMMA DismissalsAreHandled ==
  ASSUME RuleInv, RuleInv', NEW u \in Speakers, NEW i \in 1..Len(reviews),
         DismissReview(u, i), Verdict' # Verdict
  PROVE  HandlesReview("dismissed", reviews[i].text)
<1> DEFINE r == [reviews[i] EXCEPT !.state = "dismissed"]
<1>1. /\ UNCHANGED <<rule, head, facts, statusAt, clock, comments, body>>
      /\ reviews' = [reviews EXCEPT ![i] = r]
      /\ reviews[i].state \in {"approved", "changes_requested"}
  BY DEF DismissReview, Step
<1>2. ~(rule.count > 0 => Matching' = Matching)
  BY <1>1, SameMatching
<1>3. r.state = "dismissed"
  BY RuleTypes DEF RuleInv, TypeOK, Reviews
<1> HIDE DEF r
<1>4. rule.count > 0 /\ (rule.githubReview \/ rule.reviewPatterns)
  BY <1>1, <1>2, <1>3, OthersApprove
<1>5. QED
  BY <1>4 DEF HandlesReview, Evaluates, Trigger

LEMMA ReviewEditsAreHandled ==
  ASSUME RuleInv, RuleInv', "commented" \notin ReviewEdits, NEW i \in 1..Len(reviews),
         NEW t \in Texts, EditReview(i, t), Verdict' # Verdict
  PROVE  HandlesReview(reviews[i].state, t)
<1> DEFINE r == [reviews[i] EXCEPT !.text = t, !.edited = TRUE]
<1>1. /\ UNCHANGED <<rule, head, facts, statusAt, clock, comments, body>>
      /\ reviews' = [reviews EXCEPT ![i] = r]
      /\ reviews[i].state \in ReviewEdits
  BY DEF EditReview, Step
<1>2. ~(rule.count > 0 => Matching' = Matching)
  BY <1>1, SameMatching
<1>3. r.state = reviews[i].state
  BY RuleTypes DEF RuleInv, TypeOK, Reviews
<1> HIDE DEF r
<1>4. /\ rule.count > 0 /\ (rule.githubReview \/ rule.reviewPatterns)
      /\ reviews[i].state = "approved"
  BY <1>1, <1>2, <1>3, OthersApprove
<1>5. QED
  BY <1>4 DEF HandlesReview, Evaluates, Trigger

LEMMA TicksAreHandled == ASSUME RuleInv, RuleInv', Tick PROVE Verdict' = Verdict
<1>1. /\ UNCHANGED <<rule, head, facts, comments, reviews, body, statusAt>>
      /\ clock' = clock + 1
  BY DEF Tick, content
<1>2. UNCHANGED <<ByComment, ByCommenting, ByBody, ByReview>>
  BY <1>1 DEF ByComment, ByCommenting, ByBody, ByReview, Description, Approves
<1>3. ASSUME NEW w \in Matching PROVE Survives(w)' <=> Survives(w)
  <2>1. w.at \in 0..clock /\ clock \in Nat
    BY MatchingIs DEF IsList, Candidates
  <2>2. ASSUME rule.invalidateOnPush, FilteredCommits(rule, head) # {}
        PROVE  w.at > Times(head, statusAt, clock + 1)[MostRecent(rule, head)]
                 <=> w.at > Times(head, statusAt, clock)[MostRecent(rule, head)]
    <3> DEFINE m == MostRecent(rule, head)
    <3>1. m \in Shas
      BY <2>2, FilteredAreCommits
    <3> HIDE DEF m
    <3>2. \/ Times(head, statusAt, clock + 1)[m] = Times(head, statusAt, clock)[m]
          \/ Times(head, statusAt, clock)[m] = clock
             /\ Times(head, statusAt, clock + 1)[m] = clock + 1
      BY <3>1, TimesOfRule, TickKeepsTimes
    <3>3. QED
      BY <2>1, <3>2 DEF m
  <2>3. QED
    BY <1>1, <2>2 DEF Survives
<1>4. Approvers' = Approvers
  BY <1>1, <1>2, <1>3, SameLists, SameApprovers
<1>5. QED
  BY <1>1, <1>4, SameVerdict

(* Of a rule that ignores no commits, the head is the most recent. *)
LEMMA HeadIsMostRecent ==
  ASSUME NEW h \in Shas \ Base, NEW o, ~o.ignoreUpdateMerges, o.ignoreCommitsBy = {}
  PROVE  MostRecent(o, h) = h
<1> DEFINE sorted == Sorted(h)
           commits == FilteredCommits(o, h)
           I == {i \in 1..Len(sorted) : sorted[i] \in commits}
<1>1. PICK f : IsSort(f, CommitsOf(h)) /\ \A x : SortCommits(CommitsOf(h), x) = f[x]
  BY SortIs
<1>2. sorted = IF Parents[h] = <<>> THEN <<h>> ELSE <<h>> \o f[Parents[h][1]]
  BY <1>1, CommitsAre DEF Sorted, IsSort
<1>3. sorted \in Seq(Shas) /\ Len(sorted) >= 1 /\ sorted[1] = h
  <2>1. Parents[h] # <<>> => f[Parents[h][1]] \in Seq(Shas)
    BY <1>1, FirstParent DEF IsSort
  <2>2. <<h>> \in Seq(Shas)
    OBVIOUS
  <2> HIDE DEF sorted
  <2>3. CASE Parents[h] = <<>>
    BY <1>2, <2>2, <2>3
  <2>4. CASE Parents[h] # <<>>
    BY <1>2, <2>1, <2>2, <2>4
  <2>5. QED
    BY <2>3, <2>4
<1>4. h \in commits
  BY <1>3 DEF FilteredCommits, IsIgnoredCommit, ToSet
<1>5. MostRecent(o, h) = sorted[IF I # {} THEN Min(I) ELSE 0]
  BY DEF MostRecent, SelectInSeq
<1> HIDE DEF sorted, commits
<1>6. 1 \in I /\ I \subseteq Nat /\ \A i \in I : i >= 1
  BY <1>3, <1>4
<1>7. Min(I) \in I /\ Min(I) <= 1
  BY <1>6, MinOfNaturals
<1>8. Min(I) = 1
  BY <1>6, <1>7
<1>9. QED
  BY <1>3, <1>5, <1>6, <1>8

(* The head's first status has the time that was taken for it. *)
LEMMA ReportsChangeNothing ==
  ASSUME RuleInv, RuleInv', Hears(rule), NEW s \in Shas, Report(s)
  PROVE  Verdict' = Verdict
<1>1. /\ UNCHANGED <<rule, head, facts, comments, reviews, body, clock>>
      /\ statusAt[s] = 0 /\ statusAt' = [statusAt EXCEPT ![s] = clock]
  BY DEF Report, content
<1>2. UNCHANGED <<ByComment, ByCommenting, ByBody, ByReview>>
  BY <1>1 DEF ByComment, ByCommenting, ByBody, ByReview, Description, Approves
<1>3. rule.invalidateOnPush =>
        Times(head, statusAt', clock)[MostRecent(rule, head)]
        = Times(head, statusAt, clock)[MostRecent(rule, head)]
  <2> SUFFICES ASSUME rule.invalidateOnPush
               PROVE  Times(head, statusAt', clock)[MostRecent(rule, head)]
                      = Times(head, statusAt, clock)[MostRecent(rule, head)]
    OBVIOUS
  <2>1. MostRecent(rule, head) = head
    BY HeadIs, HeadIsMostRecent DEF Hears
  <2>2. head \in Shas /\ statusAt \in [Shas -> Nat] /\ clock \in Nat /\ clock >= 1
    BY TimesOfRule DEF RuleInv
  <2>3. statusAt' \in [Shas -> Nat]
    BY <1>1, <2>2
  <2>4. Times(head, statusAt, clock)[head]
        = TimeOf(Times(head, statusAt, clock), head, statusAt, clock, head)
    BY <2>2, TimesAre
  <2>5. Times(head, statusAt', clock)[head]
        = TimeOf(Times(head, statusAt', clock), head, statusAt', clock, head)
    BY <2>2, <2>3, TimesAre
  <2>6. CASE s = head
    BY <1>1, <2>1, <2>2, <2>4, <2>5, <2>6 DEF TimeOf
  <2>7. CASE s # head
    BY <1>1, <2>1, <2>2, <2>4, <2>5, <2>7 DEF TimeOf
  <2>8. QED
    BY <2>6, <2>7
<1>4. \A w : Survives(w)' <=> Survives(w)
  BY <1>1, <1>3 DEF Survives
<1>5. Approvers' = Approvers
  BY <1>1, <1>2, <1>4, SameLists, SameApprovers
<1>6. QED
  BY <1>1, <1>5, SameVerdict

LEMMA RemoveAtIs ==
  ASSUME NEW S, NEW s \in Seq(S), NEW i \in 1..Len(s)
  PROVE  /\ Len(RemoveAt(s, i)) = Len(s) - 1
         /\ \A j \in 1..(Len(s) - 1) : RemoveAt(s, i)[j] = IF j < i THEN s[j] ELSE s[j + 1]
<1> DEFINE a == SubSeq(s, 1, i - 1)
           b == SubSeq(s, i + 1, Len(s))
<1>1. Len(s) \in Nat /\ i \in Nat /\ i >= 1 /\ i <= Len(s)
  OBVIOUS
<1>2. a \in Seq(S) /\ Len(a) = i - 1 /\ \A j \in 1..(i - 1) : a[j] = s[j]
  BY <1>1, SubSeqProperties
<1>3. b \in Seq(S) /\ Len(b) = Len(s) - i /\ \A j \in 1..(Len(s) - i) : b[j] = s[i + j]
  BY <1>1, SubSeqProperties
<1>4. RemoveAt(s, i) = a \o b
  BY DEF RemoveAt
<1> HIDE DEF a, b
<1>5. /\ Len(a \o b) = Len(s) - 1
      /\ \A j \in 1..(Len(s) - 1) : (a \o b)[j] = IF j <= i - 1 THEN a[j] ELSE b[j - (i - 1)]
  <2>1. /\ Len(a \o b) = Len(a) + Len(b)
        /\ \A j \in 1..(Len(a) + Len(b)) :
             (a \o b)[j] = IF j <= Len(a) THEN a[j] ELSE b[j - Len(a)]
    BY <1>2, <1>3, ConcatProperties
  <2>2. Len(a) + Len(b) = Len(s) - 1
    BY <1>1, <1>2, <1>3
  <2>3. QED
    BY <1>2, <2>1, <2>2
<1> DEFINE r == a \o b
<1>6. RemoveAt(s, i) = r
  BY <1>4
<1>7. Len(r) = Len(s) - 1
      /\ \A j \in 1..(Len(s) - 1) : r[j] = IF j <= i - 1 THEN a[j] ELSE b[j - (i - 1)]
  BY <1>5
<1> HIDE DEF r
<1>8. ASSUME NEW n \in Nat, n = Len(s), NEW j \in 1..(n - 1)
      PROVE  r[j] = IF j < i THEN s[j] ELSE s[j + 1]
  <2>1. CASE j < i
    <3>1. j <= i - 1 /\ j \in 1..(i - 1)
      BY <1>1, <1>8, <2>1
    <3>2. QED
      BY <1>2, <1>7, <1>8, <2>1, <3>1
  <2>2. CASE ~(j < i)
    <3>1. r[j] = b[j - (i - 1)]
      BY <1>1, <1>7, <1>8, <2>2
    <3> DEFINE k == j - (i - 1)
    <3>2. k \in 1..(Len(s) - i) /\ i + k = j + 1
      BY <1>1, <1>8, <2>2
    <3> HIDE DEF k
    <3>3. b[k] = s[j + 1]
      BY <1>3, <3>2
    <3>4. QED
      BY <2>2, <3>1, <3>3 DEF k
  <2>3. QED
    BY <2>1, <2>2
<1>9. QED
  BY <1>1, <1>6, <1>7, <1>8

(* Without comment i, those after it are one place earlier. *)
Renumbered(i, c) == IF c.kind = "comment" /\ c.id > i THEN [c EXCEPT !.id = c.id - 1] ELSE c

LEMMA RenumberedIs ==
  ASSUME NEW t, NEW all, IsList(all, t), NEW i \in Nat,
         \A c \in all : ~(c.kind = "comment" /\ c.id = i), NEW c \in all
  PROVE  /\ Renumbered(i, c).kind = c.kind
         /\ Renumbered(i, c).id = IF c.kind = "comment" /\ c.id > i THEN c.id - 1 ELSE c.id
         /\ Renumbered(i, c).user = c.user /\ Renumbered(i, c).at = c.at
         /\ Renumbered(i, c).edited = c.edited
BY DEF IsList, Candidates, Renumbered

LEMMA RenumberedInOrder ==
  ASSUME NEW t, NEW all, IsList(all, t), NEW i \in Nat,
         \A c \in all : ~(c.kind = "comment" /\ c.id = i), NEW c \in all, NEW d \in all
  PROVE  /\ Renumbered(i, c) = Renumbered(i, d) => c = d
         /\ Before(Renumbered(i, c), Renumbered(i, d)) <=> Before(c, d)
<1>1. /\ Renumbered(i, c).kind = c.kind /\ Renumbered(i, d).kind = d.kind
      /\ Renumbered(i, c).id = IF c.kind = "comment" /\ c.id > i THEN c.id - 1 ELSE c.id
      /\ Renumbered(i, d).id = IF d.kind = "comment" /\ d.id > i THEN d.id - 1 ELSE d.id
  BY RenumberedIs
<1>2. /\ c.id \in Nat /\ d.id \in Nat
      /\ ~(c.kind = "comment" /\ c.id = i) /\ ~(d.kind = "comment" /\ d.id = i)
  BY DEF IsList, Candidates
<1>3. c.kind = d.kind =>
        /\ Renumbered(i, c).id = Renumbered(i, d).id => c.id = d.id
        /\ Renumbered(i, c).id < Renumbered(i, d).id <=> c.id < d.id
  BY <1>1, <1>2
<1>4. Renumbered(i, c) = Renumbered(i, d) => c = d
  BY <1>1, <1>3 DEF IsList
<1>5. Before(Renumbered(i, c), Renumbered(i, d)) <=> Before(c, d)
  BY <1>1, <1>3 DEF Before
<1>6. QED
  BY <1>4, <1>5

(* Candidates that only move up in their list. *)
LEMMA RenumberingKeepsWinners ==
  ASSUME NEW t, NEW all, IsList(all, t), NEW i \in Nat,
         \A c \in all : ~(c.kind = "comment" /\ c.id = i)
  PROVE  Deduplicate({Renumbered(i, c) : c \in all}) = {Renumbered(i, c) : c \in Deduplicate(all)}
<1> DEFINE f(c) == Renumbered(i, c)
           new == {f(c) : c \in all}
<1>1. \A c \in all : f(c).user = c.user /\ f(c).at = c.at
  BY RenumberedIs
<1>2. \A c, d \in all : (f(c) = f(d) => c = d) /\ (Before(f(c), f(d)) <=> Before(c, d))
  BY RenumberedInOrder
<1> HIDE DEF f
<1>3. ASSUME NEW c \in all PROVE f(c) \in Deduplicate(new) <=> c \in Deduplicate(all)
  <2>1. \A d \in all :
          (f(d).user = f(c).user /\ f(d) # f(c) =>
             f(d).at < f(c).at \/ (f(d).at = f(c).at /\ Before(f(c), f(d))))
          <=> (d.user = c.user /\ d # c =>
                 d.at < c.at \/ (d.at = c.at /\ Before(c, d)))
    BY <1>1, <1>2, <1>3
  <2>2. QED
    BY <1>3, <2>1 DEF Deduplicate
<1>4. Deduplicate(new) \subseteq new /\ Deduplicate(all) \subseteq all
  BY DEF Deduplicate
<1>5. Deduplicate(new) = {f(c) : c \in Deduplicate(all)}
  BY <1>3, <1>4
<1>6. QED
  BY <1>5 DEF f

LEMMA DeletionsRenumber ==
  ASSUME RuleInv, NEW i \in 1..Len(comments), comments' = RemoveAt(comments, i),
         comments[i].text # "approval", UNCHANGED <<rule, reviews, body>>
  PROVE  /\ Matching' = {Renumbered(i, c) : c \in Matching}
         /\ \A c \in Matching : ~(c.kind = "comment" /\ c.id = i)
<1> DEFINE approves(c) == c.text = "approval"
           n == Len(comments)
<1>1. /\ comments \in Seq(Comments) /\ n \in Nat /\ i \in 1..n
      /\ comments' \in Seq(Comments) /\ Len(comments') = n - 1
      /\ \A j \in 1..(n - 1) : comments'[j] = IF j < i THEN comments[j] ELSE comments[j + 1]
  <2>1. comments \in Seq(Comments) /\ n \in Nat
    BY RuleTypes DEF RuleInv, TypeOK
  <2>2. comments' \in Seq(Comments)
    BY <2>1, RemoveAtKeepsType
  <2>3. /\ Len(RemoveAt(comments, i)) = n - 1
        /\ \A j \in 1..(n - 1) :
             RemoveAt(comments, i)[j] = IF j < i THEN comments[j] ELSE comments[j + 1]
    BY <2>1, RemoveAtIs
  <2>4. QED
    BY <2>1, <2>2, <2>3
<1>2. UNCHANGED <<ByCommenting, ByBody, ByReview>>
  BY DEF ByCommenting, ByBody, ByReview, Description, Approves
<1>3. \A c \in ByCommenting \union ByBody \union ByReview :
        c.kind # "comment" /\ Renumbered(i, c) = c
  BY DEF ByCommenting, ByBody, ByReview, Chosen, Candidate, Renumbered
<1>4. ByComment = IF rule.comments
                  THEN {Candidate("comment", j, comments[j]) :
                          j \in {k \in 1..n : approves(comments[k])}}
                  ELSE {}
  <2>1. ByComment = IF rule.comments
                    THEN Chosen("comment", comments, {c \in ToSet(comments) : approves(c)})
                    ELSE {}
    BY DEF ByComment
  <2>2. ToSet(comments) = {comments[j] : j \in 1..n}
    BY <1>1 DEF ToSet
  <2> HIDE DEF approves
  <2>3. QED
    BY <2>1, <2>2 DEF Chosen
<1>5. ByComment' = IF rule.comments
                   THEN {Candidate("comment", j, comments'[j]) :
                           j \in {k \in 1..(n - 1) : approves(comments'[k])}}
                   ELSE {}
  <2>1. ByComment' = IF rule.comments
                     THEN Chosen("comment", comments', {c \in ToSet(comments') : approves(c)})
                     ELSE {}
    BY DEF ByComment
  <2>2. ToSet(comments') = {comments'[j] : j \in 1..(n - 1)}
    BY <1>1 DEF ToSet
  <2> HIDE DEF approves
  <2>3. QED
    BY <1>1, <2>1, <2>2 DEF Chosen
<1>6. ~approves(comments[i])
  OBVIOUS
<1> HIDE DEF approves, n
<1>7. \A c \in ByComment : ~(c.kind = "comment" /\ c.id = i)
  BY <1>4, <1>6 DEF Candidate
<1>8. \A j \in 1..n : Renumbered(i, Candidate("comment", j, comments[j]))
                        = Candidate("comment", IF j > i THEN j - 1 ELSE j, comments[j])
  BY <1>1 DEF Renumbered, Candidate
<1>9. ByComment' = {Renumbered(i, c) : c \in ByComment}
  <2>1. ASSUME rule.comments, NEW c \in ByComment PROVE Renumbered(i, c) \in ByComment'
    <3>1. PICK j \in 1..n : approves(comments[j]) /\ c = Candidate("comment", j, comments[j])
      BY <1>4, <2>1
    <3>2. j # i
      BY <1>6, <3>1
    <3> DEFINE k == IF j > i THEN j - 1 ELSE j
    <3>3. k \in 1..(n - 1) /\ comments'[k] = comments[j]
      BY <1>1, <3>2
    <3>4. Renumbered(i, c) = Candidate("comment", k, comments'[k])
      BY <1>8, <3>1, <3>3
    <3> HIDE DEF k
    <3>5. QED
      BY <1>5, <2>1, <3>1, <3>3, <3>4
  <2>2. ASSUME rule.comments, NEW c \in ByComment'
        PROVE  c \in {Renumbered(i, d) : d \in ByComment}
    <3>1. PICK k \in 1..(n - 1) : approves(comments'[k])
                                  /\ c = Candidate("comment", k, comments'[k])
      BY <1>5, <2>2
    <3> DEFINE j == IF k < i THEN k ELSE k + 1
    <3>2. j \in 1..n /\ comments[j] = comments'[k] /\ (IF j > i THEN j - 1 ELSE j) = k
      BY <1>1
    <3> HIDE DEF j
    <3>3. Candidate("comment", j, comments[j]) \in ByComment
      BY <1>4, <2>2, <3>1, <3>2
    <3>4. c = Renumbered(i, Candidate("comment", j, comments[j]))
      BY <1>8, <3>1, <3>2
    <3>5. QED
      BY <3>3, <3>4
  <2>3. CASE rule.comments
    BY <2>1, <2>2, <2>3
  <2>4. CASE ~rule.comments
    BY <1>4, <1>5, <2>4
  <2>5. QED
    BY <2>3, <2>4
<1>10. (Matching = ((ByComment \union ByCommenting) \union ByBody) \union ByReview)'
  BY MatchingHas, PTL
<1>11. QED
  BY <1>2, <1>3, <1>7, <1>9, <1>10, MatchingHas

LEMMA DeletionsAreHandled ==
  ASSUME RuleInv, RuleInv', Hears(rule), NEW u \in Speakers, NEW i \in 1..Len(comments),
         DeleteComment(u, i), Verdict' # Verdict
  PROVE  HandlesComment(u, comments[i].user, comments[i].text, comments[i].text)
<1>1. /\ UNCHANGED <<rule, head, facts, statusAt, clock, reviews, body>>
      /\ comments' = RemoveAt(comments, i)
  BY DEF DeleteComment, Step
<1>2. UNCHANGED <<ByCommenting, ByBody, ByReview>>
  BY <1>1 DEF ByCommenting, ByBody, ByReview, Description, Approves
<1>3. ~(rule.count > 0 => Matching' = Matching)
  BY <1>1, SameMatching
<1>4. rule.count > 0 /\ rule.comments
  <2>1. ~rule.comments => UNCHANGED ByComment
    BY <1>1 DEF ByComment
  <2>2. QED
    BY <1>2, <1>3, <2>1, SameLists
<1>5. ASSUME comments[i].text # "approval" PROVE FALSE
  <2> DEFINE f(c) == Renumbered(i, c)
  <2>1. /\ Matching' = {f(c) : c \in Matching}
        /\ \A c \in Matching : ~(c.kind = "comment" /\ c.id = i)
    BY <1>1, <1>5, DeletionsRenumber
  <2>2. IsList(Matching, clock) /\ i \in Nat
    BY MatchingIs
  <2>3. \A c \in Matching : /\ f(c).user = c.user /\ f(c).at = c.at
                            /\ f(c).edited = c.edited
    BY <2>1, <2>2, RenumberedIs
  <2>4. Deduplicate(Matching') = {f(c) : c \in Deduplicate(Matching)}
    BY <2>1, <2>2, RenumberingKeepsWinners
  <2> HIDE DEF f
  <2>5. Deduplicate(Matching) \subseteq Matching
    BY DEF Deduplicate
  <2>6. \A w : Survives(w)' <=> Survives(w)
    BY <1>1 DEF Survives
  <2>7. \A c \in Matching : Survives(f(c)) <=> Survives(c)
    BY <2>3 DEF Survives
  <2>8. FilteredCandidates = Survivors /\ FilteredCandidates' = Survivors'
    <3>1. (FilteredCandidates = Survivors)'
      BY FilteredAre, PTL
    <3>2. QED
      BY <3>1, FilteredAre
  <2>9. Banned' = Banned
    BY <1>1 DEF Banned
  <2>10. Survivors' = {f(c) : c \in Survivors}
    <3>1. Survivors' = {w \in Deduplicate(Matching') : Survives(w)}
      BY <2>6 DEF Survivors
    <3>2. QED
      BY <2>4, <2>5, <2>7, <3>1 DEF Survivors
  <2>11. Survivors \subseteq Matching
    BY <2>5 DEF Survivors
  <2>12. Approvers' = {f(c) : c \in Approvers} /\ Approvers \subseteq Matching
    BY <1>1, <2>3, <2>8, <2>9, <2>10, <2>11 DEF Approvers
  <2>13. People(Approvers') = People(Approvers)
    BY <2>3, <2>12 DEF People
  <2>14. QED
    BY <1>1, <2>13, SameVerdict
<1>6. QED
  BY <1>4, <1>5 DEF HandlesComment, Evaluates, Trigger, Affects, Hears

(* Whatever changes the verdict is heard: policy-bot posts a new status, or *)
(* what happened is no change, for any commits, people and facts, and for   *)
(* rules without the gaps that Hears and ReviewEdits exclude           *)
(* (IssueComment.Handle, PullRequestReview.Handle, Rule.Trigger).           *)
THEOREM ChangesAreHandled ==
  (\A r \in Rules : Hears(r)) /\ "commented" \notin ReviewEdits /\ EventSpec
    => VerdictChangesAreHandled
<1>1. ASSUME \A r \in Rules : Hears(r), "commented" \notin ReviewEdits,
             RuleInv, RuleInv', Verdict' # Verdict
      PROVE  Handled
  <2>1. Hears(rule)
    BY <1>1 DEF RuleInv, TypeOK
  <2>2. (\E s \in Shas : Push(s)) => Evaluates("commit")
    BY DEF Evaluates, Trigger
  <2>3. ~\E s \in Shas : Report(s)
    BY <1>1, <2>1, ReportsChangeNothing
  <2>4. \A u \in Speakers, t \in Texts : Comment(u, t) => HandlesComment(u, u, t, t)
    BY <1>1, CommentsAreHandled
  <2>5. \A u \in Speakers, i \in 1..Len(comments) :
          LET c == comments[i]
          IN  /\ DeleteComment(u, i) => HandlesComment(u, c.user, c.text, c.text)
              /\ \A t \in Texts : EditComment(u, i, t) => HandlesComment(u, c.user, t, c.text)
    BY <1>1, <2>1, DeletionsAreHandled, EditsAreHandled
  <2>6. \A u \in Speakers, state \in Submissions, t \in Texts :
          Review(u, state, t) => HandlesReview(state, t)
    BY <1>1, <2>1, ReviewsAreHandled
  <2>7. \A i \in 1..Len(reviews) :
          LET r == reviews[i]
          IN  /\ (\E u \in Speakers : DismissReview(u, i)) => HandlesReview("dismissed", r.text)
              /\ \A t \in Texts : EditReview(i, t) => HandlesReview(r.state, t)
    BY <1>1, DismissalsAreHandled, ReviewEditsAreHandled
  <2>8. EditBody => Evaluates("pull_request")
    BY <1>1, BodyEditsAreHandled
  <2>9. \A k \in Kinds : ChangeFact(k) => Evaluates(k)
    BY <1>1, FactsAreHandled
  <2>10. ~Tick
    BY <1>1, TicksAreHandled
  <2>11. QED
    BY <2>2, <2>3, <2>4, <2>5, <2>6, <2>7, <2>8, <2>9, <2>10 DEF Handled
<1>2. ASSUME \A r \in Rules : Hears(r), "commented" \notin ReviewEdits
      PROVE  EventSpec => VerdictChangesAreHandled
  <2>1. RuleInv /\ RuleInv' => (Verdict' # Verdict => Handled)
    BY <1>1, <1>2
  <2>2. QED
    BY <2>1, RuleInvWithDismissals, PTL DEF VerdictChangesAreHandled
<1>3. QED
  BY <1>2
=============================================================================
