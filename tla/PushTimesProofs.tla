--------------------------- MODULE PushTimesProofs ---------------------------
(***************************************************************************)
(* A push time is never before the push, and the first status of the head  *)
(* bounds it, for any number of commits, evaluations and processes and for *)
(* any clock, as long as no commit of the pull request has two parents in  *)
(* it.  Commits may be replaced: several may share a parent.               *)
(***************************************************************************)
EXTENDS PushTimes, TLAPS

(* No head follows s, which may be one itself.                             *)
IsTip(s) == \A h \in heads : s \in History[h] => h = s

(* The push time t is right for s, now and later.                          *)
Sound(s, t) ==
  /\ arrivedAt[s] # 0 /\ arrivedAt[s] <= t /\ t <= clock
  /\ IsTip(s) /\ statusAt[s] # 0 => t <= statusAt[s]

GitHubInOrder ==
  /\ \A s \in Shas :
       /\ arrivedAt[s] <= clock
       /\ arrivedAt[s] # 0 =>
            \A t \in History[s] : arrivedAt[t] # 0 /\ arrivedAt[t] <= arrivedAt[s]
       /\ statusAt[s] # 0 =>
            arrivedAt[s] # 0 /\ arrivedAt[s] <= statusAt[s] /\ statusAt[s] <= clock
  /\ \A h \in heads : arrivedAt[h] # 0

CachesAreSound ==
  /\ \A i \in Instances, s \in Shas : cache[i][s] # 0 => Sound(s, cache[i][s])
  /\ \A e \in Evaluators, s \in Shas : local[e][s] # 0 => Sound(s, local[e][s])

(* An evaluation reads commits with its head among them, walks below the     *)
(* head, and leaves nothing it tried above it.                               *)
Walks(e) ==
  /\ phase[e] \notin {"idle", "started"} =>
       \E p \in Shas : commits[e] = History[p] /\ head[e] \in History[p]
  /\ phase[e] # "idle" => head[e] \in heads /\ arrivedAt[head[e]] <= now[e] /\ now[e] <= clock
  /\ phase[e] \in {"cache", "api"} =>
       /\ tried[e] \subseteq History[last[e]]
       /\ last[e] \in History[head[e]]
       /\ head[e] \in tried[e] => last[e] = head[e]
  /\ phase[e] = "answered" => \A s \in tried[e] : Sound(s, used[e])

PushInv == TypeOK /\ GitHubInOrder /\ CachesAreSound /\ \A e \in Evaluators : Walks(e)

-----------------------------------------------------------------------------
(* Of any commits, one is made from none of the others.                    *)
LEMMA ParentsComeFirst ==
  ASSUME NEW some, some \subseteq Shas, some # {}
  PROVE  \E x \in some : Parents[x] \intersect some = {}
<1>1. some \in (SUBSET Shas) \ {{}}
  OBVIOUS
<1>2. QED
  BY <1>1, PushTimesAssumption

(* No commit is made from itself, by whatever way.                         *)
LEMMA NoCycles ==
  ASSUME NEW s \in Shas, NEW t \in Shas, s \in History[t], t \in History[s]
  PROVE  s = t
<1> DEFINE bad == {x \in Shas : \E y \in Shas : y # x /\ x \in History[y] /\ y \in History[x]}
<1>1. SUFFICES ASSUME s # t PROVE FALSE
  OBVIOUS
<1>2. s \in bad
  BY <1>1
<1>3. PICK x \in bad : Parents[x] \intersect bad = {}
  BY <1>2, ParentsComeFirst
<1>4. PICK y \in Shas : y # x /\ x \in History[y] /\ y \in History[x]
  OBVIOUS
<1>5. PICK p \in Parents[x] : y \in History[p]
  BY <1>4, PushTimesAssumption
<1>6. p \in Shas /\ p \in History[x] /\ x \in History[p]
  BY <1>4, <1>5, PushTimesAssumption
<1>7. p \in bad
  BY <1>2, <1>3, <1>6
<1>8. QED
  BY <1>3, <1>5, <1>7

(* Without merges, what a commit was made from is a line.                  *)
LEMMA OneLine ==
  ASSUME NoMerges, NEW h \in Shas, NEW c \in History[h], NEW d \in History[h]
  PROVE  c \in History[d] \/ d \in History[c]
<1> DEFINE Line(x) == \A a, b \in History[x] : a \in History[b] \/ b \in History[a]
           bad == {x \in Shas : ~Line(x)}
<1>1. SUFFICES ASSUME h \in bad PROVE FALSE
  OBVIOUS
<1>2. PICK x \in bad : Parents[x] \intersect bad = {}
  BY <1>1, ParentsComeFirst
<1>3. PICK a \in History[x], b \in History[x] : a \notin History[b] /\ b \notin History[a]
  OBVIOUS
<1>4. x \in Shas /\ a # x /\ b # x
  BY <1>3
<1>5. PICK p \in Parents[x] : a \in History[p]
  BY <1>4, PushTimesAssumption
<1>6. PICK q \in Parents[x] : b \in History[q]
  BY <1>4, PushTimesAssumption
<1>7. p = q /\ p \in Shas
  BY <1>4, <1>5, <1>6, PushTimesAssumption DEF NoMerges
<1>8. p \in bad
  BY <1>3, <1>5, <1>6, <1>7
<1>9. QED
  BY <1>2, <1>5, <1>8

(* Of the commits that were read, the child of one below the head is below *)
(* the head too, or the head.                                              *)
LEMMA NextIsBelow ==
  ASSUME NoMerges, NEW top \in Shas, NEW h \in History[top], NEW c \in History[top],
         NEW s \in Shas, s \in Parents[c], s \in History[h], s # h
  PROVE  c \in History[h]
<1>1. h \in Shas /\ c \in Shas
  BY PushTimesAssumption
<1>2. SUFFICES ASSUME h \in History[c], h # c PROVE FALSE
  BY <1>1, OneLine, PushTimesAssumption
<1>3. PICK p \in Parents[c] : h \in History[p]
  BY <1>1, <1>2, PushTimesAssumption
<1>4. p = s
  BY <1>1, <1>3 DEF NoMerges
<1>5. QED
  BY <1>1, <1>3, <1>4, NoCycles

-----------------------------------------------------------------------------
(* What was found is stored for what was tried and for nothing else.       *)
LEMMA WithIsTyped ==
  ASSUME NEW times \in [Shas -> Nat], NEW shas, NEW t \in Nat
  PROVE  With(times, shas, t) \in [Shas -> Nat]
BY DEF With

LEMMA DiscardIsTyped ==
  ASSUME TypeOK, NEW es, Discard(es)
  PROVE  /\ phase' \in [Evaluators -> Phases]
         /\ head' \in [Evaluators -> Shas] /\ now' \in [Evaluators -> Nat]
         /\ commits' \in [Evaluators -> SUBSET Shas]
         /\ local' \in [Evaluators -> [Shas -> Nat]]
         /\ tried' \in [Evaluators -> SUBSET Shas] /\ last' \in [Evaluators -> Shas]
         /\ used' \in [Evaluators -> Nat]
         /\ \A e \in Evaluators : phase'[e] \in {"cache", "api", "answered"} => last'[e] \in tried'[e]
<1>1. None \in [Shas -> Nat] /\ FirstHead \in Shas
  BY PushTimesAssumption DEF None
<1>2. /\ phase' \in [Evaluators -> Phases]
      /\ head' \in [Evaluators -> Shas] /\ now' \in [Evaluators -> Nat]
  BY <1>1 DEF Discard, TypeOK, Phases
<1>3. /\ commits' \in [Evaluators -> SUBSET Shas]
      /\ local' \in [Evaluators -> [Shas -> Nat]]
      /\ tried' \in [Evaluators -> SUBSET Shas] /\ last' \in [Evaluators -> Shas]
      /\ used' \in [Evaluators -> Nat]
  BY <1>1 DEF Discard, TypeOK
<1>4. \A e \in Evaluators : phase'[e] \in {"cache", "api", "answered"} => last'[e] \in tried'[e]
  BY DEF Discard, TypeOK
<1>5. QED
  BY <1>2, <1>3, <1>4

LEMMA AnswerIsTyped ==
  ASSUME TypeOK, NEW e \in Evaluators, NEW t \in Nat, Answer(e, t), phase[e] \in {"cache", "api"}
  PROVE  TypeOK'
<1>1. With(local[e], tried[e], t) \in [Shas -> Nat]
  BY WithIsTyped DEF TypeOK
<1>2. InstanceOf[e] \in Instances
  BY PushTimesAssumption
<1>3. With(cache[InstanceOf[e]], tried[e], t) \in [Shas -> Nat]
  BY <1>2, WithIsTyped DEF TypeOK
<1>4. /\ local' \in [Evaluators -> [Shas -> Nat]]
      /\ cache' \in [Instances -> [Shas -> Nat]]
      /\ phase' \in [Evaluators -> Phases] /\ used' \in [Evaluators -> Nat]
  BY <1>1, <1>2, <1>3 DEF Answer, TypeOK, Phases
<1>5. \A f \in Evaluators : phase'[f] \in {"cache", "api", "answered"} => last'[f] \in tried'[f]
  BY DEF Answer, TypeOK
<1>6. QED
  BY <1>4, <1>5 DEF Answer, TypeOK, github

(* What the cache returns is a time.                                       *)
LEMMA CachedIsTyped ==
  ASSUME TypeOK, NEW e \in Evaluators
  PROVE  Cached(e, last[e]) \in Nat
BY PushTimesAssumption DEF Cached, TypeOK

LEMMA InitIsTyped == Init => TypeOK
BY PushTimesAssumption DEF Init, TypeOK, None, Phases

LEMMA StepIsTyped ==
  ASSUME TypeOK, [Next]_vars
  PROVE  TypeOK'
<1> USE PushTimesAssumption
<1>1. ASSUME NEW s \in Shas, Push(s) PROVE TypeOK'
  <2>1. arrivedAt' \in [Shas -> Nat]
    BY <1>1 DEF Push, TypeOK
  <2>2. QED
    BY <1>1, <2>1 DEF Push, TypeOK, evaluation
<1>2. ASSUME NEW s \in Shas, Report(s) PROVE TypeOK'
  BY <1>2 DEF Report, TypeOK, evaluation
<1>3. CASE Tick
  BY <1>3 DEF Tick, TypeOK, evaluation, github
<1>4. ASSUME NEW e \in Evaluators, NEW h \in Shas, Start(e, h) PROVE TypeOK'
  BY <1>4 DEF Start, TypeOK, github, Phases
<1>5. ASSUME NEW e \in Evaluators, ReadCommits(e) PROVE TypeOK'
  BY <1>5 DEF ReadCommits, TypeOK, github, Phases
<1>6. ASSUME NEW e \in Evaluators, NEW s \in Shas, Ask(e, s) PROVE TypeOK'
  BY <1>6 DEF Ask, TypeOK, github, Phases
<1>7. ASSUME NEW e \in Evaluators, TryPushedAt(e) PROVE TypeOK'
  <2>1. CASE Answer(e, Cached(e, last[e]))
    BY <1>7, <2>1, AnswerIsTyped, CachedIsTyped DEF TryPushedAt
  <2>2. CASE phase' = [phase EXCEPT ![e] = "api"]
             /\ UNCHANGED <<github, clock, cache, head, now, commits, local, tried, last, used>>
    BY <1>7, <2>2 DEF TypeOK, github, Phases, TryPushedAt
  <2>3. QED
    BY <1>7, <2>1, <2>2 DEF TryPushedAt
<1>8. ASSUME NEW e \in Evaluators, LoadPushedAt(e) PROVE TypeOK'
  <2>1. CASE Answer(e, statusAt[last[e]])
    <3>1. statusAt[last[e]] \in Nat /\ phase[e] = "api"
      BY <1>8 DEF LoadPushedAt, TypeOK
    <3>2. QED
      BY <2>1, <3>1, AnswerIsTyped
  <2>2. CASE Answer(e, now[e])
    <3>1. now[e] \in Nat /\ phase[e] = "api"
      BY <1>8 DEF LoadPushedAt, TypeOK
    <3>2. QED
      BY <2>2, <3>1, AnswerIsTyped
  <2>3. ASSUME NEW c \in Children(e, last[e]),
               /\ phase' = [phase EXCEPT ![e] = "cache"]
               /\ tried' = [tried EXCEPT ![e] = @ \union {c}]
               /\ last' = [last EXCEPT ![e] = c]
               /\ UNCHANGED <<github, clock, cache, head, now, commits, local, used>>
        PROVE  TypeOK'
    <3>1. c \in Shas
      BY DEF Children, TypeOK
    <3>2. QED
      BY <2>3, <3>1 DEF TypeOK, github, Phases
  <2>4. QED
    BY <1>8, <2>1, <2>2, <2>3 DEF LoadPushedAt, OldestStatus
<1>9. ASSUME NEW e \in Evaluators, Post(e) PROVE TypeOK'
  <2>1. statusAt' \in [Shas -> Nat]
    BY <1>9 DEF Post, TypeOK
  <2>2. QED
    BY <1>9, <2>1, DiscardIsTyped DEF Post, TypeOK
<1>10. ASSUME NEW e \in Evaluators, Fail(e) PROVE TypeOK'
  BY <1>10, DiscardIsTyped DEF Fail, TypeOK, github
<1>11. ASSUME NEW i \in Instances, Restart(i) PROVE TypeOK'
  <2>1. cache' \in [Instances -> [Shas -> Nat]]
    BY <1>11 DEF Restart, TypeOK, None
  <2>2. Discard({e \in Evaluators : InstanceOf[e] = i})
    BY <1>11 DEF Restart
  <2>3. UNCHANGED <<github, clock>>
    BY <1>11 DEF Restart
  <2>4. QED
    BY <2>1, <2>2, <2>3, DiscardIsTyped DEF TypeOK, github
<1>12. ASSUME NEW i \in Instances, NEW s \in Shas, Evict(i, s) PROVE TypeOK'
  BY <1>12 DEF Evict, TypeOK, github, evaluation
<1>13. CASE UNCHANGED vars
  BY <1>13 DEF vars, github, evaluation, TypeOK
<1>14. QED
  BY <1>1, <1>2, <1>3, <1>4, <1>5, <1>6, <1>7, <1>8, <1>9, <1>10, <1>11, <1>12, <1>13
  DEF Next, Evaluate

(* Every variable keeps its type, in every process and at any time.        *)
THEOREM PushTimesAreTyped == Spec => []TypeOK
<1>1. TypeOK /\ [Next]_vars => TypeOK'
  BY StepIsTyped
<1>2. QED
  BY <1>1, InitIsTyped, PTL DEF Spec

-----------------------------------------------------------------------------
(* What GitHub knows of a commit, it never forgets or changes.             *)
Grows ==
  /\ clock <= clock' /\ heads \subseteq heads'
  /\ \A s \in Shas :
       /\ arrivedAt[s] # 0 => arrivedAt'[s] = arrivedAt[s]
       /\ statusAt'[s] = statusAt[s] \/ (statusAt[s] = 0 /\ statusAt'[s] = clock)

(* A push time that is right stays right, whatever is pushed or reported.  *)
LEMMA SoundStays ==
  ASSUME TypeOK, TypeOK', Grows, NEW s \in Shas, NEW t \in Nat, Sound(s, t)
  PROVE  Sound(s, t)'
<1>1. /\ arrivedAt[s] \in Nat /\ statusAt[s] \in Nat /\ clock \in Nat
      /\ arrivedAt'[s] \in Nat /\ statusAt'[s] \in Nat /\ clock' \in Nat
  BY DEF TypeOK
<1>2. arrivedAt'[s] # 0 /\ arrivedAt'[s] <= t /\ t <= clock'
  BY <1>1 DEF Sound, Grows
<1>3. ASSUME IsTip(s)', statusAt'[s] # 0 PROVE t <= statusAt'[s]
  <2>1. IsTip(s)
    BY <1>3 DEF IsTip, Grows
  <2>2. QED
    BY <1>1, <1>3, <2>1 DEF Sound, Grows
<1>4. QED
  BY <1>2, <1>3 DEF Sound

(* An evaluation that does not move stays on its way.                      *)
LEMMA WalkStays ==
  ASSUME TypeOK, TypeOK', GitHubInOrder, Grows, NEW e \in Evaluators, Walks(e),
         phase'[e] = phase[e], head'[e] = head[e], now'[e] = now[e],
         tried'[e] = tried[e], last'[e] = last[e], used'[e] = used[e], commits'[e] = commits[e]
  PROVE  Walks(e)'
<1>1. ASSUME phase[e] # "idle"
      PROVE  head[e] \in heads' /\ arrivedAt'[head[e]] <= now[e] /\ now[e] <= clock'
  <2>1. head[e] \in heads /\ head[e] \in Shas /\ arrivedAt[head[e]] # 0
        /\ arrivedAt[head[e]] <= now[e] /\ now[e] <= clock
    BY <1>1 DEF Walks, GitHubInOrder, TypeOK
  <2>2. now[e] \in Nat /\ clock \in Nat /\ clock' \in Nat
    BY DEF TypeOK
  <2>3. QED
    BY <2>1, <2>2 DEF Grows
<1>2. ASSUME phase[e] = "answered", NEW s \in tried[e] PROVE Sound(s, used[e])'
  <2>1. s \in Shas /\ used[e] \in Nat /\ Sound(s, used[e])
    BY <1>2 DEF Walks, TypeOK
  <2>2. \A t \in Nat : Sound(s, t) => Sound(s, t)'
    BY <2>1, SoundStays
  <2>3. PICK t \in Nat : t = used[e]
    BY <2>1
  <2>4. Sound(s, t)'
    BY <2>1, <2>2, <2>3
  <2>5. t = used'[e]
    BY <2>3
  <2>6. QED
    BY <2>4, <2>5 DEF Sound
<1>3. QED
  BY <1>1, <1>2 DEF Walks

(* An entry that is kept stays right, and an entry that is lost is none.   *)
LEMMA CachesStay ==
  ASSUME TypeOK, TypeOK', Grows, CachesAreSound,
         \A i \in Instances, s \in Shas : cache'[i][s] \in {0, cache[i][s]},
         \A e \in Evaluators, s \in Shas : local'[e][s] \in {0, local[e][s]}
  PROVE  CachesAreSound'
<1>1. ASSUME NEW i \in Instances, NEW s \in Shas, cache'[i][s] # 0 PROVE Sound(s, cache[i][s])'
  <2>1. PICK t \in Nat : t = cache[i][s] /\ t = cache'[i][s] /\ Sound(s, t)
    BY <1>1 DEF CachesAreSound, TypeOK
  <2>2. Sound(s, t)'
    BY <2>1, SoundStays
  <2>3. QED
    BY <2>1, <2>2 DEF Sound
<1>2. ASSUME NEW e \in Evaluators, NEW s \in Shas, local'[e][s] # 0 PROVE Sound(s, local[e][s])'
  <2>1. PICK t \in Nat : t = local[e][s] /\ t = local'[e][s] /\ Sound(s, t)
    BY <1>2 DEF CachesAreSound, TypeOK
  <2>2. Sound(s, t)'
    BY <2>1, SoundStays
  <2>3. QED
    BY <2>1, <2>2 DEF Sound
<1>3. QED
  BY <1>1, <1>2 DEF CachesAreSound

(* Evaluations that end leave nothing behind.                              *)
LEMMA DiscardKeepsOrder ==
  ASSUME PushInv, TypeOK', Grows, NEW es, Discard(es),
         \A i \in Instances, s \in Shas : cache'[i][s] \in {0, cache[i][s]}
  PROVE  CachesAreSound' /\ \A e \in Evaluators : Walks(e)'
<1>1. \A e \in Evaluators, s \in Shas : local'[e][s] \in {0, local[e][s]}
  BY DEF Discard, None
<1>2. CachesAreSound'
  BY <1>1, CachesStay DEF PushInv
<1>3. ASSUME NEW e \in Evaluators PROVE Walks(e)'
  <2>1. CASE e \in es
    BY <2>1 DEF Walks, Discard
  <2>2. CASE e \notin es
    <3>1. /\ phase'[e] = phase[e] /\ head'[e] = head[e] /\ now'[e] = now[e]
          /\ tried'[e] = tried[e] /\ last'[e] = last[e] /\ used'[e] = used[e]
          /\ commits'[e] = commits[e]
      BY <2>2 DEF Discard
    <3>2. QED
      BY <3>1, WalkStays DEF PushInv
  <2>3. QED
    BY <2>1, <2>2
<1>4. QED
  BY <1>2, <1>3

(* An answer that is right for all that was tried is cached rightly.       *)
LEMMA AnswerKeepsOrder ==
  ASSUME PushInv, TypeOK', Grows, NEW e \in Evaluators, NEW t \in Nat,
         Answer(e, t), phase[e] \in {"cache", "api"}, \A s \in tried[e] : Sound(s, t)
  PROVE  CachesAreSound' /\ \A f \in Evaluators : Walks(f)'
<1>1. \A s \in tried[e] : Sound(s, t)'
  BY SoundStays DEF PushInv, TypeOK
<1>2. InstanceOf[e] \in Instances
  BY PushTimesAssumption
<1>3. ASSUME NEW i \in Instances, NEW s \in Shas, cache'[i][s] # 0 PROVE Sound(s, cache[i][s])'
  <2>1. CASE i = InstanceOf[e] /\ s \in tried[e]
    <3>1. cache'[i][s] = t
      BY <1>2, <2>1 DEF Answer, With, PushInv, TypeOK
    <3>2. Sound(s, t)'
      BY <1>1, <2>1
    <3>3. QED
      BY <3>1, <3>2 DEF Sound
  <2>2. CASE ~(i = InstanceOf[e] /\ s \in tried[e])
    <3>1. cache'[i][s] = cache[i][s]
      BY <1>2, <2>2 DEF Answer, With, PushInv, TypeOK
    <3>2. PICK x \in Nat : x = cache[i][s] /\ x = cache'[i][s] /\ Sound(s, x)
      BY <1>3, <3>1 DEF PushInv, CachesAreSound, TypeOK
    <3>3. Sound(s, x)'
      BY <3>2, SoundStays DEF PushInv
    <3>4. QED
      BY <3>2, <3>3 DEF Sound
  <2>3. QED
    BY <2>1, <2>2
<1>4. ASSUME NEW f \in Evaluators, NEW s \in Shas, local'[f][s] # 0 PROVE Sound(s, local[f][s])'
  <2>1. CASE f = e /\ s \in tried[e]
    <3>1. local'[f][s] = t
      BY <2>1 DEF Answer, With, PushInv, TypeOK
    <3>2. Sound(s, t)'
      BY <1>1, <2>1
    <3>3. QED
      BY <3>1, <3>2 DEF Sound
  <2>2. CASE ~(f = e /\ s \in tried[e])
    <3>1. local'[f][s] = local[f][s]
      BY <2>2 DEF Answer, With, PushInv, TypeOK
    <3>2. PICK x \in Nat : x = local[f][s] /\ x = local'[f][s] /\ Sound(s, x)
      BY <1>4, <3>1 DEF PushInv, CachesAreSound, TypeOK
    <3>3. Sound(s, x)'
      BY <3>2, SoundStays DEF PushInv
    <3>4. QED
      BY <3>2, <3>3 DEF Sound
  <2>3. QED
    BY <2>1, <2>2
<1>5. CachesAreSound'
  BY <1>3, <1>4 DEF CachesAreSound
<1>6. Walks(e)'
  <2>1. /\ phase'[e] = "answered" /\ used'[e] = t /\ tried' = tried
        /\ commits' = commits /\ head' = head /\ now' = now /\ heads' = heads /\ arrivedAt' = arrivedAt
        /\ clock' = clock
    BY DEF Answer, PushInv, TypeOK, github
  <2>2. /\ head[e] \in heads /\ arrivedAt[head[e]] <= now[e] /\ now[e] <= clock
        /\ \E p \in Shas : commits[e] = History[p] /\ head[e] \in History[p]
    BY DEF PushInv, Walks
  <2>3. \A s \in tried[e] : Sound(s, used[e])'
    BY <1>1, <2>1 DEF Sound
  <2>4. QED
    BY <2>1, <2>2, <2>3 DEF Walks
<1>7. ASSUME NEW f \in Evaluators, f # e PROVE Walks(f)'
  <2>1. /\ phase'[f] = phase[f] /\ head'[f] = head[f] /\ now'[f] = now[f]
        /\ tried'[f] = tried[f] /\ last'[f] = last[f] /\ used'[f] = used[f]
        /\ commits'[f] = commits[f]
    BY <1>7 DEF Answer, PushInv, TypeOK
  <2>2. QED
    BY <2>1, WalkStays DEF PushInv
<1>8. QED
  BY <1>5, <1>6, <1>7

-----------------------------------------------------------------------------
(* A push brings what a commit was made from before the commit.            *)
LEMMA PushGrows ==
  ASSUME TypeOK, TypeOK', GitHubInOrder, NEW s \in Shas, Push(s)
  PROVE  Grows /\ GitHubInOrder'
<1> USE PushTimesAssumption
<1>1. /\ heads' = heads \union {s} /\ statusAt' = statusAt /\ clock' = clock
      /\ \A t \in Shas : arrivedAt'[t] = IF t \in History[s] /\ arrivedAt[t] = 0
                                         THEN clock ELSE arrivedAt[t]
  BY DEF Push, TypeOK
<1>2. clock \in Nat /\ clock # 0
  <2>1. PICK h \in heads : arrivedAt[h] # 0 /\ arrivedAt[h] <= clock /\ arrivedAt[h] \in Nat
    BY DEF TypeOK, GitHubInOrder
  <2>2. QED
    BY <2>1 DEF TypeOK
<1>3. Grows
  BY <1>1, <1>2 DEF Grows, TypeOK
<1>4. ASSUME NEW r \in Shas
      PROVE  /\ arrivedAt'[r] <= clock'
             /\ arrivedAt'[r] # 0 =>
                  \A t \in History[r] : arrivedAt'[t] # 0 /\ arrivedAt'[t] <= arrivedAt'[r]
             /\ statusAt'[r] # 0 =>
                  arrivedAt'[r] # 0 /\ arrivedAt'[r] <= statusAt'[r] /\ statusAt'[r] <= clock'
  <2>1. arrivedAt[r] \in Nat /\ arrivedAt[r] <= clock
    BY DEF TypeOK, GitHubInOrder
  <2>2. arrivedAt'[r] <= clock'
    BY <1>1, <1>2, <2>1
  <2>3. ASSUME arrivedAt'[r] # 0, NEW t \in History[r]
        PROVE  arrivedAt'[t] # 0 /\ arrivedAt'[t] <= arrivedAt'[r]
    <3>1. t \in Shas /\ arrivedAt[t] \in Nat /\ arrivedAt[t] <= clock
      BY DEF TypeOK, GitHubInOrder
    <3>2. CASE arrivedAt[r] # 0
      <4>1. arrivedAt[t] # 0 /\ arrivedAt[t] <= arrivedAt[r]
        BY <3>2 DEF GitHubInOrder
      <4>2. QED
        BY <1>1, <3>1, <3>2, <4>1
    <3>3. CASE arrivedAt[r] = 0
      <4>1. r \in History[s] /\ arrivedAt'[r] = clock
        BY <1>1, <2>3, <3>3
      <4>2. t \in History[s]
        BY <4>1
      <4>3. QED
        BY <1>1, <1>2, <3>1, <4>1, <4>2
    <3>4. QED
      BY <3>2, <3>3
  <2>4. statusAt'[r] # 0 =>
          arrivedAt'[r] # 0 /\ arrivedAt'[r] <= statusAt'[r] /\ statusAt'[r] <= clock'
    BY <1>1 DEF GitHubInOrder
  <2>5. QED
    BY <2>2, <2>3, <2>4
<1>5. ASSUME NEW h \in heads' PROVE arrivedAt'[h] # 0
  <2>1. h \in Shas
    BY <1>1 DEF TypeOK
  <2>2. CASE h = s
    BY <1>1, <1>2, <2>2
  <2>3. CASE h \in heads
    BY <1>1, <2>1, <2>3 DEF GitHubInOrder
  <2>4. QED
    BY <1>1, <2>2, <2>3
<1>6. QED
  BY <1>3, <1>4, <1>5 DEF GitHubInOrder

(* A commit that is reported on has arrived.                               *)
LEMMA StatusGrows ==
  ASSUME TypeOK, TypeOK', GitHubInOrder, NEW s \in Shas, arrivedAt[s] # 0,
         UNCHANGED <<pull, heads, arrivedAt, clock>>,
         statusAt' = [statusAt EXCEPT ![s] = IF @ = 0 THEN clock ELSE @]
  PROVE  Grows /\ GitHubInOrder'
<1>1. \A r \in Shas : statusAt'[r] = IF r = s /\ statusAt[r] = 0 THEN clock ELSE statusAt[r]
  BY DEF TypeOK
<1>2. clock \in Nat /\ \A r \in Shas : arrivedAt[r] \in Nat
  BY DEF TypeOK
<1>3. Grows
  BY <1>1, <1>2 DEF Grows
<1>4. ASSUME NEW r \in Shas, statusAt'[r] # 0
      PROVE  arrivedAt[r] # 0 /\ arrivedAt[r] <= statusAt'[r] /\ statusAt'[r] <= clock
  BY <1>1, <1>2, <1>4 DEF GitHubInOrder
<1>5. QED
  BY <1>3, <1>4 DEF GitHubInOrder

LEMMA StillGrows ==
  ASSUME TypeOK, TypeOK', GitHubInOrder, UNCHANGED github, clock <= clock'
  PROVE  Grows /\ GitHubInOrder'
<1>1. UNCHANGED <<heads, arrivedAt, statusAt>>
  BY DEF github
<1>2. Grows
  BY <1>1 DEF Grows
<1>3. ASSUME NEW r \in Shas
      PROVE  arrivedAt[r] <= clock' /\ (statusAt[r] # 0 => statusAt[r] <= clock')
  <2>1. /\ arrivedAt[r] \in Nat /\ statusAt[r] \in Nat /\ clock \in Nat /\ clock' \in Nat
        /\ arrivedAt[r] <= clock /\ (statusAt[r] # 0 => statusAt[r] <= clock)
    BY DEF TypeOK, GitHubInOrder
  <2>2. QED
    BY <2>1
<1>4. QED
  BY <1>1, <1>2, <1>3 DEF GitHubInOrder

(* Below the last commit of its walk lies all that an evaluation tried.    *)
LEMMA WhatWasTried ==
  ASSUME PushInv, NEW e \in Evaluators, phase[e] \in {"cache", "api"}, NEW s \in tried[e]
  PROVE  /\ s \in Shas /\ s \in History[last[e]] /\ s \in History[head[e]]
         /\ last[e] \in Shas /\ head[e] \in heads /\ head[e] \in Shas
         /\ IsTip(s) => s = head[e] /\ last[e] = s
<1>1. /\ tried[e] \subseteq History[last[e]] /\ last[e] \in History[head[e]]
      /\ head[e] \in tried[e] => last[e] = head[e]
      /\ head[e] \in heads /\ head[e] \in Shas /\ last[e] \in Shas /\ s \in Shas
  BY DEF PushInv, TypeOK, Walks
<1>2. s \in History[head[e]]
  BY <1>1, PushTimesAssumption
<1>3. QED
  BY <1>1, <1>2 DEF IsTip

(* A time that is right for the last commit is right for all of them.      *)
LEMMA LastDecides ==
  ASSUME PushInv, NEW e \in Evaluators, phase[e] \in {"cache", "api"},
         NEW t \in Nat, Sound(last[e], t)
  PROVE  \A s \in tried[e] : Sound(s, t)
<1> SUFFICES ASSUME NEW s \in tried[e] PROVE Sound(s, t)
  OBVIOUS
<1>1. /\ s \in Shas /\ s \in History[last[e]] /\ last[e] \in Shas
      /\ IsTip(s) => last[e] = s
  BY WhatWasTried
<1>2. arrivedAt[last[e]] # 0 /\ arrivedAt[last[e]] <= t /\ t <= clock
  BY DEF Sound
<1>3. arrivedAt[s] # 0 /\ arrivedAt[s] <= arrivedAt[last[e]]
  BY <1>1, <1>2 DEF PushInv, GitHubInOrder
<1>4. arrivedAt[s] \in Nat /\ arrivedAt[last[e]] \in Nat
  BY <1>1 DEF PushInv, TypeOK
<1>5. IsTip(s) /\ statusAt[s] # 0 => t <= statusAt[s]
  BY <1>1 DEF Sound
<1>6. QED
  BY <1>2, <1>3, <1>4, <1>5 DEF Sound

(* Without any status, the time of the evaluation is right for all.        *)
LEMMA NowIsSound ==
  ASSUME PushInv, NEW e \in Evaluators, phase[e] \in {"cache", "api"}, statusAt[last[e]] = 0
  PROVE  \A s \in tried[e] : Sound(s, now[e])
<1> SUFFICES ASSUME NEW s \in tried[e] PROVE Sound(s, now[e])
  OBVIOUS
<1>1. /\ s \in Shas /\ s \in History[head[e]] /\ head[e] \in heads /\ head[e] \in Shas
      /\ IsTip(s) => last[e] = s
  BY WhatWasTried
<1>2. arrivedAt[head[e]] # 0 /\ arrivedAt[head[e]] <= now[e] /\ now[e] <= clock
  BY <1>1 DEF PushInv, GitHubInOrder, Walks
<1>3. arrivedAt[s] # 0 /\ arrivedAt[s] <= arrivedAt[head[e]]
  BY <1>1, <1>2 DEF PushInv, GitHubInOrder
<1>4. arrivedAt[s] \in Nat /\ arrivedAt[head[e]] \in Nat /\ now[e] \in Nat
  BY <1>1 DEF PushInv, TypeOK
<1>5. QED
  BY <1>1, <1>2, <1>3, <1>4 DEF Sound

(* A step of an evaluation that neither caches nor ends.                   *)
LEMMA MoveKeepsOrder ==
  ASSUME PushInv, TypeOK', NEW e \in Evaluators, UNCHANGED <<github, clock, cache, local>>,
         Walks(e)', \A f \in Evaluators \ {e} :
                      /\ phase'[f] = phase[f] /\ head'[f] = head[f] /\ now'[f] = now[f]
                      /\ tried'[f] = tried[f] /\ last'[f] = last[f] /\ used'[f] = used[f]
                      /\ commits'[f] = commits[f]
  PROVE  PushInv'
<1>1. UNCHANGED github /\ clock <= clock' /\ UNCHANGED <<cache, local>>
  BY DEF PushInv, TypeOK
<1>2. Grows /\ GitHubInOrder'
  BY <1>1, StillGrows DEF PushInv
<1>3. CachesAreSound'
  BY <1>1, <1>2, CachesStay DEF PushInv
<1>4. ASSUME NEW f \in Evaluators, f # e PROVE Walks(f)'
  <2>1. /\ phase'[f] = phase[f] /\ head'[f] = head[f] /\ now'[f] = now[f]
        /\ tried'[f] = tried[f] /\ last'[f] = last[f] /\ used'[f] = used[f]
        /\ commits'[f] = commits[f]
    BY <1>4
  <2>2. QED
    BY <1>2, <2>1, WalkStays DEF PushInv
<1>5. QED
  BY <1>2, <1>3, <1>4 DEF PushInv

(* A step of GitHub or of the clock.                                       *)
LEMMA WorldKeepsOrder ==
  ASSUME PushInv, TypeOK', Grows, GitHubInOrder', UNCHANGED <<cache, evaluation>>
  PROVE  PushInv'
<1>1. UNCHANGED <<phase, head, now, commits, tried, last, used, cache, local>>
  BY DEF evaluation
<1>2. CachesAreSound'
  BY <1>1, CachesStay DEF PushInv
<1>3. ASSUME NEW f \in Evaluators PROVE Walks(f)'
  BY <1>1, WalkStays DEF PushInv
<1>4. QED
  BY <1>2, <1>3 DEF PushInv

-----------------------------------------------------------------------------
LEMMA InitIsSound == Init => PushInv
<1> SUFFICES ASSUME Init PROVE PushInv
  OBVIOUS
<1>1. TypeOK
  BY InitIsTyped
<1>2. \A s \in Shas : statusAt[s] = 0 /\ arrivedAt[s] = IF s \in History[FirstHead] THEN 1 ELSE 0
  BY DEF Init, None
<1>3. \A s \in Shas : \A t \in History[s] :
        s \in History[FirstHead] => t \in Shas /\ t \in History[FirstHead]
  BY PushTimesAssumption
<1>4. GitHubInOrder
  BY <1>2, <1>3, PushTimesAssumption DEF Init, GitHubInOrder
<1>5. CachesAreSound
  BY DEF Init, None, CachesAreSound
<1>6. \A e \in Evaluators : Walks(e)
  BY DEF Init, Walks
<1>7. QED
  BY <1>1, <1>4, <1>5, <1>6 DEF PushInv

(* An evaluation that starts is of a head that has arrived by now.         *)
LEMMA StartKeepsOrder ==
  ASSUME PushInv, TypeOK', NEW e \in Evaluators, NEW h \in Shas, Start(e, h)
  PROVE  PushInv'
<1>1. /\ UNCHANGED <<github, clock, cache, local>>
      /\ phase'[e] = "started" /\ head'[e] = h /\ now'[e] = clock /\ h \in heads
      /\ \A f \in Evaluators \ {e} :
           /\ phase'[f] = phase[f] /\ head'[f] = head[f] /\ now'[f] = now[f]
           /\ tried'[f] = tried[f] /\ last'[f] = last[f] /\ used'[f] = used[f]
           /\ commits'[f] = commits[f]
  BY DEF Start, PushInv, TypeOK
<1>2. arrivedAt[h] <= clock /\ clock <= clock
  BY DEF PushInv, GitHubInOrder, TypeOK
<1>3. Walks(e)'
  BY <1>1, <1>2 DEF Walks, github
<1>4. QED
  BY <1>1, <1>3, MoveKeepsOrder

LEMMA ReadCommitsKeepsOrder ==
  ASSUME PushInv, TypeOK', NEW e \in Evaluators, ReadCommits(e)
  PROVE  PushInv'
<1>1. /\ UNCHANGED <<github, clock, cache, local, head, now>>
      /\ phase[e] = "started" /\ phase'[e] = "ready" /\ pull \in Shas
      /\ commits'[e] = History[pull] /\ head[e] \in History[pull]
      /\ \A f \in Evaluators \ {e} :
           /\ phase'[f] = phase[f] /\ head'[f] = head[f] /\ now'[f] = now[f]
           /\ tried'[f] = tried[f] /\ last'[f] = last[f] /\ used'[f] = used[f]
           /\ commits'[f] = commits[f]
  BY DEF ReadCommits, PushInv, TypeOK
<1>2. Walks(e)'
  BY <1>1 DEF Walks, github, PushInv
<1>3. QED
  BY <1>1, <1>2, MoveKeepsOrder

LEMMA AskKeepsOrder ==
  ASSUME PushInv, TypeOK', NEW e \in Evaluators, NEW s \in Shas, Ask(e, s)
  PROVE  PushInv'
<1>1. /\ UNCHANGED <<github, clock, cache, local, head, now, commits>>
      /\ phase[e] \in {"ready", "answered"} /\ phase'[e] = "cache"
      /\ s \in History[head[e]] /\ tried'[e] = {s} /\ last'[e] = s
      /\ \A f \in Evaluators \ {e} :
           /\ phase'[f] = phase[f] /\ head'[f] = head[f] /\ now'[f] = now[f]
           /\ tried'[f] = tried[f] /\ last'[f] = last[f] /\ used'[f] = used[f]
           /\ commits'[f] = commits[f]
  BY DEF Ask, PushInv, TypeOK
<1>2. s \in History[s]
  BY PushTimesAssumption
<1>3. Walks(e)'
  BY <1>1, <1>2 DEF Walks, github, PushInv
<1>4. QED
  BY <1>1, <1>3, MoveKeepsOrder

LEMMA TryPushedAtKeepsOrder ==
  ASSUME PushInv, TypeOK', NEW e \in Evaluators, TryPushedAt(e)
  PROVE  PushInv'
<1>1. phase[e] = "cache"
  BY DEF TryPushedAt
<1>2. CASE Cached(e, last[e]) # 0
  <2>1. PICK t \in Nat : t = Cached(e, last[e])
    BY CachedIsTyped DEF PushInv
  <2>2. Answer(e, t)
    BY <1>2, <2>1 DEF TryPushedAt
  <2>3. Sound(last[e], t)
    <3>1. InstanceOf[e] \in Instances /\ last[e] \in Shas
      BY PushTimesAssumption DEF PushInv, TypeOK
    <3>2. \/ t = local[e][last[e]] /\ t # 0
          \/ t = cache[InstanceOf[e]][last[e]] /\ t # 0
      BY <1>2, <2>1 DEF Cached
    <3>3. QED
      BY <3>1, <3>2 DEF PushInv, CachesAreSound
  <2>4. \A s \in tried[e] : Sound(s, t)
    BY <1>1, <2>3, LastDecides
  <2>5. UNCHANGED github /\ clock <= clock'
    BY <2>2 DEF Answer, PushInv, TypeOK
  <2>6. Grows /\ GitHubInOrder'
    BY <2>5, StillGrows DEF PushInv
  <2>7. CachesAreSound' /\ \A f \in Evaluators : Walks(f)'
    BY <1>1, <2>2, <2>4, <2>6, AnswerKeepsOrder
  <2>8. QED
    BY <2>6, <2>7 DEF PushInv
<1>3. CASE Cached(e, last[e]) = 0
  <2>1. /\ UNCHANGED <<github, clock, cache, local, head, now, commits, tried, last>>
        /\ phase'[e] = "api"
        /\ \A f \in Evaluators \ {e} :
             /\ phase'[f] = phase[f] /\ head'[f] = head[f] /\ now'[f] = now[f]
             /\ tried'[f] = tried[f] /\ last'[f] = last[f] /\ used'[f] = used[f]
             /\ commits'[f] = commits[f]
    BY <1>3 DEF TryPushedAt, PushInv, TypeOK
  <2>2. Walks(e)'
    BY <1>1, <2>1 DEF Walks, github, PushInv
  <2>3. QED
    BY <2>1, <2>2, MoveKeepsOrder
<1>4. QED
  BY <1>2, <1>3

(* The evaluation moves on to a child that is not above its head.          *)
LEMMA LoadPushedAtKeepsOrder ==
  ASSUME NoMerges, PushInv, TypeOK', NEW e \in Evaluators, LoadPushedAt(e)
  PROVE  PushInv'
<1>1. phase[e] = "api"
  BY DEF LoadPushedAt
<1>2. ASSUME NEW t \in Nat, Answer(e, t), \A s \in tried[e] : Sound(s, t) PROVE PushInv'
  <2>1. UNCHANGED github /\ clock <= clock'
    BY <1>2 DEF Answer, PushInv, TypeOK
  <2>2. Grows /\ GitHubInOrder'
    BY <2>1, StillGrows DEF PushInv
  <2>3. CachesAreSound' /\ \A f \in Evaluators : Walks(f)'
    BY <1>1, <1>2, <2>2, AnswerKeepsOrder
  <2>4. QED
    BY <2>2, <2>3 DEF PushInv
<1>3. CASE statusAt[last[e]] # 0 /\ Answer(e, statusAt[last[e]])
  <2>1. PICK t \in Nat : t = statusAt[last[e]]
    BY DEF PushInv, TypeOK
  <2>2. Sound(last[e], t)
    <3>1. last[e] \in Shas
      BY DEF PushInv, TypeOK
    <3>2. t <= t
      OBVIOUS
    <3>3. QED
      BY <1>3, <2>1, <3>1, <3>2 DEF Sound, PushInv, GitHubInOrder
  <2>3. QED
    BY <1>1, <1>2, <1>3, <2>1, <2>2, LastDecides
<1>4. CASE statusAt[last[e]] = 0 /\ Answer(e, now[e])
  <2>1. now[e] \in Nat
    BY DEF PushInv, TypeOK
  <2>2. \A s \in tried[e] : Sound(s, now[e])
    BY <1>1, <1>4, NowIsSound
  <2>3. PICK t \in Nat : t = now[e]
    BY <2>1
  <2>4. QED
    BY <1>2, <1>4, <2>2, <2>3
<1>5. ASSUME NEW c \in Children(e, last[e]),
             phase' = [phase EXCEPT ![e] = "cache"],
             tried' = [tried EXCEPT ![e] = @ \union {c}],
             last' = [last EXCEPT ![e] = c],
             UNCHANGED <<github, clock, cache, head, now, commits, local, used>>
      PROVE  PushInv'
  <2>1. /\ phase'[e] = "cache" /\ tried'[e] = tried[e] \union {c} /\ last'[e] = c
        /\ UNCHANGED <<github, clock, cache, local, head, now, commits>>
        /\ \A f \in Evaluators \ {e} :
             /\ phase'[f] = phase[f] /\ head'[f] = head[f] /\ now'[f] = now[f]
             /\ tried'[f] = tried[f] /\ last'[f] = last[f] /\ used'[f] = used[f]
             /\ commits'[f] = commits[f]
    BY <1>5 DEF PushInv, TypeOK
  <2>2. /\ last[e] # head[e] /\ c \in Shas /\ last[e] \in Parents[c]
        /\ c \in commits[e] /\ last[e] \in Shas /\ head[e] \in Shas
    BY DEF Children, PushInv, TypeOK
  <2>3. /\ tried[e] \subseteq History[last[e]] /\ last[e] \in History[head[e]]
        /\ head[e] \notin tried[e]
        /\ head[e] \in heads /\ arrivedAt[head[e]] <= now[e] /\ now[e] <= clock
        /\ \E p \in Shas : commits[e] = History[p] /\ head[e] \in History[p]
    BY <1>1, <2>2 DEF PushInv, Walks
  <2>4. c \in History[head[e]]
    BY <2>2, <2>3, NextIsBelow
  <2>5. History[last[e]] \subseteq History[c] /\ c \in History[c]
    BY <2>2, PushTimesAssumption
  <2>6. head[e] \in tried'[e] => last'[e] = head[e]
    BY <2>1, <2>3
  <2>7. Walks(e)'
    BY <2>1, <2>3, <2>4, <2>5, <2>6 DEF Walks, github
  <2>8. QED
    BY <2>1, <2>7, MoveKeepsOrder
<1>6. QED
  BY <1>3, <1>4, <1>5 DEF LoadPushedAt, OldestStatus

(* Evaluations that end, processes that restart and entries that are       *)
(* evicted leave what remains in order.                                    *)
LEMMA EndKeepsOrder ==
  ASSUME PushInv, TypeOK', NEW es, Discard(es), UNCHANGED <<github, clock>>,
         \A i \in Instances, s \in Shas : cache'[i][s] \in {0, cache[i][s]}
  PROVE  PushInv'
<1>1. UNCHANGED github /\ clock <= clock'
  BY DEF PushInv, TypeOK
<1>2. Grows /\ GitHubInOrder'
  BY <1>1, StillGrows DEF PushInv
<1>3. CachesAreSound' /\ \A e \in Evaluators : Walks(e)'
  BY <1>2, DiscardKeepsOrder
<1>4. QED
  BY <1>2, <1>3 DEF PushInv

LEMMA PostKeepsOrder ==
  ASSUME PushInv, TypeOK', NEW e \in Evaluators, Post(e)
  PROVE  PushInv'
<1>1. head[e] \in Shas /\ arrivedAt[head[e]] # 0
  BY DEF Post, PushInv, TypeOK, Walks, GitHubInOrder
<1>2. /\ UNCHANGED <<pull, heads, arrivedAt, clock>>
      /\ statusAt' = [statusAt EXCEPT ![head[e]] = IF @ = 0 THEN clock ELSE @]
      /\ Discard({e}) /\ cache' = cache
  BY DEF Post
<1>3. Grows /\ GitHubInOrder'
  BY <1>1, <1>2, StatusGrows DEF PushInv
<1>4. CachesAreSound' /\ \A f \in Evaluators : Walks(f)'
  BY <1>2, <1>3, DiscardKeepsOrder
<1>5. QED
  BY <1>3, <1>4 DEF PushInv

LEMMA StepKeepsOrder ==
  ASSUME NoMerges, PushInv, [Next]_vars
  PROVE  PushInv'
<1>1. TypeOK'
  BY StepIsTyped DEF PushInv
<1>2. ASSUME NEW s \in Shas, Push(s) PROVE PushInv'
  BY <1>1, <1>2, PushGrows, WorldKeepsOrder DEF Push, PushInv
<1>3. ASSUME NEW s \in Shas, Report(s) PROVE PushInv'
  <2>1. statusAt' = [statusAt EXCEPT ![s] = IF @ = 0 THEN clock ELSE @]
    BY <1>3 DEF Report, PushInv, TypeOK
  <2>2. Grows /\ GitHubInOrder'
    BY <1>1, <1>3, <2>1, StatusGrows DEF Report, PushInv
  <2>3. QED
    BY <1>1, <1>3, <2>2, WorldKeepsOrder DEF Report
<1>4. CASE Tick
  <2>1. UNCHANGED github /\ clock <= clock'
    BY <1>4 DEF Tick, PushInv, TypeOK
  <2>2. QED
    BY <1>1, <1>4, <2>1, StillGrows, WorldKeepsOrder DEF Tick, PushInv
<1>5. ASSUME NEW e \in Evaluators, Evaluate(e) PROVE PushInv'
  <2>1. ASSUME Fail(e) PROVE PushInv'
    <3>1. \A i \in Instances, s \in Shas : cache'[i][s] \in {0, cache[i][s]}
      BY <2>1 DEF Fail
    <3>2. QED
      BY <1>1, <2>1, <3>1, EndKeepsOrder DEF Fail
  <2>2. QED
    BY <1>1, <1>5, <2>1, StartKeepsOrder, ReadCommitsKeepsOrder, AskKeepsOrder,
       TryPushedAtKeepsOrder, LoadPushedAtKeepsOrder, PostKeepsOrder DEF Evaluate
<1>6. ASSUME NEW i \in Instances, Restart(i) PROVE PushInv'
  <2>1. \A j \in Instances, s \in Shas : cache'[j][s] \in {0, cache[j][s]}
    BY <1>6 DEF Restart, None, PushInv, TypeOK
  <2>2. Discard({e \in Evaluators : InstanceOf[e] = i}) /\ UNCHANGED <<github, clock>>
    BY <1>6 DEF Restart
  <2>3. QED
    BY <1>1, <2>1, <2>2, EndKeepsOrder
<1>7. ASSUME NEW i \in Instances, NEW s \in Shas, Evict(i, s) PROVE PushInv'
  <2>1. \A j \in Instances, t \in Shas : cache'[j][t] \in {0, cache[j][t]}
    BY <1>7 DEF Evict, PushInv, TypeOK
  <2>2. /\ UNCHANGED github /\ clock <= clock'
        /\ UNCHANGED <<phase, head, now, commits, tried, last, used, local>>
    BY <1>7 DEF Evict, evaluation, PushInv, TypeOK
  <2>3. Grows /\ GitHubInOrder'
    BY <1>1, <2>2, StillGrows DEF PushInv
  <2>4. CachesAreSound'
    BY <1>1, <2>1, <2>2, <2>3, CachesStay DEF PushInv
  <2>5. ASSUME NEW f \in Evaluators PROVE Walks(f)'
    BY <1>1, <2>2, <2>3, WalkStays DEF PushInv
  <2>6. QED
    BY <1>1, <2>3, <2>4, <2>5 DEF PushInv
<1>8. CASE UNCHANGED vars
  <2>1. UNCHANGED <<cache, evaluation>> /\ UNCHANGED github /\ clock <= clock'
    BY <1>8 DEF vars, PushInv, TypeOK
  <2>2. QED
    BY <1>1, <2>1, StillGrows, WorldKeepsOrder DEF PushInv
<1>9. QED
  BY <1>2, <1>3, <1>4, <1>5, <1>6, <1>7, <1>8 DEF Next

LEMMA OrderSuffices ==
  ASSUME PushInv
  PROVE  NeverBeforePush /\ StatusEndsTheWait
<1>1. ASSUME NEW s \in Shas
      PROVE  /\ \A i \in Instances :
                  cache[i][s] # 0 => arrivedAt[s] # 0 /\ cache[i][s] >= arrivedAt[s]
             /\ \A e \in Evaluators :
                  phase[e] = "answered" /\ s \in tried[e]
                  => arrivedAt[s] # 0 /\ used[e] >= arrivedAt[s]
  BY DEF PushInv, CachesAreSound, Walks, Sound
<1>2. ASSUME NEW e \in Evaluators, phase[e] = "answered", tried[e] = {pull}, statusAt[pull] # 0,
             \A h \in heads : pull \in History[h] => h = pull
      PROVE  used[e] <= statusAt[pull]
  <2>1. Sound(pull, used[e])
    BY <1>2 DEF PushInv, Walks
  <2>2. QED
    BY <1>2, <2>1 DEF Sound, IsTip
<1>3. QED
  BY <1>1, <1>2 DEF NeverBeforePush, StatusEndsTheWait

-----------------------------------------------------------------------------
(* Unless a commit of the pull request has two parents in it, no process   *)
(* ever takes a commit for older than it is, however its evaluations       *)
(* interleave with pushes and force-pushes, statuses, evictions and        *)
(* restarts (PushedAt).                                                    *)
THEOREM PushTimesAreNeverEarly ==
  ASSUME NoMerges
  PROVE  Spec => []NeverBeforePush
<1>1. PushInv /\ [Next]_vars => PushInv'
  BY StepKeepsOrder
<1>2. PushInv => NeverBeforePush
  BY OrderSuffices
<1>3. QED
  BY <1>1, <1>2, InitIsSound, PTL DEF Spec

(* Unless a commit of the pull request has two parents in it, the first    *)
(* status of the head ends the wait for approvals that count, in every     *)
(* process.                                                                *)
THEOREM StatusBoundsThePushTime ==
  ASSUME NoMerges
  PROVE  Spec => []StatusEndsTheWait
<1>1. PushInv /\ [Next]_vars => PushInv'
  BY StepKeepsOrder
<1>2. PushInv => StatusEndsTheWait
  BY OrderSuffices
<1>3. QED
  BY <1>1, <1>2, InitIsSound, PTL DEF Spec
=============================================================================
