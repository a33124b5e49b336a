------------------------------ MODULE PushTimes ------------------------------
(***************************************************************************)
(* When the commits of a pull request were pushed.  GitHub does not say,   *)
(* so every evaluation estimates it, and the processes cache what they     *)
(* found (PushedAt and loadPushedAt of pull/github.go, global_cache.go).   *)
(*                                                                         *)
(* The zero time, for "none", is 0.  History[s] is s with the commits that *)
(* it was made from, without those of the base branch.                     *)
(***************************************************************************)
EXTENDS Naturals, FiniteSets

CONSTANTS
  Shas, Parents, History,
  FirstHead,                   \* the head the pull request was opened with
  Evaluators, Instances,
  InstanceOf,                  \* the process an evaluation runs in
  MaxTime                      \* bound on the clock

ASSUME PushTimesAssumption ==
  /\ Parents \in [Shas -> SUBSET Shas]
  /\ History \in [Shas -> SUBSET Shas]
  /\ \A s \in Shas : /\ History[s] = {s} \union UNION {History[p] : p \in Parents[s]}
                     /\ \A t \in History[s] : History[t] \subseteq History[s]
  /\ \A some \in (SUBSET Shas) \ {{}} :  \* parents come first
       \E s \in some : Parents[s] \intersect some = {}
  /\ FirstHead \in Shas
  /\ InstanceOf \in [Evaluators -> Instances]
  /\ MaxTime \in Nat

VARIABLES
  pull,        \* the head of the pull request
  heads,       \* the heads it has had: what a payload may say
  arrivedAt,   \* when each commit was first on GitHub
  statusAt,    \* the time of the oldest status of each commit
  clock,
  cache,       \* LRUGlobalCache of each process
  phase, head, now, commits,   \* GitHubContext of each evaluation
  local,       \* its own push times
  tried, last, \* candidateSHAs, and the last of them
  used         \* the push time it used last

evaluation == <<phase, head, now, commits, local, tried, last, used>>
github == <<pull, heads, arrivedAt, statusAt>>
vars == <<github, clock, cache, evaluation>>

None == [s \in Shas |-> 0]

Phases == {"idle", "started", "ready", "cache", "api", "answered"}

Init ==
  /\ pull = FirstHead
  /\ heads = {FirstHead}
  /\ arrivedAt = [s \in Shas |-> IF s \in History[FirstHead] THEN 1 ELSE 0]
  /\ statusAt = None
  /\ clock = 1
  /\ cache = [i \in Instances |-> None]
  /\ phase = [e \in Evaluators |-> "idle"]
  /\ head = [e \in Evaluators |-> FirstHead]
  /\ now = [e \in Evaluators |-> 0]
  /\ commits = [e \in Evaluators |-> {}]
  /\ local = [e \in Evaluators |-> None]
  /\ tried = [e \in Evaluators |-> {}]
  /\ last = [e \in Evaluators |-> FirstHead]
  /\ used = [e \in Evaluators |-> 0]

-----------------------------------------------------------------------------
(***************************************************************************)
(* The pull request and its commits.                                       *)
(***************************************************************************)
(* A push brings a commit and what it was made from; it is never repeated. *)
Push(s) ==
  /\ s \notin heads
  /\ pull' = s
  /\ heads' = heads \union {s}
  /\ arrivedAt' = [t \in Shas |-> IF t \in History[s] /\ arrivedAt[t] = 0
                                  THEN clock ELSE arrivedAt[t]]
  /\ UNCHANGED <<statusAt, clock, cache, evaluation>>

(* Anybody may be the first to report on a commit that GitHub has. *)
Report(s) ==
  /\ arrivedAt[s] # 0
  /\ statusAt[s] = 0
  /\ statusAt' = [statusAt EXCEPT ![s] = clock]
  /\ UNCHANGED <<pull, heads, arrivedAt, clock, cache, evaluation>>

Tick ==
  /\ clock < MaxTime
  /\ clock' = clock + 1
  /\ UNCHANGED <<github, cache, evaluation>>

-----------------------------------------------------------------------------
(***************************************************************************)
(* An evaluation asks for the push times of one commit after the other.    *)
(***************************************************************************)
(* An evaluation that ends takes its context with it. *)
Discard(es) ==
  /\ phase' = [e \in Evaluators |-> IF e \in es THEN "idle" ELSE phase[e]]
  /\ head' = [e \in Evaluators |-> IF e \in es THEN FirstHead ELSE head[e]]
  /\ now' = [e \in Evaluators |-> IF e \in es THEN 0 ELSE now[e]]
  /\ commits' = [e \in Evaluators |-> IF e \in es THEN {} ELSE commits[e]]
  /\ local' = [e \in Evaluators |-> IF e \in es THEN None ELSE local[e]]
  /\ tried' = [e \in Evaluators |-> IF e \in es THEN {} ELSE tried[e]]
  /\ last' = [e \in Evaluators |-> IF e \in es THEN FirstHead ELSE last[e]]
  /\ used' = [e \in Evaluators |-> IF e \in es THEN 0 ELSE used[e]]

(* NewGitHubContext: a payload is of any head there has been. *)
Start(e, h) ==
  /\ phase[e] = "idle"
  /\ h \in heads
  /\ phase' = [phase EXCEPT ![e] = "started"]
  /\ head' = [head EXCEPT ![e] = h]
  /\ now' = [now EXCEPT ![e] = clock]
  /\ UNCHANGED <<github, clock, cache, commits, local, tried, last, used>>

(* Commits: those of the head of now, with its own or processCommits fails. *)
ReadCommits(e) ==
  /\ phase[e] = "started"
  /\ head[e] \in History[pull]
  /\ phase' = [phase EXCEPT ![e] = "ready"]
  /\ commits' = [commits EXCEPT ![e] = History[pull]]
  /\ UNCHANGED <<github, clock, cache, head, now, local, tried, last, used>>

(* Mistaken: the commit itself is not among the candidates. *)
AskBeyond(e, s) ==
  /\ phase[e] \in {"ready", "answered"}
  /\ s \in History[head[e]]
  /\ phase' = [phase EXCEPT ![e] = "cache"]
  /\ tried' = [tried EXCEPT ![e] = {}]
  /\ last' = [last EXCEPT ![e] = s]
  /\ UNCHANGED <<github, clock, cache, head, now, commits, local, used>>

(* PushedAt of the most recent commit that counts, which is the head or below it. *)
Ask(e, s) ==
  /\ phase[e] \in {"ready", "answered"}
  /\ s \in History[head[e]]
  /\ phase' = [phase EXCEPT ![e] = "cache"]
  /\ tried' = [tried EXCEPT ![e] = {s}]
  /\ last' = [last EXCEPT ![e] = s]
  /\ UNCHANGED <<github, clock, cache, head, now, commits, local, used>>

(* What was found holds for every commit that was tried. *)
With(times, shas, t) == [s \in Shas |-> IF s \in shas THEN t ELSE times[s]]

Answer(e, t) ==
  /\ phase' = [phase EXCEPT ![e] = "answered"]
  /\ local' = [local EXCEPT ![e] = With(@, tried[e], t)]
  /\ cache' = [cache EXCEPT ![InstanceOf[e]] = With(@, tried[e], t)]
  /\ used' = [used EXCEPT ![e] = t]
  /\ UNCHANGED <<github, clock, head, now, commits, tried, last>>

(* The local cache before the one of the process. *)
Cached(e, s) == IF local[e][s] # 0 THEN local[e][s] ELSE cache[InstanceOf[e]][s]

TryPushedAt(e) ==
  /\ phase[e] = "cache"
  /\ IF Cached(e, last[e]) # 0
       THEN Answer(e, Cached(e, last[e]))
       ELSE /\ phase' = [phase EXCEPT ![e] = "api"]
            /\ UNCHANGED <<github, clock, cache, head, now, commits, local, tried, last, used>>

(* Mistaken: the head is a commit like any other. *)
ChildrenOfAny(e, s) == {c \in commits[e] : s \in Parents[c]}

(* nextChildCommit: one with this parent, unless this is the head. *)
Children(e, s) == IF s = head[e] THEN {} ELSE {c \in commits[e] : s \in Parents[c]}

(* Mistaken: the first status of the list, which is the latest. *)
LatestStatus(s) == IF statusAt[s] = 0 THEN 0 ELSE clock

(* loadPushedAt: the last status of the last page, none if there is no status. *)
OldestStatus(s) == statusAt[s]

(* The loop of PushedAt: without a status the child of the commit decides, or now. *)
LoadPushedAt(e) ==
  /\ phase[e] = "api"
  /\ LET s == last[e]
     IN  CASE OldestStatus(s) # 0 -> Answer(e, OldestStatus(s))
           [] OldestStatus(s) = 0 /\ Children(e, s) = {} -> Answer(e, now[e])
           [] OTHER ->
                \E c \in Children(e, s) :
                  /\ phase' = [phase EXCEPT ![e] = "cache"]
                  /\ tried' = [tried EXCEPT ![e] = @ \union {c}]
                  /\ last' = [last EXCEPT ![e] = c]
                  /\ UNCHANGED <<github, clock, cache, head, now, commits, local, used>>

(* PostStatus of the result; a call that failed, at any time, ends the evaluation. *)
Post(e) ==
  /\ phase[e] = "answered"
  /\ statusAt' = [statusAt EXCEPT ![head[e]] = IF @ = 0 THEN clock ELSE @]
  /\ Discard({e})
  /\ UNCHANGED <<pull, heads, arrivedAt, clock, cache>>

Fail(e) ==
  /\ phase[e] \in {"started", "api", "answered"}
  /\ Discard({e})
  /\ UNCHANGED <<github, clock, cache>>

-----------------------------------------------------------------------------
(* The LRU cache may drop any entry. *)
Evict(i, s) ==
  /\ cache[i][s] # 0
  /\ cache' = [cache EXCEPT ![i][s] = 0]
  /\ UNCHANGED <<github, clock, evaluation>>

Restart(i) ==
  /\ cache' = [cache EXCEPT ![i] = None]
  /\ Discard({e \in Evaluators : InstanceOf[e] = i})
  /\ UNCHANGED <<github, clock>>

Evaluate(e) ==
  \/ \E s \in Shas : Start(e, s) \/ Ask(e, s)
  \/ ReadCommits(e) \/ TryPushedAt(e) \/ LoadPushedAt(e) \/ Post(e) \/ Fail(e)

Next ==
  \/ \E s \in Shas : Push(s) \/ Report(s)
  \/ Tick
  \/ \E e \in Evaluators : Evaluate(e)
  \/ \E i \in Instances : Restart(i) \/ \E s \in Shas : Evict(i, s)

Spec == Init /\ [][Next]_vars

-----------------------------------------------------------------------------
(***************************************************************************)
(* Properties.                                                             *)
(***************************************************************************)
TypeOK ==
  /\ pull \in heads /\ heads \subseteq Shas
  /\ arrivedAt \in [Shas -> Nat] /\ statusAt \in [Shas -> Nat] /\ clock \in Nat
  /\ cache \in [Instances -> [Shas -> Nat]]
  /\ phase \in [Evaluators -> Phases]
  /\ head \in [Evaluators -> Shas] /\ now \in [Evaluators -> Nat]
  /\ commits \in [Evaluators -> SUBSET Shas]
  /\ local \in [Evaluators -> [Shas -> Nat]]
  /\ tried \in [Evaluators -> SUBSET Shas] /\ last \in [Evaluators -> Shas]
  /\ used \in [Evaluators -> Nat]
  /\ \A e \in Evaluators : phase[e] \in {"cache", "api", "answered"} => last[e] \in tried[e]

(* No branches are merged: no commit has two parents. *)
NoMerges == \A c \in Shas : \A p, q \in Parents[c] : p = q

(* A push time is never before the push, whichever process found it and      *)
(* whenever: an approval from before a commit is never taken for one of it   *)
(* (README, "Invalidating Approval on Push").                                *)
NeverBeforePush ==
  \A s \in Shas :
    /\ \A i \in Instances : cache[i][s] # 0 => arrivedAt[s] # 0 /\ cache[i][s] >= arrivedAt[s]
    /\ \A e \in Evaluators :
         phase[e] = "answered" /\ s \in tried[e] => arrivedAt[s] # 0 /\ used[e] >= arrivedAt[s]

(* Who approves after the head has its first status is heard: no evaluation of *)
(* the head takes a later push time, also from a cache that was filled before  *)
(* the status (README, "leave a second approval ... after policy-bot adds the  *)
(* pending status check").                                                     *)
StatusEndsTheWait ==
  \A e \in Evaluators :
    /\ phase[e] = "answered" /\ tried[e] = {pull} /\ head[e] = pull
    /\ statusAt[pull] # 0
    /\ \A h \in heads : pull \in History[h] => h = pull
    => used[e] <= statusAt[pull]
=============================================================================
