---------------------------- MODULE ApprovalRule ----------------------------
(***************************************************************************)
(* One approval rule over the life of a pull request: people push, comment,*)
(* review, edit and delete, and the rule is approved, pending or skipped   *)
(* (policy/approval/approve.go, policy/common/methods.go).                 *)
(*                                                                         *)
(* The verdict is a function of the pull request, evaluated in every state.*)
(* Time is GitHub's clock, which counts seconds.                           *)
(***************************************************************************)
EXTENDS PullCommits, FiniteSets

CONSTANTS
  Author,         \* who opened the pull request
  Speakers,       \* bound: who comments and reviews
  Kinds,          \* triggers of the facts that predicates and conditions check
  Rules,          \* the rules to look at
  SharedCommits,  \* commits that are on other branches too
  Submissions,    \* bound: the states of the reviews people submit
  ReviewEdits,    \* the states of the reviews whose text people edit
  FirstHead,      \* the head of the pull request when it is opened
  MaxSteps,       \* bound of the changes people make
  MaxTime         \* bound of the clock

Texts == {"approval", "other"}  \* whether the methods match it
ReviewStates == {"approved", "changes_requested", "commented", "dismissed"}
Submitted == ReviewStates \ {"dismissed"}

(* Options, Requires and Predicates, with the defaults filled in. *)
RuleType ==
  [count : Nat, actors : SUBSET Users, predicates : SUBSET Kinds,
   conditions : SUBSET Kinds, allowAuthor : BOOLEAN, allowContributor : BOOLEAN,
   allowNonAuthorContributor : BOOLEAN, invalidateOnPush : BOOLEAN,
   ignoreEditedComments : BOOLEAN, ignoreUpdateMerges : BOOLEAN,
   ignoreCommitsBy : SUBSET Users, comments : BOOLEAN, githubReview : BOOLEAN,
   reviewPatterns : BOOLEAN, bodyPatterns : BOOLEAN,
   defaulted : BOOLEAN]  \* whether the rule leaves its methods to the defaults

Comments == [user : Users, at : Nat, edited : BOOLEAN, text : Texts]
Reviews == [user : Users, at : Nat, edited : BOOLEAN, text : Texts, state : ReviewStates]

ASSUME RuleAssumption ==
  /\ Author \in Users /\ Speakers \subseteq Users
  /\ Kinds \subseteq {"label", "status", "pull_request"}
  /\ Rules \subseteq RuleType /\ Rules # {}
  /\ SharedCommits \subseteq Shas
  /\ Submissions \subseteq Submitted /\ ReviewEdits \subseteq Submitted
  /\ FirstHead \in Shas \ Base
  /\ MaxSteps \in Nat /\ MaxTime \in Nat

VARIABLES
  rule,       \* the rule, which does not change
  head, comments, reviews, body, facts,  \* the pull request
  statusAt,   \* the time of the oldest status of each commit, 0 if it has none
  arrivedAt,  \* history: when each commit first came to the pull request, or 0
  clock,
  steps       \* counts the changes

content == <<head, comments, reviews, body, facts>>
vars == <<rule, head, comments, reviews, body, facts, statusAt, arrivedAt, clock,
          steps>>

-----------------------------------------------------------------------------
(***************************************************************************)
(* Candidates.                                                             *)
(***************************************************************************)
(* What candidates come from, in the order of the list that has them. *)
Turn == [comment |-> 1, commented |-> 2, body |-> 3, review |-> 4]

Candidate(kind, i, c) ==
  [kind |-> kind, id |-> i, user |-> c.user, at |-> c.at, edited |-> c.edited]

(* The candidates among s: those of the elements that match. *)
Chosen(kind, s, matching) ==
  {Candidate(kind, i, s[i]) : i \in {j \in 1..Len(s) : s[j] \in matching}}

Before(c, d) == Turn[c.kind] < Turn[d.kind] \/ (c.kind = d.kind /\ c.id < d.id)

(* Mistaken: of a user's approving reviews only the last is matched. *)
ApprovesLast(r) ==
  /\ r.state = "approved"
  /\ rule.reviewPatterns => r.text = "approval"
  /\ \A s \in ToSet(reviews) : s.user = r.user /\ s.state = "approved" => s.at <= r.at

(* Whether a review is a candidate. *)
Approves(r) ==
  /\ r.state = "approved"
  /\ rule.reviewPatterns => r.text = "approval"

(* Methods.Candidates, before one per user is kept.  A review that only    *)
(* comments is also a comment, after the others (loadPagedData).             *)
Matching ==
  LET matching(s) == {c \in ToSet(s) : c.text = "approval"}
      description == [user |-> Author, at |-> 1, edited |-> body.edited, text |-> body.text]
  IN  (IF rule.comments
         THEN Chosen("comment", comments, matching(comments))
              \union Chosen("commented", reviews,
                            {r \in matching(reviews) : r.state = "commented"})
         ELSE {})
      \union (IF rule.bodyPatterns
                THEN Chosen("body", <<description>>, matching(<<description>>)) ELSE {})
      \union (IF rule.githubReview \/ rule.reviewPatterns
                THEN Chosen("review", reviews, {r \in ToSet(reviews) : Approves(r)}) ELSE {})

(* Mistaken: a user's first candidate is kept. *)
KeepFirst(all) == {c \in all : \A d \in all : d.user = c.user /\ d # c => Before(c, d)}

(* deduplicateCandidates: a user's latest, the first in the list of several. *)
Deduplicate(all) ==
  {c \in all : \A d \in all : d.user = c.user /\ d # c =>
                 d.at < c.at \/ (d.at = c.at /\ Before(c, d))}

(* PushedAt: the oldest status of the commit, or of the batch it is in.  A  *)
(* batch without a status is taken as pushed now.                           *)
PushedAt(s) ==
  LET child(c) == SelectInSeq(Listing,
                    LAMBDA d : d \in CommitsOf(head) /\ c \in ToSet(Parents[d]))
      at[c \in Shas] ==
        IF statusAt[c] # 0 THEN statusAt[c]
        ELSE IF c = head \/ child(c) = 0 THEN clock
        ELSE at[Listing[child(c)]]
  IN  at[s]

(* filterEditedCandidates *)
KeptByEdits(candidates) ==
  IF rule.ignoreEditedComments THEN {c \in candidates : ~c.edited} ELSE candidates

(* Mistaken: a candidate in the second of the push is after it. *)
KeptByPushesInclusive(candidates) ==
  LET pushedAt == PushedAt(MostRecent(rule, head))
  IN  IF rule.invalidateOnPush /\ FilteredCommits(rule, head) # {}
        THEN {c \in candidates : c.at >= pushedAt}
        ELSE candidates

(* filterInvalidCandidates *)
KeptByPushes(candidates) ==
  LET pushedAt == PushedAt(MostRecent(rule, head))
  IN  IF rule.invalidateOnPush /\ FilteredCommits(rule, head) # {}
        THEN {c \in candidates : c.at > pushedAt}
        ELSE candidates

FilteredCandidates == KeptByPushes(KeptByEdits(Deduplicate(Matching)))

(* Mistaken: who opened the pull request is only banned for its commits. *)
BannedForCommits ==
  IF rule.allowContributor \/ rule.allowNonAuthorContributor THEN {}
  ELSE (UNION {UsersOf[c] : c \in FilteredCommits(rule, head)}) \ {Author}

(* The users that isApprovedByActors disregards. *)
Banned ==
  (IF rule.allowAuthor \/ rule.allowContributor THEN {} ELSE {Author})
  \union (IF rule.allowContributor \/ rule.allowNonAuthorContributor THEN {}
          ELSE (UNION {UsersOf[c] : c \in FilteredCommits(rule, head)}) \ {Author})

Approvers == {c \in FilteredCandidates : c.user \notin Banned /\ c.user \in rule.actors}

IsApproved ==
  /\ rule.count > 0 => Cardinality(Approvers) >= rule.count
  /\ \A k \in rule.conditions : facts[k]

(* Rule.Evaluate *)
Verdict ==
  IF \E k \in rule.predicates : ~facts[k] THEN "skipped"
  ELSE IF IsApproved THEN "approved"
  ELSE "pending"

-----------------------------------------------------------------------------
(***************************************************************************)
(* What people do.                                                         *)
(***************************************************************************)
Init ==
  /\ rule \in Rules
  /\ head = FirstHead
  /\ comments = <<>>
  /\ reviews = <<>>
  /\ body \in [text : Texts, edited : {FALSE}]
  /\ facts \in [Kinds -> BOOLEAN]
  /\ clock = 1
  /\ statusAt = [s \in Shas |-> IF s \in SharedCommits THEN 1 ELSE 0]
  /\ arrivedAt = [s \in Shas |-> IF s \in CommitsOf(head) THEN 1 ELSE 0]
  /\ steps = 0

Step ==
  /\ steps < MaxSteps
  /\ steps' = steps + 1
  /\ UNCHANGED <<rule, statusAt, clock>>

(* Mistaken: the base branch is a head like any other. *)
PushAnything(h) ==
  /\ h # head
  /\ head' = h
  /\ arrivedAt' = [s \in Shas |-> IF arrivedAt[s] = 0 /\ s \in CommitsOf(h) THEN clock
                                  ELSE arrivedAt[s]]
  /\ Step
  /\ UNCHANGED <<comments, reviews, body, facts>>

Push(h) ==
  /\ h \in Shas \ (Base \union {head})
  /\ head' = h
  /\ arrivedAt' = [s \in Shas |-> IF arrivedAt[s] = 0 /\ s \in CommitsOf(h) THEN clock
                                  ELSE arrivedAt[s]]
  /\ Step
  /\ UNCHANGED <<comments, reviews, body, facts>>

Comment(u, t) ==
  /\ comments' = Append(comments, [user |-> u, at |-> clock, edited |-> FALSE, text |-> t])
  /\ Step
  /\ UNCHANGED <<head, reviews, body, facts, arrivedAt>>

EditComment(u, i, t) ==
  /\ t # comments[i].text
  /\ comments' = [comments EXCEPT ![i].text = t, ![i].edited = TRUE]
  /\ Step
  /\ UNCHANGED <<head, reviews, body, facts, arrivedAt>>

DeleteComment(u, i) ==
  /\ comments' = RemoveAt(comments, i)
  /\ Step
  /\ UNCHANGED <<head, reviews, body, facts, arrivedAt>>

(* GitHub lets nobody approve a pull request of their own. *)
Review(u, state, t) ==
  /\ u = Author => state = "commented"
  /\ reviews' = Append(reviews, [user |-> u, at |-> clock, edited |-> FALSE, text |-> t,
                                 state |-> state])
  /\ Step
  /\ UNCHANGED <<head, comments, body, facts, arrivedAt>>

EditReview(i, t) ==
  /\ reviews[i].state \in ReviewEdits
  /\ t # reviews[i].text
  /\ reviews' = [reviews EXCEPT ![i].text = t, ![i].edited = TRUE]
  /\ Step
  /\ UNCHANGED <<head, comments, body, facts, arrivedAt>>

(* Only reviews that approve or request changes can be dismissed. *)
DismissReview(u, i) ==
  /\ reviews[i].state \in {"approved", "changes_requested"}
  /\ reviews' = [reviews EXCEPT ![i].state = "dismissed"]
  /\ Step
  /\ UNCHANGED <<head, comments, body, facts, arrivedAt>>

EditBody ==
  /\ \E t \in Texts \ {body.text} : body' = [text |-> t, edited |-> TRUE]
  /\ Step
  /\ UNCHANGED <<head, comments, reviews, facts, arrivedAt>>

ChangeFact(k) ==
  /\ facts' = [facts EXCEPT ![k] = ~@]
  /\ Step
  /\ UNCHANGED <<head, comments, reviews, body, arrivedAt>>

(* A commit gets its first status, from policy-bot or from another app. *)
Report(s) ==
  /\ s \in CommitsOf(head)
  /\ statusAt[s] = 0
  /\ statusAt' = [statusAt EXCEPT ![s] = clock]
  /\ UNCHANGED <<rule, content, arrivedAt, clock, steps>>

Tick ==
  /\ clock < MaxTime
  /\ clock' = clock + 1
  /\ UNCHANGED <<rule, content, statusAt, arrivedAt, steps>>

Discuss(u) ==
  \/ \E t \in Texts : Comment(u, t)
  \/ \E i \in 1..Len(comments), t \in Texts : EditComment(u, i, t)
  \/ \E i \in 1..Len(comments) : DeleteComment(u, i)
  \/ \E state \in Submissions, t \in Texts : Review(u, state, t)
  \/ \E i \in 1..Len(reviews) : DismissReview(u, i)

Next ==
  \/ \E s \in Shas : Push(s) \/ Report(s)
  \/ \E u \in Speakers : Discuss(u)
  \/ \E i \in 1..Len(reviews), t \in Texts : EditReview(i, t)
  \/ EditBody
  \/ \E k \in Kinds : ChangeFact(k)
  \/ Tick

Spec == Init /\ [][Next]_vars

-----------------------------------------------------------------------------
TypeOK ==
  /\ rule \in Rules
  /\ head \in Shas \ Base
  /\ comments \in Seq(Comments) /\ reviews \in Seq(Reviews)
  /\ body \in [text : Texts, edited : BOOLEAN]
  /\ facts \in [Kinds -> BOOLEAN]
  /\ statusAt \in [Shas -> 0..clock] /\ arrivedAt \in [Shas -> 0..clock]
  /\ clock \in Nat /\ steps \in Nat

(* What the options promise about who may approve. *)
Contributors == UNION {UsersOf[c] : c \in Relevant(rule, head)}

MayApprove(u) ==
  /\ u \in rule.actors
  /\ u = Author => rule.allowAuthor \/ rule.allowContributor
  /\ u # Author /\ u \in Contributors =>
       rule.allowContributor \/ rule.allowNonAuthorContributor

(* The approvals that stand, of those who may: unedited, if the rule asks for it. *)
Approvals ==
  {c \in Matching : MayApprove(c.user) /\ (rule.ignoreEditedComments => ~c.edited)}

People(candidates) == {c.user : c \in candidates}

ByActors == Verdict = "approved" /\ rule.count > 0

(***************************************************************************)
(* An approved rule has its number of approvals from different people who  *)
(* may approve: members who did not commit to the pull request, whichever  *)
(* commit of it that was, unless the options say otherwise.                *)
(***************************************************************************)
EnoughMayApprove == ByActors => Cardinality(People(Approvals)) >= rule.count

(***************************************************************************)
(* With invalidate_on_push, those approvals were given after every commit  *)
(* that counts had come to the pull request.                               *)
(***************************************************************************)
ApprovalsFollowPushes ==
  ByActors /\ rule.invalidateOnPush =>
    Cardinality(People({c \in Approvals :
      \A s \in Relevant(rule, head) : arrivedAt[s] < c.at})) >= rule.count

(***************************************************************************)
(* Of an approved rule with invalidate_on_push, no approval is counted that*)
(* is seconds older than a commit that counts in the pull request.         *)
(***************************************************************************)
NoEarlierApprovalCounts ==
  ByActors /\ rule.invalidateOnPush =>
    \A c \in Approvers, s \in Relevant(rule, head) : arrivedAt[s] <= c.at

(***************************************************************************)
(* Nobody's approval is overlooked: a rule with enough of them, given      *)
(* after policy-bot reported on every commit, is approved.                 *)
(***************************************************************************)
NothingIsOverlooked ==
  LET cleared == {c \in Approvals : rule.invalidateOnPush =>
                    \A s \in CommitsOf(head) : statusAt[s] \in 1..(c.at - 1)}
  IN  /\ \A k \in rule.predicates \union rule.conditions : facts[k]
      /\ Cardinality(People(cleared)) >= rule.count
      => Verdict = "approved"

(***************************************************************************)
(* The last review decides: while the rule is approved, nobody counts by a *)
(* review that was followed by one of theirs that requests changes and is  *)
(* not dismissed (README.md, "Interactions with GitHub Reviews").          *)
(***************************************************************************)
LastReviewDecides ==
  ByActors => \A c \in Approvers, i \in 1..Len(reviews) :
    c.kind = "review" /\ c.id < i /\ reviews[i].user = c.user =>
      reviews[i].state # "changes_requested"

(***************************************************************************)
(* Time, reports, new comments and new reviews that do not request changes,*)
(* whatever they say, never take an approval away: that takes a push, an   *)
(* edit, a deletion, a dismissal or another fact.  (A first status of a    *)
(* commit does, if a newer commit, which an option ignores, had one before *)
(* it.  Requests for changes are LastReviewDecides' business.)             *)
(***************************************************************************)
Harmless ==
  \/ Tick
  \/ \E s \in Shas :
       /\ Report(s)
       /\ \A c \in CommitsOf(head) \ {s} : s \in History[c] => statusAt[c] = 0
  \/ \E u \in Speakers, t \in Texts :
       \/ Comment(u, t)
       \/ \E state \in Submissions \ {"changes_requested"} : Review(u, state, t)

RevocationHasACause ==
  [][Verdict = "approved" /\ Verdict' # "approved" => ~Harmless]_vars
=============================================================================
