---------------------------- MODULE ReviewRequests ----------------------------
(***************************************************************************)
(* Whom policy-bot asks for a review (eval_context_reviewers.go,           *)
(* policy/reviewer, pull/github.go).  An evaluation selects users and      *)
(* teams, waits, reads who is asked already and asks the others, while     *)
(* other evaluations do the same and people review, push, assign reviewers *)
(* and remove them.                                                        *)
(*                                                                         *)
(* Users and teams have different names.  Webhooks of comments and reviews *)
(* never request anything, so they do not occur.                           *)
(***************************************************************************)
EXTENDS Naturals, Sequences, FiniteSets, FiniteSetsExt

CONSTANTS
  NameOrder,     \* everyone's place when names are sorted
  Author,
  PermissionOf,  \* the permission of each user, 0 for none
  Direct,        \* the permission each user was given on the repository itself
  TeamMembers, OrgMembers,
  RepoTeams,     \* the permission of the teams that have one
  Order,         \* what the seed makes random: for the lengths of the lists so
                 \* far, when it is whose turn in the last of them
  Scenarios,     \* the rules and what joins them
  Evaluators, MaxHead, MaxChanges

VARIABLES
  scenario,
  draft, head,   \* of the pull request
  approving,     \* the users whose approval counts
  reviewed,      \* who has reviewed which head
  requested, removed,
  due,           \* webhooks: the pull request of each payload
  phase, seen,   \* of each evaluation, with the head it is of
  selection,     \* whom it means to ask
  met,           \* who had reviewed its head, as it has read the reviews
  asked,         \* whom policy-bot has ever asked
  draws,         \* the lists it has drawn from
  alone,         \* nobody else acted since the evaluation has selected
  moved,         \* the pull request changed since an evaluation selected in full
  changes

people == <<draft, head, approving, reviewed>>
evaluation == <<phase, seen, selection, met>>
history == <<asked, draws, alone, moved, changes>>
vars == <<scenario, people, requested, removed, due, evaluation, history>>

Users == DOMAIN NameOrder

(* What a rule may say, and a draw for each list that is longer than one. *)
Modes == {"teams", "all-users", "random-users"}

IsRule(rule) ==
  /\ rule.mode \in Modes /\ rule.required \in Nat /\ rule.count \in Nat
  /\ rule.permissions \subseteq Nat \ {0} /\ IsFiniteSet(rule.permissions)

IsOrder(most) ==
  \A k \in 1..most : \A lengths \in [1..k -> 2..Cardinality(Users \ {Author})] :
    Order[lengths] \in {turn \in [1..lengths[k] -> 1..lengths[k]] :
                         \A i, j \in 1..lengths[k] : turn[i] = turn[j] => i = j}

ASSUME RequestsAssumption ==
  /\ IsFiniteSet(Users) /\ \A u \in Users : NameOrder[u] \in Nat
  /\ \A u, v \in Users : NameOrder[u] = NameOrder[v] => u = v
  /\ Author \in Users /\ DOMAIN PermissionOf = Users
  /\ \A u \in Users : PermissionOf[u] \in Nat
  /\ Users \intersect DOMAIN RepoTeams = {}
  /\ MaxHead \in Nat \ {0} /\ MaxChanges \in Nat
  /\ \A s \in Scenarios :
       /\ Len(s.rules) \in Nat /\ DOMAIN s.rules = 1..Len(s.rules)
       /\ \A n \in 1..Len(s.rules) : IsRule(s.rules[n])
       /\ IsOrder(Len(s.rules))

-----------------------------------------------------------------------------
(***************************************************************************)
(* Selection: a function of the rules and of whose approvals count.        *)
(***************************************************************************)
(* Actors.IsActor, for an approval *)
MayApprove(rule, u) ==
  /\ u # Author
  /\ \/ u \in rule.users
     \/ \E t \in rule.teams : u \in TeamMembers[t]
     \/ \E o \in rule.organizations : u \in OrgMembers[o]
     \/ \E p \in rule.permissions : PermissionOf[u] >= p

Approvals(rule, approvers) == Cardinality({u \in approvers : MayApprove(rule, u)})

(* getReviewRequestRule: requested_count, by default as many as are required. *)
CountOf(rule) == IF rule.count = 0 THEN rule.required ELSE rule.count

IsPending(rule, approvers) == Approvals(rule, approvers) < rule.required \/ rule.waits

(* FindRequests: pending rules of a pending policy which lack approvals. *)
Requests(policy, approvers) ==
  LET rules == 1..Len(policy.rules)
      pending == {n \in rules : IsPending(policy.rules[n], approvers)}
  IN  {n \in pending :
         /\ policy.op = "or" => pending = rules
         /\ policy.rules[n].enabled
         /\ Approvals(policy.rules[n], approvers) < policy.rules[n].required}

(* fillPermissions: what a collaborator has by the repository or its teams. *)
ViaRepo(u) ==
  {Direct[u]} \union {RepoTeams[t] : t \in {s \in DOMAIN RepoTeams : u \in TeamMembers[s]}}

(* RepositoryCollaborators with the least permission the rule names. *)
IsCollaborator(rule, u) ==
  PermissionOf[u] >= IF rule.permissions = {} THEN 1 ELSE Min(rule.permissions)

(* A listing of teams or organizations that fails lists nobody. *)
IsListed(rule, u, lost) ==
  \/ u \in rule.users
  \/ "teams" \notin lost /\ \E t \in rule.teams : u \in TeamMembers[t]
  \/ "organizations" \notin lost /\ \E o \in rule.organizations : u \in OrgMembers[o]
  \/ ViaRepo(u) \intersect rule.permissions # {}

(* Mistaken: the author is a collaborator like any other. *)
CandidatesWithAuthor(rule, lost) ==
  {u \in Users : IsCollaborator(rule, u) /\ IsListed(rule, u, lost)}

(* getPossibleReviewers *)
Candidates(rule, lost) ==
  {u \in Users : u # Author /\ IsCollaborator(rule, u) /\ IsListed(rule, u, lost)}

(* Their places in the sorted list. *)
Place(u, users) == Cardinality({v \in users : NameOrder[v] <= NameOrder[u]})

(* Mistaken: the seed follows the head, not the pull request. *)
RandomOrderOfHead(users, lengths) ==
  LET size == Cardinality(users)
  IN  [u \in users |->
         IF size <= 1 THEN 1
         ELSE Order[Append(lengths, size)][1 + ((Place(u, users) + head) % size)]]

(* randomlyOrderUsers: when it is whose turn.  The seed makes it a function of  *)
(* the draws so far and of how many there are to draw from; one user is not     *)
(* drawn.                                                                       *)
RandomOrder(users, lengths) ==
  LET size == Cardinality(users)
  IN  [u \in users |->
         IF size <= 1 THEN 1 ELSE Order[Append(lengths, size)][Place(u, users)]]

WithoutApprovers(rule, approvers, users) ==
  {u \in users : ~(u \in approvers /\ MayApprove(rule, u))}

FirstOf(users, turn, n) ==
  {u \in users : Cardinality({v \in users : turn[v] < turn[u]}) < n}

(* How many of them: what is still needed, or what is left of a larger count. *)
NumberToAsk(rule, approvers) ==
  IF CountOf(rule) >= rule.required
    THEN Max({0, CountOf(rule) - Approvals(rule, approvers)})
    ELSE Min({CountOf(rule), rule.required - Approvals(rule, approvers)})

DrawnUsers(rule, approvers, turn) ==
  FirstOf(WithoutApprovers(rule, approvers, DOMAIN turn), turn, NumberToAsk(rule, approvers))

(* selectTeamReviewers *)
SelectedTeams(rule) ==
  {t \in DOMAIN RepoTeams : t \in rule.teams \/ RepoTeams[t] \in rule.permissions}

(* selectTeamReviewers, or selectUserReviewers from those who are possible. *)
SelectFor(rule, users, lengths, approvers) ==
  CASE rule.mode = "teams" -> SelectedTeams(rule)
    [] rule.mode = "all-users" -> WithoutApprovers(rule, approvers, users)
    [] rule.mode = "random-users" ->
         DrawnUsers(rule, approvers, RandomOrder(users, lengths))

(* The lengths of the lists that were drawn from, up to each rule. *)
Lengths(rules, possible) ==
  LET lengths[n \in 0..Len(rules)] ==
        IF n = 0 THEN <<>>
        ELSE IF /\ n \in DOMAIN possible /\ rules[n].mode = "random-users"
                /\ Cardinality(possible[n]) > 1
               THEN Append(lengths[n - 1], Cardinality(possible[n]))
               ELSE lengths[n - 1]
  IN  lengths

(* SelectReviewers: for one rule after the other, with the lists it draws from. *)
SelectReviewers(policy, approvers, lost) ==
  LET rules == policy.rules
      requests == Requests(policy, approvers)
      possible == [n \in requests |-> Candidates(rules[n], lost)]
      lengths == Lengths(rules, possible)
  IN  [who |-> UNION {SelectFor(rules[n], possible[n], lengths[n - 1], approvers) :
                        n \in requests},
       lists |-> {[rule |-> rules[n], of |-> possible[n], after |-> lengths[n - 1]] :
                    n \in {m \in requests : rules[m].mode # "teams"}}]

-----------------------------------------------------------------------------
Init ==
  /\ scenario \in Scenarios
  /\ draft \in BOOLEAN /\ head = 1
  /\ approving = {} /\ reviewed = {}
  /\ requested = {} /\ removed = {}
  /\ due = {[head |-> 1, draft |-> draft]}
  /\ phase = [e \in Evaluators |-> "idle"]
  /\ seen = [e \in Evaluators |-> 0]
  /\ selection = [e \in Evaluators |-> {}]
  /\ met = [e \in Evaluators |-> {}]
  /\ asked = {} /\ draws = {}
  /\ alone = [e \in Evaluators |-> FALSE]
  /\ moved = TRUE /\ changes = 0

-----------------------------------------------------------------------------
(***************************************************************************)
(* The people of the pull request.                                         *)
(***************************************************************************)
Change ==
  /\ changes < MaxChanges
  /\ changes' = changes + 1
  /\ UNCHANGED <<scenario, evaluation, asked, draws>>

Nobody == [e \in Evaluators |-> FALSE]

Tell == due' = due \union {[head |-> head', draft |-> draft']}

(* A push, after which the approvals may count no more. *)
Push ==
  /\ Change /\ head < MaxHead
  /\ head' = head + 1
  /\ approving' \in {approving, {}}
  /\ moved' = TRUE
  /\ UNCHANGED <<draft, reviewed, requested, removed, alone>>
  /\ Tell

(* Of a draft, nobody is told; it is, when the draft is ready. *)
ConvertToDraft ==
  /\ Change /\ ~draft
  /\ draft' = TRUE
  /\ UNCHANGED <<head, approving, reviewed, requested, removed, due, alone, moved>>

MarkReady ==
  /\ Change /\ draft
  /\ draft' = FALSE
  /\ moved' = TRUE
  /\ UNCHANGED <<head, approving, reviewed, requested, removed, alone>>
  /\ Tell

(* Labels, statuses, checks and edits make the policy be evaluated again. *)
Report ==
  /\ Change
  /\ UNCHANGED <<people, requested, removed, alone, moved>>
  /\ Tell

(* A review answers the request to its author and to the author's teams. *)
Review(u) ==
  LET answered == {w \in requested : w = u \/ (w \in DOMAIN TeamMembers /\ u \in TeamMembers[w])}
  IN  /\ Change /\ u # Author
      /\ reviewed' = reviewed \union {[who |-> w, head |-> head] : w \in answered \union {u}}
      /\ requested' = requested \ answered
      /\ approving' \in {approving, approving \union {u}}
      /\ alone' = Nobody /\ moved' = TRUE
      /\ UNCHANGED <<draft, head, removed, due>>

(* An approval is dismissed, deleted or outdated. *)
Withdraw(u) ==
  /\ Change /\ u \in approving
  /\ approving' = approving \ {u}
  /\ alone' = Nobody /\ moved' = TRUE
  /\ UNCHANGED <<draft, head, reviewed, requested, removed, due>>

Assign(w) ==
  /\ Change /\ w \notin requested
  /\ requested' = requested \union {w}
  /\ alone' = Nobody
  /\ UNCHANGED <<people, removed, due, moved>>

Unassign(w) ==
  /\ Change /\ w \in requested
  /\ requested' = requested \ {w}
  /\ removed' = removed \union {w}
  /\ alone' = Nobody
  /\ UNCHANGED <<people, due, moved>>

-----------------------------------------------------------------------------
(***************************************************************************)
(* Evaluations.                                                            *)
(***************************************************************************)
Reviewers(h) == {r.who : r \in {q \in reviewed : q.head = h}}

(* requestReviewsForResult, and requestReviews until it waits. *)
Select(e, event, lost) ==
  LET selected == SelectReviewers(scenario, approving, lost)
      asks == ~event.draft /\ selected.who # {}
  IN  /\ phase[e] = "idle" /\ event \in due
      /\ due' = due \ {event}
      /\ phase' = [phase EXCEPT ![e] = IF asks THEN "waiting" ELSE @]
      /\ seen' = [seen EXCEPT ![e] = IF asks THEN event.head ELSE @]
      /\ selection' = [selection EXCEPT ![e] = IF asks THEN selected.who ELSE @]
      /\ met' = [met EXCEPT ![e] = IF asks THEN Reviewers(event.head) ELSE @]
      /\ draws' = IF asks THEN draws \union selected.lists ELSE draws
      /\ alone' = [alone EXCEPT ![e] = asks]
      /\ moved' = IF lost = {} /\ event = [head |-> head, draft |-> draft] THEN FALSE ELSE moved
      /\ UNCHANGED <<scenario, people, requested, removed, asked, changes>>

End(e) ==
  /\ phase' = [phase EXCEPT ![e] = "idle"]
  /\ seen' = [seen EXCEPT ![e] = 0]
  /\ selection' = [selection EXCEPT ![e] = {}]
  /\ met' = [met EXCEPT ![e] = {}]

(* Mistaken: who was removed may be asked again. *)
ExistingRequests(e) == requested \union met[e]

(* Mistaken: a review of any head answers for all of them. *)
ExistingOfAnyHead(e) == requested \union removed \union {r.who : r \in reviewed}

(* RequestedReviewers of now, and the reviews the evaluation has read before. *)
Existing(e) == requested \union removed \union met[e]

(* After the wait: the reviewers there are, and Selection.Difference. *)
ReadReviewers(e) ==
  /\ phase[e] = "waiting"
  /\ IF selection[e] \subseteq Existing(e)
       THEN End(e)
       ELSE /\ phase' = [phase EXCEPT ![e] = "asking"]
            /\ selection' = [selection EXCEPT ![e] = @ \ Existing(e)]
            /\ UNCHANGED <<seen, met>>
  /\ UNCHANGED <<scenario, people, requested, removed, due, history>>

(* RequestReviewers of GitHub. *)
Request(e) ==
  /\ phase[e] = "asking"
  /\ requested' = requested \union selection[e]
  /\ asked' = asked \union selection[e]
  /\ alone' = [f \in Evaluators |-> f = e /\ alone[e]]
  /\ End(e)
  /\ UNCHANGED <<scenario, people, removed, due, draws, moved, changes>>

(* A call fails: before the selection, after the wait, or the request itself. *)
Drop(event) ==
  /\ event \in due
  /\ due' = due \ {event}
  /\ moved' = TRUE
  /\ UNCHANGED <<scenario, people, requested, removed, evaluation, asked, draws, alone, changes>>

Fail(e) ==
  /\ phase[e] # "idle"
  /\ End(e)
  /\ moved' = TRUE
  /\ UNCHANGED <<scenario, people, requested, removed, due, asked, draws, alone, changes>>

Next ==
  \/ Push \/ ConvertToDraft \/ MarkReady \/ Report
  \/ \E u \in Users : Review(u) \/ Withdraw(u) \/ Assign(u) \/ Unassign(u)
  \/ \E t \in DOMAIN RepoTeams : Assign(t) \/ Unassign(t)
  \/ \E event \in due : \/ Drop(event)
                        \/ \E e \in Evaluators, lost \in SUBSET {"teams", "organizations"} :
                             Select(e, event, lost)
  \/ \E e \in Evaluators : ReadReviewers(e) \/ Request(e) \/ Fail(e)

Spec == Init /\ [][Next]_vars

-----------------------------------------------------------------------------
(***************************************************************************)
(* Properties.                                                             *)
(***************************************************************************)
Names == Users \union DOMAIN RepoTeams

(* Every variable keeps its type; only collaborators other than the author,  *)
(* and teams of the repository, are ever asked.                              *)
TypeOK ==
  /\ scenario \in Scenarios
  /\ draft \in BOOLEAN /\ head \in 1..MaxHead
  /\ approving \subseteq Users
  /\ requested \subseteq Names /\ removed \subseteq Names
  /\ \A r \in reviewed : r.who \in Names /\ r.head \in 1..head
  /\ \A event \in due : event.head \in 1..head /\ event.draft \in BOOLEAN
  /\ \A e \in Evaluators :
       /\ phase[e] \in {"idle", "waiting", "asking"}
       /\ (phase[e] = "idle") = (selection[e] = {})
       /\ seen[e] \in 0..head /\ met[e] \subseteq Names
  /\ asked \subseteq Names \ {Author}
  /\ \A u \in asked \intersect Users : PermissionOf[u] > 0
  /\ changes \in 0..MaxChanges

(* The most users that a rule may ask for from one list. *)
MostOf(drawn) ==
  LET size == Cardinality(drawn.of)
  IN  IF drawn.rule.mode = "all-users" THEN size
      ELSE Min({size, Max({CountOf(drawn.rule), drawn.rule.required})})

(* However often and by however many evaluations it is evaluated, whoever     *)
(* approves, is removed or pushes: of a list of candidates no more are asked  *)
(* than one evaluation would ask, as the seed makes each draw the same order  *)
(* (requestReviews: "repeated evaluations produce the same set of reviewers").*)
FewAreAsked ==
  Cardinality(asked \intersect Users)
    <= Cardinality(UNION {{drawn} \X (1..MostOf(drawn)) : drawn \in draws})

(* An evaluation during which nobody else acts asks nobody a second time, but *)
(* for a review of another head than the one it is of (requestReviews and     *)
(* Difference: reviewers that were removed are not added again).              *)
AskedOnce ==
  [][\A e \in Evaluators :
       phase[e] = "asking" /\ phase'[e] = "idle" /\ alone[e]
       => \A w \in (requested' \ requested) \intersect asked :
            \E r \in reviewed : r.who = w /\ r.head # seen[e]]_vars

(* Once all webhooks are handled, whoever the rules select is asked, has been *)
(* removed or has reviewed the head, unless a call failed or the approvals    *)
(* changed since: no evaluation, of whichever payload and at whichever speed, *)
(* keeps another from asking.                                                 *)
EnoughAreAsked ==
  (/\ due = {} /\ \A e \in Evaluators : phase[e] = "idle"
   /\ ~draft /\ ~moved)
  => SelectReviewers(scenario, approving, {}).who \subseteq requested \union removed \union Reviewers(head)
=============================================================================
