---------------------------- MODULE PolicyEvents ----------------------------
(***************************************************************************)
(* From a change of a pull request to its status: which webhook tells of   *)
(* it, which handler skips it, and what the policy then says               *)
(* (server/handler, policy/common/trigger.go, PolicyTree).                 *)
(*                                                                         *)
(* One handler runs at a time and reads the pull request in one step;      *)
(* EvaluationPipeline has the readings apart and payloads that are out of  *)
(* date.  Two webhooks that say the same and are both due count as one.    *)
(***************************************************************************)
EXTENDS PolicyTree

CONSTANTS
  Scenarios,    \* a pull request, the policies of its base branch and what may change
  MaxChanges    \* bound on the changes of the pull request

(* GetConclusion of a check run or workflow run that is not completed. *)
NoConclusion == ""

(* What the pull request of a scenario has, whatever its values.            *)
Fields == {"author", "base", "source", "repository", "title", "labels", "files", "commits",
           "head", "statuses", "checks", "runs", "told", "properties", "voices"}

(* GitHub numbers heads and seconds from one; no workflow has run at first,  *)
(* and no event has told of one.                                             *)
ASSUME ScenariosAssumption ==
  /\ MaxChanges \in Nat
  /\ \A s \in Scenarios :
       /\ Len(s.policies) \in Nat \ {0}
       /\ \A n \in 1..Len(s.policies) : IsPolicy(s.policies[n])
       /\ DOMAIN s.pr = Fields /\ s.pr = [f \in Fields |-> s.pr[f]]
       /\ s.pr.head \in Nat \ {0} /\ s.pr.runs = {} /\ s.pr.told = {}
       /\ s.checks \subseteq STRING
       /\ s.pr.checks \in Seq([name : STRING, conclusion : {NoConclusion, "success", "failure"}])
       /\ IsFiniteSet(s.pr.voices) /\ \A v \in s.pr.voices : v.at \in Nat \ {0}

VARIABLES
  scenario,   \* [policies, pr, pushes, titles, labels, statuses, checks, workflows, voices]
  file,       \* which of scenario.policies is in the repository
  cached,     \* which of them PolicyConfigCache answers with
  pr,         \* the pull request, as predicates and methods read it
  truth,      \* what the policy in the repository says of the pull request
  listed,     \* the workflow runs of the head that GitHub lists
  due,        \* the webhooks that have not been handled
  shown,      \* the status of the base branch on the head commit
  judged,     \* the policy it was judged by, 0 for none
  changes

vars == <<scenario, file, cached, pr, truth, listed, due, shown, judged, changes>>

Policy(n) == scenario.policies[n]

Truth(policy, pull) == StatusFor(policy, pull, {})

Event(type, trigger, name, runs) ==
  [type |-> type, trigger |-> trigger, name |-> name, runs |-> runs, head |-> pr.head]

(* Workflow runs change, the list follows later. *)
Put(runs, run) == {r \in runs : r.id # run.id} \union {run}

(* Mistaken: an older version of the run is kept beside the newer. *)
LearnAlways(runs, run) == runs \union {run}

Learn(runs, run) ==
  IF \E r \in runs : r.id = run.id /\ AtLeastAsNew(r, run) THEN runs ELSE Put(runs, run)

-----------------------------------------------------------------------------
Init ==
  /\ scenario \in Scenarios
  /\ file = 1 /\ cached = 1
  /\ pr = scenario.pr
  /\ truth = Truth(Policy(1), scenario.pr)
  /\ listed = {}
  /\ due = {[type |-> "pull_request", trigger |-> {"commit", "pull_request"}, name |-> "",
             runs |-> {}, head |-> scenario.pr.head]}
  /\ shown = "none" /\ judged = 0
  /\ changes = 0

Becomes(pull) ==
  /\ pr' = pull
  /\ truth' = Truth(Policy(file), pull)

Tell(event) ==
  /\ changes < MaxChanges
  /\ changes' = changes + 1
  /\ due' = due \union {event}

Rest == <<scenario, file, cached>>

(* PullRequest.Handle: synchronize.  The new head has no statuses. *)
Push ==
  \E content \in scenario.pushes :
    /\ Becomes([pr EXCEPT !.head = @ + 1, !.files = content.files, !.commits = content.commits,
                        !.statuses = <<>>, !.checks = <<>>, !.runs = {}])
    /\ Tell([Event("pull_request", {"commit"}, "", {}) EXCEPT !.head = pr.head + 1])
    /\ listed' = {} /\ shown' = "none" /\ judged' = 0
    /\ UNCHANGED Rest

(* PullRequest.Handle: edited *)
Retitle ==
  \E title \in scenario.titles \ {pr.title} :
    /\ Becomes([pr EXCEPT !.title = title])
    /\ Tell(Event("pull_request", {"pull_request"}, "", {}))
    /\ UNCHANGED <<Rest, listed, shown, judged>>

(* PullRequest.Handle: labeled, unlabeled *)
Relabel ==
  \E label \in scenario.labels :
    /\ Becomes([pr EXCEPT !.labels = IF label \in @ THEN @ \ {label} ELSE @ \union {label}])
    /\ Tell(Event("pull_request", {"label"}, "", {}))
    /\ UNCHANGED <<Rest, listed, shown, judged>>

(* A commit status, by somebody else. *)
Report ==
  \E name \in scenario.statuses, state \in {"success", "failure"} :
    /\ name \in DOMAIN pr.statuses => pr.statuses[name] # state
    /\ Becomes([pr EXCEPT !.statuses = (name :> state) @@ @])
    /\ Tell(Event("status", {"status"}, name, {}))
    /\ UNCHANGED <<Rest, listed, shown, judged>>

(* A check run that is created and not completed has no conclusion. *)
CreateCheck ==
  \E name \in scenario.checks :
    /\ Becomes([pr EXCEPT !.checks = <<[name |-> name, conclusion |-> NoConclusion]>> \o @])
    /\ Tell(Event("check_run", {"status"}, name, {}))
    /\ UNCHANGED <<Rest, listed, shown, judged>>

CompleteCheck ==
  \E i \in 1..Len(pr.checks), conclusion \in {"success", "failure"} :
    /\ pr.checks[i].conclusion = NoConclusion
    /\ Becomes([pr EXCEPT !.checks[i].conclusion = conclusion])
    /\ Tell(Event("check_run", {"status"}, pr.checks[i].name, {}))
    /\ UNCHANGED <<Rest, listed, shown, judged>>

Running(run) ==
  /\ Becomes([pr EXCEPT !.runs = Put(@, run)])
  /\ Tell(Event("workflow_run", {"status"}, run.path, {run}))
  /\ UNCHANGED <<Rest, listed, shown, judged>>

RequestRun ==
  \E path \in scenario.workflows, event \in {"push", "pull_request"} :
    Running([path |-> path, event |-> event, id |-> 1 + Max({r.id : r \in pr.runs} \union {0}),
             attempt |-> 1, at |-> 0, status |-> "queued", conclusion |-> NoConclusion])

(* A run may complete in the second of its request. *)
CompleteRun ==
  \E run \in pr.runs, conclusion \in {"success", "failure"}, at \in 0..1 :
    /\ run.status # "completed" /\ run.at <= at
    /\ Running([run EXCEPT !.status = "completed", !.conclusion = conclusion, !.at = at])

RepeatRun ==
  \E run \in pr.runs :
    /\ run.status = "completed"
    /\ Running([run EXCEPT !.attempt = @ + 1, !.status = "queued", !.conclusion = NoConclusion])

(* Comments and reviews have times of one second. *)
Speak ==
  \E v \in scenario.voices, later \in 0..1 :
    LET last == Max({w.at : w \in pr.voices} \union {1})
    IN  /\ Becomes([pr EXCEPT !.voices = @ \union
                    {[user |-> v.user, says |-> v.says, by |-> v.by, at |-> last + later]}])
        /\ pr'.voices # pr.voices
        /\ Tell(Event(v.by, {v.by}, v.says, {}))
        /\ UNCHANGED <<Rest, listed, shown, judged>>

(* A comment its author deletes, or a review that is dismissed. *)
Withdraw ==
  \E v \in pr.voices :
    /\ Becomes([pr EXCEPT !.voices = @ \ {v}])
    /\ Tell(Event(v.by, {v.by}, IF v.by = "review" THEN "dismissed" ELSE v.says, {}))
    /\ UNCHANGED <<Rest, listed, shown, judged>>

(* The policy file changes, the cached copy later. *)
ChangePolicy ==
  /\ file < Len(scenario.policies)
  /\ file' = file + 1
  /\ truth' = Truth(Policy(file + 1), pr)
  /\ UNCHANGED <<scenario, cached, pr, listed, due, shown, judged, changes>>

RefreshCache ==
  /\ cached < file
  /\ cached' = file
  /\ UNCHANGED <<scenario, file, pr, truth, listed, due, shown, judged, changes>>

(* GitHub's list of workflow runs follows what has happened. *)
ListRun ==
  \E run \in pr.runs :
    /\ run \notin listed
    /\ listed' = Put(listed, run)
    /\ UNCHANGED <<Rest, pr, truth, due, shown, judged, changes>>

-----------------------------------------------------------------------------
(***************************************************************************)
(* The handlers, with the policy the cache answers with.                   *)
(***************************************************************************)
(* Everything that is defined, whether the tree names it or not. *)
AllPredicates(policy) ==
  (UNION {policy.rules[r].if \union policy.rules[r].conditions : r \in Rules(policy)})
  \union UNION {d.if : d \in policy.disapproval}

(* Mistaken: disapproval is forgotten. *)
StatusNamesOfRules(policy) ==
  UNION {p.statuses : p \in {q \in AllPredicates([policy EXCEPT !.disapproval = {}]) :
                               q.kind \in {"has_status", "has_successful_status"}}}

(* policyStatusNames *)
PolicyStatusNames(policy) ==
  UNION {p.statuses : p \in {q \in AllPredicates(policy) :
                               q.kind \in {"has_status", "has_successful_status"}}}

(* policyWorkflowNames *)
PolicyWorkflowNames(policy) ==
  UNION {p.workflows : p \in {q \in AllPredicates(policy) : q.kind = "has_workflow_result"}}

(* shouldSkipCheckRun, shouldSkipWorkflowRun: a policy without names lists none. *)
ShouldSkip(policy, e) ==
  \/ e.type = "check_run" /\ e.name \notin PolicyStatusNames(policy)
  \/ e.type = "workflow_run" /\ e.name \notin PolicyWorkflowNames(policy)

(* IssueComment.affectsApproval, PullRequestReview.affectsApproval *)
AffectsApproval(policy, e) ==
  LET rules == {policy.rules[r] : r \in Rules(policy)}
      methods(says) == {r \in rules : says = "approve"}
                       \union {IF says = "approve" THEN d.revoke ELSE d.disapprove :
                                 d \in policy.disapproval}
  IN  CASE e.type = "comment" -> \E m \in methods(e.name) : m.comments
        [] e.type = "review" -> e.name = "dismissed" \/ methods(e.name) # {}
        [] OTHER -> TRUE

(* ParsePolicy refuses a policy whatever the trigger; Trigger.Matches. *)
Evaluates(policy, e) ==
  /\ ~ShouldSkip(policy, e)
  /\ IsValid(policy) => e.trigger \intersect PolicyTrigger(policy) # {}
                        /\ AffectsApproval(policy, e)

(* Whether a webhook leads to the pull request as it is.  Of an earlier head, a   *)
(* pull_request payload is complete and judged for its own head.  The others have *)
(* no complete pull request, which is loaded anew: for a comment or a review      *)
(* always, else if the commit leads to it (a fork's runs are searched by the head *)
(* commit, a status by the commits of pull requests, which a force-push takes).   *)
Finds(e) ==
  IF e.head = pr.head THEN {TRUE}
  ELSE CASE e.type = "pull_request" -> {FALSE}
         [] e.type \in {"comment", "review"} -> {TRUE}
         [] OTHER -> BOOLEAN

(* Mistaken: the run of an earlier head counts too. *)
SeenOfAnyHead(e) == [pr EXCEPT !.runs = listed, !.told = e.runs]

(* The run of the event counts with those that are listed, if it is of the head. *)
Seen(e) == [pr EXCEPT !.runs = listed, !.told = IF e.head = pr.head THEN e.runs ELSE {}]

Handle(e) ==
  /\ e \in due
  /\ due' = due \ {e}
  /\ \E found \in Finds(e) :
       IF Evaluates(Policy(cached), e) /\ found
         THEN /\ shown' = StatusFor(Policy(cached), Seen(e), {})
              /\ judged' = cached
         ELSE UNCHANGED <<shown, judged>>
  /\ listed' = IF e.runs # {} /\ e.head = pr.head
               THEN Learn(listed, CHOOSE run \in e.runs : TRUE) ELSE listed
  /\ UNCHANGED <<scenario, file, cached, pr, truth, changes>>

HandleOne == \E e \in due : Handle(e)

Next ==
  \/ Push \/ Retitle \/ Relabel \/ Report \/ CreateCheck \/ CompleteCheck
  \/ RequestRun \/ CompleteRun \/ RepeatRun \/ Speak \/ Withdraw
  \/ ChangePolicy \/ RefreshCache \/ ListRun \/ HandleOne

(* A step of HandleOne, by what it does: only handling takes from due. *)
Handled == \E e \in due : due' = due \ {e}

(* The queue's workers take what there is. *)
Spec == Init /\ [][Next]_vars /\ WF_due(Handled)

-----------------------------------------------------------------------------
(***************************************************************************)
(* Properties.                                                             *)
(***************************************************************************)
Statuses == {"success", "failure", "pending", "error"}

(* Every variable keeps its type: the status of the head was judged by a     *)
(* policy the repository has had, and each workflow run is listed once.      *)
TypeOK ==
  /\ scenario \in Scenarios
  /\ file \in 1..Len(scenario.policies) /\ cached \in 1..file /\ judged \in 0..cached
  /\ shown \in Statuses \union {"none"} /\ (judged = 0) = (shown = "none")
  /\ DOMAIN pr = DOMAIN scenario.pr /\ truth = Truth(Policy(file), pr)
  /\ \A r \in listed : r.id \in {q.id : q \in pr.runs}
  /\ \A q, r \in listed : q.id = r.id => q = r
  /\ \A e \in due : e.head \in 1..pr.head
  /\ changes \in 0..MaxChanges

(* The sets of calls that may fail in one evaluation. *)
Failures == {down \in SUBSET Calls : Cardinality(down) <= 2}

(* A call that fails never turns into an approval: what is approved although *)
(* some calls failed would be approved if none had (OrRequirement and         *)
(* AndRequirement drop and keep the errors of their children, and a predicate *)
(* that negates another passes its errors on).                                *)
ErrorsNeverApprove ==
  truth # "success" => \A down \in Failures : StatusFor(Policy(file), pr, down) # "success"

(* Nothing is approved over a disapproval that stands: whoever may disapprove *)
(* and did was answered by an approval of somebody who may revoke, not in an  *)
(* earlier second, whichever calls fail (disapproval.Policy.IsDisapproved).   *)
DisapprovalStands ==
  LET d == DisapprovalOf(Policy(file))
      may(v) == IsActor(d.requires, v.user, {}) = "yes"
  IN  /\ d.requires # NoActors
      /\ \E down \in Failures : StatusFor(Policy(file), pr, down) = "success"
      => \A v \in Voices(d.disapprove, "disapprove", pr) :
           may(v) => \E w \in Voices(d.revoke, "approve", pr) : may(w) /\ w.at >= v.at

Promise == INSTANCE PolicyStatus
  WITH due <- Cardinality(due), current <- judged = file

(* The handlers implement PolicyStatus: no webhook that matters is skipped,  *)
(* by its trigger, by the names the policy asks for or by what a comment or  *)
(* review says, and no evaluation forgets the run it was told of or takes one *)
(* of an earlier head for one of its own.                                     *)
StatusIsKept == Promise!Spec
=============================================================================
