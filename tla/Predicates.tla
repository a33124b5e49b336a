----------------------------- MODULE Predicates -----------------------------
(***************************************************************************)
(* The predicates of rules: what each reads of the pull request, when it   *)
(* is satisfied, and which of its readings fail (policy/predicate,         *)
(* policy/common/actor.go, pull/github.go).                                *)
(*                                                                         *)
(* A predicate p is a record with its kind and parameters.  A pattern is   *)
(* the set of the names it matches.  An evaluation in which the GitHub     *)
(* calls "down" fail answers "yes", "no" or "error".                       *)
(***************************************************************************)
EXTENDS Naturals, Sequences, FiniteSets, SequencesExt, FiniteSetsExt

CONSTANTS
  UserOrder,     \* everyone, as their names sort
  TeamMembers,   \* the members of each team
  OrgMembers,    \* the members of each organization
  PermissionOf,  \* the permission of each user, 0 for none
  MaxFiles       \* MaxPullRequestFiles

Calls == {"files", "commits", "labels", "statuses", "workflows", "properties",
          "teams", "organizations", "permissions"}

Answer(b) == IF b THEN "yes" ELSE "no"

Opposite(answer) ==
  CASE answer = "yes" -> "no" [] answer = "no" -> "yes" [] OTHER -> answer

(* The answer of a reading, if its call succeeds. *)
Asking(call, down, b) == IF call \in down THEN "error" ELSE Answer(b)

(* The first answer other than "pass": a loop that returns on it. *)
FirstBut(pass, answers) ==
  LET others == {i \in DOMAIN answers : answers[i] # pass}
  IN  IF others = {} THEN pass ELSE answers[Min(others)]

-----------------------------------------------------------------------------
(* anyMatches, anyGlobMatches *)
AnyMatches(patterns, name) == \E p \in patterns : name \in p

(***************************************************************************)
(* Actors.IsActor: users, teams, organizations, permissions, in this       *)
(* order, and a kind that is not listed makes no call.                     *)
(***************************************************************************)
IsActor(a, u, down) ==
  LET listed(names, call, b) == IF names = {} THEN "no" ELSE Asking(call, down, b)
  IN  FirstBut("no",
        <<Answer(u \in a.users),
          listed(a.teams, "teams", \E t \in a.teams : u \in TeamMembers[t]),
          listed(a.organizations, "organizations",
                 \E o \in a.organizations : u \in OrgMembers[o]),
          listed(a.permissions, "permissions",
                 /\ PermissionOf[u] > 0
                 /\ \E q \in a.permissions : PermissionOf[u] >= q)>>)

NoActors == [users |-> {}, teams |-> {}, organizations |-> {}, permissions |-> {}]

-----------------------------------------------------------------------------
(***************************************************************************)
(* Files.  ChangedFiles of the context splits a renamed file into one that *)
(* was added and one that was deleted, and refuses too many of them.       *)
(***************************************************************************)
File(name, status, additions, deletions) ==
  [name |-> name, status |-> status, additions |-> additions, deletions |-> deletions]

Files(pr) ==
  {File(f.name, IF f.status = "renamed" THEN "added" ELSE f.status, f.additions, f.deletions) :
     f \in pr.files}
  \union {File(f.previous, "deleted", 0, 0) : f \in {g \in pr.files : g.status = "renamed"}}

AskingFiles(pr, down, b) ==
  IF Cardinality(pr.files) > MaxFiles THEN "error" ELSE Asking("files", down, b)

ChangedFiles(p, pr, down) ==
  AskingFiles(pr, down,
    \E f \in Files(pr) : /\ ~AnyMatches(p.ignore, f.name)
                         /\ AnyMatches(p.paths, f.name))

NoChangedFiles(p, pr, down) == Opposite(ChangedFiles(p, pr, down))

OnlyChangedFiles(p, pr, down) ==
  AskingFiles(pr, down,
    /\ Files(pr) # {}
    /\ \A f \in Files(pr) : AnyMatches(p.paths, f.name))

FileAdded(p, pr, down) ==
  AskingFiles(pr, down,
    \E f \in Files(pr) : f.status = "added" /\ AnyMatches(p.paths, f.name))

FileNotAdded(p, pr, down) == Opposite(FileAdded(p, pr, down))

FileDeleted(p, pr, down) ==
  AskingFiles(pr, down,
    \E f \in Files(pr) : f.status = "deleted" /\ AnyMatches(p.paths, f.name))

FileNotDeleted(p, pr, down) == Opposite(FileDeleted(p, pr, down))

(* ComparisonExpr.Evaluate, false if there is none. *)
Compares(expression, n) ==
  \/ expression.op = "<" /\ n < expression.value
  \/ expression.op = ">" /\ n > expression.value
  \/ expression.op = "=" /\ n = expression.value

(* ModifiedLinesFileFilter.MatchesFile *)
MatchesFile(filter, name) ==
  /\ ~AnyMatches(filter.exclude, name)
  /\ filter.include # {} => AnyMatches(filter.include, name)

(* How many lines of the files were added, or deleted. *)
Lines(files, how) == MapThenSumSet(LAMBDA f : f[how], files)

ModifiedLines(p, pr, down) ==
  LET counted == {f \in Files(pr) : MatchesFile(p.filter, f.name)}
      additions == Lines(counted, "additions")
      deletions == Lines(counted, "deletions")
  IN  AskingFiles(pr, down,
        \/ Compares(p.additions, additions)
        \/ Compares(p.deletions, deletions)
        \/ Compares(p.total, additions + deletions))

-----------------------------------------------------------------------------
(***************************************************************************)
(* People and commits.                                                     *)
(***************************************************************************)
HasAuthorIn(p, pr, down) == IsActor(p.actors, pr.author, down)

(* Commit.Users(): the author and the committer GitHub knows. *)
UsersOfCommit(c) == {c.author, c.committer} \ {""}

InNameOrder(users) == SelectSeq(UserOrder, LAMBDA u : u \in users)

(* The author and whoever committed, as their names sort. *)
ContributorList(pr) ==
  InNameOrder({pr.author} \union UNION {UsersOfCommit(c) : c \in pr.commits})

OnlyHasContributorsIn(p, pr, down) ==
  IF "commits" \in down THEN "error"
  ELSE LET all == ContributorList(pr)
       IN  FirstBut("yes", [i \in 1..Len(all) |-> IsActor(p.actors, all[i], down)])

HasContributorIn(p, pr, down) ==
  IF "commits" \in down THEN "error"
  ELSE LET all == ContributorList(pr)
       IN  FirstBut("no", [i \in 1..Len(all) |-> IsActor(p.actors, all[i], down)])

AuthorIsOnlyContributor(p, pr, down) ==
  Asking("commits", down,
    p.value = \A c \in pr.commits : /\ c.author = pr.author
                                   /\ (c.web \/ c.committer = pr.author))

(* hasValidSignature *)
IsSigned(c) == c.signature.type # "none" /\ c.signature.valid

HasValidSignatures(p, pr, down) ==
  Asking("commits", down, p.value = \A c \in pr.commits : IsSigned(c))

HasValidSignaturesBy(p, pr, down) ==
  IF "commits" \in down THEN "error"
  ELSE IF \E c \in pr.commits : ~IsSigned(c) THEN "no"
  ELSE LET signers == SetToSeq({c.signature.signer : c \in pr.commits})
       IN  FirstBut("yes", [i \in 1..Len(signers) |-> IsActor(p.actors, signers[i], down)])

HasValidSignaturesByKeys(p, pr, down) ==
  Asking("commits", down,
    \A c \in pr.commits : IsSigned(c) /\ c.signature.type = "gpg" /\ c.signature.key \in p.keys)

-----------------------------------------------------------------------------
(***************************************************************************)
(* What the pull request and its repository say of themselves.             *)
(***************************************************************************)
TargetsBranch(p, pr) == Answer(pr.base \in p.pattern)

FromBranch(p, pr) == Answer(pr.source \in p.pattern)

(* Title and Repository *)
MatchesOrNot(p, name) ==
  Answer(\/ AnyMatches(p.matches, name)
         \/ p.notMatches # {} /\ ~AnyMatches(p.notMatches, name))

(* HasLabels, all in lower case; an empty list makes no call. *)
HasLabels(p, pr, down) ==
  IF p.labels = {} THEN "yes" ELSE Asking("labels", down, p.labels \subseteq pr.labels)

(***************************************************************************)
(* Custom properties are strings or lists; only strings match patterns.    *)
(* p.patterns has the patterns of each property.                           *)
(***************************************************************************)
CustomPropertyIsNotNull(p, pr, down) ==
  Asking("properties", down, p.names \subseteq DOMAIN pr.properties)

CustomPropertyIsNull(p, pr, down) ==
  Asking("properties", down, p.names \intersect DOMAIN pr.properties = {})

PropertyMatches(pr, name, patterns) ==
  LET value == pr.properties[name]
  IN  value.string # "" /\ AnyMatches(patterns, value.string)

CustomPropertyMatchesAnyOf(p, pr, down) ==
  Asking("properties", down,
    \A name \in DOMAIN p.patterns :
      name \in DOMAIN pr.properties /\ PropertyMatches(pr, name, p.patterns[name]))

CustomPropertyMatchesNoneOf(p, pr, down) ==
  Asking("properties", down,
    \A name \in DOMAIN p.patterns \intersect DOMAIN pr.properties :
      ~PropertyMatches(pr, name, p.patterns[name]))

-----------------------------------------------------------------------------
(***************************************************************************)
(* Statuses, check runs and workflow runs of the head commit.              *)
(***************************************************************************)
(* getCheckStatuses: the first run of each name, the most recent one. *)
CheckStatuses(checks) ==
  [name \in {checks[i].name : i \in 1..Len(checks)} |->
     checks[Min({i \in 1..Len(checks) : checks[i].name = name})].conclusion]

(* LatestStatuses: a check hides the status of its name. *)
LatestStatuses(pr) ==
  LET checks == CheckStatuses(pr.checks)
  IN  [name \in DOMAIN pr.statuses \union DOMAIN checks |->
         IF name \in DOMAIN checks THEN checks[name] ELSE pr.statuses[name]]

(* The conclusions a predicate allows. *)
Allowed(p) == IF p.conclusions = {} THEN {"success"} ELSE p.conclusions

HasStatus(p, pr, down) ==
  LET latest == LatestStatuses(pr)
  IN  Asking("statuses", down,
        \A s \in p.statuses : s \in DOMAIN latest /\ latest[s] \in Allowed(p))

(* workflowRunAtLeastAsNew, of two runs of one workflow. *)
AtLeastAsNew(run, previous) ==
  \/ run.id > previous.id
  \/ /\ run.id = previous.id
     /\ \/ run.attempt > previous.attempt
        \/ /\ run.attempt = previous.attempt
           /\ \/ run.at > previous.at
              \/ /\ run.at = previous.at
                 /\ (run.status = "completed" \/ previous.status # "completed")

(* keepNewestWorkflowRun keeps, of one workflow and one event type, a run that no other beats. *)
Newest(runs) == CHOOSE run \in runs : \A other \in runs : AtLeastAsNew(run, other)

Conclusion(run) == IF run.status = "completed" THEN run.conclusion ELSE "pending"

(* Of the runs of one workflow, what the newest of each event type concluded. *)
Conclusions(runs) ==
  {Conclusion(Newest({r \in runs : r.event = event})) : event \in {r.event : r \in runs}}

(***************************************************************************)
(* LatestWorkflowRuns: for each workflow the conclusion of the newest run  *)
(* of each event type, among those GitHub lists and the one that the event *)
(* under evaluation tells of, which the list may still lack.               *)
(***************************************************************************)
LatestWorkflowRuns(listed, told) ==
  LET runs == listed \union told
  IN  [path \in {r.path : r \in runs} |-> Conclusions({r \in runs : r.path = path})]

HasWorkflowResult(p, pr, down) ==
  LET latest == LatestWorkflowRuns(pr.runs, pr.told)
  IN  Asking("workflows", down,
        \A w \in p.workflows : w \in DOMAIN latest /\ latest[w] \subseteq Allowed(p))

-----------------------------------------------------------------------------
(* Predicate.Evaluate *)
Evaluate(p, pr, down) ==
  CASE p.kind = "changed_files" -> ChangedFiles(p, pr, down)
    [] p.kind = "no_changed_files" -> NoChangedFiles(p, pr, down)
    [] p.kind = "only_changed_files" -> OnlyChangedFiles(p, pr, down)
    [] p.kind = "file_added" -> FileAdded(p, pr, down)
    [] p.kind = "file_not_added" -> FileNotAdded(p, pr, down)
    [] p.kind = "file_deleted" -> FileDeleted(p, pr, down)
    [] p.kind = "file_not_deleted" -> FileNotDeleted(p, pr, down)
    [] p.kind = "modified_lines" -> ModifiedLines(p, pr, down)
    [] p.kind = "has_author_in" -> HasAuthorIn(p, pr, down)
    [] p.kind = "has_contributor_in" -> HasContributorIn(p, pr, down)
    [] p.kind = "only_has_contributors_in" -> OnlyHasContributorsIn(p, pr, down)
    [] p.kind = "author_is_only_contributor" -> AuthorIsOnlyContributor(p, pr, down)
    [] p.kind = "has_valid_signatures" -> HasValidSignatures(p, pr, down)
    [] p.kind = "has_valid_signatures_by" -> HasValidSignaturesBy(p, pr, down)
    [] p.kind = "has_valid_signatures_by_keys" -> HasValidSignaturesByKeys(p, pr, down)
    [] p.kind = "targets_branch" -> TargetsBranch(p, pr)
    [] p.kind = "from_branch" -> FromBranch(p, pr)
    [] p.kind = "title" -> MatchesOrNot(p, pr.title)
    [] p.kind = "repository" -> MatchesOrNot(p, pr.repository)
    [] p.kind = "has_labels" -> HasLabels(p, pr, down)
    [] p.kind = "custom_property_is_null" -> CustomPropertyIsNull(p, pr, down)
    [] p.kind = "custom_property_is_not_null" -> CustomPropertyIsNotNull(p, pr, down)
    [] p.kind = "custom_property_matches_any_of" -> CustomPropertyMatchesAnyOf(p, pr, down)
    [] p.kind = "custom_property_matches_none_of" -> CustomPropertyMatchesNoneOf(p, pr, down)
    [] p.kind = "has_workflow_result" -> HasWorkflowResult(p, pr, down)
    [] OTHER -> HasStatus(p, pr, down)

(* Predicates.Predicates: one of each kind at most, in this order. *)
KindOrder ==
  <<"changed_files", "no_changed_files", "only_changed_files", "file_added",
    "file_not_added", "file_deleted", "file_not_deleted", "has_author_in",
    "has_contributor_in", "only_has_contributors_in", "author_is_only_contributor",
    "targets_branch", "from_branch", "modified_lines", "has_status",
    "has_successful_status", "has_workflow_result", "has_labels", "repository", "title",
    "has_valid_signatures", "has_valid_signatures_by", "has_valid_signatures_by_keys",
    "custom_property_is_not_null", "custom_property_is_null",
    "custom_property_matches_any_of", "custom_property_matches_none_of">>

InOrder(ps) ==
  [i \in {k \in 1..Len(KindOrder) : \E p \in ps : p.kind = KindOrder[k]} |->
     CHOOSE p \in ps : p.kind = KindOrder[i]]

(* The answers of all of them. *)
EvaluateAll(ps, pr, down) ==
  LET all == InOrder(ps) IN [i \in DOMAIN all |-> Evaluate(all[i], pr, down)]

(* Predicate.Trigger: the events that make the policy be evaluated again. *)
PredicateTrigger(p) ==
  CASE p.kind \in {"has_author_in", "from_branch", "custom_property_is_null",
                   "custom_property_is_not_null", "custom_property_matches_any_of",
                   "custom_property_matches_none_of"} -> {}
    [] p.kind \in {"targets_branch", "title", "repository"} -> {"pull_request"}
    [] p.kind = "has_labels" -> {"label"}
    [] p.kind \in {"has_status", "has_successful_status", "has_workflow_result"} -> {"status"}
    [] OTHER -> {"commit"}
=============================================================================
