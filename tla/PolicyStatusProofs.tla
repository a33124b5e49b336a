------------------------- MODULE PolicyStatusProofs -------------------------
(***************************************************************************)
(* The handlers do what PolicyStatus allows, for every policy, pull        *)
(* request and order of changes and webhooks: when all is handled, a       *)
(* status by the policy in the repository is the one that policy gives.    *)
(* What has to be shown is that a webhook may be skipped: what it tells of *)
(* changes nothing the policy reads.                                       *)
(***************************************************************************)
EXTENDS PolicyEventsProofs

-----------------------------------------------------------------------------
(***************************************************************************)
(* What a predicate reads of the pull request.                             *)
(***************************************************************************)
Same(pull, other, fields) == \A f \in fields : pull[f] = other[f]

(* The fields that change only with a push, or never. *)
Settled == {"author", "base", "source", "repository", "files", "commits", "properties"}

LEMMA FilePredicatesRead ==
  ASSUME NEW p, NEW pull, NEW other, NEW down, Same(pull, other, Settled)
  PROVE  /\ ChangedFiles(p, pull, down) = ChangedFiles(p, other, down)
         /\ NoChangedFiles(p, pull, down) = NoChangedFiles(p, other, down)
         /\ OnlyChangedFiles(p, pull, down) = OnlyChangedFiles(p, other, down)
         /\ FileAdded(p, pull, down) = FileAdded(p, other, down)
         /\ FileNotAdded(p, pull, down) = FileNotAdded(p, other, down)
         /\ FileDeleted(p, pull, down) = FileDeleted(p, other, down)
         /\ FileNotDeleted(p, pull, down) = FileNotDeleted(p, other, down)
         /\ ModifiedLines(p, pull, down) = ModifiedLines(p, other, down)
<1>1. pull.files = other.files
  BY DEF Same, Settled
<1>2. Files(pull) = Files(other)
  BY <1>1, Zenon DEF Files
<1>3. \A b : AskingFiles(pull, down, b) = AskingFiles(other, down, b)
  BY <1>1, Zenon DEF AskingFiles
<1>4. ChangedFiles(p, pull, down) = ChangedFiles(p, other, down)
  BY <1>2, <1>3, Zenon DEF ChangedFiles
<1>5. OnlyChangedFiles(p, pull, down) = OnlyChangedFiles(p, other, down)
  BY <1>2, <1>3, Zenon DEF OnlyChangedFiles
<1>6. FileAdded(p, pull, down) = FileAdded(p, other, down)
  BY <1>2, <1>3, Zenon DEF FileAdded
<1>7. FileDeleted(p, pull, down) = FileDeleted(p, other, down)
  BY <1>2, <1>3, Zenon DEF FileDeleted
<1>8. ModifiedLines(p, pull, down) = ModifiedLines(p, other, down)
  BY <1>2, <1>3, Zenon DEF ModifiedLines
<1>9. QED
  BY <1>4, <1>5, <1>6, <1>7, <1>8 DEF NoChangedFiles, FileNotAdded, FileNotDeleted

LEMMA PeoplePredicatesRead ==
  ASSUME NEW p, NEW pull, NEW other, NEW down, Same(pull, other, Settled)
  PROVE  /\ ContributorList(pull) = ContributorList(other)
         /\ HasAuthorIn(p, pull, down) = HasAuthorIn(p, other, down)
         /\ HasContributorIn(p, pull, down) = HasContributorIn(p, other, down)
         /\ OnlyHasContributorsIn(p, pull, down) = OnlyHasContributorsIn(p, other, down)
         /\ AuthorIsOnlyContributor(p, pull, down) = AuthorIsOnlyContributor(p, other, down)
         /\ HasValidSignatures(p, pull, down) = HasValidSignatures(p, other, down)
         /\ HasValidSignaturesBy(p, pull, down) = HasValidSignaturesBy(p, other, down)
         /\ HasValidSignaturesByKeys(p, pull, down) = HasValidSignaturesByKeys(p, other, down)
<1>1. pull.author = other.author /\ pull.commits = other.commits
  BY DEF Same, Settled
<1>2. ContributorList(pull) = ContributorList(other)
  BY <1>1, Zenon DEF ContributorList
<1>3. HasAuthorIn(p, pull, down) = HasAuthorIn(p, other, down)
  BY <1>1, Zenon DEF HasAuthorIn
<1>4. HasContributorIn(p, pull, down) = HasContributorIn(p, other, down)
      /\ OnlyHasContributorsIn(p, pull, down) = OnlyHasContributorsIn(p, other, down)
  BY <1>2, Zenon DEF HasContributorIn, OnlyHasContributorsIn
<1>5. AuthorIsOnlyContributor(p, pull, down) = AuthorIsOnlyContributor(p, other, down)
  BY <1>1, Zenon DEF AuthorIsOnlyContributor
<1>6. /\ HasValidSignatures(p, pull, down) = HasValidSignatures(p, other, down)
      /\ HasValidSignaturesBy(p, pull, down) = HasValidSignaturesBy(p, other, down)
      /\ HasValidSignaturesByKeys(p, pull, down) = HasValidSignaturesByKeys(p, other, down)
  BY <1>1, Zenon DEF HasValidSignatures, HasValidSignaturesBy, HasValidSignaturesByKeys
<1>7. QED
  BY <1>2, <1>3, <1>4, <1>5, <1>6

LEMMA OwnDataPredicatesRead ==
  ASSUME NEW p, NEW pull, NEW other, NEW down, Same(pull, other, Settled)
  PROVE  /\ TargetsBranch(p, pull) = TargetsBranch(p, other)
         /\ FromBranch(p, pull) = FromBranch(p, other)
         /\ MatchesOrNot(p, pull.repository) = MatchesOrNot(p, other.repository)
         /\ CustomPropertyIsNull(p, pull, down) = CustomPropertyIsNull(p, other, down)
         /\ CustomPropertyIsNotNull(p, pull, down) = CustomPropertyIsNotNull(p, other, down)
         /\ CustomPropertyMatchesAnyOf(p, pull, down) = CustomPropertyMatchesAnyOf(p, other, down)
         /\ CustomPropertyMatchesNoneOf(p, pull, down) = CustomPropertyMatchesNoneOf(p, other, down)
<1>1. /\ pull.base = other.base /\ pull.source = other.source
      /\ pull.repository = other.repository /\ pull.properties = other.properties
  BY DEF Same, Settled
<1>2. \A name, patterns : PropertyMatches(pull, name, patterns) = PropertyMatches(other, name, patterns)
  BY <1>1, Zenon DEF PropertyMatches
<1>3. /\ CustomPropertyMatchesAnyOf(p, pull, down) = CustomPropertyMatchesAnyOf(p, other, down)
      /\ CustomPropertyMatchesNoneOf(p, pull, down) = CustomPropertyMatchesNoneOf(p, other, down)
  BY <1>1, <1>2, Zenon DEF CustomPropertyMatchesAnyOf, CustomPropertyMatchesNoneOf
<1>4. /\ CustomPropertyIsNull(p, pull, down) = CustomPropertyIsNull(p, other, down)
      /\ CustomPropertyIsNotNull(p, pull, down) = CustomPropertyIsNotNull(p, other, down)
  BY <1>1, Zenon DEF CustomPropertyIsNull, CustomPropertyIsNotNull
<1>5. QED
  BY <1>1, <1>3, <1>4, Zenon DEF TargetsBranch, FromBranch

Kinds == {KindOrder[i] : i \in 1..Len(KindOrder)}

(* A predicate answers the same where what it reads besides is the same. *)
LEMMA EvaluateReads ==
  ASSUME NEW p, p.kind \in Kinds, NEW pull, NEW other, NEW down, Same(pull, other, Settled),
         p.kind = "title" => pull.title = other.title,
         p.kind = "has_labels" => pull.labels = other.labels,
         p.kind \in {"has_status", "has_successful_status"}
           => HasStatus(p, pull, down) = HasStatus(p, other, down),
         p.kind = "has_workflow_result"
           => HasWorkflowResult(p, pull, down) = HasWorkflowResult(p, other, down)
  PROVE  Evaluate(p, pull, down) = Evaluate(p, other, down)
<1>1. CASE p.kind = "title"
  BY <1>1, Zenon DEF Evaluate
<1>2. CASE p.kind = "has_labels"
  <2>1. HasLabels(p, pull, down) = HasLabels(p, other, down)
    BY <1>2, Zenon DEF HasLabels
  <2>2. QED
    BY <1>2, <2>1 DEF Evaluate
<1>3. CASE p.kind \in {"has_status", "has_successful_status"}
  BY <1>3 DEF Evaluate
<1>4. CASE p.kind = "has_workflow_result"
  BY <1>4 DEF Evaluate
<1>5. CASE p.kind \notin {"title", "has_labels", "has_status", "has_successful_status",
                          "has_workflow_result"}
  <2>1. p.kind \in
          {"changed_files", "no_changed_files", "only_changed_files", "file_added",
           "file_not_added", "file_deleted", "file_not_deleted", "has_author_in",
           "has_contributor_in", "only_has_contributors_in", "author_is_only_contributor",
           "targets_branch", "from_branch", "modified_lines", "repository",
           "has_valid_signatures", "has_valid_signatures_by", "has_valid_signatures_by_keys",
           "custom_property_is_not_null", "custom_property_is_null",
           "custom_property_matches_any_of", "custom_property_matches_none_of"}
    BY <1>5 DEF Kinds, KindOrder
  <2>2. QED
    BY <2>1, FilePredicatesRead, PeoplePredicatesRead, OwnDataPredicatesRead DEF Evaluate
<1>6. QED
  BY <1>1, <1>2, <1>3, <1>4, <1>5

-----------------------------------------------------------------------------
(***************************************************************************)
(* What a policy reads: the predicates and methods of the rules in its     *)
(* tree and of its disapproval.                                            *)
(***************************************************************************)
SameAnswers(ps, pull, other) ==
  \A p \in ps : p.kind \in Kinds => Evaluate(p, pull, {}) = Evaluate(p, other, {})

LEMMA EvaluateAllReads ==
  ASSUME NEW ps, NEW pull, NEW other, SameAnswers(ps, pull, other)
  PROVE  EvaluateAll(ps, pull, {}) = EvaluateAll(ps, other, {})
<1> DEFINE all == InOrder(ps)
<1>1. \A i \in DOMAIN all : all[i] \in ps /\ all[i].kind \in Kinds
  BY DEF InOrder, Kinds
<1>2. \A i \in DOMAIN all : Evaluate(all[i], pull, {}) = Evaluate(all[i], other, {})
  BY <1>1 DEF SameAnswers
<1> HIDE DEF all
<1>3. [i \in DOMAIN all |-> Evaluate(all[i], pull, {})]
        = [i \in DOMAIN all |-> Evaluate(all[i], other, {})]
  BY <1>2
<1>4. QED
  BY <1>3 DEF EvaluateAll, all

(* The same people are heard. *)
SameVoices(methods, says, pull, other) ==
  Voices(methods, says, pull) = Voices(methods, says, other)

LEMMA RuleReads ==
  ASSUME NEW rule, NEW pull, NEW other,
         Same(pull, other, Settled),
         rule.count # 0 => SameVoices(rule, "approve", pull, other),
         SameAnswers(rule.if \union rule.conditions, pull, other)
  PROVE  RuleResult(rule, pull, {}) = RuleResult(rule, other, {})
<1>1. /\ EvaluateAll(rule.if, pull, {}) = EvaluateAll(rule.if, other, {})
      /\ EvaluateAll(rule.conditions, pull, {}) = EvaluateAll(rule.conditions, other, {})
  BY EvaluateAllReads DEF SameAnswers
<1>2. ApprovedByConditions(rule, pull, {}) = ApprovedByConditions(rule, other, {})
  BY <1>1, Zenon DEF ApprovedByConditions
<1>3. ApprovedByActors(rule, pull, {}) = ApprovedByActors(rule, other, {})
  <2>1. CASE rule.count = 0
    BY <2>1, Zenon DEF ApprovedByActors
  <2>2. CASE rule.count # 0
    <3>1. ContributorList(pull) = ContributorList(other)
      BY PeoplePredicatesRead
    <3>2. Voices(rule, "approve", pull) = Voices(rule, "approve", other)
      BY <2>2 DEF SameVoices
    <3>3. QED
      BY <3>1, <3>2, Zenon DEF ApprovedByActors
  <2>3. QED
    BY <2>1, <2>2
<1>4. QED
  BY <1>1, <1>2, <1>3, Zenon DEF RuleResult

LEMMA DisapprovalReads ==
  ASSUME NEW d, NEW pull, NEW other,
         d.requires # NoActors => /\ SameVoices(d.disapprove, "disapprove", pull, other)
                                  /\ SameVoices(d.revoke, "approve", pull, other),
         SameAnswers(d.if, pull, other)
  PROVE  DisapprovalResult(d, pull, {}) = DisapprovalResult(d, other, {})
<1>1. EvaluateAll(d.if, pull, {}) = EvaluateAll(d.if, other, {})
  BY EvaluateAllReads
<1>2. CASE d.requires = NoActors
  BY <1>1, <1>2, Zenon DEF DisapprovalResult
<1>3. CASE d.requires # NoActors
  <2>1. /\ Voices(d.disapprove, "disapprove", pull) = Voices(d.disapprove, "disapprove", other)
        /\ Voices(d.revoke, "approve", pull) = Voices(d.revoke, "approve", other)
    BY <1>3 DEF SameVoices
  <2>2. /\ LastActor(d, d.disapprove, "disapprove", pull, {})
             = LastActor(d, d.disapprove, "disapprove", other, {})
        /\ LastActor(d, d.revoke, "approve", pull, {}) = LastActor(d, d.revoke, "approve", other, {})
    BY <2>1, Zenon DEF LastActor
  <2>3. IsDisapproved(d, pull, {}) = IsDisapproved(d, other, {})
    BY <2>2, Zenon DEF IsDisapproved
  <2>4. QED
    BY <1>1, <2>3, Zenon DEF DisapprovalResult
<1>4. QED
  BY <1>2, <1>3

(* The rules that nodes of the tree name. *)
TreeRules(policy) ==
  {policy.rules[node.rule] : node \in {n \in ToSet(policy.tree) : n.op = "rule"}}

LEMMA TreeReads ==
  ASSUME NEW policy, IsPolicy(policy), NEW pull, NEW other,
         \A rule \in TreeRules(policy) : RuleResult(rule, pull, {}) = RuleResult(rule, other, {})
  PROVE  ApprovalResult(policy, pull, {}) = ApprovalResult(policy, other, {})
<1>1. PICK f : TreeResults(f, policy, pull, {})
  BY TreeIsEvaluated
<1>2. PICK g : TreeResults(g, policy, other, {})
  BY TreeIsEvaluated
<1> DEFINE differ == {n \in 1..Root(policy) : f[n] # g[n]}
<1>3. differ = {}
  <2>1. SUFFICES ASSUME differ # {} PROVE FALSE
    OBVIOUS
  <2>2. PICK n \in differ : \A m \in differ : n <= m
    <3>1. differ \subseteq Nat
      OBVIOUS
    <3>2. QED
      BY <2>1, <3>1, LeastNumber
  <2>3. n \in 1..Root(policy) /\ n \in Nat /\ f[n] # g[n]
    OBVIOUS
  <2> DEFINE node == policy.tree[n]
             children(h) == [i \in 1..Len(node.of) |-> h[node.of[i]]]
  <2>4. /\ node.op \in {"rule", "or", "and"} /\ Root(policy) \in Nat
        /\ \A i \in 1..Len(node.of) : node.of[i] \in 1..(n - 1)
    BY NodesAreTyped
  <2>5. \A i \in 1..Len(node.of) : f[node.of[i]] = g[node.of[i]]
    <3>1. ASSUME NEW i \in 1..Len(node.of) PROVE f[node.of[i]] = g[node.of[i]]
      <4>1. node.of[i] \in 1..(n - 1)
        BY <2>4
      <4> HIDE DEF node
      <4>2. node.of[i] \in 1..Root(policy) /\ ~ (n <= node.of[i])
        BY <2>3, <2>4, <4>1
      <4>3. QED
        BY <2>2, <4>2
    <3>2. QED
      BY <3>1
  <2>6. children(f) = children(g)
    BY <2>5
  <2>7. /\ f[n] = NodeResult(policy, pull, {}, f, n)
        /\ g[n] = NodeResult(policy, other, {}, g, n)
    BY <1>1, <1>2, <2>3 DEF TreeResults
  <2>8. node.op = "rule" => policy.rules[node.rule] \in TreeRules(policy)
    <3>1. node \in ToSet(policy.tree)
      BY <2>3 DEF IsPolicy, Root, ToSet
    <3> HIDE DEF node
    <3>2. QED
      BY <3>1 DEF TreeRules
  <2>9. f[n] = g[n]
    <3> HIDE DEF differ
    <3>1. CASE node.op = "rule"
      BY <2>7, <2>8, <3>1 DEF NodeResult
    <3>2. CASE node.op # "rule"
      BY <2>4, <2>6, <2>7, <3>2, Zenon DEF NodeResult
    <3>3. QED
      BY <3>1, <3>2
  <2>10. QED
    BY <2>3, <2>9
<1>4. CASE policy.tree = <<>>
  BY <1>1, <1>2, <1>4 DEF TreeResults
<1>5. CASE policy.tree # <<>>
  <2>1. Root(policy) \in 1..Root(policy)
    BY <1>5 DEF IsPolicy, Root
  <2>2. f[Root(policy)] = g[Root(policy)]
    BY <1>3, <2>1
  <2>3. QED
    BY <1>1, <1>2, <1>5, <2>2 DEF TreeResults
<1>6. QED
  BY <1>4, <1>5

(* The predicates an evaluation asks. *)
Asked(policy) ==
  (UNION {rule.if \union rule.conditions : rule \in TreeRules(policy)})
  \union DisapprovalOf(policy).if

(* The status is the same where the answers and the voices are. *)
LEMMA StatusReads ==
  ASSUME NEW policy, IsPolicy(policy), NEW pull, NEW other,
         Same(pull, other, Settled),
         SameAnswers(Asked(policy), pull, other),
         \A rule \in TreeRules(policy) :
           rule.count # 0 => SameVoices(rule, "approve", pull, other),
         LET d == DisapprovalOf(policy)
         IN  d.requires # NoActors => /\ SameVoices(d.disapprove, "disapprove", pull, other)
                                      /\ SameVoices(d.revoke, "approve", pull, other)
  PROVE  StatusFor(policy, pull, {}) = StatusFor(policy, other, {})
<1> DEFINE d == DisapprovalOf(policy)
<1>1. \A rule \in TreeRules(policy) : SameAnswers(rule.if \union rule.conditions, pull, other)
  BY DEF SameAnswers, Asked
<1>2. \A rule \in TreeRules(policy) : RuleResult(rule, pull, {}) = RuleResult(rule, other, {})
  BY <1>1, RuleReads
<1>3. ApprovalResult(policy, pull, {}) = ApprovalResult(policy, other, {})
  BY <1>2, TreeReads
<1>4. SameAnswers(d.if, pull, other)
  BY DEF SameAnswers, Asked
<1>5. d.requires # NoActors => /\ SameVoices(d.disapprove, "disapprove", pull, other)
                               /\ SameVoices(d.revoke, "approve", pull, other)
  OBVIOUS
<1> HIDE DEF d
<1>6. DisapprovalResult(d, pull, {}) = DisapprovalResult(d, other, {})
  BY <1>4, <1>5, DisapprovalReads
<1>7. QED
  BY <1>3, <1>6, Zenon DEF StatusFor, d

-----------------------------------------------------------------------------
(***************************************************************************)
(* Triggers: what is read has its trigger among those of the policy.       *)
(***************************************************************************)
LEMMA TriggersAreThose ==
  ASSUME NEW policy
  PROVE  /\ \A p \in Asked(policy) : PredicateTrigger(p) \subseteq PolicyTrigger(policy)
         /\ \A rule \in TreeRules(policy) : RuleTrigger(rule) \subseteq PolicyTrigger(policy)
         /\ DisapprovalTrigger(DisapprovalOf(policy)) \subseteq PolicyTrigger(policy)
<1>1. \A rule \in TreeRules(policy) : RuleTrigger(rule) \subseteq PolicyTrigger(policy)
  BY DEF TreeRules, PolicyTrigger
<1>2. DisapprovalTrigger(DisapprovalOf(policy)) \subseteq PolicyTrigger(policy)
  BY DEF PolicyTrigger
<1>3. ASSUME NEW p \in Asked(policy) PROVE PredicateTrigger(p) \subseteq PolicyTrigger(policy)
  <2>1. CASE p \in DisapprovalOf(policy).if
    <3>1. PredicateTrigger(p) \subseteq DisapprovalTrigger(DisapprovalOf(policy))
      BY <2>1, Zenon DEF DisapprovalTrigger
    <3>2. QED
      BY <1>2, <3>1
  <2>2. CASE p \notin DisapprovalOf(policy).if
    <3>1. PICK rule \in TreeRules(policy) : p \in rule.if \union rule.conditions
      BY <1>3, <2>2 DEF Asked
    <3>2. PredicateTrigger(p) \subseteq RuleTrigger(rule)
      BY <3>1, Zenon DEF RuleTrigger
    <3>3. QED
      BY <1>1, <3>2
  <2>3. QED
    BY <2>1, <2>2
<1>4. QED
  BY <1>1, <1>2, <1>3

(* The field whose changes have this trigger. *)
TriggerOf == [title |-> "pull_request", labels |-> "label", statuses |-> "status",
              checks |-> "status", runs |-> "status"]

LEMMA UntriggeredChangesNothing ==
  ASSUME NEW policy, IsPolicy(policy), NEW pull, NEW other,
         NEW f \in {"title", "labels", "statuses", "checks", "runs"},
         \/ Same(pull, other, Fields \ {f})
         \/ f = "runs" /\ Same(pull, other, Fields \ {"runs", "told"}),
         TriggerOf[f] \notin PolicyTrigger(policy)
  PROVE  StatusFor(policy, pull, {}) = StatusFor(policy, other, {})
<1>1. Same(pull, other, Settled)
  BY DEF Same, Settled, Fields
<1>2. pull.voices = other.voices
  BY DEF Same, Fields
<1>3. \A methods, says : SameVoices(methods, says, pull, other)
  BY <1>2, Zenon DEF SameVoices, Voices
<1>4. ASSUME NEW p \in Asked(policy), p.kind \in Kinds
      PROVE  Evaluate(p, pull, {}) = Evaluate(p, other, {})
  <2>1. TriggerOf[f] \notin PredicateTrigger(p)
    BY TriggersAreThose
  <2>2. CASE f = "title"
    <3>1. p.kind # "title"
      BY <2>1, <2>2 DEF TriggerOf, PredicateTrigger
    <3>2. pull.labels = other.labels /\ pull.checks = other.checks
          /\ pull.statuses = other.statuses /\ pull.runs = other.runs /\ pull.told = other.told
      BY <2>2 DEF Same, Fields
    <3>3. HasStatus(p, pull, {}) = HasStatus(p, other, {})
      BY <3>2, Zenon DEF HasStatus, LatestStatuses
    <3>4. HasWorkflowResult(p, pull, {}) = HasWorkflowResult(p, other, {})
      BY <3>2, Zenon DEF HasWorkflowResult
    <3>5. QED
      BY <1>1, <1>4, <3>1, <3>2, <3>3, <3>4, EvaluateReads
  <2>3. CASE f = "labels"
    <3>1. p.kind # "has_labels"
      BY <2>1, <2>3 DEF TriggerOf, PredicateTrigger
    <3>2. pull.title = other.title /\ pull.checks = other.checks
          /\ pull.statuses = other.statuses /\ pull.runs = other.runs /\ pull.told = other.told
      BY <2>3 DEF Same, Fields
    <3>3. HasStatus(p, pull, {}) = HasStatus(p, other, {})
      BY <3>2, Zenon DEF HasStatus, LatestStatuses
    <3>4. HasWorkflowResult(p, pull, {}) = HasWorkflowResult(p, other, {})
      BY <3>2, Zenon DEF HasWorkflowResult
    <3>5. QED
      BY <1>1, <1>4, <3>1, <3>2, <3>3, <3>4, EvaluateReads
  <2>4. CASE f \in {"statuses", "checks", "runs"}
    <3>1. p.kind \notin {"has_status", "has_successful_status", "has_workflow_result"}
      BY <2>1, <2>4 DEF TriggerOf, PredicateTrigger
    <3>2. pull.title = other.title /\ pull.labels = other.labels
      BY <2>4 DEF Same, Fields
    <3>3. QED
      BY <1>1, <1>4, <3>1, <3>2, EvaluateReads
  <2>5. QED
    BY <2>2, <2>3, <2>4
<1>5. SameAnswers(Asked(policy), pull, other)
  BY <1>4 DEF SameAnswers
<1>6. QED
  BY <1>1, <1>3, <1>5, StatusReads

-----------------------------------------------------------------------------
(***************************************************************************)
(* Names: a policy that is refused says one thing of every pull request,   *)
(* and the predicates of one that is not are among those that are defined. *)
(***************************************************************************)
LEMMA RefusedIsAnError ==
  ASSUME NEW policy, ~IsValid(policy), NEW pull, NEW down
  PROVE  StatusFor(policy, pull, down) = "error"
BY DEF StatusFor

LEMMA TreeRulesAreDefined ==
  ASSUME NEW policy, IsPolicy(policy), IsValid(policy), NEW rule \in TreeRules(policy)
  PROVE  \E r \in Rules(policy) : rule = policy.rules[r]
<1>1. PICK node \in ToSet(policy.tree) : node.op = "rule" /\ rule = policy.rules[node.rule]
  BY DEF TreeRules
<1>2. PICK n \in 1..Root(policy) : node = policy.tree[n]
  BY <1>1 DEF ToSet, Root, IsPolicy
<1>3. policy.tree # <<>>
  BY <1>2 DEF Root
<1>4. node.rule \in Rules(policy)
  BY <1>1, <1>2, <1>3 DEF IsValid
<1>5. QED
  BY <1>1, <1>4

LEMMA AskedAreDefined ==
  ASSUME NEW policy, IsPolicy(policy), IsValid(policy)
  PROVE  Asked(policy) \subseteq AllPredicates(policy)
<1> SUFFICES ASSUME NEW p \in Asked(policy) PROVE p \in AllPredicates(policy)
  OBVIOUS
<1>1. CASE p \in DisapprovalOf(policy).if
  <2>1. policy.disapproval # {}
    BY <1>1 DEF DisapprovalOf, NoDisapproval
  <2>2. DisapprovalOf(policy) \in policy.disapproval
    BY <2>1 DEF DisapprovalOf
  <2>3. QED
    BY <1>1, <2>2, Zenon DEF AllPredicates
<1>2. CASE p \notin DisapprovalOf(policy).if
  <2>1. PICK rule \in TreeRules(policy) : p \in rule.if \union rule.conditions
    BY <1>2, Zenon DEF Asked
  <2>2. PICK r \in Rules(policy) : rule = policy.rules[r]
    BY TreeRulesAreDefined
  <2>3. QED
    BY <2>1, <2>2, Zenon DEF AllPredicates
<1>3. QED
  BY <1>1, <1>2

(* Of statuses, a policy reads those it names. *)
SameStatus(name, pull, other) ==
  /\ name \in DOMAIN LatestStatuses(pull) <=> name \in DOMAIN LatestStatuses(other)
  /\ name \in DOMAIN LatestStatuses(pull)
       => LatestStatuses(pull)[name] = LatestStatuses(other)[name]

LEMMA UnnamedStatusChangesNothing ==
  ASSUME NEW policy, IsPolicy(policy), IsValid(policy), NEW pull, NEW other,
         Same(pull, other, Fields \ {"checks"}),
         \A name \in PolicyStatusNames(policy) : SameStatus(name, pull, other)
  PROVE  StatusFor(policy, pull, {}) = StatusFor(policy, other, {})
<1>1. Same(pull, other, Settled)
  BY DEF Same, Settled, Fields
<1>2. /\ pull.voices = other.voices /\ pull.told = other.told /\ pull.title = other.title
      /\ pull.labels = other.labels /\ pull.runs = other.runs
  BY DEF Same, Fields
<1>3. \A methods, says : SameVoices(methods, says, pull, other)
  BY <1>2, Zenon DEF SameVoices, Voices
<1>4. ASSUME NEW p \in Asked(policy), p.kind \in Kinds
      PROVE  Evaluate(p, pull, {}) = Evaluate(p, other, {})
  <2>1. HasWorkflowResult(p, pull, {}) = HasWorkflowResult(p, other, {})
    BY <1>2, Zenon DEF HasWorkflowResult
  <2>2. ASSUME p.kind \in {"has_status", "has_successful_status"}
        PROVE  HasStatus(p, pull, {}) = HasStatus(p, other, {})
    <3>1. p \in AllPredicates(policy)
      BY AskedAreDefined
    <3>2. p.statuses \subseteq PolicyStatusNames(policy)
      BY <2>2, <3>1, Zenon DEF PolicyStatusNames
    <3>3. \A s \in p.statuses :
            (/\ s \in DOMAIN LatestStatuses(pull)
             /\ LatestStatuses(pull)[s] \in Allowed(p))
            <=> (/\ s \in DOMAIN LatestStatuses(other)
                 /\ LatestStatuses(other)[s] \in Allowed(p))
      BY <3>2, Zenon DEF SameStatus
    <3>4. (\A s \in p.statuses : /\ s \in DOMAIN LatestStatuses(pull)
                                 /\ LatestStatuses(pull)[s] \in Allowed(p))
          = (\A s \in p.statuses : /\ s \in DOMAIN LatestStatuses(other)
                                   /\ LatestStatuses(other)[s] \in Allowed(p))
      BY <3>3, Zenon
    <3>5. QED
      BY <3>4, Zenon DEF HasStatus
  <2>3. QED
    BY <1>1, <1>2, <1>4, <2>1, <2>2, EvaluateReads
<1>5. SameAnswers(Asked(policy), pull, other)
  BY <1>4 DEF SameAnswers
<1>6. QED
  BY <1>1, <1>3, <1>5, StatusReads

(* Of workflows, it reads those it names. *)
RunsOf(pull, path) == {r \in pull.runs \union pull.told : r.path = path}

SameRuns(path, pull, other) ==
  /\ RunsOf(pull, path) = {} <=> RunsOf(other, path) = {}
  /\ Conclusions(RunsOf(pull, path)) = Conclusions(RunsOf(other, path))

LEMMA UnnamedRunChangesNothing ==
  ASSUME NEW policy, IsPolicy(policy), IsValid(policy), NEW pull, NEW other,
         Same(pull, other, Fields \ {"runs", "told"}),
         \A path \in PolicyWorkflowNames(policy) : SameRuns(path, pull, other)
  PROVE  StatusFor(policy, pull, {}) = StatusFor(policy, other, {})
<1>1. Same(pull, other, Settled)
  BY DEF Same, Settled, Fields
<1>2. /\ pull.voices = other.voices /\ pull.title = other.title
      /\ pull.labels = other.labels /\ pull.checks = other.checks
      /\ pull.statuses = other.statuses
  BY DEF Same, Fields
<1>3. \A methods, says : SameVoices(methods, says, pull, other)
  BY <1>2, Zenon DEF SameVoices, Voices
<1>4. ASSUME NEW p \in Asked(policy), p.kind \in Kinds
      PROVE  Evaluate(p, pull, {}) = Evaluate(p, other, {})
  <2>1. HasStatus(p, pull, {}) = HasStatus(p, other, {})
    BY <1>2, Zenon DEF HasStatus, LatestStatuses
  <2>2. ASSUME p.kind = "has_workflow_result"
        PROVE  HasWorkflowResult(p, pull, {}) = HasWorkflowResult(p, other, {})
    <3> DEFINE latest(x) == LatestWorkflowRuns(x.runs, x.told)
    <3>1. p \in AllPredicates(policy)
      BY AskedAreDefined
    <3>2. p.workflows \subseteq PolicyWorkflowNames(policy)
      BY <2>2, <3>1, Zenon DEF PolicyWorkflowNames
    <3>3. ASSUME NEW x
          PROVE  /\ DOMAIN latest(x) = {r.path : r \in x.runs \union x.told}
                 /\ \A w \in DOMAIN latest(x) : latest(x)[w] = Conclusions(RunsOf(x, w))
      <4>1. latest(x) = [path \in {r.path : r \in x.runs \union x.told} |->
                            Conclusions({r \in x.runs \union x.told : r.path = path})]
        BY Zenon DEF LatestWorkflowRuns
      <4> HIDE DEF latest
      <4>2. QED
        BY <4>1, Zenon DEF RunsOf
    <3> HIDE DEF latest
    <3>4. ASSUME NEW x, NEW w PROVE w \in DOMAIN latest(x) <=> RunsOf(x, w) # {}
      <4>1. DOMAIN latest(x) = {r.path : r \in x.runs \union x.told}
        BY <3>3
      <4>2. QED
        BY <4>1 DEF RunsOf
    <3>5. \A w \in p.workflows :
            (w \in DOMAIN latest(pull) /\ latest(pull)[w] \subseteq Allowed(p))
            <=> (w \in DOMAIN latest(other) /\ latest(other)[w] \subseteq Allowed(p))
      <4>1. ASSUME NEW w \in p.workflows
            PROVE  (w \in DOMAIN latest(pull) /\ latest(pull)[w] \subseteq Allowed(p))
                   <=> (w \in DOMAIN latest(other) /\ latest(other)[w] \subseteq Allowed(p))
        <5>1. SameRuns(w, pull, other)
          BY <3>2
        <5>2. w \in DOMAIN latest(pull) <=> w \in DOMAIN latest(other)
          BY <3>4, <5>1 DEF SameRuns
        <5>3. w \in DOMAIN latest(pull) => latest(pull)[w] = latest(other)[w]
          BY <3>3, <5>1, <5>2 DEF SameRuns
        <5>4. QED
          BY <5>2, <5>3
      <4>2. QED
        BY <4>1
    <3>6. (\A w \in p.workflows : w \in DOMAIN latest(pull) /\ latest(pull)[w] \subseteq Allowed(p))
          = (\A w \in p.workflows : w \in DOMAIN latest(other) /\ latest(other)[w] \subseteq Allowed(p))
      BY <3>5, Zenon
    <3>7. QED
      BY <3>6, Zenon DEF HasWorkflowResult, latest
  <2>3. QED
    BY <1>1, <1>2, <1>4, <2>1, <2>2, EvaluateReads
<1>5. SameAnswers(Asked(policy), pull, other)
  BY <1>4 DEF SameAnswers
<1>6. QED
  BY <1>1, <1>3, <1>5, StatusReads

-----------------------------------------------------------------------------
(***************************************************************************)
(* Voices: of comments and reviews, it hears those that its methods count. *)
(***************************************************************************)
LEMMA UnheardVoiceChangesNothing ==
  ASSUME NEW policy, IsPolicy(policy), IsValid(policy), NEW pull, NEW other,
         Same(pull, other, Fields \ {"voices"}),
         NEW v, pull.voices \ {v} = other.voices \ {v},
         NEW e, e.type = v.by, e.trigger = {v.by},
         e.name = v.says \/ (v.by = "review" /\ e.name = "dismissed"),
         ~Evaluates(policy, e)
  PROVE  StatusFor(policy, pull, {}) = StatusFor(policy, other, {})
<1>1. Same(pull, other, Settled)
  BY DEF Same, Settled, Fields
<1>2. /\ pull.title = other.title /\ pull.labels = other.labels /\ pull.checks = other.checks
      /\ pull.statuses = other.statuses /\ pull.runs = other.runs /\ pull.told = other.told
  BY DEF Same, Fields
<1>3. ASSUME NEW p, p.kind \in Kinds PROVE Evaluate(p, pull, {}) = Evaluate(p, other, {})
  <2>1. HasWorkflowResult(p, pull, {}) = HasWorkflowResult(p, other, {})
    BY <1>2, Zenon DEF HasWorkflowResult
  <2>2. HasStatus(p, pull, {}) = HasStatus(p, other, {})
    BY <1>2, Zenon DEF HasStatus, LatestStatuses
  <2>3. QED
    BY <1>1, <1>2, <1>3, <2>1, <2>2, EvaluateReads
<1>4. SameAnswers(Asked(policy), pull, other)
  BY <1>3 DEF SameAnswers
<1>5. ASSUME NEW methods, NEW says, ~(v.says = says /\ Counts(methods, v))
      PROVE  SameVoices(methods, says, pull, other)
  BY <1>5 DEF SameVoices, Voices
<1> DEFINE rules == {policy.rules[r] : r \in Rules(policy)}
           methods(says) == {r \in rules : says = "approve"}
                            \union {IF says = "approve" THEN d.revoke ELSE d.disapprove :
                                      d \in policy.disapproval}
<1>6. v.by \in {"comment", "review"} =>
        \/ v.by \notin PolicyTrigger(policy)
        \/ v.by = "comment" /\ \A m \in methods(v.says) : ~m.comments
        \/ v.by = "review" /\ methods(v.says) = {}
  <2>1. SUFFICES ASSUME v.by \in {"comment", "review"}, v.by \in PolicyTrigger(policy)
                 PROVE  \/ v.by = "comment" /\ \A m \in methods(v.says) : ~m.comments
                        \/ v.by = "review" /\ methods(v.says) = {}
    OBVIOUS
  <2>2. ~ShouldSkip(policy, e)
    BY <2>1 DEF ShouldSkip
  <2>3. e.trigger \intersect PolicyTrigger(policy) # {}
    BY <2>1
  <2>4. ~AffectsApproval(policy, e)
    BY <2>2, <2>3 DEF Evaluates
  <2>5. CASE v.by = "comment"
    <3>1. AffectsApproval(policy, e) <=> \E m \in methods(e.name) : m.comments
      BY <2>5, Zenon DEF AffectsApproval
    <3> HIDE DEF methods
    <3>2. QED
      BY <2>4, <2>5, <3>1
  <2>6. CASE v.by = "review"
    <3>1. AffectsApproval(policy, e) <=> (e.name = "dismissed" \/ methods(e.name) # {})
      BY <2>6, Zenon DEF AffectsApproval
    <3> HIDE DEF methods
    <3>2. QED
      BY <2>4, <2>6, <3>1
  <2>7. QED
    BY <2>1, <2>5, <2>6
<1>7. ASSUME NEW rule \in TreeRules(policy), rule.count # 0
      PROVE  ~(v.says = "approve" /\ Counts(rule, v))
  <2>1. SUFFICES ASSUME v.says = "approve", Counts(rule, v) PROVE FALSE
    OBVIOUS
  <2>2. PICK r \in Rules(policy) : rule = policy.rules[r]
    BY TreeRulesAreDefined
  <2>3. rule.count > 0
    BY <1>7, <2>2 DEF IsPolicy, Rules
  <2>4. rule \in methods(v.says)
    BY <2>1, <2>2
  <2>5. v.by \in RuleTrigger(rule) /\ v.by \in {"comment", "review"}
    BY <2>1, <2>3 DEF Counts, RuleTrigger
  <2>6. v.by \in PolicyTrigger(policy)
    BY <2>5, TriggersAreThose
  <2> HIDE DEF methods
  <2>7. QED
    BY <1>6, <2>1, <2>4, <2>5, <2>6 DEF Counts
<1>8. ASSUME DisapprovalOf(policy).requires # NoActors
      PROVE  LET d == DisapprovalOf(policy)
             IN  /\ ~(v.says = "disapprove" /\ Counts(d.disapprove, v))
                 /\ ~(v.says = "approve" /\ Counts(d.revoke, v))
  <2> DEFINE d == DisapprovalOf(policy)
             m == IF v.says = "approve" THEN d.revoke ELSE d.disapprove
  <2>1. SUFFICES ASSUME Counts(m, v) PROVE FALSE
    BY Zenon
  <2>2. d \in policy.disapproval
    <3>1. policy.disapproval # {}
      BY <1>8 DEF DisapprovalOf, NoDisapproval
    <3>2. QED
      BY <3>1 DEF DisapprovalOf
  <2>3. m \in methods(v.says)
    BY <2>2
  <2>4. v.by \in {"comment", "review"} /\ v.by \in DisapprovalTrigger(d)
    BY <1>8, <2>1 DEF Counts, DisapprovalTrigger
  <2>5. v.by \in PolicyTrigger(policy)
    BY <2>4, TriggersAreThose
  <2> HIDE DEF methods, m
  <2>6. QED
    BY <1>6, <2>1, <2>3, <2>4, <2>5 DEF Counts
<1>9. \A rule \in TreeRules(policy) :
        rule.count # 0 => SameVoices(rule, "approve", pull, other)
  BY <1>5, <1>7
<1>10. LET d == DisapprovalOf(policy)
       IN  d.requires # NoActors => /\ SameVoices(d.disapprove, "disapprove", pull, other)
                                    /\ SameVoices(d.revoke, "approve", pull, other)
  BY <1>5, <1>8
<1>11. QED
  BY <1>1, <1>4, <1>9, <1>10, StatusReads

-----------------------------------------------------------------------------
(***************************************************************************)
(* Workflow runs, as they are and as they were.                            *)
(***************************************************************************)
WorkflowRuns ==
  [path : scenario.workflows, event : {"push", "pull_request"}, id : Nat, attempt : Nat, at : Nat,
   status : {"queued", "completed"}, conclusion : {NoConclusion, "success", "failure"}]

Beats(run, other) == AtLeastAsNew(run, other) /\ ~AtLeastAsNew(other, run)

(* What a run is, or was before it went on. *)
IsVersion(v, run) ==
  /\ v \in WorkflowRuns /\ v.id = run.id /\ v.path = run.path /\ v.event = run.event
  /\ v = run \/ Beats(run, v)

LEMMA NewnessIsTransitive ==
  ASSUME NEW q \in WorkflowRuns, NEW r \in WorkflowRuns, NEW s \in WorkflowRuns,
         AtLeastAsNew(q, r), AtLeastAsNew(r, s)
  PROVE  AtLeastAsNew(q, s)
<1>1. /\ q.id \in Nat /\ r.id \in Nat /\ s.id \in Nat
      /\ q.attempt \in Nat /\ r.attempt \in Nat /\ s.attempt \in Nat
      /\ q.at \in Nat /\ r.at \in Nat /\ s.at \in Nat
  BY DEF WorkflowRuns
<1>2. QED
  BY <1>1 DEF AtLeastAsNew

LEMMA BeatsIsTransitive ==
  ASSUME NEW q \in WorkflowRuns, NEW r \in WorkflowRuns, NEW s \in WorkflowRuns,
         Beats(q, r), Beats(r, s)
  PROVE  Beats(q, s)
BY NewnessIsTransitive DEF Beats

(* Versions that are out of date change no conclusion. *)
LEMMA VersionsChangeNothing ==
  ASSUME NEW A, NEW B, A \subseteq B, A \subseteq WorkflowRuns,
         \A v \in B : \E r \in A : IsVersion(v, r)
  PROVE  (A = {} <=> B = {}) /\ Conclusions(A) = Conclusions(B)
<1>1. A = {} <=> B = {}
  OBVIOUS
<1>2. B \subseteq WorkflowRuns
  BY DEF IsVersion
<1>3. {r.event : r \in A} = {r.event : r \in B}
  BY DEF IsVersion
<1>4. ASSUME NEW event
      PROVE  Newest({r \in A : r.event = event}) = Newest({r \in B : r.event = event})
  <2> DEFINE a == {r \in A : r.event = event}
             b == {r \in B : r.event = event}
             Best(run, runs) == run \in runs /\ \A other \in runs : AtLeastAsNew(run, other)
  <2>1. a \subseteq b /\ b \subseteq WorkflowRuns /\ \A v \in b : \E r \in a : v = r \/ Beats(r, v)
    BY <1>2 DEF IsVersion
  <2> HIDE DEF a, b
  <2>2. ASSUME NEW run, Best(run, b) PROVE Best(run, a)
    <3>1. PICK r \in a : run = r \/ Beats(r, run)
      BY <2>1, <2>2
    <3>2. AtLeastAsNew(run, r)
      BY <2>1, <2>2
    <3>3. run = r
      BY <3>1, <3>2 DEF Beats
    <3>4. QED
      BY <2>1, <2>2, <3>3
  <2>3. ASSUME NEW run, Best(run, a) PROVE Best(run, b)
    <3>1. ASSUME NEW other \in b PROVE AtLeastAsNew(run, other)
      <4>1. PICK r \in a : other = r \/ Beats(r, other)
        BY <2>1, <3>1
      <4>2. AtLeastAsNew(run, r)
        BY <2>3
      <4>3. run \in WorkflowRuns /\ r \in WorkflowRuns /\ other \in WorkflowRuns
        BY <2>1, <2>3, <3>1
      <4>4. QED
        BY <4>1, <4>2, <4>3, NewnessIsTransitive DEF Beats
    <3>2. QED
      BY <2>1, <2>3, <3>1
  <2>4. Newest(a) = (CHOOSE run : Best(run, a)) /\ Newest(b) = (CHOOSE run : Best(run, b))
    BY Zenon DEF Newest
  <2>5. \A run : Best(run, a) <=> Best(run, b)
    BY <2>2, <2>3
  <2> HIDE DEF Best
  <2>6. (CHOOSE run : Best(run, a)) = (CHOOSE run : Best(run, b))
    BY <2>5
  <2>7. QED
    BY <2>4, <2>6 DEF a, b
<1>5. Conclusions(A) = Conclusions(B)
  BY <1>3, <1>4, Zenon DEF Conclusions
<1>6. QED
  BY <1>1, <1>5

-----------------------------------------------------------------------------
(***************************************************************************)
(* Runs.  GitHub lists each run of the head as it is now, or an event that *)
(* is due tells of it; what is listed, or told of, was true once of a run  *)
(* of the head.                                                            *)
(***************************************************************************)
TellsOf(run) == Event("workflow_run", {"status"}, run.path, {run})

RunsInv ==
  /\ IsFiniteSet(pr.runs) /\ pr.runs \subseteq WorkflowRuns
  /\ \A q, r \in pr.runs : q.id = r.id => q = r
  /\ \A r \in pr.runs : r \in listed \/ TellsOf(r) \in due
  /\ \A v \in listed : \E r \in pr.runs : IsVersion(v, r)
  /\ \A e \in due : e.head = pr.head => \A v \in e.runs : \E r \in pr.runs : IsVersion(v, r)
  /\ \A e \in due : e.runs # {} => e.type = "workflow_run"

LEMMA OtherChangesKeepRuns ==
  ASSUME RunsInv, UNCHANGED <<scenario, listed>>, pr'.head = pr.head, pr'.runs = pr.runs,
         NEW e, e.head = pr.head, e.runs = {}, due' = due \union {e}
  PROVE  RunsInv'
<1>1. /\ WorkflowRuns' = WorkflowRuns
      /\ \A v, r : IsVersion(v, r)' <=> IsVersion(v, r)
  BY DEF WorkflowRuns, IsVersion
<1>2. \A r : TellsOf(r)' = TellsOf(r)
  BY DEF TellsOf, Event
<1>3. \A r \in pr'.runs : r \in listed' \/ TellsOf(r)' \in due'
  BY <1>2 DEF RunsInv
<1>4. \A x \in due' : x.head = pr'.head =>
        \A v \in x.runs : \E r \in pr'.runs : IsVersion(v, r)'
  BY <1>1 DEF RunsInv
<1>5. \A v \in listed' : \E r \in pr'.runs : IsVersion(v, r)'
  BY <1>1 DEF RunsInv
<1>6. QED
  BY <1>1, <1>3, <1>4, <1>5 DEF RunsInv

(* A run that is new, or that goes on. *)
GoesOn(run) ==
  /\ run \in WorkflowRuns
  /\ \A r \in pr.runs : r.id = run.id => /\ r.path = run.path /\ r.event = run.event
                                         /\ Beats(run, r)

LEMMA RunningKeepsRuns ==
  ASSUME RunsInv, NEW run, GoesOn(run), UNCHANGED <<scenario, listed>>,
         pr'.head = pr.head, pr'.runs = Put(pr.runs, run), due' = due \union {TellsOf(run)}
  PROVE  RunsInv'
<1>1. /\ WorkflowRuns' = WorkflowRuns
      /\ \A v, r : IsVersion(v, r)' <=> IsVersion(v, r)
  BY DEF WorkflowRuns, IsVersion
<1>2. \A r : TellsOf(r)' = TellsOf(r)
  BY DEF TellsOf, Event
<1>3. pr'.runs \subseteq WorkflowRuns /\ run \in pr'.runs
  BY DEF Put, RunsInv, GoesOn
<1>4. IsFiniteSet(pr'.runs)
  <2>1. IsFiniteSet({r \in pr.runs : r.id # run.id})
    BY FS_Subset DEF RunsInv
  <2>2. QED
    BY <2>1, FS_AddElement DEF Put
<1>5. \A q, r \in pr'.runs : q.id = r.id => q = r
  BY DEF Put, RunsInv
<1>6. \A r \in pr'.runs : r \in listed' \/ TellsOf(r)' \in due'
  BY <1>2 DEF Put, RunsInv
<1>7. ASSUME NEW v, NEW r \in pr.runs, IsVersion(v, r)
      PROVE  \E q \in pr'.runs : IsVersion(v, q)'
  <2>1. CASE r.id # run.id
    BY <1>1, <1>7, <2>1 DEF Put
  <2>2. CASE r.id = run.id
    <3>1. r.path = run.path /\ r.event = run.event /\ Beats(run, r)
      BY <2>2 DEF GoesOn
    <3>2. Beats(run, v)
      <4>1. CASE v = r
        BY <3>1, <4>1
      <4>2. CASE Beats(r, v)
        <5>1. run \in WorkflowRuns /\ r \in WorkflowRuns /\ v \in WorkflowRuns
          BY <1>7 DEF GoesOn, RunsInv, IsVersion
        <5>2. QED
          BY <3>1, <4>2, <5>1, BeatsIsTransitive
      <4>3. QED
        BY <1>7, <4>1, <4>2 DEF IsVersion
    <3>3. IsVersion(v, run)
      BY <1>7, <2>2, <3>1, <3>2 DEF IsVersion
    <3>4. QED
      BY <1>1, <1>3, <3>3
  <2>3. QED
    BY <2>1, <2>2
<1>8. \A v \in listed' : \E r \in pr'.runs : IsVersion(v, r)'
  BY <1>7 DEF RunsInv
<1>9. IsVersion(run, run)'
  BY <1>1 DEF IsVersion, GoesOn
<1>10. ASSUME NEW x \in due', x.head = pr'.head, NEW v \in x.runs
       PROVE  \E r \in pr'.runs : IsVersion(v, r)'
  <2>1. CASE x \in due
    BY <1>7, <1>10, <2>1 DEF RunsInv
  <2>2. CASE x = TellsOf(run)
    <3>1. x.runs = {run}
      BY <2>2, EventHasFields DEF TellsOf
    <3>2. QED
      BY <1>3, <1>9, <1>10, <3>1
  <2>3. QED
    BY <2>1, <2>2
<1>11. \A x \in due' : x.runs # {} => x.type = "workflow_run"
  <2>1. TellsOf(run).type = "workflow_run"
    BY DEF TellsOf, Event
  <2>2. QED
    BY <2>1 DEF RunsInv
<1>12. QED
  BY <1>1, <1>3, <1>4, <1>5, <1>6, <1>8, <1>10, <1>11 DEF RunsInv

(* GitHub lists a run anew, of which it lists no version that is as new. *)
LEMMA LearnKeepsRuns ==
  ASSUME RunsInv, NEW v, NEW run \in pr.runs, IsVersion(v, run),
         UNCHANGED <<scenario, pr>>, due' \subseteq due,
         \A r \in pr.runs : TellsOf(r) \in due => TellsOf(r) \in due' \/ r = v,
         \/ listed' = listed /\ (v = run => run \in listed)
         \/ listed' = Put(listed, v) /\ (run \in listed => v = run)
  PROVE  RunsInv'
<1>1. /\ WorkflowRuns' = WorkflowRuns
      /\ \A q, r : IsVersion(q, r)' <=> IsVersion(q, r)
  BY DEF WorkflowRuns, IsVersion
<1>2. \A r : TellsOf(r)' = TellsOf(r)
  BY DEF TellsOf, Event
<1>3. ASSUME NEW r \in pr.runs PROVE r \in listed' \/ TellsOf(r) \in due'
  <2>1. v.id = run.id
    BY DEF IsVersion
  <2>2. CASE r \in listed
    <3>1. r \in listed'
      BY <2>1, <2>2 DEF Put, RunsInv
    <3>2. QED
      BY <3>1
  <2>3. CASE r \notin listed
    <3>1. TellsOf(r) \in due
      BY <2>3 DEF RunsInv
    <3>2. CASE r = v
      <4>1. r = run
        BY <2>1, <3>2 DEF RunsInv
      <4>2. QED
        BY <2>3, <3>2, <4>1 DEF Put
    <3>3. QED
      BY <3>1, <3>2
  <2>4. QED
    BY <2>2, <2>3
<1>4. \A q \in listed' : \E r \in pr'.runs : IsVersion(q, r)'
  BY <1>1 DEF Put, RunsInv
<1>5. \A e \in due' : e.head = pr'.head => \A q \in e.runs : \E r \in pr'.runs : IsVersion(q, r)'
  BY <1>1 DEF RunsInv
<1>6. QED
  BY <1>1, <1>2, <1>3, <1>4, <1>5 DEF RunsInv

LEMMA ListRunKeepsRuns ==
  ASSUME RunsInv, ListRun
  PROVE  RunsInv'
<1>1. PICK run \in pr.runs : run \notin listed /\ listed' = Put(listed, run)
                             /\ UNCHANGED <<Rest, pr, truth, due, shown, judged, changes>>
  BY DEF ListRun
<1>2. IsVersion(run, run)
  BY DEF IsVersion, RunsInv
<1>3. QED
  BY <1>1, <1>2, LearnKeepsRuns DEF Rest

LEMMA HandleKeepsRuns ==
  ASSUME RunsInv, NEW e, Handle(e)
  PROVE  RunsInv'
<1>1. e \in due /\ due' = due \ {e} /\ UNCHANGED <<scenario, pr>>
  BY DEF Handle
<1>2. CASE e.runs # {} /\ e.head = pr.head
  <2> DEFINE v == CHOOSE r \in e.runs : TRUE
  <2>1. listed' = Learn(listed, v) /\ v \in e.runs
    BY <1>2 DEF Handle
  <2>2. \A r : TellsOf(r) = e => r = v
    BY <2>1, EventHasFields DEF TellsOf
  <2> HIDE DEF v
  <2>3. PICK run \in pr.runs : IsVersion(v, run)
    BY <1>1, <1>2, <2>1 DEF RunsInv
  <2>4. \A r \in pr.runs : TellsOf(r) \in due => TellsOf(r) \in due' \/ r = v
    BY <1>1, <2>2
  <2>5. CASE \E r \in listed : r.id = v.id /\ AtLeastAsNew(r, v)
    <3>1. listed' = listed
      BY <2>1, <2>5 DEF Learn
    <3>2. v = run => run \in listed
      <4>1. SUFFICES ASSUME v = run PROVE run \in listed
        OBVIOUS
      <4>2. PICK r \in listed : r.id = v.id /\ AtLeastAsNew(r, v)
        BY <2>5
      <4>3. PICK q \in pr.runs : IsVersion(r, q)
        BY DEF RunsInv
      <4>4. q = run
        BY <4>1, <4>2, <4>3 DEF RunsInv, IsVersion
      <4>5. r = run
        BY <4>1, <4>2, <4>3, <4>4 DEF IsVersion, Beats
      <4>6. QED
        BY <4>5
    <3>3. QED
      BY <1>1, <2>3, <2>4, <3>1, <3>2, LearnKeepsRuns
  <2>6. CASE ~ \E r \in listed : r.id = v.id /\ AtLeastAsNew(r, v)
    <3>1. listed' = Put(listed, v)
      BY <2>1, <2>6 DEF Learn
    <3>2. run \in listed => v = run
      BY <2>3, <2>6 DEF IsVersion, Beats
    <3>3. QED
      BY <1>1, <2>3, <2>4, <3>1, <3>2, LearnKeepsRuns
  <2>7. QED
    BY <2>5, <2>6
<1>3. CASE ~(e.runs # {} /\ e.head = pr.head)
  <2>1. listed' = listed
    BY <1>3 DEF Handle
  <2>2. \A r : TellsOf(r) # e
    <3>1. ASSUME NEW r PROVE TellsOf(r).runs = {r} /\ TellsOf(r).head = pr.head
      BY EventHasFields DEF TellsOf
    <3>2. QED
      BY <1>3, <3>1
  <2>3. /\ WorkflowRuns' = WorkflowRuns
        /\ \A q, r : IsVersion(q, r)' <=> IsVersion(q, r)
    BY <1>1 DEF WorkflowRuns, IsVersion
  <2>4. \A r : TellsOf(r)' = TellsOf(r)
    BY <1>1 DEF TellsOf, Event
  <2>5. \A r \in pr'.runs : r \in listed' \/ TellsOf(r)' \in due'
    BY <1>1, <2>1, <2>2, <2>4 DEF RunsInv
  <2>6. /\ \A v \in listed' : \E r \in pr'.runs : IsVersion(v, r)'
        /\ \A x \in due' : x.head = pr'.head =>
             \A v \in x.runs : \E r \in pr'.runs : IsVersion(v, r)'
    BY <1>1, <2>1, <2>3 DEF RunsInv
  <2>7. QED
    BY <1>1, <2>3, <2>5, <2>6 DEF RunsInv
<1>4. QED
  BY <1>2, <1>3

-----------------------------------------------------------------------------
(***************************************************************************)
(* Check runs, by name.                                                    *)
(***************************************************************************)
CheckRuns == [name : STRING, conclusion : {NoConclusion, "success", "failure"}]

SameCheck(name, checks, others) ==
  /\ name \in DOMAIN CheckStatuses(checks) <=> name \in DOMAIN CheckStatuses(others)
  /\ name \in DOMAIN CheckStatuses(checks)
       => CheckStatuses(checks)[name] = CheckStatuses(others)[name]

LEMMA SameCheckIsSameStatus ==
  ASSUME NEW pull, NEW other, pull.statuses = other.statuses, NEW name,
         SameCheck(name, pull.checks, other.checks)
  PROVE  SameStatus(name, pull, other)
<1>1. ASSUME NEW x
      PROVE  /\ DOMAIN LatestStatuses(x) = DOMAIN x.statuses \union DOMAIN CheckStatuses(x.checks)
             /\ \A n \in DOMAIN x.statuses \union DOMAIN CheckStatuses(x.checks) :
                  LatestStatuses(x)[n] = IF n \in DOMAIN CheckStatuses(x.checks)
                                         THEN CheckStatuses(x.checks)[n] ELSE x.statuses[n]
  BY Zenon DEF LatestStatuses
<1>2. /\ name \in DOMAIN LatestStatuses(pull) <=> name \in DOMAIN LatestStatuses(other)
      /\ name \in DOMAIN LatestStatuses(pull)
           => LatestStatuses(pull)[name] = LatestStatuses(other)[name]
  <2>1. /\ DOMAIN LatestStatuses(pull)
             = DOMAIN pull.statuses \union DOMAIN CheckStatuses(pull.checks)
        /\ DOMAIN LatestStatuses(other)
             = DOMAIN pull.statuses \union DOMAIN CheckStatuses(other.checks)
    BY <1>1
  <2>2. CASE name \in DOMAIN CheckStatuses(pull.checks)
    <3>1. LatestStatuses(pull)[name] = CheckStatuses(pull.checks)[name]
      BY <1>1, <2>2
    <3>2. LatestStatuses(other)[name] = CheckStatuses(other.checks)[name]
      BY <1>1, <2>2 DEF SameCheck
    <3>3. QED
      BY <2>1, <2>2, <3>1, <3>2 DEF SameCheck
  <2>3. CASE name \notin DOMAIN CheckStatuses(pull.checks)
    <3>1. name \in DOMAIN pull.statuses => LatestStatuses(pull)[name] = pull.statuses[name]
      BY <1>1, <2>3
    <3>2. name \in DOMAIN pull.statuses => LatestStatuses(other)[name] = pull.statuses[name]
      BY <1>1, <2>3 DEF SameCheck
    <3>3. QED
      BY <2>1, <2>3, <3>1, <3>2 DEF SameCheck
  <2>4. QED
    BY <2>2, <2>3
<1>3. QED
  BY <1>2 DEF SameStatus

Places(checks, name) == {i \in 1..Len(checks) : checks[i].name = name}

LEMMA CheckStatusIsFirst ==
  ASSUME NEW checks \in Seq(CheckRuns), NEW name
  PROVE  /\ name \in DOMAIN CheckStatuses(checks) <=> Places(checks, name) # {}
         /\ \A i \in Places(checks, name) :
              (\A j \in Places(checks, name) : i <= j)
                => CheckStatuses(checks)[name] = checks[i].conclusion
<1> DEFINE at == Places(checks, name)
<1>1. name \in DOMAIN CheckStatuses(checks) <=> at # {}
  BY DEF CheckStatuses, Places
<1>2. ASSUME NEW i \in at, \A j \in at : i <= j
      PROVE  CheckStatuses(checks)[name] = checks[i].conclusion
  <2>1. CheckStatuses(checks)[name] = checks[Min(at)].conclusion
    BY <1>2, Zenon DEF CheckStatuses, Places
  <2>2. at \subseteq Nat /\ at # {}
    BY <1>2 DEF Places
  <2>3. Min(at) \in at /\ \A j \in at : Min(at) <= j
    BY <2>2, MinOfNaturals
  <2> HIDE DEF at
  <2>4. Min(at) = i
    <3>1. Min(at) <= i /\ i <= Min(at) /\ Min(at) \in Nat /\ i \in Nat
      BY <1>2, <2>2, <2>3
    <3>2. QED
      BY <3>1
  <2>5. QED
    BY <2>1, <2>4
<1>3. QED
  BY <1>1, <1>2

LEMMA EarlierCheck ==
  ASSUME NEW checks \in Seq(CheckRuns), NEW c \in CheckRuns, NEW name, name # c.name
  PROVE  /\ <<c>> \o checks \in Seq(CheckRuns)
         /\ SameCheck(name, checks, <<c>> \o checks)
<1> DEFINE more == <<c>> \o checks
           at(s) == Places(s, name)
<1>1. /\ more \in Seq(CheckRuns) /\ Len(more) = Len(checks) + 1 /\ more[1] = c
      /\ \A i \in 1..Len(checks) : more[i + 1] = checks[i]
      /\ \A i \in 2..Len(more) : more[i] = checks[i - 1]
      /\ Len(checks) \in Nat
  OBVIOUS
<1> HIDE DEF more
<1>2. \A i \in at(checks) : i + 1 \in at(more)
  BY <1>1 DEF Places
<1>3. \A i \in at(more) : i - 1 \in at(checks) /\ i \in Nat
  BY <1>1 DEF Places
<1>4. at(checks) # {} <=> at(more) # {}
  BY <1>2, <1>3
<1>5. /\ name \in DOMAIN CheckStatuses(checks) <=> at(checks) # {}
      /\ name \in DOMAIN CheckStatuses(more) <=> at(more) # {}
      /\ \A i \in at(more) : (\A j \in at(more) : i <= j)
                            => CheckStatuses(more)[name] = more[i].conclusion
  BY <1>1, CheckStatusIsFirst
<1>6. ASSUME at(checks) # {} PROVE CheckStatuses(checks)[name] = CheckStatuses(more)[name]
  <2>1. at(checks) \subseteq Nat
    BY <1>1 DEF Places
  <2> HIDE DEF at
  <2>2. PICK i \in at(checks) : \A j \in at(checks) : i <= j
    BY <1>6, <2>1, LeastNumber
  <2>3. \A j \in at(more) : i + 1 <= j
    BY <1>3, <2>1, <2>2
  <2>4. i + 1 \in at(more)
    BY <1>2, <2>2
  <2>5. CheckStatuses(checks)[name] = checks[i].conclusion
    BY <2>2, CheckStatusIsFirst DEF at
  <2>6. CheckStatuses(more)[name] = more[i + 1].conclusion
    <3> DEFINE k == i + 1
    <3>1. k \in at(more) /\ \A j \in at(more) : k <= j
      BY <2>3, <2>4
    <3> HIDE DEF k
    <3>2. CheckStatuses(more)[name] = more[k].conclusion
      BY <1>5, <3>1
    <3>3. QED
      BY <3>2 DEF k
  <2>7. more[i + 1] = checks[i]
    BY <1>1 DEF at, Places
  <2>8. QED
    BY <2>5, <2>6, <2>7
<1> HIDE DEF at
<1>7. QED
  BY <1>1, <1>4, <1>5, <1>6 DEF SameCheck, more

LEMMA CompletedCheck ==
  ASSUME NEW checks \in Seq(CheckRuns), NEW i \in 1..Len(checks),
         NEW conclusion \in {NoConclusion, "success", "failure"},
         NEW name, name # checks[i].name
  PROVE  LET done == [checks EXCEPT ![i].conclusion = conclusion]
         IN  done \in Seq(CheckRuns) /\ SameCheck(name, checks, done)
<1> DEFINE done == [checks EXCEPT ![i].conclusion = conclusion]
           at(s) == Places(s, name)
<1>1. checks[i] \in CheckRuns
  OBVIOUS
<1>2. [checks[i] EXCEPT !.conclusion = conclusion] \in CheckRuns
      /\ [checks[i] EXCEPT !.conclusion = conclusion].name = checks[i].name
  BY <1>1 DEF CheckRuns
<1>3. /\ done = [checks EXCEPT ![i] = [checks[i] EXCEPT !.conclusion = conclusion]]
      /\ Len(done) = Len(checks) /\ Len(checks) \in Nat
      /\ \A k \in 1..Len(checks) : k # i => done[k] = checks[k]
  OBVIOUS
<1>4. done \in Seq(CheckRuns)
  BY <1>2, <1>3
<1>5. done[i].name = checks[i].name
  BY <1>2, <1>3
<1> HIDE DEF done
<1>6. at(done) = at(checks) /\ \A k \in at(checks) : done[k] = checks[k]
  BY <1>3, <1>5 DEF Places
<1>7. /\ name \in DOMAIN CheckStatuses(checks) <=> at(checks) # {}
      /\ name \in DOMAIN CheckStatuses(done) <=> at(done) # {}
  BY <1>4, CheckStatusIsFirst
<1>8. ASSUME at(checks) # {} PROVE CheckStatuses(checks)[name] = CheckStatuses(done)[name]
  <2>1. at(checks) \subseteq Nat
    BY <1>3 DEF Places
  <2> HIDE DEF at
  <2>2. PICK k \in at(checks) : \A j \in at(checks) : k <= j
    BY <1>8, <2>1, LeastNumber
  <2>3. CheckStatuses(checks)[name] = checks[k].conclusion
    BY <2>2, CheckStatusIsFirst DEF at
  <2>4. CheckStatuses(done)[name] = done[k].conclusion
    BY <1>4, <1>6, <2>2, CheckStatusIsFirst DEF at
  <2>5. QED
    BY <1>6, <2>2, <2>3, <2>4
<1> HIDE DEF at
<1>9. QED
  BY <1>4, <1>6, <1>7, <1>8 DEF SameCheck, done

-----------------------------------------------------------------------------
(***************************************************************************)
(* The promise.  Where the status is by the policy in the repository and   *)
(* not the truth, an event is due that will be evaluated.                  *)
(***************************************************************************)
ForHead(e) == e.head = pr.head \/ e.type \in {"comment", "review"}

WillBeJudged == \E e \in due : Evaluates(Policy(file), e) /\ ForHead(e)

PromiseInv ==
  /\ EventsInv
  /\ RunsInv
  /\ pr.told = {} /\ pr.checks \in Seq(CheckRuns)
  /\ IsFiniteSet(due)
  /\ judged = file /\ shown # truth => WillBeJudged

LEMMA PoliciesAreTyped ==
  ASSUME EventsInv
  PROVE  /\ IsPolicy(Policy(file)) /\ truth = Truth(Policy(file), pr)
         /\ file \in Nat /\ cached \in Nat /\ judged \in Nat /\ judged <= cached /\ cached <= file
<1>1. /\ scenario \in Scenarios /\ file \in 1..Len(scenario.policies)
      /\ cached \in 1..file /\ judged \in 0..cached /\ truth = Truth(Policy(file), pr)
  BY DEF EventsInv, TypeOK
<1>2. /\ Len(scenario.policies) \in Nat
      /\ \A n \in 1..Len(scenario.policies) : IsPolicy(scenario.policies[n])
  BY <1>1, ScenariosAssumption
<1>3. IsPolicy(Policy(file))
  BY <1>1, <1>2 DEF Policy
<1>4. file \in Nat /\ cached \in Nat /\ judged \in Nat /\ judged <= cached /\ cached <= file
  BY <1>1, <1>2
<1>5. QED
  BY <1>1, <1>3, <1>4

LEMMA OneFieldChanges ==
  ASSUME NEW pull, IsPull(pull), NEW f \in Fields, NEW x
  PROVE  LET new == [pull EXCEPT ![f] = x]
         IN  new[f] = x /\ \A g \in Fields \ {f} : pull[g] = new[g]
<1> DEFINE new == [pull EXCEPT ![f] = x]
<1>1. new = [g \in Fields |-> IF g = f THEN x ELSE pull[g]]
  BY DEF IsPull
<1> HIDE DEF new
<1>2. QED
  BY <1>1 DEF new

-----------------------------------------------------------------------------
(***************************************************************************)
(* Changes.  One that changes the truth tells of itself by an event that   *)
(* is evaluated: no handler skips it, and it has a trigger of the policy.  *)
(***************************************************************************)
Matters(pull, e) ==
  Truth(Policy(file), pull) = truth \/ Evaluates(Policy(file), e)

LEMMA FieldMatters ==
  ASSUME EventsInv, NEW f \in {"title", "labels", "statuses"}, NEW x,
         NEW type \in {"pull_request", "status"}, NEW name
  PROVE  Matters([pr EXCEPT ![f] = x], Event(type, {TriggerOf[f]}, name, {}))
<1> DEFINE pull == [pr EXCEPT ![f] = x]
           e == Event(type, {TriggerOf[f]}, name, {})
           policy == Policy(file)
<1>1. IsPolicy(policy) /\ truth = StatusFor(policy, pr, {})
  BY PoliciesAreTyped DEF Truth
<1>2. Same(pr, pull, Fields \ {f})
  <2>1. IsPull(pr) /\ f \in Fields
    BY DEF EventsInv, Fields
  <2>2. \A g \in Fields \ {f} : pr[g] = pull[g]
    BY <2>1, OneFieldChanges
  <2> HIDE DEF pull
  <2>3. QED
    BY <2>2 DEF Same
<1>3. e.type = type /\ e.trigger = {TriggerOf[f]}
  BY DEF Event
<1> HIDE DEF pull, e, policy
<1>4. CASE TriggerOf[f] \in PolicyTrigger(policy)
  BY <1>3, <1>4 DEF Matters, Evaluates, ShouldSkip, AffectsApproval, policy, e
<1>5. CASE TriggerOf[f] \notin PolicyTrigger(policy)
  <2>1. StatusFor(policy, pr, {}) = StatusFor(policy, pull, {})
    BY <1>1, <1>2, <1>5, UntriggeredChangesNothing
  <2>2. QED
    BY <1>1, <2>1 DEF Matters, Truth, policy, pull
<1>6. QED
  BY <1>4, <1>5

LEMMA CheckMatters ==
  ASSUME EventsInv, NEW x, NEW changed,
         \A name : name # changed => SameCheck(name, pr.checks, x)
  PROVE  Matters([pr EXCEPT !.checks = x], Event("check_run", {"status"}, changed, {}))
<1> DEFINE pull == [pr EXCEPT !.checks = x]
           e == Event("check_run", {"status"}, changed, {})
           policy == Policy(file)
<1>1. IsPolicy(policy) /\ truth = StatusFor(policy, pr, {})
  BY PoliciesAreTyped DEF Truth
<1>2. Same(pr, pull, Fields \ {"checks"}) /\ pull.checks = x /\ pull.statuses = pr.statuses
  <2>1. IsPull(pr) /\ "checks" \in Fields /\ "statuses" \in Fields \ {"checks"}
    BY DEF EventsInv, Fields
  <2>2. pull.checks = x /\ \A g \in Fields \ {"checks"} : pr[g] = pull[g]
    BY <2>1, OneFieldChanges
  <2> HIDE DEF pull
  <2>3. QED
    BY <2>1, <2>2 DEF Same
<1>3. e.type = "check_run" /\ e.trigger = {"status"} /\ e.name = changed
  BY DEF Event
<1> HIDE DEF pull, e, policy
<1>4. SUFFICES ASSUME ~Evaluates(policy, e)
               PROVE  StatusFor(policy, pr, {}) = StatusFor(policy, pull, {})
  BY <1>1 DEF Matters, Truth, policy, pull, e
<1>5. CASE ~IsValid(policy)
  BY <1>5, RefusedIsAnError
<1>6. CASE "status" \notin PolicyTrigger(policy)
  <2>1. TriggerOf["checks"] = "status"
    BY DEF TriggerOf
  <2>2. QED
    BY <1>1, <1>2, <1>6, <2>1, UntriggeredChangesNothing
<1>7. CASE IsValid(policy) /\ "status" \in PolicyTrigger(policy)
  <2>1. changed \notin PolicyStatusNames(policy)
    BY <1>3, <1>4, <1>7 DEF Evaluates, ShouldSkip, AffectsApproval
  <2>2. \A name \in PolicyStatusNames(policy) : SameStatus(name, pr, pull)
    BY <1>2, <2>1, SameCheckIsSameStatus
  <2>3. QED
    BY <1>1, <1>2, <1>7, <2>2, UnnamedStatusChangesNothing
<1>8. QED
  BY <1>5, <1>6, <1>7

LEMMA RunMatters ==
  ASSUME EventsInv, RunsInv, NEW run, GoesOn(run)
  PROVE  Matters([pr EXCEPT !.runs = Put(@, run)], TellsOf(run))
<1> DEFINE pull == [pr EXCEPT !.runs = Put(@, run)]
           e == TellsOf(run)
           policy == Policy(file)
<1>1. IsPolicy(policy) /\ truth = StatusFor(policy, pr, {})
  BY PoliciesAreTyped DEF Truth
<1>2. /\ Same(pr, pull, Fields \ {"runs"}) /\ Same(pr, pull, Fields \ {"runs", "told"})
      /\ pull.runs = Put(pr.runs, run) /\ pull.told = pr.told
  <2>1. IsPull(pr) /\ "runs" \in Fields /\ "told" \in Fields \ {"runs"}
    BY DEF EventsInv, Fields
  <2>2. pull.runs = Put(pr.runs, run) /\ \A g \in Fields \ {"runs"} : pr[g] = pull[g]
    BY <2>1, OneFieldChanges
  <2> HIDE DEF pull
  <2>3. QED
    BY <2>1, <2>2 DEF Same
<1>3. e.type = "workflow_run" /\ e.trigger = {"status"} /\ e.name = run.path
  BY DEF TellsOf, Event
<1> HIDE DEF pull, e, policy
<1>4. SUFFICES ASSUME ~Evaluates(policy, e)
               PROVE  StatusFor(policy, pr, {}) = StatusFor(policy, pull, {})
  BY <1>1 DEF Matters, Truth, policy, pull, e
<1>5. CASE ~IsValid(policy)
  BY <1>5, RefusedIsAnError
<1>6. CASE "status" \notin PolicyTrigger(policy)
  <2>1. TriggerOf["runs"] = "status"
    BY DEF TriggerOf
  <2>2. QED
    BY <1>1, <1>2, <1>6, <2>1, UntriggeredChangesNothing
<1>7. CASE IsValid(policy) /\ "status" \in PolicyTrigger(policy)
  <2>1. run.path \notin PolicyWorkflowNames(policy)
    BY <1>3, <1>4, <1>7 DEF Evaluates, ShouldSkip, AffectsApproval
  <2>2. ASSUME NEW path, path # run.path PROVE RunsOf(pr, path) = RunsOf(pull, path)
    BY <1>2, <2>2 DEF RunsOf, Put, GoesOn
  <2>3. \A path \in PolicyWorkflowNames(policy) : SameRuns(path, pr, pull)
    BY <2>1, <2>2 DEF SameRuns
  <2>4. QED
    BY <1>1, <1>2, <1>7, <2>3, UnnamedRunChangesNothing
<1>8. QED
  BY <1>5, <1>6, <1>7

LEMMA VoiceMatters ==
  ASSUME EventsInv, NEW x, NEW v, x \ {v} = pr.voices \ {v}, NEW name,
         name = v.says \/ (v.by = "review" /\ name = "dismissed")
  PROVE  Matters([pr EXCEPT !.voices = x], Event(v.by, {v.by}, name, {}))
<1> DEFINE pull == [pr EXCEPT !.voices = x]
           e == Event(v.by, {v.by}, name, {})
           policy == Policy(file)
<1>1. IsPolicy(policy) /\ truth = StatusFor(policy, pr, {})
  BY PoliciesAreTyped DEF Truth
<1>2. Same(pr, pull, Fields \ {"voices"}) /\ pull.voices = x
  <2>1. IsPull(pr) /\ "voices" \in Fields
    BY DEF EventsInv, Fields
  <2>2. pull.voices = x /\ \A g \in Fields \ {"voices"} : pr[g] = pull[g]
    BY <2>1, OneFieldChanges
  <2> HIDE DEF pull
  <2>3. QED
    BY <2>2 DEF Same
<1>3. e.type = v.by /\ e.trigger = {v.by} /\ e.name = name
  BY DEF Event
<1> HIDE DEF pull, e, policy
<1>4. SUFFICES ASSUME ~Evaluates(policy, e)
               PROVE  StatusFor(policy, pr, {}) = StatusFor(policy, pull, {})
  BY <1>1 DEF Matters, Truth, policy, pull, e
<1>5. CASE ~IsValid(policy)
  BY <1>5, RefusedIsAnError
<1>6. CASE IsValid(policy)
  BY <1>1, <1>2, <1>3, <1>4, <1>6, UnheardVoiceChangesNothing
<1>7. QED
  BY <1>5, <1>6

(* What the changes of the pull request have in common, all but a push. *)
IsChange(pull, e) ==
  /\ Becomes(pull) /\ Tell(e) /\ Matters(pull, e)
  /\ UNCHANGED <<Rest, listed, shown, judged>>
  /\ pull.head = pr.head /\ e.head = pr.head
  /\ pull.told = pr.told /\ pull.checks \in Seq(CheckRuns)
  /\ \/ pull.runs = pr.runs /\ e.runs = {}
     \/ \E run : GoesOn(run) /\ pull.runs = Put(pr.runs, run) /\ e = TellsOf(run)

LEMMA OtherFieldsStay ==
  ASSUME PromiseInv, NEW f \in Fields \ {"head", "runs", "told"}, NEW x,
         f = "checks" => x \in Seq(CheckRuns)
  PROVE  LET pull == [pr EXCEPT ![f] = x]
         IN  /\ pull.head = pr.head /\ pull.runs = pr.runs /\ pull.told = pr.told
             /\ pull.checks \in Seq(CheckRuns)
<1>1. IsPull(pr) /\ pr.checks \in Seq(CheckRuns)
  BY DEF PromiseInv, EventsInv
<1>2. {"head", "runs", "told", "checks"} \subseteq Fields
  BY DEF Fields
<1> DEFINE pull == [pr EXCEPT ![f] = x]
<1>3. pull[f] = x /\ \A g \in Fields \ {f} : pr[g] = pull[g]
  <2>1. f \in Fields /\ IsPull(pr)
    BY <1>1
  <2>2. \A g \in Fields \ {f} : pr[g] = pull[g]
    BY <2>1, OneFieldChanges
  <2>3. pull[f] = x
    BY <2>1, OneFieldChanges
  <2>4. QED
    BY <2>2, <2>3
<1> HIDE DEF pull
<1>4. CASE f = "checks"
  BY <1>2, <1>3, <1>4 DEF pull
<1>5. CASE f # "checks"
  <2>1. pull.checks = pr.checks
    BY <1>2, <1>3, <1>5
  <2>2. QED
    BY <1>1, <1>2, <1>3, <2>1 DEF pull
<1>6. QED
  BY <1>4, <1>5

(* A change of one field, that tells of itself. *)
LEMMA FieldIsChange ==
  ASSUME PromiseInv, NEW f \in Fields \ {"head", "runs", "told"}, NEW x,
         f = "checks" => x \in Seq(CheckRuns),
         NEW type, NEW trigger, NEW name,
         Matters([pr EXCEPT ![f] = x], Event(type, trigger, name, {})),
         Becomes([pr EXCEPT ![f] = x]), Tell(Event(type, trigger, name, {})),
         UNCHANGED <<Rest, listed, shown, judged>>
  PROVE  \E pull, e : IsChange(pull, e)
<1> DEFINE pull == [pr EXCEPT ![f] = x]
           e == Event(type, trigger, name, {})
<1>1. /\ pull.head = pr.head /\ pull.runs = pr.runs /\ pull.told = pr.told
      /\ pull.checks \in Seq(CheckRuns)
  BY OtherFieldsStay
<1>2. e.head = pr.head /\ e.runs = {}
  BY EventHasFields
<1>3. Becomes(pull) /\ Tell(e) /\ Matters(pull, e)
  OBVIOUS
<1> HIDE DEF pull, e
<1>4. IsChange(pull, e)
  BY <1>1, <1>2, <1>3 DEF IsChange
<1>5. QED
  BY <1>4

LEMMA OwnDataIsChange ==
  ASSUME PromiseInv, Retitle \/ Relabel \/ Report
  PROVE  \E pull, e : IsChange(pull, e)
<1>1. EventsInv /\ {"title", "labels", "statuses"} \subseteq Fields \ {"head", "runs", "told", "checks"}
  BY DEF PromiseInv, Fields
<1>2. /\ TriggerOf["title"] = "pull_request" /\ TriggerOf["labels"] = "label"
      /\ TriggerOf["statuses"] = "status"
  BY DEF TriggerOf
<1>3. CASE Retitle
  <2>1. PICK x : /\ Becomes([pr EXCEPT !.title = x])
                 /\ Tell(Event("pull_request", {"pull_request"}, "", {}))
                 /\ UNCHANGED <<Rest, listed, shown, judged>>
    BY <1>3 DEF Retitle
  <2>2. Matters([pr EXCEPT !.title = x], Event("pull_request", {"pull_request"}, "", {}))
    BY <1>1, <1>2, FieldMatters
  <2>3. QED
    BY <1>1, <2>1, <2>2, FieldIsChange
<1>4. CASE Relabel
  <2>1. PICK x : /\ Becomes([pr EXCEPT !.labels = x])
                 /\ Tell(Event("pull_request", {"label"}, "", {}))
                 /\ UNCHANGED <<Rest, listed, shown, judged>>
    BY <1>4 DEF Relabel
  <2>2. Matters([pr EXCEPT !.labels = x], Event("pull_request", {"label"}, "", {}))
    BY <1>1, <1>2, FieldMatters
  <2>3. QED
    BY <1>1, <2>1, <2>2, FieldIsChange
<1>5. CASE Report
  <2>1. PICK name, x : /\ Becomes([pr EXCEPT !.statuses = x])
                       /\ Tell(Event("status", {"status"}, name, {}))
                       /\ UNCHANGED <<Rest, listed, shown, judged>>
    BY <1>5 DEF Report
  <2>2. Matters([pr EXCEPT !.statuses = x], Event("status", {"status"}, name, {}))
    BY <1>1, <1>2, FieldMatters
  <2>3. QED
    BY <1>1, <2>1, <2>2, FieldIsChange
<1>6. QED
  BY <1>3, <1>4, <1>5

LEMMA CheckIsChange ==
  ASSUME PromiseInv, CreateCheck \/ CompleteCheck
  PROVE  \E pull, e : IsChange(pull, e)
<1>1. EventsInv /\ pr.checks \in Seq(CheckRuns) /\ "checks" \in Fields \ {"head", "runs", "told"}
  BY DEF PromiseInv, Fields
<1>2. CASE CreateCheck
  <2>1. PICK name \in scenario.checks :
          /\ Becomes([pr EXCEPT !.checks = <<[name |-> name, conclusion |-> NoConclusion]>> \o @])
          /\ Tell(Event("check_run", {"status"}, name, {}))
          /\ UNCHANGED <<Rest, listed, shown, judged>>
    BY <1>2 DEF CreateCheck
  <2> DEFINE c == [name |-> name, conclusion |-> NoConclusion]
             x == <<c>> \o pr.checks
  <2>2. c \in CheckRuns /\ c.name = name
    <3>1. scenario \in Scenarios
      BY <1>1 DEF EventsInv, TypeOK
    <3>2. name \in STRING
      BY <2>1, <3>1, ScenariosAssumption
    <3>3. c \in [name : STRING, conclusion : {NoConclusion, "success", "failure"}]
      BY <3>2
    <3>4. QED
      BY <3>3 DEF CheckRuns
  <2> HIDE DEF c
  <2>3. x \in Seq(CheckRuns) /\ \A s : s # name => SameCheck(s, pr.checks, x)
    <3>1. x \in Seq(CheckRuns)
      BY <1>1, <2>2
    <3>2. QED
      BY <1>1, <2>2, <3>1, EarlierCheck
  <2>4. Becomes([pr EXCEPT !.checks = x])
    BY <2>1 DEF c
  <2> HIDE DEF x
  <2>5. Matters([pr EXCEPT !.checks = x], Event("check_run", {"status"}, name, {}))
    BY <1>1, <2>3, CheckMatters
  <2>6. QED
    BY <1>1, <2>1, <2>3, <2>4, <2>5, FieldIsChange
<1>3. CASE CompleteCheck
  <2>1. PICK i \in 1..Len(pr.checks), conclusion \in {"success", "failure"} :
          /\ Becomes([pr EXCEPT !.checks[i].conclusion = conclusion])
          /\ Tell(Event("check_run", {"status"}, pr.checks[i].name, {}))
          /\ UNCHANGED <<Rest, listed, shown, judged>>
    BY <1>3 DEF CompleteCheck
  <2> DEFINE x == [pr.checks EXCEPT ![i].conclusion = conclusion]
             name == pr.checks[i].name
  <2>2. ASSUME NEW s, s # name PROVE SameCheck(s, pr.checks, x)
    <3>1. conclusion \in {NoConclusion, "success", "failure"}
      BY <2>1
    <3>2. QED
      BY <1>1, <2>2, <3>1, CompletedCheck
  <2>3. x \in Seq(CheckRuns)
    <3>1. [pr.checks[i] EXCEPT !.conclusion = conclusion] \in CheckRuns
      <4>1. pr.checks[i] \in CheckRuns
        BY <1>1
      <4>2. conclusion \in {NoConclusion, "success", "failure"}
        BY <2>1
      <4>3. QED
        BY <4>1, <4>2 DEF CheckRuns
    <3>2. x = [pr.checks EXCEPT ![i] = [pr.checks[i] EXCEPT !.conclusion = conclusion]]
      OBVIOUS
    <3>3. QED
      BY <1>1, <3>1, <3>2
  <2>4. Becomes([pr EXCEPT !.checks = x])
    BY <2>1
  <2> HIDE DEF x
  <2>5. Matters([pr EXCEPT !.checks = x], Event("check_run", {"status"}, name, {}))
    BY <1>1, <2>2, CheckMatters
  <2>6. QED
    BY <1>1, <2>1, <2>3, <2>4, <2>5, FieldIsChange
<1>4. QED
  BY <1>2, <1>3

(* A workflow run that is new, or goes on, tells of itself. *)
LEMMA RunIsChange ==
  ASSUME PromiseInv, NEW run, GoesOn(run), Running(run)
  PROVE  \E pull, e : IsChange(pull, e)
<1> DEFINE pull == [pr EXCEPT !.runs = Put(@, run)]
           e == TellsOf(run)
<1>1. /\ IsPull(pr) /\ pr.checks \in Seq(CheckRuns)
      /\ "runs" \in Fields /\ {"head", "told", "checks"} \subseteq Fields \ {"runs"}
  BY DEF PromiseInv, EventsInv, Fields
<1>2. pull.runs = Put(pr.runs, run) /\ \A g \in Fields \ {"runs"} : pr[g] = pull[g]
  <2> DEFINE x == Put(pr.runs, run)
  <2>1. pull = [pr EXCEPT !["runs"] = x]
    OBVIOUS
  <2>2. "runs" \in Fields /\ IsPull(pr)
    BY <1>1
  <2> HIDE DEF x
  <2>3. \A g \in Fields \ {"runs"} : pr[g] = pull[g]
    BY <2>1, <2>2, OneFieldChanges
  <2>4. pull["runs"] = x
    BY <2>1, <2>2, OneFieldChanges
  <2>5. QED
    BY <2>3, <2>4 DEF x
<1>3. Becomes(pull) /\ Tell(e) /\ UNCHANGED <<Rest, listed, shown, judged>>
  BY DEF Running, TellsOf
<1>4. Matters(pull, e)
  BY RunMatters DEF PromiseInv
<1>5. e.head = pr.head
  BY EventHasFields DEF TellsOf
<1> HIDE DEF pull
<1>6. /\ pull.head = pr.head /\ pull.told = pr.told /\ pull.checks = pr.checks
  BY <1>1, <1>2
<1>7. IsChange(pull, e)
  BY <1>1, <1>2, <1>3, <1>4, <1>5, <1>6 DEF IsChange
<1>8. QED
  BY <1>7

Completed(run, c, at) == [run EXCEPT !.status = "completed", !.conclusion = c, !.at = at]

LEMMA CompletedIsRun ==
  ASSUME NEW run \in WorkflowRuns, NEW c \in {NoConclusion, "success", "failure"}, NEW at \in Nat
  PROVE  LET next == Completed(run, c, at)
         IN  /\ next \in WorkflowRuns
             /\ next.id = run.id /\ next.path = run.path /\ next.event = run.event
             /\ next.attempt = run.attempt /\ next.at = at /\ next.status = "completed"
BY DEF WorkflowRuns, Completed

LEMMA RepeatedIsRun ==
  ASSUME NEW run \in WorkflowRuns, NEW n \in Nat
  PROVE  LET next == [run EXCEPT !.attempt = n, !.status = "queued", !.conclusion = NoConclusion]
         IN  /\ next \in WorkflowRuns
             /\ next.id = run.id /\ next.path = run.path /\ next.event = run.event
             /\ next.attempt = n
BY DEF WorkflowRuns

LEMMA WorkflowIsChange ==
  ASSUME PromiseInv, RequestRun \/ CompleteRun \/ RepeatRun
  PROVE  \E pull, e : IsChange(pull, e)
<1>1. /\ IsFiniteSet(pr.runs) /\ pr.runs \subseteq WorkflowRuns
      /\ \A q, r \in pr.runs : q.id = r.id => q = r
  BY DEF PromiseInv, RunsInv
<1>2. CASE RequestRun
  <2> DEFINE ids == {r.id : r \in pr.runs} \union {0}
             new(path, event) == [path |-> path, event |-> event, id |-> 1 + Max(ids),
                                  attempt |-> 1, at |-> 0, status |-> "queued",
                                  conclusion |-> NoConclusion]
  <2>1. PICK path \in scenario.workflows, event \in {"push", "pull_request"} :
          Running(new(path, event))
    BY <1>2 DEF RequestRun
  <2>2. IsFiniteSet(ids)
    <3> DEFINE id == [r \in pr.runs |-> r.id]
    <3>1. {id[r] : r \in pr.runs} = {r.id : r \in pr.runs}
      OBVIOUS
    <3> HIDE DEF id
    <3>2. IsFiniteSet({id[r] : r \in pr.runs})
      BY <1>1, ImageIsFinite
    <3>3. QED
      BY <3>1, <3>2, FS_Singleton, FS_Union
  <2>3. ids \subseteq Nat /\ ids # {}
    <3>1. \A r \in WorkflowRuns : r.id \in Nat
      BY DEF WorkflowRuns
    <3>2. QED
      BY <1>1, <3>1
  <2>4. Max(ids) \in Nat /\ \A r \in pr.runs : r.id \in Nat /\ r.id <= Max(ids)
    <3>1. \A r \in pr.runs : r.id \in ids
      OBVIOUS
    <3> HIDE DEF ids
    <3>2. Max(ids) \in ids /\ \A n \in ids : n <= Max(ids)
      BY <2>2, <2>3, MaxOfNaturals
    <3>3. QED
      BY <2>3, <3>1, <3>2
  <2> HIDE DEF ids
  <2>5. new(path, event) \in WorkflowRuns
    BY <2>4 DEF WorkflowRuns
  <2>6. \A r \in pr.runs : r.id # new(path, event).id
    BY <2>4
  <2> HIDE DEF new
  <2>7. GoesOn(new(path, event))
    BY <2>5, <2>6 DEF GoesOn
  <2>8. QED
    BY <2>1, <2>7, RunIsChange
<1>3. CASE CompleteRun
  <2>1. PICK run \in pr.runs, c \in {"success", "failure"}, at \in 0..1 :
          /\ run.status # "completed" /\ run.at <= at
          /\ Running([run EXCEPT !.status = "completed", !.conclusion = c, !.at = at])
    BY <1>3 DEF CompleteRun
  <2> DEFINE next == Completed(run, c, at)
  <2>2. run \in WorkflowRuns /\ c \in {NoConclusion, "success", "failure"} /\ at \in Nat
    BY <1>1, <2>1
  <2>3. /\ next \in WorkflowRuns
        /\ next.id = run.id /\ next.path = run.path /\ next.event = run.event
        /\ next.attempt = run.attempt /\ next.at = at /\ next.status = "completed"
    BY <2>2, CompletedIsRun
  <2> HIDE DEF next
  <2>4. Beats(next, run)
    <3>1. run.at \in Nat /\ run.attempt \in Nat /\ run.id \in Nat
      BY <2>2 DEF WorkflowRuns
    <3>2. QED
      BY <2>1, <2>2, <2>3, <3>1 DEF Beats, AtLeastAsNew
  <2>5. GoesOn(next)
    BY <1>1, <2>3, <2>4 DEF GoesOn
  <2>6. Running(next)
    BY <2>1 DEF next, Completed
  <2>7. QED
    BY <2>5, <2>6, RunIsChange
<1>4. CASE RepeatRun
  <2>1. PICK run \in pr.runs :
          Running([run EXCEPT !.attempt = @ + 1, !.status = "queued", !.conclusion = NoConclusion])
    BY <1>4 DEF RepeatRun
  <2> DEFINE n == run.attempt + 1
             next == [run EXCEPT !.attempt = n, !.status = "queued", !.conclusion = NoConclusion]
  <2>2. run \in WorkflowRuns
    BY <1>1
  <2>3. run.attempt \in Nat /\ run.id \in Nat /\ n \in Nat /\ n > run.attempt
    BY <2>2 DEF WorkflowRuns
  <2>4. Running(next)
    BY <2>1
  <2> HIDE DEF n
  <2>5. /\ next \in WorkflowRuns
        /\ next.id = run.id /\ next.path = run.path /\ next.event = run.event
        /\ next.attempt = n
    BY <2>2, <2>3, RepeatedIsRun
  <2> HIDE DEF next
  <2>6. Beats(next, run)
    BY <2>3, <2>5 DEF Beats, AtLeastAsNew
  <2>7. GoesOn(next)
    BY <1>1, <2>5, <2>6 DEF GoesOn
  <2>8. QED
    BY <2>4, <2>7, RunIsChange
<1>5. QED
  BY <1>2, <1>3, <1>4

LEMMA VoiceIsChange ==
  ASSUME PromiseInv, Speak \/ Withdraw
  PROVE  \E pull, e : IsChange(pull, e)
<1>1. EventsInv /\ "voices" \in Fields \ {"head", "runs", "told"}
  BY DEF PromiseInv, Fields
<1>2. CASE Speak
  <2> DEFINE last == Max({w.at : w \in pr.voices} \union {1})
             said(w, at) == [user |-> w.user, says |-> w.says, by |-> w.by, at |-> at]
  <2>1. PICK w \in scenario.voices, later \in 0..1 :
          /\ Becomes([pr EXCEPT !.voices = @ \union {said(w, last + later)}])
          /\ Tell(Event(w.by, {w.by}, w.says, {}))
          /\ UNCHANGED <<Rest, listed, shown, judged>>
    BY <1>2 DEF Speak
  <2> DEFINE v == said(w, last + later)
             x == pr.voices \union {v}
  <2>2. v.by = w.by /\ v.says = w.says
    OBVIOUS
  <2> HIDE DEF v, said, last
  <2>3. x \ {v} = pr.voices \ {v}
    OBVIOUS
  <2>4. Becomes([pr EXCEPT !.voices = x])
    BY <2>1 DEF v
  <2> HIDE DEF x
  <2>5. Tell(Event(v.by, {v.by}, v.says, {}))
    BY <2>1, <2>2
  <2>6. Matters([pr EXCEPT !.voices = x], Event(v.by, {v.by}, v.says, {}))
    BY <1>1, <2>3, VoiceMatters
  <2>7. QED
    BY <1>1, <2>1, <2>4, <2>5, <2>6, FieldIsChange
<1>3. CASE Withdraw
  <2> DEFINE name(v) == IF v.by = "review" THEN "dismissed" ELSE v.says
  <2>1. PICK v \in pr.voices : /\ Becomes([pr EXCEPT !.voices = @ \ {v}])
                               /\ Tell(Event(v.by, {v.by}, name(v), {}))
                               /\ UNCHANGED <<Rest, listed, shown, judged>>
    BY <1>3 DEF Withdraw
  <2> DEFINE x == pr.voices \ {v}
             n == name(v)
  <2>2. n = v.says \/ (v.by = "review" /\ n = "dismissed")
    OBVIOUS
  <2> HIDE DEF name, n
  <2>3. x \ {v} = pr.voices \ {v}
    OBVIOUS
  <2>4. Becomes([pr EXCEPT !.voices = x])
    BY <2>1
  <2> HIDE DEF x
  <2>5. Tell(Event(v.by, {v.by}, n, {}))
    BY <2>1 DEF n
  <2>6. Matters([pr EXCEPT !.voices = x], Event(v.by, {v.by}, n, {}))
    BY <1>1, <2>2, <2>3, VoiceMatters
  <2>7. QED
    BY <1>1, <2>1, <2>4, <2>5, <2>6, FieldIsChange
<1>4. QED
  BY <1>2, <1>3

-----------------------------------------------------------------------------
(***************************************************************************)
(* The promise is kept: by every change, and by every handler.             *)
(***************************************************************************)
LEMMA ChangeKeepsPromise ==
  ASSUME PromiseInv, EventsInv', NEW pull, NEW e, IsChange(pull, e)
  PROVE  PromiseInv'
<1>1. /\ pr' = pull /\ truth' = Truth(Policy(file), pull) /\ due' = due \union {e}
      /\ UNCHANGED <<scenario, file, cached, listed, shown, judged>>
      /\ pr'.head = pr.head /\ pr'.told = pr.told /\ pr'.checks \in Seq(CheckRuns)
  BY DEF IsChange, Becomes, Tell, Rest
<1>2. RunsInv /\ pr.told = {} /\ IsFiniteSet(due)
  BY DEF PromiseInv
<1>3. RunsInv'
  <2>1. CASE pull.runs = pr.runs /\ e.runs = {}
    BY <1>1, <1>2, <2>1, OtherChangesKeepRuns DEF IsChange
  <2>2. CASE \E run : GoesOn(run) /\ pull.runs = Put(pr.runs, run) /\ e = TellsOf(run)
    BY <1>1, <1>2, <2>2, RunningKeepsRuns
  <2>3. QED
    BY <2>1, <2>2 DEF IsChange
<1>4. IsFiniteSet(due')
  BY <1>1, <1>2, FS_AddElement
<1>5. ASSUME judged' = file', shown' # truth'
      PROVE  WillBeJudged'
  <2>1. Policy(file)' = Policy(file) /\ \A x : ForHead(x)' <=> ForHead(x)
    BY <1>1 DEF Policy, ForHead
  <2>2. CASE truth' = truth
    <3>1. WillBeJudged
      BY <1>1, <1>5, <2>2 DEF PromiseInv
    <3>2. QED
      BY <1>1, <2>1, <3>1 DEF WillBeJudged
  <2>3. CASE truth' # truth
    <3>1. Evaluates(Policy(file), e) /\ ForHead(e)
      BY <1>1, <2>3 DEF IsChange, Matters, ForHead
    <3>2. QED
      BY <1>1, <2>1, <3>1 DEF WillBeJudged
  <2>4. QED
    BY <2>2, <2>3
<1>6. QED
  BY <1>1, <1>2, <1>3, <1>4, <1>5 DEF PromiseInv, CheckRuns

LEMMA RunsOfNewHead ==
  ASSUME pr'.runs = {}, listed' = {}, \A e \in due' : e.head = pr'.head => e.runs = {},
         \A e \in due' : e.runs # {} => e.type = "workflow_run"
  PROVE  RunsInv'
BY FS_EmptySet DEF RunsInv

LEMMA PushKeepsPromise ==
  ASSUME PromiseInv, EventsInv', Push
  PROVE  PromiseInv'
<1>1. EventsInv /\ RunsInv /\ pr.told = {} /\ IsFiniteSet(due)
  BY DEF PromiseInv
<1>2. PICK event : event.head = pr.head + 1 /\ event.runs = {} /\ due' = due \union {event}
  BY <1>1, NewHead
<1>3. /\ pr'.head = pr.head + 1 /\ pr'.runs = {} /\ pr'.checks = <<>> /\ pr'.told = {}
      /\ listed' = {} /\ judged' = 0 /\ file' = file
  BY <1>1, NewHead
<1>4. \A e \in due : e.head \in 1..pr.head
  BY <1>1 DEF EventsInv, TypeOK
<1>5. pr.head \in Nat
  BY <1>1 DEF EventsInv, IsPull
<1>6. \A e \in due' : e.head = pr'.head => e.runs = {}
  BY <1>2, <1>3, <1>4, <1>5
<1>7. \A e \in due' : e.runs # {} => e.type = "workflow_run"
  BY <1>1, <1>2 DEF RunsInv
<1>8. RunsInv'
  BY <1>3, <1>6, <1>7, RunsOfNewHead
<1>9. IsFiniteSet(due')
  BY <1>1, <1>2, FS_AddElement
<1>10. judged' # file'
  BY <1>1, <1>3 DEF EventsInv, TypeOK
<1>11. pr'.checks \in Seq(CheckRuns)
  BY <1>3
<1>12. QED
  BY <1>3, <1>8, <1>9, <1>10, <1>11 DEF PromiseInv, CheckRuns

LEMMA PolicyKeepsPromise ==
  ASSUME PromiseInv, EventsInv', ChangePolicy \/ RefreshCache
  PROVE  PromiseInv'
<1>1. EventsInv /\ RunsInv /\ pr.told = {} /\ IsFiniteSet(due) /\ pr.checks \in Seq(CheckRuns)
  BY DEF PromiseInv
<1>2. UNCHANGED <<scenario, pr, listed, due, shown, judged>>
  BY DEF ChangePolicy, RefreshCache
<1>3. RunsInv'
  BY <1>1, <1>2 DEF RunsInv, WorkflowRuns, IsVersion, TellsOf, Event
<1>4. ASSUME judged' = file', shown' # truth'
      PROVE  WillBeJudged'
  <2>1. CASE ChangePolicy
    <3>1. file' = file + 1
      BY <2>1 DEF ChangePolicy
    <3>2. QED
      BY <1>1, <1>2, <1>4, <3>1, PoliciesAreTyped
  <2>2. CASE RefreshCache
    <3>1. UNCHANGED <<scenario, file, pr, truth, due, shown, judged>>
      BY <2>2 DEF RefreshCache
    <3>2. WillBeJudged
      BY <1>4, <3>1 DEF PromiseInv
    <3>3. QED
      BY <3>1, <3>2 DEF WillBeJudged, Policy, ForHead
  <2>3. QED
    BY <2>1, <2>2
<1>5. QED
  BY <1>1, <1>2, <1>3, <1>4 DEF PromiseInv, CheckRuns

LEMMA ListRunKeepsPromise ==
  ASSUME PromiseInv, EventsInv', ListRun
  PROVE  PromiseInv'
<1>1. UNCHANGED <<scenario, file, pr, truth, due, shown, judged>>
  BY DEF ListRun, Rest
<1>2. RunsInv'
  BY ListRunKeepsRuns DEF PromiseInv
<1>3. WillBeJudged => WillBeJudged'
  BY <1>1 DEF WillBeJudged, Policy, ForHead
<1>4. QED
  BY <1>1, <1>2, <1>3 DEF PromiseInv, CheckRuns

(* An evaluation that misses the truth misses a run that is told of. *)
LEMMA MissedRunIsTold ==
  ASSUME PromiseInv, NEW e \in due,
         StatusFor(Policy(file), Seen(e), {}) # truth
  PROVE  \E other \in due \ {e} : Evaluates(Policy(file), other) /\ ForHead(other)
<1> DEFINE policy == Policy(file)
           seen == Seen(e)
           told == IF e.head = pr.head THEN e.runs ELSE {}
<1>1. EventsInv /\ RunsInv /\ pr.told = {}
  BY DEF PromiseInv
<1>2. IsPolicy(policy) /\ truth = StatusFor(policy, pr, {})
  BY <1>1, PoliciesAreTyped DEF Truth
<1>3. Same(pr, seen, Fields \ {"runs", "told"}) /\ seen.runs = listed /\ seen.told = told
  <2>1. IsPull(pr) /\ "runs" \in Fields /\ "told" \in Fields
    BY <1>1 DEF EventsInv, Fields
  <2>2. \A f \in Fields \ {"runs", "told"} : pr[f] = seen[f]
    BY <2>1 DEF IsPull, Seen
  <2>3. seen.runs = listed /\ seen.told = told
    BY <2>1 DEF IsPull, Seen
  <2> HIDE DEF seen
  <2>4. QED
    BY <2>2, <2>3 DEF Same
<1>4. StatusFor(policy, pr, {}) # StatusFor(policy, seen, {})
  BY <1>2
<1>5. \A v \in listed \union told : \E r \in pr.runs : IsVersion(v, r)
  BY <1>1 DEF RunsInv
<1> HIDE DEF policy, seen, told
<1>6. IsValid(policy)
  BY <1>4, RefusedIsAnError
<1>7. "status" \in PolicyTrigger(policy)
  <2>1. TriggerOf["runs"] = "status"
    BY DEF TriggerOf
  <2>2. QED
    BY <1>2, <1>3, <1>4, <2>1, UntriggeredChangesNothing
<1>8. PICK r \in pr.runs : r.path \in PolicyWorkflowNames(policy) /\ r \notin listed \union told
  <2> SUFFICES ASSUME \A r \in pr.runs : r.path \in PolicyWorkflowNames(policy)
                                           => r \in listed \union told
               PROVE  FALSE
    OBVIOUS
  <2>1. ASSUME NEW path \in PolicyWorkflowNames(policy) PROVE SameRuns(path, pr, seen)
    <3> DEFINE a == RunsOf(pr, path)
               b == RunsOf(seen, path)
    <3>1. a \subseteq pr.runs /\ a \subseteq WorkflowRuns
      BY <1>1 DEF RunsOf, RunsInv
    <3>2. a \subseteq b
      BY <1>1, <1>3, <2>1 DEF RunsOf
    <3>3. \A v \in b : \E r \in a : IsVersion(v, r)
      BY <1>3, <1>5 DEF RunsOf, IsVersion
    <3> HIDE DEF a, b
    <3>4. (a = {} <=> b = {}) /\ Conclusions(a) = Conclusions(b)
      BY <3>1, <3>2, <3>3, VersionsChangeNothing
    <3>5. QED
      BY <3>4 DEF SameRuns, a, b
  <2>2. QED
    BY <1>2, <1>3, <1>4, <1>6, <2>1, UnnamedRunChangesNothing
<1> DEFINE other == TellsOf(r)
<1>9. other \in due
  BY <1>1, <1>8 DEF RunsInv
<1>10. other.runs = {r} /\ other.head = pr.head
  BY EventHasFields DEF TellsOf
<1>11. other # e
  BY <1>8, <1>10 DEF told
<1>12. other.type = "workflow_run" /\ other.name = r.path /\ other.trigger = {"status"}
  BY DEF TellsOf, Event
<1> HIDE DEF other
<1>13. Evaluates(policy, other)
  BY <1>7, <1>8, <1>12 DEF Evaluates, ShouldSkip, AffectsApproval
<1>14. ForHead(other)
  BY <1>10 DEF ForHead
<1>15. QED
  BY <1>9, <1>11, <1>13, <1>14 DEF policy

LEMMA HandleKeepsPromise ==
  ASSUME PromiseInv, EventsInv', NEW e, Handle(e)
  PROVE  PromiseInv'
<1>1. e \in due /\ due' = due \ {e} /\ UNCHANGED <<scenario, file, cached, pr, truth, changes>>
  BY DEF Handle
<1>2. RunsInv'
  BY HandleKeepsRuns DEF PromiseInv
<1>3. IsFiniteSet(due')
  BY <1>1, FS_RemoveElement DEF PromiseInv
<1>4. ASSUME judged' = file', shown' # truth'
      PROVE  \E other \in due \ {e} : Evaluates(Policy(file), other) /\ ForHead(other)
  <2>1. judged <= cached /\ cached <= file /\ file \in Nat /\ cached \in Nat /\ judged \in Nat
    BY PoliciesAreTyped DEF PromiseInv
  <2>2. CASE shown' = StatusFor(Policy(cached), Seen(e), {}) /\ judged' = cached
    <3>1. StatusFor(Policy(file), Seen(e), {}) # truth
      BY <1>1, <1>4, <2>2
    <3>2. QED
      BY <1>1, <3>1, MissedRunIsTold
  <2>3. CASE UNCHANGED <<shown, judged>> /\ ~(Evaluates(Policy(cached), e) /\ ForHead(e))
    <3>1. judged = file /\ cached = file
      BY <1>1, <1>4, <2>1, <2>3
    <3>2. WillBeJudged
      BY <1>1, <1>4, <2>3, <3>1 DEF PromiseInv
    <3>3. QED
      BY <2>3, <3>1, <3>2 DEF WillBeJudged
  <2>4. PICK found \in Finds(e) :
          IF Evaluates(Policy(cached), e) /\ found
            THEN shown' = StatusFor(Policy(cached), Seen(e), {}) /\ judged' = cached
            ELSE UNCHANGED <<shown, judged>>
    BY DEF Handle
  <2>5. ForHead(e) => Finds(e) = {TRUE}
    BY DEF ForHead, Finds
  <2>6. ASSUME ForHead(e) PROVE found
    <3>1. found \in {TRUE}
      BY <2>4, <2>5, <2>6
    <3>2. found = TRUE
      BY <3>1
    <3>3. QED
      BY <3>2
  <2>7. CASE Evaluates(Policy(cached), e) /\ found
    BY <2>2, <2>4, <2>7
  <2>8. CASE ~(Evaluates(Policy(cached), e) /\ found)
    <3>1. UNCHANGED <<shown, judged>>
      BY <2>4, <2>8
    <3>2. QED
      BY <2>3, <2>6, <2>8, <3>1
  <2>9. QED
    BY <2>7, <2>8
<1>5. judged' = file' /\ shown' # truth' => WillBeJudged'
  BY <1>1, <1>4 DEF WillBeJudged, Policy, ForHead
<1>6. QED
  BY <1>1, <1>2, <1>3, <1>5 DEF PromiseInv, CheckRuns

LEMMA InitPromise == Init => PromiseInv
<1> SUFFICES ASSUME Init PROVE PromiseInv
  OBVIOUS
<1>1. EventsInv
  BY InitEvents
<1>2. /\ scenario \in Scenarios /\ pr = scenario.pr /\ listed = {} /\ judged = 0 /\ file = 1
      /\ \E e : e.runs = {} /\ due = {e}
  BY DEF Init
<1>3. pr.runs = {} /\ pr.told = {} /\ pr.checks \in Seq(CheckRuns)
  BY <1>2, ScenariosAssumption DEF CheckRuns
<1>4. RunsInv
  BY <1>2, <1>3, FS_EmptySet DEF RunsInv
<1>5. IsFiniteSet(due)
  BY <1>2, FS_Singleton
<1>6. QED
  BY <1>1, <1>2, <1>3, <1>4, <1>5 DEF PromiseInv

LEMMA StepKeepsPromise == PromiseInv /\ [Next]_vars => PromiseInv'
<1> SUFFICES ASSUME PromiseInv, [Next]_vars PROVE PromiseInv'
  OBVIOUS
<1>1. EventsInv'
  BY StepKeepsEvents DEF PromiseInv
<1>2. CASE \E pull, e : IsChange(pull, e)
  BY <1>1, <1>2, ChangeKeepsPromise
<1>3. CASE Push
  BY <1>1, <1>3, PushKeepsPromise
<1>4. CASE ChangePolicy \/ RefreshCache
  BY <1>1, <1>4, PolicyKeepsPromise
<1>5. CASE ListRun
  BY <1>1, <1>5, ListRunKeepsPromise
<1>6. CASE HandleOne
  BY <1>1, <1>6, HandleKeepsPromise DEF HandleOne
<1>7. CASE UNCHANGED vars
  <2>1. UNCHANGED <<scenario, file, pr, truth, listed, due, shown, judged>>
    BY <1>7 DEF vars
  <2>2. RunsInv => RunsInv'
    BY <2>1 DEF RunsInv, WorkflowRuns, IsVersion, TellsOf, Event
  <2>3. WillBeJudged => WillBeJudged'
    BY <2>1 DEF WillBeJudged, Policy, ForHead
  <2>4. QED
    BY <1>1, <2>1, <2>2, <2>3 DEF PromiseInv, CheckRuns
<1>8. QED
  BY <1>2, <1>3, <1>4, <1>5, <1>6, <1>7,
     OwnDataIsChange, CheckIsChange, WorkflowIsChange, VoiceIsChange DEF Next

-----------------------------------------------------------------------------
(***************************************************************************)
(* Every step is one of PolicyStatus, or none.                             *)
(***************************************************************************)
(* What is told adds a webhook, or says what one that is due says. *)
LEMMA ToldIsPromised ==
  ASSUME IsFiniteSet(due), NEW e, due' = due \union {e}, truth' \in Statuses,
         \/ UNCHANGED <<shown, judged, file>>
         \/ shown' = "none" /\ judged' # file'
  PROVE  Promise!Change
<1>1. IsFiniteSet(due') /\ e \in due'
  BY FS_AddElement
<1>2. Cardinality(due') # 0
  BY <1>1, FS_EmptySet
<1>3. Cardinality(due') \in {Cardinality(due), Cardinality(due) + 1}
  BY FS_AddElement
<1>4. CASE UNCHANGED <<shown, judged, file>>
  BY <1>2, <1>3, <1>4 DEF Promise!Change
<1>5. CASE shown' = "none" /\ judged' # file'
  BY <1>2, <1>3, <1>5 DEF Promise!Change
<1>6. QED
  BY <1>4, <1>5

LEMMA HandlingIsPromised ==
  ASSUME PromiseInv, PromiseInv', NEW e, Handle(e)
  PROVE  Promise!Handle
<1>1. e \in due /\ due' = due \ {e} /\ IsFiniteSet(due) /\ UNCHANGED <<truth, file>>
  BY DEF Handle, PromiseInv
<1>2. Cardinality(due) \in Nat /\ Cardinality(due) # 0
  BY <1>1, FS_CardinalityType, FS_EmptySet
<1>3. Cardinality(due) > 0 /\ Cardinality(due') = Cardinality(due) - 1
  BY <1>1, <1>2, FS_RemoveElement
<1>4. ASSUME Cardinality(due') = 0, judged' = file'
      PROVE  shown' = truth
  <2>1. due' = {}
    BY <1>1, <1>4, FS_RemoveElement, FS_EmptySet
  <2>2. ~WillBeJudged'
    BY <2>1 DEF WillBeJudged
  <2>3. QED
    BY <1>1, <1>4, <2>2 DEF PromiseInv
<1>5. shown' \in Statuses \union {"none"}
  BY DEF PromiseInv, EventsInv, TypeOK
<1>6. QED
  BY <1>1, <1>3, <1>4, <1>5 DEF Promise!Handle

LEMMA StepsArePromised ==
  PromiseInv /\ PromiseInv' /\ [Next]_vars => [Promise!Next]_(Promise!vars)
<1> SUFFICES ASSUME PromiseInv, PromiseInv', [Next]_vars
             PROVE  Promise!Next \/ UNCHANGED Promise!vars
  OBVIOUS
<1>1. truth' \in Statuses
  BY PoliciesAreTyped, StatusIsOne DEF PromiseInv, EventsInv, TypeOK, Truth
<1>2. CASE \E pull, e : IsChange(pull, e)
  <2>1. PICK pull, e : IsChange(pull, e)
    BY <1>2
  <2>2. due' = due \union {e} /\ UNCHANGED <<shown, judged, file>>
    BY <2>1 DEF IsChange, Tell, Rest
  <2>3. QED
    BY <1>1, <2>2, ToldIsPromised DEF Promise!Next, PromiseInv
<1>3. CASE Push
  <2>1. PICK e : due' = due \union {e}
    BY <1>3, NewHead DEF PromiseInv
  <2>2. shown' = "none" /\ judged' = 0
    BY <1>3, NewHead DEF PromiseInv
  <2>3. judged' # file'
    BY <2>2, PoliciesAreTyped DEF PromiseInv, EventsInv, TypeOK
  <2>4. QED
    BY <1>1, <2>1, <2>2, <2>3, ToldIsPromised DEF Promise!Next, PromiseInv
<1>4. CASE ChangePolicy
  <2>1. UNCHANGED <<shown, due, judged>> /\ file' = file + 1
    BY <1>4 DEF ChangePolicy
  <2>2. (judged' = file') = FALSE
    BY <2>1, PoliciesAreTyped DEF PromiseInv
  <2>3. QED
    BY <1>1, <2>1, <2>2 DEF Promise!Next, Promise!ChangePolicy
<1>5. CASE RefreshCache \/ ListRun \/ UNCHANGED vars
  <2>1. UNCHANGED <<truth, shown, due, judged, file>>
    BY <1>5 DEF RefreshCache, ListRun, Rest, vars
  <2>2. QED
    BY <2>1 DEF Promise!vars
<1>6. CASE HandleOne
  <2>1. Promise!Handle
    BY <1>6, HandlingIsPromised DEF HandleOne
  <2>2. QED
    BY <2>1 DEF Promise!Next
<1>7. QED
  BY <1>2, <1>3, <1>4, <1>5, <1>6,
     OwnDataIsChange, CheckIsChange, WorkflowIsChange, VoiceIsChange DEF Next

LEMMA InitIsPromised == Init => Promise!Init
<1> SUFFICES ASSUME Init PROVE Promise!Init
  OBVIOUS
<1>1. truth \in Statuses
  BY StatusIsOne DEF Init, Truth
<1>2. Cardinality(due) = 1
  <2>1. \E e : due = {e}
    BY DEF Init
  <2>2. QED
    BY <2>1, FS_Singleton
<1>3. (judged = file) = FALSE
  <2>1. judged = 0 /\ file = 1
    BY DEF Init
  <2>2. QED
    BY <2>1
<1>4. shown = "none"
  BY DEF Init
<1>5. QED
  BY <1>1, <1>2, <1>3, <1>4 DEF Promise!Init

(* The handlers implement the safety of PolicyStatus, for every policy, pull *)
(* request and order of changes, webhooks and handlers: no webhook that      *)
(* matters is skipped by its trigger (Trigger.Matches), by the names of a    *)
(* check or workflow run (shouldSkipCheckRun, shouldSkipWorkflowRun) or by   *)
(* what a comment or review says (affectsApproval), so the last one handled  *)
(* leaves the status that the policy in the repository gives.                *)
THEOREM HandlersKeepThePromise == Spec => Promise!Safety
<1>1. PromiseInv /\ PromiseInv' /\ [Next]_vars => [Promise!Next]_(Promise!vars)
  BY StepsArePromised
<1>2. QED
  BY <1>1, InitPromise, StepKeepsPromise, InitIsPromised, PTL DEF Spec, Promise!Safety
=============================================================================
