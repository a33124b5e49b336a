------------------------- MODULE PolicyEventsProofs -------------------------
(***************************************************************************)
(* What a policy says of a pull request when calls fail, for every policy, *)
(* pull request and set of failing calls, and what the handlers' state     *)
(* keeps from step to step.                                                *)
(***************************************************************************)
EXTENDS PolicyEvents, WellFounded, TLAPS

-----------------------------------------------------------------------------
(***************************************************************************)
(* Predicates.  Where calls fail, a predicate answers with an error or     *)
(* what it answers without failures.                                       *)
(***************************************************************************)
Answers == {"yes", "no", "error"}

Weakens(x, y) == x \in Answers /\ y \in Answers /\ (x = "error" \/ x = y)

(* The same of two loops over the same things. *)
AllWeaken(f, g) ==
  /\ DOMAIN f = DOMAIN g /\ DOMAIN f \subseteq Nat
  /\ \A i \in DOMAIN f : Weakens(f[i], g[i])

LEMMA FirstButIsOneOf ==
  ASSUME NEW pass, NEW f, DOMAIN f \subseteq Nat
  PROVE  /\ FirstBut(pass, f) = pass => \A i \in DOMAIN f : f[i] = pass
         /\ FirstBut(pass, f) # pass =>
              \E i \in DOMAIN f : /\ FirstBut(pass, f) = f[i] /\ f[i] # pass
                                  /\ \A j \in DOMAIN f : j < i => f[j] = pass
<1> DEFINE others == {i \in DOMAIN f : f[i] # pass}
<1>1. CASE others = {}
  BY <1>1 DEF FirstBut
<1>2. CASE others # {}
  <2>1. Min(others) \in others /\ \A i \in others : Min(others) <= i
    BY <1>2, MinOfNaturals
  <2>2. FirstBut(pass, f) = f[Min(others)]
    BY <1>2 DEF FirstBut
  <2>3. \A j \in DOMAIN f : j < Min(others) => f[j] = pass
    <3>1. ASSUME NEW j \in DOMAIN f, j < Min(others) PROVE f[j] = pass
      <4>1. ~ (Min(others) <= j) /\ j \in Nat /\ Min(others) \in Nat
        BY <2>1, <3>1
      <4>2. QED
        BY <2>1, <4>1
    <3>2. QED
      BY <3>1
  <2>4. QED
    BY <2>1, <2>2, <2>3
<1>3. QED
  BY <1>1, <1>2

LEMMA FirstButWeakens ==
  ASSUME NEW pass \in {"yes", "no"}, NEW f, NEW g, AllWeaken(f, g)
  PROVE  Weakens(FirstBut(pass, f), FirstBut(pass, g))
<1>1. /\ DOMAIN f = DOMAIN g /\ DOMAIN f \subseteq Nat
      /\ \A i \in DOMAIN f : Weakens(f[i], g[i])
  BY DEF AllWeaken
<1>2. CASE FirstBut(pass, f) = pass
  <2>1. \A i \in DOMAIN f : f[i] = pass
    BY <1>1, <1>2, FirstButIsOneOf
  <2>2. \A i \in DOMAIN g : g[i] = pass
    BY <1>1, <2>1 DEF Weakens
  <2>3. FirstBut(pass, g) = pass
    BY <1>1, <2>2, FirstButIsOneOf
  <2>4. QED
    BY <1>2, <2>3 DEF Weakens, Answers
<1>3. CASE FirstBut(pass, f) # pass
  <2>1. PICK i \in DOMAIN f : /\ FirstBut(pass, f) = f[i] /\ f[i] # pass
                              /\ \A j \in DOMAIN f : j < i => f[j] = pass
    BY <1>1, <1>3, FirstButIsOneOf
  <2>2. CASE f[i] = "error"
    <3>1. FirstBut(pass, g) \in Answers
      BY <1>1, FirstButIsOneOf DEF Weakens, Answers
    <3>2. QED
      BY <2>1, <2>2, <3>1 DEF Weakens, Answers
  <2>3. CASE f[i] # "error"
    <3>1. g[i] = f[i] /\ g[i] # pass
      BY <1>1, <2>1, <2>3 DEF Weakens
    <3>2. \A j \in DOMAIN g : j < i => g[j] = pass
      BY <1>1, <2>1 DEF Weakens
    <3>3. FirstBut(pass, g) # pass
      BY <1>1, <3>1, FirstButIsOneOf
    <3>4. PICK k \in DOMAIN g : /\ FirstBut(pass, g) = g[k] /\ g[k] # pass
                                /\ \A j \in DOMAIN g : j < k => g[j] = pass
      BY <1>1, <3>3, FirstButIsOneOf
    <3>5. ~ (k < i) /\ ~ (i < k)
      BY <1>1, <3>1, <3>2, <3>4
    <3>6. k = i
      BY <1>1, <3>4, <3>5
    <3>7. QED
      BY <1>1, <2>1, <3>1, <3>4, <3>6 DEF Weakens
  <2>4. QED
    BY <2>2, <2>3
<1>4. QED
  BY <1>2, <1>3

LEMMA AskingWeakens ==
  ASSUME NEW call, NEW down, NEW b
  PROVE  /\ Weakens(Asking(call, down, b), Asking(call, {}, b))
         /\ Weakens(Answer(b), Answer(b))
BY DEF Asking, Answer, Weakens, Answers

LEMMA PairWeakens ==
  ASSUME NEW a1, NEW a2, NEW b1, NEW b2, Weakens(a1, b1), Weakens(a2, b2)
  PROVE  AllWeaken(<<a1, a2>>, <<b1, b2>>)
BY DEF AllWeaken

LEMMA FourWeaken ==
  ASSUME NEW a1, NEW a2, NEW a3, NEW a4, NEW b1, NEW b2, NEW b3, NEW b4,
         Weakens(a1, b1), Weakens(a2, b2), Weakens(a3, b3), Weakens(a4, b4)
  PROVE  AllWeaken(<<a1, a2, a3, a4>>, <<b1, b2, b3, b4>>)
BY DEF AllWeaken

LEMMA IsActorWeakens ==
  ASSUME NEW a, NEW u, NEW down
  PROVE  Weakens(IsActor(a, u, down), IsActor(a, u, {}))
<1> DEFINE kind(names, call, b, d) == IF names = {} THEN "no" ELSE Asking(call, d, b)
           own == Answer(u \in a.users)
           team(d) == kind(a.teams, "teams", \E t \in a.teams : u \in TeamMembers[t], d)
           organization(d) == kind(a.organizations, "organizations",
                                     \E o \in a.organizations : u \in OrgMembers[o], d)
           permission(d) == kind(a.permissions, "permissions",
                                   /\ PermissionOf[u] > 0
                                   /\ \E q \in a.permissions : PermissionOf[u] >= q, d)
<1>1. /\ IsActor(a, u, down)
           = FirstBut("no", <<own, team(down), organization(down), permission(down)>>)
      /\ IsActor(a, u, {})
           = FirstBut("no", <<own, team({}), organization({}), permission({})>>)
  BY DEF IsActor
<1>2. ASSUME NEW names, NEW call, NEW b
      PROVE  Weakens(kind(names, call, b, down), kind(names, call, b, {}))
  <2>1. CASE names = {}
    BY <2>1 DEF Weakens, Answers
  <2>2. CASE names # {}
    BY <2>2, AskingWeakens
  <2>3. QED
    BY <2>1, <2>2
<1>3. Weakens(own, own)
  BY AskingWeakens
<1> HIDE DEF kind
<1>4. /\ Weakens(team(down), team({}))
      /\ Weakens(organization(down), organization({}))
      /\ Weakens(permission(down), permission({}))
  BY <1>2
<1> HIDE DEF own, team, organization, permission
<1>5. AllWeaken(<<own, team(down), organization(down), permission(down)>>,
                <<own, team({}), organization({}), permission({})>>)
  BY <1>3, <1>4, FourWeaken
<1>6. QED
  BY <1>1, <1>5, FirstButWeakens

LEMMA ActorsWeaken ==
  ASSUME NEW a, NEW all, NEW down
  PROVE  AllWeaken([i \in 1..Len(all) |-> IsActor(a, all[i], down)],
                   [i \in 1..Len(all) |-> IsActor(a, all[i], {})])
<1>1. 1..Len(all) \subseteq Nat
  OBVIOUS
<1>2. \A u : Weakens(IsActor(a, u, down), IsActor(a, u, {}))
  BY IsActorWeakens
<1>3. QED
  BY <1>1, <1>2 DEF AllWeaken

LEMMA OppositeWeakens ==
  ASSUME NEW x, NEW y, Weakens(x, y)
  PROVE  Weakens(Opposite(x), Opposite(y))
BY DEF Weakens, Answers, Opposite

LEMMA AskingFilesWeakens ==
  ASSUME NEW pull, NEW down, NEW b
  PROVE  Weakens(AskingFiles(pull, down, b), AskingFiles(pull, {}, b))
BY AskingWeakens DEF AskingFiles, Weakens, Answers

LEMMA FilePredicatesWeaken ==
  ASSUME NEW p, NEW pull, NEW down
  PROVE  /\ Weakens(ChangedFiles(p, pull, down), ChangedFiles(p, pull, {}))
         /\ Weakens(NoChangedFiles(p, pull, down), NoChangedFiles(p, pull, {}))
         /\ Weakens(OnlyChangedFiles(p, pull, down), OnlyChangedFiles(p, pull, {}))
         /\ Weakens(FileAdded(p, pull, down), FileAdded(p, pull, {}))
         /\ Weakens(FileNotAdded(p, pull, down), FileNotAdded(p, pull, {}))
         /\ Weakens(FileDeleted(p, pull, down), FileDeleted(p, pull, {}))
         /\ Weakens(FileNotDeleted(p, pull, down), FileNotDeleted(p, pull, {}))
         /\ Weakens(ModifiedLines(p, pull, down), ModifiedLines(p, pull, {}))
<1>1. Weakens(ChangedFiles(p, pull, down), ChangedFiles(p, pull, {}))
  BY AskingFilesWeakens, Zenon DEF ChangedFiles
<1>2. Weakens(OnlyChangedFiles(p, pull, down), OnlyChangedFiles(p, pull, {}))
  BY AskingFilesWeakens, Zenon DEF OnlyChangedFiles
<1>3. Weakens(FileAdded(p, pull, down), FileAdded(p, pull, {}))
  BY AskingFilesWeakens, Zenon DEF FileAdded
<1>4. Weakens(FileDeleted(p, pull, down), FileDeleted(p, pull, {}))
  BY AskingFilesWeakens, Zenon DEF FileDeleted
<1>5. Weakens(ModifiedLines(p, pull, down), ModifiedLines(p, pull, {}))
  <2> DEFINE counted == {f \in Files(pull) : MatchesFile(p.filter, f.name)}
             additions == Lines(counted, "additions")
             deletions == Lines(counted, "deletions")
             enough == \/ Compares(p.additions, additions)
                       \/ Compares(p.deletions, deletions)
                       \/ Compares(p.total, additions + deletions)
  <2>1. \A d : ModifiedLines(p, pull, d) = AskingFiles(pull, d, enough)
    BY Zenon DEF ModifiedLines
  <2> HIDE DEF enough
  <2>2. QED
    BY <2>1, AskingFilesWeakens
<1>6. /\ Weakens(NoChangedFiles(p, pull, down), NoChangedFiles(p, pull, {}))
      /\ Weakens(FileNotAdded(p, pull, down), FileNotAdded(p, pull, {}))
      /\ Weakens(FileNotDeleted(p, pull, down), FileNotDeleted(p, pull, {}))
  BY <1>1, <1>3, <1>4, OppositeWeakens DEF NoChangedFiles, FileNotAdded, FileNotDeleted
<1>7. QED
  BY <1>1, <1>2, <1>3, <1>4, <1>5, <1>6

LEMMA PeoplePredicatesWeaken ==
  ASSUME NEW p, NEW pull, NEW down
  PROVE  /\ Weakens(HasAuthorIn(p, pull, down), HasAuthorIn(p, pull, {}))
         /\ Weakens(HasContributorIn(p, pull, down), HasContributorIn(p, pull, {}))
         /\ Weakens(OnlyHasContributorsIn(p, pull, down), OnlyHasContributorsIn(p, pull, {}))
         /\ Weakens(AuthorIsOnlyContributor(p, pull, down), AuthorIsOnlyContributor(p, pull, {}))
         /\ Weakens(HasValidSignatures(p, pull, down), HasValidSignatures(p, pull, {}))
         /\ Weakens(HasValidSignaturesBy(p, pull, down), HasValidSignaturesBy(p, pull, {}))
         /\ Weakens(HasValidSignaturesByKeys(p, pull, down), HasValidSignaturesByKeys(p, pull, {}))
<1> DEFINE of(all, d) == [i \in 1..Len(all) |-> IsActor(p.actors, all[i], d)]
<1>1. \A pass \in {"yes", "no"} : \A all :
        Weakens(FirstBut(pass, of(all, down)), FirstBut(pass, of(all, {})))
  BY ActorsWeaken, FirstButWeakens
<1>2. Weakens(HasAuthorIn(p, pull, down), HasAuthorIn(p, pull, {}))
  BY IsActorWeakens DEF HasAuthorIn
<1>3. /\ Weakens(AuthorIsOnlyContributor(p, pull, down), AuthorIsOnlyContributor(p, pull, {}))
      /\ Weakens(HasValidSignatures(p, pull, down), HasValidSignatures(p, pull, {}))
      /\ Weakens(HasValidSignaturesByKeys(p, pull, down), HasValidSignaturesByKeys(p, pull, {}))
  BY AskingWeakens, Zenon
  DEF AuthorIsOnlyContributor, HasValidSignatures, HasValidSignaturesByKeys
<1>4. \A d : /\ HasContributorIn(p, pull, d)
                 = IF "commits" \in d THEN "error" ELSE FirstBut("no", of(ContributorList(pull), d))
             /\ OnlyHasContributorsIn(p, pull, d)
                 = IF "commits" \in d THEN "error" ELSE FirstBut("yes", of(ContributorList(pull), d))
  BY Zenon DEF HasContributorIn, OnlyHasContributorsIn
<1> DEFINE signers == SetToSeq({c.signature.signer : c \in pull.commits})
           unsigned == \E c \in pull.commits : ~IsSigned(c)
<1>5. \A d : HasValidSignaturesBy(p, pull, d)
        = IF "commits" \in d THEN "error" ELSE IF unsigned THEN "no" ELSE FirstBut("yes", of(signers, d))
  BY Zenon DEF HasValidSignaturesBy
<1> HIDE DEF of, signers, unsigned
<1>6. "error" \in Answers /\ \A x, y : Weakens(x, y) => y \in Answers
  BY DEF Answers, Weakens
<1>7. /\ Weakens(HasContributorIn(p, pull, down), HasContributorIn(p, pull, {}))
      /\ Weakens(OnlyHasContributorsIn(p, pull, down), OnlyHasContributorsIn(p, pull, {}))
  BY <1>1, <1>4, <1>6 DEF Weakens
<1>8. Weakens(HasValidSignaturesBy(p, pull, down), HasValidSignaturesBy(p, pull, {}))
  BY <1>1, <1>5, <1>6 DEF Weakens, Answers
<1>9. QED
  BY <1>2, <1>3, <1>7, <1>8

LEMMA OtherPredicatesWeaken ==
  ASSUME NEW p, NEW pull, NEW down
  PROVE  /\ Weakens(TargetsBranch(p, pull), TargetsBranch(p, pull))
         /\ Weakens(FromBranch(p, pull), FromBranch(p, pull))
         /\ Weakens(MatchesOrNot(p, pull.title), MatchesOrNot(p, pull.title))
         /\ Weakens(MatchesOrNot(p, pull.repository), MatchesOrNot(p, pull.repository))
         /\ Weakens(HasLabels(p, pull, down), HasLabels(p, pull, {}))
         /\ Weakens(CustomPropertyIsNull(p, pull, down), CustomPropertyIsNull(p, pull, {}))
         /\ Weakens(CustomPropertyIsNotNull(p, pull, down), CustomPropertyIsNotNull(p, pull, {}))
         /\ Weakens(CustomPropertyMatchesAnyOf(p, pull, down), CustomPropertyMatchesAnyOf(p, pull, {}))
         /\ Weakens(CustomPropertyMatchesNoneOf(p, pull, down), CustomPropertyMatchesNoneOf(p, pull, {}))
         /\ Weakens(HasStatus(p, pull, down), HasStatus(p, pull, {}))
         /\ Weakens(HasWorkflowResult(p, pull, down), HasWorkflowResult(p, pull, {}))
<1>1. /\ Weakens(TargetsBranch(p, pull), TargetsBranch(p, pull))
      /\ Weakens(FromBranch(p, pull), FromBranch(p, pull))
      /\ \A name : Weakens(MatchesOrNot(p, name), MatchesOrNot(p, name))
  BY AskingWeakens, Zenon DEF TargetsBranch, FromBranch, MatchesOrNot
<1>2. Weakens(HasLabels(p, pull, down), HasLabels(p, pull, {}))
  BY AskingWeakens DEF HasLabels, Weakens, Answers
<1>3. /\ Weakens(CustomPropertyIsNull(p, pull, down), CustomPropertyIsNull(p, pull, {}))
      /\ Weakens(CustomPropertyIsNotNull(p, pull, down), CustomPropertyIsNotNull(p, pull, {}))
      /\ Weakens(CustomPropertyMatchesAnyOf(p, pull, down), CustomPropertyMatchesAnyOf(p, pull, {}))
      /\ Weakens(CustomPropertyMatchesNoneOf(p, pull, down), CustomPropertyMatchesNoneOf(p, pull, {}))
  BY AskingWeakens, Zenon
  DEF CustomPropertyIsNull, CustomPropertyIsNotNull, CustomPropertyMatchesAnyOf,
      CustomPropertyMatchesNoneOf
<1>4. Weakens(HasStatus(p, pull, down), HasStatus(p, pull, {}))
  BY AskingWeakens, Zenon DEF HasStatus
<1>5. Weakens(HasWorkflowResult(p, pull, down), HasWorkflowResult(p, pull, {}))
  BY AskingWeakens, Zenon DEF HasWorkflowResult
<1>6. QED
  BY <1>1, <1>2, <1>3, <1>4, <1>5

LEMMA EvaluateWeakens ==
  ASSUME NEW p, NEW pull, NEW down
  PROVE  Weakens(Evaluate(p, pull, down), Evaluate(p, pull, {}))
BY FilePredicatesWeaken, PeoplePredicatesWeaken, OtherPredicatesWeaken DEF Evaluate

LEMMA EvaluateAllWeakens ==
  ASSUME NEW ps, NEW pull, NEW down
  PROVE  AllWeaken(EvaluateAll(ps, pull, down), EvaluateAll(ps, pull, {}))
<1>1. DOMAIN InOrder(ps) \subseteq Nat
  BY DEF InOrder
<1>2. QED
  BY <1>1, EvaluateWeakens DEF EvaluateAll, AllWeaken

-----------------------------------------------------------------------------
(***************************************************************************)
(* Rules.  Where calls fail, a rule fails or says what it says without     *)
(* failures.                                                               *)
(***************************************************************************)
Outcomes == [status : {"skipped", "pending", "approved"}, error : BOOLEAN]

LEMMA ApprovedWeakens ==
  ASSUME NEW rule, NEW pull, NEW down
  PROVE  /\ Weakens(ApprovedByActors(rule, pull, down), ApprovedByActors(rule, pull, {}))
         /\ Weakens(ApprovedByConditions(rule, pull, down), ApprovedByConditions(rule, pull, {}))
<1> DEFINE users == {v.user : v \in Voices(rule, "approve", pull)} \ ToSet(ContributorList(pull))
           answers(d) == [u \in users |-> IsActor(rule.actors, u, d)]
           approvers(d) == {u \in users : answers(d)[u] = "yes"}
<1>1. \A d : ApprovedByActors(rule, pull, d)
        = IF rule.count = 0 THEN "yes"
          ELSE IF "commits" \in d \/ \E u \in users : answers(d)[u] = "error" THEN "error"
          ELSE Answer(Cardinality(approvers(d)) >= rule.count)
  BY Zenon DEF ApprovedByActors
<1>2. \A u \in users : Weakens(answers(down)[u], answers({})[u])
  BY IsActorWeakens
<1> HIDE DEF users, answers
<1>3. Weakens(ApprovedByActors(rule, pull, down), ApprovedByActors(rule, pull, {}))
  <2>1. ApprovedByActors(rule, pull, {}) \in Answers
    BY <1>1 DEF Answer, Answers
  <2>2. CASE "commits" \in down \/ \E u \in users : answers(down)[u] = "error"
    BY <1>1, <2>1, <2>2 DEF Weakens, Answers
  <2>3. CASE ~ ("commits" \in down \/ \E u \in users : answers(down)[u] = "error")
    <3>1. \A u \in users : answers({})[u] = answers(down)[u] /\ answers({})[u] # "error"
      BY <1>2, <2>3 DEF Weakens
    <3>2. approvers({}) = approvers(down)
      BY <3>1
    <3> HIDE DEF approvers
    <3>3. ApprovedByActors(rule, pull, {}) = ApprovedByActors(rule, pull, down)
      BY <1>1, <2>3, <3>1, <3>2
    <3>4. QED
      BY <2>1, <3>3 DEF Weakens
  <2>4. QED
    BY <2>2, <2>3
<1> DEFINE all(d) == EvaluateAll(rule.conditions, pull, d)
<1>4. AllWeaken(all(down), all({}))
  BY EvaluateAllWeakens
<1>5. \A d : ApprovedByConditions(rule, pull, d)
        = IF "error" \in ToSet(all(d)) THEN "error" ELSE Answer("no" \notin ToSet(all(d)))
  BY Zenon DEF ApprovedByConditions
<1> HIDE DEF all
<1>6. "error" \notin ToSet(all(down)) => ToSet(all(down)) = ToSet(all({}))
  <2>1. /\ DOMAIN all(down) = DOMAIN all({})
        /\ \A i \in DOMAIN all(down) : all(down)[i] = "error" \/ all(down)[i] = all({})[i]
    BY <1>4 DEF AllWeaken, Weakens
  <2>2. QED
    BY <2>1 DEF ToSet
<1>7. Weakens(ApprovedByConditions(rule, pull, down), ApprovedByConditions(rule, pull, {}))
  BY <1>5, <1>6 DEF Weakens, Answers, Answer
<1>8. QED
  BY <1>3, <1>7

LEMMA RuleWeakens ==
  ASSUME NEW rule, NEW pull, NEW down
  PROVE  /\ RuleResult(rule, pull, down) \in Outcomes
         /\ RuleResult(rule, pull, down).error \/ RuleResult(rule, pull, down) = RuleResult(rule, pull, {})
<1> DEFINE applies(d) == FirstBut("yes", EvaluateAll(rule.if, pull, d))
           heard(d) == Heard(rule, d)
           actors(d) == ApprovedByActors(rule, pull, d)
           conditions(d) == ApprovedByConditions(rule, pull, d)
           result(d) == ResultOf(applies(d), heard(d), {actors(d), conditions(d)})
<1>1. \A d : RuleResult(rule, pull, d) = result(d)
  BY Zenon DEF RuleResult
<1>2. Weakens(applies(down), applies({}))
  BY EvaluateAllWeakens, FirstButWeakens
<1>3. heard({})
  BY DEF Heard, AsksVoices
<1>4. Weakens(actors(down), actors({})) /\ Weakens(conditions(down), conditions({}))
  BY ApprovedWeakens
<1> HIDE DEF applies, heard, actors, conditions
<1>5. result(down) \in Outcomes
  BY DEF ResultOf, Result, Failed, Outcomes
<1>6. result(down).error \/ result(down) = result({})
  <2>1. CASE applies(down) = "error" \/ (applies(down) = "yes" /\ ~heard(down))
    BY <2>1 DEF ResultOf, Failed
  <2>2. CASE applies(down) = "no"
    BY <1>2, <2>2 DEF ResultOf, Weakens
  <2>3. CASE applies(down) = "yes" /\ heard(down)
    <3>1. applies({}) = "yes"
      BY <1>2, <2>3 DEF Weakens
    <3>2. CASE "error" \in {actors(down), conditions(down)}
      BY <2>3, <3>2 DEF ResultOf, Failed
    <3>3. CASE "error" \notin {actors(down), conditions(down)}
      <4>1. actors(down) = actors({}) /\ conditions(down) = conditions({})
        BY <1>4, <3>3 DEF Weakens
      <4>2. QED
        BY <1>3, <2>3, <3>1, <4>1 DEF ResultOf
    <3>4. QED
      BY <3>2, <3>3
  <2>4. applies(down) \in Answers
    BY <1>2 DEF Weakens
  <2>5. QED
    BY <2>1, <2>2, <2>3, <2>4 DEF Answers
<1> HIDE DEF result
<1>7. QED
  BY <1>1, <1>5, <1>6

-----------------------------------------------------------------------------
(***************************************************************************)
(* The tree.  An "or" drops errors, so a failure may turn an approval into *)
(* pending; it turns nothing into an approval.                             *)
(***************************************************************************)
NodeResult(policy, pull, down, results, n) ==
  LET node == policy.tree[n]
      children == [i \in 1..Len(node.of) |-> results[node.of[i]]]
  IN  CASE node.op = "rule" -> RuleResult(policy.rules[node.rule], pull, down)
        [] node.op = "or" -> OrResult(children)
        [] node.op = "and" -> AndResult(children)

LEMMA NodesAreTyped ==
  ASSUME NEW policy, IsPolicy(policy), NEW n \in 1..Root(policy)
  PROVE  /\ Root(policy) \in Nat
         /\ policy.tree[n].op \in {"rule", "or", "and"}
         /\ policy.tree[n].of \in Seq(Nat)
         /\ \A i \in 1..Len(policy.tree[n].of) : policy.tree[n].of[i] \in 1..(n - 1)
<1>1. policy.tree \in Seq(Nodes) /\ policy.tree[n] \in Nodes
  BY DEF IsPolicy, Root
<1>2. policy.tree[n].of \in Seq(Nat) /\ policy.tree[n].op \in {"rule", "or", "and"}
  BY <1>1 DEF Nodes
<1>3. ToSet(policy.tree[n].of) \subseteq 1..(n - 1)
  BY DEF IsPolicy, Root
<1>4. \A i \in 1..Len(policy.tree[n].of) : policy.tree[n].of[i] \in ToSet(policy.tree[n].of)
  BY <1>2 DEF ToSet
<1>5. QED
  BY <1>1, <1>2, <1>3, <1>4 DEF Root

LEMMA NodeResultIsTyped ==
  ASSUME NEW policy, IsPolicy(policy), NEW pull, NEW down, NEW results, NEW n \in 1..Root(policy)
  PROVE  NodeResult(policy, pull, down, results, n) \in Outcomes
<1>1. policy.tree[n].op \in {"rule", "or", "and"}
  BY NodesAreTyped
<1>2. \A rule : RuleResult(rule, pull, down) \in Outcomes
  BY RuleWeakens
<1>3. \A c : OrResult(c) \in Outcomes /\ AndResult(c) \in Outcomes
  BY DEF OrResult, AndResult, Result, Some, SomeError, Outcomes
<1>4. QED
  BY <1>1, <1>2, <1>3 DEF NodeResult

(* evaluator.Evaluate gives each node the result of its children. *)
TreeResults(results, policy, pull, down) ==
  /\ results \in [1..Root(policy) -> Outcomes]
  /\ \A n \in 1..Root(policy) : results[n] = NodeResult(policy, pull, down, results, n)
  /\ ApprovalResult(policy, pull, down)
       = IF policy.tree = <<>> THEN Result("approved") ELSE results[Root(policy)]

LEMMA TreeIsEvaluated ==
  ASSUME NEW policy, IsPolicy(policy), NEW pull, NEW down
  PROVE  \E results : TreeResults(results, policy, pull, down)
<1> DEFINE D == 1..Root(policy)
           rank == [n \in D |-> n]
           step == [n \in D |-> [f \in [D -> Outcomes] |-> NodeResult(policy, pull, down, f, n)]]
<1>1. Root(policy) \in Nat
  BY DEF Root, IsPolicy
<1>2. IsRecursion(step, D, Outcomes, rank, Root(policy))
  <2>1. rank \in [D -> 0..Root(policy)]
    BY <1>1
  <2>2. Outcomes # {}
    <3>1. [status |-> "skipped", error |-> FALSE] \in Outcomes
      BY DEF Outcomes
    <3>2. QED
      BY <3>1
  <2>3. step \in [D -> [[D -> Outcomes] -> Outcomes]]
    BY NodeResultIsTyped
  <2>4. ASSUME NEW n \in D, NEW g \in [D -> Outcomes], NEW h \in [D -> Outcomes],
               \A m \in D : rank[m] < rank[n] => g[m] = h[m]
        PROVE  step[n][g] = step[n][h]
    <3> DEFINE of == policy.tree[n].of
    <3>1. \A i \in 1..Len(of) : of[i] \in 1..(n - 1)
      BY NodesAreTyped
    <3>2. \A i \in 1..Len(of) : g[of[i]] = h[of[i]]
      <4>1. ASSUME NEW i \in 1..Len(of) PROVE g[of[i]] = h[of[i]]
        <5>1. of[i] \in D /\ of[i] < n
          BY <1>1, <3>1
        <5>2. QED
          BY <2>4, <5>1
      <4>2. QED
        BY <4>1
    <3>3. [i \in 1..Len(of) |-> g[of[i]]] = [i \in 1..Len(of) |-> h[of[i]]]
      BY <3>2
    <3>4. NodeResult(policy, pull, down, g, n) = NodeResult(policy, pull, down, h, n)
      BY <3>3, Zenon DEF NodeResult
    <3>5. QED
      BY <3>4
  <2>5. LooksBelow(step, D, Outcomes, rank)
    BY <2>4 DEF LooksBelow
  <2>6. QED
    BY <1>1, <2>1, <2>2, <2>3, <2>5 DEF IsRecursion
<1>3. PICK f : Solution(f, step, D, Outcomes)
  BY <1>2, RecursionHasSolution, Zenon
<1>4. f = [n \in D |-> NodeResult(policy, pull, down, f, n)]
  BY <1>3 DEF Solution
<1> DEFINE result == CHOOSE g : g = [n \in D |-> NodeResult(policy, pull, down, g, n)]
<1>5. result = [n \in D |-> NodeResult(policy, pull, down, result, n)]
  BY <1>4
<1>6. ApprovalResult(policy, pull, down)
        = IF policy.tree = <<>> THEN Result("approved") ELSE result[Root(policy)]
  BY Zenon DEF ApprovalResult, NodeResult
<1> HIDE DEF result
<1>7. \A n \in D : NodeResult(policy, pull, down, result, n) \in Outcomes
  BY NodeResultIsTyped
<1>8. /\ result \in [D -> Outcomes]
      /\ \A n \in D : result[n] = NodeResult(policy, pull, down, result, n)
  BY <1>5, <1>7
<1>9. TreeResults(result, policy, pull, down)
  BY <1>6, <1>8 DEF TreeResults
<1>10. QED
  BY <1>9

(* A node fails, waits, or says what it says without failures. *)
LEMMA TreeWeakens ==
  ASSUME NEW policy, IsPolicy(policy), NEW pull, NEW down, NEW f, NEW g,
         TreeResults(f, policy, pull, down), TreeResults(g, policy, pull, {}),
         NEW root \in 1..Root(policy)
  PROVE  f[root].error \/ f[root].status = "pending" \/ f[root] = g[root]
<1> DEFINE Weak(n) == f[n].error \/ f[n].status = "pending" \/ f[n] = g[n]
           strong == {n \in 1..Root(policy) : ~Weak(n)}
<1>1. SUFFICES ASSUME strong # {} PROVE FALSE
  OBVIOUS
<1>2. PICK n \in strong : \A m \in strong : n <= m
  <2>1. strong \subseteq Nat
    OBVIOUS
  <2>2. QED
    BY <1>1, <2>1, LeastNumber
<1>3. n \in 1..Root(policy) /\ n \in Nat /\ ~Weak(n)
  OBVIOUS
<1> DEFINE node == policy.tree[n]
           children(h) == [i \in 1..Len(node.of) |-> h[node.of[i]]]
<1>4. /\ node.op \in {"rule", "or", "and"}
      /\ \A i \in 1..Len(node.of) : node.of[i] \in 1..(n - 1)
      /\ Root(policy) \in Nat
  BY NodesAreTyped
<1>5. \A i \in 1..Len(node.of) : Weak(node.of[i]) /\ f[node.of[i]] \in Outcomes
  <2>1. ASSUME NEW i \in 1..Len(node.of) PROVE Weak(node.of[i]) /\ f[node.of[i]] \in Outcomes
    <3>1. node.of[i] \in 1..Root(policy) /\ ~ (n <= node.of[i])
      <4>1. node.of[i] \in 1..(n - 1)
        BY <1>4
      <4> HIDE DEF node
      <4>2. QED
        BY <1>3, <1>4, <4>1
    <3>2. f[node.of[i]] \in Outcomes
      BY <3>1 DEF TreeResults
    <3>3. QED
      BY <1>2, <3>1, <3>2
  <2>2. QED
    BY <2>1
<1>6. /\ f[n] = NodeResult(policy, pull, down, f, n)
      /\ g[n] = NodeResult(policy, pull, {}, g, n)
  BY <1>3 DEF TreeResults
<1> HIDE DEF strong, Weak
<1>7. CASE node.op = "rule"
  <2>1. /\ f[n] = RuleResult(policy.rules[node.rule], pull, down)
        /\ g[n] = RuleResult(policy.rules[node.rule], pull, {})
    BY <1>6, <1>7 DEF NodeResult
  <2>2. QED
    BY <1>3, <2>1, RuleWeakens DEF Weak
<1> DEFINE c == children(f)
           e == children(g)
<1>8. /\ ToSet(c) = {c[i] : i \in 1..Len(node.of)}
      /\ ToSet(e) = {e[i] : i \in 1..Len(node.of)}
      /\ \A i \in 1..Len(node.of) :
           c[i] \in Outcomes /\ (c[i].error \/ c[i].status = "pending" \/ c[i] = e[i])
  BY <1>5 DEF ToSet, Weak
<1>9. CASE node.op = "or"
  <2>1. f[n] = OrResult(c) /\ g[n] = OrResult(e)
    BY <1>6, <1>9 DEF NodeResult
  <2> HIDE DEF c, e
  <2>2. CASE Some("approved", c)
    <3>1. Some("approved", e)
      BY <1>8, <2>2 DEF Some, Outcomes
    <3>2. QED
      BY <1>3, <2>1, <2>2, <3>1 DEF OrResult, Weak
  <2>3. CASE ~Some("approved", c) /\ Some("pending", c)
    BY <1>3, <2>1, <2>3 DEF OrResult, Result, Weak
  <2>4. CASE ~Some("approved", c) /\ ~Some("pending", c)
    <3>1. SUFFICES ASSUME ~SomeError(c) PROVE ToSet(c) = ToSet(e)
      <4>1. CASE SomeError(c)
        BY <1>3, <2>1, <2>4, <4>1 DEF OrResult, Weak
      <4>2. CASE ToSet(c) = ToSet(e)
        BY <1>3, <2>1, <4>2 DEF OrResult, Some, SomeError, Weak
      <4>3. QED
        BY <3>1, <4>1, <4>2
    <3>2. \A i \in 1..Len(node.of) : c[i] = e[i]
      BY <1>8, <2>4, <3>1 DEF Some, SomeError
    <3>3. QED
      BY <1>8, <3>2
  <2>5. QED
    BY <2>2, <2>3, <2>4
<1>10. CASE node.op = "and"
  <2>1. f[n] = AndResult(c) /\ g[n] = AndResult(e)
    BY <1>6, <1>10 DEF NodeResult
  <2> HIDE DEF c, e
  <2>2. CASE SomeError(c) \/ Some("pending", c)
    BY <1>3, <2>1, <2>2 DEF AndResult, Weak
  <2>3. CASE ~SomeError(c) /\ ~Some("pending", c)
    <3>1. \A i \in 1..Len(node.of) : c[i] = e[i]
      BY <1>8, <2>3 DEF Some, SomeError
    <3>2. ToSet(c) = ToSet(e)
      BY <1>8, <3>1
    <3>3. QED
      BY <1>3, <2>1, <3>2 DEF AndResult, Some, SomeError, Weak
  <2>4. QED
    BY <2>2, <2>3
<1>11. QED
  BY <1>4, <1>7, <1>9, <1>10

LEMMA ApprovalWeakens ==
  ASSUME NEW policy, IsPolicy(policy), NEW pull, NEW down,
         ~ApprovalResult(policy, pull, down).error,
         ApprovalResult(policy, pull, down).status = "approved"
  PROVE  ApprovalResult(policy, pull, {}) = ApprovalResult(policy, pull, down)
<1>1. PICK f : TreeResults(f, policy, pull, down)
  BY TreeIsEvaluated
<1>2. PICK g : TreeResults(g, policy, pull, {})
  BY TreeIsEvaluated
<1>3. CASE policy.tree = <<>>
  BY <1>1, <1>2, <1>3 DEF TreeResults
<1>4. CASE policy.tree # <<>>
  <2>1. Root(policy) \in 1..Root(policy)
    BY <1>4 DEF IsPolicy, Root
  <2>2. ApprovalResult(policy, pull, down) = f[Root(policy)]
        /\ ApprovalResult(policy, pull, {}) = g[Root(policy)]
    BY <1>1, <1>2, <1>4 DEF TreeResults
  <2>3. QED
    BY <1>1, <1>2, <2>1, <2>2, TreeWeakens
<1>5. QED
  BY <1>3, <1>4

-----------------------------------------------------------------------------
(***************************************************************************)
(* Disapproval, and the status of the whole.                               *)
(***************************************************************************)
LEMMA LastActorWeakens ==
  ASSUME NEW d, NEW methods, NEW says, NEW pull, NEW down,
         ~LastActor(d, methods, says, pull, down).error
  PROVE  /\ LastActor(d, methods, says, pull, {}) = LastActor(d, methods, says, pull, down)
         /\ \A v \in Voices(methods, says, pull) :
              IsActor(d.requires, v.user, down) = IsActor(d.requires, v.user, {})
<1> DEFINE voices == Voices(methods, says, pull)
           answer(x) == [v \in voices |-> IsActor(d.requires, v.user, x)]
           error(x) == AsksVoices(methods, x) \/ \E v \in voices : answer(x)[v] = "error"
           may(x) == {w \in voices : answer(x)[w] = "yes"}
           at(x) == Max({v.at : v \in may(x)} \union {0})
<1>1. \A x : LastActor(d, methods, says, pull, x) = [error |-> error(x), at |-> at(x)]
  BY Zenon DEF LastActor
<1>2. ~error(down)
  <2> HIDE DEF error, at
  <2>1. QED
    BY <1>1
<1>3. \A v \in voices : Weakens(answer(down)[v], answer({})[v])
  BY IsActorWeakens
<1> HIDE DEF voices, answer
<1>4. \A v \in voices : answer({})[v] = answer(down)[v] /\ answer({})[v] # "error"
  BY <1>2, <1>3 DEF Weakens
<1>5. may({}) = may(down)
  BY <1>4
<1>6. error({}) = error(down)
  BY <1>2, <1>4 DEF AsksVoices
<1>7. at({}) = at(down)
  <2> HIDE DEF may
  <2>1. QED
    BY <1>5
<1>8. LastActor(d, methods, says, pull, {}) = LastActor(d, methods, says, pull, down)
  <2> HIDE DEF error, at
  <2>1. QED
    BY <1>1, <1>6, <1>7
<1>9. QED
  BY <1>4, <1>8 DEF voices, answer

LEMMA DisapprovalWeakens ==
  ASSUME NEW d, NEW pull, NEW down
  PROVE  /\ DisapprovalResult(d, pull, down) \in
              [status : {"disapproved", "skipped"}, error : BOOLEAN]
         /\ \/ DisapprovalResult(d, pull, down).error
            \/ DisapprovalResult(d, pull, down) = DisapprovalResult(d, pull, {})
         /\ (/\ ~DisapprovalResult(d, pull, down).error
             /\ DisapprovalResult(d, pull, down).status # "disapproved"
             /\ d.requires # NoActors) => IsDisapproved(d, pull, down) = "no"
<1> DEFINE predicates(x) == FirstBut("no", EvaluateAll(d.if, pull, x))
           people(x) == IF d.requires = NoActors THEN "no" ELSE IsDisapproved(d, pull, x)
           answer(x) == FirstBut("no", <<predicates(x), people(x)>>)
<1>1. \A x : DisapprovalResult(d, pull, x) = DisapprovalResultOf(answer(x))
  BY Zenon DEF DisapprovalResult
<1>2. Weakens(predicates(down), predicates({}))
  BY EvaluateAllWeakens, FirstButWeakens
<1>3. Weakens(IsDisapproved(d, pull, down), IsDisapproved(d, pull, {}))
  <2> DEFINE disapprover(x) == LastActor(d, d.disapprove, "disapprove", pull, x)
             revoker(x) == LastActor(d, d.revoke, "approve", pull, x)
  <2>1. \A x : IsDisapproved(d, pull, x)
          = IF disapprover(x).error THEN "error"
            ELSE IF disapprover(x).at = 0 THEN "no"
            ELSE IF revoker(x).error THEN "error" ELSE Answer(disapprover(x).at > revoker(x).at)
    BY Zenon DEF IsDisapproved
  <2>2. disapprover(down).error \/ disapprover({}) = disapprover(down)
    BY LastActorWeakens
  <2>3. revoker(down).error \/ revoker({}) = revoker(down)
    BY LastActorWeakens
  <2> HIDE DEF disapprover, revoker
  <2>4. QED
    BY <2>1, <2>2, <2>3 DEF Weakens, Answers, Answer
<1>4. Weakens(people(down), people({}))
  BY <1>3 DEF Weakens, Answers
<1> HIDE DEF predicates, people
<1>5. AllWeaken(<<predicates(down), people(down)>>, <<predicates({}), people({})>>)
  BY <1>2, <1>4, PairWeakens
<1>6. Weakens(answer(down), answer({}))
  BY <1>5, FirstButWeakens
<1>7. answer(down) = "no" => people(down) = "no"
  <2>1. DOMAIN <<predicates(down), people(down)>> = 1..2
    OBVIOUS
  <2>2. answer(down) = "no" =>
          \A i \in 1..2 : <<predicates(down), people(down)>>[i] = "no"
    BY <2>1, FirstButIsOneOf
  <2>3. QED
    BY <2>2
<1>8. d.requires # NoActors => people(down) = IsDisapproved(d, pull, down)
  BY DEF people
<1> HIDE DEF answer
<1>9. DisapprovalResult(d, pull, down) = DisapprovalResultOf(answer(down)) /\ answer(down) \in Answers
  BY <1>1, <1>6 DEF Weakens
<1>10. CASE answer(down) = "error"
  <2>1. DisapprovalResult(d, pull, down) = [status |-> "skipped", error |-> TRUE]
    BY <1>9, <1>10 DEF DisapprovalResultOf, Failed
  <2> HIDE DEF DisapprovalResult
  <2>2. QED
    BY <2>1
<1>11. CASE answer(down) # "error"
  <2>1. DisapprovalResult(d, pull, down) = DisapprovalResult(d, pull, {})
    BY <1>1, <1>6, <1>9, <1>11 DEF Weakens
  <2>2. DisapprovalResult(d, pull, down)
          = [status |-> IF answer(down) = "yes" THEN "disapproved" ELSE "skipped",
             error |-> FALSE]
    BY <1>9, <1>11 DEF DisapprovalResultOf, Result
  <2>3. DisapprovalResult(d, pull, down).status # "disapproved" /\ d.requires # NoActors
        => IsDisapproved(d, pull, down) = "no"
    BY <1>7, <1>8, <1>9, <1>11, <2>2 DEF Answers
  <2>4. DisapprovalResult(d, pull, down) \in [status : {"disapproved", "skipped"}, error : BOOLEAN]
    BY <2>2
  <2>5. QED
    BY <2>1, <2>3, <2>4
<1>12. QED
  BY <1>10, <1>11

(* A success among failures would be one without them. *)
LEMMA SuccessNeedsNoFailure ==
  ASSUME NEW policy, IsPolicy(policy), NEW pull, NEW down,
         StatusFor(policy, pull, down) = "success"
  PROVE  /\ StatusFor(policy, pull, {}) = "success"
         /\ LET disapproval == DisapprovalResult(DisapprovalOf(policy), pull, down)
            IN  ~disapproval.error /\ disapproval.status # "disapproved"
<1> DEFINE disapproval(x) == DisapprovalResult(DisapprovalOf(policy), pull, x)
           approval(x) == ApprovalResult(policy, pull, x)
<1>1. /\ IsValid(policy)
      /\ StatusFor(policy, pull, down) = StatusOf(disapproval(down), approval(down))
      /\ StatusFor(policy, pull, {}) = StatusOf(disapproval({}), approval({}))
  BY DEF StatusFor
<1>2. /\ ~disapproval(down).error /\ ~approval(down).error
      /\ disapproval(down).status # "disapproved" /\ approval(down).status = "approved"
  BY <1>1 DEF StatusOf
<1>3. disapproval({}) = disapproval(down)
  BY <1>2, DisapprovalWeakens
<1>4. approval({}) = approval(down)
  BY <1>2, ApprovalWeakens
<1>5. QED
  BY <1>1, <1>2, <1>3, <1>4

(* A disapproval of one who may disapprove has an answer if the status is a *)
(* success, whatever fails.                                                 *)
LEMMA SuccessAnswersDisapprovals ==
  ASSUME NEW d, NEW pull, NEW down, d.requires # NoActors,
         IsFiniteSet(pull.voices), \A v \in pull.voices : v.at \in Nat \ {0},
         IsDisapproved(d, pull, down) = "no",
         NEW v \in Voices(d.disapprove, "disapprove", pull),
         IsActor(d.requires, v.user, {}) = "yes"
  PROVE  \E w \in Voices(d.revoke, "approve", pull) :
           IsActor(d.requires, w.user, {}) = "yes" /\ w.at >= v.at
<1> DEFINE last(methods, says) == LastActor(d, methods, says, pull, down)
           may(methods, says) == {w \in Voices(methods, says, pull) :
                                    IsActor(d.requires, w.user, down) = "yes"}
           times(methods, says) == {w.at : w \in may(methods, says)} \union {0}
<1>1. ASSUME NEW methods, NEW says, ~last(methods, says).error
      PROVE  /\ last(methods, says).at = Max(times(methods, says))
             /\ last(methods, says).at \in times(methods, says)
             /\ \A w \in may(methods, says) : w.at <= last(methods, says).at
  <2>1. last(methods, says).at = Max(times(methods, says))
    <3> DEFINE answer == [w \in Voices(methods, says, pull) |-> IsActor(d.requires, w.user, down)]
    <3>1. {w \in Voices(methods, says, pull) : answer[w] = "yes"} = may(methods, says)
      OBVIOUS
    <3>2. last(methods, says).at
            = Max({w.at : w \in {u \in Voices(methods, says, pull) : answer[u] = "yes"}} \union {0})
      BY DEF LastActor
    <3>3. QED
      BY <3>1, <3>2
  <2>2. times(methods, says) \subseteq Nat /\ times(methods, says) # {}
    BY DEF Voices
  <2>3. IsFiniteSet(times(methods, says))
    <3> DEFINE at == [w \in pull.voices |-> w.at]
    <3>1. IsFiniteSet({at[w] : w \in pull.voices})
      BY ImageIsFinite
    <3>2. times(methods, says) \subseteq {at[w] : w \in pull.voices} \union {0}
      BY DEF Voices
    <3>3. IsFiniteSet({at[w] : w \in pull.voices} \union {0})
      BY <3>1, FS_Singleton, FS_Union
    <3>4. QED
      BY <3>2, <3>3, FS_Subset
  <2>4. /\ Max(times(methods, says)) \in times(methods, says)
        /\ \A n \in times(methods, says) : n <= Max(times(methods, says))
    BY <2>2, <2>3, MaxOfNaturals
  <2> HIDE DEF last
  <2>5. QED
    BY <2>1, <2>4
<1> DEFINE disapprover == last(d.disapprove, "disapprove")
           revoker == last(d.revoke, "approve")
<1>2. /\ ~disapprover.error
      /\ disapprover.at # 0 => ~revoker.error /\ ~(disapprover.at > revoker.at)
  BY DEF IsDisapproved, Answer
<1>3. IsActor(d.requires, v.user, down) = "yes"
  BY <1>2, LastActorWeakens
<1>4. v.at <= disapprover.at /\ disapprover.at \in times(d.disapprove, "disapprove")
  <2>1. v \in may(d.disapprove, "disapprove")
    BY <1>3
  <2> HIDE DEF may, times, last
  <2>2. QED
    BY <1>1, <1>2, <2>1
<1>5. v.at \in Nat \ {0} /\ disapprover.at \in Nat
  BY <1>4 DEF Voices
<1>6. disapprover.at # 0 /\ ~revoker.error /\ ~(disapprover.at > revoker.at)
  BY <1>2, <1>4, <1>5
<1>7. revoker.at \in times(d.revoke, "approve") /\ revoker.at \in Nat
  <2>1. revoker.at \in times(d.revoke, "approve")
    <3> HIDE DEF may, times, last
    <3>1. QED
      BY <1>1, <1>6
  <2>2. QED
    BY <2>1 DEF Voices
<1>8. revoker.at # 0 /\ revoker.at >= v.at
  BY <1>4, <1>5, <1>6, <1>7
<1>9. PICK w \in may(d.revoke, "approve") : w.at = revoker.at
  BY <1>7, <1>8
<1>10. IsActor(d.requires, w.user, {}) = "yes"
  BY <1>6, LastActorWeakens
<1>11. QED
  BY <1>8, <1>9, <1>10

-----------------------------------------------------------------------------
(***************************************************************************)
(* The handlers' state.                                                    *)
(***************************************************************************)
IsPull(pull) ==
  /\ DOMAIN pull = Fields /\ pull = [f \in Fields |-> pull[f]]
  /\ pull.head \in Nat \ {0}
  /\ IsFiniteSet(pull.voices) /\ \A v \in pull.voices : v.at \in Nat \ {0}

Ids(runs) == {r.id : r \in runs}

(* TypeOK is inductive once it is known that what an event of the head tells *)
(* of is among the runs of the head, and that runs and heads have numbers.   *)
EventsInv ==
  /\ TypeOK
  /\ IsPull(pr)
  /\ \A r \in pr.runs : "id" \in DOMAIN r
  /\ \A e \in due : e.head = pr.head => \A r \in e.runs : r.id \in Ids(pr.runs)

LEMMA FieldChanges ==
  ASSUME NEW pull, IsPull(pull), NEW f \in Fields \ {"head", "voices"}, NEW x
  PROVE  LET new == [pull EXCEPT ![f] = x]
         IN  /\ IsPull(new) /\ new.head = pull.head /\ new[f] = x
             /\ \A g \in Fields \ {f} : new[g] = pull[g]
<1> DEFINE new == [pull EXCEPT ![f] = x]
<1>1. new = [g \in Fields |-> IF g = f THEN x ELSE pull[g]]
  BY DEF IsPull
<1>2. "head" \in Fields /\ "voices" \in Fields
  BY DEF Fields
<1> HIDE DEF new
<1>3. new.head = pull.head /\ new.voices = pull.voices
  BY <1>1, <1>2
<1>4. DOMAIN new = Fields /\ new = [g \in Fields |-> new[g]]
  BY <1>1
<1>5. IsPull(new)
  BY <1>3, <1>4 DEF IsPull
<1>6. QED
  BY <1>1, <1>3, <1>5 DEF new

LEMMA VoicesChange ==
  ASSUME NEW pull, IsPull(pull), NEW x, IsFiniteSet(x), \A v \in x : v.at \in Nat \ {0}
  PROVE  LET new == [pull EXCEPT !.voices = x]
         IN  IsPull(new) /\ new.head = pull.head /\ new.runs = pull.runs
<1> DEFINE new == [pull EXCEPT !.voices = x]
<1>1. new = [g \in Fields |-> IF g = "voices" THEN x ELSE pull[g]]
  BY DEF IsPull
<1>2. "head" \in Fields /\ "voices" \in Fields /\ "runs" \in Fields
  BY DEF Fields
<1> HIDE DEF new
<1>3. new.head = pull.head /\ new.voices = x /\ new.runs = pull.runs
  BY <1>1, <1>2
<1>4. DOMAIN new = Fields /\ new = [g \in Fields |-> new[g]]
  BY <1>1
<1>5. QED
  BY <1>3, <1>4 DEF IsPull, new

(* Any change of the pull request that keeps its head and the runs there are. *)
LEMMA ChangeKeepsEvents ==
  ASSUME EventsInv, NEW pull, IsPull(pull), pull.head = pr.head,
         Ids(pr.runs) \subseteq Ids(pull.runs), \A r \in pull.runs : "id" \in DOMAIN r,
         NEW event, event.head = pr.head, \A r \in event.runs : r.id \in Ids(pull.runs),
         Becomes(pull), Tell(event), UNCHANGED <<Rest, listed, shown, judged>>
  PROVE  EventsInv'
<1>1. pr' = pull /\ truth' = Truth(Policy(file)', pr')
  BY DEF Becomes, Rest, Policy
<1>2. due' = due \union {event} /\ changes \in 0..MaxChanges /\ changes' = changes + 1
      /\ changes < MaxChanges
  BY DEF EventsInv, TypeOK, Tell
<1>3. changes' \in 0..MaxChanges
  BY <1>2, ScenariosAssumption
<1>4. \A e \in due' : e.head \in 1..pr'.head
  BY <1>1, <1>2 DEF EventsInv, TypeOK, IsPull
<1>5. \A e \in due' : e.head = pr'.head => \A r \in e.runs : r.id \in Ids(pr'.runs)
  BY <1>1, <1>2 DEF EventsInv
<1>6. \A r \in listed' : r.id \in {q.id : q \in pr'.runs}
  BY <1>1 DEF EventsInv, TypeOK, Ids
<1>7. DOMAIN pr' = DOMAIN scenario'.pr
  BY <1>1 DEF EventsInv, TypeOK, IsPull, Rest
<1>8. TypeOK'
  BY <1>1, <1>3, <1>4, <1>6, <1>7 DEF EventsInv, TypeOK, Rest
<1>9. QED
  BY <1>1, <1>5, <1>8 DEF EventsInv

LEMMA StatusIsOne ==
  ASSUME NEW policy, NEW pull, NEW down
  PROVE  StatusFor(policy, pull, down) \in Statuses
BY DEF StatusFor, StatusOf, Statuses

LEMMA EventHasFields ==
  ASSUME NEW type, NEW trigger, NEW name, NEW runs
  PROVE  /\ Event(type, trigger, name, runs).head = pr.head
         /\ Event(type, trigger, name, runs).runs = runs
BY DEF Event

LEMMA PutKeepsIds ==
  ASSUME NEW runs, NEW run
  PROVE  /\ Ids(Put(runs, run)) = Ids(runs) \union {run.id}
         /\ (\A q, r \in runs : q.id = r.id => q = r)
              => \A q, r \in Put(runs, run) : q.id = r.id => q = r
BY DEF Ids, Put

(* A change of a field other than the head, the runs and the voices. *)
LEMMA FieldChangeKeepsEvents ==
  ASSUME EventsInv, NEW f \in Fields \ {"head", "voices", "runs"}, NEW x,
         Becomes([pr EXCEPT ![f] = x]),
         NEW type, NEW trigger, NEW name, Tell(Event(type, trigger, name, {})),
         UNCHANGED <<Rest, listed, shown, judged>>
  PROVE  EventsInv'
<1> DEFINE pull == [pr EXCEPT ![f] = x]
           event == Event(type, trigger, name, {})
<1>1. IsPull(pr) /\ \A r \in pr.runs : "id" \in DOMAIN r
  BY DEF EventsInv
<1>2. IsPull(pull) /\ pull.head = pr.head /\ pull.runs = pr.runs
  BY <1>1, FieldChanges DEF Fields
<1>3. event.head = pr.head /\ event.runs = {}
  BY EventHasFields
<1> HIDE DEF pull, event
<1>4. Becomes(pull) /\ Tell(event)
  BY DEF pull, event
<1>5. QED
  BY <1>1, <1>2, <1>3, <1>4, ChangeKeepsEvents

LEMMA RunningKeepsEvents ==
  ASSUME EventsInv, NEW run, "id" \in DOMAIN run, Running(run)
  PROVE  EventsInv'
<1> DEFINE pull == [pr EXCEPT !.runs = Put(@, run)]
           event == Event("workflow_run", {"status"}, run.path, {run})
<1>1. IsPull(pr) /\ \A r \in pr.runs : "id" \in DOMAIN r
  BY DEF EventsInv
<1>2. IsPull(pull) /\ pull.head = pr.head /\ pull.runs = Put(pr.runs, run)
  BY <1>1, FieldChanges DEF Fields
<1>3. event.head = pr.head /\ event.runs = {run}
  BY EventHasFields
<1>4. Becomes(pull) /\ Tell(event) /\ UNCHANGED <<Rest, listed, shown, judged>>
  BY DEF Running
<1> HIDE DEF pull, event
<1>5. \A r \in pull.runs : "id" \in DOMAIN r
  BY <1>1, <1>2 DEF Put
<1>6. Ids(pull.runs) = Ids(pr.runs) \union {run.id}
  BY <1>2, PutKeepsIds
<1>7. QED
  BY <1>2, <1>3, <1>4, <1>5, <1>6, ChangeKeepsEvents

LEMMA RequestRunKeeps == ASSUME EventsInv, RequestRun PROVE EventsInv'
<1>1. PICK path \in scenario.workflows, event \in {"push", "pull_request"} :
        Running([path |-> path, event |-> event,
                 id |-> 1 + Max({r.id : r \in pr.runs} \union {0}),
                 attempt |-> 1, at |-> 0, status |-> "queued", conclusion |-> NoConclusion])
  BY DEF RequestRun
<1>2. QED
  BY <1>1, RunningKeepsEvents

LEMMA CompleteRunKeeps == ASSUME EventsInv, CompleteRun PROVE EventsInv'
<1>1. PICK run \in pr.runs, conclusion \in {"success", "failure"}, at \in 0..1 :
        Running([run EXCEPT !.status = "completed", !.conclusion = conclusion, !.at = at])
  BY DEF CompleteRun
<1>2. "id" \in DOMAIN run
  BY DEF EventsInv
<1>3. QED
  BY <1>1, <1>2, RunningKeepsEvents

LEMMA RepeatRunKeeps == ASSUME EventsInv, RepeatRun PROVE EventsInv'
<1>1. PICK run \in pr.runs :
        Running([run EXCEPT !.attempt = @ + 1, !.status = "queued", !.conclusion = NoConclusion])
  BY DEF RepeatRun
<1>2. "id" \in DOMAIN run
  BY DEF EventsInv
<1>3. QED
  BY <1>1, <1>2, RunningKeepsEvents

LEMMA VoicesKeepEvents ==
  ASSUME EventsInv, NEW x, IsFiniteSet(x), \A v \in x : v.at \in Nat \ {0},
         Becomes([pr EXCEPT !.voices = x]),
         NEW type, NEW trigger, NEW name, Tell(Event(type, trigger, name, {})),
         UNCHANGED <<Rest, listed, shown, judged>>
  PROVE  EventsInv'
<1> DEFINE pull == [pr EXCEPT !.voices = x]
           event == Event(type, trigger, name, {})
<1>1. IsPull(pr) /\ \A r \in pr.runs : "id" \in DOMAIN r
  BY DEF EventsInv
<1>2. IsPull(pull) /\ pull.head = pr.head /\ pull.runs = pr.runs
  BY <1>1, VoicesChange
<1>3. event.head = pr.head /\ event.runs = {}
  BY EventHasFields
<1> HIDE DEF pull, event
<1>4. Becomes(pull) /\ Tell(event)
  BY DEF pull, event
<1>5. QED
  BY <1>1, <1>2, <1>3, <1>4, ChangeKeepsEvents

LEMMA SpeakKeeps == ASSUME EventsInv, Speak PROVE EventsInv'
<1> DEFINE times == {w.at : w \in pr.voices} \union {1}
           last == Max(times)
<1>1. PICK v \in scenario.voices, later \in 0..1 :
        /\ Becomes([pr EXCEPT !.voices = @ \union
             {[user |-> v.user, says |-> v.says, by |-> v.by, at |-> last + later]}])
        /\ Tell(Event(v.by, {v.by}, v.says, {}))
        /\ UNCHANGED <<Rest, listed, shown, judged>>
  BY DEF Speak
<1> DEFINE voice == [user |-> v.user, says |-> v.says, by |-> v.by, at |-> last + later]
           x == pr.voices \union {voice}
<1>2. IsPull(pr)
  BY DEF EventsInv
<1>3. IsFiniteSet(times)
  <2> DEFINE at == [w \in pr.voices |-> w.at]
  <2>1. {at[w] : w \in pr.voices} = {w.at : w \in pr.voices}
    OBVIOUS
  <2> HIDE DEF at
  <2>2. IsFiniteSet({at[w] : w \in pr.voices})
    BY <1>2, ImageIsFinite DEF IsPull
  <2>3. IsFiniteSet({1})
    BY FS_Singleton
  <2>4. QED
    BY <2>1, <2>2, <2>3, FS_Union
<1>4. times \subseteq Nat /\ times # {} /\ 1 \in times
  BY <1>2 DEF IsPull
<1>5. last \in Nat /\ last >= 1
  <2> HIDE DEF times
  <2>1. last \in times /\ \A n \in times : n <= last
    BY <1>3, <1>4, MaxOfNaturals
  <2>2. QED
    BY <1>4, <2>1
<1> HIDE DEF last
<1>6. voice.at \in Nat \ {0}
  BY <1>5
<1> HIDE DEF voice
<1>7. \A w \in x : w.at \in Nat \ {0}
  BY <1>2, <1>6 DEF IsPull
<1>8. IsFiniteSet(x)
  BY <1>2, FS_AddElement DEF IsPull
<1>9. Becomes([pr EXCEPT !.voices = x])
  BY <1>1 DEF voice
<1> HIDE DEF x
<1>10. QED
  BY <1>1, <1>7, <1>8, <1>9, VoicesKeepEvents

LEMMA WithdrawKeeps == ASSUME EventsInv, Withdraw PROVE EventsInv'
<1>1. PICK v \in pr.voices :
        /\ Becomes([pr EXCEPT !.voices = @ \ {v}])
        /\ Tell(Event(v.by, {v.by}, IF v.by = "review" THEN "dismissed" ELSE v.says, {}))
        /\ UNCHANGED <<Rest, listed, shown, judged>>
  BY DEF Withdraw
<1> DEFINE x == pr.voices \ {v}
<1>2. IsPull(pr)
  BY DEF EventsInv
<1>3. IsFiniteSet(x) /\ \A w \in x : w.at \in Nat \ {0}
  BY <1>2, FS_Subset DEF IsPull
<1>4. Becomes([pr EXCEPT !.voices = x])
  BY <1>1
<1> HIDE DEF x
<1>5. QED
  BY <1>1, <1>3, <1>4, VoicesKeepEvents

LEMMA ContentKeeps ==
  ASSUME EventsInv, Retitle \/ Relabel \/ Report \/ CreateCheck \/ CompleteCheck
  PROVE  EventsInv'
<1> USE DEF Fields
<1>1. CASE Retitle
  BY <1>1, FieldChangeKeepsEvents DEF Retitle
<1>2. CASE Relabel
  BY <1>2, FieldChangeKeepsEvents DEF Relabel
<1>3. CASE Report
  BY <1>3, FieldChangeKeepsEvents DEF Report
<1>4. CASE CreateCheck
  BY <1>4, FieldChangeKeepsEvents DEF CreateCheck
<1>5. CASE CompleteCheck
  BY <1>5, FieldChangeKeepsEvents DEF CompleteCheck
<1>6. QED
  BY <1>1, <1>2, <1>3, <1>4, <1>5

LEMMA NewHead ==
  ASSUME EventsInv, Push
  PROVE  /\ IsPull(pr') /\ pr'.head = pr.head + 1
         /\ pr'.runs = {} /\ pr'.checks = <<>> /\ pr'.told = pr.told
         /\ truth' = Truth(Policy(file)', pr') /\ changes' \in 0..MaxChanges
         /\ listed' = {} /\ shown' = "none" /\ judged' = 0 /\ UNCHANGED <<scenario, file, cached>>
         /\ \E event : event.head = pr.head + 1 /\ event.runs = {} /\ due' = due \union {event}
<1> DEFINE pull(content) ==
             [pr EXCEPT !.head = @ + 1, !.files = content.files, !.commits = content.commits,
                        !.statuses = <<>>, !.checks = <<>>, !.runs = {}]
           event == [Event("pull_request", {"commit"}, "", {}) EXCEPT !.head = pr.head + 1]
<1>1. PICK content \in scenario.pushes : Becomes(pull(content))
  BY DEF Push
<1>2. Tell(event) /\ listed' = {} /\ shown' = "none" /\ judged' = 0 /\ UNCHANGED Rest
  BY DEF Push
<1>3. IsPull(pr) /\ TypeOK
  BY DEF EventsInv
<1>4. /\ IsPull(pull(content)) /\ pull(content).head = pr.head + 1
      /\ pull(content).runs = {} /\ pull(content).checks = <<>> /\ pull(content).told = pr.told
  <2>1. DOMAIN pull(content) = Fields /\ pull(content) = [f \in Fields |-> pull(content)[f]]
    BY <1>3 DEF IsPull
  <2>2. /\ pull(content).head = pr.head + 1 /\ pull(content).runs = {}
        /\ pull(content).voices = pr.voices
    BY <1>3 DEF IsPull, Fields
  <2>3. pull(content).checks = <<>> /\ pull(content).told = pr.told
    BY <1>3 DEF IsPull, Fields
  <2> HIDE DEF pull
  <2>4. IsPull(pull(content))
    BY <1>3, <2>1, <2>2 DEF IsPull
  <2>5. QED
    BY <2>2, <2>3, <2>4
<1>5. event.head = pr.head + 1 /\ event.runs = {}
  BY DEF Event
<1> HIDE DEF pull, event
<1>6. pr' = pull(content) /\ truth' = Truth(Policy(file)', pr')
  BY <1>1, <1>2 DEF Becomes, Rest, Policy
<1>7. due' = due \union {event} /\ changes' \in 0..MaxChanges
  BY <1>2, <1>3, ScenariosAssumption DEF TypeOK, Tell
<1>8. QED
  BY <1>2, <1>4, <1>5, <1>6, <1>7 DEF Rest

LEMMA PushKeeps == ASSUME EventsInv, Push PROVE EventsInv'
<1>1. PICK event : event.head = pr.head + 1 /\ event.runs = {} /\ due' = due \union {event}
  BY NewHead
<1>2. IsPull(pr) /\ TypeOK
  BY DEF EventsInv
<1>3. \A e \in due : e.head \in 1..pr.head
  BY <1>2 DEF TypeOK
<1>4. pr.head \in Nat /\ pr'.head = pr.head + 1 /\ pr'.runs = {} /\ IsPull(pr')
  BY <1>2, NewHead DEF IsPull
<1>5. \A e \in due' : e.head \in 1..pr'.head
  BY <1>1, <1>3, <1>4
<1>6. \A e \in due' : e.head = pr'.head => e.runs = {}
  BY <1>1, <1>3, <1>4
<1>7. TypeOK'
  BY <1>2, <1>4, <1>5, NewHead DEF TypeOK, IsPull
<1>8. QED
  BY <1>4, <1>6, <1>7 DEF EventsInv

LEMMA PolicyStepsKeep == ASSUME EventsInv, ChangePolicy \/ RefreshCache PROVE EventsInv'
<1>1. CASE ChangePolicy
  <2>1. TypeOK'
    BY <1>1, ScenariosAssumption DEF EventsInv, TypeOK, ChangePolicy, Policy
  <2>2. QED
    BY <1>1, <2>1 DEF EventsInv, ChangePolicy
<1>2. CASE RefreshCache
  <2>1. TypeOK'
    BY <1>2, ScenariosAssumption DEF EventsInv, TypeOK, RefreshCache, Policy
  <2>2. QED
    BY <1>2, <2>1 DEF EventsInv, RefreshCache
<1>3. QED
  BY <1>1, <1>2

LEMMA ListRunKeeps == ASSUME EventsInv, ListRun PROVE EventsInv'
<1>1. PICK run \in pr.runs : listed' = Put(listed, run)
  BY DEF ListRun
<1>2. Ids(listed') = Ids(listed) \union {run.id}
      /\ \A q, r \in listed' : q.id = r.id => q = r
  BY <1>1, PutKeepsIds DEF EventsInv, TypeOK
<1>3. \A r \in listed' : r.id \in {q.id : q \in pr.runs}
  BY <1>2 DEF EventsInv, TypeOK, Ids
<1>4. TypeOK'
  BY <1>2, <1>3 DEF EventsInv, TypeOK, ListRun, Rest, Policy
<1>5. QED
  BY <1>4 DEF EventsInv, ListRun

LEMMA HandleKeeps == ASSUME EventsInv, NEW e, Handle(e) PROVE EventsInv'
<1>1. e \in due /\ due' \subseteq due /\ UNCHANGED <<scenario, file, cached, pr, truth, changes>>
  BY DEF Handle
<1>2. /\ \A r \in listed' : r.id \in {q.id : q \in pr.runs}
      /\ \A q, r \in listed' : q.id = r.id => q = r
  <2>1. CASE e.runs # {} /\ e.head = pr.head
    <3> DEFINE run == CHOOSE r \in e.runs : TRUE
    <3>1. listed' = Learn(listed, run)
      BY <2>1 DEF Handle
    <3>2. run \in e.runs
      BY <2>1
    <3>3. run.id \in Ids(pr.runs)
      BY <1>1, <2>1, <3>2 DEF EventsInv
    <3> HIDE DEF run
    <3>4. CASE listed' = listed
      BY <3>4 DEF EventsInv, TypeOK
    <3>5. CASE listed' = Put(listed, run)
      <4>1. Ids(listed') = Ids(listed) \union {run.id}
            /\ \A q, r \in listed' : q.id = r.id => q = r
        BY <3>5, PutKeepsIds DEF EventsInv, TypeOK
      <4>2. QED
        BY <3>3, <4>1 DEF EventsInv, TypeOK, Ids
    <3>6. QED
      BY <3>1, <3>4, <3>5 DEF Learn
  <2>2. CASE ~(e.runs # {} /\ e.head = pr.head)
    <3>1. listed' = listed
      BY <2>2 DEF Handle
    <3>2. QED
      BY <3>1 DEF EventsInv, TypeOK
  <2>3. QED
    BY <2>1, <2>2
<1>3. /\ judged' \in 0..cached
      /\ shown' \in Statuses \union {"none"} /\ (judged' = 0) = (shown' = "none")
  <2>1. cached \in Nat \ {0}
    BY ScenariosAssumption DEF EventsInv, TypeOK
  <2>2. CASE UNCHANGED <<shown, judged>>
    BY <2>2 DEF EventsInv, TypeOK
  <2>3. CASE shown' = StatusFor(Policy(cached), Seen(e), {}) /\ judged' = cached
    <3>1. shown' \in Statuses
      BY <2>3, StatusIsOne
    <3>2. QED
      BY <2>1, <2>3, <3>1 DEF Statuses
  <2>4. QED
    BY <2>2, <2>3 DEF Handle
<1>4. TypeOK'
  BY <1>1, <1>2, <1>3 DEF EventsInv, TypeOK, Policy
<1>5. QED
  BY <1>1, <1>4 DEF EventsInv

LEMMA StepKeepsEvents == EventsInv /\ [Next]_vars => EventsInv'
<1> SUFFICES ASSUME EventsInv, [Next]_vars PROVE EventsInv'
  OBVIOUS
<1>1. CASE Push
  BY <1>1, PushKeeps
<1>2. CASE Retitle \/ Relabel \/ Report \/ CreateCheck \/ CompleteCheck
  BY <1>2, ContentKeeps
<1>3. CASE RequestRun \/ CompleteRun \/ RepeatRun
  BY <1>3, RequestRunKeeps, CompleteRunKeeps, RepeatRunKeeps
<1>4. CASE Speak \/ Withdraw
  BY <1>4, SpeakKeeps, WithdrawKeeps
<1>5. CASE ChangePolicy \/ RefreshCache
  BY <1>5, PolicyStepsKeep
<1>6. CASE ListRun
  BY <1>6, ListRunKeeps
<1>7. CASE HandleOne
  BY <1>7, HandleKeeps DEF HandleOne
<1>8. CASE UNCHANGED vars
  BY <1>8 DEF EventsInv, TypeOK, Policy, vars
<1>9. QED
  BY <1>1, <1>2, <1>3, <1>4, <1>5, <1>6, <1>7, <1>8 DEF Next

LEMMA InitEvents == Init => EventsInv
<1> SUFFICES ASSUME Init PROVE EventsInv
  OBVIOUS
<1>1. /\ scenario \in Scenarios /\ pr = scenario.pr /\ file = 1 /\ cached = 1
      /\ truth = Truth(Policy(1), scenario.pr) /\ listed = {} /\ shown = "none" /\ judged = 0
      /\ changes = 0
      /\ due = {[type |-> "pull_request", trigger |-> {"commit", "pull_request"}, name |-> "",
                 runs |-> {}, head |-> scenario.pr.head]}
  BY DEF Init
<1>2. /\ Len(scenario.policies) \in Nat \ {0} /\ MaxChanges \in Nat
      /\ IsPull(pr) /\ pr.runs = {}
  BY <1>1, ScenariosAssumption DEF IsPull
<1> DEFINE opened == [type |-> "pull_request", trigger |-> {"commit", "pull_request"},
                      name |-> "", runs |-> {}, head |-> scenario.pr.head]
<1>3. \A e \in due : e.head = pr.head /\ e.runs = {}
  <2>1. opened.head = scenario.pr.head /\ opened.runs = {}
    OBVIOUS
  <2>2. due = {opened}
    BY <1>1
  <2> HIDE DEF opened
  <2>3. QED
    BY <1>1, <2>1, <2>2
<1>4. \A e \in due : e.head \in 1..pr.head
  BY <1>2, <1>3 DEF IsPull
<1>5. TypeOK
  <2>1. /\ shown \in Statuses \union {"none"} /\ (judged = 0) = (shown = "none")
        /\ file \in 1..Len(scenario.policies) /\ cached \in 1..file /\ judged \in 0..cached
        /\ changes \in 0..MaxChanges
    <3>1. shown = "none" /\ judged = 0 /\ file = 1 /\ cached = 1 /\ changes = 0
      BY <1>1
    <3>2. Len(scenario.policies) \in Nat \ {0} /\ MaxChanges \in Nat
      BY <1>2
    <3>3. (judged = 0) = (shown = "none")
      BY <3>1
    <3>4. QED
      BY <3>1, <3>2, <3>3
  <2>2. truth = Truth(Policy(file), pr) /\ DOMAIN pr = DOMAIN scenario.pr
    BY <1>1
  <2>3. (\A r \in listed : r.id \in {q.id : q \in pr.runs})
        /\ \A q, r \in listed : q.id = r.id => q = r
    BY <1>1
  <2>4. QED
    BY <1>1, <1>4, <2>1, <2>2, <2>3, Zenon DEF TypeOK
<1>6. QED
  BY <1>2, <1>3, <1>5 DEF EventsInv

(* Every variable keeps its type (TypeOK): whatever GitHub tells of and in   *)
(* whatever order, a status of the head comes with the policy it was judged  *)
(* by, and no workflow run is listed twice or for a head that has none.      *)
THEOREM EventsKeepTypes == Spec => []TypeOK
<1>1. EventsInv => TypeOK
  BY DEF EventsInv
<1>2. QED
  BY <1>1, InitEvents, StepKeepsEvents, PTL DEF Spec

(* A call that fails never turns into an approval, whatever the policy, the  *)
(* pull request and the calls that fail (evaluator.Evaluate, Rule.Evaluate,  *)
(* OrRequirement and AndRequirement).                                        *)
THEOREM ErrorsNeverTurnIntoApproval == Spec => []ErrorsNeverApprove
<1>1. EventsInv => ErrorsNeverApprove
  <2> SUFFICES ASSUME EventsInv, NEW down \in Failures,
                      StatusFor(Policy(file), pr, down) = "success"
               PROVE  truth = "success"
    BY DEF ErrorsNeverApprove
  <2>1. IsPolicy(Policy(file)) /\ truth = Truth(Policy(file), pr)
    BY ScenariosAssumption DEF EventsInv, TypeOK, Policy
  <2>2. StatusFor(Policy(file), pr, {}) = "success"
    BY <2>1, SuccessNeedsNoFailure
  <2>3. QED
    BY <2>1, <2>2 DEF Truth
<1>2. QED
  BY <1>1, InitEvents, StepKeepsEvents, PTL DEF Spec

(* Nothing is approved over a disapproval that stands, whoever disapproves   *)
(* and revokes, in whatever order of seconds, and whichever calls fail       *)
(* (disapproval.Policy.IsDisapproved, lastActor and filter).                 *)
THEOREM DisapprovalsStand == Spec => []DisapprovalStands
<1>1. EventsInv => DisapprovalStands
  <2> DEFINE d == DisapprovalOf(Policy(file))
  <2> SUFFICES ASSUME EventsInv, d.requires # NoActors, NEW down \in Failures,
                      StatusFor(Policy(file), pr, down) = "success",
                      NEW v \in Voices(d.disapprove, "disapprove", pr),
                      IsActor(d.requires, v.user, {}) = "yes"
               PROVE  \E w \in Voices(d.revoke, "approve", pr) :
                        IsActor(d.requires, w.user, {}) = "yes" /\ w.at >= v.at
    BY DEF DisapprovalStands
  <2>1. IsPolicy(Policy(file)) /\ IsPull(pr)
    BY ScenariosAssumption DEF EventsInv, TypeOK, Policy
  <2>2. ~DisapprovalResult(d, pr, down).error
        /\ DisapprovalResult(d, pr, down).status # "disapproved"
    BY <2>1, SuccessNeedsNoFailure
  <2> HIDE DEF d
  <2>3. IsDisapproved(d, pr, down) = "no"
    BY <2>2, DisapprovalWeakens
  <2>4. QED
    BY <2>1, <2>3, SuccessAnswersDisapprovals DEF IsPull
<1>2. QED
  BY <1>1, InitEvents, StepKeepsEvents, PTL DEF Spec
=============================================================================
