----------------------------- MODULE PolicyTree -----------------------------
(***************************************************************************)
(* A policy: rules under "and" and "or", and disapproval.  Its status is a *)
(* function of the pull request (policy/policy.go, policy/approval,        *)
(* policy/disapproval).                                                    *)
(*                                                                         *)
(* policy.rules are the rules by name.  policy.tree is a sequence of nodes *)
(* below their parents: a node names a rule or has nodes before it as its  *)
(* children, and the last one is the root that Parse puts on top.          *)
(***************************************************************************)
EXTENDS Predicates

Nodes == [op : {"rule", "or", "and"}, rule : STRING, of : Seq(Nat)]

IsPolicy(policy) ==
  /\ policy.tree \in Seq(Nodes)
  /\ \A n \in 1..Len(policy.tree) : ToSet(policy.tree[n].of) \subseteq 1..(n - 1)
  /\ \A r \in DOMAIN policy.rules : policy.rules[r].count \in Nat

Rules(policy) == DOMAIN policy.rules

Root(policy) == Len(policy.tree)

(* Policy.Parse, parsePolicyR: the height below the root, and what is refused. *)
Height(policy) ==
  LET height[n \in 1..Root(policy)] ==
        LET node == policy.tree[n]
        IN  IF node.op = "rule" THEN 0 ELSE 1 + Max({height[k] : k \in ToSet(node.of)})
  IN  height[Root(policy)]

IsValid(policy) ==
  \/ policy.tree = <<>>
  \/ /\ \A n \in 1..Root(policy) :
          LET node == policy.tree[n]
          IN  IF node.op = "rule" THEN node.rule \in Rules(policy) ELSE node.of # <<>>
     /\ Height(policy) <= 10

-----------------------------------------------------------------------------
(***************************************************************************)
(* Voices: comments and reviews that approve, and revoke a disapproval, or *)
(* that disapprove, with the methods' defaults.                            *)
(***************************************************************************)
Counts(methods, v) ==
  \/ v.by = "comment" /\ methods.comments
  \/ v.by = "review" /\ methods.reviews

Voices(methods, says, pr) == {v \in pr.voices : v.says = says /\ Counts(methods, v)}

(* Methods.Candidates reads comments and reviews only if a method wants them. *)
AsksVoices(methods, down) == "commits" \in down /\ (methods.comments \/ methods.reviews)

Result(status) == [status |-> status, error |-> FALSE]
Failed == [status |-> "skipped", error |-> TRUE]

(***************************************************************************)
(* Rule.isApprovedByActors with the default options: neither the author    *)
(* nor anybody who committed approves.  ApprovalRule has all the options.  *)
(***************************************************************************)
ApprovedByActors(rule, pr, down) ==
  LET users == {v.user : v \in Voices(rule, "approve", pr)} \ ToSet(ContributorList(pr))
      answers == [u \in users |-> IsActor(rule.actors, u, down)]
  IN  IF rule.count = 0 THEN "yes"
      ELSE IF "commits" \in down \/ \E u \in users : answers[u] = "error" THEN "error"
      ELSE Answer(Cardinality({u \in users : answers[u] = "yes"}) >= rule.count)

(* Rule.isApprovedByConditions *)
ApprovedByConditions(rule, pr, down) ==
  LET answers == ToSet(EvaluateAll(rule.conditions, pr, down))
  IN  IF "error" \in answers THEN "error" ELSE Answer("no" \notin answers)

(* Rule.Evaluate: the first predicate that is not satisfied decides. *)
ResultOf(applies, heard, approved) ==
  CASE applies = "no" -> Result("skipped")
    [] applies = "error" \/ (applies = "yes" /\ ~heard) -> Failed
    [] OTHER -> IF "error" \in approved THEN Failed
                ELSE Result(IF "no" \in approved THEN "pending" ELSE "approved")

(* Rule.FilteredCandidates: a rule that needs nobody looks for nobody. *)
Heard(rule, down) == rule.count = 0 \/ ~AsksVoices(rule, down)

RuleResult(rule, pr, down) ==
  ResultOf(FirstBut("yes", EvaluateAll(rule.if, pr, down)), Heard(rule, down),
           {ApprovedByActors(rule, pr, down), ApprovedByConditions(rule, pr, down)})

(* Rule.Trigger *)
RuleTrigger(rule) ==
  {"commit"}
  \union (IF rule.count > 0 /\ rule.comments THEN {"comment"} ELSE {})
  \union (IF rule.count > 0 /\ rule.reviews THEN {"review"} ELSE {})
  \union UNION {PredicateTrigger(p) : p \in rule.if \union rule.conditions}

-----------------------------------------------------------------------------
(* How many children say so, of those without an error. *)
Some(status, results) == \E r \in ToSet(results) : ~r.error /\ r.status = status

SomeError(results) == \E r \in ToSet(results) : r.error

(* OrRequirement.Evaluate: an error is dropped if another child decides. *)
OrResult(results) ==
  IF Some("approved", results) THEN Result("approved")
  ELSE IF Some("pending", results) THEN Result("pending")
  ELSE [status |-> "skipped", error |-> SomeError(results)]

(* Mistaken: an error is dropped if the children without one are enough. *)
AndResultOfSound(results) ==
  [status |-> IF Some("pending", results) THEN "pending"
              ELSE IF Some("approved", results) THEN "approved" ELSE "skipped",
   error |-> SomeError(results) /\ ~Some("approved", results)]

(* AndRequirement.Evaluate: an error is an error, whatever the others say. *)
AndResult(results) ==
  [status |-> IF Some("pending", results) THEN "pending"
              ELSE IF Some("approved", results) THEN "approved" ELSE "skipped",
   error |-> SomeError(results)]

(* evaluator.Evaluate of the approval policy; without one all is approved. *)
ApprovalResult(policy, pr, down) ==
  LET result[n \in 1..Root(policy)] ==
        LET node == policy.tree[n]
            children == [i \in 1..Len(node.of) |-> result[node.of[i]]]
        IN  CASE node.op = "rule" -> RuleResult(policy.rules[node.rule], pr, down)
              [] node.op = "or" -> OrResult(children)
              [] node.op = "and" -> AndResult(children)
  IN  IF policy.tree = <<>> THEN Result("approved") ELSE result[Root(policy)]

-----------------------------------------------------------------------------
(***************************************************************************)
(* Disapproval, by a predicate or by a person.  policy.disapproval has one *)
(* element or none.                                                        *)
(***************************************************************************)
NoDisapproval ==
  [if |-> {}, requires |-> NoActors,
   disapprove |-> [comments |-> TRUE, reviews |-> TRUE],
   revoke |-> [comments |-> TRUE, reviews |-> TRUE]]

DisapprovalOf(policy) ==
  IF policy.disapproval = {} THEN NoDisapproval ELSE CHOOSE d \in policy.disapproval : TRUE

(* Mistaken: anybody revokes. *)
LastActorOfAll(d, methods, says, pr, down) ==
  [error |-> AsksVoices(methods, down),
   at |-> Max({v.at : v \in Voices(methods, says, pr)} \union {0})]

(* Policy.lastActor and filter: the time of the last of those who may, 0 if none. *)
LastActor(d, methods, says, pr, down) ==
  LET voices == Voices(methods, says, pr)
      answer == [v \in voices |-> IsActor(d.requires, v.user, down)]
  IN  [error |-> AsksVoices(methods, down) \/ \E v \in voices : answer[v] = "error",
       at |-> Max({v.at : v \in {w \in voices : answer[w] = "yes"}} \union {0})]

(* IsDisapproved *)
IsDisapproved(d, pr, down) ==
  LET disapprover == LastActor(d, d.disapprove, "disapprove", pr, down)
      revoker == LastActor(d, d.revoke, "approve", pr, down)
  IN  IF disapprover.error THEN "error"
      ELSE IF disapprover.at = 0 THEN "no"
      ELSE IF revoker.error THEN "error" ELSE Answer(disapprover.at > revoker.at)

(* Policy.Evaluate of disapproval: predicates first, one that is satisfied disapproves. *)
DisapprovalResultOf(answer) ==
  IF answer = "error" THEN Failed
  ELSE Result(IF answer = "yes" THEN "disapproved" ELSE "skipped")

DisapprovalResult(d, pr, down) ==
  DisapprovalResultOf(
    FirstBut("no", <<FirstBut("no", EvaluateAll(d.if, pr, down)),
                     IF d.requires = NoActors THEN "no" ELSE IsDisapproved(d, pr, down)>>))

(* Policy.Trigger of disapproval *)
DisapprovalTrigger(d) ==
  {"commit"}
  \union (IF d.requires # NoActors /\ (d.disapprove.comments \/ d.revoke.comments)
            THEN {"comment"} ELSE {})
  \union (IF d.requires # NoActors /\ (d.disapprove.reviews \/ d.revoke.reviews)
            THEN {"review"} ELSE {})
  \union UNION {PredicateTrigger(p) : p \in d.if}

-----------------------------------------------------------------------------
(* evaluator.Trigger of the whole: the rules in the tree and disapproval. *)
PolicyTrigger(policy) ==
  (UNION {RuleTrigger(policy.rules[node.rule]) :
            node \in {n \in ToSet(policy.tree) : n.op = "rule"}})
  \union DisapprovalTrigger(DisapprovalOf(policy))

(* The status EvalContext posts for what ParsePolicy and Evaluate return. *)
StatusOf(disapproval, approval) ==
  IF disapproval.error \/ approval.error THEN "error"
  ELSE IF disapproval.status = "disapproved" THEN "failure"
  ELSE IF approval.status = "approved" THEN "success"
  ELSE IF approval.status = "pending" THEN "pending" ELSE "error"

StatusFor(policy, pr, down) ==
  IF ~IsValid(policy) THEN "error"
  ELSE StatusOf(DisapprovalResult(DisapprovalOf(policy), pr, down),
                ApprovalResult(policy, pr, down))
=============================================================================
