--------------------------- MODULE ApprovalEvents ---------------------------
(***************************************************************************)
(* Which webhooks make policy-bot evaluate a rule again.  A handler skips  *)
(* an event if the policy does not declare its trigger, if no method of    *)
(* the policy matches the comment or review, or if somebody else changed   *)
(* the comment (server/handler/issue_comment.go, pull_request_review.go);  *)
(* and after an evaluation policy-bot dismisses stale reviews              *)
(* (server/handler/eval_context_dismissal.go).                             *)
(*                                                                         *)
(* The policy consists of the one rule of ApprovalRule.                    *)
(***************************************************************************)
EXTENDS ApprovalRule

CONSTANT StrictReviewDismissal  \* the server option

ASSUME StrictAssumption == StrictReviewDismissal \in BOOLEAN

(* Mistaken: the rule forgets that its conditions are facts too. *)
TriggerOfMethods ==
  {"commit"}
  \union {k \in {"comment", "review", "pull_request"} :
            /\ rule.count > 0
            /\ \/ k = "comment" /\ rule.comments
               \/ k = "review" /\ (rule.githubReview \/ rule.reviewPatterns)
               \/ k = "pull_request" /\ rule.bodyPatterns}
  \union rule.predicates

(* Rule.Trigger *)
Trigger ==
  {"commit"}
  \union {k \in {"comment", "review", "pull_request"} :
            /\ rule.count > 0
            /\ \/ k = "comment" /\ rule.comments
               \/ k = "review" /\ (rule.githubReview \/ rule.reviewPatterns)
               \/ k = "pull_request" /\ rule.bodyPatterns}
  \union rule.predicates \union rule.conditions

(* ParseConfig returns an evaluator for an event with this trigger. *)
Evaluates(trigger) == trigger \in Trigger

(* CommentMatches of a text or of what it was, for a rule with such methods. *)
Affects(methods, text, was) == methods /\ "approval" \in {text, was}

(***************************************************************************)
(* IssueComment.Handle, of a comment of user "of" that "by" has created,   *)
(* edited or deleted.  The tampering check comes before ParseConfig fills  *)
(* in the default methods, and ends the handler: with a failure if the     *)
(* comment matters, which then is the status, and without one if not.      *)
(***************************************************************************)
HandlesComment(by, of, text, was) ==
  IF by # of
    THEN Affects(rule.comments /\ ~rule.defaulted, text, was)
    ELSE Evaluates("comment") /\ Affects(rule.comments, text, was)

(* PullRequestReview.Handle, of a review somebody submits, edits, dismisses. *)
HandlesReview(state, text) ==
  /\ Evaluates("review")
  /\ \/ state \in {"approved", "dismissed"}
     \/ state = "commented" /\ Affects(rule.comments, text, text)

-----------------------------------------------------------------------------
(***************************************************************************)
(* dismissStaleReviewsForResult: the reviews the rule set aside, but for   *)
(* those of its approvers.  GitHub's event has policy-bot as its sender.   *)
(***************************************************************************)
Dismissals ==
  LET stale == {c \in Deduplicate(Matching) \ FilteredCandidates : c.kind = "review"}
  IN  IF Verdict = "skipped" \/ rule.count = 0 THEN {}
      ELSE {c \in stale : \/ StrictReviewDismissal
                          \/ \A a \in Approvers : a.user # c.user}

DismissStale(i) ==
  /\ \E c \in Dismissals : c.id = i
  /\ reviews' = [reviews EXCEPT ![i].state = "dismissed"]
  /\ UNCHANGED <<rule, head, comments, body, facts, statusAt, arrivedAt, clock, steps>>

EventNext == Next \/ \E i \in 1..Len(reviews) : DismissStale(i)

EventSpec == Init /\ [][EventNext]_vars

-----------------------------------------------------------------------------
(* Whether the webhook of this step makes policy-bot post a status.  A first *)
(* status may be policy-bot's own, and those it ignores (Status.processOwn). *)
Handled ==
  /\ (\E s \in Shas : Push(s)) => Evaluates("commit")
  /\ ~\E s \in Shas : Report(s)
  /\ \A u \in Speakers, t \in Texts : Comment(u, t) => HandlesComment(u, u, t, t)
  /\ \A u \in Speakers, i \in 1..Len(comments) :
       LET c == comments[i]
       IN  /\ DeleteComment(u, i) => HandlesComment(u, c.user, c.text, c.text)
           /\ \A t \in Texts : EditComment(u, i, t) => HandlesComment(u, c.user, t, c.text)
  /\ \A u \in Speakers, state \in Submissions, t \in Texts :
       Review(u, state, t) => HandlesReview(state, t)
  /\ \A i \in 1..Len(reviews) :
       LET r == reviews[i]
       IN  /\ (\E u \in Speakers : DismissReview(u, i)) => HandlesReview("dismissed", r.text)
           /\ \A t \in Texts : EditReview(i, t) => HandlesReview(r.state, t)
  /\ EditBody => Evaluates("pull_request")
  /\ \A k \in Kinds : ChangeFact(k) => Evaluates(k)
  /\ ~Tick

(***************************************************************************)
(* Whatever changes the verdict of the rule has a webhook that policy-bot  *)
(* does not skip, so that the status can follow: skipped events, and the   *)
(* passing of time, change nothing.                                        *)
(***************************************************************************)
VerdictChangesAreHandled == [][Verdict' # Verdict => Handled]_vars

(***************************************************************************)
(* A dismissal never takes away an approval the rule counts, nor makes one *)
(* count that did not.                                                     *)
(***************************************************************************)
DismissalsChangeNoApproval ==
  [][(\E i \in 1..Len(reviews) : DismissStale(i)) =>
       {c.user : c \in Approvers'} = {c.user : c \in Approvers}]_vars
=============================================================================
