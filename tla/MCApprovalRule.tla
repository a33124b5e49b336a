--------------------------- MODULE MCApprovalRule ---------------------------
(***************************************************************************)
(* People, commits and rules small enough for TLC.  Ann opened the pull    *)
(* request, Cam commits to it, Rob reviews.  c2 follows c1, d replaces c2. *)
(* u is GitHub's "Update branch": it merges b2, a later commit of the base *)
(* branch.  m merges f, the commit of a feature branch of Cam's.           *)
(***************************************************************************)
EXTENDS ApprovalEvents

MCParents ==
  [b1 |-> <<>>, b2 |-> <<"b1">>, c1 |-> <<"b1">>, c2 |-> <<"c1">>, d |-> <<"c1">>,
   u |-> <<"c1", "b2">>, f |-> <<"b1">>, m |-> <<"c1", "f">>]

Pushes == <<"b1", "c1", "c2", "d">>
Updates == <<"b1", "b2", "c1", "c2", "u">>
Features == <<"b1", "c1", "f", "m">>

MCUsersOf ==
  [s \in Shas |-> IF s \in {"c2", "f"} THEN {"cam"} ELSE IF s = "d" THEN {} ELSE {"ann"}]

MCRule ==
  [count |-> 1, actors |-> {"ann", "cam", "rob"}, predicates |-> {}, conditions |-> {},
   allowAuthor |-> FALSE, allowContributor |-> FALSE, allowNonAuthorContributor |-> FALSE,
   invalidateOnPush |-> TRUE, ignoreEditedComments |-> FALSE, ignoreUpdateMerges |-> FALSE,
   ignoreCommitsBy |-> {}, comments |-> TRUE, githubReview |-> TRUE,
   reviewPatterns |-> FALSE, bodyPatterns |-> FALSE, defaulted |-> FALSE]

(* Who may approve and how, and which commits count. *)
MCRules ==
  {[MCRule EXCEPT !.bodyPatterns = TRUE, !.ignoreUpdateMerges = TRUE, !.githubReview = FALSE],
   [MCRule EXCEPT !.count = 2, !.allowContributor = TRUE, !.invalidateOnPush = FALSE],
   [MCRule EXCEPT !.allowAuthor = TRUE, !.bodyPatterns = TRUE, !.ignoreCommitsBy = {"cam"}],
   [MCRule EXCEPT !.allowNonAuthorContributor = TRUE, !.reviewPatterns = TRUE,
                  !.bodyPatterns = TRUE, !.invalidateOnPush = FALSE]}

(* What makes the rule be evaluated again. *)
EventRules ==
  {[MCRule EXCEPT !.conditions = Kinds, !.comments = FALSE],
   [MCRule EXCEPT !.predicates = Kinds, !.reviewPatterns = TRUE],
   [MCRule EXCEPT !.bodyPatterns = TRUE, !.comments = FALSE, !.allowAuthor = TRUE],
   [MCRule EXCEPT !.invalidateOnPush = FALSE]}

UpdateRules == {[MCRule EXCEPT !.ignoreUpdateMerges = TRUE]}

ReviewRules == {[MCRule EXCEPT !.comments = FALSE]}

CommentRules == {[MCRule EXCEPT !.githubReview = FALSE]}

DefaultRules == {[MCRule EXCEPT !.defaulted = TRUE]}

EditRules == {[MCRule EXCEPT !.ignoreEditedComments = TRUE, !.invalidateOnPush = FALSE]}
=============================================================================
