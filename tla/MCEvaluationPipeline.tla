------------------------ MODULE MCEvaluationPipeline ------------------------
(***************************************************************************)
(* Policies and facts small enough for TLC.  A fact is FALSE or TRUE: a    *)
(* review or comment that approves, a label that blocks, a check that      *)
(* passed.  The title "draft" keeps a pull request from being approved,    *)
(* but for the policy of the branch next, which does not read titles.      *)
(***************************************************************************)
EXTENDS EvaluationPipeline, TLC

CONSTANTS s1, s2, s3, main, next, old, wild, w1, w2, v1

MCPolicy == [b \in Bases |-> IF b = old THEN "invalid" ELSE IF b = wild THEN "missing"
                             ELSE "valid"]

TitlesMatter(b) == b # next /\ \E t, u \in Titles : t # u

MCPolicyTrigger ==
  [b \in Bases |-> {"commit"} \union Kinds \union
                   (IF TitlesMatter(b) THEN {"pull_request"} ELSE {})]

(* What the policies say; commit s3 is one that no policy approves.          *)
MCJudge ==
  [x \in Bases \X Titles \X Shas \X Facts |->
     LET f == x[4]
     IN  IF "label" \in Kinds /\ f["label"] THEN "disapproved"
         ELSE IF \/ TitlesMatter(x[1]) /\ x[2] = "draft"
                 \/ x[3] = s3
                 \/ \E k \in Kinds \ {"label"} : ~f[k]
              THEN "pending"
              ELSE "approved"]

(* The workers take from one queue.                                          *)
WorkersAreAlike == Permutations(Workers)
=============================================================================
