---------------------------- MODULE PolicyStatus ----------------------------
(***************************************************************************)
(* What policy-bot promises of one pull request: when it has handled what  *)
(* it was told of, and the policy it judged by is the one in the           *)
(* repository, the status it shows is the status the policy gives.         *)
(***************************************************************************)
EXTENDS Naturals

CONSTANT Statuses   \* what a policy may say of a pull request

VARIABLES
  truth,     \* what the policy in the repository says of the pull request
  shown,     \* the status on the head commit, "none" if there is none
  due,       \* how many webhooks are still to be handled
  current    \* whether shown is by the policy in the repository

vars == <<truth, shown, due, current>>

Init ==
  /\ truth \in Statuses
  /\ shown = "none"
  /\ due = 1
  /\ current = FALSE

(* The pull request changes, which is told; a new head commit has no status. *)
Change ==
  /\ truth' \in Statuses
  /\ due' \in {due, due + 1} \ {0}
  /\ \/ UNCHANGED <<shown, current>>
     \/ shown' = "none" /\ current' = FALSE

(* The policy in the repository changes, which nobody is told. *)
ChangePolicy ==
  /\ truth' \in Statuses
  /\ current' = FALSE
  /\ UNCHANGED <<shown, due>>

(* A webhook is handled; the last one leaves the truth. *)
Handle ==
  /\ due > 0
  /\ due' = due - 1
  /\ current' \in BOOLEAN
  /\ shown' \in Statuses \union {"none"}
  /\ due' = 0 /\ current' => shown' = truth
  /\ UNCHANGED truth

Next == Change \/ ChangePolicy \/ Handle

(* What may happen. *)
Safety == Init /\ [][Next]_vars

(* All is handled again and again, unless there are changes again and again. *)
Spec == Safety /\ ([]<>(due = 0) \/ []<><<Change>>_vars)
=============================================================================
