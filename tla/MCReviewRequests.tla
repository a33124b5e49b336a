--------------------------- MODULE MCReviewRequests ---------------------------
(***************************************************************************)
(* Four people beside the author; one of them owns the organization and    *)
(* has no permission of the repository's own.                              *)
(***************************************************************************)
EXTENDS ReviewRequests, TLC

CONSTANTS e1, e2

AnyEvaluator == Permutations({e1, e2})

MCNameOrder == "ada" :> 1 @@ "bo" :> 2 @@ "cy" :> 3 @@ "di" :> 4 @@ "ed" :> 5
MCPermissionOf == "ada" :> 3 @@ "bo" :> 3 @@ "cy" :> 3 @@ "di" :> 1 @@ "ed" :> 5
MCDirect == "ada" :> 3 @@ "bo" :> 0 @@ "cy" :> 3 @@ "di" :> 1 @@ "ed" :> 0
MCTeamMembers == "writers" :> {"ada", "bo", "cy"} @@ "readers" :> {"di"}
MCOrgMembers == [o \in {"company"} |-> {"ada", "cy", "di", "ed"}]
MCRepoTeams == [t \in {"writers"} |-> 3]

Rule(mode, required, count) ==
  [mode |-> mode, required |-> required, count |-> count, enabled |-> TRUE, waits |-> FALSE,
   users |-> {}, teams |-> {}, organizations |-> {}, permissions |-> {}]

FromTeams(rule) == [rule EXCEPT !.teams = {"writers", "readers"}]
FromCompany(rule) == [rule EXCEPT !.organizations = {"company"}]
FromWriters(rule) == [rule EXCEPT !.permissions = {3}]

MCScenarios ==
  {[op |-> "and", rules |-> <<FromTeams(Rule("random-users", 1, 0))>>],
   [op |-> "and", rules |-> <<FromCompany(Rule("random-users", 1, 2))>>],
   [op |-> "and", rules |-> <<FromTeams(Rule("random-users", 2, 1))>>],
   [op |-> "and", rules |-> <<FromTeams(Rule("random-users", 1, 0)),
                              FromCompany(Rule("random-users", 1, 0))>>],
   [op |-> "or", rules |-> <<FromWriters(Rule("all-users", 1, 0)),
                             [Rule("random-users", 1, 0) EXCEPT !.users = {"di"}, !.waits = TRUE],
                             FromWriters(Rule("teams", 1, 0))>>]}

(* Whom a draw takes first depends on the draws before it. *)
MCOrder ==
  [lengths \in UNION {[1..k -> 2..4] : k \in 1..3} |->
     LET n == lengths[Len(lengths)]
     IN  [i \in 1..n |-> 1 + ((i + (IF Len(lengths) = 1 THEN 0 ELSE lengths[1])) % n)]]
=============================================================================
