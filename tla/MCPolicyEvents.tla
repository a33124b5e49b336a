--------------------------- MODULE MCPolicyEvents ---------------------------
(***************************************************************************)
(* Policies, each with the changes its predicates and methods read:        *)
(* checks, people, the pull request's own data, and its contents.          *)
(***************************************************************************)
EXTENDS PolicyEvents

MCUserOrder == <<"ada", "bo", "cy", "di">>
MCTeamMembers == [team \in {"reviewers"} |-> {"bo", "cy"}]
MCOrgMembers == [org \in {"company"} |-> {"ada", "bo"}]
MCPermissionOf == [u \in {"ada", "bo", "cy", "di"} |-> IF u = "di" THEN 3 ELSE 1]

Users(us) == [NoActors EXCEPT !.users = us]
Reviewers == [NoActors EXCEPT !.teams = {"reviewers"}]
Company == [NoActors EXCEPT !.organizations = {"company"}]
Maintainers == [NoActors EXCEPT !.permissions = {3}]

Rule(if, count, actors, conditions) ==
  [if |-> if, count |-> count, actors |-> actors, conditions |-> conditions,
   comments |-> TRUE, reviews |-> TRUE]

Leaf(rule) == [op |-> "rule", rule |-> rule, of |-> <<>>]
Node(op, of) == [op |-> op, rule |-> "", of |-> of]

Commit(author, signature) ==
  [author |-> author, committer |-> author, web |-> FALSE, signature |-> signature]

Unsigned == [type |-> "none", valid |-> FALSE, signer |-> "", key |-> ""]
SignedBy(user) == [type |-> "gpg", valid |-> TRUE, signer |-> user, key |-> "key"]

Source(name, status, lines) ==
  [name |-> name, previous |-> "old", status |-> status, additions |-> lines, deletions |-> 0]

PullRequest ==
  [author |-> "ada", base |-> "main", source |-> "topic", repository |-> "repo",
   title |-> "fix", labels |-> {}, files |-> {Source("code", "modified", 1)},
   commits |-> {Commit("ada", Unsigned)}, head |-> 1,
   statuses |-> <<>>, checks |-> <<>>, runs |-> {}, told |-> {},
   properties |-> [tier |-> [string |-> "prod"], owners |-> [string |-> ""]],
   voices |-> {}]

Nothing ==
  [policies |-> <<>>, pr |-> PullRequest, pushes |-> {}, titles |-> {}, labels |-> {},
   statuses |-> {}, checks |-> {}, workflows |-> {}, voices |-> {}]

-----------------------------------------------------------------------------
(* Builds and workflows must pass; a failed scan disapproves.  The policy is *)
(* first without the workflow.                                               *)
Build == [kind |-> "has_status", statuses |-> {"build"}, conclusions |-> {}]
Scan == [kind |-> "has_status", statuses |-> {"scan"}, conclusions |-> {"failure"}]
Workflow == [kind |-> "has_workflow_result", workflows |-> {"ci"}, conclusions |-> {}]

ChecksPolicy(tree) ==
  [rules |-> [built |-> Rule({}, 0, NoActors, {Build}),
              ran |-> Rule({}, 0, NoActors, {Workflow})],
   tree |-> tree,
   disapproval |-> {[NoDisapproval EXCEPT !.if = {Scan}]}]

BuiltPolicy == ChecksPolicy(<<Leaf("built"), Node("and", <<1>>)>>)

Checks ==
  [Nothing EXCEPT !.policies = <<BuiltPolicy,
                                 ChecksPolicy(<<Leaf("built"), Leaf("ran"), Node("and", <<1, 2>>)>>)>>,
     !.pushes = {[files |-> PullRequest.files, commits |-> PullRequest.commits]},
     !.statuses = {"build"}, !.checks = {"build", "scan"}, !.workflows = {"ci", "docs"}]

(* Only the workflow, so that a run of an earlier head would decide. *)
Runs ==
  [Nothing EXCEPT !.policies = <<[ChecksPolicy(<<Leaf("ran"), Node("and", <<1>>)>>)
                                    EXCEPT !.disapproval = {}]>>,
     !.pushes = Checks.pushes, !.workflows = {"ci"}]

(* A reviewer, or with a label a maintainer; reviewers disapprove, by review. *)
PeoplePolicy ==
  [rules |-> [reviewed |-> Rule({[kind |-> "has_author_in", actors |-> Company]}, 1, Reviewers, {}),
              urgent |-> Rule({[kind |-> "has_labels", labels |-> {"urgent"}]}, 1, Maintainers, {})],
   tree |-> <<Leaf("reviewed"), Leaf("urgent"), Node("or", <<1, 2>>), Node("and", <<3>>)>>,
   disapproval |-> {[NoDisapproval EXCEPT !.requires = Reviewers, !.disapprove.comments = FALSE]}]

Voice(user, says, by) == [user |-> user, says |-> says, by |-> by]

People ==
  [Nothing EXCEPT !.policies = <<PeoplePolicy>>, !.labels = {"urgent"},
     !.voices = {Voice("bo", "approve", "review"), Voice("bo", "disapprove", "review"),
                 Voice("cy", "disapprove", "review"), Voice("di", "approve", "comment"),
                 Voice("cy", "approve", "comment"), Voice("ada", "approve", "comment")}]

(* Titles, labels, branches, the repository and its custom properties. *)
OwnDataPolicy ==
  [rules |-> [docs |-> Rule({[kind |-> "title", matches |-> {{"docs"}}, notMatches |-> {}],
                             [kind |-> "from_branch", pattern |-> {"topic"}],
                             [kind |-> "custom_property_is_not_null", names |-> {"tier"}],
                             [kind |-> "custom_property_matches_none_of",
                              patterns |-> [owners |-> {{"nobody"}}]]}, 0, NoActors, {}),
              other |-> Rule({[kind |-> "targets_branch", pattern |-> {"main"}],
                              [kind |-> "repository", matches |-> {}, notMatches |-> {{"fork"}}],
                              [kind |-> "custom_property_is_null", names |-> {"frozen"}],
                              [kind |-> "custom_property_matches_any_of",
                               patterns |-> [tier |-> {{"prod"}}]]},
                             1, Users({"bo"}), {[kind |-> "has_labels", labels |-> {"ready"}]})],
   tree |-> <<Leaf("docs"), Leaf("other"), Node("or", <<1, 2>>), Node("and", <<3>>)>>,
   disapproval |-> {[NoDisapproval EXCEPT
      !.if = {[kind |-> "title", matches |-> {{"wip"}}, notMatches |-> {}]}]}]

OwnData ==
  [Nothing EXCEPT !.policies = <<OwnDataPolicy>>, !.titles = {"fix", "docs", "wip"},
     !.labels = {"ready"}, !.voices = {Voice("bo", "approve", "review")}]

(* Files, lines, contributors and signatures. *)
ContentPolicy ==
  [rules |-> [small |-> Rule({[kind |-> "changed_files", paths |-> {{"code", "old"}}, ignore |-> {}],
                              [kind |-> "file_not_added", paths |-> {{"binary"}}],
                              [kind |-> "author_is_only_contributor", value |-> TRUE],
                              [kind |-> "modified_lines", filter |-> [include |-> {}, exclude |-> {{"old"}}],
                               additions |-> [op |-> "<", value |-> 5],
                               deletions |-> [op |-> "", value |-> 0],
                               total |-> [op |-> ">", value |-> 100]]}, 0, NoActors,
                             {[kind |-> "has_valid_signatures", value |-> TRUE]}),
              docs |-> Rule({[kind |-> "only_changed_files", paths |-> {{"docs"}}],
                             [kind |-> "no_changed_files", paths |-> {{"code"}}, ignore |-> {}],
                             [kind |-> "only_has_contributors_in", actors |-> Company]}, 0, NoActors, {}),
              large |-> Rule({[kind |-> "file_added", paths |-> {{"binary"}}],
                              [kind |-> "file_not_deleted", paths |-> {{"docs"}}],
                              [kind |-> "has_contributor_in", actors |-> Reviewers]}, 1, Reviewers,
                             {[kind |-> "has_valid_signatures_by", actors |-> Company],
                              [kind |-> "has_valid_signatures_by_keys", keys |-> {"key"}]})],
   tree |-> <<Leaf("small"), Leaf("docs"), Leaf("large"), Node("or", <<1, 2, 3>>), Node("and", <<4>>)>>,
   disapproval |-> {[NoDisapproval EXCEPT
      !.if = {[kind |-> "file_deleted", paths |-> {{"old"}}]}]}]

Content(files, commits) == [files |-> files, commits |-> commits]

Contents ==
  [Nothing EXCEPT !.policies = <<ContentPolicy>>,
     !.pushes = {Content({Source("code", "modified", 1)}, {Commit("ada", SignedBy("ada"))}),
                 Content({Source("code", "modified", 9)}, {Commit("bo", Unsigned)}),
                 Content({Source("docs", "modified", 1)}, {Commit("ada", Unsigned), Commit("bo", Unsigned)}),
                 Content({Source("binary", "added", 1)}, {Commit("bo", SignedBy("bo"))}),
                 Content({Source("binary", "added", 1), Source("docs", "deleted", 0)},
                         {Commit("bo", SignedBy("bo"))}),
                 Content({Source("code", "renamed", 1)}, {Commit("ada", SignedBy("cy"))}),
                 Content({Source(n, "modified", 1) : n \in {"code", "docs", "binary"}},
                         {Commit("di", Unsigned)})},
     !.voices = {Voice("cy", "approve", "review"), Voice("cy", "disapprove", "review")}]

(* A policy file that was merged although it names a rule it does not have. *)
Broken ==
  [Nothing EXCEPT !.policies = <<[BuiltPolicy EXCEPT !.tree[1].rule = "missing"], BuiltPolicy>>,
     !.statuses = {"build"}, !.checks = {"scan"}, !.titles = {"docs"}]

MCScenarios == {Checks, Runs, People, OwnData, Contents, Broken}
=============================================================================
