# Verification of policy-bot

policy-bot is a GitHub App that evaluates an approval policy on pull requests
and reports the result as a commit status.  This directory holds TLA+ models of
its code, TLC configurations that check them on small instances, and TLAPS
proofs of what holds for instances of any size.  Paths and line numbers are
those of the repository; `PROJECT.json` maps every definition to its lines.

    tlc -workers 2 -config EvaluationPipeline.cfg MCEvaluationPipeline.tla
    tlapm PolicyConfigCacheProofs.tla        (likewise every *Proofs.tla)

## 1. Inventory

| component | code | state | operations | what makes it correct |
|---|---|---|---|---|
| policy config cache | `server/handler/policy_config_cache.go`, `fetcher.go` | map, LRU list, size, in-flight loads, seen policies | lookup, load with retries, store, evict, cancel | one load per branch, map and list agree, bounded, never stale beyond the TTL, every lookup answered |
| webhook dispatch | `server/server.go`, go-githubapp's scheduler | queue of events, worker goroutines | schedule, drop, take | an accepted event is handled by one worker |
| event handlers | `server/handler/*.go` | none of their own | locate the pull request, load its policy, evaluate, post | the status follows the pull request |
| pull request context | `pull/github.go`, `pull/global_cache.go` | what it read so far, push times | paged and single reads, `PushedAt` | one evaluation sees one pull request |
| approval rules | `policy/approval`, `policy/common` | options and their defaults | trigger, candidates, filters, verdict | enough people who may approve did, after the last push |
| policy composition | `policy/policy.go`, `approval/evaluate.go`, `disapproval` | none | and, or, disapproval, revocation | the result is what the tree of rules says, and a call that fails never approves |
| predicates | `policy/predicate` | none | one comparison each | their trigger covers what they read |
| post-evaluation actions | `eval_context_reviewers.go`, `eval_context_dismissal.go`, `policy/reviewer` | none | request reviews, dismiss stale reviews | nobody needed is overlooked or asked twice; a dismissal is of no consequence |
| membership contexts | `pull/github_membership.go`, `cross_org.go` | read-through caches of one evaluation | team, organization and permission look-ups | |
| check_run, workflow_run | `check_run.go`, `workflow_run.go`, `policy_relevance.go` | none | a pre-check, then evaluation with the run that was told | the pre-check skips only what does not matter, and a run is not forgotten because GitHub lists it late |
| merge_group, installation | `merge_group.go`, `installation.go` | none | one constant status | |
| simulation API, pages, login, configuration, metrics | `simulate.go`, `frontend.go`, `login.go`, `config.go` ... | sessions | | |

How they interact: a webhook becomes an entry of the scheduler's queue; a worker
runs its handler, which makes a pull request context from the payload (complete
for `pull_request` events) or from the API, asks the config fetcher (and its
cache) for the policy of the base branch, skips the event if the policy does not
declare its trigger, evaluates the policy over the context, posts the status
`<context>: <base>` on the head commit, and then dismisses reviews and requests
new ones.  The details page does the same in its HTTP goroutine.  Nothing is
persisted: GitHub holds the state, and webhooks, memory and clocks stand between
it and the status.

What is hard: evaluations of one pull request run side by side and read GitHub
in several calls; webhooks overtake each other and their payloads age in the
queue; the queue is bounded and drops; calls fail half-way; a restart forgets
the queue; push times are estimates kept in memory; skipping events by their
trigger, text or sender is an optimization that must lose nothing.  Section
"hazards" of `PROJECT.json` lists each of these at its line with the properties
that would notice it going wrong.

## 2. Modules

| module | models | builds on |
|---|---|---|
| `PolicyConfigCache` | the cache of policies and its loaders | |
| `PolicyConfigCacheProofs` | its invariants, proved | `PolicyConfigCache`, `WellFounded` |
| `EvaluationPipeline` | from a change on GitHub to the status that reports it | |
| `EvaluationPipelineProofs` | its types, the truth of a settled status, and that races never invent a success, proved | `EvaluationPipeline` |
| `PullCommits` | the commits of a pull request and which of them count | |
| `ApprovalRule` | one approval rule over the life of a pull request | `PullCommits` |
| `ApprovalEvents` | which webhooks make the rule be evaluated, and dismissals | `ApprovalRule` |
| `ApprovalRuleProofs` | their invariants and action properties, proved | `ApprovalEvents`, `WellFounded` |
| `Predicates` | every predicate: what it reads, its answer, its error, its trigger | |
| `PolicyTree` | a whole policy: rules, and/or, disapproval, validity, trigger | `Predicates` |
| `PolicyStatus` | what policy-bot promises of one pull request, abstractly | |
| `PolicyEvents` | the webhooks and handlers of a pull request with a whole policy | `PolicyTree`, `PolicyStatus` |
| `PolicyEventsProofs` | what errors and disapprovals do to a policy, proved | `PolicyEvents`, `WellFounded` |
| `PolicyStatusProofs` | that the handlers do what `PolicyStatus` allows, proved | `PolicyEventsProofs` |
| `PushTimes` | `PushedAt`, its caches, processes and restarts | |
| `PushTimesProofs` | its invariants, proved | `PushTimes` |
| `ReviewRequests` | whom policy-bot asks for a review | |
| `ReviewRequestsProofs` | that nobody is overlooked or asked twice, and few are asked, proved | `ReviewRequests`, `WellFounded` |
| `WellFounded` | lemmas on induction and recursion that the proofs share | |
| `MC...` | instances for TLC | |

### PolicyConfigCache

`caller` are the goroutines inside `ConfigForRepositoryBranch`, `load` the
`policyConfigLoad` objects with the goroutine that fills each, and `entries`,
`lru`, `size` and `inFlight` the fields of the cache.  The mutex makes every
critical section one action: `Hit`, `JoinLoad`, `StartLoad` (the three ways
through `load`), `StoreLoad` (the end of `loadAndStore`); a loader's attempts,
its failures and retries are `AttemptLoad`; `Receive` and `Cancel` are the two
arms of a waiting caller's `select`.  A cache that its options disable is `off`:
`LoadDirectly` runs the loader for one caller.  The clock ticks and the policy files
change at any moment.  `replacedAt`, `recency` and `startedAt`/`storedAt` are
history.

| run | question | bounds |
|---|---|---|
| `PolicyConfigCache` | do map, list, size, in-flight loads and waiters stay consistent (`TypeOK`, `MapAndListAgree`, `LoadsOnlyWhatIsMissing`, `SingleFlight`, `WaitersKeepTheirLoad`, `SizeIsAccounted`, `LeastRecentlyUsedFirst`)? | 2 callers, 2 branches, policies of size 1, 2 and more than the cache, which is on or off |
| `PolicyConfigCacheLive` | is a hit ever older than a TTL and its load (`HitsAreRecent`), and does every lookup return (`EveryLookupReturns`)? | 1 branch that is edited, a clock that passes the TTL, loads that fail, callers that give up; the cache on or off |

Two callers reach every interleaving of a hit, a miss, a joined and an abandoned
load; two branches whose policies may or may not fit together reach every case
of eviction.  Fairness: a goroutine that can proceed does, and GitHub's API
answers or fails; the code justifies it by running each load in a goroutine of
its own with a bounded number of retries.

### EvaluationPipeline

One pull request (`pr`), the checks of other apps, and policy-bot's statuses are
GitHub's state; `deliveries` are webhooks on their way, `queue` the scheduler's
channel, `worker` each worker goroutine or details-page request.  People push,
force-push, comment, review, label, edit, retarget, close, reopen and forge
statuses.  A worker takes an event; `StartEvaluation`, `RejectPolicy` and `Skip`
are the outcomes of `ParseConfig`; `Read` are the GitHub reads of an evaluation,
one action per call the code makes (commits, comments and reviews are one
query); `Post` is `PostStatus`.  `LoadFails`, `ReadFails`, `PostFails`,
`Restart` and `DropEvent` are the faults.  What a policy decides is the constant
`Judge`, and `TriggerAssumption` is what `Trigger()` promises about it:
facts and titles outside the trigger do not matter.  `ApprovalEvents` checks that
promise for approval rules.

The rest is history.  `earned`, `former` and `forged` are the contexts a policy
approved while their commit was head, the heads that were, and the contexts somebody
else wrote.  `doubt` is why the status of the head may stay wrong.  There are four
reasons, each a case where the code loses or overtakes something for good:

- an event was dropped, a call failed or the server restarted since the evaluation
  began that was posted last (`DropEvent`, `Fault`; `whole` says of an evaluation that
  it began after the last loss);
- since then, the pull request got a base branch whose policy is not evaluated for it
  (`Unnoticed`, eval_context.go:117);
- what was posted last came late: another evaluation of the same context began after
  it and was posted before it (`later`, `overtaken`; eval_context.go:212);
- what was posted last is by a policy that reads titles, of an older payload
  (`TitleIsCurrent`, github.go:101-116).

A post on the head that is none of these ends the doubt.

| run | question | bounds |
|---|---|---|
| `EvaluationPipeline` | when all is handled, is the status true, or is there one of the doubts (`SettledStatusIsTrue`)? | 2 workers side by side, 2 commits, 2 branches of which one's policy does not read titles, 2 titles, reviews, queue of 2, any order, 2 changes, 1 fault |
| `EvaluationPipelineRaces` | was a success ever earned by its commit (`SuccessIsEarned`), when a worker and a details page race? | 2 commits of which one is never approved, 2 changes, 1 fault |
| `EvaluationPipelineLive` | with one worker and ordered webhooks, does the status become true and stay so, without any excuse (`StatusBecomesTrue`)? | titles, 3 bases with a valid, an invalid and no policy, status events of 2 commits, 2 changes |

Two changes and one fault suffice for a change before and during each of two
evaluations, with a loss in between; two evaluations are enough for one to overtake
the other, and a queue of two fills and overflows.  Workers are interchangeable
(`SYMMETRY`).  Fairness is weak: GitHub delivers what it has to deliver, a worker takes
an event if there is one, and a handler in progress proceeds.  Nobody has to act and
no fault has to occur.

None of the reasons for doubt can be spared: without `overtaken`, without the title,
without `Unnoticed` or without `whole` in their definitions the run
`EvaluationPipeline` violates `SettledStatusIsTrue`, and so it does if the post on
another context than the head's ended the doubt.  These are limits of the code: the
README's "Policy Bot reports approval as a successful status check on the head
commit" (README.md:51-52) is not kept until the next event.  The other runs exclude
them by constants, and fail without:

| run | change | fails | because |
|---|---|---|---|
| `EvaluationPipelineLive` | `Workers = {w1, w2}` | `StatusBecomesTrue` | of two evaluations side by side, the one that read the older state may post last (eval_context.go:212) |
| `EvaluationPipelineLive` | `Bases = {main, next}` | `StatusBecomesTrue` | the event of a new base branch is skipped when that branch's policy does not declare the trigger (eval_context.go:117) |
| `EvaluationPipelineLive` | `Reordering = TRUE` | `StatusBecomesTrue` | an older payload is evaluated last, with its title |
| `EvaluationPipelineRaces` | `Kinds = {"review", "label"}` | `SuccessIsEarned` | one evaluation combines facts of two moments |
| `EvaluationPipelineRaces` | `Titles = {"ready", "draft"}` | `SuccessIsEarned` | one evaluation combines the title of its payload with later facts |

### PullCommits, ApprovalRule, ApprovalEvents

`PullCommits` has the commit graph as constants and `sortCommits`,
`isUpdateMerge`, `isIgnoredCommit`, `filteredCommits` (a set, with the `MostRecent` of
them) as operators, next to the
documented meaning (`MergesBase`, `Relevant`) they are compared with.
`ApprovalRule` keeps the comments, reviews, description, facts and head of a
pull request, the time of each commit's oldest status, and a clock of whole
seconds.  `Verdict` is `Rule.Evaluate` as a function of the state, through
`Matching` (candidates, with the `Turn` in which the code sees each), `Deduplicate`, `KeptByEdits`,
`KeptByPushes`, `Banned` and `Approvers`.  Statuses appear late, in any order, or
never (`Report`).  `arrivedAt` is history: when a commit first came to the pull
request.  `ApprovalEvents` adds the handlers' filters and the dismissal of stale
reviews.

| run | question | bounds |
|---|---|---|
| `ApprovalRule` | does an approved rule have enough approvals by people who may approve (`EnoughMayApprove`), given after the pushes (`ApprovalsFollowPushes`); does it overlook none (`NothingIsOverlooked`); is an approval taken away only for a cause (`RevocationHasACause`)? | 3 people, 4 rules, commits with a force-push and an update merge, 3 changes in 3 seconds |
| `ApprovalEvents` | has every change of the verdict a webhook that is handled (`VerdictChangesAreHandled`), and are dismissals without consequence (`DismissalsChangeNoApproval`)? | 4 rules, 2 facts, 2 changes in 3 seconds |

An approval before, in the second of, and after a push needs three instants; two
candidates of one user and a change of one of them need three changes.

Two runs show documented behaviour the code does not have:

- `ApprovalRuleFeatureMerge`: merging a feature branch in GitHub's UI counts as an
  update merge, since `isUpdateMerge` only sees the first-parent line: an approval of
  second 2 still counts after the merge of second 3 (`NoEarlierApprovalCounts`), against
  README.md:1019-1020.
- `ApprovalRuleLastReview`: an approval counts on after its author has requested changes
  (`LastReviewDecides`), against README.md:990-992: the reviews that are looked at are
  those of the state the method asks for (methods.go:162).

`RevocationHasACause` is about comments and reviews that do not request changes, since
of requests for changes the README and the code say different things.

Other limits appear when a constant changes, and the passing runs exclude them by it:

| run | change | fails | because |
|---|---|---|---|
| `ApprovalRule` | `Listing <- Features`, `Base = {"b1"}`, `Web = {"m"}`, `Rules <- CommentRules` | `EnoughMayApprove` | a commit that a merge brought is off the first-parent line, and its author no contributor (approve.go:201), against approve.go:199; the rule ignores no commits |
| `ApprovalRuleFeatureMerge` | `SharedCommits = {"m"}`, `Web = {}` | `NoEarlierApprovalCounts` | the oldest status of a commit may be older than its push to this pull request, when another branch had it before (github.go:1118) |
| `ApprovalEvents` | `Rules <- EditRules`, `MaxSteps = 3` | `DismissalsChangeNoApproval` | an edited review hides an unedited one of its author (methods.go:187); dismissing it revives the other, and policy-bot ignores the event (pull_request_review.go:43) |
| `ApprovalEvents` | `Rules <- CommentRules` | `VerdictChangesAreHandled` | a review that only comments counts as a comment, but its event has the trigger of reviews (pull_request_review.go:66) |
| `ApprovalEvents` | `Rules <- DefaultRules` | `VerdictChangesAreHandled` | the tampering check does not know the default methods (issue_comment.go:81) |
| `ApprovalEvents` | `ReviewEdits = {"commented"}` | `VerdictChangesAreHandled` | the text such a review had before an edit is not looked at (pull_request_review.go:118-121) |
| `ApprovalEvents` | `Rules <- UpdateRules`, `Listing <- Updates`, `Base = {"b1", "b2"}`, `Web = {"u"}`, `MaxSteps = 3`, `MaxTime = 5` | `VerdictChangesAreHandled` | the first status of an ignored commit moves the push time of those below it that have none, and no event of it leads to an evaluation if it is policy-bot's own (status.go:72) or the rule has no status predicate (approve.go:49-74) |

### Predicates, PolicyTree, PolicyEvents, PolicyStatus

`Predicates` has each predicate of `policy/predicate` as a record of its kind and
parameters, with what it reads of the pull request, the GitHub calls it makes, its
answer ("yes", "no" or "error") and its trigger.  A pattern is the set of names it
matches; an evaluation is given the set of calls that fail.  `PolicyTree` builds
`StatusFor(policy, pr, down)` from it: rules under and/or with skipped, pending,
approved and failed children, disapproval by predicates or people and its
revocation, the validity of a policy file and the depth of its tree, and
`PolicyTrigger`.

`PolicyEvents` is one pull request with such a policy.  Each change of the pull
request adds its webhook to `due`; `Handle` is a handler from the pre-check of
check_run and workflow_run (`ShouldSkip`, over the cached policy) and the filters of
comments and reviews (`AffectsApproval`) to the status.  GitHub lists a workflow run
some time after it told of it (`ListRun`), which is why the handler evaluates with
the run of its payload (`told`).  The policy file changes without a webhook, its
cached copy later.  A webhook may be late and tell of an earlier head (`Finds`): the
payload of pull_request is complete and judged for its own head; that of every other
webhook is not (`IsComplete`, github.go:60-79), so the pull request is loaded and its
present head judged, if the commit still leads to it; a run of the earlier head is then
none of the present one's (`Seen`, github.go:924-925).

`PolicyStatus` is the promise: a state machine of what the policy says, the status
shown, how many webhooks are due and whether the status is by the policy in the
repository.  Handling the last webhook leaves the truth, and all is handled again
and again unless changes never end.  `StatusIsKept` states that `PolicyEvents`
implements it, with `due` mapped to its cardinality and `current` to
`judged = file`; this covers every skip of a handler at once, since a webhook that
matters and is skipped last leaves a status that is not the truth.

| run | question | bounds |
|---|---|---|
| `PolicyEvents` | do the handlers keep the promise (`StatusIsKept`); does a failed call ever approve (`ErrorsNeverApprove`); does a disapproval stand until it is revoked (`DisapprovalStands`)? | 6 pull requests: checks and workflows, a workflow and pushes, people, own data, contents, and a broken policy; 3 changes; up to 2 kinds of calls that fail |

The policies use every kind of predicate, both operators, both kinds of
disapproval and a policy file that does not parse; with three changes a run is
requested, completed and repeated, a disapproval given, revoked and given again, and
a webhook handled between any two.  Fairness is that some due webhook is handled
(`WF_due(Handled)`): the workers take what there is, and the code drops events only
when the queue is full, which is `EvaluationPipeline`'s subject.

Two assumptions are built in.  GitHub lists a run once its webhook has been handled
(`Learn`); a later webhook of another kind would otherwise be evaluated without
it.  And a handler reads the pull request in one step; `EvaluationPipeline` has
the readings apart.  Evaluating without the run of the payload (`Seen` with
`told = {}`), or with it whatever head it is of, violates `StatusIsKept`.  The push runs of a fork's branch name no
pull request in their payload and are skipped: the search by head is made for the
event "pull_request" only (workflow_run.go).

A call fails an evaluation only where the code makes it: a rule without a count asks
for no comments, reviews or commits (approve.go:182-185, 270-272) and is decided by its
predicates and conditions (`Heard`).

What `StatusIsKept` cannot see: the truth it compares with reduces statuses and checks
of one name as the code does, and a status by a policy that has changed since is
excused (`judged # file`).  `DisapprovalStands` accepts either order of a disapproval
and its revocation within one second.

### PushTimes

Push times are estimates: the oldest status of the commit, else of a child that was
pushed with it, else the time the evaluation began.  An evaluation `Ask`s for a
commit of its head's history, looks in its own cache and that of its process
(`TryPushedAt`), then in GitHub (`LoadPushedAt`), and goes on with a child if there is
no status; what it finds is stored for every commit it tried (`Answer`).  Anybody may
report a first status at any time; entries are evicted, processes restart, payloads
are of any earlier head.  `arrivedAt` is history.

| run | question | bounds |
|---|---|---|
| `PushTimes` | is a push time ever before the push (`NeverBeforePush`), and does the head's first status end the wait for every evaluation, whatever the cache was filled with before (`StatusEndsTheWait`)? | 2 commits pushed together or apart, 2 evaluations in one process, 3 seconds |

Two evaluations and two commits reach every order of two fills and a use of the
cache; three seconds hold a push, a status and a use.

The commits of the run are a line.  Two experiments, with other constants, look at
others.  With `Parents <- Amended`, `Shas = {"c1", "c2", "d"}`, one evaluation and no
symmetry, the head is amended and force-pushed, so that `c1` has two children: all
properties hold.  With `Parents <- Merged`, `Shas = {"c", "a", "b", "m"}` and
`FirstHead = "c"`, a branch is merged into the pull request, and `NeverBeforePush` fails:
`nextChildCommit` (github.go:473) takes any child of the commit among those that are
listed now, so that an evaluation of the head `a` goes from its parent `c` to `b` and
`m`, which were pushed after it began, and dates them with its beginning, against
README.md:1095-1096 ("guaranteed to be after the actual push time") and
context.go:99-100 ("must not be before").

A head that is pushed again, after another, is out of the model (`s \notin heads`).

Two processes may still disagree on a push time within these bounds: a process that
asked before the first status keeps the time of its evaluation.

### ReviewRequests

`Select` is an evaluation up to the wait: the rules that are pending and want
reviewers (`FindRequests`), and for each the candidates by mode and the draw
(`SelectReviewers`).  `ReadReviewers` is the end of the wait with
`Selection.Difference`, `Request` the call to GitHub.  The random order is a
constant, `Order`, that says when it is whose turn for each sequence of the lengths of
the lists drawn so far: the code seeds a generator with the creation time, so that a
second draw depends on the length of the first, and on nothing else.  `draws` has
the lists that were drawn from.  People review, withdraw reviews,
assign and remove reviewers, push, convert to draft and back.  Calls fail, wholly or
for the members of a team or organization (`lost`).  `asked`, `draws`, `alone` and
`moved` are history.

| run | question | bounds |
|---|---|---|
| `ReviewRequests` | are no more asked than the rules allow, over all evaluations (`FewAreAsked`); is everyone asked who is needed (`EnoughAreAsked`); is nobody asked twice (`AskedOnce`)? | 5 policies with the three modes, 5 people, 2 evaluations, 2 heads, 3 changes |

Two evaluations suffice for one to act while the other waits; three changes for a
webhook of an old head, a draft and a review in between.

What the properties do not say is where comments of the code promise more than it
does, and their hypotheses name each case:

- Reviews that are left during the wait are not seen, though
  eval_context_reviewers.go:88-89 says so: `Reviews()` answers from the context's cache.
  `AskedOnce` is about evaluations nobody interferes with.
- Comments and reviews do change whom the rules select, against
  eval_context_reviewers.go:38-40, when fewer are requested than required or when an
  approval from outside the draw is withdrawn.  `EnoughAreAsked` excludes approvals
  that changed since (`moved`).
- The same seed does not give the same reviewers (eval_context_reviewers.go:60-62) with
  two random rules, or when a listing failed, as the first draw shifts the second.
  `FewAreAsked` counts per list that was drawn from.
- "There are no assigned reviewers" (README.md:592) is checked nowhere.
- Contributors may be asked though they cannot approve.

## 3. Proofs

`PolicyConfigCacheProofs` proves, for any callers, branches, policies, sizes and
bounds, that `Spec` implies `[]TypeOK`, `[]MapAndListAgree`, `[]SingleFlight`,
`[]LoadsOnlyWhatIsMissing` and `[]WaitersKeepTheirLoad`.  None of the last four
is inductive alone: that storing an entry does not orphan another one needs that
no entry exists while the branch is being loaded, which in turn needs that a
running load is the registered one of its key, and that a caller waits for a load
of its own branch.  Their conjunction with the types is the inductive invariant
(`CacheStaysConsistent`); each action has a lemma that preserves it.  It also proves
the action property `HitsAreRecent`: what a load returned, and what an entry
holds, GitHub held when the load began or later (`RecentInv`), and an entry expires a
TTL after it was stored.  `[]SizeIsAccounted` is by induction on the list: appending,
dropping from the front and removing an element change the sum by the sizes of what
came and went, so the loop that evicts ends (`EvictionAlwaysEnds`).
`[]LeastRecentlyUsedFirst` follows from `RecencyInv`: the list is in the order of the
history `recency`, in which every use moves its key to the end.  The proofs assume
`ConstantsAssumption` only.

`EvaluationPipelineProofs` proves `[]TypeOK` and `[]SettledStatusIsTrue` of
`EvaluationPipeline` from `ConstantsAssumption` and `TriggerAssumption` alone: any
number of workers and requests of the details page side by side, policies that read
titles or not and notice a retarget or not, facts read in any number of calls, commits,
queue, faults, bounds and order of webhooks.  `SettledStatusIsTrue` says nothing of a
system at work, so the invariant (`PipelineInv`) says what is under way:

- `StatusWillBeTrue`: without a doubt, the status is true, or an event that will make it
  true is `Due`, or an evaluation is `Sound`: what it has read so far of its triggers is
  as it is now.
- `EvaluationsAreSound`: an evaluation whose post would leave no doubt (`Trusted`) is
  sound, or an event that counts is due, or a sound one began after it (`SoundLater`).
  This is where evaluations side by side need more than one alone does: the one that
  read the older state is not sound; another makes up for it, and if that one posts
  first, what is posted after it is `overtaken`.
- `WholeAreLater` and `Orderly`: whoever is whole began after everybody who is not,
  nobody began after himself, and the failure that replaces a forged status is no
  evaluation.  Without this an evaluation could end a doubt and leave one behind that
  lost something and is not marked as late.
- `HeadIsCommit` and `OverwrittenAreForged`: the head is a commit of the pull request,
  and an event of a forged status is of a context in `forged`.

A change either brings an event that `Counts` or leaves the expected status alone,
which is where `TriggerAssumption` is used (`ExpectedDependsOnTriggers`,
`ChangeKeepsInv`).  The doubts are part of the property, not hypotheses: section 2 says
why none can be spared.

It also proves `[]SuccessIsEarned` without limiting the workers, the
viewers or the order of webhooks, for policies all of whose facts one query reads
(`OneQuery`: comments and reviews, or one other kind) and to which titles do not
matter (`TitlesDoNotMatter`).  The invariant (`EarnedInv`) follows a verdict from the moment of that query:
the commit an evaluation is of was head then or is `former` since, so that a success
it finds for the head was the policy's verdict at that moment, or is about a
commit that is head no longer (`Deserved`).  The last two experiments of section 2
show that both hypotheses are needed.

`PushTimesProofs` proves `[]TypeOK`, `[]NeverBeforePush` and `[]StatusEndsTheWait` of
`PushTimes` for any commits, evaluations, processes and clock.  The last two assume
`NoMerges`, that no commit has two parents in the pull request, without which the first
is false (section 2); force-pushes and amended commits are covered.  The
invariant (`PushInv`) says that every time that is cached or used is `Sound`: not before the
commit's arrival, and, for a commit no other head follows, not after its first
status; and that a walk has tried nothing but commits below the one it is at, which
is below its head, so that one status dates them all (`Walks`).

`ReviewRequestsProofs` proves `AskedOnce` and `[]EnoughAreAsked` for any rules,
people, evaluations and draws.  The draw stays opaque: `AskInv` says that whoever was
asked is still requested, removed or has reviewed; `EnoughInv`
that, unless the pull request moved or is a draft, whom the rules select is settled (requested,
removed or has reviewed the head) or an evaluation of the head is on its way to ask
all who are not. With
`RequestsInv` it proves `[]TypeOK` and `[]FewAreAsked`, too: everybody who was
asked, or is about to be, is a collaborator other than the author and has a place in a
list that was drawn from, counted by the draw's order from the first to the last that
the rule may ask for (`HasPlace`).  An evaluation that leaves out those who approved
asks for as many fewer, so nobody's place grows (`DrawnAreFirst`); places of a
list differ, and there are no more people than places.

`PolicyEventsProofs` proves `[]TypeOK`, `[]ErrorsNeverApprove` and
`[]DisapprovalStands` of `PolicyEvents` for any valid policies, pull requests, events
and failing calls.  A call that fails makes the answer of each predicate an error or
leaves it (`Weakens`), and an error, or a pending child in place of another outcome,
never makes a rule or a node of the tree approve (`Weak`), by induction over the tree;
a disapproval that stands is the last of its kind, whatever is revoked by another.

`PolicyStatusProofs` proves that `Spec` of `PolicyEvents` implies `Promise!Safety`
(`HandlersKeepThePromise`): every step is one of `PolicyStatus`, or none.  Two things
are to be shown.  A webhook that a handler skips tells of something the policy does not
read: for each reason to skip there is a lemma that the status is the same on both
sides of the change.  Without the trigger among those of the policy it is
`UntriggeredChangesNothing`, without the name `UnnamedStatusChangesNothing` and
`UnnamedRunChangesNothing`, and of a comment or review that no method looks for
`UnheardVoiceChangesNothing`; they rest on what each predicate and method reads
(`EvaluateReads`, `StatusReads`).  And an evaluation with a list of workflow runs that is
behind is not the last one: each run is listed as it is now or an event that is due
tells of it, and what else is listed was true of it once (`RunsInv`), which changes no
conclusion (`VersionsChangeNothing`).  So the invariant, `PromiseInv`: where the status
is by the policy in the repository and not the truth, an event is due that will be
evaluated.  Policies, pull requests, changes, their number and the order of
handlers are arbitrary; like all proofs about `PolicyEvents` it assumes
`ScenariosAssumption`: policies have the shape of the parsed file (`IsPolicy`), and
the pull request starts without workflow runs.

`ApprovalRuleProofs` proves the properties of `ApprovalRule` and `ApprovalEvents` for
any commits, people, rules, texts and times.  The invariant (`RuleInv`) dates things:
nothing is from the future, a commit came no later than its descendants, and a
status no earlier than its commit.  Below it are the lemmas on `sortCommits` (the sorted
commits are a line of history that ends at the base branch), on the walk of push
times (each is the status of a commit that followed, `Times`), and on candidates
(of each user at most one survives, the latest).  The hypotheses are the limits of
the code that section 2 shows by experiment, each needed:

| theorem | assumes | otherwise |
|---|---|---|
| `RuleKeepsTypes`, `RevocationsHaveACause` | nothing | |
| `EnoughPeopleMayApprove` | no branch but the base was merged (`NoFeatureMerges`) | contributors are missed (section 2) |
| `ApprovalsAlwaysFollowPushes` | the same, and no commit is on another branch (`SharedCommits = {}`) | a merge counts as an update (`ApprovalRuleFeatureMerge`), a status predates the push |
| `NobodysApprovalIsOverlooked`, `DismissalsLeaveApprovalsAlone` | no rule ignores edited comments | an edited approval hides an earlier one |
| `ChangesAreHandled` | `Hears`: rules that take comments name their methods and take reviews too, rules that invalidate on push ignore no commits; and the texts of reviews that only comment are not edited | the four experiments on `VerdictChangesAreHandled` |

`WellFounded` is what stands in for induction over data: a nonempty set has an element
of least rank, so a set that takes in each element whose lower ones it has is everything;
and a recursive function whose body looks only at arguments of lower rank exists
(`RecursionHasSolution`).  Sums of sizes, histories of commits, push times, policy
trees and lists of draws are reasoned about with it.

Only model-checked is liveness, which the prover cannot reason about:
`EveryLookupReturns`, `StatusBecomesTrue` and, of the refinement `StatusIsKept`, that
all webhooks are handled again and again.

## 4. What is not modelled

The membership contexts are read-through caches
that live for one evaluation (membership is a fixed set of users, and its errors are
calls that fail); merge_group and
installation handlers post one constant status; simulation evaluates a copy and
posts nothing; pages, login, configuration, options, metrics and the vendored libraries,
apart from the scheduler, have no logic of the system's own.  Changes of team or
organization membership cause no webhook policy-bot handles, and are left out of
`VerdictChangesAreHandled` and `PolicyEvents`.

A listing of GitHub is one call: the loops over its pages are not modelled.  One of
them is wrong as it stands: the query of requested reviewers takes `requestCursor`,
the loop advances `reviewCursor` (github.go:739), so that a pull request with more
than a page of requests is not read to its end.

## 5. What is left

The modules cover the parts that decide a status or act on GitHub, except the
constant ones of section 4.  Worth adding, in this order:

1. The composition of `PushTimes` with `ApprovalRule`: verdicts of two processes that
   disagree on a push time.
2. Evaluations of several pull requests that share the queue and the policy cache.
