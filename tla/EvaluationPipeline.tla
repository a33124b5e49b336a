------------------------- MODULE EvaluationPipeline -------------------------
(***************************************************************************)
(* From a change of a pull request on GitHub to the commit status that     *)
(* reports it: webhook deliveries, the bounded queue and its workers       *)
(* (server/server.go), the event handlers and EvalContext                  *)
(* (server/handler), and the pull request as pull.GitHubContext reads it.  *)
(*                                                                         *)
(* One pull request is followed.  What its policy decides is the constant  *)
(* Judge; what a policy decides and when it declares a trigger is the      *)
(* subject of other modules.                                               *)
(***************************************************************************)
EXTENDS Naturals, Sequences

CONSTANTS
  Workers,        \* goroutines of the QueueAsyncScheduler
  Viewers,        \* HTTP requests for the details page
  Shas, Bases, Titles,
  Kinds,          \* the kinds of facts a policy reads, besides commits
  Values,         \* what a fact can be
  Policy,         \* the policy of each base branch: valid, invalid or missing
  PolicyTrigger,  \* Evaluator.Trigger() of each base branch
  Judge,          \* what the policy of a base says of a title, a head and facts
  QueueSize,      \* Workers.QueueSize
  Reordering,     \* whether webhooks may arrive out of order
  MaxChanges,     \* bound of the changes people make
  MaxFaults       \* bound of the crashes and API errors

Evaluators == Workers \union Viewers
Contexts == Shas \X Bases    \* a commit, and the "<context>: <base>" status on it
Triggers == {"commit", "comment", "review", "label", "status", "pull_request"}
Results == {"approved", "disapproved", "pending", "skipped", "broken"}
States == {"none", "success", "failure", "pending", "error"}
Facts == [Kinds -> Values]
Snapshots == [open : BOOLEAN, base : Bases, title : Titles, head : Shas]

(***************************************************************************)
(* An event has the trigger its handler evaluates with, and the pull       *)
(* request of its payload.  "payload" events (pull_request) carry a        *)
(* complete pull request; "live" events (pull_request_review,              *)
(* issue_comment) make the handler load it; "status" and "overwritten"     *)
(* events carry a commit and, for the latter, a context of policy-bot.     *)
(***************************************************************************)
Events == [type : {"payload", "live", "status", "overwritten"},
           trigger : SUBSET Triggers, snap : Snapshots]

(* One GraphQL query reads commits, comments and reviews together. *)
Paged == {"comment", "review"}
Groups == {"paged"} \union (Kinds \ Paged)

ASSUME ConstantsAssumption ==
  /\ Kinds \subseteq {"comment", "review", "label", "status"}
  /\ Shas # {} /\ Bases # {} /\ Titles # {} /\ Values # {}
  /\ Policy \in [Bases -> {"valid", "invalid", "missing"}]
  /\ PolicyTrigger \in [Bases -> SUBSET Triggers]
  /\ Judge \in [Bases \X Titles \X Shas \X Facts -> Results]
  /\ QueueSize \in Nat \ {0} /\ MaxChanges \in Nat /\ MaxFaults \in Nat
  /\ Reordering \in BOOLEAN

(***************************************************************************)
(* What Trigger() promises: facts and titles of kinds outside the trigger  *)
(* do not matter.  Every rule and the disapproval policy declare           *)
(* TriggerCommit.                                                          *)
(***************************************************************************)
ASSUME TriggerAssumption ==
  \A b \in Bases :
    /\ "commit" \in PolicyTrigger[b]
    /\ \A t, u \in Titles, s \in Shas, f, g \in Facts :
         /\ "pull_request" \in PolicyTrigger[b] => t = u
         /\ \A k \in Kinds \intersect PolicyTrigger[b] : f[k] = g[k]
         => Judge[<<b, t, s, f>>] = Judge[<<b, u, s, g>>]

VARIABLES
  pr,          \* the pull request at GitHub
  checks,      \* the result of other people's checks, per commit
  statuses,    \* policy-bot's statuses at GitHub
  deliveries,  \* webhooks GitHub has yet to deliver
  queue,       \* the scheduler's channel
  worker,      \* what each worker or viewer is doing
  seenPolicy,  \* SeenPolicyCache
  changes,     \* counts the changes made so far
  faults,      \* counts the faults so far
  doubt,       \* history: a reason why the status of the head may stay wrong
  earned,      \* history: contexts their policy approved while their commit was head
  former,      \* history: commits that were head before
  forged       \* history: contexts somebody else wrote

github == <<pr, checks, statuses>>
history == <<doubt, earned, former, forged>>
vars == <<pr, checks, statuses, deliveries, queue, worker, seenPolicy, changes,
          faults, doubt, earned, former, forged>>

Snapshot(p) == [open |-> p.open, base |-> p.base, title |-> p.title, head |-> p.head]

Context(snap) == <<snap.head, snap.base>>

(* What an evaluation of commit s would read now. *)
FactsOf(p, c, s) == [k \in Kinds |-> IF k = "status" THEN c[s] ELSE p.facts[k]]

(* Mistaken: the result's own name is posted. *)
NameOf(result) == result

(* EvaluatePolicy: the state of the status for a result. *)
StatusFor(result) ==
  CASE result = "approved" -> "success"
    [] result = "disapproved" -> "failure"
    [] result = "pending" -> "pending"
    [] result \in {"skipped", "broken"} -> "error"

Verdict(b, t, s, f) == StatusFor(Judge[<<b, t, s, f>>])

(* The contexts of the head commit whose policies approve it as it is now. *)
Approved(p, c) ==
  {<<p.head, b>> : b \in {a \in Bases :
     /\ Policy[a] = "valid"
     /\ Verdict(a, p.title, p.head, FactsOf(p, c, p.head)) = "success"}}

Event(type, trigger, snap) == [type |-> type, trigger |-> trigger, snap |-> snap]

NoSnapshot == [open |-> FALSE, base |-> CHOOSE b \in Bases : TRUE,
               title |-> CHOOSE t \in Titles : TRUE, head |-> CHOOSE s \in Shas : TRUE]

NoFacts == [k \in Kinds |-> CHOOSE v \in Values : TRUE]

Idle == [stage |-> "idle", event |-> Event("live", {}, NoSnapshot), snap |-> NoSnapshot,
         unread |-> {}, tip |-> NoSnapshot.head, seen |-> NoFacts, state |-> "none",
         whole |-> FALSE, later |-> {}, overtaken |-> FALSE]

WorkerStates == [stage : {"idle", "taken", "reading", "posting"}, event : Events,
                 snap : Snapshots, unread : SUBSET Groups, tip : Shas, seen : Facts,
                 state : States,
                 whole : BOOLEAN,              \* history: began after the last loss
                 later : SUBSET Evaluators,    \* history: began after this one
                 overtaken : BOOLEAN]          \* history: one of those posted before it

DropAt(s, i) == [j \in 1..(Len(s) - 1) |-> IF j < i THEN s[j] ELSE s[j + 1]]

-----------------------------------------------------------------------------
(***************************************************************************)
(* People.  Every change of the pull request emits an event; the handlers  *)
(* ignore the events of a closed pull request ("closed"), so none is made. *)
(***************************************************************************)
Opened(snap) == Event("payload", {"commit", "pull_request"}, snap)

Init ==
  /\ \E b \in Bases, t \in Titles, s \in Shas :
       pr = [open |-> TRUE, base |-> b, title |-> t, head |-> s, commits |-> {s},
             facts |-> NoFacts]
  /\ checks = [s \in Shas |-> CHOOSE v \in Values : TRUE]
  /\ statuses = [c \in Contexts |-> "none"]
  /\ deliveries = <<Opened(Snapshot(pr))>>
  /\ queue = <<>>
  /\ worker = [w \in Evaluators |-> Idle]
  /\ seenPolicy = {}
  /\ changes = 0
  /\ faults = 0
  /\ doubt = FALSE
  /\ earned = Approved(pr, checks)
  /\ former = {}
  /\ forged = {}

(* After a loss, only an evaluation that starts later is whole. *)
Doubted == [w \in Evaluators |-> [worker[w] EXCEPT !.whole = FALSE]]

Emit(p, c, e) ==
  /\ changes < MaxChanges
  /\ changes' = changes + 1
  /\ pr' = p
  /\ checks' = c
  /\ deliveries' = Append(deliveries, e)
  /\ earned' = earned \union Approved(p, c)
  /\ former' = IF p.head = pr.head THEN former ELSE former \union {pr.head}

Change(p, c, e) ==
  /\ Emit(p, c, e)
  /\ UNCHANGED <<statuses, queue, worker, seenPolicy, faults, doubt, forged>>

(* A push moves the head; a force-push also drops the commits before it. *)
Push(s) ==
  /\ pr.open
  /\ s # pr.head
  /\ \E kept \in {pr.commits, {}} :
       LET p == [pr EXCEPT !.head = s, !.commits = kept \union {s}]
       IN  Change(p, checks, Event("payload", {"commit"}, Snapshot(p)))

(* A comment, a review or a label; the status kind is Check. *)
Discuss(k) ==
  /\ k # "status"
  /\ \E v \in Values \ {pr.facts[k]} :
       Change([pr EXCEPT !.facts[k] = v], checks,
              IF k = "label" THEN Event("payload", {k}, Snapshot(pr))
                             ELSE Event("live", {k}, NoSnapshot))

(* A status or check result of another app on one of the commits. *)
Check(s) ==
  /\ "status" \in Kinds
  /\ \E v \in Values \ {checks[s]} :
       Change(pr, [checks EXCEPT ![s] = v],
              Event("status", {"status"}, [NoSnapshot EXCEPT !.head = s]))

(* A policy that does not ask for "pull_request" is not evaluated when the  *)
(* pull request gets its branch.                                           *)
Unnoticed(b) ==
  b # pr.base /\ Policy[b] = "valid" /\ "pull_request" \notin PolicyTrigger[b]

Edit ==
  \E b \in Bases, t \in Titles :
    LET p == [pr EXCEPT !.base = b, !.title = t]
    IN  /\ p # pr
        /\ Emit(p, checks, Event("payload", {"pull_request"}, Snapshot(p)))
        /\ doubt' = (doubt \/ Unnoticed(b))
        /\ worker' = IF Unnoticed(b) THEN Doubted ELSE worker
        /\ UNCHANGED <<statuses, queue, seenPolicy, faults, forged>>

Close ==
  /\ pr.open
  /\ pr' = [pr EXCEPT !.open = FALSE]
  /\ UNCHANGED <<checks, statuses, deliveries, queue, worker, seenPolicy, changes,
                 faults, history>>

Reopen ==
  /\ ~pr.open
  /\ LET p == [pr EXCEPT !.open = TRUE]
     IN  Change(p, checks, Opened(Snapshot(p)))

(* Anyone with write access can post a status with policy-bot's context. *)
Forge(c) ==
  /\ changes < MaxChanges
  /\ changes' = changes + 1
  /\ statuses' = [statuses EXCEPT ![c] = "success"]
  /\ forged' = forged \union {c}
  /\ deliveries' = Append(deliveries,
       Event("overwritten", {}, [NoSnapshot EXCEPT !.head = c[1], !.base = c[2]]))
  /\ UNCHANGED <<pr, checks, queue, worker, seenPolicy, faults, doubt, earned, former>>

-----------------------------------------------------------------------------
(***************************************************************************)
(* The webhook endpoint and the QueueAsyncScheduler.                       *)
(***************************************************************************)
Arrives(i) == i \in 1..Len(deliveries) /\ (Reordering \/ i = 1)

Schedule(i) ==
  /\ Arrives(i)
  /\ Len(queue) < QueueSize
  /\ queue' = Append(queue, deliveries[i])
  /\ deliveries' = DropAt(deliveries, i)
  /\ UNCHANGED <<github, worker, seenPolicy, changes, faults, history>>

(* Schedule returns ErrCapacityExceeded; the event is gone. *)
DropEvent(i) ==
  /\ Arrives(i)
  /\ Len(queue) >= QueueSize
  /\ deliveries' = DropAt(deliveries, i)
  /\ worker' = Doubted
  /\ doubt' = TRUE
  /\ UNCHANGED <<github, queue, seenPolicy, changes, faults, earned, former, forged>>

(* Mistaken: a worker takes the latest event. *)
TakeLatest(w) ==
  /\ w \in Workers
  /\ worker[w].stage = "idle"
  /\ queue # <<>>
  /\ LET e == queue[Len(queue)]
     IN  worker' = [worker EXCEPT ![w] =
           IF e.type = "overwritten"
             THEN [Idle EXCEPT !.stage = "posting", !.event = e, !.state = "failure",
                               !.snap = [e.snap EXCEPT !.open = TRUE]]
             ELSE [Idle EXCEPT !.stage = "taken", !.event = e]]
  /\ queue' = DropAt(queue, Len(queue))
  /\ UNCHANGED <<github, deliveries, seenPolicy, changes, faults, history>>

(* A worker takes the next event; processOwn only replaces the status. *)
Take(w) ==
  /\ w \in Workers
  /\ worker[w].stage = "idle"
  /\ queue # <<>>
  /\ LET e == Head(queue)
     IN  worker' = [worker EXCEPT ![w] =
           IF e.type = "overwritten"
             THEN [Idle EXCEPT !.stage = "posting", !.event = e, !.state = "failure",
                               !.snap = [e.snap EXCEPT !.open = TRUE]]
             ELSE [Idle EXCEPT !.stage = "taken", !.event = e]]
  /\ queue' = Tail(queue)
  /\ UNCHANGED <<github, deliveries, seenPolicy, changes, faults, history>>

(* Details.ServeHTTP evaluates with TriggerAll, outside the queue. *)
View(v) ==
  /\ v \in Viewers
  /\ worker[v].stage = "idle"
  /\ worker' = [worker EXCEPT ![v] =
       [Idle EXCEPT !.stage = "taken", !.event = Event("live", Triggers, NoSnapshot)]]
  /\ UNCHANGED <<github, deliveries, queue, seenPolicy, changes, faults, history>>

-----------------------------------------------------------------------------
(***************************************************************************)
(* The handlers.  NewEvalContext takes the pull request from a complete    *)
(* payload and loads any other, then fetches the policy of its base.       *)
(***************************************************************************)
(* Mistaken: the payload's pull request is used whether or not complete. *)
LocatedInPayload(e) == e.snap

Located(e) == IF e.type = "payload" THEN e.snap ELSE Snapshot(pr)

(* processOthers evaluates the open pull requests that have the commit. *)
Listed(e) == e.type # "status" \/ (pr.open /\ e.snap.head \in pr.commits)

Finish(w) == worker' = [worker EXCEPT ![w] = Idle]

PostNext(w, snap, state) ==
  worker' = [worker EXCEPT ![w].stage = "posting", ![w].snap = snap, ![w].state = state,
                           ![w].unread = {}]

SawPolicy(b) ==
  seenPolicy' = IF Policy[b] = "missing" THEN seenPolicy ELSE seenPolicy \union {b}

(* ParseConfig returns no evaluator, or there is no pull request. *)
Skip(w) ==
  LET e == worker[w].event
      b == Located(e).base
  IN
  /\ worker[w].stage = "taken"
  /\ Finish(w)
  /\ \/ ~Listed(e) /\ UNCHANGED seenPolicy
     \/ /\ Listed(e)
        /\ \/ Policy[b] = "missing"
           \/ Policy[b] = "valid" /\ e.trigger \intersect PolicyTrigger[b] = {}
        /\ SawPolicy(b)
  /\ UNCHANGED <<github, deliveries, queue, changes, faults, history>>

(* The evaluator w is at work on next, after all who are at work now. *)
UnderWay(w) == worker[w].stage \in {"reading", "posting"}

Begin(w, next) ==
  worker' = [v \in Evaluators |->
    IF v = w THEN [next EXCEPT !.whole = TRUE]
    ELSE IF UnderWay(v) THEN [worker[v] EXCEPT !.later = @ \union {w}]
    ELSE worker[v]]

(* ParseConfig: a ParseError, whatever the trigger. *)
RejectPolicy(w) ==
  LET snap == Located(worker[w].event)
  IN
  /\ worker[w].stage = "taken"
  /\ Listed(worker[w].event)
  /\ Policy[snap.base] = "invalid"
  /\ SawPolicy(snap.base)
  /\ Begin(w, [worker[w] EXCEPT !.stage = "posting", !.snap = snap, !.state = "error"])
  /\ UNCHANGED <<github, deliveries, queue, changes, faults, history>>

(* ParseConfig returns the evaluator. *)
StartEvaluation(w) ==
  LET e == worker[w].event
      snap == Located(e)
  IN
  /\ worker[w].stage = "taken"
  /\ Listed(e)
  /\ Policy[snap.base] = "valid"
  /\ e.trigger \intersect PolicyTrigger[snap.base] # {}
  /\ SawPolicy(snap.base)
  /\ Begin(w, [worker[w] EXCEPT !.stage = "reading", !.snap = snap, !.unread = Groups])
  /\ UNCHANGED <<github, deliveries, queue, changes, faults, history>>

(***************************************************************************)
(* The evaluation reads GitHub in several calls, in the order its rules    *)
(* need them; after the last call the result is known.  Comments, reviews  *)
(* and commits are those of the pull request now, statuses those of the    *)
(* evaluated commit.  processCommits fails when that commit is gone.       *)
(***************************************************************************)
Read(w, g) ==
  LET s == worker[w].snap
      now == FactsOf(pr, checks, s.head)
      inGroup(k) == IF g = "paged" THEN k \in Paged ELSE k = g
      tip == IF g = "paged" THEN pr.head ELSE worker[w].tip
      seen == [k \in Kinds |-> IF inGroup(k) THEN now[k] ELSE worker[w].seen[k]]
      left == worker[w].unread \ {g}
  IN
  /\ worker[w].stage = "reading"
  /\ g \in worker[w].unread
  /\ IF g = "paged" /\ s.head \notin pr.commits
       THEN PostNext(w, s, "error")
       ELSE worker' = [worker EXCEPT
              ![w].unread = left, ![w].tip = tip, ![w].seen = seen,
              ![w].stage = IF left = {} THEN "posting" ELSE "reading",
              ![w].state = IF left = {} THEN Verdict(s.base, s.title, tip, seen) ELSE @]
  /\ UNCHANGED <<github, deliveries, queue, seenPolicy, changes, faults, history>>

(* A policy that reads the title reads the one of the payload. *)
ReadsTitle(b) == Policy[b] = "valid" /\ "pull_request" \in PolicyTrigger[b]

TitleIsCurrent(snap) == ReadsTitle(snap.base) => snap.title = pr.title

(* The failure that replaces a forged status is no evaluation. *)
Evaluates(w) == worker[w].event.type # "overwritten"

(* Those who began before w, and are at work on the same status, come late. *)
FinishBefore(w) ==
  worker' = [v \in Evaluators |->
    IF v = w THEN Idle
    ELSE IF /\ w \in worker[v].later /\ Evaluates(w) /\ worker[w].snap.open
            /\ Context(worker[v].snap) = Context(worker[w].snap)
      THEN [worker[v] EXCEPT !.overtaken = TRUE]
      ELSE worker[v]]

(* What is posted on the head ends all doubt, unless it comes late. *)
Doubtful(w) ==
  \/ doubt /\ ~worker[w].whole
  \/ Evaluates(w) /\ (worker[w].overtaken \/ ~TitleIsCurrent(worker[w].snap))

(* Mistaken: the status goes to the commit that is head by now. *)
PostOnHead(w) ==
  /\ worker[w].stage = "posting"
  /\ statuses' = [statuses EXCEPT ![Context(pr)] = worker[w].state]
  /\ doubt' = Doubtful(w)
  /\ FinishBefore(w)
  /\ UNCHANGED <<pr, checks, deliveries, queue, seenPolicy, changes, faults, earned,
                 former, forged>>

(* PostStatus; it does nothing for a pull request it believes closed. *)
Post(w) ==
  LET c == Context(worker[w].snap)
  IN
  /\ worker[w].stage = "posting"
  /\ statuses' = IF worker[w].snap.open
                   THEN [statuses EXCEPT ![c] = worker[w].state]
                   ELSE statuses
  /\ doubt' = IF worker[w].snap.open /\ c = Context(pr) THEN Doubtful(w) ELSE doubt
  /\ FinishBefore(w)
  /\ UNCHANGED <<pr, checks, deliveries, queue, seenPolicy, changes, faults, earned,
                 former, forged>>

-----------------------------------------------------------------------------
(***************************************************************************)
(* Faults.                                                                 *)
(***************************************************************************)
Fault ==
  /\ faults < MaxFaults
  /\ faults' = faults + 1
  /\ doubt' = TRUE
  /\ UNCHANGED <<github, deliveries, changes, earned, former, forged>>

(* The pull request cannot be loaded (NewEvalContext, listings), or its     *)
(* policy cannot: then ParseConfig posts an error if the branch is known to *)
(* have a policy.                                                           *)
LoadFails(w) ==
  LET snap == Located(worker[w].event)
      error == [worker[w] EXCEPT !.stage = "posting", !.snap = snap, !.state = "error"]
  IN
  /\ worker[w].stage = "taken"
  /\ Fault
  /\ \/ worker' = [Doubted EXCEPT ![w] = Idle]
     \/ /\ Listed(worker[w].event) /\ snap.base \in seenPolicy
        /\ worker' = [Doubted EXCEPT ![w] = error]
  /\ UNCHANGED <<queue, seenPolicy>>

(* A call of the evaluation fails, which EvaluatePolicy reports. *)
ReadFails(w) ==
  /\ worker[w].stage = "reading"
  /\ Fault
  /\ worker' = [Doubted EXCEPT ![w] =
       [worker[w] EXCEPT !.stage = "posting", !.state = "error", !.unread = {},
                         !.whole = FALSE]]
  /\ UNCHANGED <<queue, seenPolicy>>

(* CreateStatus fails, which is only logged. *)
PostFails(w) ==
  /\ worker[w].stage = "posting"
  /\ Fault
  /\ worker' = [Doubted EXCEPT ![w] = Idle]
  /\ UNCHANGED <<queue, seenPolicy>>

(* The server restarts: queue, workers and SeenPolicyCache start afresh. *)
Restart ==
  /\ Fault
  /\ queue' = <<>>
  /\ worker' = [w \in Evaluators |-> Idle]
  /\ seenPolicy' = {}

-----------------------------------------------------------------------------
Handle(w) == Skip(w) \/ RejectPolicy(w) \/ StartEvaluation(w) \/ Post(w)
             \/ \E g \in Groups : Read(w, g)

People ==
  \/ \E s \in Shas : Push(s) \/ Check(s)
  \/ \E k \in Kinds : Discuss(k)
  \/ Edit \/ Close \/ Reopen
  \/ \E c \in Contexts : Forge(c)

Deliver == \E i \in 1..Len(deliveries) : Schedule(i) \/ DropEvent(i)

Next ==
  \/ People
  \/ Deliver
  \/ \E w \in Evaluators :
       Take(w) \/ View(w) \/ Handle(w) \/ LoadFails(w) \/ ReadFails(w) \/ PostFails(w)
  \/ Restart

Spec == Init /\ [][Next]_vars

(***************************************************************************)
(* GitHub delivers its webhooks, the workers' goroutines run, and API      *)
(* calls return.  Nothing makes people act, or a fault happen.             *)
(***************************************************************************)
Fairness ==
  /\ WF_vars(Deliver)
  /\ \A w \in Workers : WF_vars(Take(w)) /\ WF_vars(Handle(w))

FairSpec == Spec /\ Fairness

-----------------------------------------------------------------------------
TypeOK ==
  /\ pr \in [open : BOOLEAN, base : Bases, title : Titles, head : Shas,
             commits : SUBSET Shas, facts : Facts]
  /\ checks \in [Shas -> Values]
  /\ statuses \in [Contexts -> States]
  /\ deliveries \in Seq(Events)
  /\ queue \in Seq(Events) /\ Len(queue) <= QueueSize
  /\ worker \in [Evaluators -> WorkerStates]
  /\ seenPolicy \subseteq Bases
  /\ changes \in Nat /\ faults \in Nat /\ doubt \in BOOLEAN
  /\ earned \subseteq Contexts /\ former \subseteq Shas /\ forged \subseteq Contexts

(* No event is on its way and nothing is being evaluated. *)
Settled ==
  /\ deliveries = <<>>
  /\ queue = <<>>
  /\ \A w \in Evaluators : worker[w].stage = "idle"

(* What the status of the head commit should be. *)
Expected ==
  IF Policy[pr.base] = "invalid" THEN "error"
  ELSE Verdict(pr.base, pr.title, pr.head, FactsOf(pr, checks, pr.head))

(* The status tells the truth, or is the failure that replaced a forgery. *)
StatusIsTrue ==
  \/ statuses[Context(pr)] = Expected
  \/ Context(pr) \in forged /\ statuses[Context(pr)] = "failure"

(***************************************************************************)
(* Once every event has been handled, the status of an open pull request   *)
(* is what its policy says of it, however many evaluations ran side by     *)
(* side and in whatever order the webhooks came.  The doubts are that,     *)
(* since the last evaluation began that was posted, an event or a call was *)
(* lost or the base branch changed unnoticed, and that what was posted     *)
(* last came late, or was for an old title.                                *)
(***************************************************************************)
SettledStatusIsTrue ==
  Settled /\ ~doubt /\ pr.open /\ Policy[pr.base] # "missing" => StatusIsTrue

(***************************************************************************)
(* Whatever was lost, repeated or overtaken, policy-bot's success on a     *)
(* head commit means the policy approved that commit at some moment.       *)
(***************************************************************************)
SuccessIsEarned ==
  /\ statuses[Context(pr)] = "success"
  /\ pr.head \notin former
  /\ Context(pr) \notin forged
  => Context(pr) \in earned

(***************************************************************************)
(* A pull request that people leave alone gets a true status for good, if  *)
(* nothing is lost and one worker handles the webhooks in their order.     *)
(***************************************************************************)
StatusBecomesTrue ==
  <>[](~pr.open \/ Policy[pr.base] = "missing" \/ StatusIsTrue)
=============================================================================
