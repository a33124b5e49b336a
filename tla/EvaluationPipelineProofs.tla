---------------------- MODULE EvaluationPipelineProofs ----------------------
(***************************************************************************)
(* The status of a pull request is true once everything is handled, for    *)
(* any commits, facts, policies, any order of webhooks and any number of   *)
(* evaluations side by side, unless a doubt is on record; and races never  *)
(* invent a success.                                                       *)
(***************************************************************************)
EXTENDS EvaluationPipeline, TLAPS

-----------------------------------------------------------------------------
(***************************************************************************)
(* Types.                                                                  *)
(***************************************************************************)
LEMMA SnapshotsAreTyped ==
  /\ NoSnapshot \in Snapshots
  /\ NoFacts \in Facts
  /\ Idle \in WorkerStates
  /\ TypeOK => Snapshot(pr) \in Snapshots
<1>1. /\ (CHOOSE b \in Bases : TRUE) \in Bases
      /\ (CHOOSE t \in Titles : TRUE) \in Titles
      /\ (CHOOSE s \in Shas : TRUE) \in Shas
      /\ (CHOOSE v \in Values : TRUE) \in Values
  BY ConstantsAssumption
<1>2. NoSnapshot \in Snapshots /\ NoFacts \in Facts
  BY <1>1 DEF NoSnapshot, Snapshots, NoFacts, Facts
<1>3. Event("live", {}, NoSnapshot) \in Events
  BY <1>2 DEF Event, Events
<1>4. NoSnapshot.head \in Shas
  BY <1>2 DEF Snapshots
<1>5. Idle \in WorkerStates
  BY <1>2, <1>3, <1>4 DEF Idle, WorkerStates, States
<1>6. TypeOK => Snapshot(pr) \in Snapshots
  BY DEF TypeOK, Snapshot, Snapshots
<1>7. QED
  BY <1>2, <1>5, <1>6

LEMMA FactsAreTyped ==
  ASSUME NEW p, NEW c, NEW s \in Shas,
         p.facts \in Facts, c \in [Shas -> Values]
  PROVE  FactsOf(p, c, s) \in Facts
BY DEF FactsOf, Facts

LEMMA VerdictIsTyped ==
  ASSUME NEW b \in Bases, NEW t \in Titles, NEW s \in Shas, NEW f \in Facts
  PROVE  Verdict(b, t, s, f) \in States
<1>1. Judge[<<b, t, s, f>>] \in Results
  BY ConstantsAssumption
<1>2. QED
  BY <1>1 DEF Verdict, StatusFor, Results, States

LEMMA EventsAreTyped ==
  ASSUME NEW snap \in Snapshots
  PROVE  /\ \A type \in {"payload", "live", "status", "overwritten"},
              trigger \in SUBSET Triggers : Event(type, trigger, snap) \in Events
         /\ Opened(snap) \in Events
BY DEF Event, Events, Opened, Triggers, Snapshots

(* Removing an element of a sequence leaves a sequence of the others.       *)
LEMMA DropAtProperties ==
  ASSUME NEW S, NEW s \in Seq(S), NEW p \in 1..Len(s)
  PROVE  /\ DropAt(s, p) \in Seq(S)
         /\ Len(DropAt(s, p)) = Len(s) - 1
         /\ \A i \in 1..(Len(s) - 1) : DropAt(s, p)[i] = IF i < p THEN s[i] ELSE s[i + 1]
<1>1. Len(s) - 1 \in Nat
  OBVIOUS
<1>2. \A i \in 1..(Len(s) - 1) : (IF i < p THEN s[i] ELSE s[i + 1]) \in S
  OBVIOUS
<1>3. QED
  BY <1>1, <1>2 DEF DropAt

LEMMA ApprovedIsTyped ==
  ASSUME NEW p, NEW c, p.head \in Shas PROVE Approved(p, c) \subseteq Contexts
BY DEF Approved, Contexts

(* What evaluators learn of one another: later, whole and overtaken.        *)
Kin(m, n) ==
  /\ n.stage = m.stage /\ n.event = m.event /\ n.snap = m.snap /\ n.unread = m.unread
  /\ n.tip = m.tip /\ n.seen = m.seen /\ n.state = m.state
  /\ m.later \subseteq n.later /\ (n.whole => m.whole) /\ (m.overtaken => n.overtaken)

LEMMA LaterIsTyped ==
  ASSUME NEW m \in WorkerStates, NEW others \in SUBSET Evaluators
  PROVE  /\ [m EXCEPT !.later = @ \union others] \in WorkerStates
         /\ [m EXCEPT !.later = @ \union others].later = m.later \union others
         /\ [m EXCEPT !.later = @ \union others].whole = m.whole
         /\ Kin(m, [m EXCEPT !.later = @ \union others])
BY DEF WorkerStates, Kin

LEMMA OvertakenIsTyped ==
  ASSUME NEW m \in WorkerStates
  PROVE  /\ [m EXCEPT !.overtaken = TRUE] \in WorkerStates
         /\ [m EXCEPT !.overtaken = TRUE].overtaken
         /\ Kin(m, [m EXCEPT !.overtaken = TRUE])
         /\ Kin(m, m)
BY DEF WorkerStates, Kin

LEMMA WholeIsTyped ==
  ASSUME NEW m \in WorkerStates, NEW w \in BOOLEAN
  PROVE  /\ [m EXCEPT !.whole = w] \in WorkerStates
         /\ [m EXCEPT !.whole = w].whole = w
         /\ ~w => Kin(m, [m EXCEPT !.whole = w])
BY DEF WorkerStates, Kin

(* Who is at work learns of an evaluation that begins.                      *)
LEMMA BeginIsNoticed ==
  ASSUME TypeOK, NEW w \in Evaluators, NEW mine \in WorkerStates, Begin(w, mine)
  PROVE  /\ worker' \in [Evaluators -> WorkerStates]
         /\ worker'[w] = [mine EXCEPT !.whole = TRUE]
         /\ \A v \in Evaluators \ {w} :
              /\ Kin(worker[v], worker'[v])
              /\ worker'[v].whole = worker[v].whole
              /\ worker'[v].later \subseteq worker[v].later \union {w}
              /\ UnderWay(v) => w \in worker'[v].later
<1>1. worker'[w] = [mine EXCEPT !.whole = TRUE] /\ worker'[w] \in WorkerStates
  <2>1. worker'[w] = [mine EXCEPT !.whole = TRUE]
    BY DEF Begin
  <2>2. QED
    BY <2>1, WholeIsTyped
<1>2. ASSUME NEW v \in Evaluators, v # w
      PROVE  /\ worker'[v] \in WorkerStates /\ Kin(worker[v], worker'[v])
             /\ worker'[v].whole = worker[v].whole
             /\ worker'[v].later \subseteq worker[v].later \union {w}
             /\ UnderWay(v) => w \in worker'[v].later
  <2>1. worker[v] \in WorkerStates /\ {w} \in SUBSET Evaluators
    BY DEF TypeOK
  <2>2. CASE UnderWay(v)
    <3> DEFINE next == [worker[v] EXCEPT !.later = @ \union {w}]
    <3>1. worker'[v] = next
      BY <1>2, <2>2, ZenonT(30) DEF Begin
    <3>2. /\ next \in WorkerStates /\ Kin(worker[v], next) /\ next.whole = worker[v].whole
          /\ next.later = worker[v].later \union {w}
      BY <2>1, LaterIsTyped, Zenon
    <3> HIDE DEF next
    <3>3. QED
      BY <3>1, <3>2
  <2>3. CASE ~UnderWay(v)
    <3>1. worker'[v] = worker[v]
      BY <1>2, <2>3, ZenonT(30) DEF Begin
    <3>2. QED
      BY <2>1, <2>3, <3>1, OvertakenIsTyped
  <2>4. QED
    BY <2>2, <2>3
<1>3. \E f : worker' = [v \in Evaluators |-> f[v]]
  <2>1. worker' = [v \in Evaluators |-> worker'[v]]
    BY DEF Begin
  <2>2. QED
    BY <2>1
<1>4. worker' \in [Evaluators -> WorkerStates]
  BY <1>1, <1>2, <1>3
<1>5. QED
  BY <1>1, <1>2, <1>4

(* Who began before and has yet to post the same status learns of a post.   *)
LEMMA FinishIsNoticed ==
  ASSUME TypeOK, NEW w \in Evaluators, FinishBefore(w)
  PROVE  /\ worker' \in [Evaluators -> WorkerStates]
         /\ worker'[w] = Idle
         /\ \A v \in Evaluators \ {w} :
              /\ Kin(worker[v], worker'[v])
              /\ worker'[v].whole = worker[v].whole /\ worker'[v].later = worker[v].later
              /\ /\ w \in worker[v].later /\ Evaluates(w) /\ worker[w].snap.open
                 /\ Context(worker[v].snap) = Context(worker[w].snap)
                 => worker'[v].overtaken
<1>1. worker'[w] = Idle /\ Idle \in WorkerStates
  BY SnapshotsAreTyped DEF FinishBefore
<1>2. ASSUME NEW v \in Evaluators, v # w
      PROVE  /\ worker'[v] \in WorkerStates /\ Kin(worker[v], worker'[v])
             /\ worker'[v].whole = worker[v].whole /\ worker'[v].later = worker[v].later
             /\ /\ w \in worker[v].later /\ Evaluates(w) /\ worker[w].snap.open
                /\ Context(worker[v].snap) = Context(worker[w].snap)
                => worker'[v].overtaken
  <2> DEFINE late == /\ w \in worker[v].later /\ Evaluates(w) /\ worker[w].snap.open
                     /\ Context(worker[v].snap) = Context(worker[w].snap)
  <2>1. worker[v] \in WorkerStates
    BY DEF TypeOK
  <2>2. CASE late
    <3>1. worker'[v] = [worker[v] EXCEPT !.overtaken = TRUE]
      BY <1>2, <2>2, ZenonT(30) DEF FinishBefore
    <3>2. worker'[v].whole = worker[v].whole /\ worker'[v].later = worker[v].later
      BY <2>1, <3>1 DEF WorkerStates
    <3>3. QED
      BY <2>1, <3>1, <3>2, OvertakenIsTyped
  <2>3. CASE ~late
    <3>1. worker'[v] = worker[v]
      BY <1>2, <2>3, ZenonT(30) DEF FinishBefore
    <3>2. QED
      BY <2>1, <2>3, <3>1, OvertakenIsTyped
  <2>4. QED
    BY <2>2, <2>3
<1>3. worker' = [v \in Evaluators |-> worker'[v]]
  BY DEF FinishBefore
<1>4. worker' \in [Evaluators -> WorkerStates]
  BY <1>1, <1>2, <1>3
<1>5. QED
  BY <1>1, <1>2, <1>4

LEMMA DoubtIsNoticed ==
  ASSUME TypeOK
  PROVE  /\ Doubted \in [Evaluators -> WorkerStates]
         /\ \A v \in Evaluators : /\ Kin(worker[v], Doubted[v]) /\ ~Doubted[v].whole
                                  /\ Doubted[v].later = worker[v].later
<1>1. ASSUME NEW v \in Evaluators
      PROVE  /\ Doubted[v] = [worker[v] EXCEPT !.whole = FALSE]
             /\ worker[v] \in WorkerStates
  BY DEF Doubted, TypeOK
<1>2. \A v \in Evaluators : Doubted[v].later = worker[v].later
  BY <1>1 DEF WorkerStates
<1>3. QED
  BY <1>1, <1>2, WholeIsTyped DEF Doubted

LEMMA EmitKeepsTypes ==
  ASSUME TypeOK, NEW p, NEW c, NEW e \in Events, Emit(p, c, e),
         p \in [open : BOOLEAN, base : Bases, title : Titles, head : Shas,
                commits : SUBSET Shas, facts : Facts],
         c \in [Shas -> Values],
         UNCHANGED <<statuses, queue, seenPolicy, faults, forged>>,
         doubt' \in BOOLEAN, worker' \in [Evaluators -> WorkerStates]
  PROVE  TypeOK'
<1>1. Approved(p, c) \subseteq Contexts
  BY ApprovedIsTyped
<1>2. deliveries' \in Seq(Events)
  BY DEF Emit, TypeOK
<1>3. pr.head \in Shas
  BY DEF TypeOK
<1>4. former' \subseteq Shas
  BY <1>3 DEF Emit, TypeOK
<1>5. QED
  BY <1>1, <1>2, <1>4 DEF Emit, TypeOK

LEMMA ChangeKeepsTypes ==
  ASSUME TypeOK, NEW p, NEW c, NEW e \in Events, Change(p, c, e),
         p \in [open : BOOLEAN, base : Bases, title : Titles, head : Shas,
                commits : SUBSET Shas, facts : Facts],
         c \in [Shas -> Values]
  PROVE  TypeOK'
<1>1. doubt' \in BOOLEAN /\ worker' \in [Evaluators -> WorkerStates]
  BY DEF Change, TypeOK
<1>2. QED
  BY <1>1, EmitKeepsTypes DEF Change

LEMMA PeopleKeepTypes == ASSUME TypeOK, People PROVE TypeOK'
<1> DEFINE PullRequests == [open : BOOLEAN, base : Bases, title : Titles, head : Shas,
                            commits : SUBSET Shas, facts : Facts]
<1>0. pr \in PullRequests /\ checks \in [Shas -> Values]
  BY DEF TypeOK
<1>a. \A p \in PullRequests : Snapshot(p) \in Snapshots
  BY DEF Snapshot, Snapshots
<1>b. \A p \in PullRequests :
        /\ \A t \in SUBSET Triggers : Event("payload", t, Snapshot(p)) \in Events
        /\ Opened(Snapshot(p)) \in Events
  BY <1>a, EventsAreTyped
<1>c. /\ {"commit"} \in SUBSET Triggers /\ {"pull_request"} \in SUBSET Triggers
      /\ {"status"} \in SUBSET Triggers
      /\ \A k \in Kinds : {k} \in SUBSET Triggers
  BY ConstantsAssumption DEF Triggers
<1>1. ASSUME NEW s \in Shas, Push(s) PROVE TypeOK'
  <2>1. PICK kept \in {pr.commits, {}} :
          LET p == [pr EXCEPT !.head = s, !.commits = kept \union {s}]
          IN  Change(p, checks, Event("payload", {"commit"}, Snapshot(p)))
    BY <1>1 DEF Push
  <2> DEFINE p == [pr EXCEPT !.head = s, !.commits = kept \union {s}]
  <2>2. p \in PullRequests
    BY <1>0
  <2>3. Event("payload", {"commit"}, Snapshot(p)) \in Events
    BY <1>b, <1>c, <2>2
  <2>4. QED
    BY <1>0, <2>1, <2>2, <2>3, ChangeKeepsTypes
<1>2. ASSUME NEW s \in Shas, Check(s) PROVE TypeOK'
  <2>1. PICK v \in Values : Change(pr, [checks EXCEPT ![s] = v],
                Event("status", {"status"}, [NoSnapshot EXCEPT !.head = s]))
    BY <1>2 DEF Check
  <2> DEFINE snap == [NoSnapshot EXCEPT !.head = s]
  <2>2. Event("status", {"status"}, snap) \in Events
    <3>1. snap \in Snapshots
      BY SnapshotsAreTyped DEF Snapshots
    <3> HIDE DEF snap
    <3>2. QED
      BY <1>c, <3>1, EventsAreTyped
  <2>3. [checks EXCEPT ![s] = v] \in [Shas -> Values]
    BY <1>0
  <2>4. QED
    BY <1>0, <2>1, <2>2, <2>3, ChangeKeepsTypes
<1>3. ASSUME NEW k \in Kinds, Discuss(k) PROVE TypeOK'
  <2> DEFINE e == IF k = "label" THEN Event("payload", {k}, Snapshot(pr))
                                 ELSE Event("live", {k}, NoSnapshot)
  <2>1. PICK v \in Values : Change([pr EXCEPT !.facts[k] = v], checks, e)
    BY <1>3 DEF Discuss
  <2>2. Event("live", {k}, NoSnapshot) \in Events
    BY <1>c, SnapshotsAreTyped, EventsAreTyped
  <2>3. e \in Events
    BY <1>0, <1>b, <1>c, <2>2
  <2>4. [pr.facts EXCEPT ![k] = v] \in Facts
    BY <1>0 DEF Facts
  <2>5. [pr EXCEPT !.facts[k] = v] \in PullRequests
    BY <1>0, <2>4
  <2>6. QED
    BY <1>0, <2>1, <2>3, <2>5, ChangeKeepsTypes
<1>4. ASSUME Edit PROVE TypeOK'
  <2>1. PICK b \in Bases, t \in Titles :
          LET p == [pr EXCEPT !.base = b, !.title = t]
          IN  /\ Emit(p, checks, Event("payload", {"pull_request"}, Snapshot(p)))
              /\ doubt' = (doubt \/ Unnoticed(b))
              /\ worker' = IF Unnoticed(b) THEN Doubted ELSE worker
              /\ UNCHANGED <<statuses, queue, seenPolicy, faults, forged>>
    BY <1>4 DEF Edit
  <2> DEFINE p == [pr EXCEPT !.base = b, !.title = t]
  <2>2. p \in PullRequests
    BY <1>0
  <2>3. Event("payload", {"pull_request"}, Snapshot(p)) \in Events
    BY <1>b, <1>c, <2>2
  <2>4. doubt' \in BOOLEAN /\ worker' \in [Evaluators -> WorkerStates]
    BY <2>1, DoubtIsNoticed DEF TypeOK
  <2>5. QED
    BY <1>0, <2>1, <2>2, <2>3, <2>4, EmitKeepsTypes
<1>5. ASSUME Close PROVE TypeOK'
  BY <1>5 DEF Close, TypeOK, history
<1>6. ASSUME Reopen PROVE TypeOK'
  <2> DEFINE p == [pr EXCEPT !.open = TRUE]
  <2>1. Change(p, checks, Opened(Snapshot(p)))
    BY <1>6 DEF Reopen
  <2>2. p \in PullRequests
    BY <1>0
  <2>3. Opened(Snapshot(p)) \in Events
    BY <1>b, <2>2
  <2>4. QED
    BY <1>0, <2>1, <2>2, <2>3, ChangeKeepsTypes
<1>7. ASSUME NEW c \in Contexts, Forge(c) PROVE TypeOK'
  <2>1. c[1] \in Shas /\ c[2] \in Bases
    BY DEF Contexts
  <2> DEFINE snap == [NoSnapshot EXCEPT !.head = c[1], !.base = c[2]]
  <2>2. Event("overwritten", {}, snap) \in Events
    <3>1. snap \in Snapshots
      BY <2>1, SnapshotsAreTyped DEF Snapshots
    <3> HIDE DEF snap
    <3>2. QED
      BY <3>1, EventsAreTyped
  <2>3. deliveries' \in Seq(Events)
    BY <1>7, <2>2 DEF Forge, TypeOK
  <2>4. statuses' \in [Contexts -> States]
    BY <1>7 DEF Forge, TypeOK, States
  <2>5. QED
    BY <1>7, <2>3, <2>4 DEF Forge, TypeOK
<1>8. QED
  BY <1>1, <1>2, <1>3, <1>4, <1>5, <1>6, <1>7 DEF People

LEMMA DeliverKeepsTypes ==
  ASSUME TypeOK, NEW i \in 1..Len(deliveries), Schedule(i) \/ DropEvent(i)
  PROVE  TypeOK'
<1>1. deliveries \in Seq(Events) /\ deliveries[i] \in Events /\ Len(queue) \in Nat
  BY DEF TypeOK
<1>2. DropAt(deliveries, i) \in Seq(Events)
  BY <1>1, DropAtProperties
<1>3. CASE Schedule(i)
  <2>1. queue' \in Seq(Events) /\ Len(queue') <= QueueSize
    BY <1>1, <1>3, ConstantsAssumption DEF Schedule, TypeOK
  <2>2. QED
    BY <1>2, <1>3, <2>1 DEF Schedule, TypeOK, github, history
<1>4. CASE DropEvent(i)
  <2>1. worker' \in [Evaluators -> WorkerStates]
    BY <1>4, DoubtIsNoticed DEF DropEvent
  <2>2. QED
    BY <1>2, <1>4, <2>1 DEF DropEvent, TypeOK, github
<1>5. QED
  BY <1>3, <1>4

LEMMA TakeKeepsTypes ==
  ASSUME TypeOK, NEW w \in Evaluators, Take(w) PROVE TypeOK'
<1> DEFINE e == Head(queue)
           snap == [e.snap EXCEPT !.open = TRUE]
           next == IF e.type = "overwritten"
                     THEN [Idle EXCEPT !.stage = "posting", !.event = e,
                                       !.state = "failure", !.snap = snap]
                     ELSE [Idle EXCEPT !.stage = "taken", !.event = e]
<1>1. queue \in Seq(Events) /\ queue # <<>> /\ Len(queue) <= QueueSize
  BY DEF TypeOK, Take
<1>2. e \in Events /\ Tail(queue) \in Seq(Events) /\ Len(Tail(queue)) <= QueueSize
  BY <1>1, ConstantsAssumption
<1>3. e.snap \in Snapshots
  BY <1>2 DEF Events
<1>4. snap \in Snapshots
  BY <1>3 DEF Snapshots
<1>5. next \in WorkerStates
  <2> HIDE DEF e, snap
  <2>1. QED
    BY <1>2, <1>4, SnapshotsAreTyped DEF WorkerStates, States
<1>6. worker' = [worker EXCEPT ![w] = next] /\ queue' = Tail(queue)
  BY DEF Take
<1> HIDE DEF next
<1>7. QED
  BY <1>2, <1>5, <1>6 DEF Take, TypeOK, github, history

LEMMA ViewKeepsTypes ==
  ASSUME TypeOK, NEW w \in Evaluators, View(w) PROVE TypeOK'
<1> DEFINE e == Event("live", Triggers, NoSnapshot)
           next == [Idle EXCEPT !.stage = "taken", !.event = e]
<1>1. e \in Events
  BY SnapshotsAreTyped, EventsAreTyped
<1>2. next \in WorkerStates
  <2> HIDE DEF e
  <2>1. QED
    BY <1>1, SnapshotsAreTyped DEF WorkerStates
<1>3. worker' = [worker EXCEPT ![w] = next]
  BY DEF View
<1> HIDE DEF next
<1>4. QED
  BY <1>2, <1>3 DEF View, TypeOK, github, history

LEMMA LocatedIsTyped ==
  ASSUME TypeOK, NEW w \in Evaluators PROVE Located(worker[w].event) \in Snapshots
<1>1. worker[w].event.snap \in Snapshots
  BY DEF TypeOK, WorkerStates, Events
<1>2. QED
  BY <1>1, SnapshotsAreTyped DEF Located

LEMMA HandleKeepsTypes ==
  ASSUME TypeOK, NEW w \in Evaluators, Handle(w) PROVE TypeOK'
<1> DEFINE snap == Located(worker[w].event)
<1>1. worker[w] \in WorkerStates
  BY DEF TypeOK
<1>2. snap \in Snapshots /\ snap.base \in Bases /\ snap.head \in Shas
  BY LocatedIsTyped DEF Snapshots
<1>3. SawPolicy(snap.base) => seenPolicy' \subseteq Bases
  BY <1>2 DEF SawPolicy, TypeOK
<1>4. CASE Skip(w)
  <2>1. worker' = [worker EXCEPT ![w] = Idle] /\ seenPolicy' \subseteq Bases
    BY <1>3, <1>4 DEF Skip, Finish, TypeOK
  <2>2. QED
    BY <1>4, <2>1, SnapshotsAreTyped DEF Skip, TypeOK, github, history
<1>5. CASE RejectPolicy(w)
  <2> DEFINE next == [worker[w] EXCEPT !.stage = "posting", !.snap = snap, !.state = "error"]
  <2>1. Begin(w, next)
    BY <1>5, ZenonT(30) DEF RejectPolicy
  <2>2. seenPolicy' \subseteq Bases
    BY <1>3, <1>5, ZenonT(30) DEF RejectPolicy
  <2> HIDE DEF snap
  <2>3. next \in WorkerStates
    BY <1>1, <1>2 DEF WorkerStates, States
  <2> HIDE DEF next
  <2>4. worker' \in [Evaluators -> WorkerStates]
    BY <2>1, <2>3, BeginIsNoticed
  <2>5. UNCHANGED <<github, deliveries, queue, changes, faults, history>>
    BY <1>5 DEF RejectPolicy
  <2>6. QED
    BY <2>2, <2>4, <2>5 DEF TypeOK, github, history
<1>6. CASE StartEvaluation(w)
  <2> DEFINE next == [worker[w] EXCEPT !.stage = "reading", !.snap = snap, !.unread = Groups]
  <2>1. Begin(w, next)
    BY <1>6, ZenonT(30) DEF StartEvaluation
  <2>2. seenPolicy' \subseteq Bases
    BY <1>3, <1>6, ZenonT(30) DEF StartEvaluation
  <2> HIDE DEF snap
  <2>3. next \in WorkerStates
    BY <1>1, <1>2 DEF WorkerStates
  <2> HIDE DEF next
  <2>4. worker' \in [Evaluators -> WorkerStates]
    BY <2>1, <2>3, BeginIsNoticed
  <2>5. UNCHANGED <<github, deliveries, queue, changes, faults, history>>
    BY <1>6 DEF StartEvaluation
  <2>6. QED
    BY <2>2, <2>4, <2>5 DEF TypeOK, github, history
<1>7. CASE Post(w)
  <2>1. worker[w].state \in States
    BY <1>1 DEF WorkerStates
  <2>2. worker' \in [Evaluators -> WorkerStates]
    BY <1>7, FinishIsNoticed DEF Post
  <2>3. doubt' \in BOOLEAN
    BY <1>7 DEF Post, Doubtful, TypeOK
  <2>4. statuses' \in [Contexts -> States]
    BY <1>7, <2>1 DEF Post, TypeOK
  <2>5. QED
    BY <1>7, <2>2, <2>3, <2>4 DEF Post, TypeOK
<1>8. ASSUME NEW g \in Groups, Read(w, g) PROVE TypeOK'
  <2> DEFINE s == worker[w].snap
             now == FactsOf(pr, checks, s.head)
             inGroup(k) == IF g = "paged" THEN k \in Paged ELSE k = g
             tip == IF g = "paged" THEN pr.head ELSE worker[w].tip
             seen == [k \in Kinds |-> IF inGroup(k) THEN now[k] ELSE worker[w].seen[k]]
             left == worker[w].unread \ {g}
             state == IF left = {} THEN Verdict(s.base, s.title, tip, seen)
                      ELSE worker[w].state
             failed == [worker[w] EXCEPT !.stage = "posting", !.snap = s,
                                         !.state = "error", !.unread = {}]
             next == [worker[w] EXCEPT !.unread = left, !.tip = tip, !.seen = seen,
                        !.stage = IF left = {} THEN "posting" ELSE "reading",
                        !.state = state]
  <2>1. /\ s \in Snapshots /\ s.head \in Shas /\ s.base \in Bases /\ s.title \in Titles
        /\ worker[w].seen \in Facts /\ worker[w].tip \in Shas
        /\ worker[w].unread \subseteq Groups /\ worker[w].state \in States
    BY <1>1 DEF WorkerStates, Snapshots
  <2>2. now \in Facts
    BY <2>1, FactsAreTyped DEF TypeOK
  <2>3. tip \in Shas
    BY <2>1 DEF TypeOK
  <2>4. seen \in Facts
    BY <2>1, <2>2 DEF Facts
  <2>5. left \subseteq Groups
    BY <2>1
  <2>6. worker' \in {[worker EXCEPT ![w] = failed], [worker EXCEPT ![w] = next]}
    BY <1>8 DEF Read, PostNext, TypeOK
  <2> HIDE DEF seen, tip, left, s
  <2>7. state \in States
    BY <2>1, <2>3, <2>4, VerdictIsTyped
  <2> HIDE DEF state
  <2>8. failed \in WorkerStates /\ next \in WorkerStates
    BY <1>1, <2>1, <2>3, <2>4, <2>5, <2>7 DEF WorkerStates, States
  <2> HIDE DEF failed, next
  <2>9. worker' \in [Evaluators -> WorkerStates]
    BY <2>6, <2>8 DEF TypeOK
  <2>10. QED
    BY <1>8, <2>9 DEF Read, TypeOK, github, history
<1>9. QED
  BY <1>4, <1>5, <1>6, <1>7, <1>8 DEF Handle

LEMMA FaultsKeepTypes ==
  ASSUME TypeOK,
         Restart \/ \E w \in Evaluators : LoadFails(w) \/ ReadFails(w) \/ PostFails(w)
  PROVE  TypeOK'
<1>1. Doubted \in [Evaluators -> WorkerStates]
  BY DoubtIsNoticed
<1>2. ASSUME NEW w \in Evaluators, LoadFails(w) PROVE TypeOK'
  <2> DEFINE snap == Located(worker[w].event)
             next == [worker[w] EXCEPT !.stage = "posting", !.snap = snap, !.state = "error"]
  <2>1. snap \in Snapshots
    BY LocatedIsTyped
  <2>2. worker' \in {[Doubted EXCEPT ![w] = next], [Doubted EXCEPT ![w] = Idle]}
    BY <1>2 DEF LoadFails
  <2> HIDE DEF snap
  <2>3. next \in WorkerStates
    <3>1. worker[w] \in WorkerStates
      BY DEF TypeOK
    <3>2. QED
      BY <2>1, <3>1 DEF WorkerStates, States
  <2> HIDE DEF next
  <2>4. worker' \in [Evaluators -> WorkerStates]
    BY <1>1, <2>2, <2>3, SnapshotsAreTyped
  <2>5. Fault /\ UNCHANGED <<queue, seenPolicy>>
    BY <1>2 DEF LoadFails
  <2>6. QED
    BY <2>4, <2>5 DEF Fault, TypeOK, github
<1>3. ASSUME NEW w \in Evaluators, ReadFails(w) PROVE TypeOK'
  <2> DEFINE next == [worker[w] EXCEPT !.stage = "posting", !.state = "error",
                                       !.unread = {}, !.whole = FALSE]
  <2>1. next \in WorkerStates
    <3>1. worker[w] \in WorkerStates
      BY DEF TypeOK
    <3>2. QED
      BY <3>1 DEF WorkerStates, States
  <2>2. worker' = [Doubted EXCEPT ![w] = next]
    BY <1>3 DEF ReadFails
  <2> HIDE DEF next
  <2>3. worker' \in [Evaluators -> WorkerStates]
    BY <1>1, <2>1, <2>2
  <2>4. Fault /\ UNCHANGED <<queue, seenPolicy>>
    BY <1>3 DEF ReadFails
  <2>5. QED
    BY <2>3, <2>4 DEF Fault, TypeOK, github
<1>4. ASSUME NEW w \in Evaluators, PostFails(w) PROVE TypeOK'
  BY <1>1, <1>4, SnapshotsAreTyped DEF PostFails, Fault, TypeOK, github
<1>5. CASE Restart
  <2>1. queue' \in Seq(Events) /\ Len(queue') <= QueueSize
    BY <1>5, ConstantsAssumption DEF Restart
  <2>2. QED
    BY <1>5, <2>1, SnapshotsAreTyped DEF Restart, Fault, TypeOK, github
<1>6. QED
  BY <1>2, <1>3, <1>4, <1>5

LEMMA InitIsTyped == Init => TypeOK
<1> SUFFICES ASSUME Init PROVE TypeOK
  OBVIOUS
<1>1. PICK b \in Bases, t \in Titles, s \in Shas :
        pr = [open |-> TRUE, base |-> b, title |-> t, head |-> s, commits |-> {s},
              facts |-> NoFacts]
  BY DEF Init
<1>2. pr \in [open : BOOLEAN, base : Bases, title : Titles, head : Shas,
              commits : SUBSET Shas, facts : Facts]
  BY <1>1, SnapshotsAreTyped
<1>3. Snapshot(pr) \in Snapshots /\ pr.head \in Shas
  BY <1>2 DEF Snapshot, Snapshots
<1>4. deliveries \in Seq(Events)
  <2>1. Opened(Snapshot(pr)) \in Events
    BY <1>3, EventsAreTyped
  <2>2. QED
    BY <2>1 DEF Init
<1>5. checks \in [Shas -> Values] /\ statuses \in [Contexts -> States]
  BY ConstantsAssumption DEF Init, States
<1>6. queue \in Seq(Events) /\ Len(queue) <= QueueSize
  BY ConstantsAssumption DEF Init
<1>7. Approved(pr, checks) \subseteq Contexts
  BY <1>3, ApprovedIsTyped
<1>8. QED
  BY <1>2, <1>4, <1>5, <1>6, <1>7, SnapshotsAreTyped DEF Init, TypeOK

LEMMA NextKeepsTypes == TypeOK /\ [Next]_vars => TypeOK'
<1> SUFFICES ASSUME TypeOK, [Next]_vars PROVE TypeOK'
  OBVIOUS
<1>1. CASE People
  BY <1>1, PeopleKeepTypes
<1>2. CASE Deliver
  BY <1>2, DeliverKeepsTypes DEF Deliver
<1>3. ASSUME NEW w \in Evaluators, Take(w) \/ View(w) \/ Handle(w) PROVE TypeOK'
  BY <1>3, TakeKeepsTypes, ViewKeepsTypes, HandleKeepsTypes
<1>4. CASE Restart \/ \E w \in Evaluators : LoadFails(w) \/ ReadFails(w) \/ PostFails(w)
  BY <1>4, FaultsKeepTypes
<1>5. CASE UNCHANGED vars
  BY <1>5 DEF vars, TypeOK
<1>6. QED
  BY <1>1, <1>2, <1>3, <1>4, <1>5 DEF Next

(***************************************************************************)
(* Type correctness, for any workers and viewers.                          *)
(***************************************************************************)
THEOREM TypesAreKept == Spec => []TypeOK
<1>1. QED
  BY InitIsTyped, NextKeepsTypes, PTL DEF Spec

-----------------------------------------------------------------------------
(***************************************************************************)
(* The status is true, or about to be.                                     *)
(***************************************************************************)
(* An event on its way, or in the hands of a worker.                        *)
Due(e) ==
  \/ \E i \in 1..Len(deliveries) : deliveries[i] = e
  \/ \E i \in 1..Len(queue) : queue[i] = e
  \/ \E w \in Evaluators : worker[w].stage = "taken" /\ worker[w].event = e

(* An event whose handling makes the status true.                           *)
Counts(e) ==
  /\ e.type # "overwritten"
  /\ Policy[pr.base] = "valid" => e.trigger \intersect PolicyTrigger[pr.base] # {}
  /\ e.type = "payload" =>
       e.snap.open /\ Context(e.snap) = Context(pr) /\ TitleIsCurrent(e.snap)
  /\ e.type = "status" => e.snap.head \in pr.commits

Awaited == \E e \in Events : Due(e) /\ Counts(e)

(* The forged status of the head is about to be replaced.                   *)
Replaces(e) == e.type = "overwritten" /\ Context(e.snap) = Context(pr)

Replaced == \E e \in Events : Due(e) /\ Replaces(e)

GroupOf(k) == IF k \in Paged THEN "paged" ELSE k

Rightly(state) == state = Expected \/ (Context(pr) \in forged /\ state = "failure")

(* An evaluation that posts the truth: what it has read is as it is now.    *)
Sound(w) ==
  /\ worker[w].snap.open
  /\ Context(worker[w].snap) = Context(pr)
  /\ \/ /\ worker[w].stage = "reading"
        /\ Policy[pr.base] = "valid"
        /\ TitleIsCurrent(worker[w].snap)
        /\ "paged" \notin worker[w].unread => worker[w].tip = pr.head
        /\ \A k \in Kinds \intersect PolicyTrigger[pr.base] :
             GroupOf(k) \notin worker[w].unread =>
               worker[w].seen[k] = FactsOf(pr, checks, pr.head)[k]
     \/ /\ worker[w].stage = "posting"
        /\ Rightly(worker[w].state)

(* An evaluation whose post would leave no doubt.                           *)
Trusted(w) ==
  /\ UnderWay(w) /\ Evaluates(w)
  /\ worker[w].whole \/ ~doubt
  /\ ~worker[w].overtaken
  /\ worker[w].snap.open
  /\ Context(worker[w].snap) = Context(pr)
  /\ TitleIsCurrent(worker[w].snap)

(* One that began after w will post the truth, later or before w does.      *)
SoundLater(w) == \E v \in worker[w].later : Evaluates(v) /\ Sound(v)

HeadIsCommit == pr.head \in pr.commits

(* Nobody is later than himself, nobody has begun with an event that he     *)
(* only took, and a failure posted without evaluation replaces a forgery.   *)
Orderly(w) ==
  /\ w \notin worker[w].later
  /\ worker[w].stage = "taken" => Evaluates(w) /\ ~worker[w].whole
  /\ UnderWay(w) /\ ~Evaluates(w) =>
       /\ worker[w].stage = "posting" /\ worker[w].state = "failure" /\ ~worker[w].whole
       /\ Context(worker[w].snap) \in forged

OverwrittenAreForged ==
  \A e \in Events : Due(e) /\ e.type = "overwritten" => Context(e.snap) \in forged

(* Of two evaluations, the one that began after the last loss began later.  *)
WholeAreLater ==
  \A v, w \in Evaluators :
    /\ UnderWay(v) /\ Evaluates(v) /\ worker[v].whole
    /\ UnderWay(w) /\ Evaluates(w) /\ ~worker[w].whole
    => v \in worker[w].later

Watched == pr.open /\ Policy[pr.base] # "missing"

StatusWillBeTrue ==
  Watched /\ ~doubt =>
    StatusIsTrue \/ Awaited \/ Replaced \/ \E w \in Evaluators : Sound(w)

EvaluationsAreSound ==
  Watched => \A w \in Evaluators : Trusted(w) => Sound(w) \/ Awaited \/ SoundLater(w)

PipelineInv ==
  /\ TypeOK
  /\ HeadIsCommit
  /\ OverwrittenAreForged
  /\ \A w \in Evaluators : Orderly(w)
  /\ WholeAreLater
  /\ StatusWillBeTrue
  /\ EvaluationsAreSound

(***************************************************************************)
(* Steps that change nothing the status depends on.                        *)
(***************************************************************************)
Steady ==
  /\ Context(pr)' = Context(pr) /\ Expected' = Expected
  /\ pr'.commits = pr.commits
  /\ ReadsTitle(pr.base) => pr'.title = pr.title
  /\ \A k \in Kinds \intersect PolicyTrigger[pr.base] :
       FactsOf(pr, checks, pr.head)'[k] = FactsOf(pr, checks, pr.head)[k]
  /\ forged \subseteq forged'

(* What a step may do to an evaluator without touching the invariant.       *)
KeepsFaith(w) ==
  /\ Sound(w) => Sound(w)'
  /\ Sound(w) /\ Evaluates(w) => Evaluates(w)'
  /\ Trusted(w)' => Trusted(w)

KeepsPlace(w) ==
  UnderWay(w)' /\ Evaluates(w)' =>
    /\ UnderWay(w) /\ Evaluates(w)
    /\ worker'[w].whole = worker[w].whole
    /\ worker[w].later \subseteq worker'[w].later

(* What the pull request should report depends on nothing else.             *)
LEMMA ExpectedDependsOnTriggers ==
  ASSUME TypeOK, TypeOK', Watched,
         Context(pr)' = Context(pr),
         ReadsTitle(pr.base) => pr'.title = pr.title,
         \A k \in Kinds \intersect PolicyTrigger[pr.base] :
           FactsOf(pr, checks, pr.head)'[k] = FactsOf(pr, checks, pr.head)[k]
  PROVE  Expected' = Expected
<1> DEFINE f == FactsOf(pr, checks, pr.head)
           g == FactsOf(pr', checks', pr'.head)
<1>1. /\ pr.base \in Bases /\ pr.head \in Shas /\ pr.title \in Titles
      /\ pr'.base = pr.base /\ pr'.head = pr.head /\ pr'.title \in Titles
  BY DEF TypeOK, Context
<1>2. f \in Facts /\ g \in Facts
  BY <1>1, FactsAreTyped DEF TypeOK
<1>3. \A k \in Kinds \intersect PolicyTrigger[pr.base] : f[k] = g[k]
  OBVIOUS
<1> HIDE DEF f, g
<1>4. CASE Policy[pr.base] = "invalid"
  BY <1>1, <1>4 DEF Expected
<1>5. CASE Policy[pr.base] = "valid"
  <2>1. "pull_request" \in PolicyTrigger[pr.base] => pr.title = pr'.title
    BY <1>5 DEF ReadsTitle
  <2>2. Judge[<<pr.base, pr.title, pr.head, f>>] = Judge[<<pr.base, pr'.title, pr.head, g>>]
    BY <1>1, <1>2, <1>3, <2>1, TriggerAssumption
  <2>3. QED
    BY <1>1, <1>5, <2>2 DEF Expected, Verdict, f, g
<1>6. QED
  BY <1>1, <1>4, <1>5, ConstantsAssumption DEF Watched

(* What follows from the pull request alone stays when it does.             *)
LEMMA SamePullRequest ==
  ASSUME UNCHANGED <<pr, checks>>, forged \subseteq forged'
  PROVE  Steady /\ Watched' = Watched
BY DEF Steady, Context, Expected, Verdict, FactsOf, Watched

(* An event that counts still does.                                         *)
LEMMA SteadyEvents ==
  ASSUME Steady, NEW e \in Events
  PROVE  /\ Counts(e) => Counts(e)'
         /\ Replaces(e)' <=> Replaces(e)
<1>1. pr'.base = pr.base /\ pr'.head = pr.head
  BY DEF Steady, Context
<1>2. Counts(e) => Counts(e)'
  <2> SUFFICES ASSUME Counts(e) PROVE Counts(e)'
    OBVIOUS
  <2>1. e.type = "payload" => TitleIsCurrent(e.snap)'
    <3> SUFFICES ASSUME e.type = "payload", ReadsTitle(e.snap.base)
                 PROVE  e.snap.title = pr'.title
      BY DEF TitleIsCurrent, ReadsTitle
    <3>1. e.snap.base = pr.base /\ e.snap.title = pr.title
      BY DEF Counts, Context, TitleIsCurrent
    <3>2. QED
      BY <3>1 DEF Steady
  <2>2. QED
    BY <1>1, <2>1 DEF Counts, Steady
<1>3. QED
  BY <1>2 DEF Replaces, Steady

(* An evaluator that only learns of others stays as it is.                  *)
LEMMA SteadyEvaluator ==
  ASSUME Steady, NEW w \in Evaluators, Kin(worker[w], worker'[w])
  PROVE  /\ Sound(w) => Sound(w)'
         /\ Evaluates(w)' <=> Evaluates(w)
         /\ UnderWay(w)' <=> UnderWay(w)
         /\ Trusted(w)' /\ (worker[w].whole \/ ~doubt) => Trusted(w)
         /\ (doubt' <=> doubt) => KeepsFaith(w)
         /\ worker'[w].whole = worker[w].whole => KeepsPlace(w)
<1> DEFINE m == worker[w]
           n == worker'[w]
<1>1. /\ n.stage = m.stage /\ n.event = m.event /\ n.snap = m.snap /\ n.unread = m.unread
      /\ n.tip = m.tip /\ n.seen = m.seen /\ n.state = m.state
      /\ m.later \subseteq n.later /\ (n.whole => m.whole) /\ (m.overtaken => n.overtaken)
  BY DEF Kin
<1>2. pr'.base = pr.base /\ pr'.head = pr.head
  BY DEF Steady, Context
<1>3. Context(m.snap) = Context(pr) =>
        (TitleIsCurrent(m.snap) <=> (ReadsTitle(m.snap.base) => m.snap.title = pr'.title))
  BY DEF TitleIsCurrent, Steady, Context
<1>4. TitleIsCurrent(worker[w].snap)' <=> (ReadsTitle(m.snap.base) => m.snap.title = pr'.title)
  BY <1>1 DEF TitleIsCurrent, ReadsTitle
<1>5. Evaluates(w)' <=> Evaluates(w)
  BY <1>1 DEF Evaluates
<1>6. UnderWay(w)' <=> UnderWay(w)
  BY <1>1 DEF UnderWay
<1>7. Context(worker[w].snap)' = Context(m.snap)
  BY <1>1 DEF Context
<1>8. Sound(w) => Sound(w)'
  <2> SUFFICES ASSUME Sound(w) PROVE Sound(w)'
    OBVIOUS
  <2>1. worker'[w].snap.open /\ Context(worker[w].snap)' = Context(pr)'
    BY <1>1, <1>7 DEF Sound, Steady
  <2>2. CASE worker[w].stage = "reading"
    <3>1. TitleIsCurrent(worker[w].snap)'
      BY <1>3, <1>4, <2>2 DEF Sound
    <3>2. /\ Policy[pr'.base] = "valid"
          /\ "paged" \notin worker'[w].unread => worker'[w].tip = pr'.head
      BY <1>1, <1>2, <2>2 DEF Sound
    <3>3. (\A k \in Kinds \intersect PolicyTrigger[pr.base] :
             GroupOf(k) \notin worker[w].unread =>
               worker[w].seen[k] = FactsOf(pr, checks, pr.head)[k])'
      BY <1>1, <1>2, <2>2 DEF Sound, Steady
    <3>4. QED
      BY <1>1, <2>1, <2>2, <3>1, <3>2, <3>3 DEF Sound
  <2>3. CASE worker[w].stage = "posting"
    <3>1. Rightly(worker[w].state)'
      BY <1>1, <2>3 DEF Sound, Rightly, Steady
    <3>2. QED
      BY <1>1, <2>1, <2>3, <3>1 DEF Sound
  <2>4. QED
    BY <2>2, <2>3 DEF Sound
<1>9. Trusted(w)' /\ (worker[w].whole \/ ~doubt) => Trusted(w)
  <2> SUFFICES ASSUME Trusted(w)', worker[w].whole \/ ~doubt PROVE Trusted(w)
    OBVIOUS
  <2>1. Context(m.snap) = Context(pr)
    BY <1>7 DEF Trusted, Steady
  <2>2. TitleIsCurrent(m.snap)
    BY <1>3, <1>4, <2>1 DEF Trusted
  <2>3. QED
    BY <1>1, <1>5, <1>6, <2>1, <2>2 DEF Trusted
<1>10. (doubt' <=> doubt) => (Trusted(w)' => Trusted(w))
  BY <1>1, <1>9 DEF Trusted
<1>11. QED
  BY <1>1, <1>5, <1>6, <1>8, <1>9, <1>10 DEF KeepsFaith, KeepsPlace

LEMMA OrderlyStays ==
  ASSUME NEW w \in Evaluators, Orderly(w), Kin(worker[w], worker'[w]),
         w \notin worker'[w].later, forged \subseteq forged'
  PROVE  Orderly(w)'
BY DEF Orderly, Kin, UnderWay, Evaluates, Context

LEMMA PlacesStay ==
  ASSUME PipelineInv, \A w \in Evaluators : KeepsPlace(w) PROVE WholeAreLater'
<1> SUFFICES ASSUME NEW v \in Evaluators, NEW w \in Evaluators,
                    UnderWay(v)', Evaluates(v)', worker'[v].whole,
                    UnderWay(w)', Evaluates(w)', ~worker'[w].whole
             PROVE  v \in worker'[w].later
  BY DEF WholeAreLater
<1>1. KeepsPlace(v) /\ KeepsPlace(w)
  OBVIOUS
<1>2. /\ UnderWay(v) /\ Evaluates(v) /\ worker[v].whole
      /\ UnderWay(w) /\ Evaluates(w) /\ ~worker[w].whole
      /\ worker[w].later \subseteq worker'[w].later
  BY <1>1 DEF KeepsPlace
<1>3. v \in worker[w].later
  BY <1>2 DEF PipelineInv, WholeAreLater
<1>4. QED
  BY <1>2, <1>3

(* Whoever is later is an evaluator.                                        *)
LEMMA LaterAreEvaluators ==
  ASSUME TypeOK, NEW w \in Evaluators PROVE worker[w].later \subseteq Evaluators
BY DEF TypeOK, WorkerStates

LEMMA FaithStays ==
  ASSUME PipelineInv, Watched' => Watched, doubt' <=> doubt,
         \A w \in Evaluators : KeepsFaith(w) /\ KeepsPlace(w),
         Watched /\ Awaited => Awaited',
         StatusIsTrue \/ Replaced =>
           StatusIsTrue' \/ Replaced' \/ \E w \in Evaluators : Sound(w)'
  PROVE  StatusWillBeTrue' /\ EvaluationsAreSound'
<1>1. StatusWillBeTrue'
  <2> SUFFICES ASSUME Watched', ~doubt'
               PROVE  StatusIsTrue' \/ Awaited' \/ Replaced' \/ \E w \in Evaluators : Sound(w)'
    BY DEF StatusWillBeTrue
  <2>1. StatusIsTrue \/ Awaited \/ Replaced \/ \E w \in Evaluators : Sound(w)
    BY DEF PipelineInv, StatusWillBeTrue
  <2>2. \A w \in Evaluators : Sound(w) => Sound(w)'
    BY DEF KeepsFaith
  <2>3. QED
    BY <2>1, <2>2
<1>2. EvaluationsAreSound'
  <2> SUFFICES ASSUME Watched', NEW w \in Evaluators, Trusted(w)'
               PROVE  Sound(w)' \/ Awaited' \/ SoundLater(w)'
    BY DEF EvaluationsAreSound
  <2>1. Trusted(w) /\ worker[w].later \subseteq worker'[w].later
    <3>1. KeepsFaith(w) /\ KeepsPlace(w)
      OBVIOUS
    <3>2. UnderWay(w)' /\ Evaluates(w)'
      BY DEF Trusted
    <3>3. QED
      BY <3>1, <3>2 DEF KeepsFaith, KeepsPlace
  <2>2. Sound(w) \/ Awaited \/ SoundLater(w)
    BY <2>1 DEF PipelineInv, EvaluationsAreSound
  <2>3. SoundLater(w) => SoundLater(w)'
    <3> SUFFICES ASSUME NEW v \in worker[w].later, Evaluates(v), Sound(v)
                 PROVE  SoundLater(w)'
      BY DEF SoundLater
    <3>1. v \in Evaluators
      BY LaterAreEvaluators DEF PipelineInv
    <3>2. Evaluates(v)' /\ Sound(v)'
      BY <3>1 DEF KeepsFaith
    <3>3. QED
      BY <2>1, <3>2 DEF SoundLater
  <2>4. QED
    BY <2>2, <2>3 DEF KeepsFaith
<1>3. QED
  BY <1>1, <1>2

LEMMA AppendedIsDue ==
  ASSUME TypeOK, NEW e \in Events, deliveries' = Append(deliveries, e),
         queue' = queue, \A w \in Evaluators : Kin(worker[w], worker'[w])
  PROVE  /\ Due(e)'
         /\ \A x \in Events : Due(x) => Due(x)'
         /\ \A x \in Events : Due(x)' => Due(x) \/ x = e
<1>1. deliveries \in Seq(Events)
  BY DEF TypeOK
<1>2. /\ Len(deliveries') = Len(deliveries) + 1 /\ Len(deliveries) \in Nat
      /\ deliveries'[Len(deliveries) + 1] = e
      /\ \A i \in 1..Len(deliveries) : deliveries'[i] = deliveries[i]
  BY <1>1
<1>3. \E i \in 1..Len(deliveries') : deliveries'[i] = e
  BY <1>2
<1>4. ASSUME NEW x \in Events PROVE Due(x) => Due(x)'
  BY <1>2 DEF Due, Kin
<1>5. ASSUME NEW x \in Events, Due(x)', x # e PROVE Due(x)
  <2>1. ASSUME NEW i \in 1..Len(deliveries'), deliveries'[i] = x
        PROVE  \E j \in 1..Len(deliveries) : deliveries[j] = x
    BY <1>2, <1>5, <2>1
  <2>2. QED
    BY <1>5, <2>1 DEF Due, Kin
<1>6. QED
  BY <1>3, <1>4, <1>5 DEF Due

(* A scheduled event is still to be handled.                                *)
LEMMA ScheduledStaysDue ==
  ASSUME TypeOK, NEW i \in 1..Len(deliveries), Schedule(i), NEW x \in Events
  PROVE  Due(x)' <=> Due(x)
<1>1. deliveries \in Seq(Events) /\ queue \in Seq(Events) /\ worker' = worker
  BY DEF TypeOK, Schedule
<1>2. /\ Len(deliveries') = Len(deliveries) - 1 /\ Len(deliveries) \in Nat
      /\ \A j \in 1..(Len(deliveries) - 1) :
           deliveries'[j] = IF j < i THEN deliveries[j] ELSE deliveries[j + 1]
  <2>1. deliveries' = DropAt(deliveries, i)
    BY DEF Schedule
  <2>2. /\ Len(DropAt(deliveries, i)) = Len(deliveries) - 1
        /\ \A j \in 1..(Len(deliveries) - 1) : DropAt(deliveries, i)[j] =
             IF j < i THEN deliveries[j] ELSE deliveries[j + 1]
    BY <1>1, DropAtProperties
  <2>3. Len(deliveries) \in Nat
    BY <1>1
  <2>4. QED
    BY <2>1, <2>2, <2>3
<1>3. /\ Len(queue') = Len(queue) + 1 /\ Len(queue) \in Nat
      /\ queue'[Len(queue) + 1] = deliveries[i]
      /\ \A j \in 1..Len(queue) : queue'[j] = queue[j]
  BY <1>1 DEF Schedule
<1>4. ASSUME NEW j \in 1..Len(deliveries)
      PROVE  \/ \E k \in 1..Len(deliveries') : deliveries'[k] = deliveries[j]
             \/ \E k \in 1..Len(queue') : queue'[k] = deliveries[j]
  <2>1. CASE j = i
    BY <1>3, <2>1
  <2>2. CASE j < i
    BY <1>2, <2>2
  <2>3. CASE j > i
    <3>1. j - 1 \in 1..Len(deliveries') /\ ~(j - 1 < i) /\ (j - 1) + 1 = j
      BY <1>2, <2>3
    <3>2. QED
      BY <1>2, <3>1
  <2>4. QED
    BY <2>1, <2>2, <2>3
<1>5. ASSUME NEW j \in 1..Len(deliveries')
      PROVE  \E k \in 1..Len(deliveries) : deliveries'[j] = deliveries[k]
  BY <1>2
<1>6. ASSUME NEW j \in 1..Len(queue'), NEW y, queue'[j] = y
      PROVE  \/ \E k \in 1..Len(queue) : queue[k] = y
             \/ \E k \in 1..Len(deliveries) : deliveries[k] = y
  BY <1>3, <1>6
<1>7. ASSUME NEW j \in 1..Len(queue)
      PROVE  \E k \in 1..Len(queue') : queue'[k] = queue[j]
  BY <1>3
<1>8. Due(x) => Due(x)'
  BY <1>1, <1>4, <1>7 DEF Due
<1>9. Due(x)' => Due(x)
  <2>1. (\E j \in 1..Len(deliveries') : deliveries'[j] = x) => Due(x)
    BY <1>5 DEF Due
  <2>2. (\E j \in 1..Len(queue') : queue'[j] = x) => Due(x)
    BY <1>6 DEF Due
  <2>3. QED
    BY <1>1, <2>1, <2>2 DEF Due
<1>10. QED
  BY <1>8, <1>9

(***************************************************************************)
(* A change is covered by its event, or does not concern the status.       *)
(***************************************************************************)
LEMMA ChangeKeepsInv ==
  ASSUME PipelineInv, TypeOK', NEW p, NEW c, NEW e \in Events, Emit(p, c, e),
         UNCHANGED <<statuses, queue, worker, forged>>, doubt' <=> doubt,
         e.type # "overwritten", HeadIsCommit',
         Watched' => Counts(e)' \/ (Watched /\ Steady)
  PROVE  PipelineInv'
<1>1. deliveries' = Append(deliveries, e) /\ \A w \in Evaluators : Kin(worker[w], worker'[w])
  BY DEF Emit, Kin
<1>2. /\ Due(e)'
      /\ \A x \in Events : Due(x) => Due(x)'
      /\ \A x \in Events : Due(x)' => Due(x) \/ x = e
  BY <1>1, AppendedIsDue DEF PipelineInv
<1>3. OverwrittenAreForged'
  BY <1>2 DEF PipelineInv, OverwrittenAreForged
<1>4. (\A w \in Evaluators : Orderly(w))'
  BY <1>1, OrderlyStays DEF PipelineInv, Orderly
<1>5. WholeAreLater'
  BY DEF PipelineInv, WholeAreLater, UnderWay, Evaluates
<1>6. ASSUME Watched' PROVE Awaited' \/ (StatusWillBeTrue' /\ EvaluationsAreSound')
  <2>1. CASE Counts(e)'
    BY <1>2, <2>1 DEF Awaited
  <2>2. CASE Watched /\ Steady
    <3>1. Awaited => Awaited'
      BY <1>2, <2>2, SteadyEvents DEF Awaited
    <3>2. Replaced => Replaced'
      BY <1>2, <2>2, SteadyEvents DEF Replaced
    <3>3. StatusIsTrue => StatusIsTrue'
      BY <2>2 DEF StatusIsTrue, Steady
    <3>4. \A w \in Evaluators : KeepsFaith(w) /\ KeepsPlace(w)
      BY <1>1, <2>2, SteadyEvaluator
    <3>5. QED
      BY <2>2, <3>1, <3>2, <3>3, <3>4, FaithStays
  <2>3. QED
    BY <1>6, <2>1, <2>2
<1>7. StatusWillBeTrue' /\ EvaluationsAreSound'
  BY <1>6 DEF StatusWillBeTrue, EvaluationsAreSound
<1>8. QED
  BY <1>3, <1>4, <1>5, <1>7 DEF PipelineInv

(* After a loss nothing is claimed until the next evaluation.               *)
LEMMA LossKeepsInv ==
  ASSUME PipelineInv, TypeOK', HeadIsCommit', forged \subseteq forged', doubt',
         \A w \in Evaluators : ~worker'[w].whole /\ Orderly(w)',
         \A x \in Events : Due(x)' /\ x.type = "overwritten" => Due(x)
  PROVE  PipelineInv'
<1>1. OverwrittenAreForged'
  BY DEF PipelineInv, OverwrittenAreForged
<1>2. StatusWillBeTrue' /\ EvaluationsAreSound' /\ WholeAreLater'
  BY DEF StatusWillBeTrue, EvaluationsAreSound, Trusted, WholeAreLater
<1>3. QED
  BY <1>1, <1>2 DEF PipelineInv

LEMMA DoubtedAreOrderly ==
  ASSUME PipelineInv, NEW w \in Evaluators, worker'[w] = Doubted[w], forged \subseteq forged'
  PROVE  ~worker'[w].whole /\ Orderly(w)' /\ Kin(worker[w], worker'[w])
<1>1. /\ Kin(worker[w], Doubted[w]) /\ ~Doubted[w].whole
      /\ Doubted[w].later = worker[w].later
  BY DoubtIsNoticed DEF PipelineInv
<1>2. w \notin worker[w].later
  BY DEF PipelineInv, Orderly
<1>3. QED
  BY <1>1, <1>2, OrderlyStays DEF PipelineInv

LEMMA IdleIsOrderly ==
  ASSUME NEW w, worker'[w] = Idle PROVE Orderly(w)' /\ ~worker'[w].whole
BY DEF Orderly, UnderWay, Idle

LEMMA PushKeepsInv ==
  ASSUME PipelineInv, TypeOK', NEW s \in Shas, Push(s) PROVE PipelineInv'
<1>0. PICK kept \in {pr.commits, {}} :
        LET p == [pr EXCEPT !.head = s, !.commits = kept \union {s}]
        IN  Change(p, checks, Event("payload", {"commit"}, Snapshot(p)))
  BY DEF Push
<1>1. PICK p, e :
        /\ p = [pr EXCEPT !.head = s, !.commits = kept \union {s}]
        /\ e = Event("payload", {"commit"}, Snapshot(p))
        /\ Change(p, checks, e)
  BY <1>0
<1>2. /\ pr' = p /\ pr'.head = s /\ pr'.commits = kept \union {s}
      /\ pr'.base = pr.base /\ pr'.open /\ pr.base \in Bases
  BY <1>1 DEF Change, Emit, Push, PipelineInv, TypeOK
<1>3. Snapshot(p) \in Snapshots
  BY <1>2, SnapshotsAreTyped DEF TypeOK, Snapshot, Snapshots
<1>4. e \in Events /\ e.type = "payload" /\ e.trigger = {"commit"} /\ e.snap = Snapshot(p)
  BY <1>1, <1>3 DEF Event, Events, Triggers
<1>5. Counts(e)'
  BY <1>2, <1>4, TriggerAssumption DEF Counts, Context, Snapshot, TitleIsCurrent
<1>6. HeadIsCommit'
  BY <1>2 DEF HeadIsCommit
<1>7. QED
  BY <1>1, <1>4, <1>5, <1>6, ChangeKeepsInv DEF Change

LEMMA DiscussKeepsInv ==
  ASSUME PipelineInv, TypeOK', NEW k \in Kinds, Discuss(k) PROVE PipelineInv'
<1>1. PICK v, p, e :
        /\ v \in Values
        /\ p = [pr EXCEPT !.facts[k] = v]
        /\ e = IF k = "label" THEN Event("payload", {k}, Snapshot(pr))
                              ELSE Event("live", {k}, NoSnapshot)
        /\ Change(p, checks, e)
  BY DEF Discuss
<1>2. /\ pr.base \in Bases /\ pr.facts \in Facts
      /\ pr'.head = pr.head /\ pr'.base = pr.base /\ pr'.commits = pr.commits
      /\ pr'.open = pr.open /\ pr'.title = pr.title
      /\ pr'.facts = [pr.facts EXCEPT ![k] = v] /\ checks' = checks /\ forged' = forged
  BY <1>1 DEF Change, Emit, PipelineInv, TypeOK
<1>3. /\ e \in Events /\ e.trigger = {k} /\ e.type \in {"payload", "live"}
      /\ e.type = "payload" => /\ e.snap.open = pr.open /\ Context(e.snap) = Context(pr)
                               /\ e.snap.title = pr.title
  <2>1. {k} \in SUBSET Triggers
    BY ConstantsAssumption DEF Triggers
  <2>2. QED
    BY <1>1, <2>1, SnapshotsAreTyped DEF Event, Events, PipelineInv, Snapshot, Context
<1>4. Context(pr)' = Context(pr) /\ HeadIsCommit'
  BY <1>2 DEF Context, PipelineInv, HeadIsCommit
<1>5. Watched' = Watched /\ (Watched => pr.open)
  BY <1>2 DEF Watched
<1>6. CASE k \in PolicyTrigger[pr.base]
  <2>1. Watched' => Counts(e)'
    BY <1>2, <1>3, <1>4, <1>5, <1>6 DEF Counts, TitleIsCurrent
  <2>2. QED
    BY <1>1, <1>3, <1>4, <2>1, ChangeKeepsInv DEF Change
<1>7. CASE k \notin PolicyTrigger[pr.base]
  <2>1. \A j \in Kinds \intersect PolicyTrigger[pr.base] :
          FactsOf(pr, checks, pr.head)'[j] = FactsOf(pr, checks, pr.head)[j]
    BY <1>2, <1>7 DEF FactsOf, Facts
  <2>2. Watched => Expected' = Expected
    BY <1>2, <1>4, <2>1, ExpectedDependsOnTriggers DEF PipelineInv
  <2>3. Watched => Steady
    BY <1>2, <1>4, <2>1, <2>2 DEF Steady
  <2>4. QED
    BY <1>1, <1>3, <1>4, <1>5, <2>3, ChangeKeepsInv DEF Change
<1>8. QED
  BY <1>6, <1>7

LEMMA CheckKeepsInv ==
  ASSUME PipelineInv, TypeOK', NEW s \in Shas, Check(s) PROVE PipelineInv'
<1> DEFINE snap == [NoSnapshot EXCEPT !.head = s]
           e == Event("status", {"status"}, snap)
<1>1. PICK v \in Values : Change(pr, [checks EXCEPT ![s] = v], e)
  BY DEF Check
<1>2. /\ pr' = pr /\ pr.base \in Bases /\ pr.head \in Shas /\ forged' = forged
      /\ checks' = [checks EXCEPT ![s] = v] /\ checks \in [Shas -> Values]
  BY <1>1 DEF Change, Emit, PipelineInv, TypeOK
<1>3. snap \in Snapshots /\ snap.head = s
  BY SnapshotsAreTyped DEF Snapshots
<1> HIDE DEF snap
<1>4. e \in Events /\ e.type = "status" /\ e.trigger = {"status"} /\ e.snap = snap
  BY <1>3 DEF Event, Events, Triggers
<1> HIDE DEF e
<1>5. /\ Context(pr)' = Context(pr) /\ HeadIsCommit' /\ HeadIsCommit
      /\ Watched' = Watched
  BY <1>2 DEF Context, PipelineInv, HeadIsCommit, Watched
<1>6. CASE s = pr.head /\ "status" \in PolicyTrigger[pr.base]
  <2>1. Counts(e)'
    BY <1>2, <1>3, <1>4, <1>5, <1>6 DEF Counts, HeadIsCommit
  <2>2. QED
    BY <1>1, <1>4, <1>5, <2>1, ChangeKeepsInv DEF Change
<1>7. CASE s # pr.head \/ "status" \notin PolicyTrigger[pr.base]
  <2>1. \A j \in Kinds \intersect PolicyTrigger[pr.base] :
          FactsOf(pr, checks, pr.head)'[j] = FactsOf(pr, checks, pr.head)[j]
    BY <1>2, <1>7 DEF FactsOf
  <2>2. Watched => Expected' = Expected
    BY <1>2, <1>5, <2>1, ExpectedDependsOnTriggers DEF PipelineInv
  <2>3. Watched => Steady
    BY <1>2, <1>5, <2>1, <2>2 DEF Steady
  <2>4. QED
    BY <1>1, <1>4, <1>5, <2>3, ChangeKeepsInv DEF Change
<1>8. QED
  BY <1>6, <1>7

(* A new base branch or title is evaluated, or does not matter, or passes   *)
(* unnoticed, which is a reason for doubt.                                  *)
LEMMA EditKeepsInv ==
  ASSUME PipelineInv, TypeOK', Edit PROVE PipelineInv'
<1>1. PICK b, t, p, e :
        /\ b \in Bases /\ t \in Titles
        /\ p = [pr EXCEPT !.base = b, !.title = t]
        /\ e = Event("payload", {"pull_request"}, Snapshot(p))
        /\ Emit(p, checks, e)
        /\ doubt' = (doubt \/ Unnoticed(b))
        /\ worker' = IF Unnoticed(b) THEN Doubted ELSE worker
        /\ UNCHANGED <<statuses, queue, seenPolicy, faults, forged>>
  BY DEF Edit
<1>2. /\ pr' = p /\ pr'.base = b /\ pr.base \in Bases /\ pr'.facts = pr.facts
      /\ pr'.head = pr.head /\ pr'.commits = pr.commits /\ pr'.open = pr.open
      /\ checks' = checks /\ pr'.title = t /\ deliveries' = Append(deliveries, e)
  BY <1>1 DEF Emit, PipelineInv, TypeOK
<1>3. Snapshot(p) \in Snapshots
  BY <1>2 DEF TypeOK, Snapshot, Snapshots
<1>4. e \in Events /\ e.type = "payload" /\ e.trigger = {"pull_request"} /\ e.snap = Snapshot(p)
  BY <1>1, <1>3 DEF Event, Events, Triggers
<1>5. HeadIsCommit'
  BY <1>2 DEF PipelineInv, HeadIsCommit
<1>6. CASE Unnoticed(b)
  <2>1. doubt' /\ worker' = Doubted
    BY <1>1, <1>6
  <2>2. \A w \in Evaluators : /\ ~worker'[w].whole /\ Orderly(w)'
                              /\ Kin(worker[w], worker'[w])
    BY <1>1, <2>1, DoubtedAreOrderly
  <2>3. \A x \in Events : Due(x)' => Due(x) \/ x = e
    BY <1>1, <1>2, <1>4, <2>2, AppendedIsDue DEF PipelineInv
  <2>4. QED
    BY <1>1, <1>4, <1>5, <2>1, <2>2, <2>3, LossKeepsInv
<1>7. CASE ~Unnoticed(b)
  <2>1. worker' = worker /\ (doubt' <=> doubt)
    BY <1>1, <1>7
  <2>2. CASE "pull_request" \in PolicyTrigger[b] \/ Policy[b] # "valid"
    <3>1. Watched' => Counts(e)'
      BY <1>2, <1>4, <2>2 DEF Counts, Watched, Snapshot, Context, TitleIsCurrent
    <3>2. QED
      BY <1>1, <1>4, <1>5, <2>1, <3>1, ChangeKeepsInv
  <2>3. CASE "pull_request" \notin PolicyTrigger[b] /\ Policy[b] = "valid"
    <3>1. b = pr.base
      BY <1>7, <2>3 DEF Unnoticed
    <3>2. Context(pr)' = Context(pr) /\ Watched' = Watched /\ ~ReadsTitle(pr.base)
      BY <1>2, <2>3, <3>1 DEF Context, Watched, ReadsTitle
    <3>3. FactsOf(pr, checks, pr.head)' = FactsOf(pr, checks, pr.head)
      BY <1>2 DEF FactsOf
    <3>4. Watched => Expected' = Expected
      BY <3>2, <3>3, ExpectedDependsOnTriggers DEF PipelineInv
    <3>5. Watched => Steady
      BY <1>1, <1>2, <3>2, <3>3, <3>4 DEF Steady
    <3>6. QED
      BY <1>1, <1>4, <1>5, <2>1, <3>2, <3>5, ChangeKeepsInv
  <2>4. QED
    BY <2>2, <2>3
<1>8. QED
  BY <1>6, <1>7

LEMMA CloseOrReopenKeepsInv ==
  ASSUME PipelineInv, TypeOK', Close \/ Reopen PROVE PipelineInv'
<1>1. CASE Close
  <2>1. ~Watched' /\ HeadIsCommit'
    BY <1>1 DEF Close, Watched, PipelineInv, HeadIsCommit, TypeOK
  <2>2. UNCHANGED <<deliveries, queue, worker, forged>>
    BY <1>1 DEF Close, history
  <2>3. OverwrittenAreForged'
    BY <2>2 DEF PipelineInv, OverwrittenAreForged, Due
  <2>4. (\A w \in Evaluators : Orderly(w))'
    BY <2>2, OrderlyStays DEF PipelineInv, Orderly, Kin
  <2>5. WholeAreLater'
    BY <2>2 DEF PipelineInv, WholeAreLater, UnderWay, Evaluates
  <2>6. QED
    BY <2>1, <2>3, <2>4, <2>5 DEF PipelineInv, StatusWillBeTrue, EvaluationsAreSound
<1>2. CASE Reopen
  <2>1. PICK p, e : p = [pr EXCEPT !.open = TRUE] /\ e = Opened(Snapshot(p))
                    /\ Change(p, checks, e)
    BY <1>2 DEF Reopen
  <2>2. /\ pr' = p /\ pr'.base = pr.base /\ pr.base \in Bases
        /\ pr'.head = pr.head /\ pr'.commits = pr.commits /\ pr'.open
    BY <2>1 DEF Change, Emit, PipelineInv, TypeOK
  <2>3. Snapshot(p) \in Snapshots
    BY <2>2 DEF TypeOK, Snapshot, Snapshots
  <2>4. /\ e \in Events /\ e.type = "payload" /\ e.trigger = {"commit", "pull_request"}
        /\ e.snap = Snapshot(p)
    BY <2>1, <2>3, EventsAreTyped DEF Opened, Event
  <2>5. Counts(e)'
    BY <2>2, <2>4, TriggerAssumption DEF Counts, Context, Snapshot, TitleIsCurrent
  <2>6. HeadIsCommit'
    BY <2>2 DEF PipelineInv, HeadIsCommit
  <2>7. QED
    BY <2>1, <2>4, <2>5, <2>6, ChangeKeepsInv DEF Change
<1>3. QED
  BY <1>1, <1>2

(* A forged status is followed by the event that makes policy-bot replace it. *)
LEMMA ForgeKeepsInv ==
  ASSUME PipelineInv, TypeOK', NEW c \in Contexts, Forge(c) PROVE PipelineInv'
<1> DEFINE snap == [NoSnapshot EXCEPT !.head = c[1], !.base = c[2]]
           e == Event("overwritten", {}, snap)
<1>1. snap \in Snapshots /\ Context(snap) = c
  <2>1. c[1] \in Shas /\ c[2] \in Bases /\ c = <<c[1], c[2]>>
    BY DEF Contexts
  <2>2. QED
    BY <2>1, SnapshotsAreTyped DEF Snapshots, Context
<1>2. /\ deliveries' = Append(deliveries, e) /\ forged' = forged \union {c}
      /\ statuses' = [statuses EXCEPT ![c] = "success"] /\ statuses \in [Contexts -> States]
      /\ UNCHANGED <<pr, checks, queue, worker, doubt>>
  BY DEF Forge, PipelineInv, TypeOK
<1> HIDE DEF snap
<1>3. e \in Events /\ e.type = "overwritten" /\ e.snap = snap
  BY <1>1 DEF Event, Events
<1> HIDE DEF e
<1>4. \A w \in Evaluators : Kin(worker[w], worker'[w])
  BY <1>2 DEF Kin
<1>5. /\ Due(e)'
      /\ \A x \in Events : Due(x) => Due(x)'
      /\ \A x \in Events : Due(x)' => Due(x) \/ x = e
  BY <1>2, <1>3, <1>4, AppendedIsDue DEF PipelineInv
<1>6. Steady /\ Watched' = Watched
  BY <1>2, SamePullRequest
<1>7. HeadIsCommit'
  BY <1>2 DEF PipelineInv, HeadIsCommit
<1>8. OverwrittenAreForged'
  BY <1>1, <1>2, <1>3, <1>5 DEF PipelineInv, OverwrittenAreForged, Context
<1>9. (\A w \in Evaluators : Orderly(w))'
  BY <1>2, <1>4, OrderlyStays DEF PipelineInv, Orderly
<1>10. \A w \in Evaluators : KeepsFaith(w) /\ KeepsPlace(w)
  BY <1>2, <1>4, <1>6, SteadyEvaluator
<1>11. WholeAreLater'
  BY <1>10, PlacesStay
<1>12. Awaited => Awaited'
  BY <1>5, <1>6, SteadyEvents DEF Awaited
<1>13. StatusIsTrue \/ Replaced => StatusIsTrue' \/ Replaced'
  <2>1. Replaced => Replaced'
    BY <1>5, <1>6, SteadyEvents DEF Replaced
  <2>2. CASE c = Context(pr)
    <3>1. Replaces(e)
      BY <1>1, <1>3, <2>2 DEF Replaces
    <3>2. Replaced'
      BY <1>3, <1>5, <1>6, <3>1, SteadyEvents DEF Replaced
    <3>3. QED
      BY <3>2
  <2>3. CASE c # Context(pr)
    <3>1. StatusIsTrue => StatusIsTrue'
      BY <1>2, <1>6, <2>3 DEF StatusIsTrue, Steady
    <3>2. QED
      BY <2>1, <3>1
  <2>4. QED
    BY <2>2, <2>3
<1>14. StatusWillBeTrue' /\ EvaluationsAreSound'
  BY <1>2, <1>6, <1>10, <1>12, <1>13, FaithStays
<1>15. QED
  BY <1>7, <1>8, <1>9, <1>11, <1>14 DEF PipelineInv

LEMMA PeopleKeepInv == ASSUME PipelineInv, TypeOK', People PROVE PipelineInv'
BY PushKeepsInv, CheckKeepsInv, DiscussKeepsInv, EditKeepsInv, CloseOrReopenKeepsInv,
   ForgeKeepsInv DEF People

LEMMA ScheduleKeepsInv ==
  ASSUME PipelineInv, TypeOK', NEW i \in 1..Len(deliveries), Schedule(i)
  PROVE  PipelineInv'
<1>1. UNCHANGED <<pr, checks, statuses, worker, doubt, forged>>
  BY DEF Schedule, github, history
<1>2. \A x \in Events : Due(x)' <=> Due(x)
  BY ScheduledStaysDue DEF PipelineInv
<1>3. Steady /\ Watched' = Watched
  BY <1>1, SamePullRequest
<1>4. \A w \in Evaluators : Kin(worker[w], worker'[w])
  BY <1>1 DEF Kin
<1>5. HeadIsCommit' /\ OverwrittenAreForged'
  BY <1>1, <1>2 DEF PipelineInv, HeadIsCommit, OverwrittenAreForged
<1>6. (\A w \in Evaluators : Orderly(w))'
  BY <1>1, <1>4, OrderlyStays DEF PipelineInv, Orderly
<1>7. \A w \in Evaluators : KeepsFaith(w) /\ KeepsPlace(w)
  BY <1>1, <1>3, <1>4, SteadyEvaluator
<1>8. Awaited => Awaited'
  BY <1>2, <1>3, SteadyEvents DEF Awaited
<1>9. Replaced => Replaced'
  BY <1>2, <1>3, SteadyEvents DEF Replaced
<1>10. StatusIsTrue => StatusIsTrue'
  BY <1>1, <1>3 DEF StatusIsTrue, Steady
<1>11. StatusWillBeTrue' /\ EvaluationsAreSound' /\ WholeAreLater'
  BY <1>1, <1>3, <1>7, <1>8, <1>9, <1>10, FaithStays, PlacesStay
<1>12. QED
  BY <1>5, <1>6, <1>11 DEF PipelineInv

LEMMA DropEventKeepsInv ==
  ASSUME PipelineInv, TypeOK', NEW i \in 1..Len(deliveries), DropEvent(i)
  PROVE  PipelineInv'
<1>1. /\ UNCHANGED <<pr, queue, forged>> /\ doubt' /\ deliveries' = DropAt(deliveries, i)
      /\ worker' = Doubted
  BY DEF DropEvent, github
<1>2. \A w \in Evaluators : /\ ~worker'[w].whole /\ Orderly(w)'
                            /\ Kin(worker[w], worker'[w])
  BY <1>1, DoubtedAreOrderly
<1>3. deliveries \in Seq(Events)
  BY DEF PipelineInv, TypeOK
<1>4. /\ Len(deliveries') = Len(deliveries) - 1 /\ Len(deliveries) \in Nat
      /\ \A j \in 1..(Len(deliveries) - 1) :
           deliveries'[j] = IF j < i THEN deliveries[j] ELSE deliveries[j + 1]
  <2>1. /\ Len(DropAt(deliveries, i)) = Len(deliveries) - 1
        /\ \A j \in 1..(Len(deliveries) - 1) : DropAt(deliveries, i)[j] =
             IF j < i THEN deliveries[j] ELSE deliveries[j + 1]
    BY <1>3, DropAtProperties
  <2>2. Len(deliveries) \in Nat
    BY <1>3
  <2>3. QED
    BY <1>1, <2>1, <2>2
<1>5. ASSUME NEW j \in 1..Len(deliveries')
      PROVE  \E k \in 1..Len(deliveries) : deliveries'[j] = deliveries[k]
  BY <1>4
<1>6. \A x \in Events : Due(x)' => Due(x)
  BY <1>1, <1>2, <1>5 DEF Due, Kin
<1>7. HeadIsCommit'
  BY <1>1 DEF PipelineInv, HeadIsCommit
<1>8. QED
  BY <1>1, <1>2, <1>6, <1>7, LossKeepsInv

LEMMA FaultsKeepInv ==
  ASSUME PipelineInv, TypeOK',
         Restart \/ \E w \in Evaluators : LoadFails(w) \/ ReadFails(w) \/ PostFails(w)
  PROVE  PipelineInv'
<1>1. /\ UNCHANGED <<pr, deliveries, forged>> /\ doubt'
      /\ worker \in [Evaluators -> WorkerStates]
  BY DEF Restart, LoadFails, ReadFails, PostFails, Fault, github, PipelineInv, TypeOK
<1>2. HeadIsCommit'
  BY <1>1 DEF PipelineInv, HeadIsCommit
<1>3. CASE Restart
  <2>1. queue' = <<>> /\ worker' = [v \in Evaluators |-> Idle]
    BY <1>3 DEF Restart
  <2>2. \A x \in Events : Due(x)' => Due(x)
    BY <1>1, <2>1 DEF Due, Idle
  <2>3. \A v \in Evaluators : Orderly(v)' /\ ~worker'[v].whole
    BY <2>1, IdleIsOrderly
  <2>4. QED
    BY <1>1, <1>2, <2>2, <2>3, LossKeepsInv
<1>4. ASSUME NEW w \in Evaluators, LoadFails(w) \/ ReadFails(w) \/ PostFails(w)
      PROVE  PipelineInv'
  <2>1. /\ queue' = queue
        /\ \E next : /\ ~next.whole
                     /\ \/ next = Idle
                        \/ /\ next.stage = "posting" /\ next.later = worker[w].later
                           /\ next.event = worker[w].event
                     /\ worker' = [Doubted EXCEPT ![w] = next]
    <3>0. worker[w] \in WorkerStates
      BY <1>1
    <3>1. CASE LoadFails(w)
      <4> DEFINE error == [worker[w] EXCEPT !.stage = "posting", !.state = "error",
                                            !.snap = Located(worker[w].event)]
      <4>1. worker' = [Doubted EXCEPT ![w] = Idle] \/ worker' = [Doubted EXCEPT ![w] = error]
        BY <3>0, <3>1 DEF LoadFails, WorkerStates
      <4>2. ~worker[w].whole
        BY <3>1 DEF LoadFails, PipelineInv, Orderly
      <4>3. /\ ~error.whole /\ error.stage = "posting" /\ error.later = worker[w].later
            /\ error.event = worker[w].event
        BY <3>0, <4>2 DEF WorkerStates
      <4>4. ~Idle.whole /\ queue' = queue
        BY <3>1 DEF Idle, LoadFails
      <4> HIDE DEF error
      <4>5. QED
        BY <4>1, <4>3, <4>4
    <3>2. CASE ReadFails(w)
      <4> DEFINE error == [worker[w] EXCEPT !.stage = "posting", !.state = "error",
                                            !.unread = {}, !.whole = FALSE]
      <4>1. worker' = [Doubted EXCEPT ![w] = error] /\ queue' = queue
        BY <3>2 DEF ReadFails
      <4>2. /\ ~error.whole /\ error.stage = "posting" /\ error.later = worker[w].later
            /\ error.event = worker[w].event
        BY <3>0 DEF WorkerStates
      <4> HIDE DEF error
      <4>3. QED
        BY <4>1, <4>2
    <3>3. CASE PostFails(w)
      <4>1. worker' = [Doubted EXCEPT ![w] = Idle] /\ queue' = queue /\ ~Idle.whole
        BY <3>3 DEF PostFails, Idle
      <4>2. QED
        BY <4>1
    <3>4. QED
      BY <1>4, <3>1, <3>2, <3>3
  <2>2. PICK next : /\ ~next.whole
                    /\ \/ next = Idle
                       \/ /\ next.stage = "posting" /\ next.later = worker[w].later
                          /\ next.event = worker[w].event
                    /\ worker' = [Doubted EXCEPT ![w] = next]
    BY <2>1
  <2>3. /\ worker'[w] = next
        /\ \A v \in Evaluators \ {w} : worker'[v] = Doubted[v]
    BY <2>2 DEF Doubted
  <2>4. ASSUME NEW v \in Evaluators \ {w}
        PROVE  ~worker'[v].whole /\ Orderly(v)' /\ Kin(worker[v], worker'[v])
    BY <1>1, <2>3, DoubtedAreOrderly
  <2>5. Orderly(w)'
    <3>1. CASE next = Idle
      BY <2>3, <3>1, IdleIsOrderly
    <3>2. CASE next # Idle
      <4>1. /\ next.stage = "posting" /\ next.later = worker[w].later
            /\ next.event = worker[w].event
        BY <2>2, <3>2
      <4>2. Evaluates(w)
        <5>1. worker[w].stage = "taken" \/ worker[w].stage = "reading" \/ PostFails(w)
          BY <1>4 DEF LoadFails, ReadFails
        <5>2. ~PostFails(w)
          <6> SUFFICES ASSUME PostFails(w) PROVE FALSE
            OBVIOUS
          <6>1. worker'[w] = Idle
            BY DEF PostFails, Doubted
          <6>2. QED
            BY <2>3, <3>2, <6>1
        <5>3. QED
          BY <5>1, <5>2 DEF PipelineInv, Orderly, UnderWay
      <4>3. QED
        BY <2>3, <4>1, <4>2 DEF PipelineInv, Orderly, Evaluates, UnderWay
    <3>3. QED
      BY <3>1, <3>2
  <2>6. \A v \in Evaluators : ~worker'[v].whole /\ Orderly(v)'
    BY <2>2, <2>3, <2>4, <2>5
  <2>7. \A v \in Evaluators : worker'[v].stage = "taken" =>
          worker[v].stage = "taken" /\ worker'[v].event = worker[v].event
    <3>1. worker'[w].stage # "taken"
      BY <2>2, <2>3 DEF Idle
    <3>2. QED
      BY <2>4, <3>1 DEF Kin
  <2>8. \A x \in Events : Due(x)' => Due(x)
    BY <1>1, <2>1, <2>7 DEF Due
  <2>9. QED
    BY <1>1, <1>2, <2>6, <2>8, LossKeepsInv
<1>5. QED
  BY <1>3, <1>4

(* Whoever took an event posts it later, or replaces the forged status.     *)
LEMMA TakeKeepsInv ==
  ASSUME PipelineInv, TypeOK', NEW w \in Evaluators, Take(w) PROVE PipelineInv'
<1>1. PICK e, snap, next :
        /\ e = Head(queue)
        /\ snap = [e.snap EXCEPT !.open = TRUE]
        /\ next = IF e.type = "overwritten"
                    THEN [Idle EXCEPT !.stage = "posting", !.event = e,
                                      !.state = "failure", !.snap = snap]
                    ELSE [Idle EXCEPT !.stage = "taken", !.event = e]
        /\ worker' = [worker EXCEPT ![w] = next]
        /\ queue' = Tail(queue)
        /\ worker[w].stage = "idle" /\ queue # <<>>
        /\ UNCHANGED <<pr, checks, statuses, deliveries, doubt, forged>>
  BY DEF Take, github, history
<1>2. queue \in Seq(Events) /\ worker \in [Evaluators -> WorkerStates]
  BY DEF PipelineInv, TypeOK
<1>3. /\ e \in Events /\ Len(queue) \in Nat /\ Len(queue) >= 1 /\ queue[1] = e
      /\ Len(queue') = Len(queue) - 1
      /\ \A i \in 1..(Len(queue) - 1) : queue'[i] = queue[i + 1]
  BY <1>1, <1>2
<1>4. Due(e)
  BY <1>3 DEF Due
<1>5. e.snap \in Snapshots
  BY <1>3 DEF Events
<1>6. snap.open /\ Context(snap) = Context(e.snap)
  BY <1>1, <1>5 DEF Snapshots, Context
<1>7. /\ ~next.whole /\ next.event = e /\ next.later = {}
      /\ e.type # "overwritten" => next.stage = "taken"
      /\ e.type = "overwritten" =>
           next.stage = "posting" /\ next.state = "failure" /\ next.snap = snap
  BY <1>1 DEF Idle
<1>8. worker'[w] = next /\ \A v \in Evaluators \ {w} : worker'[v] = worker[v]
  BY <1>1, <1>2
<1>9. Steady /\ Watched' = Watched
  BY <1>1, SamePullRequest
<1>10. ASSUME NEW x \in Events, Due(x)' PROVE Due(x)
  <2>1. ASSUME NEW i \in 1..Len(queue') PROVE \E j \in 1..Len(queue) : queue[j] = queue'[i]
    BY <1>3
  <2>2. CASE \E i \in 1..Len(queue') : queue'[i] = x
    BY <2>1, <2>2 DEF Due
  <2>3. CASE \E v \in Evaluators : worker'[v].stage = "taken" /\ worker'[v].event = x
    BY <1>4, <1>7, <1>8, <2>3 DEF Due
  <2>4. QED
    BY <1>1, <1>10, <2>2, <2>3 DEF Due
<1>11. ASSUME NEW x \in Events, Due(x), x # e PROVE Due(x)'
  <2>1. ASSUME NEW i \in 1..Len(queue), queue[i] = x
        PROVE  \E j \in 1..Len(queue') : queue'[j] = x
    <3>1. i - 1 \in 1..Len(queue') /\ (i - 1) + 1 = i
      BY <1>3, <1>11, <2>1
    <3>2. QED
      BY <1>3, <2>1, <3>1
  <2>2. \A v \in Evaluators : worker[v].stage = "taken" =>
          worker'[v].stage = "taken" /\ worker'[v].event = worker[v].event
    BY <1>1, <1>8
  <2>3. QED
    BY <1>1, <1>11, <2>1, <2>2 DEF Due
<1>12. HeadIsCommit' /\ OverwrittenAreForged'
  BY <1>1, <1>10 DEF PipelineInv, HeadIsCommit, OverwrittenAreForged
<1>13. e.type = "overwritten" => Context(e.snap) \in forged
  BY <1>3, <1>4 DEF PipelineInv, OverwrittenAreForged
<1>14. Evaluates(w)' <=> e.type # "overwritten"
  BY <1>7, <1>8 DEF Evaluates
<1>15. \A v \in Evaluators \ {w} : /\ Kin(worker[v], worker'[v])
                                   /\ worker'[v].whole = worker[v].whole
  BY <1>8 DEF Kin
<1>16. (\A v \in Evaluators : Orderly(v))'
  <2>1. ASSUME NEW v \in Evaluators \ {w} PROVE Orderly(v)'
    <3>1. Orderly(v) /\ v \notin worker'[v].later
      BY <1>8 DEF PipelineInv, Orderly
    <3>2. QED
      BY <1>1, <1>15, <3>1, OrderlyStays
  <2>2. Orderly(w)'
    <3>1. w \notin worker'[w].later /\ ~worker'[w].whole
      BY <1>7, <1>8
    <3>2. worker'[w].stage = "taken" => Evaluates(w)'
      BY <1>7, <1>8, <1>14
    <3>3. ~Evaluates(w)' =>
            /\ worker'[w].stage = "posting" /\ worker'[w].state = "failure"
            /\ Context(worker[w].snap)' \in forged'
      <4> SUFFICES ASSUME ~Evaluates(w)'
                   PROVE  /\ worker'[w].stage = "posting" /\ worker'[w].state = "failure"
                          /\ Context(worker[w].snap)' \in forged'
        OBVIOUS
      <4>1. e.type = "overwritten"
        BY <1>14
      <4>2. worker'[w].stage = "posting" /\ worker'[w].state = "failure"
        BY <1>7, <1>8, <4>1
      <4>3. Context(worker'[w].snap) = Context(e.snap)
        BY <1>6, <1>7, <1>8, <4>1
      <4>4. Context(worker[w].snap)' = Context(worker'[w].snap)
        BY DEF Context
      <4>5. QED
        BY <1>1, <1>13, <4>1, <4>2, <4>3, <4>4
    <3>4. QED
      BY <3>1, <3>2, <3>3 DEF Orderly
  <2>3. QED
    BY <2>1, <2>2
<1>17. ~UnderWay(w) /\ (UnderWay(w)' => ~Evaluates(w)')
  BY <1>1, <1>7, <1>8, <1>14 DEF UnderWay
<1>18. ~Sound(w) /\ ~Trusted(w)'
  BY <1>17 DEF Sound, Trusted, UnderWay
<1>19. \A v \in Evaluators : KeepsFaith(v) /\ KeepsPlace(v)
  <2>1. KeepsFaith(w) /\ KeepsPlace(w)
    BY <1>17, <1>18 DEF KeepsFaith, KeepsPlace
  <2>2. QED
    BY <1>1, <1>9, <1>15, <2>1, SteadyEvaluator
<1>20. ASSUME Replaces(e) PROVE Sound(w)'
  <2>1. Context(pr) \in forged /\ Context(snap) = Context(pr)
    BY <1>6, <1>13, <1>20 DEF Replaces
  <2>2. /\ worker'[w].snap.open /\ worker'[w].stage = "posting"
        /\ worker'[w].state = "failure" /\ worker'[w].snap = snap
    BY <1>6, <1>7, <1>8, <1>20 DEF Replaces
  <2>3. Context(worker[w].snap)' = Context(pr)'
    BY <1>9, <2>1, <2>2 DEF Context, Steady
  <2>4. Rightly(worker[w].state)'
    BY <1>1, <1>9, <2>1, <2>2 DEF Rightly, Steady
  <2>5. QED
    BY <2>2, <2>3, <2>4 DEF Sound
<1>21. e.type # "overwritten" => Due(e)'
  BY <1>7, <1>8 DEF Due
<1>22. Awaited => Awaited'
  BY <1>9, <1>11, <1>21, SteadyEvents DEF Awaited, Counts
<1>23. Replaced => Replaced' \/ Sound(w)'
  BY <1>9, <1>11, <1>20, SteadyEvents DEF Replaced
<1>24. StatusIsTrue => StatusIsTrue'
  BY <1>1, <1>9 DEF StatusIsTrue, Steady
<1>25. StatusWillBeTrue' /\ EvaluationsAreSound' /\ WholeAreLater'
  BY <1>1, <1>9, <1>19, <1>22, <1>23, <1>24, FaithStays, PlacesStay
<1>26. QED
  BY <1>12, <1>16, <1>25 DEF PipelineInv

(* What a step of one evaluator leaves alone, if it puts no event in hand.  *)
LEMMA WorkerStep ==
  ASSUME PipelineInv, NEW w \in Evaluators,
         UNCHANGED <<pr, checks, deliveries, queue, forged>>,
         \A v \in Evaluators \ {w} : /\ Kin(worker[v], worker'[v])
                                     /\ v \notin worker'[v].later,
         worker'[w].stage # "taken", Orderly(w)'
  PROVE  /\ Steady /\ Watched' = Watched
         /\ \A x \in Events : Due(x) =>
              Due(x)' \/ (worker[w].stage = "taken" /\ x = worker[w].event)
         /\ HeadIsCommit' /\ OverwrittenAreForged' /\ (\A v \in Evaluators : Orderly(v))'
<1>1. \A x \in Events : Due(x)' => Due(x)
  BY DEF Due, Kin
<1>2. \A x \in Events : Due(x) =>
        Due(x)' \/ (worker[w].stage = "taken" /\ x = worker[w].event)
  BY DEF Due, Kin
<1>3. HeadIsCommit' /\ OverwrittenAreForged'
  BY <1>1 DEF PipelineInv, HeadIsCommit, OverwrittenAreForged
<1>4. (\A v \in Evaluators : Orderly(v))'
  BY OrderlyStays DEF PipelineInv
<1>5. QED
  BY <1>2, <1>3, <1>4, SamePullRequest

LEMMA ViewKeepsInv ==
  ASSUME PipelineInv, TypeOK', NEW w \in Evaluators, View(w) PROVE PipelineInv'
<1>1. PICK next :
        /\ next.stage = "taken" /\ next.event = Event("live", Triggers, NoSnapshot)
        /\ ~next.whole /\ next.later = {}
        /\ worker' = [worker EXCEPT ![w] = next]
        /\ worker[w].stage = "idle"
        /\ UNCHANGED <<pr, checks, statuses, deliveries, queue, doubt, forged>>
  <2> DEFINE e == Event("live", Triggers, NoSnapshot)
             taken == [Idle EXCEPT !.stage = "taken", !.event = e]
  <2>1. /\ worker' = [worker EXCEPT ![w] = taken] /\ worker[w].stage = "idle"
        /\ UNCHANGED <<pr, checks, statuses, deliveries, queue, doubt, forged>>
    BY DEF View, github, history
  <2> HIDE DEF e
  <2>2. taken.stage = "taken" /\ taken.event = e /\ ~taken.whole /\ taken.later = {}
    BY DEF Idle
  <2> HIDE DEF taken
  <2>3. QED
    BY <2>1, <2>2 DEF e
<1>2. worker'[w] = next /\ \A v \in Evaluators \ {w} : worker'[v] = worker[v]
  BY <1>1 DEF PipelineInv, TypeOK
<1>3. Steady /\ Watched' = Watched
  BY <1>1, SamePullRequest
<1>4. \A x \in Events : Due(x) => Due(x)'
  BY <1>1, <1>2 DEF Due
<1>5. \A x \in Events : Due(x)' => Due(x) \/ x.type = "live"
  BY <1>1, <1>2 DEF Due, Event
<1>6. HeadIsCommit' /\ OverwrittenAreForged'
  BY <1>1, <1>5 DEF PipelineInv, HeadIsCommit, OverwrittenAreForged
<1>7. \A v \in Evaluators \ {w} : /\ Kin(worker[v], worker'[v])
                                  /\ worker'[v].whole = worker[v].whole
  BY <1>2 DEF Kin
<1>8. (\A v \in Evaluators : Orderly(v))'
  <2>1. ASSUME NEW v \in Evaluators \ {w} PROVE Orderly(v)'
    <3>1. Orderly(v) /\ v \notin worker'[v].later
      BY <1>2 DEF PipelineInv, Orderly
    <3>2. QED
      BY <1>1, <1>7, <3>1, OrderlyStays
  <2>2. Orderly(w)'
    BY <1>1, <1>2 DEF Orderly, UnderWay, Evaluates, Event
  <2>3. QED
    BY <2>1, <2>2
<1>9. \A v \in Evaluators : KeepsFaith(v) /\ KeepsPlace(v)
  <2>1. ~UnderWay(w) /\ ~UnderWay(w)'
    BY <1>1, <1>2 DEF UnderWay
  <2>2. KeepsFaith(w) /\ KeepsPlace(w)
    BY <2>1 DEF KeepsFaith, KeepsPlace, Sound, Trusted, UnderWay
  <2>3. QED
    BY <1>1, <1>3, <1>7, <2>2, SteadyEvaluator
<1>10. (Awaited => Awaited') /\ (Replaced => Replaced')
  BY <1>3, <1>4, SteadyEvents DEF Awaited, Replaced
<1>11. StatusIsTrue => StatusIsTrue'
  BY <1>1, <1>3 DEF StatusIsTrue, Steady
<1>12. StatusWillBeTrue' /\ EvaluationsAreSound' /\ WholeAreLater'
  BY <1>1, <1>3, <1>9, <1>10, <1>11, FaithStays, PlacesStay
<1>13. QED
  BY <1>6, <1>8, <1>12 DEF PipelineInv

(* A skipped event is none that counts.                                     *)
LEMMA SkipKeepsInv ==
  ASSUME PipelineInv, TypeOK', NEW w \in Evaluators, Skip(w) PROVE PipelineInv'
<1> DEFINE e == worker[w].event
<1>1. /\ worker' = [worker EXCEPT ![w] = Idle] /\ Idle.stage = "idle"
      /\ UNCHANGED <<pr, checks, statuses, deliveries, queue, doubt, forged>>
      /\ worker[w].stage = "taken"
  BY DEF Skip, Finish, Idle, github, history
<1>2. worker'[w] = Idle /\ \A v \in Evaluators \ {w} : worker'[v] = worker[v]
  BY <1>1 DEF PipelineInv, TypeOK
<1>3. \A v \in Evaluators \ {w} : /\ Kin(worker[v], worker'[v])
                                  /\ worker'[v].whole = worker[v].whole
                                  /\ v \notin worker'[v].later
  BY <1>2 DEF Kin, PipelineInv, Orderly
<1>4. Orderly(w)'
  BY <1>2, IdleIsOrderly
<1>5. /\ Steady /\ Watched' = Watched
      /\ \A x \in Events : Due(x) => Due(x)' \/ x = worker[w].event
      /\ HeadIsCommit' /\ OverwrittenAreForged' /\ (\A v \in Evaluators : Orderly(v))'
  BY <1>1, <1>2, <1>3, <1>4, WorkerStep
<1>6. Watched /\ Counts(e) => FALSE
  <2>1. SUFFICES ASSUME Watched, Counts(e) PROVE FALSE
    OBVIOUS
  <2>2. Listed(e)
    BY <2>1 DEF Listed, Counts, Watched
  <2>3. Located(e).base = pr.base
    BY <2>1 DEF Located, Counts, Context, Snapshot
  <2>4. \/ Policy[pr.base] = "missing"
        \/ Policy[pr.base] = "valid" /\ e.trigger \intersect PolicyTrigger[pr.base] = {}
    BY <2>2, <2>3 DEF Skip
  <2>5. QED
    BY <2>1, <2>4 DEF Watched, Counts
<1>7. ~Replaces(e)
  BY <1>1 DEF PipelineInv, Orderly, Evaluates, Replaces
<1>8. \A v \in Evaluators : KeepsFaith(v) /\ KeepsPlace(v)
  <2>1. ~UnderWay(w) /\ ~UnderWay(w)'
    BY <1>1, <1>2 DEF UnderWay
  <2>2. KeepsFaith(w) /\ KeepsPlace(w)
    BY <2>1 DEF KeepsFaith, KeepsPlace, Sound, Trusted, UnderWay
  <2>3. QED
    BY <1>1, <1>3, <1>5, <2>2, SteadyEvaluator
<1>9. Watched /\ Awaited => Awaited'
  BY <1>5, <1>6, SteadyEvents DEF Awaited
<1>10. Replaced => Replaced'
  BY <1>5, <1>7, SteadyEvents DEF Replaced
<1>11. StatusIsTrue => StatusIsTrue'
  BY <1>1, <1>5 DEF StatusIsTrue, Steady
<1>12. StatusWillBeTrue' /\ EvaluationsAreSound' /\ WholeAreLater'
  BY <1>1, <1>5, <1>8, <1>9, <1>10, <1>11, FaithStays, PlacesStay
<1>13. QED
  BY <1>5, <1>12 DEF PipelineInv

(* What an evaluator is when it begins.                                     *)
Begun(w) ==
  /\ worker'[w].snap = Located(worker[w].event)
  /\ worker'[w].whole /\ worker'[w].event = worker[w].event
  /\ worker'[w].later = worker[w].later
  /\ \/ /\ Policy[worker'[w].snap.base] = "invalid"
        /\ worker'[w].stage = "posting" /\ worker'[w].state = "error"
     \/ /\ Policy[worker'[w].snap.base] = "valid"
        /\ worker'[w].stage = "reading" /\ worker'[w].unread = Groups

LEMMA EvaluationBegins ==
  ASSUME TypeOK, NEW w \in Evaluators, RejectPolicy(w) \/ StartEvaluation(w)
  PROVE  /\ Begun(w)
         /\ \A v \in Evaluators \ {w} :
              /\ Kin(worker[v], worker'[v])
              /\ worker'[v].whole = worker[v].whole
              /\ worker'[v].later \subseteq worker[v].later \union {w}
              /\ UnderWay(v) => w \in worker'[v].later
<1> DEFINE snap == Located(worker[w].event)
<1>1. snap \in Snapshots /\ worker[w] \in WorkerStates
  BY LocatedIsTyped DEF TypeOK
<1>2. CASE RejectPolicy(w)
  <2> DEFINE next == [worker[w] EXCEPT !.stage = "posting", !.snap = snap, !.state = "error"]
  <2>1. Begin(w, next) /\ Policy[snap.base] = "invalid"
    BY <1>2, ZenonT(30) DEF RejectPolicy
  <2> HIDE DEF snap
  <2>2. next \in WorkerStates
    BY <1>1 DEF WorkerStates, States
  <2>3. LET n == [next EXCEPT !.whole = TRUE] IN
          /\ n.snap = snap /\ n.whole /\ n.event = worker[w].event
          /\ n.later = worker[w].later /\ n.stage = "posting" /\ n.state = "error"
    BY <1>1 DEF WorkerStates
  <2> HIDE DEF next
  <2>4. /\ worker'[w] = [next EXCEPT !.whole = TRUE]
        /\ \A v \in Evaluators \ {w} :
              /\ Kin(worker[v], worker'[v])
              /\ worker'[v].whole = worker[v].whole
              /\ worker'[v].later \subseteq worker[v].later \union {w}
              /\ UnderWay(v) => w \in worker'[v].later
    BY <2>1, <2>2, BeginIsNoticed
  <2>5. QED
    BY <2>1, <2>3, <2>4 DEF Begun, snap
<1>3. CASE StartEvaluation(w)
  <2> DEFINE next == [worker[w] EXCEPT !.stage = "reading", !.snap = snap,
                                       !.unread = Groups]
  <2>1. Begin(w, next) /\ Policy[snap.base] = "valid"
    BY <1>3, ZenonT(30) DEF StartEvaluation
  <2> HIDE DEF snap
  <2>2. next \in WorkerStates
    BY <1>1 DEF WorkerStates
  <2>3. LET n == [next EXCEPT !.whole = TRUE] IN
          /\ n.snap = snap /\ n.whole /\ n.event = worker[w].event
          /\ n.later = worker[w].later /\ n.stage = "reading" /\ n.unread = Groups
    BY <1>1 DEF WorkerStates
  <2> HIDE DEF next
  <2>4. /\ worker'[w] = [next EXCEPT !.whole = TRUE]
        /\ \A v \in Evaluators \ {w} :
              /\ Kin(worker[v], worker'[v])
              /\ worker'[v].whole = worker[v].whole
              /\ worker'[v].later \subseteq worker[v].later \union {w}
              /\ UnderWay(v) => w \in worker'[v].later
    BY <2>1, <2>2, BeginIsNoticed
  <2>5. QED
    BY <2>1, <2>3, <2>4 DEF Begun, snap
<1>4. QED
  BY <1>2, <1>3

(* The evaluation of an event that counts is sound from its start, and so   *)
(* is every evaluation of the pull request with its head, base and title.   *)
LEMMA StartKeepsInv ==
  ASSUME PipelineInv, TypeOK', NEW w \in Evaluators,
         RejectPolicy(w) \/ StartEvaluation(w)
  PROVE  PipelineInv'
<1> DEFINE e == worker[w].event
           snap == worker'[w].snap
<1>1. /\ worker[w].stage = "taken"
      /\ UNCHANGED <<pr, checks, statuses, deliveries, queue, doubt, forged>>
  BY DEF RejectPolicy, StartEvaluation, github, history
<1>2. /\ Begun(w)
      /\ \A v \in Evaluators \ {w} :
           /\ Kin(worker[v], worker'[v])
           /\ worker'[v].whole = worker[v].whole
           /\ worker'[v].later \subseteq worker[v].later \union {w}
           /\ UnderWay(v) => w \in worker'[v].later
  BY EvaluationBegins DEF PipelineInv
<1>3. Evaluates(w) /\ Evaluates(w)' /\ w \notin worker[w].later
  BY <1>1, <1>2 DEF PipelineInv, Orderly, Evaluates, Begun
<1>4. worker'[w].stage # "taken" /\ Orderly(w)'
  BY <1>2, <1>3 DEF Begun, Orderly
<1>5. \A v \in Evaluators \ {w} : v \notin worker'[v].later
  BY <1>2 DEF PipelineInv, Orderly
<1>6. /\ Steady /\ Watched' = Watched
      /\ \A x \in Events : Due(x) => Due(x)' \/ x = e
      /\ HeadIsCommit' /\ OverwrittenAreForged' /\ (\A v \in Evaluators : Orderly(v))'
  BY <1>1, <1>2, <1>4, <1>5, WorkerStep
<1>7. /\ "paged" \in Groups
      /\ \A k \in Kinds : GroupOf(k) \in Groups
  BY DEF GroupOf, Groups
<1>8. ASSUME snap.open, Context(snap) = Context(pr), TitleIsCurrent(snap) PROVE Sound(w)'
  <2>1. snap.base = pr.base /\ pr'.base = pr.base
    BY <1>1, <1>8 DEF Context
  <2>2. worker'[w].snap.open /\ Context(worker[w].snap)' = Context(pr)'
    BY <1>1, <1>8 DEF Context
  <2>3. CASE worker'[w].stage = "posting"
    <3>1. Policy[pr'.base] = "invalid" /\ worker'[w].state = "error"
      BY <1>2, <2>1, <2>3 DEF Begun
    <3>2. Rightly(worker[w].state)'
      BY <3>1 DEF Expected, Rightly
    <3>3. QED
      BY <2>2, <2>3, <3>2 DEF Sound
  <2>4. CASE worker'[w].stage = "reading"
    <3>1. Policy[pr'.base] = "valid" /\ worker'[w].unread = Groups
      BY <1>2, <2>1, <2>4 DEF Begun
    <3>2. /\ "paged" \in worker'[w].unread
          /\ \A k \in Kinds : GroupOf(k) \in worker'[w].unread
      BY <1>7, <3>1
    <3>3. TitleIsCurrent(worker[w].snap)'
      BY <1>1, <1>8 DEF TitleIsCurrent
    <3>4. (\A k \in Kinds \intersect PolicyTrigger[pr.base] :
             GroupOf(k) \notin worker[w].unread =>
               worker[w].seen[k] = FactsOf(pr, checks, pr.head)[k])'
      BY <3>2
    <3>5. QED
      BY <2>2, <2>4, <3>1, <3>2, <3>3, <3>4 DEF Sound
  <2>5. QED
    BY <1>2, <2>3, <2>4 DEF Begun
<1>9. Watched /\ Counts(e) => Sound(w)'
  <2>1. SUFFICES ASSUME Watched, Counts(e) PROVE Sound(w)'
    OBVIOUS
  <2>2. snap.open /\ Context(snap) = Context(pr) /\ TitleIsCurrent(snap)
    BY <1>2, <2>1 DEF Located, Counts, Watched, Snapshot, Context, TitleIsCurrent, Begun
  <2>3. QED
    BY <1>8, <2>2
<1>10. \A v \in Evaluators \ {w} : KeepsFaith(v) /\ KeepsPlace(v)
  BY <1>1, <1>2, <1>6, SteadyEvaluator
<1>11. ~UnderWay(w) /\ ~Sound(w)
  BY <1>1 DEF UnderWay, Sound
<1>12. Trusted(w)' => Sound(w)'
  <2> SUFFICES ASSUME Trusted(w)' PROVE Sound(w)'
    OBVIOUS
  <2>1. snap.open /\ Context(snap) = Context(pr) /\ TitleIsCurrent(snap)
    BY <1>1 DEF Trusted, Context, TitleIsCurrent
  <2>2. QED
    BY <1>8, <2>1
<1>13. Watched /\ Awaited => Awaited' \/ Sound(w)'
  BY <1>6, <1>9, SteadyEvents DEF Awaited
<1>14. Replaced => Replaced'
  <2>1. ~Replaces(e)
    BY <1>3 DEF Evaluates, Replaces
  <2>2. QED
    BY <1>6, <2>1, SteadyEvents DEF Replaced
<1>15. StatusIsTrue => StatusIsTrue'
  BY <1>1, <1>6 DEF StatusIsTrue, Steady
<1>16. StatusWillBeTrue'
  <2> SUFFICES ASSUME Watched', ~doubt'
               PROVE  \/ StatusIsTrue' \/ Awaited' \/ Replaced'
                      \/ \E v \in Evaluators : Sound(v)'
    BY DEF StatusWillBeTrue
  <2>1. Watched /\ ~doubt
    BY <1>1, <1>6
  <2>2. StatusIsTrue \/ Awaited \/ Replaced \/ \E v \in Evaluators : Sound(v)
    BY <2>1 DEF PipelineInv, StatusWillBeTrue
  <2>3. \A v \in Evaluators : Sound(v) => Sound(v)'
    BY <1>10, <1>11 DEF KeepsFaith
  <2>4. QED
    BY <1>13, <1>14, <1>15, <2>1, <2>2, <2>3
<1>17. EvaluationsAreSound'
  <2> SUFFICES ASSUME Watched', NEW v \in Evaluators, Trusted(v)'
               PROVE  Sound(v)' \/ Awaited' \/ SoundLater(v)'
    BY DEF EvaluationsAreSound
  <2>1. CASE v = w
    BY <1>12, <2>1
  <2>2. CASE v # w
    <3>1. Trusted(v) /\ UnderWay(v)
      BY <1>10, <2>2 DEF KeepsFaith, Trusted
    <3>2. /\ w \in worker'[v].later
          /\ worker[v].later \subseteq worker'[v].later
      BY <1>2, <2>2, <3>1 DEF Kin
    <3>3. Sound(v) \/ Awaited \/ SoundLater(v)
      BY <1>6, <3>1 DEF PipelineInv, EvaluationsAreSound
    <3>4. Awaited => Awaited' \/ SoundLater(v)'
      BY <1>3, <1>6, <1>13, <3>2 DEF SoundLater
    <3>5. SoundLater(v) => SoundLater(v)'
      <4> SUFFICES ASSUME NEW x \in worker[v].later, Evaluates(x), Sound(x)
                   PROVE  SoundLater(v)'
        BY DEF SoundLater
      <4>1. x \in Evaluators /\ x # w
        BY <1>11, LaterAreEvaluators DEF PipelineInv
      <4>2. Evaluates(x)' /\ Sound(x)'
        BY <1>10, <4>1 DEF KeepsFaith
      <4>3. QED
        BY <3>2, <4>2 DEF SoundLater
    <3>6. QED
      BY <1>10, <2>2, <3>3, <3>4, <3>5 DEF KeepsFaith
  <2>3. QED
    BY <2>1, <2>2
<1>18. WholeAreLater'
  <2> SUFFICES ASSUME NEW v \in Evaluators, NEW x \in Evaluators,
                      UnderWay(v)', Evaluates(v)', worker'[v].whole,
                      UnderWay(x)', Evaluates(x)', ~worker'[x].whole
               PROVE  v \in worker'[x].later
    BY DEF WholeAreLater
  <2>1. x # w
    BY <1>2 DEF Begun
  <2>2. /\ UnderWay(x) /\ Evaluates(x) /\ ~worker[x].whole
        /\ worker[x].later \subseteq worker'[x].later
    BY <1>10, <2>1 DEF KeepsPlace
  <2>3. CASE v = w
    BY <1>2, <2>1, <2>2, <2>3
  <2>4. CASE v # w
    <3>1. UnderWay(v) /\ Evaluates(v) /\ worker[v].whole
      BY <1>10, <2>4 DEF KeepsPlace
    <3>2. v \in worker[x].later
      BY <2>2, <3>1 DEF PipelineInv, WholeAreLater
    <3>3. QED
      BY <2>2, <3>2
  <2>5. QED
    BY <2>3, <2>4
<1>19. QED
  BY <1>6, <1>16, <1>17, <1>18 DEF PipelineInv

(* A read keeps a sound evaluation sound: it reads what is, and what the    *)
(* evaluation has read when it ends gives the verdict of what is.           *)
LEMMA ReadIsOwn ==
  ASSUME TypeOK, NEW w \in Evaluators, NEW g \in Groups, Read(w, g)
  PROVE  /\ \A v \in Evaluators \ {w} : worker'[v] = worker[v]
         /\ worker'[w].snap = worker[w].snap /\ worker'[w].whole = worker[w].whole
         /\ worker'[w].event = worker[w].event /\ worker'[w].later = worker[w].later
         /\ worker'[w].overtaken = worker[w].overtaken
         /\ worker'[w].stage \in {"reading", "posting"} /\ worker[w].stage = "reading"
         /\ worker[w].snap.head \in pr.commits =>
              LET s == worker[w].snap
                  tip == IF g = "paged" THEN pr.head ELSE worker[w].tip
                  seen == [k \in Kinds |->
                             IF (IF g = "paged" THEN k \in Paged ELSE k = g)
                               THEN FactsOf(pr, checks, s.head)[k] ELSE worker[w].seen[k]]
                  left == worker[w].unread \ {g}
              IN  /\ worker'[w].unread = left /\ worker'[w].tip = tip /\ worker'[w].seen = seen
                  /\ left # {} => worker'[w].stage = "reading"
                  /\ left = {} =>
                       /\ worker'[w].stage = "posting"
                       /\ worker'[w].state = Verdict(s.base, s.title, tip, seen)
<1> DEFINE s == worker[w].snap
           now == FactsOf(pr, checks, s.head)
           tip == IF g = "paged" THEN pr.head ELSE worker[w].tip
           seen == [k \in Kinds |->
                      IF (IF g = "paged" THEN k \in Paged ELSE k = g)
                        THEN now[k] ELSE worker[w].seen[k]]
           left == worker[w].unread \ {g}
           stage == IF left = {} THEN "posting" ELSE "reading"
           state == IF left = {} THEN Verdict(s.base, s.title, tip, seen)
                    ELSE worker[w].state
           failed == [worker[w] EXCEPT !.stage = "posting", !.snap = s,
                                       !.state = "error", !.unread = {}]
           next == [worker[w] EXCEPT !.unread = left, !.tip = tip, !.seen = seen,
                                     !.stage = stage, !.state = state]
<1>1. worker[w] \in WorkerStates /\ worker[w].stage = "reading"
  BY DEF TypeOK, Read
<1>2. /\ worker' \in {[worker EXCEPT ![w] = failed], [worker EXCEPT ![w] = next]}
      /\ s.head \in pr.commits => worker' = [worker EXCEPT ![w] = next]
  BY ZenonT(30) DEF Read, PostNext, TypeOK
<1>3. /\ stage \in {"reading", "posting"} /\ (left # {} => stage = "reading")
      /\ left = {} => stage = "posting" /\ state = Verdict(s.base, s.title, tip, seen)
  OBVIOUS
<1> HIDE DEF tip, seen, left, state, stage, s
<1>4. /\ failed.snap = s /\ failed.whole = worker[w].whole /\ failed.stage = "posting"
      /\ failed.event = worker[w].event /\ failed.later = worker[w].later
      /\ failed.overtaken = worker[w].overtaken
  BY <1>1 DEF WorkerStates
<1>5. /\ next.snap = worker[w].snap /\ next.whole = worker[w].whole /\ next.stage = stage
      /\ next.event = worker[w].event /\ next.later = worker[w].later
      /\ next.overtaken = worker[w].overtaken
      /\ next.unread = left /\ next.tip = tip /\ next.seen = seen /\ next.state = state
  BY <1>1 DEF WorkerStates
<1> HIDE DEF failed, next
<1>6. /\ \A v \in Evaluators \ {w} : worker'[v] = worker[v]
      /\ worker'[w] \in {failed, next} /\ (s.head \in pr.commits => worker'[w] = next)
  BY <1>2 DEF TypeOK
<1>7. /\ worker'[w].snap = s /\ worker'[w].whole = worker[w].whole
      /\ worker'[w].event = worker[w].event /\ worker'[w].later = worker[w].later
      /\ worker'[w].overtaken = worker[w].overtaken
      /\ worker'[w].stage \in {"reading", "posting"}
  BY <1>3, <1>4, <1>5, <1>6 DEF s
<1>8. s.head \in pr.commits =>
        /\ worker'[w].unread = left /\ worker'[w].tip = tip /\ worker'[w].seen = seen
        /\ left # {} => worker'[w].stage = "reading"
        /\ left = {} => /\ worker'[w].stage = "posting"
                        /\ worker'[w].state = Verdict(s.base, s.title, tip, seen)
  BY <1>3, <1>5, <1>6
<1>9. QED
  BY <1>1, <1>6, <1>7, <1>8 DEF s, tip, seen, left

LEMMA ReadKeepsSound ==
  ASSUME PipelineInv, NEW w \in Evaluators, NEW g \in Groups,
         Read(w, g), Sound(w), UNCHANGED <<pr, checks, forged>>
  PROVE  Sound(w)'
<1>1. worker[w] \in WorkerStates /\ pr.head \in Shas /\ pr.base \in Bases /\ pr.title \in Titles
  BY DEF PipelineInv, TypeOK
<1>2. PICK s, tip, seen, left :
        /\ s = worker[w].snap
        /\ tip = IF g = "paged" THEN pr.head ELSE worker[w].tip
        /\ seen = [k \in Kinds |->
                     IF (IF g = "paged" THEN k \in Paged ELSE k = g)
                       THEN FactsOf(pr, checks, s.head)[k] ELSE worker[w].seen[k]]
        /\ left = worker[w].unread \ {g}
  OBVIOUS
<1>3. worker[w].stage = "reading" /\ worker'[w].snap = s
  BY <1>2, ReadIsOwn DEF PipelineInv
<1>4. /\ s \in Snapshots /\ s.open /\ s.head = pr.head /\ s.base = pr.base
      /\ Context(s) = Context(pr) /\ s.title \in Titles
      /\ worker[w].tip \in Shas /\ worker[w].seen \in Facts /\ worker[w].unread \subseteq Groups
  BY <1>1, <1>2, <1>3 DEF Sound, Context, WorkerStates, Snapshots
<1>5. /\ worker'[w].unread = left /\ worker'[w].tip = tip /\ worker'[w].seen = seen
      /\ left # {} => worker'[w].stage = "reading"
      /\ left = {} => /\ worker'[w].stage = "posting"
                      /\ worker'[w].state = Verdict(s.base, s.title, tip, seen)
  BY <1>2, <1>4, ReadIsOwn DEF PipelineInv, HeadIsCommit
<1>6. /\ Context(pr)' = Context(pr) /\ Expected' = Expected
      /\ FactsOf(pr, checks, pr.head)' = FactsOf(pr, checks, pr.head)
  BY SamePullRequest DEF Steady, FactsOf
<1>7. /\ Policy[pr.base] = "valid"
      /\ TitleIsCurrent(s)
      /\ "paged" \notin worker[w].unread => worker[w].tip = pr.head
      /\ \A k \in Kinds \intersect PolicyTrigger[pr.base] :
           GroupOf(k) \notin worker[w].unread =>
             worker[w].seen[k] = FactsOf(pr, checks, pr.head)[k]
  BY <1>2, <1>3 DEF Sound
<1>8. "paged" \notin left => tip = pr.head
  BY <1>2, <1>7
<1>9. ASSUME NEW k \in Kinds \intersect PolicyTrigger[pr.base], GroupOf(k) \notin left
      PROVE  seen[k] = FactsOf(pr, checks, pr.head)[k]
  <2>1. CASE IF g = "paged" THEN k \in Paged ELSE k = g
    BY <1>2, <1>4, <2>1
  <2>2. CASE ~(IF g = "paged" THEN k \in Paged ELSE k = g)
    <3>1. GroupOf(k) # g
      BY <2>2, ConstantsAssumption DEF GroupOf, Paged
    <3>2. worker[w].seen[k] = FactsOf(pr, checks, pr.head)[k]
      BY <1>2, <1>7, <1>9, <3>1
    <3>3. QED
      BY <1>2, <2>2, <3>2
  <2>3. QED
    BY <2>1, <2>2
<1>10. worker'[w].snap.open /\ Context(worker[w].snap)' = Context(pr)'
  BY <1>3, <1>4, <1>6 DEF Context
<1>11. CASE left # {}
  <2>1. (\A k \in Kinds \intersect PolicyTrigger[pr.base] :
           GroupOf(k) \notin worker[w].unread =>
             worker[w].seen[k] = FactsOf(pr, checks, pr.head)[k])'
    BY <1>5, <1>6, <1>9
  <2>2. /\ worker'[w].stage = "reading" /\ Policy[pr'.base] = "valid"
        /\ "paged" \notin worker'[w].unread => worker'[w].tip = pr'.head
    BY <1>5, <1>7, <1>8, <1>11
  <2>3. TitleIsCurrent(worker[w].snap)'
    BY <1>3, <1>7 DEF TitleIsCurrent
  <2>4. QED
    BY <1>10, <2>1, <2>2, <2>3 DEF Sound
<1>12. CASE left = {}
  <2> DEFINE now == FactsOf(pr, checks, pr.head)
  <2>1. now \in Facts
    BY <1>1, FactsAreTyped DEF PipelineInv, TypeOK
  <2>2. seen \in Facts
    BY <1>2, <1>4, <2>1 DEF Facts
  <2>3. \A k \in Kinds \intersect PolicyTrigger[pr.base] : seen[k] = now[k]
    BY <1>9, <1>12
  <2> HIDE DEF now
  <2>4. "pull_request" \in PolicyTrigger[pr.base] => s.title = pr.title
    BY <1>4, <1>7 DEF TitleIsCurrent, ReadsTitle
  <2>5. Judge[<<pr.base, s.title, pr.head, seen>>] = Judge[<<pr.base, pr.title, pr.head, now>>]
    BY <1>1, <1>4, <2>1, <2>2, <2>3, <2>4, TriggerAssumption
  <2>6. tip = pr.head
    BY <1>8, <1>12
  <2>7. worker'[w].state = Expected
    BY <1>4, <1>5, <1>7, <1>12, <2>5, <2>6 DEF Expected, Verdict, now
  <2>8. Rightly(worker[w].state)'
    BY <1>6, <2>7 DEF Rightly
  <2>9. QED
    BY <1>5, <1>10, <1>12, <2>8 DEF Sound
<1>13. QED
  BY <1>11, <1>12

LEMMA ReadKeepsInv ==
  ASSUME PipelineInv, TypeOK', NEW w \in Evaluators, NEW g \in Groups, Read(w, g)
  PROVE  PipelineInv'
<1>1. UNCHANGED <<pr, checks, statuses, deliveries, queue, doubt, forged>>
  BY DEF Read, github, history
<1>2. /\ \A v \in Evaluators \ {w} : worker'[v] = worker[v]
      /\ worker'[w].snap = worker[w].snap /\ worker'[w].whole = worker[w].whole
      /\ worker'[w].event = worker[w].event /\ worker'[w].later = worker[w].later
      /\ worker'[w].overtaken = worker[w].overtaken
      /\ worker'[w].stage \in {"reading", "posting"} /\ worker[w].stage = "reading"
  BY ReadIsOwn DEF PipelineInv
<1>3. \A v \in Evaluators \ {w} : /\ Kin(worker[v], worker'[v])
                                  /\ worker'[v].whole = worker[v].whole
                                  /\ v \notin worker'[v].later
  BY <1>2 DEF Kin, PipelineInv, Orderly
<1>4. /\ Evaluates(w) /\ Evaluates(w)' /\ UnderWay(w)
      /\ worker'[w].stage # "taken" /\ Orderly(w)'
  BY <1>2 DEF PipelineInv, Orderly, UnderWay, Evaluates
<1>5. /\ Steady /\ Watched' = Watched
      /\ \A x \in Events : Due(x) => Due(x)'
      /\ HeadIsCommit' /\ OverwrittenAreForged' /\ (\A v \in Evaluators : Orderly(v))'
  BY <1>1, <1>2, <1>3, <1>4, WorkerStep
<1>6. Trusted(w)' => Trusted(w)
  BY <1>1, <1>2, <1>4 DEF Trusted, Context, TitleIsCurrent
<1>7. \A v \in Evaluators : KeepsFaith(v) /\ KeepsPlace(v)
  <2>1. KeepsFaith(w)
    BY <1>1, <1>4, <1>6, ReadKeepsSound DEF KeepsFaith
  <2>2. KeepsPlace(w)
    BY <1>2, <1>4 DEF KeepsPlace
  <2>3. QED
    BY <1>1, <1>3, <1>5, <2>1, <2>2, SteadyEvaluator
<1>8. (Awaited => Awaited') /\ (Replaced => Replaced')
  BY <1>5, SteadyEvents DEF Awaited, Replaced
<1>9. StatusIsTrue => StatusIsTrue'
  BY <1>1, <1>5 DEF StatusIsTrue, Steady
<1>10. StatusWillBeTrue' /\ EvaluationsAreSound' /\ WholeAreLater'
  BY <1>1, <1>5, <1>7, <1>8, <1>9, FaithStays, PlacesStay
<1>11. QED
  BY <1>5, <1>10 DEF PipelineInv

(* Whoever posts for the head without leaving a doubt tells the truth, or   *)
(* a later one will, or an event is awaited; and who was to be trusted      *)
(* still is, unless he is overtaken now.                                    *)
LEMMA PostKeepsInv ==
  ASSUME PipelineInv, TypeOK', NEW w \in Evaluators, Post(w) PROVE PipelineInv'
<1> DEFINE snap == worker[w].snap
           c == Context(snap)
<1>1. /\ worker[w].stage = "posting" /\ FinishBefore(w)
      /\ UNCHANGED <<pr, checks, deliveries, queue, forged>>
      /\ statuses' = IF snap.open THEN [statuses EXCEPT ![c] = worker[w].state] ELSE statuses
      /\ doubt' = IF snap.open /\ c = Context(pr) THEN Doubtful(w) ELSE doubt
  BY DEF Post
<1>2. /\ worker'[w] = Idle
      /\ \A v \in Evaluators \ {w} :
           /\ Kin(worker[v], worker'[v])
           /\ worker'[v].whole = worker[v].whole /\ worker'[v].later = worker[v].later
           /\ w \in worker[v].later /\ Evaluates(w) /\ snap.open /\ Context(worker[v].snap) = c
              => worker'[v].overtaken
  BY <1>1, FinishIsNoticed DEF PipelineInv
<1>3. worker'[w].stage = "idle" /\ ~UnderWay(w)' /\ ~Trusted(w)' /\ Orderly(w)'
  <2>1. Orderly(w)'
    BY <1>2, IdleIsOrderly
  <2>2. QED
    BY <1>2, <2>1 DEF UnderWay, Trusted, Idle
<1>4. UnderWay(w) /\ w \notin worker[w].later
  BY <1>1 DEF UnderWay, PipelineInv, Orderly
<1>5. \A v \in Evaluators \ {w} : v \notin worker'[v].later
  BY <1>2 DEF PipelineInv, Orderly
<1>6. /\ Steady /\ Watched' = Watched
      /\ \A x \in Events : Due(x) => Due(x)'
      /\ HeadIsCommit' /\ OverwrittenAreForged' /\ (\A v \in Evaluators : Orderly(v))'
  BY <1>1, <1>2, <1>3, <1>5, WorkerStep
<1>7. (Awaited => Awaited') /\ (Replaced => Replaced')
  BY <1>6, SteadyEvents DEF Awaited, Replaced
<1>8. \A v \in Evaluators \ {w} :
        /\ Sound(v) => Sound(v)'
        /\ Evaluates(v)' <=> Evaluates(v)
        /\ UnderWay(v)' <=> UnderWay(v)
        /\ Trusted(v)' /\ (worker[v].whole \/ ~doubt) => Trusted(v)
        /\ (doubt' <=> doubt) => KeepsFaith(v)
        /\ KeepsPlace(v)
  BY <1>2, <1>6, SteadyEvaluator
<1>9. WholeAreLater'
  <2>1. KeepsPlace(w)
    BY <1>3 DEF KeepsPlace
  <2>2. QED
    BY <1>8, <2>1, PlacesStay
<1>10. statuses \in [Contexts -> States] /\ Context(pr) \in Contexts
  BY DEF PipelineInv, TypeOK, Context, Contexts
<1>11. CASE snap.open /\ c = Context(pr)
  <2>1. /\ statuses' = [statuses EXCEPT ![c] = worker[w].state]
        /\ doubt' = Doubtful(w)
    BY <1>1, <1>11
  <2>2. statuses'[Context(pr)'] = worker[w].state
    BY <1>6, <1>10, <1>11, <2>1 DEF Steady
  <2>3. Rightly(worker[w].state) => StatusIsTrue'
    BY <1>1, <1>6, <2>2 DEF StatusIsTrue, Rightly, Steady
  <2>4. ASSUME NEW v \in Evaluators, w \notin worker[v].later \/ ~Evaluates(w), SoundLater(v),
               worker[v].later \subseteq worker'[v].later \/ v = w
        PROVE  \E x \in worker[v].later : x \in Evaluators /\ Evaluates(x)' /\ Sound(x)'
    <3>1. PICK x \in worker[v].later : Evaluates(x) /\ Sound(x)
      BY <2>4 DEF SoundLater
    <3>2. x \in Evaluators
      BY LaterAreEvaluators DEF PipelineInv
    <3>3. x # w
      BY <2>4, <3>1
    <3>4. QED
      BY <1>8, <3>1, <3>2, <3>3
  <2>5. StatusWillBeTrue'
    <3> SUFFICES ASSUME Watched', ~doubt'
                 PROVE  StatusIsTrue' \/ Awaited' \/ \E x \in Evaluators : Sound(x)'
      BY DEF StatusWillBeTrue
    <3>1. /\ ~doubt \/ worker[w].whole
          /\ Evaluates(w) => ~worker[w].overtaken /\ TitleIsCurrent(snap)
      BY <2>1 DEF Doubtful
    <3>2. CASE Evaluates(w)
      <4>1. Trusted(w)
        BY <1>4, <1>11, <3>1, <3>2 DEF Trusted
      <4>2. Sound(w) \/ Awaited \/ SoundLater(w)
        BY <1>6, <4>1 DEF PipelineInv, EvaluationsAreSound
      <4>3. Sound(w) => StatusIsTrue'
        BY <1>1, <2>3 DEF Sound
      <4>4. SoundLater(w) => \E x \in Evaluators : Sound(x)'
        BY <1>4, <2>4
      <4>5. QED
        BY <1>7, <4>2, <4>3, <4>4
    <3>3. CASE ~Evaluates(w)
      <4>1. worker[w].state = "failure" /\ Context(snap) \in forged
        BY <1>4, <3>3 DEF PipelineInv, Orderly
      <4>2. Rightly(worker[w].state)
        BY <1>11, <4>1 DEF Rightly
      <4>3. QED
        BY <2>3, <4>2
    <3>4. QED
      BY <3>2, <3>3
  <2>6. EvaluationsAreSound'
    <3> SUFFICES ASSUME Watched', NEW v \in Evaluators, Trusted(v)'
                 PROVE  Sound(v)' \/ Awaited' \/ SoundLater(v)'
      BY DEF EvaluationsAreSound
    <3>1. v # w
      BY <1>3
    <3>2. Context(worker[v].snap) = c
      <4>1. Context(worker[v].snap)' = Context(pr)' /\ worker'[v].snap = worker[v].snap
        BY <1>2, <3>1 DEF Trusted, Kin
      <4>2. Context(worker[v].snap)' = Context(worker[v].snap)
        BY <4>1 DEF Context
      <4>3. QED
        BY <1>6, <1>11, <4>1, <4>2 DEF Steady
    <3>3. w \notin worker[v].later \/ ~Evaluates(w)
      BY <1>2, <1>11, <3>1, <3>2 DEF Trusted
    <3>4. worker[v].whole \/ ~doubt
      <4> SUFFICES ASSUME ~worker[v].whole, doubt PROVE FALSE
        OBVIOUS
      <4>1. ~doubt'
        BY <1>2, <3>1 DEF Trusted
      <4>2. worker[w].whole
        BY <2>1, <4>1 DEF Doubtful
      <4>3. Evaluates(w)
        BY <1>4, <4>2 DEF PipelineInv, Orderly
      <4>4. UnderWay(v) /\ Evaluates(v)
        BY <1>8, <3>1 DEF Trusted
      <4>5. w \in worker[v].later
        BY <1>4, <4>2, <4>3, <4>4 DEF PipelineInv, WholeAreLater
      <4>6. QED
        BY <3>3, <4>3, <4>5
    <3>5. Trusted(v)
      BY <1>8, <3>1, <3>4
    <3>6. Sound(v) \/ Awaited \/ SoundLater(v)
      BY <1>6, <3>5 DEF PipelineInv, EvaluationsAreSound
    <3>7. SoundLater(v) => SoundLater(v)'
      <4> SUFFICES ASSUME SoundLater(v) PROVE SoundLater(v)'
        OBVIOUS
      <4>1. worker'[v].later = worker[v].later
        BY <1>2, <3>1
      <4>2. \E x \in worker[v].later : x \in Evaluators /\ Evaluates(x)' /\ Sound(x)'
        BY <2>4, <3>3, <4>1
      <4>3. QED
        BY <4>1, <4>2 DEF SoundLater
    <3>8. QED
      BY <1>7, <1>8, <3>1, <3>6, <3>7
  <2>7. QED
    BY <1>6, <1>9, <2>5, <2>6 DEF PipelineInv
<1>12. CASE ~(snap.open /\ c = Context(pr))
  <2>1. statuses'[Context(pr)] = statuses[Context(pr)] /\ (doubt' <=> doubt)
    BY <1>1, <1>10, <1>12
  <2>2. ~Sound(w)
    BY <1>12 DEF Sound
  <2>3. KeepsFaith(w) /\ KeepsPlace(w)
    BY <1>3, <2>2 DEF KeepsFaith, KeepsPlace
  <2>4. \A v \in Evaluators : KeepsFaith(v) /\ KeepsPlace(v)
    BY <1>8, <2>1, <2>3
  <2>5. StatusIsTrue => StatusIsTrue'
    BY <1>1, <1>6, <2>1 DEF StatusIsTrue, Steady
  <2>6. StatusWillBeTrue' /\ EvaluationsAreSound'
    BY <1>6, <1>7, <2>1, <2>4, <2>5, FaithStays
  <2>7. QED
    BY <1>6, <1>9, <2>6 DEF PipelineInv
<1>13. QED
  BY <1>11, <1>12

LEMMA StutterKeepsInv == ASSUME PipelineInv, UNCHANGED vars PROVE PipelineInv'
<1>1. UNCHANGED <<pr, checks, statuses, deliveries, queue, worker, doubt, forged>>
  BY DEF vars
<1>2. Steady /\ Watched' = Watched
  BY <1>1, SamePullRequest
<1>3. \A x \in Events : Due(x)' <=> Due(x)
  BY <1>1 DEF Due
<1>4. TypeOK'
  BY NextKeepsTypes DEF PipelineInv
<1>5. HeadIsCommit' /\ OverwrittenAreForged'
  BY <1>1, <1>3 DEF PipelineInv, HeadIsCommit, OverwrittenAreForged
<1>6. \A w \in Evaluators : Kin(worker[w], worker'[w])
  BY <1>1 DEF Kin
<1>7. (\A w \in Evaluators : Orderly(w))'
  BY <1>1, <1>6, OrderlyStays DEF PipelineInv, Orderly
<1>8. \A w \in Evaluators : KeepsFaith(w) /\ KeepsPlace(w)
  BY <1>1, <1>2, <1>6, SteadyEvaluator
<1>9. (Awaited => Awaited') /\ (Replaced => Replaced')
  BY <1>2, <1>3, SteadyEvents DEF Awaited, Replaced
<1>10. StatusIsTrue => StatusIsTrue'
  BY <1>1, <1>2 DEF StatusIsTrue, Steady
<1>11. StatusWillBeTrue' /\ EvaluationsAreSound' /\ WholeAreLater'
  BY <1>1, <1>2, <1>8, <1>9, <1>10, FaithStays, PlacesStay
<1>12. QED
  BY <1>4, <1>5, <1>7, <1>11 DEF PipelineInv

LEMMA NextKeepsInv == PipelineInv /\ [Next]_vars => PipelineInv'
<1> SUFFICES ASSUME PipelineInv, [Next]_vars PROVE PipelineInv'
  OBVIOUS
<1>1. TypeOK'
  BY NextKeepsTypes DEF PipelineInv
<1>2. CASE People
  BY <1>1, <1>2, PeopleKeepInv
<1>3. CASE Deliver
  BY <1>1, <1>3, ScheduleKeepsInv, DropEventKeepsInv DEF Deliver
<1>4. ASSUME NEW w \in Evaluators, Take(w) \/ View(w) \/ Handle(w) PROVE PipelineInv'
  BY <1>1, <1>4, TakeKeepsInv, ViewKeepsInv, SkipKeepsInv, StartKeepsInv, PostKeepsInv,
     ReadKeepsInv DEF Handle
<1>5. CASE Restart \/ \E w \in Evaluators : LoadFails(w) \/ ReadFails(w) \/ PostFails(w)
  BY <1>1, <1>5, FaultsKeepInv
<1>6. CASE UNCHANGED vars
  BY <1>6, StutterKeepsInv
<1>7. QED
  BY <1>2, <1>3, <1>4, <1>5, <1>6 DEF Next

LEMMA InitEstablishesInv == Init => PipelineInv
<1> SUFFICES ASSUME Init PROVE PipelineInv
  OBVIOUS
<1>1. TypeOK
  BY InitIsTyped
<1>2. /\ pr.open /\ pr.base \in Bases /\ pr.commits = {pr.head} /\ queue = <<>>
      /\ worker = [w \in Evaluators |-> Idle]
      /\ Idle.stage = "idle" /\ Idle.later = {} /\ ~Idle.whole
      /\ deliveries = <<Opened(Snapshot(pr))>>
  BY DEF Init, Idle
<1>3. PICK e \in Events : e = Opened(Snapshot(pr))
  BY <1>1, SnapshotsAreTyped, EventsAreTyped
<1>4. /\ e.type = "payload" /\ e.trigger = {"commit", "pull_request"}
      /\ e.snap = Snapshot(pr)
  BY <1>3 DEF Opened, Event
<1>5. Counts(e)
  BY <1>2, <1>4, TriggerAssumption DEF Counts, Context, Snapshot, TitleIsCurrent
<1>6. Due(e) /\ \A x \in Events : Due(x) => x = e
  BY <1>2, <1>3 DEF Due
<1>7. Awaited
  BY <1>5, <1>6 DEF Awaited
<1>8. HeadIsCommit /\ OverwrittenAreForged
  BY <1>2, <1>4, <1>6 DEF HeadIsCommit, OverwrittenAreForged
<1>9. (\A w \in Evaluators : Orderly(w)) /\ WholeAreLater
  BY <1>2 DEF Orderly, WholeAreLater, UnderWay
<1>10. QED
  BY <1>1, <1>7, <1>8, <1>9 DEF PipelineInv, StatusWillBeTrue, EvaluationsAreSound

(* With nothing on its way, only a true status is left.                     *)
LEMMA InvImpliesSettledStatusIsTrue == PipelineInv => SettledStatusIsTrue
<1> SUFFICES ASSUME PipelineInv, Settled, ~doubt, Watched PROVE StatusIsTrue
  BY DEF SettledStatusIsTrue, Watched
<1>1. ~Awaited /\ ~Replaced
  BY DEF Settled, Awaited, Replaced, Due
<1>2. \A w \in Evaluators : ~Sound(w)
  BY DEF Settled, Sound
<1>3. QED
  BY <1>1, <1>2 DEF PipelineInv, StatusWillBeTrue

(***************************************************************************)
(* Once every event has been handled, the status of the pull request is    *)
(* true unless a doubt is left, for any number of workers and requests of  *)
(* the details page side by side, any queue, order of webhooks and faults, *)
(* and whatever the policies read.  The doubts are those of doubt in       *)
(* EvaluationPipeline: a lost event or call or an unnoticed base branch    *)
(* since the evaluation began that was posted last, and a last post that   *)
(* came late or was for an old title.                                      *)
(***************************************************************************)
THEOREM SettledStatusIsKeptTrue == Spec => []SettledStatusIsTrue
<1>1. QED
  BY NextKeepsInv, InitEstablishesInv, InvImpliesSettledStatusIsTrue, PTL DEF Spec

-----------------------------------------------------------------------------
(***************************************************************************)
(* A success that policy-bot reports for a head commit was earned by it,   *)
(* for any number of evaluations side by side, webhooks in any order and   *)
(* any faults, if one query reads all the facts of the policies and the    *)
(* title does not matter to them.                                          *)
(***************************************************************************)
TitlesDoNotMatter ==
  \A b \in Bases, t, u \in Titles, s \in Shas, f \in Facts :
    Judge[<<b, t, s, f>>] = Judge[<<b, u, s, f>>]

OneQuery == \E g \in Groups : \A k \in Kinds : GroupOf(k) = g

Query == CHOOSE g \in Groups : \A k \in Kinds : GroupOf(k) = g

BeenHead(s) == s = pr.head \/ s \in former

(* A success here does no harm: it was deserved, or the commit is no longer *)
(* what anyone looks at.                                                    *)
Deserved(c) == c \in earned \/ c[1] \in former

(* The complete pull request of a payload was true once.                    *)
WasTrue(e) == e.type = "payload" => BeenHead(e.snap.head)

EventsWereTrue ==
  /\ \A i \in 1..Len(deliveries) : WasTrue(deliveries[i])
  /\ \A i \in 1..Len(queue) : WasTrue(queue[i])

(* What an evaluation has found out, with its commit and its facts.         *)
Honest(m) ==
  /\ m.stage = "taken" => WasTrue(m.event)
  /\ m.stage = "reading" =>
       /\ BeenHead(m.snap.head) /\ Policy[m.snap.base] = "valid"
       /\ "paged" \notin m.unread => m.tip = m.snap.head \/ m.snap.head \in former
       /\ Query \notin m.unread =>
            (Verdict(m.snap.base, m.snap.title, m.snap.head, m.seen) = "success" =>
               Deserved(Context(m.snap)))
  /\ m.stage = "posting" => (m.state = "success" => Deserved(Context(m.snap)))

StatusesAreDeserved ==
  \A c \in Contexts : statuses[c] = "success" => Deserved(c) \/ c \in forged

EarnedInv ==
  /\ Approved(pr, checks) \subseteq earned
  /\ EventsWereTrue
  /\ \A w \in Evaluators : Honest(worker[w])
  /\ StatusesAreDeserved

(* The query that reads all facts. *)
LEMMA QueryReadsAll ==
  ASSUME OneQuery
  PROVE  Query \in Groups /\ \A k \in Kinds : GroupOf(k) = Query
BY DEF OneQuery, Query

-----------------------------------------------------------------------------
(***************************************************************************)
(* History only grows, and the head is part of it.                         *)
(***************************************************************************)
HistoryGrows ==
  /\ \A s \in Shas : BeenHead(s) => BeenHead(s)'
  /\ former \subseteq former' /\ earned \subseteq earned' /\ forged \subseteq forged'

LEMMA DeservedStays ==
  ASSUME HistoryGrows, NEW c, Deserved(c) PROVE Deserved(c)'
BY DEF HistoryGrows, Deserved

LEMMA WasTrueStays ==
  ASSUME HistoryGrows, NEW e \in Events, WasTrue(e) PROVE WasTrue(e)'
BY DEF HistoryGrows, WasTrue, Events, Snapshots

LEMMA HonestStays ==
  ASSUME HistoryGrows, NEW m \in WorkerStates, Honest(m) PROVE Honest(m)'
<1>1. m.event \in Events /\ m.snap.head \in Shas
  BY DEF WorkerStates, Snapshots
<1>2. m.stage = "taken" => WasTrue(m.event)'
  BY <1>1, WasTrueStays DEF Honest
<1>3. Deserved(Context(m.snap)) => Deserved(Context(m.snap))'
  BY DeservedStays
<1>4. (BeenHead(m.snap.head) => BeenHead(m.snap.head)') /\ former \subseteq former'
  BY <1>1 DEF HistoryGrows
<1>5. QED
  BY <1>2, <1>3, <1>4 DEF Honest

LEMMA StatusesStayDeserved ==
  ASSUME HistoryGrows, StatusesAreDeserved, UNCHANGED statuses PROVE StatusesAreDeserved'
<1>1. \A c \in Contexts : Deserved(c) => Deserved(c)'
  BY DeservedStays
<1>2. QED
  BY <1>1 DEF StatusesAreDeserved, HistoryGrows

(* A step that leaves the pull request and its history alone.               *)
LEMMA NothingNew ==
  ASSUME EarnedInv, UNCHANGED <<pr, checks, earned, former, forged>>
  PROVE  /\ HistoryGrows /\ Approved(pr, checks)' \subseteq earned'
         /\ \A e : WasTrue(e)' <=> WasTrue(e)
         /\ \A m : Honest(m)' <=> Honest(m)
         /\ \A c : Deserved(c)' <=> Deserved(c)
<1>1. \A s : BeenHead(s)' <=> BeenHead(s)
  BY DEF BeenHead
<1>2. \A c : Deserved(c)' <=> Deserved(c)
  BY DEF Deserved
<1>3. \A e : WasTrue(e)' <=> WasTrue(e)
  BY <1>1 DEF WasTrue
<1>4. \A m : Honest(m)' <=> Honest(m)
  BY <1>1, <1>2, <1>3 DEF Honest
<1>5. Approved(pr, checks)' \subseteq earned'
  BY DEF EarnedInv, Approved
<1>6. QED
  BY <1>1, <1>2, <1>3, <1>4, <1>5 DEF HistoryGrows

(***************************************************************************)
(* Every event and every evaluation after a step was there before, or is   *)
(* as it should be.                                                        *)
(***************************************************************************)
LEMMA EventsStayTrue ==
  ASSUME TypeOK, EarnedInv, HistoryGrows,
         \A i \in 1..Len(deliveries') :
           \/ \E j \in 1..Len(deliveries) : deliveries'[i] = deliveries[j]
           \/ \E x \in Events : deliveries'[i] = x /\ WasTrue(x)',
         \A i \in 1..Len(queue') :
           \/ \E j \in 1..Len(queue) : queue'[i] = queue[j]
           \/ \E j \in 1..Len(deliveries) : queue'[i] = deliveries[j]
  PROVE  EventsWereTrue'
<1>1. /\ \A j \in 1..Len(deliveries) : deliveries[j] \in Events
      /\ \A j \in 1..Len(queue) : queue[j] \in Events
  BY DEF TypeOK
<1>2. \A x \in Events :
        \/ \E j \in 1..Len(deliveries) : x = deliveries[j]
        \/ \E j \in 1..Len(queue) : x = queue[j]
        => WasTrue(x)'
  <2> SUFFICES ASSUME NEW x \in Events,
                      \/ \E j \in 1..Len(deliveries) : x = deliveries[j]
                      \/ \E j \in 1..Len(queue) : x = queue[j]
               PROVE  WasTrue(x)'
    OBVIOUS
  <2>1. WasTrue(x)
    BY DEF EarnedInv, EventsWereTrue
  <2>2. QED
    BY <2>1, WasTrueStays
<1>3. ASSUME NEW i \in 1..Len(deliveries')
      PROVE  \E x \in Events : x = deliveries'[i] /\ WasTrue(x)'
  BY <1>1, <1>2
<1>4. ASSUME NEW i \in 1..Len(queue')
      PROVE  \E x \in Events : x = queue'[i] /\ WasTrue(x)'
  BY <1>1, <1>2
<1>5. (\A i \in 1..Len(deliveries) : WasTrue(deliveries[i]))'
  BY <1>3 DEF WasTrue, BeenHead
<1>6. (\A i \in 1..Len(queue) : WasTrue(queue[i]))'
  BY <1>4 DEF WasTrue, BeenHead
<1>7. QED
  BY <1>5, <1>6 DEF EventsWereTrue

LEMMA WorkersStayHonest ==
  ASSUME TypeOK, EarnedInv, HistoryGrows,
         \A w \in Evaluators : \/ worker'[w] = worker[w]
                               \/ Kin(worker[w], worker'[w])
                               \/ \E m \in WorkerStates :
                                    worker'[w] = m /\ (Honest(m) \/ Honest(m)')
  PROVE  (\A w \in Evaluators : Honest(worker[w]))'
<1> SUFFICES ASSUME NEW w \in Evaluators PROVE Honest(worker[w])'
  OBVIOUS
<1>1. worker[w] \in WorkerStates /\ Honest(worker[w])
  BY DEF TypeOK, EarnedInv
<1>2. PICK m \in WorkerStates : /\ (worker'[w] = m) \/ Kin(m, worker'[w])
                                /\ Honest(m) \/ Honest(m)'
  BY <1>1
<1>3. Honest(m)'
  BY <1>2, HonestStays
<1>4. QED
  BY <1>2, <1>3 DEF Honest, WasTrue, BeenHead, Deserved, Context, Kin

-----------------------------------------------------------------------------
(***************************************************************************)
(* People.                                                                 *)
(***************************************************************************)
LEMMA EmitIsEarned ==
  ASSUME TypeOK, EarnedInv, NEW p, NEW c, NEW e \in Events, Emit(p, c, e),
         UNCHANGED <<statuses, queue, forged>>,
         \A w \in Evaluators : Kin(worker[w], worker'[w]),
         e.type = "payload" => e.snap.head = p.head
  PROVE  EarnedInv'
<1>1. /\ pr' = p /\ checks' = c /\ deliveries' = Append(deliveries, e)
      /\ earned' = earned \union Approved(p, c)
      /\ former' = IF p.head = pr.head THEN former ELSE former \union {pr.head}
  BY DEF Emit
<1>2. HistoryGrows
  <2>1. former \subseteq former' /\ earned \subseteq earned' /\ forged \subseteq forged'
    BY <1>1
  <2>2. \A s \in Shas : BeenHead(s) => BeenHead(s)'
    BY <1>1 DEF BeenHead
  <2>3. QED
    BY <2>1, <2>2 DEF HistoryGrows
<1>3. Approved(pr, checks)' \subseteq earned'
  <2>1. Approved(pr, checks)' = Approved(p, c)
    BY <1>1 DEF Approved, Verdict, FactsOf
  <2>2. QED
    BY <1>1, <2>1
<1>4. PICK x \in Events : x = e
  OBVIOUS
<1>5. WasTrue(x)'
  BY <1>1, <1>4 DEF WasTrue, BeenHead
<1>6. deliveries \in Seq(Events)
  BY DEF TypeOK
<1>7. \A i \in 1..Len(deliveries') :
        \/ \E j \in 1..Len(deliveries) : deliveries'[i] = deliveries[j]
        \/ deliveries'[i] = x
  BY <1>1, <1>4, <1>6
<1>8. EventsWereTrue'
  BY <1>1, <1>2, <1>5, <1>7, EventsStayTrue
<1>9. (\A w \in Evaluators : Honest(worker[w]))'
  BY <1>1, <1>2, WorkersStayHonest
<1>10. StatusesAreDeserved'
  BY <1>1, <1>2, StatusesStayDeserved DEF EarnedInv
<1>11. QED
  BY <1>3, <1>8, <1>9, <1>10 DEF EarnedInv

LEMMA ChangeIsEarned ==
  ASSUME TypeOK, EarnedInv, NEW p, NEW c, NEW e \in Events, Change(p, c, e),
         e.type = "payload" => e.snap.head = p.head
  PROVE  EarnedInv'
BY EmitIsEarned DEF Change, Kin

LEMMA PeopleAreEarned == ASSUME TypeOK, EarnedInv, People PROVE EarnedInv'
<1>1. /\ pr.head \in Shas /\ pr.facts \in Facts
      /\ pr \in [open : BOOLEAN, base : Bases, title : Titles, head : Shas,
                 commits : SUBSET Shas, facts : Facts]
  BY DEF TypeOK
<1>2. NoSnapshot \in Snapshots
  BY SnapshotsAreTyped
<1>3. \A p : Snapshot(p).head = p.head
  BY DEF Snapshot
<1>4. \A p \in [open : BOOLEAN, base : Bases, title : Titles, head : Shas,
                commits : SUBSET Shas, facts : Facts] : Snapshot(p) \in Snapshots
  BY DEF Snapshot, Snapshots
<1>5. \A type \in {"payload", "live", "status", "overwritten"},
         t \in SUBSET Triggers, snap \in Snapshots :
        /\ Event(type, t, snap) \in Events
        /\ Event(type, t, snap).type = type /\ Event(type, t, snap).snap = snap
  BY DEF Event, Events
<1>6. /\ {"commit"} \in SUBSET Triggers /\ {"pull_request"} \in SUBSET Triggers
      /\ {"status"} \in SUBSET Triggers /\ {"commit", "pull_request"} \in SUBSET Triggers
      /\ \A k \in Kinds : {k} \in SUBSET Triggers
  BY ConstantsAssumption DEF Triggers
<1> DEFINE PullRequests == [open : BOOLEAN, base : Bases, title : Titles, head : Shas,
                            commits : SUBSET Shas, facts : Facts]
<1>7. ASSUME NEW s \in Shas, Push(s) PROVE EarnedInv'
  <2>1. PICK kept \in {pr.commits, {}} :
          LET p == [pr EXCEPT !.head = s, !.commits = kept \union {s}]
          IN  Change(p, checks, Event("payload", {"commit"}, Snapshot(p)))
    BY <1>7 DEF Push
  <2> DEFINE p == [pr EXCEPT !.head = s, !.commits = kept \union {s}]
             e == Event("payload", {"commit"}, Snapshot(p))
  <2>2. p \in PullRequests
    BY <1>1
  <2>3. Change(p, checks, e)
    BY <2>1
  <2> HIDE DEF p
  <2>4. e \in Events /\ e.snap.head = p.head
    BY <1>3, <1>4, <1>5, <1>6, <2>2
  <2> HIDE DEF e
  <2>5. QED
    BY <2>3, <2>4, ChangeIsEarned
<1>8. ASSUME NEW s \in Shas, Check(s) PROVE EarnedInv'
  <2> DEFINE e == Event("status", {"status"}, [NoSnapshot EXCEPT !.head = s])
  <2>1. PICK v \in Values : Change(pr, [checks EXCEPT ![s] = v], e)
    BY <1>8 DEF Check
  <2>2. [NoSnapshot EXCEPT !.head = s] \in Snapshots
    BY <1>2 DEF Snapshots
  <2>3. e \in Events /\ e.type = "status"
    BY <1>5, <1>6, <2>2
  <2> HIDE DEF e
  <2>4. QED
    BY <2>1, <2>3, ChangeIsEarned
<1>9. ASSUME NEW k \in Kinds, Discuss(k) PROVE EarnedInv'
  <2> DEFINE e == IF k = "label" THEN Event("payload", {k}, Snapshot(pr))
                                 ELSE Event("live", {k}, NoSnapshot)
  <2>1. PICK v \in Values : Change([pr EXCEPT !.facts[k] = v], checks, e)
    BY <1>9 DEF Discuss
  <2> DEFINE p == [pr EXCEPT !.facts[k] = v]
  <2>2. p.head = pr.head
    BY <1>1
  <2>3. e \in Events /\ (e.type = "payload" => e.snap.head = pr.head)
    BY <1>1, <1>2, <1>3, <1>4, <1>5, <1>6
  <2>4. Change(p, checks, e)
    BY <2>1
  <2> HIDE DEF e, p
  <2>5. QED
    BY <2>2, <2>3, <2>4, ChangeIsEarned
<1>10. CASE Edit
  <2>1. PICK b \in Bases, t \in Titles :
          LET p == [pr EXCEPT !.base = b, !.title = t]
          IN  /\ Emit(p, checks, Event("payload", {"pull_request"}, Snapshot(p)))
              /\ worker' = IF Unnoticed(b) THEN Doubted ELSE worker
              /\ UNCHANGED <<statuses, queue, forged>>
    BY <1>10 DEF Edit
  <2> DEFINE p == [pr EXCEPT !.base = b, !.title = t]
             e == Event("payload", {"pull_request"}, Snapshot(p))
  <2>2. p \in PullRequests
    BY <1>1
  <2>3. Emit(p, checks, e) /\ UNCHANGED <<statuses, queue, forged>>
    BY <2>1
  <2> HIDE DEF p
  <2>4. e \in Events /\ e.snap.head = p.head
    BY <1>3, <1>4, <1>5, <1>6, <2>2
  <2> HIDE DEF e
  <2>5. \A w \in Evaluators : Kin(worker[w], worker'[w])
    BY <2>1, DoubtIsNoticed DEF Kin
  <2>6. QED
    BY <2>3, <2>4, <2>5, EmitIsEarned
<1>11. CASE Reopen
  <2> DEFINE p == [pr EXCEPT !.open = TRUE]
             e == Opened(Snapshot(p))
  <2>1. p \in PullRequests
    BY <1>1
  <2>2. Change(p, checks, e)
    BY <1>11 DEF Reopen
  <2> HIDE DEF p
  <2>3. e \in Events /\ e.snap.head = p.head
    BY <1>3, <1>4, <1>5, <1>6, <2>1 DEF Opened
  <2> HIDE DEF e
  <2>4. QED
    BY <2>2, <2>3, ChangeIsEarned
<1>12. CASE Close
  <2>1. /\ UNCHANGED <<checks, statuses, deliveries, queue, worker, earned, former, forged>>
        /\ pr' = [pr EXCEPT !.open = FALSE]
    BY <1>12 DEF Close, history
  <2>2. pr'.head = pr.head /\ pr'.title = pr.title /\ pr'.facts = pr.facts
    BY <1>1, <2>1
  <2>3. HistoryGrows
    BY <2>1, <2>2 DEF HistoryGrows, BeenHead
  <2>4. Approved(pr, checks)' = Approved(pr, checks)
    BY <2>1, <2>2 DEF Approved, Verdict, FactsOf
  <2>5. EventsWereTrue'
    BY <2>1, <2>3, EventsStayTrue
  <2>6. (\A w \in Evaluators : Honest(worker[w]))'
    BY <2>1, <2>3, WorkersStayHonest
  <2>7. QED
    BY <2>1, <2>3, <2>4, <2>5, <2>6, StatusesStayDeserved DEF EarnedInv
<1>13. ASSUME NEW c \in Contexts, Forge(c) PROVE EarnedInv'
  <2> DEFINE snap == [NoSnapshot EXCEPT !.head = c[1], !.base = c[2]]
             e == Event("overwritten", {}, snap)
  <2>1. /\ UNCHANGED <<pr, checks, queue, worker, earned, former>>
        /\ statuses' = [statuses EXCEPT ![c] = "success"]
        /\ forged' = forged \union {c}
        /\ deliveries' = Append(deliveries, e)
    BY <1>13 DEF Forge
  <2>2. e \in Events /\ e.type = "overwritten"
    <3>1. snap \in Snapshots
      BY <1>2 DEF Snapshots, Contexts
    <3> HIDE DEF snap
    <3>2. QED
      BY <1>5, <3>1
  <2> HIDE DEF e
  <2>3. HistoryGrows
    BY <2>1 DEF HistoryGrows, BeenHead
  <2>4. Approved(pr, checks)' = Approved(pr, checks)
    BY <2>1 DEF Approved
  <2>5. PICK x \in Events : x = e
    BY <2>2
  <2>6. WasTrue(x)'
    BY <2>2, <2>5 DEF WasTrue
  <2>7. \A i \in 1..Len(deliveries') :
          \/ \E j \in 1..Len(deliveries) : deliveries'[i] = deliveries[j]
          \/ deliveries'[i] = x
    BY <2>1, <2>5 DEF TypeOK
  <2>8. EventsWereTrue'
    BY <2>1, <2>3, <2>6, <2>7, EventsStayTrue
  <2>9. (\A w \in Evaluators : Honest(worker[w]))'
    BY <2>1, <2>3, WorkersStayHonest
  <2>10. StatusesAreDeserved'
    <3>1. \A d \in Contexts : Deserved(d)' <=> Deserved(d)
      BY <2>1 DEF Deserved
    <3>2. \A d \in Contexts : d # c => statuses'[d] = statuses[d]
      BY <2>1 DEF TypeOK
    <3>3. QED
      BY <2>1, <3>1, <3>2 DEF StatusesAreDeserved, EarnedInv
  <2>11. QED
    BY <2>1, <2>4, <2>8, <2>9, <2>10 DEF EarnedInv
<1>14. QED
  BY <1>7, <1>8, <1>9, <1>10, <1>11, <1>12, <1>13 DEF People

-----------------------------------------------------------------------------
(***************************************************************************)
(* The queue and the faults.                                               *)
(***************************************************************************)
(* A step of the server: it posts nothing, and what it keeps of events and  *)
(* evaluations is honest.                                                   *)
LEMMA ServerStep ==
  ASSUME TypeOK, EarnedInv, UNCHANGED <<github, earned, former, forged>>,
         \A i \in 1..Len(deliveries') :
           \E j \in 1..Len(deliveries) : deliveries'[i] = deliveries[j],
         \A i \in 1..Len(queue') :
           \/ \E j \in 1..Len(queue) : queue'[i] = queue[j]
           \/ \E j \in 1..Len(deliveries) : queue'[i] = deliveries[j],
         \A w \in Evaluators : \/ worker'[w] = worker[w]
                               \/ Kin(worker[w], worker'[w])
                               \/ \E m \in WorkerStates : worker'[w] = m /\ Honest(m)
  PROVE  EarnedInv'
<1>1. UNCHANGED <<pr, checks, statuses, earned, former, forged>>
  BY DEF github
<1>2. HistoryGrows /\ Approved(pr, checks)' \subseteq earned'
  BY <1>1, NothingNew
<1>3. EventsWereTrue'
  BY <1>2, EventsStayTrue
<1>4. (\A w \in Evaluators : Honest(worker[w]))'
  BY <1>2, WorkersStayHonest
<1>5. QED
  BY <1>1, <1>2, <1>3, <1>4, StatusesStayDeserved DEF EarnedInv

LEMMA IdleIsHonest == Honest(Idle)
BY DEF Honest, Idle

LEMMA DoubtedIsHonest ==
  ASSUME TypeOK, EarnedInv, NEW w \in Evaluators
  PROVE  Doubted[w] \in WorkerStates /\ Honest(Doubted[w])
<1>1. worker[w] \in WorkerStates /\ Honest(worker[w])
  BY DEF TypeOK, EarnedInv
<1>2. Doubted[w] = [worker[w] EXCEPT !.whole = FALSE]
  BY DEF Doubted
<1>3. QED
  BY <1>1, <1>2 DEF WorkerStates, Honest

LEMMA DeliveryIsEarned ==
  ASSUME TypeOK, EarnedInv, Deliver PROVE EarnedInv'
<1>1. PICK i \in 1..Len(deliveries) : Schedule(i) \/ DropEvent(i)
  BY DEF Deliver
<1>2. deliveries \in Seq(Events) /\ queue \in Seq(Events)
  BY DEF TypeOK
<1>3. /\ UNCHANGED <<github, earned, former, forged>>
      /\ deliveries' = DropAt(deliveries, i)
  BY <1>1 DEF Schedule, DropEvent, history
<1>4. \A n \in 1..Len(deliveries') :
        \E j \in 1..Len(deliveries) : deliveries'[n] = deliveries[j]
  <2> DEFINE dropped == DropAt(deliveries, i)
  <2>1. /\ Len(dropped) = Len(deliveries) - 1
        /\ \A n \in 1..(Len(deliveries) - 1) :
             dropped[n] = IF n < i THEN deliveries[n] ELSE deliveries[n + 1]
    BY <1>2, DropAtProperties
  <2> HIDE DEF dropped
  <2>2. ASSUME NEW n \in 1..Len(dropped)
        PROVE  \E j \in 1..Len(deliveries) : dropped[n] = deliveries[j]
    <3>1. Len(deliveries) \in Nat
      BY <1>2
    <3>2. n \in 1..Len(deliveries) /\ n + 1 \in 1..Len(deliveries)
      BY <2>1, <3>1
    <3>3. QED
      BY <2>1, <3>1, <3>2
  <2>3. deliveries' = dropped
    BY <1>3 DEF dropped
  <2>4. QED
    BY <2>2, <2>3
<1>5. \A n \in 1..Len(queue') :
        \/ \E j \in 1..Len(queue) : queue'[n] = queue[j]
        \/ \E j \in 1..Len(deliveries) : queue'[n] = deliveries[j]
  <2>1. queue' = queue \/ queue' = Append(queue, deliveries[i])
    BY <1>1 DEF Schedule, DropEvent
  <2>2. QED
    BY <1>2, <2>1
<1>6. \A w \in Evaluators : \/ worker'[w] = worker[w]
                            \/ \E m \in WorkerStates : worker'[w] = m /\ Honest(m)
  <2>1. worker' = worker \/ worker' = Doubted
    BY <1>1 DEF Schedule, DropEvent
  <2>2. QED
    BY <2>1, DoubtedIsHonest
<1>7. QED
  BY <1>3, <1>4, <1>5, <1>6, ServerStep

LEMMA TakeIsEarned ==
  ASSUME TypeOK, EarnedInv, NEW w \in Evaluators, Take(w) PROVE EarnedInv'
<1> DEFINE e == Head(queue)
           posting == [Idle EXCEPT !.stage = "posting", !.event = e, !.state = "failure",
                                   !.snap = [e.snap EXCEPT !.open = TRUE]]
           taken == [Idle EXCEPT !.stage = "taken", !.event = e]
<1>1. queue \in Seq(Events) /\ queue # <<>> /\ worker \in [Evaluators -> WorkerStates]
  BY DEF Take, TypeOK
<1>2. e \in Events /\ WasTrue(e)
  <2>1. e = queue[1] /\ 1 \in 1..Len(queue)
    BY <1>1
  <2>2. QED
    BY <1>1, <2>1 DEF EarnedInv, EventsWereTrue
<1>3. /\ worker' = [worker EXCEPT ![w] = IF e.type = "overwritten" THEN posting ELSE taken]
      /\ queue' = Tail(queue)
      /\ UNCHANGED <<github, deliveries, earned, former, forged>>
  BY DEF Take, history
<1> HIDE DEF e
<1>4. posting \in WorkerStates /\ Honest(posting)
  <2>1. Idle \in WorkerStates /\ e.snap \in Snapshots
    BY <1>2, SnapshotsAreTyped DEF Events
  <2>2. [e.snap EXCEPT !.open = TRUE] \in Snapshots
    BY <2>1 DEF Snapshots
  <2>3. posting \in WorkerStates
    BY <1>2, <2>1, <2>2 DEF WorkerStates, States
  <2>4. posting.stage = "posting" /\ posting.state = "failure"
    BY <2>1 DEF WorkerStates
  <2>5. QED
    BY <2>3, <2>4 DEF Honest
<1>5. taken \in WorkerStates /\ Honest(taken)
  <2>1. Idle \in WorkerStates
    BY SnapshotsAreTyped
  <2>2. taken \in WorkerStates /\ taken.stage = "taken" /\ taken.event = e
    BY <1>2, <2>1 DEF WorkerStates
  <2>3. QED
    BY <1>2, <2>2 DEF Honest
<1> HIDE DEF posting, taken
<1>6. \A v \in Evaluators : \/ worker'[v] = worker[v]
                            \/ \E m \in WorkerStates : worker'[v] = m /\ Honest(m)
  BY <1>1, <1>3, <1>4, <1>5
<1>7. \A i \in 1..Len(queue') : \E j \in 1..Len(queue) : queue'[i] = queue[j]
  <2> SUFFICES ASSUME NEW i \in 1..Len(Tail(queue))
               PROVE  \E j \in 1..Len(queue) : Tail(queue)[i] = queue[j]
    BY <1>3
  <2>1. i + 1 \in 1..Len(queue) /\ Tail(queue)[i] = queue[i + 1]
    BY <1>1
  <2>2. QED
    BY <2>1
<1>8. QED
  BY <1>3, <1>6, <1>7, ServerStep

LEMMA ViewIsEarned ==
  ASSUME TypeOK, EarnedInv, NEW w \in Evaluators, View(w) PROVE EarnedInv'
<1> DEFINE e == Event("live", Triggers, NoSnapshot)
           taken == [Idle EXCEPT !.stage = "taken", !.event = e]
<1>1. worker \in [Evaluators -> WorkerStates] /\ Idle \in WorkerStates
  BY SnapshotsAreTyped DEF TypeOK
<1>2. e \in Events /\ e.type = "live"
  BY SnapshotsAreTyped, EventsAreTyped DEF Event
<1>3. worker' = [worker EXCEPT ![w] = taken] /\ UNCHANGED <<github, deliveries, queue, history>>
  BY DEF View
<1> HIDE DEF e
<1>4. taken \in WorkerStates /\ taken.stage = "taken" /\ taken.event = e
  BY <1>1, <1>2 DEF WorkerStates
<1>5. Honest(taken)
  BY <1>2, <1>4 DEF Honest, WasTrue
<1> HIDE DEF taken
<1>6. \A v \in Evaluators : \/ worker'[v] = worker[v]
                            \/ \E m \in WorkerStates : worker'[v] = m /\ Honest(m)
  BY <1>1, <1>3, <1>4, <1>5
<1>7. QED
  BY <1>3, <1>6, ServerStep DEF history

LEMMA FaultsAreEarned ==
  ASSUME TypeOK, EarnedInv,
         Restart \/ \E w \in Evaluators : LoadFails(w) \/ ReadFails(w) \/ PostFails(w)
  PROVE  EarnedInv'
<1>1. UNCHANGED <<github, deliveries, earned, former, forged>>
  BY DEF Restart, LoadFails, ReadFails, PostFails, Fault
<1>2. queue' = queue \/ queue' = <<>>
  BY DEF Restart, LoadFails, ReadFails, PostFails
<1>3. Idle \in WorkerStates /\ Honest(Idle)
  BY SnapshotsAreTyped, IdleIsHonest
<1>4. \A v \in Evaluators : \/ worker'[v] = worker[v]
                            \/ \E m \in WorkerStates : worker'[v] = m /\ Honest(m)
  <2>1. CASE Restart
    BY <1>3, <2>1 DEF Restart
  <2>2. ASSUME NEW w \in Evaluators, NEW m,
               worker' = [Doubted EXCEPT ![w] = m], m \in WorkerStates, Honest(m)
        PROVE  \A v \in Evaluators : \E n \in WorkerStates : worker'[v] = n /\ Honest(n)
    <3>1. \A v \in Evaluators : worker'[v] = Doubted[v] \/ worker'[v] = m
      BY <2>2 DEF Doubted
    <3>2. QED
      BY <2>2, <3>1, DoubtedIsHonest
  <2>3. ASSUME NEW w \in Evaluators, LoadFails(w)
        PROVE  \A v \in Evaluators : \E n \in WorkerStates : worker'[v] = n /\ Honest(n)
    <3> DEFINE snap == Located(worker[w].event)
               m == [worker[w] EXCEPT !.stage = "posting", !.snap = snap, !.state = "error"]
    <3>1. worker[w] \in WorkerStates /\ snap \in Snapshots
      <4>1. worker[w] \in WorkerStates
        BY DEF TypeOK
      <4>2. worker[w].event \in Events
        BY <4>1 DEF WorkerStates
      <4>3. QED
        BY <4>1, <4>2, LocatedIsTyped
    <3>2. /\ \/ worker' = [Doubted EXCEPT ![w] = m]
             \/ worker' = [Doubted EXCEPT ![w] = Idle]
      BY <2>3 DEF LoadFails
    <3> HIDE DEF snap
    <3>3. m \in WorkerStates /\ m.stage = "posting" /\ m.state = "error"
      BY <3>1 DEF WorkerStates, States
    <3>4. Honest(m)
      BY <3>3 DEF Honest
    <3> HIDE DEF m
    <3>5. QED
      BY <1>3, <2>2, <3>2, <3>3, <3>4
  <2>4. ASSUME NEW w \in Evaluators, ReadFails(w)
        PROVE  \A v \in Evaluators : \E n \in WorkerStates : worker'[v] = n /\ Honest(n)
    <3> DEFINE m == [worker[w] EXCEPT !.stage = "posting", !.state = "error",
                                      !.unread = {}, !.whole = FALSE]
    <3>1. worker' = [Doubted EXCEPT ![w] = m]
      BY <2>4 DEF ReadFails
    <3>2. m \in WorkerStates /\ m.stage = "posting" /\ m.state = "error"
      <4>1. worker[w] \in WorkerStates
        BY DEF TypeOK
      <4>2. QED
        BY <4>1 DEF WorkerStates, States
    <3>3. Honest(m)
      BY <3>2 DEF Honest
    <3> HIDE DEF m
    <3>4. QED
      BY <2>2, <3>1, <3>2, <3>3
  <2>5. ASSUME NEW w \in Evaluators, PostFails(w)
        PROVE  \A v \in Evaluators : \E n \in WorkerStates : worker'[v] = n /\ Honest(n)
    <3>1. worker' = [Doubted EXCEPT ![w] = Idle]
      BY <2>5 DEF PostFails
    <3>2. QED
      BY <1>3, <2>2, <3>1
  <2>6. QED
    BY <2>1, <2>3, <2>4, <2>5
<1>5. QED
  BY <1>1, <1>2, <1>4, ServerStep

-----------------------------------------------------------------------------
(***************************************************************************)
(* The handlers.                                                           *)
(***************************************************************************)
(* Every pull request a handler evaluates has, or had, that head.           *)
LEMMA LocatedWasHead ==
  ASSUME TypeOK, EarnedInv, NEW w \in Evaluators, worker[w].stage = "taken"
  PROVE  /\ Located(worker[w].event) \in Snapshots
         /\ BeenHead(Located(worker[w].event).head)
<1>1. worker[w] \in WorkerStates /\ worker[w].event \in Events
  BY DEF TypeOK, WorkerStates
<1>2. WasTrue(worker[w].event)
  BY DEF EarnedInv, Honest
<1>3. QED
  BY <1>1, <1>2, LocatedIsTyped DEF WasTrue, Located, BeenHead, Snapshot

LEMMA BeginIsEarned ==
  ASSUME TypeOK, EarnedInv, OneQuery, NEW w \in Evaluators,
         RejectPolicy(w) \/ StartEvaluation(w)
  PROVE  EarnedInv'
<1> DEFINE m == worker'[w]
<1>1. /\ UNCHANGED <<github, deliveries, queue, earned, former, forged>>
      /\ worker[w].stage = "taken"
  BY DEF RejectPolicy, StartEvaluation, history
<1>2. Begun(w) /\ \A v \in Evaluators \ {w} : Kin(worker[v], worker'[v])
  BY EvaluationBegins
<1>3. BeenHead(m.snap.head)
  BY <1>1, <1>2, LocatedWasHead DEF Begun
<1>4. m \in WorkerStates
  <2>1. TypeOK'
    BY HandleKeepsTypes DEF Handle
  <2>2. QED
    BY <2>1 DEF TypeOK
<1>5. "paged" \in Groups /\ Query \in Groups
  BY QueryReadsAll DEF Groups
<1>6. Honest(m)
  BY <1>2, <1>3, <1>5 DEF Honest, Begun
<1>7. \A v \in Evaluators : \/ Kin(worker[v], worker'[v])
                            \/ \E x \in WorkerStates : worker'[v] = x /\ Honest(x)
  BY <1>2, <1>4, <1>6
<1>8. QED
  BY <1>1, <1>7, ServerStep

LEMMA SkipIsEarned ==
  ASSUME TypeOK, EarnedInv, NEW w \in Evaluators, Skip(w) PROVE EarnedInv'
<1>1. /\ UNCHANGED <<github, deliveries, queue, earned, former, forged>>
      /\ worker' = [worker EXCEPT ![w] = Idle]
  BY DEF Skip, Finish, history
<1>2. Idle \in WorkerStates /\ Honest(Idle)
  BY SnapshotsAreTyped, IdleIsHonest
<1>3. \A v \in Evaluators : worker'[v] = worker[v] \/ worker'[v] = Idle
  BY <1>1 DEF TypeOK
<1>4. QED
  BY <1>1, <1>2, <1>3, ServerStep

(* What the query finds, if it makes the head a success, was earned now.    *)
LEMMA FoundIsEarned ==
  ASSUME TypeOK, EarnedInv, TitlesDoNotMatter, NEW b \in Bases, NEW t \in Titles,
         Policy[b] = "valid",
         Verdict(b, t, pr.head, FactsOf(pr, checks, pr.head)) = "success"
  PROVE  Deserved(<<pr.head, b>>)
<1>1. /\ pr.head \in Shas /\ pr.title \in Titles
      /\ FactsOf(pr, checks, pr.head) \in Facts
  BY FactsAreTyped DEF TypeOK
<1>2. Verdict(b, pr.title, pr.head, FactsOf(pr, checks, pr.head)) = "success"
  BY <1>1 DEF Verdict, TitlesDoNotMatter
<1>3. <<pr.head, b>> \in Approved(pr, checks)
  BY <1>2 DEF Approved
<1>4. QED
  BY <1>3 DEF EarnedInv, Deserved

LEMMA ReadIsEarned ==
  ASSUME TypeOK, EarnedInv, OneQuery, TitlesDoNotMatter,
         NEW w \in Evaluators, NEW g \in Groups, Read(w, g)
  PROVE  EarnedInv'
<1> DEFINE m == worker[w]
           s == m.snap
           now == FactsOf(pr, checks, s.head)
           inGroup(k) == IF g = "paged" THEN k \in Paged ELSE k = g
           tip == IF g = "paged" THEN pr.head ELSE m.tip
           seen == [k \in Kinds |-> IF inGroup(k) THEN now[k] ELSE m.seen[k]]
           left == m.unread \ {g}
           gone == [m EXCEPT !.stage = "posting", !.snap = s, !.state = "error", !.unread = {}]
           read == [m EXCEPT !.unread = left, !.tip = tip, !.seen = seen,
                             !.stage = IF left = {} THEN "posting" ELSE "reading",
                             !.state = IF left = {} THEN Verdict(s.base, s.title, tip, seen)
                                       ELSE @]
<1>1. /\ UNCHANGED <<github, deliveries, queue, earned, former, forged>>
      /\ m.stage = "reading" /\ g \in m.unread
      /\ worker' = [worker EXCEPT ![w] = gone] \/ worker' = [worker EXCEPT ![w] = read]
  <2>1. /\ UNCHANGED <<github, deliveries, queue, earned, former, forged>>
        /\ m.stage = "reading" /\ g \in m.unread
    BY DEF Read, history
  <2>2. CASE g = "paged" /\ s.head \notin pr.commits
    <3>1. PostNext(w, s, "error")
      BY <2>2 DEF Read
    <3>2. worker' = [worker EXCEPT ![w] = gone]
      BY <3>1 DEF PostNext, TypeOK
    <3>3. QED
      BY <2>1, <3>2
  <2>3. CASE ~(g = "paged" /\ s.head \notin pr.commits)
    <3>1. worker' = [worker EXCEPT
              ![w].unread = left, ![w].tip = tip, ![w].seen = seen,
              ![w].stage = IF left = {} THEN "posting" ELSE "reading",
              ![w].state = IF left = {} THEN Verdict(s.base, s.title, tip, seen) ELSE @]
      BY <2>3 DEF Read
    <3>2. worker' = [worker EXCEPT ![w] = read]
      BY <3>1 DEF TypeOK
    <3>3. QED
      BY <2>1, <3>2
  <2>4. QED
    BY <2>2, <2>3
<1>2. worker \in [Evaluators -> WorkerStates] /\ m \in WorkerStates
  BY DEF TypeOK
<1>3. /\ s \in Snapshots /\ s.head \in Shas /\ s.base \in Bases /\ s.title \in Titles
      /\ m.seen \in Facts /\ m.tip \in Shas /\ m.unread \in SUBSET Groups
  BY <1>2 DEF WorkerStates, Snapshots
<1>4. now \in Facts /\ tip \in Shas
  BY <1>3, FactsAreTyped DEF TypeOK
<1>5. seen \in Facts
  BY <1>3, <1>4 DEF Facts
<1>6. \A k \in Kinds : inGroup(k) <=> g = Query
  <2>1. \A k \in Kinds : inGroup(k) <=> GroupOf(k) = g
    BY ConstantsAssumption DEF GroupOf, Groups
  <2>2. QED
    BY <2>1, QueryReadsAll
<1>7. /\ BeenHead(s.head) /\ Policy[s.base] = "valid"
      /\ "paged" \notin m.unread => m.tip = s.head \/ s.head \in former
      /\ Query \notin m.unread =>
           (Verdict(s.base, s.title, s.head, m.seen) = "success" => Deserved(Context(s)))
  BY <1>1 DEF EarnedInv, Honest
<1>8. Context(s) = <<s.head, s.base>>
  BY DEF Context
<1>9. "paged" \notin left => tip = s.head \/ s.head \in former
  BY <1>7 DEF BeenHead
<1>10. Query \notin left =>
         (Verdict(s.base, s.title, s.head, seen) = "success" => Deserved(Context(s)))
  <2>1. CASE g = Query
    <3>1. seen = now
      <4>1. \A k \in Kinds : seen[k] = now[k]
        BY <1>6, <2>1
      <4>2. QED
        BY <1>4, <1>5, <4>1 DEF Facts
    <3>2. CASE s.head \in former
      BY <1>8, <3>2 DEF Deserved
    <3>3. CASE s.head = pr.head
      BY <1>3, <1>7, <1>8, <3>1, <3>3, FoundIsEarned
    <3>4. QED
      BY <1>7, <3>2, <3>3 DEF BeenHead
  <2>2. CASE g # Query
    <3>1. seen = m.seen
      <4>1. \A k \in Kinds : seen[k] = m.seen[k]
        BY <1>6, <2>2
      <4>2. QED
        BY <1>3, <1>5, <4>1 DEF Facts
    <3>2. Query \notin left => Query \notin m.unread
      BY <2>2
    <3>3. QED
      BY <1>7, <3>1, <3>2
  <2>3. QED
    BY <2>1, <2>2
<1> HIDE DEF s, now, inGroup, tip, seen, left
<1>11. gone \in WorkerStates /\ Honest(gone)
  <2>1. gone \in WorkerStates /\ gone.stage = "posting" /\ gone.state = "error"
    BY <1>2, <1>3 DEF WorkerStates, States
  <2>2. QED
    BY <2>1 DEF Honest
<1>12. left \in SUBSET Groups
  BY <1>3 DEF left
<1>13. Verdict(s.base, s.title, tip, seen) \in States
  BY <1>3, <1>4, <1>5, VerdictIsTyped
<1>14. /\ read \in WorkerStates /\ read.snap = s /\ read.unread = left
       /\ read.tip = tip /\ read.seen = seen
       /\ read.stage = IF left = {} THEN "posting" ELSE "reading"
       /\ left = {} => read.state = Verdict(s.base, s.title, tip, seen)
  BY <1>2, <1>4, <1>5, <1>12, <1>13 DEF WorkerStates, s
<1> HIDE DEF read, gone, m
<1>15. Honest(read)
  <2>1. CASE left = {}
    <3>1. CASE s.head \in former
      <4>1. Deserved(Context(s))
        BY <1>8, <3>1 DEF Deserved
      <4>2. QED
        BY <1>14, <2>1, <4>1 DEF Honest
    <3>2. CASE s.head \notin former
      <4>1. tip = s.head
        BY <1>9, <2>1, <3>2
      <4>2. QED
        BY <1>10, <1>14, <2>1, <4>1 DEF Honest
    <3>3. QED
      BY <3>1, <3>2
  <2>2. CASE left # {}
    BY <1>7, <1>9, <1>10, <1>14, <2>2 DEF Honest
  <2>3. QED
    BY <2>1, <2>2
<1>16. \A v \in Evaluators : \/ worker'[v] = worker[v]
                             \/ \E x \in WorkerStates : worker'[v] = x /\ Honest(x)
  BY <1>1, <1>2, <1>11, <1>14, <1>15
<1>17. QED
  BY <1>1, <1>16, ServerStep

LEMMA PostIsEarned ==
  ASSUME TypeOK, EarnedInv, NEW w \in Evaluators, Post(w) PROVE EarnedInv'
<1> DEFINE c == Context(worker[w].snap)
<1>1. /\ UNCHANGED <<pr, checks, deliveries, queue, earned, former, forged>>
      /\ worker[w].stage = "posting" /\ FinishBefore(w)
  BY DEF Post
<1>2. statuses' = statuses \/ statuses' = [statuses EXCEPT ![c] = worker[w].state]
  BY DEF Post
<1>3. HistoryGrows /\ Approved(pr, checks)' \subseteq earned'
  BY <1>1, NothingNew
<1>4. EventsWereTrue'
  BY <1>1, <1>3, EventsStayTrue
<1>5. (\A v \in Evaluators : Honest(worker[v]))'
  <2>1. Idle \in WorkerStates /\ Honest(Idle)
    BY SnapshotsAreTyped, IdleIsHonest
  <2>2. \A v \in Evaluators : Kin(worker[v], worker'[v]) \/ worker'[v] = Idle
    BY <1>1, FinishIsNoticed
  <2>3. QED
    BY <1>3, <2>1, <2>2, WorkersStayHonest
<1>6. StatusesAreDeserved'
  <2>1. worker[w].state = "success" => Deserved(c)
    BY <1>1 DEF EarnedInv, Honest
  <2>2. \A d \in Contexts : statuses'[d] = statuses[d] \/ (d = c /\ statuses'[d] = worker[w].state)
    BY <1>2 DEF TypeOK
  <2>3. \A d \in Contexts : Deserved(d) => Deserved(d)'
    BY <1>3, DeservedStays
  <2>4. \A d \in Contexts : statuses'[d] = "success" => Deserved(d) \/ d \in forged
    BY <2>1, <2>2 DEF EarnedInv, StatusesAreDeserved
  <2>5. QED
    BY <1>1, <2>3, <2>4 DEF StatusesAreDeserved
<1>7. QED
  BY <1>3, <1>4, <1>5, <1>6 DEF EarnedInv

-----------------------------------------------------------------------------
LEMMA InitIsEarned == Init => EarnedInv
<1> SUFFICES ASSUME Init PROVE EarnedInv
  OBVIOUS
<1>1. /\ deliveries = <<Opened(Snapshot(pr))>> /\ queue = <<>>
      /\ worker = [w \in Evaluators |-> Idle] /\ earned = Approved(pr, checks)
      /\ statuses = [c \in Contexts |-> "none"]
  BY DEF Init
<1>2. \A i \in 1..Len(deliveries) : WasTrue(deliveries[i])
  <2>1. Opened(Snapshot(pr)).snap.head = pr.head
    BY DEF Opened, Event, Snapshot
  <2>2. \A i \in 1..Len(deliveries) : deliveries[i] = Opened(Snapshot(pr))
    BY <1>1
  <2>3. QED
    BY <2>1, <2>2 DEF WasTrue, BeenHead
<1>3. \A i \in 1..Len(queue) : WasTrue(queue[i])
  BY <1>1
<1>4. \A w \in Evaluators : Honest(worker[w])
  BY <1>1, IdleIsHonest
<1>5. StatusesAreDeserved
  BY <1>1 DEF StatusesAreDeserved
<1>6. QED
  BY <1>1, <1>2, <1>3, <1>4, <1>5 DEF EarnedInv, EventsWereTrue

LEMMA NextIsEarned ==
  ASSUME OneQuery, TitlesDoNotMatter, TypeOK, EarnedInv, [Next]_vars
  PROVE  EarnedInv'
<1>1. CASE People
  BY <1>1, PeopleAreEarned
<1>2. CASE Deliver
  BY <1>2, DeliveryIsEarned
<1>3. ASSUME NEW w \in Evaluators, Take(w) \/ View(w) PROVE EarnedInv'
  BY <1>3, TakeIsEarned, ViewIsEarned
<1>4. ASSUME NEW w \in Evaluators, Handle(w) PROVE EarnedInv'
  <2>1. CASE Skip(w) \/ RejectPolicy(w) \/ StartEvaluation(w)
    BY <2>1, SkipIsEarned, BeginIsEarned
  <2>2. CASE Post(w)
    BY <2>2, PostIsEarned
  <2>3. ASSUME NEW g \in Groups, Read(w, g) PROVE EarnedInv'
    BY <2>3, ReadIsEarned
  <2>4. QED
    BY <1>4, <2>1, <2>2, <2>3 DEF Handle
<1>5. CASE Restart \/ \E w \in Evaluators : LoadFails(w) \/ ReadFails(w) \/ PostFails(w)
  BY <1>5, FaultsAreEarned
<1>6. CASE UNCHANGED vars
  <2>1. UNCHANGED <<github, deliveries, queue, worker, earned, former, forged>>
    BY <1>6 DEF vars, github
  <2>2. QED
    BY <2>1, ServerStep
<1>7. QED
  BY <1>1, <1>2, <1>3, <1>4, <1>5, <1>6 DEF Next

LEMMA EarnedInvImpliesSuccessIsEarned == TypeOK /\ EarnedInv => SuccessIsEarned
<1> SUFFICES ASSUME TypeOK, EarnedInv, statuses[Context(pr)] = "success",
                    pr.head \notin former, Context(pr) \notin forged
             PROVE  Context(pr) \in earned
  BY DEF SuccessIsEarned
<1>1. Context(pr) \in Contexts /\ Context(pr)[1] = pr.head
  BY DEF TypeOK, Context, Contexts
<1>2. QED
  BY <1>1 DEF EarnedInv, StatusesAreDeserved, Deserved

(* However evaluations race, and whatever is lost or late: policy-bot's     *)
(* success on a head commit was the policy's verdict on that commit at some *)
(* moment.  A query reads its facts at one moment; the second query of a    *)
(* policy that needs two may combine facts that never were together.        *)
THEOREM SuccessIsAlwaysEarned ==
  ASSUME OneQuery, TitlesDoNotMatter
  PROVE  Spec => []SuccessIsEarned
<1>1. Init => TypeOK /\ EarnedInv
  BY InitIsTyped, InitIsEarned
<1>2. TypeOK /\ EarnedInv /\ [Next]_vars => (TypeOK /\ EarnedInv)'
  BY NextKeepsTypes, NextIsEarned
<1>3. TypeOK /\ EarnedInv => SuccessIsEarned
  BY EarnedInvImpliesSuccessIsEarned
<1>4. QED
  BY <1>1, <1>2, <1>3, PTL DEF Spec
=============================================================================
