------------------------- MODULE ReviewRequestsProofs -------------------------
(***************************************************************************)
(* Whatever the rules select, and for any number of people and evaluations *)
(* of a pull request, nobody is asked twice for one head, nobody who is    *)
(* needed is overlooked, and no more than one evaluation would ask.        *)
(***************************************************************************)
EXTENDS ReviewRequests, WellFounded, TLAPS

(* Who was asked once is asked still, has been removed or has reviewed.    *)
AskedLeaveTraces ==
  \A w \in asked : w \in requested \union removed \/ \E r \in reviewed : r.who = w

(* While nobody else acts, what an evaluation has read stays true.         *)
ReadIsCurrent(e) ==
  /\ phase[e] # "idle" /\ alone[e] => met[e] = Reviewers(seen[e])
  /\ phase[e] = "asking" /\ alone[e] => selection[e] \intersect Existing(e) = {}

AskInv ==
  /\ AskedLeaveTraces
  /\ phase \in [Evaluators -> {"idle", "waiting", "asking"}]
  /\ DOMAIN alone = Evaluators /\ DOMAIN seen = Evaluators
  /\ DOMAIN selection = Evaluators /\ DOMAIN met = Evaluators
  /\ \A e \in Evaluators : ReadIsCurrent(e)

LEMMA InitIsRead == Init => AskInv
BY DEF Init, AskInv, AskedLeaveTraces, ReadIsCurrent

(* A change by which nobody is alone any more, or that only the draft, the *)
(* head and the approvals show.                                            *)
LEMMA ChangeKeepsAskInv ==
  ASSUME AskInv, UNCHANGED <<evaluation, asked>>,
         \A w \in requested : w \in requested' \union removed' \/ \E r \in reviewed' : r.who = w,
         removed \subseteq removed', reviewed \subseteq reviewed',
         \/ alone' = Nobody
         \/ UNCHANGED <<alone, requested, removed, reviewed>>
  PROVE  AskInv'
<1>1. AskedLeaveTraces'
  BY DEF AskInv, AskedLeaveTraces
<1>2. UNCHANGED <<phase, seen, selection, met>>
  BY DEF evaluation
<1>3. ASSUME NEW e \in Evaluators PROVE ReadIsCurrent(e)'
  <2>1. CASE alone' = Nobody
    BY <2>1 DEF ReadIsCurrent, Nobody
  <2>2. CASE UNCHANGED <<alone, requested, removed, reviewed>>
    BY <1>2, <2>2 DEF ReadIsCurrent, Reviewers, Existing, AskInv
  <2>3. QED
    BY <2>1, <2>2
<1>4. DOMAIN alone' = Evaluators
  BY DEF AskInv, Nobody
<1>5. QED
  BY <1>1, <1>2, <1>3, <1>4 DEF AskInv

(* An evaluation moves while GitHub stays as it is: the others do not see. *)
LEMMA MoveKeepsAskInv ==
  ASSUME AskInv, NEW e \in Evaluators,
         UNCHANGED <<requested, removed, reviewed, asked>>,
         phase' \in [Evaluators -> {"idle", "waiting", "asking"}],
         DOMAIN alone' = Evaluators, DOMAIN seen' = Evaluators,
         DOMAIN selection' = Evaluators, DOMAIN met' = Evaluators,
         \A f \in Evaluators \ {e} :
           /\ phase'[f] = phase[f] /\ seen'[f] = seen[f] /\ selection'[f] = selection[f]
           /\ met'[f] = met[f] /\ (alone'[f] => alone[f]),
         ReadIsCurrent(e)'
  PROVE  AskInv'
<1>1. AskedLeaveTraces'
  BY DEF AskInv, AskedLeaveTraces
<1>2. ASSUME NEW f \in Evaluators, f # e PROVE ReadIsCurrent(f)'
  BY <1>2 DEF ReadIsCurrent, Reviewers, Existing, AskInv
<1>3. QED
  BY <1>1, <1>2 DEF AskInv

LEMMA SelectKeepsAskInv ==
  ASSUME AskInv, NEW e \in Evaluators, NEW event, NEW lost, Select(e, event, lost)
  PROVE  AskInv'
<1> DEFINE who == SelectReviewers(scenario, approving, lost).who
<1> DEFINE asks == ~event.draft /\ who # {}
<1>1. /\ phase' = [phase EXCEPT ![e] = IF asks THEN "waiting" ELSE @]
      /\ seen' = [seen EXCEPT ![e] = IF asks THEN event.head ELSE @]
      /\ selection' = [selection EXCEPT ![e] = IF asks THEN who ELSE @]
      /\ met' = [met EXCEPT ![e] = IF asks THEN Reviewers(event.head) ELSE @]
      /\ alone' = [alone EXCEPT ![e] = asks]
  BY DEF Select
<1>2. UNCHANGED <<requested, removed, reviewed, asked>> /\ phase[e] = "idle"
  BY DEF Select, people
<1>3. /\ phase' \in [Evaluators -> {"idle", "waiting", "asking"}]
      /\ DOMAIN alone' = Evaluators /\ DOMAIN seen' = Evaluators
      /\ DOMAIN selection' = Evaluators /\ DOMAIN met' = Evaluators
  BY <1>1 DEF AskInv
<1>4. \A f \in Evaluators \ {e} :
        /\ phase'[f] = phase[f] /\ seen'[f] = seen[f] /\ selection'[f] = selection[f]
        /\ met'[f] = met[f] /\ (alone'[f] => alone[f])
  BY <1>1 DEF AskInv
<1>5. ReadIsCurrent(e)'
  <2>1. CASE asks
    <3>1. /\ phase'[e] = "waiting" /\ seen'[e] = event.head /\ met'[e] = Reviewers(event.head)
      BY <1>1, <2>1 DEF AskInv
    <3>2. QED
      BY <1>2, <3>1 DEF ReadIsCurrent, Reviewers
  <2>2. CASE ~asks
    BY <1>1, <2>2 DEF AskInv, ReadIsCurrent
  <2>3. QED
    BY <2>1, <2>2
<1>6. QED
  BY <1>2, <1>3, <1>4, <1>5, MoveKeepsAskInv

LEMMA EndIsRead ==
  ASSUME AskInv, NEW e \in Evaluators, End(e)
  PROVE  /\ phase' \in [Evaluators -> {"idle", "waiting", "asking"}]
         /\ phase'[e] = "idle"
         /\ DOMAIN seen' = Evaluators
         /\ DOMAIN selection' = Evaluators /\ DOMAIN met' = Evaluators
         /\ \A f \in Evaluators \ {e} :
              /\ phase'[f] = phase[f] /\ seen'[f] = seen[f] /\ selection'[f] = selection[f]
              /\ met'[f] = met[f]
BY DEF End, AskInv

LEMMA ReadReviewersKeepsAskInv ==
  ASSUME AskInv, NEW e \in Evaluators, ReadReviewers(e)
  PROVE  AskInv'
<1>1. UNCHANGED <<requested, removed, reviewed, asked, alone>> /\ phase[e] = "waiting"
  BY DEF ReadReviewers, people, history
<1>2. CASE selection[e] \subseteq Existing(e)
  <2>1. End(e)
    BY <1>2 DEF ReadReviewers
  <2>2. ReadIsCurrent(e)'
    BY <2>1, EndIsRead DEF ReadIsCurrent
  <2>3. DOMAIN alone' = Evaluators /\ \A f \in Evaluators : alone'[f] => alone[f]
    BY <1>1 DEF AskInv
  <2>4. QED
    BY <1>1, <2>1, <2>2, <2>3, EndIsRead, MoveKeepsAskInv
<1>3. CASE ~(selection[e] \subseteq Existing(e))
  <2>1. /\ phase' = [phase EXCEPT ![e] = "asking"]
        /\ selection' = [selection EXCEPT ![e] = @ \ Existing(e)]
        /\ UNCHANGED <<seen, met>>
    BY <1>3 DEF ReadReviewers
  <2>2. /\ phase' \in [Evaluators -> {"idle", "waiting", "asking"}]
        /\ DOMAIN alone' = Evaluators /\ DOMAIN seen' = Evaluators
        /\ DOMAIN selection' = Evaluators /\ DOMAIN met' = Evaluators
        /\ \A f \in Evaluators \ {e} :
             /\ phase'[f] = phase[f] /\ seen'[f] = seen[f] /\ selection'[f] = selection[f]
             /\ met'[f] = met[f] /\ (alone'[f] => alone[f])
    BY <1>1, <2>1 DEF AskInv
  <2>3. alone[e] => met[e] = Reviewers(seen[e])
    BY <1>1 DEF AskInv, ReadIsCurrent
  <2>4. selection'[e] = selection[e] \ Existing(e)
    BY <2>1 DEF AskInv
  <2>5. Existing(e)' = Existing(e) /\ Reviewers(seen[e])' = Reviewers(seen[e])
    BY <1>1, <2>1 DEF Existing, Reviewers
  <2>6. ReadIsCurrent(e)'
    BY <1>1, <2>1, <2>3, <2>4, <2>5 DEF ReadIsCurrent, Reviewers
  <2>7. QED
    BY <1>1, <2>2, <2>6, MoveKeepsAskInv
<1>4. QED
  BY <1>2, <1>3

(* Everybody who is asked is in the list of requests afterwards.           *)
LEMMA RequestKeepsAskInv ==
  ASSUME AskInv, NEW e \in Evaluators, Request(e)
  PROVE  AskInv'
<1>1. /\ requested' = requested \union selection[e] /\ asked' = asked \union selection[e]
      /\ alone' = [f \in Evaluators |-> f = e /\ alone[e]] /\ End(e)
      /\ UNCHANGED <<removed, reviewed>>
  BY DEF Request, people
<1>2. AskedLeaveTraces'
  BY <1>1 DEF AskInv, AskedLeaveTraces
<1>3. ReadIsCurrent(e)'
  BY <1>1, EndIsRead DEF ReadIsCurrent
<1>4. ASSUME NEW f \in Evaluators, f # e PROVE ReadIsCurrent(f)'
  BY <1>1, <1>4 DEF ReadIsCurrent
<1>5. DOMAIN alone' = Evaluators
  BY <1>1
<1>6. QED
  BY <1>1, <1>2, <1>3, <1>4, <1>5, EndIsRead DEF AskInv

LEMMA FailKeepsAskInv ==
  ASSUME AskInv, NEW e \in Evaluators, Fail(e)
  PROVE  AskInv'
<1>1. UNCHANGED <<requested, removed, reviewed, asked, alone>> /\ End(e)
  BY DEF Fail, people
<1>2. ReadIsCurrent(e)'
  BY <1>1, EndIsRead DEF ReadIsCurrent
<1>3. DOMAIN alone' = Evaluators /\ \A f \in Evaluators : alone'[f] => alone[f]
  BY <1>1 DEF AskInv
<1>4. QED
  BY <1>1, <1>2, <1>3, EndIsRead, MoveKeepsAskInv

LEMMA StepKeepsAskInv ==
  ASSUME AskInv, [Next]_vars
  PROVE  AskInv'
<1>1. CASE Push \/ ConvertToDraft \/ MarkReady \/ Report
  <2>1. UNCHANGED <<evaluation, asked, alone, requested, removed, reviewed>>
    BY <1>1 DEF Push, ConvertToDraft, MarkReady, Report, Change, people
  <2>2. QED
    BY <2>1, ChangeKeepsAskInv
<1>2. ASSUME NEW u \in Users, Review(u) PROVE AskInv'
  <2>1. UNCHANGED <<evaluation, asked, removed>> /\ alone' = Nobody
    BY <1>2 DEF Review, Change
  <2>2. PICK answered :
          /\ reviewed' = reviewed \union {[who |-> w, head |-> head] : w \in answered \union {u}}
          /\ requested' = requested \ answered
    BY <1>2 DEF Review
  <2>3. ASSUME NEW w \in requested PROVE w \in requested' \/ \E r \in reviewed' : r.who = w
    <3>1. CASE w \in answered
      <4>1. [who |-> w, head |-> head] \in reviewed'
        BY <2>2, <3>1
      <4>2. [who |-> w, head |-> head].who = w
        OBVIOUS
      <4>3. QED
        BY <4>1, <4>2
    <3>2. QED
      BY <2>2, <3>1
  <2>4. QED
    BY <2>1, <2>2, <2>3, ChangeKeepsAskInv
<1>3. ASSUME NEW u \in Users, Withdraw(u) PROVE AskInv'
  BY <1>3, ChangeKeepsAskInv DEF Withdraw, Change
<1>4. ASSUME NEW w, Assign(w) PROVE AskInv'
  BY <1>4, ChangeKeepsAskInv DEF Assign, Change, people
<1>5. ASSUME NEW w, Unassign(w) PROVE AskInv'
  BY <1>5, ChangeKeepsAskInv DEF Unassign, Change, people
<1>6. ASSUME NEW event, Drop(event) PROVE AskInv'
  BY <1>6, ChangeKeepsAskInv DEF Drop, people
<1>7. CASE UNCHANGED vars
  BY <1>7, ChangeKeepsAskInv DEF vars, people, history
<1>8. QED
  BY <1>1, <1>2, <1>3, <1>4, <1>5, <1>6, <1>7,
     SelectKeepsAskInv, ReadReviewersKeepsAskInv, RequestKeepsAskInv, FailKeepsAskInv DEF Next

(* What ends the asking of a lone evaluation adds only who left a review.  *)
LEMMA AskedOnceInStep ==
  ASSUME AskInv, [Next]_vars, NEW e \in Evaluators,
         phase[e] = "asking", phase'[e] = "idle", alone[e],
         NEW w \in (requested' \ requested) \intersect asked
  PROVE  \E r \in reviewed : r.who = w /\ r.head # seen[e]
<1>1. ASSUME NEW v, Assign(v) PROVE FALSE
  BY <1>1 DEF Assign, Change, evaluation
<1>2. PICK f \in Evaluators : Request(f)
  BY <1>1, ZenonT(30) DEF Next, Push, ConvertToDraft, MarkReady, Report, Review, Withdraw, Unassign,
     Drop, Select, ReadReviewers, Fail, vars
<1>3. f = e
  BY <1>2, EndIsRead DEF Request
<1>4. w \in selection[e] /\ w \notin requested /\ w \notin Existing(e)
  BY <1>2, <1>3 DEF Request, AskInv, ReadIsCurrent
<1>5. w \notin removed /\ w \notin Reviewers(seen[e])
  BY <1>4 DEF Existing, AskInv, ReadIsCurrent
<1>6. PICK r \in reviewed : r.who = w
  BY <1>4, <1>5 DEF AskInv, AskedLeaveTraces
<1>7. QED
  BY <1>5, <1>6 DEF Reviewers

-----------------------------------------------------------------------------
(* No evaluation that nobody interferes with asks anybody a second time    *)
(* for the same head, whatever the rules select and however reviews and    *)
(* removals answered the first time (requestReviews and Difference).       *)
THEOREM NobodyIsAskedTwice == Spec => AskedOnce
<1>1. AskInv /\ [Next]_vars => AskInv'
  BY StepKeepsAskInv
<1>2. AskInv /\ [Next]_vars =>
        [\A e \in Evaluators :
           phase[e] = "asking" /\ phase'[e] = "idle" /\ alone[e]
           => \A w \in (requested' \ requested) \intersect asked :
                \E r \in reviewed : r.who = w /\ r.head # seen[e]]_vars
  BY AskedOnceInStep
<1>3. QED
  BY <1>1, <1>2, InitIsRead, PTL DEF Spec, AskedOnce

-----------------------------------------------------------------------------
Wanted == SelectReviewers(scenario, approving, {}).who

Settled == requested \union removed \union Reviewers(head)

(* An evaluation of the head is about to ask whoever is wanted.            *)
AsksAll(e) ==
  /\ seen[e] = head
  /\ \/ phase[e] = "waiting" /\ selection[e] = Wanted
     \/ phase[e] = "asking" /\ Wanted \subseteq selection[e] \union Settled

(* An evaluation has read reviews of its head, which are not taken back.   *)
MetReviewed(e) == phase[e] # "idle" => met[e] \subseteq Reviewers(seen[e])

EnoughInv ==
  /\ AskInv
  /\ \A e \in Evaluators : MetReviewed(e)
  /\ ~moved /\ ~draft => Wanted \subseteq Settled \/ \E e \in Evaluators : AsksAll(e)

LEMMA InitAsksAll == Init => EnoughInv
BY InitIsRead DEF Init, EnoughInv, MetReviewed

LEMMA WantedStays ==
  ASSUME UNCHANGED <<scenario, approving>>
  PROVE  Wanted' = Wanted
BY DEF Wanted

(* Reviews are not taken back, so more of a head's reviewers are known.    *)
LEMMA ReviewersGrow ==
  ASSUME reviewed \subseteq reviewed', NEW h
  PROVE  Reviewers(h) \subseteq Reviewers(h)'
BY DEF Reviewers

(* A step that moves no evaluation, and either changes the pull request or *)
(* takes nobody from those who are settled.                                *)
LEMMA ChangeKeepsEnough ==
  ASSUME EnoughInv, AskInv', UNCHANGED evaluation, reviewed \subseteq reviewed',
         \/ moved' \/ draft'
         \/ /\ UNCHANGED <<scenario, head, approving, moved, draft>>
            /\ requested \union removed \subseteq requested' \union removed'
  PROVE  EnoughInv'
<1>1. UNCHANGED <<phase, seen, selection, met>>
  BY DEF evaluation
<1>2. ASSUME NEW e \in Evaluators PROVE MetReviewed(e)'
  <2>1. Reviewers(seen[e]) \subseteq Reviewers(seen[e])'
    BY <1>1 DEF Reviewers
  <2>2. QED
    BY <1>1, <2>1 DEF EnoughInv, MetReviewed
<1>3. ASSUME ~moved', ~draft' PROVE (Wanted \subseteq Settled \/ \E e \in Evaluators : AsksAll(e))'
  <2>1. /\ UNCHANGED <<scenario, head, approving, moved, draft>>
        /\ requested \union removed \subseteq requested' \union removed'
    BY <1>3
  <2>2. Wanted' = Wanted
    BY <2>1, WantedStays
  <2>3. Reviewers(head) \subseteq Reviewers(head)'
    BY <2>1 DEF Reviewers
  <2>4. Settled \subseteq Settled'
    BY <2>1, <2>3 DEF Settled
  <2>5. CASE Wanted \subseteq Settled
    BY <2>2, <2>4, <2>5
  <2>6. CASE \E e \in Evaluators : AsksAll(e)
    <3>1. PICK e \in Evaluators : AsksAll(e)
      BY <2>6
    <3>2. AsksAll(e)'
      BY <1>1, <2>1, <2>2, <2>4, <3>1 DEF AsksAll
    <3>3. QED
      BY <3>2
  <2>7. QED
    BY <1>3, <2>1, <2>5, <2>6 DEF EnoughInv
<1>4. QED
  BY <1>2, <1>3 DEF EnoughInv

(* A step of one evaluation: the others go on as they were.                *)
LEMMA MoveKeepsEnough ==
  ASSUME EnoughInv, AskInv', NEW e \in Evaluators, UNCHANGED <<scenario, people, removed>>,
         requested \subseteq requested',
         \A f \in Evaluators \ {e} :
           /\ phase'[f] = phase[f] /\ seen'[f] = seen[f] /\ selection'[f] = selection[f]
           /\ met'[f] = met[f],
         MetReviewed(e)',
         \/ moved' \/ draft
         \/ (Wanted \subseteq Settled)' \/ AsksAll(e)'
         \/ ~moved /\ ~AsksAll(e)
  PROVE  EnoughInv'
<1>1. UNCHANGED <<scenario, draft, head, approving, reviewed, removed>>
  BY DEF people
<1>2. ASSUME NEW f \in Evaluators PROVE MetReviewed(f)'
  <2>1. CASE f # e
    <3>1. Reviewers(seen[f])' = Reviewers(seen[f])
      BY <1>1, <2>1 DEF Reviewers
    <3>2. QED
      BY <2>1, <3>1 DEF EnoughInv, MetReviewed
  <2>2. QED
    BY <2>1
<1>3. ASSUME ~moved', ~draft' PROVE (Wanted \subseteq Settled \/ \E f \in Evaluators : AsksAll(f))'
  <2>1. CASE (Wanted \subseteq Settled)' \/ AsksAll(e)'
    BY <2>1
  <2>2. CASE ~moved /\ ~AsksAll(e)
    <3>1. Wanted' = Wanted
      BY <1>1, WantedStays
    <3>2. Settled \subseteq Settled'
      BY <1>1 DEF Settled, Reviewers
    <3>3. CASE Wanted \subseteq Settled
      BY <3>1, <3>2, <3>3
    <3>4. CASE \E f \in Evaluators : AsksAll(f)
      <4>1. PICK f \in Evaluators : AsksAll(f) /\ f # e
        BY <2>2, <3>4
      <4>2. AsksAll(f)'
        BY <1>1, <3>1, <3>2, <4>1 DEF AsksAll
      <4>3. QED
        BY <4>2
    <3>5. QED
      BY <1>1, <1>3, <2>2, <3>3, <3>4 DEF EnoughInv
  <2>3. QED
    BY <1>1, <1>3, <2>1, <2>2
<1>4. QED
  BY <1>2, <1>3 DEF EnoughInv

(* The evaluation that sees the pull request as it is asks for all.        *)
LEMMA SelectKeepsEnough ==
  ASSUME EnoughInv, AskInv', NEW e \in Evaluators, NEW event,
         NEW lost \in SUBSET {"teams", "organizations"}, Select(e, event, lost)
  PROVE  EnoughInv'
<1> DEFINE who == SelectReviewers(scenario, approving, lost).who
<1> DEFINE asks == ~event.draft /\ who # {}
<1>1. /\ phase[e] = "idle"
      /\ phase' = [phase EXCEPT ![e] = IF asks THEN "waiting" ELSE @]
      /\ seen' = [seen EXCEPT ![e] = IF asks THEN event.head ELSE @]
      /\ selection' = [selection EXCEPT ![e] = IF asks THEN who ELSE @]
      /\ met' = [met EXCEPT ![e] = IF asks THEN Reviewers(event.head) ELSE @]
      /\ moved' = IF lost = {} /\ event = [head |-> head, draft |-> draft] THEN FALSE ELSE moved
      /\ UNCHANGED <<scenario, people, requested, removed>>
  BY DEF Select
<1>2. \A f \in Evaluators \ {e} :
        /\ phase'[f] = phase[f] /\ seen'[f] = seen[f] /\ selection'[f] = selection[f]
        /\ met'[f] = met[f]
  BY <1>1 DEF EnoughInv, AskInv
<1>3. UNCHANGED <<scenario, draft, head, approving, reviewed>>
  BY <1>1 DEF people
<1>4. CASE asks
  <2>1. /\ phase'[e] = "waiting" /\ seen'[e] = event.head /\ selection'[e] = who
        /\ met'[e] = Reviewers(event.head)
    BY <1>1, <1>4 DEF EnoughInv, AskInv
  <2>2. MetReviewed(e)'
    BY <1>3, <2>1 DEF MetReviewed, Reviewers
  <2>3. CASE lost = {} /\ event = [head |-> head, draft |-> draft]
    <3>1. event.head = head /\ who = Wanted
      BY <2>3 DEF Wanted
    <3>2. Wanted' = Wanted
      BY <1>3, WantedStays
    <3>3. AsksAll(e)'
      BY <1>3, <2>1, <3>1, <3>2 DEF AsksAll
    <3>4. QED
      BY <1>1, <1>2, <2>2, <3>3, MoveKeepsEnough
  <2>4. CASE ~(lost = {} /\ event = [head |-> head, draft |-> draft])
    <3>1. moved' \/ (~moved /\ ~AsksAll(e))
      BY <1>1, <2>4 DEF AsksAll
    <3>2. QED
      BY <1>1, <1>2, <2>2, <3>1, MoveKeepsEnough
  <2>5. QED
    BY <2>3, <2>4
<1>5. CASE ~asks
  <2>1. phase'[e] = "idle"
    BY <1>1, <1>5 DEF EnoughInv, AskInv
  <2>2. MetReviewed(e)'
    BY <2>1 DEF MetReviewed
  <2>3. CASE lost = {} /\ event = [head |-> head, draft |-> draft]
    <3>1. event.draft = draft
      BY <2>3
    <3>2. draft \/ Wanted = {}
      BY <1>5, <2>3, <3>1 DEF Wanted
    <3>3. Wanted' = Wanted
      BY <1>3, WantedStays
    <3>4. draft \/ (Wanted \subseteq Settled)'
      BY <3>2, <3>3
    <3>5. QED
      BY <1>1, <1>2, <2>2, <3>4, MoveKeepsEnough
  <2>4. CASE ~(lost = {} /\ event = [head |-> head, draft |-> draft])
    <3>1. moved' \/ (~moved /\ ~AsksAll(e))
      BY <1>1, <2>4 DEF AsksAll
    <3>2. QED
      BY <1>1, <1>2, <2>2, <3>1, MoveKeepsEnough
  <2>5. QED
    BY <2>3, <2>4
<1>6. QED
  BY <1>4, <1>5

(* Whom an evaluation does not ask is asked already, removed or settled.   *)
LEMMA ReadReviewersKeepsEnough ==
  ASSUME EnoughInv, AskInv', NEW e \in Evaluators, ReadReviewers(e)
  PROVE  EnoughInv'
<1>1. UNCHANGED <<scenario, people, requested, removed, moved>> /\ phase[e] = "waiting"
  BY DEF ReadReviewers, history
<1>2. UNCHANGED <<scenario, draft, head, approving, reviewed, requested, removed>>
  BY <1>1 DEF people
<1>3. Wanted' = Wanted /\ Settled' = Settled /\ Reviewers(seen[e])' = Reviewers(seen'[e])
  BY <1>2, WantedStays DEF Settled, Reviewers
<1>4. AsksAll(e) => selection[e] = Wanted /\ Existing(e) \subseteq Settled
  BY <1>1 DEF AsksAll, Existing, Settled, EnoughInv, MetReviewed
<1>5. CASE selection[e] \subseteq Existing(e)
  <2>1. End(e)
    BY <1>5 DEF ReadReviewers
  <2>2. MetReviewed(e)'
    BY <2>1, EndIsRead DEF MetReviewed, EnoughInv
  <2>3. (Wanted \subseteq Settled)' \/ ~AsksAll(e)
    BY <1>3, <1>4, <1>5
  <2>4. QED
    BY <1>1, <2>1, <2>2, <2>3, EndIsRead, MoveKeepsEnough DEF EnoughInv
<1>6. CASE ~(selection[e] \subseteq Existing(e))
  <2>1. /\ phase' = [phase EXCEPT ![e] = "asking"]
        /\ selection' = [selection EXCEPT ![e] = @ \ Existing(e)]
        /\ UNCHANGED <<seen, met>>
    BY <1>6 DEF ReadReviewers
  <2>2. phase'[e] = "asking" /\ selection'[e] = selection[e] \ Existing(e)
    BY <2>1 DEF EnoughInv, AskInv
  <2>3. \A f \in Evaluators \ {e} :
          /\ phase'[f] = phase[f] /\ seen'[f] = seen[f] /\ selection'[f] = selection[f]
          /\ met'[f] = met[f]
    BY <2>1 DEF EnoughInv, AskInv
  <2>4. MetReviewed(e)'
    BY <1>1, <1>2, <2>1 DEF MetReviewed, EnoughInv, Reviewers
  <2>5. AsksAll(e) => Wanted \subseteq selection'[e] \union Settled
    BY <1>4, <2>2
  <2>6. AsksAll(e) => AsksAll(e)'
    BY <1>2, <1>3, <2>1, <2>2, <2>5 DEF AsksAll
  <2>7. QED
    BY <1>1, <2>3, <2>4, <2>6, MoveKeepsEnough
<1>7. QED
  BY <1>5, <1>6

LEMMA RequestKeepsEnough ==
  ASSUME EnoughInv, AskInv', NEW e \in Evaluators, Request(e)
  PROVE  EnoughInv'
<1>1. /\ phase[e] = "asking" /\ requested' = requested \union selection[e] /\ End(e)
      /\ UNCHANGED <<scenario, people, removed, moved>>
  BY DEF Request
<1>2. UNCHANGED <<scenario, draft, head, approving, reviewed, removed>>
  BY <1>1 DEF people
<1>3. Wanted' = Wanted /\ Settled' = Settled \union selection[e]
  BY <1>1, <1>2, WantedStays DEF Settled, Reviewers
<1>4. (Wanted \subseteq Settled)' \/ ~AsksAll(e)
  BY <1>1, <1>3 DEF AsksAll
<1>5. MetReviewed(e)'
  BY <1>1, EndIsRead DEF MetReviewed, EnoughInv
<1>6. requested \subseteq requested'
  BY <1>1
<1>7. QED
  BY <1>1, <1>4, <1>5, <1>6, EndIsRead, MoveKeepsEnough DEF EnoughInv

LEMMA FailKeepsEnough ==
  ASSUME EnoughInv, AskInv', NEW e \in Evaluators, Fail(e)
  PROVE  EnoughInv'
<1>1. End(e) /\ moved' = TRUE /\ UNCHANGED <<scenario, people, removed, requested>>
  BY DEF Fail
<1>2. MetReviewed(e)'
  BY <1>1, EndIsRead DEF MetReviewed, EnoughInv
<1>3. QED
  BY <1>1, <1>2, EndIsRead, MoveKeepsEnough DEF EnoughInv

LEMMA StepKeepsEnough ==
  ASSUME EnoughInv, [Next]_vars
  PROVE  EnoughInv'
<1>1. AskInv'
  BY StepKeepsAskInv DEF EnoughInv
<1>2. CASE Push \/ ConvertToDraft \/ MarkReady \/ Report
  <2>1. UNCHANGED evaluation /\ reviewed \subseteq reviewed'
    BY <1>2 DEF Push, ConvertToDraft, MarkReady, Report, Change, people
  <2>2. CASE Push \/ ConvertToDraft \/ MarkReady
    BY <1>1, <2>1, <2>2, ChangeKeepsEnough DEF Push, ConvertToDraft, MarkReady
  <2>3. CASE Report
    BY <1>1, <2>1, <2>3, ChangeKeepsEnough DEF Report, Change, people
  <2>4. QED
    BY <1>2, <2>2, <2>3
<1>3. ASSUME NEW u \in Users, Review(u) \/ Withdraw(u) PROVE EnoughInv'
  <2>1. UNCHANGED evaluation /\ reviewed \subseteq reviewed' /\ moved'
    BY <1>3 DEF Review, Withdraw, Change
  <2>2. QED
    BY <1>1, <2>1, ChangeKeepsEnough
<1>4. ASSUME NEW w, Assign(w) \/ Unassign(w) PROVE EnoughInv'
  <2>1. /\ UNCHANGED <<evaluation, scenario, moved, people>>
        /\ requested \union removed \subseteq requested' \union removed'
    BY <1>4 DEF Assign, Unassign, Change
  <2>2. UNCHANGED <<draft, head, approving, reviewed>>
    BY <2>1 DEF people
  <2>3. QED
    BY <1>1, <2>1, <2>2, ChangeKeepsEnough
<1>5. ASSUME NEW event, Drop(event) PROVE EnoughInv'
  <2>1. UNCHANGED <<evaluation, people>> /\ moved'
    BY <1>5 DEF Drop
  <2>2. QED
    BY <1>1, <2>1, ChangeKeepsEnough DEF people
<1>6. CASE UNCHANGED vars
  <2>1. /\ UNCHANGED <<evaluation, scenario, moved, requested, removed>>
        /\ UNCHANGED <<draft, head, approving, reviewed>>
    BY <1>6 DEF vars, people, history
  <2>2. QED
    BY <1>1, <2>1, ChangeKeepsEnough
<1>7. QED
  BY <1>1, <1>2, <1>3, <1>4, <1>5, <1>6,
     SelectKeepsEnough, ReadReviewersKeepsEnough, RequestKeepsEnough, FailKeepsEnough DEF Next

-----------------------------------------------------------------------------
(* However evaluations and people race, whoever the rules select for the   *)
(* pull request as it is has been asked, has been removed or has reviewed  *)
(* once the webhooks are handled (requestReviews).                         *)
THEOREM NobodyIsOverlooked == Spec => []EnoughAreAsked
<1>1. EnoughInv /\ [Next]_vars => EnoughInv'
  BY StepKeepsEnough
<1>2. EnoughInv => EnoughAreAsked
  BY DEF EnoughInv, EnoughAreAsked, AsksAll, Wanted, Settled
<1>3. QED
  BY <1>1, <1>2, InitAsksAll, PTL DEF Spec

-----------------------------------------------------------------------------
(***************************************************************************)
(* Whom the rules select.  key[u] orders a list: by name, or by turn.      *)
(***************************************************************************)
Below(key, s, u) == {v \in s : key[v] < key[u]}

Orders(key, s) ==
  /\ \A u \in s : key[u] \in Nat
  /\ \A u, v \in s : key[u] = key[v] => u = v

LEMMA BelowIsCounted ==
  ASSUME NEW s, IsFiniteSet(s), NEW key, NEW u
  PROVE  IsFiniteSet(Below(key, s, u)) /\ Cardinality(Below(key, s, u)) \in Nat
<1>1. Below(key, s, u) \in SUBSET s
  BY DEF Below
<1>2. QED
  BY <1>1, FS_Subset, FS_CardinalityType

LEMMA BelowIsFewer ==
  ASSUME NEW s, IsFiniteSet(s), NEW key, Orders(key, s), NEW u \in s, NEW v \in s, key[v] < key[u]
  PROVE  Cardinality(Below(key, s, v)) < Cardinality(Below(key, s, u))
<1>1. Below(key, s, v) \in SUBSET Below(key, s, u)
  BY DEF Below, Orders
<1>2. v \in Below(key, s, u) /\ v \notin Below(key, s, v)
  BY DEF Below, Orders
<1>3. IsFiniteSet(Below(key, s, u))
  BY BelowIsCounted
<1>4. /\ Cardinality(Below(key, s, v)) <= Cardinality(Below(key, s, u))
      /\ Cardinality(Below(key, s, v)) # Cardinality(Below(key, s, u))
  BY <1>1, <1>2, <1>3, FS_Subset
<1>5. Cardinality(Below(key, s, v)) \in Nat /\ Cardinality(Below(key, s, u)) \in Nat
  BY BelowIsCounted
<1>6. QED
  BY <1>4, <1>5

(* Two of a list have different places in it, none after its end.          *)
LEMMA PlacesDiffer ==
  ASSUME NEW s, IsFiniteSet(s), NEW key, Orders(key, s), NEW u \in s, NEW v \in s,
         Cardinality(Below(key, s, u)) = Cardinality(Below(key, s, v))
  PROVE  u = v
<1>1. key[u] \in Nat /\ key[v] \in Nat
  BY DEF Orders
<1>2. ASSUME NEW x \in s, NEW y \in s, key[y] < key[x]
      PROVE  Cardinality(Below(key, s, x)) # Cardinality(Below(key, s, y))
  <2>1. Cardinality(Below(key, s, y)) < Cardinality(Below(key, s, x))
    BY <1>2, BelowIsFewer
  <2>2. Cardinality(Below(key, s, y)) \in Nat
    BY BelowIsCounted
  <2>3. QED
    BY <2>1, <2>2
<1>3. ~(key[u] < key[v]) /\ ~(key[v] < key[u])
  BY <1>2
<1>4. key[u] = key[v]
  BY <1>1, <1>3
<1>5. QED
  BY <1>4 DEF Orders

LEMMA PlacesFit ==
  ASSUME NEW s, IsFiniteSet(s), NEW key, Orders(key, s), NEW u \in s
  PROVE  1 + Cardinality(Below(key, s, u)) \in 1..Cardinality(s)
<1>1. Below(key, s, u) \in SUBSET (s \ {u})
  BY DEF Below, Orders
<1>2. IsFiniteSet(s \ {u}) /\ Cardinality(s \ {u}) = Cardinality(s) - 1
  BY FS_RemoveElement
<1>3. Cardinality(Below(key, s, u)) <= Cardinality(s) - 1
  BY <1>1, <1>2, FS_Subset
<1>4. Cardinality(Below(key, s, u)) \in Nat /\ Cardinality(s) \in Nat
  BY BelowIsCounted, FS_CardinalityType
<1>5. QED
  BY <1>3, <1>4

LEMMA PairMax ==
  ASSUME NEW m \in Int, NEW n \in Int
  PROVE  Max({m, n}) = IF m >= n THEN m ELSE n
<1> DEFINE most == IF m >= n THEN m ELSE n
<1>1. most \in {m, n} /\ \A x \in {m, n} : most >= x
  OBVIOUS
<1>2. Max({m, n}) \in {m, n} /\ \A x \in {m, n} : Max({m, n}) >= x
  BY <1>1 DEF Max
<1>3. QED
  BY <1>2

LEMMA PairMin ==
  ASSUME NEW m \in Int, NEW n \in Int
  PROVE  Min({m, n}) = IF m <= n THEN m ELSE n
<1> DEFINE least == IF m <= n THEN m ELSE n
<1>1. least \in {m, n} /\ \A x \in {m, n} : least <= x
  OBVIOUS
<1>2. Min({m, n}) \in {m, n} /\ \A x \in {m, n} : Min({m, n}) <= x
  BY <1>1 DEF Min
<1>3. QED
  BY <1>2

-----------------------------------------------------------------------------
(***************************************************************************)
(* Places by name and by turn.                                             *)
(***************************************************************************)
LEMMA NamesOrder ==
  ASSUME NEW s, s \subseteq Users
  PROVE  IsFiniteSet(s) /\ Orders(NameOrder, s)
<1>1. s \in SUBSET Users /\ IsFiniteSet(Users)
  BY RequestsAssumption
<1>2. QED
  BY <1>1, RequestsAssumption, FS_Subset DEF Orders

LEMMA PlaceIsPlace ==
  ASSUME NEW s, s \subseteq Users, NEW u \in s
  PROVE  Place(u, s) = 1 + Cardinality(Below(NameOrder, s, u))
<1> DEFINE upTo == {v \in s : NameOrder[v] <= NameOrder[u]}
<1>1. IsFiniteSet(s) /\ Orders(NameOrder, s)
  BY NamesOrder
<1>2. upTo = Below(NameOrder, s, u) \union {u} /\ u \notin Below(NameOrder, s, u)
  BY <1>1 DEF Below, Orders
<1>3. Cardinality(upTo) = Cardinality(Below(NameOrder, s, u)) + 1
  BY <1>1, <1>2, BelowIsCounted, FS_AddElement
<1>4. Cardinality(Below(NameOrder, s, u)) \in Nat
  BY <1>1, BelowIsCounted
<1>5. QED
  BY <1>3, <1>4 DEF Place

LEMMA NamesHavePlaces ==
  ASSUME NEW s, s \subseteq Users
  PROVE  /\ \A u \in s : Place(u, s) \in 1..Cardinality(s)
         /\ \A u, v \in s : Place(u, s) = Place(v, s) => u = v
<1>1. IsFiniteSet(s) /\ Orders(NameOrder, s)
  BY NamesOrder
<1>2. ASSUME NEW u \in s PROVE Place(u, s) \in 1..Cardinality(s)
  BY <1>1, PlaceIsPlace, PlacesFit
<1>3. ASSUME NEW u \in s, NEW v \in s, Place(u, s) = Place(v, s) PROVE u = v
  <2>1. Cardinality(Below(NameOrder, s, u)) = Cardinality(Below(NameOrder, s, v))
    <3>1. /\ Place(u, s) = 1 + Cardinality(Below(NameOrder, s, u))
          /\ Place(v, s) = 1 + Cardinality(Below(NameOrder, s, v))
      BY PlaceIsPlace
    <3>2. /\ Cardinality(Below(NameOrder, s, u)) \in Nat
          /\ Cardinality(Below(NameOrder, s, v)) \in Nat
      BY <1>1, BelowIsCounted
    <3>3. \A i, j \in Nat : 1 + i = 1 + j => i = j
      OBVIOUS
    <3>4. QED
      BY <1>3, <3>1, <3>2, <3>3, Zenon
  <2>2. QED
    BY <1>1, <2>1, PlacesDiffer
<1>4. QED
  BY <1>2, <1>3

(* There is a draw for a list, or the list is short.                       *)
Drawable(s, lengths) ==
  LET size == Cardinality(s)
      turn == Order[Append(lengths, size)]
  IN  size > 1 => /\ turn \in [1..size -> 1..size]
                  /\ \A i, j \in 1..size : turn[i] = turn[j] => i = j

LEMMA TurnsOrder ==
  ASSUME NEW s, s \subseteq Users, NEW lengths, Drawable(s, lengths)
  PROVE  Orders(RandomOrder(s, lengths), s)
<1> DEFINE size == Cardinality(s)
           turn == Order[Append(lengths, size)]
           key == RandomOrder(s, lengths)
<1>1. IsFiniteSet(s) /\ size \in Nat
  BY NamesOrder, FS_CardinalityType
<1>2. key = [u \in s |-> IF size <= 1 THEN 1 ELSE turn[Place(u, s)]]
  BY DEF RandomOrder
<1>3. CASE size <= 1
  <2>1. \A u \in s : key[u] = 1
    BY <1>2, <1>3
  <2>2. ASSUME NEW u \in s, NEW v \in s PROVE u = v
    <3>1. Place(u, s) \in 1..size /\ Place(v, s) \in 1..size
      BY NamesHavePlaces
    <3>2. Place(u, s) = Place(v, s)
      BY <1>1, <1>3, <3>1
    <3>3. QED
      BY <3>2, NamesHavePlaces
  <2>3. QED
    BY <2>1, <2>2 DEF Orders
<1>4. CASE ~(size <= 1)
  <2>1. /\ turn \in [1..size -> 1..size]
        /\ \A i, j \in 1..size : turn[i] = turn[j] => i = j
    BY <1>1, <1>4 DEF Drawable
  <2>2. \A u \in s : key[u] = turn[Place(u, s)] /\ Place(u, s) \in 1..size
    BY <1>2, <1>4, NamesHavePlaces
  <2> HIDE DEF turn, key, size
  <2>3. \A u \in s : key[u] \in Nat
    BY <2>1, <2>2
  <2>4. \A u, v \in s : key[u] = key[v] => u = v
    BY <2>1, <2>2, NamesHavePlaces DEF size
  <2>5. QED
    BY <2>3, <2>4 DEF Orders, key
<1>5. QED
  BY <1>3, <1>4

Others == Users \ {Author}

IsPossible(rules, possible) ==
  /\ Len(rules) \in Nat
  /\ \A n \in DOMAIN possible : possible[n] \subseteq Others

(* The lengths of lists up to each rule are of lists that are drawn from.  *)
LEMMA LengthsAreSizes ==
  ASSUME NEW rules, NEW possible, IsPossible(rules, possible)
  PROVE  LET lengths == Lengths(rules, possible)
         IN  \A n \in 0..Len(rules) :
               lengths[n] \in Seq(2..Cardinality(Others)) /\ Len(lengths[n]) <= n
<1> DEFINE N == Len(rules)
           D == 0..N
           V == Seq(2..Cardinality(Others))
           rank == [n \in D |-> n]
           draws1(n) == /\ n \in DOMAIN possible /\ rules[n].mode = "random-users"
                        /\ Cardinality(possible[n]) > 1
           body(f, n) == IF n = 0 THEN <<>>
                         ELSE IF draws1(n) THEN Append(f[n - 1], Cardinality(possible[n]))
                              ELSE f[n - 1]
           step == [n \in D |-> [f \in [D -> V] |-> body(f, n)]]
<1>1. N \in Nat /\ rank \in [D -> 0..N]
  BY DEF IsPossible
<1>2. \A n \in D \ {0} : n - 1 \in D
  BY <1>1
<1>3. ASSUME NEW n, draws1(n) PROVE Cardinality(possible[n]) \in 2..Cardinality(Others)
  <2>1. IsFiniteSet(Others) /\ possible[n] \in SUBSET Others
    <3>1. Others \subseteq Users
      BY DEF Others
    <3>2. QED
      BY <1>3, <3>1, NamesOrder DEF IsPossible
  <2>2. IsFiniteSet(possible[n]) /\ Cardinality(possible[n]) <= Cardinality(Others)
    BY <2>1, FS_Subset
  <2>3. Cardinality(possible[n]) \in Nat /\ Cardinality(Others) \in Nat
    BY <2>1, <2>2, FS_CardinalityType
  <2>4. QED
    BY <1>3, <2>2, <2>3
<1> HIDE DEF draws1
<1>4. ASSUME NEW f \in [D -> V], NEW n \in D PROVE body(f, n) \in V
  <2>1. CASE n = 0
    BY <2>1
  <2>2. CASE n # 0
    <3>1. f[n - 1] \in V
      BY <1>2, <2>2
    <3>2. draws1(n) => Append(f[n - 1], Cardinality(possible[n])) \in V
      BY <1>3, <3>1
    <3>3. QED
      BY <2>2, <3>1, <3>2
  <2>3. QED
    BY <2>1, <2>2
<1>5. step \in [D -> [[D -> V] -> V]]
  <2> HIDE DEF body, V
  <2>1. QED
    BY <1>4
<1>6. LooksBelow(step, D, V, rank)
  <2>1. ASSUME NEW n \in D, NEW g \in [D -> V], NEW h \in [D -> V],
               \A m \in D : rank[m] < rank[n] => g[m] = h[m]
        PROVE  step[n][g] = step[n][h]
    <3>1. CASE n = 0
      BY <3>1
    <3>2. CASE n # 0
      <4>1. n - 1 \in D /\ rank[n - 1] < rank[n]
        BY <1>1, <1>2, <3>2
      <4>2. g[n - 1] = h[n - 1]
        BY <2>1, <4>1
      <4>3. QED
        BY <3>2, <4>2
    <3>3. QED
      BY <3>1, <3>2
  <2>2. QED
    BY <2>1 DEF LooksBelow
<1>7. PICK f : Solution(f, step, D, V)
  <2>1. V # {}
    <3>1. <<>> \in V
      OBVIOUS
    <3>2. QED
      BY <3>1
  <2>2. IsRecursion(step, D, V, rank, N)
    BY <1>1, <1>5, <1>6, <2>1 DEF IsRecursion
  <2>3. QED
    BY <2>2, RecursionHasSolution, Zenon
<1>8. f = [n \in D |-> body(f, n)]
  BY <1>7 DEF Solution
<1> DEFINE lengths == Lengths(rules, possible)
<1>9. lengths = [n \in D |-> body(lengths, n)]
  BY <1>8 DEF Lengths, draws1
<1>10. /\ lengths[0] = <<>>
       /\ \A n \in D \ {0} : lengths[n] = body(lengths, n)
  <2>1. 0 \in D
    BY <1>1
  <2>2. body(lengths, 0) = <<>>
    OBVIOUS
  <2> HIDE DEF lengths, body
  <2>3. \A n \in D : lengths[n] = body(lengths, n)
    BY <1>9
  <2>4. QED
    BY <2>1, <2>2, <2>3
<1> DEFINE good == {n \in D : lengths[n] \in V /\ Len(lengths[n]) <= n}
<1> HIDE DEF lengths
<1>11. 0 \in good
  <2>1. <<>> \in V /\ Len(<<>>) = 0 /\ 0 \in D
    BY <1>1
  <2> HIDE DEF V
  <2>2. QED
    BY <1>10, <2>1
<1>12. ASSUME NEW n \in 1..N, n - 1 \in good PROVE n \in good
  <2>1. n \in D \ {0} /\ n \in Nat /\ n - 1 \in Nat
    BY <1>1
  <2>2. lengths[n - 1] \in V /\ Len(lengths[n - 1]) <= n - 1
    BY <1>12
  <2>3. Len(lengths[n - 1]) \in Nat
    BY <2>2
  <2>4. CASE draws1(n)
    <3>1. lengths[n] = Append(lengths[n - 1], Cardinality(possible[n]))
      BY <1>10, <2>1, <2>4
    <3>2. lengths[n] \in V /\ Len(lengths[n]) = Len(lengths[n - 1]) + 1
      BY <1>3, <2>2, <2>4, <3>1
    <3>3. QED
      BY <2>1, <2>2, <2>3, <3>2
  <2>5. CASE ~draws1(n)
    <3>1. lengths[n] = lengths[n - 1]
      BY <1>10, <2>1, <2>5
    <3>2. QED
      BY <2>1, <2>2, <2>3, <3>1
  <2>6. QED
    BY <2>4, <2>5
<1>13. D \subseteq good
  BY <1>1, <1>11, <1>12, CountingUp
<1>14. QED
  BY <1>13 DEF lengths

(* SelectReviewers finds a draw for each list it draws from.               *)
LEMMA ListsAreDrawable ==
  ASSUME NEW most \in Nat, IsOrder(most), NEW n \in 1..most,
         NEW lengths \in Seq(2..Cardinality(Others)), Len(lengths) <= n - 1,
         NEW s, s \subseteq Others
  PROVE  Drawable(s, lengths)
<1> DEFINE size == Cardinality(s)
           longer == Append(lengths, size)
           k == Len(lengths) + 1
<1>1. SUFFICES ASSUME size > 1
               PROVE  /\ Order[longer] \in [1..size -> 1..size]
                      /\ \A i, j \in 1..size : Order[longer][i] = Order[longer][j] => i = j
  BY DEF Drawable
<1>2. IsFiniteSet(Others)
  <2>1. Others \subseteq Users
    BY DEF Others
  <2>2. QED
    BY <2>1, NamesOrder
<1>3. size \in 2..Cardinality(Others)
  <2>1. s \in SUBSET Others
    OBVIOUS
  <2>2. IsFiniteSet(s) /\ size <= Cardinality(Others)
    BY <1>2, <2>1, FS_Subset
  <2>3. size \in Nat /\ Cardinality(Others) \in Nat
    BY <1>2, <2>2, FS_CardinalityType
  <2>4. QED
    BY <1>1, <2>2, <2>3
<1> HIDE DEF size
<1>4. longer \in [1..k -> 2..Cardinality(Others)] /\ longer[k] = size
  <2> DEFINE sizes == 2..Cardinality(Others)
  <2>1. size \in sizes /\ lengths \in Seq(sizes)
    BY <1>3
  <2> HIDE DEF sizes
  <2>2. longer \in Seq(sizes) /\ Len(longer) = k /\ longer[k] = size
    BY <2>1
  <2>3. longer \in [1..k -> sizes]
    <3> HIDE DEF longer, k
    <3>1. QED
      BY <2>2
  <2>4. QED
    BY <2>2, <2>3 DEF sizes
<1>5. k \in 1..most
  <2>1. Len(lengths) \in Nat
    OBVIOUS
  <2>2. QED
    BY <2>1
<1> HIDE DEF longer, k
<1>6. Order[longer] \in {turn \in [1..longer[k] -> 1..longer[k]] :
                          \A i, j \in 1..longer[k] : turn[i] = turn[j] => i = j}
  BY <1>4, <1>5 DEF IsOrder, Others
<1>7. QED
  BY <1>4, <1>6

-----------------------------------------------------------------------------
(***************************************************************************)
(* What is drawn from a list, and whose places that takes.                 *)
(***************************************************************************)
Key(drawn) ==
  IF drawn.rule.mode = "all-users" THEN NameOrder ELSE RandomOrder(drawn.of, drawn.after)

PlaceIn(drawn, u) == 1 + Cardinality(Below(Key(drawn), drawn.of, u))

IsDraw(drawn) ==
  /\ IsRule(drawn.rule) /\ drawn.of \subseteq Others
  /\ Orders(Key(drawn), drawn.of)

HasPlace(drawn, u) == u \in drawn.of /\ PlaceIn(drawn, u) \in 1..MostOf(drawn)

(* What was drawn although some had approved is among the first that       *)
(* would be drawn if nobody had.                                           *)
LEMMA DrawnAreFirst ==
  ASSUME NEW rule, IsRule(rule), NEW approvers, approvers \subseteq Users,
         NEW s, s \subseteq Users, NEW key, DOMAIN key = s, Orders(key, s),
         NEW u \in DrawnUsers(rule, approvers, key)
  PROVE  /\ u \in s
         /\ Cardinality(Below(key, s, u)) < Max({CountOf(rule), rule.required})
<1> DEFINE left == WithoutApprovers(rule, approvers, s)
           out == {v \in approvers : MayApprove(rule, v)}
           a == Cardinality(out)
           b == Cardinality({v \in left : key[v] < key[u]})
           c == CountOf(rule)
           r == rule.required
           n == NumberToAsk(rule, approvers)
<1>1. u \in left /\ b < n
  BY DEF DrawnUsers, FirstOf
<1>2. u \in s /\ left = s \ out
  BY <1>1 DEF WithoutApprovers
<1>3. IsFiniteSet(s) /\ IsFiniteSet(approvers)
  BY NamesOrder
<1>4. IsFiniteSet(out) /\ a \in Nat
  <2>1. out \in SUBSET approvers
    OBVIOUS
  <2>2. QED
    BY <1>3, <2>1, FS_Subset, FS_CardinalityType
<1>5. IsFiniteSet({v \in left : key[v] < key[u]}) /\ b \in Nat
  <2>1. {v \in left : key[v] < key[u]} \in SUBSET s
    BY <1>2
  <2>2. QED
    BY <1>3, <2>1, FS_Subset, FS_CardinalityType
<1>6. Cardinality(Below(key, s, u)) <= b + a
  <2>1. Below(key, s, u) \in SUBSET ({v \in left : key[v] < key[u]} \union out)
    BY <1>2 DEF Below
  <2>2. /\ IsFiniteSet({v \in left : key[v] < key[u]} \union out)
        /\ Cardinality({v \in left : key[v] < key[u]} \union out)
             = b + a - Cardinality({v \in left : key[v] < key[u]} \intersect out)
    BY <1>4, <1>5, FS_Union
  <2>3. Cardinality({v \in left : key[v] < key[u]} \intersect out) \in Nat
    <3>1. {v \in left : key[v] < key[u]} \intersect out \in SUBSET out
      OBVIOUS
    <3>2. QED
      BY <1>4, <3>1, FS_Subset, FS_CardinalityType
  <2>4. Cardinality(Below(key, s, u))
          <= Cardinality({v \in left : key[v] < key[u]} \union out)
    BY <2>1, <2>2, FS_Subset
  <2>5. Cardinality(Below(key, s, u)) \in Nat
    BY <1>3, BelowIsCounted
  <2> HIDE DEF a, b
  <2>6. QED
    BY <1>4, <1>5, <2>2, <2>3, <2>4, <2>5
<1>7. c \in Nat /\ r \in Nat
  BY DEF IsRule, CountOf
<1>8. n = IF c >= r THEN Max({0, c - a}) ELSE Min({c, r - a})
  BY DEF NumberToAsk, Approvals
<1>9. Max({c, r}) = IF c >= r THEN c ELSE r
  BY <1>7, PairMax
<1>10. Cardinality(Below(key, s, u)) \in Nat
  BY <1>3, BelowIsCounted
<1> HIDE DEF a, b, c, r, n
<1>11. CASE c >= r
  <2>1. n = IF 0 >= c - a THEN 0 ELSE c - a
    BY <1>4, <1>7, <1>8, <1>11, PairMax
  <2>2. b + a < c
    BY <1>1, <1>4, <1>5, <1>7, <2>1
  <2>3. Cardinality(Below(key, s, u)) < c
    BY <1>4, <1>5, <1>6, <1>7, <1>10, <2>2
  <2>4. QED
    BY <1>2, <1>9, <1>11, <2>3 DEF c, r
<1>12. CASE ~(c >= r)
  <2>1. n = IF c <= r - a THEN c ELSE r - a
    BY <1>4, <1>7, <1>8, <1>12, PairMin
  <2>2. b + a < r
    BY <1>1, <1>4, <1>5, <1>7, <2>1
  <2>3. Cardinality(Below(key, s, u)) < r
    BY <1>4, <1>5, <1>6, <1>7, <1>10, <2>2
  <2>4. QED
    BY <1>2, <1>9, <1>12, <2>3 DEF c, r
<1>13. QED
  BY <1>11, <1>12

LEMMA DrawnHavePlaces ==
  ASSUME NEW drawn, IsRule(drawn.rule), drawn.rule.mode # "teams", IsDraw(drawn),
         NEW approvers, approvers \subseteq Users,
         NEW u \in SelectFor(drawn.rule, drawn.of, drawn.after, approvers)
  PROVE  HasPlace(drawn, u)
<1> DEFINE s == drawn.of
           size == Cardinality(s)
           key == Key(drawn)
           rule == drawn.rule
           place == 1 + Cardinality(Below(key, s, u))
<1>1. s \subseteq Users /\ IsFiniteSet(s) /\ size \in Nat
  BY NamesOrder, FS_CardinalityType DEF IsDraw, Others
<1>2. CASE rule.mode = "all-users"
  <2>1. u \in s
    BY <1>2 DEF SelectFor, WithoutApprovers
  <2>2. place \in 1..size
    BY <1>1, <2>1, PlacesFit DEF IsDraw
  <2>3. MostOf(drawn) = size
    BY <1>2 DEF MostOf
  <2>4. QED
    BY <2>1, <2>2, <2>3 DEF HasPlace, PlaceIn
<1>3. CASE rule.mode = "random-users"
  <2>1. u \in DrawnUsers(rule, approvers, key) /\ DOMAIN key = s
    BY <1>3 DEF SelectFor, Key, RandomOrder
  <2>2. u \in s /\ Cardinality(Below(key, s, u)) < Max({CountOf(rule), rule.required})
    BY <1>1, <2>1, DrawnAreFirst DEF IsDraw
  <2>3. place \in 1..size
    BY <1>1, <2>2, PlacesFit DEF IsDraw
  <2>4. CountOf(rule) \in Nat /\ rule.required \in Nat
    BY DEF IsRule, CountOf
  <2>5. Max({CountOf(rule), rule.required}) \in Nat
    BY <2>4, PairMax
  <2>6. MostOf(drawn) = IF size <= Max({CountOf(rule), rule.required})
                          THEN size ELSE Max({CountOf(rule), rule.required})
    BY <1>1, <1>3, <2>5, PairMin DEF MostOf
  <2>7. Cardinality(Below(key, s, u)) \in Nat
    BY <1>1, BelowIsCounted
  <2>8. place \in 1..MostOf(drawn)
    <3> DEFINE most == Max({CountOf(rule), rule.required})
               b == Cardinality(Below(key, s, u))
    <3> HIDE DEF most, b, size
    <3>1. b \in Nat /\ most \in Nat /\ size \in Nat /\ b < most /\ 1 + b \in 1..size
      BY <1>1, <2>2, <2>3, <2>5, <2>7 DEF most, b
    <3>2. 1 + b \in 1..(IF size <= most THEN size ELSE most)
      BY <3>1
    <3>3. QED
      BY <2>6, <3>2 DEF most, b
  <2>9. QED
    BY <2>2, <2>8 DEF HasPlace, PlaceIn
<1>4. QED
  BY <1>2, <1>3 DEF IsRule, Modes

LEMMA CandidatesMayBeAsked ==
  ASSUME NEW rule, IsRule(rule), NEW lost
  PROVE  Candidates(rule, lost) \subseteq {u \in Others : PermissionOf[u] > 0}
<1>1. SUFFICES ASSUME NEW u \in Users, IsCollaborator(rule, u) PROVE PermissionOf[u] > 0
  BY DEF Candidates, Others
<1>2. PermissionOf[u] \in Nat
  BY RequestsAssumption
<1>3. CASE rule.permissions = {}
  BY <1>1, <1>2, <1>3 DEF IsCollaborator
<1>4. CASE rule.permissions # {}
  <2>1. rule.permissions \subseteq Nat \ {0}
    BY DEF IsRule
  <2>2. Min(rule.permissions) \in rule.permissions
    BY <1>4, <2>1, MinOfNaturals
  <2>3. PermissionOf[u] >= Min(rule.permissions)
    BY <1>1, <1>4 DEF IsCollaborator
  <2>4. QED
    BY <1>2, <2>1, <2>2, <2>3
<1>5. QED
  BY <1>3, <1>4

MayBeAsked == DOMAIN RepoTeams \union {u \in Others : PermissionOf[u] > 0}

LEMMA SelectionIsDrawn ==
  ASSUME NEW policy \in Scenarios, NEW approvers, approvers \subseteq Users, NEW lost
  PROVE  LET selected == SelectReviewers(policy, approvers, lost)
         IN  /\ IsFiniteSet(selected.lists)
             /\ \A drawn \in selected.lists : IsDraw(drawn)
             /\ \A u \in selected.who \intersect Users :
                  \E drawn \in selected.lists : HasPlace(drawn, u)
             /\ selected.who \subseteq MayBeAsked
<1> DEFINE rules == policy.rules
           requests == Requests(policy, approvers)
           possible == [n \in requests |-> Candidates(rules[n], lost)]
           lengths == Lengths(rules, possible)
           drawnFrom == {m \in requests : rules[m].mode # "teams"}
           draw == [n \in drawnFrom |->
                      [rule |-> rules[n], of |-> possible[n], after |-> lengths[n - 1]]]
           chosen(n) == SelectFor(rules[n], possible[n], lengths[n - 1], approvers)
           selected == SelectReviewers(policy, approvers, lost)
<1>1. /\ Len(rules) \in Nat /\ \A n \in 1..Len(rules) : IsRule(rules[n])
      /\ IsOrder(Len(rules)) /\ requests \subseteq 1..Len(rules)
  BY RequestsAssumption DEF Requests
<1>2. /\ selected.who = UNION {chosen(n) : n \in requests}
      /\ selected.lists = {draw[n] : n \in drawnFrom}
  BY DEF SelectReviewers
<1>3. \A n \in requests : possible[n] \subseteq {u \in Others : PermissionOf[u] > 0}
  BY <1>1, CandidatesMayBeAsked
<1>4. IsPossible(rules, possible)
  BY <1>1, <1>3 DEF IsPossible
<1>5. ASSUME NEW n \in requests
      PROVE  lengths[n - 1] \in Seq(2..Cardinality(Others)) /\ Len(lengths[n - 1]) <= n - 1
  <2>1. n - 1 \in 0..Len(rules)
    BY <1>1
  <2>2. QED
    BY <1>4, <2>1, LengthsAreSizes
<1>6. ASSUME NEW n \in drawnFrom
      PROVE  /\ IsDraw(draw[n]) /\ IsRule(draw[n].rule) /\ draw[n].rule.mode # "teams"
             /\ chosen(n) = SelectFor(draw[n].rule, draw[n].of, draw[n].after, approvers)
  <2>1. n \in requests /\ n \in 1..Len(rules)
    BY <1>1
  <2>2. possible[n] \subseteq Others /\ possible[n] \subseteq Users
    BY <1>3, <2>1 DEF Others
  <2>3. Drawable(possible[n], lengths[n - 1])
    BY <1>1, <1>5, <2>1, <2>2, ListsAreDrawable
  <2>4. /\ Orders(RandomOrder(possible[n], lengths[n - 1]), possible[n])
        /\ Orders(NameOrder, possible[n])
    BY <2>2, <2>3, TurnsOrder, NamesOrder
  <2> HIDE DEF possible, lengths, requests, rules
  <2>5. /\ draw[n].rule = rules[n] /\ draw[n].of = possible[n]
        /\ draw[n].after = lengths[n - 1]
    OBVIOUS
  <2>6. IsDraw(draw[n])
    BY <1>1, <2>1, <2>2, <2>4, <2>5 DEF IsDraw, Key
  <2>7. QED
    BY <1>1, <2>1, <2>5, <2>6
<1>7. IsFiniteSet(selected.lists)
  <2>1. drawnFrom \in SUBSET (1..Len(rules)) /\ IsFiniteSet(1..Len(rules))
    BY <1>1, FS_Interval
  <2>2. IsFiniteSet(drawnFrom)
    BY <2>1, FS_Subset
  <2> HIDE DEF drawnFrom, draw, selected
  <2>3. QED
    BY <1>2, <2>2, ImageIsFinite
<1>8. ASSUME NEW n \in requests, rules[n].mode = "teams"
      PROVE  chosen(n) \subseteq DOMAIN RepoTeams
  BY <1>8 DEF SelectFor, SelectedTeams
<1>9. \A n \in requests : n \notin drawnFrom <=> rules[n].mode = "teams"
  OBVIOUS
<1>10. \A n \in drawnFrom : n \in requests /\ draw[n].of = possible[n]
  OBVIOUS
<1> HIDE DEF rules, requests, possible, lengths, draw, chosen, selected, drawnFrom
<1>11. ASSUME NEW n \in drawnFrom, NEW u \in chosen(n)
       PROVE  HasPlace(draw[n], u)
  BY <1>6, DrawnHavePlaces
<1>12. ASSUME NEW u \in selected.who \intersect Users
       PROVE  \E drawn \in selected.lists : HasPlace(drawn, u)
  <2>1. PICK n \in requests : u \in chosen(n)
    BY <1>2
  <2>2. n \in drawnFrom
    BY <1>8, <1>9, <2>1, RequestsAssumption
  <2>3. QED
    BY <1>2, <1>11, <2>1, <2>2
<1>13. selected.who \subseteq MayBeAsked
  <2>1. SUFFICES ASSUME NEW n \in requests, NEW w \in chosen(n) PROVE w \in MayBeAsked
    BY <1>2
  <2>2. CASE n \in drawnFrom
    <3>1. w \in draw[n].of
      BY <1>11, <2>2 DEF HasPlace
    <3>2. QED
      BY <1>3, <1>10, <2>2, <3>1 DEF MayBeAsked
  <2>3. CASE n \notin drawnFrom
    BY <1>8, <1>9, <2>3 DEF MayBeAsked
  <2>4. QED
    BY <2>2, <2>3
<1>14. \A drawn \in selected.lists : IsDraw(drawn)
  BY <1>2, <1>6
<1>15. QED
  BY <1>7, <1>12, <1>13, <1>14 DEF selected

-----------------------------------------------------------------------------
(* What TypeOK says of every part but of whom policy-bot asks.             *)
PeopleInv ==
  /\ scenario \in Scenarios
  /\ draft \in BOOLEAN /\ head \in 1..MaxHead
  /\ approving \subseteq Users
  /\ requested \subseteq Names /\ removed \subseteq Names
  /\ \A r \in reviewed : r.who \in Names /\ r.head \in 1..head
  /\ \A event \in due : event.head \in 1..head /\ event.draft \in BOOLEAN
  /\ changes \in 0..MaxChanges

EvaluationInv ==
  \A e \in Evaluators :
    /\ phase[e] \in {"idle", "waiting", "asking"}
    /\ (phase[e] = "idle") = (selection[e] = {})
    /\ seen[e] \in 0..head /\ met[e] \subseteq Names

(* Whoever is asked, now or before, has a place in a list.                 *)
MayBeDrawn(w) ==
  /\ w \in MayBeAsked
  /\ w \in Users => \E drawn \in draws : HasPlace(drawn, w)

DrawInv ==
  /\ IsFiniteSet(draws) /\ \A drawn \in draws : IsDraw(drawn)
  /\ \A w \in asked : MayBeDrawn(w)
  /\ \A e \in Evaluators : \A w \in selection[e] : MayBeDrawn(w)

RequestsInv == AskInv /\ PeopleInv /\ EvaluationInv /\ DrawInv

LEMMA InitIsDrawn == Init => RequestsInv
<1>1. ASSUME Init PROVE PeopleInv
  BY <1>1, RequestsAssumption DEF Init, PeopleInv
<1>2. ASSUME Init PROVE EvaluationInv
  BY <1>2 DEF Init, EvaluationInv
<1>3. ASSUME Init PROVE DrawInv
  BY <1>3, FS_EmptySet DEF Init, DrawInv
<1>4. QED
  BY <1>1, <1>2, <1>3, InitIsRead DEF RequestsInv

LEMMA ReviewersAreNames ==
  ASSUME PeopleInv, NEW h
  PROVE  Reviewers(h) \subseteq Names
BY DEF PeopleInv, Reviewers

(* The people of the pull request do not touch what is drawn.              *)
LEMMA ChangeKeepsEvaluations ==
  ASSUME RequestsInv, UNCHANGED <<evaluation, asked, draws>>, head' \in Nat, head' >= head
  PROVE  EvaluationInv' /\ DrawInv'
<1>1. UNCHANGED <<phase, seen, selection, met, asked, draws>>
  BY DEF evaluation
<1>2. \A e \in Evaluators : seen[e] \in 0..head'
  BY DEF RequestsInv, EvaluationInv, PeopleInv
<1>3. EvaluationInv'
  BY <1>1, <1>2 DEF RequestsInv, EvaluationInv
<1>4. DrawInv'
  BY <1>1 DEF RequestsInv, DrawInv, MayBeDrawn
<1>5. QED
  BY <1>3, <1>4

LEMMA PeopleKeepTypes ==
  ASSUME RequestsInv,
         \/ Push \/ ConvertToDraft \/ MarkReady \/ Report
         \/ \E u \in Users : Review(u) \/ Withdraw(u)
         \/ \E w \in Names : Assign(w) \/ Unassign(w)
  PROVE  PeopleInv' /\ EvaluationInv' /\ DrawInv'
<1>1. /\ changes' = changes + 1 /\ changes < MaxChanges
      /\ UNCHANGED <<scenario, evaluation, asked, draws>>
  BY DEF Push, ConvertToDraft, MarkReady, Report, Review, Withdraw, Assign, Unassign, Change
<1>2. PeopleInv
  BY DEF RequestsInv
<1>3. /\ head \in 1..MaxHead /\ head' \in 1..MaxHead /\ head' >= head
      /\ draft' \in BOOLEAN
  <2>1. \/ head' = head
        \/ head < MaxHead /\ head' = head + 1
    BY DEF Push, ConvertToDraft, MarkReady, Report, Review, Withdraw, Assign, Unassign, people
  <2>2. draft' = draft \/ draft' = TRUE \/ draft' = FALSE
    BY DEF Push, ConvertToDraft, MarkReady, Report, Review, Withdraw, Assign, Unassign, people
  <2>3. head \in 1..MaxHead /\ MaxHead \in Nat
    BY <1>2, RequestsAssumption DEF PeopleInv
  <2>4. draft' \in BOOLEAN
    BY <1>2, <2>2 DEF PeopleInv
  <2>5. QED
    BY <2>1, <2>3, <2>4
<1>4. approving' \subseteq Users
  BY <1>2 DEF PeopleInv, Push, ConvertToDraft, MarkReady, Report, Review, Withdraw, Assign,
     Unassign, people
<1>5. requested' \subseteq Names /\ removed' \subseteq Names
  BY <1>2 DEF PeopleInv, Push, ConvertToDraft, MarkReady, Report, Review, Withdraw, Assign,
     Unassign, people
<1>6. \A r \in reviewed' : r.who \in Names /\ r.head \in 1..head'
  <2>1. ASSUME NEW r \in reviewed' PROVE r.who \in Names /\ r.head \in 1..head
    <3>1. CASE r \in reviewed
      BY <1>2, <3>1 DEF PeopleInv
    <3>2. CASE r \notin reviewed
      <4>1. PICK u \in Users : Review(u)
        BY <3>2 DEF Push, ConvertToDraft, MarkReady, Report, Withdraw, Assign, Unassign, people
      <4>2. PICK w \in requested \union {u} : r = [who |-> w, head |-> head]
        BY <3>2, <4>1 DEF Review
      <4>3. QED
        BY <1>2, <1>3, <4>2 DEF PeopleInv, Names
    <3>3. QED
      BY <3>1, <3>2
  <2>2. QED
    BY <1>3, <2>1
<1>7. \A event \in due' : event.head \in 1..head' /\ event.draft \in BOOLEAN
  <2>1. due' = due \/ due' = due \union {[head |-> head', draft |-> draft']}
    BY DEF Push, ConvertToDraft, MarkReady, Report, Review, Withdraw, Assign, Unassign, Tell
  <2>2. \A event \in due : event.head \in 1..head' /\ event.draft \in BOOLEAN
    BY <1>2, <1>3 DEF PeopleInv
  <2>3. QED
    BY <1>3, <2>1, <2>2
<1>8. changes' \in 0..MaxChanges
  BY <1>1, <1>2, RequestsAssumption DEF PeopleInv
<1>9. PeopleInv'
  BY <1>1, <1>2, <1>3, <1>4, <1>5, <1>6, <1>7, <1>8 DEF PeopleInv
<1>10. QED
  BY <1>1, <1>3, <1>9, ChangeKeepsEvaluations

LEMMA SelectKeepsTypes ==
  ASSUME RequestsInv, NEW e \in Evaluators, NEW event \in due, NEW lost, Select(e, event, lost)
  PROVE  PeopleInv' /\ EvaluationInv' /\ DrawInv'
<1> DEFINE selected == SelectReviewers(scenario, approving, lost)
           asks == ~event.draft /\ selected.who # {}
<1>1. /\ phase' = [phase EXCEPT ![e] = IF asks THEN "waiting" ELSE @]
      /\ seen' = [seen EXCEPT ![e] = IF asks THEN event.head ELSE @]
      /\ selection' = [selection EXCEPT ![e] = IF asks THEN selected.who ELSE @]
      /\ met' = [met EXCEPT ![e] = IF asks THEN Reviewers(event.head) ELSE @]
      /\ draws' = IF asks THEN draws \union selected.lists ELSE draws
      /\ due' \subseteq due /\ phase[e] = "idle"
      /\ UNCHANGED <<scenario, people, requested, removed, asked, changes>>
  BY DEF Select
<1>2. AskInv /\ PeopleInv /\ EvaluationInv /\ DrawInv
  BY DEF RequestsInv
<1>3. PeopleInv'
  BY <1>1, <1>2 DEF PeopleInv, people
<1>4. event.head \in 0..head /\ Reviewers(event.head) \subseteq Names /\ head' = head
  BY <1>1, <1>2, ReviewersAreNames, RequestsAssumption DEF PeopleInv, people
<1>5. EvaluationInv'
  <2>1. ASSUME NEW f \in Evaluators
        PROVE  /\ phase'[f] \in {"idle", "waiting", "asking"}
               /\ (phase'[f] = "idle") = (selection'[f] = {})
               /\ seen'[f] \in 0..head /\ met'[f] \subseteq Names
    <3>1. CASE f = e /\ asks
      BY <1>1, <1>2, <1>4, <3>1 DEF AskInv
    <3>2. CASE ~(f = e /\ asks)
      <4>1. /\ phase'[f] = phase[f] /\ selection'[f] = selection[f]
            /\ seen'[f] = seen[f] /\ met'[f] = met[f]
        BY <1>1, <1>2, <3>2 DEF AskInv
      <4>2. QED
        BY <1>2, <4>1 DEF EvaluationInv
    <3>3. QED
      BY <3>1, <3>2
  <2>2. QED
    BY <1>4, <2>1 DEF EvaluationInv
<1>6. DrawInv'
  <2>1. /\ IsFiniteSet(selected.lists)
        /\ \A drawn \in selected.lists : IsDraw(drawn)
        /\ \A u \in selected.who \intersect Users :
             \E drawn \in selected.lists : HasPlace(drawn, u)
        /\ selected.who \subseteq MayBeAsked
    BY <1>2, SelectionIsDrawn DEF PeopleInv
  <2>2. IsFiniteSet(draws') /\ \A drawn \in draws' : IsDraw(drawn)
    BY <1>1, <1>2, <2>1, FS_Union DEF DrawInv
  <2>3. ASSUME NEW w, MayBeDrawn(w) PROVE MayBeDrawn(w)'
    BY <1>1, <2>3 DEF MayBeDrawn
  <2>4. ASSUME NEW f \in Evaluators, NEW w \in selection'[f] PROVE MayBeDrawn(w)'
    <3>1. CASE w \in selection[f]
      BY <1>2, <2>3, <3>1 DEF DrawInv
    <3>2. CASE w \notin selection[f]
      <4>1. asks /\ w \in selected.who
        BY <1>1, <1>2, <3>2 DEF AskInv
      <4>2. QED
        BY <1>1, <2>1, <4>1 DEF MayBeDrawn
    <3>3. QED
      BY <3>1, <3>2
  <2>5. QED
    BY <1>1, <1>2, <2>2, <2>3, <2>4 DEF DrawInv
<1>7. QED
  BY <1>3, <1>5, <1>6

(* What an evaluation still means to ask only shrinks, until it is asked.  *)
LEMMA AnswerKeepsTypes ==
  ASSUME RequestsInv, NEW e \in Evaluators, ReadReviewers(e) \/ Request(e) \/ Fail(e)
  PROVE  PeopleInv' /\ EvaluationInv' /\ DrawInv'
<1>1. AskInv /\ PeopleInv /\ EvaluationInv /\ DrawInv
  BY DEF RequestsInv
<1>2. /\ UNCHANGED <<scenario, people, removed, due, changes, draws>>
      /\ requested' \subseteq requested \union selection[e]
      /\ asked' \subseteq asked \union selection[e]
      /\ head' = head
  BY DEF ReadReviewers, Request, Fail, history, people
<1>3. MayBeAsked \subseteq Names
  BY DEF MayBeAsked, Names, Others
<1>4. PeopleInv'
  <2>1. requested' \subseteq Names
    BY <1>1, <1>2, <1>3 DEF PeopleInv, DrawInv, MayBeDrawn
  <2>2. QED
    BY <1>1, <1>2, <2>1 DEF PeopleInv, people
<1>5. ASSUME NEW f \in Evaluators
      PROVE  /\ phase'[f] \in {"idle", "waiting", "asking"}
             /\ (phase'[f] = "idle") = (selection'[f] = {})
             /\ seen'[f] \in 0..head /\ met'[f] \subseteq Names
             /\ selection'[f] \subseteq selection[f]
  <2>1. CASE End(e)
    <3>1. CASE f = e
      BY <1>1, <2>1, <3>1, RequestsAssumption DEF End, AskInv, PeopleInv
    <3>2. CASE f # e
      BY <1>1, <2>1, <3>2 DEF End, AskInv, EvaluationInv
    <3>3. QED
      BY <3>1, <3>2
  <2>2. CASE ~End(e)
    <3>1. /\ ~(selection[e] \subseteq Existing(e))
          /\ phase' = [phase EXCEPT ![e] = "asking"]
          /\ selection' = [selection EXCEPT ![e] = @ \ Existing(e)]
          /\ UNCHANGED <<seen, met>>
      BY <2>2 DEF ReadReviewers, Request, Fail
    <3>2. CASE f = e
      BY <1>1, <3>1, <3>2 DEF AskInv, EvaluationInv
    <3>3. CASE f # e
      BY <1>1, <3>1, <3>3 DEF AskInv, EvaluationInv
    <3>4. QED
      BY <3>2, <3>3
  <2>3. QED
    BY <2>1, <2>2
<1>6. EvaluationInv'
  BY <1>2, <1>5 DEF EvaluationInv
<1>7. DrawInv'
  BY <1>1, <1>2, <1>5 DEF DrawInv, MayBeDrawn
<1>8. QED
  BY <1>4, <1>6, <1>7

LEMMA StepKeepsRequestsInv ==
  ASSUME RequestsInv, [Next]_vars
  PROVE  RequestsInv'
<1>1. AskInv'
  BY StepKeepsAskInv DEF RequestsInv
<1>2. CASE Push \/ ConvertToDraft \/ MarkReady \/ Report
  BY <1>1, <1>2, PeopleKeepTypes DEF RequestsInv
<1>3. ASSUME NEW u \in Users, Review(u) \/ Withdraw(u) PROVE RequestsInv'
  BY <1>1, <1>3, PeopleKeepTypes DEF RequestsInv
<1>4. ASSUME NEW w \in Names, Assign(w) \/ Unassign(w) PROVE RequestsInv'
  BY <1>1, <1>4, PeopleKeepTypes DEF RequestsInv
<1>5. ASSUME (\E event \in due : Drop(event)) \/ UNCHANGED vars PROVE RequestsInv'
  <2>1. /\ UNCHANGED <<scenario, draft, head, approving, reviewed, requested, removed, changes>>
        /\ UNCHANGED <<evaluation, asked, draws>> /\ due' \subseteq due
    BY <1>5 DEF Drop, vars, people, history
  <2>2. PeopleInv'
    BY <2>1 DEF RequestsInv, PeopleInv
  <2>3. QED
    BY <1>1, <2>1, <2>2, ChangeKeepsEvaluations, RequestsAssumption DEF RequestsInv, PeopleInv
<1>6. ASSUME NEW event \in due, NEW e \in Evaluators, NEW lost, Select(e, event, lost)
      PROVE  RequestsInv'
  BY <1>1, <1>6, SelectKeepsTypes DEF RequestsInv
<1>7. ASSUME NEW e \in Evaluators, ReadReviewers(e) \/ Request(e) \/ Fail(e) PROVE RequestsInv'
  BY <1>1, <1>7, AnswerKeepsTypes DEF RequestsInv
<1>8. QED
  BY <1>2, <1>3, <1>4, <1>5, <1>6, <1>7 DEF Next, Names

LEMMA RequestsInvIsTyped == RequestsInv => TypeOK
<1>1. SUFFICES ASSUME RequestsInv PROVE TypeOK
  OBVIOUS
<1>2. Author \notin DOMAIN RepoTeams /\ Author \in Users
  BY RequestsAssumption
<1>3. MayBeAsked \subseteq Names \ {Author}
  BY <1>2 DEF MayBeAsked, Names, Others
<1>4. \A u \in MayBeAsked \intersect Users : PermissionOf[u] > 0
  BY RequestsAssumption DEF MayBeAsked
<1>5. asked \subseteq MayBeAsked
  BY <1>1 DEF RequestsInv, DrawInv, MayBeDrawn
<1>6. QED
  BY <1>1, <1>3, <1>4, <1>5 DEF TypeOK, RequestsInv, PeopleInv, EvaluationInv

(* The places there are: everybody who was asked has one of his own.       *)
LEMMA RequestsInvIsFew == RequestsInv => FewAreAsked
<1>1. SUFFICES ASSUME RequestsInv PROVE FewAreAsked
  OBVIOUS
<1> DEFINE who == asked \intersect Users
           placesOf(drawn) == {drawn} \X (1..MostOf(drawn))
           places == UNION {placesOf(drawn) : drawn \in draws}
           drawnFor == [u \in who |-> CHOOSE drawn \in draws : HasPlace(drawn, u)]
           f == [u \in who |-> <<drawnFor[u], PlaceIn(drawnFor[u], u)>>]
<1>2. ASSUME NEW u \in who PROVE drawnFor[u] \in draws /\ HasPlace(drawnFor[u], u)
  BY <1>1 DEF RequestsInv, DrawInv, MayBeDrawn
<1>3. ASSUME NEW drawn \in draws PROVE IsFiniteSet(placesOf(drawn))
  <2>1. IsDraw(drawn)
    BY <1>1 DEF RequestsInv, DrawInv
  <2>2. Cardinality(drawn.of) \in Nat /\ IsFiniteSet(drawn.of)
    BY <2>1, NamesOrder, FS_CardinalityType DEF IsDraw, Others
  <2>3. CountOf(drawn.rule) \in Int /\ drawn.rule.required \in Int
    BY <2>1 DEF IsDraw, IsRule, CountOf
  <2>4. Max({CountOf(drawn.rule), drawn.rule.required}) \in Int
    BY <2>3, PairMax
  <2>5. MostOf(drawn) \in Int
    BY <2>2, <2>4, PairMin DEF MostOf
  <2>6. QED
    <3>1. IsFiniteSet(1..MostOf(drawn))
      BY <2>5, FS_Interval
    <3>2. IsFiniteSet({drawn})
      BY FS_Singleton
    <3>3. QED
      BY <3>1, <3>2, FS_Product
<1>4. IsFiniteSet(places)
  <2>1. IsFiniteSet({placesOf(drawn) : drawn \in draws})
    <3> DEFINE g == [drawn \in draws |-> placesOf(drawn)]
    <3>1. g \in Surjection(draws, {placesOf(drawn) : drawn \in draws})
      BY DEF Surjection
    <3>2. QED
      BY <1>1, <3>1, FS_Surjection DEF RequestsInv, DrawInv
  <2>2. QED
    BY <1>3, <2>1, FS_UNION
<1>5. ASSUME NEW u \in who PROVE f[u] \in places
  <2>1. PlaceIn(drawnFor[u], u) \in 1..MostOf(drawnFor[u])
    BY <1>2 DEF HasPlace
  <2>2. f[u] \in placesOf(drawnFor[u])
    BY <2>1
  <2>3. QED
    BY <1>2, <2>2
<1>6. ASSUME NEW u \in who, NEW v \in who, f[u] = f[v] PROVE u = v
  <2> DEFINE drawn == drawnFor[u]
  <2>1. drawnFor[v] = drawn /\ PlaceIn(drawn, u) = PlaceIn(drawn, v)
    <3>1. /\ f[u] = <<drawnFor[u], PlaceIn(drawnFor[u], u)>>
          /\ f[v] = <<drawnFor[v], PlaceIn(drawnFor[v], v)>>
      OBVIOUS
    <3>2. /\ f[u][1] = drawnFor[u] /\ f[u][2] = PlaceIn(drawnFor[u], u)
          /\ f[v][1] = drawnFor[v] /\ f[v][2] = PlaceIn(drawnFor[v], v)
      OBVIOUS
    <3> HIDE DEF drawnFor, f
    <3>3. QED
      BY <1>6, <3>2
  <2>2. u \in drawn.of /\ v \in drawn.of /\ IsDraw(drawn)
    BY <1>1, <1>2, <2>1 DEF HasPlace, RequestsInv, DrawInv
  <2>3. IsFiniteSet(drawn.of) /\ Orders(Key(drawn), drawn.of)
    BY <2>2, NamesOrder DEF IsDraw, Others
  <2> HIDE DEF drawn
  <2>4. Cardinality(Below(Key(drawn), drawn.of, u)) = Cardinality(Below(Key(drawn), drawn.of, v))
    BY <2>1, <2>3, BelowIsCounted DEF PlaceIn
  <2>5. QED
    BY <2>2, <2>3, <2>4, PlacesDiffer
<1>7. f \in Injection(who, places)
  <2> HIDE DEF places, who, drawnFor
  <2>1. f \in [who -> places]
    BY <1>5
  <2> HIDE DEF f
  <2>2. QED
    BY <1>6, <2>1 DEF Injection, IsInjective
<1>8. Cardinality(who) <= Cardinality(places)
  <2> HIDE DEF places, who, f
  <2>1. QED
    BY <1>4, <1>7, FS_Injection
<1>9. QED
  BY <1>8 DEF FewAreAsked

-----------------------------------------------------------------------------
(* Only collaborators other than the author, and teams of the repository,  *)
(* are ever asked for a review, whatever a listing loses and whichever     *)
(* evaluations overlap (getPossibleReviewers, selectTeamReviewers).        *)
THEOREM RequestsKeepTypes == Spec => []TypeOK
<1>1. RequestsInv /\ [Next]_vars => RequestsInv'
  BY StepKeepsRequestsInv
<1>2. QED
  BY <1>1, InitIsDrawn, RequestsInvIsTyped, PTL DEF Spec

(* However often a rule is evaluated and whoever approved meanwhile, of a  *)
(* list of candidates no more are asked than one evaluation would ask, as  *)
(* the order of a draw depends on the pull request and on the lists only   *)
(* (requestReviews, randomlyOrderUsers).                                   *)
THEOREM FewAreEverAsked == Spec => []FewAreAsked
<1>1. RequestsInv /\ [Next]_vars => RequestsInv'
  BY StepKeepsRequestsInv
<1>2. QED
  BY <1>1, InitIsDrawn, RequestsInvIsFew, PTL DEF Spec
=============================================================================
