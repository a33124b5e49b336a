----------------------------- MODULE MCPushTimes -----------------------------
(***************************************************************************)
(* c2 follows c1, pushed together or apart, and d is c2 amended.  In       *)
(* Merged, a and b follow c, and m merges b into a.                        *)
(***************************************************************************)
EXTENDS PushTimes, TLC

CONSTANTS e1, e2

AnyEvaluator == Permutations({e1, e2})

Line == [c1 |-> {}, c2 |-> {"c1"}]
Amended == [c1 |-> {}, c2 |-> {"c1"}, d |-> {"c1"}]
Merged == [c |-> {}, a |-> {"c"}, b |-> {"c"}, m |-> {"a", "b"}]

Ancestry ==
  LET below[s \in Shas] == {s} \union UNION {below[p] : p \in Parents[s]}
  IN  below

OneProcess == [e \in Evaluators |-> "p1"]
=============================================================================
