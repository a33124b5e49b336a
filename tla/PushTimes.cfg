SPECIFICATION Spec
CONSTANTS
  Shas = {"c1", "c2"}
  Parents <- Line
  History <- Ancestry
  FirstHead = "c1"
  e1 = e1  e2 = e2
  Evaluators = {e1, e2}
  Instances = {"p1"}
  InstanceOf <- OneProcess
  MaxTime = 3
SYMMETRY AnyEvaluator
INVARIANTS
  TypeOK
  NeverBeforePush
  StatusEndsTheWait
CHECK_DEADLOCK FALSE
