SPECIFICATION Spec
CONSTANTS
  s1 = s1  s2 = s2  s3 = s3
  main = main  next = next  old = old  wild = wild
  w1 = w1  w2 = w2  v1 = v1
  Workers = {w1}
  Viewers = {v1}
  Shas = {s1, s3}
  Bases = {main}
  Titles = {"ready"}
  Kinds = {"review"}
  Values = {FALSE, TRUE}
  Policy <- MCPolicy
  PolicyTrigger <- MCPolicyTrigger
  Judge <- MCJudge
  QueueSize = 2
  Reordering = TRUE
  MaxChanges = 2
  MaxFaults = 1
INVARIANT SuccessIsEarned
CHECK_DEADLOCK FALSE
