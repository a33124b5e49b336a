SPECIFICATION FairSpec
CONSTANTS
  s1 = s1  s2 = s2  s3 = s3
  main = main  next = next  old = old  wild = wild
  w1 = w1  w2 = w2  v1 = v1
  Workers = {w1}
  Viewers = {}
  Shas = {s1, s2}
  Bases = {main, old, wild}
  Titles = {"ready", "draft"}
  Kinds = {"status"}
  Values = {FALSE, TRUE}
  Policy <- MCPolicy
  PolicyTrigger <- MCPolicyTrigger
  Judge <- MCJudge
  QueueSize = 3
  Reordering = FALSE
  MaxChanges = 2
  MaxFaults = 0
PROPERTY StatusBecomesTrue
CHECK_DEADLOCK FALSE
