SPECIFICATION Spec
CONSTANTS
  Users = {"ann", "cam", "rob"}
  Listing <- Features
  Base = {"b1"}
  Parents <- MCParents
  UsersOf <- MCUsersOf
  Web = {"m"}
  Author = "ann"
  Speakers = {"rob"}
  Kinds = {}
  Rules <- UpdateRules
  SharedCommits = {}
  Submissions = {}
  ReviewEdits = {}
  FirstHead = "c1"
  MaxSteps = 3
  MaxTime = 3
  StrictReviewDismissal = FALSE
INVARIANT NoEarlierApprovalCounts
CHECK_DEADLOCK FALSE
