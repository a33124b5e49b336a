SPECIFICATION Spec
CONSTANTS
  Users = {"ann", "cam", "rob"}
  Listing <- Pushes
  Base = {"b1"}
  Parents <- MCParents
  UsersOf <- MCUsersOf
  Web = {}
  Author = "ann"
  Speakers = {"rob"}
  Kinds = {}
  Rules <- ReviewRules
  SharedCommits = {}
  Submissions = {"approved", "changes_requested"}
  ReviewEdits = {}
  FirstHead = "c1"
  MaxSteps = 2
  MaxTime = 3
  StrictReviewDismissal = FALSE
INVARIANT LastReviewDecides
CHECK_DEADLOCK FALSE
