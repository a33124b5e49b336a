SPECIFICATION EventSpec
CONSTANTS
  Users = {"ann", "cam", "rob"}
  Listing <- Pushes
  Base = {"b1"}
  Parents <- MCParents
  UsersOf <- MCUsersOf
  Web = {}
  Author = "ann"
  Speakers = {"cam", "rob"}
  Kinds = {"label", "status"}
  Rules <- EventRules
  SharedCommits = {}
  Submissions = {"approved", "changes_requested", "commented"}
  ReviewEdits = {"approved"}
  FirstHead = "c1"
  MaxSteps = 2
  MaxTime = 3
  StrictReviewDismissal = FALSE
PROPERTIES VerdictChangesAreHandled DismissalsChangeNoApproval
CHECK_DEADLOCK FALSE
