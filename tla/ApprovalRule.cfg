SPECIFICATION Spec
CONSTANTS
  Users = {"ann", "cam", "rob"}
  Listing <- Updates
  Base = {"b1", "b2"}
  Parents <- MCParents
  UsersOf <- MCUsersOf
  Web = {"u"}
  Author = "ann"
  Speakers = {"cam", "rob"}
  Kinds = {}
  Rules <- MCRules
  SharedCommits = {}
  Submissions = {"approved", "changes_requested"}
  ReviewEdits = {}
  FirstHead = "c1"
  MaxSteps = 3
  MaxTime = 3
  StrictReviewDismissal = FALSE
INVARIANTS TypeOK EnoughMayApprove ApprovalsFollowPushes NothingIsOverlooked
PROPERTY RevocationHasACause
CHECK_DEADLOCK FALSE
