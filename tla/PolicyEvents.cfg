SPECIFICATION Spec
CONSTANTS
  UserOrder <- MCUserOrder
  TeamMembers <- MCTeamMembers
  OrgMembers <- MCOrgMembers
  PermissionOf <- MCPermissionOf
  MaxFiles = 2
  Scenarios <- MCScenarios
  MaxChanges = 3
INVARIANTS
  TypeOK
  ErrorsNeverApprove
  DisapprovalStands
PROPERTY StatusIsKept
CHECK_DEADLOCK FALSE
