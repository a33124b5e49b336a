SPECIFICATION Spec
CONSTANTS
  NameOrder <- MCNameOrder
  Author = "ada"
  PermissionOf <- MCPermissionOf
  Direct <- MCDirect
  TeamMembers <- MCTeamMembers
  OrgMembers <- MCOrgMembers
  RepoTeams <- MCRepoTeams
  Order <- MCOrder
  Scenarios <- MCScenarios
  e1 = e1  e2 = e2
  Evaluators = {e1, e2}
  MaxHead = 2
  MaxChanges = 3
SYMMETRY AnyEvaluator
INVARIANTS
  TypeOK
  FewAreAsked
  EnoughAreAsked
PROPERTY AskedOnce
CHECK_DEADLOCK FALSE
