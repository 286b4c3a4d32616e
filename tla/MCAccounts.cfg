\* Two threads, an administrator and a user: logins against regrouping and
\* deletion of the accounts, no failures.
SPECIFICATION Spec
CONSTANTS
  NULL = NULL
  Field <- MCField
  ClaimGroup <- MCClaimGroup
  UsersPermissions <- MCUsersPermissions
  Thread = {t1, t2}
  User = {1, 2}
  PermGroup = {"user", "admin"}
  Kind = {"login", "set_group", "delete"}
  Failing = FALSE
  InitialGroup <- AdminAndUser
SYMMETRY ThreadSymmetry
INVARIANTS
  UndisturbedLogin
PROPERTIES
  AccountsChangeByAuthority
