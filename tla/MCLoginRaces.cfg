\* Three threads, one account: every interleaving of the statements of three
\* concurrent logins and of reads with a bearer token, failures and crashes.
SPECIFICATION Spec
CONSTANTS
  NULL = NULL
  Field <- MCField
  ClaimGroup <- MCClaimGroup
  UsersPermissions <- MCUsersPermissions
  Thread = {t1, t2, t3}
  User = {u1}
  PermGroup = {"user"}
  Kind = {"login", "get"}
  Failing = TRUE
  InitialGroup <- OneUser
SYMMETRY ThreadSymmetry
INVARIANTS
  TypeOK
  TokenKept
  UndisturbedLogin
