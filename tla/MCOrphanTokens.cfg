\* One account that logs in and deletes itself: the foreign key that db.sqlite
\* declares from auth_tokens to users does not hold.
SPECIFICATION Spec
CONSTANTS
  NULL = NULL
  Field <- MCField
  ClaimGroup <- MCClaimGroup
  UsersPermissions <- MCUsersPermissions
  Thread = {t1, t2}
  User = {1}
  PermGroup = {"user"}
  Kind = {"login", "delete"}
  Failing = FALSE
  InitialGroup <- OneUser
INVARIANTS
  TokensHaveAccounts
