\* One handler of /users requests beside a login.
SPECIFICATION ServerSpec
CONSTANTS
  NULL = NULL
  n1 = n1
  n2 = n2
  n3 = n3
  e1 = e1
  e2 = e2
  e3 = e3
  q = q
  bad = bad
  Field <- MCField
  ClaimGroup <- MCClaimGroup
  Thread = {t1}
  LoginThread = {s1}
  MaxId = 3
  Value <- MCValue
  Invalid = {bad}
  Quoted = {q}
  Garbled <- MCGarbled
  PermGroup = {"user", "admin"}
  Kind = {"register", "modify", "delete"}
  Sent <- Bodies
  Failing = FALSE
  Token <- AnyToken
  StoredTokens <- LoggedOut
  UsersPermissions <- MCUsersPermissions
  InitialUsers <- MCInitialUsers
PROPERTIES
  NewAccountsInheritNothing
  TokensClaimRecentGroups
