\* Two threads modify accounts and register: every field, by the owner, an
\* administrator, another user and a guest.
SPECIFICATION Spec
CONSTANTS
  NULL = NULL
  n1 = n1
  n2 = n2
  n3 = n3
  e1 = e1
  e2 = e2
  e3 = e3
  q = q
  bad = bad
  Field <- MCField
  ClaimGroup <- MCClaimGroup
  Thread = {t1, t2}
  MaxId = 3
  Value <- MCValue
  Invalid = {bad}
  Quoted = {q}
  Garbled <- MCGarbled
  PermGroup = {"user", "admin"}
  Kind = {"register", "modify"}
  Sent <- Modifications
  Failing = FALSE
  Token <- AllTokens
  StoredTokens <- OwnStored
  UsersPermissions <- MCUsersPermissions
  InitialUsers <- MCInitialUsers
SYMMETRY ThreadSymmetry
PROPERTIES
  AccountsChangeByRight
  ImplementsDirectory
