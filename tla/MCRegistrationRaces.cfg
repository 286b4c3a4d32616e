\* Two threads register and delete accounts: names become free and are taken
\* between a check and its insert.
SPECIFICATION Spec
CONSTANTS
  NULL = NULL
  n1 = n1
  n2 = n2
  n3 = n3
  e1 = e1
  e2 = e2
  e3 = e3
  q = q
  bad = bad
  Field <- MCField
  ClaimGroup <- MCClaimGroup
  Thread = {t1, t2}
  MaxId = 4
  Value <- MCValue
  Invalid = {bad}
  Quoted = {q}
  Garbled <- MCGarbled
  PermGroup = {"user", "admin"}
  Kind = {"register", "delete"}
  Sent <- Registrations
  Failing = TRUE
  Token <- OwnTokens
  StoredTokens <- OwnStored
  UsersPermissions <- MCUsersPermissions
  InitialUsers <- MCInitialUsers
SYMMETRY ThreadSymmetry
INVARIANTS
  TypeOK
  FailsOnlyIfTaken
PROPERTIES
  NewAccounts
  ImplementsDirectory
