\* AuthorizedModelAccess against four permission tables, every request and
\* every result of up to two rows over two user ids.
SPECIFICATION Spec
CONSTANTS
  NULL = NULL
  Field <- MCField
  ClaimGroup <- MCClaimGroup
  Value = {1, 2}
  User = {1}
  OwnerField = "id"
  PermTables <- MCPermTables
  Garbage <- MCGarbage
  MaxRows = 2
INVARIANTS
  TypeOK
  ReadsExactly
  WritesExactly
  RefusedOnlyIfHidden
CHECK_DEADLOCK FALSE
