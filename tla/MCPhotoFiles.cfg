\* Two handlers on one id: uploads that draw it up to twice, every caller,
\* logins meanwhile, statements and file operations that fail, a process that
\* stops.
SPECIFICATION Spec
CONSTANTS
  NULL = NULL
  jpg = jpg
  png = png
  c1 = c1
  c2 = c2
  a = a
  b = b
  q = q
  Cut = Cut
  Field <- MCField
  ClaimGroup <- MCClaimGroup
  Thread = {t1, t2}
  User = {1, 2}
  PhotoId = {1}
  Extension = {jpg}
  Title = {a, b, q}
  Content = {c1}
  Invalid = {}
  Quoted = {q}
  Garbled <- NoneLeft
  Failing = TRUE
  Kind = {"upload", "modify", "delete"}
  Sent <- AllBodies
  Token <- TwoTokens
  LogsIn = {2}
  PhotosPermissions <- MCPhotosPermissions
  InitialPhotos <- NoPhotos
SYMMETRY ThreadSymmetry
INVARIANTS
  TypeOK
  FileMatchesRow
  DeletionComplete
  LeftoversAreUploads
PROPERTIES
  PhotosChangeByRight
