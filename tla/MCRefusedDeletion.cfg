\* Deletions of two photos: the files go before the caller's right is checked.
SPECIFICATION Spec
CONSTANTS
  NULL = NULL
  jpg = jpg
  png = png
  c1 = c1
  c2 = c2
  a = a
  b = b
  q = q
  Cut = Cut
  Field <- MCField
  ClaimGroup <- MCClaimGroup
  Thread = {t1, t2}
  User = {1, 2}
  PhotoId = {1, 2}
  Extension = {jpg}
  Title = {a, b, q}
  Content = {c1}
  Invalid = {}
  Quoted = {q}
  Garbled <- NoneLeft
  Failing = FALSE
  Kind = {"delete"}
  Sent <- CompleteBodies
  Token <- TwoTokens
  LogsIn = {}
  PhotosPermissions <- MCPhotosPermissions
  InitialPhotos <- TwoPhotos
SYMMETRY ThreadSymmetry
PROPERTIES
  FilesGoByRight
