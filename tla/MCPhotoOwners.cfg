\* Two handlers modify and delete two photos of different owners.
SPECIFICATION Spec
CONSTANTS
  NULL = NULL
  jpg = jpg
  png = png
  c1 = c1
  c2 = c2
  a = a
  b = b
  q = q
  Cut = Cut
  Field <- MCField
  ClaimGroup <- MCClaimGroup
  Thread = {t1, t2}
  User = {1, 2}
  PhotoId = {1, 2}
  Extension = {jpg}
  Title = {a, b, q}
  Content = {c1}
  Invalid = {}
  Quoted = {q}
  Garbled <- Exchanged
  Failing = FALSE
  Kind = {"modify", "delete"}
  Sent <- CompleteBodies
  Token <- TwoTokens
  LogsIn = {2}
  PhotosPermissions <- MCPhotosPermissions
  InitialPhotos <- TwoPhotos
SYMMETRY ThreadSymmetry
PROPERTIES
  PhotosChangeByRight
