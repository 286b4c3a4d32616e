------------------------------ MODULE MCPhotos ------------------------------
(***************************************************************************)
(* Photos with the photos_permissions table shipped in db.sqlite.          *)
(***************************************************************************)
EXTENDS Photos, TLC

CONSTANTS jpg, png,  \* extensions
          c1, c2,    \* contents
          a, b, q    \* titles; q holds a quote

MCField == {"id", "extension", "title", "uploaded_by", "is_private"}

MCClaimGroup == UserGroup

C == "CREATE"
R == "READ"
U == "UPDATE"
D == "DELETE"

Row(instance, id, extension, title, uploaded_by, is_private) ==
  [c \in {"instance"} \cup MCField |->
     CASE c = "instance" -> instance
       [] c = "id" -> id
       [] c = "extension" -> extension
       [] c = "title" -> title
       [] c = "uploaded_by" -> uploaded_by
       [] c = "is_private" -> is_private]

MCPhotosPermissions ==
  [g \in UserGroup |->
     CASE g = "other" -> Row({}, {}, {}, {}, {}, {})
       [] g = "owner" -> Row({R, U, D}, {R, D}, {R}, {R, U}, {R}, {R, U})
       [] g = "guest" -> Row({R}, {R}, {R}, {R}, {R}, {R})
       [] g = "user"  -> Row(Right, {C, R}, {C, R}, {C, R}, {C, R}, {C, R})
       [] g = "admin" -> Row(Right, {C, R}, {C, R}, {C, R}, {C, R}, {C, R, U})]

Body(title, uploaded_by, is_private) ==
  [f \in MCField |->
     CASE f = "title" -> title
       [] f = "uploaded_by" -> uploaded_by
       [] f = "is_private" -> is_private
       [] OTHER -> NULL]

\* Photo 1 is the administrator's, photo 2 the user's.
TwoPhotos ==
  [i \in PhotoId |-> [Body(a, i, 0) EXCEPT !["id"] = i, !["extension"] = jpg]]

NoPhotos == [i \in PhotoId |-> NULL]

\* User 1 is an administrator, 2 is a user.
TwoTokens == {<<1, "admin">>, <<2, "user">>}

\* A complete body that names the administrator as the owner, and one whose
\* title holds a quote.
CompleteBodies == {Body(b, 1, 1), Body(q, NULL, 0)}

\* Further: one that sets nothing a client may set.
AllBodies == CompleteBodies \cup {Body(NULL, 1, NULL)}

\* What a statement with a quote may leave: no photo, or photos that are each
\* the other user's and retitled.
NoneLeft == {NoPhotos}
Exchanged ==
  {[i \in PhotoId |-> [Body(q, 3 - i, 0) EXCEPT !["id"] = i, !["extension"] = jpg]]}

ASSUME ShippedRights == RightsOnPhotos /\ RightsOnRows

ThreadSymmetry == Permutations(Thread)
=============================================================================
