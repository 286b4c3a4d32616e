--------------------------- MODULE MCModelAccess ---------------------------
(***************************************************************************)
(* ModelAccess on two user ids and two columns: the owner column "id" and  *)
(* a column "email" for all the others.                                    *)
(***************************************************************************)
EXTENDS ModelAccess

MCField == {"id", "email"}

MCClaimGroup == UserGroup \cup {"unlisted"}

C == "CREATE"
R == "READ"
U == "UPDATE"
D == "DELETE"

Row(instance, id, email) ==
  [c \in {"instance", "id", "email"} |->
     CASE c = "instance" -> instance [] c = "id" -> id [] c = "email" -> email]

\* users_permissions as shipped in db.sqlite, on the columns id and password
\* (the column most groups have no right on).
Shipped ==
  [g \in UserGroup |->
     CASE g = "other" -> Row({}, {}, {})
       [] g = "owner" -> Row({R, U, D}, {R, D}, {U})
       [] g = "guest" -> Row({C, R}, {R}, {C})
       [] g = "user"  -> Row({R}, {R}, {})
       [] g = "admin" -> Row({C, R, U, D}, {R}, {U})]

\* A table that gives "other" rights, takes the instance from "user", has no
\* row for "admin" and NULL cells.
Uneven ==
  [g \in UserGroup \ {"admin"} |->
     CASE g = "other" -> Row({}, {}, {R, U})
       [] g = "owner" -> Row({R, C}, {R, U, D}, {})
       [] g = "guest" -> Row({R}, NULL, {C, R})
       [] g = "user"  -> Row({U, D}, {R, U, D, C}, {R, U, D, C})]

\* No rights but the owner's, and a group whose instance cell is NULL.
OwnerOnly ==
  [g \in UserGroup |->
     CASE g = "owner" -> Row({C, R, U, D}, {R, D}, {C, R, U, D})
       [] g = "guest" -> Row({R, C}, {}, {R})
       [] OTHER -> Row({}, {}, {})]

NullInstance == [g \in {"guest", "user"} |-> Row(NULL, {R}, {R})]

MCPermTables == {Shipped, Uneven, OwnerOnly, NullInstance}

MCGarbage == {{}, {R, U, D, C}}
=============================================================================
