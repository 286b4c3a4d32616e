-------------------------- MODULE MCLoginSessions --------------------------
(***************************************************************************)
(* LoginSessions with the users_permissions table shipped in db.sqlite, on *)
(* the columns whose rights differ: id, email (which stands for the other  *)
(* profile columns) and permission_group.                                  *)
(***************************************************************************)
EXTENDS LoginSessions, TLC

MCField == {"id", "email", "permission_group"}

C == "CREATE"
R == "READ"
U == "UPDATE"
D == "DELETE"

Row(instance, id, email, permission_group) ==
  [c \in {"instance"} \cup MCField |->
     CASE c = "instance" -> instance
       [] c = "id" -> id
       [] c = "email" -> email
       [] c = "permission_group" -> permission_group]

MCUsersPermissions ==
  [g \in UserGroup |->
     CASE g = "other" -> Row({}, {}, {}, {})
       [] g = "owner" -> Row({R, U, D}, {R, D}, {R, U}, {R})
       [] g = "guest" -> Row({C, R}, {R}, {C, R}, {C, R})
       [] g = "user"  -> Row({R}, {R}, {R}, {R})
       [] g = "admin" -> Row({C, R, U, D}, {R}, {R, U}, {R, U, D})]

MCClaimGroup == UserGroup

OneUser == [u \in User |-> "user"]

AdminAndUser == [u \in User |-> IF u = 1 THEN "admin" ELSE "user"]

\* The shipped table gives no more rights on accounts than the proofs assume.
ASSUME ShippedRights == RightsOnAccounts

ThreadSymmetry == Permutations(Thread)
=============================================================================
