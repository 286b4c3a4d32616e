--------------------------- MODULE MCRegistration ---------------------------
(***************************************************************************)
(* Registration with the users_permissions table shipped in db.sqlite, on  *)
(* the columns id, username, email and permission_group; the columns that  *)
(* are neither unique nor read by the server have the rights of email.     *)
(***************************************************************************)
EXTENDS Registration, TLC

CONSTANTS n1, n2, n3,  \* names
          e1, e2, e3,  \* e-mails
          q,           \* an e-mail with a quote
          bad          \* a value that violates its constraint

MCField == {"id", "username", "email", "permission_group"}

MCValue == {n1, n2, n3, e1, e2, e3, q}

C == "CREATE"
R == "READ"
U == "UPDATE"
D == "DELETE"

Row(instance, id, username, email, permission_group) ==
  [c \in {"instance"} \cup MCField |->
     CASE c = "instance" -> instance
       [] c = "id" -> id
       [] c = "username" -> username
       [] c = "email" -> email
       [] c = "permission_group" -> permission_group]

MCUsersPermissions ==
  [g \in UserGroup |->
     CASE g = "other" -> Row({}, {}, {}, {}, {})
       [] g = "owner" -> Row({R, U, D}, {R, D}, {R}, {R, U}, {R})
       [] g = "guest" -> Row({C, R}, {R}, {C, R}, {C, R}, {C, R})
       [] g = "user"  -> Row({R}, {R}, {R}, {R}, {R})
       [] g = "admin" -> Row({C, R, U, D}, {R}, {R, U}, {R, U}, {R, U, D})]

Body(id, username, email, group) ==
  [f \in MCField |->
     CASE f = "id" -> id
       [] f = "username" -> username
       [] f = "email" -> email
       [] f = "permission_group" -> group]

\* Account 1 is an administrator's, account 2 a user's.
MCInitialUsers ==
  [i \in Id |-> CASE i = 1 -> Body(1, n1, e1, "admin")
                  [] i = 2 -> Body(2, n2, e2, "user")
                  [] OTHER -> NULL]

\* What a statement with a quote may leave: the user regrouped and a new
\* account in place of the administrator's.
MCGarbled ==
  {[i \in Id |-> CASE i = 2 -> Body(2, n2, e2, "admin")
                   [] i = 3 -> Body(3, n3, q, "user")
                   [] OTHER -> NULL]}

MCClaimGroup == UserGroup

ASSUME ShippedRights == NothingForOther /\ RightsOnNewAccounts

\* The administrator's token is stored; so is the user's, and a token of an
\* administrator that the user once had is not.
OwnTokens == {<<1, "admin">>, <<2, "user">>}

AllTokens == OwnTokens \cup {<<2, "admin">>}

OwnStored == [i \in Id |-> CASE i = 1 -> "admin" [] i = 2 -> "user" [] OTHER -> NULL]

\* Registrations: all pairs, and one that names a deleted or taken id and a
\* group.
Registrations ==
  {Body(NULL, n, e, NULL) : n \in {n1, n2}, e \in {e1, e2}}
    \cup {Body(2, n2, e2, "admin")}

\* Modifications of each field, to values that are free and to values that are
\* taken; bodies that name another account; one that violates a constraint and
\* one that holds a quote.  The first and the last also register.
Modifications ==
  {Body(NULL, n3, e3, NULL), Body(2, NULL, e3, NULL), Body(1, n2, NULL, "user"),
   Body(NULL, NULL, bad, NULL), Body(NULL, n3, q, NULL)}

ThreadSymmetry == Permutations(Thread)
=============================================================================
