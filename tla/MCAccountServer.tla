-------------------------- MODULE MCAccountServer --------------------------
(***************************************************************************)
(* AccountServer with the accounts and the permission table of             *)
(* MCRegistration; nobody is logged in at the start.                       *)
(***************************************************************************)
EXTENDS AccountServer, MCRegistration

AnyToken == Id \X PermGroup

LoggedOut == [i \in Id |-> NULL]

\* A registration, a change of a group and one of an e-mail, with a quote.
Bodies ==
  {Body(NULL, n2, e2, NULL), Body(NULL, NULL, NULL, "admin"),
   Body(NULL, NULL, q, NULL)}

=============================================================================
