---------------------------- MODULE Permissions ----------------------------
(***************************************************************************)
(* The permission algebra of src/src/user.hpp: right masks, the matrix a   *)
(* request loads from "<table>_permissions", and the two checks            *)
(* AuthorizedModelAccess makes with it.  Pure operators, shared by the     *)
(* state machines that authorise requests.                                 *)
(*                                                                         *)
(* A mask of four bits is the set of the rights whose bits are set, so     *)
(* (desired & perms) == desired is inclusion and bit_or is union.  A model *)
(* (a std::optional per field) is a function from fields to values, with   *)
(* NULL for an empty optional.                                             *)
(***************************************************************************)

CONSTANTS Field,       \* the fields of the model at hand
          ClaimGroup,  \* the group_id values a signed token can carry
          NULL         \* an empty optional, a NULL column

Right == {"CREATE", "READ", "UPDATE", "DELETE"}

UserGroup == {"other", "owner", "guest", "user", "admin"}

Column == {"instance"} \cup Field

Matrix == [ClaimGroup -> [Column -> SUBSET Right]]

ASSUME GroupAssumption == UserGroup \subseteq ClaimGroup

ASSUME FieldAssumption == /\ NULL \notin Field \cup ClaimGroup
                          /\ "instance" \notin Field

----------------------------------------------------------------------------

have_permissions(desired, perms) == desired \subseteq perms

\* PermissionParams as the routes build them: guests carry no user id.
GuestParams(owner_field) ==
  [group_id |-> "guest", user_id |-> NULL, owner_field_name |-> owner_field]

----------------------------------------------------------------------------
(* check_instance_permissions                                              *)

have_group_perms(desired, pp, m) ==
  have_permissions(desired, m[pp.group_id]["instance"])

have_owner_perms(desired, pp, m) ==
  /\ pp.user_id # NULL
  /\ pp.owner_field_name # NULL
  /\ have_permissions(desired, m["owner"]["instance"])

InstanceAllowed(desired, pp, m) ==
  have_group_perms(desired, pp, m) \/ have_owner_perms(desired, pp, m)

\* Faulty variant: the caller keeps its group without the right on the instance.
KeepGroup(desired, pp, m) ==
  LET owner == have_owner_perms(desired, pp, m)
  IN  [pp EXCEPT !.user_id = IF owner THEN @ ELSE NULL,
                 !.owner_field_name = IF owner THEN @ ELSE NULL]

\* Faulty variant: a caller without the right on the instance has no group.
NoGroup(desired, pp, m) ==
  LET owner == have_owner_perms(desired, pp, m)
  IN  [group_id |-> IF have_group_perms(desired, pp, m)
                    THEN pp.group_id ELSE NULL,
       user_id |-> IF owner THEN pp.user_id ELSE NULL,
       owner_field_name |-> IF owner THEN pp.owner_field_name ELSE NULL]

\* What is left of the parameters: a role that does not have the right on the
\* instance no longer counts for the fields.
AfterInstanceCheck(desired, pp, m) ==
  LET owner == have_owner_perms(desired, pp, m)
  IN  [group_id |-> IF have_group_perms(desired, pp, m)
                    THEN pp.group_id ELSE "other",
       user_id |-> IF owner THEN pp.user_id ELSE NULL,
       owner_field_name |-> IF owner THEN pp.owner_field_name ELSE NULL]

----------------------------------------------------------------------------
(* erase_unauthorized_fields and move_safely                               *)

OwnedBy(pp, model) ==
  /\ pp.owner_field_name # NULL
  /\ pp.user_id # NULL
  /\ model[pp.owner_field_name] = pp.user_id

\* Faulty variant: the owner's rights are left out.
GroupPerms(pp, m, model, f) == m[pp.group_id][f]

FieldPerms(pp, m, model, f) ==
  m[pp.group_id][f] \cup IF OwnedBy(pp, model) THEN m["owner"][f] ELSE {}

Surviving(desired, pp, m, model) ==
  {f \in Field : have_permissions(desired, FieldPerms(pp, m, model, f))}

\* The model move_safely hands out; the caller treats Surviving = {} as the
\* UnauthorizedError it throws.
Erased(desired, pp, m, model) ==
  [f \in Field |-> IF f \in Surviving(desired, pp, m, model)
                   THEN model[f] ELSE NULL]

EmptyModel == [f \in Field |-> NULL]

IsSet(model, f) == model[f] # NULL
=============================================================================
