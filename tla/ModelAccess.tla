---------------------------- MODULE ModelAccess ----------------------------
(***************************************************************************)
(* One use of AuthorizedModelAccess<M> (src/src/user.hpp) by one of the    *)
(* four functions of src/src/actions.hpp that go through it:               *)
(*                                                                         *)
(*   get_models_from_db      READ    a loop that fetches every row into    *)
(*                                   the same m_model and moves it out     *)
(*   insert_model_into_db    CREATE  \                                     *)
(*   modify_models_in_db     UPDATE   > the request's model, moved once    *)
(*   delete_models_from_db   DELETE  /                                     *)
(*                                                                         *)
(* The matrix is loaded from the permission table; what the table does not *)
(* say (a missing group, a NULL cell, a group outside the enumeration) is  *)
(* whatever the uninitialised or out-of-range memory holds.                *)
(*                                                                         *)
(* Values become part of the text of a statement as they are.  Here they   *)
(* hold no quote, so what is written is what the text was made from; what  *)
(* a quote can do is in Registration and Photos.                           *)
(***************************************************************************)
EXTENDS Permissions, Naturals, Sequences

CONSTANTS Value,       \* values a column or a request field can hold
          User,        \* user ids
          OwnerField,  \* owner_field_name the route passes
          PermTables,  \* contents the "<table>_permissions" table may have
          Garbage,     \* masks an unwritten cell of the matrix may hold
          MaxRows      \* bound: rows a SELECT returns

ASSUME AccessAssumption ==
  /\ User \subseteq Value
  /\ NULL \notin Value
  /\ OwnerField \in Field
  /\ Garbage \subseteq SUBSET Right
  /\ MaxRows \in Nat
  /\ \A pt \in PermTables :
       /\ DOMAIN pt \subseteq UserGroup
       /\ \A g \in DOMAIN pt :
            pt[g] \in [Column -> (SUBSET Right) \cup {NULL}]

VARIABLES pc,        \* where the call stands
          desired,   \* m_desired_permissions
          params,    \* the PermissionParams the access was built with
          pp,        \* m_permission_params
          pt,        \* the rows of the permission table
          matrix,    \* m_permissions_matrix
          m_model,   \* m_model
          table,     \* the rows the SELECT yields, in order (READ only)
          model,     \* the model of the request (writes only)
          models,    \* std::vector<M> models, the result of a READ
          written,   \* the fields and values of the statement of a write
          resp       \* how the call ended

vars == <<pc, desired, params, pp, pt, matrix, m_model, table, model, models,
          written, resp>>

inputs == <<desired, params, pt, table, model>>

Model == [Field -> Value \cup {NULL}]

Params == {GuestParams(OwnerField)} \cup
          [group_id : ClaimGroup, user_id : User, owner_field_name : {OwnerField}]

----------------------------------------------------------------------------

Init ==
  /\ pc = "load"
  /\ desired \in {{r} : r \in Right}
  /\ params \in Params
  /\ pp = params
  /\ pt \in PermTables
  /\ matrix = [g \in ClaimGroup |-> [c \in Column |-> {}]]
  /\ IF desired = {"READ"}
     THEN /\ \E n \in 0..MaxRows : table \in [1..n -> Model]
          /\ model = EmptyModel
     ELSE /\ table = << >>
          /\ model \in Model
  /\ m_model = model
  /\ models = << >>
  /\ written = NULL
  /\ resp = "none"

Fail(error) ==
  /\ pc' = "done"
  /\ resp' = error

\* load_perms_from_db: get<int>("instance") throws on NULL, the fields' get is
\* wrapped in a try block that leaves the cell as it was.
UnwrittenCells ==
  {gc \in ClaimGroup \X Column :
     gc[1] \in DOMAIN pt => pt[gc[1]][gc[2]] = NULL}

LoadPermsFails ==
  /\ pc = "load"
  /\ \E g \in DOMAIN pt : pt[g]["instance"] = NULL
  /\ Fail("db_error")
  /\ UNCHANGED <<inputs, pp, matrix, m_model, models, written>>

LoadPerms ==
  /\ pc = "load"
  /\ \A g \in DOMAIN pt : pt[g]["instance"] # NULL
  /\ \E garbage \in [UnwrittenCells -> Garbage] :
       matrix' = [g \in ClaimGroup |-> [c \in Column |->
                    IF <<g, c>> \in UnwrittenCells THEN garbage[<<g, c>>]
                                                   ELSE pt[g][c]]]
  /\ pc' = "check"
  /\ UNCHANGED <<inputs, pp, m_model, models, written, resp>>

\* check_instance_permissions, the last call of the constructor.
CheckDenied ==
  /\ pc = "check"
  /\ ~InstanceAllowed(desired, pp, matrix)
  /\ Fail("unauthorized")
  /\ UNCHANGED <<inputs, pp, matrix, m_model, models, written>>

CheckInstance ==
  /\ pc = "check"
  /\ InstanceAllowed(desired, pp, matrix)
  /\ pp' = AfterInstanceCheck(desired, pp, matrix)
  /\ pc' = IF desired = {"READ"} THEN "fetch" ELSE "write"
  /\ UNCHANGED <<inputs, matrix, m_model, models, written, resp>>

----------------------------------------------------------------------------
(* get_models_from_db's loop                                               *)

\* type_conversion<M>::from_base: a column that is NULL (or not selected)
\* throws, is caught, and leaves the field of the reused model alone.
Fetched(row) == [f \in Field |-> IF IsSet(row, f) THEN row[f] ELSE m_model[f]]

\* Faulty variant: the fetched model is handed out without being emptied.
FetchRowKeepsModel ==
  LET fetched == Fetched(table[Len(models) + 1])
  IN  /\ pc = "fetch"
      /\ Len(models) < Len(table)
      /\ Surviving(desired, pp, matrix, fetched) # {}
      /\ models' = Append(models, Erased(desired, pp, matrix, fetched))
      /\ m_model' = fetched
      /\ UNCHANGED <<inputs, pp, pc, matrix, written, resp>>

FetchRow ==
  LET fetched == Fetched(table[Len(models) + 1])
  IN  /\ pc = "fetch"
      /\ Len(models) < Len(table)
      /\ IF Surviving(desired, pp, matrix, fetched) = {}
         THEN /\ m_model' = Erased(desired, pp, matrix, fetched)
              /\ Fail("unauthorized")
              /\ UNCHANGED models
         ELSE /\ models' = Append(models, Erased(desired, pp, matrix, fetched))
              /\ m_model' = EmptyModel
              /\ UNCHANGED <<pc, resp>>
      /\ UNCHANGED <<inputs, pp, matrix, written>>

FetchEnd ==
  /\ pc = "fetch"
  /\ Len(models) = Len(table)
  /\ pc' = "done"
  /\ resp' = "ok"
  /\ UNCHANGED <<inputs, pp, matrix, m_model, models, written>>

----------------------------------------------------------------------------
(* the three writing functions                                             *)

\* The statement is built from the fields that survive and are set.  An INSERT
\* writes NULL for the others; an UPDATE and a DELETE need at least one, and a
\* DELETE lists its conditions with commas, which SQL takes only for one.
StatementError(moved) ==
  LET set == {f \in Field : IsSet(moved, f)}
  IN  CASE desired = {"CREATE"} -> "none"
        [] desired # {"CREATE"} /\ set = {} -> "invalid_params"
        [] desired = {"DELETE"} /\ \E f, g \in set : f # g -> "db_error"
        [] OTHER -> "none"

WriteRefused ==
  /\ pc = "write"
  /\ Surviving(desired, pp, matrix, m_model) = {}
  /\ m_model' = EmptyModel
  /\ Fail("unauthorized")
  /\ UNCHANGED <<inputs, pp, matrix, models, written>>

Write ==
  LET moved == Erased(desired, pp, matrix, m_model)
  IN  /\ pc = "write"
      /\ Surviving(desired, pp, matrix, m_model) # {}
      /\ m_model' = EmptyModel
      /\ IF StatementError(moved) = "none"
         THEN /\ written' = moved
              /\ pc' = "done"
              /\ resp' = "ok"
         ELSE /\ Fail(StatementError(moved))
              /\ UNCHANGED written
      /\ UNCHANGED <<inputs, pp, matrix, models>>

Next == \/ LoadPermsFails \/ LoadPerms
        \/ CheckDenied \/ CheckInstance
        \/ FetchRow \/ FetchEnd
        \/ WriteRefused \/ Write

Spec == Init /\ [][Next]_vars

----------------------------------------------------------------------------
(* What the access promises, said of the original parameters, the original *)
(* row and the loaded matrix, without m_model and m_permission_params.     *)

RoleGroup == IF desired \subseteq matrix[params.group_id]["instance"]
             THEN params.group_id ELSE "other"

\* The caller acts as the owner of the model x for its field f.
GrantedAsOwner(x, f) ==
  /\ params.user_id # NULL
  /\ x[OwnerField] = params.user_id
  /\ desired \subseteq matrix["owner"]["instance"]
  /\ desired \subseteq matrix["owner"][f]

Granted(x, f) == desired \subseteq matrix[RoleGroup][f] \/ GrantedAsOwner(x, f)

View(x) == [f \in Field |-> IF Granted(x, f) THEN x[f] ELSE NULL]

Hidden(x) == \A f \in Field : ~Granted(x, f)

\* The type invariant of the members of the access and of the call's locals.
TypeOK ==
  /\ pc \in {"load", "check", "fetch", "write", "done"}
  /\ desired \in {{r} : r \in Right}
  /\ params \in Params
  /\ pp \in [group_id : ClaimGroup, user_id : User \cup {NULL},
             owner_field_name : {OwnerField, NULL}]
  /\ pt \in PermTables
  /\ matrix \in Matrix
  /\ m_model \in Model
  /\ table \in Seq(Model)
  /\ model \in Model
  /\ models \in Seq(Model)
  /\ written \in Model \cup {NULL}
  /\ resp \in {"none", "ok", "unauthorized", "invalid_params", "db_error"}

\* Row k of the answer holds exactly what the caller may read of row k of the
\* table: no field of it is missing, no other field is shown, and nothing of an
\* earlier row is left in it although every row is fetched into the same model
\* and a NULL column does not overwrite it (get_models_from_db, move_safely).
\* An answer that is "ok" has all the rows.
ReadsExactly ==
  /\ \A k \in 1..Len(models) : models[k] = View(table[k])
  /\ resp = "ok" /\ desired = {"READ"} => Len(models) = Len(table)

\* A statement that is executed writes, or selects by, exactly the fields of
\* the request the caller has the desired right on (insert_, modify_ and
\* delete_models_from_db).
WritesExactly == written # NULL => written = View(model)

\* A caller is refused only if the right is missing on the instance both as a
\* member of the group and as an owner, or if some row that was asked for, or
\* the model to be written, has no field at all the caller has the right on:
\* one such row refuses the whole request.
RefusedOnlyIfHidden ==
  resp = "unauthorized" =>
    \/ /\ ~desired \subseteq matrix[params.group_id]["instance"]
       /\ \/ params.user_id = NULL
          \/ ~desired \subseteq matrix["owner"]["instance"]
    \/ IF desired = {"READ"} THEN \E k \in 1..Len(table) : Hidden(table[k])
                             ELSE Hidden(model)
=============================================================================
