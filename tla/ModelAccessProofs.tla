-------------------------- MODULE ModelAccessProofs --------------------------
(***************************************************************************)
(* What AuthorizedModelAccess hands out and writes is what the caller has  *)
(* the right on, for every permission table, every model and any number of *)
(* rows.  The invariant says that a row is always fetched into an empty    *)
(* m_model with the parameters check_instance_permissions has left; the    *)
(* rest is a fact about the algebra, ErasedIsView.                         *)
(***************************************************************************)
EXTENDS ModelAccess, TLAPS

Checked == AfterInstanceCheck(desired, params, matrix)

Progress ==
  /\ desired = {"READ"} => model = EmptyModel
  /\ pc \in {"load", "check"} =>
       pp = params /\ m_model = model /\ models = << >>
  /\ pc = "fetch" =>
       /\ desired = {"READ"}
       /\ pp = Checked /\ m_model = EmptyModel
       /\ Len(models) <= Len(table)
  /\ pc = "write" =>
       /\ desired # {"READ"}
       /\ pp = Checked /\ m_model = model /\ models = << >>
  /\ pc # "done" => resp = "none" /\ written = NULL

Promise == ReadsExactly /\ WritesExactly /\ RefusedOnlyIfHidden

Inv == TypeOK /\ Progress /\ Promise

----------------------------------------------------------------------------
(* The algebra                                                             *)

\* The parameters the check leaves stand for the two roles of the caller.
LEMMA CheckedRoles ==
  ASSUME TypeOK
  PROVE  /\ Checked.group_id = RoleGroup
         /\ Checked.group_id \in ClaimGroup
         /\ \A x \in Model :
              OwnedBy(Checked, x) <=> /\ params.user_id # NULL
                                      /\ x[OwnerField] = params.user_id
                                      /\ desired \subseteq matrix["owner"]["instance"]
<1>1. OwnerField \in Field /\ OwnerField # NULL
  BY AccessAssumption, FieldAssumption
<1>2. params.group_id \in ClaimGroup /\ params.owner_field_name = OwnerField
  BY GroupAssumption DEF TypeOK, Params, GuestParams, UserGroup
<1>3. Checked.group_id = RoleGroup /\ Checked.group_id \in ClaimGroup
  BY <1>2, GroupAssumption
  DEF Checked, AfterInstanceCheck, have_group_perms, have_permissions, RoleGroup,
      UserGroup
<1>4. have_owner_perms(desired, params, matrix) <=>
        params.user_id # NULL /\ desired \subseteq matrix["owner"]["instance"]
  BY <1>1, <1>2 DEF have_owner_perms, have_permissions
<1>5. ASSUME NEW x \in Model
      PROVE  OwnedBy(Checked, x) <=> /\ params.user_id # NULL
                                     /\ x[OwnerField] = params.user_id
                                     /\ desired \subseteq matrix["owner"]["instance"]
  <2>1. CASE have_owner_perms(desired, params, matrix)
    <3>1. Checked.owner_field_name = OwnerField /\ Checked.user_id = params.user_id
      BY <1>2, <2>1 DEF Checked, AfterInstanceCheck
    <3> QED BY <1>1, <1>4, <2>1, <3>1 DEF OwnedBy
  <2>2. CASE ~have_owner_perms(desired, params, matrix)
    <3>1. Checked.user_id = NULL
      BY <2>2 DEF Checked, AfterInstanceCheck
    <3> QED BY <1>4, <2>2, <3>1 DEF OwnedBy
  <2> QED BY <2>1, <2>2
<1> QED BY <1>3, <1>5

\* One right is desired at a time, so a union of masks holds it exactly if one
\* of them does: the fields that survive are the granted ones.
LEMMA SurvivingIsGranted ==
  ASSUME TypeOK, NEW x \in Model, NEW f \in Field
  PROVE  f \in Surviving(desired, Checked, matrix, x) <=> Granted(x, f)
<1>1. PICK r \in Right : desired = {r}
  BY DEF TypeOK
<1>2. f \in Surviving(desired, Checked, matrix, x) <=>
        desired \subseteq FieldPerms(Checked, matrix, x, f)
  BY DEF Surviving, have_permissions
<1>3. desired \subseteq FieldPerms(Checked, matrix, x, f) <=>
        \/ desired \subseteq matrix[RoleGroup][f]
        \/ OwnedBy(Checked, x) /\ desired \subseteq matrix["owner"][f]
  BY <1>1, CheckedRoles DEF FieldPerms
<1>4. OwnedBy(Checked, x) /\ desired \subseteq matrix["owner"][f] <=>
        GrantedAsOwner(x, f)
  BY CheckedRoles DEF GrantedAsOwner
<1> QED BY <1>2, <1>3, <1>4 DEF Granted

\* move_safely hands out the view of the model and throws if nothing is in it.
LEMMA ErasedIsView ==
  ASSUME TypeOK, NEW x \in Model
  PROVE  /\ Erased(desired, Checked, matrix, x) = View(x)
         /\ View(x) \in Model
         /\ Surviving(desired, Checked, matrix, x) = {} => Hidden(x)
<1>1. \A f \in Field : f \in Surviving(desired, Checked, matrix, x) <=> Granted(x, f)
  BY SurvivingIsGranted
<1>2. Erased(desired, Checked, matrix, x) = View(x)
  BY <1>1 DEF Erased, View
<1>3. View(x) \in Model
  BY DEF View, Model
<1> QED BY <1>1, <1>2, <1>3 DEF Hidden

\* Into an empty model a row is fetched as it is.
LEMMA FetchedIsRow ==
  ASSUME m_model = EmptyModel, NEW row \in Model
  PROVE  Fetched(row) = row
  BY DEF Fetched, EmptyModel, Model, IsSet

----------------------------------------------------------------------------
(* The steps                                                               *)

LEMMA InitInv == Init => Inv
<1> SUFFICES ASSUME Init PROVE Inv
  OBVIOUS
<1>1. EmptyModel \in Model
  BY DEF EmptyModel, Model
<1>2. table \in Seq(Model) /\ model \in Model /\ (desired = {"READ"} => model = EmptyModel)
  <2>1. CASE desired = {"READ"}
    <3>1. PICK n \in 0..MaxRows : table \in [1..n -> Model]
      BY <2>1 DEF Init
    <3>2. n \in Nat
      BY AccessAssumption
    <3> QED BY <1>1, <2>1, <3>1, <3>2 DEF Init
  <2>2. CASE desired # {"READ"}
    BY <2>2 DEF Init
  <2> QED BY <2>1, <2>2
<1>3. params \in Params /\ params.group_id \in ClaimGroup
      /\ params.user_id \in User \cup {NULL} /\ params.owner_field_name = OwnerField
  BY GroupAssumption DEF Init, Params, GuestParams, UserGroup
<1>4. params \in [group_id : ClaimGroup, user_id : User \cup {NULL},
                  owner_field_name : {OwnerField, NULL}]
  BY GroupAssumption DEF Init, Params, GuestParams, UserGroup
<1>5. matrix \in Matrix
  BY DEF Init, Matrix
<1>6. TypeOK
  BY <1>2, <1>3, <1>4, <1>5 DEF Init, TypeOK
<1>7. Progress
  BY <1>2 DEF Init, Progress
<1>8. Promise
  BY <1>2 DEF Init, Promise, ReadsExactly, WritesExactly, RefusedOnlyIfHidden
<1> QED BY <1>6, <1>7, <1>8 DEF Inv

LEMMA LoadPermsInv ==
  ASSUME Inv, LoadPermsFails \/ LoadPerms
  PROVE  Inv'
<1> USE DEF inputs, Inv
<1>1. CASE LoadPermsFails
  <2>1. TypeOK' /\ Progress'
    BY <1>1 DEF LoadPermsFails, Fail, TypeOK, Progress
  <2>2. models' = << >> /\ written' = NULL /\ resp' = "db_error"
    BY <1>1 DEF LoadPermsFails, Fail, Progress
  <2>3. Promise'
    BY <2>2 DEF Promise, ReadsExactly, WritesExactly, RefusedOnlyIfHidden
  <2> QED BY <2>1, <2>3
<1>2. CASE LoadPerms
  <2>1. PICK garbage \in [UnwrittenCells -> Garbage] :
          matrix' = [g \in ClaimGroup |-> [c \in Column |->
                       IF <<g, c>> \in UnwrittenCells THEN garbage[<<g, c>>]
                                                      ELSE pt[g][c]]]
    BY <1>2 DEF LoadPerms
  <2>2. ASSUME NEW g \in ClaimGroup, NEW c \in Column, <<g, c>> \notin UnwrittenCells
        PROVE  pt[g][c] \in SUBSET Right
    <3>1. g \in DOMAIN pt /\ pt[g][c] # NULL
      BY <2>2 DEF UnwrittenCells
    <3>2. pt[g] \in [Column -> (SUBSET Right) \cup {NULL}]
      BY <3>1, AccessAssumption DEF TypeOK
    <3> QED BY <3>1, <3>2
  <2>3. Garbage \subseteq SUBSET Right
    BY AccessAssumption
  <2>4. matrix' \in Matrix
    BY <2>1, <2>2, <2>3 DEF Matrix
  <2>5. TypeOK'
    BY <1>2, <2>4 DEF LoadPerms, TypeOK
  <2>6. Progress'
    BY <1>2 DEF LoadPerms, Progress
  <2>7. models' = << >> /\ written' = NULL /\ resp' = "none"
    BY <1>2 DEF LoadPerms, Progress
  <2>8. Promise'
    BY <2>7 DEF Promise, ReadsExactly, WritesExactly, RefusedOnlyIfHidden
  <2> QED BY <2>5, <2>6, <2>8
<1> QED BY <1>1, <1>2

LEMMA CheckDeniedInv ==
  ASSUME Inv, CheckDenied
  PROVE  Inv'
<1> USE DEF inputs, Inv
<1>1. TypeOK' /\ Progress'
  BY DEF CheckDenied, Fail, TypeOK, Progress
<1>2. /\ models' = << >> /\ written' = NULL /\ resp' = "unauthorized"
      /\ UNCHANGED <<desired, params, matrix>>
  BY DEF CheckDenied, Fail, Progress
<1>3. ReadsExactly' /\ WritesExactly'
  BY <1>2 DEF ReadsExactly, WritesExactly
<1>4. params.owner_field_name # NULL
  BY AccessAssumption, FieldAssumption DEF TypeOK, Params, GuestParams
<1>5. /\ ~desired \subseteq matrix[params.group_id]["instance"]
      /\ params.user_id = NULL \/ ~desired \subseteq matrix["owner"]["instance"]
  BY <1>4 DEF CheckDenied, Progress, InstanceAllowed, have_group_perms,
              have_owner_perms, have_permissions
<1>6. RefusedOnlyIfHidden'
  BY <1>2, <1>5 DEF RefusedOnlyIfHidden
<1> QED BY <1>1, <1>3, <1>6 DEF Promise

LEMMA CheckInstanceInv ==
  ASSUME Inv, CheckInstance
  PROVE  Inv'
<1> USE DEF inputs, Inv
<1>1. /\ models' = << >> /\ written' = NULL /\ resp' = "none"
      /\ m_model' = model /\ pp' = Checked
      /\ pc' = IF desired = {"READ"} THEN "fetch" ELSE "write"
      /\ UNCHANGED <<desired, params, pt, matrix, table, model>>
  BY DEF CheckInstance, Progress, Checked
<1>2. Checked' = Checked
  BY <1>1 DEF Checked
<1>3. Checked \in [group_id : ClaimGroup, user_id : User \cup {NULL},
                   owner_field_name : {OwnerField, NULL}]
  <2>1. params.user_id \in User \cup {NULL} /\ params.owner_field_name = OwnerField
    BY DEF TypeOK, Params, GuestParams
  <2> QED BY <2>1, CheckedRoles DEF Checked, AfterInstanceCheck
<1>4. TypeOK'
  BY <1>1, <1>3 DEF TypeOK, CheckInstance
<1>5. Progress'
  <2>1. Len(models') = 0 /\ Len(table) \in Nat
    BY <1>1 DEF TypeOK
  <2> QED BY <1>1, <1>2, <2>1 DEF Progress
<1>6. Promise'
  BY <1>1 DEF Promise, ReadsExactly, WritesExactly, RefusedOnlyIfHidden
<1> QED BY <1>4, <1>5, <1>6

LEMMA FetchRowInv ==
  ASSUME Inv, FetchRow
  PROVE  Inv'
<1> USE DEF inputs, Inv
<1> DEFINE k == Len(models) + 1
           row == table[k]
<1>1. /\ pc = "fetch" /\ desired = {"READ"} /\ pp = Checked
      /\ written = NULL /\ resp = "none"
      /\ k \in 1..Len(table) /\ Len(models) \in Nat
  BY DEF FetchRow, Progress, TypeOK
<1>2. row \in Model /\ Fetched(row) = row
  BY <1>1, FetchedIsRow DEF Progress, TypeOK
<1>3. UNCHANGED <<desired, params, pt, matrix, table, model, pp, written>>
  BY DEF FetchRow
<1>4. EmptyModel \in Model
  BY DEF EmptyModel, Model
<1>5. \A x \in Model : View(x)' = View(x) /\ Hidden(x)' = Hidden(x)
  BY <1>3 DEF View, Hidden, Granted, GrantedAsOwner, RoleGroup
<1>6. CASE Surviving(desired, Checked, matrix, row) = {}
  <2>1. /\ m_model' = View(row) /\ models' = models
        /\ pc' = "done" /\ resp' = "unauthorized"
    BY <1>1, <1>2, <1>6, ErasedIsView DEF FetchRow, Fail
  <2>2. TypeOK'
    BY <1>2, <1>3, <2>1, ErasedIsView DEF TypeOK
  <2>3. Progress'
    BY <1>3, <2>1 DEF Progress
  <2>4. Hidden(row)
    BY <1>2, <1>6, ErasedIsView
  <2>5. RefusedOnlyIfHidden'
    BY <1>1, <1>2, <1>3, <1>5, <2>4 DEF RefusedOnlyIfHidden
  <2>6. \A i \in 1..Len(models) : table[i] \in Model
    BY <1>1 DEF TypeOK
  <2>7. ReadsExactly' /\ WritesExactly'
    BY <1>1, <1>3, <1>5, <2>1, <2>6 DEF Promise, ReadsExactly, WritesExactly
  <2> QED BY <2>2, <2>3, <2>5, <2>7 DEF Promise
<1>7. CASE Surviving(desired, Checked, matrix, row) # {}
  <2>1. /\ models' = Append(models, View(row)) /\ m_model' = EmptyModel
        /\ UNCHANGED <<pc, resp>>
    BY <1>1, <1>2, <1>7, ErasedIsView DEF FetchRow
  <2>2. View(row) \in Model
    BY <1>2, ErasedIsView
  <2>3. TypeOK'
    BY <1>3, <1>4, <2>1, <2>2 DEF TypeOK
  <2>4. Len(models') = k /\ models'[k] = View(row)
        /\ \A i \in 1..Len(models) : models'[i] = models[i]
    BY <2>1, <2>2 DEF TypeOK
  <2>5. Checked' = Checked
    BY <1>3 DEF Checked
  <2>6. Progress'
    BY <1>1, <1>3, <2>1, <2>4, <2>5 DEF Progress
  <2>7. \A i \in 1..k : models'[i] = View(table[i])
    BY <1>1, <2>4 DEF Promise, ReadsExactly
  <2>8. \A i \in 1..k : table[i] \in Model
    BY <1>1 DEF TypeOK
  <2>9. ReadsExactly'
    BY <1>1, <1>3, <1>5, <2>1, <2>4, <2>7, <2>8 DEF ReadsExactly
  <2>10. WritesExactly' /\ RefusedOnlyIfHidden'
    BY <1>1, <1>3, <2>1 DEF WritesExactly, RefusedOnlyIfHidden
  <2> QED BY <2>3, <2>6, <2>9, <2>10 DEF Promise
<1> QED BY <1>6, <1>7

LEMMA FetchEndInv ==
  ASSUME Inv, FetchEnd
  PROVE  Inv'
<1> USE DEF inputs, Inv
<1>1. /\ pc = "fetch" /\ Len(models) = Len(table) /\ written = NULL
      /\ pc' = "done" /\ resp' = "ok"
      /\ UNCHANGED <<desired, params, pt, matrix, table, model, pp, m_model,
                     models, written>>
  BY DEF FetchEnd, Progress
<1>2. TypeOK' /\ Progress'
  BY <1>1 DEF TypeOK, Progress
<1>3. WritesExactly' /\ RefusedOnlyIfHidden'
  BY <1>1 DEF WritesExactly, RefusedOnlyIfHidden
<1>4. ReadsExactly'
  BY <1>1 DEF Promise, ReadsExactly, View, Granted, GrantedAsOwner, RoleGroup
<1> QED BY <1>2, <1>3, <1>4 DEF Promise

LEMMA WriteRefusedInv ==
  ASSUME Inv, WriteRefused
  PROVE  Inv'
<1> USE DEF inputs, Inv
<1>1. /\ pc = "write" /\ desired # {"READ"} /\ pp = Checked /\ m_model = model
      /\ models = << >> /\ written = NULL
      /\ Surviving(desired, Checked, matrix, model) = {}
      /\ pc' = "done" /\ resp' = "unauthorized" /\ m_model' = EmptyModel
      /\ UNCHANGED <<desired, params, pt, matrix, table, model, pp, models,
                     written>>
  BY DEF WriteRefused, Fail, Progress
<1>2. EmptyModel \in Model /\ model \in Model
  BY DEF EmptyModel, Model, TypeOK
<1>3. TypeOK' /\ Progress'
  BY <1>1, <1>2 DEF TypeOK, Progress
<1>4. Hidden(model)
  BY <1>1, <1>2, ErasedIsView
<1>5. RefusedOnlyIfHidden'
  BY <1>1, <1>4 DEF RefusedOnlyIfHidden, Hidden, Granted, GrantedAsOwner, RoleGroup
<1>6. ReadsExactly' /\ WritesExactly'
  BY <1>1 DEF ReadsExactly, WritesExactly
<1> QED BY <1>3, <1>5, <1>6 DEF Promise

LEMMA WriteInv ==
  ASSUME Inv, Write
  PROVE  Inv'
<1> USE DEF inputs, Inv
<1>1. /\ pc = "write" /\ desired # {"READ"} /\ pp = Checked /\ m_model = model
      /\ models = << >> /\ written = NULL
      /\ pc' = "done" /\ m_model' = EmptyModel
      /\ UNCHANGED <<desired, params, pt, matrix, table, model, pp, models>>
  BY DEF Write, Fail, Progress
<1>2. EmptyModel \in Model /\ model \in Model
  BY DEF EmptyModel, Model, TypeOK
<1>3. Erased(desired, pp, matrix, m_model) = View(model) /\ View(model) \in Model
  BY <1>1, <1>2, ErasedIsView
<1>4. \/ written' = View(model) /\ resp' = "ok"
      \/ written' = NULL /\ resp' \in {"invalid_params", "db_error"}
  BY <1>1, <1>3 DEF Write, Fail, StatementError
<1>5. View(model)' = View(model)
  BY <1>1 DEF View, Granted, GrantedAsOwner, RoleGroup
<1>6. TypeOK' /\ Progress'
  BY <1>1, <1>2, <1>3, <1>4 DEF TypeOK, Progress
<1>7. Promise'
  BY <1>1, <1>4, <1>5 DEF Promise, ReadsExactly, WritesExactly, RefusedOnlyIfHidden
<1> QED BY <1>6, <1>7

LEMMA NextInv == Inv /\ [Next]_vars => Inv'
<1> SUFFICES ASSUME Inv, [Next]_vars PROVE Inv'
  OBVIOUS
<1>1. CASE Next
  BY <1>1, LoadPermsInv, CheckDeniedInv, CheckInstanceInv, FetchRowInv,
     FetchEndInv, WriteRefusedInv, WriteInv DEF Next
<1>2. CASE UNCHANGED vars
  <2>1. TypeOK' /\ Progress'
    BY <1>2 DEF vars, Inv, TypeOK, Progress, Checked
  <2>2. Promise'
    BY <1>2 DEF vars, Inv, Promise, ReadsExactly, WritesExactly,
       RefusedOnlyIfHidden, View, Hidden, Granted, GrantedAsOwner, RoleGroup
  <2> QED BY <2>1, <2>2 DEF Inv
<1> QED BY <1>1, <1>2

\* The types hold for every permission table and every number of rows.
THEOREM TypeTheorem == Spec => []TypeOK
  BY InitInv, NextInv, PTL DEF Spec, Inv

\* For every permission table, caller and result of the SELECT, an answer holds
\* exactly what the caller may read of each row.
THEOREM ReadsExactlyTheorem == Spec => []ReadsExactly
  BY InitInv, NextInv, PTL DEF Spec, Inv, Promise

\* For every permission table, caller and request, a statement that is executed
\* uses exactly the fields the caller has the right on.
THEOREM WritesExactlyTheorem == Spec => []WritesExactly
  BY InitInv, NextInv, PTL DEF Spec, Inv, Promise

\* For every permission table and caller, nobody is refused who has the right
\* on the instance and on a field of every row that was asked for.
THEOREM RefusalTheorem == Spec => []RefusedOnlyIfHidden
  BY InitInv, NextInv, PTL DEF Spec, Inv, Promise
=============================================================================
