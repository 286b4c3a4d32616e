--------------------------- MODULE DirectoryProofs ---------------------------
(***************************************************************************)
(* Proof that Registration implements UserDirectory, for any number of     *)
(* threads and accounts: every step of a handler is a step of the          *)
(* directory or nothing the clients can see.                               *)
(***************************************************************************)
EXTENDS RegistrationProofs

dvars == <<users, seq, Progress, Asked>>

----------------------------------------------------------------------------
(* What the clients see of one handler's step                              *)

OthersStay(t) ==
  \A s \in Thread \ {t} :
    req'[s] = req[s] /\ pc'[s] = pc[s] /\ resp'[s] = resp[s]

LEMMA Seen ==
  ASSUME NEW t \in Thread, OthersStay(t)
  PROVE  /\ Progress' = [Progress EXCEPT ![t] = Progress'[t]]
         /\ Asked' = [Asked EXCEPT ![t] = Asked'[t]]
  BY DEF OthersStay, Progress, Asked

\* The group a body names is not part of what is asked for.
LEMMA SameAsUser ==
  ASSUME NEW m, IsModel(m)
  PROVE  AsUser([m EXCEPT !["permission_group"] = "user"]) = AsUser(m)
  BY DEF AsUser, IsModel

\* A handler that goes on with what it was asked.
LEMMA UnseenStep ==
  ASSUME TInv, NEW t \in Thread, pc[t] \in Statement, pc'[t] \in Statement,
         UNCHANGED table, OthersStay(t), Asked'[t] = Asked[t]
  PROVE  UNCHANGED dvars
<1>1. Progress'[t] = Progress[t]
  BY DEF Progress, Statement
<1>2. Progress' = [Progress EXCEPT ![t] = Progress[t]]
      /\ Asked' = [Asked EXCEPT ![t] = Asked[t]]
  BY <1>1, Seen
<1>3. Progress' = Progress /\ Asked' = Asked
  BY <1>2 DEF Progress, Asked
<1> QED BY <1>3 DEF dvars, table

\* A handler that answers.
LEMMA AnswerSeen ==
  ASSUME TInv, NEW t \in Thread, NEW answer \in Response, pc[t] \in Statement,
         Respond(t, answer), req' = req
  PROVE  Directory!Answer(t, IF answer = "ok" THEN "done" ELSE "refused")
<1>1. OthersStay(t) /\ pc'[t] = "responded" /\ resp'[t] = answer
  BY DEF Respond, Goto, OthersStay, TInv, StateOK
<1>2. Progress[t] = "pending"
  BY DEF Progress, Statement
<1>3. Progress'[t] = (IF answer = "ok" THEN "done" ELSE "refused")
  BY <1>1 DEF Progress
<1>4. Asked'[t] = Asked[t]
  BY <1>1 DEF Asked, Statement
<1>5. Asked' = Asked
  BY <1>1, <1>4, Seen DEF Asked
<1> QED BY <1>1, <1>2, <1>3, <1>5, Seen DEF Directory!Answer

LEMMA RefuseStep ==
  ASSUME TInv, NEW t \in Thread, NEW answer \in Response \ {"ok"},
         pc[t] \in Statement, Respond(t, answer), UNCHANGED <<table, req>>
  PROVE  Directory!Next
<1>1. Directory!Answer(t, "refused")
  BY AnswerSeen
<1> QED BY <1>1 DEF Directory!Next, Directory!Refuse, table

\* A handler that takes a request up, or refuses it at once.
LEMMA CallStep ==
  ASSUME TInv, NEW t \in Thread, pc[t] = "idle", OthersStay(t), UNCHANGED table,
         Asked'[t] \in Asks,
         \/ pc'[t] \in Statement
         \/ pc'[t] = "responded" /\ resp'[t] = "invalid_params"
  PROVE  Directory!Next
<1>1. Progress[t] = "idle" /\ Progress'[t] \in {"pending", "refused"}
  BY DEF Progress, Statement
<1>2. Directory!Invoke(t) \/ Directory!Reject(t)
  BY <1>1, Seen DEF Directory!Invoke, Directory!Reject, Directory!Call, table
<1> QED BY <1>2 DEF Directory!Next

\* A handler whose answer is out.
LEMMA ReturnStep ==
  ASSUME TInv, NEW t \in Thread, Finish(t)
  PROVE  Directory!Next
<1>1. OthersStay(t) /\ pc'[t] = "idle" /\ pc[t] = "responded"
  BY DEF Finish, Goto, OthersStay, TInv, StateOK
<1>2. Progress[t] \in {"done", "refused"} /\ Progress'[t] = "idle"
      /\ Asked'[t] = NoRequest
  BY <1>1 DEF Progress, Asked
<1>3. Directory!Return(t)
  BY <1>1, <1>2, Seen DEF Directory!Return, Finish, table
<1> QED BY <1>3 DEF Directory!Next

----------------------------------------------------------------------------
(* The requests                                                            *)

\* What is asked for when a handler starts.
LEMMA StartStep ==
  ASSUME TInv, NEW t \in Thread, NEW token \in Token \cup {NULL}, Start(t, token)
  PROVE  Directory!Next
<1>1. ASSUME NEW model \in Sent, StartRegister(t, model, token)
      PROVE  Directory!Next
  <2>1. /\ OthersStay(t) /\ pc[t] = "idle" /\ UNCHANGED table
        /\ \/ pc'[t] = "unique"
           \/ pc'[t] = "responded" /\ resp'[t] = "invalid_params"
    BY <1>1 DEF StartRegister, Respond, Goto, OthersStay, TInv, StateOK
  <2>2. req'[t].kind = "register" /\ req'[t].target = NULL /\ req'[t].model = model
    BY <1>1 DEF StartRegister, NoRequest, TInv, StateOK
  <2>3. Asked'[t] = Asking("register", NULL, AsUser(model))
    BY <2>1, <2>2 DEF Asked
  <2> QED BY <2>1, <2>3, CallStep DEF Asks, Statement
<1>2. ASSUME NEW target \in Id, NEW model \in Sent,
             StartModify(t, target, model, token)
      PROVE  Directory!Next
  <2>1. /\ OthersStay(t) /\ pc[t] = "idle" /\ UNCHANGED table
        /\ \/ pc'[t] = AfterToken(token)
           \/ pc'[t] = "responded" /\ resp'[t] = "invalid_params"
    BY <1>2 DEF StartModify, Respond, Goto, OthersStay, TInv, StateOK
  <2>2. /\ req'[t].kind = "modify" /\ req'[t].target = target
        /\ req'[t].model = [model EXCEPT !["id"] = target]
    BY <1>2 DEF StartModify, NoRequest, TInv, StateOK
  <2>3. AfterToken(token) \in Statement
    BY AfterTokenType DEF Statement
  <2>4. pc'[t] # "idle"
    BY <2>1, <2>3 DEF Statement
  <2>5. Asked'[t] = Asking("modify", target, [model EXCEPT !["id"] = target])
    BY <2>2, <2>4 DEF Asked
  <2> QED BY <2>1, <2>3, <2>5, CallStep DEF Asks
<1>3. ASSUME NEW target \in Id, StartDelete(t, target, token)
      PROVE  Directory!Next
  <2>1. /\ OthersStay(t) /\ pc[t] = "idle" /\ UNCHANGED table
        /\ pc'[t] = AfterToken(token)
    BY <1>3 DEF StartDelete, Goto, OthersStay, TInv, StateOK
  <2>2. /\ req'[t].kind = "delete" /\ req'[t].target = target
        /\ req'[t].model = [EmptyModel EXCEPT !["id"] = target]
    BY <1>3 DEF StartDelete, NoRequest, TInv, StateOK
  <2>3. AfterToken(token) \in Statement
    BY AfterTokenType DEF Statement
  <2>4. pc'[t] # "idle"
    BY <2>1, <2>3 DEF Statement
  <2>5. Asked'[t] = Asking("delete", target, [EmptyModel EXCEPT !["id"] = target])
    BY <2>2, <2>4 DEF Asked
  <2> QED BY <2>1, <2>3, <2>5, CallStep DEF Asks
<1> QED BY <1>1, <1>2, <1>3 DEF Start

\* The SELECTs of the uniqueness check are not seen.
LEMMA CheckUniqueStep ==
  ASSUME TInv, NEW t \in Thread, CheckUnique(t)
  PROVE  UNCHANGED dvars
<1>1. /\ OthersStay(t) /\ pc[t] = "unique" /\ pc'[t] = "unique"
      /\ UNCHANGED table
  BY DEF CheckUnique, OthersStay, TInv, StateOK
<1>2. IsRequest(req[t])
  BY DEF TInv, StateOK
<1>3. /\ req'[t].kind = req[t].kind /\ req'[t].target = req[t].target
      /\ req'[t].model = req[t].model
  <2>1. PICK f \in req[t].todo :
          req' = [req EXCEPT ![t].todo = @ \ {f},
                             ![t].dup = IF Holders(f, req[t].model[f], users) # {}
                                        THEN @ \cup {f} ELSE @]
    BY DEF CheckUnique
  <2> DEFINE dup == IF Holders(f, req[t].model[f], users) # {}
                    THEN req[t].dup \cup {f} ELSE req[t].dup
             todo == req[t].todo \ {f}
             e == [req[t] EXCEPT !.todo = todo, !.dup = dup]
  <2>2. req' = [req EXCEPT ![t] = e]
    BY <2>1 DEF TInv, StateOK
  <2> HIDE DEF dup, todo
  <2>3. e \in [kind : {req[t].kind}, token : {req[t].token},
               target : {req[t].target}, model : {req[t].model},
               todo : {todo}, dup : {dup}]
    BY <1>2 DEF IsRequest
  <2> HIDE DEF e
  <2>4. e.kind = req[t].kind /\ e.target = req[t].target /\ e.model = req[t].model
    BY <2>3
  <2> QED BY <2>2, <2>4 DEF TInv, StateOK
<1>4. Asked'[t] = Asked[t]
  BY <1>1, <1>3 DEF Asked
<1> QED BY <1>1, <1>4, UnseenStep DEF Statement

LEMMA CheckUniqueSplicedStep ==
  ASSUME TInv, NEW t \in Thread, CheckUniqueSpliced(t)
  PROVE  Directory!Next \/ UNCHANGED dvars
<1>1. pc[t] = "unique" /\ UNCHANGED <<table, history>>
  BY DEF CheckUniqueSpliced
<1>2. CASE Respond(t, "db_error") /\ UNCHANGED req
  BY <1>1, <1>2, RefuseStep DEF Response, Statement
<1>3. ASSUME NEW f \in req[t].todo, NEW found \in SUBSET {f},
             req' = [req EXCEPT ![t].todo = @ \ {f}, ![t].dup = @ \cup found],
             UNCHANGED <<pc, resp>>
      PROVE  UNCHANGED dvars
  <2>1. OthersStay(t) /\ pc'[t] = "unique"
    BY <1>1, <1>3 DEF OthersStay, TInv, StateOK
  <2>2. req[t] = [kind |-> req[t].kind, token |-> req[t].token,
                  target |-> req[t].target, model |-> req[t].model,
                  todo |-> req[t].todo, dup |-> req[t].dup]
    BY DEF TInv, StateOK, IsRequest
  <2>3. /\ req'[t].kind = req[t].kind /\ req'[t].target = req[t].target
        /\ req'[t].model = req[t].model
    BY <1>3, <2>2 DEF TInv, StateOK
  <2>4. Asked'[t] = Asked[t]
    BY <1>1, <2>1, <2>3 DEF Asked
  <2> QED BY <1>1, <2>1, <2>4, UnseenStep DEF Statement
<1> QED BY <1>2, <1>3 DEF CheckUniqueSpliced

LEMMA CheckDoneStep ==
  ASSUME TInv, NEW t \in Thread, CheckDone(t)
  PROVE  Directory!Next \/ UNCHANGED dvars
<1>1. pc[t] = "unique" /\ UNCHANGED <<table, history>>
  BY DEF CheckDone
<1>2. CASE Respond(t, "invalid_params") /\ UNCHANGED req
  BY <1>1, <1>2, RefuseStep DEF Response, Statement
<1>3. CASE /\ Goto(t, AfterToken(req[t].token))
           /\ req' = [req EXCEPT ![t].model["permission_group"] = "user"]
           /\ UNCHANGED resp
  <2>1. IsRequest(req[t]) /\ IsModel(req[t].model) /\ req[t].kind = "register"
    BY <1>1 DEF TInv, StateOK, IsRequest, LocalsOK, RequestOK
  <2>2. AfterToken(req[t].token) \in {"grant", "load_perms"}
    BY AfterTokenType
  <2>3. OthersStay(t) /\ pc'[t] = AfterToken(req[t].token)
    BY <1>3 DEF Goto, OthersStay, TInv, StateOK
  <2>4. /\ req'[t].kind = req[t].kind /\ req'[t].target = req[t].target
        /\ req'[t].model = [req[t].model EXCEPT !["permission_group"] = "user"]
    BY <1>3, <2>1 DEF IsRequest, TInv, StateOK
  <2>5. AsUser(req'[t].model) = AsUser(req[t].model)
    BY <2>1, <2>4, SameAsUser
  <2>6. Asked'[t] = Asked[t]
    BY <1>1, <2>1, <2>2, <2>3, <2>4, <2>5 DEF Asked
  <2> QED BY <1>1, <2>2, <2>3, <2>6, UnseenStep DEF Statement
<1> QED BY <1>2, <1>3 DEF CheckDone

\* Neither are the token and the permissions, unless they end the request.
LEMMA AccessStep ==
  ASSUME TInv, NEW t \in Thread, Grant(t) \/ LoadPerms(t)
  PROVE  Directory!Next \/ UNCHANGED dvars
<1>1. pc[t] \in {"grant", "load_perms"} /\ UNCHANGED <<table, req, history>>
  BY DEF Grant, LoadPerms
<1>2. ASSUME NEW answer \in {"invalid_token", "unauthorized", "invalid_params"},
             Respond(t, answer)
      PROVE  Directory!Next
  BY <1>1, <1>2, RefuseStep DEF Response, Statement
<1>3. ASSUME NEW label \in {"load_perms", "exec"}, Goto(t, label), UNCHANGED resp
      PROVE  UNCHANGED dvars
  <2>1. OthersStay(t) /\ pc'[t] = label
    BY <1>1, <1>3 DEF Goto, OthersStay, TInv, StateOK
  <2>2. Asked'[t] = Asked[t]
    BY <1>1, <2>1 DEF Asked
  <2> QED BY <1>1, <2>1, <2>2, UnseenStep DEF Statement
<1> QED BY <1>2, <1>3, RefusalType DEF Grant, LoadPerms

----------------------------------------------------------------------------
(* The statements                                                          *)

\* Two accounts have no name and no e-mail in common: what the table refuses is
\* what the directory has no room for.
LEMMA RoomFor ==
  ASSUME NEW row, NEW i \in Id, ~Rejected(row, i), NEW m,
         \A f \in Required : m[f] = row[f]
  PROVE  Directory!Free(m, i)
  BY DEF Rejected, Holders, Directory!Free

LEMMA InsertStep ==
  ASSUME TInv, RightsOnNewAccounts, NEW t \in Thread, ExecInsert(t)
  PROVE  Directory!Next
<1>1. pc[t] = "exec" /\ req[t].kind = "register"
  BY DEF ExecInsert
<1>2. CASE resp'[t] = "db_error"
  <2>1. Respond(t, "db_error") /\ UNCHANGED <<table, req>>
    BY <1>2 DEF ExecInsert, Respond, TInv, StateOK
  <2> QED BY <1>1, <2>1, RefuseStep DEF Response, Statement
<1>3. CASE resp'[t] # "db_error"
  <2> DEFINE row == AuthorizedModel(t)
             given == {f \in Field : IsSet(row, f)}
             m(i) == [f \in Field |-> CASE f = "id" -> i
                                      [] f = "permission_group" -> "user"
                                      [] OTHER -> IF f \in given
                                                  THEN Asked[t].fields[f] ELSE NULL]
  <2>1. /\ ~IsSet(row, "id")
        /\ \A f \in Required \cup {"permission_group"} : row[f] = req[t].model[f]
    BY <1>1, RegisteredFields
  <2>2. PICK i \in Id :
          /\ i = seq + 1
          /\ users[i] = NULL
          /\ \A f \in Required : IsSet(row, f)
          /\ users' = [users EXCEPT ![i] = [row EXCEPT !["id"] = i]]
          /\ seq' = IF i > seq THEN i ELSE seq
          /\ Respond(t, "ok") /\ Observe(t)
    BY <1>3, <2>1, Inserted
  <2>3. req' = req
    BY DEF ExecInsert, Observe
  <2>4. Directory!Answer(t, "done")
    BY <1>1, <2>2, <2>3, AnswerSeen DEF Response, Statement
  <2>5. /\ Asked[t].kind = "register"
        /\ Asked[t].fields = AsUser(req[t].model)
    BY <1>1 DEF Asked, Asking
  <2>6. i > seq /\ seq' = i
    BY <2>2, Constant DEF TInv, StateOK, Id
  <2>7. req[t].model["permission_group"] = "user"
    BY <1>1 DEF TInv, LocalsOK, RequestOK
  <2>8. IsModel(row) /\ \A f \in Field : IsSet(row, f) => row[f] = req[t].model[f]
    BY AuthorizedIsModel
  <2>9. \A f \in Field \ {"permission_group"} :
          Asked[t].fields[f] = req[t].model[f]
    BY <2>5 DEF AsUser, TInv, StateOK, IsRequest, IsModel
  <2>10. [row EXCEPT !["id"] = i] = m(i)
    <3>1. \A f \in Field : [row EXCEPT !["id"] = i][f] = m(i)[f]
      <4> TAKE f \in Field
      <4>1. CASE f = "id"
        BY <2>8, <4>1 DEF IsModel
      <4>2. CASE f = "permission_group"
        BY <2>1, <2>7, <2>8, <4>2 DEF IsModel
      <4>3. CASE f \notin {"id", "permission_group"}
        <5>1. [row EXCEPT !["id"] = i][f] = row[f]
          BY <2>8, <4>3 DEF IsModel
        <5>2. m(i)[f] = IF IsSet(row, f) THEN req[t].model[f] ELSE NULL
          BY <2>9, <4>3
        <5> QED BY <2>8, <5>1, <5>2 DEF IsSet
      <4> QED BY <4>1, <4>2, <4>3
    <3>2. [row EXCEPT !["id"] = i] = [f \in Field |-> [row EXCEPT !["id"] = i][f]]
      BY <2>8 DEF IsModel
    <3> QED BY <3>1, <3>2
  <2>11. \A f \in Required : m(i)[f] = row[f] /\ m(i)[f] # NULL
    <3>1. \A f \in Required : f \in Field /\ f # "id"
      BY Constant DEF Required
    <3>2. \A f \in Required : [row EXCEPT !["id"] = i][f] = row[f]
      BY <2>8, <3>1 DEF IsModel
    <3> QED BY <2>2, <2>10, <3>2 DEF IsSet
  <2>12. ~Rejected(row, i)
    BY <1>3, <2>1, <2>2 DEF ExecInsert, Respond, TInv, StateOK
  <2> HIDE DEF m, row
  <2>13. Directory!Free(m(i), i)
    BY <2>11, <2>12, RoomFor
  <2>14. users' = [users EXCEPT ![i] = m(i)]
    BY <2>2, <2>10
  <2>15. given \in SUBSET Field
    OBVIOUS
  <2> HIDE DEF given
  <2>16. Directory!Register(t)
    BY <2>2, <2>4, <2>5, <2>6, <2>11, <2>13, <2>14, <2>15
    DEF Directory!Register, m
  <2> QED BY <2>16 DEF Directory!Next
<1> QED BY <1>2, <1>3

LEMMA UpdateStep ==
  ASSUME TInv, NEW t \in Thread, ExecUpdate(t)
  PROVE  Directory!Next
<1> DEFINE i == req[t].target
<1>1. pc[t] = "exec" /\ req[t].kind = "modify" /\ i \in Id
  BY DEF ExecUpdate, TInv, LocalsOK, RequestOK
<1>2. CASE Respond(t, "db_error") /\ UNCHANGED <<table, history, req>>
  BY <1>1, <1>2, RefuseStep DEF Response, Statement
<1>3. CASE /\ ~(users[i] # NULL /\ Rejected(Updated(t), i))
           /\ users' = IF users[i] = NULL THEN users
                       ELSE [users EXCEPT ![i] = Updated(t)]
           /\ Respond(t, "ok") /\ Observe(t) /\ UNCHANGED seq
  <2>1. req' = req
    BY <1>3 DEF Observe
  <2>2. Directory!Answer(t, "done")
    BY <1>1, <1>3, <2>1, AnswerSeen DEF Response, Statement
  <2>3. /\ Asked[t].kind = "modify" /\ Asked[t].target = i
        /\ Asked[t].fields = req[t].model
    BY <1>1 DEF Asked, Asking
  <2>4. CASE users[i] = NULL
    <3>1. Directory!ModifyNothing(t)
      BY <1>3, <2>2, <2>3, <2>4 DEF Directory!ModifyNothing
    <3> QED BY <3>1 DEF Directory!Next
  <2>5. CASE users[i] # NULL
    <3> DEFINE row == AuthorizedModel(t)
               written == {f \in Field : IsSet(row, f)}
               m == [f \in Field |-> IF f \in written THEN Asked[t].fields[f]
                                     ELSE users[i][f]]
    <3>1. \A f \in Field : IsSet(row, f) => row[f] = req[t].model[f]
      BY AuthorizedIsModel
    <3>2. Updated(t) = m
      BY <2>3, <3>1 DEF Updated
    <3>3. \A f \in written : Asked[t].fields[f] # NULL
      BY <2>3, <3>1 DEF IsSet
    <3>4. written \in SUBSET {f \in Field : Asked[t].fields[f] # NULL}
      BY <3>3
    <3> HIDE DEF written
    <3>5. Directory!Free(m, i)
      BY <1>1, <1>3, <2>5, <3>2, RoomFor
    <3>6. users' = [users EXCEPT ![i] = m]
      BY <1>3, <2>5, <3>2
    <3>7. Directory!Modify(t)
      BY <1>3, <2>2, <2>3, <2>5, <3>4, <3>5, <3>6 DEF Directory!Modify
    <3> QED BY <3>7 DEF Directory!Next
  <2> QED BY <2>4, <2>5
<1> QED BY <1>2, <1>3 DEF ExecUpdate

LEMMA DeleteStep ==
  ASSUME TInv, NEW t \in Thread, ExecDelete(t)
  PROVE  Directory!Next
<1>1. pc[t] = "exec" /\ req[t].kind = "delete" /\ req' = req
  BY DEF ExecDelete, Observe
<1>2. Directory!Answer(t, "done")
  BY <1>1, AnswerSeen DEF ExecDelete, Response, Statement
<1>3. Asked[t].kind = "delete" /\ Asked[t].target = req[t].target
  BY <1>1 DEF Asked, Asking
<1>4. Directory!Delete(t)
  BY <1>2, <1>3 DEF Directory!Delete, ExecDelete
<1> QED BY <1>4 DEF Directory!Next

\* A table has no two accounts with a name or an e-mail in common.
LEMMA TableIsUnique ==
  ASSUME NEW accounts, IsTable(accounts), NEW i \in Id, accounts[i] # NULL,
         NEW f \in Required, NEW j \in Id \ {i}, accounts[j] # NULL
  PROVE  accounts[j][f] # accounts[i][f]
  BY DEF IsTable

\* What a quote makes of a statement is what the directory allows such a request.
LEMMA SplicedStep ==
  ASSUME TInv, NEW t \in Thread, ExecSpliced(t)
  PROVE  Directory!Next
<1>1. pc[t] = "exec" /\ Spliced(t)
  BY DEF ExecSpliced
<1>2. CASE Respond(t, "db_error") /\ UNCHANGED <<table, history, req>>
  BY <1>1, <1>2, RefuseStep DEF Response, Statement
<1>3. CASE /\ users' \in Garbled
           /\ seq' \in {n \in Id \cup {0} :
                        seq <= n /\ \A i \in Id : users'[i] # NULL => i <= n}
           /\ Respond(t, "ok") /\ Observe(t)
  <2>1. IsTable(users')
    BY <1>3, RegistrationAssumption
  <2>2. Directory!UniqueAccounts'
    BY <2>1, TableIsUnique DEF Directory!UniqueAccounts, Directory!Free
  <2>3. req' = req
    BY <1>3 DEF Observe
  <2>4. Directory!Answer(t, "done")
    BY <1>1, <1>3, <2>3, AnswerSeen DEF Response, Statement
  <2>5. PICK f \in Field : req[t].model[f] \in Quoted
    BY <1>1, SplicedQuotes DEF Quotes
  <2>6. \E g \in Field : Asked[t].fields[g] \in Quoted
    <3>1. Asked[t].fields = IF req[t].kind = "register" THEN AsUser(req[t].model)
                                                        ELSE req[t].model
      BY <1>1 DEF Asked, Asking
    <3>2. IsModel(req[t].model)
      BY DEF TInv, StateOK, IsRequest
    <3>3. req[t].model["permission_group"] \in PermGroup \cup {NULL}
      BY <3>2, Constant DEF IsModel, FieldValues
    <3>4. f # "permission_group"
      BY <2>5, <3>3, Constant
    <3>5. AsUser(req[t].model)[f] = req[t].model[f]
      BY <3>2, <3>4 DEF AsUser, IsModel
    <3> QED BY <2>5, <3>1, <3>5
  <2>7. users' = [i \in Id |-> users'[i]]
    BY <2>1 DEF IsTable
  <2>8. Directory!Garble(t)
    BY <1>3, <2>2, <2>4, <2>6, <2>7 DEF Directory!Garble
  <2> QED BY <2>8 DEF Directory!Next
<1> QED BY <1>2, <1>3 DEF ExecSpliced

LEMMA FailStep ==
  ASSUME TInv, NEW t \in Thread, StatementFails(t)
  PROVE  Directory!Next
  BY RefuseStep DEF StatementFails, Response

----------------------------------------------------------------------------

LEMMA InitDirectory ==
  ASSUME Init
  PROVE  Directory!Init
<1>1. users = InitialUsers /\ \A i \in Id : users[i] # NULL => i <= seq
  BY DEF Init
<1>2. Directory!UniqueAccounts
  BY <1>1, RegistrationAssumption, TableIsUnique
  DEF Directory!UniqueAccounts, Directory!Free
<1>3. /\ Progress = [t \in Thread |-> "idle"]
      /\ Asked = [t \in Thread |-> NoRequest]
  BY DEF Init, Progress, Asked
<1> QED BY <1>1, <1>2, <1>3 DEF Directory!Init

LEMMA NextDirectory ==
  ASSUME RightsOnNewAccounts, TInv, [Next]_vars
  PROVE  [Directory!Next]_dvars
<1>1. ASSUME NEW t \in Thread, Handle(t)
      PROVE  Directory!Next \/ UNCHANGED dvars
  BY <1>1, CheckUniqueStep, CheckUniqueSplicedStep, CheckDoneStep, AccessStep,
     InsertStep, UpdateStep, DeleteStep, SplicedStep DEF Handle
<1>2. CASE UNCHANGED vars
  BY <1>2 DEF vars, table, dvars, Progress, Asked
<1> QED BY <1>1, <1>2, StartStep, FailStep, ReturnStep DEF Next

\* In every execution the /users routes do what the directory promises, if the
\* permission table lets nobody choose an id and gives who may make an account
\* the right on what is required.
THEOREM ImplementsDirectoryTheorem ==
  ASSUME RightsOnNewAccounts
  PROVE  Spec => ImplementsDirectory
<1>1. Init => Directory!Init
  BY InitDirectory
<1>2. TInv /\ [Next]_vars => [Directory!Next]_(Directory!vars)
  BY NextDirectory DEF dvars, Directory!vars
<1> QED
  BY InitTInv, NextTInv, <1>1, <1>2, PTL
  DEF Spec, ImplementsDirectory, Directory!Spec
=============================================================================
