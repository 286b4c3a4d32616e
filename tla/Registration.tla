---------------------------- MODULE Registration ----------------------------
(***************************************************************************)
(* POST, PUT and DELETE of /users (src/src/routes.hpp, src/src/actions.hpp)*)
(* run by the threads of the server over the table users.                  *)
(*                                                                         *)
(* A registration asks for each unique field in a SELECT of its own and    *)
(* inserts later, so handlers interleave between the check and the insert. *)
(* The table itself refuses a name, an e-mail or an id that is taken; ids  *)
(* come from AUTOINCREMENT.                                                *)
(*                                                                         *)
(* Values become part of the text of a statement as they are, so one that  *)
(* holds a quote makes another statement of it.  What that one does is not *)
(* worked out: it fails, or it leaves any table of Garbled.                *)
(*                                                                         *)
(* No login runs here, so auth_tokens does not change; AccountServer lets  *)
(* logins run beside these requests.                                       *)
(***************************************************************************)
EXTENDS Permissions, Integers

CONSTANTS Thread,            \* the threads that run handlers
          MaxId,             \* bound: the largest id the table can give
          Value,             \* values of username and email
          Invalid,           \* those that violate a constraint of their field
          Quoted,            \* values that hold a quote; free text may
          Garbled,           \* bound: the tables a statement can leave whose
                             \*   text a quote has changed
          PermGroup,         \* values of users.permission_group
          Kind,              \* the requests clients send
          Sent,              \* the bodies they send
          Failing,           \* bound: may statements fail
          Token,             \* the tokens clients hold: <<user id, group>>
          StoredTokens,      \* the rows of auth_tokens at start-up
          UsersPermissions,  \* the loaded users_permissions matrix
          InitialUsers       \* the accounts at start-up

VARIABLES users,    \* users[i]: the row with id i, or NULL
          seq,      \* the largest id ever given (sqlite_sequence)
          auth_tokens,  \* auth_tokens[i]: group claimed by the stored token
          pc,       \* the next statement of the handler on a thread
          req,      \* its request and local variables
          resp,     \* the answer it sent
          held,     \* history: unique fields whose requested value some account
                    \*   has held since the request was accepted
          raced,    \* history: those whose value was taken after their check
          faulted   \* history: a statement of this handler failed

table == <<users, seq>>
history == <<held, raced, faulted>>
vars == <<table, auth_tokens, pc, req, resp, history>>

Id == 1..MaxId

FieldValues(f) ==
  CASE f = "id" -> Id
    [] f = "permission_group" -> PermGroup
    [] OTHER -> Value \cup Invalid

\* m is a model or a row: every field has a value of its own or is not set.
IsModel(m) ==
  /\ m = [f \in Field |-> m[f]]
  /\ \A f \in Field : m[f] \in FieldValues(f) \cup {NULL}

Kinds == {"register", "modify", "delete"}

\* The fields with cnstr::Unique in the order of the model, those with
\* cnstr::Required, and what the table declares NOT NULL besides the id.
UniqueFields == <<"id", "username", "email">>
Unique == {"id", "username", "email"}
Required == {"username", "email"}

\* What the columns of the table allow.
IsTable(accounts) ==
  /\ accounts = [i \in Id |-> accounts[i]]
  /\ \A i \in Id : accounts[i] # NULL =>
       /\ IsModel(accounts[i]) /\ accounts[i]["id"] = i
       /\ \A f \in Required : accounts[i][f] # NULL
  /\ \A i, j \in Id : i # j /\ accounts[i] # NULL /\ accounts[j] # NULL =>
       \A f \in Required : accounts[i][f] # accounts[j][f]

ASSUME RegistrationAssumption ==
  /\ MaxId \in Nat
  /\ Unique \cup {"permission_group"} \subseteq Field
  /\ NULL \notin Value \cup Invalid /\ NULL \notin PermGroup /\ NULL \notin Id
  /\ NULL \notin [Field -> (UNION {FieldValues(f) : f \in Field}) \cup {NULL}]
  /\ "user" \in PermGroup /\ PermGroup \subseteq ClaimGroup
  /\ Kind \subseteq Kinds /\ Failing \in BOOLEAN
  /\ \A m \in Sent : IsModel(m)
  /\ Token \subseteq Id \X PermGroup
  /\ StoredTokens \in [Id -> PermGroup \cup {NULL}]
  /\ UsersPermissions \in Matrix
  /\ Quoted \subseteq Value /\ \A v \in Quoted : v \notin Id /\ v \notin PermGroup
  /\ IsTable(InitialUsers) /\ \A accounts \in Garbled : IsTable(accounts)

\* A request: the token it came with, the id of the URL, the model built from
\* its body; the unique fields check_uniquenes_in_db has still to ask for and
\* those it has found taken.
IsRequest(r) ==
  /\ r = [kind |-> r.kind, token |-> r.token, target |-> r.target,
          model |-> r.model, todo |-> r.todo, dup |-> r.dup]
  /\ r.kind \in Kinds
  /\ r.token \in Token \cup {NULL}
  /\ r.target \in Id \cup {NULL}
  /\ IsModel(r.model)
  /\ r.todo \subseteq Unique /\ r.dup \subseteq Unique

NoRequest == [kind |-> "register", token |-> NULL, target |-> NULL,
              model |-> EmptyModel, todo |-> {}, dup |-> {}]

Statement == {"unique", "grant", "load_perms", "exec"}

Response == {"none", "ok", "invalid_params", "invalid_token", "unauthorized",
             "db_error"}

\* The accounts that hold the value v in field f.
Holders(f, v, accounts) ==
  {i \in Id : accounts[i] # NULL /\ accounts[i][f] = v}

HeldFields(model, accounts) ==
  {f \in Unique : IsSet(model, f) /\ Holders(f, model[f], accounts) # {}}

\* Another handler is at the database, so a statement of t may fail.
Busy(t) == Failing /\ \E s \in Thread \ {t} : pc[s] \in Statement

----------------------------------------------------------------------------

\* Accounts may have been deleted before the server starts.
Init ==
  /\ users = InitialUsers
  /\ seq \in {n \in Id \cup {0} : \A i \in Id : InitialUsers[i] # NULL => i <= n}
  /\ auth_tokens = StoredTokens
  /\ pc = [t \in Thread |-> "idle"]
  /\ req = [t \in Thread |-> NoRequest]
  /\ resp = [t \in Thread |-> "none"]
  /\ held = [t \in Thread |-> {}]
  /\ raced = [t \in Thread |-> {}]
  /\ faulted = [t \in Thread |-> FALSE]

Goto(t, label) == pc' = [pc EXCEPT ![t] = label]

Respond(t, answer) ==
  /\ Goto(t, "responded")
  /\ resp' = [resp EXCEPT ![t] = answer]

Finish(t) ==
  /\ pc[t] = "responded"
  /\ Goto(t, "idle")
  /\ req' = [req EXCEPT ![t] = NoRequest]
  /\ resp' = [resp EXCEPT ![t] = "none"]
  /\ held' = [held EXCEPT ![t] = {}]
  /\ raced' = [raced EXCEPT ![t] = {}]
  /\ faulted' = [faulted EXCEPT ![t] = FALSE]
  /\ UNCHANGED table

----------------------------------------------------------------------------
(* POST, PUT and DELETE up to the session                                  *)

Unsatisfied(model) == {f \in Field : model[f] \in Invalid}
Missing(model) == {f \in Required : ~IsSet(model, f)}

AfterToken(token) == IF token = NULL THEN "load_perms" ELSE "grant"

\* Every constraint counts for a registration.
StartRegister(t, model, token) ==
  /\ pc[t] = "idle"
  /\ IF Unsatisfied(model) \cup Missing(model) = {}
     THEN Goto(t, "unique") /\ UNCHANGED resp
     ELSE Respond(t, "invalid_params")
  /\ req' = [req EXCEPT ![t] =
               [NoRequest EXCEPT !.token = token, !.model = model,
                                 !.todo = {f \in Unique : IsSet(model, f)}]]
  /\ held' = [held EXCEPT ![t] = HeldFields(model, users)]
  /\ UNCHANGED <<table, raced, faulted>>

\* Faulty variant: the id of the body, if there is one, is kept.
StartModifyBodyId(t, target, model, token) ==
  /\ pc[t] = "idle"
  /\ IF Unsatisfied(model) = {}
     THEN Goto(t, AfterToken(token)) /\ UNCHANGED resp
     ELSE Respond(t, "invalid_params")
  /\ req' = [req EXCEPT ![t] =
               [NoRequest EXCEPT !.kind = "modify", !.token = token,
                                 !.target = target,
                                 !.model = IF IsSet(model, "id") THEN model
                                           ELSE [model EXCEPT !["id"] = target]]]
  /\ UNCHANGED <<table, history>>

\* For a modification Required does not count, and the id is the URL's.
StartModify(t, target, model, token) ==
  /\ pc[t] = "idle"
  /\ IF Unsatisfied(model) = {}
     THEN Goto(t, AfterToken(token)) /\ UNCHANGED resp
     ELSE Respond(t, "invalid_params")
  /\ req' = [req EXCEPT ![t] =
               [NoRequest EXCEPT !.kind = "modify", !.token = token,
                                 !.target = target,
                                 !.model = [model EXCEPT !["id"] = target]]]
  /\ UNCHANGED <<table, history>>

StartDelete(t, target, token) ==
  /\ pc[t] = "idle"
  /\ Goto(t, AfterToken(token))
  /\ req' = [req EXCEPT ![t] =
               [NoRequest EXCEPT !.kind = "delete", !.token = token,
                                 !.target = target,
                                 !.model = [EmptyModel EXCEPT !["id"] = target]]]
  /\ UNCHANGED <<table, resp, history>>

Start(t, token) ==
  \/ /\ "register" \in Kind
     /\ \E model \in Sent : StartRegister(t, model, token)
  \/ /\ "modify" \in Kind
     /\ \E target \in Id, model \in Sent : StartModify(t, target, model, token)
  \/ /\ "delete" \in Kind
     /\ \E target \in Id : StartDelete(t, target, token)

----------------------------------------------------------------------------
(* check_uniquenes_in_db                                                   *)

\* The first field that is still to be asked for.
Before(f, g) ==
  \E m, n \in DOMAIN UniqueFields :
    UniqueFields[m] = f /\ UniqueFields[n] = g /\ m <= n

\* Faulty variant: the iterator over the names of the fields lags behind.
CheckUniqueLagging(t) ==
  /\ pc[t] = "unique"
  /\ \E f \in req[t].todo :
       /\ \A g \in req[t].todo : Before(f, g)
       /\ req' = [req EXCEPT ![t].todo = @ \ {f},
                             ![t].dup =
                                IF Holders("username", req[t].model[f], users) # {}
                                THEN @ \cup {f} ELSE @]
  /\ UNCHANGED <<table, pc, resp, history>>

\* SELECT COUNT(asterisk) FROM users WHERE f = ..., for one field that is set.
CheckUnique(t) ==
  /\ pc[t] = "unique"
  /\ \E f \in req[t].todo :
       /\ \A g \in req[t].todo : Before(f, g)
       /\ req[t].model[f] \notin Quoted
       /\ req' = [req EXCEPT ![t].todo = @ \ {f},
                             ![t].dup =
                                IF Holders(f, req[t].model[f], users) # {}
                                THEN @ \cup {f} ELSE @]
  /\ UNCHANGED <<table, pc, resp, history>>

\* The same SELECT with a quote in the value: it fails or counts anything.
CheckUniqueSpliced(t) ==
  /\ pc[t] = "unique"
  /\ \E f \in req[t].todo :
       /\ \A g \in req[t].todo : Before(f, g)
       /\ req[t].model[f] \in Quoted
       /\ \/ Respond(t, "db_error") /\ UNCHANGED req
          \/ /\ \E found \in SUBSET {f} :
                  req' = [req EXCEPT ![t].todo = @ \ {f}, ![t].dup = @ \cup found]
             /\ UNCHANGED <<pc, resp>>
  /\ UNCHANGED <<table, history>>

\* Faulty variant: the group of the body is kept.
CheckDoneKeepsGroup(t) ==
  /\ pc[t] = "unique"
  /\ req[t].todo = {}
  /\ IF req[t].dup = {}
     THEN Goto(t, AfterToken(req[t].token)) /\ UNCHANGED resp
     ELSE Respond(t, "invalid_params")
  /\ UNCHANGED <<table, req, history>>

\* Faulty variant: the group is set to the caller's, "guest" without a token.
CheckDoneCallersGroup(t) ==
  /\ pc[t] = "unique"
  /\ req[t].todo = {}
  /\ IF req[t].dup = {}
     THEN /\ Goto(t, AfterToken(req[t].token))
          /\ req' = [req EXCEPT ![t].model["permission_group"] =
                                   IF req[t].token = NULL THEN "guest"
                                   ELSE req[t].token[2]]
          /\ UNCHANGED resp
     ELSE Respond(t, "invalid_params") /\ UNCHANGED req
  /\ UNCHANGED <<table, history>>

\* Duplicates end the request; otherwise the route sets the group.
CheckDone(t) ==
  /\ pc[t] = "unique"
  /\ req[t].todo = {}
  /\ IF req[t].dup = {}
     THEN /\ Goto(t, AfterToken(req[t].token))
          /\ req' = [req EXCEPT ![t].model["permission_group"] = "user"]
          /\ UNCHANGED resp
     ELSE Respond(t, "invalid_params") /\ UNCHANGED req
  /\ UNCHANGED <<table, history>>

----------------------------------------------------------------------------
(* AuthorizedModelAccess                                                   *)

\* The token sent must be the one stored for the user it names.
Grant(t) ==
  /\ pc[t] = "grant"
  /\ IF auth_tokens[req[t].token[1]] = req[t].token[2]
     THEN Goto(t, "load_perms") /\ UNCHANGED resp
     ELSE Respond(t, "invalid_token")
  /\ UNCHANGED <<table, req, history>>

GrantedParams(t) ==
  IF req[t].token = NULL THEN GuestParams("id")
  ELSE [group_id |-> req[t].token[2], user_id |-> req[t].token[1],
        owner_field_name |-> "id"]

Desired(t) ==
  CASE req[t].kind = "register" -> {"CREATE"}
    [] req[t].kind = "modify" -> {"UPDATE"}
    [] req[t].kind = "delete" -> {"DELETE"}

EffectiveParams(t) ==
  AfterInstanceCheck(Desired(t), GrantedParams(t), UsersPermissions)

\* What move_safely leaves of the model, and whether it throws instead.
AuthorizedModel(t) ==
  Erased(Desired(t), EffectiveParams(t), UsersPermissions, req[t].model)

NothingSurvives(t) ==
  Surviving(Desired(t), EffectiveParams(t), UsersPermissions, req[t].model) = {}

\* Why the handler gives up before its statement; an INSERT may have no fields.
Refusal(t) ==
  CASE ~InstanceAllowed(Desired(t), GrantedParams(t), UsersPermissions) -> "unauthorized"
    [] OTHER ->
         IF NothingSurvives(t) THEN "unauthorized"
         ELSE IF req[t].kind # "register" /\ AuthorizedModel(t) = EmptyModel
              THEN "invalid_params"
         ELSE "none"

LoadPerms(t) ==
  /\ pc[t] = "load_perms"
  /\ IF Refusal(t) = "none" THEN Goto(t, "exec") /\ UNCHANGED resp
                            ELSE Respond(t, Refusal(t))
  /\ UNCHANGED <<table, req, history>>

----------------------------------------------------------------------------
(* The statement on the table                                              *)

\* The table refuses the row: a column without a value, or a name or e-mail
\* that another account has.
Rejected(row, i) ==
  \E f \in Required :
    ~IsSet(row, f) \/ \E j \in Id \ {i} : j \in Holders(f, row[f], users)

\* The history variables after the statement of t; pc of t is still "exec".
Observe(t) ==
  LET now(s) == HeldFields(req[s].model, users')
  IN  /\ held' = [s \in Thread |->
                    IF req[s].kind = "register" /\ pc[s] # "idle" /\ s # t
                    THEN held[s] \cup now(s) ELSE held[s]]
      /\ raced' = [s \in Thread |->
                    IF req[s].kind = "register" /\ pc[s] # "idle" /\ s # t
                    THEN raced[s] \cup ((now(s) \ HeldFields(req[s].model, users))
                                        \ req[s].todo)
                    ELSE raced[s]]
      /\ UNCHANGED <<req, faulted>>

\* Faulty variant: ids without AUTOINCREMENT, the smallest that is free.
ExecInsertReusesId(t) ==
  LET row == AuthorizedModel(t)
  IN  /\ pc[t] = "exec"
      /\ req[t].kind = "register"
      /\ \E i \in Id :
           /\ users[i] = NULL /\ \A j \in Id : users[j] = NULL => i <= j
           /\ IF Rejected(row, i)
              THEN Respond(t, "db_error") /\ UNCHANGED <<table, history, req>>
              ELSE /\ users' = [users EXCEPT ![i] = [row EXCEPT !["id"] = i]]
                   /\ seq' = IF i > seq THEN i ELSE seq
                   /\ Respond(t, "ok")
                   /\ Observe(t)

\* The text of the statement holds a value with a quote; ids hold none.
Spliced(t) == \E f \in Field : AuthorizedModel(t)[f] \in Quoted

\* An INSERT or UPDATE of such a text.  Bound: it gives no row an id above
\* sqlite_sequence, which an UPDATE would not raise.
ExecSpliced(t) ==
  /\ pc[t] = "exec"
  /\ Spliced(t)
  /\ \/ Respond(t, "db_error") /\ UNCHANGED <<table, history, req>>
     \/ /\ users' \in Garbled
        /\ seq' \in {n \in Id \cup {0} :
                     seq <= n /\ \A i \in Id : users'[i] # NULL => i <= n}
        /\ Respond(t, "ok")
        /\ Observe(t)

\* INSERT INTO users; without an id the table gives the next one.
ExecInsert(t) ==
  LET row == AuthorizedModel(t)
      i == IF IsSet(row, "id") THEN row["id"] ELSE seq + 1
  IN  /\ pc[t] = "exec"
      /\ req[t].kind = "register" /\ ~Spliced(t)
      /\ IF i > MaxId \/ (i \in Id /\ users[i] # NULL) \/ Rejected(row, i)
         THEN Respond(t, "db_error") /\ UNCHANGED <<table, history, req>>
         ELSE /\ users' = [users EXCEPT ![i] = [row EXCEPT !["id"] = i]]
              /\ seq' = IF i > seq THEN i ELSE seq
              /\ Respond(t, "ok")
              /\ Observe(t)

\* The row of the target with the fields of the model that are set.
Updated(t) ==
  [f \in Field |-> IF IsSet(AuthorizedModel(t), f) THEN AuthorizedModel(t)[f]
                   ELSE users[req[t].target][f]]

\* UPDATE users SET ... WHERE id = target; no row, no error.
ExecUpdate(t) ==
  LET i == req[t].target
  IN  /\ pc[t] = "exec"
      /\ req[t].kind = "modify" /\ ~Spliced(t)
      /\ IF users[i] # NULL /\ Rejected(Updated(t), i)
         THEN Respond(t, "db_error") /\ UNCHANGED <<table, history, req>>
         ELSE /\ users' = IF users[i] = NULL THEN users
                          ELSE [users EXCEPT ![i] = Updated(t)]
              /\ Respond(t, "ok")
              /\ Observe(t)
              /\ UNCHANGED seq

\* DELETE FROM users WHERE id = target.
ExecDelete(t) ==
  /\ pc[t] = "exec"
  /\ req[t].kind = "delete"
  /\ users' = [users EXCEPT ![req[t].target] = NULL]
  /\ Respond(t, "ok")
  /\ Observe(t)
  /\ UNCHANGED seq

StatementFails(t) ==
  /\ Busy(t)
  /\ pc[t] \in Statement
  /\ pc[t] = "unique" => req[t].todo # {}
  /\ Respond(t, "db_error")
  /\ faulted' = [faulted EXCEPT ![t] = TRUE]
  /\ UNCHANGED <<table, req, held, raced>>

----------------------------------------------------------------------------

Handle(t) ==
  \/ CheckUnique(t) \/ CheckUniqueSpliced(t) \/ CheckDone(t)
  \/ Grant(t) \/ LoadPerms(t)
  \/ ExecInsert(t) \/ ExecUpdate(t) \/ ExecDelete(t) \/ ExecSpliced(t)

Next ==
  /\ \E t \in Thread :
       \/ \E token \in Token \cup {NULL} : Start(t, token)
       \/ Handle(t) \/ StatementFails(t) \/ Finish(t)
  /\ UNCHANGED auth_tokens

Spec == Init /\ [][Next]_vars

----------------------------------------------------------------------------
(* Properties                                                              *)

\* The accounts keep their ids and stay below seq; the types of the handlers.
StateOK ==
  /\ users = [i \in Id |-> users[i]]
  /\ \A i \in Id : users[i] # NULL =>
       IsModel(users[i]) /\ users[i]["id"] = i /\ i <= seq
  /\ seq \in Id \cup {0}
  /\ pc \in [Thread -> Statement \cup {"idle", "responded"}]
  /\ req = [t \in Thread |-> req[t]] /\ \A t \in Thread : IsRequest(req[t])
  /\ resp \in [Thread -> Response]
  /\ held \in [Thread -> SUBSET Unique]
  /\ raced \in [Thread -> SUBSET Unique]
  /\ faulted \in [Thread -> BOOLEAN]

\* The type invariant.
TypeOK == StateOK /\ auth_tokens \in [Id -> PermGroup \cup {NULL}]

Quotes(model) == \E f \in Field : model[f] \in Quoted

\* A registration without quotes names as duplicates only fields whose value
\* some account held while it was running; and it fails at its INSERT only if a
\* statement fails, ids have run out, or another handler took a value after
\* this one had checked it (check_uniquenes_in_db and the POST /users route).
FailsOnlyIfTaken ==
  \A t \in Thread :
    pc[t] = "responded" /\ req[t].kind = "register" /\ ~Quotes(req[t].model) =>
      /\ req[t].dup \subseteq held[t]
      /\ resp[t] = "db_error" => \/ faulted[t] \/ seq = MaxId
                                 \/ raced[t] # {}

\* The step is an INSERT or UPDATE whose text a quote has changed.
ByQuote == \E t \in Thread : pc[t] = "exec" /\ Spliced(t) /\ resp'[t] = "ok"

\* Unless a value with a quote makes another statement of an INSERT or UPDATE,
\* a new account has an id no account ever had, although a body may name one,
\* the group "user", whatever group the body names and the caller has, and the
\* name and the e-mail of a registration that is answered with success.
NewAccounts ==
  [][\A i \in Id : users[i] = NULL /\ users'[i] # NULL =>
       \/ ByQuote
       \/ /\ i > seq
          /\ users'[i]["permission_group"] = "user"
          /\ \E t \in Thread :
               /\ pc[t] = "exec" /\ req[t].kind = "register" /\ resp'[t] = "ok"
               /\ \A f \in Required : users'[i][f] = req[t].model[f]]_vars

\* What the theorems assume of the permission table.  A caller who has lost its
\* group keeps nothing; nobody but the table gives an id to a new account, an
\* owner creates nothing, and who may set a field of a new account may set its
\* group and what is required.
NothingForOther == \A f \in Field : UsersPermissions["other"][f] = {}

RightsOnNewAccounts ==
  /\ "CREATE" \notin UsersPermissions["owner"]["instance"]
  /\ \A g \in ClaimGroup :
       /\ "CREATE" \notin UsersPermissions[g]["id"]
       /\ (\E f \in Field : "CREATE" \in UsersPermissions[g][f]) =>
            \A f \in Required \cup {"permission_group"} :
              "CREATE" \in UsersPermissions[g][f]

\* The caller of t has the right on field f of account i, by its group or by
\* owning the account, on the instance and on the field.
HasRight(t, right, f, i) ==
  LET m == UsersPermissions
      group == IF req[t].token = NULL THEN "guest" ELSE req[t].token[2]
  IN  \/ right \in m[group]["instance"] \cap m[group][f]
      \/ /\ req[t].token # NULL
         /\ req[t].token[1] = i
         /\ right \in m["owner"]["instance"] \cap m["owner"][f]

\* Unless a value with a quote makes another statement of an INSERT or UPDATE,
\* an account changes only by a request for it, in the fields its sender has
\* the right on, and to the values it sent: a body that names another account
\* gives no right on this one (PUT and DELETE /users/id).
AccountsChangeByRight ==
  [][\A i \in Id : users[i] # NULL /\ users'[i] # users[i] =>
       \/ ByQuote
       \/ \E t \in Thread :
            /\ pc[t] = "exec" /\ req[t].target = i /\ resp'[t] = "ok"
            /\ IF users'[i] = NULL
               THEN req[t].kind = "delete" /\ HasRight(t, "DELETE", "id", i)
               ELSE /\ req[t].kind = "modify"
                    /\ \A f \in Field : users'[i][f] # users[i][f] =>
                         /\ HasRight(t, "UPDATE", f, i)
                         /\ users'[i][f] = req[t].model[f]]_vars

\* How the clients see the threads: what they have asked for, and how far
\* that is.
Asking(kind, target, fields) ==
  [kind |-> kind, target |-> target, fields |-> fields]

AsUser(model) == [model EXCEPT !["permission_group"] = "user"]

Asked ==
  [t \in Thread |->
     IF pc[t] = "idle" THEN NoRequest
     ELSE Asking(req[t].kind, req[t].target,
                 IF req[t].kind = "register" THEN AsUser(req[t].model)
                                             ELSE req[t].model)]

Progress ==
  [t \in Thread |->
     CASE pc[t] = "idle" -> "idle"
       [] pc[t] = "responded" -> IF resp[t] = "ok" THEN "done" ELSE "refused"
       [] OTHER -> "pending"]

Asks ==
  {Asking("register", NULL, AsUser(m)) : m \in Sent}
    \cup {Asking("modify", i, [m EXCEPT !["id"] = i]) : m \in Sent, i \in Id}
    \cup {Asking("delete", i, [EmptyModel EXCEPT !["id"] = i]) : i \in Id}

Directory ==
  INSTANCE UserDirectory
    WITH Client <- Thread, UniqueKey <- Required, Ask <- Asks, NoAsk <- NoRequest,
         accounts <- users, last <- seq, state <- Progress, ask <- Asked

\* The routes keep the promise of UserDirectory: for all the SELECTs, checks
\* and refusals between them, every request takes effect at one moment or not
\* at all (POST, PUT and DELETE of /users).
ImplementsDirectory == Directory!Spec
=============================================================================
