--------------------------- MODULE LoginSessions ---------------------------
(***************************************************************************)
(* The life of authentication tokens: login (src/src/actions.hpp), the     *)
(* check of a bearer token (grant_permission_params_from_auth_token in     *)
(* src/src/user.hpp) and the /users routes a bearer can call, run by the   *)
(* threads of the server over one SQLite database.                         *)
(*                                                                         *)
(* Every SQL statement runs in its own transaction, so a handler is a      *)
(* sequence of atomic statements and the statements of different handlers  *)
(* interleave.  No busy timeout is set: while another handler is at the    *)
(* database a statement may fail at once with a soci_error.  The process   *)
(* may stop between any two statements.                                    *)
(*                                                                         *)
(* A token is the signature over the claims user_id and group_id and       *)
(* nothing else, so it is a function of the two: the row (u, token) of     *)
(* auth_tokens is modelled by auth_tokens[u] = the group the token claims. *)
(*                                                                         *)
(* Values become part of the text of a statement as they are.  Here names  *)
(* hold no quote, and a PUT sends the group and nothing else; what a quote *)
(* in another field of a PUT can do is in Registration.                    *)
(***************************************************************************)
EXTENDS Permissions, FiniteSets

CONSTANTS Thread,            \* the threads that run handlers
          User,              \* user ids
          PermGroup,         \* values of users.permission_group
          Kind,              \* the requests clients send
          Failing,           \* bound: may statements fail and the process stop
          UsersPermissions,  \* the loaded users_permissions matrix
          InitialGroup       \* permission_group of the accounts at start-up,
                             \*   NULL for an id without an account

VARIABLES users,           \* users[u]: permission_group of the row, or NULL
          auth_tokens,     \* auth_tokens[u]: group claimed by the token, or NULL
          refresh_tokens,  \* refresh_tokens[u]: is there a row for u
          pc,              \* the next statement of the handler on a thread
          req,             \* its request and local variables
          resp,            \* the answer it sent
          issued,          \* tokens that have been sent to clients
          lost,            \* history: a login of u ended between its DELETE
                           \*   FROM and its INSERT INTO auth_tokens
          disturbed,       \* history: the account or its token was changed by
                           \*   another handler while this one relied on it
          faulted          \* history: a statement of this handler failed

tables == <<users, auth_tokens, refresh_tokens>>
history == <<issued, lost, disturbed, faulted>>
vars == <<tables, pc, req, resp, history>>

RequestKind == {"login", "get", "set_group", "delete"}

ASSUME SessionAssumption ==
  /\ PermGroup \subseteq ClaimGroup
  /\ NULL \notin User
  /\ {"id", "email", "permission_group"} \subseteq Field
  /\ Kind \subseteq RequestKind
  /\ Failing \in BOOLEAN
  /\ UsersPermissions \in Matrix
  /\ InitialGroup \in [User -> PermGroup \cup {NULL}]

LoginStatement == {"select", "del_auth", "ins_auth", "del_refresh", "ins_refresh"}
BearerStatement == {"grant", "load_perms", "exec"}
Statement == LoginStatement \cup BearerStatement

\* A request: the account that logs in or that the bearer token names (NULL
\* when no token is sent), the group_id claim of the token or, for a login,
\* the group the SELECT read; the account in the URL and the new group in the
\* body; whether the password sent is the right one.
Request == [kind : RequestKind, user : User \cup {NULL},
            group : ClaimGroup \cup {NULL}, target : User \cup {NULL},
            newgroup : PermGroup \cup {NULL}, password_ok : BOOLEAN]

NoRequest == [kind |-> "login", user |-> NULL, group |-> NULL,
              target |-> NULL, newgroup |-> NULL, password_ok |-> FALSE]

Response == {"none", "ok", "invalid_params", "invalid_token", "unauthorized",
             "not_found", "db_error"}

InLogin(t, u) ==
  /\ pc[t] \in LoginStatement \cup {"responded"}
  /\ req[t].kind = "login"
  /\ req[t].user = u

\* Threads whose bearer token for u has passed the check.
PastGrant(t, u) ==
  /\ pc[t] \in {"load_perms", "exec"}
  /\ req[t].kind # "login"
  /\ req[t].user = u

AtDatabase(t) == pc[t] \in Statement

\* Another handler is at the database, so a statement of t may fail.
Busy(t) == Failing /\ \E s \in Thread \ {t} : AtDatabase(s)

----------------------------------------------------------------------------

\* The users S are logged in when the server starts.
Init ==
  /\ users = InitialGroup
  /\ \E S \in SUBSET {u \in User : InitialGroup[u] # NULL} :
       /\ auth_tokens = [u \in User |-> IF u \in S THEN users[u] ELSE NULL]
       /\ refresh_tokens = [u \in User |-> u \in S]
       /\ issued = {<<u, users[u]>> : u \in S}
  /\ pc = [t \in Thread |-> "idle"]
  /\ req = [t \in Thread |-> NoRequest]
  /\ resp = [t \in Thread |-> "none"]
  /\ lost = [u \in User |-> FALSE]
  /\ disturbed = [t \in Thread |-> FALSE]
  /\ faulted = [t \in Thread |-> FALSE]

Goto(t, label) == pc' = [pc EXCEPT ![t] = label]

Respond(t, answer) ==
  /\ Goto(t, "responded")
  /\ resp' = [resp EXCEPT ![t] = answer]

\* The handler sends its answer and its thread takes the next request.
Finish(t) ==
  /\ pc[t] = "responded"
  /\ Goto(t, "idle")
  /\ req' = [req EXCEPT ![t] = NoRequest]
  /\ resp' = [resp EXCEPT ![t] = "none"]
  /\ disturbed' = [disturbed EXCEPT ![t] = FALSE]
  /\ faulted' = [faulted EXCEPT ![t] = FALSE]
  /\ UNCHANGED <<tables, issued, lost>>

----------------------------------------------------------------------------
(* POST /login                                                             *)

StartLogin(t, u, password_ok) ==
  /\ pc[t] = "idle"
  /\ "login" \in Kind
  /\ Goto(t, "select")
  /\ req' = [req EXCEPT ![t] =
               [NoRequest EXCEPT !.user = u, !.password_ok = password_ok]]
  /\ disturbed' = [s \in Thread |->
                   IF s = t THEN \E r \in Thread \ {t} : InLogin(r, u)
                            ELSE disturbed[s] \/ InLogin(s, u)]
  /\ UNCHANGED <<tables, resp, issued, lost, faulted>>

\* A request that carries a bearer token is told it is already logged in.
LoginWithToken(t) ==
  /\ pc[t] = "idle"
  /\ "login" \in Kind
  /\ Respond(t, "unauthorized")
  /\ UNCHANGED <<tables, req, history>>

\* Faulty variant: the user id is put into the claim group_id.
LoginSelectSwapped(t) ==
  /\ pc[t] = "select"
  /\ users[req[t].user] # NULL /\ req[t].password_ok
  /\ Goto(t, "del_auth")
  /\ req' = [req EXCEPT ![t].group = req[t].user]
  /\ UNCHANGED <<tables, resp, history>>

\* Faulty variant: a token that is stored keeps what it claims.
LoginSelectKeepsClaim(t) ==
  LET u == req[t].user
  IN  /\ pc[t] = "select"
      /\ IF users[u] # NULL /\ req[t].password_ok
         THEN /\ Goto(t, "del_auth")
              /\ req' = [req EXCEPT ![t].group =
                           IF auth_tokens[u] = NULL THEN users[u] ELSE auth_tokens[u]]
              /\ UNCHANGED resp
         ELSE /\ Respond(t, "invalid_params")
              /\ UNCHANGED req
      /\ UNCHANGED <<tables, history>>

\* SELECT and the comparison of the passwords.  With no row for the name the
\* code compares with the storage of an empty optional, which is undefined: the
\* comparison fails, or the process stops (Crash).
LoginSelect(t) ==
  LET u == req[t].user
  IN  /\ pc[t] = "select"
      /\ IF users[u] # NULL /\ req[t].password_ok
         THEN /\ Goto(t, "del_auth")
              /\ req' = [req EXCEPT ![t].group = users[u]]
              /\ UNCHANGED resp
         ELSE /\ Respond(t, "invalid_params")
              /\ UNCHANGED req
      /\ UNCHANGED <<tables, history>>

\* Faulty variant: the old token is left in place.
LoginKeepsAuth(t) ==
  /\ pc[t] = "del_auth"
  /\ Goto(t, "ins_auth")
  /\ UNCHANGED <<tables, req, resp, history>>

LoginDeleteAuth(t) ==
  /\ pc[t] = "del_auth"
  /\ auth_tokens' = [auth_tokens EXCEPT ![req[t].user] = NULL]
  /\ Goto(t, "ins_auth")
  /\ disturbed' = [s \in Thread |-> disturbed[s] \/ PastGrant(s, req[t].user)]
  /\ UNCHANGED <<users, refresh_tokens, req, resp, issued, lost, faulted>>

\* user_id is the primary key of auth_tokens.
LoginInsertAuth(t) ==
  LET u == req[t].user
  IN  /\ pc[t] = "ins_auth"
      /\ IF auth_tokens[u] = NULL
         THEN /\ auth_tokens' = [auth_tokens EXCEPT ![u] = req[t].group]
              /\ lost' = [lost EXCEPT ![u] = FALSE]
              /\ Goto(t, "del_refresh")
              /\ UNCHANGED resp
         ELSE /\ Respond(t, "db_error")
              /\ UNCHANGED <<auth_tokens, lost>>
      /\ UNCHANGED <<users, refresh_tokens, req, issued, disturbed, faulted>>

\* Faulty variant: both DELETEs name auth_tokens.
LoginDeletesAuthTwice(t) ==
  /\ pc[t] = "del_refresh"
  /\ auth_tokens' = [auth_tokens EXCEPT ![req[t].user] = NULL]
  /\ Goto(t, "ins_refresh")
  /\ UNCHANGED <<users, refresh_tokens, req, resp, history>>

LoginDeleteRefresh(t) ==
  /\ pc[t] = "del_refresh"
  /\ refresh_tokens' = [refresh_tokens EXCEPT ![req[t].user] = FALSE]
  /\ Goto(t, "ins_refresh")
  /\ UNCHANGED <<users, auth_tokens, req, resp, history>>

LoginInsertRefresh(t) ==
  LET u == req[t].user
  IN  /\ pc[t] = "ins_refresh"
      /\ IF ~refresh_tokens[u]
         THEN /\ refresh_tokens' = [refresh_tokens EXCEPT ![u] = TRUE]
              /\ issued' = issued \cup {<<u, req[t].group>>}
              /\ Respond(t, "ok")
         ELSE /\ Respond(t, "db_error")
              /\ UNCHANGED <<refresh_tokens, issued>>
      /\ UNCHANGED <<users, auth_tokens, req, lost, disturbed, faulted>>

\* The two DELETEs of login are in a try block that ignores every soci_error.
DeleteFailureIgnored(t) ==
  /\ Busy(t)
  /\ \/ pc[t] = "del_auth" /\ Goto(t, "ins_auth")
     \/ pc[t] = "del_refresh" /\ Goto(t, "ins_refresh")
  /\ faulted' = [faulted EXCEPT ![t] = TRUE]
  /\ UNCHANGED <<tables, req, resp, issued, lost, disturbed>>

----------------------------------------------------------------------------
(* Requests with or without a bearer token                                 *)

StartRequest(t, kind, token, target, newgroup) ==
  /\ pc[t] = "idle"
  /\ kind \in Kind \ {"login"}
  /\ Goto(t, IF token = NULL THEN "load_perms" ELSE "grant")
  /\ req' = [req EXCEPT ![t] =
               [kind |-> kind,
                user |-> IF token = NULL THEN NULL ELSE token[1],
                group |-> IF token = NULL THEN NULL ELSE token[2],
                target |-> target, newgroup |-> newgroup,
                password_ok |-> FALSE]]
  /\ UNCHANGED <<tables, resp, history>>

Start(t) ==
  \/ \E u \in User, password_ok \in BOOLEAN : StartLogin(t, u, password_ok)
  \/ issued # {} /\ LoginWithToken(t)
  \/ \E token \in issued \cup {NULL}, target \in User :
       \/ \E kind \in {"get", "delete"} :
            StartRequest(t, kind, token, target, NULL)
       \/ \E newgroup \in PermGroup :
            StartRequest(t, "set_group", token, target, newgroup)

\* Faulty variant: a token that was once issued is enough.
GrantAnyIssued(t) ==
  /\ pc[t] = "grant"
  /\ Goto(t, "load_perms")
  /\ UNCHANGED <<tables, req, resp, history>>

\* grant_permission_params_from_auth_token: the token sent must be the one
\* stored for the user it names.
Grant(t) ==
  /\ pc[t] = "grant"
  /\ IF auth_tokens[req[t].user] = req[t].group
     THEN Goto(t, "load_perms") /\ UNCHANGED resp
     ELSE Respond(t, "invalid_token")
  /\ UNCHANGED <<tables, req, history>>

GrantedParams(t) ==
  IF req[t].user = NULL THEN GuestParams("id")
  ELSE [group_id |-> req[t].group, user_id |-> req[t].user,
        owner_field_name |-> "id"]

Desired(kind) ==
  CASE kind = "get" -> {"READ"}
    [] kind = "set_group" -> {"UPDATE"}
    [] kind = "delete" -> {"DELETE"}

\* The model the route builds: the id of the URL and, for PUT, the body.
RequestModel(t) ==
  [f \in Field |->
     CASE f = "id" -> req[t].target
       [] f = "permission_group" -> req[t].newgroup
       [] OTHER -> NULL]

\* m_permission_params once the constructor is done.
EffectiveParams(t) ==
  AfterInstanceCheck(Desired(req[t].kind), GrantedParams(t), UsersPermissions)

\* What move_safely leaves of the model, and when it throws instead.
AuthorizedModel(t) ==
  Erased(Desired(req[t].kind), EffectiveParams(t), UsersPermissions,
         RequestModel(t))

NothingSurvives(t) ==
  Surviving(Desired(req[t].kind), EffectiveParams(t), UsersPermissions,
            RequestModel(t)) = {}

\* Why the handler gives up before its statement.  A GET erases row by row,
\* after its SELECT.
Refusal(t) ==
  LET kind == req[t].kind
  IN  CASE ~InstanceAllowed(Desired(kind), GrantedParams(t), UsersPermissions) ->
             "unauthorized"
        [] OTHER ->
             IF kind = "get" THEN "none"
             ELSE IF NothingSurvives(t) THEN "unauthorized"
             ELSE IF AuthorizedModel(t) = EmptyModel THEN "invalid_params"
             ELSE "none"

\* load_perms_from_db, check_instance_permissions and, for the writing
\* requests, everything up to the statement.
LoadPerms(t) ==
  /\ pc[t] = "load_perms"
  /\ IF Refusal(t) = "none" THEN Goto(t, "exec") /\ UNCHANGED resp
                            ELSE Respond(t, Refusal(t))
  /\ UNCHANGED <<tables, req, history>>

\* SELECT * FROM users WHERE id = ...
ExecGet(t) ==
  /\ pc[t] = "exec"
  /\ req[t].kind = "get"
  /\ Respond(t, IF users[req[t].target] = NULL THEN "not_found"
                ELSE IF NothingSurvives(t) THEN "unauthorized"
                ELSE "ok")
  /\ UNCHANGED <<tables, req, history>>

\* UPDATE users SET ... WHERE id = ...
ExecSetGroup(t) ==
  LET u == req[t].target
      model == AuthorizedModel(t)
  IN  /\ pc[t] = "exec"
      /\ req[t].kind = "set_group"
      /\ IF users[u] # NULL /\ IsSet(model, "permission_group")
         THEN /\ users' = [users EXCEPT ![u] = model["permission_group"]]
              /\ disturbed' = [s \in Thread |-> disturbed[s] \/ InLogin(s, u)]
         ELSE UNCHANGED <<users, disturbed>>
      /\ Respond(t, "ok")
      /\ UNCHANGED <<auth_tokens, refresh_tokens, req, issued, lost, faulted>>

\* DELETE FROM users WHERE id = ...  Neither token table is touched and the
\* foreign keys are not enforced.
ExecDelete(t) ==
  LET u == req[t].target
  IN  /\ pc[t] = "exec"
      /\ req[t].kind = "delete"
      /\ users' = [users EXCEPT ![u] = NULL]
      /\ disturbed' = [s \in Thread |-> disturbed[s] \/ InLogin(s, u)]
      /\ Respond(t, "ok")
      /\ UNCHANGED <<auth_tokens, refresh_tokens, req, issued, lost, faulted>>

----------------------------------------------------------------------------
(* Failures                                                                *)

\* Every other statement's soci_error reaches the handler's catch clause.
StatementFails(t) ==
  /\ Busy(t)
  /\ pc[t] \in Statement \ {"del_auth", "del_refresh"}
  /\ Respond(t, "db_error")
  /\ faulted' = [faulted EXCEPT ![t] = TRUE]
  /\ lost' = IF pc[t] = "ins_auth" THEN [lost EXCEPT ![req[t].user] = TRUE]
                                   ELSE lost
  /\ UNCHANGED <<tables, req, issued, disturbed>>

\* The process stops and is started again on the same database.
Crash ==
  /\ Failing
  /\ \E t \in Thread : pc[t] # "idle"
  /\ lost' = [u \in User |-> \/ lost[u]
                             \/ \E t \in Thread : /\ pc[t] = "ins_auth"
                                                  /\ req[t].user = u]
  /\ pc' = [t \in Thread |-> "idle"]
  /\ req' = [t \in Thread |-> NoRequest]
  /\ resp' = [t \in Thread |-> "none"]
  /\ disturbed' = [t \in Thread |-> FALSE]
  /\ faulted' = [t \in Thread |-> FALSE]
  /\ UNCHANGED <<tables, issued>>

----------------------------------------------------------------------------

Login(t) ==
  \/ LoginSelect(t)
  \/ LoginDeleteAuth(t) \/ LoginInsertAuth(t)
  \/ LoginDeleteRefresh(t) \/ LoginInsertRefresh(t)
  \/ DeleteFailureIgnored(t)

Bearer(t) ==
  Grant(t) \/ LoadPerms(t) \/ ExecGet(t) \/ ExecSetGroup(t) \/ ExecDelete(t)

Next ==
  \/ \E t \in Thread : \/ Start(t) \/ Login(t) \/ Bearer(t)
                       \/ StatementFails(t) \/ Finish(t)
  \/ Crash

Spec == Init /\ [][Next]_vars

----------------------------------------------------------------------------
(* Properties                                                              *)

\* The type invariant of the tables and of the handlers' local variables.
TypeOK ==
  /\ users \in [User -> PermGroup \cup {NULL}]
  /\ auth_tokens \in [User -> PermGroup \cup {NULL}]
  /\ refresh_tokens \in [User -> BOOLEAN]
  /\ pc \in [Thread -> Statement \cup {"idle", "responded"}]
  /\ req \in [Thread -> Request]
  /\ resp \in [Thread -> Response]
  /\ issued \subseteq User \X PermGroup
  /\ lost \in [User -> BOOLEAN]
  /\ disturbed \in [Thread -> BOOLEAN]
  /\ faulted \in [Thread -> BOOLEAN]

\* A user who was ever handed a token has a row in auth_tokens, except while a
\* login of that user stands between its DELETE and its INSERT, or after one
\* was cut off right there by a failed statement or a crash.  Any number of
\* concurrent logins of the user leave the row in place (actions.hpp, login).
TokenKept ==
  \A u \in User :
    (\E g \in PermGroup : <<u, g>> \in issued) /\ auth_tokens[u] = NULL =>
      \/ lost[u]
      \/ \E t \in Thread : pc[t] = "ins_auth" /\ req[t].user = u

\* A login during which nobody else logs the user in, regroups or deletes the
\* account succeeds unless a statement of it fails, whatever earlier logins
\* that were cut off have left in the tables; and the token it answers with is
\* the stored one and claims the group the account has now.
UndisturbedLogin ==
  \A t \in Thread :
    LET u == req[t].user
    IN  pc[t] = "responded" /\ u \in User /\ InLogin(t, u) /\ ~disturbed[t] =>
          /\ resp[t] = "ok" => /\ auth_tokens[u] = users[u]
                               /\ auth_tokens[u] = req[t].group
                               /\ refresh_tokens[u]
          /\ resp[t] = "db_error" => faulted[t]

\* The bearer token a handler relies on when its statement runs.
ByAuthority(t) ==
  /\ pc[t] = "exec"
  /\ <<req[t].user, req[t].group>> \in issued
  /\ auth_tokens[req[t].user] = req[t].group \/ disturbed[t]

\* An account is regrouped only by a bearer of an admin's token and deleted
\* only by a bearer of its own, and that token is the stored one at the very
\* moment of the statement unless a login of the bearer removed it after the
\* check; a deleted account stays deleted.
AccountsChangeByAuthority ==
  [][\A u \in User : users'[u] # users[u] =>
       /\ users[u] # NULL
       /\ \E t \in Thread :
            /\ ByAuthority(t)
            /\ IF users'[u] = NULL THEN req[t].user = u
                                   ELSE req[t].group = "admin"]_vars

\* Of the roles a request can have, only admin may update permission_group
\* and only the owner of the account may delete by id, as in db.sqlite.
RightsOnAccounts ==
  /\ "owner" \notin PermGroup
  /\ \A g \in {"other", "owner"} : "UPDATE" \notin UsersPermissions[g]["permission_group"]
  /\ \A g \in {"guest"} \cup (PermGroup \ {"admin"}) :
       "UPDATE" \notin UsersPermissions[g]["instance"]
                        \cap UsersPermissions[g]["permission_group"]
  /\ \A g \in {"guest", "other"} \cup PermGroup :
       "DELETE" \notin UsersPermissions[g]["id"]

\* What db.sqlite declares: FOREIGN KEY("user_id") REFERENCES "users"("id").
TokensHaveAccounts ==
  \A u \in User : auth_tokens[u] # NULL => users[u] # NULL
=============================================================================
