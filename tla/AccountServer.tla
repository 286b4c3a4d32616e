--------------------------- MODULE AccountServer ---------------------------
(***************************************************************************)
(* The requests for accounts and the logins on one database: some threads  *)
(* run POST, PUT and DELETE of /users (Registration), others POST /login   *)
(* (LoginSessions), over the tables users, auth_tokens and refresh_tokens. *)
(* The tokens clients send are those that logins have handed out.          *)
(*                                                                         *)
(* What a login reads and a deletion removes is the same row; what a login *)
(* stores and a bearer's request is checked against is the same row; and a *)
(* row of the token tables outlives the account it is named after.         *)
(***************************************************************************)
EXTENDS Registration

CONSTANT LoginThread  \* the threads that run logins; Thread are the others

\* The requests can carry every token that a login can hand out.
ASSUME ServerAssumption == Id \X PermGroup \subseteq Token

\* The variables of LoginSessions that Registration has not.
VARIABLES refresh_tokens, issued, lost, disturbed,
          login_pc, login_req, login_resp, login_faulted

VARIABLE seen  \* history: the groups the account of a login has had since the
               \*   login began

loginHandlers == <<login_pc, login_req, login_resp, login_faulted>>
loginVars == <<refresh_tokens, issued, lost, disturbed, loginHandlers, seen>>
serverVars == <<vars, loginVars>>

\* What login and the tokens know of an account.
Groups(accounts) ==
  [i \in Id |-> IF accounts[i] = NULL THEN NULL
                ELSE accounts[i]["permission_group"]]

Sessions ==
  INSTANCE LoginSessions
    WITH Thread <- LoginThread, User <- Id, Kind <- {"login"},
         InitialGroup <- Groups(InitialUsers), users <- Groups(users),
         pc <- login_pc, req <- login_req, resp <- login_resp,
         faulted <- login_faulted

ServerInit == Init /\ Sessions!Init /\ seen = [s \in LoginThread |-> {}]

\* Logins read the accounts, so changing one disturbs its logins.
RequestStep(t) ==
  /\ \/ \E token \in issued \cup {NULL} : Start(t, token)
     \/ Handle(t) \/ StatementFails(t) \/ Finish(t)
  /\ disturbed' = [s \in LoginThread |->
                     \/ disturbed[s]
                     \/ \E i \in Id : /\ Groups(users')[i] # Groups(users)[i]
                                      /\ Sessions!InLogin(s, i)]
  /\ seen' = [s \in LoginThread |->
                IF login_pc[s] = "idle" THEN {}
                ELSE seen[s] \cup ({Groups(users')[login_req[s].user]} \ {NULL})]
  /\ UNCHANGED <<auth_tokens, refresh_tokens, issued, lost, loginHandlers>>

LoginStep(s) ==
  /\ UNCHANGED <<table, pc, req, resp, history>>
  /\ \/ \E i \in Id, password_ok \in BOOLEAN :
          /\ Sessions!StartLogin(s, i, password_ok)
          /\ seen' = [seen EXCEPT ![s] = {Groups(users)[i]} \ {NULL}]
     \/ /\ Sessions!Login(s) \/ Sessions!StatementFails(s)
        /\ UNCHANGED seen
     \/ /\ Sessions!Finish(s)
        /\ seen' = [seen EXCEPT ![s] = {}]

ServerNext ==
  \/ \E t \in Thread : RequestStep(t)
  \/ \E s \in LoginThread : LoginStep(s)

ServerSpec == ServerInit /\ [][ServerNext]_serverVars

----------------------------------------------------------------------------
(* Properties                                                              *)

\* A new account comes without any token: none is stored or handed out that
\* names it, and no login that is under way will store one.  A login that has
\* read an account stores its token even if the account is deleted meanwhile,
\* and DELETE /users/id leaves the token tables alone, so this rests on ids
\* never being used again; a statement that a quote has changed may do that.
NewAccountsInheritNothing ==
  [][\A i \in Id : users[i] = NULL /\ users'[i] # NULL =>
       \/ ByQuote
       \/ /\ auth_tokens[i] = NULL /\ ~refresh_tokens[i]
          /\ \A g \in PermGroup : <<i, g>> \notin issued
          /\ \A s \in LoginThread :
               login_pc[s] \in Sessions!LoginStatement \ {"select"} =>
                 login_req[s].user # i]_serverVars

\* The token a login stores and the one it answers with claim a group the
\* account had at some moment of that very login.  The group is read by the
\* SELECT and stored three statements later, and nothing keeps an
\* administrator's PUT, a deletion or another login of the account out from
\* between: what is stored may be the old group when the new one is already
\* there, but never one from before the login.
TokensClaimRecentGroups ==
  [][/\ \A i \in Id :
          auth_tokens'[i] # auth_tokens[i] /\ auth_tokens'[i] # NULL =>
            \E s \in LoginThread : /\ login_pc[s] = "ins_auth"
                                   /\ login_req[s].user = i
                                   /\ auth_tokens'[i] \in seen[s]
     /\ \A s \in LoginThread :
          login_resp'[s] = "ok" => login_req'[s].group \in seen'[s]]_serverVars
=============================================================================
