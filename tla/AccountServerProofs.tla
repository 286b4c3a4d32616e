------------------------ MODULE AccountServerProofs ------------------------
(***************************************************************************)
(* Proofs about AccountServer: logins beside the requests for accounts, on *)
(* any number of threads, for any accounts, bodies and permission table.   *)
(*                                                                         *)
(* What LoginSessionsProofs knows of a login's own steps is used as it is, *)
(* with the columns of the accounts for its table (Logins); what is new is *)
(* what the steps of one side do to the invariants of the other.           *)
(*                                                                         *)
(*   SpentIds  every id that a token or a login under way names was given  *)
(*             to an account before                                        *)
(*   Claims    what a login has read of its account is among the groups    *)
(*             the account has had since the login began                   *)
(*   SInv      these, and TInv of either side                              *)
(***************************************************************************)
EXTENDS AccountServer, DirectoryProofs

Logins ==
  INSTANCE LoginSessionsProofs
    WITH Thread <- LoginThread, User <- Id, Kind <- {"login"},
         InitialGroup <- Groups(InitialUsers), users <- Groups(users),
         pc <- login_pc, req <- login_req, resp <- login_resp,
         faulted <- login_faulted

Spent(i) ==
  \/ auth_tokens[i] # NULL
  \/ refresh_tokens[i]
  \/ \E g \in PermGroup : <<i, g>> \in issued
  \/ \E s \in LoginThread :
       login_pc[s] \in Sessions!LoginStatement \ {"select"} /\ login_req[s].user = i

SpentIds == \A i \in Id : Spent(i) => i <= seq

\* Where a login stands, what it claims was seen.
Claim(s) ==
  /\ login_pc[s] # "responded" => login_resp[s] # "ok"
  /\ login_pc[s] # "idle" => Groups(users)[login_req[s].user] \in seen[s] \cup {NULL}
  /\ login_pc[s] \in Sessions!LoginStatement \ {"select"} \/ login_resp[s] = "ok" =>
       login_req[s].group \in seen[s]

Claims ==
  /\ seen = [s \in LoginThread |-> seen[s]]
  /\ \A s \in LoginThread : Claim(s)

SInv == TInv /\ Logins!TInv /\ SpentIds /\ Claims

----------------------------------------------------------------------------
(* The instance                                                            *)

LEMMA GroupsType ==
  ASSUME NEW accounts,
         \A i \in Id : accounts[i] # NULL => IsModel(accounts[i])
  PROVE  Groups(accounts) \in [Id -> PermGroup \cup {NULL}]
<1>1. ASSUME NEW i \in Id, accounts[i] # NULL
      PROVE  accounts[i]["permission_group"] \in PermGroup \cup {NULL}
  BY <1>1, Constant DEF IsModel, FieldValues
<1> QED BY <1>1 DEF Groups

\* What LoginSessions assumes of its parameters holds of those given to it here.
LEMMA LoginsAssumption ==
  /\ /\ PermGroup \subseteq ClaimGroup
     /\ NULL \notin Id
     /\ {"id", "email", "permission_group"} \subseteq Field
     /\ {"login"} \subseteq Logins!RequestKind
     /\ Failing \in BOOLEAN
     /\ UsersPermissions \in Logins!Matrix
     /\ Groups(InitialUsers) \in [Id -> PermGroup \cup {NULL}]
  /\ /\ NULL \notin Field \cup ClaimGroup
     /\ "instance" \notin Field
  /\ Logins!UserGroup \subseteq ClaimGroup
<1>2. Groups(InitialUsers) \in [Id -> PermGroup \cup {NULL}]
  BY GroupsType, RegistrationAssumption DEF IsTable
<1>3. UsersPermissions \in Logins!Matrix
  BY RegistrationAssumption
  DEF Matrix, Logins!Matrix, Column, Logins!Column, Right, Logins!Right
<1>4. Logins!UserGroup \subseteq ClaimGroup
  BY GroupAssumption DEF UserGroup, Logins!UserGroup
<1>5. {"id", "email", "permission_group"} \subseteq Field
  BY RegistrationAssumption DEF Unique
<1> QED BY <1>2, <1>3, <1>4, <1>5, RegistrationAssumption, FieldAssumption
        DEF Logins!RequestKind

\* The two instances are one.
LEMMA SameInit == Sessions!Init <=> Logins!Init
  BY DEF Sessions!Init, Logins!Init, Sessions!NoRequest, Logins!NoRequest

LEMMA SameStart ==
  \A s, i, b : Sessions!StartLogin(s, i, b) <=> Logins!StartLogin(s, i, b)
  BY DEF Sessions!StartLogin, Logins!StartLogin, Sessions!Goto, Logins!Goto,
         Sessions!NoRequest, Logins!NoRequest, Sessions!InLogin, Logins!InLogin,
         Sessions!LoginStatement, Logins!LoginStatement, Sessions!tables, Logins!tables

LEMMA SameLogin ==
  \A s : Sessions!Login(s) <=> Logins!Login(s)
  BY DEF Sessions!Login, Logins!Login, Sessions!LoginSelect, Logins!LoginSelect,
         Sessions!LoginDeleteAuth, Logins!LoginDeleteAuth,
         Sessions!LoginInsertAuth, Logins!LoginInsertAuth,
         Sessions!LoginDeleteRefresh, Logins!LoginDeleteRefresh,
         Sessions!LoginInsertRefresh, Logins!LoginInsertRefresh,
         Sessions!DeleteFailureIgnored, Logins!DeleteFailureIgnored,
         Sessions!Busy, Logins!Busy, Sessions!AtDatabase, Logins!AtDatabase,
         Sessions!Statement, Logins!Statement,
         Sessions!LoginStatement, Logins!LoginStatement,
         Sessions!BearerStatement, Logins!BearerStatement,
         Sessions!PastGrant, Logins!PastGrant,
         Sessions!Goto, Logins!Goto, Sessions!Respond, Logins!Respond,
         Sessions!tables, Logins!tables, Sessions!history, Logins!history

LEMMA SameFailure ==
  \A s : /\ Sessions!StatementFails(s) <=> Logins!StatementFails(s)
         /\ Sessions!Finish(s) <=> Logins!Finish(s)
  BY DEF Sessions!StatementFails, Logins!StatementFails, Sessions!Finish, Logins!Finish,
         Sessions!Busy, Logins!Busy, Sessions!AtDatabase, Logins!AtDatabase,
         Sessions!Statement, Logins!Statement,
         Sessions!LoginStatement, Logins!LoginStatement,
         Sessions!BearerStatement, Logins!BearerStatement,
         Sessions!Goto, Logins!Goto, Sessions!Respond, Logins!Respond,
         Sessions!NoRequest, Logins!NoRequest,
         Sessions!tables, Logins!tables

----------------------------------------------------------------------------
(* A step of a login                                                       *)

LEMMA LoginStepInner ==
  ASSUME TInv, Logins!TInv, NEW s \in LoginThread, LoginStep(s)
  PROVE  TInv' /\ Logins!TInv'
<1>1. TInv'
  BY SameTInv DEF LoginStep
<1>2. ASSUME NEW i \in Id, NEW b \in BOOLEAN, Sessions!StartLogin(s, i, b)
      PROVE  Logins!TInv'
  <2>1. Logins!Start(s)
    BY <1>2, SameStart DEF Logins!Start
  <2> QED BY <2>1, LoginsAssumption, Logins!StartTInv
<1>3. CASE Sessions!Login(s)
  BY <1>1, <1>3, SameLogin, LoginsAssumption, Logins!LoginTInv
<1>4. CASE Sessions!StatementFails(s)
  BY <1>1, <1>4, SameFailure, LoginsAssumption, Logins!FailureTInv
<1>5. CASE Sessions!Finish(s)
  BY <1>1, <1>5, SameFailure, LoginsAssumption, Logins!FailureTInv
<1> QED BY <1>1, <1>2, <1>3, <1>4, <1>5 DEF LoginStep

\* A login names an id only after it has found an account of that id.
LEMMA LoginSpends ==
  ASSUME TInv, Logins!TInv, NEW s \in LoginThread, LoginStep(s), NEW i \in Id, Spent(i)'
  PROVE  Spent(i) \/ users[i] # NULL
<1> USE DEF Sessions!Goto, Sessions!Respond, Sessions!tables, Sessions!history,
            Sessions!LoginStatement, Logins!TInv, Logins!TypeOK, Logins!LocalsOK,
            Logins!Statement, Logins!LoginStatement, Logins!BearerStatement
<1>1. ASSUME NEW j \in Id, NEW b \in BOOLEAN, Sessions!StartLogin(s, j, b)
      PROVE  Spent(i)
  BY <1>1 DEF Sessions!StartLogin, Spent
<1>2. CASE Sessions!LoginSelect(s)
  <2>1. Groups(users)[i] # NULL => users[i] # NULL
    BY DEF Groups
  <2>2. /\ UNCHANGED <<auth_tokens, refresh_tokens, issued>>
        /\ \A r \in LoginThread \ {s} : UNCHANGED <<login_pc[r], login_req[r]>>
        /\ login_req'[s].user = login_req[s].user
    <3>1. CASE UNCHANGED login_req
      BY <1>2, <3>1 DEF Sessions!LoginSelect
    <3>2. CASE login_req' = [login_req EXCEPT ![s].group = Groups(users)[login_req[s].user]]
      <4>1. login_req[s] \in Logins!Request
        OBVIOUS
      <4>2. login_req'[s].user = login_req[s].user
        BY <3>2, <4>1 DEF Logins!Request
      <4>3. \A r \in LoginThread \ {s} : login_req'[r] = login_req[r]
        BY <3>2
      <4> QED BY <1>2, <4>2, <4>3 DEF Sessions!LoginSelect
    <3> QED BY <1>2, <3>1, <3>2 DEF Sessions!LoginSelect
  <2>3. Groups(users)[login_req[s].user] = NULL => login_pc'[s] = "responded"
    BY <1>2 DEF Sessions!LoginSelect
  <2>4. CASE login_req[s].user = i
    BY <2>1, <2>2, <2>3, <2>4 DEF Spent
  <2>5. CASE login_req[s].user # i
    BY <2>2, <2>5 DEF Spent
  <2> QED BY <2>4, <2>5
<1>3. CASE Sessions!LoginDeleteAuth(s)
  BY <1>3 DEF Sessions!LoginDeleteAuth, Spent
<1>4. CASE Sessions!LoginInsertAuth(s)
  BY <1>4 DEF Sessions!LoginInsertAuth, Spent
<1>5. CASE Sessions!LoginDeleteRefresh(s)
  BY <1>5 DEF Sessions!LoginDeleteRefresh, Spent
<1>6. CASE Sessions!LoginInsertRefresh(s)
  <2> DEFINE u == login_req[s].user
  <2>1. /\ u \in Id /\ login_pc[s] = "ins_refresh"
        /\ login_pc' \in {[login_pc EXCEPT ![s] = "responded"]}
        /\ UNCHANGED <<auth_tokens, login_req>>
        /\ refresh_tokens' \in {refresh_tokens, [refresh_tokens EXCEPT ![u] = TRUE]}
        /\ issued' \in {issued, issued \cup {<<u, login_req[s].group>>}}
    BY <1>6 DEF Sessions!LoginInsertRefresh
  <2>2. CASE i = u
    BY <2>1, <2>2 DEF Spent
  <2>3. CASE i # u
    <3>1. refresh_tokens'[i] = refresh_tokens[i]
      BY <2>1, <2>3
    <3>2. \A g \in PermGroup : <<i, g>> \in issued' => <<i, g>> \in issued
      BY <2>1, <2>3
    <3>3. \A r \in LoginThread : login_pc'[r] \in Sessions!LoginStatement =>
                                 login_pc'[r] = login_pc[r]
      BY <2>1
    <3> QED BY <2>1, <3>1, <3>2, <3>3 DEF Spent
  <2> QED BY <2>2, <2>3
<1>7. CASE Sessions!DeleteFailureIgnored(s)
  BY <1>7 DEF Sessions!DeleteFailureIgnored, Spent
<1>8. CASE Sessions!StatementFails(s)
  BY <1>8 DEF Sessions!StatementFails, Spent
<1>9. CASE Sessions!Finish(s)
  BY <1>9 DEF Sessions!Finish, Spent
<1> QED BY <1>1, <1>2, <1>3, <1>4, <1>5, <1>6, <1>7, <1>8, <1>9
        DEF LoginStep, Sessions!Login

\* The steps of a login leave the claims of the others alone.
LEMMA OthersClaims ==
  ASSUME Claims, NEW s \in LoginThread, UNCHANGED users, Claim(s)',
         seen' = [r \in LoginThread |-> seen'[r]],
         \A r \in LoginThread \ {s} :
           /\ login_pc'[r] = login_pc[r] /\ login_req'[r] = login_req[r]
           /\ login_resp'[r] = login_resp[r] /\ seen'[r] = seen[r]
  PROVE  Claims'
<1>1. Groups(users)' = Groups(users)
  BY DEF Groups
<1>2. \A r \in LoginThread \ {s} : Claim(r)'
  BY <1>1 DEF Claims, Claim
<1> QED BY <1>2 DEF Claims

\* A login claims what it reads, and goes on with what it claims.
LEMMA LoginClaims ==
  ASSUME TInv, Logins!TInv, Claims, NEW s \in LoginThread, LoginStep(s)
  PROVE  Claims'
<1> USE DEF Sessions!Goto, Sessions!Respond, Sessions!LoginStatement,
            Logins!TInv, Logins!TypeOK
<1>1. UNCHANGED users /\ Groups(users)' = Groups(users)
  BY DEF LoginStep, table, Groups
<1>2. Claim(s)
  BY DEF Claims
<1>3. ASSUME NEW i \in Id, NEW b \in BOOLEAN, Sessions!StartLogin(s, i, b),
             seen' = [seen EXCEPT ![s] = {Groups(users)[i]} \ {NULL}]
      PROVE  Claims'
  <2>1. /\ login_pc'[s] = "select" /\ login_req'[s].user = i
        /\ login_resp'[s] = login_resp[s] /\ login_pc[s] = "idle"
        /\ seen'[s] = {Groups(users)[i]} \ {NULL}
    BY <1>3 DEF Sessions!StartLogin, Sessions!NoRequest, Claims
  <2>2. Claim(s)'
    BY <1>1, <1>2, <2>1 DEF Claim
  <2> QED BY <1>1, <1>3, <2>2, OthersClaims DEF Sessions!StartLogin, Claims
<1>4. ASSUME NEW label \in Sessions!LoginStatement \ {"select"},
             login_pc[s] \in Sessions!LoginStatement \ {"select"},
             login_pc' = [login_pc EXCEPT ![s] = label],
             UNCHANGED <<login_req, login_resp, seen>>
      PROVE  Claims'
  <2>1. Claim(s)'
    BY <1>1, <1>2, <1>4 DEF Claim
  <2> QED BY <1>1, <1>4, <2>1, OthersClaims DEF Claims
<1>13. ASSUME NEW answer, answer = "ok" => login_pc[s] = "ins_refresh",
              login_pc[s] # "idle", Sessions!Respond(s, answer),
              UNCHANGED <<login_req, seen>>
       PROVE  Claims'
  <2>1. Claim(s)'
    BY <1>1, <1>2, <1>13 DEF Claim
  <2> QED BY <1>1, <1>13, <2>1, OthersClaims DEF Claims
<1>5. CASE Sessions!LoginSelect(s) /\ UNCHANGED seen
  <2>1. CASE Sessions!Respond(s, "invalid_params") /\ UNCHANGED login_req
    BY <1>13, <1>5, <2>1 DEF Sessions!LoginSelect
  <2>2. CASE /\ Groups(users)[login_req[s].user] # NULL
             /\ Sessions!Goto(s, "del_auth") /\ UNCHANGED login_resp
             /\ login_req' = [login_req EXCEPT ![s].group = Groups(users)[login_req[s].user]]
    <3>1. login_req[s] \in Logins!Request
      OBVIOUS
    <3>2. /\ login_req'[s].user = login_req[s].user
          /\ login_req'[s].group = Groups(users)[login_req[s].user]
      BY <2>2, <3>1 DEF Logins!Request
    <3>3. /\ login_pc'[s] = "del_auth" /\ login_pc[s] = "select"
          /\ \A r \in LoginThread \ {s} :
               login_pc'[r] = login_pc[r] /\ login_req'[r] = login_req[r]
      BY <1>5, <2>2 DEF Sessions!LoginSelect
    <3>4. Claim(s)'
      BY <1>1, <1>2, <1>5, <2>2, <3>2, <3>3 DEF Claim
    <3> QED BY <1>1, <1>5, <2>2, <3>3, <3>4, OthersClaims DEF Claims
  <2> QED BY <1>5, <2>1, <2>2 DEF Sessions!LoginSelect
<1>6. CASE Sessions!LoginDeleteAuth(s) /\ UNCHANGED seen
  BY <1>4, <1>6 DEF Sessions!LoginDeleteAuth
<1>7. CASE Sessions!LoginInsertAuth(s) /\ UNCHANGED seen
  BY <1>4, <1>13, <1>7 DEF Sessions!LoginInsertAuth
<1>8. CASE Sessions!LoginDeleteRefresh(s) /\ UNCHANGED seen
  BY <1>4, <1>8 DEF Sessions!LoginDeleteRefresh
<1>9. CASE Sessions!LoginInsertRefresh(s) /\ UNCHANGED seen
  BY <1>4, <1>13, <1>9 DEF Sessions!LoginInsertRefresh
<1>10. CASE Sessions!DeleteFailureIgnored(s) /\ UNCHANGED seen
  BY <1>4, <1>10 DEF Sessions!DeleteFailureIgnored
<1>11. CASE Sessions!StatementFails(s) /\ UNCHANGED seen
  <2>1. login_pc[s] # "idle"
    BY <1>11 DEF Sessions!StatementFails, Sessions!Statement, Sessions!BearerStatement
  <2> QED BY <1>13, <1>11, <2>1 DEF Sessions!StatementFails
<1>12. CASE Sessions!Finish(s) /\ seen' = [seen EXCEPT ![s] = {}]
  <2>1. login_pc'[s] = "idle" /\ login_resp'[s] = "none"
    BY <1>12 DEF Sessions!Finish
  <2>2. Claim(s)'
    BY <2>1 DEF Claim
  <2> QED BY <1>1, <1>12, <2>2, OthersClaims DEF Sessions!Finish, Claims
<1> QED BY <1>3, <1>5, <1>6, <1>7, <1>8, <1>9, <1>10, <1>11, <1>12
        DEF LoginStep, Sessions!Login

\* Only the INSERT of a login stores a token, and what the login claims.
LEMMA StoredIsClaimed ==
  ASSUME Logins!TInv, Claims, NEW s \in LoginThread, LoginStep(s), NEW i \in Id,
         auth_tokens'[i] # auth_tokens[i], auth_tokens'[i] # NULL
  PROVE  /\ login_pc[s] = "ins_auth" /\ login_req[s].user = i
         /\ auth_tokens'[i] \in seen[s]
<1> USE DEF Logins!TInv, Logins!TypeOK
<1>1. ~Sessions!LoginDeleteAuth(s)
  BY DEF Sessions!LoginDeleteAuth
<1>2. Sessions!LoginInsertAuth(s)
  BY <1>1 DEF LoginStep, Sessions!Login, Sessions!StartLogin, Sessions!LoginSelect,
     Sessions!LoginDeleteRefresh, Sessions!LoginInsertRefresh,
     Sessions!DeleteFailureIgnored, Sessions!StatementFails, Sessions!Finish,
     Sessions!tables
<1>3. /\ login_pc[s] = "ins_auth"
      /\ auth_tokens' = [auth_tokens EXCEPT ![login_req[s].user] = login_req[s].group]
  BY <1>2 DEF Sessions!LoginInsertAuth
<1>4. login_req[s].user = i /\ auth_tokens'[i] = login_req[s].group
  BY <1>3
<1> QED BY <1>3, <1>4 DEF Claims, Claim, Sessions!LoginStatement

LEMMA LoginStepSInv ==
  ASSUME SInv, NEW s \in LoginThread, LoginStep(s)
  PROVE  SInv'
<1>1. TInv' /\ Logins!TInv'
  BY LoginStepInner DEF SInv
<1>2. \A i \in Id : users[i] # NULL => i <= seq
  BY DEF SInv, TInv, StateOK
<1>3. seq' = seq
  BY DEF LoginStep, table
<1>4. SpentIds'
  BY <1>2, <1>3, LoginSpends DEF SInv, SpentIds
<1>5. Claims'
  BY LoginClaims DEF SInv
<1> QED BY <1>1, <1>4, <1>5 DEF SInv

----------------------------------------------------------------------------
(* A step of a request                                                     *)

LEMMA RequestStepIsNext ==
  ASSUME Logins!TInv, NEW t \in Thread, RequestStep(t)
  PROVE  Next
<1>1. issued \subseteq Token
  BY ServerAssumption DEF Logins!TInv, Logins!TypeOK
<1> QED BY <1>1 DEF RequestStep, Next

LEMMA RequestStepSInv ==
  ASSUME SInv, NEW t \in Thread, RequestStep(t)
  PROVE  SInv'
<1>1. Next
  BY RequestStepIsNext DEF SInv
<1>2. TInv' /\ seq' >= seq
  BY <1>1, NextTInv, IdsAreSpent DEF SInv
<1>3. Logins!TInv'
  <2>1. Groups(users)' = Groups(users')
    BY DEF Groups
  <2>2. Groups(users)' \in [Id -> PermGroup \cup {NULL}]
    BY <1>2, <2>1, GroupsType DEF TInv, StateOK
  <2>3. UNCHANGED <<auth_tokens, refresh_tokens, login_pc, login_req, login_resp,
                    issued, lost, login_faulted>>
    BY DEF RequestStep, loginHandlers
  <2>4. disturbed' \in [LoginThread -> BOOLEAN]
    BY DEF RequestStep, SInv, Logins!TInv, Logins!TypeOK
  <2> QED BY <2>2, <2>3, <2>4, LoginsAssumption, Logins!OutsideTInv DEF SInv
<1>4. SpentIds'
  <2>1. \A i \in Id : Spent(i)' <=> Spent(i)
    BY DEF RequestStep, Spent, loginHandlers
  <2>2. seq \in Int /\ seq' \in Int /\ Id \subseteq Int
    BY <1>2, Constant DEF SInv, TInv, StateOK, Id
  <2> QED BY <1>2, <2>1, <2>2 DEF SInv, SpentIds
<1>5. Claims'
  <2> SUFFICES ASSUME NEW s \in LoginThread PROVE Claim(s)'
    BY DEF RequestStep, Claims
  <2>1. Groups(users)' = Groups(users')
    BY DEF Groups
  <2>2. /\ login_pc' = login_pc /\ login_req' = login_req /\ login_resp' = login_resp
        /\ login_pc[s] # "idle" =>
             seen'[s] = seen[s] \cup ({Groups(users)'[login_req[s].user]} \ {NULL})
    BY <2>1 DEF RequestStep, loginHandlers
  <2>3. Claim(s)
    BY DEF SInv, Claims
  <2>4. CASE login_pc[s] = "idle"
    BY <2>2, <2>3, <2>4 DEF Claim, Sessions!LoginStatement
  <2>5. CASE login_pc[s] # "idle"
    BY <2>2, <2>3, <2>5 DEF Claim
  <2> QED BY <2>4, <2>5
<1> QED BY <1>2, <1>3, <1>4, <1>5 DEF SInv

----------------------------------------------------------------------------
(* The theorems                                                            *)

LEMMA ServerInitSInv == ServerInit => SInv
<1> SUFFICES ASSUME ServerInit PROVE SInv
  OBVIOUS
<1>1. TInv /\ Logins!TInv
  BY SameInit, InitTInv, LoginsAssumption, Logins!InitTInv DEF ServerInit
<1>2. SpentIds
  <2> SUFFICES ASSUME NEW i \in Id, Spent(i) PROVE i <= seq
    BY DEF SpentIds
  <2>1. users[i] # NULL
    BY DEF ServerInit, Init, Sessions!Init, Spent, Groups, Sessions!LoginStatement
  <2> QED BY <1>1, <2>1 DEF TInv, StateOK
<1>3. Claims
  BY DEF ServerInit, Sessions!Init, Claims, Claim, Sessions!LoginStatement
<1> QED BY <1>1, <1>2, <1>3 DEF SInv

LEMMA ServerNextSInv == SInv /\ [ServerNext]_serverVars => SInv'
<1> SUFFICES ASSUME SInv, [ServerNext]_serverVars PROVE SInv'
  OBVIOUS
<1>1. CASE ServerNext
  BY <1>1, LoginStepSInv, RequestStepSInv DEF ServerNext
<1>2. CASE UNCHANGED serverVars
  <2> USE DEF serverVars, loginVars, loginHandlers
  <2>1. TInv'
    BY <1>2, SameTInv DEF SInv, vars
  <2>2. Logins!TInv'
    <3>1. UNCHANGED users
      BY <1>2 DEF vars, table
    <3>2. UNCHANGED Groups(users)
      BY <3>1 DEF Groups
    <3>3. UNCHANGED Logins!vars
      BY <1>2, <3>2 DEF Logins!vars, Logins!tables, Logins!history, vars
    <3> QED BY <3>3, LoginsAssumption, Logins!NextTInv DEF SInv
  <2>3. SpentIds'
    BY <1>2 DEF SInv, SpentIds, Spent, vars, table
  <2>4. Claims'
    BY <1>2 DEF SInv, Claims, Claim, Groups, vars, table
  <2> QED BY <2>1, <2>2, <2>3, <2>4 DEF SInv
<1> QED BY <1>1, <1>2

\* In every execution of the server the tokens that logins store and answer with
\* claim a group the account had during that very login, whatever requests and
\* other logins of the account come between its statements.
THEOREM TokensClaimRecentGroupsTheorem == ServerSpec => TokensClaimRecentGroups
<1>1. ASSUME SInv, ServerNext, NEW i \in Id,
             auth_tokens'[i] # auth_tokens[i], auth_tokens'[i] # NULL
      PROVE  \E s \in LoginThread : /\ login_pc[s] = "ins_auth"
                                    /\ login_req[s].user = i
                                    /\ auth_tokens'[i] \in seen[s]
  BY <1>1, StoredIsClaimed DEF ServerNext, RequestStep, SInv
<1>2. ASSUME SInv, NEW s \in LoginThread, login_resp[s] = "ok"
      PROVE  login_req[s].group \in seen[s]
  BY <1>2 DEF SInv, Claims, Claim
<1>3. SInv /\ SInv' /\ [ServerNext]_serverVars =>
        [/\ \A i \in Id :
              auth_tokens'[i] # auth_tokens[i] /\ auth_tokens'[i] # NULL =>
                \E s \in LoginThread : /\ login_pc[s] = "ins_auth"
                                       /\ login_req[s].user = i
                                       /\ auth_tokens'[i] \in seen[s]
         /\ \A s \in LoginThread :
              login_resp'[s] = "ok" => login_req'[s].group \in seen'[s]]_serverVars
  BY <1>1 DEF SInv, Claims, Claim
<1> QED BY ServerInitSInv, ServerNextSInv, <1>3, PTL
        DEF ServerSpec, TokensClaimRecentGroups

\* In every execution a new account finds no token that was meant for another
\* one, unless it comes from a statement that a quote has changed, if the
\* permission table lets nobody choose an id.
THEOREM NewAccountsInheritNothingTheorem ==
  ASSUME RightsOnNewAccounts
  PROVE  ServerSpec => NewAccountsInheritNothing
<1> DEFINE Fresh(i) ==
      /\ auth_tokens[i] = NULL /\ ~refresh_tokens[i]
      /\ \A g \in PermGroup : <<i, g>> \notin issued
      /\ \A s \in LoginThread :
           login_pc[s] \in Sessions!LoginStatement \ {"select"} =>
             login_req[s].user # i
<1>1. ASSUME SInv, ServerNext, NEW i \in Id, users[i] = NULL, users'[i] # NULL, ~ByQuote
      PROVE  Fresh(i)
  <2>1. PICK t \in Thread : RequestStep(t)
    BY <1>1 DEF ServerNext, LoginStep, table
  <2>2. i > seq
    BY <1>1, <2>1, RequestStepIsNext, NewAccountStep DEF SInv
  <2>3. seq \in Int /\ i \in Int
    BY <1>1, Constant DEF SInv, TInv, StateOK, Id
  <2>4. ~Spent(i)
    BY <1>1, <2>2, <2>3 DEF SInv, SpentIds
  <2> QED BY <2>4 DEF Spent
<1>2. SInv /\ [ServerNext]_serverVars =>
        [\A i \in Id : users[i] = NULL /\ users'[i] # NULL =>
           \/ ByQuote
           \/ Fresh(i)]_serverVars
  BY <1>1
<1> QED BY ServerInitSInv, ServerNextSInv, <1>2, PTL
        DEF ServerSpec, NewAccountsInheritNothing, ByQuote

----------------------------------------------------------------------------
(* What the requests guarantee without logins they guarantee beside them:   *)
(* a login replaces stored tokens while handlers run, and nothing else that *)
(* a handler sees.                                                          *)

requestVars == <<table, pc, req, resp, history>>

LEMMA RequestsSide ==
  ASSUME SInv, [ServerNext]_serverVars
  PROVE  Next \/ UNCHANGED requestVars
<1>1. CASE ServerNext
  BY <1>1, RequestStepIsNext DEF ServerNext, LoginStep, SInv, requestVars
<1>2. CASE UNCHANGED serverVars
  BY <1>2 DEF serverVars, vars, requestVars
<1> QED BY <1>1, <1>2

\* In every execution of the server the step that changes an account is a
\* statement that a quote has changed, or that of a request for this account, in
\* the fields its sender has the right on and to the values it sent, whatever
\* logins do to the stored tokens meanwhile.
THEOREM ServerChangesByRightTheorem ==
  ASSUME NothingForOther
  PROVE  ServerSpec => AccountsChangeByRight
<1>1. ASSUME SInv, [ServerNext]_serverVars, NEW i \in Id,
             users[i] # NULL, users'[i] # users[i], ~ByQuote
      PROVE  AccountChangedByRight(i)
  <2>1. Next
    BY <1>1, RequestsSide DEF requestVars, table
  <2> QED BY <1>1, <2>1, AccountChangeStep DEF SInv
<1>2. SInv /\ [ServerNext]_serverVars =>
        [\A i \in Id : users[i] # NULL /\ users'[i] # users[i] =>
           \/ ByQuote
           \/ AccountChangedByRight(i)]_vars
  BY <1>1
<1> QED BY ServerInitSInv, ServerNextSInv, <1>2, PTL
  DEF ServerSpec, AccountsChangeByRight, AccountChangedByRight, ByQuote

\* In every execution of the server a registration without quotes fails only for a value that
\* was taken, a failed statement, want of an id or a lost race.
THEOREM ServerFailsOnlyIfTakenTheorem ==
  ASSUME RightsOnNewAccounts
  PROVE  ServerSpec => []FailsOnlyIfTaken
<1>1. ServerInit => WInv
  BY InitWInv DEF ServerInit
<1>2. SInv /\ SInv' /\ WInv /\ [ServerNext]_serverVars => WInv'
  <2> SUFFICES ASSUME SInv, SInv', WInv, [ServerNext]_serverVars PROVE WInv'
    OBVIOUS
  <2>1. TInv /\ TInv'
    BY DEF SInv
  <2>2. CASE Next
    BY <2>1, <2>2, NextWInv
  <2>3. CASE UNCHANGED requestVars
    BY <2>1, <2>3, SameWatched DEF requestVars, history, table, WInv
  <2> QED BY <2>2, <2>3, RequestsSide
<1>3. WInv => FailsOnlyIfTaken
  BY DEF WInv, Watched, Explained, FailsOnlyIfTaken
<1> QED BY ServerInitSInv, ServerNextSInv, <1>1, <1>2, <1>3, PTL DEF ServerSpec

\* What the clients see of a step of the server is a step of the directory.
LEMMA ServerDirectoryStep ==
  ASSUME RightsOnNewAccounts, SInv, [ServerNext]_serverVars
  PROVE  [Directory!Next]_dvars
<1>1. CASE Next
  BY <1>1, NextDirectory DEF SInv
<1>2. CASE UNCHANGED requestVars
  BY <1>2 DEF requestVars, table, dvars, Progress, Asked
<1> QED BY <1>1, <1>2, RequestsSide

\* In every execution of the server the /users routes do what the directory
\* promises; a login is a step in which the directory stands still.
THEOREM ServerImplementsDirectoryTheorem ==
  ASSUME RightsOnNewAccounts
  PROVE  ServerSpec => ImplementsDirectory
<1>1. ServerInit => Directory!Init
  BY InitDirectory DEF ServerInit
<1>2. SInv /\ [ServerNext]_serverVars => [Directory!Next]_(Directory!vars)
  BY ServerDirectoryStep DEF dvars, Directory!vars
<1> QED
  BY ServerInitSInv, ServerNextSInv, <1>1, <1>2, PTL
  DEF ServerSpec, ImplementsDirectory, Directory!Spec
=============================================================================
