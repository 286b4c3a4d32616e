------------------------- MODULE LoginSessionsProofs -------------------------
(***************************************************************************)
(* Proofs about LoginSessions, for any number of threads and users, any    *)
(* permission matrix and any kind of request.                              *)
(*                                                                         *)
(*   TInv       the types, and what the place of a handler says of its     *)
(*              locals                                                     *)
(*   KeptInv    between its DELETE and its INSERT, or cut off there, is a  *)
(*              login of every user who had a token and has none           *)
(*   AllLogins  what the tables hold for the user of an undisturbed login  *)
(*   AInv       what a checked token and a passed check are still worth    *)
(***************************************************************************)
EXTENDS LoginSessions, TLAPS

\* An idle thread has no request.  A handler at a statement of login logs in a
\* user; once it is past the SELECT it has read a group.  A handler with a bearer
\* token carries one that was issued.
LocalsOK ==
  \A t \in Thread :
    /\ pc[t] \in LoginStatement => req[t].kind = "login" /\ req[t].user \in User
    /\ pc[t] \in LoginStatement \ {"select"} => req[t].group \in PermGroup
    /\ pc[t] \in BearerStatement =>
         /\ req[t].kind # "login"
         /\ req[t].target \in User
         /\ req[t].user # NULL => <<req[t].user, req[t].group>> \in issued
    /\ pc[t] = "grant" => req[t].user # NULL
    /\ pc[t] = "idle" => req[t].user = NULL

TInv == TypeOK /\ LocalsOK

LEMMA NullIsNone == NULL \notin PermGroup /\ NULL \notin User
  BY SessionAssumption, FieldAssumption

LEMMA InitTInv == Init => TInv
  BY SessionAssumption
  DEF Init, TInv, TypeOK, LocalsOK, Statement, LoginStatement, BearerStatement,
      NoRequest, Request, RequestKind, Response

LEMMA RefusalType ==
  ASSUME NEW t \in Thread
  PROVE  Refusal(t) \in {"none", "unauthorized", "invalid_params"}
  BY DEF Refusal

\* move_safely changes no value: what is left of the body's group is the group.
LEMMA GroupWritten ==
  ASSUME TInv, NEW t \in Thread, IsSet(AuthorizedModel(t), "permission_group")
  PROVE  /\ AuthorizedModel(t)["permission_group"] = req[t].newgroup
         /\ req[t].newgroup \in PermGroup
<1>1. "permission_group" \in Field
  BY SessionAssumption
<1>2. RequestModel(t)["permission_group"] = req[t].newgroup
  BY <1>1 DEF RequestModel
<1>3. AuthorizedModel(t)["permission_group"] \in {req[t].newgroup, NULL}
  BY <1>1, <1>2 DEF AuthorizedModel, Erased
<1>4. req[t].newgroup \in PermGroup \cup {NULL}
  BY DEF TInv, TypeOK, Request
<1> QED BY <1>3, <1>4 DEF IsSet

----------------------------------------------------------------------------

LEMMA StartTInv ==
  ASSUME TInv, NEW t \in Thread, Start(t)
  PROVE  TInv'
<1> USE DEF Goto, Respond, tables, history, Statement, LoginStatement,
            BearerStatement, TInv, LocalsOK
<1>1. ASSUME NEW u \in User, NEW b \in BOOLEAN, StartLogin(t, u, b)
      PROVE  TInv'
  <2>1. /\ req'[t] = [NoRequest EXCEPT !.user = u, !.password_ok = b]
        /\ req'[t] \in Request
    BY <1>1 DEF StartLogin, TypeOK, NoRequest, Request, RequestKind
  <2>2. TypeOK'
    BY <1>1, <2>1 DEF StartLogin, TypeOK
  <2>3. LocalsOK'
    BY <1>1, <2>1 DEF StartLogin, TypeOK, NoRequest
  <2> QED BY <2>2, <2>3
<1>2. ASSUME LoginWithToken(t) PROVE TInv'
  <2>1. TypeOK'
    BY <1>2 DEF LoginWithToken, TypeOK, Response
  <2>2. LocalsOK'
    BY <1>2 DEF LoginWithToken, TypeOK
  <2> QED BY <2>1, <2>2
<1>3. ASSUME NEW kind \in RequestKind, NEW token \in issued \cup {NULL},
             NEW target \in User, NEW g \in PermGroup \cup {NULL},
             StartRequest(t, kind, token, target, g)
      PROVE  TInv'
  <2>1. token = NULL \/ (token \in User \X PermGroup /\ token \in issued)
    BY DEF TypeOK
  <2>2. PermGroup \subseteq ClaimGroup
    BY SessionAssumption
  <2>3. req'[t] = [kind |-> kind,
                   user |-> IF token = NULL THEN NULL ELSE token[1],
                   group |-> IF token = NULL THEN NULL ELSE token[2],
                   target |-> target, newgroup |-> g, password_ok |-> FALSE]
    BY <1>3 DEF StartRequest, TypeOK
  <2>4. req'[t] \in Request
    BY <2>1, <2>2, <2>3 DEF Request
  <2>5. TypeOK'
    BY <1>3, <2>4 DEF StartRequest, TypeOK
  <2>6. token # NULL => token[1] # NULL /\ <<token[1], token[2]>> \in issued
    BY <2>1, NullIsNone
  <2>7. kind # "login" /\ pc'[t] \in {"grant", "load_perms"}
        /\ (pc'[t] = "grant" => token # NULL)
    BY <1>3 DEF StartRequest, TypeOK
  <2>8. LocalsOK'
    BY <1>3, <2>3, <2>6, <2>7 DEF StartRequest, TypeOK
  <2> QED BY <2>5, <2>8
<1> QED BY <1>1, <1>2, <1>3 DEF Start, RequestKind

LEMMA LoginTInv ==
  ASSUME TInv, NEW t \in Thread, Login(t)
  PROVE  TInv'
<1> USE DEF Goto, Respond, tables, history, Statement, LoginStatement,
            BearerStatement, TInv, LocalsOK, TypeOK, Response
<1>1. CASE LoginSelect(t)
  <2>1. CASE pc' = [pc EXCEPT ![t] = "del_auth"]
             /\ req' = [req EXCEPT ![t].group = users[req[t].user]]
             /\ UNCHANGED resp
    <3>1. users[req[t].user] \in PermGroup /\ PermGroup \subseteq ClaimGroup
      BY <1>1, <2>1, SessionAssumption DEF LoginSelect
    <3>2. req[t] \in Request
      OBVIOUS
    <3>3. req'[t] = [kind |-> req[t].kind, user |-> req[t].user,
                     group |-> users[req[t].user], target |-> req[t].target,
                     newgroup |-> req[t].newgroup,
                     password_ok |-> req[t].password_ok]
      BY <2>1, <3>2 DEF Request
    <3>4. TypeOK'
      <4>1. req'[t] \in Request
        BY <3>1, <3>2, <3>3 DEF Request
      <4> QED BY <1>1, <2>1, <4>1 DEF LoginSelect
    <3>5. LocalsOK'
      <4>1. /\ req'[t].kind = "login" /\ req'[t].user \in User
            /\ req'[t].group \in PermGroup
        <5>1. req[t].kind = "login" /\ req[t].user \in User
          BY <1>1 DEF LoginSelect
        <5> HIDE DEF TInv, TypeOK, LocalsOK
        <5> QED BY <3>1, <3>3, <5>1
      <4>2. pc'[t] = "del_auth" /\ issued' = issued
        BY <1>1, <2>1 DEF LoginSelect
      <4>3. \A s \in Thread \ {t} : req'[s] = req[s] /\ pc'[s] = pc[s]
        BY <2>1
      <4> QED BY <4>1, <4>2, <4>3
    <3> QED BY <3>4, <3>5
  <2>2. CASE Respond(t, "invalid_params") /\ UNCHANGED req
    <3>1. TypeOK'
      BY <1>1, <2>2 DEF LoginSelect
    <3>2. LocalsOK'
      BY <1>1, <2>2 DEF LoginSelect
    <3> QED BY <3>1, <3>2
  <2> QED BY <1>1, <2>1, <2>2 DEF LoginSelect, Goto
<1>2. CASE LoginDeleteAuth(t)
  BY <1>2 DEF LoginDeleteAuth
<1>3. CASE LoginInsertAuth(t)
  BY <1>3 DEF LoginInsertAuth
<1>4. CASE LoginDeleteRefresh(t)
  BY <1>4 DEF LoginDeleteRefresh
<1>5. CASE LoginInsertRefresh(t)
  <2>1. req[t].user \in User /\ req[t].group \in PermGroup
    BY <1>5 DEF LoginInsertRefresh
  <2>2. issued \subseteq issued' /\ issued' \subseteq User \X PermGroup
    BY <1>5, <2>1 DEF LoginInsertRefresh
  <2>3. TypeOK'
    BY <1>5, <2>1, <2>2 DEF LoginInsertRefresh
  <2>4. LocalsOK'
    BY <1>5, <2>2 DEF LoginInsertRefresh
  <2> QED BY <2>3, <2>4
<1>6. CASE DeleteFailureIgnored(t)
  BY <1>6 DEF DeleteFailureIgnored
<1> QED BY <1>1, <1>2, <1>3, <1>4, <1>5, <1>6 DEF Login

LEMMA BearerTInv ==
  ASSUME TInv, NEW t \in Thread, Bearer(t)
  PROVE  TInv'
<1> USE DEF Goto, Respond, tables, history, Statement, LoginStatement,
            BearerStatement, TInv, LocalsOK, TypeOK, Response
<1>1. CASE Grant(t)
  BY <1>1 DEF Grant
<1>2. CASE LoadPerms(t)
  BY <1>2, RefusalType DEF LoadPerms
<1>3. CASE ExecGet(t)
  BY <1>3 DEF ExecGet
<1>4. CASE ExecSetGroup(t)
  BY <1>4, GroupWritten DEF ExecSetGroup
<1>5. CASE ExecDelete(t)
  BY <1>5 DEF ExecDelete
<1> QED BY <1>1, <1>2, <1>3, <1>4, <1>5 DEF Bearer

LEMMA FailureTInv ==
  ASSUME TInv, (\E t \in Thread : StatementFails(t) \/ Finish(t)) \/ Crash
  PROVE  TInv'
<1> USE DEF Goto, Respond, tables, history, Statement, LoginStatement,
            BearerStatement, TInv, LocalsOK, TypeOK, Response
<1>0. NoRequest \in Request
  BY DEF NoRequest, Request, RequestKind
<1>1. ASSUME NEW t \in Thread, StatementFails(t) PROVE TInv'
  <2>1. TypeOK'
    BY <1>1 DEF StatementFails
  <2>2. LocalsOK'
    BY <1>1 DEF StatementFails
  <2> QED BY <2>1, <2>2
<1>2. ASSUME NEW t \in Thread, Finish(t) PROVE TInv'
  <2>1. TypeOK'
    BY <1>0, <1>2 DEF Finish
  <2>2. req'[t].user = NULL
    BY <1>2 DEF Finish, NoRequest
  <2>3. LocalsOK'
    BY <1>2, <2>2 DEF Finish
  <2> QED BY <2>1, <2>3
<1>3. CASE Crash
  <2>1. TypeOK'
    BY <1>0, <1>3 DEF Crash
  <2>2. \A t \in Thread : req'[t].user = NULL /\ pc'[t] = "idle"
    BY <1>3 DEF Crash, NoRequest
  <2>3. LocalsOK'
    BY <2>2
  <2> QED BY <2>1, <2>3
<1> QED BY <1>1, <1>2, <1>3

LEMMA NextTInv == TInv /\ [Next]_vars => TInv'
<1> SUFFICES ASSUME TInv, [Next]_vars PROVE TInv'
  OBVIOUS
<1>1. CASE Next
  BY <1>1, StartTInv, LoginTInv, BearerTInv, FailureTInv DEF Next
<1>2. CASE UNCHANGED vars
  BY <1>2 DEF vars, tables, history, TInv, TypeOK, LocalsOK
<1> QED BY <1>1, <1>2

\* A change of the accounts that is no step of a handler here keeps it too.
LEMMA OutsideTInv ==
  ASSUME TInv, users' \in [User -> PermGroup \cup {NULL}],
         UNCHANGED <<auth_tokens, refresh_tokens, pc, req, resp, issued, lost, faulted>>,
         disturbed' \in [Thread -> BOOLEAN]
  PROVE  TInv'
  BY DEF TInv, TypeOK, LocalsOK

\* In every execution the tables and the handlers' locals have their types.
THEOREM TypeTheorem == Spec => []TypeOK
  BY InitTInv, NextTInv, PTL DEF Spec, TInv

----------------------------------------------------------------------------
(* A user who was handed a token keeps a row in auth_tokens.               *)

Inserted == {"del_refresh", "ins_refresh"}

Known(u) ==
  \/ \E g \in PermGroup : <<u, g>> \in issued
  \/ \E t \in Thread : pc[t] \in Inserted /\ req[t].user = u

BetweenDeleteAndInsert(u) ==
  \E t \in Thread : pc[t] = "ins_auth" /\ req[t].user = u

KeptInv ==
  \A u \in User : Known(u) /\ auth_tokens[u] = NULL =>
                   lost[u] \/ BetweenDeleteAndInsert(u)

LEMMA InitKept == Init => KeptInv
  BY SessionAssumption, NullIsNone
  DEF Init, KeptInv, Known, Inserted, BetweenDeleteAndInsert

\* A step that neither touches the table nor moves a handler into or out of the
\* statements that follow the DELETE.
LEMMA KeptByOthers ==
  ASSUME KeptInv, UNCHANGED <<auth_tokens, issued, lost>>,
         \A s \in Thread : pc[s] = "ins_auth" => pc'[s] = pc[s] /\ req'[s] = req[s],
         \A s \in Thread : pc'[s] \in Inserted =>
                             pc[s] \in Inserted /\ req'[s] = req[s]
  PROVE  KeptInv'
  BY DEF KeptInv, Known, BetweenDeleteAndInsert

LEMMA LoginKept ==
  ASSUME TInv, KeptInv, NEW t \in Thread, Login(t)
  PROVE  KeptInv'
<1> USE DEF Goto, Respond, tables, history, TInv, TypeOK, Inserted
<1>1. CASE LoginSelect(t)
  <2>1. \A s \in Thread : s # t => pc'[s] = pc[s] /\ req'[s] = req[s]
    BY <1>1 DEF LoginSelect
  <2>2. pc[t] = "select" /\ pc'[t] \in {"del_auth", "responded"}
    BY <1>1 DEF LoginSelect
  <2> QED BY <1>1, <2>1, <2>2, KeptByOthers DEF LoginSelect
<1>2. CASE LoginDeleteAuth(t)
  <2>1. pc'[t] = "ins_auth" /\ req' = req
    BY <1>2 DEF LoginDeleteAuth
  <2>2. \A u \in User : u # req[t].user => auth_tokens'[u] = auth_tokens[u]
    BY <1>2 DEF LoginDeleteAuth
  <2>3. \A u \in User : Known(u)' => Known(u)
    BY <1>2 DEF LoginDeleteAuth, Known
  <2>4. \A u \in User : BetweenDeleteAndInsert(u) => BetweenDeleteAndInsert(u)'
    BY <1>2 DEF LoginDeleteAuth, BetweenDeleteAndInsert
  <2>5. lost' = lost
    BY <1>2 DEF LoginDeleteAuth
  <2>6. ASSUME NEW u \in User, Known(u)', auth_tokens'[u] = NULL
        PROVE  lost'[u] \/ BetweenDeleteAndInsert(u)'
    <3>1. CASE u = req[t].user
      BY <2>1, <3>1 DEF BetweenDeleteAndInsert
    <3>2. CASE u # req[t].user
      <4> HIDE DEF TInv, TypeOK
      <4> QED BY <2>2, <2>3, <2>4, <2>5, <2>6, <3>2 DEF KeptInv
    <3> QED BY <3>1, <3>2
  <2> QED BY <2>6 DEF KeptInv
<1>3. CASE LoginInsertAuth(t)
  <2>1. req[t].user \in User /\ req[t].group \in PermGroup /\ pc[t] = "ins_auth"
    BY <1>3 DEF LoginInsertAuth, LocalsOK, LoginStatement
  <2>2. auth_tokens'[req[t].user] # NULL
    BY <1>3, <2>1, NullIsNone DEF LoginInsertAuth
  <2>3. \A u \in User : u # req[t].user =>
                         auth_tokens'[u] = auth_tokens[u] /\ lost'[u] = lost[u]
    BY <1>3, <2>1 DEF LoginInsertAuth
  <2>4. \A u \in User : u # req[t].user =>
          /\ Known(u)' => Known(u)
          /\ BetweenDeleteAndInsert(u) => BetweenDeleteAndInsert(u)'
    BY <1>3, <2>1 DEF LoginInsertAuth, Known, BetweenDeleteAndInsert
  <2> QED BY <2>2, <2>3, <2>4 DEF KeptInv
<1>4. CASE LoginDeleteRefresh(t)
  <2>1. \A s \in Thread : pc[s] # pc'[s] => pc[s] = "del_refresh"
    BY <1>4 DEF LoginDeleteRefresh
  <2> QED BY <1>4, <2>1, KeptByOthers DEF LoginDeleteRefresh
<1>5. CASE LoginInsertRefresh(t)
  <2>1. /\ pc[t] = "ins_refresh"
        /\ pc' = [pc EXCEPT ![t] = "responded"]
        /\ UNCHANGED <<req, auth_tokens, lost>>
        /\ issued' \subseteq issued \cup {<<req[t].user, req[t].group>>}
    BY <1>5 DEF LoginInsertRefresh
  <2>2. \A u \in User : Known(u)' => Known(u)
    BY <2>1 DEF Known
  <2>3. \A u \in User : BetweenDeleteAndInsert(u) => BetweenDeleteAndInsert(u)'
    BY <2>1 DEF BetweenDeleteAndInsert
  <2> QED BY <2>1, <2>2, <2>3 DEF KeptInv
<1>6. CASE DeleteFailureIgnored(t)
  <2>1. /\ \/ pc[t] = "del_auth" /\ pc' = [pc EXCEPT ![t] = "ins_auth"]
           \/ pc[t] = "del_refresh" /\ pc' = [pc EXCEPT ![t] = "ins_refresh"]
        /\ UNCHANGED <<req, auth_tokens, lost, issued>>
    BY <1>6 DEF DeleteFailureIgnored
  <2> QED BY <2>1, KeptByOthers
<1> QED BY <1>1, <1>2, <1>3, <1>4, <1>5, <1>6 DEF Login

LEMMA StatementFailsKept ==
  ASSUME TInv, KeptInv, NEW t \in Thread, StatementFails(t)
  PROVE  KeptInv'
<1>1. /\ pc' = [pc EXCEPT ![t] = "responded"]
      /\ UNCHANGED <<auth_tokens, req, issued>>
  BY DEF StatementFails, Respond, Goto, tables
<1>2. \A u \in User : Known(u)' => Known(u)
  BY <1>1 DEF Known, Inserted, TInv, TypeOK
<1>3. \A u \in User : lost[u] => lost'[u]
  BY DEF StatementFails, TInv, TypeOK
<1>4. ASSUME NEW u \in User, BetweenDeleteAndInsert(u)
      PROVE  lost'[u] \/ BetweenDeleteAndInsert(u)'
  <2>1. PICK s \in Thread : pc[s] = "ins_auth" /\ req[s].user = u
    BY <1>4 DEF BetweenDeleteAndInsert
  <2>2. CASE s = t
    BY <2>1, <2>2 DEF StatementFails, TInv, TypeOK
  <2>3. CASE s # t
    BY <1>1, <2>1, <2>3 DEF BetweenDeleteAndInsert, TInv, TypeOK
  <2> QED BY <2>2, <2>3
<1> QED BY <1>1, <1>2, <1>3, <1>4 DEF KeptInv

LEMMA CrashKept ==
  ASSUME TInv, KeptInv, Crash
  PROVE  KeptInv'
<1>1. \A u \in User : Known(u)' => Known(u)
  BY DEF Crash, Known, Inserted
<1>2. \A u \in User : lost[u] \/ BetweenDeleteAndInsert(u) => lost'[u]
  BY DEF Crash, BetweenDeleteAndInsert
<1> QED BY <1>1, <1>2 DEF KeptInv, Crash, tables

LEMMA NextKept == TInv /\ KeptInv /\ [Next]_vars => KeptInv'
<1> SUFFICES ASSUME TInv, KeptInv, [Next]_vars PROVE KeptInv'
  OBVIOUS
<1> USE DEF Goto, Respond, tables, history, Inserted
<1>1. ASSUME NEW t \in Thread, Start(t) PROVE KeptInv'
  <2>1. /\ pc[t] = "idle"
        /\ \E label \in {"select", "grant", "load_perms", "responded"} :
             pc' = [pc EXCEPT ![t] = label]
        /\ \A s \in Thread : s # t => req'[s] = req[s]
        /\ UNCHANGED <<auth_tokens, issued, lost>>
    BY <1>1 DEF Start, StartLogin, LoginWithToken, StartRequest, TInv, TypeOK
  <2> QED BY <2>1, KeptByOthers DEF TInv, TypeOK
<1>2. ASSUME NEW t \in Thread, Login(t) PROVE KeptInv'
  BY <1>2, LoginKept
<1>3. ASSUME NEW t \in Thread, Bearer(t) PROVE KeptInv'
  <2>1. /\ pc[t] \in BearerStatement
        /\ \E label \in {"load_perms", "exec", "responded"} :
             pc' = [pc EXCEPT ![t] = label]
        /\ UNCHANGED <<req, auth_tokens, issued, lost>>
    BY <1>3 DEF Bearer, Grant, LoadPerms, ExecGet, ExecSetGroup, ExecDelete,
                BearerStatement
  <2> QED BY <2>1, KeptByOthers DEF TInv, TypeOK, BearerStatement
<1>4. ASSUME NEW t \in Thread, StatementFails(t) PROVE KeptInv'
  BY <1>4, StatementFailsKept
<1>5. ASSUME NEW t \in Thread, Finish(t) PROVE KeptInv'
  BY <1>5, KeptByOthers DEF Finish, TInv, TypeOK
<1>6. CASE Crash
  BY <1>6, CrashKept
<1>7. CASE UNCHANGED vars
  BY <1>7, KeptByOthers DEF vars
<1> QED BY <1>1, <1>2, <1>3, <1>4, <1>5, <1>6, <1>7 DEF Next

\* In every execution a user who was ever handed a token has a stored one,
\* unless a login of the user is, or was cut off, between DELETE and INSERT.
THEOREM TokenKeptTheorem == Spec => []TokenKept
<1>1. KeptInv => TokenKept
  BY DEF KeptInv, TokenKept, Known, BetweenDeleteAndInsert
<1> QED BY InitTInv, NextTInv, InitKept, NextKept, <1>1, PTL DEF Spec

----------------------------------------------------------------------------
(* Undisturbed logins.  LoginInv says, statement by statement, what such a  *)
(* login knows of the rows of its user; it is kept by the login's own       *)
(* steps, and by the steps of others because they either leave the rows of  *)
(* the user alone or disturb the login.                                     *)

Succeeded(t) == pc[t] = "responded" /\ resp[t] = "ok"

AfterSelect(t) ==
  pc[t] \in {"del_auth", "ins_auth", "del_refresh", "ins_refresh"}

LoginInv(t) ==
  LET u == req[t].user
  IN  u \in User /\ InLogin(t, u) /\ ~disturbed[t] =>
        /\ \A s \in Thread \ {t} : ~InLogin(s, u)
        /\ AfterSelect(t) \/ Succeeded(t) => users[u] = req[t].group
        /\ pc[t] = "ins_auth" /\ ~faulted[t] => auth_tokens[u] = NULL
        /\ pc[t] \in Inserted \/ Succeeded(t) => auth_tokens[u] = req[t].group
        /\ pc[t] = "ins_refresh" /\ ~faulted[t] => ~refresh_tokens[u]
        /\ Succeeded(t) => refresh_tokens[u]
        /\ pc[t] = "responded" /\ resp[t] = "db_error" => faulted[t]

AllLogins == \A t \in Thread : LoginInv(t)

LEMMA InitAllLogins == Init => AllLogins
  BY DEF Init, AllLogins, LoginInv, InLogin, NoRequest, LoginStatement

SameLocals(s) ==
  /\ pc'[s] = pc[s] /\ req'[s] = req[s]
  /\ resp'[s] = resp[s] /\ faulted'[s] = faulted[s]
  /\ disturbed[s] => disturbed'[s]

RowsKept(u) ==
  /\ users'[u] = users[u]
  /\ auth_tokens'[u] = auth_tokens[u]
  /\ refresh_tokens'[u] = refresh_tokens[u]

\* A step of thread t keeps LoginInv of any other thread s if, unless it
\* disturbs s, it leaves the rows of s's user alone and enters no login of it.
LEMMA OtherThread ==
  ASSUME NEW t \in Thread, NEW s \in Thread \ {t}, LoginInv(s),
         \A r \in Thread \ {t} : SameLocals(r),
         LET u == req[s].user
         IN  u \in User /\ InLogin(s, u) /\ ~disturbed'[s] =>
               RowsKept(u) /\ (InLogin(t, u)' => InLogin(t, u))
  PROVE  LoginInv(s)'
<1> SUFFICES ASSUME req[s].user \in User, InLogin(s, req[s].user), ~disturbed'[s]
             PROVE  LoginInv(s)'
  BY DEF LoginInv, SameLocals, InLogin
<1>1. RowsKept(req[s].user) /\ SameLocals(s) /\ ~disturbed[s]
  BY DEF SameLocals
<1>2. \A r \in Thread \ {s} : InLogin(r, req[s].user)' => InLogin(r, req[s].user)
  BY DEF SameLocals, InLogin
<1>3. \A r \in Thread \ {s} : ~InLogin(r, req[s].user)'
  BY <1>1, <1>2 DEF LoginInv
<1> QED BY <1>1, <1>3 DEF LoginInv, SameLocals, RowsKept, AfterSelect, Succeeded

----------------------------------------------------------------------------

\* A step that touches no row, moves no other thread and enters no login keeps
\* the invariant of the others.
LEMMA OthersWhenQuiet ==
  ASSUME TInv, AllLogins, NEW t \in Thread,
         UNCHANGED <<users, auth_tokens, refresh_tokens>>,
         \A r \in Thread \ {t} : SameLocals(r),
         \A u \in User : InLogin(t, u)' => InLogin(t, u)
  PROVE  \A s \in Thread \ {t} : LoginInv(s)'
<1> TAKE s \in Thread \ {t}
<1>1. \A u \in User : RowsKept(u)
  BY DEF RowsKept
<1>2. LoginInv(s)
  BY DEF AllLogins
<1>3. req'[s] = req[s]
  BY DEF SameLocals
<1>4. req[s].user \in User => (InLogin(t, req[s].user)' => InLogin(t, req[s].user))
  BY <1>3 DEF InLogin
<1> QED BY <1>1, <1>2, <1>4, OtherThread

LEMMA StartLoginKeeps ==
  ASSUME TInv, AllLogins, NEW t \in Thread, NEW u \in User, NEW b \in BOOLEAN,
         StartLogin(t, u, b)
  PROVE  AllLogins'
<1>1. /\ pc' = [pc EXCEPT ![t] = "select"]
      /\ req'[t].user = u /\ req'[t].kind = "login"
      /\ UNCHANGED <<users, auth_tokens, refresh_tokens, resp, faulted>>
      /\ \A s \in Thread \ {t} : req'[s] = req[s] /\ pc'[s] = pc[s]
  <2>1. req'[t] = [NoRequest EXCEPT !.user = u, !.password_ok = b]
    BY DEF StartLogin, TInv, TypeOK
  <2>2. req'[t].user = u /\ req'[t].kind = "login"
    BY <2>1 DEF NoRequest
  <2> QED BY <2>2 DEF StartLogin, Goto, tables, TInv, TypeOK
<1>2. /\ disturbed'[t] <=> \E r \in Thread \ {t} : InLogin(r, u)
      /\ \A s \in Thread \ {t} : disturbed'[s] <=> disturbed[s] \/ InLogin(s, u)
  BY DEF StartLogin
<1>3. \A s \in Thread \ {t} : SameLocals(s)
  BY <1>1, <1>2 DEF SameLocals
<1>4. ASSUME NEW s \in Thread \ {t} PROVE LoginInv(s)'
  <2>1. req[s].user \in User /\ InLogin(s, req[s].user) /\ ~disturbed'[s] =>
          req[s].user # u
    BY <1>2
  <2>2. req[s].user # u => ~InLogin(t, req[s].user)'
    BY <1>1 DEF InLogin
  <2> QED BY <1>1, <1>3, <2>1, <2>2, OtherThread DEF AllLogins, RowsKept
<1>5. LoginInv(t)'
  <2>1. \A s \in Thread \ {t} : InLogin(s, u)' => InLogin(s, u)
    BY <1>1 DEF InLogin
  <2>2. pc'[t] = "select"
    BY <1>1 DEF TInv, TypeOK
  <2> QED BY <1>1, <1>2, <2>1, <2>2
          DEF LoginInv, AfterSelect, Succeeded, Inserted
<1> QED BY <1>4, <1>5 DEF AllLogins

LEMMA StartKeeps ==
  ASSUME TInv, AllLogins, NEW t \in Thread, Start(t)
  PROVE  AllLogins'
<1>1. ASSUME NEW u \in User, NEW b \in BOOLEAN, StartLogin(t, u, b)
      PROVE  AllLogins'
  BY <1>1, StartLoginKeeps
<1>2. CASE ~\E u \in User, b \in BOOLEAN : StartLogin(t, u, b)
  <2>1. /\ pc[t] = "idle"
        /\ UNCHANGED <<users, auth_tokens, refresh_tokens, disturbed, faulted>>
        /\ \A r \in Thread \ {t} :
             pc'[r] = pc[r] /\ req'[r] = req[r] /\ resp'[r] = resp[r]
    BY <1>2 DEF Start, LoginWithToken, StartRequest, Respond, Goto, tables,
                history, TInv, TypeOK
  <2>2. \A u \in User : ~InLogin(t, u)'
    <3>1. CASE LoginWithToken(t)
      BY <3>1, NullIsNone
      DEF LoginWithToken, InLogin, TInv, LocalsOK
    <3>2. CASE pc'[t] \in {"grant", "load_perms"}
      BY <3>2 DEF InLogin, LoginStatement
    <3> QED BY <1>2, <3>1, <3>2 DEF Start, StartRequest, Goto, TInv, TypeOK
  <2>3. \A s \in Thread \ {t} : LoginInv(s)'
    BY <2>1, <2>2, OthersWhenQuiet DEF SameLocals
  <2>4. LoginInv(t)'
    BY <2>2 DEF LoginInv
  <2> QED BY <2>3, <2>4 DEF AllLogins
<1> QED BY <1>1, <1>2

----------------------------------------------------------------------------
(* The steps of login                                                      *)

\* A thread that is logging u in changes rows of u only, and any other login
\* of u is disturbed already.
LEMMA OthersDuringLogin ==
  ASSUME TInv, AllLogins, NEW t \in Thread, pc[t] \in LoginStatement,
         \A r \in Thread \ {t} : SameLocals(r),
         req'[t].user = req[t].user,
         \A u \in User \ {req[t].user} : RowsKept(u)
  PROVE  \A s \in Thread \ {t} : LoginInv(s)'
<1> SUFFICES ASSUME NEW s \in Thread \ {t} PROVE LoginInv(s)'
  OBVIOUS
<1> DEFINE u == req[s].user
<1>1. LoginInv(s) /\ SameLocals(s)
  BY DEF AllLogins
<1>2. InLogin(t, req[t].user)
  BY DEF InLogin, TInv, LocalsOK
<1>3. u \in User /\ InLogin(s, u) /\ ~disturbed'[s] => u # req[t].user
  BY <1>1, <1>2 DEF LoginInv, SameLocals
<1>4. u # req[t].user => ~(InLogin(t, u)')
  BY <1>1 DEF InLogin, SameLocals
<1>5. u \in User /\ InLogin(s, u) /\ ~disturbed'[s] =>
        RowsKept(u) /\ ~(InLogin(t, u)')
  BY <1>3, <1>4
<1> QED BY <1>1, <1>5, OtherThread

\* The own step of a login: nobody else is logging the user in afterwards.
LEMMA StillAlone ==
  ASSUME NEW t \in Thread, LoginInv(t), pc[t] \in LoginStatement, TInv,
         \A r \in Thread \ {t} : SameLocals(r),
         req'[t].user = req[t].user, ~disturbed[t]
  PROVE  \A s \in Thread \ {t} : ~InLogin(s, req[t].user)'
<1>1. req[t].user \in User /\ InLogin(t, req[t].user)
  BY DEF InLogin, TInv, LocalsOK
<1>2. \A s \in Thread \ {t} : ~InLogin(s, req[t].user)
  BY <1>1 DEF LoginInv
<1> QED BY <1>2 DEF SameLocals, InLogin

LEMMA LoginKeeps ==
  ASSUME TInv, AllLogins, NEW t \in Thread, Login(t)
  PROVE  AllLogins'
<1> USE DEF Goto, Respond, tables, history
<1> DEFINE u == req[t].user
<1>1. pc[t] \in LoginStatement /\ u \in User /\ LoginInv(t)
      /\ InLogin(t, u)
  BY DEF Login, LoginSelect, LoginDeleteAuth, LoginInsertAuth,
         LoginDeleteRefresh, LoginInsertRefresh, DeleteFailureIgnored,
         LoginStatement, TInv, LocalsOK, AllLogins, InLogin
<1>2. \A r \in Thread \ {t} : SameLocals(r)
  BY DEF Login, LoginSelect, LoginDeleteAuth, LoginInsertAuth,
         LoginDeleteRefresh, LoginInsertRefresh, DeleteFailureIgnored,
         SameLocals, TInv, TypeOK
<1>3. req'[t].user = u
  BY DEF Login, LoginSelect, LoginDeleteAuth, LoginInsertAuth,
         LoginDeleteRefresh, LoginInsertRefresh, DeleteFailureIgnored,
         TInv, TypeOK, Request
<1>4. \A v \in User \ {u} : RowsKept(v)
  BY DEF Login, LoginSelect, LoginDeleteAuth, LoginInsertAuth,
         LoginDeleteRefresh, LoginInsertRefresh, DeleteFailureIgnored,
         RowsKept, TInv, TypeOK
<1>5. \A s \in Thread \ {t} : LoginInv(s)'
  BY <1>1, <1>2, <1>3, <1>4, OthersDuringLogin
<1>6. disturbed'[t] <=> disturbed[t]
  BY <1>1 DEF Login, LoginSelect, LoginDeleteAuth, LoginInsertAuth,
         LoginDeleteRefresh, LoginInsertRefresh, DeleteFailureIgnored,
         PastGrant, InLogin, TInv, TypeOK
<1>7. ASSUME ~disturbed[t]
      PROVE  \A s \in Thread \ {t} : ~InLogin(s, req[t].user)'
  BY <1>1, <1>2, <1>3, <1>7, StillAlone
<1> DEFINE Known1 ==
      /\ AfterSelect(t) => users[u] = req[t].group
      /\ pc[t] = "ins_auth" /\ ~faulted[t] => auth_tokens[u] = NULL
      /\ pc[t] \in Inserted => auth_tokens[u] = req[t].group
      /\ pc[t] = "ins_refresh" /\ ~faulted[t] => ~refresh_tokens[u]
<1>8. ~disturbed[t] => Known1
  BY <1>1 DEF LoginInv
<1> DEFINE After ==
      /\ AfterSelect(t)' \/ Succeeded(t)' => users'[u] = req'[t].group
      /\ pc'[t] = "ins_auth" /\ ~faulted'[t] => auth_tokens'[u] = NULL
      /\ pc'[t] \in Inserted \/ Succeeded(t)' => auth_tokens'[u] = req'[t].group
      /\ pc'[t] = "ins_refresh" /\ ~faulted'[t] => ~refresh_tokens'[u]
      /\ Succeeded(t)' => refresh_tokens'[u]
      /\ pc'[t] = "responded" /\ resp'[t] = "db_error" => faulted'[t]
<1>9. ASSUME Known1 PROVE After
  <2> USE <1>9 DEF AfterSelect, Succeeded, Inserted, TInv, TypeOK
  <2>1. CASE LoginSelect(t)
    <3>1. CASE pc'[t] = "del_auth"
      BY <1>1, <2>1, <3>1 DEF LoginSelect, Request
    <3>2. CASE pc'[t] = "responded" /\ resp'[t] = "invalid_params"
      BY <3>2
    <3> QED BY <2>1, <3>1, <3>2 DEF LoginSelect
  <2>2. CASE LoginDeleteAuth(t)
    BY <1>1, <2>2 DEF LoginDeleteAuth
  <2>3. CASE LoginInsertAuth(t)
    BY <1>1, <2>3 DEF LoginInsertAuth
  <2>4. CASE LoginDeleteRefresh(t)
    BY <1>1, <2>4 DEF LoginDeleteRefresh
  <2>5. CASE LoginInsertRefresh(t)
    BY <1>1, <2>5 DEF LoginInsertRefresh
  <2>6. CASE DeleteFailureIgnored(t)
    BY <1>1, <2>6 DEF DeleteFailureIgnored
  <2> QED BY <2>1, <2>2, <2>3, <2>4, <2>5, <2>6 DEF Login
<1>10. LoginInv(t)'
  BY <1>3, <1>6, <1>7, <1>8, <1>9 DEF LoginInv
<1> QED BY <1>5, <1>10 DEF AllLogins

----------------------------------------------------------------------------
(* The steps of the other requests, failures and the end of a handler      *)

LEMMA BearerKeeps ==
  ASSUME TInv, AllLogins, NEW t \in Thread, Bearer(t)
  PROVE  AllLogins'
<1> USE DEF Goto, Respond, tables, history
<1>1. /\ req[t].kind # "login" /\ req[t].target \in User
      /\ req' = req /\ UNCHANGED <<auth_tokens, refresh_tokens, faulted>>
      /\ \A r \in Thread \ {t} : pc'[r] = pc[r] /\ resp'[r] = resp[r]
  BY DEF Bearer, Grant, LoadPerms, ExecGet, ExecSetGroup, ExecDelete,
         BearerStatement, TInv, TypeOK, LocalsOK
<1>2. \A u \in User : ~(InLogin(t, u)')
  BY <1>1 DEF InLogin
<1>3. \A s \in Thread \ {t} : LoginInv(s)'
  <2>1. CASE Grant(t) \/ LoadPerms(t) \/ ExecGet(t)
    <3>1. UNCHANGED <<users, disturbed>>
      BY <2>1 DEF Grant, LoadPerms, ExecGet
    <3> QED BY <1>1, <1>2, <3>1, OthersWhenQuiet DEF SameLocals
  <2>2. CASE ExecSetGroup(t) \/ ExecDelete(t)
    <3> SUFFICES ASSUME NEW s \in Thread \ {t} PROVE LoginInv(s)'
      OBVIOUS
    <3>1. \A u \in User \ {req[t].target} : users'[u] = users[u]
      BY <2>2 DEF ExecSetGroup, ExecDelete, TInv, TypeOK
    <3>2. \/ users' = users /\ disturbed' = disturbed
          \/ disturbed' = [r \in Thread |->
                             disturbed[r] \/ InLogin(r, req[t].target)]
      BY <2>2 DEF ExecSetGroup, ExecDelete
    <3>3. \A r \in Thread : disturbed[r] => disturbed'[r]
      BY <3>2
    <3>4. \A r \in Thread \ {t} : SameLocals(r)
      BY <1>1, <3>3 DEF SameLocals
    <3>5. req[s].user \in User /\ InLogin(s, req[s].user) /\ ~disturbed'[s] =>
            RowsKept(req[s].user) /\ ~(InLogin(t, req[s].user)')
      <4>1. ~(InLogin(t, req[s].user)')
        BY <1>1 DEF InLogin
      <4>2. InLogin(s, req[s].user) /\ ~disturbed'[s] =>
              users' = users \/ req[s].user # req[t].target
        BY <3>2
      <4> QED BY <1>1, <3>1, <4>1, <4>2 DEF RowsKept
    <3>6. LoginInv(s)
      BY DEF AllLogins
    <3> QED BY <3>4, <3>5, <3>6, OtherThread
  <2> QED BY <2>1, <2>2 DEF Bearer
<1>4. LoginInv(t)'
  BY <1>1 DEF LoginInv, InLogin
<1> QED BY <1>3, <1>4 DEF AllLogins

LEMMA StatementFailsKeeps ==
  ASSUME TInv, AllLogins, NEW t \in Thread, StatementFails(t)
  PROVE  AllLogins'
<1>1. /\ pc[t] \in Statement /\ pc' = [pc EXCEPT ![t] = "responded"]
      /\ resp' = [resp EXCEPT ![t] = "db_error"]
      /\ faulted' = [faulted EXCEPT ![t] = TRUE]
      /\ UNCHANGED <<users, auth_tokens, refresh_tokens, req, disturbed>>
  BY DEF StatementFails, Respond, Goto, tables
<1>2. \A r \in Thread \ {t} : SameLocals(r)
  BY <1>1 DEF SameLocals, TInv, TypeOK
<1>3. CASE pc[t] \in LoginStatement
  <2>1. \A s \in Thread \ {t} : LoginInv(s)'
    BY <1>1, <1>2, <1>3, OthersDuringLogin DEF RowsKept
  <2>2. ASSUME ~disturbed[t]
        PROVE  \A s \in Thread \ {t} : ~InLogin(s, req[t].user)'
    BY <1>1, <1>2, <1>3, <2>2, StillAlone DEF AllLogins
  <2>3. LoginInv(t)'
    BY <1>1, <2>2
    DEF LoginInv, AfterSelect, Succeeded, Inserted, TInv, TypeOK
  <2> QED BY <2>1, <2>3 DEF AllLogins
<1>4. CASE pc[t] \in BearerStatement
  <2>1. req[t].kind # "login"
    BY <1>4 DEF TInv, LocalsOK
  <2>2. \A u \in User : ~(InLogin(t, u)')
    BY <1>1, <2>1 DEF InLogin
  <2>3. \A s \in Thread \ {t} : LoginInv(s)'
    BY <1>1, <1>2, <2>2, OthersWhenQuiet
  <2>4. LoginInv(t)'
    BY <1>1, <2>1 DEF LoginInv, InLogin
  <2> QED BY <2>3, <2>4 DEF AllLogins
<1> QED BY <1>1, <1>3, <1>4 DEF Statement

LEMMA FinishKeeps ==
  ASSUME TInv, AllLogins, NEW t \in Thread, Finish(t)
  PROVE  AllLogins'
<1>1. /\ req'[t].user = NULL
      /\ UNCHANGED <<users, auth_tokens, refresh_tokens>>
  BY DEF Finish, NoRequest, TInv, TypeOK, tables
<1>2. \A r \in Thread \ {t} : SameLocals(r)
  BY DEF Finish, Goto, SameLocals, TInv, TypeOK
<1>3. \A u \in User : ~(InLogin(t, u)')
  BY <1>1, NullIsNone DEF InLogin
<1>4. LoginInv(t)'
  BY <1>1, NullIsNone DEF LoginInv
<1> QED BY <1>1, <1>2, <1>3, <1>4, OthersWhenQuiet DEF AllLogins

LEMMA CrashKeeps ==
  ASSUME Crash
  PROVE  AllLogins'
<1>1. \A t \in Thread : req'[t].user = NULL
  BY DEF Crash, NoRequest
<1> QED BY <1>1, NullIsNone DEF AllLogins, LoginInv

LEMMA NextAllLogins == TInv /\ AllLogins /\ [Next]_vars => AllLogins'
<1> SUFFICES ASSUME TInv, AllLogins, [Next]_vars PROVE AllLogins'
  OBVIOUS
<1>1. CASE Next
  BY <1>1, StartKeeps, LoginKeeps, BearerKeeps, StatementFailsKeeps, FinishKeeps,
     CrashKeeps DEF Next
<1>2. CASE UNCHANGED vars
  BY <1>2 DEF vars, tables, history, AllLogins, LoginInv, InLogin, AfterSelect,
              Succeeded
<1> QED BY <1>1, <1>2

\* In every execution a login that is left alone succeeds unless a statement
\* of it fails, and answers with the stored token, which claims the group the
\* account has.
THEOREM UndisturbedTheorem == Spec => []UndisturbedLogin
<1>1. AllLogins => UndisturbedLogin
  BY DEF AllLogins, LoginInv, UndisturbedLogin, Succeeded
<1> QED BY InitTInv, NextTInv, InitAllLogins, NextAllLogins, <1>1, PTL DEF Spec

----------------------------------------------------------------------------
(* Accounts change only by authority.  The invariant relates a handler that *)
(* is past the token check to the table the token was checked against       *)
(* (StillStored) and to the checks it has passed (Admitted); the rest is    *)
(* what the permission algebra lets through.                                *)

StillStored(t) ==
  PastGrant(t, req[t].user) /\ req[t].user # NULL =>
    auth_tokens[req[t].user] = req[t].group \/ disturbed[t]

Admitted(t) ==
  /\ pc[t] = "exec" => Refusal(t) = "none"
  /\ req[t].kind = "delete" => req[t].newgroup = NULL

AInv == \A t \in Thread : StillStored(t) /\ Admitted(t)

LEMMA InitAInv == Init => AInv
  BY DEF Init, AInv, StillStored, Admitted, PastGrant, NoRequest

\* What a role that acts on an account may do to it.
LEMMA RegroupNeedsAdmin ==
  ASSUME TInv, RightsOnAccounts, NEW t \in Thread,
         pc[t] = "exec", req[t].kind = "set_group",
         IsSet(AuthorizedModel(t), "permission_group")
  PROVE  req[t].user # NULL /\ req[t].group = "admin"
<1> DEFINE pp == EffectiveParams(t)
           g == GrantedParams(t).group_id
<1>1. "permission_group" \in Field
  BY SessionAssumption
<1>2. "permission_group" \in Surviving({"UPDATE"}, pp, UsersPermissions, RequestModel(t))
  BY <1>1 DEF IsSet, AuthorizedModel, Erased, Desired
<1>3. "UPDATE" \in UsersPermissions[pp.group_id]["permission_group"]
  BY <1>2 DEF Surviving, FieldPerms, have_permissions, RightsOnAccounts
<1>4. pp.group_id \in {g, "other"}
      /\ (pp.group_id # "other" => "UPDATE" \in UsersPermissions[g]["instance"])
  BY DEF EffectiveParams, AfterInstanceCheck, have_group_perms,
         have_permissions, Desired
<1>5. pp.group_id = g /\ "UPDATE" \in UsersPermissions[g]["instance"]
  BY <1>3, <1>4 DEF RightsOnAccounts
<1>6. g = IF req[t].user = NULL THEN "guest" ELSE req[t].group
  BY DEF GrantedParams, GuestParams
<1>7. req[t].user # NULL => req[t].group \in PermGroup
  BY DEF TInv, TypeOK, LocalsOK, BearerStatement
<1> QED BY <1>3, <1>5, <1>6, <1>7 DEF RightsOnAccounts

LEMMA DeleteNeedsOwner ==
  ASSUME TInv, RightsOnAccounts, NEW t \in Thread, Admitted(t),
         pc[t] = "exec", req[t].kind = "delete"
  PROVE  req[t].user # NULL /\ req[t].user = req[t].target
<1> DEFINE pp == EffectiveParams(t)
           g == GrantedParams(t).group_id
<1>1. AuthorizedModel(t) # EmptyModel /\ req[t].newgroup = NULL
  BY DEF Admitted, Refusal
<1>2. \A f \in Field : RequestModel(t)[f] # NULL => f = "id"
  BY <1>1 DEF RequestModel
<1>3. PICK f \in Field : AuthorizedModel(t)[f] # NULL
  BY <1>1 DEF AuthorizedModel, Erased, EmptyModel
<1>4. f = "id" /\ f \in Surviving({"DELETE"}, pp, UsersPermissions, RequestModel(t))
  BY <1>2, <1>3 DEF AuthorizedModel, Erased, Desired
<1>5. g = IF req[t].user = NULL THEN "guest" ELSE req[t].group
  BY DEF GrantedParams, GuestParams
<1>6. req[t].user # NULL => req[t].group \in PermGroup
  BY DEF TInv, TypeOK, LocalsOK, BearerStatement
<1>7. pp.group_id \in {g, "other"}
  BY DEF EffectiveParams, AfterInstanceCheck
<1>8. "DELETE" \notin UsersPermissions[pp.group_id]["id"]
  BY <1>5, <1>6, <1>7 DEF RightsOnAccounts
<1>9. OwnedBy(pp, RequestModel(t))
  BY <1>4, <1>8 DEF Surviving, FieldPerms, have_permissions
<1>10. /\ pp.user_id # NULL /\ pp.user_id = GrantedParams(t).user_id
       /\ pp.owner_field_name = "id"
  BY <1>9 DEF OwnedBy, EffectiveParams, AfterInstanceCheck, GrantedParams,
              GuestParams
<1>11. RequestModel(t)["id"] = req[t].target
  BY SessionAssumption DEF RequestModel
<1>12. GrantedParams(t).user_id = req[t].user
  BY DEF GrantedParams, GuestParams
<1> QED BY <1>9, <1>10, <1>11, <1>12 DEF OwnedBy

----------------------------------------------------------------------------

\* A thread that does not move keeps its admission; it keeps its stored token
\* as well if the row of its bearer stays or it is marked as disturbed.
LEMMA OthersKeep ==
  ASSUME AInv, NEW s \in Thread, pc'[s] = pc[s], req'[s] = req[s],
         disturbed[s] => disturbed'[s],
         PastGrant(s, req[s].user) /\ req[s].user # NULL =>
           auth_tokens'[req[s].user] = auth_tokens[req[s].user] \/ disturbed'[s]
  PROVE  StillStored(s)' /\ Admitted(s)'
<1>1. StillStored(s) /\ Admitted(s)
  BY DEF AInv
<1>2. StillStored(s)'
  BY <1>1 DEF StillStored, PastGrant
<1>3. Refusal(s)' = Refusal(s)
  BY DEF Refusal, GrantedParams, EffectiveParams, AuthorizedModel,
         NothingSurvives, RequestModel
<1>4. Admitted(s)'
  BY <1>1, <1>3 DEF Admitted
<1> QED BY <1>2, <1>4

\* A handler that is neither past the grant nor at its statement.
LEMMA NotPastGrant ==
  ASSUME NEW t \in Thread, pc'[t] \notin {"load_perms", "exec"},
         req'[t].kind = "delete" => req'[t].newgroup = NULL
  PROVE  StillStored(t)' /\ Admitted(t)'
  BY DEF StillStored, Admitted, PastGrant

LEMMA StartAInv ==
  ASSUME TInv, AInv, NEW t \in Thread, Start(t)
  PROVE  AInv'
<1> USE DEF Goto, Respond, tables, history
<1>1. /\ auth_tokens' = auth_tokens /\ pc[t] = "idle"
      /\ \A s \in Thread \ {t} : /\ pc'[s] = pc[s] /\ req'[s] = req[s]
                                 /\ disturbed[s] => disturbed'[s]
  BY DEF Start, StartLogin, LoginWithToken, StartRequest, TInv, TypeOK
<1>2. \A s \in Thread \ {t} : StillStored(s)' /\ Admitted(s)'
  BY <1>1, OthersKeep
<1>3. StillStored(t)' /\ Admitted(t)'
  <2>1. ASSUME NEW u \in User, NEW b \in BOOLEAN, StartLogin(t, u, b)
        PROVE  StillStored(t)' /\ Admitted(t)'
    <3>1. req'[t] = [NoRequest EXCEPT !.user = u, !.password_ok = b]
      BY <2>1 DEF StartLogin, TInv, TypeOK
    <3>2. req'[t].kind = "login"
      BY <3>1 DEF NoRequest
    <3>3. pc'[t] = "select"
      BY <2>1 DEF StartLogin, TInv, TypeOK
    <3> QED BY <3>2, <3>3, NotPastGrant
  <2>2. CASE LoginWithToken(t)
    BY <2>2, NotPastGrant DEF LoginWithToken, AInv, Admitted, TInv, TypeOK
  <2>3. ASSUME NEW kind \in RequestKind, NEW token \in issued \cup {NULL},
               NEW target \in User, NEW g \in PermGroup \cup {NULL},
               StartRequest(t, kind, token, target, g),
               kind = "delete" => g = NULL
        PROVE  StillStored(t)' /\ Admitted(t)'
    <3>1. req'[t] = [kind |-> kind,
                     user |-> IF token = NULL THEN NULL ELSE token[1],
                     group |-> IF token = NULL THEN NULL ELSE token[2],
                     target |-> target, newgroup |-> g, password_ok |-> FALSE]
      BY <2>3 DEF StartRequest, TInv, TypeOK
    <3>2. pc'[t] = IF token = NULL THEN "load_perms" ELSE "grant"
      BY <2>3 DEF StartRequest, TInv, TypeOK
    <3>3. req'[t].kind = "delete" => req'[t].newgroup = NULL
      BY <2>3, <3>1
    <3>4. CASE token = NULL
      BY <3>1, <3>2, <3>3, <3>4 DEF StillStored, Admitted
    <3>5. CASE token # NULL
      BY <3>2, <3>3, <3>5, NotPastGrant
    <3> QED BY <3>4, <3>5
  <2> QED BY <2>1, <2>2, <2>3 DEF Start, RequestKind
<1> QED BY <1>2, <1>3 DEF AInv

LEMMA LoginAInv ==
  ASSUME TInv, AInv, NEW t \in Thread, Login(t)
  PROVE  AInv'
<1> USE DEF Goto, Respond, tables, history
<1>1. pc[t] \in LoginStatement /\ req[t].kind = "login" /\ req[t].user \in User
  BY DEF Login, LoginSelect, LoginDeleteAuth, LoginInsertAuth,
         LoginDeleteRefresh, LoginInsertRefresh, DeleteFailureIgnored,
         LoginStatement, TInv, LocalsOK
<1>2. \A s \in Thread \ {t} : /\ pc'[s] = pc[s] /\ req'[s] = req[s]
                              /\ disturbed[s] => disturbed'[s]
  BY DEF Login, LoginSelect, LoginDeleteAuth, LoginInsertAuth,
         LoginDeleteRefresh, LoginInsertRefresh, DeleteFailureIgnored,
         TInv, TypeOK
<1>3. ASSUME NEW s \in Thread \ {t}
      PROVE  StillStored(s)' /\ Admitted(s)'
  <2>1. PastGrant(s, req[s].user) /\ req[s].user # NULL =>
          auth_tokens'[req[s].user] = auth_tokens[req[s].user] \/ disturbed'[s]
    <3> SUFFICES ASSUME PastGrant(s, req[s].user), req[s].user # NULL
                 PROVE  \/ auth_tokens'[req[s].user] = auth_tokens[req[s].user]
                        \/ disturbed'[s]
      OBVIOUS
    <3>1. CASE LoginDeleteAuth(t)
      <4>1. disturbed'[s] <=> disturbed[s] \/ PastGrant(s, req[t].user)
        BY <3>1 DEF LoginDeleteAuth
      <4>2. CASE req[s].user = req[t].user
        BY <4>1, <4>2
      <4>3. CASE req[s].user # req[t].user
        BY <3>1, <4>3 DEF LoginDeleteAuth, TInv, TypeOK
      <4> QED BY <4>2, <4>3
    <3>2. CASE LoginInsertAuth(t) /\ auth_tokens[req[t].user] = NULL
      <4>1. CASE req[s].user = req[t].user
        <5>1. req[s].group \in PermGroup
          BY DEF TInv, TypeOK, LocalsOK, PastGrant, BearerStatement
        <5>2. StillStored(s) /\ auth_tokens[req[s].user] # req[s].group
          BY <3>2, <4>1, <5>1, NullIsNone DEF AInv
        <5> QED BY <1>2, <5>2 DEF StillStored
      <4>2. CASE req[s].user # req[t].user
        <5>1. req[s].user \in User
          BY DEF TInv, TypeOK, Request
        <5>2. auth_tokens' = [auth_tokens EXCEPT ![req[t].user] = req[t].group]
          BY <3>2 DEF LoginInsertAuth
        <5> QED BY <4>2, <5>1, <5>2 DEF TInv, TypeOK
      <4> QED BY <4>1, <4>2
    <3>3. CASE auth_tokens' = auth_tokens
      BY <3>3
    <3> QED BY <3>1, <3>2, <3>3 DEF Login, LoginSelect, LoginInsertAuth,
               LoginDeleteRefresh, LoginInsertRefresh, DeleteFailureIgnored
  <2> QED BY <1>2, <2>1, OthersKeep
<1>4. pc'[t] \notin {"load_perms", "exec"}
  BY <1>1 DEF Login, LoginSelect, LoginDeleteAuth, LoginInsertAuth,
         LoginDeleteRefresh, LoginInsertRefresh, DeleteFailureIgnored,
         LoginStatement, TInv, TypeOK
<1>5. req'[t].kind = "login"
  <2>1. req[t] \in Request
    BY DEF TInv, TypeOK
  <2>2. req' = req \/ req' = [req EXCEPT ![t].group = users[req[t].user]]
    BY DEF Login, LoginSelect, LoginDeleteAuth, LoginInsertAuth,
           LoginDeleteRefresh, LoginInsertRefresh, DeleteFailureIgnored
  <2> QED BY <1>1, <2>1, <2>2 DEF TInv, TypeOK, Request
<1>6. StillStored(t)' /\ Admitted(t)'
  BY <1>4, <1>5, NotPastGrant
<1> QED BY <1>3, <1>6 DEF AInv

LEMMA BearerAInv ==
  ASSUME TInv, AInv, NEW t \in Thread, Bearer(t)
  PROVE  AInv'
<1> USE DEF Goto, Respond, tables, history
<1>1. /\ auth_tokens' = auth_tokens /\ req' = req
      /\ \A s \in Thread \ {t} : pc'[s] = pc[s]
  BY DEF Bearer, Grant, LoadPerms, ExecGet, ExecSetGroup, ExecDelete,
         TInv, TypeOK
<1>2. \A s \in Thread : disturbed[s] => disturbed'[s]
  BY DEF Bearer, Grant, LoadPerms, ExecGet, ExecSetGroup, ExecDelete,
         TInv, TypeOK
<1>3. \A s \in Thread \ {t} : StillStored(s)' /\ Admitted(s)'
  BY <1>1, <1>2, OthersKeep
<1>4. StillStored(t)' /\ Admitted(t)'
  <2>1. StillStored(t) /\ Admitted(t)
    BY DEF AInv
  <2>2. CASE Grant(t)
    <3>1. CASE auth_tokens[req[t].user] = req[t].group
      <4>1. pc'[t] = "load_perms"
        BY <2>2, <3>1 DEF Grant, TInv, TypeOK
      <4> QED BY <1>1, <2>1, <3>1, <4>1 DEF StillStored, Admitted
    <3>2. CASE auth_tokens[req[t].user] # req[t].group
      <4>1. pc'[t] = "responded"
        BY <2>2, <3>2 DEF Grant, TInv, TypeOK
      <4> QED BY <1>1, <2>1, <4>1, NotPastGrant DEF Admitted
    <3> QED BY <3>1, <3>2
  <2>3. CASE LoadPerms(t)
    <3>1. CASE Refusal(t) = "none"
      <4>1. pc[t] = "load_perms"
        BY <2>3 DEF LoadPerms
      <4>2. PastGrant(t, req[t].user)
        BY <4>1 DEF PastGrant, TInv, LocalsOK, BearerStatement
      <4>3. StillStored(t)'
        BY <1>1, <1>2, <2>1, <4>2 DEF StillStored
      <4>4. Refusal(t)' = Refusal(t)
        BY <1>1 DEF Refusal, GrantedParams, EffectiveParams, AuthorizedModel,
                    NothingSurvives, RequestModel
      <4> QED BY <1>1, <2>1, <3>1, <4>3, <4>4 DEF Admitted
    <3>2. CASE Refusal(t) # "none"
      <4>1. pc'[t] = "responded"
        BY <2>3, <3>2 DEF LoadPerms, TInv, TypeOK
      <4> QED BY <1>1, <2>1, <4>1, NotPastGrant DEF Admitted
    <3> QED BY <3>1, <3>2
  <2>4. CASE ExecGet(t) \/ ExecSetGroup(t) \/ ExecDelete(t)
    <3>1. pc'[t] = "responded"
      BY <2>4 DEF ExecGet, ExecSetGroup, ExecDelete, TInv, TypeOK
    <3> QED BY <1>1, <2>1, <3>1, NotPastGrant DEF Admitted
  <2> QED BY <2>2, <2>3, <2>4 DEF Bearer
<1> QED BY <1>3, <1>4 DEF AInv

LEMMA FailureAInv ==
  ASSUME TInv, AInv, (\E t \in Thread : StatementFails(t) \/ Finish(t)) \/ Crash
  PROVE  AInv'
<1> USE DEF Goto, Respond, tables, history
<1>1. ASSUME NEW t \in Thread, StatementFails(t) PROVE AInv'
  <2>1. /\ UNCHANGED <<auth_tokens, req, disturbed>>
        /\ pc' = [pc EXCEPT ![t] = "responded"]
    BY <1>1 DEF StatementFails
  <2>2. \A s \in Thread \ {t} : StillStored(s)' /\ Admitted(s)'
    BY <2>1, OthersKeep DEF TInv, TypeOK
  <2>3. StillStored(t)' /\ Admitted(t)'
    BY <2>1, NotPastGrant DEF AInv, Admitted, TInv, TypeOK
  <2> QED BY <2>2, <2>3 DEF AInv
<1>2. ASSUME NEW t \in Thread, Finish(t) PROVE AInv'
  <2>1. /\ UNCHANGED auth_tokens
        /\ pc'[t] = "idle" /\ req'[t] = NoRequest
        /\ \A s \in Thread \ {t} : /\ pc'[s] = pc[s] /\ req'[s] = req[s]
                                   /\ disturbed'[s] = disturbed[s]
    BY <1>2 DEF Finish, TInv, TypeOK
  <2>2. \A s \in Thread \ {t} : StillStored(s)' /\ Admitted(s)'
    BY <2>1, OthersKeep
  <2>3. StillStored(t)' /\ Admitted(t)'
    BY <2>1, NotPastGrant DEF NoRequest
  <2> QED BY <2>2, <2>3 DEF AInv
<1>3. CASE Crash
  <2>1. \A t \in Thread : pc'[t] = "idle" /\ req'[t] = NoRequest
    BY <1>3 DEF Crash
  <2> QED BY <2>1, NotPastGrant DEF NoRequest, AInv
<1> QED BY <1>1, <1>2, <1>3

LEMMA NextAInv == TInv /\ AInv /\ [Next]_vars => AInv'
<1> SUFFICES ASSUME TInv, AInv, [Next]_vars PROVE AInv'
  OBVIOUS
<1>1. CASE Next
  BY <1>1, StartAInv, LoginAInv, BearerAInv, FailureAInv DEF Next
<1>2. CASE UNCHANGED vars
  BY <1>2, OthersKeep DEF vars, tables, history, AInv
<1> QED BY <1>1, <1>2

----------------------------------------------------------------------------

\* The step that changes an account is the statement of one handler.
LEMMA WhoChangesAccounts ==
  ASSUME TInv, Next, NEW u \in User, users'[u] # users[u]
  PROVE  \E t \in Thread : u = req[t].target /\ (ExecSetGroup(t) \/ ExecDelete(t))
<1> USE DEF Respond, tables, history
<1>1. PICK t \in Thread : ExecSetGroup(t) \/ ExecDelete(t)
  BY DEF Next, Start, StartLogin, LoginWithToken, StartRequest, Login, LoginSelect,
         LoginDeleteAuth, LoginInsertAuth, LoginDeleteRefresh,
         LoginInsertRefresh, DeleteFailureIgnored, Bearer, Grant, LoadPerms,
         ExecGet, StatementFails, Finish, Crash
<1> QED BY <1>1 DEF ExecSetGroup, ExecDelete, TInv, TypeOK

LEMMA ChangeByAuthority ==
  ASSUME TInv, AInv, RightsOnAccounts, Next, NEW u \in User, users'[u] # users[u]
  PROVE  /\ users[u] # NULL
         /\ \E t \in Thread : /\ ByAuthority(t)
                             /\ IF users'[u] = NULL THEN req[t].user = u
                                                    ELSE req[t].group = "admin"
<1>1. PICK t \in Thread : u = req[t].target /\ (ExecSetGroup(t) \/ ExecDelete(t))
  BY WhoChangesAccounts
<1>2. pc[t] = "exec" /\ StillStored(t) /\ Admitted(t)
  BY <1>1 DEF ExecSetGroup, ExecDelete, AInv
<1>3. ASSUME req[t].user # NULL PROVE ByAuthority(t)
  BY <1>2, <1>3
  DEF ByAuthority, StillStored, PastGrant, TInv, LocalsOK, BearerStatement
<1>4. CASE ExecSetGroup(t)
  <2>1. IsSet(AuthorizedModel(t), "permission_group") /\ users[u] # NULL
    BY <1>1, <1>4 DEF ExecSetGroup
  <2>2. req[t].kind = "set_group"
    BY <1>4 DEF ExecSetGroup
  <2>3. users'[u] # NULL
    BY <1>1, <1>4, <2>1, GroupWritten, NullIsNone DEF ExecSetGroup, TInv, TypeOK
  <2>4. req[t].user # NULL /\ req[t].group = "admin"
    BY <1>2, <2>1, <2>2, RegroupNeedsAdmin
  <2> QED BY <1>3, <2>1, <2>3, <2>4
<1>5. CASE ExecDelete(t)
  <2>1. users'[u] = NULL
    BY <1>1, <1>5 DEF ExecDelete, TInv, TypeOK
  <2>2. req[t].user # NULL /\ req[t].user = u
    BY <1>1, <1>2, <1>5, DeleteNeedsOwner DEF ExecDelete
  <2> QED BY <1>3, <2>1, <2>2
<1> QED BY <1>1, <1>4, <1>5

\* In every execution an account is regrouped only by the bearer of an admin's
\* token and deleted only by its own, with the token that is stored at that
\* moment unless a login replaced it after the check.
THEOREM AuthorityTheorem ==
  ASSUME RightsOnAccounts
  PROVE  Spec => AccountsChangeByAuthority
<1>1. TInv /\ AInv /\ [Next]_vars =>
        [\A u \in User : users'[u] # users[u] =>
           /\ users[u] # NULL
           /\ \E t \in Thread :
                /\ ByAuthority(t)
                /\ IF users'[u] = NULL THEN req[t].user = u
                                       ELSE req[t].group = "admin"]_vars
  BY ChangeByAuthority
<1> QED
  BY InitTInv, NextTInv, InitAInv, NextAInv, <1>1, PTL
  DEF Spec, AccountsChangeByAuthority
=============================================================================
