------------------------- MODULE RegistrationProofs -------------------------
(***************************************************************************)
(* Proofs about Registration, for any number of threads and accounts, any  *)
(* bodies, tokens and failures.                                            *)
(*                                                                         *)
(*   TInv  the types, and what the place of a handler says of its request  *)
(*   WInv  how the history of a registration accounts for the values that  *)
(*         are taken, as far as the handler has checked them               *)
(***************************************************************************)
EXTENDS Registration, TLAPS

\* What the routes write into the model before the access object is built, and
\* what that object has checked before the statement is reached.
RequestOK(t) ==
  /\ pc[t] = "unique" => req[t].kind = "register"
  /\ req[t].kind \in {"modify", "delete"} =>
       req[t].target \in Id /\ req[t].model["id"] = req[t].target
  /\ req[t].kind = "delete" => \A f \in Field : IsSet(req[t].model, f) => f = "id"
  /\ pc[t] \in {"grant", "load_perms", "exec"} /\ req[t].kind = "register" =>
       req[t].model["permission_group"] = "user"
  /\ pc[t] = "exec" => Refusal(t) = "none"

LocalsOK == \A t \in Thread : RequestOK(t)

TInv == StateOK /\ LocalsOK

----------------------------------------------------------------------------
(* Models and requests                                                     *)

LEMMA Constant ==
  /\ {"id", "username", "email", "permission_group"} \subseteq Field
  /\ NULL \notin Id /\ NULL \notin PermGroup
  /\ "user" \in PermGroup /\ PermGroup \subseteq ClaimGroup
  /\ MaxId \in Nat
  /\ NULL \notin Quoted /\ Quoted \cap PermGroup = {}
  BY RegistrationAssumption DEF Unique

LEMMA NullIsNoModel ==
  ASSUME NEW m, IsModel(m)
  PROVE  m # NULL
<1>1. m \in [Field -> (UNION {FieldValues(f) : f \in Field}) \cup {NULL}]
  BY DEF IsModel
<1> QED BY <1>1, RegistrationAssumption

LEMMA EmptyIsModel == IsModel(EmptyModel)
  BY DEF IsModel, EmptyModel

\* A model stays one when a field gets a value of its own.
LEMMA ModelUpdate ==
  ASSUME NEW m, IsModel(m), NEW g \in Field, NEW v \in FieldValues(g) \cup {NULL}
  PROVE  /\ IsModel([m EXCEPT ![g] = v])
         /\ [m EXCEPT ![g] = v][g] = v
         /\ \A f \in Field : f # g => [m EXCEPT ![g] = v][f] = m[f]
<1> DEFINE n == [m EXCEPT ![g] = v]
<1>1. n = [f \in Field |-> IF f = g THEN v ELSE m[f]]
  BY DEF IsModel
<1>2. n = [f \in Field |-> n[f]]
  BY <1>1
<1>3. \A f \in Field : n[f] \in FieldValues(f) \cup {NULL}
  BY <1>1 DEF IsModel
<1> QED BY <1>1, <1>2, <1>3 DEF IsModel

LEMMA NoRequestOK == IsRequest(NoRequest)
  BY EmptyIsModel DEF NoRequest, IsRequest, Kinds

\* What is left of a model is a model, with the values it had.
LEMMA ErasedIsModel ==
  ASSUME NEW D, NEW pp, NEW m, NEW model, IsModel(model)
  PROVE  /\ IsModel(Erased(D, pp, m, model))
         /\ \A f \in Field : IsSet(Erased(D, pp, m, model), f) =>
              /\ f \in Surviving(D, pp, m, model)
              /\ Erased(D, pp, m, model)[f] = model[f]
  BY DEF Erased, IsModel, IsSet

\* The refusal of a handler is a matter of its request alone.
LEMMA SameRefusal ==
  ASSUME NEW t \in Thread, req'[t] = req[t]
  PROVE  Refusal(t)' = Refusal(t)
  BY DEF Refusal, Desired, GrantedParams, GuestParams, AuthorizedModel,
         NothingSurvives, EffectiveParams

LEMMA RefusalType ==
  ASSUME NEW t \in Thread
  PROVE  Refusal(t) \in {"none", "unauthorized", "invalid_params"}
  BY DEF Refusal

LEMMA SameRequestOK ==
  ASSUME NEW t \in Thread, RequestOK(t), req'[t] = req[t], pc'[t] = pc[t]
  PROVE  RequestOK(t)'
  BY SameRefusal DEF RequestOK, IsSet

\* The others' requests and places stay when t's change.
LEMMA OthersOK ==
  ASSUME TInv, NEW t \in Thread,
         \A s \in Thread \ {t} : req'[s] = req[s] /\ pc'[s] = pc[s],
         RequestOK(t)'
  PROVE  LocalsOK'
  BY SameRequestOK DEF TInv, LocalsOK

\* A handler that has answered, or is idle, with the request it had.
LEMMA AnsweredOK ==
  ASSUME TInv, NEW t \in Thread, req'[t] = req[t],
         pc'[t] \in {"responded", "idle"}
  PROVE  RequestOK(t)'
  BY DEF TInv, LocalsOK, RequestOK, IsSet

LEMMA InitTInv == Init => TInv
<1> SUFFICES ASSUME Init PROVE TInv
  OBVIOUS
<1>1. StateOK
  BY RegistrationAssumption, NoRequestOK
  DEF Init, StateOK, IsTable, Statement, Response
<1>2. LocalsOK
  BY DEF Init, LocalsOK, RequestOK, NoRequest
<1> QED BY <1>1, <1>2 DEF TInv

----------------------------------------------------------------------------
(* The steps                                                               *)

\* A step that only gives t a new request, place and answer.
LEMMA LocalStep ==
  ASSUME TInv, NEW t \in Thread, NEW r, NEW label, NEW answer,
         IsRequest(r), label \in Statement \cup {"idle", "responded"},
         answer \in Response,
         req' = [req EXCEPT ![t] = r],
         pc' = [pc EXCEPT ![t] = label],
         resp' = [resp EXCEPT ![t] = answer],
         UNCHANGED table,
         held' \in [Thread -> SUBSET Unique], raced' \in [Thread -> SUBSET Unique],
         faulted' \in [Thread -> BOOLEAN],
         RequestOK(t)'
  PROVE  TInv'
<1>1. /\ req' = [s \in Thread |-> req'[s]]
      /\ req'[t] = r /\ \A s \in Thread \ {t} : req'[s] = req[s]
  BY DEF TInv, StateOK
<1>2. /\ pc' \in [Thread -> Statement \cup {"idle", "responded"}]
      /\ \A s \in Thread \ {t} : pc'[s] = pc[s]
  BY DEF TInv, StateOK
<1>3. resp' \in [Thread -> Response]
  BY DEF TInv, StateOK
<1>4. \A s \in Thread : IsRequest(req'[s])
  BY <1>1 DEF TInv, StateOK
<1>5. StateOK'
  BY <1>1, <1>2, <1>3, <1>4 DEF TInv, StateOK, table
<1>6. LocalsOK'
  BY <1>1, <1>2, OthersOK
<1> QED BY <1>5, <1>6 DEF TInv

\* A handler answers and keeps its request.
LEMMA AnswerStep ==
  ASSUME TInv, NEW t \in Thread, NEW answer \in Response,
         Respond(t, answer), UNCHANGED <<table, req>>,
         held' \in [Thread -> SUBSET Unique], raced' \in [Thread -> SUBSET Unique],
         faulted' \in [Thread -> BOOLEAN]
  PROVE  TInv'
<1>1. /\ pc' = [pc EXCEPT ![t] = "responded"] /\ pc'[t] = "responded"
      /\ resp' = [resp EXCEPT ![t] = answer]
  BY DEF Respond, Goto, TInv, StateOK
<1>2. req' = [req EXCEPT ![t] = req[t]] /\ IsRequest(req[t])
  BY DEF TInv, StateOK
<1>3. RequestOK(t)'
  BY <1>1, AnsweredOK
<1> QED BY <1>1, <1>2, <1>3, LocalStep

\* A handler goes on with the request it has.
LEMMA MoveStep ==
  ASSUME TInv, NEW t \in Thread, NEW label \in Statement,
         Goto(t, label), UNCHANGED <<table, req, resp, history>>,
         RequestOK(t)'
  PROVE  TInv'
<1>1. /\ pc' = [pc EXCEPT ![t] = label]
      /\ resp' = [resp EXCEPT ![t] = resp[t]] /\ resp[t] \in Response
  BY DEF Goto, TInv, StateOK
<1>2. req' = [req EXCEPT ![t] = req[t]] /\ IsRequest(req[t])
  BY DEF TInv, StateOK
<1>3. /\ held' \in [Thread -> SUBSET Unique] /\ raced' \in [Thread -> SUBSET Unique]
      /\ faulted' \in [Thread -> BOOLEAN]
  BY DEF history, TInv, StateOK
<1> QED BY <1>1, <1>2, <1>3, LocalStep

\* A record is given by its fields.
LEMMA RecordOf ==
  ASSUME NEW r, NEW kind, NEW token, NEW target, NEW model, NEW todo, NEW dup,
         r \in [kind : {kind}, token : {token}, target : {target},
                model : {model}, todo : {todo}, dup : {dup}]
  PROVE  r = [kind |-> kind, token |-> token, target |-> target,
              model |-> model, todo |-> todo, dup |-> dup]
  OBVIOUS

\* A request as the routes build it.
LEMMA NewRequest ==
  ASSUME NEW kind \in Kinds, NEW token \in Token \cup {NULL},
         NEW target \in Id \cup {NULL}, NEW model, IsModel(model),
         NEW todo \in SUBSET Unique, NEW dup \in SUBSET Unique
  PROVE  IsRequest([kind |-> kind, token |-> token, target |-> target,
                    model |-> model, todo |-> todo, dup |-> dup])
  BY DEF IsRequest

LEMMA StartRegisterTInv ==
  ASSUME TInv, NEW t \in Thread, NEW model \in Sent, NEW token \in Token \cup {NULL},
         StartRegister(t, model, token)
  PROVE  TInv'
<1> DEFINE todo == {f \in Unique : IsSet(model, f)}
           r == [kind |-> "register", token |-> token, target |-> NULL,
                 model |-> model, todo |-> todo, dup |-> {}]
<1>1. IsModel(model)
  BY RegistrationAssumption
<1>2. IsRequest(r)
  BY <1>1, NewRequest DEF Kinds
<1>3. req' = [req EXCEPT ![t] = r]
  <2> DEFINE e == [NoRequest EXCEPT !.token = token, !.model = model, !.todo = todo]
  <2>1. e \in [kind : {"register"}, token : {token}, target : {NULL},
               model : {model}, todo : {todo}, dup : {{}}]
    BY DEF NoRequest
  <2> HIDE DEF e, todo
  <2>2. e = r
    BY <2>1, RecordOf
  <2> QED BY <2>2 DEF StartRegister, e, todo
<1>4. /\ held' \in [Thread -> SUBSET Unique] /\ raced' \in [Thread -> SUBSET Unique]
      /\ faulted' \in [Thread -> BOOLEAN] /\ UNCHANGED table
  BY DEF StartRegister, TInv, StateOK, HeldFields
<1>5. req'[t] = r
  BY <1>3 DEF TInv, StateOK
<1>6. CASE Goto(t, "unique") /\ UNCHANGED resp
  <2>1. pc' = [pc EXCEPT ![t] = "unique"] /\ pc'[t] = "unique"
        /\ resp' = [resp EXCEPT ![t] = resp[t]] /\ resp[t] \in Response
    BY <1>6 DEF Goto, TInv, StateOK
  <2>2. RequestOK(t)'
    BY <1>5, <2>1 DEF RequestOK
  <2> QED BY <1>2, <1>3, <1>4, <2>1, <2>2, LocalStep DEF Statement
<1>7. CASE Respond(t, "invalid_params")
  <2>1. pc' = [pc EXCEPT ![t] = "responded"] /\ pc'[t] = "responded"
        /\ resp' = [resp EXCEPT ![t] = "invalid_params"]
    BY <1>7 DEF Respond, Goto, TInv, StateOK
  <2>2. RequestOK(t)'
    BY <1>5, <2>1 DEF RequestOK
  <2> QED BY <1>2, <1>3, <1>4, <2>1, <2>2, LocalStep DEF Response
<1> QED BY <1>6, <1>7 DEF StartRegister

LEMMA AfterTokenType ==
  ASSUME NEW token
  PROVE  AfterToken(token) \in {"grant", "load_perms"}
  BY DEF AfterToken

\* PUT and DELETE: a model whose id is that of the URL.
LEMMA StartOnTargetTInv ==
  ASSUME TInv, NEW t \in Thread, NEW target \in Id, NEW token \in Token \cup {NULL},
         NEW kind \in {"modify", "delete"}, NEW model, IsModel(model),
         model["id"] = target,
         kind = "delete" => \A f \in Field : IsSet(model, f) => f = "id",
         req' = [req EXCEPT ![t] =
                   [kind |-> kind, token |-> token, target |-> target,
                    model |-> model, todo |-> {}, dup |-> {}]],
         UNCHANGED <<table, history>>,
         \/ Goto(t, AfterToken(token)) /\ UNCHANGED resp
         \/ Respond(t, "invalid_params")
  PROVE  TInv'
<1> DEFINE r == [kind |-> kind, token |-> token, target |-> target,
                 model |-> model, todo |-> {}, dup |-> {}]
<1>1. IsRequest(r)
  BY NewRequest DEF Kinds
<1>2. req'[t] = r
  BY DEF TInv, StateOK
<1>3. /\ held' \in [Thread -> SUBSET Unique] /\ raced' \in [Thread -> SUBSET Unique]
      /\ faulted' \in [Thread -> BOOLEAN] /\ UNCHANGED table
  BY DEF history, TInv, StateOK
<1>4. ASSUME pc'[t] \in {"grant", "load_perms", "responded"} PROVE RequestOK(t)'
  BY <1>2, <1>4 DEF RequestOK
<1>5. CASE Goto(t, AfterToken(token)) /\ UNCHANGED resp
  <2>1. pc' = [pc EXCEPT ![t] = AfterToken(token)] /\ pc'[t] = AfterToken(token)
        /\ resp' = [resp EXCEPT ![t] = resp[t]] /\ resp[t] \in Response
    BY <1>5 DEF Goto, TInv, StateOK
  <2>2. AfterToken(token) \in Statement /\ RequestOK(t)'
    BY <1>4, <2>1, AfterTokenType DEF Statement
  <2> QED BY <1>1, <1>3, <2>1, <2>2, LocalStep
<1>6. CASE Respond(t, "invalid_params")
  <2>1. pc' = [pc EXCEPT ![t] = "responded"] /\ pc'[t] = "responded"
        /\ resp' = [resp EXCEPT ![t] = "invalid_params"]
    BY <1>6 DEF Respond, Goto, TInv, StateOK
  <2>2. RequestOK(t)'
    BY <1>4, <2>1
  <2> QED BY <1>1, <1>3, <2>1, <2>2, LocalStep DEF Response
<1> QED BY <1>5, <1>6

LEMMA StartModifyTInv ==
  ASSUME TInv, NEW t \in Thread, NEW target \in Id, NEW body \in Sent,
         NEW token \in Token \cup {NULL}, StartModify(t, target, body, token)
  PROVE  TInv'
<1> DEFINE model == [body EXCEPT !["id"] = target]
<1>1. IsModel(body) /\ target \in FieldValues("id") \cup {NULL}
  BY RegistrationAssumption DEF FieldValues
<1>2. IsModel(model) /\ model["id"] = target
  BY <1>1, Constant, ModelUpdate
<1>3. req' = [req EXCEPT ![t] =
                [kind |-> "modify", token |-> token, target |-> target,
                 model |-> model, todo |-> {}, dup |-> {}]]
  <2> DEFINE e == [NoRequest EXCEPT !.kind = "modify", !.token = token,
                                    !.target = target, !.model = model]
  <2>1. e \in [kind : {"modify"}, token : {token}, target : {target},
               model : {model}, todo : {{}}, dup : {{}}]
    BY DEF NoRequest
  <2> HIDE DEF e
  <2>2. e = [kind |-> "modify", token |-> token, target |-> target,
             model |-> model, todo |-> {}, dup |-> {}]
    BY <2>1, RecordOf
  <2> QED BY <2>2 DEF StartModify, e
<1>4. /\ UNCHANGED <<table, history>>
      /\ \/ Goto(t, AfterToken(token)) /\ UNCHANGED resp
         \/ Respond(t, "invalid_params")
  BY DEF StartModify
<1> HIDE DEF model
<1> QED BY <1>2, <1>3, <1>4, StartOnTargetTInv

LEMMA StartDeleteTInv ==
  ASSUME TInv, NEW t \in Thread, NEW target \in Id,
         NEW token \in Token \cup {NULL}, StartDelete(t, target, token)
  PROVE  TInv'
<1> DEFINE model == [EmptyModel EXCEPT !["id"] = target]
<1>1. target \in FieldValues("id") \cup {NULL}
  BY DEF FieldValues
<1>2. /\ IsModel(model) /\ model["id"] = target
      /\ \A f \in Field : f # "id" => model[f] = EmptyModel[f]
  BY <1>1, Constant, EmptyIsModel, ModelUpdate
<1>3. \A f \in Field : IsSet(model, f) => f = "id"
  BY <1>2 DEF EmptyModel, IsSet
<1>4. req' = [req EXCEPT ![t] =
                [kind |-> "delete", token |-> token, target |-> target,
                 model |-> model, todo |-> {}, dup |-> {}]]
  <2> DEFINE e == [NoRequest EXCEPT !.kind = "delete", !.token = token,
                                    !.target = target, !.model = model]
  <2>1. e \in [kind : {"delete"}, token : {token}, target : {target},
               model : {model}, todo : {{}}, dup : {{}}]
    BY DEF NoRequest
  <2> HIDE DEF e
  <2>2. e = [kind |-> "delete", token |-> token, target |-> target,
             model |-> model, todo |-> {}, dup |-> {}]
    BY <2>1, RecordOf
  <2> QED BY <2>2 DEF StartDelete, e
<1>5. UNCHANGED <<table, history>> /\ Goto(t, AfterToken(token)) /\ UNCHANGED resp
  BY DEF StartDelete
<1> HIDE DEF model
<1> QED BY <1>2, <1>3, <1>4, <1>5, StartOnTargetTInv

LEMMA StartTInv ==
  ASSUME TInv, NEW t \in Thread, NEW token \in Token \cup {NULL}, Start(t, token)
  PROVE  TInv'
  BY StartRegisterTInv, StartModifyTInv, StartDeleteTInv DEF Start

\* A field less to ask for, and some fields found taken.
LEMMA AskedTInv ==
  ASSUME TInv, NEW t \in Thread, pc[t] = "unique", NEW f, NEW dup \in SUBSET Unique,
         req' = [req EXCEPT ![t] = [req[t] EXCEPT !.todo = @ \ {f}, !.dup = dup]],
         UNCHANGED <<table, pc, resp, history>>
  PROVE  TInv'
<1> DEFINE todo == req[t].todo \ {f}
           r == [kind |-> req[t].kind, token |-> req[t].token,
                 target |-> req[t].target, model |-> req[t].model,
                 todo |-> todo, dup |-> dup]
<1>2. IsRequest(req[t])
  BY DEF TInv, StateOK
<1>3. todo \subseteq Unique
  BY <1>2 DEF IsRequest
<1>4. req[t] \in [kind : {req[t].kind}, token : {req[t].token},
                  target : {req[t].target}, model : {req[t].model},
                  todo : {req[t].todo}, dup : {req[t].dup}]
  BY <1>2 DEF IsRequest
<1>5. req' = [req EXCEPT ![t] = r]
  <2> DEFINE e == [req[t] EXCEPT !.todo = @ \ {f}, !.dup = dup]
  <2>1. e \in [kind : {req[t].kind}, token : {req[t].token},
               target : {req[t].target}, model : {req[t].model},
               todo : {todo}, dup : {dup}]
    BY <1>4
  <2>2. req' = [req EXCEPT ![t] = e]
    OBVIOUS
  <2> HIDE DEF e, todo
  <2>3. e = r
    BY <2>1, RecordOf
  <2> QED BY <2>2, <2>3
<1>6. IsRequest(r)
  BY <1>2, <1>3 DEF IsRequest
<1>7. /\ pc' = [pc EXCEPT ![t] = "unique"]
      /\ resp' = [resp EXCEPT ![t] = resp[t]] /\ resp[t] \in Response
      /\ UNCHANGED table
      /\ held' \in [Thread -> SUBSET Unique] /\ raced' \in [Thread -> SUBSET Unique]
      /\ faulted' \in [Thread -> BOOLEAN]
  BY DEF history, TInv, StateOK
<1>8. /\ req'[t].kind = "register" /\ pc'[t] = "unique"
  BY <1>5, <1>7 DEF TInv, LocalsOK, RequestOK, StateOK
<1>9. RequestOK(t)'
  BY <1>8 DEF RequestOK
<1> HIDE DEF r
<1> QED BY <1>5, <1>6, <1>7, <1>9, LocalStep DEF Statement

LEMMA CheckUniqueTInv ==
  ASSUME TInv, NEW t \in Thread, CheckUnique(t)
  PROVE  TInv'
<1>1. PICK f \in req[t].todo :
        req' = [req EXCEPT ![t].todo = @ \ {f},
                           ![t].dup = IF Holders(f, req[t].model[f], users) # {}
                                      THEN @ \cup {f} ELSE @]
  BY DEF CheckUnique
<1> DEFINE dup == IF Holders(f, req[t].model[f], users) # {}
                  THEN req[t].dup \cup {f} ELSE req[t].dup
<1>2. dup \in SUBSET Unique
  BY DEF TInv, StateOK, IsRequest
<1>3. req' = [req EXCEPT ![t] = [req[t] EXCEPT !.todo = @ \ {f}, !.dup = dup]]
  BY <1>1 DEF TInv, StateOK
<1> HIDE DEF dup
<1> QED BY <1>2, <1>3, AskedTInv DEF CheckUnique

LEMMA CheckUniqueSplicedTInv ==
  ASSUME TInv, NEW t \in Thread, CheckUniqueSpliced(t)
  PROVE  TInv'
<1>1. pc[t] = "unique" /\ UNCHANGED <<table, history>>
  BY DEF CheckUniqueSpliced
<1>2. CASE Respond(t, "db_error") /\ UNCHANGED req
  <2>1. /\ held' \in [Thread -> SUBSET Unique] /\ raced' \in [Thread -> SUBSET Unique]
        /\ faulted' \in [Thread -> BOOLEAN]
    BY <1>1 DEF history, TInv, StateOK
  <2> QED BY <1>1, <1>2, <2>1, AnswerStep DEF Response
<1>3. ASSUME NEW f \in req[t].todo, NEW found \in SUBSET {f},
             req' = [req EXCEPT ![t].todo = @ \ {f}, ![t].dup = @ \cup found],
             UNCHANGED <<pc, resp>>
      PROVE  TInv'
  <2>1. req[t].dup \cup found \in SUBSET Unique
    BY DEF TInv, StateOK, IsRequest
  <2>2. req' = [req EXCEPT ![t] =
                  [req[t] EXCEPT !.todo = @ \ {f}, !.dup = req[t].dup \cup found]]
    BY <1>3 DEF TInv, StateOK
  <2> QED BY <1>1, <1>3, <2>1, <2>2, AskedTInv
<1> QED BY <1>2, <1>3 DEF CheckUniqueSpliced

LEMMA CheckDoneTInv ==
  ASSUME TInv, NEW t \in Thread, CheckDone(t)
  PROVE  TInv'
<1>1. pc[t] = "unique" /\ UNCHANGED <<table, history>>
  BY DEF CheckDone
<1>2. CASE Respond(t, "invalid_params") /\ UNCHANGED req
  <2>1. /\ held' \in [Thread -> SUBSET Unique] /\ raced' \in [Thread -> SUBSET Unique]
        /\ faulted' \in [Thread -> BOOLEAN]
    BY <1>1 DEF history, TInv, StateOK
  <2> QED BY <1>1, <1>2, <2>1, AnswerStep DEF Response
<1>3. CASE /\ Goto(t, AfterToken(req[t].token))
           /\ req' = [req EXCEPT ![t].model["permission_group"] = "user"]
           /\ UNCHANGED resp
  <2> DEFINE model == [req[t].model EXCEPT !["permission_group"] = "user"]
             r == [kind |-> req[t].kind, token |-> req[t].token,
                   target |-> req[t].target, model |-> model,
                   todo |-> req[t].todo, dup |-> req[t].dup]
  <2>1. IsRequest(req[t]) /\ IsModel(req[t].model)
    BY DEF TInv, StateOK, IsRequest
  <2>2. "user" \in FieldValues("permission_group") \cup {NULL}
    BY Constant DEF FieldValues
  <2>3. IsModel(model) /\ model["permission_group"] = "user"
    BY <2>1, <2>2, Constant, ModelUpdate
  <2>4. req[t] \in [kind : {req[t].kind}, token : {req[t].token},
                    target : {req[t].target}, model : {req[t].model},
                    todo : {req[t].todo}, dup : {req[t].dup}]
    BY <2>1 DEF IsRequest
  <2>5. req' = [req EXCEPT ![t] = [req[t] EXCEPT !.model = model]]
    BY <1>3 DEF TInv, StateOK
  <2> HIDE DEF model
  <2>6. req' = [req EXCEPT ![t] = r]
    <3> DEFINE e == [req[t] EXCEPT !.model = model]
    <3>1. e \in [kind : {req[t].kind}, token : {req[t].token},
                 target : {req[t].target}, model : {model},
                 todo : {req[t].todo}, dup : {req[t].dup}]
      BY <2>4
    <3>2. req' = [req EXCEPT ![t] = e]
      BY <2>5
    <3> HIDE DEF e
    <3>3. e = r
      BY <3>1, RecordOf
    <3> QED BY <3>2, <3>3
  <2>7. IsRequest(r)
    BY <2>1, <2>3 DEF IsRequest
  <2>8. /\ pc' = [pc EXCEPT ![t] = AfterToken(req[t].token)]
        /\ pc'[t] = AfterToken(req[t].token)
        /\ AfterToken(req[t].token) \in {"grant", "load_perms"}
        /\ resp' = [resp EXCEPT ![t] = resp[t]] /\ resp[t] \in Response
        /\ held' \in [Thread -> SUBSET Unique] /\ raced' \in [Thread -> SUBSET Unique]
        /\ faulted' \in [Thread -> BOOLEAN]
    BY <1>1, <1>3, AfterTokenType DEF Goto, history, TInv, StateOK
  <2>9. /\ req'[t].kind = "register"
        /\ req'[t].model["permission_group"] = "user"
    BY <1>1, <2>3, <2>6 DEF TInv, LocalsOK, RequestOK, StateOK
  <2>10. RequestOK(t)'
    BY <2>8, <2>9 DEF RequestOK
  <2> HIDE DEF r
  <2> QED BY <1>1, <2>6, <2>7, <2>8, <2>10, LocalStep DEF Statement
<1> QED BY <1>2, <1>3 DEF CheckDone

\* The token and the permissions only decide where the handler goes on.
LEMMA AccessTInv ==
  ASSUME TInv, NEW t \in Thread, Grant(t) \/ LoadPerms(t)
  PROVE  TInv'
<1>1. /\ UNCHANGED <<table, req, history>>
      /\ held' \in [Thread -> SUBSET Unique] /\ raced' \in [Thread -> SUBSET Unique]
      /\ faulted' \in [Thread -> BOOLEAN]
  BY DEF Grant, LoadPerms, history, TInv, StateOK
<1>2. CASE Grant(t) /\ Goto(t, "load_perms") /\ UNCHANGED resp
  <2>1. pc[t] = "grant" /\ pc'[t] = "load_perms" /\ req'[t] = req[t]
    BY <1>1, <1>2 DEF Grant, Goto, TInv, StateOK
  <2>2. RequestOK(t)'
    BY <2>1 DEF TInv, LocalsOK, RequestOK, IsSet
  <2> QED BY <1>1, <1>2, <2>2, MoveStep DEF Statement
<1>3. CASE LoadPerms(t) /\ Goto(t, "exec") /\ UNCHANGED resp /\ Refusal(t) = "none"
  <2>1. pc[t] = "load_perms" /\ pc'[t] = "exec" /\ req'[t] = req[t]
    BY <1>1, <1>3 DEF LoadPerms, Goto, TInv, StateOK
  <2>2. Refusal(t)' = "none"
    BY <1>3, <2>1, SameRefusal
  <2>3. RequestOK(t)'
    BY <2>1, <2>2 DEF TInv, LocalsOK, RequestOK, IsSet
  <2> QED BY <1>1, <1>3, <2>3, MoveStep DEF Statement
<1>4. ASSUME NEW answer \in {"invalid_token", "unauthorized", "invalid_params"},
             Respond(t, answer)
      PROVE  TInv'
  BY <1>1, <1>4, AnswerStep DEF Response
<1>5. CASE Grant(t)
  BY <1>2, <1>4, <1>5 DEF Grant
<1>6. CASE LoadPerms(t)
  BY <1>3, <1>4, <1>6, RefusalType DEF LoadPerms
<1> QED BY <1>5, <1>6

----------------------------------------------------------------------------
(* The statements                                                          *)

\* The accounts are rows with the id they are stored under, up to seq.
Rows(accounts, n) ==
  /\ accounts = [i \in Id |-> accounts[i]]
  /\ \A i \in Id : accounts[i] # NULL =>
       IsModel(accounts[i]) /\ accounts[i]["id"] = i /\ i <= n
  /\ n \in Id \cup {0}

LEMMA ObserveTypes ==
  ASSUME TInv, NEW t \in Thread, Observe(t)
  PROVE  /\ held' \in [Thread -> SUBSET Unique] /\ raced' \in [Thread -> SUBSET Unique]
         /\ faulted' \in [Thread -> BOOLEAN]
         /\ req' = req
<1>1. \A s \in Thread : HeldFields(req[s].model, users') \subseteq Unique
  BY DEF HeldFields
<1> QED BY <1>1 DEF Observe, TInv, StateOK

\* A statement that has changed the rows of the table and is answered.
LEMMA TableStep ==
  ASSUME TInv, NEW t \in Thread, Respond(t, "ok"), Observe(t), Rows(users', seq')
  PROVE  TInv'
<1>1. /\ pc' = [pc EXCEPT ![t] = "responded"] /\ pc'[t] = "responded"
      /\ resp' = [resp EXCEPT ![t] = "ok"]
  BY DEF Respond, Goto, TInv, StateOK
<1>2. /\ held' \in [Thread -> SUBSET Unique] /\ raced' \in [Thread -> SUBSET Unique]
      /\ faulted' \in [Thread -> BOOLEAN]
      /\ req' = req
  BY ObserveTypes
<1>3. /\ pc' \in [Thread -> Statement \cup {"idle", "responded"}]
      /\ resp' \in [Thread -> Response]
  BY <1>1 DEF TInv, StateOK, Response
<1>4. StateOK'
  BY <1>2, <1>3 DEF TInv, StateOK, Rows
<1>5. RequestOK(t)'
  BY <1>1, <1>2, AnsweredOK
<1>6. LocalsOK'
  BY <1>1, <1>2, <1>5, OthersOK DEF TInv, StateOK
<1> QED BY <1>4, <1>6 DEF TInv

LEMMA RowsNow == TInv => Rows(users, seq)
  BY DEF TInv, StateOK, Rows

LEMMA AuthorizedIsModel ==
  ASSUME TInv, NEW t \in Thread
  PROVE  /\ IsModel(AuthorizedModel(t))
         /\ \A f \in Field : IsSet(AuthorizedModel(t), f) =>
              /\ f \in Surviving(Desired(t), EffectiveParams(t), UsersPermissions,
                                 req[t].model)
              /\ AuthorizedModel(t)[f] = req[t].model[f]
<1>1. IsModel(req[t].model)
  BY DEF TInv, StateOK, IsRequest
<1> QED BY <1>1, ErasedIsModel DEF AuthorizedModel

\* What an INSERT does when it succeeds.
LEMMA Inserted ==
  ASSUME TInv, NEW t \in Thread, ExecInsert(t), resp'[t] # "db_error"
  PROVE  \E i \in Id :
           /\ i = (IF IsSet(AuthorizedModel(t), "id") THEN AuthorizedModel(t)["id"]
                                                      ELSE seq + 1)
           /\ users[i] = NULL
           /\ \A f \in Required : IsSet(AuthorizedModel(t), f)
           /\ users' = [users EXCEPT ![i] = [AuthorizedModel(t) EXCEPT !["id"] = i]]
           /\ seq' = IF i > seq THEN i ELSE seq
           /\ Respond(t, "ok") /\ Observe(t)
<1> DEFINE i == IF IsSet(AuthorizedModel(t), "id") THEN AuthorizedModel(t)["id"]
                                                   ELSE seq + 1
<1>1. ~(i > MaxId \/ (i \in Id /\ users[i] # NULL) \/ Rejected(AuthorizedModel(t), i))
  BY DEF ExecInsert, Respond, TInv, StateOK
<1>2. i \in Id
  <2>1. seq \in Id \cup {0} /\ MaxId \in Nat
    BY Constant DEF TInv, StateOK
  <2>2. CASE IsSet(AuthorizedModel(t), "id")
    <3>1. AuthorizedModel(t)["id"] \in FieldValues("id") \cup {NULL}
      BY AuthorizedIsModel, Constant DEF IsModel
    <3> QED BY <2>2, <3>1 DEF FieldValues, IsSet
  <2>3. CASE ~IsSet(AuthorizedModel(t), "id")
    <3>1. i = seq + 1
      BY <2>3
    <3> HIDE DEF i
    <3> QED BY <1>1, <2>1, <3>1 DEF Id
  <2> QED BY <2>2, <2>3
<1>3. /\ users' = [users EXCEPT ![i] = [AuthorizedModel(t) EXCEPT !["id"] = i]]
      /\ seq' = IF i > seq THEN i ELSE seq
      /\ Respond(t, "ok") /\ Observe(t)
  BY <1>1 DEF ExecInsert
<1>4. \A f \in Required : IsSet(AuthorizedModel(t), f)
  BY <1>1 DEF Rejected
<1> QED BY <1>1, <1>2, <1>3, <1>4

LEMMA ExecInsertTInv ==
  ASSUME TInv, NEW t \in Thread, ExecInsert(t)
  PROVE  TInv'
<1>1. CASE resp'[t] = "db_error"
  <2>1. Respond(t, "db_error") /\ UNCHANGED <<table, history, req>>
    BY <1>1 DEF ExecInsert, Respond, TInv, StateOK
  <2>2. /\ held' \in [Thread -> SUBSET Unique] /\ raced' \in [Thread -> SUBSET Unique]
        /\ faulted' \in [Thread -> BOOLEAN]
    BY <2>1 DEF history, TInv, StateOK
  <2> QED BY <2>1, <2>2, AnswerStep DEF Response
<1>2. CASE resp'[t] # "db_error"
  <2> DEFINE row(i) == [AuthorizedModel(t) EXCEPT !["id"] = i]
  <2>1. PICK i \in Id :
          /\ users' = [users EXCEPT ![i] = row(i)]
          /\ seq' = IF i > seq THEN i ELSE seq
          /\ Respond(t, "ok") /\ Observe(t)
    BY <1>2, Inserted
  <2>2. i \in FieldValues("id") \cup {NULL}
    BY DEF FieldValues
  <2>3. IsModel(row(i)) /\ row(i)["id"] = i
    BY <2>2, AuthorizedIsModel, Constant, ModelUpdate
  <2> HIDE DEF row
  <2>4. i \in Nat /\ seq \in Nat /\ Id \subseteq Nat
    BY Constant DEF TInv, StateOK, Id
  <2>5. Rows(users, seq)
    BY RowsNow
  <2>6. seq' \in Id \cup {0} /\ i <= seq' /\ seq <= seq'
    BY <2>1, <2>4, <2>5 DEF Rows
  <2>7. \A j \in Id : users'[j] # NULL =>
          IsModel(users'[j]) /\ users'[j]["id"] = j /\ j <= seq'
    <3> TAKE j \in Id
    <3>1. CASE j = i
      BY <2>1, <2>3, <2>5, <2>6, <3>1 DEF Rows
    <3>2. CASE j # i
      <4>1. users'[j] = users[j]
        BY <2>1, <2>5, <3>2 DEF Rows
      <4>2. j <= seq => j <= seq'
        BY <2>1, <2>4
      <4> QED BY <2>5, <4>1, <4>2 DEF Rows
    <3> QED BY <3>1, <3>2
  <2>8. users' = [j \in Id |-> users'[j]]
    BY <2>1, <2>5 DEF Rows
  <2>9. Rows(users', seq')
    BY <2>6, <2>7, <2>8 DEF Rows
  <2> QED BY <2>1, <2>9, TableStep
<1> QED BY <1>1, <1>2

\* The row an UPDATE writes.
LEMMA UpdatedRow ==
  ASSUME TInv, NEW t \in Thread, req[t].kind = "modify", users[req[t].target] # NULL
  PROVE  /\ req[t].target \in Id
         /\ IsModel(Updated(t)) /\ Updated(t)["id"] = req[t].target
         /\ \A f \in Field : Updated(t)[f] # users[req[t].target][f] =>
              /\ IsSet(AuthorizedModel(t), f)
              /\ Updated(t)[f] = req[t].model[f]
<1> DEFINE i == req[t].target
<1>1. i \in Id /\ req[t].model["id"] = i
  BY DEF TInv, LocalsOK, RequestOK
<1>2. IsModel(users[i]) /\ users[i]["id"] = i
  BY <1>1 DEF TInv, StateOK
<1>3. /\ Updated(t) = [f \in Field |-> Updated(t)[f]]
      /\ \A f \in Field : Updated(t)[f] = IF IsSet(AuthorizedModel(t), f)
                                          THEN AuthorizedModel(t)[f] ELSE users[i][f]
  BY DEF Updated
<1>4. \A f \in Field : Updated(t)[f] \in FieldValues(f) \cup {NULL}
  BY <1>2, <1>3, AuthorizedIsModel DEF IsModel
<1>5. \A f \in Field : Updated(t)[f] # users[i][f] =>
        IsSet(AuthorizedModel(t), f) /\ Updated(t)[f] = req[t].model[f]
  BY <1>3, AuthorizedIsModel
<1>6. Updated(t)["id"] = i
  BY <1>1, <1>2, <1>3, Constant, AuthorizedIsModel
<1> QED BY <1>1, <1>3, <1>4, <1>5, <1>6 DEF IsModel

LEMMA ExecUpdateTInv ==
  ASSUME TInv, NEW t \in Thread, ExecUpdate(t)
  PROVE  TInv'
<1> DEFINE i == req[t].target
<1>1. CASE Respond(t, "db_error") /\ UNCHANGED <<table, history, req>>
  <2>1. /\ held' \in [Thread -> SUBSET Unique] /\ raced' \in [Thread -> SUBSET Unique]
        /\ faulted' \in [Thread -> BOOLEAN]
    BY <1>1 DEF history, TInv, StateOK
  <2> QED BY <1>1, <2>1, AnswerStep DEF Response
<1>2. CASE /\ users' = IF users[i] = NULL THEN users
                       ELSE [users EXCEPT ![i] = Updated(t)]
           /\ Respond(t, "ok") /\ Observe(t) /\ UNCHANGED seq
  <2>1. req[t].kind = "modify"
    BY DEF ExecUpdate
  <2>2. Rows(users, seq)
    BY RowsNow
  <2>3. CASE users[i] = NULL
    BY <1>2, <2>2, <2>3, TableStep
  <2>4. CASE users[i] # NULL
    <3>1. i \in Id /\ IsModel(Updated(t)) /\ Updated(t)["id"] = i
      BY <2>1, <2>4, UpdatedRow
    <3>2. Rows(users', seq')
      BY <1>2, <2>2, <2>4, <3>1 DEF Rows
    <3> QED BY <1>2, <3>2, TableStep
  <2> QED BY <2>3, <2>4
<1> QED BY <1>1, <1>2 DEF ExecUpdate

LEMMA ExecDeleteTInv ==
  ASSUME TInv, NEW t \in Thread, ExecDelete(t)
  PROVE  TInv'
<1>1. /\ users' = [users EXCEPT ![req[t].target] = NULL]
      /\ Respond(t, "ok") /\ Observe(t) /\ UNCHANGED seq
  BY DEF ExecDelete
<1>2. Rows(users, seq)
  BY RowsNow
<1>3. Rows(users', seq')
  BY <1>1, <1>2 DEF Rows
<1> QED BY <1>1, <1>3, TableStep

LEMMA ExecSplicedTInv ==
  ASSUME TInv, NEW t \in Thread, ExecSpliced(t)
  PROVE  TInv'
<1>1. CASE Respond(t, "db_error") /\ UNCHANGED <<table, history, req>>
  <2>1. /\ held' \in [Thread -> SUBSET Unique] /\ raced' \in [Thread -> SUBSET Unique]
        /\ faulted' \in [Thread -> BOOLEAN]
    BY <1>1 DEF history, TInv, StateOK
  <2> QED BY <1>1, <2>1, AnswerStep DEF Response
<1>2. CASE /\ users' \in Garbled
           /\ seq' \in {n \in Id \cup {0} :
                        seq <= n /\ \A i \in Id : users'[i] # NULL => i <= n}
           /\ Respond(t, "ok") /\ Observe(t)
  <2>1. IsTable(users')
    BY <1>2, RegistrationAssumption
  <2>2. Rows(users', seq')
    BY <1>2, <2>1 DEF IsTable, Rows
  <2> QED BY <1>2, <2>2, TableStep
<1> QED BY <1>1, <1>2 DEF ExecSpliced

LEMMA FailsTInv ==
  ASSUME TInv, NEW t \in Thread, StatementFails(t)
  PROVE  TInv'
<1>1. /\ Respond(t, "db_error") /\ UNCHANGED <<table, req>>
      /\ held' \in [Thread -> SUBSET Unique] /\ raced' \in [Thread -> SUBSET Unique]
      /\ faulted' \in [Thread -> BOOLEAN]
  BY DEF StatementFails, TInv, StateOK
<1> QED BY <1>1, AnswerStep DEF Response

LEMMA FinishTInv ==
  ASSUME TInv, NEW t \in Thread, Finish(t)
  PROVE  TInv'
<1>1. /\ req' = [req EXCEPT ![t] = NoRequest] /\ req'[t] = NoRequest
      /\ pc' = [pc EXCEPT ![t] = "idle"] /\ pc'[t] = "idle"
      /\ resp' = [resp EXCEPT ![t] = "none"] /\ UNCHANGED table
      /\ held' \in [Thread -> SUBSET Unique] /\ raced' \in [Thread -> SUBSET Unique]
      /\ faulted' \in [Thread -> BOOLEAN]
  BY DEF Finish, Goto, TInv, StateOK
<1>2. NoRequest.kind = "register"
  BY DEF NoRequest
<1>3. RequestOK(t)'
  BY <1>1, <1>2 DEF RequestOK
<1> QED BY <1>1, <1>3, NoRequestOK, LocalStep DEF Response

\* Whatever happens to the tokens, the requests are as before.
LEMMA SameTInv ==
  ASSUME TInv, UNCHANGED <<table, pc, req, resp, history>>
  PROVE  TInv'
<1>1. StateOK'
  BY DEF table, history, TInv, StateOK
<1>2. LocalsOK'
  BY SameRequestOK DEF table, history, TInv, LocalsOK
<1> QED BY <1>1, <1>2 DEF TInv

LEMMA NextTInv == TInv /\ [Next]_vars => TInv'
<1> SUFFICES ASSUME TInv, [Next]_vars PROVE TInv'
  OBVIOUS
<1>1. ASSUME NEW t \in Thread,
             \/ \E token \in Token \cup {NULL} : Start(t, token)
             \/ Handle(t) \/ StatementFails(t) \/ Finish(t)
      PROVE  TInv'
  BY <1>1, StartTInv, CheckUniqueTInv, CheckUniqueSplicedTInv, CheckDoneTInv,
     AccessTInv, ExecInsertTInv, ExecUpdateTInv, ExecDeleteTInv, ExecSplicedTInv,
     FailsTInv, FinishTInv DEF Handle
<1>2. CASE UNCHANGED vars
  BY <1>2, SameTInv DEF vars
<1> QED BY <1>1, <1>2 DEF Next

\* The table and the handlers keep their types for any threads, bodies, tokens,
\* permission matrix and failures: every row stays under its id and below seq.
THEOREM TypeTheorem == Spec => []TypeOK
<1> DEFINE TokensOK == auth_tokens \in [Id -> PermGroup \cup {NULL}]
<1>1. Init => TokensOK
  BY RegistrationAssumption DEF Init
<1>2. TokensOK /\ [Next]_vars => TokensOK'
  BY DEF Next, vars
<1>3. TInv /\ TokensOK => TypeOK
  BY DEF TInv, TypeOK
<1> HIDE DEF TokensOK
<1> QED BY InitTInv, NextTInv, <1>1, <1>2, <1>3, PTL DEF Spec

----------------------------------------------------------------------------
(* Who changes an account                                                  *)

LEMMA WhoChangesTheTable ==
  ASSUME TInv, Next, users' # users
  PROVE  \E t \in Thread :
           ExecInsert(t) \/ ExecUpdate(t) \/ ExecDelete(t) \/ ExecSpliced(t)
<1> USE DEF Respond, Goto, table, history
<1> QED BY DEF Next, Start, StartRegister, StartModify, StartDelete, Handle,
               CheckUnique, CheckUniqueSpliced,
               CheckDone, Grant, LoadPerms, StatementFails, Finish

\* The step that changes an account is the statement of one handler, or one that
\* a quote has changed.
LEMMA WhoChangesAccounts ==
  ASSUME TInv, Next, users' # users
  PROVE  \/ \E t \in Thread : ExecInsert(t) \/ ExecUpdate(t) \/ ExecDelete(t)
         \/ ByQuote
<1>1. PICK t \in Thread : ExecInsert(t) \/ ExecUpdate(t) \/ ExecDelete(t) \/ ExecSpliced(t)
  BY WhoChangesTheTable
<1>2. CASE ExecSpliced(t)
  <2>1. pc[t] = "exec" /\ Spliced(t) /\ Respond(t, "ok")
    BY <1>2 DEF ExecSpliced, table
  <2>2. resp'[t] = "ok"
    BY <2>1 DEF Respond, TInv, StateOK
  <2> QED BY <2>1, <2>2 DEF ByQuote
<1> QED BY <1>1, <1>2

\* A caller uses its group's right on a field only with the group's right on the
\* instance, and the owner's as the owner.
LEMMA SurvivingByRight ==
  ASSUME TInv, NothingForOther, NEW t \in Thread, NEW right \in Right,
         Desired(t) = {right}, NEW i \in Id, req[t].model["id"] = i, NEW f \in Field,
         f \in Surviving({right}, EffectiveParams(t), UsersPermissions, req[t].model)
  PROVE  HasRight(t, right, f, i)
<1> DEFINE pp == EffectiveParams(t)
           g == GrantedParams(t).group_id
           m == UsersPermissions
<1>1. g = IF req[t].token = NULL THEN "guest" ELSE req[t].token[2]
  BY DEF GrantedParams, GuestParams
<1>2. \/ right \in m[pp.group_id][f]
      \/ right \in m["owner"][f] /\ OwnedBy(pp, req[t].model)
  BY DEF Surviving, FieldPerms, have_permissions
<1>3. CASE right \in m[pp.group_id][f]
  <2>1. pp.group_id # "other"
    BY <1>3 DEF NothingForOther
  <2>2. pp.group_id = g /\ right \in m[g]["instance"]
    BY <2>1 DEF EffectiveParams, AfterInstanceCheck, have_group_perms, have_permissions
  <2> HIDE DEF g, pp
  <2> QED BY <1>1, <1>3, <2>2 DEF HasRight
<1>4. CASE right \in m["owner"][f] /\ OwnedBy(pp, req[t].model)
  <2>1. /\ pp.owner_field_name # NULL /\ pp.user_id # NULL
        /\ req[t].model[pp.owner_field_name] = pp.user_id
    BY <1>4 DEF OwnedBy
  <2>2. /\ have_owner_perms({right}, GrantedParams(t), m)
        /\ pp.owner_field_name = GrantedParams(t).owner_field_name
        /\ pp.user_id = GrantedParams(t).user_id
    BY <2>1 DEF EffectiveParams, AfterInstanceCheck
  <2>3. right \in m["owner"]["instance"] /\ GrantedParams(t).user_id # NULL
    BY <2>2 DEF have_owner_perms, have_permissions
  <2>4. req[t].token # NULL /\ GrantedParams(t).user_id = req[t].token[1]
        /\ GrantedParams(t).owner_field_name = "id"
    BY <2>3 DEF GrantedParams, GuestParams
  <2>5. req[t].token[1] = i
    BY <2>1, <2>2, <2>4
  <2> QED BY <1>4, <2>3, <2>4, <2>5 DEF HasRight
<1> QED BY <1>2, <1>3, <1>4

LEMMA UpdateByRight ==
  ASSUME TInv, NothingForOther, NEW t \in Thread, ExecUpdate(t),
         NEW i \in Id, users[i] # NULL, users'[i] # users[i]
  PROVE  /\ pc[t] = "exec" /\ req[t].target = i /\ resp'[t] = "ok"
         /\ users'[i] # NULL /\ req[t].kind = "modify"
         /\ \A f \in Field : users'[i][f] # users[i][f] =>
              HasRight(t, "UPDATE", f, i) /\ users'[i][f] = req[t].model[f]
<1>1. /\ pc[t] = "exec" /\ req[t].kind = "modify"
      /\ users' # users => /\ Respond(t, "ok")
                           /\ users' = IF users[req[t].target] = NULL THEN users
                                       ELSE [users EXCEPT ![req[t].target] = Updated(t)]
  BY DEF ExecUpdate, table
<1>2. users' = [users EXCEPT ![req[t].target] = Updated(t)] /\ resp'[t] = "ok"
      /\ users[req[t].target] # NULL
  BY <1>1 DEF Respond, TInv, StateOK
<1>3. i = req[t].target /\ users'[i] = Updated(t)
  BY <1>2 DEF TInv, StateOK
<1>4. Updated(t)["id"] = i
      /\ \A f \in Field : Updated(t)[f] # users[i][f] =>
           IsSet(AuthorizedModel(t), f) /\ Updated(t)[f] = req[t].model[f]
  BY <1>1, <1>2, <1>3, UpdatedRow
<1>5. IsModel(Updated(t))
  BY <1>1, <1>2, <1>3, UpdatedRow
<1>6. Desired(t) = {"UPDATE"} /\ "UPDATE" \in Right /\ req[t].model["id"] = i
  BY <1>1, <1>3 DEF Desired, Right, TInv, LocalsOK, RequestOK
<1>7. \A f \in Field : IsSet(AuthorizedModel(t), f) => HasRight(t, "UPDATE", f, i)
  BY <1>6, AuthorizedIsModel, SurvivingByRight
<1>8. users'[i] # NULL
  BY <1>3, <1>5, NullIsNoModel
<1> QED BY <1>1, <1>2, <1>3, <1>4, <1>7, <1>8

\* Only the id of the URL is in the model of a deletion, so the right on it is
\* what the handler has found.
LEMMA DeleteByRight ==
  ASSUME TInv, NothingForOther, NEW t \in Thread, ExecDelete(t),
         NEW i \in Id, users'[i] # users[i]
  PROVE  /\ pc[t] = "exec" /\ req[t].target = i /\ resp'[t] = "ok"
         /\ users'[i] = NULL /\ req[t].kind = "delete"
         /\ HasRight(t, "DELETE", "id", i)
<1>1. /\ pc[t] = "exec" /\ req[t].kind = "delete" /\ resp'[t] = "ok"
      /\ i = req[t].target /\ users'[i] = NULL
  BY DEF ExecDelete, Respond, TInv, StateOK
<1>2. Refusal(t) = "none" /\ req[t].model["id"] = i
      /\ \A f \in Field : IsSet(req[t].model, f) => f = "id"
  BY <1>1 DEF TInv, LocalsOK, RequestOK
<1>3. AuthorizedModel(t) # EmptyModel
  BY <1>1, <1>2 DEF Refusal
<1>4. PICK f \in Field : IsSet(AuthorizedModel(t), f)
  BY <1>3, AuthorizedIsModel DEF IsModel, EmptyModel, IsSet
<1>5. /\ f \in Surviving(Desired(t), EffectiveParams(t), UsersPermissions, req[t].model)
      /\ f = "id"
  BY <1>2, <1>4, AuthorizedIsModel DEF IsSet
<1>6. Desired(t) = {"DELETE"} /\ "DELETE" \in Right
  BY <1>1 DEF Desired, Right
<1>7. HasRight(t, "DELETE", "id", i)
  BY <1>2, <1>5, <1>6, SurvivingByRight
<1> QED BY <1>1, <1>7

\* An INSERT leaves the rows there are alone.
LEMMA InsertKeepsRows ==
  ASSUME TInv, NEW t \in Thread, ExecInsert(t), NEW i \in Id, users[i] # NULL
  PROVE  users'[i] = users[i]
<1>1. CASE resp'[t] = "db_error"
  BY <1>1 DEF ExecInsert, Respond, table, TInv, StateOK
<1>2. CASE resp'[t] # "db_error"
  <2>1. PICK j \in Id :
          /\ users[j] = NULL
          /\ users' = [users EXCEPT ![j] = [AuthorizedModel(t) EXCEPT !["id"] = j]]
    BY <1>2, Inserted
  <2> QED BY <2>1 DEF TInv, StateOK
<1> QED BY <1>1, <1>2

\* The step that changes an account is the statement of a request for it.
AccountChangedByRight(i) ==
  \E t \in Thread :
    /\ pc[t] = "exec" /\ req[t].target = i /\ resp'[t] = "ok"
    /\ IF users'[i] = NULL
       THEN req[t].kind = "delete" /\ HasRight(t, "DELETE", "id", i)
       ELSE /\ req[t].kind = "modify"
            /\ \A f \in Field : users'[i][f] # users[i][f] =>
                 /\ HasRight(t, "UPDATE", f, i)
                 /\ users'[i][f] = req[t].model[f]

LEMMA AccountChangeStep ==
  ASSUME TInv, NothingForOther, Next, NEW i \in Id, users[i] # NULL, users'[i] # users[i]
  PROVE  ByQuote \/ AccountChangedByRight(i)
<1> SUFFICES ASSUME ~ByQuote PROVE AccountChangedByRight(i)
  OBVIOUS
<1> USE DEF AccountChangedByRight
<1>1. PICK t \in Thread : ExecInsert(t) \/ ExecUpdate(t) \/ ExecDelete(t)
  BY WhoChangesAccounts
<1>2. CASE ExecInsert(t)
  BY <1>2, InsertKeepsRows
<1>3. CASE ExecUpdate(t)
  BY <1>3, UpdateByRight
<1>4. CASE ExecDelete(t)
  BY <1>4, DeleteByRight
<1> QED BY <1>1, <1>2, <1>3, <1>4

\* In every execution, and whichever statements quotes have changed before, the
\* step that changes an account is such a statement itself or that of a request
\* for this account, in the fields its sender has the right on and to the values
\* it sent, if a caller without a group has no right on a field.
THEOREM AccountsChangeByRightTheorem ==
  ASSUME NothingForOther
  PROVE  Spec => AccountsChangeByRight
<1>1. TInv /\ [Next]_vars =>
        [\A i \in Id : users[i] # NULL /\ users'[i] # users[i] =>
           \/ ByQuote
           \/ AccountChangedByRight(i)]_vars
  BY AccountChangeStep
<1> QED
  BY InitTInv, NextTInv, <1>1, PTL
  DEF Spec, AccountsChangeByRight, AccountChangedByRight, ByQuote

----------------------------------------------------------------------------
(* Who makes an account                                                    *)

\* What is left of the model of a registration: never the id, and the group and
\* what is required, if the handler comes as far as its INSERT.
LEMMA RegisteredFields ==
  ASSUME TInv, RightsOnNewAccounts, NEW t \in Thread,
         pc[t] = "exec", req[t].kind = "register"
  PROVE  /\ ~IsSet(AuthorizedModel(t), "id")
         /\ \A f \in Required \cup {"permission_group"} :
              AuthorizedModel(t)[f] = req[t].model[f]
<1> DEFINE pp == EffectiveParams(t)
           m == UsersPermissions
           left == Surviving({"CREATE"}, pp, m, req[t].model)
<1>1. Desired(t) = {"CREATE"} /\ Refusal(t) = "none"
  BY DEF Desired, TInv, LocalsOK, RequestOK
<1>2. ~have_owner_perms({"CREATE"}, GrantedParams(t), m)
  BY DEF RightsOnNewAccounts, have_owner_perms, have_permissions
<1>3. pp.owner_field_name = NULL /\ pp.group_id \in {GrantedParams(t).group_id, "other"}
  BY <1>1, <1>2 DEF EffectiveParams, AfterInstanceCheck
<1>4. GrantedParams(t).group_id \in ClaimGroup
  <2>1. req[t].token \in Token \cup {NULL} /\ Token \subseteq Id \X PermGroup
    BY RegistrationAssumption DEF TInv, StateOK, IsRequest
  <2>2. PermGroup \subseteq ClaimGroup /\ "guest" \in ClaimGroup
    BY Constant, GroupAssumption DEF UserGroup
  <2> QED BY <2>1, <2>2 DEF GrantedParams, GuestParams
<1>5. pp.group_id \in ClaimGroup
  BY <1>3, <1>4, GroupAssumption DEF UserGroup
<1>6. left = {f \in Field : "CREATE" \in m[pp.group_id][f]}
  BY <1>3 DEF Surviving, FieldPerms, OwnedBy, have_permissions
<1>7. left # {}
  BY <1>1 DEF Refusal, NothingSurvives
<1> HIDE DEF pp
<1>8. "id" \notin left /\ Required \cup {"permission_group"} \subseteq left
  <2>1. \E f \in Field : "CREATE" \in m[pp.group_id][f]
    BY <1>6, <1>7
  <2>2. /\ "CREATE" \notin m[pp.group_id]["id"]
        /\ \A f \in Required \cup {"permission_group"} : "CREATE" \in m[pp.group_id][f]
    BY <1>5, <2>1 DEF RightsOnNewAccounts
  <2>3. Required \cup {"permission_group"} \subseteq Field
    BY Constant DEF Required
  <2> QED BY <1>6, <2>2, <2>3
<1>9. AuthorizedModel(t) = [f \in Field |-> IF f \in left THEN req[t].model[f] ELSE NULL]
  BY <1>1 DEF AuthorizedModel, Erased, pp
<1> HIDE DEF left
<1> QED BY <1>8, <1>9, Constant DEF IsSet, Required

\* An account that a statement as it was meant makes has an id no account ever
\* had, the group "user" and what the registration sent.
LEMMA NewAccountStep ==
  ASSUME TInv, RightsOnNewAccounts, Next, NEW i \in Id, users[i] = NULL, users'[i] # NULL,
         ~ByQuote
  PROVE  /\ i > seq
         /\ users'[i]["permission_group"] = "user"
         /\ \E t \in Thread :
              /\ pc[t] = "exec" /\ req[t].kind = "register" /\ resp'[t] = "ok"
              /\ \A f \in Required : users'[i][f] = req[t].model[f]
<1>1. PICK t \in Thread : ExecInsert(t) \/ ExecUpdate(t) \/ ExecDelete(t)
  BY WhoChangesAccounts
<1>2. ~ExecUpdate(t) /\ ~ExecDelete(t)
  BY DEF ExecUpdate, ExecDelete, table, TInv, StateOK
<1>3. /\ ExecInsert(t) /\ pc[t] = "exec" /\ req[t].kind = "register"
  BY <1>1, <1>2 DEF ExecInsert
<1>4. resp'[t] # "db_error"
  BY <1>3, Inserted DEF ExecInsert, Respond, Goto, table, TInv, StateOK
<1> DEFINE row == AuthorizedModel(t)
<1>5. /\ ~IsSet(row, "id")
      /\ \A f \in Required \cup {"permission_group"} : row[f] = req[t].model[f]
  BY <1>3, RegisteredFields
<1>6. PICK j \in Id :
        /\ j = seq + 1
        /\ users' = [users EXCEPT ![j] = [row EXCEPT !["id"] = j]]
        /\ Respond(t, "ok")
  BY <1>3, <1>4, <1>5, Inserted
<1>7. i = j /\ users'[i] = [row EXCEPT !["id"] = j]
  BY <1>6 DEF TInv, StateOK
<1>8. \A f \in Required \cup {"permission_group"} : users'[i][f] = req[t].model[f]
  <2>1. j \in FieldValues("id") \cup {NULL} /\ IsModel(row) /\ "id" \in Field
    BY AuthorizedIsModel, Constant DEF FieldValues
  <2>2. \A f \in Required \cup {"permission_group"} : f \in Field /\ f # "id"
    BY Constant DEF Required
  <2> QED BY <1>5, <1>7, <2>1, <2>2, ModelUpdate
<1>9. req[t].model["permission_group"] = "user"
  BY <1>3 DEF TInv, LocalsOK, RequestOK
<1>10. resp'[t] = "ok"
  BY <1>6 DEF Respond, TInv, StateOK
<1>11. i > seq
  BY <1>6, <1>7, Constant DEF TInv, StateOK, Id
<1> QED BY <1>3, <1>8, <1>9, <1>10, <1>11

\* In every execution, and whichever statements quotes have changed before, a new
\* account comes from such a statement itself or has an id no account ever had,
\* the group "user" and the name and e-mail of a registration answered with
\* success, if the permission table lets nobody choose an id.
THEOREM NewAccountsTheorem ==
  ASSUME RightsOnNewAccounts
  PROVE  Spec => NewAccounts
<1> DEFINE Made(i) ==
      /\ i > seq
      /\ users'[i]["permission_group"] = "user"
      /\ \E t \in Thread :
           /\ pc[t] = "exec" /\ req[t].kind = "register" /\ resp'[t] = "ok"
           /\ \A f \in Required : users'[i][f] = req[t].model[f]
<1>1. TInv /\ [Next]_vars =>
        [\A i \in Id : users[i] = NULL /\ users'[i] # NULL =>
           \/ ByQuote
           \/ Made(i)]_vars
  BY NewAccountStep
<1> QED
  BY InitTInv, NextTInv, <1>1, PTL DEF Spec, NewAccounts, ByQuote

\* No step takes an id back.
LEMMA IdsAreSpent ==
  ASSUME TInv, Next
  PROVE  seq' >= seq
<1>1. ASSUME NEW t \in Thread, ExecInsert(t) PROVE seq' >= seq
  <2> DEFINE row == AuthorizedModel(t)
             i == IF IsSet(row, "id") THEN row["id"] ELSE seq + 1
  <2>1. IsModel(row)
    BY AuthorizedIsModel
  <2>2. IsSet(row, "id") => row["id"] \in Id
    BY <2>1, Constant DEF IsModel, IsSet, FieldValues
  <2>3. i \in Int /\ seq \in Int
    BY <2>2, Constant DEF TInv, StateOK, Id
  <2>4. seq' = seq \/ seq' = IF i > seq THEN i ELSE seq
    BY <1>1 DEF ExecInsert, table
  <2> HIDE DEF i
  <2> QED BY <2>3, <2>4
<1>2. ASSUME NEW t \in Thread, ExecSpliced(t) PROVE seq' >= seq
  BY <1>2, Constant DEF ExecSpliced, table, TInv, StateOK, Id
<1>3. CASE ~\E t \in Thread : ExecInsert(t) \/ ExecSpliced(t)
  <2> USE DEF Respond, Goto, table, history
  <2>1. UNCHANGED seq
    BY <1>3 DEF Next, Start, StartRegister, StartModify, StartDelete, Handle,
                CheckUnique, CheckUniqueSpliced, CheckDone, Grant, LoadPerms, ExecUpdate, ExecDelete,
                StatementFails, Finish
  <2> QED BY <2>1, Constant DEF TInv, StateOK, Id
<1> QED BY <1>1, <1>2, <1>3

----------------------------------------------------------------------------
(* Why a registration fails                                                *)

\* While a registration runs: the fields it has still to check are set, every
\* value that is taken was seen to be, and one the handler has checked and
\* found free was taken since.
Running(t) ==
  /\ \A f \in req[t].todo : IsSet(req[t].model, f)
  /\ Missing(req[t].model) = {}
  /\ HeldFields(req[t].model, users) \subseteq held[t]
  /\ req[t].dup \subseteq held[t]
  /\ (HeldFields(req[t].model, users) \ req[t].todo) \ req[t].dup \subseteq raced[t]
  /\ pc[t] # "unique" => req[t].todo = {} /\ req[t].dup = {}

Explained(t) ==
  /\ req[t].dup \subseteq held[t]
  /\ resp[t] = "db_error" => faulted[t] \/ seq = MaxId \/ raced[t] # {}

Watched(t) ==
  ~Quotes(req[t].model) =>
    /\ pc[t] \in Statement /\ req[t].kind = "register" => Running(t)
    /\ pc[t] = "responded" /\ req[t].kind = "register" => Explained(t)

WInv == \A t \in Thread : Watched(t)

LEMMA InitWInv == Init => WInv
  BY DEF Init, WInv, Watched, Quotes, Statement

\* A step that leaves the table and all that belongs to s alone.
LEMMA SameWatched ==
  ASSUME NEW s \in Thread, Watched(s), UNCHANGED table,
         req'[s] = req[s], pc'[s] = pc[s], resp'[s] = resp[s],
         held'[s] = held[s], raced'[s] = raced[s], faulted'[s] = faulted[s]
  PROVE  Watched(s)'
<1>1. users' = users /\ seq' = seq
  BY DEF table
<1>2. HeldFields(req'[s].model, users') = HeldFields(req[s].model, users)
  BY <1>1 DEF HeldFields, Holders, IsSet
<1>3. Missing(req'[s].model) = Missing(req[s].model)
  OBVIOUS
<1>4. Running(s) => Running(s)'
  BY <1>2, <1>3 DEF Running, IsSet
<1>5. Explained(s) => Explained(s)'
  BY <1>1 DEF Explained
<1> QED BY <1>4, <1>5 DEF Watched, Quotes

\* A step of t that leaves the table alone, by what it does to t.
LEMMA LocalWatched ==
  ASSUME TInv, WInv, NEW t \in Thread, Watched(t)', UNCHANGED table,
         \A s \in Thread \ {t} :
           /\ req'[s] = req[s] /\ pc'[s] = pc[s] /\ resp'[s] = resp[s]
           /\ held'[s] = held[s] /\ raced'[s] = raced[s] /\ faulted'[s] = faulted[s]
  PROVE  WInv'
  BY SameWatched DEF WInv

\* A handler whose request holds a quote.
LEMMA QuotedWatched ==
  ASSUME TInv, WInv, NEW t \in Thread, Quotes(req'[t].model), UNCHANGED table,
         \A s \in Thread \ {t} :
           /\ req'[s] = req[s] /\ pc'[s] = pc[s] /\ resp'[s] = resp[s]
           /\ held'[s] = held[s] /\ raced'[s] = raced[s] /\ faulted'[s] = faulted[s]
  PROVE  WInv'
<1>1. Watched(t)'
  BY DEF Watched, Quotes
<1> QED BY <1>1, LocalWatched

LEMMA SplicedQuotes ==
  ASSUME TInv, NEW t \in Thread, Spliced(t)
  PROVE  Quotes(req[t].model)
<1>1. PICK f \in Field : AuthorizedModel(t)[f] \in Quoted
  BY DEF Spliced
<1>2. IsSet(AuthorizedModel(t), f)
  BY <1>1, Constant DEF IsSet
<1>3. AuthorizedModel(t)[f] = req[t].model[f]
  BY <1>2, AuthorizedIsModel
<1> QED BY <1>1, <1>3 DEF Quotes

\* A statement of t on the table is recorded for the registrations that run.
LEMMA ObservedWatched ==
  ASSUME TInv, TInv', WInv, NEW t \in Thread, pc[t] = "exec", Observe(t),
         Respond(t, "ok"), seq <= seq'
  PROVE  WInv'
<1> SUFFICES ASSUME NEW s \in Thread PROVE Watched(s)'
  BY DEF WInv
<1>1. req' = req /\ faulted' = faulted /\ Watched(s)
  BY DEF Observe, WInv
<1>2. seq = MaxId => seq' = MaxId
  BY Constant DEF TInv, StateOK, Id
<1>3. CASE s = t
  <2>1. pc'[s] = "responded" /\ resp'[s] = "ok" /\ held'[s] = held[s]
    BY <1>3 DEF Respond, Goto, Observe, TInv, StateOK
  <2> QED BY <1>1, <1>3, <2>1 DEF Watched, Quotes, Running, Explained, Statement
<1>4. CASE s # t /\ req[s].kind = "register" /\ pc[s] # "idle"
  <2> DEFINE now == HeldFields(req[s].model, users')
             before == HeldFields(req[s].model, users)
  <2>1. /\ pc'[s] = pc[s] /\ resp'[s] = resp[s]
        /\ held'[s] = held[s] \cup now
        /\ raced'[s] = raced[s] \cup ((now \ before) \ req[s].todo)
    BY <1>4 DEF Respond, Goto, Observe, TInv, StateOK
  <2> HIDE DEF now, before
  <2>2. Explained(s) => Explained(s)'
    BY <1>1, <1>2, <2>1 DEF Explained
  <2>3. Running(s) => Running(s)'
    BY <1>1, <2>1 DEF Running, Missing, IsSet, now, before
  <2> QED BY <1>1, <2>1, <2>2, <2>3 DEF Watched, Quotes
<1>5. CASE s # t /\ (req[s].kind # "register" \/ pc[s] = "idle")
  <2>1. pc'[s] = pc[s]
    BY <1>5 DEF Respond, Goto, TInv, StateOK
  <2> QED BY <1>1, <1>5, <2>1 DEF Watched, Quotes, Statement
<1> QED BY <1>3, <1>4, <1>5

\* A registration that is answered, but for a failed INSERT.
LEMMA AnsweredWatched ==
  ASSUME TInv, WInv, NEW t \in Thread, pc[t] \in Statement, NEW answer,
         Respond(t, answer), UNCHANGED <<table, req, held, raced>>,
         faulted' = faulted \/ faulted' = [faulted EXCEPT ![t] = TRUE],
         answer = "db_error" => faulted'[t]
  PROVE  WInv'
<1>1. /\ pc' = [pc EXCEPT ![t] = "responded"] /\ resp' = [resp EXCEPT ![t] = answer]
      /\ pc'[t] = "responded" /\ resp'[t] = answer
      /\ req' = req /\ held' = held
  BY DEF Respond, Goto, TInv, StateOK
<1>2. Watched(t)
  BY DEF WInv
<1>3. Watched(t)'
  BY <1>1, <1>2 DEF Watched, Quotes, Running, Explained, Statement
<1> QED BY <1>1, <1>3, LocalWatched DEF TInv, StateOK

LEMMA StartRegisterWatched ==
  ASSUME TInv, WInv, NEW t \in Thread, NEW model \in Sent, NEW token \in Token \cup {NULL},
         StartRegister(t, model, token)
  PROVE  WInv'
<1> DEFINE todo == {f \in Unique : IsSet(model, f)}
<1>1. /\ req'[t].kind = "register" /\ req'[t].model = model
      /\ req'[t].todo = todo /\ req'[t].dup = {}
      /\ held'[t] = HeldFields(model, users) /\ UNCHANGED table
  BY DEF StartRegister, NoRequest, TInv, StateOK
<1>2. HeldFields(model, users') \subseteq todo /\ users' = users
  BY <1>1 DEF HeldFields, table
<1>3. CASE Missing(model) = {} /\ Goto(t, "unique") /\ UNCHANGED resp
  <2>1. pc'[t] = "unique"
    BY <1>3 DEF Goto, TInv, StateOK
  <2>2. /\ \A f \in req'[t].todo : IsSet(req'[t].model, f)
        /\ Missing(req'[t].model) = {}
        /\ HeldFields(req'[t].model, users') \subseteq held'[t]
    BY <1>1, <1>2, <1>3
  <2>3. Running(t)'
    BY <1>1, <1>2, <2>1, <2>2 DEF Running, IsSet
  <2>4. Watched(t)'
    BY <2>1, <2>3 DEF Watched, Quotes
  <2> QED BY <1>1, <1>3, <2>4, LocalWatched DEF StartRegister, Goto, TInv, StateOK
<1>4. CASE Respond(t, "invalid_params")
  <2>1. pc'[t] = "responded" /\ resp'[t] = "invalid_params"
    BY <1>4 DEF Respond, Goto, TInv, StateOK
  <2>2. Watched(t)'
    BY <1>1, <2>1 DEF Watched, Quotes, Explained, Statement
  <2> QED BY <1>1, <1>4, <2>2, LocalWatched
          DEF StartRegister, Respond, Goto, TInv, StateOK
<1> QED BY <1>3, <1>4 DEF StartRegister

LEMMA StartOtherWatched ==
  ASSUME TInv, WInv, NEW t \in Thread, NEW target \in Id, NEW token \in Token \cup {NULL},
         \/ StartDelete(t, target, token)
         \/ \E body \in Sent : StartModify(t, target, body, token)
  PROVE  WInv'
<1>1. req'[t].kind # "register" /\ UNCHANGED table
  BY DEF StartDelete, StartModify, NoRequest, TInv, StateOK
<1>2. Watched(t)'
  BY <1>1 DEF Watched, Quotes
<1>3. \A s \in Thread \ {t} :
        /\ req'[s] = req[s] /\ pc'[s] = pc[s] /\ resp'[s] = resp[s]
        /\ held'[s] = held[s] /\ raced'[s] = raced[s] /\ faulted'[s] = faulted[s]
  BY DEF StartDelete, StartModify, Respond, Goto, history, TInv, StateOK
<1> QED BY <1>1, <1>2, <1>3, LocalWatched

LEMMA CheckUniqueWatched ==
  ASSUME TInv, WInv, NEW t \in Thread, CheckUnique(t)
  PROVE  WInv'
<1>1. PICK f \in req[t].todo :
        req' = [req EXCEPT ![t].todo = @ \ {f},
                           ![t].dup = IF Holders(f, req[t].model[f], users) # {}
                                      THEN @ \cup {f} ELSE @]
  BY DEF CheckUnique
<1> DEFINE taken == Holders(f, req[t].model[f], users) # {}
<1>2. /\ req'[t].kind = req[t].kind /\ req'[t].model = req[t].model
      /\ req'[t].todo = req[t].todo \ {f}
      /\ req'[t].dup = IF taken THEN req[t].dup \cup {f} ELSE req[t].dup
  <2>1. req[t] = [kind |-> req[t].kind, token |-> req[t].token,
                  target |-> req[t].target, model |-> req[t].model,
                  todo |-> req[t].todo, dup |-> req[t].dup]
    BY DEF TInv, StateOK, IsRequest
  <2> QED BY <1>1, <2>1 DEF TInv, StateOK
<1>3. /\ pc[t] = "unique" /\ pc' = pc /\ resp' = resp /\ UNCHANGED table
      /\ users' = users /\ held' = held /\ raced' = raced /\ faulted' = faulted
  BY DEF CheckUnique, table, history
<1>4. req[t].kind = "register" /\ req[t].todo \subseteq Unique
  BY <1>3 DEF TInv, LocalsOK, RequestOK, StateOK, IsRequest
<1>5. \A s \in Thread \ {t} : req'[s] = req[s]
  BY <1>1 DEF TInv, StateOK
<1>6. CASE Quotes(req[t].model)
  BY <1>2, <1>3, <1>5, <1>6, QuotedWatched
<1>7. CASE ~Quotes(req[t].model)
  <2>1. Running(t)
    BY <1>3, <1>4, <1>7 DEF WInv, Watched, Statement
  <2>2. taken <=> f \in HeldFields(req[t].model, users)
    BY <1>4, <2>1 DEF HeldFields, Running
  <2> HIDE DEF taken
  <2>3. Running(t)'
    BY <1>2, <1>3, <2>1, <2>2 DEF Running, Missing, HeldFields, Holders, IsSet
  <2>4. Watched(t)'
    BY <1>3, <2>3 DEF Watched, Quotes
  <2> QED BY <1>3, <1>5, <2>4, LocalWatched
<1> QED BY <1>6, <1>7

LEMMA CheckUniqueSplicedWatched ==
  ASSUME TInv, WInv, NEW t \in Thread, CheckUniqueSpliced(t)
  PROVE  WInv'
<1>1. PICK f \in req[t].todo :
        /\ req[t].model[f] \in Quoted
        /\ \/ Respond(t, "db_error") /\ UNCHANGED req
           \/ /\ \E found \in SUBSET {f} :
                   req' = [req EXCEPT ![t].todo = @ \ {f}, ![t].dup = @ \cup found]
              /\ UNCHANGED <<pc, resp>>
  BY DEF CheckUniqueSpliced
<1>2. UNCHANGED <<table, history>>
  BY DEF CheckUniqueSpliced
<1>3. f \in Field
  BY Constant, RegistrationAssumption DEF TInv, StateOK, IsRequest
<1>4. \A s \in Thread \ {t} :
        /\ req'[s] = req[s] /\ pc'[s] = pc[s] /\ resp'[s] = resp[s]
        /\ held'[s] = held[s] /\ raced'[s] = raced[s] /\ faulted'[s] = faulted[s]
  BY <1>1, <1>2 DEF Respond, Goto, history, TInv, StateOK
<1>5. req'[t].model = req[t].model
  <2>1. req[t] = [kind |-> req[t].kind, token |-> req[t].token,
                  target |-> req[t].target, model |-> req[t].model,
                  todo |-> req[t].todo, dup |-> req[t].dup]
    BY DEF TInv, StateOK, IsRequest
  <2> QED BY <1>1, <2>1 DEF TInv, StateOK
<1>6. Quotes(req'[t].model)
  BY <1>1, <1>3, <1>5 DEF Quotes
<1> QED BY <1>2, <1>4, <1>6, QuotedWatched

LEMMA CheckDoneWatched ==
  ASSUME TInv, WInv, NEW t \in Thread, CheckDone(t)
  PROVE  WInv'
<1>1. pc[t] = "unique" /\ UNCHANGED <<table, history>>
  BY DEF CheckDone
<1>2. CASE Respond(t, "invalid_params") /\ UNCHANGED req
  BY <1>1, <1>2, AnsweredWatched DEF Statement, history
<1>3. CASE /\ req[t].todo = {} /\ req[t].dup = {}
           /\ Goto(t, AfterToken(req[t].token))
           /\ req' = [req EXCEPT ![t].model["permission_group"] = "user"]
           /\ UNCHANGED resp
  <2>1. IsRequest(req[t]) /\ IsModel(req[t].model)
    BY DEF TInv, StateOK, IsRequest
  <2>2. /\ req'[t].kind = req[t].kind
        /\ req'[t].todo = req[t].todo /\ req'[t].dup = req[t].dup
        /\ req'[t].model = [req[t].model EXCEPT !["permission_group"] = "user"]
    <3>1. req[t] = [kind |-> req[t].kind, token |-> req[t].token,
                    target |-> req[t].target, model |-> req[t].model,
                    todo |-> req[t].todo, dup |-> req[t].dup]
      BY <2>1 DEF IsRequest
    <3> QED BY <1>3, <3>1 DEF TInv, StateOK
  <2>3. "user" \in FieldValues("permission_group") \cup {NULL}
    BY Constant DEF FieldValues
  <2>4. \A f \in Unique \cup Required : req'[t].model[f] = req[t].model[f]
    <3>1. \A f \in Unique \cup Required : f \in Field /\ f # "permission_group"
      BY Constant DEF Unique, Required
    <3> QED BY <2>1, <2>2, <2>3, <3>1, Constant, ModelUpdate
  <2>5. IsSet(req'[t].model, "permission_group") /\ users' = users
        /\ held' = held /\ raced' = raced
    BY <1>1, <2>1, <2>2, <2>3, Constant, ModelUpdate DEF IsSet, table, history
  <2>6. HeldFields(req'[t].model, users') = HeldFields(req[t].model, users)
    BY <2>4, <2>5 DEF HeldFields, Holders, IsSet
  <2>7. Missing(req'[t].model) = Missing(req[t].model)
    BY <2>4 DEF Missing, IsSet
  <2>8. Quotes(req[t].model) => Quotes(req'[t].model)
    <3>1. \A f \in Field : f # "permission_group" => req'[t].model[f] = req[t].model[f]
      BY <2>1, <2>2, <2>3, Constant, ModelUpdate
    <3>2. req[t].model["permission_group"] \in PermGroup \cup {NULL}
      BY <2>1, Constant DEF IsModel, FieldValues
    <3> QED BY <3>1, <3>2, Constant DEF Quotes
  <2>9. ASSUME ~Quotes(req[t].model) PROVE Running(t)'
    <3>1. req[t].kind = "register" /\ Running(t)
      BY <1>1, <2>9 DEF WInv, Watched, Statement, TInv, LocalsOK, RequestOK
    <3> QED BY <1>3, <2>2, <2>5, <2>6, <2>7, <3>1 DEF Running
  <2>10. pc'[t] # "responded"
    BY <1>3, AfterTokenType DEF Goto, TInv, StateOK
  <2>11. Watched(t)'
    BY <2>8, <2>9, <2>10 DEF Watched, Quotes
  <2> QED BY <1>1, <1>3, <2>11, LocalWatched DEF Goto, history, TInv, StateOK
<1> QED BY <1>2, <1>3 DEF CheckDone

LEMMA AccessWatched ==
  ASSUME TInv, WInv, NEW t \in Thread, Grant(t) \/ LoadPerms(t)
  PROVE  WInv'
<1>1. /\ pc[t] \in {"grant", "load_perms"}
      /\ UNCHANGED <<table, req, held, raced, faulted>>
  BY DEF Grant, LoadPerms, history
<1>2. ASSUME NEW answer, answer # "db_error", Respond(t, answer) PROVE WInv'
  BY <1>1, <1>2, AnsweredWatched DEF Statement
<1>3. ASSUME NEW label \in {"load_perms", "exec"}, Goto(t, label), UNCHANGED resp
      PROVE  WInv'
  <2>1. pc'[t] = label /\ \A s \in Thread \ {t} : pc'[s] = pc[s]
    BY <1>3 DEF Goto, TInv, StateOK
  <2>2. req' = req /\ users' = users /\ held' = held /\ raced' = raced
    BY <1>1 DEF table
  <2>3. Running(t) => Running(t)'
    BY <1>1, <2>2 DEF Running, Missing, HeldFields, Holders, IsSet
  <2>4. Watched(t)'
    BY <1>1, <2>1, <2>2, <2>3 DEF WInv, Watched, Quotes, Statement
  <2> QED BY <1>1, <1>3, <2>1, <2>4, LocalWatched
<1> QED BY <1>2, <1>3, RefusalType DEF Grant, LoadPerms

\* A registration whose INSERT is refused has no id left or lost a race: what
\* is required is in the row, and the values the row has were free.
LEMMA InsertWatched ==
  ASSUME TInv, TInv', WInv, RightsOnNewAccounts, NEW t \in Thread, ExecInsert(t)
  PROVE  WInv'
<1> DEFINE row == AuthorizedModel(t)
           i == IF IsSet(row, "id") THEN row["id"] ELSE seq + 1
<1>1. pc[t] = "exec" /\ req[t].kind = "register"
  BY DEF ExecInsert
<1>2. ~Quotes(req[t].model) => Running(t)
  BY <1>1 DEF WInv, Watched, Statement
<1>3. i = seq + 1 /\ \A f \in Required : row[f] = req[t].model[f]
  BY <1>1, RegisteredFields
<1> HIDE DEF row, i
<1>4. CASE /\ i > MaxId \/ (i \in Id /\ users[i] # NULL) \/ Rejected(row, i)
           /\ Respond(t, "db_error") /\ UNCHANGED <<table, history, req>>
  <2>1. ASSUME i > MaxId PROVE seq = MaxId
    BY <1>3, <2>1, Constant DEF TInv, StateOK, Id
  <2>2. ~(i \in Id /\ users[i] # NULL)
    BY <1>3, Constant DEF TInv, StateOK, Id
  <2>3. ASSUME Rejected(row, i), ~Quotes(req[t].model) PROVE raced[t] # {}
    <3>1. \A f \in Required : IsSet(row, f)
      BY <1>2, <1>3, <2>3 DEF Running, Missing, IsSet
    <3>2. PICK f \in Required : \E j \in Id : j \in Holders(f, row[f], users)
      BY <2>3, <3>1 DEF Rejected
    <3>3. f \in HeldFields(req[t].model, users)
      BY <1>3, <3>1, <3>2 DEF HeldFields, IsSet, Required, Unique
    <3> QED BY <1>1, <1>2, <2>3, <3>3 DEF Running
  <2>4. /\ pc' = [pc EXCEPT ![t] = "responded"] /\ pc'[t] = "responded"
        /\ resp' = [resp EXCEPT ![t] = "db_error"]
        /\ req' = req /\ held' = held /\ raced' = raced /\ faulted' = faulted
        /\ seq' = seq
    BY <1>4 DEF Respond, Goto, table, history, TInv, StateOK
  <2>5. ASSUME ~Quotes(req[t].model) PROVE Explained(t)'
    BY <1>2, <1>4, <2>1, <2>2, <2>3, <2>4, <2>5 DEF Running, Explained
  <2>6. Watched(t)'
    BY <2>4, <2>5 DEF Watched, Quotes, Statement
  <2>7. /\ UNCHANGED table /\ req' = req
        /\ \A s \in Thread \ {t} :
             /\ pc'[s] = pc[s] /\ resp'[s] = resp[s]
             /\ held'[s] = held[s] /\ raced'[s] = raced[s] /\ faulted'[s] = faulted[s]
    BY <1>4 DEF Respond, Goto, history, TInv, StateOK
  <2> QED BY <2>6, <2>7, LocalWatched
<1>5. CASE /\ seq' = IF i > seq THEN i ELSE seq
           /\ Respond(t, "ok") /\ Observe(t)
  <2>1. seq <= seq'
    BY <1>3, <1>5, Constant DEF TInv, StateOK, Id
  <2> QED BY <1>1, <1>5, <2>1, ObservedWatched
<1> QED BY <1>4, <1>5 DEF ExecInsert, row, i

LEMMA UpdateDeleteWatched ==
  ASSUME TInv, TInv', WInv, NEW t \in Thread, ExecUpdate(t) \/ ExecDelete(t)
  PROVE  WInv'
<1>1. pc[t] = "exec" /\ req[t].kind # "register"
  BY DEF ExecUpdate, ExecDelete
<1>2. CASE Respond(t, "db_error") /\ UNCHANGED <<table, history, req>>
  <2>1. Watched(t)'
    BY <1>1, <1>2 DEF Watched, Quotes
  <2> QED BY <1>2, <2>1, LocalWatched DEF Respond, Goto, history, TInv, StateOK
<1>3. CASE Respond(t, "ok") /\ Observe(t) /\ UNCHANGED seq
  <2>1. seq <= seq'
    BY <1>3, Constant DEF TInv, StateOK, Id
  <2> QED BY <1>1, <1>3, <2>1, ObservedWatched
<1> QED BY <1>2, <1>3 DEF ExecUpdate, ExecDelete

LEMMA ExecSplicedWatched ==
  ASSUME TInv, TInv', WInv, NEW t \in Thread, ExecSpliced(t)
  PROVE  WInv'
<1>1. CASE Respond(t, "db_error") /\ UNCHANGED <<table, history, req>>
  <2>1. Quotes(req'[t].model)
    BY <1>1, SplicedQuotes DEF ExecSpliced
  <2> QED BY <1>1, <2>1, QuotedWatched DEF Respond, Goto, history, TInv, StateOK
<1>2. CASE Respond(t, "ok") /\ Observe(t) /\ seq <= seq'
  BY <1>2, ObservedWatched DEF ExecSpliced
<1> QED BY <1>1, <1>2 DEF ExecSpliced

LEMMA FinishWatched ==
  ASSUME TInv, WInv, NEW t \in Thread, Finish(t)
  PROVE  WInv'
<1>1. pc'[t] = "idle" /\ UNCHANGED table
  BY DEF Finish, Goto, TInv, StateOK
<1>2. Watched(t)'
  BY <1>1 DEF Watched, Quotes, Statement
<1> QED BY <1>1, <1>2, LocalWatched DEF Finish, Goto, TInv, StateOK

LEMMA NextWInv ==
  ASSUME RightsOnNewAccounts
  PROVE  TInv /\ TInv' /\ WInv /\ [Next]_vars => WInv'
<1> SUFFICES ASSUME TInv, TInv', WInv, [Next]_vars PROVE WInv'
  OBVIOUS
<1>1. ASSUME NEW t \in Thread, NEW token \in Token \cup {NULL}, Start(t, token)
      PROVE  WInv'
  BY <1>1, StartRegisterWatched, StartOtherWatched DEF Start
<1>2. ASSUME NEW t \in Thread, Handle(t) PROVE WInv'
  BY <1>2, CheckUniqueWatched, CheckUniqueSplicedWatched, CheckDoneWatched,
     AccessWatched, InsertWatched, UpdateDeleteWatched, ExecSplicedWatched DEF Handle
<1>3. ASSUME NEW t \in Thread, StatementFails(t) PROVE WInv'
  <2>1. faulted'[t]
    BY <1>3 DEF StatementFails, TInv, StateOK
  <2> QED BY <1>3, <2>1, AnsweredWatched DEF StatementFails
<1>4. CASE UNCHANGED vars
  BY <1>4, SameWatched DEF vars, history, WInv
<1> QED BY <1>1, <1>2, <1>3, <1>4, FinishWatched DEF Next

\* In every execution a registration without quotes names as duplicates only fields whose value
\* some account held while it was running, and fails at its INSERT only by a
\* failed statement, for want of an id, or because it lost a race, if who may
\* make an account may give it what the table requires.
THEOREM FailsOnlyIfTakenTheorem ==
  ASSUME RightsOnNewAccounts
  PROVE  Spec => []FailsOnlyIfTaken
<1>1. WInv => FailsOnlyIfTaken
  BY DEF WInv, Watched, Quotes, Explained, FailsOnlyIfTaken
<1> QED BY InitTInv, NextTInv, InitWInv, NextWInv, <1>1, PTL DEF Spec
=============================================================================
