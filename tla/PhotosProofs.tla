---------------------------- MODULE PhotosProofs ----------------------------
(***************************************************************************)
(* Proofs about Photos, for any number of threads and photos, any bodies,  *)
(* callers, failures and logins.                                           *)
(*                                                                         *)
(*   TInv  the types, and what the place of a handler says of its request  *)
(*   PInv  the life of an id that is not exempt: drawn by one upload, then *)
(*         either a row with its files, which deletions take away step by  *)
(*         step, or left behind; and in each phase which files there are   *)
(***************************************************************************)
EXTENDS Photos, TLAPS

\* The tables, the disk and the histories; the handlers.
RowsOK ==
  /\ photos = [i \in PhotoId |-> photos[i]]
  /\ \A i \in PhotoId : photos[i] # NULL =>
       /\ IsModel(photos[i]) /\ photos[i]["id"] = i
       /\ \A f \in NotNull : IsSet(photos[i], f)

LEMMA TableRows == IsTable(photos) <=> RowsOK
  BY DEF IsTable, RowsOK

DiskOK ==
  /\ files \in [PhotoId \X Extension -> Content \cup {Cut, NULL}]
  /\ thumbnails \in [PhotoId -> Content \cup {Cut, NULL}]

HistoryOK ==
  /\ auth_tokens \subseteq Token
  /\ uploaded \in [PhotoId -> Content \cup {NULL}]
  /\ exempt \subseteq PhotoId /\ drawn \subseteq PhotoId
  /\ removed \subseteq PhotoId /\ abandoned \subseteq PhotoId

WorldOK == RowsOK /\ DiskOK /\ HistoryOK

Places == Statement \cup FileStep \cup {"idle", "responded"}

HandlersOK ==
  /\ pc \in [Thread -> Places]
  /\ req = [t \in Thread |-> req[t]] /\ \A t \in Thread : IsRequest(req[t])
  /\ resp \in [Thread -> Response]

\* What the place of a handler says of its request.
RequestOK(t) ==
  /\ req[t].kind = "upload" =>
       /\ req[t].model["id"] \in PhotoId /\ req[t].model["extension"] \in Extension
       /\ req[t].content \in Content
  /\ req[t].kind \in {"modify", "delete"} /\ pc[t] # "idle" =>
       req[t].target \in PhotoId /\ req[t].model["id"] = req[t].target
  /\ pc[t] \in {"grant", "store", "convert"} => req[t].kind = "upload"
  /\ pc[t] \in {"read_access", "select"} => req[t].kind \in {"modify", "delete"}
  /\ pc[t] \in {"rm_file", "rm_thumbnail"} => req[t].kind = "delete"

TInv == WorldOK /\ HandlersOK /\ \A t \in Thread : RequestOK(t)

LEMMA TInvTypes == TInv => TypeOK
  BY TableRows DEF TInv, WorldOK, DiskOK, HistoryOK, HandlersOK, TypeOK, Places

----------------------------------------------------------------------------
(* Models and requests                                                     *)

LEMMA Constant ==
  /\ Field = {"id", "extension", "title", "uploaded_by", "is_private"}
  /\ NULL \notin User /\ NULL \notin PhotoId /\ NULL \notin {0, 1}
  /\ NULL \notin Extension \cup Title \cup Content \cup {Cut} /\ Cut \notin Content
  BY PhotoAssumption

LEMMA NullIsNoModel ==
  ASSUME NEW m, IsModel(m)
  PROVE  m # NULL
<1>1. m \in [Field -> (UNION {FieldValues(f) : f \in Field}) \cup {NULL}]
  BY DEF IsModel
<1> QED BY <1>1, PhotoAssumption

LEMMA EmptyIsModel == IsModel(EmptyModel)
  BY DEF IsModel, EmptyModel

\* A model stays one when a field gets a value of its own.
LEMMA ModelUpdate ==
  ASSUME NEW m, IsModel(m), NEW g \in Field, NEW v \in FieldValues(g) \cup {NULL}
  PROVE  /\ IsModel([m EXCEPT ![g] = v])
         /\ [m EXCEPT ![g] = v][g] = v
         /\ \A f \in Field : f # g => [m EXCEPT ![g] = v][f] = m[f]
<1> DEFINE n == [m EXCEPT ![g] = v]
<1>1. n = [f \in Field |-> IF f = g THEN v ELSE m[f]]
  BY DEF IsModel
<1>2. n = [f \in Field |-> n[f]]
  BY <1>1
<1>3. \A f \in Field : n[f] \in FieldValues(f) \cup {NULL}
  BY <1>1 DEF IsModel
<1> QED BY <1>1, <1>2, <1>3 DEF IsModel

\* What is left of a model is a model, with the values it had.
LEMMA ErasedIsModel ==
  ASSUME NEW D, NEW pp, NEW m, NEW model, IsModel(model)
  PROVE  /\ IsModel(Erased(D, pp, m, model))
         /\ \A f \in Field : IsSet(Erased(D, pp, m, model), f) =>
              /\ f \in Surviving(D, pp, m, model)
              /\ Erased(D, pp, m, model)[f] = model[f]
  BY DEF Erased, IsModel, IsSet

Requests(m) ==
  [kind : Kinds, token : Token \cup {NULL}, target : PhotoId \cup {NULL},
   model : {m}, content : Content \cup {NULL}, extension : Extension \cup {NULL}]

LEMMA RequestsAre ==
  ASSUME NEW m, IsModel(m), NEW r \in Requests(m)
  PROVE  IsRequest(r)
  BY DEF Requests, IsRequest

LEMMA RequestIn ==
  ASSUME NEW r, IsRequest(r)
  PROVE  r \in Requests(r.model) /\ IsModel(r.model)
  BY DEF Requests, IsRequest

LEMMA NoRequestOK == IsRequest(NoRequest)
  BY EmptyIsModel DEF NoRequest, IsRequest, Kinds

----------------------------------------------------------------------------
(* Types                                                                   *)

LEMMA InitTInv == Init => TInv
<1> SUFFICES ASSUME Init PROVE TInv
  OBVIOUS
<1>1. RowsOK
  BY PhotoAssumption DEF Init, IsTable, RowsOK
<1>2. files \in [PhotoId \X Extension -> Content \cup {Cut, NULL}]
  BY DEF Init
<1>3. DiskOK
  <2>1. thumbnails \in [PhotoId -> Content \cup {NULL}]
    BY DEF Init
  <2> QED BY <1>2, <2>1 DEF DiskOK
<1>4. HistoryOK
  BY DEF Init, HistoryOK
<1>5. HandlersOK
  BY NoRequestOK DEF Init, HandlersOK, Places, Response
<1>6. \A t \in Thread : RequestOK(t)
  BY DEF Init, RequestOK, NoRequest
<1> QED BY <1>1, <1>3, <1>4, <1>5, <1>6 DEF TInv, WorldOK

\* A step of one handler, with what it does to the world.
LEMMA HandlerStep ==
  ASSUME TInv, NEW t \in Thread, NEW r, NEW label \in Places, NEW answer \in Response,
         IsRequest(r),
         req' = [req EXCEPT ![t] = r],
         pc' = [pc EXCEPT ![t] = label],
         resp' = [resp EXCEPT ![t] = answer],
         RequestOK(t)', WorldOK'
  PROVE  TInv'
<1>1. /\ req' = [s \in Thread |-> req'[s]]
      /\ req'[t] = r /\ \A s \in Thread \ {t} : req'[s] = req[s]
  BY DEF TInv, HandlersOK
<1>2. /\ pc' \in [Thread -> Places]
      /\ \A s \in Thread \ {t} : pc'[s] = pc[s]
  BY DEF TInv, HandlersOK
<1>3. HandlersOK'
  BY <1>1, <1>2 DEF TInv, HandlersOK
<1>4. \A s \in Thread : RequestOK(s)'
  BY <1>1, <1>2 DEF TInv, RequestOK
<1> QED BY <1>3, <1>4 DEF TInv

\* A handler that keeps its request and goes on or answers.
LEMMA MoveStep ==
  ASSUME TInv, NEW t \in Thread, NEW label \in Places, NEW answer \in Response,
         req' = req, Goto(t, label), resp' = [resp EXCEPT ![t] = answer],
         label = "store" => pc[t] = "grant",
         label = "convert" => pc[t] = "store",
         label = "select" => pc[t] = "read_access",
         label = "rm_thumbnail" => pc[t] = "rm_file",
         label \notin {"idle", "grant", "read_access", "rm_file"}, pc[t] # "idle",
         WorldOK'
  PROVE  TInv'
<1>1. req' = [req EXCEPT ![t] = req[t]] /\ IsRequest(req[t])
  BY DEF TInv, HandlersOK
<1>2. pc' = [pc EXCEPT ![t] = label] /\ pc'[t] = label /\ req'[t] = req[t]
  BY DEF Goto, TInv, HandlersOK
<1>3. RequestOK(t)'
  BY <1>2 DEF TInv, RequestOK
<1> QED BY <1>1, <1>2, <1>3, HandlerStep

\* As above, where the answer of Respond is any.
LEMMA AnswerStep ==
  ASSUME TInv, NEW t \in Thread, NEW answer \in Response, req' = req,
         Respond(t, answer), pc[t] # "idle", WorldOK'
  PROVE  TInv'
  BY MoveStep DEF Respond, Places

LEMMA GoOn ==
  ASSUME TInv, NEW t \in Thread, NEW label \in Places, req' = req, resp' = resp,
         Goto(t, label),
         label = "store" => pc[t] = "grant",
         label = "convert" => pc[t] = "store",
         label = "select" => pc[t] = "read_access",
         label = "rm_thumbnail" => pc[t] = "rm_file",
         label \notin {"idle", "grant", "read_access", "rm_file"}, pc[t] # "idle",
         WorldOK'
  PROVE  TInv'
<1>1. resp' = [resp EXCEPT ![t] = resp[t]] /\ resp[t] \in Response
  BY DEF TInv, HandlersOK
<1> QED BY <1>1, MoveStep

LEMMA SameWorld ==
  ASSUME WorldOK, UNCHANGED <<photos, disk, auth_tokens, history>>
  PROVE  WorldOK'
  BY DEF WorldOK, RowsOK, DiskOK, HistoryOK, disk, history

LEMMA StartUploadTInv ==
  ASSUME TInv, NEW t \in Thread, NEW body \in Sent, NEW e \in Extension,
         NEW c \in Content, NEW token \in Token \cup {NULL}, NEW i \in PhotoId,
         "upload" \in Kind, StartUpload(t, body, e, c, token, i)
  PROVE  TInv'
<1> DEFINE id == [body EXCEPT !["id"] = i]
           model == [id EXCEPT !["extension"] = e]
           r == [NoRequest EXCEPT !.kind = "upload", !.token = token,
                   !.content = c, !.model = model]
<1>1. IsModel(id) /\ id["id"] = i
  BY PhotoAssumption, ModelUpdate DEF FieldValues
<1>2. IsModel(model) /\ model["id"] = i /\ model["extension"] = e
  <2> HIDE DEF id
  <2> QED BY <1>1, Constant, ModelUpdate DEF FieldValues
<1> HIDE DEF id, model
<1>3. r \in [kind : {"upload"}, token : {token}, target : {NULL}, model : {model},
             content : {c}, extension : {NULL}]
  BY DEF NoRequest
<1> HIDE DEF r
<1>4. IsRequest(r)
  <2>1. r \in Requests(model)
    BY <1>3 DEF Requests, Kinds
  <2> QED BY <1>2, <2>1, RequestsAre
<1>5. req' = [req EXCEPT ![t] = r]
  BY DEF StartUpload, id, model, r
<1>6. resp' = [resp EXCEPT ![t] = resp[t]] /\ resp[t] \in Response
  BY DEF StartUpload, TInv, HandlersOK
<1>7. pc' = [pc EXCEPT ![t] = "grant"] /\ "grant" \in Places
  BY DEF StartUpload, Goto, Places, Statement
<1>8. RequestOK(t)'
  <2>1. pc'[t] = "grant" /\ req'[t] = r
    BY <1>5, <1>7 DEF TInv, HandlersOK
  <2> QED BY <2>1, <1>2, <1>3 DEF RequestOK
<1>9. WorldOK'
  BY DEF TInv, StartUpload, WorldOK, RowsOK, DiskOK, HistoryOK, disk
<1> QED BY <1>4, <1>5, <1>6, <1>7, <1>8, <1>9, HandlerStep

LEMMA StartModifyTInv ==
  ASSUME TInv, NEW t \in Thread, NEW target \in PhotoId, NEW body \in Sent,
         NEW token \in Token \cup {NULL}, StartModify(t, target, body, token)
  PROVE  TInv'
<1> DEFINE model == [body EXCEPT !["id"] = target]
           r == [NoRequest EXCEPT !.kind = "modify", !.token = token,
                   !.target = target, !.model = model]
<1>1. IsModel(model) /\ model["id"] = target
  BY PhotoAssumption, ModelUpdate DEF FieldValues
<1> HIDE DEF model
<1>2. r \in [kind : {"modify"}, token : {token}, target : {target}, model : {model},
             content : {NULL}, extension : {NULL}]
  BY DEF NoRequest
<1> HIDE DEF r
<1>3. IsRequest(r)
  <2>1. r \in Requests(model)
    BY <1>2 DEF Requests, Kinds
  <2> QED BY <1>1, <2>1, RequestsAre
<1>4. req' = [req EXCEPT ![t] = r]
  BY DEF StartModify, model, r
<1>5. PICK label \in {"read_access", "responded"}, answer \in Response :
        pc' = [pc EXCEPT ![t] = label] /\ resp' = [resp EXCEPT ![t] = answer]
  <2>1. CASE Unsatisfied(body) = {}
    <3>1. resp' = [resp EXCEPT ![t] = resp[t]] /\ resp[t] \in Response
      BY <2>1 DEF StartModify, TInv, HandlersOK
    <3> QED BY <2>1, <3>1 DEF StartModify, Goto
  <2>2. CASE Unsatisfied(body) # {}
    BY <2>2 DEF StartModify, Respond, Goto, Response
  <2> QED BY <2>1, <2>2
<1>6. RequestOK(t)'
  <2>1. pc'[t] = label /\ req'[t] = r
    BY <1>4, <1>5 DEF TInv, HandlersOK
  <2> QED BY <2>1, <1>1, <1>2 DEF RequestOK
<1>7. WorldOK'
  BY SameWorld DEF TInv, StartModify
<1> QED BY <1>3, <1>4, <1>5, <1>6, <1>7, HandlerStep DEF Places, Statement

LEMMA StartDeleteTInv ==
  ASSUME TInv, NEW t \in Thread, NEW target \in PhotoId,
         NEW token \in Token \cup {NULL}, StartDelete(t, target, token)
  PROVE  TInv'
<1> DEFINE model == [EmptyModel EXCEPT !["id"] = target]
           r == [NoRequest EXCEPT !.kind = "delete", !.token = token,
                   !.target = target, !.model = model]
<1>1. IsModel(model) /\ model["id"] = target
  BY EmptyIsModel, Constant, ModelUpdate DEF FieldValues
<1> HIDE DEF model
<1>2. r \in [kind : {"delete"}, token : {token}, target : {target}, model : {model},
             content : {NULL}, extension : {NULL}]
  BY DEF NoRequest
<1> HIDE DEF r
<1>3. IsRequest(r)
  <2>1. r \in Requests(model)
    BY <1>2 DEF Requests, Kinds
  <2> QED BY <1>1, <2>1, RequestsAre
<1>4. req' = [req EXCEPT ![t] = r]
  BY DEF StartDelete, model, r
<1>5. resp' = [resp EXCEPT ![t] = resp[t]] /\ resp[t] \in Response
  BY DEF StartDelete, TInv, HandlersOK
<1>6. pc' = [pc EXCEPT ![t] = "read_access"] /\ "read_access" \in Places
  BY DEF StartDelete, Goto, Places, Statement
<1>7. RequestOK(t)'
  <2>1. pc'[t] = "read_access" /\ req'[t] = r
    BY <1>4, <1>6 DEF TInv, HandlersOK
  <2> QED BY <2>1, <1>1, <1>2 DEF RequestOK
<1>8. WorldOK'
  BY SameWorld DEF TInv, StartDelete
<1> QED BY <1>3, <1>4, <1>5, <1>6, <1>7, <1>8, HandlerStep

\* The model of a request with another value for the owner.
LEMMA OwnerSet ==
  ASSUME NEW r, IsRequest(r), NEW owner \in User \cup {NULL}
  PROVE  LET model == [r.model EXCEPT !["uploaded_by"] = owner]
         IN  /\ IsRequest([r EXCEPT !.model = model])
             /\ [r EXCEPT !.model = model].model = model
             /\ [r EXCEPT !.model = model].kind = r.kind
             /\ [r EXCEPT !.model = model].token = r.token
             /\ [r EXCEPT !.model = model].target = r.target
             /\ [r EXCEPT !.model = model].content = r.content
             /\ [r EXCEPT !.model = model].extension = r.extension
             /\ \A f \in Field : f # "uploaded_by" => model[f] = r.model[f]
<1> DEFINE model == [r.model EXCEPT !["uploaded_by"] = owner]
           n == [r EXCEPT !.model = model]
<1>1. IsModel(model) /\ \A f \in Field : f # "uploaded_by" => model[f] = r.model[f]
  BY Constant, ModelUpdate DEF IsRequest, FieldValues
<1> HIDE DEF model
<1>2. n \in [kind : {r.kind}, token : {r.token}, target : {r.target}, model : {model},
             content : {r.content}, extension : {r.extension}]
  BY DEF IsRequest
<1> HIDE DEF n
<1>3. n \in Requests(model)
  BY <1>2 DEF IsRequest, Requests
<1>4. IsRequest(n)
  BY <1>1, <1>3, RequestsAre
<1> QED BY <1>1, <1>2, <1>4 DEF n, model

LEMMA TokenOwner ==
  ASSUME NEW r, IsRequest(r), r.token # NULL
  PROVE  r.token[1] \in User /\ r.token \in Token
  BY PhotoAssumption DEF IsRequest

LEMMA GrantUploadTInv ==
  ASSUME TInv, NEW t \in Thread, GrantUpload(t)
  PROVE  TInv'
<1> DEFINE owner == IF req[t].token = NULL THEN NULL ELSE req[t].token[1]
           model == [req[t].model EXCEPT !["uploaded_by"] = owner]
           r == [req[t] EXCEPT !.model = model]
<1>1. owner \in User \cup {NULL}
  BY TokenOwner DEF TInv, HandlersOK
<1>2. PICK label \in {"store", "responded"}, answer \in Response :
        pc' = [pc EXCEPT ![t] = label] /\ resp' = [resp EXCEPT ![t] = answer]
  <2>1. resp = [resp EXCEPT ![t] = resp[t]] /\ resp[t] \in Response
    BY DEF TInv, HandlersOK
  <2> QED BY <2>1 DEF GrantUpload, Respond, Goto, Response
<1>3. req' = [req EXCEPT ![t] = r] /\ pc[t] = "grant"
  BY DEF GrantUpload
<1> HIDE DEF owner
<1>4. /\ IsRequest(r) /\ r.kind = req[t].kind /\ r.content = req[t].content
      /\ r.model["id"] = req[t].model["id"]
      /\ r.model["extension"] = req[t].model["extension"]
  BY <1>1, OwnerSet, Constant DEF TInv, HandlersOK
<1> HIDE DEF r
<1>5. RequestOK(t)'
  <2>1. pc'[t] = label /\ req'[t] = r
    BY <1>2, <1>3 DEF TInv, HandlersOK
  <2> QED BY <2>1, <1>3, <1>4 DEF TInv, RequestOK
<1>6. WorldOK'
  BY SameWorld DEF TInv, GrantUpload
<1> QED BY <1>2, <1>3, <1>4, <1>5, <1>6, HandlerStep DEF Places, FileStep

LEMMA StoreFileTInv ==
  ASSUME TInv, NEW t \in Thread, StoreFile(t)
  PROVE  TInv'
<1>1. req[t].kind = "upload" /\ req[t].content \in Content
  BY DEF TInv, RequestOK, StoreFile
<1>2. files' \in [PhotoId \X Extension -> Content \cup {Cut, NULL}]
  BY <1>1 DEF TInv, WorldOK, DiskOK, StoreFile
<1>3. WorldOK'
  BY <1>2 DEF TInv, WorldOK, RowsOK, DiskOK, HistoryOK, StoreFile, history
<1> QED BY <1>3, GoOn DEF StoreFile, Places, FileStep

LEMMA ConvertTInv ==
  ASSUME TInv, NEW t \in Thread, Convert(t)
  PROVE  TInv'
<1>1. /\ req[t].kind = "upload" /\ req[t].model["id"] \in PhotoId
      /\ req[t].model["extension"] \in Extension
  BY DEF TInv, RequestOK, Convert
<1>2. files[<<req[t].model["id"], req[t].model["extension"]>>] \in Content \cup {Cut, NULL}
  BY <1>1 DEF TInv, WorldOK, DiskOK
<1>3. thumbnails' \in [PhotoId -> Content \cup {Cut, NULL}]
  BY <1>1, <1>2 DEF TInv, WorldOK, DiskOK, Convert
<1>4. WorldOK'
  BY <1>3 DEF TInv, WorldOK, RowsOK, DiskOK, HistoryOK, Convert, history
<1> QED BY <1>4, GoOn DEF Convert, Places, Statement

LEMMA ExecInsertTInv ==
  ASSUME TInv, NEW t \in Thread, ExecInsert(t)
  PROVE  TInv'
<1> DEFINE i == req[t].model["id"]
           row == Authorized(t, "CREATE", req[t].model)
<1>1. /\ req[t].kind = "upload" /\ i \in PhotoId /\ IsModel(req[t].model)
      /\ req[t].content \in Content
  BY DEF TInv, RequestOK, ExecInsert, HandlersOK, IsRequest
<1>2. /\ IsModel(row)
      /\ IsSet(row, "id") => row["id"] = i
  BY <1>1, ErasedIsModel, Constant DEF Authorized
<1>3. CASE photos[i] = NULL /\ \A f \in NotNull : IsSet(row, f)
  <2>1. /\ photos' = [photos EXCEPT ![i] = row]
        /\ uploaded' = [uploaded EXCEPT ![i] = req[t].content]
        /\ Respond(t, "ok") /\ UNCHANGED abandoned
    BY <1>3 DEF ExecInsert
  <2>2. row["id"] = i
    BY <1>2, <1>3 DEF NotNull
  <2> HIDE DEF row
  <2>3. RowsOK'
    BY <1>1, <1>2, <1>3, <2>1, <2>2 DEF TInv, WorldOK, RowsOK
  <2>4. WorldOK'
    BY <1>1, <2>1, <2>3 DEF TInv, WorldOK, DiskOK, HistoryOK, ExecInsert, disk
  <2> QED BY <2>1, <2>4, AnswerStep DEF ExecInsert, Response
<1>4. CASE ~(photos[i] = NULL /\ \A f \in NotNull : IsSet(row, f))
  <2>1. /\ UNCHANGED <<photos, uploaded>> /\ Respond(t, "db_error")
        /\ abandoned' = abandoned \cup {i}
    BY <1>4 DEF ExecInsert
  <2> HIDE DEF row
  <2>2. WorldOK'
    BY <1>1, <2>1 DEF TInv, WorldOK, RowsOK, DiskOK, HistoryOK, ExecInsert, disk
  <2> QED BY <2>1, <2>2, AnswerStep DEF ExecInsert, Response
<1> QED BY <1>3, <1>4

LEMMA ReadAccessTInv ==
  ASSUME TInv, NEW t \in Thread, ReadAccess(t)
  PROVE  TInv'
<1>1. WorldOK'
  BY SameWorld DEF TInv, ReadAccess
<1>2. CASE Goto(t, "select") /\ UNCHANGED resp
  BY <1>1, <1>2, GoOn DEF ReadAccess, Places, Statement
<1>3. CASE \E answer \in Response : Respond(t, answer)
  BY <1>1, <1>3, AnswerStep DEF ReadAccess
<1> QED BY <1>2, <1>3 DEF ReadAccess, Response

LEMMA SelectTInv ==
  ASSUME TInv, NEW t \in Thread, Select(t)
  PROVE  TInv'
<1> DEFINE i == req[t].target
           read == Authorized(t, "READ", Selected(t))
           n == [req[t] EXCEPT !.model["uploaded_by"] = read["uploaded_by"],
                               !.extension = read["extension"]]
<1>1. WorldOK'
  BY SameWorld DEF TInv, Select
<1>2. i \in PhotoId /\ req[t].kind \in {"modify", "delete"} /\ IsRequest(req[t])
  BY DEF TInv, RequestOK, Select, HandlersOK
<1>3. CASE req' = req /\ \E answer \in Response : Respond(t, answer)
  BY <1>1, <1>3, AnswerStep DEF Select
<1>4. CASE /\ photos[i] # NULL
           /\ Goto(t, IF req[t].kind = "delete" THEN "rm_file" ELSE "access")
           /\ req' = [req EXCEPT ![t] = n]
           /\ UNCHANGED resp
  <2>1. IsModel(photos[i])
    BY <1>2, <1>4 DEF TInv, WorldOK, RowsOK
  <2>2. IsModel(Selected(t))
    BY <2>1 DEF Selected, IsModel
  <2>3. IsModel(read)
    BY <2>2, ErasedIsModel DEF Authorized
  <2>4. /\ read["uploaded_by"] \in User \cup {NULL}
        /\ read["extension"] \in Extension \cup {NULL}
    <3> HIDE DEF read
    <3> QED BY <2>3, Constant DEF IsModel, FieldValues
  <2> DEFINE model == [req[t].model EXCEPT !["uploaded_by"] = read["uploaded_by"]]
  <2> HIDE DEF read
  <2>5. IsModel(model) /\ model["id"] = req[t].model["id"]
    BY <1>2, <2>4, ModelUpdate, Constant DEF IsRequest, FieldValues
  <2>6. n \in [kind : {req[t].kind}, token : {req[t].token}, target : {i},
               model : {model}, content : {req[t].content},
               extension : {read["extension"]}]
    BY <1>2 DEF IsRequest
  <2> HIDE DEF model, n, i
  <2>7. n \in Requests(model)
    BY <1>2, <2>4, <2>6 DEF IsRequest, Requests, i
  <2>8. IsRequest(n)
    BY <2>5, <2>7, RequestsAre
  <2> DEFINE label == IF req[t].kind = "delete" THEN "rm_file" ELSE "access"
  <2>9. pc' = [pc EXCEPT ![t] = label] /\ label \in Places
    BY <1>4 DEF Goto, Places, FileStep, Statement
  <2>10. resp' = [resp EXCEPT ![t] = resp[t]] /\ resp[t] \in Response
    BY <1>4 DEF TInv, HandlersOK
  <2>11. RequestOK(t)'
    <3>1. pc'[t] = label /\ req'[t] = n /\ pc[t] = "select"
      BY <1>4, <2>9 DEF TInv, HandlersOK, Select
    <3>2. /\ n.kind = req[t].kind /\ n.target = i /\ n.model["id"] = req[t].model["id"]
          /\ req[t].model["id"] = i
      BY <2>5, <2>6, <3>1, <1>2 DEF TInv, RequestOK, i
    <3> HIDE DEF label
    <3>3. label \in {"rm_file", "access"} /\ (label = "rm_file" => req[t].kind = "delete")
      BY DEF label
    <3> QED BY <1>2, <3>1, <3>2, <3>3 DEF RequestOK, i
  <2> HIDE DEF label
  <2> QED BY <1>1, <1>4, <2>8, <2>9, <2>10, <2>11, HandlerStep
<1> QED BY <1>3, <1>4 DEF Select, Response

LEMMA RemoveFileTInv ==
  ASSUME TInv, NEW t \in Thread, RemoveFile(t)
  PROVE  TInv'
<1>1. req[t].kind = "delete" /\ req[t].target \in PhotoId
  BY DEF TInv, RequestOK, RemoveFile
<1>2. files' \in [PhotoId \X Extension -> Content \cup {Cut, NULL}]
  BY <1>1 DEF TInv, WorldOK, DiskOK, RemoveFile
<1>3. WorldOK'
  BY <1>1, <1>2 DEF TInv, WorldOK, RowsOK, DiskOK, HistoryOK, RemoveFile
<1> QED BY <1>3, GoOn DEF RemoveFile, Places, FileStep

LEMMA RemoveThumbnailTInv ==
  ASSUME TInv, NEW t \in Thread, RemoveThumbnail(t)
  PROVE  TInv'
<1>1. req[t].kind = "delete" /\ req[t].target \in PhotoId
  BY DEF TInv, RequestOK, RemoveThumbnail
<1>2. thumbnails' \in [PhotoId -> Content \cup {Cut, NULL}]
  BY <1>1 DEF TInv, WorldOK, DiskOK, RemoveThumbnail
<1>3. WorldOK'
  BY <1>2 DEF TInv, WorldOK, RowsOK, DiskOK, HistoryOK, RemoveThumbnail, history
<1> QED BY <1>3, GoOn DEF RemoveThumbnail, Places, Statement

LEMMA AbandonTInv ==
  ASSUME TInv, NEW t \in Thread, Abandon(t),
         UNCHANGED <<photos, disk, auth_tokens, uploaded, drawn, exempt, removed>>
  PROVE  WorldOK'
<1>1. req[t].kind = "upload" => req[t].model["id"] \in PhotoId
  BY DEF TInv, RequestOK
<1> QED BY <1>1 DEF TInv, Abandon, WorldOK, RowsOK, DiskOK, HistoryOK, disk

LEMMA AccessTInv ==
  ASSUME TInv, NEW t \in Thread, Access(t)
  PROVE  TInv'
<1>1. CASE Goto(t, "exec") /\ UNCHANGED <<resp, abandoned>>
  <2>1. WorldOK'
    BY <1>1, SameWorld DEF TInv, Access, history
  <2> QED BY <1>1, <2>1, GoOn DEF Access, Places, Statement
<1>2. CASE Respond(t, Refusal(t)) /\ Abandon(t)
  <2>1. WorldOK'
    BY <1>2, AbandonTInv DEF Access
  <2>2. Refusal(t) \in Response
    BY DEF Refusal, Response
  <2> QED BY <1>2, <2>1, <2>2, AnswerStep DEF Access
<1> QED BY <1>1, <1>2 DEF Access

LEMMA ExecSplicedTInv ==
  ASSUME TInv, NEW t \in Thread, ExecSpliced(t)
  PROVE  TInv'
<1>1. CASE Respond(t, "db_error") /\ Abandon(t) /\ UNCHANGED <<photos, exempt>>
  <2>1. WorldOK'
    BY <1>1, AbandonTInv DEF ExecSpliced
  <2> QED BY <1>1, <2>1, AnswerStep DEF ExecSpliced, Response
<1>2. CASE /\ photos' \in Garbled
           /\ exempt' = exempt \cup {i \in PhotoId : photos'[i] # photos[i]}
                               \cup {i \in PhotoId : Uploading(t, i)}
           /\ Respond(t, "ok")
           /\ UNCHANGED abandoned
  <2>1. RowsOK'
    BY <1>2, PhotoAssumption DEF IsTable, RowsOK
  <2>2. exempt' \subseteq PhotoId
    BY <1>2 DEF TInv, WorldOK, HistoryOK
  <2>3. WorldOK'
    BY <1>2, <2>1, <2>2 DEF TInv, ExecSpliced, WorldOK, DiskOK, HistoryOK, disk
  <2> QED BY <1>2, <2>3, AnswerStep DEF ExecSpliced, Response
<1> QED BY <1>1, <1>2 DEF ExecSpliced

LEMMA ExecUpdateTInv ==
  ASSUME TInv, NEW t \in Thread, ExecUpdate(t)
  PROVE  TInv'
<1> DEFINE i == req[t].target
           model == Authorized(t, "UPDATE", req[t].model)
           row == [f \in Field |-> IF IsSet(model, f) THEN model[f] ELSE photos[i][f]]
<1>1. /\ i \in PhotoId /\ IsModel(req[t].model) /\ req[t].model["id"] = i
  BY DEF TInv, RequestOK, ExecUpdate, HandlersOK, IsRequest
<1>2. IsModel(model) /\ (IsSet(model, "id") => model["id"] = i)
  BY <1>1, ErasedIsModel, Constant DEF Authorized
<1>3. photos' = IF photos[i] = NULL THEN photos ELSE [photos EXCEPT ![i] = row]
  BY DEF ExecUpdate
<1> HIDE DEF model
<1>4. RowsOK'
  <2>1. CASE photos[i] = NULL
    BY <1>3, <2>1 DEF TInv, WorldOK, RowsOK
  <2>2. CASE photos[i] # NULL
    <3>1. IsModel(photos[i]) /\ photos[i]["id"] = i /\ \A f \in NotNull : IsSet(photos[i], f)
      BY <1>1, <2>2 DEF TInv, WorldOK, RowsOK
    <3>2. IsModel(row) /\ row["id"] = i /\ \A f \in NotNull : IsSet(row, f)
      <4>1. IsModel(row)
        BY <1>2, <3>1 DEF IsModel
      <4>2. row["id"] = i
        BY <1>2, <3>1, Constant
      <4>3. NotNull \subseteq Field
        BY Constant DEF NotNull
      <4>4. \A f \in NotNull : IsSet(row, f)
        BY <4>3, <3>1 DEF IsSet
      <4> QED BY <4>1, <4>2, <4>4
    <3> HIDE DEF row
    <3> QED BY <1>1, <1>3, <2>2, <3>2 DEF TInv, WorldOK, RowsOK
  <2> QED BY <2>1, <2>2
<1>5. WorldOK'
  BY <1>4 DEF TInv, WorldOK, DiskOK, HistoryOK, ExecUpdate, disk, history
<1> QED BY <1>5, AnswerStep DEF ExecUpdate, Response

LEMMA ExecDeleteTInv ==
  ASSUME TInv, NEW t \in Thread, ExecDelete(t)
  PROVE  TInv'
<1> DEFINE model == Authorized(t, "DELETE", req[t].model)
           S == {f \in Field : IsSet(model, f)}
<1>1. /\ Respond(t, "ok") \/ Respond(t, "db_error")
      /\ \/ UNCHANGED photos
         \/ photos' = [i \in PhotoId |->
                         IF photos[i] # NULL /\ \A f \in S : photos[i][f] = model[f]
                         THEN NULL ELSE photos[i]]
  BY DEF ExecDelete
<1> HIDE DEF model, S
<1>2. RowsOK'
  BY <1>1 DEF TInv, WorldOK, RowsOK
<1>3. WorldOK'
  BY <1>2 DEF TInv, WorldOK, DiskOK, HistoryOK, ExecDelete, disk, history
<1> QED BY <1>1, <1>3, AnswerStep DEF ExecDelete, Response

LEMMA FailureTInv ==
  ASSUME TInv, NEW t \in Thread,
         OpenFails(t) \/ RemoveFails(t) \/ StatementFails(t)
  PROVE  TInv'
<1>1. CASE OpenFails(t) \/ RemoveFails(t)
  <2>1. WorldOK'
    BY <1>1, SameWorld DEF TInv, OpenFails, RemoveFails
  <2> QED BY <1>1, <2>1, AnswerStep DEF OpenFails, RemoveFails, Response
<1>2. CASE StatementFails(t)
  <2>1. WorldOK'
    BY <1>2, AbandonTInv DEF StatementFails
  <2> QED BY <1>2, <2>1, AnswerStep DEF StatementFails, Response, Statement
<1> QED BY <1>1, <1>2

LEMMA FinishTInv ==
  ASSUME TInv, NEW t \in Thread, Finish(t)
  PROVE  TInv'
<1>1. WorldOK'
  BY SameWorld DEF TInv, Finish
<1>2. RequestOK(t)'
  <2>1. pc'[t] = "idle" /\ req'[t] = NoRequest
    BY DEF Finish, Goto, TInv, HandlersOK
  <2> QED BY <2>1 DEF RequestOK, NoRequest
<1> QED BY <1>1, <1>2, NoRequestOK, HandlerStep DEF Finish, Goto, Places, Response

LEMMA ElsewhereTInv ==
  ASSUME TInv, Crash \/ \E token \in Token : LoginElsewhere(token)
  PROVE  TInv'
<1>1. CASE Crash
  <2>1. WorldOK'
    BY <1>1 DEF TInv, Crash, WorldOK, RowsOK, DiskOK, HistoryOK, disk
  <2>2. HandlersOK'
    BY <1>1, NoRequestOK DEF Crash, HandlersOK, Places, Response
  <2>3. \A t \in Thread : RequestOK(t)'
    BY <1>1 DEF Crash, RequestOK, NoRequest
  <2> QED BY <2>1, <2>2, <2>3 DEF TInv
<1>2. CASE \E token \in Token : LoginElsewhere(token)
  <2>1. WorldOK'
    BY <1>2 DEF TInv, LoginElsewhere, WorldOK, RowsOK, DiskOK, HistoryOK, disk, history
  <2> QED BY <1>2, <2>1 DEF TInv, LoginElsewhere, HandlersOK, RequestOK
<1> QED BY <1>1, <1>2

\* The types are kept by every step.
LEMMA NextTInv == TInv /\ [Next]_vars => TInv'
<1> SUFFICES ASSUME TInv, [Next]_vars PROVE TInv'
  OBVIOUS
<1>1. CASE UNCHANGED vars
  <2>1. WorldOK'
    BY <1>1, SameWorld DEF TInv, vars
  <2> QED BY <1>1, <2>1 DEF TInv, vars, HandlersOK, RequestOK
<1>2. ASSUME NEW t \in Thread, Start(t) PROVE TInv'
  BY <1>2, StartUploadTInv, StartModifyTInv, StartDeleteTInv DEF Start
<1>3. ASSUME NEW t \in Thread, Upload(t) PROVE TInv'
  BY <1>3, GrantUploadTInv, StoreFileTInv, FailureTInv, ConvertTInv, ExecInsertTInv
     DEF Upload
<1>4. ASSUME NEW t \in Thread, ModifyOrDelete(t) PROVE TInv'
  BY <1>4, ReadAccessTInv, SelectTInv, RemoveFileTInv, RemoveThumbnailTInv,
     FailureTInv, ExecUpdateTInv, ExecDeleteTInv DEF ModifyOrDelete
<1> QED BY <1>1, <1>2, <1>3, <1>4, AccessTInv, ExecSplicedTInv, FailureTInv, FinishTInv,
           ElsewhereTInv
        DEF Next

\* The type invariant holds for every table of rights, any number of threads,
\* photos, extensions and titles, and whatever fails.
THEOREM TypeTheorem == Spec => []TypeOK
  BY InitTInv, NextTInv, TInvTypes, PTL DEF Spec

----------------------------------------------------------------------------
(* The life of a photo whose id is not exempt                              *)

\* An upload that has drawn i and has not ended.
Drawing(t, i) ==
  /\ req[t].kind = "upload" /\ req[t].model["id"] = i
  /\ pc[t] \in {"grant", "store", "convert", "access", "exec"}

\* A deletion of i that has found the row, and one that has succeeded.
Deleting(t, i) ==
  /\ req[t].kind = "delete" /\ req[t].target = i
  /\ pc[t] \in {"rm_file", "rm_thumbnail", "access", "exec"}

Deleted(t, i) ==
  /\ req[t].kind = "delete" /\ req[t].target = i
  /\ pc[t] = "responded" /\ resp[t] = "ok"

NoFile(i) == \A e \in Extension : files[<<i, e>>] = NULL

Gone(i) == NoFile(i) /\ thumbnails[i] = NULL

\* file is the picture that was uploaded, and thumb is made from it.
Matches(file, thumb, content) ==
  /\ file = content \/ (Failing /\ file = Cut)
  /\ thumb = file \/ (Failing /\ thumb = NULL)

\* The photo itself.
PhotoOK(i) ==
  /\ i \notin drawn \/ i \in abandoned => photos[i] = NULL
  /\ i \in abandoned => i \in drawn
  /\ photos[i] = NULL /\ i \notin abandoned =>
       Gone(i) \/ \E t \in Thread : Uploading(t, i)
  /\ photos[i] # NULL =>
       LET extension == photos[i]["extension"]
       IN  /\ \A e \in Extension : files[<<i, e>>] # NULL => e = extension
           /\ i \notin removed =>
                Matches(files[<<i, extension>>], thumbnails[i], uploaded[i])

\* Its upload, and what is on disk by now.
UploadOK(t, i) ==
  Drawing(t, i) =>
    LET extension == req[t].model["extension"]
        file == files[<<i, extension>>]
    IN  /\ i \in drawn /\ i \notin abandoned /\ photos[i] = NULL
        /\ \A s \in Thread : /\ Drawing(s, i) => s = t
                             /\ ~Deleting(s, i) /\ ~Deleted(s, i)
        /\ pc[t] \in {"convert", "access", "exec"} =>
             \A e \in Extension : files[<<i, e>>] # NULL => e = extension
        /\ pc[t] = "convert" =>
             Matches(file, file, req[t].content) /\ thumbnails[i] = NULL
        /\ pc[t] \in {"access", "exec"} =>
             Matches(file, thumbnails[i], req[t].content)

\* Its deletions, and what is left by now.
DeleteOK(t, i) ==
  /\ Deleting(t, i) =>
       /\ i \in drawn /\ i \notin abandoned
       /\ pc[t] = "rm_file" /\ photos[i] # NULL =>
            req[t].extension = photos[i]["extension"]
       /\ pc[t] # "rm_file" => i \in removed /\ NoFile(i)
       /\ pc[t] \in {"access", "exec"} => thumbnails[i] = NULL
  /\ Deleted(t, i) => i \in drawn /\ i \notin abandoned /\ photos[i] = NULL /\ Gone(i)

Life(i) == PhotoOK(i) /\ \A t \in Thread : UploadOK(t, i) /\ DeleteOK(t, i)

PInv == \A i \in PhotoId \ exempt : Life(i)

LEMMA InitPInv == Init => PInv
<1> SUFFICES ASSUME Init, NEW i \in PhotoId PROVE Life(i)
  BY DEF PInv
<1>1. \A t \in Thread : UploadOK(t, i) /\ DeleteOK(t, i)
  BY DEF Init, UploadOK, DeleteOK, Drawing, Deleting, Deleted
<1>2. \A e \in Extension : files[<<i, e>>] =
        IF photos[i] # NULL /\ photos[i]["extension"] = e THEN uploaded[i] ELSE NULL
  BY DEF Init
<1>3. photos[i] = NULL => Gone(i)
  BY <1>2 DEF Init, Gone, NoFile
<1>4. photos[i] # NULL => photos[i]["extension"] \in Extension
  <2> SUFFICES ASSUME photos[i] # NULL PROVE photos[i]["extension"] \in Extension
    OBVIOUS
  <2>1. IsModel(photos[i]) /\ IsSet(photos[i], "extension")
    BY InitTInv DEF TInv, WorldOK, RowsOK, NotNull
  <2> QED BY <2>1, Constant DEF IsModel, IsSet, FieldValues
<1>5. PhotoOK(i)
  BY <1>2, <1>3, <1>4 DEF Init, PhotoOK, Matches
<1> QED BY <1>1, <1>5 DEF Life

\* A step of t leaves the other handlers alone.
Local(t) ==
  \A s \in Thread \ {t} : pc'[s] = pc[s] /\ req'[s] = req[s] /\ resp'[s] = resp[s]

LEMMA LocalSteps ==
  ASSUME TInv, NEW t \in Thread,
         \/ Start(t) \/ Upload(t) \/ ModifyOrDelete(t)
         \/ Access(t) \/ ExecSpliced(t) \/ StatementFails(t) \/ Finish(t)
  PROVE  Local(t)
<1>1. ASSUME NEW label, Goto(t, label) PROVE \A s \in Thread \ {t} : pc'[s] = pc[s]
  BY <1>1 DEF Goto, TInv, HandlersOK
<1>2. ASSUME NEW answer, Respond(t, answer)
      PROVE  \A s \in Thread \ {t} : pc'[s] = pc[s] /\ resp'[s] = resp[s]
  BY <1>1, <1>2 DEF Respond, TInv, HandlersOK
<1>3. ASSUME NEW r, req' = [req EXCEPT ![t] = r]
      PROVE  \A s \in Thread \ {t} : req'[s] = req[s]
  BY <1>3 DEF TInv, HandlersOK
<1>4. ASSUME Start(t) PROVE Local(t)
  BY <1>1, <1>2, <1>3, <1>4 DEF Start, StartUpload, StartModify, StartDelete, Local
<1>5. ASSUME Upload(t) PROVE Local(t)
  BY <1>1, <1>2, <1>3, <1>5
     DEF Upload, GrantUpload, StoreFile, OpenFails, Convert, ExecInsert, Local
<1>6. ASSUME ModifyOrDelete(t) PROVE Local(t)
  BY <1>1, <1>2, <1>3, <1>6
     DEF ModifyOrDelete, ReadAccess, Select, RemoveFile, RemoveThumbnail, RemoveFails,
         ExecUpdate, ExecDelete, Local
<1>7. ASSUME Access(t) \/ ExecSpliced(t) \/ StatementFails(t) PROVE Local(t)
  BY <1>1, <1>2, <1>7 DEF Access, ExecSpliced, StatementFails, Local
<1>8. ASSUME Finish(t) PROVE Local(t)
  <2>1. resp' = [resp EXCEPT ![t] = "none"]
    BY <1>8 DEF Finish
  <2> QED BY <1>1, <1>3, <1>8, <2>1 DEF Finish, Local, TInv, HandlersOK
<1> QED BY <1>4, <1>5, <1>6, <1>7, <1>8

\* Nothing happens to photo i.
Same(i) ==
  /\ photos'[i] = photos[i] /\ thumbnails'[i] = thumbnails[i]
  /\ \A e \in Extension : files'[<<i, e>>] = files[<<i, e>>]
  /\ uploaded'[i] = uploaded[i]
  /\ i \in drawn' <=> i \in drawn
  /\ i \in removed' <=> i \in removed
  /\ i \in abandoned' <=> i \in abandoned

LEMMA Status ==
  ASSUME NEW t \in Thread, NEW i, Local(t), NEW s \in Thread \ {t}
  PROVE  /\ Drawing(s, i)' <=> Drawing(s, i)
         /\ Uploading(s, i)' <=> Uploading(s, i)
         /\ Deleting(s, i)' <=> Deleting(s, i)
         /\ Deleted(s, i)' <=> Deleted(s, i)
  BY DEF Local, Drawing, Uploading, Deleting, Deleted

LEMMA UploadingIsDrawing ==
  ASSUME NEW t, NEW i, Uploading(t, i)
  PROVE  Drawing(t, i)
  BY DEF Uploading, Drawing

LEMMA RowExtension ==
  ASSUME TInv, NEW i \in PhotoId, photos[i] # NULL
  PROVE  photos[i]["extension"] \in Extension /\ photos[i]["id"] = i /\ IsModel(photos[i])
<1>1. IsModel(photos[i]) /\ IsSet(photos[i], "extension") /\ photos[i]["id"] = i
  BY DEF TInv, WorldOK, RowsOK, NotNull
<1> QED BY <1>1, Constant DEF IsModel, IsSet, FieldValues

\* What the others know of photo i, when nothing happens to it and t does not
\* come into their way.
LEMMA OthersKept ==
  ASSUME TInv, NEW i \in PhotoId, NEW t \in Thread, Life(i), Local(t), Same(i),
         Drawing(t, i)' => Drawing(t, i),
         (Deleting(t, i) \/ Deleted(t, i))' => \A s \in Thread : ~Drawing(s, i),
         NEW s \in Thread \ {t}
  PROVE  UploadOK(s, i)' /\ DeleteOK(s, i)'
<1>1. UploadOK(s, i) /\ DeleteOK(s, i) /\ pc'[s] = pc[s] /\ req'[s] = req[s]
  BY DEF Life, Local
<1>2. UploadOK(s, i)'
  <2> SUFFICES ASSUME Drawing(s, i)' PROVE UploadOK(s, i)'
    BY DEF UploadOK
  <2>1. Drawing(s, i)
    BY Status
  <2>2. \A u \in Thread : /\ Drawing(u, i)' => u = s
                          /\ ~Deleting(u, i)' /\ ~Deleted(u, i)'
    <3> SUFFICES ASSUME NEW u \in Thread
                 PROVE  /\ Drawing(u, i)' => u = s
                        /\ ~Deleting(u, i)' /\ ~Deleted(u, i)'
      OBVIOUS
    <3>1. CASE u = t
      BY <1>1, <2>1, <3>1 DEF UploadOK
    <3>2. CASE u # t
      BY <1>1, <2>1, <3>2, Status DEF UploadOK
    <3> QED BY <3>1, <3>2
  <2>3. req[s].model["extension"] \in Extension
    BY <2>1 DEF TInv, RequestOK, Drawing
  <2> QED BY <1>1, <2>1, <2>2, <2>3 DEF UploadOK, Same, Matches
<1>3. DeleteOK(s, i)'
  BY <1>1, Status DEF DeleteOK, Same, Gone, NoFile
<1> QED BY <1>2, <1>3

\* The photo when nothing happens to it.
LEMMA PhotoKept ==
  ASSUME TInv, NEW i \in PhotoId, NEW t \in Thread, Life(i), Local(t), Same(i),
         Uploading(t, i) => Uploading(t, i)'
  PROVE  PhotoOK(i)'
<1>1. (\E s \in Thread : Uploading(s, i)) => \E s \in Thread : Uploading(s, i)'
  BY Status
<1>2. photos[i] # NULL => photos[i]["extension"] \in Extension
  BY RowExtension
<1> QED BY <1>1, <1>2 DEF Life, PhotoOK, Same, Gone, NoFile, Matches

\* A step that is no step of an upload in progress and starts nothing with i.
LEMMA NotAbout ==
  ASSUME TInv, NEW i \in PhotoId, NEW t \in Thread, Life(i), Local(t), Same(i),
         ~Uploading(t, i), ~Drawing(t, i)', ~Deleting(t, i)', ~Deleted(t, i)'
  PROVE  Life(i)'
<1>1. UploadOK(t, i)' /\ DeleteOK(t, i)'
  BY DEF UploadOK, DeleteOK
<1>2. PhotoOK(i)'
  BY PhotoKept
<1>3. \A s \in Thread \ {t} : UploadOK(s, i)' /\ DeleteOK(s, i)'
  BY OthersKept
<1> QED BY <1>1, <1>2, <1>3 DEF Life

LEMMA GoesTo ==
  ASSUME TInv, NEW t \in Thread, NEW label, Goto(t, label)
  PROVE  pc'[t] = label
  BY DEF TInv, HandlersOK, Goto

LEMMA Answers ==
  ASSUME TInv, NEW t \in Thread, NEW answer, Respond(t, answer)
  PROVE  pc'[t] = "responded" /\ resp'[t] = answer
  BY GoesTo DEF TInv, HandlersOK, Respond

LEMMA SameHere ==
  ASSUME NEW i \in PhotoId, UNCHANGED <<photos, disk, history>>
  PROVE  Same(i)
  BY DEF Same, disk, history

\* A refusal, or a failure before anything was stored.
LEMMA RefusalLife ==
  ASSUME TInv, NEW i \in PhotoId, NEW t \in Thread, Life(i), Local(t), Same(i),
         NEW answer, Respond(t, answer), answer # "ok", ~Uploading(t, i)
  PROVE  Life(i)'
  BY Answers, NotAbout DEF Drawing, Deleting, Deleted

LEMMA StartUploadIs ==
  ASSUME TInv, NEW t \in Thread, NEW body \in Sent, NEW e \in Extension,
         NEW c \in Content, NEW token \in Token \cup {NULL}, NEW j \in PhotoId,
         StartUpload(t, body, e, c, token, j)
  PROVE  req'[t].model["id"] = j /\ req'[t].kind = "upload"
<1> DEFINE id == [body EXCEPT !["id"] = j]
           model == [id EXCEPT !["extension"] = e]
           r == [NoRequest EXCEPT !.kind = "upload", !.token = token,
                   !.content = c, !.model = model]
<1>1. req' = [req EXCEPT ![t] = r]
  BY DEF StartUpload
<1>2. IsModel(id) /\ id["id"] = j
  BY PhotoAssumption, ModelUpdate DEF FieldValues
<1>3. model["id"] = j
  <2> HIDE DEF id
  <2> QED BY <1>2, Constant, ModelUpdate DEF FieldValues
<1> HIDE DEF model, id
<1>4. r.kind = "upload" /\ r.model = model
  BY DEF NoRequest
<1>5. req'[t] = r
  BY <1>1 DEF TInv, HandlersOK
<1> QED BY <1>3, <1>4, <1>5

LEMMA StartUploadLife ==
  ASSUME TInv, NEW i \in PhotoId, NEW t \in Thread, Life(i), Local(t),
         NEW body \in Sent, NEW e \in Extension, NEW c \in Content,
         NEW token \in Token \cup {NULL}, NEW j \in PhotoId,
         StartUpload(t, body, e, c, token, j), i \notin exempt', TInv'
  PROVE  Life(i)'
<1>1. /\ pc[t] = "idle" /\ pc'[t] = "grant"
      /\ UNCHANGED <<photos, disk, resp, uploaded, removed, abandoned>>
      /\ drawn' = drawn \cup {j}
      /\ exempt' = IF j \in drawn THEN exempt \cup {j} ELSE exempt
  BY GoesTo DEF StartUpload
<1>2. req'[t].model["id"] = j /\ req'[t].kind = "upload"
  BY StartUploadIs
<1>3. CASE i # j
  <2>1. Same(i)
    BY <1>1, <1>3 DEF Same, disk
  <2>2. ~Uploading(t, i) /\ ~Drawing(t, i)' /\ ~Deleting(t, i)' /\ ~Deleted(t, i)'
    BY <1>1, <1>2, <1>3 DEF Uploading, Drawing, Deleting, Deleted
  <2> QED BY <2>1, <2>2, NotAbout
<1>4. CASE i = j
  <2>1. i \notin drawn
    BY <1>1, <1>4
  <2>2. photos[i] = NULL /\ i \notin abandoned
    BY <2>1 DEF Life, PhotoOK
  <2>3. \A s \in Thread : ~Drawing(s, i) /\ ~Deleting(s, i) /\ ~Deleted(s, i)
    BY <2>1 DEF Life, UploadOK, DeleteOK
  <2>4. Gone(i)
    BY <2>2, <2>3, UploadingIsDrawing DEF Life, PhotoOK
  <2>5. \A s \in Thread : /\ Drawing(s, i)' => s = t
                          /\ ~Deleting(s, i)' /\ ~Deleted(s, i)'
    BY <1>1, <1>2, <2>3, Status DEF Deleting, Deleted
  <2>6. i \in drawn' /\ photos'[i] = NULL /\ i \notin abandoned'
    BY <1>1, <1>4, <2>2
  <2>7. PhotoOK(i)'
    BY <1>1, <2>4, <2>6 DEF PhotoOK, Gone, NoFile, disk
  <2>8. \A s \in Thread : UploadOK(s, i)'
    BY <1>1, <2>5, <2>6 DEF UploadOK
  <2>9. \A s \in Thread : DeleteOK(s, i)'
    BY <2>5 DEF DeleteOK
  <2> QED BY <2>7, <2>8, <2>9 DEF Life
<1> QED BY <1>3, <1>4

LEMMA StartElseLife ==
  ASSUME TInv, NEW i \in PhotoId, NEW t \in Thread, Life(i), Local(t),
         \/ \E target \in PhotoId, body \in Sent, token \in Token \cup {NULL} :
              StartModify(t, target, body, token)
         \/ \E target \in PhotoId, token \in Token \cup {NULL} :
              StartDelete(t, target, token)
         \/ ReadAccess(t)
         \/ Finish(t)
  PROVE  Life(i)'
<1>1. Same(i)
  BY SameHere DEF StartModify, StartDelete, ReadAccess, Finish
<1>2. pc[t] \in {"idle", "read_access", "responded"} /\ ~Uploading(t, i)
  BY DEF StartModify, StartDelete, ReadAccess, Finish, Uploading
<1>3. CASE \E answer \in Response \ {"ok"} : Respond(t, answer)
  BY <1>1, <1>2, <1>3, RefusalLife
<1>4. CASE \E label \in {"idle", "read_access", "select"} : Goto(t, label)
  BY <1>1, <1>2, <1>4, GoesTo, NotAbout DEF Drawing, Deleting, Deleted
<1>5. \/ \E answer \in Response \ {"ok"} : Respond(t, answer)
      \/ \E label \in {"idle", "read_access", "select"} : Goto(t, label)
  BY DEF StartModify, StartDelete, ReadAccess, Finish, Response
<1> QED BY <1>3, <1>4, <1>5

LEMMA GrantUploadIs ==
  ASSUME TInv, NEW t \in Thread, GrantUpload(t)
  PROVE  /\ req'[t].kind = req[t].kind /\ req'[t].token = req[t].token
         /\ req'[t].model["id"] = req[t].model["id"]
         /\ req'[t].model["uploaded_by"] =
              IF req[t].token = NULL THEN NULL ELSE req[t].token[1]
<1> DEFINE owner == IF req[t].token = NULL THEN NULL ELSE req[t].token[1]
           model == [req[t].model EXCEPT !["uploaded_by"] = owner]
           r == [req[t] EXCEPT !.model = model]
<1>1. owner \in User \cup {NULL} /\ IsRequest(req[t])
  BY TokenOwner DEF TInv, HandlersOK
<1>2. req'[t] = r
  BY DEF GrantUpload, TInv, HandlersOK
<1> HIDE DEF owner
<1>3. model["uploaded_by"] = owner
  <2>1. IsModel(req[t].model)
    BY <1>1 DEF IsRequest
  <2> QED BY <2>1, Constant DEF IsModel
<1>4. /\ r.kind = req[t].kind /\ r.token = req[t].token /\ r.model = model
      /\ model["id"] = req[t].model["id"]
  BY <1>1, OwnerSet, Constant
<1> QED BY <1>2, <1>3, <1>4 DEF owner

LEMMA GrantUploadLife ==
  ASSUME TInv, NEW i \in PhotoId, NEW t \in Thread, Life(i), Local(t), GrantUpload(t)
  PROVE  Life(i)'
<1>1. Same(i) /\ pc[t] = "grant" /\ ~Uploading(t, i)
  BY SameHere DEF GrantUpload, Uploading
<1>2. CASE \E answer \in Response \ {"ok"} : Respond(t, answer)
  BY <1>1, <1>2, RefusalLife
<1>3. CASE Goto(t, "store")
  <2>1. /\ req'[t].kind = req[t].kind
        /\ req'[t].model["id"] = req[t].model["id"]
    BY GrantUploadIs
  <2>2. pc'[t] = "store"
    BY <1>3, GoesTo
  <2>3. Drawing(t, i)' <=> Drawing(t, i)
    BY <1>1, <2>1, <2>2 DEF Drawing
  <2>4. ~Deleting(t, i)' /\ ~Deleted(t, i)' /\ ~Uploading(t, i)'
    BY <2>2 DEF Deleting, Deleted, Uploading
  <2>5. \A s \in Thread \ {t} : UploadOK(s, i)' /\ DeleteOK(s, i)'
    BY <1>1, <2>3, <2>4, OthersKept
  <2>6. PhotoOK(i)'
    BY <1>1, PhotoKept
  <2>7. DeleteOK(t, i)'
    BY <2>4 DEF DeleteOK
  <2>8. UploadOK(t, i)'
    <3> SUFFICES ASSUME Drawing(t, i)' PROVE UploadOK(t, i)'
      BY DEF UploadOK
    <3>1. Drawing(t, i) /\ UploadOK(t, i)
      BY <2>3 DEF Life
    <3>2. \A s \in Thread : /\ Drawing(s, i)' => s = t
                            /\ ~Deleting(s, i)' /\ ~Deleted(s, i)'
      BY <2>4, <3>1, Status DEF UploadOK
    <3> QED BY <1>1, <2>2, <3>1, <3>2 DEF UploadOK, Same
  <2> QED BY <2>5, <2>6, <2>7, <2>8 DEF Life
<1> QED BY <1>2, <1>3 DEF GrantUpload, Response

----------------------------------------------------------------------------
(* Steps of the upload that has drawn the photo                            *)

\* Nobody else is concerned with the photo.
LEMMA Alone ==
  ASSUME NEW i \in PhotoId, NEW t \in Thread, Life(i), Local(t), Drawing(t, i)
  PROVE  /\ \A s \in Thread \ {t} : /\ ~Drawing(s, i)' /\ ~Uploading(s, i)'
                                    /\ ~Deleting(s, i)' /\ ~Deleted(s, i)'
         /\ \A s \in Thread \ {t} : UploadOK(s, i)' /\ DeleteOK(s, i)'
         /\ \A s \in Thread \ {t} : ~Uploading(s, i)
         /\ i \in drawn /\ i \notin abandoned /\ photos[i] = NULL
<1>1. /\ \A s \in Thread \ {t} : ~Drawing(s, i) /\ ~Deleting(s, i) /\ ~Deleted(s, i)
      /\ i \in drawn /\ i \notin abandoned /\ photos[i] = NULL
  BY DEF Life, UploadOK
<1>2. \A s \in Thread \ {t} : ~Uploading(s, i)
  BY <1>1, UploadingIsDrawing
<1> QED BY <1>1, <1>2, Status DEF UploadOK, DeleteOK

\* It goes on.
LEMMA UploadGoesOn ==
  ASSUME NEW i \in PhotoId, NEW t \in Thread, Life(i), Local(t), Drawing(t, i),
         req'[t] = req[t], pc'[t] \in {"convert", "access", "exec"},
         UNCHANGED <<photos, drawn, abandoned>>,
         LET extension == req[t].model["extension"]
             file == files'[<<i, extension>>]
         IN  /\ \A e \in Extension : files'[<<i, e>>] # NULL => e = extension
             /\ pc'[t] = "convert" =>
                  Matches(file, file, req[t].content) /\ thumbnails'[i] = NULL
             /\ pc'[t] \in {"access", "exec"} =>
                  Matches(file, thumbnails'[i], req[t].content)
  PROVE  Life(i)'
<1>1. Drawing(t, i)' /\ Uploading(t, i)' /\ ~Deleting(t, i)' /\ ~Deleted(t, i)'
  BY DEF Drawing, Uploading, Deleting, Deleted
<1>2. UploadOK(t, i)'
  <2>1. \A s \in Thread : /\ Drawing(s, i)' => s = t
                          /\ ~Deleting(s, i)' /\ ~Deleted(s, i)'
    BY <1>1, Alone
  <2> QED BY <2>1, Alone DEF UploadOK, Matches
<1>3. DeleteOK(t, i)'
  BY <1>1 DEF DeleteOK
<1>4. PhotoOK(i)'
  BY <1>1, Alone DEF PhotoOK
<1> QED BY <1>2, <1>3, <1>4, Alone DEF Life

LEMMA StoreFileLife ==
  ASSUME TInv, NEW i \in PhotoId, NEW t \in Thread, Life(i), Local(t), StoreFile(t)
  PROVE  Life(i)'
<1> DEFINE j == req[t].model["id"]
           extension == req[t].model["extension"]
<1>1. /\ req[t].kind = "upload" /\ j \in PhotoId /\ extension \in Extension
      /\ req[t].content \in Content
      /\ pc[t] = "store" /\ pc'[t] = "convert" /\ req' = req
      /\ UNCHANGED <<photos, thumbnails, resp, history>>
  BY GoesTo DEF TInv, RequestOK, StoreFile
<1>2. PICK kept : /\ kept = req[t].content \/ (Failing /\ kept = Cut)
                  /\ files' = [files EXCEPT ![<<j, extension>>] = kept]
  BY DEF StoreFile
<1>3. \A e \in Extension : files'[<<i, e>>] =
        IF i = j /\ e = extension THEN kept ELSE files[<<i, e>>]
  BY <1>1, <1>2 DEF TInv, WorldOK, DiskOK
<1>4. CASE i # j
  <2>1. Same(i)
    BY <1>1, <1>3, <1>4 DEF Same, history
  <2> QED BY <1>1, <1>4, <2>1, NotAbout DEF Uploading, Drawing, Deleting, Deleted
<1>5. CASE i = j
  <2>1. Drawing(t, i) /\ ~Uploading(t, i)
    BY <1>1, <1>5 DEF Drawing, Uploading
  <2>2. Gone(i)
    BY <2>1, Alone DEF Life, PhotoOK
  <2>3. /\ \A e \in Extension : files'[<<i, e>>] # NULL => e = extension
        /\ Matches(files'[<<i, extension>>], files'[<<i, extension>>], req[t].content)
        /\ thumbnails'[i] = NULL
    BY <1>1, <1>2, <1>3, <1>5, <2>2 DEF Gone, NoFile, Matches
  <2> HIDE DEF j
  <2> QED BY <1>1, <2>1, <2>3, UploadGoesOn DEF history
<1> QED BY <1>4, <1>5

LEMMA ConvertLife ==
  ASSUME TInv, NEW i \in PhotoId, NEW t \in Thread, Life(i), Local(t), Convert(t)
  PROVE  Life(i)'
<1> DEFINE j == req[t].model["id"]
           extension == req[t].model["extension"]
<1>1. /\ req[t].kind = "upload" /\ j \in PhotoId /\ extension \in Extension
      /\ pc[t] = "convert" /\ pc'[t] = "access" /\ req' = req
      /\ UNCHANGED <<photos, files, resp, history>>
  BY GoesTo DEF TInv, RequestOK, Convert
<1>2. /\ thumbnails'[j] = files[<<j, extension>>] \/
           (Failing /\ thumbnails'[j] = thumbnails[j])
      /\ i # j => thumbnails'[i] = thumbnails[i]
  BY <1>1 DEF TInv, WorldOK, DiskOK, Convert
<1>3. CASE i # j
  <2>1. Same(i)
    BY <1>1, <1>2, <1>3 DEF Same, history
  <2> QED BY <1>1, <1>3, <2>1, NotAbout DEF Uploading, Drawing, Deleting, Deleted
<1>4. CASE i = j
  <2>1. Drawing(t, i)
    BY <1>1, <1>4 DEF Drawing
  <2>2. /\ \A e \in Extension : files[<<i, e>>] # NULL => e = extension
        /\ Matches(files[<<i, extension>>], files[<<i, extension>>], req[t].content)
        /\ thumbnails[i] = NULL
    BY <1>1, <2>1 DEF Life, UploadOK
  <2>3. Matches(files[<<i, extension>>], thumbnails'[i], req[t].content)
    BY <1>2, <1>4, <2>2 DEF Matches
  <2> HIDE DEF j
  <2> QED BY <1>1, <2>1, <2>2, <2>3, UploadGoesOn DEF history
<1> QED BY <1>3, <1>4

\* It ends with its picture stored and no row.
LEMMA AbandonedLife ==
  ASSUME NEW i \in PhotoId, NEW t \in Thread, Life(i), Local(t), Drawing(t, i),
         UNCHANGED <<photos, disk, drawn>>, i \in abandoned',
         ~Drawing(t, i)', ~Deleting(t, i)', ~Deleted(t, i)'
  PROVE  Life(i)'
<1>1. PhotoOK(i)'
  BY Alone DEF PhotoOK
<1>2. UploadOK(t, i)' /\ DeleteOK(t, i)'
  BY DEF UploadOK, DeleteOK
<1> QED BY <1>1, <1>2, Alone DEF Life

LEMMA AbandonLife ==
  ASSUME TInv, NEW i \in PhotoId, NEW t \in Thread, Life(i), Local(t),
         NEW answer, Respond(t, answer), answer # "ok", Abandon(t),
         UNCHANGED <<photos, disk, req, uploaded, drawn, exempt, removed>>,
         pc[t] \in Statement
  PROVE  Life(i)'
<1>1. ~Drawing(t, i)' /\ ~Deleting(t, i)' /\ ~Deleted(t, i)'
  BY Answers DEF Drawing, Deleting, Deleted
<1>2. CASE Uploading(t, i)
  BY <1>1, <1>2, AbandonedLife, UploadingIsDrawing DEF Abandon, Uploading
<1>3. CASE ~Uploading(t, i)
  <2>1. i \in abandoned' <=> i \in abandoned
    BY <1>3 DEF Abandon, Uploading, Statement, TInv, RequestOK
  <2>2. Same(i)
    BY <2>1 DEF Same, disk
  <2> QED BY <1>1, <1>3, <2>2, NotAbout
<1> QED BY <1>2, <1>3

LEMMA AccessLife ==
  ASSUME TInv, NEW i \in PhotoId, NEW t \in Thread, Life(i), Local(t), Access(t)
  PROVE  Life(i)'
<1>1. CASE Goto(t, "exec") /\ UNCHANGED abandoned
  <2>1. pc[t] = "access" /\ pc'[t] = "exec" /\ req' = req /\ Same(i)
    BY <1>1, GoesTo, SameHere DEF Access, history
  <2>2. /\ Drawing(t, i)' <=> Drawing(t, i)
        /\ Uploading(t, i)' <=> Uploading(t, i)
        /\ Deleting(t, i)' <=> Deleting(t, i)
        /\ ~Deleted(t, i)'
    BY <2>1 DEF Drawing, Uploading, Deleting, Deleted
  <2>3. Deleting(t, i) => \A s \in Thread : ~Drawing(s, i)
    BY DEF Life, UploadOK
  <2>4. \A s \in Thread \ {t} : UploadOK(s, i)' /\ DeleteOK(s, i)'
    BY <2>1, <2>2, <2>3, OthersKept
  <2>5. PhotoOK(i)'
    BY <2>1, <2>2, PhotoKept
  <2>6. DeleteOK(t, i)'
    BY <2>1, <2>2 DEF DeleteOK, Same, Gone, NoFile, Life
  <2>7. UploadOK(t, i)'
    <3> SUFFICES ASSUME Drawing(t, i)' PROVE UploadOK(t, i)'
      BY DEF UploadOK
    <3>1. UploadOK(t, i) /\ Drawing(t, i)
      BY <2>2 DEF Life
    <3>2. \A s \in Thread : /\ Drawing(s, i)' => s = t
                            /\ ~Deleting(s, i)' /\ ~Deleted(s, i)'
      BY <2>2, <3>1, Status DEF UploadOK
    <3>3. req[t].model["extension"] \in Extension
      BY <3>1 DEF TInv, RequestOK, Drawing
    <3> QED BY <2>1, <3>1, <3>2, <3>3 DEF UploadOK, Same, Matches
  <2> QED BY <2>4, <2>5, <2>6, <2>7 DEF Life
<1>2. CASE Respond(t, Refusal(t)) /\ Abandon(t) /\ Refusal(t) # "none"
  <2>1. Refusal(t) # "ok"
    BY DEF Refusal
  <2> QED BY <1>2, <2>1, AbandonLife DEF Access, Statement
<1> QED BY <1>1, <1>2 DEF Access

LEMMA FailureLife ==
  ASSUME TInv, NEW i \in PhotoId, NEW t \in Thread, Life(i), Local(t),
         OpenFails(t) \/ RemoveFails(t) \/ StatementFails(t)
  PROVE  Life(i)'
<1>1. CASE OpenFails(t) \/ RemoveFails(t)
  <2>1. Same(i) /\ ~Uploading(t, i)
    BY <1>1, SameHere DEF OpenFails, RemoveFails, Uploading
  <2> QED BY <1>1, <2>1, RefusalLife DEF OpenFails, RemoveFails
<1>2. CASE StatementFails(t)
  BY <1>2, AbandonLife DEF StatementFails
<1> QED BY <1>1, <1>2

LEMMA ExecInsertLife ==
  ASSUME TInv, NEW i \in PhotoId, NEW t \in Thread, Life(i), Local(t), ExecInsert(t)
  PROVE  Life(i)'
<1> DEFINE j == req[t].model["id"]
           extension == req[t].model["extension"]
           row == Authorized(t, "CREATE", req[t].model)
<1>1. /\ req[t].kind = "upload" /\ j \in PhotoId /\ extension \in Extension
      /\ pc[t] = "exec" /\ pc'[t] = "responded" /\ req' = req
      /\ UNCHANGED <<disk, drawn, removed>>
  BY Answers DEF TInv, RequestOK, ExecInsert
<1>2. ~Drawing(t, i)' /\ ~Deleting(t, i)' /\ ~Deleted(t, i)' /\ ~Uploading(t, i)'
  BY <1>1 DEF Drawing, Deleting, Deleted, Uploading
<1>3. CASE i # j
  <2>1. Same(i) /\ ~Uploading(t, i)
    BY <1>1, <1>3 DEF Same, Uploading, ExecInsert, disk, TInv, WorldOK, RowsOK, HistoryOK
  <2> QED BY <1>2, <2>1, NotAbout
<1>4. CASE i = j /\ abandoned' = abandoned \cup {j} /\ UNCHANGED photos
  <2>1. Drawing(t, i)
    BY <1>1, <1>4 DEF Drawing
  <2> QED BY <1>1, <1>2, <1>4, <2>1, AbandonedLife
<1>5. CASE /\ i = j /\ \A f \in NotNull : IsSet(row, f)
           /\ photos' = [photos EXCEPT ![j] = row]
           /\ uploaded' = [uploaded EXCEPT ![j] = req[t].content]
           /\ UNCHANGED abandoned
  <2>1. Drawing(t, i)
    BY <1>1, <1>5 DEF Drawing
  <2>2. IsModel(row) /\ row["extension"] = extension
    BY <1>5, ErasedIsModel, Constant DEF NotNull, Authorized, TInv, HandlersOK, IsRequest
  <2>3. row # NULL
    BY <2>2, NullIsNoModel
  <2> HIDE DEF row
  <2>4. photos'[i] = row /\ uploaded'[i] = req[t].content
    BY <1>1, <1>5 DEF TInv, WorldOK, RowsOK, HistoryOK
  <2>5. /\ \A e \in Extension : files[<<i, e>>] # NULL => e = extension
        /\ Matches(files[<<i, extension>>], thumbnails[i], req[t].content)
    BY <1>1, <2>1 DEF Life, UploadOK
  <2>6. i \in drawn /\ i \notin abandoned
    BY <2>1, Alone
  <2>7. PhotoOK(i)'
    BY <1>1, <1>5, <2>2, <2>3, <2>4, <2>5, <2>6 DEF PhotoOK, disk
  <2>8. UploadOK(t, i)' /\ DeleteOK(t, i)'
    BY <1>2 DEF UploadOK, DeleteOK
  <2> QED BY <2>1, <2>7, <2>8, Alone DEF Life
<1> QED BY <1>3, <1>4, <1>5 DEF ExecInsert

\* A statement that a quote has changed and that does not reach photo i.
LEMMA ExecSplicedLife ==
  ASSUME TInv, NEW i \in PhotoId, NEW t \in Thread, Life(i), Local(t), ExecSpliced(t),
         i \notin exempt'
  PROVE  Life(i)'
<1>1. CASE Respond(t, "db_error") /\ Abandon(t) /\ UNCHANGED <<photos, exempt>>
  BY <1>1, AbandonLife DEF ExecSpliced, Statement
<1>2. CASE /\ exempt' = exempt \cup {j \in PhotoId : photos'[j] # photos[j]}
                               \cup {j \in PhotoId : Uploading(t, j)}
           /\ Respond(t, "ok")
           /\ UNCHANGED abandoned
  <2>1. photos'[i] = photos[i] /\ ~Uploading(t, i)
    BY <1>2
  <2>2. Same(i) /\ req' = req /\ req[t].kind # "delete" /\ pc'[t] = "responded"
    BY <1>2, <2>1, Answers DEF ExecSpliced, Spliced, Same, disk
  <2>3. ~Drawing(t, i)' /\ ~Deleting(t, i)' /\ ~Deleted(t, i)'
    BY <2>2 DEF Drawing, Deleting, Deleted
  <2> QED BY <2>1, <2>2, <2>3, NotAbout
<1> QED BY <1>1, <1>2 DEF ExecSpliced

----------------------------------------------------------------------------
(* Steps of deletions and modifications                                    *)

\* A right that survives is held on the field by some row of the table.
LEMMA SurvivesByRight ==
  ASSUME TInv, NEW t \in Thread, NEW right \in Right, NEW model, IsModel(model),
         NEW f \in Surviving({right}, Params(t, right), PhotosPermissions, model)
  PROVE  /\ f \in Field
         /\ \E g \in ClaimGroup : right \in PhotosPermissions[g][f]
         /\ RightsOnPhotos /\ right = "READ" =>
              "extension" \in Surviving({right}, Params(t, right), PhotosPermissions, model)
<1> DEFINE pp == Params(t, right)
<1>1. pp.group_id \in ClaimGroup /\ "owner" \in ClaimGroup
  <2>1. req[t].token # NULL => req[t].token[2] \in ClaimGroup
    BY TokenOwner, PhotoAssumption DEF TInv, HandlersOK
  <2>2. GrantedParams(t).group_id \in ClaimGroup
    BY <2>1, GroupAssumption DEF GrantedParams, GuestParams, UserGroup
  <2> QED BY <2>2, GroupAssumption DEF Params, AfterInstanceCheck, UserGroup
<1>2. \A g \in Field : FieldPerms(pp, PhotosPermissions, model, g) =
        PhotosPermissions[pp.group_id][g] \cup
          IF OwnedBy(pp, model) THEN PhotosPermissions["owner"][g] ELSE {}
  BY DEF FieldPerms
<1> HIDE DEF pp
<1>3. f \in Field /\ right \in FieldPerms(pp, PhotosPermissions, model, f)
  BY DEF Surviving, have_permissions, pp
<1>4. \E g \in ClaimGroup : right \in PhotosPermissions[g][f]
  BY <1>1, <1>2, <1>3
<1>5. ASSUME RightsOnPhotos, right = "READ"
      PROVE  right \in FieldPerms(pp, PhotosPermissions, model, "extension")
  BY <1>1, <1>2, <1>3, <1>5, Constant DEF RightsOnPhotos
<1> QED BY <1>3, <1>4, <1>5, Constant DEF Surviving, have_permissions, pp

LEMMA SelectLife ==
  ASSUME RightsOnPhotos, TInv, NEW i \in PhotoId, NEW t \in Thread, Life(i), Local(t),
         Select(t)
  PROVE  Life(i)'
<1> DEFINE j == req[t].target
           read == Authorized(t, "READ", Selected(t))
<1>1. /\ j \in PhotoId /\ req[t].kind \in {"modify", "delete"} /\ IsRequest(req[t])
      /\ Same(i) /\ ~Uploading(t, i) /\ pc[t] = "select"
  BY SameHere DEF TInv, RequestOK, Select, HandlersOK, Uploading
<1>2. CASE \E answer \in {"invalid_params", "unauthorized"} : Respond(t, answer)
  BY <1>1, <1>2, RefusalLife
<1>3. CASE /\ photos[j] # NULL
           /\ ~NothingSurvives(t, "READ", Selected(t))
           /\ Goto(t, IF req[t].kind = "delete" THEN "rm_file" ELSE "access")
           /\ req' = [req EXCEPT ![t].model["uploaded_by"] = read["uploaded_by"],
                                 ![t].extension = read["extension"]]
  <2>1. req'[t].kind = req[t].kind /\ req'[t].target = j /\ req'[t].extension = read["extension"]
    <3>1. req'[t] = [req[t] EXCEPT !.model["uploaded_by"] = read["uploaded_by"],
                                   !.extension = read["extension"]]
      BY <1>3 DEF TInv, HandlersOK
    <3> HIDE DEF read
    <3> QED BY <1>1, <3>1 DEF IsRequest
  <2>2. pc'[t] = IF req[t].kind = "delete" THEN "rm_file" ELSE "access"
    BY <1>3, GoesTo
  <2>3. ~Drawing(t, i)' /\ ~Deleted(t, i)'
    BY <1>1, <2>1, <2>2 DEF Drawing, Deleted
  <2>4. CASE ~Deleting(t, i)'
    BY <1>1, <2>3, <2>4, NotAbout
  <2>5. CASE Deleting(t, i)'
    <3>1. i = j /\ req[t].kind = "delete" /\ pc'[t] = "rm_file"
      BY <1>1, <2>1, <2>2, <2>5 DEF Deleting
    <3>2. IsModel(Selected(t)) /\ Selected(t)["extension"] = photos[i]["extension"]
      BY <1>3, <3>1, RowExtension, Constant DEF Selected, IsModel
    <3>3. read["extension"] = photos[i]["extension"]
      <4>1. "extension" \in Surviving({"READ"}, Params(t, "READ"), PhotosPermissions,
                                      Selected(t))
        BY <1>3, <3>2, SurvivesByRight DEF NothingSurvives, Right
      <4> QED BY <3>2, <4>1, Constant DEF Authorized, Erased
    <3>4. i \in drawn /\ i \notin abandoned
      BY <1>3, <3>1 DEF Life, PhotoOK
    <3>5. \A s \in Thread : ~Drawing(s, i)
      BY <1>3, <3>1 DEF Life, UploadOK
    <3>6. \A s \in Thread \ {t} : UploadOK(s, i)' /\ DeleteOK(s, i)'
      BY <1>1, <2>3, <3>5, OthersKept
    <3>7. PhotoOK(i)'
      BY <1>1, PhotoKept
    <3> HIDE DEF read
    <3>8. UploadOK(t, i)' /\ DeleteOK(t, i)'
      BY <1>1, <2>1, <2>3, <3>1, <3>3, <3>4 DEF UploadOK, DeleteOK, Same
    <3> QED BY <3>6, <3>7, <3>8 DEF Life
  <2> QED BY <2>4, <2>5
<1> QED BY <1>2, <1>3 DEF Select

\* A deletion goes on: what it took away is gone, and the rest is as it was.
LEMMA DeletionGoesOn ==
  ASSUME TInv, NEW i \in PhotoId, NEW t \in Thread, Life(i), Local(t), Deleting(t, i),
         req' = req, UNCHANGED <<photos, drawn, abandoned>>, Deleting(t, i)',
         i \in removed', NoFile(i)',
         thumbnails'[i] = thumbnails[i] \/ thumbnails'[i] = NULL,
         pc'[t] # "rm_file",
         pc'[t] \in {"access", "exec"} => thumbnails'[i] = NULL
  PROVE  Life(i)'
<1>1. /\ i \in drawn /\ i \notin abandoned
      /\ \A s \in Thread : ~Drawing(s, i)
  BY DEF Life, DeleteOK, UploadOK
<1>2. \A s \in Thread : ~Drawing(s, i)'
  BY <1>1, Status DEF Deleting, Drawing
<1>3. photos[i] = NULL => Gone(i)
  BY <1>1, UploadingIsDrawing DEF Life, PhotoOK
<1>4. PhotoOK(i)'
  BY <1>1, <1>3 DEF Life, PhotoOK, Gone, NoFile
<1>5. DeleteOK(t, i)'
  BY <1>1 DEF DeleteOK, Deleting, Deleted
<1>6. ASSUME NEW s \in Thread \ {t} PROVE DeleteOK(s, i)'
  <2>1. DeleteOK(s, i) /\ pc'[s] = pc[s] /\ req'[s] = req[s]
    BY DEF Life, Local
  <2> QED BY <1>1, <2>1, Status DEF DeleteOK, Gone
<1>7. \A s \in Thread : UploadOK(s, i)'
  BY <1>2 DEF UploadOK
<1> QED BY <1>4, <1>5, <1>6, <1>7 DEF Life

LEMMA RemoveFileLife ==
  ASSUME TInv, NEW i \in PhotoId, NEW t \in Thread, Life(i), Local(t), RemoveFile(t)
  PROVE  Life(i)'
<1> DEFINE j == req[t].target
<1>1. /\ req[t].kind = "delete" /\ j \in PhotoId
      /\ pc[t] = "rm_file" /\ pc'[t] = "rm_thumbnail" /\ req' = req
      /\ UNCHANGED <<photos, thumbnails, uploaded, drawn, abandoned>>
      /\ removed' = removed \cup {j}
  BY GoesTo DEF TInv, RequestOK, RemoveFile
<1>2. \A e \in Extension : files'[<<i, e>>] =
        IF i = j /\ e = req[t].extension THEN NULL ELSE files[<<i, e>>]
  BY <1>1 DEF TInv, WorldOK, DiskOK, RemoveFile
<1>3. CASE i # j
  <2>1. Same(i)
    BY <1>1, <1>2, <1>3 DEF Same
  <2> QED BY <1>1, <1>3, <2>1, NotAbout DEF Uploading, Drawing, Deleting, Deleted
<1>4. CASE i = j
  <2>1. Deleting(t, i) /\ Deleting(t, i)'
    BY <1>1, <1>4 DEF Deleting
  <2>2. /\ i \notin abandoned
        /\ photos[i] # NULL => req[t].extension = photos[i]["extension"]
        /\ \A s \in Thread : ~Drawing(s, i)
    BY <1>1, <2>1 DEF Life, DeleteOK, UploadOK
  <2>3. photos[i] = NULL => NoFile(i)
    BY <2>2, UploadingIsDrawing DEF Life, PhotoOK, Gone
  <2>4. NoFile(i)'
    BY <1>2, <1>4, <2>2, <2>3 DEF Life, PhotoOK, NoFile
  <2> HIDE DEF j
  <2> QED BY <1>1, <1>4, <2>1, <2>4, DeletionGoesOn
<1> QED BY <1>3, <1>4

LEMMA RemoveThumbnailLife ==
  ASSUME TInv, NEW i \in PhotoId, NEW t \in Thread, Life(i), Local(t), RemoveThumbnail(t)
  PROVE  Life(i)'
<1> DEFINE j == req[t].target
<1>1. /\ req[t].kind = "delete" /\ j \in PhotoId
      /\ pc[t] = "rm_thumbnail" /\ pc'[t] = "access" /\ req' = req
      /\ UNCHANGED <<photos, files, uploaded, drawn, removed, abandoned>>
  BY GoesTo DEF TInv, RequestOK, RemoveThumbnail, history
<1>2. thumbnails'[i] = IF i = j THEN NULL ELSE thumbnails[i]
  BY <1>1 DEF TInv, WorldOK, DiskOK, RemoveThumbnail
<1>3. CASE i # j
  <2>1. Same(i)
    BY <1>1, <1>2, <1>3 DEF Same
  <2> QED BY <1>1, <1>3, <2>1, NotAbout DEF Uploading, Drawing, Deleting, Deleted
<1>4. CASE i = j
  <2>1. Deleting(t, i) /\ Deleting(t, i)'
    BY <1>1, <1>4 DEF Deleting
  <2>2. i \in removed /\ NoFile(i)
    BY <1>1, <2>1 DEF Life, DeleteOK
  <2>3. NoFile(i)'
    BY <1>1, <2>2 DEF NoFile
  <2> HIDE DEF j
  <2> QED BY <1>1, <1>2, <1>4, <2>1, <2>2, <2>3, DeletionGoesOn
<1> QED BY <1>3, <1>4

LEMMA ExecUpdateLife ==
  ASSUME RightsOnPhotos, TInv, NEW i \in PhotoId, NEW t \in Thread, Life(i), Local(t),
         ExecUpdate(t)
  PROVE  Life(i)'
<1> DEFINE j == req[t].target
           model == Authorized(t, "UPDATE", req[t].model)
<1>1. /\ req[t].kind = "modify" /\ j \in PhotoId /\ IsModel(req[t].model)
      /\ pc'[t] = "responded" /\ req' = req /\ UNCHANGED <<disk, history>>
  BY Answers DEF TInv, RequestOK, HandlersOK, IsRequest, ExecUpdate
<1>2. ~IsSet(model, "extension")
  BY <1>1, ErasedIsModel, SurvivesByRight, Constant
     DEF Authorized, Right, RightsOnPhotos
<1>3. ~Uploading(t, i) /\ ~Drawing(t, i) /\ ~Drawing(t, i)'
      /\ ~Deleting(t, i)' /\ ~Deleted(t, i)'
  BY <1>1 DEF Uploading, Drawing, Deleting, Deleted
<1> DEFINE row == [f \in Field |-> IF IsSet(model, f) THEN model[f] ELSE photos[j][f]]
<1>4. photos' = IF photos[j] = NULL THEN photos ELSE [photos EXCEPT ![j] = row]
  BY DEF ExecUpdate
<1> HIDE DEF model
<1>5. CASE i # j \/ photos[i] = NULL
  <2>1. photos'[i] = photos[i]
    BY <1>1, <1>4, <1>5 DEF TInv, WorldOK, RowsOK
  <2>2. Same(i)
    BY <1>1, <2>1 DEF Same, disk, history
  <2> QED BY <1>3, <2>2, NotAbout
<1>6. CASE i = j /\ photos[i] # NULL
  <2>1. photos'[i] = row /\ row["extension"] = photos[i]["extension"]
    BY <1>1, <1>2, <1>4, <1>6, Constant DEF TInv, WorldOK, RowsOK
  <2>2. \A s \in Thread : ~Drawing(s, i) /\ ~Drawing(s, i)'
    BY <1>3, <1>6, Status DEF Life, UploadOK
  <2> HIDE DEF row
  <2>3. photos'[i] # NULL
    <3>1. IsModel(row)
      BY <1>1, <1>6, ErasedIsModel, RowExtension DEF IsModel, row, model, Authorized
    <3> QED BY <2>1, <3>1, NullIsNoModel
  <2>4. PhotoOK(i)'
    BY <1>1, <1>6, <2>1, <2>3 DEF Life, PhotoOK, disk, history
  <2>5. \A s \in Thread : UploadOK(s, i)'
    BY <2>2 DEF UploadOK
  <2>6. ASSUME NEW s \in Thread PROVE DeleteOK(s, i)'
    <3>1. CASE s = t
      BY <1>3, <3>1 DEF DeleteOK
    <3>2. CASE s # t
      <4>1. DeleteOK(s, i) /\ pc'[s] = pc[s] /\ req'[s] = req[s]
        BY <3>2 DEF Life, Local
      <4> QED BY <1>1, <1>6, <2>1, <3>2, <4>1, Status
              DEF DeleteOK, disk, history, Gone, NoFile
    <3> QED BY <3>1, <3>2
  <2> QED BY <2>4, <2>5, <2>6 DEF Life
<1> QED BY <1>5, <1>6

LEMMA ExecDeleteLife ==
  ASSUME RightsOnPhotos, TInv, NEW i \in PhotoId, NEW t \in Thread, Life(i), Local(t),
         ExecDelete(t)
  PROVE  Life(i)'
<1> DEFINE j == req[t].target
           model == Authorized(t, "DELETE", req[t].model)
           S == {f \in Field : IsSet(model, f)}
<1>1. /\ req[t].kind = "delete" /\ j \in PhotoId /\ IsModel(req[t].model)
      /\ req[t].model["id"] = j
      /\ pc[t] = "exec" /\ pc'[t] = "responded" /\ req' = req
      /\ UNCHANGED <<disk, history>>
  BY Answers DEF TInv, RequestOK, HandlersOK, IsRequest, ExecDelete
<1>2. S \subseteq {"id"} /\ ("id" \in S => model["id"] = j)
  <2>1. \A f \in Field : IsSet(model, f) => f = "id" /\ model[f] = req[t].model[f]
    BY <1>1, ErasedIsModel, SurvivesByRight DEF Authorized, Right, RightsOnPhotos
  <2> HIDE DEF model
  <2> QED BY <1>1, <2>1
<1>3. ~Uploading(t, i) /\ ~Drawing(t, i) /\ ~Drawing(t, i)' /\ ~Deleting(t, i)'
  BY <1>1 DEF Uploading, Drawing, Deleting
<1>4. CASE Respond(t, "db_error") /\ UNCHANGED photos
  <2>1. Same(i)
    BY <1>1, <1>4, SameHere
  <2> QED BY <1>3, <1>4, <2>1, RefusalLife
<1>5. CASE /\ \E f \in S : S = {f}
           /\ photos' = [k \in PhotoId |->
                           IF photos[k] # NULL /\ \A f \in S : photos[k][f] = model[f]
                           THEN NULL ELSE photos[k]]
           /\ Respond(t, "ok")
  <2>1. S = {"id"} /\ model["id"] = j
    BY <1>2, <1>5
  <2> HIDE DEF model, S
  <2>2. photos'[i] = IF i = j THEN NULL ELSE photos[i]
    BY <1>5, <2>1, RowExtension
  <2>3. CASE i # j
    <3>1. Same(i) /\ ~Deleted(t, i)'
      BY <1>1, <2>2, <2>3 DEF Same, disk, history, Deleted
    <3> QED BY <1>3, <3>1, NotAbout
  <2>4. CASE i = j
    <3>1. Deleting(t, i) /\ Deleted(t, i)'
      BY <1>1, <1>5, <2>4, Answers DEF Deleting, Deleted
    <3>2. /\ i \in drawn /\ i \notin abandoned /\ Gone(i)
          /\ \A s \in Thread : ~Drawing(s, i)
      BY <1>1, <3>1 DEF Life, DeleteOK, UploadOK, Gone
    <3>3. photos'[i] = NULL /\ Gone(i)' /\ i \in drawn' /\ i \notin abandoned'
      BY <1>1, <2>2, <2>4, <3>2 DEF Gone, NoFile, disk, history
    <3>4. PhotoOK(i)'
      BY <3>3 DEF PhotoOK
    <3>5. \A s \in Thread : UploadOK(s, i)'
      BY <1>3, <3>2, Status DEF UploadOK
    <3>6. ASSUME NEW s \in Thread PROVE DeleteOK(s, i)'
      <4>1. CASE s = t
        BY <1>3, <3>3, <4>1 DEF DeleteOK
      <4>2. CASE s # t
        <5>1. DeleteOK(s, i) /\ pc'[s] = pc[s] /\ req'[s] = req[s]
          BY <4>2 DEF Life, Local
        <5> QED BY <1>1, <3>3, <4>2, <5>1, Status DEF DeleteOK, Gone, history
      <4> QED BY <4>1, <4>2
    <3> QED BY <3>4, <3>5, <3>6 DEF Life
  <2> QED BY <2>3, <2>4
<1> QED BY <1>4, <1>5 DEF ExecDelete

----------------------------------------------------------------------------

LEMMA CrashLife ==
  ASSUME TInv, NEW i \in PhotoId, Life(i), Crash
  PROVE  Life(i)'
<1>1. \A s \in Thread : ~Drawing(s, i)' /\ ~Deleting(s, i)' /\ ~Deleted(s, i)'
  BY DEF Crash, Drawing, Deleting, Deleted
<1>2. \A s \in Thread : UploadOK(s, i)' /\ DeleteOK(s, i)'
  BY <1>1 DEF UploadOK, DeleteOK
<1>3. CASE \E s \in Thread : Uploading(s, i)
  <2>1. photos[i] = NULL /\ i \in drawn
    BY <1>3, UploadingIsDrawing DEF Life, UploadOK
  <2>2. photos'[i] = NULL /\ i \in drawn' /\ i \in abandoned'
    BY <1>3, <2>1 DEF Crash
  <2> QED BY <1>2, <2>2 DEF Life, PhotoOK
<1>4. CASE ~\E s \in Thread : Uploading(s, i)
  <2>1. i \in abandoned' <=> i \in abandoned
    BY <1>4 DEF Crash
  <2>2. PhotoOK(i)'
    BY <1>4, <2>1 DEF Life, PhotoOK, Crash, disk, Gone, NoFile
  <2> QED BY <1>2, <2>2 DEF Life
<1> QED BY <1>3, <1>4

LEMMA UnchangedLife ==
  ASSUME NEW i \in PhotoId, Life(i), UNCHANGED <<photos, disk, pc, req, resp, history>>
  PROVE  Life(i)'
<1>1. ASSUME NEW s \in Thread
      PROVE  /\ Drawing(s, i)' <=> Drawing(s, i)
             /\ Uploading(s, i)' <=> Uploading(s, i)
             /\ Deleting(s, i)' <=> Deleting(s, i)
             /\ Deleted(s, i)' <=> Deleted(s, i)
  BY DEF Drawing, Uploading, Deleting, Deleted
<1>2. PhotoOK(i)'
  BY <1>1 DEF Life, PhotoOK, Gone, NoFile, disk, history
<1>3. \A s \in Thread : UploadOK(s, i)'
  BY <1>1 DEF Life, UploadOK, disk, history
<1>4. \A s \in Thread : DeleteOK(s, i)'
  BY <1>1 DEF Life, DeleteOK, Gone, NoFile, disk, history
<1> QED BY <1>2, <1>3, <1>4 DEF Life

LEMMA ExemptGrows ==
  ASSUME [Next]_vars
  PROVE  exempt \subseteq exempt'
<1>1. ASSUME NEW t \in Thread, Start(t) PROVE exempt \subseteq exempt'
  BY <1>1 DEF Start, StartUpload, StartModify, StartDelete, history
<1>2. ASSUME NEW t \in Thread, Upload(t) PROVE exempt' = exempt
  BY <1>2 DEF Upload, GrantUpload, StoreFile, OpenFails, Convert, ExecInsert, history
<1>3. ASSUME NEW t \in Thread, ModifyOrDelete(t) PROVE exempt' = exempt
  BY <1>3 DEF ModifyOrDelete, ReadAccess, Select, RemoveFile, RemoveThumbnail,
             RemoveFails, ExecUpdate, ExecDelete, history
<1>4. ASSUME NEW t \in Thread, Access(t) \/ StatementFails(t) \/ Finish(t)
      PROVE  exempt' = exempt
  BY <1>4 DEF Access, StatementFails, Finish, history
<1>5. ASSUME NEW t \in Thread, ExecSpliced(t) PROVE exempt \subseteq exempt'
  BY <1>5 DEF ExecSpliced
<1>6. UNCHANGED vars \/ Crash \/ (\E token \in Token : LoginElsewhere(token)) =>
        exempt' = exempt
  BY DEF vars, history, Crash, LoginElsewhere
<1> QED BY <1>1, <1>2, <1>3, <1>4, <1>5, <1>6 DEF Next

\* The life of every photo is kept by every step.
LEMMA NextPInv ==
  ASSUME RightsOnPhotos
  PROVE  TInv /\ PInv /\ [Next]_vars => PInv'
<1> SUFFICES ASSUME TInv, PInv, [Next]_vars, NEW i \in PhotoId, i \notin exempt'
             PROVE  Life(i)'
  BY DEF PInv
<1>1. exempt \subseteq exempt'
  BY ExemptGrows
<1>2. Life(i) /\ TInv'
  BY <1>1, NextTInv DEF PInv
<1>3. CASE UNCHANGED vars
  BY <1>2, <1>3, UnchangedLife DEF vars
<1>4. ASSUME NEW t \in Thread, Start(t) PROVE Life(i)'
  <2>1. Local(t)
    BY <1>4, LocalSteps
  <2> QED BY <1>2, <1>4, <2>1, StartUploadLife, StartElseLife DEF Start
<1>5. ASSUME NEW t \in Thread, Upload(t) PROVE Life(i)'
  <2>1. Local(t)
    BY <1>5, LocalSteps
  <2> QED BY <1>2, <1>5, <2>1, GrantUploadLife, StoreFileLife, FailureLife, ConvertLife,
             ExecInsertLife DEF Upload
<1>6. ASSUME NEW t \in Thread, ModifyOrDelete(t) PROVE Life(i)'
  <2>1. Local(t)
    BY <1>6, LocalSteps
  <2> QED BY <1>2, <1>6, <2>1, StartElseLife, SelectLife, RemoveFileLife,
             RemoveThumbnailLife, FailureLife, ExecUpdateLife, ExecDeleteLife
          DEF ModifyOrDelete
<1>7. ASSUME NEW t \in Thread,
             Access(t) \/ ExecSpliced(t) \/ StatementFails(t) \/ Finish(t)
      PROVE  Life(i)'
  <2>1. Local(t)
    BY <1>7, LocalSteps
  <2> QED BY <1>2, <1>7, <2>1, AccessLife, ExecSplicedLife, FailureLife, StartElseLife
<1>8. CASE Crash
  BY <1>2, <1>8, CrashLife
<1>9. CASE \E token \in Token : LoginElsewhere(token)
  BY <1>2, <1>9, UnchangedLife DEF LoginElsewhere
<1> QED BY <1>3, <1>4, <1>5, <1>6, <1>7, <1>8, <1>9 DEF Next

\* For any number of handlers and photos, whatever fails and wherever the
\* process stops: when a deletion is answered with success, neither the row nor
\* a file of the photo is left.
THEOREM DeletionCompleteTheorem ==
  ASSUME RightsOnPhotos
  PROVE  Spec => []DeletionComplete
<1>1. TInv /\ PInv => DeletionComplete
  <2> SUFFICES ASSUME TInv, PInv, NEW t \in Thread,
                      pc[t] = "responded", req[t].kind = "delete", resp[t] = "ok",
                      req[t].target \notin exempt
               PROVE  /\ photos[req[t].target] = NULL
                      /\ thumbnails[req[t].target] = NULL
                      /\ \A e \in Extension : files[<<req[t].target, e>>] = NULL
    BY DEF DeletionComplete
  <2>1. req[t].target \in PhotoId
    BY DEF TInv, RequestOK
  <2> QED BY <2>1 DEF PInv, Life, DeleteOK, Deleted, Gone, NoFile
<1> QED BY InitTInv, NextTInv, InitPInv, NextPInv, <1>1, PTL DEF Spec

\* As above: files without a row are those of an upload that is running, or
\* that was refused, failed or was cut off after it had stored its picture.
THEOREM LeftoversTheorem ==
  ASSUME RightsOnPhotos
  PROVE  Spec => []LeftoversAreUploads
<1>1. PInv => LeftoversAreUploads
  BY DEF PInv, Life, PhotoOK, Gone, NoFile, LeftoversAreUploads
<1> QED BY InitTInv, NextTInv, InitPInv, NextPInv, <1>1, PTL DEF Spec

\* As above: the picture and the thumbnail of a row are those of the upload
\* that made it, until a deletion reaches them.
THEOREM FileMatchesRowTheorem ==
  ASSUME RightsOnPhotos
  PROVE  Spec => []FileMatchesRow
<1>1. PInv => FileMatchesRow
  BY DEF PInv, Life, PhotoOK, Matches, FileMatchesRow
<1> QED BY InitTInv, NextTInv, InitPInv, NextPInv, <1>1, PTL DEF Spec

----------------------------------------------------------------------------
(* Who changes a row                                                       *)

\* A modification or a deletion of i that has read the owner.
Acting(t, i) ==
  /\ req[t].kind \in {"modify", "delete"} /\ req[t].target = i
  /\ pc[t] \in {"rm_file", "rm_thumbnail", "access", "exec"}

\* The owner it goes by is none, or that of the row.
OwnerOK(t, i) ==
  Acting(t, i) =>
    /\ i \in drawn /\ \A s \in Thread : ~Drawing(s, i)
    /\ photos[i] # NULL =>
         req[t].model["uploaded_by"] \in {NULL, photos[i]["uploaded_by"]}

\* An upload that goes on has its sender as the owner.
SenderOwns(t) ==
  req[t].kind = "upload" /\ pc[t] \in {"store", "convert", "access", "exec"} =>
    req[t].model["uploaded_by"] =
      IF req[t].token = NULL THEN NULL ELSE req[t].token[1]

OInv == \A t \in Thread : /\ SenderOwns(t)
                          /\ \A i \in PhotoId \ exempt : OwnerOK(t, i)

LEMMA InitOInv == Init => OInv
  BY DEF Init, OInv, SenderOwns, OwnerOK, Acting

\* A step of t that starts nothing with photo i, and makes no row.
LEMMA OwnerKept ==
  ASSUME NEW i \in PhotoId, NEW t \in Thread, Local(t),
         \A s \in Thread : OwnerOK(s, i),
         i \in drawn => i \in drawn',
         Drawing(t, i)' => Drawing(t, i),
         photos'[i] # NULL => /\ photos[i] # NULL
                              /\ photos'[i]["uploaded_by"] = photos[i]["uploaded_by"],
         Acting(t, i)' => /\ Acting(t, i)
                          /\ req'[t].model["uploaded_by"] = req[t].model["uploaded_by"]
  PROVE  \A s \in Thread : OwnerOK(s, i)'
<1>1. \A s \in Thread : Drawing(s, i)' => Drawing(s, i)
  BY Status
<1>2. \A s \in Thread \ {t} : /\ Acting(s, i)' <=> Acting(s, i)
                              /\ req'[s] = req[s]
  BY DEF Local, Acting
<1> QED BY <1>1, <1>2 DEF OwnerOK

\* As above, for the steps that leave the rows alone.
LEMMA OwnerKeptQuietly ==
  ASSUME NEW i \in PhotoId, NEW t \in Thread, Local(t),
         \A s \in Thread : OwnerOK(s, i),
         UNCHANGED <<photos, drawn>>,
         Drawing(t, i)' => Drawing(t, i),
         Acting(t, i)' => Acting(t, i) /\ req'[t] = req[t]
  PROVE  \A s \in Thread : OwnerOK(s, i)'
  BY OwnerKept

LEMMA StartOwner ==
  ASSUME TInv, NEW i \in PhotoId, NEW t \in Thread, Local(t), Start(t), i \notin exempt',
         \A s \in Thread : OwnerOK(s, i)
  PROVE  \A s \in Thread : OwnerOK(s, i)'
<1>1. pc[t] = "idle" /\ pc'[t] \in {"grant", "read_access", "responded"}
      /\ UNCHANGED photos
  BY GoesTo, Answers DEF Start, StartUpload, StartModify, StartDelete
<1>2. ~Acting(t, i)'
  BY <1>1 DEF Acting
<1>3. CASE UNCHANGED drawn /\ pc'[t] # "grant"
  BY <1>1, <1>2, <1>3, OwnerKeptQuietly DEF Drawing
<1>4. CASE \E j \in PhotoId : /\ drawn' = drawn \cup {j}
                              /\ exempt' = IF j \in drawn THEN exempt \cup {j} ELSE exempt
                              /\ Drawing(t, i)' => i = j
  <2>1. i \in drawn => ~Drawing(t, i)'
    BY <1>4
  <2>2. CASE i \in drawn
    BY <1>1, <1>2, <1>4, <2>1, <2>2, OwnerKept
  <2>3. CASE i \notin drawn
    <3>1. \A s \in Thread : ~Acting(s, i)
      BY <2>3 DEF OwnerOK
    <3> QED BY <1>2, <3>1 DEF OwnerOK, Acting, Local
  <2> QED BY <2>2, <2>3
<1>5. ASSUME NEW body \in Sent, NEW e \in Extension, NEW c \in Content,
             NEW token \in Token \cup {NULL}, NEW j \in PhotoId,
             StartUpload(t, body, e, c, token, j)
      PROVE  Drawing(t, i)' => i = j
  <2>1. req'[t].model["id"] = j
    BY <1>5, StartUploadIs
  <2> QED BY <2>1 DEF Drawing
<1>6. ASSUME NEW token \in Token \cup {NULL}, NEW target \in PhotoId,
             \/ \E body \in Sent : StartModify(t, target, body, token)
             \/ StartDelete(t, target, token)
      PROVE  UNCHANGED drawn /\ pc'[t] # "grant"
  BY <1>6, GoesTo, Answers DEF StartModify, StartDelete, history
<1> QED BY <1>3, <1>4, <1>5, <1>6 DEF Start, StartUpload

LEMMA UploadOwner ==
  ASSUME TInv, NEW i \in PhotoId, NEW t \in Thread, Local(t), Upload(t),
         \A s \in Thread : OwnerOK(s, i)
  PROVE  \A s \in Thread : OwnerOK(s, i)'
<1>1. CASE GrantUpload(t)
  <2>1. /\ UNCHANGED <<photos, drawn>> /\ pc[t] = "grant"
        /\ pc'[t] \in {"store", "responded"}
    BY <1>1, GoesTo, Answers DEF GrantUpload, history
  <2>2. Drawing(t, i)' => Drawing(t, i)
    BY <1>1, <2>1, GrantUploadIs DEF Drawing
  <2>3. ~Acting(t, i)'
    BY <2>1 DEF Acting
  <2> QED BY <2>1, <2>2, <2>3, OwnerKeptQuietly
<1>2. CASE StoreFile(t) \/ OpenFails(t) \/ Convert(t)
  <2>1. UNCHANGED <<photos, drawn, req>> /\ pc[t] \in {"store", "convert"}
    BY <1>2 DEF StoreFile, OpenFails, Convert, history
  <2>2. req[t].kind = "upload"
    BY <2>1 DEF TInv, RequestOK
  <2> QED BY <2>1, <2>2, OwnerKeptQuietly DEF Drawing, Acting
<1>3. CASE ExecInsert(t)
  <2>1. /\ UNCHANGED <<drawn, req>> /\ pc[t] = "exec" /\ pc'[t] = "responded"
        /\ req[t].kind = "upload"
    BY <1>3, Answers DEF ExecInsert
  <2>2. ~Acting(t, i)' /\ ~Drawing(t, i)'
    BY <2>1 DEF Acting, Drawing
  <2>3. CASE i = req[t].model["id"]
    <3>1. \A s \in Thread : ~Acting(s, i)
      BY <2>1, <2>3 DEF Drawing, OwnerOK
    <3>2. \A s \in Thread : ~Acting(s, i)'
      BY <2>2, <3>1 DEF Acting, Local
    <3> QED BY <3>2 DEF OwnerOK
  <2>4. CASE i # req[t].model["id"]
    <3>1. photos'[i] = photos[i]
      BY <1>3, <2>4 DEF ExecInsert, TInv, WorldOK, RowsOK
    <3> QED BY <2>1, <2>2, <3>1, OwnerKept
  <2> QED BY <2>3, <2>4
<1> QED BY <1>1, <1>2, <1>3 DEF Upload

LEMMA SelectOwner ==
  ASSUME TInv, NEW i \in PhotoId, NEW t \in Thread, Life(i), Local(t), Select(t),
         \A s \in Thread : OwnerOK(s, i)
  PROVE  \A s \in Thread : OwnerOK(s, i)'
<1> DEFINE read == Authorized(t, "READ", Selected(t))
<1>1. /\ UNCHANGED <<photos, drawn>> /\ pc[t] = "select" /\ req[t].target \in PhotoId
      /\ req[t].kind \in {"modify", "delete"} /\ IsRequest(req[t])
  BY DEF Select, history, TInv, RequestOK, HandlersOK
<1>2. CASE \E answer \in {"invalid_params", "unauthorized"} : Respond(t, answer)
  <2>1. pc'[t] = "responded"
    BY <1>2, Answers
  <2> QED BY <1>1, <2>1, OwnerKeptQuietly DEF Drawing, Acting
<1>3. CASE /\ photos[req[t].target] # NULL
           /\ Goto(t, IF req[t].kind = "delete" THEN "rm_file" ELSE "access")
           /\ req' = [req EXCEPT ![t].model["uploaded_by"] = read["uploaded_by"],
                                 ![t].extension = read["extension"]]
  <2>1. /\ req'[t].kind = req[t].kind /\ req'[t].target = req[t].target
        /\ req'[t].model["uploaded_by"] = read["uploaded_by"]
    <3>1. req'[t] = [req[t] EXCEPT !.model["uploaded_by"] = read["uploaded_by"],
                                   !.extension = read["extension"]]
      BY <1>3 DEF TInv, HandlersOK
    <3>2. req[t].model = [f \in Field |-> req[t].model[f]]
      BY <1>1 DEF IsRequest, IsModel
    <3> HIDE DEF read
    <3> QED BY <1>1, <3>1, <3>2, Constant DEF IsRequest
  <2>2. ~Drawing(t, i)'
    BY <1>1, <2>1 DEF Drawing
  <2>3. CASE ~Acting(t, i)'
    BY <1>1, <2>2, <2>3, OwnerKeptQuietly
  <2>4. CASE Acting(t, i)'
    <3>1. i = req[t].target
      BY <2>1, <2>4 DEF Acting
    <3>2. i \in drawn /\ \A s \in Thread : ~Drawing(s, i)
      BY <1>3, <3>1 DEF Life, PhotoOK, UploadOK
    <3>3. \A s \in Thread : ~Drawing(s, i)'
      BY <2>2, <3>2, Status
    <3>4. read["uploaded_by"] \in {NULL, photos[i]["uploaded_by"]}
      BY <3>1, Constant DEF Authorized, Erased, Selected
    <3> HIDE DEF read
    <3>5. OwnerOK(t, i)'
      BY <1>1, <2>1, <3>2, <3>3, <3>4 DEF OwnerOK
    <3>6. ASSUME NEW s \in Thread \ {t} PROVE OwnerOK(s, i)'
      BY <1>1, <3>2, <3>3 DEF OwnerOK, Acting, Local
    <3> QED BY <3>5, <3>6
  <2> QED BY <2>3, <2>4
<1> QED BY <1>2, <1>3 DEF Select

LEMMA ModifyOrDeleteOwner ==
  ASSUME RightsOnPhotos, RightsOnRows,
         TInv, NEW i \in PhotoId, NEW t \in Thread, Life(i), Local(t),
         ModifyOrDelete(t), \A s \in Thread : OwnerOK(s, i)
  PROVE  \A s \in Thread : OwnerOK(s, i)'
<1>1. CASE ReadAccess(t)
  <2>1. /\ UNCHANGED <<photos, drawn, req>>
        /\ pc'[t] \in {"select", "responded"}
    BY <1>1, GoesTo, Answers DEF ReadAccess, history
  <2> QED BY <2>1, OwnerKeptQuietly DEF Drawing, Acting
<1>2. CASE RemoveFile(t) \/ RemoveThumbnail(t) \/ RemoveFails(t)
  <2>1. /\ UNCHANGED <<photos, drawn, req>>
        /\ pc[t] \in {"rm_file", "rm_thumbnail"}
    BY <1>2 DEF RemoveFile, RemoveThumbnail, RemoveFails, history
  <2>2. req[t].kind = "delete"
    BY <2>1 DEF TInv, RequestOK
  <2> QED BY <2>1, <2>2, OwnerKeptQuietly DEF Drawing, Acting
<1>3. CASE ExecUpdate(t)
  <2> DEFINE j == req[t].target
             model == Authorized(t, "UPDATE", req[t].model)
             row == [f \in Field |-> IF IsSet(model, f) THEN model[f] ELSE photos[j][f]]
  <2>1. /\ j \in PhotoId /\ IsModel(req[t].model)
        /\ pc'[t] = "responded" /\ UNCHANGED drawn
        /\ photos' = IF photos[j] = NULL THEN photos ELSE [photos EXCEPT ![j] = row]
    BY <1>3, Answers DEF TInv, RequestOK, HandlersOK, IsRequest, ExecUpdate, history
  <2>2. ~IsSet(model, "uploaded_by")
    BY <2>1, ErasedIsModel, SurvivesByRight, Constant
       DEF Authorized, Right, RightsOnRows
  <2> HIDE DEF model
  <2>3. photos'[i] # NULL => /\ photos[i] # NULL
                             /\ photos'[i]["uploaded_by"] = photos[i]["uploaded_by"]
    BY <2>1, <2>2, Constant DEF TInv, WorldOK, RowsOK
  <2> HIDE DEF row, j
  <2> QED BY <2>1, <2>3, OwnerKept DEF Drawing, Acting
<1>4. CASE ExecDelete(t)
  <2>1. pc'[t] = "responded" /\ UNCHANGED drawn
    BY <1>4, Answers DEF ExecDelete, history
  <2>2. photos'[i] \in {NULL, photos[i]}
    BY <1>4 DEF ExecDelete
  <2> QED BY <2>1, <2>2, OwnerKept DEF Drawing, Acting
<1> QED BY <1>1, <1>2, <1>3, <1>4, SelectOwner DEF ModifyOrDelete

LEMMA SplicedOwner ==
  ASSUME TInv, NEW i \in PhotoId, NEW t \in Thread, Local(t), ExecSpliced(t),
         i \notin exempt', \A s \in Thread : OwnerOK(s, i)
  PROVE  \A s \in Thread : OwnerOK(s, i)'
<1>1. UNCHANGED <<drawn, req>> /\ pc'[t] = "responded"
  BY Answers DEF ExecSpliced
<1>2. photos'[i] = photos[i]
  BY DEF ExecSpliced
<1>3. ~Acting(t, i)' /\ ~Drawing(t, i)'
  BY <1>1 DEF Acting, Drawing
<1> QED BY <1>1, <1>2, <1>3, OwnerKept

LEMMA OtherOwner ==
  ASSUME TInv, NEW i \in PhotoId, NEW t \in Thread, Local(t),
         Access(t) \/ StatementFails(t) \/ Finish(t), \A s \in Thread : OwnerOK(s, i)
  PROVE  \A s \in Thread : OwnerOK(s, i)'
<1>1. CASE Access(t) \/ StatementFails(t)
  <2>1. UNCHANGED <<photos, drawn, req>>
        /\ \/ pc[t] = "access" /\ pc'[t] = "exec"
           \/ pc'[t] = "responded"
    BY <1>1, GoesTo, Answers DEF Access, StatementFails
  <2> QED BY <2>1, OwnerKeptQuietly DEF Drawing, Acting
<1>2. CASE Finish(t)
  <2>1. UNCHANGED <<photos, drawn>> /\ pc'[t] = "idle"
    BY <1>2, GoesTo DEF Finish, history
  <2> QED BY <2>1, OwnerKeptQuietly DEF Drawing, Acting
<1> QED BY <1>1, <1>2

LEMMA SenderKept ==
  ASSUME TInv, NEW t \in Thread, Local(t), \A s \in Thread : SenderOwns(s),
         \/ Start(t) \/ Upload(t) \/ ModifyOrDelete(t)
         \/ Access(t) \/ ExecSpliced(t) \/ StatementFails(t) \/ Finish(t)
  PROVE  \A s \in Thread : SenderOwns(s)'
<1>1. ASSUME NEW s \in Thread \ {t} PROVE SenderOwns(s)'
  BY DEF SenderOwns, Local
<1>2. CASE Start(t) \/ Finish(t) \/ ReadAccess(t)
  <2>1. pc'[t] \in {"idle", "grant", "read_access", "select", "responded"}
    BY <1>2, GoesTo, Answers
       DEF Start, StartUpload, StartModify, StartDelete, Finish, ReadAccess
  <2> QED BY <1>1, <2>1 DEF SenderOwns
<1>3. CASE GrantUpload(t)
  BY <1>1, <1>3, GrantUploadIs DEF SenderOwns
<1>4. CASE Select(t)
  <2>1. pc[t] = "select" /\ IsRequest(req[t]) /\ req[t].kind # "upload"
    BY <1>4 DEF Select, TInv, HandlersOK, RequestOK
  <2>2. req'[t].kind # "upload"
    BY <1>4, <2>1 DEF Select, TInv, HandlersOK, IsRequest
  <2> QED BY <1>1, <2>2 DEF SenderOwns
<1>5. CASE \/ StoreFile(t) \/ OpenFails(t) \/ Convert(t) \/ ExecInsert(t)
           \/ RemoveFile(t) \/ RemoveThumbnail(t) \/ RemoveFails(t)
           \/ ExecUpdate(t) \/ ExecDelete(t) \/ ExecSpliced(t)
           \/ Access(t) \/ StatementFails(t)
  <2>1. req' = req
    BY <1>5 DEF StoreFile, OpenFails, Convert, ExecInsert, RemoveFile, RemoveThumbnail,
                RemoveFails, ExecUpdate, ExecDelete, ExecSpliced, Access, StatementFails
  <2>2. \/ pc[t] \in {"store", "convert", "access", "exec"}
        \/ pc'[t] = "responded" \/ req[t].kind # "upload"
    BY <1>5, Answers DEF StoreFile, OpenFails, Convert, ExecInsert, RemoveFile,
       RemoveThumbnail, RemoveFails, ExecUpdate, ExecDelete, ExecSpliced, Access,
       StatementFails,
       TInv, RequestOK
  <2> QED BY <1>1, <2>1, <2>2 DEF SenderOwns
<1> QED BY <1>2, <1>3, <1>4, <1>5 DEF Upload, ModifyOrDelete

LEMMA NextOInv ==
  ASSUME RightsOnPhotos, RightsOnRows
  PROVE  TInv /\ PInv /\ OInv /\ [Next]_vars => OInv'
<1> SUFFICES ASSUME TInv, PInv, OInv, [Next]_vars PROVE OInv'
  OBVIOUS
<1>1. exempt \subseteq exempt'
  BY ExemptGrows
<1>2. \A i \in PhotoId \ exempt' : Life(i) /\ \A s \in Thread : OwnerOK(s, i)
  BY <1>1 DEF PInv, OInv
<1>3. ASSUME NEW t \in Thread,
             \/ Start(t) \/ Upload(t) \/ ModifyOrDelete(t)
             \/ Access(t) \/ ExecSpliced(t) \/ StatementFails(t) \/ Finish(t)
      PROVE  OInv'
  <2>1. Local(t)
    BY <1>3, LocalSteps
  <2>2. \A s \in Thread : SenderOwns(s)'
    BY <1>3, <2>1, SenderKept DEF OInv
  <2>3. ASSUME NEW i \in PhotoId, i \notin exempt' PROVE \A s \in Thread : OwnerOK(s, i)'
    BY <1>2, <1>3, <2>1, <2>3, StartOwner, UploadOwner, ModifyOrDeleteOwner,
       SplicedOwner, OtherOwner
  <2> QED BY <2>2, <2>3 DEF OInv
<1>4. CASE Crash
  BY <1>4 DEF Crash, OInv, SenderOwns, OwnerOK, Acting
<1>5. CASE UNCHANGED vars \/ \E token \in Token : LoginElsewhere(token)
  <2>1. UNCHANGED <<photos, pc, req, drawn, exempt>>
    BY <1>5 DEF vars, history, LoginElsewhere
  <2> QED BY <2>1 DEF OInv, SenderOwns, OwnerOK, Acting, Drawing
<1> QED BY <1>3, <1>4, <1>5 DEF Next

\* A right that survives on a field for a model with the owner of the row, or
\* with none, is a right of the caller.
LEMMA RightHeld ==
  ASSUME TInv, RightsOnRows, NEW t \in Thread, NEW right \in Right, NEW model,
         NEW i \in PhotoId, NEW f,
         f \in Surviving({right}, Params(t, right), PhotosPermissions, model),
         model["uploaded_by"] \in {NULL, photos[i]["uploaded_by"]}
  PROVE  HasRight(t, right, f, i)
<1> DEFINE pp == Params(t, right)
           gp == GrantedParams(t)
<1>1. /\ pp.group_id = IF right \in PhotosPermissions[gp.group_id]["instance"]
                       THEN gp.group_id ELSE "other"
      /\ pp.user_id # NULL => /\ pp.user_id = gp.user_id
                              /\ right \in PhotosPermissions["owner"]["instance"]
      /\ pp.user_id # NULL => pp.owner_field_name = "uploaded_by"
  <2>1. gp.owner_field_name = "uploaded_by"
    BY DEF GrantedParams, GuestParams
  <2> HIDE DEF gp
  <2> QED BY <2>1 DEF Params, AfterInstanceCheck, have_group_perms, have_owner_perms,
                      have_permissions, gp
<1>2. /\ req[t].token = NULL => gp.group_id = "guest" /\ gp.user_id = NULL
      /\ req[t].token # NULL => /\ gp.group_id = req[t].token[2]
                                /\ gp.user_id = req[t].token[1]
  BY DEF GrantedParams, GuestParams
<1> HIDE DEF pp, gp
<1>3. f \in Field /\ right \in FieldPerms(pp, PhotosPermissions, model, f)
  BY DEF Surviving, have_permissions, pp
<1>4. CASE right \in PhotosPermissions[pp.group_id][f]
  <2>1. pp.group_id # "other"
    BY <1>3, <1>4 DEF RightsOnRows
  <2> QED BY <1>1, <1>2, <1>4, <2>1 DEF HasRight
<1>5. CASE OwnedBy(pp, model) /\ right \in PhotosPermissions["owner"][f]
  <2>1. pp.user_id # NULL /\ model["uploaded_by"] = pp.user_id
    BY <1>1, <1>5 DEF OwnedBy
  <2>2. req[t].token # NULL /\ req[t].token[1] = photos[i]["uploaded_by"]
    BY <1>1, <1>2, <2>1
  <2> QED BY <1>1, <1>5, <2>1, <2>2 DEF HasRight
<1> QED BY <1>3, <1>4, <1>5 DEF FieldPerms

\* A row that is made belongs to its sender.
LEMMA InsertByRight ==
  ASSUME RightsOnRows, TInv, OInv, NEW i \in PhotoId, NEW t \in Thread,
         ExecInsert(t), photos'[i] # photos[i]
  PROVE  /\ pc[t] = "exec" /\ resp'[t] = "ok" /\ photos[i] = NULL
         /\ req[t].kind = "upload" /\ req[t].token # NULL
         /\ photos'[i]["uploaded_by"] = req[t].token[1]
<1> DEFINE j == req[t].model["id"]
           row == Authorized(t, "CREATE", req[t].model)
           S == Surviving({"CREATE"}, Params(t, "CREATE"), PhotosPermissions,
                          req[t].model)
<1>1. /\ pc[t] = "exec" /\ req[t].kind = "upload" /\ IsModel(req[t].model)
      /\ j \in PhotoId
  BY DEF ExecInsert, TInv, RequestOK, HandlersOK, IsRequest
<1>2. /\ photos[j] = NULL /\ \A f \in NotNull : IsSet(row, f)
      /\ photos' = [photos EXCEPT ![j] = row] /\ Respond(t, "ok")
  BY DEF ExecInsert
<1>3. i = j /\ photos'[i] = row
  BY <1>1, <1>2 DEF TInv, WorldOK, RowsOK
<1>4. "id" \in S
  BY <1>1, <1>2, ErasedIsModel, Constant DEF Authorized, NotNull
<1>5. req[t].token # NULL /\ "uploaded_by" \in S
  <2> DEFINE pp == Params(t, "CREATE")
  <2>1. /\ req[t].token = NULL => pp.group_id \in {"guest", "other"} /\ pp.user_id = NULL
        /\ pp.group_id \in ClaimGroup /\ "owner" \in ClaimGroup
    <3>1. req[t].token # NULL => req[t].token[2] \in ClaimGroup
      BY TokenOwner, PhotoAssumption DEF TInv, HandlersOK
    <3>2. /\ GrantedParams(t).group_id \in ClaimGroup
          /\ req[t].token = NULL => /\ GrantedParams(t).group_id = "guest"
                                    /\ GrantedParams(t).user_id = NULL
      BY <3>1, GroupAssumption DEF GrantedParams, GuestParams, UserGroup
    <3> QED BY <3>2, GroupAssumption DEF Params, AfterInstanceCheck, UserGroup
  <2>2. \A f \in Field : FieldPerms(pp, PhotosPermissions, req[t].model, f) =
          PhotosPermissions[pp.group_id][f] \cup
            IF OwnedBy(pp, req[t].model) THEN PhotosPermissions["owner"][f] ELSE {}
    BY DEF FieldPerms
  <2>3. pp.user_id = NULL => ~OwnedBy(pp, req[t].model)
    BY DEF OwnedBy
  <2> HIDE DEF pp
  <2>4. "CREATE" \in FieldPerms(pp, PhotosPermissions, req[t].model, "id")
    BY <1>4 DEF Surviving, have_permissions, pp
  <2>5. req[t].token # NULL
    BY <2>1, <2>2, <2>3, <2>4, Constant DEF RightsOnRows
  <2>6. "CREATE" \in FieldPerms(pp, PhotosPermissions, req[t].model, "uploaded_by")
    BY <2>1, <2>2, <2>4, Constant DEF RightsOnRows
  <2> QED BY <2>5, <2>6, Constant DEF Surviving, have_permissions, pp
<1>6. req[t].model["uploaded_by"] = req[t].token[1]
  BY <1>1, <1>5 DEF OInv, SenderOwns
<1>7. row["uploaded_by"] = req[t].model["uploaded_by"]
  BY <1>5, Constant DEF Authorized, Erased
<1>8. resp'[t] = "ok"
  BY <1>2, Answers
<1> HIDE DEF row, S
<1> QED BY <1>1, <1>2, <1>3, <1>5, <1>6, <1>7, <1>8

\* A row is changed in the fields the caller has the right on.
LEMMA UpdateByRight ==
  ASSUME RightsOnRows, TInv, OInv, NEW i \in PhotoId \ exempt, NEW t \in Thread,
         ExecUpdate(t), photos'[i] # photos[i]
  PROVE  /\ pc[t] = "exec" /\ resp'[t] = "ok" /\ req[t].target = i
         /\ photos[i] # NULL /\ photos'[i] # NULL
         /\ \A f \in Field : photos'[i][f] # photos[i][f] =>
              /\ HasRight(t, "UPDATE", f, i)
              /\ photos'[i][f] = req[t].model[f]
<1> DEFINE j == req[t].target
           model == Authorized(t, "UPDATE", req[t].model)
           row == [f \in Field |-> IF IsSet(model, f) THEN model[f] ELSE photos[j][f]]
<1>1. /\ pc[t] = "exec" /\ req[t].kind = "modify" /\ j \in PhotoId
      /\ IsModel(req[t].model) /\ resp'[t] = "ok"
      /\ photos' = IF photos[j] = NULL THEN photos ELSE [photos EXCEPT ![j] = row]
  BY Answers DEF ExecUpdate, TInv, RequestOK, HandlersOK, IsRequest
<1>2. IsModel(model) /\ \A f \in Field : IsSet(model, f) =>
        /\ f \in Surviving({"UPDATE"}, Params(t, "UPDATE"), PhotosPermissions,
                           req[t].model)
        /\ model[f] = req[t].model[f]
  BY <1>1, ErasedIsModel DEF Authorized
<1> HIDE DEF model
<1>3. i = j /\ photos[i] # NULL /\ photos'[i] = row
  BY <1>1 DEF TInv, WorldOK, RowsOK
<1>4. photos'[i] # NULL
  <2>1. IsModel(row)
    BY <1>2, <1>3, RowExtension DEF IsModel, row
  <2> QED BY <1>3, <2>1, NullIsNoModel
<1>5. req[t].model["uploaded_by"] \in {NULL, photos[i]["uploaded_by"]}
  BY <1>1, <1>3 DEF OInv, OwnerOK, Acting
<1>6. ASSUME NEW f \in Field, photos'[i][f] # photos[i][f]
      PROVE  HasRight(t, "UPDATE", f, i) /\ photos'[i][f] = req[t].model[f]
  <2>1. IsSet(model, f) /\ photos'[i][f] = model[f]
    BY <1>3, <1>6
  <2> QED BY <1>2, <1>5, <2>1, RightHeld DEF Right
<1> QED BY <1>1, <1>3, <1>4, <1>5, <1>6

\* A row is deleted by a caller with the right to.
LEMMA DeleteByRight ==
  ASSUME RightsOnPhotos, RightsOnRows, TInv, OInv, NEW i \in PhotoId \ exempt,
         NEW t \in Thread, ExecDelete(t), photos'[i] # photos[i]
  PROVE  /\ pc[t] = "exec" /\ resp'[t] = "ok" /\ req[t].target = i
         /\ photos[i] # NULL /\ photos'[i] = NULL
         /\ HasRight(t, "DELETE", "id", i)
<1> DEFINE j == req[t].target
           model == Authorized(t, "DELETE", req[t].model)
           S == {f \in Field : IsSet(model, f)}
<1>1. /\ pc[t] = "exec" /\ req[t].kind = "delete" /\ j \in PhotoId
      /\ IsModel(req[t].model) /\ req[t].model["id"] = j
  BY DEF ExecDelete, TInv, RequestOK, HandlersOK, IsRequest
<1>2. \A f \in S :
        /\ f = "id" /\ model[f] = req[t].model[f]
        /\ f \in Surviving({"DELETE"}, Params(t, "DELETE"), PhotosPermissions,
                           req[t].model)
  BY <1>1, ErasedIsModel, SurvivesByRight DEF Authorized, Right, RightsOnPhotos
<1>3. /\ \E f \in S : S = {f}
      /\ photos' = [k \in PhotoId |->
                      IF photos[k] # NULL /\ \A f \in S : photos[k][f] = model[f]
                      THEN NULL ELSE photos[k]]
      /\ Respond(t, "ok")
  BY DEF ExecDelete
<1> HIDE DEF model, S
<1>4. S = {"id"} /\ model["id"] = j
  BY <1>1, <1>2, <1>3
<1>5. photos[i] # NULL /\ photos'[i] = NULL /\ i = j
  BY <1>3, <1>4, RowExtension
<1>6. req[t].model["uploaded_by"] \in {NULL, photos[i]["uploaded_by"]}
  BY <1>1, <1>5 DEF OInv, OwnerOK, Acting
<1>7. HasRight(t, "DELETE", "id", i)
  BY <1>2, <1>4, <1>6, RightHeld DEF Right
<1> QED BY <1>1, <1>3, <1>5, <1>7, Answers

LEMMA OthersLeaveRows ==
  ASSUME [Next]_vars,
         \A t \in Thread : /\ ~ExecInsert(t) /\ ~ExecUpdate(t) /\ ~ExecDelete(t)
                           /\ ~ExecSpliced(t)
  PROVE  photos' = photos
<1>1. ASSUME NEW t \in Thread, Start(t) \/ Finish(t) PROVE photos' = photos
  BY <1>1 DEF Start, StartUpload, StartModify, StartDelete, Finish
<1>2. ASSUME NEW t \in Thread, Upload(t) PROVE photos' = photos
  BY <1>2 DEF Upload, GrantUpload, StoreFile, OpenFails, Convert
<1>3. ASSUME NEW t \in Thread, ModifyOrDelete(t) PROVE photos' = photos
  BY <1>3 DEF ModifyOrDelete, ReadAccess, Select, RemoveFile, RemoveThumbnail, RemoveFails
<1>4. ASSUME NEW t \in Thread, Access(t) \/ StatementFails(t) PROVE photos' = photos
  BY <1>4 DEF Access, StatementFails
<1>5. UNCHANGED vars \/ Crash \/ (\E token \in Token : LoginElsewhere(token)) =>
        photos' = photos
  BY DEF vars, Crash, LoginElsewhere
<1> QED BY <1>1, <1>2, <1>3, <1>4, <1>5 DEF Next

\* For any number of handlers and photos, and whatever statements a quote has
\* changed leave: a row whose id is not exempt changes only by a request for it,
\* in the fields its sender has the right on at that moment, and a new one is
\* owned by its sender.
THEOREM PhotosChangeByRightTheorem ==
  ASSUME RightsOnPhotos, RightsOnRows
  PROVE  Spec => PhotosChangeByRight
<1> DEFINE Changed(i) ==
       \E t \in Thread :
         /\ pc[t] = "exec" /\ resp'[t] = "ok"
         /\ IF photos[i] = NULL
            THEN /\ req[t].kind = "upload"
                 /\ req[t].token # NULL
                 /\ photos'[i]["uploaded_by"] = req[t].token[1]
            ELSE /\ req[t].target = i
                 /\ IF photos'[i] = NULL THEN HasRight(t, "DELETE", "id", i)
                    ELSE \A f \in Field : photos'[i][f] # photos[i][f] =>
                           /\ HasRight(t, "UPDATE", f, i)
                           /\ photos'[i][f] = req[t].model[f]
<1>1. TInv /\ OInv /\ [Next]_vars =>
        \A i \in PhotoId \ exempt' : photos'[i] # photos[i] => Changed(i)
  <2> SUFFICES ASSUME TInv, OInv, [Next]_vars, NEW i \in PhotoId \ exempt',
                      photos'[i] # photos[i]
               PROVE  Changed(i)
    OBVIOUS
  <2>1. PICK t \in Thread : ExecInsert(t) \/ ExecUpdate(t) \/ ExecDelete(t) \/ ExecSpliced(t)
    BY OthersLeaveRows
  <2>2. i \in PhotoId \ exempt
    BY ExemptGrows
  <2>3. ~ExecSpliced(t)
    BY DEF ExecSpliced
  <2>4. CASE ExecInsert(t)
    BY <2>4, InsertByRight
  <2>5. CASE ExecUpdate(t)
    BY <2>2, <2>5, UpdateByRight
  <2>6. CASE ExecDelete(t)
    BY <2>2, <2>6, DeleteByRight
  <2> QED BY <2>1, <2>3, <2>4, <2>5, <2>6
<1>2. TInv /\ OInv /\ [Next]_vars =>
        [\A i \in PhotoId \ exempt' : photos'[i] # photos[i] => Changed(i)]_vars
  BY <1>1
<1> QED BY InitTInv, NextTInv, InitPInv, NextPInv, InitOInv, NextOInv, <1>2,
           PTL DEF Spec, PhotosChangeByRight
=============================================================================
