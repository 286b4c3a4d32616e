------------------------------- MODULE Photos -------------------------------
(***************************************************************************)
(* Upload, modification and deletion of photos (POST /photos, PUT and      *)
(* DELETE /photos/id in src/src/routes.hpp): rows of the table photos      *)
(* against the pictures and thumbnails on disk.                            *)
(*                                                                         *)
(* A handler is a sequence of SQL statements and file operations, and none *)
(* is undone when a later one fails.  An upload draws its id at random,    *)
(* stores the picture, makes the thumbnail and inserts the row last.  A    *)
(* modification and a deletion read the owner first and act on it later; a *)
(* deletion removes the files in between.                                  *)
(*                                                                         *)
(* The constructor of AuthorizedModelAccess reads auth_tokens and then     *)
(* photos_permissions, which nothing writes; it is one step here.          *)
(*                                                                         *)
(* Values become part of the text of a statement as they are, so one that  *)
(* holds a quote makes another statement of it.  What that one does is not *)
(* worked out: it fails, or it leaves any table of Garbled.                *)
(***************************************************************************)
EXTENDS Permissions, Integers, FiniteSets

CONSTANTS Thread,             \* the threads that run handlers
          User,               \* user ids
          PhotoId,            \* the ids an upload can draw
          Extension,          \* extensions of picture files
          Title,              \* titles; stands for category and description too
          Content,            \* contents of picture files
          Cut,                \* what a full disk leaves of a content
          Failing,            \* bound: may statements and file operations fail
                              \*   and the process stop
          Invalid,            \* titles and extensions that violate a constraint
          Quoted,             \* titles that hold a quote
          Garbled,            \* bound: the tables a statement can leave whose
                              \*   text a quote has changed
          Kind,               \* the requests clients send
          Sent,               \* the bodies they send
          Token,              \* the tokens clients hold: <<user id, group>>
          LogsIn,             \* bound: the users who log in again meanwhile
          PhotosPermissions,  \* the loaded photos_permissions matrix
          InitialPhotos       \* the rows at start-up

VARIABLES photos,       \* photos[i]: the row with id i, or NULL
          files,        \* files[<<i, e>>]: content of static/photos/<i><e>, or NULL
          thumbnails,   \* thumbnails[i]: the content it was made from, or NULL
          auth_tokens,  \* the stored tokens, at most one per user
          pc,           \* the next step of the handler on a thread
          req,          \* its request and local variables
          resp,         \* the answer it sent
          uploaded,     \* history: the content of the upload that made row i
          drawn,        \* history: ids that an upload has drawn
          exempt,       \* history: ids that were drawn more than once, or
                        \*   that a statement a quote has changed was about
          removed,      \* history: ids whose files a deletion has removed
          abandoned     \* history: ids of uploads that ended after storing
                        \*   the picture and before inserting the row

disk == <<files, thumbnails>>
history == <<uploaded, drawn, exempt, removed, abandoned>>
vars == <<photos, disk, auth_tokens, pc, req, resp, history>>

FieldValues(f) ==
  CASE f = "id" -> PhotoId
    [] f = "extension" -> Extension
    [] f = "title" -> Title
    [] f = "uploaded_by" -> User
    [] f = "is_private" -> {0, 1}

IsModel(m) ==
  /\ m = [f \in Field |-> m[f]]
  /\ \A f \in Field : m[f] \in FieldValues(f) \cup {NULL}

\* What an upload must bring besides the picture (cnstr::Required), and the
\* columns the table declares NOT NULL.
Required == {"title", "is_private"}
NotNull == {"id", "extension", "title", "is_private"}

\* What the columns of the table allow.
IsTable(rows) ==
  /\ rows = [i \in PhotoId |-> rows[i]]
  /\ \A i \in PhotoId : rows[i] # NULL =>
       /\ IsModel(rows[i]) /\ rows[i]["id"] = i
       /\ \A f \in NotNull : IsSet(rows[i], f)

Kinds == {"upload", "modify", "delete"}

ASSUME PhotoAssumption ==
  /\ Field = {"id", "extension", "title", "uploaded_by", "is_private"}
  /\ NULL \notin User /\ NULL \notin PhotoId /\ NULL \notin {0, 1}
  /\ NULL \notin Extension \cup Title \cup Content \cup {Cut}
  /\ NULL \notin [Field -> (UNION {FieldValues(f) : f \in Field}) \cup {NULL}]
  /\ Cut \notin Content
  /\ Failing \in BOOLEAN
  /\ Kind \subseteq Kinds /\ \A m \in Sent : IsModel(m)
  /\ Token \subseteq User \X ClaimGroup /\ LogsIn \subseteq User
  /\ \A k, l \in Token : k[1] = l[1] => k = l
  /\ PhotosPermissions \in Matrix
  /\ Quoted \subseteq Title
  /\ IsTable(InitialPhotos) /\ \A rows \in Garbled : IsTable(rows)

\* A request: the token it came with, the id of the URL, the model built from
\* its body and completed by the route, the picture it carries; the extension
\* a deletion has read.
IsRequest(r) ==
  /\ r = [kind |-> r.kind, token |-> r.token, target |-> r.target,
          model |-> r.model, content |-> r.content, extension |-> r.extension]
  /\ r.kind \in Kinds
  /\ r.token \in Token \cup {NULL}
  /\ r.target \in PhotoId \cup {NULL}
  /\ IsModel(r.model)
  /\ r.content \in Content \cup {NULL}
  /\ r.extension \in Extension \cup {NULL}

NoRequest == [kind |-> "delete", token |-> NULL, target |-> NULL,
              model |-> EmptyModel, content |-> NULL, extension |-> NULL]

\* Steps at the database, and steps at the disk.
Statement == {"grant", "read_access", "select", "access", "exec"}
FileStep == {"store", "convert", "rm_file", "rm_thumbnail"}

Response == {"none", "ok", "invalid_params", "invalid_token", "unauthorized",
             "db_error", "other_error"}

\* An upload that has stored its picture and has not inserted the row.
Uploading(t, i) ==
  /\ req[t].kind = "upload" /\ req[t].model["id"] = i
  /\ pc[t] \in {"convert", "access", "exec"}

\* Another handler is at the database, so a statement of t may fail.
Busy(t) == Failing /\ \E s \in Thread \ {t} : pc[s] \in Statement

----------------------------------------------------------------------------

\* Every row has its picture and its thumbnail.
Init ==
  /\ photos = InitialPhotos
  /\ uploaded \in [PhotoId -> Content \cup {NULL}]
  /\ \A i \in PhotoId : photos[i] = NULL <=> uploaded[i] = NULL
  /\ files = [p \in PhotoId \X Extension |->
                IF photos[p[1]] # NULL /\ photos[p[1]]["extension"] = p[2]
                THEN uploaded[p[1]] ELSE NULL]
  /\ thumbnails = uploaded
  /\ auth_tokens = Token
  /\ pc = [t \in Thread |-> "idle"]
  /\ req = [t \in Thread |-> NoRequest]
  /\ resp = [t \in Thread |-> "none"]
  /\ drawn = {i \in PhotoId : photos[i] # NULL}
  /\ exempt = {}
  /\ removed = {}
  /\ abandoned = {}

Goto(t, label) == pc' = [pc EXCEPT ![t] = label]

Respond(t, answer) ==
  /\ Goto(t, "responded")
  /\ resp' = [resp EXCEPT ![t] = answer]

Finish(t) ==
  /\ pc[t] = "responded"
  /\ Goto(t, "idle")
  /\ req' = [req EXCEPT ![t] = NoRequest]
  /\ resp' = [resp EXCEPT ![t] = "none"]
  /\ UNCHANGED <<photos, disk, auth_tokens, history>>

\* A login of the user, elsewhere in the server, deletes the token and inserts
\* it again.
LoginElsewhere(token) ==
  /\ token[1] \in LogsIn
  /\ auth_tokens' = IF token \in auth_tokens THEN auth_tokens \ {token}
                                              ELSE auth_tokens \cup {token}
  /\ UNCHANGED <<photos, disk, pc, req, resp, history>>

----------------------------------------------------------------------------
(* What AuthorizedModelAccess grants the caller of t for a right           *)

Accepted(t) == req[t].token = NULL \/ req[t].token \in auth_tokens

GrantedParams(t) ==
  IF req[t].token = NULL THEN GuestParams("uploaded_by")
  ELSE [group_id |-> req[t].token[2], user_id |-> req[t].token[1],
        owner_field_name |-> "uploaded_by"]

Params(t, right) == AfterInstanceCheck({right}, GrantedParams(t), PhotosPermissions)

Allowed(t, right) == InstanceAllowed({right}, GrantedParams(t), PhotosPermissions)

Authorized(t, right, model) ==
  Erased({right}, Params(t, right), PhotosPermissions, model)

NothingSurvives(t, right, model) ==
  Surviving({right}, Params(t, right), PhotosPermissions, model) = {}

DesiredRight(t) ==
  CASE req[t].kind = "upload" -> "CREATE"
    [] req[t].kind = "modify" -> "UPDATE"
    [] req[t].kind = "delete" -> "DELETE"

\* The text of the statement holds a value with a quote; a DELETE names only
\* ids.
Spliced(t) ==
  /\ req[t].kind # "delete"
  /\ \E f \in Field : Authorized(t, DesiredRight(t), req[t].model)[f] \in Quoted

----------------------------------------------------------------------------
(* POST /photos                                                            *)

Unsatisfied(model) == {f \in Field : model[f] \in Invalid}
Missing(model) == {f \in Required : ~IsSet(model, f)}

\* The id is drawn, whatever is there already.  Bound: no id is drawn a third
\* time, and none that is exempt anyway.
StartUpload(t, body, extension, content, token, i) ==
  /\ pc[t] = "idle"
  /\ i \notin exempt
  /\ Goto(t, "grant")
  /\ req' = [req EXCEPT ![t] =
               [NoRequest EXCEPT !.kind = "upload", !.token = token,
                 !.content = content,
                 !.model = [body EXCEPT !["id"] = i, !["extension"] = extension]]]
  /\ drawn' = drawn \cup {i}
  /\ exempt' = IF i \in drawn THEN exempt \cup {i} ELSE exempt
  /\ UNCHANGED <<photos, disk, auth_tokens, resp, uploaded, removed, abandoned>>

\* Faulty variant: the owner defaults to 0, value_or(0).
GrantUploadDefaultOwner(t) ==
  LET owner == IF req[t].token = NULL THEN 0 ELSE req[t].token[1]
      model == [req[t].model EXCEPT !["uploaded_by"] = owner]
  IN  /\ pc[t] = "grant"
      /\ IF ~Accepted(t) THEN Respond(t, "invalid_token")
         ELSE IF Unsatisfied(model) \cup Missing(model) # {}
              THEN Respond(t, "invalid_params")
         ELSE Goto(t, "store") /\ UNCHANGED resp
      /\ req' = [req EXCEPT ![t].model = model]
      /\ UNCHANGED <<photos, disk, auth_tokens, history>>

\* Faulty variant: an owner that the body names is kept.
GrantUploadBodyOwner(t) ==
  LET owner == IF req[t].token = NULL THEN NULL ELSE req[t].token[1]
      model == IF IsSet(req[t].model, "uploaded_by") THEN req[t].model
               ELSE [req[t].model EXCEPT !["uploaded_by"] = owner]
  IN  /\ pc[t] = "grant"
      /\ IF ~Accepted(t) THEN Respond(t, "invalid_token")
         ELSE IF Unsatisfied(model) \cup Missing(model) # {}
              THEN Respond(t, "invalid_params")
         ELSE Goto(t, "store") /\ UNCHANGED resp
      /\ req' = [req EXCEPT ![t].model = model]
      /\ UNCHANGED <<photos, disk, auth_tokens, history>>

\* The caller becomes the owner; then the constraints are checked.
GrantUpload(t) ==
  LET owner == IF req[t].token = NULL THEN NULL ELSE req[t].token[1]
      model == [req[t].model EXCEPT !["uploaded_by"] = owner]
  IN  /\ pc[t] = "grant"
      /\ IF ~Accepted(t) THEN Respond(t, "invalid_token")
         ELSE IF Unsatisfied(model) \cup Missing(model) # {}
              THEN Respond(t, "invalid_params")
         ELSE Goto(t, "store") /\ UNCHANGED resp
      /\ req' = [req EXCEPT ![t].model = model]
      /\ UNCHANGED <<photos, disk, auth_tokens, history>>

\* store_file_to_disk truncates what is there.  It throws when the file cannot
\* be opened; a write that fails sets badbit, which does not throw.
StoreFile(t) ==
  LET i == req[t].model["id"]
      e == req[t].model["extension"]
  IN  /\ pc[t] = "store"
      /\ \E kept \in {req[t].content} \cup IF Failing THEN {Cut} ELSE {} :
           files' = [files EXCEPT ![<<i, e>>] = kept]
      /\ Goto(t, "convert")
      /\ UNCHANGED <<photos, thumbnails, auth_tokens, req, resp, history>>

\* Faulty variant: the stream throws on nothing, and the upload goes on.
OpenFailureIgnored(t) ==
  /\ Failing
  /\ pc[t] = "store"
  /\ Goto(t, "convert")
  /\ UNCHANGED <<photos, disk, auth_tokens, req, resp, history>>

OpenFails(t) ==
  /\ Failing
  /\ pc[t] = "store"
  /\ Respond(t, "other_error")
  /\ UNCHANGED <<photos, disk, auth_tokens, req, history>>

\* std::system runs convert, and its result is ignored.
Convert(t) ==
  LET i == req[t].model["id"]
      e == req[t].model["extension"]
  IN  /\ pc[t] = "convert"
      /\ \/ thumbnails' = [thumbnails EXCEPT ![i] = files[<<i, e>>]]
         \/ Failing /\ UNCHANGED thumbnails
      /\ Goto(t, "access")
      /\ UNCHANGED <<photos, files, auth_tokens, req, resp, history>>

\* INSERT INTO photos.
ExecInsert(t) ==
  LET i == req[t].model["id"]
      row == Authorized(t, "CREATE", req[t].model)
  IN  /\ pc[t] = "exec"
      /\ req[t].kind = "upload" /\ ~Spliced(t)
      /\ IF photos[i] = NULL /\ \A f \in NotNull : IsSet(row, f)
         THEN /\ photos' = [photos EXCEPT ![i] = row]
              /\ uploaded' = [uploaded EXCEPT ![i] = req[t].content]
              /\ Respond(t, "ok")
              /\ UNCHANGED abandoned
         ELSE /\ Respond(t, "db_error")
              /\ abandoned' = abandoned \cup {i}
              /\ UNCHANGED <<photos, uploaded>>
      /\ UNCHANGED <<disk, auth_tokens, req, drawn, exempt, removed>>

----------------------------------------------------------------------------
(* PUT and DELETE /photos/id                                               *)

\* Required does not count, and the id is the URL's.
StartModify(t, target, body, token) ==
  /\ pc[t] = "idle"
  /\ IF Unsatisfied(body) = {} THEN Goto(t, "read_access") /\ UNCHANGED resp
                               ELSE Respond(t, "invalid_params")
  /\ req' = [req EXCEPT ![t] =
               [NoRequest EXCEPT !.kind = "modify", !.token = token,
                 !.target = target, !.model = [body EXCEPT !["id"] = target]]]
  /\ UNCHANGED <<photos, disk, auth_tokens, history>>

StartDelete(t, target, token) ==
  /\ pc[t] = "idle"
  /\ Goto(t, "read_access")
  /\ req' = [req EXCEPT ![t] =
               [NoRequest EXCEPT !.kind = "delete", !.token = token,
                 !.target = target, !.model = [EmptyModel EXCEPT !["id"] = target]]]
  /\ UNCHANGED <<photos, disk, auth_tokens, resp, history>>

\* The access object of get_models_from_db.
ReadAccess(t) ==
  /\ pc[t] = "read_access"
  /\ IF ~Accepted(t) THEN Respond(t, "invalid_token")
     ELSE IF ~Allowed(t, "READ") THEN Respond(t, "unauthorized")
     ELSE Goto(t, "select") /\ UNCHANGED resp
  /\ UNCHANGED <<photos, disk, auth_tokens, req, history>>

\* The fields the SELECT asks for, of the row of the target.
Selected(t) ==
  [f \in Field |->
     IF f = "uploaded_by" \/ (f = "extension" /\ req[t].kind = "delete")
     THEN photos[req[t].target][f] ELSE NULL]

\* Faulty variant: the owner in the body is kept.
SelectKeepsOwner(t) ==
  /\ pc[t] = "select"
  /\ photos[req[t].target] # NULL
  /\ Goto(t, IF req[t].kind = "delete" THEN "rm_file" ELSE "access")
  /\ req' = [req EXCEPT ![t].extension = photos[req[t].target]["extension"]]
  /\ UNCHANGED <<photos, disk, auth_tokens, resp, history>>

Select(t) ==
  LET read == Authorized(t, "READ", Selected(t))
  IN  /\ pc[t] = "select"
      /\ IF photos[req[t].target] = NULL
         THEN Respond(t, "invalid_params") /\ UNCHANGED req
         ELSE IF NothingSurvives(t, "READ", Selected(t))
         THEN Respond(t, "unauthorized") /\ UNCHANGED req
         ELSE /\ Goto(t, IF req[t].kind = "delete" THEN "rm_file" ELSE "access")
              /\ req' = [req EXCEPT ![t].model["uploaded_by"] = read["uploaded_by"],
                                    ![t].extension = read["extension"]]
              /\ UNCHANGED resp
      /\ UNCHANGED <<photos, disk, auth_tokens, history>>

\* std::filesystem::remove; a file that is not there is no error.  The extension
\* is dereferenced unchecked: without the right to read it the name is garbage.
\* Every caller has that right on the shipped table.
RemoveFile(t) ==
  LET i == req[t].target
  IN  /\ pc[t] = "rm_file"
      /\ files' = [files EXCEPT ![<<i, req[t].extension>>] = NULL]
      /\ removed' = removed \cup {i}
      /\ Goto(t, "rm_thumbnail")
      /\ UNCHANGED <<photos, thumbnails, auth_tokens, req, resp, uploaded, drawn,
                     exempt, abandoned>>

\* Faulty variant: the thumbnail is left.
KeepThumbnail(t) ==
  /\ pc[t] = "rm_thumbnail"
  /\ Goto(t, "access")
  /\ UNCHANGED <<photos, disk, auth_tokens, req, resp, history>>

RemoveThumbnail(t) ==
  /\ pc[t] = "rm_thumbnail"
  /\ thumbnails' = [thumbnails EXCEPT ![req[t].target] = NULL]
  /\ Goto(t, "access")
  /\ UNCHANGED <<photos, files, auth_tokens, req, resp, history>>

RemoveFails(t) ==
  /\ Failing
  /\ pc[t] \in {"rm_file", "rm_thumbnail"}
  /\ Respond(t, "other_error")
  /\ UNCHANGED <<photos, disk, auth_tokens, req, history>>

----------------------------------------------------------------------------
(* The access object and the statement that writes                         *)

Refusal(t) ==
  LET right == DesiredRight(t)
  IN  CASE ~Accepted(t) -> "invalid_token"
        [] OTHER ->
             IF ~Allowed(t, right) \/ NothingSurvives(t, right, req[t].model)
             THEN "unauthorized"
             ELSE IF /\ req[t].kind # "upload"
                     /\ Authorized(t, right, req[t].model) = EmptyModel
             THEN "invalid_params"
             ELSE "none"

\* The upload of t ends here, with its picture stored and no row.
Abandon(t) ==
  abandoned' = IF req[t].kind = "upload" /\ pc[t] # "grant"
               THEN abandoned \cup {req[t].model["id"]} ELSE abandoned

\* The token is checked again.
Access(t) ==
  /\ pc[t] = "access"
  /\ IF Refusal(t) = "none"
     THEN Goto(t, "exec") /\ UNCHANGED <<resp, abandoned>>
     ELSE Respond(t, Refusal(t)) /\ Abandon(t)
  /\ UNCHANGED <<photos, disk, auth_tokens, req, uploaded, drawn, exempt, removed>>

\* An INSERT or UPDATE whose text a quote has changed: the rows it has changed,
\* and the one an upload meant to make, are no more what the requests say.
ExecSpliced(t) ==
  /\ pc[t] = "exec"
  /\ Spliced(t)
  /\ \/ Respond(t, "db_error") /\ Abandon(t) /\ UNCHANGED <<photos, exempt>>
     \/ /\ photos' \in Garbled
        /\ exempt' = exempt \cup {i \in PhotoId : photos'[i] # photos[i]}
                            \cup {i \in PhotoId : Uploading(t, i)}
        /\ Respond(t, "ok")
        /\ UNCHANGED abandoned
  /\ UNCHANGED <<disk, auth_tokens, req, uploaded, drawn, removed>>

\* UPDATE photos SET ... WHERE id = target.
ExecUpdate(t) ==
  LET i == req[t].target
      model == Authorized(t, "UPDATE", req[t].model)
  IN  /\ pc[t] = "exec"
      /\ req[t].kind = "modify" /\ ~Spliced(t)
      /\ photos' = IF photos[i] = NULL THEN photos
                   ELSE [photos EXCEPT ![i] =
                           [f \in Field |-> IF IsSet(model, f) THEN model[f]
                                                               ELSE photos[i][f]]]
      /\ Respond(t, "ok")
      /\ UNCHANGED <<disk, auth_tokens, req, history>>

\* DELETE FROM photos WHERE the one field that is left of the model; with two
\* the statement has a comma where it needs an AND.
ExecDelete(t) ==
  LET model == Authorized(t, "DELETE", req[t].model)
      S == {f \in Field : IsSet(model, f)}
  IN  /\ pc[t] = "exec"
      /\ req[t].kind = "delete"
      /\ IF \E f \in S : S = {f}
         THEN /\ photos' = [i \in PhotoId |->
                              IF photos[i] # NULL /\ \A f \in S : photos[i][f] = model[f]
                              THEN NULL ELSE photos[i]]
              /\ Respond(t, "ok")
         ELSE Respond(t, "db_error") /\ UNCHANGED photos
      /\ UNCHANGED <<disk, auth_tokens, req, history>>

----------------------------------------------------------------------------
(* Failures                                                                *)

StatementFails(t) ==
  /\ Busy(t)
  /\ pc[t] \in Statement
  /\ pc[t] = "grant" => req[t].token # NULL
  /\ Respond(t, "db_error")
  /\ Abandon(t)
  /\ UNCHANGED <<photos, disk, auth_tokens, req, uploaded, drawn, exempt, removed>>

\* The process stops and is started again on the same database and disk.
Crash ==
  /\ Failing
  /\ \E t \in Thread : pc[t] # "idle"
  /\ abandoned' = abandoned \cup
                    {i \in PhotoId : \E t \in Thread : Uploading(t, i)}
  /\ pc' = [t \in Thread |-> "idle"]
  /\ req' = [t \in Thread |-> NoRequest]
  /\ resp' = [t \in Thread |-> "none"]
  /\ UNCHANGED <<photos, disk, auth_tokens, uploaded, drawn, exempt, removed>>

----------------------------------------------------------------------------

Start(t) ==
  \E token \in Token \cup {NULL} :
    \/ /\ "upload" \in Kind
       /\ \E body \in Sent, e \in Extension, c \in Content, i \in PhotoId :
            StartUpload(t, body, e, c, token, i)
    \/ /\ "modify" \in Kind
       /\ \E target \in PhotoId, body \in Sent : StartModify(t, target, body, token)
    \/ /\ "delete" \in Kind
       /\ \E target \in PhotoId : StartDelete(t, target, token)

Upload(t) ==
  \/ GrantUpload(t)
  \/ StoreFile(t) \/ OpenFails(t) \/ Convert(t)
  \/ ExecInsert(t)

ModifyOrDelete(t) ==
  \/ ReadAccess(t) \/ Select(t)
  \/ RemoveFile(t) \/ RemoveThumbnail(t) \/ RemoveFails(t)
  \/ ExecUpdate(t) \/ ExecDelete(t)

Next ==
  \/ \E t \in Thread : \/ Start(t) \/ Upload(t) \/ ModifyOrDelete(t)
                       \/ Access(t) \/ ExecSpliced(t)
                       \/ StatementFails(t) \/ Finish(t)
  \/ \E token \in Token : LoginElsewhere(token)
  \/ Crash

Spec == Init /\ [][Next]_vars

----------------------------------------------------------------------------
(* Properties                                                              *)

\* What the shipped table gives: the right to delete is on the id only, the
\* extension is never updated, and whoever reads a field reads the extension.
RightsOnPhotos ==
  \A g \in ClaimGroup, f \in Field :
    /\ "DELETE" \in PhotosPermissions[g][f] => f = "id"
    /\ "UPDATE" \in PhotosPermissions[g][f] => f # "extension"
    /\ "READ" \in PhotosPermissions[g][f] =>
         "READ" \in PhotosPermissions[g]["extension"]

\* Further: a caller without a group has no right, guests create nothing, and
\* whoever creates sets the owner, which is never updated.
RightsOnRows ==
  /\ \A f \in Field : PhotosPermissions["other"][f] = {}
  /\ \A g \in ClaimGroup, f \in Field :
       /\ "CREATE" \in PhotosPermissions[g][f] =>
            g # "guest" /\ "CREATE" \in PhotosPermissions[g]["uploaded_by"]
       /\ "UPDATE" \in PhotosPermissions[g][f] => f # "uploaded_by"

\* The type invariant; a row keeps its id and its columns that are NOT NULL.
TypeOK ==
  /\ IsTable(photos)
  /\ files \in [PhotoId \X Extension -> Content \cup {Cut, NULL}]
  /\ thumbnails \in [PhotoId -> Content \cup {Cut, NULL}]
  /\ auth_tokens \subseteq Token
  /\ pc \in [Thread -> Statement \cup FileStep \cup {"idle", "responded"}]
  /\ req = [t \in Thread |-> req[t]] /\ \A t \in Thread : IsRequest(req[t])
  /\ resp \in [Thread -> Response]
  /\ uploaded \in [PhotoId -> Content \cup {NULL}]
  /\ exempt \subseteq PhotoId /\ drawn \subseteq PhotoId
  /\ removed \subseteq PhotoId /\ abandoned \subseteq PhotoId

\* The picture of every row is on disk, and it and its thumbnail are those of
\* the upload that made the row, cut only by a full disk; except for an id that
\* was drawn twice or that a quote has reached, and once a deletion has reached
\* the files.
FileMatchesRow ==
  \A i \in PhotoId \ (exempt \cup removed) : photos[i] # NULL =>
    LET file == files[<<i, photos[i]["extension"]>>]
    IN  /\ file = uploaded[i] \/ (Failing /\ file = Cut)
        /\ thumbnails[i] = file \/ (Failing /\ thumbnails[i] = NULL)

\* When a deletion is answered with success, neither the row nor a file of the
\* photo is left, whatever other requests for it were under way; with the same
\* exception.
DeletionComplete ==
  \A t \in Thread :
    LET i == req[t].target
    IN  /\ pc[t] = "responded" /\ req[t].kind = "delete" /\ resp[t] = "ok"
        /\ i \notin exempt
        => /\ photos[i] = NULL
           /\ thumbnails[i] = NULL
           /\ \A e \in Extension : files[<<i, e>>] = NULL

\* Files without a row come from uploads only: one that is running, or one that
\* was refused, failed or was cut off after it had stored its picture; with the
\* same exception.
LeftoversAreUploads ==
  \A i \in PhotoId \ exempt :
    photos[i] = NULL /\ (thumbnails[i] # NULL \/ \E e \in Extension : files[<<i, e>>] # NULL)
      => i \in abandoned \/ \E t \in Thread : Uploading(t, i)

\* The caller of t has the right on field f of photo i, by its group or as the
\* one who uploaded it, on the instance and on the field.
HasRight(t, right, f, i) ==
  LET m == PhotosPermissions
      group == IF req[t].token = NULL THEN "guest" ELSE req[t].token[2]
  IN  \/ right \in m[group]["instance"] \cap m[group][f]
      \/ /\ req[t].token # NULL
         /\ req[t].token[1] = photos[i]["uploaded_by"]
         /\ right \in m["owner"]["instance"] \cap m["owner"][f]

\* Unless its id was drawn twice or a title with a quote makes another statement
\* that reaches it, a row changes only by a request for it, in the fields its
\* sender has the right on at that moment, although the owner was read in an
\* earlier statement and the body may name another; a new row is owned by its
\* sender.
PhotosChangeByRight ==
  [][\A i \in PhotoId \ exempt' : photos'[i] # photos[i] =>
       \E t \in Thread :
         /\ pc[t] = "exec" /\ resp'[t] = "ok"
         /\ IF photos[i] = NULL
            THEN /\ req[t].kind = "upload"
                 /\ req[t].token # NULL
                 /\ photos'[i]["uploaded_by"] = req[t].token[1]
            ELSE /\ req[t].target = i
                 /\ IF photos'[i] = NULL THEN HasRight(t, "DELETE", "id", i)
                    ELSE \A f \in Field : photos'[i][f] # photos[i][f] =>
                           /\ HasRight(t, "UPDATE", f, i)
                           /\ photos'[i][f] = req[t].model[f]]_vars

\* What the refusal of a deletion says, "required_permissions": the files of a
\* photo are removed only for a caller with the right to delete it.
FilesGoByRight ==
  [][\A i \in PhotoId, e \in Extension :
       photos[i] # NULL /\ files[<<i, e>>] # NULL /\ files'[<<i, e>>] = NULL =>
         \E t \in Thread : /\ req[t].kind = "delete" /\ req[t].target = i
                           /\ HasRight(t, "DELETE", "id", i)]_vars
=============================================================================
