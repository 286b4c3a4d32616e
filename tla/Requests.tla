------------------------------ MODULE Requests ------------------------------
(***************************************************************************)
(* The life of the process: main reads the command line, opens the         *)
(* sessions and registers the routes (src/src/main.cpp, src/src/router.hpp,*)
(* src/src/utils.hpp), then requests come in.  A request is matched with a *)
(* route; the Handler (src/src/handler.hpp) reads the parameters, turns    *)
(* them to JSON and back, calls the route (src/src/routes.hpp) and answers,*)
(* with a status for every exception.                                      *)
(*                                                                         *)
(* One request is followed at a time: what concurrent handlers do to the   *)
(* tables is in Registration, LoginSessions and Photos, and what a caller  *)
(* may do in ModelAccess.  Here a statement finds any rows, may fail, and  *)
(* the caller may be refused.  The strings sent hold no quote, which would *)
(* make another statement of the one they become part of: Registration and *)
(* Photos have those.                                                      *)
(***************************************************************************)
EXTENDS Models

CONSTANTS Word,      \* the words of a command line
          MaxWords,  \* bound: its length
          Row,       \* the ids rows can have
          StoredRows,  \* those there are at start-up, of users and of photos
          Random,    \* what randint can return
          Sent       \* the requests clients send

VARIABLES phase,     \* what main is doing: "scan", "open", "register", "serve",
                     \*   "exited", or "stopped" by an exception nobody catches
                     \*   or by undefined behaviour
          argv,      \* the command line
          it,        \* the loop of parse_cmdline_args: the next word
          args,      \* the CmdLineArgs found so far
          served,    \* the routes registered with the router so far, in order
          registered_routes_info,  \* those listed in the reference, with the
                                   \*   description of their parameters
          tables,    \* tables[n]: the ids of the rows of users and photos
          pc,        \* where the handler of the request is
          req,       \* the request
          model,     \* its parameters, or NULL
          answer,    \* the answer, or NULL
          written,   \* history: the rows the request has changed
          failed     \* history: a statement or file operation of it failed

starting == <<phase, argv, it, args, served, registered_routes_info>>
handling == <<pc, req, model, answer, written, failed>>
vars == <<starting, tables, handling>>

----------------------------------------------------------------------------
(* The routes                                                              *)

\* A route whose URL ends in an id, or not; its parameters; whether it is
\* registered by Router::add_api_handler or with the router itself.
Route(method, url, has_id, params, listed) ==
  [method |-> method, url |-> url, has_id |-> has_id, params |-> params,
   listed |-> listed]

Api(method, url, params) == Route(method, url, FALSE, params, TRUE)
ApiId(method, url, params) == Route(method, url, TRUE, params, TRUE)

\* In the order in which main and register_routes register them.
Routes == <<
  Api("GET", "users", Empty), ApiId("GET", "users", Empty),
  Api("POST", "users", User), ApiId("PUT", "users", User),
  ApiId("DELETE", "users", Empty),
  Api("POST", "login", UserCredentials),
  Api("GET", "photos", Empty), ApiId("GET", "photos", Empty),
  ApiId("GET", "photos_by", Empty),
  Route("POST", "photos", FALSE, Empty, FALSE),
  ApiId("PUT", "photos", Photo), ApiId("DELETE", "photos", Empty),
  Api("GET", "help_json", Empty),
  Route("GET", "help", FALSE, Empty, FALSE) >>

\* What a client sends: a URL with an id or not; a body, which is none, malformed,
\* JSON or parts; a bearer token: none, one that does not decode, the stored one,
\* one that is not stored any more, or a refresh token.
\* A part: its name; whether in one of its headers the characters json follow the
\* first name=", which may be that of a filename; and the extension of that.
IsPart(p) ==
  /\ p = [name |-> p.name, begins_json |-> p.begins_json,
          extension |-> p.extension, json |-> p.json]
  /\ p.begins_json \in BOOLEAN
  /\ p.extension \in Text \cup {NULL}
  /\ IsJson(p.json)

IsRequest(r) ==
  /\ r = [method |-> r.method, url |-> r.url, id |-> r.id, body |-> r.body,
          token |-> r.token]
  /\ IsJson(r.body)
  /\ r.body.kind = "parts" =>
       /\ r.body.content \in Seq({r.body.content[n] : n \in DOMAIN r.body.content})
       /\ \A n \in DOMAIN r.body.content : IsPart(r.body.content[n])
  /\ r.method \in {"GET", "POST", "PUT", "DELETE"}
  /\ r.id \in Nat \cup {NULL}
  /\ r.token \in {"none", "garbage", "stored", "stale", "refresh"}

\* The classes of errors.hpp.
ErrorClass == {"OtherError", "InvalidParamsError", "JsonParseError",
               "NotFoundError", "DBError", "UnauthorizedError",
               "InvalidAuthTokenError", "InvalidRefreshTokenError"}

ASSUME RequestsAssumption ==
  /\ MaxWords \in Nat /\ NULL \notin Word
  /\ NULL \notin ErrorClass /\ NULL \notin [status : Nat, error : ErrorClass \cup {NULL}]
  /\ Row \subseteq Int32 \cap Nat /\ Random \subseteq Row
  /\ StoredRows \in [{"users", "photos"} -> SUBSET Row]
  /\ \A r \in Sent : IsRequest(r)

\* The router: an id that is no uint32_t matches no route.
Matches(route, r) ==
  /\ route.method = r.method /\ route.url = r.url
  /\ IF route.has_id THEN r.id \in UInt32 ELSE r.id = NULL

Matching(r) == {n \in DOMAIN served : Matches(served[n], r)}

TheRoute == served[CHOOSE n \in Matching(req) : TRUE]

At(method, url) ==
  pc = "route" /\ TheRoute.method = method /\ TheRoute.url = url

----------------------------------------------------------------------------
(* Errors and answers                                                      *)

\* Error::status of each class.
status(e) ==
  CASE e \in {"InvalidParamsError", "JsonParseError", "DBError",
              "InvalidAuthTokenError", "InvalidRefreshTokenError"} -> 400
    [] e = "UnauthorizedError" -> 403
    [] e = "NotFoundError" -> 404
    [] e = "OtherError" -> 500

Answer(code, error) == [status |-> code, error |-> error]
Success == Answer(200, NULL)

\* Faulty variant: the clause for std::exception comes first.
CaughtGeneralFirst(e) == Answer(500, "OtherError")

\* The catch clauses of Handler::operator(), in their order.
Caught(e) ==
  CASE e \in ErrorClass -> Answer(status(e), e)
    [] e = "soci_error" -> Answer(500, "DBError")
    [] e \in {"file_error", "std_exception"} -> Answer(500, "OtherError")

Send(a) == pc' = "answered" /\ answer' = a

Throw(e) ==
  /\ Send(Caught(e))
  /\ failed' = (e \in {"soci_error", "file_error"})
  /\ UNCHANGED <<starting, tables, req, model, written>>

Return ==
  /\ Send(Success)
  /\ UNCHANGED <<starting, tables, req, model, written, failed>>

\* Undefined behaviour that ends the process.
Stop ==
  /\ phase' = "stopped"
  /\ UNCHANGED <<argv, it, args, served, registered_routes_info, tables, handling>>

\* The route ends having changed the rows w of the table n.
ReturnHaving(n, rows, w) ==
  /\ Send(Success)
  /\ tables' = [tables EXCEPT ![n] = rows]
  /\ written' = {<<n, i>> : i \in w}
  /\ UNCHANGED <<starting, req, model, failed>>

----------------------------------------------------------------------------
(* The process starts                                                      *)

NoArgs == [address |-> NULL, port |-> NULL, db_config |-> NULL, help |-> FALSE]

AddressFlag == {"--address", "-i"}
PortFlag == {"--port", "-p"}
DbFlag == {"--db", "-d"}
HelpFlag == {"--help", "-h"}

Init ==
  /\ phase = "scan" /\ it = 1 /\ args = NoArgs
  /\ \E n \in 1..MaxWords : argv \in [1..n -> Word]
  /\ served = <<>> /\ registered_routes_info = <<>>
  /\ tables = StoredRows
  /\ pc = "idle" /\ req = NULL /\ model = NULL /\ answer = NULL
  /\ written = {} /\ failed = FALSE

\* Faulty variant: a flag takes the word after it along.
ScanWordSkipping ==
  /\ phase = "scan" /\ it <= Len(argv)
  /\ LET word == argv[it]
     IN  IF it < Len(argv) /\ word \in DbFlag
         THEN args' = [args EXCEPT !.db_config = argv[it + 1]] /\ it' = it + 2
         ELSE args' = [args EXCEPT !.help = @ \/ word \in HelpFlag] /\ it' = it + 1
  /\ UNCHANGED <<phase, argv, served, registered_routes_info, tables, handling>>

\* One step of the loop of parse_cmdline_args.  The word after a flag is its
\* value and is looked at again, as a flag, in the next step.
ScanWord ==
  /\ phase = "scan" /\ it <= Len(argv)
  /\ LET word == argv[it]
         has_next == it < Len(argv)
     IN  args' = CASE has_next /\ word \in AddressFlag ->
                        [args EXCEPT !.address = argv[it + 1]]
                   [] has_next /\ word \in PortFlag ->
                        [args EXCEPT !.port = argv[it + 1]]
                   [] has_next /\ word \in DbFlag ->
                        [args EXCEPT !.db_config = argv[it + 1]]
                   [] OTHER -> [args EXCEPT !.help = @ \/ word \in HelpFlag]
  /\ it' = it + 1
  /\ UNCHANGED <<phase, argv, served, registered_routes_info, tables, handling>>

\* main prints the usage and exits, or goes on.
Scanned ==
  /\ phase = "scan" /\ it > Len(argv)
  /\ phase' = IF args.help \/ Len(argv) <= 1 THEN "exited" ELSE "open"
  /\ UNCHANGED <<argv, it, args, served, registered_routes_info, tables, handling>>

\* Every session of the pool is opened; main catches nothing.  The arguments
\* are not used again but for the address, which the model leaves out.
OpenSessions ==
  /\ phase = "open"
  /\ phase' \in {"register", "stopped"}
  /\ argv' = <<>> /\ it' = 1 /\ args' = NoArgs
  /\ UNCHANGED <<served, registered_routes_info, tables, handling>>

\* Router::add_api_handler, or epr->http_get and http_post.
RegisterRoute ==
  /\ phase = "register" /\ Len(served) < Len(Routes)
  /\ LET route == Routes[Len(served) + 1]
     IN  /\ served' = Append(served, route)
         /\ registered_routes_info' =
              IF route.listed
              THEN Append(registered_routes_info,
                          [method |-> route.method, url |-> route.url,
                           has_id |-> route.has_id,
                           params |-> get_description(route.params)])
              ELSE registered_routes_info
  /\ UNCHANGED <<phase, argv, it, args, tables, handling>>

Run ==
  /\ phase = "register" /\ Len(served) = Len(Routes)
  /\ phase' = "serve"
  /\ UNCHANGED <<argv, it, args, served, registered_routes_info, tables, handling>>

----------------------------------------------------------------------------
(* The Handler                                                             *)

\* A request comes in.
Incoming ==
  /\ phase = "serve" /\ pc = "idle"
  /\ req' \in Sent
  /\ UNCHANGED <<starting, tables, model, written, failed>>

\* non_matched_request_handler.
NoRoute ==
  Incoming /\ Matching(req') = {} /\ Send(Answer(404, "NotFoundError"))

\* The page of register_api_reference_route, which is not a Handler: it prints
\* registered_routes_info.
HelpPage ==
  Incoming /\ Matching(req') # {} /\ req'.url = "help" /\ Send(Success)

\* The router calls the Handler of the route.
Receive ==
  /\ Incoming /\ Matching(req') # {} /\ req'.url # "help"
  /\ pc' = "extract" /\ UNCHANGED answer

\* extract_request_params_model.  A route without parameters does not look at
\* the body; all others are POST and PUT.
Extract ==
  /\ pc = "extract"
  /\ IF TheRoute.params # Empty /\ req.body.kind = "malformed"
     THEN Throw("JsonParseError")
     ELSE /\ pc' = "convert"
          /\ model' = from_json(TheRoute.params, req.body)
          /\ UNCHANGED <<starting, tables, req, answer, written, failed>>

\* nlohmann::json json_req = ...; RequestParamsModel pars(std::move(json_req)).
Convert ==
  /\ pc = "convert"
  /\ pc' = "route"
  /\ model' = from_json(TheRoute.params, to_json(TheRoute.params, model))
  /\ UNCHANGED <<starting, tables, req, answer, written, failed>>

----------------------------------------------------------------------------
(* The routes' functions                                                   *)

\* Why the constructor of AuthorizedModelAccess, or the use of it, throws.
AccessErrors ==
  CASE req.token = "garbage" -> {"std_exception"}
    [] req.token \in {"stale", "refresh"} -> {"soci_error", "InvalidAuthTokenError"}
    [] OTHER -> {"soci_error", "UnauthorizedError"}

Passes == req.token \in {"none", "stored"}

\* The access to a model throws, or what the caller has access to is wrong.
Refuse(more) ==
  \/ \E e \in AccessErrors : Throw(e)
  \/ Passes /\ \E e \in more : Throw(e)

GetList ==
  /\ At("GET", "users") \/ At("GET", "photos") \/ At("GET", "photos_by")
  /\ TheRoute.url = "photos_by" \/ ~TheRoute.has_id
  /\ Refuse({}) \/ (Passes /\ Return)

\* Faulty variant: the answer is taken from a list that may be empty.
GetUserUnchecked ==
  /\ At("GET", "users") /\ TheRoute.has_id
  /\ Refuse({}) \/ (Passes /\ Return)

GetUser ==
  /\ At("GET", "users") /\ TheRoute.has_id
  /\ IF req.id \in tables["users"] THEN Refuse({}) \/ (Passes /\ Return)
                                    ELSE Refuse({"NotFoundError"})

\* back() of a vector that may be empty: then anything is sent, or the process
\* stops.
GetPhoto ==
  /\ At("GET", "photos") /\ TheRoute.has_id
  /\ \/ Refuse({})
     \/ Passes /\ Return
     \/ Passes /\ req.id \notin tables["photos"] /\ Stop

\* Every constraint counts; then there may be duplicates, which is asked in
\* statements of their own before the caller's token is looked at.
PostUser ==
  /\ At("POST", "users")
  /\ IF DOMAIN get_unsatisfied_constraints(User, model) # {}
     THEN Throw("InvalidParamsError")
     ELSE \/ Throw("InvalidParamsError") \/ Throw("soci_error")
          \/ Refuse({})
          \/ /\ Passes
             /\ \E i \in Row \ tables["users"] :
                  ReturnHaving("users", tables["users"] \cup {i}, {i})

\* Faulty variant: the first field with an unsatisfied constraint decides.
RefusedByPutFirst(M) ==
  LET unsatisfied == get_unsatisfied_constraints(M, model)
  IN  \E n \in DOMAIN M :
        /\ M[n].name \in DOMAIN unsatisfied
        /\ \A k \in 1..(n - 1) : M[k].name \notin DOMAIN unsatisfied
        /\ unsatisfied[M[n].name] # {Required}

\* A modification throws at the first constraint that is not Required.
RefusedByPut(M) ==
  LET unsatisfied == get_unsatisfied_constraints(M, model)
  IN  \E f \in DOMAIN unsatisfied : unsatisfied[f] # {Required}

\* The statement has the number of the URL; there may be no row, or nothing to
\* modify.
PutUser ==
  /\ At("PUT", "users")
  /\ IF RefusedByPut(User)
     THEN Throw("InvalidParamsError")
     ELSE \/ Refuse({"InvalidParamsError"})
          \/ Passes /\ ReturnHaving("users", tables["users"], tables["users"] \cap {req.id})

\* The statement has the id of the model, which is an int32_t.
DeleteUser ==
  LET id == Cut(req.id)
  IN  /\ At("DELETE", "users")
      /\ \/ Refuse({"InvalidParamsError"})
         \/ /\ Passes
            /\ ReturnHaving("users", tables["users"] \ {id}, tables["users"] \cap {id})

\* A token is refused without being looked at.  For an unknown name the
\* comparison of the passwords is undefined: it fails or the process stops.  The
\* tables of the tokens are those of LoginSessions.
PostLogin ==
  /\ At("POST", "login")
  /\ IF req.token # "none"
     THEN Throw("UnauthorizedError")
     ELSE IF NULL \in {model["username"], model["password"]}
     THEN Throw("InvalidParamsError")
     ELSE Throw("InvalidParamsError") \/ Throw("soci_error") \/ Return \/ Stop

\* The first part of a multipart body that passes a test, if there is one.  A
\* part has a name, the extension of its file name or NULL, and JSON or a file
\* as its contents.
Parts == IF req.body.kind = "parts" THEN req.body.content ELSE <<>>

FirstPart(Test(_)) ==
  {Parts[n] : n \in {n \in DOMAIN Parts :
                        Test(Parts[n]) /\ \A k \in 1..(n - 1) : ~Test(Parts[k])}}

\* Faulty variant: the part of the file has to be the first of all.
FileFieldAtOnce ==
  {p \in FirstPart(LAMBDA q : TRUE) :
     p.extension # NULL /\ p.name = "file" /\ p.json.kind # "none"}

\* parse_json_field_multiform and parse_file_field_multiform: the first part with
\* json after a name=", whatever follows; the first that is a file, if that is
\* named file and not empty.
JsonField == FirstPart(LAMBDA p : p.begins_json)
FileField ==
  {p \in FirstPart(LAMBDA q : q.extension # NULL) : p.name = "file" /\ p.json.kind # "none"}

\* The photo of an upload: of its JSON and what the route sets.  The upload_time
\* and the uploaded_by of the route have no constraint that could fail.
UploadedPhoto(i) ==
  LET json == CHOOSE p \in JsonField : TRUE
      file == CHOOSE p \in FileField : TRUE
  IN  [from_json(Photo, json.json) EXCEPT !["extension"] = file.extension, !["id"] = i]

MalformedField == \E p \in JsonField : p.json.kind \in {"malformed", "none"}

\* The two parts, the token, the constraints, the files, the INSERT.  A part that
\* is no JSON throws a parse_error, which the Handler does not know.
PostPhoto ==
  /\ At("POST", "photos")
  /\ CASE MalformedField -> Throw("std_exception")
       [] JsonField = {} -> Throw("InvalidParamsError")
       [] OTHER ->
            IF FileField = {}
            THEN Throw("InvalidParamsError")
            ELSE \/ ~Passes /\ Refuse({})
                 \/ /\ Passes
                    /\ \E i \in Random :
                         IF DOMAIN get_unsatisfied_constraints(Photo, UploadedPhoto(i)) # {}
                         THEN Throw("InvalidParamsError") \/ Throw("soci_error")
                         ELSE \/ Refuse({"file_error"})
                              \/ /\ i \notin tables["photos"]
                                 /\ ReturnHaving("photos", tables["photos"] \cup {i}, {i})

\* The photo is read first, and then modified where its id is that of the URL.
PutPhoto ==
  /\ At("PUT", "photos")
  /\ IF RefusedByPut(Photo)
     THEN Throw("InvalidParamsError")
     ELSE \/ Refuse({"InvalidParamsError"})
          \/ /\ Passes /\ req.id \in tables["photos"]
             /\ ReturnHaving("photos", tables["photos"], {req.id})

\* The photo is read, its files go, and then what has the id of the model.
DeletePhoto ==
  LET id == Cut(req.id)
  IN  /\ At("DELETE", "photos")
      /\ \/ Refuse({"InvalidParamsError"})
         \/ req.id \in tables["photos"] /\ Refuse({"file_error"})
         \/ /\ Passes /\ req.id \in tables["photos"]
            /\ ReturnHaving("photos", tables["photos"] \ {id}, tables["photos"] \cap {id})

HelpJson == At("GET", "help_json") /\ Return

Finish ==
  /\ pc = "answered"
  /\ pc' = "idle" /\ req' = NULL /\ model' = NULL /\ answer' = NULL
  /\ written' = {} /\ failed' = FALSE
  /\ UNCHANGED <<starting, tables>>

----------------------------------------------------------------------------

StartUp == ScanWord \/ Scanned \/ OpenSessions \/ RegisterRoute \/ Run

CallRoute ==
  \/ GetList \/ GetUser \/ GetPhoto
  \/ PostUser \/ PutUser \/ DeleteUser \/ PostLogin
  \/ PostPhoto \/ PutPhoto \/ DeletePhoto
  \/ HelpJson

Next ==
  \/ StartUp
  \/ phase = "serve" /\ (NoRoute \/ HelpPage \/ Receive \/ Extract \/ Convert \/ CallRoute \/ Finish)

Spec == Init /\ [][Next]_vars

----------------------------------------------------------------------------
(* Properties                                                              *)

\* The type invariant.
TypeOK ==
  /\ phase \in {"scan", "open", "register", "serve", "exited", "stopped"}
  /\ \A o \in {"address", "port", "db_config"} : args[o] \in Word \cup {NULL}
  /\ served = SubSeq(Routes, 1, Len(served))
  /\ tables \in [{"users", "photos"} -> SUBSET Row]
  /\ pc \in {"idle", "extract", "convert", "route", "answered"}
  /\ pc # "idle" => IsRequest(req)
  /\ model # NULL =>
       \A f \in DOMAIN model :
         model[f] \in (IF FieldOf(TheRoute.params, f).type = "int" THEN Int32 ELSE Text)
                       \cup {NULL}
  /\ (answer # NULL) = (pc = "answered")
  /\ written \subseteq {"users", "photos"} \X Row

\* The words after the last of the flags of an option that are followed by one.
LastAfter(flags) ==
  {argv[k + 1] : k \in {k \in 1..(Len(argv) - 1) :
                          argv[k] \in flags
                          /\ \A l \in (k + 1)..(Len(argv) - 1) : argv[l] \notin flags}}

\* Of every option the last occurrence counts, wherever it stands and whatever
\* word follows it; and whoever asks for help, if only by a value that reads so,
\* gets the usage and no server (parse_cmdline_args and main).
ArgumentsTaken ==
  /\ phase \in {"scan", "exited"} /\ it > Len(argv) =>
       /\ {args.address} \ {NULL} = LastAfter(AddressFlag)
       /\ {args.port} \ {NULL} = LastAfter(PortFlag)
       /\ {args.db_config} \ {NULL} = LastAfter(DbFlag)
       /\ args.help = \E k \in DOMAIN argv : argv[k] \in HelpFlag
  /\ phase = "exited" => args.help \/ Len(argv) = 1

\* What a JSON value says for a field of the type, as an integer of any width
\* or a string, or NULL.
Says(type, j) ==
  CASE type = "string" /\ j.kind = "string" -> j.content
    [] type = "int" /\ j.kind = "string" -> j.content.number
    [] type = "int" /\ j.kind = "number" -> j.content
    [] type = "int" /\ j.kind = "boolean" -> IF j.content THEN 1 ELSE 0
    [] OTHER -> NULL

\* A route gets, in every field, what the body says: through the conversion to
\* a model, back to JSON and to a model again no value is lost, none appears
\* that was not sent, and one that does not fit is left out or, if it is a
\* number, keeps its low bits.
ReadAsSent ==
  pc = "route" =>
    \A f \in DOMAIN model :
      LET sent == req.body.kind = "object" /\ f \in DOMAIN req.body.content
          type == FieldOf(TheRoute.params, f).type
          said == Says(type, req.body.content[f])
      IN  IF ~sent \/ (sent /\ said = NULL) THEN model[f] = NULL
          ELSE IF type = "string" \/ said \in Int32 THEN model[f] = said
          ELSE IF req.body.content[f].kind = "string" THEN model[f] = NULL
          ELSE (said - model[f]) % (2 * Half) = 0

\* The description of a constraint, read as its words say.
Meets(c, v) ==
  CASE c.name = "Length" -> c.from <= v.length /\ v.length <= c.to
    [] c.name = "Between" -> c.from <= v /\ v <= c.to
    [] c.name = "ValidEmail" -> v.mail # "no"
    [] c.name = "ValidPassword" -> v.length >= 8 /\ {"lower", "upper", "digit"} \subseteq v.chars
    [] c.name = "ValidImageExtension" ->
         v.word \in {".jpg", ".jpeg", ".png", ".gif", ".bmp"}
    [] c.name = "ValidCategory" -> v.word \in Category
    [] c.name = "ISOdate" -> v.date # NULL
    [] c.name = "ValidGender" -> v.word = "m" \/ v.word = "f"
    [] OTHER -> TRUE

\* What the reference lists for a route.
Listed(r) ==
  {info \in {registered_routes_info[n] : n \in DOMAIN registered_routes_info} :
     Matches(info, r)}

\* A registration or a modification that is not answered with "Invalid
\* Parameters" has in every field that is set a value that meets all constraints
\* the reference lists for it, as they are described there; a registration has
\* all fields listed as required (routes.hpp, constraint.hpp, /help_json).
AcceptedAsListed ==
  pc = "answered" /\ model # NULL /\ answer.error # "InvalidParamsError" =>
    \A info \in Listed(req) : \A f \in DOMAIN info.params :
      LET cs == info.params[f].cnstr_names
      IN  req.url # "login" =>
            IF model[f] # NULL THEN \A c \in cs : Meets(c, model[f])
                               ELSE req.method = "POST" => Required \notin cs

\* Who is blamed: 500 means that a statement or a file operation failed, or that
\* a token or the JSON of an upload does not decode; 404 that there is no route
\* or no user; 403 is not the answer to a token that is not accepted, except by
\* the login, which accepts none; 400 is never the answer to a GET whose token
\* is accepted; and success needs an accepted token or none (handler.hpp,
\* errors.hpp).
BlameFits ==
  answer # NULL =>
    LET decodes == req.token # "garbage"
        accepted == req.token \in {"none", "stored"}
    IN  /\ failed => answer.status = 500
        /\ answer.status = 500 =>
             failed \/ ~decodes \/ (req.url = "photos" /\ MalformedField)
        /\ answer.status = 404 =>
             Matching(req) = {} \/ (req.url = "users" /\ req.id \notin tables["users"])
        /\ answer.status = 403 => accepted \/ req.url = "login"
        /\ answer.status = 400 => ~(req.method = "GET" /\ accepted)
        /\ answer.status = 200 => accepted \/ req.url \in {"help", "help_json"}

\* The parts named json whose header shows it.
JsonParts == {n \in DOMAIN Parts : Parts[n].name = "json" /\ Parts[n].begins_json}

\* An upload that is told "Invalid Parameters" lacks a part "json" or a file of
\* the name "file", wherever the two stand; or has another file before that one,
\* or before the part "json" one whose name only begins so; or the photo of the
\* two breaks a constraint (utils.hpp).
PartsFound ==
  pc = "answered" /\ req.method = "POST" /\ req.url = "photos"
  /\ answer.error = "InvalidParamsError" =>
       \/ JsonParts = {}
       \/ \A n \in DOMAIN Parts :
            Parts[n].name = "file" /\ Parts[n].extension # NULL =>
              \/ Parts[n].json.kind = "none"
              \/ \E k \in 1..(n - 1) : Parts[k].extension # NULL
       \/ \E n \in DOMAIN Parts \ JsonParts :
            Parts[n].begins_json /\ \A k \in 1..(n - 1) : k \notin JsonParts
       \/ /\ FileField # {} /\ \E p \in JsonField : p.name = "json"
          /\ \E i \in Random : DOMAIN get_unsatisfied_constraints(Photo, UploadedPhoto(i)) # {}

\* A request changes rows only if it is answered with success, and then at most
\* one, that of the id in its URL if there is one, whatever the widths of the
\* id in the URL and in the model; a row that was deleted is gone.
OneRowOrNothing ==
  /\ written # {} => answer = Success
  /\ \A w, x \in written : w = x /\ w[1] = req.url /\ req.id \in {NULL, w[2]}
  /\ pc = "answered" /\ answer = Success /\ req.method = "DELETE" =>
       req.id \notin tables[req.url]

\* A row that is not there is told to the client, except by the page of a photo
\* and by PUT and DELETE of a user; and nothing but the page of a photo that is
\* not there and a login stops the server (back() and the comparison of the
\* passwords, see routes.hpp:93 and actions.hpp:106).
MissingRowsAreTold ==
  /\ pc = "answered" /\ answer = Success =>
       /\ req.method = "GET" /\ req.url = "users" => req.id \in tables["users"] \cup {NULL}
       /\ req.method \in {"PUT", "DELETE"} /\ req.url = "photos" => written # {}
  /\ phase = "stopped" /\ req # NULL =>
       req.url = "login" \/ (req.url = "photos" /\ req.id \notin tables["photos"])
=============================================================================
