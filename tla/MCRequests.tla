----------------------------- MODULE MCRequests -----------------------------
(***************************************************************************)
(* Requests with int32_t of three bits: ids of URLs up to 7, of which 5 is *)
(* -3 as an int32_t, and rows with ids up to 2.                            *)
(***************************************************************************)
EXTENDS Requests

String(word, length, chars, number, date, mail) ==
  [word |-> word, length |-> length, chars |-> chars, number |-> number,
   date |-> date, mail |-> mail]

Name(word, length) == String(word, length, {"lower"}, NULL, NULL, "no")
Address(word, mail) == String(word, 9, {"lower", "other"}, NULL, NULL, mail)
Password(word, length, chars) == String(word, length, chars, NULL, NULL, "no")
Date(word, y, m, d) ==
  String(word, 10, {"digit", "other"}, NULL, <<y, m, d>>, "no")
Numeral(word, n) == String(word, 1, {"digit"}, n, NULL, "no")

Strong == {"lower", "upper", "digit"}

Names == {Name("", 0), Name("u", 1), Name("uu", 2), Name("long", 21)}
Addresses == {Address("u@h.org", "address"), Address("@.", "at_dot")}
Passwords == {Password("Secret123", 9, Strong), Password("Secre12", 7, Strong),
              Password("secret123", 9, {"lower", "digit"}),
              Password("Secret_123", 10, Strong \cup {"other"})}
Dates == {Date("2020-02-31", 2020, 2, 31), Date("2020-13-01", 2020, 13, 1)}
Numerals == {Numeral("2", 2), Numeral("9", 9)}
Words == {Name("m", 1), Name("Nature", 6), Name(".jpg", 4), Name(".JPG", 4)}

MCText ==
  UNION {Names, Addresses, Passwords, Dates, Numerals, Words}

Object(members) == Json("object", members)

\* The body b with the member f changed to one of the values js, or left out.
Varied(b, f, js) ==
  {Object([g \in DOMAIN b \cup {f} |-> IF g = f THEN j ELSE b[g]]) : j \in js}
    \cup {Object([g \in DOMAIN b \ {f} |-> b[g]])}

Texts(S) == {JsonText(s) : s \in S}

Oddities == {Json("null", NULL), Json("array", NULL), JsonNumber(1), Json("boolean", TRUE)}

Registration ==
  [f \in {"username", "password", "email"} |->
     CASE f = "username" -> JsonText(Name("uu", 2))
       [] f = "password" -> JsonText(Password("Secret123", 9, Strong))
       [] f = "email" -> JsonText(Address("u@h.org", "address"))]

NoMembers == [f \in {} |-> NULL]

UserBodies ==
  UNION {Varied(b, "username", Texts(Names) \cup Oddities)
           \cup Varied(b, "password", Texts(Passwords))
           \cup Varied(b, "email", Texts(Addresses))
           \cup Varied(b, "gender", Texts(Words))
           \cup Varied(b, "born", Texts(Dates))
           \cup Varied(b, "firstname", Texts(Names))
           \cup Varied(b, "permission_group",
                       Texts(Numerals) \cup Oddities \cup {JsonNumber(9), JsonNumber(-5), JsonNumber(0)}) :
         b \in {Registration, NoMembers}}

PhotoBody ==
  [f \in {"title", "category", "is_private"} |->
     CASE f = "title" -> JsonText(Name("uu", 2))
       [] f = "category" -> JsonText(Name("Nature", 6))
       [] f = "is_private" -> JsonNumber(0)]

PhotoBodies ==
  Varied(PhotoBody, "title", Texts(Names))
    \cup Varied(PhotoBody, "category", Texts(Words))
    \cup Varied(PhotoBody, "is_private",
                {JsonNumber(n) : n \in {-1, 1, 2, 9}} \cup Oddities \cup Texts(Numerals))
    \cup Varied(PhotoBody, "extension", Texts(Words))

NoObject == {Json("none", NULL), Json("malformed", NULL), JsonNumber(1)}

Tokens == {"none", "garbage", "stored", "stale", "refresh"}

Asking(methods, url, ids, bodies, tokens) ==
  {[method |-> m, url |-> url, id |-> i, body |-> b, token |-> t] :
     m \in methods, i \in ids, b \in bodies, t \in tokens}

\* Multipart bodies: the JSON and the file in both orders, one of them missing,
\* an empty file, a file of another name before and after, two parts "json", a
\* part "json2" and a part "json" whose header does not show it.
Part(name, begins_json, extension, json) ==
  [name |-> name, begins_json |-> begins_json, extension |-> extension, json |-> json]
JsonPart(j) == Part("json", TRUE, NULL, j)
FilePart(e) == Part("file", FALSE, e, Json("contents", NULL))
OtherFile == Part("other", FALSE, Name(".jpg", 4), Json("contents", NULL))
Json2Part == Part("json2", TRUE, NULL, Object(NoMembers))
Unshown == Part("json", FALSE, NULL, Object(PhotoBody))

MultiParts ==
  LET good == JsonPart(Object(PhotoBody))
      jpg == FilePart(Name(".jpg", 4))
  IN  {<<JsonPart(j), jpg>> : j \in PhotoBodies \cup {Json("malformed", NULL), JsonNumber(1)}}
        \cup {<<FilePart(e), good>> : e \in Words}
        \cup {<<good>>, <<jpg>>, <<OtherFile, good, jpg>>, <<good, jpg, OtherFile>>,
              <<good, Part("file", FALSE, Name(".jpg", 4), Json("none", NULL))>>,
              <<good, JsonPart(Json("malformed", NULL)), jpg>>,
              <<JsonPart(Json("malformed", NULL)), good, jpg>>, <<>>,
              <<Json2Part, good, jpg>>, <<good, Json2Part, jpg>>, <<Unshown, jpg>>}

\* Each URL with the ids it may have, with one that is too large and without;
\* bodies where the route reads them.
MCSent ==
  LET none == {Json("none", NULL)}
      ids == {NULL, 1, 2, 5, 8}
  IN  UNION {
        UNION {Asking({"GET", "DELETE"}, url, ids, none, Tokens) :
                 url \in {"users", "photos", "photos_by"}},
        UNION {Asking({"GET"}, url, {NULL}, none, {"none", "garbage"}) :
                 url \in {"login", "help_json", "help"}},
        Asking({"POST"}, "users", {NULL}, UserBodies \cup NoObject, {"none", "garbage", "stored"}),
        Asking({"PUT"}, "users", {1, 5}, UserBodies \cup NoObject, {"stored", "refresh"}),
        Asking({"POST"}, "login", {NULL},
               NoObject \cup {Object(Registration), Object(NoMembers)}, {"none", "stored"}),
        Asking({"POST"}, "photos", {NULL},
               NoObject \cup {Json("parts", ps) : ps \in MultiParts},
               {"none", "stored", "garbage", "stale"}),
        Asking({"PUT"}, "photos", {1, 2}, PhotoBodies \cup NoObject, {"stored"})}

MCWord == {"-i", "--address", "-p", "--port", "-d", "--db", "-h", "--help", "x", "y"}

MCStoredRows == [n \in {"users", "photos"} |-> {1}]
=============================================================================
