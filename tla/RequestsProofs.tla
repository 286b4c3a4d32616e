--------------------------- MODULE RequestsProofs ---------------------------
(***************************************************************************)
(* Proofs about Requests, for any set of requests and of texts, any rows   *)
(* and any width of the integers.                                          *)
(*                                                                         *)
(*   First the operators of Models: conversions of integers, models and    *)
(*   JSON, constraints; then the routes and the first part of a form.      *)
(*   TInv       what the process and the place of the handler say of its   *)
(*              state: from reading the body on, the model is that of it   *)
(*   Ending     how a route may end, and that each of the functions of     *)
(*              routes.hpp ends so                                         *)
(*   AnswerInv  what an answer says of the request: the properties, with   *)
(*              what an accepted model satisfies                           *)
(*   LoopInv    what the loop over the command line has found              *)
(***************************************************************************)
EXTENDS Requests, WellFoundedInduction, TLAPS

----------------------------------------------------------------------------
(* Integers                                                                *)

LEMMA HalfType == Half \in Nat /\ Half > 1
  BY ModelsAssumption

LEMMA Shifted ==
  ASSUME NEW w \in Nat, w > 0, NEW n \in Int, NEW h \in Int
  PROVE  (n - (((n + h) % w) - h)) % w = 0
  OBVIOUS

\* The conversion to an int32_t gives one, which is the number itself if that is
\* one, and differs from it by a multiple of 2^32.
LEMMA CutType ==
  ASSUME NEW n \in Int
  PROVE  /\ Cut(n) \in Int32
         /\ n \in Int32 => Cut(n) = n
         /\ (n - Cut(n)) % (2 * Half) = 0
<1>1. Cut(n) \in Int32
  BY HalfType DEF Cut, Int32
<1>2. n \in Int32 => Cut(n) = n
  BY HalfType DEF Cut, Int32
<1>3. (n - Cut(n)) % (2 * Half) = 0
  <2>1. 2 * Half \in Nat /\ 2 * Half > 0 /\ Half \in Int
    BY HalfType
  <2> QED BY <2>1, Shifted DEF Cut
<1> QED BY <1>1, <1>2, <1>3

\* A uint32_t that is not negative as an int32_t is the same number as one.
LEMMA CutOfId ==
  ASSUME NEW n \in UInt32, Cut(n) \in Nat
  PROVE  Cut(n) = n
<1>1. CASE n < Half
  <2>1. (n + Half) % (2 * Half) = n + Half
    BY <1>1, HalfType DEF UInt32
  <2> QED BY <2>1, HalfType DEF Cut, UInt32
<1>2. CASE n >= Half
  <2>1. (n + Half) % (2 * Half) = n - Half
    BY <1>2, HalfType DEF UInt32
  <2> QED BY <2>1, HalfType DEF Cut, UInt32
<1> QED BY <1>1, <1>2, HalfType DEF UInt32

----------------------------------------------------------------------------
(* Models                                                                  *)

Schema == {User, Photo, UserCredentials, Empty}

Fields(M) == {M[n] : n \in DOMAIN M}

LEMMA FieldOfName ==
  ASSUME NEW M, NEW f \in field_names(M)
  PROVE  FieldOf(M, f) \in Fields(M) /\ FieldOf(M, f).name = f
<1>1. \E d \in Fields(M) : d.name = f
  BY DEF field_names, Fields
<1> QED BY <1>1 DEF FieldOf, Fields

\* What the constraints of an int and of a string can be.
OfInt == {Unique, Required, Between(0, 1)}

OfText(c) ==
  /\ c.from \in Int /\ c.to \in Int
  /\ c.name \in {"Required", "Unique", "Length", "ValidEmail", "ValidPassword",
                 "ValidImageExtension", "ValidCategory", "ISOdate", "ValidGender"}

FieldOK(d) ==
  \/ d.type = "int" /\ d.cnstr_list \subseteq OfInt
  \/ d.type = "string" /\ \A c \in d.cnstr_list : OfText(c)

LEMMA FieldsOK == \A M \in Schema : \A d \in Fields(M) : FieldOK(d)
<1> USE DEF Constraint, Length, Between, Plain, Required, Unique, IntField, TextField,
            ModelField, FieldOK, OfInt, OfText
<1>1. \A d \in Fields(User) : FieldOK(d)
  <2>1. \A a, b, c, d, e, f, g, h, i, j, k : \A n \in 1..11 :
          <<a, b, c, d, e, f, g, h, i, j, k>>[n] \in {a, b, c, d, e, f, g, h, i, j, k}
    OBVIOUS
  <2> QED BY <2>1 DEF Fields, User
<1>2. \A d \in Fields(Photo) : FieldOK(d)
  <2>1. \A a, b, c, d, e, f, g, h : \A n \in 1..8 :
          <<a, b, c, d, e, f, g, h>>[n] \in {a, b, c, d, e, f, g, h}
    OBVIOUS
  <2> QED BY <2>1 DEF Fields, Photo
<1>3. \A d \in Fields(UserCredentials) : FieldOK(d)
  BY DEF Fields, UserCredentials
<1>4. \A d \in Fields(Empty) : FieldOK(d)
  BY DEF Fields, Empty
<1> QED BY <1>1, <1>2, <1>3, <1>4 DEF Schema

\* The values a model can have: of every field one of its type, or NULL.
ValueOf(d) == (IF d.type = "int" THEN Int32 ELSE Text) \cup {NULL}

IsModel(M, m) ==
  /\ m = [f \in field_names(M) |-> m[f]]
  /\ \A f \in field_names(M) : m[f] \in ValueOf(FieldOf(M, f))

LEMMA ConvertedType ==
  ASSUME NEW d, FieldOK(d), NEW j, IsValue(j)
  PROVE  Converted(d.type, j) \in ValueOf(d)
<1>1. CASE j.kind = "string"
  <2>1. lexical_cast(j.content) \in Int32 \cup {NULL}
    BY DEF lexical_cast
  <2> QED BY <1>1, <2>1 DEF Converted, FieldOK, IsValue, ValueOf
<1>2. CASE j.kind = "number"
  BY <1>2, CutType DEF Converted, FieldOK, IsValue, ValueOf
<1>3. CASE j.kind = "boolean"
  BY <1>3, HalfType DEF Converted, FieldOK, IsValue, ValueOf, Int32
<1>4. CASE j.kind \notin {"string", "number", "boolean"}
  BY <1>4 DEF Converted, ValueOf
<1> QED BY <1>1, <1>2, <1>3, <1>4

\* Whatever JSON is read, the model has values of the types of its fields.
LEMMA FromJsonIsModel ==
  ASSUME NEW M \in Schema, NEW j, IsJson(j)
  PROVE  IsModel(M, from_json(M, j))
<1> SUFFICES ASSUME NEW f \in field_names(M)
             PROVE  from_json(M, j)[f] \in ValueOf(FieldOf(M, f))
  BY DEF IsModel, from_json
<1>1. FieldOK(FieldOf(M, f))
  BY FieldOfName, FieldsOK
<1>2. CASE j.kind = "object" /\ f \in DOMAIN j.content
  <2>1. from_json(M, j)[f] = Converted(FieldOf(M, f).type, j.content[f])
    BY <1>2 DEF from_json
  <2> QED BY <1>1, <1>2, <2>1, ConvertedType DEF IsJson
<1>3. CASE ~(j.kind = "object" /\ f \in DOMAIN j.content)
  BY <1>3 DEF from_json, ValueOf
<1> QED BY <1>2, <1>3

\* A value of a field comes back from JSON as it was.
LEMMA ValueRoundTrip ==
  ASSUME NEW M \in Schema, NEW f \in field_names(M),
         NEW v \in ValueOf(FieldOf(M, f)), v # NULL
  PROVE  Converted(FieldOf(M, f).type, ValueToJson(M, f, v)) = v
<1>1. FieldOK(FieldOf(M, f))
  BY FieldOfName, FieldsOK
<1>2. CASE FieldOf(M, f).type = "int"
  <2>1. v \in Int /\ Cut(v) = v
    BY <1>2, CutType, HalfType DEF ValueOf, Int32
  <2> QED BY <1>2, <2>1 DEF Converted, ValueToJson, JsonNumber, Json
<1>3. CASE FieldOf(M, f).type = "string"
  BY <1>3 DEF Converted, ValueToJson, JsonText, Json
<1> QED BY <1>1, <1>2, <1>3 DEF FieldOK

\* A model comes back from JSON as it was.
LEMMA RoundTrip ==
  ASSUME NEW M \in Schema, NEW m, IsModel(M, m)
  PROVE  from_json(M, to_json(M, m)) = m
<1> DEFINE set == {f \in field_names(M) : m[f] # NULL}
<1>1. CASE set = {}
  <2>1. to_json(M, m) = Json("null", NULL)
    BY <1>1 DEF to_json
  <2>2. from_json(M, to_json(M, m)) = [f \in field_names(M) |-> NULL]
    BY <2>1 DEF from_json, Json
  <2> QED BY <1>1, <2>2 DEF IsModel
<1>2. CASE set # {}
  <2>1. to_json(M, m) = Json("object", [f \in set |-> ValueToJson(M, f, m[f])])
    BY <1>2 DEF to_json
  <2>2. /\ to_json(M, m).kind = "object"
        /\ to_json(M, m).content = [f \in set |-> ValueToJson(M, f, m[f])]
    BY <2>1 DEF Json
  <2>3. ASSUME NEW f \in field_names(M)
        PROVE  from_json(M, to_json(M, m))[f] = m[f]
    <3>1. CASE f \in set
      <4>1. from_json(M, to_json(M, m))[f]
              = Converted(FieldOf(M, f).type, ValueToJson(M, f, m[f]))
        BY <2>2, <3>1 DEF from_json
      <4> QED BY <3>1, <4>1, ValueRoundTrip DEF IsModel
    <3>2. CASE f \notin set
      BY <2>2, <3>2 DEF from_json
    <3> QED BY <3>1, <3>2
  <2>4. from_json(M, to_json(M, m))
          = [f \in field_names(M) |-> from_json(M, to_json(M, m))[f]]
    BY DEF from_json
  <2> QED BY <2>3, <2>4 DEF IsModel
<1> QED BY <1>1, <1>2

----------------------------------------------------------------------------
(* Constraints                                                             *)

LEMMA Wide ==
  ASSUME NEW h \in Nat, h > 1
  PROVE  (2 * h) * (2 * h) \in Nat /\ (2 * h) * (2 * h) >= 4 * h
<1>1. h * h \in Nat /\ h * h >= h
  OBVIOUS
<1>2. (2 * h) * (2 * h) = 4 * (h * h)
  OBVIOUS
<1> QED BY <1>1, <1>2

LEMMA Remainder ==
  ASSUME NEW w \in Nat, NEW h \in Nat, h > 1, w >= 4 * h, NEW v \in (-h)..(h - 1),
         v % w \in 0..1
  PROVE  v \in 0..1
<1>1. CASE v >= 0
  <2>1. v % w = v
    BY <1>1
  <2> QED BY <2>1
<1>2. CASE v < 0
  <2>1. v % w = v + w
    BY <1>2
  <2> QED BY <2>1
<1> QED BY <1>1, <1>2

\* A value that satisfies a constraint of its field meets the description of
\* the constraint.
LEMMA SatisfiedMeets ==
  ASSUME NEW d, FieldOK(d), NEW v \in ValueOf(d), v # NULL, NEW c \in d.cnstr_list,
         is_satisfied(c, v)
  PROVE  Meets(c, v)
<1>1. CASE d.type = "int"
  <2>1. c \in OfInt /\ v \in Int32
    BY <1>1 DEF FieldOK, ValueOf
  <2>2. CASE c \in {Unique, Required}
    BY <2>2 DEF Unique, Required, Plain, Constraint, Meets
  <2>3. CASE c = Between(0, 1)
    <3>1. c.name = "Between" /\ c.from = 0 /\ c.to = 1
      BY <2>3 DEF Between, Constraint
    <3>2. v % UnsignedLong \in 0..1
      BY <3>1 DEF is_satisfied
    <3>3. v \in 0..1
      BY <2>1, <3>2, HalfType, Wide, Remainder DEF UnsignedLong, Int32
    <3> QED BY <3>1, <3>3 DEF Meets
  <2> QED BY <2>1, <2>2, <2>3 DEF OfInt
<1>2. CASE d.type = "string"
  <2>1. OfText(c) /\ IsText(v)
    BY <1>2, ModelsAssumption DEF FieldOK, ValueOf
  <2>2. CASE c.name \in {"Required", "Unique"}
    BY <2>2 DEF Meets
  <2>3. CASE c.name = "Length"
    BY <2>1, <2>3 DEF is_satisfied, Meets, OfText, IsText
  <2>4. CASE c.name \in {"ValidEmail", "ValidPassword"}
    BY <2>4 DEF is_satisfied, Meets
  <2>5. CASE c.name \in {"ValidImageExtension", "ValidCategory"}
    BY <2>5 DEF is_satisfied, Meets
  <2>6. CASE c.name = "ISOdate"
    BY <2>6 DEF is_satisfied, Meets
  <2>7. CASE c.name = "ValidGender"
    BY <2>7 DEF is_satisfied, Meets
  <2> QED BY <2>1, <2>2, <2>3, <2>4, <2>5, <2>6, <2>7 DEF OfText
<1> QED BY <1>1, <1>2 DEF FieldOK

\* What is known of a model that a registration or a modification accepts.
Accepted(M, m) ==
  \A f \in field_names(M) : m[f] # NULL =>
    \A c \in FieldOf(M, f).cnstr_list : Meets(c, m[f])

Complete(M, m) ==
  \A f \in field_names(M) : m[f] = NULL => Required \notin FieldOf(M, f).cnstr_list

LEMMA WithoutUnsatisfied ==
  ASSUME NEW M \in Schema, NEW m, IsModel(M, m),
         DOMAIN get_unsatisfied_constraints(M, m) = {}
  PROVE  Accepted(M, m) /\ Complete(M, m)
<1>1. ASSUME NEW f \in field_names(M)
      PROVE  unsatisfied_constraints(FieldOf(M, f), m[f]) = {}
  BY DEF get_unsatisfied_constraints
<1>2. ASSUME NEW f \in field_names(M), m[f] # NULL, NEW c \in FieldOf(M, f).cnstr_list
      PROVE  Meets(c, m[f])
  <2>1. is_satisfied(c, m[f])
    BY <1>1, <1>2 DEF unsatisfied_constraints
  <2>2. FieldOK(FieldOf(M, f)) /\ m[f] \in ValueOf(FieldOf(M, f))
    BY FieldOfName, FieldsOK DEF IsModel
  <2> QED BY <1>2, <2>1, <2>2, SatisfiedMeets
<1>3. ASSUME NEW f \in field_names(M), m[f] = NULL
      PROVE  Required \notin FieldOf(M, f).cnstr_list
  BY <1>1, <1>3 DEF unsatisfied_constraints
<1> QED BY <1>2, <1>3 DEF Accepted, Complete

LEMMA NotRefusedByPut ==
  ASSUME NEW M \in Schema, IsModel(M, model), ~RefusedByPut(M)
  PROVE  Accepted(M, model)
<1> SUFFICES ASSUME NEW f \in field_names(M), model[f] # NULL,
                    NEW c \in FieldOf(M, f).cnstr_list
             PROVE  Meets(c, model[f])
  BY DEF Accepted
<1> DEFINE cs == unsatisfied_constraints(FieldOf(M, f), model[f])
<1>1. cs \in {{}, {Required}}
  BY DEF RefusedByPut, get_unsatisfied_constraints
<1>2. Required \notin cs
  BY DEF unsatisfied_constraints, is_satisfied, Required, Plain, Constraint
<1>3. is_satisfied(c, model[f])
  BY <1>1, <1>2 DEF unsatisfied_constraints
<1>4. FieldOK(FieldOf(M, f)) /\ model[f] \in ValueOf(FieldOf(M, f))
  BY FieldOfName, FieldsOK DEF IsModel
<1> QED BY <1>3, <1>4, SatisfiedMeets

----------------------------------------------------------------------------
(* Routes                                                                  *)

RouteSet ==
  {Api("GET", "users", Empty), ApiId("GET", "users", Empty),
   Api("POST", "users", User), ApiId("PUT", "users", User),
   ApiId("DELETE", "users", Empty), Api("POST", "login", UserCredentials),
   Api("GET", "photos", Empty), ApiId("GET", "photos", Empty),
   ApiId("GET", "photos_by", Empty), Route("POST", "photos", FALSE, Empty, FALSE),
   ApiId("PUT", "photos", Photo), ApiId("DELETE", "photos", Empty),
   Api("GET", "help_json", Empty), Route("GET", "help", FALSE, Empty, FALSE)}

LEMMA RoutesAre ==
  /\ Routes \in Seq(RouteSet) /\ DOMAIN Routes = 1..14 /\ Len(Routes) = 14
  /\ \A n \in 1..14 : Routes[n] \in RouteSet
<1>1. \A a, b, c, d, e, f, g, h, i, j, k, l, m, o :
        <<a, b, c, d, e, f, g, h, i, j, k, l, m, o>>
          \in Seq({a, b, c, d, e, f, g, h, i, j, k, l, m, o})
  OBVIOUS
<1>2. Routes \in Seq(RouteSet)
  BY <1>1 DEF RouteSet, Routes
<1>3. Len(Routes) = 14
  BY DEF Routes
<1> QED BY <1>2, <1>3

\* Only routes with POST and PUT have parameters; DELETE and PUT name a row,
\* POST does not.
LEMMA RouteFacts ==
  ASSUME NEW r \in RouteSet
  PROVE  /\ r.params \in Schema
         /\ r.method \in {"GET", "POST", "PUT", "DELETE"}
         /\ r.method \in {"GET", "DELETE"} => r.params = Empty
         /\ r.method \in {"PUT", "DELETE"} => r.has_id /\ r.url \in {"users", "photos"}
         /\ r.method = "POST" => ~r.has_id /\ r.url \in {"users", "photos", "login"}
         /\ r.method \in {"POST", "PUT"} /\ r.url = "users" => r.params = User
         /\ r.method = "POST" /\ r.url = "login" => r.params = UserCredentials
         /\ r.method = "PUT" /\ r.url = "photos" => r.params = Photo
         /\ r.method = "POST" /\ r.url = "photos" => ~r.listed /\ r.params = Empty
<1> USE DEF RouteSet, Route, Api, ApiId
<1>1. r.params \in Schema
  BY DEF Schema
<1>2. r.method \in {"GET", "POST", "PUT", "DELETE"}
  OBVIOUS
<1>3. r.method \in {"GET", "DELETE"} => r.params = Empty
  OBVIOUS
<1>4. r.method \in {"PUT", "DELETE"} => r.has_id /\ r.url \in {"users", "photos"}
  OBVIOUS
<1>5. r.method = "POST" => ~r.has_id /\ r.url \in {"users", "photos", "login"}
  OBVIOUS
<1>6. r.method \in {"POST", "PUT"} /\ r.url = "users" => r.params = User
  OBVIOUS
<1>7. /\ r.method = "POST" /\ r.url = "login" => r.params = UserCredentials
      /\ r.method = "PUT" /\ r.url = "photos" => r.params = Photo
      /\ r.method = "POST" /\ r.url = "photos" => ~r.listed /\ r.params = Empty
  OBVIOUS
<1> QED BY ONLY <1>1, <1>2, <1>3, <1>4, <1>5, <1>6, <1>7

\* Routes of the same method and URL have the same parameters.
LEMMA SameParams ==
  ASSUME NEW r \in RouteSet, NEW s \in RouteSet, r.method = s.method, r.url = s.url
  PROVE  r.params = s.params
  BY RouteFacts

----------------------------------------------------------------------------
(* Forms                                                                   *)

LEMMA Least ==
  ASSUME NEW T \in SUBSET Nat, T # {}
  PROVE  \E m \in T : \A n \in T : m <= n
<1>1. \E m \in T : \A n \in T : <<n, m>> \notin OpToRel(<, Nat)
  BY NatLessThanWellFounded, WFMin
<1>2. \A m, n \in Nat : <<n, m>> \notin OpToRel(<, Nat) => m <= n
  BY DEF OpToRel
<1> QED BY <1>1, <1>2

\* If no part is taken for the JSON, none shows the name.
LEMMA JsonMissing ==
  ASSUME IsRequest(req), JsonField = {}
  PROVE  JsonParts = {}
<1> SUFFICES ASSUME NEW n \in DOMAIN Parts, Parts[n].begins_json PROVE FALSE
  BY DEF JsonParts
<1> DEFINE T == {k \in DOMAIN Parts : Parts[k].begins_json}
<1>1. DOMAIN Parts \subseteq Nat /\ \A k \in DOMAIN Parts : 1..k \subseteq DOMAIN Parts
  BY DEF IsRequest, Parts
<1>2. PICK m \in T : \A k \in T : m <= k
  <2>1. T \in SUBSET Nat /\ T # {}
    BY <1>1
  <2> HIDE DEF T
  <2> QED BY <2>1, Least
<1>3. \A k \in 1..(m - 1) : k \in DOMAIN Parts /\ ~(k \in T)
  BY <1>1, <1>2
<1>4. Parts[m] \in JsonField
  BY <1>2, <1>3 DEF JsonField, FirstPart
<1> QED BY <1>4

\* A part that is taken for the JSON and is not named so stands before every one
\* that is and shows it.
LEMMA JsonDecoy ==
  ASSUME JsonField # {}, \A p \in JsonField : p.name # "json"
  PROVE  \E n \in DOMAIN Parts \ JsonParts :
           Parts[n].begins_json /\ \A k \in 1..(n - 1) : k \notin JsonParts
<1>1. PICK n \in DOMAIN Parts :
        /\ Parts[n] \in JsonField /\ Parts[n].begins_json
        /\ \A k \in 1..(n - 1) : ~Parts[k].begins_json
  BY DEF JsonField, FirstPart
<1> QED BY <1>1 DEF JsonParts

\* If no part is taken for the file, a file named so comes after another file or
\* is empty.
LEMMA FileMissing ==
  ASSUME FileField = {}, NEW n \in DOMAIN Parts,
         Parts[n].name = "file", Parts[n].extension # NULL
  PROVE  \/ Parts[n].json.kind = "none"
         \/ \E k \in 1..(n - 1) : Parts[k].extension # NULL
<1> SUFFICES ASSUME Parts[n].json.kind # "none",
                    \A k \in 1..(n - 1) : Parts[k].extension = NULL
             PROVE  Parts[n] \in FileField
  OBVIOUS
<1> QED BY DEF FileField, FirstPart

----------------------------------------------------------------------------
(* The state                                                               *)

\* The routes registered so far are the first ones, and what is listed in the
\* reference are some of them; a request is handled only when all are there.
Info(route) ==
  [method |-> route.method, url |-> route.url, has_id |-> route.has_id,
   params |-> get_description(route.params)]

RoutesInv ==
  /\ served \in Seq(RouteSet) /\ Len(served) <= 14
  /\ \A n \in 1..Len(served) : served[n] = Routes[n]
  /\ phase = "serve" \/ pc # "idle" => Len(served) = 14
  /\ pc # "idle" => phase \in {"serve", "stopped"}
  /\ registered_routes_info \in Seq({Info(r) : r \in RouteSet})

ArgsInv ==
  /\ argv \in Seq(Word) /\ it \in Nat \ {0}
  /\ args \in [address : Word \cup {NULL}, port : Word \cup {NULL},
               db_config : Word \cup {NULL}, help : BOOLEAN]

\* The request, its model and its answer by the place of the handler.
FromBody == model = from_json(TheRoute.params, req.body)

RequestInv ==
  /\ phase \in {"scan", "open", "register", "serve", "exited", "stopped"}
  /\ pc \in {"idle", "extract", "convert", "route", "answered"}
  /\ tables \in [{"users", "photos"} -> SUBSET Row]
  /\ written \subseteq {"users", "photos"} \X Row
  /\ pc # "idle" => IsRequest(req)
  /\ pc = "idle" => req = NULL
  /\ pc \in {"idle", "extract"} => model = NULL
  /\ pc \in {"convert", "route"} \/ model # NULL => FromBody
  /\ pc \in {"extract", "convert", "route"} \/ model # NULL => Matching(req) # {}
  /\ pc \in {"extract", "convert", "route"} => req.url # "help"
  /\ pc # "answered" => answer = NULL /\ written = {} /\ failed = FALSE
  /\ pc = "answered" => answer \in [status : Nat, error : ErrorClass \cup {NULL}]

TInv == RoutesInv /\ ArgsInv /\ RequestInv

LEMMA RouteFrame ==
  ASSUME UNCHANGED <<served, req>>
  PROVE  /\ TheRoute' = TheRoute /\ Matching(req)' = Matching(req)
         /\ Parts' = Parts
  BY DEF TheRoute, Matching, Parts

LEMMA RouteOf ==
  ASSUME RoutesInv, NEW q, Len(served) = 14, Matching(q) # {}
  PROVE  /\ \A n \in Matching(q) : served[n] \in RouteSet /\ Matches(served[n], q)
         /\ served[CHOOSE n \in Matching(q) : TRUE] \in RouteSet
         /\ Matches(served[CHOOSE n \in Matching(q) : TRUE], q)
<1>1. \A n \in DOMAIN served : served[n] \in RouteSet
  BY RoutesAre DEF RoutesInv
<1>2. (CHOOSE n \in Matching(q) : TRUE) \in Matching(q)
  OBVIOUS
<1> QED BY <1>1, <1>2 DEF Matching

\* A request that is handled has a route, which is one of those of the program.
LEMMA TheRouteOf ==
  ASSUME TInv, pc # "idle", Matching(req) # {}
  PROVE  TheRoute \in RouteSet /\ Matches(TheRoute, req)
  BY RouteOf DEF TInv, RoutesInv, TheRoute

LEMMA InitTInv == Init => TInv
<1> SUFFICES ASSUME Init PROVE TInv
  OBVIOUS
<1>1. RoutesInv
  BY DEF Init, RoutesInv
<1>2. ArgsInv
  <2>1. PICK n \in 1..MaxWords : argv \in [1..n -> Word]
    BY DEF Init
  <2>2. argv \in Seq(Word)
    BY <2>1, RequestsAssumption
  <2> QED BY <2>2 DEF Init, ArgsInv, NoArgs
<1>3. RequestInv
  BY RequestsAssumption DEF Init, RequestInv
<1> QED BY <1>1, <1>2, <1>3 DEF TInv

----------------------------------------------------------------------------
(* The process starts                                                      *)

\* While the process starts there is no request.
LEMMA StartUpFrame ==
  ASSUME TInv, StartUp
  PROVE  /\ pc = "idle" /\ model = NULL
         /\ UNCHANGED <<tables, handling>>
         /\ phase' \in {"scan", "open", "register", "serve", "exited", "stopped"}
<1>1. phase \in {"scan", "open", "register"}
  BY DEF StartUp, ScanWord, Scanned, OpenSessions, RegisterRoute, Run
<1>2. pc = "idle"
  BY <1>1 DEF TInv, RoutesInv
<1>3. UNCHANGED <<tables, handling>>
  BY DEF StartUp, ScanWord, Scanned, OpenSessions, RegisterRoute, Run
<1>4. phase' \in {"scan", "open", "register", "serve", "exited", "stopped"}
  BY DEF StartUp, ScanWord, Scanned, OpenSessions, RegisterRoute, Run, TInv, RequestInv
<1> QED BY <1>2, <1>3, <1>4 DEF TInv, RequestInv

LEMMA StartUpTInv ==
  ASSUME TInv, StartUp
  PROVE  TInv'
<1>1. pc = "idle" /\ UNCHANGED <<tables, handling>>
  BY StartUpFrame
<1>2. RequestInv'
  BY <1>1, StartUpFrame DEF TInv, RequestInv, handling
<1>3. ArgsInv'
  <2>1. CASE ScanWord
    <3>1. it \in 1..Len(argv) /\ argv[it] \in Word
          /\ (it < Len(argv) => argv[it + 1] \in Word)
      BY <2>1 DEF ScanWord, TInv, ArgsInv
    <3>2. args' \in [address : Word \cup {NULL}, port : Word \cup {NULL},
                     db_config : Word \cup {NULL}, help : BOOLEAN]
      BY <2>1, <3>1 DEF ScanWord, TInv, ArgsInv
    <3> QED BY <2>1, <3>1, <3>2 DEF ScanWord, TInv, ArgsInv
  <2>2. CASE OpenSessions
    BY <2>2 DEF OpenSessions, ArgsInv, NoArgs
  <2>3. CASE Scanned \/ RegisterRoute \/ Run
    BY <2>3 DEF Scanned, RegisterRoute, Run, TInv, ArgsInv
  <2> QED BY <2>1, <2>2, <2>3 DEF StartUp
<1>4. RoutesInv'
  <2>1. CASE RegisterRoute
    <3> DEFINE n == Len(served) + 1
    <3>1. n \in 1..14 /\ Routes[n] \in RouteSet /\ Len(served) \in Nat
      BY <2>1, RoutesAre DEF RegisterRoute, TInv, RoutesInv
    <3>2. served \in Seq(RouteSet)
      BY DEF TInv, RoutesInv
    <3>3. served' = Append(served, Routes[n])
      BY <2>1 DEF RegisterRoute
    <3>4. /\ served' \in Seq(RouteSet) /\ Len(served') = n /\ served'[n] = Routes[n]
          /\ \A k \in 1..Len(served) : served'[k] = served[k]
      BY <3>1, <3>2, <3>3
    <3>5. \A k \in 1..Len(served') : served'[k] = Routes[k]
      BY <3>1, <3>4 DEF TInv, RoutesInv
    <3>6. registered_routes_info' \in Seq({Info(r) : r \in RouteSet})
      <4>1. \/ registered_routes_info' = registered_routes_info
            \/ registered_routes_info' = Append(registered_routes_info, Info(Routes[n]))
        BY <2>1 DEF RegisterRoute, Info
      <4>2. Info(Routes[n]) \in {Info(r) : r \in RouteSet}
        BY <3>1
      <4> QED BY <4>1, <4>2 DEF TInv, RoutesInv
    <3> QED BY <1>1, <2>1, <3>1, <3>4, <3>5, <3>6 DEF RegisterRoute, RoutesInv, handling, TInv
  <2>2. CASE Run
    BY <1>1, <2>2, RoutesAre DEF Run, TInv, RoutesInv, handling
  <2>3. CASE ScanWord \/ Scanned \/ OpenSessions
    BY <1>1, <2>3 DEF ScanWord, Scanned, OpenSessions, TInv, RoutesInv, handling
  <2> QED BY <2>1, <2>2, <2>3 DEF StartUp
<1> QED BY <1>2, <1>3, <1>4 DEF TInv

----------------------------------------------------------------------------
(* How a route ends                                                        *)

Undone == {"soci_error", "file_error", "std_exception"}
Refused == {"InvalidParamsError", "JsonParseError", "InvalidAuthTokenError"}
Thrown == Undone \cup Refused \cup {"UnauthorizedError", "NotFoundError"}

LEMMA CaughtFacts ==
  ASSUME NEW e \in Thrown
  PROVE  /\ Caught(e) \in [status : Nat, error : ErrorClass \cup {NULL}]
         /\ Caught(e).status = 500 <=> e \in Undone
         /\ Caught(e).status = 400 <=> e \in Refused
         /\ Caught(e).status = 403 <=> e = "UnauthorizedError"
         /\ Caught(e).status = 404 <=> e = "NotFoundError"
         /\ Caught(e).status # 200
         /\ Caught(e).error = "InvalidParamsError" <=> e = "InvalidParamsError"
<1>1. Caught("soci_error") = [status |-> 500, error |-> "DBError"]
  BY DEF Caught, ErrorClass, Answer
<1>2. ASSUME e \in {"file_error", "std_exception"}
      PROVE  Caught(e) = [status |-> 500, error |-> "OtherError"]
  BY <1>2 DEF Caught, ErrorClass, Answer
<1>3. ASSUME e \in Refused
      PROVE  Caught(e) = [status |-> 400, error |-> e]
  <2>1. Caught("InvalidParamsError") = [status |-> 400, error |-> "InvalidParamsError"]
    BY DEF Caught, ErrorClass, Answer, status
  <2>2. Caught("JsonParseError") = [status |-> 400, error |-> "JsonParseError"]
    BY DEF Caught, ErrorClass, Answer, status
  <2>3. Caught("InvalidAuthTokenError") = [status |-> 400, error |-> "InvalidAuthTokenError"]
    BY DEF Caught, ErrorClass, Answer, status
  <2> HIDE DEF Caught
  <2> QED BY <1>3, <2>1, <2>2, <2>3 DEF Refused
<1>4. Caught("UnauthorizedError") = [status |-> 403, error |-> "UnauthorizedError"]
  <2>1. status("UnauthorizedError") = 403
    BY DEF status
  <2> QED BY <2>1 DEF Caught, ErrorClass, Answer
<1>5. Caught("NotFoundError") = [status |-> 404, error |-> "NotFoundError"]
  <2>1. status("NotFoundError") = 404
    BY DEF status
  <2> QED BY <2>1 DEF Caught, ErrorClass, Answer
<1> HIDE DEF Caught
<1>6. CASE e = "soci_error"
  BY <1>1, <1>6 DEF Undone, Refused, ErrorClass
<1>7. CASE e \in {"file_error", "std_exception"}
  BY <1>2, <1>7 DEF Undone, Refused, ErrorClass
<1>8. CASE e \in Refused
  BY <1>3, <1>8 DEF Undone, Refused, ErrorClass
<1>9. CASE e = "UnauthorizedError"
  BY <1>4, <1>9 DEF Undone, Refused, ErrorClass
<1>10. CASE e = "NotFoundError"
  BY <1>5, <1>10 DEF Undone, Refused, ErrorClass
<1> QED BY <1>6, <1>7, <1>8, <1>9, <1>10 DEF Thrown, Undone

LEMMA SuccessFacts ==
  /\ Success \in [status : Nat, error : ErrorClass \cup {NULL}]
  /\ Success.status = 200 /\ Success.error = NULL
  BY DEF Success, Answer

\* What a route has done when it ends: with what it throws, or returns.
Accepts ==
  TheRoute.listed /\ req.url # "login" =>
    /\ Accepted(TheRoute.params, model)
    /\ req.method = "POST" => Complete(TheRoute.params, model)

LacksParts ==
  \/ JsonParts = {}
  \/ \A n \in DOMAIN Parts :
       Parts[n].name = "file" /\ Parts[n].extension # NULL =>
         \/ Parts[n].json.kind = "none"
         \/ \E k \in 1..(n - 1) : Parts[k].extension # NULL
  \/ \E n \in DOMAIN Parts \ JsonParts :
       Parts[n].begins_json /\ \A k \in 1..(n - 1) : k \notin JsonParts
  \/ /\ FileField # {} /\ \E p \in JsonField : p.name = "json"
     /\ \E i \in Random : DOMAIN get_unsatisfied_constraints(Photo, UploadedPhoto(i)) # {}

MayThrow(e) ==
  /\ e \in Thrown
  /\ e \in Undone =>
       \/ e # "std_exception" \/ req.token = "garbage"
       \/ req.url = "photos" /\ MalformedField
  /\ e \in Refused => ~(req.method = "GET" /\ Passes)
  /\ e = "UnauthorizedError" => Passes \/ req.url = "login"
  /\ e = "NotFoundError" => req.url = "users" /\ req.id \notin tables["users"]
  /\ e = "InvalidParamsError" /\ req.method = "POST" /\ req.url = "photos" => LacksParts
  /\ e # "InvalidParamsError" => Accepts

MayReturn ==
  /\ Passes \/ req.url = "help_json"
  /\ req.method = "GET" /\ req.url = "users" => req.id \in tables["users"] \cup {NULL}
  /\ req.method = "GET" \/ req.url = "login"
  /\ Accepts

MayReturnHaving(rows, w) ==
  /\ Passes /\ req.method \in {"POST", "PUT", "DELETE"}
  /\ req.url \in {"users", "photos"} /\ rows \in SUBSET Row /\ w \in SUBSET Row
  /\ \A i, j \in w : i = j /\ req.id \in {NULL, i}
  /\ req.method = "DELETE" => req.id \notin rows
  /\ req.method \in {"PUT", "DELETE"} /\ req.url = "photos" => w # {}
  /\ Accepts

Ending ==
  \/ \E e : MayThrow(e) /\ Throw(e)
  \/ MayReturn /\ Return
  \/ \E rows, w : MayReturnHaving(rows, w) /\ ReturnHaving(req.url, rows, w)
  \/ /\ req.url = "login" \/ (req.url = "photos" /\ req.id \notin tables["photos"])
     /\ Stop

LEMMA EmptyAccepts ==
  ASSUME TheRoute.params = Empty
  PROVE  Accepts
  BY DEF Accepts, Accepted, Complete, field_names, Empty

\* Using a model that the caller may have no access to ends so, if its own
\* exceptions are justified.
LEMMA RefuseEnds ==
  ASSUME IsRequest(req), Accepts, NEW more \in SUBSET Thrown, Refuse(more),
         \A e \in more : Passes => MayThrow(e)
  PROVE  Ending
<1>1. ASSUME NEW e \in AccessErrors
      PROVE  MayThrow(e)
  <2>1. CASE req.token = "garbage"
    BY <1>1, <2>1 DEF AccessErrors, MayThrow, Thrown, Undone, Refused
  <2>2. CASE req.token \in {"stale", "refresh"}
    BY <1>1, <2>2 DEF AccessErrors, MayThrow, Thrown, Undone, Refused, Passes
  <2>3. CASE req.token \in {"none", "stored"}
    BY <1>1, <2>3 DEF AccessErrors, MayThrow, Thrown, Undone, Refused, Passes
  <2> QED BY <2>1, <2>2, <2>3 DEF IsRequest
<1> QED BY <1>1 DEF Refuse, Ending

LEMMA AtRoute ==
  ASSUME TInv, pc = "route"
  PROVE  /\ TheRoute \in RouteSet /\ Matches(TheRoute, req) /\ IsRequest(req)
         /\ TheRoute.method = req.method /\ TheRoute.url = req.url
         /\ TheRoute.has_id => req.id \in UInt32
         /\ ~TheRoute.has_id => req.id = NULL
         /\ IsModel(TheRoute.params, model)
         /\ TheRoute.params = Empty => Accepts
<1>1. TheRoute \in RouteSet /\ Matches(TheRoute, req) /\ IsRequest(req)
  BY TheRouteOf DEF TInv, RequestInv
<1>2. IsModel(TheRoute.params, model)
  <2>1. TheRoute.params \in Schema
    BY <1>1, RouteFacts
  <2>2. IsJson(req.body) /\ FromBody
    BY <1>1 DEF IsRequest, TInv, RequestInv
  <2> QED BY <2>1, <2>2, FromJsonIsModel DEF FromBody
<1> QED BY <1>1, <1>2, EmptyAccepts DEF Matches

LEMMA GetListEnds == ASSUME TInv, GetList PROVE Ending
<1>1. pc = "route" /\ TheRoute.method = "GET"
  BY DEF GetList, At
<1>2. Accepts /\ IsRequest(req) /\ req.method = "GET"
  BY <1>1, AtRoute, RouteFacts
<1>3. CASE Refuse({})
  BY <1>2, <1>3, RefuseEnds
<1>4. CASE Passes /\ Return
  <2>1. req.url = "users" => req.id = NULL
    BY <1>1, AtRoute, RouteFacts DEF GetList
  <2> QED BY <1>2, <1>4, <2>1 DEF MayReturn, Ending
<1> QED BY <1>3, <1>4 DEF GetList

LEMMA GetUserEnds == ASSUME TInv, GetUser PROVE Ending
<1>1. pc = "route" /\ TheRoute.method = "GET"
  BY DEF GetUser, At
<1>2. Accepts /\ IsRequest(req) /\ req.method = "GET" /\ req.url = "users"
  BY <1>1, AtRoute, RouteFacts DEF GetUser, At
<1>3. CASE Refuse({})
  BY <1>2, <1>3, RefuseEnds
<1>4. CASE Passes /\ Return /\ req.id \in tables["users"]
  BY <1>2, <1>4 DEF MayReturn, Ending
<1>5. CASE Refuse({"NotFoundError"}) /\ req.id \notin tables["users"]
  <2>1. MayThrow("NotFoundError")
    BY <1>2, <1>5 DEF MayThrow, Thrown, Undone, Refused
  <2> QED BY <1>2, <1>5, <2>1, RefuseEnds DEF Thrown
<1> QED BY <1>3, <1>4, <1>5 DEF GetUser

LEMMA GetPhotoEnds == ASSUME TInv, GetPhoto PROVE Ending
<1>1. pc = "route" /\ TheRoute.method = "GET"
  BY DEF GetPhoto, At
<1>2. Accepts /\ IsRequest(req) /\ req.method = "GET" /\ req.url = "photos"
  BY <1>1, AtRoute, RouteFacts DEF GetPhoto, At
<1>3. CASE Refuse({})
  BY <1>2, <1>3, RefuseEnds
<1>4. CASE Passes /\ Return
  BY <1>2, <1>4 DEF MayReturn, Ending
<1>5. CASE Passes /\ req.id \notin tables["photos"] /\ Stop
  BY <1>2, <1>5 DEF Ending
<1> QED BY <1>3, <1>4, <1>5 DEF GetPhoto

LEMMA HelpJsonEnds == ASSUME TInv, HelpJson PROVE Ending
<1>1. pc = "route" /\ TheRoute.method = "GET"
  BY DEF HelpJson, At
<1>2. Accepts /\ IsRequest(req) /\ req.method = "GET" /\ req.url = "help_json"
  BY <1>1, AtRoute, RouteFacts DEF HelpJson, At
<1> QED BY <1>2 DEF HelpJson, MayReturn, Ending

\* An int32_t id of a row names the row the URL names, if it names one at all.
LEMMA IdOfRow ==
  ASSUME NEW n \in UInt32, NEW R \in SUBSET Row
  PROVE  /\ \A i \in R \cap {Cut(n)} : i = n
         /\ n \notin R \ {Cut(n)}
         /\ n \in R => R \cap {Cut(n)} # {}
<1>1. R \subseteq Int32 /\ R \subseteq Nat /\ n \in Int
  BY RequestsAssumption, HalfType DEF UInt32
<1>2. Cut(n) \in R => Cut(n) = n
  BY <1>1, CutOfId
<1>3. n \in R => Cut(n) = n
  BY <1>1, CutType
<1> QED BY <1>2, <1>3

LEMMA RefusedBySome ==
  ASSUME IsRequest(req), pc = "route", req.method # "GET",
         NEW e \in {"InvalidParamsError", "soci_error", "file_error"},
         e # "InvalidParamsError" => Accepts,
         e = "InvalidParamsError" /\ req.method = "POST" /\ req.url = "photos" => LacksParts
  PROVE  MayThrow(e)
  BY DEF MayThrow, Thrown, Undone, Refused

LEMMA PostUserEnds == ASSUME TInv, PostUser PROVE Ending
<1>1. pc = "route" /\ TheRoute.method = "POST" /\ TheRoute.url = "users"
  BY DEF PostUser, At
<1>2. /\ IsRequest(req) /\ req.method = "POST" /\ req.url = "users" /\ req.id = NULL
      /\ TheRoute.params = User /\ User \in Schema /\ IsModel(User, model)
  BY <1>1, AtRoute, RouteFacts DEF Schema
<1>3. MayThrow("InvalidParamsError")
  BY <1>1, <1>2, RefusedBySome
<1>4. CASE Throw("InvalidParamsError")
  BY <1>3, <1>4 DEF Ending
<1>5. ASSUME DOMAIN get_unsatisfied_constraints(User, model) = {}
      PROVE  Accepts
  BY <1>2, <1>5, WithoutUnsatisfied DEF Accepts
<1>6. CASE Throw("soci_error") /\ Accepts
  BY <1>1, <1>2, <1>6, RefusedBySome DEF Ending
<1>7. CASE Refuse({}) /\ Accepts
  BY <1>2, <1>7, RefuseEnds
<1>8. CASE /\ Accepts /\ Passes
           /\ \E i \in Row \ tables["users"] :
                ReturnHaving("users", tables["users"] \cup {i}, {i})
  <2>1. PICK i \in Row : ReturnHaving("users", tables["users"] \cup {i}, {i})
    BY <1>8
  <2>2. MayReturnHaving(tables["users"] \cup {i}, {i})
    BY <1>2, <1>8 DEF MayReturnHaving, TInv, RequestInv
  <2> QED BY <1>2, <2>1, <2>2 DEF Ending
<1> QED BY <1>4, <1>5, <1>6, <1>7, <1>8 DEF PostUser

LEMMA PutUserEnds == ASSUME TInv, PutUser PROVE Ending
<1>1. pc = "route" /\ TheRoute.method = "PUT" /\ TheRoute.url = "users"
  BY DEF PutUser, At
<1>2. /\ IsRequest(req) /\ req.method = "PUT" /\ req.url = "users"
      /\ TheRoute.params = User /\ User \in Schema /\ IsModel(User, model)
  BY <1>1, AtRoute, RouteFacts DEF Schema
<1>3. MayThrow("InvalidParamsError")
  BY <1>1, <1>2, RefusedBySome
<1>4. CASE Throw("InvalidParamsError")
  BY <1>3, <1>4 DEF Ending
<1>5. ASSUME ~RefusedByPut(User)
      PROVE  Accepts
  BY <1>2, <1>5, NotRefusedByPut DEF Accepts
<1>6. CASE Refuse({"InvalidParamsError"}) /\ Accepts
  BY <1>2, <1>3, <1>6, RefuseEnds DEF Thrown, Refused
<1>7. CASE /\ Accepts /\ Passes
           /\ ReturnHaving("users", tables["users"], tables["users"] \cap {req.id})
  <2>1. MayReturnHaving(tables["users"], tables["users"] \cap {req.id})
    BY <1>2, <1>7 DEF MayReturnHaving, TInv, RequestInv
  <2> QED BY <1>2, <1>7, <2>1 DEF Ending
<1> QED BY <1>4, <1>5, <1>6, <1>7 DEF PutUser

LEMMA DeleteUserEnds == ASSUME TInv, DeleteUser PROVE Ending
<1> DEFINE id == Cut(req.id)
<1>1. pc = "route" /\ TheRoute.method = "DELETE" /\ TheRoute.url = "users"
  BY DEF DeleteUser, At
<1>2. /\ IsRequest(req) /\ req.method = "DELETE" /\ req.url = "users" /\ req.id \in UInt32
      /\ Accepts
  BY <1>1, AtRoute, RouteFacts
<1>3. MayThrow("InvalidParamsError")
  BY <1>1, <1>2, RefusedBySome
<1>4. CASE Refuse({"InvalidParamsError"})
  BY <1>2, <1>3, <1>4, RefuseEnds DEF Thrown, Refused
<1>5. CASE /\ Passes
           /\ ReturnHaving("users", tables["users"] \ {id}, tables["users"] \cap {id})
  <2>1. tables["users"] \in SUBSET Row
    BY DEF TInv, RequestInv
  <2>2. MayReturnHaving(tables["users"] \ {id}, tables["users"] \cap {id})
    <3>1. \A i \in tables["users"] \cap {id} : i = req.id
      BY <1>2, <2>1, IdOfRow
    <3>2. req.id \notin tables["users"] \ {id}
      BY <1>2, <2>1, IdOfRow
    <3> HIDE DEF id
    <3> QED BY <1>2, <1>5, <2>1, <3>1, <3>2 DEF MayReturnHaving
  <2> QED BY <1>2, <1>5, <2>2 DEF Ending
<1> QED BY <1>4, <1>5 DEF DeleteUser

LEMMA PostLoginEnds == ASSUME TInv, PostLogin PROVE Ending
<1>1. pc = "route" /\ TheRoute.method = "POST" /\ TheRoute.url = "login"
  BY DEF PostLogin, At
<1>2. IsRequest(req) /\ req.method = "POST" /\ req.url = "login" /\ Accepts
  BY <1>1, AtRoute DEF Accepts
<1>3. CASE Throw("UnauthorizedError")
  <2>1. MayThrow("UnauthorizedError")
    BY <1>2 DEF MayThrow, Thrown, Undone, Refused
  <2> QED BY <1>3, <2>1 DEF Ending
<1>4. CASE Throw("InvalidParamsError")
  BY <1>1, <1>2, <1>4, RefusedBySome DEF Ending
<1>5. CASE Throw("soci_error")
  BY <1>1, <1>2, <1>5, RefusedBySome DEF Ending
<1>6. CASE Return /\ req.token = "none"
  BY <1>2, <1>6 DEF MayReturn, Passes, Ending
<1>7. CASE Stop
  BY <1>2, <1>7 DEF Ending
<1> QED BY <1>3, <1>4, <1>5, <1>6, <1>7 DEF PostLogin

LEMMA PostPhotoEnds == ASSUME TInv, PostPhoto PROVE Ending
<1>1. pc = "route" /\ TheRoute.method = "POST" /\ TheRoute.url = "photos"
  BY DEF PostPhoto, At
<1>2. /\ IsRequest(req) /\ req.method = "POST" /\ req.url = "photos" /\ req.id = NULL
      /\ Accepts
  BY <1>1, AtRoute, RouteFacts
<1>3. CASE MalformedField /\ Throw("std_exception")
  <2>1. MayThrow("std_exception")
    BY <1>2, <1>3 DEF MayThrow, Thrown, Undone, Refused
  <2> QED BY <1>3, <2>1 DEF Ending
<1>4. CASE (JsonField = {} \/ FileField = {}) /\ Throw("InvalidParamsError")
  <2>1. LacksParts
    BY <1>2, <1>4, JsonMissing, FileMissing DEF LacksParts
  <2> QED BY <1>1, <1>2, <1>4, <2>1, RefusedBySome DEF Ending
<1>5. CASE Refuse({})
  BY <1>2, <1>5, RefuseEnds
<1>6. CASE /\ JsonField # {} /\ FileField # {} /\ Throw("InvalidParamsError")
           /\ \E i \in Random : DOMAIN get_unsatisfied_constraints(Photo, UploadedPhoto(i)) # {}
  <2>1. LacksParts
    <3>1. CASE \E p \in JsonField : p.name = "json"
      BY <1>6, <3>1 DEF LacksParts
    <3>2. CASE \A p \in JsonField : p.name # "json"
      BY <1>6, <3>2, JsonDecoy DEF LacksParts
    <3> QED BY <3>1, <3>2
  <2> QED BY <1>1, <1>2, <1>6, <2>1, RefusedBySome DEF Ending
<1>7. CASE Throw("soci_error")
  BY <1>1, <1>2, <1>7, RefusedBySome DEF Ending
<1>8. CASE Refuse({"file_error"})
  <2>1. MayThrow("file_error")
    BY <1>1, <1>2, RefusedBySome
  <2> QED BY <1>2, <1>8, <2>1, RefuseEnds DEF Thrown, Undone
<1>9. CASE /\ Passes
           /\ \E i \in Random : ReturnHaving("photos", tables["photos"] \cup {i}, {i})
  <2>1. PICK i \in Random : ReturnHaving("photos", tables["photos"] \cup {i}, {i})
    BY <1>9
  <2>2. i \in Row /\ tables["photos"] \in SUBSET Row
    BY RequestsAssumption DEF TInv, RequestInv
  <2>3. MayReturnHaving(tables["photos"] \cup {i}, {i})
    BY <1>2, <1>9, <2>2 DEF MayReturnHaving
  <2> QED BY <1>2, <2>1, <2>3 DEF Ending
<1> QED BY <1>3, <1>4, <1>5, <1>6, <1>7, <1>8, <1>9 DEF PostPhoto

LEMMA PutPhotoEnds == ASSUME TInv, PutPhoto PROVE Ending
<1>1. pc = "route" /\ TheRoute.method = "PUT" /\ TheRoute.url = "photos"
  BY DEF PutPhoto, At
<1>2. /\ IsRequest(req) /\ req.method = "PUT" /\ req.url = "photos"
      /\ TheRoute.params = Photo /\ Photo \in Schema /\ IsModel(Photo, model)
  BY <1>1, AtRoute, RouteFacts DEF Schema
<1>3. MayThrow("InvalidParamsError")
  BY <1>1, <1>2, RefusedBySome
<1>4. CASE Throw("InvalidParamsError")
  BY <1>3, <1>4 DEF Ending
<1>5. ASSUME ~RefusedByPut(Photo)
      PROVE  Accepts
  BY <1>2, <1>5, NotRefusedByPut DEF Accepts
<1>6. CASE Refuse({"InvalidParamsError"}) /\ Accepts
  BY <1>2, <1>3, <1>6, RefuseEnds DEF Thrown, Refused
<1>7. CASE /\ Accepts /\ Passes /\ req.id \in tables["photos"]
           /\ ReturnHaving("photos", tables["photos"], {req.id})
  <2>1. MayReturnHaving(tables["photos"], {req.id})
    BY <1>2, <1>7 DEF MayReturnHaving, TInv, RequestInv
  <2> QED BY <1>2, <1>7, <2>1 DEF Ending
<1> QED BY <1>4, <1>5, <1>6, <1>7 DEF PutPhoto

LEMMA DeletePhotoEnds == ASSUME TInv, DeletePhoto PROVE Ending
<1> DEFINE id == Cut(req.id)
<1>1. pc = "route" /\ TheRoute.method = "DELETE" /\ TheRoute.url = "photos"
  BY DEF DeletePhoto, At
<1>2. /\ IsRequest(req) /\ req.method = "DELETE" /\ req.url = "photos"
      /\ req.id \in UInt32 /\ Accepts
  BY <1>1, AtRoute, RouteFacts
<1>3. MayThrow("InvalidParamsError") /\ MayThrow("file_error")
  BY <1>1, <1>2, RefusedBySome
<1>4. CASE Refuse({"InvalidParamsError"}) \/ Refuse({"file_error"})
  BY <1>2, <1>3, <1>4, RefuseEnds DEF Thrown, Refused, Undone
<1>5. CASE /\ Passes /\ req.id \in tables["photos"]
           /\ ReturnHaving("photos", tables["photos"] \ {id}, tables["photos"] \cap {id})
  <2>1. tables["photos"] \in SUBSET Row
    BY DEF TInv, RequestInv
  <2>2. MayReturnHaving(tables["photos"] \ {id}, tables["photos"] \cap {id})
    <3>1. \A i \in tables["photos"] \cap {id} : i = req.id
      BY <1>2, <2>1, IdOfRow
    <3>2. req.id \notin tables["photos"] \ {id} /\ tables["photos"] \cap {id} # {}
      BY <1>2, <1>5, <2>1, IdOfRow
    <3> HIDE DEF id
    <3> QED BY <1>2, <1>5, <2>1, <3>1, <3>2 DEF MayReturnHaving
  <2> QED BY <1>2, <1>5, <2>2 DEF Ending
<1> QED BY <1>4, <1>5 DEF DeletePhoto

LEMMA CallRouteEnds ==
  ASSUME TInv, CallRoute
  PROVE  pc = "route" /\ Ending
<1>1. pc = "route"
  BY DEF CallRoute, GetList, GetUser, GetPhoto, PostUser, PutUser, DeleteUser, PostLogin,
         PostPhoto, PutPhoto, DeletePhoto, HelpJson, At
<1> QED BY <1>1, GetListEnds, GetUserEnds, GetPhotoEnds, PostUserEnds, PutUserEnds,
           DeleteUserEnds, PostLoginEnds, PostPhotoEnds, PutPhotoEnds, DeletePhotoEnds,
           HelpJsonEnds DEF CallRoute

----------------------------------------------------------------------------
(* The invariants                                                          *)

\* A modification or registration that was accepted, as Ending has it.
AcceptedInv ==
  pc = "answered" /\ model # NULL /\ answer.error # "InvalidParamsError" => Accepts

AnswerInv ==
  /\ BlameFits /\ OneRowOrNothing /\ MissingRowsAreTold
  /\ PartsFound /\ AcceptedInv

\* The words after the last of the flags among those before the i-th.
Found(words, flags, i) ==
  {words[k + 1] : k \in {k \in 1..(Len(words) - 1) :
                           k < i /\ words[k] \in flags
                           /\ \A l \in (k + 1)..(Len(words) - 1) :
                                l < i => words[l] \notin flags}}

\* What the loop of parse_cmdline_args has found.
LoopInv ==
  /\ phase \in {"scan", "open", "exited"} =>
       /\ Len(argv) > 0
       /\ {args.address} \ {NULL} = Found(argv, AddressFlag, it)
       /\ {args.port} \ {NULL} = Found(argv, PortFlag, it)
       /\ {args.db_config} \ {NULL} = Found(argv, DbFlag, it)
       /\ args.help <=> \E k \in DOMAIN argv : k < it /\ argv[k] \in HelpFlag
  /\ phase = "exited" => args.help \/ Len(argv) = 1

----------------------------------------------------------------------------
(* Types are kept                                                          *)

LEMMA HandlingKeeps ==
  ASSUME TInv, phase = "serve", UNCHANGED starting
  PROVE  RoutesInv' /\ ArgsInv' /\ phase' = "serve"
<1>1. RoutesInv'
  BY DEF TInv, RoutesInv, starting
<1>2. ArgsInv'
  BY DEF TInv, ArgsInv, starting
<1> QED BY <1>1, <1>2 DEF starting

LEMMA IncomingFacts ==
  ASSUME TInv, phase = "serve", Incoming
  PROVE  /\ IsRequest(req') /\ model = NULL /\ answer = NULL /\ written = {}
         /\ failed = FALSE /\ UNCHANGED <<tables, model, written, failed>>
         /\ Matching(req)' = Matching(req')
  BY RequestsAssumption DEF Incoming, TInv, RequestInv, Matching, starting

LEMMA AnsweredTInv ==
  ASSUME TInv, phase = "serve", UNCHANGED starting, pc' = "answered",
         answer' \in [status : Nat, error : ErrorClass \cup {NULL}], UNCHANGED model,
         tables' \in [{"users", "photos"} -> SUBSET Row],
         written' \subseteq {"users", "photos"} \X Row,
         IsRequest(req'), model = NULL \/ (pc # "idle" /\ UNCHANGED req)
  PROVE  TInv'
<1>1. RoutesInv' /\ ArgsInv' /\ phase' = "serve"
  BY HandlingKeeps
<1>2. model # NULL => FromBody' /\ Matching(req)' # {}
  <2> SUFFICES ASSUME model # NULL PROVE FromBody' /\ Matching(req)' # {}
    OBVIOUS
  <2>1. UNCHANGED <<served, req>>
    BY DEF starting
  <2>2. TheRoute' = TheRoute /\ Matching(req)' = Matching(req)
    BY <2>1, RouteFrame
  <2>3. FromBody /\ Matching(req) # {}
    BY DEF TInv, RequestInv
  <2> QED BY <2>1, <2>2, <2>3 DEF FromBody
<1> QED BY <1>1, <1>2 DEF TInv, RequestInv

LEMMA ThrowTInv ==
  ASSUME TInv, phase = "serve", pc # "idle", NEW e \in Thrown, Throw(e)
  PROVE  TInv'
<1>1. Caught(e) \in [status : Nat, error : ErrorClass \cup {NULL}]
  BY CaughtFacts
<1>2. /\ UNCHANGED starting /\ pc' = "answered" /\ answer' = Caught(e)
      /\ UNCHANGED <<tables, req, model, written>>
  BY DEF Throw, Send
<1>3. IsRequest(req') /\ tables' \in [{"users", "photos"} -> SUBSET Row]
      /\ written' \subseteq {"users", "photos"} \X Row
  BY <1>2 DEF TInv, RequestInv
<1> QED BY <1>1, <1>2, <1>3, AnsweredTInv

LEMMA EndingTInv ==
  ASSUME TInv, phase = "serve", pc = "route", Ending
  PROVE  TInv'
<1>1. ASSUME NEW e, MayThrow(e), Throw(e) PROVE TInv'
  BY <1>1, ThrowTInv DEF MayThrow
<1>2. CASE Return
  <2>1. /\ UNCHANGED starting /\ pc' = "answered" /\ answer' = Success
        /\ UNCHANGED <<tables, req, model, written>>
    BY <1>2 DEF Return, Send
  <2>2. IsRequest(req') /\ tables' \in [{"users", "photos"} -> SUBSET Row]
        /\ written' \subseteq {"users", "photos"} \X Row
    BY <2>1 DEF TInv, RequestInv
  <2> QED BY <2>1, <2>2, AnsweredTInv, SuccessFacts
<1>3. ASSUME NEW rows, NEW w, MayReturnHaving(rows, w), ReturnHaving(req.url, rows, w)
      PROVE  TInv'
  <2>1. /\ UNCHANGED starting /\ pc' = "answered" /\ answer' = Success
        /\ UNCHANGED <<req, model>>
    BY <1>3 DEF ReturnHaving, Send
  <2>2. rows \in SUBSET Row /\ w \in SUBSET Row /\ req.url \in {"users", "photos"}
    BY <1>3 DEF MayReturnHaving
  <2>3. IsRequest(req') /\ tables' \in [{"users", "photos"} -> SUBSET Row]
    BY <1>3, <2>1, <2>2 DEF TInv, RequestInv, ReturnHaving
  <2>4. written' \subseteq {"users", "photos"} \X Row
    BY <1>3, <2>2 DEF ReturnHaving
  <2> QED BY <2>1, <2>3, <2>4, AnsweredTInv, SuccessFacts
<1>4. CASE Stop
  <2>1. UNCHANGED <<served, req>>
    BY <1>4 DEF Stop, handling
  <2>2. TheRoute' = TheRoute /\ Matching(req)' = Matching(req)
    BY <2>1, RouteFrame
  <2>3. RoutesInv' /\ ArgsInv'
    BY <1>4 DEF Stop, TInv, RoutesInv, ArgsInv, handling
  <2>4. RequestInv'
    BY <1>4, <2>2 DEF Stop, TInv, RequestInv, handling, FromBody
  <2> QED BY <2>3, <2>4 DEF TInv
<1> QED BY <1>1, <1>2, <1>3, <1>4 DEF Ending

LEMMA ReceiveTInv ==
  ASSUME TInv, phase = "serve", Receive
  PROVE  TInv'
<1>1. RoutesInv' /\ ArgsInv' /\ phase' = "serve"
  BY HandlingKeeps DEF Receive, Incoming
<1>2. /\ IsRequest(req') /\ model = NULL /\ answer = NULL /\ written = {}
      /\ failed = FALSE /\ UNCHANGED <<tables, model, written, failed>>
      /\ Matching(req)' = Matching(req')
  BY IncomingFacts DEF Receive
<1>3. RequestInv'
  BY <1>1, <1>2 DEF Receive, TInv, RequestInv
<1> QED BY <1>1, <1>3 DEF TInv

LEMMA ExtractTInv ==
  ASSUME TInv, phase = "serve", Extract
  PROVE  TInv'
<1>1. CASE Throw("JsonParseError")
  BY <1>1, ThrowTInv DEF Extract, Thrown, Refused
<1>2. CASE /\ pc' = "convert" /\ model' = from_json(TheRoute.params, req.body)
           /\ UNCHANGED <<starting, tables, req, answer, written, failed>>
  <2>1. RoutesInv' /\ ArgsInv' /\ phase' = "serve"
    BY <1>2, HandlingKeeps
  <2>2. TheRoute' = TheRoute /\ Matching(req)' = Matching(req)
    BY <1>2, RouteFrame DEF starting
  <2>3. FromBody'
    BY <1>2, <2>2 DEF FromBody
  <2>4. RequestInv'
    BY <1>2, <2>1, <2>2, <2>3 DEF Extract, TInv, RequestInv
  <2> QED BY <2>1, <2>4 DEF TInv
<1> QED BY <1>1, <1>2 DEF Extract

LEMMA ConvertTInv ==
  ASSUME TInv, phase = "serve", Convert
  PROVE  TInv'
<1>1. RoutesInv' /\ ArgsInv' /\ phase' = "serve"
  BY HandlingKeeps DEF Convert
<1>2. TheRoute' = TheRoute /\ Matching(req)' = Matching(req)
  BY RouteFrame DEF Convert, starting
<1>3. model' = model
  <2>1. TheRoute \in RouteSet
    BY TheRouteOf DEF Convert, TInv, RequestInv
  <2>2. TheRoute.params \in Schema
    BY <2>1, RouteFacts
  <2>3. FromBody /\ IsJson(req.body)
    BY DEF Convert, TInv, RequestInv, IsRequest
  <2> QED BY <2>2, <2>3, FromJsonIsModel, RoundTrip DEF Convert, FromBody
<1>4. FromBody'
  BY <1>2, <1>3 DEF Convert, FromBody, TInv, RequestInv
<1>5. RequestInv'
  BY <1>1, <1>2, <1>3, <1>4 DEF Convert, TInv, RequestInv
<1> QED BY <1>1, <1>5 DEF TInv

LEMMA FinishTInv ==
  ASSUME TInv, phase = "serve", Finish
  PROVE  TInv'
<1>1. RoutesInv' /\ ArgsInv' /\ phase' = "serve"
  BY HandlingKeeps DEF Finish
<1>2. RequestInv'
  BY <1>1 DEF Finish, TInv, RequestInv
<1> QED BY <1>1, <1>2 DEF TInv

LEMMA AtOnceTInv ==
  ASSUME TInv, phase = "serve", NoRoute \/ HelpPage
  PROVE  TInv'
<1>1. /\ IsRequest(req') /\ model = NULL /\ UNCHANGED <<tables, model, written, starting>>
  BY IncomingFacts DEF NoRoute, HelpPage, Incoming
<1>2. pc' = "answered" /\ answer' \in [status : Nat, error : ErrorClass \cup {NULL}]
  BY SuccessFacts DEF NoRoute, HelpPage, Send, Answer, ErrorClass
<1>3. /\ tables' \in [{"users", "photos"} -> SUBSET Row]
      /\ written' \subseteq {"users", "photos"} \X Row
  BY <1>1 DEF TInv, RequestInv
<1> QED BY <1>1, <1>2, <1>3, AnsweredTInv

LEMMA StutterTInv ==
  ASSUME TInv, UNCHANGED vars
  PROVE  TInv'
<1>1. RoutesInv' /\ ArgsInv'
  BY DEF TInv, RoutesInv, ArgsInv, vars, starting, handling
<1>2. TheRoute' = TheRoute /\ Matching(req)' = Matching(req)
  BY RouteFrame DEF vars, starting, handling
<1>3. RequestInv'
  BY <1>2 DEF TInv, RequestInv, FromBody, vars, starting, handling
<1> QED BY <1>1, <1>3 DEF TInv

LEMMA NextTInv ==
  ASSUME TInv, [Next]_vars
  PROVE  TInv'
BY StartUpTInv, AtOnceTInv, ReceiveTInv, ExtractTInv, ConvertTInv, CallRouteEnds,
   EndingTInv, FinishTInv, StutterTInv DEF Next

----------------------------------------------------------------------------
(* Answers                                                                 *)

LEMMA FormFrame ==
  ASSUME UNCHANGED <<served, req>>
  PROVE  /\ TheRoute' = TheRoute /\ Matching(req)' = Matching(req) /\ Parts' = Parts
         /\ JsonField' = JsonField /\ FileField' = FileField /\ JsonParts' = JsonParts
         /\ MalformedField' <=> MalformedField
         /\ \A i : UploadedPhoto(i)' = UploadedPhoto(i)
<1>1. /\ TheRoute' = TheRoute /\ Matching(req)' = Matching(req) /\ Parts' = Parts
  BY RouteFrame
<1>2. JsonField' = JsonField
  BY <1>1 DEF JsonField, FirstPart
<1>3. FileField' = FileField
  BY <1>1 DEF FileField, FirstPart
<1>4. MalformedField' <=> MalformedField
  BY <1>2 DEF MalformedField
<1>5. \A i : UploadedPhoto(i)' = UploadedPhoto(i)
  BY <1>2, <1>3 DEF UploadedPhoto
<1>6. JsonParts' = JsonParts
  BY <1>1 DEF JsonParts
<1> QED BY <1>1, <1>2, <1>3, <1>4, <1>5, <1>6

LEMMA ClauseFrame ==
  ASSUME UNCHANGED <<served, req, model>>
  PROVE  (LacksParts' <=> LacksParts) /\ (Accepts' <=> Accepts)
<1>1. LacksParts' <=> LacksParts
  BY FormFrame DEF LacksParts
<1>2. Accepts' <=> Accepts
  BY FormFrame DEF Accepts, Accepted, Complete
<1> QED BY <1>1, <1>2

\* Before it is answered a request has changed nothing and is told nothing.
LEMMA UnansweredInv ==
  ASSUME TInv', pc' # "answered",
         phase' = "stopped" /\ req' # NULL =>
           req'.url = "login" \/ (req'.url = "photos" /\ req'.id \notin tables'["photos"])
  PROVE  AnswerInv'
<1>1. answer' = NULL /\ written' = {}
  BY DEF TInv, RequestInv
<1> QED BY <1>1 DEF AnswerInv, BlameFits, OneRowOrNothing, MissingRowsAreTold, PartsFound,
               AcceptedInv

LEMMA ThrowAnswerInv ==
  ASSUME TInv, phase = "serve", pc # "idle", pc # "answered", NEW e,
         \/ MayThrow(e)
         \/ e = "JsonParseError" /\ req.method # "GET" /\ model = NULL,
         Throw(e)
  PROVE  AnswerInv'
<1>1. e \in Thrown
  BY DEF MayThrow, Thrown, Refused
<1>2. /\ UNCHANGED <<starting, tables, req, model, written>>
      /\ answer' = Caught(e) /\ (failed' <=> e \in {"soci_error", "file_error"})
      /\ pc' = "answered"
  BY DEF Throw, Send
<1>3. written = {} /\ phase' = "serve" /\ UNCHANGED <<served, req>>
  BY <1>2 DEF TInv, RequestInv, starting
<1>4. /\ answer'.status = 500 <=> e \in Undone
      /\ answer'.status = 400 <=> e \in Refused
      /\ answer'.status = 403 <=> e = "UnauthorizedError"
      /\ answer'.status = 404 <=> e = "NotFoundError"
      /\ answer'.status # 200
      /\ answer'.error = "InvalidParamsError" <=> e = "InvalidParamsError"
      /\ answer' # Success
  BY <1>1, <1>2, CaughtFacts, SuccessFacts
<1>5. BlameFits'
  BY <1>2, <1>3, <1>4, FormFrame
     DEF BlameFits, MayThrow, Undone, Refused, Passes
<1>6. OneRowOrNothing' /\ MissingRowsAreTold'
  BY <1>2, <1>3, <1>4 DEF OneRowOrNothing, MissingRowsAreTold
<1>7. PartsFound'
  <2>1. LacksParts' <=> LacksParts
    BY <1>2, <1>3, ClauseFrame
  <2>2. e = "InvalidParamsError" /\ req.method = "POST" /\ req.url = "photos" => LacksParts'
    BY <2>1 DEF MayThrow
  <2> QED BY <1>2, <1>4, <2>2 DEF PartsFound, LacksParts
<1>8. AcceptedInv'
  <2>1. Accepts' <=> Accepts
    BY <1>2, <1>3, ClauseFrame
  <2> QED BY <1>2, <1>4, <2>1 DEF AcceptedInv, MayThrow
<1> QED BY <1>5, <1>6, <1>7, <1>8 DEF AnswerInv

LEMMA ReturnAnswerInv ==
  ASSUME TInv, phase = "serve", pc = "route", MayReturn, Return
  PROVE  AnswerInv'
<1>1. /\ UNCHANGED <<starting, tables, req, model, written, failed>>
      /\ answer' = Success /\ pc' = "answered"
  BY DEF Return, Send
<1>2. /\ written = {} /\ ~failed /\ phase' = "serve" /\ UNCHANGED <<served, req>>
      /\ IsRequest(req) /\ TheRoute \in RouteSet /\ TheRoute.method = req.method
      /\ TheRoute.url = req.url
  BY <1>1, AtRoute DEF TInv, RequestInv, starting
<1>3. req.method \in {"GET", "POST"}
  BY <1>2, RouteFacts DEF MayReturn
<1>4. BlameFits'
  BY <1>1, <1>2, <1>3, SuccessFacts DEF BlameFits, MayReturn, Passes
<1>5. OneRowOrNothing' /\ MissingRowsAreTold'
  BY <1>1, <1>2, <1>3 DEF OneRowOrNothing, MissingRowsAreTold, MayReturn
<1>6. PartsFound'
  BY <1>1, <1>2, <1>3, SuccessFacts DEF PartsFound, MayReturn
<1>7. AcceptedInv'
  BY <1>1, <1>2, ClauseFrame DEF AcceptedInv, MayReturn
<1> QED BY <1>4, <1>5, <1>6, <1>7 DEF AnswerInv

LEMMA ReturnHavingAnswerInv ==
  ASSUME TInv, phase = "serve", pc = "route", NEW rows, NEW w,
         MayReturnHaving(rows, w), ReturnHaving(req.url, rows, w)
  PROVE  AnswerInv'
<1>1. /\ UNCHANGED <<starting, req, model, failed>>
      /\ tables' = [tables EXCEPT ![req.url] = rows]
      /\ written' = {<<req.url, i>> : i \in w}
      /\ answer' = Success /\ pc' = "answered"
  BY DEF ReturnHaving, Send
<1>2. /\ ~failed /\ phase' = "serve" /\ UNCHANGED <<served, req>> /\ Passes
      /\ req.method \in {"POST", "PUT", "DELETE"} /\ req.url \in {"users", "photos"}
  BY <1>1 DEF TInv, RequestInv, starting, MayReturnHaving
<1>3. tables'[req.url] = rows
  BY <1>1, <1>2 DEF TInv, RequestInv
<1>4. BlameFits'
  BY <1>1, <1>2, SuccessFacts DEF BlameFits, Passes
<1>5. OneRowOrNothing'
  <2>1. \A x \in written' : x[1] = req.url /\ x[2] \in w /\ x = <<req.url, x[2]>>
    BY <1>1
  <2>2. \A x, y \in written' : x = y /\ x[1] = req.url /\ req.id \in {NULL, x[2]}
    BY <2>1 DEF MayReturnHaving
  <2>3. req.method = "DELETE" => req.id \notin tables'[req.url]
    BY <1>3 DEF MayReturnHaving
  <2> QED BY <1>1, <1>2, <2>2, <2>3 DEF OneRowOrNothing
<1>6. MissingRowsAreTold'
  <2>1. req.method \in {"PUT", "DELETE"} /\ req.url = "photos" => written' # {}
    BY <1>1 DEF MayReturnHaving
  <2> QED BY <1>1, <1>2, <2>1 DEF MissingRowsAreTold
<1>7. PartsFound'
  BY <1>1, SuccessFacts, RequestsAssumption DEF PartsFound, ErrorClass
<1>8. AcceptedInv'
  BY <1>1, <1>2, ClauseFrame DEF AcceptedInv, MayReturnHaving
<1> QED BY <1>4, <1>5, <1>6, <1>7, <1>8 DEF AnswerInv

LEMMA EndingAnswerInv ==
  ASSUME TInv, phase = "serve", pc = "route", Ending
  PROVE  AnswerInv'
<1>1. ASSUME NEW e, MayThrow(e), Throw(e) PROVE AnswerInv'
  BY <1>1, ThrowAnswerInv
<1>2. CASE MayReturn /\ Return
  BY <1>2, ReturnAnswerInv
<1>3. ASSUME NEW rows, NEW w, MayReturnHaving(rows, w), ReturnHaving(req.url, rows, w)
      PROVE  AnswerInv'
  BY <1>3, ReturnHavingAnswerInv
<1>4. CASE /\ req.url = "login" \/ (req.url = "photos" /\ req.id \notin tables["photos"])
           /\ Stop
  BY <1>4, EndingTInv, UnansweredInv DEF Stop, handling
<1> QED BY <1>1, <1>2, <1>3, <1>4 DEF Ending

LEMMA ExtractAnswerInv ==
  ASSUME TInv, phase = "serve", Extract
  PROVE  AnswerInv'
<1>1. CASE TheRoute.params # Empty /\ Throw("JsonParseError")
  <2>1. /\ TheRoute \in RouteSet /\ Matches(TheRoute, req) /\ model = NULL
    BY TheRouteOf DEF Extract, TInv, RequestInv
  <2>2. req.method # "GET"
    BY <1>1, <2>1, RouteFacts DEF Matches
  <2> QED BY <1>1, <2>1, <2>2, ThrowAnswerInv DEF Extract
<1>2. CASE /\ pc' = "convert"
           /\ UNCHANGED <<starting, tables, req, answer, written, failed>>
  BY <1>2, ExtractTInv, UnansweredInv DEF starting
<1> QED BY <1>1, <1>2 DEF Extract

LEMMA NoRouteAnswerInv ==
  ASSUME TInv, phase = "serve", NoRoute
  PROVE  AnswerInv'
<1>1. /\ Matching(req)' = {} /\ written' = {} /\ model' = NULL /\ ~failed'
      /\ phase' = "serve"
  BY IncomingFacts DEF NoRoute, Incoming, starting
<1>2. answer'.status = 404 /\ answer'.error = "NotFoundError" /\ answer' # Success
  BY SuccessFacts DEF NoRoute, Send, Answer
<1> QED BY <1>1, <1>2 DEF AnswerInv, BlameFits, OneRowOrNothing, MissingRowsAreTold,
                          PartsFound, AcceptedInv

LEMMA HelpPageAnswerInv ==
  ASSUME TInv, phase = "serve", HelpPage
  PROVE  AnswerInv'
<1>1. /\ written' = {} /\ model' = NULL /\ ~failed' /\ phase' = "serve"
      /\ req'.url = "help" /\ answer' = Success
  BY IncomingFacts DEF HelpPage, Incoming, starting, Send
<1>2. req'.method = "GET"
  <2> DEFINE r == served[CHOOSE n \in Matching(req') : TRUE]
  <2>1. Len(served) = 14 /\ Matching(req') # {}
    BY DEF HelpPage, TInv, RoutesInv
  <2>2. r \in RouteSet /\ Matches(r, req')
    BY <2>1, RouteOf DEF TInv
  <2> HIDE DEF r
  <2> QED BY <1>1, <2>2, RouteFacts DEF Matches
<1> QED BY <1>1, <1>2, SuccessFacts
        DEF AnswerInv, BlameFits, OneRowOrNothing, MissingRowsAreTold, PartsFound,
            AcceptedInv

LEMMA NextAnswerInv ==
  ASSUME TInv, AnswerInv, [Next]_vars
  PROVE  AnswerInv'
<1>1. TInv'
  BY NextTInv
<1>2. CASE StartUp
  BY <1>1, <1>2, StartUpFrame, UnansweredInv DEF handling, TInv, RequestInv
<1>3. CASE phase = "serve" /\ (NoRoute \/ HelpPage)
  BY <1>3, NoRouteAnswerInv, HelpPageAnswerInv
<1>4. CASE phase = "serve" /\ Receive
  BY <1>1, <1>4, UnansweredInv DEF Receive, Incoming, starting
<1>5. CASE phase = "serve" /\ Extract
  BY <1>5, ExtractAnswerInv
<1>6. CASE phase = "serve" /\ Convert
  BY <1>1, <1>6, UnansweredInv DEF Convert, starting
<1>7. CASE phase = "serve" /\ CallRoute
  BY <1>7, CallRouteEnds, EndingAnswerInv
<1>8. CASE phase = "serve" /\ Finish
  BY <1>1, <1>8, UnansweredInv DEF Finish, starting
<1>9. CASE UNCHANGED vars
  <2>1. UNCHANGED <<served, req, model>>
    BY <1>9 DEF vars, starting, handling
  <2>2. /\ Matching(req)' = Matching(req) /\ (MalformedField' <=> MalformedField)
        /\ Parts' = Parts /\ (LacksParts' <=> LacksParts) /\ (Accepts' <=> Accepts)
    BY <2>1, FormFrame, ClauseFrame
  <2>3. BlameFits'
    BY <1>9, <2>2 DEF AnswerInv, BlameFits, vars, handling
  <2>4. OneRowOrNothing' /\ MissingRowsAreTold' /\ AcceptedInv'
    BY <1>9, <2>2 DEF AnswerInv, OneRowOrNothing, MissingRowsAreTold, AcceptedInv,
                      vars, handling, starting
  <2>5. PartsFound'
    BY <1>9, <2>2 DEF AnswerInv, PartsFound, LacksParts, vars, handling
  <2> QED BY <2>3, <2>4, <2>5 DEF AnswerInv
<1> QED BY <1>2, <1>3, <1>4, <1>5, <1>6, <1>7, <1>8, <1>9 DEF Next

LEMMA InitAnswerInv == Init => AnswerInv
  BY DEF Init, AnswerInv, BlameFits, OneRowOrNothing, MissingRowsAreTold, PartsFound,
         AcceptedInv

----------------------------------------------------------------------------
(* The command line                                                        *)

\* A step of the loop takes along the word after a flag, and else nothing.
LEMMA FoundNext ==
  ASSUME argv \in Seq(Word), NEW i \in 1..Len(argv), NEW flags, NEW x, NEW y,
         {x} \ {NULL} = Found(argv, flags, i),
         y = (IF i < Len(argv) /\ argv[i] \in flags THEN argv[i + 1] ELSE x)
  PROVE  {y} \ {NULL} = Found(argv, flags, i + 1)
<1>1. CASE i < Len(argv) /\ argv[i] \in flags
  <2>1. argv[i + 1] # NULL
    BY <1>1, RequestsAssumption
  <2>2. argv[i + 1] \in Found(argv, flags, i + 1)
    BY <1>1 DEF Found
  <2>3. ASSUME NEW k \in 1..(Len(argv) - 1), k < i + 1,
               \A l \in (k + 1)..(Len(argv) - 1) : l < i + 1 => argv[l] \notin flags
        PROVE  k = i
    BY <1>1, <2>3
  <2>4. \A v \in Found(argv, flags, i + 1) : v = argv[i + 1]
    BY <2>3 DEF Found
  <2> QED BY <1>1, <2>1, <2>2, <2>4
<1>2. CASE ~(i < Len(argv) /\ argv[i] \in flags)
  <2>1. ASSUME NEW k \in 1..(Len(argv) - 1)
        PROVE  (/\ k < i /\ argv[k] \in flags
                /\ \A l \in (k + 1)..(Len(argv) - 1) : l < i => argv[l] \notin flags)
               <=> (/\ k < i + 1 /\ argv[k] \in flags
                    /\ \A l \in (k + 1)..(Len(argv) - 1) : l < i + 1 => argv[l] \notin flags)
    BY <1>2
  <2>2. Found(argv, flags, i + 1) = Found(argv, flags, i)
    BY <2>1 DEF Found
  <2> QED BY <1>2, <2>2
<1> QED BY <1>1, <1>2

LEMMA InitLoopInv == Init => LoopInv
<1> SUFFICES ASSUME Init PROVE LoopInv
  OBVIOUS
<1>1. PICK n \in 1..MaxWords : argv \in [1..n -> Word]
  BY DEF Init
<1>2. Len(argv) = n /\ n > 0
  BY <1>1, RequestsAssumption
<1>3. \A flags : Found(argv, flags, 1) = {}
  BY DEF Found
<1> QED BY <1>2, <1>3 DEF Init, LoopInv, NoArgs

LEMMA ScanLoopInv ==
  ASSUME TInv, LoopInv, ScanWord
  PROVE  LoopInv'
<1>1. argv \in Seq(Word) /\ it \in 1..Len(argv) /\ it' = it + 1
      /\ UNCHANGED argv /\ phase = "scan" /\ phase' = "scan"
  BY DEF ScanWord, TInv, ArgsInv
<1>2. /\ Found(argv', AddressFlag, it') = Found(argv, AddressFlag, it + 1)
      /\ Found(argv', PortFlag, it') = Found(argv, PortFlag, it + 1)
      /\ Found(argv', DbFlag, it') = Found(argv, DbFlag, it + 1)
  BY <1>1 DEF Found
<1>3. args' = CASE it < Len(argv) /\ argv[it] \in AddressFlag ->
                     [args EXCEPT !.address = argv[it + 1]]
                [] it < Len(argv) /\ argv[it] \in PortFlag ->
                     [args EXCEPT !.port = argv[it + 1]]
                [] it < Len(argv) /\ argv[it] \in DbFlag ->
                     [args EXCEPT !.db_config = argv[it + 1]]
                [] OTHER -> [args EXCEPT !.help = @ \/ argv[it] \in HelpFlag]
  BY DEF ScanWord
<1>4. args \in [address : Word \cup {NULL}, port : Word \cup {NULL},
                db_config : Word \cup {NULL}, help : BOOLEAN]
  BY DEF TInv, ArgsInv
<1>5. args'.address = IF it < Len(argv) /\ argv[it] \in AddressFlag
                      THEN argv[it + 1] ELSE args.address
  BY <1>3, <1>4 DEF AddressFlag, PortFlag, DbFlag
<1>6. args'.port = IF it < Len(argv) /\ argv[it] \in PortFlag
                   THEN argv[it + 1] ELSE args.port
  BY <1>3, <1>4 DEF AddressFlag, PortFlag, DbFlag
<1>7. args'.db_config = IF it < Len(argv) /\ argv[it] \in DbFlag
                        THEN argv[it + 1] ELSE args.db_config
  BY <1>3, <1>4 DEF AddressFlag, PortFlag, DbFlag
<1>8. args'.help <=> args.help \/ argv[it] \in HelpFlag
  BY <1>3, <1>4 DEF AddressFlag, PortFlag, DbFlag, HelpFlag
<1>9. {args'.address} \ {NULL} = Found(argv, AddressFlag, it + 1)
  BY <1>1, <1>5, FoundNext DEF LoopInv
<1>10. {args'.port} \ {NULL} = Found(argv, PortFlag, it + 1)
  BY <1>1, <1>6, FoundNext DEF LoopInv
<1>11. {args'.db_config} \ {NULL} = Found(argv, DbFlag, it + 1)
  BY <1>1, <1>7, FoundNext DEF LoopInv
<1>12. args'.help <=> \E k \in DOMAIN argv : k < it + 1 /\ argv[k] \in HelpFlag
  BY <1>1, <1>8 DEF LoopInv
<1>13. Len(argv) > 0
  BY <1>1 DEF LoopInv
<1> QED BY <1>1, <1>2, <1>9, <1>10, <1>11, <1>12, <1>13 DEF LoopInv

LEMMA NextLoopInv ==
  ASSUME TInv, LoopInv, [Next]_vars
  PROVE  LoopInv'
<1>1. CASE ScanWord
  BY <1>1, ScanLoopInv
<1>2. CASE UNCHANGED <<argv, it, args>>
           /\ (phase' \in {"scan", "open", "exited"} => phase \in {"scan", "open", "exited"})
           /\ (phase' = "exited" => phase = "exited" \/ args.help \/ Len(argv) <= 1)
  <2>1. Len(argv) \in Nat
    BY DEF TInv, ArgsInv
  <2>2. argv' = argv /\ it' = it /\ args' = args
    BY <1>2
  <2>3. ASSUME phase' = "exited" PROVE args'.help \/ Len(argv') = 1
    <3>1. phase \in {"scan", "open", "exited"} /\ Len(argv) > 0
      BY <1>2, <2>3 DEF LoopInv
    <3>2. args.help \/ Len(argv) = 1
      <4>1. Len(argv) <= 1 => Len(argv) = 1
        <5>1. \A n \in Nat : n > 0 /\ n <= 1 => n = 1
          OBVIOUS
        <5> QED BY <2>1, <3>1, <5>1
      <4>2. phase = "exited" => args.help \/ Len(argv) = 1
        BY DEF LoopInv
      <4> QED BY <1>2, <2>3, <4>1, <4>2
    <3> QED BY <2>2, <3>2
  <2> QED BY <1>2, <2>2, <2>3 DEF LoopInv
<1>3. CASE OpenSessions
  BY <1>3 DEF OpenSessions, LoopInv
<1>4. CASE Scanned \/ RegisterRoute \/ Run
  BY <1>2, <1>4 DEF Scanned, RegisterRoute, Run
<1>5. CASE UNCHANGED vars
  BY <1>2, <1>5 DEF vars, starting
<1>6. CASE phase = "serve"
           /\ (NoRoute \/ HelpPage \/ Receive \/ Extract \/ Convert \/ CallRoute \/ Finish)
  <2>1. UNCHANGED <<argv, it, args>> /\ phase' \in {"serve", "stopped"}
    <3>1. CASE NoRoute \/ HelpPage \/ Receive \/ Finish
      BY <1>6, <3>1 DEF NoRoute, HelpPage, Receive, Finish, Incoming, starting
    <3>2. CASE Extract \/ Convert
      BY <1>6, <3>2 DEF Extract, Convert, Throw, starting
    <3>3. CASE CallRoute
      BY <1>6, <3>3, CallRouteEnds DEF Ending, Throw, Return, ReturnHaving, Stop, starting
    <3> QED BY <1>6, <3>1, <3>2, <3>3
  <2> QED BY <1>2, <2>1
<1> QED BY <1>1, <1>3, <1>4, <1>5, <1>6 DEF Next, StartUp

----------------------------------------------------------------------------
(* What follows                                                            *)

LEMMA PrefixEqual ==
  ASSUME NEW S, NEW s \in Seq(S), NEW t \in Seq(S), Len(s) <= Len(t),
         \A n \in 1..Len(s) : s[n] = t[n]
  PROVE  s = SubSeq(t, 1, Len(s))
<1>1. /\ SubSeq(t, 1, Len(s)) \in Seq(S) /\ Len(SubSeq(t, 1, Len(s))) = Len(s)
      /\ \A n \in 1..Len(s) : SubSeq(t, 1, Len(s))[n] = t[n]
  OBVIOUS
<1> QED BY <1>1

LEMMA TypesFollow == TInv => TypeOK
<1> SUFFICES ASSUME TInv PROVE TypeOK
  OBVIOUS
<1>1. \A o \in {"address", "port", "db_config"} : args[o] \in Word \cup {NULL}
  BY DEF TInv, ArgsInv
<1>2. served = SubSeq(Routes, 1, Len(served))
  <2>1. served \in Seq(RouteSet) /\ Len(served) <= 14
        /\ \A n \in 1..Len(served) : served[n] = Routes[n]
    BY DEF TInv, RoutesInv
  <2>2. Routes \in Seq(RouteSet) /\ Len(Routes) = 14
    BY RoutesAre
  <2> QED BY <2>1, <2>2, PrefixEqual
<1>3. model # NULL =>
        \A f \in DOMAIN model :
          model[f] \in (IF FieldOf(TheRoute.params, f).type = "int" THEN Int32 ELSE Text)
                        \cup {NULL}
  <2> SUFFICES ASSUME model # NULL
               PROVE  \A f \in DOMAIN model : model[f] \in ValueOf(FieldOf(TheRoute.params, f))
    BY DEF ValueOf
  <2>1. FromBody /\ pc # "idle" /\ IsJson(req.body) /\ Matching(req) # {}
    BY DEF TInv, RequestInv, IsRequest
  <2>2. TheRoute.params \in Schema
    BY <2>1, TheRouteOf, RouteFacts
  <2>3. IsModel(TheRoute.params, model)
    BY <2>1, <2>2, FromJsonIsModel DEF FromBody
  <2> QED BY <2>3 DEF IsModel
<1>4. (answer # NULL) = (pc = "answered")
  BY RequestsAssumption DEF TInv, RequestInv
<1> QED BY <1>1, <1>2, <1>3, <1>4 DEF TypeOK, TInv, RequestInv

LEMMA ReadAsSentFollows == TInv => ReadAsSent
<1> SUFFICES ASSUME TInv, pc = "route", NEW f \in DOMAIN model
             PROVE  LET sent == req.body.kind = "object" /\ f \in DOMAIN req.body.content
                        type == FieldOf(TheRoute.params, f).type
                        said == Says(type, req.body.content[f])
                    IN  IF ~sent \/ (sent /\ said = NULL) THEN model[f] = NULL
                        ELSE IF type = "string" \/ said \in Int32 THEN model[f] = said
                        ELSE IF req.body.content[f].kind = "string" THEN model[f] = NULL
                        ELSE (said - model[f]) % (2 * Half) = 0
  BY DEF ReadAsSent
<1>1. FromBody /\ IsJson(req.body) /\ TheRoute.params \in Schema
  BY AtRoute, RouteFacts DEF TInv, RequestInv, IsRequest
<1>2. f \in field_names(TheRoute.params)
  BY <1>1 DEF FromBody, from_json
<1> DEFINE d == FieldOf(TheRoute.params, f)
           j == req.body.content[f]
<1>3. FieldOK(d)
  BY <1>1, <1>2, FieldOfName, FieldsOK
<1>4. CASE ~(req.body.kind = "object" /\ f \in DOMAIN req.body.content)
  BY <1>1, <1>2, <1>4 DEF FromBody, from_json
<1>5. CASE req.body.kind = "object" /\ f \in DOMAIN req.body.content
  <2>1. model[f] = Converted(d.type, j) /\ IsValue(j)
    BY <1>1, <1>2, <1>5 DEF FromBody, from_json, IsJson
  <2>2. d.type \in {"int", "string"}
    BY <1>3 DEF FieldOK
  <2> HIDE DEF d, j
  <2>3. IF Says(d.type, j) = NULL THEN model[f] = NULL
        ELSE IF d.type = "string" \/ Says(d.type, j) \in Int32 THEN model[f] = Says(d.type, j)
        ELSE IF j.kind = "string" THEN model[f] = NULL
        ELSE (Says(d.type, j) - model[f]) % (2 * Half) = 0
    <3>1. CASE j.kind = "string"
      BY <2>1, <2>2, <3>1, ModelsAssumption DEF Says, Converted, lexical_cast, IsValue, IsText, Int32
    <3>2. CASE j.kind = "number"
      BY <2>1, <2>2, <3>2, CutType, ModelsAssumption DEF Says, Converted, IsValue
    <3>3. CASE j.kind = "boolean"
      BY <2>1, <2>2, <3>3, HalfType, ModelsAssumption DEF Says, Converted, IsValue, Int32
    <3>4. CASE j.kind \notin {"string", "number", "boolean"}
      BY <2>1, <2>2, <3>4 DEF Says, Converted
    <3> QED BY <3>1, <3>2, <3>3, <3>4
  <2> QED BY <1>5, <2>3 DEF d, j
<1> QED BY <1>4, <1>5

LEMMA AcceptedAsListedFollows == TInv /\ AcceptedInv => AcceptedAsListed
<1> SUFFICES ASSUME TInv, AcceptedInv, pc = "answered", model # NULL,
                    answer.error # "InvalidParamsError", req.url # "login",
                    NEW info \in Listed(req), NEW f \in DOMAIN info.params
             PROVE  IF model[f] # NULL
                    THEN \A c \in info.params[f].cnstr_names : Meets(c, model[f])
                    ELSE req.method = "POST" => Required \notin info.params[f].cnstr_names
  BY DEF AcceptedAsListed
<1>1. /\ TheRoute \in RouteSet /\ Matches(TheRoute, req) /\ Accepts
  BY TheRouteOf DEF TInv, RequestInv, AcceptedInv
<1>2. PICK r \in RouteSet : info = Info(r)
  BY DEF Listed, TInv, RoutesInv
<1>3. r.method = req.method /\ r.url = req.url /\ info.params = get_description(r.params)
  BY <1>2 DEF Listed, Info, Matches
<1>4. r.params = TheRoute.params
  BY <1>1, <1>3, SameParams DEF Matches
<1>5. f \in field_names(TheRoute.params)
      /\ info.params[f].cnstr_names = FieldOf(TheRoute.params, f).cnstr_list
  BY <1>3, <1>4 DEF get_description, FieldDescription
<1>6. TheRoute.listed
  <2>1. field_names(Empty) = {}
    BY DEF field_names, Empty
  <2> QED BY <1>1, <1>5, <2>1 DEF RouteSet, Route, Api, ApiId
<1> QED BY <1>1, <1>5, <1>6 DEF Accepts, Accepted, Complete

LEMMA ArgumentsTakenFollows == TInv /\ LoopInv => ArgumentsTaken
<1> SUFFICES ASSUME TInv, LoopInv PROVE ArgumentsTaken
  OBVIOUS
<1>1. ASSUME it > Len(argv), NEW flags
      PROVE  Found(argv, flags, it) = LastAfter(flags)
  <2>1. \A l \in 1..(Len(argv) - 1) : l < it
    BY <1>1 DEF TInv, ArgsInv
  <2> QED BY <2>1 DEF Found, LastAfter
<1>2. it > Len(argv) => \A k \in DOMAIN argv : k < it
  BY DEF TInv, ArgsInv
<1>3. args.help \in BOOLEAN
  BY DEF TInv, ArgsInv
<1> QED BY <1>1, <1>2, <1>3 DEF LoopInv, ArgumentsTaken

----------------------------------------------------------------------------
(* The theorems                                                            *)

\* The inductive invariant: what is known at every place of the handler, what was
\* answered, and what the loop over the command line has found.
THEOREM InductiveTheorem == Spec => [](TInv /\ AnswerInv /\ LoopInv)
<1>1. Init => TInv /\ AnswerInv /\ LoopInv
  BY InitTInv, InitAnswerInv, InitLoopInv
<1>2. TInv /\ AnswerInv /\ LoopInv /\ [Next]_vars => (TInv /\ AnswerInv /\ LoopInv)'
  BY NextTInv, NextAnswerInv, NextLoopInv
<1> QED BY <1>1, <1>2, PTL DEF Spec

\* Every variable has its type, the router has registered a prefix of the routes,
\* and the model of a request is one of the parameters of its route.
THEOREM TypeTheorem == Spec => []TypeOK
<1>1. TInv => TypeOK
  BY TypesFollow
<1> QED BY <1>1, InductiveTheorem, PTL

\* Of every option of the command line the last occurrence counts, for a command
\* line of any length (parse_cmdline_args, main).
THEOREM ArgumentsTakenTheorem == Spec => []ArgumentsTaken
<1>1. TInv /\ LoopInv => ArgumentsTaken
  BY ArgumentsTakenFollows
<1> QED BY <1>1, InductiveTheorem, PTL

\* The conversions from JSON to a model, back and again lose no value and invent
\* none, for any texts and integers of any width (model.hpp, handler.hpp).
THEOREM ReadAsSentTheorem == Spec => []ReadAsSent
<1>1. TInv => ReadAsSent
  BY ReadAsSentFollows
<1> QED BY <1>1, InductiveTheorem, PTL

\* What a registration or a modification lets pass meets the constraints that the
\* reference prints for its route (model.hpp, constraint.hpp, router.hpp).
THEOREM AcceptedAsListedTheorem == Spec => []AcceptedAsListed
<1>1. TInv /\ AnswerInv => AcceptedAsListed
  BY AcceptedAsListedFollows DEF AnswerInv
<1> QED BY <1>1, InductiveTheorem, PTL

\* The status of an answer says who is to blame (handler.hpp, errors.hpp).
THEOREM BlameFitsTheorem == Spec => []BlameFits
<1>1. AnswerInv => BlameFits
  BY DEF AnswerInv
<1> QED BY <1>1, InductiveTheorem, PTL

\* An upload with the two parts it needs is not told that they are missing, for
\* forms of any length (parse_json_field_multiform, parse_file_field_multiform).
THEOREM PartsFoundTheorem == Spec => []PartsFound
<1>1. AnswerInv => PartsFound
  BY DEF AnswerInv
<1> QED BY <1>1, InductiveTheorem, PTL

\* A request changes one row or none, the one its URL names, for any width of the
\* two integers its id is kept in (routes.hpp, actions.hpp).
THEOREM OneRowOrNothingTheorem == Spec => []OneRowOrNothing
<1>1. AnswerInv => OneRowOrNothing
  BY DEF AnswerInv
<1> QED BY <1>1, InductiveTheorem, PTL

\* Which missing rows the client hears of, and which requests can stop the server.
THEOREM MissingRowsAreToldTheorem == Spec => []MissingRowsAreTold
<1>1. AnswerInv => MissingRowsAreTold
  BY DEF AnswerInv
<1> QED BY <1>1, InductiveTheorem, PTL
=============================================================================
