------------------------------- MODULE Models -------------------------------
(***************************************************************************)
(* The models of src/src/models.hpp: sequences of fields, each with a type *)
(* and constraints; how a model is read from JSON and written to JSON      *)
(* (src/src/model/model.hpp); and what the constraints ask of a value      *)
(* (src/src/model/constraint.hpp).                                         *)
(*                                                                         *)
(* A string is a record of what conversions and constraints look at.  A    *)
(* model object is a function from the names of its fields to values, with *)
(* NULL for an unset optional.                                             *)
(***************************************************************************)
EXTENDS Integers, Sequences

CONSTANTS NULL,
          Half,  \* half the number of int32_t and of uint32_t: 2^31 in the code
          Text   \* the strings that occur

\* word: the string, as far as it is compared with others; number: what it is
\* the numeral of; date: year, month and day if it reads dddd-dd-dd; mail: is it
\* an address, or has it at least an @ and a dot after.
IsText(s) ==
  /\ s = [word |-> s.word, length |-> s.length, chars |-> s.chars,
          number |-> s.number, date |-> s.date, mail |-> s.mail]
  /\ s.length \in Nat
  /\ s.chars \subseteq {"lower", "upper", "digit", "other"}
  /\ s.number \in Int \cup {NULL}
  /\ s.date \in (Nat \X Nat \X Nat) \cup {NULL}
  /\ s.mail \in {"address", "at_dot", "no"}

ASSUME ModelsAssumption ==
  /\ Half \in Nat \ {0, 1}
  /\ NULL \notin Int /\ NULL \notin Text /\ NULL \notin Nat \X Nat \X Nat
  /\ \A s \in Text : IsText(s)

Int32 == (-Half)..(Half - 1)
UInt32 == 0..(2 * Half - 1)
UnsignedLong == (2 * Half) * (2 * Half)

\* Faulty variant: the highest bit is dropped instead of being the sign.
CutPositive(n) == n % Half

\* Conversion of an integer to an int32_t.
Cut(n) == ((n + Half) % (2 * Half)) - Half

----------------------------------------------------------------------------
(* The models.  The constraints of a field are a set: each is checked by    *)
(* itself, and their order shows only in the order of messages.             *)

Constraint(name, from, to) == [name |-> name, from |-> from, to |-> to]
Length(from, to) == Constraint("Length", from, to)
Between(from, to) == Constraint("Between", from, to)
Plain(name) == Constraint(name, 0, 0)

Required == Plain("Required")
Unique == Plain("Unique")

ModelField(name, type, cnstr_list) ==
  [name |-> name, type |-> type, cnstr_list |-> cnstr_list]

IntField(name, cnstr_list) == ModelField(name, "int", cnstr_list)
TextField(name, cnstr_list) == ModelField(name, "string", cnstr_list)

User == <<
  IntField("id", {Unique}),
  TextField("username", {Unique, Length(1, 20), Required}),
  TextField("password", {Required, Plain("ValidPassword")}),
  TextField("email", {Unique, Required, Plain("ValidEmail")}),
  TextField("firstname", {Length(2, 64)}),
  TextField("lastname", {Length(2, 64)}),
  TextField("born", {Plain("ISOdate")}),
  TextField("gender", {Plain("ValidGender")}),
  TextField("biography", {Length(0, 8192)}),
  TextField("join_date", {Plain("ISOdate")}),
  IntField("permission_group", {}) >>

Photo == <<
  IntField("id", {Unique}),
  TextField("extension", {Required, Plain("ValidImageExtension")}),
  TextField("title", {Length(1, 255), Required}),
  TextField("category", {Length(0, 255), Required, Plain("ValidCategory")}),
  TextField("description", {Length(0, 4096)}),
  IntField("uploaded_by", {Unique}),
  TextField("upload_time", {}),
  IntField("is_private", {Required, Between(0, 1)}) >>

UserCredentials == <<
  TextField("username", {Unique, Length(1, 20), Required}),
  TextField("password", {Required, Plain("ValidPassword")}) >>

Empty == <<>>

\* Model::field_names, and the field of a name.
field_names(M) == {M[n].name : n \in DOMAIN M}
FieldOf(M, name) == CHOOSE d \in {M[n] : n \in DOMAIN M} : d.name = name

Unset(M) == [f \in field_names(M) |-> NULL]

----------------------------------------------------------------------------
(* JSON.  A value has a kind and a content; an object maps names to values; *)
(* numbers are those of 64 bits, and floating point is left out.            *)

Json(kind, content) == [kind |-> kind, content |-> content]

\* The types of the contents; the members of an object inside another one are
\* never looked at.
IsValue(j) ==
  /\ j = Json(j.kind, j.content)
  /\ j.kind = "string" => j.content \in Text
  /\ j.kind = "number" => j.content \in Int
  /\ j.kind = "boolean" => j.content \in BOOLEAN

IsJson(j) ==
  /\ IsValue(j)
  /\ j.kind = "object" => \A f \in DOMAIN j.content : IsValue(j.content[f])

JsonText(s) == Json("string", s)
JsonNumber(n) == Json("number", n)

\* Faulty variant: a numeral of any size (as with std::strtol and a cast).
lexical_cast_unchecked(s) == s.number

\* boost::lexical_cast<int32_t>, or NULL where it throws.
lexical_cast(s) == IF s.number \in Int32 THEN s.number ELSE NULL

\* The value of a field of the type, or NULL if the JSON value is empty or the
\* conversion throws: null, {} and [] are empty, "" is not.
Converted(type, j) ==
  CASE j.kind = "string"  -> IF type = "string" THEN j.content
                                                ELSE lexical_cast(j.content)
    [] j.kind = "number"  -> IF type = "int" THEN Cut(j.content) ELSE NULL
    [] j.kind = "boolean" -> IF type = "int" THEN IF j.content THEN 1 ELSE 0
                                             ELSE NULL
    [] OTHER -> NULL

\* A value that is no object has no members: every field stays unset.
from_json(M, j) ==
  [f \in field_names(M) |->
     IF j.kind = "object" /\ f \in DOMAIN j.content
     THEN Converted(FieldOf(M, f).type, j.content[f])
     ELSE NULL]

ValueToJson(M, f, v) ==
  IF FieldOf(M, f).type = "int" THEN JsonNumber(v) ELSE JsonText(v)

\* Faulty variant: an empty string and 0 count as not set.
to_json_truthy(M, model) ==
  Json("object",
       [f \in {g \in field_names(M) :
                 model[g] # NULL /\ IF FieldOf(M, g).type = "int"
                                    THEN model[g] # 0 ELSE model[g].length > 0} |->
          ValueToJson(M, f, model[f])])

\* Only the fields that are set.
to_json(M, model) ==
  LET set == {f \in field_names(M) : model[f] # NULL}
  IN  IF set = {} THEN Json("null", NULL)
      ELSE Json("object", [f \in set |-> ValueToJson(M, f, model[f])])

----------------------------------------------------------------------------
(* Constraints                                                             *)

Category == {"Nature", "Landscape", "Animal", "Fashion", "Technology",
             "Architecture", "Macro", "Sport", "Other"}

\* C::is_satisfied.  Between compares an int with unsigned longs.
is_satisfied(c, v) ==
  CASE c.name \in {"Required", "Unique"} -> TRUE
    [] c.name = "Length" -> v.length \in c.from..c.to
    [] c.name = "Between" -> v % UnsignedLong \in c.from..c.to
    [] c.name = "ValidEmail" -> v.mail = "address"
    [] c.name = "ValidPassword" -> v.length >= 8 /\ v.chars = {"lower", "upper", "digit"}
    [] c.name = "ValidImageExtension" ->
         v.word \in {".jpg", ".jpeg", ".png", ".gif", ".bmp"}
    [] c.name = "ValidCategory" -> v.word \in Category
    [] c.name = "ISOdate" -> /\ v.date # NULL
                             /\ v.date[1] \in 1000..2999
                             /\ v.date[2] \in 1..12 /\ v.date[3] \in 1..31
    [] c.name = "ValidGender" -> v.length = 1 /\ v.word \in {"m", "f"}

\* Field::unsatisfied_constraints: of a value all that do not hold, of an unset
\* field Required.
unsatisfied_constraints(d, v) ==
  IF v # NULL THEN {c \in d.cnstr_list : ~is_satisfied(c, v)}
              ELSE d.cnstr_list \cap {Required}

\* Model::get_unsatisfied_constraints: the fields that have some.
get_unsatisfied_constraints(M, model) ==
  [f \in {g \in field_names(M) : unsatisfied_constraints(FieldOf(M, g), model[g]) # {}} |->
     unsatisfied_constraints(FieldOf(M, f), model[f])]

\* Field::get_description, and Model::get_description, which the pages of the
\* reference print.
FieldDescription(d) == [type |-> d.type, cnstr_names |-> d.cnstr_list]

get_description(M) == [f \in field_names(M) |-> FieldDescription(FieldOf(M, f))]
=============================================================================
