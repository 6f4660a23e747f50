------------------------------ MODULE JsonFormat ------------------------------
(***************************************************************************)
(* The JSON form of a message                                              *)
(* (utils/prost-refect/prost-reflect/src/dynamic/serde).  A document is    *)
(* the value tree that serde hands over: an object is a sequence of        *)
(* entries, a string a sequence of characters; a number is integral and    *)
(* comes as an integer or as a float.                                      *)
(* Of the well-known types, those with a form of their own that is data    *)
(* and not a foreign text: Value, Struct, ListValue, the wrappers (one of  *)
(* them), FieldMask, Empty, NullValue.                                     *)
(***************************************************************************)
EXTENDS TextFormat

CONSTANT Documents  \* of each type, by full name, the documents that callers read

Null      == [null |-> 0]
Bool(x)   == [bool |-> x]
Number(n) == [number |-> n]
Float(x)  == [float |-> x]
String(s) == [string |-> s]
Array(s)  == [array |-> s]
Object(s) == [object |-> s]
Error     == [error |-> 0]   \* serialisation fails
JsonEntry(key, doc) == [key |-> key, doc |-> doc]

(* google.protobuf, its types under one letter each. *)
GoogleProtobuf == <<103>>
GEmpty   == <<GoogleProtobuf, <<69>>>>
GMask    == <<GoogleProtobuf, <<70>>>>
GList    == <<GoogleProtobuf, <<76>>>>
GNull    == <<GoogleProtobuf, <<78>>>>
GStruct  == <<GoogleProtobuf, <<83>>>>
GValue   == <<GoogleProtobuf, <<86>>>>
GWrapper == <<GoogleProtobuf, <<87>>>>

FullNameOf(ty) == Types.messages[ty].full
IsNull(kind)   == kind.k = "enum" /\ Types.enums[kind.of].full = GNull

JsonInfinity == <<73, 110, 102>>   \* stands for "Infinity"

-----------------------------------------------------------------------------
(* Base64, as the base64 crate has it: the standard alphabet written, that *)
(* and the one for URLs read; padding as it comes, trailing bits ignored.  *)

Sextet(c) == CASE IsUpper(c) -> c - 65  [] IsLower(c) -> c - 71  [] c \in Digits -> c + 4
               [] c \in {43, 45} -> 62  [] c \in {47, 95} -> 63  [] OTHER -> -1
Letter(x) == CHOOSE c \in 43 .. 122 : c \notin {45, 95} /\ Sextet(c) = x

(* The bits of numbers of the given width, from the highest; and the       *)
(* numbers of a width made of bits.                                        *)
BitsOf(seq, w) ==
  [i \in 1 .. w * Len(seq) |-> (seq[(i - 1) \div w + 1] \div 2 ^ (w - 1 - ((i - 1) % w))) % 2]
OfBits(bits, w, n) ==
  [i \in 1 .. n |-> FoldLeft(LAMBDA a, b : 2 * a + b, 0,
                     [j \in 1 .. w |-> IF w * (i - 1) + j <= Len(bits) THEN bits[w * (i - 1) + j] ELSE 0])]

Letters(sextets) == [i \in DOMAIN sextets |-> Letter(sextets[i])]
base64_encode(bytes) ==
  Letters(OfBits(BitsOf(bytes, 8), 6, (8 * Len(bytes) + 5) \div 6)) \o [i \in 1 .. (3 - (Len(bytes) % 3)) % 3 |-> 61]
base64_letters(s) ==
  [ok |-> Len(s) % 4 # 1 /\ \A i \in DOMAIN s : Sextet(s[i]) >= 0,
   v  |-> OfBits(BitsOf([i \in DOMAIN s |-> Sextet(s[i])], 6), 8, (6 * Len(s)) \div 8)]
base64_decode(s) == base64_letters(SelectSeq(s, LAMBDA c : c # 61))

-----------------------------------------------------------------------------
(* Field masks *)

Comma  == 44
Period == 46

(* The texts between the separators. *)
Split(s, sep) ==
  FoldLeft(LAMBDA acc, c : IF c = sep THEN Append(acc, <<>>) ELSE Append(Front(acc), Append(Last(acc), c)),
           <<<<>>>>, s)
Join(seq, sep) == FoldLeft(LAMBDA acc, s : IF acc = <<>> THEN s ELSE acc \o <<sep>> \o s, <<>>, seq)

snake_case_to_camel_case(s) ==
  [ok |-> \A i \in DOMAIN s : /\ ~IsUpper(s[i])
                              /\ i > 1 /\ s[i - 1] = Underscore => IsLower(s[i]),
   v  |-> to_json_name(s)]
camel_case_to_snake_case(s) ==
  [ok |-> \A i \in DOMAIN s : s[i] # Underscore,
   v  |-> FoldLeft(LAMBDA acc, c : IF IsUpper(c) THEN acc \o <<Underscore, to_ascii_lowercase(c)>> ELSE Append(acc, c),
                   <<>>, s)]

AllOf(rs) == [ok |-> \A i \in DOMAIN rs : rs[i].ok, v |-> [i \in DOMAIN rs |-> rs[i].v]]
CamelPath(parts) == AllOf([i \in DOMAIN parts |-> snake_case_to_camel_case(parts[i])])
SnakePath(parts) == AllOf([i \in DOMAIN parts |-> camel_case_to_snake_case(parts[i])])
Joined(r) == [ok |-> r.ok, v |-> Join(r.v, Period)]

Masked(r) == IF r.ok THEN String(Join(r.v, Comma)) ELSE Error
serialize_field_mask(paths) ==
  Masked(AllOf([i \in DOMAIN paths |-> Joined(CamelPath(Split(paths[i].string, Period)))]))

-----------------------------------------------------------------------------
(* Writing.  The options: 64-bit integers as strings, enums by number,     *)
(* fields by their name in the file, defaults left out.  As the first two  *)
(* concern values of different types, one stands for both.                 *)

Options == {[stringify64 |-> x, enumNumbers |-> ~x, protoNames |-> y, skipDefault |-> z] :
              x \in BOOLEAN, y \in BOOLEAN, z \in BOOLEAN}

ExtensionJsonName(f) == <<91>> \o Join(f.full, Period) \o <<93>>
JsonKey(ty, f, o) ==
  CASE f \notin FieldsOf(ty)                   -> ExtensionJsonName(f)
    [] f \in FieldsOf(ty) /\ o.protoNames      -> f.name
    [] f \in FieldsOf(ty) /\ ~o.protoNames     -> f.json

(* All fields that have no presence, whether set or not, and what is set   *)
(* of the others; then the extensions.                                     *)
iter_include_default(ty, m) ==
  SetToSortSeq({f.number : f \in {x \in FieldsOf(ty) : ~x.presence \/ has(ty, m, x)}}, <)
  \o SetToSortSeq({f.number : f \in {x \in ExtensionsOf(ty) : has(ty, m, x)}}, <)

JsonFields(ty, m, o) == IF o.skipDefault THEN Written(ty, m) ELSE iter_include_default(ty, m)

Integer64(x, o) == IF o.stringify64 THEN String(ToDecimal(x)) ELSE Number(x)
JsonFloat(x) == CASE x = Infinity  -> String(JsonInfinity)
                  [] x = -Infinity -> String(<<Minus>> \o JsonInfinity)
                  [] OTHER         -> Float(x)
JsonEnum(n, kind, o) ==
  CASE IsNull(kind) -> Null
    [] ~IsNull(kind) /\ (o.enumNumbers \/ EnumValue(kind.of, n) = {}) -> Number(n)
    [] OTHER -> String(Types.enums[kind.of].values[CHOOSE i \in EnumValue(kind.of, n) : TRUE].name)

JsonScalar(v, kind, o) ==
  CASE Variant(v) = "bool"            -> Bool(v.bool)
    [] Variant(v) \in {"i64", "u64"}  -> Integer64(Inside(v), o)
    [] Variant(v) \in {"f32", "f64"}  -> JsonFloat(Inside(v))
    [] Variant(v) = "string"          -> String(v.string)
    [] Variant(v) = "bytes"           -> String(base64_encode(v.bytes))
    [] Variant(v) = "enum"            -> JsonEnum(v.enum, kind, o)
    [] OTHER                          -> Number(Inside(v))

JsonMapKey(key) == CASE Variant(key) = "string" -> key.string
                     [] Variant(key) = "bool"   -> BoolName(key.bool)
                     [] OTHER                   -> ToDecimal(Inside(key))

(* transcode_to: what a typed message has after decoding the encoded one. *)
transcode(ty, m) == Known(ty, Canonical(ty, m))

RECURSIVE serialize_value(_), serialize_struct(_), serialize_list(_)
serialize_struct(m) ==
  Object(IF 1 \notin DOMAIN m THEN <<>>
         ELSE [i \in 1 .. Cardinality(DOMAIN m[1].value.map) |->
                 \* a BTreeMap: any one order here
                 LET key == SetToSeq(DOMAIN m[1].value.map)[i]
                 IN JsonEntry(key.string, serialize_value(m[1].value.map[key].message))])
serialize_list(m) ==
  Array(IF 1 \notin DOMAIN m THEN <<>>
        ELSE [i \in DOMAIN m[1].value.list |-> serialize_value(m[1].value.list[i].message)])
serialize_value(m) ==
  CASE 2 \in DOMAIN m -> IF m[2].value.f64 \in {Infinity, -Infinity} THEN Error ELSE Float(m[2].value.f64)
    [] 3 \in DOMAIN m -> String(m[3].value.string)
    [] 4 \in DOMAIN m -> Bool(m[4].value.bool)
    [] 5 \in DOMAIN m -> serialize_struct(m[5].value.message)
    [] 6 \in DOMAIN m -> serialize_list(m[6].value.message)
    [] OTHER          -> Null

(* The types with a form of their own; m is transcoded. *)
serialize_well_known(ty, m, o) ==
  CASE FullNameOf(ty) = GEmpty   -> Object(<<>>)
    [] FullNameOf(ty) = GMask    -> serialize_field_mask(get(m, get_field(ty, 1)).list)
    [] FullNameOf(ty) = GList    -> serialize_list(m)
    [] FullNameOf(ty) = GStruct  -> serialize_struct(m)
    [] FullNameOf(ty) = GValue   -> serialize_value(m)
    [] FullNameOf(ty) = GWrapper -> Integer64(get(m, get_field(ty, 1)).i64, o)

WellKnown == {GEmpty, GMask, GList, GStruct, GValue, GWrapper}

RECURSIVE serialize_message(_, _, _), JsonValue(_, _, _)
JsonValue(v, kind, o) ==
  CASE Variant(v) = "message" -> serialize_message(kind.of, v.message, o)
    [] Variant(v) = "list" -> Array([i \in DOMAIN v.list |-> JsonValue(v.list[i], kind, o)])
    [] Variant(v) = "map" ->
         Object([i \in 1 .. Cardinality(DOMAIN v.map) |->
                   LET key == SetToSeq(DOMAIN v.map)[i]
                   IN JsonEntry(JsonMapKey(key), JsonValue(v.map[key], get_field(kind.of, 2).kind, o))])
    [] OTHER -> JsonScalar(v, kind, o)

JsonField(ty, m, f, o) == JsonEntry(JsonKey(ty, f, o), JsonValue(get(m, f), f.kind, o))
serialize_message(ty, m, o) ==
  IF FullNameOf(ty) \in WellKnown THEN serialize_well_known(ty, transcode(ty, m), o)
  ELSE LET ns == JsonFields(ty, m, o)
       IN Object([i \in DOMAIN ns |-> JsonField(ty, m, get_field(ty, ns[i]), o)])

(* One error anywhere and nothing is written. *)
RECURSIVE Fails(_)
Fails(doc) == CASE Variant(doc) = "error"  -> TRUE
                [] Variant(doc) = "array"  -> \E i \in DOMAIN doc.array : Fails(doc.array[i])
                [] Variant(doc) = "object" -> \E i \in DOMAIN doc.object : Fails(doc.object[i].doc)
                [] OTHER                   -> FALSE

-----------------------------------------------------------------------------
(* Reading *)

Done(x)  == [ok |-> TRUE, v |-> x]
NotRead  == [ok |-> FALSE, v |-> <<>>]
Is(doc, var) == var \in DOMAIN doc

JsonInteger(doc, signed) ==
  CASE Is(doc, "string") -> FromStr(doc.string, signed)
    [] Is(doc, "number") \/ Is(doc, "float") -> [ok |-> signed \/ Inside(doc) >= 0, v |-> Inside(doc)]
    [] OTHER -> NotRead
JsonDouble(doc) ==
  CASE doc = String(JsonInfinity) -> Done(Infinity)
    [] doc = String(<<Minus>> \o JsonInfinity) -> Done(-Infinity)
    [] OTHER -> JsonInteger(doc, TRUE)

Numbered1(enum, is) == IF is = {} THEN NotRead ELSE Done(Types.enums[enum].values[CHOOSE i \in is : TRUE].number)
deserialize_enum(kind, doc) ==
  CASE Is(doc, "string") -> Numbered1(kind.of, EnumNumber(kind.of, doc.string))
    [] IsNull(kind) /\ Is(doc, "null") -> Done(0)
    [] ~IsNull(kind) /\ Is(doc, "number") -> Done(doc.number)
    [] OTHER -> NotRead

ReadScalar(kind, doc) ==
  CASE kind.k \in {"float", "double"} -> JsonDouble(doc)
    [] kind.k = "bool"   -> IF Is(doc, "bool") THEN Done(doc.bool) ELSE NotRead
    [] kind.k = "string" -> IF Is(doc, "string") THEN Done(doc.string) ELSE NotRead
    [] kind.k = "bytes"  -> IF Is(doc, "string") THEN base64_decode(doc.string) ELSE NotRead
    [] kind.k = "enum"   -> deserialize_enum(kind, doc)
    [] OTHER             -> JsonInteger(doc, Variants[kind.k] \in {"i32", "i64"})
AsKind(k, r) == [ok |-> r.ok, v |-> ValueOf(k, r.v)]

ReadMapKey(k, s) ==
  CASE k = "string" -> Done(s)
    [] k = "bool"   -> IF s \in DOMAIN BoolNames THEN Done(BoolNames[s]) ELSE NotRead
    [] OTHER        -> FromStr(s, Variants[k] \in {"i32", "i64"})

(* make_message of a typed message: the one field it has, if not empty. *)
Made(r, n, variant, empty) ==
  [ok |-> r.ok, v |-> IF r.v = empty THEN <<>> ELSE n :> [value |-> (variant :> r.v)]]
Kept1(r, n, variant) == [ok |-> r.ok, v |-> n :> [value |-> (variant :> r.v)]]

MaskRead(paths) == AllOf([i \in DOMAIN paths |-> Joined(SnakePath(Split(paths[i], Period)))])
Strings(r) == [ok |-> r.ok, v |-> [i \in DOMAIN r.v |-> [string |-> r.v[i]]]]
deserialize_field_mask(doc) ==
  IF ~Is(doc, "string") THEN NotRead
  ELSE Made(Strings(MaskRead(SelectSeq(Split(doc.string, Comma), LAMBDA p : p # <<>>))), 1, "list", <<>>)

(* The entries in turn; the last one of a key stays. *)
Mapping(keys, values) ==
  [ok |-> keys.ok /\ values.ok,
   v  |-> FoldLeft(LAMBDA map, i : (keys.v[i] :> values.v[i]) @@ map, <<>>, [i \in DOMAIN keys.v |-> i])]
Messages(r) == [ok |-> r.ok, v |-> [i \in DOMAIN r.v |-> [message |-> r.v[i]]]]

RECURSIVE deserialize_value(_)
deserialize_list(doc) ==
  IF ~Is(doc, "array") THEN NotRead
  ELSE Made(Messages(AllOf([i \in DOMAIN doc.array |-> deserialize_value(doc.array[i])])), 1, "list", <<>>)
deserialize_struct(doc) ==
  IF ~Is(doc, "object") THEN NotRead
  ELSE Made(Mapping(Strings(Done([i \in DOMAIN doc.object |-> doc.object[i].key])),
                    Messages(AllOf([i \in DOMAIN doc.object |-> deserialize_value(doc.object[i].doc)]))),
            1, "map", <<>>)
deserialize_value(doc) ==
  CASE Is(doc, "null")   -> Kept1(Done(0), 1, "enum")
    [] Is(doc, "number") \/ Is(doc, "float") -> Kept1(Done(Inside(doc)), 2, "f64")
    [] Is(doc, "string") -> Kept1(Done(doc.string), 3, "string")
    [] Is(doc, "bool")   -> Kept1(Done(doc.bool), 4, "bool")
    [] Is(doc, "object") -> Kept1(deserialize_struct(doc), 5, "message")
    [] Is(doc, "array")  -> Kept1(deserialize_list(doc), 6, "message")

First(s, t) == IF s # {} THEN s ELSE t

(* Only the names that are written by default. *)
field_by_key_Json(ty, key) ==
  First({f \in FieldsOf(ty) : f.json = key}, {f \in ExtensionsOf(ty) : ExtensionJsonName(f) = key})

(* A key is a JSON name, the name in the file, or that of an extension. *)
field_by_key(ty, key) ==
  First({f \in FieldsOf(ty) : f.json = key},
        First({f \in FieldsOf(ty) : f.name = key}, {f \in ExtensionsOf(ty) : ExtensionJsonName(f) = key}))

Optional(r) == [ok |-> r.ok, v |-> {r.v}]
SetRead(ty, m, f, r) ==
  CASE ~r.ok -> NotRead
    [] r.ok /\ r.v = {} -> Done(m)
    [] r.ok /\ r.v # {} -> IF f.oneof # 0 /\ AlreadySet(ty, m, f) THEN NotRead
                          ELSE Done(set(ty, m, f, CHOOSE x \in r.v : TRUE))

RECURSIVE deserialize_message(_, _, _), deserialize_field(_, _, _), deserialize_kind(_, _, _)

AsMessage1(r) == [ok |-> r.ok, v |-> [message |-> r.v]]
AsList1(r)    == [ok |-> r.ok, v |-> [list |-> r.v]]
AsMap1(r)     == [ok |-> r.ok, v |-> [map |-> r.v]]

deserialize_kind(kind, doc, deny) ==
  IF is_message(kind) THEN AsMessage1(deserialize_message(kind.of, doc, deny)) ELSE AsKind(kind.k, ReadScalar(kind, doc))

deserialize_field(f, doc, deny) ==
  CASE is_list(f) -> IF Is(doc, "array") THEN AsList1(AllOf([i \in DOMAIN doc.array |-> deserialize_kind(f.kind, doc.array[i], deny)]))
                     ELSE NotRead
    [] is_map(f)  -> IF Is(doc, "object")
                       THEN AsMap1(Mapping(
                              AllOf([i \in DOMAIN doc.object |->
                                       AsKind(map_entry_key_field(f).kind.k,
                                              ReadMapKey(map_entry_key_field(f).kind.k, doc.object[i].key))]),
                              AllOf([i \in DOMAIN doc.object |->
                                       deserialize_field(map_entry_value_field(f), doc.object[i].doc, deny)])))
                       ELSE NotRead
    [] OTHER      -> deserialize_kind(f.kind, doc, deny)

(* null is the default, except that a message is left alone. *)
deserialize_optional(f, doc, deny) ==
  CASE ~Is(doc, "null") -> Optional(deserialize_field(f, doc, deny))
    [] Is(doc, "null") /\ ~is_message(f.kind) -> Done({default_value_for_field(f)})
    [] OTHER -> Done(IF FullNameOf(f.kind.of) = GValue THEN {[message |-> deserialize_value(Null).v]} ELSE {})

deserialize_entry(ty, m, fs, doc, deny) ==
  IF fs = {} THEN (IF deny THEN NotRead ELSE Done(m))
  ELSE SetRead(ty, m, CHOOSE f \in fs : TRUE, deserialize_optional(CHOOSE f \in fs : TRUE, doc, deny))

deserialize_message(ty, doc, deny) ==
  CASE FullNameOf(ty) = GEmpty   -> IF doc = Object(<<>>) THEN Done(<<>>) ELSE NotRead
    [] FullNameOf(ty) = GMask    -> deserialize_field_mask(doc)
    [] FullNameOf(ty) = GList    -> deserialize_list(doc)
    [] FullNameOf(ty) = GStruct  -> deserialize_struct(doc)
    [] FullNameOf(ty) = GValue   -> deserialize_value(doc)
    [] FullNameOf(ty) = GWrapper -> Made(JsonInteger(doc, TRUE), 1, "i64", 0)
    [] OTHER -> IF ~Is(doc, "object") THEN NotRead
                ELSE FoldLeft(LAMBDA acc, e : IF acc.ok THEN deserialize_entry(ty, acc.v, field_by_key(ty, e.key), e.doc, deny)
                                              ELSE acc,
                              Done(<<>>), doc.object)

(* A caller reads a document into a new message. *)
deserialize ==
  \E doc \in Documents[FullName], deny \in BOOLEAN : \E r \in {deserialize_message(type, doc, deny)} :
    r.ok /\ msg' = r.v

NextDocument == NextMessage \/ (type # 0 /\ deserialize /\ UNCHANGED <<schema, type>> /\ Within(msg'))

-----------------------------------------------------------------------------

(* What JSON cannot tell: a single value in a list or map field from a     *)
(* malformed list or map, a Value that is unset from null, a path of a     *)
(* mask that is empty, has a comma or a part that ends in an underscore.   *)
PlainPath(path) == /\ path # <<>> /\ Comma \notin ToSet(path)
                   /\ \A i \in DOMAIN path : path[i] = Underscore => i < Len(path) /\ path[i + 1] # Period

RECURSIVE Expressible(_, _)
ExpressibleValue(f, v) ==
  CASE Variant(v) = "message" -> f.label # "repeated" /\ Expressible(f.kind.of, v.message)
    [] Variant(v) = "list" -> \A i \in DOMAIN v.list : is_message(f.kind) => Expressible(f.kind.of, v.list[i].message)
    [] Variant(v) = "map"  -> \A key \in DOMAIN v.map : is_message(map_entry_value_field(f).kind)
                                => Expressible(map_entry_value_field(f).kind.of, v.map[key].message)
    [] OTHER               -> f.label # "repeated"
Expressible(ty, m) ==
  /\ FullNameOf(ty) = GValue => m # <<>>
  /\ FullNameOf(ty) = GMask /\ 1 \in DOMAIN m => \A i \in DOMAIN m[1].value.list : PlainPath(m[1].value.list[i].string)
  /\ \A n \in DOMAIN m : IsValue(m[n]) => ExpressibleValue(get_field(ty, n), m[n].value)

(* However a message was put together, and whatever the options it is      *)
(* written with, the document reads back as the message without its        *)
(* unknown fields, unless writing it is an error or JSON cannot tell: the  *)
(* fields are found by either of their names and the extensions by theirs, *)
(* defaults that are written out are defaults again, 64-bit integers and   *)
(* map keys survive as strings, infinities and bytes as texts.             *)
JsonReadsBack ==
  type # 0 /\ Expressible(type, msg) =>
    \A written \in {Known(type, Canonical(type, msg))} :
    \A o \in Options : \A doc \in {serialize_message(type, msg, o)} :
      ~Fails(doc) => \A r \in {deserialize_message(type, doc, TRUE)} : r.ok /\ Canonical(type, r.v) = written

=============================================================================
