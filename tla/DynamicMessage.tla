---------------------------- MODULE DynamicMessage ----------------------------
(***************************************************************************)
(* Messages of a type known only at run time                               *)
(* (utils/prost-refect/prost-reflect/src/dynamic): a map from field number *)
(* to a value, or to the unknown fields read under that number; setting    *)
(* and clearing fields, and the wire format.                               *)
(*                                                                         *)
(* A value has one field named for its variant.  A number is an integer, a *)
(* string or a byte string a sequence of bytes, a map a function.  A       *)
(* buffer is a sequence of tokens, as prost's encoding functions write and *)
(* read them: a key, a varint, a fixed-width number, a byte.  A negative   *)
(* varint stands for its 64-bit two's complement.                          *)
(***************************************************************************)
EXTENDS Descriptors

CONSTANTS Files,       \* the files that describe the messages
          Older,       \* of each type in use, by full name, an older form with fewer fields
          Inputs,      \* of each type, of each field number, the values that callers set
          Buffers,     \* of each type, the buffers that callers merge
          MaxEntries,  \* bound on the entries of the message
          MaxBytes     \* bound on its encoded length

VARIABLES schema,  \* the pool that descriptors refer to, and its fields by number
          type,    \* the descriptor of the message: an index into the pool; 0 before there is one
          msg      \* its fields

msgVars == <<schema, type, msg>>

-----------------------------------------------------------------------------
(* Descriptors of fields and extensions *)

(* Fields, and then extensions, by number. *)
Numbers(p, ty) == {p.messages[ty].fields[i] : i \in DOMAIN p.messages[ty].fields}
                  \cup {p.extensions[e] : e \in ToSet(p.messages[ty].extensions)}
field_numbers(p) ==
  [ty \in DOMAIN p.messages |->
     [n \in {f.number : f \in Numbers(p, ty)} |-> CHOOSE f \in Numbers(p, ty) : f.number = n]]

(* The files added one after the other. *)
RECURSIVE AddEach(_, _)
AddEach(r, files) ==
  IF ~r.ok \/ files = <<>> THEN r ELSE AddEach(build_files(r.pool, <<Head(files)>>), Tail(files))

SchemaOf(p) == [pool |-> p, fields |-> field_numbers(p)]

Types       == schema.pool
ByNumber    == schema.fields
IndexOf(full) == CHOOSE i \in get_by_name(Types, "message", full) : TRUE
FullName    == Types.messages[type].full
FieldsOf(ty)     == ToSet(Types.messages[ty].fields)
ExtensionsOf(ty) == {Types.extensions[e] : e \in ToSet(Types.messages[ty].extensions)}
IsKnown(ty, n)   == n \in DOMAIN ByNumber[ty]
get_field(ty, n) == ByNumber[ty][n]

is_group(f) == f.kind.k = "group"
is_map(f)   == f.label = "repeated" /\ is_message(f.kind) /\ Types.messages[f.kind.of].entry
is_list(f)  == f.label = "repeated" /\ ~is_map(f)
map_entry_key_field(f)   == get_field(f.kind.of, 1)
map_entry_value_field(f) == get_field(f.kind.of, 2)

-----------------------------------------------------------------------------
(* Values *)

Variant(v) == CHOOSE t \in DOMAIN v : TRUE
Inside(v)  == v[Variant(v)]

default_value(kind) ==
  CASE is_message(kind)                -> [message |-> <<>>]
    [] kind.k = "enum"                 -> [enum |-> Types.enums[kind.of].values[1].number]
    [] kind.k \in {"string", "bytes"}  -> ValueOf(kind.k, <<>>)
    [] OTHER                           -> ValueOf(kind.k, 0)

default_value_for_field(f) ==
  CASE is_list(f) -> [list |-> <<>>]
    [] is_map(f)  -> [map |-> <<>>]
    [] OTHER      -> IF f.def # NoValue THEN f.def ELSE default_value(f.kind)

is_valid(v, kind) == Variant(v) = Variants[kind.k]

(* Only what can be encoded: a single value is valid for a list field and  *)
(* an entry for a map field.                                               *)
is_valid_for_field(v, f) ==
  CASE Variant(v) = "list" /\ is_list(f) -> \A i \in DOMAIN v.list : is_valid(v.list[i], f.kind)
    [] Variant(v) = "map" /\ is_map(f)   ->
         \A key \in DOMAIN v.map : /\ is_valid(key, map_entry_key_field(f).kind)
                                   /\ is_valid(v.map[key], map_entry_value_field(f).kind)
    [] OTHER                             -> is_valid(v, f.kind)

IsDefault(f, v) == ~f.presence /\ v = default_value_for_field(f)

-----------------------------------------------------------------------------
(* The set of fields *)

IsValue(e) == "value" \in DOMAIN e
has(ty, m, f) == f.number \in DOMAIN m /\ IsValue(m[f.number]) /\ ~IsDefault(f, m[f.number].value)
get(m, f) == IF f.number \in DOMAIN m /\ IsValue(m[f.number]) THEN m[f.number].value
             ELSE default_value_for_field(f)

Siblings(ty, f) == IF f.oneof = 0 THEN {}
                   ELSE {n \in DOMAIN ByNumber[ty] : get_field(ty, n).oneof = f.oneof} \ {f.number}
clear_oneof_fields(ty, m, f) == Restrict(m, DOMAIN m \ Siblings(ty, f))
Insert(m, n, e) == (n :> e) @@ m

set(ty, m, f, v) == Insert(clear_oneof_fields(ty, m, f), f.number, [value |-> v])
get_mut(ty, m, f) == Insert(clear_oneof_fields(ty, m, f), f.number, [value |-> get(m, f)])
clear(m, f) == Restrict(m, DOMAIN m \ {f.number})

(* The numbers written, in their order: unknown fields, and values that    *)
(* are not the default of a field without presence.                        *)
iter(ty, m) ==
  SetToSortSeq({n \in DOMAIN m : IsValue(m[n]) => ~IsDefault(get_field(ty, n), m[n].value)}, <)

-----------------------------------------------------------------------------
(* The wire format of prost *)

WVarint == 0
W64     == 1
WBytes  == 2
WStart  == 3
WEnd    == 4
W32     == 5

Key(n, w)   == [t |-> "key", n |-> n, v |-> w]
Varint(v)   == [t |-> "varint", n |-> 0, v |-> v]
Fixed(n, v) == [t |-> "fixed", n |-> n, v |-> v]
Byte(v)     == [t |-> "byte", n |-> 0, v |-> v]

encoded_len_varint(v) ==
  IF v < 0 THEN 10 ELSE Min({k \in 1 .. 5 : k = 5 \/ v < 128 ^ k})
key_len(n) == encoded_len_varint(8 * n)

Size(tok) == CASE tok.t = "key"    -> key_len(tok.n)
               [] tok.t = "varint" -> encoded_len_varint(tok.v)
               [] tok.t = "fixed"  -> tok.n
               [] OTHER            -> 1
Bytes(buf) == FoldLeft(LAMBDA s, tok : s + Size(tok), 0, buf)

Concat(Op(_), seq) == FoldLeft(LAMBDA acc, x : acc \o Op(x), <<>>, seq)
Total(Op(_), seq)  == FoldLeft(LAMBDA acc, x : acc + Op(x), 0, seq)

wire_type(k) == CASE k \in {"double", "fixed64", "sfixed64"} -> W64
                  [] k \in {"float", "fixed32", "sfixed32"}  -> W32
                  [] k \in {"string", "bytes", "message"}    -> WBytes
                  [] k = "group"                             -> WStart
                  [] OTHER                                   -> WVarint

IsSint(k)    == k \in {"sint32", "sint64"}
from_sint(v) == IF v < 0 THEN -2 * v - 1 ELSE 2 * v
to_sint(u)   == IF u % 2 = 1 THEN -((u + 1) \div 2) ELSE u \div 2

EncodeScalar(k, x) ==
  CASE k \in {"string", "bytes"} -> <<Varint(Len(x))>> \o [i \in DOMAIN x |-> Byte(x[i])]
    [] wire_type(k) = W32        -> <<Fixed(4, x)>>
    [] wire_type(k) = W64        -> <<Fixed(8, x)>>
    [] OTHER                     -> <<Varint(IF IsSint(k) THEN from_sint(x) ELSE x)>>

(* The length counted without the sign moved to the last bit. *)
ScalarLen_Sint(k, x) ==
  CASE k \in {"string", "bytes"} -> encoded_len_varint(Len(x)) + Len(x)
    [] wire_type(k) = W32        -> 4
    [] wire_type(k) = W64        -> 8
    [] OTHER                     -> encoded_len_varint(x)

ScalarLen(k, x) ==
  CASE k \in {"string", "bytes"} -> encoded_len_varint(Len(x)) + Len(x)
    [] wire_type(k) = W32        -> 4
    [] wire_type(k) = W64        -> 8
    [] OTHER                     -> encoded_len_varint(IF IsSint(k) THEN from_sint(x) ELSE x)

-----------------------------------------------------------------------------
(* Unknown fields *)

RECURSIVE unknown_encoded_len(_, _)
unknown_encoded_len(n, u) ==
  CASE Variant(u) = "varint" -> key_len(n) + encoded_len_varint(u.varint)
    [] Variant(u) = "fixed"  -> key_len(n) + u.fixed.n
    [] Variant(u) = "bytes"  -> key_len(n) + encoded_len_varint(Bytes(u.bytes)) + Bytes(u.bytes)
    [] Variant(u) = "group"  ->
         2 * key_len(n) + Total(LAMBDA k : Total(LAMBDA x : unknown_encoded_len(k, x), u.group[k]),
                                SetToSeq(DOMAIN u.group))

RECURSIVE unknown_encode_field(_, _)
unknown_encode_field(n, u) ==
  CASE Variant(u) = "varint" -> <<Key(n, WVarint), Varint(u.varint)>>
    [] Variant(u) = "fixed"  -> <<Key(n, IF u.fixed.n = 4 THEN W32 ELSE W64), u.fixed>>
    [] Variant(u) = "bytes"  -> <<Key(n, WBytes), Varint(Bytes(u.bytes))>> \o u.bytes
    [] Variant(u) = "group"  ->
         <<Key(n, WStart)>>
         \o Concat(LAMBDA k : Concat(LAMBDA x : unknown_encode_field(k, x), u.group[k]),
                   SetToSortSeq(DOMAIN u.group, <))
         \o <<Key(n, WEnd)>>

-----------------------------------------------------------------------------
(* Encoding.  The entries of a map come in the order of the hash map:      *)
(* here any one order.                                                     *)

RECURSIVE message_encoded_len(_, _), encoded_len(_, _)

LenDelimited(n, len) == key_len(n) + encoded_len_varint(len) + len

encoded_len(f, v) ==
  IF IsDefault(f, v) THEN 0
  ELSE CASE Variant(v) = "message" ->
              LET len == message_encoded_len(f.kind.of, v.message)
              IN IF is_group(f) THEN 2 * key_len(f.number) + len ELSE LenDelimited(f.number, len)
         [] Variant(v) = "list" ->
              IF f.packed
                THEN LenDelimited(f.number, Total(LAMBDA x : ScalarLen(f.kind.k, Inside(x)), v.list))
                ELSE Total(LAMBDA x : encoded_len(f, x), v.list)
         [] Variant(v) = "map" ->
              Total(LAMBDA key : LenDelimited(f.number, encoded_len(map_entry_key_field(f), key)
                                   + encoded_len(map_entry_value_field(f), v.map[key])),
                    SetToSeq(DOMAIN v.map))
         [] OTHER -> key_len(f.number) + ScalarLen(f.kind.k, Inside(v))

message_encoded_len(ty, m) ==
  Total(LAMBDA n : IF IsValue(m[n]) THEN encoded_len(get_field(ty, n), m[n].value)
                   ELSE Total(LAMBDA u : unknown_encoded_len(n, u), m[n].unknown),
        iter(ty, m))

RECURSIVE encode_raw(_, _), encode_field(_, _)

encode_field(f, v) ==
  IF IsDefault(f, v) THEN <<>>
  ELSE CASE Variant(v) = "message" ->
              LET body == encode_raw(f.kind.of, v.message)
              IN IF is_group(f) THEN <<Key(f.number, WStart)>> \o body \o <<Key(f.number, WEnd)>>
                 ELSE <<Key(f.number, WBytes), Varint(message_encoded_len(f.kind.of, v.message))>> \o body
         [] Variant(v) = "list" ->
              IF f.packed
                THEN <<Key(f.number, WBytes), Varint(Total(LAMBDA x : ScalarLen(f.kind.k, Inside(x)), v.list))>>
                     \o Concat(LAMBDA x : EncodeScalar(f.kind.k, Inside(x)), v.list)
                ELSE Concat(LAMBDA x : encode_field(f, x), v.list)
         [] Variant(v) = "map" ->
              Concat(LAMBDA key :
                       <<Key(f.number, WBytes), Varint(encoded_len(map_entry_key_field(f), key)
                                                       + encoded_len(map_entry_value_field(f), v.map[key]))>>
                       \o encode_field(map_entry_key_field(f), key)
                       \o encode_field(map_entry_value_field(f), v.map[key]),
                     SetToSeq(DOMAIN v.map))
         [] OTHER -> <<Key(f.number, wire_type(f.kind.k))>> \o EncodeScalar(f.kind.k, Inside(v))

encode_raw(ty, m) ==
  Concat(LAMBDA n : IF IsValue(m[n]) THEN encode_field(get_field(ty, n), m[n].value)
                    ELSE Concat(LAMBDA u : unknown_encode_field(n, u), m[n].unknown),
         iter(ty, m))

-----------------------------------------------------------------------------
(* Decoding.  What was merged before an error stays. *)

Read(ok, v, rest) == [ok |-> ok, v |-> v, rest |-> rest]

Cut(buf, n) == IF n > Len(buf) THEN Read(FALSE, <<>>, <<>>)
               ELSE Read(TRUE, SubSeq(buf, 1, n), SubSeq(buf, n + 1, Len(buf)))

(* The next len bytes; a buffer that ends before them is an error. *)
Take(buf, len) ==
  Cut(buf, Min({n \in 0 .. Len(buf) : Bytes(SubSeq(buf, 1, n)) = len} \cup {Len(buf) + 1}))

TakeDelimited(buf) ==
  IF buf = <<>> \/ Head(buf).t # "varint" THEN Read(FALSE, <<>>, <<>>) ELSE Take(Tail(buf), Head(buf).v)

DecodeBytes(k, old, body) ==
  Read(body.ok, IF body.ok THEN ValueOf(k, [i \in DOMAIN body.v |-> body.v[i].v]) ELSE old, body.rest)
DecodeNumber(k, tok, rest) ==
  Read(tok.t = (IF wire_type(k) = WVarint THEN "varint" ELSE "fixed"),
       ValueOf(k, IF IsSint(k) THEN to_sint(tok.v) ELSE tok.v), rest)

DecodeScalar(k, old, wire, buf) ==
  IF wire # wire_type(k) \/ buf = <<>> THEN Read(FALSE, old, buf)
  ELSE IF wire = WBytes THEN DecodeBytes(k, old, TakeDelimited(buf))
  ELSE DecodeNumber(k, Head(buf), Tail(buf))

RECURSIVE DecodeUnknown(_, _, _), DecodeUnknownGroup(_, _, _), UnknownRead(_, _, _, _)

UnknownBytes(body) == Read(body.ok, [bytes |-> body.v], body.rest)

DecodeUnknown(n, wire, buf) ==
  CASE wire \in {WVarint, W32, W64} ->
         IF buf = <<>> THEN Read(FALSE, <<>>, buf)
         ELSE Read(TRUE, IF wire = WVarint THEN [varint |-> Head(buf).v] ELSE [fixed |-> Head(buf)], Tail(buf))
    [] wire = WBytes -> UnknownBytes(TakeDelimited(buf))
    [] wire = WStart -> DecodeUnknownGroup(n, <<>>, buf)
    [] OTHER         -> Read(FALSE, <<>>, buf)

Pushed(fields, n, u) == Insert(fields, n, IF n \in DOMAIN fields THEN Append(fields[n], u) ELSE <<u>>)

UnknownRead(n, fields, k, r) ==
  IF r.ok THEN DecodeUnknownGroup(n, Pushed(fields, k, r.v), r.rest) ELSE Read(FALSE, [group |-> fields], r.rest)

DecodeUnknownGroup(n, fields, buf) ==
  CASE buf = <<>> -> Read(FALSE, [group |-> fields], buf)
    [] buf # <<>> /\ Head(buf).v = WEnd -> Read(Head(buf).n = n, [group |-> fields], Tail(buf))
    [] OTHER -> UnknownRead(n, fields, Head(buf).n, DecodeUnknown(Head(buf).n, Head(buf).v, Tail(buf)))

(* A packed list, element by element. *)
RECURSIVE PackedFrom(_, _, _), PackedRead(_, _, _)
PackedRead(kind, list, r) ==
  IF r.ok THEN PackedFrom(kind, Append(list, r.v), r.rest) ELSE Read(FALSE, list, r.rest)
PackedFrom(kind, list, buf) ==
  IF buf = <<>> THEN Read(TRUE, list, buf)
  ELSE PackedRead(kind, list, DecodeScalar(kind.k, default_value(kind), wire_type(kind.k), buf))

RECURSIVE merge_value(_, _, _, _), merge_delimited(_, _, _, _), EntryFrom(_, _, _), EntryRead(_, _, _, _),
          merge(_, _, _, _), FieldRead(_, _, _)

AsMessage(r)     == Read(r.ok, [message |-> r.v], r.rest)
AsList(r)        == Read(r.ok, [list |-> r.v], r.rest)
Appended(v, r)   == Read(r.ok, IF r.ok THEN [list |-> Append(v.list, r.v)] ELSE v, r.rest)
Inserted(v, r)   == Read(r.ok, IF r.ok THEN [map |-> (r.v.key :> r.v.value) @@ v.map] ELSE v, r.rest)
EmptyEntry(f)    == [key   |-> default_value(map_entry_key_field(f).kind),
                     value |-> default_value_for_field(map_entry_value_field(f))]

(* What comes with its length: a message, a packed list, an entry. *)
merge_delimited(f, v, buf, body) ==
  CASE ~body.ok -> Read(FALSE, v, buf)
    [] body.ok /\ Variant(v) = "message" ->
         [AsMessage(merge(f.kind.of, v.message, 0, body.v)) EXCEPT !.rest = body.rest]
    [] body.ok /\ Variant(v) = "list" -> [AsList(PackedFrom(f.kind, v.list, body.v)) EXCEPT !.rest = body.rest]
    [] body.ok /\ Variant(v) = "map" -> [Inserted(v, EntryFrom(f, EmptyEntry(f), body.v)) EXCEPT !.rest = body.rest]

merge_value(f, v, wire, buf) ==
  CASE Variant(v) = "message" ->
         IF wire # wire_type(f.kind.k) THEN Read(FALSE, v, buf)
         ELSE IF is_group(f) THEN AsMessage(merge(f.kind.of, v.message, f.number, buf))
         ELSE merge_delimited(f, v, buf, TakeDelimited(buf))
    [] Variant(v) = "list" ->
         IF wire = WBytes /\ is_packable(f.kind) THEN merge_delimited(f, v, buf, TakeDelimited(buf))
         ELSE Appended(v, merge_value(f, default_value(f.kind), wire, buf))
    [] Variant(v) = "map" -> merge_delimited(f, v, buf, TakeDelimited(buf))
    [] OTHER -> DecodeScalar(f.kind.k, v, wire, buf)

EntryRead(f, e, n, r) ==
  CASE ~r.ok          -> Read(FALSE, e, r.rest)
    [] r.ok /\ n = 1  -> EntryFrom(f, [e EXCEPT !.key = r.v], r.rest)
    [] r.ok /\ n = 2  -> EntryFrom(f, [e EXCEPT !.value = r.v], r.rest)
    [] OTHER          -> EntryFrom(f, e, r.rest)

EntryField(f, e, n, wire, buf) ==
  CASE n = 1 -> DecodeScalar(map_entry_key_field(f).kind.k, e.key, wire, buf)
    [] n = 2 -> merge_value(map_entry_value_field(f), e.value, wire, buf)
    [] OTHER -> DecodeUnknown(n, wire, buf)

EntryFrom(f, e, buf) ==
  IF buf = <<>> THEN Read(TRUE, e, buf)
  ELSE EntryRead(f, e, Head(buf).n, EntryField(f, e, Head(buf).n, Head(buf).v, Tail(buf)))

(* The message's entry is there, and its siblings gone, before the value   *)
(* is read; what was read of it before an error stays.                     *)
KnownRead(m, n, r) == Read(r.ok, Insert(m, n, [value |-> r.v]), r.rest)
add_unknown(m, n, r) ==
  Read(r.ok, IF r.ok THEN Insert(m, n, [unknown |-> Append(IF n \in DOMAIN m THEN m[n].unknown ELSE <<>>, r.v)])
             ELSE m, r.rest)

merge_field(ty, m, n, wire, buf) ==
  IF IsKnown(ty, n)
    THEN KnownRead(get_mut(ty, m, get_field(ty, n)), n,
                   merge_value(get_field(ty, n), get(m, get_field(ty, n)), wire, buf))
    ELSE add_unknown(m, n, DecodeUnknown(n, wire, buf))

FieldRead(ty, group, r) == IF r.ok THEN merge(ty, r.v, group, r.rest) ELSE r

(* Message::merge, or group::merge of the given number: fields up to the   *)
(* end of the buffer or of the group.                                      *)
merge(ty, m, group, buf) ==
  CASE buf = <<>> -> Read(group = 0, m, buf)
    [] buf # <<>> /\ group # 0 /\ Head(buf).v = WEnd -> Read(Head(buf).n = group, m, Tail(buf))
    [] OTHER -> FieldRead(ty, group, merge_field(ty, m, Head(buf).n, Head(buf).v, Tail(buf)))

decode(ty, buf) == merge(ty, <<>>, 0, buf)

-----------------------------------------------------------------------------
(* What callers do to a message *)

Within(m) == Cardinality(DOMAIN m) <= MaxEntries /\ message_encoded_len(type, m) <= MaxBytes

try_set_field(n) ==
  \E v \in Inputs[FullName][n] :
    /\ is_valid_for_field(v, get_field(type, n))
    /\ msg' = set(type, msg, get_field(type, n), v)

get_field_mut(n) == msg' = get_mut(type, msg, get_field(type, n))
clear_field(n)   == n \in DOMAIN msg /\ msg' = clear(msg, get_field(type, n))
MergeBuffer      == \E buf \in Buffers[FullName] : msg' = merge(type, msg, 0, buf).v
ClearAll         == msg' = <<>>

(* DynamicMessage::new. *)
new ==
  /\ schema' \in {SchemaOf(AddEach([ok |-> TRUE, pool |-> NewPool], Files).pool)}
  /\ \E full \in DOMAIN Older : type' \in get_by_name(schema'.pool, "message", full)
  /\ msg' = <<>>

InitMessage == schema = SchemaOf(NewPool) /\ type = 0 /\ msg = <<>>
NextMessage ==
  \/ type = 0 /\ new
  \/ /\ type # 0
     /\ \/ \E n \in DOMAIN Inputs[FullName] : try_set_field(n) \/ get_field_mut(n) \/ clear_field(n)
        \/ MergeBuffer
        \/ ClearAll
     /\ UNCHANGED <<schema, type>>
     /\ Within(msg')

-----------------------------------------------------------------------------
(* What a message is once it has been written and read *)

RECURSIVE Canonical(_, _), CanonicalValue(_, _)

CanonicalValue(f, v) ==
  CASE Variant(v) = "list" -> [list |-> [i \in DOMAIN v.list |-> CanonicalValue([f EXCEPT !.label = "optional"], v.list[i])]]
    [] Variant(v) = "map"  -> [map |-> [key \in DOMAIN v.map |-> CanonicalValue(map_entry_value_field(f), v.map[key])]]
    [] Variant(v) # "list" /\ is_list(f) -> CanonicalValue(f, [list |-> <<v>>])
    [] Variant(v) # "map" /\ is_map(f) ->
         LET key == get(v.message, map_entry_key_field(f))
         IN CanonicalValue(f, [map |-> key :> get(v.message, map_entry_value_field(f))])
    [] OTHER               -> IF Variant(v) = "message" THEN [message |-> Canonical(f.kind.of, v.message)] ELSE v

(* A default without presence is not there, a single value of a list field *)
(* is a list, an entry of a map field a map.                               *)
Canonical(ty, m) ==
  [n \in ToSet(iter(ty, m)) |->
     IF IsValue(m[n]) THEN [value |-> CanonicalValue(get_field(ty, n), m[n].value)] ELSE m[n]]

(* However a message was put together (fields set in any order, merged     *)
(* buffers, a merge that failed half-way), the length that encoded_len     *)
(* computes for it and for everything in it is that of the bytes written,  *)
(* and reading them gives the message back.  A relay that knows only an    *)
(* older form of the type, and keeps the rest as unknown fields, passes    *)
(* the same message on.                                                    *)
WireReadsBack ==
  type # 0 =>
  \A older \in {IndexOf(Older[FullName])} :
  \A buf \in {encode_raw(type, msg)} : \A r \in {decode(older, buf)} :
    /\ Bytes(buf) = message_encoded_len(type, msg)
    /\ r.ok
    /\ \A b \in {buf, encode_raw(older, r.v)} : decode(type, b) = Read(TRUE, Canonical(type, msg), <<>>)

=============================================================================
