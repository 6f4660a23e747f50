----------------------------- MODULE Descriptors -----------------------------
(***************************************************************************)
(* How the reflection library builds descriptors                           *)
(* (utils/prost-refect/prost-reflect/src/descriptor/build): the files of a *)
(* batch are walked twice.  The first pass registers every name, the       *)
(* second resolves the references between them; an error in either rolls   *)
(* the batch back.                                                         *)
(*                                                                         *)
(* A file, a message and so on is a record with the fields of its proto    *)
(* that the code reads.  Options are the interpreted ones that the         *)
(* compiler leaves (packed, map_entry, allow_alias).  A type name is       *)
(* absolute or relative to the scope in which it is written; an empty path *)
(* is no name.  Indices start at 1.                                        *)
(***************************************************************************)
EXTENDS Chars

NewPool == [names |-> <<>>, fileNames |-> <<>>, files |-> <<>>, messages |-> <<>>,
            enums |-> <<>>, extensions |-> <<>>, services |-> <<>>]

NoName == [abs |-> FALSE, path |-> <<>>]
Scalars == {"double", "float", "int32", "int64", "uint32", "uint64", "sint32", "sint64",
            "fixed32", "fixed64", "sfixed32", "sfixed64", "bool", "string", "bytes"}

-----------------------------------------------------------------------------
(* The walk *)

Visit(k, full, sub, proto) == [k |-> k, full |-> full, sub |-> sub, proto |-> proto]

VisitEach(k, scope, protos) ==
  [i \in DOMAIN protos |-> Visit(k, Append(scope, protos[i].name), i, protos[i])]

(* The values of an enum are named in the scope of the enum. *)
visit_enum(e, scope) ==
  <<Visit("enum", Append(scope, e.name), 0, e)>> \o VisitEach("value", scope, e.values)

visit_service(s, scope) ==
  <<Visit("service", Append(scope, s.name), 0, s)>>
  \o VisitEach("method", Append(scope, s.name), s.methods)

visit_enums(enums, scope) == FlattenSeq([i \in DOMAIN enums |-> visit_enum(enums[i], scope)])

RECURSIVE visit_message(_, _)
visit_message(m, scope) ==
  LET full == Append(scope, m.name)
  IN <<Visit("message", full, 0, m)>>
     \o VisitEach("oneof", full, m.oneofs)
     \o VisitEach("field", full, m.fields)
     \o FlattenSeq([i \in DOMAIN m.nested |-> visit_message(m.nested[i], full)])
     \o visit_enums(m.enums, full)
     \o VisitEach("extension", full, m.extensions)

visit_file(f) ==
  <<Visit("file", f.package, 0, f)>>
  \o FlattenSeq([i \in DOMAIN f.messages |-> visit_message(f.messages[i], f.package)])
  \o visit_enums(f.enums, f.package)
  \o FlattenSeq([i \in DOMAIN f.services |-> visit_service(f.services[i], f.package)])
  \o VisitEach("extension", f.package, f.extensions)

Counted == {"file", "message", "enum", "service", "extension"}

(* Every visit with the indices the walk has reached: those of the element *)
(* or, for a field, a oneof, a value or a method, of its owner.            *)
Numbered(offsets, vs) ==
  [p \in DOMAIN vs |->
     [at |-> [k \in Counted |-> offsets[k] + Cardinality({q \in 1 .. p : vs[q].k = k})]] @@ vs[p]]

visit(offsets, files) == Numbered(offsets, FlattenSeq([i \in DOMAIN files |-> visit_file(files[i])]))

DescriptorPoolOffsets(p) ==
  [file |-> Len(p.files), message |-> Len(p.messages), enum |-> Len(p.enums),
   service |-> Len(p.services), extension |-> Len(p.extensions)]

Owner(k) == CASE k \in {"field", "oneof"} -> "message" [] k = "value" -> "enum"
              [] k = "method" -> "service" [] OTHER -> k

-----------------------------------------------------------------------------
(* First pass: names *)

(* A name taken is an error, unless both uses are packages. *)
add_name(acc, name, d) ==
  IF name \notin DOMAIN acc.pool.names THEN [acc EXCEPT !.pool.names = @ @@ (name :> d)]
  ELSE [acc EXCEPT !.ok = @ /\ d.k = "package" /\ acc.pool.names[name].k = "package"]

DefinitionOf(v) ==
  [k |-> v.k, i |-> v.at[Owner(v.k)], sub |-> IF Owner(v.k) = v.k THEN 0 ELSE v.sub]
Package == [k |-> "package", i |-> 0, sub |-> 0]

(* Every prefix of the package is registered, from the shortest. *)
add_packages(acc, package) ==
  FoldLeft(LAMBDA a, n : add_name(a, SubSeq(package, 1, n), Package),
           acc, [n \in 1 .. Len(package) |-> n])

camel_case_names_differ(fields) ==
  \A i, j \in DOMAIN fields :
    to_lower_without_underscores(fields[i].name) = to_lower_without_underscores(fields[j].name) => i = j

NewMessage(v) ==
  [full |-> v.full, fields |-> <<>>, oneofs |-> <<>>, extensions |-> <<>>,
   reserved |-> v.proto.reserved, ranges |-> v.proto.ranges, entry |-> v.proto.entry]

NewEnum(v) ==
  [full |-> v.full, values |-> <<>>, numbers |-> <<>>, alias |-> v.proto.alias,
   reserved |-> v.proto.reserved]

NameVisitFile(acc, v) ==
  LET f == v.proto
  IN add_packages([ok   |-> acc.ok /\ f.name \notin DOMAIN acc.pool.fileNames,
                   pool |-> [acc.pool EXCEPT
                               !.fileNames = (f.name :> v.at.file) @@ @,
                               !.files = Append(@, [syntax |-> f.syntax, raw |-> f, deps |-> <<>>])]],
                  f.package)

NameVisitMessage(acc, v) ==
  [ok   |-> acc.ok /\ (acc.pool.files[v.at.file].syntax # "proto2"
                       => camel_case_names_differ(v.proto.fields)),
   pool |-> [acc.pool EXCEPT !.messages = Append(@, NewMessage(v))]]

NameVisitEnum(acc, v) ==
  [ok   |-> acc.ok /\ v.proto.values # <<>>
              /\ (acc.pool.files[v.at.file].syntax # "proto2" => v.proto.values[1].number = 0),
   pool |-> [acc.pool EXCEPT !.enums = Append(@, NewEnum(v))]]

NameVisitOneof(acc, v) ==
  [acc EXCEPT !.pool.messages[v.at.message].oneofs = Append(@, [full |-> v.full, fields |-> <<>>])]

NameVisitValue(acc, v) ==
  [acc EXCEPT !.pool.enums[v.at.enum].values =
     Append(@, [name |-> v.proto.name, full |-> v.full, number |-> v.proto.number])]

(* Whatever is visited has its name added. *)
NameVisit(acc, v) ==
  CASE v.k = "file"    -> NameVisitFile(acc, v)
    [] v.k = "message" -> add_name(NameVisitMessage(acc, v), v.full, DefinitionOf(v))
    [] v.k = "enum"    -> add_name(NameVisitEnum(acc, v), v.full, DefinitionOf(v))
    [] v.k = "oneof"   -> add_name(NameVisitOneof(acc, v), v.full, DefinitionOf(v))
    [] v.k = "value"   -> add_name(NameVisitValue(acc, v), v.full, DefinitionOf(v))
    [] OTHER           -> add_name(acc, v.full, DefinitionOf(v))

collect_names(p, vs) == FoldLeft(NameVisit, [pool |-> p, ok |-> TRUE], vs)

-----------------------------------------------------------------------------
(* Second pass: references *)

NotFound == [ok |-> FALSE, full |-> <<>>, def |-> [k |-> "none", i |-> 0, sub |-> 0]]
Found(names, full) == [ok |-> TRUE, full |-> full, def |-> names[full]]

(* resolve_relative_name: in the scope itself, then in each enclosing one. *)
resolve_relative_name(names, scope, path) ==
  LET depths == {n \in 0 .. Len(scope) : SubSeq(scope, 1, n) \o path \in DOMAIN names}
  IN IF depths = {} THEN NotFound ELSE Found(names, SubSeq(scope, 1, Max(depths)) \o path)

resolve_name(names, scope, name) ==
  IF name.abs THEN (IF name.path \in DOMAIN names THEN Found(names, name.path) ELSE NotFound)
  ELSE resolve_relative_name(names, scope, name.path)

find_message(names, scope, name) ==
  LET r == resolve_name(names, scope, name)
  IN [ok |-> r.ok /\ r.def.k = "message", i |-> r.def.i]

is_packable(kind) == kind.k \notin {"string", "bytes", "message", "group", "none"}
is_message(kind)  == kind.k \in {"message", "group"}

resolve_field_type(names, f, scope) ==
  LET r == resolve_name(names, scope, f.tyname)
  IN CASE f.tyname = NoName -> [ok |-> f.ty \in Scalars, kind |-> [k |-> f.ty, of |-> 0]]
       [] f.tyname # NoName /\ r.def.k = "message" ->
            [ok |-> TRUE, kind |-> [k |-> IF f.ty = "group" THEN "group" ELSE "message", of |-> r.def.i]]
       [] f.tyname # NoName /\ r.def.k = "enum" -> [ok |-> TRUE, kind |-> [k |-> "enum", of |-> r.def.i]]
       [] OTHER -> [ok |-> FALSE, kind |-> [k |-> "none", of |-> 0]]

(* A Value has one field, named for its variant. *)
Variants == [bool |-> "bool", enum |-> "enum", string |-> "string", bytes |-> "bytes",
             int32 |-> "i32", sint32 |-> "i32", sfixed32 |-> "i32",
             int64 |-> "i64", sint64 |-> "i64", sfixed64 |-> "i64",
             uint32 |-> "u32", fixed32 |-> "u32", uint64 |-> "u64", fixed64 |-> "u64",
             float |-> "f32", double |-> "f64", message |-> "message", group |-> "message"]
ValueOf(k, x) == Variants[k] :> x
NoValue == [none |-> 0]
Parsed(k, r) == [ok |-> r.ok, v |-> IF r.ok THEN ValueOf(k, r.v) ELSE NoValue]
BoolNames == (<<116, 114, 117, 101>> :> 1) @@ (<<102, 97, 108, 115, 101>> :> 0)

(* Numbers as in a proto file, bytes escaped, a string as it is. *)
parse_simple_value(k, s) ==
  CASE k = "string" -> [ok |-> TRUE, v |-> ValueOf(k, s)]
    [] k = "bytes"  -> Parsed(k, unescape_c_escape_string(s))
    [] k = "bool"   -> IF s \in DOMAIN BoolNames THEN [ok |-> TRUE, v |-> ValueOf(k, BoolNames[s])]
                       ELSE [ok |-> FALSE, v |-> NoValue]
    [] OTHER        -> Parsed(k, FromStr(s, Variants[k] \notin {"u32", "u64"}))

(* The default a field declares: none, a value of its kind, or the name of *)
(* a value of its enum.                                                    *)
parse_field_default_value(p, kind, def) ==
  CASE ~def.some -> [ok |-> TRUE, v |-> NoValue]
    [] def.some /\ kind.k \in Scalars -> parse_simple_value(kind.k, def.s)
    [] def.some /\ kind.k = "enum" ->
         LET vs == p.enums[kind.of].values
             is == {i \in DOMAIN vs : vs[i].name = def.s}
         IN IF is = {} THEN [ok |-> FALSE, v |-> NoValue]
            ELSE [ok |-> TRUE, v |-> ValueOf("enum", vs[Min(is)].number)]
    [] OTHER -> [ok |-> FALSE, v |-> NoValue]

MaxNumber == 536870911
Reserved  == 19000 .. 19999

(* A number is legal, not reserved by the message, and in one of its       *)
(* extension ranges exactly when it is the number of an extension.         *)
check_field_number(message, f) ==
  /\ f.number >= 1 /\ f.number <= MaxNumber /\ f.number \notin Reserved
  /\ f.number \notin message.reserved
  /\ f.number \in message.ranges <=> f.extendee # NoName

resolve_field_json_name(f) == IF f.json = <<>> THEN to_json_name(f.name) ELSE f.json

Packed(f, kind, syntax) ==
  /\ f.label = "repeated"
  /\ is_packable(kind)
  /\ IF f.packed = "unset" THEN syntax = "proto3" ELSE f.packed = "yes"

supports_presence(f, kind, syntax) ==
  \/ f.proto3_optional
  \/ f.oneof # 0
  \/ f.label # "repeated" /\ (is_message(kind) \/ syntax = "proto2")

ResolveField(acc, v, ty) ==
  LET p      == acc.pool
      f      == v.proto
      m      == v.at.message
      syntax == p.files[v.at.file].syntax
      def    == parse_field_default_value(p, ty.kind, f.def)
      known  == p.messages[m].fields
      json   == resolve_field_json_name(f)
      ofOne  == f.oneof \in DOMAIN p.messages[m].oneofs
      field  == [name |-> f.name, full |-> v.full, number |-> f.number, label |-> f.label, kind |-> ty.kind,
                 oneof |-> IF ofOne THEN f.oneof ELSE 0, packed |-> Packed(f, ty.kind, syntax),
                 presence |-> supports_presence(f, ty.kind, syntax), json |-> json, def |-> def.v]
      added  == [p EXCEPT !.messages[m].fields = Append(@, field)]
  IN [ok   |-> /\ acc.ok /\ ty.ok /\ def.ok
               /\ check_field_number(p.messages[m], f)
               /\ f.oneof # 0 => ofOne
               /\ \A i \in DOMAIN known : known[i].number # f.number /\ known[i].name # f.name
                                          /\ known[i].json # json,
      pool |-> IF ofOne THEN [added EXCEPT !.messages[m].oneofs[f.oneof].fields = Append(@, v.sub)] ELSE added]

ResolveExtension(acc, v, ty, extendee) ==
  LET p     == acc.pool
      f     == v.proto
      def   == parse_field_default_value(p, ty.kind, f.def)
      ext   == [name |-> f.name, full |-> v.full, number |-> f.number, label |-> f.label, kind |-> ty.kind,
                oneof |-> 0, packed |-> Packed(f, ty.kind, p.files[v.at.file].syntax),
                presence |-> f.label # "repeated", extendee |-> extendee.i, def |-> def.v]
      added == [p EXCEPT !.extensions = Append(@, ext)]
  IN [ok   |-> /\ acc.ok /\ ty.ok /\ def.ok /\ extendee.ok
               /\ extendee.ok => check_field_number(p.messages[extendee.i], f),
      pool |-> IF extendee.ok
                 THEN [added EXCEPT !.messages[extendee.i].extensions = Append(@, v.at.extension)]
                 ELSE added]

ResolveMethod(acc, v) ==
  LET input  == find_message(acc.pool.names, v.full, v.proto.input)
      output == find_message(acc.pool.names, v.full, v.proto.output)
  IN [ok   |-> acc.ok /\ input.ok /\ output.ok,
      pool |-> [acc.pool EXCEPT !.services[v.at.service].methods =
                  Append(@, [full |-> v.full, input |-> input.i, output |-> output.i])]]

(* The values sorted by number, for get_value. *)
ResolveValue(acc, v) ==
  LET e == acc.pool.enums[v.at.enum]
      n == v.proto.number
  IN [ok   |-> /\ acc.ok
               /\ n \notin e.reserved
               /\ e.alias \/ \A i \in DOMAIN e.numbers : e.numbers[i].number # n,
      pool |-> [acc.pool EXCEPT !.enums[v.at.enum].numbers =
                  InsertAt(@, 1 + Cardinality({i \in DOMAIN @ : @[i].number < n}),
                           [number |-> n, i |-> v.sub])]]

ResolveFile(acc, v) ==
  LET f    == v.proto
      seen == SelectSeq(f.deps, LAMBDA d : d \in DOMAIN acc.pool.fileNames)
  IN [ok   |-> acc.ok /\ seen = f.deps /\ f.public \subseteq DOMAIN f.deps,
      pool |-> [acc.pool EXCEPT !.files[v.at.file].deps =
                  [i \in DOMAIN seen |-> acc.pool.fileNames[seen[i]]]]]

ResolveVisit(acc, v) ==
  CASE v.k = "file"      -> ResolveFile(acc, v)
    [] v.k = "field"     -> ResolveField(acc, v, resolve_field_type(acc.pool.names, v.proto, v.full))
    [] v.k = "extension" -> ResolveExtension(acc, v, resolve_field_type(acc.pool.names, v.proto, v.full),
                                             find_message(acc.pool.names, v.full, v.proto.extendee))
    [] v.k = "service"   -> [acc EXCEPT !.pool.services = Append(@, [full |-> v.full, methods |-> <<>>])]
    [] v.k = "method"    -> ResolveMethod(acc, v)
    [] v.k = "value"     -> ResolveValue(acc, v)
    [] OTHER             -> acc

resolve_names(acc, vs) == IF acc.ok THEN FoldLeft(ResolveVisit, acc, vs) ELSE acc

-----------------------------------------------------------------------------
(* The proto that the pool keeps: names resolved, JSON names filled in *)

(* The name left as it was written in the file. *)
set_type_name_Written(names, scope, name) == name

set_type_name(names, scope, name) ==
  IF name = NoName THEN name ELSE [abs |-> TRUE, path |-> resolve_name(names, scope, name).full]

RewriteField(names, scope, f) ==
  LET kind == resolve_name(names, Append(scope, f.name), f.tyname).def.k
  IN [f EXCEPT !.json     = resolve_field_json_name(f),
               !.tyname   = set_type_name(names, Append(scope, f.name), @),
               !.extendee = set_type_name(names, Append(scope, f.name), @),
               !.ty       = IF f.tyname = NoName \/ @ = "group" THEN @ ELSE kind]

RewriteMethod(names, scope, m) ==
  [m EXCEPT !.input  = set_type_name(names, Append(scope, m.name), @),
            !.output = set_type_name(names, Append(scope, m.name), @)]

RECURSIVE RewriteMessage(_, _, _)
RewriteMessage(names, scope, m) ==
  LET full == Append(scope, m.name)
  IN [m EXCEPT !.fields     = [i \in DOMAIN @ |-> RewriteField(names, full, @[i])],
               !.extensions = [i \in DOMAIN @ |-> RewriteField(names, full, @[i])],
               !.nested     = [i \in DOMAIN @ |-> RewriteMessage(names, full, @[i])]]

Rewrite(names, f) ==
  [f EXCEPT !.messages   = [i \in DOMAIN @ |-> RewriteMessage(names, f.package, @[i])],
            !.extensions = [i \in DOMAIN @ |-> RewriteField(names, f.package, @[i])],
            !.services   = [i \in DOMAIN @ |-> [@[i] EXCEPT !.methods =
                              [j \in DOMAIN @ |-> RewriteMethod(names, Append(f.package, f.services[i].name), @[j])]]]]

-----------------------------------------------------------------------------
(* Adding files *)

IsPrefixOf(a, b) == Len(a) <= Len(b) /\ SubSeq(b, 1, Len(a)) = a

(* Without a look at what the package still has. *)
Retained_Packages(p, offsets, name) ==
  LET d == p.names[name] IN d.k = "package" \/ d.i <= offsets[Owner(d.k)]

Retained(p, offsets, name) ==
  LET d == p.names[name]
  IN CASE d.k = "package" -> \E i \in 1 .. offsets.file : IsPrefixOf(name, p.files[i].raw.package)
       [] OTHER           -> d.i <= offsets[Owner(d.k)]

(* The lists of extensions are cut at the number of messages. *)
rollback(p, offsets) ==
  [names      |-> [n \in {n \in DOMAIN p.names : Retained(p, offsets, n)} |-> p.names[n]],
   fileNames  |-> [n \in {n \in DOMAIN p.fileNames : p.fileNames[n] <= offsets.file} |-> p.fileNames[n]],
   files      |-> SubSeq(p.files, 1, offsets.file),
   messages   |-> [i \in 1 .. offsets.message |->
                     [p.messages[i] EXCEPT !.extensions = SelectSeq(@, LAMBDA e : e <= offsets.message)]],
   enums      |-> SubSeq(p.enums, 1, offsets.enum),
   extensions |-> SubSeq(p.extensions, 1, offsets.extension),
   services   |-> SubSeq(p.services, 1, offsets.service)]

(* A file that the pool already has, as the pool keeps it, is left out. *)
Deduped(p, files) ==
  SelectSeq(files, LAMBDA f : f.name \in DOMAIN p.fileNames => p.files[p.fileNames[f.name]].raw # f)

(* resolve_names works on the protos given; the ones kept are rewritten.   *)
Finished(p, offsets) ==
  [p EXCEPT !.files = [i \in DOMAIN @ |-> IF i <= offsets.file THEN @[i]
                                          ELSE [@[i] EXCEPT !.raw = Rewrite(p.names, @)]]]

BuildVisits(p, offsets, vs) ==
  LET r == resolve_names(collect_names(p, vs), vs)
  IN [ok |-> r.ok, pool |-> IF r.ok THEN Finished(r.pool, offsets) ELSE rollback(r.pool, offsets)]

build_files(p, files) ==
  BuildVisits(p, DescriptorPoolOffsets(p), visit(DescriptorPoolOffsets(p), Deduped(p, files)))

(* The descriptor of a kind with the given full name: at most one. *)
get_by_name(p, k, name) == IF name \in DOMAIN p.names /\ p.names[name].k = k THEN {p.names[name].i} ELSE {}

=============================================================================
