------------------------------ MODULE TextFormat ------------------------------
(***************************************************************************)
(* The text format of a message                                            *)
(* (utils/prost-refect/prost-reflect/src/dynamic/text_format).  A text is  *)
(* a sequence of tokens; the characters of a string literal are there as   *)
(* they are written.  White space, which separates but is no token, is     *)
(* left out: pretty printing puts it where the compact form has a comma.   *)
(* Unknown fields are skipped, as FormatOptions::default() has it.         *)
(***************************************************************************)
EXTENDS DynamicMessage

Ident(name)  == [ident |-> name]
IntTok(n)    == [int |-> n]
FloatTok(x)  == [float |-> x]
Quoted(s)    == [quoted |-> s]
Punct(c)     == [punct |-> c]
Inf          == <<105, 110, 102>>
BoolName(x)  == CHOOSE s \in DOMAIN BoolNames : BoolNames[s] = x
Infinity     == 1000000   \* the number that stands for f64::INFINITY

Quote  == 34
Apostrophe == 39

(* As few digits as the byte needs. *)
OctalDigits_Short(b) ==
  IF b < 8 THEN <<48 + b>> ELSE IF b < 64 THEN <<48 + (b \div 8), 48 + (b % 8)>>
  ELSE <<48 + (b \div 64), 48 + ((b \div 8) % 8), 48 + (b % 8)>>

OctalDigits(b) == <<48 + (b \div 64), 48 + ((b \div 8) % 8), 48 + (b % 8)>>

(* Some control characters have a letter; the others, and bytes that are   *)
(* not ASCII, three octal digits.                                          *)
EscapeByte(b) ==
  CASE b = 9  -> <<Backslash, 116>>
    [] b = 13 -> <<Backslash, 114>>
    [] b = 10 -> <<Backslash, 110>>
    [] b \in {Backslash, Apostrophe, Quote} -> <<Backslash, b>>
    [] b \in 32 .. 126 \ {Backslash, Apostrophe, Quote} -> <<b>>
    [] OTHER -> <<Backslash>> \o OctalDigits(b)

fmt_string(bytes) == <<Quote>> \o Concat(EscapeByte, bytes) \o <<Quote>>

-----------------------------------------------------------------------------
(* Printing *)

Signed(x, Tok(_)) == IF x < 0 THEN <<Punct("-"), Tok(-x)>> ELSE <<Tok(x)>>

(* Texts with a separator between them: a comma, or a line break when the  *)
(* text is pretty.                                                         *)
fmt_delimited(texts, pretty) ==
  FoldLeft(LAMBDA acc, t : IF acc = <<>> \/ pretty THEN acc \o t ELSE acc \o <<Punct(",")>> \o t, <<>>, texts)
fmt_list(texts) == <<Punct("[")>> \o fmt_delimited(texts, FALSE) \o <<Punct("]")>>

EnumValue(enum, n) == {i \in DOMAIN Types.enums[enum].values : Types.enums[enum].values[i].number = n}
EnumNumber(enum, name) == {i \in DOMAIN Types.enums[enum].values : Types.enums[enum].values[i].name = name}

FmtScalar(v, kind) ==
  LET x == Inside(v)
  IN CASE Variant(v) = "bool" -> <<Ident(BoolName(x))>>
       [] Variant(v) \in {"f32", "f64"} ->
            IF x \in {Infinity, -Infinity} THEN (IF x < 0 THEN <<Punct("-")>> ELSE <<>>) \o <<Ident(Inf)>>
            ELSE Signed(x, FloatTok)
       [] Variant(v) \in {"string", "bytes"} -> <<Quoted(fmt_string(x))>>
       [] Variant(v) = "enum" ->
            IF EnumValue(kind.of, x) = {} THEN Signed(x, IntTok)
            ELSE <<Ident(Types.enums[kind.of].values[CHOOSE i \in EnumValue(kind.of, x) : TRUE].name)>>
       [] OTHER -> Signed(x, IntTok)

Written(ty, m) == SelectSeq(iter(ty, m), LAMBDA n : IsValue(m[n]))

FullIdent(full) ==
  FoldLeft(LAMBDA acc, id : (IF acc = <<>> THEN acc ELSE Append(acc, Punct("."))) \o <<Ident(id)>>, <<>>, full)

FieldName(ty, f) ==
  CASE f \notin FieldsOf(ty)                -> <<Punct("[")>> \o FullIdent(f.full) \o <<Punct("]")>>
    [] f \in FieldsOf(ty) /\ is_group(f)  -> <<Ident(Last(Types.messages[f.kind.of].full))>>
    [] f \in FieldsOf(ty) /\ ~is_group(f) -> <<Ident(f.name)>>

RECURSIVE fmt_value(_, _, _), fmt_message(_, _, _), fmt_field_value(_, _, _)

(* A message needs no colon. *)
fmt_field_value(v, kind, pretty) ==
  (IF Variant(v) = "message" THEN <<>> ELSE <<Punct(":")>>) \o fmt_value(v, kind, pretty)

fmt_value(v, kind, pretty) ==
  CASE Variant(v) = "message" ->
         <<Punct("{")>> \o fmt_message(kind.of, v.message, pretty) \o <<Punct("}")>>
    [] Variant(v) = "list" -> fmt_list([i \in DOMAIN v.list |-> fmt_value(v.list[i], kind, pretty)])
    [] Variant(v) = "map"  ->
         LET keys == SetToSeq(DOMAIN v.map)
         IN fmt_list([i \in DOMAIN keys |->
              <<Punct("{")>>
              \o fmt_delimited(<<<<Ident(KeyName), Punct(":")>> \o FmtScalar(keys[i], kind),
                                 <<Ident(ValueName)>>
                                 \o fmt_field_value(v.map[keys[i]], get_field(kind.of, 2).kind, pretty)>>, pretty)
              \o <<Punct("}")>>])
    [] OTHER -> FmtScalar(v, kind)

fmt_message(ty, m, pretty) ==
  LET ns == Written(ty, m)
  IN fmt_delimited([i \in DOMAIN ns |->
                      FieldName(ty, get_field(ty, ns[i]))
                      \o fmt_field_value(m[ns[i]].value, get_field(ty, ns[i]).kind, pretty)], pretty)

-----------------------------------------------------------------------------
(* The lexer, for the one token with a grammar of its own: a string        *)
(* literal from the quote it starts with.  Longest match: up to three      *)
(* octal digits, one or two hexadecimal ones.  \u and \U, which            *)
(* fmt_string never writes, are left out.                                  *)

Refused(acc)          == [acc EXCEPT !.ok = FALSE, !.done = TRUE]
Unescaped1(acc, p, b) == [acc EXCEPT !.p = p, !.v = Append(@, b)]
oct_escape(acc, run)  == IF run.v < 256 THEN Unescaped1(acc, run.next, run.v) ELSE Refused(acc)
hex_escape(acc, s, p) ==
  IF p + 1 <= Len(s) /\ HexVal(s[p + 1]) >= 0
    THEN Unescaped1(acc, p + 2, 16 * HexVal(s[p]) + HexVal(s[p + 1]))
    ELSE Unescaped1(acc, p + 1, HexVal(s[p]))

Component(acc, s, p) ==
  CASE s[p] \in {0, 10} -> Refused(acc)
    [] s[p] = s[1] -> [acc EXCEPT !.done = TRUE, !.p = p + 1]
    [] s[p] \notin {0, 10, Backslash, s[1]} -> Unescaped1(acc, p + 1, s[p])
    [] OTHER ->
         CASE p = Len(s) -> Refused(acc)
           [] p < Len(s) /\ s[p + 1] \in DOMAIN Escapes -> Unescaped1(acc, p + 2, Escapes[s[p + 1]])
           [] p < Len(s) /\ Octal(s[p + 1]) -> oct_escape(acc, OctalRun(s, p + 1))
           [] p + 1 < Len(s) /\ s[p + 1] \in {88, 120} /\ HexVal(s[p + 2]) >= 0 -> hex_escape(acc, s, p + 2)
           [] OTHER -> Refused(acc)

RECURSIVE StringFrom(_, _)
StringFrom(acc, s) ==
  IF acc.done THEN acc
  ELSE IF acc.p > Len(s) THEN [acc EXCEPT !.ok = FALSE]
  ELSE StringFrom(Component(acc, s, acc.p), s)

(* What follows the closing quote would be a token of its own. *)
Closed(s, r) == [ok |-> r.ok /\ r.p > Len(s), v |-> r.v]
LexString(s) == Closed(s, StringFrom([ok |-> TRUE, done |-> FALSE, p |-> 2, v |-> <<>>], s))

-----------------------------------------------------------------------------
(* The parser.  A text that ends too early, an unexpected token and a name *)
(* the type does not have are errors.                                      *)

Peek(toks, tok)   == toks # <<>> /\ Head(toks) = tok
PeekIs(toks, var) == toks # <<>> /\ var \in DOMAIN Head(toks)
Failed            == Read(FALSE, <<>>, <<>>)

(* parse_float, parse_int: an optional sign and a literal.  Literals out   *)
(* of the range of their type are not among the texts.                     *)
parse_literal(toks, float, sign) ==
  CASE PeekIs(toks, "int")                 -> Read(TRUE, sign * Head(toks).int, Tail(toks))
    [] float /\ PeekIs(toks, "float")      -> Read(TRUE, sign * Head(toks).float, Tail(toks))
    [] float /\ Peek(toks, Ident(Inf))     -> Read(TRUE, sign * Infinity, Tail(toks))
    [] OTHER                               -> Failed
parse_number(toks, float) ==
  IF Peek(toks, Punct("-")) THEN parse_literal(Tail(toks), float, -1) ELSE parse_literal(toks, float, 1)
Unsigned(k, r) == IF r.ok /\ r.v < 0 /\ Variants[k] \in {"u32", "u64"} THEN Failed ELSE r

(* Literals side by side are one string. *)
RECURSIVE parse_bytes(_, _), BytesRead(_, _, _)
BytesRead(acc, r, rest) == IF r.ok THEN parse_bytes(acc \o r.v, rest) ELSE Failed
parse_bytes(acc, toks) ==
  IF ~PeekIs(toks, "quoted") THEN Read(TRUE, acc, toks) ELSE BytesRead(acc, LexString(Head(toks).quoted), Tail(toks))

NamedValue(enum, is, rest) ==
  IF is = {} THEN Failed ELSE Read(TRUE, Types.enums[enum].values[CHOOSE i \in is : TRUE].number, rest)
parse_enum(enum, toks) ==
  CASE PeekIs(toks, "ident") -> NamedValue(enum, EnumNumber(enum, Head(toks).ident), Tail(toks))
    [] Peek(toks, Punct("-")) \/ PeekIs(toks, "int") -> parse_number(toks, FALSE)
    [] OTHER -> Failed

parse_bool(toks) ==
  IF PeekIs(toks, "ident") /\ Head(toks).ident \in DOMAIN BoolNames
    THEN Read(TRUE, BoolNames[Head(toks).ident], Tail(toks)) ELSE Failed

ParseScalar(kind, toks) ==
  CASE kind.k \in {"float", "double"} -> parse_number(toks, TRUE)
    [] kind.k = "bool" -> parse_bool(toks)
    [] kind.k \in {"string", "bytes"} -> IF PeekIs(toks, "quoted") THEN parse_bytes(<<>>, toks) ELSE Failed
    [] kind.k = "enum" -> parse_enum(kind.of, toks)
    [] OTHER -> Unsigned(kind.k, parse_number(toks, FALSE))

(* A group goes by the name of its type, in lower case that of the field. *)
find_field(ty, name) ==
  {f \in FieldsOf(ty) : IF is_group(f) THEN f.name = [i \in DOMAIN name |-> to_ascii_lowercase(name[i])]
                        ELSE f.name = name}

(* A field's name: an identifier, or in brackets that of an extension; the *)
(* descriptors it stands for.                                              *)
Closing(toks) == Min({i \in DOMAIN toks : toks[i] = Punct("]")} \cup {Len(toks) + 1})
FieldsNamed(fs, rest) == Read(fs # {}, fs, rest)
InBrackets(ty, toks, n) ==
  IF n > Len(toks) THEN Failed
  ELSE FieldsNamed({f \in ExtensionsOf(ty) : FullIdent(f.full) = SubSeq(toks, 2, n - 1)}, SubSeq(toks, n + 1, Len(toks)))
parse_field_name(ty, toks) ==
  CASE PeekIs(toks, "ident") -> FieldsNamed(find_field(ty, Head(toks).ident), Tail(toks))
    [] Peek(toks, Punct("[")) -> InBrackets(ty, toks, Closing(toks))
    [] OTHER -> Failed

RECURSIVE parse_value(_, _), parse_values(_, _, _), ValueRead(_, _, _), parse_repeated_value(_, _),
          parse_field_value(_, _, _, _), parse_field_after_name(_, _, _), parse_field(_, _, _),
          parse_fields(_, _, _, _), FieldParsed(_, _, _)

AsValue(k, r) == Read(r.ok, ValueOf(k, r.v), r.rest)
AsOne(r)      == Read(r.ok, <<r.v>>, r.rest)

parse_value(kind, toks) ==
  CASE ~is_message(kind) -> AsValue(kind.k, ParseScalar(kind, toks))
    [] is_message(kind) /\ Peek(toks, Punct("{")) -> parse_fields(kind.of, <<>>, "}", Tail(toks))
    [] is_message(kind) /\ Peek(toks, Punct("<")) -> parse_fields(kind.of, <<>>, ">", Tail(toks))
    [] OTHER -> Failed

(* The values of a list after its bracket; a list has at least one. *)
ValueRead(kind, acc, r) ==
  CASE r.ok /\ Peek(r.rest, Punct(",")) -> parse_values(kind, Append(acc, r.v), Tail(r.rest))
    [] r.ok /\ Peek(r.rest, Punct("]")) -> Read(TRUE, Append(acc, r.v), Tail(r.rest))
    [] OTHER -> Failed
parse_values(kind, acc, toks) == ValueRead(kind, acc, parse_value(kind, toks))

(* One value, or several in brackets, as a sequence. *)
parse_repeated_value(kind, toks) ==
  IF Peek(toks, Punct("[")) THEN parse_values(kind, <<>>, Tail(toks)) ELSE AsOne(parse_value(kind, toks))

unpack(f, map, entry) ==
  (get(entry.message, map_entry_key_field(f)) :> get(entry.message, map_entry_value_field(f))) @@ map

(* A repeated field may come again; any other one, and a second member of  *)
(* a oneof, may not.                                                       *)
Extended(ty, m, f, r) ==
  IF ~r.ok THEN Failed
  ELSE Read(TRUE, Insert(get_mut(ty, m, f), f.number,
                         [value |-> IF is_list(f) THEN [list |-> get(m, f).list \o r.v]
                                    ELSE [map |-> FoldLeft(LAMBDA map, e : unpack(f, map, e), get(m, f).map, r.v)]]),
            r.rest)
AlreadySet(ty, m, f) == \E n \in {f.number} \cup Siblings(ty, f) : has(ty, m, get_field(ty, n))
SetOnce(ty, m, f, r) ==
  IF r.ok /\ ~AlreadySet(ty, m, f) THEN Read(TRUE, set(ty, m, f, r.v), r.rest) ELSE Failed

parse_field_value(ty, m, f, toks) ==
  IF f.label = "repeated" THEN Extended(ty, m, f, parse_repeated_value(f.kind, toks))
  ELSE SetOnce(ty, m, f, parse_value(f.kind, toks))

parse_field_after_name(ty, m, name) ==
  CASE ~name.ok -> Failed
    [] name.ok /\ Peek(name.rest, Punct(":")) ->
         parse_field_value(ty, m, CHOOSE f \in name.v : TRUE, Tail(name.rest))
    [] name.ok /\ (Peek(name.rest, Punct("{")) \/ Peek(name.rest, Punct("<"))) ->
         parse_field_value(ty, m, CHOOSE f \in name.v : TRUE, name.rest)
    [] OTHER -> Failed

(* A field ends with a comma, a semicolon or nothing. *)
Separated(r) ==
  IF r.ok /\ (Peek(r.rest, Punct(",")) \/ Peek(r.rest, Punct(";"))) THEN [r EXCEPT !.rest = Tail(@)] ELSE r
parse_field(ty, m, toks) == Separated(parse_field_after_name(ty, m, parse_field_name(ty, toks)))

(* The fields up to the terminator, or to the end of the text. *)
FieldParsed(ty, terminator, r) == IF r.ok THEN parse_fields(ty, r.v, terminator, r.rest) ELSE Failed
parse_fields(ty, m, terminator, toks) ==
  CASE toks = <<>> -> IF terminator = "" THEN Read(TRUE, m, toks) ELSE Failed
    [] toks # <<>> /\ Head(toks) = Punct(terminator) -> Read(TRUE, [message |-> m], Tail(toks))
    [] OTHER -> FieldParsed(ty, terminator, parse_field(ty, m, toks))

parse_text_format(ty, toks) == parse_fields(ty, <<>>, "", toks)

-----------------------------------------------------------------------------

(* What the text shows of a message: not its unknown fields. *)
RECURSIVE Known(_, _), KnownValue(_, _)
KnownValue(f, v) ==
  CASE Variant(v) = "message" -> [message |-> Known(f.kind.of, v.message)]
    [] Variant(v) = "list" -> [list |-> [i \in DOMAIN v.list |-> KnownValue(f, v.list[i])]]
    [] Variant(v) = "map"  -> [map |-> [key \in DOMAIN v.map |-> KnownValue(map_entry_value_field(f), v.map[key])]]
    [] OTHER -> v
Known(ty, m) ==
  [n \in {k \in DOMAIN m : IsValue(m[k])} |-> [value |-> KnownValue(get_field(ty, n), m[n].value)]]

(* However a message was put together, its text, compact or pretty, parses *)
(* as the message without its unknown fields: strings and byte strings     *)
(* survive their escapes, a group and an extension are found by the names  *)
(* they are printed with, an enum number without a name reads back as the  *)
(* number, and no field or oneof is reported as set twice.                 *)
TextReadsBack ==
  type # 0 => \A pretty \in BOOLEAN :
    parse_text_format(type, fmt_message(type, msg, pretty))
      = Read(TRUE, Known(type, Canonical(type, msg)), <<>>)

=============================================================================
