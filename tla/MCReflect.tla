------------------------------- MODULE MCReflect -------------------------------
(***************************************************************************)
(* The reflection library: a pool with seven files that refer to, shadow,  *)
(* extend and contradict one another; messages of three types.  A          *)
(* behaviour is about the one or the other: messages are made while no     *)
(* handle has changed the pool, and the pool changes while there is no     *)
(* message.                                                                *)
(***************************************************************************)
EXTENDS DescriptorPool, JsonFormat, Protos

-----------------------------------------------------------------------------
(* The files of the pool *)

(* T at the root, open to extensions. *)
Root == [File(fa, <<>>, "proto2") EXCEPT
           !.messages = <<[Message(T, <<Scalar(a_b, 1, "int32")>>) EXCEPT !.ranges = 5 .. 6]>>]

(* p.M refers to T, to an enum and a message of its own, and to itself. *)
Main == [File(fb, <<fp>>, "proto3") EXCEPT
           !.deps = <<fa>>,
           !.public = {1},
           !.messages = <<[Message(M, <<OfType(fa, 1, <<T>>),
                                        [OfType(fb, 2, <<M>>) EXCEPT !.oneof = 1],
                                        Field(fc, 3, "repeated", "unset", Rel(<<E>>)),
                                        OfType(fn, 4, <<M, G>>)>>) EXCEPT
                             !.oneofs = <<[name |-> fq]>>,
                             !.nested = <<Message(G, <<>>)>>,
                             !.enums = <<Enum(E, <<Value(A, 0), Value(B, 1)>>)>>]>>,
           !.services = <<[name |-> S, methods |-> <<[name |-> fa, input |-> Rel(<<M>>),
                                                      output |-> Rel(<<T>>)]>>]>>]

(* p.T, which a relative T in p meets before the one at the root. *)
Shadow == [File(fc, <<fp>>, "proto2") EXCEPT !.messages = <<Message(T, <<>>)>>]

Extend(name, number, ty) == [Scalar(name, number, ty) EXCEPT !.extendee = Abs(<<T>>)]

(* Extensions of T in p.q; with a type that is not there; a name twice.    *)
Extension == [File(fn, <<fp, fq>>, "proto2") EXCEPT !.extensions = <<Extend(fn, 5, "int32")>>]
Dangling  == [File(fn, <<fp, fn>>, "proto2") EXCEPT
                !.extensions = <<Extend(fn, 6, "int32")>>,
                !.messages = <<Message(S, <<OfType(fa, 1, <<S, S>>)>>)>>]
Clashing  == [File(fq, <<fn>>, "proto3") EXCEPT
                !.messages = <<Message(S, <<Scalar(a_b, 1, "int32"), Scalar(fq, 1, "bool")>>)>>]
(* Another file with the name of Shadow. *)
Other     == [File(fc, <<>>, "proto3") EXCEPT !.enums = <<Enum(E, <<Value(S, 0)>>)>>]

MCBatches == {<<Root>>, <<Main, Root>>, <<Shadow>>, <<Dangling>>,
              <<Clashing>>, <<Other>>, <<Rewrite(<<>>, Root), Extension>>}

-----------------------------------------------------------------------------
(* The types of the messages *)

Repeated(name, number, ty) == Field(name, number, "repeated", ty, NoName)
Entry(name, key, of) == [Message(name, <<Scalar(KeyName, 1, key), of>>) EXCEPT !.entry = TRUE]

(* What a proto3 message can hold: a number without presence, a oneof, a    *)
(* packed and an unpacked list, a map, an optional field.                  *)
New == [Message(M, <<Scalar(a_b, 1, "int32"),
                     [Scalar(fb, 2, "string") EXCEPT !.oneof = 1],
                     [OfType(fc, 3, <<T>>) EXCEPT !.oneof = 1],
                     Repeated(fd, 4, "sint32"),
                     Field(fe, 5, "repeated", "unset", Rel(<<T>>)),
                     Field(fn, 6, "repeated", "unset", Rel(<<M, F>>)),
                     [Scalar(fg, 7, "bytes") EXCEPT !.oneof = 2, !.proto3_optional = TRUE],
                     Scalar(fh, 16, "double")>>) EXCEPT
          !.oneofs = <<[name |-> fq], [name |-> fp]>>,
          !.nested = <<Entry(F, "string", OfType(ValueName, 2, <<E>>))>>]
Old == [Message(O, <<Scalar(a_b, 1, "int32"), [OfType(fc, 3, <<T>>) EXCEPT !.oneof = 1]>>) EXCEPT
          !.oneofs = <<[name |-> fq]>>]

(* And a proto2 message: defaults, a group, an enum, an extension. *)
New2 == [Message(N, <<[Scalar(fa, 1, "int64") EXCEPT !.def = Default(<<45, 55>>)],
                      Field(fg, 2, "optional", "group", Rel(<<N, G>>)),
                      [OfType(fc, 3, <<D>>) EXCEPT !.def = Default(G)],
                      Repeated(fd, 4, "fixed32"),
                      [Field(fe, 5, "repeated", "unset", Rel(<<D>>)) EXCEPT !.packed = "yes"],
                      Field(fh, 6, "repeated", "group", Rel(<<N, H>>)),
                      [Scalar(fb, 7, "bytes") EXCEPT !.def = Default(<<92, 49>>)]>>) EXCEPT
           !.ranges = 100 .. 100,
           !.nested = <<Message(G, <<Scalar(fb, 1, "bool")>>), Message(H, <<Scalar(fb, 1, "uint64")>>)>>]
Old2 == Message(O, <<[Scalar(fa, 1, "int64") EXCEPT !.def = Default(<<45, 55>>)]>>)

FileT == [File(ft, <<fp>>, "proto3") EXCEPT
            !.messages = <<Message(T, <<Scalar(fa, 1, "int32"), OfType(ft, 2, <<T>>)>>)>>,
            !.enums = <<Enum(E, <<Value(A, 0), Value(B, 1)>>)>>]
File3 == [File(fa, <<fp>>, "proto3") EXCEPT !.messages = <<New>>]
File2 == [File(fb, <<fq>>, "proto2") EXCEPT
            !.messages = <<New2>>,
            !.enums = <<Enum(D, <<Value(T, 2), Value(G, -1)>>)>>,
            !.extensions = <<[Scalar(fx, 100, "fixed64") EXCEPT !.extendee = Rel(<<N>>)]>>]
FileO == [File(fc, <<fp>>, "proto3") EXCEPT !.messages = <<Old>>]
FileP == [File(fd, <<fq>>, "proto2") EXCEPT !.messages = <<Old2>>]

(* The well-known types, and a message that has some of them. *)
Typed(name, number, label, full) == Field(name, number, label, "unset", Abs(full))
FileG == [File(fg, <<GoogleProtobuf>>, "proto3") EXCEPT
            !.messages = <<Message(Last(GEmpty), <<>>), Message(Last(GMask), <<Repeated(fp, 1, "string")>>),
                           Message(Last(GWrapper), <<Scalar(ValueName, 1, "int64")>>)>>,
            !.enums = <<Enum(Last(GNull), <<Value(A, 0)>>)>>]
InOneof(f) == [f EXCEPT !.oneof = 1]
FileV == [File(fe, <<GoogleProtobuf>>, "proto3") EXCEPT
            !.messages = <<[Message(Last(GValue),
                                    <<InOneof(Typed(fn, 1, "optional", GNull)), InOneof(Scalar(fd, 2, "double")),
                                      InOneof(Scalar(ft, 3, "string")), InOneof(Scalar(fb, 4, "bool")),
                                      InOneof(Typed(fx, 5, "optional", GStruct)),
                                      InOneof(Typed(fe, 6, "optional", GList))>>) EXCEPT !.oneofs = <<[name |-> fq]>>],
                           Message(Last(GList), <<Typed(fe, 1, "repeated", GValue)>>),
                           [Message(Last(GStruct), <<Typed(ft, 1, "repeated", Append(GStruct, F))>>) EXCEPT
                              !.nested = <<Entry(F, "string", Typed(ValueName, 2, "optional", GValue))>>]>>]
Well == [Message(S, <<Typed(fa, 1, "optional", GValue), Typed(fb, 2, "optional", GWrapper),
                      Typed(fc, 3, "optional", GMask), Typed(fd, 4, "optional", GEmpty),
                      Typed(fe, 5, "optional", GNull), Typed(fg, 6, "repeated", GValue),
                      Field(fh, 7, "repeated", "unset", Rel(<<S, F>>))>>) EXCEPT
           !.nested = <<Entry(F, "int32", Typed(ValueName, 2, "optional", GValue))>>]
FileS == [File(fh, <<fp>>, "proto3") EXCEPT
            !.messages = <<Well, Message(H, <<Typed(fb, 2, "optional", GWrapper)>>)>>]

MCFiles == <<FileT, File3, FileO, File2, FileP, FileG, FileV, FileS>>
MCOlder == (<<fp, M>> :> <<fp, O>>) @@ (<<fq, N>> :> <<fq, O>>) @@ (<<fp, S>> :> <<fp, H>>)

Of(n, x) == n :> [value |-> x]
Sub(n, x) == [message |-> Of(n, x)]
Empty == [message |-> <<>>]

(* Explicit defaults, values of one and of several bytes, a control        *)
(* character before a digit and a quote, single values for lists and maps. *)
Inputs3 ==
  (1 :> {[i32 |-> 0], [i32 |-> -1], [i64 |-> 1]})
  @@ (2 :> {[string |-> <<>>], [string |-> <<1, 49, 34>>]})
  @@ (3 :> {Empty, Sub(2, Sub(1, [i32 |-> 0]))})
  @@ (4 :> {[list |-> <<[i32 |-> 64], [i32 |-> 0]>>], [i32 |-> -1], [list |-> <<[u32 |-> 1]>>]})
  @@ (5 :> {[list |-> <<Empty, Sub(1, [i32 |-> 300])>>], Empty})
  @@ (6 :> {[map |-> ([string |-> <<>>] :> [enum |-> 0]) @@ ([string |-> fa] :> [enum |-> 7])],
            Sub(1, [string |-> fa])})
  @@ (7 :> {[bytes |-> <<>>], [bytes |-> <<255, 0>>]})
  @@ (16 :> {[f64 |-> 0], [f64 |-> 1]})

Buffers3 ==
  {<<Key(9, WVarint), Varint(5), Key(4, WVarint), Varint(7), Key(9, WStart), Key(1, WBytes), Varint(1), Byte(8),
     Key(9, WEnd)>>,
   <<Key(20, W32), Fixed(4, 9), Key(3, WBytes), Varint(2), Key(1, WVarint), Varint(1)>>,
   (* Cut short in the second element of a list, and in a member of the oneof. *)
   <<Key(5, WBytes), Varint(0), Key(4, WBytes), Varint(1), Varint(1), Key(5, WBytes), Varint(3), Key(1, WVarint)>>,
   <<Key(3, WBytes), Varint(1), Key(1, WVarint)>>}

Inputs2 ==
  (1 :> {[i64 |-> -7], [i64 |-> 0]})
  @@ (2 :> {Empty, Sub(1, [bool |-> 0])})
  @@ (3 :> {[enum |-> 2], [enum |-> -1], [enum |-> 5]})
  @@ (4 :> {[list |-> <<[u32 |-> 0], [u32 |-> 1]>>]})
  @@ (5 :> {[list |-> <<[enum |-> -1], [enum |-> 2]>>], [enum |-> 2]})
  @@ (6 :> {[list |-> <<Empty, Sub(1, [u64 |-> 9])>>]})
  @@ (7 :> {[bytes |-> <<>>], [bytes |-> <<1>>]})
  @@ (100 :> {[u64 |-> 0], [u64 |-> 3]})

Buffers2 ==
  {<<Key(2, WStart), Key(9, WVarint), Varint(1), Key(2, WEnd), Key(101, W64), Fixed(8, 2)>>,
   <<Key(4, WBytes), Varint(8), Fixed(4, 1), Fixed(4, 2), Key(5, WVarint), Varint(-1)>>,
   <<Key(2, WStart), Key(1, WVarint), Varint(1)>>}

(* Values in values; a path that JSON cannot express, one that is refused. *)
ValueList(vs) == Sub(6, Sub(1, [list |-> vs]))
ValueStruct(map) == Sub(5, Sub(1, [map |-> map]))
InputsW ==
  (1 :> {Empty, Sub(1, [enum |-> 0]), Sub(2, [f64 |-> Infinity]),
         ValueList(<<Sub(4, [bool |-> 0]), Sub(3, [string |-> <<>>])>>),
         ValueStruct([string |-> fa] :> ValueList(<<Sub(2, [f64 |-> 1])>>))})
  @@ (2 :> {Empty, Sub(1, [i64 |-> -12])})
  @@ (3 :> {Empty, Sub(1, [list |-> <<[string |-> a_b \o <<Period>> \o fc], [string |-> fa]>>]),
            Sub(1, [list |-> <<[string |-> fa \o <<Underscore>>]>>]), Sub(1, [list |-> <<[string |-> A]>>])})
  @@ (4 :> {Empty})
  @@ (5 :> {[enum |-> 0]})
  @@ (6 :> {[list |-> <<Sub(1, [enum |-> 0]), Sub(5, Empty), Sub(6, Empty)>>]})
  @@ (7 :> {[map |-> ([i32 |-> -10] :> Sub(1, [enum |-> 0]))]})

BuffersW ==
  {<<Key(1, WBytes), Varint(3), Key(6, WBytes), Varint(0), Key(4, WVarint)>>,
   <<Key(2, WBytes), Varint(4), Key(1, WVarint), Varint(3), Key(2, WVarint), Varint(1), Key(30, WVarint), Varint(1)>>}

MCInputs  == (<<fp, M>> :> Inputs3) @@ (<<fq, N>> :> Inputs2) @@ (<<fp, S>> :> InputsW)
MCBuffers == (<<fp, M>> :> Buffers3) @@ (<<fq, N>> :> Buffers2) @@ (<<fp, S>> :> BuffersW)

(* Nulls, either name, numbers in strings, the other alphabet of base64, a *)
(* field or a oneof twice, a name that is not there.                       *)
Doc1(key, doc) == Object(<<JsonEntry(key, doc)>>)
Doc2(k1, d1, k2, d2) == Object(<<JsonEntry(k1, d1), JsonEntry(k2, d2)>>)
MCDocuments ==
  (<<fp, M>> :> {Doc2(a_b, String(<<45, 55>>), fb, Null), Doc2(fb, Null, fc, Object(<<>>)),
                 Doc2(fg, String(<<95, 45, 56>>), fc, Null), Doc2(fd, Null, fe, Array(<<Null>>)),
                 Doc2(fx, Null, fh, String(<<Minus>> \o JsonInfinity))})
  @@ (<<fq, N>> :> {Doc2(fa, Float(3), fg, Doc1(fb, Bool(1))), Doc2(fc, Null, fd, Array(<<Number(1), String(<<48>>)>>)),
                    Doc2(ExtensionJsonName([full |-> <<fq, fx>>]), Number(2), fb, Null)})
  @@ (<<fp, S>> :> {Doc2(fa, Null, fg, Null), Doc2(fa, Doc1(fa, Array(<<Null>>)), fb, Number(4)),
                    Doc2(fc, String(<<44, 97, 66, 44>>), fd, Object(<<>>)), Doc2(fe, String(A), fh, Doc1(<<55>>, Bool(1)))})

-----------------------------------------------------------------------------

Init == InitPool /\ InitMessage
Next == \/ type = 0 /\ NextPool /\ UNCHANGED msgVars
        \/ InitPool /\ NextDocument /\ UNCHANGED poolVars
Spec == Init /\ [][Next]_<<poolVars, msgVars>>

(* However a message was put together by the operations of DynamicMessage,  *)
(* it reads back from its text and from its JSON document, whatever the     *)
(* options they are written with, up to its unknown fields (text_format,    *)
(* serde).                                                                  *)
PrintedReadsBack == TextReadsBack /\ JsonReadsBack

=============================================================================
