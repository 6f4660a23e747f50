-------------------------------- MODULE Protos --------------------------------
(***************************************************************************)
(* Short ways to write the files that the instances add to a pool.         *)
(***************************************************************************)
EXTENDS Descriptors

(* Identifiers: those of one letter, and a longer one. *)
fa == <<97>>
fb == <<98>>
fc == <<99>>
fd == <<100>>
fe == <<101>>
fg == <<103>>
fh == <<104>>
fn == <<110>>
fp == <<112>>
fq == <<113>>
ft == <<116>>
fx == <<120>>
A == <<65>>
B == <<66>>
D == <<68>>
E == <<69>>
F == <<70>>
G == <<71>>
H == <<72>>
M == <<77>>
N == <<78>>
O == <<79>>
S == <<83>>
T == <<84>>
a_b == <<97, 95, 98>>

Rel(path) == [abs |-> FALSE, path |-> path]
Abs(path) == [abs |-> TRUE, path |-> path]
NoDefault == [some |-> FALSE, s |-> <<>>]
Default(s) == [some |-> TRUE, s |-> s]

Field(name, number, label, ty, tyname) ==
  [name |-> name, number |-> number, label |-> label, ty |-> ty, tyname |-> tyname,
   extendee |-> NoName, oneof |-> 0, json |-> <<>>, def |-> NoDefault, proto3_optional |-> FALSE,
   packed |-> "unset"]
Scalar(name, number, ty) == Field(name, number, "optional", ty, NoName)
OfType(name, number, path) == Field(name, number, "optional", "unset", Rel(path))

Message(name, fields) ==
  [name |-> name, oneofs |-> <<>>, fields |-> fields, nested |-> <<>>, enums |-> <<>>,
   extensions |-> <<>>, reserved |-> {}, ranges |-> {}, entry |-> FALSE]
Value(name, number) == [name |-> name, number |-> number]
Enum(name, values) == [name |-> name, values |-> values, alias |-> FALSE, reserved |-> {}]

File(name, package, syntax) ==
  [name |-> name, package |-> package, syntax |-> syntax, deps |-> <<>>, public |-> {},
   messages |-> <<>>, enums |-> <<>>, services |-> <<>>, extensions |-> <<>>]

=============================================================================
