-------------------------------- MODULE Chars --------------------------------
(***************************************************************************)
(* Characters and the conversions of text the reflection library and the   *)
(* formats share.  A character is its ASCII code; an identifier, a string  *)
(* and a text are sequences of characters; a full name is a sequence of    *)
(* identifiers.                                                            *)
(***************************************************************************)
EXTENDS Integers, SequencesExt

Underscore == 95
Backslash  == 92
Minus      == 45
Digits     == 48 .. 57
IsLower(c) == c \in 97 .. 122
IsUpper(c) == c \in 65 .. 90

(* The names of the fields of a map entry. *)
KeyName   == <<107, 101, 121>>
ValueName == <<118, 97, 108, 117, 101>>

to_ascii_uppercase(c) == IF IsLower(c) THEN c - 32 ELSE c
to_ascii_lowercase(c) == IF IsUpper(c) THEN c + 32 ELSE c

(* The standard library's decimal form of an integer. *)
RECURSIVE DigitsOf(_)
DigitsOf(n) == IF n < 10 THEN <<48 + n>> ELSE Append(DigitsOf(n \div 10), 48 + (n % 10))
ToDecimal(n) == IF n < 0 THEN <<Minus>> \o DigitsOf(-n) ELSE DigitsOf(n)

(* str::parse of an integer, of one without a sign when ~signed. *)
FromStr(s, signed) ==
  LET neg == s # <<>> /\ Head(s) = Minus
      ds  == IF neg THEN Tail(s) ELSE s
      abs == FoldLeft(LAMBDA n, c : 10 * n + (c - 48), 0, ds)
  IN IF ds # <<>> /\ (\A i \in DOMAIN ds : ds[i] \in Digits) /\ (signed \/ ~neg)
       THEN [ok |-> TRUE, v |-> IF neg THEN -abs ELSE abs]
       ELSE [ok |-> FALSE, v |-> 0]

-----------------------------------------------------------------------------
(* Names *)

(* to_json_name: an underscore goes and raises the letter after it. *)
to_json_name(name) ==
  LET Step(acc, c) ==
        IF c = Underscore THEN [acc EXCEPT !.up = TRUE]
        ELSE [up |-> FALSE, s |-> Append(acc.s, IF acc.up THEN to_ascii_uppercase(c) ELSE c)]
  IN FoldLeft(Step, [up |-> FALSE, s |-> <<>>], name).s

to_lower_without_underscores(name) ==
  LET kept == SelectSeq(name, LAMBDA c : c # Underscore)
  IN [i \in DOMAIN kept |-> to_ascii_lowercase(kept[i])]

-----------------------------------------------------------------------------
(* Bytes as text *)

Octal(c)  == c \in 48 .. 55
HexVal(c) == CASE c \in Digits   -> c - 48
               [] c \in 97 .. 102 -> c - 87
               [] c \in 65 .. 70  -> c - 55
               [] OTHER           -> -1

(* The letters that stand for a byte of their own after a backslash. *)
Escapes == (97 :> 7) @@ (98 :> 8) @@ (102 :> 12) @@ (110 :> 10) @@ (114 :> 13) @@ (116 :> 9)
           @@ (118 :> 11) @@ (92 :> 92) @@ (63 :> 63) @@ (39 :> 39) @@ (34 :> 34)

(* The longest run of at most three octal digits from position p. *)
OctalRun(s, p) ==
  LET n == Max({i \in 0 .. 3 : p + i - 1 <= Len(s) /\ \A j \in p .. p + i - 1 : Octal(s[j])})
  IN [next |-> p + n, v |-> FoldLeft(LAMBDA a, c : 8 * a + (c - 48), 0, SubSeq(s, p, p + n - 1))]

(* unescape_c_escape_string: the default value of a bytes field.  Three     *)
(* octal digits are added up in a byte.                                    *)
Unescaped(acc, s, p) ==
  LET run == OctalRun(s, p + 1)
  IN CASE s[p] # Backslash -> [acc EXCEPT !.p = p + 1, !.v = Append(@, s[p])]
       [] s[p] = Backslash /\ p = Len(s) -> [acc EXCEPT !.ok = FALSE]
       [] OTHER ->
            CASE s[p + 1] \in DOMAIN Escapes ->
                   [acc EXCEPT !.p = p + 2, !.v = Append(@, Escapes[s[p + 1]])]
              [] Octal(s[p + 1]) -> [acc EXCEPT !.p = run.next, !.v = Append(@, run.v % 256)]
              [] s[p + 1] \in {120, 88} ->
                   IF p + 3 > Len(s) \/ HexVal(s[p + 2]) < 0 \/ HexVal(s[p + 3]) < 0
                     THEN [acc EXCEPT !.ok = FALSE]
                     ELSE [acc EXCEPT !.p = p + 4,
                                      !.v = Append(@, 16 * HexVal(s[p + 2]) + HexVal(s[p + 3]))]
              [] OTHER -> [acc EXCEPT !.ok = FALSE]

RECURSIVE UnescapeFrom(_, _)
UnescapeFrom(acc, s) ==
  IF ~acc.ok \/ acc.p > Len(s) THEN acc ELSE UnescapeFrom(Unescaped(acc, s, acc.p), s)

unescape_c_escape_string(s) == UnescapeFrom([ok |-> TRUE, p |-> 1, v |-> <<>>], s)

=============================================================================
