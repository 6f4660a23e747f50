------------------------------ MODULE UintCodec ------------------------------
(***************************************************************************)
(* How the integers of Uint are written and read: big- and little-endian   *)
(* bytes, decimal and hexadecimal digits, other widths, and the compact    *)
(* form in which a block header carries its difficulty target              *)
(* (common/primitive-types/src/lib.rs, Compact).  A digit string is a      *)
(* sequence of digit values; a value of Radix or more stands for a         *)
(* character that is no digit.  A nibble is half a byte.                   *)
(***************************************************************************)
EXTENDS Uint

PerWord    == WordBits \div ByteBits
NumBytes   == Words * PerWord
NibbleBase == 2 ^ (ByteBits \div 2)
Invalid    == [ok |-> FALSE, v |-> Zero]
Valid(a)   == [ok |-> TRUE, v |-> a]

-----------------------------------------------------------------------------
(* Bytes *)

(* BigEndian::write_u64 of the words, the most significant word first. *)
to_big_endian(a)    == [k \in 1 .. NumBytes |-> byte(a, NumBytes - k)]
to_little_endian(a) == [k \in 1 .. NumBytes |-> byte(a, k - 1)]

Word(bytes, i) == SumFunction([k \in 0 .. PerWord - 1 |-> bytes[i * PerWord + k] * 2 ^ (ByteBits * k)])

(* Both readers assert that the slice is not longer than the number. *)
from_little_endian(s) ==
  LET padded == [k \in 0 .. NumBytes - 1 |-> IF k < Len(s) THEN s[k + 1] ELSE 0]
  IN [i \in Index |-> Word(padded, i)]

from_big_endian(s) == from_little_endian(Reverse(s))

-----------------------------------------------------------------------------
(* Decimal and hexadecimal digits *)

Radix == 10

from_dec_str(s) ==
  LET Step(acc, d) ==
        LET m == overflowing_mul_u64(acc.v, Radix)
            r == overflowing_add(m.ret, FromWord(d))
        IN IF ~acc.ok \/ d >= Radix \/ m.carry > 0 \/ r.o THEN Invalid ELSE Valid(r.v)
  IN FoldLeft(Step, Valid(Zero), s)

(* Display: digits from the least significant one, until nothing is left. *)
RECURSIVE DecDigits(_)
DecDigits(a) ==
  LET d == div_mod(a, FromWord(Radix))
  IN IF is_zero(d.q) THEN <<d.r[0]>> ELSE Append(DecDigits(d.q), d.r[0])

Display(a) == IF is_zero(a) THEN <<0>> ELSE DecDigits(a)

Nibbles(bytes) == FlattenSeq([k \in 1 .. Len(bytes) |->
                                <<bytes[k] \div NibbleBase, bytes[k] % NibbleBase>>])
Joined(digits) == [k \in 1 .. Len(digits) \div 2 |->
                     digits[2 * k - 1] * NibbleBase + digits[2 * k]]
WithoutLeading(digits) ==
  SubSeq(digits, Min({k \in 1 .. Len(digits) : digits[k] # 0} \cup {Len(digits) + 1}), Len(digits))

(* fmt_hex drops leading zero nibbles, but not the only one. *)
fmt_hex(a) == IF is_zero(a) THEN <<0>> ELSE WithoutLeading(Nibbles(to_big_endian(a)))

(* from_str: an odd number of digits is preceded by a zero. *)
from_str(digits) ==
  IF Len(digits) > 2 * NumBytes \/ \E k \in DOMAIN digits : digits[k] >= NibbleBase
    THEN Invalid
    ELSE Valid(from_big_endian(Joined(IF Len(digits) % 2 = 0 THEN digits ELSE <<0>> \o digits)))

(* from_str_radix knows the radixes 10 and 16. *)
from_str_radix(s, radix) ==
  CASE radix = 10 -> from_dec_str(s)
    [] radix = 16 -> from_str(s)
    [] OTHER      -> Invalid

(* hex::encode, for a number with and for an array without skipping zeros; *)
(* hex::decode of the result, and from_hex, which fills the low end.       *)
HexEncode(bytes, skip) ==
  IF skip THEN LET d == WithoutLeading(Nibbles(bytes)) IN IF d = <<>> THEN <<0>> ELSE d
  ELSE Nibbles(bytes)

HexDecode(digits) == Joined(IF Len(digits) % 2 = 0 THEN digits ELSE <<0>> \o digits)

from_hex(digits) == from_big_endian(HexDecode(digits))

-----------------------------------------------------------------------------
(* Other widths.  A wider number is a function on more word indices. *)

Widen(a, n) == [i \in 0 .. n - 1 |-> IF i \in DOMAIN a THEN a[i] ELSE 0]
TryNarrow(a, n) == [ok |-> \A i \in DOMAIN a : i >= n => a[i] = 0, v |-> [i \in 0 .. n - 1 |-> a[i]]]

-----------------------------------------------------------------------------
(* Compact: a size in bytes and three bytes of mantissa, whose top bit is  *)
(* a sign.                                                                 *)

MantissaBits == 3 * ByteBits
SignBit      == 2 ^ (MantissaBits - 1)

to_u256(c) ==
  LET kept == c.mantissa % SignBit
      word == IF c.size <= 3 THEN kept \div 2 ^ (ByteBits * (3 - c.size)) ELSE kept
      value == IF c.size <= 3 THEN FromWord(word) ELSE shl(FromWord(word), ByteBits * (c.size - 3))
      negative == word # 0 /\ c.mantissa >= SignBit
      overflow == \/ word # 0 /\ c.size > NumBytes + 2
                  \/ word >= 2 ^ ByteBits /\ c.size > NumBytes + 1
                  \/ word >= 2 ^ (2 * ByteBits) /\ c.size > NumBytes
  IN [ok |-> ~negative /\ ~overflow, v |-> value]

(* A mantissa whose top bit is set moves down by a byte. *)
Normalized(size, m) ==
  IF m >= SignBit THEN [size |-> size + 1, mantissa |-> m \div 2 ^ ByteBits]
  ELSE [size |-> size, mantissa |-> m]

from_u256(a) ==
  LET size == (bits(a) + ByteBits - 1) \div ByteBits
  IN Normalized(size, IF size <= 3 THEN a[0] * 2 ^ (ByteBits * (3 - size))
                      ELSE shr(a, ByteBits * (size - 3))[0])

-----------------------------------------------------------------------------

(* Whatever form the number is written in (bytes of either order, decimal  *)
(* or hexadecimal digits with or without leading zeros, a wider number)    *)
(* reads back as the same number, and a decimal number too large for the   *)
(* type is refused by from_dec_str rather than wrapped.                    *)
ReadsBack(a) ==
  /\ from_big_endian(to_big_endian(a)) = a
  /\ from_little_endian(to_little_endian(a)) = a
  /\ from_str_radix(Display(a), 10) = Valid(a)
  /\ from_str_radix(fmt_hex(a), 16) = Valid(a)
  /\ \A skip \in BOOLEAN : from_hex(HexEncode(to_big_endian(a), skip)) = a
  /\ TryNarrow(Widen(a, 2 * Words), Words) = Valid(a)
  /\ \A d \in 0 .. Radix :
       \A r \in {from_dec_str(Append(Display(a), d))}, n \in {Value(a) * Radix + d} :
         IF d < Radix /\ n < Bound THEN r.ok /\ Value(r.v) = n ELSE ~r.ok

(* A target put into a header by Compact::from_u256 reads back, by         *)
(* Compact::to_u256, as a number that is neither negative nor too large,   *)
(* never above the target and never below it by a unit of the mantissa;    *)
(* what was read back is the same when it is written again.                *)
CompactKeepsTarget(a) ==
  \A c \in {from_u256(a)} :
  \A r \in {to_u256(c)} :
    /\ r.ok
    /\ c.mantissa < SignBit
    /\ Value(r.v) <= Value(a)
    /\ Value(a) - Value(r.v) < IF c.size <= 3 THEN 1 ELSE 2 ^ (ByteBits * (c.size - 3))
    /\ to_u256(from_u256(r.v)).v = r.v

(* A larger target does not read back as a smaller one. *)
CompactKeepsOrder(a, b) ==
  Value(a) <= Value(b) => Value(to_u256(from_u256(a)).v) <= Value(to_u256(from_u256(b)).v)

=============================================================================
