-------------------------------- MODULE Uint --------------------------------
(***************************************************************************)
(* The fixed-width unsigned integers every amount, difficulty and hash     *)
(* target of the node is computed with (common/uint/src/uint.rs and the    *)
(* conversions of common/primitive-types/src/lib.rs).  A number is what    *)
(* construct_uint! makes of it: a function from word indices to words,     *)
(* least significant first.  The 64-bit word, the 8-bit byte and the       *)
(* number of words are constants, so that TLC can take every operand of a  *)
(* small type; the algorithms never look at the word size other than       *)
(* through WordBits.  An operation that may panic returns [ok, v].         *)
(***************************************************************************)
EXTENDS Integers, SequencesExt

CONSTANTS WordBits,   \* 64 in the code
          ByteBits,   \* 8 in the code, divides WordBits evenly
          Words       \* 2, 3, 4 and 8 for U128, U192, U256 and U512

Base  == 2 ^ WordBits
Index == 0 .. Words - 1
Num   == [Index -> 0 .. Base - 1]
Upto(n) == [i \in 1 .. n |-> i - 1]

(* The number a word function stands for, and the other way round. *)
Value(a)   == SumFunction([i \in DOMAIN a |-> a[i] * Base ^ i])
NumOf(n)   == [i \in Index |-> (n \div Base ^ i) % Base]
Bound      == Base ^ Words
ToBool(b)  == IF b THEN 1 ELSE 0

Zero      == [i \in Index |-> 0]
one       == [Zero EXCEPT ![0] = 1]
max_value == [i \in Index |-> Base - 1]
FromWord(w) == [Zero EXCEPT ![0] = w]
is_zero(a)  == \A i \in Index : a[i] = 0
fits_word(a) == \A i \in Index \ {0} : a[i] = 0

(* TryFrom into a machine integer of at most one word. *)
try_into(a, limit) == [ok |-> fits_word(a) /\ a[0] <= limit, v |-> a[0]]

(* TryFrom into u128, the two low words. *)
as_u128(a) == [ok |-> \A i \in Index : i >= 2 => a[i] = 0, v |-> a[1] * Base + a[0]]

(* u64::leading_zeros and u64::trailing_zeros. *)
LeadingZeros(w)  == CHOOSE k \in 0 .. WordBits :
                      2 ^ (WordBits - k) > w /\ (k = WordBits \/ 2 ^ (WordBits - k - 1) <= w)
TrailingZeros(w) == Max({k \in 0 .. WordBits : w % 2 ^ k = 0})

leading_zeros(a) ==
  IF is_zero(a) THEN WordBits * Words
  ELSE LET top == Max({i \in Index : a[i] # 0})
       IN WordBits * (Words - 1 - top) + LeadingZeros(a[top])

trailing_zeros(a) ==
  IF is_zero(a) THEN WordBits * Words
  ELSE LET low == Min({i \in Index : a[i] # 0})
       IN WordBits * low + TrailingZeros(a[low])

bits(a) ==
  IF fits_word(a) THEN WordBits - LeadingZeros(a[0])
  ELSE LET top == Max({i \in Index : a[i] # 0})
       IN WordBits * (top + 1) - LeadingZeros(a[top])

bit(a, k)  == (a[k \div WordBits] \div 2 ^ (k % WordBits)) % 2 = 1
byte(a, k) == LET per == WordBits \div ByteBits
              IN (a[k \div per] \div 2 ^ ((k % per) * ByteBits)) % 2 ^ ByteBits

(* Ord::cmp compares the words from the most significant one down. *)
Less(a, b) ==
  \E i \in Index : a[i] < b[i] /\ \A j \in Index : j > i => a[j] = b[j]

-----------------------------------------------------------------------------
(* Addition, subtraction, multiplication *)

(* u64::overflowing_add and u64::overflowing_sub. *)
AddWord(a, b) == [r |-> (a + b) % Base, o |-> a + b >= Base]
SubWord(a, b) == [r |-> (a - b) % Base, o |-> a < b]
WordOp(op, x, y) == IF op = "add" THEN AddWord(x, y) ELSE SubWord(x, y)

BinopStep(r1, r2) == [r |-> r2.r, o |-> ToBool(r1.o) + ToBool(r2.o)]

(* uint_overflowing_binop!: word by word, with the carry of the last one. *)
uint_overflowing_binop(op, a, b) ==
  LET Step(acc, i) ==
        LET r1 == WordOp(op, a[i], b[i])
            s  == IF acc.carry # 0 THEN BinopStep(r1, WordOp(op, r1.r, acc.carry))
                  ELSE [r |-> r1.r, o |-> ToBool(r1.o)]
        IN [ret |-> [acc.ret EXCEPT ![i] = s.r], carry |-> s.o]
      end == FoldLeft(Step, [ret |-> Zero, carry |-> 0], Upto(Words))
  IN [v |-> end.ret, o |-> end.carry > 0]

overflowing_add(a, b) == uint_overflowing_binop("add", a, b)
overflowing_sub(a, b) == uint_overflowing_binop("sub", a, b)

(* One inner step of uint_full_mul_reg!: me[j] * you[i] into ret[i + j]. *)
MulStep(acc, i, a, b) ==
  LET prod == a * b
      low  == AddWord(prod % Base, acc.ret[i])
      hi   == AddWord(prod \div Base + ToBool(low.o), acc.carry)
      top  == AddWord(hi.r, acc.ret[i + 1])
  IN [ret |-> [acc.ret EXCEPT ![i] = low.r, ![i + 1] = top.r],
      carry |-> ToBool(hi.o \/ top.o)]

uint_full_mul_reg(a, b) ==
  LET Row(ret, i) ==
        FoldLeft(LAMBDA acc, j : MulStep(acc, i + j, a[j], b[i]),
                 [ret |-> ret, carry |-> 0], Upto(Words)).ret
  IN FoldLeft(Row, [i \in 0 .. 2 * Words - 1 |-> 0], Upto(Words))

overflowing_mul(a, b) ==
  LET ret == uint_full_mul_reg(a, b)
  IN [v |-> [i \in Index |-> ret[i]], o |-> \E i \in Index : ret[i + Words] # 0]

(* The operators + - * panic where the overflowing form sets its flag; the *)
(* checked form returns None there and the saturating one a bound.         *)
Checked(r)           == [ok |-> ~r.o, v |-> r.v]
Saturating(r, limit) == IF r.o THEN limit ELSE r.v

overflowing_mul_u64(a, w) ==
  LET Step(acc, i) == LET p == a[i] * w + acc.carry
                      IN [ret |-> [acc.ret EXCEPT ![i] = p % Base], carry |-> p \div Base]
  IN FoldLeft(Step, [ret |-> a, carry |-> 0], Upto(Words))

not(a) == [i \in Index |-> Base - 1 - a[i]]
overflowing_neg(a) ==
  IF is_zero(a) THEN [v |-> a, o |-> FALSE]
  ELSE [v |-> overflowing_add(not(a), one).v, o |-> TRUE]

-----------------------------------------------------------------------------
(* Shifts *)

shl(a, shift) ==
  LET ws == shift \div WordBits
      bs == shift % WordBits
  IN [i \in Index |->
        (IF i >= ws THEN (a[i - ws] * 2 ^ bs) % Base ELSE 0)
        + (IF bs > 0 /\ i >= ws + 1 THEN a[i - 1 - ws] \div 2 ^ (WordBits - bs) ELSE 0)]

shr(a, shift) ==
  LET ws == shift \div WordBits
      bs == shift % WordBits
  IN [i \in Index |->
        (IF i + ws < Words THEN a[i + ws] \div 2 ^ bs ELSE 0)
        + (IF bs > 0 /\ i + ws + 1 < Words
             THEN (a[i + ws + 1] * 2 ^ (WordBits - bs)) % Base ELSE 0)]

(* The shifts of div_mod_knuth, to and from one word more. *)
full_shl(a, shift) ==
  LET hi == shr(a, WordBits - shift)
  IN [i \in 0 .. Words |-> IF i = 0 THEN (a[0] * 2 ^ shift) % Base ELSE hi[i - 1]]

full_shr(u, shift) ==
  [i \in Index |-> u[i] \div 2 ^ shift
                   + (IF shift > 0 THEN (u[i + 1] * 2 ^ (WordBits - shift)) % Base ELSE 0)]

-----------------------------------------------------------------------------
(* Division *)

div_mod_word(hi, lo, y) ==
  [q |-> ((hi * Base + lo) \div y) % Base, r |-> (hi * Base + lo) % y]

div_mod_small(a, y) ==
  LET Step(acc, i) == LET d == div_mod_word(acc.rem, acc.q[i], y)
                      IN [q |-> [acc.q EXCEPT ![i] = d.q], rem |-> d.r]
      end == FoldLeft(Step, [q |-> a, rem |-> 0], Reverse(Upto(Words)))
  IN [q |-> end.q, r |-> FromWord(end.rem)]

(* binop_slice: u[j..] combined with the words of b, and the last carry. *)
binop_slice(op, u, j, b, len) ==
  LET Step(acc, i) ==
        LET r1 == AddWord(b[i], ToBool(acc.c))
            r2 == WordOp(op, acc.u[j + i], r1.r)
        IN [u |-> [acc.u EXCEPT ![j + i] = r2.r], c |-> r1.o \/ r2.o]
  IN FoldLeft(Step, [u |-> u, c |-> FALSE], Upto(len))

(* The loop that lowers q_hat while q_hat * v_{n-2} is too large (D3). *)
RECURSIVE LowerGuess(_, _, _, _, _)
LowerGuess(q, r, v1, v2, u2) ==
  IF q * v2 <= r * Base + u2 THEN q
  ELSE IF r + v1 >= Base THEN q - 1
       ELSE LowerGuess(q - 1, r + v1, v1, v2, u2)

Guess(u, j, n, v) ==
  IF u[j + n] < v[n - 1]
    THEN LET d == div_mod_word(u[j + n], u[j + n - 1], v[n - 1])
         IN LowerGuess(d.q, d.r, v[n - 1], v[n - 2], u[j + n - 2])
    ELSE Base - 1

(* The guess lowered, but v not added back to the remainder. *)
AddBack_Forgotten(s, j, n, v) == s.u

(* One quotient digit: subtract q_hat * v (D4) and add v back (D6) if the   *)
(* guess was one too large.                                                 *)
AddBack(s, j, n, v) ==
  LET back == binop_slice("add", s.u, j, v, n)
  IN [back.u EXCEPT ![j + n] = (@ + ToBool(back.c)) % Base]

KnuthStep(acc, j, n, v) ==
  LET q_hat == Guess(acc.u, j, n, v)
      m     == overflowing_mul_u64(v, q_hat)
      qv    == [i \in 0 .. Words |-> IF i = Words THEN m.carry ELSE m.ret[i]]
      s     == binop_slice("sub", acc.u, j, qv, n + 1)
  IN IF s.c THEN [q |-> [acc.q EXCEPT ![j] = q_hat - 1], u |-> AddBack(s, j, n, v)]
     ELSE [q |-> [acc.q EXCEPT ![j] = q_hat], u |-> s.u]

div_mod_knuth(a, v, n, m) ==
  LET shift == LeadingZeros(v[n - 1])
      end == FoldLeft(LAMBDA acc, j : KnuthStep(acc, j, n, shl(v, shift)),
                      [q |-> Zero, u |-> full_shl(a, shift)], Reverse(Upto(m + 1)))
  IN [q |-> end.q, r |-> full_shr(end.u, shift)]

words(nbits) == 1 + (nbits - 1) \div WordBits

(* div_mod asserts that the divisor is not zero; checked_div asks first. *)
div_mod(a, b) ==
  IF bits(a) < bits(b) THEN [q |-> Zero, r |-> a]
  ELSE IF bits(b) <= WordBits THEN div_mod_small(a, b[0])
       ELSE div_mod_knuth(a, b, words(bits(b)), words(bits(a)) - words(bits(b)))

-----------------------------------------------------------------------------
(* Square root and powers *)

RECURSIVE SqrtFrom(_, _)
SqrtFrom(a, prev) ==
  LET x == shr(overflowing_add(prev, div_mod(a, prev).q).v, 1)
  IN IF ~Less(x, prev) THEN prev ELSE SqrtFrom(a, x)

integer_sqrt(a) ==
  IF ~Less(one, a) THEN a ELSE SqrtFrom(a, shl(one, (bits(a) + 1) \div 2))

(* The while loops of pow and overflowing_pow go on while n > 1.  (That   *)
(* the operands are numbers makes TLC evaluate them at every turn.)        *)
Continues(x, y, n) == x \in Num /\ y \in Num /\ Less(one, n)

(* The odd step: overflowing_pow subtracts one before it halves, pow       *)
(* clears the top bit.                                                      *)
Halved(n, clears) ==
  IF clears THEN shr([n EXCEPT ![Words - 1] = @ % 2 ^ (WordBits - 1)], 1)
  ELSE shr(overflowing_sub(n, one).v, 1)

(* The flag gathers every overflow; in pow the first of them panics. *)
RECURSIVE PowLoop(_, _, _, _, _)
PowLoop(x, y, n, o, clears) ==
  LET xx == overflowing_mul(x, x)
      xy == overflowing_mul(x, y)
  IN CASE ~Continues(x, y, n) -> [v |-> xy.v, o |-> o \/ xy.o]
       [] Continues(x, y, n) /\ n[0] % 2 = 0 -> PowLoop(xx.v, y, shr(n, 1), o \/ xx.o, clears)
       [] OTHER -> PowLoop(xx.v, xy.v, Halved(n, clears), o \/ xx.o \/ xy.o, clears)

(* overflowing_pow, and pow if *clears*. *)
power(a, n, clears) == IF is_zero(n) THEN [v |-> one, o |-> FALSE] ELSE PowLoop(a, one, n, FALSE, clears)

-----------------------------------------------------------------------------

(* Sums, differences, products and comparisons agree                       *)
(* with the integers: the result is the integer result reduced to the      *)
(* width, and the flag (on which +, -, * panic, checked_ returns None and  *)
(* saturating_ a bound) is set exactly when something was cut off.         *)
ArithmeticIsRight(a, b) ==
  LET x == Value(a)
      y == Value(b)
  IN /\ overflowing_add(a, b) = [v |-> NumOf((x + y) % Bound), o |-> x + y >= Bound]
     /\ overflowing_sub(a, b) = [v |-> NumOf((x - y) % Bound), o |-> x < y]
     /\ overflowing_mul(a, b) = [v |-> NumOf((x * y) % Bound), o |-> x * y >= Bound]
     /\ Value(uint_full_mul_reg(a, b)) = x * y
     /\ LET m == overflowing_mul_u64(a, b[0]) IN Value(m.ret) + m.carry * Bound = x * b[0]
     /\ Less(a, b) <=> x < y

(* The quotient and the remainder of div_mod are the integer ones, in each *)
(* of its three ways of dividing: a small dividend, a one-word divisor,    *)
(* and Knuth's algorithm with its guessed digits.                          *)
DivisionIsRight(a, b) ==
  is_zero(b) \/ \A d \in {div_mod(a, b)} : /\ Value(d.q) = Value(a) \div Value(b)
                                          /\ Value(d.r) = Value(a) % Value(b)

(* The greatest root, the bit counts, the bits, the negation and the shifts *)
(* of a number.                                                            *)
RootsAndBits(a) ==
  \A x \in {Value(a)}, r \in {Value(integer_sqrt(a))} :
     /\ r * r <= x /\ x < (r + 1) * (r + 1)
     /\ x < 2 ^ bits(a) /\ (x = 0 \/ 2 ^ (bits(a) - 1) <= x)
     /\ bits(a) + leading_zeros(a) = WordBits * Words
     /\ x % 2 ^ trailing_zeros(a) = 0
     /\ \A k \in 0 .. WordBits * Words - 1 : bit(a, k) <=> (x \div 2 ^ k) % 2 = 1
     /\ overflowing_neg(a).v = NumOf((0 - x) % Bound)
     /\ \A k \in 0 .. WordBits * Words :
          /\ shl(a, k) = NumOf((x * 2 ^ k) % Bound)
          /\ shr(a, k) = NumOf(x \div 2 ^ k)

(* x to the n, or Bound if that is Bound or more. *)
RECURSIVE Power(_, _)
Power(x, n) ==
  CASE n = 0 -> 1
    [] n > 0 /\ x <= 1 -> x
    [] n >= WordBits * Words /\ x > 1 -> Bound
    [] OTHER -> Min({Bound, x * Power(x, n - 1)})

(* overflowing_pow reports an overflow exactly when the power does not     *)
(* fit, and is the power when it does.  pow panics exactly then, but for    *)
(* an odd exponent with the top bit set, of which it clears that bit.      *)
PowersAreRight(a, n) ==
  \A clears \in {c \in BOOLEAN : c => n[0] % 2 = 0 \/ Value(n) < Bound \div 2} :
    \A r \in {power(a, n, clears)}, p \in {Power(Value(a), Value(n))} :
      IF p < Bound THEN ~r.o /\ Value(r.v) = p ELSE r.o

=============================================================================
