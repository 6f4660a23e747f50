------------------------------- MODULE Bech32 -------------------------------
(***************************************************************************)
(* The checksummed strings addresses are written in (common/bech32) and    *)
(* the addresses made from them (common/primitive-types/src/address.rs,     *)
(* common/types/src/account.rs).  A character is its ASCII code, a string   *)
(* a sequence of them, and the 30-bit checksum its six 5-bit digits, the    *)
(* most significant first.  A result is [ok |-> FALSE] or [ok, ...].        *)
(***************************************************************************)
EXTENDS Integers, SequencesExt

CONSTANTS HashLen,    \* 20: the bytes of a public key's hash in an address
          HrpOf       \* the prefix of each network

Err == [ok |-> FALSE]
SEP == 49             \* '1'
CHECKSUM_LENGTH == 6

CHARSET == << 113, 112, 122, 114, 121, 57, 120, 56, 103, 102, 50, 116, 118, 100, 119, 48,
              115, 51, 106, 110, 53, 52, 107, 104, 99, 101, 54, 109, 117, 97, 55, 108 >>
IsLower(c)  == c \in 97 .. 122
IsUpper(c)  == c \in 65 .. 90
ToLower(c)  == IF IsUpper(c) THEN c + 32 ELSE c
ToUpper(c)  == IF IsLower(c) THEN c - 32 ELSE c
to_char(v)  == CHARSET[v + 1]
InCharset   == Range(CHARSET) \cup {c - 32 : c \in {d \in Range(CHARSET) : IsLower(d)}}
CHARSET_REV == [c \in InCharset |-> (CHOOSE k \in 1 .. 32 : CHARSET[k] = ToLower(c)) - 1]

-----------------------------------------------------------------------------
(* The checksum *)

Bit(n, k)  == (n \div 2 ^ k) % 2
Xor5(a, b) == ((a + b) % 2) + 2 * ((a \div 2 + b \div 2) % 2) + 4 * ((a \div 4 + b \div 4) % 2)
              + 8 * ((a \div 8 + b \div 8) % 2) + 16 * ((a \div 16 + b \div 16) % 2)
Xor(c, d)  == << Xor5(c[1], d[1]), Xor5(c[2], d[2]), Xor5(c[3], d[3]),
                 Xor5(c[4], d[4]), Xor5(c[5], d[5]), Xor5(c[6], d[6]) >>

GEN == << <<29, 22, 20, 21, 29, 18>>, <<19, 5, 1, 3, 19, 13>>, <<15, 10, 2, 6, 15, 26>>,
          <<30, 20, 4, 12, 30, 29>>, <<21, 1, 8, 24, 21, 19>> >>
constant == [Bech32 |-> <<0, 0, 0, 0, 0, 1>>, Bech32m |-> <<21, 28, 16, 12, 5, 3>>]

(* One step: the top digit leaves, v enters, and the generators of the     *)
(* bits that left are added.                                                *)
polymod_step(chk, v) ==
  LET Added(c, i) == IF Bit(chk[1], i - 1) = 1 THEN Xor(c, GEN[i]) ELSE c
  IN Added(Added(Added(Added(Added(<<chk[2], chk[3], chk[4], chk[5], chk[6], v>>, 1), 2), 3), 4), 5)

polymod(values) == FoldLeft(polymod_step, <<0, 0, 0, 0, 0, 1>>, values)

hrp_expand(hrp) == [k \in DOMAIN hrp |-> hrp[k] \div 32] \o <<0>> \o [k \in DOMAIN hrp |-> hrp[k] % 32]

(* Variant::from_remainder: the variant whose constant it is, if any. *)
from_remainder(r) == {v \in DOMAIN constant : constant[v] = r}
verify_checksum(hrp, data) == from_remainder(polymod(hrp_expand(hrp) \o data))

-----------------------------------------------------------------------------
(* Encoding and decoding *)

Case(s) == [upper |-> \E k \in DOMAIN s : IsUpper(s[k]), lower |-> \E k \in DOMAIN s : IsLower(s[k])]
Mixed(c) == c.upper /\ c.lower

check_hrp(hrp) == /\ Len(hrp) \in 1 .. 83
                  /\ \A k \in DOMAIN hrp : hrp[k] \in 33 .. 126
                  /\ ~Mixed(Case(hrp))
Lower(s) == [k \in DOMAIN s |-> ToLower(s[k])]
Chars(data) == [k \in DOMAIN data |-> to_char(data[k])]

encode_without_checksum(hrp, data) ==
  IF check_hrp(hrp) THEN [ok |-> TRUE, s |-> Lower(hrp) \o <<SEP>> \o Chars(data)] ELSE Err

(* Bech32Writer: six zeros make room for the checksum. *)
Checksum(hrp, data, variant) ==
  Xor(polymod(hrp_expand(hrp) \o data \o <<0, 0, 0, 0, 0, 0>>), constant[variant])

encode(hrp, data, variant) ==
  IF check_hrp(hrp) THEN encode_without_checksum(hrp, data \o Checksum(Lower(hrp), data, variant))
  ELSE Err

(* split_and_decode: the last separator; one case in the whole string.      *)
SplitAt(s, sep) ==
  LET hrp == SubSeq(s, 1, sep - 1)
      raw == SubSeq(s, sep + 1, Len(s))
  IN IF check_hrp(hrp) /\ Range(raw) \subseteq InCharset /\ ~Mixed(Case(hrp \o raw))
       THEN [ok |-> TRUE, hrp |-> Lower(hrp), data |-> [k \in DOMAIN raw |-> CHARSET_REV[raw[k]]]]
       ELSE Err
decode_without_checksum(s) ==
  IF SEP \in Range(s) THEN SplitAt(s, Max({k \in DOMAIN s : s[k] = SEP})) ELSE Err

(* The checksum is cut off before it is looked at. *)
Checked_Cut(d, variants) ==
  [ok |-> TRUE, hrp |-> d.hrp, data |-> SubSeq(d.data, 1, Len(d.data) - CHECKSUM_LENGTH), variant |-> "Bech32m"]

Checked(d, variants) ==
  IF variants = {} THEN Err
  ELSE [ok |-> TRUE, hrp |-> d.hrp, data |-> SubSeq(d.data, 1, Len(d.data) - CHECKSUM_LENGTH),
        variant |-> CHOOSE v \in variants : TRUE]
Verified(d) ==
  IF ~d.ok \/ Len(d.data) < CHECKSUM_LENGTH THEN Err ELSE Checked(d, verify_checksum(d.hrp, d.data))
decode(s) == Verified(decode_without_checksum(s))

-----------------------------------------------------------------------------
(* Groups of bits *)

(* Vec<u8>::write_base32 with its one-byte buffer. *)
write_base32(bytes) ==
  LET Flush(w) == IF w.bits < 5 THEN w
                  ELSE [out |-> Append(w.out, w.buf \div 8), buf |-> (w.buf * 32) % 256, bits |-> w.bits - 5]
      Byte(w, b) == [out  |-> Append(w.out, w.buf \div 8 + b \div 2 ^ (3 + w.bits)),
                     buf  |-> (b * 2 ^ (5 - w.bits)) % 256, bits |-> w.bits + 3]
      End(w) == IF w.bits = 0 THEN w.out ELSE Append(w.out, w.buf \div 8)
  IN End(Flush(FoldLeft(LAMBDA w, b : Byte(Flush(w), b), [out |-> <<>>, buf |-> 0, bits |-> 0], bytes)))

base32_len(bytes) == (Len(bytes) * 8 + 4) \div 5

(* convert_bits: of the 32 bits of acc only those not yet written matter,   *)
(* fewer than from + to.                                                    *)
RECURSIVE Groups(_, _)
Groups(w, to) ==
  IF w.bits < to THEN w
  ELSE Groups([w EXCEPT !.bits = @ - to, !.acc = @ % 2 ^ (w.bits - to),
                        !.out = Append(@, w.acc \div 2 ^ (w.bits - to))], to)

Rest(w, from, to, pad) ==
  CASE pad /\ w.bits > 0 -> [ok |-> TRUE, v |-> Append(w.out, w.acc * 2 ^ (to - w.bits))]
    [] ~pad /\ (w.bits >= from \/ w.acc # 0) -> Err
    [] OTHER -> [ok |-> TRUE, v |-> w.out]

convert_bits(data, from, to, pad) ==
  IF \E k \in DOMAIN data : data[k] >= 2 ^ from THEN Err
  ELSE Rest(FoldLeft(LAMBDA w, v : Groups([w EXCEPT !.acc = @ * 2 ^ from + v, !.bits = @ + from], to),
                     [out |-> <<>>, acc |-> 0, bits |-> 0], data), from, to, pad)

-----------------------------------------------------------------------------
(* Addresses *)

(* get_address_from_pub_key, _secret_key, _package_name and _seed differ   *)
(* only in what they hash; network.hrp() is HrpOf.                          *)
get_address(hash, network) == encode(HrpOf[network], write_base32(hash), "Bech32m").s

ADDRESS_LEN(network) == Len(HrpOf[network]) + 1 + (HashLen * 8 + 4) \div 5 + CHECKSUM_LENGTH

(* Address::from_str.  The length guard of the code compares the            *)
(* complement of the length and never refuses; a string of another length   *)
(* panics where it is copied.                                               *)
from_str(s, len) == CASE ~decode(s).ok -> "err"
                      [] decode(s).ok /\ Len(s) # len -> "panic"
                      [] OTHER -> "ok"

Payload(d) == IF d.ok THEN convert_bits(d.data, 5, 8, FALSE) ELSE Err
to_address20(s) == Payload(decode(s))

NetworkOf(d) == IF d.ok THEN {n \in DOMAIN HrpOf : HrpOf[n] = d.hrp} ELSE {}
network(s)   == NetworkOf(decode(s))
is_valid(s)  == network(s) # {}

-----------------------------------------------------------------------------
(* An address is as long as the type, reads back as its hash and network,   *)
(* and is also read in capitals but not in mixed case.  With any one        *)
(* character of its data or checksum replaced it is refused by from_str     *)
(* and has no network: no mistyped character leads to another account.      *)
AddressIsSafe(hash, net) ==
  \A s \in {get_address(hash, net)} :
    /\ Len(s) = ADDRESS_LEN(net)
    /\ from_str(s, ADDRESS_LEN(net)) = "ok"
    /\ to_address20(s) = [ok |-> TRUE, v |-> hash]
    /\ network(s) = {net}
    /\ decode([k \in DOMAIN s |-> ToUpper(s[k])]) = decode(s)
    /\ ~decode([s EXCEPT ![1] = ToUpper(s[1])]).ok
    /\ \A k \in Len(HrpOf[net]) + 2 .. Len(s) : \A c \in Range(CHARSET) \ {s[k]} :
         ~is_valid([s EXCEPT ![k] = c])

(* decode returns what encode was given, its prefix in lower case and the  *)
(* variant that was used.                                                   *)
DecodesBack(hrp, data) ==
  \A v \in DOMAIN constant :
    IF check_hrp(hrp) /\ Len(hrp) > 0
      THEN \A s \in {encode(hrp, data, v).s} :
             /\ decode(s) = [ok |-> TRUE, hrp |-> Lower(hrp), data |-> data, variant |-> v]
             /\ decode_without_checksum(encode_without_checksum(hrp, data).s).data = data
      ELSE ~encode(hrp, data, v).ok

(* The two ways to make 5-bit groups of bytes (write_base32, convert_bits)  *)
(* agree, base32_len is their length, and the bytes come back.              *)
BytesConvertBack(bytes) ==
  /\ convert_bits(bytes, 8, 5, TRUE) = [ok |-> TRUE, v |-> write_base32(bytes)]
  /\ Len(write_base32(bytes)) = base32_len(bytes)
  /\ convert_bits(write_base32(bytes), 5, 8, FALSE) = [ok |-> TRUE, v |-> bytes]

(* convert_bits makes bytes of 5-bit groups only if their padding is zero   *)
(* and shorter than a group, so that no two strings stand for the same      *)
(* bytes.                                                                   *)
GroupsConvertBack(groups) ==
  \A b \in {convert_bits(groups, 5, 8, FALSE)} : b.ok => write_base32(b.v) = groups

=============================================================================
