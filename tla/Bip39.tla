-------------------------------- MODULE Bip39 --------------------------------
(***************************************************************************)
(* Mnemonic phrases (common/tiny-bip39): entropy followed by a checksum is *)
(* cut into words and back.  A byte has ByteBits bits and a word stands for *)
(* WordBits of them; 2 ^ WordBits words make the list of a language.  A     *)
(* phrase is the sequence of what stands between its single spaces: words   *)
(* <<language, number>> and Empty, where two spaces meet.                   *)
(***************************************************************************)
EXTENDS Integers, SequencesExt

CONSTANTS ByteBits,      \* 8
          WordBits,      \* 11
          UnitBytes,     \* 4: the bytes of entropy to a bit of checksum
          Sizes,         \* 4 .. 8: the numbers of checksum bits
          Sha(_)         \* the first byte of the SHA-256 digest of some bytes

Err   == [ok |-> FALSE]
Empty == <<"", 0>>

(* MnemonicType: as many checksum bits as there are units of entropy.       *)
EntropyBits(t)   == t * UnitBytes * ByteBits
checksum_bits(t) == t
total_bits(t)    == EntropyBits(t) + checksum_bits(t)
word_count(t)    == total_bits(t) \div WordBits
for_key_size(n)   == {t \in Sizes : EntropyBits(t) = n}
for_word_count(n) == {t \in Sizes : word_count(t) = n}
for_phrase(p)     == for_word_count(Len(p))

(* WordList and WordMap of a language. *)
get_word(lang, bits) == <<lang, bits>>
get_bits(lang, word) == word[2]
Knows(lang, word)    == word[1] = lang

-----------------------------------------------------------------------------
(* BitIter and BitWriter both regroup bits: *left* of them, *rest* in       *)
(* value, wait for the next group to fill.                                  *)
RECURSIVE Regroup(_, _)
Regroup(w, to) ==
  IF w.left < to THEN w
  ELSE Regroup([out  |-> Append(w.out, w.rest \div 2 ^ (w.left - to)),
                rest |-> w.rest % 2 ^ (w.left - to), left |-> w.left - to], to)
Pushed(items, from, to) ==
  FoldLeft(LAMBDA w, v : Regroup([w EXCEPT !.rest = @ * 2 ^ from + v, !.left = @ + from], to),
           [out |-> <<>>, rest |-> 0, left |-> 0], items)

(* The iterator stops when the bytes end and forgets what is left; the      *)
(* writer fills its last byte up with zeros.                                *)
BitIter(bytes) == Pushed(bytes, ByteBits, WordBits).out
Flushed(w)       == IF w.left = 0 THEN w.out ELSE Append(w.out, w.rest * 2 ^ (ByteBits - w.left))
into_bytes(bits) == Flushed(Pushed(bits, WordBits, ByteBits))

checksum(source, bits) == source \div 2 ^ (ByteBits - bits)

-----------------------------------------------------------------------------
(* Mnemonic *)

Mnemonic(phrase, lang, entropy) == [ok |-> TRUE, phrase |-> phrase, lang |-> lang, entropy |-> entropy]
PhraseOf(bits, lang) == [k \in DOMAIN bits |-> get_word(lang, bits[k])]

from_entropy_unchecked(entropy, lang) ==
  Mnemonic(PhraseOf(BitIter(Append(entropy, Sha(entropy))), lang), lang, entropy)

from_entropy(entropy, lang) ==
  IF for_key_size(Len(entropy) * ByteBits) = {} THEN Err ELSE from_entropy_unchecked(entropy, lang)

(* The checksum of the phrase compared with all of the digest's byte. *)
ChecksumHolds_WholeByte(bytes, entropy, t) == bytes[Len(entropy) + 1] = Sha(entropy)

ChecksumHolds(bytes, entropy, t) ==
  checksum(bytes[Len(entropy) + 1], checksum_bits(t)) = checksum(Sha(entropy), checksum_bits(t))

Verified(bytes, t) ==
  LET entropy == SubSeq(bytes, 1, EntropyBits(t) \div ByteBits)
  IN IF ChecksumHolds(bytes, entropy, t) THEN [ok |-> TRUE, v |-> entropy] ELSE Err

phrase_to_entropy(phrase, lang) ==
  IF \E k \in DOMAIN phrase : ~Knows(lang, phrase[k]) THEN Err
  ELSE IF for_phrase(phrase) = {} THEN Err
  ELSE Verified(into_bytes([k \in DOMAIN phrase |-> get_bits(lang, phrase[k])]),
                CHOOSE t \in for_phrase(phrase) : TRUE)

(* from_phrase splits at any white space, validate at single spaces only. *)
Words(phrase) == SelectSeq(phrase, LAMBDA w : w # Empty)
Made(phrase, lang, e) == IF e.ok THEN Mnemonic(phrase, lang, e.v) ELSE Err
from_phrase(phrase, lang) == Made(Words(phrase), lang, phrase_to_entropy(Words(phrase), lang))
validate(phrase, lang)    == phrase_to_entropy(phrase, lang).ok

(* Seed::new derives the seed from the phrase, not from the entropy. *)
Seed(mnemonic, password) == <<mnemonic.phrase, password>>

-----------------------------------------------------------------------------
(* The phrase made of some entropy gives that entropy back, with as many    *)
(* words as its size asks for, also when it is typed with too many spaces;  *)
(* no word of it can be read in another language.                           *)
EntropyReadsBack(entropy, langs) ==
  \A lang \in langs : \A m \in {from_entropy(entropy, lang)} :
    IF for_key_size(Len(entropy) * ByteBits) = {} THEN ~m.ok
    ELSE /\ for_phrase(m.phrase) = for_key_size(Len(entropy) * ByteBits)
         /\ validate(m.phrase, lang)
         /\ from_phrase(m.phrase, lang) = m
         /\ \A k \in 0 .. Len(m.phrase) : \A typed \in {InsertAt(m.phrase, k + 1, Empty)} :
              from_phrase(typed, lang) = m /\ ~validate(typed, lang)
         /\ \A other \in langs \ {lang} : ~from_phrase(m.phrase, other).ok

(* A phrase that is accepted is the only one for its entropy: made again    *)
(* from the entropy it is the same, so one entropy has one seed.            *)
PhrasesAreUnique(phrase, lang) ==
  \A m \in {from_phrase(phrase, lang)} :
    m.ok => /\ from_entropy(m.entropy, lang) = m
            /\ Seed(from_entropy(m.entropy, lang), "") = Seed(m, "")

==============================================================================
