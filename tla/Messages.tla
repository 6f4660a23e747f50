------------------------------ MODULE Messages ------------------------------
(***************************************************************************)
(* What the node stores and sends: the protobuf messages of blocks,        *)
(* transactions, accounts and peers, and the forms hashes and keys are     *)
(* made of.  A message is [t: its type, f: its fields by tag]; a field     *)
(* that may be absent or repeated is a sequence of values.  The types are  *)
(* tables of fields; prost, which writes and reads by these tables, is     *)
(* external, but for the parts the repository writes by hand: the length   *)
(* of a message, which goes in front of it where it is nested, and the     *)
(* primitive types.  Bytes are 0 .. 255.                                   *)
(***************************************************************************)
EXTENDS Integers, SequencesExt

CONSTANTS HashLen,      \* 32 in the code, of a H256 and of a U256
          AddressLen    \* ADDRESS_LEN, 44 in the code

-----------------------------------------------------------------------------
(* The types.  A plain field is left out at its default value.              *)

Field(tag, label, kind) == [tag |-> tag, label |-> label, kind |-> kind]
Plain(tag, kind)    == Field(tag, "plain", kind)
Required(tag, kind) == Field(tag, "required", kind)
Optional(tag, kind) == Field(tag, "optional", kind)
Repeated(tag, kind) == Field(tag, "repeated", kind)
OneOf(tag, kind)    == Field(tag, "oneof", kind)

Primitive   == <<Required(1, "bytes")>>
BlockHeader == <<Required(1, "H256"), Required(2, "H256"), Required(3, "H256"), Required(4, "H256"),
                 Required(5, "U256"), Required(6, "Address"), Plain(7, "uint"), Plain(8, "uint"),
                 Plain(9, "uint"), Plain(10, "uint"), Plain(11, "uint")>>
Block       == <<Required(1, "BlockHeader"), Repeated(2, "SignedTransaction")>>
ChainStateValue == <<Required(1, "BlockHeader")>>

PaymentTx         == <<Required(1, "Address")>>
ApplicationCall   == <<Required(1, "Address"), Plain(2, "uint"), Plain(3, "uint"), Plain(4, "bytes")>>
CreateApplication == <<Required(1, "string"), Plain(2, "bytes")>>
UpdateApplication == <<Required(1, "Address"), Plain(2, "bytes"), Plain(3, "bool")>>
TransactionData   == <<OneOf(6, "PaymentTx"), OneOf(7, "ApplicationCall"), OneOf(8, "CreateApplication"),
                       OneOf(9, "UpdateApplication"), OneOf(10, "bytes")>>
Transaction       == <<Plain(1, "uint"), Plain(2, "uint"), Required(3, "H256"), Plain(4, "uint"),
                       Plain(5, "uint")>> \o TransactionData
SignedTransaction == <<Required(1, "Transaction"), Required(2, "H256"), Required(3, "H256"), Plain(4, "uint")>>
TransactionList   == <<Repeated(1, "SignedTransaction")>>

AppState     == <<Required(1, "H256"), Required(2, "H256"), Required(3, "Address"), Plain(4, "uint")>>
AccountState == <<Plain(1, "uint"), Plain(2, "uint"), Plain(3, "uint"), Optional(4, "AppState")>>
Receipt      == <<Required(1, "Address"), Required(2, "H256"), Repeated(3, "bytes"), Plain(4, "uint"),
                  Required(5, "H256"), Plain(6, "bool")>>

CurrentHeadMessage    == <<Optional(1, "BlockHeader")>>
BroadcastTransactionMessage == <<Repeated(1, "SignedTransaction")>>
BroadcastBlockMessage == <<Optional(1, "Block")>>
GetBlockHeaderMessage == <<Required(1, "H256"), Optional(2, "H256")>>
FindBlocksMessage     == <<Plain(1, "uint"), Plain(2, "uint")>>
BlocksMessage         == <<Repeated(1, "Block")>>
BlockHeaderMessage    == <<Repeated(1, "BlockHeader")>>
GetBlocksMessage      == <<Repeated(1, "H256")>>
PeerMessage == <<OneOf(1, "CurrentHeadMessage"), OneOf(2, "CurrentHeadMessage"), OneOf(3, "GetBlockHeaderMessage"),
                 OneOf(4, "GetBlocksMessage"), OneOf(5, "FindBlocksMessage"), OneOf(6, "BlockHeaderMessage"),
                 OneOf(7, "BlocksMessage"), OneOf(8, "BroadcastTransactionMessage"),
                 OneOf(9, "BroadcastBlockMessage")>>

Types ==
  [H256 |-> Primitive, U256 |-> Primitive, Address |-> Primitive, BlockHeader |-> BlockHeader, Block |-> Block,
   ChainStateValue |-> ChainStateValue, PaymentTx |-> PaymentTx, ApplicationCall |-> ApplicationCall,
   CreateApplication |-> CreateApplication, UpdateApplication |-> UpdateApplication, Transaction |-> Transaction,
   SignedTransaction |-> SignedTransaction, TransactionList |-> TransactionList, AppState |-> AppState,
   AccountState |-> AccountState, Receipt |-> Receipt, CurrentHeadMessage |-> CurrentHeadMessage,
   BroadcastTransactionMessage |-> BroadcastTransactionMessage, BroadcastBlockMessage |-> BroadcastBlockMessage,
   GetBlockHeaderMessage |-> GetBlockHeaderMessage, FindBlocksMessage |-> FindBlocksMessage,
   BlocksMessage |-> BlocksMessage, BlockHeaderMessage |-> BlockHeaderMessage,
   GetBlocksMessage |-> GetBlocksMessage, PeerMessage |-> PeerMessage]

Varints   == {"uint", "bool"}
Delimited == {"bytes", "string"}
Fields(t) == ToSet(Types[t])
SizeOf(t) == IF t = "Address" THEN AddressLen ELSE HashLen
IsPrimitive(t) == t \in {"H256", "U256", "Address"}

RECURSIVE Default(_)
Default(t) ==
  [t |-> t,
   f |-> [tag \in {d.tag : d \in Fields(t)} |->
            LET d == CHOOSE e \in Fields(t) : e.tag = tag
            IN IF IsPrimitive(t) THEN [i \in 1 .. SizeOf(t) |-> 0]
               ELSE IF d.label \notin {"plain", "required"} \/ d.kind \in Delimited THEN <<>>
               ELSE IF d.kind \in Varints THEN 0
               ELSE Default(d.kind)]]

(* A message with some fields other than the default. *)
With(t, fields) == [t |-> t, f |-> [tag \in DOMAIN Default(t).f |->
                                      IF tag \in DOMAIN fields THEN fields[tag] ELSE Default(t).f[tag]]]

-----------------------------------------------------------------------------
(* Writing *)

RECURSIVE varint(_)
varint(n) == IF n < 128 THEN <<n>> ELSE <<128 + (n % 128)>> \o varint(n \div 128)
encoded_len_varint(n) == Len(varint(n))
key(tag, wire) == varint(8 * tag + wire)
key_len(tag)   == Len(key(tag, 0))

RECURSIVE encoded_len(_)
ValueLen(tag, kind, v) ==
  CASE kind \in Varints   -> key_len(tag) + encoded_len_varint(v)
    [] kind \in Delimited -> key_len(tag) + encoded_len_varint(Len(v)) + Len(v)
    [] OTHER              -> key_len(tag) + encoded_len_varint(encoded_len(v)) + encoded_len(v)

(* The values of a field that are written. *)
Written(d, v) ==
  CASE d.label = "plain"    -> IF (IF d.kind \in Varints THEN v = 0 ELSE v = <<>>) THEN <<>> ELSE <<v>>
    [] d.label = "required" -> <<v>>
    [] OTHER                -> v

LenOf(d, v) == FoldLeft(LAMBDA n, x : n + ValueLen(d.tag, d.kind, x), 0, Written(d, v))
DerivedLen(m) == FoldLeft(LAMBDA n, d : n + LenOf(d, m.f[d.tag]), 0, Types[m.t])

PrimitiveLen(t) == key_len(1) + encoded_len_varint(SizeOf(t)) + SizeOf(t)

(* v is counted even where it is 0 and not written. *)
SignedTransactionLen(m) ==
  FoldLeft(LAMBDA n, d : n + ValueLen(d.tag, d.kind, m.f[d.tag]), 0, SignedTransaction)

(* The keys of the list are not counted. *)
TransactionListLen_NoKeys(m) ==
  FoldLeft(LAMBDA n, tx : n + encoded_len(tx) + encoded_len_varint(encoded_len(tx)), 0, m.f[1])
TransactionListLen(m) ==
  key_len(1) * Len(m.f[1])
  + FoldLeft(LAMBDA n, tx : n + encoded_len(tx) + encoded_len_varint(encoded_len(tx)), 0, m.f[1])

BlockLen(m) == ValueLen(1, "BlockHeader", m.f[1])
               + FoldLeft(LAMBDA n, tx : n + ValueLen(2, "SignedTransaction", tx), 0, m.f[2])

ChainStateLen(m) == ValueLen(1, "BlockHeader", m.f[1])

encoded_len(m) ==
  CASE IsPrimitive(m.t)           -> PrimitiveLen(m.t)
    [] m.t = "SignedTransaction" -> SignedTransactionLen(m)
    [] m.t = "TransactionList"   -> TransactionListLen(m)
    [] m.t = "Block"             -> BlockLen(m)
    [] m.t = "ChainStateValue"   -> ChainStateLen(m)
    [] OTHER                     -> DerivedLen(m)

RECURSIVE encode_raw(_)
EncodeValue(tag, kind, v) ==
  CASE kind \in Varints   -> key(tag, 0) \o varint(v)
    [] kind \in Delimited -> key(tag, 2) \o varint(Len(v)) \o v
    [] OTHER              -> key(tag, 2) \o varint(encoded_len(v)) \o encode_raw(v)
encode_raw(m) ==
  FoldLeft(LAMBDA buf, d : FoldLeft(LAMBDA b, x : b \o EncodeValue(d.tag, d.kind, x),
                                    buf, Written(d, m.f[d.tag])),
           <<>>, Types[m.t])

-----------------------------------------------------------------------------
(* Reading.  A result is [ok, v: the value or message, buf: what is left].  *)
(* A varint of more than four bytes stands for Big, longer than any buffer. *)

Big == 2 ^ 28
Rest(buf, n)    == SubSeq(buf, n + 1, Len(buf))
Done(v, buf)    == [ok |-> TRUE, v |-> v, buf |-> buf]
Failed(v)       == [ok |-> FALSE, v |-> v, buf |-> <<>>]

decode_varint(buf) ==
  LET n == Min({11} \cup {i \in 1 .. Min({10, Len(buf)}) : buf[i] < 128})
  IN IF n = 11 THEN Failed(0)
     ELSE Done(IF n > 4 THEN Big ELSE FoldRight(LAMBDA b, acc : 128 * acc + (b % 128), SubSeq(buf, 1, n), 0),
               Rest(buf, n))

(* from_slice takes a slice of its own length only, from_big_endian one     *)
(* that is not longer: else they panic.                                     *)
FromSlice(m, r) ==
  IF m.t = "U256" /\ Len(r.v) <= HashLen
    THEN [r EXCEPT !.v = [m EXCEPT !.f[1] = [i \in 1 .. HashLen - Len(r.v) |-> 0] \o r.v]]
    ELSE [r EXCEPT !.ok = Len(r.v) = SizeOf(m.t), !.v = [m EXCEPT !.f[1] = r.v]]

RECURSIVE merge_until(_, _, _)
(* One value of a kind, n its number or length, merged into the old one     *)
(* where it is a message: the fields in it are read until as much is left   *)
(* as there was behind it.                                                  *)
ReadValue(kind, old, wire, n) ==
  IF ~n.ok \/ wire # (IF kind \in Varints THEN 0 ELSE 2) THEN Failed(old)
  ELSE IF kind \in Varints THEN Done(IF kind = "bool" /\ n.v # 0 THEN 1 ELSE n.v, n.buf)
  ELSE IF n.v > Len(n.buf) THEN Failed(old)
  ELSE IF kind \in Delimited
    THEN [Done(SubSeq(n.buf, 1, n.v), Rest(n.buf, n.v)) EXCEPT !.ok =
            kind = "string" => \A i \in 1 .. n.v : n.buf[i] < 128]
  ELSE merge_until(old, n.buf, Len(n.buf) - n.v)

(* What a value is merged into, and where it goes. *)
Old(m, d) ==
  IF d.label \in {"plain", "required"} THEN m.f[d.tag]
  ELSE IF d.label # "repeated" /\ m.f[d.tag] # <<>> THEN m.f[d.tag][1]
  ELSE IF d.kind \in Delimited THEN <<>> ELSE Default(d.kind)
Merged(m, d, v) ==
  CASE d.label \in {"plain", "required"} -> [m EXCEPT !.f[d.tag] = v]
    [] d.label = "repeated" -> [m EXCEPT !.f[d.tag] = Append(@, v)]
    [] d.label = "optional" -> [m EXCEPT !.f[d.tag] = <<v>>]
    [] d.label = "oneof"    -> [m EXCEPT !.f = [tag \in DOMAIN @ |->
                                  IF tag = d.tag THEN <<v>>
                                  ELSE IF \E e \in Fields(m.t) : e.tag = tag /\ e.label = "oneof" THEN <<>>
                                  ELSE @[tag]]]
MergeValue(m, d, r) ==
  IF ~r.ok THEN Failed(m)
  ELSE IF IsPrimitive(m.t) THEN FromSlice(m, r)
  ELSE Done(Merged(m, d, r.v), r.buf)

(* skip_field of prost; groups, which nothing here writes, are refused. *)
skip_field(m, wire, buf, n) ==
  CASE wire = 0 /\ n.ok                        -> Done(m, n.buf)
    [] wire = 2 /\ n.ok /\ n.v <= Len(n.buf)   -> Done(m, Rest(n.buf, n.v))
    [] wire = 1 /\ Len(buf) >= 8               -> Done(m, Rest(buf, 8))
    [] wire = 5 /\ Len(buf) >= 4               -> Done(m, Rest(buf, 4))
    [] OTHER                                   -> Failed(m)

(* ds is the field with the tag, if there is one. *)
merge_field(m, ds, wire, buf) ==
  IF ds = {}
    THEN IF m.t = "ChainStateValue" THEN Failed(m) ELSE skip_field(m, wire, buf, decode_varint(buf))
    ELSE CHOOSE r \in {MergeValue(m, d, ReadValue(d.kind, Old(m, d), wire, decode_varint(buf))) : d \in ds} : TRUE

MergeOn(r, stop) == IF r.ok THEN merge_until(r.v, r.buf, stop) ELSE r
MergeKey(m, k, stop) ==
  IF ~k.ok \/ k.v < 8 THEN Failed(m)
  ELSE MergeOn(merge_field(m, {d \in Fields(m.t) : d.tag = k.v \div 8}, k.v % 8, k.buf), stop)

merge_until(m, buf, stop) ==
  IF Len(buf) <= stop THEN [Done(m, buf) EXCEPT !.ok = Len(buf) = stop]
  ELSE MergeKey(m, decode_varint(buf), stop)

decode(t, buf) == merge_until(Default(t), buf, 0)

-----------------------------------------------------------------------------
(* The forms keys and hashes are made of *)

(* to_be_bytes of a number below 2^31, and back. *)
be_bytes(n, width)  == [i \in 1 .. width |-> IF width - i > 3 THEN 0 ELSE (n \div 256 ^ (width - i)) % 256]
from_be_bytes(bytes) == FoldLeft(LAMBDA n, b : 256 * n + b, 0, bytes)

(* A header is hashed in this form; mix_nonce and the hashes are as long.   *)
HeaderBytes(d, v) == IF d.kind = "uint" THEN be_bytes(v, IF d.tag = 11 THEN 8 ELSE 4) ELSE v.f[1]
consensus_encode(h) == FoldLeft(LAMBDA buf, d : buf \o HeaderBytes(d, h.f[d.tag]), <<>>, BlockHeader)

WidthOf(d) == IF d.kind = "uint" THEN (IF d.tag = 11 THEN 8 ELSE 4) ELSE SizeOf(d.kind)
consensus_decode(buf) ==
  FoldLeft(LAMBDA r, d :
             IF ~r.ok \/ Len(r.buf) < WidthOf(d) THEN Failed(r.v)
             ELSE LET bytes == SubSeq(r.buf, 1, WidthOf(d))
                  IN Done([r.v EXCEPT !.f[d.tag] = IF d.kind = "uint" THEN from_be_bytes(bytes)
                                                   ELSE With(d.kind, 1 :> bytes)],
                          Rest(r.buf, WidthOf(d))),
           Done(Default("BlockHeader"), buf), BlockHeader)

(* BlockPrimaryKey: the key of the block columns, whose order is that of    *)
(* its bytes.                                                               *)
KeyBytes(level, hash) == be_bytes(level, 4) \o hash
KeyOf(buf) == [ok |-> Len(buf) = 4 + HashLen, level |-> from_be_bytes(SubSeq(buf, 1, 4)), hash |-> Rest(buf, 4)]
BytesLess(a, b) == \E i \in 1 .. Min({Len(a), Len(b)}) : a[i] < b[i] /\ \A j \in 1 .. i - 1 : a[j] = b[j]

(* What a transaction's hash and signature cover. *)
PackData(tag, v) ==
  CASE tag = 6  -> be_bytes(1, 4) \o v.f[1].f[1]
    [] tag = 7  -> be_bytes(2, 4) \o v.f[1].f[1] \o be_bytes(v.f[2], 8) \o be_bytes(v.f[3], 8) \o v.f[4]
    [] tag = 8  -> be_bytes(3, 4) \o v.f[1] \o v.f[2]
    [] tag = 9  -> be_bytes(4, 4) \o v.f[1].f[1] \o be_bytes(v.f[3], 1) \o v.f[2]
    [] tag = 10 -> be_bytes(5, 4) \o v
pack(tx) ==
  be_bytes(tx.f[1], 8) \o be_bytes(tx.f[2], 4) \o tx.f[3].f[1] \o be_bytes(tx.f[4], 8) \o be_bytes(tx.f[5], 8)
  \o FoldLeft(LAMBDA b, d : FoldLeft(LAMBDA c, v : c \o PackData(d.tag, v), b, tx.f[d.tag]), <<>>, TransactionData)

-----------------------------------------------------------------------------
(* The properties, of one message or of two *)

ZeroV(x) == x.t = "SignedTransaction" /\ x.f[4] = 0
RECURSIVE CarriesZeroV(_)
CarriesZeroV(m) ==
  \E d \in {e \in Fields(m.t) : e.kind \in DOMAIN Types} :
    LET xs == Written(d, m.f[d.tag]) IN \E i \in DOMAIN xs : ZeroV(xs[i]) \/ CarriesZeroV(xs[i])

(* A message reads back exactly when the length in front of every message   *)
(* inside it is right, that is unless it carries a signed transaction with  *)
(* v = 0; and its own length is right unless it is or carries one.          *)
ReadsBackAsWritten(m) ==
  \E buf \in {encode_raw(m)}, bad \in {CarriesZeroV(m)} :
    /\ (\E r \in {decode(m.t, buf)} : r.ok /\ r.v = m) <=> ~bad
    /\ (encoded_len(m) = Len(buf)) <=> ~(bad \/ ZeroV(m))

(* A field of a later version is skipped, but for the stored chain state,   *)
(* which panics.                                                            *)
UnknownIsSkipped(m) ==
  \A u \in {key(15, 0) \o <<200, 1>>, key(15, 2) \o <<2, 8, 9>>, key(15, 5) \o <<1, 2, 3, 4>>}, buf \in {encode_raw(m)} :
    decode(m.t, u \o buf) = IF m.t = "ChainStateValue" THEN Failed(Default(m.t)) ELSE decode(m.t, buf)

HeaderReadsBack(h) ==
  \E buf \in {consensus_encode(h)} :
    /\ consensus_decode(buf) = Done(h, <<>>)
    /\ \A n \in {0, 1, Len(buf) - 1} : ~consensus_decode(SubSeq(buf, 1, n)).ok

(* Keys read back and sort by level, then by hash. *)
KeysAreOrdered(l1, h1, l2, h2) ==
  /\ KeyOf(KeyBytes(l1, h1)) = [ok |-> TRUE, level |-> l1, hash |-> h1]
  /\ BytesLess(KeyBytes(l1, h1), KeyBytes(l2, h2)) <=> (l1 < l2 \/ (l1 = l2 /\ BytesLess(h1, h2)))

(* What is hashed determines the transaction, but for where the name of a   *)
(* created application ends.                                                *)
PackIsExact(t1, t2) ==
  pack(t1) = pack(t2) =>
    \/ t1 = t2
    \/ /\ t1.f[8] # <<>> /\ t2.f[8] # <<>>
       /\ [t1 EXCEPT !.f[8] = <<>>] = [t2 EXCEPT !.f[8] = <<>>]
       /\ t1.f[8][1].f[1] \o t1.f[8][1].f[2] = t2.f[8][1].f[1] \o t2.f[8][1].f[2]

=============================================================================
