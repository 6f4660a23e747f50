------------------------------ MODULE MCCodecs ------------------------------
(***************************************************************************)
(* The pure algorithms of the common libraries over bounded inputs, and the *)
(* sparse Merkle tree.  A behaviour picks one input and keeps it, and an    *)
(* invariant says what holds of every input of its kind; or it updates and  *)
(* forks a tree.                                                            *)
(***************************************************************************)
EXTENDS Integers, Sequences, TLC

VARIABLES input, tree, content

(* U256 is four words of 64 bits: here four words of two bits, of which     *)
(* every first operand and all second ones of the digits 0, 1 and 3 with a  *)
(* third word of 0 or 3 are tried, and two words of six bits (three bytes   *)
(* of two bits) for the codecs.                                             *)
A == INSTANCE Uint WITH WordBits <- 2, ByteBits <- 2, Words <- 4
B == INSTANCE UintCodec WITH WordBits <- 6, ByteBits <- 2, Words <- 2
Second    == {b \in A!Num : b[2] # 1 /\ \A i \in A!Index : b[i] # 2}
LowWords  == {0, 1, 5, 32, 63}
Above(a)  == {B!NumOf(n) : n \in {m \in {B!Value(a) + d : d \in {1, 4, 27, 31}} : m < B!Bound}}
Exponents == {A!NumOf(n) : n \in {0, 1, 2, 3, 5, 8, 128, 255}}

(* Bytes of four bits: 0x80 is 4, a short payload has up to 3 bytes.        *)
R == INSTANCE Rlp WITH DataBase <- 4, ShortMax <- 3, LenLen <- 2
Strings == {<<>>, <<0>>, <<3>>, <<4>>, <<15>>, <<9, 0>>, <<1, 2, 3>>, <<5, 0, 7, 10>>,
            [k \in 1 .. 17 |-> k % 16]}
Leaves  == {[data |-> d] : d \in Strings}
Lists   == {[list |-> l] : l \in UNION {[1 .. n -> Leaves] : n \in 0 .. 2}}
Small   == {[data |-> <<4>>], [list |-> <<>>]}
Nested  == Leaves \cup Lists \cup {[list |-> <<v, w>>] : v \in Lists, w \in Small}
                             \cup {[list |-> <<w, v, w>>] : v \in Lists, w \in Small}
RawBytes == {0, 4, 5, 6, 8, 10, 11, 14}

(* Addresses with the real prefixes odana, odanx, odaxx and hashes of three *)
(* bytes in the place of twenty.                                            *)
H == INSTANCE Bech32 WITH HashLen <- 3, HrpOf <-
       [Mainnet  |-> <<111, 100, 97, 110, 97>>, Testnet |-> <<111, 100, 97, 110, 120>>,
        Alphanet |-> <<111, 100, 97, 120, 120>>]
Hashes == {<<0, 0, 0>>, <<37, 255, 8>>, <<255, 37, 255>>}
Groups == UNION {[1 .. n -> {0, 16, 31}] : n \in 0 .. 4}

(* Phrases of two and four words of five bits for three and six bytes of    *)
(* three bits, with a checksum of one and two bits.                         *)
Digest(bytes) == (7 * Len(bytes) + bytes[1] * 5 + bytes[Len(bytes)] * 3) % 8
M == INSTANCE Bip39 WITH ByteBits <- 3, WordBits <- 5, UnitBytes <- 3, Sizes <- {1, 2}, Sha <- Digest
Words   == {<<"en", i>> : i \in 0 .. 31}
Phrases == [1 .. 2 -> Words] \cup {<<<<"en", 1>>, <<"en", 22>>>> \o q : q \in [1 .. 2 -> Words]}

(* Messages with hashes and addresses of their real lengths, and lists of   *)
(* up to two transactions.                                                  *)
W == INSTANCE Messages WITH HashLen <- 32, AddressLen <- 44
AHash    == W!With("H256", 1 :> [i \in 1 .. 32 |-> 7 * i])
AnAddress == W!With("Address", 1 :> [i \in 1 .. 44 |-> 96 + (i % 26)])
Data ==
  {<<>>, 6 :> <<W!With("PaymentTx", 1 :> AnAddress)>>,
   7 :> <<W!With("ApplicationCall", (1 :> AnAddress) @@ (2 :> 5) @@ (4 :> <<1, 2, 3>>))>>,
   7 :> <<W!With("ApplicationCall", 3 :> 200)>>, 8 :> <<W!Default("CreateApplication")>>,
   8 :> <<W!With("CreateApplication", (1 :> <<97, 98>>) @@ (2 :> <<98, 99>>))>>,
   8 :> <<W!With("CreateApplication", (1 :> <<97>>) @@ (2 :> <<98, 98, 99>>))>>,
   9 :> <<W!With("UpdateApplication", (1 :> AnAddress) @@ (2 :> <<1>>) @@ (3 :> 1))>>,
   9 :> <<W!With("UpdateApplication", (1 :> AnAddress) @@ (2 :> <<1, 1>>))>>,
   10 :> <<<<>>>>, 10 :> <<[i \in 1 .. 60 |-> 255]>>}
Transactions == {W!With("Transaction", d @@ (1 :> n) @@ (3 :> AHash) @@ (4 :> 300)) : d \in Data, n \in {0, 70000}}
Signed(txs)  == {W!With("SignedTransaction", (1 :> tx) @@ (2 :> AHash) @@ (4 :> v)) : tx \in txs, v \in {0, 1}}
TxLists == LET few == {tx \in Transactions : tx.f[1] = 0 /\ (tx.f[6] # <<>> \/ tx.f[10] = <<<<>>>>)}
           IN UNION {[1 .. n -> Signed(few)] : n \in 0 .. 2}
Headers == {W!With("BlockHeader", (1 :> AHash) @@ (6 :> AnAddress) @@ (7 :> d) @@ (9 :> l) @@ (11 :> n)) :
              d \in {0, 2 ^ 28 - 1}, l \in {0, 1, 300}, n \in {0, 65536}}
Blocks  == {W!With("Block", (1 :> h) @@ (2 :> l)) : h \in {x \in Headers : x.f[9] = 300 /\ x.f[7] = 0 /\ x.f[11] # 0}, l \in TxLists}
Peer(tag, t, field) == W!With("PeerMessage", tag :> <<W!With(t, field)>>)
States  == {W!With("AppState", (1 :> AHash) @@ (3 :> AnAddress) @@ (4 :> 1)), W!Default("AppState")}
TxListMessages == {W!With("TransactionList", 1 :> l) : l \in TxLists}
HeadMessages   == {W!With("ChainStateValue", 1 :> h) : h \in Headers}
AccountMessages == {W!With("AccountState", (1 :> 300) @@ (4 :> s)) : s \in {<<>>} \cup {<<x>> : x \in States}}
ReceiptMessages == {W!With("Receipt", (1 :> AnAddress) @@ (3 :> <<<<1>>, <<>>>>) @@ (6 :> b)) : b \in {0, 1}}
PeerMessages == {Peer(tag, "CurrentHeadMessage", 1 :> o) : tag \in {1, 2}, o \in {<<>>} \cup {<<h>> : h \in Headers}}
           \cup {Peer(3, "GetBlockHeaderMessage", (1 :> AHash) @@ (2 :> o)) : o \in {<<>>, <<AHash>>}}
           \cup {Peer(4, "GetBlocksMessage", 1 :> l) : l \in {<<>>, <<AHash>>, <<AHash, W!Default("H256")>>}}
           \cup {Peer(5, "FindBlocksMessage", (1 :> n) @@ (2 :> 10)) : n \in {0, 1, 300}}
           \cup {Peer(6, "BlockHeaderMessage", 1 :> <<h, h>>) : h \in Headers}
           \cup {Peer(7, "BlocksMessage", 1 :> <<b, b>>) : b \in Blocks}
           \cup {Peer(8, "BroadcastTransactionMessage", 1 :> l) : l \in TxLists}
           \cup {Peer(9, "BroadcastBlockMessage", 1 :> <<b>>) : b \in Blocks} \cup {W!Default("PeerMessage")}

(* Keys of three bits and two values. *)
S == INSTANCE Smt WITH Depth <- 3, Values <- {"v", "w"},
       Paths <- {<<0, 0, 0>>, <<0, 0, 1>>, <<0, 1, 1>>, <<1, 0, 0>>, <<1, 0, 1>>}

-----------------------------------------------------------------------------

Kinds == {"arith", "codec", "rlp value", "rlp number", "rlp fields", "rlp bytes", "address", "base32",
          "bech32", "entropy", "phrase", "message", "header", "key", "transaction", "tree"}
Of(kind) == input = [kind |-> "none", of |-> kind]
Init     == input \in [kind : {"none"}, of : Kinds] /\ S!Init

Pick ==
  \/ UNCHANGED input
  \/ Of("arith") /\ input' \in [kind : {"arith"}, a : A!Num]
  \/ Of("codec") /\ input' \in [kind : {"codec"}, a : {a \in B!Num : a[1] \in LowWords}]
  \/ Of("rlp value") /\ input' \in [kind : {"rlp value"}, a : Nested]
  \/ Of("rlp number") /\ input' \in [kind : {"rlp number"}, a : 0 .. 255]
  \/ Of("rlp fields") /\ input' \in [kind : {"rlp fields"}, a : UNION {[1 .. n -> Strings] : n \in 0 .. 3}]
  \/ Of("rlp bytes") /\ input' \in [kind : {"rlp bytes"}, a : UNION {[1 .. n -> RawBytes] : n \in 0 .. 2}
                                                  \cup {<<13>> \o s : s \in [1 .. 3 -> RawBytes]}]
  \/ Of("address") /\ input' \in [kind : {"address"}, a : Hashes, b : {"Mainnet", "Testnet", "Alphanet"}]
  \/ Of("base32") /\ input' \in [kind : {"base32"}, a : UNION {[1 .. n -> {0, 1, 128, 255}] : n \in 0 .. 3}]
  \/ Of("bech32") /\ input' \in [kind : {"bech32"}, a : UNION {[1 .. n -> {32, 49, 65, 97}] : n \in 0 .. 2},
                                                     b : Groups]
  \/ Of("entropy") /\ input' \in [kind : {"entropy"}, a : [1 .. 3 -> 0 .. 7] \cup [1 .. 6 -> {0, 2, 7}]
                                                          \cup [1 .. 4 -> {0, 7}]]
  \/ Of("phrase") /\ input' \in [kind : {"phrase"}, a : Phrases]
  \/ Of("message") /\ \/ input' \in [kind : {"message"}, a : Signed(Transactions)]
                      \/ input' \in [kind : {"message"}, a : Blocks]
                      \/ input' \in [kind : {"message"}, a : TxListMessages]
                      \/ input' \in [kind : {"message"}, a : HeadMessages]
                      \/ input' \in [kind : {"message"}, a : AccountMessages]
                      \/ input' \in [kind : {"message"}, a : ReceiptMessages]
                      \/ input' \in [kind : {"message"}, a : PeerMessages]
  \/ Of("header") /\ input' \in [kind : {"header"}, a : Headers]
  \/ Of("key") /\ input' \in [kind : {"key"}, a : {0, 1, 255, 256, 65536}, b : {AHash, W!Default("H256")}]
  \/ Of("transaction") /\ input' \in [kind : {"transaction"}, a : Transactions]

Next == \/ Pick /\ UNCHANGED <<tree, content>>
        \/ Of("tree") /\ S!Next /\ UNCHANGED input

Spec == Init /\ [][Next]_<<input, tree, content>>

-----------------------------------------------------------------------------

(* The word-wise arithmetic of uint.rs (carries, the product, Knuth's       *)
(* division, shifts, roots, powers) gives the numbers arithmetic gives, and *)
(* reports an overflow exactly when there is one.  A number reads back from *)
(* every form it is written in (from_dec_str, fmt_hex, to_big_endian,       *)
(* hex::encode), and a difficulty target from its compact form up to the    *)
(* precision of that form (Compact::from_u256).                             *)
UintExact ==
  CASE input.kind = "arith" ->
         /\ A!RootsAndBits(input.a)
         /\ \A b \in Second : A!ArithmeticIsRight(input.a, b) /\ A!DivisionIsRight(input.a, b)
         /\ \A b \in Exponents : A!PowersAreRight(input.a, b)
    [] input.kind = "codec" -> /\ B!ReadsBack(input.a)
                                /\ B!CompactKeepsTarget(input.a)
                                /\ \A b \in Above(input.a) : B!CompactKeepsOrder(input.a, b)
    [] OTHER -> TRUE

(* What an RlpStream has written, a value, a number or a derived struct,    *)
(* reads back as that value; the headers an encoder writes are the          *)
(* shortest.  For any bytes at all, what Rlp::at returns does not depend on *)
(* the calls before it, through its cached offset, as long as the index is  *)
(* in the list, and every item it returns is canonical.                     *)
RlpReadsBack ==
  CASE input.kind = "rlp value"  -> R!WritesReadBack(input.a)
    [] input.kind = "rlp number" -> R!ScalarsReadBack(input.a)
    [] input.kind = "rlp fields" -> R!StructsReadBack(input.a)
    [] input.kind = "rlp bytes"  -> R!ViewIsImmutable(input.a) /\ R!ItemsAreCanonical(input.a)
    [] OTHER -> TRUE

(* An address made from a hash is valid, names its network and gives the     *)
(* hash back; bech32 decodes what it has encoded and nothing with one        *)
(* character changed; convert_bits regroups bits without loss and refuses    *)
(* padding that is not zero.  Entropy reads back from its phrase in its own  *)
(* language only, and a phrase that is accepted is the phrase of the entropy *)
(* it gives: no two phrases stand for the same key (from_entropy,            *)
(* phrase_to_entropy).                                                       *)
KeysReadBack == CASE input.kind = "address" -> H!AddressIsSafe(input.a, input.b)
                  [] input.kind = "base32"  -> H!BytesConvertBack(input.a)
                  [] input.kind = "bech32"  -> H!GroupsConvertBack(input.b) /\ H!DecodesBack(input.a, input.b)
                  [] input.kind = "entropy" -> M!EntropyReadsBack(input.a, {"en", "fr"})
                  [] input.kind = "phrase"  -> M!PhrasesAreUnique(input.a, "en")
                  [] OTHER -> TRUE

(* What the node stores and sends reads back, and unknown fields are skipped *)
(* on the way, exactly when no signed transaction with v = 0 is nested in    *)
(* it: SignedTransaction::encoded_len counts a field encode_raw leaves out.  *)
(* A header reads back from what its hash is taken of, a block key sorts as  *)
(* level and hash do, and the bytes a transaction's hash is taken of tell    *)
(* transactions apart, up to where the name of a created application ends.   *)
MessagesReadBack ==
  CASE input.kind = "message" -> W!ReadsBackAsWritten(input.a) /\ W!UnknownIsSkipped(input.a)
    [] input.kind = "header"  -> W!HeaderReadsBack(input.a)
    [] input.kind = "key"     -> \A l \in {0, 1, 255, 256, 65536}, h \in {AHash, W!Default("H256")} :
                                   W!KeysAreOrdered(input.a, input.b.f[1], l, h.f[1])
    [] input.kind = "transaction" -> \A tx \in Transactions : W!PackIsExact(input.a, tx)
    [] OTHER -> TRUE

(* The root of the sparse Merkle tree is a function of what the tree         *)
(* contains, however it got there, and an update fails only for want of a    *)
(* value (update, delete_with_sides_nodes, subtree).  Every key has a proof, *)
(* which verifies exactly the value the key has, and the branch a proof      *)
(* carries into an empty tree is enough to update that key                   *)
(* (do_proof_for_root, verify_proof_with_updates, add_branch).               *)
TreeIsExact == Of("tree") => S!RootIsCanonical /\ S!ProofsAreExact /\ S!BranchIsEnough

=============================================================================
