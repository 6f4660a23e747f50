--------------------------------- MODULE Rlp ---------------------------------
(***************************************************************************)
(* The recursive length prefix of common/rlp: the stream that writes it    *)
(* (stream.rs), the view that reads it (rlpin.rs), the scalar types and    *)
(* the derived structures (impls.rs, common/rlp-derive).  Bytes are        *)
(* numbers below ByteCount; the thresholds of the first byte keep their    *)
(* order but are scaled by the constants, so that long forms appear in     *)
(* short strings.  Positions and offsets count from 0, as in the code.     *)
(***************************************************************************)
EXTENDS Integers, SequencesExt

CONSTANTS DataBase,   \* 0x80: bytes below it are their own encoding
          ShortMax,   \* 55: the longest payload with a one-byte header
          LenLen      \* 8: the most bytes a length takes

LongData  == DataBase + ShortMax       \* 0xb7
ListBase  == LongData + LenLen + 1     \* 0xc0
LongList  == ListBase + ShortMax       \* 0xf7
ByteCount == LongList + LenLen + 1     \* 256

Err    == [ok |-> FALSE]
Ok(v)  == [ok |-> TRUE, v |-> v]
Sub(b, from, to) == SubSeq(b, from + 1, to)     \* the slice b[from..to]

(* A number as bytes, the most significant first and none of them zero at  *)
(* the front, and back (impl_encodable_for_u!, impl_decodable_for_u!).      *)
RECURSIVE BigEndian(_)
BigEndian(n) == IF n = 0 THEN <<>> ELSE Append(BigEndian(n \div ByteCount), n % ByteCount)
FromBigEndian(s) == FoldLeft(LAMBDA acc, b : acc * ByteCount + b, 0, s)

-----------------------------------------------------------------------------
(* RlpStream: unfinished lists (the innermost last), the buffer, the       *)
(* finished_list flag, and *ok*, which falls where the code panics.         *)

NoMax == -1
new   == [lists |-> <<>>, buf |-> <<>>, fin |-> FALSE, ok |-> TRUE]
ListInfo(position, max) == [position |-> position, current |-> 0, max |-> max]

(* insert_size puts the length behind its prefix byte, moving the payload. *)
insert_size(buf, size, position) ==
  Sub(buf, 0, position) \o BigEndian(size) \o Sub(buf, position, Len(buf))

insert_list_payload(buf, len, pos) ==
  IF len <= ShortMax THEN [buf EXCEPT ![pos] = ListBase + len]
  ELSE insert_size([buf EXCEPT ![pos] = LongList + Len(BigEndian(len))], len, pos)

(* A list takes items until it has as many as it expects; a finished list  *)
(* is one more item of the list around it.                                  *)
Closed(s, x) ==
  [s EXCEPT !.lists = Front(@), !.buf = insert_list_payload(@, Len(@) - x.position, x.position)]

RECURSIVE note_appended(_, _)
note_appended(s, items) ==
  IF s.lists = <<>> THEN s
  ELSE LET full == Last(s.lists).current + items
       IN CASE Last(s.lists).max = full ->
                 [note_appended(Closed(s, Last(s.lists)), 1) EXCEPT !.fin = TRUE]
            [] Last(s.lists).max \in 0 .. full - 1 -> [s EXCEPT !.ok = FALSE]
            [] OTHER -> [s EXCEPT !.lists[Len(s.lists)].current = full, !.fin = FALSE]

encode_value(s, v) ==
  [s EXCEPT !.buf = @ \o
     CASE Len(v) = 1 /\ v[1] < DataBase -> v
       [] Len(v) # 1 /\ Len(v) <= ShortMax -> <<DataBase + Len(v)>> \o v
       [] Len(v) = 1 /\ v[1] >= DataBase -> <<DataBase + 1>> \o v
       [] OTHER -> <<LongData + Len(BigEndian(Len(v)))>> \o BigEndian(Len(v)) \o v]

begin_list(s, len) ==
  IF len = 0
    THEN [note_appended([s EXCEPT !.buf = Append(@, ListBase)], 1) EXCEPT !.fin = TRUE]
    ELSE [s EXCEPT !.fin = FALSE, !.buf = Append(@, 0),
                   !.lists = Append(@, ListInfo(Len(s.buf) + 1, len))]

begin_unbounded_list(s) ==
  [s EXCEPT !.fin = FALSE, !.buf = Append(@, 0),
            !.lists = Append(@, ListInfo(Len(s.buf) + 1, NoMax))]

finalize_unbounded_list(s) ==
  IF s.lists = <<>> \/ Last(s.lists).max # NoMax THEN [s EXCEPT !.ok = FALSE]
  ELSE [note_appended(Closed(s, Last(s.lists)), 1) EXCEPT !.fin = TRUE]

append_raw(s, bytes, items) == note_appended([s EXCEPT !.buf = @ \o bytes], items)
append_empty_data(s) == append_raw(s, <<DataBase>>, 1)

(* The size the stream would have if every open list ended here. *)
estimate_size(s, add) ==
  LET total == Len(s.buf) + add
      Prefix(x) == IF total - x.position > ShortMax THEN Len(BigEndian(total - x.position)) ELSE 0
  IN FoldLeft(LAMBDA acc, x : acc + Prefix(x), total, s.lists)

append_raw_checked(s, bytes, items, max_size) ==
  IF estimate_size(s, Len(bytes)) > max_size THEN s ELSE append_raw(s, bytes, items)

(* clear keeps finished_list; out panics while a list is open. *)
clear(s) == [s EXCEPT !.buf = <<>>, !.lists = <<>>]
is_finished(s) == s.lists = <<>>
out(s)   == IF s.ok /\ is_finished(s) THEN Ok(s.buf) ELSE Err

(* The values that are written: [data |-> bytes] or [list |-> values].      *)
(* append and rlp_append of a value: a list that has finished is counted    *)
(* already, data is counted by append.                                      *)
Counted(s) == IF s.fin THEN s ELSE note_appended(s, 1)

RECURSIVE append(_, _)
append(s, value) ==
  Counted(IF "data" \in DOMAIN value THEN encode_value([s EXCEPT !.fin = FALSE], value.data)
          ELSE FoldLeft(append, begin_list(s, Len(value.list)), value.list))

append_list(s, values) == FoldLeft(append, begin_list(s, Len(values)), values)
encode(value)          == out(append(new, value))

-----------------------------------------------------------------------------
(* Rlp: a view of some bytes with the offset of the last item it found.    *)

NoCache   == [index |-> -1, offset |-> 0]
View(b)   == [bytes |-> b, cache |-> NoCache]
is_list(b) == b # <<>> /\ b[1] >= ListBase
is_data(b) == b # <<>> /\ b[1] < ListBase

decode_usize(b) ==
  IF Len(b) > LenLen \/ b[1] = 0 THEN Err ELSE Ok(FromBigEndian(b))

PayloadInfo(h, v) == Ok([header |-> h, value |-> v])

LongInfo(len_of_len, n) ==
  IF n.ok /\ n.v > ShortMax THEN PayloadInfo(1 + len_of_len, n.v) ELSE Err
calculate_payload_info(b, len_of_len) ==
  IF Len(b) < 1 + len_of_len THEN Err
  ELSE LongInfo(len_of_len, decode_usize(Sub(b, 1, 1 + len_of_len)))

(* BasicDecoder::payload_info: the header of the first item, if it fits. *)
Header(b, l) ==
  CASE l < DataBase                      -> PayloadInfo(0, 1)
    [] l \in DataBase .. LongData        -> PayloadInfo(1, l - DataBase)
    [] l \in LongData + 1 .. ListBase - 1 -> calculate_payload_info(b, l - LongData)
    [] l \in ListBase .. LongList        -> PayloadInfo(1, l - ListBase)
    [] l > LongList                      -> calculate_payload_info(b, l - LongList)
Fitting(p, len) == IF p.ok /\ p.v.header + p.v.value <= len THEN p ELSE Err
payload_info(b) == IF b = <<>> THEN Err ELSE Fitting(Header(b, b[1]), Len(b))

Total(p) == p.v.header + p.v.value

Consumed(r, p) ==
  IF ~p.ok THEN Err
  ELSE Ok([bytes |-> Sub(r.bytes, Total(p), Len(r.bytes)), consumed |-> r.consumed + Total(p)])
consume_items(b, items) ==
  FoldLeft(LAMBDA acc, i : IF acc.ok THEN Consumed(acc.v, payload_info(acc.v.bytes)) ELSE acc,
           Ok([bytes |-> b, consumed |-> 0]), [i \in 1 .. items |-> i])

FromPayload(b, p, index) ==
  IF ~p.ok THEN Err
  ELSE Ok([bytes |-> Sub(b, p.v.header, Total(p)), skip |-> index, offset |-> p.v.header])

(* The items before the cached one are skipped a second time. *)
SearchFrom_SkipsAll(view, index) ==
  IF view.cache # NoCache /\ view.cache.index <= index
    THEN Ok([bytes |-> Sub(view.bytes, view.cache.offset, Len(view.bytes)),
             skip |-> index, offset |-> view.cache.offset])
    ELSE FromPayload(view.bytes, payload_info(view.bytes), index)

(* Where the search for an item starts: behind the item found last, if     *)
(* that is not beyond it, otherwise at the start of the payload.            *)
SearchFrom(view, index) ==
  IF view.cache # NoCache /\ view.cache.index <= index
    THEN IF Len(view.bytes) < view.cache.offset THEN Err
         ELSE Ok([bytes |-> Sub(view.bytes, view.cache.offset, Len(view.bytes)),
                  skip |-> index - view.cache.index, offset |-> view.cache.offset])
    ELSE FromPayload(view.bytes, payload_info(view.bytes), index)

(* at_with_offset: the item, and the view with its cache moved; the cache  *)
(* moves before it is known whether there is an item.                       *)
FirstItem(b, p) == IF p.ok THEN Ok(Sub(b, 0, Total(p))) ELSE Err
Found(view, index, offset, found) ==
  IF ~found.ok THEN [item |-> Err, view |-> view]
  ELSE [item |-> FirstItem(found.v.bytes, payload_info(found.v.bytes)),
        view |-> [view EXCEPT !.cache = [index |-> index, offset |-> offset + found.v.consumed]]]
Search(view, index, start) ==
  IF ~start.ok THEN [item |-> Err, view |-> view]
  ELSE Found(view, index, start.v.offset, consume_items(start.v.bytes, start.v.skip))

at(view, index) ==
  IF ~is_list(view.bytes) THEN [item |-> Err, view |-> view]
  ELSE Search(view, index, SearchFrom(view, index))

(* RlpIterator: items until the first one that cannot be read. *)
RECURSIVE ItemsFrom(_, _)
ItemsFrom(r, index) ==
  IF r.item.ok THEN <<r.item.v>> \o ItemsFrom(at(r.view, index + 1), index + 1) ELSE <<>>

iter(b)       == ItemsFrom(at(View(b), 0), 0)
item_count(b) == IF is_list(b) THEN Ok(Len(iter(b))) ELSE Err
ItemData(b, p) == IF p.ok THEN Ok(Sub(b, p.v.header, Total(p))) ELSE Err
data(b)       == ItemData(b, payload_info(b))

(* decode_value: unlike payload_info it reads a long header of any length. *)
LongValue(b, begin, n) == IF n.ok /\ Len(b) >= begin + n.v THEN Ok(Sub(b, begin, begin + n.v)) ELSE Err
decode_value(b) ==
  IF b = <<>> \/ b[1] >= ListBase THEN Err
  ELSE IF b[1] < DataBase THEN Ok(<<b[1]>>)
  ELSE IF b[1] <= LongData THEN
    IF Len(b) < 1 + b[1] - DataBase \/ (b[1] = DataBase + 1 /\ b[2] < DataBase) THEN Err
    ELSE Ok(Sub(b, 1, 1 + b[1] - DataBase))
  ELSE IF Len(b) < 1 + b[1] - LongData THEN Err
  ELSE LongValue(b, 1 + b[1] - LongData, decode_usize(Sub(b, 1, 1 + b[1] - LongData)))

-----------------------------------------------------------------------------
(* Values of the types that implement Encodable and Decodable *)

Data(bytes)   == [data |-> bytes]
EncodeUint(n) == Data(BigEndian(n))

(* Unsigned integers of *size* bytes; a leading zero is refused. *)
UintOf(d, size) ==
  IF ~d.ok \/ Len(d.v) > size \/ (d.v # <<>> /\ d.v[1] = 0) THEN Err ELSE Ok(FromBigEndian(d.v))
DecodeUint(b, size) == UintOf(decode_value(b), size)

BoolOf(n) == IF n.ok /\ n.v <= 1 THEN Ok(n.v = 1) ELSE Err
DecodeBool(b) == BoolOf(DecodeUint(b, 1))

(* as_list: the items in order, up to the first that cannot be found. *)
DecodeAll(items) == [k \in DOMAIN items |-> decode_value(items[k])]
Collected(ds) ==
  IF \A k \in DOMAIN ds : ds[k].ok THEN Ok([k \in DOMAIN ds |-> ds[k].v]) ELSE Err
as_list(b) == Collected(DecodeAll(iter(b)))

(* Option: an empty list or a list of one. *)
EncodeOption(opt) == [list |-> opt]
OptionOf(items) ==
  CASE items = <<>>   -> Ok(<<>>)
    [] Len(items) = 1 -> IF items[1].ok THEN Ok(<<items[1].v>>) ELSE Err
    [] OTHER          -> Err
DecodeOption(b) == IF is_list(b) THEN OptionOf(DecodeAll(iter(b))) ELSE Err

(* A hash of *size* bytes is exactly that long. *)
HashOf(d, size) == IF d.ok /\ Len(d.v) = size THEN d ELSE Err
DecodeHash(b, size) == HashOf(decode_value(b), size)

(* A derived structure: every field is an item of one list.  Reading, a     *)
(* missing default field (number *dflt*, or none: 0) becomes the default,   *)
(* and the fields after it are looked for one place earlier.                *)
EncodeStruct(fields) == [list |-> [k \in DOMAIN fields |-> Data(fields[k])]]
Field(acc, view, v, default) ==
  [view |-> view, ok |-> acc.ok /\ (v.ok \/ default),
   v    |-> Append(acc.v, IF v.ok THEN v.v ELSE <<>>)]
ReadField(acc, r, default) ==
  Field(acc, r.view, IF r.item.ok THEN decode_value(r.item.v) ELSE Err, default)
Decoded(acc) == IF acc.ok THEN Ok(acc.v) ELSE Err
DecodeStruct(b, n, dflt) ==
  LET Index(k) == IF dflt # 0 /\ k > dflt THEN k - 2 ELSE k - 1
  IN Decoded(FoldLeft(LAMBDA acc, k : ReadField(acc, at(acc.view, Index(k)), k = dflt),
                      [view |-> View(b), ok |-> TRUE, v |-> <<>>], [k \in 1 .. n |-> k]))

-----------------------------------------------------------------------------
(* The whole value behind some bytes, read through the view. *)
RECURSIVE Read(_)
ReadAll(items) == [list |-> [k \in DOMAIN items |-> Read(items[k])]]
Read(b) == IF is_list(b) THEN ReadAll(iter(b)) ELSE Data(decode_value(b).v)

(* What the stream has written reads back as the value that was written,   *)
(* whichever way its lists were opened (with a length, unbounded, as a raw  *)
(* item of another stream), whatever the nesting and on both sides of the   *)
(* short and the long form; the estimate made before the last list was      *)
(* closed is the length of the output.                                      *)
WritesReadBack(value) ==
  \A e \in {encode(value)} :
     /\ e.ok
     /\ Read(e.v) = value
     /\ data(e.v).ok /\ Fitting(payload_info(e.v), Len(e.v)).ok
     /\ out(append_raw(begin_list(new, 1), e.v, 1)) = encode([list |-> <<value>>])
     /\ "list" \in DOMAIN value =>
          \A open \in {FoldLeft(append, begin_unbounded_list(new), value.list)} :
             /\ out(finalize_unbounded_list(open)) = e
             /\ estimate_size(open, 0) = Len(e.v)
             /\ ~out(open).ok
             /\ out(append_list(clear(open), value.list)) = e

(* In a list that fills its bytes, at finds the item of an index wherever  *)
(* the cache was left by the calls before it: the view does not change.     *)
ViewIsImmutable(b) ==
  \A p \in {payload_info(b)} : (is_list(b) /\ p.ok /\ Total(p) = Len(b)) =>
    \A i, j, k \in 0 .. Len(b) :
      at(at(at(View(b), i).view, j).view, k).item = at(View(b), k).item

(* A piece of data taken out of a list has one encoding only: written      *)
(* again it gives the bytes it was read from.                               *)
ItemsAreCanonical(b) ==
  \A item \in Range(iter(b)) : \A d \in {decode_value(item)} :
    d.ok => encode(Data(d.v)).v = item

(* Scalars and structures read back; a structure whose last field has a    *)
(* default also reads back when that field was never written.               *)
ScalarsReadBack(n) ==
  \A b \in {encode(EncodeUint(n)).v} :
     /\ DecodeUint(b, LenLen) = Ok(n)
     /\ DecodeUint(b, 1) = IF n < ByteCount THEN Ok(n) ELSE Err
     /\ DecodeBool(b) = IF n <= 1 THEN Ok(n = 1) ELSE Err
     /\ DecodeHash(b, 1) = IF n \in 1 .. ByteCount - 1 THEN Ok(<<n>>) ELSE Err
     /\ DecodeOption(encode(EncodeOption(<<EncodeUint(n)>>)).v) = Ok(<<BigEndian(n)>>)
     /\ DecodeOption(encode(EncodeOption(<<>>)).v) = Ok(<<>>)

StructsReadBack(fields) ==
  \A b \in {encode(EncodeStruct(fields)).v}, n \in {Len(fields)} :
     /\ \A dflt \in {0, n} : DecodeStruct(b, n, dflt) = Ok(fields)
     /\ DecodeStruct(b, n + 1, n + 1) = Ok(Append(fields, <<>>))
     /\ ~DecodeStruct(b, n + 1, 0).ok
     /\ as_list(b) = Ok(fields)

==============================================================================
