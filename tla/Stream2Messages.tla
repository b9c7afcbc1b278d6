--------------------------- MODULE Stream2Messages ---------------------------
(***************************************************************************)
(* stream2_parse_msg and stream2_free_msg of stream2.c: what a message of  *)
(* version 2 of the stream is decoded to, which blocks of memory that      *)
(* takes, and which of them are freed.                                     *)
(*                                                                         *)
(* A message is a tree of CBOR items, as the parser comes to them (see     *)
(* Item).  The decoder is compiled: Ops are the allocations and failures   *)
(* that decoding an item comes to if none before it fails, and Run carries *)
(* them out.                                                               *)
(***************************************************************************)
EXTENDS Naturals, Sequences, SequencesExt

CONSTANTS
    MaxNesting,     \* bound on the depth of the tree
    Width           \* of uint64_t, in bits

ASSUME MessagesAssumption == MaxNesting \in Nat /\ Width \in Nat

(* base to the power n.                                                    *)
Power(base, n) ==
    LET power[k \in 0 .. n] == IF k = 0 THEN 1 ELSE base * power[k - 1] IN power[n]

(* v is the text of a text item, for others "whole"; or else "cut": the    *)
(* content runs past the end of the message, or "chunked": the length is   *)
(* not announced.  n is the value of a number, the number of a tag, the    *)
(* length of bytes or, of compressed ones, the original size they give.    *)
Item(t, v, n, elems) == [t |-> t, v |-> v, n |-> n, elems |-> elems]

(* Where the message stops short, although more was announced, or a break  *)
(* has no place; "cut": in the head of a text or of bytes.                 *)
End == Item("end", "whole", 0, <<>>)

(* What the parser takes in place of the value of a key.  A break: that of *)
(* a map of unannounced length, which ends there; or, after a cut key,     *)
(* what its own content reads on as, if that is the rest of a text: a text *)
(* that fits, or a break.  The items after it are then those the content   *)
(* goes on with.  Past: the map has no more items, as for a cut key and    *)
(* the break after it the parser counts one item and not two.              *)
Break == Item("break", "whole", 0, <<>>)
Past == Item("past", "whole", 0, <<>>)

(* An item and the items in it, level by level.                            *)
Parts(item) ==
    LET level[k \in 0 .. MaxNesting] ==
            IF k = 0 THEN {item} ELSE UNION {ToSet(part.elems) : part \in level[k - 1]}
    IN  UNION {level[k] : k \in 0 .. MaxNesting}

(* No item is deeper down than that; a tag is of one item, and in a map    *)
(* every key is followed by a value, or by what the parser takes for it.   *)
IsTree(item) ==
    \A part \in Parts(item) :
        /\ part \in [t : STRING, v : STRING, n : Nat, elems : Seq(Parts(item))]
        /\ part.t \in {"uint", "bytes"} => part.n < Power(2, Width)
        /\ part.t = "tag" => Len(part.elems) = 1
        /\ part.t = "map" => Len(part.elems) % 2 = 0

(* enum stream2_result *)
OK == 0
OUT_OF_MEMORY == 1
SIGNATURE == 2
DECODE == 3
PARSE == 4
NOT_IMPLEMENTED == 5
ABORT == 6      \* not a result: an assertion of the CBOR parser ends the process

Fields ==
    [start |->
        [series_id |-> "uint", series_unique_id |-> "text", arm_date |-> "text",
         beam_center_x |-> "double", beam_center_y |-> "double",
         channels |-> "texts", count_time |-> "double",
         countrate_correction_enabled |-> "bool",
         countrate_correction_lookup_table |-> "table",
         detector_description |-> "text", detector_serial_number |-> "text",
         detector_translation |-> "triple", flatfield |-> "arrays",
         flatfield_enabled |-> "bool", frame_time |-> "double",
         goniometer |-> "goniometer", image_dtype |-> "text",
         image_size_x |-> "uint", image_size_y |-> "uint",
         incident_energy |-> "double", incident_wavelength |-> "double",
         number_of_images |-> "uint", pixel_mask |-> "arrays",
         pixel_mask_enabled |-> "bool", pixel_size_x |-> "double",
         pixel_size_y |-> "double", saturation_value |-> "uint",
         sensor_material |-> "text", sensor_thickness |-> "double",
         threshold_energy |-> "energies", user_data |-> "any",
         virtual_pixel_interpolation_enabled |-> "bool"],
     image |->
        [series_id |-> "uint", series_unique_id |-> "text", image_id |-> "uint",
         real_time |-> "pair", series_date |-> "text", start_time |-> "pair",
         stop_time |-> "pair", user_data |-> "any", data |-> "arrays"],
     end |-> [series_id |-> "uint", series_unique_id |-> "text"]]

Goniometer == [chi |-> "axis", kappa |-> "axis", omega |-> "axis",
               phi |-> "axis", two_theta |-> "axis"]
Axis == [increment |-> "double", start |-> "double"]

(* A key that is unknown, or longer than any that is known.                *)
Kind(table, key) == IF key \in DOMAIN table THEN table[key] ELSE "any"

-----------------------------------------------------------------------------
(* What decoding an item comes to.  Pointers are in slots <<key, i, what>>:*)
(* of the field itself, or of the i-th entry of its list.                  *)

Op(op, code, slot, n) == [op |-> op, code |-> code, slot |-> slot, n |-> n]
NoSlot == <<"", 0, "">>
Fail(code) == <<Op("fail", code, NoSlot, 0)>>
Dup(slot) == <<Op("malloc", OK, slot, 0)>>      \* a copy of a text
Calloc(key, n) == <<Op("calloc", OK, <<key, 0, "">>, n)>>
Clear(slot) == <<Op("clear", OK, slot, 0)>>

Fails(ops) == \E k \in DOMAIN ops : ops[k].op = "fail"
Then(ops, more) == IF Fails(ops) THEN ops ELSE ops \o more
Expect(cond, code) == IF cond THEN <<>> ELSE Fail(code)

(* An item the message ends before is found out by whatever goes to it.    *)
OfType(item, t) ==
    IF item.t = "end" THEN Fail(DECODE) ELSE Expect(item.t = t, PARSE)

(* Is what follows the i-th item of a sequence missing?                    *)
EndsAt(elems, i) == i < Len(elems) /\ elems[i + 1].t = "end"

(* parse_text_string: a dry run that also goes to the next item; then the  *)
(* copy is made.                                                           *)
Text(elems, i, slot) ==
    Then(OfType(elems[i], "text"),
         IF elems[i].v = "cut" \/ EndsAt(elems, i) THEN Fail(DECODE) ELSE Dup(slot))

(* An array, or a map, whose number of elements is announced.              *)
Counted(item, t) == Then(OfType(item, t), Expect(item.v # "chunked", PARSE))
Exactly(item, n) ==
    Then(Counted(item, "array"), Expect(Len(item.elems) = n, PARSE))

ListOf(item, n, t) ==
    Then(Exactly(item, n),
         FlattenSeq([i \in 1 .. n |-> OfType(item.elems[i], t)]))

(* consume_byte_string_nocopy *)
ByteString(item) ==
    Then(OfType(item, "bytes"),
         CASE item.v = "chunked" -> Fail(PARSE)
           [] item.v = "cut" -> Fail(DECODE)
           [] OTHER -> <<>>)

Algorithms == {"bslz4", "lz4"}
Compressed(item, slot) ==
    Then(Exactly(item, 3),
         Then(Text(item.elems, 1, slot) \o OfType(item.elems[2], "uint")
                  \o ByteString(item.elems[3]),
              IF item.elems[1].v \in Algorithms
              THEN Expect(item.elems[3].v # "short", DECODE)
              ELSE Fail(NOT_IMPLEMENTED)))

DECTRIS_COMPRESSION == 56500
Bytes(item, slot) ==
    IF item.t = "tag"
    THEN IF item.n = DECTRIS_COMPRESSION THEN Compressed(item.elems[1], slot)
                                         ELSE Fail(PARSE)
    ELSE Then(OfType(item, "bytes"), Clear(slot) \o ByteString(item))

SizeOf(item) == IF item.t = "bytes" THEN item.n ELSE item.elems[1].elems[3].n
ElemSize(tag) == Power(2, ((tag \div 16) % 2) + (tag % 4))
WholeElements(item) == SizeOf(item.elems[1]) % ElemSize(item.n) = 0
TypedArray(item, slot) ==
    Then(OfType(item, "tag"),
         Then(Bytes(item.elems[1], slot),
              IF item.n \in 64 .. 87 THEN Expect(WholeElements(item), PARSE)
                                     ELSE Fail(NOT_IMPLEMENTED)))

MULTI_DIMENSIONAL_ARRAY_ROW_MAJOR == 40
DimsAgreeNot(dims, item) == TRUE    \* mutant: the product is not compared
DimsAgree(dims, item) ==
    (dims[1].n * dims[2].n) % Power(2, Width) =
        SizeOf(item.elems[1]) \div ElemSize(item.n)
MultidimArray(item, slot) ==
    Then(OfType(item, "tag"),
    Then(Expect(item.n = MULTI_DIMENSIONAL_ARRAY_ROW_MAJOR, PARSE),
    LET pair == item.elems[1] IN
    Then(Exactly(pair, 2),
    Then(ListOf(pair.elems[1], 2, "uint"),
    Then(TypedArray(pair.elems[2], slot),
         Expect(DimsAgree(pair.elems[1].elems, pair.elems[2]), PARSE))))))

(* A map from texts to energies or to arrays, in a list of its length.     *)
Entry(kind, item, slot) ==
    IF kind = "energies" THEN OfType(item, "double") ELSE MultidimArray(item, slot)
TextMap(key, item, kind) ==
    Then(Counted(item, "map"),
         LET n == Len(item.elems) \div 2 IN
         Calloc(key, n) \o
         FlattenSeq([i \in 1 .. n |->
             Text(item.elems, 2 * i - 1, <<key, i, "channel">>)
                 \o Entry(kind, item.elems[2 * i], <<key, i, "algorithm">>)]))

Texts(key, item) ==
    Then(Counted(item, "array"),
         Calloc(key, Len(item.elems)) \o
         FlattenSeq([i \in DOMAIN item.elems |->
             Text(item.elems, i, <<key, i, "channel">>)]))

(* The item after the tags before it.                                      *)
Untagged(item) ==
    LET under[k \in 0 .. MaxNesting] ==
            IF k = 0 THEN item
            ELSE IF under[k - 1].t = "tag" THEN under[k - 1].elems[1] ELSE under[k - 1]
    IN  IF item.t = "tag" THEN under[MaxNesting] ELSE item

Readable(item) ==
    \A part \in Parts(item) : part.t \notin {"end", "break", "past"} /\ part.v # "cut"

(* cbor_value_advance: to skip an item that is not there is an assertion   *)
(* failure.                                                                *)
Skip(item) ==
    IF item.t = "past" THEN Fail(ABORT) ELSE Expect(Readable(item), DECODE)

(* The value of a key.  parse_key takes any error that leaves key_len as   *)
(* it was for a key that is too long, and the item it is left at is then   *)
(* skipped as the value of an unknown key: the key itself, if it was read  *)
(* to its end and a break follows, or its content, if it is cut; or else   *)
(* the item that could not be read, of which only the length of a text can *)
(* be found missing without an assertion failure.                          *)
KeyValue(key, value, ops) ==
    CASE value.t = "break" -> <<>>
      [] value.t # "break" /\ key.v = "cut" -> Fail(DECODE)
      [] value.t = "end" /\ key.v # "cut" ->
             Fail(IF value.v = "cut" THEN DECODE ELSE ABORT)
      [] OTHER -> ops

(* The loop over the keys of a map; fields[j] is what decoding the value   *)
(* of the j-th key comes to.                                               *)
Keyed(elems, fields) ==
    FlattenSeq([j \in 1 .. Len(elems) \div 2 |->
        Then(OfType(elems[2 * j - 1], "text"),
             Then(KeyValue(elems[2 * j - 1], elems[2 * j], fields[j]),
                  Expect(~EndsAt(elems, 2 * j), DECODE)))])

AxisField(elems, i) ==
    LET item == Untagged(elems[i]) IN
    IF item.t = "end" THEN Fail(DECODE)
    ELSE CASE Kind(Axis, elems[i - 1].v) = "double" -> OfType(item, "double")
           [] OTHER -> Skip(item)

GoniometerField(elems, i) ==
    LET item == Untagged(elems[i]) IN
    IF item.t = "end" THEN Fail(DECODE)
    ELSE CASE Kind(Goniometer, elems[i - 1].v) = "axis" ->
                  Then(OfType(item, "map"),
                       Keyed(item.elems, [j \in 1 .. Len(item.elems) \div 2 |->
                                             AxisField(item.elems, 2 * j)]))
           [] OTHER -> Skip(item)

(* A tag is skipped except before the table, which begins with one.        *)
MsgField(type, elems, i) ==
    LET key == elems[i - 1].v
        kind == Kind(Fields[type], key)
        item == Untagged(elems[i])
        own == <<key, 0, "">>
    IN  IF kind = "table" THEN TypedArray(elems[i], <<key, 0, "algorithm">>)
        ELSE IF item.t = "end" THEN Fail(DECODE)
        ELSE CASE kind \in {"uint", "double", "bool"} -> OfType(item, kind)
               [] kind = "text" ->
                      Text([elems EXCEPT ![i] = item], i, own)
               [] kind = "pair" -> ListOf(item, 2, "uint")
               [] kind = "triple" -> ListOf(item, 3, "double")
               [] kind = "texts" -> Texts(key, item)
               [] kind \in {"energies", "arrays"} -> TextMap(key, item, kind)
               [] kind = "goniometer" ->
                      Then(OfType(item, "map"),
                           Keyed(item.elems, [j \in 1 .. Len(item.elems) \div 2 |->
                                                 GoniometerField(item.elems, 2 * j)]))
               [] kind = "any" -> Skip(item)

-----------------------------------------------------------------------------
(* The heap.  Blocks are numbered by the attempts to allocate one, of      *)
(* which the one numbered fails does not succeed.                          *)

Fresh == [code |-> OK, attempts |-> 0, live |-> {}, ptr |-> <<>>, len |-> <<>>]

(* The old entries of a list go with its pointer.                          *)
Forget(ptr, slots) == [s \in DOMAIN ptr \ slots |-> ptr[s]]
Entries(ptr, key) == {s \in DOMAIN ptr : s[1] = key}

Allocate(s, slot, fails) ==
    LET b == s.attempts + 1 IN
    IF b = fails
    THEN [s EXCEPT !.attempts = b, !.ptr = Forget(@, {slot}), !.code = OUT_OF_MEMORY]
    ELSE [s EXCEPT !.attempts = b, !.live = @ \cup {b},
                   !.ptr = [t \in DOMAIN @ \cup {slot} |-> IF t = slot THEN b ELSE @[t]]]

Step(s, op, fails) ==
    IF s.code # OK THEN s
    ELSE CASE op.op = "fail" -> [s EXCEPT !.code = op.code]
           [] op.op = "clear" -> [s EXCEPT !.ptr = Forget(@, {op.slot})]
           [] op.op = "malloc" -> Allocate(s, op.slot, fails)
           [] op.op = "calloc" ->
                LET key == op.slot[1]
                    t == Allocate([s EXCEPT !.ptr = Forget(@, Entries(@, key))],
                                  op.slot, fails)
                IN  IF t.code # OK THEN t
                    ELSE [t EXCEPT !.len = [k \in DOMAIN @ \cup {key} |->
                                               IF k = key THEN op.n ELSE @[k]]]

Run(ops, fails) ==
    LET after[k \in 0 .. Len(ops)] ==
            IF k = 0 THEN Fresh ELSE Step(after[k - 1], ops[k], fails)
    IN  after[Len(ops)]

(* free_start_msg, free_image_msg, stream2_free_msg.                       *)
MessageSlot == <<"message", 0, "">>
FreedTexts == {"series_unique_id", "arm_date", "detector_description",
               "detector_serial_number", "image_dtype", "sensor_material",
               "series_date"}
FreedLists == {"channels", "flatfield", "pixel_mask", "threshold_energy", "data"}
IsFreedNoAlgorithm(s, slot) ==      \* mutant: the algorithms are forgotten
    \/ slot = MessageSlot
    \/ slot[3] = "" /\ slot[1] \in FreedTexts \cup FreedLists
    \/ slot[3] = "channel" /\ slot[1] \in FreedLists /\ slot[2] <= s.len[slot[1]]
IsFreed(s, slot) ==
    \/ slot = MessageSlot
    \/ slot[3] = "" /\ slot[1] \in FreedTexts \cup FreedLists
    \/ slot[3] = "channel" /\ slot[1] \in FreedLists /\ slot[2] <= s.len[slot[1]]
    \/ slot[3] = "algorithm" /\ slot[1] = "countrate_correction_lookup_table"
    \/ /\ slot[3] = "algorithm" /\ slot[1] \in FreedLists \ {"channels", "threshold_energy"}
       /\ slot[2] <= s.len[slot[1]]
Leftover(s) == s.live \ {s.ptr[slot] : slot \in {t \in DOMAIN s.ptr : IsFreed(s, t)}}

(* A list that was given and then not allocated again: its old length is   *)
(* gone through with a null pointer.                                       *)
FreeCrashes(s) ==
    \E key \in DOMAIN s.len : s.len[key] > 0 /\ <<key, 0, "">> \notin DOMAIN s.ptr

-----------------------------------------------------------------------------
(* parse_msg_type: the first key must be type, and its value known; a      *)
(* value that nothing follows where something should reads as too long.    *)
MsgType(root) ==
    LET e == root.elems IN
    IF /\ Len(e) >= 2 /\ e[1].t = "text" /\ e[1].v = "type"
       /\ Untagged(e[2]).t = "text" /\ ~EndsAt(e, 2)
       /\ Untagged(e[2]).v \in DOMAIN Fields
    THEN Untagged(e[2]).v ELSE "none"

MsgOps(root) ==
    LET type == MsgType(root)
        elems == SubSeq(root.elems, 3, Len(root.elems))
    IN
    IF type = "none"
    THEN IF Len(root.elems) >= 1 /\ root.elems[1].t = "end" THEN Fail(DECODE)
                                                            ELSE Fail(PARSE)
    ELSE <<Op("malloc", OK, MessageSlot, 0)>>
             \o Keyed(elems, [j \in 1 .. Len(elems) \div 2 |->
                                 MsgField(type, elems, 2 * j)])

(* A message has a signature and a root item.                              *)
OpsOf(m) ==
    IF ~m.magic THEN Fail(SIGNATURE) ELSE Then(OfType(m.root, "map"), MsgOps(m.root))

(* What comes of it: what is decoded is the message itself; on an error    *)
(* everything is freed.                                                    *)
stream2_parse_msg(m, fails) == Run(OpsOf(m), fails)
=============================================================================
