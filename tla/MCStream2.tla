------------------------------ MODULE MCStream2 ------------------------------
(* Instances of Stream2 for TLC. *)
EXTENDS Stream2

T(text) == Item("text", text, 0, <<>>)
U(n) == Item("uint", "whole", n, <<>>)
F(n) == Item("double", "whole", n, <<>>)
Bool == Item("bool", "whole", 0, <<>>)
A(elems) == Item("array", "whole", 0, elems)
M(elems) == Item("map", "whole", 0, elems)
Tag(n, item) == Item("tag", "whole", n, <<item>>)
B(v, n) == Item("bytes", v, n, <<>>)
Chunked(item) == [item EXCEPT !.v = "chunked"]
CutText == T("cut")
CutEnd == [End EXCEPT !.v = "cut"]

(* Blobs of 4 units, compressed or not, and arrays of 2 by 2 of them.      *)
Packed(algorithm, v) == Tag(56500, A(<<T(algorithm), U(1), B(v, 4)>>))
Array(dims, tag, blob) == Tag(40, A(<<A(dims), Tag(tag, blob)>>))
Dims == <<U(2), U(2)>>
Good == Array(Dims, 64, B("whole", 4))
Small == Array(Dims, 64, Packed("bslz4", "whole"))

(* 2 by 514 is 4 modulo 2^10, so that this one is accepted.               *)
Wrapped == Array(<<U(2), U(514)>>, 64, B("whole", 4))

BadArrays ==
    {Array(<<U(2), U(1)>>, 64, B("whole", 4)), Wrapped, Array(Dims, 63, B("whole", 4)),
     Array(Dims, 70, B("whole", 7)), Array(Dims, 64, Packed("bslz4", "short")),
     Array(Dims, 64, Packed("zip", "whole")), Array(Dims, 64, Packed("lz4", "cut")),
     Array(Dims, 64, Chunked(B("", 4))), Tag(41, A(<<>>)), End}

(* Values that are as they should be, and others, each with one fault.     *)
GoodOf(kind) ==
    CASE kind = "uint" -> {U(1)}
      [] kind = "double" -> {F(1)}
      [] kind = "bool" -> {Bool}
      [] kind = "text" -> {T("x")}
      [] kind = "any" -> {A(<<U(1)>>)}
      [] kind = "pair" -> {A(Dims)}
      [] kind = "triple" -> {A(<<F(1), F(1), F(1)>>)}
      [] kind = "texts" -> {A(<<>>), A(<<T("a"), T("b")>>)}
      [] kind = "energies" -> {M(<<>>), M(<<T("a"), F(1)>>)}
      [] kind = "arrays" -> {M(<<T("a"), Good, T("b"), Small>>)}
      [] kind = "table" -> {Tag(69, B("whole", 4)), Tag(85, Packed("lz4", "whole"))}
      [] kind = "goniometer" -> {Chunked(M(<<T("chi"), M(<<T("start"), F(1), T("x"), U(1)>>),
                         T("x"), Bool>>))}
BadOf(kind) ==
    CASE kind = "uint" -> {F(1), CutText}
      [] kind = "double" -> {U(1)}
      [] kind = "bool" -> {U(1)}
      [] kind = "text" -> {U(1), CutText}
      [] kind = "any" -> {CutText, A(<<U(1), End>>), Tag(1, End)}
      [] kind = "pair" -> {A(<<U(1)>>), A(<<U(1), End>>), Chunked(A(Dims)), U(1),
                           A(<<U(1), F(1)>>)}
      [] kind = "triple" -> {A(<<F(1), F(1)>>), A(<<F(1), U(1), F(1)>>)}
      [] kind = "texts" -> {A(<<T("a"), U(1)>>), A(<<T("a"), End>>),
                            A(<<T("a"), T("b"), CutText>>), Chunked(A(<<T("a")>>))}
      [] kind = "energies" -> {M(<<T("a"), U(1)>>), M(<<T("a"), End>>), A(<<>>),
                               M(<<T("a"), F(1), U(1), F(1)>>)}
      [] kind = "arrays" ->
            {M(<<T("a"), Good, T("b"), bad>>) : bad \in BadArrays}
      [] kind = "table" -> {B("whole", 4), Tag(69, B("whole", 3)),
                            Tag(69, Packed("zip", "whole")), Tag(69, U(1))}
      [] kind = "goniometer" -> {M(<<T("chi"), U(1)>>), M(<<T("chi"), M(<<T("start"), U(1)>>)>>),
             M(<<T("phi"), M(<<U(1), U(1)>>)>>)}

Msg(type, fields) ==
    [magic |-> TRUE, root |-> M(<<T("type"), T(type)>> \o fields)]

(* One key of each kind.                                                   *)
KeysOf(type) ==
    CASE type = "start" ->
            {"series_id", "image_dtype", "count_time", "flatfield_enabled",
             "channels", "threshold_energy", "countrate_correction_lookup_table",
             "detector_translation", "flatfield", "goniometer", "unknown"}
      [] type = "image" -> {"start_time", "series_date", "data", "user_data"}
      [] type = "end" -> {"series_id", "series_unique_id"}

(* Messages of one field, with the values given for its kind.              *)
FieldsOf(type) == {<<key, Kind(Fields[type], key)>> : key \in KeysOf(type)}
OneGoodField ==
    UNION {UNION {{Msg(type, <<T(field[1]), item>>) : item \in GoodOf(field[2])} :
                      field \in FieldsOf(type)} : type \in DOMAIN Fields}
OneBadField ==
    UNION {UNION {{Msg(type, <<T(field[1]), item>>) : item \in BadOf(field[2])} :
                      field \in FieldsOf(type)} : type \in DOMAIN Fields}

Table == T("countrate_correction_lookup_table")
Twice ==
    {Msg("start", <<T("channels"), item, T("channels"), item>>) :
        item \in GoodOf("texts")}
    \cup {Msg("start", <<Table, Tag(69, Packed("lz4", "whole")), Table, item>>) :
              item \in GoodOf("table")}

(* A message that stops short: where a value, or the next key, should be.  *)
Short ==
    {Msg("start", <<T("series_id"), End>>), Msg("end", <<T("series_id"), End>>),
     Msg("start", <<T("arm_date"), T("x"), End, End>>),
     Msg("image", <<T("data"), M(<<T("a"), Small>>), End, End>>)}

(* A key that is cut: its content reads on as nothing, as some other item, *)
(* or as the rest of a text, after which the map has one item less than it *)
(* has keys and values; and a map that ends where a value should be.       *)
CutKeys ==
    {Msg("start", <<CutText, item>>) : item \in {End, U(1)}}
    \cup {Msg("end", <<T("series_id"), CutEnd>>),
          Msg("image", <<CutText, Break, CutText, Break>>),
          Msg("image", <<CutText, Break, T("series_id"), Past>>),
          Msg("image", <<CutText, Break, T("user_data"), Past>>),
          Msg("image", <<CutText, Break, End, End>>)}
    \cup {Msg("start", <<T("goniometer"), M(<<T("chi"), M(axis)>>)>>) :
              axis \in {<<CutText, End>>, <<CutText, Break, T("x"), Past>>,
                        <<CutText, Break, CutText, Break>>}}
Unended ==
    {[m EXCEPT !.root = Chunked(@)] :
        m \in {Msg("end", <<T("series_id"), Break>>),
               Msg("start", <<T("goniometer"), Chunked(M(<<T("chi"), Break>>))>>)}}

NotMessages ==
    {[magic |-> FALSE, root |-> M(<<>>)], [magic |-> TRUE, root |-> U(1)],
     [magic |-> TRUE, root |-> M(<<>>)], Msg("stop", <<>>),
     Msg("start", <<End, End>>)}

(* The messages of series with one threshold and with two, and their dates.*)
Names == <<"a", "b">>
Start(channels) ==
    Msg("start", <<T("image_dtype"), T("x"), T("threshold_energy"),
        M(FlattenSeq([i \in 1 .. channels |->
              <<T(Names[i]), F(10 * channels + i)>>]))>>)
Image(date, time, channels) ==
    Msg("image", <<T("series_date"), T(date), T("start_time"), A(time),
        T("data"), M(FlattenSeq([i \in 1 .. channels |->
              <<T(Names[i]), <<Good, Small>>[i]>>]))>>)
Offsets ==
    [east |-> [local |-> 20, digits |-> 5, len |-> 1, eastOf |-> TRUE, offset |-> 4],
     west |-> [local |-> 20, digits |-> 7, len |-> 2, eastOf |-> FALSE, offset |-> 4],
     utc |-> [local |-> 30, digits |-> 0, len |-> 0, eastOf |-> TRUE, offset |-> 0]]

RegularMessages ==
    {Start(1), Start(2), Msg("end", <<>>), Image("east", <<U(3), U(2)>>, 1)}
    \cup {Image(date, <<U(7), U(4)>>, 2) : date \in {"east", "west", "utc"}}
UnusualMessages ==
    OneGoodField \cup Twice
    \cup {Msg("start", <<T("image_dtype"), Tag(1, T("x"))>>), Msg("image", <<>>),
          Image("noDate", <<U(7), U(4)>>, 1), Image("utc", <<U(12), U(5)>>, 1),
          Image("utc", <<U(1), U(0)>>, 1)}
BadMessages == OneBadField \cup Short \cup CutKeys \cup Unended \cup NotMessages

Formed(form, messages) ==
    {[form |-> form, magic |-> m.magic, root |-> m.root] : m \in messages}
UsualMessages == Formed("regular", RegularMessages)
OddMessages ==
    Formed("unusual", UnusualMessages) \cup Formed("malformed", BadMessages)
=============================================================================
