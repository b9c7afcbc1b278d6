---------------------------- MODULE Stream2Format ----------------------------
(***************************************************************************)
(* The format of the messages of version 2 of the stream: which trees of   *)
(* CBOR items are messages.  It says what stream2_parse_msg should accept, *)
(* and nothing of how: neither in which order the items are visited nor    *)
(* what is allocated, and no item that is missing has a place in it.  With *)
(* lax it is the format the code goes by, which overlooks two things.      *)
(***************************************************************************)
EXTENDS Stream2Messages

IsText(item) == item.t = "text" /\ item.v # "cut"
IsArray(item) == item.t = "array" /\ item.v # "chunked"
IsMap(item) == item.t = "map" /\ item.v # "chunked"
IsBytes(item) == item.t = "bytes" /\ item.v \notin {"cut", "chunked"}

IsArrayOf(n, t, item) ==
    IsArray(item) /\ Len(item.elems) = n /\ \A i \in 1 .. n : item.elems[i].t = t

(* Bytes as they are, or compressed: the algorithm, the size of an element *)
(* and the compressed bytes.                                               *)
IsPacked(item) ==
    /\ IsArray(item) /\ Len(item.elems) = 3
    /\ item.elems[1].t = "text" /\ item.elems[1].v \in Algorithms
    /\ item.elems[2].t = "uint"
    /\ IsBytes(item.elems[3]) /\ item.elems[3].v # "short"
IsBlob(item) ==
    \/ IsBytes(item)
    \/ item.t = "tag" /\ item.n = DECTRIS_COMPRESSION /\ IsPacked(item.elems[1])

(* The bytes of a number in an array of each tag, as RFC 8746 lists them.  *)
NumberTags == 64 .. 87
NumberSize(tag) ==
    CASE tag \in {64, 68, 72, 76} -> 1
      [] tag \in {65, 69, 73, 77, 80, 84} -> 2
      [] tag \in {66, 70, 74, 78, 81, 85} -> 4
      [] tag \in {67, 71, 75, 79, 82, 86} -> 8
      [] tag \in {83, 87} -> 16

IsTypedArray(item) ==
    /\ item.t = "tag" /\ item.n \in NumberTags
    /\ IsBlob(item.elems[1])
    /\ SizeOf(item.elems[1]) % NumberSize(item.n) = 0

(* Two dimensions, and as many numbers as they call for.  The code takes   *)
(* the product of the dimensions modulo 2^64.                              *)
Product(lax, a, b) == IF lax THEN (a * b) % Power(2, Width) ELSE a * b
IsMatrix(lax, item) ==
    LET pair == item.elems[1]
        dims == pair.elems[1]
        numbers == pair.elems[2]
    IN  /\ item.t = "tag" /\ item.n = MULTI_DIMENSIONAL_ARRAY_ROW_MAJOR
        /\ IsArray(pair) /\ Len(pair.elems) = 2
        /\ IsArrayOf(2, "uint", dims) /\ IsTypedArray(numbers)
        /\ Product(lax, dims.elems[1].n, dims.elems[2].n) * NumberSize(numbers.n) =
               SizeOf(numbers.elems[1])

(* The keys and the values of a map.                                       *)
Indices(elems) == 1 .. Len(elems) \div 2
KeyAt(elems, j) == elems[2 * j - 1]
ValueAt(elems, j) == elems[2 * j]

(* Where no value follows, or where the key is cut, and yet the parser     *)
(* finds its way on, the code takes the key for one that is unknown.       *)
IsLost(lax, key, value) == lax /\ key.t = "text" /\ value.t = "break"

(* Unknown keys may have any value that can be read.                       *)
IsAxis(lax, item) ==
    /\ item.t = "map"
    /\ \A j \in Indices(item.elems) :
          LET key == KeyAt(item.elems, j)
              value == Untagged(ValueAt(item.elems, j))
          IN  \/ IsLost(lax, key, ValueAt(item.elems, j))
              \/ /\ IsText(key)
                 /\ IF key.v \in DOMAIN Axis THEN value.t = "double"
                                             ELSE Readable(value)

IsGoniometer(lax, item) ==
    /\ item.t = "map"
    /\ \A j \in Indices(item.elems) :
          LET key == KeyAt(item.elems, j)
              value == Untagged(ValueAt(item.elems, j))
          IN  \/ IsLost(lax, key, ValueAt(item.elems, j))
              \/ /\ IsText(key)
                 /\ IF key.v \in DOMAIN Goniometer THEN IsAxis(lax, value)
                                                   ELSE Readable(value)

(* Tags before a value do not matter, but for the table, which is one.     *)
IsOfKind(lax, kind, item) ==
    LET value == Untagged(item)
        e == value.elems
    IN  CASE kind \in {"uint", "double", "bool"} -> value.t = kind
          [] kind = "text" -> IsText(value)
          [] kind = "pair" -> IsArrayOf(2, "uint", value)
          [] kind = "triple" -> IsArrayOf(3, "double", value)
          [] kind = "texts" -> IsArray(value) /\ \A i \in 1 .. Len(e) : IsText(e[i])
          [] kind = "energies" ->
                 IsMap(value) /\ \A j \in Indices(e) :
                     IsText(KeyAt(e, j)) /\ ValueAt(e, j).t = "double"
          [] kind = "arrays" ->
                 IsMap(value) /\ \A j \in Indices(e) :
                     IsText(KeyAt(e, j)) /\ IsMatrix(lax, ValueAt(e, j))
          [] kind = "table" -> IsTypedArray(item)
          [] kind = "goniometer" -> IsGoniometer(lax, value)
          [] kind = "any" -> Readable(value)

(* The type comes first, and says which keys are known.                    *)
HasFormat(lax, m) ==
    LET e == m.root.elems
        type == Untagged(ValueAt(e, 1))
    IN  /\ m.magic /\ m.root.t = "map" /\ Len(e) >= 2
        /\ KeyAt(e, 1).t = "text" /\ KeyAt(e, 1).v = "type"
        /\ type.t = "text" /\ type.v \in DOMAIN Fields
        /\ \A j \in Indices(e) \ {1} :
              \/ IsLost(lax, KeyAt(e, j), ValueAt(e, j))
              \/ /\ IsText(KeyAt(e, j))
                 /\ IsOfKind(lax, Kind(Fields[type.v], KeyAt(e, j).v), ValueAt(e, j))

WellFormed(m) == HasFormat(FALSE, m)
=============================================================================
