--------------------------- MODULE DataFilesProofs ---------------------------
(***************************************************************************)
(* Theorems about DataFiles, for every setting, model and number of files  *)
(* and whichever steps fail: what parseH5File leaves open, and that the    *)
(* images the plugins are shown are those of the acquisition, in order,    *)
(* none missing, counted and labelled right.                               *)
(***************************************************************************)
EXTENDS DataFiles, FiniteSetTheorems, TLAPS

(* The handles follow from how far the file got: all of them during the    *)
(* loop over the images, and at the label it goes to, those that the label *)
(* closes and at most a data space.                                        *)
HandlesInv ==
    /\ parse \in {"idle", "images", "close"}
    /\ parse = "images" => stage = 8 /\ open = Handles
    /\ parse = "close" => open \ ToClose(stage) \subseteq {"space"}
    /\ left \subseteq {"space"}

(* The normal end of parseH5File closes all but the data space. *)
LEMMA AllClosed == Handles \ ToClose(8) \subseteq {"space"}
    BY DEF Handles, ToClose

(* A step that fails has the handles of the steps before it, and is sent   *)
(* to the label that closes them.                                          *)
LEMMA FailedClosed ==
    ASSUME NEW n \in 1 .. 7
    PROVE  ({Stages[k] : k \in 1 .. n - 1} \cap Handles) \ ToClose(n)
               \subseteq {"space"}
<1>1. n \in {1, 2, 3, 4, 5, 6, 7}
    OBVIOUS
<1>2. \A k \in 1 .. n - 1 : k \in {1, 2, 3, 4, 5, 6} /\ k < n
    OBVIOUS
<1>3. /\ Stages[1] = "file" /\ Stages[2] = "dataset" /\ Stages[3] = "dimensions"
      /\ Stages[4] = "type" /\ Stages[5] = "known type" /\ Stages[6] = "space"
    BY DEF Stages
<1>4. ASSUME NEW k \in 1 .. n - 1, Stages[k] \in Handles,
             Stages[k] \notin ToClose(n)
      PROVE  Stages[k] = "space"
  <2>1. k \in {1, 2, 4} => Stages[k] \in ToClose(n)
    BY <1>1, <1>2, <1>3 DEF Handles, ToClose
  <2>2. k \in {3, 5} => Stages[k] \notin Handles
    BY <1>3 DEF Handles
  <2>. QED
    BY <1>2, <1>3, <1>4, <2>1, <2>2
<1>. QED
    BY <1>4

(* Nothing is open at first. *)
LEMMA HandlesInit == Init => HandlesInv
    BY DEF Init, HandlesInv

(* Every step keeps what is open in line with the label that closes it. *)
LEMMA HandlesNext == HandlesInv /\ [Next]_vars => HandlesInv'
<1>. SUFFICES ASSUME HandlesInv, [Next]_vars
              PROVE  HandlesInv'
    OBVIOUS
<1>. USE DEF HandlesInv
<1>1. ASSUME NEW s \in Settings, Arm(s)
      PROVE  HandlesInv'
    BY <1>1 DEF Arm, parser
<1>2. CASE Stop \/ ChangeEnergy \/ SwitchThreshold \/ ResetCounter \/ WriteFile
    BY <1>2 DEF Stop, ChangeEnergy, SwitchThreshold, ResetCounter, WriteFile, parser
<1>3. CASE Found \/ Missed \/ Done
    BY <1>3 DEF Found, Missed, Done, parser
<1>4. CASE Open
  <2>1. stage' = 8
    BY <1>4 DEF Open, Stages
  <2>. QED
    BY <1>4, <2>1 DEF Open
<1>5. CASE OpenFail
  <2>1. stage' \in 1 .. 7
    BY <1>5 DEF OpenFail, Stages
  <2>2. (open \ ToClose(stage) \subseteq {"space"})'
    BY <1>5, <2>1, FailedClosed DEF OpenFail, ToClose
  <2>. QED
    BY <1>5, <2>2 DEF OpenFail
<1>6. CASE ReadImage \/ ReadFail
    BY <1>6 DEF ReadImage, ReadFail
<1>7. CASE LastImage
  <2>1. (open \ ToClose(stage) \subseteq {"space"})'
    BY <1>7, AllClosed DEF LastImage, ToClose
  <2>. QED
    BY <1>7, <2>1 DEF LastImage
<1>8. CASE Close
    BY <1>8 DEF Close
<1>9. CASE UNCHANGED vars
    BY <1>9 DEF vars, parser, ToClose
<1>. QED
    BY <1>1, <1>2, <1>3, <1>4, <1>5, <1>6, <1>7, <1>8, <1>9 DEF Next

(* Whatever fails in parseH5File, only data spaces of files are left open. *)
THEOREM OnlyDataSpacesAreLeft == Spec => []OnlyDataSpacesLeft
<1>1. HandlesInv => OnlyDataSpacesLeft
    BY DEF HandlesInv, OnlyDataSpacesLeft
<1>. QED
    BY HandlesInit, HandlesNext, <1>1, PTL DEF Spec

-----------------------------------------------------------------------------
(* The helpers of DataFiles.                                               *)

(* Thresholds in order. *)
LEMMA OrderedNone == DOMAIN Ordered({}) = {}
<1>1. Cardinality({}) = 0
  BY FS_EmptySet
<1> DEFINE P(s) == \A a, b \in DOMAIN s : a < b => s[a] < s[b]
<1>2. [x \in {} |-> x] \in [1 .. 0 -> {}] /\ P([x \in {} |-> x])
  OBVIOUS
<1>3. Ordered({}) = CHOOSE s \in [1 .. 0 -> {}] : P(s)
  BY <1>1 DEF Ordered
<1>4. Ordered({}) \in [1 .. 0 -> {}]
  BY <1>2, <1>3
<1> QED
  BY <1>4

(* One threshold is in order. *)
LEMMA OrderedOne == ASSUME NEW a \in Int PROVE Ordered({a}) = <<a>>
<1>1. Cardinality({a}) = 1
  BY FS_Singleton
<1> DEFINE P(s) == \A x, y \in DOMAIN s : x < y => s[x] < s[y]
<1>2. <<a>> \in [1 .. 1 -> {a}] /\ P(<<a>>)
  OBVIOUS
<1>3. Ordered({a}) = CHOOSE s \in [1 .. 1 -> {a}] : P(s)
  BY <1>1 DEF Ordered
<1>4. Ordered({a}) \in [1 .. 1 -> {a}]
  BY <1>2, <1>3
<1>5. \A s \in [1 .. 1 -> {a}] : s = <<a>>
  OBVIOUS
<1> QED
  BY <1>4, <1>5

(* Two thresholds in order. *)
LEMMA OrderedTwo ==
    ASSUME NEW a \in Int, NEW b \in Int, a < b PROVE Ordered({a, b}) = <<a, b>>
<1>1. Cardinality({a, b}) = 2
  <2>0. b \notin {a}
    OBVIOUS
  <2>1. IsFiniteSet({a}) /\ Cardinality({a}) = 1 /\ b \notin {a}
    BY <2>0, FS_Singleton
  <2>2. Cardinality({a} \cup {b}) = 2
    BY <2>1, FS_AddElement
  <2> QED
    BY <2>2
<1> DEFINE P(s) == \A x, y \in DOMAIN s : x < y => s[x] < s[y]
<1>2. <<a, b>> \in [1 .. 2 -> {a, b}] /\ P(<<a, b>>)
  OBVIOUS
<1>3. Ordered({a, b}) = CHOOSE s \in [1 .. 2 -> {a, b}] : P(s)
  BY <1>1 DEF Ordered
<1>4. Ordered({a, b}) \in [1 .. 2 -> {a, b}] /\ P(Ordered({a, b}))
  BY <1>2, <1>3
<1>5. ASSUME NEW s \in [1 .. 2 -> {a, b}], P(s) PROVE s = <<a, b>>
  <2>1. s[1] < s[2] /\ s[1] \in {a, b} /\ s[2] \in {a, b}
    BY <1>5
  <2>2. s[1] = a /\ s[2] = b
    BY <2>1
  <2> QED
    BY <2>2
<1> QED
  BY <1>4, <1>5

(* Three thresholds in order. *)
LEMMA OrderedThree ==
    ASSUME NEW a \in Int, NEW b \in Int, NEW c \in Int, a < b, b < c
    PROVE  Ordered({a, b, c}) = <<a, b, c>>
<1>1. Cardinality({a, b, c}) = 3
  <2>0. b \notin {a} /\ c # a /\ c # b
    OBVIOUS
  <2>1. IsFiniteSet({a}) /\ Cardinality({a}) = 1 /\ b \notin {a}
    BY <2>0, FS_Singleton
  <2>2. IsFiniteSet({a} \cup {b}) /\ Cardinality({a} \cup {b}) = 2
        /\ c \notin {a} \cup {b}
    BY <2>0, <2>1, FS_AddElement
  <2>3. Cardinality(({a} \cup {b}) \cup {c}) = 3
    BY <2>2, FS_AddElement
  <2>4. ({a} \cup {b}) \cup {c} = {a, b, c}
    OBVIOUS
  <2> QED
    BY <2>3, <2>4
<1> DEFINE P(s) == \A x, y \in DOMAIN s : x < y => s[x] < s[y]
<1>2. <<a, b, c>> \in [1 .. 3 -> {a, b, c}] /\ P(<<a, b, c>>)
  OBVIOUS
<1>3. Ordered({a, b, c}) = CHOOSE s \in [1 .. 3 -> {a, b, c}] : P(s)
  BY <1>1 DEF Ordered
<1>4. Ordered({a, b, c}) \in [1 .. 3 -> {a, b, c}] /\ P(Ordered({a, b, c}))
  BY <1>2, <1>3
<1>5. ASSUME NEW s \in [1 .. 3 -> {a, b, c}], P(s) PROVE s = <<a, b, c>>
  <2>1. s[1] < s[2] /\ s[2] < s[3]
        /\ s[1] \in {a, b, c} /\ s[2] \in {a, b, c} /\ s[3] \in {a, b, c}
    BY <1>5
  <2>2. s[1] = a /\ s[2] = b /\ s[3] = c
    BY <2>1
  <2> QED
    BY <2>2
<1> QED
  BY <1>4, <1>5

(* All four thresholds in order. *)
LEMMA OrderedFour == Ordered({1, 2, 3, 4}) = <<1, 2, 3, 4>>
<1>1. Cardinality(1 .. 4) = 4
  <2> DEFINE c == Cardinality(1 .. 4)
  <2>1. 1 \in Int /\ 4 \in Int
    OBVIOUS
  <2>2. c = IF 1 > 4 THEN 0 ELSE 4 - 1 + 1
    BY <2>1, FS_Interval, Zenon
  <2> HIDE DEF c
  <2>3. c = 4
    BY <2>2
  <2> QED
    BY <2>3 DEF c
<1>0. {1, 2, 3, 4} = 1 .. 4
  OBVIOUS
<1> DEFINE P(s) == \A x, y \in DOMAIN s : x < y => s[x] < s[y]
<1>2. <<1, 2, 3, 4>> \in [1 .. 4 -> 1 .. 4] /\ P(<<1, 2, 3, 4>>)
  OBVIOUS
<1>3. Ordered(1 .. 4) = CHOOSE s \in [1 .. 4 -> 1 .. 4] : P(s)
  BY <1>1 DEF Ordered
<1>4. Ordered(1 .. 4) \in [1 .. 4 -> 1 .. 4] /\ P(Ordered(1 .. 4))
  BY <1>2, <1>3
<1>5. ASSUME NEW s \in [1 .. 4 -> 1 .. 4], P(s) PROVE s = <<1, 2, 3, 4>>
  <2>1. s[1] < s[2] /\ s[2] < s[3] /\ s[3] < s[4]
        /\ s[1] \in 1 .. 4 /\ s[2] \in 1 .. 4 /\ s[3] \in 1 .. 4
        /\ s[4] \in 1 .. 4
    BY <1>5
  <2>2. s[1] = 1 /\ s[2] = 2 /\ s[3] = 3 /\ s[4] = 4
    BY <2>1
  <2> QED
    BY <2>2
<1> QED
  BY <1>0, <1>4, <1>5

(* A quotient and its remainder. *)
LEMMA Quotient ==
    ASSUME NEW x \in Nat, NEW p \in Nat \ {0}
    PROVE  x \div p \in Nat /\ (x \div p) * p <= x /\ x < (x \div p) * p + p
OBVIOUS

(* That many files have room for the images, and fewer have not. *)
LEMMA RoundedUpBounds ==
    ASSUME NEW t \in Nat, NEW p \in Nat \ {0}
    PROVE  /\ RoundedUp(t, p) \in Nat
           /\ RoundedUp(t, p) * p >= t
           /\ \A n \in Nat : n <= RoundedUp(t, p) /\ n > 0 => (n - 1) * p < t
           /\ t > 0 => RoundedUp(t, p) > 0
<1> DEFINE q == RoundedUp(t, p)
<1>1. q \in Nat /\ q * p <= t + p - 1 /\ t + p - 1 < q * p + p
  BY Quotient DEF RoundedUp
<1> HIDE DEF q
<1>2. q * p \in Nat
  BY <1>1
<1>3. q * p >= t
  BY <1>1, <1>2
<1>4. ASSUME NEW n \in Nat, n <= q, n > 0 PROVE (n - 1) * p < t
  <2>1. n * p <= q * p /\ n * p \in Nat
    BY <1>1, <1>4
  <2>2. (n - 1) * p = n * p - p
    BY <1>4
  <2> QED
    BY <2>1, <2>2, <1>1
<1>5. t > 0 => q > 0
  BY <1>1, <1>3
<1> QED
  BY <1>1, <1>3, <1>4, <1>5 DEF q

(* Sets of thresholds, one by one. *)
LEMMA SomeThresholds ==
    ASSUME NEW T \in SUBSET Thresholds
    PROVE  /\ 1 \in T /\ 2 \in T
                 => T \in {{1, 2}, {1, 2, 3}, {1, 2, 4}, {1, 2, 3, 4}}
           /\ 1 \in T /\ 2 \notin T => T \in {{1}, {1, 3}, {1, 4}, {1, 3, 4}}
           /\ 1 \notin T /\ 2 \in T => T \in {{2}, {2, 3}, {2, 4}, {2, 3, 4}}
           /\ 1 \notin T /\ 2 \notin T => T \in {{}, {3}, {4}, {3, 4}}
<1>1. T \subseteq {1, 2, 3, 4}
  BY DEF Thresholds
<1>2. CASE 1 \in T /\ 2 \in T
  BY <1>1, <1>2
<1>3. CASE 1 \in T /\ 2 \notin T
  BY <1>1, <1>3
<1>4. CASE 1 \notin T /\ 2 \in T
  BY <1>1, <1>4
<1>5. CASE 1 \notin T /\ 2 \notin T
  BY <1>1, <1>5
<1> QED
  BY <1>2, <1>3, <1>4, <1>5

(* The order of a set of thresholds is a strictly increasing sequence. *)
LEMMA OrderedFacts ==
    ASSUME NEW T \in SUBSET Thresholds, T # {}
    PROVE  /\ Ordered(T) \in Seq(Thresholds)
           /\ Len(Ordered(T)) \in 1 .. 4
           /\ \A a, b \in 1 .. Len(Ordered(T)) : a < b
                 => Ordered(T)[a] < Ordered(T)[b]
<1> USE DEF Thresholds
<1>1. CASE T \in {{1}, {2}, {3}, {4}}
  <2>1. PICK a \in Thresholds : T = {a}
    BY <1>1
  <2>2. Ordered(T) = <<a>>
    BY <2>1, OrderedOne
  <2> QED
    BY <2>2
<1>2. CASE T \in {{1, 2}, {1, 3}, {1, 4}, {2, 3}, {2, 4}, {3, 4}}
  <2>1. PICK a, b \in Thresholds : T = {a, b} /\ a < b
    BY <1>2
  <2>2. Ordered(T) = <<a, b>>
    BY <2>1, OrderedTwo
  <2>3. <<a, b>> \in Seq(Thresholds) /\ Len(<<a, b>>) = 2
        /\ <<a, b>>[1] = a /\ <<a, b>>[2] = b
    OBVIOUS
  <2>4. a \in Int /\ b \in Int
    OBVIOUS
  <2> HIDE DEF Thresholds
  <2>5. \A m, n \in 1 .. 2 : m < n => Ordered(T)[m] < Ordered(T)[n]
    BY <2>1, <2>2, <2>3, <2>4
  <2> QED
    BY <2>2, <2>3, <2>5
<1>3. CASE T \in {{1, 2, 3}, {1, 2, 4}, {1, 3, 4}, {2, 3, 4}}
  <2>1. PICK a, b, c \in Thresholds : T = {a, b, c} /\ a < b /\ b < c
    BY <1>3
  <2>2. Ordered(T) = <<a, b, c>>
    BY <2>1, OrderedThree
  <2>3. <<a, b, c>> \in Seq(Thresholds) /\ Len(<<a, b, c>>) = 3
        /\ <<a, b, c>>[1] = a /\ <<a, b, c>>[2] = b /\ <<a, b, c>>[3] = c
    OBVIOUS
  <2>4. a \in Int /\ b \in Int /\ c \in Int
    OBVIOUS
  <2> HIDE DEF Thresholds
  <2>5. \A m, n \in 1 .. 3 : m < n => Ordered(T)[m] < Ordered(T)[n]
    BY <2>1, <2>2, <2>3, <2>4
  <2> QED
    BY <2>2, <2>3, <2>5
<1>4. CASE T = {1, 2, 3, 4}
  <2>2. Ordered(T) = <<1, 2, 3, 4>>
    BY <1>4, OrderedFour
  <2> QED
    BY <2>2
<1> QED
  BY <1>1, <1>2, <1>3, <1>4, SomeThresholds

(* The thresholds that parseH5File takes to be active are the first of     *)
(* those the detector has, as far as they are 1 and 2.                     *)
LEMMA ActiveFirst ==
    ASSUME NEW T \in SUBSET Thresholds, T # {}, NEW k \in 1 .. Len(Ordered(T)),
           Ordered(T)[k] \in {1, 2}
    PROVE  /\ k \in DOMAIN Ordered(T \cap {1, 2})
           /\ Ordered(T \cap {1, 2})[k] = Ordered(T)[k]
<1>1. CASE 1 \in T /\ 2 \in T
  <2>1. T \in {{1, 2}, {1, 2, 3}, {1, 2, 4}, {1, 2, 3, 4}}
    BY <1>1, SomeThresholds
  <2>2. /\ Ordered({1, 2}) = <<1, 2>> /\ Ordered({1, 2, 3}) = <<1, 2, 3>>
        /\ Ordered({1, 2, 4}) = <<1, 2, 4>>
        /\ Ordered({1, 2, 3, 4}) = <<1, 2, 3, 4>>
    BY OrderedTwo, OrderedThree, OrderedFour
  <2>3. Ordered(T) \in {<<1, 2>>, <<1, 2, 3>>, <<1, 2, 4>>, <<1, 2, 3, 4>>}
    BY <2>1, <2>2, Zenon
  <2>4. k \in {1, 2} /\ Ordered(T)[k] = k
    BY <2>3
  <2>5. T \cap {1, 2} = {1, 2}
    BY <1>1
  <2>6. Ordered(T \cap {1, 2}) = <<1, 2>>
    BY <2>2, <2>5
  <2>7. DOMAIN <<1, 2>> = {1, 2} /\ <<1, 2>>[1] = 1 /\ <<1, 2>>[2] = 2
    OBVIOUS
  <2> QED
    BY <2>4, <2>6, <2>7
<1>2. ASSUME NEW a \in {1, 2}, T \cap {1, 2} = {a}
      PROVE  /\ k \in DOMAIN Ordered(T \cap {1, 2})
             /\ Ordered(T \cap {1, 2})[k] = Ordered(T)[k]
  <2>1. T \in {{a}, {a, 3}, {a, 4}, {a, 3, 4}}
    <3>1. CASE a = 1
      <4>1. 1 \in T /\ 2 \notin T
        BY <1>2, <3>1
      <4> QED
        BY <3>1, <4>1, SomeThresholds
    <3>2. CASE a = 2
      <4>1. 1 \notin T /\ 2 \in T
        BY <1>2, <3>2
      <4> QED
        BY <3>2, <4>1, SomeThresholds
    <3> QED
      BY <3>1, <3>2
  <2>2. a \in Int /\ 3 \in Int /\ 4 \in Int /\ a < 3 /\ a < 4 /\ 3 < 4
    OBVIOUS
  <2>3. /\ Ordered({a}) = <<a>> /\ Ordered({a, 3}) = <<a, 3>>
        /\ Ordered({a, 4}) = <<a, 4>> /\ Ordered({a, 3, 4}) = <<a, 3, 4>>
    BY <2>2, OrderedOne, OrderedTwo, OrderedThree, Zenon
  <2>4. Ordered(T) \in {<<a>>, <<a, 3>>, <<a, 4>>, <<a, 3, 4>>}
    BY <2>1, <2>3, Zenon
  <2>5. k = 1 /\ Ordered(T)[k] = a
    <3>1. CASE Ordered(T) = <<a>>
      BY <3>1
    <3>2. CASE Ordered(T) = <<a, 3>>
      BY <3>2
    <3>3. CASE Ordered(T) = <<a, 4>>
      BY <3>3
    <3>4. CASE Ordered(T) = <<a, 3, 4>>
      BY <3>4
    <3> QED
      BY <2>4, <3>1, <3>2, <3>3, <3>4
  <2>6. Ordered(T \cap {1, 2}) = <<a>>
    BY <1>2, <2>3
  <2> QED
    BY <2>5, <2>6
<1>3. CASE T \cap {1, 2} = {}
  <2>1. T \in {{3}, {4}, {3, 4}}
    <3>1. 1 \notin T /\ 2 \notin T
      BY <1>3
    <3> QED
      BY <3>1, SomeThresholds
  <2>2. Ordered({3}) = <<3>> /\ Ordered({4}) = <<4>> /\ Ordered({3, 4}) = <<3, 4>>
    BY OrderedOne, OrderedTwo
  <2>3. Ordered(T) \in {<<3>>, <<4>>, <<3, 4>>}
    BY <2>1, <2>2, Zenon
  <2> QED
    BY <2>3
<1> QED
  <2>1. T \cap {1, 2} \in {{}, {1}, {2}, {1, 2}}
    OBVIOUS
  <2> QED
    BY <1>1, <1>2, <1>3, <2>1

(* The label of an image is a threshold, or what the stack held. *)
LEMMA LabelType ==
    ASSUME NEW T \in SUBSET Thresholds
    PROVE  \A k \in DOMAIN Ordered(T \cap {1, 2}) :
              Ordered(T \cap {1, 2})[k] \in Thresholds
<1>1. CASE T \cap {1, 2} = {}
  BY <1>1, OrderedNone
<1>2. CASE T \cap {1, 2} # {}
  BY <1>2, OrderedFacts
<1> QED
  BY <1>1, <1>2

-----------------------------------------------------------------------------
(* What the plugins are shown.                                             *)

Orders == Seq(Thresholds) \ {<<>>}
Names == [n : Nat, id : Nat]
Files == [series : Nat, first : Int, last : Int, thresholds : Orders,
          energies : Nat]
Waiting == [name : Names, data : Files]
Entries == [series : Nat, image : Int, threshold : Thresholds, armed : Nat,
            uniqueId : Nat, label : Thresholds \cup {Garbage}, energies : Nat,
            enables : SUBSET Thresholds]
Copies == [nd : Nat, num : Nat, energies : Nat, enables : SUBSET Thresholds]

(* Types. *)
TypeInv ==
    /\ model \in Models /\ set \in Settings \cup {NoSettings}
    /\ series \in Nat /\ total \in Nat /\ written \in Nat /\ armed \in Nat
    /\ energies \in Nat /\ enables \in SUBSET Thresholds /\ switched \in BOOLEAN
    /\ nd \in Nat /\ num \in Nat /\ resets \in Nat
    /\ i \in Nat
    /\ \A f \in DOMAIN disk : f \in Names /\ disk[f] \in Files
    /\ queue \in Seq(Waiting)
    /\ shown \in Seq(Entries)
    /\ copy \in Copies
    /\ image \in Int /\ j \in Nat \ {0}
    /\ polling \in {"idle", "files"} /\ parse \in {"idle", "images", "close"}
    /\ parse # "idle" => queue # <<>>
    /\ parse = "images" => j <= Len(File.thresholds)
    /\ parse = "idle" => j = 1

(* The acquisition pollTask has in hand is the one the detector has, and   *)
(* nothing is left of it when the next is started.                         *)
AcqInv ==
    /\ series = 0 => polling = "idle" /\ shown = <<>>
    /\ series > 0 =>
         /\ acq.sequenceId = series
         /\ set \in Settings /\ set.enabled \subseteq Offered
         /\ total = set.numImages * set.numTriggers
         /\ Defined(set) => acq.nDataFiles = RoundedUp(total, set.imagesPerFile)
    /\ polling = "idle" => queue = <<>> /\ parse = "idle"
    /\ complete => polling = "idle" /\ i = acq.nDataFiles + 1
    /\ aborted => stop
    /\ i = 0 => queue = <<>>

(* The counters, and parseH5File's copies of them, which the client may    *)
(* put behind.                                                             *)
CountInv ==
    /\ num = Len(shown)
    /\ parse = "images" => copy.num = num
    /\ resets = 0 =>
         /\ parse = "images" => copy.nd = nd
         /\ \A k \in DOMAIN shown : shown[k].uniqueId = nd - Len(shown) + k - 1
         /\ nd >= Len(shown)

(* An acquisition with the $id in its names. *)
Own == set.hasId /\ series > 0

(* d is the n-th file of this acquisition. *)
OwnFile(n, d) ==
    /\ d.series = series /\ d.energies = armed /\ d.thresholds = InDetector(set)
    /\ d.first = (n - 1) * PerFile + 1
    /\ d.last + 1 >= d.first /\ d.last <= Smaller(n * PerFile, total)
    /\ ~aborted => d.last = Smaller(n * PerFile, total)

(* The detector's files with the names of this acquisition are its own.    *)
DiskInv ==
    /\ series > 0 => written <= FilesInDetector
    /\ \A f \in DOMAIN disk :
          /\ f.id <= series
          /\ Own /\ f.id = series => f.n < written /\ OwnFile(f.n, disk[f])

(* Those queued are the last that pollTask found, in order.                *)
QueueInv ==
    Own => \A m \in 1 .. Len(queue) :
              /\ queue[m].name.n = i - 1 - Len(queue) + m
              /\ queue[m].name.n \in 1 .. FilesInDetector - 1
              /\ OwnFile(queue[m].name.n, queue[m].data)

(* The number of the file that is parsed, or is the next to be.            *)
Current == i - Len(queue)

(* Where parseH5File is in the file. *)
PlaceInv ==
    Own /\ parse = "images" =>
        /\ image >= File.first /\ image <= File.last + 1
        /\ image > File.last => j = 1

(* The images shown are earlier than the one to be shown next.             *)
OrderInv ==
    Own =>
      /\ \A k \in DOMAIN shown : shown[k].series = series
      /\ \A k \in 2 .. Len(shown) : Earlier(shown[k - 1], shown[k])
      /\ shown # <<>> =>
           LET last == shown[Len(shown)]
           IN /\ last.image <= Current * PerFile
              /\ parse = "idle" => last.image <= (Current - 1) * PerFile
              /\ parse = "images" =>
                    Earlier(last, [image |-> image, threshold |-> InDetector(set)[j]])

(* As long as nothing failed and nothing was stopped, none is missing.     *)
Read(n) == Smaller(n * PerFile, total) * Len(InDetector(set))
WholeInv ==
    Own /\ ~skipped /\ ~aborted =>
      /\ \A k \in DOMAIN shown : /\ shown[k].image = Taken(k).image
                                 /\ shown[k].threshold = Taken(k).threshold
      /\ parse = "idle" =>
           Len(shown) = IF Current = 0 THEN 0 ELSE Read(Current - 1)
      /\ parse = "images"
            => Len(shown) = (image - 1) * Len(InDetector(set)) + j - 1
      /\ parse = "close" => Len(shown) = Read(Current)

(* The labels of those shown are those of the enables when their file was  *)
(* opened, and these and the energies no older than the detector's.        *)
LabelInv ==
    /\ armed <= energies
    /\ Own =>
         /\ enables # set.enabled => switched
         /\ parse = "images" =>
              /\ copy.energies \in armed .. energies
              /\ copy.enables # set.enabled => switched
         /\ \A k \in DOMAIN shown :
              /\ shown[k].armed = armed /\ shown[k].energies \in armed .. energies
              /\ shown[k].enables # set.enabled => switched
              /\ shown[k].threshold \in {1, 2} =>
                    \/ shown[k].label = shown[k].threshold
                    \/ shown[k].enables \cap {1, 2} # set.enabled \cap {1, 2}

(* Sequences that grow at their end and shrink at their front. *)
LEMMA AppendFacts ==
    ASSUME NEW S, NEW s \in Seq(S), NEW e \in S
    PROVE  /\ Append(s, e) \in Seq(S) /\ Len(Append(s, e)) = Len(s) + 1
           /\ DOMAIN Append(s, e) = 1 .. Len(s) + 1 /\ Append(s, e) # <<>>
           /\ \A k \in 1 .. Len(s) : Append(s, e)[k] = s[k]
           /\ Append(s, e)[Len(s) + 1] = e
           /\ s # <<>> => Head(Append(s, e)) = Head(s)
           /\ s = <<>> => Head(Append(s, e)) = e
OBVIOUS

(* What is left of a queue. *)
LEMMA TailFacts ==
    ASSUME NEW S, NEW s \in Seq(S), s # <<>>
    PROVE  /\ Tail(s) \in Seq(S) /\ Len(Tail(s)) = Len(s) - 1 /\ Len(s) >= 1
           /\ \A k \in 1 .. Len(s) - 1 : Tail(s)[k] = s[k + 1]
           /\ Head(s) = s[1] /\ Head(s) \in S
OBVIOUS

(* What the settings are. *)
LEMMA SetFacts ==
    ASSUME TypeInv
    PROVE  /\ set.hasId \in BOOLEAN /\ set.fits \in BOOLEAN
           /\ set.remove \in BOOLEAN
           /\ set.numImages \in Nat \ {0} /\ set.numTriggers \in Nat \ {0}
           /\ set.imagesPerFile \in Nat
           /\ set.enabled \in SUBSET Thresholds /\ set.enabled # {}
           /\ model \in {"Eiger1", "Eiger2", "Pilatus4"}
<1>1. CASE set = NoSettings
  BY <1>1, ConstantsAssumption DEF TypeInv, NoSettings, Enables, Thresholds
<1>2. CASE set \in Settings
  <2>1. set.enabled \in Enables
    BY <1>2, ConstantsAssumption
  <2>2. /\ set.hasId \in BOOLEAN /\ set.fits \in BOOLEAN /\ set.remove \in BOOLEAN
        /\ set.numImages \in Nat \ {0} /\ set.numTriggers \in Nat \ {0}
        /\ set.imagesPerFile \in Nat
    BY <1>2, ConstantsAssumption
  <2>3. set.enabled \in SUBSET Thresholds /\ set.enabled # {}
    BY <2>1 DEF Enables
  <2>4. model \in {"Eiger1", "Eiger2", "Pilatus4"}
    BY ConstantsAssumption DEF TypeInv
  <2> QED
    BY <2>2, <2>3, <2>4
<1> QED
  BY <1>1, <1>2 DEF TypeInv

(* The thresholds in the detector's files. *)
LEMMA InDetectorFacts ==
    ASSUME TypeInv
    PROVE  /\ InDetector(set) \in Orders /\ Len(InDetector(set)) \in 1 .. 4
           /\ \A a, b \in 1 .. Len(InDetector(set)) :
                 a < b => InDetector(set)[a] < InDetector(set)[b]
<1>1. CASE model = "Eiger1"
  BY <1>1 DEF InDetector, Orders, Thresholds
<1>2. CASE model # "Eiger1"
  <2>1. InDetector(set) = Ordered(set.enabled)
    BY <1>2 DEF InDetector
  <2>0. set.enabled \in SUBSET Thresholds /\ set.enabled # {}
    BY SetFacts
  <2>2. Ordered(set.enabled) \in Seq(Thresholds) /\ Len(Ordered(set.enabled)) >= 1
    <3>1. Ordered(set.enabled) \in Seq(Thresholds)
          /\ Len(Ordered(set.enabled)) \in 1 .. 4
      BY <2>0, OrderedFacts, Zenon
    <3> QED
      BY <3>1
  <2>3. Ordered(set.enabled) # <<>>
    BY <2>2
  <2> QED
    BY <2>0, <2>1, <2>3, OrderedFacts DEF Orders
<1> QED
  BY <1>1, <1>2

(* A label is a threshold, or the number nobody set. *)
LEMMA LabelFacts ==
    ASSUME TypeInv, NEW k \in Nat
    PROVE  Label(k) \in Thresholds \cup {Garbage}
<1>1. copy.enables \in SUBSET Thresholds
  BY DEF TypeInv, Copies
<1>2. CASE model = "Eiger1"
  BY <1>2 DEF Label, Active, Thresholds
<1>3. CASE model # "Eiger1"
  BY <1>1, <1>3, LabelType DEF Label, Active
<1> QED
  BY <1>2, <1>3

(* There is room for an image in a file. *)
LEMMA PerFileFacts ==
    ASSUME TypeInv
    PROVE  PerFile \in Nat /\ (total > 0 => PerFile > 0)
BY SetFacts DEF PerFile, TypeInv

(* The file in hand. *)
LEMMA FileFacts ==
    ASSUME TypeInv, queue # <<>>
    PROVE  /\ File \in Files /\ Len(File.thresholds) \in Nat \ {0}
           /\ File.first \in Int /\ File.last \in Int
           /\ \A k \in 1 .. Len(File.thresholds) :
                 File.thresholds[k] \in Thresholds
<1>1. Head(queue) \in Waiting
  BY TailFacts DEF TypeInv
<1>2. File \in Files
  BY <1>1 DEF File, Waiting
<1>3. File.thresholds \in Seq(Thresholds) /\ File.thresholds # <<>>
  BY <1>2 DEF Files, Orders
<1>4. File.first \in Int /\ File.last \in Int
  BY <1>2 DEF Files
<1> QED
  BY <1>2, <1>3, <1>4

(* The types hold initially. *)
LEMMA TypeInit == Init => TypeInv
<1> SUFFICES ASSUME Init PROVE TypeInv
  OBVIOUS
<1> QED
  <2>1. enables \in SUBSET Thresholds /\ copy \in Copies
    BY DEF Init, NoCopy, NoSettings, Thresholds, Copies
  <2>2. switched \in BOOLEAN
    BY DEF Init
  <2> QED
    BY <2>1, <2>2 DEF Init, TypeInv, File

(* Every step keeps the types. *)
LEMMA TypeStep == TypeInv /\ [Next]_vars => TypeInv'
<1> SUFFICES ASSUME TypeInv, [Next]_vars PROVE TypeInv'
  OBVIOUS
<1> USE DEF detector, poll, parser, counters, client, history
<1>1. ASSUME NEW s \in Settings, Arm(s) PROVE TypeInv'
  <2>1. s.numImages \in Nat /\ s.numTriggers \in Nat
    BY ConstantsAssumption
  <2>2. s.numImages * s.numTriggers \in Nat
    BY <2>1
  <2>3. s.enabled \in SUBSET Thresholds
    <3>1. s.enabled \in Enables
      BY ConstantsAssumption
    <3> QED
      BY <3>1 DEF Enables
  <2>4. /\ enables' = s.enabled /\ switched' \in BOOLEAN
        /\ armed' = energies /\ UNCHANGED <<energies, resets, nd, parser, queue, model>>
    BY <1>1 DEF Arm
  <2> QED
    BY <1>1, <2>2, <2>3, <2>4 DEF Arm, TypeInv, File
<1>2. CASE Stop
  BY <1>2 DEF Stop, TypeInv, File
<1>3. CASE ChangeEnergy \/ SwitchThreshold \/ ResetCounter
  <2>1. /\ energies' \in Nat /\ nd' \in Nat /\ resets' \in Nat
        /\ enables' \in SUBSET Thresholds /\ switched' \in BOOLEAN
    <3>1. CASE ChangeEnergy
      BY <3>1 DEF ChangeEnergy, TypeInv
    <3>2. CASE ResetCounter
      BY <3>2 DEF ResetCounter, TypeInv
    <3>3. CASE SwitchThreshold
      <4>1. Offered \subseteq Thresholds
        BY ConstantsAssumption DEF Offered, Thresholds, TypeInv
      <4>2. PICK t \in Offered : enables' \in {enables \cup {t}, enables \ {t}}
        BY <3>3 DEF SwitchThreshold
      <4>3. enables' \subseteq Thresholds
        BY <4>1, <4>2 DEF TypeInv
      <4> QED
        BY <3>3, <4>3 DEF SwitchThreshold, TypeInv
    <3> QED
      BY <1>3, <3>1, <3>2, <3>3
  <2>2. UNCHANGED detector /\ UNCHANGED poll /\ UNCHANGED queue
        /\ UNCHANGED parser
        /\ UNCHANGED num /\ UNCHANGED shown
    BY <1>3 DEF ChangeEnergy, SwitchThreshold, ResetCounter
  <2> QED
    BY <2>1, <2>2 DEF TypeInv, File
<1>4. CASE WriteFile
  <2>1. PICK last \in IF written = 0 THEN {0}
                      ELSE IF aborted THEN ImagesOfFile(written)
                      ELSE {Smaller(written * PerFile, total)} :
           disk' = [f \in DOMAIN disk \cup {NameInDetector(written)} |->
                       IF f = NameInDetector(written) THEN FileOf(written, last)
                       ELSE disk[f]]
    BY <1>4 DEF WriteFile
  <2>2. (written - 1) * PerFile + 1 \in Int /\ written * PerFile \in Int
    BY PerFileFacts DEF TypeInv
  <2>3. last \in Int
    BY <2>1, <2>2, PerFileFacts DEF ImagesOfFile, Smaller, TypeInv
  <2>4. FileOf(written, last) \in Files
    BY <2>2, <2>3, InDetectorFacts DEF FileOf, Files, TypeInv
  <2>5. NameInDetector(written) \in Names
    BY DEF NameInDetector, Names, TypeInv
  <2>6. \A f \in DOMAIN disk' : f \in Names /\ disk'[f] \in Files
    BY <2>1, <2>4, <2>5 DEF TypeInv
  <2>7. /\ UNCHANGED <<model, series, set, total, aborted, armed>>
        /\ UNCHANGED poll
        /\ UNCHANGED queue /\ UNCHANGED parser /\ UNCHANGED counters
        /\ UNCHANGED client /\ UNCHANGED history /\ written' \in Nat
    BY <1>4 DEF WriteFile, TypeInv
  <2> QED
    BY <2>6, <2>7 DEF TypeInv, File
<1>5. CASE Found
  <2>1. i' \in Nat
    BY <1>5 DEF Found, TypeInv
  <2>2. \A f \in DOMAIN disk' : f \in Names /\ disk'[f] \in Files
    BY <1>5 DEF Found, TypeInv, Restrict
  <2>3. queue' \in Seq(Waiting) /\ (queue # <<>> => queue' # <<>> /\ Head(queue') =
      Head(queue))
    <3>1. CASE i = 0
      BY <1>5, <3>1 DEF Found, TypeInv
    <3>2. CASE i # 0
      <4> DEFINE new == [name |-> NameInDriver(i), data |-> disk[NameInDriver(i)]]
      <4>1. queue' = Append(queue, new)
        BY <1>5, <3>2 DEF Found
      <4>2. new \in Waiting
        BY <1>5 DEF Found, TypeInv, Waiting
      <4> HIDE DEF new
      <4> QED
        BY <4>1, <4>2, AppendFacts DEF TypeInv
    <3> QED
      BY <3>1, <3>2
  <2>4. parse' # "idle" => File' = File
    BY <1>5, <2>3 DEF Found, TypeInv, File
  <2> QED
    BY <1>5, <2>1, <2>2, <2>3, <2>4 DEF Found, TypeInv
<1>6. CASE Missed \/ Done
  BY <1>6 DEF Missed, Done, TypeInv, File
<1>7. CASE Open
  <2>1. Head(queue) \in Waiting /\ queue # <<>>
    BY <1>7, TailFacts DEF TypeInv, Open
  <2>2. Head(queue).data.first \in Int
    BY <2>1 DEF Waiting, Files
  <2>3. copy' \in Copies
    BY <1>7 DEF Open, TypeInv, Copies
  <2>4. /\ UNCHANGED detector /\ UNCHANGED poll /\ UNCHANGED queue /\ UNCHANGED j
        /\ UNCHANGED counters /\ UNCHANGED client /\ UNCHANGED history
        /\ image' \in Int /\ parse' = "images"
    BY <1>7, <2>2 DEF Open
  <2>5. j <= Len(Head(queue).data.thresholds)
    <3>1. j = 1
      BY <1>7 DEF Open, TypeInv
    <3>2. Head(queue).data.thresholds \in Seq(Thresholds)
          /\ Head(queue).data.thresholds # <<>>
      BY <2>1 DEF Waiting, Files, Orders
    <3>3. Len(Head(queue).data.thresholds) >= 1
      BY <3>2
    <3> QED
      BY <3>1, <3>3
  <2> QED
    BY <2>1, <2>3, <2>4, <2>5 DEF TypeInv, File
<1>8. CASE OpenFail \/ LastImage
  BY <1>8 DEF OpenFail, LastImage, TypeInv, File
<1>9. CASE ReadImage
  <2>1. Entry \in Entries
    <3>1. File.thresholds[j] \in Thresholds
      BY <1>9, FileFacts DEF ReadImage, TypeInv
    <3>2. File.series \in Nat /\ File.energies \in Nat
      BY <1>9, FileFacts DEF ReadImage, Files, TypeInv
    <3>3. Label(j) \in Thresholds \cup {Garbage}
      BY LabelFacts DEF TypeInv
    <3>4. /\ copy.nd \in Nat /\ copy.energies \in Nat /\ image \in Int
          /\ copy.enables \in SUBSET Thresholds
      BY DEF TypeInv, Copies
    <3> QED
      BY <3>1, <3>2, <3>3, <3>4 DEF Entry, Entries
  <2>2. shown' \in Seq(Entries)
    BY <1>9, <2>1, AppendFacts DEF ReadImage, TypeInv
  <2>3. copy' \in Copies /\ nd' \in Nat
        /\ num' \in Nat
    <3>1. copy \in Copies
      BY DEF TypeInv
    <3>2. copy.nd + 1 \in Nat /\ copy.num + 1 \in Nat
      BY <3>1 DEF Copies
    <3>3. copy' = [copy EXCEPT !.nd = copy.nd + 1, !.num = copy.num + 1]
          /\ nd' = copy.nd + 1 /\ num' = copy.num + 1
      BY <1>9 DEF ReadImage, CopyCounted
    <3> QED
      BY <3>1, <3>2, <3>3 DEF Copies
  <2>4. image' \in Int /\ j' \in Nat \ {0} /\ j' <= Len(File.thresholds)
    <3>1. /\ image \in Int /\ j \in Nat \ {0} /\ j <= Len(File.thresholds)
          /\ Len(File.thresholds) \in Nat \ {0}
      BY <1>9, FileFacts DEF ReadImage, TypeInv
    <3>2. CASE j < Len(File.thresholds) /\ j' = j + 1 /\ image' = image
      BY <3>1, <3>2
    <3>3. CASE j' = 1 /\ image' = image + 1
      BY <3>1, <3>3
    <3> QED
      BY <1>9, <3>2, <3>3 DEF ReadImage
  <2> QED
    BY <1>9, <2>2, <2>3, <2>4 DEF ReadImage, TypeInv, File
<1>10. CASE ReadFail
  BY <1>10, FileFacts DEF ReadFail, TypeInv, File
<1>11. CASE Close
  <2>1. queue' \in Seq(Waiting)
    BY <1>11, TailFacts DEF Close, TypeInv
  <2>2. \A f \in DOMAIN disk' : f \in Names /\ disk'[f] \in Files
    BY <1>11 DEF Close, TypeInv, Restrict
  <2>3. copy' \in Copies
    BY <1>11 DEF Close, NoCopy, Copies
  <2>4. /\ UNCHANGED <<model, series, set, total, written, aborted, armed>>
        /\ UNCHANGED poll /\ UNCHANGED counters /\ UNCHANGED client
        /\ UNCHANGED history
        /\ image' = 1 /\ j' = 1 /\ parse' = "idle"
    BY <1>11 DEF Close
  <2> QED
    BY <2>1, <2>2, <2>3, <2>4 DEF TypeInv
<1>12. CASE UNCHANGED vars
  BY <1>12 DEF vars, TypeInv, File
<1> QED
  BY <1>1, <1>2, <1>3, <1>4, <1>5, <1>6, <1>7, <1>8, <1>9, <1>10, <1>11, <1>12
  DEF Next

(* None of the other actions changes what AcqInv is about. *)
LEMMA AcqStep == TypeInv /\ AcqInv /\ [Next]_vars => AcqInv'
<1> SUFFICES ASSUME TypeInv, AcqInv, [Next]_vars PROVE AcqInv'
  OBVIOUS
<1> USE DEF detector, poll, parser, counters, client, history
<1>1. ASSUME NEW s \in Settings, Arm(s) PROVE AcqInv'
  <2>1. /\ series' = series + 1 /\ set' = s /\ set'.enabled \subseteq Offered
        /\ total' = s.numImages * s.numTriggers /\ model' = model
        /\ polling' = "files" /\ complete' = FALSE
        /\ queue = <<>> /\ queue' = queue /\ parse' = parse /\ aborted' = FALSE
    BY <1>1 DEF Arm, AcqInv
  <2>2. PICK n \in DataFilesOf(s) :
      acq' = [sequenceId |-> series', nDataFiles |-> n]
    BY <1>1 DEF Arm
  <2>3. Defined(s) => n = RoundedUp(s.numImages * s.numTriggers, s.imagesPerFile)
    BY <2>2 DEF DataFilesOf
  <2>4. acq'.sequenceId = series' /\ acq'.nDataFiles = n
    BY <2>2
  <2>5. series' > 0
    BY <2>1 DEF TypeInv
  <2>6. (Offered)' = Offered /\ (Defined(set))' = Defined(s)
    BY <2>1 DEF Offered, Defined
  <2>7. (Defined(set) => acq.nDataFiles = RoundedUp(total, set.imagesPerFile))'
    BY <2>1, <2>3, <2>4, <2>6 DEF RoundedUp
  <2> QED
    BY <2>1, <2>4, <2>5, <2>6, <2>7 DEF AcqInv
<1>2. CASE Stop \/ ChangeEnergy \/ SwitchThreshold \/ ResetCounter \/ WriteFile
  <2>1. UNCHANGED <<model, series, set, total, polling, acq, i, complete, parse,
                    shown, queue>>
    BY <1>2 DEF Stop, ChangeEnergy, SwitchThreshold, ResetCounter, WriteFile
  <2>2. aborted' => stop'
    BY <1>2 DEF Stop, ChangeEnergy, SwitchThreshold, ResetCounter, WriteFile, AcqInv
  <2> QED
    BY <2>1, <2>2 DEF AcqInv, Offered, Defined
<1>3. CASE Found \/ Missed
  <2>1. UNCHANGED <<model, series, set, total, polling, acq, complete, parse,
                    shown, aborted, stop>>
        /\ polling = "files"
    BY <1>3 DEF Found, Missed
  <2>2. i' = 0 => queue' = <<>>
    BY <1>3 DEF Found, Missed, TypeInv, AcqInv
  <2> QED
    BY <2>1, <2>2 DEF AcqInv, Offered, Defined
<1>4. CASE Done
  <2>1. UNCHANGED <<model, series, set, total, acq, i, parse, shown, queue,
                    aborted, stop>>
        /\ polling = "files" /\ polling' = "idle" /\ parse = "idle"
        /\ queue = <<>>
        /\ complete' = (i = acq.nDataFiles + 1)
    BY <1>4 DEF Done
  <2> QED
    BY <2>1 DEF AcqInv, Offered, Defined
<1>5. CASE Open \/ OpenFail \/ ReadImage \/ ReadFail \/ LastImage \/ Close
  <2>1. UNCHANGED <<model, series, set, total, polling, acq, i, complete,
                    aborted, stop>>
    BY <1>5 DEF Open, OpenFail, ReadImage, ReadFail, LastImage, Close
  <2>2. polling = "files"
    <3>1. polling # "idle"
      BY <1>5 DEF Open, OpenFail, ReadImage, ReadFail, LastImage, Close, AcqInv
    <3> QED
      BY <3>1 DEF TypeInv
  <2>3. i # 0
    BY <1>5
    DEF Open, OpenFail, ReadImage, ReadFail, LastImage, Close, AcqInv, TypeInv
  <2> QED
    BY <2>1, <2>2, <2>3 DEF AcqInv, Offered, Defined
<1>6. CASE UNCHANGED vars
  BY <1>6 DEF vars, AcqInv, Offered, Defined
<1> QED
  BY <1>1, <1>2, <1>3, <1>4, <1>5, <1>6 DEF Next

(* Every image shown is counted once. *)
LEMMA CountStep == TypeInv /\ AcqInv /\ CountInv /\ [Next]_vars => CountInv'
<1> SUFFICES ASSUME TypeInv, AcqInv, CountInv, [Next]_vars PROVE CountInv'
  OBVIOUS
<1> USE DEF detector, poll, parser, counters, client, history
<1>1. ASSUME NEW s \in Settings, Arm(s) PROVE CountInv'
  <2>1. parse' = "idle" /\ num' = 0 /\ shown' = <<>> /\ UNCHANGED <<nd, resets>>
    BY <1>1 DEF Arm, AcqInv
  <2> QED
    BY <2>1 DEF CountInv, TypeInv
<1>2. CASE ResetCounter
  <2>1. UNCHANGED <<num, shown, copy, parse>> /\ resets' = resets + 1
    BY <1>2 DEF ResetCounter
  <2>2. resets' # 0
    BY <2>1 DEF TypeInv
  <2> QED
    BY <2>1, <2>2 DEF CountInv
<1>3. CASE Stop \/ ChangeEnergy \/ SwitchThreshold \/ WriteFile \/ Found \/ Missed \/ Done
  <2>1. UNCHANGED <<num, nd, shown, copy, parse, resets>>
    BY <1>3 DEF Stop, ChangeEnergy, SwitchThreshold, WriteFile, Found, Missed, Done
  <2> QED
    BY <2>1 DEF CountInv
<1>4. CASE Open
  <2>1. UNCHANGED <<num, nd, shown, resets>> /\ copy'.nd = nd /\ copy'.num = num
    BY <1>4 DEF Open
  <2> QED
    BY <2>1 DEF CountInv
<1>5. CASE OpenFail \/ LastImage \/ Close
  <2>1. UNCHANGED <<num, nd, shown, resets>> /\ parse' # "images"
    BY <1>5 DEF OpenFail, LastImage, Close
  <2> QED
    BY <2>1 DEF CountInv
<1>6. CASE ReadFail
  <2>1. UNCHANGED <<num, nd, shown, resets, copy, parse>>
    BY <1>6 DEF ReadFail
  <2> QED
    BY <2>1 DEF CountInv
<1>7. CASE ReadImage
  <2>0. TypeInv'
    BY TypeStep
  <2>1. /\ shown' = Append(shown, Entry) /\ parse = "images" /\ parse' = parse
        /\ nd' = copy.nd + 1 /\ num' = copy.num + 1 /\ resets' = resets
        /\ copy' = [copy EXCEPT !.nd = @ + 1, !.num = @ + 1]
    BY <1>7 DEF ReadImage, CopyCounted
  <2>2. copy'.nd = copy.nd + 1 /\ copy'.num = copy.num + 1
    BY <2>1 DEF TypeInv, Copies
  <2>3. /\ Len(shown') = Len(shown) + 1 /\ DOMAIN shown' = 1 .. Len(shown) + 1
        /\ Len(shown) \in Nat /\ DOMAIN shown = 1 .. Len(shown)
        /\ \A k \in 1 .. Len(shown) : shown'[k] = shown[k]
        /\ shown'[Len(shown) + 1] = Entry
    <3>1. shown \in Seq(Entries)
      BY DEF TypeInv
    <3> QED
      BY <2>1, <3>1
  <2>4. Entry.uniqueId = copy.nd
    BY DEF Entry
  <2>5. copy.nd \in Nat /\ copy.num \in Nat /\ nd \in Nat /\ num \in Nat
    BY DEF TypeInv, Copies
  <2>6. num' = Len(shown') /\ copy'.num = num'
    BY <2>1, <2>2, <2>3, <2>5 DEF CountInv
  <2>7. ASSUME resets = 0
        PROVE  /\ copy'.nd = nd' /\ nd' >= Len(shown')
               /\ \A k \in DOMAIN shown' :
                     shown'[k].uniqueId = nd' - Len(shown') + k - 1
    <3>1. copy.nd = nd /\ nd >= Len(shown)
          /\ \A k \in 1 .. Len(shown) :
                shown[k].uniqueId = nd - Len(shown) + k - 1
      BY <2>1, <2>3, <2>7 DEF CountInv
    <3> DEFINE n == Len(shown)
    <3>2. n \in Nat /\ Len(shown') = n + 1 /\ nd' = nd + 1 /\ nd \in Nat
      BY <2>1, <2>3, <2>5, <3>1
    <3>3. ASSUME NEW k \in 1 .. n
          PROVE  shown'[k].uniqueId = nd' - Len(shown') + k - 1
      <4>1. shown'[k].uniqueId = nd - n + k - 1
        BY <2>3, <3>1
      <4> HIDE DEF n
      <4> QED
        BY <3>2, <4>1
    <3>4. shown'[n + 1].uniqueId = nd' - Len(shown') + (n + 1) - 1
      <4>0. shown'[n + 1] = Entry
        BY <2>3
      <4>1. shown'[n + 1].uniqueId = nd
        BY <2>4, <3>1, <4>0
      <4> HIDE DEF n
      <4> QED
        BY <3>2, <4>1
    <3>5. DOMAIN shown' = (1 .. n) \cup {n + 1}
      BY <2>3
    <3>6. copy'.nd = nd' /\ nd' >= Len(shown')
      BY <2>1, <2>2, <2>3, <2>5, <3>1
    <3> QED
      BY <3>3, <3>4, <3>5, <3>6
  <2> QED
    BY <2>1, <2>6, <2>7 DEF CountInv
<1>8. CASE UNCHANGED vars
  BY <1>8 DEF vars, CountInv
<1> QED
  BY <1>1, <1>2, <1>3, <1>4, <1>5, <1>6, <1>7, <1>8 DEF Next

(* What the files of an acquisition are computed from. *)
LEMMA SameFiles ==
    ASSUME UNCHANGED <<model, set, total>>
    PROVE  /\ PerFile' = PerFile /\ FilesInDetector' = FilesInDetector
           /\ InDetector(set)' = InDetector(set)
BY DEF PerFile, FilesInDetector, RoundedUp, InDetector

(* An acquisition has images, and its files have room for them: all of     *)
(* them, but not all but one.                                              *)
LEMMA FilesFacts ==
    TypeInv /\ AcqInv /\ series > 0 =>
        /\ PerFile \in Nat \ {0} /\ total \in Nat \ {0}
        /\ FilesInDetector \in Nat \ {0, 1}
        /\ (FilesInDetector - 1) * PerFile >= total
        /\ \A n \in Nat : 0 < n /\ n < FilesInDetector
              => (n - 1) * PerFile < total
<1> HAVE TypeInv /\ AcqInv /\ series > 0
<1>1. total \in Nat \ {0}
  <2>1. \A m, n \in Nat \ {0} : m * n \in Nat \ {0}
    OBVIOUS
  <2>2. total = set.numImages * set.numTriggers
    BY DEF AcqInv, TypeInv
  <2> QED
    BY <2>1, <2>2, SetFacts
<1>2. PerFile \in Nat \ {0}
  BY <1>1, PerFileFacts
<1> DEFINE q == RoundedUp(total, PerFile)
<1>3. /\ q \in Nat \ {0} /\ q * PerFile >= total
      /\ \A n \in Nat : n <= q /\ n > 0 => (n - 1) * PerFile < total
  BY <1>1, <1>2, RoundedUpBounds
<1>4. FilesInDetector = 1 + q
  BY DEF FilesInDetector
<1> HIDE DEF q
<1>5. FilesInDetector - 1 = q /\ FilesInDetector \in Nat \ {0, 1}
  BY <1>3, <1>4
<1>6. ASSUME NEW n \in Nat, 0 < n, n < FilesInDetector
      PROVE  (n - 1) * PerFile < total
  <2>1. n <= q
    BY <1>3, <1>4, <1>6
  <2> QED
    BY <1>3, <1>6, <2>1
<1> QED
  BY <1>1, <1>2, <1>3, <1>5, <1>6

(* A file the detector writes is as OwnFile says. *)
LEMMA NewFile ==
    ASSUME TypeInv, AcqInv, series > 0, written < FilesInDetector,
           NEW last \in IF written = 0 THEN {0}
                        ELSE IF aborted THEN ImagesOfFile(written)
                        ELSE {Smaller(written * PerFile, total)}
    PROVE  OwnFile(written, FileOf(written, last))
<1> DEFINE a == (written - 1) * PerFile
           b == written * PerFile
<1>1. a \in Int /\ b \in Nat /\ a = b - PerFile /\ PerFile \in Nat \ {0}
      /\ total \in Nat
  BY FilesFacts DEF TypeInv
<1>2. written = 0 => b = 0
  BY <1>1
<1>3. written > 0 => a < total
  BY FilesFacts DEF TypeInv
<1>4. last \in IF written = 0 THEN {0}
                    ELSE IF aborted THEN a + 1 .. Smaller(b, total)
               ELSE {Smaller(b, total)}
  BY DEF ImagesOfFile
<1>5. FileOf(written, last) =
        [series |-> series, first |-> a + 1, last |-> last,
         thresholds |-> InDetector(set), energies |-> armed]
  BY DEF FileOf
<1>6. written \in Nat
  BY DEF TypeInv
<1>7. OwnFile(written, FileOf(written, last)) <=>
        /\ last + 1 >= a + 1 /\ last <= Smaller(b, total)
        /\ ~aborted => last = Smaller(b, total)
  BY <1>5 DEF OwnFile
<1> HIDE DEF a, b
<1>8. CASE written = 0
  <2>1. last = 0 /\ b = 0 /\ a < 0
    BY <1>1, <1>2, <1>4, <1>8
  <2> QED
    BY <1>1, <1>7, <2>1 DEF Smaller
<1>9. CASE written > 0 /\ aborted
  <2>1. last \in a + 1 .. Smaller(b, total)
    BY <1>4, <1>9
  <2>2. Smaller(b, total) \in Int
    BY <1>1 DEF Smaller
  <2> QED
    BY <1>1, <1>7, <1>9, <2>1, <2>2
<1>10. CASE written > 0 /\ ~aborted
  <2>1. last = Smaller(b, total)
    BY <1>4, <1>10
  <2>2. last + 1 >= a + 1 /\ last <= Smaller(b, total)
    BY <1>1, <1>3, <1>10, <2>1 DEF Smaller
  <2> QED
    BY <1>7, <2>1, <2>2
<1> QED
  BY <1>6, <1>8, <1>9, <1>10

(* The detector writes no name of this acquisition but with a file of this *)
(* acquisition.                                                            *)
LEMMA DiskStep == TypeInv /\ AcqInv /\ DiskInv /\ [Next]_vars => DiskInv'
<1> SUFFICES ASSUME TypeInv, AcqInv, DiskInv, [Next]_vars PROVE DiskInv'
  OBVIOUS
<1> USE DEF detector, poll, parser, counters, client, history
<1>1. ASSUME NEW s \in Settings, Arm(s) PROVE DiskInv'
  <2>1. series' = series + 1 /\ written' = 0 /\ disk' = disk
    BY <1>1 DEF Arm
  <2>2. FilesInDetector' \in Nat
    <3>1. TypeInv' /\ AcqInv'
      BY TypeStep, AcqStep
    <3>2. series' > 0
      BY <2>1 DEF TypeInv
    <3>3. (TypeInv /\ AcqInv /\ series > 0 => FilesInDetector \in Nat \ {0, 1})'
      BY FilesFacts, PTL
    <3> QED
      BY <3>1, <3>2, <3>3
  <2>3. \A f \in DOMAIN disk : f.id \in Nat /\ f.id <= series /\ f.id # series'
    BY <2>1 DEF DiskInv, TypeInv, Names
  <2> QED
    BY <2>1, <2>2, <2>3 DEF DiskInv, TypeInv
<1>2. CASE WriteFile
  <2>1. /\ series > 0 /\ written < FilesInDetector /\ written' = written + 1
        /\ UNCHANGED <<model, series, set, total, aborted, armed>>
    BY <1>2 DEF WriteFile
  <2> DEFINE name == NameInDetector(written)
  <2>2. PICK last \in IF written = 0 THEN {0}
                      ELSE IF aborted THEN ImagesOfFile(written)
                      ELSE {Smaller(written * PerFile, total)} :
           disk' = [f \in DOMAIN disk \cup {name} |->
                       IF f = name THEN FileOf(written, last) ELSE disk[f]]
    BY <1>2 DEF WriteFile
  <2>3. OwnFile(written, FileOf(written, last))
    BY <2>1, <2>2, NewFile
  <2>4. name.n = written /\ name.id <= series /\ written \in Nat
    BY DEF NameInDetector, TypeInv
  <2>5. PerFile' = PerFile /\ FilesInDetector' = FilesInDetector
        /\ InDetector(set)' = InDetector(set) /\ (Own)' = Own
    BY <2>1, SameFiles DEF Own
  <2>6. written' <= FilesInDetector'
    BY <2>1, <2>4, <2>5, FilesFacts
  <2> HIDE DEF name
  <2>7. ASSUME NEW f \in DOMAIN disk'
        PROVE  f.id <= series /\ (Own /\ f.id =
            series => f.n < written' /\ OwnFile(f.n, disk'[f]))
    <3>1. CASE f = name
      BY <2>1, <2>2, <2>3, <2>4, <3>1
    <3>2. CASE f # name
      <4>1. f \in DOMAIN disk /\ disk'[f] = disk[f] /\ f.n \in Nat
        BY <2>2, <3>2 DEF TypeInv, Names
      <4> QED
        BY <2>1, <2>4, <4>1 DEF DiskInv
    <3> QED
      BY <3>1, <3>2
  <2> QED
    BY <2>1, <2>5, <2>6, <2>7 DEF DiskInv, OwnFile
<1>3. ASSUME UNCHANGED <<model, series, set, total, armed, written>>,
             aborted => aborted',
             \A f \in DOMAIN disk' : f \in DOMAIN disk /\ disk'[f] = disk[f]
      PROVE  DiskInv'
  <2>1. PerFile' = PerFile /\ FilesInDetector' = FilesInDetector
        /\ InDetector(set)' = InDetector(set) /\ (Own)' = Own
    BY <1>3, SameFiles DEF Own
  <2> QED
    BY <1>3, <2>1 DEF DiskInv, OwnFile
<1>4. CASE Stop
  <2>1. ~aborted
    BY <1>4 DEF Stop, AcqInv
  <2> QED
    BY <1>3, <1>4, <2>1 DEF Stop
<1>5. CASE Found
  BY <1>3, <1>5 DEF Found, Restrict
<1>6. CASE Close
  BY <1>3, <1>6 DEF Close, Restrict
<1>7. CASE ChangeEnergy \/ SwitchThreshold \/ ResetCounter \/ Missed \/ Done
  BY <1>3, <1>7 DEF ChangeEnergy, SwitchThreshold, ResetCounter, Missed, Done
<1>8. CASE Open \/ OpenFail \/ ReadImage \/ ReadFail \/ LastImage
  BY <1>3, <1>8 DEF Open, OpenFail, ReadImage, ReadFail, LastImage
<1>9. CASE UNCHANGED vars
  BY <1>3, <1>9 DEF vars
<1> QED
  BY <1>1, <1>2, <1>4, <1>5, <1>6, <1>7, <1>8, <1>9 DEF Next

(* The file in hand is the one pollTask found that many files ago. *)
LEMMA HeadFile ==
    ASSUME TypeInv, QueueInv, Own, queue # <<>>
    PROVE  /\ Current \in 1 .. FilesInDetector - 1
           /\ OwnFile(Current, File) /\ Len(queue) >= 1
<1>1. Len(queue) \in Nat /\ Len(queue) >= 1 /\ Head(queue) = queue[1]
      /\ 1 \in 1 .. Len(queue)
  BY DEF TypeInv
<1>2. /\ queue[1].name.n = i - 1 - Len(queue) + 1
      /\ queue[1].name.n \in 1 .. FilesInDetector - 1
      /\ OwnFile(queue[1].name.n, queue[1].data)
  BY <1>1 DEF QueueInv
<1>3. queue[1].name.n = Current
  BY <1>1, <1>2 DEF Current, TypeInv
<1> QED
  BY <1>1, <1>2, <1>3 DEF File

(* pollTask's names are those of the acquisition, so that what it queues   *)
(* are the files of this acquisition, one after the other.                 *)
LEMMA QueueStep == TypeInv /\ AcqInv /\ DiskInv /\ QueueInv /\ [Next]_vars
    => QueueInv'
<1> SUFFICES ASSUME TypeInv, AcqInv, DiskInv, QueueInv, [Next]_vars
             PROVE  QueueInv'
  OBVIOUS
<1> USE DEF detector, poll, parser, counters, client, history
<1>0. Len(queue) \in Nat
  BY DEF TypeInv
<1>1. ASSUME NEW s \in Settings, Arm(s) PROVE QueueInv'
  <2>1. queue' = <<>>
    BY <1>1 DEF Arm, AcqInv
  <2> QED
    BY <2>1 DEF QueueInv
<1>2. ASSUME UNCHANGED <<model, series, set, total, armed, queue, i>>,
             aborted => aborted'
      PROVE  QueueInv'
  <2>1. PerFile' = PerFile /\ FilesInDetector' = FilesInDetector
        /\ InDetector(set)' = InDetector(set) /\ (Own)' = Own
    BY <1>2, SameFiles DEF Own
  <2> QED
    BY <1>2, <2>1 DEF QueueInv, OwnFile
<1>3. CASE Stop
  <2>1. ~aborted
    BY <1>3 DEF Stop, AcqInv
  <2> QED
    BY <1>2, <1>3, <2>1 DEF Stop
<1>4. CASE Found
  <2> SUFFICES ASSUME Own'
               PROVE  \A m \in 1 .. Len(queue') :
                        /\ queue'[m].name.n = i' - 1 - Len(queue') + m
                        /\ queue'[m].name.n \in 1 .. FilesInDetector' - 1
                        /\ OwnFile(queue[m].name.n, queue[m].data)'
    BY DEF QueueInv
  <2>1. UNCHANGED <<model, series, set, total, armed, aborted>> /\ i' = i + 1
        /\ NameInDriver(i) \in DOMAIN disk
    BY <1>4 DEF Found
  <2>2. PerFile' = PerFile /\ FilesInDetector' = FilesInDetector
        /\ InDetector(set)' = InDetector(set) /\ (Own)' = Own
    BY <2>1, SameFiles DEF Own
  <2>3. CASE i = 0
    <3>1. queue = <<>>
      BY <2>3 DEF AcqInv
    <3>2. queue' = <<>>
      BY <1>4, <2>3, <3>1 DEF Found
    <3> QED
      BY <3>2
  <2>4. CASE i # 0
    <3> DEFINE new == [name |-> NameInDriver(i), data |-> disk[NameInDriver(i)]]
    <3>1. queue' = Append(queue, new)
      BY <1>4, <2>4 DEF Found
    <3>2. new \in Waiting
      BY <2>1 DEF TypeInv, Waiting
    <3>3. NameInDriver(i) = [n |-> i, id |-> series]
      <4>1. set.fits
        <5> SUFFICES ASSUME ~set.fits PROVE FALSE
          OBVIOUS
        <5>1. NameInDriver(i) = Cut
          BY DEF NameInDriver
        <5>2. Cut \in Names
          BY <2>1, <5>1 DEF TypeInv
        <5> QED
          BY <5>2 DEF Cut, Names
      <4>2. acq.sequenceId = series /\ set.hasId
        BY <2>2 DEF Own, AcqInv
      <4> QED
        BY <4>1, <4>2 DEF NameInDriver, buildName
    <3>4. i < written /\ OwnFile(i, disk[NameInDriver(i)])
      BY <2>1, <2>2, <3>3 DEF DiskInv
    <3>5. i \in 1 .. FilesInDetector - 1
      BY <2>2, <2>4, <3>4, FilesFacts DEF DiskInv, Own, TypeInv
    <3>6. new.name.n = i /\ new.data = disk[NameInDriver(i)]
      BY <3>3
    <3> HIDE DEF new
    <3>7. /\ Len(queue') = Len(queue) + 1
          /\ \A k \in 1 .. Len(queue) : queue'[k] = queue[k]
          /\ queue'[Len(queue) + 1] = new
      BY <3>1, <3>2, AppendFacts DEF TypeInv
    <3>8. ASSUME NEW m \in 1 .. Len(queue)
          PROVE  /\ queue'[m].name.n = i' - 1 - Len(queue') + m
                 /\ queue'[m].name.n \in 1 .. FilesInDetector' - 1
                 /\ OwnFile(queue[m].name.n, queue[m].data)'
      <4>1. /\ queue[m].name.n = i - 1 - Len(queue) + m
            /\ queue[m].name.n \in 1 .. FilesInDetector - 1
            /\ OwnFile(queue[m].name.n, queue[m].data)
        BY <2>2 DEF QueueInv
      <4>2. i' - 1 - Len(queue') + m = i - 1 - Len(queue) + m
        BY <1>0, <2>1, <3>7 DEF TypeInv
      <4>3. queue'[m] = queue[m]
        BY <3>7
      <4> QED
        BY <2>1, <2>2, <4>1, <4>2, <4>3 DEF OwnFile
    <3>9. ASSUME NEW m, m = Len(queue) + 1
          PROVE  /\ queue'[m].name.n = i' - 1 - Len(queue') + m
                 /\ queue'[m].name.n \in 1 .. FilesInDetector' - 1
                 /\ OwnFile(queue[m].name.n, queue[m].data)'
      <4>1. i' - 1 - Len(queue') + m = i
        BY <1>0, <2>1, <3>7, <3>9 DEF TypeInv
      <4>2. queue'[m].name.n = i /\ queue'[m].data = disk[NameInDriver(i)]
        BY <3>6, <3>7, <3>9
      <4> QED
        BY <2>1, <2>2, <3>4, <3>5, <4>1, <4>2 DEF OwnFile
    <3>10. \A m \in 1 .. Len(queue') : m \in 1 .. Len(queue) \/ m = Len(queue) + 1
      BY <1>0, <3>7
    <3> QED
      BY <3>8, <3>9, <3>10
  <2> QED
    BY <2>3, <2>4
<1>5. CASE Close
  <2> SUFFICES ASSUME Own', NEW m \in 1 .. Len(queue')
               PROVE  /\ queue'[m].name.n = i' - 1 - Len(queue') + m
                      /\ queue'[m].name.n \in 1 .. FilesInDetector' - 1
                      /\ OwnFile(queue[m].name.n, queue[m].data)'
    BY DEF QueueInv
  <2>1. UNCHANGED <<model, series, set, total, armed, aborted, i>>
        /\ queue' = Tail(queue)
        /\ queue # <<>>
    BY <1>5 DEF Close, TypeInv
  <2>2. PerFile' = PerFile /\ FilesInDetector' = FilesInDetector
        /\ InDetector(set)' = InDetector(set) /\ (Own)' = Own
    BY <2>1, SameFiles DEF Own
  <2>3. /\ Len(queue') = Len(queue) - 1 /\ Len(queue) >= 1
        /\ \A k \in 1 .. Len(queue) - 1 : queue'[k] = queue[k + 1]
    BY <2>1, TailFacts DEF TypeInv
  <2>4. m \in Int /\ m + 1 \in 1 .. Len(queue) /\ queue'[m] = queue[m + 1]
    BY <1>0, <2>3
  <2>5. /\ queue[m + 1].name.n = i - 1 - Len(queue) + (m + 1)
        /\ queue[m + 1].name.n \in 1 .. FilesInDetector - 1
        /\ OwnFile(queue[m + 1].name.n, queue[m + 1].data)
    BY <2>2, <2>4 DEF QueueInv
  <2>6. i' - 1 - Len(queue') + m = i - 1 - Len(queue) + (m + 1)
    BY <1>0, <2>1, <2>3, <2>4 DEF TypeInv
  <2> QED
    BY <2>1, <2>2, <2>4, <2>5, <2>6 DEF OwnFile
<1>6. CASE ChangeEnergy \/ SwitchThreshold \/ ResetCounter \/ WriteFile \/ Missed \/ Done
  BY <1>2, <1>6 DEF ChangeEnergy, SwitchThreshold, ResetCounter, WriteFile, Missed, Done
<1>7. CASE Open \/ OpenFail \/ ReadImage \/ ReadFail \/ LastImage
  BY <1>2, <1>7 DEF Open, OpenFail, ReadImage, ReadFail, LastImage
<1>8. CASE UNCHANGED vars
  BY <1>2, <1>8 DEF vars
<1> QED
  BY <1>1, <1>3, <1>4, <1>5, <1>6, <1>7, <1>8 DEF Next

(* The file in hand stays the same until it is closed. *)
LEMMA SameFile ==
    ASSUME TypeInv, AcqInv, [Next]_vars, parse # "idle"
    PROVE  /\ series' = series /\ set' = set /\ model' = model /\ total' = total
           /\ armed' = armed /\ polling = "files"
           /\ parse' # "idle" => File' = File /\ Current' = Current
<1> USE DEF detector, poll, parser, counters, client, history
<1>0. queue # <<>> /\ queue \in Seq(Waiting) /\ polling = "files" /\ i \in Nat
  BY DEF TypeInv, AcqInv
<1>1. ASSUME NEW s \in Settings, Arm(s) PROVE FALSE
  BY <1>0, <1>1 DEF Arm
<1>2. CASE Found
  <2>1. /\ series' = series /\ set' = set /\ model' = model /\ total' = total
        /\ armed' = armed
    BY <1>2 DEF Found
  <2>2. i # 0
    BY <1>0 DEF AcqInv
  <2> DEFINE new == [name |-> NameInDriver(i), data |-> disk[NameInDriver(i)]]
  <2>3. queue' = Append(queue, new) /\ i' = i + 1
    BY <1>2, <2>2 DEF Found
  <2>4. new \in Waiting
    BY <1>2 DEF TypeInv, Waiting, Found
  <2> HIDE DEF new
  <2>5. Head(queue') = Head(queue) /\ Len(queue') = Len(queue) + 1
        /\ Len(queue) \in Nat
    BY <1>0, <2>3, <2>4, AppendFacts
  <2>6. Current' = Current
    BY <1>0, <2>3, <2>5 DEF Current
  <2> QED
    BY <1>0, <2>1, <2>5, <2>6 DEF File
<1>3. CASE Close
  BY <1>0, <1>3 DEF Close
<1>4. CASE Stop \/ ChangeEnergy \/ SwitchThreshold \/ ResetCounter \/ WriteFile
          \/ Missed \/ Done
  BY <1>0, <1>4
  DEF Stop, ChangeEnergy, SwitchThreshold, ResetCounter, WriteFile, Missed, Done, File, Current
<1>5. CASE Open \/ OpenFail \/ ReadImage \/ ReadFail \/ LastImage
  BY <1>0, <1>5 DEF Open, OpenFail, ReadImage, ReadFail, LastImage, File, Current
<1>6. CASE UNCHANGED vars
  BY <1>0, <1>6 DEF vars, File, Current
<1> QED
  BY <1>1, <1>2, <1>3, <1>4, <1>5, <1>6 DEF Next

(* parseH5File stays within the file it has open. *)
LEMMA PlaceStep ==
    ASSUME TypeInv, AcqInv, QueueInv, PlaceInv, [Next]_vars PROVE PlaceInv'
<1> USE DEF detector, poll, parser, counters, client, history
<1> SUFFICES ASSUME Own', parse' = "images"
             PROVE  /\ image' >= File'.first /\ image' <= File'.last + 1
                    /\ image' > File'.last => j' = 1
  BY DEF PlaceInv
<1>1. CASE parse = "images"
  <2>1. Own /\ File' = File /\ parse # "idle"
    BY <1>1, SameFile DEF Own
  <2>2. File.first \in Int /\ File.last \in Int /\ image \in Int
    BY <2>1, FileFacts DEF Files, TypeInv
  <2>3. image >= File.first /\ image <= File.last + 1 /\ (image > File.last => j =
      1)
    BY <1>1, <2>1 DEF PlaceInv
  <2>4. CASE image' = image /\ j' = j
    BY <2>1, <2>3, <2>4
  <2>5. CASE ReadImage \/ ReadFail
    <3>1. image <= File.last /\ (image' = image \/ (image' = image + 1 /\ j' = 1))
      <4>1. CASE ReadImage
        BY <4>1 DEF ReadImage
      <4>2. CASE ReadFail
        BY <4>2 DEF ReadFail
      <4> QED
        BY <2>5, <4>1, <4>2
    <3> QED
      BY <2>1, <2>2, <2>3, <3>1
  <2>6. ~(ReadImage \/ ReadFail) => image' = image /\ j' = j
    <3>1. ASSUME NEW s \in Settings, Arm(s) PROVE image' = image /\ j' = j
      BY <3>1 DEF Arm
    <3>2. CASE Stop \/ ChangeEnergy \/ SwitchThreshold \/ ResetCounter \/ WriteFile \/ Found
          \/ Missed \/ Done
      BY <3>2 DEF Stop, ChangeEnergy, SwitchThreshold, ResetCounter, WriteFile, Found, Missed, Done
    <3>3. CASE Open \/ OpenFail \/ LastImage \/ Close
      BY <1>1, <3>3 DEF Open, OpenFail, LastImage, Close
    <3>4. CASE UNCHANGED vars
      BY <3>4 DEF vars
    <3> QED
      BY <3>1, <3>2, <3>3, <3>4 DEF Next
  <2> QED
    BY <2>4, <2>5, <2>6
<1>2. CASE parse # "images"
  <2>1. Open
    <3>1. ASSUME NEW s \in Settings, Arm(s) PROVE FALSE
      BY <1>2, <3>1 DEF Arm
    <3>2. ~(\/ Stop \/ ChangeEnergy \/ SwitchThreshold \/ ResetCounter \/ WriteFile
            \/ Found \/ Missed \/ Done)
      BY <1>2 DEF Stop, ChangeEnergy, SwitchThreshold, ResetCounter, WriteFile, Found, Missed, Done
    <3>3. ~(OpenFail \/ ReadImage \/ ReadFail \/ LastImage \/ Close)
      BY <1>2 DEF OpenFail, ReadImage, ReadFail, LastImage, Close
    <3>4. ~UNCHANGED vars
      BY <1>2 DEF vars
    <3> QED
      BY <3>1, <3>2, <3>3, <3>4 DEF Next
  <2>2. /\ Own /\ queue # <<>> /\ image' = File.first /\ File' = File /\ j' = j
        /\ j = 1
    BY <2>1 DEF Open, Own, File, TypeInv
  <2>3. OwnFile(Current, File)
    BY <2>2, HeadFile
  <2>4. File.first \in Int /\ File.last \in Int
    BY <2>2, FileFacts
  <2>5. File.last + 1 >= File.first
    BY <2>3 DEF OwnFile
  <2> QED
    BY <2>2, <2>4, <2>5
<1> QED
  BY <1>1, <1>2

(* The label of an image of a file of this acquisition. *)
LEMMA LabelTrue ==
    ASSUME TypeInv, AcqInv, series > 0, NEW k \in 1 .. Len(InDetector(set)),
           InDetector(set)[k] \in {1, 2},
           copy.enables \cap {1, 2} = set.enabled \cap {1, 2}
    PROVE  Label(k) = InDetector(set)[k]
<1>1. CASE model = "Eiger1"
  BY <1>1 DEF InDetector, Label, Active
<1>2. CASE model # "Eiger1"
  <2>1. InDetector(set) = Ordered(set.enabled)
        /\ Active(copy.enables) = Ordered(set.enabled \cap {1, 2})
    BY <1>2 DEF InDetector, Active
  <2>2. set.enabled \in SUBSET Thresholds /\ set.enabled # {}
    BY SetFacts
  <2>3. /\ k \in DOMAIN Active(copy.enables)
        /\ Active(copy.enables)[k] = InDetector(set)[k]
    BY <2>1, <2>2, ActiveFirst
  <2> QED
    BY <2>3 DEF Label
<1> QED
  BY <1>1, <1>2

(* What is shown of a file of this acquisition. *)
LEMMA OwnEntry ==
    ASSUME TypeInv, AcqInv, QueueInv, Own, parse = "images"
    PROVE  /\ j \in 1 .. Len(InDetector(set)) /\ File.thresholds = InDetector(set)
           /\ Entry.series = series /\ Entry.image = image /\ Entry.armed = armed
           /\ Entry.threshold = InDetector(set)[j] /\ Entry.label = Label(j)
           /\ Entry.energies = copy.energies /\ Entry.enables = copy.enables
<1>1. OwnFile(Current, File)
  BY HeadFile DEF TypeInv
<1>2. j <= Len(InDetector(set)) /\ Len(InDetector(set)) \in Nat /\ j \in Nat \ {0}
  BY <1>1, InDetectorFacts DEF OwnFile, TypeInv
<1> QED
  BY <1>1, <1>2 DEF OwnFile, Entry

(* The labels are those of the thresholds, as far as they are still those  *)
(* of the detector, and the energies those of the driver at some time      *)
(* since it armed the detector.                                            *)
LEMMA LabelStep ==
    ASSUME TypeInv, AcqInv, QueueInv, LabelInv, [Next]_vars PROVE LabelInv'
<1> USE DEF detector, poll, parser, counters, client, history
<1>0. /\ armed \in Nat /\ energies \in Nat /\ copy.energies \in Nat
      /\ switched \in BOOLEAN
  BY DEF TypeInv, Copies
<1>1. ASSUME NEW s \in Settings, Arm(s) PROVE LabelInv'
  <2>1. /\ armed' = energies /\ energies' = energies /\ shown' = <<>>
        /\ set' = s /\ enables' = s.enabled /\ parse' # "images"
    BY <1>1 DEF Arm, AcqInv
  <2> QED
    BY <1>0, <2>1 DEF LabelInv
<1>2. ASSUME UNCHANGED <<series, set, armed, shown>>, energies' >= energies,
             energies' \in Nat, switched' \in BOOLEAN, switched => switched',
             enables' # enables => switched',
             parse' = "images" => parse = "images" /\ copy' = copy
      PROVE  LabelInv'
  <2>1. armed <= energies'
    BY <1>0, <1>2 DEF LabelInv
  <2>2. (Own)' = Own
    BY <1>2 DEF Own
  <2>3. ASSUME Own
        PROVE  /\ enables' # set.enabled => switched'
               /\ parse = "images" =>
                    /\ copy.energies \in armed .. energies'
                    /\ copy.enables # set.enabled => switched'
    <3>1. enables # set.enabled => switched
      BY <2>3 DEF LabelInv
    <3>2. parse = "images" =>
             /\ copy.energies \in armed .. energies
             /\ copy.enables # set.enabled => switched
      BY <2>3 DEF LabelInv
    <3>3. enables' # set.enabled => switched'
      BY <1>2, <3>1
    <3> QED
      BY <1>0, <1>2, <3>2, <3>3
  <2>4. ASSUME Own, NEW k \in DOMAIN shown
        PROVE  /\ shown[k].armed = armed
               /\ shown[k].energies \in armed .. energies'
               /\ shown[k].enables # set.enabled => switched'
               /\ shown[k].threshold \in {1, 2} =>
                     \/ shown[k].label = shown[k].threshold
                     \/ shown[k].enables \cap {1, 2} # set.enabled \cap {1, 2}
    <3>1. /\ shown[k].armed = armed
          /\ shown[k].energies \in armed .. energies
          /\ shown[k].enables # set.enabled => switched
          /\ shown[k].threshold \in {1, 2} =>
                \/ shown[k].label = shown[k].threshold
                \/ shown[k].enables \cap {1, 2} # set.enabled \cap {1, 2}
      BY <2>4 DEF LabelInv
    <3> QED
      BY <1>0, <1>2, <3>1
  <2> QED
    BY <1>2, <2>1, <2>2, <2>3, <2>4 DEF LabelInv
<1>3. CASE Open
  <2>1. /\ copy'.energies = energies /\ copy'.enables = enables
        /\ UNCHANGED <<series, set, armed, shown, energies, enables, switched>>
    BY <1>3 DEF Open
  <2> QED
    BY <1>0, <2>1 DEF LabelInv, Own
<1>4. CASE ReadImage
  <2>1. /\ UNCHANGED <<series, set, armed, energies, enables, switched>>
        /\ shown' = Append(shown, Entry)
        /\ parse = "images" /\ (Own)' = Own
        /\ copy' = [copy EXCEPT !.nd = @ + 1, !.num = @ + 1]
    BY <1>4 DEF ReadImage, CopyCounted, Own
  <2>2. copy'.energies = copy.energies /\ copy'.enables = copy.enables
    BY <2>1 DEF TypeInv, Copies
  <2>3. /\ DOMAIN shown' = 1 .. Len(shown) + 1 /\ DOMAIN shown = 1 .. Len(shown)
        /\ Len(shown) \in Nat
        /\ \A k \in 1 .. Len(shown) : shown'[k] = shown[k]
    BY <2>1 DEF TypeInv
  <2>4. shown'[Len(shown) + 1] = Entry
    BY <2>1 DEF TypeInv
  <2> DEFINE Right(e) ==
          /\ e.armed = armed /\ e.energies \in armed .. energies
          /\ e.enables # set.enabled => switched
          /\ e.threshold \in {1, 2} =>
                \/ e.label = e.threshold
                \/ e.enables \cap {1, 2} # set.enabled \cap {1, 2}
  <2>5. ASSUME Own
        PROVE  Right(Entry)
    <3>1. /\ j \in 1 .. Len(InDetector(set)) /\ Entry.armed = armed
          /\ Entry.threshold = InDetector(set)[j] /\ Entry.label = Label(j)
          /\ Entry.energies = copy.energies /\ Entry.enables = copy.enables
      BY <2>1, <2>5, OwnEntry
    <3>2. Entry.threshold \in {1, 2} =>
             \/ Entry.label = Entry.threshold
             \/ Entry.enables \cap {1, 2} # set.enabled \cap {1, 2}
      BY <2>5, <3>1, LabelTrue DEF Own
    <3>3. /\ copy.energies \in armed .. energies
          /\ copy.enables # set.enabled => switched
      BY <2>1, <2>5 DEF LabelInv
    <3> QED
      BY <3>1, <3>2, <3>3
  <2>6. ASSUME Own, NEW k \in 1 .. Len(shown) + 1
        PROVE  Right(shown'[k])
    <3>1. CASE k = Len(shown) + 1
      BY <2>4, <2>5, <2>6, <3>1
    <3>2. CASE k # Len(shown) + 1
      <4>1. k \in DOMAIN shown /\ shown'[k] = shown[k]
        BY <2>3, <3>2
      <4> QED
        BY <2>6, <4>1 DEF LabelInv
    <3> QED
      BY <3>1, <3>2
  <2>7. Own => /\ enables # set.enabled => switched
               /\ copy.energies \in armed .. energies
               /\ copy.enables # set.enabled => switched
    BY <2>1 DEF LabelInv
  <2>8. armed <= energies
    BY DEF LabelInv
  <2> QED
    BY <2>1, <2>2, <2>3, <2>6, <2>7, <2>8 DEF LabelInv
<1>5. CASE Stop \/ ResetCounter \/ WriteFile \/ Found \/ Missed \/ Done
  <2>1. UNCHANGED <<series, set, armed, shown, energies, enables, switched, parse,
                    copy>>
    BY <1>5 DEF Stop, ResetCounter, WriteFile, Found, Missed, Done
  <2> QED
    BY <1>0, <1>2, <2>1
<1>8. CASE ChangeEnergy
  <2>1. UNCHANGED <<series, set, armed, shown, enables, switched, parse, copy>>
        /\ energies' = energies + 1
    BY <1>8 DEF ChangeEnergy
  <2> QED
    BY <1>0, <1>2, <2>1
<1>9. CASE SwitchThreshold
  <2>1. UNCHANGED <<series, set, armed, shown, energies, parse, copy>>
        /\ switched' = (switched \/ enables' # enables)
    BY <1>9 DEF SwitchThreshold
  <2>2. switched' \in BOOLEAN
    BY <2>1
  <2>3. (switched => switched') /\ (enables' # enables => switched')
    BY <2>1
  <2> QED
    BY <1>0, <1>2, <2>1, <2>2, <2>3
<1>6. CASE OpenFail \/ ReadFail \/ LastImage \/ Close
  BY <1>0, <1>2, <1>6 DEF OpenFail, ReadFail, LastImage, Close
<1>7. CASE UNCHANGED vars
  BY <1>0, <1>2, <1>7 DEF vars
<1> QED
  BY <1>1, <1>3, <1>4, <1>5, <1>6, <1>7, <1>8, <1>9 DEF Next

(* The images of the next file come after those of the last. *)
LEMMA OrderStep ==
    ASSUME TypeInv, AcqInv, QueueInv, PlaceInv, OrderInv, [Next]_vars
    PROVE  OrderInv'
<1> USE DEF detector, poll, parser, counters, client, history
<1>0. i \in Nat /\ Len(queue) \in Nat /\ image \in Int /\ Len(shown) \in Nat
      /\ PerFile \in Nat
  BY PerFileFacts DEF TypeInv
<1>1. ASSUME NEW s \in Settings, Arm(s) PROVE OrderInv'
  <2>1. shown' = <<>>
    BY <1>1 DEF Arm
  <2> QED
    BY <2>1 DEF OrderInv
(* Where the file in hand is the same or, if there is none, a later one.   *)
<1>2. ASSUME UNCHANGED <<model, series, set, total, shown, parse, image, j>>,
             Current' \in Int, Current' >= Current,
             parse # "idle" => Current' = Current
      PROVE  OrderInv'
  <2>1. (Own)' = Own /\ PerFile' = PerFile /\ InDetector(set)' = InDetector(set)
    BY <1>2, SameFiles DEF Own
  <2>2. Current \in Int
    BY <1>0 DEF Current
  <2>3. Current * PerFile <= Current' * PerFile
        /\ (Current - 1) * PerFile <= (Current' - 1) * PerFile
        /\ Current * PerFile \in Int /\ Current' * PerFile \in Int
        /\ (Current - 1) * PerFile \in Int /\ (Current' - 1) * PerFile \in Int
    <3>1. \A a, b \in Int : \A p \in Nat : a <= b =>
             /\ a * p <= b * p /\ (a - 1) * p <= (b - 1) * p
             /\ a * p \in Int /\ b * p \in Int
             /\ (a - 1) * p \in Int /\ (b - 1) * p \in Int
      <4>1. \A a, b \in Int : \A p \in Nat :
               a <= b => a * p <= b * p /\ a * p \in Int /\ b * p \in Int
        OBVIOUS
      <4>2. \A a, b \in Int : a <= b
          => a - 1 \in Int /\ b - 1 \in Int /\ a - 1 <= b - 1
        OBVIOUS
      <4> QED
        BY <4>1, <4>2
    <3> QED
      BY <1>0, <1>2, <2>2, <3>1
  <2>4. shown # <<>> => shown[Len(shown)].image \in Int
    <3>1. shown # <<>> => shown[Len(shown)] \in Entries
      BY DEF TypeInv
    <3> QED
      BY <3>1 DEF Entries
  <2> QED
    BY <1>2, <2>1, <2>3, <2>4 DEF OrderInv
<1>3. CASE Found
  <2>1. UNCHANGED <<model, series, set, total, shown, parse, image, j>>
    BY <1>3 DEF Found
  <2>2. Current' \in Int /\ Current' >= Current
    <3>1. CASE i = 0
      BY <1>0, <1>3, <3>1 DEF Found, Current
    <3>2. CASE i # 0
      <4>1. Len(queue') = Len(queue) + 1 /\ i' = i + 1
        BY <1>3, <3>2 DEF Found, TypeInv
      <4> QED
        BY <1>0, <4>1 DEF Current
    <3> QED
      BY <3>1, <3>2
  <2>3. parse # "idle" => Current' = Current
    BY <2>1, SameFile
  <2> QED
    BY <1>2, <2>1, <2>2, <2>3
<1>4. CASE Stop \/ ChangeEnergy \/ SwitchThreshold \/ ResetCounter \/ WriteFile
          \/ Missed \/ Done
  <2>1. UNCHANGED <<model, series, set, total, shown, parse, image, j, i, queue>>
    BY <1>4 DEF Stop, ChangeEnergy, SwitchThreshold, ResetCounter, WriteFile, Missed, Done
  <2>2. Current' = Current /\ Current \in Int
    BY <1>0, <2>1 DEF Current
  <2> QED
    BY <1>2, <2>1, <2>2
<1>5. CASE UNCHANGED vars
  <2>1. UNCHANGED <<model, series, set, total, shown, parse, image, j, i, queue>>
    BY <1>5 DEF vars
  <2>2. Current' = Current /\ Current \in Int
    BY <1>0, <2>1 DEF Current
  <2> QED
    BY <1>2, <2>1, <2>2
<1>6. ASSUME Own, parse # "idle" \/ queue # <<>>
      PROVE  /\ File.first = (Current - 1) * PerFile + 1 /\ File.first \in Int
             /\ File.last <= Current * PerFile /\ File.last \in Int
             /\ (Current - 1) * PerFile \in Int /\ Current * PerFile \in Int
             /\ (Current - 1) * PerFile <= Current * PerFile
  <2>1. queue # <<>>
    BY <1>6 DEF TypeInv
  <2>2. OwnFile(Current, File) /\ Current \in Int
    BY <1>0, <1>6, <2>1, HeadFile DEF Current
  <2> DEFINE h == Current
  <2>3. h * PerFile \in Int /\ (h - 1) * PerFile = h * PerFile - PerFile
        /\ total \in Int
    <3> HIDE DEF h
    <3> QED
      BY <1>0, <2>2 DEF TypeInv, h
  <2>4. File.first \in Int /\ File.last \in Int
    BY <2>1, FileFacts
  <2>5. File.last <= Smaller(h * PerFile, total)
        /\ File.first = (h - 1) * PerFile + 1
    BY <2>2 DEF OwnFile
  <2> HIDE DEF h
  <2>6. File.last <= h * PerFile
    BY <2>3, <2>4, <2>5 DEF Smaller
  <2> QED
    BY <1>0, <2>3, <2>4, <2>5, <2>6 DEF h
<1>7. ASSUME shown # <<>> PROVE shown[Len(shown)].image \in Int
                                /\ shown[Len(shown)].threshold \in Int
  <2>1. shown[Len(shown)] \in Entries
    BY <1>7 DEF TypeInv
  <2> QED
    BY <2>1 DEF Entries, Thresholds
<1>8. ASSUME UNCHANGED <<model, series, set, total>>
      PROVE  PerFile' = PerFile /\ InDetector(set)' = InDetector(set)
             /\ (Own)' = Own
  BY <1>8, SameFiles DEF Own
<1>9. CASE Open
  <2>1. /\ UNCHANGED <<model, series, set, total, shown, queue,
                       i>> /\ queue # <<>>
        /\ parse = "idle" /\ parse' = "images" /\ image' = File.first
    BY <1>9 DEF Open, File
  <2>2. Current' = Current
    BY <2>1 DEF Current
  <2>3. ASSUME Own, shown # <<>>
        PROVE  /\ shown[Len(shown)].image <= Current * PerFile
               /\ shown[Len(shown)].image < image'
    BY <1>6, <1>7, <2>1, <2>3 DEF OrderInv
  <2> QED
    BY <1>8, <2>1, <2>2, <2>3 DEF OrderInv, Earlier
<1>10. CASE OpenFail \/ LastImage
  <2>1. /\ UNCHANGED <<model, series, set, total, shown, queue, i>>
        /\ parse' = "close"
    BY <1>10 DEF OpenFail, LastImage
  <2>2. Current' = Current
    BY <2>1 DEF Current
  <2> QED
    BY <1>8, <2>1, <2>2 DEF OrderInv
<1>11. CASE ReadFail
  <2>1. /\ UNCHANGED <<model, series, set, total, shown, queue, i>>
        /\ parse = "images" /\ parse' = "images" /\ image' = image + 1
    BY <1>11 DEF ReadFail
  <2>2. Current' = Current
    BY <2>1 DEF Current
  <2>3. ASSUME Own, shown # <<>> PROVE shown[Len(shown)].image < image'
    BY <1>0, <1>7, <2>1, <2>3 DEF OrderInv, Earlier
  <2> QED
    BY <1>8, <2>1, <2>2, <2>3 DEF OrderInv, Earlier
<1>12. CASE ReadImage
  <2>1. /\ UNCHANGED <<model, series, set, total, queue, i>>
        /\ shown' = Append(shown, Entry)
        /\ parse = "images" /\ parse' = "images" /\ image <= File.last
        /\ IF j < Len(File.thresholds) THEN j' = j + 1 /\ image' = image
                                       ELSE j' = 1 /\ image' = image + 1
    BY <1>12 DEF ReadImage
  <2>2. Current' = Current
    BY <2>1 DEF Current
  <2>3. /\ Len(shown') = Len(shown) + 1 /\ shown' # <<>>
        /\ DOMAIN shown' = 1 .. Len(shown) + 1 /\ DOMAIN shown = 1 .. Len(shown)
        /\ \A k \in 1 .. Len(shown) : shown'[k] = shown[k]
    BY <2>1 DEF TypeInv
  <2>4. shown'[Len(shown) + 1] = Entry
    BY <2>1 DEF TypeInv
  <2> SUFFICES ASSUME Own PROVE OrderInv'
    BY <1>8, <2>1 DEF OrderInv
  <2>5. /\ j \in 1 .. Len(InDetector(set)) /\ File.thresholds = InDetector(set)
        /\ Entry.series = series /\ Entry.image = image
        /\ Entry.threshold = InDetector(set)[j]
    BY <2>1, OwnEntry
  <2>6. \A k \in DOMAIN shown' : shown'[k].series = series'
    BY <1>0, <2>1, <2>3, <2>4, <2>5 DEF OrderInv
  <2>7. \A k \in 2 .. Len(shown') : Earlier(shown'[k - 1], shown'[k])
    <3>1. ASSUME NEW k \in 2 .. Len(shown) PROVE Earlier(shown'[k - 1], shown'[k])
      <4>1. k - 1 \in 1 .. Len(shown) /\ k \in 1 .. Len(shown)
        BY <1>0
      <4> QED
        BY <2>3, <4>1 DEF OrderInv
    <3>2. CASE shown # <<>>
      <4>1. Len(shown) \in 1 .. Len(shown)
        BY <3>2 DEF TypeInv
      <4>2. Earlier(shown[Len(shown)],
                    [image |-> image, threshold |-> InDetector(set)[j]])
        BY <2>1, <3>2 DEF OrderInv
      <4>3. Earlier(shown'[Len(shown)], Entry)
        BY <2>3, <2>5, <4>1, <4>2 DEF Earlier
      <4>4. \A k \in 2 .. Len(shown') : k \in 2 .. Len(shown)
               \/ (k = Len(shown) + 1 /\ k - 1 = Len(shown))
        <5> DEFINE n == Len(shown)
        <5>1. n \in Nat /\ Len(shown') = n + 1
          BY <1>0, <2>3
        <5> HIDE DEF n
        <5>2. \A k \in 2 .. Len(shown') : k \in 2 .. n \/ (k = n + 1 /\ k - 1 = n)
          BY <5>1
        <5> QED
          BY <5>2 DEF n
      <4> QED
        BY <2>4, <3>1, <4>3, <4>4
    <3>3. CASE shown = <<>>
      BY <2>3, <3>3
    <3> QED
      BY <3>2, <3>3
  <2>8. shown'[Len(shown')] = Entry
    BY <2>3, <2>4
  <2>9. Entry.image <= Current' * PerFile'
    BY <1>0, <1>6, <1>8, <2>1, <2>2, <2>5
  <2>10. Earlier(Entry, [image |-> image', threshold |-> InDetector(set)'[j']])
    <3>1. CASE j < Len(File.thresholds)
      <4>1. j \in 1 .. Len(InDetector(set)) /\ j + 1 \in 1 .. Len(InDetector(set))
            /\ j < j + 1
        BY <2>5, <3>1, InDetectorFacts
      <4>2. InDetector(set)[j] < InDetector(set)[j + 1]
        BY <4>1, InDetectorFacts
      <4> QED
        BY <1>8, <2>1, <2>5, <3>1, <4>2 DEF Earlier
    <3>2. CASE ~(j < Len(File.thresholds))
      BY <1>0, <2>1, <2>5, <3>2 DEF Earlier
    <3> QED
      BY <3>1, <3>2
  <2> QED
    BY <2>1, <2>6, <2>7, <2>8, <2>9, <2>10 DEF OrderInv
<1>13. CASE Close
  <2>1. /\ UNCHANGED <<model, series, set, total, shown, i>> /\ queue # <<>>
        /\ parse = "close" /\ parse' = "idle" /\ queue' = Tail(queue)
    BY <1>13 DEF Close, TypeInv
  <2>2. Current' = Current + 1 /\ Current \in Int
    <3>1. Len(queue') = Len(queue) - 1
      BY <2>1, TailFacts DEF TypeInv
    <3> QED
      BY <1>0, <2>1, <3>1 DEF Current
  <2> DEFINE h == Current
  <2>3. /\ (Current' - 1) * PerFile = Current * PerFile
        /\ Current' * PerFile = Current * PerFile + PerFile
        /\ Current * PerFile \in Int
    <3>1. h \in Int /\ Current' = h + 1
      BY <2>2
    <3> HIDE DEF h
    <3>2. (h + 1 - 1) * PerFile = h * PerFile
          /\ (h + 1) * PerFile = h * PerFile + PerFile
          /\ h * PerFile \in Int
      BY <1>0, <3>1
    <3> QED
      BY <3>1, <3>2 DEF h
  <2>4. ASSUME Own, shown # <<>>
        PROVE  /\ shown[Len(shown)].image <= Current' * PerFile
               /\ shown[Len(shown)].image <= (Current' - 1) * PerFile
    <3>1. shown[Len(shown)].image <= Current * PerFile
      BY <2>4 DEF OrderInv
    <3> HIDE DEF h
    <3> QED
      BY <1>0, <1>7, <2>3, <2>4, <3>1
  <2> QED
    BY <1>8, <2>1, <2>4 DEF OrderInv
<1> QED
  BY <1>1, <1>3, <1>4, <1>5, <1>9, <1>10, <1>11, <1>12, <1>13 DEF Next

(* A number is made of its quotient and its remainder. *)
LEMMA DivMod ==
    ASSUME NEW w \in 1 .. 4, NEW a \in Nat, NEW b \in 0 .. w - 1
    PROVE  (a * w + b) \div w = a /\ (a * w + b) % w = b
<1>1. CASE w = 1
  BY <1>1
<1>2. CASE w = 2
  BY <1>2
<1>3. CASE w = 3
  BY <1>3
<1>4. CASE w = 4
  BY <1>4
<1> QED
  BY <1>1, <1>2, <1>3, <1>4

(* Every image read is the next of the series: one of the next file if the *)
(* file is done, whatever its number of images.                            *)
LEMMA WholeStep ==
    ASSUME TypeInv, AcqInv, QueueInv, PlaceInv, WholeInv, [Next]_vars
    PROVE  WholeInv'
<1> USE DEF detector, poll, parser, counters, client, history
<1> SUFFICES ASSUME Own', ~skipped', ~aborted' PROVE WholeInv'
  BY DEF WholeInv
<1> DEFINE W == Len(InDetector(set))
           Counted(n) == Len(shown) = n
<1>1. ASSUME NEW s \in Settings, Arm(s) PROVE WholeInv'
  <2>1. shown' = <<>> /\ parse' = "idle" /\ i' = 0 /\ queue' = <<>>
    BY <1>1 DEF Arm, AcqInv
  <2>2. Current' = 0
    <3>1. Len(queue') = 0 /\ i' = 0
      BY <2>1
    <3> QED
      BY <3>1 DEF Current
  <2> QED
    BY <2>1, <2>2 DEF WholeInv
<1>2. ASSUME UNCHANGED <<model, set, total>>
      PROVE  /\ PerFile' = PerFile /\ InDetector(set)' = InDetector(set)
             /\ \A n : Read(n)' = Read(n)
             /\ \A n : Taken(n)' = Taken(n)
  BY <1>2, SameFiles DEF Read, Taken
<1>3. i \in Nat /\ Len(queue) \in Nat /\ image \in Int /\ Len(shown) \in Nat
      /\ j \in Nat \ {0} /\ W \in 1 .. 4
  BY InDetectorFacts DEF TypeInv
<1>4. ASSUME UNCHANGED <<model, series, set, total, shown, parse, image, j>>,
             Current' = Current, aborted => aborted', skipped' = skipped
      PROVE  WholeInv'
  <2>1. (Own)' = Own
    BY <1>4 DEF Own
  <2>2. /\ (parse = "idle" => Len(shown) =
              IF Current = 0 THEN 0 ELSE Read(Current - 1))
        /\ (parse = "images" => Len(shown) =
              (image - 1) * Len(InDetector(set)) + j - 1)
        /\ (parse = "close" => Len(shown) = Read(Current))
        /\ \A k \in DOMAIN shown : /\ shown[k].image = Taken(k).image
                                   /\ shown[k].threshold = Taken(k).threshold
    BY <1>4, <2>1 DEF WholeInv
  <2>3. /\ InDetector(set)' = InDetector(set) /\ \A n : Taken(n)' = Taken(n)
        /\ Read(Current - 1)' = Read(Current - 1)
        /\ Read(Current)' = Read(Current)
    BY <1>2, <1>4 DEF Read
  <2> QED
    BY <1>4, <2>2, <2>3 DEF WholeInv
<1>5. CASE Stop
  <2>1. ~aborted
    BY <1>5 DEF Stop, AcqInv
  <2> QED
    BY <1>4, <1>5, <2>1 DEF Stop, Current
<1>6. CASE ChangeEnergy \/ SwitchThreshold \/ ResetCounter \/ WriteFile \/ Missed \/ Done
  BY <1>4, <1>6 DEF ChangeEnergy, SwitchThreshold, ResetCounter, WriteFile, Missed, Done, Current
<1>7. CASE UNCHANGED vars
  BY <1>4, <1>7 DEF vars, Current
(* Found: if it is the master file, nothing is read of it. *)
<1>8. CASE Found
  <2>1. /\ UNCHANGED <<model, series, set, total, aborted, shown, parse, image,
                       j, skipped>>
        /\ i' = i + 1
    BY <1>8 DEF Found
  <2>2. CASE i = 0
    <3>1. queue = <<>> /\ queue' = <<>> /\ parse = "idle"
      BY <1>8, <2>2 DEF Found, AcqInv, TypeInv
    <3>2. Len(queue) = 0 /\ Len(queue') = 0
      BY <3>1
    <3>3. Current = 0 /\ Current' = 1
      BY <2>1, <2>2, <3>2 DEF Current
    <3>4. (Own)' = Own
      BY <2>1 DEF Own
    <3>5. Len(shown) = 0 /\ shown = <<>>
      BY <2>1, <3>1, <3>3, <3>4 DEF WholeInv, TypeInv
    <3>6. Read(0)' = 0
      <4>1. PerFile' \in Nat /\ total \in Nat /\ W \in Nat
            /\ InDetector(set)' = InDetector(set)
        BY <1>2, <1>3, <2>1, PerFileFacts DEF TypeInv
      <4>2. Smaller(0 * PerFile', total) = 0
        <5>1. \A p \in Nat : 0 * p = 0
          OBVIOUS
        <5>2. Smaller(0, total) = 0
          BY <4>1 DEF Smaller
        <5> QED
          BY <4>1, <5>1, <5>2
      <4>3. 0 * W = 0
        BY <1>3
      <4> QED
        BY <2>1, <4>1, <4>2, <4>3 DEF Read
    <3>7. Read(Current - 1)' = 0
      BY <3>3, <3>6 DEF Read
    <3> QED
      BY <2>1, <3>1, <3>3, <3>5, <3>7 DEF WholeInv
  <2>3. CASE i # 0
    <3> DEFINE new == [name |-> NameInDriver(i), data |-> disk[NameInDriver(i)]]
    <3>1. queue' = Append(queue, new)
      BY <1>8, <2>3 DEF Found
    <3>2. Len(queue') = Len(queue) + 1
      BY <3>1 DEF TypeInv
    <3>3. Current' = Current
      BY <1>3, <2>1, <3>2 DEF Current
    <3> QED
      BY <1>4, <2>1, <3>3
  <2> QED
    BY <2>2, <2>3
<1>9. CASE OpenFail \/ ReadFail
  BY <1>9 DEF OpenFail, ReadFail
(* The file in hand is whole, and what went before it has been read.       *)
<1>10. ASSUME Own, queue # <<>>, ~aborted
       PROVE  /\ Current \in Nat \ {0} /\ PerFile \in Nat \ {0}
              /\ File.first = (Current - 1) * PerFile + 1
              /\ File.last = Smaller(Current * PerFile, total)
              /\ Smaller((Current - 1) * PerFile, total) = (Current - 1) * PerFile
              /\ (Current - 1) * PerFile \in Nat
              /\ File.last \in Int /\ File.first \in Int
  <2>1. Current \in 1 .. FilesInDetector - 1 /\ OwnFile(Current, File)
    BY <1>10, HeadFile
  <2>2. /\ PerFile \in Nat \ {0} /\ FilesInDetector \in Nat /\ total \in Nat
        /\ \A n \in Nat : 0 < n /\ n < FilesInDetector
              => (n - 1) * PerFile < total
    BY <1>10, FilesFacts DEF Own, TypeInv
  <2>3. Current \in Nat \ {0} /\ Current < FilesInDetector
    <3> DEFINE h == Current
    <3>1. h \in 1 .. FilesInDetector - 1
      BY <2>1
    <3> HIDE DEF h
    <3>2. h \in Nat \ {0} /\ h < FilesInDetector
      BY <2>2, <3>1
    <3> QED
      BY <3>2 DEF h
  <2>4. (Current - 1) * PerFile < total
    BY <2>2, <2>3
  <2>5. (Current - 1) * PerFile \in Nat
    <3>1. \A a \in Nat \ {0}, p \in Nat : (a - 1) * p \in Nat
      <4>1. \A a \in Nat, p \in Nat : a * p \in Nat
        OBVIOUS
      <4>2. \A a \in Nat \ {0} : a - 1 \in Nat
        OBVIOUS
      <4> QED
        BY <4>1, <4>2
    <3> QED
      BY <2>2, <2>3, <3>1
  <2>6. Smaller((Current - 1) * PerFile, total) = (Current - 1) * PerFile
    BY <2>4 DEF Smaller
  <2> QED
    BY <1>10, <2>1, <2>2, <2>3, <2>5, <2>6, FileFacts DEF OwnFile
<1>11. CASE Open
  <2>1. /\ UNCHANGED <<model, series, set, total, shown, queue, i, aborted,
                       skipped>>
        /\ queue # <<>> /\ parse = "idle" /\ parse' = "images"
        /\ image' = File.first
        /\ j' = j /\ j = 1
    BY <1>11 DEF Open, File, TypeInv
  <2>2. Own /\ ~aborted /\ ~skipped
    BY <2>1 DEF Own
  <2>3. Len(shown) = Read(Current - 1)
    BY <1>10, <2>1, <2>2 DEF WholeInv
  <2>4. Len(shown) = ((Current - 1) * PerFile) * W
    BY <1>10, <2>1, <2>2, <2>3 DEF Read
  <2>5. image' - 1 = (Current - 1) * PerFile
    <3> DEFINE a == (Current - 1) * PerFile
    <3>1. a \in Nat /\ image' = a + 1
      BY <1>10, <2>1, <2>2
    <3> HIDE DEF a
    <3>2. image' - 1 = a
      BY <3>1
    <3> QED
      BY <3>2 DEF a
  <2>6. Len(shown) = (image' - 1) * W + j' - 1
    <3>1. (image' - 1) * W \in Int
      BY <1>3, <2>4, <2>5
    <3> QED
      BY <2>1, <2>4, <2>5, <3>1
  <2> QED
    BY <1>2, <2>1, <2>2, <2>6 DEF WholeInv
<1>12. CASE LastImage
  <2>1. /\ UNCHANGED <<model, series, set, total, shown, queue, i, aborted,
                       skipped>>
        /\ queue # <<>> /\ parse = "images" /\ parse' = "close"
        /\ image > File.last
    BY <1>12 DEF LastImage, TypeInv
  <2>2. Own /\ ~aborted /\ ~skipped /\ Current' = Current
    BY <2>1 DEF Own, Current
  <2>3. image = File.last + 1 /\ j = 1
    BY <1>3, <1>10, <2>1, <2>2 DEF PlaceInv
  <2>4. Len(shown) = (image - 1) * W + j - 1
    BY <2>1, <2>2 DEF WholeInv
  <2>5. image - 1 = File.last
    BY <1>10, <2>1, <2>2, <2>3
  <2>6. Len(shown) = File.last * W
    <3>1. File.last * W \in Int
      BY <1>3, <1>10, <2>1, <2>2
    <3> QED
      BY <2>3, <2>4, <2>5, <3>1
  <2>7. Len(shown) = Read(Current)
    BY <1>10, <2>1, <2>2, <2>6 DEF Read
  <2>8. Read(Current)' = Read(Current)
    BY <1>2, <2>1, <2>2 DEF Read
  <2> QED
    BY <1>2, <2>1, <2>2, <2>7, <2>8 DEF WholeInv
<1>13. CASE Close
  <2>1. /\ UNCHANGED <<model, series, set, total, shown, i, aborted, skipped>>
        /\ queue # <<>> /\ parse = "close" /\ parse' = "idle"
        /\ queue' = Tail(queue)
    BY <1>13 DEF Close, TypeInv
  <2>2. Own /\ ~aborted /\ ~skipped
    BY <2>1 DEF Own
  <2>3. Len(queue') = Len(queue) - 1
    BY <2>1 DEF TypeInv
  <2>4. Current' = Current + 1 /\ Current' # 0 /\ Current' - 1 = Current
    <3>1. Current \in Nat
      BY <1>10, <2>1, <2>2
    <3> DEFINE n == Len(queue)
    <3>2. n \in Nat /\ Len(queue') = n - 1 /\ i \in Nat /\ i' = i /\ i - n \in Nat
      BY <1>3, <2>1, <2>3, <3>1 DEF Current
    <3> HIDE DEF n
    <3>3. i' - Len(queue') = (i - n) + 1 /\ i' - Len(queue') # 0
          /\ i' - Len(queue') - 1 = i - n
      BY <3>2
    <3> QED
      BY <3>3 DEF Current, n
  <2>5. Len(shown) = Read(Current)
    BY <2>1, <2>2 DEF WholeInv
  <2>6. Read(Current - 1)' = Read(Current)
    <3>1. (Current - 1)' = Current
      BY <2>4
    <3> QED
      BY <1>2, <2>1, <3>1 DEF Read
  <2> QED
    BY <1>2, <2>1, <2>2, <2>4, <2>5, <2>6 DEF WholeInv
<1>14. CASE ReadImage
  <2>1. /\ UNCHANGED <<model, series, set, total, queue, i, aborted, skipped>>
        /\ shown' = Append(shown, Entry) /\ queue # <<>>
        /\ parse = "images" /\ parse' = "images"
        /\ IF j < Len(File.thresholds) THEN j' = j + 1 /\ image' = image
                                       ELSE j' = 1 /\ image' = image + 1
    BY <1>14 DEF ReadImage, TypeInv
  <2>2. Own /\ ~aborted /\ ~skipped
    BY <2>1 DEF Own
  <2>3. /\ j \in 1 .. W /\ File.thresholds = InDetector(set)
        /\ Entry.image = image /\ Entry.threshold = InDetector(set)[j]
    BY <2>1, <2>2, OwnEntry
  <2>4. image - 1 \in Nat
    BY <1>3, <1>10, <2>1, <2>2 DEF PlaceInv
  <2> DEFINE a == image - 1
             k == Len(shown) + 1
  <2>5. Len(shown) = a * W + j - 1 /\ Len(shown) \in Nat
    BY <1>3, <2>1, <2>2 DEF WholeInv
  <2>6. /\ Len(shown') = k /\ DOMAIN shown' = 1 .. k
        /\ DOMAIN shown = 1 .. Len(shown)
        /\ \A m \in 1 .. Len(shown) : shown'[m] = shown[m]
    BY <2>1 DEF TypeInv
  <2>7. shown'[k] = Entry
    BY <2>1 DEF TypeInv
  <2>8. k - 1 = a * W + (j - 1) /\ j - 1 \in 0 .. W - 1 /\ a * W \in Nat
    <3>1. a \in Nat /\ W \in Nat /\ j \in 1 .. W /\ Len(shown) = a * W + j - 1
      BY <1>3, <2>3, <2>4, <2>5
    <3> HIDE DEF a, W
    <3>2. a * W \in Nat
      BY <3>1
    <3> QED
      BY <3>1, <3>2
  <2>9. (k - 1) \div W = a /\ (k - 1) % W = j - 1
    <3>1. (a * W + (j - 1)) \div W = a /\ (a * W + (j - 1)) % W = j - 1
      BY <1>3, <2>4, <2>8, DivMod
    <3> QED
      BY <2>8, <3>1
  <2>10. Taken(k).image = image /\ Taken(k).threshold = InDetector(set)[j]
    <3>1. a + 1 = image /\ (j - 1) + 1 = j
      BY <1>3
    <3>2. Taken(k) = [image |-> (k - 1) \div W + 1,
                      threshold |-> InDetector(set)[((k - 1) % W) + 1]]
      BY DEF Taken
    <3> HIDE DEF a, W, k
    <3> QED
      BY <2>9, <3>1, <3>2
  <2>11. \A m \in DOMAIN shown' : /\ shown'[m].image = Taken(m)'.image
                                  /\ shown'[m].threshold = Taken(m)'.threshold
    <3>1. ASSUME NEW m \in DOMAIN shown'
          PROVE  /\ shown'[m].image = Taken(m).image
                 /\ shown'[m].threshold = Taken(m).threshold
      <4>1. CASE m = k
        BY <2>3, <2>7, <2>10, <4>1
      <4>2. CASE m # k
        <5>1. m \in DOMAIN shown /\ shown'[m] = shown[m]
          BY <2>5, <2>6, <4>2
        <5> QED
          BY <2>2, <5>1 DEF WholeInv
      <4> QED
        BY <4>1, <4>2
    <3> QED
      BY <1>2, <2>1, <3>1
  <2>12. Len(shown') = (image' - 1) * W + j' - 1
    <3>1. /\ a \in Nat /\ W \in 1 .. 4 /\ j \in 1 .. W /\ Len(shown') = a * W + j
          /\ image \in Int /\ image = a + 1
      <4>1. Len(shown') = a * W + j
        <5> DEFINE n == Len(shown)
                   b == a * W
        <5>1. n = b + j - 1 /\ Len(shown') = n + 1 /\ b \in Nat /\ n \in Nat
          BY <2>5, <2>6, <2>8
        <5> HIDE DEF n, b
        <5>2. Len(shown') = b + j
          BY <1>3, <5>1
        <5> QED
          BY <5>2 DEF b
      <4> QED
        BY <1>3, <2>3, <2>4, <4>1
    <3>2. IF j < W THEN j' = j + 1 /\ image' = image
               ELSE j' = 1 /\ image' = image + 1
      BY <2>1, <2>3
    <3> HIDE DEF a, W
    <3>3. CASE j < W
      <4>1. image' - 1 = a /\ a * W \in Nat
        BY <3>1, <3>2, <3>3
      <4> QED
        BY <3>1, <3>2, <3>3, <4>1
    <3>4. CASE ~(j < W)
      <4>1. image' - 1 = a + 1 /\ j = W /\ j' = 1
        BY <3>1, <3>2, <3>4
      <4>2. (a + 1) * W = a * W + W /\ a * W \in Nat
        BY <3>1
      <4> QED
        BY <3>1, <4>1, <4>2
    <3> QED
      BY <3>3, <3>4
  <2> QED
    BY <1>2, <2>1, <2>11, <2>12 DEF WholeInv
<1> QED
  BY <1>1, <1>5, <1>6, <1>7, <1>8, <1>9, <1>11, <1>12, <1>13, <1>14 DEF Next

-----------------------------------------------------------------------------
(* All of it. *)
ShownInv ==
    /\ TypeInv /\ AcqInv /\ CountInv /\ DiskInv /\ QueueInv /\ PlaceInv
    /\ LabelInv /\ OrderInv /\ WholeInv

(* Nothing is shown at first. *)
LEMMA ShownInit == Init => ShownInv
<1> SUFFICES ASSUME Init PROVE ShownInv
  OBVIOUS
<1>1. TypeInv
  BY TypeInit
<1>2. /\ series = 0 /\ shown = <<>> /\ queue = <<>> /\ parse = "idle"
      /\ polling = "idle"
      /\ aborted = FALSE /\ complete = FALSE /\ num = 0 /\ nd = 0 /\ disk = <<>>
      /\ armed = 0 /\ energies = 0
  BY DEF Init
<1>3. AcqInv /\ CountInv
  BY <1>2 DEF AcqInv, CountInv
<1>4. ~Own /\ DOMAIN disk = {}
  BY <1>2 DEF Own
<1>5. DiskInv /\ QueueInv /\ PlaceInv /\ LabelInv /\ OrderInv /\ WholeInv
  BY <1>2, <1>4 DEF DiskInv, QueueInv, PlaceInv, LabelInv, OrderInv, WholeInv
<1> QED
  BY <1>1, <1>3, <1>5 DEF ShownInv

(* It holds in every behaviour; the theorems below are its readable part. *)
LEMMA ShownInvariant == Spec => []ShownInv
<1>1. ShownInv /\ [Next]_vars => ShownInv'
  <2> SUFFICES ASSUME ShownInv, [Next]_vars PROVE ShownInv'
    OBVIOUS
  <2> USE DEF ShownInv
  <2>1. TypeInv' /\ AcqInv' /\ CountInv' /\ DiskInv' /\ QueueInv'
    BY TypeStep, AcqStep, CountStep, DiskStep, QueueStep
  <2>2. PlaceInv' /\ LabelInv' /\ OrderInv' /\ WholeInv'
    BY PlaceStep, LabelStep, OrderStep, WholeStep
  <2> QED
    BY <2>1, <2>2
<1> QED
  BY ShownInit, <1>1, PTL DEF Spec

(* parseH5File counts on its own copies of NDArrayCounter and of           *)
(* ADNumImagesCounter, which it writes back with every image: nothing is   *)
(* lost by that, and no two images get the same uniqueId, unless the       *)
(* client writes the counter meanwhile.                                    *)
THEOREM ImagesAreCounted == Spec => []CountersAgree
<1>1. ShownInv => CountersAgree
  BY DEF ShownInv, CountInv, CountersAgree
<1> QED
  BY <1>1, ShownInvariant, PTL

(* The threshold attributes follow from the enables as parseH5File finds   *)
(* them when it opens the file, whatever the detector was armed with: for  *)
(* thresholds 1 and 2 they are right as long as these enables are those of *)
(* the detector, and they and the energies differ from the detector's only *)
(* if the client has written them since it was armed.                      *)
THEOREM LabelsAreTrue == Spec => []LabelsTrue
<1>1. ShownInv => LabelsTrue
  <2> SUFFICES ASSUME ShownInv, NEW k \in DOMAIN shown, set.hasId,
                      shown[k].threshold \in {1, 2}
               PROVE  /\ \/ shown[k].label = shown[k].threshold
                         \/ shown[k].enables \cap {1, 2} # set.enabled \cap {1, 2}
                      /\ shown[k].enables # set.enabled => switched
                      /\ shown[k].energies # shown[k].armed => energies # armed
    BY DEF LabelsTrue
  <2>1. Own
    <3>1. series # 0
      BY DEF ShownInv, AcqInv
    <3> QED
      BY <3>1 DEF Own, ShownInv, TypeInv
  <2>2. /\ shown[k].armed = armed /\ shown[k].energies \in armed .. energies
        /\ \/ shown[k].label = shown[k].threshold
           \/ shown[k].enables \cap {1, 2} # set.enabled \cap {1, 2}
        /\ shown[k].enables # set.enabled => switched
    BY <2>1 DEF ShownInv, LabelInv
  <2>3. armed \in Nat /\ energies \in Nat
    BY DEF ShownInv, TypeInv
  <2> QED
    BY <2>2, <2>3
<1> QED
  BY <1>1, ShownInvariant, PTL

(* The names with the $id keep the acquisitions apart, and the number of   *)
(* files that controlTask computes is that of the detector: the plugins    *)
(* are shown the images of this acquisition in order, and all of them if   *)
(* pollTask reports it complete and nothing failed or was stopped.         *)
THEOREM ImagesAreComplete == Spec => []ImagesAreOwn
<1>1. ShownInv => ImagesAreOwn
  <2> SUFFICES ASSUME ShownInv, Own PROVE ImagesAreOwn
    BY DEF ImagesAreOwn, Own
  <2> USE DEF ShownInv
  <2>1. /\ \A k \in DOMAIN shown : shown[k].series = series
        /\ \A k \in 2 .. Len(shown) : Earlier(shown[k - 1], shown[k])
    BY DEF OrderInv
  <2>2. ASSUME complete, ~skipped, ~aborted, Defined(set)
        PROVE  /\ Len(shown) = total * Len(InDetector(set))
               /\ \A k \in DOMAIN shown : /\ shown[k].image = Taken(k).image
                                          /\ shown[k].threshold =
                                                Taken(k).threshold
    <3>1. polling = "idle" /\ queue = <<>> /\ parse = "idle"
          /\ i = acq.nDataFiles + 1
      BY <2>2 DEF AcqInv
    <3>2. set.imagesPerFile > 0 /\ PerFile = set.imagesPerFile
      BY <2>2, SetFacts DEF Defined, PerFile
    <3>3. acq.nDataFiles = RoundedUp(total, PerFile)
          /\ FilesInDetector = 1 + acq.nDataFiles
      BY <2>2, <3>2 DEF AcqInv, Own, FilesInDetector, TypeInv
    <3>4. /\ PerFile \in Nat \ {0} /\ total \in Nat \ {0}
          /\ FilesInDetector \in Nat \ {0, 1}
          /\ (FilesInDetector - 1) * PerFile >= total
      BY FilesFacts DEF Own
    <3>5. Current = FilesInDetector
      <4>1. Len(queue) = 0 /\ i = FilesInDetector
        <5>1. acq.nDataFiles \in Nat
          BY <3>3, <3>4, RoundedUpBounds
        <5> QED
          BY <3>1, <3>3, <5>1
      <4> QED
        BY <3>4, <4>1 DEF Current
    <3>6. Smaller((FilesInDetector - 1) * PerFile, total) = total
      <4> DEFINE b == (FilesInDetector - 1) * PerFile
      <4>1. b >= total /\ b \in Int
        BY <3>4
      <4> HIDE DEF b
      <4>2. Smaller(b, total) = total
        BY <3>4, <4>1 DEF Smaller
      <4> QED
        BY <4>2 DEF b
    <3>7. Len(shown) = Read(Current - 1)
      BY <2>2, <3>1, <3>4, <3>5 DEF WholeInv
    <3>8. Len(shown) = total * Len(InDetector(set))
      BY <3>5, <3>6, <3>7 DEF Read
    <3> QED
      BY <2>2, <3>8 DEF WholeInv
  <2> QED
    BY <2>1, <2>2 DEF ImagesAreOwn
<1> QED
  BY <1>1, ShownInvariant, PTL
=============================================================================
