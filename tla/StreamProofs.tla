---------------------------- MODULE StreamProofs ----------------------------
(***************************************************************************)
(* Proofs about the two modules of the stream interface.                   *)
(*                                                                         *)
(* StreamTask, for every number of series, images, thresholds and          *)
(* malformed messages: of each version the arrays are published in order   *)
(* (OrderInv), and an acquisition in which nothing was malformed is        *)
(* published completely and leaves nothing behind (CleanInv).              *)
(*                                                                         *)
(* Stream2, for all messages: what a failing decoder allocated is freed,   *)
(* a frame carries its own labels and time, and only a failure to allocate *)
(* memory or a fault of a message ends the process (Stream2Inv).           *)
(*                                                                         *)
(* Every name that both could have is used by one of them only; the two    *)
(* parts share nothing but the lemmas of the library.                      *)
(***************************************************************************)
EXTENDS StreamTask, Stream2,
        SequenceTheorems, FiniteSetTheorems, WellFoundedInduction, TLAPS

(***************************************************************************)
(* StreamTask                                                              *)
(***************************************************************************)

Kinds == {"header", "image", "end", "detail", "shape", "data", "time"}
Part == [kind : Kinds, series : Nat, num : Nat, ok : BOOLEAN]
ArrayType == [series : Nat, image : Nat, thresh : Nat]

TypeInv ==
    /\ streamVersion \in Versions /\ version \in Versions
    /\ socket \in [Versions -> Seq(Part)]
    /\ series \in Nat /\ taken \in Nat /\ detector \in {"idle", "armed"}
    /\ sent \subseteq 1 .. taken
    /\ ctlPc \in {"idle", "armed", "acquire", "join"}
    /\ streamPc \in {"wait", "header", "frame", "array", "end", "crashed"}
    /\ image \in [series : Nat, num : Nat] /\ thresh \in Nat
    /\ newest \in [Versions -> ArrayType] /\ last \in ArrayType
    /\ numImagesCounter \in Nat

(* controlTask hands an acquisition to streamTask, and waits for its event. *)
Working == streamPc # "wait"
Handshake ==
    /\ ctlPc \in {"idle", "armed"} => ~mStreamEvent /\ ~Working /\ ~mStreamDoneEvent
    /\ ctlPc \in {"acquire", "join"} =>
         \/ mStreamEvent /\ ~Working /\ ~mStreamDoneEvent
         \/ ~mStreamEvent /\ Working /\ ~mStreamDoneEvent /\ version = streamVersion
         \/ ~mStreamEvent /\ ~Working /\ mStreamDoneEvent /\ version = streamVersion
    /\ ctlPc \in {"idle", "join"} => detector = "idle"
    /\ streamPc = "crashed" => misled

(* Images are taken in order: of two, the one of the earlier series, or of *)
(* the same with the lower number, is first.                               *)
Earlier(s, m, t, n) == s < t \/ (s = t /\ m < n)
IsImage(part) == part.kind = "image"

\* The images of a queue are in order; before image n of series s; after it.
Ordered(q) ==
    \A k \in DOMAIN q : \A j \in 1 .. k - 1 :
        IsImage(q[j]) /\ IsImage(q[k]) =>
            Earlier(q[j].series, q[j].num, q[k].series, q[k].num)
Until(q, s, n) ==
    \A k \in DOMAIN q : IsImage(q[k]) => Earlier(q[k].series, q[k].num, s, n)
After(q, s, n) ==
    \A k \in DOMAIN q : IsImage(q[k]) => Earlier(s, n, q[k].series, q[k].num)

(* In a socket the images are in order, before the next one the detector   *)
(* takes and after the last one published from it; so is the one in hand.  *)
SocketOrder ==
    \A v \in Versions :
        /\ Ordered(socket[v])
        /\ Until(socket[v], series, taken + 1)
        /\ ~misled => After(socket[v], newest[v].series, newest[v].image)
NewestTaken ==
    ~misled => \A v \in Versions :
                  Earlier(newest[v].series, newest[v].image, series, taken + 1)
HandOrder ==
    streamPc = "array" =>
        /\ Earlier(image.series, image.num, series, taken + 1)
        /\ After(Received, image.series, image.num)
        /\ ~misled =>
              IF thresh = 0
              THEN Earlier(newest[version].series, newest[version].image,
                           image.series, image.num)
              ELSE newest[version] = [series |-> image.series, image |-> image.num,
                                      thresh |-> thresh - 1]
OrderInv == SocketOrder /\ NewestTaken /\ HandOrder

(* What is left of well-formed messages: after the first b parts, images   *)
(* of n parts each and perhaps the end message.                            *)
Begins(part) == part.kind \in {"image", "end"}
Leads(q, b) ==
    /\ b <= Len(q)
    /\ \A k \in 1 .. b : ~Begins(q[k])
    /\ b < Len(q) => Begins(q[b + 1])
Whole(q, n) ==
    \A k \in 1 .. Len(q) :
        q[k].kind = "image" =>
            /\ k + n <= Len(q) + 1
            /\ \A i \in k + 1 .. k + n - 1 : ~Begins(q[i])
            /\ k + n <= Len(q) => Begins(q[k + n])
EndsLast(q) == \A k \in 1 .. Len(q) : q[k].kind = "end" => k = Len(q)
Frames(q, b, n) == Leads(q, b) /\ Whole(q, n) /\ EndsLast(q)

ImagesIn(q) == {q[k].num : k \in {k \in DOMAIN q : IsImage(q[k])}}
Ended(q) == \E k \in DOMAIN q : q[k].kind = "end"
Sound(q) == \A k \in DOMAIN q : q[k].ok /\ q[k].series = series

Queue == socket[streamVersion]
PartsOfHeader(q) == IF streamVersion = 1 THEN 1 + q[1].num ELSE 1
PartsOfImage == IF streamVersion = 1 THEN 4 ELSE 1

Unread == ctlPc = "armed" \/ mStreamEvent \/ streamPc = "header"
Finished == streamPc = "end" \/ mStreamDoneEvent
InHand == IF streamPc = "array" THEN {image.num} ELSE {}

(* While nothing is malformed: the socket of the version has what is left  *)
(* of this series' messages, and what is not there was published.          *)
CleanSockets ==
    /\ \A v \in Versions : v # streamVersion \/ ctlPc = "idle" => socket[v] = <<>>
    /\ ctlPc # "idle" => Sound(Queue) /\ ImagesIn(Queue) \subseteq sent
CleanUnread ==
    ctlPc # "idle" /\ Unread =>
        /\ Queue # <<>> /\ Queue[1].kind = "header"
        /\ Frames(Queue, PartsOfHeader(Queue), PartsOfImage)
        /\ ImagesIn(Queue) = sent
CleanFrames ==
    /\ streamPc = "frame" => Frames(Queue, 0, PartsOfImage)
    /\ streamPc = "array" => /\ Frames(Queue, PartsOfImage - 1, PartsOfImage)
                             /\ image.series = series
                             /\ image.num \in sent \ ImagesIn(Queue)
                             /\ thresh < NumThresholds
CleanEnd ==
    ctlPc # "idle" =>
        IF Finished THEN Queue = <<>> /\ mStreamComplete /\ detector = "idle"
                    ELSE detector = "idle" <=> Ended(Queue)
CleanPublished ==
    ctlPc \in {"acquire", "join"} =>
        published =
            [series : {series}, image : sent \ (ImagesIn(Queue) \cup InHand),
             thresh : 0 .. NumThresholds - 1]
            \cup [series : {series}, image : InHand, thresh : 0 .. thresh - 1]
Clean == CleanSockets /\ CleanUnread /\ CleanFrames /\ CleanEnd /\ CleanPublished
CleanInv == flawed = {} /\ ~misled => Clean

StreamInv == TypeInv /\ Handshake /\ OrderInv /\ CleanInv
-----------------------------------------------------------------------------
(* What is left of a queue of which the first parts were read.             *)
LEMMA DropFacts ==
    ASSUME NEW q \in Seq(Part), NEW n \in Nat
    PROVE  LET p == SubSeq(q, n + 1, Len(q))
           IN /\ p \in Seq(Part) /\ DOMAIN p = 1 .. Len(p) /\ Len(p) \in Nat
              /\ n <= Len(q) => Len(p) = Len(q) - n
              /\ n > Len(q) => Len(p) = 0
              /\ \A k \in 1 .. Len(p) :
                    p[k] = q[k + n] /\ k + n \in DOMAIN q /\ q[k + n] \in Part
<1> DEFINE p == SubSeq(q, n + 1, Len(q))
<1>1. Len(q) \in Nat /\ DOMAIN q = 1 .. Len(q)
  OBVIOUS
<1>2. /\ Len(p) = IF n + 1 <= Len(q) THEN Len(q) - n ELSE 0
      /\ \A k \in 1 .. Len(p) : p[k] = q[k + n]
  BY <1>1
<1>3. p \in Seq(Part) /\ DOMAIN p = 1 .. Len(p)
  <2>1. /\ n + 1 \in Int /\ Len(q) \in Int
        /\ \A i \in n + 1 .. Len(q) : q[i] \in Part
    BY <1>1
  <2>2. p \in Seq(Part)
    BY <2>1, SubSeqProperties
  <2> HIDE DEF p
  <2> QED BY <2>2
<1> DEFINE a == Len(q)
           b == Len(p)
<1>4. a \in Nat /\ b = IF n + 1 <= a THEN a - n ELSE 0
  BY <1>1, <1>2
<1>5. b \in Nat /\ (n <= a => b = a - n) /\ (n > a => b = 0)
      /\ \A k \in 1 .. b : k + n \in 1 .. a
  <2> HIDE DEF a, b
  <2> QED BY <1>4
<1>6. \A k \in DOMAIN q : q[k] \in Part
  BY <1>1
<1> HIDE DEF p
<1> QED BY <1>1, <1>2, <1>3, <1>5, <1>6 DEF a, b, p

(* A message at the end of a queue.                                        *)
LEMMA ConcatFacts ==
    ASSUME NEW q \in Seq(Part), NEW m \in Seq(Part)
    PROVE  /\ q \o m \in Seq(Part) /\ Len(q \o m) = Len(q) + Len(m)
           /\ DOMAIN (q \o m) = 1 .. Len(q) + Len(m)
           /\ Len(q) \in Nat /\ Len(m) \in Nat
           /\ DOMAIN q = 1 .. Len(q) /\ DOMAIN m = 1 .. Len(m)
           /\ \A k \in 1 .. Len(q) : (q \o m)[k] = q[k]
           /\ \A k \in 1 .. Len(m) : (q \o m)[Len(q) + k] = m[k]
OBVIOUS

(* A message begins with a part of its kind; its other parts are none that *)
(* a message begins with.  What is not malformed can be read, and has its  *)
(* number of parts.                                                        *)
IsMessage(m, kind, s, n, flaw) ==
    /\ m \in Seq(Part) /\ Len(m) \in Nat \ {0} /\ DOMAIN m = 1 .. Len(m)
    /\ m[1].kind = kind /\ m[1].series = s /\ m[1].num = n
    /\ \A k \in 2 .. Len(m) : m[k].kind \in {"detail", "shape", "data", "time"}
    /\ flaw = "none" =>
          /\ \A k \in 1 .. Len(m) : m[k].ok /\ m[k].series = s
          /\ kind = "header" => Len(m) = PartsOfHeader(m)
          /\ kind = "image" => Len(m) = PartsOfImage
          /\ kind = "end" => Len(m) = 1

(* The detector's messages are so.                                         *)
LEMMA MessageFacts ==
    ASSUME NEW kind \in {"header", "image", "end"}, NEW s \in Nat, NEW n \in Nat,
           NEW flaw \in {"none"} \cup AllFlaws, TypeInv
    PROVE  IsMessage(Message(kind, s, n, flaw), kind, s, n, flaw)
<1> DEFINE l == IF streamVersion = 1 THEN LaterParts(kind, s, n, flaw) ELSE <<>>
           f == FirstPart(kind, s, n, flaw)
           m == Message(kind, s, n, flaw)
           later == {"detail", "shape", "data", "time"}
<1>1. f \in Part /\ f.kind = kind /\ f.series = s /\ f.num = n
      /\ (flaw = "none" => f.ok)
  BY DEF FirstPart, Part, Kinds
<1>2. /\ l \in Seq(Part)
      /\ \A k \in 1 .. Len(l) : l[k].kind \in later
      /\ flaw = "none" => \A k \in 1 .. Len(l) : l[k].ok /\ l[k].series = s
      /\ flaw = "none" =>
            Len(l) = IF streamVersion # 1 \/ kind = "end" THEN 0
                     ELSE IF kind = "header" THEN n ELSE 3
  <2>1. CASE streamVersion = 1 /\ kind = "header"
    <3> DEFINE c == IF flaw = "extra" THEN n + 1 ELSE n
               d == [kind |-> "detail", series |-> s, num |-> 0, ok |-> TRUE]
    <3>1. l = [k \in 1 .. c |-> d]
      BY <2>1 DEF LaterParts
    <3>2. c \in Nat /\ d \in Part /\ (flaw = "none" => c = n)
          /\ d.kind \in later /\ d.ok /\ d.series = s
      BY DEF Part, Kinds
    <3> HIDE DEF c, d, l
    <3>3. l \in Seq(Part) /\ Len(l) = c /\ \A k \in 1 .. c : l[k] = d
      BY <3>1, <3>2
    <3> QED BY <2>1, <3>2, <3>3
  <2>2. CASE streamVersion = 1 /\ kind = "image"
    <3> DEFINE a == [kind |-> "shape", series |-> s, num |-> n, ok |-> flaw # "shape"]
               b == [kind |-> "data", series |-> s, num |-> n, ok |-> TRUE]
               c == [kind |-> "time", series |-> s, num |-> n, ok |-> TRUE]
               d == [kind |-> "detail", series |-> s, num |-> 0, ok |-> TRUE]
    <3>1. l = <<a, b, c>> \o (IF flaw = "extra" THEN <<d>> ELSE <<>>)
      BY <2>2 DEF LaterParts
    <3>2. /\ a \in Part /\ b \in Part /\ c \in Part /\ d \in Part
          /\ a.kind \in later /\ b.kind \in later /\ c.kind \in later /\ d.kind \in later
          /\ a.series = s /\ b.series = s /\ c.series = s /\ b.ok /\ c.ok
          /\ flaw = "none" => a.ok
      BY DEF Part, Kinds
    <3> HIDE DEF a, b, c, d, l
    <3>3. CASE flaw = "extra"
      <4> DEFINE t == <<a, b, c>>
                 u == <<d>>
      <4>1. /\ l = t \o u /\ t \in Seq(Part) /\ u \in Seq(Part)
            /\ Len(t) = 3 /\ Len(u) = 1
            /\ \A k \in 1 .. 3 : t[k].kind \in later
            /\ \A k \in 1 .. 1 : u[k].kind \in later
        BY <3>1, <3>2, <3>3
      <4> HIDE DEF t, u
      <4>2. /\ l \in Seq(Part) /\ Len(l) = 4
            /\ \A k \in 1 .. 3 : l[k] = t[k]
            /\ \A k \in 1 .. 1 : l[3 + k] = u[k]
        <5>1. /\ t \o u \in Seq(Part) /\ Len(t \o u) = Len(t) + Len(u)
              /\ \A k \in 1 .. Len(t) : (t \o u)[k] = t[k]
              /\ \A k \in 1 .. Len(u) : (t \o u)[Len(t) + k] = u[k]
          BY <4>1, ConcatFacts
        <5> QED BY <4>1, <5>1
      <4>3. \A k \in 1 .. 4 : k \in 1 .. 3 \/ (k = 3 + 1 /\ 1 \in 1 .. 1)
        OBVIOUS
      <4>4. \A k \in 1 .. 4 : l[k].kind \in later
        BY <4>1, <4>2, <4>3
      <4> QED BY <2>2, <3>3, <4>2, <4>4
    <3>4. CASE flaw # "extra"
      <4>1. l = <<a, b, c>>
        BY <3>1, <3>4
      <4> QED BY <2>2, <3>2, <4>1
    <3> QED BY <3>3, <3>4
  <2>3. CASE streamVersion # 1 \/ kind = "end"
    <3>1. l = <<>>
      BY <2>3 DEF LaterParts
    <3> HIDE DEF l
    <3> QED BY <2>3, <3>1
  <2> QED BY <2>1, <2>2, <2>3
<1>3. m = <<f>> \o l
  BY DEF Message
<1> HIDE DEF f, l, m
<1>4. /\ m \in Seq(Part) /\ Len(m) = 1 + Len(l) /\ Len(l) \in Nat
      /\ DOMAIN m = 1 .. Len(m)
      /\ m[1] = f /\ \A k \in 1 .. Len(l) : m[1 + k] = l[k]
  BY <1>1, <1>2, <1>3
<1>5. \A k \in 2 .. Len(m) : m[k] = l[k - 1] /\ k - 1 \in 1 .. Len(l)
  <2> SUFFICES ASSUME NEW k \in 2 .. Len(m)
               PROVE  m[k] = l[k - 1] /\ k - 1 \in 1 .. Len(l)
    OBVIOUS
  <2>1. k - 1 \in 1 .. Len(l) /\ 1 + (k - 1) = k
    BY <1>4
  <2> QED BY <1>4, <2>1
<1>6. \A k \in 2 .. Len(m) : m[k].kind \in later
  BY <1>2, <1>5
<1>7. ASSUME flaw = "none", NEW k \in 1 .. Len(m) PROVE m[k].ok /\ m[k].series = s
  <2>1. CASE k = 1
    BY <1>1, <1>4, <1>7, <2>1
  <2>2. CASE k # 1
    <3>1. k \in 2 .. Len(m)
      BY <1>4, <2>2
    <3> QED BY <1>2, <1>5, <1>7, <3>1
  <2> QED BY <2>1, <2>2
<1>8. ASSUME flaw = "none"
      PROVE  /\ kind = "header" => Len(m) = PartsOfHeader(m)
             /\ kind = "image" => Len(m) = PartsOfImage
             /\ kind = "end" => Len(m) = 1
  <2>1. Len(l) = IF streamVersion # 1 \/ kind = "end" THEN 0
                 ELSE IF kind = "header" THEN n ELSE 3
    BY <1>2, <1>8
  <2> QED BY <1>1, <1>4, <2>1 DEF PartsOfHeader, PartsOfImage
<1>9. Len(m) \in Nat \ {0}
  BY <1>4
<1> QED BY <1>1, <1>4, <1>6, <1>7, <1>8, <1>9 DEF IsMessage, m
-----------------------------------------------------------------------------
(* What is left of a queue is in order as it was.                          *)
LEMMA OrderDrop ==
    ASSUME NEW q \in Seq(Part), NEW d \in Nat, NEW s \in Nat, NEW n \in Nat
    PROVE  /\ Ordered(q) => Ordered(SubSeq(q, d + 1, Len(q)))
           /\ Until(q, s, n) => Until(SubSeq(q, d + 1, Len(q)), s, n)
           /\ After(q, s, n) => After(SubSeq(q, d + 1, Len(q)), s, n)
<1> DEFINE p == SubSeq(q, d + 1, Len(q))
<1>1. /\ DOMAIN p = 1 .. Len(p) /\ Len(p) \in Nat
      /\ \A k \in 1 .. Len(p) : p[k] = q[k + d] /\ k + d \in DOMAIN q
  BY DropFacts
<1> HIDE DEF p
<1>2. ASSUME Ordered(q) PROVE Ordered(p)
  <2> SUFFICES ASSUME NEW k \in DOMAIN p, NEW j \in 1 .. k - 1,
                      IsImage(p[j]), IsImage(p[k])
               PROVE  Earlier(p[j].series, p[j].num, p[k].series, p[k].num)
    BY DEF Ordered
  <2>1. j \in 1 .. Len(p) /\ k \in 1 .. Len(p) /\ j + d \in 1 .. (k + d) - 1
    BY <1>1
  <2>2. p[j] = q[j + d] /\ p[k] = q[k + d] /\ k + d \in DOMAIN q
    BY <1>1, <2>1
  <2> QED BY <1>2, <2>1, <2>2 DEF Ordered
<1>3. Until(q, s, n) => Until(p, s, n)
  BY <1>1 DEF Until
<1>4. After(q, s, n) => After(p, s, n)
  BY <1>1 DEF After
<1> QED BY <1>2, <1>3, <1>4 DEF p

(* The images after the first part, if that is one, are later.             *)
LEMMA OrderHead ==
    ASSUME NEW q \in Seq(Part), q # <<>>, Ordered(q), IsImage(q[1])
    PROVE  After(SubSeq(q, 1 + 1, Len(q)), q[1].series, q[1].num)
<1> DEFINE p == SubSeq(q, 1 + 1, Len(q))
<1>1. /\ DOMAIN p = 1 .. Len(p) /\ Len(p) \in Nat
      /\ \A k \in 1 .. Len(p) : p[k] = q[k + 1] /\ k + 1 \in DOMAIN q
  BY DropFacts
<1> HIDE DEF p
<1> SUFFICES ASSUME NEW k \in DOMAIN p, IsImage(p[k])
             PROVE  Earlier(q[1].series, q[1].num, p[k].series, p[k].num)
  BY DEF After, p
<1>2. 1 \in 1 .. (k + 1) - 1 /\ k + 1 \in DOMAIN q /\ p[k] = q[k + 1]
  BY <1>1
<1> QED BY <1>2 DEF Ordered

(* Where the detector is, later than before.                               *)
LEMMA LaterOn ==
    ASSUME NEW q \in Seq(Part), NEW s \in Nat, NEW n \in Nat, NEW t \in Nat, NEW m \in Nat,
           Earlier(s, n, t, m)
    PROVE  /\ Until(q, s, n) => Until(q, t, m)
           /\ \A a, b \in Nat : Earlier(a, b, s, n) => Earlier(a, b, t, m)
<1>1. \A a, b \in Nat : Earlier(a, b, s, n) => Earlier(a, b, t, m)
  BY DEF Earlier
<1>2. \A k \in DOMAIN q : q[k].series \in Nat /\ q[k].num \in Nat
  <2>1. \A k \in DOMAIN q : q[k] \in Part
    OBVIOUS
  <2> QED BY <2>1 DEF Part
<1> QED BY <1>1, <1>2 DEF Until

(* Only its first part can make a message an image.                        *)
LEMMA OrderAppend ==
    ASSUME NEW q \in Seq(Part), NEW m \in Seq(Part), Len(m) \in Nat \ {0},
           \A k \in 2 .. Len(m) : ~IsImage(m[k]), Ordered(q),
           NEW s \in Nat, NEW n \in Nat
    PROVE  /\ ~IsImage(m[1]) =>
                /\ Ordered(q \o m)
                /\ Until(q, s, n) => Until(q \o m, s, n)
                /\ After(q, s, n) => After(q \o m, s, n)
           /\ IsImage(m[1]) =>
                /\ Until(q, m[1].series, m[1].num) =>
                      /\ Ordered(q \o m)
                      /\ Until(q \o m, m[1].series, m[1].num + 1)
                /\ After(q, s, n) /\ Earlier(s, n, m[1].series, m[1].num) =>
                      After(q \o m, s, n)
<1> DEFINE p == q \o m
           a == Len(q)
           c == Len(m)
<1>1. /\ Len(p) = a + c /\ a \in Nat /\ c \in Nat \ {0}
      /\ DOMAIN p = 1 .. a + c /\ DOMAIN q = 1 .. a
      /\ \A k \in 1 .. a : p[k] = q[k]
      /\ \A k \in 1 .. c : p[a + k] = m[k]
  BY ConcatFacts
<1>2. \A k \in 2 .. c : ~IsImage(m[k])
  OBVIOUS
<1>3. /\ \A k \in 1 .. a : q[k].series \in Nat /\ q[k].num \in Nat
      /\ m[1].series \in Nat /\ m[1].num \in Nat
  <2>1. (\A k \in 1 .. a : q[k] \in Part) /\ m[1] \in Part
    OBVIOUS
  <2> HIDE DEF a
  <2> QED BY <2>1 DEF Part
<1> HIDE DEF p, a, c
<1>4. p[a + 1] = m[1] /\ a + 1 \in 1 .. a + c
  BY <1>1
<1>5. ASSUME NEW k \in 1 .. a + c, IsImage(p[k])
      PROVE  (k \in 1 .. a /\ p[k] = q[k]) \/ (k = a + 1 /\ p[k] = m[1] /\ IsImage(m[1]))
  <2>1. CASE k \in 1 .. a
    BY <1>1, <2>1
  <2>2. CASE k = a + 1
    BY <1>4, <1>5, <2>2
  <2>3. CASE k > a + 1
    <3>1. k - a \in 2 .. c /\ k - a \in 1 .. c /\ a + (k - a) = k
      BY <1>1, <2>3
    <3> QED BY <1>1, <1>2, <1>5, <3>1
  <2> QED BY <1>1, <2>1, <2>2, <2>3
<1>6. ASSUME IsImage(m[1]) => Until(q, m[1].series, m[1].num) PROVE Ordered(p)
  <2> SUFFICES ASSUME NEW k \in 1 .. a + c, NEW j \in 1 .. k - 1,
                      IsImage(p[j]), IsImage(p[k])
               PROVE  Earlier(p[j].series, p[j].num, p[k].series, p[k].num)
    BY <1>1 DEF Ordered
  <2>1. j \in 1 .. a + c /\ j < k
    BY <1>1
  <2>2. CASE k \in 1 .. a
    <3>1. j \in 1 .. a
      BY <1>1, <2>1, <2>2
    <3> QED BY <1>1, <2>2, <3>1 DEF Ordered
  <2>3. CASE k = a + 1 /\ p[k] = m[1] /\ IsImage(m[1])
    <3>1. j \in 1 .. a /\ p[j] = q[j]
      BY <1>1, <2>1, <2>3
    <3> QED BY <1>1, <1>6, <2>3, <3>1 DEF Until
  <2> QED BY <1>5, <2>2, <2>3
<1>7. ASSUME ~IsImage(m[1]), Until(q, s, n) PROVE Until(p, s, n)
  BY <1>1, <1>5, <1>7 DEF Until
<1>8. ASSUME After(q, s, n), IsImage(m[1]) => Earlier(s, n, m[1].series, m[1].num)
      PROVE  After(p, s, n)
  BY <1>1, <1>5, <1>8 DEF After
<1>9. ASSUME IsImage(m[1]), Until(q, m[1].series, m[1].num)
      PROVE  Until(p, m[1].series, m[1].num + 1)
  <2> SUFFICES ASSUME NEW k \in 1 .. a + c, IsImage(p[k])
               PROVE  Earlier(p[k].series, p[k].num, m[1].series, m[1].num + 1)
    BY <1>1 DEF Until
  <2>1. CASE k \in 1 .. a /\ p[k] = q[k]
    <3>1. Earlier(q[k].series, q[k].num, m[1].series, m[1].num)
      BY <1>1, <1>9, <2>1 DEF Until
    <3> QED BY <1>3, <2>1, <3>1 DEF Earlier
  <2>2. CASE p[k] = m[1]
    BY <1>3, <2>2 DEF Earlier
  <2> QED BY <1>5, <2>1, <2>2
<1> QED BY <1>6, <1>7, <1>8, <1>9 DEF p
-----------------------------------------------------------------------------
(* The first part of what was received has the type of a part.             *)
LEMMA ReceivedType ==
    ASSUME TypeInv
    PROVE  /\ Received \in Seq(Part)
           /\ Received # <<>> => Head(Received) = Received[1] /\ Received[1] \in Part
<1>1. Received \in Seq(Part)
  BY DEF TypeInv, Received
<1> QED BY <1>1

(* With another message the sockets are queues of parts.                   *)
LEMMA TransmitType ==
    ASSUME TypeInv, NEW kind \in {"header", "image", "end"}, NEW s \in Nat, NEW n \in Nat,
           Transmit(kind, s, n)
    PROVE  socket' \in [Versions -> Seq(Part)]
<1>1. PICK flaw \in {"none"} \cup AllFlaws :
         socket' = [socket EXCEPT ![streamVersion] = @ \o Message(kind, s, n, flaw)]
  BY ConstantsAssumption DEF Transmit
<1>2. Message(kind, s, n, flaw) \in Seq(Part)
  <2>1. IsMessage(Message(kind, s, n, flaw), kind, s, n, flaw)
    BY MessageFacts
  <2> QED BY <2>1 DEF IsMessage
<1>3. socket[streamVersion] \o Message(kind, s, n, flaw) \in Seq(Part)
  BY <1>2, ConcatFacts DEF TypeInv
<1> QED BY <1>1, <1>3 DEF TypeInv

(* So they are when parts were dropped.                                    *)
LEMMA DropType ==
    ASSUME TypeInv, NEW n \in Nat, DropParts(n)
    PROVE  socket' \in [Versions -> Seq(Part)]
<1>1. SubSeq(socket[version], n + 1, Len(socket[version])) \in Seq(Part)
  BY DropFacts DEF TypeInv
<1> QED BY <1>1 DEF TypeInv, DropParts

(* The number of details a readable header announces.                      *)
LEMMA SkippedNat ==
    ASSUME NEW p \in Part PROVE SkippedParts(p) \in Nat
BY DEF SkippedParts, Part

(* A step keeps the types.                                                 *)
LEMMA TypeStep == TypeInv /\ [Next]_vars => TypeInv'
<1> SUFFICES ASSUME TypeInv, [Next]_vars PROVE TypeInv'
  OBVIOUS
<1> USE DEF clientVars, detVars, eventVars, arrayVars, taskVars, socketVars, vars
<1>1. CASE Expose
  <2>1. socket' \in [Versions -> Seq(Part)]
    <3>1. series \in Nat /\ taken' \in Nat
      BY <1>1 DEF Expose, TypeInv
    <3> QED BY <1>1, <3>1, TransmitType DEF Expose, TypeInv
  <2>2. taken' \in Nat /\ sent' \subseteq 1 .. taken'
    <3>1. taken' = taken + 1 /\ taken \in Nat /\ sent \subseteq 1 .. taken
      BY <1>1 DEF Expose, TypeInv
    <3>2. 1 .. taken \subseteq 1 .. taken' /\ taken' \in 1 .. taken' /\ taken' \in Nat
      BY <3>1
    <3>3. sent' \subseteq sent \cup {taken'}
      BY <1>1 DEF Expose
    <3> QED BY <3>1, <3>2, <3>3
  <2> QED BY <1>1, <2>1, <2>2 DEF Expose, TypeInv
<1>2. CASE DetectorEnds
  <2>1. socket' \in [Versions -> Seq(Part)]
    BY <1>2, TransmitType DEF DetectorEnds, TypeInv
  <2> QED BY <1>2, <2>1 DEF DetectorEnds, TypeInv
<1>3. CASE WriteStream
  BY <1>3 DEF WriteStream, TypeInv
<1>4. CASE WriteOther
  BY <1>4 DEF WriteOther, TypeInv
<1>5. CASE CtlArm
  <2>1. PICK n \in HeaderDetails : Transmit("header", series', n)
    BY <1>5 DEF CtlArm
  <2>2. n \in Nat /\ series' \in Nat
    BY <1>5, ConstantsAssumption DEF CtlArm, TypeInv
  <2>3. socket' \in [Versions -> Seq(Part)]
    BY <2>1, <2>2, TransmitType
  <2> QED BY <1>5, <2>2, <2>3 DEF CtlArm, TypeInv
<1>6. CASE CtlStart
  BY <1>6 DEF CtlStart, TypeInv
<1>7. CASE CtlDisarm
  BY <1>7 DEF CtlDisarm, TypeInv
<1>8. CASE CtlJoin
  BY <1>8 DEF CtlJoin, TypeInv
<1>9. CASE StreamWake
  BY <1>9 DEF StreamWake, TypeInv
<1>10. CASE GetHeader
  <2>1. Head(Received) \in Part
    BY <1>10, ReceivedType DEF GetHeader
  <2>2. 1 + SkippedParts(Head(Received)) \in Nat
    BY <2>1, SkippedNat
  <2>3. socket' \in [Versions -> Seq(Part)]
    BY <1>10, <2>2, DropType DEF GetHeader
  <2>4. streamPc' \in {"header", "frame", "end"}
    BY <1>10, Zenon DEF GetHeader
  <2> QED BY <1>10, <2>3, <2>4 DEF GetHeader, TypeInv
<1>11. CASE WaitFrame
  <2>1. Head(Received) \in Part
    BY <1>11, ReceivedType DEF WaitFrame
  <2>2. socket' \in [Versions -> Seq(Part)]
    BY <1>11, DropType DEF WaitFrame
  <2>3. streamPc' \in {"array", "frame", "end"}
    BY <1>11, Zenon DEF WaitFrame, AfterError
  <2>4. image' \in [series : Nat, num : Nat]
    BY <1>11, <2>1 DEF WaitFrame, Part, TypeInv
  <2> QED BY <1>11, <2>2, <2>3, <2>4 DEF WaitFrame, TypeInv
<1>12. ASSUME NEW a \in ArrayType, Publish(a)
       PROVE  /\ numImagesCounter' \in Nat /\ last' \in ArrayType /\ thresh' \in Nat
              /\ newest' \in [Versions -> ArrayType] /\ streamPc' \in {"frame", "array"}
  BY <1>12 DEF Publish, NextThreshold, TypeInv
<1>13. CASE GetFrame
  <2>1. [series |-> image.series, image |-> image.num, thresh |-> thresh] \in ArrayType
    BY DEF TypeInv, ArrayType
  <2>2. socket' \in [Versions -> Seq(Part)]
    <3>1. CASE version = 1
      BY <1>13, <3>1, DropType DEF GetFrame
    <3>2. CASE version # 1
      BY <1>13, <3>2, DropType DEF GetFrame
    <3> QED BY <3>1, <3>2
  <2> QED BY <1>12, <1>13, <2>1, <2>2 DEF GetFrame, TypeInv
<1>14. CASE GetFrameFail
  <2>1. socket' \in [Versions -> Seq(Part)]
    <3>1. CASE version = 1
      BY <1>14, <3>1, DropType DEF GetFrameFail
    <3>2. CASE version # 1
      BY <1>14, <3>2, DropType DEF GetFrameFail
    <3> QED BY <3>1, <3>2
  <2>2. CASE Publish(last)
    <3>1. last \in ArrayType
      BY DEF TypeInv
    <3> QED BY <1>12, <1>14, <2>1, <2>2, <3>1 DEF GetFrameFail, TypeInv
  <2>3. CASE ~Publish(last)
    BY <1>14, <2>1, <2>3 DEF GetFrameFail, TypeInv
  <2> QED BY <2>2, <2>3
<1>15. CASE StreamEnd
  BY <1>15 DEF StreamEnd, TypeInv
<1>16. CASE UNCHANGED vars
  BY <1>16 DEF TypeInv
<1> QED BY <1>1, <1>2, <1>3, <1>4, <1>5, <1>6, <1>7, <1>8, <1>9, <1>10, <1>11, <1>13,
           <1>14, <1>15, <1>16 DEF Next, Control, Stream
-----------------------------------------------------------------------------
(* controlTask and streamTask take turns.                                  *)
LEMMA HandshakeStep == TypeInv /\ Handshake /\ [Next]_vars => Handshake'
<1> SUFFICES ASSUME TypeInv, Handshake, [Next]_vars PROVE Handshake'
  OBVIOUS
<1> USE DEF clientVars, detVars, eventVars, arrayVars, taskVars, socketVars, vars, Working,
            Handshake
<1>1. CASE Expose \/ DetectorEnds
  BY <1>1 DEF Expose, DetectorEnds
<1>2. CASE WriteStream \/ WriteOther
  BY <1>2 DEF WriteStream, WriteOther
<1>3. CASE streamPc # "crashed" /\ Control
  BY <1>3 DEF Control, CtlArm, CtlStart, CtlDisarm, CtlJoin
<1>4. CASE StreamWake
  BY <1>4 DEF StreamWake, TypeInv
<1>5. CASE GetHeader
  <2>1. streamPc' \in {"header", "frame", "end"}
    BY <1>5, Zenon DEF GetHeader
  <2> QED BY <1>5, <2>1 DEF GetHeader, TypeInv
<1>6. CASE WaitFrame
  <2>1. streamPc' \in {"array", "frame", "end"}
    BY <1>6, Zenon DEF WaitFrame, AfterError
  <2> QED BY <1>6, <2>1 DEF WaitFrame, TypeInv
<1>7. CASE GetFrame
  BY <1>7 DEF GetFrame, Publish, TypeInv
<1>8. CASE GetFrameFail
  <2>1. streamPc' \in {"array", "frame", "crashed"} /\ misled'
    BY <1>8 DEF GetFrameFail, Publish
  <2> QED BY <1>8, <2>1 DEF GetFrameFail, TypeInv
<1>9. CASE StreamEnd
  BY <1>9 DEF StreamEnd, TypeInv
<1>10. CASE UNCHANGED vars
  BY <1>10
<1> QED BY <1>1, <1>2, <1>3, <1>4, <1>5, <1>6, <1>7, <1>8, <1>9, <1>10 DEF Next, Stream

(* An image the detector sends is after those it sent before, and after    *)
(* what is published; no other message changes the order.                  *)
LEMMA OrderTransmit ==
    ASSUME TypeInv, NEW kind \in {"header", "image", "end"}, NEW s \in Nat, NEW n \in Nat,
           Transmit(kind, s, n), NEW v \in Versions, Ordered(socket[v]),
           kind = "image" => Until(socket[v], s, n), NEW t \in Nat, NEW m \in Nat
    PROVE  /\ Ordered(socket'[v])
           /\ kind # "image" /\ Until(socket[v], t, m) => Until(socket'[v], t, m)
           /\ kind = "image" => Until(socket'[v], s, n + 1)
           /\ After(socket[v], t, m) /\ (kind = "image" => Earlier(t, m, s, n))
                 => After(socket'[v], t, m)
<1>1. PICK flaw \in {"none"} \cup AllFlaws :
         socket' = [socket EXCEPT ![streamVersion] = @ \o Message(kind, s, n, flaw)]
  BY ConstantsAssumption DEF Transmit
<1> DEFINE q == socket[v]
           mes == Message(kind, s, n, flaw)
<1>2. /\ mes \in Seq(Part) /\ Len(mes) \in Nat \ {0}
      /\ mes[1].kind = kind /\ mes[1].series = s /\ mes[1].num = n
      /\ \A k \in 2 .. Len(mes) : mes[k].kind \in {"detail", "shape", "data", "time"}
  <2>1. IsMessage(Message(kind, s, n, flaw), kind, s, n, flaw)
    BY MessageFacts
  <2> QED BY <2>1 DEF IsMessage
<1>3. q \in Seq(Part) /\ socket'[v] = IF v = streamVersion THEN q \o mes ELSE q
  BY <1>1 DEF TypeInv
<1>4. /\ mes[1].series = s /\ mes[1].num = n /\ (IsImage(mes[1]) <=> kind = "image")
      /\ \A k \in 2 .. Len(mes) : ~IsImage(mes[k])
  BY <1>2 DEF IsImage
<1>5. Ordered(q) /\ (kind = "image" => Until(q, s, n) /\ Until(q, s, n + 1))
  <2>1. Earlier(s, n, s, n + 1)
    BY DEF Earlier
  <2>2. Until(q, s, n) => Until(q, s, n + 1)
    BY <1>3, <2>1, LaterOn
  <2> QED BY <2>2
<1>6. CASE v # streamVersion
  BY <1>3, <1>5, <1>6
<1>7. CASE v = streamVersion
  <2> HIDE DEF q, mes
  <2>1. CASE kind = "image"
    <3>1. /\ Ordered(q \o mes) /\ Until(q \o mes, s, n + 1)
          /\ After(q, t, m) /\ Earlier(t, m, s, n) => After(q \o mes, t, m)
      BY <1>2, <1>3, <1>4, <1>5, <2>1, OrderAppend
    <3> QED BY <1>3, <1>7, <2>1, <3>1 DEF q
  <2>2. CASE kind # "image"
    <3>1. Ordered(q \o mes) /\ (Until(q, t, m) => Until(q \o mes, t, m))
      BY <1>2, <1>3, <1>4, <1>5, <2>2, OrderAppend
    <3>2. After(q, t, m) => After(q \o mes, t, m)
      BY <1>2, <1>3, <1>4, <1>5, <2>2, OrderAppend
    <3> QED BY <1>3, <1>7, <2>2, <3>1, <3>2 DEF q
  <2> QED BY <2>1, <2>2
<1> QED BY <1>6, <1>7
(* The numbers that the order is about.                                    *)
LEMMA OrderTypes ==
    ASSUME TypeInv
    PROVE  /\ series \in Nat /\ taken \in Nat /\ taken + 1 \in Nat /\ version \in Versions
           /\ image.series \in Nat /\ image.num \in Nat
           /\ \A v \in Versions : newest[v].series \in Nat /\ newest[v].image \in Nat
<1>1. \A v \in Versions : newest[v] \in ArrayType
  BY DEF TypeInv
<1> QED BY <1>1 DEF TypeInv, ArrayType

(* What is left in the sockets when parts were read is in order as before. *)
LEMMA SocketsDrop ==
    ASSUME TypeInv, NEW d \in Nat, DropParts(d), NEW v \in Versions,
           NEW s \in Nat, NEW n \in Nat
    PROVE  /\ Ordered(socket[v]) => Ordered(socket'[v])
           /\ Until(socket[v], s, n) => Until(socket'[v], s, n)
           /\ After(socket[v], s, n) => After(socket'[v], s, n)
<1> DEFINE q == socket[v]
<1>1. q \in Seq(Part)
      /\ socket'[v] = IF v = version THEN SubSeq(q, d + 1, Len(q)) ELSE q
  BY DEF TypeInv, DropParts
<1> HIDE DEF q
<1>2. /\ Ordered(q) => Ordered(SubSeq(q, d + 1, Len(q)))
      /\ Until(q, s, n) => Until(SubSeq(q, d + 1, Len(q)), s, n)
      /\ After(q, s, n) => After(SubSeq(q, d + 1, Len(q)), s, n)
  BY <1>1, OrderDrop
<1>3. CASE v = version
  BY <1>1, <1>2, <1>3 DEF q
<1>4. CASE v # version
  BY <1>1, <1>4 DEF q
<1> QED BY <1>3, <1>4

(* A step of streamTask that reads parts and takes no image in hand.       *)
LEMMA DropOrder ==
    ASSUME TypeInv, OrderInv, NEW d \in Nat, DropParts(d), streamPc' # "array",
           UNCHANGED <<series, taken>>, misled' \/ UNCHANGED <<newest, misled>>
    PROVE  OrderInv'
<1>1. /\ series \in Nat /\ taken + 1 \in Nat
      /\ \A v \in Versions : newest[v].series \in Nat /\ newest[v].image \in Nat
  BY OrderTypes
<1>2. \A v \in Versions : Ordered(socket'[v]) /\ Until(socket'[v], series, taken + 1)
  BY <1>1, SocketsDrop DEF OrderInv, SocketOrder
<1>3. ASSUME ~misled', NEW v \in Versions
      PROVE  After(socket'[v], newest'[v].series, newest'[v].image)
  <2>1. After(socket[v], newest[v].series, newest[v].image)
    BY <1>3 DEF OrderInv, SocketOrder
  <2>2. After(socket'[v], newest[v].series, newest[v].image)
    BY <1>1, <2>1, SocketsDrop
  <2> QED BY <1>3, <2>2
<1>4. SocketOrder'
  BY <1>2, <1>3 DEF SocketOrder
<1>5. NewestTaken'
  BY DEF OrderInv, NewestTaken
<1>6. HandOrder'
  BY DEF HandOrder
<1> QED BY <1>4, <1>5, <1>6 DEF OrderInv

(* The image in hand is published: it is after the newest of its version,  *)
(* and what is still in the socket is after it.                            *)
LEMMA PublishOrder ==
    ASSUME TypeInv, OrderInv, GetFrame
    PROVE  /\ ~misled => Before(newest[version], newest'[version])
           /\ OrderInv'
<1> DEFINE a == [series |-> image.series, image |-> image.num, thresh |-> thresh]
           s == image.series
           n == image.num
<1>1. /\ s \in Nat /\ n \in Nat /\ thresh \in Nat /\ series \in Nat /\ taken + 1 \in Nat
      /\ version \in Versions /\ streamPc = "array"
      /\ \A v \in Versions : newest[v] \in ArrayType
      /\ \A v \in Versions : newest[v].series \in Nat /\ newest[v].image \in Nat
                             /\ newest[v].thresh \in Nat
  <2>1. \A v \in Versions : newest[v] \in ArrayType
    BY DEF TypeInv
  <2>2. streamPc = "array"
    BY DEF GetFrame
  <2> QED BY <2>1, <2>2 DEF TypeInv, ArrayType
<1>2. /\ newest' = [newest EXCEPT ![version] = a]
      /\ thresh' = thresh + 1
      /\ UNCHANGED <<series, taken, version, image, misled>>
  BY DEF GetFrame, Publish, NextThreshold, detVars
<1>3. newest'[version] = a /\ \A v \in Versions : v # version => newest'[v] = newest[v]
  BY <1>1, <1>2 DEF TypeInv
<1>4. PICK d \in Nat : DropParts(d)
  <2>1. CASE version = 1
    BY <2>1 DEF GetFrame
  <2>2. CASE version # 1
    BY <2>2 DEF GetFrame
  <2> QED BY <2>1, <2>2
<1>5. /\ Earlier(s, n, series, taken + 1)
      /\ After(socket[version], s, n)
      /\ ~misled =>
            IF thresh = 0
            THEN Earlier(newest[version].series, newest[version].image, s, n)
            ELSE newest[version] = [series |-> s, image |-> n, thresh |-> thresh - 1]
  BY <1>1 DEF OrderInv, HandOrder, Received
<1>6. ASSUME ~misled PROVE Before(newest[version], newest'[version])
  <2>1. CASE thresh = 0
    BY <1>1, <1>3, <1>5, <1>6, <2>1 DEF Earlier, Before
  <2>2. CASE thresh # 0
    <3>1. newest[version].series = s /\ newest[version].image = n
          /\ newest[version].thresh = thresh - 1
      BY <1>5, <1>6, <2>2
    <3> QED BY <1>1, <1>3, <3>1 DEF Before
  <2> QED BY <2>1, <2>2
<1>7. \A v \in Versions : Ordered(socket'[v]) /\ Until(socket'[v], series, taken + 1)
  BY <1>1, <1>4, SocketsDrop DEF OrderInv, SocketOrder
<1>8. After(socket'[version], s, n)
  BY <1>1, <1>4, <1>5, SocketsDrop
<1>9. ASSUME ~misled, NEW v \in Versions
      PROVE  After(socket'[v], newest'[v].series, newest'[v].image)
  <2>1. CASE v = version
    <3>1. newest'[v].series = s /\ newest'[v].image = n
      BY <1>3, <2>1
    <3> QED BY <1>8, <2>1, <3>1
  <2>2. CASE v # version
    <3>1. After(socket[v], newest[v].series, newest[v].image)
      BY <1>9 DEF OrderInv, SocketOrder
    <3>2. After(socket'[v], newest[v].series, newest[v].image)
      BY <1>1, <1>4, <3>1, SocketsDrop
    <3> QED BY <1>3, <2>2, <3>2
  <2> QED BY <2>1, <2>2
<1>10. SocketOrder'
  BY <1>2, <1>7, <1>9 DEF SocketOrder
<1>11. NewestTaken'
  BY <1>2, <1>3, <1>5 DEF OrderInv, NewestTaken
<1>12. HandOrder'
  <2>1. After(Received', image'.series, image'.num)
    BY <1>2, <1>8 DEF Received
  <2>2. newest'[version] = [series |-> s, image |-> n, thresh |-> thresh' - 1]
        /\ thresh' # 0
    BY <1>1, <1>2, <1>3
  <2> QED BY <1>2, <1>5, <2>1, <2>2 DEF HandOrder
<1> QED BY <1>6, <1>10, <1>11, <1>12 DEF OrderInv

(* What is before the next image stays so when the detector goes on.       *)
LEMMA NotEarlier ==
    ASSUME NEW s \in Nat, NEW n \in Nat, NEW t \in Nat, NEW m \in Nat,
           Earlier(s, n, t, m + 1)
    PROVE  \A a, b \in Nat : Earlier(a, b, s, n + 1) => Earlier(a, b, t, m + 1)
BY DEF Earlier

(* What the detector sends, or does not send, is later than all there is.  *)
LEMMA SendOrder ==
    ASSUME TypeInv, OrderInv, series' \in Nat, taken' \in Nat,
           Earlier(series, taken, series', taken' + 1),
           \A v \in Versions :
              /\ Ordered(socket'[v]) /\ Until(socket'[v], series', taken' + 1)
              /\ \A t, m \in Nat : After(socket[v], t, m) /\ Earlier(t, m, series, taken + 1)
                                      => After(socket'[v], t, m),
           UNCHANGED <<streamPc, version, image, thresh, newest, misled>>
    PROVE  OrderInv'
<1>1. /\ series \in Nat /\ taken \in Nat /\ taken + 1 \in Nat /\ version \in Versions
      /\ image.series \in Nat /\ image.num \in Nat
      /\ \A v \in Versions : newest[v].series \in Nat /\ newest[v].image \in Nat
  BY OrderTypes
<1>3. \A a, b \in Nat :
         Earlier(a, b, series, taken + 1) => Earlier(a, b, series', taken' + 1)
  BY <1>1, NotEarlier
<1>4. SocketOrder'
  BY <1>1 DEF OrderInv, SocketOrder, NewestTaken
<1>5. NewestTaken'
  BY <1>1, <1>3 DEF OrderInv, NewestTaken
<1>6. HandOrder'
  BY <1>1, <1>3 DEF OrderInv, HandOrder, Received
<1> QED BY <1>4, <1>5, <1>6 DEF OrderInv

(* A step of controlTask or of the task that leaves sockets and arrays.    *)
LEMMA StillOrder ==
    ASSUME OrderInv, UNCHANGED <<socket, series, taken, newest, misled>>,
           streamPc' = "array" => UNCHANGED <<streamPc, version, image, thresh>>
    PROVE  OrderInv'
BY DEF OrderInv, SocketOrder, NewestTaken, HandOrder, Received

(* A step of streamTask that takes the first image of its socket in hand.  *)
LEMMA WaitFrameOrder ==
    ASSUME TypeInv, OrderInv, WaitFrame PROVE OrderInv'
<1> DEFINE p == Head(Received)
<1>1. /\ p \in Part /\ p = Received[1] /\ Received \in Seq(Part) /\ Received # <<>>
      /\ DropParts(1) /\ UNCHANGED <<series, taken, newest, misled, version>> /\ thresh' = 0
  BY ReceivedType DEF WaitFrame, detVars, arrayVars
<1>2. CASE streamPc' # "array"
  BY <1>1, <1>2, DropOrder
<1>3. CASE streamPc' = "array"
  <2>1. PICK frameResult \in FrameResults(p) :
           /\ streamPc' = CASE frameResult = "success" -> "array"
                            [] frameResult = "again" -> "frame"
                            [] frameResult = "end" -> "end"
                            [] OTHER -> AfterError
           /\ image' = IF frameResult = "success" THEN [series |-> p.series, num |-> p.num]
                       ELSE image
    BY Zenon DEF WaitFrame
  <2>2. frameResult = "success"
    BY <1>3, <2>1, Zenon DEF AfterError
  <2>3. IsImage(p)
    BY <2>2 DEF FrameResults, IsImage
  <2>4. image' = [series |-> p.series, num |-> p.num]
    BY <2>1, <2>2
  <2>5. /\ series \in Nat /\ taken + 1 \in Nat /\ version \in Versions
        /\ \A v \in Versions : newest[v].series \in Nat /\ newest[v].image \in Nat
    BY OrderTypes
  <2>6. /\ 1 \in DOMAIN Received
        /\ Ordered(Received) /\ Until(Received, series, taken + 1)
        /\ ~misled => After(Received, newest[version].series, newest[version].image)
    BY <1>1, <2>5 DEF OrderInv, SocketOrder, Received
  <2>7. After(Received', p.series, p.num)
    <3>1. Received' = SubSeq(Received, 1 + 1, Len(Received))
      BY <1>1 DEF DropParts, Received, TypeInv
    <3> QED BY <1>1, <2>3, <2>6, <3>1, OrderHead
  <2>8. \A v \in Versions : Ordered(socket'[v]) /\ Until(socket'[v], series, taken + 1)
    BY <1>1, <2>5, SocketsDrop DEF OrderInv, SocketOrder
  <2>9. ASSUME ~misled, NEW v \in Versions
        PROVE  After(socket'[v], newest[v].series, newest[v].image)
    <3>1. After(socket[v], newest[v].series, newest[v].image)
      BY <2>9 DEF OrderInv, SocketOrder
    <3> QED BY <1>1, <2>5, <3>1, SocketsDrop
  <2>10. SocketOrder'
    BY <1>1, <2>8, <2>9 DEF SocketOrder
  <2>11. NewestTaken'
    BY <1>1 DEF OrderInv, NewestTaken
  <2>12. HandOrder'
    <3>1. Earlier(p.series, p.num, series, taken + 1)
      BY <1>1, <2>3, <2>6 DEF Until
    <3>2. ~misled => Earlier(newest[version].series, newest[version].image,
                             p.series, p.num)
      BY <1>1, <2>3, <2>6 DEF After
    <3> QED BY <1>1, <2>4, <2>7, <3>1, <3>2 DEF HandOrder
  <2> QED BY <2>10, <2>11, <2>12 DEF OrderInv
<1> QED BY <1>2, <1>3

(* Whatever array the task uses for one it was not given, the image it     *)
(* works on is before those in the socket.                                 *)
LEMMA GetFrameFailOrder ==
    ASSUME TypeInv, OrderInv, GetFrameFail PROVE OrderInv'
<1>1. /\ misled' /\ UNCHANGED <<series, taken, version, image>>
      /\ streamPc = "array"
  BY DEF GetFrameFail, detVars
<1>2. PICK d \in Nat : DropParts(d)
  <2>1. CASE version = 1
    BY <2>1 DEF GetFrameFail
  <2>2. CASE version # 1
    BY <2>2 DEF GetFrameFail
  <2> QED BY <2>1, <2>2
<1>3. /\ series \in Nat /\ taken + 1 \in Nat /\ version \in Versions
      /\ image.series \in Nat /\ image.num \in Nat
  BY DEF TypeInv
<1>4. SocketOrder'
  <2>1. \A v \in Versions : Ordered(socket'[v]) /\ Until(socket'[v], series, taken + 1)
    BY <1>2, <1>3, SocketsDrop DEF OrderInv, SocketOrder
  <2> QED BY <1>1, <2>1 DEF SocketOrder
<1>5. HandOrder'
  <2>1. After(socket'[version], image.series, image.num)
    BY <1>1, <1>2, <1>3, SocketsDrop DEF OrderInv, HandOrder, Received
  <2> QED BY <1>1, <2>1 DEF OrderInv, HandOrder, Received
<1> QED BY <1>1, <1>4, <1>5 DEF OrderInv, NewestTaken

(* A step keeps the order.                                                 *)
LEMMA OrderStep == TypeInv /\ Handshake /\ OrderInv /\ [Next]_vars => OrderInv'
<1> SUFFICES ASSUME TypeInv, Handshake, OrderInv, [Next]_vars PROVE OrderInv'
  OBVIOUS
<1> USE DEF clientVars, detVars, eventVars, arrayVars, taskVars, socketVars, vars
<1>0. TypeInv' /\ series \in Nat /\ taken \in Nat
  BY TypeStep DEF TypeInv
<1>1. CASE Expose
  <2>1. series' = series /\ taken' = taken + 1 /\ Earlier(series, taken, series', taken' + 1)
        /\ UNCHANGED <<streamPc, version, image, thresh, newest, misled>>
    BY <1>0, <1>1 DEF Expose, Earlier
  <2>2. CASE Transmit("image", series, taken')
    <3>1. taken + 1 \in Nat /\ Transmit("image", series, taken + 1)
      BY <1>0, <2>1, <2>2
    <3>2. ASSUME NEW v \in Versions
          PROVE  /\ Ordered(socket'[v]) /\ Until(socket'[v], series, (taken + 1) + 1)
                 /\ \A t, m \in Nat :
                      After(socket[v], t, m) /\ Earlier(t, m, series, taken + 1)
                         => After(socket'[v], t, m)
      <4>1. Ordered(socket[v]) /\ Until(socket[v], series, taken + 1)
        BY DEF OrderInv, SocketOrder
      <4> QED BY <1>0, <3>1, <4>1, OrderTransmit
    <3>3. taken' + 1 = (taken + 1) + 1
      BY <2>1
    <3> QED BY <1>0, <2>1, <3>2, <3>3, SendOrder DEF TypeInv
  <2>3. CASE UNCHANGED socket
    <3>1. Earlier(series, taken + 1, series', taken' + 1) /\ taken + 1 \in Nat
          /\ taken' + 1 \in Nat
      BY <1>0, <2>1 DEF Earlier
    <3>2. ASSUME NEW v \in Versions
          PROVE  Ordered(socket'[v]) /\ Until(socket'[v], series', taken' + 1)
      BY <1>0, <2>1, <2>3, <3>1, LaterOn DEF OrderInv, SocketOrder, TypeInv
    <3> QED BY <1>0, <2>1, <2>3, <3>2, SendOrder DEF TypeInv
  <2> QED BY <1>1, <2>2, <2>3 DEF Expose
<1>2. CASE DetectorEnds
  <2>1. /\ Transmit("end", series, 0)
        /\ UNCHANGED <<series, taken, streamPc, version, image, thresh, newest, misled>>
    BY <1>2 DEF DetectorEnds
  <2>2. Earlier(series, taken, series', taken' + 1) /\ taken + 1 \in Nat
    BY <1>0, <2>1 DEF Earlier
  <2>3. ASSUME NEW v \in Versions
        PROVE  /\ Ordered(socket'[v]) /\ Until(socket'[v], series, taken + 1)
               /\ \A t, m \in Nat : After(socket[v], t, m) => After(socket'[v], t, m)
    <3>1. Ordered(socket[v]) /\ Until(socket[v], series, taken + 1)
      BY DEF OrderInv, SocketOrder
    <3>2. Ordered(socket'[v]) /\ Until(socket'[v], series, taken + 1)
      BY <1>0, <2>1, <2>2, <3>1, OrderTransmit
    <3>3. \A t, m \in Nat : After(socket[v], t, m) => After(socket'[v], t, m)
      BY <1>0, <2>1, <3>1, OrderTransmit
    <3> QED BY <3>2, <3>3
  <2> QED BY <1>0, <2>1, <2>2, <2>3, SendOrder DEF TypeInv
<1>3. CASE WriteStream \/ CtlStart \/ CtlDisarm \/ CtlJoin \/ StreamWake \/ StreamEnd
  BY <1>3, StillOrder DEF WriteStream, CtlStart, CtlDisarm, CtlJoin, StreamWake, StreamEnd
<1>4. CASE WriteOther
  <2>1. /\ socket' = [v \in Versions |-> <<>>] /\ streamPc' # "array"
        /\ UNCHANGED <<series, taken, newest, misled>>
    BY <1>4 DEF WriteOther, Handshake, Working
  <2>2. SocketOrder'
    BY <2>1 DEF SocketOrder, Ordered, Until, After
  <2> QED BY <2>1, <2>2 DEF OrderInv, NewestTaken, HandOrder
<1>5. CASE CtlArm
  <2>1. PICK n \in HeaderDetails : Transmit("header", series', n)
    BY <1>5 DEF CtlArm
  <2>2. /\ n \in Nat /\ series' = series + 1 /\ series' \in Nat /\ taken' = 0
        /\ UNCHANGED <<streamPc, version, image, thresh, newest, misled>>
    BY <1>5, ConstantsAssumption DEF CtlArm, TypeInv
  <2>3. /\ Earlier(series, taken, series', taken' + 1) /\ taken + 1 \in Nat
        /\ Earlier(series, taken + 1, series', taken' + 1) /\ taken' + 1 \in Nat
    BY <1>0, <2>2 DEF Earlier
  <2>4. ASSUME NEW v \in Versions
        PROVE  /\ Ordered(socket'[v]) /\ Until(socket'[v], series', taken' + 1)
               /\ \A t, m \in Nat : After(socket[v], t, m) => After(socket'[v], t, m)
    <3>1. /\ Ordered(socket[v]) /\ Until(socket[v], series, taken + 1)
          /\ socket[v] \in Seq(Part)
      BY DEF OrderInv, SocketOrder, TypeInv
    <3>2. Until(socket[v], series', taken' + 1)
      BY <1>0, <2>2, <2>3, <3>1, LaterOn
    <3>3. Ordered(socket'[v]) /\ Until(socket'[v], series', taken' + 1)
      BY <1>0, <2>1, <2>2, <2>3, <3>1, <3>2, OrderTransmit
    <3>4. \A t, m \in Nat : After(socket[v], t, m) => After(socket'[v], t, m)
      BY <1>0, <2>1, <2>2, <3>1, OrderTransmit
    <3> QED BY <3>3, <3>4
  <2> QED BY <1>0, <2>2, <2>3, <2>4, SendOrder DEF TypeInv
<1>6. CASE GetHeader
  <2>1. Head(Received) \in Part
    BY <1>6, ReceivedType DEF GetHeader
  <2>2. 1 + SkippedParts(Head(Received)) \in Nat
    BY <2>1, SkippedNat
  <2>3. streamPc' # "array"
    BY <1>6, Zenon DEF GetHeader
  <2> QED BY <1>6, <2>2, <2>3, DropOrder DEF GetHeader
<1>7. CASE WaitFrame
  BY <1>7, WaitFrameOrder
<1>8. CASE GetFrame
  BY <1>8, PublishOrder
<1>9. CASE GetFrameFail
  BY <1>9, GetFrameFailOrder
<1>10. CASE UNCHANGED vars
  BY <1>10, StillOrder
<1> QED BY <1>1, <1>2, <1>3, <1>4, <1>5, <1>6, <1>7, <1>8, <1>9, <1>10
        DEF Next, Control, Stream
-----------------------------------------------------------------------------
(* Initially nothing was sent and nothing published.                       *)
LEMMA InitOrder == Init => TypeInv /\ Handshake /\ OrderInv
<1> SUFFICES ASSUME Init PROVE TypeInv /\ Handshake /\ OrderInv
  OBVIOUS
<1>1. TypeInv
  <2>1. <<>> \in Seq(Part) /\ NoArray \in ArrayType
    BY DEF NoArray, ArrayType
  <2> QED BY <2>1 DEF Init, TypeInv, Versions
<1>2. Handshake
  BY DEF Init, Handshake, Working
<1>3. SocketOrder
  BY DEF Init, SocketOrder, Ordered, Until, After
<1>4. NewestTaken /\ HandOrder
  BY DEF Init, NewestTaken, HandOrder, NoArray, Earlier
<1> QED BY <1>1, <1>2, <1>3, <1>4 DEF OrderInv

(* The order holds always.                                                 *)
LEMMA OrderAlways == Spec => [](TypeInv /\ Handshake /\ OrderInv)
<1>1. TypeInv /\ Handshake /\ OrderInv /\ [Next]_vars => (TypeInv /\ Handshake /\ OrderInv)'
  BY TypeStep, HandshakeStep, OrderStep
<1> QED BY <1>1, InitOrder, PTL DEF Spec

(* streamTask publishes no array of a version twice and none out of order, *)
(* whichever messages are malformed and however many images an earlier     *)
(* acquisition left in the socket, unless it uses an array that getFrame   *)
(* did not give it.                                                        *)
THEOREM ArraysInOrder == Spec => PublishedInOrder
<1>1. ASSUME TypeInv, OrderInv, Next, numImagesCounter' > numImagesCounter, ~misled'
      PROVE  Before(newest[version], newest'[version])
  <2>1. numImagesCounter \in Nat
    BY <1>1 DEF TypeInv
  <2>2. ~UNCHANGED numImagesCounter /\ numImagesCounter' # 0
    BY <1>1, <2>1
  <2>3. GetFrame /\ ~misled
    <3> USE DEF clientVars, detVars, eventVars, arrayVars, taskVars, socketVars, vars
    <3>1. ~(Expose \/ DetectorEnds \/ WriteStream \/ WriteOther)
      BY <2>2 DEF Expose, DetectorEnds, WriteStream, WriteOther
    <3>2. ~Control
      BY <2>2 DEF Control, CtlArm, CtlStart, CtlDisarm, CtlJoin
    <3>3. ~(StreamWake \/ GetHeader \/ WaitFrame \/ StreamEnd)
      BY <2>2 DEF StreamWake, GetHeader, WaitFrame, StreamEnd
    <3>4. ~GetFrameFail
      BY <1>1 DEF GetFrameFail
    <3>5. GetFrame
      BY <1>1, <3>1, <3>2, <3>3, <3>4 DEF Next, Stream
    <3> QED BY <1>1, <3>5 DEF GetFrame
  <2> QED BY <1>1, <2>3, PublishOrder
<1>2. TypeInv /\ OrderInv /\ [Next]_vars =>
        [numImagesCounter' > numImagesCounter /\ ~misled' =>
            Before(newest[version], newest'[version])]_vars
  BY <1>1
<1> QED BY <1>2, OrderAlways, PTL DEF Spec, PublishedInOrder
-----------------------------------------------------------------------------
(* Once the parts before them were read, the images are next.              *)
LEMMA FramesDrop ==
    ASSUME NEW q \in Seq(Part), NEW b \in Nat, NEW n \in Nat \ {0}, Frames(q, b, n)
    PROVE  LET p == SubSeq(q, b + 1, Len(q))
           IN /\ Frames(p, 0, n) /\ ImagesIn(p) = ImagesIn(q)
              /\ Ended(p) <=> Ended(q)
              /\ Sound(q) => Sound(p)
<1> DEFINE p == SubSeq(q, b + 1, Len(q))
<1>1. /\ DOMAIN p = 1 .. Len(p) /\ DOMAIN q = 1 .. Len(q)
      /\ Len(p) \in Nat /\ Len(q) \in Nat /\ b <= Len(q) /\ Len(p) = Len(q) - b
      /\ \A k \in 1 .. Len(p) : p[k] = q[k + b]
  <2>1. b <= Len(q)
    BY DEF Frames, Leads
  <2>2. DOMAIN q = 1 .. Len(q) /\ Len(q) \in Nat
    OBVIOUS
  <2>3. /\ DOMAIN p = 1 .. Len(p) /\ Len(p) \in Nat
        /\ \A k \in 1 .. Len(p) : p[k] = q[k + b]
    BY DropFacts
  <2>4. Len(p) = Len(q) - b
    BY <2>1, DropFacts
  <2> QED BY <2>1, <2>2, <2>3, <2>4
<1> HIDE DEF p
<1>2. /\ \A k \in 1 .. Len(p) : k + b \in 1 .. Len(q)
      /\ \A k \in b + 1 .. Len(q) : k - b \in 1 .. Len(p) /\ p[k - b] = q[k]
  BY <1>1
<1>3. \A k \in 1 .. Len(q) : Begins(q[k]) => k \in b + 1 .. Len(q)
  <2> SUFFICES ASSUME NEW k \in 1 .. Len(q), k <= b PROVE ~Begins(q[k])
    BY <1>1
  <2> QED BY DEF Frames, Leads
<1>4. Frames(p, 0, n)
  <2>1. Leads(p, 0)
    <3>1. b < Len(q) => Begins(q[b + 1])
      BY DEF Frames, Leads
    <3>2. ASSUME 0 < Len(p) PROVE Begins(p[0 + 1])
      <4>1. b < Len(q) /\ 1 \in 1 .. Len(p) /\ 1 + b = b + 1 /\ 0 + 1 = 1
        BY <1>1, <3>2
      <4> QED BY <1>1, <3>1, <4>1
    <3> QED BY <1>1, <3>2 DEF Leads
  <2>2. ASSUME NEW k \in 1 .. Len(p), p[k].kind = "image"
        PROVE  /\ k + n <= Len(p) + 1
               /\ \A i \in k + 1 .. k + n - 1 : ~Begins(p[i])
               /\ k + n <= Len(p) => Begins(p[k + n])
    <3> DEFINE j == k + b
    <3>1. j \in 1 .. Len(q) /\ q[j].kind = "image"
      BY <1>1, <1>2, <2>2
    <3>2. /\ j + n <= Len(q) + 1
          /\ \A i \in j + 1 .. j + n - 1 : ~Begins(q[i])
          /\ j + n <= Len(q) => Begins(q[j + n])
      BY <3>1 DEF Frames, Whole
    <3>3. k + n <= Len(p) + 1
      BY <1>1, <3>2
    <3>4. ASSUME NEW i \in k + 1 .. k + n - 1 PROVE ~Begins(p[i])
      <4>1. i + b \in j + 1 .. j + n - 1 /\ i \in 1 .. Len(p)
        BY <1>1, <3>3
      <4> QED BY <1>1, <3>2, <4>1
    <3>5. ASSUME k + n <= Len(p) PROVE Begins(p[k + n])
      <4>1. k + n \in 1 .. Len(p) /\ (k + n) + b = j + n /\ j + n <= Len(q)
        BY <1>1, <3>5
      <4> QED BY <1>1, <3>2, <4>1
    <3> QED BY <3>3, <3>4, <3>5
  <2>3. ASSUME NEW k \in 1 .. Len(p), p[k].kind = "end" PROVE k = Len(p)
    <3>1. k + b \in 1 .. Len(q) /\ q[k + b].kind = "end"
      BY <1>1, <1>2, <2>3
    <3>2. k + b = Len(q)
      BY <3>1 DEF Frames, EndsLast
    <3> DEFINE x == Len(p)
               y == Len(q)
    <3>3. x \in Nat /\ y \in Nat /\ k \in Nat /\ k + b = y /\ x = y - b
      <4>1. x \in Nat
        BY <1>1
      <4>2. y \in Nat
        BY <1>1
      <4>3. k \in Nat
        BY <4>1
      <4>4. k + b = y
        BY <3>2
      <4>5. x = y - b
        BY <1>1
      <4> QED BY <4>1, <4>2, <4>3, <4>4, <4>5
    <3> HIDE DEF x, y
    <3>4. k = x
      BY <3>3
    <3> QED BY <3>4 DEF x
  <2> QED BY <2>1, <2>2, <2>3 DEF Frames, Whole, EndsLast
<1>5. ImagesIn(p) = ImagesIn(q)
  <2>1. ASSUME NEW k \in 1 .. Len(p), IsImage(p[k]) PROVE p[k].num \in ImagesIn(q)
    BY <1>1, <1>2, <2>1 DEF ImagesIn
  <2>2. ASSUME NEW k \in 1 .. Len(q), IsImage(q[k]) PROVE q[k].num \in ImagesIn(p)
    <3>1. k - b \in DOMAIN p /\ p[k - b] = q[k]
      BY <1>1, <1>2, <1>3, <2>2 DEF IsImage, Begins
    <3> QED BY <2>2, <3>1 DEF ImagesIn
  <2> QED BY <1>1, <2>1, <2>2 DEF ImagesIn
<1>6. Ended(p) <=> Ended(q)
  BY <1>1, <1>2, <1>3 DEF Ended, Begins
<1>7. ASSUME Sound(q) PROVE Sound(p)
  <2>1. ASSUME NEW k \in 1 .. Len(p) PROVE p[k].ok /\ p[k].series = series
    <3>1. k + b \in DOMAIN q /\ p[k] = q[k + b]
      BY <1>1, <1>2
    <3> QED BY <1>7, <3>1 DEF Sound
  <2> QED BY <1>1, <2>1 DEF Sound
<1> QED BY <1>4, <1>5, <1>6, <1>7 DEF p

(* The first part of the next image is read.                               *)
LEMMA FramesImage ==
    ASSUME NEW q \in Seq(Part), NEW n \in Nat \ {0}, Frames(q, 0, n),
           q # <<>>, q[1].kind = "image"
    PROVE  LET p == SubSeq(q, 2, Len(q))
           IN /\ Frames(p, n - 1, n)
              /\ ImagesIn(q) = ImagesIn(p) \cup {q[1].num}
              /\ Ended(p) <=> Ended(q)
              /\ Sound(q) => Sound(p)
<1> DEFINE p == SubSeq(q, 1 + 1, Len(q))
<1>0. Len(q) \in Nat /\ Len(q) >= 1
  OBVIOUS
<1>1. /\ DOMAIN p = 1 .. Len(p) /\ DOMAIN q = 1 .. Len(q)
      /\ Len(p) \in Nat /\ Len(p) = Len(q) - 1
      /\ \A k \in 1 .. Len(p) : p[k] = q[k + 1]
  <2>1. DOMAIN q = 1 .. Len(q)
    OBVIOUS
  <2>2. /\ DOMAIN p = 1 .. Len(p) /\ Len(p) \in Nat
        /\ \A k \in 1 .. Len(p) : p[k] = q[k + 1]
    BY DropFacts
  <2>3. Len(p) = Len(q) - 1
    BY <1>0, DropFacts
  <2> QED BY <2>1, <2>2, <2>3
<1> HIDE DEF p
<1>2. /\ \A k \in 1 .. Len(p) : k + 1 \in 1 .. Len(q)
      /\ \A k \in 2 .. Len(q) : k - 1 \in 1 .. Len(p) /\ p[k - 1] = q[k]
  BY <1>0, <1>1
<1>3. /\ 1 + n <= Len(q) + 1
      /\ \A i \in 1 + 1 .. 1 + n - 1 : ~Begins(q[i])
      /\ 1 + n <= Len(q) => Begins(q[1 + n])
  <2>1. 1 \in 1 .. Len(q)
    BY <1>0
  <2> QED BY <2>1 DEF Frames, Whole
<1>4. Frames(p, n - 1, n)
  <2>1. n - 1 <= Len(p) /\ \A k \in 1 .. n - 1 : ~Begins(p[k])
    <3>1. n - 1 <= Len(p)
      BY <1>0, <1>1, <1>3
    <3>2. ASSUME NEW k \in 1 .. n - 1 PROVE ~Begins(p[k])
      <4>1. k + 1 \in 1 + 1 .. 1 + n - 1 /\ k \in 1 .. Len(p)
        BY <1>1, <3>1
      <4> QED BY <1>1, <1>3, <4>1
    <3> QED BY <3>1, <3>2
  <2>2. n - 1 < Len(p) => Begins(p[(n - 1) + 1])
    <3>1. ASSUME n - 1 < Len(p) PROVE Begins(p[n])
      <4>1. n \in 1 .. Len(p) /\ n + 1 <= Len(q) /\ n + 1 = 1 + n
        BY <1>1, <3>1
      <4> QED BY <1>1, <1>3, <4>1
    <3>2. (n - 1) + 1 = n
      OBVIOUS
    <3> QED BY <3>1, <3>2
  <2>3. ASSUME NEW k \in 1 .. Len(p), p[k].kind = "image"
        PROVE  /\ k + n <= Len(p) + 1
               /\ \A i \in k + 1 .. k + n - 1 : ~Begins(p[i])
               /\ k + n <= Len(p) => Begins(p[k + n])
    <3> DEFINE j == k + 1
    <3>1. j \in 1 .. Len(q) /\ q[j].kind = "image"
      BY <1>1, <1>2, <2>3
    <3>2. /\ j + n <= Len(q) + 1
          /\ \A i \in j + 1 .. j + n - 1 : ~Begins(q[i])
          /\ j + n <= Len(q) => Begins(q[j + n])
      BY <3>1 DEF Frames, Whole
    <3>3. k + n <= Len(p) + 1
      BY <1>1, <3>2
    <3>4. ASSUME NEW i \in k + 1 .. k + n - 1 PROVE ~Begins(p[i])
      <4>1. i + 1 \in j + 1 .. j + n - 1 /\ i \in 1 .. Len(p)
        BY <1>1, <3>3
      <4> QED BY <1>1, <3>2, <4>1
    <3>5. ASSUME k + n <= Len(p) PROVE Begins(p[k + n])
      <4>1. k + n \in 1 .. Len(p) /\ (k + n) + 1 = j + n /\ j + n <= Len(q)
        BY <1>1, <3>5
      <4> QED BY <1>1, <3>2, <4>1
    <3> QED BY <3>3, <3>4, <3>5
  <2>4. ASSUME NEW k \in 1 .. Len(p), p[k].kind = "end" PROVE k = Len(p)
    <3>1. k + 1 \in 1 .. Len(q) /\ q[k + 1].kind = "end"
      BY <1>1, <1>2, <2>4
    <3>2. k + 1 = Len(q)
      BY <3>1 DEF Frames, EndsLast
    <3> DEFINE x == Len(p)
               y == Len(q)
    <3>3. x \in Nat /\ y \in Nat /\ k \in Nat /\ k + 1 = y /\ x = y - 1
      <4>1. x \in Nat
        BY <1>1
      <4>2. y \in Nat
        BY <1>1
      <4>3. k \in Nat
        BY <4>1
      <4>4. k + 1 = y
        BY <3>2
      <4>5. x = y - 1
        BY <1>1
      <4> QED BY <4>1, <4>2, <4>3, <4>4, <4>5
    <3> HIDE DEF x, y
    <3>4. k = x
      BY <3>3
    <3> QED BY <3>4 DEF x
  <2>5. Leads(p, n - 1)
    BY <2>1, <2>2 DEF Leads
  <2> QED BY <2>3, <2>4, <2>5 DEF Frames, Whole, EndsLast
<1>5. ImagesIn(q) = ImagesIn(p) \cup {q[1].num}
  <2>1. ASSUME NEW k \in 1 .. Len(p), IsImage(p[k]) PROVE p[k].num \in ImagesIn(q)
    BY <1>1, <1>2, <2>1 DEF ImagesIn
  <2>2. ASSUME NEW k \in 2 .. Len(q), IsImage(q[k]) PROVE q[k].num \in ImagesIn(p)
    BY <1>1, <1>2, <2>2 DEF ImagesIn
  <2>3. q[1].num \in ImagesIn(q)
    BY <1>0, <1>1 DEF ImagesIn, IsImage
  <2>4. DOMAIN q = {1} \cup 2 .. Len(q)
    BY <1>0, <1>1
  <2>5. ImagesIn(p) \cup {q[1].num} \subseteq ImagesIn(q)
    BY <1>1, <2>1, <2>3 DEF ImagesIn
  <2>6. ImagesIn(q) \subseteq ImagesIn(p) \cup {q[1].num}
    <3>1. ASSUME NEW k \in DOMAIN q, IsImage(q[k])
          PROVE  q[k].num \in ImagesIn(p) \cup {q[1].num}
      <4>1. CASE k = 1
        BY <4>1
      <4>2. CASE k \in 2 .. Len(q)
        BY <2>2, <3>1, <4>2
      <4> QED BY <2>4, <4>1, <4>2
    <3> QED BY <3>1 DEF ImagesIn
  <2> QED BY <2>5, <2>6
<1>6. Ended(p) <=> Ended(q)
  <2>1. ASSUME NEW k \in 1 .. Len(q), q[k].kind = "end" PROVE Ended(p)
    <3>1. k # 1
      BY <2>1
    <3>2. k \in 2 .. Len(q)
      BY <1>0, <3>1
    <3>3. k - 1 \in DOMAIN p /\ p[k - 1] = q[k]
      BY <1>1, <1>2, <3>2
    <3> QED BY <2>1, <3>3 DEF Ended
  <2>2. ASSUME NEW k \in 1 .. Len(p), p[k].kind = "end" PROVE Ended(q)
    <3>1. k + 1 \in DOMAIN q /\ p[k] = q[k + 1]
      BY <1>1, <1>2
    <3> QED BY <2>2, <3>1 DEF Ended
  <2> QED BY <1>1, <2>1, <2>2 DEF Ended
<1>7. ASSUME Sound(q) PROVE Sound(p)
  <2>1. ASSUME NEW k \in 1 .. Len(p) PROVE p[k].ok /\ p[k].series = series
    <3>1. k + 1 \in DOMAIN q /\ p[k] = q[k + 1]
      BY <1>1, <1>2
    <3> QED BY <1>7, <3>1 DEF Sound
  <2> QED BY <1>1, <2>1 DEF Sound
<1> QED BY <1>4, <1>5, <1>6, <1>7 DEF p

(* The end message is the last.                                            *)
LEMMA FramesEnd ==
    ASSUME NEW q \in Seq(Part), NEW n \in Nat \ {0}, Frames(q, 0, n),
           q # <<>>, q[1].kind = "end"
    PROVE  SubSeq(q, 2, Len(q)) = <<>> /\ ImagesIn(q) = {}
<1>1. Len(q) \in Nat /\ Len(q) >= 1 /\ DOMAIN q = 1 .. Len(q)
  OBVIOUS
<1>2. Len(q) = 1
  <2>1. 1 \in 1 .. Len(q)
    BY <1>1
  <2> QED BY <2>1 DEF Frames, EndsLast
<1>3. SubSeq(q, 2, Len(q)) = <<>>
  BY <1>2, SubSeqEmpty
<1>4. ImagesIn(q) = {}
  BY <1>1, <1>2 DEF ImagesIn, IsImage
<1> QED BY <1>3, <1>4

(* A message that is not malformed follows those that are not.             *)
LEMMA FramesAppend ==
    ASSUME NEW q \in Seq(Part), NEW b \in Nat, NEW n \in Nat \ {0},
           Frames(q, b, n), ~Ended(q),
           NEW m \in Seq(Part), Len(m) \in Nat \ {0}, Begins(m[1]),
           \A k \in 2 .. Len(m) : ~Begins(m[k]),
           IF m[1].kind = "image" THEN Len(m) = n ELSE Len(m) = 1
    PROVE  /\ Frames(q \o m, b, n)
           /\ ImagesIn(q \o m) =
                 ImagesIn(q) \cup (IF m[1].kind = "image" THEN {m[1].num} ELSE {})
           /\ Ended(q \o m) <=> m[1].kind = "end"
<1> DEFINE p == q \o m
           a == Len(q)
           c == Len(m)
<1>1. /\ Len(p) = a + c /\ a \in Nat /\ c \in Nat \ {0}
      /\ DOMAIN p = 1 .. a + c /\ DOMAIN q = 1 .. a
      /\ \A k \in 1 .. a : p[k] = q[k]
      /\ \A k \in 1 .. c : p[a + k] = m[k]
  BY ConcatFacts
<1> HIDE DEF p, a, c
<1>2. p[a + 1] = m[1] /\ a + 1 \in 1 .. a + c
  BY <1>1
<1>3. ASSUME NEW k \in a + 2 .. a + c PROVE ~Begins(p[k])
  <2>1. k - a \in 2 .. c /\ k - a \in 1 .. c /\ a + (k - a) = k
    BY <1>1
  <2> QED BY <1>1, <2>1 DEF c
<1>4. \A k \in 1 .. a + c : k \in 1 .. a \/ k = a + 1 \/ k \in a + 2 .. a + c
  BY <1>1
<1>5. Frames(p, b, n)
  <2>1. b <= a /\ b <= Len(p) /\ \A k \in 1 .. b : ~Begins(p[k])
    <3>1. b <= a /\ \A k \in 1 .. b : ~Begins(q[k])
      BY DEF Frames, Leads, a
    <3> QED BY <1>1, <3>1
  <2>2. Begins(p[b + 1])
    <3>1. CASE b < a
      <4>1. Begins(q[b + 1]) /\ b + 1 \in 1 .. a
        <5>1. b < Len(q) => Begins(q[b + 1])
          BY DEF Frames, Leads
        <5> QED BY <1>1, <3>1, <5>1 DEF a
      <4> QED BY <1>1, <4>1
    <3>2. CASE b = a
      BY <1>2, <3>2
    <3> QED BY <1>1, <2>1, <3>1, <3>2
  <2>3. ASSUME NEW k \in 1 .. Len(p), p[k].kind = "image"
        PROVE  /\ k + n <= Len(p) + 1
               /\ \A i \in k + 1 .. k + n - 1 : ~Begins(p[i])
               /\ k + n <= Len(p) => Begins(p[k + n])
    <3>1. CASE k \in 1 .. a
      <4>1. /\ k + n <= a + 1
            /\ \A i \in k + 1 .. k + n - 1 : ~Begins(q[i])
            /\ k + n <= a => Begins(q[k + n])
        <5>1. k \in 1 .. Len(q) /\ q[k].kind = "image"
          BY <1>1, <2>3, <3>1 DEF a
        <5> QED BY <5>1 DEF Frames, Whole, a
      <4>2. ASSUME NEW i \in k + 1 .. k + n - 1 PROVE ~Begins(p[i])
        <5>1. i \in 1 .. a
          BY <1>1, <3>1, <4>1
        <5> QED BY <1>1, <4>1, <5>1
      <4>3. Begins(p[k + n])
        <5>1. CASE k + n <= a
          <6>1. k + n \in 1 .. a
            BY <1>1, <5>1
          <6> QED BY <1>1, <4>1, <5>1, <6>1
        <5>2. CASE k + n = a + 1
          BY <1>2, <5>2
        <5> QED BY <1>1, <4>1, <5>1, <5>2
      <4> QED BY <1>1, <4>1, <4>2, <4>3
    <3>2. CASE k = a + 1
      <4>1. c = n
        BY <1>2, <2>3, <3>2 DEF c
      <4> QED BY <1>1, <1>3, <3>2, <4>1
    <3>3. CASE k \in a + 2 .. a + c
      BY <1>3, <2>3, <3>3 DEF Begins
    <3> QED BY <1>1, <1>4, <3>1, <3>2, <3>3
  <2>4. ASSUME NEW k \in 1 .. Len(p), p[k].kind = "end" PROVE k = Len(p)
    <3>1. CASE k \in 1 .. a
      BY <1>1, <2>4, <3>1 DEF Ended
    <3>2. CASE k = a + 1
      <4>1. c = 1
        BY <1>2, <2>4, <3>2 DEF c
      <4> QED BY <1>1, <3>2, <4>1
    <3>3. CASE k \in a + 2 .. a + c
      BY <1>3, <2>4, <3>3 DEF Begins
    <3> QED BY <1>1, <1>4, <3>1, <3>2, <3>3
  <2>5. Leads(p, b)
    BY <2>1, <2>2 DEF Leads
  <2> QED BY <2>3, <2>4, <2>5 DEF Frames, Whole, EndsLast
<1>6. ImagesIn(p) = ImagesIn(q) \cup (IF m[1].kind = "image" THEN {m[1].num} ELSE {})
  <2>1. ASSUME NEW k \in 1 .. a + c, IsImage(p[k]) PROVE k \in 1 .. a \/ k = a + 1
    BY <1>3, <1>4, <2>1 DEF IsImage, Begins
  <2>2. {k \in DOMAIN p : IsImage(p[k])} =
            {k \in DOMAIN q : IsImage(q[k])}
            \cup (IF m[1].kind = "image" THEN {a + 1} ELSE {})
    <3>1. 1 .. a \subseteq 1 .. a + c
      BY <1>1
    <3>2. ASSUME NEW k \in 1 .. a PROVE IsImage(p[k]) <=> IsImage(q[k])
      BY <1>1, <3>2 DEF IsImage
    <3>3. IsImage(p[a + 1]) <=> m[1].kind = "image"
      BY <1>2 DEF IsImage
    <3>4. {k \in 1 .. a + c : IsImage(p[k])} =
            {k \in 1 .. a : IsImage(q[k])}
            \cup (IF m[1].kind = "image" THEN {a + 1} ELSE {})
      BY <1>2, <2>1, <3>1, <3>2, <3>3
    <3> QED BY <1>1, <3>4
  <2> DEFINE old == {k \in DOMAIN q : IsImage(q[k])}
             new == IF m[1].kind = "image" THEN {a + 1} ELSE {}
  <2>3. ImagesIn(p) = {p[k].num : k \in old} \cup {p[k].num : k \in new}
    <3> HIDE DEF old, new
    <3>1. {k \in DOMAIN p : IsImage(p[k])} = old \cup new
      BY <2>2 DEF old, new
    <3> QED BY <3>1 DEF ImagesIn
  <2>4. {p[k].num : k \in old} = ImagesIn(q)
    BY <1>1 DEF ImagesIn
  <2>5. {p[k].num : k \in new} = IF m[1].kind = "image" THEN {m[1].num} ELSE {}
    BY <1>2
  <2> QED BY <2>3, <2>4, <2>5
<1>7. Ended(p) <=> m[1].kind = "end"
  <2>1. ASSUME NEW k \in 1 .. a + c, p[k].kind = "end" PROVE k = a + 1
    <3>1. k \notin 1 .. a
      BY <1>1, <2>1 DEF Ended
    <3> QED BY <1>3, <1>4, <2>1, <3>1 DEF Begins
  <2> QED BY <1>1, <1>2, <2>1 DEF Ended
<1> QED BY <1>5, <1>6, <1>7 DEF p
-----------------------------------------------------------------------------
(* What a step that sends nothing and reads nothing keeps of Clean.        *)
LEMMA StillClean ==
    ASSUME Clean, UNCHANGED <<socket, streamVersion, version, series, sent, detector,
                              image, thresh, streamPc, mStreamEvent, mStreamDoneEvent,
                              mStreamComplete, published>>,
           ctlPc' = ctlPc \/ (ctlPc = "acquire" /\ ctlPc' = "join")
    PROVE  Clean'
<1>1. UNCHANGED <<Queue, Unread, Finished, InHand, PartsOfImage, NumThresholds>>
  BY DEF Queue, Unread, Finished, InHand, PartsOfImage, NumThresholds
<1>2. CleanSockets'
  BY <1>1 DEF Clean, CleanSockets, Sound, ImagesIn
<1>3. CleanUnread'
  BY <1>1 DEF Clean, CleanUnread, PartsOfHeader
<1>4. CleanFrames'
  BY <1>1 DEF Clean, CleanFrames
<1>5. CleanEnd'
  BY <1>1 DEF Clean, CleanEnd
<1>6. CleanPublished'
  BY <1>1 DEF Clean, CleanPublished
<1> QED BY <1>2, <1>3, <1>4, <1>5, <1>6 DEF Clean

(* Between acquisitions only the sockets matter.                           *)
LEMMA IdleClean ==
    ASSUME Handshake', ctlPc' = "idle", \A v \in Versions : socket'[v] = <<>>
    PROVE  Clean'
<1>1. streamPc' = "wait"
  BY DEF Handshake, Working
<1> QED BY <1>1 DEF Clean, CleanSockets, CleanUnread, CleanFrames, CleanEnd, CleanPublished

(* Armed, the detector has sent the header and nothing else.               *)
LEMMA HeaderFrames ==
    ASSUME NEW m, NEW s \in Nat, NEW n \in Nat, IsMessage(m, "header", s, n, "none")
    PROVE  /\ m # <<>> /\ m[1].kind = "header"
           /\ Frames(m, PartsOfHeader(m), PartsOfImage)
           /\ ImagesIn(m) = {} /\ ~Ended(m)
<1>1. /\ m \in Seq(Part) /\ Len(m) \in Nat \ {0} /\ DOMAIN m = 1 .. Len(m)
      /\ m[1].kind = "header" /\ Len(m) = PartsOfHeader(m)
      /\ \A k \in 2 .. Len(m) : m[k].kind \in {"detail", "shape", "data", "time"}
  BY DEF IsMessage
<1>2. \A k \in 1 .. Len(m) : m[k].kind \notin {"image", "end"}
  <2>1. \A k \in 1 .. Len(m) : k = 1 \/ k \in 2 .. Len(m)
    BY <1>1
  <2> QED BY <1>1, <2>1
<1>3. Leads(m, Len(m))
  BY <1>1, <1>2 DEF Leads, Begins
<1>4. Whole(m, PartsOfImage) /\ EndsLast(m)
  BY <1>2 DEF Whole, EndsLast
<1>5. Frames(m, PartsOfHeader(m), PartsOfImage)
  BY <1>1, <1>3, <1>4 DEF Frames
<1>6. m # <<>>
  BY <1>1
<1>7. ImagesIn(m) = {} /\ ~Ended(m)
  BY <1>1, <1>2 DEF ImagesIn, IsImage, Ended
<1> QED BY <1>1, <1>5, <1>6, <1>7

(* What is sent without a flaw.                                            *)
LEMMA TransmitClean ==
    ASSUME TypeInv, NEW kind \in {"header", "image", "end"}, NEW s \in Nat, NEW n \in Nat,
           Transmit(kind, s, n), flawed' = {}
    PROVE  /\ flawed = {}
           /\ \E m \in Seq(Part) :
                 /\ IsMessage(m, kind, s, n, "none")
                 /\ socket' = [socket EXCEPT ![streamVersion] = @ \o m]
<1>1. PICK flaw \in {"none"} \cup AllFlaws :
         /\ socket' = [socket EXCEPT ![streamVersion] = @ \o Message(kind, s, n, flaw)]
         /\ flawed' = IF flaw = "none" THEN flawed ELSE flawed \cup {streamVersion}
  BY ConstantsAssumption DEF Transmit
<1>2. flaw = "none" /\ flawed = {}
  BY <1>1
<1>3. IsMessage(Message(kind, s, n, flaw), kind, s, n, flaw)
  BY MessageFacts
<1>4. Message(kind, s, n, flaw) \in Seq(Part)
  BY <1>3 DEF IsMessage
<1> QED BY <1>1, <1>2, <1>3, <1>4

(* controlTask arms the detector.                                          *)
LEMMA ArmClean ==
    ASSUME TypeInv, Handshake, Handshake', Clean, CtlArm, flawed' = {} PROVE Clean'
<1>1. PICK n \in HeaderDetails : Transmit("header", series', n)
  BY DEF CtlArm
<1>2. /\ n \in Nat /\ series' \in Nat /\ ctlPc = "idle" /\ ctlPc' = "armed"
      /\ sent' = {} /\ detector' = "armed"
      /\ UNCHANGED <<streamVersion, streamPc, mStreamEvent, mStreamDoneEvent>>
  BY ConstantsAssumption DEF CtlArm, TypeInv, clientVars, eventVars, taskVars
<1>3. PICK m \in Seq(Part) :
         /\ IsMessage(m, "header", series', n, "none")
         /\ socket' = [socket EXCEPT ![streamVersion] = @ \o m]
  BY <1>1, <1>2, TransmitClean
<1>4. \A v \in Versions : socket[v] = <<>>
  BY <1>2 DEF Clean, CleanSockets
<1>5. Queue' = m /\ \A v \in Versions : v # streamVersion => socket'[v] = <<>>
  <2>1. <<>> \o m = m
    OBVIOUS
  <2> QED BY <1>2, <1>3, <1>4, <2>1 DEF TypeInv, Queue
<1>6. /\ m # <<>> /\ m[1].kind = "header"
      /\ Frames(m, PartsOfHeader(m), PartsOfImage)
      /\ ImagesIn(m) = {} /\ ~Ended(m)
  BY <1>2, <1>3, HeaderFrames
<1>7. \A k \in DOMAIN m : m[k].ok /\ m[k].series = series'
  BY <1>3 DEF IsMessage
<1>8. streamPc' = "wait" /\ ~mStreamDoneEvent'
  BY <1>2 DEF Handshake, Working
<1>9. PartsOfHeader(m)' = PartsOfHeader(m) /\ PartsOfImage' = PartsOfImage
  BY <1>2 DEF PartsOfHeader, PartsOfImage
<1>10. CleanSockets'
  BY <1>2, <1>5, <1>6, <1>7 DEF CleanSockets, Sound
<1>11. CleanUnread'
  BY <1>2, <1>5, <1>6, <1>9 DEF CleanUnread, PartsOfHeader
<1>12. CleanFrames'
  BY <1>8 DEF CleanFrames
<1>13. CleanEnd'
  BY <1>2, <1>5, <1>6, <1>8 DEF CleanEnd, Finished
<1>14. CleanPublished'
  BY <1>2 DEF CleanPublished
<1> QED BY <1>10, <1>11, <1>12, <1>13, <1>14 DEF Clean

(* Another message of the series, an image or the end, is sent.            *)
LEMMA SendClean ==
    ASSUME TypeInv, Handshake, Clean, ~misled, detector = "armed",
           NEW kind \in {"image", "end"}, NEW n \in Nat, NEW m \in Seq(Part),
           IsMessage(m, kind, series, n, "none"),
           socket' = [socket EXCEPT ![streamVersion] = @ \o m],
           n \notin sent,
           sent' = IF kind = "image" THEN sent \cup {n} ELSE sent,
           detector' = IF kind = "image" THEN "armed" ELSE "idle",
           UNCHANGED <<streamVersion, version, series, ctlPc, image, thresh, streamPc,
                       mStreamEvent, mStreamDoneEvent, mStreamComplete, published>>
    PROVE  Clean'
<1> DEFINE q == Queue
           new == IF kind = "image" THEN {n} ELSE {}
<1>1. /\ q \in Seq(Part) /\ Queue' = q \o m /\ streamVersion \in Versions
      /\ \A v \in Versions : v # streamVersion => socket'[v] = socket[v]
  BY DEF TypeInv, Queue
<1>2. ctlPc \in {"armed", "acquire"} /\ ctlPc' = ctlPc
  BY DEF Handshake, TypeInv
<1>3. /\ Len(m) \in Nat \ {0} /\ m[1].kind = kind /\ m[1].num = n
      /\ \A k \in 2 .. Len(m) : m[k].kind \in {"detail", "shape", "data", "time"}
      /\ \A k \in 1 .. Len(m) : m[k].ok /\ m[k].series = series
      /\ IF kind = "image" THEN Len(m) = PartsOfImage ELSE Len(m) = 1
  BY DEF IsMessage
<1>4. /\ Begins(m[1]) /\ \A k \in 2 .. Len(m) : ~Begins(m[k])
      /\ PartsOfImage \in Nat \ {0}
  BY <1>3 DEF Begins, PartsOfImage
<1>5. ~Finished /\ ~Ended(q) /\ Sound(q) /\ ImagesIn(q) \subseteq sent
  BY <1>2 DEF Clean, CleanEnd, CleanSockets
<1>6. UNCHANGED <<Unread, Finished, InHand, PartsOfImage, NumThresholds>>
  BY DEF Unread, Finished, InHand, PartsOfImage, NumThresholds
<1> HIDE DEF q
<1>7. /\ \A b \in Nat : Frames(q, b, PartsOfImage) => Frames(q \o m, b, PartsOfImage)
      /\ \A b \in Nat : Frames(q, b, PartsOfImage) => ImagesIn(q \o m) = ImagesIn(q) \cup new
      /\ \A b \in Nat : Frames(q, b, PartsOfImage) => (Ended(q \o m) <=> kind = "end")
  BY <1>1, <1>3, <1>4, <1>5, FramesAppend
<1>8. Sound(q \o m) /\ (q # <<>> => q \o m # <<>> /\ (q \o m)[1] = q[1])
  <2> DEFINE p == q \o m
             a == Len(q)
             c == Len(m)
  <2>1. /\ Len(p) = a + c /\ a \in Nat /\ c \in Nat \ {0}
        /\ DOMAIN p = 1 .. a + c /\ DOMAIN q = 1 .. a
        /\ \A k \in 1 .. a : p[k] = q[k]
        /\ \A k \in 1 .. c : p[a + k] = m[k]
    BY <1>1, <1>3, ConcatFacts
  <2>2. \A k \in 1 .. c : m[k].ok /\ m[k].series = series
    BY <1>3
  <2>3. q # <<>> => a # 0
    BY <1>1
  <2>4. p # <<>>
    <3>1. Len(p) # 0
      BY <2>1
    <3> HIDE DEF p
    <3> QED BY <3>1
  <2> HIDE DEF p, a, c
  <2>5. ASSUME NEW k \in 1 .. a + c PROVE p[k].ok /\ p[k].series = series
    <3>1. CASE k \in 1 .. a
      BY <1>5, <2>1, <3>1 DEF Sound
    <3>2. CASE k \notin 1 .. a
      <4>1. k - a \in 1 .. c /\ a + (k - a) = k
        BY <2>1, <3>2
      <4> QED BY <2>1, <2>2, <4>1
    <3> QED BY <3>1, <3>2
  <2>6. ASSUME q # <<>> PROVE p[1] = q[1]
    <3>1. 1 \in 1 .. a
      BY <2>1, <2>3, <2>6
    <3> QED BY <2>1, <3>1
  <2> QED BY <2>1, <2>4, <2>5, <2>6 DEF Sound, p
<1>9. \E b \in Nat : Frames(q, b, PartsOfImage)
  <2>1. CASE Unread
    <3>1. q # <<>> /\ Frames(q, PartsOfHeader(q), PartsOfImage)
      BY <1>2, <2>1 DEF Clean, CleanUnread, q
    <3>2. q[1] \in Part
      BY <1>1, <3>1
    <3>3. PartsOfHeader(q) \in Nat
      BY <3>2 DEF PartsOfHeader, Part
    <3> QED BY <3>1, <3>3
  <2>2. CASE streamPc = "frame"
    BY <2>2 DEF Clean, CleanFrames, q
  <2>3. CASE streamPc = "array"
    <3>1. PartsOfImage - 1 \in Nat
      BY <1>4
    <3> QED BY <2>3, <3>1 DEF Clean, CleanFrames, q
  <2>4. Unread \/ streamPc = "frame" \/ streamPc = "array"
    BY <1>2, <1>5 DEF Unread, Finished, Handshake, Working, TypeInv
  <2> QED BY <2>1, <2>2, <2>3, <2>4
<1>10. /\ ImagesIn(q \o m) = ImagesIn(q) \cup new
       /\ Ended(q \o m) <=> kind = "end"
  BY <1>7, <1>9
<1>11. CleanSockets'
  <2>1. Sound(Queue)' /\ ImagesIn(Queue') \subseteq sent'
    BY <1>1, <1>5, <1>8, <1>10 DEF Sound
  <2> QED BY <1>1, <1>2, <2>1 DEF Clean, CleanSockets
<1>12. CleanUnread'
  <2> SUFFICES ASSUME Unread
               PROVE  /\ q \o m # <<>> /\ (q \o m)[1].kind = "header"
                      /\ Frames(q \o m, PartsOfHeader(q \o m), PartsOfImage)
                      /\ ImagesIn(q \o m) = sent'
    BY <1>1, <1>6 DEF CleanUnread, PartsOfHeader
  <2>1. /\ q # <<>> /\ q[1].kind = "header" /\ ImagesIn(q) = sent
        /\ Frames(q, PartsOfHeader(q), PartsOfImage)
    BY <1>2 DEF Clean, CleanUnread, q
  <2>2. q[1] \in Part
    BY <1>1, <2>1
  <2>3. PartsOfHeader(q) \in Nat /\ PartsOfHeader(q \o m) = PartsOfHeader(q)
    BY <1>8, <2>1, <2>2 DEF PartsOfHeader, Part
  <2>4. Frames(q \o m, PartsOfHeader(q \o m), PartsOfImage)
    BY <1>7, <2>1, <2>3
  <2> QED BY <1>8, <1>10, <2>1, <2>4
<1>13. CleanFrames'
  <2>1. PartsOfImage - 1 \in Nat
    BY <1>4
  <2>2. ASSUME streamPc = "frame" PROVE Frames(q \o m, 0, PartsOfImage)
    BY <1>7, <2>2 DEF Clean, CleanFrames, q
  <2>3. ASSUME streamPc = "array"
        PROVE  /\ Frames(q \o m, PartsOfImage - 1, PartsOfImage)
               /\ image.num \in sent' \ ImagesIn(q \o m)
    <3>1. Frames(q, PartsOfImage - 1, PartsOfImage) /\ image.num \in sent \ ImagesIn(q)
      BY <2>3 DEF Clean, CleanFrames, q
    <3>2. image.num # n
      BY <3>1
    <3> QED BY <1>7, <1>10, <2>1, <3>1, <3>2
  <2> QED BY <1>1, <1>6, <2>2, <2>3 DEF Clean, CleanFrames
<1>14. CleanEnd'
  BY <1>1, <1>5, <1>6, <1>10 DEF CleanEnd
<1>15. CleanPublished'
  <2>1. sent' \ (ImagesIn(q \o m) \cup InHand) = sent \ (ImagesIn(q) \cup InHand)
    <3>1. CASE kind = "image"
      <4>1. n \in ImagesIn(q \o m) /\ sent' = sent \cup {n}
        BY <1>10, <3>1
      <4> QED BY <1>10, <3>1, <4>1
    <3>2. CASE kind = "end"
      BY <1>10, <3>2
    <3> QED BY <3>1, <3>2
  <2> QED BY <1>1, <1>2, <1>6, <2>1 DEF Clean, CleanPublished, q
<1> QED BY <1>11, <1>12, <1>13, <1>14, <1>15 DEF Clean

(* An acquisition begins with nothing published: the images that were sent *)
(* are still in the socket.                                                *)
LEMMA StartClean ==
    ASSUME TypeInv, Handshake, Clean, CtlStart PROVE Clean'
<1>1. /\ ctlPc = "armed" /\ ctlPc' = "acquire" /\ published' = {} /\ mStreamEvent' = TRUE
      /\ UNCHANGED <<socket, streamVersion, version, series, sent, detector, image, thresh,
                     streamPc, mStreamDoneEvent>>
  BY DEF CtlStart, clientVars, socketVars, detVars
<1>2. streamPc = "wait" /\ ~mStreamDoneEvent /\ Unread
  BY <1>1 DEF Handshake, Working, Unread
<1>3. UNCHANGED <<Queue, InHand, PartsOfImage, NumThresholds>> /\ InHand = {}
      /\ ~Finished /\ ~Finished'
  BY <1>1, <1>2 DEF Queue, InHand, PartsOfImage, NumThresholds, Finished
<1>4. CleanSockets'
  BY <1>1, <1>3 DEF Clean, CleanSockets, Sound
<1>5. CleanUnread'
  BY <1>1, <1>2, <1>3 DEF Clean, CleanUnread, PartsOfHeader
<1>6. CleanFrames'
  BY <1>1, <1>2 DEF CleanFrames
<1>7. CleanEnd'
  BY <1>1, <1>3 DEF Clean, CleanEnd
<1>8. CleanPublished'
  <2>1. sent \ (ImagesIn(Queue) \cup InHand) = {}
    BY <1>1, <1>2 DEF Clean, CleanUnread
  <2> QED BY <1>1, <1>3, <2>1 DEF CleanPublished
<1> QED BY <1>4, <1>5, <1>6, <1>7, <1>8 DEF Clean

(* streamTask takes the version that is set: nothing is published yet.     *)
LEMMA WakeClean ==
    ASSUME TypeInv, Handshake, Clean, StreamWake PROVE Clean'
<1>1. /\ streamPc = "wait" /\ mStreamEvent /\ streamPc' = "header" /\ ctlPc' = ctlPc
      /\ UNCHANGED <<socket, streamVersion, series, sent, detector, image, thresh,
                     mStreamDoneEvent, published>>
  BY DEF StreamWake, clientVars, socketVars, detVars, arrayVars
<1>2. ctlPc \in {"acquire", "join"} /\ ~mStreamDoneEvent /\ Unread /\ Unread'
  BY <1>1 DEF Handshake, Working, Unread, TypeInv
<1>3. UNCHANGED <<Queue, InHand, PartsOfImage>> /\ InHand = {} /\ ~Finished /\ ~Finished'
  BY <1>1, <1>2 DEF Queue, InHand, PartsOfImage, Finished
<1>4. CleanSockets'
  BY <1>1, <1>3 DEF Clean, CleanSockets, Sound
<1>5. CleanUnread'
  BY <1>1, <1>2, <1>3 DEF Clean, CleanUnread, PartsOfHeader
<1>6. CleanFrames'
  BY <1>1 DEF CleanFrames
<1>7. CleanEnd'
  BY <1>1, <1>3 DEF Clean, CleanEnd
<1>8. CleanPublished'
  <2>1. sent \ (ImagesIn(Queue) \cup InHand) = {}
    BY <1>2 DEF Clean, CleanUnread
  <2>2. published = {}
    BY <1>2, <1>3, <2>1 DEF Clean, CleanPublished
  <2> QED BY <1>1, <1>3, <2>1, <2>2 DEF CleanPublished
<1> QED BY <1>4, <1>5, <1>6, <1>7, <1>8 DEF Clean

(* The task reports, and has nothing left to read.                         *)
LEMMA EndClean ==
    ASSUME TypeInv, Handshake, Clean, StreamEnd PROVE Clean'
<1>1. /\ streamPc = "end" /\ streamPc' = "wait" /\ mStreamDoneEvent'
      /\ UNCHANGED <<socket, streamVersion, version, series, sent, detector, image, thresh,
                     mStreamEvent, mStreamComplete, published, ctlPc>>
  BY DEF StreamEnd, clientVars, socketVars, detVars, arrayVars
<1>2. UNCHANGED <<Queue, InHand, PartsOfImage, NumThresholds>> /\ Finished /\ Finished'
      /\ ctlPc \in {"acquire", "join"} /\ ~Unread'
  BY <1>1 DEF Queue, InHand, PartsOfImage, NumThresholds, Finished, Unread, Handshake,
              Working, TypeInv
<1>3. CleanSockets'
  BY <1>1, <1>2 DEF Clean, CleanSockets, Sound
<1>4. CleanUnread' /\ CleanFrames'
  BY <1>1, <1>2 DEF CleanUnread, CleanFrames
<1>5. CleanEnd'
  BY <1>1, <1>2 DEF Clean, CleanEnd
<1>6. CleanPublished'
  BY <1>1, <1>2 DEF Clean, CleanPublished
<1> QED BY <1>3, <1>4, <1>5, <1>6 DEF Clean

(* controlTask has waited: the socket is empty for the next acquisition.   *)
LEMMA JoinClean ==
    ASSUME TypeInv, Handshake', Clean, CtlJoin PROVE Clean'
<1>1. /\ ctlPc = "join" /\ ctlPc' = "idle" /\ mStreamDoneEvent
      /\ UNCHANGED <<socket, streamVersion>>
  BY DEF CtlJoin, clientVars, socketVars
<1>2. Queue = <<>> /\ \A v \in Versions : v # streamVersion => socket[v] = <<>>
  BY <1>1 DEF Clean, CleanEnd, CleanSockets, Finished
<1> QED BY <1>1, <1>2, IdleClean DEF Queue

(* The header and its details are read: the frames are next.               *)
LEMMA GetHeaderClean ==
    ASSUME TypeInv, Handshake, Clean, GetHeader PROVE Clean'
<1>1. /\ streamPc = "header"
      /\ UNCHANGED <<streamVersion, version, series, sent, detector, image, thresh,
                     mStreamEvent, mStreamDoneEvent, mStreamComplete, published, ctlPc>>
  BY DEF GetHeader, clientVars, detVars, eventVars, arrayVars
<1>2. /\ ctlPc \in {"acquire", "join"} /\ version = streamVersion /\ ~mStreamEvent
      /\ ~mStreamDoneEvent /\ Unread /\ Received = Queue
  BY <1>1 DEF Handshake, Working, Unread, Received, Queue, TypeInv
<1> DEFINE q == Queue
           p == q[1]
<1>3. /\ q \in Seq(Part) /\ q # <<>> /\ p \in Part /\ Head(Received) = p
      /\ p.kind = "header" /\ p.ok /\ Sound(q)
      /\ Frames(q, PartsOfHeader(q), PartsOfImage) /\ ImagesIn(q) = sent
  <2>1. q # <<>> /\ p.kind = "header"
        /\ Frames(q, PartsOfHeader(q), PartsOfImage) /\ ImagesIn(q) = sent
    BY <1>2 DEF Clean, CleanUnread
  <2>2. q \in Seq(Part) /\ p \in Part /\ Head(Received) = p
    BY <1>2, <2>1, ReceivedType
  <2>3. Sound(q) /\ 1 \in DOMAIN q
    BY <1>2, <2>1, <2>2 DEF Clean, CleanSockets
  <2> QED BY <2>1, <2>2, <2>3 DEF Sound
<1>4. streamPc' = "frame"
  <2>1. HeaderResults1(p) = {"success"} /\ HeaderResults2(p) = {"success"}
    BY <1>3 DEF HeaderResults1, HeaderResults2
  <2>2. PICK frameResult \in {"success"} : streamPc' = CASE frameResult = "success" -> "frame"
                                                  [] frameResult = "again" -> "header"
                                                  [] OTHER -> "end"
    BY <1>3, <2>1, Zenon DEF GetHeader
  <2> QED BY <2>2, Zenon
<1>5. 1 + SkippedParts(p) = PartsOfHeader(q) /\ PartsOfHeader(q) \in Nat
  BY <1>2, <1>3 DEF SkippedParts, PartsOfHeader, Part
<1> DEFINE r == SubSeq(q, PartsOfHeader(q) + 1, Len(q))
<1>6. /\ Queue' = r /\ \A v \in Versions : v # streamVersion => socket'[v] = socket[v]
  <2>1. DropParts(PartsOfHeader(q))
    BY <1>3, <1>5 DEF GetHeader
  <2> QED BY <1>1, <1>2, <2>1 DEF DropParts, Queue, TypeInv
<1>7. /\ Frames(r, 0, PartsOfImage) /\ ImagesIn(r) = ImagesIn(q)
      /\ Ended(r) <=> Ended(q)
      /\ Sound(r)
  <2>1. PartsOfImage \in Nat \ {0}
    BY DEF PartsOfImage
  <2> HIDE DEF q
  <2> QED BY <1>3, <1>5, <2>1, FramesDrop
<1> HIDE DEF q, r
<1>8. /\ UNCHANGED <<InHand, PartsOfImage, NumThresholds>> /\ InHand = {}
      /\ ~Finished /\ ~Finished' /\ ~Unread'
  BY <1>1, <1>2, <1>4 DEF InHand, PartsOfImage, NumThresholds, Finished, Unread
<1>9. CleanSockets'
  <2>1. Sound(Queue)' /\ ImagesIn(Queue') \subseteq sent'
    BY <1>1, <1>3, <1>6, <1>7 DEF Sound
  <2> QED BY <1>1, <1>2, <1>6, <2>1 DEF Clean, CleanSockets
<1>10. CleanUnread'
  BY <1>8 DEF CleanUnread
<1>11. CleanFrames'
  BY <1>4, <1>6, <1>7, <1>8 DEF CleanFrames
<1>12. CleanEnd'
  BY <1>1, <1>6, <1>7, <1>8 DEF Clean, CleanEnd, q
<1>13. CleanPublished'
  BY <1>1, <1>6, <1>7, <1>8 DEF Clean, CleanPublished, q
<1> QED BY <1>9, <1>10, <1>11, <1>12, <1>13 DEF Clean

(* The next image is taken in hand, or the end message was read: it is the *)
(* last, and so there is nothing left.                                     *)
LEMMA WaitFrameClean ==
    ASSUME TypeInv, Handshake, OrderInv, Clean, WaitFrame PROVE Clean'
<1>1. /\ streamPc = "frame" /\ thresh' = 0
      /\ UNCHANGED <<streamVersion, version, series, sent, detector,
                     mStreamEvent, mStreamDoneEvent, published, ctlPc>>
  BY DEF WaitFrame, clientVars, detVars, arrayVars
<1>2. /\ ctlPc \in {"acquire", "join"} /\ version = streamVersion /\ ~mStreamEvent
      /\ ~mStreamDoneEvent /\ Received = Queue
  BY <1>1 DEF Handshake, Working, Received, Queue, TypeInv
<1> DEFINE q == Queue
           p == q[1]
           r == SubSeq(q, 1 + 1, Len(q))
           n == PartsOfImage
<1>3. /\ q \in Seq(Part) /\ q # <<>> /\ p \in Part /\ Head(Received) = p
      /\ p.ok /\ p.series = series /\ Begins(p) /\ Sound(q)
      /\ Frames(q, 0, n) /\ ImagesIn(q) \subseteq sent /\ n \in Nat \ {0}
  <2>1. q # <<>> /\ Frames(q, 0, n) /\ Sound(q) /\ ImagesIn(q) \subseteq sent
    BY <1>1, <1>2 DEF Clean, CleanFrames, CleanSockets, WaitFrame
  <2>2. q \in Seq(Part) /\ p \in Part /\ Head(Received) = p
    BY <1>2, <2>1, ReceivedType
  <2>3. 1 \in DOMAIN q /\ 0 < Len(q)
    BY <2>1, <2>2
  <2>4. Begins(p)
    BY <2>1, <2>3 DEF Frames, Leads
  <2>5. p.ok /\ p.series = series
    BY <2>1, <2>3 DEF Sound
  <2>6. n \in Nat \ {0}
    BY DEF PartsOfImage
  <2> QED BY <2>1, <2>2, <2>4, <2>5, <2>6
<1>4. /\ Queue' = r /\ \A v \in Versions : v # streamVersion => socket'[v] = socket[v]
  BY <1>1, <1>2 DEF WaitFrame, DropParts, Queue, TypeInv
<1>5. UNCHANGED <<PartsOfImage, NumThresholds>> /\ InHand = {} /\ ~Finished
  BY <1>1, <1>2 DEF InHand, PartsOfImage, NumThresholds, Finished
<1>6. PICK frameResult \in FrameResults(p) :
         /\ streamPc' = CASE frameResult = "success" -> "array"
                          [] frameResult = "again" -> "frame"
                          [] frameResult = "end" -> "end"
                          [] OTHER -> AfterError
         /\ mStreamComplete' = (mStreamComplete \/ frameResult = "end")
         /\ image' = IF frameResult = "success" THEN [series |-> p.series, num |-> p.num]
                     ELSE image
  BY <1>3, Zenon DEF WaitFrame
<1>7. CASE p.kind = "image"
  <2>1. frameResult = "success"
    BY <1>3, <1>7 DEF FrameResults
  <2>2. streamPc' = "array"
    BY <1>6, <2>1, Zenon
  <2>3. image' = [series |-> series, num |-> p.num]
    BY <1>3, <1>6, <2>1
  <2>4. /\ Frames(r, n - 1, n)
        /\ ImagesIn(q) = ImagesIn(r) \cup {p.num}
        /\ Ended(r) <=> Ended(q)
        /\ Sound(r)
    <3> HIDE DEF q, n
    <3> QED BY <1>3, <1>7, FramesImage
  <2>5. p.num \notin ImagesIn(r)
    <3>1. Ordered(q)
      BY <1>2 DEF OrderInv, SocketOrder, Queue, TypeInv
    <3>2. After(r, p.series, p.num)
      BY <1>3, <1>7, <3>1, OrderHead DEF IsImage
    <3>3. r \in Seq(Part)
      BY <1>3, DropFacts
    <3> HIDE DEF r
    <3>4. ASSUME NEW k \in DOMAIN r, IsImage(r[k]) PROVE r[k].num # p.num
      <4>1. Earlier(p.series, p.num, r[k].series, r[k].num) /\ r[k].series = series
        BY <2>4, <3>2, <3>4 DEF After, Sound
      <4>2. r[k].num \in Nat /\ p.num \in Nat /\ series \in Nat
        <5>1. r[k] \in Part /\ p \in Part
          BY <1>3, <3>3
        <5> QED BY <5>1 DEF Part, TypeInv
      <4> QED BY <1>3, <4>1, <4>2 DEF Earlier
    <3> QED BY <3>4 DEF ImagesIn
  <2> HIDE DEF q, r, n
  <2>6. InHand' = {p.num} /\ ~Finished' /\ ~Unread'
    BY <1>1, <1>2, <2>2, <2>3 DEF InHand, Finished, Unread
  <2>7. CleanSockets'
    <3>1. Sound(Queue)' /\ ImagesIn(Queue') \subseteq sent'
      BY <1>1, <1>3, <1>4, <2>4 DEF Sound
    <3> QED BY <1>1, <1>2, <1>4, <3>1 DEF Clean, CleanSockets
  <2>8. CleanUnread'
    BY <2>6 DEF CleanUnread
  <2>9. CleanFrames'
    <3>1. thresh' < NumThresholds'
      BY <1>1, <1>5, ConstantsAssumption DEF NumThresholds
    <3>2. Frames(Queue', PartsOfImage' - 1, PartsOfImage')
      BY <1>4, <1>5, <2>4 DEF n
    <3>3. image'.series = series' /\ image'.num \in sent' \ ImagesIn(Queue')
      BY <1>1, <1>3, <1>4, <2>3, <2>4, <2>5
    <3> QED BY <2>2, <3>1, <3>2, <3>3 DEF CleanFrames
  <2>10. CleanEnd'
    BY <1>1, <1>4, <1>5, <2>4, <2>6 DEF Clean, CleanEnd, q
  <2>11. CleanPublished'
    <3>1. sent \ (ImagesIn(q) \cup {}) = sent \ (ImagesIn(r) \cup {p.num})
      BY <2>4
    <3>2. 0 .. thresh' - 1 = {}
      BY <1>1
    <3> QED BY <1>1, <1>2, <1>4, <1>5, <2>6, <3>1, <3>2 DEF Clean, CleanPublished, q
  <2> QED BY <2>7, <2>8, <2>9, <2>10, <2>11 DEF Clean
<1>8. CASE p.kind = "end"
  <2>1. frameResult = "end"
    BY <1>3, <1>8 DEF FrameResults
  <2>2. streamPc' = "end" /\ mStreamComplete'
    BY <1>6, <2>1, Zenon
  <2>3. r = <<>> /\ ImagesIn(q) = {}
    <3> HIDE DEF q, n
    <3> QED BY <1>3, <1>8, FramesEnd
  <2>4. detector = "idle"
    <3>1. Ended(q)
      BY <1>3, <1>8 DEF Ended
    <3> QED BY <1>2, <1>5, <3>1 DEF Clean, CleanEnd
  <2> HIDE DEF q, r, n
  <2>5. ImagesIn(r) = {} /\ InHand' = {} /\ Finished' /\ ~Unread'
    BY <1>1, <1>2, <2>2, <2>3 DEF ImagesIn, InHand, Finished, Unread
  <2>6. CleanSockets'
    <3>1. Sound(Queue)' /\ ImagesIn(Queue') \subseteq sent'
      BY <1>4, <2>3, <2>5 DEF Sound
    <3> QED BY <1>1, <1>2, <1>4, <3>1 DEF Clean, CleanSockets
  <2>7. CleanUnread' /\ CleanFrames'
    BY <2>2, <2>5 DEF CleanUnread, CleanFrames
  <2>8. CleanEnd'
    BY <1>1, <1>4, <2>2, <2>3, <2>4, <2>5 DEF CleanEnd
  <2>9. CleanPublished'
    BY <1>1, <1>2, <1>4, <1>5, <2>3, <2>5 DEF Clean, CleanPublished, q
  <2> QED BY <2>6, <2>7, <2>8, <2>9 DEF Clean
<1> QED BY <1>3, <1>7, <1>8 DEF Begins

(* One more array of the image in hand.                                    *)
LEMMA OneMoreArray ==
    ASSUME NEW A, NEW s, NEW i, NEW t \in Nat, NEW c \in Nat, t < c, NEW P,
           P = [series : {s}, image : A, thresh : 0 .. c - 1]
               \cup [series : {s}, image : {i}, thresh : 0 .. t - 1]
    PROVE  P \cup {[series |-> s, image |-> i, thresh |-> t]} =
             [series : {s}, image : A, thresh : 0 .. c - 1]
             \cup [series : {s}, image : {i}, thresh : 0 .. (t + 1) - 1]
<1> DEFINE a == [series |-> s, image |-> i, thresh |-> t]
<1>1. 0 .. (t + 1) - 1 = (0 .. t - 1) \cup {t}
  OBVIOUS
<1>2. [series : {s}, image : {i}, thresh : (0 .. t - 1) \cup {t}] =
        [series : {s}, image : {i}, thresh : 0 .. t - 1] \cup {a}
  <2> DEFINE U == 0 .. t - 1
  <2> HIDE DEF U
  <2>1. [series : {s}, image : {i}, thresh : U \cup {t}] =
          [series : {s}, image : {i}, thresh : U] \cup {a}
    <3>1. ASSUME NEW x \in [series : {s}, image : {i}, thresh : U \cup {t}]
          PROVE  x \in [series : {s}, image : {i}, thresh : U] \cup {a}
      <4>1. x = [series |-> s, image |-> i, thresh |-> x.thresh] /\ x.thresh \in U \cup {t}
        OBVIOUS
      <4>2. CASE x.thresh = t
        BY <4>1, <4>2
      <4>3. CASE x.thresh \in U
        BY <4>1, <4>3
      <4> QED BY <4>1, <4>2, <4>3
    <3>2. a \in [series : {s}, image : {i}, thresh : U \cup {t}]
      OBVIOUS
    <3>3. [series : {s}, image : {i}, thresh : U] \subseteq
            [series : {s}, image : {i}, thresh : U \cup {t}]
      OBVIOUS
    <3> HIDE DEF a
    <3> QED BY <3>1, <3>2, <3>3
  <2> QED BY <2>1 DEF U
<1> QED BY <1>1, <1>2

(* The arrays of one more image.                                           *)
LEMMA OneMoreImage ==
    ASSUME NEW A, NEW s, NEW i, NEW U
    PROVE  [series : {s}, image : A, thresh : U] \cup [series : {s}, image : {i}, thresh : U]
             = [series : {s}, image : A \cup {i}, thresh : U]
OBVIOUS

(* The image in hand is published; with its last threshold the next        *)
(* message is next.                                                        *)
LEMMA GetFrameClean ==
    ASSUME TypeInv, Handshake, Clean, GetFrame PROVE Clean'
<1> DEFINE q == Queue
           n == PartsOfImage
           d == IF version = 1 THEN 3 ELSE 0
           r == SubSeq(q, d + 1, Len(q))
           i == image.num
           a == [series |-> image.series, image |-> image.num, thresh |-> thresh]
           c == NumThresholds
<1>1. /\ streamPc = "array" /\ thresh' = thresh + 1
      /\ published' = published \cup {a}
      /\ streamPc' = IF thresh + 1 = c THEN "frame" ELSE "array"
      /\ UNCHANGED <<streamVersion, version, series, sent, detector, image,
                     mStreamEvent, mStreamDoneEvent, mStreamComplete, ctlPc>>
  BY DEF GetFrame, Publish, NextThreshold, clientVars, detVars, eventVars
<1>2. /\ ctlPc \in {"acquire", "join"} /\ version = streamVersion /\ ~mStreamEvent
      /\ ~mStreamDoneEvent /\ Received = Queue
  BY <1>1 DEF Handshake, Working, Received, Queue, TypeInv
<1>3. /\ q \in Seq(Part) /\ n \in Nat \ {0} /\ d = n - 1 /\ d \in Nat
      /\ Sound(q) /\ ImagesIn(q) \subseteq sent /\ Frames(q, d, n)
      /\ image.series = series /\ i \in sent \ ImagesIn(q)
      /\ thresh \in Nat /\ thresh < c /\ c \in Nat
  <2>1. n \in Nat \ {0} /\ d = n - 1 /\ d \in Nat
    BY <1>2 DEF PartsOfImage, TypeInv, Versions
  <2>2. Frames(q, n - 1, n) /\ image.series = series /\ i \in sent \ ImagesIn(q)
        /\ thresh < c
    BY <1>1 DEF Clean, CleanFrames
  <2>3. Frames(q, d, n)
    BY <2>1, <2>2
  <2>4. q \in Seq(Part) /\ thresh \in Nat
    BY DEF TypeInv, Queue
  <2>5. Sound(q) /\ ImagesIn(q) \subseteq sent
    BY <1>2 DEF Clean, CleanSockets
  <2>6. c \in Nat
    BY ConstantsAssumption DEF NumThresholds
  <2> QED BY <2>1, <2>2, <2>3, <2>4, <2>5, <2>6
<1>4. /\ Queue' = r /\ \A v \in Versions : v # streamVersion => socket'[v] = socket[v]
  <2>1. DropParts(d)
    BY DEF GetFrame
  <2> HIDE DEF d
  <2> QED BY <1>1, <1>2, <2>1 DEF DropParts, Queue, TypeInv
<1>5. /\ Frames(r, 0, n) /\ ImagesIn(r) = ImagesIn(q)
      /\ Ended(r) <=> Ended(q)
      /\ Sound(r)
  <2> HIDE DEF q, n, d
  <2> QED BY <1>3, FramesDrop
<1>6. /\ UNCHANGED <<PartsOfImage, NumThresholds>> /\ InHand = {i} /\ ~Finished
      /\ InHand' = IF thresh + 1 = c THEN {} ELSE {i}
      /\ ~Finished' /\ ~Unread'
  BY <1>1, <1>2 DEF InHand, PartsOfImage, NumThresholds, Finished, Unread
<1>7. thresh + 1 # c => n = 1
  <2>1. CASE version = 1
    <3>1. c = 1
      BY <2>1 DEF NumThresholds
    <3> HIDE DEF c
    <3> QED BY <1>3, <3>1
  <2>2. CASE version # 1
    BY <1>2, <2>2 DEF PartsOfImage
  <2> QED BY <2>1, <2>2
<1> HIDE DEF q, r, n, d, c, i
<1>8. CleanSockets'
  <2>1. Sound(Queue)' /\ ImagesIn(Queue') \subseteq sent'
    BY <1>1, <1>3, <1>4, <1>5 DEF Sound
  <2> QED BY <1>1, <1>2, <1>4, <2>1 DEF Clean, CleanSockets
<1>9. CleanUnread'
  BY <1>6 DEF CleanUnread
<1>10. CleanFrames'
  <2>1. CASE thresh + 1 = c
    BY <1>1, <1>4, <1>5, <1>6, <2>1 DEF CleanFrames, n
  <2>2. CASE thresh + 1 # c
    <3>1. Frames(Queue', PartsOfImage' - 1, PartsOfImage')
      BY <1>4, <1>5, <1>6, <1>7, <2>2 DEF n
    <3>2. thresh' < NumThresholds'
      BY <1>1, <1>3, <1>6, <2>2 DEF c
    <3>3. image'.series = series' /\ image'.num \in sent' \ ImagesIn(Queue')
      BY <1>1, <1>3, <1>4, <1>5 DEF i
    <3> QED BY <1>1, <2>2, <3>1, <3>2, <3>3 DEF CleanFrames
  <2> QED BY <2>1, <2>2
<1>11. CleanEnd'
  BY <1>1, <1>4, <1>5, <1>6 DEF Clean, CleanEnd, q
<1>12. CleanPublished'
  <2> DEFINE A == sent \ (ImagesIn(q) \cup {i})
  <2>1. published = [series : {series}, image : A, thresh : 0 .. c - 1]
                      \cup [series : {series}, image : {i}, thresh : 0 .. thresh - 1]
    BY <1>2, <1>6 DEF Clean, CleanPublished, q, c
  <2>2. a = [series |-> series, image |-> i, thresh |-> thresh]
    BY <1>3 DEF i
  <2> HIDE DEF A, a
  <2>3. /\ published' = [series : {series}, image : A, thresh : 0 .. c - 1]
             \cup [series : {series}, image : {i}, thresh : 0 .. (thresh + 1) - 1]
        /\ thresh + 1 = c =>
             published' = [series : {series}, image : A \cup {i}, thresh : 0 .. c - 1]
    <3>1. published' = published \cup {[series |-> series, image |-> i, thresh |-> thresh]}
      BY <1>1, <2>2
    <3>2. published \cup {[series |-> series, image |-> i, thresh |-> thresh]} =
            [series : {series}, image : A, thresh : 0 .. c - 1]
            \cup [series : {series}, image : {i}, thresh : 0 .. (thresh + 1) - 1]
      BY <1>3, <2>1, OneMoreArray
    <3>3. ASSUME thresh + 1 = c
          PROVE  published \cup {[series |-> series, image |-> i, thresh |-> thresh]} =
                   [series : {series}, image : A \cup {i}, thresh : 0 .. c - 1]
      <4>1. (thresh + 1) - 1 = c - 1
        BY <3>3
      <4> DEFINE U == 0 .. c - 1
      <4>2. published \cup {[series |-> series, image |-> i, thresh |-> thresh]} =
              [series : {series}, image : A, thresh : U]
              \cup [series : {series}, image : {i}, thresh : U]
        BY <3>2, <4>1
      <4> HIDE DEF U
      <4>3. [series : {series}, image : A, thresh : U]
              \cup [series : {series}, image : {i}, thresh : U]
              = [series : {series}, image : A \cup {i}, thresh : U]
        BY OneMoreImage
      <4> QED BY <4>2, <4>3 DEF U
    <3> QED BY <3>1, <3>2, <3>3
  <2>4. CASE thresh + 1 = c
    <3>1. A \cup {i} = sent \ (ImagesIn(r) \cup {})
      BY <1>3, <1>5 DEF A
    <3> QED BY <1>1, <1>4, <1>6, <2>3, <2>4, <3>1 DEF CleanPublished, c
  <2>5. CASE thresh + 1 # c
    <3>1. A = sent \ (ImagesIn(r) \cup {i})
      BY <1>5 DEF A
    <3> QED BY <1>1, <1>4, <1>6, <2>3, <2>5, <3>1 DEF CleanPublished, c
  <2> QED BY <2>4, <2>5
<1> QED BY <1>8, <1>9, <1>10, <1>11, <1>12 DEF Clean

(* A step keeps what holds while nothing is malformed.                     *)
LEMMA CleanStep == StreamInv /\ [Next]_vars => CleanInv'
<1> SUFFICES ASSUME StreamInv, [Next]_vars, flawed' = {}, ~misled' PROVE Clean'
  BY DEF CleanInv
<1> USE DEF clientVars, detVars, eventVars, arrayVars, taskVars, socketVars, vars
<1>0. /\ TypeInv /\ Handshake /\ OrderInv /\ Handshake'
      /\ flawed = {} /\ ~misled => Clean
  BY HandshakeStep DEF StreamInv, CleanInv
<1>1. CASE Expose
  <2>1. ~misled /\ detector = "armed"
        /\ UNCHANGED <<streamVersion, version, series, detector, ctlPc, image, thresh,
                       streamPc, mStreamEvent, mStreamDoneEvent, mStreamComplete, published>>
    BY <1>1 DEF Expose
  <2>2. CASE sent' = sent \cup {taken'} /\ Transmit("image", series, taken')
    <3>1. taken + 1 \in Nat /\ taken' = taken + 1 /\ series \in Nat /\ taken' \notin sent
      BY <1>0, <1>1 DEF Expose, TypeInv
    <3>2. Transmit("image", series, taken + 1) /\ sent' = sent \cup {taken + 1}
          /\ taken + 1 \notin sent
      BY <2>2, <3>1
    <3>3. flawed = {} /\ \E m \in Seq(Part) :
             /\ IsMessage(m, "image", series, taken + 1, "none")
             /\ socket' = [socket EXCEPT ![streamVersion] = @ \o m]
      BY <1>0, <3>1, <3>2, TransmitClean
    <3>4. PICK m \in Seq(Part) :
             /\ IsMessage(m, "image", series, taken + 1, "none")
             /\ socket' = [socket EXCEPT ![streamVersion] = @ \o m]
      BY <3>3
    <3> QED BY <1>0, <2>1, <3>1, <3>2, <3>3, <3>4, SendClean
  <2>3. CASE UNCHANGED <<sent, socket, flawed>>
    BY <1>0, <2>1, <2>3, StillClean
  <2> QED BY <1>1, <2>2, <2>3 DEF Expose
<1>2. CASE DetectorEnds
  <2>1. /\ ~misled /\ detector = "armed" /\ detector' = "idle"
        /\ Transmit("end", series, 0)
        /\ UNCHANGED <<streamVersion, version, series, sent, ctlPc, image, thresh,
                       streamPc, mStreamEvent, mStreamDoneEvent, mStreamComplete, published>>
    BY <1>2 DEF DetectorEnds
  <2>2. series \in Nat /\ 0 \notin sent
    BY <1>0 DEF TypeInv
  <2>3. flawed = {} /\ \E m \in Seq(Part) :
           /\ IsMessage(m, "end", series, 0, "none")
           /\ socket' = [socket EXCEPT ![streamVersion] = @ \o m]
    BY <1>0, <2>1, <2>2, TransmitClean
  <2>4. PICK m \in Seq(Part) :
           /\ IsMessage(m, "end", series, 0, "none")
           /\ socket' = [socket EXCEPT ![streamVersion] = @ \o m]
    BY <2>3
  <2> QED BY <1>0, <2>1, <2>2, <2>3, <2>4, SendClean
<1>3. CASE WriteStream
  <2>1. ctlPc = "idle" /\ ctlPc' = "idle" /\ UNCHANGED <<socket, flawed, misled>>
    BY <1>3 DEF WriteStream
  <2>2. \A v \in Versions : socket'[v] = <<>>
    BY <1>0, <2>1 DEF Clean, CleanSockets
  <2> QED BY <1>0, <2>1, <2>2, IdleClean
<1>4. CASE WriteOther
  BY <1>0, <1>4, IdleClean DEF WriteOther
<1>5. CASE CtlArm
  <2>1. flawed = {} /\ ~misled
    <3>1. PICK n \in HeaderDetails : Transmit("header", series', n)
      BY <1>5 DEF CtlArm
    <3>2. n \in Nat /\ series' \in Nat
      BY <1>0, <1>5, ConstantsAssumption DEF CtlArm, TypeInv
    <3>3. flawed = {}
      BY <1>0, <3>1, <3>2, TransmitClean
    <3> QED BY <1>5, <3>3 DEF CtlArm
  <2> QED BY <1>0, <1>5, <2>1, ArmClean
<1>6. CASE CtlStart
  <2>1. flawed = {} /\ ~misled
    BY <1>6 DEF CtlStart
  <2> QED BY <1>0, <1>6, <2>1, StartClean
<1>7. CASE CtlDisarm
  BY <1>0, <1>7, StillClean DEF CtlDisarm
<1>8. CASE CtlJoin
  <2>1. flawed = {} /\ ~misled
    BY <1>8 DEF CtlJoin
  <2> QED BY <1>0, <1>8, <2>1, JoinClean
<1>9. CASE StreamWake
  <2>1. flawed = {} /\ ~misled
    BY <1>9 DEF StreamWake
  <2> QED BY <1>0, <1>9, <2>1, WakeClean
<1>10. CASE GetHeader
  <2>1. flawed = {} /\ ~misled
    BY <1>10 DEF GetHeader
  <2> QED BY <1>0, <1>10, <2>1, GetHeaderClean
<1>11. CASE WaitFrame
  <2>1. flawed = {} /\ ~misled
    BY <1>11 DEF WaitFrame
  <2> QED BY <1>0, <1>11, <2>1, WaitFrameClean
<1>12. CASE GetFrame
  <2>1. flawed = {} /\ ~misled
    BY <1>12 DEF GetFrame
  <2> QED BY <1>0, <1>12, <2>1, GetFrameClean
<1>13. CASE GetFrameFail
  BY <1>13 DEF GetFrameFail
<1>14. CASE StreamEnd
  <2>1. flawed = {} /\ ~misled
    BY <1>14 DEF StreamEnd
  <2> QED BY <1>0, <1>14, <2>1, EndClean
<1>15. CASE UNCHANGED vars
  BY <1>0, <1>15, StillClean
<1> QED BY <1>1, <1>2, <1>3, <1>4, <1>5, <1>6, <1>7, <1>8, <1>9, <1>10, <1>11, <1>12,
           <1>13, <1>14, <1>15 DEF Next, Control, Stream

(* StreamInv implies the property: the task has reported, so the version   *)
(* it read is the one set, and nothing is in hand or in the socket.        *)
LEMMA CleanSuffices == StreamInv => CompleteUnlessFlawed
<1> SUFFICES ASSUME StreamInv, mStreamDoneEvent, flawed = {}, ~misled
             PROVE  /\ mStreamComplete
                    /\ published = [series : {series}, image : sent,
                                    thresh : 0 .. NumThresholds - 1]
                    /\ Received = <<>>
  BY DEF CompleteUnlessFlawed
<1>1. TypeInv /\ Handshake /\ Clean
  BY DEF StreamInv, CleanInv
<1>2. ctlPc \in {"acquire", "join"} /\ version = streamVersion /\ streamPc = "wait"
  BY <1>1 DEF Handshake, Working, TypeInv
<1>3. Queue = <<>> /\ mStreamComplete /\ Received = Queue
  BY <1>1, <1>2 DEF Clean, CleanEnd, Finished, Received, Queue
<1>4. ImagesIn(Queue) = {} /\ InHand = {}
  BY <1>2, <1>3 DEF ImagesIn, InHand
<1>5. published = [series : {series}, image : sent, thresh : 0 .. NumThresholds - 1]
  BY <1>1, <1>2, <1>4 DEF Clean, CleanPublished
<1> QED BY <1>3, <1>5

(* Initially nothing is in the sockets.                                    *)
LEMMA InitClean == Init => CleanInv
BY DEF Init, CleanInv, Clean, CleanSockets, CleanUnread, CleanFrames, CleanEnd,
       CleanPublished

(* If nothing malformed has arrived since the client object was created    *)
(* and no array was missing, then when streamTask reports it has published *)
(* exactly the images that were sent, with all their thresholds, has seen  *)
(* the end message, and leaves nothing in the socket.                      *)
THEOREM AcquisitionsAreComplete == Spec => []CompleteUnlessFlawed
<1>1. Init => StreamInv
  BY InitOrder, InitClean DEF StreamInv
<1>2. StreamInv /\ [Next]_vars => StreamInv'
  BY TypeStep, HandshakeStep, OrderStep, CleanStep DEF StreamInv
<1> QED BY <1>1, <1>2, CleanSuffices, PTL DEF Spec

(***************************************************************************)
(* Stream2                                                                 *)
(***************************************************************************)

(* Induction over the naturals, for a set.                                 *)
LEMMA NatSetInduction ==
    ASSUME NEW S, 0 \in S, \A k \in Nat : k \in S => k + 1 \in S
    PROVE  Nat \subseteq S
<1> DEFINE bad == Nat \ S
<1> SUFFICES ASSUME bad # {} PROVE FALSE
  OBVIOUS
<1>1. PICK m \in bad : \A i \in bad : ~(<<i, m>> \in OpToRel(<, Nat))
  <2>1. bad \subseteq Nat
    OBVIOUS
  <2> HIDE DEF bad
  <2> QED BY <2>1, WFMin, NatLessThanWellFounded
<1>2. m \in Nat /\ m # 0
  OBVIOUS
<1>3. m - 1 \in Nat /\ (m - 1) + 1 = m /\ m - 1 < m
  BY <1>2
<1>4. m - 1 \notin bad
  <2>1. <<m - 1, m>> \in Nat \X Nat
    BY <1>2, <1>3
  <2>2. <<m - 1, m>> \in OpToRel(<, Nat)
    BY <1>3, <2>1 DEF OpToRel
  <2> QED BY <2>2, <1>1
<1> QED BY <1>2, <1>3, <1>4

(* The powers are computed by what defines them.                           *)
LEMMA PowerFunction ==
    ASSUME NEW base \in Nat, NEW n \in Nat
    PROVE  \E power : power = [k \in 0 .. n |-> IF k = 0 THEN 1 ELSE base * power[k - 1]]
<1> DEFINE IsPower(f, m) == f = [k \in 0 .. m |-> IF k = 0 THEN 1 ELSE base * f[k - 1]]
           S == {m \in Nat : \E f : IsPower(f, m)}
<1>1. 0 \in S
  <2> DEFINE f == [k \in 0 .. 0 |-> 1]
  <2>1. IsPower(f, 0)
    OBVIOUS
  <2> QED BY <2>1
<1>2. ASSUME NEW m \in Nat, m \in S PROVE m + 1 \in S
  <2>1. PICK f : IsPower(f, m)
    BY <1>2
  <2> DEFINE g == [k \in 0 .. m + 1 |-> IF k \in 0 .. m THEN f[k] ELSE base * f[m]]
  <2>2. ASSUME NEW k \in 0 .. m + 1 PROVE g[k] = IF k = 0 THEN 1 ELSE base * g[k - 1]
    <3>1. CASE k = 0
      BY <2>1, <3>1
    <3>2. CASE k \in 1 .. m
      BY <2>1, <3>2
    <3>3. CASE k = m + 1
      BY <3>3
    <3> QED BY <3>1, <3>2, <3>3
  <2>3. IsPower(g, m + 1)
    BY <2>2
  <2>4. \E h : IsPower(h, m + 1)
    <3> HIDE DEF IsPower, g
    <3> QED BY <2>3
  <2> QED BY <2>4
<1>3. n \in S
  <2> HIDE DEF S
  <2> QED BY <1>1, <1>2, NatSetInduction
<1> QED BY <1>3

(* Power(b, 0) = 1 and Power(b, n) = b * Power(b, n - 1).                  *)
LEMMA PowerUnfold ==
    ASSUME NEW base \in Nat, NEW n \in Nat
    PROVE  \E power : /\ power = [k \in 0 .. n |-> IF k = 0 THEN 1 ELSE base * power[k - 1]]
                      /\ Power(base, n) = power[n]
<1> DEFINE power == CHOOSE f : f = [k \in 0 .. n |-> IF k = 0 THEN 1 ELSE base * f[k - 1]]
<1>1. power = [k \in 0 .. n |-> IF k = 0 THEN 1 ELSE base * power[k - 1]]
  BY PowerFunction
<1>2. Power(base, n) = power[n]
  BY DEF Power
<1> QED BY <1>1, <1>2

(* A power with one factor more, and with none.                            *)
LEMMA PowerStep ==
    ASSUME NEW base \in Nat, NEW n \in Nat
    PROVE  Power(base, 0) = 1 /\ Power(base, n + 1) = base * Power(base, n)
<1>1. PICK z : /\ z = [k \in 0 .. 0 |-> IF k = 0 THEN 1 ELSE base * z[k - 1]]
               /\ Power(base, 0) = z[0]
  BY PowerUnfold
<1>2. PICK f : /\ f = [k \in 0 .. n |-> IF k = 0 THEN 1 ELSE base * f[k - 1]]
               /\ Power(base, n) = f[n]
  BY PowerUnfold
<1>3. PICK g : /\ g = [k \in 0 .. n + 1 |-> IF k = 0 THEN 1 ELSE base * g[k - 1]]
               /\ Power(base, n + 1) = g[n + 1]
  <2>1. n + 1 \in Nat
    OBVIOUS
  <2> QED BY <2>1, PowerUnfold
<1> DEFINE S == {k \in Nat : k \in 0 .. n => f[k] = g[k]}
<1>4. 0 \in S
  BY <1>2, <1>3
<1>5. ASSUME NEW k \in Nat, k \in S PROVE k + 1 \in S
  <2> SUFFICES ASSUME k + 1 \in 0 .. n PROVE f[k + 1] = g[k + 1]
    OBVIOUS
  <2>1. f[k + 1] = base * f[k] /\ g[k + 1] = base * g[k]
    BY <1>2, <1>3
  <2>2. f[k] = g[k]
    BY <1>5
  <2> QED BY <2>1, <2>2
<1>6. n \in S
  <2> HIDE DEF S
  <2> QED BY <1>4, <1>5, NatSetInduction
<1>7. g[n + 1] = base * g[n]
  BY <1>3
<1> QED BY <1>1, <1>2, <1>3, <1>6, <1>7

(* A power of a positive number is one.                                    *)
LEMMA PowerPositive ==
    ASSUME NEW base \in Nat \ {0}, NEW n \in Nat
    PROVE  Power(base, n) \in Nat \ {0}
<1> DEFINE S == {k \in Nat : Power(base, k) \in Nat \ {0}}
<1>1. 0 \in S
  BY PowerStep
<1>2. ASSUME NEW k \in Nat, k \in S PROVE k + 1 \in S
  <2>1. Power(base, k + 1) = base * Power(base, k)
    BY PowerStep
  <2>2. \A a \in Nat \ {0}, b \in Nat \ {0} : a * b \in Nat \ {0}
    OBVIOUS
  <2> QED BY <1>2, <2>1, <2>2
<1>3. n \in S
  <2> HIDE DEF S
  <2> QED BY <1>1, <1>2, NatSetInduction
<1> QED BY <1>3

(* Powers of one base are multiplied by adding what they are to.           *)
LEMMA PowerOfSum ==
    ASSUME NEW base \in Nat \ {0}, NEW m \in Nat, NEW n \in Nat
    PROVE  Power(base, m + n) = Power(base, m) * Power(base, n)
<1> DEFINE S == {k \in Nat : Power(base, m + k) = Power(base, m) * Power(base, k)}
<1>1. Power(base, m) \in Nat
  BY PowerPositive
<1>2. 0 \in S
  BY PowerStep, <1>1
<1>3. ASSUME NEW k \in Nat, k \in S PROVE k + 1 \in S
  <2>1. Power(base, m + (k + 1)) = base * Power(base, m + k)
    <3>1. m + k \in Nat /\ m + (k + 1) = (m + k) + 1
      OBVIOUS
    <3> QED BY <3>1, PowerStep
  <2>2. Power(base, k + 1) = base * Power(base, k)
    BY PowerStep
  <2>3. Power(base, k) \in Nat
    BY PowerPositive
  <2>4. \A a, b, c \in Nat : a * (b * c) = b * (a * c)
    OBVIOUS
  <2> QED BY <1>1, <1>3, <2>1, <2>2, <2>3, <2>4
<1>4. n \in S
  <2> HIDE DEF S
  <2> QED BY <1>2, <1>3, NatSetInduction
<1> QED BY <1>4

(* A remainder is what a number exceeds a multiple by.                     *)
LEMMA Remainder ==
    ASSUME NEW a \in Int, NEW b \in Int, b > 0
    PROVE  a % b = a - b * (a \div b)
OBVIOUS

(* A number is made of its quotient and its remainder.                     *)
LEMMA Division ==
    ASSUME NEW a \in Nat, NEW b \in Nat \ {0}
    PROVE  \E q \in Nat, r \in 0 .. b - 1 :
               q = a \div b /\ r = a % b /\ a = q * b + r
<1> DEFINE q == a \div b
<1>1. q \in Nat /\ q * b <= a /\ a < q * b + b
  OBVIOUS
<1>2. a % b = a - b * q
  BY Remainder
<1> HIDE DEF q
<1>3. PICK r \in Int : r = a - b * q
  BY <1>1
<1>4. r \in 0 .. b - 1 /\ a = q * b + r
  BY <1>1, <1>3
<1>5. r = a % b
  BY <1>2, <1>3
<1>6. q = a \div b
  BY DEF q
<1> HIDE <1>2, <1>3
<1> QED BY <1>1, <1>4, <1>5, <1>6, Zenon

(* A multiple is divided without remainder.                                *)
LEMMA DivisionExact ==
    ASSUME NEW a \in Nat, NEW b \in Nat \ {0}
    PROVE  (a * b) \div b = a
<1> DEFINE q == (a * b) \div b
<1>1. a * b \in Nat
  OBVIOUS
<1>2. q \in Nat /\ q * b <= a * b /\ a * b < q * b + b
  BY <1>1
<1> HIDE DEF q
<1>3. ~(q < a)
  <2> SUFFICES ASSUME q < a PROVE FALSE
    OBVIOUS
  <2>1. (q + 1) * b <= a * b /\ (q + 1) * b = q * b + b
    BY <1>2
  <2> QED BY <1>1, <1>2, <2>1
<1>4. ~(q > a)
  <2> SUFFICES ASSUME q > a PROVE FALSE
    OBVIOUS
  <2>1. (a + 1) * b <= q * b /\ (a + 1) * b = a * b + b
    BY <1>2
  <2> QED BY <1>1, <1>2, <2>1
<1>5. q = a
  BY <1>2, <1>3, <1>4
<1> QED BY <1>5 DEF q

-----------------------------------------------------------------------------
(* An item and what is in it.                                              *)

(* What IsTree says of the set of the parts.                               *)
IsClosed(P) ==
    \A part \in P :
        /\ part.v \in STRING /\ part.n \in Nat /\ part.elems \in Seq(P)
        /\ part.t \in {"uint", "bytes"} => part.n < Power(2, Width)
        /\ part.t = "tag" => Len(part.elems) = 1
        /\ part.t = "map" => Len(part.elems) % 2 = 0

Below(set) == UNION {ToSet(part.elems) : part \in set}
IsLevel(f, item, n) ==
    f = [k \in 0 .. n |-> IF k = 0 THEN {item} ELSE Below(f[k - 1])]

(* The levels of an item are computed by what defines them.                *)
LEMMA LevelFunction ==
    ASSUME NEW item, NEW n \in Nat
    PROVE  \E f : IsLevel(f, item, n)
<1> DEFINE S == {m \in Nat : \E f : IsLevel(f, item, m)}
<1>1. 0 \in S
  <2> DEFINE f == [k \in 0 .. 0 |-> {item}]
  <2>1. IsLevel(f, item, 0)
    BY DEF IsLevel
  <2> QED BY <2>1
<1>2. ASSUME NEW m \in Nat, m \in S PROVE m + 1 \in S
  <2>1. PICK f : IsLevel(f, item, m)
    BY <1>2
  <2> DEFINE g == [k \in 0 .. m + 1 |-> IF k \in 0 .. m THEN f[k] ELSE Below(f[m])]
  <2>2. ASSUME NEW k \in 0 .. m + 1
        PROVE  g[k] = IF k = 0 THEN {item} ELSE Below(g[k - 1])
    <3>1. CASE k = 0
      BY <2>1, <3>1 DEF IsLevel
    <3>2. CASE k \in 1 .. m
      <4>1. g[k] = f[k] /\ g[k - 1] = f[k - 1] /\ k # 0 /\ k \in 0 .. m
        BY <3>2
      <4>2. f[k] = Below(f[k - 1])
        BY <2>1, <4>1 DEF IsLevel
      <4> QED BY <4>1, <4>2
    <3>3. CASE k = m + 1
      BY <3>3
    <3> QED BY <3>1, <3>2, <3>3
  <2>3. IsLevel(g, item, m + 1)
    BY <2>2 DEF IsLevel
  <2>4. \E h : IsLevel(h, item, m + 1)
    <3> HIDE DEF g
    <3> QED BY <2>3
  <2> QED BY <2>4
<1>3. n \in S
  <2> HIDE DEF S
  <2> QED BY <1>1, <1>2, NatSetInduction
<1> QED BY <1>3

(* An item is one of its parts.                                            *)
LEMMA RootIsPart ==
    ASSUME NEW item
    PROVE  item \in Parts(item)
<1> DEFINE level == CHOOSE f : IsLevel(f, item, MaxNesting)
<1>1. MaxNesting \in Nat
  BY MessagesAssumption DEF MessagesAssumption
<1>2. Parts(item) = UNION {level[k] : k \in 0 .. MaxNesting}
  BY DEF Parts, IsLevel, Below
<1>3. IsLevel(level, item, MaxNesting)
  BY <1>1, LevelFunction
<1> HIDE DEF level
<1>4. level[0] = {item}
  BY <1>1, <1>3 DEF IsLevel
<1> QED BY <1>1, <1>2, <1>4

(* What is left of item once n tags at most are taken off.                 *)
UnderTag(under, item, n) ==
    under = [k \in 0 .. n |->
        IF k = 0 THEN item
        ELSE IF under[k - 1].t = "tag" THEN under[k - 1].elems[1] ELSE under[k - 1]]

(* What a tag is of is computed by what defines it.                        *)
LEMMA UnderFunction ==
    ASSUME NEW item, NEW n \in Nat
    PROVE  \E under : UnderTag(under, item, n)
<1> DEFINE Off(x) == IF x.t = "tag" THEN x.elems[1] ELSE x
           IsUnder(f, m) == f = [k \in 0 .. m |-> IF k = 0 THEN item ELSE Off(f[k - 1])]
           S == {m \in Nat : \E f : IsUnder(f, m)}
<1> HIDE DEF Off
<1>1. 0 \in S
  <2> DEFINE f == [k \in 0 .. 0 |-> item]
  <2>1. IsUnder(f, 0)
    OBVIOUS
  <2> QED BY <2>1
<1>2. ASSUME NEW m \in Nat, m \in S PROVE m + 1 \in S
  <2>1. PICK f : IsUnder(f, m)
    BY <1>2
  <2> DEFINE g == [k \in 0 .. m + 1 |-> IF k \in 0 .. m THEN f[k] ELSE Off(f[m])]
  <2>2. ASSUME NEW k \in 0 .. m + 1 PROVE g[k] = IF k = 0 THEN item ELSE Off(g[k - 1])
    <3>1. CASE k = 0
      BY <2>1, <3>1
    <3>2. CASE k \in 1 .. m
      BY <2>1, <3>2
    <3>3. CASE k = m + 1
      BY <3>3
    <3> QED BY <3>1, <3>2, <3>3
  <2>3. IsUnder(g, m + 1)
    BY <2>2
  <2>4. \E h : IsUnder(h, m + 1)
    <3> HIDE DEF IsUnder, g
    <3> QED BY <2>3
  <2> QED BY <2>4
<1>3. n \in S
  <2> HIDE DEF S
  <2> QED BY <1>1, <1>2, NatSetInduction
<1> QED BY <1>3 DEF Off, UnderTag

(* What a tag is of is a part of what the tag is a part of.                *)
LEMMA UntaggedIsPart ==
    ASSUME NEW P, IsClosed(P), NEW item \in P
    PROVE  Untagged(item) \in P
<1> DEFINE under == CHOOSE f : UnderTag(f, item, MaxNesting)
<1>1. \E f : UnderTag(f, item, MaxNesting)
  BY UnderFunction, MessagesAssumption DEF MessagesAssumption
<1>2. Untagged(item) = IF item.t = "tag" THEN under[MaxNesting] ELSE item
  BY DEF Untagged, UnderTag
<1>3. /\ under[0] = item
      /\ \A k \in 1 .. MaxNesting : under[k] =
            IF under[k - 1].t = "tag" THEN under[k - 1].elems[1] ELSE under[k - 1]
  <2>1. UnderTag(under, item, MaxNesting)
    BY <1>1
  <2> HIDE DEF under
  <2>2. MaxNesting \in Nat
    BY MessagesAssumption DEF MessagesAssumption
  <2> QED BY <2>1, <2>2 DEF UnderTag
<1> HIDE DEF under
<1> DEFINE S == {k \in Nat : k \in 0 .. MaxNesting => under[k] \in P}
<1>4. MaxNesting \in Nat
  BY MessagesAssumption DEF MessagesAssumption
<1>5. 0 \in S
  BY <1>3
<1>6. ASSUME NEW k \in Nat, k \in S PROVE k + 1 \in S
  <2> SUFFICES ASSUME k + 1 \in 0 .. MaxNesting PROVE under[k + 1] \in P
    OBVIOUS
  <2>1. under[k] \in P
    BY <1>4, <1>6
  <2>2. under[k + 1] = IF under[k].t = "tag" THEN under[k].elems[1] ELSE under[k]
    <3>1. k + 1 # 0 /\ (k + 1) - 1 = k
      OBVIOUS
    <3> QED BY <1>3, <3>1
  <2>3. ASSUME under[k].t = "tag" PROVE under[k].elems[1] \in P
    <3>1. under[k].elems \in Seq(P) /\ Len(under[k].elems) = 1
      BY <2>1, <2>3 DEF IsClosed
    <3> QED BY <3>1
  <2> QED BY <2>1, <2>2, <2>3
<1>7. MaxNesting \in S
  <2> HIDE DEF S
  <2> QED BY <1>4, <1>5, <1>6, NatSetInduction
<1>8. under[MaxNesting] \in P
  BY <1>4, <1>7
<1> QED BY <1>2, <1>8

-----------------------------------------------------------------------------
(* Sequences of sequences.                                                 *)

IsFlat(f, ss, n) == f = [i \in 1 .. n |-> IF i = 1 THEN ss[i] ELSE f[i - 1] \o ss[i]]

(* A sequence of sequences is flattened by what defines that.              *)
LEMMA FlatFunction ==
    ASSUME NEW ss, NEW n \in Nat
    PROVE  \E f : IsFlat(f, ss, n)
<1> DEFINE S == {m \in Nat : \E f : IsFlat(f, ss, m)}
<1>1. 0 \in S
  <2> DEFINE f == [i \in 1 .. 0 |-> ss]
  <2>1. IsFlat(f, ss, 0)
    BY DEF IsFlat
  <2> QED BY <2>1
<1>2. ASSUME NEW m \in Nat, m \in S PROVE m + 1 \in S
  <2>1. PICK f : IsFlat(f, ss, m)
    BY <1>2
  <2> DEFINE g == [i \in 1 .. m + 1 |-> IF i \in 1 .. m THEN f[i]
                                        ELSE IF i = 1 THEN ss[i] ELSE f[m] \o ss[i]]
  <2>2. ASSUME NEW i \in 1 .. m + 1
        PROVE  g[i] = IF i = 1 THEN ss[i] ELSE g[i - 1] \o ss[i]
    <3>1. CASE i = 1
      BY <2>1, <3>1 DEF IsFlat
    <3>2. CASE i \in 2 .. m
      <4>1. g[i] = f[i] /\ g[i - 1] = f[i - 1] /\ i # 1 /\ i \in 1 .. m
        BY <3>2
      <4>2. f[i] = f[i - 1] \o ss[i]
        BY <2>1, <4>1 DEF IsFlat
      <4> QED BY <4>1, <4>2
    <3>3. CASE i = m + 1 /\ i # 1
      <4>1. i - 1 = m /\ m \in 1 .. m /\ i \notin 1 .. m /\ m \in 1 .. m + 1
        BY <3>3
      <4>2. g[i] = f[m] \o ss[i]
        BY <3>3, <4>1, Zenon
      <4>3. g[m] = f[m]
        BY <4>1
      <4> QED BY <3>3, <4>1, <4>2, <4>3
    <3> QED BY <3>1, <3>2, <3>3
  <2>3. IsFlat(g, ss, m + 1)
    BY <2>2 DEF IsFlat
  <2>4. \E h : IsFlat(h, ss, m + 1)
    <3> HIDE DEF g
    <3> QED BY <2>3
  <2> QED BY <2>4
<1>3. n \in S
  <2> HIDE DEF S
  <2> QED BY <1>1, <1>2, NatSetInduction
<1> QED BY <1>3

(* block and place say where each entry of flat is from: which sequence of *)
(* the first n of ss, and where in it; in their order, and all of them.    *)
IsMade(flat, ss, n, block, place) ==
    /\ \A k \in 1 .. Len(flat) :
          /\ block[k] \in 1 .. n /\ place[k] \in 1 .. Len(ss[block[k]])
          /\ flat[k] = ss[block[k]][place[k]]
    /\ \A k \in 1 .. Len(flat) : \A l \in 1 .. Len(flat) : k < l =>
          \/ block[k] < block[l]
          \/ block[k] = block[l] /\ place[k] < place[l]
    /\ \A b \in 1 .. n : \A q \in 1 .. Len(ss[b]) :
          \E k \in 1 .. Len(flat) : block[k] = b /\ place[k] = q

(* A sequence more.                                                        *)
LEMMA MadeStep ==
    ASSUME NEW S, NEW ss, NEW n \in Nat, ss[n + 1] \in Seq(S),
           NEW flat \in Seq(S), NEW block, NEW place, IsMade(flat, ss, n, block, place)
    PROVE  \E b, q : IsMade(flat \o ss[n + 1], ss, n + 1, b, q)
<1> DEFINE len == Len(flat)
           more == Len(ss[n + 1])
           whole == flat \o ss[n + 1]
           b == [k \in 1 .. len + more |-> IF k <= len THEN block[k] ELSE n + 1]
           q == [k \in 1 .. len + more |-> IF k <= len THEN place[k] ELSE k - len]
<1>1. len \in Nat /\ more \in Nat
  OBVIOUS
<1>2. /\ whole \in Seq(S) /\ Len(whole) = len + more
      /\ \A k \in 1 .. len + more :
            whole[k] = IF k <= len THEN flat[k] ELSE ss[n + 1][k - len]
  BY ConcatProperties
<1>3. /\ \A k \in 1 .. len : b[k] = block[k] /\ q[k] = place[k]
      /\ \A k \in len + 1 .. len + more : b[k] = n + 1 /\ q[k] = k - len
  BY <1>1
<1> HIDE DEF b, q, whole
<1>4. ASSUME NEW k \in 1 .. Len(whole)
      PROVE  /\ b[k] \in 1 .. n + 1 /\ q[k] \in 1 .. Len(ss[b[k]])
             /\ whole[k] = ss[b[k]][q[k]]
  <2>1. CASE k \in 1 .. len
    <3>1. whole[k] = flat[k] /\ b[k] = block[k] /\ q[k] = place[k]
      BY <1>1, <1>2, <1>3, <2>1
    <3>2. /\ block[k] \in 1 .. n /\ place[k] \in 1 .. Len(ss[block[k]])
          /\ flat[k] = ss[block[k]][place[k]]
      BY <2>1 DEF IsMade
    <3> QED BY <3>1, <3>2
  <2>2. CASE k \in len + 1 .. len + more
    <3>1. b[k] = n + 1 /\ q[k] = k - len
      BY <1>3, <2>2
    <3>3. whole[k] = ss[n + 1][k - len]
      <4>1. k \in 1 .. len + more /\ ~(k <= len)
        BY <1>1, <2>2
      <4> QED BY <1>2, <4>1
    <3>2. k - len \in 1 .. more /\ n + 1 \in 1 .. n + 1
      BY <1>1, <2>2
    <3> QED BY <1>1, <3>1, <3>2, <3>3
  <2> QED BY <1>1, <1>2, <2>1, <2>2
<1>5. ASSUME NEW k \in 1 .. Len(whole), NEW l \in 1 .. Len(whole), k < l
      PROVE  b[k] < b[l] \/ (b[k] = b[l] /\ q[k] < q[l])
  <2>1. CASE l \in 1 .. len
    <3>1. k \in 1 .. len
      BY <1>1, <1>2, <1>5, <2>1
    <3> QED BY <1>3, <1>5, <2>1, <3>1 DEF IsMade
  <2>2. CASE k \in 1 .. len /\ l \in len + 1 .. len + more
    <3>1. block[k] \in 1 .. n
      BY <2>2 DEF IsMade
    <3> QED BY <1>3, <2>2, <3>1
  <2>3. CASE k \in len + 1 .. len + more /\ l \in len + 1 .. len + more
    BY <1>1, <1>3, <1>5, <2>3
  <2> QED BY <1>1, <1>2, <1>5, <2>1, <2>2, <2>3
<1>6. ASSUME NEW c \in 1 .. n + 1, NEW r \in 1 .. Len(ss[c])
      PROVE  \E k \in 1 .. Len(whole) : b[k] = c /\ q[k] = r
  <2>1. CASE c \in 1 .. n
    <3>1. PICK k \in 1 .. len : block[k] = c /\ place[k] = r
      BY <2>1 DEF IsMade
    <3>2. k \in 1 .. Len(whole) /\ b[k] = c /\ q[k] = r
      BY <1>1, <1>2, <1>3, <3>1
    <3> QED BY <3>2
  <2>2. CASE c = n + 1
    <3>1. len + r \in len + 1 .. len + more /\ (len + r) - len = r
      BY <1>1, <2>2
    <3>2. len + r \in 1 .. Len(whole) /\ b[len + r] = c /\ q[len + r] = r
      BY <1>1, <1>2, <1>3, <2>2, <3>1
    <3> QED BY <3>2
  <2> QED BY <2>1, <2>2
<1>7. IsMade(whole, ss, n + 1, b, q)
  BY <1>4, <1>5, <1>6 DEF IsMade
<1> QED BY <1>7 DEF whole

(* FlattenSeq puts the sequences one after the other.                      *)
LEMMA Flattened ==
    ASSUME NEW S, NEW ss \in Seq(Seq(S))
    PROVE  /\ FlattenSeq(ss) \in Seq(S)
           /\ \E block, place : IsMade(FlattenSeq(ss), ss, Len(ss), block, place)
<1> DEFINE n == Len(ss)
<1>1. n \in Nat /\ \A i \in 1 .. n : ss[i] \in Seq(S)
  OBVIOUS
<1>2. CASE n = 0
  <2>1. ss = <<>> /\ FlattenSeq(ss) = <<>>
    BY <1>2, EmptySeq DEF FlattenSeq
  <2>2. \A b, q : IsMade(<<>>, ss, 0, b, q)
    BY DEF IsMade
  <2>3. <<>> \in Seq(S)
    OBVIOUS
  <2> QED BY <1>2, <2>1, <2>2, <2>3
<1>3. CASE n # 0
  <2> DEFINE flat == CHOOSE f : IsFlat(f, ss, n)
  <2>1. FlattenSeq(ss) = flat[n]
    BY <1>3 DEF FlattenSeq, IsFlat
  <2>2. IsFlat(flat, ss, n)
    BY <1>1, FlatFunction
  <2> HIDE DEF flat
  <2> DEFINE Good(i) == /\ flat[i] \in Seq(S)
                        /\ \E b, q : IsMade(flat[i], ss, i, b, q)
             T == {i \in Nat : i + 1 \in 1 .. n => Good(i + 1)}
  <2>3. 0 \in T
    <3>1. 1 \in 1 .. n /\ flat[1] = ss[1] /\ ss[1] \in Seq(S)
      BY <1>1, <1>3, <2>2 DEF IsFlat
    <3> DEFINE b == [k \in 1 .. Len(ss[1]) |-> 1]
               q == [k \in 1 .. Len(ss[1]) |-> k]
    <3>2. IsMade(ss[1], ss, 1, b, q)
      BY <3>1 DEF IsMade
    <3>3. Good(1)
      <4> HIDE DEF b, q
      <4> QED BY <3>1, <3>2
    <3> HIDE DEF Good
    <3> QED BY <3>3
  <2>4. ASSUME NEW i \in Nat, i \in T PROVE i + 1 \in T
    <3> SUFFICES ASSUME (i + 1) + 1 \in 1 .. n PROVE Good((i + 1) + 1)
      OBVIOUS
    <3>1. i + 1 \in 1 .. n /\ i + 1 \in Nat /\ (i + 1) + 1 # 1
          /\ ((i + 1) + 1) - 1 = i + 1
      BY <1>1
    <3>2. Good(i + 1)
      <4> HIDE DEF Good
      <4> QED BY <2>4, <3>1
    <3>3. flat[(i + 1) + 1] = flat[i + 1] \o ss[(i + 1) + 1]
      BY <2>2, <3>1 DEF IsFlat
    <3>4. ss[(i + 1) + 1] \in Seq(S)
      BY <1>1
    <3>5. flat[i + 1] \in Seq(S)
      BY <3>2
    <3>6. flat[i + 1] \o ss[(i + 1) + 1] \in Seq(S)
      BY <3>4, <3>5, ConcatProperties
    <3>7. \E b, q : IsMade(flat[i + 1] \o ss[(i + 1) + 1], ss, (i + 1) + 1, b, q)
      <4>1. PICK b, q : IsMade(flat[i + 1], ss, i + 1, b, q)
        BY <3>2
      <4> QED BY <3>1, <3>4, <3>5, <4>1, MadeStep
    <3> QED BY <3>3, <3>6, <3>7
  <2>5. n - 1 \in Nat /\ (n - 1) + 1 = n /\ n \in 1 .. n
    BY <1>1, <1>3
  <2>6. n - 1 \in T
    <3> HIDE DEF T
    <3> QED BY <2>3, <2>4, <2>5, NatSetInduction
  <2>7. Good(n)
    <3> HIDE DEF Good
    <3> QED BY <2>5, <2>6
  <2> QED BY <2>1, <2>7
<1> QED BY <1>2, <1>3

-----------------------------------------------------------------------------
(* The steps of the heap.                                                  *)

IsRun(after, ops, fails, n) ==
    after = [k \in 0 .. n |-> IF k = 0 THEN Fresh ELSE Step(after[k - 1], ops[k], fails)]

(* What operations come to is computed by what defines it.                 *)
LEMMA RunFunction ==
    ASSUME NEW ops, NEW fails, NEW n \in Nat
    PROVE  \E after : IsRun(after, ops, fails, n)
<1> DEFINE S == {m \in Nat : \E f : IsRun(f, ops, fails, m)}
<1>1. 0 \in S
  <2> DEFINE f == [k \in 0 .. 0 |-> Fresh]
  <2>1. IsRun(f, ops, fails, 0)
    BY DEF IsRun
  <2> QED BY <2>1
<1>2. ASSUME NEW m \in Nat, m \in S PROVE m + 1 \in S
  <2>1. PICK f : IsRun(f, ops, fails, m)
    BY <1>2
  <2> DEFINE g == [k \in 0 .. m + 1 |-> IF k \in 0 .. m THEN f[k]
                                        ELSE Step(f[m], ops[k], fails)]
  <2>2. ASSUME NEW k \in 0 .. m + 1
        PROVE  g[k] = IF k = 0 THEN Fresh ELSE Step(g[k - 1], ops[k], fails)
    <3>1. CASE k = 0
      BY <2>1, <3>1 DEF IsRun
    <3>2. CASE k \in 1 .. m
      <4>1. g[k] = f[k] /\ g[k - 1] = f[k - 1] /\ k # 0 /\ k \in 0 .. m
        BY <3>2
      <4>2. f[k] = Step(f[k - 1], ops[k], fails)
        BY <2>1, <4>1 DEF IsRun
      <4> QED BY <4>1, <4>2
    <3>3. CASE k = m + 1
      BY <3>3
    <3> QED BY <3>1, <3>2, <3>3
  <2>3. IsRun(g, ops, fails, m + 1)
    BY <2>2 DEF IsRun
  <2>4. \E h : IsRun(h, ops, fails, m + 1)
    <3> HIDE DEF g
    <3> QED BY <2>3
  <2> QED BY <2>4
<1>3. n \in S
  <2> HIDE DEF S
  <2> QED BY <1>1, <1>2, NatSetInduction
<1> QED BY <1>3

(* The steps of a run, one by one.                                         *)
LEMMA RunSteps ==
    ASSUME NEW ops, Len(ops) \in Nat, NEW fails
    PROVE  \E after :
             /\ after[0] = Fresh
             /\ \A k \in Nat : k + 1 \in 1 .. Len(ops) =>
                   after[k + 1] = Step(after[k], ops[k + 1], fails)
             /\ Run(ops, fails) = after[Len(ops)]
<1> DEFINE after == CHOOSE f : IsRun(f, ops, fails, Len(ops))
<1>1. Run(ops, fails) = after[Len(ops)]
  BY DEF Run, IsRun
<1>2. IsRun(after, ops, fails, Len(ops))
  BY RunFunction
<1> HIDE DEF after
<1>3. after[0] = Fresh
  BY <1>2 DEF IsRun
<1>4. ASSUME NEW k \in Nat, k + 1 \in 1 .. Len(ops)
      PROVE  after[k + 1] = Step(after[k], ops[k + 1], fails)
  <2>1. k + 1 \in 0 .. Len(ops) /\ k + 1 # 0 /\ (k + 1) - 1 = k
    BY <1>4
  <2> QED BY <1>2, <2>1 DEF IsRun
<1> QED BY <1>1, <1>3, <1>4

(* The provers are not sure that a string they are given is in STRING.     *)
Names == STRING \cup {"", "message"}
Slots == Names \X Nat \X {"", "channel", "algorithm"}
PtrSet == UNION {[D -> Nat] : D \in SUBSET Slots}
LenSet == UNION {[K -> Nat] : K \in SUBSET Names}
Heap == [code : 0 .. 6, attempts : Nat, live : SUBSET Nat, ptr : PtrSet, len : LenSet]

(* Operations: what they fail with is an error of the message, only        *)
(* algorithms are cleared, and lists are allocated as a whole.             *)
OpSet ==
    {o \in [op : {"fail", "malloc", "clear", "calloc"}, code : 0 .. 6,
            slot : Slots, n : Nat] :
        /\ o.op = "fail" => o.code \in 2 .. 6
        /\ o.op = "clear" => o.slot[3] = "algorithm"
        /\ o.op = "calloc" => o.slot = <<o.slot[1], 0, "">>}

(* An operation and its parts.                                             *)
LEMMA OpFacts ==
    ASSUME NEW o \in OpSet
    PROVE  /\ o.op \in {"fail", "malloc", "clear", "calloc"}
           /\ o.slot \in Slots /\ o.n \in Nat
           /\ o.op = "fail" => o.code \in 2 .. 6 /\ o.code # OK
           /\ o.op = "clear" => o.slot[3] = "algorithm"
           /\ o.op = "calloc" => o.slot = <<o.slot[1], 0, "">>
<1>1. /\ o.op \in {"fail", "malloc", "clear", "calloc"}
      /\ o.slot \in Slots /\ o.n \in Nat
  BY DEF OpSet
<1>2. /\ o.op = "fail" => o.code \in 2 .. 6
      /\ o.op = "clear" => o.slot[3] = "algorithm"
      /\ o.op = "calloc" => o.slot = <<o.slot[1], 0, "">>
  BY DEF OpSet
<1>3. OK \notin 2 .. 6
  BY DEF OK
<1> QED BY <1>1, <1>2, <1>3

(* Pointers that are forgotten.                                            *)
LEMMA ForgetFacts ==
    ASSUME NEW s \in Heap, NEW slots
    PROVE  LET t == [s EXCEPT !.ptr = Forget(@, slots)] IN
           /\ t \in Heap /\ t.code = s.code /\ t.attempts = s.attempts
           /\ t.live = s.live /\ t.len = s.len
           /\ DOMAIN t.ptr = DOMAIN s.ptr \ slots
           /\ \A x \in DOMAIN t.ptr : t.ptr[x] = s.ptr[x]
<1>1. PICK D \in SUBSET Slots : s.ptr \in [D -> Nat]
  BY DEF Heap, PtrSet
<1>2. Forget(s.ptr, slots) \in [D \ slots -> Nat]
  BY <1>1 DEF Forget
<1>3. D \ slots \in SUBSET Slots
  OBVIOUS
<1>4. Forget(s.ptr, slots) \in PtrSet
  BY <1>2, <1>3 DEF PtrSet
<1>5. /\ DOMAIN Forget(s.ptr, slots) = DOMAIN s.ptr \ slots
      /\ \A x \in DOMAIN s.ptr \ slots : Forget(s.ptr, slots)[x] = s.ptr[x]
  BY DEF Forget
<1> QED BY <1>4, <1>5 DEF Heap

(* An allocation that succeeds.                                            *)
LEMMA AllocateSucceeds ==
    ASSUME NEW s \in Heap, NEW slot \in Slots, NEW fails, s.attempts + 1 # fails
    PROVE  LET t == Allocate(s, slot, fails)
               b == s.attempts + 1 IN
           /\ t \in Heap /\ t.code = s.code /\ t.len = s.len
           /\ t.live = s.live \cup {b}
           /\ DOMAIN t.ptr = DOMAIN s.ptr \cup {slot}
           /\ \A x \in DOMAIN t.ptr : t.ptr[x] = IF x = slot THEN b ELSE s.ptr[x]
<1> DEFINE b == s.attempts + 1
           ptr == [x \in DOMAIN s.ptr \cup {slot} |-> IF x = slot THEN b ELSE s.ptr[x]]
           t == [s EXCEPT !.attempts = b, !.live = s.live \cup {b}, !.ptr = ptr]
<1>1. PICK D \in SUBSET Slots : s.ptr \in [D -> Nat]
  BY DEF Heap, PtrSet
<1>2. b \in Nat /\ b # fails /\ s.live \cup {b} \in SUBSET Nat
  BY DEF Heap
<1> HIDE DEF b
<1>3. ptr \in [D \cup {slot} -> Nat]
  BY <1>1, <1>2
<1>4. D \cup {slot} \in SUBSET Slots
  OBVIOUS
<1>5. ptr \in PtrSet
  BY <1>3, <1>4 DEF PtrSet
<1>6. /\ DOMAIN ptr = DOMAIN s.ptr \cup {slot}
      /\ \A x \in DOMAIN ptr : ptr[x] = IF x = slot THEN b ELSE s.ptr[x]
  OBVIOUS
<1> HIDE DEF ptr
<1>7. /\ t \in Heap /\ t.code = s.code /\ t.len = s.len
      /\ t.live = s.live \cup {b} /\ t.ptr = ptr
  BY <1>2, <1>5 DEF Heap
<1>8. Allocate(s, slot, fails) = t
  BY <1>2 DEF Allocate, b, ptr
<1> HIDE DEF t
<1> QED BY <1>6, <1>7, <1>8 DEF b

(* And one that does not.                                                  *)
LEMMA AllocateFails ==
    ASSUME NEW s \in Heap, NEW slot \in Slots, NEW fails, s.attempts + 1 = fails
    PROVE  LET t == Allocate(s, slot, fails) IN
           /\ t \in Heap /\ t.code = OUT_OF_MEMORY /\ t.len = s.len
           /\ t.live = s.live
           /\ DOMAIN t.ptr = DOMAIN s.ptr \ {slot}
           /\ \A x \in DOMAIN t.ptr : t.ptr[x] = s.ptr[x]
<1> DEFINE u == [s EXCEPT !.ptr = Forget(@, {slot})]
           t == [u EXCEPT !.attempts = fails, !.code = OUT_OF_MEMORY]
<1>1. /\ u \in Heap /\ u.live = s.live /\ u.len = s.len
      /\ DOMAIN u.ptr = DOMAIN s.ptr \ {slot}
      /\ \A x \in DOMAIN u.ptr : u.ptr[x] = s.ptr[x]
  BY ForgetFacts
<1>2. Allocate(s, slot, fails) = t
  BY DEF Allocate, Heap
<1>3. fails \in Nat /\ OUT_OF_MEMORY \in 0 .. 6
  BY DEF Heap, OUT_OF_MEMORY
<1> HIDE DEF u
<1>4. /\ t \in Heap /\ t.code = OUT_OF_MEMORY /\ t.len = u.len
      /\ t.live = u.live /\ t.ptr = u.ptr
  BY <1>1, <1>3 DEF Heap
<1> HIDE DEF t
<1> QED BY <1>1, <1>2, <1>4

(* The pointers an operation goes over.                                    *)
Touched(s, o) ==
    {x \in DOMAIN s.ptr : x = o.slot \/ (o.op = "calloc" /\ x[1] = o.slot[1])}
Forgets(s, o, t) ==
    /\ t.live = s.live /\ t.len = s.len
    /\ DOMAIN t.ptr = DOMAIN s.ptr \ Touched(s, o)
    /\ \A x \in DOMAIN t.ptr : t.ptr[x] = s.ptr[x]
Allocates(s, o, t) ==
    /\ \E b \in Nat :
          /\ t.live = s.live \cup {b}
          /\ DOMAIN t.ptr = (DOMAIN s.ptr \ Touched(s, o)) \cup {o.slot}
          /\ \A x \in DOMAIN t.ptr : t.ptr[x] = IF x = o.slot THEN b ELSE s.ptr[x]
    /\ o.op = "malloc" => t.len = s.len
    /\ o.op = "calloc" =>
          /\ DOMAIN t.len = DOMAIN s.len \cup {o.slot[1]}
          /\ \A k \in DOMAIN t.len : t.len[k] = IF k = o.slot[1] THEN o.n ELSE s.len[k]

(* What an operation does to a heap before which none has failed.          *)
Effect(s, o, t) ==
    \/ /\ o.op = "fail" /\ t.code = o.code
       /\ t.live = s.live /\ t.ptr = s.ptr /\ t.len = s.len
    \/ o.op = "clear" /\ t.code = OK /\ Forgets(s, o, t)
    \/ o.op \in {"malloc", "calloc"} /\ t.code = OUT_OF_MEMORY /\ Forgets(s, o, t)
    \/ o.op \in {"malloc", "calloc"} /\ t.code = OK /\ Allocates(s, o, t)

(* A block is allocated, or the process is out of memory.                  *)
LEMMA MallocEffect ==
    ASSUME NEW s \in Heap, s.code = OK, NEW o \in OpSet, o.op = "malloc", NEW fails
    PROVE  LET t == Allocate(s, o.slot, fails) IN t \in Heap /\ Effect(s, o, t)
<1> DEFINE t == Allocate(s, o.slot, fails)
           b == s.attempts + 1
<1>1. o.slot \in Slots /\ b \in Nat
  <2>1. o.slot \in Slots
    BY DEF OpSet
  <2>2. s.attempts \in Nat
    BY DEF Heap
  <2> QED BY <2>1, <2>2
<1>2. Touched(s, o) = DOMAIN s.ptr \cap {o.slot}
  BY DEF Touched
<1>3. CASE b = fails
  <2>1. /\ t \in Heap /\ t.code = OUT_OF_MEMORY /\ t.len = s.len /\ t.live = s.live
        /\ DOMAIN t.ptr = DOMAIN s.ptr \ {o.slot}
        /\ \A x \in DOMAIN t.ptr : t.ptr[x] = s.ptr[x]
    BY <1>1, <1>3, AllocateFails
  <2> HIDE DEF t
  <2>2. Forgets(s, o, t)
    BY <1>2, <2>1 DEF Forgets
  <2>3. t \in Heap /\ Effect(s, o, t)
    BY <2>1, <2>2 DEF Effect
  <2> QED BY <2>3 DEF t
<1>4. CASE b # fails
  <2>1. /\ t \in Heap /\ t.code = s.code /\ t.len = s.len /\ t.live = s.live \cup {b}
        /\ DOMAIN t.ptr = DOMAIN s.ptr \cup {o.slot}
        /\ \A x \in DOMAIN t.ptr : t.ptr[x] = IF x = o.slot THEN b ELSE s.ptr[x]
    BY <1>1, <1>4, AllocateSucceeds
  <2> HIDE DEF t, b
  <2>2. Allocates(s, o, t)
    BY <1>1, <1>2, <2>1 DEF Allocates
  <2>3. t \in Heap /\ Effect(s, o, t)
    BY <2>1, <2>2 DEF Effect
  <2> QED BY <2>3 DEF t
<1> QED BY <1>3, <1>4

(* So is a list, whose old entries go, and whose length is kept if it is.  *)
LEMMA CallocEffect ==
    ASSUME NEW s \in Heap, s.code = OK, NEW o \in OpSet, o.op = "calloc", NEW fails
    PROVE  LET t == Step(s, o, fails) IN t \in Heap /\ Effect(s, o, t)
<1> DEFINE key == o.slot[1]
           u == [s EXCEPT !.ptr = Forget(@, Entries(@, key))]
           t == Allocate(u, o.slot, fails)
           len == [k \in DOMAIN t.len \cup {key} |-> IF k = key THEN o.n ELSE t.len[k]]
           b == u.attempts + 1
<1>1. /\ o.slot \in Slots /\ o.n \in Nat /\ key \in Names
      /\ o.slot = <<key, 0, "">>
  BY DEF OpSet, Slots
<1>2. Step(s, o, fails) = IF t.code # OK THEN t ELSE [t EXCEPT !.len = len]
  BY DEF Step
<1>3. /\ u \in Heap /\ u.code = OK /\ u.live = s.live /\ u.len = s.len
      /\ DOMAIN u.ptr = DOMAIN s.ptr \ Entries(s.ptr, key)
      /\ \A x \in DOMAIN u.ptr : u.ptr[x] = s.ptr[x]
  BY ForgetFacts
<1>4. Touched(s, o) = Entries(s.ptr, key)
  BY <1>1 DEF Touched, Entries
<1>5. b \in Nat
  BY <1>3 DEF Heap
<1> HIDE DEF u
<1>6. CASE b = fails
  <2>1. /\ t \in Heap /\ t.code = OUT_OF_MEMORY /\ t.len = u.len /\ t.live = u.live
        /\ DOMAIN t.ptr = DOMAIN u.ptr \ {o.slot}
        /\ \A x \in DOMAIN t.ptr : t.ptr[x] = u.ptr[x]
    <3>1. u \in Heap /\ u.attempts + 1 = fails
      BY <1>3, <1>6
    <3>2. o.slot \in Slots
      BY <1>1
    <3> QED BY <3>1, <3>2, AllocateFails
  <2>2. Step(s, o, fails) = t
    BY <1>2, <2>1 DEF OK, OUT_OF_MEMORY
  <2> HIDE DEF t
  <2>3. o.slot \in DOMAIN s.ptr => o.slot \in Entries(s.ptr, key)
    BY <1>1 DEF Entries
  <2>4. Forgets(s, o, t)
    BY <1>3, <1>4, <2>1, <2>3 DEF Forgets
  <2> QED BY <2>1, <2>2, <2>4 DEF Effect
<1>7. CASE b # fails
  <2>1. /\ t \in Heap /\ t.code = u.code /\ t.len = u.len /\ t.live = u.live \cup {b}
        /\ DOMAIN t.ptr = DOMAIN u.ptr \cup {o.slot}
        /\ \A x \in DOMAIN t.ptr : t.ptr[x] = IF x = o.slot THEN b ELSE u.ptr[x]
    <3>1. u \in Heap /\ u.attempts + 1 # fails
      BY <1>3, <1>7
    <3>2. o.slot \in Slots
      BY <1>1
    <3> QED BY <3>1, <3>2, AllocateSucceeds
  <2> HIDE DEF t, b
  <2> DEFINE v == [t EXCEPT !.len = len]
  <2>2. Step(s, o, fails) = v
    BY <1>2, <1>3, <2>1
  <2>3. len \in LenSet
    <3>1. PICK K \in SUBSET Names : t.len \in [K -> Nat]
      BY <2>1 DEF Heap, LenSet
    <3>2. len \in [K \cup {key} -> Nat]
      BY <1>1, <3>1
    <3>3. K \cup {key} \in SUBSET Names
      BY <1>1
    <3> QED BY <3>2, <3>3 DEF LenSet
  <2>4. /\ DOMAIN len = DOMAIN t.len \cup {key}
        /\ \A k \in DOMAIN len : len[k] = IF k = key THEN o.n ELSE t.len[k]
    OBVIOUS
  <2> HIDE DEF len
  <2>5. v \in Heap /\ v.code = OK /\ v.live = t.live /\ v.ptr = t.ptr /\ v.len = len
    BY <1>3, <2>1, <2>3 DEF Heap
  <2> HIDE DEF v
  <2>6. Allocates(s, o, v)
    <3>1. /\ v.live = s.live \cup {b}
          /\ DOMAIN v.ptr = (DOMAIN s.ptr \ Touched(s, o)) \cup {o.slot}
          /\ \A x \in DOMAIN v.ptr : v.ptr[x] = IF x = o.slot THEN b ELSE s.ptr[x]
      BY <1>3, <1>4, <2>1, <2>5
    <3>2. /\ DOMAIN v.len = DOMAIN s.len \cup {key}
          /\ \A k \in DOMAIN v.len : v.len[k] = IF k = key THEN o.n ELSE s.len[k]
      BY <1>3, <2>1, <2>4, <2>5
    <3> HIDE DEF key
    <3>3. \E c \in Nat :
          /\ v.live = s.live \cup {c}
          /\ DOMAIN v.ptr = (DOMAIN s.ptr \ Touched(s, o)) \cup {o.slot}
          /\ \A x \in DOMAIN v.ptr : v.ptr[x] = IF x = o.slot THEN c ELSE s.ptr[x]
      BY <1>5, <3>1
    <3> QED BY <3>2, <3>3 DEF Allocates, key
  <2> QED BY <2>2, <2>5, <2>6 DEF Effect
<1> QED BY <1>6, <1>7

(* Every operation has its effect, or none after a failure.                *)
LEMMA StepEffect ==
    ASSUME NEW s \in Heap, NEW o \in OpSet, NEW fails
    PROVE  LET t == Step(s, o, fails) IN
           t \in Heap /\ IF s.code = OK THEN Effect(s, o, t) ELSE t = s
<1> DEFINE t == Step(s, o, fails)
<1>1. CASE s.code # OK
  BY <1>1 DEF Step
<1>2. CASE s.code = OK /\ o.op = "fail"
  <2>1. t = [s EXCEPT !.code = o.code]
    BY <1>2 DEF Step
  <2>2. o.code \in 0 .. 6
    BY DEF OpSet
  <2> HIDE DEF t
  <2>3. /\ t \in Heap /\ t.code = o.code /\ t.live = s.live /\ t.ptr = s.ptr
        /\ t.len = s.len
    BY <2>1, <2>2 DEF Heap
  <2>4. t \in Heap /\ Effect(s, o, t)
    BY <1>2, <2>3 DEF Effect
  <2> QED BY <1>2, <2>4 DEF t
<1>3. CASE s.code = OK /\ o.op = "clear"
  <2> DEFINE u == [s EXCEPT !.ptr = Forget(@, {o.slot})]
  <2>1. t = u
    BY <1>3 DEF Step
  <2>2. /\ u \in Heap /\ u.code = s.code /\ u.live = s.live /\ u.len = s.len
        /\ DOMAIN u.ptr = DOMAIN s.ptr \ {o.slot}
        /\ \A x \in DOMAIN u.ptr : u.ptr[x] = s.ptr[x]
    BY ForgetFacts
  <2> HIDE DEF t, u
  <2>3. Touched(s, o) = DOMAIN s.ptr \cap {o.slot}
    BY <1>3 DEF Touched
  <2>4. Forgets(s, o, u)
    BY <2>2, <2>3 DEF Forgets
  <2>5. u \in Heap /\ Effect(s, o, u)
    BY <1>3, <2>2, <2>4 DEF Effect
  <2> QED BY <1>3, <2>1, <2>5 DEF t
<1>4. CASE s.code = OK /\ o.op = "malloc"
  <2>1. t = Allocate(s, o.slot, fails)
    BY <1>4 DEF Step
  <2> QED BY <1>4, <2>1, MallocEffect
<1>5. CASE s.code = OK /\ o.op = "calloc"
  BY <1>5, CallocEffect
<1>6. o.op \in {"fail", "malloc", "clear", "calloc"}
  BY DEF OpSet
<1> QED BY <1>1, <1>2, <1>3, <1>4, <1>5, <1>6

-----------------------------------------------------------------------------
(* What a message comes to.                                                *)

(* After the first k operations: the failure is out of memory, or one of   *)
(* theirs, and as long as there is memory each list is where its length    *)
(* says it is.                                                             *)
CodeInv(s, ops, k) ==
    /\ s \in Heap
    /\ \/ s.code \in {OK, OUT_OF_MEMORY}
       \/ \E i \in 1 .. k : ops[i].op = "fail" /\ ops[i].code = s.code
    /\ s.code = OK => \A i \in 1 .. k : ops[i].op # "fail"
    /\ s.code # OUT_OF_MEMORY => \A key \in DOMAIN s.len : <<key, 0, "">> \in DOMAIN s.ptr

(* An operation more.                                                      *)
LEMMA CodeStep ==
    ASSUME NEW ops \in Seq(OpSet), NEW k \in Nat, k + 1 \in 1 .. Len(ops), NEW fails,
           NEW s, CodeInv(s, ops, k)
    PROVE  CodeInv(Step(s, ops[k + 1], fails), ops, k + 1)
<1> DEFINE o == ops[k + 1]
           t == Step(s, o, fails)
<1>1. o \in OpSet /\ s \in Heap
  <2>1. o \in OpSet
    BY ElementOfSeq
  <2> QED BY <2>1 DEF CodeInv
<1>2. t \in Heap /\ IF s.code = OK THEN Effect(s, o, t) ELSE t = s
  BY <1>1, StepEffect
<1> HIDE DEF t
<1>3. k + 1 \in 1 .. k + 1 /\ \A i \in 1 .. k : i \in 1 .. k + 1
  OBVIOUS
<1>4. \A i \in 1 .. k + 1 : i \in 1 .. k \/ i = k + 1
  OBVIOUS
<1>5. CASE s.code # OK
  <2>1. t = s
    BY <1>2, <1>5
  <2>2. t.code # OK
    BY <1>5, <2>1
  <2> QED BY <1>3, <2>1, <2>2 DEF CodeInv, t
<1>6. CASE s.code = OK /\ o.op = "fail"
  <2>1. /\ t.code = o.code /\ t.ptr = s.ptr /\ t.len = s.len
    BY <1>2, <1>6 DEF Effect
  <2>2. o.code # OK
    BY <1>1, <1>6, OpFacts
  <2>3. s.code # OUT_OF_MEMORY
    BY <1>6 DEF OK, OUT_OF_MEMORY
  <2>4. CodeInv(t, ops, k + 1)
    BY <1>2, <1>3, <1>6, <2>1, <2>2, <2>3 DEF CodeInv
  <2> QED BY <2>4 DEF t
<1>7. CASE s.code = OK /\ o.op = "clear"
  <2>1. t.code = OK /\ Forgets(s, o, t)
    BY <1>2, <1>7 DEF Effect
  <2>2. o.slot[3] = "algorithm"
    BY <1>1, <1>7 DEF OpSet
  <2>3. \A key : <<key, 0, "">> # o.slot
    <3>1. \A key : <<key, 0, "">>[3] = ""
      OBVIOUS
    <3> QED BY <2>2, <3>1
  <2>4. \A key \in DOMAIN s.len : <<key, 0, "">> \in DOMAIN t.ptr
    <3>1. \A key \in DOMAIN s.len : <<key, 0, "">> \in DOMAIN s.ptr
      <4>1. s.code # OUT_OF_MEMORY
        BY <1>7 DEF OK, OUT_OF_MEMORY
      <4> QED BY <4>1 DEF CodeInv
    <3>2. DOMAIN t.ptr = DOMAIN s.ptr \ Touched(s, o)
      BY <2>1 DEF Forgets
    <3>3. \A key : <<key, 0, "">> \notin Touched(s, o)
      BY <1>7, <2>3 DEF Touched
    <3> QED BY <3>1, <3>2, <3>3
  <2>5. t.len = s.len
    BY <2>1 DEF Forgets
  <2>6. \A i \in 1 .. k + 1 : ops[i].op # "fail"
    BY <1>4, <1>7 DEF CodeInv
  <2>7. CodeInv(t, ops, k + 1)
    BY <1>2, <2>1, <2>4, <2>5, <2>6 DEF CodeInv
  <2> QED BY <2>7 DEF t
<1>8. CASE s.code = OK /\ o.op \in {"malloc", "calloc"} /\ t.code = OUT_OF_MEMORY
  <2>1. t.code # OK
    BY <1>8 DEF OK, OUT_OF_MEMORY
  <2>2. CodeInv(t, ops, k + 1)
    BY <1>2, <1>8, <2>1 DEF CodeInv
  <2> QED BY <2>2 DEF t
<1>9. CASE s.code = OK /\ o.op \in {"malloc", "calloc"} /\ t.code # OUT_OF_MEMORY
  <2>1. t.code = OK /\ Allocates(s, o, t)
    BY <1>2, <1>9 DEF Effect
  <2>2. DOMAIN t.ptr = (DOMAIN s.ptr \ Touched(s, o)) \cup {o.slot}
    BY <2>1 DEF Allocates
  <2>3. \A key \in DOMAIN s.len : <<key, 0, "">> \in DOMAIN s.ptr
    <3>1. s.code # OUT_OF_MEMORY
      BY <1>9 DEF OK, OUT_OF_MEMORY
    <3> QED BY <3>1 DEF CodeInv
  <2>4. ASSUME NEW key \in DOMAIN t.len PROVE <<key, 0, "">> \in DOMAIN t.ptr
    <3>1. CASE o.op = "malloc"
      <4>1. key \in DOMAIN s.len
        BY <2>1, <2>4, <3>1 DEF Allocates
      <4>2. <<key, 0, "">> \in DOMAIN s.ptr
        BY <2>3, <4>1
      <4>3. <<key, 0, "">> \in Touched(s, o) => <<key, 0, "">> = o.slot
        BY <3>1 DEF Touched
      <4> QED BY <2>2, <4>2, <4>3
    <3>2. CASE o.op = "calloc"
      <4>1. o.slot = <<o.slot[1], 0, "">>
        BY <1>1, <3>2 DEF OpSet
      <4>2. CASE key = o.slot[1]
        BY <2>2, <4>1, <4>2
      <4>3. CASE key # o.slot[1]
        <5>1. key \in DOMAIN s.len
          BY <2>1, <2>4, <3>2, <4>3 DEF Allocates
        <5>2. <<key, 0, "">> \in DOMAIN s.ptr
          BY <2>3, <5>1
        <5>3. <<key, 0, "">>[1] = key
          OBVIOUS
        <5>4. <<key, 0, "">> \notin Touched(s, o)
          BY <4>3, <5>3 DEF Touched
        <5> QED BY <2>2, <5>2, <5>4
      <4> QED BY <4>2, <4>3
    <3> QED BY <1>9, <3>1, <3>2
  <2>5. \A i \in 1 .. k + 1 : ops[i].op # "fail"
    BY <1>4, <1>9 DEF CodeInv
  <2>6. CodeInv(t, ops, k + 1)
    BY <1>2, <2>1, <2>4, <2>5 DEF CodeInv
  <2> QED BY <2>6 DEF t
<1>10. o.op \in {"fail", "malloc", "clear", "calloc"}
  BY <1>1 DEF OpSet
<1> QED BY <1>5, <1>6, <1>7, <1>8, <1>9, <1>10

(* The heap before the first operation.                                    *)
LEMMA FreshHeap == Fresh \in Heap
<1>1. <<>> \in [{} -> Nat] /\ {} \in SUBSET Slots /\ {} \in SUBSET Names
  OBVIOUS
<1>2. <<>> \in PtrSet /\ <<>> \in LenSet
  BY <1>1 DEF PtrSet, LenSet
<1> QED BY <1>2 DEF Fresh, Heap, OK

(* The result of a run, and when freeing what it leaves is fatal.          *)
LEMMA RunResult ==
    ASSUME NEW ops \in Seq(OpSet), NEW fails
    PROVE  LET r == Run(ops, fails) IN
           /\ r \in Heap
           /\ \/ r.code \in {OK, OUT_OF_MEMORY}
              \/ \E i \in 1 .. Len(ops) : ops[i].op = "fail" /\ ops[i].code = r.code
           /\ r.code = OK => ~Fails(ops)
           /\ FreeCrashes(r) => r.code = OUT_OF_MEMORY
<1>1. Len(ops) \in Nat /\ DOMAIN ops = 1 .. Len(ops)
  OBVIOUS
<1>2. PICK after :
          /\ after[0] = Fresh
          /\ \A k \in Nat : k + 1 \in 1 .. Len(ops) =>
                after[k + 1] = Step(after[k], ops[k + 1], fails)
          /\ Run(ops, fails) = after[Len(ops)]
  BY <1>1, RunSteps
<1> DEFINE S == {k \in Nat : k \in 0 .. Len(ops) => CodeInv(after[k], ops, k)}
<1>3. 0 \in S
  <2>1. CodeInv(Fresh, ops, 0)
    BY FreshHeap DEF CodeInv, Fresh
  <2> QED BY <1>2, <2>1
<1>4. ASSUME NEW k \in Nat, k \in S PROVE k + 1 \in S
  <2> SUFFICES ASSUME k + 1 \in 0 .. Len(ops) PROVE CodeInv(after[k + 1], ops, k + 1)
    OBVIOUS
  <2>1. k \in 0 .. Len(ops) /\ k + 1 \in 1 .. Len(ops)
    BY <1>1
  <2>2. CodeInv(after[k], ops, k)
    BY <1>4, <2>1
  <2>3. CodeInv(Step(after[k], ops[k + 1], fails), ops, k + 1)
    BY <2>1, <2>2, CodeStep
  <2> QED BY <1>2, <2>1, <2>3
<1>5. Len(ops) \in S
  <2> HIDE DEF S
  <2> QED BY <1>1, <1>3, <1>4, NatSetInduction
<1> DEFINE r == Run(ops, fails)
<1>6. CodeInv(r, ops, Len(ops))
  BY <1>1, <1>2, <1>5
<1> HIDE DEF r
<1>7. r.code = OK => ~Fails(ops)
  BY <1>1, <1>6 DEF CodeInv, Fails
<1>8. FreeCrashes(r) => r.code = OUT_OF_MEMORY
  BY <1>6 DEF CodeInv, FreeCrashes
<1>9. /\ r \in Heap
      /\ \/ r.code \in {OK, OUT_OF_MEMORY}
         \/ \E i \in 1 .. Len(ops) : ops[i].op = "fail" /\ ops[i].code = r.code
  BY <1>6 DEF CodeInv
<1> QED BY <1>7, <1>8, <1>9 DEF r

(* What is allocated is not allocated or cleared again, and what is freed  *)
(* accounts for it: an entry of a list by the length of the list.          *)
Tidy(ops) ==
    \A k \in 1 .. Len(ops) : \A l \in 1 .. Len(ops) :
        k < l /\ ops[k].op \in {"malloc", "calloc"} /\ ops[l].op # "fail" =>
            /\ ops[l].slot # ops[k].slot
            /\ ops[l].op = "calloc" => ops[l].slot[1] # ops[k].slot[1]
LookupTable == "countrate_correction_lookup_table"
ListsOfArrays == FreedLists \ {"channels", "threshold_energy"}
Announced(ops, l) ==
    \E k \in 1 .. Len(ops) :
        /\ k < l /\ ops[k].op = "calloc" /\ ops[k].slot[1] = ops[l].slot[1]
        /\ ops[l].slot[2] <= ops[k].n
IsKept(ops, l) ==
    LET x == ops[l].slot IN
    \/ x = MessageSlot
    \/ x[3] = "" /\ x[1] \in FreedTexts
    \/ x[3] = "algorithm" /\ x[1] = LookupTable
    \/ x[3] = "channel" /\ x[1] \in FreedLists /\ Announced(ops, l)
    \/ x[3] = "algorithm" /\ x[1] \in ListsOfArrays /\ Announced(ops, l)
Accounted(ops) ==
    \A l \in 1 .. Len(ops) :
        /\ ops[l].op = "calloc" => ops[l].slot[1] \in FreedLists
        /\ ops[l].op = "malloc" => IsKept(ops, l)

(* A slot that is freed.                                                   *)
InList(s, x) == x[1] \in DOMAIN s.len /\ x[2] <= s.len[x[1]]
Owned(s, x) ==
    \/ x = MessageSlot
    \/ x[3] = "" /\ x[1] \in FreedTexts \cup FreedLists
    \/ x[3] = "algorithm" /\ x[1] = LookupTable
    \/ x[3] = "channel" /\ x[1] \in FreedLists /\ InList(s, x)
    \/ x[3] = "algorithm" /\ x[1] \in ListsOfArrays /\ InList(s, x)

(* After the first k operations every block has a pointer, which is freed, *)
(* and the lengths are those the lists were allocated with.                *)
HeapInv(s, ops, k) ==
    /\ s \in Heap
    /\ \A b \in s.live : \E x \in DOMAIN s.ptr : s.ptr[x] = b
    /\ \A x \in DOMAIN s.ptr : \E i \in 1 .. k :
          ops[i].op \in {"malloc", "calloc"} /\ ops[i].slot = x
    /\ \A key \in DOMAIN s.len : \E i \in 1 .. k :
          ops[i].op = "calloc" /\ ops[i].slot[1] = key
    /\ s.code = OK => \A i \in 1 .. k : ops[i].op = "calloc" =>
          ops[i].slot[1] \in DOMAIN s.len /\ s.len[ops[i].slot[1]] = ops[i].n
    /\ \A x \in DOMAIN s.ptr : Owned(s, x)
    /\ \A key \in DOMAIN s.len : <<key, 0, "">> \in DOMAIN s.ptr

(* Tidy operations go over no pointer that is there.                       *)
LEMMA NoneTouched ==
    ASSUME NEW ops, Tidy(ops), NEW k \in Nat, k + 1 \in 1 .. Len(ops), Len(ops) \in Nat,
           ops[k + 1].op # "fail", NEW s, HeapInv(s, ops, k)
    PROVE  /\ Touched(s, ops[k + 1]) = {} /\ ops[k + 1].slot \notin DOMAIN s.ptr
           /\ ops[k + 1].op = "calloc" => ops[k + 1].slot[1] \notin DOMAIN s.len
<1> DEFINE o == ops[k + 1]
<1>1. ASSUME NEW i \in 1 .. k, ops[i].op \in {"malloc", "calloc"}
      PROVE  /\ o.slot # ops[i].slot
             /\ o.op = "calloc" => o.slot[1] # ops[i].slot[1]
  <2>1. i \in 1 .. Len(ops) /\ i < k + 1
    OBVIOUS
  <2> QED BY <1>1, <2>1 DEF Tidy
<1>2. ASSUME NEW x \in DOMAIN s.ptr
      PROVE  x # o.slot /\ (o.op = "calloc" => x[1] # o.slot[1])
  <2>1. PICK i \in 1 .. k : ops[i].op \in {"malloc", "calloc"} /\ ops[i].slot = x
    BY DEF HeapInv
  <2> HIDE DEF o
  <2> QED BY <1>1, <2>1
<1>3. ASSUME o.op = "calloc", o.slot[1] \in DOMAIN s.len PROVE FALSE
  <2>1. PICK i \in 1 .. k : ops[i].op = "calloc" /\ ops[i].slot[1] = o.slot[1]
    BY <1>3 DEF HeapInv
  <2> HIDE DEF o
  <2> QED BY <1>1, <1>3, <2>1
<1>4. Touched(s, o) = {}
  <2> HIDE DEF o
  <2> QED BY <1>2 DEF Touched
<1> QED BY <1>2, <1>3, <1>4

(* Nothing changes but the failure.                                        *)
LEMMA HeapUnchanged ==
    ASSUME NEW ops, NEW k \in Nat, NEW s, HeapInv(s, ops, k),
           NEW t \in Heap, t.code = OK => s.code = OK /\ ops[k + 1].op # "calloc",
           t.live = s.live, t.len = s.len,
           DOMAIN t.ptr = DOMAIN s.ptr, \A x \in DOMAIN t.ptr : t.ptr[x] = s.ptr[x]
    PROVE  HeapInv(t, ops, k + 1)
<1>1. \A i \in 1 .. k : i \in 1 .. k + 1
  OBVIOUS
<1>2. \A x : InList(t, x) = InList(s, x)
  BY DEF InList
<1>3. \A x \in DOMAIN s.ptr : Owned(t, x)
  BY <1>2 DEF HeapInv, Owned
<1>4. ASSUME NEW b \in t.live PROVE \E x \in DOMAIN t.ptr : t.ptr[x] = b
  <2>1. PICK x \in DOMAIN s.ptr : s.ptr[x] = b
    BY DEF HeapInv
  <2> QED BY <2>1
<1>5. \A x \in DOMAIN t.ptr : \E i \in 1 .. k + 1 :
          ops[i].op \in {"malloc", "calloc"} /\ ops[i].slot = x
  BY <1>1 DEF HeapInv
<1>6. \A key \in DOMAIN t.len : \E i \in 1 .. k + 1 :
          ops[i].op = "calloc" /\ ops[i].slot[1] = key
  BY <1>1 DEF HeapInv
<1>7. \A key \in DOMAIN t.len : <<key, 0, "">> \in DOMAIN t.ptr
  BY DEF HeapInv
<1>8. t.code = OK => \A i \in 1 .. k + 1 : ops[i].op = "calloc" =>
          ops[i].slot[1] \in DOMAIN t.len /\ t.len[ops[i].slot[1]] = ops[i].n
  <2>1. \A i \in 1 .. k + 1 : i \in 1 .. k \/ i = k + 1
    OBVIOUS
  <2> QED BY <2>1 DEF HeapInv
<1> QED BY <1>3, <1>4, <1>5, <1>6, <1>7, <1>8 DEF HeapInv

(* A block more, and the length of a list.                                 *)
LEMMA HeapAllocates ==
    ASSUME NEW ops \in Seq(OpSet), Tidy(ops), Accounted(ops),
           NEW k \in Nat, k + 1 \in 1 .. Len(ops), NEW s, HeapInv(s, ops, k), s.code = OK,
           NEW t \in Heap, t.code = OK, Allocates(s, ops[k + 1], t),
           ops[k + 1].op \in {"malloc", "calloc"}
    PROVE  HeapInv(t, ops, k + 1)
<1> DEFINE o == ops[k + 1]
           key == o.slot[1]
<1>1. o \in OpSet
  BY ElementOfSeq
<1>2. /\ Touched(s, o) = {} /\ o.slot \notin DOMAIN s.ptr
      /\ o.op = "calloc" => key \notin DOMAIN s.len
  <2>1. Len(ops) \in Nat /\ o.op # "fail"
    OBVIOUS
  <2> QED BY <2>1, NoneTouched
<1>3. PICK b \in Nat :
          /\ t.live = s.live \cup {b}
          /\ DOMAIN t.ptr = DOMAIN s.ptr \cup {o.slot}
          /\ \A x \in DOMAIN t.ptr : t.ptr[x] = IF x = o.slot THEN b ELSE s.ptr[x]
  BY <1>2 DEF Allocates
<1>4. /\ o.op = "malloc" => t.len = s.len
      /\ o.op = "calloc" =>
            /\ DOMAIN t.len = DOMAIN s.len \cup {key}
            /\ \A y \in DOMAIN t.len : t.len[y] = IF y = key THEN o.n ELSE s.len[y]
  BY DEF Allocates
<1>5. o.op = "calloc" => o.slot = <<key, 0, "">>
  BY <1>1, OpFacts
<1>6. o.op \in {"malloc", "calloc"} /\ k + 1 \in 1 .. k + 1
      /\ (\A i \in 1 .. k : i \in 1 .. k + 1)
      /\ \A i \in 1 .. k + 1 : i \in 1 .. k \/ i = k + 1
  OBVIOUS
<1>7. /\ o.op = "calloc" => key \in FreedLists
      /\ o.op = "malloc" => IsKept(ops, k + 1)
  BY DEF Accounted
<1> USE DEF o
<1>8. ASSUME NEW a \in t.live PROVE \E x \in DOMAIN t.ptr : t.ptr[x] = a
  <2>1. CASE a = b
    BY <1>3, <2>1
  <2>2. CASE a # b
    <3>1. a \in s.live
      BY <1>3, <2>2
    <3>2. PICK x \in DOMAIN s.ptr : s.ptr[x] = a
      BY <3>1 DEF HeapInv
    <3> QED BY <1>2, <1>3, <3>2
  <2> QED BY <2>1, <2>2
<1> HIDE DEF o
<1>9. ASSUME NEW x \in DOMAIN t.ptr
      PROVE  \E i \in 1 .. k + 1 : ops[i].op \in {"malloc", "calloc"} /\ ops[i].slot = x
  <2>1. CASE x = o.slot
    BY <1>6, <2>1 DEF o
  <2>2. CASE x # o.slot
    <3>1. x \in DOMAIN s.ptr
      BY <1>3, <2>2
    <3> QED BY <1>6, <3>1 DEF HeapInv
  <2> QED BY <2>1, <2>2
<1>10. ASSUME NEW y \in DOMAIN t.len
       PROVE  \E i \in 1 .. k + 1 : ops[i].op = "calloc" /\ ops[i].slot[1] = y
  <2>1. CASE y \in DOMAIN s.len
    BY <1>6, <2>1 DEF HeapInv
  <2>2. CASE y \notin DOMAIN s.len
    <3>1. o.op = "calloc" /\ y = key
      BY <1>4, <1>6, <2>2
    <3> QED BY <1>6, <3>1 DEF o
  <2> QED BY <2>1, <2>2
<1>11. \A y \in DOMAIN s.len : y \in DOMAIN t.len /\ t.len[y] = s.len[y]
  BY <1>2, <1>4, <1>6
<1>12. ASSUME NEW i \in 1 .. k + 1, ops[i].op = "calloc"
       PROVE  ops[i].slot[1] \in DOMAIN t.len /\ t.len[ops[i].slot[1]] = ops[i].n
  <2>1. CASE i \in 1 .. k
    <3>1. ops[i].slot[1] \in DOMAIN s.len /\ s.len[ops[i].slot[1]] = ops[i].n
      BY <1>12, <2>1 DEF HeapInv
    <3> QED BY <1>11, <3>1
  <2>2. CASE i = k + 1
    BY <1>4, <1>12, <2>2 DEF o
  <2> QED BY <1>6, <2>1, <2>2
<1>13. \A x : InList(s, x) => InList(t, x)
  BY <1>11 DEF InList
<1>14. ASSUME NEW x \in DOMAIN t.ptr PROVE Owned(t, x)
  <2>1. CASE x \in DOMAIN s.ptr
    <3>1. Owned(s, x)
      BY <2>1 DEF HeapInv
    <3> QED BY <1>13, <3>1 DEF Owned
  <2>2. CASE x = o.slot /\ o.op = "calloc"
    <3>1. x[3] = "" /\ x[1] = key
      <4>1. \A y : <<y, 0, "">>[3] = ""
        OBVIOUS
      <4>2. o.slot[3] = ""
        BY <1>5, <2>2, <4>1
      <4> QED BY <2>2, <4>2
    <3> QED BY <1>7, <2>2, <3>1 DEF Owned
  <2>3. CASE x = o.slot /\ o.op = "malloc"
    <3>1. ASSUME Announced(ops, k + 1) PROVE InList(t, x)
      <4>1. PICK i \in 1 .. Len(ops) :
                /\ i < k + 1 /\ ops[i].op = "calloc" /\ ops[i].slot[1] = x[1]
                /\ x[2] <= ops[i].n
        BY <2>3, <3>1 DEF Announced, o
      <4>2. i \in 1 .. k + 1
        BY <4>1
      <4> QED BY <1>12, <4>1, <4>2 DEF InList
    <3>2. IsKept(ops, k + 1)
      BY <1>7, <2>3
    <3> QED BY <2>3, <3>1, <3>2 DEF IsKept, Owned, o
  <2> QED BY <1>3, <1>6, <2>1, <2>2, <2>3
<1>15. ASSUME NEW y \in DOMAIN t.len PROVE <<y, 0, "">> \in DOMAIN t.ptr
  <2>1. CASE y \in DOMAIN s.len
    BY <1>3, <2>1 DEF HeapInv
  <2>2. CASE y \notin DOMAIN s.len
    <3>1. o.op = "calloc" /\ y = key
      BY <1>4, <1>6, <2>2
    <3> HIDE DEF key
    <3> QED BY <1>3, <1>5, <3>1
  <2> QED BY <2>1, <2>2
<1> QED BY <1>8, <1>9, <1>10, <1>12, <1>14, <1>15 DEF HeapInv

(* An operation more.                                                      *)
LEMMA HeapStep ==
    ASSUME NEW ops \in Seq(OpSet), Tidy(ops), Accounted(ops),
           NEW k \in Nat, k + 1 \in 1 .. Len(ops), NEW fails, NEW s, HeapInv(s, ops, k)
    PROVE  HeapInv(Step(s, ops[k + 1], fails), ops, k + 1)
<1> DEFINE o == ops[k + 1]
           t == Step(s, o, fails)
<1>1. s \in Heap
  BY DEF HeapInv
<1>2. o \in OpSet
  BY ElementOfSeq
<1>3. t \in Heap /\ IF s.code = OK THEN Effect(s, o, t) ELSE t = s
  BY <1>1, <1>2, StepEffect
<1>4. /\ o.op \in {"fail", "malloc", "clear", "calloc"}
      /\ o.op = "fail" => o.code # OK
  BY <1>2, OpFacts
<1>5. Len(ops) \in Nat
  OBVIOUS
<1>6. OUT_OF_MEMORY # OK
  BY DEF OK, OUT_OF_MEMORY
<1> HIDE DEF t
<1>7. CASE s.code # OK
  BY <1>3, <1>7, HeapUnchanged DEF t
<1>8. CASE s.code = OK /\ o.op = "fail"
  <2>1. t.code # OK /\ t.live = s.live /\ t.ptr = s.ptr /\ t.len = s.len
    BY <1>3, <1>4, <1>8 DEF Effect
  <2>2. HeapInv(t, ops, k + 1)
    BY <1>3, <2>1, HeapUnchanged
  <2> QED BY <2>2 DEF t
<1>9. CASE s.code = OK /\ o.op # "fail" /\ (o.op = "clear" \/ t.code = OUT_OF_MEMORY)
  <2>1. /\ Forgets(s, o, t)
        /\ t.code = OK => o.op # "calloc"
    BY <1>3, <1>4, <1>6, <1>9 DEF Effect
  <2>2. Touched(s, o) = {}
    BY <1>5, <1>9, NoneTouched
  <2>3. /\ t.live = s.live /\ t.len = s.len /\ DOMAIN t.ptr = DOMAIN s.ptr
        /\ \A x \in DOMAIN t.ptr : t.ptr[x] = s.ptr[x]
    BY <2>1, <2>2 DEF Forgets
  <2>4. HeapInv(t, ops, k + 1)
    BY <1>3, <1>9, <2>1, <2>3, HeapUnchanged
  <2> QED BY <2>4 DEF t
<1>10. CASE s.code = OK /\ o.op \in {"malloc", "calloc"} /\ t.code # OUT_OF_MEMORY
  <2>1. t.code = OK /\ Allocates(s, o, t)
    BY <1>3, <1>10 DEF Effect
  <2>2. HeapInv(t, ops, k + 1)
    BY <1>3, <1>10, <2>1, HeapAllocates
  <2> QED BY <2>2 DEF t
<1> QED BY <1>4, <1>7, <1>8, <1>9, <1>10

(* Of a tidy message nothing is left over, and freeing it is not fatal.    *)
LEMMA TidyResult ==
    ASSUME NEW ops \in Seq(OpSet), Tidy(ops), Accounted(ops), NEW fails
    PROVE  Leftover(Run(ops, fails)) = {} /\ ~FreeCrashes(Run(ops, fails))
<1>1. Len(ops) \in Nat
  OBVIOUS
<1>2. PICK after :
          /\ after[0] = Fresh
          /\ \A k \in Nat : k + 1 \in 1 .. Len(ops) =>
                after[k + 1] = Step(after[k], ops[k + 1], fails)
          /\ Run(ops, fails) = after[Len(ops)]
  BY <1>1, RunSteps
<1> DEFINE S == {k \in Nat : k \in 0 .. Len(ops) => HeapInv(after[k], ops, k)}
<1>3. 0 \in S
  <2>1. HeapInv(Fresh, ops, 0)
    BY FreshHeap DEF HeapInv, Fresh
  <2> QED BY <1>2, <2>1
<1>4. ASSUME NEW k \in Nat, k \in S PROVE k + 1 \in S
  <2> SUFFICES ASSUME k + 1 \in 0 .. Len(ops) PROVE HeapInv(after[k + 1], ops, k + 1)
    OBVIOUS
  <2>1. k \in 0 .. Len(ops) /\ k + 1 \in 1 .. Len(ops)
    BY <1>1
  <2>2. HeapInv(after[k], ops, k)
    BY <1>4, <2>1
  <2>3. HeapInv(Step(after[k], ops[k + 1], fails), ops, k + 1)
    BY <2>1, <2>2, HeapStep
  <2> QED BY <1>2, <2>1, <2>3
<1>5. Len(ops) \in S
  <2> HIDE DEF S
  <2> QED BY <1>1, <1>3, <1>4, NatSetInduction
<1> DEFINE r == Run(ops, fails)
<1>6. HeapInv(r, ops, Len(ops))
  BY <1>1, <1>2, <1>5
<1> HIDE DEF r
<1>7. \A x \in DOMAIN r.ptr : IsFreed(r, x)
  BY <1>6 DEF HeapInv, Owned, IsFreed, InList, LookupTable, ListsOfArrays
<1>8. ASSUME NEW b \in r.live
      PROVE  b \in {r.ptr[slot] : slot \in {x \in DOMAIN r.ptr : IsFreed(r, x)}}
  <2>1. PICK x \in DOMAIN r.ptr : r.ptr[x] = b
    BY <1>6 DEF HeapInv
  <2> QED BY <1>7, <2>1
<1>9. Leftover(r) = {}
  BY <1>8 DEF Leftover
<1>10. ~FreeCrashes(r)
  BY <1>6 DEF HeapInv, FreeCrashes
<1> QED BY <1>9, <1>10 DEF r

-----------------------------------------------------------------------------
(* What the items of a message come to.                                    *)

(* A failure is an error, or that of the parser if there is reason for it. *)
Failures(a) == {Op("fail", c, NoSlot, 0) : c \in IF a THEN 2 .. 6 ELSE 2 .. 5}
Checks(a) == Seq(Failures(a))

(* At most one operation is other than a failure, and that one of T.       *)
Once(a, T) ==
    {ops \in Seq(Failures(a) \cup T) :
        \A k \in 1 .. Len(ops) : \A l \in 1 .. Len(ops) :
            ops[k].op # "fail" /\ ops[l].op # "fail" => k = l}

(* Failures are operations.                                                *)
LEMMA FailureFacts ==
    ASSUME NEW a \in BOOLEAN
    PROVE  /\ Failures(a) \subseteq OpSet
           /\ \A o \in Failures(a) : o.op = "fail"
           /\ \A o \in Failures(a) : o.code = ABORT => a
           /\ \A c \in 2 .. 5 : Fail(c) \in Checks(a)
           /\ a => Fail(ABORT) \in Checks(a)
           /\ <<>> \in Checks(a)
<1>1. NoSlot \in Slots
  <2>1. "" \in Names
    BY DEF Names
  <2>2. \A key \in Names : <<key, 0, "">> \in Slots
    BY DEF Slots
  <2> QED BY <2>1, <2>2 DEF NoSlot
<1>2. ASSUME NEW c \in 2 .. 6 PROVE Op("fail", c, NoSlot, 0) \in OpSet
  <2> DEFINE o == Op("fail", c, NoSlot, 0)
  <2>1. /\ o \in [op : {"fail", "malloc", "clear", "calloc"}, code : 0 .. 6,
                  slot : Slots, n : Nat]
        /\ o.op = "fail" /\ o.code = c
    BY <1>1 DEF Op
  <2> HIDE DEF o
  <2>2. o \in OpSet
    BY <2>1 DEF OpSet
  <2> QED BY <2>2 DEF o
<1>3. \A c : Op("fail", c, NoSlot, 0).op = "fail" /\ Op("fail", c, NoSlot, 0).code = c
  BY DEF Op
<1>4. Failures(a) \subseteq OpSet /\ \A o \in Failures(a) : o.op = "fail"
  BY <1>2, <1>3 DEF Failures
<1>5. \A o \in Failures(a) : o.code = ABORT => a
  BY <1>3 DEF Failures, ABORT
<1>6. \A c \in 2 .. 5 : Op("fail", c, NoSlot, 0) \in Failures(a)
  BY DEF Failures
<1>7. a => Op("fail", ABORT, NoSlot, 0) \in Failures(a)
  BY DEF Failures, ABORT
<1>8. \A o \in Failures(a) : <<o>> \in Checks(a)
  BY DEF Checks
<1>9. \A c \in 2 .. 5 : Fail(c) \in Checks(a)
  BY <1>6, <1>8 DEF Fail
<1>10. a => Fail(ABORT) \in Checks(a)
  BY <1>7, <1>8 DEF Fail
<1>11. <<>> \in Checks(a)
  BY DEF Checks
<1> QED BY <1>4, <1>5, <1>9, <1>10, <1>11

(* One thing and then another.                                             *)
LEMMA ThenFacts ==
    ASSUME NEW S, NEW x \in Seq(S), NEW y \in Seq(S)
    PROVE  /\ Then(x, y) \in Seq(S) /\ x \o y \in Seq(S)
           /\ Then(x, y) = x \/ Then(x, y) = x \o y
<1>1. x \o y \in Seq(S)
  BY ConcatProperties
<1> QED BY <1>1 DEF Then

(* A check is a failure or nothing.                                        *)
LEMMA CheckFacts ==
    ASSUME NEW a \in BOOLEAN
    PROVE  /\ \A cond \in BOOLEAN : \A c \in 2 .. 5 : Expect(cond, c) \in Checks(a)
           /\ \A item, t : OfType(item, t) \in Checks(a)
           /\ \A item, t : Counted(item, t) \in Checks(a)
           /\ \A item, n : Exactly(item, n) \in Checks(a)
           /\ \A item : ByteString(item) \in Checks(a)
<1>1. DECODE \in 2 .. 5 /\ PARSE \in 2 .. 5
  BY DEF DECODE, PARSE
<1>2. \A cond : \A c \in 2 .. 5 : Expect(cond, c) \in Checks(a)
  BY FailureFacts DEF Expect
<1>3. \A item, t : OfType(item, t) \in Checks(a)
  BY <1>1, <1>2, FailureFacts DEF OfType
<1>4. \A item, t : Counted(item, t) \in Checks(a)
  BY <1>1, <1>2, <1>3, ThenFacts DEF Counted, Checks
<1>5. \A item, n : Exactly(item, n) \in Checks(a)
  BY <1>1, <1>2, <1>4, ThenFacts DEF Exactly, Checks
<1>6. ASSUME NEW item PROVE ByteString(item) \in Checks(a)
  <2> DEFINE rest == CASE item.v = "chunked" -> Fail(PARSE)
                       [] item.v = "cut" -> Fail(DECODE)
                       [] OTHER -> <<>>
  <2>1. rest \in Checks(a)
    BY <1>1, FailureFacts
  <2> HIDE DEF rest
  <2>2. Then(OfType(item, "bytes"), rest) \in Checks(a)
    BY <1>3, <2>1, ThenFacts DEF Checks
  <2> QED BY <2>2 DEF ByteString, rest
<1> QED BY <1>2, <1>3, <1>4, <1>5, <1>6

(* The elements of a list are only checked.                                *)
LEMMA ListOfFacts ==
    ASSUME NEW a \in BOOLEAN, NEW item, NEW n \in Nat, NEW t
    PROVE  ListOf(item, n, t) \in Checks(a)
<1> DEFINE ss == [i \in 1 .. n |-> OfType(item.elems[i], t)]
<1>1. ss \in Seq(Checks(a))
  BY CheckFacts
<1>2. FlattenSeq(ss) \in Checks(a)
  BY <1>1, Flattened DEF Checks
<1> HIDE DEF ss
<1>3. Then(Exactly(item, n), FlattenSeq(ss)) \in Checks(a)
  BY <1>2, CheckFacts, ThenFacts DEF Checks
<1> QED BY <1>3 DEF ListOf, ss

(* Checks before or after add no other operation.                          *)
LEMMA OnceFacts ==
    ASSUME NEW a \in BOOLEAN, NEW T, NEW x \in Once(a, T), NEW c \in Checks(a)
    PROVE  x \o c \in Once(a, T) /\ c \o x \in Once(a, T)
<1> DEFINE F == Failures(a) \cup T
<1>1. x \in Seq(F) /\ c \in Seq(F) /\ \A k \in 1 .. Len(c) : c[k].op = "fail"
  BY FailureFacts DEF Once, Checks
<1>2. Len(x) \in Nat /\ Len(c) \in Nat
  BY <1>1
<1>3. /\ x \o c \in Seq(F) /\ Len(x \o c) = Len(x) + Len(c)
      /\ \A k \in 1 .. Len(x) + Len(c) :
            (x \o c)[k] = IF k <= Len(x) THEN x[k] ELSE c[k - Len(x)]
  BY <1>1, ConcatProperties
<1>4. /\ c \o x \in Seq(F) /\ Len(c \o x) = Len(c) + Len(x)
      /\ \A k \in 1 .. Len(c) + Len(x) :
            (c \o x)[k] = IF k <= Len(c) THEN c[k] ELSE x[k - Len(c)]
  BY <1>1, ConcatProperties
<1>5. \A k \in 1 .. Len(x) : \A l \in 1 .. Len(x) :
            x[k].op # "fail" /\ x[l].op # "fail" => k = l
  BY DEF Once
<1> HIDE DEF F
<1>6. ASSUME NEW k \in 1 .. Len(x \o c), (x \o c)[k].op # "fail"
      PROVE  k \in 1 .. Len(x) /\ (x \o c)[k] = x[k]
  <2>1. ASSUME k > Len(x) PROVE FALSE
    <3>1. k - Len(x) \in 1 .. Len(c)
      BY <1>2, <1>3, <2>1
    <3> QED BY <1>1, <1>2, <1>3, <1>6, <2>1, <3>1
  <2> QED BY <1>2, <1>3, <2>1
<1>7. ASSUME NEW k \in 1 .. Len(c \o x), (c \o x)[k].op # "fail"
      PROVE  k - Len(c) \in 1 .. Len(x) /\ (c \o x)[k] = x[k - Len(c)]
  <2>1. ASSUME k <= Len(c) PROVE FALSE
    <3>1. k \in 1 .. Len(c)
      BY <1>2, <1>4, <2>1
    <3> QED BY <1>1, <1>2, <1>4, <1>7, <2>1, <3>1
  <2> QED BY <1>2, <1>4, <2>1
<1>8. x \o c \in Once(a, T)
  BY <1>3, <1>5, <1>6 DEF Once, F
<1>9. c \o x \in Once(a, T)
  <2>1. ASSUME NEW k \in 1 .. Len(c \o x), NEW l \in 1 .. Len(c \o x),
               (c \o x)[k].op # "fail", (c \o x)[l].op # "fail"
        PROVE  k = l
    <3>1. k - Len(c) = l - Len(c)
      BY <1>5, <1>7, <2>1
    <3> QED BY <1>2, <1>4, <3>1
  <2> QED BY <1>4, <2>1 DEF Once, F
<1> QED BY <1>8, <1>9

(* One operation, once.                                                    *)
LEMMA OneOp ==
    ASSUME NEW a \in BOOLEAN, NEW o, o.op # "fail"
    PROVE  <<o>> \in Once(a, {o})
BY DEF Once

(* Of more operations, one of them is one of all of them.                  *)
LEMMA OnceMore ==
    ASSUME NEW a, NEW T, NEW U, T \subseteq U
    PROVE  Once(a, T) \subseteq Once(a, U)
<1>1. Failures(a) \cup T \subseteq Failures(a) \cup U
  OBVIOUS
<1>2. Seq(Failures(a) \cup T) \subseteq Seq(Failures(a) \cup U)
  BY <1>1
<1> QED BY <1>2 DEF Once

(* No operation is at most one.                                            *)
LEMMA ChecksOnce ==
    ASSUME NEW a \in BOOLEAN, NEW T
    PROVE  Checks(a) \subseteq Once(a, T)
<1>1. Seq(Failures(a)) \subseteq Seq(Failures(a) \cup T)
  OBVIOUS
<1>2. \A c \in Seq(Failures(a)) : \A k \in 1 .. Len(c) : c[k].op = "fail"
  BY FailureFacts
<1> QED BY <1>1, <1>2 DEF Checks, Once

(* The same for what is done if nothing failed before.                     *)
LEMMA OnceThen ==
    ASSUME NEW a \in BOOLEAN, NEW T, NEW x \in Once(a, T), NEW c \in Checks(a)
    PROVE  Then(x, c) \in Once(a, T) /\ Then(c, x) \in Once(a, T)
<1>1. x \o c \in Once(a, T) /\ c \o x \in Once(a, T) /\ c \in Once(a, T)
  BY OnceFacts, ChecksOnce
<1> QED BY <1>1 DEF Then

(* The operations of a slot.                                               *)
Made(slot) == Op("malloc", OK, slot, 0)
Cleared(slot) == Op("clear", OK, slot, 0)
Either(slot) == {Made(slot), Cleared(slot)}

(* A text is copied, if at all.                                            *)
LEMMA TextOnce ==
    ASSUME NEW a \in BOOLEAN, NEW elems, NEW i, NEW slot
    PROVE  Text(elems, i, slot) \in Once(a, {Made(slot)})
<1>1. Dup(slot) \in Once(a, {Made(slot)})
  <2>1. Made(slot).op = "malloc"
    BY DEF Made, Op
  <2>2. <<Made(slot)>> \in Once(a, {Made(slot)})
    BY <2>1, OneOp
  <2> QED BY <2>2 DEF Dup, Made
<1>2. Fail(DECODE) \in Once(a, {Made(slot)})
  <2>1. DECODE \in 2 .. 5
    BY DEF DECODE
  <2> QED BY <2>1, FailureFacts, ChecksOnce
<1>3. OfType(elems[i], "text") \in Checks(a)
  BY CheckFacts
<1> QED BY <1>1, <1>2, <1>3, OnceThen DEF Text

(* So is the algorithm of what is compressed.                              *)
LEMMA CompressedOnce ==
    ASSUME NEW a \in BOOLEAN, NEW item, NEW slot
    PROVE  Compressed(item, slot) \in Once(a, {Made(slot)})
<1> DEFINE T == {Made(slot)}
           blob == Text(item.elems, 1, slot) \o OfType(item.elems[2], "uint")
                       \o ByteString(item.elems[3])
           rest == IF item.elems[1].v \in Algorithms
                   THEN Expect(item.elems[3].v # "short", DECODE)
                   ELSE Fail(NOT_IMPLEMENTED)
<1>1. rest \in Checks(a)
  <2>1. DECODE \in 2 .. 5 /\ NOT_IMPLEMENTED \in 2 .. 5
    BY DEF DECODE, NOT_IMPLEMENTED
  <2> QED BY <2>1, CheckFacts, FailureFacts
<1>2. blob \in Once(a, T)
  <2>1. Text(item.elems, 1, slot) \in Once(a, T)
    BY TextOnce
  <2>2. OfType(item.elems[2], "uint") \in Checks(a) /\ ByteString(item.elems[3]) \in Checks(a)
    BY CheckFacts
  <2> QED BY <2>1, <2>2, OnceFacts
<1>3. Exactly(item, 3) \in Checks(a)
  BY CheckFacts
<1> HIDE DEF T, blob, rest
<1>4. Then(Exactly(item, 3), Then(blob, rest)) \in Once(a, T)
  BY <1>1, <1>2, <1>3, OnceThen
<1> QED BY <1>4 DEF Compressed, T, blob, rest

(* Bytes have an algorithm, or else none.                                  *)
LEMMA BytesOnce ==
    ASSUME NEW a \in BOOLEAN, NEW item, NEW slot
    PROVE  Bytes(item, slot) \in Once(a, Either(slot))
<1>1. {Made(slot)} \subseteq Either(slot) /\ {Cleared(slot)} \subseteq Either(slot)
  BY DEF Either
<1>2. Compressed(item.elems[1], slot) \in Once(a, Either(slot))
  <2>1. Compressed(item.elems[1], slot) \in Once(a, {Made(slot)})
    BY CompressedOnce
  <2> QED BY <1>1, <2>1, OnceMore
<1>3. Fail(PARSE) \in Once(a, Either(slot))
  <2>1. PARSE \in 2 .. 5
    BY DEF PARSE
  <2> QED BY <2>1, FailureFacts, ChecksOnce
<1>4. Clear(slot) \in Once(a, Either(slot))
  <2>1. Cleared(slot).op = "clear"
    BY DEF Cleared, Op
  <2>2. <<Cleared(slot)>> \in Once(a, {Cleared(slot)})
    BY <2>1, OneOp
  <2> QED BY <1>1, <2>2, OnceMore DEF Clear, Cleared
<1>5. OfType(item, "bytes") \in Checks(a) /\ ByteString(item) \in Checks(a)
  BY CheckFacts
<1>6. Then(OfType(item, "bytes"), Clear(slot) \o ByteString(item)) \in Once(a, Either(slot))
  BY <1>4, <1>5, OnceFacts, OnceThen
<1> QED BY <1>2, <1>3, <1>6 DEF Bytes

(* And so have arrays.                                                     *)
LEMMA ArraysOnce ==
    ASSUME NEW a \in BOOLEAN, NEW item, NEW slot
    PROVE  /\ TypedArray(item, slot) \in Once(a, Either(slot))
           /\ MultidimArray(item, slot) \in Once(a, Either(slot))
<1> DEFINE T == Either(slot)
<1>1. PARSE \in 2 .. 5 /\ NOT_IMPLEMENTED \in 2 .. 5
  BY DEF PARSE, NOT_IMPLEMENTED
<1>2. ASSUME NEW x PROVE TypedArray(x, slot) \in Once(a, T)
  <2> DEFINE rest == IF x.n \in 64 .. 87 THEN Expect(WholeElements(x), PARSE)
                                         ELSE Fail(NOT_IMPLEMENTED)
  <2>1. rest \in Checks(a)
    <3>1. WholeElements(x) \in BOOLEAN
      BY DEF WholeElements
    <3> QED BY <1>1, <3>1, CheckFacts, FailureFacts
  <2>2. OfType(x, "tag") \in Checks(a) /\ Bytes(x.elems[1], slot) \in Once(a, T)
    BY CheckFacts, BytesOnce
  <2> HIDE DEF rest, T
  <2>3. Then(OfType(x, "tag"), Then(Bytes(x.elems[1], slot), rest)) \in Once(a, T)
    BY <2>1, <2>2, OnceThen
  <2> QED BY <2>3 DEF TypedArray, rest
<1> DEFINE pair == item.elems[1]
           dims == ListOf(pair.elems[1], 2, "uint")
           array == TypedArray(pair.elems[2], slot)
           agree == Expect(DimsAgree(pair.elems[1].elems, pair.elems[2]), PARSE)
           tag == Expect(item.n = MULTI_DIMENSIONAL_ARRAY_ROW_MAJOR, PARSE)
<1>3. dims \in Checks(a)
  BY ListOfFacts
<1>4. agree \in Checks(a) /\ tag \in Checks(a)
  <2>1. DimsAgree(pair.elems[1].elems, pair.elems[2]) \in BOOLEAN
    BY DEF DimsAgree
  <2>2. (item.n = MULTI_DIMENSIONAL_ARRAY_ROW_MAJOR) \in BOOLEAN
    OBVIOUS
  <2> QED BY <1>1, <2>1, <2>2, CheckFacts
<1>5. array \in Once(a, T)
  BY <1>2
<1>6. OfType(item, "tag") \in Checks(a) /\ Exactly(pair, 2) \in Checks(a)
  BY CheckFacts
<1> HIDE DEF T, dims, array, agree, tag
<1>7. Then(dims, Then(array, agree)) \in Once(a, T)
  BY <1>3, <1>4, <1>5, OnceThen
<1>8. Then(tag, Then(Exactly(pair, 2), Then(dims, Then(array, agree)))) \in Once(a, T)
  BY <1>4, <1>6, <1>7, OnceThen
<1>9. MultidimArray(item, slot) \in Once(a, T)
  <2>1. Then(OfType(item, "tag"),
             Then(tag, Then(Exactly(pair, 2), Then(dims, Then(array, agree))))) \in Once(a, T)
    BY <1>6, <1>8, OnceThen
  <2> QED BY <2>1 DEF MultidimArray, dims, array, agree, tag
<1> QED BY <1>2, <1>9 DEF T

(* The operations of an entry of a list, and sequences of them in which    *)
(* each slot is used once.                                                 *)
EntryOps(key, i, arrays) ==
    {Made(<<key, i, "channel">>)}
        \cup (IF arrays THEN Either(<<key, i, "algorithm">>) ELSE {})
EntriesOps(key, n, arrays) == UNION {EntryOps(key, i, arrays) : i \in 1 .. n}
Apart(ops) ==
    \A k \in 1 .. Len(ops) : \A l \in 1 .. Len(ops) :
        k # l /\ ops[k].op # "fail" /\ ops[l].op # "fail" => ops[k].slot # ops[l].slot
IsEntry(a, key, i, arrays, ops) ==
    ops \in Seq(Failures(a) \cup EntryOps(key, i, arrays)) /\ Apart(ops)

(* The parts of an operation of an entry.                                  *)
LEMMA EntryOpFacts ==
    ASSUME NEW key, NEW i, NEW arrays \in BOOLEAN, NEW o \in EntryOps(key, i, arrays)
    PROVE  /\ o.op \in {"malloc", "clear"} /\ o.n = 0 /\ o.code = OK
           /\ o.slot[1] = key /\ o.slot[2] = i
           /\ \/ o.op = "malloc" /\ o.slot = <<key, i, "channel">>
              \/ arrays /\ o.slot = <<key, i, "algorithm">>
<1>1. \/ o = Made(<<key, i, "channel">>)
      \/ arrays /\ o = Made(<<key, i, "algorithm">>)
      \/ arrays /\ o = Cleared(<<key, i, "algorithm">>)
  BY DEF EntryOps, Either
<1>2. \A slot : /\ Made(slot).op = "malloc" /\ Made(slot).slot = slot
                 /\ Made(slot).n = 0 /\ Made(slot).code = OK
                 /\ Cleared(slot).op = "clear" /\ Cleared(slot).slot = slot
                 /\ Cleared(slot).n = 0 /\ Cleared(slot).code = OK
  BY DEF Made, Cleared, Op
<1>3. \A w : <<key, i, w>>[1] = key /\ <<key, i, w>>[2] = i
  OBVIOUS
<1> QED BY <1>1, <1>2, <1>3

(* A channel alone.                                                        *)
LEMMA OneIsEntry ==
    ASSUME NEW a \in BOOLEAN, NEW key, NEW i, NEW arrays \in BOOLEAN,
           NEW x \in Once(a, {Made(<<key, i, "channel">>)})
    PROVE  IsEntry(a, key, i, arrays, x)
<1>1. {Made(<<key, i, "channel">>)} \subseteq EntryOps(key, i, arrays)
  BY DEF EntryOps
<1>2. x \in Once(a, EntryOps(key, i, arrays))
  BY <1>1, OnceMore
<1> QED BY <1>2 DEF Once, IsEntry, Apart

(* A channel and what it is the channel of.                                *)
LEMMA TwoAreEntry ==
    ASSUME NEW a \in BOOLEAN, NEW key, NEW i, NEW arrays \in BOOLEAN,
           NEW x \in Once(a, {Made(<<key, i, "channel">>)}),
           NEW y, \/ y \in Checks(a)
                  \/ arrays /\ y \in Once(a, Either(<<key, i, "algorithm">>))
    PROVE  IsEntry(a, key, i, arrays, x \o y)
<1> DEFINE E == EntryOps(key, i, arrays)
           F == Failures(a) \cup E
           T == IF arrays THEN Either(<<key, i, "algorithm">>) ELSE {}
<1>1. y \in Once(a, T)
  BY ChecksOnce
<1>2. {Made(<<key, i, "channel">>)} \subseteq E /\ T \subseteq E
  BY DEF EntryOps
<1>3. x \in Once(a, E) /\ y \in Once(a, E)
  BY <1>1, <1>2, OnceMore
<1>4. x \in Seq(F) /\ y \in Seq(F)
  BY <1>3 DEF Once
<1>5. /\ x \o y \in Seq(F) /\ Len(x \o y) = Len(x) + Len(y)
      /\ \A k \in 1 .. Len(x) + Len(y) :
            (x \o y)[k] = IF k <= Len(x) THEN x[k] ELSE y[k - Len(x)]
  BY <1>4, ConcatProperties
<1>6. ASSUME NEW k \in 1 .. Len(x), x[k].op # "fail" PROVE x[k].slot = <<key, i, "channel">>
  <2>1. x[k] \in Failures(a) \cup {Made(<<key, i, "channel">>)}
    <3>1. x \in Seq(Failures(a) \cup {Made(<<key, i, "channel">>)})
      BY DEF Once
    <3> QED BY <3>1, ElementOfSeq
  <2> QED BY <1>6, <2>1, FailureFacts DEF Made, Op
<1>7. ASSUME NEW k \in 1 .. Len(y), y[k].op # "fail" PROVE y[k].slot = <<key, i, "algorithm">>
  <2>1. y[k] \in Failures(a) \cup T
    <3>1. y \in Seq(Failures(a) \cup T)
      BY <1>1 DEF Once
    <3> QED BY <3>1, ElementOfSeq
  <2>2. y[k] \in Either(<<key, i, "algorithm">>)
    BY <1>7, <2>1, FailureFacts
  <2> QED BY <2>2 DEF Either, Made, Cleared, Op
<1>8. <<key, i, "channel">> # <<key, i, "algorithm">>
  OBVIOUS
<1>9. Len(x) \in Nat /\ Len(y) \in Nat
  BY <1>4
<1>10. /\ \A k \in 1 .. Len(x) : \A l \in 1 .. Len(x) :
             x[k].op # "fail" /\ x[l].op # "fail" => k = l
       /\ \A k \in 1 .. Len(y) : \A l \in 1 .. Len(y) :
             y[k].op # "fail" /\ y[l].op # "fail" => k = l
  BY <1>3 DEF Once
<1> HIDE DEF E, F, T
<1>11. ASSUME NEW k \in 1 .. Len(x \o y), NEW l \in 1 .. Len(x \o y), k < l,
              (x \o y)[k].op # "fail", (x \o y)[l].op # "fail"
       PROVE  (x \o y)[k].slot # (x \o y)[l].slot
  <2>1. CASE l <= Len(x)
    <3>1. k \in 1 .. Len(x) /\ l \in 1 .. Len(x) /\ (x \o y)[k] = x[k] /\ (x \o y)[l] = x[l]
      BY <1>5, <1>9, <1>11, <2>1
    <3> QED BY <1>10, <1>11, <3>1
  <2>2. CASE k > Len(x)
    <3>1. /\ k - Len(x) \in 1 .. Len(y) /\ l - Len(x) \in 1 .. Len(y)
          /\ (x \o y)[k] = y[k - Len(x)] /\ (x \o y)[l] = y[l - Len(x)]
      BY <1>5, <1>9, <1>11, <2>2
    <3>2. k - Len(x) = l - Len(x)
      BY <1>10, <1>11, <3>1
    <3> QED BY <1>5, <1>9, <1>11, <3>2
  <2>3. CASE k <= Len(x) /\ l > Len(x)
    <3>1. /\ k \in 1 .. Len(x) /\ l - Len(x) \in 1 .. Len(y)
          /\ (x \o y)[k] = x[k] /\ (x \o y)[l] = y[l - Len(x)]
      BY <1>5, <1>9, <1>11, <2>3
    <3> QED BY <1>6, <1>7, <1>8, <1>11, <3>1
  <2> QED BY <1>5, <1>9, <2>1, <2>2, <2>3
<1>12. Apart(x \o y)
  <2> SUFFICES ASSUME NEW k \in 1 .. Len(x \o y), NEW l \in 1 .. Len(x \o y), k # l,
                      (x \o y)[k].op # "fail", (x \o y)[l].op # "fail"
               PROVE  (x \o y)[k].slot # (x \o y)[l].slot
    BY DEF Apart
  <2>1. k < l \/ l < k
    BY <1>5, <1>9
  <2> QED BY <1>11, <2>1
<1> QED BY <1>5, <1>12 DEF IsEntry, E, F

(* The operations of n entries of a table.                                 *)
AreEntries(a, key, n, arrays, ss) ==
    /\ ss = [i \in 1 .. n |-> ss[i]]
    /\ \A i \in 1 .. n : IsEntry(a, key, i, arrays, ss[i])

(* One entry after the other.                                              *)
LEMMA EntriesFlat ==
    ASSUME NEW a \in BOOLEAN, NEW key, NEW n \in Nat, NEW arrays \in BOOLEAN,
           NEW ss, AreEntries(a, key, n, arrays, ss)
    PROVE  /\ FlattenSeq(ss) \in Seq(Failures(a) \cup EntriesOps(key, n, arrays))
           /\ Apart(FlattenSeq(ss))
<1> DEFINE S == Failures(a) \cup EntriesOps(key, n, arrays)
           flat == FlattenSeq(ss)
<1> ss = [i \in 1 .. n |-> ss[i]] /\ \A i \in 1 .. n : IsEntry(a, key, i, arrays, ss[i])
  BY DEF AreEntries
<1>1. ASSUME NEW i \in 1 .. n PROVE ss[i] \in Seq(S)
  <2>1. EntryOps(key, i, arrays) \subseteq EntriesOps(key, n, arrays)
    BY DEF EntriesOps
  <2>2. ss[i] \in Seq(Failures(a) \cup EntryOps(key, i, arrays))
    BY DEF IsEntry
  <2>3. Failures(a) \cup EntryOps(key, i, arrays) \subseteq S
    BY <2>1
  <2> HIDE DEF S
  <2> QED BY <2>2, <2>3
<1> HIDE DEF S
<1>2. ss \in Seq(Seq(S)) /\ Len(ss) = n
  <2>1. [i \in 1 .. n |-> ss[i]] \in Seq(Seq(S))
    BY <1>1
  <2>2. Len([i \in 1 .. n |-> ss[i]]) = n
    OBVIOUS
  <2> QED BY <2>1, <2>2
<1>3. flat \in Seq(S) /\ \E block, place : IsMade(flat, ss, n, block, place)
  BY <1>2, Flattened
<1> HIDE DEF flat
<1>4. PICK block, place : IsMade(flat, ss, n, block, place)
  BY <1>3
<1>5. ASSUME NEW k \in 1 .. Len(flat), flat[k].op # "fail"
      PROVE  flat[k].slot[2] = block[k]
  <2>1. /\ block[k] \in 1 .. n /\ place[k] \in 1 .. Len(ss[block[k]])
        /\ flat[k] = ss[block[k]][place[k]]
    BY <1>4 DEF IsMade
  <2>2. ss[block[k]] \in Seq(Failures(a) \cup EntryOps(key, block[k], arrays))
    BY <2>1 DEF IsEntry
  <2>3. flat[k] \in Failures(a) \cup EntryOps(key, block[k], arrays)
    BY <2>1, <2>2, ElementOfSeq
  <2>4. flat[k] \in EntryOps(key, block[k], arrays)
    BY <1>5, <2>3, FailureFacts
  <2> QED BY <2>4, EntryOpFacts
<1>6. Apart(flat)
  <2> SUFFICES ASSUME NEW k \in 1 .. Len(flat), NEW l \in 1 .. Len(flat), k # l,
                      flat[k].op # "fail", flat[l].op # "fail", flat[k].slot = flat[l].slot
               PROVE  FALSE
    BY DEF Apart
  <2>1. block[k] = block[l]
    BY <1>5
  <2>2. /\ block[k] \in 1 .. n /\ place[k] \in 1 .. Len(ss[block[k]])
        /\ flat[k] = ss[block[k]][place[k]]
        /\ block[l] \in 1 .. n /\ place[l] \in 1 .. Len(ss[block[l]])
        /\ flat[l] = ss[block[l]][place[l]]
    BY <1>4 DEF IsMade
  <2>3. k < l \/ l < k
    OBVIOUS
  <2>4. /\ k < l => block[k] < block[l] \/ (block[k] = block[l] /\ place[k] < place[l])
        /\ l < k => block[l] < block[k] \/ (block[l] = block[k] /\ place[l] < place[k])
    BY <1>4 DEF IsMade
  <2>5. block[k] \in Int /\ place[k] \in Int /\ place[l] \in Int
    BY <2>2
  <2>6. place[k] # place[l]
    BY <2>1, <2>3, <2>4, <2>5
  <2>7. Apart(ss[block[k]])
    BY <2>2 DEF IsEntry
  <2> QED BY <2>1, <2>2, <2>6, <2>7 DEF Apart
<1> QED BY <1>3, <1>6 DEF flat, S

(* What a field comes to that is given a key.                              *)
KeyOps(key) == {o \in OpSet : o.op # "fail" /\ o.slot[1] = key /\ key # "message"}
IsBlock(a, key, ops) ==
    ops \in Seq(Failures(a) \cup KeyOps(key)) /\ Tidy(ops) /\ Accounted(ops)

(* Failures in between do not matter.                                      *)
LEMMA TidyShifted ==
    ASSUME NEW x, Len(x) \in Nat, Tidy(x), Accounted(x), NEW ops, Len(ops) \in Nat,
           NEW d \in Nat,
           \A k \in 1 .. Len(ops) : ops[k].op # "fail" =>
               k - d \in 1 .. Len(x) /\ ops[k] = x[k - d],
           \A k \in 1 .. Len(x) : k + d \in 1 .. Len(ops) /\ ops[k + d] = x[k]
    PROVE  Tidy(ops) /\ Accounted(ops)
<1>1. ASSUME NEW k \in 1 .. Len(ops), NEW l \in 1 .. Len(ops), k < l,
             ops[k].op \in {"malloc", "calloc"}, ops[l].op # "fail"
      PROVE  /\ ops[l].slot # ops[k].slot
             /\ ops[l].op = "calloc" => ops[l].slot[1] # ops[k].slot[1]
  <2>1. /\ k - d \in 1 .. Len(x) /\ ops[k] = x[k - d]
        /\ l - d \in 1 .. Len(x) /\ ops[l] = x[l - d]
    BY <1>1
  <2>2. k - d < l - d
    <3>1. k \in Int /\ l \in Int
      OBVIOUS
    <3> QED BY <1>1, <3>1
  <2>3. \A i \in 1 .. Len(x) : \A j \in 1 .. Len(x) :
            i < j /\ x[i].op \in {"malloc", "calloc"} /\ x[j].op # "fail" =>
                /\ x[j].slot # x[i].slot
                /\ x[j].op = "calloc" => x[j].slot[1] # x[i].slot[1]
    BY DEF Tidy
  <2>4. x[k - d].op \in {"malloc", "calloc"} /\ x[l - d].op # "fail"
    BY <1>1, <2>1
  <2>5. ops[l].op = x[l - d].op /\ ops[l].slot = x[l - d].slot /\ ops[k].slot = x[k - d].slot
    BY <2>1
  <2>6. /\ x[l - d].slot # x[k - d].slot
        /\ x[l - d].op = "calloc" => x[l - d].slot[1] # x[k - d].slot[1]
    BY <2>1, <2>2, <2>3, <2>4, Zenon
  <2> QED BY <2>5, <2>6, Zenon
<1>2. ASSUME NEW l \in 1 .. Len(ops), NEW j \in 1 .. Len(x), l = j + d, Announced(x, j)
      PROVE  Announced(ops, l)
  <2>1. PICK k \in 1 .. Len(x) :
            /\ k < j /\ x[k].op = "calloc" /\ x[k].slot[1] = x[j].slot[1]
            /\ x[j].slot[2] <= x[k].n
    BY <1>2 DEF Announced
  <2>2. k + d \in 1 .. Len(ops) /\ ops[k + d] = x[k] /\ ops[l] = x[j] /\ k + d < l
    BY <1>2, <2>1
  <2> QED BY <2>1, <2>2 DEF Announced
<1>3. ASSUME NEW l \in 1 .. Len(ops), ops[l].op # "fail"
      PROVE  /\ ops[l].op = "calloc" => ops[l].slot[1] \in FreedLists
             /\ ops[l].op = "malloc" => IsKept(ops, l)
  <2>1. l - d \in 1 .. Len(x) /\ ops[l] = x[l - d] /\ l = (l - d) + d
    BY <1>3
  <2>2. Announced(x, l - d) => Announced(ops, l)
    BY <1>2, <2>1
  <2>3. /\ x[l - d].op = "calloc" => x[l - d].slot[1] \in FreedLists
        /\ x[l - d].op = "malloc" => IsKept(x, l - d)
    BY <2>1 DEF Accounted
  <2> QED BY <2>1, <2>2, <2>3 DEF IsKept
<1>4. Tidy(ops)
  BY <1>1 DEF Tidy
<1>5. Accounted(ops)
  BY <1>3 DEF Accounted
<1> QED BY <1>4, <1>5

(* So checks may come before and after.                                    *)
LEMMA BlockFacts ==
    ASSUME NEW a \in BOOLEAN, NEW key, NEW x, IsBlock(a, key, x), NEW c \in Checks(a)
    PROVE  IsBlock(a, key, x \o c) /\ IsBlock(a, key, c \o x)
<1> DEFINE F == Failures(a) \cup KeyOps(key)
<1>1. x \in Seq(F) /\ c \in Seq(F) /\ \A k \in 1 .. Len(c) : c[k].op = "fail"
  BY FailureFacts DEF IsBlock, Checks
<1>2. Len(x) \in Nat /\ Len(c) \in Nat
  BY <1>1
<1>3. /\ x \o c \in Seq(F) /\ Len(x \o c) = Len(x) + Len(c)
      /\ \A k \in 1 .. Len(x) + Len(c) :
            (x \o c)[k] = IF k <= Len(x) THEN x[k] ELSE c[k - Len(x)]
  BY <1>1, ConcatProperties
<1>4. /\ c \o x \in Seq(F) /\ Len(c \o x) = Len(c) + Len(x)
      /\ \A k \in 1 .. Len(c) + Len(x) :
            (c \o x)[k] = IF k <= Len(c) THEN c[k] ELSE x[k - Len(c)]
  BY <1>1, ConcatProperties
<1> HIDE DEF F
<1>5. Tidy(x) /\ Accounted(x)
  BY DEF IsBlock
<1>6. ASSUME NEW k \in 1 .. Len(x \o c), (x \o c)[k].op # "fail"
      PROVE  k - 0 \in 1 .. Len(x) /\ (x \o c)[k] = x[k - 0]
  <2>1. ASSUME k > Len(x) PROVE FALSE
    <3>1. k - Len(x) \in 1 .. Len(c)
      BY <1>2, <1>3, <2>1
    <3> QED BY <1>1, <1>2, <1>3, <1>6, <2>1, <3>1
  <2> QED BY <1>2, <1>3, <2>1
<1>7. \A k \in 1 .. Len(x) : k + 0 \in 1 .. Len(x \o c) /\ (x \o c)[k + 0] = x[k]
  BY <1>2, <1>3
<1>8. Tidy(x \o c) /\ Accounted(x \o c)
  <2>1. Len(x \o c) \in Nat /\ 0 \in Nat
    BY <1>2, <1>3
  <2> QED BY <1>2, <1>5, <1>6, <1>7, <2>1, TidyShifted
<1>9. ASSUME NEW k \in 1 .. Len(c \o x), (c \o x)[k].op # "fail"
      PROVE  k - Len(c) \in 1 .. Len(x) /\ (c \o x)[k] = x[k - Len(c)]
  <2>1. ASSUME k <= Len(c) PROVE FALSE
    <3>1. k \in 1 .. Len(c)
      BY <1>2, <1>4, <2>1
    <3> QED BY <1>1, <1>2, <1>4, <1>9, <2>1, <3>1
  <2> QED BY <1>2, <1>4, <2>1
<1>10. ASSUME NEW k \in 1 .. Len(x)
       PROVE  k + Len(c) \in 1 .. Len(c \o x) /\ (c \o x)[k + Len(c)] = x[k]
  <2>1. k + Len(c) \in 1 .. Len(c) + Len(x) /\ ~(k + Len(c) <= Len(c))
        /\ (k + Len(c)) - Len(c) = k
    BY <1>2
  <2> QED BY <1>4, <2>1
<1>11. Tidy(c \o x) /\ Accounted(c \o x)
  <2>1. Len(c \o x) \in Nat
    BY <1>2, <1>4
  <2> QED BY <1>2, <1>5, <1>9, <1>10, <2>1, TidyShifted
<1> QED BY <1>3, <1>4, <1>8, <1>11 DEF IsBlock, F

(* Sequences over a larger set.                                            *)
LEMMA SeqMonotone ==
    ASSUME NEW A, NEW B, A \subseteq B
    PROVE  Seq(A) \subseteq Seq(B)
OBVIOUS

(* Of one operation none follows.                                          *)
LEMMA OnceIsTidy ==
    ASSUME NEW a \in BOOLEAN, NEW T, NEW x \in Once(a, T)
    PROVE  Tidy(x)
<1>1. \A i \in 1 .. Len(x) : \A j \in 1 .. Len(x) :
          x[i].op # "fail" /\ x[j].op # "fail" => i = j
  BY DEF Once
<1>2. \A i \in 1 .. Len(x) : \A j \in 1 .. Len(x) : i < j => i # j
  OBVIOUS
<1> QED BY <1>1, <1>2 DEF Tidy

(* One operation is tidy.                                                  *)
LEMMA OnceIsBlock ==
    ASSUME NEW a \in BOOLEAN, NEW key, NEW T \in SUBSET KeyOps(key), NEW x \in Once(a, T),
           \A o \in T : o.op = "clear" \/
               (/\ o.op = "malloc"
                /\ \/ o.slot[3] = "" /\ key \in FreedTexts
                   \/ o.slot[3] = "algorithm" /\ key = LookupTable)
    PROVE  IsBlock(a, key, x)
<1>1. x \in Seq(Failures(a) \cup T)
  BY DEF Once
<1>2. x \in Seq(Failures(a) \cup KeyOps(key))
  <2>1. Failures(a) \cup T \subseteq Failures(a) \cup KeyOps(key)
    OBVIOUS
  <2>2. Seq(Failures(a) \cup T) \subseteq Seq(Failures(a) \cup KeyOps(key))
    BY <2>1, SeqMonotone
  <2> QED BY <1>1, <2>2
<1>3. Tidy(x)
  BY OnceIsTidy
<1>4. Accounted(x)
  <2> SUFFICES ASSUME NEW l \in 1 .. Len(x), x[l].op \in {"malloc", "calloc"}
               PROVE  x[l].op = "malloc" /\ IsKept(x, l)
    BY DEF Accounted
  <2>1. x[l] \in Failures(a) \cup T
    BY <1>1, ElementOfSeq
  <2>2. x[l] \in T
    BY <2>1, FailureFacts
  <2>3. x[l].slot[1] = key
    BY <2>2 DEF KeyOps
  <2> QED BY <2>2, <2>3 DEF IsKept
<1> QED BY <1>2, <1>3, <1>4 DEF IsBlock

(* So is none.                                                             *)
LEMMA ChecksAreBlock ==
    ASSUME NEW a \in BOOLEAN, NEW key, NEW c \in Checks(a)
    PROVE  IsBlock(a, key, c)
<1>1. c \in Once(a, {})
  BY ChecksOnce
<1>2. {} \in SUBSET KeyOps(key)
  OBVIOUS
<1>3. \A o \in {} : o.op = "clear" \/
          (/\ o.op = "malloc"
           /\ \/ o.slot[3] = "" /\ key \in FreedTexts
              \/ o.slot[3] = "algorithm" /\ key = LookupTable)
  OBVIOUS
<1> QED BY <1>1, <1>2, <1>3, OnceIsBlock

(* The same for what is done if nothing failed before.                     *)
LEMMA BlockThen ==
    ASSUME NEW a \in BOOLEAN, NEW key, NEW x, IsBlock(a, key, x), NEW c \in Checks(a)
    PROVE  IsBlock(a, key, Then(x, c)) /\ IsBlock(a, key, Then(c, x))
<1>1. IsBlock(a, key, x \o c) /\ IsBlock(a, key, c \o x)
  BY BlockFacts
<1>2. IsBlock(a, key, c)
  BY ChecksAreBlock
<1> QED BY <1>1, <1>2 DEF Then

(* A list and its entries.                                                 *)
LEMMA ListIsBlock ==
    ASSUME NEW a \in BOOLEAN, NEW arrays \in BOOLEAN, NEW n \in Nat,
           NEW key \in FreedLists, key \in STRING, arrays => key \in ListsOfArrays,
           NEW e \in Seq(Failures(a) \cup EntriesOps(key, n, arrays)), Apart(e)
    PROVE  IsBlock(a, key, Calloc(key, n) \o e)
<1> DEFINE c == Op("calloc", OK, <<key, 0, "">>, n)
           x == <<c>> \o e
           F == Failures(a) \cup KeyOps(key)
<1>1. /\ c.op = "calloc" /\ c.slot = <<key, 0, "">> /\ c.n = n
      /\ c.slot[1] = key /\ c.slot[2] = 0
  BY DEF Op
<1>2. key \in Names /\ key # "message"
  BY DEF Names, FreedLists
<1>3. c \in KeyOps(key)
  <2>1. <<key, 0, "">> \in Slots
    BY <1>2 DEF Slots
  <2>2. c \in [op : {"fail", "malloc", "clear", "calloc"}, code : 0 .. 6, slot : Slots, n : Nat]
    <3>1. c = [op |-> "calloc", code |-> 0, slot |-> <<key, 0, "">>, n |-> n]
      BY DEF Op, OK
    <3>2. \A y \in Slots : [op |-> "calloc", code |-> 0, slot |-> y, n |-> n] \in
              [op : {"fail", "malloc", "clear", "calloc"}, code : 0 .. 6, slot : Slots, n : Nat]
      OBVIOUS
    <3> HIDE DEF c
    <3> QED BY <2>1, <3>1, <3>2
  <2> HIDE DEF c
  <2>3. c \in OpSet
    BY <1>1, <2>2 DEF OpSet
  <2> QED BY <1>1, <1>2, <2>3 DEF KeyOps
<1>4. ASSUME NEW o \in EntriesOps(key, n, arrays)
      PROVE  /\ o.op \in {"malloc", "clear"}
             /\ o.slot[1] = key /\ o.slot[2] \in 1 .. n
             /\ o.op = "malloc" => \/ o.slot[3] = "channel"
                                   \/ o.slot[3] = "algorithm" /\ key \in ListsOfArrays
             /\ o \in KeyOps(key)
  <2>1. PICK i \in 1 .. n : o \in EntryOps(key, i, arrays)
    BY DEF EntriesOps
  <2>2. /\ o.op \in {"malloc", "clear"} /\ o.n = 0 /\ o.code = OK
        /\ o.slot[1] = key /\ o.slot[2] = i
        /\ \/ o.op = "malloc" /\ o.slot = <<key, i, "channel">>
           \/ arrays /\ o.slot = <<key, i, "algorithm">>
    BY <2>1, EntryOpFacts
  <2>3. /\ <<key, i, "channel">>[3] = "channel" /\ <<key, i, "algorithm">>[3] = "algorithm"
        /\ <<key, i, "channel">> \in Slots /\ <<key, i, "algorithm">> \in Slots
    <3>1. i \in Nat
      OBVIOUS
    <3> QED BY <1>2, <3>1 DEF Slots
  <2>4. o = [op |-> o.op, code |-> o.code, slot |-> o.slot, n |-> o.n]
    BY <2>1 DEF EntryOps, Either, Made, Cleared, Op
  <2>5. o \in [op : {"fail", "malloc", "clear", "calloc"}, code : 0 .. 6, slot : Slots, n : Nat]
    BY <2>2, <2>3, <2>4 DEF OK
  <2>6. o.op = "clear" => o.slot[3] = "algorithm"
    BY <2>2, <2>3
  <2>7. o \in OpSet
    BY <2>2, <2>5, <2>6 DEF OpSet
  <2> QED BY <1>2, <2>2, <2>3, <2>7 DEF KeyOps
<1>5. e \in Seq(F)
  <2>1. Failures(a) \cup EntriesOps(key, n, arrays) \subseteq F
    BY <1>4
  <2> HIDE DEF F
  <2> QED BY <2>1, SeqMonotone
<1>6. <<c>> \in Seq(F) /\ Len(<<c>>) = 1 /\ <<c>>[1] = c
  <2>1. c \in F
    BY <1>3
  <2> HIDE DEF c, F
  <2> QED BY <2>1
<1> HIDE DEF c, F
<1>7. /\ x \in Seq(F) /\ Len(x) = 1 + Len(e) /\ Len(e) \in Nat
      /\ \A k \in 1 .. 1 + Len(e) : x[k] = IF k <= 1 THEN <<c>>[k] ELSE e[k - 1]
  BY <1>5, <1>6, ConcatProperties
<1> HIDE DEF x
<1>8. /\ x[1] = c /\ 1 \in 1 .. Len(x)
      /\ x[1].op = "calloc" /\ x[1].n = n
      /\ x[1].slot[1] = key /\ x[1].slot[2] = 0
  <2>1. x[1] = c /\ 1 \in 1 .. Len(x)
    BY <1>6, <1>7
  <2> QED BY <1>1, <2>1
<1>9. ASSUME NEW k \in 1 .. Len(x), k # 1
      PROVE  /\ k - 1 \in 1 .. Len(e) /\ x[k] = e[k - 1] /\ k > 1
             /\ x[k].op # "fail" => x[k] \in EntriesOps(key, n, arrays)
  <2>1. k - 1 \in 1 .. Len(e) /\ x[k] = e[k - 1] /\ k > 1
    BY <1>7, <1>9
  <2>2. e[k - 1] \in Failures(a) \cup EntriesOps(key, n, arrays)
    BY <2>1, ElementOfSeq
  <2> QED BY <2>1, <2>2, FailureFacts
<1>10. Tidy(x)
  <2> SUFFICES ASSUME NEW k \in 1 .. Len(x), NEW l \in 1 .. Len(x), k < l,
                      x[k].op \in {"malloc", "calloc"}, x[l].op # "fail"
               PROVE  /\ x[l].slot # x[k].slot
                      /\ x[l].op = "calloc" => x[l].slot[1] # x[k].slot[1]
    BY DEF Tidy
  <2>1. l # 1 /\ k - 1 # l - 1
    BY <1>7
  <2>2. /\ x[l].op # "calloc" /\ x[l].slot[2] \in 1 .. n
        /\ l - 1 \in 1 .. Len(e) /\ x[l] = e[l - 1]
    BY <1>4, <1>9, <2>1
  <2>3. CASE k = 1
    <3>1. x[l].slot[2] # 0
      BY <2>2
    <3> QED BY <1>8, <2>2, <2>3, <3>1
  <2>4. CASE k # 1
    <3>1. k - 1 \in 1 .. Len(e) /\ x[k] = e[k - 1] /\ x[k].op # "fail"
      BY <1>9, <2>4
    <3> QED BY <2>1, <2>2, <3>1 DEF Apart
  <2> QED BY <2>3, <2>4
<1>11. ASSUME NEW l \in 1 .. Len(x)
       PROVE  /\ x[l].op = "calloc" => x[l].slot[1] \in FreedLists
              /\ x[l].op = "malloc" => IsKept(x, l)
  <2>1. CASE l = 1
    BY <1>1, <1>8, <2>1
  <2>2. CASE l # 1 /\ x[l].op \in {"calloc", "malloc"}
    <3>1. /\ x[l].op # "calloc" /\ x[l].slot[1] = key /\ x[l].slot[2] \in 1 .. n /\ l > 1
          /\ \/ x[l].slot[3] = "channel"
             \/ x[l].slot[3] = "algorithm" /\ key \in ListsOfArrays
      BY <1>4, <1>9, <2>2
    <3>2. Announced(x, l)
      <4>1. x[l].slot[2] <= n
        BY <3>1
      <4>2. /\ 1 \in 1 .. Len(x) /\ 1 < l /\ x[1].op = "calloc"
            /\ x[1].slot[1] = x[l].slot[1] /\ x[l].slot[2] <= x[1].n
        BY <1>8, <3>1, <4>1
      <4> QED BY <4>2 DEF Announced
    <3> QED BY <3>1, <3>2 DEF IsKept
  <2> QED BY <2>1, <2>2
<1>12. Accounted(x)
  BY <1>11 DEF Accounted
<1> QED BY <1>7, <1>10, <1>12 DEF IsBlock, x, c, F, Calloc

(* A key and its value are where there are as many values as keys.         *)
LEMMA Half ==
    ASSUME NEW n \in Nat
    PROVE  /\ n \div 2 \in Nat
           /\ \A j \in 1 .. n \div 2 : 2 * j \in 1 .. n /\ 2 * j \in 2 .. n /\ 2 * j - 1 \in 1 .. n
           /\ \A j \in Nat : 2 * j \in 1 .. n => j \in 1 .. n \div 2
OBVIOUS

(* A list of texts.                                                        *)
LEMMA TextsIsBlock ==
    ASSUME NEW a \in BOOLEAN, NEW key \in FreedLists, key \in STRING,
           NEW item, Len(item.elems) \in Nat, DOMAIN item.elems = 1 .. Len(item.elems)
    PROVE  IsBlock(a, key, Texts(key, item))
<1> DEFINE n == Len(item.elems)
           ss == [i \in 1 .. n |-> Text(item.elems, i, <<key, i, "channel">>)]
           e == FlattenSeq(ss)
<1>1. ASSUME NEW i \in 1 .. n PROVE IsEntry(a, key, i, FALSE, ss[i])
  <2>1. Text(item.elems, i, <<key, i, "channel">>) \in Once(a, {Made(<<key, i, "channel">>)})
    BY TextOnce
  <2>2. IsEntry(a, key, i, FALSE, Text(item.elems, i, <<key, i, "channel">>))
    BY <2>1, OneIsEntry
  <2> QED BY <2>2
<1>2. ss = [i \in 1 .. n |-> ss[i]]
  OBVIOUS
<1> HIDE DEF ss
<1>3. e \in Seq(Failures(a) \cup EntriesOps(key, n, FALSE)) /\ Apart(e)
  <2>1. AreEntries(a, key, n, FALSE, ss)
    BY <1>1, <1>2 DEF AreEntries
  <2> QED BY <2>1, EntriesFlat
<1> HIDE DEF e
<1>4. IsBlock(a, key, Calloc(key, n) \o e)
  BY <1>3, ListIsBlock
<1>5. Counted(item, "array") \in Checks(a)
  BY CheckFacts
<1>6. IsBlock(a, key, Then(Counted(item, "array"), Calloc(key, n) \o e))
  BY <1>4, <1>5, BlockThen
<1> QED BY <1>6 DEF Texts, e, ss

(* A list of texts and energies, or of texts and arrays.                   *)
LEMMA TextMapIsBlock ==
    ASSUME NEW a \in BOOLEAN, NEW key \in FreedLists, key \in STRING, NEW kind,
           kind # "energies" => key \in ListsOfArrays,
           NEW item, Len(item.elems) \in Nat
    PROVE  IsBlock(a, key, TextMap(key, item, kind))
<1> DEFINE n == Len(item.elems) \div 2
           arrays == (kind # "energies")
           ss == [i \in 1 .. n |->
                    Text(item.elems, 2 * i - 1, <<key, i, "channel">>)
                        \o Entry(kind, item.elems[2 * i], <<key, i, "algorithm">>)]
           e == FlattenSeq(ss)
<1>1. n \in Nat /\ arrays \in BOOLEAN
  <2>1. n \in Nat
    BY Half
  <2>2. arrays \in BOOLEAN
    BY Zenon
  <2> QED BY <2>1, <2>2
<1> HIDE DEF n, arrays
<1>2. ASSUME NEW i \in 1 .. n PROVE IsEntry(a, key, i, arrays, ss[i])
  <2> DEFINE x == Text(item.elems, 2 * i - 1, <<key, i, "channel">>)
             y == Entry(kind, item.elems[2 * i], <<key, i, "algorithm">>)
  <2>1. x \in Once(a, {Made(<<key, i, "channel">>)})
    BY TextOnce
  <2>2. ~arrays => y \in Checks(a)
    BY CheckFacts DEF Entry, arrays
  <2>3. arrays => y \in Once(a, Either(<<key, i, "algorithm">>))
    BY ArraysOnce DEF Entry, arrays
  <2> HIDE DEF x, y
  <2>4. IsEntry(a, key, i, arrays, x \o y)
    BY <1>1, <2>1, <2>2, <2>3, TwoAreEntry
  <2> QED BY <2>4 DEF x, y
<1>3. ss = [i \in 1 .. n |-> ss[i]]
  OBVIOUS
<1> HIDE DEF ss
<1>4. e \in Seq(Failures(a) \cup EntriesOps(key, n, arrays)) /\ Apart(e)
  <2>1. AreEntries(a, key, n, arrays, ss)
    BY <1>2, <1>3 DEF AreEntries
  <2> QED BY <1>1, <2>1, EntriesFlat
<1> HIDE DEF e
<1>5. IsBlock(a, key, Calloc(key, n) \o e)
  <2>1. arrays => key \in ListsOfArrays
    BY DEF arrays
  <2> QED BY <1>1, <1>4, <2>1, ListIsBlock
<1>6. Counted(item, "map") \in Checks(a)
  BY CheckFacts
<1>7. IsBlock(a, key, Then(Counted(item, "map"), Calloc(key, n) \o e))
  BY <1>5, <1>6, BlockThen
<1> QED BY <1>7 DEF TextMap, e, ss, n

(* The kinds of fields, and the keys of those that take memory.            *)
FieldKinds == {"uint", "double", "bool", "text", "pair", "triple", "texts", "energies",
               "arrays", "table", "goniometer", "any"}
IsKindOf(kind, key) ==
    /\ kind \in FieldKinds
    /\ kind = "text" => key \in FreedTexts
    /\ kind = "texts" => key = "channels"
    /\ kind = "energies" => key = "threshold_energy"
    /\ kind = "arrays" => key \in ListsOfArrays
    /\ kind = "table" => key = LookupTable

(* The kinds of the fields of the start message.                           *)
LEMMA StartKinds ==
    ASSUME NEW key
    PROVE  IsKindOf(Kind(Fields["start"], key), key)
BY DEF Kind, Fields, IsKindOf, FieldKinds, FreedTexts, FreedLists, ListsOfArrays, LookupTable

(* The kinds of the fields of the other messages.                          *)
LEMMA OtherKinds ==
    ASSUME NEW type \in {"image", "end"}, NEW key
    PROVE  IsKindOf(Kind(Fields[type], key), key)
BY DEF Kind, Fields, IsKindOf, FieldKinds, FreedTexts, FreedLists, ListsOfArrays, LookupTable

(* An item of P stands for one that is missing.                            *)
Ends(P) == \E part \in P : part.t \in {"end", "past"}

(* To skip an item is a check.                                             *)
LEMMA SkipFacts ==
    ASSUME NEW a \in BOOLEAN, NEW P, Ends(P) => a, NEW item \in P
    PROVE  Skip(item) \in Checks(a)
<1>1. DECODE \in 2 .. 5 /\ Readable(item) \in BOOLEAN
  BY DEF DECODE, Readable
<1>2. item.t = "past" => a
  BY DEF Ends
<1> QED BY <1>1, <1>2, CheckFacts, FailureFacts DEF Skip

(* So is what comes of a value that is not decoded as one.                 *)
LEMMA KeyValueFacts ==
    ASSUME NEW a \in BOOLEAN, NEW P, Ends(P) => a, NEW key, NEW value \in P, NEW ops
    PROVE  \/ KeyValue(key, value, ops) \in Checks(a)
           \/ KeyValue(key, value, ops) = ops /\ value.t # "break"
<1>1. DECODE \in 2 .. 5
  BY DEF DECODE
<1>2. value.t = "end" => a
  BY DEF Ends
<1>3. Fail(DECODE) \in Checks(a) /\ (a => Fail(ABORT) \in Checks(a)) /\ <<>> \in Checks(a)
  BY <1>1, FailureFacts
<1> QED BY <1>2, <1>3 DEF KeyValue

(* What the j-th key of a map comes to.                                    *)
Slice(elems, fields, j) ==
    Then(OfType(elems[2 * j - 1], "text"),
         Then(KeyValue(elems[2 * j - 1], elems[2 * j], fields[j]),
              Expect(~EndsAt(elems, 2 * j), DECODE)))

(* What comes before and after the value, or instead of it, are checks.    *)
LEMMA SliceChecks ==
    ASSUME NEW a \in BOOLEAN, NEW P, Ends(P) => a, NEW elems \in Seq(P),
           NEW j \in 1 .. Len(elems) \div 2, NEW fields
    PROVE  LET value == KeyValue(elems[2 * j - 1], elems[2 * j], fields[j])
           IN  /\ OfType(elems[2 * j - 1], "text") \in Checks(a)
               /\ Expect(~EndsAt(elems, 2 * j), DECODE) \in Checks(a)
               /\ value \in Checks(a) \/ (value = fields[j] /\ elems[2 * j].t # "break")
<1> DEFINE value == KeyValue(elems[2 * j - 1], elems[2 * j], fields[j])
<1>1. elems[2 * j] \in P
  <2>1. Len(elems) \in Nat
    OBVIOUS
  <2>2. 2 * j \in 1 .. Len(elems)
    BY <2>1, Half
  <2> QED BY <2>2, ElementOfSeq
<1>2. DECODE \in 2 .. 5 /\ (~EndsAt(elems, 2 * j)) \in BOOLEAN
  BY DEF DECODE
<1>3. value \in Checks(a) \/ (value = fields[j] /\ elems[2 * j].t # "break")
  BY <1>1, KeyValueFacts
<1> HIDE DEF value
<1>4. /\ OfType(elems[2 * j - 1], "text") \in Checks(a)
      /\ Expect(~EndsAt(elems, 2 * j), DECODE) \in Checks(a)
  BY <1>2, CheckFacts
<1> QED BY <1>3, <1>4 DEF value

(* A map whose values are only checked.                                    *)
LEMMA KeyedChecks ==
    ASSUME NEW a \in BOOLEAN, NEW P, Ends(P) => a, NEW elems \in Seq(P), NEW fields,
           \A j \in 1 .. Len(elems) \div 2 : fields[j] \in Checks(a)
    PROVE  Keyed(elems, fields) \in Checks(a)
<1> DEFINE n == Len(elems) \div 2
           ss == [j \in 1 .. n |-> Slice(elems, fields, j)]
<1>1. ASSUME NEW j \in 1 .. n PROVE Slice(elems, fields, j) \in Checks(a)
  <2> DEFINE value == KeyValue(elems[2 * j - 1], elems[2 * j], fields[j])
             after == Expect(~EndsAt(elems, 2 * j), DECODE)
  <2>1. OfType(elems[2 * j - 1], "text") \in Checks(a) /\ after \in Checks(a)
        /\ (value \in Checks(a) \/ value = fields[j])
    BY SliceChecks
  <2> HIDE DEF value, after
  <2>2. value \in Checks(a)
    BY <2>1
  <2>3. Then(value, after) \in Checks(a)
    BY <2>1, <2>2, ThenFacts DEF Checks
  <2>4. Then(OfType(elems[2 * j - 1], "text"), Then(value, after)) \in Checks(a)
    BY <2>1, <2>3, ThenFacts DEF Checks
  <2> QED BY <2>4 DEF Slice, value, after
<1>2. n \in Nat
  OBVIOUS
<1> HIDE DEF n
<1>3. ss \in Seq(Checks(a))
  BY <1>1, <1>2
<1>4. FlattenSeq(ss) \in Checks(a)
  BY <1>3, Flattened DEF Checks
<1> QED BY <1>4 DEF Keyed, Slice, n

(* The goniometer and its axes are such maps.                              *)
LEMMA GoniometerChecks ==
    ASSUME NEW a \in BOOLEAN, NEW P, IsClosed(P), Ends(P) => a, NEW item \in P
    PROVE  Keyed(item.elems, [j \in 1 .. Len(item.elems) \div 2 |->
                                 GoniometerField(item.elems, 2 * j)]) \in Checks(a)
<1>1. DECODE \in 2 .. 5
  BY DEF DECODE
<1>2. ASSUME NEW elems \in Seq(P), NEW i \in 1 .. Len(elems)
      PROVE  Untagged(elems[i]) \in P
  <2>1. elems[i] \in P
    BY ElementOfSeq
  <2> QED BY <2>1, UntaggedIsPart
<1>3. ASSUME NEW elems \in Seq(P), NEW i \in 1 .. Len(elems)
      PROVE  AxisField(elems, i) \in Checks(a)
  <2> DEFINE x == Untagged(elems[i])
  <2>1. Fail(DECODE) \in Checks(a) /\ OfType(x, "double") \in Checks(a)
    BY <1>1, CheckFacts, FailureFacts
  <2>2. Skip(x) \in Checks(a)
    BY <1>2, SkipFacts
  <2> HIDE DEF x
  <2>3. AxisField(elems, i) = Fail(DECODE) \/ AxisField(elems, i) = OfType(x, "double")
            \/ AxisField(elems, i) = Skip(x)
    BY DEF AxisField, x
  <2> QED BY <2>1, <2>2, <2>3
<1>4. ASSUME NEW x \in P
      PROVE  Keyed(x.elems, [j \in 1 .. Len(x.elems) \div 2 |->
                                AxisField(x.elems, 2 * j)]) \in Checks(a)
  <2>1. x.elems \in Seq(P)
    BY DEF IsClosed
  <2> DEFINE fields == [j \in 1 .. Len(x.elems) \div 2 |-> AxisField(x.elems, 2 * j)]
  <2>2. \A j \in 1 .. Len(x.elems) \div 2 : fields[j] \in Checks(a)
    <3>1. Len(x.elems) \in Nat
      BY <2>1
    <3>2. \A j \in 1 .. Len(x.elems) \div 2 : 2 * j \in 1 .. Len(x.elems)
      BY <3>1, Half
    <3> QED BY <1>3, <2>1, <3>2
  <2> HIDE DEF fields
  <2>3. Keyed(x.elems, fields) \in Checks(a)
    BY <2>1, <2>2, KeyedChecks
  <2> QED BY <2>3 DEF fields
<1>5. ASSUME NEW elems \in Seq(P), NEW i \in 1 .. Len(elems)
      PROVE  GoniometerField(elems, i) \in Checks(a)
  <2> DEFINE x == Untagged(elems[i])
             keyed == Keyed(x.elems, [j \in 1 .. Len(x.elems) \div 2 |->
                                         AxisField(x.elems, 2 * j)])
  <2>1. x \in P
    BY <1>2
  <2>2. keyed \in Checks(a)
    BY <1>4, <2>1
  <2>3. Fail(DECODE) \in Checks(a) /\ OfType(x, "map") \in Checks(a)
    BY <1>1, CheckFacts, FailureFacts
  <2>4. Skip(x) \in Checks(a)
    BY <2>1, SkipFacts
  <2>5. \/ GoniometerField(elems, i) = Fail(DECODE)
        \/ GoniometerField(elems, i) = Then(OfType(x, "map"), keyed)
        \/ GoniometerField(elems, i) = Skip(x)
    BY DEF GoniometerField
  <2> HIDE DEF x, keyed
  <2>6. Then(OfType(x, "map"), keyed) \in Checks(a)
    BY <2>2, <2>3, ThenFacts DEF Checks
  <2> QED BY <2>3, <2>4, <2>5, <2>6
<1> DEFINE fields == [j \in 1 .. Len(item.elems) \div 2 |-> GoniometerField(item.elems, 2 * j)]
<1>6. item.elems \in Seq(P) /\ Len(item.elems) \in Nat
  <2>1. item.elems \in Seq(P)
    BY DEF IsClosed
  <2> QED BY <2>1
<1>7. \A j \in 1 .. Len(item.elems) \div 2 : fields[j] \in Checks(a)
  <2>1. \A j \in 1 .. Len(item.elems) \div 2 : 2 * j \in 1 .. Len(item.elems)
    BY <1>6, Half
  <2> QED BY <1>5, <1>6, <2>1
<1> HIDE DEF fields
<1>8. Keyed(item.elems, fields) \in Checks(a)
  BY <1>6, <1>7, KeyedChecks
<1> QED BY <1>8 DEF fields

(* What an operation is a record of.                                       *)
LEMMA OpRecord ==
    ASSUME NEW x \in Slots, NEW w \in {"malloc", "clear"}
    PROVE  [op |-> w, code |-> 0, slot |-> x, n |-> 0] \in
               [op : {"fail", "malloc", "clear", "calloc"}, code : 0 .. 6, slot : Slots, n : Nat]
<1>1. w \in {"fail", "malloc", "clear", "calloc"}
  OBVIOUS
<1> QED BY <1>1

(* A copy of a text, and the algorithm of a table.                         *)
LEMMA OwnIsBlock ==
    ASSUME NEW a \in BOOLEAN, NEW key \in STRING, NEW x,
           \/ key \in FreedTexts /\ x \in Once(a, {Made(<<key, 0, "">>)})
           \/ key = LookupTable /\ x \in Once(a, Either(<<key, 0, "algorithm">>))
    PROVE  IsBlock(a, key, x)
<1>1. key \in Names /\ key # "message"
  BY DEF Names, FreedTexts, LookupTable
<1>2. ASSUME NEW w \in {"", "algorithm"}
      PROVE  /\ <<key, 0, w>>[1] = key /\ <<key, 0, w>>[3] = w /\ <<key, 0, w>> \in Slots
  BY <1>1 DEF Slots
<1>3. ASSUME NEW slot \in Slots, slot[1] = key
      PROVE  /\ Made(slot) \in KeyOps(key) /\ Made(slot).op = "malloc" /\ Made(slot).slot = slot
             /\ slot[3] = "algorithm" => Cleared(slot) \in KeyOps(key) /\ Cleared(slot).op = "clear"
  <2>1. \A w \in {"malloc", "clear"} :
            [op |-> w, code |-> 0, slot |-> slot, n |-> 0] \in
                [op : {"fail", "malloc", "clear", "calloc"}, code : 0 .. 6, slot : Slots, n : Nat]
    BY <1>3, OpRecord
  <2> DEFINE m == Made(slot)
             c == Cleared(slot)
  <2>2. /\ m.op = "malloc" /\ m.slot = slot
        /\ m \in [op : {"fail", "malloc", "clear", "calloc"}, code : 0 .. 6, slot : Slots, n : Nat]
    BY <2>1 DEF Made, Op, OK
  <2>3. /\ c.op = "clear" /\ c.slot = slot
        /\ c \in [op : {"fail", "malloc", "clear", "calloc"}, code : 0 .. 6, slot : Slots, n : Nat]
    BY <2>1 DEF Cleared, Op, OK
  <2> HIDE DEF m, c
  <2>4. m \in OpSet
    BY <2>2 DEF OpSet
  <2>5. slot[3] = "algorithm" => c \in OpSet
    BY <2>3 DEF OpSet
  <2>6. m \in KeyOps(key)
    BY <1>1, <1>3, <2>2, <2>4 DEF KeyOps
  <2>7. slot[3] = "algorithm" => c \in KeyOps(key)
    BY <1>1, <1>3, <2>3, <2>5 DEF KeyOps
  <2> QED BY <2>2, <2>3, <2>6, <2>7 DEF m, c
<1>4. CASE key \in FreedTexts /\ x \in Once(a, {Made(<<key, 0, "">>)})
  <2> DEFINE m == Made(<<key, 0, "">>)
  <2>1. m \in KeyOps(key) /\ m.op = "malloc" /\ m.slot[3] = ""
    BY <1>2, <1>3
  <2> HIDE DEF m
  <2>2. {m} \in SUBSET KeyOps(key) /\ \A o \in {m} : o.op = "malloc" /\ o.slot[3] = ""
    BY <2>1
  <2>3. x \in Once(a, {m})
    BY <1>4 DEF m
  <2> QED BY <1>4, <2>2, <2>3, OnceIsBlock
<1>5. CASE key = LookupTable /\ x \in Once(a, Either(<<key, 0, "algorithm">>))
  <2> DEFINE slot == <<key, 0, "algorithm">>
             T == Either(slot)
  <2>1. slot \in Slots /\ slot[1] = key /\ slot[3] = "algorithm"
    BY <1>2
  <2> HIDE DEF slot
  <2>2. T \in SUBSET KeyOps(key)
    BY <1>3, <2>1 DEF Either
  <2>3. \A o \in T : o.op = "clear" \/ (o.op = "malloc" /\ o.slot[3] = "algorithm")
    <3>1. Made(slot).op = "malloc" /\ Made(slot).slot = slot /\ Cleared(slot).op = "clear"
      BY <1>3, <2>1
    <3>2. T = {Made(slot), Cleared(slot)}
      BY DEF Either
    <3> HIDE DEF T
    <3> QED BY <2>1, <3>1, <3>2
  <2>4. x \in Once(a, T)
    BY <1>5 DEF slot
  <2> HIDE DEF T
  <2> QED BY <1>5, <2>2, <2>3, <2>4, OnceIsBlock
<1> QED BY <1>4, <1>5

(* What the value of a key of a message comes to.                          *)
LEMMA FieldIsBlock ==
    ASSUME NEW a \in BOOLEAN, NEW P, IsClosed(P), Ends(P) => a, NEW elems \in Seq(P),
           NEW i \in 2 .. Len(elems), NEW type \in {"start", "image", "end"}
    PROVE  IsBlock(a, elems[i - 1].v, MsgField(type, elems, i))
<1> DEFINE key == elems[i - 1].v
           kind == Kind(Fields[type], key)
           item == Untagged(elems[i])
           block == MsgField(type, elems, i)
           keyed == Keyed(item.elems, [j \in 1 .. Len(item.elems) \div 2 |->
                                          GoniometerField(item.elems, 2 * j)])
<1>1. key \in STRING /\ item \in P
  <2>1. i - 1 \in 1 .. Len(elems) /\ i \in 1 .. Len(elems)
    OBVIOUS
  <2>2. elems[i - 1] \in P /\ elems[i] \in P
    BY <2>1, ElementOfSeq
  <2> QED BY <2>2, UntaggedIsPart DEF IsClosed
<1>2. IsKindOf(kind, key)
  BY StartKinds, OtherKinds
<1>3. /\ kind = "table" => block = TypedArray(elems[i], <<key, 0, "algorithm">>)
      /\ kind # "table" =>
            IF item.t = "end" THEN block = Fail(DECODE)
            ELSE /\ kind \in {"uint", "double", "bool"} => block = OfType(item, kind)
                 /\ kind = "text" => block = Text([elems EXCEPT ![i] = item], i, <<key, 0, "">>)
                 /\ kind = "pair" => block = ListOf(item, 2, "uint")
                 /\ kind = "triple" => block = ListOf(item, 3, "double")
                 /\ kind = "texts" => block = Texts(key, item)
                 /\ kind \in {"energies", "arrays"} => block = TextMap(key, item, kind)
                 /\ kind = "goniometer" => block = Then(OfType(item, "map"), keyed)
                 /\ kind = "any" => block = Skip(item)
  <2> HIDE DEF key, kind, item, keyed
  <2> QED BY DEF MsgField, key, kind, item, keyed
<1>4. keyed \in Checks(a)
  BY <1>1, GoniometerChecks
<1>5. item.elems \in Seq(P)
  BY <1>1 DEF IsClosed
<1>6. kind \in FieldKinds
  BY <1>2 DEF IsKindOf
<1>7. DECODE \in 2 .. 5
  BY DEF DECODE
<1> SUFFICES IsBlock(a, key, block)
  BY DEF key, block
<1> HIDE DEF kind, item, keyed, block, key
<1>8. Len(item.elems) \in Nat /\ DOMAIN item.elems = 1 .. Len(item.elems)
  BY <1>5
<1>9. CASE kind = "table"
  <2>1. TypedArray(elems[i], <<key, 0, "algorithm">>) \in Once(a, Either(<<key, 0, "algorithm">>))
    BY ArraysOnce
  <2> QED BY <1>1, <1>2, <1>3, <1>9, <2>1, OwnIsBlock DEF IsKindOf
<1>10. CASE kind # "table" /\ item.t = "end"
  <2>1. Fail(DECODE) \in Checks(a)
    BY <1>7, FailureFacts
  <2> QED BY <1>3, <1>10, <2>1, ChecksAreBlock
<1> DEFINE rest == kind # "table" /\ item.t # "end"
<1>11. CASE rest /\ kind \in {"uint", "double", "bool"}
  <2>1. OfType(item, kind) \in Checks(a)
    BY CheckFacts
  <2> QED BY <1>3, <1>11, <2>1, ChecksAreBlock
<1>12. CASE rest /\ kind = "text"
  <2>1. Text([elems EXCEPT ![i] = item], i, <<key, 0, "">>) \in Once(a, {Made(<<key, 0, "">>)})
    BY TextOnce
  <2> QED BY <1>1, <1>2, <1>3, <1>12, <2>1, OwnIsBlock DEF IsKindOf
<1>13. CASE rest /\ kind \in {"pair", "triple"}
  <2>1. ListOf(item, 2, "uint") \in Checks(a) /\ ListOf(item, 3, "double") \in Checks(a)
    BY ListOfFacts
  <2> QED BY <1>3, <1>13, <2>1, ChecksAreBlock
<1>14. CASE rest /\ kind = "texts"
  <2>1. key \in FreedLists
    BY <1>2, <1>14 DEF IsKindOf, FreedLists
  <2> QED BY <1>1, <1>3, <1>8, <1>14, <2>1, TextsIsBlock
<1>15. CASE rest /\ kind \in {"energies", "arrays"}
  <2>1. key \in FreedLists /\ (kind # "energies" => key \in ListsOfArrays)
    BY <1>2, <1>15 DEF IsKindOf, FreedLists, ListsOfArrays
  <2> QED BY <1>1, <1>3, <1>8, <1>15, <2>1, TextMapIsBlock
<1>16. CASE rest /\ kind = "goniometer"
  <2>1. OfType(item, "map") \in Checks(a)
    BY CheckFacts
  <2>2. Then(OfType(item, "map"), keyed) \in Checks(a)
    BY <1>4, <2>1, ThenFacts DEF Checks
  <2> QED BY <1>3, <1>16, <2>2, ChecksAreBlock
<1>17. CASE rest /\ kind = "any"
  <2>1. Skip(item) \in Checks(a)
    BY <1>1, SkipFacts
  <2> QED BY <1>3, <1>17, <2>1, ChecksAreBlock
<1> HIDE DEF rest
<1>18. rest \/ kind = "table" \/ item.t = "end"
  BY DEF rest
<1> QED BY <1>6, <1>9, <1>10, <1>11, <1>12, <1>13, <1>14, <1>15, <1>16, <1>17, <1>18 DEF FieldKinds

(* So it is with the key before it.                                        *)
LEMMA SliceIsBlock ==
    ASSUME NEW a \in BOOLEAN, NEW P, IsClosed(P), Ends(P) => a, NEW elems \in Seq(P),
           NEW j \in 1 .. Len(elems) \div 2, NEW type \in {"start", "image", "end"},
           NEW fields, fields[j] = MsgField(type, elems, 2 * j)
    PROVE  /\ IsBlock(a, elems[2 * j - 1].v, Slice(elems, fields, j))
           /\ elems[2 * j].t = "break" => Slice(elems, fields, j) \in Checks(a)
<1> DEFINE key == elems[2 * j - 1].v
           first == OfType(elems[2 * j - 1], "text")
           value == KeyValue(elems[2 * j - 1], elems[2 * j], fields[j])
           after == Expect(~EndsAt(elems, 2 * j), DECODE)
<1>1. /\ first \in Checks(a) /\ after \in Checks(a)
      /\ value \in Checks(a) \/ (value = fields[j] /\ elems[2 * j].t # "break")
  BY SliceChecks
<1>2. IsBlock(a, key, fields[j])
  <2>1. 2 * j \in 2 .. Len(elems)
    <3>1. Len(elems) \in Nat
      OBVIOUS
    <3> QED BY <3>1, Half
  <2> QED BY <2>1, FieldIsBlock
<1>3. Slice(elems, fields, j) = Then(first, Then(value, after))
  BY DEF Slice
<1> HIDE DEF key, first, value, after
<1>4. IsBlock(a, key, value)
  BY <1>1, <1>2, ChecksAreBlock
<1>5. IsBlock(a, key, Then(value, after))
  BY <1>1, <1>4, BlockThen
<1>6. IsBlock(a, key, Then(first, Then(value, after)))
  BY <1>1, <1>5, BlockThen
<1>7. ASSUME elems[2 * j].t = "break" PROVE Then(first, Then(value, after)) \in Checks(a)
  <2>1. Then(value, after) \in Checks(a)
    BY <1>1, <1>7, ThenFacts DEF Checks
  <2> QED BY <1>1, <2>1, ThenFacts DEF Checks
<1> QED BY <1>3, <1>6, <1>7 DEF key

(* The operations of a message, of which an item may be missing or none.   *)
MsgOpSet(a) == {o \in OpSet : o.op = "fail" /\ o.code = ABORT => a}

(* The operations of a block are operations of the message.                *)
LEMMA BlockOps ==
    ASSUME NEW a \in BOOLEAN, NEW key
    PROVE  Failures(a) \cup KeyOps(key) \subseteq MsgOpSet(a)
BY FailureFacts DEF KeyOps, MsgOpSet

(* Sequences of operations that are blocks, each for a key.                *)
AreBlocks(a, n, key, ss) ==
    /\ ss = [j \in 1 .. n |-> ss[j]]
    /\ \A j \in 1 .. n : IsBlock(a, key[j], ss[j])

(* Blocks of different keys do not get in each other's way when joined,    *)
(* nor do checks.                                                          *)
LEMMA BlocksFlat ==
    ASSUME NEW a \in BOOLEAN, NEW n \in Nat, NEW ss, NEW key, AreBlocks(a, n, key, ss),
           NEW N \in SUBSET (1 .. n), \A j \in 1 .. n : j \notin N => ss[j] \in Checks(a)
    PROVE  /\ FlattenSeq(ss) \in Seq(MsgOpSet(a))
           /\ \A k \in 1 .. Len(FlattenSeq(ss)) :
                 FlattenSeq(ss)[k].op # "fail" => FlattenSeq(ss)[k].slot[1] # "message"
           /\ (\A j \in N : \A k \in N : key[j] = key[k] => j = k)
                  => Tidy(FlattenSeq(ss)) /\ Accounted(FlattenSeq(ss))
<1> DEFINE flat == FlattenSeq(ss)
<1> ss = [j \in 1 .. n |-> ss[j]] /\ \A j \in 1 .. n : IsBlock(a, key[j], ss[j])
  BY DEF AreBlocks
<1>1. \A j \in 1 .. n : ss[j] \in Seq(MsgOpSet(a))
  <2> SUFFICES ASSUME NEW j \in 1 .. n PROVE ss[j] \in Seq(MsgOpSet(a))
    OBVIOUS
  <2>1. Seq(Failures(a) \cup KeyOps(key[j])) \subseteq Seq(MsgOpSet(a))
    BY BlockOps, SeqMonotone
  <2> QED BY <2>1 DEF IsBlock
<1>2. ss \in Seq(Seq(MsgOpSet(a))) /\ Len(ss) = n
  <2>1. [j \in 1 .. n |-> ss[j]] \in Seq(Seq(MsgOpSet(a)))
    BY <1>1
  <2>2. Len([j \in 1 .. n |-> ss[j]]) = n
    OBVIOUS
  <2> QED BY <2>1, <2>2
<1>3. flat \in Seq(MsgOpSet(a)) /\ \E block, place : IsMade(flat, ss, n, block, place)
  BY <1>2, Flattened
<1> HIDE DEF flat
<1>4. PICK block, place : IsMade(flat, ss, n, block, place)
  BY <1>3
<1>5. ASSUME NEW k \in 1 .. Len(flat)
      PROVE  /\ block[k] \in 1 .. n /\ place[k] \in 1 .. Len(ss[block[k]])
             /\ flat[k] = ss[block[k]][place[k]] /\ block[k] \in Int /\ place[k] \in Int
             /\ flat[k].op # "fail" => flat[k].slot[1] = key[block[k]] /\ key[block[k]] # "message"
  <2>1. /\ block[k] \in 1 .. n /\ place[k] \in 1 .. Len(ss[block[k]])
        /\ flat[k] = ss[block[k]][place[k]]
    BY <1>4 DEF IsMade
  <2>2. flat[k] \in Failures(a) \cup KeyOps(key[block[k]])
    <3>1. ss[block[k]] \in Seq(Failures(a) \cup KeyOps(key[block[k]]))
      BY <2>1 DEF IsBlock
    <3> QED BY <2>1, <3>1, ElementOfSeq
  <2>3. flat[k].op # "fail" => flat[k] \in KeyOps(key[block[k]])
    BY <2>2, FailureFacts
  <2>4. block[k] \in Int /\ place[k] \in Int
    BY <2>1
  <2> QED BY <2>1, <2>3, <2>4 DEF KeyOps
<1>6. ASSUME NEW k \in 1 .. Len(flat), flat[k].op # "fail" PROVE block[k] \in N
  <2> SUFFICES ASSUME ss[block[k]] \in Checks(a) PROVE FALSE
    BY <1>5
  <2>1. flat[k] \in Failures(a)
    BY <1>5, ElementOfSeq DEF Checks
  <2> QED BY <1>6, <2>1, FailureFacts
<1>7. ASSUME \A j \in N : \A k \in N : key[j] = key[k] => j = k
      PROVE  Tidy(flat)
  <2> SUFFICES ASSUME NEW k \in 1 .. Len(flat), NEW l \in 1 .. Len(flat), k < l,
                      flat[k].op \in {"malloc", "calloc"}, flat[l].op # "fail"
               PROVE  /\ flat[l].slot # flat[k].slot
                      /\ flat[l].op = "calloc" => flat[l].slot[1] # flat[k].slot[1]
    BY DEF Tidy
  <2>1. block[k] < block[l] \/ (block[k] = block[l] /\ place[k] < place[l])
    BY <1>4 DEF IsMade
  <2>2. flat[k].op # "fail"
    OBVIOUS
  <2>3. CASE block[k] # block[l]
    <3>1. key[block[k]] # key[block[l]]
      BY <1>7, <1>6, <2>2, <2>3
    <3>2. flat[k].slot[1] # flat[l].slot[1]
      BY <1>5, <2>2, <3>1
    <3> QED BY <3>2
  <2>4. CASE block[k] = block[l]
    <3>1. place[k] < place[l]
      <4>1. block[k] \in Int
        BY <1>5
      <4>2. ~(block[k] < block[l])
        BY <2>4, <4>1
      <4> QED BY <2>1, <4>2
    <3>2. Tidy(ss[block[k]])
      BY <1>5 DEF IsBlock
    <3>3. /\ place[k] \in 1 .. Len(ss[block[k]]) /\ flat[k] = ss[block[k]][place[k]]
          /\ place[l] \in 1 .. Len(ss[block[k]]) /\ flat[l] = ss[block[k]][place[l]]
      BY <1>5, <2>4
    <3> QED BY <3>1, <3>2, <3>3 DEF Tidy
  <2> QED BY <2>3, <2>4
<1>8. ASSUME NEW l \in 1 .. Len(flat), Announced(ss[block[l]], place[l])
      PROVE  Announced(flat, l)
  <2> DEFINE x == ss[block[l]]
  <2>1. PICK i \in 1 .. Len(x) :
            /\ i < place[l] /\ x[i].op = "calloc" /\ x[i].slot[1] = x[place[l]].slot[1]
            /\ x[place[l]].slot[2] <= x[i].n
    BY <1>8 DEF Announced
  <2>2. PICK k \in 1 .. Len(flat) : block[k] = block[l] /\ place[k] = i
    <3>1. \A b \in 1 .. n : \A q \in 1 .. Len(ss[b]) :
              \E k \in 1 .. Len(flat) : block[k] = b /\ place[k] = q
      BY <1>4 DEF IsMade
    <3>2. block[l] \in 1 .. n
      BY <1>5
    <3> QED BY <3>1, <3>2
  <2>3. flat[k] = x[i] /\ flat[l] = x[place[l]]
    BY <1>5, <2>2
  <2>4. k < l
    <3>1. l < k => block[l] < block[k] \/ (block[l] = block[k] /\ place[l] < place[k])
      BY <1>4 DEF IsMade
    <3>2. block[l] \in Int /\ place[l] \in Int /\ place[k] < place[l] /\ block[k] = block[l]
          /\ place[k] \in Int
      BY <1>5, <2>1, <2>2
    <3>3. k # l
      BY <3>2
    <3>4. ~(l < k)
      BY <3>1, <3>2
    <3> QED BY <3>3, <3>4
  <2> HIDE DEF x
  <2> QED BY <2>1, <2>3, <2>4 DEF Announced
<1>9. Accounted(flat)
  <2> SUFFICES ASSUME NEW l \in 1 .. Len(flat)
               PROVE  /\ flat[l].op = "calloc" => flat[l].slot[1] \in FreedLists
                      /\ flat[l].op = "malloc" => IsKept(flat, l)
    BY DEF Accounted
  <2> DEFINE x == ss[block[l]]
  <2>1. Accounted(x) /\ place[l] \in 1 .. Len(x) /\ flat[l] = x[place[l]]
    BY <1>5 DEF IsBlock
  <2>2. Announced(x, place[l]) => Announced(flat, l)
    BY <1>8
  <2> HIDE DEF x
  <2>3. /\ x[place[l]].op = "calloc" => x[place[l]].slot[1] \in FreedLists
        /\ x[place[l]].op = "malloc" => IsKept(x, place[l])
    BY <2>1 DEF Accounted
  <2> QED BY <2>1, <2>2, <2>3 DEF IsKept
<1>10. \A k \in 1 .. Len(flat) : flat[k].op # "fail" => flat[k].slot[1] # "message"
  BY <1>5
<1> QED BY <1>3, <1>7, <1>9, <1>10 DEF flat

(* The keys of a message, if none is repeated.                             *)
LEMMA KeysDiffer ==
    ASSUME NEW S, NEW m, Elems(m) \in Seq(S), ~IsRepeated(m),
           NEW i \in KeysAt(m), NEW j \in KeysAt(m), Elems(m)[i].v = Elems(m)[j].v
    PROVE  i = j
<1> DEFINE K == KeysAt(m)
           T == {Elems(m)[k].v : k \in K}
           f == [k \in K |-> Elems(m)[k].v]
<1>1. IsFiniteSet(K)
  <2>1. DOMAIN Elems(m) = 1 .. Len(Elems(m)) /\ Len(Elems(m)) \in Nat
    OBVIOUS
  <2>2. IsFiniteSet(1 .. Len(Elems(m)))
    BY <2>1, FS_Interval
  <2>3. K \in SUBSET (1 .. Len(Elems(m)))
    BY <2>1 DEF KeysAt
  <2> QED BY <2>2, <2>3, FS_Subset
<1>2. f \in Surjection(K, T)
  BY DEF Surjection
<1>3. ~(Cardinality(T) < Cardinality(K))
  BY DEF IsRepeated
<1> HIDE DEF K, T, f
<1>4. Cardinality(T) <= Cardinality(K) /\ IsFiniteSet(T)
      /\ (Cardinality(T) = Cardinality(K) <=> f \in Injection(K, T))
  BY <1>1, <1>2, FS_Surjection
<1>5. Cardinality(T) \in Nat /\ Cardinality(K) \in Nat
  BY <1>1, <1>4, FS_CardinalityType
<1>6. f \in Injection(K, T)
  BY <1>3, <1>4, <1>5
<1>7. \A k \in DOMAIN f : \A l \in DOMAIN f : f[k] = f[l] => k = l
  BY <1>6 DEF Injection, IsInjective
<1>8. DOMAIN f = K /\ \A k \in K : f[k] = Elems(m)[k].v
  BY DEF f
<1>9. i \in K /\ j \in K
  BY DEF K
<1> QED BY <1>7, <1>8, <1>9

(* What a message comes to after its type.                                 *)
Body(m) == SubSeq(Elems(m), 3, Len(Elems(m)))
BodyOps(type, m) ==
    Keyed(Body(m), [j \in 1 .. Len(Body(m)) \div 2 |-> MsgField(type, Body(m), 2 * j)])

(* A field of the body is one of the message.                              *)
LEMMA BodyFacts ==
    ASSUME NEW P, NEW m, Elems(m) \in Seq(P)
    PROVE  /\ Body(m) \in Seq(P) /\ Len(Body(m)) \in Nat
           /\ \A j \in 1 .. Len(Body(m)) \div 2 :
                 /\ Body(m)[2 * j - 1] = Elems(m)[2 * j + 1]
                 /\ Body(m)[2 * j].t # "break" => 2 * j + 1 \in KeysAt(m)
<1> DEFINE e == Elems(m)
           b == SubSeq(e, 3, Len(e))
<1>1. Len(e) \in Nat /\ DOMAIN e = 1 .. Len(e)
  OBVIOUS
<1>2. b \in Seq(P) /\ Len(b) \in Nat /\ (Len(b) > 0 => Len(b) = Len(e) - 2)
      /\ \A i \in 1 .. Len(b) : b[i] = e[i + 2]
  <2>1. CASE 3 <= Len(e)
    <3>1. /\ b \in Seq(P) /\ Len(b) = Len(e) - 2
          /\ \A i \in 1 .. Len(e) - 2 : b[i] = e[3 + i - 1]
      BY <2>1, SubSeqProperties
    <3>2. \A i \in 1 .. Len(e) - 2 : 3 + i - 1 = i + 2
      OBVIOUS
    <3> QED BY <1>1, <2>1, <3>1, <3>2
  <2>2. CASE ~(3 <= Len(e))
    <3>1. b = <<>>
      BY <1>1, <2>2, SubSeqProperties
    <3> QED BY <3>1
  <2> QED BY <2>1, <2>2
<1> HIDE DEF b
<1>3. ASSUME NEW j \in 1 .. Len(b) \div 2
      PROVE  b[2 * j - 1] = e[2 * j + 1] /\ (b[2 * j].t # "break" => 2 * j + 1 \in KeysAt(m))
  <2>1. 2 * j \in 2 .. Len(b) /\ 2 * j - 1 \in 1 .. Len(b)
    BY <1>2, Half
  <2>2. /\ (2 * j - 1) + 2 = 2 * j + 1 /\ (2 * j + 1) % 2 = 1
        /\ 2 * j + 2 = (2 * j + 1) + 1 /\ 2 * j \in 1 .. Len(b)
    BY <2>1
  <2>3. 2 * j + 1 \in 1 .. Len(e)
    <3>1. Len(b) > 0 /\ Len(b) \in Nat
      BY <1>2, <2>1
    <3>2. Len(b) = Len(e) - 2
      BY <1>2, <3>1
    <3> QED BY <1>1, <2>1, <3>1, <3>2
  <2>4. b[2 * j - 1] = e[(2 * j - 1) + 2] /\ b[2 * j] = e[2 * j + 2]
    BY <1>2, <2>1, <2>2
  <2> QED BY <1>1, <2>2, <2>3, <2>4 DEF KeysAt
<1> QED BY <1>2, <1>3 DEF Body, b

(* The operations of the body are tidy unless a key is given twice.        *)
LEMMA BodyTidy ==
    ASSUME NEW a \in BOOLEAN, NEW P, IsClosed(P), Ends(P) => a, NEW m, Elems(m) \in Seq(P),
           NEW type \in {"start", "image", "end"}
    PROVE  /\ BodyOps(type, m) \in Seq(MsgOpSet(a))
           /\ \A k \in 1 .. Len(BodyOps(type, m)) :
                 BodyOps(type, m)[k].op # "fail" => BodyOps(type, m)[k].slot[1] # "message"
           /\ ~IsRepeated(m) => Tidy(BodyOps(type, m)) /\ Accounted(BodyOps(type, m))
<1> DEFINE b == Body(m)
           n == Len(b) \div 2
           fields == [j \in 1 .. n |-> MsgField(type, b, 2 * j)]
           ss == [j \in 1 .. n |-> Slice(b, fields, j)]
           key == [j \in 1 .. n |-> b[2 * j - 1].v]
           N == {j \in 1 .. n : b[2 * j].t # "break"}
<1>1. /\ N \in SUBSET (1 .. n) /\ \A j \in N : b[2 * j].t # "break"
      /\ \A j \in 1 .. n : j \notin N => b[2 * j].t = "break"
  OBVIOUS
<1> HIDE DEF N
<1>2. /\ b \in Seq(P) /\ Len(b) \in Nat
      /\ \A j \in 1 .. n : /\ b[2 * j - 1] = Elems(m)[2 * j + 1]
                           /\ b[2 * j].t # "break" => 2 * j + 1 \in KeysAt(m)
  BY BodyFacts
<1>3. n \in Nat
  BY <1>2, Half
<1>4. BodyOps(type, m) = FlattenSeq(ss)
  BY DEF BodyOps, Keyed, Slice
<1>5. ASSUME NEW j \in 1 .. n PROVE fields[j] = MsgField(type, b, 2 * j)
  OBVIOUS
<1> HIDE DEF fields, b
<1>6. ASSUME NEW j \in 1 .. n
      PROVE  IsBlock(a, key[j], ss[j]) /\ (j \notin N => ss[j] \in Checks(a))
  <2>1. /\ IsBlock(a, b[2 * j - 1].v, Slice(b, fields, j))
        /\ b[2 * j].t = "break" => Slice(b, fields, j) \in Checks(a)
    BY <1>2, <1>5, SliceIsBlock
  <2> QED BY <1>1, <2>1
<1>7. ss = [j \in 1 .. n |-> ss[j]]
  OBVIOUS
<1>8. ASSUME NEW j \in N
      PROVE  2 * j + 1 \in KeysAt(m) /\ b[2 * j - 1] = Elems(m)[2 * j + 1]
  <2> HIDE DEF ss, key, n
  <2>1. j \in 1 .. n /\ b[2 * j].t # "break"
    BY <1>1
  <2> QED BY <1>2, <2>1
<1>9. ASSUME ~IsRepeated(m), NEW j \in N, NEW k \in N, key[j] = key[k]
      PROVE  j = k
  <2>1. j \in 1 .. n /\ k \in 1 .. n
    BY <1>1
  <2>2. b[2 * j - 1].v = b[2 * k - 1].v
    BY <1>9, <2>1
  <2>3. /\ 2 * j + 1 \in KeysAt(m) /\ Elems(m)[2 * j + 1] = b[2 * j - 1]
        /\ 2 * k + 1 \in KeysAt(m) /\ Elems(m)[2 * k + 1] = b[2 * k - 1]
    BY <1>8
  <2>4. 2 * j + 1 = 2 * k + 1
    BY <1>9, <2>2, <2>3, KeysDiffer
  <2> QED BY <1>3, <2>1, <2>4
<1> HIDE DEF ss, key, n
<1>10. AreBlocks(a, n, key, ss) /\ \A j \in 1 .. n : j \notin N => ss[j] \in Checks(a)
  BY <1>6, <1>7 DEF AreBlocks
<1>11. N \in SUBSET (1 .. n)
  BY <1>1
<1>12. /\ FlattenSeq(ss) \in Seq(MsgOpSet(a))
       /\ \A k \in 1 .. Len(FlattenSeq(ss)) :
             FlattenSeq(ss)[k].op # "fail" => FlattenSeq(ss)[k].slot[1] # "message"
       /\ (\A j \in N : \A k \in N : key[j] = key[k] => j = k)
              => Tidy(FlattenSeq(ss)) /\ Accounted(FlattenSeq(ss))
  BY <1>3, <1>10, <1>11, BlocksFlat
<1> QED BY <1>4, <1>9, <1>12

(* The message itself is allocated before its fields.                      *)
LEMMA FirstOp ==
    ASSUME NEW a \in BOOLEAN, NEW b \in Seq(MsgOpSet(a)),
           \A k \in 1 .. Len(b) : b[k].op # "fail" => b[k].slot[1] # "message"
    PROVE  /\ <<Made(MessageSlot)>> \o b \in Seq(MsgOpSet(a))
           /\ Tidy(b) /\ Accounted(b) =>
                 /\ Tidy(<<Made(MessageSlot)>> \o b)
                 /\ Accounted(<<Made(MessageSlot)>> \o b)
           /\ ~Fails(<<Made(MessageSlot)>> \o b) => ~Fails(b)
<1> DEFINE c == Made(MessageSlot)
           x == <<c>> \o b
<1>1. /\ MessageSlot \in Slots /\ MessageSlot[1] = "message"
      /\ c.op = "malloc" /\ c.slot = MessageSlot
  <2>1. "message" \in Names
    BY DEF Names
  <2>2. \A key \in Names : <<key, 0, "">> \in Slots /\ <<key, 0, "">>[1] = key
    BY DEF Slots
  <2> QED BY <2>1, <2>2 DEF Made, Op, MessageSlot
<1>2. c \in MsgOpSet(a)
  <2>1. c = [op |-> "malloc", code |-> 0, slot |-> MessageSlot, n |-> 0]
    BY DEF Made, Op, OK
  <2>2. c \in [op : {"fail", "malloc", "clear", "calloc"}, code : 0 .. 6, slot : Slots, n : Nat]
    BY <1>1, <2>1, OpRecord
  <2> HIDE DEF c
  <2> QED BY <1>1, <2>2 DEF MsgOpSet, OpSet
<1> HIDE DEF c
<1>3. <<c>> \in Seq(MsgOpSet(a)) /\ Len(<<c>>) = 1 /\ <<c>>[1] = c
  BY <1>2
<1>4. /\ x \in Seq(MsgOpSet(a)) /\ Len(x) = 1 + Len(b) /\ Len(b) \in Nat
      /\ \A k \in 1 .. 1 + Len(b) : x[k] = IF k <= 1 THEN <<c>>[k] ELSE b[k - 1]
  BY <1>3, ConcatProperties
<1> HIDE DEF x
<1>5. x[1] = c
  BY <1>3, <1>4
<1>6. /\ \A k \in 1 .. Len(x) : k # 1 => k - 1 \in 1 .. Len(b) /\ x[k] = b[k - 1]
      /\ \A k \in 1 .. Len(b) : k + 1 \in 1 .. Len(x) /\ x[k + 1] = b[k]
  BY <1>4
<1>7. ASSUME ~Fails(x) PROVE ~Fails(b)
  <2>1. DOMAIN x = 1 .. Len(x) /\ DOMAIN b = 1 .. Len(b)
    BY <1>4
  <2> QED BY <1>6, <1>7, <2>1 DEF Fails
<1>8. ASSUME Tidy(b), NEW k \in 1 .. Len(x), NEW l \in 1 .. Len(x), k < l,
             x[k].op \in {"malloc", "calloc"}, x[l].op # "fail"
      PROVE  /\ x[l].slot # x[k].slot
             /\ x[l].op = "calloc" => x[l].slot[1] # x[k].slot[1]
  <2>1. k \in Int /\ l \in Int /\ l # 1
    BY <1>8
  <2>2. l - 1 \in 1 .. Len(b) /\ x[l] = b[l - 1] /\ x[l].slot[1] # "message"
    BY <1>6, <1>8, <2>1
  <2>3. CASE k = 1
    BY <1>1, <1>5, <2>2, <2>3
  <2>4. CASE k # 1
    <3>1. k - 1 \in 1 .. Len(b) /\ x[k] = b[k - 1] /\ k - 1 < l - 1
      BY <1>6, <1>8, <2>1, <2>4
    <3> QED BY <1>8, <2>2, <3>1 DEF Tidy
  <2> QED BY <2>3, <2>4
<1>9. ASSUME NEW l \in 1 .. Len(b), Announced(b, l)
      PROVE  Announced(x, l + 1)
  <2>1. PICK k \in 1 .. Len(b) :
            /\ k < l /\ b[k].op = "calloc" /\ b[k].slot[1] = b[l].slot[1]
            /\ b[l].slot[2] <= b[k].n
    BY <1>9 DEF Announced
  <2>2. k + 1 \in 1 .. Len(x) /\ x[k + 1] = b[k] /\ x[l + 1] = b[l] /\ k + 1 < l + 1
    BY <1>6, <2>1
  <2> QED BY <2>1, <2>2 DEF Announced
<1>10. ASSUME Accounted(b), NEW l \in 1 .. Len(x)
       PROVE  /\ x[l].op = "calloc" => x[l].slot[1] \in FreedLists
              /\ x[l].op = "malloc" => IsKept(x, l)
  <2>1. CASE l = 1
    BY <1>1, <1>5, <2>1 DEF IsKept
  <2>2. CASE l # 1
    <3>1. l - 1 \in 1 .. Len(b) /\ x[l] = b[l - 1] /\ (l - 1) + 1 = l
      BY <1>6, <2>2
    <3>2. Announced(b, l - 1) => Announced(x, l)
      BY <1>9, <3>1
    <3>3. /\ b[l - 1].op = "calloc" => b[l - 1].slot[1] \in FreedLists
          /\ b[l - 1].op = "malloc" => IsKept(b, l - 1)
      BY <1>10, <3>1 DEF Accounted
    <3> QED BY <3>1, <3>2, <3>3 DEF IsKept
  <2> QED BY <2>1, <2>2
<1>11. Tidy(b) => Tidy(x)
  BY <1>8 DEF Tidy
<1>12. Accounted(b) => Accounted(x)
  BY <1>10 DEF Accounted
<1> QED BY <1>4, <1>7, <1>11, <1>12 DEF x, c

(* A check that comes first fails, or it does not matter.                  *)
LEMMA TypeFirst ==
    ASSUME NEW item, NEW t, NEW S, NEW x \in Seq(S)
    PROVE  \/ Then(OfType(item, t), x) = Fail(DECODE)
           \/ Then(OfType(item, t), x) = Fail(PARSE)
           \/ Then(OfType(item, t), x) = x /\ item.t = t
<1>1. OfType(item, t) \in {Fail(DECODE), Fail(PARSE)} \/ (OfType(item, t) = <<>> /\ item.t = t)
  BY DEF OfType, Expect
<1>2. \A code : Fails(Fail(code))
  <2>1. ASSUME NEW o, o.op = "fail" PROVE Fails(<<o>>)
    <3>1. 1 \in DOMAIN <<o>> /\ <<o>>[1] = o
      OBVIOUS
    <3> QED BY <2>1, <3>1 DEF Fails
  <2>2. \A code : Op("fail", code, NoSlot, 0).op = "fail"
    BY DEF Op
  <2> QED BY <2>1, <2>2 DEF Fail
<1>3. ~Fails(<<>>)
  BY DEF Fails
<1>4. <<>> \o x = x
  OBVIOUS
<1> QED BY <1>1, <1>2, <1>3, <1>4 DEF Then

(* The parts of a tree are closed, and one of them is the end if it is not *)
(* readable.                                                               *)
LEMMA TreeFacts ==
    ASSUME NEW root, IsTree(root)
    PROVE  /\ IsClosed(Parts(root)) /\ root \in Parts(root) /\ root.elems \in Seq(Parts(root))
           /\ Ends(Parts(root)) => ~Readable(root)
<1>1. root \in Parts(root)
  BY RootIsPart
<1>2. IsClosed(Parts(root))
  BY DEF IsTree, IsClosed
<1>3. root.elems \in Seq(Parts(root))
  BY <1>1, <1>2 DEF IsClosed
<1>4. Ends(Parts(root)) => ~Readable(root)
  BY DEF Ends, Readable
<1> QED BY <1>1, <1>2, <1>3, <1>4

(* What a message comes to: if it is accepted, it is a map of a known type *)
(* whose fields are as they should be.                                     *)
LEMMA MessageOps ==
    ASSUME NEW m, IsTree(m.root)
    PROVE  /\ OpsOf(m) \in Seq(MsgOpSet(~Readable(m.root)))
           /\ ~IsRepeated(m) => Tidy(OpsOf(m)) /\ Accounted(OpsOf(m))
           /\ ~Fails(OpsOf(m)) =>
                 /\ m.root.t = "map"
                 /\ Type(m) \in {"start", "image", "end"}
                 /\ ~Fails(BodyOps(Type(m), m))
<1> DEFINE a == ~Readable(m.root)
           P == Parts(m.root)
           type == MsgType(m.root)
           b == BodyOps(type, m)
           x == <<Made(MessageSlot)>> \o b
<1>1. a \in BOOLEAN /\ IsClosed(P) /\ (Ends(P) => a) /\ Elems(m) \in Seq(P)
  <2>1. a \in BOOLEAN
    BY DEF Readable
  <2> QED BY <2>1, TreeFacts DEF Elems
<1>2. type = "none" \/ type \in {"start", "image", "end"}
  BY DEF MsgType, Fields
<1> DEFINE Good(ops) == /\ ops \in Seq(MsgOpSet(a))
                        /\ ~IsRepeated(m) => Tidy(ops) /\ Accounted(ops)
                        /\ ~Fails(ops) => /\ type # "none" /\ ~Fails(b)
<1>3. ASSUME NEW code \in 2 .. 5 PROVE Good(Fail(code)) /\ Fails(Fail(code))
  <2>1. Fail(code) \in Checks(a)
    BY <1>1, FailureFacts
  <2>2. IsBlock(a, "data", Fail(code))
    BY <1>1, <2>1, ChecksAreBlock
  <2>3. Fails(Fail(code))
    <3>1. Op("fail", code, NoSlot, 0).op = "fail"
      BY DEF Op
    <3>2. \A o : o.op = "fail" => Fails(<<o>>)
      <4> TAKE o
      <4> HAVE o.op = "fail"
      <4>1. 1 \in DOMAIN <<o>> /\ <<o>>[1] = o
        OBVIOUS
      <4> QED BY <4>1 DEF Fails
    <3> QED BY <3>1, <3>2 DEF Fail
  <2>4. Fail(code) \in Seq(MsgOpSet(a))
    <3>1. Seq(Failures(a) \cup KeyOps("data")) \subseteq Seq(MsgOpSet(a))
      BY <1>1, BlockOps, SeqMonotone
    <3> QED BY <2>2, <3>1 DEF IsBlock
  <2> QED BY <2>2, <2>3, <2>4 DEF IsBlock
<1>4. DECODE \in 2 .. 5 /\ PARSE \in 2 .. 5 /\ SIGNATURE \in 2 .. 5
  BY DEF DECODE, PARSE, SIGNATURE
<1>5. ASSUME type # "none" PROVE Good(x)
  <2>1. /\ b \in Seq(MsgOpSet(a))
        /\ \A k \in 1 .. Len(b) : b[k].op # "fail" => b[k].slot[1] # "message"
        /\ ~IsRepeated(m) => Tidy(b) /\ Accounted(b)
    BY <1>1, <1>2, <1>5, BodyTidy
  <2> HIDE DEF b, a
  <2> QED BY <1>1, <1>5, <2>1, FirstOp
<1>6. type # "none" => MsgOps(m.root) = x
  BY DEF MsgOps, BodyOps, Body, Elems, Made, Op
<1>7. type = "none" => MsgOps(m.root) = Fail(DECODE) \/ MsgOps(m.root) = Fail(PARSE)
  BY DEF MsgOps
<1> HIDE DEF Good, x, b, a, P, type
<1>8. Good(MsgOps(m.root))
  BY <1>3, <1>4, <1>5, <1>6, <1>7
<1>9. Good(OpsOf(m)) /\ (~Fails(OpsOf(m)) => m.root.t = "map")
  <2> DEFINE y == Then(OfType(m.root, "map"), MsgOps(m.root))
  <2>1. y = Fail(DECODE) \/ y = Fail(PARSE) \/ (y = MsgOps(m.root) /\ m.root.t = "map")
    BY <1>8, TypeFirst DEF Good
  <2>2. OpsOf(m) = Fail(SIGNATURE) \/ OpsOf(m) = y
    BY DEF OpsOf
  <2> HIDE DEF y
  <2> QED BY <1>3, <1>4, <1>8, <2>1, <2>2
<1> QED BY <1>2, <1>9 DEF Good, Type, type, a, b

(* What becomes of a message, whichever allocation fails.                  *)
LEMMA MessageResult ==
    ASSUME NEW m, IsTree(m.root), NEW fails
    PROVE  LET r == Run(OpsOf(m), fails) IN
           /\ r.code \in 0 .. 6
           /\ ~IsRepeated(m) => Leftover(r) = {}
           /\ r.code = ABORT => ~Readable(m.root)
           /\ FreeCrashes(r) => IsRepeated(m) /\ r.code = OUT_OF_MEMORY
           /\ r.code = OK => ~Fails(OpsOf(m))
<1> DEFINE a == ~Readable(m.root)
           ops == OpsOf(m)
           r == Run(ops, fails)
<1>1. ops \in Seq(MsgOpSet(a)) /\ (~IsRepeated(m) => Tidy(ops) /\ Accounted(ops))
  BY MessageOps
<1>2. ops \in Seq(OpSet)
  <2>1. MsgOpSet(a) \subseteq OpSet
    BY DEF MsgOpSet
  <2>2. Seq(MsgOpSet(a)) \subseteq Seq(OpSet)
    BY <2>1, SeqMonotone
  <2> QED BY <1>1, <2>2
<1> HIDE DEF ops
<1>3. /\ r \in Heap /\ (r.code = OK => ~Fails(ops)) /\ (FreeCrashes(r) => r.code = OUT_OF_MEMORY)
      /\ \/ r.code \in {OK, OUT_OF_MEMORY}
         \/ \E i \in 1 .. Len(ops) : ops[i].op = "fail" /\ ops[i].code = r.code
  BY <1>2, RunResult
<1>4. ~IsRepeated(m) => Leftover(r) = {} /\ ~FreeCrashes(r)
  BY <1>1, <1>2, TidyResult
<1> HIDE DEF r
<1>5. r.code = ABORT => a
  <2>1. ABORT \notin {OK, OUT_OF_MEMORY}
    BY DEF ABORT, OK, OUT_OF_MEMORY
  <2> SUFFICES ASSUME NEW i \in 1 .. Len(ops), ops[i].op = "fail", ops[i].code = ABORT PROVE a
    BY <1>3, <2>1
  <2>2. ops[i] \in MsgOpSet(a)
    BY <1>1, ElementOfSeq
  <2> QED BY <2>2 DEF MsgOpSet
<1>6. r.code \in 0 .. 6
  BY <1>3 DEF Heap
<1> QED BY <1>3, <1>4, <1>5, <1>6 DEF r, ops, a

(* A finite set of numbers has a largest one.                              *)
LEMMA MaxIsIn ==
    ASSUME NEW n \in Nat, NEW S \in SUBSET (1 .. n), S # {}
    PROVE  Max(S) \in S
<1> DEFINE HasMax(T) == \E x \in T : \A y \in T : x >= y
           N == {k \in Nat : \A T \in SUBSET (1 .. k) : T # {} => HasMax(T)}
<1>1. 0 \in N
  <2>1. 1 .. 0 = {}
    OBVIOUS
  <2> HIDE DEF HasMax
  <2> QED BY <2>1
<1>2. ASSUME NEW k \in Nat, k \in N PROVE k + 1 \in N
  <2> SUFFICES ASSUME NEW T \in SUBSET (1 .. k + 1), T # {} PROVE HasMax(T)
    OBVIOUS
  <2>1. CASE k + 1 \in T
    <3>1. \A y \in T : k + 1 >= y
      OBVIOUS
    <3> QED BY <2>1, <3>1
  <2>2. CASE k + 1 \notin T
    <3>1. T \in SUBSET (1 .. k)
      BY <2>2
    <3> QED BY <1>2, <3>1
  <2> QED BY <2>1, <2>2
<1>3. n \in N
  <2> HIDE DEF N
  <2> QED BY <1>1, <1>2, NatSetInduction
<1>4. HasMax(S)
  BY <1>3
<1> QED BY <1>4 DEF Max

(* A message that is decoded without a failure, and the place in it of the *)
(* last key of a field.                                                    *)
IsWhole(m) == IsTree(m.root) /\ ~Fails(OpsOf(m))
At(m, key) == Max(Given(m, key))

(* The value of a field is the item after the last of its keys, and it and *)
(* its elements are parts of the message.                                  *)
LEMMA ValueFacts ==
    ASSUME NEW m, IsWhole(m), NEW key, Has(m, key)
    PROVE  /\ At(m, key) \in KeysAt(m) /\ Elems(m)[At(m, key)].v = key
           /\ At(m, key) + 1 \in 1 .. Len(Elems(m))
           /\ Value(m, key) = Untagged(Elems(m)[At(m, key) + 1])
           /\ Value(m, key) \in Parts(m.root)
           /\ Value(m, key).elems \in Seq(Parts(m.root))
<1> DEFINE e == Elems(m)
           P == Parts(m.root)
           i == At(m, key)
<1>1. e \in Seq(P) /\ IsClosed(P) /\ m.root \in P
  BY TreeFacts DEF Elems, IsWhole
<1>2. Len(e) \in Nat /\ DOMAIN e = 1 .. Len(e) /\ Len(e) % 2 = 0
  <2>1. m.root.t = "map"
    BY MessageOps DEF IsWhole
  <2>2. Len(e) % 2 = 0
    BY <1>1, <2>1 DEF IsClosed, Elems
  <2> QED BY <1>1, <2>2
<1>3. i \in Given(m, key)
  <2>1. Given(m, key) \in SUBSET (1 .. Len(e)) /\ Given(m, key) # {}
    BY <1>2 DEF Given, KeysAt, Has
  <2> QED BY <1>2, <2>1, MaxIsIn DEF At
<1> HIDE DEF i
<1>4. i \in KeysAt(m) /\ e[i].v = key /\ i \in 1 .. Len(e) /\ i % 2 = 1
  BY <1>2, <1>3 DEF Given, KeysAt
<1> HIDE DEF e
<1>5. i + 1 \in 1 .. Len(e) /\ 1 + i = i + 1
  BY <1>2, <1>4
<1>6. Value(m, key) = Untagged(e[i + 1])
  BY <1>5 DEF Value, At, i, e
<1>7. e[i + 1] \in P
  BY <1>1, <1>5, ElementOfSeq
<1>8. Value(m, key) \in P
  BY <1>1, <1>6, <1>7, UntaggedIsPart
<1>9. Value(m, key).elems \in Seq(P)
  BY <1>1, <1>8 DEF IsClosed
<1> QED BY <1>4, <1>5, <1>6, <1>8, <1>9 DEF i, e

(* If one of the sequences fails, so does what they are flattened to.      *)
LEMMA FlatFails ==
    ASSUME NEW S, NEW ss \in Seq(Seq(S)), ~Fails(FlattenSeq(ss)), NEW j \in 1 .. Len(ss)
    PROVE  ~Fails(ss[j])
<1> DEFINE flat == FlattenSeq(ss)
           n == Len(ss)
<1>1. flat \in Seq(S) /\ \E block, place : IsMade(flat, ss, n, block, place)
  BY Flattened
<1> HIDE DEF flat, n
<1>2. PICK block, place : IsMade(flat, ss, n, block, place)
  BY <1>1
<1>3. DOMAIN flat = 1 .. Len(flat) /\ DOMAIN ss[j] = 1 .. Len(ss[j])
  <2>1. ss[j] \in Seq(S)
    BY ElementOfSeq
  <2> QED BY <1>1, <2>1
<1> SUFFICES ASSUME NEW q \in 1 .. Len(ss[j]), ss[j][q].op = "fail" PROVE Fails(flat)
  BY <1>3 DEF Fails, flat
<1>4. j \in 1 .. n
  BY DEF n
<1>5. PICK k \in 1 .. Len(flat) : block[k] = j /\ place[k] = q
  BY <1>2, <1>4 DEF IsMade
<1>6. flat[k] = ss[j][q]
  BY <1>2, <1>5 DEF IsMade
<1> QED BY <1>3, <1>6 DEF Fails

(* What does not fail, no part of it fails.                                *)
LEMMA ThenFails ==
    ASSUME NEW S, NEW x \in Seq(S), NEW y \in Seq(S), ~Fails(Then(x, y))
    PROVE  ~Fails(x) /\ ~Fails(y)
<1>1. ~Fails(x) /\ Then(x, y) = x \o y
  BY DEF Then
<1>2. /\ x \o y \in Seq(S) /\ Len(x \o y) = Len(x) + Len(y) /\ Len(x) \in Nat /\ Len(y) \in Nat
      /\ \A k \in 1 .. Len(x) + Len(y) :
            (x \o y)[k] = IF k <= Len(x) THEN x[k] ELSE y[k - Len(x)]
  BY ConcatProperties
<1>3. DOMAIN y = 1 .. Len(y) /\ DOMAIN (x \o y) = 1 .. Len(x \o y)
  BY <1>2
<1>4. ASSUME NEW k \in 1 .. Len(y)
      PROVE  Len(x) + k \in 1 .. Len(x \o y) /\ (x \o y)[Len(x) + k] = y[k]
  <2>1. Len(x) + k \in 1 .. Len(x) + Len(y) /\ ~(Len(x) + k <= Len(x))
        /\ (Len(x) + k) - Len(x) = k
    BY <1>2
  <2> QED BY <1>2, <2>1
<1> QED BY <1>1, <1>3, <1>4 DEF Fails

(* A failure fails.                                                        *)
LEMMA FailFails ==
    ASSUME NEW code
    PROVE  Fails(Fail(code))
<1>1. ASSUME NEW o, o.op = "fail" PROVE Fails(<<o>>)
  <2>1. 1 \in DOMAIN <<o>> /\ <<o>>[1] = o
    OBVIOUS
  <2> QED BY <1>1, <2>1 DEF Fails
<1>2. Op("fail", code, NoSlot, 0).op = "fail"
  BY DEF Op
<1> QED BY <1>1, <1>2 DEF Fail

(* The operations of a field that is given are among those of the message. *)
LEMMA FieldSucceeds ==
    ASSUME NEW m, IsWhole(m), NEW key, key # "type", Has(m, key)
    PROVE  \E elems \in Seq(Parts(m.root)) : \E i \in 2 .. Len(elems) :
               /\ elems[i - 1].v = key /\ Untagged(elems[i]) = Value(m, key)
               /\ ~Fails(MsgField(Type(m), elems, i))
<1> DEFINE P == Parts(m.root)
           e == Elems(m)
           b == Body(m)
           a == ~Readable(m.root)
           type == Type(m)
           n == Len(b) \div 2
           fields == [k \in 1 .. n |-> MsgField(type, b, 2 * k)]
           ss == [k \in 1 .. n |-> Slice(b, fields, k)]
           i == At(m, key)
<1>1. a \in BOOLEAN /\ IsClosed(P) /\ (Ends(P) => a) /\ e \in Seq(P)
  <2>1. a \in BOOLEAN
    BY DEF Readable
  <2> QED BY <2>1, TreeFacts DEF Elems, IsWhole
<1>2. type \in {"start", "image", "end"} /\ ~Fails(BodyOps(type, m))
  BY MessageOps DEF IsWhole
<1>3. i \in KeysAt(m) /\ e[i].v = key /\ i + 1 \in 1 .. Len(e) /\ Value(m, key) = Untagged(e[i + 1])
  BY ValueFacts
<1>4. b \in Seq(P) /\ Len(b) \in Nat /\ b = SubSeq(e, 3, Len(e))
  BY <1>1, BodyFacts DEF Body
<1>5. i \in Nat /\ i % 2 = 1 /\ i >= 3
  <2>1. DOMAIN e = 1 .. Len(e)
    BY <1>1
  <2>2. i \in Nat /\ i >= 1 /\ i % 2 = 1
    BY <1>3, <2>1 DEF KeysAt
  <2>3. e[1].v = "type"
    BY <1>2 DEF Type, MsgType, Elems
  <2>4. i # 1
    BY <1>3, <2>3
  <2> HIDE DEF i
  <2> QED BY <2>2, <2>4
<1> HIDE DEF i, b, e
<1>6. PICK j \in Nat : i = 2 * j + 1
  <2>1. PICK q \in Nat, r \in 0 .. 1 : r = i % 2 /\ i = q * 2 + r
    BY <1>5, Division
  <2> QED BY <1>5, <2>1
<1>7. Len(e) \in Nat /\ 3 <= Len(e)
  <2>1. Len(e) \in Nat
    BY <1>1
  <2> QED BY <1>3, <1>5, <2>1
<1>8. Len(b) = Len(e) - 2 /\ \A k \in 1 .. Len(e) - 2 : b[k] = e[3 + k - 1]
  BY <1>1, <1>4, <1>7, SubSeqProperties
<1>9. /\ 2 * j \in 2 .. Len(b) /\ 2 * j - 1 \in 1 .. Len(b) /\ j \in 1 .. n
      /\ b[2 * j - 1] = e[i] /\ b[2 * j] = e[i + 1]
  <2>1. 2 * j \in 2 .. Len(b) /\ 2 * j - 1 \in 1 .. Len(b) /\ 2 * j \in 1 .. Len(b)
    BY <1>3, <1>5, <1>6, <1>7, <1>8
  <2>2. j \in 1 .. n
    BY <1>4, <2>1, Half
  <2>3. 3 + (2 * j - 1) - 1 = i /\ 3 + 2 * j - 1 = i + 1
    BY <1>6
  <2> QED BY <1>8, <2>1, <2>2, <2>3
<1>10. n \in Nat
  BY <1>4, Half
<1>11. BodyOps(type, m) = FlattenSeq(ss)
  BY DEF BodyOps, Keyed, Slice, b
<1>12. \A k \in 1 .. n : fields[k] = MsgField(type, b, 2 * k)
  OBVIOUS
<1> HIDE DEF n, fields, type, a
<1>13. \A k \in 1 .. n : Slice(b, fields, k) \in Seq(MsgOpSet(a))
  <2> SUFFICES ASSUME NEW k \in 1 .. n PROVE Slice(b, fields, k) \in Seq(MsgOpSet(a))
    OBVIOUS
  <2>1. IsBlock(a, b[2 * k - 1].v, Slice(b, fields, k))
    BY <1>1, <1>2, <1>4, <1>12, SliceIsBlock DEF n
  <2>2. Seq(Failures(a) \cup KeyOps(b[2 * k - 1].v)) \subseteq Seq(MsgOpSet(a))
    BY <1>1, BlockOps, SeqMonotone
  <2> QED BY <2>1, <2>2 DEF IsBlock
<1>14. ss \in Seq(Seq(MsgOpSet(a))) /\ Len(ss) = n /\ ss[j] = Slice(b, fields, j)
  <2>1. ss \in [1 .. n -> Seq(MsgOpSet(a))] /\ ss[j] = Slice(b, fields, j)
    BY <1>9, <1>13, Zenon
  <2> HIDE DEF ss
  <2>2. DOMAIN ss = 1 .. n
    BY <2>1
  <2> QED BY <1>10, <2>1, <2>2
<1> HIDE DEF ss
<1>15. ~Fails(Slice(b, fields, j))
  BY <1>2, <1>9, <1>11, <1>14, FlatFails
<1>16. ~Fails(MsgField(type, b, 2 * j))
  <2> DEFINE after == Expect(~EndsAt(b, 2 * j), DECODE)
             value == KeyValue(b[2 * j - 1], b[2 * j], fields[j])
             first == OfType(b[2 * j - 1], "text")
             S == Failures(a) \cup KeyOps(key)
  <2>1. /\ first \in Checks(a) /\ after \in Checks(a)
        /\ value \in Checks(a) \/ value = fields[j]
    <3>1. j \in 1 .. Len(b) \div 2
      BY <1>9 DEF n
    <3>2. a \in BOOLEAN /\ (Ends(P) => a) /\ b \in Seq(P)
      BY <1>1, <1>4
    <3> HIDE DEF P, S
    <3>3. first \in Checks(a) /\ after \in Checks(a)
      BY <3>1, <3>2, SliceChecks
    <3>4. value \in Checks(a) \/ value = fields[j]
      BY <3>1, <3>2, SliceChecks
    <3> QED BY <3>3, <3>4
  <2>2. fields[j] \in Seq(S)
    <3>1. IsBlock(a, b[2 * j - 1].v, MsgField(type, b, 2 * j))
      BY <1>1, <1>2, <1>4, <1>9, FieldIsBlock
    <3>2. b[2 * j - 1].v = key /\ fields[j] = MsgField(type, b, 2 * j)
      BY <1>3, <1>9, <1>12
    <3> QED BY <3>1, <3>2 DEF IsBlock
  <2>3. Checks(a) \subseteq Seq(S)
    BY SeqMonotone DEF Checks
  <2>4. Slice(b, fields, j) = Then(first, Then(value, after))
    BY DEF Slice
  <2>5. b[2 * j].t # "break"
    <3>1. 1 + i = i + 1
      BY <1>5
    <3> QED BY <1>3, <1>9 DEF KeysAt, e
  <2>6. value = fields[j] \/ Fails(value)
    BY <2>5, FailFails DEF KeyValue
  <2> HIDE DEF S, after, first, value
  <2>7. value \in Seq(S)
    BY <2>1, <2>2, <2>3
  <2>8. Then(value, after) \in Seq(S)
    BY <2>1, <2>3, <2>7, ThenFacts
  <2>9. ~Fails(Then(value, after))
    BY <1>15, <2>1, <2>3, <2>4, <2>8, ThenFails
  <2>10. ~Fails(value)
    BY <2>1, <2>3, <2>7, <2>9, ThenFails
  <2> QED BY <1>9, <1>12, <2>6, <2>10
<1> QED BY <1>3, <1>4, <1>9, <1>16 DEF type

(* The times of an image are pairs of numbers.                             *)
LEMMA PairFacts ==
    ASSUME NEW m, IsWhole(m), Type(m) = "image"
    PROVE  Pair(m, "start_time")[1] \in Nat /\ Pair(m, "start_time")[2] \in Nat
<1> DEFINE key == "start_time"
           x == Value(m, key)
<1>1. CASE ~Has(m, key)
  BY <1>1 DEF Pair
<1>2. CASE Has(m, key)
  <2> PICK elems \in Seq(Parts(m.root)) : \E i \in 2 .. Len(elems) :
               /\ elems[i - 1].v = key /\ Untagged(elems[i]) = x
               /\ ~Fails(MsgField(Type(m), elems, i))
    <3>1. key # "type"
      OBVIOUS
    <3> QED BY <1>2, <3>1, FieldSucceeds
  <2>1. PICK i \in 2 .. Len(elems) :
               /\ elems[i - 1].v = key /\ Untagged(elems[i]) = x
               /\ ~Fails(MsgField(Type(m), elems, i))
    OBVIOUS
  <2>2. Kind(Fields["image"], key) = "pair"
    BY DEF Kind, Fields
  <2>3. MsgField(Type(m), elems, i) = Fail(DECODE) \/ MsgField(Type(m), elems, i) = ListOf(x, 2, "uint")
    BY <2>1, <2>2 DEF MsgField
  <2>4. ~Fails(ListOf(x, 2, "uint"))
    BY <2>1, <2>3, FailFails
  <2>5. x.elems \in Seq(Parts(m.root)) /\ IsClosed(Parts(m.root))
    BY <1>2, ValueFacts, TreeFacts DEF IsWhole
  <2> HIDE DEF x, key
  <2>6. Len(x.elems) = 2
    <3> DEFINE flat == FlattenSeq([k \in 1 .. 2 |-> OfType(x.elems[k], "uint")])
               counted == Counted(x, "array")
               exact == Expect(Len(x.elems) = 2, PARSE)
    <3>1. ~Fails(Then(Exactly(x, 2), flat))
      BY <2>4 DEF ListOf
    <3>2. ~Fails(Exactly(x, 2))
      BY <3>1 DEF Then
    <3>3. counted \in Seq(Failures(FALSE)) /\ exact \in Seq(Failures(FALSE))
      <4>1. PARSE \in 2 .. 5 /\ (Len(x.elems) = 2) \in BOOLEAN
        BY DEF PARSE
      <4> QED BY <4>1, CheckFacts DEF Checks
    <3> HIDE DEF counted, exact
    <3>4. ~Fails(exact)
      BY <3>2, <3>3, ThenFails DEF Exactly, counted, exact
    <3> QED BY <3>4, FailFails DEF exact, Expect
  <2>7. x.elems[1] \in Parts(m.root) /\ x.elems[2] \in Parts(m.root)
    BY <2>5, <2>6, ElementOfSeq
  <2>8. x.elems[1].n \in Nat /\ x.elems[2].n \in Nat
    BY <2>5, <2>7 DEF IsClosed
  <2>9. Pair(m, key) = [k \in 1 .. 2 |-> x.elems[k].n]
    BY <1>2 DEF Pair, x
  <2>10. Pair(m, key)[1] \in Nat /\ Pair(m, key)[2] \in Nat
    BY <2>8, <2>9
  <2> QED BY <2>10 DEF key
<1> QED BY <1>1, <1>2

(* A list has a length.                                                    *)
LEMMA ListFacts ==
    ASSUME NEW m, m = NoMsg \/ IsWhole(m), NEW key
    PROVE  Len(List(m, key)) \in Nat /\ DOMAIN List(m, key) = 1 .. Len(List(m, key))
<1>1. CASE ~Has(m, key)
  BY <1>1 DEF List
<1>2. CASE Has(m, key)
  <2>1. IsWhole(m)
    <3>1. Elems(NoMsg) = <<>>
      BY DEF Elems, NoMsg, End, Item
    <3>2. KeysAt(NoMsg) = {}
      BY <3>1 DEF KeysAt
    <3>3. ~Has(NoMsg, key)
      BY <3>2 DEF Has, Given
    <3> QED BY <1>2, <3>3
  <2> DEFINE e == Value(m, key).elems
             n == Len(e) \div 2
             list == [i \in 1 .. n |-> [channel |-> e[2 * i - 1].v, value |-> e[2 * i]]]
  <2>2. e \in Seq(Parts(m.root))
    BY <1>2, <2>1, ValueFacts
  <2>3. n \in Nat
    <3>1. Len(e) \in Nat
      BY <2>2
    <3> HIDE DEF e
    <3> QED BY <3>1, Half
  <2>4. List(m, key) = list
    BY <1>2 DEF List
  <2> HIDE DEF n
  <2>5. DOMAIN list = 1 .. n /\ Len(list) = n
    BY <2>3
  <2> QED BY <2>3, <2>4, <2>5
<1> QED BY <1>1, <1>2

-----------------------------------------------------------------------------
(* The inductive invariant.                                                *)

Accepted(type) == {m \in Regular \cup Odd : ~Fails(OpsOf(m)) /\ Type(m) = type}

(* mThresholdEnergy is what the last header lists.                         *)
HeaderInv ==
    /\ header = NoMsg \/ header \in Accepted("start")
    /\ mThresholdEnergy = ListedEnergies(header)

(* The image that frames are made of is the last message, and it has some. *)
ImageInv ==
    /\ mImageMsg = NoMsg \/ mImageMsg \in Accepted("image")
    /\ pc = "frame" =>
          /\ mImageMsg = lastMsg /\ mImageMsg \in Accepted("image")
          /\ mNumThresholds = Len(List(mImageMsg, "data"))
          /\ nextThresh \in 0 .. mNumThresholds - 1

(* An image that is held while none is made frames of, one that repeats a  *)
(* key, and an open mMsg are accounted for, as is what is lost.            *)
MemoryInv ==
    /\ spilt \in [blocks : BOOLEAN, messages : BOOLEAN]
    /\ lost = [blocks |-> lost.blocks, messages |-> lost.messages]
    /\ spilt.blocks \/ lost.blocks = 0
    /\ spilt.messages \/ lost.messages = 0
    /\ IsRepeated(mImageMsg) => spilt.blocks
    /\ pc \in {"idle", "header", "wait"} =>
          /\ mImageMsg # NoMsg => spilt.blocks
          /\ mMsgOpen => spilt.messages

(* The cached time is that of the cached date.                             *)
CacheInv == mCachedTs.ts = parseRfc3339Timestamp(mCachedTs.text)

(* The time of an image is that of its date, with the ticks since.         *)
StampOf(m) ==
    TimeStamp(parseRfc3339Timestamp(Value(m, "series_date").v),
              Pair(m, "start_time")[1], Pair(m, "start_time")[2])

(* The frame was made of the last message.                                 *)
FrameInv ==
    frame # NoFrame =>
        /\ lastMsg \in Accepted("image")
        /\ frame.entry \in DOMAIN mThresholdEnergy
        /\ frame.channel = mThresholdEnergy[frame.entry].channel
        /\ frame.energy = mThresholdEnergy[frame.entry].energy
        /\ frame.stamp = <<>> \/ (TimeIsGiven(lastMsg) /\ frame.stamp = StampOf(lastMsg))

Stream2Inv ==
    /\ HeaderInv /\ ImageInv /\ MemoryInv /\ CacheInv /\ FrameInv
    /\ DiesForAReason

(* The message there is at the start has no fields.                        *)
LEMMA NoMsgFacts ==
    /\ \A key : ~Has(NoMsg, key) /\ List(NoMsg, key) = <<>>
    /\ ~IsRepeated(NoMsg)
    /\ \A m \in Regular \cup Odd : m # NoMsg
<1>1. Elems(NoMsg) = <<>> /\ NoMsg.form = "none"
  BY DEF Elems, NoMsg, End, Item
<1>2. KeysAt(NoMsg) = {}
  BY <1>1 DEF KeysAt
<1>3. \A key : ~Has(NoMsg, key) /\ List(NoMsg, key) = <<>>
  BY <1>2 DEF Has, Given, List
<1>4. ~IsRepeated(NoMsg)
  <2>1. {Elems(NoMsg)[i].v : i \in {}} = {}
    OBVIOUS
  <2>2. Cardinality({}) = 0
    BY FS_EmptySet
  <2> QED BY <1>2, <2>1, <2>2 DEF IsRepeated
<1>5. \A m \in Regular \cup Odd : m.form # "none"
  BY Stream2Assumption DEF Stream2Assumption
<1> QED BY <1>1, <1>3, <1>4, <1>5

(* An accepted message is a tree none of whose fields fails.               *)
LEMMA AcceptedFacts ==
    ASSUME NEW type, NEW m \in Accepted(type)
    PROVE  m \in Regular \cup Odd /\ IsWhole(m) /\ Type(m) = type /\ m # NoMsg
<1>1. m \in Regular \cup Odd /\ ~Fails(OpsOf(m)) /\ Type(m) = type
  BY DEF Accepted
<1>2. IsTree(m.root)
  BY <1>1, Stream2Assumption DEF Stream2Assumption
<1> QED BY <1>1, <1>2, NoMsgFacts DEF IsWhole

(* What is received, and what decoding it comes to.                        *)
LEMMA ReceivedFacts ==
    ASSUME NEW m \in Incoming, NEW heap \in Heaps(m)
    PROVE  /\ m \in Regular \cup Odd /\ m # NoMsg
           /\ heap.code \in 0 .. 6
           /\ ~IsRepeated(m) => Cardinality(Leftover(heap)) = 0
           /\ Dies(heap) => \/ ~Readable(m.root)
                            \/ IsRepeated(m) /\ heap.code = OUT_OF_MEMORY
           /\ heap.code = OK => m \in Accepted(Type(m)) /\ Type(m) \in {"start", "image", "end"}
                                /\ ~Dies(heap)
<1>1. m \in Regular \cup Odd
  BY DEF Incoming
<1>2. IsTree(m.root)
  BY <1>1, Stream2Assumption DEF Stream2Assumption
<1>3. PICK fails : heap = Run(OpsOf(m), fails)
  BY DEF Heaps, Decodings, Decoded, stream2_parse_msg
<1>4. /\ heap.code \in 0 .. 6
      /\ ~IsRepeated(m) => Leftover(heap) = {}
      /\ heap.code = ABORT => ~Readable(m.root)
      /\ FreeCrashes(heap) => IsRepeated(m) /\ heap.code = OUT_OF_MEMORY
      /\ heap.code = OK => ~Fails(OpsOf(m))
  BY <1>2, <1>3, MessageResult
<1>5. heap.code = OK => m \in Accepted(Type(m))
  BY <1>1, <1>4 DEF Accepted
<1>6. heap.code = OK => Type(m) \in {"start", "image", "end"}
  BY <1>2, <1>4, MessageOps
<1>7. ~IsRepeated(m) => Cardinality(Leftover(heap)) = 0
  BY <1>4, FS_EmptySet
<1>8. heap.code = OK => ~Dies(heap)
  BY DEF Dies, OK, ABORT
<1> QED BY <1>1, <1>4, <1>5, <1>6, <1>7, <1>8, NoMsgFacts DEF Dies

(* Of a message that is held no blocks are left over unless it repeats a   *)
(* key.                                                                    *)
LEMMA HeldFacts ==
    ASSUME NEW m \in Accepted("image"), ~IsRepeated(m)
    PROVE  Cardinality(Leftover(Decoded(m))) = 0
<1>1. IsTree(m.root)
  BY AcceptedFacts DEF IsWhole
<1>2. Leftover(Decoded(m)) = {}
  BY <1>1, MessageResult DEF Decoded, stream2_parse_msg
<1> QED BY <1>2, FS_EmptySet

(* A list without entries.                                                 *)
LEMMA EmptyList ==
    /\ DOMAIN <<>> = {}
    /\ \A g : [i \in {} |-> g[i]] = <<>>
OBVIOUS

(* The invariant holds at the start.                                       *)
LEMMA Stream2Starts ==
    ASSUME Stream2Init
    PROVE  Stream2Inv
<1> USE DEF Stream2Init
<1>1. HeaderInv
  <2>1. List(NoMsg, "threshold_energy") = <<>>
    BY NoMsgFacts
  <2>2. ListedEnergies(NoMsg) = <<>>
    <3> DEFINE g == [i \in {} |-> [channel |-> <<>>[i].channel, energy |-> <<>>[i].value.n]]
    <3>1. DOMAIN <<>> = {}
      BY EmptyList
    <3>2. ListedEnergies(NoMsg) = g
      BY <2>1, <3>1 DEF ListedEnergies
    <3>3. g = [i \in {} |-> g[i]]
      OBVIOUS
    <3> HIDE DEF g
    <3>4. g = <<>>
      BY <3>3, EmptyList
    <3> QED BY <3>2, <3>4
  <2> QED BY <2>2 DEF HeaderInv
<1>2. ImageInv
  BY DEF ImageInv
<1>3. MemoryInv
  BY NoMsgFacts DEF MemoryInv
<1>4. CacheInv
  <2>1. "" \notin DOMAIN Dates
    BY Stream2Assumption DEF Stream2Assumption
  <2> QED BY <2>1 DEF CacheInv, parseRfc3339Timestamp
<1>5. FrameInv
  BY DEF FrameInv
<1>6. DiesForAReason
  BY DEF DiesForAReason
<1> QED BY <1>1, <1>2, <1>3, <1>4, <1>5, <1>6 DEF Stream2Inv

(* Waking changes nothing else; nor does a stutter.                        *)
LEMMA WakePreserves ==
    ASSUME Stream2Inv, Wake \/ UNCHANGED stream2Vars
    PROVE  Stream2Inv'
<1> DEFINE rest == <<nextThresh, imageVars, headerVars, message, mCachedTs, frame, lost,
                     spilt, failures>>
<1>1. UNCHANGED rest
  BY DEF Wake, stream2Vars, caller
<1>2. (pc = "idle" /\ pc' = "header") \/ pc' = pc
  BY DEF Wake, stream2Vars, caller
<1> USE DEF Stream2Inv, imageVars, headerVars, message
<1>3. HeaderInv'
  BY <1>1 DEF HeaderInv, ListedEnergies
<1>4. ImageInv'
  BY <1>1, <1>2 DEF ImageInv
<1>5. MemoryInv'
  BY <1>1, <1>2 DEF MemoryInv
<1>6. CacheInv'
  BY <1>1 DEF CacheInv
<1>7. FrameInv'
  BY <1>1 DEF FrameInv
<1>8. DiesForAReason'
  BY <1>1, <1>2 DEF DiesForAReason
<1> QED BY <1>3, <1>4, <1>5, <1>6, <1>7, <1>8

(* A header is received.                                                   *)
LEMMA HeaderPreserves ==
    ASSUME Stream2Inv, pc = "header", NEW m \in Incoming, NEW heap \in Heaps(m),
           getHeader(m, heap)
    PROVE  Stream2Inv'
<1> USE DEF Stream2Inv
<1>1. /\ m \in Regular \cup Odd /\ m # NoMsg
      /\ heap.code \in 0 .. 6
      /\ ~IsRepeated(m) => Cardinality(Leftover(heap)) = 0
      /\ Dies(heap) => \/ ~Readable(m.root)
                       \/ IsRepeated(m) /\ heap.code = OUT_OF_MEMORY
      /\ heap.code = OK => m \in Accepted(Type(m)) /\ Type(m) \in {"start", "image", "end"}
                           /\ ~Dies(heap)
  BY ReceivedFacts
<1> DEFINE accepted == heap.code = OK /\ Type(m) = "start"
<1>2. /\ lastMsg' = m /\ result' = heap.code /\ frame' = NoFrame
      /\ mImageMsg' = mImageMsg /\ mCachedTs' = mCachedTs /\ mMsgOpen' = FALSE
      /\ spilt' = [spilt EXCEPT !.blocks = @ \/ IsRepeated(m)]
      /\ lost' = [blocks |-> lost.blocks + Cardinality(Leftover(heap)),
                  messages |-> lost.messages + (IF mMsgOpen THEN 1 ELSE 0)]
  BY DEF getHeader, Receive, Lose
<1>3. IF accepted THEN mThresholdEnergy' = ListedEnergies(m) /\ header' = m
                  ELSE mThresholdEnergy' = mThresholdEnergy /\ header' = header
  BY DEF getHeader, Energies, headerVars
<1>4. /\ pc' \in {"dead", "wait", "header", "idle"}
      /\ pc' = "dead" => Dies(heap) \/ (accepted /\ ~Has(m, "image_dtype"))
  BY DEF getHeader, AfterHeader
<1>5. HeaderInv'
  <2>1. CASE accepted
    BY <1>1, <1>3, <2>1 DEF HeaderInv
  <2>2. CASE ~accepted
    BY <1>3, <2>2 DEF HeaderInv
  <2> QED BY <2>1, <2>2
<1>6. ImageInv'
  BY <1>2, <1>4 DEF ImageInv
<1>7. MemoryInv'
  <2>1. /\ spilt'.blocks = (spilt.blocks \/ IsRepeated(m)) /\ spilt'.messages = spilt.messages
        /\ spilt' \in [blocks : BOOLEAN, messages : BOOLEAN]
    BY <1>2 DEF MemoryInv
  <2>2. spilt'.blocks \/ lost'.blocks = 0
    BY <1>1, <1>2, <2>1 DEF MemoryInv
  <2>3. spilt'.messages \/ lost'.messages = 0
    BY <1>2, <2>1 DEF MemoryInv
  <2>4. /\ IsRepeated(mImageMsg') => spilt'.blocks
        /\ mImageMsg' # NoMsg => spilt'.blocks
    BY <1>2, <2>1 DEF MemoryInv
  <2> QED BY <1>2, <2>1, <2>2, <2>3, <2>4 DEF MemoryInv
<1>8. CacheInv'
  BY <1>2 DEF CacheInv
<1>9. FrameInv'
  BY <1>2 DEF FrameInv
<1>10. DiesForAReason'
  BY <1>1, <1>2, <1>4 DEF DiesForAReason
<1> QED BY <1>5, <1>6, <1>7, <1>8, <1>9, <1>10

(* An image is received, or the end, or what cannot be decoded.            *)
LEMMA WaitPreserves ==
    ASSUME Stream2Inv, pc = "wait", NEW m \in Incoming, NEW heap \in Heaps(m),
           waitFrame(m, heap)
    PROVE  Stream2Inv'
<1> USE DEF Stream2Inv
<1>1. /\ m \in Regular \cup Odd /\ m # NoMsg
      /\ heap.code \in 0 .. 6
      /\ ~IsRepeated(m) => Cardinality(Leftover(heap)) = 0
      /\ Dies(heap) => \/ ~Readable(m.root)
                       \/ IsRepeated(m) /\ heap.code = OUT_OF_MEMORY
      /\ heap.code = OK => m \in Accepted(Type(m)) /\ Type(m) \in {"start", "image", "end"}
                           /\ ~Dies(heap)
  BY ReceivedFacts
<1> DEFINE type == IF heap.code = OK THEN Type(m) ELSE "none"
           code == IF type = "start" THEN STREAM_ERROR ELSE heap.code
           channels == Len(List(m, "data"))
           none == type = "image" /\ channels = 0
<1>2. /\ lastMsg' = m /\ result' = heap.code /\ frame' = NoFrame
      /\ mCachedTs' = mCachedTs /\ mThresholdEnergy' = mThresholdEnergy /\ header' = header
      /\ mMsgOpen' = (type \in {"image", "none"}) /\ nextThresh' = 0
      /\ spilt' = [blocks |-> spilt.blocks \/ IsRepeated(m) \/ none,
                   messages |-> spilt.messages \/ heap.code # OK \/ none]
  BY DEF waitFrame, Receive, headerVars
<1>3. IF type = "image"
      THEN /\ mImageMsg' = m /\ mNumThresholds' = channels
           /\ lost' = [blocks |-> lost.blocks + Cardinality(Held),
                       messages |-> lost.messages + (IF mMsgOpen THEN 1 ELSE 0)]
      ELSE /\ mImageMsg' = mImageMsg /\ mNumThresholds' = mNumThresholds
           /\ lost' = [blocks |-> lost.blocks + Cardinality(Leftover(heap)),
                       messages |-> lost.messages + (IF mMsgOpen THEN 1 ELSE 0)]
  BY DEF waitFrame, Lose
<1>4. pc' = CASE Dies(heap) -> "dead"
              [] type = "end" -> "idle"
              [] type = "image" /\ channels = 0 -> "wait"
              [] OTHER -> AfterWait(code)
  BY DEF waitFrame
<1>5. /\ type = "none" <=> heap.code # OK
      /\ type # "none" => m \in Accepted(type) /\ ~Dies(heap)
      /\ type \in {"start", "image", "end", "none"}
  BY <1>1
<1>6. /\ pc' \in {"dead", "idle", "wait", "frame"}
      /\ pc' = "dead" => Dies(heap)
      /\ pc' = "frame" => type = "image" /\ channels # 0
  <2>1. AfterWait(code) \in {"frame", "wait", "idle"} /\ (AfterWait(code) = "frame" => code = OK)
    BY DEF AfterWait
  <2>2. code = OK => heap.code = OK /\ type # "start"
    BY DEF OK, STREAM_ERROR
  <2> HIDE DEF code, type
  <2> QED BY <1>4, <1>5, <2>1, <2>2
<1> HIDE DEF type, code
<1>7. HeaderInv'
  BY <1>2 DEF HeaderInv, ListedEnergies
<1>8. ImageInv'
  <2>1. CASE type = "image"
    <3>1. m \in Accepted("image") /\ channels \in Nat
      <4>1. m \in Accepted("image")
        BY <1>5, <2>1
      <4> QED BY <4>1, AcceptedFacts, ListFacts
    <3>2. pc' = "frame" => 0 \in 0 .. channels - 1
      BY <1>6, <3>1
    <3> HIDE DEF channels
    <3>3. mImageMsg' = m /\ mNumThresholds' = channels /\ lastMsg' = m /\ nextThresh' = 0
      BY <1>2, <1>3, <2>1
    <3> QED BY <3>1, <3>2, <3>3 DEF ImageInv, channels
  <2>2. CASE type # "image"
    BY <1>3, <1>6, <2>2 DEF ImageInv
  <2> QED BY <2>1, <2>2
<1> HIDE DEF channels, none
<1>9. MemoryInv'
  <2>1. /\ spilt'.blocks = (spilt.blocks \/ IsRepeated(m) \/ none)
        /\ spilt'.messages = (spilt.messages \/ heap.code # OK \/ none)
    BY <1>2
  <2>2. spilt' \in [blocks : BOOLEAN, messages : BOOLEAN]
    <3>1. (spilt.blocks \/ IsRepeated(m) \/ none) \in BOOLEAN
          /\ (spilt.messages \/ heap.code # OK \/ none) \in BOOLEAN
      BY Zenon
    <3> QED BY <1>2, <3>1
  <2>3. spilt'.blocks \/ lost'.blocks = 0
    <3>1. CASE type = "image"
      <4>1. mImageMsg = NoMsg => Cardinality(Held) = 0
        BY FS_EmptySet DEF Held
      <4> QED BY <1>3, <2>1, <3>1, <4>1 DEF MemoryInv
    <3>2. CASE type # "image" /\ ~spilt.blocks /\ ~IsRepeated(m)
      <4>1. lost.blocks = 0 /\ Cardinality(Leftover(heap)) = 0
        BY <1>1, <3>2 DEF MemoryInv
      <4> QED BY <1>3, <3>2, <4>1
    <3>3. CASE spilt.blocks \/ IsRepeated(m)
      BY <2>1, <3>3
    <3> QED BY <3>1, <3>2, <3>3
  <2>4. spilt'.messages \/ lost'.messages = 0
    BY <1>3, <2>1 DEF MemoryInv
  <2>5. IsRepeated(mImageMsg') => spilt'.blocks
    BY <1>3, <2>1 DEF MemoryInv
  <2>6. pc' \in {"idle", "header", "wait"} /\ mImageMsg' # NoMsg => spilt'.blocks
    <3>1. CASE type = "image"
      <4>1. pc' \in {"idle", "header", "wait"} => none
        <5>1. ~Dies(heap) /\ code = OK
          BY <1>5, <3>1 DEF code
        <5>2. AfterWait(OK) = "frame"
          BY DEF AfterWait, OK
        <5> QED BY <1>4, <3>1, <5>1, <5>2 DEF none
      <4> QED BY <2>1, <4>1
    <3>2. CASE type # "image"
      BY <1>3, <2>1, <3>2 DEF MemoryInv
    <3> QED BY <3>1, <3>2
  <2>7. pc' \in {"idle", "header", "wait"} /\ mMsgOpen' => spilt'.messages
    <3>1. CASE type = "image"
      <4>1. pc' \in {"idle", "header", "wait"} => none
        <5>1. ~Dies(heap) /\ code = OK
          BY <1>5, <3>1 DEF code
        <5>2. AfterWait(OK) = "frame"
          BY DEF AfterWait, OK
        <5> QED BY <1>4, <3>1, <5>1, <5>2 DEF none
      <4> QED BY <2>1, <4>1
    <3>2. CASE type # "image"
      BY <1>2, <1>5, <2>1, <3>2
    <3> QED BY <3>1, <3>2
  <2>8. lost' = [blocks |-> lost'.blocks, messages |-> lost'.messages]
    BY <1>3
  <2> QED BY <2>2, <2>3, <2>4, <2>5, <2>6, <2>7, <2>8 DEF MemoryInv
<1>10. CacheInv'
  BY <1>2 DEF CacheInv
<1>11. FrameInv'
  BY <1>2 DEF FrameInv
<1>12. DiesForAReason'
  BY <1>1, <1>2, <1>6 DEF DiesForAReason
<1> QED BY <1>7, <1>8, <1>9, <1>10, <1>11, <1>12

(* After the last frame of an image it is freed.                           *)
LEMMA ReleaseFacts ==
    ASSUME Stream2Inv, pc = "frame", ReleaseAfterLast
    PROVE  /\ mImageMsg' = NoMsg \/ mImageMsg' = mImageMsg
           /\ pc' = "wait" \/ (pc' = "frame" /\ mImageMsg' = mImageMsg /\ ~IsLast)
           /\ pc' = "wait" => mImageMsg' = NoMsg /\ mMsgOpen' = FALSE
           /\ spilt.blocks \/ lost'.blocks = 0
           /\ spilt.messages \/ lost'.messages = 0
           /\ lost' = [blocks |-> lost'.blocks, messages |-> lost'.messages]
<1> USE DEF Stream2Inv
<1>1. CASE IsLast
  <2>1. /\ lost' = [lost EXCEPT !.blocks = @ + Cardinality(Leftover(Decoded(mImageMsg)))]
        /\ mImageMsg' = NoMsg /\ mMsgOpen' = FALSE /\ pc' = "wait"
    BY <1>1 DEF ReleaseAfterLast
  <2>2. ~spilt.blocks => Cardinality(Leftover(Decoded(mImageMsg))) = 0
    BY HeldFacts DEF MemoryInv, ImageInv
  <2>3. lost = [blocks |-> lost.blocks, messages |-> lost.messages]
    BY DEF MemoryInv
  <2> QED BY <2>1, <2>2, <2>3 DEF MemoryInv
<1>2. CASE ~IsLast
  BY <1>2 DEF ReleaseAfterLast, MemoryInv
<1> QED BY <1>1, <1>2

(* The invariant after a frame, made or not.                               *)
LEMMA ReleasePreserves ==
    ASSUME Stream2Inv, pc = "frame", lastMsg' = lastMsg, header' = header,
           mThresholdEnergy' = mThresholdEnergy, mNumThresholds' = mNumThresholds,
           nextThresh' = nextThresh + 1, spilt' = spilt, ReleaseAfterLast
    PROVE  HeaderInv' /\ ImageInv' /\ MemoryInv'
<1> USE DEF Stream2Inv
<1>1. /\ mImageMsg' = NoMsg \/ mImageMsg' = mImageMsg
      /\ pc' = "wait" \/ (pc' = "frame" /\ mImageMsg' = mImageMsg /\ ~IsLast)
      /\ pc' = "wait" => mImageMsg' = NoMsg /\ mMsgOpen' = FALSE
      /\ spilt.blocks \/ lost'.blocks = 0
      /\ spilt.messages \/ lost'.messages = 0
      /\ lost' = [blocks |-> lost'.blocks, messages |-> lost'.messages]
  BY ReleaseFacts
<1>2. HeaderInv'
  BY DEF HeaderInv, ListedEnergies
<1>3. ImageInv'
  <2>1. /\ mImageMsg = lastMsg /\ mImageMsg \in Accepted("image")
        /\ mNumThresholds = Len(List(mImageMsg, "data"))
        /\ nextThresh \in 0 .. mNumThresholds - 1
    BY DEF ImageInv
  <2>2. mNumThresholds \in Nat
    BY <2>1, AcceptedFacts, ListFacts
  <2>3. ~IsLast => nextThresh + 1 \in 0 .. mNumThresholds - 1
    BY <2>1, <2>2 DEF IsLast
  <2>4. mImageMsg' = NoMsg \/ mImageMsg' \in Accepted("image")
    BY <1>1, <2>1
  <2>5. ASSUME pc' = "frame"
        PROVE  /\ mImageMsg' = lastMsg' /\ mImageMsg' \in Accepted("image")
               /\ mNumThresholds' = Len(List(mImageMsg', "data"))
               /\ nextThresh' \in 0 .. mNumThresholds' - 1
    <3>1. mImageMsg' = mImageMsg /\ ~IsLast
      BY <1>1, <2>5
    <3> QED BY <2>1, <2>3, <3>1
  <2> QED BY <2>4, <2>5 DEF ImageInv
<1>4. MemoryInv'
  BY <1>1, NoMsgFacts DEF MemoryInv
<1> QED BY <1>2, <1>3, <1>4

(* A frame is made, if it can be.                                          *)
LEMMA FramePreserves ==
    ASSUME Stream2Inv, getFrame
    PROVE  Stream2Inv'
<1>1. /\ pc = "frame" /\ nextThresh' = nextThresh + 1
      /\ lastMsg' = lastMsg /\ result' = result /\ header' = header /\ spilt' = spilt
      /\ mThresholdEnergy' = mThresholdEnergy /\ mNumThresholds' = mNumThresholds
  BY DEF getFrame, headerVars, message
<1>2. /\ mImageMsg = lastMsg /\ mImageMsg \in Accepted("image")
      /\ mNumThresholds = Len(List(mImageMsg, "data"))
      /\ nextThresh \in 0 .. mNumThresholds - 1
  BY <1>1 DEF Stream2Inv, ImageInv
<1>3. CASE FrameDies
  <2>1. /\ pc' = "dead" /\ mCachedTs' = mCachedTs /\ frame' = frame /\ lost' = lost
        /\ mImageMsg' = mImageMsg /\ mMsgOpen' = mMsgOpen
    BY <1>3 DEF getFrame
  <2>2. HeaderInv' /\ ImageInv' /\ MemoryInv'
    BY <1>1, <2>1 DEF Stream2Inv, HeaderInv, ListedEnergies, ImageInv, MemoryInv
  <2>3. CacheInv' /\ FrameInv'
    BY <1>1, <2>1 DEF Stream2Inv, CacheInv, FrameInv
  <2>4. DiesForAReason'
    <3>1. Type(lastMsg) = "image"
      BY <1>2, AcceptedFacts
    <3>2. CASE ~TimeIsGiven(mImageMsg)
      BY <1>1, <1>2, <3>1, <3>2 DEF DiesForAReason
    <3>3. CASE nextThresh + 1 \notin DOMAIN mThresholdEnergy
      <4> DEFINE list == List(header, "threshold_energy")
                 data == List(mImageMsg, "data")
      <4>1. mThresholdEnergy = ListedEnergies(header) /\ (header = NoMsg \/ header \in Accepted("start"))
        BY DEF Stream2Inv, HeaderInv
      <4>2. Len(list) \in Nat /\ DOMAIN list = 1 .. Len(list)
        BY <4>1, AcceptedFacts, ListFacts
      <4>3. DOMAIN mThresholdEnergy = DOMAIN list
        BY <4>1 DEF ListedEnergies
      <4>4. Len(data) \in Nat
        BY <1>2, AcceptedFacts, ListFacts
      <4> HIDE DEF list, data
      <4>5. nextThresh + 1 \notin 1 .. Len(list)
        BY <3>3, <4>2, <4>3
      <4>6. nextThresh \in 0 .. Len(data) - 1
        BY <1>2 DEF data
      <4>7. Len(data) > Len(list)
        BY <4>2, <4>4, <4>5, <4>6
      <4> QED BY <1>1, <1>2, <3>1, <4>7 DEF DiesForAReason, list, data
    <3> QED BY <1>3, <3>2, <3>3 DEF FrameDies
  <2> QED BY <2>2, <2>3, <2>4 DEF Stream2Inv
<1>4. CASE ~FrameDies
  <2> DEFINE i == nextThresh + 1
             text == Value(mImageMsg, "series_date").v
  <2>1. /\ ReleaseAfterLast
        /\ frame' = [entry |-> i, channel |-> mThresholdEnergy[i].channel,
                     energy |-> mThresholdEnergy[i].energy,
                     stamp |-> IF streamAsTsSource THEN extractTimeStampFromMessage(mImageMsg)
                                                   ELSE <<>>]
        /\ mCachedTs' = IF streamAsTsSource THEN Cached(text) ELSE mCachedTs
    BY <1>4 DEF getFrame
  <2>2. HeaderInv' /\ ImageInv' /\ MemoryInv'
    BY <1>1, <2>1, ReleasePreserves
  <2>3. Cached(text).ts = parseRfc3339Timestamp(text)
        /\ Cached(text).ts = parseRfc3339Timestamp(Cached(text).text)
    BY DEF Cached, Stream2Inv, CacheInv
  <2>4. CacheInv'
    BY <2>1, <2>3 DEF Stream2Inv, CacheInv
  <2>5. FrameInv'
    <3>1. i \in DOMAIN mThresholdEnergy
      BY <1>4 DEF FrameDies
    <3>2. streamAsTsSource => TimeIsGiven(mImageMsg)
      BY <1>4 DEF FrameDies
    <3>3. extractTimeStampFromMessage(mImageMsg) = StampOf(lastMsg)
      BY <1>2, <2>3 DEF extractTimeStampFromMessage, StampOf
    <3>4. /\ frame'.entry = i /\ frame'.channel = mThresholdEnergy[i].channel
          /\ frame'.energy = mThresholdEnergy[i].energy
          /\ frame'.stamp = <<>> \/ (TimeIsGiven(lastMsg) /\ frame'.stamp = StampOf(lastMsg))
      BY <1>2, <2>1, <3>2, <3>3
    <3>5. StampOf(lastMsg)' = StampOf(lastMsg)
      BY <1>1 DEF StampOf, Pair, Has, Given, Value, Elems, KeysAt, parseRfc3339Timestamp
    <3>6. TimeIsGiven(lastMsg)' = TimeIsGiven(lastMsg)
      BY <1>1 DEF TimeIsGiven
    <3> QED BY <1>1, <1>2, <3>1, <3>4, <3>5, <3>6 DEF FrameInv
  <2>6. DiesForAReason'
    <3>1. pc' # "dead"
      BY <1>1, <2>1, ReleaseFacts
    <3> QED BY <3>1 DEF DiesForAReason
  <2> QED BY <2>2, <2>4, <2>5, <2>6 DEF Stream2Inv
<1> QED BY <1>3, <1>4

(* A frame fails.                                                          *)
LEMMA FrameFailsPreserves ==
    ASSUME Stream2Inv, getFrameFails
    PROVE  Stream2Inv'
<1>1. /\ pc = "frame" /\ nextThresh' = nextThresh + 1 /\ ReleaseAfterLast
      /\ lastMsg' = lastMsg /\ result' = result /\ header' = header /\ spilt' = spilt
      /\ mThresholdEnergy' = mThresholdEnergy /\ mNumThresholds' = mNumThresholds
      /\ mCachedTs' = mCachedTs /\ frame' = NoFrame
  BY DEF getFrameFails, headerVars, message
<1>2. HeaderInv' /\ ImageInv' /\ MemoryInv'
  BY <1>1, ReleasePreserves
<1>3. CacheInv' /\ FrameInv'
  BY <1>1 DEF Stream2Inv, CacheInv, FrameInv
<1>4. DiesForAReason'
  <2>1. pc' # "dead"
    BY <1>1, ReleaseFacts
  <2> QED BY <2>1 DEF DiesForAReason
<1> QED BY <1>2, <1>3, <1>4 DEF Stream2Inv

(* The invariant holds in every state that can be reached.                 *)
LEMMA Stream2Invariant == Stream2Spec => []Stream2Inv
<1>1. Stream2Init => Stream2Inv
  BY Stream2Starts
<1>2. Stream2Inv /\ [Stream2Next]_stream2Vars => Stream2Inv'
  <2> SUFFICES ASSUME Stream2Inv, [Stream2Next]_stream2Vars PROVE Stream2Inv'
    OBVIOUS
  <2>1. CASE Wake \/ UNCHANGED stream2Vars
    BY <2>1, WakePreserves
  <2>2. CASE pc = "header" /\ \E m \in Incoming : \E heap \in Heaps(m) : getHeader(m, heap)
    BY <2>2, HeaderPreserves
  <2>3. CASE pc = "wait" /\ \E m \in Incoming : \E heap \in Heaps(m) : waitFrame(m, heap)
    BY <2>3, WaitPreserves
  <2>4. CASE getFrame
    BY <2>4, FramePreserves
  <2>5. CASE getFrameFails
    BY <2>5, FrameFailsPreserves
  <2> QED BY <2>1, <2>2, <2>3, <2>4, <2>5 DEF Stream2Next
<1> QED BY <1>1, <1>2, PTL DEF Stream2Spec

-----------------------------------------------------------------------------
(* The properties.                                                         *)

(* What decoding allocates is freed, and every message of ZeroMQ is        *)
(* closed, but where there is a message to explain that it is not: getHeader *)
(* and waitFrame free what they decode, and getFrame after the last        *)
(* channel.                                                                *)
THEOREM Stream2NothingLost == Stream2Spec => []NothingLost
<1>1. Stream2Inv => NothingLost
  BY DEF Stream2Inv, MemoryInv, NothingLost
<1> QED BY <1>1, Stream2Invariant, PTL

(* A frame has the channel and the energy that the last header gives for   *)
(* the channel of the image: getFrame takes them from mThresholdEnergy by  *)
(* the position of the channel.                                            *)
THEOREM Stream2LabelsMatch == Stream2Spec => []LabelsMatch
<1>1. Stream2Inv => LabelsMatch
  <2> DEFINE data == List(lastMsg, "data")
             energies == List(header, "threshold_energy")
             n == frame.entry
  <2> SUFFICES ASSUME Stream2Inv, frame # NoFrame, ChannelsOf(data) = ChannelsOf(energies)
               PROVE  frame.channel = data[n].channel /\ frame.energy = energies[n].value.n
    BY DEF LabelsMatch
  <2>1. /\ n \in DOMAIN mThresholdEnergy
        /\ frame.channel = mThresholdEnergy[n].channel
        /\ frame.energy = mThresholdEnergy[n].energy
    BY DEF Stream2Inv, FrameInv
  <2>2. mThresholdEnergy = [i \in DOMAIN energies |->
                               [channel |-> energies[i].channel, energy |-> energies[i].value.n]]
    BY DEF Stream2Inv, HeaderInv, ListedEnergies
  <2> HIDE DEF data, energies, n
  <2>3. n \in DOMAIN energies /\ mThresholdEnergy[n].channel = energies[n].channel
        /\ mThresholdEnergy[n].energy = energies[n].value.n
    BY <2>1, <2>2
  <2>4. DOMAIN data = DOMAIN energies
    BY DEF ChannelsOf
  <2>5. data[n].channel = energies[n].channel
    <3>1. ChannelsOf(data)[n] = data[n].channel /\ ChannelsOf(energies)[n] = energies[n].channel
      BY <2>3, <2>4 DEF ChannelsOf
    <3> QED BY <3>1
  <2> QED BY <2>1, <2>3, <2>5
<1> QED BY <1>1, Stream2Invariant, PTL

(* The process dies of a message only for a reason that the message gives: *)
(* streamTask and Stream2API look at what was decoded, with the process at *)
(* stake, only there.                                                      *)
THEOREM Stream2DiesForAReason == Stream2Spec => []DiesForAReason
<1>1. Stream2Inv => DiesForAReason
  BY DEF Stream2Inv
<1> QED BY <1>1, Stream2Invariant, PTL

(* A number below the modulus is its own remainder.                        *)
LEMMA SmallRemainder ==
    ASSUME NEW x \in Nat, NEW w \in Nat, x < w
    PROVE  x % w = x
<1>1. PICK q \in Nat, r \in 0 .. w - 1 : r = x % w /\ x = q * w + r
  BY Division
<1>2. ~(q >= 1)
  <2> SUFFICES ASSUME q >= 1 PROVE FALSE
    OBVIOUS
  <2>1. PICK p \in Nat : q = p + 1
    <3>1. q - 1 \in Nat /\ q = (q - 1) + 1
      OBVIOUS
    <3> QED BY <3>1
  <2>2. q * w = p * w + w /\ p * w >= 0
    BY <2>1
  <2> QED BY <1>1, <2>2
<1>3. q = 0
  BY <1>2
<1>4. q * w = 0
  BY <1>3
<1> QED BY <1>1, <1>4

(* The digits of a fraction as nanoseconds.                                *)
LEMMA FractionRight ==
    ASSUME NEW d \in Date
    PROVE  /\ d.digits * Scale(d.len) \in Nat
           /\ d.digits * Scale(d.len) = (d.digits * NSEC_PER_SEC) \div Power(10, d.len)
<1> DEFINE n == SECFRAC_DIGITS
           len == d.len
           digits == d.digits
<1>1. n \in Nat /\ len \in 0 .. n /\ digits \in Nat /\ digits < Power(10, len)
  BY Stream2Assumption DEF Stream2Assumption, Date
<1> HIDE DEF n, len, digits
<1>2. CASE len = 0
  <2>1. Power(10, len) = 1
    BY <1>2, PowerStep
  <2>2. digits = 0
    BY <1>1, <2>1
  <2>3. NSEC_PER_SEC \in Nat
    BY <1>1, PowerPositive DEF NSEC_PER_SEC, n
  <2>4. digits * Scale(len) = 0 /\ (digits * NSEC_PER_SEC) \div Power(10, len) = 0
    BY <1>2, <2>1, <2>2, <2>3 DEF Scale
  <2> QED BY <2>4 DEF len, digits
<1>3. CASE len # 0
  <2>1. n - len \in Nat /\ len \in Nat /\ n = (n - len) + len
    BY <1>1
  <2> DEFINE a == Power(10, n - len)
             b == Power(10, len)
  <2>2. a \in Nat \ {0} /\ b \in Nat \ {0}
    BY <2>1, PowerPositive
  <2>3. NSEC_PER_SEC = a * b
    <3>1. Power(10, (n - len) + len) = a * b
      BY <2>1, PowerOfSum
    <3> QED BY <2>1, <3>1 DEF NSEC_PER_SEC, n
  <2>4. Scale(len) = a
    BY <1>3 DEF Scale, n
  <2> HIDE DEF a, b
  <2>5. digits * a \in Nat /\ digits * (a * b) = (digits * a) * b
    BY <1>1, <2>2
  <2>6. ((digits * a) * b) \div b = digits * a
    BY <2>2, <2>5, DivisionExact
  <2> QED BY <2>3, <2>4, <2>5, <2>6 DEF len, digits, b
<1> QED BY <1>2, <1>3

(* Seconds and nanoseconds make up a time.                                 *)
LEMMA StampRight ==
    ASSUME NEW utc \in Int, NEW frac \in Nat, NEW ticks \in Nat, NEW base \in Nat \ {0},
           NSEC_PER_SEC * ticks < Power(2, Width)
    PROVE  LET stamp == TimeStamp(<<utc, frac>>, ticks, base) IN
           /\ stamp[2] < NSEC_PER_SEC
           /\ (stamp[1] - utc) * NSEC_PER_SEC + stamp[2]
                  = frac + (NSEC_PER_SEC * ticks) \div base
<1> DEFINE N == NSEC_PER_SEC
           x == N * ticks
           nsec == frac + x \div base
           stamp == TimeStamp(<<utc, frac>>, ticks, base)
<1>1. N \in Nat \ {0} /\ Power(2, Width) \in Nat
  <2>1. SECFRAC_DIGITS \in Nat /\ Width \in Nat
    BY Stream2Assumption, MessagesAssumption DEF Stream2Assumption, MessagesAssumption
  <2>2. Power(10, SECFRAC_DIGITS) \in Nat \ {0} /\ Power(2, Width) \in Nat \ {0}
    BY <2>1, PowerPositive
  <2> QED BY <2>2 DEF NSEC_PER_SEC
<1> HIDE DEF N
<1>2. x \in Nat
  BY <1>1
<1>3. x % Power(2, Width) = x
  BY <1>1, <1>2, SmallRemainder DEF N
<1>4. stamp = <<utc + nsec \div N, nsec % N>>
  BY <1>3 DEF TimeStamp, N
<1>5. nsec \in Nat
  <2> HIDE DEF x
  <2>1. PICK q \in Nat, r \in 0 .. base - 1 : q = x \div base
    BY <1>2, Division
  <2> QED BY <2>1
<1> HIDE DEF nsec, stamp
<1>6. PICK q \in Nat, r \in 0 .. N - 1 : q = nsec \div N /\ r = nsec % N /\ nsec = q * N + r
  BY <1>1, <1>5, Division
<1>7. stamp[1] = utc + q /\ stamp[2] = r
  BY <1>4, <1>6
<1>8. (stamp[1] - utc) = q /\ stamp[2] < N
  BY <1>1, <1>6, <1>7
<1>9. (stamp[1] - utc) * N + stamp[2] = nsec
  BY <1>6, <1>7, <1>8
<1> QED BY <1>8, <1>9 DEF stamp, nsec, N

(* The time of an array is that of its image, to the nanosecond: the date  *)
(* may come from the cache of extractTimeStampFromMessage, but it is the   *)
(* one of this image, and the ticks are added to it and carried over.      *)
THEOREM Stream2TimestampRight == Stream2Spec => []TimestampRight
<1>1. Stream2Inv => TimestampRight
  <2> DEFINE text == Value(lastMsg, "series_date").v
             d == Dates[text]
             start == Pair(lastMsg, "start_time")
             utc == IF d.eastOf THEN d.local - d.offset ELSE d.local + d.offset
             frac == d.digits * Scale(d.len)
  <2> SUFFICES ASSUME Stream2Inv, frame # NoFrame, frame.stamp # <<>>, text \in DOMAIN Dates,
                      NSEC_PER_SEC * start[1] < Power(2, Width)
               PROVE  /\ frame.stamp[2] < NSEC_PER_SEC
                      /\ (frame.stamp[1] - utc) * NSEC_PER_SEC + frame.stamp[2] =
                             (d.digits * NSEC_PER_SEC) \div Power(10, d.len)
                                 + (NSEC_PER_SEC * start[1]) \div start[2]
    BY DEF TimestampRight
  <2>1. /\ lastMsg \in Accepted("image") /\ TimeIsGiven(lastMsg)
        /\ frame.stamp = StampOf(lastMsg)
    BY DEF Stream2Inv, FrameInv
  <2>2. start[1] \in Nat /\ start[2] \in Nat \ {0}
    BY <2>1, AcceptedFacts, PairFacts DEF TimeIsGiven
  <2>3. d \in Date
    BY Stream2Assumption DEF Stream2Assumption
  <2>4. utc \in Int
    BY <2>3 DEF Date
  <2>5. frac \in Nat /\ frac = (d.digits * NSEC_PER_SEC) \div Power(10, d.len)
    BY <2>3, FractionRight
  <2>6. parseRfc3339Timestamp(text) = <<utc, frac>>
    BY DEF parseRfc3339Timestamp
  <2>7. frame.stamp = TimeStamp(<<utc, frac>>, start[1], start[2])
    BY <2>1, <2>6 DEF StampOf
  <2> HIDE DEF utc, frac, start, d, text
  <2> QED BY <2>2, <2>4, <2>5, <2>7, StampRight
<1> QED BY <1>1, Stream2Invariant, PTL

-----------------------------------------------------------------------------
(* What a message is: decoding it fails exactly if it has not the lax      *)
(* format that Stream2Format gives.  What is missing at the end of the message    *)
(* has no place in the format, and is found out by what goes to it: each   *)
(* piece of the decoder fails for its part of the format, and a text or a  *)
(* key also if what is announced after it is missing.                      *)

(* Sequences of operations, of any kind.                                   *)
IsOps(x) == \E S : x \in Seq(S)

(* Single operations, and failures on a condition.                         *)
LEMMA OneOps ==
    /\ IsOps(<<>>) /\ ~Fails(<<>>)
    /\ \A code : IsOps(Fail(code)) /\ Fails(Fail(code))
    /\ \A slot : IsOps(Dup(slot)) /\ ~Fails(Dup(slot)) /\ IsOps(Clear(slot)) /\ ~Fails(Clear(slot))
    /\ \A key, n : IsOps(Calloc(key, n)) /\ ~Fails(Calloc(key, n))
<1>1. \A o : IsOps(<<o>>) /\ (Fails(<<o>>) <=> o.op = "fail")
  <2> SUFFICES ASSUME NEW o PROVE IsOps(<<o>>) /\ (Fails(<<o>>) <=> o.op = "fail")
    OBVIOUS
  <2>1. <<o>> \in Seq({o}) /\ DOMAIN <<o>> = {1} /\ <<o>>[1] = o
    OBVIOUS
  <2> QED BY <2>1 DEF IsOps, Fails
<1>2. IsOps(<<>>) /\ ~Fails(<<>>)
  <2>1. <<>> \in Seq({}) /\ DOMAIN <<>> = {}
    OBVIOUS
  <2> QED BY <2>1 DEF IsOps, Fails
<1>3. \A op, code, slot, n : Op(op, code, slot, n).op = op
  BY DEF Op
<1>4. \A code : IsOps(Fail(code)) /\ Fails(Fail(code))
  BY <1>1, <1>3, Zenon DEF Fail
<1>5. \A slot : IsOps(Dup(slot)) /\ ~Fails(Dup(slot)) /\ IsOps(Clear(slot)) /\ ~Fails(Clear(slot))
  <2> SUFFICES ASSUME NEW slot
               PROVE  IsOps(Dup(slot)) /\ ~Fails(Dup(slot)) /\ IsOps(Clear(slot)) /\ ~Fails(Clear(slot))
    OBVIOUS
  <2>1. Op("malloc", OK, slot, 0).op # "fail" /\ Op("clear", OK, slot, 0).op # "fail"
    BY DEF Op
  <2> QED BY <1>1, <2>1 DEF Dup, Clear
<1>6. \A key, n : IsOps(Calloc(key, n)) /\ ~Fails(Calloc(key, n))
  <2> SUFFICES ASSUME NEW key, NEW n PROVE IsOps(Calloc(key, n)) /\ ~Fails(Calloc(key, n))
    OBVIOUS
  <2>1. Op("calloc", OK, <<key, 0, "">>, n).op # "fail"
    BY DEF Op
  <2> QED BY <1>1, <2>1 DEF Calloc
<1> QED BY <1>2, <1>4, <1>5, <1>6

(* One sequence after the other fails if one of them does.                 *)
LEMMA JoinOps ==
    ASSUME NEW x, NEW y, IsOps(x), IsOps(y)
    PROVE  IsOps(x \o y) /\ (Fails(x \o y) <=> Fails(x) \/ Fails(y))
<1>1. PICK A : x \in Seq(A)
  BY DEF IsOps
<1>2. PICK B : y \in Seq(B)
  BY DEF IsOps
<1> DEFINE S == A \cup B
<1>3. x \in Seq(S) /\ y \in Seq(S)
  BY <1>1, <1>2, SeqMonotone
<1> HIDE DEF S
<1>4. /\ x \o y \in Seq(S) /\ Len(x \o y) = Len(x) + Len(y) /\ Len(x) \in Nat /\ Len(y) \in Nat
      /\ \A k \in 1 .. Len(x) + Len(y) :
            (x \o y)[k] = IF k <= Len(x) THEN x[k] ELSE y[k - Len(x)]
  BY <1>3, ConcatProperties
<1>5. /\ DOMAIN x = 1 .. Len(x) /\ DOMAIN y = 1 .. Len(y)
      /\ DOMAIN (x \o y) = 1 .. Len(x) + Len(y)
  BY <1>3, <1>4
<1>6. ASSUME NEW k \in 1 .. Len(x) PROVE k \in 1 .. Len(x) + Len(y) /\ (x \o y)[k] = x[k]
  BY <1>4
<1>7. ASSUME NEW k \in 1 .. Len(y)
      PROVE  Len(x) + k \in 1 .. Len(x) + Len(y) /\ (x \o y)[Len(x) + k] = y[k]
  <2>1. Len(x) + k \in 1 .. Len(x) + Len(y) /\ ~(Len(x) + k <= Len(x)) /\ (Len(x) + k) - Len(x) = k
    BY <1>4
  <2> QED BY <1>4, <2>1
<1>8. ASSUME NEW k \in 1 .. Len(x) + Len(y)
      PROVE  \/ k \in 1 .. Len(x) /\ (x \o y)[k] = x[k]
             \/ k - Len(x) \in 1 .. Len(y) /\ (x \o y)[k] = y[k - Len(x)]
  BY <1>4
<1>9. Fails(x \o y) => Fails(x) \/ Fails(y)
  BY <1>5, <1>8 DEF Fails
<1>10. Fails(x) => Fails(x \o y)
  BY <1>5, <1>6 DEF Fails
<1>11. Fails(y) => Fails(x \o y)
  BY <1>5, <1>7 DEF Fails
<1> QED BY <1>4, <1>9, <1>10, <1>11 DEF IsOps

(* And what is only tried if the first does not fail.                      *)
LEMMA ThenOps ==
    ASSUME NEW x, NEW y, IsOps(x), ~Fails(x) => IsOps(y)
    PROVE  IsOps(Then(x, y)) /\ (Fails(Then(x, y)) <=> Fails(x) \/ Fails(y))
<1>1. CASE Fails(x)
  BY <1>1 DEF Then
<1>2. CASE ~Fails(x)
  <2>1. Then(x, y) = x \o y
    BY <1>2 DEF Then
  <2> QED BY <1>2, <2>1, JoinOps
<1> QED BY <1>1, <1>2

(* A sequence of sequences fails if one of them does.                      *)
LEMMA FlatOps ==
    ASSUME NEW n \in Nat, NEW ss, ss = [i \in 1 .. n |-> ss[i]], \A i \in 1 .. n : IsOps(ss[i])
    PROVE  IsOps(FlattenSeq(ss)) /\ (Fails(FlattenSeq(ss)) <=> \E i \in 1 .. n : Fails(ss[i]))
<1> DEFINE S == UNION {{ss[i][k] : k \in 1 .. Len(ss[i])} : i \in 1 .. n}
           flat == FlattenSeq(ss)
<1>1. ASSUME NEW i \in 1 .. n
      PROVE  ss[i] \in Seq(S) /\ Len(ss[i]) \in Nat /\ DOMAIN ss[i] = 1 .. Len(ss[i])
  <2>1. PICK A : ss[i] \in Seq(A)
    BY DEF IsOps
  <2>2. Len(ss[i]) \in Nat /\ ss[i] = [k \in 1 .. Len(ss[i]) |-> ss[i][k]]
    BY <2>1
  <2>3. \A k \in 1 .. Len(ss[i]) : ss[i][k] \in S
    OBVIOUS
  <2> HIDE DEF S
  <2> QED BY <2>2, <2>3
<1> HIDE DEF S
<1>2. ss \in Seq(Seq(S)) /\ Len(ss) = n
  <2>1. ss \in [1 .. n -> Seq(S)]
    <3>1. [i \in 1 .. n |-> ss[i]] \in [1 .. n -> Seq(S)]
      BY <1>1
    <3> QED BY <3>1, Zenon
  <2> QED BY <2>1
<1>3. flat \in Seq(S) /\ \E block, place : IsMade(flat, ss, n, block, place)
  BY <1>2, Flattened
<1>4. PICK block, place : IsMade(flat, ss, n, block, place)
  BY <1>3
<1>5. ASSUME NEW i \in 1 .. n, Fails(ss[i]) PROVE Fails(flat)
  BY <1>2, <1>5, FlatFails
<1>6. ASSUME Fails(flat) PROVE \E i \in 1 .. n : Fails(ss[i])
  <2> HIDE DEF flat
  <2>1. PICK k \in 1 .. Len(flat) : flat[k].op = "fail"
    <3>1. DOMAIN flat = 1 .. Len(flat)
      BY <1>3
    <3> QED BY <1>6, <3>1 DEF Fails
  <2>2. /\ block[k] \in 1 .. n /\ place[k] \in 1 .. Len(ss[block[k]])
        /\ flat[k] = ss[block[k]][place[k]]
    BY <1>4 DEF IsMade
  <2> QED BY <1>1, <2>1, <2>2 DEF Fails
<1> QED BY <1>3, <1>5, <1>6 DEF IsOps

(* The checks of an item, each against what the format says of it.         *)
LEMMA ItemOps ==
    ASSUME NEW item
    PROVE  /\ \A t \in {"uint", "double", "bool", "text", "bytes", "array", "map", "tag"} :
                 IsOps(OfType(item, t)) /\ (Fails(OfType(item, t)) <=> item.t # t)
           /\ IsOps(Counted(item, "array")) /\ (Fails(Counted(item, "array")) <=> ~IsArray(item))
           /\ IsOps(Counted(item, "map")) /\ (Fails(Counted(item, "map")) <=> ~IsMap(item))
           /\ IsOps(ByteString(item)) /\ (Fails(ByteString(item)) <=> ~IsBytes(item))
           /\ \A n : /\ IsOps(Exactly(item, n))
                     /\ Fails(Exactly(item, n)) <=> ~(IsArray(item) /\ Len(item.elems) = n)
<1>1. ASSUME NEW t \in {"uint", "double", "bool", "text", "bytes", "array", "map", "tag"}
      PROVE  IsOps(OfType(item, t)) /\ (Fails(OfType(item, t)) <=> item.t # t)
  BY OneOps DEF OfType, Expect
<1>2. ASSUME NEW t \in {"array", "map"}
      PROVE  /\ IsOps(Counted(item, t))
             /\ Fails(Counted(item, t)) <=> ~(item.t = t /\ item.v # "chunked")
  <2> DEFINE y == Expect(item.v # "chunked", PARSE)
  <2>1. IsOps(y) /\ (Fails(y) <=> item.v = "chunked")
    BY OneOps DEF Expect
  <2> HIDE DEF y
  <2>2. IsOps(OfType(item, t)) /\ (Fails(OfType(item, t)) <=> item.t # t)
    BY <1>1
  <2>3. Counted(item, t) = Then(OfType(item, t), y)
    BY DEF Counted, y
  <2> QED BY <2>1, <2>2, <2>3, ThenOps
<1>3. IsOps(ByteString(item)) /\ (Fails(ByteString(item)) <=> ~IsBytes(item))
  <2> DEFINE y == CASE item.v = "chunked" -> Fail(PARSE)
                    [] item.v = "cut" -> Fail(DECODE)
                    [] OTHER -> <<>>
  <2>1. IsOps(y) /\ (Fails(y) <=> item.v \in {"cut", "chunked"})
    BY OneOps
  <2> HIDE DEF y
  <2>2. IsOps(OfType(item, "bytes")) /\ (Fails(OfType(item, "bytes")) <=> item.t # "bytes")
    BY <1>1
  <2>3. ByteString(item) = Then(OfType(item, "bytes"), y)
    BY DEF ByteString, y
  <2> QED BY <2>1, <2>2, <2>3, ThenOps DEF IsBytes
<1>4. ASSUME NEW n
      PROVE  /\ IsOps(Exactly(item, n))
             /\ Fails(Exactly(item, n)) <=> ~(IsArray(item) /\ Len(item.elems) = n)
  <2> DEFINE y == Expect(Len(item.elems) = n, PARSE)
  <2>1. IsOps(y) /\ (Fails(y) <=> Len(item.elems) # n)
    BY OneOps DEF Expect
  <2> HIDE DEF y
  <2>2. IsOps(Counted(item, "array")) /\ (Fails(Counted(item, "array")) <=> ~IsArray(item))
    BY <1>2 DEF IsArray
  <2>3. Exactly(item, n) = Then(Counted(item, "array"), y)
    BY DEF Exactly, y
  <2> QED BY <2>1, <2>2, <2>3, ThenOps
<1> QED BY <1>1, <1>2, <1>3, <1>4 DEF IsArray, IsMap

(* A text must also be followed by what was announced.                     *)
LEMMA TextOps ==
    ASSUME NEW elems, NEW i, NEW slot
    PROVE  /\ IsOps(Text(elems, i, slot))
           /\ Fails(Text(elems, i, slot)) <=> ~IsText(elems[i]) \/ EndsAt(elems, i)
<1> DEFINE y == IF elems[i].v = "cut" \/ EndsAt(elems, i) THEN Fail(DECODE) ELSE Dup(slot)
<1>1. IsOps(y) /\ (Fails(y) <=> elems[i].v = "cut" \/ EndsAt(elems, i))
  BY OneOps
<1> HIDE DEF y
<1>2. /\ IsOps(OfType(elems[i], "text"))
      /\ Fails(OfType(elems[i], "text")) <=> elems[i].t # "text"
  BY ItemOps
<1>3. Text(elems, i, slot) = Then(OfType(elems[i], "text"), y)
  BY DEF Text, y
<1> QED BY <1>1, <1>2, <1>3, ThenOps DEF IsText

(* A list of n items of one type.                                          *)
LEMMA ListOps ==
    ASSUME NEW item, NEW n \in Nat,
           NEW t \in {"uint", "double", "bool", "text", "bytes", "array", "map", "tag"}
    PROVE  IsOps(ListOf(item, n, t)) /\ (Fails(ListOf(item, n, t)) <=> ~IsArrayOf(n, t, item))
<1> DEFINE ss == [i \in 1 .. n |-> OfType(item.elems[i], t)]
           y == FlattenSeq(ss)
<1>1. \A i \in 1 .. n : IsOps(ss[i]) /\ (Fails(ss[i]) <=> item.elems[i].t # t)
  BY ItemOps
<1>2. ss = [i \in 1 .. n |-> ss[i]]
  OBVIOUS
<1> HIDE DEF ss
<1>3. IsOps(y) /\ (Fails(y) <=> \E i \in 1 .. n : item.elems[i].t # t)
  BY <1>1, <1>2, FlatOps
<1> HIDE DEF y
<1>4. /\ IsOps(Exactly(item, n))
      /\ Fails(Exactly(item, n)) <=> ~(IsArray(item) /\ Len(item.elems) = n)
  BY ItemOps
<1>5. ListOf(item, n, t) = Then(Exactly(item, n), y)
  BY DEF ListOf, y, ss
<1> QED BY <1>3, <1>4, <1>5, ThenOps DEF IsArrayOf

(* Compressed bytes, and bytes in either form.                             *)
LEMMA BlobOps ==
    ASSUME NEW item, NEW slot
    PROVE  /\ IsOps(Compressed(item, slot)) /\ (Fails(Compressed(item, slot)) <=> ~IsPacked(item))
           /\ IsOps(Bytes(item, slot)) /\ (Fails(Bytes(item, slot)) <=> ~IsBlob(item))
<1>1. ASSUME NEW x
      PROVE  IsOps(Compressed(x, slot)) /\ (Fails(Compressed(x, slot)) <=> ~IsPacked(x))
  <2> DEFINE e == x.elems
             first == Text(e, 1, slot)
             second == OfType(e[2], "uint")
             third == ByteString(e[3])
             done == IF e[1].v \in Algorithms THEN Expect(e[3].v # "short", DECODE)
                                              ELSE Fail(NOT_IMPLEMENTED)
             inner == first \o second \o third
             both == Then(inner, done)
  <2>1. /\ IsOps(first) /\ (Fails(first) <=> ~IsText(e[1]) \/ EndsAt(e, 1))
        /\ IsOps(second) /\ (Fails(second) <=> e[2].t # "uint")
        /\ IsOps(third) /\ (Fails(third) <=> ~IsBytes(e[3]))
    BY TextOps, ItemOps
  <2>2. IsOps(done) /\ (Fails(done) <=> ~(e[1].v \in Algorithms /\ e[3].v # "short"))
    BY OneOps DEF Expect
  <2>3. Compressed(x, slot) = Then(Exactly(x, 3), both)
    BY DEF Compressed
  <2>4. IsOps(Exactly(x, 3)) /\ (Fails(Exactly(x, 3)) <=> ~(IsArray(x) /\ Len(e) = 3))
    BY ItemOps
  <2> HIDE DEF first, second, third, done
  <2>5. /\ IsOps(first \o second)
        /\ Fails(first \o second) <=> Fails(first) \/ Fails(second)
    BY <2>1, JoinOps
  <2>6. IsOps(inner) /\ (Fails(inner) <=> Fails(first) \/ Fails(second) \/ Fails(third))
    BY <2>1, <2>5, JoinOps
  <2> HIDE DEF inner
  <2>7. IsOps(both) /\ (Fails(both) <=> Fails(inner) \/ Fails(done))
    BY <2>2, <2>6, ThenOps
  <2> HIDE DEF both
  <2>8. /\ IsOps(Compressed(x, slot))
        /\ Fails(Compressed(x, slot)) <=> Fails(Exactly(x, 3)) \/ Fails(both)
    BY <2>3, <2>4, <2>7, ThenOps
  <2>9. e[2].t = "uint" => ~EndsAt(e, 1)
    BY DEF EndsAt
  <2>10. e[1].v \in Algorithms => (IsText(e[1]) <=> e[1].t = "text")
    BY DEF IsText, Algorithms
  <2> QED BY <2>1, <2>2, <2>4, <2>6, <2>7, <2>8, <2>9, <2>10 DEF IsPacked
<1>2. CASE item.t = "tag"
  <2>1. Bytes(item, slot) = IF item.n = DECTRIS_COMPRESSION THEN Compressed(item.elems[1], slot)
                                                            ELSE Fail(PARSE)
    BY <1>2 DEF Bytes
  <2>2. IsBlob(item) <=> item.n = DECTRIS_COMPRESSION /\ IsPacked(item.elems[1])
    BY <1>2 DEF IsBlob, IsBytes
  <2> QED BY <1>1, <2>1, <2>2, OneOps
<1>3. CASE item.t # "tag"
  <2> DEFINE y == Clear(slot) \o ByteString(item)
  <2>1. Bytes(item, slot) = Then(OfType(item, "bytes"), y)
    BY <1>3 DEF Bytes
  <2>2. IsOps(y) /\ (Fails(y) <=> ~IsBytes(item))
    BY OneOps, ItemOps, JoinOps
  <2> HIDE DEF y
  <2>3. IsOps(OfType(item, "bytes")) /\ (Fails(OfType(item, "bytes")) <=> item.t # "bytes")
    BY ItemOps
  <2>4. /\ IsOps(Bytes(item, slot))
        /\ Fails(Bytes(item, slot)) <=> item.t # "bytes" \/ ~IsBytes(item)
    BY <2>1, <2>2, <2>3, ThenOps
  <2>5. IsBytes(item) => item.t = "bytes"
    BY DEF IsBytes
  <2>6. IsBlob(item) <=> IsBytes(item)
    BY <1>3 DEF IsBlob, IsBytes
  <2>7. Fails(Bytes(item, slot)) <=> ~IsBlob(item)
    BY <2>4, <2>5, <2>6
  <2>8. IsOps(Compressed(item, slot)) /\ (Fails(Compressed(item, slot)) <=> ~IsPacked(item))
    BY <1>1
  <2> QED BY <2>4, <2>7, <2>8
<1> QED BY <1>1, <1>2, <1>3

(* The size of a number is the one that RFC 8746 lists.                    *)
LEMMA NumberSizes ==
    ASSUME NEW tag \in 64 .. 87
    PROVE  ElemSize(tag) = NumberSize(tag) /\ NumberSize(tag) \in {1, 2, 4, 8, 16}
<1>1. /\ Power(2, 0) = 1 /\ Power(2, 1) = 2 /\ Power(2, 2) = 4 /\ Power(2, 3) = 8
      /\ Power(2, 4) = 16
  <2>1. Power(2, 0) = 1 /\ Power(2, 0 + 1) = 2 * Power(2, 0)
    BY PowerStep
  <2>2. Power(2, 1 + 1) = 2 * Power(2, 1)
    BY PowerStep
  <2>3. Power(2, 2 + 1) = 2 * Power(2, 2)
    BY PowerStep
  <2>4. Power(2, 3 + 1) = 2 * Power(2, 3)
    BY PowerStep
  <2> QED BY <2>1, <2>2, <2>3, <2>4
<1> DEFINE k == ((tag \div 16) % 2) + (tag % 4)
<1>2. /\ tag \in {64, 68, 72, 76} => k = 0
      /\ tag \in {65, 69, 73, 77, 80, 84} => k = 1
      /\ tag \in {66, 70, 74, 78, 81, 85} => k = 2
      /\ tag \in {67, 71, 75, 79, 82, 86} => k = 3
      /\ tag \in {83, 87} => k = 4
  OBVIOUS
<1>3. ElemSize(tag) = Power(2, k)
  BY DEF ElemSize
<1> HIDE DEF k
<1>4. CASE tag \in {64, 68, 72, 76}
  BY <1>1, <1>2, <1>3, <1>4 DEF NumberSize
<1>5. CASE tag \in {65, 69, 73, 77, 80, 84}
  BY <1>1, <1>2, <1>3, <1>5 DEF NumberSize
<1>6. CASE tag \in {66, 70, 74, 78, 81, 85}
  BY <1>1, <1>2, <1>3, <1>6 DEF NumberSize
<1>7. CASE tag \in {67, 71, 75, 79, 82, 86}
  BY <1>1, <1>2, <1>3, <1>7 DEF NumberSize
<1>8. CASE tag \in {83, 87}
  BY <1>1, <1>2, <1>3, <1>8 DEF NumberSize
<1>9. \/ tag \in {64, 68, 72, 76} \/ tag \in {65, 69, 73, 77, 80, 84}
      \/ tag \in {66, 70, 74, 78, 81, 85} \/ tag \in {67, 71, 75, 79, 82, 86}
      \/ tag \in {83, 87}
  OBVIOUS
<1> QED BY <1>4, <1>5, <1>6, <1>7, <1>8, <1>9

(* A typed array, whatever is tagged.                                      *)
LEMMA TypedArrayOps ==
    ASSUME NEW item, NEW slot
    PROVE  /\ IsOps(TypedArray(item, slot))
           /\ Fails(TypedArray(item, slot)) <=> ~IsTypedArray(item)
<1> DEFINE blob == item.elems[1]
           done == IF item.n \in 64 .. 87 THEN Expect(WholeElements(item), PARSE)
                                          ELSE Fail(NOT_IMPLEMENTED)
           more == Then(Bytes(blob, slot), done)
<1>1. /\ IsOps(done)
      /\ Fails(done) <=> ~(item.n \in 64 .. 87 /\ SizeOf(blob) % NumberSize(item.n) = 0)
  <2>1. item.n \in 64 .. 87 => (WholeElements(item) <=> SizeOf(blob) % NumberSize(item.n) = 0)
    BY NumberSizes DEF WholeElements
  <2> QED BY <2>1, OneOps DEF Expect
<1>2. IsOps(Bytes(blob, slot)) /\ (Fails(Bytes(blob, slot)) <=> ~IsBlob(blob))
  BY BlobOps
<1>3. TypedArray(item, slot) = Then(OfType(item, "tag"), more)
  BY DEF TypedArray
<1>4. IsOps(OfType(item, "tag")) /\ (Fails(OfType(item, "tag")) <=> item.t # "tag")
  BY ItemOps
<1> HIDE DEF done
<1>5. IsOps(more) /\ (Fails(more) <=> Fails(Bytes(blob, slot)) \/ Fails(done))
  BY <1>1, <1>2, ThenOps
<1> HIDE DEF more
<1>6. /\ IsOps(TypedArray(item, slot))
      /\ Fails(TypedArray(item, slot)) <=> item.t # "tag" \/ Fails(more)
  BY <1>3, <1>4, <1>5, ThenOps
<1> QED BY <1>1, <1>2, <1>5, <1>6 DEF IsTypedArray, NumberTags

(* The bytes of a blob are a number of Width bits.                         *)
LEMMA SizeIsNat ==
    ASSUME NEW P, IsClosed(P), NEW item \in P, IsTypedArray(item)
    PROVE  SizeOf(item.elems[1]) \in Nat /\ SizeOf(item.elems[1]) < Power(2, Width)
<1> DEFINE blob == item.elems[1]
<1>1. item.elems \in Seq(P) /\ Len(item.elems) = 1
  BY DEF IsClosed, IsTypedArray
<1>2. blob \in P
  BY <1>1
<1> HIDE DEF blob
<1>3. CASE blob.t = "bytes"
  BY <1>2, <1>3 DEF SizeOf, IsClosed, blob
<1>4. CASE blob.t # "bytes"
  <2>1. blob.t = "tag" /\ IsPacked(blob.elems[1])
    BY <1>4 DEF IsTypedArray, IsBlob, IsBytes, blob
  <2>2. blob.elems \in Seq(P) /\ Len(blob.elems) = 1
    BY <1>2, <2>1 DEF IsClosed
  <2>3. blob.elems[1] \in P
    BY <2>2
  <2>4. blob.elems[1].elems \in Seq(P) /\ Len(blob.elems[1].elems) = 3
    BY <2>1, <2>3 DEF IsClosed, IsPacked
  <2>5. blob.elems[1].elems[3] \in P /\ blob.elems[1].elems[3].t = "bytes"
    BY <2>1, <2>4 DEF IsPacked, IsBytes
  <2> QED BY <1>4, <2>5 DEF SizeOf, IsClosed, blob
<1> QED BY <1>3, <1>4

(* The dimensions of an array are numbers, and so are its bytes.           *)
LEMMA MatrixNumbers ==
    ASSUME NEW P, IsClosed(P), NEW item \in P, item.t = "tag",
           Len(item.elems[1].elems) = 2, IsArrayOf(2, "uint", item.elems[1].elems[1]),
           IsTypedArray(item.elems[1].elems[2])
    PROVE  LET dims == item.elems[1].elems[1]
               numbers == item.elems[1].elems[2]
           IN  /\ dims.elems[1].n \in Nat /\ dims.elems[2].n \in Nat
               /\ SizeOf(numbers.elems[1]) \in Nat /\ SizeOf(numbers.elems[1]) < Power(2, Width)
<1> DEFINE pair == item.elems[1]
           dims == pair.elems[1]
           numbers == pair.elems[2]
<1>1. pair \in P
  <2>1. item.elems \in Seq(P) /\ Len(item.elems) = 1
    BY DEF IsClosed
  <2> QED BY <2>1
<1>2. dims \in P /\ numbers \in P
  <2>1. pair.elems \in Seq(P)
    BY <1>1 DEF IsClosed
  <2> QED BY <2>1
<1>3. dims.elems[1].n \in Nat /\ dims.elems[2].n \in Nat
  <2>1. dims.elems \in Seq(P) /\ Len(dims.elems) = 2
    BY <1>2 DEF IsClosed, IsArrayOf
  <2>2. dims.elems[1] \in P /\ dims.elems[2] \in P
    BY <2>1
  <2> QED BY <2>2 DEF IsClosed
<1> QED BY <1>2, <1>3, SizeIsNat

(* A multi-dimensional array: that the product of its dimensions is the    *)
(* number of its elements can be said without dividing.                    *)
LEMMA MatrixOps ==
    ASSUME NEW P, IsClosed(P), NEW item \in P, NEW slot
    PROVE  /\ IsOps(MultidimArray(item, slot))
           /\ Fails(MultidimArray(item, slot)) <=> ~IsMatrix(TRUE, item)
<1> DEFINE pair == item.elems[1]
           dims == pair.elems[1]
           numbers == pair.elems[2]
           f == Expect(DimsAgree(dims.elems, numbers), PARSE)
           e == Then(TypedArray(numbers, slot), f)
           d == Then(ListOf(dims, 2, "uint"), e)
           c == Then(Exactly(pair, 2), d)
           b == Then(Expect(item.n = MULTI_DIMENSIONAL_ARRAY_ROW_MAJOR, PARSE), c)
<1>1. MultidimArray(item, slot) = Then(OfType(item, "tag"), b)
  BY DEF MultidimArray
<1>2. IsOps(f) /\ (Fails(f) <=> ~DimsAgree(dims.elems, numbers))
  BY OneOps DEF Expect
<1> HIDE DEF f
<1>3. IsOps(e) /\ (Fails(e) <=> ~IsTypedArray(numbers) \/ Fails(f))
  BY <1>2, TypedArrayOps, ThenOps
<1> HIDE DEF e
<1>4. IsOps(d) /\ (Fails(d) <=> ~IsArrayOf(2, "uint", dims) \/ Fails(e))
  BY <1>3, ListOps, ThenOps
<1> HIDE DEF d
<1>5. IsOps(c) /\ (Fails(c) <=> ~(IsArray(pair) /\ Len(pair.elems) = 2) \/ Fails(d))
  <2>1. IsOps(Exactly(pair, 2)) /\ (Fails(Exactly(pair, 2)) <=> ~(IsArray(pair) /\ Len(pair.elems) = 2))
    BY ItemOps
  <2> HIDE DEF pair
  <2> QED BY <1>4, <2>1, ThenOps
<1> HIDE DEF c
<1>6. IsOps(b) /\ (Fails(b) <=> item.n # MULTI_DIMENSIONAL_ARRAY_ROW_MAJOR \/ Fails(c))
  <2>1. /\ IsOps(Expect(item.n = MULTI_DIMENSIONAL_ARRAY_ROW_MAJOR, PARSE))
        /\ Fails(Expect(item.n = MULTI_DIMENSIONAL_ARRAY_ROW_MAJOR, PARSE))
               <=> item.n # MULTI_DIMENSIONAL_ARRAY_ROW_MAJOR
    BY OneOps DEF Expect
  <2> QED BY <1>5, <2>1, ThenOps
<1> HIDE DEF b
<1>7. /\ IsOps(MultidimArray(item, slot))
      /\ Fails(MultidimArray(item, slot)) <=> item.t # "tag" \/ Fails(b)
  BY <1>1, <1>6, ItemOps, ThenOps
<1>8. ASSUME item.t = "tag", IsArray(pair), Len(pair.elems) = 2, IsArrayOf(2, "uint", dims),
             IsTypedArray(numbers)
      PROVE  DimsAgree(dims.elems, numbers) <=>
                 Product(TRUE, dims.elems[1].n, dims.elems[2].n) * NumberSize(numbers.n) =
                     SizeOf(numbers.elems[1])
  <2> DEFINE x == dims.elems[1].n
             y == dims.elems[2].n
             size == SizeOf(numbers.elems[1])
             unit == NumberSize(numbers.n)
             product == Product(TRUE, x, y)
  <2>1. x \in Nat /\ y \in Nat /\ size \in Nat /\ size % unit = 0
    BY <1>8, MatrixNumbers DEF IsTypedArray
  <2>2. product \in Nat
    <3>1. Power(2, Width) \in Nat \ {0}
      BY PowerPositive, MessagesAssumption DEF MessagesAssumption
    <3>2. x * y \in Nat
      BY <2>1
    <3> QED BY <3>1, <3>2, Division DEF Product
  <2>3. unit \in {1, 2, 4, 8, 16} /\ (DimsAgree(dims.elems, numbers) <=> product = size \div unit)
    BY <1>8, NumberSizes DEF IsTypedArray, NumberTags, DimsAgree, Product
  <2> HIDE DEF x, y, size, unit, product
  <2>4. product = size \div unit <=> product * unit = size
    BY <2>1, <2>2, <2>3
  <2> QED BY <2>3, <2>4 DEF x, y, size, unit, product
<1> QED BY <1>2, <1>3, <1>4, <1>5, <1>6, <1>7, <1>8 DEF IsMatrix

(* Maps, of texts to energies or arrays: an entry that is missing would be *)
(* neither.                                                                *)
LEMMA TextMapOps ==
    ASSUME NEW P, IsClosed(P), NEW item \in P, NEW key, NEW kind \in {"energies", "arrays"}
    PROVE  /\ IsOps(TextMap(key, item, kind))
           /\ Fails(TextMap(key, item, kind)) <=>
                 ~(IsMap(item) /\ \A j \in Indices(item.elems) :
                       /\ IsText(KeyAt(item.elems, j))
                       /\ IF kind = "energies" THEN ValueAt(item.elems, j).t = "double"
                                               ELSE IsMatrix(TRUE, ValueAt(item.elems, j)))
<1> DEFINE e == item.elems
           n == Len(e) \div 2
           Good(j) == /\ IsText(KeyAt(e, j))
                      /\ IF kind = "energies" THEN ValueAt(e, j).t = "double"
                                              ELSE IsMatrix(TRUE, ValueAt(e, j))
           ss == [i \in 1 .. n |->
                    Text(e, 2 * i - 1, <<key, i, "channel">>)
                        \o Entry(kind, e[2 * i], <<key, i, "algorithm">>)]
           y == Calloc(key, n) \o FlattenSeq(ss)
<1>1. TextMap(key, item, kind) = Then(Counted(item, "map"), y)
  BY DEF TextMap
<1>2. IsOps(Counted(item, "map")) /\ (Fails(Counted(item, "map")) <=> ~IsMap(item))
  BY ItemOps
<1>3. e \in Seq(P) /\ Len(e) \in Nat /\ n \in Nat
  <2>1. e \in Seq(P)
    BY DEF IsClosed
  <2>2. Len(e) \in Nat
    BY <2>1
  <2>3. n \in Nat
    BY <2>2, Half
  <2> QED BY <2>1, <2>2, <2>3
<1>4. ASSUME NEW i \in 1 .. n
      PROVE  IsOps(ss[i]) /\ (Fails(ss[i]) <=> ~Good(i))
  <2>1. 2 * i \in 1 .. Len(e) /\ e[2 * i] \in P
    <3>1. 2 * i \in 1 .. Len(e)
      BY <1>3, Half
    <3> QED BY <1>3, <3>1
  <2> DEFINE text == Text(e, 2 * i - 1, <<key, i, "channel">>)
             slot == <<key, i, "algorithm">>
             entry == Entry(kind, e[2 * i], slot)
  <2>2. IsOps(text) /\ (Fails(text) <=> ~IsText(KeyAt(e, i)) \/ EndsAt(e, 2 * i - 1))
    BY TextOps DEF KeyAt
  <2> HIDE DEF slot
  <2>3. IsOps(OfType(e[2 * i], "double")) /\ (Fails(OfType(e[2 * i], "double")) <=> e[2 * i].t # "double")
    BY ItemOps
  <2>4. /\ IsOps(MultidimArray(e[2 * i], slot))
        /\ Fails(MultidimArray(e[2 * i], slot)) <=> ~IsMatrix(TRUE, e[2 * i])
    BY <2>1, MatrixOps
  <2>5. /\ IsOps(entry)
        /\ Fails(entry) <=> ~(IF kind = "energies" THEN ValueAt(e, i).t = "double"
                                                   ELSE IsMatrix(TRUE, ValueAt(e, i)))
    <3>1. CASE kind = "energies"
      BY <2>3, <3>1 DEF Entry, ValueAt
    <3>2. CASE kind # "energies"
      BY <2>4, <3>2 DEF Entry, ValueAt
    <3> QED BY <3>1, <3>2
  <2>6. EndsAt(e, 2 * i - 1) => e[2 * i].t = "end"
    <3>1. (2 * i - 1) + 1 = 2 * i
      OBVIOUS
    <3> QED BY <3>1 DEF EndsAt
  <2>7. e[2 * i].t = "end" => ~IsMatrix(TRUE, e[2 * i]) /\ e[2 * i].t # "double"
    BY DEF IsMatrix
  <2>8. EndsAt(e, 2 * i - 1) => Fails(entry)
    BY <2>5, <2>6, <2>7 DEF ValueAt
  <2>9. ss[i] = text \o entry
    BY DEF slot
  <2> HIDE DEF text, entry, ss
  <2>10. IsOps(ss[i]) /\ (Fails(ss[i]) <=> Fails(text) \/ Fails(entry))
    BY <2>2, <2>5, <2>9, JoinOps
  <2> QED BY <2>2, <2>5, <2>8, <2>10
<1>5. ss = [i \in 1 .. n |-> ss[i]]
  OBVIOUS
<1> HIDE DEF ss, Good
<1>6. IsOps(FlattenSeq(ss)) /\ (Fails(FlattenSeq(ss)) <=> \E i \in 1 .. n : ~Good(i))
  <2>1. \A i \in 1 .. n : IsOps(ss[i])
    BY <1>4
  <2>2. IsOps(FlattenSeq(ss)) /\ (Fails(FlattenSeq(ss)) <=> \E i \in 1 .. n : Fails(ss[i]))
    BY <1>3, <1>5, <2>1, FlatOps
  <2> QED BY <1>4, <2>2
<1>7. IsOps(y) /\ (Fails(y) <=> \E i \in 1 .. n : ~Good(i))
  <2>1. IsOps(Calloc(key, n)) /\ ~Fails(Calloc(key, n))
    BY OneOps
  <2>2. IsOps(y) /\ (Fails(y) <=> Fails(Calloc(key, n)) \/ Fails(FlattenSeq(ss)))
    BY <1>6, <2>1, JoinOps
  <2> QED BY <1>6, <2>1, <2>2
<1> HIDE DEF y
<1>8. /\ IsOps(TextMap(key, item, kind))
      /\ Fails(TextMap(key, item, kind)) <=> ~IsMap(item) \/ \E i \in 1 .. n : ~Good(i)
  BY <1>1, <1>2, <1>7, ThenOps
<1>9. Indices(e) = 1 .. n
  BY DEF Indices
<1> QED BY <1>8, <1>9 DEF Good

(* Lists of texts: what is missing is no text.                             *)
LEMMA TextsOps ==
    ASSUME NEW P, IsClosed(P), NEW item \in P, NEW key
    PROVE  /\ IsOps(Texts(key, item))
           /\ Fails(Texts(key, item)) <=>
                 ~(IsArray(item) /\ \A i \in 1 .. Len(item.elems) : IsText(item.elems[i]))
<1> DEFINE e == item.elems
           n == Len(e)
           ss == [i \in 1 .. n |-> Text(e, i, <<key, i, "channel">>)]
           y == Calloc(key, n) \o FlattenSeq(ss)
<1>1. n \in Nat /\ DOMAIN e = 1 .. n
  <2>1. e \in Seq(P)
    BY DEF IsClosed
  <2> QED BY <2>1
<1>2. Texts(key, item) = Then(Counted(item, "array"), y)
  BY <1>1 DEF Texts
<1>3. IsOps(Counted(item, "array")) /\ (Fails(Counted(item, "array")) <=> ~IsArray(item))
  BY ItemOps
<1>4. \A i \in 1 .. n : IsOps(ss[i]) /\ (Fails(ss[i]) <=> ~IsText(e[i]) \/ EndsAt(e, i))
  BY TextOps
<1>5. ss = [i \in 1 .. n |-> ss[i]]
  OBVIOUS
<1> HIDE DEF ss
<1>6. IsOps(FlattenSeq(ss)) /\ (Fails(FlattenSeq(ss)) <=> \E i \in 1 .. n : Fails(ss[i]))
  BY <1>1, <1>4, <1>5, FlatOps
<1>7. (\E i \in 1 .. n : Fails(ss[i])) <=> \E i \in 1 .. n : ~IsText(e[i])
  <2>1. ASSUME NEW i \in 1 .. n, EndsAt(e, i)
        PROVE  i + 1 \in 1 .. n /\ ~IsText(e[i + 1])
    BY <1>1, <2>1 DEF EndsAt, IsText
  <2> QED BY <1>4, <2>1
<1>8. IsOps(y) /\ (Fails(y) <=> \E i \in 1 .. n : ~IsText(e[i]))
  BY <1>6, <1>7, OneOps, JoinOps
<1> HIDE DEF y
<1> QED BY <1>2, <1>3, <1>8, ThenOps

(* The value of a key, or what the parser takes for it.                    *)
LEMMA KeyValueOps ==
    ASSUME NEW key, NEW value, NEW ops, IsOps(ops)
    PROVE  /\ IsOps(KeyValue(key, value, ops))
           /\ Fails(KeyValue(key, value, ops)) <=>
                 value.t # "break" /\ (key.v = "cut" \/ value.t = "end" \/ Fails(ops))
<1>1. CASE value.t = "break"
  BY <1>1, OneOps DEF KeyValue
<1>2. CASE value.t # "break" /\ key.v = "cut"
  BY <1>2, OneOps DEF KeyValue
<1>3. CASE value.t = "end" /\ key.v # "cut"
  BY <1>3, OneOps DEF KeyValue
<1>4. CASE value.t \notin {"break", "end"} /\ key.v # "cut"
  BY <1>4 DEF KeyValue
<1> QED BY <1>1, <1>2, <1>3, <1>4

(* To skip an item fails if it cannot be read.                             *)
LEMMA SkipOps ==
    ASSUME NEW item
    PROVE  IsOps(Skip(item)) /\ (Fails(Skip(item)) <=> ~Readable(item))
<1>1. item.t = "past" => ~Readable(item)
  BY RootIsPart DEF Readable
<1> QED BY <1>1, OneOps DEF Skip, Expect

(* The keys of a map, where Good are the indices of the values that are as *)
(* they should be: a value or a key that is missing is not.                *)
LEMMA KeyedOps ==
    ASSUME NEW P, NEW elems \in Seq(P), Len(elems) % 2 = 0, NEW fields, NEW Good,
           \A j \in Indices(elems) :
               /\ IsOps(fields[j])
               /\ j \in Good => ValueAt(elems, j).t # "end"
               /\ j \notin Good => Fails(fields[j])
               /\ Fails(fields[j]) => j \notin Good \/ EndsAt(elems, 2 * j)
    PROVE  /\ IsOps(Keyed(elems, fields))
           /\ Fails(Keyed(elems, fields)) <=>
                 ~\A j \in Indices(elems) :
                      \/ IsLost(TRUE, KeyAt(elems, j), ValueAt(elems, j))
                      \/ IsText(KeyAt(elems, j)) /\ j \in Good
<1> DEFINE n == Len(elems) \div 2
           ss == [j \in 1 .. n |-> Slice(elems, fields, j)]
           Fine(j) == \/ IsLost(TRUE, KeyAt(elems, j), ValueAt(elems, j))
                      \/ IsText(KeyAt(elems, j)) /\ j \in Good
           Bad(j) == \/ KeyAt(elems, j).v = "cut" \/ ValueAt(elems, j).t = "end"
                     \/ Fails(fields[j])
<1>1. Len(elems) \in Nat /\ n \in Nat /\ Len(elems) = 2 * n /\ Indices(elems) = 1 .. n
  <2>1. Len(elems) \in Nat
    OBVIOUS
  <2>2. n \in Nat /\ Len(elems) = 2 * n
    BY <2>1
  <2> QED BY <2>1, <2>2 DEF Indices
<1>2. ASSUME NEW j \in 1 .. n
      PROVE  /\ IsOps(ss[j])
             /\ Fails(ss[j]) <=> \/ KeyAt(elems, j).t # "text" \/ EndsAt(elems, 2 * j)
                                 \/ ValueAt(elems, j).t # "break" /\ Bad(j)
  <2> DEFINE first == OfType(elems[2 * j - 1], "text")
             value == KeyValue(elems[2 * j - 1], elems[2 * j], fields[j])
             after == Expect(~EndsAt(elems, 2 * j), DECODE)
             rest == Then(value, after)
  <2>1. IsOps(first) /\ (Fails(first) <=> KeyAt(elems, j).t # "text")
    BY ItemOps DEF KeyAt
  <2>2. IsOps(after) /\ (Fails(after) <=> EndsAt(elems, 2 * j))
    BY OneOps DEF Expect
  <2>3. IsOps(value) /\ (Fails(value) <=> ValueAt(elems, j).t # "break" /\ Bad(j))
    BY <1>1, KeyValueOps DEF KeyAt, ValueAt
  <2>4. ss[j] = Then(first, rest)
    BY DEF Slice
  <2> HIDE DEF first, value, after, ss, Bad
  <2>5. IsOps(rest) /\ (Fails(rest) <=> Fails(value) \/ Fails(after))
    BY <2>2, <2>3, ThenOps
  <2> HIDE DEF rest
  <2> QED BY <2>1, <2>2, <2>3, <2>4, <2>5, ThenOps
<1>3. ss = [j \in 1 .. n |-> ss[j]]
  OBVIOUS
<1>4. Keyed(elems, fields) = FlattenSeq(ss)
  BY DEF Keyed, Slice
<1> HIDE DEF ss
<1>5. IsOps(FlattenSeq(ss)) /\ (Fails(FlattenSeq(ss)) <=> \E j \in 1 .. n : Fails(ss[j]))
  BY <1>1, <1>2, <1>3, FlatOps
<1>6. ASSUME NEW j \in 1 .. n, ~Fine(j) PROVE Fails(ss[j])
  BY <1>1, <1>2, <1>6 DEF IsLost, IsText
<1>7. ASSUME NEW j \in 1 .. n, Fails(ss[j]) PROVE \E i \in 1 .. n : ~Fine(i)
  <2>1. CASE EndsAt(elems, 2 * j)
    <3>1. j + 1 \in 1 .. n /\ 2 * (j + 1) - 1 = 2 * j + 1
      BY <1>1, <2>1 DEF EndsAt
    <3>2. KeyAt(elems, j + 1).t = "end"
      BY <2>1, <3>1 DEF EndsAt, KeyAt
    <3>3. ~Fine(j + 1)
      BY <3>2 DEF IsLost, IsText
    <3> QED BY <3>1, <3>3
  <2>2. CASE ~EndsAt(elems, 2 * j)
    <3>1. ~Fine(j)
      BY <1>1, <1>2, <1>7, <2>2 DEF IsLost, IsText
    <3> QED BY <3>1
  <2> QED BY <2>1, <2>2
<1>8. Fails(FlattenSeq(ss)) <=> \E j \in 1 .. n : ~Fine(j)
  BY <1>5, <1>6, <1>7
<1> QED BY <1>1, <1>4, <1>5, <1>8

(* A missing value is neither readable nor of a type.                      *)
LEMMA EndIsNothing ==
    ASSUME NEW item, item.t = "end"
    PROVE  Untagged(item).t = "end" /\ ~Readable(item)
<1>1. Untagged(item) = item
  BY DEF Untagged
<1>2. item \in Parts(item)
  BY RootIsPart
<1> QED BY <1>1, <1>2 DEF Readable

(* The map of an axis, and its fields.                                     *)
LEMMA AxisOps ==
    ASSUME NEW P, IsClosed(P), NEW item \in P, item.t = "map"
    PROVE  LET ops == Keyed(item.elems, [j \in 1 .. Len(item.elems) \div 2 |->
                                            AxisField(item.elems, 2 * j)])
           IN  IsOps(ops) /\ (Fails(ops) <=> ~IsAxis(TRUE, item))
<1> DEFINE e == item.elems
           n == Len(e) \div 2
           fields == [j \in 1 .. n |-> AxisField(e, 2 * j)]
           value(j) == Untagged(ValueAt(e, j))
           Fine(j) == IF KeyAt(e, j).v \in DOMAIN Axis THEN value(j).t = "double"
                                                       ELSE Readable(value(j))
           Good == {j \in 1 .. n : Fine(j)}
<1>1. e \in Seq(P) /\ Len(e) % 2 = 0 /\ Indices(e) = 1 .. n
  BY DEF IsClosed, Indices
<1>2. ASSUME NEW j \in 1 .. n
      PROVE  IsOps(fields[j]) /\ (Fails(fields[j]) <=> ~Fine(j))
  <2> DEFINE v == value(j)
             k == KeyAt(e, j).v
  <2>1. e[2 * j - 1].v = k /\ Untagged(e[2 * j]) = v
    BY DEF KeyAt, ValueAt
  <2>2. Kind(Axis, k) = "double" <=> k \in DOMAIN Axis
    BY DEF Kind, Axis
  <2>3. fields[j] = IF v.t = "end" THEN Fail(DECODE)
                    ELSE CASE Kind(Axis, k) = "double" -> OfType(v, "double")
                           [] OTHER -> Skip(v)
    BY <2>1 DEF AxisField
  <2>4. v.t = "end" => ~Readable(v)
    BY EndIsNothing
  <2>5. Fine(j) <=> IF k \in DOMAIN Axis THEN v.t = "double" ELSE Readable(v)
    OBVIOUS
  <2> HIDE DEF v, k, Fine, fields
  <2>6. CASE v.t = "end"
    <3>1. ~Fine(j) /\ fields[j] = Fail(DECODE)
      BY <2>3, <2>4, <2>5, <2>6
    <3> QED BY <3>1, OneOps
  <2>7. CASE v.t # "end" /\ k \in DOMAIN Axis
    <3>1. fields[j] = OfType(v, "double")
      BY <2>2, <2>3, <2>7
    <3> QED BY <2>5, <2>7, <3>1, ItemOps
  <2>8. CASE v.t # "end" /\ k \notin DOMAIN Axis
    <3>1. fields[j] = Skip(v)
      BY <2>2, <2>3, <2>8
    <3>2. IsOps(Skip(v)) /\ (Fails(Skip(v)) <=> ~Readable(v))
      BY SkipOps
    <3> QED BY <2>5, <2>8, <3>1, <3>2
  <2> QED BY <2>6, <2>7, <2>8
<1>3. ASSUME NEW j \in 1 .. n, Fine(j) PROVE ValueAt(e, j).t # "end"
  <2>1. ValueAt(e, j).t = "end" => value(j).t = "end" /\ ~Readable(value(j))
    BY EndIsNothing
  <2> QED BY <1>3, <2>1
<1> HIDE DEF fields, Fine
<1>4. \A j \in Indices(e) :
          /\ IsOps(fields[j])
          /\ j \in Good => ValueAt(e, j).t # "end"
          /\ j \notin Good => Fails(fields[j])
          /\ Fails(fields[j]) => j \notin Good \/ EndsAt(e, 2 * j)
  BY <1>1, <1>2, <1>3
<1>5. /\ IsOps(Keyed(e, fields))
      /\ Fails(Keyed(e, fields)) <=>
            ~\A j \in Indices(e) : \/ IsLost(TRUE, KeyAt(e, j), ValueAt(e, j))
                                   \/ IsText(KeyAt(e, j)) /\ j \in Good
  BY <1>1, <1>4, KeyedOps
<1>6. IsAxis(TRUE, item) <=>
          \A j \in Indices(e) : \/ IsLost(TRUE, KeyAt(e, j), ValueAt(e, j))
                                \/ IsText(KeyAt(e, j)) /\ j \in Good
  BY <1>1 DEF IsAxis, Fine
<1> QED BY <1>5, <1>6 DEF fields

(* The map of the goniometer, and its axes.                                *)
LEMMA GoniometerOps ==
    ASSUME NEW P, IsClosed(P), NEW item \in P, item.t = "map"
    PROVE  LET ops == Keyed(item.elems, [j \in 1 .. Len(item.elems) \div 2 |->
                                            GoniometerField(item.elems, 2 * j)])
           IN  IsOps(ops) /\ (Fails(ops) <=> ~IsGoniometer(TRUE, item))
<1> DEFINE e == item.elems
           n == Len(e) \div 2
           fields == [j \in 1 .. n |-> GoniometerField(e, 2 * j)]
           value(j) == Untagged(ValueAt(e, j))
           Fine(j) == IF KeyAt(e, j).v \in DOMAIN Goniometer THEN IsAxis(TRUE, value(j))
                                                             ELSE Readable(value(j))
           Good == {j \in 1 .. n : Fine(j)}
<1>1. e \in Seq(P) /\ Len(e) % 2 = 0 /\ Indices(e) = 1 .. n /\ Len(e) \in Nat
  <2>1. e \in Seq(P) /\ Len(e) % 2 = 0
    BY DEF IsClosed
  <2>2. Len(e) \in Nat
    BY <2>1
  <2>3. Indices(e) = 1 .. n
    BY DEF Indices
  <2> QED BY <2>1, <2>2, <2>3
<1>2. ASSUME NEW j \in 1 .. n
      PROVE  IsOps(fields[j]) /\ (Fails(fields[j]) <=> ~Fine(j))
  <2> DEFINE v == value(j)
             k == KeyAt(e, j).v
             axis == Keyed(v.elems, [i \in 1 .. Len(v.elems) \div 2 |-> AxisField(v.elems, 2 * i)])
  <2>1. e[2 * j - 1].v = k /\ Untagged(e[2 * j]) = v
    BY DEF KeyAt, ValueAt
  <2>2. Kind(Goniometer, k) = "axis" <=> k \in DOMAIN Goniometer
    BY DEF Kind, Goniometer
  <2>3. fields[j] = IF v.t = "end" THEN Fail(DECODE)
                    ELSE CASE Kind(Goniometer, k) = "axis" -> Then(OfType(v, "map"), axis)
                           [] OTHER -> Skip(v)
    BY <2>1 DEF GoniometerField
  <2>4. v.t = "end" => ~Readable(v)
    BY EndIsNothing
  <2>5. Fine(j) <=> IF k \in DOMAIN Goniometer THEN IsAxis(TRUE, v) ELSE Readable(v)
    OBVIOUS
  <2>6. v \in P
    <3>1. e[2 * j] \in P
      <4>1. 2 * j \in 1 .. Len(e)
        BY <1>1, Half
      <4> QED BY <1>1, <4>1
    <3> QED BY <2>1, <3>1, UntaggedIsPart
  <2>7. v.t = "map" => IsOps(axis) /\ (Fails(axis) <=> ~IsAxis(TRUE, v))
    BY <2>6, AxisOps
  <2> HIDE DEF v, k, Fine, fields, axis
  <2>8. IsAxis(TRUE, v) => v.t = "map"
    BY DEF IsAxis
  <2>9. CASE v.t = "end"
    <3>1. ~Fine(j) /\ fields[j] = Fail(DECODE)
      BY <2>3, <2>4, <2>5, <2>8, <2>9
    <3> QED BY <3>1, OneOps
  <2>10. CASE v.t # "end" /\ k \in DOMAIN Goniometer
    <3>1. fields[j] = Then(OfType(v, "map"), axis)
      BY <2>2, <2>3, <2>10
    <3>2. IsOps(OfType(v, "map")) /\ (Fails(OfType(v, "map")) <=> v.t # "map")
      BY ItemOps
    <3>3. IsOps(fields[j]) /\ (Fails(fields[j]) <=> v.t # "map" \/ Fails(axis))
      BY <2>7, <3>1, <3>2, ThenOps
    <3> QED BY <2>5, <2>7, <2>8, <2>10, <3>3
  <2>11. CASE v.t # "end" /\ k \notin DOMAIN Goniometer
    <3>1. fields[j] = Skip(v)
      BY <2>2, <2>3, <2>11
    <3>2. IsOps(Skip(v)) /\ (Fails(Skip(v)) <=> ~Readable(v))
      BY SkipOps
    <3> QED BY <2>5, <2>11, <3>1, <3>2
  <2> QED BY <2>9, <2>10, <2>11
<1>3. ASSUME NEW j \in 1 .. n, Fine(j) PROVE ValueAt(e, j).t # "end"
  <2>1. ValueAt(e, j).t = "end" => value(j).t = "end" /\ ~Readable(value(j))
    BY EndIsNothing
  <2>2. IsAxis(TRUE, value(j)) => value(j).t = "map"
    BY DEF IsAxis
  <2> QED BY <1>3, <2>1, <2>2
<1> HIDE DEF fields, Fine
<1>4. \A j \in Indices(e) :
          /\ IsOps(fields[j])
          /\ j \in Good => ValueAt(e, j).t # "end"
          /\ j \notin Good => Fails(fields[j])
          /\ Fails(fields[j]) => j \notin Good \/ EndsAt(e, 2 * j)
  BY <1>1, <1>2, <1>3
<1>5. /\ IsOps(Keyed(e, fields))
      /\ Fails(Keyed(e, fields)) <=>
            ~\A j \in Indices(e) : \/ IsLost(TRUE, KeyAt(e, j), ValueAt(e, j))
                                   \/ IsText(KeyAt(e, j)) /\ j \in Good
  BY <1>1, <1>4, KeyedOps
<1>6. IsGoniometer(TRUE, item) <=>
          \A j \in Indices(e) : \/ IsLost(TRUE, KeyAt(e, j), ValueAt(e, j))
                                \/ IsText(KeyAt(e, j)) /\ j \in Good
  BY <1>1 DEF IsGoniometer, Fine
<1> QED BY <1>5, <1>6 DEF fields

(* The value of a key of a message.  A text, which is the only value that  *)
(* looks past its own end, also fails if nothing is there.                 *)
LEMMA FieldOps ==
    ASSUME NEW P, IsClosed(P), NEW elems \in Seq(P), NEW i \in 2 .. Len(elems),
           NEW type \in {"start", "image", "end"}
    PROVE  LET ops == MsgField(type, elems, i)
               ofKind == IsOfKind(TRUE, Kind(Fields[type], elems[i - 1].v), elems[i])
           IN  /\ IsOps(ops)
               /\ ofKind => elems[i].t # "end"
               /\ ~ofKind => Fails(ops)
               /\ Fails(ops) => ~ofKind \/ EndsAt(elems, i)
<1> DEFINE key == elems[i - 1].v
           kind == Kind(Fields[type], key)
           value == elems[i]
           item == Untagged(value)
           e == item.elems
           ops == MsgField(type, elems, i)
           ofKind == IsOfKind(TRUE, kind, value)
           keyed == Keyed(item.elems, [j \in 1 .. Len(item.elems) \div 2 |->
                                          GoniometerField(item.elems, 2 * j)])
           shown == [elems EXCEPT ![i] = item]
<1>1. value \in P /\ item \in P
  <2>1. i \in 1 .. Len(elems)
    OBVIOUS
  <2>2. value \in P
    BY <2>1, ElementOfSeq
  <2> QED BY <2>2, UntaggedIsPart
<1>2. kind \in FieldKinds
  BY StartKinds, OtherKinds DEF IsKindOf
<1>3. /\ kind = "table" => ops = TypedArray(value, <<key, 0, "algorithm">>)
      /\ kind # "table" =>
            IF item.t = "end" THEN ops = Fail(DECODE)
            ELSE /\ kind \in {"uint", "double", "bool"} => ops = OfType(item, kind)
                 /\ kind = "text" => ops = Text(shown, i, <<key, 0, "">>)
                 /\ kind = "pair" => ops = ListOf(item, 2, "uint")
                 /\ kind = "triple" => ops = ListOf(item, 3, "double")
                 /\ kind = "texts" => ops = Texts(key, item)
                 /\ kind \in {"energies", "arrays"} => ops = TextMap(key, item, kind)
                 /\ kind = "goniometer" => ops = Then(OfType(item, "map"), keyed)
                 /\ kind = "any" => ops = Skip(item)
  <2> HIDE DEF key, kind, value, item, keyed, shown
  <2> QED BY DEF MsgField, key, kind, value, item, keyed, shown
<1>4. /\ kind \in {"uint", "double", "bool"} => (ofKind <=> item.t = kind)
      /\ kind = "text" => (ofKind <=> IsText(item))
      /\ kind = "pair" => (ofKind <=> IsArrayOf(2, "uint", item))
      /\ kind = "triple" => (ofKind <=> IsArrayOf(3, "double", item))
      /\ kind = "texts" => (ofKind <=> IsArray(item) /\ \A j \in 1 .. Len(e) : IsText(e[j]))
      /\ kind = "energies" => (ofKind <=> IsMap(item) /\ \A j \in Indices(e) :
             IsText(KeyAt(e, j)) /\ ValueAt(e, j).t = "double")
      /\ kind = "arrays" => (ofKind <=> IsMap(item) /\ \A j \in Indices(e) :
             IsText(KeyAt(e, j)) /\ IsMatrix(TRUE, ValueAt(e, j)))
      /\ kind = "table" => (ofKind <=> IsTypedArray(value))
      /\ kind = "goniometer" => (ofKind <=> IsGoniometer(TRUE, item))
      /\ kind = "any" => (ofKind <=> Readable(item))
  <2> HIDE DEF key, kind, value, item
  <2> QED BY DEF IsOfKind, item
<1>5. /\ shown[i] = item
      /\ EndsAt(shown, i) <=> EndsAt(elems, i)
  <2>1. Len(elems) \in Nat /\ DOMAIN elems = 1 .. Len(elems)
    OBVIOUS
  <2>2. i \in DOMAIN elems
    BY <2>1
  <2>3. shown[i] = item
    BY <2>2
  <2>4. Len(shown) = Len(elems)
    <3>1. shown \in Seq(P)
      BY <1>1
    <3> HIDE DEF item
    <3> QED BY <2>1, <3>1
  <2>5. i < Len(elems) => shown[i + 1] = elems[i + 1]
    BY <2>1
  <2> HIDE DEF shown
  <2> QED BY <2>3, <2>4, <2>5 DEF EndsAt
<1>6. value.t = "end" => item.t = "end"
  BY EndIsNothing
<1>7. item.t = "end" => ~Readable(item)
  BY EndIsNothing
<1> SUFFICES /\ IsOps(ops)
             /\ ofKind => value.t # "end"
             /\ ~ofKind => Fails(ops)
             /\ Fails(ops) => ~ofKind \/ EndsAt(elems, i)
  BY DEF ops, ofKind
<1> HIDE DEF key, kind, value, item, e, ops, ofKind, keyed, shown
<1>8. item.t = "end" => /\ item.t \notin {"uint", "double", "bool"} /\ ~IsText(item)
                        /\ ~IsArray(item) /\ ~IsMap(item) /\ ~IsGoniometer(TRUE, item)
                        /\ ~IsArrayOf(2, "uint", item) /\ ~IsArrayOf(3, "double", item)
  BY DEF IsText, IsArray, IsMap, IsGoniometer, IsArrayOf
<1>9. ofKind => value.t # "end"
  <2>1. kind # "table" /\ item.t = "end" => ~ofKind
    BY <1>2, <1>4, <1>7, <1>8 DEF FieldKinds
  <2>2. IsTypedArray(value) => value.t # "end"
    BY DEF IsTypedArray
  <2> QED BY <1>4, <1>6, <2>1, <2>2
<1>10. /\ IsOps(ops)
       /\ ~ofKind => Fails(ops)
       /\ Fails(ops) => ~ofKind \/ EndsAt(elems, i)
  <2>1. CASE kind = "table"
    BY <1>3, <1>4, <2>1, TypedArrayOps
  <2>2. CASE kind # "table" /\ item.t = "end"
    <3>1. IsOps(ops) /\ Fails(ops)
      BY <1>3, <2>2, OneOps
    <3>2. ~ofKind
      BY <1>2, <1>4, <1>7, <1>8, <2>2 DEF FieldKinds
    <3> QED BY <3>1, <3>2
  <2> DEFINE rest == kind # "table" /\ item.t # "end"
  <2>3. CASE rest /\ kind \in {"uint", "double", "bool"}
    <3>1. IsOps(OfType(item, kind)) /\ (Fails(OfType(item, kind)) <=> item.t # kind)
      BY <2>3, ItemOps
    <3> QED BY <1>3, <1>4, <2>3, <3>1
  <2>4. CASE rest /\ kind = "text"
    <3>1. /\ IsOps(Text(shown, i, <<key, 0, "">>))
          /\ Fails(Text(shown, i, <<key, 0, "">>)) <=> ~IsText(shown[i]) \/ EndsAt(shown, i)
      BY TextOps
    <3> QED BY <1>3, <1>4, <1>5, <2>4, <3>1
  <2>5. CASE rest /\ kind \in {"pair", "triple"}
    <3>1. IsOps(ListOf(item, 2, "uint")) /\ (Fails(ListOf(item, 2, "uint")) <=> ~IsArrayOf(2, "uint", item))
      BY ListOps
    <3>2. IsOps(ListOf(item, 3, "double")) /\ (Fails(ListOf(item, 3, "double")) <=> ~IsArrayOf(3, "double", item))
      BY ListOps
    <3> QED BY <1>3, <1>4, <2>5, <3>1, <3>2
  <2>6. CASE rest /\ kind = "texts"
    <3>1. IsOps(Texts(key, item)) /\ (Fails(Texts(key, item)) <=>
              ~(IsArray(item) /\ \A j \in 1 .. Len(item.elems) : IsText(item.elems[j])))
      BY <1>1, TextsOps
    <3> QED BY <1>3, <1>4, <2>6, <3>1 DEF e
  <2>7. CASE rest /\ kind \in {"energies", "arrays"}
    <3>1. /\ IsOps(TextMap(key, item, kind))
          /\ Fails(TextMap(key, item, kind)) <=>
                ~(IsMap(item) /\ \A j \in Indices(item.elems) :
                      /\ IsText(KeyAt(item.elems, j))
                      /\ IF kind = "energies" THEN ValueAt(item.elems, j).t = "double"
                                              ELSE IsMatrix(TRUE, ValueAt(item.elems, j)))
      BY <1>1, <2>7, TextMapOps
    <3>2. CASE kind = "energies"
      BY <1>3, <1>4, <2>7, <3>1, <3>2 DEF e
    <3>3. CASE kind = "arrays"
      BY <1>3, <1>4, <2>7, <3>1, <3>3 DEF e
    <3> QED BY <2>7, <3>2, <3>3
  <2>8. CASE rest /\ kind = "goniometer"
    <3>1. item.t = "map" => IsOps(keyed) /\ (Fails(keyed) <=> ~IsGoniometer(TRUE, item))
      BY <1>1, GoniometerOps DEF keyed
    <3>2. IsOps(OfType(item, "map")) /\ (Fails(OfType(item, "map")) <=> item.t # "map")
      BY ItemOps
    <3>3. IsGoniometer(TRUE, item) => item.t = "map"
      BY DEF IsGoniometer
    <3>4. ops = Then(OfType(item, "map"), keyed)
      BY <1>3, <2>8
    <3>5. IsOps(ops) /\ (Fails(ops) <=> item.t # "map" \/ Fails(keyed))
      BY <3>1, <3>2, <3>4, ThenOps
    <3> QED BY <1>4, <2>8, <3>1, <3>3, <3>5
  <2>9. CASE rest /\ kind = "any"
    <3>1. IsOps(Skip(item)) /\ (Fails(Skip(item)) <=> ~Readable(item))
      BY SkipOps
    <3> QED BY <1>3, <1>4, <2>9, <3>1
  <2> QED BY <1>2, <2>1, <2>2, <2>3, <2>4, <2>5, <2>6, <2>7, <2>8, <2>9 DEF FieldKinds
<1> QED BY <1>9, <1>10

(* The keys and the values of the body are those of the message, but for   *)
(* the first.                                                              *)
LEMMA BodyKeys ==
    ASSUME NEW P, NEW m, Elems(m) \in Seq(P), Len(Elems(m)) % 2 = 0, Len(Elems(m)) >= 2
    PROVE  /\ Body(m) \in Seq(P) /\ Len(Body(m)) \in Nat /\ Len(Body(m)) % 2 = 0
           /\ \A j \in Indices(Body(m)) :
                 /\ j \in Nat /\ j + 1 \in Indices(Elems(m)) \ {1}
                 /\ KeyAt(Body(m), j) = KeyAt(Elems(m), j + 1)
                 /\ ValueAt(Body(m), j) = ValueAt(Elems(m), j + 1)
           /\ \A k \in Indices(Elems(m)) \ {1} : k - 1 \in Indices(Body(m)) /\ (k - 1) + 1 = k
<1> DEFINE e == Elems(m)
           b == Body(m)
           n == Len(e) \div 2
<1>1. Len(e) \in Nat
  OBVIOUS
<1>2. n \in Nat /\ n >= 1 /\ Len(e) = 2 * n
  BY <1>1
<1>3. b \in Seq(P) /\ Len(b) \in Nat
  BY BodyFacts
<1>4. Len(b) = Len(e) - 2 /\ \A i \in 1 .. Len(b) : b[i] = e[i + 2]
  <2>1. CASE 3 <= Len(e)
    <3>1. Len(b) = Len(e) - 2 /\ \A i \in 1 .. Len(e) - 2 : b[i] = e[3 + i - 1]
      BY <1>1, <2>1, SubSeqProperties DEF Body
    <3>2. \A i \in 1 .. Len(e) - 2 : 3 + i - 1 = i + 2
      OBVIOUS
    <3> QED BY <1>1, <2>1, <3>1, <3>2
  <2>2. CASE ~(3 <= Len(e))
    <3>1. b = <<>>
      BY <1>1, <2>2, SubSeqProperties DEF Body
    <3>2. Len(<<>>) = 0
      OBVIOUS
    <3>3. Len(b) = 0
      BY <3>1, <3>2
    <3>4. \A x \in Nat : x >= 2 /\ ~(3 <= x) => x = 2
      OBVIOUS
    <3>5. Len(e) = 2
      BY <1>1, <2>2, <3>4, Zenon
    <3> HIDE DEF b, e
    <3> QED BY <3>3, <3>5
  <2> QED BY <2>1, <2>2
<1> HIDE DEF b, e
<1>5. Len(b) = 2 * (n - 1) /\ Len(b) % 2 = 0 /\ Len(b) \div 2 = n - 1
  BY <1>2, <1>3, <1>4
<1>6. Indices(e) = 1 .. n /\ Indices(b) = 1 .. n - 1
  BY <1>5 DEF Indices
<1> HIDE DEF n
<1>7. ASSUME NEW j \in 1 .. n - 1
      PROVE  /\ j \in Nat /\ j + 1 \in (1 .. n) \ {1}
             /\ KeyAt(b, j) = KeyAt(e, j + 1) /\ ValueAt(b, j) = ValueAt(e, j + 1)
  <2>1. j \in Nat /\ j + 1 \in (1 .. n) \ {1}
    BY <1>2
  <2>2. 2 * j - 1 \in 1 .. Len(b) /\ 2 * j \in 1 .. Len(b)
    BY <1>2, <1>5
  <2>3. (2 * j - 1) + 2 = 2 * (j + 1) - 1 /\ 2 * j + 2 = 2 * (j + 1)
    BY <2>1
  <2> QED BY <1>4, <2>1, <2>2, <2>3 DEF KeyAt, ValueAt
<1>8. \A k \in (1 .. n) \ {1} : k - 1 \in 1 .. n - 1 /\ (k - 1) + 1 = k
  BY <1>2
<1> QED BY <1>3, <1>5, <1>6, <1>7, <1>8 DEF b, e

(* What is decoded of a message whose type is known.                       *)
LEMMA BodyFormat ==
    ASSUME NEW m, IsTree(m.root), m.root.t = "map", Len(Elems(m)) >= 2,
           NEW type \in {"start", "image", "end"}
    PROVE  /\ IsOps(BodyOps(type, m))
           /\ Fails(BodyOps(type, m)) <=>
                 ~\A j \in Indices(Elems(m)) \ {1} :
                      \/ IsLost(TRUE, KeyAt(Elems(m), j), ValueAt(Elems(m), j))
                      \/ /\ IsText(KeyAt(Elems(m), j))
                         /\ IsOfKind(TRUE, Kind(Fields[type], KeyAt(Elems(m), j).v),
                                     ValueAt(Elems(m), j))
<1> DEFINE P == Parts(m.root)
           e == Elems(m)
           b == Body(m)
           fields == [j \in 1 .. Len(b) \div 2 |-> MsgField(type, b, 2 * j)]
           OfKind(s, j) == IsOfKind(TRUE, Kind(Fields[type], KeyAt(s, j).v), ValueAt(s, j))
           Lost(s, j) == IsLost(TRUE, KeyAt(s, j), ValueAt(s, j))
           Good == {j \in Indices(b) : OfKind(b, j)}
<1>1. IsClosed(P) /\ e \in Seq(P) /\ Len(e) % 2 = 0
  BY TreeFacts DEF IsClosed, Elems
<1>2. /\ b \in Seq(P) /\ Len(b) \in Nat /\ Len(b) % 2 = 0
      /\ \A j \in Indices(b) :
            /\ j + 1 \in Indices(e) \ {1}
            /\ KeyAt(b, j) = KeyAt(e, j + 1) /\ ValueAt(b, j) = ValueAt(e, j + 1)
      /\ \A k \in Indices(e) \ {1} : k - 1 \in Indices(b) /\ (k - 1) + 1 = k
  BY <1>1, BodyKeys
<1> HIDE DEF e, b, P
<1>3. ASSUME NEW j \in Indices(b)
      PROVE  /\ IsOps(fields[j])
             /\ OfKind(b, j) => ValueAt(b, j).t # "end"
             /\ ~OfKind(b, j) => Fails(fields[j])
             /\ Fails(fields[j]) => ~OfKind(b, j) \/ EndsAt(b, 2 * j)
  <2>1. j \in 1 .. Len(b) \div 2 /\ 2 * j \in 2 .. Len(b)
    BY <1>2, Half DEF Indices
  <2>2. fields[j] = MsgField(type, b, 2 * j)
    BY <2>1
  <2> DEFINE kind == Kind(Fields[type], b[2 * j - 1].v)
  <2>3. /\ IsOps(MsgField(type, b, 2 * j))
        /\ IsOfKind(TRUE, kind, b[2 * j]) => b[2 * j].t # "end"
        /\ ~IsOfKind(TRUE, kind, b[2 * j]) => Fails(MsgField(type, b, 2 * j))
        /\ Fails(MsgField(type, b, 2 * j)) =>
              ~IsOfKind(TRUE, kind, b[2 * j]) \/ EndsAt(b, 2 * j)
    BY <1>1, <1>2, <2>1, FieldOps
  <2>4. OfKind(b, j) <=> IsOfKind(TRUE, kind, b[2 * j])
    BY DEF KeyAt, ValueAt
  <2> HIDE DEF fields, OfKind, kind
  <2> QED BY <2>2, <2>3, <2>4 DEF ValueAt
<1> HIDE DEF fields, OfKind
<1>4. /\ IsOps(Keyed(b, fields))
      /\ Fails(Keyed(b, fields)) <=>
            ~\A j \in Indices(b) : Lost(b, j) \/ (IsText(KeyAt(b, j)) /\ j \in Good)
  BY <1>2, <1>3, KeyedOps
<1> HIDE DEF Lost
<1>5. (\A j \in Indices(b) : Lost(b, j) \/ (IsText(KeyAt(b, j)) /\ j \in Good))
          <=> \A k \in Indices(e) \ {1} : Lost(e, k) \/ (IsText(KeyAt(e, k)) /\ OfKind(e, k))
  <2>1. \A j \in Indices(b) : (OfKind(b, j) <=> OfKind(e, j + 1)) /\ (Lost(b, j) <=> Lost(e, j + 1))
    BY <1>2 DEF OfKind, Lost
  <2> QED BY <1>2, <2>1
<1>6. Keyed(b, fields) = BodyOps(type, m)
  BY DEF BodyOps, b, fields
<1> QED BY <1>4, <1>5, <1>6 DEF OfKind, Lost, e

(* The heading of a message: its first key is the type, and its value one  *)
(* that is known.  What follows it is not missing if it is a key.          *)
LEMMA TypeFormat ==
    ASSUME NEW m, IsTree(m.root), m.root.t = "map"
    PROVE  LET e == Elems(m)
               value == Untagged(ValueAt(e, 1))
               known == /\ Len(e) >= 2 /\ KeyAt(e, 1).t = "text" /\ KeyAt(e, 1).v = "type"
                        /\ value.t = "text" /\ value.v \in DOMAIN Fields
           IN  /\ MsgType(m.root) # "none" =>
                     known /\ MsgType(m.root) = value.v /\ value.v \in {"start", "image", "end"}
               /\ known /\ (\A j \in Indices(e) \ {1} : KeyAt(e, j).t = "text")
                     => MsgType(m.root) # "none"
<1> DEFINE e == Elems(m)
           value == Untagged(ValueAt(e, 1))
           known == /\ Len(e) >= 2 /\ KeyAt(e, 1).t = "text" /\ KeyAt(e, 1).v = "type"
                    /\ value.t = "text" /\ value.v \in DOMAIN Fields
<1>1. KeyAt(e, 1) = e[1] /\ ValueAt(e, 1) = e[2]
  BY DEF KeyAt, ValueAt
<1>2. MsgType(m.root) = IF known /\ ~EndsAt(e, 2) THEN value.v ELSE "none"
  BY <1>1, Zenon DEF MsgType, Elems
<1>3. DOMAIN Fields = {"start", "image", "end"}
  BY DEF Fields
<1>4. Len(e) \in Nat /\ Len(e) % 2 = 0
  <2>1. e \in Seq(Parts(m.root)) /\ Len(e) % 2 = 0
    BY TreeFacts DEF IsClosed, Elems
  <2> QED BY <2>1
<1> HIDE DEF e, value
<1>5. ASSUME EndsAt(e, 2), \A j \in Indices(e) \ {1} : KeyAt(e, j).t = "text" PROVE FALSE
  <2>1. 2 < Len(e) /\ e[3].t = "end"
    BY <1>5 DEF EndsAt
  <2>2. 2 \in Indices(e) \ {1}
    BY <1>4, <2>1 DEF Indices
  <2>3. KeyAt(e, 2) = e[3]
    BY DEF KeyAt
  <2> QED BY <1>5, <2>1, <2>2, <2>3
<1> QED BY <1>2, <1>3, <1>5 DEF e, value

(* A message fails to decode exactly if it has not the lax format of one.  *)
LEMMA MessageFormat ==
    ASSUME NEW m, IsTree(m.root)
    PROVE  Fails(OpsOf(m)) <=> ~HasFormat(TRUE, m)
<1> DEFINE e == Elems(m)
           type == MsgType(m.root)
           value == Untagged(ValueAt(e, 1))
           ops == MsgOps(m.root)
           known == /\ Len(e) >= 2 /\ KeyAt(e, 1).t = "text" /\ KeyAt(e, 1).v = "type"
                    /\ value.t = "text" /\ value.v \in DOMAIN Fields
           fine(t) == \A j \in Indices(e) \ {1} :
                          \/ IsLost(TRUE, KeyAt(e, j), ValueAt(e, j))
                          \/ /\ IsText(KeyAt(e, j))
                             /\ IsOfKind(TRUE, Kind(Fields[t], KeyAt(e, j).v), ValueAt(e, j))
<1>1. HasFormat(TRUE, m) <=> m.magic /\ m.root.t = "map" /\ known /\ fine(value.v)
  BY Zenon DEF HasFormat, Elems
<1>2. m.root.t = "map" => /\ type # "none" => known /\ type = value.v
                                              /\ value.v \in {"start", "image", "end"}
                          /\ known /\ fine(value.v) => type # "none"
  <2>1. \A t : fine(t) => \A j \in Indices(e) \ {1} : KeyAt(e, j).t = "text"
    BY DEF IsLost, IsText
  <2> HIDE DEF fine
  <2> QED BY <2>1, TypeFormat
<1>3. ASSUME m.root.t = "map"
      PROVE  IsOps(ops) /\ (Fails(ops) <=> ~(known /\ fine(value.v)))
  <2>1. CASE type = "none"
    <3>1. ops = Fail(DECODE) \/ ops = Fail(PARSE)
      BY <2>1 DEF MsgOps
    <3> HIDE DEF ops, known, fine
    <3> QED BY <1>2, <1>3, <2>1, <3>1, OneOps
  <2>2. CASE type # "none"
    <3> DEFINE body == BodyOps(type, m)
               first == <<Op("malloc", OK, MessageSlot, 0)>>
    <3>1. known /\ type = value.v /\ type \in {"start", "image", "end"}
      BY <1>2, <1>3, <2>2
    <3>2. IsOps(body) /\ (Fails(body) <=> ~fine(type))
      BY <1>3, <3>1, BodyFormat
    <3>3. IsOps(first) /\ ~Fails(first)
      BY OneOps DEF Dup
    <3>4. ops = first \o body
      BY <2>2 DEF MsgOps, BodyOps, Body, Elems
    <3> HIDE DEF ops, known, fine, body, first
    <3>5. IsOps(ops) /\ (Fails(ops) <=> Fails(first) \/ Fails(body))
      BY <3>2, <3>3, <3>4, JoinOps
    <3> QED BY <3>1, <3>2, <3>3, <3>5
  <2> QED BY <2>1, <2>2
<1> HIDE DEF ops, known, fine, value
<1>4. CASE ~m.magic
  <2>1. OpsOf(m) = Fail(SIGNATURE)
    BY <1>4 DEF OpsOf
  <2> QED BY <1>1, <1>4, <2>1, OneOps
<1>5. CASE m.magic
  <2> DEFINE first == OfType(m.root, "map")
  <2>1. IsOps(first) /\ (Fails(first) <=> m.root.t # "map")
    BY ItemOps
  <2>2. OpsOf(m) = Then(first, ops)
    BY <1>5 DEF OpsOf, ops
  <2> HIDE DEF first
  <2>3. Fails(OpsOf(m)) <=> Fails(first) \/ Fails(ops)
    BY <1>3, <2>1, <2>2, ThenOps
  <2> QED BY <1>1, <1>3, <1>5, <2>1, <2>3
<1> QED BY <1>4, <1>5

(* Where a product does not wrap, it is the product.                       *)
LEMMA MatrixLax ==
    ASSUME NEW P, IsClosed(P), NEW item \in P, IsMatrix(FALSE, item)
    PROVE  IsMatrix(TRUE, item)
<1> DEFINE x == item.elems[1].elems[1].elems[1].n
           y == item.elems[1].elems[1].elems[2].n
           numbers == item.elems[1].elems[2]
           size == SizeOf(numbers.elems[1])
           unit == NumberSize(numbers.n)
<1>1. x \in Nat /\ y \in Nat /\ size \in Nat /\ size < Power(2, Width)
  BY MatrixNumbers DEF IsMatrix
<1>2. unit \in {1, 2, 4, 8, 16} /\ (x * y) * unit = size
  BY NumberSizes DEF IsMatrix, IsTypedArray, NumberTags, Product
<1>3. Power(2, Width) \in Nat \ {0}
  BY PowerPositive, MessagesAssumption DEF MessagesAssumption
<1> SUFFICES Product(TRUE, x, y) = x * y
  BY DEF IsMatrix, Product
<1> HIDE DEF x, y, size, unit
<1>4. PICK p \in Nat : p = x * y
  BY <1>1
<1>5. p <= size
  BY <1>1, <1>2, <1>4
<1>6. p < Power(2, Width)
  BY <1>1, <1>3, <1>5
<1>7. p % Power(2, Width) = p
  BY <1>3, <1>6, SmallRemainder
<1> QED BY <1>4, <1>7 DEF Product

(* The code accepts at least what has the format.                          *)
LEMMA KindLax ==
    ASSUME NEW P, IsClosed(P), NEW item \in P, NEW kind \in FieldKinds,
           IsOfKind(FALSE, kind, item)
    PROVE  IsOfKind(TRUE, kind, item)
<1> DEFINE value == Untagged(item)
<1>1. value \in P
  BY UntaggedIsPart
<1>2. \A x : IsAxis(FALSE, x) => IsAxis(TRUE, x)
  BY DEF IsAxis, IsLost
<1>3. \A x : IsGoniometer(FALSE, x) => IsGoniometer(TRUE, x)
  BY <1>2 DEF IsGoniometer, IsLost
<1>4. \A j \in Indices(value.elems) : ValueAt(value.elems, j) \in P
  <2>1. value.elems \in Seq(P) /\ Len(value.elems) \in Nat
    <3>1. value.elems \in Seq(P)
      BY <1>1 DEF IsClosed
    <3> QED BY <3>1
  <2>2. \A j \in Indices(value.elems) : 2 * j \in 1 .. Len(value.elems)
    BY <2>1, Half DEF Indices
  <2> HIDE DEF value
  <2> QED BY <2>1, <2>2, ElementOfSeq DEF ValueAt
<1>5. \A j \in Indices(value.elems) :
          IsMatrix(FALSE, ValueAt(value.elems, j)) => IsMatrix(TRUE, ValueAt(value.elems, j))
  BY <1>4, MatrixLax
<1>6. CASE kind = "arrays"
  <2>1. IsMap(value) /\ \A j \in Indices(value.elems) :
            IsText(KeyAt(value.elems, j)) /\ IsMatrix(FALSE, ValueAt(value.elems, j))
    BY <1>6 DEF IsOfKind
  <2> HIDE DEF value
  <2>2. IsMap(value) /\ \A j \in Indices(value.elems) :
            IsText(KeyAt(value.elems, j)) /\ IsMatrix(TRUE, ValueAt(value.elems, j))
    BY <1>5, <2>1
  <2> QED BY <1>6, <2>2 DEF IsOfKind, value
<1>7. CASE kind = "goniometer"
  BY <1>3, <1>7 DEF IsOfKind
<1>8. CASE kind \notin {"arrays", "goniometer"}
  BY <1>8 DEF IsOfKind, FieldKinds
<1> QED BY <1>6, <1>7, <1>8

(* So of whole messages.                                                   *)
LEMMA FormatLax ==
    ASSUME NEW m, IsTree(m.root), WellFormed(m)
    PROVE  HasFormat(TRUE, m)
<1> DEFINE P == Parts(m.root)
           e == m.root.elems
<1>1. IsClosed(P) /\ e \in Seq(P) /\ Len(e) \in Nat
  <2>1. IsClosed(P) /\ e \in Seq(P)
    BY TreeFacts
  <2> QED BY <2>1
<1>2. \A j \in Indices(e) : ValueAt(e, j) \in P
  <2>1. \A j \in Indices(e) : 2 * j \in 1 .. Len(e)
    BY <1>1, Half DEF Indices
  <2> HIDE DEF e, P
  <2> QED BY <1>1, <2>1, ElementOfSeq DEF ValueAt
<1>3. \A kind \in FieldKinds : \A j \in Indices(e) :
          IsOfKind(FALSE, kind, ValueAt(e, j)) => IsOfKind(TRUE, kind, ValueAt(e, j))
  BY <1>1, <1>2, KindLax
<1>4. \A type \in DOMAIN Fields : \A key : Kind(Fields[type], key) \in FieldKinds
  <2>1. DOMAIN Fields = {"start", "image", "end"}
    BY DEF Fields
  <2> QED BY <2>1, StartKinds, OtherKinds DEF IsKindOf
<1> HIDE DEF P
<1> QED BY <1>3, <1>4 DEF WellFormed, HasFormat, IsLost

(* stream2_parse_msg accepts a message that has the format, while there is *)
(* memory, and no other but for the two things the lax format overlooks:   *)
(* the result is only looked at until the next message.                    *)
THEOREM Stream2AcceptsWellFormed == Stream2Spec => []AcceptsWellFormed
<1>1. Stream2Init => AcceptsWellFormed
  <2>1. Stream2Init => received = 0
    BY DEF Stream2Init
  <2>2. received = 0 => ~(received > 0)
    OBVIOUS
  <2> QED BY <2>1, <2>2 DEF AcceptsWellFormed
<1>2. ASSUME NEW m \in Incoming, NEW heap \in Heaps(m), Receive(m, heap)
      PROVE  AcceptsWellFormed'
  <2>1. IsTree(m.root)
    BY Stream2Assumption DEF Stream2Assumption, Incoming
  <2>2. PICK fails : heap = Run(OpsOf(m), fails)
    BY DEF Heaps, Decodings, Decoded, stream2_parse_msg
  <2>3. OpsOf(m) \in Seq(OpSet)
    <3> DEFINE some == MsgOpSet(~Readable(m.root))
    <3>1. OpsOf(m) \in Seq(some)
      BY <2>1, MessageOps
    <3>2. some \subseteq OpSet
      BY DEF MsgOpSet
    <3> HIDE DEF some
    <3> QED BY <3>1, <3>2, SeqMonotone
  <2>4. /\ heap.code = OK => ~Fails(OpsOf(m))
        /\ heap.code \notin {OK, OUT_OF_MEMORY} => Fails(OpsOf(m))
    <3> DEFINE ops == OpsOf(m)
    <3>1. DOMAIN ops = 1 .. Len(ops)
      BY <2>3
    <3>2. /\ heap.code = OK => ~Fails(ops)
          /\ \/ heap.code \in {OK, OUT_OF_MEMORY}
             \/ \E i \in 1 .. Len(ops) : ops[i].op = "fail"
      BY <2>2, <2>3, RunResult
    <3> HIDE DEF ops
    <3>3. (\E i \in 1 .. Len(ops) : ops[i].op = "fail") => Fails(ops)
      BY <3>1 DEF Fails
    <3> QED BY <3>2, <3>3 DEF ops
  <2>5. (Fails(OpsOf(m)) <=> ~HasFormat(TRUE, m)) /\ (WellFormed(m) => HasFormat(TRUE, m))
    BY <2>1, MessageFormat, FormatLax
  <2>6. lastMsg' = m /\ result' = heap.code
    BY <1>2 DEF Receive
  <2>7. /\ WellFormed(lastMsg') <=> WellFormed(m)
        /\ HasFormat(TRUE, lastMsg') <=> HasFormat(TRUE, m)
    BY <2>6
  <2> QED BY <2>4, <2>5, <2>6, <2>7 DEF AcceptsWellFormed
<1>3. AcceptsWellFormed /\ [Stream2Next]_stream2Vars => AcceptsWellFormed'
  <2> SUFFICES ASSUME AcceptsWellFormed, [Stream2Next]_stream2Vars
               PROVE  AcceptsWellFormed'
    OBVIOUS
  <2>1. CASE UNCHANGED message
    BY <2>1 DEF message, AcceptsWellFormed
  <2>2. ASSUME NEW m \in Incoming, NEW heap \in Heaps(m), getHeader(m, heap) \/ waitFrame(m, heap)
        PROVE  AcceptsWellFormed'
    <3>1. Receive(m, heap)
      BY <2>2, Zenon DEF getHeader, waitFrame
    <3> QED BY <1>2, <3>1
  <2>3. Wake \/ getFrame \/ getFrameFails \/ UNCHANGED stream2Vars => UNCHANGED message
    BY Zenon DEF Wake, getFrame, getFrameFails, stream2Vars
  <2> QED BY <2>1, <2>2, <2>3 DEF Stream2Next
<1> QED BY <1>1, <1>3, PTL DEF Stream2Spec
=============================================================================
