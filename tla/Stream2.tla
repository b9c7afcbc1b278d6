------------------------------- MODULE Stream2 -------------------------------
(***************************************************************************)
(* Stream2API of stream2Api.cpp, called the way streamTask calls it: what  *)
(* it keeps of a header, how long it holds on to an image, and with what   *)
(* time and threshold each frame is labelled.  Messages are decoded as in  *)
(* Stream2Messages.  When streamTask is woken and stopped, and what becomes*)
(* of the messages it leaves unread, is the subject of StreamTask.         *)
(***************************************************************************)
EXTENDS Stream2Format

CONSTANTS
    Regular, Odd,   \* the messages there may be
    Dates,          \* the texts that are dates, and what they say (see Date)
    SECFRAC_DIGITS, \* digits of a fraction of a second: 9
    MaxMessages,    \* bound on the messages received
    MaxOdd,         \* bound on those among them that are not regular
    MaxFailures     \* bound on the allocations that fail

NSEC_PER_SEC == Power(10, SECFRAC_DIGITS)

(* What a text of the form of RFC 3339 says: the local date and time in    *)
(* seconds since the epoch, the digits of a fraction and how many there    *)
(* are, and the offset from UTC in seconds (eastOf: it is to be taken off).*)
Date ==
    {d \in [local : Nat, digits : Nat, len : 0 .. SECFRAC_DIGITS,
            eastOf : BOOLEAN, offset : Nat] : d.digits < Power(10, d.len)}

(* A message has a signature (magic) or not, a root item, and a form: that *)
(* of a detector that is set up as usual, or else another that is          *)
(* documented, or none that is.                                            *)
NoMsg == [form |-> "none", magic |-> FALSE, root |-> End]

ASSUME Stream2Assumption ==
    /\ {SECFRAC_DIGITS, MaxMessages, MaxOdd, MaxFailures} \subseteq Nat
    /\ \A m \in Regular : m.form = "regular"
    /\ \A m \in Odd : m.form \in {"unusual", "malformed"}
    /\ \A m \in Regular \cup Odd : IsTree(m.root)
    /\ \A text \in DOMAIN Dates : text # "" /\ Dates[text] \in Date

(* A message is malformed if it has not the format of one.                 *)
ASSUME FormAssumption ==
    \A m \in Regular \cup Odd : m.form = "malformed" <=> ~WellFormed(m)

VARIABLES
    pc,                         \* streamTask: idle, header, wait, frame, dead
    streamAsTsSource,           \* the parameter, as streamTask read it
    mMsgOpen,                   \* is mMsg initialised and not closed?
    mImageMsg, mNumThresholds, nextThresh,
    mThresholdEnergy,
    mCachedTs,
    frame,                      \* what getFrame last made of the last message
    lastMsg, result,            \* the message last received, and its result
    header,                     \* history: the last start message accepted
    lost,                       \* history: blocks, and messages of ZeroMQ,
                                \* that nothing refers to any more
    spilt,                      \* history: was there a message to explain that?
    received, odd, failures

caller == <<pc, streamAsTsSource, nextThresh>>
imageVars == <<mMsgOpen, mImageMsg, mNumThresholds>>
headerVars == <<mThresholdEnergy, header>>
message == <<lastMsg, result, received, odd>>
stream2Vars == <<caller, imageVars, headerVars, message, mCachedTs, frame, lost,
                 spilt, failures>>

NoFrame == [entry |-> 0, channel |-> "", energy |-> 0, stamp |-> <<>>]

Stream2Init ==
    /\ pc = "idle" /\ streamAsTsSource = FALSE /\ nextThresh = 0
    /\ mMsgOpen = FALSE /\ mImageMsg = NoMsg /\ mNumThresholds = 0
    /\ mThresholdEnergy = <<>> /\ header = NoMsg
    /\ mCachedTs = [text |-> "", ts |-> <<0, 0>>] /\ frame = NoFrame
    /\ lastMsg = NoMsg /\ result = OK
    /\ lost = [blocks |-> 0, messages |-> 0]
    /\ spilt = [blocks |-> FALSE, messages |-> FALSE]
    /\ received = 0 /\ odd = 0 /\ failures = 0

-----------------------------------------------------------------------------
(* What decoding a message comes to, with one allocation failing or none;  *)
(* and its fields.  Of a key that is given twice the later counts, and one *)
(* without a value does not.                                               *)

Decoded(m) == stream2_parse_msg(m, 0)
Decodings(m) ==
    LET ops == OpsOf(m) IN {Run(ops, fails) : fails \in 0 .. Run(ops, 0).attempts}
Type(m) == MsgType(m.root)

Elems(m) == m.root.elems
KeysAt(m) == {i \in DOMAIN Elems(m) : i % 2 = 1 /\ Elems(m)[i + 1].t # "break"}
Given(m, key) == {i \in KeysAt(m) : Elems(m)[i].v = key}
Has(m, key) == Given(m, key) # {}
Value(m, key) == Untagged(Elems(m)[1 + Max(Given(m, key))])

(* A map of texts to values as a list, which is empty without the key.     *)
List(m, key) ==
    IF ~Has(m, key) THEN <<>>
    ELSE LET e == Value(m, key).elems
         IN  [i \in 1 .. Len(e) \div 2 |->
                 [channel |-> e[2 * i - 1].v, value |-> e[2 * i]]]

Pair(m, key) ==
    IF ~Has(m, key) THEN <<0, 0>>
    ELSE [i \in 1 .. 2 |-> Value(m, key).elems[i].n]

ChannelsOf(list) == [i \in DOMAIN list |-> list[i].channel]

-----------------------------------------------------------------------------
(* A message is received into mMsg, and decoded with one allocation        *)
(* failing, or none: heap is what that comes to.                           *)

Incoming ==
    IF received = MaxMessages THEN {}
    ELSE IF odd = MaxOdd THEN Regular ELSE Regular \cup Odd
Heaps(m) == IF failures < MaxFailures THEN Decodings(m) ELSE {Decoded(m)}

Receive(m, heap) ==
    /\ received' = received + 1
    /\ odd' = IF m.form = "regular" THEN odd ELSE odd + 1
    /\ lastMsg' = m /\ result' = heap.code /\ frame' = NoFrame
    /\ failures' = IF heap.code = OUT_OF_MEMORY THEN failures + 1 ELSE failures

(* To free a message whose list could not be allocated again is fatal.     *)
Dies(heap) == heap.code = ABORT \/ (heap.code # OK /\ FreeCrashes(heap))

IsRepeated(m) ==
    Cardinality({Elems(m)[i].v : i \in KeysAt(m)}) < Cardinality(KeysAt(m))

Held == IF mImageMsg = NoMsg THEN {} ELSE Decoded(mImageMsg).live

(* What nothing refers to any more: the blocks in question, and the        *)
(* message mMsg had if it was not closed.                                  *)
Lose(blocks) ==
    lost' = [blocks |-> lost.blocks + Cardinality(blocks),
             messages |-> lost.messages + (IF mMsgOpen THEN 1 ELSE 0)]

STREAM_ERROR == 3

(* 1 and 2 are taken for STREAM_TIMEOUT and STREAM_WRONG_HTYPE.            *)
AfterHeader(code) ==
    CASE code = OK -> "wait"
      [] code \in {1, 2} -> "header"
      [] OTHER -> "idle"
AfterWait(code) ==
    CASE code = OK -> "frame"
      [] code = 1 -> "wait"
      [] OTHER -> "idle"

(* The energies are those of the new header; its other fields are dropped. *)
ListedEnergies(m) ==
    LET list == List(m, "threshold_energy")
    IN  [i \in DOMAIN list |-> [channel |-> list[i].channel,
                                energy |-> list[i].value.n]]
EnergiesAdded(m) ==         \* mutant: mThresholdEnergy is not cleared
    mThresholdEnergy \o ListedEnergies(m)
EnergiesKept(m) ==          \* mutant: it is filled in only once
    IF mThresholdEnergy # <<>> THEN mThresholdEnergy ELSE ListedEnergies(m)
Energies(m) == ListedEnergies(m)

(* Whatever is decoded is freed, and mMsg closed.                          *)
getHeader(m, heap) ==
    LET accepted == heap.code = OK /\ Type(m) = "start"
        code == IF heap.code = OK /\ ~accepted THEN STREAM_ERROR ELSE heap.code
    IN  /\ Receive(m, heap)
        /\ Lose(Leftover(heap))
        /\ spilt' = [spilt EXCEPT !.blocks = @ \/ IsRepeated(m)]
        /\ mMsgOpen' = FALSE
        /\ IF accepted THEN mThresholdEnergy' = Energies(m) /\ header' = m
                       ELSE UNCHANGED headerVars
        /\ pc' = IF Dies(heap) \/ (accepted /\ ~Has(m, "image_dtype"))
                 THEN "dead" ELSE AfterHeader(code)
        /\ UNCHANGED <<streamAsTsSource, nextThresh, mImageMsg, mNumThresholds,
                       mCachedTs>>

(* An image is kept, with its mMsg.  After an error in decoding mMsg is    *)
(* left open.  The task calls getFrame for each channel of the image.      *)
waitFrame(m, heap) ==
    LET type == IF heap.code = OK THEN Type(m) ELSE "none"
        code == IF type = "start" THEN STREAM_ERROR ELSE heap.code
        channels == Len(List(m, "data"))
    IN  /\ Receive(m, heap)
        /\ spilt' = [blocks |-> spilt.blocks \/ IsRepeated(m)
                                    \/ (type = "image" /\ channels = 0),
                     messages |-> spilt.messages \/ heap.code # OK
                                    \/ (type = "image" /\ channels = 0)]
        /\ IF type = "image"
           THEN /\ mImageMsg' = m
                /\ mNumThresholds' = channels
                /\ Lose(Held)
           ELSE /\ Lose(Leftover(heap))
                /\ UNCHANGED <<mImageMsg, mNumThresholds>>
        /\ mMsgOpen' = (type \in {"image", "none"})
        /\ nextThresh' = 0
        /\ pc' = CASE Dies(heap) -> "dead"
                   [] type = "end" -> "idle"
                   [] type = "image" /\ channels = 0 -> "wait"
                   [] OTHER -> AfterWait(code)
        /\ UNCHANGED <<streamAsTsSource, headerVars, mCachedTs>>

-----------------------------------------------------------------------------
(* The time of a frame.                                                    *)

ScaleNot(len) == 1          \* mutant: the digits are taken for nanoseconds
Scale(len) == IF len = 0 THEN 0 ELSE Power(10, SECFRAC_DIGITS - len)

(* A text that is not a date gives ZERO.                                   *)
parseRfc3339Timestamp(text) ==
    IF text \notin DOMAIN Dates THEN <<0, 0>>
    ELSE LET d == Dates[text]
         IN  <<IF d.eastOf THEN d.local - d.offset ELSE d.local + d.offset,
               d.digits * Scale(d.len)>>

Cached(text) ==
    IF mCachedTs.text = text THEN mCachedTs
    ELSE [text |-> text, ts |-> parseRfc3339Timestamp(text)]

(* The product is that of 64-bit numbers.                                  *)
TimeStamp(ts, ticks, timeBase) ==
    LET nsec == ts[2] + ((NSEC_PER_SEC * ticks) % Power(2, Width)) \div timeBase
    IN  <<ts[1] + nsec \div NSEC_PER_SEC, nsec % NSEC_PER_SEC>>

extractTimeStampFromMessage(m) ==
    LET start == Pair(m, "start_time")
    IN  TimeStamp(Cached(Value(m, "series_date").v).ts, start[1], start[2])

(* Without a date, or with a time base of zero, the process dies.          *)
TimeIsGiven(m) == Has(m, "series_date") /\ Pair(m, "start_time")[2] # 0

-----------------------------------------------------------------------------
(* A frame is made of the channel thresh of the image.                     *)

(* Tags of unsigned integers of 8 bits, and of 16 and 32, little endian.   *)
DataTypes == {64, 69, 70}
Current == List(mImageMsg, "data")[nextThresh + 1]
TypeIsKnown == Current.value.elems[1].elems[2].n \in DataTypes

(* Past the last of the thresholds of the header there is nothing to read. *)
FrameDies ==
    \/ streamAsTsSource /\ ~TimeIsGiven(mImageMsg)
    \/ nextThresh + 1 \notin DOMAIN mThresholdEnergy

(* error: after the last channel the image is freed, whatever happened.    *)
IsLast == nextThresh = mNumThresholds - 1
ReleaseAfterLast ==
    IF IsLast
    THEN /\ lost' = [lost EXCEPT !.blocks =
                        @ + Cardinality(Leftover(Decoded(mImageMsg)))]
         /\ mImageMsg' = NoMsg /\ mMsgOpen' = FALSE /\ pc' = "wait"
    ELSE UNCHANGED <<lost, mImageMsg, mMsgOpen, pc>>

getFrame ==
    /\ pc = "frame" /\ TypeIsKnown
    /\ IF FrameDies
       THEN /\ pc' = "dead"
            /\ UNCHANGED <<mCachedTs, frame, lost, mImageMsg, mMsgOpen>>
       ELSE /\ ReleaseAfterLast
            /\ frame' = [entry |-> nextThresh + 1,
                         channel |-> mThresholdEnergy[nextThresh + 1].channel,
                         energy |-> mThresholdEnergy[nextThresh + 1].energy,
                         stamp |-> IF streamAsTsSource
                                   THEN extractTimeStampFromMessage(mImageMsg)
                                   ELSE <<>>]
            /\ mCachedTs' = IF streamAsTsSource
                            THEN Cached(Value(mImageMsg, "series_date").v)
                            ELSE mCachedTs
    /\ nextThresh' = nextThresh + 1
    /\ UNCHANGED <<streamAsTsSource, mNumThresholds, headerVars, message, spilt, failures>>

(* Of another type, or without memory for an NDArray.                      *)
getFrameFails ==
    /\ pc = "frame"
    /\ IF TypeIsKnown THEN failures < MaxFailures /\ failures' = failures + 1
                      ELSE UNCHANGED failures
    /\ ReleaseAfterLast
    /\ nextThresh' = nextThresh + 1
    /\ frame' = NoFrame
    /\ UNCHANGED <<streamAsTsSource, mNumThresholds, mCachedTs, headerVars, message, spilt>>

(* An acquisition starts.                                                  *)
Wake ==
    /\ pc = "idle" /\ received < MaxMessages
    /\ streamAsTsSource' \in BOOLEAN
    /\ pc' = "header"
    /\ UNCHANGED <<nextThresh, imageVars, headerVars, message, mCachedTs, frame, lost,
                   spilt, failures>>

Stream2Next ==
    \/ Wake
    \/ pc = "header" /\ \E m \in Incoming : \E heap \in Heaps(m) : getHeader(m, heap)
    \/ pc = "wait" /\ \E m \in Incoming : \E heap \in Heaps(m) : waitFrame(m, heap)
    \/ getFrame
    \/ getFrameFails

Stream2Spec == Stream2Init /\ [][Stream2Next]_stream2Vars

-----------------------------------------------------------------------------
(* Properties.                                                             *)

(* As long as there is memory, stream2_parse_msg accepts every message     *)
(* that has the signature, a known type and, for each known key, a value   *)
(* of the kind the key calls for, which is the format of Stream2Format.    *)
(* Of the others it accepts only those, and all of those, in which nothing *)
(* is wrong but that a product of dimensions agrees modulo 2^64 alone, or  *)
(* that a key has no value and the parser takes a break, or what the key's *)
(* own content reads on as, in its place.                                  *)
AcceptsWellFormed ==
    received > 0 /\ result # OUT_OF_MEMORY =>
        /\ WellFormed(lastMsg) => result = OK
        /\ result = OK <=> HasFormat(TRUE, lastMsg)

(* Whatever decoding allocates is freed, whichever field it fails at, and  *)
(* every message of ZeroMQ is closed: unless a key is given twice, an      *)
(* image has no channels, or waitFrame cannot decode what it receives.     *)
NothingLost ==
    /\ lost.blocks > 0 => spilt.blocks
    /\ lost.messages > 0 => spilt.messages

(* The channel and the energy getFrame labels an array with are those the  *)
(* last header gives for the channel the array is made of, if header and   *)
(* image list the same channels.                                           *)
LabelsMatch ==
    LET data == List(lastMsg, "data")
        energies == List(header, "threshold_energy")
    IN  frame # NoFrame /\ ChannelsOf(data) = ChannelsOf(energies)
            => /\ frame.channel = data[frame.entry].channel
               /\ frame.energy = energies[frame.entry].value.n

(* The time of an array is the date of its own image and the ticks since,  *)
(* cached or not, to the nanosecond, while the product has 64 bits.        *)
TimestampRight ==
    LET text == Value(lastMsg, "series_date").v
        d == Dates[text]
        start == Pair(lastMsg, "start_time")
        utc == IF d.eastOf THEN d.local - d.offset ELSE d.local + d.offset
    IN  (/\ frame # NoFrame /\ frame.stamp # <<>>
         /\ text \in DOMAIN Dates
         /\ NSEC_PER_SEC * start[1] < Power(2, Width))
            => /\ frame.stamp[2] < NSEC_PER_SEC
               /\ (frame.stamp[1] - utc) * NSEC_PER_SEC + frame.stamp[2] =
                      (d.digits * NSEC_PER_SEC) \div Power(10, d.len)
                          + (NSEC_PER_SEC * start[1]) \div start[2]

(* The process survives every message, but one that stops short, one that  *)
(* repeats a list for which there is then no memory, a header without      *)
(* image_dtype, and an image without a time or with more channels than the *)
(* header has thresholds.                                                  *)
DiesForAReason ==
    pc = "dead" =>
        \/ ~Readable(lastMsg.root)
        \/ IsRepeated(lastMsg) /\ result = OUT_OF_MEMORY
        \/ Type(lastMsg) = "start" /\ ~Has(lastMsg, "image_dtype")
        \/ /\ Type(lastMsg) = "image"
           /\ \/ ~TimeIsGiven(lastMsg)
              \/ Len(List(lastMsg, "data")) > Len(List(header, "threshold_energy"))
=============================================================================
