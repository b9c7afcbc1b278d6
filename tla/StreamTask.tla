------------------------------- MODULE StreamTask -------------------------------
(***************************************************************************)
(* streamTask of eigerDetector.cpp and the two clients it reads the        *)
(* detector's ZeroMQ stream with, StreamAPI (version 1: JSON and blobs, a  *)
(* message is several parts) and Stream2API (version 2: one CBOR part).    *)
(*                                                                         *)
(* The parts of a message arrive together, so that only the first receive  *)
(* of a message can block.  Received messages stay in the socket of the    *)
(* client object from one acquisition to the next, until the object is     *)
(* deleted: what one acquisition leaves there, the next one reads.         *)
(***************************************************************************)
EXTENDS Naturals, Sequences

CONSTANTS
    MaxSeries,      \* bound on the number of acquisitions
    NumImages,      \* images of each
    Channels,       \* thresholds per image of version 2
    HeaderDetails,  \* how many detail parts a header may announce
    Flaws,          \* how messages may be malformed (see Message)
    MaxFlaws,       \* bound on the number of malformed messages
    ParseErrors,    \* the codes stream2_parse_msg may fail with
    FrameFails      \* may getFrame find no memory for the NDArray?

Versions == {1, 2}                      \* StreamVersion
AllFlaws == {"unreadable", "shape", "extra"}

ASSUME ConstantsAssumption ==
    /\ {MaxSeries, NumImages, Channels} \subseteq Nat \ {0}
    /\ HeaderDetails \subseteq Nat
    /\ Flaws \subseteq AllFlaws /\ MaxFlaws \in Nat
    /\ ParseErrors \subseteq 1 .. 5
    /\ FrameFails \in BOOLEAN

Series == 0 .. MaxSeries

(* What the task makes an NDArray of; and what it has before the first. *)
Array == [series : Series, image : 1 .. NumImages, thresh : 0 .. Channels - 1]
NoArray == [series |-> 0, image |-> 0, thresh |-> 0]

VARIABLES
    dataSource, streamVersion,  \* parameters; dataSource: is it Stream?
    open,                       \* the versions with a client object
    socket,                     \* what each has received and not read
    flawed,                     \* the versions whose socket got a bad message
    flaws,                      \* how many there were
    series, detector, taken, sent,  \* the detector's series and its images
    ctlPc,                      \* controlTask
    mStreamEvent, mStreamDoneEvent, mStreamComplete,
    streamPc, version,          \* streamTask; the version it latched
    image, thresh,              \* the image it works on
    numImagesCounter,
    published, last,            \* the NDArrays of this acquisition, and the last
    newest,                     \* history: the last of each version
    misled                      \* has it used an array it was not given?

clientVars == <<dataSource, streamVersion, open>>
detVars == <<series, detector, taken, sent>>
eventVars == <<mStreamEvent, mStreamDoneEvent, mStreamComplete>>
arrayVars == <<numImagesCounter, published, last, newest, misled>>
taskVars == <<streamPc, version, image, thresh, arrayVars>>
socketVars == <<socket, flawed, flaws>>
vars == <<clientVars, socketVars, detVars, ctlPc, eventVars, taskVars>>

Init ==
    /\ dataSource = FALSE /\ streamVersion \in Versions /\ open = {}
    /\ socket = [v \in Versions |-> <<>>]
    /\ flawed = {} /\ flaws = 0
    /\ series = 0 /\ detector = "idle" /\ taken = 0 /\ sent = {}
    /\ ctlPc = "idle"
    /\ mStreamEvent = FALSE /\ mStreamDoneEvent = FALSE /\ mStreamComplete = FALSE
    /\ streamPc = "wait" /\ version = 1
    /\ image = [series |-> 0, num |-> 0] /\ thresh = 0
    /\ numImagesCounter = 0 /\ published = {} /\ last = NoArray
    /\ newest = [v \in Versions |-> NoArray] /\ misled = FALSE

-----------------------------------------------------------------------------
(* What the detector sends.  A message of version 1 is flawed when its     *)
(* first part is unreadable, when the shape of its image is, or when it    *)
(* has one part more than announced (an appendix).                         *)

\* One ZeroMQ part.  num: of its image, or of the details that follow;
\* ok: it can be parsed and has the tokens it should have.
FirstPart(kind, s, n, flaw) ==
    [kind |-> kind, series |-> s, num |-> n, ok |-> flaw # "unreadable"]

LaterParts(kind, s, n, flaw) ==
    CASE kind = "header" ->
            [k \in 1 .. (IF flaw = "extra" THEN n + 1 ELSE n) |->
                [kind |-> "detail", series |-> s, num |-> 0, ok |-> TRUE]]
      [] kind = "image" ->
            <<[kind |-> "shape", series |-> s, num |-> n, ok |-> flaw # "shape"],
              [kind |-> "data", series |-> s, num |-> n, ok |-> TRUE],
              [kind |-> "time", series |-> s, num |-> n, ok |-> TRUE]>>
            \o (IF flaw = "extra"
                THEN <<[kind |-> "detail", series |-> s, num |-> 0, ok |-> TRUE]>>
                ELSE <<>>)
      [] OTHER -> <<>>

Message(kind, s, n, flaw) ==
    <<FirstPart(kind, s, n, flaw)>>
    \o (IF streamVersion = 1 THEN LaterParts(kind, s, n, flaw) ELSE <<>>)

Transmit(kind, s, n) ==
    \E flaw \in {"none"} \cup (IF flaws < MaxFlaws THEN Flaws ELSE {}) :
        /\ socket' = [socket EXCEPT ![streamVersion] = @ \o Message(kind, s, n, flaw)]
        /\ flawed' = IF flaw = "none" THEN flawed ELSE flawed \cup {streamVersion}
        /\ flaws' = IF flaw = "none" THEN flaws ELSE flaws + 1

(* An image is taken and sent, or dropped because the detector's buffer is *)
(* full.  The end message follows the last image, or an abort.             *)
Expose ==
    /\ detector = "armed" /\ taken < NumImages
    /\ taken' = taken + 1
    /\ \/ sent' = sent \cup {taken'} /\ Transmit("image", series, taken')
       \/ UNCHANGED <<sent, socketVars>>
    /\ UNCHANGED <<series, detector, clientVars, ctlPc, eventVars, taskVars>>

DetectorEnds ==
    /\ detector = "armed"
    /\ detector' = "idle"
    /\ Transmit("end", series, 0)
    /\ UNCHANGED <<series, taken, sent, clientVars, ctlPc, eventVars, taskVars>>

-----------------------------------------------------------------------------
(* The port thread, between acquisitions. *)

(* A write of DataSource or StreamVersion that leaves the source Stream    *)
(* creates the client object of the version, if there is none.             *)
WriteStream ==
    /\ ctlPc = "idle"
    /\ dataSource' = TRUE
    /\ streamVersion' \in Versions
    /\ open' = open \cup {streamVersion'}
    /\ UNCHANGED <<socketVars, detVars, ctlPc, eventVars, taskVars>>

(* A write that makes the source something else deletes both. *)
WriteOther ==
    /\ ctlPc = "idle" /\ dataSource
    /\ dataSource' = FALSE
    /\ open' = {}
    /\ socket' = [v \in Versions |-> <<>>]
    /\ flawed' = {}
    /\ UNCHANGED <<streamVersion, flaws, detVars, ctlPc, eventVars, taskVars>>

-----------------------------------------------------------------------------
(* controlTask, as far as streamTask takes part.  Armed, the detector      *)
(* sends the header.                                                       *)

CtlArm ==
    /\ ctlPc = "idle" /\ dataSource
    /\ series < MaxSeries
    /\ series' = series + 1
    /\ detector' = "armed" /\ taken' = 0 /\ sent' = {}
    /\ \E n \in HeaderDetails : Transmit("header", series', n)
    /\ ctlPc' = "armed"
    /\ UNCHANGED <<clientVars, eventVars, taskVars>>

CtlStart ==
    /\ ctlPc = "armed"
    /\ mStreamComplete' = FALSE
    /\ mStreamEvent' = TRUE
    /\ numImagesCounter' = 0
    /\ published' = {}
    /\ ctlPc' = "acquire"
    /\ UNCHANGED <<mStreamDoneEvent, clientVars, socketVars, detVars, streamPc,
                   version, image, thresh, last, newest, misled>>

(* The detector is no longer acquiring: it is done, or was aborted or      *)
(* disarmed.                                                               *)
CtlDisarm ==
    /\ ctlPc = "acquire" /\ detector = "idle"
    /\ ctlPc' = "join"
    /\ UNCHANGED <<clientVars, socketVars, detVars, eventVars, taskVars>>

CtlJoin ==
    /\ ctlPc = "join" /\ mStreamDoneEvent
    /\ mStreamDoneEvent' = FALSE
    /\ ctlPc' = "idle"
    /\ UNCHANGED <<mStreamEvent, mStreamComplete, clientVars, socketVars,
                   detVars, taskVars>>

Control == CtlArm \/ CtlStart \/ CtlDisarm \/ CtlJoin

-----------------------------------------------------------------------------
(* streamTask. *)

Received == socket[version]
DropParts(n) == socket' = [socket EXCEPT ![version] = SubSeq(@, n + 1, Len(@))]

StreamWake ==
    /\ streamPc = "wait" /\ mStreamEvent
    /\ mStreamEvent' = FALSE
    /\ version' = streamVersion
    /\ streamPc' = "header"
    /\ UNCHANGED <<mStreamDoneEvent, mStreamComplete, clientVars, socketVars,
                   detVars, ctlPc, image, thresh, arrayVars>>

(* What getHeader and waitFrame return for the first part they receive:    *)
(* "success", "stray" or a code that makes the task try again ("again")    *)
(* or give up ("error").                                                   *)
HeaderResults1(p) ==
    IF ~p.ok \/ p.kind \in {"detail", "data"} THEN {"error"}  \* no JSON, no htype
    ELSE IF p.kind = "header" THEN {"success"}
    ELSE {"again"}                              \* STREAM_WRONG_HTYPE

(* Version 2 returns the codes of stream2_parse_msg as they are; 1 and 2   *)
(* read as STREAM_TIMEOUT and STREAM_WRONG_HTYPE.                          *)
HeaderResults2(p) ==
    IF ~p.ok THEN {IF code \in {1, 2} THEN "again" ELSE "error" : code \in ParseErrors}
    ELSE IF p.kind = "header" THEN {"success"} ELSE {"error"}

(* The detail parts a header announces are skipped; with a flawed header   *)
(* nothing but its first part is read.                                     *)
SkipNothing(p) == 0
SkippedParts(p) == IF version = 1 /\ p.kind = "header" /\ p.ok THEN p.num ELSE 0

GetHeader ==
    /\ streamPc = "header" /\ Received # <<>>
    /\ LET p == Head(Received)
       IN \E result \in IF version = 1 THEN HeaderResults1(p) ELSE HeaderResults2(p) :
             /\ DropParts(1 + SkippedParts(p))
             /\ streamPc' = CASE result = "success" -> "frame"
                              [] result = "again" -> "header"
                              [] OTHER -> "end"
    /\ UNCHANGED <<clientVars, flawed, flaws, detVars, ctlPc, eventVars, version, image,
                   thresh, arrayVars>>

FrameResults(p) ==
    IF ~p.ok /\ version = 2
    THEN {IF code = 1 THEN "again" ELSE "error" : code \in ParseErrors}
    ELSE IF p.ok /\ p.kind = "image" THEN {"success"}
    ELSE IF p.ok /\ p.kind = "end" THEN {"end"}
    ELSE {"error"}

AfterErrorAgain == "frame"
AfterError == "end"

(* waitFrame has no timeout. *)
WaitFrame ==
    /\ streamPc = "frame" /\ Received # <<>>
    /\ LET p == Head(Received)
       IN \E result \in FrameResults(p) :
             /\ DropParts(1)
             /\ streamPc' = CASE result = "success" -> "array"
                              [] result = "again" -> "frame"
                              [] result = "end" -> "end"
                              [] OTHER -> AfterError
             /\ mStreamComplete' = (mStreamComplete \/ result = "end")
             /\ image' = IF result = "success" THEN [series |-> p.series, num |-> p.num]
                         ELSE image
    /\ thresh' = 0
    /\ UNCHANGED <<mStreamEvent, mStreamDoneEvent, clientVars, flawed, flaws, detVars,
                   ctlPc, version, arrayVars>>

SameThreshold(t) == IF version = 1 THEN t + 1 ELSE t
NextThreshold(t) == t + 1
NumThresholds == IF version = 1 THEN 1 ELSE Channels

Publish(array) ==
    /\ numImagesCounter' = numImagesCounter + 1
    /\ published' = published \cup {array}
    /\ last' = array
    /\ newest' = [newest EXCEPT ![version] = array]
    /\ thresh' = NextThreshold(thresh)
    /\ streamPc' = IF NextThreshold(thresh) = NumThresholds THEN "frame" ELSE "array"

(* getFrame reads the rest of the image, and the array is published. *)
GetFrame ==
    /\ streamPc = "array"
    /\ version = 1 => Head(Received).ok
    /\ DropParts(IF version = 1 THEN 3 ELSE 0)
    /\ Publish([series |-> image.series, image |-> image.num, thresh |-> thresh])
    /\ UNCHANGED <<clientVars, flawed, flaws, detVars, ctlPc, eventVars, version,
                   image, misled>>

(* It fails after the shape, and returns no array.  The result is not      *)
(* looked at: the task uses the pointer it has not been given.  If that    *)
(* does not end the IOC, it is the pointer to the array released last.     *)
GetFrameFail ==
    /\ streamPc = "array"
    /\ FrameFails \/ (version = 1 /\ ~Head(Received).ok)
    /\ DropParts(IF version = 1 THEN 1 ELSE 0)
    /\ misled' = TRUE
    /\ \/ /\ streamPc' = "crashed"
          /\ UNCHANGED <<numImagesCounter, published, last, newest, thresh>>
       \/ last # NoArray /\ Publish(last)
    /\ UNCHANGED <<clientVars, flawed, flaws, detVars, ctlPc, eventVars, version, image>>

StreamEnd ==
    /\ streamPc = "end"
    /\ mStreamDoneEvent' = TRUE
    /\ streamPc' = "wait"
    /\ UNCHANGED <<mStreamEvent, mStreamComplete, clientVars, socketVars,
                   detVars, ctlPc, version, image, thresh, arrayVars>>

Stream == StreamWake \/ GetHeader \/ WaitFrame \/ GetFrame \/ GetFrameFail \/ StreamEnd

-----------------------------------------------------------------------------
(* A crashed IOC takes no more steps. *)
Next ==
    \/ Expose \/ DetectorEnds
    \/ streamPc # "crashed" /\ (WriteStream \/ WriteOther \/ Control)
    \/ Stream

(* streamTask runs.  Nothing obliges the detector to take images, or the   *)
(* user to acquire.                                                        *)
Fairness == WF_vars(Stream)

Spec == Init /\ [][Next]_vars
FairSpec == Spec /\ Fairness
-----------------------------------------------------------------------------
(* Properties. *)

(* One array is before another when its series, image and threshold are. *)
Before(a, b) ==
    \/ a.series < b.series
    \/ a.series = b.series /\ a.image < b.image
    \/ a.series = b.series /\ a.image = b.image /\ a.thresh < b.thresh

(* Whatever messages were unreadable and however far behind the task is,   *)
(* it publishes no array of a version twice and none out of order (as long *)
(* as getFrame has given it one every time).  Of both versions together    *)
(* that is not so: a client left behind keeps old images while the task    *)
(* reads the other, and they come out when StreamVersion is set back.      *)
PublishedInOrder ==
    [][numImagesCounter' > numImagesCounter /\ ~misled' =>
           Before(newest[version], newest'[version])]_vars

(* If nothing malformed has arrived since the client object was created,   *)
(* then when the task reports it has published exactly the images that     *)
(* were sent, with all their thresholds; it says so in mStreamComplete;    *)
(* and it leaves nothing in the socket for the next acquisition to read.   *)
CompleteUnlessFlawed ==
    mStreamDoneEvent /\ flawed = {} /\ ~misled =>
        /\ mStreamComplete
        /\ published = [series : {series}, image : sent, thresh : 0 .. NumThresholds - 1]
        /\ Received = <<>>

(* mStreamDoneEvent.wait() has no timeout, and waitFrame has none either:  *)
(* once the detector has stopped, the task reports, whatever was malformed *)
(* and whatever earlier acquisitions left in the socket.                   *)
StreamReports == ctlPc = "join" ~> (mStreamDoneEvent \/ streamPc = "crashed")

(* "When the next acquisition started it read stale messages from the      *)
(* socket" (RELEASE.md R3-3, as fixed): the arrays published during an     *)
(* acquisition are of its own series.                                      *)
NoStaleImages ==
    [][numImagesCounter' > numImagesCounter => last'.series = series]_vars
=============================================================================
