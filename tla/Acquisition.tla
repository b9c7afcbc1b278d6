------------------------------ MODULE Acquisition ------------------------------
(***************************************************************************)
(* The life of an acquisition in eigerDetector.cpp: controlTask, the port  *)
(* thread that serves writeInt32, pollTask and streamTask as far as        *)
(* controlTask starts and joins them, and the detector they command.       *)
(*                                                                         *)
(* The asynPortDriver lock makes each stretch of code between lock() and   *)
(* unlock() one step.  controlTask holds it across "loop" and "fetch", two *)
(* points at which only what needs no lock may happen.  REST commands are  *)
(* sent without it, so anything may happen around them.  An epicsEvent is  *)
(* a Boolean: signalling a set event is lost, waiting clears it.           *)
(***************************************************************************)
EXTENDS Naturals

CONSTANTS
    NumImages, NumTriggers, \* of every acquisition
    TriggerModes,           \* the [trigger, manual] settings it may have
    Thresholds,             \* NDArrays, and counts, per image
    ArmFails,               \* may RestAPI::arm fail?
    RequestsFail,           \* may requests fail whose result is not looked at, and
                            \* arm although the detector obeyed?
    StreamErrors,           \* may the stream fail before its end message?
    EarlyStarts,            \* is ADAcquire set before the last acquisition is over?
    EarlyStops,             \* is it reset before controlTask has seen the start?
    Reconfigures            \* may DataSource be written during an acquisition?

TriggerMode == [trigger : {"internal", "continuous", "external"}, manual : BOOLEAN]

ASSUME ConstantsAssumption ==
    /\ {NumImages, NumTriggers, Thresholds} \subseteq Nat \ {0}
    /\ TriggerModes \subseteq TriggerMode
    /\ {ArmFails, RequestsFail, StreamErrors, EarlyStarts, EarlyStops, Reconfigures} \subseteq BOOLEAN

Expected == NumImages * NumTriggers     \* expectedImages
AllArrays == Thresholds * Expected      \* as many NDArrays as they make

Sources == {"none", "files", "stream"}

(* What controlTask latches at the start: the trigger mode ("internal" is  *)
(* Internal Series or Enable), which tasks take part, and whether pollTask *)
(* has the files parsed.                                                   *)
Settings == [mode : TriggerMode, poll : BOOLEAN, parse : BOOLEAN, stream : BOOLEAN]

VARIABLES
    \* parameters, under the driver lock
    adStatus, adAcquire, armed, dataSource, numImagesCounter,
    \* events
    mStartEvent, mStopEvent, mTriggerEvent, mPollDoneEvent, mStreamEvent,
    mStreamDoneEvent,
    ctlPc, setting, triggers,   \* controlTask and its locals
    fetched,                    \* state # "": has it fetched the detector's state?
    portPc,                     \* writeInt32(ADAcquire, 0) on the port thread
    pollPc, mPollStop,          \* pollTask; "requested" while mPollQueue is full
    streamPc, mStreamAPI,       \* streamTask; is there a StreamAPI object?
    detector, images,           \* detector state, images it has taken
    lateTriggers                \* trigger commands sent after a stop

params == <<adStatus, adAcquire, armed, dataSource, numImagesCounter>>
startStop == <<mStartEvent, mStopEvent, mTriggerEvent>>
pollVars == <<mPollDoneEvent, pollPc, mPollStop>>
streamVars == <<mStreamEvent, mStreamDoneEvent, streamPc, mStreamAPI>>
ctlLocals == <<setting, triggers, fetched>>
detVars == <<detector, images>>
vars == <<params, startStop, pollVars, streamVars, ctlPc, ctlLocals, portPc,
          detVars, lateTriggers>>

ControlPoints ==
    {"ready", "started", "arming", "armed", "loop", "waitTrigger", "trigger",
     "exposing", "fetch", "waitStop", "disarm", "disarmed", "fwState",
     "joinPoll", "joinStream", "finish"}

(* Can a thread other than controlTask take the driver lock? *)
LockFree == ctlPc \notin {"loop", "fetch"}

(* The detector's state after a command that makes it s, if it obeys. *)
After(s) == {s} \cup (IF RequestsFail THEN {detector} ELSE {})

(* controlTask waits for a start, and none is pending. *)
AtRest == ctlPc = "ready" /\ ~mStartEvent

Init ==
    /\ adStatus = "Idle" /\ adAcquire = FALSE /\ armed = FALSE
    /\ dataSource \in Sources
    /\ mStreamAPI = (dataSource = "stream")
    /\ numImagesCounter = 0
    /\ mStartEvent = FALSE /\ mStopEvent = FALSE /\ mTriggerEvent = FALSE
    /\ mPollDoneEvent = FALSE /\ mStreamEvent = FALSE /\ mStreamDoneEvent = FALSE
    /\ ctlPc = "ready" /\ triggers = 0 /\ fetched = FALSE
    /\ setting = [mode |-> [trigger |-> "internal", manual |-> FALSE],
                  poll |-> FALSE, parse |-> FALSE, stream |-> FALSE]
    /\ portPc = "idle"
    /\ pollPc = "receive" /\ mPollStop = FALSE
    /\ streamPc = "wait"
    /\ detector = "idle" /\ images = 0
    /\ lateTriggers = 0

-----------------------------------------------------------------------------
(* The port thread: writes are served one at a time. *)

CanWrite == portPc = "idle" /\ LockFree

(* ADAcquire := 1 *)
WriteStart ==
    /\ CanWrite
    /\ EarlyStarts \/ (AtRest /\ ~adAcquire)
    /\ IF adStatus # "Acquire"
       THEN adStatus' = "Acquire" /\ mStartEvent' = TRUE
       ELSE UNCHANGED <<adStatus, mStartEvent>>
    /\ adAcquire' = TRUE
    /\ UNCHANGED <<armed, dataSource, numImagesCounter, mStopEvent, mTriggerEvent,
                   pollVars, streamVars, ctlPc, ctlLocals, portPc, detVars,
                   lateTriggers>>

(* ADAcquire := 0 with nothing to stop *)
WriteDone ==
    /\ CanWrite
    /\ adStatus # "Acquire"
    /\ adAcquire' = FALSE
    /\ UNCHANGED <<adStatus, armed, dataSource, numImagesCounter, startStop,
                   pollVars, streamVars, ctlPc, ctlLocals, portPc, detVars,
                   lateTriggers>>

(* ADAcquire := 0 during an acquisition, up to the unlock *)
WriteStop ==
    /\ CanWrite
    /\ EarlyStops \/ (ctlPc # "started" /\ ~mStartEvent)
    /\ adStatus = "Acquire"
    /\ adStatus' = "Aborted"
    /\ portPc' = "abort"
    /\ UNCHANGED <<adAcquire, armed, dataSource, numImagesCounter, startStop,
                   pollVars, streamVars, ctlPc, ctlLocals, detVars, lateTriggers>>

(* RestAPI::abort *)
PortAbort ==
    /\ portPc = "abort"
    /\ detector' \in After("idle")
    /\ portPc' = "aborted"
    /\ UNCHANGED <<params, startStop, pollVars, streamVars, ctlPc, ctlLocals,
                   images, lateTriggers>>

(* ... and from the lock on *)
PortAbortedQuietly ==
    /\ portPc = "aborted" /\ LockFree
    /\ adAcquire' = FALSE
    /\ portPc' = "idle"
    /\ UNCHANGED <<adStatus, armed, dataSource, numImagesCounter, startStop,
                   pollVars, streamVars, ctlPc, ctlLocals, detVars, lateTriggers>>

PortAborted ==
    /\ portPc = "aborted" /\ LockFree
    /\ mStopEvent' = TRUE
    /\ adAcquire' = FALSE
    /\ portPc' = "idle"
    /\ UNCHANGED <<adStatus, armed, dataSource, numImagesCounter, mStartEvent,
                   mTriggerEvent, pollVars, streamVars, ctlPc, ctlLocals, detVars,
                   lateTriggers>>

(* The Trigger record. *)
WriteTrigger ==
    /\ CanWrite
    /\ mTriggerEvent' = TRUE
    /\ UNCHANGED <<params, mStartEvent, mStopEvent, pollVars, streamVars, ctlPc,
                   ctlLocals, portPc, detVars, lateTriggers>>

(* DataSource: a StreamAPI object exists exactly while it is Stream. *)
WriteDataSource ==
    /\ CanWrite
    /\ Reconfigures \/ AtRest
    /\ dataSource' \in Sources
    /\ mStreamAPI' = (dataSource' = "stream")
    /\ UNCHANGED <<adStatus, adAcquire, armed, numImagesCounter, startStop, pollVars,
                   mStreamEvent, mStreamDoneEvent, streamPc, ctlPc, ctlLocals,
                   portPc, detVars, lateTriggers>>

-----------------------------------------------------------------------------
(* controlTask. *)

CtlStart ==
    /\ ctlPc = "ready" /\ mStartEvent
    /\ mStartEvent' = FALSE
    /\ ctlPc' = "started"
    /\ UNCHANGED <<params, mStopEvent, mTriggerEvent, pollVars, streamVars,
                   ctlLocals, portPc, detVars, lateTriggers>>

(* With the lock again: uncaught events are cleared and the settings       *)
(* latched.  FileWriter or Stream may be disabled, or the file path wrong. *)
CtlLatch ==
    /\ ctlPc = "started"
    /\ mStopEvent' = FALSE /\ mTriggerEvent' = FALSE
    /\ mPollDoneEvent' = FALSE /\ mStreamEvent' = FALSE
    /\ \E mode \in TriggerModes, poll, parse, stream \in BOOLEAN :
          /\ parse <=> dataSource = "files"
          /\ stream <=> dataSource = "stream"
          /\ parse => poll
          /\ setting' = [mode |-> mode, poll |-> poll, parse |-> parse,
                          stream |-> stream]
    /\ lateTriggers' = 0
    /\ \/ /\ adStatus' = "Acquire"
          /\ ctlPc' = "arming"
          /\ UNCHANGED adAcquire
       \/ /\ adStatus' = "Error"
          /\ adAcquire' = FALSE
          /\ ctlPc' = "ready"
    /\ UNCHANGED <<armed, dataSource, numImagesCounter, mStartEvent, pollPc,
                   mPollStop, mStreamDoneEvent, streamPc, mStreamAPI, triggers,
                   fetched, portPc, detVars>>

CtlArm ==
    /\ ctlPc = "arming"
    /\ detector' = "ready"
    /\ images' = 0
    /\ ctlPc' = "armed"
    /\ UNCHANGED <<params, startStop, pollVars, streamVars, ctlLocals, portPc,
                   lateTriggers>>

(* It fails: refused, or the answer late or unreadable. *)
CtlArmFail ==
    /\ ArmFails
    /\ ctlPc = "arming"
    /\ \/ UNCHANGED detVars
       \/ RequestsFail /\ detector' = "ready" /\ images' = 0
    /\ adAcquire' = FALSE
    /\ adStatus' = "Error"
    /\ ctlPc' = "ready"
    /\ UNCHANGED <<armed, dataSource, numImagesCounter, startStop, pollVars,
                   streamVars, ctlLocals, portPc, lateTriggers>>

(* The tasks that take part are set to work. *)
CtlArmed ==
    /\ ctlPc = "armed"
    /\ numImagesCounter' = 0
    /\ armed' = TRUE
    /\ IF setting.poll THEN mPollStop' = FALSE /\ pollPc' = "requested"
                       ELSE UNCHANGED <<mPollStop, pollPc>>
    /\ IF setting.stream THEN mStreamEvent' = TRUE ELSE UNCHANGED mStreamEvent
    /\ triggers' = 0 /\ fetched' = FALSE
    /\ ctlPc' = "loop"
    /\ UNCHANGED <<adStatus, adAcquire, dataSource, startStop, mPollDoneEvent,
                   mStreamDoneEvent, streamPc, mStreamAPI, setting, portPc, detVars,
                   lateTriggers>>

OneTriggerMore == adStatus = "Acquire" /\ triggers <= NumTriggers
TriggersRegardless == triggers < NumTriggers
TriggersLeft == adStatus = "Acquire" /\ triggers < NumTriggers

(* The head of the trigger loop; external triggers skip it. *)
CtlLoop ==
    /\ ctlPc = "loop"
    /\ ctlPc' = IF setting.mode.trigger = "external" \/ ~TriggersLeft THEN "fetch"
                ELSE IF setting.mode.manual THEN "waitTrigger" ELSE "trigger"
    /\ UNCHANGED <<params, startStop, pollVars, streamVars, ctlLocals, portPc,
                   detVars, lateTriggers>>

CtlTriggerEvent ==
    /\ ctlPc = "waitTrigger" /\ mTriggerEvent
    /\ mTriggerEvent' = FALSE
    /\ ctlPc' = "trigger"
    /\ UNCHANGED <<params, mStartEvent, mStopEvent, pollVars, streamVars, ctlLocals,
                   portPc, detVars, lateTriggers>>

CtlTriggerTimeout ==
    /\ ctlPc = "waitTrigger" /\ ~mTriggerEvent
    /\ ctlPc' = "loop"
    /\ UNCHANGED <<params, startStop, pollVars, streamVars, ctlLocals, portPc,
                   detVars, lateTriggers>>

(* RestAPI::trigger: only an armed detector obeys. *)
CtlTrigger ==
    /\ ctlPc = "trigger"
    /\ detector' \in IF detector = "ready" THEN After("acquire") ELSE {detector}
    /\ lateTriggers' = IF adStatus = "Acquire" THEN lateTriggers ELSE lateTriggers + 1
    /\ ctlPc' = "exposing"
    /\ UNCHANGED <<params, startStop, pollVars, streamVars, ctlLocals, portPc, images>>

(* It returns when the exposure is over, or on its timeout. *)
CtlTriggerReturn ==
    /\ ctlPc = "exposing"
    /\ triggers' = triggers + 1
    /\ ctlPc' = "loop"
    /\ UNCHANGED <<params, startStop, pollVars, streamVars, setting, fetched, portPc, detVars,
                   lateTriggers>>

CountPassed == numImagesCounter > Expected
CountAlmost == numImagesCounter + 1 >= Expected
CountReached == numImagesCounter >= Expected

(* The detector's state is fetched and the image count read; the lock is   *)
(* then released.  A fetch that fails leaves the state as it was, which is *)
(* the empty string before the first that succeeds.                        *)
CtlFetch ==
    /\ ctlPc = "fetch"
    /\ \/ /\ fetched' = TRUE
          /\ ctlPc' = IF CountReached \/ detector \notin {"ready", "acquire"}
                      THEN "disarm" ELSE "waitStop"
       \/ /\ RequestsFail
          /\ UNCHANGED fetched
          /\ ctlPc' = IF CountReached \/ ~fetched THEN "disarm" ELSE "waitStop"
    /\ UNCHANGED <<params, startStop, pollVars, streamVars, setting, triggers, portPc,
                   detVars, lateTriggers>>

CtlStopEventLeave ==
    /\ ctlPc = "waitStop" /\ mStopEvent
    /\ mStopEvent' = FALSE
    /\ ctlPc' = "finish"
    /\ UNCHANGED <<params, mStartEvent, mTriggerEvent, pollVars, streamVars,
                   ctlLocals, portPc, detVars, lateTriggers>>

CtlStopEvent ==
    /\ ctlPc = "waitStop" /\ mStopEvent
    /\ mStopEvent' = FALSE
    /\ ctlPc' = "disarm"
    /\ UNCHANGED <<params, mStartEvent, mTriggerEvent, pollVars, streamVars,
                   ctlLocals, portPc, detVars, lateTriggers>>

CtlStopTimeout ==
    /\ ctlPc = "waitStop" /\ ~mStopEvent
    /\ ctlPc' = "fetch"
    /\ UNCHANGED <<params, startStop, pollVars, streamVars, ctlLocals, portPc,
                   detVars, lateTriggers>>

CtlDisarm ==
    /\ ctlPc = "disarm"
    /\ detector' \in After("idle")
    /\ ctlPc' = "disarmed"
    /\ UNCHANGED <<params, startStop, pollVars, streamVars, ctlLocals, portPc, images,
                   lateTriggers>>

AfterPoll == IF setting.stream THEN "joinStream" ELSE "finish"

CtlDisarmed ==
    /\ ctlPc = "disarmed"
    /\ armed' = FALSE
    /\ ctlPc' = IF setting.poll THEN "fwState" ELSE AfterPoll
    /\ UNCHANGED <<adStatus, adAcquire, dataSource, numImagesCounter, startStop,
                   pollVars, streamVars, ctlLocals, portPc, detVars, lateTriggers>>

(* The FileWriter has left "acquire". *)
CtlStopPoll ==
    /\ ctlPc = "fwState"
    /\ mPollStop' = TRUE
    /\ ctlPc' = "joinPoll"
    /\ UNCHANGED <<params, startStop, mPollDoneEvent, pollPc, streamVars, ctlLocals,
                   portPc, detVars, lateTriggers>>

CtlJoinPoll ==
    /\ ctlPc = "joinPoll" /\ mPollDoneEvent
    /\ mPollDoneEvent' = FALSE
    /\ ctlPc' = AfterPoll
    /\ UNCHANGED <<params, startStop, pollPc, mPollStop, streamVars, ctlLocals,
                   portPc, detVars, lateTriggers>>

CtlJoinStreamAtOnce ==
    /\ ctlPc = "joinStream"
    /\ ctlPc' = "finish"
    /\ UNCHANGED <<params, startStop, pollVars, streamVars, ctlLocals, portPc,
                   detVars, lateTriggers>>

CtlJoinStream ==
    /\ ctlPc = "joinStream" /\ mStreamDoneEvent
    /\ mStreamDoneEvent' = FALSE
    /\ ctlPc' = "finish"
    /\ UNCHANGED <<params, startStop, pollVars, mStreamEvent, streamPc, mStreamAPI,
                   ctlLocals, portPc, detVars, lateTriggers>>

CtlFinishQuietly ==
    /\ ctlPc = "finish"
    /\ adStatus' = IF adStatus = "Acquire" THEN "Idle" ELSE adStatus
    /\ ctlPc' = "ready"
    /\ UNCHANGED <<adAcquire, armed, dataSource, numImagesCounter, startStop, pollVars,
                   streamVars, ctlLocals, portPc, detVars, lateTriggers>>

(* The end: a continuous acquisition that was not stopped starts again. *)
CtlFinish ==
    /\ ctlPc = "finish"
    /\ ctlPc' = "ready"
    /\ IF adStatus = "Acquire" /\ setting.mode.trigger = "continuous"
       THEN mStartEvent' = TRUE /\ UNCHANGED <<adStatus, adAcquire>>
       ELSE /\ adStatus' = IF adStatus = "Acquire" THEN "Idle" ELSE adStatus
            /\ adAcquire' = FALSE
            /\ UNCHANGED mStartEvent
    /\ UNCHANGED <<armed, dataSource, numImagesCounter, mStopEvent, mTriggerEvent,
                   pollVars, streamVars, ctlLocals, portPc, detVars, lateTriggers>>

Control ==
    \/ CtlStart \/ CtlLatch \/ CtlArm \/ CtlArmFail \/ CtlArmed \/ CtlLoop
    \/ CtlTriggerEvent \/ CtlTriggerTimeout \/ CtlTrigger \/ CtlTriggerReturn
    \/ CtlFetch \/ CtlStopEvent \/ CtlStopTimeout \/ CtlDisarm \/ CtlDisarmed
    \/ CtlStopPoll \/ CtlJoinPoll \/ CtlJoinStream \/ CtlFinish

-----------------------------------------------------------------------------
(* pollTask, whose work is FilePipeline: it reports once, when asked to    *)
(* stop or when it has found every file.                                   *)

PollReceive ==
    /\ pollPc = "requested"
    /\ pollPc' = "work"
    /\ UNCHANGED <<params, startStop, mPollDoneEvent, mPollStop, streamVars, ctlPc,
                   ctlLocals, portPc, detVars, lateTriggers>>

PollReport ==
    /\ pollPc = "work"
    /\ mPollStop \/ images = Expected
    /\ mPollDoneEvent' = TRUE
    /\ pollPc' = "receive"
    /\ UNCHANGED <<params, startStop, mPollStop, streamVars, ctlPc, ctlLocals,
                   portPc, detVars, lateTriggers>>

-----------------------------------------------------------------------------
(* streamTask. *)

StreamWake ==
    /\ streamPc = "wait" /\ mStreamEvent
    /\ mStreamEvent' = FALSE
    /\ streamPc' = "woken"
    /\ UNCHANGED <<params, startStop, pollVars, mStreamDoneEvent, mStreamAPI, ctlPc,
                   ctlLocals, portPc, detVars, lateTriggers>>

(* Without a StreamAPI object it goes back to wait, and reports nothing. *)
StreamBegin ==
    /\ streamPc = "woken" /\ LockFree
    /\ streamPc' = IF mStreamAPI THEN "work" ELSE "wait"
    /\ UNCHANGED <<params, startStop, pollVars, mStreamEvent, mStreamDoneEvent,
                   mStreamAPI, ctlPc, ctlLocals, portPc, detVars, lateTriggers>>

(* The end message, which the detector sends behind the last image when    *)
(* the series is over or aborted; or an error, at any time.                *)
StreamEnd ==
    /\ streamPc = "work" /\ LockFree
    /\ StreamErrors \/ (detector = "idle" /\ numImagesCounter = Thresholds * images)
    /\ mStreamDoneEvent' = TRUE
    /\ streamPc' = "wait"
    /\ UNCHANGED <<params, startStop, pollVars, mStreamEvent, mStreamAPI, ctlPc,
                   ctlLocals, portPc, detVars, lateTriggers>>

Stream == StreamWake \/ StreamBegin \/ StreamEnd

(* streamTask or parseTask makes an NDArray of an image and counts it. *)
CountImage ==
    /\ LockFree
    /\ IF setting.stream THEN streamPc = "work"
       ELSE setting.parse /\ pollPc = "work"
    /\ numImagesCounter < Thresholds * images
    /\ numImagesCounter' = numImagesCounter + 1
    /\ UNCHANGED <<adStatus, adAcquire, armed, dataSource, startStop, pollVars,
                   streamVars, ctlPc, ctlLocals, portPc, detVars, lateTriggers>>

-----------------------------------------------------------------------------
(* The detector. *)

ExternalTrigger ==
    /\ setting.mode.trigger = "external"
    /\ detector = "ready" /\ images < Expected
    /\ detector' = "acquire"
    /\ UNCHANGED <<params, startStop, pollVars, streamVars, ctlPc, ctlLocals, portPc,
                   images, lateTriggers>>

(* An image is taken.  After NumImages of them the detector waits for the  *)
(* next trigger; after the last it is idle, except that an externally      *)
(* gated one may stay ready.                                               *)
Expose ==
    /\ detector = "acquire"
    /\ images' = images + 1
    /\ IF images' = Expected
       THEN \/ detector' = "idle"
            \/ setting.mode.trigger = "external" /\ detector' = "ready"
       ELSE detector' = IF images' % NumImages = 0 THEN "ready" ELSE "acquire"
    /\ UNCHANGED <<params, startStop, pollVars, streamVars, ctlPc, ctlLocals, portPc,
                   lateTriggers>>

-----------------------------------------------------------------------------
Port == WriteStart \/ WriteDone \/ WriteStop \/ PortAbort \/ PortAborted
        \/ WriteTrigger \/ WriteDataSource

Next == Port \/ Control \/ PollReceive \/ PollReport \/ Stream \/ CountImage
        \/ ExternalTrigger \/ Expose

(* The tasks run, and a thread that keeps asking for the driver lock gets  *)
(* it: controlTask gives it up for 0.1 s in every loop.  The user, the     *)
(* trigger source and the failures are not fair.                           *)
Fairness ==
    /\ WF_vars(Control) /\ WF_vars(PortAbort) /\ SF_vars(PortAborted)
    /\ WF_vars(PollReceive) /\ WF_vars(PollReport) /\ WF_vars(StreamWake)
    /\ SF_vars(StreamBegin) /\ SF_vars(StreamEnd) /\ SF_vars(CountImage)
    /\ WF_vars(Expose)

Spec == Init /\ [][Next]_vars
FairSpec == Spec /\ Fairness

-----------------------------------------------------------------------------
(* Properties. *)

(* The flags are Boolean. *)
FlagsOK ==
    /\ adAcquire \in BOOLEAN /\ armed \in BOOLEAN
    /\ mStartEvent \in BOOLEAN /\ mStopEvent \in BOOLEAN
    /\ mTriggerEvent \in BOOLEAN /\ mPollDoneEvent \in BOOLEAN
    /\ mStreamEvent \in BOOLEAN /\ mStreamDoneEvent \in BOOLEAN
    /\ mPollStop \in BOOLEAN /\ mStreamAPI \in BOOLEAN /\ fetched \in BOOLEAN

(* Types; and no acquisition takes, counts or triggers more than it was    *)
(* set up for, whatever is stopped, lost or started early: the counters    *)
(* of parseTask and streamTask and controlTask's trigger loop.             *)
TypeOK ==
    /\ FlagsOK
    /\ adStatus \in {"Idle", "Acquire", "Aborted", "Error"}
    /\ dataSource \in Sources
    /\ numImagesCounter \in 0 .. AllArrays
    /\ ctlPc \in ControlPoints /\ setting \in Settings
    /\ triggers \in 0 .. NumTriggers
    /\ portPc \in {"idle", "abort", "aborted"}
    /\ pollPc \in {"receive", "requested", "work"}
    /\ streamPc \in {"wait", "woken", "work"}
    /\ detector \in {"idle", "ready", "acquire"}
    /\ images \in 0 .. Expected
    /\ lateTriggers \in 0 .. NumTriggers

(* Whenever controlTask waits for a start, or has just got one, both       *)
(* helper tasks wait for work and none of their events is left over: an    *)
(* acquisition never joins the report of the one before it.                *)
CleanHandshake ==
    ctlPc \in {"ready", "started", "arming", "armed"} =>
        /\ pollPc = "receive" /\ streamPc = "wait"
        /\ ~mPollDoneEvent /\ ~mStreamEvent /\ ~mStreamDoneEvent

(* However the acquisition ended, the detector is disarmed, and ARMED says *)
(* so, when controlTask waits for the next start (if no command was lost). *)
DisarmedAtRest ==
    ctlPc \in {"ready", "started", "arming"} => detector = "idle" /\ ~armed

(* ADAcquire is what clients wait for: outside a stop in progress it is 1  *)
(* exactly while controlTask has work.                                     *)
AcquireTellsTheTruth ==
    portPc = "idle" /\ adStatus # "Aborted" => (adAcquire <=> ~AtRest)

(* After the user's stop at most one trigger command still goes out, the   *)
(* one controlTask was already committed to.                               *)
OneLateTrigger == lateTriggers <= 1

(* streamTask uses the StreamAPI object without the lock; it is not        *)
(* deleted meanwhile.                                                      *)
StreamAPIOutlivesUse == streamPc = "work" => mStreamAPI

(* controlTask ends an acquisition that was not stopped only when the      *)
(* detector is done or has taken all its images.                           *)
AllImagesTaken ==
    [][ctlPc = "fetch" /\ ctlPc' = "disarm" /\ adStatus = "Acquire"
       => detector = "idle" \/ images = Expected]_vars

(* A stop ends the acquisition: controlTask comes to rest, in continuous   *)
(* mode too.                                                               *)
StopEnds == portPc = "aborted" ~> AtRest

(* "In Continuous mode acquisition continues indefinitely once it is       *)
(* started, until the Acquire record is set to 0" (RELEASE.md R3-4): after *)
(* that it comes to rest, or is started anew.                              *)
ContinuousUntilStopped ==
    (portPc = "aborted" /\ setting.mode.trigger = "continuous")
    ~> (AtRest \/ adAcquire)

(* An externally triggered acquisition whose images arrive by the stream   *)
(* ends by itself after the last one, whatever state the detector reports. *)
CompleteEnds ==
    (/\ setting.mode.trigger = "external" /\ setting.stream
     /\ ctlPc = "waitStop" /\ images = Expected) ~> ctlPc = "ready"
=============================================================================
