--------------------------- MODULE AcquisitionProofs ---------------------------
(***************************************************************************)
(* Theorems about Acquisition, for every value of its constants: whatever  *)
(* the user does and whichever commands and streams fail, an acquisition   *)
(* starts from a clean handshake and a disarmed detector.                  *)
(***************************************************************************)
EXTENDS Acquisition, TLAPS

(* Where controlTask is while the tasks it started may be at work. *)
Running == {"loop", "waitTrigger", "trigger", "exposing", "fetch", "waitStop",
            "disarm", "disarmed", "fwState", "joinPoll"}

(* pollTask is busy, or its report waits, only for the acquisition that    *)
(* started it, up to its join; and it reports once.                        *)
PollOwned ==
    /\ (pollPc # "receive" \/ mPollDoneEvent) => setting.poll /\ ctlPc \in Running
    /\ ~(pollPc # "receive" /\ mPollDoneEvent)

(* The same for streamTask: its start, its work and its report follow each *)
(* other, so that at most one of them is outstanding.                      *)
StreamOwned ==
    /\ (mStreamEvent \/ streamPc # "wait" \/ mStreamDoneEvent)
       => setting.stream /\ ctlPc \in Running \cup {"joinStream"}
    /\ ~(mStreamEvent /\ streamPc # "wait")
    /\ ~(mStreamEvent /\ mStreamDoneEvent)
    /\ ~(streamPc # "wait" /\ mStreamDoneEvent)

(* The detector is armed only between RestAPI::arm and disarm, and ARMED   *)
(* is set only between the two places that assign it.                      *)
ArmedOwned ==
    /\ RequestsFail = FALSE /\ detector # "idle" => ctlPc \in (Running \cup {"armed"})
                            \ {"disarmed", "fwState", "joinPoll"}
    /\ armed => ctlPc \in Running \ {"fwState", "joinPoll"}

HandshakeInv == PollOwned /\ StreamOwned /\ ArmedOwned

(* It holds initially. *)
LEMMA HandshakeInit == Init => HandshakeInv
<1> SUFFICES ASSUME Init PROVE HandshakeInv
    OBVIOUS
<1> USE DEF Init
<1>1. PollOwned
  BY DEF PollOwned
<1>2. StreamOwned
  BY DEF StreamOwned
<1>3. ArmedOwned
  BY DEF ArmedOwned
<1> QED
  BY <1>1, <1>2, <1>3 DEF HandshakeInv

(* mPollQueue and mPollDoneEvent tie pollTask to one acquisition. *)
LEMMA PollStep == HandshakeInv /\ [Next]_vars => PollOwned'
<1> SUFFICES ASSUME HandshakeInv, [Next]_vars
             PROVE  PollOwned'
    OBVIOUS
<1> USE DEF HandshakeInv, PollOwned, Running,
            params, startStop, pollVars,
            streamVars, ctlLocals, detVars
<1>1. CASE Port
  BY <1>1 DEF Port, WriteStart, WriteDone, WriteStop, PortAbort, PortAborted,
     WriteTrigger, WriteDataSource
<1>2. CASE CtlStart \/ CtlLatch \/ CtlArm \/ CtlArmFail \/ CtlArmed
  BY <1>2 DEF CtlStart, CtlLatch, CtlArm, CtlArmFail, CtlArmed
<1>3. CASE CtlLoop \/ CtlTriggerEvent \/ CtlTriggerTimeout \/ CtlTrigger
           \/ CtlTriggerReturn
  BY <1>3 DEF CtlLoop, CtlTriggerEvent, CtlTriggerTimeout, CtlTrigger,
     CtlTriggerReturn
<1>4. CASE CtlFetch \/ CtlStopEvent \/ CtlStopTimeout \/ CtlDisarm \/ CtlDisarmed
  BY <1>4 DEF CtlFetch, CtlStopEvent, CtlStopTimeout, CtlDisarm, CtlDisarmed,
     AfterPoll
<1>5. CASE CtlStopPoll \/ CtlJoinPoll \/ CtlJoinStream \/ CtlFinish
  BY <1>5 DEF CtlStopPoll, CtlJoinPoll, CtlJoinStream, CtlFinish, AfterPoll
<1>6. CASE PollReceive \/ PollReport \/ Stream
  BY <1>6 DEF PollReceive, PollReport, Stream, StreamWake, StreamBegin, StreamEnd
<1>7. CASE CountImage \/ ExternalTrigger \/ Expose
  BY <1>7 DEF CountImage, ExternalTrigger, Expose
<1>8. CASE UNCHANGED vars
  BY <1>8 DEF vars
<1> QED
  BY <1>1, <1>2, <1>3, <1>4, <1>5, <1>6, <1>7, <1>8 DEF Next, Control

(* mStreamEvent and mStreamDoneEvent do the same for streamTask. *)
LEMMA StreamStep == HandshakeInv /\ [Next]_vars => StreamOwned'
<1> SUFFICES ASSUME HandshakeInv, [Next]_vars
             PROVE  StreamOwned'
    OBVIOUS
<1> USE DEF HandshakeInv, StreamOwned, Running,
            params, startStop, pollVars,
            streamVars, ctlLocals, detVars
<1>1. CASE Port
  BY <1>1 DEF Port, WriteStart, WriteDone, WriteStop, PortAbort, PortAborted,
     WriteTrigger, WriteDataSource
<1>2. CASE CtlStart \/ CtlLatch \/ CtlArm \/ CtlArmFail \/ CtlArmed
  BY <1>2 DEF CtlStart, CtlLatch, CtlArm, CtlArmFail, CtlArmed
<1>3. CASE CtlLoop \/ CtlTriggerEvent \/ CtlTriggerTimeout \/ CtlTrigger
           \/ CtlTriggerReturn
  BY <1>3 DEF CtlLoop, CtlTriggerEvent, CtlTriggerTimeout, CtlTrigger,
     CtlTriggerReturn
<1>4. CASE CtlFetch \/ CtlStopEvent \/ CtlStopTimeout \/ CtlDisarm \/ CtlDisarmed
  BY <1>4 DEF CtlFetch, CtlStopEvent, CtlStopTimeout, CtlDisarm, CtlDisarmed,
     AfterPoll
<1>5. CASE CtlStopPoll \/ CtlJoinPoll \/ CtlJoinStream \/ CtlFinish
  BY <1>5 DEF CtlStopPoll, CtlJoinPoll, CtlJoinStream, CtlFinish, AfterPoll
<1>6. CASE PollReceive \/ PollReport \/ Stream
  BY <1>6 DEF PollReceive, PollReport, Stream, StreamWake, StreamBegin, StreamEnd
<1>7. CASE CountImage \/ ExternalTrigger \/ Expose
  BY <1>7 DEF CountImage, ExternalTrigger, Expose
<1>8. CASE UNCHANGED vars
  BY <1>8 DEF vars
<1> QED
  BY <1>1, <1>2, <1>3, <1>4, <1>5, <1>6, <1>7, <1>8 DEF Next, Control

(* Every way out of an acquisition passes through the disarm. *)
LEMMA ArmedStep == HandshakeInv /\ [Next]_vars => ArmedOwned'
<1> SUFFICES ASSUME HandshakeInv, [Next]_vars
             PROVE  ArmedOwned'
    OBVIOUS
<1> USE DEF HandshakeInv, ArmedOwned, Running,
            params, startStop, pollVars,
            streamVars, ctlLocals, detVars, After
<1>1. CASE Port
  BY <1>1 DEF Port, WriteStart, WriteDone, WriteStop, PortAbort, PortAborted,
     WriteTrigger, WriteDataSource
<1>2. CASE CtlStart \/ CtlLatch \/ CtlArm \/ CtlArmFail \/ CtlArmed
  BY <1>2 DEF CtlStart, CtlLatch, CtlArm, CtlArmFail, CtlArmed
<1>3. CASE CtlLoop \/ CtlTriggerEvent \/ CtlTriggerTimeout \/ CtlTrigger
           \/ CtlTriggerReturn
  BY <1>3 DEF CtlLoop, CtlTriggerEvent, CtlTriggerTimeout, CtlTrigger,
     CtlTriggerReturn
<1>4. CASE CtlFetch \/ CtlStopEvent \/ CtlStopTimeout \/ CtlDisarm \/ CtlDisarmed
  BY <1>4 DEF CtlFetch, CtlStopEvent, CtlStopTimeout, CtlDisarm, CtlDisarmed,
     AfterPoll
<1>5. CASE CtlStopPoll \/ CtlJoinPoll \/ CtlJoinStream \/ CtlFinish
  BY <1>5 DEF CtlStopPoll, CtlJoinPoll, CtlJoinStream, CtlFinish, AfterPoll
<1>6. CASE PollReceive \/ PollReport \/ Stream
  BY <1>6 DEF PollReceive, PollReport, Stream, StreamWake, StreamBegin, StreamEnd
<1>7. CASE CountImage \/ ExternalTrigger \/ Expose
  BY <1>7 DEF CountImage, ExternalTrigger, Expose
<1>8. CASE UNCHANGED vars
  BY <1>8 DEF vars
<1> QED
  BY <1>1, <1>2, <1>3, <1>4, <1>5, <1>6, <1>7, <1>8 DEF Next, Control

(* The invariant of every behaviour, of which the two theorems below are   *)
(* the readable part.                                                      *)
THEOREM HandshakeInvariant == Spec => []HandshakeInv
<1>1. HandshakeInv /\ [Next]_vars => HandshakeInv'
  BY PollStep, StreamStep, ArmedStep DEF HandshakeInv
<1> QED
  BY HandshakeInit, <1>1, PTL DEF Spec

(* An acquisition starts with both helper tasks waiting and none of their  *)
(* events left over: controlTask never joins the report of an earlier      *)
(* acquisition in place of its own (mPollDoneEvent, mStreamDoneEvent).     *)
THEOREM HandshakeIsClean == Spec => []CleanHandshake
<1>1. HandshakeInv => CleanHandshake
  BY DEF HandshakeInv, PollOwned, StreamOwned, CleanHandshake, Running
<1> QED
  BY <1>1, HandshakeInvariant, PTL

(* However an acquisition ends - its images complete, stopped, failed to   *)
(* arm - the detector is left disarmed and ARMED is 0, as long as no       *)
(* command fails of which controlTask does not notice it.                  *)
THEOREM DetectorIsDisarmed ==
    ASSUME RequestsFail = FALSE PROVE Spec => []DisarmedAtRest
<1>1. HandshakeInv => DisarmedAtRest
  BY DEF HandshakeInv, ArmedOwned, DisarmedAtRest, Running
<1> QED
  BY <1>1, HandshakeInvariant, PTL

-----------------------------------------------------------------------------
(* The counters: how many images and triggers there can be. *)

(* The detector never takes an image too many: it exposes only while some  *)
(* are left, and when it is ready for another trigger of controlTask.      *)
ImagesLeft ==
    /\ detector = "acquire" => images < Expected
    /\ /\ ctlPc \in {"armed", "loop", "waitTrigger", "trigger", "exposing"}
       /\ setting.mode.trigger # "external" /\ detector = "ready"
       => images < Expected
    /\ ctlPc \in {"waitTrigger", "trigger"} => setting.mode.trigger # "external"

(* A late trigger is one of those counted. *)
TriggersCounted ==
    /\ ctlPc \in {"waitTrigger", "trigger", "exposing"} => triggers < NumTriggers
    /\ ctlPc \in {"arming", "armed"} => lateTriggers = 0
    /\ lateTriggers <= triggers + (IF ctlPc = "exposing" THEN 1 ELSE 0)

TypeInv == TypeOK /\ ImagesLeft /\ TriggersCounted

(* A product with a positive number. *)
LEMMA ProductPositive == \A m, n \in Nat \ {0} : m * n \in Nat \ {0}
OBVIOUS

(* A product grows with its factor. *)
LEMMA ProductMonotone == \A k, m, n \in Nat : m <= n => k * m <= k * n
OBVIOUS

(* expectedImages is positive. *)
LEMMA ExpectedPositive == Expected \in Nat \ {0}
BY ConstantsAssumption, ProductPositive DEF Expected

(* So is the largest image count of an acquisition. *)
LEMMA AllArraysPositive == AllArrays \in Nat \ {0}
BY ConstantsAssumption, ExpectedPositive, ProductPositive DEF AllArrays

(* The types hold initially. *)
LEMMA TypeInit == Init => TypeInv
<1> SUFFICES ASSUME Init PROVE TypeInv
    OBVIOUS
<1> USE DEF Init
<1>1. FlagsOK
  BY ZenonT(60) DEF FlagsOK
<1>2. setting \in Settings
  BY ZenonT(60) DEF Settings, TriggerMode
<1>3. TypeOK
  BY <1>1, <1>2, ExpectedPositive, AllArraysPositive, ConstantsAssumption
  DEF TypeOK, ControlPoints, Sources
<1>4. ImagesLeft /\ TriggersCounted
  BY DEF ImagesLeft, TriggersCounted
<1> QED
  BY <1>3, <1>4 DEF TypeInv

(* Events and flags stay Boolean. *)
LEMMA FlagsStep == FlagsOK /\ [Next]_vars => FlagsOK'
<1> SUFFICES ASSUME FlagsOK, [Next]_vars PROVE FlagsOK'
    OBVIOUS
<1> USE DEF FlagsOK, params, startStop, pollVars, streamVars, ctlLocals, detVars
<1>1. CASE WriteStart
  BY <1>1, ZenonT(60) DEF WriteStart
<1>2. CASE WriteDone \/ WriteStop
  BY <1>2, ZenonT(60) DEF WriteDone, WriteStop
<1>3. CASE WriteTrigger \/ WriteDataSource
  BY <1>3, ZenonT(60) DEF WriteTrigger, WriteDataSource
<1>4. CASE PortAbort \/ PortAborted
  BY <1>4, ZenonT(60) DEF PortAbort, PortAborted
<1>5. CASE CtlStart \/ CtlArm
  BY <1>5, ZenonT(60) DEF CtlStart, CtlArm
<1>6. CASE CtlLatch
  BY <1>6, ZenonT(60) DEF CtlLatch
<1>7. CASE CtlArmFail
  BY <1>7, ZenonT(60) DEF CtlArmFail
<1>8. CASE CtlArmed
  BY <1>8, ZenonT(60) DEF CtlArmed
<1>9. CASE CtlLoop \/ CtlTriggerEvent
  BY <1>9, ZenonT(60) DEF CtlLoop, CtlTriggerEvent
<1>10. CASE CtlTriggerTimeout \/ CtlTrigger
  BY <1>10, ZenonT(60) DEF CtlTriggerTimeout, CtlTrigger
<1>11. CASE CtlTriggerReturn \/ CtlStopTimeout
  BY <1>11, ZenonT(60) DEF CtlTriggerReturn, CtlStopTimeout
<1>12. CASE CtlFetch
  BY <1>12, ZenonT(60) DEF CtlFetch
<1>13. CASE CtlStopEvent \/ CtlDisarm
  BY <1>13, ZenonT(60) DEF CtlStopEvent, CtlDisarm
<1>14. CASE CtlDisarmed \/ CtlStopPoll
  BY <1>14, ZenonT(60) DEF CtlDisarmed, CtlStopPoll
<1>15. CASE CtlJoinPoll \/ CtlJoinStream
  BY <1>15, ZenonT(60) DEF CtlJoinPoll, CtlJoinStream
<1>16. CASE CtlFinish
  BY <1>16, ZenonT(60) DEF CtlFinish
<1>17. CASE PollReceive \/ PollReport
  BY <1>17, ZenonT(60) DEF PollReceive, PollReport
<1>18. CASE Stream
  <2>1. CASE StreamWake
    BY <2>1, ZenonT(60) DEF StreamWake
  <2>2. CASE StreamBegin
    BY <2>2, ZenonT(60) DEF StreamBegin
  <2>3. CASE StreamEnd
    BY <2>3, ZenonT(60) DEF StreamEnd
  <2> QED
    BY <1>18, <2>1, <2>2, <2>3 DEF Stream
<1>19. CASE CountImage \/ ExternalTrigger \/ Expose
  <2>1. UNCHANGED <<adAcquire, armed>> /\ UNCHANGED startStop
        /\ UNCHANGED pollVars /\ UNCHANGED streamVars /\ UNCHANGED fetched
    BY <1>19 DEF CountImage, ExternalTrigger, Expose
  <2> QED
    BY <2>1, ZenonT(60)
<1>20. CASE UNCHANGED vars
  BY <1>20, ZenonT(60) DEF vars
<1> QED
  BY <1>1, <1>2, <1>3, <1>4, <1>5, <1>6, <1>7, <1>8, <1>9, <1>10, <1>11,
     <1>12, <1>13, <1>14, <1>15, <1>16, <1>17, <1>18, <1>19, <1>20
  DEF Next, Control, Port

(* Every step keeps the variables in their ranges. *)
LEMMA TypeStep == TypeInv /\ [Next]_vars => TypeInv'
<1> SUFFICES ASSUME TypeInv, [Next]_vars PROVE TypeInv'
    OBVIOUS
<1>0. FlagsOK'
  BY FlagsStep DEF TypeInv, TypeOK
<1> USE <1>0, ExpectedPositive, AllArraysPositive, ConstantsAssumption
    DEF TypeInv, TypeOK, ImagesLeft, TriggersCounted, ControlPoints, params,
        startStop, pollVars, streamVars, ctlLocals, detVars
<1>1. CASE WriteStart \/ WriteDone \/ WriteStop \/ WriteTrigger \/ WriteDataSource
  BY <1>1 DEF WriteStart, WriteDone, WriteStop, WriteTrigger, WriteDataSource, Sources
<1>2. CASE PortAbort \/ PortAborted
  BY <1>2 DEF PortAbort, PortAborted, After
<1>3. CASE CtlLatch
  BY <1>3 DEF CtlLatch, Settings
<1>4. CASE CtlStart \/ CtlArm \/ CtlArmFail \/ CtlArmed
  BY <1>4 DEF CtlStart, CtlArm, CtlArmFail, CtlArmed
<1>5. CASE CtlLoop \/ CtlTriggerEvent \/ CtlTriggerTimeout \/ CtlTriggerReturn
  BY <1>5 DEF CtlLoop, CtlTriggerEvent, CtlTriggerTimeout, CtlTriggerReturn,
     TriggersLeft
<1>6. CASE CtlTrigger
  BY <1>6 DEF CtlTrigger, After
<1>7. CASE CtlFetch \/ CtlStopEvent \/ CtlStopTimeout \/ CtlDisarm \/ CtlDisarmed
  BY <1>7 DEF CtlFetch, CtlStopEvent, CtlStopTimeout, CtlDisarm, CtlDisarmed,
     AfterPoll, After
<1>8. CASE CtlStopPoll \/ CtlJoinPoll \/ CtlJoinStream \/ CtlFinish
  BY <1>8 DEF CtlStopPoll, CtlJoinPoll, CtlJoinStream, CtlFinish, AfterPoll
<1>9. CASE PollReceive \/ PollReport \/ Stream
  BY <1>9 DEF PollReceive, PollReport, Stream, StreamWake, StreamBegin, StreamEnd
<1>10. CASE CountImage
  <2>1. Thresholds * images <= AllArrays
    BY ProductMonotone DEF AllArrays
  <2>2. Thresholds * images \in Nat
    OBVIOUS
  <2>3. numImagesCounter + 1 <= AllArrays
    BY <1>10, <2>1, <2>2 DEF CountImage
  <2> QED
    BY <1>10, <2>3 DEF CountImage
<1>11. CASE ExternalTrigger \/ Expose
  BY <1>11 DEF ExternalTrigger, Expose
<1>12. CASE UNCHANGED vars
  BY <1>12 DEF vars
<1> QED
  BY <1>1, <1>2, <1>3, <1>4, <1>5, <1>6, <1>7, <1>8, <1>9, <1>10, <1>11, <1>12
  DEF Next, Control, Port

(* Type correctness, which bounds the counters too: no acquisition takes   *)
(* or counts an image too many, or sends a trigger too many.               *)
THEOREM TypeCorrect == Spec => []TypeOK
<1>1. TypeInv => TypeOK
  BY DEF TypeInv
<1> QED
  BY <1>1, TypeInit, TypeStep, PTL DEF Spec

-----------------------------------------------------------------------------
(* The next two theorems are about a user who waits: who starts when the   *)
(* last acquisition is over, and stops when controlTask has seen the       *)
(* start.  For others they are false.                                      *)
PatientUser == EarlyStarts = FALSE /\ EarlyStops = FALSE

(* ADStatus, ADAcquire and the place of controlTask agree, where a stop in *)
(* progress leaves "Aborted" to stand for either.                          *)
StatusInv ==
    /\ adStatus \in {"Idle", "Acquire", "Aborted", "Error"}
    /\ adStatus = "Acquire" => ~AtRest /\ adAcquire = TRUE /\ portPc = "idle"
    /\ adStatus \in {"Idle", "Error"} => AtRest /\ adAcquire = FALSE
    /\ mStartEvent = TRUE => ctlPc = "ready" /\ adStatus = "Acquire"
    /\ ctlPc = "started" => adStatus = "Acquire"
    /\ mStartEvent \in BOOLEAN /\ adAcquire \in BOOLEAN

(* A late trigger is the last one: from then on, until the next start, the *)
(* trigger loop finds ADStatus changed.                                    *)
LateInv ==
    /\ lateTriggers \in {0, 1}
    /\ lateTriggers = 1 =>
          /\ ctlPc \notin {"arming", "armed", "waitTrigger", "trigger"}
          /\ adStatus # "Acquire" \/ ctlPc \in {"ready", "started"}

PatientInv == StatusInv /\ LateInv

(* So do the status and the late triggers. *)
LEMMA PatientInit == Init => PatientInv
BY DEF Init, PatientInv, StatusInv, LateInv, AtRest

(* Every step keeps the status parameters in agreement. *)
LEMMA StatusStep == ASSUME PatientUser, PatientInv, [Next]_vars PROVE StatusInv'
<1> USE DEF PatientInv, StatusInv, AtRest, params, pollVars, streamVars, ctlLocals,
            detVars, startStop
<1>1. CASE WriteStart \/ WriteDone \/ WriteStop
  BY <1>1, PatientUser DEF PatientUser, WriteStart, WriteDone, WriteStop, CanWrite
<1>2. CASE PortAbort \/ PortAborted \/ WriteTrigger \/ WriteDataSource
  BY <1>2 DEF PortAbort, PortAborted, WriteTrigger, WriteDataSource
<1>3. CASE CtlStart \/ CtlLatch \/ CtlArm \/ CtlArmFail \/ CtlArmed
  BY <1>3 DEF CtlStart, CtlLatch, CtlArm, CtlArmFail, CtlArmed
<1>4. CASE CtlLoop \/ CtlTriggerEvent \/ CtlTriggerTimeout \/ CtlTrigger
           \/ CtlTriggerReturn
  BY <1>4 DEF CtlLoop, CtlTriggerEvent, CtlTriggerTimeout, CtlTrigger,
     CtlTriggerReturn, TriggersLeft
<1>5. CASE CtlFetch \/ CtlStopEvent \/ CtlStopTimeout \/ CtlDisarm \/ CtlDisarmed
  BY <1>5 DEF CtlFetch, CtlStopEvent, CtlStopTimeout, CtlDisarm, CtlDisarmed,
     AfterPoll
<1>6. CASE CtlStopPoll \/ CtlJoinPoll \/ CtlJoinStream
  BY <1>6 DEF CtlStopPoll, CtlJoinPoll, CtlJoinStream, AfterPoll
<1>7. CASE CtlFinish
  BY <1>7 DEF CtlFinish
<1>8. CASE PollReceive \/ PollReport \/ Stream
  BY <1>8 DEF PollReceive, PollReport, Stream, StreamWake, StreamBegin, StreamEnd
<1>9. CASE CountImage \/ ExternalTrigger \/ Expose
  BY <1>9 DEF CountImage, ExternalTrigger, Expose
<1>10. CASE UNCHANGED vars
  BY <1>10 DEF vars
<1> QED
  BY <1>1, <1>2, <1>3, <1>4, <1>5, <1>6, <1>7, <1>8, <1>9, <1>10
  DEF Next, Control, Port

(* Every step keeps a late trigger the last. *)
LEMMA LateStep == ASSUME PatientUser, PatientInv, [Next]_vars PROVE LateInv'
<1> USE DEF PatientInv, StatusInv, LateInv, AtRest, params, pollVars, streamVars, ctlLocals,
            detVars, startStop
<1>1. CASE WriteStart \/ WriteDone \/ WriteStop
  BY <1>1, PatientUser DEF PatientUser, WriteStart, WriteDone, WriteStop, CanWrite
<1>2. CASE PortAbort \/ PortAborted \/ WriteTrigger \/ WriteDataSource
  BY <1>2 DEF PortAbort, PortAborted, WriteTrigger, WriteDataSource
<1>3. CASE CtlStart \/ CtlLatch \/ CtlArm \/ CtlArmFail \/ CtlArmed
  BY <1>3 DEF CtlStart, CtlLatch, CtlArm, CtlArmFail, CtlArmed
<1>4. CASE CtlLoop \/ CtlTriggerEvent \/ CtlTriggerTimeout \/ CtlTrigger
           \/ CtlTriggerReturn
  BY <1>4 DEF CtlLoop, CtlTriggerEvent, CtlTriggerTimeout, CtlTrigger,
     CtlTriggerReturn, TriggersLeft
<1>5. CASE CtlFetch \/ CtlStopEvent \/ CtlStopTimeout \/ CtlDisarm \/ CtlDisarmed
  BY <1>5 DEF CtlFetch, CtlStopEvent, CtlStopTimeout, CtlDisarm, CtlDisarmed,
     AfterPoll
<1>6. CASE CtlStopPoll \/ CtlJoinPoll \/ CtlJoinStream
  BY <1>6 DEF CtlStopPoll, CtlJoinPoll, CtlJoinStream, AfterPoll
<1>7. CASE CtlFinish
  BY <1>7 DEF CtlFinish
<1>8. CASE PollReceive \/ PollReport \/ Stream
  BY <1>8 DEF PollReceive, PollReport, Stream, StreamWake, StreamBegin, StreamEnd
<1>9. CASE CountImage \/ ExternalTrigger \/ Expose
  BY <1>9 DEF CountImage, ExternalTrigger, Expose
<1>10. CASE UNCHANGED vars
  BY <1>10 DEF vars
<1> QED
  BY <1>1, <1>2, <1>3, <1>4, <1>5, <1>6, <1>7, <1>8, <1>9, <1>10
  DEF Next, Control, Port

(* Both hold in every behaviour with such a user. *)
LEMMA PatientInvariant == ASSUME PatientUser PROVE Spec => []PatientInv
<1>1. PatientInv /\ [Next]_vars => PatientInv'
  BY PatientUser, StatusStep, LateStep DEF PatientInv
<1> QED
  BY PatientInit, <1>1, PTL DEF Spec

(* Clients wait for ADAcquire to return to 0: it is 1 exactly while        *)
(* controlTask has an acquisition to run, except while a stop is served.   *)
THEOREM AcquireIsTrue == ASSUME PatientUser PROVE Spec => []AcquireTellsTheTruth
<1>1. PatientInv => AcquireTellsTheTruth
  BY DEF PatientInv, StatusInv, AcquireTellsTheTruth
<1> QED
  BY <1>1, PatientInvariant, PTL

(* The status is read under the lock and the trigger command sent without  *)
(* it, so a stop can come between: once, and never again.                  *)
THEOREM AtMostOneLateTrigger == ASSUME PatientUser PROVE Spec => []OneLateTrigger
<1>1. PatientInv => OneLateTrigger
  BY DEF PatientInv, LateInv, OneLateTrigger
<1> QED
  BY <1>1, PatientInvariant, PTL
-----------------------------------------------------------------------------
(* A user who writes DataSource only at rest finds streamTask waiting, so  *)
(* the object it has in use is not deleted.  For others this is false.     *)
LEMMA APIStep ==
    ASSUME Reconfigures = FALSE, HandshakeInv, StreamAPIOutlivesUse, [Next]_vars
    PROVE  StreamAPIOutlivesUse'
<1> USE DEF StreamAPIOutlivesUse, params, startStop, pollVars, streamVars,
            ctlLocals, detVars
<1>0. AtRest => streamPc = "wait"
  BY DEF HandshakeInv, StreamOwned, AtRest, Running
<1>1. CASE Port
  BY <1>0, <1>1, Reconfigures = FALSE DEF Port, WriteStart, WriteDone, WriteStop, PortAbort,
     PortAborted, WriteTrigger, WriteDataSource
<1>2. CASE CtlStart \/ CtlLatch \/ CtlArm \/ CtlArmFail \/ CtlArmed
  BY <1>0, <1>2 DEF CtlStart, CtlLatch, CtlArm, CtlArmFail, CtlArmed
<1>3. CASE CtlLoop \/ CtlTriggerEvent \/ CtlTriggerTimeout \/ CtlTrigger
           \/ CtlTriggerReturn
  BY <1>0, <1>3 DEF CtlLoop, CtlTriggerEvent, CtlTriggerTimeout, CtlTrigger,
     CtlTriggerReturn
<1>4. CASE CtlFetch \/ CtlStopEvent \/ CtlStopTimeout \/ CtlDisarm \/ CtlDisarmed
  BY <1>0, <1>4 DEF CtlFetch, CtlStopEvent, CtlStopTimeout, CtlDisarm, CtlDisarmed,
     AfterPoll
<1>5. CASE CtlStopPoll \/ CtlJoinPoll \/ CtlJoinStream \/ CtlFinish
  BY <1>0, <1>5 DEF CtlStopPoll, CtlJoinPoll, CtlJoinStream, CtlFinish, AfterPoll
<1>6. CASE PollReceive \/ PollReport \/ Stream
  BY <1>0, <1>6 DEF PollReceive, PollReport, Stream, StreamWake, StreamBegin, StreamEnd
<1>7. CASE CountImage \/ ExternalTrigger \/ Expose
  BY <1>0, <1>7 DEF CountImage, ExternalTrigger, Expose
<1>8. CASE UNCHANGED vars
  BY <1>8 DEF vars
<1> QED
  BY <1>1, <1>2, <1>3, <1>4, <1>5, <1>6, <1>7, <1>8 DEF Next, Control

(* streamTask takes the pointer of the StreamAPI object under the lock and *)
(* uses it without; writeInt32(DataSource) deletes the object.  The join   *)
(* at the end of an acquisition is what keeps the two apart.               *)
THEOREM StreamAPIIsAlive ==
    ASSUME Reconfigures = FALSE PROVE Spec => []StreamAPIOutlivesUse
<1>1. Init => StreamAPIOutlivesUse
  BY DEF Init, StreamAPIOutlivesUse
<1>2. HandshakeInv /\ StreamAPIOutlivesUse /\ [Next]_vars => StreamAPIOutlivesUse'
  BY Reconfigures = FALSE, APIStep
<1> QED
  BY <1>1, <1>2, HandshakeInvariant, PTL DEF Spec

-----------------------------------------------------------------------------
(* With one NDArray for an image, the count of controlTask is the number   *)
(* of images which have arrived: it lags behind what the detector took,    *)
(* once the count of the acquisition before has been cleared.              *)
CountInv ==
    ctlPc \notin {"ready", "started", "arming", "armed"}
    => numImagesCounter <= images

(* controlTask clears the count before it looks at it; parseTask and       *)
(* streamTask count an image only after it was taken.                      *)
LEMMA CountStep ==
    ASSUME Thresholds = 1, TypeInv, CountInv, [Next]_vars
    PROVE  CountInv'
<1> USE DEF CountInv, TypeInv, TypeOK, params, startStop, pollVars, streamVars,
            ctlLocals, detVars
<1>0. images \in Nat /\ numImagesCounter \in Nat /\ Thresholds * images = images
  BY ExpectedPositive, AllArraysPositive
<1>1. CASE Port
  BY <1>0, <1>1 DEF Port, WriteStart, WriteDone, WriteStop, PortAbort,
     PortAborted, WriteTrigger, WriteDataSource
<1>2. CASE CtlStart \/ CtlLatch \/ CtlArm \/ CtlArmFail \/ CtlArmed
  BY <1>0, <1>2 DEF CtlStart, CtlLatch, CtlArm, CtlArmFail, CtlArmed
<1>3. CASE CtlLoop \/ CtlTriggerEvent \/ CtlTriggerTimeout \/ CtlTrigger
           \/ CtlTriggerReturn
  BY <1>0, <1>3 DEF CtlLoop, CtlTriggerEvent, CtlTriggerTimeout, CtlTrigger,
     CtlTriggerReturn
<1>4. CASE CtlFetch \/ CtlStopEvent \/ CtlStopTimeout \/ CtlDisarm \/ CtlDisarmed
  BY <1>0, <1>4 DEF CtlFetch, CtlStopEvent, CtlStopTimeout, CtlDisarm, CtlDisarmed,
     AfterPoll
<1>5. CASE CtlStopPoll \/ CtlJoinPoll \/ CtlJoinStream \/ CtlFinish
  BY <1>0, <1>5 DEF CtlStopPoll, CtlJoinPoll, CtlJoinStream, CtlFinish, AfterPoll
<1>6. CASE PollReceive \/ PollReport \/ Stream
  BY <1>0, <1>6 DEF PollReceive, PollReport, Stream, StreamWake, StreamBegin, StreamEnd
<1>7. CASE CountImage \/ ExternalTrigger \/ Expose
  BY <1>0, <1>7 DEF CountImage, ExternalTrigger, Expose
<1>8. CASE UNCHANGED vars
  BY <1>8 DEF vars
<1> QED
  BY <1>1, <1>2, <1>3, <1>4, <1>5, <1>6, <1>7, <1>8 DEF Next, Control

(* controlTask leaves its wait for the end of an acquisition when the      *)
(* detector no longer is ready or acquiring or when the counter reaches    *)
(* expectedImages.  With one threshold, and if it can rely on the state it *)
(* fetched, no image is then missing.                                      *)
THEOREM NoImageIsCutOff ==
    ASSUME Thresholds = 1, RequestsFail = FALSE PROVE Spec => AllImagesTaken
<1> DEFINE EndStep == ctlPc = "fetch" /\ ctlPc' = "disarm" /\ adStatus = "Acquire"
                      => detector = "idle" \/ images = Expected
<1>1. Init => TypeInv /\ CountInv
  BY TypeInit DEF Init, CountInv
<1>2. TypeInv /\ CountInv /\ [Next]_vars => TypeInv' /\ CountInv'
  BY Thresholds = 1, TypeStep, CountStep
<1>3. TypeInv /\ CountInv /\ [Next]_vars => [EndStep]_vars
  <2> SUFFICES ASSUME TypeInv, CountInv, Next, ctlPc = "fetch", ctlPc' = "disarm"
               PROVE  detector = "idle" \/ images = Expected
    OBVIOUS
  <2>1. CtlFetch
    <3> USE DEF params, startStop, pollVars, streamVars, ctlLocals, detVars
    <3>1. ~Port
      BY DEF Port, WriteStart, WriteDone, WriteStop, PortAbort, PortAborted,
         WriteTrigger, WriteDataSource
    <3>2. ~(CtlStart \/ CtlLatch \/ CtlArm \/ CtlArmFail \/ CtlArmed \/ CtlLoop)
      BY DEF CtlStart, CtlLatch, CtlArm, CtlArmFail, CtlArmed, CtlLoop
    <3>3. ~(CtlTriggerEvent \/ CtlTriggerTimeout \/ CtlTrigger \/ CtlTriggerReturn)
      BY DEF CtlTriggerEvent, CtlTriggerTimeout, CtlTrigger, CtlTriggerReturn
    <3>4. ~(CtlStopEvent \/ CtlStopTimeout \/ CtlDisarm \/ CtlDisarmed)
      BY DEF CtlStopEvent, CtlStopTimeout, CtlDisarm, CtlDisarmed
    <3>5. ~(CtlStopPoll \/ CtlJoinPoll \/ CtlJoinStream \/ CtlFinish)
      BY DEF CtlStopPoll, CtlJoinPoll, CtlJoinStream, CtlFinish
    <3>6. ~(PollReceive \/ PollReport \/ Stream)
      BY DEF PollReceive, PollReport, Stream, StreamWake, StreamBegin, StreamEnd
    <3>7. ~(CountImage \/ ExternalTrigger \/ Expose)
      BY DEF CountImage, ExternalTrigger, Expose
    <3> QED
      BY <3>1, <3>2, <3>3, <3>4, <3>5, <3>6, <3>7 DEF Next, Control
  <2>2. CountReached \/ detector \notin {"ready", "acquire"}
    BY <2>1, RequestsFail = FALSE DEF CtlFetch
  <2>3. CASE CountReached
    <3>1. numImagesCounter <= images
      BY DEF CountInv
    <3>2. images \in 0 .. Expected /\ numImagesCounter \in Nat
      BY AllArraysPositive DEF TypeInv, TypeOK
    <3> QED
      BY <2>3, <3>1, <3>2, ExpectedPositive DEF CountReached
  <2>4. CASE detector \notin {"ready", "acquire"}
    BY <2>4 DEF TypeInv, TypeOK
  <2> QED
    BY <2>2, <2>3, <2>4
<1> QED
  BY <1>1, <1>2, <1>3, PTL DEF Spec, AllImagesTaken
=============================================================================
