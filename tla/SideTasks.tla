------------------------------ MODULE SideTasks ------------------------------
(***************************************************************************)
(* The tasks of eigerDetector.cpp that run beside the acquisition:         *)
(* initializeTask and restartTask, each woken by an event of writeInt32 to *)
(* send one command of the detector, and monitorTask, which fetches a TIFF *)
(* image every 0.1 s while the monitor is enabled and hands it to the      *)
(* plugins as an NDArray.                                                  *)
(*                                                                         *)
(* The commands are busy records: the asyn parameter is 1 from the request *)
(* until the task sets it back, which is all a client sees of the command. *)
(* The NDArrays come from a pool that all sources of images share.         *)
(***************************************************************************)
EXTENDS Naturals, FiniteSets

CONSTANTS
    Commands,           \* initialize and restart
    Arrays,             \* the NDArrays the memory of the pool suffices for
    MaxWrites,          \* bound on the requests of the clients
    MaxImages           \* bound on the images monitorTask receives

None == "none"          \* no NDArray

ASSUME ConstantsAssumption ==
    /\ IsFiniteSet(Arrays) /\ None \notin Arrays
    /\ MaxWrites \in Nat /\ MaxImages \in Nat

(* What may be wrong with the blob monitorTask receives as an image: it    *)
(* has no TIFF header, lacks one of the tags the driver reads, has another *)
(* depth than 8, 16 or 32, or its pixels do not end in the blob.           *)
(* What parseTiffFile does not look at has no place here: a table of tags  *)
(* beyond the end of the blob, and more pixels than the array has room for.*)
EarlyFlaws == {"header", "no width", "no height", "no depth", "no dataLen",
               "depth"}
LateFlaws == {"no stripOffset", "range"}
Flaws == EarlyFlaws \cup LateFlaws
Images == {flaws \in SUBSET Flaws : Cardinality(flaws) <= 2}

VARIABLES
    param, event,       \* per command: the busy parameter, the task's event
    pc,                 \* per command: where its task is
    swallowed,          \* history: a request fell between reset and tryWait
    enabled,            \* mMonitorEnable
    monitor,            \* where monitorTask is,
    image, pImage,      \* with which image and which NDArray
    late,               \* history: images shown since the monitor was disabled
    refs, queued,       \* references to each NDArray; those a plugin holds
    writes, images,     \* requests made, images received
    unusable            \* history: images that had late flaws

commandVars == <<param, event, pc, swallowed>>
monitorVars == <<monitor, image, pImage, images, unusable>>
poolVars == <<refs, queued>>
vars == <<commandVars, enabled, monitorVars, late, poolVars, writes>>

Init ==
    /\ param = [c \in Commands |-> 0]
    /\ event = [c \in Commands |-> FALSE]
    /\ pc = [c \in Commands |-> "wait"]
    /\ swallowed = [c \in Commands |-> FALSE]
    /\ enabled = FALSE
    /\ monitor = "check" /\ image = {} /\ pImage = None
    /\ refs = [a \in Arrays |-> 0] /\ queued = {}
    /\ late = 0 /\ writes = 0 /\ images = 0 /\ unusable = 0

-----------------------------------------------------------------------------
(* A client, through writeInt32.                                           *)

(* The parameter is set before the event, both under the port lock.        *)
Request(c) ==
    /\ writes < MaxWrites /\ writes' = writes + 1
    /\ param' = [param EXCEPT ![c] = 1]
    /\ event' = [event EXCEPT ![c] = TRUE]
    /\ swallowed' = [swallowed EXCEPT ![c] = pc[c] = "clear"]
    /\ UNCHANGED <<pc, enabled, monitorVars, late, poolVars>>

(* Any other value is an ordinary put, here of a parameter the detector    *)
(* does not have: it is set, and nothing else happens.                     *)
WriteOther(c) ==
    /\ writes < MaxWrites /\ writes' = writes + 1
    /\ param' = [param EXCEPT ![c] = 0]
    /\ UNCHANGED <<event, pc, swallowed, enabled, monitorVars, late, poolVars>>

SetMonitor(value) ==
    /\ writes < MaxWrites /\ writes' = writes + 1
    /\ enabled' = value
    /\ late' = IF value = enabled THEN late ELSE 0
    /\ UNCHANGED <<commandVars, monitorVars, poolVars>>

-----------------------------------------------------------------------------
(* initializeTask and restartTask.                                         *)

Goto(c, point) == pc' = [pc EXCEPT ![c] = point]

Wake(c) ==
    /\ pc[c] = "wait" /\ event[c]
    /\ event' = [event EXCEPT ![c] = FALSE]
    /\ Goto(c, "command")
    /\ UNCHANGED <<param, swallowed, enabled, monitorVars, late, poolVars, writes>>

(* The command takes as long as it takes, and its result is only logged.   *)
AfterCommandIfOk(ok) == IF ok THEN "reset" ELSE "wait"  \* mutant: retry by the user
AfterCommand(ok) == "reset"
Command(c) ==
    /\ pc[c] = "command"
    /\ \E ok \in BOOLEAN : Goto(c, AfterCommand(ok))
    /\ UNCHANGED <<param, event, swallowed, enabled, monitorVars, late, poolVars,
                   writes>>

Reset(c) ==
    /\ pc[c] = "reset"
    /\ param' = [param EXCEPT ![c] = 0]
    /\ Goto(c, "clear")
    /\ UNCHANGED <<event, swallowed, enabled, monitorVars, late, poolVars, writes>>

(* tryWait: a request made while the command ran is not carried out again. *)
Clear(c) ==
    /\ pc[c] = "clear"
    /\ event' = [event EXCEPT ![c] = FALSE]
    /\ Goto(c, "wait")
    /\ UNCHANGED <<param, swallowed, enabled, monitorVars, late, poolVars, writes>>

CommandStep(c) == Wake(c) \/ Command(c) \/ Reset(c) \/ Clear(c)

-----------------------------------------------------------------------------
(* monitorTask and parseTiffFile.                                          *)

(* The enable is read under the lock, and used without it.                 *)
MonitorCheck ==
    /\ monitor = "check"
    /\ monitor' = IF enabled THEN "get" ELSE "sleep"
    /\ UNCHANGED <<commandVars, enabled, image, pImage, images, unusable, late,
                   poolVars, writes>>

AfterSleepGet == "get"  \* mutant: the enable is read once
AfterSleep == "check"
MonitorSleep ==
    /\ monitor = "sleep"
    /\ monitor' = AfterSleep
    /\ image' = {}
    /\ UNCHANGED <<commandVars, enabled, pImage, images, unusable, late, poolVars,
                   writes>>

(* getMonitorImage returns a blob, or fails after the detector's timeout   *)
(* (there is no new image) or for want of a connection.                    *)
MonitorGet ==
    /\ monitor = "get"
    /\ \/ monitor' = "sleep" /\ UNCHANGED <<image, images>>
       \/ /\ images < MaxImages /\ images' = images + 1
          /\ image' \in Images
          /\ monitor' = "alloc"
    /\ UNCHANGED <<commandVars, enabled, pImage, unusable, late, poolVars, writes>>

(* The pool gives out an array that nobody refers to, if there is one.     *)
Unused == {a \in Arrays : refs[a] = 0}
MonitorAlloc ==
    /\ monitor = "alloc"
    /\ IF image \cap EarlyFlaws = {} /\ Unused # {}
       THEN \E a \in Unused : /\ pImage' = a
                              /\ refs' = [refs EXCEPT ![a] = 1]
                              /\ monitor' = "deliver"
       ELSE monitor' = "sleep" /\ UNCHANGED <<pImage, refs>>
    /\ UNCHANGED <<commandVars, enabled, image, images, unusable, late, queued,
                   writes>>

(* An image with late flaws is given up, and its array is not released.    *)
(* Otherwise each plugin is called, and keeps a reference if it queues the *)
(* array; the array is then released.                                      *)
ReferencesOfQueueOnly(byPlugin) == 1    \* mutant: reserve without release
ReferencesLeft(byPlugin) == IF byPlugin THEN 1 ELSE 0

MonitorDeliver ==
    /\ monitor = "deliver"
    /\ IF image \cap LateFlaws # {}
       THEN unusable' = unusable + 1 /\ UNCHANGED <<late, refs, queued>>
       ELSE /\ \E byPlugin \in BOOLEAN :
                  /\ refs' = [refs EXCEPT ![pImage] = ReferencesLeft(byPlugin)]
                  /\ queued' = IF byPlugin THEN queued \cup {pImage} ELSE queued
            /\ late' = IF enabled THEN late ELSE late + 1
            /\ UNCHANGED unusable
    /\ pImage' = None
    /\ monitor' = "sleep"
    /\ UNCHANGED <<commandVars, enabled, image, images, writes>>

MonitorStep ==
    \/ MonitorCheck \/ MonitorSleep \/ MonitorGet \/ MonitorAlloc \/ MonitorDeliver

-----------------------------------------------------------------------------
(* The plugins, and the other sources of images that feed them.            *)

PluginDone(a) ==
    /\ a \in queued
    /\ queued' = queued \ {a}
    /\ refs' = [refs EXCEPT ![a] = @ - 1]
    /\ UNCHANGED <<commandVars, enabled, monitorVars, late, writes>>

OtherSource(a) ==
    /\ refs[a] = 0
    /\ queued' = queued \cup {a}
    /\ refs' = [refs EXCEPT ![a] = 1]
    /\ UNCHANGED <<commandVars, enabled, monitorVars, late, writes>>

-----------------------------------------------------------------------------
Next ==
    \/ \E c \in Commands : Request(c) \/ WriteOther(c) \/ CommandStep(c)
    \/ \E value \in BOOLEAN : SetMonitor(value)
    \/ MonitorStep
    \/ \E a \in Arrays : PluginDone(a) \/ OtherSource(a)

(* The threads run, and the REST calls of the commands have a timeout.     *)
Fairness == \A c \in Commands : WF_vars(CommandStep(c))

Spec == Init /\ [][Next]_vars
FairSpec == Spec /\ Fairness

-----------------------------------------------------------------------------
(* Properties.                                                             *)

(* A command that shows as busy has been asked for and will be sent, or is *)
(* under way: a record never waits for a command nobody will carry out.    *)
(* The exception is a request the task swallowed, made after it had set    *)
(* the parameter back and before its tryWait.                              *)
BusyIsServed ==
    \A c \in Commands :
        param[c] = 1 /\ ~swallowed[c] => event[c] \/ pc[c] \in {"command", "reset"}

(* So, with the same exception, what shows as busy stops to.               *)
BusyEnds ==
    \A c \in Commands : param[c] = 1 /\ ~swallowed[c] ~> param[c] = 0 \/ swallowed[c]

(* Whatever monitorTask was doing when the monitor was disabled, it shows  *)
(* at most the one image it had already asked for.                         *)
OneLateImage == late <= 1

(* Every NDArray goes back to the pool when the plugins and monitorTask    *)
(* are done with it - whatever image it was for, and whichever step        *)
(* failed - but for one array per image that turned out to lack its pixels *)
(* only after the array was allocated.                                     *)
ArraysReturned ==
    Cardinality({a \in Arrays : refs[a] > 0 /\ a \notin queued /\ a # pImage})
        <= unusable

=============================================================================
