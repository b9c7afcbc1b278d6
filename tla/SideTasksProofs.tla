--------------------------- MODULE SideTasksProofs ---------------------------
(***************************************************************************)
(* Theorems about SideTasks, for any number of commands and requests, and  *)
(* any number of images.                                                   *)
(***************************************************************************)
EXTENDS SideTasks, FiniteSetTheorems, TLAPS

CommandType ==
    /\ param \in [Commands -> {0, 1}] /\ event \in [Commands -> BOOLEAN]
    /\ pc \in [Commands -> {"wait", "command", "reset", "clear"}]
    /\ swallowed \in [Commands -> BOOLEAN]

(* Between Reset and Clear a command shows as busy only if it was requested*)
(* again, and that request will be swallowed.                              *)
ClearSwallows ==
    \A c \in Commands : pc[c] = "clear" /\ param[c] = 1 => swallowed[c]

CommandInv == CommandType /\ BusyIsServed /\ ClearSwallows

(* An image is on its way only if none was shown since the monitor was     *)
(* disabled, and none is asked for while it is.                            *)
MonitorInv ==
    /\ enabled \in BOOLEAN /\ late \in {0, 1}
    /\ enabled => late = 0
    /\ monitor \in {"get", "alloc", "deliver"} => late = 0

(* The arrays nobody will release.                                         *)
Lost == {a \in Arrays : refs[a] > 0 /\ a \notin queued /\ a # pImage}

(* An array has one reference or none; that of the plugins' queue, or that *)
(* of monitorTask while it has an image to deliver, are known.             *)
PoolInv ==
    /\ refs \in [Arrays -> {0, 1}] /\ queued \subseteq Arrays
    /\ pImage \in Arrays \cup {None} /\ unusable \in Nat
    /\ pImage # None <=> monitor = "deliver"
    /\ pImage # None => refs[pImage] = 1 /\ pImage \notin queued
    /\ \A a \in queued : refs[a] = 1
    /\ Cardinality(Lost) <= unusable

-----------------------------------------------------------------------------
(* The commands.                                                           *)

(* No command is pending at first. *)
LEMMA CommandInit == Init => CommandInv
BY DEF Init, CommandInv, CommandType, BusyIsServed, ClearSwallows

(* What the clients do.                                                    *)
LEMMA WriteStep ==
    ASSUME CommandInv, NEW c \in Commands, Request(c) \/ WriteOther(c)
    PROVE  CommandInv'
<1> USE DEF CommandInv, CommandType, BusyIsServed, ClearSwallows
<1>1. CASE Request(c)
  BY <1>1 DEF Request
<1>2. CASE WriteOther(c)
  BY <1>2 DEF WriteOther
<1> QED
  BY <1>1, <1>2

(* What the tasks do.                                                      *)
LEMMA TaskStep ==
    ASSUME CommandInv, NEW c \in Commands, CommandStep(c)
    PROVE  CommandInv'
<1> USE DEF CommandInv, CommandType, BusyIsServed, ClearSwallows, Goto
<1>1. CASE Wake(c)
  BY <1>1 DEF Wake
<1>2. CASE Command(c)
  BY <1>2 DEF Command, AfterCommand
<1>3. CASE Reset(c)
  BY <1>3 DEF Reset
<1>4. CASE Clear(c)
  BY <1>4 DEF Clear
<1> QED
  BY <1>1, <1>2, <1>3, <1>4 DEF CommandStep

(* What the monitor, its clients and the plugins do is not about commands. *)
LEMMA ImageStep ==
    ASSUME CommandInv,
           \/ \E value \in BOOLEAN : SetMonitor(value)
           \/ MonitorStep
           \/ \E a \in Arrays : PluginDone(a) \/ OtherSource(a)
           \/ UNCHANGED vars
    PROVE  CommandInv'
<1>1. UNCHANGED commandVars
  BY DEF SetMonitor, MonitorStep, MonitorCheck, MonitorSleep, MonitorGet,
         MonitorAlloc, MonitorDeliver, PluginDone, OtherSource, vars
<1> QED
  BY <1>1 DEF CommandInv, CommandType, BusyIsServed, ClearSwallows, commandVars

(* Whichever requests are made while initializeTask or restartTask runs, a *)
(* busy record has a task that will set it back, but for one request at a  *)
(* time that fell between the reset and tryWait.                           *)
THEOREM CommandsAreServed == Spec => []BusyIsServed
<1>1. CommandInv /\ [Next]_vars => CommandInv'
  BY WriteStep, TaskStep, ImageStep DEF Next
<1>2. CommandInv => BusyIsServed
  BY DEF CommandInv
<1> QED
  BY CommandInit, <1>1, <1>2, PTL DEF Spec

-----------------------------------------------------------------------------
(* The monitor.                                                            *)

(* Every step keeps the monitor and its stop in step. *)
LEMMA MonitorInvStep ==
    ASSUME MonitorInv, [Next]_vars
    PROVE  MonitorInv'
<1> USE DEF MonitorInv
<1>1. CASE \E value \in BOOLEAN : SetMonitor(value)
  BY <1>1 DEF SetMonitor, monitorVars
<1>2. CASE MonitorCheck \/ MonitorSleep
  BY <1>2 DEF MonitorCheck, MonitorSleep, AfterSleep
<1>3. CASE MonitorGet \/ MonitorAlloc
  BY <1>3 DEF MonitorGet, MonitorAlloc
<1>4. CASE MonitorDeliver
  BY <1>4 DEF MonitorDeliver
<1>5. CASE \E c \in Commands : Request(c) \/ WriteOther(c) \/ CommandStep(c)
  BY <1>5 DEF Request, WriteOther, CommandStep, Wake, Command, Reset, Clear,
              monitorVars
<1>6. CASE (\E a \in Arrays : PluginDone(a) \/ OtherSource(a)) \/ UNCHANGED vars
  BY <1>6 DEF PluginDone, OtherSource, monitorVars, vars
<1> QED
  BY <1>1, <1>2, <1>3, <1>4, <1>5, <1>6 DEF Next, MonitorStep

(* Disabling the monitor takes effect within the image that is under way,  *)
(* however requests and fetches interleave.                                *)
THEOREM MonitorStops == Spec => []OneLateImage
<1>1. Init => MonitorInv
  BY DEF Init, MonitorInv
<1>2. MonitorInv => OneLateImage
  BY DEF MonitorInv, OneLateImage
<1> QED
  BY <1>1, <1>2, MonitorInvStep, PTL DEF Spec

-----------------------------------------------------------------------------
(* The NDArrays.                                                           *)

(* The arrays that are not in the pool can be counted. *)
LEMMA LostFinite == IsFiniteSet(Lost) /\ Cardinality(Lost) \in Nat
<1>1. IsFiniteSet(Lost)
  BY ConstantsAssumption, FS_Subset DEF ConstantsAssumption, Lost
<1> QED
  BY <1>1, FS_CardinalityType

(* The only image that costs an array is one whose late flaw was found.    *)
LEMMA DeliverStep ==
    ASSUME PoolInv, MonitorDeliver
    PROVE  PoolInv'
<1>1. /\ pImage \in Arrays /\ pImage' = None /\ monitor' # "deliver"
      /\ refs[pImage] = 1 /\ pImage \notin queued
  BY DEF MonitorDeliver, PoolInv
<1>2. CASE image \cap LateFlaws # {}
  <2>1. unusable' = unusable + 1 /\ UNCHANGED <<refs, queued>>
    BY <1>2 DEF MonitorDeliver
  <2>2. Lost' = Lost \cup {pImage} /\ pImage \notin Lost
    BY <1>1, <2>1, ConstantsAssumption DEF Lost, ConstantsAssumption
  <2>3. Cardinality(Lost') = Cardinality(Lost) + 1
    BY <2>2, LostFinite, FS_AddElement
  <2> QED
    BY <1>1, <2>1, <2>3, LostFinite DEF PoolInv
<1>3. CASE image \cap LateFlaws = {}
  <2>1. PICK byPlugin \in BOOLEAN :
            /\ refs' = [refs EXCEPT ![pImage] = ReferencesLeft(byPlugin)]
            /\ queued' = IF byPlugin THEN queued \cup {pImage} ELSE queued
    BY <1>3 DEF MonitorDeliver
  <2>2. UNCHANGED unusable
    BY <1>3 DEF MonitorDeliver
  <2>3. \A a \in Arrays : a \in Lost' <=> a \in Lost
    BY <1>1, <2>1, ConstantsAssumption
    DEF Lost, ReferencesLeft, PoolInv, ConstantsAssumption
  <2>4. Lost' = Lost
    BY <2>3 DEF Lost
  <2>5. Cardinality(Lost') = Cardinality(Lost)
    BY <2>4
  <2> QED
    BY <1>1, <2>1, <2>2, <2>5 DEF PoolInv, ReferencesLeft
<1> QED
  BY <1>2, <1>3

(* Nobody else takes an array that is in use, or forgets one.              *)
LEMMA PoolStep ==
    ASSUME PoolInv, [Next]_vars
    PROVE  PoolInv'
<1>1. ASSUME Lost' = Lost, UNCHANGED unusable
      PROVE  Cardinality(Lost') <= unusable' <=> Cardinality(Lost) <= unusable
  BY <1>1
<1>2. CASE MonitorDeliver
  BY <1>2, DeliverStep
<1>3. CASE MonitorAlloc
  <2>1. UNCHANGED <<queued, unusable>> /\ pImage = None
    BY <1>3 DEF MonitorAlloc, PoolInv
  <2>2. CASE UNCHANGED <<pImage, refs>> /\ monitor' = "sleep"
    BY <1>1, <2>1, <2>2 DEF PoolInv, Lost
  <2>3. CASE monitor' = "deliver"
    <3>1. PICK a \in Arrays : /\ refs[a] = 0 /\ pImage' = a
                              /\ refs' = [refs EXCEPT ![a] = 1]
      BY <1>3, <2>3 DEF MonitorAlloc, Unused
    <3>2. Lost' = Lost
      BY <2>1, <3>1, ConstantsAssumption DEF Lost, PoolInv, ConstantsAssumption
    <3> QED
      BY <1>1, <2>1, <2>3, <3>1, <3>2, ConstantsAssumption
      DEF PoolInv, ConstantsAssumption
  <2> QED
    BY <1>3, <2>2, <2>3 DEF MonitorAlloc
<1>4. CASE MonitorCheck \/ MonitorSleep \/ MonitorGet
  <2>1. UNCHANGED <<refs, queued, pImage, unusable>>
    BY <1>4 DEF MonitorCheck, MonitorSleep, MonitorGet, poolVars
  <2>2. monitor # "deliver" /\ monitor' # "deliver"
    BY <1>4 DEF MonitorCheck, MonitorSleep, MonitorGet, AfterSleep
  <2> QED
    BY <1>1, <2>1, <2>2 DEF PoolInv, Lost
<1>5. CASE \E a \in Arrays : PluginDone(a)
  <2>1. PICK a \in Arrays : PluginDone(a)
    BY <1>5
  <2>2. /\ a \in queued /\ queued' = queued \ {a} /\ refs[a] = 1
        /\ refs' = [refs EXCEPT ![a] = 0] /\ UNCHANGED <<monitor, pImage, unusable>>
    <3>1. /\ a \in queued /\ queued' = queued \ {a}
          /\ refs' = [refs EXCEPT ![a] = refs[a] - 1]
          /\ UNCHANGED <<monitor, pImage, unusable>>
      BY <2>1 DEF PluginDone, monitorVars
    <3>2. refs[a] = 1
      BY <3>1 DEF PoolInv
    <3>3. refs[a] - 1 = 0
      BY <3>2
    <3> QED
      BY <3>1, <3>2, <3>3
  <2>3. Lost' = Lost
    BY <2>2 DEF Lost, PoolInv
  <2> QED
    BY <1>1, <2>2, <2>3 DEF PoolInv
<1>6. CASE \E a \in Arrays : OtherSource(a)
  <2>1. PICK a \in Arrays : OtherSource(a)
    BY <1>6
  <2>2. /\ refs[a] = 0 /\ queued' = queued \cup {a}
        /\ refs' = [refs EXCEPT ![a] = 1] /\ UNCHANGED <<monitor, pImage, unusable>>
    BY <2>1 DEF OtherSource, monitorVars
  <2>3. Lost' = Lost
    BY <2>2 DEF Lost, PoolInv
  <2> QED
    BY <1>1, <2>2, <2>3 DEF PoolInv
<1>7. CASE \/ \E c \in Commands : Request(c) \/ WriteOther(c) \/ CommandStep(c)
           \/ \E value \in BOOLEAN : SetMonitor(value)
           \/ UNCHANGED vars
  <2>1. UNCHANGED <<refs, queued, pImage, unusable, monitor>>
    BY <1>7 DEF Request, WriteOther, CommandStep, Wake, Command, Reset, Clear,
                SetMonitor, monitorVars, poolVars, vars
  <2> QED
    BY <1>1, <2>1 DEF PoolInv, Lost
<1> QED
  BY <1>2, <1>3, <1>4, <1>5, <1>6, <1>7 DEF Next, MonitorStep

(* parseTiffFile leaks the array of an image whose pixels it finds missing *)
(* after the allocation, and no other: whichever step fails, monitorTask   *)
(* and the plugins give back what they were given.                         *)
THEOREM ArraysComeBack == Spec => []ArraysReturned
<1>1. Init => PoolInv
  <2> SUFFICES ASSUME Init PROVE PoolInv
    OBVIOUS
  <2>1. Lost = {}
    BY DEF Init, Lost
  <2> QED
    BY <2>1, FS_EmptySet DEF Init, PoolInv
<1>2. PoolInv => ArraysReturned
  BY DEF PoolInv, ArraysReturned, Lost
<1> QED
  BY <1>1, <1>2, PoolStep, PTL DEF Spec
=============================================================================
