------------------------------ MODULE DataFiles ------------------------------
(***************************************************************************)
(* From the images the detector writes to files to the NDArrays the        *)
(* plugins see, with DataSource = FileWriter.  controlTask computes how    *)
(* many files there will be, pollTask asks for them by names it builds     *)
(* itself, and parseH5File reads them: which images that gives, with which *)
(* numbers and threshold attributes, and what HDF5 handles it leaves open. *)
(*                                                                         *)
(* The queues, references and failures of the pipeline are those of        *)
(* FilePipeline; here a file that is found is downloaded and queued for    *)
(* parseTask in one step, and nothing is saved.                            *)
(***************************************************************************)
EXTENDS Integers, Sequences, FiniteSets, Functions

CONSTANTS
    Settings,           \* what an acquisition may be set up with
    Models,             \* Eiger1, Eiger2 or Pilatus4
    IntMax,             \* the largest int
    MaxSeries,          \* bound on the acquisitions
    MaxFiles,           \* bound on nDataFiles where it is undefined
    MaxChanges,         \* bound on what the client changes meanwhile
    MaxFailures         \* bound on steps of parseH5File that fail

Thresholds == 1 .. 4
Enables == (SUBSET Thresholds) \ {{}}

ASSUME ConstantsAssumption ==
    /\ Settings \subseteq
         [hasId : BOOLEAN,          \* is $id in the file name pattern?
          fits : BOOLEAN,           \* do the names fit in MAX_BUF_SIZE?
          numImages : Nat \ {0}, numTriggers : Nat \ {0},
          imagesPerFile : Nat,
          remove : BOOLEAN,         \* FWAutoRemove
          enabled : Enables]        \* the thresholds
    /\ Models \subseteq {"Eiger1", "Eiger2", "Pilatus4"}
    /\ {IntMax, MaxSeries, MaxFiles, MaxChanges, MaxFailures} \subseteq Nat

Stages == <<"file", "dataset", "dimensions", "type", "known type", "space", "memory">>
Handles == {"file", "dataset", "type", "space", "memory"}
Garbage == 0            \* a threshold number nobody set

VARIABLES
    model,              \* mEigerModel
    series,             \* the detector's sequence id,
    set, total,         \* the settings it was armed with, its images,
    written, aborted,   \* the files it has written (the first is the master)
    disk,               \* the files it has, by name
    energies, enables,  \* the threshold settings now in the driver: a number
                        \* for the energies, and the thresholds enabled
    armed,              \* the energies the detector was armed with
    acq, i, retries, stop,  \* pollTask: its acquisition, the file it waits for,
    polling, complete,  \* its loop, mPollStop, mPollComplete
    queue,              \* files downloaded and not parsed yet
    parse,              \* parseTask: where it is,
    stage, open,        \* how far it got, the handles it has open,
    image, j,           \* the next image of the file and its threshold index,
    copy,               \* its copies of the counters and the threshold settings
    nd, num,            \* NDArrayCounter and ADNumImagesCounter
    shown,              \* history: the images of the acquisition shown so far
    switched,           \* was a threshold switched since the detector was armed?
    resets, changes,    \* the client's changes to the counter, to anything
    failures, skipped,  \* steps that failed; was an image skipped for that?
    left                \* what the last file left open

detector == <<model, series, set, total, written, aborted, disk, armed>>
poll == <<acq, i, retries, stop, polling, complete>>
parser == <<parse, stage, open, image, j, copy, left>>
counters == <<nd, num>>
client == <<energies, enables, switched, resets, changes>>
history == <<shown, failures, skipped>>
vars == <<detector, poll, queue, parser, counters, client, history>>

NoSettings == [hasId |-> TRUE, fits |-> TRUE, numImages |-> 1, numTriggers |-> 1,
               imagesPerFile |-> 1, remove |-> FALSE, enabled |-> {1}]

NoCopy == [nd |-> 0, num |-> 0, energies |-> 0, enables |-> {}]

Init ==
    /\ model \in Models
    /\ series = 0 /\ set = NoSettings /\ total = 0 /\ written = 0 /\ aborted = FALSE
    /\ disk = <<>> /\ energies = 0 /\ armed = 0
    /\ enables = NoSettings.enabled /\ switched = FALSE
    /\ acq = [sequenceId |-> 0, nDataFiles |-> 0]
    /\ i = 0 /\ retries = 0 /\ stop = FALSE /\ polling = "idle" /\ complete = FALSE
    /\ queue = <<>>
    /\ parse = "idle" /\ stage = 1 /\ open = {} /\ image = 1 /\ j = 1
    /\ copy = NoCopy
    /\ nd = 0 /\ num = 0
    /\ shown = <<>> /\ resets = 0 /\ changes = 0
    /\ failures = 0 /\ skipped = FALSE
    /\ left = {}

-----------------------------------------------------------------------------
(* Names.  Those of the master file and of the data files differ in n,     *)
(* those of two acquisitions only if the pattern has the $id.  A name that *)
(* does not fit is cut, and then names no file.                            *)
buildNameNoId(n, id) == [n |-> n, id |-> 0]     \* mutant: strstr never finds it
buildName(n, id) == [n |-> n, id |-> IF set.hasId THEN id ELSE 0]
Cut == [n |-> -1, id |-> -1]

NameInDetector(n) == [n |-> n, id |-> IF set.hasId THEN series ELSE 0]
NameInDriver(n) == IF set.fits THEN buildName(n, acq.sequenceId) ELSE Cut

(* The number of data files: ceil of a quotient of doubles, of which the   *)
(* dividend is a product of ints.  What becomes of an overflow, or of an   *)
(* infinity that is made a size_t, is undefined.                           *)
RoundedUp(images, perFile) == (images + perFile - 1) \div perFile
Defined(s) == s.numImages * s.numTriggers <= IntMax /\ s.imagesPerFile > 0
DataFilesOf(s) ==
    IF Defined(s) THEN {RoundedUp(s.numImages * s.numTriggers, s.imagesPerFile)}
    ELSE 0 .. MaxFiles

(* What the detector has to write.  Without a limit on the images of a     *)
(* file it writes one.                                                     *)
PerFile == IF set.imagesPerFile = 0 THEN total ELSE set.imagesPerFile
FilesInDetector == 1 + RoundedUp(total, PerFile)
Smaller(a, b) == IF a < b THEN a ELSE b

(* The thresholds along the fourth dimension of a data set; Eiger1 has     *)
(* only three dimensions.                                                  *)
Ordered(T) ==
    CHOOSE s \in [1 .. Cardinality(T) -> T] :
        \A a, b \in DOMAIN s : a < b => s[a] < s[b]
Offered ==
    CASE model = "Eiger1" -> {1} [] model = "Eiger2" -> {1, 2}
      [] model = "Pilatus4" -> Thresholds
InDetector(s) == IF model = "Eiger1" THEN <<1>> ELSE Ordered(s.enabled)

(* The thresholds that parseH5File takes to be active: the first of 1 and  *)
(* 2 that the driver has enabled when the file is opened.  The branch for  *)
(* 3 and 4 is never reached, as the one before it is taken for a Pilatus4. *)
ActiveAllTrue(T) == <<1, 2>>    \* mutant: the enables are not looked at
Active(T) == IF model = "Eiger1" THEN <<1>> ELSE Ordered(T \cap {1, 2})
Label(k) ==
    IF k \in DOMAIN Active(copy.enables) THEN Active(copy.enables)[k] ELSE Garbage

-----------------------------------------------------------------------------
(* controlTask, as far as files are concerned: one acquisition starts when *)
(* the one before it has been collected.                                   *)
Arm(s) ==
    /\ polling = "idle" /\ series < MaxSeries
    /\ s.enabled \subseteq Offered
    /\ series' = series + 1 /\ set' = s
    /\ total' = s.numImages * s.numTriggers
    /\ written' = 0 /\ aborted' = FALSE /\ armed' = energies
    /\ enables' = s.enabled /\ switched' = FALSE
    /\ num' = 0
    /\ \E n \in DataFilesOf(s) : acq' = [sequenceId |-> series', nDataFiles |-> n]
    /\ i' = 0 /\ retries' = 0 /\ stop' = FALSE /\ polling' = "files"
    /\ complete' = FALSE
    /\ shown' = <<>> /\ skipped' = FALSE
    /\ UNCHANGED <<model, disk, queue, parser, nd, energies, resets, changes, failures>>

(* When the detector is done, or by a client's stop, pollTask is told to   *)
(* stop; a stop is preceded by an abort.                                   *)
Stop ==
    /\ polling = "files" /\ ~stop
    /\ stop' = TRUE
    /\ aborted' \in {FALSE, written < FilesInDetector}
    /\ UNCHANGED <<model, series, set, total, written, disk, armed, acq, i, retries,
                   polling, complete, queue, parser, counters, client, history>>

(* The client: another threshold energy, a threshold switched on or off    *)
(* (an Eiger1 has no such parameter), or a new NDArrayCounter.             *)
ChangeEnergy ==
    /\ changes < MaxChanges /\ changes' = changes + 1
    /\ energies' = energies + 1
    /\ UNCHANGED <<detector, poll, queue, parser, counters, enables, switched,
                   resets, history>>

SwitchThreshold ==
    /\ model # "Eiger1"
    /\ changes < MaxChanges /\ changes' = changes + 1
    /\ \E t \in Offered : enables' \in {enables \cup {t}, enables \ {t}}
    /\ switched' = (switched \/ enables' # enables)
    /\ UNCHANGED <<detector, poll, queue, parser, counters, energies, resets, history>>

ResetCounter ==
    /\ changes < MaxChanges /\ changes' = changes + 1
    /\ nd' = 0 /\ resets' = resets + 1
    /\ UNCHANGED <<detector, poll, queue, parser, num, energies, enables, switched,
                   history>>

-----------------------------------------------------------------------------
(* The detector writes the master file and then the data files, over files *)
(* of the same name.  After an abort it may still write a short one.       *)
ImagesOfFile(n) == ((n - 1) * PerFile + 1) .. Smaller(n * PerFile, total)
FileOf(n, last) ==
    [series |-> series, first |-> (n - 1) * PerFile + 1, last |-> last,
     thresholds |-> InDetector(set), energies |-> armed]

WriteFile ==
    /\ series > 0 /\ written < FilesInDetector
    /\ written' = written + 1
    /\ \E last \in IF written = 0 THEN {0}
                   ELSE IF aborted THEN ImagesOfFile(written)
                   ELSE {Smaller(written * PerFile, total)} :
          LET name == NameInDetector(written)
          IN disk' = [f \in DOMAIN disk \cup {name} |->
                         IF f = name THEN FileOf(written, last) ELSE disk[f]]
    /\ UNCHANGED <<model, series, set, total, aborted, armed, poll, queue, parser,
                   counters, client, history>>

-----------------------------------------------------------------------------
(* pollTask.                                                               *)

(* The file exists.  A master file is not parsed, and so is removed at     *)
(* once; a data file is downloaded and queued.                             *)
FilesLeft == i < acq.nDataFiles + 1 /\ retries <= 2

Found ==
    LET name == NameInDriver(i)
    IN /\ polling = "files" /\ FilesLeft
       /\ name \in DOMAIN disk
       /\ IF i = 0
          THEN /\ disk' = IF set.remove THEN Restrict(disk, DOMAIN disk \ {name})
                                        ELSE disk
               /\ UNCHANGED queue
          ELSE /\ queue' = Append(queue, [name |-> name, data |-> disk[name]])
               /\ UNCHANGED disk
       /\ i' = i + 1
       /\ UNCHANGED <<model, series, set, total, written, aborted, armed, acq,
                      retries, stop, polling, complete, parser, counters, client,
                      history>>

Missed ==
    /\ polling = "files" /\ FilesLeft /\ stop
    /\ NameInDriver(i) \notin DOMAIN disk
    /\ retries' = retries + 1
    /\ UNCHANGED <<detector, acq, i, stop, polling, complete, queue, parser,
                   counters, client, history>>

(* Every file that was found has been parsed, and the list is freed.       *)
Done ==
    /\ polling = "files" /\ ~FilesLeft /\ queue = <<>> /\ parse = "idle"
    /\ polling' = "idle"
    /\ complete' = (i = acq.nDataFiles + 1)
    /\ UNCHANGED <<detector, acq, i, retries, stop, queue, parser, counters, client,
                   history>>
-----------------------------------------------------------------------------
(* parseTask, in parseH5File.                                              *)

(* The steps before the loop over the images, of which those named for a   *)
(* handle open it.  One that fails goes to the label that closes what the  *)
(* steps before it opened.                                                 *)
ToCloseNoType(n) == IF n >= 5 THEN {"file", "dataset", "memory"}    \* mutant
                    ELSE {"file", "dataset"}
ToClose(n) ==       \* n: the step that failed, or one more than the last
    {h \in Handles : \/ h = "file" /\ n > 1
                     \/ h = "dataset" /\ n > 2
                     \/ h = "type" /\ n > 4
                     \/ h = "memory" /\ n > 6}

(* The counters and the threshold settings are read once for the file,     *)
(* without the lock.                                                       *)
Open ==
    /\ parse = "idle" /\ queue # <<>>
    /\ stage' = Len(Stages) + 1
    /\ open' = Handles
    /\ copy' = [nd |-> nd, num |-> num, energies |-> energies, enables |-> enables]
    /\ image' = Head(queue).data.first
    /\ parse' = "images"
    /\ UNCHANGED <<detector, poll, queue, j, left, counters, client, history>>

OpenFail ==
    /\ parse = "idle" /\ queue # <<>>
    /\ failures < MaxFailures
    /\ failures' = failures + 1 /\ skipped' = TRUE
    /\ stage' \in 1 .. Len(Stages)
    /\ open' = {Stages[n] : n \in 1 .. stage' - 1} \cap Handles
    /\ parse' = "close"
    /\ UNCHANGED <<detector, poll, queue, image, j, copy, left, counters, client,
                   shown>>

(* An image is read, numbered, labelled and shown, and the counters set.   *)
(* (With NDArrayCallbacks off it is counted only.)                         *)
File == Head(queue).data
Entry ==
    [series |-> File.series, image |-> image, threshold |-> File.thresholds[j],
     armed |-> File.energies, uniqueId |-> copy.nd,
     label |-> Label(j), energies |-> copy.energies, enables |-> copy.enables]

CopyKept == copy    \* mutant: the copies not counted up
CopyCounted == [copy EXCEPT !.nd = @ + 1, !.num = @ + 1]
ReadImage ==
    /\ parse = "images" /\ image <= File.last
    /\ shown' = Append(shown, Entry)
    /\ copy' = CopyCounted
    /\ nd' = copy.nd + 1 /\ num' = copy.num + 1
    /\ IF j < Len(File.thresholds)
       THEN j' = j + 1 /\ UNCHANGED image
       ELSE j' = 1 /\ image' = image + 1
    /\ UNCHANGED <<detector, poll, queue, parse, stage, open, left, client,
                   failures, skipped>>

(* An image that cannot be read, or for which there is no NDArray, ends    *)
(* the loop over the thresholds, not that over the images.                 *)
ReadFail ==
    /\ parse = "images" /\ image <= File.last /\ failures < MaxFailures
    /\ failures' = failures + 1 /\ skipped' = TRUE
    /\ j' = 1 /\ image' = image + 1
    /\ UNCHANGED <<detector, poll, queue, parse, stage, open, copy, left,
                   counters, client, shown>>

LastImage ==
    /\ parse = "images" /\ image > File.last
    /\ parse' = "close"
    /\ UNCHANGED <<detector, poll, queue, stage, open, image, j, copy, left,
                   counters, client, history>>

(* The end of parseH5File; the file is then reaped, and removed.           *)
Close ==
    /\ parse = "close"
    /\ left' = open \ ToClose(stage)
    /\ open' = {} /\ stage' = 1 /\ image' = 1 /\ j' = 1 /\ copy' = NoCopy
    /\ disk' = IF set.remove THEN Restrict(disk, DOMAIN disk \ {Head(queue).name})
               ELSE disk
    /\ queue' = Tail(queue)
    /\ parse' = "idle"
    /\ UNCHANGED <<model, series, set, total, written, aborted, armed, poll, counters,
                   client, history>>

-----------------------------------------------------------------------------
Next ==
    \/ \E s \in Settings : Arm(s)
    \/ Stop \/ ChangeEnergy \/ SwitchThreshold \/ ResetCounter
    \/ WriteFile
    \/ Found \/ Missed \/ Done
    \/ Open \/ OpenFail \/ ReadImage \/ ReadFail \/ LastImage
    \/ Close

Spec == Init /\ [][Next]_vars

-----------------------------------------------------------------------------
(* Properties.                                                             *)

(* The images and thresholds of the series, in the order they were taken.  *)
Taken(k) ==
    LET width == Len(InDetector(set))
    IN [image |-> (k - 1) \div width + 1,
        threshold |-> InDetector(set)[((k - 1) % width) + 1]]
Earlier(e, f) ==
    \/ e.image < f.image
    \/ e.image = f.image /\ e.threshold < f.threshold

(* If the file name pattern has the $id, what the plugins are shown in an  *)
(* acquisition are images of that acquisition, in order and none twice,    *)
(* whatever files earlier ones left; and if pollTask reports it complete,  *)
(* no step failed and it was not aborted, it is every threshold of every   *)
(* image, however the images are spread over the files.                    *)
ImagesAreOwn ==
    set.hasId /\ series > 0 =>
        /\ \A k \in DOMAIN shown : shown[k].series = series
        /\ \A k \in 2 .. Len(shown) : Earlier(shown[k - 1], shown[k])
        /\ complete /\ ~skipped /\ ~aborted /\ Defined(set) =>
              /\ Len(shown) = total * Len(InDetector(set))
              /\ \A k \in DOMAIN shown :
                    /\ shown[k].image = Taken(k).image
                    /\ shown[k].threshold = Taken(k).threshold

(* An image is labelled with the threshold it was taken with, unless the   *)
(* enables the driver had when the file was opened are not those the       *)
(* detector was armed with; and with the energy it was taken with, unless  *)
(* that has changed.  Both take a client that writes the parameter between *)
(* the arming and the opening of the file.  Images of the thresholds 3 and *)
(* 4 of a Pilatus4 have no label: the attributes are what the stack held.  *)
LabelsTrue ==
    \A k \in DOMAIN shown :
        set.hasId /\ shown[k].threshold \in {1, 2} =>
            /\ \/ shown[k].label = shown[k].threshold
               \/ shown[k].enables \cap {1, 2} # set.enabled \cap {1, 2}
            /\ shown[k].enables # set.enabled => switched
            /\ shown[k].energies # shown[k].armed => energies # armed

(* Every image shown is counted, in both counters.  Unless the client      *)
(* writes the NDArrayCounter, no two images have the same uniqueId and the *)
(* counter is ahead of them all; a write in the middle of a file is        *)
(* undone by the next image.                                               *)
CountersAgree ==
    /\ num = Len(shown)
    /\ resets = 0 =>
         /\ \A k \in DOMAIN shown : shown[k].uniqueId = nd - Len(shown) + k - 1
         /\ nd >= Len(shown)

(* Parsing a file leaves no HDF5 handle open, whatever step fails, but     *)
(* that of the data space of the file, which is never closed.              *)
OnlyDataSpacesLeft == left \subseteq {"space"}
=============================================================================
