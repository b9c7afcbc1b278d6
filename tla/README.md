# A verification development for ADEiger

TLA+ models of the areaDetector driver for DECTRIS Eiger and Pilatus4 detectors
(`eigerApp/src`), TLC configurations that check them on small instances, and
TLAPS proofs of what matters most for every instance. The modules are written
from the code; `PROJECT.json` maps every definition to the lines it stands for,
and lists the runs, the mutants that show each property can fail, the hazards
of the code and the findings.

Check a module with `tlc -config X.cfg M` for a run named in `PROJECT.json`,
and prove one with `tlapm M.tla`, where `M` is one of the eight modules whose
name ends in `Proofs`.

## 1. The system

The driver is one C++ class (`eigerDetector`) with ten threads, next to the
threads of EPICS that write its parameters. All of them share the recursive
lock of `asynPortDriver`, the parameter library, eight `epicsEvent`s, five message
queues, and a REST client with five connections.

| component | state | operations | interacts by |
|---|---|---|---|
| **acquisition control** (`controlTask`; `writeInt32` for Acquire, Trigger, DataSource) | `ADStatus`, `ADAcquire`, `ARMED`, image counters, latched settings, `triggers` | start, stop, trigger, arm, trigger loop, wait, disarm, join, restart of a continuous acquisition | events, `mPollQueue`, REST commands with the lock released |
| **FileWriter pipeline** (`pollTask`, `downloadTask`, `parseTask`, `saveTask`, `reapTask`) | the `file_t` array, reference counts, `PENDING_FILES`, four bounded queues | find, download, parse, save, release, delete | queues of pointers into one array; `mPollStop`, `mPollDoneEvent` |
| **stream interface** (`streamTask`, `StreamAPI`, `Stream2API`) | ZeroMQ socket with unread parts, task-local header, image and threshold index | header, wait for a frame, get a frame, end | `mStreamEvent`, `mStreamDoneEvent`, a pointer the port thread may delete |
| **REST client** (`RestAPI`) | per connection: mutex, fd, `closed`, `retries` | `doRequest`, `getBlob`, `connect`, retry | tryLock over the pool; everything above calls it |
| **parameters** (`EigerParam`, `EigerParamSet`) | type, access mode, limits, enumeration, epsilon; the asyn value | `put`, `fetch`, `get`, `fetchAll`, `fetchParams` | REST requests under the driver lock |
| **initialize and restart tasks** | one event and one busy parameter each | send one long command | event, parameter reset |
| **monitor** (`monitorTask`, `parseTiffFile`) | none | fetch and parse a TIFF image every 0.1 s | REST connection, NDArray pool |
| **data files** (`parseH5File`, file names, number of files) | task-local counters and thresholds, HDF5 handles | name a file, open, show its images | file queue, NDArray counters |
| **stream 2 decoder** (`stream2.c`, `Stream2API`) | kept image message, its ZeroMQ message, thresholds of the last header, cached date | decode, free, label | `streamTask` |
| **status** (`eigerStatus`) | none | fetch some parameters unless acquiring | parameters |
| **other decoders** (`uncompress`, RFC 3339, HTTP header) | none | pure | called by the tasks |

What is hard:

* *Interleavings.* `controlTask` releases the lock around every command and
  every wait. A stop, a start or a change of `DataSource` can fall into any of
  those gaps. The five file tasks use the same structs with no lock at all.
* *Handshakes without a memory.* An `epicsEvent` remembers one signal and not
  whose it was; some are cleared before an acquisition and some are not.
  `mPollDoneEvent` and `mStreamDoneEvent` are waited for without a timeout.
* *Failures in the middle.* Most results of REST commands are ignored; a
  download, a save, an arm, a header or a frame may fail with others under way.
* *State that outlives an acquisition.* Unread ZeroMQ messages, late answers on
  a keep-alive connection, cached parameters, files left on the detector.

What makes each component correct:

* acquisition control: `ADAcquire` is truthful, a stop always ends it, the
  detector is disarmed afterwards, no report of one acquisition is taken for
  that of the next, and nothing is cut short;
* pipeline: no access to freed memory, each file is handled exactly as asked
  or stays on the detector, the pending count is exact, a stop drains;
* stream: every image once and in order, of the present acquisition, and the
  task reports at the end of the series;
* data files: the images shown are those of the acquisition, all of them if it
  is reported complete, with their own numbers, thresholds and energies;
* stream 2 decoder: it accepts the messages that are well formed and no others,
  frees what it allocates, and labels each array with its own time and threshold;
* REST client: a connection has one user, is always returned, an answer belongs
  to its request and is whole, a command is not carried out twice;
* command tasks: what shows as busy is being done, and stops to show;
* monitor: a disabled monitor stops, and its arrays return to the pool;
* parameters: the cache agrees with the detector wherever the driver could have
  known, and a successful `put` has taken effect.

## 2. Modules

| module | models | about |
|---|---|---|
| `FileService` | what the pipeline promises `controlTask`: a request opens obligations, they are discharged in any order, one report is made, and what it leaves open is the tail of the list of files | abstract specification |
| `FilePipeline` | `eigerDetector.cpp` 816-1072 (as far as it drives `pollTask`) and 1100-1364 | implements `FileService` |
| `FilePipelineProofs` | theorems about `FilePipeline`, among them that its steps are steps of `FileService` | |
| `Acquisition` | `controlTask`, `writeInt32`, and `pollTask`, `streamTask` and the detector as `controlTask` sees them | |
| `AcquisitionProofs` | theorems about `Acquisition` | |
| `StreamTask` | `streamTask`, `streamApi.cpp`, `stream2Api.cpp` and the detector's side of the stream | |
| `RestSockets` | `doRequest`, `getBlob`, `connect` and the server's side of a connection | |
| `RestSocketsProofs` | theorems about `RestSockets` | |
| `HttpAnswers` | how each call of `RestAPI` reads its answer: one `recv`, or a header and the rest; the header fields; retries and reconnection | |
| `HttpAnswersProofs` | theorems about `HttpAnswers` | |
| `DataFiles` | the number of files, their names, `parseH5File` with its failures, thresholds and counters | |
| `DataFilesProofs` | theorems about `DataFiles` | |
| `Stream2Messages` | `stream2.c`: the decoding of a message as allocations and failures, and `stream2_free_msg` | pure definitions |
| `Stream2Format` | which trees of items are messages, as a grammar: what the decoder should accept, and nothing of how | abstract specification |
| `Stream2` | `stream2Api.cpp` with the decoder in place | uses `Stream2Messages`, and `Stream2Format` for a property |
| `StreamProofs` | theorems about `StreamTask` and about `Stream2` | |
| `SideTasks` | `initializeTask`, `restartTask`, `monitorTask`, `parseTiffFile`, and the writes that wake them | |
| `SideTasksProofs` | theorems about `SideTasks` | |
| `ParamCache` | `EigerParam` and `EigerParamSet`, with the parameters of the detector | |
| `ParamCacheProofs` | theorems about `ParamCache` | |
| `MC*` | values of the constants for TLC | |

`Acquisition` abstracts each helper task to receive, work and report; that its
`pollTask` may report at any time after it was asked to stop, and eventually
does, is what `FilePipeline` shows as its implementation of `FileService`, and
the same for `streamTask` is `StreamReports` of `StreamTask`. In the same way
`DataFiles` finds, downloads and queues a file in one step, since how that is
done is the subject of `FilePipeline`; `HttpAnswers` has one connection, since
that a connection has one user is shown in `RestSockets`; and `Stream2` has one
series of calls, since when `streamTask` makes them is shown in `StreamTask`.

### How the models follow the code

*Atomicity.* In `Acquisition` a stretch between `lock()` and `unlock()` is one
action, since every other thread needs the lock to look at what it changes;
where `controlTask` keeps the lock across a loop head (`"loop"`, `"fetch"`) only
actions that need no lock are enabled (`LockFree`). A REST command is two
actions, so that anything can happen while it is under way. In `FilePipeline`,
where nothing is locked but `PENDING_FILES`, every access to a shared field and
every queue operation is an action. In `RestSockets` each `tryLock`, `connect`,
`send`, `select` and `recv` is one. In `ParamCache`, where the lock is held
throughout a `put`, each REST request is one, because the detector is not held.

*Program counters.* `ctlPc`, `pollPc`, `streamPc`, `pc` and the `at` fields of
the workers name the point a task has reached; each value stands for the code
from there to the next one, and `map` gives the lines.

*Events* are Booleans: signalling sets, a successful wait clears.

*Pointers* to `file_t` are file numbers, and `filesLive` says whether the array
exists, so that a dangling pointer is a reference with `filesLive` false.

*Messages.* A ZeroMQ message is the sequence of its parts with a flag for each
that says whether it can be parsed; an HTTP answer is the request it answers.

*Decoding.* `stream2.c` is a recursive descent over CBOR items that allocates as
it goes and gives up at the first error. `Stream2Messages` turns a message, a
tree of items, into the allocations, copies and failures its decoding comes to
(`Ops`), and carries these out with at most one allocation failing (`Run`);
`Pointers` are then the slots of the struct that hold a block, and `IsFreed`
those that the matching free function visits. So every place where decoding may
stop is covered by a few definitions instead of one per `return`. `Stream2Format` says
the same of a message in the other direction: it is a predicate on the tree, has
neither order nor allocations nor a missing item in it, and gives the sizes of numbers
by the table of RFC 8746 where the code shifts bits of the tag. It shares with the
decoder the names of the fields and which kind of value each calls for. `WellFormed` is
the format; with `lax` it also allows the two kinds of message that the code accepts
although they are malformed, a product of dimensions that agrees modulo 2^`Width` and a
key without a value (`IsLost`), so that `AcceptsWellFormed` can say that there are no others.

*What the parser comes to.* The tree is made of the items as the parser of the CBOR
library meets them, which is what was sent as long as the message is whole. Where it is
not: `End` is a place at which the message stops, or a break where none may be; `Break`
is a break in place of a value; and `Past` is an item beyond the last of a map. They
matter after a key that cannot be copied. `parse_key` then takes the key for one that is
too long and therefore unknown, and `cbor_value_advance` goes on from where the copy
failed: at the key once more if a break follows it, at the item after the key if that is
illegible, or inside the content of a key that is cut. That content is read as the rest of a text:
it may begin with a break or with a text that fits, and is an error otherwise
(`KeyValue`). As bytes are not modelled, a message may have a `Break` after any cut key. What
follows is then what the content goes on with, and where the parser has counted key and content
as one item, the last value of the map is `Past`. To skip what is `Past`, or an `End`, is an assertion
failure of the parser.

*HDF5 handles* are the set `open`; a failing step frees what its label closes
(`ToClose`), fall-through included.

*The detector* is external: it takes images, changes state, sends messages,
answers or does not, and closes connections, as far as the driver's code
relies on. The pieces are marked external in `map`.

*Ghost variables* (`outcome`, `deleted`, `lateTriggers`, `misled`, `flawed`,
`late`, `executed`, `dropped`, `stale`, `swallowed`, `unusable`, `pieces`, `lost`,
`spilt`, `shown`, `newest`, `switched`) record history and guard no action.

## 3. Runs

Runs that pass:

| run | instance | shows |
|---|---|---|
| `FilePipeline` | up to 2 data files and the master file, all six settings of save, parse and remove, queues of 1 or 2, repeated acquisitions and stops at any time; saving may fail, downloads may fail where the code survives it | no use of a `file_t` or of its data after it is freed, an exact pending count, deletion only of what was handled, order, termination of a stop, and the refinement of `FileService` |
| `Acquisition` | all trigger modes, 2 triggers of 1 image, every source; a user who stops at any time but starts only when the last acquisition has ended | truthful `ADAcquire`, detector disarmed at rest, at most one late trigger, the stream client outlives its use, nothing ends early, a stop ends it, completion ends it |
| `AcquisitionAnyUser` | 1 trigger of 2 images, any user, any failure | counters stay bounded and the handshake with the helper tasks is clean all the same |
| `StreamTask` | 3 series of 2 images, 2 thresholds in version 2, both versions and switches between them, dropped images, one malformed message, failing `getFrame` | order within each version, completeness unless something was malformed, a report at the end of every series |
| `Stream2` | up to 5 messages, at most one of them odd: every kind of field well formed and with each fault, repeated keys, messages that stop short, keys that are cut or have no value, dimensions whose product wraps, no channels, no time, no memory for one block; dates east and west of UTC | the decoder accepts what is well formed and, beyond that, exactly the two kinds of message listed below, memory and ZeroMQ messages are freed, frames carry their own time, channel and energy, and the process dies only for the reasons listed |
| `RestSockets` | 3 threads (one of them downloads) on 2 connections, one close by the server, answers early, late or never | exclusive use and return of connections, answers to their requests, no command carried out twice but after a close, commands return |
| `HttpAnswers` | up to 3 requests of every kind, bodies shorter and longer than a `recv`, success and refusal, `Connection: close`, one connection lost at any point | a call that succeeds returns its own answer, whole; a call fails for a reason |
| `DataFiles` | 2 acquisitions with eight settings on three models, aborts, one failing step of `parseH5File`, one write of a client: a threshold switched, an energy, or the counter | the images shown are the acquisition's own, complete, counted, and labelled with what was armed unless a client wrote it since; nothing but the data space is left open |
| `SideTasks` | both commands with 3 requests or writes at any moment, failing commands; 2 images with up to two flaws, 2 arrays shared with other sources | a busy command is served and ends, at most one image comes late, arrays return |
| `ParamCache` | a double with an epsilon and one linked to it, an enumeration with two values of one name, an unsigned number without a lower limit, a bool, a read-only state; two failures or changes made elsewhere | coherence, truth of success, reading back what was written |

Runs that TLC finds violated, each a finding in `PROJECT.json`:

| run | disagreement |
|---|---|
| `AcquisitionLostStop` | a stop between two rounds of a continuous acquisition is cleared by the next round |
| `StreamTaskStale` | an acquisition publishes a whole earlier series as its own, after one unreadable message |

The second takes three acquisitions. In the first, one message of version 2 (of whatever
kind) cannot be read; `streamTask` gives up, and the rest of the series stays in the
socket. The second needs a header first: `getHeader` takes a left-over message, fails
on it (`stream2Api.cpp:181-185`), and `streamTask` gives up with nothing published and the
messages of the second series unread too. The third finds the header of the second
series, and publishes that series. With more messages left over, as many acquisitions
fail before one is a series behind. In version 1 left-over parts are skipped as stray (1434).

### What the passing runs exclude

The properties are stated as strongly as the code allows. Where it breaks one, the
case is excluded by a named constant or a named exception in the property, not by
leaving it out of the module. To see TLC find the violation, change the constant
in the `.cfg`:

| constant | property that then fails | because |
|---|---|---|
| `DownloadFails <- SaveAndParse` (`FilePipeline`) | `StopCompletes` | a failed download drops one of the two references of a file that is saved and parsed (`eigerDetector.cpp:1212`) |
| `DownloadFails <- SaveAndRemove` | `DeletedOnlyIfHandled` | a file whose download failed still has its remove flag (1345) |
| `SleepCoversTail = FALSE` | `NoUseAfterFree` | `downloadTask` reads the `file_t` after handing it on (1219); only `pollTask`'s sleep protects it |
| `Thresholds = 2`, `TriggerModes <- ExternalOnly` (`Acquisition`) | `AllImagesTaken` | the image counter counts NDArrays (1030) |
| `RequestsFail = TRUE` | `DisarmedAtRest`, `AllImagesTaken`, `StopEnds` | results of commands are ignored (1025, 1038) |
| `EarlyStarts = TRUE` | `AcquireTellsTheTruth` | `ADStatus` is Aborted while the aborted acquisition still runs (503) |
| `Reconfigures = TRUE` | `StreamAPIOutlivesUse`, `StopEnds` | `writeInt32` deletes the client in use (577) |
| `ParseErrors` with 1 or 2 (`StreamTask`) | `StreamReports` | result codes read as `STREAM_` codes (`stream2Api.cpp:220`) |
| `Params <- InitParams` (`ParamCache`) | `Coherent` | `put<bool>` takes an enumeration to begin with its true value (`eigerParam.cpp:226`) |

| exception in | of the property | because |
|---|---|---|
| `BusyIsServed`, `BusyEnds` | `swallowed` requests | the task resets the parameter, then discards the event (1591) |
| `ArraysReturned` | `unusable` images | two returns of `parseTiffFile` keep the array they allocated |
| `OnlyDataSpacesLeft` | the data space | it is closed at no label of `parseH5File` |
| `ImagesAreOwn` | patterns without `$id` | the names do not tell acquisitions apart (`restApi.cpp:205`) |
| `LabelsTrue` | thresholds 3 and 4; enables (1818-1826) or energies that a client wrote since the arm | the branch for them is never reached (1829); both are read when a file is parsed |
| `AcceptsWellFormed` | dimensions whose product wraps | the product is of `uint64_t`s and is compared modulo 2^64 (`stream2.c:350`) |
| `AcceptsWellFormed` | keys for whose value the parser takes a break, or their own content | `parse_key` takes an error for a long key and goes on where the parser is (`stream2.c:88`) |
| `CountersAgree` | counters that a client writes | `parseTask` writes back its copy (1841) |
| `OwnAndWhole`, `FailsForAReason` | answers in `pieces` | one `recv` is taken for a whole answer (`restApi.cpp:653`) |
| `AnswerIsOwn` | connections with a late answer | the connection is kept after a timeout (646) |
| `NothingLost`, `DiesForAReason` | as their comments list | a repeated list, an image without channels, undecodable messages (`stream2Api.cpp:255`) |
| `TimestampRight` | products of more than `Width` bits | the ticks are multiplied before the division (`stream2Api.cpp:113`) |
| `SuccessIsTrue`, `Coherent` | `stale` parameters | nobody told the driver of the change |

### Bounds and why they are enough

* `MaxData = 2` with the master file: two data files are the fewest with an
  order between them, and three files in all exceed the capacity of every
  queue, so that each blocks. The code's `MAX_RETRIES` is 2 here too, so the
  count across different files is exercised.
* `NumImages`, `NumTriggers`: their product is 2 in both runs, once by triggers
  and once by images; the first allows a stop between two triggers, the second
  an acquisition cut off in the middle.
* `MaxSeries = 3`: one series leaves something behind, the next reads it, and
  one more shows that the shift persists or has gone. `MaxFlaws = 1`: one bad
  message per behaviour, at any place. With a fourth
  series the clients of both versions can hold images of earlier series at once,
  and the arrays of the two versions together are then out of order. That those of
  each version are in order all the same is the theorem `ArraysInOrder`, for any
  number of series and flaws; TLC finds no error either with `MaxSeries = 4`,
  `Channels = 1`, `HeaderDetails <- None`, `Flaws <- Unreadable`, `FrameFails = FALSE`.
* `NumSockets = 2` with three threads makes the pool run out. One close is
  enough for every retry path, `MAX_HTTP_RETRIES` being 1.
* `MaxFaults = 2` in `ParamCache`: a failure and a change made elsewhere in one
  operation. The numbers `-1 .. 3` pass each limit of a parameter by one and lie at,
  within and outside the epsilon of each other.
* `DataFiles`: two acquisitions are needed for files left by an earlier one; the
  eight settings are full and partly filled files, several triggers, a file size
  of zero, a product beyond `IntMax`, a pattern without `$id`, names that do not
  fit, and one, several and unlabelled thresholds. One write of a client is enough to
  come between the arming and the opening of any file (`MaxChanges = 1`).
* `HttpAnswers`: a header of 2 units, a first `recv` of 3 and bodies of 0, 1 and 3
  make answers that fit, that fill the `recv` exactly and that exceed it. Three
  sends are a request, its retry and one more.
* `Stream2`: five messages are header, image, a header with other thresholds or
  an odd message, image, end; any one allocation of any of them may fail.
  `SECFRAC_DIGITS = 2` and `Width = 10` are 9 and 64 in the code; the numbers of
  the messages lie on both sides of the overflow, of the product of ticks and of that of
  dimensions (2 by 514 is 4 modulo 2^10). `MaxNesting = 7` is more than the
  depth of these messages; the parser gives up at 1024 (`cborinternal_p.h:105`).
* `SideTasks`: three writes are a request, a second while the first runs, and
  another in the gap before `tryWait`; two images with two arrays exhaust the pool.

The queues are shorter than the code's: shorter ones block more often. The
theorems cover the other values of the constants where they apply.

`CHECK_DEADLOCK FALSE` stands where the model may stop: `StreamTask` ends after
`MaxSeries` and may crash the IOC after a failed `getFrame`; `RestSockets` ends
after `MaxCalls`, `HttpAnswers` after `MaxSends`, `DataFiles` after `MaxSeries`,
`Stream2` after `MaxMessages` or when the process has died, and `SideTasks` when
its writes are used up and the tasks wait.

### Fairness

Every task is a thread that runs when it can: weak fairness on its actions.
Three things need more. A thread that wants the driver lock while `controlTask`
loops gets it, since `controlTask` leaves the lock for 0.1 s in every round and
EPICS mutexes queue their waiters; in the model `LockFree` is then true again
and again, and the actions of `streamTask`, of the counters and of the stop
that need the lock are strongly fair. Once triggered, the detector exposes
(`Expose` is weakly fair in `Acquisition`). In `StreamTask` everything the task
waits for is in the socket once the detector has stopped, so only the task is
fair. In `SideTasks` the two command tasks are weakly fair, with the end of their
command, which has a timeout in `doRequest`. Nothing is assumed of users, trigger sources, the server's answers, or
the appearance of files.

## 4. Proofs

Eight modules prove, for every value of the constants, each safety property that the
passing runs check, and the safety half of the refinement. The argument is the same
throughout: an inductive invariant, which TLC checked on the instance of the run
first; a lemma that every action preserves each of its parts; and the property as a
consequence. What is assumed of the constants is what the modules' `ASSUME`s say
(positive numbers, Boolean switches, finite sets), and the hypotheses below: they
exclude the cases of the table in section 3 in which the code breaks a property or,
as `SleepCoversTail` does for all of `FilePipelineProofs`, the invariant that the
others rest on.

| theorem | property | hypothesis |
|---|---|---|
| **`FilePipelineProofs`** `MemorySafe` | `NoUseAfterFree` | `SleepCoversTail` |
| `PendingExact` | `PendingIsInFlight` | `SleepCoversTail` |
| `DeletedHandled` | `DeletedOnlyIfHandled` | `SleepCoversTail`; no download fails of a file to be removed |
| `ParsedOrder` | `ParsedInOrder` | `SleepCoversTail` |
| `ServiceSafety` | the initial states and steps of `FileService` | `SleepCoversTail` |
| **`AcquisitionProofs`** `TypeCorrect` | `TypeOK` | |
| `HandshakeInvariant` | | |
| `HandshakeIsClean` | `CleanHandshake` | |
| `DetectorIsDisarmed` | `DisarmedAtRest` | `RequestsFail = FALSE` |
| `AcquireIsTrue` | `AcquireTellsTheTruth` | `PatientUser`: neither starts nor stops early |
| `AtMostOneLateTrigger` | `OneLateTrigger` | `PatientUser` |
| `StreamAPIIsAlive` | `StreamAPIOutlivesUse` | `Reconfigures = FALSE` |
| `NoImageIsCutOff` | `AllImagesTaken` | `Thresholds = 1`, `RequestsFail = FALSE` |
| **`StreamProofs`** `ArraysInOrder` | `PublishedInOrder` | |
| `AcquisitionsAreComplete` | `CompleteUnlessFlawed` | |
| `Stream2NothingLost` | `NothingLost` | |
| `Stream2LabelsMatch` | `LabelsMatch` | |
| `Stream2TimestampRight` | `TimestampRight` | |
| `Stream2DiesForAReason` | `DiesForAReason` | |
| `Stream2AcceptsWellFormed` | `AcceptsWellFormed` | |
| **`RestSocketsProofs`** `PoolIsExclusive` | `SocketsAreReturned` | |
| `AnswersAreOwn` | `AnswerIsOwn` | |
| `CommandsOnce` | `NotDoneTwice` | |
| **`HttpAnswersProofs`** `AnswersAreWhole` | `OwnAndWhole` | |
| `FailuresHaveReasons` | `FailsForAReason` | |
| **`DataFilesProofs`** `OnlyDataSpacesAreLeft` | `OnlyDataSpacesLeft` | |
| `ImagesAreCounted` | `CountersAgree` | |
| `LabelsAreTrue` | `LabelsTrue` | |
| `ImagesAreComplete` | `ImagesAreOwn` | |
| **`SideTasksProofs`** `CommandsAreServed` | `BusyIsServed` | |
| `MonitorStops` | `OneLateImage` | |
| `ArraysComeBack` | `ArraysReturned` | |
| **`ParamCacheProofs`** `PutIsTrue` | `SuccessIsTrue` | |
| `ChoiceIsReadBack` | `ReadsBackWhatWasWritten` | |
| `CacheIsCoherentBut` | `Coherent`, but for the parameters in `Misread` | |
| `CacheIsCoherent` | `Coherent` | `Misread = {}` |

### The invariants, and why they are needed

*`FilePipelineProofs`.* `PipelineInv`. That no freed file is used needs to know, of
every file, which of the four queues and five tasks still has it: `RefsInv` says
that `refCount` is the number of references still to be dropped - by `parseTask`,
by `saveTask`, in `mReapQueue`, and those that a failed download never drops
(`Abandoned`). For that no file may be in a queue twice, which follows from order:
the numbers in `mDownloadQueue`, `mParseQueue` and `mSaveQueue` ascend, and all are
below `fileIx`. `PendingInv` counts the files in flight, so that `pollTask`, which
frees when the count is 0, frees what nobody has. `OutcomeInv` relates the ghost
`outcome` to where a file is; `ParsedOrder` and `DeletedHandled` follow from it.
All of it (`FlowInv`) is stated while `filesLive` only, with `Referenced = {}` when
not. `ServiceSafety` then maps every step to one of `FileService` or a stutter,
action by action; `Handed` says whose turn it is between `controlTask` and
`pollTask`. The fairness of `FileService` is the part of `ImplementsService` that
TLC alone checks.

*`AcquisitionProofs`.* The bounds of `TypeOK` are not inductive by themselves: `TypeInv`
adds that an armed detector has images left (`ImagesLeft`) and that late triggers
are among those sent (`TriggersCounted`), so that no step can count past the end.
`HandshakeInv` is the reason why acquisitions do not mix. A helper task is busy,
or its event set, only while the acquisition that started it is between its start
and its join (`PollOwned`, `StreamOwned`), and only one of "requested, working,
reported" holds at a time, without which a second report could follow the join.
`ArmedOwned` says the same of the detector and of `ARMED`. `CleanHandshake`,
`DisarmedAtRest` and, with itself, `StreamAPIOutlivesUse` follow. `PatientInv` relates
`ADStatus` to where `controlTask` and the port thread are, and says that a late
trigger can only be the one to which `controlTask` was committed when the stop
came. `CountInv` says that once the counter of the last acquisition is cleared
`NumImagesCounter` lags behind the images taken, so that when it is full so are they.

*`StreamProofs`, about `StreamTask`.* `StreamInv`. `Handshake` is `streamTask`'s part of the above. `OrderInv`
follows the images of a version through socket, hands and plugins: the unread
messages are in the order they were sent (`SocketOrder`), none is older than what
came out last (`NewestTaken`), and the image in hand, with the thresholds of it that
are out, lies in between (`HandOrder`). The proof is what showed that order holds for
each version only: an earlier form of the property, which compared arrays of both,
is preserved by no invariant, and fails with a fourth series. `CleanInv` holds until
something is malformed: only the socket of the version in use holds anything, and
that is one series, whole from where it was read (`CleanSockets`, `CleanUnread`), with the parts that the next call
expects in front (`CleanFrames`, `CleanEnd`), and what is out is what was sent less
what is unread or in hand (`CleanPublished`).

*`StreamProofs`, about `Stream2`.* `Stream2Inv`, for any set of messages whose items are trees
(`IsTree`) and whose texts of dates are not empty. Most of the proof is about the decoder,
whatever the message. The operations it comes to are `Tidy` if no block is put
where one already is, and `Accounted` if every block is put where the matching free
function looks: under a key it visits, or in a list that was announced with its
length before. By induction over the operations (`HeapInv`), carrying out such a
sequence leaves nothing that is not freed, wherever it stops (`TidyResult`). That the
operations of a message are tidy is shown from below: the operations of a field form
a block (`IsBlock`), which fills slots of its key only, so blocks of different keys,
joined, are tidy (`BlocksFlat`, over the lemmas on `FlattenSeq`); only a key that is given
twice breaks this. `MessageResult` sums up what decoding any message can come to. The
invariant then says what is kept between calls: the header is one that was accepted,
and the thresholds are those it lists (`HeaderInv`); the image in hand was accepted and has
as many channels as frames are counted (`ImageInv`); no block and no message is held
between frames but by an image without channels (`MemoryInv`); the cached date is the
one of the cached text (`CacheInv`), without which nothing could be said of the time of a
frame; and a frame has the labels and the time of its image (`FrameInv`). `FractionRight`
and `StampRight` do the arithmetic of the timestamp.

`AcceptsWellFormed` is inductive as it stands; the work is in `MessageFormat`, that the
operations of a message contain a failure exactly if it is not of the format. There is
a lemma for each piece of the decoder, which says of which items it fails (`TextOps`,
`BlobOps`, `TypedArrayOps`, `MatrixOps`, `KeyedOps`, ...), over lemmas on joining operations
(`JoinOps`, `ThenOps`, `FlatOps`). Two things make them more than a reading of the
definitions. Texts and keys are read with a look at the next item, so they fail where the
format finds nothing wrong with them; `TextMapOps`, `TextsOps` and `KeyedOps` show that the
item looked at is then one that the format does not allow. And the decoder divides the
bytes of an array by a power of two before it compares them with the dimensions, while
the format multiplies (`NumberSizes`, `MatrixNumbers`, `MatrixOps`). These lemmas are about the
lax format, which is exactly what the decoder accepts; the lemmas `MatrixLax`, `KindLax` and
`FormatLax` show that it allows all that is well formed, since a product that equals a size
of `Width` bits does not wrap. That a run ends with success or out of memory, or else with the
code of one of the failures, is `RunResult`. `FormAssumption`, that the messages which the
instance counts as malformed are those that have not the format, is not used by any
proof: TLC evaluates it, as a check of the grammar against messages written by hand.

*`RestSocketsProofs`.* `SocketsAreReturned` is inductive together with the types of `mutex`,
`at` and `pc` (`PoolInv`). `OwnInv`: on a connection that was never late there is at
most one request or answer, and a thread that has the connection waits for it.
`OnceInv` accounts for a command: it is due (to be carried out), unsent or awaited, and
each copy that the server drops allows for one that is sent again.

*`HttpAnswersProofs`.* `AnswerInv`. On a connection without an answer in pieces nothing is
under way outside of a call (`SilentInv`); within one, it is the last request or a
beginning of its answer (`RecvInv`), and in the middle of a blob, what was read and
what is on its way make up a beginning of the content (`RestInv`). Such pieces are
described by where they start and how long they are (`AnswerFrom`), so that no
induction over their units is needed. `CountInv` bounds retries by the connections
lost, which makes the end of the retries a reason to fail.

*`DataFilesProofs`.* Which handles are open follows from the stage `parseH5File` has
reached (`HandlesInv`); that each failure label closes all of them but the data space
is the lemma `FailedClosed`, a case split over the stages. `ShownInv` is about the
images: the files with a name of this acquisition are its own (`DiskInv`, where the
`$id` is needed), they are queued in order (`QueueInv`), `parseH5File` is at a place
inside of one (`PlaceInv`), the images shown are earlier than that place
(`OrderInv`) and, while nothing failed, all that are (`WholeInv`): their number is
a function of file, image and threshold, for which the lemmas on `RoundedUp`,
`InDetector` and `Taken` do the arithmetic. `LabelInv` and `CountInv` do the same for labels
and counters; `LabelInv` relates what the client has written since the arm (`switched`, the energies)
to the copy of the open file and to the labels given out, for every order of writes,
openings and images.

*`SideTasksProofs`.* `BusyIsServed` is inductive together with the types of `param` and `pc`
and the fact that a task that is about to clear its event has left its parameter
at 0 unless a request was swallowed. `OneLateImage` needs where `monitorTask` is: an
image may still be late only when none has been, or the monitor is enabled.
`PoolInv` says who holds the reference of every array, and that those nobody will
release are at most as many as the images found unusable.

*`ParamCacheProofs`.* `ParamInv`. The cache is coherent between operations only; `CacheInv` says
that in the middle of one what is neither up to date nor stale is still to be
fetched or is the parameter being put. `SentInv` keeps what was sent until put ends,
and `ValidInv` the values of the detector within what the driver can convert both
ways; the enumerations that `initParams` puts as a bool break it, and are `Misread`.

### Not proved

* Everything that needs fairness (`StopCompletes`, `StopEnds`, `CompleteEnds`, `StreamReports`,
  `CommandsReturn`, `BusyEnds`, the liveness of `FileService`): the prover does not do
  `ENABLED`. TLC checks them.

## 5. What is left out

* Paths, permissions, the content of HDF5 and TIFF files, JSON, decompression,
  NDArray attributes and plugin callbacks: data the properties above do not
  tell apart. In `FilePipeline` the name pattern is taken to contain `$id`;
  `DataFiles` does without.
* `RestSockets` takes one `recv` for one answer; `HttpAnswers` does not. The JSON in
  the body of an answer is whether it holds what the call looks for.
* In `Acquisition`: the temporary `NumImages = 1` of the Enable modes, the
  shutter, `ADStatus` as text, the External Gate mode's details.
* In `ParamCache`: parameters of the driver alone, plain strings, records whose
  asyn type does not fit, malformed JSON, and rounding by the detector: put
  caches what it sent, whatever the detector made of it.
* In `Stream2Messages`: the bytes of an item, so that the decoder of the CBOR library
  is what it returns; in particular which bytes of a cut key read on as which items.
  In `Stream2`: decompression, data types, and the calendar of
  RFC 3339 dates, which are a table of texts with their seconds, fractions and
  offsets; what is computed from them is modelled.
* In `SideTasks` and `DataFiles`: pixels, data types and the monitor's unique id. Of
  `parseTiffFile` also two things the code does not look at: whether the table of tags lies
  within the blob (`eigerDetector.cpp:1937-1938`), and whether the pixels copied at 1996
  fit the array, whose size is that of the image's width, height and depth.
* `eigerStatus`: a sequence of fetches, each of which is in `ParamCache`, that is
  skipped while `ADAcquire` is 1; it keeps no state of its own.
* The vendored CBOR and JSON parsers, databases and screens: code of others, or
  declarations.

## 6. Plan

Done, the most important behaviour first:

1. `FileService`, `FilePipeline`, `FilePipelineProofs`: memory and accounting of the pipeline, refinement.
2. `Acquisition`, `AcquisitionProofs`: start, stop and joins.
3. `StreamTask`, `StreamProofs`: protocol and staleness.
4. `RestSockets`, `RestSocketsProofs`: the pool, and whose an answer is.
5. `ParamCache`, `ParamCacheProofs`: coherence of parameters.
6. `SideTasks`, `SideTasksProofs`: command tasks and monitor.
7. `DataFiles`, `DataFilesProofs`: names, numbers and contents of data files.
8. `HttpAnswers`, `HttpAnswersProofs`: answers over several reads and connections.
9. `Stream2Messages`, `Stream2Format`, `Stream2`, `StreamProofs`: the decoder and what is kept of its messages.

Every safety property of these modules has its theorem.

Next:

10. The `NumImages` that a failed arm does not restore, in `Acquisition`.
11. `Driver`: `Acquisition` with `FilePipeline` (through `FileService`) and
    `StreamTask` in place of its abstract helper tasks, for the image counters
    that three threads write.
