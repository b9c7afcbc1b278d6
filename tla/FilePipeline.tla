----------------------------- MODULE FilePipeline -----------------------------
(***************************************************************************)
(* The FileWriter path of eigerDetector.cpp.  controlTask hands one        *)
(* acquisition to pollTask; pollTask looks for its files on the detector   *)
(* and feeds pointers to them through bounded queues to downloadTask,      *)
(* parseTask, saveTask and reapTask, each a thread of its own:             *)
(*                                                                         *)
(*   control --> poll --> download --> parse --+--> reap                   *)
(*      ^         |           |------> save  --+      |                    *)
(*      |         |           +--(failed)------+      |                    *)
(*      +- done --+<----------- pendingFiles ---------+                    *)
(*                                                                         *)
(* The file_t array is allocated by pollTask and shared by all of them;    *)
(* a reference is the index of its file.  File 0 is the master file.       *)
(***************************************************************************)
EXTENDS Naturals, Sequences, FiniteSets

CONSTANTS
    MaxData,        \* bound on the number of data files of an acquisition
    MaxRetries,     \* MAX_RETRIES of pollTask
    DownloadCap,    \* capacities of the four file queues
    ParseCap,
    SaveCap,
    ReapCap,
    Modes,          \* the [save, parse, remove] settings acquisitions may have
    DownloadFails,  \* the settings under which RestAPI::getFile may fail
    SaveFails,      \* may saving to the local disk fail?
    SleepCoversTail \* does downloadTask always finish with a file it has just
                    \* queued before pollTask's 100 ms sleep is over?

Files == 0 .. MaxData
Mode == [save : BOOLEAN, parse : BOOLEAN, remove : BOOLEAN]

(* controlTask starts pollTask only when the files are the data source     *)
(* (parse) or have to be saved.                                            *)
ASSUME ConstantsAssumption ==
    /\ MaxData \in Nat \ {0}
    /\ MaxRetries \in Nat
    /\ {DownloadCap, ParseCap, SaveCap, ReapCap} \subseteq Nat \ {0}
    /\ Modes \subseteq {m \in Mode : m.save \/ m.parse}
    /\ DownloadFails \subseteq Modes
    /\ {SaveFails, SleepCoversTail} \subseteq BOOLEAN

Acquisition == [nData : 1 .. MaxData, mode : Mode]

VARIABLES
    ctlPc,          \* controlTask, as far as it drives pollTask
    request,        \* the acquisition_t it last sent
    mPollQueue, mPollStop, mPollComplete, mPollDoneEvent,
    pollPc,         \* pollTask
    acquisition,    \* its copy of the acquisition_t
    fileIx,         \* i, the index of the file it looks for
    retries,
    files,          \* the file_t array
    filesLive,      \* between calloc and free of that array
    pendingFiles,   \* the PENDING_FILES parameter
    mDownloadQueue, mParseQueue, mSaveQueue, mReapQueue,
    download, parse, save, reap,    \* the four workers: [at, file]
    server,         \* files now on the detector
    deleted,        \* files deleted from the detector
    outcome         \* history: what became of each file of the acquisition

ctlVars == <<ctlPc, request>>
syncVars == <<mPollQueue, mPollStop, mPollComplete, mPollDoneEvent>>
pollVars == <<pollPc, acquisition, fileIx, retries, filesLive>>
queues == <<mDownloadQueue, mParseQueue, mSaveQueue, mReapQueue>>
workers == <<download, parse, save, reap>>
serverVars == <<server, deleted>>
vars == <<ctlVars, syncVars, pollVars, files, pendingFiles, queues, workers,
          serverVars, outcome>>

(* A worker is blocked in receive, or at a later point with a file. *)
Receiving == [at |-> "receive", file |-> 0]
Holds(w, f) == w.at # "receive" /\ w.file = f

\* Later done or lost, or, of saving, failed.
Unprocessed == [f \in Files |-> [parse |-> "open", save |-> "open"]]

(* The file_t entries pollTask fills in for an acquisition: the master     *)
(* file is never parsed.                                                   *)
FilesOf(acq) ==
    [f \in Files |->
        LET p == f # 0 /\ acq.mode.parse
        IN [save |-> acq.mode.save, parse |-> p, remove |-> acq.mode.remove,
            data |-> FALSE,
            refCount |-> (IF acq.mode.save THEN 1 ELSE 0) + (IF p THEN 1 ELSE 0)]]

TotalFiles == acquisition.nData + 1
Wanted(f) == files[f].save \/ files[f].parse

NoAcquisition == [nData |-> 1, mode |-> [save |-> TRUE, parse |-> FALSE,
                                         remove |-> FALSE]]

Init ==
    /\ ctlPc = "idle"
    /\ request = NoAcquisition
    /\ mPollQueue = <<>>
    /\ mPollStop = FALSE /\ mPollComplete = FALSE /\ mPollDoneEvent = FALSE
    /\ pollPc = "receive"
    /\ acquisition = NoAcquisition
    /\ fileIx = 0 /\ retries = 0
    /\ files = FilesOf(NoAcquisition)
    /\ filesLive = FALSE
    /\ pendingFiles = 0
    /\ mDownloadQueue = <<>> /\ mParseQueue = <<>>
    /\ mSaveQueue = <<>> /\ mReapQueue = <<>>
    /\ download = Receiving /\ parse = Receiving
    /\ save = Receiving /\ reap = Receiving
    /\ server = {} /\ deleted = {}
    /\ outcome = Unprocessed

(* epicsMessageQueue: first in, first out.  (Urgent: the last sent is the  *)
(* first received.)                                                        *)
SendUrgent(queue, f) == <<f>> \o queue
Send(queue, f) == Append(queue, f)

(* The decisions the tasks take, each beside a wrong version of it that    *)
(* shows which property depends on it.                                     *)
DrainedWhenQueued == mDownloadQueue = <<>>
Drained == pendingFiles = 0                 \* pollTask may free the array

RetriesForgotten == retries
RetriesAfterMiss == IF mPollStop THEN retries + 1 ELSE retries

FoundAllData == fileIx >= acquisition.nData
FoundAll == fileIx = TotalFiles             \* what pollTask reports

FirstReference(f) == TRUE
LastReference(f) == files[f].refCount = 1   \* the one reapTask is about to drop

RemovedAnyway(f) == files[f].remove
RemoveAfterSaveFailed(f) == FALSE           \* file->remove, once saving failed

-----------------------------------------------------------------------------
(* controlTask. *)

(* A start: the leftover of an earlier acquisition is cleared. *)
CtlClear ==
    /\ ctlPc = "idle"
    /\ ctlPc' = "armed"
    /\ mPollDoneEvent' = FALSE
    /\ UNCHANGED <<request, mPollQueue, mPollStop, mPollComplete, pollVars,
                   files, pendingFiles, queues, workers, serverVars, outcome>>

(* The detector is armed under a new sequence id, so no file of this       *)
(* acquisition exists yet, and pollTask is set to work.                    *)
CtlSend ==
    /\ ctlPc = "armed"
    /\ mPollQueue = <<>>
    /\ \E n \in 1 .. MaxData, m \in Modes :
          /\ request' = [nData |-> n, mode |-> m]
          /\ mPollQueue' = <<request'>>
    /\ mPollComplete' = FALSE
    /\ mPollStop' = FALSE
    /\ ctlPc' = "acquire"
    /\ server' = {} /\ deleted' = {}
    /\ outcome' = Unprocessed
    /\ UNCHANGED <<mPollDoneEvent, pollVars, files, pendingFiles, queues, workers>>

(* The detector is disarmed and its FileWriter has left "acquire". *)
CtlStop ==
    /\ ctlPc = "acquire"
    /\ ctlPc' = "wait"
    /\ mPollStop' = TRUE
    /\ UNCHANGED <<request, mPollQueue, mPollComplete, mPollDoneEvent, pollVars,
                   files, pendingFiles, queues, workers, serverVars, outcome>>

CtlJoin ==
    /\ ctlPc = "wait"
    /\ mPollDoneEvent
    /\ mPollDoneEvent' = FALSE
    /\ ctlPc' = "idle"
    /\ UNCHANGED <<request, mPollQueue, mPollStop, mPollComplete, pollVars,
                   files, pendingFiles, queues, workers, serverVars, outcome>>

(* The detector closes one more file of the running acquisition.  After an *)
(* abort the rest of the list never appears.                               *)
FileAppears ==
    /\ ctlPc = "acquire"
    /\ \E f \in 0 .. request.nData :
          /\ f \notin server \cup deleted
          /\ server' = server \cup {f}
    /\ UNCHANGED <<deleted, ctlVars, syncVars, pollVars, files, pendingFiles,
                   queues, workers, outcome>>

-----------------------------------------------------------------------------
(* pollTask. *)

PollReceive ==
    /\ pollPc = "receive"
    /\ mPollQueue # <<>>
    /\ acquisition' = Head(mPollQueue)
    /\ mPollQueue' = Tail(mPollQueue)
    /\ files' = FilesOf(acquisition')
    /\ filesLive' = TRUE
    /\ pendingFiles' = 0
    /\ fileIx' = 0 /\ retries' = 0
    /\ pollPc' = "search"
    /\ UNCHANGED <<mPollStop, mPollComplete, mPollDoneEvent, ctlVars, queues,
                   workers, serverVars, outcome>>

Searching == pollPc = "search" /\ fileIx < TotalFiles /\ retries <= MaxRetries

(* waitFile finds a file nobody needs: at most it is deleted. *)
PollSkip ==
    /\ Searching /\ fileIx \in server /\ ~Wanted(fileIx)
    /\ fileIx' = fileIx + 1
    /\ IF files[fileIx].remove
       THEN server' = server \ {fileIx} /\ deleted' = deleted \cup {fileIx}
       ELSE UNCHANGED serverVars
    /\ UNCHANGED <<pollPc, acquisition, retries, filesLive, ctlVars, syncVars,
                   files, pendingFiles, queues, workers, outcome>>

(* waitFile finds a file to process: it is counted under the lock ... *)
PollCount ==
    /\ Searching /\ fileIx \in server /\ Wanted(fileIx)
    /\ pendingFiles' = pendingFiles + 1
    /\ pollPc' = "send"
    /\ UNCHANGED <<acquisition, fileIx, retries, filesLive, ctlVars, syncVars,
                   files, queues, workers, serverVars, outcome>>

(* ... and queued without it, which may block. *)
PollSend ==
    /\ pollPc = "send"
    /\ Len(mDownloadQueue) < DownloadCap
    /\ mDownloadQueue' = Send(mDownloadQueue, fileIx)
    /\ fileIx' = fileIx + 1
    /\ pollPc' = "search"
    /\ UNCHANGED <<acquisition, retries, filesLive, ctlVars, syncVars, files,
                   pendingFiles, mParseQueue, mSaveQueue, mReapQueue, workers,
                   serverVars, outcome>>

(* waitFile gives up: no such file yet, or the request itself failed.  It  *)
(* counts only once controlTask has asked pollTask to stop.                *)
PollMiss ==
    /\ Searching
    /\ retries' = RetriesAfterMiss
    /\ UNCHANGED <<pollPc, acquisition, fileIx, filesLive, ctlVars, syncVars,
                   files, pendingFiles, queues, workers, serverVars, outcome>>

PollSearched ==
    /\ pollPc = "search" /\ ~Searching
    /\ pollPc' = "drain"
    /\ UNCHANGED <<acquisition, fileIx, retries, filesLive, ctlVars, syncVars,
                   files, pendingFiles, queues, workers, serverVars, outcome>>

(* pollTask reads no pending file, and sleeps once more. *)
PollDrained ==
    /\ pollPc = "drain"
    /\ Drained
    /\ pollPc' = "free"
    /\ UNCHANGED <<acquisition, fileIx, retries, filesLive, ctlVars, syncVars,
                   files, pendingFiles, queues, workers, serverVars, outcome>>

PollFree ==
    /\ pollPc = "free"
    /\ SleepCoversTail => download.at # "tail"
    /\ filesLive' = FALSE
    /\ pollPc' = "signal"
    /\ UNCHANGED <<acquisition, fileIx, retries, ctlVars, syncVars, files,
                   pendingFiles, queues, workers, serverVars, outcome>>

PollSignal ==
    /\ pollPc = "signal"
    /\ mPollComplete' = FoundAll
    /\ mPollDoneEvent' = TRUE
    /\ pollPc' = "receive"
    /\ UNCHANGED <<acquisition, fileIx, retries, filesLive, mPollQueue, mPollStop,
                   ctlVars, files, pendingFiles, queues, workers, serverVars,
                   outcome>>

Poll == PollReceive \/ PollSkip \/ PollCount \/ PollSend \/ PollMiss
        \/ PollSearched \/ PollDrained \/ PollFree \/ PollSignal

-----------------------------------------------------------------------------
(* downloadTask. *)

DownloadReceive ==
    /\ download.at = "receive"
    /\ mDownloadQueue # <<>>
    /\ download' = [at |-> "get", file |-> Head(mDownloadQueue)]
    /\ mDownloadQueue' = Tail(mDownloadQueue)
    /\ UNCHANGED <<ctlVars, syncVars, pollVars, files, pendingFiles, mParseQueue,
                   mSaveQueue, mReapQueue, parse, save, reap, serverVars, outcome>>

DownloadOk ==
    /\ download.at = "get"
    /\ files' = [files EXCEPT ![download.file].data = TRUE]
    /\ download' = [download EXCEPT !.at = IF files[download.file].parse
                                           THEN "parse" ELSE "tail"]
    /\ UNCHANGED <<ctlVars, syncVars, pollVars, pendingFiles, queues, parse, save,
                   reap, serverVars, outcome>>

(* getFile fails: the file goes to reapTask, once. *)
DownloadFail ==
    /\ acquisition.mode \in DownloadFails
    /\ download.at = "get"
    /\ download' = [download EXCEPT !.at = "reap"]
    /\ outcome' = [outcome EXCEPT ![download.file] = [parse |-> "lost", save |-> "lost"]]
    /\ UNCHANGED <<ctlVars, syncVars, pollVars, files, pendingFiles, queues, parse,
                   save, reap, serverVars>>

DownloadSendParse ==
    /\ download.at = "parse"
    /\ Len(mParseQueue) < ParseCap
    /\ mParseQueue' = Send(mParseQueue, download.file)
    /\ download' = [download EXCEPT !.at = "tail"]
    /\ UNCHANGED <<ctlVars, syncVars, pollVars, files, pendingFiles, mDownloadQueue,
                   mSaveQueue, mReapQueue, parse, save, reap, serverVars, outcome>>

(* The test of file->save, which follows the hand-over to parseTask.  Read *)
(* from a freed array it may have either value.                            *)
DownloadTail ==
    /\ download.at = "tail"
    /\ \E wantsSave \in IF filesLive THEN {files[download.file].save} ELSE BOOLEAN :
          download' = IF wantsSave THEN [download EXCEPT !.at = "save"] ELSE Receiving
    /\ UNCHANGED <<ctlVars, syncVars, pollVars, files, pendingFiles, queues, parse,
                   save, reap, serverVars, outcome>>

DownloadSendSave ==
    /\ download.at = "save"
    /\ Len(mSaveQueue) < SaveCap
    /\ mSaveQueue' = Send(mSaveQueue, download.file)
    /\ download' = Receiving
    /\ UNCHANGED <<ctlVars, syncVars, pollVars, files, pendingFiles, mDownloadQueue,
                   mParseQueue, mReapQueue, parse, save, reap, serverVars, outcome>>

DownloadSendReap ==
    /\ download.at = "reap"
    /\ Len(mReapQueue) < ReapCap
    /\ mReapQueue' = Send(mReapQueue, download.file)
    /\ download' = Receiving
    /\ UNCHANGED <<ctlVars, syncVars, pollVars, files, pendingFiles, mDownloadQueue,
                   mParseQueue, mSaveQueue, parse, save, reap, serverVars, outcome>>

Download == DownloadReceive \/ DownloadOk \/ DownloadFail \/ DownloadSendParse
            \/ DownloadTail \/ DownloadSendSave \/ DownloadSendReap

-----------------------------------------------------------------------------
(* parseTask: a file that cannot be parsed is only reported. *)

ParseReceive ==
    /\ parse.at = "receive"
    /\ mParseQueue # <<>>
    /\ parse' = [at |-> "parse", file |-> Head(mParseQueue)]
    /\ mParseQueue' = Tail(mParseQueue)
    /\ UNCHANGED <<ctlVars, syncVars, pollVars, files, pendingFiles, mDownloadQueue,
                   mSaveQueue, mReapQueue, download, save, reap, serverVars, outcome>>

ParseFile ==
    /\ parse.at = "parse"
    /\ parse' = [parse EXCEPT !.at = "reap"]
    /\ outcome' = [outcome EXCEPT ![parse.file].parse = "done"]
    /\ UNCHANGED <<ctlVars, syncVars, pollVars, files, pendingFiles, queues,
                   download, save, reap, serverVars>>

ParseSendReap ==
    /\ parse.at = "reap"
    /\ Len(mReapQueue) < ReapCap
    /\ mReapQueue' = Send(mReapQueue, parse.file)
    /\ parse' = Receiving
    /\ UNCHANGED <<ctlVars, syncVars, pollVars, files, pendingFiles, mDownloadQueue,
                   mParseQueue, mSaveQueue, download, save, reap, serverVars, outcome>>

Parse == ParseReceive \/ ParseFile \/ ParseSendReap

-----------------------------------------------------------------------------
(* saveTask: when the local file cannot be opened or written the copy on   *)
(* the detector is kept.                                                   *)

SaveReceive ==
    /\ save.at = "receive"
    /\ mSaveQueue # <<>>
    /\ save' = [at |-> "write", file |-> Head(mSaveQueue)]
    /\ mSaveQueue' = Tail(mSaveQueue)
    /\ UNCHANGED <<ctlVars, syncVars, pollVars, files, pendingFiles, mDownloadQueue,
                   mParseQueue, mReapQueue, download, parse, reap, serverVars, outcome>>

SaveOk ==
    /\ save.at = "write"
    /\ save' = [save EXCEPT !.at = "reap"]
    /\ outcome' = [outcome EXCEPT ![save.file].save = "done"]
    /\ UNCHANGED <<ctlVars, syncVars, pollVars, files, pendingFiles, queues,
                   download, parse, reap, serverVars>>

SaveFail ==
    /\ SaveFails
    /\ save.at = "write"
    /\ save' = [save EXCEPT !.at = "reap"]
    /\ files' = [files EXCEPT ![save.file].remove = RemoveAfterSaveFailed(save.file)]
    /\ outcome' = [outcome EXCEPT ![save.file].save = "failed"]
    /\ UNCHANGED <<ctlVars, syncVars, pollVars, pendingFiles, queues, download,
                   parse, reap, serverVars>>

SaveSendReap ==
    /\ save.at = "reap"
    /\ Len(mReapQueue) < ReapCap
    /\ mReapQueue' = Send(mReapQueue, save.file)
    /\ save' = Receiving
    /\ UNCHANGED <<ctlVars, syncVars, pollVars, files, pendingFiles, mDownloadQueue,
                   mParseQueue, mSaveQueue, download, parse, reap, serverVars, outcome>>

Save == SaveReceive \/ SaveOk \/ SaveFail \/ SaveSendReap

-----------------------------------------------------------------------------
(* reapTask: the last reference releases the file. *)

ReapReceive ==
    /\ reap.at = "receive"
    /\ mReapQueue # <<>>
    /\ LET f == Head(mReapQueue)
       IN /\ files' = [files EXCEPT ![f].refCount = @ - 1]
          /\ reap' = IF LastReference(f) THEN [at |-> "release", file |-> f] ELSE Receiving
    /\ mReapQueue' = Tail(mReapQueue)
    /\ UNCHANGED <<ctlVars, syncVars, pollVars, pendingFiles, mDownloadQueue,
                   mParseQueue, mSaveQueue, download, parse, save, serverVars, outcome>>

ReapRelease ==
    /\ reap.at = "release"
    /\ IF files[reap.file].remove
       THEN /\ server' = server \ {reap.file}
            /\ deleted' = deleted \cup {reap.file}
       ELSE UNCHANGED serverVars
    /\ files' = [files EXCEPT ![reap.file].data = FALSE]
    /\ reap' = [reap EXCEPT !.at = "count"]
    /\ UNCHANGED <<ctlVars, syncVars, pollVars, pendingFiles, queues, download,
                   parse, save, outcome>>

ReapCount ==
    /\ reap.at = "count"
    /\ pendingFiles' = pendingFiles - 1
    /\ reap' = Receiving
    /\ UNCHANGED <<ctlVars, syncVars, pollVars, files, queues, download, parse,
                   save, serverVars, outcome>>

Reap == ReapReceive \/ ReapRelease \/ ReapCount

-----------------------------------------------------------------------------
Control == CtlClear \/ CtlSend \/ CtlStop \/ CtlJoin

Next == Control \/ FileAppears \/ Poll \/ Download \/ Parse \/ Save \/ Reap

(* Every task is a thread the scheduler keeps running.  Nothing obliges    *)
(* the detector to write files or the user to acquire, and controlTask     *)
(* stops polling only when the FileWriter lets it.                         *)
Fairness ==
    /\ WF_vars(Poll) /\ WF_vars(Download) /\ WF_vars(Parse)
    /\ WF_vars(Save) /\ WF_vars(Reap) /\ WF_vars(CtlJoin)

Spec == Init /\ [][Next]_vars
FairSpec == Spec /\ Fairness
-----------------------------------------------------------------------------
(* Properties. *)

Elements(queue) == {queue[k] : k \in DOMAIN queue}

(* The files some task can still reach. *)
Referenced ==
    Elements(mDownloadQueue) \cup Elements(mParseQueue) \cup Elements(mSaveQueue)
    \cup Elements(mReapQueue)
    \cup {f \in Files : \E w \in {download, parse, save, reap} : Holds(w, f)}

(* pollTask frees the file_t array ("All pending files were processed and  *)
(* reaped") only when no queue and no other task still has a pointer into  *)
(* it, and reapTask frees the contents of a file only after parseTask and  *)
(* saveTask are both through with them: nobody parses or writes freed      *)
(* data.                                                                   *)
NoUseAfterFree ==
    /\ ~filesLive => Referenced = {}
    /\ parse.at = "parse" => files[parse.file].data
    /\ save.at = "write" => files[save.file].data
    /\ \A f \in Elements(mParseQueue) \cup Elements(mSaveQueue) : files[f].data

(* PENDING_FILES, which pollTask increments and reapTask decrements, is    *)
(* the number of files that were handed to the workers and of which some   *)
(* reference is not reaped yet.                                            *)
HandedOut(f) == f < fileIx \/ (f = fileIx /\ pollPc = "send")
InFlight == {f \in Files : /\ HandedOut(f) /\ Wanted(f)
                           /\ files[f].refCount > 0 \/ Holds(reap, f)}
PendingIsInFlight == filesLive => pendingFiles = Cardinality(InFlight)

(* A file is deleted from the detector only after everything that was      *)
(* asked for was done with it: it was written to the local disk if it had  *)
(* to be saved, and parsed if it had to be parsed (RELEASE.md R2-3).       *)
DeletedOnlyIfHandled ==
    \A f \in deleted :
        /\ request.mode.save => outcome[f].save = "done"
        /\ request.mode.parse /\ f # 0 => outcome[f].parse = "done"

(* Data files are parsed in the order of their numbers, so that images     *)
(* reach the plugins in the order they were taken.                         *)
ParsedInOrder ==
    [][\A f \in Files \ {0} :
          outcome[f].parse = "open" /\ outcome'[f].parse = "done"
          => \A g \in 1 .. f - 1 : outcome[g].parse # "open"]_vars

(* Once pollTask is asked to stop, it drains and controlTask gets out of   *)
(* mPollDoneEvent.wait(), which has no timeout.                            *)
StopCompletes == ctlPc = "wait" ~> ctlPc = "idle"

(* The pipeline implements FileService. *)
Asked(acq) ==
    {o \in Files \X {"parse", "save"} :
        /\ o[1] <= acq.nData
        /\ FilesOf(acq)[o[1]][o[2]]}

phaseBar ==
    IF ctlPc \in {"idle", "armed"} THEN "idle"
    ELSE IF mPollDoneEvent THEN "done"
    ELSE IF ctlPc = "acquire" THEN "busy" ELSE "stopping"
askedBar == IF phaseBar = "idle" THEN {} ELSE Asked(request)
todoBar == {o \in askedBar : outcome[o[1]][o[2]] = "open"}
completeBar == phaseBar = "done" /\ mPollComplete

Service == INSTANCE FileService
    WITH phase <- phaseBar, asked <- askedBar, todo <- todoBar,
         complete <- completeBar
ImplementsService == Service!ServiceSpec
=============================================================================
