-------------------------- MODULE FilePipelineProofs --------------------------
(***************************************************************************)
(* Theorems about FilePipeline, for every number of files, every capacity  *)
(* of the queues and every mixture of acquisitions: no task uses what      *)
(* another has freed, PENDING_FILES counts what is under way, a file is    *)
(* deleted only after everything was done with it, data files are parsed   *)
(* in order, and each step of the pipeline is one FileService allows.      *)
(***************************************************************************)
EXTENDS FilePipeline, FiniteSetTheorems, TLAPS

(* The values of the variables.                                            *)
FileEntry == [save : BOOLEAN, parse : BOOLEAN, remove : BOOLEAN, data : BOOLEAN,
              refCount : Int]
Outcome == [parse : {"open", "done", "lost"},
            save : {"open", "done", "failed", "lost"}]

TypeInv ==
    /\ request \in Acquisition /\ acquisition \in Acquisition
    /\ files \in [Files -> FileEntry] /\ outcome \in [Files -> Outcome]
    /\ mDownloadQueue \in Seq(Files) /\ mParseQueue \in Seq(Files)
    /\ mSaveQueue \in Seq(Files) /\ mReapQueue \in Seq(Files)
    /\ download \in [at : {"receive", "get", "parse", "tail", "save", "reap"},
                     file : Files]
    /\ parse \in [at : {"receive", "parse", "reap"}, file : Files]
    /\ save \in [at : {"receive", "write", "reap"}, file : Files]
    /\ reap \in [at : {"receive", "release", "count"}, file : Files]
    /\ fileIx \in 0 .. TotalFiles
    /\ pollPc = "send" => fileIx < TotalFiles
    /\ pendingFiles \in Int
    /\ deleted \subseteq Files

(* controlTask and pollTask hand one acquisition to and fro.               *)
Handed ==
    /\ ctlPc \in {"idle", "armed", "acquire", "wait"}
    /\ filesLive <=> pollPc \in {"search", "send", "drain", "free"}
    /\ pollPc \in {"receive", "search", "send", "drain", "free", "signal"}
    /\ pollPc # "receive"
          => mPollQueue = <<>> /\ ~mPollDoneEvent /\ acquisition = request
    /\ mPollQueue # <<>> =>
          /\ mPollQueue = <<request>> /\ ~mPollDoneEvent
          /\ outcome = Unprocessed /\ deleted = {}
    /\ ctlPc \in {"idle", "armed"} =>
          pollPc = "receive" /\ mPollQueue = <<>> /\ ~mPollDoneEvent
    /\ ctlPc \in {"acquire", "wait"} =>
          pollPc # "receive" \/ mPollQueue # <<>> \/ mPollDoneEvent

-----------------------------------------------------------------------------
(* The rest is about one acquisition, while its file_t array lives.        *)

(* What pollTask asked for; a failed save takes the remove back.           *)
EntriesInv ==
    \A f \in Files :
        /\ files[f].save <=> acquisition.mode.save
        /\ files[f].parse <=> acquisition.mode.parse /\ f # 0
        /\ files[f].remove => acquisition.mode.remove

(* A file is with pollTask or downloadTask, who keep both its references;  *)
(* from then on it is on its way to or in parseTask, to or in saveTask, or *)
(* waits to be reaped.                                                     *)
Undelivered(f) ==
    \/ f >= fileIx
    \/ f \in Elements(mDownloadQueue)
    \/ download.file = f /\ download.at \in {"get", "parse", "reap"}
ToParse(f) == f \in Elements(mParseQueue) \/ Holds(parse, f)
ToSave(f) ==
    \/ f \in Elements(mSaveQueue) \/ Holds(save, f)
    \/ download.file = f /\ download.at \in {"tail", "save"} /\ files[f].save
Copies(queue, f) == Cardinality({k \in DOMAIN queue : queue[k] = f})

(* A failed download leaves one reference of a file that two tasks want.   *)
Abandoned(f) == outcome[f].parse = "lost" /\ files[f].save /\ files[f].parse

Num(P) == IF P THEN 1 ELSE 0

(* Every task hands the files on in the order of their numbers.            *)
Ascending(queue) == \A j, k \in DOMAIN queue : j < k => queue[j] < queue[k]

DownloadOrder ==
    /\ Ascending(mDownloadQueue)
    /\ \A f \in Elements(mDownloadQueue) :
          /\ f < fileIx /\ Wanted(f)
          /\ download.at # "receive" => download.file < f
    /\ download.at # "receive" => download.file < fileIx /\ Wanted(download.file)
    /\ pollPc = "send" => Wanted(fileIx)
    /\ download.at = "parse" => files[download.file].parse
    /\ download.at = "save" => files[download.file].save

ParseOrder ==
    /\ Ascending(mParseQueue)
    /\ \A f \in Files : ToParse(f) =>
          /\ ~Undelivered(f) /\ files[f].parse
          /\ download.at # "receive" => f <= download.file
          /\ \A g \in Elements(mDownloadQueue) : f < g
    /\ parse.at # "receive" => \A f \in Elements(mParseQueue) : parse.file < f

SaveOrder ==
    /\ Ascending(mSaveQueue)
    /\ \A f \in Files : f \in Elements(mSaveQueue) \/ Holds(save, f) =>
          /\ ~Undelivered(f) /\ files[f].save
          /\ download.at # "receive" => f < download.file
          /\ \A g \in Elements(mDownloadQueue) : f < g
    /\ save.at # "receive" => \A f \in Elements(mSaveQueue) : save.file < f

(* refCount is the number of references still to be dropped.               *)
Refs(f) ==
    /\ Undelivered(f) =>
          /\ files[f].refCount = Num(files[f].save) + Num(files[f].parse)
          /\ Copies(mReapQueue, f) = 0 /\ ~Holds(reap, f)
    /\ ~Undelivered(f) =>
          files[f].refCount = Num(ToParse(f)) + Num(ToSave(f))
                              + Copies(mReapQueue, f) + Num(Abandoned(f))
    /\ Copies(mReapQueue, f) > 0 \/ Holds(reap, f) => Wanted(f)
    /\ Holds(reap, f) => files[f].refCount = 0

RefsInv == \A f \in Files : Refs(f)

(* The contents are there for parseTask and saveTask.                      *)
DataInv ==
    \A f \in Files :
        ToParse(f) \/ ToSave(f) \/ (download.file = f /\ download.at = "parse")
        => files[f].data

(* What is open is still with somebody who will deal with it; what was     *)
(* lost, or failed, stays on the detector.                                 *)
OutcomeOf(f) ==
    /\ Undelivered(f) =>
          LET o == IF download.at = "reap" /\ download.file = f THEN "lost"
                        ELSE "open"
          IN outcome[f].parse = o /\ outcome[f].save = o
    /\ ~Undelivered(f) /\ files[f].parse /\ outcome[f].parse = "open" =>
          f \in Elements(mParseQueue) \/ (parse.at = "parse" /\ parse.file = f)
    /\ ~Undelivered(f) /\ files[f].save /\ outcome[f].save = "open" =>
          \/ f \in Elements(mSaveQueue)
          \/ save.at = "write" /\ save.file = f
          \/ download.at \in {"tail", "save"} /\ download.file = f
    /\ ToParse(f) => outcome[f].parse # "lost"
    /\ ToSave(f) => outcome[f].save # "lost"
    /\ outcome[f].parse = "lost" \/ outcome[f].save = "lost"
       => acquisition.mode \in DownloadFails
    /\ outcome[f].save = "failed" => ~files[f].remove

OutcomeInv == \A f \in Files : OutcomeOf(f)

(* A deleted file was finished, and was to be removed. *)
DeletedInv ==
    \A f \in deleted : f < fileIx /\ files[f].refCount = 0 /\ files[f].remove

PendingInv ==
    /\ pendingFiles = Cardinality(InFlight)
    /\ pollPc = "free" => pendingFiles = 0

FlowInv ==
    /\ EntriesInv /\ DownloadOrder /\ ParseOrder /\ SaveOrder
    /\ RefsInv /\ DataInv /\ OutcomeInv /\ DeletedInv /\ PendingInv

(* None of it matters to anybody when there is no array.                   *)
PipelineInv ==
    /\ TypeInv /\ Handed
    /\ filesLive => FlowInv
    /\ ~filesLive => Referenced = {}
-----------------------------------------------------------------------------
(* Queues.                                                                 *)

(* The places of a file in a queue can be counted. *)
LEMMA CopiesType ==
    ASSUME NEW q \in Seq(Files), NEW g
    PROVE  /\ Elements(q) \subseteq Files /\ Copies(q, g) \in Nat
           /\ IsFiniteSet({k \in DOMAIN q : q[k] = g})
           /\ g \in Elements(q) <=> Copies(q, g) > 0
<1> DEFINE At == {k \in DOMAIN q : q[k] = g}
<1>1. IsFiniteSet(1 .. Len(q)) /\ DOMAIN q = 1 .. Len(q)
  BY FS_Interval
<1>2. IsFiniteSet(At)
  BY <1>1, FS_Subset
<1>3. Cardinality(At) \in Nat /\ (Cardinality(At) = 0 <=> At = {})
  BY <1>2, FS_CardinalityType, FS_EmptySet
<1> QED
  BY <1>2, <1>3 DEF Copies, Elements

(* A file that is sent is the last of the queue.                           *)
LEMMA QueueSend ==
    ASSUME NEW q \in Seq(Files), NEW f \in Files
    PROVE  /\ Send(q, f) \in Seq(Files)
           /\ Elements(Send(q, f)) = Elements(q) \cup {f}
           /\ Ascending(q) /\ (\A g \in Elements(q) : g < f)
                 => Ascending(Send(q, f))
           /\ \A g : Copies(Send(q, f), g) = IF g = f THEN Copies(q, g) + 1
                                                      ELSE Copies(q, g)
<1> DEFINE r == Send(q, f)
           n == Len(q) + 1
<1>1. /\ r \in Seq(Files) /\ DOMAIN r = 1 .. n /\ DOMAIN q = 1 .. Len(q)
      /\ Len(q) \in Nat /\ r[n] = f /\ \A k \in 1 .. Len(q) : r[k] = q[k]
  BY DEF Send
<1>2. Elements(r) = Elements(q) \cup {f}
  BY <1>1 DEF Elements
<1>3. ASSUME Ascending(q), \A g \in Elements(q) : g < f PROVE Ascending(r)
  BY <1>1, <1>3 DEF Ascending, Elements, Files
<1>4. ASSUME NEW g
      PROVE  Copies(r, g) = IF g = f THEN Copies(q, g) + 1 ELSE Copies(q, g)
  <2> DEFINE At == {k \in DOMAIN q : q[k] = g}
             AtR == {k \in DOMAIN r : r[k] = g}
  <2>1. Copies(q, g) = Cardinality(At) /\ Copies(r, g) = Cardinality(AtR)
    BY DEF Copies
  <2>2. IsFiniteSet(At) /\ Cardinality(At) \in Nat
    BY CopiesType DEF Copies
  <2>3. CASE g = f
    <3>1. AtR = At \cup {n} /\ n \notin At
      BY <1>1, <2>3
    <3>2. Cardinality(AtR) = Cardinality(At) + 1
      BY <2>2, <3>1, FS_AddElement
    <3> QED
      BY <2>1, <2>3, <3>2
  <2>4. CASE g # f
    <3>1. AtR = At
      BY <1>1, <2>4
    <3>2. Cardinality(AtR) = Cardinality(At)
      BY ONLY <3>1
    <3> QED
      BY <2>1, <2>2, <2>4, <3>2
  <2> QED
    BY <2>3, <2>4
<1> QED
  BY <1>1, <1>2, <1>3, <1>4

(* A file that is received is the first of the queue.                      *)
LEMMA QueueTake ==
    ASSUME NEW q \in Seq(Files), q # <<>>
    PROVE  /\ Head(q) \in Files /\ Tail(q) \in Seq(Files)
           /\ Elements(q) = Elements(Tail(q)) \cup {Head(q)}
           /\ Ascending(q) => /\ Ascending(Tail(q))
                              /\ \A g \in Elements(Tail(q)) : Head(q) < g
           /\ \A g : Copies(q, g) = IF g = Head(q) THEN Copies(Tail(q), g) + 1
                                                   ELSE Copies(Tail(q), g)
<1> DEFINE r == Tail(q)
           n == Len(q)
<1>1. /\ r \in Seq(Files) /\ DOMAIN r = 1 .. n - 1 /\ DOMAIN q = 1 .. n
      /\ n \in Nat \ {0} /\ Head(q) = q[1] /\ Head(q) \in Files
      /\ \A k \in 1 .. n - 1 : r[k] = q[k + 1]
  OBVIOUS
<1>2. Elements(q) = Elements(r) \cup {Head(q)}
  <2>1. ASSUME NEW k \in 1 .. n PROVE q[k] \in Elements(r) \cup {Head(q)}
    <3>1. CASE k = 1
      BY <1>1, <3>1
    <3>2. CASE k # 1
      <4>1. k - 1 \in 1 .. n - 1 /\ q[k] = r[k - 1]
        BY <1>1, <3>2
      <4> QED
        BY <1>1, <4>1 DEF Elements
    <3> QED
      BY <3>1, <3>2
  <2>2. ASSUME NEW k \in 1 .. n - 1 PROVE r[k] \in Elements(q)
    BY <1>1 DEF Elements
  <2>3. Head(q) \in Elements(q)
    BY <1>1 DEF Elements
  <2>4. Elements(q) \subseteq Elements(r) \cup {Head(q)}
    BY <1>1, <2>1 DEF Elements
  <2>5. Elements(r) \subseteq Elements(q)
    BY <1>1, <2>2 DEF Elements
  <2> QED
    BY <2>3, <2>4, <2>5
<1>3. ASSUME Ascending(q)
      PROVE  Ascending(r) /\ \A g \in Elements(r) : Head(q) < g
  <2>1. Ascending(r)
    BY <1>1, <1>3 DEF Ascending
  <2>2. \A k \in 1 .. n - 1 : q[1] < r[k]
    BY <1>1, <1>3 DEF Ascending
  <2> QED
    BY <1>1, <2>1, <2>2 DEF Elements
<1>4. ASSUME NEW g
      PROVE  Copies(q, g) = IF g = Head(q) THEN Copies(r, g) + 1 ELSE Copies(r, g)
  <2> DEFINE AtQ == {k \in DOMAIN q : q[k] = g}
             At == {k \in DOMAIN r : r[k] = g}
             Later == {k \in 2 .. n : q[k] = g}
             shift == [k \in At |-> k + 1]
  <2>1. Copies(q, g) = Cardinality(AtQ) /\ Copies(r, g) = Cardinality(At)
    BY DEF Copies
  <2>2. \A k \in At : k \in 1 .. n - 1 /\ k + 1 \in Later
    BY <1>1
  <2>3. \A k \in Later : k - 1 \in At /\ (k - 1) + 1 = k
    BY <1>1
  <2>4. shift \in [At -> Later]
    BY <2>2
  <2>5. \A j, k \in At : shift[j] = shift[k] => j = k
    BY <2>2
  <2>6. \A k \in Later : \E j \in At : shift[j] = k
    BY <2>2, <2>3
  <2>7. ExistsBijection(At, Later)
    <3> HIDE DEF At, Later, shift
    <3> QED
      BY <2>4, <2>5, <2>6
      DEF ExistsBijection, Bijection, Injection, Surjection, IsInjective
  <2>8. IsFiniteSet(At) /\ Cardinality(At) \in Nat
    BY <1>1, CopiesType DEF Copies
  <2>9. IsFiniteSet(Later) /\ Cardinality(Later) = Cardinality(At)
    BY <2>7, <2>8, FS_Bijection
  <2>10. CASE g = Head(q)
    <3>1. AtQ = Later \cup {1} /\ 1 \notin Later
      BY <1>1, <2>10
    <3>2. Cardinality(AtQ) = Cardinality(Later) + 1
      BY <2>9, <3>1, FS_AddElement
    <3> QED
      BY <2>1, <2>9, <2>10, <3>2
  <2>11. CASE g # Head(q)
    <3>1. AtQ = Later
      BY <1>1, <2>11
    <3>2. Cardinality(AtQ) = Cardinality(Later)
      <4> HIDE DEF AtQ, Later
      <4> QED
        BY <3>1
    <3> HIDE DEF AtQ, At, Later
    <3> QED
      BY <2>1, <2>9, <2>11, <3>2
  <2> QED
    BY <2>10, <2>11
<1> QED
  BY <1>1, <1>2, <1>3, <1>4
-----------------------------------------------------------------------------
(* The initial states. *)

(* The file_t array of a new acquisition. *)
LEMMA FreshFiles ==
    ASSUME NEW acq \in Acquisition
    PROVE  /\ FilesOf(acq) \in [Files -> FileEntry]
           /\ \A f \in Files :
                 /\ FilesOf(acq)[f].save = acq.mode.save
                 /\ FilesOf(acq)[f].parse <=> acq.mode.parse /\ f # 0
                 /\ FilesOf(acq)[f].remove = acq.mode.remove
                 /\ FilesOf(acq)[f].refCount =
                       Num(FilesOf(acq)[f].save) + Num(FilesOf(acq)[f].parse)
<1> DEFINE entry(f) == FilesOf(acq)[f]
<1>1. acq.mode.save \in BOOLEAN /\ acq.mode.parse \in BOOLEAN
      /\ acq.mode.remove \in BOOLEAN
  BY DEF Acquisition, Mode
<1>2. ASSUME NEW f \in Files
      PROVE  /\ entry(f) \in FileEntry
             /\ entry(f).save = acq.mode.save
             /\ entry(f).parse = (f # 0 /\ acq.mode.parse)
             /\ entry(f).remove = acq.mode.remove
             /\ entry(f).refCount = Num(entry(f).save) + Num(entry(f).parse)
  <2>1. entry(f) = [save |-> acq.mode.save, parse |-> (f # 0 /\ acq.mode.parse),
                    remove |-> acq.mode.remove, data |-> FALSE,
                    refCount |-> Num(acq.mode.save) + Num(f # 0 /\ acq.mode.parse)]
    BY DEF FilesOf, Num
  <2>2. Num(acq.mode.save) \in Int /\ Num(f # 0 /\ acq.mode.parse) \in Int
    BY DEF Num
  <2>3. entry(f) \in FileEntry
    <3> HIDE DEF entry
    <3> QED
      BY <1>1, <2>1, <2>2 DEF FileEntry
  <2> QED
    BY <2>1, <2>3
<1>3. FilesOf(acq) = [f \in Files |-> entry(f)]
  BY DEF FilesOf
<1>4. FilesOf(acq) \in [Files -> FileEntry]
  <2> HIDE DEF entry
  <2> QED
    BY <1>2, <1>3
<1> QED
  BY <1>2, <1>4

(* At first there is nothing to do. *)
LEMMA InitialInv == Init => PipelineInv
<1> SUFFICES ASSUME Init PROVE PipelineInv
  OBVIOUS
<1>1. MaxData \in Nat \ {0} /\ 0 \in Files
  BY ConstantsAssumption DEF ConstantsAssumption, Files
<1>2. NoAcquisition \in Acquisition /\ NoAcquisition.nData = 1
  BY <1>1 DEF NoAcquisition, Acquisition, Mode
<1>3. files \in [Files -> FileEntry] /\ outcome \in [Files -> Outcome]
  BY <1>2, FreshFiles DEF Init, Outcome, Unprocessed
<1>4. /\ download \in [at : {"receive", "get", "parse", "tail", "save", "reap"},
                        file : Files]
      /\ parse \in [at : {"receive", "parse", "reap"}, file : Files]
      /\ save \in [at : {"receive", "write", "reap"}, file : Files]
      /\ reap \in [at : {"receive", "release", "count"}, file : Files]
  BY <1>1 DEF Init, Receiving
<1>5. TypeInv
  BY <1>1, <1>2, <1>3, <1>4 DEF Init, TypeInv, TotalFiles
<1>6. Handed
  BY DEF Init, Handed
<1>7. Referenced = {}
  BY DEF Init, Referenced, Elements, Receiving, Holds
<1> QED
  BY <1>5, <1>6, <1>7 DEF Init, PipelineInv

(* A worker who does something has a file.  *)
LEMMA NoWork ==
    ASSUME TypeInv, Referenced = {}
    PROVE  /\ mDownloadQueue = <<>> /\ mParseQueue = <<>>
           /\ mSaveQueue = <<>> /\ mReapQueue = <<>>
           /\ download.at = "receive" /\ parse.at = "receive"
           /\ save.at = "receive" /\ reap.at = "receive"
           /\ ~Download /\ ~Parse /\ ~Save /\ ~Reap
<1>1. ASSUME NEW q \in Seq(Files), Elements(q) = {} PROVE q = <<>>
  BY <1>1 DEF Elements
<1>2. /\ mDownloadQueue = <<>> /\ mParseQueue = <<>>
      /\ mSaveQueue = <<>> /\ mReapQueue = <<>>
  BY <1>1 DEF TypeInv, Referenced
<1>3. /\ download.at = "receive" /\ parse.at = "receive"
      /\ save.at = "receive" /\ reap.at = "receive"
  BY DEF TypeInv, Referenced, Holds
<1>4. ~Download /\ ~Parse
  BY <1>2, <1>3
  DEF Download, DownloadReceive, DownloadOk, DownloadFail, DownloadSendParse,
      DownloadTail, DownloadSendSave, DownloadSendReap, Parse, ParseReceive,
      ParseFile, ParseSendReap
<1>5. ~Save /\ ~Reap
  BY <1>2, <1>3
  DEF Save, SaveReceive, SaveOk, SaveFail, SaveSendReap, Reap, ReapReceive,
      ReapRelease, ReapCount
<1> QED
  BY <1>2, <1>3, <1>4, <1>5

(* controlTask and pollTask alternate, whatever the workers do. *)
LEMMA HandedStep ==
    ASSUME TypeInv, Handed, [Next]_vars, ~filesLive => Referenced = {}
    PROVE  Handed'
<1> USE DEF Handed, pollVars, syncVars, ctlVars, serverVars
<1>1. CASE UNCHANGED vars
  BY <1>1 DEF vars
<1>2. CASE Control
  <2>1. CASE CtlClear
    BY <2>1 DEF CtlClear
  <2>2. CASE CtlSend
    BY <2>2 DEF CtlSend
  <2>3. CASE CtlStop
    BY <2>3 DEF CtlStop
  <2>4. CASE CtlJoin
    BY <2>4 DEF CtlJoin
  <2> QED
    BY <1>2, <2>1, <2>2, <2>3, <2>4 DEF Control
<1>3. CASE Poll
  <2>1. CASE PollReceive
    BY <2>1 DEF PollReceive
  <2>2. CASE ~PollReceive
    BY <1>3, <2>2
    DEF Poll, PollSkip, PollCount, PollSend, PollMiss, Searching, PollSearched,
        PollDrained, PollFree, PollSignal
  <2> QED
    BY <2>1, <2>2
<1>4. CASE FileAppears
  BY <1>4 DEF FileAppears
<1>5. CASE filesLive /\ (Download \/ Parse \/ Save \/ Reap)
  <2>1. UNCHANGED <<ctlVars, syncVars, pollVars>>
    BY <1>5
    DEF Download, DownloadReceive, DownloadOk, DownloadFail, DownloadSendParse,
        DownloadTail, DownloadSendSave, DownloadSendReap, Parse, ParseReceive,
        ParseFile, ParseSendReap, Save, SaveReceive, SaveOk, SaveFail,
        SaveSendReap, Reap, ReapReceive, ReapRelease, ReapCount
  <2> QED
    BY <1>5, <2>1
<1>6. CASE ~filesLive /\ (Download \/ Parse \/ Save \/ Reap)
  BY <1>6, NoWork
<1> QED
  BY <1>1, <1>2, <1>3, <1>4, <1>5, <1>6 DEF Next

(* The values stay what they are. *)
LEMMA TypeStep ==
    ASSUME TypeInv, Handed, [Next]_vars
    PROVE  TypeInv'
<1> USE DEF TypeInv, pollVars, syncVars, ctlVars, serverVars, queues, workers, TotalFiles
<1>0. MaxData \in Nat \ {0} /\ 0 \in Files /\ Modes \subseteq Mode
      /\ acquisition.nData \in 1 .. MaxData
      /\ Receiving = [at |-> "receive", file |-> 0]
  BY ConstantsAssumption DEF ConstantsAssumption, Files, Acquisition, Receiving
<1>1. CASE UNCHANGED vars
  BY <1>1 DEF vars
<1>2. CASE Control
  <2>1. CASE CtlSend
    BY <1>0, <2>1 DEF CtlSend, Acquisition, Unprocessed, Outcome
  <2> QED
    BY <1>2, <2>1 DEF Control, CtlClear, CtlStop, CtlJoin
<1>3. CASE FileAppears
  BY <1>3 DEF FileAppears
<1>4. CASE Poll
  <2>1. CASE PollReceive
    <3>1. acquisition' = request
      BY <2>1 DEF PollReceive, Handed
    <3>2. files' \in [Files -> FileEntry]
      BY <2>1, <3>1, FreshFiles DEF PollReceive
    <3>3. acquisition'.nData \in 1 .. MaxData
      BY <3>1 DEF Acquisition
    <3> QED
      BY <1>0, <2>1, <3>1, <3>2, <3>3 DEF PollReceive
  <2>2. CASE PollSkip
    <3>1. fileIx \in Files /\ fileIx + 1 \in 0 .. acquisition.nData + 1
      BY <1>0, <2>2 DEF PollSkip, Searching, Files
    <3>2. pollPc' # "send" /\ fileIx' = fileIx + 1 /\ deleted' \subseteq Files
      <4>1. deleted' \in {deleted, deleted \cup {fileIx}}
        BY <2>2 DEF PollSkip
      <4> QED
        BY <2>2, <3>1, <4>1 DEF PollSkip, Searching
    <3> QED
      BY <2>2, <3>1, <3>2 DEF PollSkip
  <2>3. CASE PollCount
    BY <1>0, <2>3 DEF PollCount, Searching
  <2>4. CASE PollSend
    <3>1. fileIx \in Files /\ fileIx + 1 \in 0 .. acquisition.nData + 1
      BY <1>0, <2>4 DEF PollSend, Files
    <3> QED
      BY <2>4, <3>1, QueueSend DEF PollSend
  <2> QED
    BY <1>4, <2>1, <2>2, <2>3, <2>4
    DEF Poll, PollMiss, PollSearched, PollDrained, PollFree, PollSignal
<1>5. CASE Download
  <2>1. CASE DownloadReceive
    BY <1>0, <2>1, QueueTake DEF DownloadReceive
  <2>2. CASE DownloadOk
    BY <1>0, <2>2 DEF DownloadOk, FileEntry
  <2>3. CASE DownloadFail
    BY <1>0, <2>3 DEF DownloadFail, Outcome
  <2>4. CASE DownloadSendParse
    BY <1>0, <2>4, QueueSend DEF DownloadSendParse
  <2>5. CASE DownloadTail
    BY <1>0, <2>5 DEF DownloadTail
  <2>6. CASE DownloadSendSave
    BY <1>0, <2>6, QueueSend DEF DownloadSendSave
  <2>7. CASE DownloadSendReap
    BY <1>0, <2>7, QueueSend DEF DownloadSendReap
  <2> QED
    BY <1>5, <2>1, <2>2, <2>3, <2>4, <2>5, <2>6, <2>7 DEF Download
<1>6. CASE Parse
  <2>1. CASE ParseReceive
    BY <1>0, <2>1, QueueTake DEF ParseReceive
  <2>2. CASE ParseFile
    BY <1>0, <2>2 DEF ParseFile, Outcome
  <2>3. CASE ParseSendReap
    BY <1>0, <2>3, QueueSend DEF ParseSendReap
  <2> QED
    BY <1>6, <2>1, <2>2, <2>3 DEF Parse
<1>7. CASE Save
  <2>1. CASE SaveReceive
    BY <1>0, <2>1, QueueTake DEF SaveReceive
  <2>2. CASE SaveOk
    BY <1>0, <2>2 DEF SaveOk, Outcome
  <2>3. CASE SaveFail
    <3>1. save.file \in Files /\ files[save.file] \in FileEntry
          /\ outcome[save.file] \in Outcome
      BY <1>0
    <3>2. [files[save.file] EXCEPT !.remove = FALSE] \in FileEntry
      BY <3>1 DEF FileEntry
    <3>3. [outcome[save.file] EXCEPT !.save = "failed"] \in Outcome
      BY <3>1 DEF Outcome
    <3>4. /\ files' = [files EXCEPT ![save.file] =
                          [files[save.file] EXCEPT !.remove = FALSE]]
          /\ outcome' = [outcome EXCEPT ![save.file] =
                          [outcome[save.file] EXCEPT !.save = "failed"]]
      BY <2>3 DEF SaveFail, RemoveAfterSaveFailed
    <3>5. files' \in [Files -> FileEntry] /\ outcome' \in [Files -> Outcome]
      BY <1>0, <3>1, <3>2, <3>3, <3>4
    <3>6. save' \in [at : {"receive", "write", "reap"}, file : Files]
      BY <1>0, <2>3 DEF SaveFail
    <3> QED
      BY <1>0, <2>3, <3>5, <3>6 DEF SaveFail
  <2>4. CASE SaveSendReap
    BY <1>0, <2>4, QueueSend DEF SaveSendReap
  <2> QED
    BY <1>7, <2>1, <2>2, <2>3, <2>4 DEF Save
<1>8. CASE Reap
  <2>1. CASE ReapReceive
    <3>1. Head(mReapQueue) \in Files /\ mReapQueue' \in Seq(Files)
      BY <2>1, QueueTake DEF ReapReceive
    <3>2. files' \in [Files -> FileEntry]
      <4> DEFINE f == Head(mReapQueue)
      <4>1. files[f] \in FileEntry
        BY <3>1
      <4>2. [files[f] EXCEPT !.refCount = @ - 1] \in FileEntry
        <5> HIDE DEF f
        <5>1. files[f].refCount - 1 \in Int
          BY <4>1 DEF FileEntry
        <5> QED
          BY <4>1, <5>1 DEF FileEntry
      <4>3. files' = [files EXCEPT ![f] = [files[f] EXCEPT !.refCount = @ - 1]]
        BY <2>1 DEF ReapReceive
      <4> QED
        BY <3>1, <4>2, <4>3
    <3>3. reap' \in [at : {"receive", "release", "count"}, file : Files]
      BY <1>0, <2>1, <3>1 DEF ReapReceive
    <3> QED
      BY <2>1, <3>1, <3>2, <3>3 DEF ReapReceive
  <2>2. CASE ReapRelease
    <3>1. reap.file \in Files /\ files[reap.file] \in FileEntry
      BY <1>0
    <3>2. [files[reap.file] EXCEPT !.data = FALSE] \in FileEntry
      BY <3>1 DEF FileEntry
    <3>3. files' = [files EXCEPT ![reap.file] = [files[reap.file] EXCEPT !.data = FALSE]]
          /\ reap' = [reap EXCEPT !.at = "count"]
      BY <2>2 DEF ReapRelease
    <3>4. files' \in [Files -> FileEntry]
      BY <1>0, <3>1, <3>2, <3>3
    <3>5. reap' \in [at : {"receive", "release", "count"}, file : Files]
      BY <1>0, <3>3
    <3>6. deleted' \subseteq Files
      BY <1>0, <2>2, <3>1 DEF ReapRelease
    <3> QED
      BY <1>0, <2>2, <3>4, <3>5, <3>6 DEF ReapRelease
  <2>3. CASE ReapCount
    BY <1>0, <2>3 DEF ReapCount
  <2> QED
    BY <1>8, <2>1, <2>2, <2>3 DEF Reap
<1> QED
  BY <1>1, <1>2, <1>3, <1>4, <1>5, <1>6, <1>7, <1>8 DEF Next

-----------------------------------------------------------------------------
(* Each action, and the nine parts of FlowInv but PendingInv. *)

(* What an argument about single files needs of the types. *)
LEMMA TypeFacts ==
    ASSUME TypeInv
    PROVE  /\ Elements(mDownloadQueue) \subseteq Files
           /\ Elements(mParseQueue) \subseteq Files
           /\ Elements(mSaveQueue) \subseteq Files
           /\ Elements(mReapQueue) \subseteq Files
           /\ \A f \in Files : Copies(mReapQueue, f) \in Nat
           /\ Files \subseteq Nat /\ fileIx \in Nat /\ deleted \subseteq Files
           /\ {download.file, parse.file, save.file, reap.file} \subseteq Files
           /\ pollPc = "send" => fileIx \in Files
           /\ \A f \in Files :
                 /\ files[f].save \in BOOLEAN /\ files[f].parse \in BOOLEAN
                 /\ files[f].remove \in BOOLEAN /\ files[f].data \in BOOLEAN
                 /\ files[f].refCount \in Int
<1>1. ASSUME NEW f \in Files
      PROVE  files[f] \in FileEntry /\ Copies(mReapQueue, f) \in Nat
  BY CopiesType DEF TypeInv
<1>2. Files \subseteq Nat /\ fileIx \in Nat /\ deleted \subseteq Files
  BY DEF Files, TypeInv
<1>3. {download.file, parse.file, save.file, reap.file} \subseteq Files
  BY DEF TypeInv
<1>4. /\ Elements(mDownloadQueue) \subseteq Files
      /\ Elements(mParseQueue) \subseteq Files
      /\ Elements(mSaveQueue) \subseteq Files
      /\ Elements(mReapQueue) \subseteq Files
  BY CopiesType DEF TypeInv
<1>5. pollPc = "send" => fileIx \in Files
  <2>1. fileIx \in Nat /\ (pollPc = "send" => fileIx < acquisition.nData + 1)
    BY DEF TypeInv, TotalFiles
  <2>2. acquisition.nData \in 1 .. MaxData /\ MaxData \in Nat
    BY ConstantsAssumption DEF ConstantsAssumption, TypeInv, Acquisition
  <2> QED
    BY <2>1, <2>2 DEF Files
<1>6. \A f \in Files : files[f].refCount \in Int
  BY <1>1 DEF FileEntry
<1>7. \A f \in Files : /\ files[f].save \in BOOLEAN /\ files[f].parse \in BOOLEAN
                       /\ files[f].remove \in BOOLEAN /\ files[f].data \in BOOLEAN
  BY <1>1 DEF FileEntry
<1> QED
  BY <1>1, <1>2, <1>3, <1>4, <1>5, <1>6, <1>7

(* The references of a file depend on where it is, and on nothing else. *)
LEMMA RefsKept ==
    ASSUME NEW f \in Files, Refs(f),
           Undelivered(f)' <=> Undelivered(f), ToParse(f)' <=> ToParse(f),
           ToSave(f)' <=> ToSave(f), Abandoned(f)' <=> Abandoned(f),
           Holds(reap, f)' <=> Holds(reap, f),
           Copies(mReapQueue, f)' = Copies(mReapQueue, f),
           files'[f].refCount = files[f].refCount,
           files'[f].save <=> files[f].save, files'[f].parse <=> files[f].parse
    PROVE  Refs(f)'
BY DEF Refs, Wanted, Num

(* pollTask: a file nobody wants is skipped, and deleted if it is to be. *)
LEMMA PollSkipFlow ==
    ASSUME TypeInv, FlowInv, PollSkip, filesLive
    PROVE  /\ EntriesInv' /\ DownloadOrder' /\ ParseOrder' /\ SaveOrder'
           /\ RefsInv' /\ DataInv' /\ OutcomeInv' /\ DeletedInv'
<1>1. /\ UNCHANGED <<acquisition, files, outcome, pollPc, mDownloadQueue,
                     mParseQueue, mSaveQueue, mReapQueue, download, parse, save,
                     reap>>
      /\ fileIx \in Files /\ ~Wanted(fileIx) /\ fileIx' = fileIx + 1
      /\ deleted' =
            IF files[fileIx].remove THEN deleted \cup {fileIx} ELSE deleted
      /\ pollPc # "send"
  <2>1. fileIx \in Files /\ fileIx \in server
    BY ConstantsAssumption
    DEF ConstantsAssumption, PollSkip, Searching, TypeInv, Acquisition, Files,
        TotalFiles
  <2> QED
    BY <2>1
    DEF PollSkip, Searching, pollVars, syncVars, ctlVars, serverVars, queues,
        workers
<1> USE DEF FlowInv, Receiving, Holds, Wanted
<1>3. EntriesInv'
  BY TypeFacts, <1>1 DEF EntriesInv, DownloadOrder, ParseOrder, SaveOrder
<1>4. DownloadOrder'
  BY TypeFacts, <1>1 DEF DownloadOrder, ParseOrder, SaveOrder, EntriesInv
<1>5. ParseOrder'
  BY TypeFacts, <1>1
  DEF ParseOrder, DownloadOrder, SaveOrder, EntriesInv, Undelivered, ToParse
<1>6. SaveOrder'
  BY TypeFacts, <1>1 DEF SaveOrder, DownloadOrder, ParseOrder, EntriesInv
<1>7. RefsInv'
  <2> SUFFICES ASSUME NEW f \in Files PROVE Refs(f)'
    BY DEF RefsInv
  <2>1. Refs(f) /\ f \in Nat
    BY TypeFacts DEF RefsInv
  <2> QED
    BY <2>1, TypeFacts, <1>1
    DEF DownloadOrder, ParseOrder, SaveOrder, EntriesInv, Undelivered, ToParse,
        ToSave, Refs, Abandoned, Num
<1>8. DataInv'
  BY TypeFacts, <1>1
  DEF DataInv, DownloadOrder, ParseOrder, SaveOrder, EntriesInv, ToParse, ToSave
<1>9. OutcomeInv'
  BY TypeFacts, <1>1
  DEF OutcomeInv, DownloadOrder, ParseOrder, SaveOrder, EntriesInv, Undelivered,
      ToParse, ToSave, OutcomeOf
<1>10. DeletedInv'
  <2>1. files[fileIx].refCount = 0
    <3>1. Refs(fileIx) /\ fileIx \in Nat /\ ~Wanted(fileIx)
      BY TypeFacts, <1>1 DEF RefsInv
    <3> QED
      BY <3>1 DEF Refs, Undelivered, Num
  <2> QED
    BY TypeFacts, <1>1, <2>1 DEF DeletedInv
<1> QED
  BY <1>3, <1>4, <1>5, <1>6, <1>7, <1>8, <1>9, <1>10

(* pollTask: a file that is there is counted ... *)
LEMMA PollCountFlow ==
    ASSUME TypeInv, FlowInv, PollCount, filesLive
    PROVE  /\ EntriesInv' /\ DownloadOrder' /\ ParseOrder' /\ SaveOrder'
           /\ RefsInv' /\ DataInv' /\ OutcomeInv' /\ DeletedInv'
<1>1. /\ UNCHANGED <<acquisition, files, outcome, fileIx, mDownloadQueue,
                     mParseQueue, mSaveQueue, mReapQueue, download, parse, save,
                     reap, deleted>>
      /\ Wanted(fileIx)
  BY DEF PollCount, TypeInv, FileEntry, Outcome, syncVars, ctlVars, serverVars,
         queues, workers, Searching
<1> USE DEF FlowInv, Receiving, Holds, Wanted
<1>3. EntriesInv'
  BY TypeFacts, <1>1 DEF EntriesInv, DownloadOrder, ParseOrder, SaveOrder
<1>4. DownloadOrder'
  BY TypeFacts, <1>1 DEF DownloadOrder, ParseOrder, SaveOrder, EntriesInv
<1>5. ParseOrder'
  BY TypeFacts, <1>1
  DEF ParseOrder, DownloadOrder, SaveOrder, EntriesInv, Undelivered, ToParse
<1>6. SaveOrder'
  BY TypeFacts, <1>1
  DEF SaveOrder, DownloadOrder, ParseOrder, EntriesInv, Undelivered
<1>7. RefsInv'
  <2> SUFFICES ASSUME NEW f \in Files PROVE Refs(f)'
    BY DEF RefsInv
  <2>1. Refs(f) /\ f \in Nat
    BY TypeFacts DEF RefsInv
  <2> QED
    BY <2>1, TypeFacts, <1>1
    DEF DownloadOrder, ParseOrder, SaveOrder, EntriesInv, Undelivered, ToParse,
        ToSave, Refs, Abandoned
<1>8. DataInv'
  BY TypeFacts, <1>1
  DEF DataInv, DownloadOrder, ParseOrder, SaveOrder, EntriesInv, ToParse, ToSave
<1>9. OutcomeInv'
  BY TypeFacts, <1>1
  DEF OutcomeInv, DownloadOrder, ParseOrder, SaveOrder, EntriesInv, Undelivered,
      ToParse, ToSave, OutcomeOf
<1>10. DeletedInv'
  BY TypeFacts, <1>1
  DEF DeletedInv, DownloadOrder, ParseOrder, SaveOrder, EntriesInv
<1> QED
  BY <1>3, <1>4, <1>5, <1>6, <1>7, <1>8, <1>9, <1>10

(* ... and sent to downloadTask with both its references. *)
LEMMA PollSendFlow ==
    ASSUME TypeInv, FlowInv, PollSend, filesLive
    PROVE  /\ EntriesInv' /\ DownloadOrder' /\ ParseOrder' /\ SaveOrder'
           /\ RefsInv' /\ DataInv' /\ OutcomeInv' /\ DeletedInv'
<1>1. /\ UNCHANGED <<acquisition, files, outcome, mParseQueue, mSaveQueue,
                     mReapQueue, download, parse, save, reap, deleted>>
      /\ pollPc = "send" /\ pollPc' = "search" /\ fileIx' = fileIx + 1
  BY DEF PollSend, syncVars, ctlVars, serverVars, workers
<1>2. /\ fileIx \in Files
      /\ Elements(mDownloadQueue') = Elements(mDownloadQueue) \cup {fileIx}
      /\ Ascending(mDownloadQueue) /\ (\A g \in Elements(mDownloadQueue) :
            g < fileIx) => Ascending(mDownloadQueue')
      /\ \A g \in Files : Copies(mDownloadQueue', g) =
            IF g = fileIx THEN Copies(mDownloadQueue, g) + 1
                 ELSE Copies(mDownloadQueue, g)
  <2>1. mDownloadQueue \in Seq(Files) /\ fileIx \in Files
        /\ mDownloadQueue' = Send(mDownloadQueue, fileIx)
    BY ConstantsAssumption
    DEF ConstantsAssumption, Acquisition, TypeInv, PollSend, Files, TotalFiles
  <2> QED
    BY <2>1, QueueSend
<1> USE DEF FlowInv, Receiving, Holds, Wanted
<1>3. EntriesInv'
  BY TypeFacts, <1>1, <1>2 DEF EntriesInv, DownloadOrder, ParseOrder, SaveOrder
<1>4. DownloadOrder'
  BY TypeFacts, <1>1, <1>2 DEF DownloadOrder, ParseOrder, SaveOrder, EntriesInv
<1>5. ParseOrder'
  BY TypeFacts, <1>1, <1>2
  DEF ParseOrder, DownloadOrder, SaveOrder, EntriesInv, Undelivered, ToParse
<1>6. SaveOrder'
  BY TypeFacts, <1>1, <1>2
  DEF SaveOrder, DownloadOrder, ParseOrder, EntriesInv, Undelivered
<1>7. RefsInv'
  <2> SUFFICES ASSUME NEW f \in Files PROVE Refs(f)'
    BY DEF RefsInv
  <2>1. Refs(f) /\ f \in Nat
    BY TypeFacts DEF RefsInv
  <2> QED
    BY <2>1, TypeFacts, <1>1, <1>2
    DEF DownloadOrder, ParseOrder, SaveOrder, EntriesInv, Undelivered, ToParse,
        ToSave, Refs, Abandoned, Num
<1>8. DataInv'
  BY TypeFacts, <1>1, <1>2
  DEF DataInv, DownloadOrder, ParseOrder, SaveOrder, EntriesInv, ToParse, ToSave
<1>9. OutcomeInv'
  BY TypeFacts, <1>1, <1>2
  DEF OutcomeInv, DownloadOrder, ParseOrder, SaveOrder, EntriesInv, Undelivered,
      ToParse, ToSave, OutcomeOf
<1>10. DeletedInv'
  BY TypeFacts, <1>1, <1>2
  DEF DeletedInv, DownloadOrder, ParseOrder, SaveOrder, EntriesInv
<1> QED
  BY <1>3, <1>4, <1>5, <1>6, <1>7, <1>8, <1>9, <1>10

(* downloadTask takes the next file. *)
LEMMA DownloadReceiveFlow ==
    ASSUME TypeInv, FlowInv, DownloadReceive, filesLive
    PROVE  /\ EntriesInv' /\ DownloadOrder' /\ ParseOrder' /\ SaveOrder'
           /\ RefsInv' /\ DataInv' /\ OutcomeInv' /\ DeletedInv'
<1> DEFINE h == Head(mDownloadQueue)
<1>1. /\ UNCHANGED <<acquisition, files, outcome, fileIx, pollPc, mParseQueue,
                     mSaveQueue, mReapQueue, parse, save, reap, deleted>>
      /\ download.at = "receive" /\ download'.at = "get" /\ download'.file = h
  BY DEF DownloadReceive, TypeInv, FileEntry, Outcome, pollVars, syncVars,
         ctlVars, serverVars
<1>2. /\ h \in Files
      /\ Elements(mDownloadQueue) = Elements(mDownloadQueue') \cup {h}
      /\ Ascending(mDownloadQueue)
            => Ascending(mDownloadQueue') /\ \A g \in Elements(mDownloadQueue') :
                h < g
      /\ \A g \in Files : Copies(mDownloadQueue, g) =
            IF g = h THEN Copies(mDownloadQueue', g) + 1
                 ELSE Copies(mDownloadQueue', g)
      /\ \A g \in Files : Copies(mDownloadQueue', g) \in Nat
  <2>1. mDownloadQueue \in Seq(Files) /\ mDownloadQueue # <<>>
        /\ mDownloadQueue' = Tail(mDownloadQueue)
    BY DEF TypeInv, DownloadReceive
  <2> QED
    BY <2>1, QueueTake, CopiesType
<1> HIDE DEF h
<1> USE DEF FlowInv, Receiving, Holds, Wanted
<1>3. EntriesInv'
  BY TypeFacts, <1>1, <1>2 DEF EntriesInv, DownloadOrder, ParseOrder, SaveOrder
<1>4. DownloadOrder'
  BY TypeFacts, <1>1, <1>2 DEF DownloadOrder, ParseOrder, SaveOrder, EntriesInv
<1>5. ParseOrder'
  BY TypeFacts, <1>1, <1>2
  DEF ParseOrder, DownloadOrder, SaveOrder, EntriesInv, Undelivered, ToParse
<1>6. SaveOrder'
  BY TypeFacts, <1>1, <1>2
  DEF SaveOrder, DownloadOrder, ParseOrder, EntriesInv, Undelivered
<1>7. RefsInv'
  <2> SUFFICES ASSUME NEW f \in Files PROVE Refs(f)'
    BY DEF RefsInv
  <2>1. Refs(f) /\ f \in Nat
    BY TypeFacts DEF RefsInv
  <2> QED
    BY <2>1, TypeFacts, <1>1, <1>2
    DEF DownloadOrder, ParseOrder, SaveOrder, EntriesInv, Undelivered, ToParse,
        ToSave, Refs, Abandoned
<1>8. DataInv'
  BY TypeFacts, <1>1, <1>2
  DEF DataInv, DownloadOrder, ParseOrder, SaveOrder, EntriesInv, ToParse, ToSave
<1>9. OutcomeInv'
  BY TypeFacts, <1>1, <1>2
  DEF OutcomeInv, DownloadOrder, ParseOrder, SaveOrder, EntriesInv, Undelivered,
      ToParse, ToSave, OutcomeOf
<1>10. DeletedInv'
  BY TypeFacts, <1>1, <1>2
  DEF DeletedInv, DownloadOrder, ParseOrder, SaveOrder, EntriesInv
<1> QED
  BY <1>3, <1>4, <1>5, <1>6, <1>7, <1>8, <1>9, <1>10

(* The contents of the file arrive. *)
LEMMA DownloadOkFlow ==
    ASSUME TypeInv, FlowInv, DownloadOk, filesLive
    PROVE  /\ EntriesInv' /\ DownloadOrder' /\ ParseOrder' /\ SaveOrder'
           /\ RefsInv' /\ DataInv' /\ OutcomeInv' /\ DeletedInv'
<1>1. /\ UNCHANGED <<acquisition, outcome, fileIx, pollPc, mDownloadQueue,
                     mParseQueue, mSaveQueue, mReapQueue, parse, save, reap,
                     deleted>>
      /\ download.at = "get" /\ download'.file = download.file
      /\ download'.at = IF files[download.file].parse THEN "parse" ELSE "tail"
      /\ \A f \in Files :
            /\ files'[f].save = files[f].save /\ files'[f].parse = files[f].parse
            /\ files'[f].remove = files[f].remove
            /\ files'[f].refCount = files[f].refCount
      /\ \A f \in Files : files'[f].data = (f = download.file \/ files[f].data)
  BY ZenonT(60)
  DEF DownloadOk, TypeInv, FileEntry, Outcome, pollVars, syncVars, ctlVars,
      serverVars, queues
<1> USE DEF FlowInv, Receiving, Holds, Wanted
<1>3. EntriesInv'
  BY TypeFacts, <1>1 DEF EntriesInv, DownloadOrder, ParseOrder, SaveOrder
<1>4. DownloadOrder'
  BY TypeFacts, <1>1 DEF DownloadOrder, ParseOrder, SaveOrder, EntriesInv
<1>5. ParseOrder'
  BY TypeFacts, <1>1
  DEF ParseOrder, DownloadOrder, SaveOrder, EntriesInv, Undelivered, ToParse
<1>6. SaveOrder'
  BY TypeFacts, <1>1
  DEF SaveOrder, DownloadOrder, ParseOrder, EntriesInv, Undelivered
<1>7. RefsInv'
  <2> SUFFICES ASSUME NEW f \in Files PROVE Refs(f)'
    BY DEF RefsInv
  <2>1. Refs(f) /\ f \in Nat
    BY TypeFacts DEF RefsInv
  <2>2. (files'[f].save <=> files[f].save) /\ (files'[f].parse <=> files[f].parse)
    BY <1>1
  <2>3. CASE f = download.file /\ ~files[f].parse
    BY TypeFacts, <1>1, <2>1, <2>2, <2>3
    DEF DownloadOrder, ParseOrder, SaveOrder, EntriesInv, Undelivered, ToParse,
        ToSave, Refs, Num, Abandoned
  <2>4. CASE ~(f = download.file /\ ~files[f].parse)
    <3>1. Undelivered(f)' <=> Undelivered(f)
      BY TypeFacts, <1>1, <2>4 DEF Undelivered
    <3>2. (ToParse(f)' <=> ToParse(f)) /\ (ToSave(f)' <=> ToSave(f))
      BY TypeFacts, <1>1, <2>2, <2>4 DEF ToParse, ToSave
    <3>3. Abandoned(f)' <=> Abandoned(f)
      BY TypeFacts, <1>1 DEF Abandoned
    <3>4. Holds(reap, f)' <=> Holds(reap, f)
      BY <1>1
    <3> QED
      BY <1>1, <2>1, <2>2, <3>1, <3>2, <3>3, RefsKept
  <2> QED
    BY <2>3, <2>4
<1>8. DataInv'
  BY TypeFacts, <1>1
  DEF DataInv, DownloadOrder, ParseOrder, SaveOrder, EntriesInv, ToParse, ToSave
<1>9. OutcomeInv'
  BY TypeFacts, <1>1
  DEF OutcomeInv, DownloadOrder, ParseOrder, SaveOrder, EntriesInv, Undelivered,
      ToParse, ToSave, OutcomeOf
<1>10. DeletedInv'
  BY TypeFacts, <1>1
  DEF DeletedInv, DownloadOrder, ParseOrder, SaveOrder, EntriesInv
<1> QED
  BY <1>3, <1>4, <1>5, <1>6, <1>7, <1>8, <1>9, <1>10

(* They do not: the file goes to reapTask with nothing done. *)
LEMMA DownloadFailFlow ==
    ASSUME TypeInv, FlowInv, DownloadFail, filesLive
    PROVE  /\ EntriesInv' /\ DownloadOrder' /\ ParseOrder' /\ SaveOrder'
           /\ RefsInv' /\ DataInv' /\ OutcomeInv' /\ DeletedInv'
<1>1. /\ UNCHANGED <<acquisition, files, fileIx, pollPc, mDownloadQueue,
                     mParseQueue, mSaveQueue, mReapQueue, parse, save, reap,
                     deleted>>
      /\ download.at = "get" /\ download'.at = "reap"
      /\ download'.file = download.file
      /\ acquisition.mode \in DownloadFails
      /\ \A f \in Files : f # download.file => outcome'[f] = outcome[f]
      /\ outcome'[download.file].parse = "lost"
      /\ outcome'[download.file].save = "lost"
  BY DEF DownloadFail, TypeInv, FileEntry, Outcome, pollVars, syncVars, ctlVars,
         serverVars, queues
<1> USE DEF FlowInv, Receiving, Holds, Wanted
<1>3. EntriesInv'
  BY TypeFacts, <1>1 DEF EntriesInv, DownloadOrder, ParseOrder, SaveOrder
<1>4. DownloadOrder'
  BY TypeFacts, <1>1 DEF DownloadOrder, ParseOrder, SaveOrder, EntriesInv
<1>5. ParseOrder'
  BY TypeFacts, <1>1
  DEF ParseOrder, DownloadOrder, SaveOrder, EntriesInv, Undelivered, ToParse
<1>6. SaveOrder'
  BY TypeFacts, <1>1
  DEF SaveOrder, DownloadOrder, ParseOrder, EntriesInv, Undelivered
<1>7. RefsInv'
  <2> SUFFICES ASSUME NEW f \in Files PROVE Refs(f)'
    BY DEF RefsInv
  <2>1. Refs(f) /\ f \in Nat
    BY TypeFacts DEF RefsInv
  <2> QED
    BY <2>1, TypeFacts, <1>1
    DEF DownloadOrder, ParseOrder, SaveOrder, EntriesInv, Undelivered, ToParse,
        ToSave, Refs, Abandoned
<1>8. DataInv'
  BY TypeFacts, <1>1
  DEF DataInv, DownloadOrder, ParseOrder, SaveOrder, EntriesInv, ToParse, ToSave
<1>9. OutcomeInv'
  BY TypeFacts, <1>1
  DEF OutcomeInv, DownloadOrder, ParseOrder, SaveOrder, EntriesInv, Undelivered,
      ToParse, ToSave, OutcomeOf
<1>10. DeletedInv'
  BY TypeFacts, <1>1
  DEF DeletedInv, DownloadOrder, ParseOrder, SaveOrder, EntriesInv
<1> QED
  BY <1>3, <1>4, <1>5, <1>6, <1>7, <1>8, <1>9, <1>10

(* downloadTask hands one of the two references to parseTask ... *)
LEMMA DownloadSendParseFlow ==
    ASSUME TypeInv, FlowInv, DownloadSendParse, filesLive
    PROVE  /\ EntriesInv' /\ DownloadOrder' /\ ParseOrder' /\ SaveOrder'
           /\ RefsInv' /\ DataInv' /\ OutcomeInv' /\ DeletedInv'
<1>1. /\ UNCHANGED <<acquisition, files, outcome, fileIx, pollPc, mDownloadQueue,
                     mSaveQueue, mReapQueue, parse, save, reap, deleted>>
      /\ download.at = "parse" /\ download'.at = "tail"
      /\ download'.file = download.file
  BY DEF DownloadSendParse, TypeInv, FileEntry, Outcome, pollVars, syncVars,
         ctlVars, serverVars
<1>2. /\ download.file \in Files
      /\ Elements(mParseQueue') = Elements(mParseQueue) \cup {download.file}
      /\ Ascending(mParseQueue) /\ (\A g \in Elements(mParseQueue) :
            g < download.file) => Ascending(mParseQueue')
      /\ \A g \in Files : Copies(mParseQueue', g) =
            IF g = download.file THEN Copies(mParseQueue, g) + 1
                 ELSE Copies(mParseQueue, g)
  <2>1. mParseQueue \in Seq(Files) /\ download.file \in Files
        /\ mParseQueue' = Send(mParseQueue, download.file)
    BY ConstantsAssumption
    DEF ConstantsAssumption, Acquisition, TypeInv, DownloadSendParse
  <2> QED
    BY <2>1, QueueSend
<1> USE DEF FlowInv, Receiving, Holds, Wanted
<1>3. EntriesInv'
  BY TypeFacts, <1>1, <1>2 DEF EntriesInv, DownloadOrder, ParseOrder, SaveOrder
<1>4. DownloadOrder'
  BY TypeFacts, <1>1, <1>2 DEF DownloadOrder, ParseOrder, SaveOrder, EntriesInv
<1>5. ParseOrder'
  BY TypeFacts, <1>1, <1>2
  DEF ParseOrder, DownloadOrder, SaveOrder, EntriesInv, Undelivered, ToParse
<1>6. SaveOrder'
  BY TypeFacts, <1>1, <1>2
  DEF SaveOrder, DownloadOrder, ParseOrder, EntriesInv, Undelivered
<1>7. RefsInv'
  <2> SUFFICES ASSUME NEW f \in Files PROVE Refs(f)'
    BY DEF RefsInv
  <2>1. Refs(f) /\ f \in Nat
    BY TypeFacts DEF RefsInv
  <2>2. CASE f = download.file
    BY TypeFacts, <1>1, <1>2, <2>1, <2>2
    DEF DownloadOrder, ParseOrder, SaveOrder, EntriesInv, Undelivered, ToParse,
        ToSave, Refs, Num, Abandoned, OutcomeInv, OutcomeOf
  <2>3. CASE f # download.file
    <3>1. Undelivered(f)' <=> Undelivered(f)
      BY TypeFacts, <1>1, <2>3 DEF Undelivered
    <3>2. (ToParse(f)' <=> ToParse(f)) /\ (ToSave(f)' <=> ToSave(f))
      BY TypeFacts, <1>1, <1>2, <2>3 DEF ToParse, ToSave
    <3>3. (Abandoned(f)' <=> Abandoned(f)) /\ (Holds(reap, f)' <=> Holds(reap, f))
      BY <1>1 DEF Abandoned
    <3> QED
      BY <1>1, <2>1, <3>1, <3>2, <3>3, RefsKept
  <2> QED
    BY <2>2, <2>3
<1>8. DataInv'
  BY TypeFacts, <1>1, <1>2
  DEF DataInv, DownloadOrder, ParseOrder, SaveOrder, EntriesInv, ToParse, ToSave
<1>9. OutcomeInv'
  BY TypeFacts, <1>1, <1>2
  DEF OutcomeInv, DownloadOrder, ParseOrder, SaveOrder, EntriesInv, Undelivered,
      ToParse, ToSave, OutcomeOf
<1>10. DeletedInv'
  BY TypeFacts, <1>1, <1>2
  DEF DeletedInv, DownloadOrder, ParseOrder, SaveOrder, EntriesInv
<1> QED
  BY <1>3, <1>4, <1>5, <1>6, <1>7, <1>8, <1>9, <1>10

(* ... looks at the file once more ... *)
LEMMA DownloadTailFlow ==
    ASSUME TypeInv, FlowInv, DownloadTail, filesLive
    PROVE  /\ EntriesInv' /\ DownloadOrder' /\ ParseOrder' /\ SaveOrder'
           /\ RefsInv' /\ DataInv' /\ OutcomeInv' /\ DeletedInv'
<1>1. /\ UNCHANGED <<acquisition, files, outcome, fileIx, pollPc, mDownloadQueue,
                     mParseQueue, mSaveQueue, mReapQueue, parse, save, reap,
                     deleted>>
      /\ download.at = "tail"
      /\ download' =
            IF files[download.file].save THEN [at |-> "save", file |-> download.file]
           ELSE Receiving
  BY DEF DownloadTail, TypeInv, FileEntry, Outcome, pollVars, syncVars, ctlVars,
         serverVars, queues, Receiving
<1> USE DEF FlowInv, Receiving, Holds, Wanted
<1>3. EntriesInv'
  BY TypeFacts, <1>1 DEF EntriesInv, DownloadOrder, ParseOrder, SaveOrder
<1>4. DownloadOrder'
  BY TypeFacts, <1>1 DEF DownloadOrder, ParseOrder, SaveOrder, EntriesInv
<1>5. ParseOrder'
  BY TypeFacts, <1>1
  DEF ParseOrder, DownloadOrder, SaveOrder, EntriesInv, Undelivered, ToParse
<1>6. SaveOrder'
  BY TypeFacts, <1>1
  DEF SaveOrder, DownloadOrder, ParseOrder, EntriesInv, Undelivered
<1>7. RefsInv'
  <2> SUFFICES ASSUME NEW f \in Files PROVE Refs(f)'
    BY DEF RefsInv
  <2>1. Refs(f) /\ f \in Nat
    BY TypeFacts DEF RefsInv
  <2> QED
    BY <2>1, TypeFacts, <1>1
    DEF DownloadOrder, ParseOrder, SaveOrder, EntriesInv, Undelivered, ToParse,
        ToSave, Refs, Abandoned
<1>8. DataInv'
  BY TypeFacts, <1>1
  DEF DataInv, DownloadOrder, ParseOrder, SaveOrder, EntriesInv, ToParse, ToSave
<1>9. OutcomeInv'
  BY TypeFacts, <1>1
  DEF OutcomeInv, DownloadOrder, ParseOrder, SaveOrder, EntriesInv, Undelivered,
      ToParse, ToSave, OutcomeOf
<1>10. DeletedInv'
  BY TypeFacts, <1>1
  DEF DeletedInv, DownloadOrder, ParseOrder, SaveOrder, EntriesInv
<1> QED
  BY <1>3, <1>4, <1>5, <1>6, <1>7, <1>8, <1>9, <1>10

(* ... and hands the other to saveTask. *)
LEMMA DownloadSendSaveFlow ==
    ASSUME TypeInv, FlowInv, DownloadSendSave, filesLive
    PROVE  /\ EntriesInv' /\ DownloadOrder' /\ ParseOrder' /\ SaveOrder'
           /\ RefsInv' /\ DataInv' /\ OutcomeInv' /\ DeletedInv'
<1>1. /\ UNCHANGED <<acquisition, files, outcome, fileIx, pollPc, mDownloadQueue,
                     mParseQueue, mReapQueue, parse, save, reap, deleted>>
      /\ download.at = "save" /\ download'.at = "receive"
  BY DEF DownloadSendSave, TypeInv, FileEntry, Outcome, pollVars, syncVars,
         ctlVars, serverVars, Receiving
<1>2. /\ download.file \in Files
      /\ Elements(mSaveQueue') = Elements(mSaveQueue) \cup {download.file}
      /\ Ascending(mSaveQueue) /\ (\A g \in Elements(mSaveQueue) :
            g < download.file) => Ascending(mSaveQueue')
      /\ \A g \in Files : Copies(mSaveQueue', g) =
            IF g = download.file THEN Copies(mSaveQueue, g) + 1
                 ELSE Copies(mSaveQueue, g)
  <2>1. mSaveQueue \in Seq(Files) /\ download.file \in Files
        /\ mSaveQueue' = Send(mSaveQueue, download.file)
    BY ConstantsAssumption
    DEF ConstantsAssumption, Acquisition, TypeInv, DownloadSendSave
  <2> QED
    BY <2>1, QueueSend
<1> USE DEF FlowInv, Receiving, Holds, Wanted
<1>3. EntriesInv'
  BY TypeFacts, <1>1, <1>2 DEF EntriesInv, DownloadOrder, ParseOrder, SaveOrder
<1>4. DownloadOrder'
  BY TypeFacts, <1>1, <1>2 DEF DownloadOrder, ParseOrder, SaveOrder, EntriesInv
<1>5. ParseOrder'
  BY TypeFacts, <1>1, <1>2
  DEF ParseOrder, DownloadOrder, SaveOrder, EntriesInv, Undelivered, ToParse
<1>6. SaveOrder'
  BY TypeFacts, <1>1, <1>2
  DEF SaveOrder, DownloadOrder, ParseOrder, EntriesInv, Undelivered
<1>7. RefsInv'
  <2> SUFFICES ASSUME NEW f \in Files PROVE Refs(f)'
    BY DEF RefsInv
  <2>1. Refs(f) /\ f \in Nat
    BY TypeFacts DEF RefsInv
  <2> QED
    BY <2>1, TypeFacts, <1>1, <1>2
    DEF DownloadOrder, ParseOrder, SaveOrder, EntriesInv, Undelivered, ToParse,
        ToSave, Refs, Abandoned
<1>8. DataInv'
  BY TypeFacts, <1>1, <1>2
  DEF DataInv, DownloadOrder, ParseOrder, SaveOrder, EntriesInv, ToParse, ToSave
<1>9. OutcomeInv'
  BY TypeFacts, <1>1, <1>2
  DEF OutcomeInv, DownloadOrder, ParseOrder, SaveOrder, EntriesInv, Undelivered,
      ToParse, ToSave, OutcomeOf
<1>10. DeletedInv'
  BY TypeFacts, <1>1, <1>2
  DEF DeletedInv, DownloadOrder, ParseOrder, SaveOrder, EntriesInv
<1> QED
  BY <1>3, <1>4, <1>5, <1>6, <1>7, <1>8, <1>9, <1>10

(* A file that was not downloaded goes to reapTask. *)
LEMMA DownloadSendReapFlow ==
    ASSUME TypeInv, FlowInv, DownloadSendReap, filesLive
    PROVE  /\ EntriesInv' /\ DownloadOrder' /\ ParseOrder' /\ SaveOrder'
           /\ RefsInv' /\ DataInv' /\ OutcomeInv' /\ DeletedInv'
<1>1. /\ UNCHANGED <<acquisition, files, outcome, fileIx, pollPc, mDownloadQueue,
                     mParseQueue, mSaveQueue, parse, save, reap, deleted>>
      /\ download.at = "reap" /\ download'.at = "receive"
  BY DEF DownloadSendReap, TypeInv, FileEntry, Outcome, pollVars, syncVars,
         ctlVars, serverVars, Receiving
<1>2. /\ download.file \in Files
      /\ Elements(mReapQueue') = Elements(mReapQueue) \cup {download.file}
      /\ Ascending(mReapQueue) /\ (\A g \in Elements(mReapQueue) :
            g < download.file) => Ascending(mReapQueue')
      /\ \A g \in Files : Copies(mReapQueue', g) =
            IF g = download.file THEN Copies(mReapQueue, g) + 1
                 ELSE Copies(mReapQueue, g)
  <2>1. mReapQueue \in Seq(Files) /\ download.file \in Files
        /\ mReapQueue' = Send(mReapQueue, download.file)
    BY ConstantsAssumption
    DEF ConstantsAssumption, Acquisition, TypeInv, DownloadSendReap
  <2> QED
    BY <2>1, QueueSend
<1> USE DEF FlowInv, Receiving, Holds, Wanted
<1>3. EntriesInv'
  BY TypeFacts, <1>1, <1>2 DEF EntriesInv, DownloadOrder, ParseOrder, SaveOrder
<1>4. DownloadOrder'
  BY TypeFacts, <1>1, <1>2 DEF DownloadOrder, ParseOrder, SaveOrder, EntriesInv
<1>5. ParseOrder'
  BY TypeFacts, <1>1, <1>2
  DEF ParseOrder, DownloadOrder, SaveOrder, EntriesInv, Undelivered, ToParse
<1>6. SaveOrder'
  BY TypeFacts, <1>1, <1>2
  DEF SaveOrder, DownloadOrder, ParseOrder, EntriesInv, Undelivered
<1>7. RefsInv'
  <2> SUFFICES ASSUME NEW f \in Files PROVE Refs(f)'
    BY DEF RefsInv
  <2>1. Refs(f) /\ f \in Nat
    BY TypeFacts DEF RefsInv
  <2> QED
    BY <2>1, TypeFacts, <1>1, <1>2
    DEF DownloadOrder, ParseOrder, SaveOrder, EntriesInv, Undelivered, ToParse,
        ToSave, Refs, Abandoned, Num, OutcomeInv, OutcomeOf
<1>8. DataInv'
  BY TypeFacts, <1>1, <1>2
  DEF DataInv, DownloadOrder, ParseOrder, SaveOrder, EntriesInv, ToParse, ToSave
<1>9. OutcomeInv'
  BY TypeFacts, <1>1, <1>2
  DEF OutcomeInv, DownloadOrder, ParseOrder, SaveOrder, EntriesInv, Undelivered,
      ToParse, ToSave, OutcomeOf
<1>10. DeletedInv'
  BY TypeFacts, <1>1, <1>2
  DEF DeletedInv, DownloadOrder, ParseOrder, SaveOrder, EntriesInv
<1> QED
  BY <1>3, <1>4, <1>5, <1>6, <1>7, <1>8, <1>9, <1>10

(* parseTask takes the next file ... *)
LEMMA ParseReceiveFlow ==
    ASSUME TypeInv, FlowInv, ParseReceive, filesLive
    PROVE  /\ EntriesInv' /\ DownloadOrder' /\ ParseOrder' /\ SaveOrder'
           /\ RefsInv' /\ DataInv' /\ OutcomeInv' /\ DeletedInv'
<1> DEFINE h == Head(mParseQueue)
<1>1. /\ UNCHANGED <<acquisition, files, outcome, fileIx, pollPc, mDownloadQueue,
                     mSaveQueue, mReapQueue, download, save, reap, deleted>>
      /\ parse.at = "receive" /\ parse'.at = "parse" /\ parse'.file = h
  BY DEF ParseReceive, TypeInv, FileEntry, Outcome, pollVars, syncVars, ctlVars,
         serverVars
<1>2. /\ h \in Files /\ Elements(mParseQueue) = Elements(mParseQueue') \cup {h}
      /\ Ascending(mParseQueue)
            => Ascending(mParseQueue') /\ \A g \in Elements(mParseQueue') : h < g
      /\ \A g \in Files : Copies(mParseQueue, g) =
            IF g = h THEN Copies(mParseQueue', g) + 1 ELSE Copies(mParseQueue', g)
      /\ \A g \in Files : Copies(mParseQueue', g) \in Nat
  <2>1. mParseQueue \in Seq(Files) /\ mParseQueue # <<>>
        /\ mParseQueue' = Tail(mParseQueue)
    BY DEF TypeInv, ParseReceive
  <2> QED
    BY <2>1, QueueTake, CopiesType
<1> HIDE DEF h
<1> USE DEF FlowInv, Receiving, Holds, Wanted
<1>3. EntriesInv'
  BY TypeFacts, <1>1, <1>2 DEF EntriesInv, DownloadOrder, ParseOrder, SaveOrder
<1>4. DownloadOrder'
  BY TypeFacts, <1>1, <1>2 DEF DownloadOrder, ParseOrder, SaveOrder, EntriesInv
<1>5. ParseOrder'
  BY TypeFacts, <1>1, <1>2
  DEF ParseOrder, DownloadOrder, SaveOrder, EntriesInv, Undelivered, ToParse
<1>6. SaveOrder'
  BY TypeFacts, <1>1, <1>2
  DEF SaveOrder, DownloadOrder, ParseOrder, EntriesInv, Undelivered
<1>7. RefsInv'
  <2> SUFFICES ASSUME NEW f \in Files PROVE Refs(f)'
    BY DEF RefsInv
  <2>1. Refs(f) /\ f \in Nat
    BY TypeFacts DEF RefsInv
  <2> QED
    BY <2>1, TypeFacts, <1>1, <1>2
    DEF DownloadOrder, ParseOrder, SaveOrder, EntriesInv, Undelivered, ToParse,
        ToSave, Refs, Abandoned
<1>8. DataInv'
  BY TypeFacts, <1>1, <1>2
  DEF DataInv, DownloadOrder, ParseOrder, SaveOrder, EntriesInv, ToParse, ToSave
<1>9. OutcomeInv'
  BY TypeFacts, <1>1, <1>2
  DEF OutcomeInv, DownloadOrder, ParseOrder, SaveOrder, EntriesInv, Undelivered,
      ToParse, ToSave, OutcomeOf
<1>10. DeletedInv'
  BY TypeFacts, <1>1, <1>2
  DEF DeletedInv, DownloadOrder, ParseOrder, SaveOrder, EntriesInv
<1> QED
  BY <1>3, <1>4, <1>5, <1>6, <1>7, <1>8, <1>9, <1>10

(* ... parses it ... *)
LEMMA ParseFileFlow ==
    ASSUME TypeInv, FlowInv, ParseFile, filesLive
    PROVE  /\ EntriesInv' /\ DownloadOrder' /\ ParseOrder' /\ SaveOrder'
           /\ RefsInv' /\ DataInv' /\ OutcomeInv' /\ DeletedInv'
<1>1. /\ UNCHANGED <<acquisition, files, fileIx, pollPc, mDownloadQueue,
                     mParseQueue, mSaveQueue, mReapQueue, download, save, reap,
                     deleted>>
      /\ parse.at = "parse" /\ parse'.at = "reap" /\ parse'.file = parse.file
      /\ \A f \in Files : outcome'[f].save = outcome[f].save /\ outcome'[f].parse =
            IF f = parse.file THEN "done" ELSE outcome[f].parse
  BY DEF ParseFile, TypeInv, FileEntry, Outcome, pollVars, syncVars, ctlVars,
         serverVars, queues
<1> USE DEF FlowInv, Receiving, Holds, Wanted
<1>3. EntriesInv'
  BY TypeFacts, <1>1 DEF EntriesInv, DownloadOrder, ParseOrder, SaveOrder
<1>4. DownloadOrder'
  BY TypeFacts, <1>1 DEF DownloadOrder, ParseOrder, SaveOrder, EntriesInv
<1>5. ParseOrder'
  BY TypeFacts, <1>1
  DEF ParseOrder, DownloadOrder, SaveOrder, EntriesInv, Undelivered, ToParse
<1>6. SaveOrder'
  BY TypeFacts, <1>1
  DEF SaveOrder, DownloadOrder, ParseOrder, EntriesInv, Undelivered
<1>7. RefsInv'
  <2> SUFFICES ASSUME NEW f \in Files PROVE Refs(f)'
    BY DEF RefsInv
  <2>1. Refs(f) /\ f \in Nat
    BY TypeFacts DEF RefsInv
  <2>2. /\ Undelivered(f)' <=> Undelivered(f)
        /\ ToParse(f)' <=> ToParse(f)
        /\ ToSave(f)' <=> ToSave(f)
        /\ Holds(reap, f)' <=> Holds(reap, f)
    BY TypeFacts, <1>1 DEF Undelivered, ToParse, ToSave
  <2>3. OutcomeOf(f)
    BY DEF OutcomeInv
  <2>4. Abandoned(f)' <=> Abandoned(f)
    BY <1>1, <2>3 DEF Abandoned, OutcomeOf, ToParse
  <2>5. UNCHANGED <<mReapQueue, files>>
    BY <1>1
  <2> HIDE DEF Holds, FlowInv, Wanted
  <2> QED
    BY <2>1, <2>2, <2>4, <2>5, RefsKept
<1>8. DataInv'
  BY TypeFacts, <1>1
  DEF DataInv, DownloadOrder, ParseOrder, SaveOrder, EntriesInv, ToParse, ToSave
<1>9. OutcomeInv'
  BY TypeFacts, <1>1
  DEF OutcomeInv, DownloadOrder, ParseOrder, SaveOrder, EntriesInv, Undelivered,
      ToParse, ToSave, OutcomeOf
<1>10. DeletedInv'
  BY TypeFacts, <1>1
  DEF DeletedInv, DownloadOrder, ParseOrder, SaveOrder, EntriesInv
<1> QED
  BY <1>3, <1>4, <1>5, <1>6, <1>7, <1>8, <1>9, <1>10

(* ... and gives its reference to reapTask. *)
LEMMA ParseSendReapFlow ==
    ASSUME TypeInv, FlowInv, ParseSendReap, filesLive
    PROVE  /\ EntriesInv' /\ DownloadOrder' /\ ParseOrder' /\ SaveOrder'
           /\ RefsInv' /\ DataInv' /\ OutcomeInv' /\ DeletedInv'
<1>1. /\ UNCHANGED <<acquisition, files, outcome, fileIx, pollPc, mDownloadQueue,
                     mParseQueue, mSaveQueue, download, save, reap, deleted>>
      /\ parse.at = "reap" /\ parse'.at = "receive"
  BY DEF ParseSendReap, TypeInv, FileEntry, Outcome, pollVars, syncVars, ctlVars,
         serverVars, Receiving
<1>2. /\ parse.file \in Files
      /\ Elements(mReapQueue') = Elements(mReapQueue) \cup {parse.file}
      /\ Ascending(mReapQueue) /\ (\A g \in Elements(mReapQueue) : g < parse.file)
            => Ascending(mReapQueue')
      /\ \A g \in Files : Copies(mReapQueue', g) =
            IF g = parse.file THEN Copies(mReapQueue, g) + 1
                 ELSE Copies(mReapQueue, g)
  <2>1. mReapQueue \in Seq(Files) /\ parse.file \in Files
        /\ mReapQueue' = Send(mReapQueue, parse.file)
    BY ConstantsAssumption
    DEF ConstantsAssumption, Acquisition, TypeInv, ParseSendReap
  <2> QED
    BY <2>1, QueueSend
<1> USE DEF FlowInv, Receiving, Holds, Wanted
<1>3. EntriesInv'
  BY TypeFacts, <1>1, <1>2 DEF EntriesInv, DownloadOrder, ParseOrder, SaveOrder
<1>4. DownloadOrder'
  BY TypeFacts, <1>1, <1>2 DEF DownloadOrder, ParseOrder, SaveOrder, EntriesInv
<1>5. ParseOrder'
  BY TypeFacts, <1>1, <1>2
  DEF ParseOrder, DownloadOrder, SaveOrder, EntriesInv, Undelivered, ToParse
<1>6. SaveOrder'
  BY TypeFacts, <1>1, <1>2
  DEF SaveOrder, DownloadOrder, ParseOrder, EntriesInv, Undelivered
<1>7. RefsInv'
  <2> SUFFICES ASSUME NEW f \in Files PROVE Refs(f)'
    BY DEF RefsInv
  <2>1. Refs(f) /\ f \in Nat
    BY TypeFacts DEF RefsInv
  <2> QED
    BY <2>1, TypeFacts, <1>1, <1>2
    DEF DownloadOrder, ParseOrder, SaveOrder, EntriesInv, Undelivered, ToParse,
        ToSave, Refs, Abandoned, Num
<1>8. DataInv'
  BY TypeFacts, <1>1, <1>2
  DEF DataInv, DownloadOrder, ParseOrder, SaveOrder, EntriesInv, ToParse, ToSave
<1>9. OutcomeInv'
  BY TypeFacts, <1>1, <1>2
  DEF OutcomeInv, DownloadOrder, ParseOrder, SaveOrder, EntriesInv, Undelivered,
      ToParse, ToSave, OutcomeOf
<1>10. DeletedInv'
  BY TypeFacts, <1>1, <1>2
  DEF DeletedInv, DownloadOrder, ParseOrder, SaveOrder, EntriesInv
<1> QED
  BY <1>3, <1>4, <1>5, <1>6, <1>7, <1>8, <1>9, <1>10

(* saveTask takes the next file ... *)
LEMMA SaveReceiveFlow ==
    ASSUME TypeInv, FlowInv, SaveReceive, filesLive
    PROVE  /\ EntriesInv' /\ DownloadOrder' /\ ParseOrder' /\ SaveOrder'
           /\ RefsInv' /\ DataInv' /\ OutcomeInv' /\ DeletedInv'
<1> DEFINE h == Head(mSaveQueue)
<1>1. /\ UNCHANGED <<acquisition, files, outcome, fileIx, pollPc, mDownloadQueue,
                     mParseQueue, mReapQueue, download, parse, reap, deleted>>
      /\ save.at = "receive" /\ save'.at = "write" /\ save'.file = h
  BY DEF SaveReceive, TypeInv, FileEntry, Outcome, pollVars, syncVars, ctlVars,
         serverVars
<1>2. /\ h \in Files /\ Elements(mSaveQueue) = Elements(mSaveQueue') \cup {h}
      /\ Ascending(mSaveQueue)
            => Ascending(mSaveQueue') /\ \A g \in Elements(mSaveQueue') : h < g
      /\ \A g \in Files : Copies(mSaveQueue, g) =
            IF g = h THEN Copies(mSaveQueue', g) + 1 ELSE Copies(mSaveQueue', g)
      /\ \A g \in Files : Copies(mSaveQueue', g) \in Nat
  <2>1. mSaveQueue \in Seq(Files) /\ mSaveQueue # <<>>
        /\ mSaveQueue' = Tail(mSaveQueue)
    BY DEF TypeInv, SaveReceive
  <2> QED
    BY <2>1, QueueTake, CopiesType
<1> HIDE DEF h
<1> USE DEF FlowInv, Receiving, Holds, Wanted
<1>3. EntriesInv'
  BY TypeFacts, <1>1, <1>2 DEF EntriesInv, DownloadOrder, ParseOrder, SaveOrder
<1>4. DownloadOrder'
  BY TypeFacts, <1>1, <1>2 DEF DownloadOrder, ParseOrder, SaveOrder, EntriesInv
<1>5. ParseOrder'
  BY TypeFacts, <1>1, <1>2
  DEF ParseOrder, DownloadOrder, SaveOrder, EntriesInv, Undelivered, ToParse
<1>6. SaveOrder'
  BY TypeFacts, <1>1, <1>2
  DEF SaveOrder, DownloadOrder, ParseOrder, EntriesInv, Undelivered
<1>7. RefsInv'
  <2> SUFFICES ASSUME NEW f \in Files PROVE Refs(f)'
    BY DEF RefsInv
  <2>1. Refs(f) /\ f \in Nat
    BY TypeFacts DEF RefsInv
  <2> QED
    BY <2>1, TypeFacts, <1>1, <1>2
    DEF DownloadOrder, ParseOrder, SaveOrder, EntriesInv, Undelivered, ToParse,
        ToSave, Refs, Abandoned
<1>8. DataInv'
  BY TypeFacts, <1>1, <1>2
  DEF DataInv, DownloadOrder, ParseOrder, SaveOrder, EntriesInv, ToParse, ToSave
<1>9. OutcomeInv'
  BY TypeFacts, <1>1, <1>2
  DEF OutcomeInv, DownloadOrder, ParseOrder, SaveOrder, EntriesInv, Undelivered,
      ToParse, ToSave, OutcomeOf
<1>10. DeletedInv'
  BY TypeFacts, <1>1, <1>2
  DEF DeletedInv, DownloadOrder, ParseOrder, SaveOrder, EntriesInv
<1> QED
  BY <1>3, <1>4, <1>5, <1>6, <1>7, <1>8, <1>9, <1>10

(* ... writes it ... *)
LEMMA SaveOkFlow ==
    ASSUME TypeInv, FlowInv, SaveOk, filesLive
    PROVE  /\ EntriesInv' /\ DownloadOrder' /\ ParseOrder' /\ SaveOrder'
           /\ RefsInv' /\ DataInv' /\ OutcomeInv' /\ DeletedInv'
<1>1. /\ UNCHANGED <<acquisition, files, fileIx, pollPc, mDownloadQueue,
                     mParseQueue, mSaveQueue, mReapQueue, download, parse, reap,
                     deleted>>
      /\ save.at = "write" /\ save'.at = "reap" /\ save'.file = save.file
      /\ \A f \in Files : outcome'[f].parse = outcome[f].parse /\ outcome'[f].save =
            IF f = save.file THEN "done" ELSE outcome[f].save
  BY DEF SaveOk, TypeInv, FileEntry, Outcome, pollVars, syncVars, ctlVars,
         serverVars, queues
<1> USE DEF FlowInv, Receiving, Holds, Wanted
<1>3. EntriesInv'
  BY TypeFacts, <1>1 DEF EntriesInv, DownloadOrder, ParseOrder, SaveOrder
<1>4. DownloadOrder'
  BY TypeFacts, <1>1 DEF DownloadOrder, ParseOrder, SaveOrder, EntriesInv
<1>5. ParseOrder'
  BY TypeFacts, <1>1
  DEF ParseOrder, DownloadOrder, SaveOrder, EntriesInv, Undelivered, ToParse
<1>6. SaveOrder'
  BY TypeFacts, <1>1
  DEF SaveOrder, DownloadOrder, ParseOrder, EntriesInv, Undelivered
<1>7. RefsInv'
  <2> SUFFICES ASSUME NEW f \in Files PROVE Refs(f)'
    BY DEF RefsInv
  <2>1. Refs(f) /\ f \in Nat
    BY TypeFacts DEF RefsInv
  <2> QED
    BY <2>1, TypeFacts, <1>1
    DEF DownloadOrder, ParseOrder, SaveOrder, EntriesInv, Undelivered, ToParse,
        ToSave, Refs, Abandoned
<1>8. DataInv'
  BY TypeFacts, <1>1
  DEF DataInv, DownloadOrder, ParseOrder, SaveOrder, EntriesInv, ToParse, ToSave
<1>9. OutcomeInv'
  BY TypeFacts, <1>1
  DEF OutcomeInv, DownloadOrder, ParseOrder, SaveOrder, EntriesInv, Undelivered,
      ToParse, ToSave, OutcomeOf
<1>10. DeletedInv'
  BY TypeFacts, <1>1
  DEF DeletedInv, DownloadOrder, ParseOrder, SaveOrder, EntriesInv
<1> QED
  BY <1>3, <1>4, <1>5, <1>6, <1>7, <1>8, <1>9, <1>10

(* ... or fails to, and takes its removal back ... *)
LEMMA SaveFailFlow ==
    ASSUME TypeInv, FlowInv, SaveFail, filesLive
    PROVE  /\ EntriesInv' /\ DownloadOrder' /\ ParseOrder' /\ SaveOrder'
           /\ RefsInv' /\ DataInv' /\ OutcomeInv' /\ DeletedInv'
<1>1. /\ UNCHANGED <<acquisition, fileIx, pollPc, mDownloadQueue, mParseQueue,
                     mSaveQueue, mReapQueue, download, parse, reap, deleted>>
      /\ save.at = "write" /\ save'.at = "reap" /\ save'.file = save.file
      /\ \A f \in Files : outcome'[f].parse = outcome[f].parse /\ outcome'[f].save =
            IF f = save.file THEN "failed" ELSE outcome[f].save
      /\ \A f \in Files :
            files'[f].save = files[f].save /\ files'[f].parse = files[f].parse
        /\ files'[f].refCount = files[f].refCount
        /\ files'[f].data = files[f].data
      /\ \A f \in Files : files'[f].remove = (f # save.file /\ files[f].remove)
  BY ZenonT(60)
  DEF SaveFail, TypeInv, FileEntry, Outcome, pollVars, syncVars, ctlVars,
      serverVars, queues, RemoveAfterSaveFailed
<1> USE DEF FlowInv, Receiving, Holds, Wanted
<1>3. EntriesInv'
  BY TypeFacts, <1>1 DEF EntriesInv, DownloadOrder, ParseOrder, SaveOrder
<1>4. DownloadOrder'
  BY TypeFacts, <1>1 DEF DownloadOrder, ParseOrder, SaveOrder, EntriesInv
<1>5. ParseOrder'
  BY TypeFacts, <1>1
  DEF ParseOrder, DownloadOrder, SaveOrder, EntriesInv, Undelivered, ToParse
<1>6. SaveOrder'
  BY TypeFacts, <1>1
  DEF SaveOrder, DownloadOrder, ParseOrder, EntriesInv, Undelivered
<1>7. RefsInv'
  <2> SUFFICES ASSUME NEW f \in Files PROVE Refs(f)'
    BY DEF RefsInv
  <2>1. Refs(f) /\ f \in Nat
    BY TypeFacts DEF RefsInv
  <2>2. files'[f].save <=> files[f].save
    BY <1>1
  <2>3. files'[f].parse <=> files[f].parse
    BY <1>1
  <2>4. Undelivered(f)' <=> Undelivered(f)
    BY TypeFacts, <1>1
    DEF DownloadOrder, ParseOrder, SaveOrder, EntriesInv, Undelivered
  <2>5. (ToParse(f)' <=> ToParse(f)) /\ (ToSave(f)' <=> ToSave(f))
    BY TypeFacts, <1>1, <2>2
    DEF DownloadOrder, ParseOrder, SaveOrder, EntriesInv, ToParse, ToSave
  <2>6. Abandoned(f)' <=> Abandoned(f)
    BY TypeFacts, <1>1, <2>2, <2>3 DEF Abandoned
  <2>7. Holds(reap, f)' <=> Holds(reap, f)
    BY <1>1
  <2> QED
    BY <1>1, <2>1, <2>2, <2>3, <2>4, <2>5, <2>6, RefsKept
<1>8. DataInv'
  BY TypeFacts, <1>1
  DEF DataInv, DownloadOrder, ParseOrder, SaveOrder, EntriesInv, ToParse, ToSave
<1>9. OutcomeInv'
  <2> SUFFICES ASSUME NEW f \in Files PROVE OutcomeOf(f)'
    BY DEF OutcomeInv
  <2>1. OutcomeOf(f) /\ f \in Nat
    BY TypeFacts DEF OutcomeInv
  <2>2. CASE f = save.file
    BY TypeFacts, <1>1, <2>1, <2>2
    DEF DownloadOrder, ParseOrder, SaveOrder, EntriesInv, Undelivered, ToParse,
        OutcomeOf
  <2>3. CASE f # save.file
    BY TypeFacts, <1>1, <2>1, <2>3
    DEF DownloadOrder, ParseOrder, SaveOrder, EntriesInv, Undelivered, ToParse,
        ToSave, OutcomeOf
  <2> QED
    BY <2>2, <2>3
<1>10. DeletedInv'
  <2>1. ~Undelivered(save.file) /\ files[save.file].refCount > 0
    BY TypeFacts, <1>1
    DEF DownloadOrder, ParseOrder, SaveOrder, EntriesInv, Undelivered, ToParse,
        ToSave, RefsInv, Refs, Num
  <2> QED
    BY TypeFacts, <1>1, <2>1 DEF DeletedInv
<1> QED
  BY <1>3, <1>4, <1>5, <1>6, <1>7, <1>8, <1>9, <1>10

(* ... and gives its reference to reapTask. *)
LEMMA SaveSendReapFlow ==
    ASSUME TypeInv, FlowInv, SaveSendReap, filesLive
    PROVE  /\ EntriesInv' /\ DownloadOrder' /\ ParseOrder' /\ SaveOrder'
           /\ RefsInv' /\ DataInv' /\ OutcomeInv' /\ DeletedInv'
<1>1. /\ UNCHANGED <<acquisition, files, outcome, fileIx, pollPc, mDownloadQueue,
                     mParseQueue, mSaveQueue, download, parse, reap, deleted>>
      /\ save.at = "reap" /\ save'.at = "receive"
  BY DEF SaveSendReap, TypeInv, FileEntry, Outcome, pollVars, syncVars, ctlVars,
         serverVars, Receiving
<1>2. /\ save.file \in Files
      /\ Elements(mReapQueue') = Elements(mReapQueue) \cup {save.file}
      /\ Ascending(mReapQueue) /\ (\A g \in Elements(mReapQueue) : g < save.file)
            => Ascending(mReapQueue')
      /\ \A g \in Files : Copies(mReapQueue', g) =
            IF g = save.file THEN Copies(mReapQueue, g) + 1
                 ELSE Copies(mReapQueue, g)
  <2>1. mReapQueue \in Seq(Files) /\ save.file \in Files
        /\ mReapQueue' = Send(mReapQueue, save.file)
    BY ConstantsAssumption
    DEF ConstantsAssumption, Acquisition, TypeInv, SaveSendReap
  <2> QED
    BY <2>1, QueueSend
<1> USE DEF FlowInv, Receiving, Holds, Wanted
<1>3. EntriesInv'
  BY TypeFacts, <1>1, <1>2 DEF EntriesInv, DownloadOrder, ParseOrder, SaveOrder
<1>4. DownloadOrder'
  BY TypeFacts, <1>1, <1>2 DEF DownloadOrder, ParseOrder, SaveOrder, EntriesInv
<1>5. ParseOrder'
  BY TypeFacts, <1>1, <1>2
  DEF ParseOrder, DownloadOrder, SaveOrder, EntriesInv, Undelivered, ToParse
<1>6. SaveOrder'
  BY TypeFacts, <1>1, <1>2
  DEF SaveOrder, DownloadOrder, ParseOrder, EntriesInv, Undelivered
<1>7. RefsInv'
  <2> SUFFICES ASSUME NEW f \in Files PROVE Refs(f)'
    BY DEF RefsInv
  <2>1. Refs(f) /\ f \in Nat
    BY TypeFacts DEF RefsInv
  <2> QED
    BY <2>1, TypeFacts, <1>1, <1>2
    DEF DownloadOrder, ParseOrder, SaveOrder, EntriesInv, Undelivered, ToParse,
        ToSave, Refs, Abandoned, Num
<1>8. DataInv'
  BY TypeFacts, <1>1, <1>2
  DEF DataInv, DownloadOrder, ParseOrder, SaveOrder, EntriesInv, ToParse, ToSave
<1>9. OutcomeInv'
  BY TypeFacts, <1>1, <1>2
  DEF OutcomeInv, DownloadOrder, ParseOrder, SaveOrder, EntriesInv, Undelivered,
      ToParse, ToSave, OutcomeOf
<1>10. DeletedInv'
  BY TypeFacts, <1>1, <1>2
  DEF DeletedInv, DownloadOrder, ParseOrder, SaveOrder, EntriesInv
<1> QED
  BY <1>3, <1>4, <1>5, <1>6, <1>7, <1>8, <1>9, <1>10

(* reapTask drops a reference. *)
LEMMA ReapReceiveFlow ==
    ASSUME TypeInv, FlowInv, ReapReceive, filesLive
    PROVE  /\ EntriesInv' /\ DownloadOrder' /\ ParseOrder' /\ SaveOrder'
           /\ RefsInv' /\ DataInv' /\ OutcomeInv' /\ DeletedInv'
<1> DEFINE h == Head(mReapQueue)
<1>1. /\ UNCHANGED <<acquisition, outcome, fileIx, pollPc, mDownloadQueue,
                     mParseQueue, mSaveQueue, download, parse, save, deleted>>
      /\ reap.at = "receive"
      /\ reap' =
            IF files[h].refCount = 1 THEN [at |-> "release", file |-> h]
                 ELSE Receiving
      /\ \A f \in Files :
            /\ files'[f].save = files[f].save /\ files'[f].parse = files[f].parse
            /\ files'[f].remove = files[f].remove
            /\ files'[f].data = files[f].data
      /\ \A f \in Files : files'[f].refCount =
            IF f = h THEN files[f].refCount - 1 ELSE files[f].refCount
  <2>1. ASSUME NEW f \in Files
        PROVE  /\ files'[f].save = files[f].save
               /\ files'[f].parse = files[f].parse
               /\ files'[f].remove = files[f].remove
               /\ files'[f].data = files[f].data
               /\ files'[f].refCount =
                     IF f = h THEN files[f].refCount - 1 ELSE files[f].refCount
    BY DEF ReapReceive, TypeInv, FileEntry
  <2> QED
    BY <2>1
    DEF ReapReceive, ctlVars, syncVars, pollVars, serverVars, LastReference
<1>2. /\ h \in Files /\ Elements(mReapQueue) = Elements(mReapQueue') \cup {h}
      /\ Ascending(mReapQueue)
            => Ascending(mReapQueue') /\ \A g \in Elements(mReapQueue') : h < g
      /\ \A g \in Files : Copies(mReapQueue, g) =
            IF g = h THEN Copies(mReapQueue', g) + 1 ELSE Copies(mReapQueue', g)
      /\ \A g \in Files : Copies(mReapQueue', g) \in Nat
  <2>1. mReapQueue \in Seq(Files) /\ mReapQueue # <<>>
        /\ mReapQueue' = Tail(mReapQueue)
    BY DEF TypeInv, ReapReceive
  <2> QED
    BY <2>1, QueueTake, CopiesType
<1> HIDE DEF h
<1> USE DEF FlowInv, Receiving, Holds, Wanted
<1>3. EntriesInv'
  BY TypeFacts, <1>1, <1>2 DEF EntriesInv, DownloadOrder, ParseOrder, SaveOrder
<1>4. DownloadOrder'
  BY TypeFacts, <1>1, <1>2 DEF DownloadOrder, ParseOrder, SaveOrder, EntriesInv
<1>5. ParseOrder'
  BY TypeFacts, <1>1, <1>2
  DEF ParseOrder, DownloadOrder, SaveOrder, EntriesInv, Undelivered, ToParse
<1>6. SaveOrder'
  BY TypeFacts, <1>1, <1>2
  DEF SaveOrder, DownloadOrder, ParseOrder, EntriesInv, Undelivered
<1>7. RefsInv'
  <2> SUFFICES ASSUME NEW f \in Files PROVE Refs(f)'
    BY DEF RefsInv
  <2>1. Refs(f) /\ f \in Nat
    BY TypeFacts DEF RefsInv
  <2> QED
    BY <2>1, TypeFacts, <1>1, <1>2
    DEF DownloadOrder, ParseOrder, SaveOrder, EntriesInv, Undelivered, ToParse,
        ToSave, Refs, Abandoned, Num, OutcomeOf
<1>8. DataInv'
  BY TypeFacts, <1>1, <1>2
  DEF DataInv, DownloadOrder, ParseOrder, SaveOrder, EntriesInv, ToParse, ToSave
<1>9. OutcomeInv'
  BY TypeFacts, <1>1, <1>2
  DEF OutcomeInv, DownloadOrder, ParseOrder, SaveOrder, EntriesInv, Undelivered,
      ToParse, ToSave, OutcomeOf
<1>10. DeletedInv'
  <2>1. ~Undelivered(h) /\ files[h].refCount > 0
    BY TypeFacts, <1>1, <1>2 DEF RefsInv, Refs, Num
  <2> QED
    BY TypeFacts, <1>1, <2>1 DEF DeletedInv
<1> QED
  BY <1>3, <1>4, <1>5, <1>6, <1>7, <1>8, <1>9, <1>10

(* With the last reference the file is deleted if it is to be, and its     *)
(* contents are freed.                                                     *)
LEMMA ReapReleaseFlow ==
    ASSUME TypeInv, FlowInv, ReapRelease, filesLive
    PROVE  /\ EntriesInv' /\ DownloadOrder' /\ ParseOrder' /\ SaveOrder'
           /\ RefsInv' /\ DataInv' /\ OutcomeInv' /\ DeletedInv'
<1>1. /\ UNCHANGED <<acquisition, outcome, fileIx, pollPc, mDownloadQueue,
                     mParseQueue, mSaveQueue, mReapQueue, download, parse, save>>
      /\ reap.at = "release" /\ reap'.at = "count" /\ reap'.file = reap.file
      /\ deleted' =
            IF files[reap.file].remove THEN deleted \cup {reap.file} ELSE deleted
      /\ \A f \in Files :
            /\ files'[f].save = files[f].save /\ files'[f].parse = files[f].parse
            /\ files'[f].remove = files[f].remove
            /\ files'[f].refCount = files[f].refCount
      /\ \A f \in Files : files'[f].data = (f # reap.file /\ files[f].data)
  BY DEF ReapRelease, TypeInv, FileEntry, Outcome, pollVars, syncVars, ctlVars,
         serverVars, queues
<1> USE DEF FlowInv, Receiving, Holds, Wanted
<1>3. EntriesInv'
  BY TypeFacts, <1>1 DEF EntriesInv, DownloadOrder, ParseOrder, SaveOrder
<1>4. DownloadOrder'
  BY TypeFacts, <1>1 DEF DownloadOrder, ParseOrder, SaveOrder, EntriesInv
<1>5. ParseOrder'
  BY TypeFacts, <1>1
  DEF ParseOrder, DownloadOrder, SaveOrder, EntriesInv, Undelivered, ToParse
<1>6. SaveOrder'
  BY TypeFacts, <1>1
  DEF SaveOrder, DownloadOrder, ParseOrder, EntriesInv, Undelivered
<1>7. RefsInv'
  <2> SUFFICES ASSUME NEW f \in Files PROVE Refs(f)'
    BY DEF RefsInv
  <2>1. Refs(f) /\ f \in Nat
    BY TypeFacts DEF RefsInv
  <2>2. files'[f].save <=> files[f].save
    BY <1>1
  <2>3. files'[f].parse <=> files[f].parse
    BY <1>1
  <2>4. Undelivered(f)' <=> Undelivered(f)
    BY TypeFacts, <1>1
    DEF DownloadOrder, ParseOrder, SaveOrder, EntriesInv, Undelivered
  <2>5. (ToParse(f)' <=> ToParse(f)) /\ (ToSave(f)' <=> ToSave(f))
    BY TypeFacts, <1>1, <2>2
    DEF DownloadOrder, ParseOrder, SaveOrder, EntriesInv, ToParse, ToSave
  <2>6. Abandoned(f)' <=> Abandoned(f)
    BY TypeFacts, <1>1, <2>2, <2>3 DEF Abandoned
  <2>7. Holds(reap, f)' <=> Holds(reap, f)
    BY <1>1
  <2> QED
    BY <1>1, <2>1, <2>2, <2>3, <2>4, <2>5, <2>6, RefsKept
<1>8. DataInv'
  <2> SUFFICES ASSUME NEW f \in Files,
                      (ToParse(f) \/ ToSave(f) \/ (download.file =
                          f /\ download.at = "parse"))'
               PROVE  files'[f].data
    BY DEF DataInv
  <2>1. ToParse(f) \/ ToSave(f) \/ (download.file = f /\ download.at = "parse")
    BY <1>1 DEF ToParse, ToSave
  <2>2. f # reap.file
    <3>1. CASE f = reap.file
      <4>1. Refs(f) /\ Holds(reap, f) /\ Copies(mReapQueue, f) \in Nat
        BY TypeFacts, <1>1, <3>1 DEF RefsInv
      <4> QED
        BY <2>1, <4>1 DEF Refs, Num, Undelivered
    <3> QED
      BY <3>1
  <2> QED
    BY <1>1, <2>1, <2>2 DEF DataInv
<1>9. OutcomeInv'
  BY TypeFacts, <1>1
  DEF OutcomeInv, DownloadOrder, ParseOrder, SaveOrder, EntriesInv, Undelivered,
      ToParse, ToSave, OutcomeOf
<1>10. DeletedInv'
  <2>1. reap.file < fileIx /\ files[reap.file].refCount = 0
    BY TypeFacts, <1>1 DEF RefsInv, Refs, Undelivered
  <2> QED
    BY TypeFacts, <1>1, <2>1 DEF DeletedInv
<1> QED
  BY <1>3, <1>4, <1>5, <1>6, <1>7, <1>8, <1>9, <1>10

(* Then it is not pending any more. *)
LEMMA ReapCountFlow ==
    ASSUME TypeInv, FlowInv, ReapCount, filesLive
    PROVE  /\ EntriesInv' /\ DownloadOrder' /\ ParseOrder' /\ SaveOrder'
           /\ RefsInv' /\ DataInv' /\ OutcomeInv' /\ DeletedInv'
<1>1. /\ UNCHANGED <<acquisition, files, outcome, fileIx, pollPc, mDownloadQueue,
                     mParseQueue, mSaveQueue, mReapQueue, download, parse, save,
                     deleted>>
      /\ reap.at = "count" /\ reap'.at = "receive"
  BY DEF ReapCount, TypeInv, FileEntry, Outcome, pollVars, syncVars, ctlVars,
         serverVars, queues, Receiving
<1> USE DEF FlowInv, Receiving, Holds, Wanted
<1>3. EntriesInv'
  BY TypeFacts, <1>1 DEF EntriesInv, DownloadOrder, ParseOrder, SaveOrder
<1>4. DownloadOrder'
  BY TypeFacts, <1>1 DEF DownloadOrder, ParseOrder, SaveOrder, EntriesInv
<1>5. ParseOrder'
  BY TypeFacts, <1>1
  DEF ParseOrder, DownloadOrder, SaveOrder, EntriesInv, Undelivered, ToParse
<1>6. SaveOrder'
  BY TypeFacts, <1>1
  DEF SaveOrder, DownloadOrder, ParseOrder, EntriesInv, Undelivered
<1>7. RefsInv'
  <2> SUFFICES ASSUME NEW f \in Files PROVE Refs(f)'
    BY DEF RefsInv
  <2>1. Refs(f) /\ f \in Nat
    BY TypeFacts DEF RefsInv
  <2> QED
    BY <2>1, TypeFacts, <1>1
    DEF DownloadOrder, ParseOrder, SaveOrder, EntriesInv, Undelivered, ToParse,
        ToSave, Refs, Abandoned
<1>8. DataInv'
  BY TypeFacts, <1>1
  DEF DataInv, DownloadOrder, ParseOrder, SaveOrder, EntriesInv, ToParse, ToSave
<1>9. OutcomeInv'
  BY TypeFacts, <1>1
  DEF OutcomeInv, DownloadOrder, ParseOrder, SaveOrder, EntriesInv, Undelivered,
      ToParse, ToSave, OutcomeOf
<1>10. DeletedInv'
  BY TypeFacts, <1>1
  DEF DeletedInv, DownloadOrder, ParseOrder, SaveOrder, EntriesInv
<1> QED
  BY <1>3, <1>4, <1>5, <1>6, <1>7, <1>8, <1>9, <1>10

-----------------------------------------------------------------------------
(* What is pending. *)

(* The files in flight can be counted. *)
LEMMA FilesFinite == IsFiniteSet(Files) /\ IsFiniteSet(InFlight)
/\ Cardinality(InFlight) \in Nat
<1>1. IsFiniteSet(Files)
  BY ConstantsAssumption, FS_Interval DEF ConstantsAssumption, Files
<1>2. IsFiniteSet(InFlight)
  BY <1>1, FS_Subset DEF InFlight
<1> QED
  BY <1>1, <1>2, FS_CardinalityType

(* The files that count as pending change only when one is handed out and  *)
(* when one was reaped for good.                                           *)
LEMMA PendingKept ==
    ASSUME PendingInv, pendingFiles' = pendingFiles,
           pollPc' = "free" => pollPc = "free",
           \A f \in Files : (f \in InFlight)' <=> f \in InFlight
    PROVE  PendingInv'
<1>1. InFlight' = InFlight
  BY DEF InFlight
<1>2. Cardinality(InFlight') = Cardinality(InFlight)
  BY <1>1
<1> QED
  BY <1>2 DEF PendingInv

(* The work on a file changes nothing in what is pending. *)
LEMMA WorkersPending ==
    ASSUME TypeInv, FlowInv,
           Download \/ Parse \/ Save \/ ReapRelease
    PROVE  PendingInv'
<1>1. UNCHANGED <<pendingFiles, pollPc, fileIx>>
  BY DEF Download, DownloadReceive, DownloadOk, DownloadFail, DownloadSendParse,
         DownloadTail, DownloadSendSave, DownloadSendReap, Parse, ParseReceive,
         ParseFile, ParseSendReap, Save, SaveReceive, SaveOk, SaveFail,
         SaveSendReap, ReapRelease, pollVars
<1>2. ASSUME NEW f \in Files
      PROVE  /\ files'[f].save = files[f].save /\ files'[f].parse = files[f].parse
             /\ files'[f].refCount = files[f].refCount
  <2>1. CASE DownloadOk
    BY <2>1 DEF DownloadOk, TypeInv, FileEntry
  <2>2. CASE SaveFail
    BY <2>2 DEF SaveFail, TypeInv, FileEntry
  <2>3. CASE ReapRelease
    BY <2>3 DEF ReapRelease, TypeInv, FileEntry
  <2> QED
    BY <2>1, <2>2, <2>3
    DEF Download, DownloadReceive, DownloadFail, DownloadSendParse, DownloadTail,
        DownloadSendSave, DownloadSendReap, Parse, ParseReceive, ParseFile,
        ParseSendReap, Save, SaveReceive, SaveOk, SaveSendReap
<1>3. ASSUME NEW f \in Files PROVE Holds(reap, f)' <=> Holds(reap, f)
  BY DEF Download, DownloadReceive, DownloadOk, DownloadFail, DownloadSendParse,
         DownloadTail, DownloadSendSave, DownloadSendReap, Parse, ParseReceive,
         ParseFile, ParseSendReap, Save, SaveReceive, SaveOk, SaveFail,
         SaveSendReap, ReapRelease, Holds, TypeInv
<1>4. \A f \in Files : (f \in InFlight)' <=> f \in InFlight
  BY <1>1, <1>2, <1>3 DEF InFlight, HandedOut, Wanted
<1> QED
  BY <1>1, <1>4, PendingKept DEF FlowInv

(* Nor does the search, while it hands out nothing new. *)
LEMMA PollPending ==
    ASSUME TypeInv, FlowInv, PollSkip \/ PollSend
    PROVE  PendingInv'
<1>1. /\ UNCHANGED <<pendingFiles, files, reap>> /\ pollPc' = "search"
      /\ fileIx' = fileIx + 1
      /\ pollPc = "send" \/ (pollPc = "search" /\ ~Wanted(fileIx))
  <2>1. CASE PollSkip
    BY <2>1 DEF PollSkip, Searching, workers
  <2>2. CASE PollSend
    BY <2>2 DEF PollSend, workers
  <2> QED
    BY <2>1, <2>2
<1>2. \A f \in Files : (f \in InFlight)' <=> f \in InFlight
  BY <1>1, TypeFacts DEF InFlight, HandedOut, Wanted, Holds
<1> QED
  BY <1>1, <1>2, PendingKept DEF FlowInv

(* A file is counted before it is sent. *)
LEMMA PollCountPending ==
    ASSUME TypeInv, FlowInv, PollCount
    PROVE  PendingInv'
<1>1. /\ UNCHANGED <<files, reap, fileIx>> /\ pollPc = "search"
      /\ pollPc' = "send"
      /\ Wanted(fileIx) /\ pendingFiles' = pendingFiles + 1
  BY DEF PollCount, Searching, workers
<1>2. fileIx \in Files
  <2>1. fileIx \in Nat /\ fileIx < acquisition.nData + 1
    BY DEF PollCount, Searching, TypeInv, TotalFiles, Acquisition
  <2>2. acquisition.nData \in 1 .. MaxData /\ MaxData \in Nat
    BY ConstantsAssumption DEF ConstantsAssumption, TypeInv, Acquisition
  <2> QED
    BY <2>1, <2>2 DEF Files
<1>3. files[fileIx].refCount > 0
  BY <1>1, <1>2, TypeFacts DEF FlowInv, RefsInv, Refs, Undelivered, Wanted, Num
<1>4. \A f \in Files : (f \in InFlight)' <=> f \in InFlight \/ f = fileIx
  BY <1>1, <1>2, <1>3, TypeFacts DEF InFlight, HandedOut, Wanted, Holds
<1>5. InFlight' = InFlight \cup {fileIx}
  BY <1>2, <1>4 DEF InFlight
<1>6. fileIx \notin InFlight
  BY <1>1, TypeFacts DEF InFlight, HandedOut
<1>7. Cardinality(InFlight') = Cardinality(InFlight) + 1
  BY <1>5, <1>6, FilesFinite, FS_AddElement
<1> QED
  BY <1>1, <1>7 DEF PendingInv, FlowInv

(* A file whose last reference is dropped stays pending ... *)
LEMMA ReapReceivePending ==
    ASSUME TypeInv, FlowInv, ReapReceive
    PROVE  PendingInv'
<1> DEFINE h == Head(mReapQueue)
<1>1. /\ UNCHANGED <<pendingFiles, pollPc, fileIx>> /\ reap.at = "receive"
      /\ reap' =
            IF files[h].refCount = 1 THEN [at |-> "release", file |-> h]
                 ELSE Receiving
      /\ \A f \in Files :
            /\ files'[f].save = files[f].save /\ files'[f].parse = files[f].parse
                          /\ files'[f].refCount =
                                IF f = h THEN files[f].refCount - 1
                                                           ELSE files[f].refCount
  BY DEF ReapReceive, TypeInv, FileEntry, pollVars, LastReference
<1>2. h \in Files /\ h \in Elements(mReapQueue)
  BY QueueTake DEF ReapReceive, TypeInv
<1>3. Copies(mReapQueue, h) > 0
  BY <1>2, CopiesType DEF TypeInv
<1>4. files[h].refCount > 0
  BY <1>2, <1>3, TypeFacts DEF FlowInv, RefsInv, Refs, Num
<1> HIDE DEF h
<1>5. \A f \in Files : (f \in InFlight)' <=> f \in InFlight
  BY <1>1, <1>2, <1>4, TypeFacts DEF InFlight, HandedOut, Wanted, Holds, Receiving
<1> QED
  BY <1>1, <1>5, PendingKept DEF FlowInv

(* ... until reapTask counts it. *)
LEMMA ReapCountPending ==
    ASSUME TypeInv, FlowInv, ReapCount
    PROVE  PendingInv'
<1>1. /\ UNCHANGED <<files, pollPc, fileIx>> /\ reap.at = "count"
      /\ reap'.at = "receive"
      /\ pendingFiles' = pendingFiles - 1
  BY DEF ReapCount, pollVars, Receiving
<1>2. reap.file \in Files /\ files[reap.file].refCount = 0 /\ Wanted(reap.file)
      /\ ~Undelivered(reap.file)
  BY <1>1, TypeFacts DEF FlowInv, RefsInv, Refs, Holds
<1>3. reap.file \in InFlight
  BY <1>1, <1>2, TypeFacts DEF InFlight, HandedOut, Holds, Undelivered
<1>4. \A f \in Files : (f \in InFlight)' <=> f \in InFlight /\ f # reap.file
  BY <1>1, <1>2, TypeFacts DEF InFlight, HandedOut, Wanted, Holds
<1>5. InFlight' = InFlight \ {reap.file}
  BY <1>4 DEF InFlight
<1>6. Cardinality(InFlight') = Cardinality(InFlight) - 1
      /\ Cardinality(InFlight) # 0
  BY <1>3, <1>5, FilesFinite, FS_RemoveElement, FS_EmptySet
<1> QED
  BY <1>1, <1>6, FilesFinite DEF PendingInv, FlowInv
-----------------------------------------------------------------------------
(* pollTask begins with nobody else at work. *)
LEMMA ReceiveFlow ==
    ASSUME PipelineInv, PollReceive
    PROVE  FlowInv'
<1>1. /\ ~filesLive /\ acquisition' = request /\ files' = FilesOf(request)
      /\ fileIx' = 0 /\ pendingFiles' = 0 /\ pollPc' = "search"
      /\ outcome' = Unprocessed /\ deleted' = {}
      /\ UNCHANGED <<queues, workers>>
  BY DEF PipelineInv, Handed, PollReceive, serverVars
<1>2. /\ mDownloadQueue' = <<>> /\ mParseQueue' = <<>>
      /\ mSaveQueue' = <<>> /\ mReapQueue' = <<>>
      /\ download'.at = "receive" /\ parse'.at = "receive"
      /\ save'.at = "receive" /\ reap'.at = "receive"
  BY <1>1, NoWork DEF PipelineInv, queues, workers
<1>3. /\ request \in Acquisition
      /\ \A f \in Files : /\ files'[f].save = request.mode.save
                          /\ files'[f].parse <=> request.mode.parse /\ f # 0
                          /\ files'[f].remove = request.mode.remove
                          /\ files'[f].refCount =
                                Num(files'[f].save) + Num(files'[f].parse)
  BY <1>1, FreshFiles DEF PipelineInv, TypeInv
<1>4. /\ Elements(mDownloadQueue') = {} /\ Elements(mParseQueue') = {}
      /\ Elements(mSaveQueue') = {}
      /\ \A f \in Files : Copies(mReapQueue', f) = 0
  BY <1>2, FS_EmptySet DEF Elements, Copies
<1>5. \A f \in Files : f >= fileIx' /\ ~ToParse(f)' /\ ~ToSave(f)'
  BY <1>1, <1>2, <1>4 DEF Files, ToParse, ToSave, Holds
<1>6. EntriesInv' /\ DataInv' /\ DeletedInv'
  BY <1>1, <1>2, <1>3, <1>5 DEF EntriesInv, DataInv, DeletedInv
<1>7. DownloadOrder' /\ ParseOrder' /\ SaveOrder'
  BY <1>1, <1>2, <1>4, <1>5
  DEF DownloadOrder, ParseOrder, SaveOrder, Ascending, Holds
<1>8. RefsInv'
  BY <1>2, <1>3, <1>4, <1>5 DEF RefsInv, Refs, Undelivered, Holds
<1>9. OutcomeInv'
  BY <1>1, <1>2, <1>5 DEF OutcomeInv, OutcomeOf, Undelivered, Unprocessed
<1>10. PendingInv'
  <2>1. InFlight' = {}
    BY <1>1, <1>5 DEF InFlight, HandedOut, Files
  <2> QED
    BY <1>1, <2>1, FS_EmptySet DEF PendingInv
<1> QED
  BY <1>6, <1>7, <1>8, <1>9, <1>10 DEF FlowInv

(* What controlTask and the detector do, and pollTask's waiting, changes   *)
(* nothing the workers see.                                                *)
LEMMA QuietFlow ==
    ASSUME FlowInv,
           UNCHANGED <<acquisition, files, outcome, fileIx, mDownloadQueue,
                       mParseQueue, mSaveQueue, mReapQueue, download, parse,
                       save, reap, deleted, pendingFiles>>,
           pollPc # "send" \/ pollPc' = "send", pollPc' = "send"
               => pollPc = "send",
           pollPc' = "free" => pendingFiles = 0
    PROVE  FlowInv'
<1>1. EntriesInv' /\ DataInv' /\ DeletedInv'
  BY DEF FlowInv, EntriesInv, DataInv, ToParse, ToSave, Holds, DeletedInv
<1>2. DownloadOrder' /\ ParseOrder' /\ SaveOrder'
  BY DEF FlowInv, DownloadOrder, ParseOrder, SaveOrder, ToParse, Undelivered,
         Holds, Wanted
<1>3. RefsInv' /\ OutcomeInv'
  <2> SUFFICES ASSUME NEW f \in Files PROVE Refs(f)' /\ OutcomeOf(f)'
    BY DEF RefsInv, OutcomeInv
  <2>1. /\ Undelivered(f)' <=> Undelivered(f)
        /\ ToParse(f)' <=> ToParse(f)
        /\ ToSave(f)' <=> ToSave(f)
        /\ Abandoned(f)' <=> Abandoned(f)
        /\ Holds(reap, f)' <=> Holds(reap, f)
    BY DEF Undelivered, ToParse, ToSave, Abandoned, Holds
  <2>2. Refs(f)'
    BY <2>1, RefsKept DEF FlowInv, RefsInv
  <2>3. OutcomeOf(f)'
    BY <2>1 DEF FlowInv, OutcomeInv, OutcomeOf
  <2> QED
    BY <2>2, <2>3
<1>4. PendingInv'
  BY DEF FlowInv, PendingInv, InFlight, HandedOut, Holds, Wanted
<1> QED
  BY <1>1, <1>2, <1>3, <1>4 DEF FlowInv

(* A file some task can reach counts as pending.                           *)
LEMMA ReachableIsPending ==
    ASSUME TypeInv, FlowInv, download.at # "tail"
    PROVE  Referenced \subseteq InFlight
<1>1. ASSUME NEW f \in Referenced
      PROVE  f \in Files /\ f < fileIx /\ Wanted(f)
             /\ (files[f].refCount > 0 \/ Holds(reap, f))
  <2>1. f \in Files
    BY TypeFacts DEF Referenced
  <2>2. CASE f \in Elements(mDownloadQueue)
             \/ (download.file = f /\ download.at \in {"get", "parse", "reap"})
    BY <2>1, <2>2, TypeFacts
    DEF FlowInv, DownloadOrder, RefsInv, Refs, Undelivered, Wanted, Num
  <2>3. CASE ToParse(f) \/ ToSave(f)
    BY <2>1, <2>3, TypeFacts
    DEF FlowInv, ParseOrder, SaveOrder, DownloadOrder, RefsInv, Refs, Undelivered,
        ToSave, Wanted, Num
  <2>4. CASE Copies(mReapQueue, f) > 0 \/ Holds(reap, f)
    BY <2>1, <2>4, TypeFacts DEF FlowInv, RefsInv, Refs, Undelivered, Num
  <2>5. f \in Elements(mReapQueue) => Copies(mReapQueue, f) > 0
    BY CopiesType DEF TypeInv
  <2>6. Holds(download, f) =>
           ToSave(f)
           \/ (download.file = f /\ download.at \in {"get", "parse", "reap"})
    <3>1. download.at \in {"receive", "get", "parse", "tail", "save", "reap"}
      BY DEF TypeInv
    <3>2. download.at = "save" => files[download.file].save
      BY DEF FlowInv, DownloadOrder
    <3> QED
      BY <3>1, <3>2 DEF Holds, ToSave
  <2>7. \/ f \in Elements(mDownloadQueue) \/ Holds(download, f)
        \/ ToParse(f) \/ ToSave(f) \/ f \in Elements(mReapQueue) \/ Holds(reap, f)
    BY DEF Referenced, ToParse, ToSave
  <2> HIDE DEF Holds
  <2> QED
    BY <2>1, <2>2, <2>3, <2>4, <2>5, <2>6, <2>7
<1> QED
  BY <1>1 DEF InFlight, HandedOut
-----------------------------------------------------------------------------
(* Every step of a task while there is an array. *)
LEMMA WorkersFlow ==
    ASSUME TypeInv, FlowInv, filesLive, PollSkip \/ PollCount \/ PollSend
                             \/ Download \/ Parse \/ Save \/ Reap
    PROVE  FlowInv'
<1>1. PendingInv'
  BY WorkersPending, PollPending, PollCountPending, ReapReceivePending,
     ReapCountPending
  DEF Reap
<1>2. /\ EntriesInv' /\ DownloadOrder' /\ ParseOrder' /\ SaveOrder'
      /\ RefsInv' /\ DataInv' /\ OutcomeInv' /\ DeletedInv'
  <2>1. CASE PollSkip \/ PollCount \/ PollSend
    BY <2>1, PollSkipFlow, PollCountFlow, PollSendFlow
  <2>2. CASE Download
    BY <2>2, DownloadReceiveFlow, DownloadOkFlow, DownloadFailFlow,
       DownloadSendParseFlow, DownloadTailFlow, DownloadSendSaveFlow,
       DownloadSendReapFlow
    DEF Download
  <2>3. CASE Parse
    BY <2>3, ParseReceiveFlow, ParseFileFlow, ParseSendReapFlow DEF Parse
  <2>4. CASE Save
    BY <2>4, SaveReceiveFlow, SaveOkFlow, SaveFailFlow, SaveSendReapFlow DEF Save
  <2>5. CASE Reap
    BY <2>5, ReapReceiveFlow, ReapReleaseFlow, ReapCountFlow DEF Reap
  <2> QED
    BY <2>1, <2>2, <2>3, <2>4, <2>5
<1> QED
  BY <1>1, <1>2 DEF FlowInv

(* Whatever any task does, PipelineInv survives it, provided the 100 ms    *)
(* that pollTask sleeps are enough for downloadTask's last look at a file. *)
LEMMA PipelineStep ==
    ASSUME SleepCoversTail, PipelineInv, [Next]_vars
    PROVE  PipelineInv'
<1> USE DEF PipelineInv
<1>1. TypeInv' /\ Handed'
  BY TypeStep, HandedStep
<1>2. CASE UNCHANGED vars
  <2>1. UNCHANGED <<acquisition, files, outcome, fileIx, mDownloadQueue,
                    mParseQueue, mSaveQueue, mReapQueue, download, parse, save,
                    reap, deleted, pendingFiles, pollPc, filesLive>>
    BY <1>2 DEF vars, pollVars, queues, workers, serverVars
  <2> QED
    BY <1>1, <2>1, QuietFlow DEF FlowInv, PendingInv, Referenced, Holds
<1>3. CASE Control \/ FileAppears
  <2>1. UNCHANGED <<acquisition, files, fileIx, mDownloadQueue, mParseQueue,
                    mSaveQueue, mReapQueue, download, parse, save, reap,
                    pendingFiles, pollPc, filesLive>>
    BY <1>3
    DEF Control, CtlClear, CtlSend, CtlStop, CtlJoin, FileAppears, pollVars,
        queues, workers
  <2>2. filesLive => UNCHANGED <<outcome, deleted>>
    BY <1>3
    DEF Handed, Control, CtlClear, CtlSend, CtlStop, CtlJoin, FileAppears,
        serverVars
  <2> QED
    BY <1>1, <2>1, <2>2, QuietFlow DEF FlowInv, PendingInv, Referenced, Holds
<1>4. CASE PollReceive
  <2>1. filesLive'
    BY <1>4 DEF PollReceive
  <2> QED
    BY <1>1, <1>4, <2>1, ReceiveFlow
<1>5. CASE PollMiss \/ PollSearched \/ PollDrained
  <2>1. UNCHANGED <<acquisition, files, outcome, fileIx, mDownloadQueue,
                    mParseQueue, mSaveQueue, mReapQueue, download, parse, save,
                    reap, deleted, pendingFiles, filesLive>>
    BY <1>5 DEF PollMiss, PollSearched, PollDrained, queues, workers, serverVars
  <2>2. /\ pollPc # "send" /\ pollPc' # "send" /\ filesLive
        /\ pollPc' = "free" => pendingFiles = 0
    BY <1>5 DEF PollMiss, PollSearched, PollDrained, Drained, Searching, Handed
  <2> QED
    BY <1>1, <2>1, <2>2, QuietFlow
<1>6. CASE PollFree
  <2>1. /\ pollPc = "free" /\ filesLive /\ ~filesLive' /\ download.at # "tail"
        /\ UNCHANGED <<queues, workers>>
    BY <1>6 DEF PollFree, Handed
  <2>2. InFlight = {}
    BY <2>1, FilesFinite, FS_EmptySet DEF FlowInv, PendingInv
  <2>3. Referenced' = Referenced
    BY <2>1 DEF Referenced, queues, workers, Holds
  <2> QED
    BY <1>1, <2>1, <2>2, <2>3, ReachableIsPending
<1>7. CASE PollSignal
  <2>1. ~filesLive /\ ~filesLive' /\ UNCHANGED <<queues, workers>>
    BY <1>7 DEF PollSignal, Handed
  <2> QED
    BY <1>1, <2>1 DEF Referenced, queues, workers, Holds
<1>8. CASE PollSkip \/ PollCount \/ PollSend
  <2>1. filesLive /\ filesLive'
    BY <1>8 DEF PollSkip, PollCount, PollSend, Searching, Handed
  <2> QED
    BY <1>1, <1>8, <2>1, WorkersFlow
<1>9. CASE Download \/ Parse \/ Save \/ Reap
  <2>1. filesLive
    BY <1>9, NoWork
  <2>2. filesLive' = filesLive
    BY <1>9
    DEF Download, DownloadReceive, DownloadOk, DownloadFail, DownloadSendParse,
        DownloadTail, DownloadSendSave, DownloadSendReap, Parse, ParseReceive,
        ParseFile, ParseSendReap, Save, SaveReceive, SaveOk, SaveFail,
        SaveSendReap, Reap, ReapReceive, ReapRelease, ReapCount, pollVars
  <2> QED
    BY <1>1, <1>9, <2>1, <2>2, WorkersFlow
<1> QED
  BY <1>2, <1>3, <1>4, <1>5, <1>6, <1>7, <1>8, <1>9 DEF Next, Poll

(* So it holds in every reachable state. *)
LEMMA PipelineAlways ==
    ASSUME SleepCoversTail
    PROVE  Spec => []PipelineInv
<1>1. PipelineInv /\ [Next]_vars => PipelineInv'
  BY PipelineStep
<1> QED
  BY <1>1, InitialInv, PTL DEF Spec

-----------------------------------------------------------------------------
(* What pollTask reports when it signals is what is still true then.       *)

(* An obligation is open exactly while its file has not been found, or is  *)
(* on its way.                                                             *)
LEMMA OpenIsReferenced ==
    ASSUME TypeInv, FlowInv, NEW f \in Files, f < fileIx,
           \/ files[f].parse /\ outcome[f].parse = "open"
           \/ files[f].save /\ outcome[f].save = "open"
    PROVE  f \in Referenced
<1>1. Undelivered(f) => f \in Referenced
  BY TypeFacts DEF Undelivered, Referenced, Holds
<1>2. OutcomeOf(f)
  BY DEF FlowInv, OutcomeInv
<1>3. ~Undelivered(f) => f \in Referenced
  BY <1>2 DEF OutcomeOf, Referenced, Holds
<1> QED
  BY <1>1, <1>3

(***************************************************************************)
(* pollTask frees the file_t array only when nobody can reach it, and the  *)
(* contents of a file are there when it is parsed or written.              *)
(***************************************************************************)
THEOREM MemorySafe ==
    ASSUME SleepCoversTail
    PROVE  Spec => []NoUseAfterFree
<1>1. PipelineInv => NoUseAfterFree
  <2> SUFFICES ASSUME PipelineInv PROVE NoUseAfterFree
    OBVIOUS
  <2>1. CASE filesLive
    BY <2>1, TypeFacts
    DEF NoUseAfterFree, PipelineInv, FlowInv, DataInv, ToParse, ToSave, Holds
  <2>2. CASE ~filesLive
    <3>1. Referenced = {}
      BY <2>2 DEF PipelineInv
    <3>2. /\ parse.at = "receive" /\ save.at = "receive"
          /\ Elements(mParseQueue) = {} /\ Elements(mSaveQueue) = {}
      BY <3>1, NoWork DEF PipelineInv, Referenced
    <3> QED
      BY <3>1, <3>2 DEF NoUseAfterFree
  <2> QED
    BY <2>1, <2>2
<1> QED
  BY <1>1, PipelineAlways, PTL

(* PENDING_FILES is the number of files handed out and not yet reaped.     *)
THEOREM PendingExact ==
    ASSUME SleepCoversTail
    PROVE  Spec => []PendingIsInFlight
<1>1. PipelineInv => PendingIsInFlight
  BY DEF PipelineInv, FlowInv, PendingInv, PendingIsInFlight
<1> QED
  BY <1>1, PipelineAlways, PTL

(* What the invariant says of a file that was deleted. *)
LEMMA DeletedHandledLive ==
    ASSUME \A m \in DownloadFails : ~m.remove, PipelineInv, filesLive
    PROVE  DeletedOnlyIfHandled
<1> SUFFICES ASSUME NEW f \in deleted
             PROVE  /\ request.mode.save => outcome[f].save = "done"
                    /\ request.mode.parse /\ f # 0 => outcome[f].parse = "done"
  BY DEF DeletedOnlyIfHandled
<1>1. /\ f \in Files /\ f < fileIx /\ files[f].refCount = 0 /\ files[f].remove
      /\ Refs(f) /\ OutcomeOf(f) /\ outcome[f] \in Outcome
  BY TypeFacts DEF PipelineInv, FlowInv, DeletedInv, RefsInv, OutcomeInv, TypeInv
<1>2. /\ request = acquisition /\ (files[f].save <=> request.mode.save)
      /\ files[f].parse <=> request.mode.parse /\ f # 0
      /\ files[f].remove => request.mode.remove
  BY <1>1 DEF PipelineInv, FlowInv, EntriesInv, Handed
<1>3. Undelivered(f) => Wanted(f)
  BY <1>1, TypeFacts DEF PipelineInv, FlowInv, DownloadOrder, Undelivered
<1>4. ~Undelivered(f) /\ ~ToParse(f) /\ ~ToSave(f)
  <2>1. ~Undelivered(f)
    BY <1>1, <1>3 DEF Refs, Wanted, Num
  <2>2. Copies(mReapQueue, f) \in Nat
    BY <1>1, TypeFacts DEF PipelineInv
  <2>3. files[f].refCount =
      Num(ToParse(f)) + Num(ToSave(f)) + Copies(mReapQueue, f)
                            + Num(Abandoned(f))
    BY <1>1, <2>1 DEF Refs
  <2>4. /\ Num(ToParse(f)) = IF ToParse(f) THEN 1 ELSE 0
        /\ Num(ToSave(f)) = IF ToSave(f) THEN 1 ELSE 0
        /\ Num(Abandoned(f)) \in Nat
    BY DEF Num
  <2> QED
    BY <1>1, <2>1, <2>2, <2>3, <2>4
<1>5. outcome[f].parse # "lost" /\ outcome[f].save # "lost"
  BY <1>1, <1>2 DEF OutcomeOf
<1>6. outcome[f].save # "failed"
  BY <1>1 DEF OutcomeOf
<1>7. files[f].save => outcome[f].save # "open"
  BY <1>1, <1>4 DEF OutcomeOf, ToSave, Holds
<1>8. files[f].parse => outcome[f].parse # "open"
  BY <1>1, <1>4 DEF OutcomeOf, ToParse, Holds
<1> QED
  BY <1>1, <1>2, <1>5, <1>6, <1>7, <1>8 DEF Outcome

(* A file is deleted from the detector only after it was saved and parsed, *)
(* when no acquisition whose files are to be removed loses a download.     *)
THEOREM DeletedHandled ==
    ASSUME SleepCoversTail, \A m \in DownloadFails : ~m.remove
    PROVE  Spec => []DeletedOnlyIfHandled
<1>1. Init => DeletedOnlyIfHandled
  BY DEF Init, DeletedOnlyIfHandled
<1>2. ASSUME PipelineInv, DeletedOnlyIfHandled, [Next]_vars
      PROVE  DeletedOnlyIfHandled'
  <2>1. PipelineInv'
    BY <1>2, PipelineStep
  <2>2. CASE filesLive'
    <3>1. (PipelineInv /\ filesLive => DeletedOnlyIfHandled)'
      BY DeletedHandledLive, PTL
    <3> QED
      BY <2>1, <2>2, <3>1
  <2>3. CASE ~filesLive' /\ ~CtlSend
    <3>1. UNCHANGED <<request, deleted, outcome>>
      <4>1. CASE ~filesLive
        <5>1. ~Download /\ ~Parse /\ ~Save /\ ~Reap
          BY <1>2, <4>1, NoWork DEF PipelineInv
        <5> QED
          BY <1>2, <2>3, <4>1, <5>1
          DEF PipelineInv, Handed, Next, vars, ctlVars, serverVars, Control,
              CtlClear, CtlStop, CtlJoin, FileAppears, Poll, PollReceive,
              PollSkip, PollCount, PollSend, PollMiss, PollSearched, PollDrained,
              PollFree, PollSignal, Searching
      <4>2. CASE filesLive
        <5>1. PollFree
          BY <1>2, <2>3, <4>2
          DEF Next, vars, pollVars, Control, CtlClear, CtlStop, CtlJoin,
              FileAppears, Poll, PollReceive, PollSkip, PollCount, PollSend,
              PollMiss, PollSearched, PollDrained, PollSignal, Download,
              DownloadReceive, DownloadOk, DownloadFail, DownloadSendParse,
              DownloadTail, DownloadSendSave, DownloadSendReap, Parse,
              ParseReceive, ParseFile, ParseSendReap, Save, SaveReceive, SaveOk,
              SaveFail, SaveSendReap, Reap, ReapReceive, ReapRelease, ReapCount
        <5> QED
          BY <5>1 DEF PollFree, ctlVars, serverVars
      <4> QED
        BY <4>1, <4>2
    <3> QED
      BY <1>2, <3>1 DEF DeletedOnlyIfHandled
  <2>4. CASE CtlSend
    BY <2>4 DEF CtlSend, DeletedOnlyIfHandled
  <2> QED
    BY <2>2, <2>3, <2>4
<1> QED
  BY <1>1, <1>2, InitialInv, PipelineStep, PTL DEF Spec

(* The only way to parse a file. *)
LEMMA OnlyParseFile ==
    ASSUME PipelineInv, [Next]_vars, NEW f \in Files,
           outcome[f].parse = "open", outcome'[f].parse = "done"
    PROVE  filesLive /\ ParseFile /\ parse.file = f
<1>1. outcome' # outcome
  OBVIOUS
<1>2. CtlSend \/ DownloadFail \/ ParseFile \/ SaveOk \/ SaveFail
  BY <1>1
  DEF Next, vars, Control, CtlClear, CtlStop, CtlJoin, FileAppears, Poll,
      PollReceive, PollSkip, PollCount, PollSend, PollMiss, PollSearched,
      PollDrained, PollFree, PollSignal, Download, DownloadReceive, DownloadOk,
      DownloadSendParse, DownloadTail, DownloadSendSave, DownloadSendReap, Parse,
      ParseReceive, ParseSendReap, Save, SaveReceive, SaveSendReap, Reap,
      ReapReceive, ReapRelease, ReapCount
<1>3. ~CtlSend
  BY DEF CtlSend, Unprocessed
<1>4. outcome \in [Files -> Outcome] /\ outcome[f] \in Outcome
  BY DEF PipelineInv, TypeInv
<1>5. ~DownloadFail /\ ~SaveOk /\ ~SaveFail
  <2>1. DownloadFail => outcome'[f].parse \in {outcome[f].parse, "lost"}
    BY <1>4 DEF DownloadFail
  <2>2. SaveOk => outcome'[f].parse = outcome[f].parse
    BY <1>4 DEF SaveOk, Outcome
  <2>3. SaveFail => outcome'[f].parse = outcome[f].parse
    BY <1>4 DEF SaveFail, Outcome
  <2> QED
    BY <2>1, <2>2, <2>3
<1>6. ParseFile /\ parse.file = f
  BY <1>2, <1>3, <1>4, <1>5 DEF ParseFile, Outcome
<1>7. filesLive
  BY <1>6, NoWork DEF Parse, PipelineInv
<1> QED
  BY <1>6, <1>7

(* Data files are parsed in the order of their numbers. *)
THEOREM ParsedOrder ==
    ASSUME SleepCoversTail
    PROVE  Spec => ParsedInOrder
<1>1. ASSUME PipelineInv, [Next]_vars, NEW f \in Files \ {0},
             outcome[f].parse = "open", outcome'[f].parse = "done",
             NEW g \in 1 .. f - 1
      PROVE  outcome[g].parse # "open"
  <2>1. filesLive /\ ParseFile /\ parse.file = f
    BY <1>1, OnlyParseFile
  <2>2. TypeInv /\ FlowInv /\ parse.at = "parse"
    BY <1>1, <2>1 DEF PipelineInv, ParseFile
  <2>3. f \in Nat /\ g \in Files /\ g < f /\ g # 0
    BY <1>1, ConstantsAssumption DEF ConstantsAssumption, Files
  <2>4. ToParse(f) /\ ~Undelivered(f) /\ files[f].parse
    BY <2>1, <2>2 DEF ToParse, Holds, FlowInv, ParseOrder
  <2>5. ~Undelivered(g)
    BY <2>2, <2>3, <2>4, TypeFacts DEF Undelivered, FlowInv, ParseOrder
  <2>6. files[g].parse
    BY <2>2, <2>3, <2>4 DEF FlowInv, EntriesInv
  <2>7. g \notin Elements(mParseQueue)
    BY <2>1, <2>2, <2>3 DEF FlowInv, ParseOrder
  <2> QED
    BY <2>1, <2>2, <2>3, <2>5, <2>6, <2>7 DEF FlowInv, OutcomeInv, OutcomeOf
<1>2. PipelineInv /\ [Next]_vars =>
        [\A f \in Files \ {0} :
            outcome[f].parse = "open" /\ outcome'[f].parse = "done"
            => \A g \in 1 .. f - 1 : outcome[g].parse # "open"]_vars
  BY <1>1
<1> QED
  BY <1>2, InitialInv, PipelineStep, PTL DEF Spec, ParsedInOrder
-----------------------------------------------------------------------------
(* The steps of FileService. *)

(* When pollTask is about to signal, what is open are the files from fileIx on.  *)
Reportable ==
    pollPc = "signal" =>
        \A o \in Asked(request) : outcome[o[1]][o[2]] = "open" <=> o[1] >= fileIx

(* What an acquisition asks for, file by file. *)
LEMMA AskedFiles ==
    ASSUME NEW acq \in Acquisition, NEW o \in Asked(acq)
    PROVE  /\ o[1] \in Files /\ o[1] <= acq.nData /\ o[2] \in {"parse", "save"}
           /\ o[2] = "save" => acq.mode.save
           /\ o[2] = "parse" => acq.mode.parse /\ o[1] # 0
<1>1. /\ o \in Files \X {"parse", "save"} /\ o[1] <= acq.nData
      /\ FilesOf(acq)[o[1]][o[2]]
  BY DEF Asked
<1>2. o[1] \in Files /\ (o[2] = "parse" \/ o[2] = "save")
  BY <1>1
<1>3. CASE o[2] = "save"
  BY <1>1, <1>2, <1>3, FreshFiles
<1>4. CASE o[2] = "parse"
  BY <1>1, <1>2, <1>4, FreshFiles
<1> QED
  BY <1>1, <1>2, <1>3, <1>4

(* When pollTask frees the array nothing is under way. *)
LEMMA FreeReportable ==
    ASSUME SleepCoversTail, PipelineInv, PollFree
    PROVE  Reportable'
<1>1. /\ pollPc = "free" /\ filesLive /\ download.at # "tail"
      /\ UNCHANGED <<request, outcome, fileIx>>
  BY DEF PollFree, PipelineInv, Handed, ctlVars
<1>2. TypeInv /\ FlowInv /\ request = acquisition /\ request \in Acquisition
  BY <1>1 DEF PipelineInv, Handed, TypeInv
<1>3. Referenced = {}
  BY <1>1, <1>2, ReachableIsPending, FilesFinite, FS_EmptySet
  DEF FlowInv, PendingInv
<1>4. ASSUME NEW o \in Asked(request)
      PROVE  outcome[o[1]][o[2]] = "open" <=> o[1] >= fileIx
  <2>1. /\ o[1] \in Files /\ o[2] \in {"parse", "save"}
        /\ o[2] = "save" => files[o[1]].save
        /\ o[2] = "parse" => files[o[1]].parse
    BY <1>2, AskedFiles DEF FlowInv, EntriesInv
  <2>2. CASE o[1] >= fileIx
    <3>1. Undelivered(o[1]) /\ download.at # "reap"
      BY <1>2, <1>3, <2>2, NoWork DEF Undelivered
    <3> QED
      BY <1>2, <2>1, <2>2, <3>1 DEF FlowInv, OutcomeInv, OutcomeOf
  <2>3. CASE o[1] < fileIx
    <3>1. /\ files[o[1]].parse => outcome[o[1]].parse # "open"
          /\ files[o[1]].save => outcome[o[1]].save # "open"
      BY <1>2, <1>3, <2>1, <2>3, OpenIsReferenced
    <3>2. o[1] \in Nat /\ fileIx \in Nat
      BY <1>2, <2>1, TypeFacts
    <3> QED
      BY <2>1, <2>3, <3>1, <3>2
  <2> QED
    BY <1>2, <2>1, <2>2, <2>3, TypeFacts
<1> QED
  BY <1>1, <1>4 DEF Reportable

(* Until it has signalled nobody changes that. *)
LEMMA ReportableStep ==
    ASSUME SleepCoversTail, PipelineInv, Reportable, [Next]_vars
    PROVE  Reportable'
<1>1. CASE PollFree
  BY <1>1, FreeReportable
<1>2. CASE ~PollFree /\ pollPc' = "signal"
  <2>1. pollPc = "signal" /\ ~filesLive
    BY <1>2
    DEF PipelineInv, Handed, Next, vars, pollVars, Control, CtlClear, CtlSend,
        CtlStop, CtlJoin, FileAppears, Poll, PollReceive, PollSkip, PollCount,
        PollSend, PollMiss, Searching, PollSearched, PollDrained, PollSignal,
        Download, DownloadReceive, DownloadOk, DownloadFail, DownloadSendParse,
        DownloadTail, DownloadSendSave, DownloadSendReap, Parse, ParseReceive,
        ParseFile, ParseSendReap, Save, SaveReceive, SaveOk, SaveFail,
        SaveSendReap, Reap, ReapReceive, ReapRelease, ReapCount
  <2>2. ~Download /\ ~Parse /\ ~Save /\ ~Reap /\ ~CtlSend /\ ~Poll
    <3>1. ~Poll
      BY <1>2, <2>1
      DEF Poll, PollReceive, PollSkip, PollCount, PollSend, PollMiss, Searching,
          PollSearched, PollDrained, PollSignal
    <3>2. ~CtlSend
      BY <2>1 DEF CtlSend, PipelineInv, Handed
    <3> QED
      BY <2>1, <3>1, <3>2, NoWork DEF PipelineInv
  <2>3. UNCHANGED <<request, outcome, fileIx>>
    BY <2>2
    DEF Next, vars, pollVars, ctlVars, Control, CtlClear, CtlStop, CtlJoin,
        FileAppears
  <2> QED
    BY <2>1, <2>3 DEF Reportable
<1> QED
  BY <1>1, <1>2 DEF Reportable

(* Obligations are discharged by whoever changes outcome, and only so.     *)
LEMMA Discharges ==
    ASSUME phaseBar \in {"busy", "stopping"}, phaseBar' = phaseBar,
           request' = request,
           \A o \in Asked(request) : outcome'[o[1]][o[2]] = "open"
               => outcome[o[1]][o[2]] = "open"
    PROVE  [Service!ServiceNext]_(Service!serviceVars)
<1>1. /\ askedBar' = askedBar /\ ~completeBar /\ ~completeBar'
      /\ todoBar' \subseteq todoBar
  BY DEF askedBar, todoBar, completeBar
<1>2. completeBar' = completeBar
  BY <1>1 DEF completeBar
<1>3. CASE todoBar' = todoBar
  BY <1>1, <1>2, <1>3 DEF Service!serviceVars
<1>4. CASE todoBar' # todoBar
  BY <1>1, <1>2, <1>4 DEF Service!ServiceNext, Service!Discharge
<1> QED
  BY <1>3, <1>4

(* A step that FileService does not see. *)
LEMMA Stutters ==
    ASSUME UNCHANGED <<ctlPc, request, mPollDoneEvent, mPollComplete, outcome>>
    PROVE  UNCHANGED Service!serviceVars
BY DEF Service!serviceVars, phaseBar, askedBar, todoBar, completeBar

(* Each step of the pipeline, as FileService sees it. *)
LEMMA ServiceStep ==
    ASSUME SleepCoversTail, PipelineInv, Reportable, [Next]_vars
    PROVE  [Service!ServiceNext]_(Service!serviceVars)
<1>1. CASE UNCHANGED vars
  BY <1>1, Stutters DEF vars, ctlVars, syncVars
<1>2. CASE CtlClear
  <2>1. ~mPollDoneEvent /\ ~mPollDoneEvent' /\ ctlPc = "idle" /\ ctlPc' = "armed"
    BY <1>2 DEF CtlClear, PipelineInv, Handed
  <2>2. phaseBar = "idle" /\ phaseBar' = "idle"
    BY <2>1 DEF phaseBar
  <2> QED
    BY <2>2 DEF Service!serviceVars, askedBar, todoBar, completeBar
<1>3. CASE CtlSend
  <2>1. /\ ctlPc = "armed" /\ ctlPc' = "acquire" /\ ~mPollDoneEvent'
        /\ request' \in Acquisition /\ outcome' = Unprocessed
    BY <1>3, ConstantsAssumption
    DEF CtlSend, PipelineInv, Handed, Acquisition, ConstantsAssumption
  <2>2. phaseBar = "idle" /\ phaseBar' = "busy"
    BY <2>1 DEF phaseBar
  <2>3. askedBar' = Asked(request') /\ askedBar' \in SUBSET Service!Obligations
    BY <2>2 DEF askedBar, Asked, Service!Obligations, Service!Files, Files
  <2>4. \A o \in askedBar' : outcome'[o[1]][o[2]] = "open"
    <3>1. \A f \in Files : outcome'[f] = [parse |-> "open", save |-> "open"]
      BY <2>1 DEF Unprocessed
    <3>2. \A o \in askedBar' : o[1] \in Files /\ o[2] \in {"parse", "save"}
      BY <2>3 DEF Asked
    <3> QED
      BY <3>1, <3>2
  <2>5. todoBar' = askedBar'
    BY <2>4 DEF todoBar
  <2>6. completeBar = FALSE /\ completeBar' = FALSE
    BY <2>2 DEF completeBar
  <2> QED
    BY <2>2, <2>3, <2>5, <2>6 DEF Service!ServiceNext, Service!Request
<1>4. CASE CtlStop
  <2>1. /\ ctlPc = "acquire" /\ ctlPc' = "wait"
        /\ UNCHANGED <<request, mPollDoneEvent, mPollComplete, outcome>>
    BY <1>4 DEF CtlStop
  <2>2. CASE mPollDoneEvent
    <3>1. phaseBar = "done" /\ phaseBar' = "done"
      BY <2>1, <2>2 DEF phaseBar
    <3> QED
      BY <2>1, <3>1 DEF Service!serviceVars, askedBar, todoBar, completeBar
  <2>3. CASE ~mPollDoneEvent
    <3>1. phaseBar = "busy" /\ phaseBar' = "stopping"
      BY <2>1, <2>3 DEF phaseBar
    <3> QED
      BY <2>1, <3>1
      DEF Service!ServiceNext, Service!Stop, askedBar, todoBar, completeBar
  <2> QED
    BY <2>2, <2>3
<1>5. CASE CtlJoin
  <2>1. phaseBar = "done" /\ phaseBar' = "idle"
    BY <1>5 DEF CtlJoin, phaseBar
  <2> QED
    BY <2>1
    DEF Service!ServiceNext, Service!Collect, askedBar, todoBar, completeBar
<1>6. CASE FileAppears
  BY <1>6, Stutters DEF FileAppears, ctlVars, syncVars
<1>7. CASE PollSignal
  <2>1. /\ pollPc = "signal" /\ mPollDoneEvent' = TRUE
        /\ mPollComplete' = (fileIx = TotalFiles) /\ UNCHANGED <<ctlPc, request,
                                                                 outcome>>
        /\ acquisition = request /\ request \in Acquisition
    BY <1>7 DEF PollSignal, FoundAll, ctlVars, PipelineInv, Handed, TypeInv
  <2>2. /\ phaseBar \in {"busy", "stopping"} /\ phaseBar' = "done"
    BY <2>1 DEF phaseBar, PipelineInv, Handed
  <2>3. /\ askedBar = Asked(request) /\ askedBar' = askedBar /\ todoBar' = todoBar
    BY <2>1, <2>2 DEF askedBar, todoBar
  <2>4. todoBar = Service!From(fileIx)
    BY <2>1, <2>3 DEF todoBar, Reportable, Service!From
  <2>5. fileIx \in 0 .. MaxData + 1
    BY <2>1, ConstantsAssumption
    DEF ConstantsAssumption, PipelineInv, TypeInv, TotalFiles, Acquisition
  <2>6. completeBar' = (fileIx = TotalFiles)
    BY <2>1, <2>2 DEF completeBar
  <2>7. fileIx = TotalFiles => todoBar = {}
    <3>1. \A o \in askedBar : o[1] \in Nat /\ o[1] <= request.nData
      BY <2>1, <2>3, AskedFiles DEF Files
    <3>2. request.nData \in Nat
      BY <2>1 DEF Acquisition
    <3> QED
      BY <2>1, <2>4, <3>1, <3>2 DEF TotalFiles, Service!From
  <2> QED
    BY <2>2, <2>3, <2>4, <2>5, <2>6, <2>7 DEF Service!ServiceNext, Service!Report
<1>8. CASE Poll /\ ~PollSignal
  BY <1>8, Stutters
  DEF Poll, PollReceive, PollSkip, PollCount, PollSend, PollMiss, PollSearched,
      PollDrained, PollFree, ctlVars, syncVars
<1>9. CASE Download \/ Parse \/ Save \/ Reap
  <2>1. filesLive /\ TypeInv
    BY <1>9, NoWork DEF PipelineInv
  <2>2. UNCHANGED <<ctlPc, request, mPollDoneEvent, mPollComplete>>
    BY <1>9
    DEF Download, DownloadReceive, DownloadOk, DownloadFail, DownloadSendParse,
        DownloadTail, DownloadSendSave, DownloadSendReap, Parse, ParseReceive,
        ParseFile, ParseSendReap, Save, SaveReceive, SaveOk, SaveFail,
        SaveSendReap, Reap, ReapReceive, ReapRelease, ReapCount, ctlVars, syncVars
  <2>3. phaseBar \in {"busy", "stopping"} /\ phaseBar' = phaseBar
    BY <2>1, <2>2 DEF phaseBar, PipelineInv, Handed
  <2>4. ASSUME NEW f \in Files
        PROVE  /\ outcome'[f].parse = "open" => outcome[f].parse = "open"
               /\ outcome'[f].save = "open" => outcome[f].save = "open"
    <3>1. outcome \in [Files -> Outcome] /\ outcome[f] \in Outcome
      BY <2>1 DEF TypeInv
    <3>2. CASE DownloadFail
      BY <3>1, <3>2 DEF DownloadFail, Outcome
    <3>3. CASE ParseFile
      BY <3>1, <3>3 DEF ParseFile, Outcome
    <3>4. CASE SaveOk
      BY <3>1, <3>4 DEF SaveOk, Outcome
    <3>5. CASE SaveFail
      BY <3>1, <3>5 DEF SaveFail, Outcome
    <3> QED
      BY <1>9, <3>2, <3>3, <3>4, <3>5
      DEF Download, DownloadReceive, DownloadOk, DownloadSendParse, DownloadTail,
          DownloadSendSave, DownloadSendReap, Parse, ParseReceive, ParseSendReap,
          Save, SaveReceive, SaveSendReap, Reap, ReapReceive, ReapRelease,
          ReapCount
  <2>5. \A o \in Asked(request) : outcome'[o[1]][o[2]] = "open"
      => outcome[o[1]][o[2]] = "open"
    BY <2>1, <2>4, AskedFiles DEF TypeInv
  <2> QED
    BY <2>2, <2>3, <2>5, Discharges
<1> QED
  BY <1>1, <1>2, <1>3, <1>4, <1>5, <1>6, <1>7, <1>8, <1>9 DEF Next, Control

(* Every step of the pipeline is a step FileService allows. *)
THEOREM ServiceSafety ==
    ASSUME SleepCoversTail
    PROVE  Spec
        => Service!ServiceInit /\ [][Service!ServiceNext]_(Service!serviceVars)
<1>1. Init => Service!ServiceInit
  BY DEF Init, Service!ServiceInit, phaseBar, askedBar, todoBar, completeBar
<1>2. Init => Reportable
  BY DEF Init, Reportable
<1> QED
  BY <1>1, <1>2, InitialInv, PipelineStep, ReportableStep, ServiceStep, PTL
  DEF Spec
=============================================================================
