---------------------------- MODULE MCFilePipeline ----------------------------
(* Instances of FilePipeline for TLC. *)
EXTENDS FilePipeline

(* Every setting controlTask starts pollTask with. *)
AllModes == {m \in Mode : m.save \/ m.parse}

(* A failed download is survived when one task has the file and it stays   *)
(* on the detector.                                                        *)
SurvivesDownloadFailure == {m \in AllModes : m.save # m.parse /\ ~m.remove}

(* As the one of Modes and of DownloadFails, the first shows that          *)
(* otherwise StopCompletes fails, the second that DeletedOnlyIfHandled     *)
(* does.                                                                   *)
SaveAndParse == {[save |-> TRUE, parse |-> TRUE, remove |-> TRUE]}
SaveAndRemove == {[save |-> TRUE, parse |-> FALSE, remove |-> TRUE]}
=============================================================================
