---------------------------- MODULE MCRestSockets ----------------------------
(* Instances of RestSockets for TLC. *)
EXTENDS RestSockets

CONSTANTS control, poll, download
ThreeThreads == {control, poll, download}
DownloadThread == {download}
=============================================================================
