---------------------------- MODULE MCHttpAnswers ----------------------------
(* Instances of HttpAnswers for TLC. *)
EXTENDS HttpAnswers

(* A put reads its answer as a get does, getFileSize as a waitFile that    *)
(* does not ask again.                                                     *)
CallsMade == {"get", "arm", "waitFile", "deleteFile", "getBlob"}
=============================================================================
