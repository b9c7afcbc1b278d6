----------------------------- MODULE MCStreamTask -----------------------------
(* Instances of StreamTask for TLC. *)
EXTENDS StreamTask

NoneOrOne == {0, 1}
None == {0}
Unreadable == {"unreadable"}

(* The codes of stream2_parse_msg that end the task's acquisition; 1 and 2 *)
(* make it skip the message, which may be the end message.                 *)
FatalCodes == 3 .. 5
=============================================================================
