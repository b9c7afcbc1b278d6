----------------------------- MODULE HttpAnswers -----------------------------
(***************************************************************************)
(* How the calls of RestAPI in restApi.cpp read their answers from a       *)
(* connection.  doRequest takes what one recv of MAX_MESSAGE_SIZE bytes    *)
(* returns for the whole answer; getBlob takes it for the header and some  *)
(* of the content, and then reads the rest.  A connection that is lost is  *)
(* opened again and the request repeated.                                  *)
(*                                                                         *)
(* There is one connection here and one call at a time; that connections   *)
(* are not shared is the subject of RestSockets.  Bytes are in units of    *)
(* which a header has HeaderLen.                                           *)
(***************************************************************************)
EXTENDS Naturals, Sequences, SequencesExt

CONSTANTS
    Calls,              \* the kinds of calls made
    HeaderLen,          \* units of a header
    MAX_MESSAGE_SIZE,   \* units one recv takes at first
    Bodies,             \* the lengths of bodies
    MAX_HTTP_RETRIES,
    MaxSends,           \* bound on the requests sent
    MaxLosses           \* bound on the connections lost

AllCalls == {"put", "get", "arm", "getFileSize", "waitFile", "deleteFile",
             "getBlob"}

ASSUME ConstantsAssumption ==
    /\ Calls \subseteq AllCalls
    /\ HeaderLen \in Nat \ {0} /\ HeaderLen <= MAX_MESSAGE_SIZE
    /\ Bodies \subseteq Nat /\ 0 \in Bodies
    /\ {MAX_MESSAGE_SIZE, MAX_HTTP_RETRIES, MaxSends, MaxLosses} \subseteq Nat

IsHead(call) == call \in {"getFileSize", "waitFile"}     \* a HEAD request

(* What the detector may answer: a body to a HEAD is announced, not sent.  *)
(* sequenceId: does the content have what arm looks for?                   *)
NoAnswer == [code |-> 0, length |-> 0, sent |-> 0, close |-> FALSE,
             sequenceId |-> FALSE]
Success(c) == IF c = "deleteFile" THEN 204 ELSE 200
AnswersTo(c) ==
    {a \in [code : {Success(c), 404}, length : Bodies, sent : Bodies,
            close : BOOLEAN, sequenceId : BOOLEAN] :
        /\ a.sent = IF IsHead(c) THEN 0 ELSE a.length
        /\ a.code = 204 => a.length = 0
        /\ a.sequenceId => c = "arm" /\ a.code = 200 /\ a.length > 0}

VARIABLES
    closed, retries,    \* fields of socket_t
    up,                 \* is the detector's end open?
    asked,              \* the requests the detector has to answer
    wire,               \* its answers, sent and not yet received
    answers,            \* history: what it answered to each request
    pc, call, n,        \* the call, its last request (numbered as they are sent)
    got, response,      \* units of content received; the header getBlob parsed
    ok,                 \* the status the call returned
    pieces,             \* history: an answer was not received in one piece, or
                        \* not in time, over this connection
    losses, lost, refused   \* history: connections lost, those this call lost,
                        \* was it refused one, timed out or out of memory?

connection == <<closed, up, asked, wire, pieces>>
caller == <<pc, call, n, got, response, ok, retries, lost, refused>>
vars == <<connection, caller, answers, losses>>

Init ==
    /\ closed = TRUE /\ retries = 0 /\ up = FALSE
    /\ asked = <<>> /\ wire = <<>> /\ answers = <<>>
    /\ pc = "idle" /\ call = "none" /\ n = 0 /\ got = <<>> /\ response = NoAnswer /\ ok = FALSE
    /\ pieces = FALSE /\ losses = 0 /\ lost = 0 /\ refused = FALSE

(* The units of the answer to request r.                                   *)
Units(r) == [k \in 1 .. HeaderLen + answers[r].sent |-> <<r, k>>]
Content(r) == SubSeq(Units(r), HeaderLen + 1, HeaderLen + answers[r].sent)

-----------------------------------------------------------------------------
(* The call.                                                               *)

Call(c) ==
    /\ pc = "idle" /\ n < MaxSends
    /\ call' = c
    /\ pc' = IF closed THEN "connect" ELSE "send"
    /\ got' = <<>> /\ response' = NoAnswer /\ ok' = FALSE /\ lost' = 0 /\ refused' = FALSE
    /\ UNCHANGED <<connection, n, retries, answers, losses>>

(* end: *)
Return(status) ==
    /\ pc' = "idle" /\ ok' = status /\ retries' = 0

(* A new connection, which may turn out not to be one.                     *)
Connect ==
    /\ pc = "connect"
    /\ closed' = FALSE /\ up' \in BOOLEAN
    /\ asked' = <<>> /\ wire' = <<>> /\ pieces' = FALSE
    /\ pc' = "send"
    /\ UNCHANGED <<call, n, got, response, ok, retries, lost, refused, answers, losses>>

ConnectFail ==
    /\ pc = "connect"
    /\ Return(FALSE) /\ refused' = TRUE
    /\ UNCHANGED <<connection, call, n, got, response, lost, answers, losses>>

(* What the detector answered is remembered as long as it may be read.     *)
Pending == {unit[1] : unit \in ToSet(wire)}
Send ==
    /\ pc = "send" /\ n < MaxSends
    /\ n' = n + 1
    /\ answers' = Append([r \in 1 .. n |-> IF r \in Pending THEN answers[r]
                                          ELSE NoAnswer], NoAnswer)
    /\ asked' = IF up THEN Append(asked, <<n', call>>) ELSE asked
    /\ pc' = "recv"
    /\ UNCHANGED <<closed, up, wire, pieces, call, got, response, ok, retries,
                   lost, refused, losses>>

(* send or recv fails.  What getBlob had is freed; retry: closes the       *)
(* connection and makes the call again.  When the retries are used up the  *)
(* connection is left as it is, except by a send of doRequest.             *)
MayRetryNot == FALSE    \* mutant: retries counted before they are compared
MayRetry == retries < MAX_HTTP_RETRIES
Lose ==
    /\ lost' = lost + 1
    /\ got' = <<>> /\ response' = NoAnswer
    /\ IF MayRetry
       THEN /\ retries' = retries + 1
            /\ closed' = TRUE /\ up' = FALSE
            /\ pc' = "connect"
            /\ UNCHANGED ok
       ELSE /\ Return(FALSE)
            /\ closed' = (closed \/ (pc = "send" /\ call # "getBlob"))
            /\ UNCHANGED up

SendFail ==
    /\ pc = "send" /\ ~up
    /\ Lose
    /\ UNCHANGED <<asked, wire, pieces, call, n, refused, answers, losses>>

RecvFail ==
    /\ pc \in {"recv", "rest"} /\ ~up /\ wire = <<>>
    /\ Lose
    /\ UNCHANGED <<asked, wire, pieces, call, n, refused, answers, losses>>

(* select, in doRequest only.                                              *)
Timeout ==
    /\ pc = "recv" /\ call # "getBlob" /\ up
    /\ pieces' = TRUE
    /\ Return(FALSE) /\ refused' = TRUE
    /\ UNCHANGED <<closed, up, asked, wire, call, n, got, response, lost,
                   answers, losses>>

(* recv returns what has arrived, up to a limit.                           *)
Received(limit) ==
    {SubSeq(wire, 1, k) : k \in {k \in 1 .. Len(wire) : k <= limit}}
Consume(units) == wire' = SubSeq(wire, Len(units) + 1, Len(wire))

(* The header is found if what was received begins with one.               *)
parseHeader(units) ==
    /\ Len(units) >= HeaderLen
    /\ \A k \in 1 .. HeaderLen : units[k] = <<units[1][1], k>>

InOnePiece(units) ==
    IF call = "getBlob" /\ answers[n].code = 200
    THEN IsPrefix(SubSeq(Units(n), 1, HeaderLen), units)
    ELSE units = Units(n)

(* What each call makes of an answer.                                      *)
Accepts(a) ==
    CASE call = "deleteFile" -> a.code = 204
      [] call = "arm" -> a.code = 200 /\ a.sequenceId
      [] OTHER -> a.code = 200

(* doRequest: the first recv is the only one.  waitFile asks again, on the *)
(* connection it then gets, if the file is not there and there is time.    *)
Recv ==
    /\ pc = "recv" /\ call # "getBlob"
    /\ \E units \in Received(MAX_MESSAGE_SIZE) :
          LET a == answers[units[1][1]]
          IN /\ Consume(units)
             /\ pieces' = (pieces \/ ~InOnePiece(units))
             /\ IF parseHeader(units)
                THEN /\ closed' = a.close
                     /\ up' = (up /\ ~a.close)
                     /\ got' = IF Accepts(a) THEN SubSeq(units, HeaderLen + 1, Len(units))
                               ELSE <<>>
                     /\ \/ Return(Accepts(a))
                        \/ /\ call = "waitFile" /\ a.code = 404 /\ n < MaxSends
                           /\ pc' = IF a.close THEN "connect" ELSE "send"
                           /\ retries' = 0 /\ UNCHANGED ok
                ELSE /\ Return(FALSE)
                     /\ UNCHANGED <<closed, up, got>>
    /\ UNCHANGED <<asked, call, n, response, lost, refused, answers, losses>>

(* getBlob: a header that is not whole, an error and the want of memory    *)
(* end the call with the content, if any, unread.                          *)
RecvFirst ==
    /\ pc = "recv" /\ call = "getBlob"
    /\ \E units \in Received(MAX_MESSAGE_SIZE) :
          LET a == answers[units[1][1]]
              blob == parseHeader(units) /\ a.code = 200
          IN /\ Consume(units)
             /\ \/ /\ blob
                   /\ got' = SubSeq(units, HeaderLen + 1, Len(units))
                   /\ response' = a
                   /\ pc' = "rest"
                   /\ pieces' = (pieces \/ ~InOnePiece(units))
                   /\ UNCHANGED <<ok, retries, refused>>
                \/ /\ Return(FALSE)
                   /\ refused' = blob       \* no memory
                   /\ pieces' = (pieces \/ units # Units(n))
                   /\ UNCHANGED <<got, response>>
    /\ UNCHANGED <<closed, up, asked, call, n, lost, answers, losses>>

(* The loop, with a remaining length that is unsigned: having more than    *)
(* is needed it does not end.                                              *)
RemainingAtFirst == response.length > 0 /\ Len(got) = 0    \* mutant: if instead of while
Remaining == response.length # Len(got)
RecvRest ==
    /\ pc = "rest" /\ Remaining
    /\ \E units \in Received(IF response.length > Len(got)
                             THEN response.length - Len(got) ELSE Len(wire)) :
          Consume(units) /\ got' = got \o units
    /\ UNCHANGED <<closed, up, asked, pieces, pc, call, n, response, ok, retries,
                   lost, refused, answers, losses>>

RecvLast ==
    /\ pc = "rest" /\ ~Remaining
    /\ Return(TRUE)
    /\ closed' = response.close
    /\ up' = (up /\ ~response.close)
    /\ UNCHANGED <<asked, wire, pieces, call, n, got, response, lost, refused,
                   answers, losses>>

-----------------------------------------------------------------------------
(* The detector, and the network.                                          *)
Answer ==
    /\ asked # <<>>
    /\ LET r == Head(asked)[1]
       IN \E a \in AnswersTo(Head(asked)[2]) :
             /\ answers' = [answers EXCEPT ![r] = a]
             /\ wire' = wire \o [k \in 1 .. HeaderLen + a.sent |-> <<r, k>>]
    /\ asked' = Tail(asked)
    /\ UNCHANGED <<closed, up, pieces, caller, losses>>

(* It closes the connection, or a network fault does, which takes with it  *)
(* what had not arrived yet.                                               *)
Close ==
    /\ up /\ losses < MaxLosses /\ losses' = losses + 1
    /\ up' = FALSE
    /\ asked' = <<>>
    /\ \E k \in 0 .. Len(wire) : wire' = SubSeq(wire, 1, k)
    /\ UNCHANGED <<closed, pieces, caller, answers>>

Next ==
    \/ \E c \in Calls : Call(c)
    \/ Connect \/ ConnectFail \/ Send \/ SendFail \/ Timeout
    \/ Recv \/ RecvFirst \/ RecvRest \/ RecvLast \/ RecvFail
    \/ Answer \/ Close

Spec == Init /\ [][Next]_vars

-----------------------------------------------------------------------------
(* Properties.                                                             *)

(* A call that succeeds returns the content of the answer to its own last  *)
(* request, whole and in order - a blob also if it came in any number of   *)
(* pieces, or after part of it was lost with a connection - as long as     *)
(* every other answer on the connection, and every header, came in one     *)
(* piece, in time, and no longer than one recv takes.                      *)
OwnAndWhole ==
    pc = "idle" /\ ok /\ ~pieces =>
        got = IF IsHead(call) THEN <<>> ELSE Content(n)

(* A call fails for a reason: the answer, no connection or memory to be    *)
(* had, an answer in pieces, or more connections lost during the call than *)
(* there are retries.  In particular a connection that the detector closed *)
(* between two calls goes unnoticed.                                       *)
FailsForAReason ==
    pc = "idle" /\ n > 0 /\ ~ok /\ ~refused /\ ~pieces /\ lost <= MAX_HTTP_RETRIES =>
        ~Accepts(answers[n])
=============================================================================
