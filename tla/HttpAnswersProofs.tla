-------------------------- MODULE HttpAnswersProofs --------------------------
(***************************************************************************)
(* Proofs about HttpAnswers, for every length of headers, bodies and reads *)
(* and every number of retries, requests and lost connections: a call that *)
(* succeeds returns its own answer whole, and one that fails has a reason. *)
(***************************************************************************)
EXTENDS HttpAnswers, TLAPS

(* These units are those of the answer to request r after the first k.     *)
AnswerFrom(units, r, k) ==
    /\ units \in Seq(Nat \X Nat)
    /\ \A m \in 1 .. Len(units) : units[m] = <<r, k + m>>

(* The requests are numbered; a call counts all the connections it loses,  *)
(* while waitFile counts its retries for each time it asks.                *)
CountInv ==
    /\ n \in Nat /\ DOMAIN answers = 1 .. n
    /\ retries \in Nat /\ lost \in Nat
    /\ pc \in {"idle", "connect", "send", "recv", "rest"}
    /\ IF pc = "idle" THEN retries = 0 ELSE retries <= lost
    /\ up \in BOOLEAN /\ pieces \in BOOLEAN

-----------------------------------------------------------------------------
(* The rest is about a connection on which every answer came in one piece. *)

(* Nothing is under way on it but between the send and the last recv.      *)
Silent == asked = <<>> /\ wire = <<>>
SilentInv ==
    /\ pc \in {"idle", "connect", "send"} => Silent
    /\ ~up => asked = <<>>

Answered == asked = <<>> /\ n > 0 /\ answers[n] \in AnswersTo(call)

(* What is then under way is the last request, or its answer, of which the *)
(* end may have been lost with the connection.                             *)
RecvInv ==
    pc = "recv" =>
        /\ n > 0
        /\ \/ asked = <<<<n, call>>>> /\ wire = <<>>
           \/ Silent
           \/ /\ Answered
              /\ AnswerFrom(wire, n, 0)
              /\ Len(wire) <= HeaderLen + answers[n].sent

(* getBlob has the beginning of the content, and what follows is on its    *)
(* way.                                                                    *)
RestInv ==
    pc = "rest" =>
        /\ call = "getBlob" /\ Answered
        /\ response = answers[n]
        /\ AnswerFrom(got, n, HeaderLen) /\ AnswerFrom(wire, n, HeaderLen + Len(got))
        /\ Len(got) + Len(wire) <= answers[n].sent

OneAnswer == SilentInv /\ RecvInv /\ RestInv

AnswerInv ==
    /\ CountInv
    /\ ~pieces => OneAnswer
    /\ OwnAndWhole /\ FailsForAReason

-----------------------------------------------------------------------------
(* What recv takes and what it leaves are both parts of the answer.        *)
LEMMA AnswerParts ==
    ASSUME NEW s, NEW r \in Nat, NEW k \in Nat, AnswerFrom(s, r, k),
           NEW j \in 0 .. Len(s)
    PROVE  /\ AnswerFrom(SubSeq(s, 1, j), r, k)
           /\ Len(SubSeq(s, 1, j)) = j
           /\ AnswerFrom(SubSeq(s, j + 1, Len(s)), r, k + j)
           /\ Len(SubSeq(s, j + 1, Len(s))) = Len(s) - j
<1>1. s \in Seq(Nat \X Nat) /\ \A m \in 1 .. Len(s) : s[m] = <<r, k + m>>
  BY DEF AnswerFrom
<1>2. /\ SubSeq(s, 1, j) \in Seq(Nat \X Nat) /\ Len(SubSeq(s, 1, j)) = j
      /\ \A m \in 1 .. j : SubSeq(s, 1, j)[m] = s[m]
  BY <1>1
<1>3. /\ SubSeq(s, j + 1, Len(s)) \in Seq(Nat \X Nat)
      /\ Len(SubSeq(s, j + 1, Len(s))) = Len(s) - j
      /\ \A m \in 1 .. Len(s) - j : SubSeq(s, j + 1, Len(s))[m] = s[j + m]
  BY <1>1
<1>4. Len(s) \in Nat
  BY <1>1
<1>5. \A m \in 1 .. j : m \in 1 .. Len(s)
  BY <1>4
<1>6. \A m \in 1 .. Len(s) - j : j + m \in 1 .. Len(s) /\ k + (j + m) = (k + j) + m
  BY <1>4
<1>7. \A m \in 1 .. j : SubSeq(s, 1, j)[m] = <<r, k + m>>
  BY <1>1, <1>2, <1>5
<1>8. \A m \in 1 .. Len(s) - j : SubSeq(s, j + 1, Len(s))[m] = <<r, (k + j) + m>>
  BY <1>1, <1>3, <1>6
<1> QED BY <1>2, <1>3, <1>7, <1>8 DEF AnswerFrom

(* Two readings one after the other make one.                              *)
LEMMA AnswerJoined ==
    ASSUME NEW s, NEW t, NEW r \in Nat, NEW k \in Nat, AnswerFrom(s, r, k),
           AnswerFrom(t, r, k + Len(s))
    PROVE  AnswerFrom(s \o t, r, k) /\ Len(s \o t) = Len(s) + Len(t)
<1>1. /\ s \in Seq(Nat \X Nat) /\ \A m \in 1 .. Len(s) : s[m] = <<r, k + m>>
      /\ t \in Seq(Nat \X Nat)
      /\ \A m \in 1 .. Len(t) : t[m] = <<r, (k + Len(s)) + m>>
  BY DEF AnswerFrom
<1>2. s \o t \in Seq(Nat \X Nat) /\ Len(s \o t) = Len(s) + Len(t)
  BY <1>1
<1>3. Len(s) \in Nat /\ Len(t) \in Nat
  BY <1>1
<1>4. ASSUME NEW m \in 1 .. Len(s) + Len(t)
      PROVE  (s \o t)[m] = <<r, k + m>>
  <2>1. CASE m <= Len(s)
    BY <1>1, <1>3, <2>1
  <2>2. CASE m > Len(s)
    <3>1. m - Len(s) \in 1 .. Len(t) /\ (k + Len(s)) + (m - Len(s)) = k + m
      BY <1>3, <2>2
    <3>2. (s \o t)[m] = t[m - Len(s)]
      BY <1>1, <1>3, <2>2
    <3> QED BY <1>1, <3>1, <3>2
  <2>3. m <= Len(s) \/ m > Len(s)
    BY <1>3
  <2> QED BY <2>1, <2>2, <2>3
<1> QED BY <1>2, <1>4 DEF AnswerFrom

(* The units of an answer are an AnswerFrom, and so is its content.        *)
LEMMA UnitsOf ==
    ASSUME NEW r \in Nat, answers[r].sent \in Nat
    PROVE  /\ AnswerFrom(Units(r), r, 0)
           /\ Len(Units(r)) = HeaderLen + answers[r].sent
           /\ AnswerFrom(Content(r), r, HeaderLen)
           /\ Len(Content(r)) = answers[r].sent
<1>1. HeaderLen \in Nat /\ HeaderLen > 0
  BY ConstantsAssumption
<1> DEFINE len == HeaderLen + answers[r].sent
<1>2. len \in Nat
  BY <1>1
<1>3. /\ Units(r) \in Seq(Nat \X Nat) /\ Len(Units(r)) = len
      /\ \A m \in 1 .. len : Units(r)[m] = <<r, 0 + m>>
  BY <1>2 DEF Units
<1>4. AnswerFrom(Units(r), r, 0)
  BY <1>3 DEF AnswerFrom
<1>5. HeaderLen \in 0 .. len /\ 0 + HeaderLen = HeaderLen
      /\ len - HeaderLen = answers[r].sent
  BY <1>1
<1>6. Content(r) = SubSeq(Units(r), HeaderLen + 1, Len(Units(r)))
  BY <1>3 DEF Content
<1>7. /\ AnswerFrom(Content(r), r, 0 + HeaderLen)
      /\ Len(Content(r)) = Len(Units(r)) - HeaderLen
  <2>1. HeaderLen \in 0 .. Len(Units(r)) /\ 0 \in Nat
    BY <1>3, <1>5
  <2> QED BY <1>4, <1>6, <2>1, AnswerParts
<1> QED
  BY <1>3, <1>4, <1>5, <1>7

(* An answer is determined by where it starts and how long it is.          *)
LEMMA SameAnswer ==
    ASSUME NEW s, NEW t, NEW r, NEW k, AnswerFrom(s, r, k), AnswerFrom(t, r, k),
           Len(s) = Len(t)
    PROVE  s = t
<1>1. s \in Seq(Nat \X Nat) /\ t \in Seq(Nat \X Nat) /\ Len(s) = Len(t)
  BY DEF AnswerFrom
<1>2. \A m \in 1 .. Len(s) : s[m] = t[m]
  BY DEF AnswerFrom
<1>3. /\ s = [m \in 1 .. Len(s) |-> s[m]]
      /\ t = [m \in 1 .. Len(s) |-> t[m]]
  BY <1>1
<1> QED BY <1>2, <1>3

(* The header of an answer that begins on time is found.                   *)
LEMMA HeaderFound ==
    ASSUME NEW s, NEW r \in Nat, AnswerFrom(s, r, 0), Len(s) >= HeaderLen
    PROVE  parseHeader(s) /\ s[1][1] = r
<1>1. HeaderLen \in Nat /\ HeaderLen > 0 /\ Len(s) \in Nat
  BY ConstantsAssumption DEF AnswerFrom
<1>2. \A m \in 1 .. HeaderLen : m \in 1 .. Len(s) /\ 0 + m = m
  BY <1>1
<1>3. 1 \in 1 .. HeaderLen
  BY <1>1
<1> QED BY <1>1, <1>2, <1>3 DEF AnswerFrom, parseHeader

-----------------------------------------------------------------------------
(* The counts, by action.  MAX_HTTP_RETRIES and the answers do not matter  *)
(* to them.                                                                *)
LEMMA CountStep == CountInv /\ [Next]_vars => CountInv'
<1> SUFFICES ASSUME CountInv, [Next]_vars PROVE CountInv'
  OBVIOUS
<1> USE DEF CountInv
<1>1. CASE UNCHANGED vars
  BY <1>1 DEF vars, connection, caller
<1>2. ASSUME NEW c \in Calls, Call(c) PROVE CountInv'
  BY <1>2 DEF Call, connection
<1>3. CASE Connect
  BY <1>3 DEF Connect
<1>4. CASE ConnectFail
  BY <1>4 DEF ConnectFail, Return, connection
<1>5. CASE Send
  <2>1. n' = n + 1 /\ n' \in Nat
    BY <1>5 DEF Send
  <2>2. DOMAIN answers' = 1 .. n'
    <3> DEFINE kept == [r \in 1 .. n |-> IF r \in Pending THEN answers[r] ELSE NoAnswer]
    <3>1. kept \in Seq({kept[r] : r \in 1 .. n}) /\ Len(kept) = n
      OBVIOUS
    <3> HIDE DEF kept
    <3>2. DOMAIN Append(kept, NoAnswer) = 1 .. n + 1
      BY <3>1
    <3> QED BY <1>5, <3>2 DEF Send, kept
  <2> QED BY <1>5, <2>1, <2>2 DEF Send
<1>6. ASSUME Lose, pc # "idle" PROVE /\ retries' \in Nat /\ lost' \in Nat
                                     /\ pc' \in {"idle", "connect"}
                                     /\ IF pc' = "idle" THEN retries' = 0
                                                        ELSE retries' <= lost'
                                     /\ up' \in BOOLEAN
  <2>1. CASE MayRetry
    <3>1. lost' = lost + 1 /\ retries' = retries + 1 /\ pc' = "connect" /\ up' = FALSE
      BY <1>6, <2>1 DEF Lose
    <3>2. retries <= lost
      BY <1>6
    <3>3. retries' <= lost' /\ retries' \in Nat /\ lost' \in Nat
      BY <3>1, <3>2
    <3> QED BY <3>1, <3>3
  <2>2. CASE ~MayRetry
    <3>1. lost' = lost + 1 /\ retries' = 0 /\ pc' = "idle" /\ up' = up
      BY <1>6, <2>2 DEF Lose, Return
    <3> QED BY <3>1
  <2> QED BY <2>1, <2>2
<1>7. CASE SendFail
  BY <1>6, <1>7 DEF SendFail
<1>8. CASE RecvFail
  BY <1>6, <1>8 DEF RecvFail
<1>9. CASE Timeout
  BY <1>9 DEF Timeout, Return
<1>10. CASE Recv
  <2> PICK units \in Received(MAX_MESSAGE_SIZE) :
          LET a == answers[units[1][1]]
          IN /\ pieces' = (pieces \/ ~InOnePiece(units))
             /\ IF parseHeader(units)
                THEN /\ up' = (up /\ ~a.close)
                     /\ \/ Return(Accepts(a))
                        \/ pc' \in {"connect", "send"} /\ retries' = 0
                ELSE Return(FALSE) /\ up' = up
    BY <1>10 DEF Recv
  <2>1. pieces' \in BOOLEAN
    OBVIOUS
  <2>2. up' \in BOOLEAN
    BY Zenon
  <2>3. retries' = 0 /\ pc' \in {"idle", "connect", "send"}
    BY Zenon DEF Return
  <2> QED BY <1>10, <2>1, <2>2, <2>3 DEF Recv
<1>11. CASE RecvFirst
  <2> PICK units \in Received(MAX_MESSAGE_SIZE) :
          \/ pc' = "rest" /\ pieces' = (pieces \/ ~InOnePiece(units)) /\ retries' = retries
          \/ Return(FALSE) /\ pieces' = (pieces \/ units # Units(n))
    BY <1>11 DEF RecvFirst
  <2>1. pieces' \in BOOLEAN
    BY Zenon
  <2>2. (pc' = "rest" /\ retries' = retries) \/ (pc' = "idle" /\ retries' = 0)
    BY DEF Return
  <2> QED BY <1>11, <2>1, <2>2 DEF RecvFirst
<1>12. CASE RecvRest
  BY <1>12 DEF RecvRest
<1>13. CASE RecvLast
  BY <1>13 DEF RecvLast, Return
<1>14. CASE Answer
  BY <1>14 DEF Answer, caller
<1>15. CASE Close
  BY <1>15 DEF Close, caller
<1> QED
  BY <1>1, <1>2, <1>3, <1>4, <1>5, <1>7, <1>8, <1>9, <1>10, <1>11, <1>12, <1>13,
     <1>14, <1>15 DEF Next

-----------------------------------------------------------------------------
(* What is sent of an answer is its body, if it was asked for.             *)
LEMMA AnswerLengths ==
    ASSUME NEW c, NEW a \in AnswersTo(c)
    PROVE  a.sent \in Nat /\ a.sent = IF IsHead(c) THEN 0 ELSE a.length
BY ConstantsAssumption DEF AnswersTo

(* One recv, of an answer or of a part of one.                             *)
LEMMA ReceivedFrom ==
    ASSUME NEW r \in Nat, NEW k \in Nat, AnswerFrom(wire, r, k),
           NEW limit, NEW units \in Received(limit), Consume(units)
    PROVE  /\ Len(units) \in 1 .. Len(wire) /\ Len(wire) \in Nat
           /\ AnswerFrom(units, r, k)
           /\ AnswerFrom(wire', r, k + Len(units))
           /\ Len(wire') = Len(wire) - Len(units)
<1>1. PICK j \in 1 .. Len(wire) : units = SubSeq(wire, 1, j)
  BY DEF Received
<1>2. Len(wire) \in Nat /\ j \in 0 .. Len(wire)
  BY DEF AnswerFrom
<1>3. Len(units) = j
  BY <1>1, <1>2, AnswerParts
<1>4. wire' = SubSeq(wire, j + 1, Len(wire))
  BY <1>3 DEF Consume
<1> QED
  BY <1>1, <1>2, <1>3, <1>4, AnswerParts

(* The first recv after a send: it receives something only if there is an  *)
(* answer, and that is the answer to this request.                         *)
LEMMA FirstReceived ==
    ASSUME CountInv, RecvInv, pc = "recv",
           NEW units \in Received(MAX_MESSAGE_SIZE), Consume(units)
    PROVE  /\ Answered /\ n \in Nat /\ answers[n].sent \in Nat
           /\ AnswerFrom(wire, n, 0) /\ Len(wire) <= HeaderLen + answers[n].sent
<1>1. wire # <<>>
  <2> SUFFICES ASSUME wire = <<>> PROVE FALSE
    OBVIOUS
  <2> QED BY DEF Received
<1>2. Answered /\ AnswerFrom(wire, n, 0) /\ Len(wire) <= HeaderLen + answers[n].sent
  BY <1>1 DEF RecvInv, Silent
<1> QED
  BY <1>2, AnswerLengths DEF Answered, CountInv

(* If it is in one piece, it is the header and the content of that answer, *)
(* and nothing is left.                                                    *)
LEMMA ReceivedWhole ==
    ASSUME CountInv, RecvInv, pc = "recv",
           NEW units \in Received(MAX_MESSAGE_SIZE), Consume(units),
           units = Units(n)
    PROVE  /\ Answered /\ wire' = <<>>
           /\ parseHeader(units) /\ units[1][1] = n
           /\ SubSeq(units, HeaderLen + 1, Len(units)) = Content(n)
<1>1. /\ Answered /\ n \in Nat /\ answers[n].sent \in Nat
      /\ AnswerFrom(wire, n, 0) /\ Len(wire) <= HeaderLen + answers[n].sent
  BY FirstReceived
<1>2. AnswerFrom(units, n, 0) /\ Len(units) = HeaderLen + answers[n].sent
  BY <1>1, UnitsOf
<1>3. /\ Len(units) \in 1 .. Len(wire) /\ Len(wire') = Len(wire) - Len(units)
      /\ wire' \in Seq(Nat \X Nat) /\ Len(wire) \in Nat
  BY <1>1, ReceivedFrom, 0 \in Nat DEF AnswerFrom
<1>4. HeaderLen \in Nat
  BY ConstantsAssumption
<1>5. Len(wire') = 0
  BY <1>1, <1>2, <1>3, <1>4
<1>6. wire' = <<>>
  BY <1>3, <1>5
<1>7. parseHeader(units) /\ units[1][1] = n
  <2>1. Len(units) >= HeaderLen
    BY <1>1, <1>2, <1>4
  <2> QED BY <1>1, <1>2, <2>1, HeaderFound
<1>8. SubSeq(units, HeaderLen + 1, Len(units)) = Content(n)
  BY <1>2 DEF Content
<1> QED BY <1>1, <1>6, <1>7, <1>8

-----------------------------------------------------------------------------
(* The actions, on a connection without pieces.                            *)

Good == OneAnswer /\ OwnAndWhole /\ FailsForAReason

(* A call begins with nothing under way. *)
LEMMA CallStep ==
    ASSUME CountInv, OneAnswer, ~pieces, NEW c \in Calls, Call(c)
    PROVE  Good'
BY DEF CountInv, OneAnswer, SilentInv, RecvInv, RestInv, Silent, Call, connection,
       Good, OwnAndWhole, FailsForAReason

(* A new connection has nothing under way. *)
LEMMA ConnectStep == ASSUME Connect PROVE Good'
BY DEF OneAnswer, SilentInv, RecvInv, RestInv, Silent, Connect,
       Good, OwnAndWhole, FailsForAReason

(* The want of one is a reason. *)
LEMMA ConnectFailStep ==
    ASSUME CountInv, OneAnswer, ~pieces, ConnectFail
    PROVE  Good'
BY DEF CountInv, OneAnswer, SilentInv, RecvInv, RestInv, Silent, ConnectFail, Return,
       connection, Good, OwnAndWhole, FailsForAReason

(* Now the request is under way, and only it. *)
LEMMA SendStep ==
    ASSUME CountInv, OneAnswer, ~pieces, Send
    PROVE  Good'
<1>1. Silent /\ n' = n + 1 /\ n' > 0 /\ pc' = "recv" /\ wire' = <<>> /\ call' = call
      /\ up' = up
  BY DEF CountInv, OneAnswer, SilentInv, Silent, Send
<1>2. asked' = IF up THEN <<<<n', call'>>>> ELSE <<>>
  BY <1>1 DEF Send, Silent
<1>3. SilentInv' /\ RecvInv' /\ RestInv'
  BY <1>1, <1>2 DEF SilentInv, RecvInv, RestInv, Silent
<1> QED
  BY <1>1, <1>3 DEF OneAnswer, Good, OwnAndWhole, FailsForAReason

(* A connection that is lost has nothing under way; and the call ends only *)
(* when it has lost more than it may.                                      *)
LEMMA LoseStep ==
    ASSUME CountInv, OneAnswer, ~pieces, SendFail \/ RecvFail
    PROVE  Good'
<1>1. /\ Silent' /\ pc # "idle" /\ Lose /\ n' = n /\ ~up
  BY DEF OneAnswer, SilentInv, Silent, SendFail, RecvFail
<1>2. CASE MayRetry
  <2>1. pc' = "connect"
    BY <1>1, <1>2 DEF Lose
  <2> QED
    BY <1>1, <2>1 DEF OneAnswer, SilentInv, RecvInv, RestInv, Silent, Good, OwnAndWhole,
                      FailsForAReason
<1>3. CASE ~MayRetry
  <2>1. pc' = "idle" /\ ok' = FALSE /\ lost' = lost + 1
    BY <1>1, <1>3 DEF Lose, Return
  <2>2. retries >= MAX_HTTP_RETRIES /\ retries <= lost
    BY <1>1, <1>3, ConstantsAssumption DEF MayRetry, CountInv
  <2>3. ~(lost' <= MAX_HTTP_RETRIES)
    BY <2>1, <2>2, ConstantsAssumption DEF CountInv
  <2> QED
    BY <1>1, <2>1, <2>3 DEF OneAnswer, SilentInv, RecvInv, RestInv, Silent, Good, OwnAndWhole,
                      FailsForAReason
<1> QED BY <1>2, <1>3

-----------------------------------------------------------------------------
(* doRequest: with the answer in one piece the call has all of it.         *)
LEMMA RecvStep ==
    ASSUME CountInv, OneAnswer, ~pieces, Recv, ~pieces'
    PROVE  Good'
<1>1. PICK units \in Received(MAX_MESSAGE_SIZE) :
          LET a == answers[units[1][1]]
          IN /\ Consume(units)
             /\ pieces' = (pieces \/ ~InOnePiece(units))
             /\ parseHeader(units) =>
                /\ got' = IF Accepts(a) THEN SubSeq(units, HeaderLen + 1, Len(units))
                          ELSE <<>>
                /\ \/ Return(Accepts(a))
                   \/ pc' \in {"connect", "send"}
  BY DEF Recv
<1>2. units = Units(n)
  BY <1>1 DEF Recv, InOnePiece
<1>3. RecvInv /\ pc = "recv" /\ call # "getBlob"
  BY DEF OneAnswer, Recv
<1>4. /\ Answered /\ wire' = <<>>
      /\ parseHeader(units) /\ units[1][1] = n
      /\ SubSeq(units, HeaderLen + 1, Len(units)) = Content(n)
  BY <1>1, <1>2, <1>3, ReceivedWhole
<1>5. Silent' /\ n' = n /\ call' = call /\ answers' = answers
  BY <1>4 DEF Answered, Silent, Recv
<1>6. /\ got' = IF Accepts(answers[n]) THEN Content(n) ELSE <<>>
      /\ Return(Accepts(answers[n])) \/ pc' \in {"connect", "send"}
  BY <1>1, <1>4
<1>7. OneAnswer'
  BY <1>5, <1>6 DEF OneAnswer, SilentInv, RecvInv, RestInv, Silent, Return
<1>8. Content(n)' = Content(n) /\ Accepts(answers[n])' = Accepts(answers[n])
  BY <1>5 DEF Content, Units, Accepts
<1>9. IsHead(call) => Content(n) = <<>>
  <2> SUFFICES ASSUME IsHead(call) PROVE Content(n) = <<>>
    OBVIOUS
  <2>1. answers[n].sent = 0 /\ n \in Nat
    BY <1>4, AnswerLengths DEF Answered, CountInv
  <2>2. Len(Content(n)) = 0 /\ Content(n) \in Seq(Nat \X Nat)
    BY <2>1, UnitsOf DEF AnswerFrom
  <2> QED BY <2>2
<1>10. OwnAndWhole'
  BY <1>5, <1>6, <1>8, <1>9 DEF OwnAndWhole, Return
<1>11. FailsForAReason'
  BY <1>5, <1>6, <1>8 DEF FailsForAReason, Return
<1> QED BY <1>7, <1>10, <1>11 DEF Good

(* getBlob: it goes on with a header that is whole, and ends, if memory is *)
(* not wanting, only with an error for which everything has been read.     *)
LEMMA RecvFirstStep ==
    ASSUME CountInv, OneAnswer, ~pieces, RecvFirst, ~pieces'
    PROVE  Good'
<1>1. PICK units \in Received(MAX_MESSAGE_SIZE) :
          LET a == answers[units[1][1]]
              blob == parseHeader(units) /\ a.code = 200
          IN /\ Consume(units)
             /\ \/ /\ blob
                   /\ got' = SubSeq(units, HeaderLen + 1, Len(units))
                   /\ response' = a
                   /\ pc' = "rest"
                   /\ pieces' = (pieces \/ ~InOnePiece(units))
                \/ /\ Return(FALSE)
                   /\ refused' = blob
                   /\ pieces' = (pieces \/ units # Units(n))
  BY DEF RecvFirst
<1>2. RecvInv /\ pc = "recv" /\ call = "getBlob"
  BY DEF OneAnswer, RecvFirst
<1>3. /\ Answered /\ n \in Nat /\ answers[n].sent \in Nat
      /\ AnswerFrom(wire, n, 0) /\ Len(wire) <= HeaderLen + answers[n].sent
  BY <1>1, <1>2, FirstReceived
<1>4. /\ n' = n /\ call' = call /\ answers' = answers /\ asked' = asked
  BY DEF RecvFirst
<1>5. HeaderLen \in Nat /\ 0 \in Nat
  BY ConstantsAssumption
<1>6. /\ Len(units) \in 1 .. Len(wire) /\ Len(wire) \in Nat
      /\ AnswerFrom(units, n, 0)
      /\ AnswerFrom(wire', n, 0 + Len(units))
      /\ Len(wire') = Len(wire) - Len(units)
  BY <1>1, <1>3, <1>5, ReceivedFrom
<1>7. CASE /\ parseHeader(units)
           /\ got' = SubSeq(units, HeaderLen + 1, Len(units))
           /\ response' = answers[units[1][1]]
           /\ pc' = "rest"
  <2>1. Len(units) >= HeaderLen
    BY <1>7 DEF parseHeader
  <2>2. units[1][1] = n
    BY <1>3, <1>6, <2>1, HeaderFound
  <2>3. HeaderLen \in 0 .. Len(units) /\ 0 + HeaderLen = HeaderLen
    BY <1>5, <1>6, <2>1
  <2>4. AnswerFrom(got', n, HeaderLen) /\ Len(got') = Len(units) - HeaderLen
    <3>1. /\ AnswerFrom(SubSeq(units, HeaderLen + 1, Len(units)), n, 0 + HeaderLen)
          /\ Len(SubSeq(units, HeaderLen + 1, Len(units))) = Len(units) - HeaderLen
      BY <1>3, <1>5, <1>6, <2>3, AnswerParts
    <3> QED BY <1>7, <2>3, <3>1
  <2>5. HeaderLen + Len(got') = 0 + Len(units)
    BY <1>5, <1>6, <2>4
  <2>6. Len(got') + Len(wire') <= answers[n].sent
    BY <1>3, <1>5, <1>6, <2>4
  <2>7. RestInv'
    BY <1>2, <1>3, <1>4, <1>6, <1>7, <2>2, <2>4, <2>5, <2>6 DEF RestInv, Answered
  <2>8. SilentInv' /\ RecvInv'
    BY <1>3, <1>4, <1>7 DEF SilentInv, RecvInv, Answered
  <2> QED
    BY <1>7, <2>7, <2>8 DEF OneAnswer, Good, OwnAndWhole, FailsForAReason
<1>8. CASE /\ Return(FALSE) /\ units = Units(n)
           /\ refused' = (parseHeader(units) /\ answers[units[1][1]].code = 200)
  <2>1. wire' = <<>> /\ parseHeader(units) /\ units[1][1] = n
    BY <1>1, <1>2, <1>8, ReceivedWhole
  <2>2. OneAnswer'
    BY <1>3, <1>4, <1>8, <2>1 DEF Return, OneAnswer, SilentInv, RecvInv, RestInv, Silent,
                                 Answered
  <2>3. OwnAndWhole'
    BY <1>8 DEF Return, OwnAndWhole
  <2>4. ~refused' => ~Accepts(answers[n])'
    BY <1>2, <1>4, <1>8, <2>1 DEF Accepts
  <2> QED
    BY <2>2, <2>3, <2>4 DEF Good, FailsForAReason
<1> QED
  BY <1>1, <1>7, <1>8

(* The rest of the content, in as many pieces as it takes.                 *)
LEMMA RecvRestStep ==
    ASSUME CountInv, OneAnswer, ~pieces, RecvRest
    PROVE  Good'
<1>1. PICK limit : \E units \in Received(limit) : Consume(units) /\ got' = got \o units
  BY DEF RecvRest
<1>2. PICK units \in Received(limit) : Consume(units) /\ got' = got \o units
  BY <1>1
<1>3. /\ n' = n /\ call' = call /\ answers' = answers /\ asked' = asked
      /\ pc = "rest" /\ pc' = "rest" /\ response' = response
  BY DEF RecvRest
<1>4. /\ call = "getBlob" /\ Answered /\ response = answers[n]
      /\ AnswerFrom(got, n, HeaderLen) /\ AnswerFrom(wire, n, HeaderLen + Len(got))
      /\ Len(got) + Len(wire) <= answers[n].sent
  BY <1>3 DEF OneAnswer, RestInv
<1>5. n \in Nat /\ HeaderLen \in Nat /\ Len(got) \in Nat
      /\ HeaderLen + Len(got) \in Nat /\ answers[n].sent \in Nat
  BY <1>4, AnswerLengths, ConstantsAssumption DEF CountInv, AnswerFrom, Answered
<1>6. /\ Len(units) \in 1 .. Len(wire) /\ Len(wire) \in Nat
      /\ AnswerFrom(units, n, HeaderLen + Len(got))
      /\ AnswerFrom(wire', n, (HeaderLen + Len(got)) + Len(units))
      /\ Len(wire') = Len(wire) - Len(units)
  BY <1>2, <1>4, <1>5, ReceivedFrom
<1>7. AnswerFrom(got', n, HeaderLen) /\ Len(got') = Len(got) + Len(units)
  BY <1>2, <1>4, <1>5, <1>6, AnswerJoined
<1>8. /\ (HeaderLen + Len(got)) + Len(units) = HeaderLen + Len(got')
      /\ Len(got') + Len(wire') <= answers[n].sent
  BY <1>4, <1>5, <1>6, <1>7
<1>9. RestInv'
  BY <1>3, <1>4, <1>6, <1>7, <1>8 DEF RestInv, Answered
<1> QED
  BY <1>3, <1>4, <1>9 DEF OneAnswer, SilentInv, RecvInv, Answered, Good, OwnAndWhole,
                          FailsForAReason

(* Then got has the length announced, and so it is the content.            *)
LEMMA RecvLastStep ==
    ASSUME CountInv, OneAnswer, ~pieces, RecvLast
    PROVE  Good'
<1>1. /\ n' = n /\ call' = call /\ answers' = answers /\ asked' = asked
      /\ pc = "rest" /\ pc' = "idle" /\ ok' = TRUE /\ wire' = wire /\ got' = got
      /\ response.length = Len(got)
  BY DEF RecvLast, Return, Remaining
<1>2. /\ call = "getBlob" /\ Answered /\ response = answers[n]
      /\ AnswerFrom(got, n, HeaderLen) /\ AnswerFrom(wire, n, HeaderLen + Len(got))
      /\ Len(got) + Len(wire) <= answers[n].sent
  BY <1>1 DEF OneAnswer, RestInv
<1>3. /\ answers[n].sent \in Nat /\ answers[n].sent = answers[n].length /\ n \in Nat
      /\ ~IsHead(call)
  BY <1>2, AnswerLengths DEF CountInv, Answered, IsHead
<1>4. Len(wire) = 0 /\ wire \in Seq(Nat \X Nat)
  BY <1>1, <1>2, <1>3 DEF AnswerFrom
<1>5. wire = <<>>
  BY <1>4
<1>6. got = Content(n)
  <2>1. AnswerFrom(Content(n), n, HeaderLen) /\ Len(Content(n)) = answers[n].sent
    BY <1>3, UnitsOf
  <2>2. Len(got) = Len(Content(n))
    BY <1>1, <1>2, <1>3, <2>1
  <2> QED BY <1>2, <2>1, <2>2, SameAnswer
<1>7. Content(n)' = Content(n)
  BY <1>1 DEF Content, Units
<1>8. OneAnswer'
  BY <1>1, <1>2, <1>5 DEF OneAnswer, SilentInv, RecvInv, RestInv, Silent, Answered
<1> QED
  BY <1>1, <1>3, <1>6, <1>7, <1>8 DEF Good, OwnAndWhole, FailsForAReason

-----------------------------------------------------------------------------
(* The detector answers the request that is waited for, and only that.     *)
LEMMA DetectorAnswers ==
    ASSUME CountInv, OneAnswer, ~pieces, Answer
    PROVE  Good'
<1>1. asked # <<>> /\ n' = n /\ call' = call /\ pc' = pc /\ up' = up
  BY DEF Answer, caller
<1>2. pc = "recv" /\ asked = <<<<n, call>>>> /\ wire = <<>> /\ n > 0
  BY <1>1 DEF OneAnswer, SilentInv, RecvInv, RestInv, Silent, Answered, CountInv
<1>3. Head(asked)[1] = n /\ Head(asked)[2] = call /\ Tail(asked) = <<>>
  BY <1>2
<1>4. PICK a \in AnswersTo(call) :
         /\ answers' = [answers EXCEPT ![n] = a]
         /\ wire' = wire \o [k \in 1 .. HeaderLen + a.sent |-> <<n, k>>]
  BY <1>3 DEF Answer
<1>5. asked' = <<>>
  BY <1>3 DEF Answer
<1>6. answers'[n] = a /\ n \in Nat
  BY <1>2, <1>4 DEF CountInv
<1>7. a.sent \in Nat /\ HeaderLen \in Nat
  BY AnswerLengths, ConstantsAssumption
<1>8. AnswerFrom(wire', n, 0) /\ Len(wire') = HeaderLen + a.sent
  <2> DEFINE units == [k \in 1 .. HeaderLen + a.sent |-> <<n, k>>]
  <2> DEFINE len == HeaderLen + a.sent
  <2>1. len \in Nat
    BY <1>7
  <2>2. units \in Seq(Nat \X Nat) /\ Len(units) = len
    <3> HIDE DEF len
    <3>1. [k \in 1 .. len |-> <<n, k>>] \in Seq(Nat \X Nat)
          /\ Len([k \in 1 .. len |-> <<n, k>>]) = len
      BY <1>6, <2>1
    <3> QED BY <3>1 DEF len
  <2>3. \A m \in 1 .. HeaderLen + a.sent : units[m] = <<n, 0 + m>>
    OBVIOUS
  <2>4. wire' = units
    BY <1>2, <1>4, <2>2
  <2> HIDE DEF units
  <2> QED BY <2>2, <2>3, <2>4 DEF AnswerFrom
<1>9. RecvInv'
  BY <1>1, <1>2, <1>5, <1>6, <1>7, <1>8 DEF RecvInv, Answered
<1> QED
  BY <1>1, <1>2, <1>5, <1>9 DEF OneAnswer, SilentInv, RestInv, Good, OwnAndWhole,
                                FailsForAReason

(* A loss takes with it the request or the end of its answer.              *)
LEMMA CloseStep ==
    ASSUME CountInv, Good, ~pieces, Close
    PROVE  Good'
<1>1. /\ n' = n /\ call' = call /\ pc' = pc /\ answers' = answers /\ asked' = <<>>
      /\ got' = got /\ response' = response /\ pieces' = pieces /\ up' = FALSE
      /\ ok' = ok /\ refused' = refused /\ lost' = lost
  BY DEF Close, caller
<1>2. PICK j \in 0 .. Len(wire) : wire' = SubSeq(wire, 1, j)
  BY DEF Close
<1>3. wire = <<>> => wire' = <<>>
  <2> SUFFICES ASSUME wire = <<>> PROVE wire' = <<>>
    OBVIOUS
  <2> QED BY <1>2
<1>4. ASSUME NEW k \in Nat, AnswerFrom(wire, n, k), n \in Nat
      PROVE  AnswerFrom(wire', n, k) /\ Len(wire') <= Len(wire) /\ Len(wire) \in Nat
             /\ Len(wire') \in Nat
  <2>1. AnswerFrom(SubSeq(wire, 1, j), n, k) /\ Len(SubSeq(wire, 1, j)) = j
    BY <1>4, AnswerParts
  <2>2. Len(wire) \in Nat
    BY <1>4 DEF AnswerFrom
  <2> QED BY <1>2, <2>1, <2>2
<1>5. SilentInv'
  BY <1>1, <1>3 DEF Good, OneAnswer, SilentInv, Silent
<1>6. RecvInv'
  <2> SUFFICES ASSUME pc = "recv" PROVE RecvInv'
    BY <1>1 DEF RecvInv
  <2>1. CASE wire = <<>>
    BY <1>1, <1>3, <2>1 DEF Good, OneAnswer, RecvInv, Silent
  <2>2. CASE /\ Answered /\ AnswerFrom(wire, n, 0)
             /\ Len(wire) <= HeaderLen + answers[n].sent
    <3>1. n \in Nat /\ HeaderLen \in Nat /\ answers[n].sent \in Nat
      BY <2>2, AnswerLengths, ConstantsAssumption DEF CountInv, Answered
    <3>2. AnswerFrom(wire', n, 0) /\ Len(wire') <= HeaderLen + answers[n].sent
      BY <1>4, <2>2, <3>1
    <3> QED BY <1>1, <2>2, <3>2 DEF RecvInv, Answered
  <2> QED BY <2>1, <2>2 DEF Good, OneAnswer, RecvInv, Silent
<1>7. RestInv'
  <2> SUFFICES ASSUME pc = "rest" PROVE RestInv'
    BY <1>1 DEF RestInv
  <2>1. /\ call = "getBlob" /\ Answered /\ response = answers[n]
        /\ AnswerFrom(got, n, HeaderLen) /\ AnswerFrom(wire, n, HeaderLen + Len(got))
        /\ Len(got) + Len(wire) <= answers[n].sent
    BY DEF Good, OneAnswer, RestInv
  <2>2. /\ n \in Nat /\ HeaderLen \in Nat /\ answers[n].sent \in Nat
        /\ Len(got) \in Nat /\ HeaderLen + Len(got) \in Nat
    BY <2>1, AnswerLengths, ConstantsAssumption DEF CountInv, Answered, AnswerFrom
  <2>3. AnswerFrom(wire', n, HeaderLen + Len(got)) /\ Len(got) + Len(wire') <= answers[n].sent
    BY <1>4, <2>1, <2>2
  <2> QED BY <1>1, <2>1, <2>3 DEF RestInv, Answered
<1>8. OwnAndWhole'
  BY <1>1 DEF Good, OwnAndWhole, Content, Units
<1>9. FailsForAReason'
  BY <1>1 DEF Good, FailsForAReason, Accepts
<1> QED BY <1>5, <1>6, <1>7, <1>8, <1>9 DEF Good, OneAnswer

-----------------------------------------------------------------------------
(* All of it. *)
LEMMA AnswerStep == AnswerInv /\ [Next]_vars => AnswerInv'
<1> SUFFICES ASSUME AnswerInv, [Next]_vars PROVE AnswerInv'
  OBVIOUS
<1>1. CountInv /\ CountInv'
  BY CountStep DEF AnswerInv
<1>2. CASE pieces'
  BY <1>1, <1>2 DEF AnswerInv, OwnAndWhole, FailsForAReason
<1>3. CASE ~pieces'
  <2>1. ASSUME Good' PROVE AnswerInv'
    BY <1>1, <2>1 DEF AnswerInv, Good
  <2>2. CASE Connect
    BY <2>1, <2>2, ConnectStep
  <2>3. CASE ~Connect
    <3>1. ~pieces
      BY <1>1, <1>3, <2>3 DEF Next, Call, ConnectFail, Send, SendFail, RecvFail, Timeout, Recv,
         RecvFirst, RecvRest, RecvLast, Answer, Close, vars, connection, CountInv
    <3>2. OneAnswer /\ Good
      BY <3>1 DEF AnswerInv, Good
    <3>3. CASE UNCHANGED vars
      BY <3>2, <3>3, <2>1 DEF vars, connection, caller, Good, OneAnswer, SilentInv, RecvInv,
         RestInv, Silent, Answered, AnswerFrom, OwnAndWhole, FailsForAReason, Content, Units,
         Accepts
    <3>4. ~Timeout
      BY <1>3 DEF Timeout
    <3> QED
      BY <1>1, <1>3, <2>1, <2>3, <3>1, <3>2, <3>3, <3>4, CallStep, ConnectFailStep, SendStep,
         LoseStep, RecvStep, RecvFirstStep, RecvRestStep, RecvLastStep, DetectorAnswers,
         CloseStep DEF Next
  <2> QED BY <2>2, <2>3
<1> QED BY <1>1, <1>2, <1>3 DEF CountInv

(* It holds at first, when there is no connection. *)
LEMMA AnswerInvariant == Spec => []AnswerInv
<1>1. Init => AnswerInv
  <2> SUFFICES ASSUME Init PROVE AnswerInv
    OBVIOUS
  <2>1. DOMAIN answers = 1 .. n
    BY DEF Init
  <2>2. CountInv
    BY <2>1 DEF Init, CountInv
  <2>3. OneAnswer
    BY DEF Init, OneAnswer, SilentInv, RecvInv, RestInv, Silent
  <2>4. OwnAndWhole /\ FailsForAReason
    BY DEF Init, OwnAndWhole, FailsForAReason
  <2> QED BY <2>2, <2>3, <2>4 DEF AnswerInv
<1> QED BY <1>1, AnswerStep, PTL DEF Spec

(* A call that succeeds returns the content of the answer to its own last  *)
(* request, whole and in order, however many reads and connections it took *)
(* - unless an answer, or a header before a blob, came in pieces or late   *)
(* on the connection it has.                                               *)
THEOREM AnswersAreWhole == Spec => []OwnAndWhole
<1>1. AnswerInv => OwnAndWhole
  BY DEF AnswerInv
<1> QED BY <1>1, AnswerInvariant, PTL

(* A call fails only because of what the detector answered, for want of a  *)
(* connection, of time or of memory, or because it lost more connections   *)
(* than doRequest and getBlob retry: one closed between calls is no reason.*)
THEOREM FailuresHaveReasons == Spec => []FailsForAReason
<1>1. AnswerInv => FailsForAReason
  BY DEF AnswerInv
<1> QED BY <1>1, AnswerInvariant, PTL
=============================================================================
