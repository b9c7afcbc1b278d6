------------------------------ MODULE RestSockets ------------------------------
(***************************************************************************)
(* RestAPI of restApi.cpp: the threads of the driver share a small pool of *)
(* keep-alive connections to the detector's HTTP server.  doRequest (every *)
(* command and parameter) and getBlob (files and monitor images) take the  *)
(* first connection whose mutex tryLock gets, send one request and read    *)
(* one answer; a connection that fails is closed and the call made again.  *)
(*                                                                         *)
(* The server answers the requests of a connection in order, at any speed, *)
(* and may close it at any time.  An answer carries nothing that says      *)
(* which request it belongs to.                                            *)
(***************************************************************************)
EXTENDS Naturals, Sequences, FiniteSets

CONSTANTS
    Threads,            \* controlTask, the port thread, pollTask, downloadTask, ...
    BlobThreads,        \* those that call getBlob: downloadTask, monitorTask
    NumSockets,         \* mNumSockets, 5
    MAX_HTTP_RETRIES,
    MaxCalls,           \* bound on the calls of a thread
    MaxCloses           \* bound on how often the server closes a connection

ASSUME ConstantsAssumption ==
    /\ BlobThreads \subseteq Threads
    /\ {NumSockets, MaxCalls} \subseteq Nat \ {0}
    /\ {MAX_HTTP_RETRIES, MaxCloses} \subseteq Nat
    /\ "nobody" \notin Threads

Sockets == 1 .. NumSockets
Requests == Threads \X (1 .. MaxCalls)
Nobody == "nobody"      \* no thread's name
NoAnswer == <<>>

VARIABLES
    mutex,              \* who holds each socket's mutex
    closed, retries,    \* fields of socket_t
    up,                 \* is the server's end of the connection open?
    toServer, toClient, \* requests and answers on their way
    late,               \* did a request time out on the connection?
    closes,             \* connections the server has closed
    pc, calls, at, answer,  \* each thread: where it is, in which call, with
                            \* which socket, what it got
    executed, dropped   \* how often the server carried a request out, and how
                        \* often it then closed the connection unanswered

socketVars == <<closed, retries>>
connection == <<up, toServer, toClient, late>>
threadVars == <<pc, calls, at, answer>>
serverVars == <<closes, executed, dropped>>
vars == <<mutex, socketVars, connection, threadVars, serverVars>>

Init ==
    /\ mutex = [s \in Sockets |-> Nobody]
    /\ closed = [s \in Sockets |-> TRUE]
    /\ retries = [s \in Sockets |-> 0]
    /\ up = [s \in Sockets |-> FALSE]
    /\ toServer = [s \in Sockets |-> <<>>]
    /\ toClient = [s \in Sockets |-> <<>>]
    /\ late = [s \in Sockets |-> FALSE]
    /\ pc = [t \in Threads |-> "idle"]
    /\ calls = [t \in Threads |-> 0]
    /\ at = [t \in Threads |-> 1]
    /\ answer = [t \in Threads |-> NoAnswer]
    /\ closes = 0
    /\ executed = [r \in Requests |-> 0]
    /\ dropped = [r \in Requests |-> 0]

RequestOf(t) == <<t, calls[t]>>
Goto(t, point) == pc' = [pc EXCEPT ![t] = point]

-----------------------------------------------------------------------------
(* A thread in doRequest or getBlob. *)

Call(t) ==
    /\ pc[t] = "idle" /\ calls[t] < MaxCalls
    /\ calls' = [calls EXCEPT ![t] = @ + 1]
    /\ at' = [at EXCEPT ![t] = 1]
    /\ answer' = [answer EXCEPT ![t] = NoAnswer]
    /\ Goto(t, "scan")
    /\ UNCHANGED <<mutex, socketVars, connection, serverVars>>

(* The loop over mSockets, one tryLock at a time. *)
FreeOrLast(s) == mutex[s] = Nobody \/ s = NumSockets
Free(s) == mutex[s] = Nobody

TryLock(t) ==
    /\ pc[t] = "scan"
    /\ IF Free(at[t])
       THEN /\ mutex' = [mutex EXCEPT ![at[t]] = t]
            /\ Goto(t, IF closed[at[t]] THEN "connect" ELSE "send")
            /\ UNCHANGED at
       ELSE /\ UNCHANGED mutex
            /\ IF at[t] < NumSockets
               THEN at' = [at EXCEPT ![t] = @ + 1] /\ UNCHANGED pc
               ELSE Goto(t, "end") /\ UNCHANGED at     \* no available socket
    /\ UNCHANGED <<socketVars, connection, calls, answer, serverVars>>

(* A new connection.  That select finds the socket writable does not mean  *)
(* that it is connected.                                                   *)
Connect(t) ==
    /\ pc[t] = "connect"
    /\ LET s == at[t]
       IN /\ closed' = [closed EXCEPT ![s] = FALSE]
          /\ \E connected \in BOOLEAN : up' = [up EXCEPT ![s] = connected]
          /\ toServer' = [toServer EXCEPT ![s] = <<>>]
          /\ toClient' = [toClient EXCEPT ![s] = <<>>]
          /\ late' = [late EXCEPT ![s] = FALSE]
    /\ Goto(t, "send")
    /\ UNCHANGED <<mutex, retries, calls, at, answer, serverVars>>

ConnectFail(t) ==
    /\ pc[t] = "connect"
    /\ Goto(t, "end")
    /\ UNCHANGED <<mutex, socketVars, connection, calls, at, answer, serverVars>>

Send(t) ==
    /\ pc[t] = "send"
    /\ toServer' = [toServer EXCEPT ![at[t]] =
                        IF up[at[t]] THEN Append(@, RequestOf(t)) ELSE @]
    /\ Goto(t, "wait")
    /\ UNCHANGED <<mutex, socketVars, up, toClient, late, calls, at, answer,
                   serverVars>>

(* What is left of a connection that fails: a retry, or the end of the     *)
(* call.  Then only doRequest's send marks the socket closed.              *)
MayRetry(s) == retries[s] < MAX_HTTP_RETRIES

Broken(t) ==
    LET s == at[t]
    IN /\ retries' = [retries EXCEPT ![s] = @ + 1]
       /\ IF MayRetry(s)
          THEN Goto(t, "retry") /\ UNCHANGED closed
          ELSE /\ Goto(t, "end")
               /\ closed' = [closed EXCEPT ![s] =
                                @ \/ (pc[t] = "send" /\ t \notin BlobThreads)]

SendFail(t) ==
    /\ pc[t] = "send" /\ ~up[at[t]]
    /\ Broken(t)
    /\ UNCHANGED <<mutex, connection, calls, at, answer, serverVars>>

(* select: only doRequest has a timeout.  The connection is left as it is. *)
AfterTimeoutRetry == "retry"
AfterTimeout == "end"
Timeout(t) ==
    /\ pc[t] = "wait" /\ t \notin BlobThreads
    /\ up[at[t]] /\ toClient[at[t]] = <<>>
    /\ late' = [late EXCEPT ![at[t]] = TRUE]
    /\ Goto(t, AfterTimeout)
    /\ UNCHANGED <<mutex, socketVars, up, toServer, toClient, calls, at, answer,
                   serverVars>>

(* The next answer on the connection is taken for the answer to the        *)
(* request.  An answer may say that the connection is to be closed.        *)
Receive(t) ==
    LET s == at[t]
    IN /\ pc[t] = "wait" /\ toClient[s] # <<>>
       /\ answer' = [answer EXCEPT ![t] = Head(toClient[s])]
       /\ toClient' = [toClient EXCEPT ![s] = Tail(@)]
       /\ \/ /\ t \notin BlobThreads
             /\ closed' \in {closed, [closed EXCEPT ![s] = TRUE]}
             /\ Goto(t, "end")
          \/ /\ t \in BlobThreads
             /\ Goto(t, "rest")
             /\ UNCHANGED closed
       /\ UNCHANGED <<mutex, retries, up, toServer, late, calls, at, serverVars>>

(* The rest of a blob, which doRequest does not have. *)
ReceiveRest(t) ==
    /\ pc[t] = "rest"
    /\ closed' \in {closed, [closed EXCEPT ![at[t]] = TRUE]}
    /\ Goto(t, "end")
    /\ UNCHANGED <<mutex, retries, connection, calls, at, answer, serverVars>>

ReceiveFail(t) ==
    /\ \/ pc[t] = "wait" /\ toClient[at[t]] = <<>>
       \/ pc[t] = "rest"
    /\ ~up[at[t]]
    /\ Broken(t)
    /\ answer' = [answer EXCEPT ![t] = NoAnswer]
    /\ UNCHANGED <<mutex, connection, calls, at, serverVars>>

(* end: -- also for a thread that got no socket, with the last one.        *)
(* Unlocking a mutex that another thread holds has no effect.              *)
ReleasedAnyway(t, s) == Nobody
Released(t, s) == IF mutex[s] = t THEN Nobody ELSE mutex[s]

End(t) ==
    /\ pc[t] = "end"
    /\ retries' = [retries EXCEPT ![at[t]] = 0]
    /\ mutex' = [mutex EXCEPT ![at[t]] = Released(t, at[t])]
    /\ Goto(t, "idle")
    /\ UNCHANGED <<closed, connection, calls, at, answer, serverVars>>

(* retry: *)
Retry(t) ==
    /\ pc[t] = "retry"
    /\ closed' = [closed EXCEPT ![at[t]] = TRUE]
    /\ up' = [up EXCEPT ![at[t]] = FALSE]
    /\ mutex' = [mutex EXCEPT ![at[t]] = Released(t, at[t])]
    /\ at' = [at EXCEPT ![t] = 1]
    /\ Goto(t, "scan")
    /\ UNCHANGED <<retries, toServer, toClient, late, calls, answer, serverVars>>

Step(t) ==
    \/ TryLock(t) \/ Connect(t) \/ ConnectFail(t) \/ Send(t) \/ SendFail(t)
    \/ Timeout(t) \/ Receive(t) \/ ReceiveRest(t) \/ ReceiveFail(t)
    \/ End(t) \/ Retry(t)

-----------------------------------------------------------------------------
(* The server. *)

Answer(s) ==
    /\ up[s] /\ toServer[s] # <<>>
    /\ executed' = [executed EXCEPT ![Head(toServer[s])] = @ + 1]
    /\ toClient' = [toClient EXCEPT ![s] = Append(@, Head(toServer[s]))]
    /\ toServer' = [toServer EXCEPT ![s] = Tail(@)]
    /\ UNCHANGED <<mutex, socketVars, up, late, threadVars, closes, dropped>>

(* It closes the connection, possibly after it carried a request out. *)
Close(s) ==
    /\ closes < MaxCloses
    /\ closes' = closes + 1
    /\ up[s]
    /\ up' = [up EXCEPT ![s] = FALSE]
    /\ toServer' = [toServer EXCEPT ![s] = <<>>]
    /\ \/ UNCHANGED <<executed, dropped>>
       \/ /\ toServer[s] # <<>>
          /\ executed' = [executed EXCEPT ![Head(toServer[s])] = @ + 1]
          /\ dropped' = [dropped EXCEPT ![Head(toServer[s])] = @ + 1]
    /\ UNCHANGED <<mutex, socketVars, toClient, late, threadVars>>

-----------------------------------------------------------------------------
Next ==
    \/ \E t \in Threads : Call(t) \/ Step(t)
    \/ \E s \in Sockets : Answer(s) \/ Close(s)

(* A thread in a call goes on.  Nothing is assumed of the server. *)
Fairness == \A t \in Threads : WF_vars(Step(t))

Spec == Init /\ [][Next]_vars
FairSpec == Spec /\ Fairness
-----------------------------------------------------------------------------
(* Properties. *)

Using(t) == pc[t] \in {"connect", "send", "wait", "rest", "retry"}

(* A connection has one user at a time, who holds its mutex; and a mutex   *)
(* is held by nobody who is not in a call with it, so that no failure      *)
(* takes a connection out of the pool for good.                            *)
SocketsAreReturned ==
    /\ \A t \in Threads : Using(t) => mutex[at[t]] = t
    /\ \A s \in Sockets :
          mutex[s] # Nobody => at[mutex[s]] = s /\ pc[mutex[s]] \notin {"idle", "scan"}

(* A caller gets the answer to its own request, unless a request timed out *)
(* on the connection since it was made: from then on every answer that     *)
(* comes over it may be that to an earlier request.                        *)
AnswerIsOwn ==
    \A t \in Threads :
        answer[t] # NoAnswer /\ ~late[at[t]] /\ mutex[at[t]] = t
        => answer[t] = RequestOf(t)

(* The detector carries out a command (an arm, a trigger, the deletion of  *)
(* a file) a second time only if the first time it closed the connection   *)
(* instead of answering: a request that merely was not answered in time is *)
(* not sent again.                                                         *)
NotDoneTwice ==
    \A r \in Requests : r[1] \notin BlobThreads => executed[r] <= dropped[r] + 1

(* A command returns, even if the detector never answers.  (getBlob does   *)
(* not: it waits for its answer without a timeout.)                        *)
CommandsReturn ==
    \A t \in Threads \ BlobThreads : pc[t] # "idle" ~> pc[t] = "idle"
=============================================================================
