--------------------------- MODULE RestSocketsProofs ---------------------------
(***************************************************************************)
(* Theorems about RestSockets, for every number of threads, sockets, calls *)
(* and retries: the pool is used exclusively and gets every connection     *)
(* back (PoolInv); and, from that, an answer is the caller's own unless a  *)
(* request timed out, and no command is carried out twice that was not     *)
(* hung up on (TalkInv).                                                   *)
(***************************************************************************)
EXTENDS RestSockets, TLAPS

Points == {"idle", "scan", "connect", "send", "wait", "rest", "end", "retry"}

(* The part of the type invariant the argument needs. *)
PoolType ==
    /\ mutex \in [Sockets -> Threads \cup {Nobody}]
    /\ at \in [Threads -> Sockets]
    /\ pc \in [Threads -> Points]

(* SocketsAreReturned is inductive: a thread changes only the mutex of the *)
(* socket it stands at, takes it only when it is free, and gives it back   *)
(* whenever it leaves for "idle" or "scan".                                *)
PoolInv == PoolType /\ SocketsAreReturned

(* All sockets are free at first. *)
LEMMA PoolInit == Init => PoolInv
BY ConstantsAssumption
DEF Init, PoolInv, PoolType, SocketsAreReturned, Using, Points, Sockets, Nobody

(* What the scan does: it takes a free socket, tries the next, or gives up. *)
LEMMA ScanStep ==
    ASSUME PoolInv, NEW t \in Threads, Call(t) \/ TryLock(t)
    PROVE  PoolInv'
<1> USE ConstantsAssumption
    DEF PoolInv, PoolType, SocketsAreReturned, Using, Points, Sockets, Nobody, Goto
<1>1. CASE Call(t)
  BY <1>1 DEF Call
<1>2. CASE TryLock(t)
  <2> DEFINE s == at[t]
  <2>1. CASE Free(s)
    <3>1. mutex' = [mutex EXCEPT ![s] = t] /\ at' = at
      BY <1>2, <2>1 DEF TryLock
    <3>2. pc' = [pc EXCEPT ![t] = "connect"] \/ pc' = [pc EXCEPT ![t] = "send"]
      BY <1>2, <2>1 DEF TryLock
    <3>3. pc[t] = "scan" /\ s \in Sockets /\ mutex[s] = Nobody
      BY <1>2, <2>1 DEF TryLock, Free
    <3>4. PoolType'
      BY <3>1, <3>2, <3>3
    <3>5. ASSUME NEW u \in Threads, Using(u)' PROVE mutex'[at'[u]] = u
      <4>1. CASE u = t
        BY <3>1, <3>3, <4>1
      <4>2. CASE u # t
        <5>1. Using(u)
          BY <3>2, <3>5, <4>2
        <5>2. mutex[at[u]] = u /\ at[u] # s /\ at[u] \in Sockets
          BY <3>3, <5>1
        <5> QED
          BY <3>1, <5>2
      <4> QED
        BY <4>1, <4>2
    <3>6. ASSUME NEW r \in Sockets, mutex'[r] # Nobody
          PROVE  at'[mutex'[r]] = r /\ pc'[mutex'[r]] \notin {"idle", "scan"}
      <4>1. CASE r = s
        BY <3>1, <3>2, <3>3, <4>1
      <4>2. CASE r # s
        <5>1. mutex'[r] = mutex[r]
          BY <3>1, <4>2
        <5>2. mutex[r] # t
          BY <3>3, <5>1, <3>6
        <5> QED
          BY <3>1, <3>2, <3>6, <5>1, <5>2
      <4> QED
        BY <4>1, <4>2
    <3> QED
      BY <3>4, <3>5, <3>6
  <2>2. CASE ~Free(s)
    <3>1. UNCHANGED mutex /\ pc[t] = "scan"
      BY <1>2, <2>2 DEF TryLock
    <3>2. \/ at' = [at EXCEPT ![t] = @ + 1] /\ at[t] + 1 \in Sockets /\ UNCHANGED pc
          \/ pc' = [pc EXCEPT ![t] = "end"] /\ UNCHANGED at
      BY <1>2, <2>2 DEF TryLock
    <3>3. \A r \in Sockets : mutex[r] # t
      BY <3>1
    <3>4. CASE at' = [at EXCEPT ![t] = @ + 1] /\ at[t] + 1 \in Sockets /\ UNCHANGED pc
      BY <3>1, <3>3, <3>4
    <3>5. CASE pc' = [pc EXCEPT ![t] = "end"] /\ UNCHANGED at
      BY <3>1, <3>3, <3>5
    <3> QED
      BY <3>2, <3>4, <3>5
  <2> QED
    BY <2>1, <2>2
<1> QED
  BY <1>1, <1>2

(* Between the scan and the release no mutex changes. *)
LEMMA UseStep ==
    ASSUME PoolInv, NEW t \in Threads,
           \/ Connect(t) \/ ConnectFail(t) \/ Send(t) \/ SendFail(t) \/ Timeout(t)
           \/ Receive(t) \/ ReceiveRest(t) \/ ReceiveFail(t)
    PROVE  PoolInv'
<1> USE DEF PoolInv, PoolType, SocketsAreReturned, Using, Points, Goto
<1>1. CASE Connect(t) \/ ConnectFail(t)
  BY <1>1 DEF Connect, ConnectFail
<1>2. CASE Send(t) \/ Timeout(t)
  BY <1>2 DEF Send, Timeout, AfterTimeout
<1>3. CASE SendFail(t) \/ ReceiveFail(t)
  BY <1>3 DEF SendFail, ReceiveFail, Broken
<1>4. CASE Receive(t) \/ ReceiveRest(t)
  BY <1>4 DEF Receive, ReceiveRest
<1> QED
  BY <1>1, <1>2, <1>3, <1>4

(* The release, which does nothing to a mutex of another thread. *)
LEMMA ReleaseStep ==
    ASSUME PoolInv, NEW t \in Threads, End(t) \/ Retry(t)
    PROVE  PoolInv'
<1> USE ConstantsAssumption
    DEF PoolInv, PoolType, SocketsAreReturned, Using, Points, Sockets, Nobody, Goto,
        Released
<1>1. CASE End(t)
  BY <1>1 DEF End
<1>2. CASE Retry(t)
  BY <1>2 DEF Retry
<1> QED
  BY <1>1, <1>2

(* The server, and a step in which nothing happens, change none of it. *)
LEMMA OtherStep ==
    ASSUME PoolInv, (\E s \in Sockets : Answer(s) \/ Close(s)) \/ UNCHANGED vars
    PROVE  PoolInv'
BY DEF PoolInv, PoolType, SocketsAreReturned, Using, Answer, Close, threadVars, vars

(* Whatever fails, in doRequest and getBlob, in any thread: a connection   *)
(* in use is locked by its user, and a locked one is in use, so none is    *)
(* lost from the pool and none is shared.                                  *)
THEOREM PoolIsExclusive == Spec => []SocketsAreReturned
<1>1. PoolInv /\ [Next]_vars => PoolInv'
  BY ScanStep, UseStep, ReleaseStep, OtherStep DEF Next, Step
<1>2. PoolInv => SocketsAreReturned
  BY DEF PoolInv
<1> QED
  BY PoolInit, <1>1, <1>2, PTL DEF Spec
-----------------------------------------------------------------------------
(* What the threads and the server say to each other. *)

(* The values of the rest of the state. *)
TalkType ==
    /\ up \in [Sockets -> BOOLEAN] /\ late \in [Sockets -> BOOLEAN]
    /\ toServer \in [Sockets -> Seq(Requests)]
    /\ toClient \in [Sockets -> Seq(Requests)]
    /\ calls \in [Threads -> 0 .. MaxCalls]
    /\ answer \in [Threads -> Requests \cup {NoAnswer}]
    /\ executed \in [Requests -> Nat] /\ dropped \in [Requests -> Nat]

(* A thread in a call has a number for it; only a blob has a rest; what    *)
(* the server closed it does not read, and a retry follows a closure.      *)
CallInv ==
    \A t \in Threads :
        /\ pc[t] # "idle" => calls[t] > 0
        /\ pc[t] = "rest" => t \in BlobThreads
        /\ pc[t] = "retry" => ~up[at[t]]
        /\ pc[t] \in {"scan", "connect", "send", "wait", "retry"}
              => answer[t] = NoAnswer
ClosedInv == \A s \in Sockets : ~up[s] => toServer[s] = <<>>

Occurs(queue, r) == \E k \in DOMAIN queue : queue[k] = r
Single(queue, r) ==
    \A j, k \in DOMAIN queue : queue[j] = r /\ queue[k] = r => j = k

(* On a connection over which no request timed out there is at most one    *)
(* request or answer, that of the thread which waits there.                *)
Waits(s, r) == \E t \in Threads : pc[t] = "wait" /\ at[t] = s /\ r = RequestOf(t)
OwnOf(s) ==
    ~late[s] =>
        /\ Len(toServer[s]) + Len(toClient[s]) <= 1
        /\ \A r \in Requests :
              Occurs(toServer[s], r) \/ Occurs(toClient[s], r) => Waits(s, r)
OwnInv == \A s \in Sockets : OwnOf(s)

(* A command, as it is counted: while its call can still send it, it waits *)
(* nowhere and was carried out at most as often as the detector then hung  *)
(* up; once sent it is in one place.                                       *)
Due(r) == executed[r] <= dropped[r]
Awaited(r) == r[2] = calls[r[1]] /\ pc[r[1]] = "wait"
Unsent(r) ==
    \/ r[2] > calls[r[1]]
    \/ r[2] = calls[r[1]] /\ pc[r[1]] \in {"scan", "connect", "send", "retry"}
Once(r) ==
    /\ executed[r] <= dropped[r] + 1
    /\ \A s \in Sockets :
          /\ Single(toServer[s], r)
          /\ Occurs(toServer[s], r) =>
                Due(r) /\ \A u \in Sockets : Occurs(toServer[u], r) => u = s
    /\ Unsent(r) => Due(r) /\ \A s \in Sockets : ~Occurs(toServer[s], r)
    /\ Awaited(r) =>
          /\ Due(r) \/ Occurs(toClient[at[r[1]]], r)
          /\ \A s \in Sockets : Occurs(toServer[s], r) => s = at[r[1]]

OnceInv == \A r \in Requests : r[1] \notin BlobThreads => Once(r)

TalkInv ==
    PoolInv /\ TalkType /\ CallInv /\ ClosedInv /\ OwnInv /\ AnswerIsOwn
    /\ OnceInv
-----------------------------------------------------------------------------
(* A request put at the end of a queue. *)
LEMMA OccursSend ==
    ASSUME NEW q \in Seq(Requests), NEW x \in Requests
    PROVE  /\ Append(q, x) \in Seq(Requests) /\ Len(Append(q, x)) = Len(q) + 1
           /\ \A r : Occurs(Append(q, x), r) <=> (Occurs(q, r) \/ r = x)
           /\ \A r : Single(q, r) /\ (r = x => ~Occurs(q, r))
                 => Single(Append(q, x), r)
<1> DEFINE p == Append(q, x)
           n == Len(q) + 1
<1>1. /\ p \in Seq(Requests) /\ DOMAIN p = 1 .. n /\ DOMAIN q = 1 .. n - 1
      /\ Len(p) = n
      /\ n \in Nat \ {0} /\ p[n] = x /\ \A k \in 1 .. n - 1 : p[k] = q[k]
  OBVIOUS
<1> HIDE DEF p, n
<1>2. \A k \in 1 .. n : k = n \/ k \in 1 .. n - 1
  BY <1>1
<1>3. \A k \in 1 .. n - 1 : k \in 1 .. n
  BY <1>1
<1>4. n \in 1 .. n
  BY <1>1
<1>5. \A r : Occurs(p, r) <=> (Occurs(q, r) \/ r = x)
  BY <1>1, <1>2, <1>3, <1>4 DEF Occurs
<1>6. ASSUME NEW r, Single(q, r), r = x => ~Occurs(q, r) PROVE Single(p, r)
  BY <1>1, <1>2, <1>6 DEF Single, Occurs
<1> QED
  BY <1>1, <1>5, <1>6 DEF p, n

(* The first request of a queue taken from it. *)
LEMMA OccursTake ==
    ASSUME NEW q \in Seq(Requests), q # <<>>
    PROVE  /\ Head(q) \in Requests /\ Tail(q) \in Seq(Requests)
           /\ Len(Tail(q)) = Len(q) - 1
           /\ Len(q) > 0
           /\ \A r : Occurs(q, r) <=> (Occurs(Tail(q), r) \/ r = Head(q))
           /\ \A r : Single(q, r)
                 => Single(Tail(q), r) /\ (r = Head(q) => ~Occurs(Tail(q), r))
<1> DEFINE p == Tail(q)
           n == Len(q)
<1>1. /\ p \in Seq(Requests) /\ DOMAIN p = 1 .. n - 1 /\ DOMAIN q = 1 .. n
      /\ Len(p) = n - 1
      /\ n \in Nat \ {0} /\ Head(q) = q[1] /\ Head(q) \in Requests
      /\ \A k \in 1 .. n - 1 : p[k] = q[k + 1]
  OBVIOUS
<1> HIDE DEF p, n
<1>2. ASSUME NEW k \in 1 .. n, k # 1 PROVE k - 1 \in 1 .. n - 1 /\ p[k - 1] = q[k]
  <2>1. k - 1 \in 1 .. n - 1 /\ (k - 1) + 1 = k
    BY <1>1, <1>2
  <2> QED
    BY <1>1, <2>1
<1>3. ASSUME NEW k \in 1 .. n - 1
      PROVE  k + 1 \in 1 .. n /\ k + 1 # 1 /\ q[k + 1] = p[k]
  BY <1>1
<1>4. 1 \in 1 .. n
  BY <1>1
<1>5. ASSUME NEW r PROVE Occurs(q, r) <=> (Occurs(p, r) \/ r = Head(q))
  <2>1. Occurs(q, r) => Occurs(p, r) \/ r = Head(q)
    BY <1>1, <1>2 DEF Occurs
  <2>2. Occurs(p, r) => Occurs(q, r)
    BY <1>1, <1>3 DEF Occurs
  <2>3. r = Head(q) => Occurs(q, r)
    BY <1>1, <1>4 DEF Occurs
  <2> QED
    BY <2>1, <2>2, <2>3
<1>6. ASSUME NEW r, Single(q, r)
      PROVE  Single(p, r) /\ (r = Head(q) => ~Occurs(p, r))
  <2>1. ASSUME NEW j \in 1 .. n - 1, NEW k \in 1 .. n - 1, p[j] = r, p[k] = r
        PROVE  j = k
    <3>1. j + 1 = k + 1
      BY <1>1, <1>3, <1>6, <2>1 DEF Single
    <3> QED
      BY <3>1
  <2>2. ASSUME r = q[1], NEW k \in 1 .. n - 1, p[k] = r PROVE FALSE
    BY <1>1, <1>3, <1>4, <1>6, <2>2 DEF Single
  <2> QED
    BY <1>1, <2>1, <2>2 DEF Occurs, Single
<1> QED
  BY <1>1, <1>5, <1>6 DEF p, n

(* Nothing is in an empty queue. *)
LEMMA OccursNothing == \A r : ~Occurs(<<>>, r) /\ Single(<<>>, r)
BY DEF Occurs, Single

(* At first nothing is on its way. *)
LEMMA TalkInit == Init => TalkInv
<1> SUFFICES ASSUME Init PROVE TalkInv
  OBVIOUS
<1>0. \A t \in Threads : pc[t] = "idle" /\ answer[t] = NoAnswer
  BY DEF Init
<1>1. TalkType
  BY ConstantsAssumption DEF Init, TalkType, ConstantsAssumption
<1>2. CallInv /\ ClosedInv /\ AnswerIsOwn
  BY <1>0 DEF Init, CallInv, ClosedInv, AnswerIsOwn
<1>3. OwnInv
  BY OccursNothing DEF Init, OwnInv, OwnOf
<1>4. OnceInv
  BY <1>0, OccursNothing DEF Init, OnceInv, Once, Due, Awaited, Unsent, Requests
<1> QED
  BY PoolInit, <1>1, <1>2, <1>3, <1>4 DEF TalkInv

(* The types an argument about one thread needs, and whose a socket is. *)
LEMMA Numbers ==
    ASSUME TalkInv, NEW t \in Threads
    PROVE  /\ MaxCalls \in Nat \ {0} /\ Nobody \notin Threads /\ at[t] \in Sockets
           /\ pc[t] # "idle" => RequestOf(t) \in Requests
           /\ calls[t] \in 0 .. MaxCalls /\ answer[t] \in Requests \cup {NoAnswer}
           /\ \A u \in Threads : Using(u) => mutex[at[u]] = u
           /\ \A s \in Sockets : mutex[s] # Nobody => /\ mutex[s] \in Threads
                 /\ at[mutex[s]] = s /\ pc[mutex[s]] \notin {"idle", "scan"}
BY ConstantsAssumption
DEF ConstantsAssumption, TalkInv, PoolInv, PoolType, SocketsAreReturned, TalkType,
    CallInv, Requests, RequestOf, Nobody

(* What a thread does changes no connection but the one it stands at, and  *)
(* leaves that one's user alone unless it is the user.                     *)
LEMMA OwnKept ==
    ASSUME TalkInv, NEW t \in Threads, NEW c \in Sockets,
           pc[t] # "wait" \/ at[t] # c,
           \A u \in Threads \ {t} :
               pc'[u] = pc[u] /\ at'[u] = at[u] /\ calls'[u] = calls[u],
           toServer'[c] = toServer[c], toClient'[c] = toClient[c], late'[c] =
               late[c]
    PROVE  OwnOf(c)'
<1>1. OwnOf(c)
  BY DEF TalkInv, OwnInv
<1>2. ASSUME NEW r, Waits(c, r) PROVE Waits(c, r)'
  BY <1>2 DEF Waits, RequestOf
<1> QED
  BY <1>1, <1>2 DEF OwnOf

(* A user that does not wait has the connection empty. *)
LEMMA OwnAlone ==
    ASSUME TalkInv, NEW t \in Threads, Using(t), pc[t] # "wait", ~late[at[t]]
    PROVE  toServer[at[t]] = <<>> /\ toClient[at[t]] = <<>>
<1>1. at[t] \in Sockets /\ OwnOf(at[t])
  BY DEF TalkInv, OwnInv, PoolInv, PoolType
<1>2. ASSUME NEW r PROVE ~Waits(at[t], r)
  BY DEF Waits, TalkInv, PoolInv, SocketsAreReturned, Using
<1>3. toServer[at[t]] \in Seq(Requests) /\ toClient[at[t]] \in Seq(Requests)
  BY <1>1 DEF TalkInv, TalkType
<1>4. ASSUME NEW q \in Seq(Requests), q # <<>>
      PROVE  \E r \in Requests : Occurs(q, r)
  <2>1. 1 \in DOMAIN q /\ q[1] \in Requests
    BY <1>4
  <2> QED
    BY <2>1 DEF Occurs
<1> QED
  BY <1>1, <1>2, <1>3, <1>4 DEF OwnOf

(* A new call has a new request, sent nowhere yet. *)
LEMMA CallTalk ==
    ASSUME TalkInv, PoolInv', NEW t \in Threads, Call(t)
    PROVE  TalkInv'
<1>1. /\ UNCHANGED <<mutex, up, toServer, toClient, late, executed, dropped>>
      /\ pc[t] = "idle" /\ pc' = [pc EXCEPT ![t] = "scan"]
      /\ calls' = [calls EXCEPT ![t] = @ + 1] /\ calls[t] < MaxCalls
      /\ at' = [at EXCEPT ![t] = 1] /\ answer' = [answer EXCEPT ![t] = NoAnswer]
  BY DEF Call, Goto, serverVars, connection, socketVars
<1>3. TalkType'
  <2>1. calls' \in [Threads -> 0 .. MaxCalls]
    BY <1>1, Numbers DEF TalkInv, TalkType
  <2>2. answer' \in [Threads -> Requests \cup {NoAnswer}]
    BY <1>1 DEF TalkInv, TalkType
  <2> QED
    BY <1>1, <2>1, <2>2 DEF TalkInv, TalkType
<1>4. CallInv'
  BY <1>1, Numbers
  DEF TalkInv, PoolInv, PoolType, TalkType, CallInv, Using, Requests, NoAnswer
<1>5. ClosedInv'
  BY <1>1, Numbers DEF TalkInv, PoolInv, PoolType, TalkType, ClosedInv, CallInv
<1>6. OwnInv'
  <2> SUFFICES ASSUME NEW c \in Sockets PROVE OwnOf(c)'
    BY DEF OwnInv
  <2> QED
    BY <1>1, OwnKept DEF TalkInv, PoolInv, PoolType, TalkType
<1>7. AnswerIsOwn'
  BY <1>1, Numbers
  DEF TalkInv, PoolInv, PoolType, TalkType, AnswerIsOwn, CallInv, RequestOf,
      Using, OwnInv
<1>8. OnceInv'
  <2> SUFFICES ASSUME NEW r \in Requests, r[1] \notin BlobThreads PROVE Once(r)'
    BY DEF OnceInv
  <2>1. Once(r) /\ r[1] \in Threads /\ r[2] \in Nat /\ r = <<r[1], r[2]>>
    BY DEF TalkInv, OnceInv, Requests
  <2> QED
    BY <1>1, Numbers, <2>1, OccursNothing
    DEF TalkInv, PoolInv, PoolType, TalkType, CallInv, ClosedInv, Once, Due,
        Unsent, Awaited, RequestOf, Using
<1> QED
  BY <1>3, <1>4, <1>5, <1>6, <1>7, <1>8 DEF TalkInv

(* The scan touches no connection and no request. *)
LEMMA TryLockTalk ==
    ASSUME TalkInv, PoolInv', NEW t \in Threads, TryLock(t)
    PROVE  TalkInv'
<1>1. /\ UNCHANGED <<up, toServer, toClient, late, calls, answer, executed,
                     dropped>>
      /\ pc[t] = "scan"
      /\ \/ mutex' = [mutex EXCEPT ![at[t]] = t] /\ mutex[at[t]] = Nobody
            /\ at' = at
            /\ \E p \in {"connect", "send"} : pc' = [pc EXCEPT ![t] = p]
         \/ mutex' = mutex /\ pc' = [pc EXCEPT ![t] = "end"] /\ at' = at
         \/ mutex' = mutex /\ pc' = pc /\ at' = [at EXCEPT ![t] = @ + 1]
  BY DEF TryLock, Goto, serverVars, connection, socketVars, Free
<1>3. TalkType'
  BY <1>1, Numbers DEF TalkInv, PoolInv, PoolType, TalkType, Requests
<1>4. CallInv'
  <2> SUFFICES ASSUME NEW u \in Threads
               PROVE  /\ pc'[u] # "idle" => calls'[u] > 0
                      /\ pc'[u] = "rest" => u \in BlobThreads
                      /\ pc'[u] = "retry" => ~up'[at'[u]]
                      /\ pc'[u] \in {"scan", "connect", "send", "wait", "retry"}
                            => answer'[u] = NoAnswer
    BY DEF CallInv
  <2>1. CASE u = t
    BY <1>1, Numbers, <2>1 DEF TalkInv, PoolInv, PoolType, TalkType, CallInv
  <2>2. CASE u # t
    BY <1>1, Numbers, <2>2 DEF TalkInv, PoolInv, PoolType, TalkType, CallInv
  <2> QED
    BY <2>1, <2>2
<1>5. ClosedInv'
  BY <1>1, Numbers DEF TalkInv, PoolInv, PoolType, TalkType, ClosedInv, CallInv
<1>6. OwnInv'
  <2> SUFFICES ASSUME NEW c \in Sockets PROVE OwnOf(c)'
    BY DEF OwnInv
  <2> QED
    BY <1>1, OwnKept DEF TalkInv, PoolInv, PoolType, TalkType
<1>7. AnswerIsOwn'
  <2> SUFFICES ASSUME NEW u \in Threads, answer'[u] # NoAnswer, ~late'[at'[u]],
                      mutex'[at'[u]] = u
               PROVE  answer'[u] = RequestOf(u)'
    BY DEF AnswerIsOwn
  <2>1. u # t
    BY <1>1, Numbers DEF TalkInv, PoolInv, PoolType, CallInv, Released
  <2>2. mutex[at[u]] = u /\ at'[u] = at[u]
    BY <1>1, <2>1, Numbers DEF TalkInv, PoolInv, PoolType, Released
  <2> QED
    BY <1>1, <2>1, <2>2 DEF TalkInv, AnswerIsOwn, RequestOf
<1>8. OnceInv'
  <2> SUFFICES ASSUME NEW r \in Requests, r[1] \notin BlobThreads PROVE Once(r)'
    BY DEF OnceInv
  <2>1. Once(r) /\ r[1] \in Threads /\ r[2] \in Nat /\ r = <<r[1], r[2]>>
    BY DEF TalkInv, OnceInv, Requests
  <2>2. Unsent(r)' => Unsent(r)
    BY <1>1, <2>1, Numbers DEF Unsent, TalkInv, PoolInv, PoolType
  <2>3. Awaited(r)' => Awaited(r) /\ at'[r[1]] = at[r[1]]
    BY <1>1, <2>1, Numbers DEF Awaited, TalkInv, PoolInv, PoolType
  <2> QED
    BY <1>1, <2>1, <2>2, <2>3 DEF Once, Due
<1> QED
  BY <1>3, <1>4, <1>5, <1>6, <1>7, <1>8 DEF TalkInv

(* A new connection is empty; whose answer was lost there is in no call. *)
LEMMA ConnectTalk ==
    ASSUME TalkInv, PoolInv', NEW t \in Threads, Connect(t)
    PROVE  TalkInv'
<1>1. /\ UNCHANGED <<mutex, calls, at, answer, executed, dropped>>
      /\ pc[t] = "connect" /\ pc' = [pc EXCEPT ![t] = "send"]
      /\ \E b \in BOOLEAN : up' = [up EXCEPT ![at[t]] = b]
      /\ toServer' = [toServer EXCEPT ![at[t]] = <<>>]
      /\ toClient' = [toClient EXCEPT ![at[t]] = <<>>]
      /\ late' = [late EXCEPT ![at[t]] = FALSE]
  BY DEF Connect, Goto, serverVars
<1>3. TalkType'
  <2>1. at[t] \in Sockets /\ <<>> \in Seq(Requests)
    BY Numbers
  <2>2. up' \in [Sockets -> BOOLEAN] /\ late' \in [Sockets -> BOOLEAN]
    BY <1>1, <2>1 DEF TalkInv, TalkType
  <2>3. toServer' \in [Sockets -> Seq(Requests)]
        /\ toClient' \in [Sockets -> Seq(Requests)]
    BY <1>1, <2>1 DEF TalkInv, TalkType
  <2> QED
    BY <1>1, <2>2, <2>3 DEF TalkInv, TalkType
<1>4. CallInv'
  BY <1>1, Numbers
  DEF TalkInv, PoolInv, PoolType, TalkType, CallInv, Using, Requests, NoAnswer
<1>5. ClosedInv'
  BY <1>1, Numbers DEF TalkInv, PoolInv, PoolType, TalkType, ClosedInv, CallInv
<1>6. OwnInv'
  <2> SUFFICES ASSUME NEW c \in Sockets PROVE OwnOf(c)'
    BY DEF OwnInv
  <2>1. CASE c # at[t]
    BY <1>1, <2>1, OwnKept DEF TalkInv, PoolInv, PoolType, TalkType
  <2>2. CASE c = at[t]
    BY <1>1, <2>2, OccursNothing DEF OwnOf, TalkInv, TalkType
  <2> QED
    BY <2>1, <2>2
<1>7. AnswerIsOwn'
  <2> SUFFICES ASSUME NEW u \in Threads, answer'[u] # NoAnswer, ~late'[at'[u]],
                      mutex'[at'[u]] = u
               PROVE  answer'[u] = RequestOf(u)'
    BY DEF AnswerIsOwn
  <2>1. u # t /\ at[u] # at[t]
    BY <1>1, Numbers DEF TalkInv, CallInv, Using
  <2> QED
    BY <1>1, <2>1 DEF TalkInv, PoolInv, PoolType, TalkType, AnswerIsOwn, RequestOf
<1>8. OnceInv'
  <2> SUFFICES ASSUME NEW r \in Requests, r[1] \notin BlobThreads PROVE Once(r)'
    BY DEF OnceInv
  <2>1. Once(r) /\ r[1] \in Threads /\ r[2] \in Nat /\ r = <<r[1], r[2]>>
    BY DEF TalkInv, OnceInv, Requests
  <2>2. Unsent(r)' => Unsent(r)
    BY <1>1, <2>1 DEF Unsent, TalkInv, PoolInv, PoolType
  <2>3. Awaited(r)' => Awaited(r) /\ at[r[1]] # at[t]
    BY <1>1, <2>1, Numbers DEF Awaited, Using, TalkInv, PoolInv, PoolType
  <2>4. ASSUME NEW c \in Sockets
        PROVE  /\ Single(toServer[c], r) => Single(toServer'[c], r)
               /\ Occurs(toServer'[c], r) => Occurs(toServer[c], r)
               /\ c # at[t] => toClient'[c] = toClient[c]
    BY <1>1, OccursNothing DEF TalkInv, TalkType
  <2>5. at[r[1]] \in Sockets
    BY <2>1, Numbers
  <2> QED
    BY <1>1, <2>1, <2>2, <2>3, <2>4, <2>5 DEF Once, Due
<1> QED
  BY <1>3, <1>4, <1>5, <1>6, <1>7, <1>8 DEF TalkInv

(* No connection: the call ends, its command was never sent. *)
LEMMA ConnectFailTalk ==
    ASSUME TalkInv, PoolInv', NEW t \in Threads, ConnectFail(t)
    PROVE  TalkInv'
<1>1. /\ UNCHANGED <<mutex, up, toServer, toClient, late, calls, at, answer,
                     executed, dropped>>
      /\ pc[t] = "connect" /\ pc' = [pc EXCEPT ![t] = "end"]
  BY DEF ConnectFail, Goto, serverVars, connection, socketVars
<1>3. TalkType'
  BY <1>1, Numbers DEF TalkInv, PoolInv, PoolType, TalkType, Requests
<1>4. CallInv'
  BY <1>1, Numbers
  DEF TalkInv, PoolInv, PoolType, TalkType, CallInv, Using, Requests, NoAnswer
<1>5. ClosedInv'
  BY <1>1, Numbers DEF TalkInv, PoolInv, PoolType, TalkType, ClosedInv, CallInv
<1>6. OwnInv'
  <2> SUFFICES ASSUME NEW c \in Sockets PROVE OwnOf(c)'
    BY DEF OwnInv
  <2> QED
    BY <1>1, OwnKept DEF TalkInv, PoolInv, PoolType, TalkType
<1>7. AnswerIsOwn'
  BY <1>1, Numbers
  DEF TalkInv, PoolInv, PoolType, TalkType, AnswerIsOwn, CallInv, RequestOf,
      Using, OwnInv
<1>8. OnceInv'
  <2> SUFFICES ASSUME NEW r \in Requests, r[1] \notin BlobThreads PROVE Once(r)'
    BY DEF OnceInv
  <2>1. Once(r) /\ r[1] \in Threads /\ r[2] \in Nat /\ r = <<r[1], r[2]>>
    BY DEF TalkInv, OnceInv, Requests
  <2> QED
    BY <1>1, Numbers, <2>1, OccursNothing
    DEF TalkInv, PoolInv, PoolType, TalkType, CallInv, ClosedInv, Once, Due,
        Unsent, Awaited, RequestOf, Using
<1> QED
  BY <1>3, <1>4, <1>5, <1>6, <1>7, <1>8 DEF TalkInv

(* The request goes out once, over a connection with nothing left on it. *)
LEMMA SendTalk ==
    ASSUME TalkInv, PoolInv', NEW t \in Threads, Send(t)
    PROVE  TalkInv'
<1>1. /\ UNCHANGED <<mutex, up, toClient, late, calls, at, answer, executed,
                     dropped>>
      /\ pc[t] = "send" /\ pc' = [pc EXCEPT ![t] = "wait"]
      /\ toServer' = [toServer EXCEPT ![at[t]] =
            IF up[at[t]] THEN Append(@, RequestOf(t)) ELSE @]
  BY DEF Send, Goto, serverVars, socketVars
<1>2. /\ RequestOf(t) \in Requests /\ at[t] \in Sockets
      /\ toServer[at[t]] \in Seq(Requests)
      /\ toServer'[at[t]] \in Seq(Requests)
      /\ up[at[t]] => /\ toServer'[at[t]] = Append(toServer[at[t]], RequestOf(t))
                       /\ Len(toServer'[at[t]]) = Len(toServer[at[t]]) + 1
      /\ ~up[at[t]] => toServer'[at[t]] = toServer[at[t]]
      /\ toServer' = [toServer EXCEPT ![at[t]] = toServer'[at[t]]]
  <2>1. /\ RequestOf(t) \in Requests /\ at[t] \in Sockets
        /\ toServer \in [Sockets -> Seq(Requests)] /\ toServer[at[t]] \in Seq(Requests)
    BY <1>1, Numbers DEF TalkInv, TalkType, PoolInv, PoolType
  <2>2. toServer'[at[t]] = IF up[at[t]] THEN Append(toServer[at[t]], RequestOf(t))
                                        ELSE toServer[at[t]]
    BY <1>1, <2>1
  <2>3. /\ Append(toServer[at[t]], RequestOf(t)) \in Seq(Requests)
        /\ Len(Append(toServer[at[t]], RequestOf(t))) = Len(toServer[at[t]]) + 1
    BY <2>1, OccursSend
  <2>4. toServer' = [toServer EXCEPT ![at[t]] = toServer'[at[t]]]
    BY <1>1, <2>1, <2>2
  <2> QED
    BY <2>1, <2>2, <2>3, <2>4
<1>9. /\ \A r : Occurs(toServer'[at[t]], r)
            <=> (Occurs(toServer[at[t]], r) \/ (up[at[t]] /\ r = RequestOf(t)))
      /\ \A r :
            Single(toServer[at[t]], r)
            /\ (r = RequestOf(t) => ~Occurs(toServer[at[t]], r))
               => Single(toServer'[at[t]], r)
  <2>1. CASE up[at[t]]
    <3>1. toServer'[at[t]] = Append(toServer[at[t]], RequestOf(t))
      BY <1>2, <2>1
    <3>2. /\ \A r : Occurs(toServer'[at[t]], r)
                <=> (Occurs(toServer[at[t]], r) \/ r = RequestOf(t))
          /\ \A r :
                Single(toServer[at[t]], r)
                /\ (r = RequestOf(t) => ~Occurs(toServer[at[t]], r))
                   => Single(toServer'[at[t]], r)
      BY <1>2, <3>1, OccursSend
    <3> QED
      BY <2>1, <3>2
  <2>2. CASE ~up[at[t]]
    BY <1>2, <2>2
  <2> QED
    BY <2>1, <2>2
<1>3. TalkType'
  BY <1>1, <1>2 DEF TalkInv, TalkType
<1>4. CallInv'
  BY <1>1, <1>2, <1>9, Numbers
  DEF TalkInv, PoolInv, PoolType, TalkType, CallInv, Using, Requests, NoAnswer
<1>5. ClosedInv'
  BY <1>1, <1>2, <1>9, Numbers
  DEF TalkInv, PoolInv, PoolType, TalkType, ClosedInv, CallInv
<1>6. OwnInv'
  <2> SUFFICES ASSUME NEW c \in Sockets PROVE OwnOf(c)'
    BY DEF OwnInv
  <2>1. CASE c # at[t]
    BY <1>1, <2>1, OwnKept DEF TalkInv, PoolInv, PoolType, TalkType
  <2>2. CASE c = at[t]
    <3> SUFFICES ASSUME ~late[c] PROVE OwnOf(c)'
      BY <1>1 DEF OwnOf
    <3>1. toServer[c] = <<>> /\ toClient[c] = <<>>
      BY <1>1, <2>2, OwnAlone DEF Using
    <3>2. Len(toServer'[c]) + Len(toClient'[c]) <= 1
      BY <1>1, <1>2, <2>2, <3>1 DEF TalkInv, TalkType
    <3>3. ASSUME NEW r, Occurs(toServer'[c], r) \/ Occurs(toClient'[c], r)
          PROVE  r = RequestOf(t)
      BY <1>1, <1>9, <2>2, <3>1, <3>3, OccursNothing
    <3>4. Waits(c, RequestOf(t))'
      BY <1>1, <2>2 DEF Waits, TalkInv, PoolInv, PoolType, RequestOf
    <3>5. RequestOf(t)' = RequestOf(t)
      BY <1>1 DEF RequestOf
    <3> QED
      BY <3>2, <3>3, <3>4, <3>5 DEF OwnOf
  <2> QED
    BY <2>1, <2>2
<1>7. AnswerIsOwn'
  BY <1>1, <1>2, <1>9, Numbers
  DEF TalkInv, PoolInv, PoolType, TalkType, AnswerIsOwn, CallInv, RequestOf,
      Using, OwnInv
<1>8. OnceInv'
  <2> SUFFICES ASSUME NEW r \in Requests, r[1] \notin BlobThreads PROVE Once(r)'
    BY DEF OnceInv
  <2>1. Once(r) /\ r[1] \in Threads /\ r[2] \in Nat /\ r = <<r[1], r[2]>>
    BY DEF TalkInv, OnceInv, Requests
  <2>4. ASSUME NEW c \in Sockets, c # at[t] PROVE toServer'[c] = toServer[c]
    BY <1>2, <2>4 DEF TalkInv, TalkType
  <2>2. CASE r = RequestOf(t)
    <3>1. Unsent(r) /\ ~Unsent(r)' /\ r[1] = t
      BY <1>1, <2>2, Numbers DEF Unsent, RequestOf, TalkInv, PoolInv, PoolType
    <3>2. Due(r)' /\ \A c \in Sockets : ~Occurs(toServer[c], r)
      BY <1>1, <2>1, <3>1 DEF Once, Due
    <3>3. \A c \in Sockets : c # at[t] => ~Occurs(toServer'[c], r)
      BY <2>4, <3>2
    <3>4. \A c \in Sockets : Single(toServer'[c], r)
      BY <1>2, <1>9, <2>1, <2>4, <3>2 DEF Once
    <3> QED
      BY <1>1, <2>1, <3>1, <3>2, <3>3, <3>4 DEF Once
  <2>3. CASE r # RequestOf(t)
    <3>1. (Unsent(r)' => Unsent(r)) /\ (Awaited(r)' => Awaited(r))
      BY <1>1, <2>1, <2>3
      DEF Unsent, Awaited, RequestOf, TalkInv, PoolInv, PoolType
    <3>2. \A c \in Sockets : /\ Occurs(toServer'[c], r) => Occurs(toServer[c], r)
                             /\ Single(toServer[c], r) => Single(toServer'[c], r)
      BY <1>9, <2>3, <2>4
    <3> QED
      BY <1>1, <2>1, <3>1, <3>2 DEF Once, Due
  <2> QED
    BY <2>2, <2>3
<1> QED
  BY <1>3, <1>4, <1>5, <1>6, <1>7, <1>8 DEF TalkInv

(* A request that was not sent may be sent by a retry. *)
LEMMA SendFailTalk ==
    ASSUME TalkInv, PoolInv', NEW t \in Threads, SendFail(t)
    PROVE  TalkInv'
<1>1. /\ UNCHANGED <<mutex, up, toServer, toClient, late, calls, at, answer,
                     executed, dropped>>
      /\ pc[t] = "send" /\ ~up[at[t]]
      /\ \E p \in {"retry", "end"} : pc' = [pc EXCEPT ![t] = p]
  BY DEF SendFail, Goto, serverVars, connection, Broken
<1>3. TalkType'
  BY <1>1, Numbers DEF TalkInv, PoolInv, PoolType, TalkType, Requests
<1>4. CallInv'
  <2>1. \A u \in Threads \ {t} :
            /\ pc'[u] = pc[u] /\ answer'[u] = answer[u]
            /\ calls'[u] = calls[u] /\ at'[u] = at[u]
    BY <1>1 DEF TalkInv, PoolInv, PoolType, TalkType
  <2>2. /\ pc'[t] \in {"retry", "end"} /\ answer'[t] = answer[t] /\ at'[t] = at[t]
        /\ calls'[t] = calls[t] /\ calls[t] > 0 /\ answer[t] = NoAnswer
    BY <1>1 DEF TalkInv, PoolInv, PoolType, CallInv
  <2> QED
    BY <1>1, <2>1, <2>2 DEF TalkInv, CallInv
<1>5. ClosedInv'
  BY <1>1, Numbers DEF TalkInv, PoolInv, PoolType, TalkType, ClosedInv, CallInv
<1>6. OwnInv'
  <2> SUFFICES ASSUME NEW c \in Sockets PROVE OwnOf(c)'
    BY DEF OwnInv
  <2> QED
    BY <1>1, OwnKept DEF TalkInv, PoolInv, PoolType, TalkType
<1>7. AnswerIsOwn'
  BY <1>1, Numbers
  DEF TalkInv, PoolInv, PoolType, TalkType, AnswerIsOwn, CallInv, RequestOf,
      Using, OwnInv
<1>8. OnceInv'
  <2> SUFFICES ASSUME NEW r \in Requests, r[1] \notin BlobThreads PROVE Once(r)'
    BY DEF OnceInv
  <2>1. Once(r) /\ r[1] \in Threads /\ r[2] \in Nat /\ r = <<r[1], r[2]>>
    BY DEF TalkInv, OnceInv, Requests
  <2> QED
    BY <1>1, Numbers, <2>1, OccursNothing
    DEF TalkInv, PoolInv, PoolType, TalkType, CallInv, ClosedInv, Once, Due,
        Unsent, Awaited, RequestOf, Using
<1> QED
  BY <1>3, <1>4, <1>5, <1>6, <1>7, <1>8 DEF TalkInv

(* A request is not sent again after its timeout. *)
LEMMA TimeoutTalk ==
    ASSUME TalkInv, PoolInv', NEW t \in Threads, Timeout(t)
    PROVE  TalkInv'
<1>1. /\ UNCHANGED <<mutex, up, toServer, toClient, calls, at, answer, executed,
                     dropped>>
      /\ pc[t] = "wait" /\ pc' = [pc EXCEPT ![t] = "end"]
      /\ late' = [late EXCEPT ![at[t]] = TRUE]
  BY DEF Timeout, Goto, serverVars, socketVars, AfterTimeout
<1>3. TalkType'
  BY <1>1, Numbers DEF TalkInv, PoolInv, PoolType, TalkType, Requests
<1>4. CallInv'
  BY <1>1, Numbers
  DEF TalkInv, PoolInv, PoolType, TalkType, CallInv, Using, Requests, NoAnswer
<1>5. ClosedInv'
  BY <1>1, Numbers DEF TalkInv, PoolInv, PoolType, TalkType, ClosedInv, CallInv
<1>6. OwnInv'
  <2> SUFFICES ASSUME NEW c \in Sockets PROVE OwnOf(c)'
    BY DEF OwnInv
  <2>1. CASE c # at[t]
    BY <1>1, <2>1, OwnKept DEF TalkInv, PoolInv, PoolType, TalkType
  <2>2. CASE c = at[t]
    BY <1>1, <2>2 DEF OwnOf, TalkInv, TalkType
  <2> QED
    BY <2>1, <2>2
<1>7. AnswerIsOwn'
  BY <1>1, Numbers
  DEF TalkInv, PoolInv, PoolType, TalkType, AnswerIsOwn, CallInv, RequestOf,
      Using, OwnInv
<1>8. OnceInv'
  <2> SUFFICES ASSUME NEW r \in Requests, r[1] \notin BlobThreads PROVE Once(r)'
    BY DEF OnceInv
  <2>1. Once(r) /\ r[1] \in Threads /\ r[2] \in Nat /\ r = <<r[1], r[2]>>
    BY DEF TalkInv, OnceInv, Requests
  <2> QED
    BY <1>1, Numbers, <2>1, OccursNothing
    DEF TalkInv, PoolInv, PoolType, TalkType, CallInv, ClosedInv, Once, Due,
        Unsent, Awaited, RequestOf, Using
<1> QED
  BY <1>3, <1>4, <1>5, <1>6, <1>7, <1>8 DEF TalkInv

(* The first answer of a connection without a timeout is that to its       *)
(* request.                                                                *)
LEMMA ReceiveTalk ==
    ASSUME TalkInv, PoolInv', NEW t \in Threads, Receive(t)
    PROVE  TalkInv'
<1>1. /\ UNCHANGED <<mutex, up, toServer, late, calls, at, executed, dropped>>
      /\ pc[t] = "wait" /\ toClient[at[t]] # <<>>
      /\ answer' = [answer EXCEPT ![t] = Head(toClient[at[t]])]
      /\ toClient' = [toClient EXCEPT ![at[t]] = Tail(@)]
      /\ \E p \in {"rest", "end"} :
            pc' = [pc EXCEPT ![t] = p] /\ (p = "rest" => t \in BlobThreads)
  BY DEF Receive, Goto, serverVars
<1>2. /\ at[t] \in Sockets /\ toClient[at[t]] \in Seq(Requests)
      /\ toClient'[at[t]] = Tail(toClient[at[t]])
      /\ toClient'[at[t]] \in Seq(Requests)
      /\ Head(toClient[at[t]]) \in Requests
      /\ Len(toClient'[at[t]]) = Len(toClient[at[t]]) - 1
      /\ \A r : Occurs(toClient[at[t]], r)
            <=> (Occurs(toClient'[at[t]], r) \/ r = Head(toClient[at[t]]))
  BY <1>1, Numbers, OccursTake DEF TalkInv, TalkType, PoolInv, PoolType
<1>9. toClient' = [toClient EXCEPT ![at[t]] = toClient'[at[t]]]
  BY <1>1, <1>2 DEF TalkInv, TalkType
<1>3. TalkType'
  <2>1. answer' \in [Threads -> Requests \cup {NoAnswer}]
    BY <1>1, <1>2 DEF TalkInv, TalkType
  <2>2. toClient' \in [Sockets -> Seq(Requests)]
    BY <1>2, <1>9 DEF TalkInv, TalkType
  <2> QED
    BY <1>1, <2>1, <2>2 DEF TalkInv, TalkType
<1>4. CallInv'
  <2>1. \A u \in Threads \ {t} :
            /\ pc'[u] = pc[u] /\ answer'[u] = answer[u]
            /\ calls'[u] = calls[u] /\ at'[u] = at[u]
    BY <1>1 DEF TalkInv, PoolInv, PoolType, TalkType
  <2>2. /\ pc'[t] \in {"rest", "end"} /\ (pc'[t] = "rest" => t \in BlobThreads)
        /\ calls'[t] = calls[t] /\ calls[t] > 0
    BY <1>1 DEF TalkInv, PoolInv, PoolType, CallInv
  <2> QED
    BY <1>1, <2>1, <2>2 DEF TalkInv, CallInv
<1>5. ClosedInv'
  BY <1>1, <1>2, <1>9, Numbers
  DEF TalkInv, PoolInv, PoolType, TalkType, ClosedInv, CallInv
<1>6. OwnInv'
  <2> SUFFICES ASSUME NEW c \in Sockets PROVE OwnOf(c)'
    BY DEF OwnInv
  <2>1. CASE c # at[t]
    BY <1>1, <2>1, OwnKept DEF TalkInv, PoolInv, PoolType, TalkType
  <2>2. CASE c = at[t]
    <3> SUFFICES ASSUME ~late[c] PROVE OwnOf(c)'
      BY <1>1 DEF OwnOf
    <3>1. OwnOf(c) /\ toServer[c] \in Seq(Requests)
      BY DEF TalkInv, TalkType, OwnInv
    <3>2. Len(toServer[c]) \in Nat /\ Len(toClient'[c]) \in Nat
          /\ Len(toClient[c]) \in Nat
      BY <1>2, <2>2, <3>1
    <3>6. Len(toServer[c]) + Len(toClient[c]) <= 1
      BY <3>1 DEF OwnOf
    <3>7. Len(toClient'[c]) = Len(toClient[c]) - 1
      BY <1>2, <2>2
    <3>4. Len(toServer[c]) = 0 /\ Len(toClient'[c]) = 0
      <4> DEFINE a == Len(toServer[c])
                 b == Len(toClient[c])
                 d == Len(toServer'[c])
                 e == Len(toClient'[c])
      <4>1. a \in Nat /\ b \in Nat /\ e \in Nat /\ a + b <= 1 /\ e = b - 1
        BY <3>2, <3>6, <3>7
      <4> HIDE DEF a, b, d, e
      <4>2. a = 0 /\ e = 0
        BY <4>1
      <4> QED
        BY <4>2 DEF a, e
    <3>5. ASSUME NEW p \in Seq(Requests), Len(p) = 0 PROVE p = <<>>
      BY <3>5
    <3>3. toServer'[c] = <<>> /\ toClient'[c] = <<>>
      BY <1>1, <1>2, <2>2, <3>1, <3>4, <3>5
    <3> QED
      BY <3>3, OccursNothing DEF OwnOf
  <2> QED
    BY <2>1, <2>2
<1>7. AnswerIsOwn'
  <2> SUFFICES ASSUME NEW u \in Threads, answer'[u] # NoAnswer, ~late'[at'[u]],
                      mutex'[at'[u]] = u
               PROVE  answer'[u] = RequestOf(u)'
    BY DEF AnswerIsOwn
  <2>1. CASE u = t
    <3>1. OwnOf(at[t]) /\ ~late[at[t]]
          /\ Occurs(toClient[at[t]], Head(toClient[at[t]]))
      BY <1>1, <1>2, <2>1 DEF TalkInv, OwnInv
    <3>2. Waits(at[t], Head(toClient[at[t]]))
      BY <1>2, <3>1 DEF OwnOf
    <3>3. ASSUME NEW w \in Threads, pc[w] = "wait", at[w] = at[t] PROVE w = t
      BY <1>1, <3>3, Numbers DEF Using
    <3>4. Head(toClient[at[t]]) = RequestOf(t)
      BY <3>2, <3>3 DEF Waits
    <3> QED
      BY <1>1, <2>1, <3>4 DEF RequestOf, TalkInv, TalkType
  <2>2. CASE u # t
    BY <1>1, <2>2 DEF TalkInv, PoolInv, PoolType, TalkType, AnswerIsOwn, RequestOf
  <2> QED
    BY <2>1, <2>2
<1>8. OnceInv'
  <2> SUFFICES ASSUME NEW r \in Requests, r[1] \notin BlobThreads PROVE Once(r)'
    BY DEF OnceInv
  <2>1. Once(r) /\ r[1] \in Threads /\ r[2] \in Nat /\ r = <<r[1], r[2]>>
    BY DEF TalkInv, OnceInv, Requests
  <2>2. Unsent(r)' => Unsent(r)
    BY <1>1, <2>1 DEF Unsent, TalkInv, PoolInv, PoolType
  <2>3. Awaited(r)' => Awaited(r) /\ at[r[1]] # at[t]
    BY <1>1, <2>1, Numbers DEF Awaited, Using, TalkInv, PoolInv, PoolType
  <2>4. ASSUME NEW c \in Sockets, c # at[t] PROVE toClient'[c] = toClient[c]
    BY <1>1, <2>4 DEF TalkInv, TalkType
  <2>5. at[r[1]] \in Sockets
    BY <2>1, Numbers
  <2> QED
    BY <1>1, <2>1, <2>2, <2>3, <2>4, <2>5 DEF Once, Due
<1> QED
  BY <1>3, <1>4, <1>5, <1>6, <1>7, <1>8 DEF TalkInv

(* The rest of a blob ends the call. *)
LEMMA ReceiveRestTalk ==
    ASSUME TalkInv, PoolInv', NEW t \in Threads, ReceiveRest(t)
    PROVE  TalkInv'
<1>1. /\ UNCHANGED <<mutex, up, toServer, toClient, late, calls, at, answer,
                     executed, dropped>>
      /\ pc[t] = "rest" /\ pc' = [pc EXCEPT ![t] = "end"]
  BY DEF ReceiveRest, Goto, serverVars, connection
<1>3. TalkType'
  BY <1>1, Numbers DEF TalkInv, PoolInv, PoolType, TalkType, Requests
<1>4. CallInv'
  BY <1>1, Numbers
  DEF TalkInv, PoolInv, PoolType, TalkType, CallInv, Using, Requests, NoAnswer
<1>5. ClosedInv'
  BY <1>1, Numbers DEF TalkInv, PoolInv, PoolType, TalkType, ClosedInv, CallInv
<1>6. OwnInv'
  <2> SUFFICES ASSUME NEW c \in Sockets PROVE OwnOf(c)'
    BY DEF OwnInv
  <2> QED
    BY <1>1, OwnKept DEF TalkInv, PoolInv, PoolType, TalkType
<1>7. AnswerIsOwn'
  BY <1>1, Numbers
  DEF TalkInv, PoolInv, PoolType, TalkType, AnswerIsOwn, CallInv, RequestOf,
      Using, OwnInv
<1>8. OnceInv'
  <2> SUFFICES ASSUME NEW r \in Requests, r[1] \notin BlobThreads PROVE Once(r)'
    BY DEF OnceInv
  <2>1. Once(r) /\ r[1] \in Threads /\ r[2] \in Nat /\ r = <<r[1], r[2]>>
    BY DEF TalkInv, OnceInv, Requests
  <2> QED
    BY <1>1, Numbers, <2>1, OccursNothing
    DEF TalkInv, PoolInv, PoolType, TalkType, CallInv, ClosedInv, Once, Due,
        Unsent, Awaited, RequestOf, Using
<1> QED
  BY <1>3, <1>4, <1>5, <1>6, <1>7, <1>8 DEF TalkInv

(* The server closed the connection: what was on it is gone, so a retry is *)
(* the only copy.                                                          *)
LEMMA ReceiveFailTalk ==
    ASSUME TalkInv, PoolInv', NEW t \in Threads, ReceiveFail(t)
    PROVE  TalkInv'
<1>1. /\ UNCHANGED <<mutex, up, toServer, toClient, late, calls, at, executed,
                     dropped>>
      /\ \/ pc[t] = "wait" /\ toClient[at[t]] = <<>>
         \/ pc[t] = "rest"
      /\ ~up[at[t]] /\ answer' = [answer EXCEPT ![t] = NoAnswer]
      /\ \E p \in {"retry", "end"} : pc' = [pc EXCEPT ![t] = p]
  BY DEF ReceiveFail, Goto, serverVars, connection, Broken
<1>3. TalkType'
  BY <1>1, Numbers DEF TalkInv, PoolInv, PoolType, TalkType, Requests
<1>4. CallInv'
  <2> SUFFICES ASSUME NEW u \in Threads
               PROVE  /\ pc'[u] # "idle" => calls'[u] > 0
                      /\ pc'[u] = "rest" => u \in BlobThreads
                      /\ pc'[u] = "retry" => ~up'[at'[u]]
                      /\ pc'[u] \in {"scan", "connect", "send", "wait", "retry"}
                            => answer'[u] = NoAnswer
    BY DEF CallInv
  <2>1. CASE u = t
    BY <1>1, Numbers, <2>1 DEF TalkInv, PoolInv, PoolType, TalkType, CallInv
  <2>2. CASE u # t
    BY <1>1, Numbers, <2>2 DEF TalkInv, PoolInv, PoolType, TalkType, CallInv
  <2> QED
    BY <2>1, <2>2
<1>5. ClosedInv'
  BY <1>1, Numbers DEF TalkInv, PoolInv, PoolType, TalkType, ClosedInv, CallInv
<1>6. OwnInv'
  <2> SUFFICES ASSUME NEW c \in Sockets PROVE OwnOf(c)'
    BY DEF OwnInv
  <2>1. CASE pc[t] # "wait" \/ c # at[t]
    BY <1>1, <2>1, OwnKept DEF TalkInv, PoolInv, PoolType, TalkType
  <2>2. CASE pc[t] = "wait" /\ c = at[t]
    <3>1. toServer'[c] = <<>> /\ toClient'[c] = <<>>
      BY <1>1, <2>2, Numbers DEF TalkInv, ClosedInv
    <3> QED
      BY <3>1, OccursNothing DEF OwnOf
  <2> QED
    BY <2>1, <2>2
<1>7. AnswerIsOwn'
  BY <1>1, Numbers
  DEF TalkInv, PoolInv, PoolType, TalkType, AnswerIsOwn, CallInv, RequestOf,
      Using, OwnInv
<1>8. OnceInv'
  <2> SUFFICES ASSUME NEW r \in Requests, r[1] \notin BlobThreads PROVE Once(r)'
    BY DEF OnceInv
  <2>1. Once(r) /\ r[1] \in Threads /\ r[2] \in Nat /\ r = <<r[1], r[2]>>
    BY DEF TalkInv, OnceInv, Requests
  <2> QED
    BY <1>1, Numbers, <2>1, OccursNothing
    DEF TalkInv, PoolInv, PoolType, TalkType, CallInv, ClosedInv, Once, Due,
        Unsent, Awaited, RequestOf, Using
<1> QED
  BY <1>3, <1>4, <1>5, <1>6, <1>7, <1>8 DEF TalkInv

(* The end of a call: the command is not sent any more. *)
LEMMA EndTalk ==
    ASSUME TalkInv, PoolInv', NEW t \in Threads, End(t)
    PROVE  TalkInv'
<1>1. /\ UNCHANGED <<up, toServer, toClient, late, calls, at, answer, executed,
                     dropped>>
      /\ pc[t] = "end" /\ pc' = [pc EXCEPT ![t] = "idle"]
      /\ mutex' = [mutex EXCEPT ![at[t]] = Released(t, at[t])]
  BY DEF End, Goto, serverVars, connection
<1>3. TalkType'
  BY <1>1, Numbers DEF TalkInv, PoolInv, PoolType, TalkType, Requests
<1>4. CallInv'
  BY <1>1, Numbers
  DEF TalkInv, PoolInv, PoolType, TalkType, CallInv, Using, Requests, NoAnswer
<1>5. ClosedInv'
  BY <1>1, Numbers DEF TalkInv, PoolInv, PoolType, TalkType, ClosedInv, CallInv
<1>6. OwnInv'
  <2> SUFFICES ASSUME NEW c \in Sockets PROVE OwnOf(c)'
    BY DEF OwnInv
  <2> QED
    BY <1>1, OwnKept DEF TalkInv, PoolInv, PoolType, TalkType
<1>7. AnswerIsOwn'
  <2> SUFFICES ASSUME NEW u \in Threads, answer'[u] # NoAnswer, ~late'[at'[u]],
                      mutex'[at'[u]] = u
               PROVE  answer'[u] = RequestOf(u)'
    BY DEF AnswerIsOwn
  <2>1. u # t
    BY <1>1, Numbers DEF TalkInv, PoolInv, PoolType, CallInv, Released
  <2>2. mutex[at[u]] = u /\ at'[u] = at[u]
    BY <1>1, <2>1, Numbers DEF TalkInv, PoolInv, PoolType, Released
  <2> QED
    BY <1>1, <2>1, <2>2 DEF TalkInv, AnswerIsOwn, RequestOf
<1>8. OnceInv'
  <2> SUFFICES ASSUME NEW r \in Requests, r[1] \notin BlobThreads PROVE Once(r)'
    BY DEF OnceInv
  <2>1. Once(r) /\ r[1] \in Threads /\ r[2] \in Nat /\ r = <<r[1], r[2]>>
    BY DEF TalkInv, OnceInv, Requests
  <2> QED
    BY <1>1, Numbers, <2>1, OccursNothing
    DEF TalkInv, PoolInv, PoolType, TalkType, CallInv, ClosedInv, Once, Due,
        Unsent, Awaited, RequestOf, Using
<1> QED
  BY <1>3, <1>4, <1>5, <1>6, <1>7, <1>8 DEF TalkInv

(* A retry starts over with the same request, which is nowhere. *)
LEMMA RetryTalk ==
    ASSUME TalkInv, PoolInv', NEW t \in Threads, Retry(t)
    PROVE  TalkInv'
<1>1. /\ UNCHANGED <<toServer, toClient, late, calls, answer, executed, dropped>>
      /\ pc[t] = "retry" /\ pc' = [pc EXCEPT ![t] = "scan"]
      /\ up' = [up EXCEPT ![at[t]] = FALSE] /\ at' = [at EXCEPT ![t] = 1]
      /\ mutex' = [mutex EXCEPT ![at[t]] = Released(t, at[t])]
  BY DEF Retry, Goto, serverVars
<1>3. TalkType'
  BY <1>1, Numbers DEF TalkInv, PoolInv, PoolType, TalkType, Requests
<1>4. CallInv'
  BY <1>1, Numbers
  DEF TalkInv, PoolInv, PoolType, TalkType, CallInv, Using, Requests, NoAnswer
<1>5. ClosedInv'
  BY <1>1, Numbers DEF TalkInv, PoolInv, PoolType, TalkType, ClosedInv, CallInv
<1>6. OwnInv'
  <2> SUFFICES ASSUME NEW c \in Sockets PROVE OwnOf(c)'
    BY DEF OwnInv
  <2> QED
    BY <1>1, OwnKept DEF TalkInv, PoolInv, PoolType, TalkType
<1>7. AnswerIsOwn'
  <2> SUFFICES ASSUME NEW u \in Threads, answer'[u] # NoAnswer, ~late'[at'[u]],
                      mutex'[at'[u]] = u
               PROVE  answer'[u] = RequestOf(u)'
    BY DEF AnswerIsOwn
  <2>1. u # t
    BY <1>1, Numbers DEF TalkInv, PoolInv, PoolType, CallInv, Released
  <2>2. mutex[at[u]] = u /\ at'[u] = at[u]
    BY <1>1, <2>1, Numbers DEF TalkInv, PoolInv, PoolType, Released
  <2> QED
    BY <1>1, <2>1, <2>2 DEF TalkInv, AnswerIsOwn, RequestOf
<1>8. OnceInv'
  <2> SUFFICES ASSUME NEW r \in Requests, r[1] \notin BlobThreads PROVE Once(r)'
    BY DEF OnceInv
  <2>1. Once(r) /\ r[1] \in Threads /\ r[2] \in Nat /\ r = <<r[1], r[2]>>
    BY DEF TalkInv, OnceInv, Requests
  <2> QED
    BY <1>1, Numbers, <2>1, OccursNothing
    DEF TalkInv, PoolInv, PoolType, TalkType, CallInv, ClosedInv, Once, Due,
        Unsent, Awaited, RequestOf, Using
<1> QED
  BY <1>3, <1>4, <1>5, <1>6, <1>7, <1>8 DEF TalkInv

(* The server carries out the one copy of a command. *)
LEMMA AnswerTalk ==
    ASSUME TalkInv, PoolInv', NEW s \in Sockets, Answer(s)
    PROVE  TalkInv'
<1>1. /\ UNCHANGED <<mutex, up, late, pc, calls, at, answer, dropped>>
      /\ up[s] /\ toServer[s] # <<>>
      /\ executed' = [executed EXCEPT ![Head(toServer[s])] = @ + 1]
      /\ toClient' = [toClient EXCEPT ![s] = Append(@, Head(toServer[s]))]
      /\ toServer' = [toServer EXCEPT ![s] = Tail(@)]
  BY DEF Answer, threadVars, socketVars
<1> DEFINE q == toServer[s]
           x == Head(q)
<1>2. /\ q \in Seq(Requests) /\ q # <<>> /\ toClient[s] \in Seq(Requests)
      /\ toServer'[s] = Tail(q) /\ toClient'[s] = Append(toClient[s], x)
      /\ toServer'[s] \in Seq(Requests) /\ toClient'[s] \in Seq(Requests)
      /\ x \in Requests /\ Len(toServer'[s]) = Len(q) - 1
      /\ Len(toClient'[s]) = Len(toClient[s]) + 1
      /\ toServer' = [toServer EXCEPT ![s] = toServer'[s]]
      /\ toClient' = [toClient EXCEPT ![s] = toClient'[s]]
  BY <1>1, OccursTake, OccursSend DEF TalkInv, TalkType
<1>9. /\ \A r : Occurs(q, r) <=> (Occurs(toServer'[s], r) \/ r = x)
      /\ \A r : Occurs(toClient'[s], r) <=> (Occurs(toClient[s], r) \/ r = x)
      /\ \A r : Single(q, r)
            => Single(toServer'[s], r) /\ (r = x => ~Occurs(toServer'[s], r))
  BY <1>2, OccursTake, OccursSend
<1>10. executed' = [executed EXCEPT ![x] = executed[x] + 1]
  BY <1>1
<1>11. q = toServer[s]
  OBVIOUS
<1> HIDE DEF q, x
<1>3. TalkType'
  <2>1. toClient' \in [Sockets -> Seq(Requests)]
        /\ toServer' \in [Sockets -> Seq(Requests)]
    BY <1>2 DEF TalkInv, TalkType
  <2>2. executed' \in [Requests -> Nat]
    BY <1>2, <1>10 DEF TalkInv, TalkType
  <2> QED
    BY <1>1, <2>1, <2>2 DEF TalkInv, TalkType
<1>4. CallInv'
  BY <1>1, <1>2, <1>9, <1>10, <1>11
  DEF TalkInv, PoolInv, PoolType, TalkType, CallInv, Using, Requests, NoAnswer
<1>5. ClosedInv'
  BY <1>1, <1>2, <1>9, <1>10, <1>11
  DEF TalkInv, PoolInv, PoolType, TalkType, ClosedInv, CallInv
<1>6. OwnInv'
  <2> SUFFICES ASSUME NEW c \in Sockets PROVE OwnOf(c)'
    BY DEF OwnInv
  <2>1. OwnOf(c) /\ (\A r : Waits(c, r)' <=> Waits(c, r))
    BY <1>1 DEF TalkInv, OwnInv, Waits, RequestOf
  <2>2. CASE c = s
    <3> SUFFICES ASSUME ~late[c] PROVE OwnOf(c)'
      BY <1>1 DEF OwnOf
    <3>3. Len(q) \in Nat /\ Len(toClient[s]) \in Nat
      BY <1>2
    <3>4. Len(toServer[s]) + Len(toClient[s]) <= 1
      BY <2>1, <2>2 DEF OwnOf
    <3>5. Len(toServer'[c]) = Len(toServer[c]) - 1
          /\ Len(toClient'[c]) = Len(toClient[c]) + 1
      BY <1>2, <1>11, <2>2
    <3>1. Len(toServer'[c]) + Len(toClient'[c]) <= 1
      <4> DEFINE a == Len(toServer[c])
                 b == Len(toClient[c])
                 d == Len(toServer'[c])
                 e == Len(toClient'[c])
      <4>1. a \in Nat /\ b \in Nat /\ a + b <= 1 /\ d = a - 1 /\ e = b + 1
        BY <1>11, <2>2, <3>3, <3>4, <3>5
      <4> HIDE DEF a, b, d, e
      <4>2. d + e <= 1
        BY <4>1
      <4> QED
        BY <4>2 DEF d, e
    <3>2. ASSUME NEW r, Occurs(toServer'[c], r) \/ Occurs(toClient'[c], r)
          PROVE  Occurs(toServer[c], r) \/ Occurs(toClient[c], r)
      BY <1>9, <1>11, <2>2, <3>2
    <3> QED
      BY <2>1, <3>1, <3>2 DEF OwnOf
  <2>3. CASE c # s
    <3>1. toServer'[c] = toServer[c] /\ toClient'[c] = toClient[c]
          /\ late'[c] = late[c]
      BY <1>1, <1>2, <2>3 DEF TalkInv, TalkType
    <3> QED
      BY <2>1, <3>1 DEF OwnOf
  <2> QED
    BY <2>2, <2>3
<1>7. AnswerIsOwn'
  BY <1>1, <1>2, <1>9, <1>10, <1>11
  DEF TalkInv, PoolInv, PoolType, TalkType, AnswerIsOwn, CallInv, RequestOf,
      Using, OwnInv
<1>8. OnceInv'
  <2> SUFFICES ASSUME NEW r \in Requests, r[1] \notin BlobThreads PROVE Once(r)'
    BY DEF OnceInv
  <2>1. Once(r) /\ r[1] \in Threads /\ r[2] \in Nat /\ r = <<r[1], r[2]>>
    BY DEF TalkInv, OnceInv, Requests
  <2>4. ASSUME NEW c \in Sockets, c # s
        PROVE  toServer'[c] = toServer[c] /\ toClient'[c] = toClient[c]
    BY <1>2, <2>4 DEF TalkInv, TalkType
  <2>5. (Unsent(r)' <=> Unsent(r)) /\ (Awaited(r)' <=> Awaited(r))
    BY <1>1 DEF Unsent, Awaited
  <2>6. ASSUME NEW c \in Sockets
        PROVE  /\ Single(toServer[c], r) => Single(toServer'[c], r)
               /\ Occurs(toServer'[c], r) => Occurs(toServer[c], r)
               /\ Occurs(toClient[c], r) => Occurs(toClient'[c], r)
    BY <1>9, <1>11, <2>4
  <2>7. Awaited(r) => at[r[1]] \in Sockets
    BY <2>1 DEF TalkInv, PoolInv, PoolType
  <2>2. CASE r = x
    <3>1. Occurs(toServer[s], r)
      BY <1>9, <1>11, <2>2
    <3>2. Due(r) /\ ~Unsent(r) /\ Single(toServer[s], r)
          /\ \A u \in Sockets : Occurs(toServer[u], r) => u = s
      BY <2>1, <3>1 DEF Once
    <3>3. executed'[r] <= dropped'[r] + 1
      <4>1. executed[r] \in Nat /\ dropped[r] \in Nat /\ executed[r] <= dropped[r]
        BY <3>2 DEF Due, TalkInv, TalkType
      <4>2. executed'[r] = executed[r] + 1 /\ dropped'[r] = dropped[r]
        BY <1>1, <1>10, <2>2 DEF TalkInv, TalkType
      <4> QED
        BY <4>1, <4>2
    <3>4. \A c \in Sockets : ~Occurs(toServer'[c], r)
      BY <1>9, <1>11, <2>2, <2>6, <3>2
    <3>5. Awaited(r) => Occurs(toClient'[at[r[1]]], r)
      BY <1>9, <2>1, <2>2, <2>7, <3>1 DEF Once
    <3> QED
      BY <1>1, <2>1, <2>5, <2>6, <3>2, <3>3, <3>4, <3>5 DEF Once
  <2>3. CASE r # x
    <3>1. executed'[r] = executed[r] /\ dropped'[r] = dropped[r]
      BY <1>1, <1>2, <1>10, <2>3 DEF TalkInv, TalkType
    <3> QED
      BY <1>1, <2>1, <2>5, <2>6, <2>7, <3>1 DEF Once, Due
  <2> QED
    BY <2>2, <2>3
<1> QED
  BY <1>3, <1>4, <1>5, <1>6, <1>7, <1>8 DEF TalkInv

(* The server hangs up, perhaps after it carried a command out. *)
LEMMA CloseTalk ==
    ASSUME TalkInv, PoolInv', NEW s \in Sockets, Close(s)
    PROVE  TalkInv'
<1>1. /\ UNCHANGED <<mutex, toClient, late, pc, calls, at, answer>>
      /\ up' = [up EXCEPT ![s] = FALSE]
      /\ toServer' = [toServer EXCEPT ![s] = <<>>]
      /\ \/ UNCHANGED <<executed, dropped>>
         \/ /\ toServer[s] # <<>>
            /\ executed' = [executed EXCEPT ![Head(toServer[s])] = @ + 1]
            /\ dropped' = [dropped EXCEPT ![Head(toServer[s])] = @ + 1]
  BY DEF Close, threadVars, socketVars
<1>2. toServer[s] # <<>> => Head(toServer[s]) \in Requests
  BY <1>1, OccursTake DEF TalkInv, TalkType
<1>3. TalkType'
  <2>1. executed' \in [Requests -> Nat] /\ dropped' \in [Requests -> Nat]
    <3> executed \in [Requests -> Nat] /\ dropped \in [Requests -> Nat]
      BY DEF TalkInv, TalkType
    <3>1. CASE UNCHANGED <<executed, dropped>>
      BY <3>1
    <3>2. CASE ~UNCHANGED <<executed, dropped>>
      <4> DEFINE x == Head(toServer[s])
      <4>1. /\ executed' = [executed EXCEPT ![x] = @ + 1]
            /\ dropped' = [dropped EXCEPT ![x] = @ + 1]
            /\ x \in Requests
        BY <1>1, <1>2, <3>2
      <4> HIDE DEF x
      <4> QED
        BY <4>1
    <3> QED
      BY <3>1, <3>2
  <2>2. toServer' \in [Sockets -> Seq(Requests)]
    BY <1>1 DEF TalkInv, TalkType
  <2> QED
    BY <1>1, <2>1, <2>2 DEF TalkInv, TalkType
<1>4. CallInv'
  BY <1>1, <1>2
  DEF TalkInv, PoolInv, PoolType, TalkType, CallInv, Using, Requests, NoAnswer
<1>5. ClosedInv'
  BY <1>1, <1>2 DEF TalkInv, PoolInv, PoolType, TalkType, ClosedInv, CallInv
<1>6. OwnInv'
  <2> SUFFICES ASSUME NEW c \in Sockets PROVE OwnOf(c)'
    BY DEF OwnInv
  <2>1. OwnOf(c) /\ (\A r : Waits(c, r)' <=> Waits(c, r))
    BY <1>1 DEF TalkInv, OwnInv, Waits, RequestOf
  <2>2. CASE c = s
    <3>1. toServer'[c] = <<>> /\ toClient'[c] = toClient[c] /\ late'[c] = late[c]
      BY <1>1, <2>2 DEF TalkInv, TalkType
    <3>2. Len(toServer[c]) \in Nat /\ Len(toClient[c]) \in Nat
      BY DEF TalkInv, TalkType
    <3>4. Len(toServer'[c]) = 0 /\ Len(toClient'[c]) = Len(toClient[c])
      BY <3>1
    <3>5. ~late[c] => Len(toServer[c]) + Len(toClient[c]) <= 1
      BY <2>1 DEF OwnOf
    <3>3. ~late[c] => Len(toServer'[c]) + Len(toClient'[c]) <= 1
      <4> DEFINE a == Len(toServer[c])
                 b == Len(toClient[c])
                 d == Len(toServer'[c])
                 e == Len(toClient'[c])
      <4>1. a \in Nat /\ b \in Nat /\ (~late[c] => a + b <= 1) /\ d = 0 /\ e = b
        BY <3>2, <3>4, <3>5
      <4> HIDE DEF a, b, d, e
      <4>2. ~late[c] => d + e <= 1
        BY <4>1
      <4> QED
        BY <4>2 DEF d, e
    <3> QED
      BY <2>1, <3>1, <3>3, OccursNothing DEF OwnOf
  <2>3. CASE c # s
    <3>1. toServer'[c] = toServer[c] /\ toClient'[c] = toClient[c]
          /\ late'[c] = late[c]
      BY <1>1, <2>3 DEF TalkInv, TalkType
    <3> QED
      BY <2>1, <3>1 DEF OwnOf
  <2> QED
    BY <2>2, <2>3
<1>7. AnswerIsOwn'
  BY <1>1, <1>2
  DEF TalkInv, PoolInv, PoolType, TalkType, AnswerIsOwn, CallInv, RequestOf,
      Using, OwnInv
<1>8. OnceInv'
  <2> SUFFICES ASSUME NEW r \in Requests, r[1] \notin BlobThreads PROVE Once(r)'
    BY DEF OnceInv
  <2>1. Once(r) /\ r[1] \in Threads /\ r[2] \in Nat /\ r = <<r[1], r[2]>>
    BY DEF TalkInv, OnceInv, Requests
  <2>2. ASSUME NEW c \in Sockets
        PROVE  /\ Single(toServer[c], r) => Single(toServer'[c], r)
               /\ Occurs(toServer'[c], r) => Occurs(toServer[c], r)
    BY <1>1, OccursNothing DEF TalkInv, TalkType
  <2>3. (Unsent(r)' <=> Unsent(r)) /\ (Awaited(r)' <=> Awaited(r))
    BY <1>1 DEF Unsent, Awaited
  <2>4. (executed[r] <= dropped[r] + 1 => executed'[r] <= dropped'[r] + 1) /\ (Due(r)' <=> Due(r))
    <3>1. CASE UNCHANGED <<executed, dropped>>
      BY <3>1 DEF Due
    <3>2. CASE ~UNCHANGED <<executed, dropped>>
      <4>1. \/ executed'[r] = executed[r] /\ dropped'[r] = dropped[r]
            \/ executed'[r] = executed[r] + 1 /\ dropped'[r] = dropped[r] + 1
        BY <1>1, <1>2, <3>2 DEF TalkInv, TalkType
      <4>2. executed[r] \in Nat /\ dropped[r] \in Nat
        BY DEF TalkInv, TalkType
      <4> QED
        BY <4>1, <4>2 DEF Due
    <3> QED
      BY <3>1, <3>2
  <2> QED
    BY <1>1, <2>1, <2>2, <2>3, <2>4 DEF Once
<1> QED
  BY <1>3, <1>4, <1>5, <1>6, <1>7, <1>8 DEF TalkInv

(* A step in which nothing happens. *)
LEMMA TalkStutters ==
    ASSUME TalkInv, UNCHANGED vars
    PROVE  TalkInv'
<1>1. PoolInv'
  BY OtherStep DEF TalkInv
<1>2. UNCHANGED <<mutex, up, toServer, toClient, late, pc, calls, at, answer,
                  executed, dropped>>
  BY DEF vars, connection, threadVars, serverVars
<1>3. TalkType' /\ CallInv' /\ ClosedInv'
  BY <1>2 DEF TalkInv, TalkType, CallInv, ClosedInv
<1>4. OwnInv' /\ AnswerIsOwn'
  BY <1>2 DEF TalkInv, OwnInv, OwnOf, Waits, Occurs, RequestOf, AnswerIsOwn
<1>5. OnceInv'
  BY <1>2 DEF TalkInv, OnceInv, Once, Due, Unsent, Awaited, Occurs, Single
<1> QED
  BY <1>1, <1>3, <1>4, <1>5 DEF TalkInv

(* Every step of a thread or of the server keeps the invariant. *)
LEMMA TalkStep ==
    ASSUME TalkInv, [Next]_vars
    PROVE  TalkInv'
<1>1. PoolInv'
  BY ScanStep, UseStep, ReleaseStep, OtherStep DEF TalkInv, Next, Step
<1>2. CASE UNCHANGED vars
  BY <1>2, TalkStutters
<1>3. CASE \E t \in Threads : Call(t) \/ Step(t)
  <2> PICK t \in Threads : Call(t) \/ Step(t)
    BY <1>3
  <2>1. CASE Call(t) \/ TryLock(t) \/ Connect(t) \/ ConnectFail(t)
    BY <1>1, <2>1, CallTalk, TryLockTalk, ConnectTalk, ConnectFailTalk
  <2>2. CASE Send(t) \/ SendFail(t) \/ Timeout(t)
    BY <1>1, <2>2, SendTalk, SendFailTalk, TimeoutTalk
  <2>3. CASE Receive(t) \/ ReceiveRest(t) \/ ReceiveFail(t)
    BY <1>1, <2>3, ReceiveTalk, ReceiveRestTalk, ReceiveFailTalk
  <2>4. CASE End(t) \/ Retry(t)
    BY <1>1, <2>4, EndTalk, RetryTalk
  <2> QED
    BY <2>1, <2>2, <2>3, <2>4 DEF Step
<1>4. CASE \E s \in Sockets : Answer(s) \/ Close(s)
  BY <1>1, <1>4, AnswerTalk, CloseTalk
<1> QED
  BY <1>2, <1>3, <1>4 DEF Next

(* doRequest and getBlob take the next answer of a connection for that to  *)
(* their own request, which nothing in it confirms: it is, as long as no   *)
(* request timed out on the connection since it was opened.                *)
THEOREM AnswersAreOwn == Spec => []AnswerIsOwn
<1>1. TalkInv => AnswerIsOwn
  BY DEF TalkInv
<1>2. TalkInv /\ [Next]_vars => TalkInv'
  BY TalkStep
<1> QED
  BY TalkInit, <1>1, <1>2, PTL DEF Spec

(* The retries of doRequest: a command is carried out again only as often  *)
(* as the detector closed a connection after carrying it out.              *)
THEOREM CommandsOnce == Spec => []NotDoneTwice
<1>1. TalkInv => NotDoneTwice
  BY DEF TalkInv, OnceInv, Once, NotDoneTwice
<1>2. TalkInv /\ [Next]_vars => TalkInv'
  BY TalkStep
<1> QED
  BY TalkInit, <1>1, <1>2, PTL DEF Spec
=============================================================================
