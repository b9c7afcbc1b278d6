------------------------------ MODULE ParamCache ------------------------------
(***************************************************************************)
(* EigerParam and EigerParamSet of eigerParam.cpp: the asyn parameters of  *)
(* the driver are a cache of the detector's parameters.  put converts and  *)
(* limits a value, writes it to the detector, fetches every parameter the  *)
(* detector says it changed, and only then sets the asyn parameter; fetch  *)
(* reads a value, and on the first fetch its type and limits.              *)
(*                                                                         *)
(* One operation runs at a time, under the port lock, but each is several  *)
(* requests: between two of them one may fail, or the detector may be      *)
(* changed by another of its clients or by a (re)initialisation, which     *)
(* initializeTask sends without the lock.                                  *)
(*                                                                         *)
(* The numbers are in units in which the limits and the epsilons are       *)
(* integers; the detector is taken to store an allowed value as it is.     *)
(***************************************************************************)
EXTENDS Integers, Sequences, FiniteSets

CONSTANTS
    Params,             \* parameters of the detector that the driver has
    Kind,               \* mType, once known
    EnumValues,         \* mEnumValues of the enumerations
    Lower, Upper,       \* mMin and mMax of the numbers that have them
    Epsilon,            \* mEpsilon
    DetConfig,          \* mDetConfigMap: those of detector/config
    ReadOnly,           \* mAccessMode is EIGER_ACC_RO
    Linked,             \* the parameters the detector may adjust with another
    Late,               \* created by drvUserCreate after initParams
    Numbers,            \* the numbers a parameter may have
    JsonTrue, JsonFalse,\* the texts true and false of a bool
    Writes,             \* the numbers a client may write
    Strings,            \* the strings a client may write
    BoolWrites,         \* what the driver itself writes as a bool
    Found,              \* what the detector may be found set to
    MaxFaults           \* bound on failures and on changes made elsewhere

Kinds == {"bool", "int", "uint", "double", "enum"}

ASSUME ConstantsAssumption ==
    /\ Kind \in [Params -> Kinds]
    /\ Epsilon \in [Params -> Nat]
    /\ Linked \in [Params -> SUBSET Params]
    /\ UNION {DetConfig, ReadOnly, Late, DOMAIN Lower, DOMAIN Upper} \subseteq Params
    /\ BoolWrites \subseteq Params \X {0, 1}
    /\ \A p \in Params : Linked[p] \subseteq DetConfig
    /\ Numbers \subseteq Int /\ Writes \subseteq Int /\ MaxFaults \in Nat
    /\ \A p \in Params : Kind[p] = "enum" => Len(EnumValues[p]) \in Nat \ {0}
    /\ \A p \in DOMAIN Lower : Lower[p] \in Int
    /\ \A p \in DOMAIN Upper : Upper[p] \in Int
    /\ \A p \in DOMAIN Lower \cap DOMAIN Upper : Lower[p] <= Upper[p]
    /\ \A w \in BoolWrites : Kind[w[1]] \in {"bool", "enum"}
    /\ JsonTrue # JsonFalse
    /\ \A p \in Late : Epsilon[p] = 0
    /\ \A p \in Params : Epsilon[p] # 0 => Kind[p] = "double"

VARIABLES
    det,                \* the values in the detector
    known,              \* the parameters whose type and limits were fetched
    cache,              \* the asyn parameters
    pc, op, todo,       \* the operation under way; parameters left to fetch
    status,             \* what the last operation returned
    stale,              \* history: the driver was not told of a change to these
    faults
vars == <<det, known, cache, pc, op, todo, status, stale, faults>>

(***************************************************************************)
(* The values of a parameter in the detector, and its conversions to and   *)
(* from what the asyn library holds.                                       *)
(***************************************************************************)
Raw(p) ==
    CASE Kind[p] = "bool" -> {JsonTrue, JsonFalse}
      [] Kind[p] = "enum" -> {EnumValues[p][i] : i \in 1 .. Len(EnumValues[p])}
      [] OTHER -> {n \in Numbers :
                     /\ p \in DOMAIN Lower => n >= Lower[p]
                     /\ p \in DOMAIN Upper => n <= Upper[p]
                     /\ Kind[p] = "uint" => n >= 0}

\* getEnumIndex: the first of the values that is equal
EnumIndex(p, s) ==
    CHOOSE i \in 0 .. Len(EnumValues[p]) - 1 :
        /\ EnumValues[p][i + 1] = s
        /\ \A j \in 0 .. i - 1 : EnumValues[p][j + 1] # s

\* parseValue and getEnumIndex, in fetch
FromRaw(p, raw) ==
    CASE Kind[p] = "bool" -> IF raw = JsonTrue THEN 1 ELSE 0
      [] Kind[p] = "enum" -> EnumIndex(p, raw)
      [] OTHER -> raw

\* toString of a number, an index or a string
ToRaw(p, v) ==
    CASE Kind[p] = "bool" -> IF v # 0 THEN JsonTrue ELSE JsonFalse
      [] Kind[p] = "enum" -> EnumValues[p][v + 1]
      [] OTHER -> v

\* toString of a bool: an enumeration is taken to begin with the true one
BoolToRaw(p, v) ==
    IF Kind[p] = "enum" THEN EnumValues[p][IF v # 0 THEN 1 ELSE 2] ELSE ToRaw(p, v)

\* The limits the driver keeps: of an enumeration, its first and last index.
Bottom(p) == IF Kind[p] = "enum" THEN 0 ELSE Lower[p]
Top(p) == IF Kind[p] = "enum" THEN Len(EnumValues[p]) - 1 ELSE Upper[p]
HasBottom(p) == Kind[p] = "enum" \/ p \in DOMAIN Lower
HasTop(p) == Kind[p] = "enum" \/ p \in DOMAIN Upper

\* The clamping of put<int> and put<double>.
NotBelow(p, v) == IF HasBottom(p) /\ v < Bottom(p) THEN Bottom(p) ELSE v
NotAbove(p, v) == IF HasTop(p) /\ v > Top(p) THEN Top(p) ELSE v
NotNegative(p, v) == IF Kind[p] = "uint" /\ v < 0 THEN 0 ELSE v
Clamped(p, v) == NotNegative(p, NotAbove(p, NotBelow(p, v)))

\* What put sends, and what it then sets the asyn parameter to.
Sent(o) ==
    CASE o.do = "bool" -> BoolToRaw(o.p, o.v)
      [] o.do = "string" -> o.v
      [] o.do = "number" -> ToRaw(o.p, Clamped(o.p, o.v))
Set(o) ==
    CASE o.do = "bool" -> o.v
      [] o.do = "string" -> EnumIndex(o.p, o.v)
      [] o.do = "number" -> Clamped(o.p, o.v)

\* put<double> does not resend a value that has hardly changed.
HardlyLarger(p, v) == Epsilon[p] # 0 /\ cache[p] - v < Epsilon[p]  \* mutant: no fabs
Unchanged(p, v) == Epsilon[p] # 0 /\ cache[p] - v < Epsilon[p] /\ v - cache[p] < Epsilon[p]

Matches(p) == det[p] = ToRaw(p, cache[p])
ASSUME FoundAssumption == \A d \in Found : DOMAIN d = Params /\ \A p \in Params : d[p] \in Raw(p)
-----------------------------------------------------------------------------
\* The constructor has run: initParams fetched every parameter it created.
Init ==
    /\ det \in Found
    /\ known = Params \ Late
    /\ cache = [p \in Params |-> IF p \in known THEN FromRaw(p, det[p]) ELSE 0]
    /\ pc = "idle" /\ op = [do |-> "none"] /\ todo = {}
    /\ status = "none"
    /\ stale = {} /\ faults = 0

Return(result) == pc' = "idle" /\ status' = result

\* The beginning of put: a parameter of unknown type is fetched first.
Begin(o) ==
    /\ op' = o
    /\ pc' = IF o.p \in known THEN "send" ELSE "learn"
    /\ status' = "none"
    /\ UNCHANGED <<det, known, cache, todo, stale, faults>>

\* writeInt32 and writeFloat64 of a parameter
Put(p, v) ==
    /\ pc = "idle"
    /\ ~Unchanged(p, v)
    /\ Begin([do |-> "number", p |-> p, v |-> v])

PutUnchanged(p, v) ==
    /\ pc = "idle"
    /\ Unchanged(p, v)
    /\ op' = [do |-> "number", p |-> p, v |-> v]
    /\ status' = "ok"
    /\ UNCHANGED <<det, known, cache, pc, todo, stale, faults>>

\* put<bool>, as initParams calls it
PutBool(p, v) ==
    /\ pc = "idle"
    /\ Begin([do |-> "bool", p |-> p, v |-> v])

\* put<string> of an enumeration, as initParams and writeOctet call it
PutString(p, s) ==
    /\ pc = "idle"
    /\ Kind[p] = "enum"
    /\ Begin([do |-> "string", p |-> p, v |-> s])

\* fetch, from eigerStatus or drvUserCreate
Fetch(p) ==
    /\ pc = "idle"
    /\ op' = [do |-> "fetch", p |-> p]
    /\ pc' = "fetch" /\ todo' = {p}
    /\ status' = "none"
    /\ UNCHANGED <<det, known, cache, stale, faults>>

\* baseFetch succeeds, and the asyn parameter is set.
Fetched(p) ==
    /\ known' = known \cup {p}
    /\ cache' = [cache EXCEPT ![p] = FromRaw(p, det[p])]
    /\ UNCHANGED <<det, op, faults>>

Fault == faults < MaxFaults /\ faults' = faults + 1

Learn ==
    /\ pc = "learn"
    /\ Fetched(op.p)
    /\ pc' = "send"
    /\ stale' = stale \ {op.p}
    /\ UNCHANGED <<todo, status>>

\* No answer, or one that cannot be parsed - perhaps after its type was.
LearnFail ==
    /\ pc = "learn"
    /\ Fault
    /\ known' \in {known, known \cup {op.p}}
    /\ stale' = IF op.p \in known' THEN stale \cup {op.p} ELSE stale
    /\ Return("failed")
    /\ UNCHANGED <<det, cache, op, todo>>

\* basePut writes no read-only parameter; put<string>, no unlisted value.
Refused ==
    \/ op.p \in ReadOnly
    \/ op.do = "string" /\ op.v \notin Raw(op.p)

SendRefused ==
    /\ pc = "send"
    /\ Refused
    /\ Return("failed")
    /\ UNCHANGED <<det, known, cache, op, todo, stale, faults>>

\* The detector takes the value and may adjust the parameters linked to it.
Applied ==
    \E L \in SUBSET (Linked[op.p] \ {op.p}) :
        \E new \in [L -> UNION {Raw(q) : q \in L}] :
            /\ \A q \in L : new[q] \in Raw(q) /\ new[q] # det[q]
            /\ det' = [q \in Params |-> IF q = op.p THEN Sent(op)
                                        ELSE IF q \in L THEN new[q] ELSE det[q]]

Changed == {q \in Params : det'[q] # det[q]}

\* The reply names what has changed: fetchParams takes those it can find.
ReplyIgnored(names) == todo' = {}   \* mutant
Reply(names) == todo' = names \cap DetConfig

Send ==
    /\ pc = "send"
    /\ ~Refused
    /\ Applied
    /\ Reply(Changed)
    /\ stale' = (stale \ {op.p}) \cup (Changed \ (DetConfig \cup {op.p}))
    /\ pc' = "fetch"
    /\ UNCHANGED <<known, cache, op, status, faults>>

\* The request fails, or only its answer does.
SendFail ==
    /\ pc = "send"
    /\ ~Refused
    /\ Fault
    /\ det' = det \/ Applied
    /\ stale' = stale \cup Changed
    /\ Return("failed")
    /\ UNCHANGED <<known, cache, op, todo>>

BeingPut(q) == op.do # "fetch" /\ q = op.p

FetchNext ==
    /\ pc = "fetch"
    /\ \E q \in todo :
          /\ todo' = todo \ {q}
          /\ Fetched(q)
          /\ stale' = IF BeingPut(q) THEN stale ELSE stale \ {q}
          /\ UNCHANGED <<pc, status>>

\* fetchParams goes on, and basePut ignores what it returns.
FetchFail ==
    /\ pc = "fetch"
    /\ Fault
    /\ \E q \in todo :
          /\ todo' = todo \ {q}
          /\ known' \in {known, known \cup {q}}
          /\ stale' = IF Matches(q) \/ BeingPut(q) THEN stale ELSE stale \cup {q}
    /\ status' = IF op.do = "fetch" THEN "failed" ELSE status
    /\ UNCHANGED <<det, cache, pc, op>>

FetchEnd ==
    /\ pc = "fetch" /\ todo = {}
    /\ op.do = "fetch"
    /\ Return(IF status = "failed" THEN "failed" ELSE "ok")
    /\ UNCHANGED <<det, known, cache, op, todo, stale, faults>>

\* mutant: the asyn parameter is left to fetchParams
PutEndUnset ==
    /\ pc = "fetch" /\ todo = {}
    /\ op.do # "fetch"
    /\ Return("ok")
    /\ UNCHANGED <<det, known, cache, op, todo, stale, faults>>

PutEnd ==
    /\ pc = "fetch" /\ todo = {}
    /\ op.do # "fetch"
    /\ cache' = [cache EXCEPT ![op.p] = Set(op)]
    /\ Return("ok")
    /\ UNCHANGED <<det, known, op, todo, stale, faults>>

\* Another client of the detector, or its initialisation, changes a value.
ChangedElsewhere(p) ==
    /\ Fault
    /\ \E raw \in Raw(p) \ {det[p]} : det' = [det EXCEPT ![p] = raw]
    /\ stale' = stale \cup {p}
    /\ UNCHANGED <<known, cache, pc, op, todo, status>>

Next ==
    \/ \E p \in Params, v \in Writes : Put(p, v) \/ PutUnchanged(p, v)
    \/ \E w \in BoolWrites : PutBool(w[1], w[2])
    \/ \E p \in Params, s \in Strings : PutString(p, s)
    \/ \E p \in Params : Fetch(p) \/ ChangedElsewhere(p)
    \/ Learn \/ LearnFail \/ SendRefused \/ Send \/ SendFail
    \/ FetchNext \/ FetchFail \/ FetchEnd \/ PutEnd

Spec == Init /\ [][Next]_vars
-----------------------------------------------------------------------------
(* Between operations every asyn parameter says what the detector has,     *)
(* whichever operations ran, except those of whose change the driver was   *)
(* not told: the order of fetchParams and setParam in put, and the two     *)
(* directions of every conversion.                                         *)
Coherent ==
    pc = "idle" => \A p \in known \ stale : Matches(p)

(* When put returns success the detector has the value asked for, limited, *)
(* or one within epsilon: skipping a write, clamping, and the parameters   *)
(* adjusted along with it never make a success untrue.                     *)
SuccessIsTrue ==
    (pc = "idle" /\ status = "ok" /\ op.do = "number" /\ op.p \notin stale) =>
        LET want == Clamped(op.p, op.v)
        IN \/ det[op.p] = ToRaw(op.p, want)
           \/ Epsilon[op.p] # 0 /\ det[op.p] - want < Epsilon[op.p]
                                /\ want - det[op.p] < Epsilon[op.p]

(* A client reads back the choice it wrote, also when two values of an     *)
(* enumeration have one name in the detector, as TriggerMode's Internal    *)
(* Series and Continuous have, and put has fetched the name meanwhile.     *)
ReadsBackWhatWasWritten ==
    (pc = "idle" /\ status = "ok" /\ op.do = "number" /\ Kind[op.p] = "enum") =>
        cache[op.p] = Clamped(op.p, op.v)
=============================================================================
