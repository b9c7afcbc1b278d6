-------------------------- MODULE ParamCacheProofs --------------------------
(***************************************************************************)
(* Proofs about ParamCache: a put that succeeds is true of the detector    *)
(* and is read back, and between operations every asyn parameter says what *)
(* the detector has.  The last does not hold of an enumeration that the    *)
(* driver itself writes as a bool (Misread), and the invariant says so.    *)
(***************************************************************************)
EXTENDS ParamCache, WellFoundedInduction, TLAPS

\* The enumerations that are put as a bool: the index that is then set need
\* not be the one whose value was sent.
Misread ==
    {p \in Params : Kind[p] = "enum" /\ \E v \in {0, 1} : <<p, v>> \in BoolWrites}

(* A value that the detector may report and the driver can hold.           *)
Valid(p, raw) ==
    /\ Kind[p] = "bool" => raw \in {JsonTrue, JsonFalse}
    /\ Kind[p] = "enum"
          => \E i \in 1 .. Len(EnumValues[p]) : raw = EnumValues[p][i]
    /\ Kind[p] = "double" =>
         /\ raw \in Int
         /\ p \in DOMAIN Lower => raw >= Lower[p]
         /\ p \in DOMAIN Upper => raw <= Upper[p]

PutOps == {"number", "bool", "string"}

OpInv ==
    /\ DOMAIN det = Params /\ DOMAIN cache = Params
    /\ known \subseteq Params /\ todo \subseteq Params
    /\ Params \ Late \subseteq known
    /\ pc \in {"idle", "learn", "send", "fetch"}
    /\ op.do \in PutOps \cup {"fetch", "none"}
    /\ pc \in {"learn", "send"} => op.do \in PutOps
    /\ pc = "fetch" => op.do # "none"
    /\ op.do # "none" => op.p \in Params
    /\ op.do = "number" => op.v \in Int
    /\ op.do = "bool" => <<op.p, op.v>> \in BoolWrites
    /\ op.do = "string" => Kind[op.p] = "enum"

(* The detector holds values that the driver can hold.                     *)
ValidInv == \A p \in Params \ Misread : Valid(p, det[p])

(* The driver knows what it does not know: what is neither up to date nor  *)
(* stale is still to be fetched or about to be set.                        *)
CacheInv ==
    \A p \in known \ (stale \cup Misread) :
        \/ Matches(p)
        \/ pc = "fetch" /\ (p \in todo \/ BeingPut(p))

(* Between the put and its end the detector keeps what was sent, unless    *)
(* another client changes it.                                              *)
SentInv ==
    /\ pc = "fetch" /\ op.do # "fetch" /\ op.p \notin stale
          => det[op.p] = Sent(op)
    /\ pc = "fetch" /\ op.do = "string" => op.v \in Raw(op.p)

ParamInv ==
    /\ OpInv /\ ValidInv /\ CacheInv /\ SentInv
    /\ SuccessIsTrue /\ ReadsBackWhatWasWritten
-----------------------------------------------------------------------------
(* getEnumIndex finds a value that is there.                               *)
LEMMA EnumIndexFound ==
    ASSUME NEW p \in Params, Kind[p] = "enum",
           NEW s, NEW k \in 1 .. Len(EnumValues[p]), EnumValues[p][k] = s
    PROVE  /\ EnumIndex(p, s) \in 0 .. Len(EnumValues[p]) - 1
           /\ EnumValues[p][EnumIndex(p, s) + 1] = s
<1> DEFINE n == Len(EnumValues[p])
           at == {i \in 0 .. n - 1 : EnumValues[p][i + 1] = s}
<1>1. n \in Nat \ {0}
  BY ConstantsAssumption DEF ConstantsAssumption
<1>2. k - 1 \in at
  <2>1. k \in Int /\ k - 1 \in 0 .. n - 1 /\ (k - 1) + 1 = k
    BY <1>1
  <2> QED BY <2>1
<1>3. at \subseteq Nat
  BY <1>1
<1>4. PICK m \in at : \A i \in at : ~(<<i, m>> \in OpToRel(<, Nat))
  <2> HIDE DEF at
  <2> QED BY <1>2, <1>3, WFMin, NatLessThanWellFounded
<1>5. \A i \in at : ~(i < m)
  <2> SUFFICES ASSUME NEW i \in at, i < m PROVE FALSE
    OBVIOUS
  <2>1. <<i, m>> \in Nat \X Nat
    BY <1>3, <1>4
  <2>2. <<i, m>> \in OpToRel(<, Nat)
    BY <2>1 DEF OpToRel
  <2> QED BY <2>2, <1>4
<1>6. /\ m \in 0 .. n - 1
      /\ EnumValues[p][m + 1] = s
      /\ \A j \in 0 .. m - 1 : EnumValues[p][j + 1] # s
  <2>1. m \in 0 .. n - 1 /\ EnumValues[p][m + 1] = s
    BY <1>4
  <2> SUFFICES ASSUME NEW j \in 0 .. m - 1, EnumValues[p][j + 1] = s PROVE FALSE
    BY <2>1
  <2>2. j \in 0 .. n - 1 /\ j < m
    BY <1>1, <2>1
  <2> QED BY <2>2, <1>5
<1> QED BY <1>6 DEF EnumIndex

(* Every value put<int> and put<double> send is one the driver can hold.   *)
LEMMA ClampedValid ==
    ASSUME NEW p \in Params, NEW v \in Int
    PROVE  /\ Clamped(p, v) \in Int
           /\ Valid(p, ToRaw(p, Clamped(p, v)))
<1>1. CASE Kind[p] = "enum"
  <2> DEFINE n == Len(EnumValues[p])
  <2>1. n \in Nat \ {0}
    BY <1>1, ConstantsAssumption DEF ConstantsAssumption
  <2> HIDE DEF n
  <2>2. Clamped(p, v) \in 0 .. n - 1
    BY <1>1, <2>1
    DEF Clamped, NotBelow, NotAbove, NotNegative, HasBottom, HasTop, Bottom, Top,
        n
  <2>3. Clamped(p, v) + 1 \in 1 .. n
    BY <2>1, <2>2
  <2> QED BY <1>1, <2>2, <2>3 DEF Valid, ToRaw, n
<1>2. CASE Kind[p] # "enum"
  <2>1. /\ p \in DOMAIN Lower => Lower[p] \in Int
        /\ p \in DOMAIN Upper => Upper[p] \in Int
        /\ p \in DOMAIN Lower /\ p \in DOMAIN Upper => Lower[p] <= Upper[p]
    BY ConstantsAssumption DEF ConstantsAssumption
  <2>2. Clamped(p, v) \in Int
    BY <1>2, <2>1
    DEF Clamped, NotBelow, NotAbove, NotNegative, HasBottom, HasTop, Bottom, Top
  <2>3. CASE Kind[p] = "double"
    BY <1>2, <2>1, <2>2, <2>3
    DEF Valid, ToRaw, Clamped, NotBelow, NotAbove, NotNegative, HasBottom, HasTop,
        Bottom, Top
  <2>4. CASE Kind[p] # "double"
    BY <1>2, <2>2, <2>4 DEF Valid, ToRaw
  <2> QED BY <2>2, <2>3, <2>4
<1> QED BY <1>1, <1>2

(* What fetch makes of a value of the detector stands for that value.      *)
LEMMA RoundTrip ==
    ASSUME NEW p \in Params, NEW raw, Valid(p, raw)
    PROVE  ToRaw(p, FromRaw(p, raw)) = raw
<1>1. CASE Kind[p] = "bool"
  BY <1>1, ConstantsAssumption DEF Valid, ToRaw, FromRaw, ConstantsAssumption
<1>2. CASE Kind[p] = "enum"
  <2>1. PICK i \in 1 .. Len(EnumValues[p]) : EnumValues[p][i] = raw
    BY <1>2 DEF Valid
  <2>2. EnumValues[p][EnumIndex(p, raw) + 1] = raw
    BY <1>2, <2>1, EnumIndexFound
  <2> QED BY <1>2, <2>2 DEF ToRaw, FromRaw
<1>3. CASE Kind[p] \notin {"bool", "enum"}
  BY <1>3 DEF ToRaw, FromRaw
<1> QED BY <1>1, <1>2, <1>3

(* The value of a parameter that may be found is one the driver can hold.  *)
LEMMA RawValid ==
    ASSUME NEW p \in Params, NEW raw \in Raw(p)
    PROVE  Valid(p, raw)
<1>1. Kind[p] = "bool" => raw \in {JsonTrue, JsonFalse}
  BY DEF Raw
<1>2. Kind[p] = "enum"
    => \E i \in 1 .. Len(EnumValues[p]) : raw = EnumValues[p][i]
  BY DEF Raw
<1>3. ASSUME Kind[p] = "double"
      PROVE  /\ raw \in Int
             /\ p \in DOMAIN Lower => raw >= Lower[p]
             /\ p \in DOMAIN Upper => raw <= Upper[p]
  BY <1>3, ConstantsAssumption DEF Raw, ConstantsAssumption
<1> QED BY <1>1, <1>2, <1>3 DEF Valid

(* Limiting a value brings it no further from one within the limits.       *)
LEMMA ClampedNear ==
    ASSUME NEW p \in Params, Kind[p] = "double", NEW raw, Valid(p, raw),
           NEW v \in Int, NEW e \in Nat, raw - v < e, v - raw < e
    PROVE  raw - Clamped(p, v) < e /\ Clamped(p, v) - raw < e
<1>1. /\ p \in DOMAIN Lower => Lower[p] \in Int
      /\ p \in DOMAIN Upper => Upper[p] \in Int
      /\ p \in DOMAIN Lower /\ p \in DOMAIN Upper => Lower[p] <= Upper[p]
  BY ConstantsAssumption DEF ConstantsAssumption
<1>2. /\ raw \in Int
      /\ p \in DOMAIN Lower => raw >= Lower[p]
      /\ p \in DOMAIN Upper => raw <= Upper[p]
  BY DEF Valid
<1> QED BY <1>1, <1>2 DEF Clamped, NotBelow, NotAbove, NotNegative, HasBottom, HasTop, Bottom, Top

(* What put sends is a value the driver can hold, and what it then sets    *)
(* stands for it.                                                          *)
LEMMA SentAndSet ==
    ASSUME OpInv, op.do \in PutOps, op.p \notin Misread,
           op.do = "string" => op.v \in Raw(op.p)
    PROVE  /\ Valid(op.p, Sent(op))
           /\ ToRaw(op.p, Set(op)) = Sent(op)
<1>1. op.p \in Params
  BY DEF OpInv, PutOps
<1>2. CASE op.do = "number"
  <2>1. op.v \in Int
    BY <1>2 DEF OpInv
  <2> QED BY <1>1, <1>2, <2>1, ClampedValid DEF Sent, Set
<1>3. CASE op.do = "bool"
  <2>1. /\ <<op.p, op.v>> \in BoolWrites
        /\ Kind[op.p] \in {"bool", "enum"}
        /\ op.v \in {0, 1}
    BY <1>3, ConstantsAssumption DEF OpInv, ConstantsAssumption
  <2>2. Kind[op.p] = "bool"
    BY <1>1, <2>1 DEF Misread
  <2> QED BY <1>3, <2>2 DEF Sent, Set, BoolToRaw, ToRaw, Valid
<1>4. CASE op.do = "string"
  <2>1. Kind[op.p] = "enum"
    BY <1>4 DEF OpInv
  <2>2. Valid(op.p, op.v)
    BY <1>1, <1>4, RawValid
  <2>3. ToRaw(op.p, FromRaw(op.p, op.v)) = op.v
    BY <1>1, <2>2, RoundTrip
  <2> QED BY <1>4, <2>1, <2>2, <2>3 DEF Sent, Set, FromRaw
<1> QED BY <1>2, <1>3, <1>4 DEF PutOps
-----------------------------------------------------------------------------
(* initParams fetched what it created.                                     *)
LEMMA ParamInit == Init => ParamInv
<1> SUFFICES ASSUME Init PROVE ParamInv
  OBVIOUS
<1>1. DOMAIN det = Params /\ \A p \in Params : det[p] \in Raw(p)
  BY FoundAssumption DEF Init
<1>2. \A p \in Params : Valid(p, det[p])
  BY <1>1, RawValid
<1>3. \A p \in known : Matches(p)
  <2> SUFFICES ASSUME NEW p \in known PROVE Matches(p)
    OBVIOUS
  <2>1. p \in Params /\ cache[p] = FromRaw(p, det[p])
    BY DEF Init
  <2> QED BY <1>2, <2>1, RoundTrip DEF Matches
<1>4. OpInv
  BY <1>1 DEF OpInv, Init, PutOps
<1>5. ValidInv /\ CacheInv
  BY <1>2, <1>3 DEF ValidInv, CacheInv
<1>6. pc = "idle" /\ status = "none" /\ op.do = "none"
  BY DEF Init
<1> QED BY <1>4, <1>5, <1>6 DEF ParamInv, SentInv, SuccessIsTrue, ReadsBackWhatWasWritten

(* Beginning an operation changes nothing but the operation.               *)
LEMMA BeginStep ==
    ASSUME ParamInv, NEW o, Begin(o), pc = "idle",
           o.do \in PutOps, o.p \in Params,
           o.do = "number" => o.v \in Int,
           o.do = "bool" => <<o.p, o.v>> \in BoolWrites,
           o.do = "string" => Kind[o.p] = "enum"
    PROVE  ParamInv'
<1>1. /\ UNCHANGED <<det, known, cache, todo, stale>>
      /\ op' = o /\ pc' \in {"send", "learn"} /\ status' = "none"
  BY DEF Begin
<1>2. OpInv'
  BY <1>1 DEF ParamInv, OpInv, PutOps
<1>3. ValidInv'
  BY <1>1 DEF ParamInv, ValidInv
<1>4. CacheInv'
  BY <1>1 DEF ParamInv, CacheInv, Matches
<1> QED BY <1>1, <1>2, <1>3, <1>4
        DEF ParamInv, SentInv, SuccessIsTrue, ReadsBackWhatWasWritten

(* A put that sends nothing has nothing to send: a parameter with an       *)
(* epsilon was fetched, and is a number.                                   *)
LEMMA UnchangedStep ==
    ASSUME ParamInv, NEW p \in Params, NEW v \in Writes, PutUnchanged(p, v)
    PROVE  ParamInv'
<1>1. /\ UNCHANGED <<det, known, cache, todo, stale, pc>>
      /\ op' = [do |-> "number", p |-> p, v |-> v] /\ pc = "idle"
      /\ Epsilon[p] # 0 /\ cache[p] - v < Epsilon[p] /\ v - cache[p] < Epsilon[p]
  BY DEF PutUnchanged, Unchanged
<1>2. v \in Int /\ Epsilon[p] \in Nat /\ Kind[p] = "double" /\ p \notin Late
  BY <1>1, ConstantsAssumption DEF ConstantsAssumption
<1>3. OpInv'
  BY <1>1, <1>2 DEF ParamInv, OpInv, PutOps
<1>4. ValidInv'
  BY <1>1 DEF ParamInv, ValidInv
<1>5. CacheInv'
  BY <1>1 DEF ParamInv, CacheInv, Matches
<1>6. SuccessIsTrue'
  <2> SUFFICES ASSUME p \notin stale
               PROVE  /\ det[p] - Clamped(p, v) < Epsilon[p]
                      /\ Clamped(p, v) - det[p] < Epsilon[p]
    BY <1>1 DEF SuccessIsTrue
  <2>1. p \in known /\ p \notin Misread
    BY <1>2 DEF ParamInv, OpInv, Misread
  <2>2. Valid(p, det[p]) /\ det[p] = cache[p]
    BY <1>1, <1>2, <2>1 DEF ParamInv, ValidInv, CacheInv, Matches, ToRaw
  <2> QED BY <1>1, <1>2, <2>2, ClampedNear
<1>7. ReadsBackWhatWasWritten'
  BY <1>1, <1>2 DEF ReadsBackWhatWasWritten
<1> QED BY <1>1, <1>3, <1>4, <1>5, <1>6, <1>7 DEF ParamInv, SentInv

(* A fetch begins with its parameter to be fetched.                        *)
LEMMA FetchStep ==
    ASSUME ParamInv, NEW p \in Params, Fetch(p)
    PROVE  ParamInv'
<1>1. /\ UNCHANGED <<det, known, cache, stale>> /\ pc = "idle"
      /\ op' = [do |-> "fetch", p |-> p]
      /\ pc' = "fetch" /\ todo' = {p} /\ status' = "none"
  BY DEF Fetch
<1>2. OpInv'
  BY <1>1 DEF ParamInv, OpInv, PutOps
<1>3. ValidInv' /\ CacheInv'
  BY <1>1 DEF ParamInv, ValidInv, CacheInv, Matches
<1> QED BY <1>1, <1>2, <1>3 DEF ParamInv, SentInv, SuccessIsTrue, ReadsBackWhatWasWritten

(* What somebody else changes is stale, until it is fetched.               *)
LEMMA ElsewhereStep ==
    ASSUME ParamInv, NEW p \in Params, ChangedElsewhere(p)
    PROVE  ParamInv'
<1>1. UNCHANGED <<known, cache, pc, op, todo, status>> /\ stale' = stale \cup {p}
  BY DEF ChangedElsewhere
<1>2. PICK raw \in Raw(p) : det' = [det EXCEPT ![p] = raw]
  BY DEF ChangedElsewhere
<1>3. /\ DOMAIN det' = Params /\ det'[p] = raw
      /\ \A q \in Params \ {p} : det'[q] = det[q]
  BY <1>2 DEF ParamInv, OpInv
<1>4. OpInv'
  BY <1>1, <1>3 DEF ParamInv, OpInv
<1>5. ValidInv'
  BY <1>3, RawValid DEF ParamInv, ValidInv
<1>6. CacheInv'
  BY <1>1, <1>3 DEF ParamInv, OpInv, CacheInv, Matches, BeingPut
<1>7. SentInv'
  BY <1>1, <1>3 DEF ParamInv, OpInv, SentInv
<1>8. SuccessIsTrue' /\ ReadsBackWhatWasWritten'
  BY <1>1, <1>3 DEF ParamInv, OpInv, SuccessIsTrue, ReadsBackWhatWasWritten
<1> QED BY <1>4, <1>5, <1>6, <1>7, <1>8 DEF ParamInv

(* What a fetch sets is what the detector has.                             *)
LEMMA FetchedMatches ==
    ASSUME ParamInv, NEW p \in Params, Fetched(p)
    PROVE  /\ DOMAIN cache' = Params /\ known' = known \cup {p}
           /\ UNCHANGED <<det, op>>
           /\ \A q \in Params \ {p} : cache'[q] = cache[q]
           /\ \A q \in Params \ {p} : Matches(q)' <=> Matches(q)
           /\ p \notin Misread => Matches(p)'
<1>1. /\ known' = known \cup {p} /\ UNCHANGED <<det, op>>
      /\ cache' = [cache EXCEPT ![p] = FromRaw(p, det[p])]
  BY DEF Fetched
<1>2. /\ DOMAIN cache' = Params /\ cache'[p] = FromRaw(p, det[p])
      /\ \A q \in Params \ {p} : cache'[q] = cache[q]
  BY <1>1 DEF ParamInv, OpInv
<1>3. \A q \in Params \ {p} : Matches(q)' <=> Matches(q)
  BY <1>1, <1>2 DEF Matches
<1>4. ASSUME p \notin Misread PROVE Matches(p)'
  <2>1. Valid(p, det[p])
    BY <1>4 DEF ParamInv, ValidInv
  <2> QED BY <1>1, <1>2, <2>1, RoundTrip DEF Matches
<1> QED BY <1>1, <1>2, <1>3, <1>4

(* A parameter of unknown type is fetched before it is put.                *)
LEMMA LearnStep ==
    ASSUME ParamInv, Learn \/ LearnFail
    PROVE  ParamInv'
<1>1. op.p \in Params /\ op.do \in PutOps /\ pc = "learn"
  BY DEF ParamInv, OpInv, PutOps, Learn, LearnFail
<1>2. CASE Learn
  <2>1. Fetched(op.p) /\ pc' = "send" /\ stale' = stale \ {op.p}
        /\ UNCHANGED <<todo, status>>
    BY <1>2 DEF Learn
  <2>2. /\ DOMAIN cache' = Params /\ known' = known \cup {op.p}
        /\ UNCHANGED <<det, op>>
        /\ \A q \in Params \ {op.p} : Matches(q)' <=> Matches(q)
        /\ op.p \notin Misread => Matches(op.p)'
    BY <1>1, <2>1, FetchedMatches
  <2>3. OpInv'
    BY <1>1, <2>1, <2>2 DEF ParamInv, OpInv
  <2>4. ValidInv'
    BY <2>2 DEF ParamInv, ValidInv
  <2>5. CacheInv'
    BY <1>1, <2>1, <2>2 DEF ParamInv, OpInv, CacheInv
  <2> QED BY <2>1, <2>3, <2>4, <2>5
          DEF ParamInv, SentInv, SuccessIsTrue, ReadsBackWhatWasWritten
<1>3. CASE LearnFail
  <2>1. /\ UNCHANGED <<det, cache, op, todo>> /\ pc' = "idle"
        /\ status' = "failed"
        /\ known' \in {known, known \cup {op.p}}
        /\ stale' = IF op.p \in known' THEN stale \cup {op.p} ELSE stale
    BY <1>3 DEF LearnFail, Return
  <2>2. OpInv'
    BY <1>1, <2>1 DEF ParamInv, OpInv
  <2>3. ValidInv'
    BY <2>1 DEF ParamInv, ValidInv
  <2>4. CacheInv'
    BY <1>1, <2>1 DEF ParamInv, OpInv, CacheInv, Matches
  <2> QED BY <2>1, <2>2, <2>3, <2>4
          DEF ParamInv, SentInv, SuccessIsTrue, ReadsBackWhatWasWritten
<1> QED BY <1>2, <1>3

(* What a put does to the detector.                                        *)
LEMMA AppliedFacts ==
    ASSUME ParamInv, pc = "send", ~Refused, Applied
    PROVE  /\ DOMAIN det' = Params /\ det'[op.p] = Sent(op)
           /\ \A q \in Params \ Misread : Valid(q, det'[q])
<1>1. op.p \in Params /\ op.do \in PutOps /\ (op.do =
    "string" => op.v \in Raw(op.p))
  BY DEF ParamInv, OpInv, PutOps, Refused
<1>2. PICK L \in SUBSET (Linked[op.p] \ {op.p}) :
        \E new \in [L -> UNION {Raw(q) : q \in L}] :
            /\ \A q \in L : new[q] \in Raw(q) /\ new[q] # det[q]
            /\ det' = [q \in Params |-> IF q = op.p THEN Sent(op)
                                        ELSE IF q \in L THEN new[q] ELSE det[q]]
  BY DEF Applied
<1>3. PICK new \in [L -> UNION {Raw(q) : q \in L}] :
        /\ \A q \in L : new[q] \in Raw(q) /\ new[q] # det[q]
        /\ det' = [q \in Params |-> IF q = op.p THEN Sent(op)
                                    ELSE IF q \in L THEN new[q] ELSE det[q]]
  BY <1>2
<1>4. DOMAIN det' = Params /\ det'[op.p] = Sent(op)
  BY <1>1, <1>3
<1>5. ASSUME NEW q \in Params \ Misread PROVE Valid(q, det'[q])
  <2>1. CASE q = op.p
    BY <1>1, <1>4, <2>1, SentAndSet DEF ParamInv
  <2>2. CASE q # op.p /\ q \in L
    BY <1>3, <2>2, RawValid
  <2>3. CASE q # op.p /\ q \notin L
    BY <1>3, <2>3 DEF ParamInv, ValidInv
  <2> QED BY <2>1, <2>2, <2>3
<1> QED BY <1>4, <1>5

(* The detector takes a value; whatever else it changed is to be fetched,  *)
(* or is stale.                                                            *)
LEMMA SendStep ==
    ASSUME ParamInv, Send
    PROVE  ParamInv'
<1>1. /\ UNCHANGED <<known, cache, op, status>> /\ pc = "send" /\ pc' = "fetch"
      /\ todo' = Changed \cap DetConfig
      /\ stale' = (stale \ {op.p}) \cup (Changed \ (DetConfig \cup {op.p}))
      /\ op.do = "string" => op.v \in Raw(op.p)
  BY DEF Send, Reply, Refused
<1>2. /\ DOMAIN det' = Params /\ det'[op.p] = Sent(op)
      /\ \A q \in Params \ Misread : Valid(q, det'[q])
  BY <1>1, AppliedFacts DEF Send
<1>3. /\ op.p \in Params /\ op.do \in PutOps
      /\ known \subseteq Params /\ Params \ Late \subseteq known
  BY <1>1 DEF ParamInv, OpInv, PutOps
<1>4. Changed \subseteq Params /\ \A q \in Params \ Changed : det'[q] = det[q]
  BY DEF Changed
<1>5. OpInv'
  <2>1. todo' \subseteq Params
    BY <1>1, <1>4
  <2> QED BY <1>1, <1>2, <1>3, <2>1 DEF ParamInv, OpInv, PutOps
<1>6. ValidInv'
  BY <1>2 DEF ValidInv
<1>7. CacheInv'
  <2> SUFFICES ASSUME NEW q \in known \ (stale' \cup Misread),
                      q \notin todo', q # op.p
               PROVE  Matches(q)'
    BY <1>1, <1>3 DEF CacheInv, BeingPut, PutOps
  <2>1. q \notin Changed /\ q \notin stale /\ q \in Params
    BY <1>1, <1>3
  <2>2. Matches(q)
    BY <1>1, <2>1 DEF ParamInv, CacheInv
  <2> QED BY <1>1, <1>4, <2>1, <2>2 DEF Matches
<1>8. SentInv'
  BY <1>1, <1>2 DEF SentInv
<1> QED BY <1>1, <1>5, <1>6, <1>7, <1>8
        DEF ParamInv, SuccessIsTrue, ReadsBackWhatWasWritten

(* A put is refused, or fails: then whatever it changed is stale.          *)
LEMMA SendFailStep ==
    ASSUME ParamInv, SendRefused \/ SendFail
    PROVE  ParamInv'
<1>1. /\ UNCHANGED <<known, cache, op, todo>>
      /\ pc = "send" /\ pc' = "idle" /\ status' = "failed"
  BY DEF SendRefused, SendFail, Return
<1>2. /\ DOMAIN det' = Params /\ \A q \in Params \ Misread : Valid(q, det'[q])
      /\ \/ stale' = stale \cup Changed
         \/ stale' = stale /\ det' = det
  <2>1. CASE SendRefused
    BY <2>1 DEF SendRefused, ParamInv, OpInv, ValidInv
  <2>2. CASE SendFail /\ Applied
    BY <2>2, AppliedFacts DEF SendFail
  <2>3. CASE SendFail /\ det' = det
    BY <2>3 DEF SendFail, ParamInv, OpInv, ValidInv
  <2> QED BY <2>1, <2>2, <2>3 DEF SendFail
<1>3. OpInv'
  BY <1>1, <1>2 DEF ParamInv, OpInv
<1>4. ValidInv'
  BY <1>2 DEF ValidInv
<1>5. CacheInv'
  <2> SUFFICES ASSUME NEW q \in known \ (stale' \cup Misread) PROVE Matches(q)'
    BY <1>1 DEF CacheInv
  <2>1. q \in Params /\ Matches(q)
    BY <1>1, <1>2 DEF ParamInv, OpInv, CacheInv
  <2>2. det'[q] = det[q]
    BY <1>2, <2>1 DEF Changed
  <2> QED BY <1>1, <2>1, <2>2 DEF Matches
<1> QED BY <1>1, <1>3, <1>4, <1>5
        DEF ParamInv, SentInv, SuccessIsTrue, ReadsBackWhatWasWritten

(* fetchParams gets one of what has changed.                               *)
LEMMA FetchNextStep ==
    ASSUME ParamInv, FetchNext
    PROVE  ParamInv'
<1>1. pc = "fetch"
  BY DEF FetchNext
<1>2. PICK p \in todo : /\ todo' = todo \ {p} /\ Fetched(p)
                        /\ stale' = IF BeingPut(p) THEN stale ELSE stale \ {p}
                        /\ UNCHANGED <<pc, status>>
  BY DEF FetchNext
<1>3. p \in Params
  BY <1>2 DEF ParamInv, OpInv
<1>4. /\ DOMAIN cache' = Params /\ known' = known \cup {p}
      /\ UNCHANGED <<det, op>>
      /\ \A q \in Params \ {p} : Matches(q)' <=> Matches(q)
      /\ p \notin Misread => Matches(p)'
  BY <1>2, <1>3, FetchedMatches
<1>5. OpInv'
  BY <1>2, <1>3, <1>4 DEF ParamInv, OpInv
<1>6. ValidInv'
  BY <1>4 DEF ParamInv, ValidInv
<1>7. CacheInv'
  <2> SUFFICES ASSUME NEW q \in known' \ (stale' \cup Misread), q # p
               PROVE  Matches(q)' \/ (q \in todo' \/ BeingPut(q)')
    BY <1>1, <1>2, <1>4 DEF CacheInv
  <2>1. q \in Params /\ q \in known \ (stale \cup Misread)
    BY <1>2, <1>4 DEF ParamInv, OpInv
  <2>2. Matches(q) \/ q \in todo \/ BeingPut(q)
    BY <2>1 DEF ParamInv, CacheInv
  <2> QED BY <1>2, <1>4, <2>1, <2>2 DEF BeingPut
<1>8. SentInv'
  <2>1. op.do # "fetch" => (op.p \in stale' <=> op.p \in stale)
    BY <1>2 DEF BeingPut
  <2> QED BY <1>1, <1>2, <1>4, <2>1 DEF ParamInv, SentInv
<1> QED BY <1>1, <1>2, <1>5, <1>6, <1>7, <1>8
        DEF ParamInv, SuccessIsTrue, ReadsBackWhatWasWritten

(* ... or does not, and that one is stale, unless it is the one to be set. *)
LEMMA FetchFailStep ==
    ASSUME ParamInv, FetchFail
    PROVE  ParamInv'
<1>1. pc = "fetch" /\ UNCHANGED <<det, cache, pc, op>>
  BY DEF FetchFail
<1>2. PICK p \in todo :
        /\ todo' = todo \ {p} /\ known' \in {known, known \cup {p}}
        /\ stale' = IF Matches(p) \/ BeingPut(p) THEN stale ELSE stale \cup {p}
  BY DEF FetchFail
<1>3. p \in Params
  BY <1>2 DEF ParamInv, OpInv
<1>4. OpInv'
  BY <1>1, <1>2, <1>3 DEF ParamInv, OpInv
<1>5. ValidInv'
  BY <1>1 DEF ParamInv, ValidInv
<1>6. CacheInv'
  <2> SUFFICES ASSUME NEW q \in known' \ (stale' \cup Misread)
               PROVE  Matches(q) \/ q \in todo' \/ BeingPut(q)
    BY <1>1 DEF CacheInv, Matches, BeingPut
  <2>1. CASE q = p
    BY <1>2, <2>1
  <2>2. CASE q # p
    <3>1. q \in known \ (stale \cup Misread)
      BY <1>2, <2>2
    <3> QED BY <1>2, <2>2, <3>1 DEF ParamInv, CacheInv
  <2> QED BY <2>1, <2>2
<1>7. SentInv'
  <2>1. op.do # "fetch" /\ op.p \notin stale' => op.p \notin stale
    BY <1>2
  <2> QED BY <1>1, <2>1 DEF ParamInv, SentInv
<1> QED BY <1>1, <1>4, <1>5, <1>6, <1>7
        DEF ParamInv, SuccessIsTrue, ReadsBackWhatWasWritten

(* With nothing left to be fetched an operation ends; a put sets, last of  *)
(* all, what it sent.                                                      *)
LEMMA EndStep ==
    ASSUME ParamInv, FetchEnd \/ PutEnd
    PROVE  ParamInv'
<1>1. /\ UNCHANGED <<det, known, op, todo, stale>>
      /\ pc = "fetch" /\ pc' = "idle" /\ todo = {}
  BY DEF FetchEnd, PutEnd, Return
<1>2. op.do \in PutOps \cup {"fetch"} /\ op.p \in Params
  BY <1>1 DEF ParamInv, OpInv, PutOps
<1>3. CASE FetchEnd
  <2>1. op.do = "fetch" /\ cache' = cache
    BY <1>3 DEF FetchEnd
  <2>2. OpInv'
    BY <1>1, <1>2, <2>1 DEF ParamInv, OpInv
  <2>3. ValidInv' /\ CacheInv'
    BY <1>1, <2>1 DEF ParamInv, ValidInv, CacheInv, Matches, BeingPut
  <2> QED BY <1>1, <2>1, <2>2, <2>3
          DEF ParamInv, SentInv, SuccessIsTrue, ReadsBackWhatWasWritten
<1>4. CASE PutEnd
  <2>1. op.do \in PutOps /\ cache' = [cache EXCEPT ![op.p] = Set(op)]
    BY <1>2, <1>4 DEF PutEnd
  <2>2. /\ DOMAIN cache' = Params /\ cache'[op.p] = Set(op)
        /\ \A q \in Params \ {op.p} : cache'[q] = cache[q]
    BY <1>2, <2>1 DEF ParamInv, OpInv
  <2>3. op.p \notin stale => det[op.p] = Sent(op)
    BY <1>1, <2>1 DEF ParamInv, SentInv, PutOps
  <2>4. OpInv'
    BY <1>1, <1>2, <2>2 DEF ParamInv, OpInv
  <2>5. ValidInv'
    BY <1>1 DEF ParamInv, ValidInv
  <2>6. CacheInv'
    <3> SUFFICES ASSUME NEW q \in known \ (stale \cup Misread) PROVE Matches(q)'
      BY <1>1 DEF CacheInv
    <3>1. CASE q = op.p
      <4>1. ToRaw(op.p, Set(op)) = Sent(op)
        BY <1>1, <2>1, <3>1, SentAndSet DEF ParamInv, SentInv
      <4> QED BY <1>1, <2>2, <2>3, <3>1, <4>1 DEF Matches
    <3>2. CASE q # op.p
      <4>1. q \in Params /\ Matches(q)
        BY <1>1, <3>2 DEF ParamInv, OpInv, CacheInv, BeingPut
      <4> QED BY <1>1, <2>2, <3>2, <4>1 DEF Matches
    <3> QED BY <3>1, <3>2
  <2>7. SuccessIsTrue'
    BY <1>1, <2>3 DEF SuccessIsTrue, Sent
  <2>8. ReadsBackWhatWasWritten'
    BY <1>1, <2>2 DEF ReadsBackWhatWasWritten, Set
  <2> QED BY <1>1, <2>4, <2>5, <2>6, <2>7, <2>8 DEF ParamInv, SentInv
<1> QED BY <1>3, <1>4

(* Every step keeps the invariant.                                         *)
LEMMA ParamStep == ParamInv /\ [Next]_vars => ParamInv'
<1> SUFFICES ASSUME ParamInv, [Next]_vars PROVE ParamInv'
  OBVIOUS
<1>1. ASSUME NEW p \in Params, NEW v \in Writes, Put(p, v) PROVE ParamInv'
  <2> DEFINE o == [do |-> "number", p |-> p, v |-> v]
  <2>1. pc = "idle" /\ Begin(o)
    BY <1>1 DEF Put
  <2>2. o.do = "number" /\ o.p \in Params /\ o.v \in Int
    BY ConstantsAssumption DEF ConstantsAssumption
  <2> HIDE DEF o
  <2> QED BY <2>1, <2>2, BeginStep DEF PutOps
<1>2. ASSUME NEW p \in Params, NEW v \in Writes, PutUnchanged(p, v)
      PROVE  ParamInv'
  BY <1>2, UnchangedStep
<1>3. ASSUME NEW w \in BoolWrites, PutBool(w[1], w[2]) PROVE ParamInv'
  <2> DEFINE o == [do |-> "bool", p |-> w[1], v |-> w[2]]
  <2>1. pc = "idle" /\ Begin(o)
    BY <1>3 DEF PutBool
  <2>2. w \in Params \X {0, 1}
    BY ConstantsAssumption DEF ConstantsAssumption
  <2>3. o.do = "bool" /\ o.p \in Params /\ <<o.p, o.v>> \in BoolWrites
    BY <2>2
  <2> HIDE DEF o
  <2> QED BY <2>1, <2>3, BeginStep DEF PutOps
<1>4. ASSUME NEW p \in Params, NEW s \in Strings, PutString(p, s) PROVE ParamInv'
  <2> DEFINE o == [do |-> "string", p |-> p, v |-> s]
  <2>1. pc = "idle" /\ Begin(o) /\ Kind[p] = "enum"
    BY <1>4 DEF PutString
  <2>2. o.do = "string" /\ o.p \in Params /\ o.p = p
    OBVIOUS
  <2> HIDE DEF o
  <2> QED BY <2>1, <2>2, BeginStep DEF PutOps
<1>5. ASSUME NEW p \in Params, Fetch(p) \/ ChangedElsewhere(p) PROVE ParamInv'
  BY <1>5, FetchStep, ElsewhereStep
<1>6. CASE UNCHANGED vars
  BY <1>6
  DEF vars, ParamInv, OpInv, ValidInv, CacheInv, SentInv, SuccessIsTrue,
      ReadsBackWhatWasWritten, Matches, BeingPut
<1> QED BY <1>1, <1>2, <1>3, <1>4, <1>5, <1>6, LearnStep, SendStep, SendFailStep,
           FetchNextStep, FetchFailStep, EndStep DEF Next

(* It holds in every behaviour; the theorems are its readable part.        *)
LEMMA ParamInvariant == Spec => []ParamInv
BY ParamInit, ParamStep, PTL DEF Spec

(* When put returns success, the detector has the value asked for, limited *)
(* or one within epsilon of it: whatever was fetched, adjusted along with  *)
(* it, skipped or failed meanwhile.                                        *)
THEOREM PutIsTrue == Spec => []SuccessIsTrue
<1>1. ParamInv => SuccessIsTrue
  BY DEF ParamInv
<1> QED BY <1>1, ParamInvariant, PTL

(* A client reads back the choice it wrote, also of an enumeration two of  *)
(* whose values are equal: put sets the index after its last fetch.        *)
THEOREM ChoiceIsReadBack == Spec => []ReadsBackWhatWasWritten
<1>1. ParamInv => ReadsBackWhatWasWritten
  BY DEF ParamInv
<1> QED BY <1>1, ParamInvariant, PTL

(* Between operations the asyn parameters say what the detector has, but   *)
(* those of whose change the driver was not told, and the enumerations     *)
(* that initParams puts as a bool.                                         *)
CoherentBut == pc = "idle" => \A p \in known \ (stale \cup Misread) : Matches(p)

(* That holds of every set of parameters, whatever initParams puts: fetch, *)
(* put and their callers leave nothing unread that they could have read.   *)
THEOREM CacheIsCoherentBut == Spec => []CoherentBut
<1>1. ParamInv => CoherentBut
  BY DEF ParamInv, CacheInv, CoherentBut
<1> QED BY <1>1, ParamInvariant, PTL

(* Where every parameter put as a bool is one, that is all of them: by the *)
(* order of fetchParams and setParam in put, and the two directions of     *)
(* every conversion.                                                       *)
THEOREM CacheIsCoherent ==
    ASSUME Misread = {}
    PROVE  Spec => []Coherent
<1>1. CoherentBut => Coherent
  BY DEF CoherentBut, Coherent
<1> QED BY <1>1, CacheIsCoherentBut, PTL
=============================================================================
