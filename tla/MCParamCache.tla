---------------------------- MODULE MCParamCache ----------------------------
(* Instances of ParamCache for TLC: an energy with the threshold that the  *)
(* detector adjusts with it, a trigger mode two of whose values have one   *)
(* name in the detector, a number without a lower limit that drvUserCreate *)
(* adds later, a read-only state, and what initParams writes as bools.     *)
EXTENDS ParamCache

CONSTANTS photonEnergy, threshold, triggerMode, numImages, state,
          autoSummation, monitorMode,
          ints, exts, idle, acquire, disabled, enabled

SomeParams == {photonEnergy, threshold, triggerMode, numImages, state, autoSummation}

(* With the monitor's mode among the parameters Coherent fails without any *)
(* fault: initParams puts false to an enumeration that begins with it.     *)
InitParams == {autoSummation, monitorMode, photonEnergy, state, numImages}

SomeKinds == [p \in Params |->
    CASE p \in {photonEnergy, threshold} -> "double"
      [] p = numImages -> "uint"
      [] p = autoSummation -> "bool"
      [] OTHER -> "enum"]
SomeEnums == [p \in Params |->
    CASE p = triggerMode -> <<ints, exts, ints>>
      [] p = monitorMode -> <<disabled, enabled>>
      [] p = state -> <<idle, acquire>>
      [] OTHER -> <<>>]
SomeLower == [p \in Params \cap {photonEnergy, threshold} |-> 0]
SomeUpper == [p \in Params \cap {photonEnergy, threshold, numImages} |-> IF p = photonEnergy THEN 2 ELSE 1]
SomeEpsilon == [p \in Params |-> IF p = photonEnergy THEN 2 ELSE 0]
SomeLinked == [p \in Params |-> IF p = photonEnergy THEN Params \cap {threshold} ELSE {}]
SomeReadOnly == {state}
SomeLate == {numImages}
SomeNumbers == 0 .. 2
SomeFound == {[p \in Params |-> CHOOSE raw \in Raw(p) : TRUE]}
SomeWrites == -1 .. 3
SomeStrings == {ints, exts, acquire}
SomeBoolWrites == {w \in {<<autoSummation, 1>>, <<monitorMode, 0>>} : w[1] \in Params}
SomeDetConfig == Params \ {state, monitorMode}
=============================================================================
