SPECIFICATION Spec
CONSTANTS
    photonEnergy = photonEnergy
    threshold = threshold
    triggerMode = triggerMode
    numImages = numImages
    state = state
    autoSummation = autoSummation
    monitorMode = monitorMode
    ints = ints
    exts = exts
    idle = idle
    acquire = acquire
    disabled = disabled
    enabled = enabled
    JsonTrue = JsonTrue
    JsonFalse = JsonFalse
    Params <- SomeParams
    Kind <- SomeKinds
    EnumValues <- SomeEnums
    Lower <- SomeLower
    Upper <- SomeUpper
    Epsilon <- SomeEpsilon
    DetConfig <- SomeDetConfig
    ReadOnly <- SomeReadOnly
    Linked <- SomeLinked
    Late <- SomeLate
    Numbers <- SomeNumbers
    Writes <- SomeWrites
    Strings <- SomeStrings
    BoolWrites <- SomeBoolWrites
    Found <- SomeFound
    MaxFaults = 2
INVARIANTS
    Coherent
    SuccessIsTrue
    ReadsBackWhatWasWritten
