SPECIFICATION Spec
CONSTANTS
    MaxActions = 3
    MaxGpioFaults = 2
    MaxNames = 2
    Sentences = 4
    MAXINT = 110
    MaxField = 5
    FieldChars = {"0", "1", "9", ".", "+", "-", "space", "x"}
    MaxReads = 4
    MaxSlips = 2
    Letters <- MCLetters
    Settings <- MCSettings
    MaxLines = 4
    Groups <- MCGroups
    OptionNames <- MCOptionNames
    Sizes = {3, 8}
    SampleCodes <- MCSampleCodes
    SampleBytes <- MCSampleBytes
    MaxMessage = 3
    SampleCars <- MCSampleCars
    MaxAnswer = 8
INVARIANTS RelaysSettle SelectionIsLast CutsDoNotMatter RegisterIsOwn ConfigMeans InputsExact TablesInBounds
CHECK_DEADLOCK FALSE
