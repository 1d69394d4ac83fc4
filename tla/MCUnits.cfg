SPECIFICATION UnitsSpec
CONSTANTS
    t1 = t1
    t2 = t2
    t3 = t3
    Threads = {t1, t2, t3}
    Creator = t1
    Users = {1, 2, 3}
    Supplies = {"null", "object"}
    Null = "null"
    Junk = "junk"
    Nodes = {1, 2, 3, 4}
    NoNode = 0
    Key <- NodeKeys
    Values = {1, 2}
    Cells = 6
    Rubbish = 0
    Pads = {"ds4", "virtual"}
    PadPath <- PadPaths
    Inputs = {"stick", "motion", "touch", "pen", "remote", "uinput"}
    InputPath <- InputPaths
    WithJs = {"stick", "uinput"}
    WithAccel = {"motion"}
    HidNames = {"0003:054C:09CC.0001"}
    Numbers = {1, 2, 3, 4, 5, 6}
    NoNumber = 0
    AtStart <- NodesAtStart
    MaxGrabbed = 2
    MaxPlugs = 2
    Messages = {"m1", "m2"}
    NoMessage = "none"
    MaxSpurious = 2
    Versions = {"v1", "v2"}
    Content <- Databases
    Mine = {"a", "b"}
    Unended = {"v2"}
    MaxUpdates = 3
    Ip4 <- Ip4Texts
    Ip6 <- Ip6Texts
    Text4 <- Ip4Written
    Text6 <- Ip6Written
    Letters = {"f", "x"}
    MaxLabel = 3
    MaxHost = 7
    Texts <- AddressTexts
    Ports = {0, 8080}
    Names <- NamesInOrder
    OsVersion <- Webos54
    Files <- ModuleFiles
    Calls <- ModuleCalls
    ParameterSets <- WrittenSets
CHECK_DEADLOCK FALSE
INVARIANTS
    CountsHolders
    OneLast
    HeaviestVideo
    OneValue
    LinksHoldContent
    MemoryHoldsItems
    WrittenIsReadBack
    GrabsOwn
    FileTrueToEtag
    ListTrueToFile
    SelectionSound
    ContextLives
    ConstraintMeaning
    SizeIsRight
PROPERTIES
    CecStops
    LunaReturns
