SPECIFICATION Spec
CONSTANTS
    t1 = t1
    t2 = t2
    None = None
    IntModulus = 256
    Threads = {t1, t2}
    Primaries = {1, 4}
    OwnAddresses <- Addresses1000And3200
    PeerAddress = 8192
    Destinations = {0, 16}
    Initiators = {4, 16, 103}
    Default = 103
    Data <- ThreeLengths
    MaxData = 2
    Texts <- SomeTexts
INVARIANTS
    TypeOK
    FrameAsAsked
    NumbersInRange
    InitiatorIsOurs
    AddressAsWritten
    OwnAddressShown
PROPERTIES
    PersistKeepsConfig
