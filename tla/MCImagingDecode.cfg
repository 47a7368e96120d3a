CONSTANTS
    Stride = 5
    Header = 3
    Bridge = 2
    RunBridge = 1
    RunMin = 2
    LagMin = 1
    LagMax = 5
    TrackStep = 1
    TrackLambda = 1
    QMin = 2
    PeakLagMin = 2
    PeakDrop = 2
    HalfHold = 1
    Sep = 12
    Row = 8
    W = 3
    Pieces <- MCChancePieces
    Dlis <- MCDlis
    CorrRows <- MCCorrRows
    MinLines = 3
    MinContact = 2
    MinDecode = 2
    MinBand = 2
    MinCulled = 2
    MinGood = 1
    MinSwipeRows = 2
    MaxFeedRows = 3
    MaxPieces = 3
    MaxKept = 4
SPECIFICATION Spec
INVARIANTS LongestRunFound
