SPECIFICATION Spec
CONSTANTS
    Rates <- MCRates
    Times <- MCTimes
    Rtts = {5}
    MaxAge = 5600
    MaxMessages = 4
INVARIANT
    IncreaseDefined
PROPERTIES
    ChangesReported
    OveruseNeverRaises
    RecoversGently
