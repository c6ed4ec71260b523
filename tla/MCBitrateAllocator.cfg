SPECIFICATION Spec
CONSTANTS
    Observers = {o1, o2, o3}
    Configs <- MCConfigs
    Targets = {0, 50, 61, 92, 130, 260, 900}
    StartRates = {300}
    Ratios = {70}
SYMMETRY ObserverSymmetry
INVARIANTS
    WithinTarget
    PausedOrMinimum
    StartRateKnown
PROPERTY
    ResumeWithHysteresis
