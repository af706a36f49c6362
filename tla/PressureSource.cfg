SPECIFICATION Spec
CONSTANTS
    NSources = 2
    Timeout = 1
    Margin = 3
    Lifetimes = {5}
    Bodies <- MCBodies
    Broken = Broken
    Skip = Skip
    NonFinite = NonFinite
    MaxEntries = 2
    Percent = 2
INVARIANTS TokenIsFresh SampleIsTruth ShownIsTruth
