CONSTANTS
    Interval = 2
    MaxSample = 1
    MaxFrames = 3
    MaxClicks = 2
SPECIFICATION Spec
INVARIANTS IInv AverageIsExact StaleAtMostOnce SampleMeasuresItsFrame
