SPECIFICATION Spec
CONSTANTS
    Kernels <- MCKernels
    MaxIter = 3
    MaxInner = 3
    Huge = 3
    Systems = 2
    SegPaths = 2
INVARIANTS
    NoRace
    NoDesync
    ReductionsAreComplete
    ReportedOnce
